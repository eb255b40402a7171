---------------------------- MODULE MCTicketBoard ----------------------------
(***************************************************************************)
(* Small instances of TicketBoard for TLC.                                 *)
(***************************************************************************)
EXTENDS TicketBoard, TLC

\* The code tells neither tickets, teams nor requests apart.
Alike == Permutations(Tickets) \cup Permutations(Teams) \cup Permutations(Handlers)
=============================================================================
