--------------------------- MODULE MCWebhookOutbox ---------------------------
(***************************************************************************)
(* Small instances of WebhookOutbox for TLC.                               *)
(***************************************************************************)
EXTENDS WebhookOutbox, TLC

\* The code tells neither loops nor webhooks apart.
LoopSymmetry == Permutations(Workers)
HookSymmetry == Permutations(Hooks)
=============================================================================
