---------------------------- MODULE MCWorkspace ----------------------------
(***************************************************************************)
(* Five components that share no variable, checked in one run: a behaviour *)
(* is a behaviour of the component its `scene` names, the others staying   *)
(* as they were initially -- Live updates as a tab opened in the           *)
(* background. The states to search are the sum of theirs.                 *)
(***************************************************************************)
EXTENDS LiveUpdates, BoardOrder, TicketFiles, TicketSchedules, CodeLinks

CONSTANTS u1, u2, c1

(* The board: cards 1 to 3 filed one after the other, or with a key shared *)
(* by two, card 4 not filed yet; u2 does not see card 2.                   *)
MCCards == 1..4
MCFiled == 1..3
AsFiled == [c \in MCCards |-> IF c \in MCFiled THEN -Unit * (c - 1) ELSE 0]
MCKeys  == {AsFiled, [AsFiled EXCEPT ![3] = AsFiled[2]]}
MCShown == [u \in Users |-> IF u = u1 THEN Cards ELSE Cards \ {2}]
MCGrain == [n \in 0..MaxMoves |-> 8 \div 2^n]

(* Two forms of a schedule: every day, waiting; the first day, not.        *)
MCForms == {[occurs |-> {0, 1}, waits |-> TRUE], [occurs |-> {0}, waits |-> FALSE]}

VARIABLE scene
workspaceVars == <<scene, liveVars, orderVars, filesVars, schedVars, linkVars>>

Scenes == {"live", "order", "files", "schedules", "links"}

WorkspaceInit ==
    /\ scene \in Scenes
    /\ LiveInit /\ OrderInit /\ FilesInit /\ SchedInit /\ LinksInit
    /\ scene # "live" => ~visible
    /\ scene # "order" => rank = AsFiled /\ \A c \in OnBoard(column) : column[c] = c1
    /\ scene # "schedules" => ~schedule.form.waits

LiveScene      == scene = "live" /\ LiveNext
                  /\ UNCHANGED <<scene, orderVars, filesVars, schedVars, linkVars>>
OrderScene     == scene = "order" /\ OrderNext
                  /\ UNCHANGED <<scene, liveVars, filesVars, schedVars, linkVars>>
FilesScene     == scene = "files" /\ FilesNext
                  /\ UNCHANGED <<scene, liveVars, orderVars, schedVars, linkVars>>
SchedulesScene == scene = "schedules" /\ SchedNext
                  /\ UNCHANGED <<scene, liveVars, orderVars, filesVars, linkVars>>
LinksScene     == scene = "links" /\ LinksNext
                  /\ UNCHANGED <<scene, liveVars, orderVars, filesVars, schedVars>>

WorkspaceNext == LiveScene \/ OrderScene \/ FilesScene \/ SchedulesScene \/ LinksScene

(* The fairness of each component, in its scene.                          *)
WorkspaceSpec ==
    /\ WorkspaceInit /\ [][WorkspaceNext]_workspaceVars
    /\ \A e \in Written : WF_liveVars(scene = "live" /\ Publish(e))
    /\ WF_liveVars(scene = "live" /\ StreamLoop)
    /\ WF_liveVars(scene = "live" /\ Loading)
    /\ \A m \in Moves : WF_liveVars(scene = "live" /\ Ending(m))
    /\ \A w \in Workers : WF_schedVars(scene = "schedules" /\ SweepStep(w))

=============================================================================
