------------------------------ MODULE MCBrowser ------------------------------
(***************************************************************************)
(* Two parts of the front end that share no variable, checked in one run:  *)
(* a behaviour is a behaviour of the one its `scene` names, the other      *)
(* staying as it was initially. The states to search are the sum of theirs.*)
(***************************************************************************)
EXTENDS TimeLog, SignIn, TLC

(* Requests to sign in are alike.                                          *)
Alike == Permutations(Asks)

(* A day with nothing on it, and one with two entries.                     *)
MCDays == {[i \in Ids |-> 0], [i \in Ids |-> IF i <= 2 THEN 1 ELSE 0]}

VARIABLE scene
browserVars == <<scene, timeVars, signInVars>>

(* A day with nothing on it, or two entries and the ticket done. The second*)
(* factor on at first: without it a code would be asked for only after more*)
(* requests than there are.                                                *)
BrowserInit ==
    /\ scene \in {"time", "signin"}
    /\ TimeInit /\ SignInInit
    /\ left = Unset /\ (done <=> Logged = 2)
    /\ scene = "signin" => done
    /\ account.twofactor

TimeScene   == scene = "time" /\ TimeNext /\ UNCHANGED <<scene, signInVars>>
SignInScene == scene = "signin" /\ SignInNext /\ UNCHANGED <<scene, timeVars>>

BrowserNext == TimeScene \/ SignInScene
BrowserSpec == BrowserInit /\ [][BrowserNext]_browserVars

=============================================================================
