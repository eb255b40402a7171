-------------------------------- MODULE SignIn --------------------------------
(***************************************************************************)
(* The sessions of one account and the browsers signed in to it, one tab   *)
(* each. A token names a session and carries the account's token_version;  *)
(* whatever ends every session moves the version on and, where a tab asked *)
(* for it, reissues that tab's session, in a second commit. The tab keeps  *)
(* its token in localStorage; any answer of 401 takes it away.             *)
(*                                                                         *)
(* Passwords, codes and time are left out: what is typed is right or wrong,*)
(* and nothing expires. Not in the code: `met`, the requests during which  *)
(* another committed; `overlapped`, that the version was raised from one   *)
(* already outdated, which two requests at once can do; `astray`, the      *)
(* sessions whose last token did not reach their tab or was given while    *)
(* another request committed; `outrun` of a link, that the version moved   *)
(* since it was asked for.                                                 *)
(***************************************************************************)
EXTENDS Integers, Sequences

CONSTANTS TabCount,    \* tabs, signed in at first
          Asks,        \* requests in flight at once
          MaxSessions, \* bound: sessions ever started
          MaxAsked     \* bound: requests, and mishaps to them

ASSUME SignInAssumption ==
    /\ TabCount \in Nat /\ MaxSessions \in Nat /\ MaxAsked \in Nat

VARIABLES account,    \* its version, whether it is active, its second factor
          sessions,   \* its sessions, in the order they started
          link,       \* the last reset link sent
          tab,        \* the page and the token of each tab
          ask,        \* the requests
          met, overlapped, astray,
          asked

accountVars == <<account, sessions, link>>
signInVars == <<account, sessions, link, tab, ask, met, overlapped, astray, asked>>

Tabs    == 1..TabCount
Nowhere == 0
NoToken == [sid |-> 0, ver |-> 0]

(* get_current_user: the account, its version, and the session.            *)
Live(s)         == ~sessions[s].ended /\ sessions[s].ver = account.version
Accepted(token) == /\ token # NoToken /\ account.active
                   /\ token.ver = account.version /\ Live(token.sid)

Unasked == [at |-> "free", kind |-> "use", from |-> Nowhere, token |-> NoToken,
            id |-> 0, ver |-> 0, change |-> "none", right |-> TRUE]

SignInInit ==
    /\ \E two \in BOOLEAN : account = [version |-> 0, active |-> TRUE, twofactor |-> two]
    /\ sessions = [s \in Tabs |-> [ver |-> 0, ended |-> FALSE]]
    /\ tab = [t \in Tabs |-> [page |-> "app", token |-> [sid |-> t, ver |-> 0],
                              pending |-> 0]]
    /\ link = [n |-> 0, there |-> FALSE, ver |-> 0, outrun |-> FALSE]
    /\ ask = [a \in Asks |-> Unasked]
    /\ met = {} /\ overlapped = FALSE /\ astray = {} /\ asked = 0

Flying(t, kinds) == \E a \in Asks : ask[a].at # "free" /\ ask[a].from = t /\ ask[a].kind \in kinds

(* The token goes along as it is in localStorage when the request is made. *)
SendOff(a, kind, from, token, id, ver, change, right) ==
    /\ ask[a].at = "free" /\ asked < MaxAsked /\ asked' = asked + 1
    /\ ask' = [ask EXCEPT ![a] = [at |-> "sent", kind |-> kind, from |-> from, token |-> token,
                                  id |-> id, ver |-> ver, change |-> change, right |-> right]]
    /\ UNCHANGED <<accountVars, met, overlapped>>

Finish(a) == ask' = [ask EXCEPT ![a] = Unasked] /\ met' = met \ {a}
Turns(a, at) == ask' = [ask EXCEPT ![a].at = at]
Does(a, kinds, at) == ask[a].kind \in kinds /\ ask[a].at = at

-----------------------------------------------------------------------------
(* In the tab. *)

(* Anything the app asks for with the token it has.                        *)
Work(a, t) ==
    /\ tab[t].page = "app"
    /\ SendOff(a, "use", t, tab[t].token, 0, 0, "none", TRUE)
    /\ UNCHANGED <<tab, astray>>

(* A new password, "sign out everywhere", the second factor on or off.     *)
Secure(a, t, change) ==
    /\ tab[t].page = "app"
    /\ SendOff(a, "secure", t, tab[t].token, tab[t].token.sid, 0, change, TRUE)
    /\ UNCHANGED <<tab, astray>>

RevokeOther(a, t, s) ==
    /\ tab[t].page = "app" /\ s # tab[t].token.sid
    /\ SendOff(a, "revoke", t, tab[t].token, s, 0, "none", TRUE)
    /\ UNCHANGED <<tab, astray>>

(* The browser forgets its token whatever the server says, and does not    *)
(* listen to what it says.                                                 *)
LogOut(a, t) ==
    /\ tab[t].page = "app"
    /\ SendOff(a, "signout", Nowhere, tab[t].token, tab[t].token.sid, 0, "none", TRUE)
    /\ tab' = [tab EXCEPT ![t].page = "login", ![t].token = NoToken]
    /\ UNCHANGED astray

LogIn(a, t, right) ==
    /\ tab[t].page = "login" /\ ~Flying(t, {"login"})
    /\ SendOff(a, "login", t, NoToken, 0, 0, "none", right)
    /\ UNCHANGED <<tab, astray>>

EnterCode(a, t, right) ==
    /\ tab[t].page = "code" /\ ~Flying(t, {"verify"})
    /\ SendOff(a, "verify", t, NoToken, 0, tab[t].pending, "none", right)
    /\ UNCHANGED <<tab, astray>>

StartOver(t) ==
    /\ tab[t].page = "code" /\ tab' = [tab EXCEPT ![t].page = "login", ![t].pending = 0]
    /\ UNCHANGED <<accountVars, ask, met, overlapped, astray, asked>>

(* The page is loaded anew, by the person or by a 401, and what was under  *)
(* way is answered to nobody.                                              *)
LoadPage(t) ==
    /\ tab' = [tab EXCEPT
           ![t].page = IF @ = "leaving" \/ tab[t].token = NoToken THEN "login" ELSE "app",
           ![t].pending = 0]
    /\ ask' = [a \in Asks |-> IF ask[a].from = t THEN [ask[a] EXCEPT !.from = Nowhere] ELSE ask[a]]
    /\ UNCHANGED <<accountVars, met, overlapped, astray, asked>>

-----------------------------------------------------------------------------
(* From elsewhere: the forgotten password, and a site admin. *)

AskForLink(a) == SendOff(a, "forget", Nowhere, NoToken, 0, 0, "none", TRUE) /\ UNCHANGED <<tab, astray>>

UseLink(a, n) ==
    /\ n \in 1..link.n
    /\ SendOff(a, "reset", Nowhere, NoToken, n, 0, "none", TRUE) /\ UNCHANGED <<tab, astray>>

Manage(a, change) ==
    /\ SendOff(a, "manage", Nowhere, NoToken, 0, 0, change, TRUE) /\ UNCHANGED <<tab, astray>>

-----------------------------------------------------------------------------
(* The server. *)

(* What the request finds decides how it goes on.                          *)
AfterToken(a) ==
    LET r == ask[a]
    IN  IF ~Accepted(r.token) THEN "unauthorised"
        ELSE IF r.kind = "use" THEN "answer"
        ELSE IF \/ r.kind = "revoke" /\ ~Live(r.id)
                \/ r.change = "on" /\ account.twofactor
                \/ r.change = "off" /\ ~account.twofactor THEN "refused"
        ELSE "write"

AfterPassword(a) ==
    IF ~ask[a].right THEN "unauthorised"
    ELSE IF ~account.active THEN "refused"
    ELSE IF account.twofactor THEN "answer" ELSE "read"

Expired(a) == ~account.active \/ ~account.twofactor \/ account.version # ask[a].ver
AfterCode(a) == IF Expired(a) \/ ~ask[a].right THEN "unauthorised" ELSE "read"

(* Mutant: a link outlives the sessions.                                   *)
LinkUsableStill == account.active

(* reset_password: the version has not moved on since the link was sent.   *)
LinkUsable == account.active /\ link.ver = account.version

Look(a) ==
    LET r == ask[a]
    IN  /\ r.at = "sent"
        /\ ask' = [ask EXCEPT ![a] = [r EXCEPT
               !.at = CASE r.kind \in {"use", "secure", "revoke", "signout"} -> AfterToken(a)
                        [] r.kind = "login"  -> AfterPassword(a)
                        [] r.kind = "verify" -> AfterCode(a)
                        [] r.kind = "forget" -> IF account.active THEN "write" ELSE "answer"
                        [] r.kind = "reset"  -> IF link.there /\ link.n = r.id THEN "write" ELSE "refused"
                        [] r.kind = "manage" -> "write",
               !.ver = account.version,
               !.right = CASE r.kind = "verify" -> Expired(a) \/ r.right
                           [] r.kind = "reset"  -> LinkUsable
                           [] r.kind = "manage" -> account.active
                           [] OTHER             -> r.right]]
        /\ UNCHANGED <<accountVars, tab, met, overlapped, astray, asked>>

Meets(a) == met' = met \cup {b \in Asks \ {a} : ask[b].at \notin {"free", "sent"}}

(* Every session ends: the version found goes up by one. A link sent at    *)
(* another version is dead with them.                                      *)
MovesOn(a, active, twofactor) ==
    /\ account' = [version |-> ask[a].ver + 1, active |-> active, twofactor |-> twofactor]
    /\ overlapped' = (overlapped \/ account.version # ask[a].ver)
    /\ Meets(a)

Outrun == [link EXCEPT !.outrun = link.there]

CommitSecured(a) ==
    /\ Does(a, {"secure"}, "write")
    /\ MovesOn(a, account.active,
               IF ask[a].change = "none" THEN account.twofactor ELSE ask[a].change = "on")
    /\ link' = Outrun /\ Turns(a, "read")
    /\ UNCHANGED <<sessions, tab, astray, asked>>

(* The link is spent whether or not it works.                              *)
CommitReset(a) ==
    /\ Does(a, {"reset"}, "write")
    /\ IF ask[a].right THEN MovesOn(a, account.active, account.twofactor)
       ELSE Meets(a) /\ UNCHANGED <<account, overlapped>>
    /\ link' = [link EXCEPT !.there = link.there /\ link.n # ask[a].id,
                            !.outrun = link.there /\ link.n # ask[a].id /\ (link.outrun \/ ask[a].right)]
    /\ Turns(a, IF ask[a].right THEN "answer" ELSE "refused")
    /\ UNCHANGED <<sessions, tab, astray, asked>>

(* One live link: asking again replaces the last.                          *)
CommitLink(a) ==
    /\ Does(a, {"forget"}, "write")
    /\ link' = [n |-> link.n + 1, there |-> TRUE, ver |-> ask[a].ver,
                outrun |-> account.version # ask[a].ver]
    /\ Meets(a) /\ Turns(a, "answer")
    /\ UNCHANGED <<account, sessions, tab, overlapped, astray, asked>>

(* Mutant: a deactivated account is only turned away, its sessions left.   *)
EndsAllButInactive(change, found) == change \in {"end", "clear"}

(* The site admin ends the sessions (or sets a password), clears the second*)
(* factor, deactivates -- which moves the version on only from active --   *)
(* and reactivates, which does not.                                        *)
EndsAll(change, found) == change \in {"end", "clear"} \/ (change = "deactivate" /\ found)

CommitManaged(a) ==
    LET change == ask[a].change
        found  == ask[a].right
        active == CASE change = "deactivate" /\ found  -> FALSE
                    [] change = "reactivate" /\ ~found -> TRUE
                    [] OTHER                           -> account.active
    IN  /\ Does(a, {"manage"}, "write")
        /\ IF EndsAll(change, found)
           THEN MovesOn(a, active, account.twofactor /\ change # "clear") /\ link' = Outrun
           ELSE /\ account' = [account EXCEPT !.active = active]
                /\ Meets(a) /\ UNCHANGED <<overlapped, link>>
        /\ Turns(a, "answer")
        /\ UNCHANGED <<sessions, tab, astray, asked>>

CommitEnded(a) ==
    /\ Does(a, {"revoke", "signout"}, "write")
    /\ sessions' = [sessions EXCEPT ![ask[a].id].ended = TRUE]
    /\ Meets(a) /\ Turns(a, "answer")
    /\ UNCHANGED <<account, link, tab, overlapped, astray, asked>>

(* reissue, start: the account is read again; a session that already has   *)
(* its version is not written.                                             *)
ReadVersion(a) ==
    /\ ask[a].at = "read"
    /\ ask' = [ask EXCEPT ![a].ver = account.version,
                          ![a].at = IF /\ ask[a].kind = "secure"
                                       /\ sessions[ask[a].id].ver = account.version
                                    THEN "token" ELSE "row"]
    /\ UNCHANGED <<accountVars, tab, met, overlapped, astray, asked>>

(* Mutant: the row is left at its version.                                 *)
BroughtNowhere(s, ver) == sessions

Brought(s, ver) == [sessions EXCEPT ![s].ver = ver]

Reissue(a) ==
    /\ Does(a, {"secure"}, "row")
    /\ sessions' = Brought(ask[a].id, ask[a].ver)
    /\ Meets(a) /\ Turns(a, "token")
    /\ UNCHANGED <<account, link, tab, overlapped, astray, asked>>

Start(a) ==
    /\ Does(a, {"login", "verify"}, "row") /\ Len(sessions) < MaxSessions
    /\ sessions' = Append(sessions, [ver |-> ask[a].ver, ended |-> FALSE])
    /\ ask' = [ask EXCEPT ![a].id = Len(sessions) + 1, ![a].at = "token"]
    /\ Meets(a)
    /\ UNCHANGED <<account, link, tab, overlapped, astray, asked>>

MakeToken(a) ==
    /\ ask[a].at = "token"
    /\ ask' = [ask EXCEPT ![a].token = [sid |-> ask[a].id, ver |-> account.version],
                          ![a].at = "answer"]
    /\ UNCHANGED <<accountVars, tab, met, overlapped, astray, asked>>

(* A process dies, the database refuses, or the answer is lost; before     *)
(* there is anything to write it is as if nothing had been asked.          *)
Mishap(a) ==
    /\ ask[a].at \in {"write", "row", "token", "answer"} /\ ask[a].kind # "use"
    /\ asked < MaxAsked /\ asked' = asked + 1
    /\ Turns(a, "refused")
    /\ astray' = IF ask[a].kind = "secure" THEN astray \cup {ask[a].id} ELSE astray
    /\ UNCHANGED <<accountVars, tab, met, overlapped>>

-----------------------------------------------------------------------------
(* Back in the tab. *)

(* The interceptor: the token that is there goes, whichever was refused,   *)
(* and unless it is the sign-in page the page goes with it.                *)
Unauthorised(a) ==
    LET t == ask[a].from
    IN  /\ ask[a].at = "unauthorised" /\ t # Nowhere
        /\ tab' = [tab EXCEPT
               ![t].page = IF @ = "app" THEN "leaving"
                           ELSE IF @ = "code" /\ ask[a].kind = "verify" /\ ask[a].right THEN "login"
                           ELSE @,
               ![t].token = NoToken]
        /\ Finish(a)
        /\ UNCHANGED <<accountVars, overlapped, astray, asked>>

AdoptAs(a, token) ==
    LET t == ask[a].from
    IN  /\ Does(a, {"secure"}, "answer") /\ t # Nowhere
        /\ tab' = [tab EXCEPT ![t].token = token]
        /\ astray' = IF a \in met THEN astray \cup {ask[a].id} ELSE astray \ {ask[a].id}
        /\ Finish(a)
        /\ UNCHANGED <<accountVars, overlapped, asked>>

(* Mutant: the answer is not looked at.                                    *)
AdoptNothing(a) == ask[a].from # Nowhere /\ AdoptAs(a, tab[ask[a].from].token)

(* setSession, wherever the tab has got to.                                *)
Adopt(a) == AdoptAs(a, ask[a].token)

SignedIn(a) ==
    LET t == ask[a].from
    IN  /\ Does(a, {"login", "verify"}, "answer") /\ t # Nowhere /\ ask[a].token # NoToken
        /\ tab' = [tab EXCEPT ![t].page = "app", ![t].token = ask[a].token,
                                ![t].pending = 0]
        /\ astray' = IF a \in met THEN astray \cup {ask[a].id} ELSE astray \ {ask[a].id}
        /\ Finish(a)
        /\ UNCHANGED <<accountVars, overlapped, asked>>

AskedForCode(a) ==
    LET t == ask[a].from
    IN  /\ Does(a, {"login"}, "answer") /\ t # Nowhere /\ ask[a].token = NoToken
        /\ tab' = [tab EXCEPT ![t].page = "code", ![t].pending = ask[a].ver]
        /\ Finish(a)
        /\ UNCHANGED <<accountVars, overlapped, astray, asked>>

(* Nothing but a message, or nobody there to be answered.                  *)
Passed(a) ==
    /\ \/ ask[a].at = "refused"
       \/ ask[a].at = "answer" /\ ask[a].kind \notin {"secure", "login", "verify"}
       \/ ask[a].at \in {"answer", "unauthorised"} /\ ask[a].from = Nowhere
    /\ astray' = IF ask[a].kind = "secure" THEN astray \cup {ask[a].id} ELSE astray
    /\ Finish(a)
    /\ UNCHANGED <<accountVars, tab, overlapped, asked>>

-----------------------------------------------------------------------------
SignInTabStep(t) ==
    \/ StartOver(t) \/ LoadPage(t)
    \/ \E a \in Asks :
           \/ Work(a, t) \/ LogOut(a, t)
           \/ \E change \in {"none", "on", "off"} : Secure(a, t, change)
           \/ \E s \in 1..Len(sessions) : RevokeOther(a, t, s)
           \/ \E right \in BOOLEAN : LogIn(a, t, right) \/ EnterCode(a, t, right)

ElsewhereStep(a) ==
    \/ AskForLink(a) \/ \E n \in 1..link.n : UseLink(a, n)
    \/ \E change \in {"end", "clear", "deactivate", "reactivate"} : Manage(a, change)

AccountStep(a) ==
    \/ Look(a) \/ CommitSecured(a) \/ CommitReset(a) \/ CommitLink(a) \/ CommitManaged(a)
    \/ CommitEnded(a) \/ ReadVersion(a) \/ Reissue(a) \/ Start(a) \/ MakeToken(a) \/ Mishap(a)

AnswerStep(a) == Unauthorised(a) \/ Adopt(a) \/ SignedIn(a) \/ AskedForCode(a) \/ Passed(a)

SignInNext ==
    \/ \E t \in Tabs : SignInTabStep(t)
    \/ \E a \in Asks : ElsewhereStep(a) \/ AccountStep(a) \/ AnswerStep(a)

SignInSpec == SignInInit /\ [][SignInNext]_signInVars

-----------------------------------------------------------------------------
Pages   == {"app", "login", "code", "leaving"}
Kinds   == {"use", "secure", "revoke", "signout", "login", "verify", "forget", "reset", "manage"}
Stages  == {"free", "sent", "write", "read", "row", "token", "answer", "refused", "unauthorised"}
Changes == {"none", "on", "off", "end", "clear", "deactivate", "reactivate"}
Token   == [sid : Nat, ver : Nat]
AskType == [at : Stages, kind : Kinds, from : Tabs \cup {Nowhere}, token : Token,
            id : Nat, ver : Nat, change : Changes, right : BOOLEAN]

(* Type correctness: a token names a session there is, or is none.         *)
SignInTypeOK ==
    /\ account \in [version : Nat, active : BOOLEAN, twofactor : BOOLEAN]
    /\ sessions \in Seq([ver : Nat, ended : BOOLEAN])
    /\ link \in [n : Nat, there : BOOLEAN, ver : Nat, outrun : BOOLEAN]
    /\ tab \in [Tabs -> [page : Pages, token : Token, pending : Nat]]
    /\ ask \in [Asks -> AskType]
    /\ met \subseteq Asks /\ overlapped \in BOOLEAN /\ astray \subseteq Nat /\ asked \in Nat
    /\ \A t \in Tabs : tab[t].token.sid \in 0..Len(sessions)
    /\ \A a \in Asks : ask[a].token.sid \in 0..Len(sessions)

(* "End every session but this one": when nobody else commits meanwhile,   *)
(* the tab is answered with a token that works, and no other session does  *)
(* -- nor any at all after a reset or a site admin -- unless two requests  *)
(* have raised the version from the same value, so that it may come to one *)
(* a session was given before. (identity.py, sessions.py,                  *)
(* password_reset.py, admin.py)                                            *)
EndsSessions(a) ==
    \/ ask[a].kind \in {"secure", "reset"}
    \/ ask[a].kind = "manage" /\ ask[a].change # "reactivate"
SecuringWorks ==
    SignInTypeOK /\ \A a \in Asks \ met : ask[a].at = "answer" /\ EndsSessions(a) =>
        /\ ask[a].kind = "secure" => Accepted(ask[a].token)
        /\ overlapped \/ \A s \in 1..Len(sessions) :
               Live(s) /\ account.active => ask[a].kind = "secure" /\ s = ask[a].id

(* "An old email can't undo the owner's later change": a link that is      *)
(* about to work is the last one asked for, and nothing has ended the      *)
(* sessions since. (password_reset.py)                                     *)
LinkIsTheLatestWord ==
    overlapped \/ \A a \in Asks \ met : Does(a, {"reset"}, "write") /\ ask[a].right =>
                      link.there /\ ask[a].id = link.n /\ ~link.outrun

(* With nothing of its own under way a tab in the app has a token, and a   *)
(* tab's token is the one its session was last given, so that only an end  *)
(* of the session turns it away -- unless a token was lost on the way or   *)
(* given while another request committed. (AuthContext.tsx, sessions.py)   *)
TabKeepsUp ==
    \A t \in Tabs :
        /\ tab[t].page = "app" => tab[t].token # NoToken
        /\ tab[t].token # NoToken /\ tab[t].token.sid \notin astray
           /\ (\A a \in Asks : ask[a].kind = "secure" => ask[a].id # tab[t].token.sid)
           => tab[t].token.ver = sessions[tab[t].token.sid].ver

(* What is over stays over: a session revoked or signed out of is never    *)
(* un-ended by a reissue under way, and a token once turned away is never  *)
(* accepted again, not even when a deactivated account is active again --  *)
(* unless it was given while another request committed. (sessions.py,      *)
(* identity.py, admin.py)                                                  *)
OverForGood ==
    [][/\ \A s \in 1..Len(sessions) : sessions[s].ended => sessions'[s].ended
       /\ \A t \in Tabs :
              /\ tab[t].token # NoToken /\ ~Accepted(tab[t].token)
              /\ tab'[t].token = tab[t].token /\ tab[t].token.sid \notin astray /\ ~overlapped'
              => ~Accepted(tab[t].token)']_signInVars

=============================================================================
