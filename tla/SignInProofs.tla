----------------------------- MODULE SignInProofs -----------------------------
(***************************************************************************)
(* Proofs about SignIn, for every number of tabs, requests, sessions and   *)
(* mishaps.                                                                *)
(***************************************************************************)
EXTENDS SignIn, SequenceTheorems, TLAPS

Secures == {"secure"}
Signs   == {"login", "verify"}
Begun   == {"read", "row", "token", "answer"}

Row == [ver : Nat, ended : BOOLEAN]

Of(a, kinds, stages) == ask[a].kind \in kinds /\ ask[a].at \in stages

(* What a request is about, by what it asks for and how far it is.         *)
WellShaped(a) ==
    /\ ask[a].token.sid = 0 => ask[a].token = NoToken
    /\ ask[a].at = "free" => ask[a] = Unasked
    /\ ask[a].kind = "secure" =>
           /\ ask[a].token.sid = ask[a].id
           /\ ask[a].at \in {"write", "read", "row", "token", "answer"} => ask[a].id # 0
    /\ ask[a].kind \in Signs =>
           /\ ask[a].id \in 0..Len(sessions)
           /\ ask[a].token = NoToken \/ (ask[a].token.sid = ask[a].id /\ ask[a].at # "sent")
           /\ ask[a].at \in {"sent", "row", "read"} => ask[a].id = 0
           /\ ask[a].at = "token" => ask[a].id # 0
    /\ ask[a].at \in {"read", "row", "token"} => ask[a].kind \in Secures \cup Signs
    /\ ask[a].kind = "manage" => ask[a].change \in {"end", "clear", "deactivate", "reactivate"}

Shaped == \A a \in Asks : WellShaped(a)

TabsShaped ==
    \A t \in Tabs : /\ tab[t].token.sid = 0 => tab[t].token = NoToken
                    /\ tab[t].page = "app" => tab[t].token # NoToken

(* A session is one tab's: no other has its token or is to be given it.    *)
OneTabEach ==
    /\ \A t, u \in Tabs : t # u /\ tab[t].token.sid # 0 => tab[u].token.sid # tab[t].token.sid
    /\ \A a \in Asks : Of(a, Secures, Stages) /\ ask[a].from # Nowhere /\ ask[a].id # 0 =>
           /\ \A u \in Tabs : u # ask[a].from => tab[u].token.sid # ask[a].id
           /\ \A b \in Asks : Of(b, Secures, Stages) /\ ask[b].from # Nowhere /\ ask[b].id = ask[a].id
                  => ask[b].from = ask[a].from
    /\ \A a \in Asks : Of(a, Signs, Stages) /\ ask[a].id # 0 =>
           /\ \A u \in Tabs : tab[u].token.sid # ask[a].id
           /\ \A b \in Asks : b # a /\ Of(b, Secures \cup Signs, Stages) => ask[b].id # ask[a].id

(* What a request found still holds, when nobody committed meanwhile.      *)
SecureUnmet(a) ==
    /\ account.active /\ ~sessions[ask[a].id].ended
    /\ ask[a].at \in {"write", "row"} => ask[a].ver = account.version
    /\ ask[a].at \in {"token", "answer"} => sessions[ask[a].id].ver = account.version
    /\ ask[a].at = "answer" => ask[a].token = [sid |-> ask[a].id, ver |-> account.version]

SignUnmet(a) ==
    /\ account.active
    /\ ask[a].at = "row" => ask[a].ver = account.version
    /\ ask[a].at = "token" \/ ask[a].token # NoToken => sessions[ask[a].id].ver = account.version
    /\ ask[a].token # NoToken => ask[a].token = [sid |-> ask[a].id, ver |-> account.version]

ResetUnmet(a) ==
    ask[a].right => /\ account.active /\ ask[a].ver = account.version
                    /\ link.there /\ link.n = ask[a].id /\ link.ver = account.version

ManageUnmet(a) == ask[a].ver = account.version /\ ask[a].right = account.active

StillTrue(a) ==
    /\ Of(a, Secures, {"write"} \cup Begun) => SecureUnmet(a)
    /\ Of(a, Signs, Begun) => SignUnmet(a)
    /\ Of(a, {"reset"}, {"write"}) => ResetUnmet(a)
    /\ Of(a, {"manage"}, {"write"}) => ManageUnmet(a)

Unmet == \A a \in Asks \ met : StillTrue(a)

(* Versions only go up.                                                    *)
NoneAhead ==
    /\ \A s \in 1..Len(sessions) : sessions[s].ver <= account.version
    /\ \A t \in Tabs : tab[t].token.ver <= account.version /\ tab[t].pending <= account.version
    /\ \A a \in Asks : ask[a].token.ver <= account.version /\ ask[a].ver <= account.version
    /\ link.ver <= account.version
    /\ link.there /\ link.ver = account.version => ~link.outrun

(* A session being reissued: whoever has a token for it has an outdated one*)
OneReissueEach ==
    \A a \in Asks : Of(a, Secures, Begun) =>
        /\ \A t \in Tabs : tab[t].token.sid = ask[a].id => tab[t].token.ver < account.version
        /\ \A b \in Asks \ {a} :
               /\ ask[b].at = "sent" /\ ask[b].token.sid = ask[a].id => ask[b].token.ver < account.version
               /\ Of(b, Secures, {"write"}) /\ ask[b].id = ask[a].id => ask[b].ver < account.version
               /\ Of(b, Secures, Begun) => ask[b].id # ask[a].id

(* Nobody committed since: the others are outdated.                        *)
Outdates(a) ==
    /\ Of(a, Secures, Begun) => \A s \in 1..Len(sessions) : s # ask[a].id => sessions[s].ver < account.version
    /\ Of(a, {"reset"}, {"answer"}) => \A s \in 1..Len(sessions) : sessions[s].ver < account.version
    /\ Of(a, {"manage"}, {"answer"}) /\ ask[a].change # "reactivate" =>
           ~account.active \/ \A s \in 1..Len(sessions) : sessions[s].ver < account.version

OthersOutdated == \A a \in Asks \ met : Outdates(a)

(* A token at the account's version is the session's, of an active account.*)
TokensFit ==
    \A t \in Tabs : tab[t].token # NoToken /\ tab[t].token.sid \notin astray
                    /\ tab[t].token.ver = account.version =>
        account.active /\ sessions[tab[t].token.sid].ver = account.version

LastGiven ==
    \A t \in Tabs : /\ tab[t].token # NoToken /\ tab[t].token.sid \notin astray
                    /\ \A a \in Asks : Of(a, Secures, {"token", "answer"}) => ask[a].id # tab[t].token.sid
        => tab[t].token.ver = sessions[tab[t].token.sid].ver

InOrder == NoneAhead /\ OneReissueEach /\ OthersOutdated /\ TokensFit

SignInInv ==
    /\ SignInTypeOK /\ Shaped /\ TabsShaped /\ OneTabEach /\ Unmet /\ LastGiven
    /\ overlapped \/ InOrder

-----------------------------------------------------------------------------
(* Steps. *)

(* Request a becomes `new`, and the others stay.                           *)
Becomes(a, new) ==
    /\ new \in AskType /\ ask' \in [Asks -> AskType] /\ ask'[a] = new
    /\ \A b \in Asks : b # a => ask'[b] = ask[b]

(* A step of one request writes it, and no other.                          *)
LEMMA Becoming ==
    ASSUME SignInTypeOK, NEW a \in Asks, NEW new \in AskType, ask' = [ask EXCEPT ![a] = new]
    PROVE  Becomes(a, new)
BY DEF SignInTypeOK, Becomes

(* It goes on to another stage, or is over.                                *)
LEMMA Turning ==
    ASSUME SignInTypeOK, NEW a \in Asks
    PROVE  /\ ask[a] \in AskType
           /\ \A at \in Stages : Turns(a, at) => Becomes(a, [ask[a] EXCEPT !.at = at])
           /\ Finish(a) => Becomes(a, Unasked) /\ met' = met \ {a}
<1>1. ask[a] \in AskType
  BY DEF SignInTypeOK
<1>2. ASSUME NEW at \in Stages, Turns(a, at)
      PROVE  Becomes(a, [ask[a] EXCEPT !.at = at])
  <2> DEFINE new == [ask[a] EXCEPT !.at = at]
  <2>1. new \in AskType
    BY <1>1 DEF AskType
  <2>2. ask' = [ask EXCEPT ![a] = new]
    BY <1>2 DEF Turns
  <2> QED
    BY <2>1, <2>2, Becoming
<1>3. Unasked \in AskType
  BY DEF Unasked, AskType, Stages, Kinds, Changes, Token, NoToken, Nowhere
<1>4. Finish(a) => Becomes(a, Unasked) /\ met' = met \ {a}
  BY <1>3, Becoming DEF Finish
<1> QED
  BY <1>1, <1>2, <1>4

(* What may be asked: with the token of the tab that asks, or with none.   *)
AskedInTab(new, t) ==
    /\ tab[t].page = "app" /\ new.token = tab[t].token /\ new.ver = 0
    /\ new.kind \in {"use", "secure", "revoke", "signout"}
    /\ new.kind = "secure" => new.from = t /\ new.id = tab[t].token.sid
    /\ new.kind = "signout" => new.id = tab[t].token.sid
    /\ new.kind = "revoke" => new.id # 0

AskedOutside(new) ==
    /\ new.token = NoToken
    /\ \/ new.kind \in Signs /\ new.id = 0 /\ (new.ver = 0 \/ \E t \in Tabs : new.ver = tab[t].pending)
       \/ new.kind \in {"forget", "reset"} /\ new.ver = 0
       \/ new.kind = "manage" /\ new.ver = 0 /\ new.change \in {"end", "clear", "deactivate", "reactivate"}

GoodRequest(new) ==
    /\ new \in AskType /\ new.at = "sent"
    /\ AskedOutside(new) \/ \E t \in Tabs : AskedInTab(new, t)

(* What a step that neither reads the account nor writes it, and gives no  *)
(* token, may do to a request.                                             *)
Quieter(b) ==
    \/ ask'[b] = ask[b]
    \/ ask'[b] = [ask[b] EXCEPT !.from = Nowhere]
    \/ ask'[b] = [ask[b] EXCEPT !.at = "refused"] /\ ask[b].at # "free"
    \/ ask'[b] = Unasked
    \/ ask[b].at = "free" /\ GoodRequest(ask'[b])

Reissued(b) == Of(b, Secures, {"token", "answer"})

Quiet ==
    /\ UNCHANGED <<accountVars, overlapped>>
    /\ tab' \in [Tabs -> [page : Pages, token : Token, pending : Nat]]
    /\ \A t \in Tabs : /\ tab'[t].token \in {tab[t].token, NoToken}
                       /\ tab'[t].page = "app" => tab'[t].token # NoToken
                       /\ \/ tab'[t].pending \in {0, tab[t].pending}
                          \/ \E b \in Asks : tab'[t].pending = ask[b].ver
    /\ ask' \in [Asks -> AskType] /\ \A b \in Asks : Quieter(b)
    /\ met' \subseteq met /\ \A b \in met \ met' : ask'[b] = Unasked
    /\ astray \subseteq astray' /\ astray' \subseteq Nat
    /\ \A b \in Asks : Reissued(b) /\ ~Reissued(b)' => ask[b].id \in astray'
    /\ asked' \in Nat

Shape == SignInTypeOK /\ Shaped /\ TabsShaped

(* What is asked becomes a request of a free process.                      *)
LEMMA Asking ==
    ASSUME Shape, NEW a \in Asks, NEW new \in AskType, new.at = "sent",
           SendOff(a, new.kind, new.from, new.token, new.id, new.ver, new.change, new.right)
    PROVE  /\ ask[a].at = "free" /\ ~Reissued(a) /\ Becomes(a, new)
           /\ asked' \in Nat /\ UNCHANGED <<accountVars, met, overlapped>>
<1>1. new = [at |-> "sent", kind |-> new.kind, from |-> new.from, token |-> new.token, id |-> new.id,
             ver |-> new.ver, change |-> new.change, right |-> new.right]
  BY DEF AskType
<1>2. ask' = [ask EXCEPT ![a] = new]
  BY <1>1, Zenon DEF SendOff
<1>3. Becomes(a, new)
  BY <1>2, Becoming DEF Shape
<1>4. ask[a].at = "free" /\ asked' \in Nat /\ UNCHANGED <<accountVars, met, overlapped>>
  BY DEF SendOff, Shape, SignInTypeOK
<1>5. ~Reissued(a)
  BY <1>4 DEF Reissued, Of
<1> QED
  BY <1>3, <1>4, <1>5

(* A good request, and no token but fewer: a quiet step.                   *)
LEMMA AskingIsQuiet ==
    ASSUME Shape, NEW a \in Asks, NEW new, GoodRequest(new), Becomes(a, new), ask[a].at = "free",
           ~Reissued(a), asked' \in Nat, UNCHANGED <<accountVars, met, overlapped, astray>>,
           tab' \in [Tabs -> [page : Pages, token : Token, pending : Nat]],
           \A t \in Tabs : tab'[t] = tab[t] \/ (tab'[t].page = "login" /\ tab'[t].token = NoToken
                                               /\ tab'[t].pending = tab[t].pending)
    PROVE  Quiet
<1>1. \A b \in Asks : Quieter(b)
  BY DEF Becomes, Quieter
<1>2. \A b \in Asks : Reissued(b) => Reissued(b)'
  BY DEF Becomes, Reissued, Of
<1>3. \A t \in Tabs : /\ tab'[t].token \in {tab[t].token, NoToken}
                     /\ tab'[t].page = "app" => tab'[t].token # NoToken
                     /\ tab'[t].pending \in {0, tab[t].pending}
  BY DEF Shape, TabsShaped
<1> QED
  BY <1>1, <1>2, <1>3 DEF Quiet, Becomes, Shape, SignInTypeOK

(* What is asked in a tab is quiet, its signing out with it ...            *)
LEMMA TabAsksQuietly ==
    ASSUME Shape, NEW t \in Tabs, NEW a \in Asks,
           \/ Work(a, t) \/ LogOut(a, t)
           \/ \E change \in {"none", "on", "off"} : Secure(a, t, change)
           \/ \E s \in 1..Len(sessions) : RevokeOther(a, t, s)
           \/ \E right \in BOOLEAN : LogIn(a, t, right) \/ EnterCode(a, t, right)
    PROVE  Quiet
<1>1. /\ tab \in [Tabs -> [page : Pages, token : Token, pending : Nat]]
      /\ tab[t] \in [page : Pages, token : Token, pending : Nat]
      /\ NoToken \in Token /\ t \in Tabs \cup {Nowhere} /\ Nowhere \in Tabs \cup {Nowhere}
      /\ tab[t].token \in Token /\ tab[t].token.sid \in Nat /\ tab[t].pending \in Nat
      /\ Len(sessions) \in Nat
  BY DEF Shape, SignInTypeOK, Token, NoToken
<1>2. CASE Work(a, t)
  <2> DEFINE new == [at |-> "sent", kind |-> "use", from |-> t, token |-> tab[t].token,
                     id |-> 0, ver |-> 0, change |-> "none", right |-> TRUE]
  <2>1. ask[a].at = "free" /\ ~Reissued(a) /\ Becomes(a, new) /\ asked' \in Nat
        /\ UNCHANGED <<accountVars, met, overlapped>>
    <3>1. new \in AskType
      BY <1>1, <1>2 DEF AskType, Stages, Kinds, Changes
    <3>2. SendOff(a, new.kind, new.from, new.token, new.id, new.ver, new.change, new.right)
      BY <1>2 DEF Work
    <3> HIDE DEF new
    <3>3. new.at = "sent"
      BY DEF new
    <3> QED
      BY <3>1, <3>2, <3>3, Asking
  <2>2. GoodRequest(new)
    BY <1>2, <2>1 DEF GoodRequest, AskedInTab, Becomes, Work
  <2> QED
    BY <1>1, <1>2, <2>1, <2>2, AskingIsQuiet DEF Work
<1>3. CASE LogOut(a, t)
  <2> DEFINE new == [at |-> "sent", kind |-> "signout", from |-> Nowhere, token |-> tab[t].token,
                     id |-> tab[t].token.sid, ver |-> 0, change |-> "none", right |-> TRUE]
  <2>1. ask[a].at = "free" /\ ~Reissued(a) /\ Becomes(a, new) /\ asked' \in Nat
        /\ UNCHANGED <<accountVars, met, overlapped>>
    <3>1. new \in AskType
      BY <1>1, <1>3 DEF AskType, Stages, Kinds, Changes
    <3>2. SendOff(a, new.kind, new.from, new.token, new.id, new.ver, new.change, new.right)
      BY <1>3 DEF LogOut
    <3> HIDE DEF new
    <3>3. new.at = "sent"
      BY DEF new
    <3> QED
      BY <3>1, <3>2, <3>3, Asking
  <2>2. GoodRequest(new)
    BY <1>3, <2>1 DEF GoodRequest, AskedInTab, Becomes, LogOut
  <2>3. /\ tab' \in [Tabs -> [page : Pages, token : Token, pending : Nat]]
        /\ \A u \in Tabs : tab'[u] = tab[u] \/ (tab'[u].page = "login" /\ tab'[u].token = NoToken
                                               /\ tab'[u].pending = tab[u].pending)
    BY <1>1, <1>3 DEF LogOut, Pages
  <2>4. astray' = astray
    BY <1>3 DEF LogOut
  <2> QED
    BY <2>1, <2>2, <2>3, <2>4, AskingIsQuiet
<1>4. ASSUME NEW change \in {"none", "on", "off"}, Secure(a, t, change)
      PROVE  Quiet
  <2> DEFINE new == [at |-> "sent", kind |-> "secure", from |-> t, token |-> tab[t].token,
                     id |-> tab[t].token.sid, ver |-> 0, change |-> change, right |-> TRUE]
  <2>1. ask[a].at = "free" /\ ~Reissued(a) /\ Becomes(a, new) /\ asked' \in Nat
        /\ UNCHANGED <<accountVars, met, overlapped>>
    <3>1. new \in AskType
      BY <1>1, <1>4 DEF AskType, Stages, Kinds, Changes
    <3>2. SendOff(a, new.kind, new.from, new.token, new.id, new.ver, new.change, new.right)
      BY <1>4 DEF Secure
    <3> HIDE DEF new
    <3>3. new.at = "sent"
      BY DEF new
    <3> QED
      BY <3>1, <3>2, <3>3, Asking
  <2>2. GoodRequest(new)
    BY <1>4, <2>1 DEF GoodRequest, AskedInTab, Becomes, Secure
  <2> QED
    BY <1>1, <1>4, <2>1, <2>2, AskingIsQuiet DEF Secure
<1>5. ASSUME NEW s \in 1..Len(sessions), RevokeOther(a, t, s)
      PROVE  Quiet
  <2> DEFINE new == [at |-> "sent", kind |-> "revoke", from |-> t, token |-> tab[t].token,
                     id |-> s, ver |-> 0, change |-> "none", right |-> TRUE]
  <2>0. s \in Nat /\ s # 0
    BY <1>1
  <2>1. ask[a].at = "free" /\ ~Reissued(a) /\ Becomes(a, new) /\ asked' \in Nat
        /\ UNCHANGED <<accountVars, met, overlapped>>
    <3>1. new \in AskType
      BY <1>1, <1>5, <2>0 DEF AskType, Stages, Kinds, Changes
    <3>2. SendOff(a, new.kind, new.from, new.token, new.id, new.ver, new.change, new.right)
      BY <1>5 DEF RevokeOther
    <3> HIDE DEF new
    <3>3. new.at = "sent"
      BY DEF new
    <3> QED
      BY <3>1, <3>2, <3>3, Asking
  <2>2. GoodRequest(new)
    BY <1>5, <2>0, <2>1 DEF GoodRequest, AskedInTab, Becomes, RevokeOther
  <2> QED
    BY <1>1, <1>5, <2>1, <2>2, AskingIsQuiet DEF RevokeOther
<1>6. ASSUME NEW right \in BOOLEAN, LogIn(a, t, right)
      PROVE  Quiet
  <2> DEFINE new == [at |-> "sent", kind |-> "login", from |-> t, token |-> NoToken,
                     id |-> 0, ver |-> 0, change |-> "none", right |-> right]
  <2>1. ask[a].at = "free" /\ ~Reissued(a) /\ Becomes(a, new) /\ asked' \in Nat
        /\ UNCHANGED <<accountVars, met, overlapped>>
    <3>1. new \in AskType
      BY <1>1, <1>6 DEF AskType, Stages, Kinds, Changes
    <3>2. SendOff(a, new.kind, new.from, new.token, new.id, new.ver, new.change, new.right)
      BY <1>6 DEF LogIn
    <3> HIDE DEF new
    <3>3. new.at = "sent"
      BY DEF new
    <3> QED
      BY <3>1, <3>2, <3>3, Asking
  <2>2. GoodRequest(new)
    BY <2>1 DEF GoodRequest, AskedOutside, Becomes, Signs
  <2> QED
    BY <1>1, <1>6, <2>1, <2>2, AskingIsQuiet DEF LogIn
<1>7. ASSUME NEW right \in BOOLEAN, EnterCode(a, t, right)
      PROVE  Quiet
  <2> DEFINE new == [at |-> "sent", kind |-> "verify", from |-> t, token |-> NoToken,
                     id |-> 0, ver |-> tab[t].pending, change |-> "none", right |-> right]
  <2>1. ask[a].at = "free" /\ ~Reissued(a) /\ Becomes(a, new) /\ asked' \in Nat
        /\ UNCHANGED <<accountVars, met, overlapped>>
    <3>1. new \in AskType
      BY <1>1, <1>7 DEF AskType, Stages, Kinds, Changes
    <3>2. SendOff(a, new.kind, new.from, new.token, new.id, new.ver, new.change, new.right)
      BY <1>7 DEF EnterCode
    <3> HIDE DEF new
    <3>3. new.at = "sent"
      BY DEF new
    <3> QED
      BY <3>1, <3>2, <3>3, Asking
  <2>2. GoodRequest(new)
    BY <2>1 DEF GoodRequest, AskedOutside, Becomes, Signs
  <2> QED
    BY <1>1, <1>7, <2>1, <2>2, AskingIsQuiet DEF EnterCode
<1> QED
  BY <1>2, <1>3, <1>4, <1>5, <1>6, <1>7

(* ... what is asked elsewhere ...                                         *)
LEMMA ElsewhereAsksQuietly ==
    ASSUME Shape, NEW a \in Asks, ElsewhereStep(a)
    PROVE  Quiet
<1> DEFINE Sent(kind, id, change) ==
               [at |-> "sent", kind |-> kind, from |-> Nowhere, token |-> NoToken,
                id |-> id, ver |-> 0, change |-> change, right |-> TRUE]
<1>1. /\ tab \in [Tabs -> [page : Pages, token : Token, pending : Nat]]
      /\ NoToken \in Token /\ Nowhere \in Tabs \cup {Nowhere} /\ link.n \in Nat
  BY DEF Shape, SignInTypeOK, Token, NoToken
<1>2. ASSUME NEW kind \in {"forget", "reset", "manage"}, NEW id \in Nat, NEW change \in Changes,
             kind = "manage" => change \in {"end", "clear", "deactivate", "reactivate"},
             SendOff(a, kind, Nowhere, NoToken, id, 0, change, TRUE), UNCHANGED <<tab, astray>>
      PROVE  Quiet
  <2>1. ask[a].at = "free" /\ ~Reissued(a) /\ Becomes(a, Sent(kind, id, change)) /\ asked' \in Nat
        /\ UNCHANGED <<accountVars, met, overlapped>>
    <3> DEFINE new == Sent(kind, id, change)
    <3>1. new \in AskType
      BY <1>1, <1>2 DEF AskType, Stages, Kinds
    <3>2. SendOff(a, new.kind, new.from, new.token, new.id, new.ver, new.change, new.right)
      BY <1>2
    <3> HIDE DEF new
    <3>3. new.at = "sent"
      BY DEF new
    <3>4. ask[a].at = "free" /\ ~Reissued(a) /\ Becomes(a, new) /\ asked' \in Nat
          /\ UNCHANGED <<accountVars, met, overlapped>>
      BY <3>1, <3>2, <3>3, Asking
    <3> QED
      BY <3>4 DEF new
  <2>2. GoodRequest(Sent(kind, id, change))
    BY <1>2, <2>1 DEF GoodRequest, AskedOutside, Becomes
  <2> HIDE DEF Sent
  <2> QED
    BY <1>1, <1>2, <2>1, <2>2, AskingIsQuiet
<1>3. CASE AskForLink(a)
  BY <1>2, <1>3 DEF AskForLink, Changes
<1>4. ASSUME NEW n \in 1..link.n, UseLink(a, n)
      PROVE  Quiet
  <2>1. n \in Nat
    BY <1>1
  <2> QED
    BY <1>2, <1>4, <2>1 DEF UseLink, Changes
<1>5. ASSUME NEW change \in {"end", "clear", "deactivate", "reactivate"}, Manage(a, change)
      PROVE  Quiet
  BY <1>2, <1>5 DEF Manage, Changes
<1> QED
  BY <1>3, <1>4, <1>5 DEF ElsewhereStep

(* ... and what a tab does by itself, and what tells it nothing new.       *)
LEMMA TabRestsQuietly ==
    ASSUME Shape, NEW t \in Tabs, StartOver(t) \/ LoadPage(t)
    PROVE  Quiet
<1>1. /\ tab \in [Tabs -> [page : Pages, token : Token, pending : Nat]]
      /\ ask \in [Asks -> AskType] /\ astray \subseteq Nat /\ asked \in Nat
  BY DEF Shape, SignInTypeOK
<1>2. UNCHANGED <<accountVars, met, overlapped, astray, asked>>
  BY DEF StartOver, LoadPage
<1>3. /\ tab' \in [Tabs -> [page : Pages, token : Token, pending : Nat]]
      /\ \A u \in Tabs : /\ tab'[u].token = tab[u].token /\ tab'[u].pending \in {0, tab[u].pending}
                         /\ tab'[u].page = "app" => tab'[u].token # NoToken
  <2>1. CASE StartOver(t)
    BY <1>1, <2>1 DEF StartOver, Pages, Shape, TabsShaped
  <2>2. CASE LoadPage(t)
    <3> DEFINE page == IF tab[t].page = "leaving" \/ tab[t].token = NoToken THEN "login" ELSE "app"
    <3>1. tab' = [tab EXCEPT ![t].page = page, ![t].pending = 0]
      BY <1>1, <2>2 DEF LoadPage
    <3>2. page \in Pages /\ (page = "app" => tab[t].token # NoToken)
      BY DEF Pages
    <3> HIDE DEF page
    <3> QED
      BY <1>1, <3>1, <3>2 DEF Shape, TabsShaped
  <2> QED
    BY <2>1, <2>2
<1>4. /\ ask' \in [Asks -> AskType]
      /\ \A b \in Asks : ask'[b] = ask[b] \/ ask'[b] = [ask[b] EXCEPT !.from = Nowhere]
  <2>1. CASE StartOver(t)
    BY <1>1, <2>1 DEF StartOver
  <2>2. CASE LoadPage(t)
    <3>1. \A b \in Asks : [ask[b] EXCEPT !.from = Nowhere] \in AskType
      BY <1>1 DEF AskType
    <3> QED
      BY <1>1, <2>2, <3>1 DEF LoadPage
  <2> QED
    BY <2>1, <2>2
<1>5. \A b \in Asks : Reissued(b) => Reissued(b)'
  BY <1>1, <1>4 DEF Reissued, Of, AskType
<1> QED
  BY <1>1, <1>2, <1>3, <1>4, <1>5 DEF Quiet, Quieter

(* A request that comes to nothing gives its session up as astray, if it   *)
(* was to be reissued; one that is over has told the tab no more than that.*)
LEMMA EndsQuietly ==
    ASSUME Shape, NEW a \in Asks,
           Mishap(a) \/ Unauthorised(a) \/ AskedForCode(a) \/ Passed(a)
    PROVE  Quiet
<1>1. /\ tab \in [Tabs -> [page : Pages, token : Token, pending : Nat]]
      /\ ask \in [Asks -> AskType] /\ astray \subseteq Nat /\ asked \in Nat
      /\ ask[a] \in AskType /\ ask[a].id \in Nat /\ ask[a].ver \in Nat
  BY DEF Shape, SignInTypeOK, AskType
<1>2. /\ \A at \in Stages : Turns(a, at) => Becomes(a, [ask[a] EXCEPT !.at = at])
      /\ Finish(a) => Becomes(a, Unasked) /\ met' = met \ {a}
  BY Turning DEF Shape
<1>3. UNCHANGED <<accountVars, overlapped>>
  BY DEF Mishap, Unauthorised, AskedForCode, Passed
<1>4. CASE Mishap(a)
  <2>1. Becomes(a, [ask[a] EXCEPT !.at = "refused"]) /\ ask[a].at # "free"
    BY <1>2, <1>4 DEF Mishap, Stages
  <2>2. ask' \in [Asks -> AskType] /\ \A b \in Asks : Quieter(b)
    <3>1. Quieter(a)
      BY <2>1, Zenon DEF Becomes, Quieter
    <3>2. \A b \in Asks : b # a => Quieter(b)
      BY <2>1, Zenon DEF Becomes, Quieter
    <3> QED
      BY <2>1, <3>1, <3>2 DEF Becomes
  <2>3. /\ astray \subseteq astray' /\ astray' \subseteq Nat
        /\ ask[a].kind = "secure" => ask[a].id \in astray'
    <3>1. astray' = IF ask[a].kind = "secure" THEN astray \cup {ask[a].id} ELSE astray
      BY <1>4 DEF Mishap
    <3> QED
      BY <1>1, <3>1
  <2>4. \A b \in Asks : Reissued(b) /\ ~Reissued(b)' => ask[b].id \in astray'
    BY <2>1, <2>3 DEF Becomes, Reissued, Of, Secures
  <2>5. tab' = tab /\ met' = met
    BY <1>4 DEF Mishap
  <2>6. \A t \in Tabs : tab[t].page = "app" => tab[t].token # NoToken
    BY DEF Shape, TabsShaped
  <2> QED
    <3>1. asked' \in Nat
      BY <1>1, <1>4 DEF Mishap
    <3> QED
      BY <1>1, <1>3, <2>2, <2>3, <2>4, <2>5, <2>6, <3>1 DEF Quiet
<1>5. ASSUME Finish(a), astray \subseteq astray', astray' \subseteq Nat, asked' = asked,
             Reissued(a) => ask[a].id \in astray',
             tab' \in [Tabs -> [page : Pages, token : Token, pending : Nat]],
             \A t \in Tabs : /\ tab'[t].token \in {tab[t].token, NoToken}
                             /\ tab'[t].page = "app" => tab'[t].token # NoToken
                             /\ tab'[t].pending \in {0, tab[t].pending, ask[a].ver}
      PROVE  Quiet
  <2>1. Becomes(a, Unasked) /\ met' = met \ {a}
    BY <1>2, <1>5
  <2>2. ask' \in [Asks -> AskType] /\ \A b \in Asks : Quieter(b)
    BY <2>1 DEF Becomes, Quieter
  <2>3. \A b \in Asks : Reissued(b) /\ ~Reissued(b)' => ask[b].id \in astray'
    BY <1>5, <2>1 DEF Becomes, Reissued, Of
  <2>4. met' \subseteq met /\ \A b \in met \ met' : ask'[b] = Unasked
    BY <2>1 DEF Becomes
  <2> QED
    BY <1>1, <1>3, <1>5, <2>2, <2>3, <2>4 DEF Quiet
<1>6. \A t \in Tabs : tab[t].page = "app" => tab[t].token # NoToken
  BY DEF Shape, TabsShaped
<1>7. CASE Unauthorised(a)
  <2> DEFINE t == ask[a].from
             page == IF tab[t].page = "app" THEN "leaving"
                     ELSE IF tab[t].page = "code" /\ ask[a].kind = "verify" /\ ask[a].right THEN "login"
                     ELSE tab[t].page
             new == [tab[t] EXCEPT !.page = page, !.token = NoToken]
  <2>1. t \in Tabs
    BY <1>1, <1>7 DEF Unauthorised, AskType
  <2>2. page \in Pages \ {"app"} /\ NoToken \in Token
    <3>1. tab[t].page \in Pages
      BY <1>1, <2>1
    <3> HIDE DEF t
    <3> QED
      BY <3>1 DEF Pages, NoToken, Token
  <2>3. tab' = [tab EXCEPT ![t] = new]
    BY <1>1, <1>7, <2>1 DEF Unauthorised
  <2>4. /\ new \in [page : Pages, token : Token, pending : Nat]
        /\ new.page # "app" /\ new.token = NoToken /\ new.pending = tab[t].pending
    <3> HIDE DEF page, t
    <3> QED
      BY <1>1, <2>1, <2>2
  <2>5. /\ tab' \in [Tabs -> [page : Pages, token : Token, pending : Nat]]
        /\ \A u \in Tabs : /\ tab'[u].token \in {tab[u].token, NoToken}
                           /\ tab'[u].page = "app" => tab'[u].token # NoToken
                           /\ tab'[u].pending \in {0, tab[u].pending, ask[a].ver}
    <3> HIDE DEF new, t
    <3> QED
      BY <1>1, <1>6, <2>1, <2>3, <2>4
  <2>6. Finish(a) /\ astray' = astray /\ asked' = asked /\ ~Reissued(a)
    BY <1>7 DEF Unauthorised, Reissued, Of
  <2> QED
    BY <1>1, <1>5, <2>5, <2>6
<1>8. CASE AskedForCode(a)
  <2>1. /\ tab' \in [Tabs -> [page : Pages, token : Token, pending : Nat]]
        /\ \A u \in Tabs : /\ tab'[u].token \in {tab[u].token, NoToken}
                           /\ tab'[u].page = "app" => tab'[u].token # NoToken
                           /\ tab'[u].pending \in {0, tab[u].pending, ask[a].ver}
    BY <1>1, <1>6, <1>8 DEF AskedForCode, Pages
  <2>2. Finish(a) /\ astray' = astray /\ asked' = asked /\ ~Reissued(a)
    BY <1>8 DEF AskedForCode, Reissued, Of, Does, Secures
  <2> QED
    BY <1>1, <1>5, <2>1, <2>2
<1>9. CASE Passed(a)
  <2>1. /\ Finish(a) /\ asked' = asked /\ tab' = tab
        /\ astray \subseteq astray' /\ astray' \subseteq Nat
        /\ (Reissued(a) => ask[a].id \in astray')
    BY <1>1, <1>9 DEF Passed, Reissued, Of, Secures
  <2> QED
    BY <1>1, <1>5, <1>6, <2>1
<1> QED
  BY <1>4, <1>7, <1>8, <1>9

(* A request stays what it is, in tab, token and account, and goes on.     *)
Same(a) ==
    /\ ask'[a].kind = ask[a].kind /\ ask'[a].from = ask[a].from /\ ask'[a].change = ask[a].change
    /\ \A b \in Asks : b # a => ask'[b] = ask[b]

(* What a request may find at its first look, and how it goes on with it.  *)
Found(a) ==
    /\ ask[a].at = "sent" /\ Same(a) /\ ask' \in [Asks -> AskType]
    /\ ask'[a].token = ask[a].token /\ ask'[a].id = ask[a].id /\ ask'[a].ver = account.version
    /\ ask[a].kind \in {"use", "secure", "revoke", "signout"} =>
           \/ ask'[a].at = "unauthorised"
           \/ Accepted(ask[a].token) /\ ask[a].kind = "use" /\ ask'[a].at = "answer"
           \/ Accepted(ask[a].token) /\ ask[a].kind # "use" /\ ask'[a].at \in {"refused", "write"}
    /\ ask[a].kind \in Signs =>
           \/ ask'[a].at \in {"unauthorised", "refused"}
           \/ account.active /\ ask'[a].at \in {"answer", "read"}
    /\ ask[a].kind = "forget" => ask'[a].at \in {"write", "answer"}
    /\ ask[a].kind = "reset" =>
           \/ ask'[a].at = "refused"
           \/ /\ ask'[a].at = "write" /\ link.there /\ link.n = ask[a].id
              /\ ask'[a].right => account.active /\ link.ver = account.version
    /\ ask[a].kind = "manage" => ask'[a].at = "write" /\ ask'[a].right = account.active

(* identity.py, sessions.py, password_reset.py, admin.py: what is checked. *)
LEMMA Looking ==
    ASSUME Shape, NEW a \in Asks, Look(a)
    PROVE  Found(a) /\ UNCHANGED <<accountVars, tab, met, overlapped, astray, asked>>
<1> DEFINE at == CASE ask[a].kind \in {"use", "secure", "revoke", "signout"} -> AfterToken(a)
                   [] ask[a].kind = "login"  -> AfterPassword(a)
                   [] ask[a].kind = "verify" -> AfterCode(a)
                   [] ask[a].kind = "forget" -> IF account.active THEN "write" ELSE "answer"
                   [] ask[a].kind = "reset"  -> IF link.there /\ link.n = ask[a].id THEN "write" ELSE "refused"
                   [] ask[a].kind = "manage" -> "write"
           right == CASE ask[a].kind = "verify" -> Expired(a) \/ ask[a].right
                      [] ask[a].kind = "reset"  -> LinkUsable
                      [] ask[a].kind = "manage" -> account.active
                      [] OTHER                  -> ask[a].right
           new == [ask[a] EXCEPT !.at = at, !.ver = account.version, !.right = right]
<1>1. ask[a].at = "sent" /\ ask' = [ask EXCEPT ![a] = new]
  BY DEF Look
<1>2. /\ ask[a] \in AskType /\ ask[a].kind \in Kinds /\ account.version \in Nat
      /\ account.active \in BOOLEAN /\ ask[a].right \in BOOLEAN
  BY DEF Shape, SignInTypeOK, AskType
<1>3. /\ ask[a].kind \in {"use", "secure", "revoke", "signout"} => at = AfterToken(a)
      /\ ask[a].kind = "login" => at = AfterPassword(a)
      /\ ask[a].kind = "verify" => at = AfterCode(a)
      /\ ask[a].kind = "forget" => at = IF account.active THEN "write" ELSE "answer"
      /\ ask[a].kind = "reset" => at = IF link.there /\ link.n = ask[a].id THEN "write" ELSE "refused"
      /\ ask[a].kind = "manage" => at = "write"
  OBVIOUS
<1>4. /\ right \in BOOLEAN
      /\ ask[a].kind = "reset" => (right => LinkUsable)
      /\ ask[a].kind = "manage" => right = account.active
  <2>1. LinkUsable \in BOOLEAN /\ (Expired(a) \/ ask[a].right) \in BOOLEAN
    BY DEF LinkUsable
  <2>2. CASE ask[a].kind = "verify"
    BY <2>1, <2>2
  <2>3. CASE ask[a].kind = "reset"
    BY <2>1, <2>3
  <2>4. CASE ask[a].kind = "manage"
    BY <1>2, <2>4
  <2>5. CASE ask[a].kind \notin {"verify", "reset", "manage"}
    BY <1>2, <2>5
  <2> QED
    BY <2>2, <2>3, <2>4, <2>5
<1>5. \/ AfterToken(a) = "unauthorised"
      \/ Accepted(ask[a].token) /\ ask[a].kind = "use" /\ AfterToken(a) = "answer"
      \/ Accepted(ask[a].token) /\ ask[a].kind # "use" /\ AfterToken(a) \in {"refused", "write"}
  <2>1. CASE ~Accepted(ask[a].token)
    BY <2>1, Zenon DEF AfterToken
  <2>2. CASE Accepted(ask[a].token) /\ ask[a].kind = "use"
    BY <2>2, Zenon DEF AfterToken
  <2>3. CASE Accepted(ask[a].token) /\ ask[a].kind # "use"
    <3> DEFINE P == \/ ask[a].kind = "revoke" /\ ~Live(ask[a].id)
                    \/ ask[a].change = "on" /\ account.twofactor
                    \/ ask[a].change = "off" /\ ~account.twofactor
    <3>1. AfterToken(a) = IF P THEN "refused" ELSE "write"
      BY <2>3, Zenon DEF AfterToken
    <3> HIDE DEF P
    <3> QED
      BY <2>3, <3>1, Zenon
  <2> QED
    BY <2>1, <2>2, <2>3
<1>6. /\ \/ AfterPassword(a) \in {"unauthorised", "refused"}
         \/ account.active /\ AfterPassword(a) \in {"answer", "read"}
      /\ AfterCode(a) = "unauthorised" \/ (account.active /\ AfterCode(a) = "read")
  <2>1. \/ AfterPassword(a) \in {"unauthorised", "refused"}
        \/ account.active /\ AfterPassword(a) \in {"answer", "read"}
    <3>1. CASE ~ask[a].right
      BY <3>1, Zenon DEF AfterPassword
    <3>2. CASE ask[a].right /\ ~account.active
      BY <3>2, Zenon DEF AfterPassword
    <3>3. CASE ask[a].right /\ account.active
      <4>1. AfterPassword(a) = IF account.twofactor THEN "answer" ELSE "read"
        BY <3>3, Zenon DEF AfterPassword
      <4> QED
        BY <3>3, <4>1, Zenon
    <3> QED
      BY <3>1, <3>2, <3>3
  <2>2. AfterCode(a) = "unauthorised" \/ (account.active /\ AfterCode(a) = "read")
    <3>1. CASE Expired(a) \/ ~ask[a].right
      BY <3>1, Zenon DEF AfterCode
    <3>2. CASE ~(Expired(a) \/ ~ask[a].right)
      BY <3>2, Zenon DEF AfterCode, Expired
    <3> QED
      BY <3>1, <3>2
  <2> QED
    BY <2>1, <2>2
<1>7. at \in Stages
  <2> HIDE DEF at
  <2> QED
    BY <1>2, <1>3, <1>5, <1>6 DEF Kinds, Stages
<1>8. /\ ask' \in [Asks -> AskType] /\ ask'[a] = new
      /\ \A b \in Asks : b # a => ask'[b] = ask[b]
  <2>1. new \in AskType
    <3> HIDE DEF at, right
    <3> QED
      BY <1>2, <1>4, <1>7 DEF AskType
  <2> HIDE DEF new
  <2> QED
    BY <1>1, <2>1, Becoming DEF Shape, Becomes
<1>9. /\ ask'[a].kind = ask[a].kind /\ ask'[a].from = ask[a].from /\ ask'[a].change = ask[a].change
      /\ ask'[a].token = ask[a].token /\ ask'[a].id = ask[a].id
      /\ ask'[a].ver = account.version /\ ask'[a].at = at /\ ask'[a].right = right
  <2> HIDE DEF at, right
  <2> QED
    BY <1>2, <1>8 DEF AskType
<1>10. Same(a)
  BY <1>8, <1>9 DEF Same
<1> HIDE DEF at, right
<1>11. Found(a)
  <2>1. ask[a].kind \in Signs =>
           \/ ask'[a].at \in {"unauthorised", "refused"}
           \/ account.active /\ ask'[a].at \in {"answer", "read"}
    BY <1>3, <1>6, <1>9 DEF Signs
  <2>2. ask[a].kind = "reset" =>
           \/ ask'[a].at = "refused"
           \/ /\ ask'[a].at = "write" /\ link.there /\ link.n = ask[a].id
              /\ ask'[a].right => account.active /\ link.ver = account.version
    BY <1>3, <1>4, <1>9 DEF LinkUsable
  <2>3. ask[a].kind = "manage" => ask'[a].at = "write" /\ ask'[a].right = account.active
    BY <1>3, <1>4, <1>9
  <2>4. ask[a].kind \in {"use", "secure", "revoke", "signout"} =>
           \/ ask'[a].at = "unauthorised"
           \/ Accepted(ask[a].token) /\ ask[a].kind = "use" /\ ask'[a].at = "answer"
           \/ Accepted(ask[a].token) /\ ask[a].kind # "use" /\ ask'[a].at \in {"refused", "write"}
    BY <1>3, <1>5, <1>9
  <2>5. ask[a].kind = "forget" => ask'[a].at \in {"write", "answer"}
    BY <1>3, <1>9
  <2> QED
    BY <1>1, <1>8, <1>9, <1>10, <2>1, <2>2, <2>3, <2>4, <2>5 DEF Found
<1> QED
  BY <1>11 DEF Look

-----------------------------------------------------------------------------
(* Quiet steps. *)

(* What there is to know of a request after a quiet step.                  *)
LEMMA QuietRequests ==
    ASSUME Shape, Quiet, NEW b \in Asks
    PROVE  /\ ask[b] \in AskType /\ ask'[b] \in AskType
           /\ \/ ask[b].at = "free" /\ GoodRequest(ask'[b])
              \/ ask'[b] = Unasked
              \/ /\ ask'[b].kind = ask[b].kind /\ ask'[b].token = ask[b].token
                 /\ ask'[b].id = ask[b].id /\ ask'[b].ver = ask[b].ver
                 /\ ask'[b].change = ask[b].change /\ ask'[b].right = ask[b].right
                 /\ ask'[b].from \in {ask[b].from, Nowhere}
                 /\ ask'[b].at = ask[b].at \/ (ask'[b].at = "refused" /\ ask[b].at # "free")
                 /\ ask'[b].at = "free" => ask'[b].from = ask[b].from
<1>1. ask[b] \in AskType /\ ask'[b] \in AskType /\ Quieter(b)
  BY DEF Quiet, Shape, SignInTypeOK
<1>2. ask[b].at = "free" => ask[b].from = Nowhere
  BY DEF Shape, Shaped, WellShaped, Unasked
<1>3. CASE ask'[b] = [ask[b] EXCEPT !.from = Nowhere]
  BY <1>1, <1>2, <1>3 DEF AskType
<1>4. CASE ask'[b] = [ask[b] EXCEPT !.at = "refused"] /\ ask[b].at # "free"
  BY <1>1, <1>4 DEF AskType
<1> QED
  BY <1>1, <1>3, <1>4 DEF Quieter

(* No token comes of it, and every request keeps its shape.                *)
LEMMA QuietKeepsShape ==
    ASSUME Shape, Quiet
    PROVE  Shape'
<1>1. \A t \in Tabs : tab[t].token \in Token /\ tab[t].token.sid \in 0..Len(sessions)
                      /\ (tab[t].token.sid = 0 => tab[t].token = NoToken)
  BY DEF Shape, SignInTypeOK, TabsShaped
<1>2. /\ account' = account /\ sessions' = sessions /\ link' = link /\ overlapped' = overlapped
      /\ Len(sessions) \in Nat /\ NoToken.sid = 0 /\ NoToken \in Token
  BY LenProperties DEF Quiet, accountVars, Shape, SignInTypeOK, NoToken, Token
<1>3. ASSUME NEW b \in Asks
      PROVE  ask'[b].token.sid \in 0..Len(sessions) /\ (ask'[b].token.sid = 0 => ask'[b].token = NoToken)
  <2>1. ask[b].token.sid \in 0..Len(sessions) /\ (ask[b].token.sid = 0 => ask[b].token = NoToken)
    BY DEF Shape, SignInTypeOK, Shaped, WellShaped
  <2>2. CASE ask'[b] = Unasked
    BY <1>2, <2>2 DEF Unasked
  <2>3. CASE GoodRequest(ask'[b])
    BY <1>1, <1>2, <2>3 DEF GoodRequest, AskedOutside, AskedInTab
  <2> QED
    BY <2>1, <2>2, <2>3, QuietRequests
<1>4. SignInTypeOK'
  <2>1. \A t \in Tabs : tab'[t].token.sid \in 0..Len(sessions)
    BY <1>1, <1>2 DEF Quiet
  <2>2. met' \subseteq Asks /\ astray' \subseteq Nat /\ asked' \in Nat
    BY DEF Quiet, Shape, SignInTypeOK
  <2> QED
    BY <1>2, <1>3, <2>1, <2>2 DEF Quiet, Shape, SignInTypeOK
<1>5. TabsShaped'
  BY <1>1, <1>2 DEF Quiet, TabsShaped
<1>6. Shaped'
  <2> SUFFICES ASSUME NEW b \in Asks
               PROVE  WellShaped(b)'
    BY DEF Shaped
  <2>1. WellShaped(b) /\ (ask'[b].token.sid = 0 => ask'[b].token = NoToken)
    BY <1>3 DEF Shape, Shaped
  <2>2. CASE ask'[b] = Unasked
    BY <2>2 DEF Unasked, WellShaped, Signs, Secures
  <2>3. CASE ask[b].at = "free" /\ GoodRequest(ask'[b])
    BY <1>2, <2>1, <2>3 DEF GoodRequest, AskedOutside, AskedInTab, WellShaped, Signs, Secures
  <2>4. CASE /\ ask'[b].kind = ask[b].kind /\ ask'[b].token = ask[b].token
             /\ ask'[b].id = ask[b].id /\ ask'[b].ver = ask[b].ver
             /\ ask'[b].change = ask[b].change /\ ask'[b].right = ask[b].right
             /\ ask'[b].from \in {ask[b].from, Nowhere}
             /\ ask'[b].at = ask[b].at \/ (ask'[b].at = "refused" /\ ask[b].at # "free")
             /\ ask'[b].at = "free" => ask'[b].from = ask[b].from
    <3>1. ask'[b].at = "free" => ask'[b] = Unasked
      BY <2>1, <2>4, QuietRequests DEF WellShaped, Unasked, AskType
    <3>2. CASE ask'[b].at = ask[b].at
      BY <1>2, <2>1, <2>4, <3>1, <3>2 DEF WellShaped
    <3>3. CASE ask'[b].at = "refused"
      BY <1>2, <2>1, <2>4, <3>3 DEF WellShaped
    <3> QED
      BY <2>4, <3>2, <3>3
  <2> QED
    BY <2>2, <2>3, <2>4, QuietRequests
<1> QED
  BY <1>4, <1>5, <1>6 DEF Shape

(* What a quiet step leaves of the requests that matter: those that reissue*)
(* or start a session are as far as they were, or refused, or new.         *)
LEMMA QuietAsks ==
    ASSUME Shape, Quiet, NEW b \in Asks
    PROVE  /\ ask'[b].kind = "secure" =>
                  \/ /\ ask'[b].at = "sent"
                     /\ \E t \in Tabs : ask'[b].from = t /\ ask'[b].id = tab[t].token.sid
                  \/ /\ ask[b].kind = "secure" /\ ask'[b].id = ask[b].id
                     /\ ask'[b].from \in {ask[b].from, Nowhere}
           /\ ask'[b].kind \in Signs /\ ask'[b].id # 0 =>
                  ask[b].kind \in Signs /\ ask'[b].id = ask[b].id
           /\ ask'[b].at \notin {"free", "sent", "refused"} =>
                  /\ ask'[b].at = ask[b].at /\ ask'[b].kind = ask[b].kind /\ ask'[b].id = ask[b].id
                  /\ ask'[b].ver = ask[b].ver /\ ask'[b].token = ask[b].token
                  /\ ask'[b].right = ask[b].right /\ ask'[b].change = ask[b].change
           /\ ask'[b].at = "sent" =>
                  \/ ask[b].at = "sent" /\ ask'[b].token = ask[b].token
                  \/ ask'[b].token = NoToken
                  \/ \E t \in Tabs : ask'[b].token = tab[t].token
           /\ \/ ask'[b].token \in {ask[b].token, NoToken}
              \/ \E t \in Tabs : ask'[b].token = tab[t].token
           /\ \/ ask'[b].ver \in {ask[b].ver, 0}
              \/ \E t \in Tabs : ask'[b].ver = tab[t].pending
<1>1. WellShaped(b) /\ WellShaped(b)' /\ ask[b] \in AskType /\ ask'[b] \in AskType
  BY QuietKeepsShape, QuietRequests DEF Shape, Shaped
<1>2. CASE ask[b].at = "free" /\ GoodRequest(ask'[b])
  <2>1. CASE AskedOutside(ask'[b])
    BY <1>2, <2>1 DEF GoodRequest, AskedOutside, Signs
  <2>2. CASE \E t \in Tabs : AskedInTab(ask'[b], t)
    BY <1>2, <2>2 DEF GoodRequest, AskedInTab, Signs
  <2> QED
    BY <1>2, <2>1, <2>2 DEF GoodRequest
<1>3. CASE ask'[b] = Unasked
  BY <1>3 DEF Unasked, Signs
<1> QED
  BY <1>1, <1>2, <1>3, QuietRequests

(* A session stays one tab's.                                              *)
LEMMA QuietKeepsTabs ==
    ASSUME Shape, OneTabEach, Quiet
    PROVE  OneTabEach'
<1>1. \A t \in Tabs : tab'[t].token.sid # 0 => tab'[t].token = tab[t].token
  BY DEF Quiet, NoToken
<1>2. \A t, u \in Tabs : t # u /\ tab'[t].token.sid # 0 => tab'[u].token.sid # tab'[t].token.sid
  <2>1. \A t, u \in Tabs : t # u /\ tab[t].token.sid # 0 => tab[u].token.sid # tab[t].token.sid
    BY DEF OneTabEach
  <2>2. NoToken.sid = 0 /\ \A t \in Tabs : tab'[t].token \in {tab[t].token, NoToken}
    BY DEF NoToken, Quiet
  <2> QED
    BY <1>1, <2>1, <2>2
<1>3. ASSUME NEW a \in Asks, Of(a, Secures, Stages)', ask'[a].from # Nowhere, ask'[a].id # 0
      PROVE  \A u \in Tabs : u # ask'[a].from => tab[u].token.sid # ask'[a].id
  <2>1. CASE \E t \in Tabs : ask'[a].from = t /\ ask'[a].id = tab[t].token.sid
    BY <1>3, <2>1 DEF OneTabEach
  <2>2. CASE ask[a].kind = "secure" /\ ask'[a].id = ask[a].id /\ ask'[a].from \in {ask[a].from, Nowhere}
    <3>1. Of(a, Secures, Stages)
      BY <2>2 DEF Of, Secures, Shape, SignInTypeOK, AskType
    <3> QED
      BY <1>3, <2>2, <3>1 DEF OneTabEach
  <2> QED
    BY <1>3, <2>1, <2>2, QuietAsks DEF Of, Secures
<1>4. ASSUME NEW a \in Asks, Of(a, Secures, Stages)', ask'[a].from # Nowhere, ask'[a].id # 0,
             NEW b \in Asks, Of(b, Secures, Stages)', ask'[b].from # Nowhere, ask'[b].id = ask'[a].id
      PROVE  ask'[b].from = ask'[a].from
  <2>1. \A u \in Tabs : u # ask'[a].from => tab[u].token.sid # ask'[a].id
    BY <1>3, <1>4
  <2>2. \A u \in Tabs : u # ask'[b].from => tab[u].token.sid # ask'[b].id
    BY <1>3, <1>4
  <2>3. CASE \E t \in Tabs : ask'[a].from = t /\ ask'[a].id = tab[t].token.sid
    BY <1>4, <2>2, <2>3
  <2>4. CASE \E t \in Tabs : ask'[b].from = t /\ ask'[b].id = tab[t].token.sid
    BY <1>4, <2>1, <2>4
  <2>5. CASE /\ ask[a].kind = "secure" /\ ask'[a].id = ask[a].id /\ ask'[a].from \in {ask[a].from, Nowhere}
             /\ ask[b].kind = "secure" /\ ask'[b].id = ask[b].id /\ ask'[b].from \in {ask[b].from, Nowhere}
    <3>1. Of(a, Secures, Stages) /\ Of(b, Secures, Stages)
      BY <2>5 DEF Of, Secures, Shape, SignInTypeOK, AskType
    <3> QED
      BY <1>4, <2>5, <3>1 DEF OneTabEach
  <2> QED
    BY <1>4, <2>3, <2>4, <2>5, QuietAsks DEF Of, Secures
<1>5. ASSUME NEW a \in Asks, Of(a, Signs, Stages)', ask'[a].id # 0
      PROVE  /\ \A u \in Tabs : tab[u].token.sid # ask'[a].id
             /\ \A b \in Asks : b # a /\ Of(b, Secures \cup Signs, Stages)' => ask'[b].id # ask'[a].id
  <2>1. ask[a].kind \in Signs /\ ask'[a].id = ask[a].id
    BY <1>5, QuietAsks DEF Of
  <2>2. Of(a, Signs, Stages)
    BY <2>1 DEF Of, Shape, SignInTypeOK, AskType
  <2>3. /\ \A u \in Tabs : tab[u].token.sid # ask[a].id
        /\ \A b \in Asks : b # a /\ Of(b, Secures \cup Signs, Stages) => ask[b].id # ask[a].id
    BY <1>5, <2>1, <2>2 DEF OneTabEach
  <2>4. ASSUME NEW b \in Asks, b # a, Of(b, Secures \cup Signs, Stages)'
        PROVE  ask'[b].id # ask'[a].id
    <3>1. CASE ask'[b].kind \in Signs
      <4>1. CASE ask'[b].id # 0
        <5>1. ask[b].kind \in Signs /\ ask'[b].id = ask[b].id
          BY <3>1, <4>1, QuietAsks
        <5>2. Of(b, Secures \cup Signs, Stages)
          BY <5>1 DEF Of, Shape, SignInTypeOK, AskType
        <5> QED
          BY <2>1, <2>3, <2>4, <5>1, <5>2
      <4> QED
        BY <1>5, <4>1
    <3>2. CASE ask'[b].kind = "secure"
      <4>1. CASE \E t \in Tabs : ask'[b].from = t /\ ask'[b].id = tab[t].token.sid
        BY <2>1, <2>3, <4>1
      <4>2. CASE ask[b].kind = "secure" /\ ask'[b].id = ask[b].id
        <5>1. Of(b, Secures \cup Signs, Stages)
          BY <4>2 DEF Of, Secures, Shape, SignInTypeOK, AskType
        <5> QED
          BY <2>1, <2>3, <2>4, <4>2, <5>1
      <4> QED
        BY <3>2, <4>1, <4>2, QuietAsks
    <3> QED
      BY <2>4, <3>1, <3>2 DEF Of, Secures
  <2> QED
    BY <2>1, <2>3, <2>4
<1>6. ASSUME NEW i, i # 0, \A u \in Tabs : tab[u].token.sid # i
      PROVE  \A u \in Tabs : tab'[u].token.sid # i
  BY <1>1, <1>6
<1>7. ASSUME NEW a \in Asks, Of(a, Secures, Stages)', ask'[a].from # Nowhere, ask'[a].id # 0
      PROVE  \A u \in Tabs : u # ask'[a].from => tab'[u].token.sid # ask'[a].id
  BY <1>1, <1>3, <1>7
<1> QED
  BY <1>2, <1>4, <1>5, <1>6, <1>7 DEF OneTabEach

(* What was found still holds, and the versions stay in order.             *)
LEMMA QuietKeepsOrder ==
    ASSUME Shape, Quiet
    PROVE  /\ Unmet => Unmet'
           /\ LastGiven => LastGiven'
           /\ NoneAhead => NoneAhead'
           /\ OneReissueEach => OneReissueEach'
           /\ OthersOutdated => OthersOutdated'
           /\ TokensFit => TokensFit'
<1>1. /\ account' = account /\ sessions' = sessions /\ link' = link
      /\ account.version \in Nat /\ Len(sessions) \in Nat
  BY LenProperties DEF Quiet, accountVars, Shape, SignInTypeOK
<1>2. \A t \in Tabs : tab'[t].token = tab[t].token \/ tab'[t].token = NoToken
  BY DEF Quiet
<1>3. NoToken.sid = 0 /\ NoToken.ver = 0
  BY DEF NoToken
<1>4. ASSUME NEW a \in Asks \ met', ask'[a].at \notin {"free", "sent", "refused"}
      PROVE  /\ a \in Asks \ met
             /\ ask'[a].at = ask[a].at /\ ask'[a].kind = ask[a].kind /\ ask'[a].id = ask[a].id
             /\ ask'[a].ver = ask[a].ver /\ ask'[a].token = ask[a].token
             /\ ask'[a].right = ask[a].right /\ ask'[a].change = ask[a].change
  <2>1. ask'[a] # Unasked
    BY <1>4 DEF Unasked
  <2>2. a \notin met
    BY <2>1 DEF Quiet
  <2> QED
    BY <1>4, <2>2, QuietAsks
<1>5. Unmet => Unmet'
  <2> SUFFICES ASSUME Unmet, NEW a \in Asks \ met', ask'[a].at \notin {"free", "sent", "refused"}
               PROVE  /\ Of(a, Secures, {"write"} \cup Begun)' => SecureUnmet(a)'
                      /\ Of(a, Signs, Begun)' => SignUnmet(a)'
                      /\ Of(a, {"reset"}, {"write"})' => ResetUnmet(a)'
                      /\ Of(a, {"manage"}, {"write"})' => ManageUnmet(a)'
    BY DEF Unmet, StillTrue, Of, Begun
  <2>1. /\ a \in Asks \ met
        /\ ask'[a].at = ask[a].at /\ ask'[a].kind = ask[a].kind /\ ask'[a].id = ask[a].id
        /\ ask'[a].ver = ask[a].ver /\ ask'[a].token = ask[a].token /\ ask'[a].right = ask[a].right
    BY <1>4
  <2>2. /\ Of(a, Secures, {"write"} \cup Begun) => SecureUnmet(a)
        /\ Of(a, Signs, Begun) => SignUnmet(a)
        /\ Of(a, {"reset"}, {"write"}) => ResetUnmet(a)
        /\ Of(a, {"manage"}, {"write"}) => ManageUnmet(a)
    BY <2>1 DEF Unmet, StillTrue
  <2> QED
    BY <1>1, <2>1, <2>2 DEF Of, SecureUnmet, SignUnmet, ResetUnmet, ManageUnmet
<1>6. LastGiven => LastGiven'
  <2> SUFFICES ASSUME LastGiven, NEW t \in Tabs, tab'[t].token # NoToken, tab'[t].token.sid \notin astray',
                      \A a \in Asks : Of(a, Secures, {"token", "answer"})' => ask'[a].id # tab'[t].token.sid
               PROVE  tab'[t].token.ver = sessions[tab'[t].token.sid].ver
    BY <1>1 DEF LastGiven
  <2>1. tab'[t].token = tab[t].token /\ tab[t].token.sid \notin astray
    BY <1>2 DEF Quiet
  <2>2. ASSUME NEW a \in Asks, Reissued(a)
        PROVE  ask[a].id # tab[t].token.sid
    <3>1. CASE Reissued(a)'
      <4>1. ask'[a].id = ask[a].id
        BY <3>1, QuietAsks DEF Reissued, Of
      <4> QED
        BY <2>1, <3>1, <4>1 DEF Reissued
    <3>2. CASE ~Reissued(a)'
      BY <2>1, <2>2, <3>2 DEF Quiet
    <3> QED
      BY <3>1, <3>2
  <2> QED
    BY <2>1, <2>2 DEF LastGiven, Reissued
<1>7. NoneAhead => NoneAhead'
  <2> SUFFICES ASSUME NoneAhead
               PROVE  NoneAhead'
    OBVIOUS
  <2>1. \A t \in Tabs : /\ tab'[t].token.ver <= account.version
                        /\ tab'[t].pending <= account.version
    <3>1. \A t \in Tabs : tab'[t].token.ver <= account.version
      BY <1>1, <1>2, <1>3 DEF NoneAhead
    <3>2. ASSUME NEW t \in Tabs
          PROVE  tab'[t].pending <= account.version
      <4>1. \/ tab'[t].pending \in {0, tab[t].pending}
            \/ \E b \in Asks : tab'[t].pending = ask[b].ver
        BY DEF Quiet
      <4> QED
        BY <1>1, <4>1 DEF NoneAhead
    <3> QED
      BY <3>1, <3>2
  <2>2. ASSUME NEW b \in Asks
        PROVE  ask'[b].token.ver <= account.version /\ ask'[b].ver <= account.version
    <3>1. /\ \/ ask'[b].token \in {ask[b].token, NoToken}
             \/ \E t \in Tabs : ask'[b].token = tab[t].token
          /\ \/ ask'[b].ver \in {ask[b].ver, 0}
             \/ \E t \in Tabs : ask'[b].ver = tab[t].pending
      BY QuietAsks
    <3> QED
      BY <1>1, <1>3, <3>1 DEF NoneAhead
  <2> QED
    BY <1>1, <2>1, <2>2 DEF NoneAhead
<1>8. OneReissueEach => OneReissueEach'
  <2> SUFFICES ASSUME OneReissueEach, NEW a \in Asks, Of(a, Secures, Begun)'
               PROVE  /\ \A t \in Tabs : tab'[t].token.sid = ask'[a].id => tab'[t].token.ver < account.version
                      /\ \A b \in Asks \ {a} :
                             /\ ask'[b].at = "sent" /\ ask'[b].token.sid = ask'[a].id
                                    => ask'[b].token.ver < account.version
                             /\ Of(b, Secures, {"write"})' /\ ask'[b].id = ask'[a].id
                                    => ask'[b].ver < account.version
                             /\ Of(b, Secures, Begun)' => ask'[b].id # ask'[a].id
    BY <1>1 DEF OneReissueEach
  <2>1. Of(a, Secures, Begun) /\ ask'[a].id = ask[a].id /\ ask[a].id # 0
    <3>1. ask'[a].at = ask[a].at /\ ask'[a].kind = ask[a].kind /\ ask'[a].id = ask[a].id
      BY QuietAsks DEF Of, Begun
    <3>2. WellShaped(a)
      BY DEF Shape, Shaped
    <3> QED
      BY <3>1, <3>2 DEF Of, WellShaped, Secures, Begun
  <2>2. /\ \A t \in Tabs : tab[t].token.sid = ask[a].id => tab[t].token.ver < account.version
        /\ \A b \in Asks \ {a} :
               /\ ask[b].at = "sent" /\ ask[b].token.sid = ask[a].id => ask[b].token.ver < account.version
               /\ Of(b, Secures, {"write"}) /\ ask[b].id = ask[a].id => ask[b].ver < account.version
               /\ Of(b, Secures, Begun) => ask[b].id # ask[a].id
    BY <2>1 DEF OneReissueEach
  <2>3. \A t \in Tabs : tab'[t].token.sid = ask'[a].id => tab'[t].token.ver < account.version
    BY <1>2, <1>3, <2>1, <2>2
  <2>4. ASSUME NEW b \in Asks \ {a}, ask'[b].at = "sent", ask'[b].token.sid = ask'[a].id
        PROVE  ask'[b].token.ver < account.version
    BY <1>3, <2>1, <2>2, <2>4, QuietAsks
  <2>5. ASSUME NEW b \in Asks \ {a}, Of(b, Secures, {"write"} \cup Begun)'
        PROVE  /\ ask'[b].at = ask[b].at /\ ask'[b].kind = ask[b].kind
               /\ ask'[b].id = ask[b].id /\ ask'[b].ver = ask[b].ver
    BY <2>5, QuietAsks DEF Of, Begun
  <2> QED
    BY <2>1, <2>2, <2>3, <2>4, <2>5 DEF Of, Begun
<1>9. OthersOutdated => OthersOutdated'
  <2> SUFFICES ASSUME OthersOutdated, NEW a \in Asks \ met', ask'[a].at \notin {"free", "sent", "refused"}
               PROVE  /\ Of(a, Secures, Begun)' => \A s \in 1..Len(sessions) : s # ask'[a].id => sessions[s].ver < account.version
                      /\ Of(a, {"reset"}, {"answer"})' => \A s \in 1..Len(sessions) : sessions[s].ver < account.version
                      /\ Of(a, {"manage"}, {"answer"})' /\ ask'[a].change # "reactivate" =>
                             ~account.active \/ \A s \in 1..Len(sessions) : sessions[s].ver < account.version
    BY <1>1 DEF OthersOutdated, Outdates, Of, Begun
  <2> QED
    BY <1>4 DEF OthersOutdated, Outdates, Of, Begun
<1>10. TokensFit => TokensFit'
  BY <1>1, <1>2 DEF TokensFit, Quiet
<1> QED
  BY <1>5, <1>6, <1>7, <1>8, <1>9, <1>10

(* A quiet step keeps everything.                                          *)
LEMMA QuietKeepsInv ==
    ASSUME SignInInv, Quiet
    PROVE  SignInInv'
<1>1. Shape /\ Shape' /\ OneTabEach' /\ Unmet' /\ LastGiven'
  BY QuietKeepsShape, QuietKeepsTabs, QuietKeepsOrder DEF SignInInv, Shape
<1>2. InOrder => InOrder'
  BY <1>1, QuietKeepsOrder DEF InOrder
<1>3. overlapped' = overlapped
  BY DEF Quiet
<1> QED
  BY <1>1, <1>2, <1>3 DEF SignInInv, Shape

-----------------------------------------------------------------------------
(* A request's first look. *)

(* Who is to have which session, when no request changes what it is about. *)
LEMMA SameTabs ==
    ASSUME SignInTypeOK, NEW a \in Asks, Same(a), ask'[a].id = ask[a].id,
           ask' \in [Asks -> AskType], tab' = tab, OneTabEach
    PROVE  OneTabEach'
<1>1. \A b \in Asks : /\ ask'[b].kind = ask[b].kind /\ ask'[b].from = ask[b].from /\ ask'[b].id = ask[b].id
                      /\ ask[b].at \in Stages /\ ask'[b].at \in Stages
  BY DEF Same, SignInTypeOK, AskType
<1> QED
  BY <1>1 DEF OneTabEach, Of

(* What is found is written down, and binds nobody yet.                    *)
LEMMA LookKeepsInv ==
    ASSUME SignInInv, NEW a \in Asks, Look(a)
    PROVE  SignInInv'
<1>1. Shape /\ Found(a) /\ account' = account /\ sessions' = sessions /\ link' = link /\ tab' = tab
      /\ met' = met /\ overlapped' = overlapped /\ astray' = astray /\ asked' = asked
  BY Looking DEF SignInInv, Shape, accountVars
<1>2. /\ WellShaped(a) /\ ask[a] \in AskType /\ ask' \in [Asks -> AskType] /\ ask'[a] \in AskType
      /\ account.version \in Nat /\ Len(sessions) \in Nat
  BY <1>1, LenProperties DEF Shape, Shaped, SignInTypeOK, Found
<1>3. /\ ask'[a].kind = ask[a].kind /\ ask'[a].from = ask[a].from /\ ask'[a].change = ask[a].change
      /\ ask'[a].token = ask[a].token /\ ask'[a].id = ask[a].id /\ ask'[a].ver = account.version
      /\ ask[a].at = "sent" /\ \A b \in Asks : b # a => ask'[b] = ask[b]
  BY <1>1 DEF Found, Same
<1>4. Accepted(ask[a].token) => /\ ask[a].token # NoToken /\ account.active
                                /\ ask[a].token.ver = account.version /\ ~sessions[ask[a].token.sid].ended
                                /\ sessions[ask[a].token.sid].ver = account.version
  BY DEF Accepted, Live
<1>5. /\ ask[a].kind = "secure" /\ ask'[a].at # "unauthorised" =>
             Accepted(ask[a].token) /\ ask'[a].at \in {"refused", "write"} /\ ask[a].id # 0
      /\ ask[a].kind = "secure" => ask[a].token.sid = ask[a].id
  BY <1>1, <1>2, <1>4 DEF Found, WellShaped
<1>6. ask'[a].at \in {"unauthorised", "answer", "refused", "write", "read"}
      /\ (ask'[a].at = "read" => ask[a].kind \in Signs)
  BY <1>1, <1>2 DEF Found, AskType, Kinds, Signs
<1>7. Shape'
  <2>1. SignInTypeOK'
    <3>1. \A b \in Asks : ask'[b].token.sid \in 0..Len(sessions)
      BY <1>1, <1>3 DEF Shape, SignInTypeOK
    <3> QED
      BY <1>1, <1>2, <3>1 DEF Shape, SignInTypeOK
  <2>2. WellShaped(a)'
    BY <1>1, <1>2, <1>3, <1>5, <1>6 DEF WellShaped, Signs, Secures
  <2>3. \A b \in Asks : b # a => (WellShaped(b) => WellShaped(b)')
    BY <1>1, <1>3 DEF WellShaped
  <2>4. TabsShaped'
    BY <1>1 DEF Shape, TabsShaped
  <2> QED
    BY <1>1, <2>1, <2>2, <2>3, <2>4 DEF Shape, Shaped
<1>8. OneTabEach'
  BY <1>1, <1>2, <1>3, SameTabs DEF SignInInv, Found
<1>9. Unmet'
  <2>1. StillTrue(a)'
    <3>1. Of(a, Secures, {"write"} \cup Begun)' => SecureUnmet(a)'
      BY <1>1, <1>3, <1>4, <1>5, <1>6 DEF Of, Secures, Begun, SecureUnmet
    <3>2. Of(a, Signs, Begun)' => SignUnmet(a)'
      BY <1>1, <1>2, <1>3, <1>6 DEF Of, Signs, Begun, SignUnmet, Found, WellShaped, NoToken
    <3>3. Of(a, {"reset"}, {"write"})' => ResetUnmet(a)'
      BY <1>1, <1>3 DEF Of, ResetUnmet, Found
    <3>4. Of(a, {"manage"}, {"write"})' => ManageUnmet(a)'
      BY <1>1, <1>3 DEF Of, ManageUnmet, Found
    <3> QED
      BY <3>1, <3>2, <3>3, <3>4 DEF StillTrue
  <2>2. \A b \in Asks : b # a => (StillTrue(b) => StillTrue(b)')
    BY <1>1, <1>3 DEF StillTrue, Of, SecureUnmet, SignUnmet, ResetUnmet, ManageUnmet
  <2> QED
    BY <1>1, <2>1, <2>2 DEF SignInInv, Unmet
<1>10. LastGiven'
  BY <1>1, <1>3 DEF SignInInv, LastGiven, Of
<1>11. InOrder => InOrder'
  <2> SUFFICES ASSUME InOrder
               PROVE  InOrder'
    OBVIOUS
  <2>1. NoneAhead'
    BY <1>1, <1>2, <1>3 DEF InOrder, NoneAhead
  <2>2. OneReissueEach'
    <3> SUFFICES ASSUME NEW c \in Asks, Of(c, Secures, Begun)'
                 PROVE  /\ \A t \in Tabs : tab[t].token.sid = ask'[c].id => tab[t].token.ver < account.version
                        /\ \A b \in Asks \ {c} :
                               /\ ask'[b].at = "sent" /\ ask'[b].token.sid = ask'[c].id => ask'[b].token.ver < account.version
                               /\ Of(b, Secures, {"write"})' /\ ask'[b].id = ask'[c].id => ask'[b].ver < account.version
                               /\ Of(b, Secures, Begun)' => ask'[b].id # ask'[c].id
      BY <1>1 DEF OneReissueEach
    <3>1. c # a /\ ~Of(a, Secures, Begun)'
      BY <1>3, <1>5 DEF Of, Secures, Begun
    <3>2. /\ \A t \in Tabs : tab[t].token.sid = ask[c].id => tab[t].token.ver < account.version
          /\ \A b \in Asks \ {c} :
                 /\ ask[b].at = "sent" /\ ask[b].token.sid = ask[c].id => ask[b].token.ver < account.version
                 /\ Of(b, Secures, {"write"}) /\ ask[b].id = ask[c].id => ask[b].ver < account.version
                 /\ Of(b, Secures, Begun) => ask[b].id # ask[c].id
      BY <1>3, <3>1 DEF InOrder, OneReissueEach, Of
    <3>3. Of(a, Secures, {"write"})' => ask'[a].id # ask'[c].id
      BY <1>2, <1>3, <1>4, <1>5, <3>1, <3>2 DEF Of, Secures
    <3> QED
      BY <1>3, <1>6, <3>1, <3>2, <3>3 DEF Of
  <2>3. OthersOutdated'
    <3>1. Outdates(a)'
      BY <1>1, <1>3, <1>5 DEF Outdates, Of, Secures, Begun, Found
    <3>2. \A b \in Asks : b # a => (Outdates(b) => Outdates(b)')
      BY <1>1, <1>3 DEF Outdates, Of
    <3> QED
      BY <1>1, <3>1, <3>2 DEF InOrder, OthersOutdated
  <2>4. TokensFit'
    BY <1>1 DEF InOrder, TokensFit
  <2> QED
    BY <2>1, <2>2, <2>3, <2>4 DEF InOrder
<1> QED
  BY <1>1, <1>7, <1>8, <1>9, <1>10, <1>11 DEF SignInInv, Shape

-----------------------------------------------------------------------------
(* Commits. *)

(* Whoever is under way when another commits is known to have been met, so *)
(* that only the request that commits may claim that what it found holds.  *)
LEMMA OthersAreMet ==
    ASSUME NEW a \in Asks, Meets(a), \A b \in Asks : b # a => ask'[b] = ask[b]
    PROVE  /\ a \in Asks \ met' => a \in Asks \ met
           /\ (a \in Asks \ met' => StillTrue(a)') => Unmet'
           /\ (a \in Asks \ met' => Outdates(a)') => OthersOutdated'
<1>1. ASSUME NEW b \in Asks \ met', b # a
      PROVE  StillTrue(b)' /\ Outdates(b)'
  <2>1. ask'[b].at \in {"free", "sent"}
    BY <1>1 DEF Meets
  <2> QED
    BY <2>1 DEF StillTrue, Outdates, Of, Begun
<1>2. a \in Asks \ met' => a \in Asks \ met
  BY DEF Meets
<1> QED
  BY <1>1, <1>2 DEF Unmet, OthersOutdated

(* A request goes on and only that: what it is, where it is from and what  *)
(* it is about stay.                                                       *)
LEMMA GoesOn ==
    ASSUME Shape, NEW a \in Asks, NEW at \in Stages, Becomes(a, [ask[a] EXCEPT !.at = at])
    PROVE  /\ Same(a) /\ ask'[a].at = at /\ ask'[a].id = ask[a].id /\ ask'[a].ver = ask[a].ver
           /\ ask'[a].token = ask[a].token /\ ask'[a].right = ask[a].right
           /\ ask[a] \in AskType /\ ask'[a] \in AskType /\ ask' \in [Asks -> AskType]
           /\ \A b \in Asks : b # a => ask'[b] = ask[b]
<1>1. ask[a] \in AskType
  BY DEF Shape, SignInTypeOK
<1> QED
  BY <1>1 DEF Becomes, Same, AskType

(* It keeps its shape, as far as the stage it goes on to allows.           *)
LEMMA GoesOnShaped ==
    ASSUME Shape, NEW a \in Asks, NEW at \in Stages \ {"free", "sent"},
           Becomes(a, [ask[a] EXCEPT !.at = at]), ask[a].at # "free",
           at \in {"read", "row", "token"} => ask[a].kind = "secure",
           ask[a].kind = "secure" => ask[a].id # 0,
           Len(sessions') = Len(sessions),
           account' \in [version : Nat, active : BOOLEAN, twofactor : BOOLEAN],
           sessions' \in Seq(Row), link' \in [n : Nat, there : BOOLEAN, ver : Nat, outrun : BOOLEAN],
           tab' = tab, met' \subseteq Asks, overlapped' \in BOOLEAN, astray' = astray, asked' = asked
    PROVE  Shape'
<1>1. /\ ask'[a].at = at /\ ask'[a].id = ask[a].id /\ ask'[a].token = ask[a].token
      /\ ask'[a].kind = ask[a].kind /\ ask'[a].change = ask[a].change
      /\ ask' \in [Asks -> AskType] /\ \A b \in Asks : b # a => ask'[b] = ask[b]
  BY GoesOn DEF Same
<1>2. Len(sessions)' = Len(sessions)
  OBVIOUS
<1>3. SignInTypeOK'
  <2>1. \A b \in Asks : ask'[b].token.sid \in 0..Len(sessions)
    BY <1>1 DEF Shape, SignInTypeOK
  <2> QED
    BY <1>1, <1>2, <2>1 DEF Shape, SignInTypeOK, Row
<1>4. WellShaped(a) => WellShaped(a)'
  BY <1>1, <1>2 DEF WellShaped, Secures, Signs
<1>5. \A b \in Asks : b # a => (WellShaped(b) => WellShaped(b)')
  BY <1>1, <1>2 DEF WellShaped
<1>6. TabsShaped'
  BY DEF Shape, TabsShaped
<1> QED
  BY <1>3, <1>4, <1>5, <1>6 DEF Shape, Shaped

(* The version moves on from the one found: every token there is has an    *)
(* outdated one from now on, and nobody else may claim that nothing        *)
(* happened meanwhile.                                                     *)
LEMMA MovesOnKeepsInv ==
    ASSUME SignInInv, NEW a \in Asks, NEW active \in BOOLEAN, NEW twofactor \in BOOLEAN,
           MovesOn(a, active, twofactor), NEW at \in {"read", "answer"},
           Becomes(a, [ask[a] EXCEPT !.at = at]), ask[a].at = "write",
           \/ ask[a].kind = "secure" /\ at = "read" /\ active = account.active
           \/ ask[a].kind \in {"reset", "manage"} /\ at = "answer",
           link' \in [n : Nat, there : BOOLEAN, ver : Nat, outrun : BOOLEAN], link'.ver = link.ver,
           UNCHANGED <<sessions, tab, astray, asked>>
    PROVE  SignInInv'
<1>1. /\ Same(a) /\ ask'[a].at = at /\ ask'[a].id = ask[a].id /\ ask'[a].ver = ask[a].ver
      /\ ask'[a].token = ask[a].token /\ ask[a] \in AskType
      /\ ask'[a].kind = ask[a].kind /\ ask'[a].change = ask[a].change
      /\ ask' \in [Asks -> AskType] /\ \A b \in Asks : b # a => ask'[b] = ask[b]
  <2>1. Shape /\ at \in Stages
    BY DEF SignInInv, Shape, Stages
  <2> QED
    BY <2>1, GoesOn DEF Same
<1>2. /\ account.version \in Nat /\ ask[a].ver \in Nat /\ Len(sessions) \in Nat /\ met \subseteq Asks
      /\ \A s \in 1..Len(sessions) : sessions[s] \in Row /\ sessions[s].ver \in Nat
  <2>1. sessions \in Seq(Row) /\ ask[a] \in AskType /\ account.version \in Nat /\ met \subseteq Asks
    BY DEF SignInInv, SignInTypeOK, Row
  <2>2. Len(sessions) \in Nat /\ \A s \in 1..Len(sessions) : sessions[s] \in Row
    BY <2>1, LenProperties, ElementOfSeq
  <2> QED
    BY <2>1, <2>2 DEF AskType, Row
<1>3. /\ account'.version = ask[a].ver + 1 /\ account'.active = active
      /\ account' \in [version : Nat, active : BOOLEAN, twofactor : BOOLEAN]
      /\ overlapped' \in BOOLEAN /\ met' \subseteq Asks /\ Meets(a)
  BY <1>2 DEF MovesOn, Meets
<1>4. ~overlapped' => ~overlapped /\ account'.version = account.version + 1 /\ ask[a].ver = account.version
  BY <1>2, <1>3 DEF MovesOn
<1>5. Shape'
  <2>1. Shape /\ sessions' \in Seq(Row) /\ Len(sessions') = Len(sessions)
    BY DEF SignInInv, Shape, SignInTypeOK, Row
  <2>2. ask[a].kind = "secure" => ask[a].id # 0
    BY DEF SignInInv, Shaped, WellShaped
  <2>3. at \in Stages \ {"free", "sent"} /\ ask[a].at # "free"
        /\ (at \in {"read", "row", "token"} => ask[a].kind = "secure")
    BY DEF Stages
  <2> QED
    BY <1>3, <2>1, <2>2, <2>3, GoesOnShaped
<1>6. OneTabEach'
  BY <1>1, SameTabs DEF SignInInv
<1>7. Unmet'
  <2> SUFFICES ASSUME a \in Asks \ met, a \in Asks \ met'
               PROVE  StillTrue(a)'
    BY <1>1, <1>3, OthersAreMet
  <2>1. ask[a].kind = "secure" => account.active /\ ~sessions[ask[a].id].ended
    BY DEF SignInInv, Unmet, StillTrue, Of, Secures, SecureUnmet
  <2> QED
    BY <1>1, <1>3, <2>1 DEF StillTrue, Of, Secures, Signs, Begun, SecureUnmet
<1>8. LastGiven'
  BY <1>1 DEF SignInInv, LastGiven, Of
<1>9. ASSUME ~overlapped'
      PROVE  InOrder'
  <2>1. InOrder /\ account'.version = account.version + 1 /\ ask[a].ver = account.version
    BY <1>4, <1>9 DEF SignInInv
  <2>2. /\ \A s \in 1..Len(sessions) : sessions[s].ver < account'.version
        /\ \A t \in Tabs : tab[t].token.ver < account'.version /\ tab[t].pending < account'.version
        /\ \A b \in Asks : ask[b].token.ver < account'.version /\ ask[b].ver < account'.version
        /\ link.ver < account'.version
    <3>1. /\ \A s \in 1..Len(sessions) : sessions[s].ver <= account.version
          /\ \A t \in Tabs : tab[t].token.ver <= account.version /\ tab[t].pending <= account.version
          /\ \A b \in Asks : ask[b].token.ver <= account.version /\ ask[b].ver <= account.version
          /\ link.ver <= account.version
      BY <2>1 DEF InOrder, NoneAhead
    <3>2. /\ \A t \in Tabs : tab[t].token.ver \in Nat /\ tab[t].pending \in Nat
          /\ \A b \in Asks : ask[b].token.ver \in Nat /\ ask[b].ver \in Nat
          /\ link.ver \in Nat
      BY DEF SignInInv, SignInTypeOK, AskType, Token
    <3> QED
      BY <1>2, <2>1, <3>1, <3>2
  <2>3. \A b \in Asks : ask'[b].token.ver < account'.version /\ ask'[b].ver < account'.version
    BY <1>1, <2>2
  <2>4. NoneAhead'
    <3>1. /\ account'.version \in Nat
          /\ \A t \in Tabs : tab[t].token.ver \in Nat /\ tab[t].pending \in Nat
          /\ \A b \in Asks : ask'[b].token.ver \in Nat /\ ask'[b].ver \in Nat
          /\ link.ver \in Nat
      BY <1>1, <1>3 DEF SignInInv, SignInTypeOK, AskType, Token
    <3> QED
      BY <1>2, <2>2, <2>3, <3>1 DEF NoneAhead
  <2>5. OneReissueEach'
    <3>1. ASSUME NEW c \in Asks, NEW b \in Asks \ {c}, Of(c, Secures, Begun)', Of(b, Secures, Begun)'
          PROVE  ask'[b].id # ask'[c].id
      <4>1. CASE c # a /\ b # a
        BY <1>1, <2>1, <3>1, <4>1 DEF InOrder, OneReissueEach, Of
      <4>2. CASE c = a
        <5>1. Of(b, Secures, Begun) /\ Of(a, Secures, {"write"})
          BY <1>1, <3>1, <4>2 DEF Of
        <5> QED
          BY <1>1, <1>2, <2>1, <3>1, <4>2, <5>1 DEF InOrder, OneReissueEach
      <4>3. CASE b = a
        <5>1. Of(c, Secures, Begun) /\ Of(a, Secures, {"write"})
          BY <1>1, <3>1, <4>3 DEF Of
        <5> QED
          BY <1>1, <1>2, <2>1, <3>1, <4>3, <5>1 DEF InOrder, OneReissueEach
      <4> QED
        BY <4>1, <4>2, <4>3
    <3> QED
      BY <2>2, <2>3, <3>1 DEF OneReissueEach
  <2>6. OthersOutdated'
    <3>1. Outdates(a)'
      BY <2>2 DEF Outdates
    <3> QED
      BY <1>1, <1>3, <3>1, OthersAreMet
  <2>7. TokensFit'
    <3>1. \A t \in Tabs : tab[t].token.ver # account'.version
      BY <1>3, <2>2 DEF SignInInv, SignInTypeOK, Token
    <3> QED
      BY <3>1 DEF TokensFit
  <2> QED
    BY <2>4, <2>5, <2>6, <2>7 DEF InOrder
<1> QED
  BY <1>5, <1>6, <1>7, <1>8, <1>9 DEF SignInInv, Shape

(* A commit at the version there is, of a request that reissues nothing and*)
(* signs nobody in.                                                        *)
LEMMA StaysAtKeepsInv ==
    ASSUME SignInInv, NEW a \in Asks, Meets(a), NEW at \in {"answer", "refused"},
           Becomes(a, [ask[a] EXCEPT !.at = at]), ask[a].at = "write",
           ask[a].kind \notin Secures \cup Signs, ask[a].kind = "reset" => at = "refused",
           account' \in [version : Nat, active : BOOLEAN, twofactor : BOOLEAN],
           account'.version = account.version, account.active => account'.active,
           ask[a].kind = "manage" /\ ask[a].change # "reactivate" /\ a \notin met => ~account'.active,
           sessions' \in Seq(Row), Len(sessions') = Len(sessions),
           \A s \in 1..Len(sessions) : sessions'[s].ver = sessions[s].ver,
           link' \in [n : Nat, there : BOOLEAN, ver : Nat, outrun : BOOLEAN],
           NoneAhead => link'.ver <= account.version
                        /\ (link'.there /\ link'.ver = account.version => ~link'.outrun),
           UNCHANGED <<tab, overlapped, astray, asked>>
    PROVE  SignInInv'
<1>1. /\ Same(a) /\ ask'[a].at = at /\ ask'[a].id = ask[a].id /\ ask'[a].ver = ask[a].ver
      /\ ask'[a].token = ask[a].token /\ ask[a] \in AskType
      /\ ask'[a].kind = ask[a].kind /\ ask'[a].change = ask[a].change
      /\ ask' \in [Asks -> AskType] /\ \A b \in Asks : b # a => ask'[b] = ask[b]
  <2>1. Shape /\ at \in Stages
    BY DEF SignInInv, Shape, Stages
  <2> QED
    BY <2>1, GoesOn DEF Same
<1>2. met' \subseteq Asks /\ Len(sessions) \in Nat /\ ask[a].kind # "secure" /\ ask[a].kind \notin Signs
  BY LenProperties DEF SignInInv, SignInTypeOK, Meets, Secures, Row
<1>3. Shape'
  <2>1. Shape /\ overlapped' \in BOOLEAN
    BY DEF SignInInv, Shape, SignInTypeOK
  <2>2. at \in Stages \ {"free", "sent"} /\ ask[a].at # "free" /\ at \notin {"read", "row", "token"}
    BY DEF Stages
  <2> QED
    BY <1>2, <2>1, <2>2, GoesOnShaped
<1>4. OneTabEach'
  BY <1>1, SameTabs DEF SignInInv
<1>5. Unmet'
  <2>1. StillTrue(a)'
    BY <1>1, <1>2 DEF StillTrue, Of, Secures
  <2> QED
    BY <1>1, <2>1, OthersAreMet
<1>6. \A t \in Tabs : tab[t].token # NoToken => tab[t].token.sid \in 1..Len(sessions)
  BY <1>2 DEF SignInInv, SignInTypeOK, TabsShaped, Token
<1>7. LastGiven'
  <2>1. ~Of(a, Secures, {"token", "answer"}) /\ ~Of(a, Secures, {"token", "answer"})'
    BY <1>1, <1>2 DEF Of, Secures
  <2>2. \A b \in Asks : (Of(b, Secures, {"token", "answer"}) => ask[b].id # 0) /\ ask'[b].id = ask[b].id
                        /\ (Of(b, Secures, {"token", "answer"}) <=> Of(b, Secures, {"token", "answer"})')
    BY <1>1, <2>1 DEF Of, SignInInv, Shaped, WellShaped, Secures
  <2> QED
    BY <1>6, <2>2 DEF SignInInv, LastGiven
<1>8. InOrder => InOrder'
  <2> SUFFICES ASSUME InOrder
               PROVE  InOrder'
    OBVIOUS
  <2>1. NoneAhead'
    BY <1>1 DEF InOrder, NoneAhead
  <2>2. OneReissueEach'
    <3>1. /\ ~Of(a, Secures, Begun) /\ ~Of(a, Secures, Begun)' /\ ~Of(a, Secures, {"write"})'
          /\ ask'[a].at # "sent"
      BY <1>1, <1>2 DEF Of, Secures
    <3>2. \A b \in Asks : b # a => ask'[b] = ask[b]
      BY <1>1
    <3> QED
      BY <3>1, <3>2 DEF InOrder, OneReissueEach, Of
  <2>3. OthersOutdated'
    <3> SUFFICES ASSUME a \in Asks \ met'
                 PROVE  Outdates(a)'
      BY <1>1, OthersAreMet
    <3>1. a \notin met
      BY OthersAreMet, <1>1
    <3> QED
      BY <1>1, <1>2, <3>1 DEF Outdates, Of, Secures, Same
  <2>4. TokensFit'
    BY <1>6 DEF InOrder, TokensFit
  <2> QED
    BY <2>1, <2>2, <2>3, <2>4 DEF InOrder
<1> QED
  BY <1>3, <1>4, <1>5, <1>7, <1>8 DEF SignInInv, Shape

(* A session ended keeps its version, and so do the others.                *)
LEMMA EndingOne ==
    ASSUME NEW seq \in Seq(Row), NEW i
    PROVE  LET new == [seq EXCEPT ![i].ended = TRUE]
           IN  /\ new \in Seq(Row) /\ Len(new) = Len(seq)
               /\ \A s \in 1..Len(seq) : new[s].ver = seq[s].ver /\ (seq[s].ended => new[s].ended)
<1> DEFINE new == [seq EXCEPT ![i].ended = TRUE]
<1>1. Len(seq) \in Nat /\ seq \in [1..Len(seq) -> Row]
  BY LenProperties, ElementOfSeq
<1>2. \A s \in 1..Len(seq) : seq[s] \in Row /\ [seq[s] EXCEPT !.ended = TRUE] \in Row
  BY <1>1 DEF Row
<1>3. /\ new \in [1..Len(seq) -> Row]
      /\ \A s \in 1..Len(seq) : new[s] = IF s = i THEN [seq[s] EXCEPT !.ended = TRUE] ELSE seq[s]
  BY <1>1, <1>2
<1>4. \A s \in 1..Len(seq) : new[s].ver = seq[s].ver /\ (seq[s].ended => new[s].ended)
  <2> HIDE DEF new
  <2> QED
    BY <1>2, <1>3 DEF Row
<1>5. new \in Seq(Row) /\ Len(new) = Len(seq)
  <2> HIDE DEF new
  <2> QED
    BY <1>1, <1>3, SeqDef, LenProperties
<1> QED
  BY <1>4, <1>5

(* identity.py, password_reset.py, admin.py, sessions.py: every commit of a*)
(* request but those that write the row of a session to be given a token.  *)
LEMMA CommitsKeepInv ==
    ASSUME SignInInv, NEW a \in Asks,
           CommitSecured(a) \/ CommitReset(a) \/ CommitLink(a) \/ CommitManaged(a) \/ CommitEnded(a)
    PROVE  SignInInv'
<1>1. /\ account \in [version : Nat, active : BOOLEAN, twofactor : BOOLEAN]
      /\ link \in [n : Nat, there : BOOLEAN, ver : Nat, outrun : BOOLEAN]
      /\ ask[a] \in AskType /\ ask[a].ver \in Nat /\ ask[a].right \in BOOLEAN
      /\ sessions \in Seq(Row) /\ account.version \in Nat /\ account.active \in BOOLEAN
  BY DEF SignInInv, SignInTypeOK, AskType, Row
<1>2. \A at \in Stages : Turns(a, at) => Becomes(a, [ask[a] EXCEPT !.at = at])
  BY Turning DEF SignInInv
<1>3. CASE CommitSecured(a)
  <2> DEFINE twofactor == IF ask[a].change = "none" THEN account.twofactor ELSE ask[a].change = "on"
  <2>1. twofactor \in BOOLEAN
    BY <1>1
  <2>2. MovesOn(a, account.active, twofactor)
    BY <1>3 DEF CommitSecured
  <2>3. /\ Becomes(a, [ask[a] EXCEPT !.at = "read"]) /\ ask[a].at = "write" /\ ask[a].kind = "secure"
        /\ link' \in [n : Nat, there : BOOLEAN, ver : Nat, outrun : BOOLEAN] /\ link'.ver = link.ver
        /\ UNCHANGED <<sessions, tab, astray, asked>>
    BY <1>1, <1>2, <1>3 DEF CommitSecured, Does, Outrun, Stages
  <2> HIDE DEF twofactor
  <2> QED
    BY <1>1, <2>1, <2>2, <2>3, MovesOnKeepsInv
<1>4. CASE CommitReset(a)
  <2>1. /\ ask[a].at = "write" /\ ask[a].kind = "reset" /\ UNCHANGED <<sessions, tab, astray, asked>>
        /\ link' \in [n : Nat, there : BOOLEAN, ver : Nat, outrun : BOOLEAN] /\ link'.ver = link.ver
        /\ link'.there => link.there
        /\ link'.outrun => link.outrun \/ ask[a].right
    BY <1>1, <1>4 DEF CommitReset, Does
  <2>2. CASE ask[a].right
    <3>1. Becomes(a, [ask[a] EXCEPT !.at = "answer"])
      BY <1>2, <1>4, <2>2 DEF CommitReset, Stages
    <3>2. MovesOn(a, account.active, account.twofactor) /\ account.twofactor \in BOOLEAN
      BY <1>1, <1>4, <2>2 DEF CommitReset
    <3> QED
      BY <1>1, <2>1, <3>1, <3>2, MovesOnKeepsInv
  <2>3. CASE ~ask[a].right
    <3>1. Becomes(a, [ask[a] EXCEPT !.at = "refused"]) /\ Meets(a) /\ account' = account /\ overlapped' = overlapped
      BY <1>2, <1>4, <2>3 DEF CommitReset, Stages
    <3>2. NoneAhead => link'.ver <= account.version
                       /\ (link'.there /\ link'.ver = account.version => ~link'.outrun)
      BY <2>1, <2>3 DEF NoneAhead
    <3>3. ask[a].kind \notin Secures \cup Signs
      BY <2>1 DEF Secures, Signs
    <3> QED
      BY <1>1, <2>1, <3>1, <3>2, <3>3, StaysAtKeepsInv
  <2> QED
    BY <2>2, <2>3
<1>5. CASE CommitLink(a)
  <2>1. /\ ask[a].at = "write" /\ ask[a].kind = "forget" /\ Meets(a)
        /\ UNCHANGED <<account, sessions, tab, overlapped, astray, asked>>
        /\ Becomes(a, [ask[a] EXCEPT !.at = "answer"])
        /\ link' = [n |-> link.n + 1, there |-> TRUE, ver |-> ask[a].ver,
                    outrun |-> account.version # ask[a].ver]
    BY <1>2, <1>5 DEF CommitLink, Does, Stages
  <2>2. /\ link' \in [n : Nat, there : BOOLEAN, ver : Nat, outrun : BOOLEAN]
        /\ NoneAhead => link'.ver <= account.version
                        /\ (link'.there /\ link'.ver = account.version => ~link'.outrun)
    <3> DEFINE moved == account.version # ask[a].ver
    <3>1. moved \in BOOLEAN /\ link.n + 1 \in Nat
      BY <1>1
    <3>2. link' = [n |-> link.n + 1, there |-> TRUE, ver |-> ask[a].ver, outrun |-> moved]
      BY <2>1
    <3>3. link'.ver = ask[a].ver /\ link'.outrun = moved
      BY <3>2
    <3>4. NoneAhead => ask[a].ver <= account.version
      BY DEF NoneAhead
    <3>5. link'.ver = account.version => ~link'.outrun
      BY <3>3
    <3> HIDE DEF moved
    <3>6. link' \in [n : Nat, there : BOOLEAN, ver : Nat, outrun : BOOLEAN]
      BY <1>1, <3>1, <3>2
    <3> QED
      BY <3>3, <3>4, <3>5, <3>6
  <2>3. ask[a].kind \notin Secures \cup Signs
    BY <2>1 DEF Secures, Signs
  <2> QED
    BY <1>1, <2>1, <2>2, <2>3, StaysAtKeepsInv
<1>6. CASE CommitManaged(a)
  <2> DEFINE change == ask[a].change
             found  == ask[a].right
             active == CASE change = "deactivate" /\ found  -> FALSE
                         [] change = "reactivate" /\ ~found -> TRUE
                         [] OTHER                           -> account.active
  <2>1. /\ ask[a].at = "write" /\ ask[a].kind = "manage" /\ UNCHANGED <<sessions, tab, astray, asked>>
        /\ Becomes(a, [ask[a] EXCEPT !.at = "answer"])
    BY <1>2, <1>6 DEF CommitManaged, Does, Stages
  <2>2. /\ active \in BOOLEAN
        /\ ~EndsAll(change, found) => (account.active => active)
        /\ ~EndsAll(change, found) /\ change # "reactivate" => active = account.active
    <3>1. CASE change = "deactivate" /\ found
      BY <3>1 DEF EndsAll
    <3>2. CASE change = "reactivate" /\ ~found
      BY <3>2
    <3>3. CASE ~(change = "deactivate" /\ found) /\ ~(change = "reactivate" /\ ~found)
      BY <1>1, <3>3
    <3> QED
      BY <3>1, <3>2, <3>3
  <2>3. /\ EndsAll(change, found) => /\ MovesOn(a, active, account.twofactor /\ change # "clear")
                                     /\ link' = Outrun
        /\ ~EndsAll(change, found) => /\ account' = [account EXCEPT !.active = active]
                                      /\ Meets(a) /\ UNCHANGED <<overlapped, link>>
    BY <1>6 DEF CommitManaged
  <2>4. change \in {"end", "clear", "deactivate", "reactivate"}
    BY <2>1 DEF SignInInv, Shaped, WellShaped
  <2>5. CASE EndsAll(change, found)
    <3>1. /\ (account.twofactor /\ change # "clear") \in BOOLEAN
          /\ link' \in [n : Nat, there : BOOLEAN, ver : Nat, outrun : BOOLEAN] /\ link'.ver = link.ver
      BY <1>1, <2>3, <2>5 DEF Outrun
    <3> HIDE DEF active, change, found
    <3> DEFINE twofactor == account.twofactor /\ change # "clear"
    <3>2. MovesOn(a, active, twofactor) /\ twofactor \in BOOLEAN
      BY <2>3, <2>5
    <3> HIDE DEF twofactor
    <3> QED
      BY <2>1, <2>2, <3>1, <3>2, MovesOnKeepsInv
  <2>6. CASE ~EndsAll(change, found)
    <3>1. /\ account' = [account EXCEPT !.active = active] /\ Meets(a)
          /\ overlapped' = overlapped /\ link' = link
      BY <2>3, <2>6
    <3>2. ask[a].change # "reactivate" => ask[a].change = "deactivate" /\ ~ask[a].right
      BY <2>4, <2>6 DEF EndsAll
    <3>3. ask[a].change # "reactivate" /\ a \notin met => ~account.active
      BY <1>1, <2>1, <3>2 DEF SignInInv, Unmet, StillTrue, ManageUnmet, Of
    <3>4. (account.active => active) /\ (ask[a].change # "reactivate" => active = account.active)
      BY <2>2, <2>6
    <3> HIDE DEF active
    <3>5. /\ account' \in [version : Nat, active : BOOLEAN, twofactor : BOOLEAN]
          /\ account'.version = account.version /\ account'.active = active
      BY <1>1, <2>2, <3>1
    <3>6. NoneAhead => link'.ver <= account.version
                       /\ (link'.there /\ link'.ver = account.version => ~link'.outrun)
      BY <3>1 DEF NoneAhead
    <3>7. ask[a].kind \notin Secures \cup Signs /\ ask[a].kind # "reset"
      BY <2>1 DEF Secures, Signs
    <3> QED
      BY <1>1, <2>1, <3>1, <3>3, <3>4, <3>5, <3>6, <3>7, StaysAtKeepsInv
  <2> QED
    BY <2>5, <2>6
<1>7. CASE CommitEnded(a)
  <2>1. /\ ask[a].at = "write" /\ ask[a].kind \in {"revoke", "signout"} /\ Meets(a)
        /\ UNCHANGED <<account, link, tab, overlapped, astray, asked>>
        /\ Becomes(a, [ask[a] EXCEPT !.at = "answer"])
        /\ sessions' = [sessions EXCEPT ![ask[a].id].ended = TRUE]
    BY <1>2, <1>7 DEF CommitEnded, Does, Stages
  <2>2. /\ sessions' \in Seq(Row) /\ Len(sessions') = Len(sessions)
        /\ \A s \in 1..Len(sessions) : sessions'[s].ver = sessions[s].ver
    BY <1>1, <2>1, EndingOne
  <2>3. ask[a].kind \notin Secures \cup Signs
    BY <2>1 DEF Secures, Signs
  <2>4. NoneAhead => link'.ver <= account.version
                     /\ (link'.there /\ link'.ver = account.version => ~link'.outrun)
    BY <2>1 DEF NoneAhead
  <2> QED
    BY <1>1, <2>1, <2>2, <2>3, <2>4, StaysAtKeepsInv
<1> QED
  BY <1>3, <1>4, <1>5, <1>6, <1>7

-----------------------------------------------------------------------------
(* The rows and the tokens given after it. *)

(* sessions.py reissue, start: the account is read again.                  *)
LEMMA ReadVersionKeepsInv ==
    ASSUME SignInInv, NEW a \in Asks, ReadVersion(a)
    PROVE  SignInInv'
<1> DEFINE at == IF ask[a].kind = "secure" /\ sessions[ask[a].id].ver = account.version
                 THEN "token" ELSE "row"
           new == [ask[a] EXCEPT !.ver = account.version, !.at = at]
<1>1. /\ account' = account /\ sessions' = sessions /\ link' = link /\ tab' = tab
      /\ met' = met /\ overlapped' = overlapped /\ astray' = astray /\ asked' = asked
      /\ ask[a].at = "read" /\ at \in {"token", "row"}
  BY DEF ReadVersion, accountVars
<1>2. /\ SignInTypeOK /\ WellShaped(a) /\ ask[a] \in AskType /\ account.version \in Nat /\ Len(sessions) \in Nat
  BY LenProperties DEF SignInInv, Shaped, SignInTypeOK
<1>3. /\ ask'[a].kind = ask[a].kind /\ ask'[a].from = ask[a].from /\ ask'[a].change = ask[a].change
      /\ ask'[a].token = ask[a].token /\ ask'[a].id = ask[a].id
      /\ ask'[a].ver = account.version /\ ask'[a].at = at
      /\ ask' \in [Asks -> AskType] /\ \A b \in Asks : b # a => ask'[b] = ask[b]
  <2>1. ask' = [ask EXCEPT ![a] = new]
    BY <1>2 DEF ReadVersion, SignInTypeOK
  <2> HIDE DEF at
  <2>2. new \in AskType /\ new.kind = ask[a].kind /\ new.from = ask[a].from /\ new.change = ask[a].change
        /\ new.token = ask[a].token /\ new.id = ask[a].id /\ new.ver = account.version /\ new.at = at
    BY <1>1, <1>2 DEF AskType, Stages
  <2> HIDE DEF new
  <2> QED
    BY <1>2, <2>1, <2>2, Becoming DEF Becomes
<1>4. at = "token" => ask[a].kind = "secure" /\ sessions[ask[a].id].ver = account.version
  OBVIOUS
<1> HIDE DEF at, new
<1>5. Shape'
  <2>1. SignInTypeOK'
    <3>1. \A b \in Asks : ask'[b].token.sid \in 0..Len(sessions)
      BY <1>2, <1>3 DEF SignInTypeOK
    <3> QED
      BY <1>1, <1>2, <1>3, <3>1 DEF SignInTypeOK
  <2>2. WellShaped(a)'
    BY <1>1, <1>2, <1>3, <1>4 DEF WellShaped, Secures, Signs
  <2>3. \A b \in Asks : b # a => (WellShaped(b) => WellShaped(b)')
    BY <1>1, <1>3 DEF WellShaped
  <2>4. TabsShaped'
    BY <1>1 DEF SignInInv, TabsShaped
  <2> QED
    BY <2>1, <2>2, <2>3, <2>4 DEF SignInInv, Shape, Shaped
<1>6. OneTabEach'
  BY <1>1, <1>2, <1>3, SameTabs DEF SignInInv, Same
<1>7. Unmet'
  <2>1. a \in Asks \ met => StillTrue(a)'
    <3> SUFFICES ASSUME a \in Asks \ met
                 PROVE  StillTrue(a)'
      OBVIOUS
    <3>1. StillTrue(a)
      BY DEF SignInInv, Unmet
    <3>2. Of(a, Secures, {"write"} \cup Begun)' => SecureUnmet(a)'
      BY <1>1, <1>3, <1>4, <3>1 DEF StillTrue, Of, Begun, SecureUnmet
    <3>3. Of(a, Signs, Begun)' => SignUnmet(a)'
      <4>1. ask[a].kind \in Signs => ask[a].token = NoToken
        BY <1>1, <1>2 DEF WellShaped, NoToken
      <4> QED
        BY <1>1, <1>3, <1>4, <3>1, <4>1 DEF StillTrue, Of, Begun, SignUnmet, Signs
    <3> QED
      BY <1>1, <1>3, <3>2, <3>3 DEF StillTrue, Of
  <2>2. \A b \in Asks : b # a => (StillTrue(b) => StillTrue(b)')
    BY <1>1, <1>3 DEF StillTrue, Of, SecureUnmet, SignUnmet, ResetUnmet, ManageUnmet
  <2> QED
    BY <1>1, <2>1, <2>2 DEF SignInInv, Unmet
<1>8. LastGiven'
  <2>1. \A b \in Asks : Of(b, Secures, {"token", "answer"}) =>
                            Of(b, Secures, {"token", "answer"})' /\ ask'[b].id = ask[b].id
    BY <1>1, <1>3 DEF Of
  <2> QED
    BY <1>1, <2>1 DEF SignInInv, LastGiven
<1>9. InOrder => InOrder'
  <2> SUFFICES ASSUME InOrder
               PROVE  InOrder'
    OBVIOUS
  <2>1. NoneAhead'
    BY <1>1, <1>2, <1>3 DEF InOrder, NoneAhead
  <2>2. /\ \A b \in Asks : ask'[b].kind = ask[b].kind /\ ask'[b].id = ask[b].id /\ ask'[b].token = ask[b].token
        /\ \A b \in Asks : /\ Of(b, Secures, Begun)' <=> Of(b, Secures, Begun)
                           /\ Of(b, Secures, {"write"})' => b # a /\ Of(b, Secures, {"write"})
                           /\ ask'[b].at = "sent" => b # a
    BY <1>1, <1>3 DEF Of, Begun
  <2>3. OneReissueEach'
    BY <1>1, <1>3, <2>2 DEF InOrder, OneReissueEach
  <2>4. OthersOutdated'
    <3>1. Outdates(a) => Outdates(a)'
      BY <1>1, <1>3, <2>2 DEF Outdates, Of
    <3>2. \A b \in Asks : b # a => (Outdates(b) => Outdates(b)')
      BY <1>1, <1>3 DEF Outdates, Of
    <3> QED
      BY <1>1, <3>1, <3>2 DEF InOrder, OthersOutdated
  <2>5. TokensFit'
    BY <1>1 DEF InOrder, TokensFit
  <2> QED
    BY <2>1, <2>3, <2>4, <2>5 DEF InOrder
<1> QED
  BY <1>1, <1>5, <1>6, <1>7, <1>8, <1>9 DEF SignInInv, Shape

(* sessions.py reissue: the row is brought to the version read. Whoever has*)
(* a token for the session has an outdated one.                            *)
LEMMA ReissueKeepsInv ==
    ASSUME SignInInv, NEW a \in Asks, Reissue(a)
    PROVE  SignInInv'
<1> DEFINE i == ask[a].id
<1>1. /\ account' = account /\ link' = link /\ tab' = tab /\ overlapped' = overlapped
      /\ astray' = astray /\ asked' = asked /\ Meets(a)
      /\ ask[a].at = "row" /\ ask[a].kind = "secure" /\ Turns(a, "token")
      /\ sessions' = [sessions EXCEPT ![i].ver = ask[a].ver]
  BY DEF Reissue, Does, Brought
<1>2. /\ Shape /\ WellShaped(a) /\ ask[a] \in AskType /\ account.version \in Nat
      /\ sessions \in Seq(Row) /\ Len(sessions) \in Nat
      /\ \A s \in 1..Len(sessions) : sessions[s] \in Row
      /\ i \in 1..Len(sessions) /\ i # 0
  <2>1. /\ Shape /\ WellShaped(a) /\ ask[a] \in AskType /\ account.version \in Nat /\ sessions \in Seq(Row)
        /\ ask[a].token.sid \in 0..Len(sessions)
    BY DEF SignInInv, Shape, Shaped, SignInTypeOK, Row
  <2>2. Len(sessions) \in Nat /\ \A s \in 1..Len(sessions) : sessions[s] \in Row
    BY <2>1, LenProperties, ElementOfSeq
  <2>3. i # 0 /\ i = ask[a].token.sid
    BY <1>1, <2>1 DEF WellShaped
  <2> QED
    BY <2>1, <2>2, <2>3
<1>3. /\ Becomes(a, [ask[a] EXCEPT !.at = "token"])
      /\ Same(a) /\ ask'[a].at = "token" /\ ask'[a].id = ask[a].id /\ ask'[a].ver = ask[a].ver
      /\ ask'[a].token = ask[a].token /\ ask'[a].kind = ask[a].kind
      /\ ask' \in [Asks -> AskType] /\ \A b \in Asks : b # a => ask'[b] = ask[b]
  <2>1. "token" \in Stages
    BY DEF Stages
  <2>2. Becomes(a, [ask[a] EXCEPT !.at = "token"])
    BY <1>1, <2>1, Turning DEF SignInInv
  <2> QED
    BY <1>2, <2>1, <2>2, GoesOn DEF Same
<1>4. /\ sessions' \in Seq(Row) /\ Len(sessions') = Len(sessions)
      /\ sessions'[i].ver = ask[a].ver /\ sessions'[i].ended = sessions[i].ended
      /\ \A s \in 1..Len(sessions) : s # i => sessions'[s] = sessions[s]
  <2> DEFINE new == [sessions[i] EXCEPT !.ver = ask[a].ver]
  <2>1. new \in Row /\ new.ver = ask[a].ver /\ new.ended = sessions[i].ended
    BY <1>2 DEF Row, AskType
  <2>2. sessions' = [sessions EXCEPT ![i] = new]
    BY <1>1
  <2> HIDE DEF new, i
  <2> QED
    BY <1>2, <2>1, <2>2, ExceptSeq
<1> HIDE DEF i
<1>5. Shape'
  <2>1. met' \subseteq Asks /\ overlapped' \in BOOLEAN /\ account' \in [version : Nat, active : BOOLEAN, twofactor : BOOLEAN]
        /\ link' \in [n : Nat, there : BOOLEAN, ver : Nat, outrun : BOOLEAN]
    BY <1>1, <1>2 DEF Shape, SignInTypeOK, Meets
  <2>2. "token" \in Stages \ {"free", "sent"}
    BY DEF Stages
  <2> QED
    BY <1>1, <1>2, <1>3, <1>4, <2>1, <2>2, GoesOnShaped DEF i
<1>6. OneTabEach'
  BY <1>1, <1>3, SameTabs DEF SignInInv
<1>7. Unmet'
  <2> SUFFICES ASSUME a \in Asks \ met
               PROVE  StillTrue(a)'
    BY <1>1, <1>3, OthersAreMet
  <2>1. SecureUnmet(a)
    BY <1>1 DEF SignInInv, Unmet, StillTrue, Of, Secures, Begun
  <2>2. SecureUnmet(a)'
    BY <1>1, <1>3, <1>4, <2>1 DEF SecureUnmet, i
  <2> QED
    BY <1>1, <1>3, <2>2 DEF StillTrue, Of, Signs
<1>8. LastGiven'
  <2> SUFFICES ASSUME NEW t \in Tabs, tab[t].token # NoToken, tab[t].token.sid \notin astray,
                      \A b \in Asks : Of(b, Secures, {"token", "answer"})' => ask'[b].id # tab[t].token.sid
               PROVE  tab[t].token.ver = sessions'[tab[t].token.sid].ver
    BY <1>1 DEF LastGiven
  <2>1. tab[t].token.sid # i
    BY <1>1, <1>3 DEF Of, Secures, i
  <2>2. \A b \in Asks : Of(b, Secures, {"token", "answer"}) => ask[b].id # tab[t].token.sid
    BY <1>1, <1>3 DEF Of
  <2>3. tab[t].token.sid \in 1..Len(sessions)
    BY <1>2 DEF Shape, SignInTypeOK, TabsShaped
  <2> QED
    BY <1>4, <2>1, <2>2, <2>3 DEF SignInInv, LastGiven
<1>9. InOrder => InOrder'
  <2> SUFFICES ASSUME InOrder
               PROVE  InOrder'
    OBVIOUS
  <2>1. NoneAhead'
    <3>1. \A s \in 1..Len(sessions) : sessions'[s].ver <= account.version
      BY <1>4 DEF InOrder, NoneAhead
    <3> QED
      BY <1>1, <1>3, <1>4, <3>1 DEF InOrder, NoneAhead
  <2>2. \A b \in Asks : /\ ask'[b].id = ask[b].id /\ ask'[b].token = ask[b].token /\ ask'[b].ver = ask[b].ver
                        /\ Of(b, Secures, Begun)' <=> Of(b, Secures, Begun)
                        /\ Of(b, Secures, {"write"})' => Of(b, Secures, {"write"})
                        /\ ask'[b].at = "sent" => ask[b].at = "sent"
    BY <1>1, <1>3 DEF Of, Begun
  <2>3. OneReissueEach'
    BY <1>1, <2>2 DEF InOrder, OneReissueEach
  <2>4. OthersOutdated'
    <3> SUFFICES ASSUME a \in Asks \ met
                 PROVE  Outdates(a)'
      BY <1>1, <1>3, OthersAreMet
    <3>1. \A s \in 1..Len(sessions) : s # i => sessions[s].ver < account.version
      BY <1>1 DEF InOrder, OthersOutdated, Outdates, Of, Secures, Begun, i
    <3> QED
      BY <1>1, <1>3, <1>4, <3>1 DEF Outdates, Of, i
  <2>5. TokensFit'
    <3> SUFFICES ASSUME NEW t \in Tabs, tab[t].token # NoToken, tab[t].token.sid \notin astray,
                        tab[t].token.ver = account.version
                 PROVE  account.active /\ sessions'[tab[t].token.sid].ver = account.version
      BY <1>1 DEF TokensFit
    <3>1. tab[t].token.sid # i
      <4>1. Of(a, Secures, Begun)
        BY <1>1 DEF Of, Secures, Begun
      <4>2. tab[t].token.sid = i => tab[t].token.ver < account.version
        BY <4>1 DEF InOrder, OneReissueEach, i
      <4> QED
        BY <1>2, <4>2
    <3>2. tab[t].token.sid \in 1..Len(sessions)
      BY <1>2 DEF Shape, SignInTypeOK, TabsShaped
    <3> QED
      BY <1>4, <3>1, <3>2 DEF InOrder, TokensFit
  <2> QED
    BY <2>1, <2>3, <2>4, <2>5 DEF InOrder
<1> QED
  BY <1>1, <1>5, <1>6, <1>7, <1>8, <1>9 DEF SignInInv, Shape

(* sessions.py start: a session nobody has a token for yet.                *)
LEMMA StartKeepsInv ==
    ASSUME SignInInv, NEW a \in Asks, Start(a)
    PROVE  SignInInv'
<1> DEFINE i   == Len(sessions) + 1
           row == [ver |-> ask[a].ver, ended |-> FALSE]
           new == [ask[a] EXCEPT !.id = i, !.at = "token"]
<1>1. /\ account' = account /\ link' = link /\ tab' = tab /\ overlapped' = overlapped
      /\ astray' = astray /\ asked' = asked /\ Meets(a)
      /\ ask[a].at = "row" /\ ask[a].kind \in Signs
      /\ sessions' = Append(sessions, row)
  BY DEF Start, Does, Signs
<1>2. /\ SignInTypeOK /\ WellShaped(a) /\ ask[a] \in AskType /\ account.version \in Nat
      /\ sessions \in Seq(Row) /\ Len(sessions) \in Nat /\ i \in Nat /\ row \in Row
  <2>1. SignInTypeOK /\ WellShaped(a) /\ ask[a] \in AskType /\ account.version \in Nat /\ sessions \in Seq(Row)
    BY DEF SignInInv, Shaped, SignInTypeOK, Row
  <2> QED
    BY <2>1, LenProperties DEF AskType, Row
<1>3. /\ sessions' \in Seq(Row) /\ Len(sessions') = i
      /\ \A s \in 1..Len(sessions) : sessions'[s] = sessions[s]
      /\ sessions'[i].ver = ask[a].ver /\ 1..Len(sessions') = 1..Len(sessions) \cup {i}
  <2> HIDE DEF row
  <2>1. /\ sessions' \in Seq(Row) /\ Len(sessions') = Len(sessions) + 1
        /\ \A s \in 1..Len(sessions) : sessions'[s] = sessions[s]
        /\ sessions'[i] = row
    BY <1>1, <1>2, AppendProperties
  <2>2. row.ver = ask[a].ver
    BY DEF row
  <2> QED
    BY <1>2, <2>1, <2>2
<1> HIDE DEF row
<1>4. /\ ask'[a].kind = ask[a].kind /\ ask'[a].from = ask[a].from /\ ask'[a].change = ask[a].change
      /\ ask'[a].token = ask[a].token /\ ask'[a].id = i /\ ask'[a].ver = ask[a].ver
      /\ ask'[a].at = "token"
      /\ ask' \in [Asks -> AskType] /\ \A b \in Asks : b # a => ask'[b] = ask[b]
  <2>1. ask' = [ask EXCEPT ![a] = new]
    BY <1>2 DEF Start, SignInTypeOK
  <2> HIDE DEF i
  <2>2. /\ new \in AskType /\ new.kind = ask[a].kind /\ new.from = ask[a].from /\ new.change = ask[a].change
        /\ new.token = ask[a].token /\ new.id = i /\ new.ver = ask[a].ver /\ new.at = "token"
    BY <1>2 DEF AskType, Stages
  <2> HIDE DEF new
  <2> QED
    BY <1>2, <2>1, <2>2, Becoming DEF Becomes
<1> HIDE DEF new
<1>5. /\ ask[a].token = NoToken /\ ask[a].id = 0 /\ i # 0 /\ i \notin 0..Len(sessions)
      /\ \A t \in Tabs : tab[t].token.sid \in 0..Len(sessions)
      /\ \A b \in Asks : ask[b].token.sid \in 0..Len(sessions)
      /\ \A b \in Asks : Of(b, Secures \cup Signs, Stages) => ask[b].id \in 0..Len(sessions)
  <2>1. ask[a].token = NoToken /\ ask[a].id = 0
    BY <1>1, <1>2 DEF WellShaped, NoToken
  <2>2. /\ \A t \in Tabs : tab[t].token.sid \in 0..Len(sessions)
        /\ \A b \in Asks : ask[b].token.sid \in 0..Len(sessions)
    BY <1>2 DEF SignInTypeOK
  <2>3. \A b \in Asks : Of(b, Secures \cup Signs, Stages) => ask[b].id \in 0..Len(sessions)
    BY <2>2 DEF SignInInv, Shaped, WellShaped, Of, Secures
  <2>4. i # 0 /\ i \notin 0..Len(sessions)
    BY <1>2
  <2> QED
    BY <2>1, <2>2, <2>3, <2>4
<1>6. Shape'
  <2>1. SignInTypeOK'
    <3>1. /\ \A t \in Tabs : tab'[t].token.sid \in 0..Len(sessions')
          /\ \A b \in Asks : ask'[b].token.sid \in 0..Len(sessions')
      <4>1. \A b \in Asks : ask'[b].token = ask[b].token
        BY <1>4
      <4>2. \A n \in 0..Len(sessions) : n \in 0..Len(sessions')
        BY <1>2, <1>3
      <4> QED
        BY <1>1, <1>5, <4>1, <4>2
    <3> QED
      BY <1>1, <1>2, <1>3, <1>4, <3>1 DEF SignInTypeOK, Meets, Row
  <2>2. WellShaped(a)'
    BY <1>1, <1>2, <1>3, <1>4, <1>5 DEF WellShaped, Secures, Signs
  <2>3. \A b \in Asks : b # a => (WellShaped(b) => WellShaped(b)')
    <3>1. \A n \in 0..Len(sessions) : n \in 0..Len(sessions')
      BY <1>2, <1>3
    <3> QED
      BY <1>4, <3>1 DEF WellShaped
  <2>4. TabsShaped'
    BY <1>1 DEF SignInInv, TabsShaped
  <2> QED
    BY <2>1, <2>2, <2>3, <2>4 DEF SignInInv, Shape, Shaped
<1> HIDE DEF i
<1>7. OneTabEach'
  <2>1. \A b \in Asks : b # a => (Of(b, Secures, Stages) <=> Of(b, Secures, Stages)')
                                 /\ (Of(b, Signs, Stages) <=> Of(b, Signs, Stages)')
                                 /\ (Of(b, Secures \cup Signs, Stages) <=> Of(b, Secures \cup Signs, Stages)')
                                 /\ ask'[b].id = ask[b].id /\ ask'[b].from = ask[b].from
    BY <1>4 DEF Of
  <2>2. /\ ~Of(a, Secures, Stages) /\ ~Of(a, Secures, Stages)'
        /\ Of(a, Secures \cup Signs, Stages) /\ Of(a, Secures \cup Signs, Stages)'
    BY <1>1, <1>2, <1>4 DEF Of, Secures, Signs, AskType, Stages
  <2>3. \A t, u \in Tabs : t # u /\ tab'[t].token.sid # 0 => tab'[u].token.sid # tab'[t].token.sid
    BY <1>1 DEF SignInInv, OneTabEach
  <2>4. ASSUME NEW b \in Asks, Of(b, Secures, Stages)', ask'[b].from # Nowhere, ask'[b].id # 0
        PROVE  /\ \A u \in Tabs : u # ask'[b].from => tab'[u].token.sid # ask'[b].id
               /\ \A c \in Asks : Of(c, Secures, Stages)' /\ ask'[c].from # Nowhere /\ ask'[c].id = ask'[b].id
                      => ask'[c].from = ask'[b].from
    BY <1>1, <2>1, <2>2, <2>4 DEF SignInInv, OneTabEach
  <2>5. ASSUME NEW b \in Asks, Of(b, Signs, Stages)', ask'[b].id # 0
        PROVE  /\ \A u \in Tabs : tab'[u].token.sid # ask'[b].id
               /\ \A c \in Asks : c # b /\ Of(c, Secures \cup Signs, Stages)' => ask'[c].id # ask'[b].id
    <3>1. CASE b = a
      BY <1>1, <1>4, <1>5, <2>1, <3>1
    <3>2. CASE b # a
      <4>1. /\ \A u \in Tabs : tab[u].token.sid # ask[b].id
            /\ \A c \in Asks : c # b /\ Of(c, Secures \cup Signs, Stages) => ask[c].id # ask[b].id
        BY <2>1, <2>5, <3>2 DEF SignInInv, OneTabEach
      <4>2. ask'[b].id = ask[b].id /\ ask[b].id # i
        <5>1. Of(b, Secures \cup Signs, Stages)
          BY <1>4, <2>5, <3>2 DEF Of
        <5> QED
          BY <1>4, <1>5, <3>2, <5>1
      <4> QED
        BY <1>1, <1>4, <2>1, <3>2, <4>1, <4>2
    <3> QED
      BY <3>1, <3>2
  <2> QED
    BY <2>3, <2>4, <2>5 DEF OneTabEach
<1>8. Unmet'
  <2> SUFFICES ASSUME a \in Asks \ met
               PROVE  StillTrue(a)'
    BY <1>1, <1>4, OthersAreMet
  <2>1. SignUnmet(a)
    BY <1>1 DEF SignInInv, Unmet, StillTrue, Of, Begun
  <2>2. SignUnmet(a)'
    BY <1>1, <1>3, <1>4, <1>5, <2>1 DEF SignUnmet
  <2> QED
    BY <1>1, <1>4, <2>2 DEF StillTrue, Of, Signs, Secures
<1>9. \A t \in Tabs : tab[t].token # NoToken =>
          tab[t].token.sid \in 1..Len(sessions) /\ sessions'[tab[t].token.sid] = sessions[tab[t].token.sid]
  BY <1>2, <1>3 DEF SignInInv, SignInTypeOK, TabsShaped
<1>10. LastGiven'
  <2>1. \A b \in Asks : Of(b, Secures, {"token", "answer"}) =>
                            Of(b, Secures, {"token", "answer"})' /\ ask'[b].id = ask[b].id
    BY <1>1, <1>4 DEF Of
  <2> QED
    BY <1>1, <1>9, <2>1 DEF SignInInv, LastGiven
<1>11. InOrder => InOrder'
  <2> SUFFICES ASSUME InOrder
               PROVE  InOrder'
    OBVIOUS
  <2>1. NoneAhead'
    <3>1. \A s \in 1..Len(sessions') : sessions'[s].ver <= account.version
      BY <1>3 DEF InOrder, NoneAhead
    <3> QED
      BY <1>1, <1>4, <3>1 DEF InOrder, NoneAhead
  <2>2. OneReissueEach'
    <3>1. \A b \in Asks : /\ Of(b, Secures, Begun)' => b # a
                          /\ Of(b, Secures, {"write"})' => b # a
                          /\ ask'[b].at = "sent" => b # a
      BY <1>1, <1>4 DEF Of, Secures, Signs
    <3>2. \A b \in Asks : b # a => /\ (Of(b, Secures, Begun)' <=> Of(b, Secures, Begun))
                                   /\ (Of(b, Secures, {"write"})' <=> Of(b, Secures, {"write"}))
                                   /\ ask'[b] = ask[b]
      BY <1>4 DEF Of
    <3> QED
      BY <1>1, <3>1, <3>2 DEF InOrder, OneReissueEach
  <2>3. OthersOutdated'
    <3>1. Outdates(a)'
      BY <1>1, <1>4 DEF Outdates, Of, Secures, Signs
    <3> QED
      BY <1>1, <1>4, <3>1, OthersAreMet
  <2>4. TokensFit'
    BY <1>1, <1>9 DEF InOrder, TokensFit
  <2> QED
    BY <2>1, <2>2, <2>3, <2>4 DEF InOrder
<1> QED
  BY <1>1, <1>6, <1>7, <1>8, <1>10, <1>11 DEF SignInInv, Shape

(* sessions.py _token: a token for the session, at the account's version.  *)
LEMMA MakeTokenKeepsInv ==
    ASSUME SignInInv, NEW a \in Asks, MakeToken(a)
    PROVE  SignInInv'
<1> DEFINE token == [sid |-> ask[a].id, ver |-> account.version]
           new == [ask[a] EXCEPT !.token = token, !.at = "answer"]
<1>1. /\ account' = account /\ sessions' = sessions /\ link' = link /\ tab' = tab
      /\ met' = met /\ overlapped' = overlapped /\ astray' = astray /\ asked' = asked
      /\ ask[a].at = "token"
  BY DEF MakeToken, accountVars
<1>2. /\ SignInTypeOK /\ WellShaped(a) /\ ask[a] \in AskType /\ account.version \in Nat /\ Len(sessions) \in Nat
  BY LenProperties DEF SignInInv, Shaped, SignInTypeOK
<1>3. token \in Token /\ token.sid = ask[a].id /\ token.ver = account.version /\ token # NoToken
      /\ ask[a].id \in 1..Len(sessions) /\ ask[a].kind \in Secures \cup Signs
  <2>1. ask[a].kind \in Secures \cup Signs /\ ask[a].id # 0 /\ ask[a].id \in 0..Len(sessions)
    BY <1>1, <1>2 DEF WellShaped, Secures, SignInTypeOK
  <2> QED
    BY <1>2, <2>1 DEF AskType, Token, NoToken
<1>4. /\ ask'[a].kind = ask[a].kind /\ ask'[a].from = ask[a].from /\ ask'[a].change = ask[a].change
      /\ ask'[a].token = token /\ ask'[a].id = ask[a].id /\ ask'[a].ver = ask[a].ver
      /\ ask'[a].at = "answer"
      /\ ask' \in [Asks -> AskType] /\ \A b \in Asks : b # a => ask'[b] = ask[b]
  <2>1. ask' = [ask EXCEPT ![a] = new]
    BY <1>2 DEF MakeToken, SignInTypeOK
  <2> HIDE DEF token
  <2>2. /\ new \in AskType /\ new.kind = ask[a].kind /\ new.from = ask[a].from /\ new.change = ask[a].change
        /\ new.token = token /\ new.id = ask[a].id /\ new.ver = ask[a].ver /\ new.at = "answer"
    BY <1>2, <1>3 DEF AskType, Stages
  <2> HIDE DEF new
  <2> QED
    BY <1>2, <2>1, <2>2, Becoming DEF Becomes
<1>5. token = [sid |-> ask[a].id, ver |-> account.version]
  OBVIOUS
<1> HIDE DEF token, new
<1>6. Shape'
  <2>1. SignInTypeOK'
    <3>1. token.sid \in 0..Len(sessions)
      BY <1>2, <1>3
    <3>2. \A b \in Asks : ask'[b].token.sid \in 0..Len(sessions)
      <4>1. \A b \in Asks : ask[b].token.sid \in 0..Len(sessions)
        BY <1>2 DEF SignInTypeOK
      <4> QED
        BY <1>4, <3>1, <4>1
    <3> QED
      BY <1>1, <1>2, <1>4, <3>2 DEF SignInTypeOK
  <2>2. WellShaped(a)'
    BY <1>1, <1>2, <1>3, <1>4 DEF WellShaped, Secures, Signs
  <2>3. \A b \in Asks : b # a => (WellShaped(b) => WellShaped(b)')
    BY <1>1, <1>4 DEF WellShaped
  <2>4. TabsShaped'
    BY <1>1 DEF SignInInv, TabsShaped
  <2> QED
    BY <2>1, <2>2, <2>3, <2>4 DEF SignInInv, Shape, Shaped
<1>7. OneTabEach'
  BY <1>1, <1>2, <1>4, SameTabs DEF SignInInv, Same
<1>8. Unmet'
  <2>1. a \in Asks \ met => StillTrue(a)'
    <3> SUFFICES ASSUME a \in Asks \ met
                 PROVE  StillTrue(a)'
      OBVIOUS
    <3>1. StillTrue(a)
      BY DEF SignInInv, Unmet
    <3>2. Of(a, Secures, {"write"} \cup Begun)' => SecureUnmet(a)'
      BY <1>1, <1>4, <1>5, <3>1 DEF StillTrue, Of, Begun, SecureUnmet
    <3>3. Of(a, Signs, Begun)' => SignUnmet(a)'
      BY <1>1, <1>4, <1>5, <3>1 DEF StillTrue, Of, Begun, SignUnmet
    <3> QED
      BY <1>4, <3>2, <3>3 DEF StillTrue, Of
  <2>2. \A b \in Asks : b # a => (StillTrue(b) => StillTrue(b)')
    BY <1>1, <1>4 DEF StillTrue, Of, SecureUnmet, SignUnmet, ResetUnmet, ManageUnmet
  <2> QED
    BY <1>1, <2>1, <2>2 DEF SignInInv, Unmet
<1>9. LastGiven'
  <2>1. \A b \in Asks : Of(b, Secures, {"token", "answer"}) =>
                            Of(b, Secures, {"token", "answer"})' /\ ask'[b].id = ask[b].id
    BY <1>1, <1>4 DEF Of
  <2> QED
    BY <1>1, <2>1 DEF SignInInv, LastGiven
<1>10. InOrder => InOrder'
  <2> SUFFICES ASSUME InOrder
               PROVE  InOrder'
    OBVIOUS
  <2>1. NoneAhead'
    BY <1>1, <1>2, <1>3, <1>4 DEF InOrder, NoneAhead
  <2>2. /\ \A b \in Asks : ask'[b].kind = ask[b].kind /\ ask'[b].id = ask[b].id /\ ask'[b].change = ask[b].change
        /\ \A b \in Asks : /\ Of(b, Secures, Begun)' <=> Of(b, Secures, Begun)
                           /\ Of(b, Secures, {"write"})' => b # a /\ Of(b, Secures, {"write"})
                           /\ ask'[b].at = "sent" => b # a
    BY <1>1, <1>4 DEF Of, Begun, Same
  <2>3. OneReissueEach'
    BY <1>1, <1>4, <2>2 DEF InOrder, OneReissueEach
  <2>4. OthersOutdated'
    <3>1. Outdates(a) => Outdates(a)'
      BY <1>1, <1>3, <1>4, <2>2 DEF Outdates, Of, Secures, Signs
    <3>2. \A b \in Asks : b # a => (Outdates(b) => Outdates(b)')
      BY <1>1, <1>4 DEF Outdates, Of
    <3> QED
      BY <1>1, <3>1, <3>2 DEF InOrder, OthersOutdated
  <2>5. TokensFit'
    BY <1>1 DEF InOrder, TokensFit
  <2> QED
    BY <2>1, <2>3, <2>4, <2>5 DEF InOrder
<1> QED
  BY <1>1, <1>6, <1>7, <1>8, <1>9, <1>10 DEF SignInInv, Shape

-----------------------------------------------------------------------------
(* Answers. *)

(* A tab is given the token it asked for: no other tab has one for that    *)
(* session, and when nobody committed meanwhile it is the session's last.  *)
LEMMA GivenKeepsInv ==
    ASSUME SignInInv, NEW a \in Asks, NEW t \in Tabs, ask[a].from = t, t # Nowhere,
           ask[a].at = "answer", ask[a].kind \in Secures \cup Signs, ask[a].token # NoToken, Finish(a),
           UNCHANGED <<accountVars, overlapped, asked>>,
           tab' \in [Tabs -> [page : Pages, token : Token, pending : Nat]],
           tab'[t].token = ask[a].token, tab'[t].pending \in {0, tab[t].pending},
           \A u \in Tabs : u # t => tab'[u] = tab[u],
           astray' = IF a \in met THEN astray \cup {ask[a].id} ELSE astray \ {ask[a].id}
    PROVE  SignInInv'
<1>1. /\ account' = account /\ sessions' = sessions /\ link' = link
      /\ overlapped' = overlapped /\ asked' = asked /\ met' = met \ {a}
      /\ SignInTypeOK /\ WellShaped(a) /\ ask[a] \in AskType /\ account.version \in Nat /\ Len(sessions) \in Nat
  BY LenProperties DEF SignInInv, Shaped, SignInTypeOK, accountVars, Finish
<1>2. /\ ask' \in [Asks -> AskType] /\ ask'[a] = Unasked /\ \A b \in Asks : b # a => ask'[b] = ask[b]
      /\ \A b \in Asks : Of(b, Secures \cup Signs, Stages)' => b # a
      /\ Unasked.kind = "use" /\ Unasked.at = "free" /\ Unasked.token = NoToken /\ Unasked.ver = 0
      /\ NoToken.sid = 0 /\ NoToken.ver = 0
  <2>1. /\ Unasked.kind = "use" /\ Unasked.at = "free" /\ Unasked.token = NoToken /\ Unasked.ver = 0
        /\ NoToken.sid = 0 /\ NoToken.ver = 0
    BY DEF Unasked, NoToken
  <2>2. ask' \in [Asks -> AskType] /\ ask'[a] = Unasked /\ \A b \in Asks : b # a => ask'[b] = ask[b]
    BY <1>1, Turning DEF Becomes
  <2> QED
    BY <2>1, <2>2 DEF Of, Secures, Signs
<1>3. /\ ask[a].token.sid = ask[a].id /\ ask[a].id # 0 /\ ask[a].id \in 1..Len(sessions)
      /\ ask[a].id \in Nat /\ ask[a].token.ver \in Nat
  <2>1. ask[a].token.sid = ask[a].id /\ ask[a].token.sid # 0
    BY <1>1 DEF WellShaped, Secures
  <2>2. ask[a].token.sid \in 0..Len(sessions) /\ ask[a].id \in Nat /\ ask[a].token.ver \in Nat
    BY <1>1 DEF SignInTypeOK, AskType, Token
  <2> QED
    BY <1>1, <2>1, <2>2
<1>4. /\ Of(a, Secures \cup Signs, Stages) /\ (Of(a, Secures, Stages) \/ Of(a, Signs, Stages))
      /\ Of(a, Secures, Stages) => Of(a, Secures, Begun)
  BY <1>1 DEF Of, AskType, Begun
<1>5. \A u \in Tabs : u # t => tab[u].token.sid # ask[a].id
  BY <1>3, <1>4 DEF SignInInv, OneTabEach
<1>6. a \notin met =>
          /\ account.active /\ sessions[ask[a].id].ver = account.version
          /\ ask[a].token.ver = account.version
  <2> SUFFICES ASSUME a \notin met
               PROVE  /\ account.active /\ sessions[ask[a].id].ver = account.version
                      /\ ask[a].token.ver = account.version
    OBVIOUS
  <2>1. StillTrue(a)
    BY DEF SignInInv, Unmet
  <2>2. CASE ask[a].kind \in Secures
    BY <2>1, <2>2 DEF StillTrue, Of, Begun, SecureUnmet
  <2>3. CASE ask[a].kind \in Signs
    BY <2>1, <2>3 DEF StillTrue, Of, Begun, SignUnmet
  <2> QED
    BY <2>2, <2>3
<1>7. /\ \A s : s # ask[a].id => (s \in astray' <=> s \in astray)
      /\ ask[a].id \notin astray' => a \notin met
  OBVIOUS
<1>8. Shape'
  <2>1. SignInTypeOK'
    <3>1. /\ \A u \in Tabs : tab'[u].token.sid \in 0..Len(sessions)
          /\ \A b \in Asks : ask'[b].token.sid \in 0..Len(sessions)
      <4>1. /\ ask[a].id \in 0..Len(sessions) /\ 0 \in 0..Len(sessions)
        BY <1>1, <1>3
      <4>2. /\ \A u \in Tabs : tab[u].token.sid \in 0..Len(sessions)
            /\ \A b \in Asks : ask[b].token.sid \in 0..Len(sessions)
        BY <1>1 DEF SignInTypeOK
      <4> QED
        BY <1>2, <1>3, <4>1, <4>2
    <3>2. astray' \subseteq Nat /\ met' \subseteq Asks
      BY <1>1, <1>3 DEF SignInTypeOK
    <3> QED
      BY <1>1, <1>2, <3>1, <3>2 DEF SignInTypeOK
  <2>2. WellShaped(a)'
    BY <1>2 DEF WellShaped, Secures, Signs
  <2>3. \A b \in Asks : b # a => (WellShaped(b) => WellShaped(b)')
    BY <1>1, <1>2 DEF WellShaped
  <2>4. TabsShaped'
    BY <1>3 DEF SignInInv, TabsShaped
  <2> QED
    BY <2>1, <2>2, <2>3, <2>4 DEF SignInInv, Shape, Shaped
<1>9. OneTabEach'
  <2>1. \A b \in Asks : /\ Of(b, Secures, Stages)' => b # a /\ Of(b, Secures, Stages)
                        /\ Of(b, Signs, Stages)' => b # a /\ Of(b, Signs, Stages)
                        /\ Of(b, Secures \cup Signs, Stages)' => b # a /\ Of(b, Secures \cup Signs, Stages)
    BY <1>2 DEF Of
  <2>2. \A v, u \in Tabs : v # u /\ tab'[v].token.sid # 0 => tab'[u].token.sid # tab'[v].token.sid
    BY <1>3, <1>5 DEF SignInInv, OneTabEach
  <2>3. ASSUME NEW b \in Asks, Of(b, Secures, Stages)', ask'[b].from # Nowhere, ask'[b].id # 0
        PROVE  /\ \A u \in Tabs : u # ask'[b].from => tab'[u].token.sid # ask'[b].id
               /\ \A c \in Asks : Of(c, Secures, Stages)' /\ ask'[c].from # Nowhere /\ ask'[c].id = ask'[b].id
                      => ask'[c].from = ask'[b].from
    <3>1. /\ b # a /\ Of(b, Secures, Stages) /\ Of(b, Secures \cup Signs, Stages) /\ ask'[b] = ask[b]
      BY <1>2, <2>1, <2>3 DEF Of
    <3>2. ask[b].id = ask[a].id => ask[b].from = t
      BY <1>3, <1>4, <2>3, <3>1 DEF SignInInv, OneTabEach
    <3>3. /\ \A u \in Tabs : u # ask[b].from => tab[u].token.sid # ask[b].id
          /\ \A c \in Asks : Of(c, Secures, Stages) /\ ask[c].from # Nowhere /\ ask[c].id = ask[b].id
                 => ask[c].from = ask[b].from
      BY <2>3, <3>1 DEF SignInInv, OneTabEach
    <3> QED
      BY <1>2, <1>3, <2>1, <3>1, <3>2, <3>3
  <2>4. ASSUME NEW b \in Asks, Of(b, Signs, Stages)', ask'[b].id # 0
        PROVE  /\ \A u \in Tabs : tab'[u].token.sid # ask'[b].id
               /\ \A c \in Asks : c # b /\ Of(c, Secures \cup Signs, Stages)' => ask'[c].id # ask'[b].id
    <3>1. b # a /\ Of(b, Signs, Stages) /\ ask'[b] = ask[b]
      BY <1>2, <2>1, <2>4
    <3>2. /\ \A u \in Tabs : tab[u].token.sid # ask[b].id
          /\ \A c \in Asks : c # b /\ Of(c, Secures \cup Signs, Stages) => ask[c].id # ask[b].id
      BY <2>4, <3>1 DEF SignInInv, OneTabEach
    <3>3. ask[a].id # ask[b].id
      BY <1>4, <3>1, <3>2
    <3>4. \A u \in Tabs : tab'[u].token.sid # ask'[b].id
      BY <1>3, <3>1, <3>2, <3>3
    <3>5. ASSUME NEW c \in Asks, c # b, Of(c, Secures \cup Signs, Stages)'
          PROVE  ask'[c].id # ask'[b].id
      <4>1. ask'[c] = ask[c] /\ Of(c, Secures \cup Signs, Stages)
        BY <1>2, <2>1, <3>5
      <4> QED
        BY <3>1, <3>2, <3>5, <4>1
    <3> QED
      BY <3>4, <3>5
  <2> QED
    BY <2>2, <2>3, <2>4 DEF OneTabEach
<1>10. Unmet'
  <2>1. StillTrue(a)'
    BY <1>2 DEF StillTrue, Of, Secures, Signs
  <2>2. \A b \in Asks : b # a => (StillTrue(b) => StillTrue(b)')
    BY <1>1, <1>2 DEF StillTrue, Of, SecureUnmet, SignUnmet, ResetUnmet, ManageUnmet
  <2> QED
    BY <1>1, <2>1, <2>2 DEF SignInInv, Unmet
<1>11. LastGiven'
  <2> SUFFICES ASSUME NEW u \in Tabs, tab'[u].token # NoToken, tab'[u].token.sid \notin astray',
                      \A b \in Asks : Of(b, Secures, {"token", "answer"})' => ask'[b].id # tab'[u].token.sid
               PROVE  tab'[u].token.ver = sessions[tab'[u].token.sid].ver
    BY <1>1 DEF LastGiven
  <2>1. CASE u = t
    BY <1>3, <1>6, <1>7, <2>1
  <2>2. CASE u # t
    <3>1. tab'[u] = tab[u] /\ tab[u].token.sid # ask[a].id
      BY <1>5, <2>2
    <3>2. \A b \in Asks : Of(b, Secures, {"token", "answer"}) => ask[b].id # tab[u].token.sid
      BY <1>2, <3>1 DEF Of
    <3> QED
      BY <1>7, <3>1, <3>2 DEF SignInInv, LastGiven
  <2> QED
    BY <2>1, <2>2
<1>12. InOrder => InOrder'
  <2> SUFFICES ASSUME InOrder
               PROVE  InOrder'
    OBVIOUS
  <2>1. NoneAhead'
    <3>1. tab'[t].token.ver <= account.version /\ tab'[t].pending <= account.version
      BY <1>1 DEF InOrder, NoneAhead
    <3>2. \A u \in Tabs : tab'[u].token.ver <= account.version /\ tab'[u].pending <= account.version
      BY <3>1 DEF InOrder, NoneAhead
    <3>3. \A b \in Asks : ask'[b].token.ver <= account.version /\ ask'[b].ver <= account.version
      BY <1>1, <1>2 DEF InOrder, NoneAhead
    <3> QED
      BY <1>1, <3>2, <3>3 DEF InOrder, NoneAhead
  <2>2. OneReissueEach'
    <3> SUFFICES ASSUME NEW c \in Asks, Of(c, Secures, Begun)'
                 PROVE  /\ \A u \in Tabs : tab'[u].token.sid = ask'[c].id => tab'[u].token.ver < account.version
                        /\ \A b \in Asks \ {c} :
                               /\ ask'[b].at = "sent" /\ ask'[b].token.sid = ask'[c].id => ask'[b].token.ver < account.version
                               /\ Of(b, Secures, {"write"})' /\ ask'[b].id = ask'[c].id => ask'[b].ver < account.version
                               /\ Of(b, Secures, Begun)' => ask'[b].id # ask'[c].id
      BY <1>1 DEF OneReissueEach
    <3>1. c # a /\ ask'[c] = ask[c] /\ Of(c, Secures, Begun) /\ Of(c, Secures \cup Signs, Stages)
      BY <1>2 DEF Of, Secures, Begun, Stages
    <3>2. /\ \A u \in Tabs : tab[u].token.sid = ask[c].id => tab[u].token.ver < account.version
          /\ \A b \in Asks \ {c} :
                 /\ ask[b].at = "sent" /\ ask[b].token.sid = ask[c].id => ask[b].token.ver < account.version
                 /\ Of(b, Secures, {"write"}) /\ ask[b].id = ask[c].id => ask[b].ver < account.version
                 /\ Of(b, Secures, Begun) => ask[b].id # ask[c].id
      BY <3>1 DEF InOrder, OneReissueEach
    <3>3. ask[c].id # ask[a].id
      BY <1>3, <1>4, <3>1, <3>2 DEF SignInInv, OneTabEach
    <3>4. \A b \in Asks : /\ ask'[b].at = "sent" => b # a
                          /\ Of(b, Secures, {"write"})' => b # a /\ Of(b, Secures, {"write"})
                          /\ Of(b, Secures, Begun)' => b # a /\ Of(b, Secures, Begun)
      BY <1>2 DEF Of, Secures
    <3> QED
      BY <1>2, <1>3, <3>1, <3>2, <3>3, <3>4
  <2>3. OthersOutdated'
    <3>1. Outdates(a)'
      BY <1>2 DEF Outdates, Of, Secures
    <3>2. \A b \in Asks : b # a => (Outdates(b) => Outdates(b)')
      BY <1>1, <1>2 DEF Outdates, Of
    <3> QED
      BY <1>1, <3>1, <3>2 DEF InOrder, OthersOutdated
  <2>4. TokensFit'
    <3> SUFFICES ASSUME NEW u \in Tabs, tab'[u].token # NoToken, tab'[u].token.sid \notin astray',
                        tab'[u].token.ver = account.version
                 PROVE  account.active /\ sessions[tab'[u].token.sid].ver = account.version
      BY <1>1 DEF TokensFit
    <3>1. CASE u = t
      BY <1>3, <1>6, <1>7, <3>1
    <3>2. CASE u # t
      BY <1>5, <1>7, <3>2 DEF InOrder, TokensFit
    <3> QED
      BY <3>1, <3>2
  <2> QED
    BY <2>1, <2>2, <2>3, <2>4 DEF InOrder
<1> QED
  BY <1>1, <1>8, <1>9, <1>10, <1>11, <1>12 DEF SignInInv, Shape

(* AuthContext.tsx, LoginPage.tsx setSession: a reissued token, or a first *)
(* one.                                                                    *)
LEMMA AnswersKeepInv ==
    ASSUME SignInInv, NEW a \in Asks, Adopt(a) \/ SignedIn(a)
    PROVE  SignInInv'
<1> DEFINE t == ask[a].from
<1>1. /\ SignInTypeOK /\ WellShaped(a) /\ ask[a] \in AskType /\ tab \in [Tabs -> [page : Pages, token : Token, pending : Nat]]
  BY DEF SignInInv, Shaped, SignInTypeOK
<1>2. CASE Adopt(a)
  <2>1. /\ t \in Tabs /\ t # Nowhere /\ ask[a].at = "answer" /\ ask[a].kind \in Secures
        /\ tab' = [tab EXCEPT ![t].token = ask[a].token] /\ Finish(a)
        /\ UNCHANGED <<accountVars, overlapped, asked>>
        /\ astray' = IF a \in met THEN astray \cup {ask[a].id} ELSE astray \ {ask[a].id}
    BY <1>1, <1>2 DEF Adopt, AdoptAs, Does, Secures, AskType
  <2>2. ask[a].token # NoToken
    BY <1>1, <2>1 DEF WellShaped, Secures, NoToken
  <2> HIDE DEF t
  <2>3. /\ tab' \in [Tabs -> [page : Pages, token : Token, pending : Nat]]
        /\ tab'[t].token = ask[a].token /\ tab'[t].pending = tab[t].pending
        /\ \A u \in Tabs : u # t => tab'[u] = tab[u]
    BY <1>1, <2>1 DEF AskType
  <2> QED
    BY <2>1, <2>2, <2>3, GivenKeepsInv DEF t
<1>3. CASE SignedIn(a)
  <2>1. /\ t \in Tabs /\ t # Nowhere /\ ask[a].at = "answer" /\ ask[a].kind \in Signs /\ ask[a].token # NoToken
        /\ tab' = [tab EXCEPT ![t].page = "app", ![t].token = ask[a].token, ![t].pending = 0] /\ Finish(a)
        /\ UNCHANGED <<accountVars, overlapped, asked>>
        /\ astray' = IF a \in met THEN astray \cup {ask[a].id} ELSE astray \ {ask[a].id}
    BY <1>1, <1>3 DEF SignedIn, Does, Signs, AskType
  <2> HIDE DEF t
  <2>3. /\ tab' \in [Tabs -> [page : Pages, token : Token, pending : Nat]]
        /\ tab'[t].token = ask[a].token /\ tab'[t].pending = 0
        /\ \A u \in Tabs : u # t => tab'[u] = tab[u]
    BY <1>1, <2>1 DEF AskType, Pages
  <2> QED
    BY <2>1, <2>3, GivenKeepsInv DEF t
<1> QED
  BY <1>2, <1>3

-----------------------------------------------------------------------------
(* The invariant. *)

(* At first every tab is signed in to a session of its own.                *)
LEMMA InvAtFirst == SignInInit => SignInInv
<1> SUFFICES ASSUME SignInInit
             PROVE  SignInInv
  OBVIOUS
<1>1. /\ TabCount \in Nat /\ account.version = 0 /\ account.active = TRUE
      /\ account \in [version : Nat, active : BOOLEAN, twofactor : BOOLEAN]
      /\ link = [n |-> 0, there |-> FALSE, ver |-> 0, outrun |-> FALSE]
      /\ met = {} /\ overlapped = FALSE /\ astray = {} /\ asked = 0
  BY SignInAssumption DEF SignInInit
<1>2. /\ sessions \in Seq(Row) /\ Len(sessions) = TabCount
      /\ \A s \in 1..Len(sessions) : sessions[s].ver = 0 /\ ~sessions[s].ended
  <2>1. sessions \in [1..TabCount -> Row] /\ \A s \in 1..TabCount : sessions[s].ver = 0 /\ ~sessions[s].ended
    BY DEF SignInInit, Tabs, Row
  <2> QED
    BY <1>1, <2>1, SeqDef, LenProperties
<1>3. /\ tab \in [Tabs -> [page : Pages, token : Token, pending : Nat]]
      /\ \A t \in Tabs : tab[t].token.sid = t /\ tab[t].token.ver = 0 /\ tab[t].pending = 0
      /\ \A t \in Tabs : t \in 1..Len(sessions) /\ t # 0 /\ tab[t].token # NoToken
  <2>1. \A t \in Tabs : t \in Nat /\ t # 0 /\ t \in 1..Len(sessions)
    BY <1>1, <1>2 DEF Tabs
  <2> QED
    BY <2>1 DEF SignInInit, Pages, Token, NoToken
<1>4. /\ ask \in [Asks -> AskType] /\ \A a \in Asks : ask[a] = Unasked
      /\ Unasked.kind = "use" /\ Unasked.at = "free" /\ Unasked.token = NoToken /\ Unasked.ver = 0
      /\ NoToken.sid = 0 /\ NoToken.ver = 0
  <2>1. Unasked \in AskType
    BY DEF Unasked, AskType, Stages, Kinds, Changes, Token, NoToken, Nowhere
  <2> QED
    BY <2>1 DEF SignInInit, Unasked, NoToken
<1>5. \A a \in Asks : ~Of(a, Secures, Stages) /\ ~Of(a, Signs, Stages) /\ ~Of(a, Secures, Begun)
  BY <1>4 DEF Of, Secures, Signs
<1>6. SignInTypeOK
  <2>1. /\ \A t \in Tabs : tab[t].token.sid \in 0..Len(sessions)
        /\ \A a \in Asks : ask[a].token.sid \in 0..Len(sessions)
    BY <1>1, <1>2, <1>3, <1>4
  <2> QED
    BY <1>1, <1>2, <1>3, <1>4, <2>1 DEF SignInTypeOK, Row
<1>7. Shaped /\ TabsShaped
  BY <1>3, <1>4 DEF Shaped, WellShaped, TabsShaped, Secures, Signs
<1>8. OneTabEach
  BY <1>3, <1>5 DEF OneTabEach
<1>9. Unmet /\ OthersOutdated
  BY <1>4 DEF Unmet, StillTrue, OthersOutdated, Outdates, Of, Secures, Signs
<1>10. LastGiven
  BY <1>2, <1>3 DEF LastGiven
<1>11. NoneAhead
  BY <1>1, <1>2, <1>3, <1>4 DEF NoneAhead
<1>12. OneReissueEach
  BY <1>5 DEF OneReissueEach
<1>13. TokensFit
  BY <1>1, <1>2, <1>3 DEF TokensFit
<1> QED
  BY <1>6, <1>7, <1>8, <1>9, <1>10, <1>11, <1>12, <1>13 DEF SignInInv, InOrder

(* Nothing happens, or one of the actions.                                 *)
Other == \E a \in Asks :
    \/ Look(a) \/ ReadVersion(a) \/ Reissue(a) \/ Start(a) \/ MakeToken(a) \/ Adopt(a) \/ SignedIn(a)
    \/ CommitSecured(a) \/ CommitReset(a) \/ CommitLink(a) \/ CommitManaged(a) \/ CommitEnded(a)

LEMMA QuietOrOther ==
    ASSUME Shape, [SignInNext]_signInVars
    PROVE  Quiet \/ Other
<1>1. CASE UNCHANGED signInVars
  BY <1>1 DEF signInVars, accountVars, Quiet, Quieter, Reissued, Of, Shape, SignInTypeOK, TabsShaped
<1>2. ASSUME NEW t \in Tabs, SignInTabStep(t)
      PROVE  Quiet
  BY <1>2, TabAsksQuietly, TabRestsQuietly DEF SignInTabStep
<1>3. ASSUME NEW a \in Asks, ElsewhereStep(a) \/ AccountStep(a) \/ AnswerStep(a)
      PROVE  Quiet \/ Other
  BY <1>3, ElsewhereAsksQuietly, EndsQuietly DEF AccountStep, AnswerStep, Other
<1> QED
  BY <1>1, <1>2, <1>3 DEF SignInNext

LEMMA InvKept == SignInInv /\ [SignInNext]_signInVars => SignInInv'
<1> SUFFICES ASSUME SignInInv, [SignInNext]_signInVars
             PROVE  SignInInv'
  OBVIOUS
<1>1. Quiet \/ Other
  BY QuietOrOther DEF SignInInv, Shape
<1>2. ASSUME Other
      PROVE  SignInInv'
  BY <1>2, LookKeepsInv, ReadVersionKeepsInv, ReissueKeepsInv, StartKeepsInv, MakeTokenKeepsInv,
     AnswersKeepInv, CommitsKeepInv DEF Other
<1> QED
  BY <1>1, <1>2, QuietKeepsInv

(* What no step undoes: the end of a session, and, as long as the version  *)
(* is raised from the account's own, the version.                          *)
LEMMA NothingGoesBack ==
    ASSUME SignInInv, [SignInNext]_signInVars
    PROVE  /\ \A s \in 1..Len(sessions) : sessions[s].ended => sessions'[s].ended
           /\ overlapped => overlapped'
           /\ ~overlapped' => account.version <= account'.version
<1>1. Quiet \/ Other
  BY QuietOrOther DEF SignInInv, Shape
<1>2. account.version \in Nat /\ sessions \in Seq(Row)
  BY DEF SignInInv, SignInTypeOK, Row
<1>3. CASE UNCHANGED <<accountVars, overlapped>>
  BY <1>2, <1>3 DEF accountVars
<1>4. CASE Quiet
  BY <1>3, <1>4 DEF Quiet
<1>5. ASSUME NEW a \in Asks, Look(a) \/ ReadVersion(a) \/ MakeToken(a) \/ Adopt(a) \/ SignedIn(a)
      PROVE  UNCHANGED <<accountVars, overlapped>>
  BY <1>5 DEF Look, ReadVersion, MakeToken, Adopt, AdoptAs, SignedIn
<1>6. ASSUME NEW a \in Asks, CommitSecured(a) \/ CommitReset(a) \/ CommitLink(a) \/ CommitManaged(a)
      PROVE  /\ sessions' = sessions
             /\ overlapped => overlapped'
             /\ ~overlapped' => account.version <= account'.version
  <2>1. ask[a].ver \in Nat
    BY DEF SignInInv, SignInTypeOK, AskType
  <2>2. ASSUME NEW active, NEW twofactor, MovesOn(a, active, twofactor)
        PROVE  /\ overlapped => overlapped'
               /\ ~overlapped' => account.version <= account'.version
    <3>1. overlapped' = (overlapped \/ account.version # ask[a].ver) /\ account'.version = ask[a].ver + 1
      BY <2>2 DEF MovesOn
    <3>2. overlapped => overlapped'
      BY <3>1, Zenon
    <3>3. ~overlapped' => account.version = ask[a].ver
      BY <3>1, Zenon
    <3> QED
      BY <1>2, <2>1, <3>1, <3>2, <3>3
  <2>3. CASE CommitSecured(a)
    BY <2>2, <2>3 DEF CommitSecured
  <2>4. CASE CommitReset(a)
    BY <1>2, <2>2, <2>4 DEF CommitReset
  <2>5. CASE CommitLink(a)
    BY <1>2, <2>5 DEF CommitLink
  <2>6. CASE CommitManaged(a)
    <3>1. CASE EndsAll(ask[a].change, ask[a].right)
      BY <2>2, <2>6, <3>1 DEF CommitManaged
    <3>2. CASE ~EndsAll(ask[a].change, ask[a].right)
      <4>1. overlapped' = overlapped /\ sessions' = sessions
            /\ \E active : account' = [account EXCEPT !.active = active]
        BY <2>6, <3>2 DEF CommitManaged
      <4>2. account \in [version : Nat, active : BOOLEAN, twofactor : BOOLEAN]
        BY DEF SignInInv, SignInTypeOK
      <4> QED
        BY <1>2, <4>1, <4>2
    <3> QED
      BY <3>1, <3>2
  <2> QED
    BY <1>6, <2>3, <2>4, <2>5, <2>6
<1>7. ASSUME NEW a \in Asks, CommitEnded(a) \/ Reissue(a) \/ Start(a)
      PROVE  /\ account' = account /\ overlapped' = overlapped
             /\ \A s \in 1..Len(sessions) : sessions[s].ended => sessions'[s].ended
  <2>1. CASE CommitEnded(a)
    <3> DEFINE new == [sessions EXCEPT ![ask[a].id].ended = TRUE]
    <3>1. sessions' = new /\ account' = account /\ overlapped' = overlapped
      BY <2>1 DEF CommitEnded
    <3>2. \A s \in 1..Len(sessions) : sessions[s].ended => new[s].ended
      BY <1>2, EndingOne
    <3> HIDE DEF new
    <3> QED
      BY <3>1, <3>2
  <2>2. CASE Reissue(a)
    <3> DEFINE row(s) == IF s = ask[a].id THEN [sessions[s] EXCEPT !.ver = ask[a].ver] ELSE sessions[s]
    <3>1. \A s \in 1..Len(sessions) : sessions[s] \in Row
      BY <1>2, ElementOfSeq
    <3>2. \A s \in 1..Len(sessions) : row(s).ended = sessions[s].ended
      BY <3>1 DEF Row
    <3>3. \A s \in 1..Len(sessions) : sessions'[s] = row(s)
      BY <1>2, <2>2, LenProperties DEF Reissue, Brought
    <3> HIDE DEF row
    <3>4. account' = account /\ overlapped' = overlapped
      BY <2>2 DEF Reissue
    <3> QED
      BY <3>2, <3>3, <3>4
  <2>3. CASE Start(a)
    <3>1. [ver |-> ask[a].ver, ended |-> FALSE] \in Row
      BY DEF SignInInv, SignInTypeOK, AskType, Row
    <3> QED
      BY <1>2, <2>3, <3>1, AppendProperties DEF Start
  <2> QED
    BY <1>7, <2>1, <2>2, <2>3
<1>8. CASE Other
  <2>1. PICK a \in Asks :
            \/ Look(a) \/ ReadVersion(a) \/ Reissue(a) \/ Start(a) \/ MakeToken(a) \/ Adopt(a) \/ SignedIn(a)
            \/ CommitSecured(a) \/ CommitReset(a) \/ CommitLink(a) \/ CommitManaged(a) \/ CommitEnded(a)
    BY <1>8 DEF Other
  <2>2. CASE Look(a) \/ ReadVersion(a) \/ MakeToken(a) \/ Adopt(a) \/ SignedIn(a)
    BY <1>3, <1>5, <2>2
  <2>3. CASE CommitSecured(a) \/ CommitReset(a) \/ CommitLink(a) \/ CommitManaged(a)
    BY <1>6, <2>3
  <2>4. CASE CommitEnded(a) \/ Reissue(a) \/ Start(a)
    BY <1>2, <1>7, <2>4
  <2> QED
    BY <2>1, <2>2, <2>3, <2>4
<1> QED
  BY <1>1, <1>4, <1>8

-----------------------------------------------------------------------------
(* What follows from it. *)

(* The strengthening holds in every state. (identity.py, sessions.py,      *)
(* AuthContext.tsx)                                                        *)
THEOREM SignInInvariant == SignInSpec => []SignInInv
BY InvAtFirst, InvKept, PTL DEF SignInSpec

(* Type correctness: a token names a session there is. (sessions.py)       *)
THEOREM SignInTypeCorrect == SignInSpec => []SignInTypeOK
<1>1. SignInInv => SignInTypeOK
  BY DEF SignInInv
<1> QED
  BY <1>1, SignInInvariant, PTL

(* A request to end every session but its own, that nobody crossed, comes  *)
(* back with a token that works and leaves no other session live.          *)
(* (identity.py, sessions.py, password_reset.py, admin.py)                 *)
THEOREM SecuringWorksAlways == SignInSpec => []SecuringWorks
<1>1. SignInInv => SecuringWorks
  <2> SUFFICES ASSUME SignInInv, NEW a \in Asks \ met, ask[a].at = "answer", EndsSessions(a)
               PROVE  /\ ask[a].kind = "secure" => Accepted(ask[a].token)
                      /\ overlapped \/ \A s \in 1..Len(sessions) :
                             Live(s) /\ account.active => ask[a].kind = "secure" /\ s = ask[a].id
    BY DEF SecuringWorks, SignInInv
  <2>1. ask[a].kind = "secure" => Accepted(ask[a].token)
    <3> SUFFICES ASSUME ask[a].kind = "secure"
                 PROVE  Accepted(ask[a].token)
      OBVIOUS
    <3>1. WellShaped(a) /\ StillTrue(a)
      BY DEF SignInInv, Shaped, Unmet
    <3>2. SecureUnmet(a) /\ ask[a].id # 0
      BY <3>1 DEF StillTrue, WellShaped, Of, Secures, Begun
    <3> QED
      BY <3>2 DEF SecureUnmet, Accepted, Live, NoToken
  <2>2. ASSUME ~overlapped, NEW s \in 1..Len(sessions), Live(s), account.active
        PROVE  ask[a].kind = "secure" /\ s = ask[a].id
    <3>1. Outdates(a) /\ sessions[s].ver = account.version /\ ~(account.version < account.version)
      BY <2>2 DEF SignInInv, SignInTypeOK, InOrder, OthersOutdated, Live
    <3> QED
      BY <2>2, <3>1 DEF Outdates, EndsSessions, Of, Secures, Begun
  <2> QED
    BY <2>1, <2>2
<1> QED
  BY <1>1, SignInInvariant, PTL

(* A link about to work is the last that was sent, and the sessions were   *)
(* not ended since: an old mail undoes nothing. (password_reset.py)        *)
THEOREM LinkIsTheLatestWordAlways == SignInSpec => []LinkIsTheLatestWord
<1>1. SignInInv => LinkIsTheLatestWord
  BY DEF SignInInv, InOrder, NoneAhead, Unmet, StillTrue, Of, ResetUnmet, Does, LinkIsTheLatestWord
<1> QED
  BY <1>1, SignInInvariant, PTL

(* A tab in the app has a token, the last its session was given.           *)
(* (AuthContext.tsx, sessions.py)                                          *)
THEOREM TabKeepsUpAlways == SignInSpec => []TabKeepsUp
<1>1. SignInInv => TabKeepsUp
  BY DEF SignInInv, TabsShaped, LastGiven, Of, Secures, TabKeepsUp
<1> QED
  BY <1>1, SignInInvariant, PTL

(* What is over stays over: no ended session comes back, and no token that *)
(* was turned away is accepted again. (sessions.py, identity.py, admin.py) *)
THEOREM OverForGoodAlways == SignInSpec => OverForGood
<1> DEFINE Over ==
        /\ \A s \in 1..Len(sessions) : sessions[s].ended => sessions'[s].ended
        /\ \A t \in Tabs :
               /\ tab[t].token # NoToken /\ ~Accepted(tab[t].token)
               /\ tab'[t].token = tab[t].token /\ tab[t].token.sid \notin astray /\ ~overlapped'
               => ~Accepted(tab[t].token)'
<1>1. SignInInv /\ [SignInNext]_signInVars => Over
  <2> SUFFICES ASSUME SignInInv, [SignInNext]_signInVars
               PROVE  Over
    OBVIOUS
  <2>1. /\ \A s \in 1..Len(sessions) : sessions[s].ended => sessions'[s].ended
        /\ ~overlapped' => ~overlapped /\ account.version <= account'.version
    BY NothingGoesBack
  <2>2. SUFFICES ASSUME NEW t \in Tabs, tab[t].token # NoToken, tab'[t].token = tab[t].token,
                        tab[t].token.sid \notin astray, ~overlapped', Accepted(tab[t].token)'
                 PROVE  Accepted(tab[t].token)
    BY <2>1
  <2>3. InOrder /\ account.version \in Nat /\ account'.version \in Nat
        /\ tab[t].token.ver \in Nat /\ tab[t].token.sid \in 1..Len(sessions)
    <3>1. InOrder /\ SignInTypeOK /\ SignInTypeOK' /\ TabsShaped
      BY <2>1, <2>2, InvKept DEF SignInInv
    <3> QED
      BY <2>2, <3>1 DEF SignInTypeOK, TabsShaped, Token
  <2>4. /\ account'.active /\ tab[t].token.ver = account'.version
        /\ ~sessions'[tab[t].token.sid].ended
    BY <2>2 DEF Accepted, Live
  <2>5. tab[t].token.ver = account.version
    <3>1. tab[t].token.ver <= account.version
      BY <2>3 DEF InOrder, NoneAhead
    <3> QED
      BY <2>1, <2>2, <2>3, <2>4, <3>1
  <2>6. account.active /\ sessions[tab[t].token.sid].ver = account.version
    BY <2>2, <2>3, <2>5 DEF InOrder, TokensFit
  <2> QED
    BY <2>1, <2>2, <2>3, <2>4, <2>5, <2>6 DEF Accepted, Live
<1>2. SignInSpec => [][Over]_signInVars
  BY <1>1, SignInInvariant, PTL DEF SignInSpec
<1> QED
  BY <1>2 DEF OverForGood

===============================================================================
