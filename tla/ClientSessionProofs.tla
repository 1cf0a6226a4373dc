------------------------- MODULE ClientSessionProofs -------------------------
(***************************************************************************)
(* For any users, calls and bounds: the variables of ClientSession keep    *)
(* their types, the tab shows the user its requests are made as, an answer *)
(* never replaces the profile shown by an older one, and a student has a   *)
(* track, each with the exceptions its property names.                     *)
(***************************************************************************)
EXTENDS ClientSession, FiniteSetTheorems, TLAPS

-----------------------------------------------------------------------------
(* The inductive invariant.                                                *)

\* The requests under way that a click sent, and the updates of u to be committed.
Clicked    == {c \in Calls : call[c].kind \in {"login", "logout", "patch"}}
Pending(u) == {c \in Calls : /\ call[c].kind = "patch" /\ call[c].as = u
                             /\ call[c].pc \in {"sent", "loaded"}}

\* Each profile the provider takes answers a click of its own.
RequestsCounted ==
    IsFiniteSet(Clicked) /\ page.requestId + Cardinality(Clicked) <= clicks + 1

\* Each version of a row is an update of its own.
VersionsCounted ==
    \A u \in Users : /\ IsFiniteSet(Pending(u))
                     /\ account[u].version + Cardinality(Pending(u)) <= updates

\* What a request has come to.
CallsInOrder ==
    \A c \in Calls :
        /\ call[c].pc \in {"loaded", "committed"} => call[c].kind = "patch" /\ call[c].as \in Users
        /\ call[c].pc = "answered" => call[c].ours
        /\ call[c].pc = "refused" => call[c].as = None
        /\ call[c].kind # "patch" /\ call[c].pc # "idle" => call[c].ours
        /\ call[c].kind = "login" => call[c].as \in Users
        /\ call[c].answer # None => call[c].pc = "answered"

\* /me is asked once, with the first number; as long as the pages load, it is under way
\* and has no logout and no PATCH of the tab beside it.
OneMe ==
    /\ \A c, d \in Calls : call[c].kind = "me" /\ call[d].kind = "me" => c = d
    /\ \A c \in Calls : call[c].kind = "me" => call[c].stamp = 1
    /\ page.loading => /\ page.requestId = 1 /\ page.user = None
                       /\ \E c \in Calls : call[c].kind = "me"
                       /\ \A c \in Calls : call[c].ours => call[c].kind \in {"me", "login"}
    /\ page.requestId = 1 =>
          \A c \in Calls : call[c].kind = "me" => page.user = None

\* What the tab will take was asked as the user of the cookie, unless it ran out.
AskedAsCookie ==
    "lapsed" \notin doubt =>
        \A c \in Calls :
            /\ call[c].kind = "me" /\ page.requestId = 1 => call[c].as = cookie
            /\ call[c].kind = "patch" /\ call[c].ours /\ ~call[c].crossed => call[c].as = cookie

\* No profile is newer than the row, and none that the tab will take is older than the
\* one it shows.
Version(profile) == profile.row.version

AnswersNewer ==
    /\ page.user # None => Version(page.user) <= account[page.user.id].version
    /\ \A c \in Calls : call[c].answer # None =>
          /\ Version(call[c].answer) <= account[call[c].answer.id].version
          /\ page.user # None /\ call[c].kind \in {"login", "patch"} /\ ~call[c].crossed
             /\ page.user.id = call[c].answer.id
                => Version(page.user) <= Version(call[c].answer)

IInv ==
    /\ TypeOK
    /\ RequestsCounted /\ VersionsCounted
    /\ CallsInOrder /\ OneMe
    /\ AskedAsCookie /\ ShownIsSignedIn
    /\ AnswersNewer /\ StudentHasTrack

-----------------------------------------------------------------------------
(* What a step changes of the requests.                                    *)

LEMMA IdleRecord ==
    /\ Idle \in [kind : {None}, pc : {"idle"}, ours : BOOLEAN, as : {None}, stamp : {0},
                 change : Change, base : {None}, answer : {None}, crossed : BOOLEAN]
    /\ ~Idle.ours /\ ~Idle.crossed
BY DEF Idle, Change

\* The requests but c stay as they are.
OthersSame(c) == \A d \in Calls \ {c} : call'[d] = call[d]

\* A request that is not idle.
LEMMA Busy ==
    ASSUME TypeOK, NEW c \in Calls, call[c].pc # "idle"
    PROVE  call[c] \in Call
<1>1. call[c] # Idle
  BY IdleRecord
<1> QED BY <1>1 DEF TypeOK

\* An idle request has none of the kinds.
LEMMA IdleOrCall ==
    ASSUME TypeOK, NEW c \in Calls
    PROVE  \/ call[c] \in Call
           \/ /\ call[c] = Idle /\ call[c].pc = "idle" /\ ~call[c].ours
              /\ call[c].answer = None
BY IdleRecord DEF TypeOK

LEMMA SentRecord ==
    ASSUME NEW kind \in Kinds, NEW as \in Users \cup {None}
    PROVE  /\ Sent(kind, as) \in Call
           /\ Sent(kind, as).kind = kind /\ Sent(kind, as).as = as
           /\ Sent(kind, as).pc = "sent" /\ Sent(kind, as).ours /\ ~Sent(kind, as).crossed
           /\ Sent(kind, as).answer = None /\ Sent(kind, as).stamp = 0
<1>1. 0 \in 0 .. ClickBound + 1
  BY ClientAssumption
<1> QED BY <1>1, IdleRecord DEF Sent, Call

\* What every click does.
Clicking(c) ==
    /\ call[c] = Idle /\ clicks < ClickBound /\ clicks' = clicks + 1
    /\ call'[c] \in Call /\ OthersSame(c) /\ call' \in [Calls -> Call \cup {Idle}]
    /\ call'[c].pc = "sent" /\ call'[c].answer = None /\ ~call'[c].crossed
    /\ call'[c].kind \in {"login", "logout", "patch"}
    /\ UNCHANGED <<account, cookie, page, doubt, raced>>

LEMMA SendClicks ==
    ASSUME TypeOK, NEW c \in Calls, NEW new \in Call, Send(c, new), new.pc = "sent",
           new.answer = None, ~new.crossed, new.kind \in {"login", "logout", "patch"}
    PROVE  Clicking(c) /\ call'[c] = new
<1>1. call'[c] = new /\ OthersSame(c) /\ call' \in [Calls -> Call \cup {Idle}]
  BY DEF Send, TypeOK, OthersSame
<1> QED BY <1>1 DEF Clicking, Send

LEMMA ClickEffect ==
    ASSUME TypeOK, NEW c \in Calls, Click(c)
    PROVE  /\ Clicking(c)
           /\ call'[c].kind = "login" => call'[c].as \in Users
           /\ call'[c].ours \/ call'[c].kind = "patch"
           /\ call'[c].kind = "patch" => /\ updates < UpdateBound /\ updates' = updates + 1
                                         /\ call'[c].ours => call'[c].as = cookie
           /\ call'[c].kind # "patch" => updates' = updates
           /\ call'[c].ours /\ call'[c].kind # "login" => ~page.loading
<1>1. {"login", "logout", "patch"} \subseteq Kinds /\ cookie \in Users \cup {None}
  BY DEF Kinds, TypeOK
<1>2. ASSUME NEW u \in Users, Login(c, u)
      PROVE  Clicking(c) /\ call'[c] = Sent("login", u) /\ updates' = updates
  BY <1>1, <1>2, SentRecord, SendClicks DEF Login
<1>3. CASE Enable(c)
  <2> DEFINE old == Sent("patch", cookie)
             new == [old EXCEPT !.change = [student |-> TRUE, track |-> TRUE]]
  <2>1. [student |-> TRUE, track |-> TRUE] \in Change
    BY DEF Change
  <2>2. /\ old \in Call /\ old.kind = "patch" /\ old.as = cookie /\ old.pc = "sent"
        /\ old.ours /\ ~old.crossed /\ old.answer = None
    BY <1>1, SentRecord
  <2>3. /\ Send(c, new) /\ ~page.loading /\ updates < UpdateBound
        /\ updates' = updates + 1
    BY <1>3 DEF Enable
  <2> HIDE DEF old
  <2>4. /\ new \in Call /\ new.kind = "patch" /\ new.as = cookie /\ new.pc = "sent"
        /\ new.ours /\ ~new.crossed /\ new.answer = None
    BY <2>1, <2>2 DEF Call
  <2> HIDE DEF new
  <2>5. Clicking(c) /\ call'[c] = new
    BY <2>3, <2>4, SendClicks
  <2> QED BY <2>3, <2>4, <2>5
<1>4. ASSUME NEW u \in Users, NEW change \in Elsewhere, PatchElsewhere(c, u, change)
      PROVE  /\ Clicking(c) /\ ~call'[c].ours /\ call'[c].kind = "patch"
             /\ updates < UpdateBound /\ updates' = updates + 1
  <2> DEFINE old == Sent("patch", u)
             new == [old EXCEPT !.ours = FALSE, !.change = change]
  <2>1. change \in Change
    BY ClientAssumption
  <2>2. /\ old \in Call /\ old.kind = "patch" /\ old.as = u /\ old.pc = "sent"
        /\ ~old.crossed /\ old.answer = None
    BY <1>1, SentRecord
  <2>3. /\ Send(c, new) /\ updates < UpdateBound /\ updates' = updates + 1
    BY <1>4 DEF PatchElsewhere
  <2> HIDE DEF old
  <2>4. /\ new \in Call /\ new.kind = "patch" /\ new.pc = "sent"
        /\ ~new.ours /\ ~new.crossed /\ new.answer = None
    BY <2>1, <2>2 DEF Call
  <2> HIDE DEF new
  <2>5. Clicking(c) /\ call'[c] = new
    BY <2>3, <2>4, SendClicks
  <2> QED BY <2>3, <2>4, <2>5
<1>5. ASSUME NEW u \in Users, Login(c, u)
      PROVE  /\ Clicking(c) /\ call'[c].kind = "login" /\ call'[c].as \in Users
             /\ call'[c].ours /\ updates' = updates
  BY <1>1, <1>2, <1>5, SentRecord
<1>6. CASE Logout(c)
  <2>1. Clicking(c) /\ call'[c] = Sent("logout", cookie)
    BY <1>1, <1>6, SentRecord, SendClicks DEF Logout
  <2>2. call'[c].kind = "logout" /\ call'[c].ours
    BY <1>1, <2>1, SentRecord
  <2>3. ~page.loading /\ updates' = updates
    BY <1>6 DEF Logout
  <2> QED BY <2>1, <2>2, <2>3
<1> QED BY <1>3, <1>4, <1>5, <1>6 DEF Click


\* A step of the server on one request, which keeps what it was sent with.
Serving(c) ==
    /\ call[c] \in Call /\ call'[c] \in Call /\ OthersSame(c)
    /\ call' \in [Calls -> Call \cup {Idle}]
    /\ call'[c].kind = call[c].kind /\ call'[c].ours = call[c].ours
    /\ call'[c].as = call[c].as /\ call'[c].stamp = call[c].stamp
    /\ call'[c].crossed = call[c].crossed
    /\ UNCHANGED <<cookie, page, clicks, updates, doubt>>

LEMMA AdvanceServes ==
    ASSUME TypeOK, NEW c \in Calls, NEW new \in Call, call[c] \in Call, Advance(c, new),
           new.kind = call[c].kind, new.ours = call[c].ours, new.as = call[c].as,
           new.stamp = call[c].stamp, new.crossed = call[c].crossed
    PROVE  Serving(c) /\ call'[c] = new
<1>1. call'[c] = new /\ OthersSame(c) /\ call' \in [Calls -> Call \cup {Idle}]
  BY DEF Advance, TypeOK, OthersSame
<1> QED BY <1>1 DEF Serving, Advance

LEMMA KnownProfile ==
    ASSUME TypeOK, NEW u \in Users
    PROVE  /\ Known(u) \in Profile /\ Known(u) # None /\ Known(u).id = u
           /\ Version(Known(u)) = account[u].version
           /\ account[u] \in Row /\ account[u] # None
<1>1. account[u] \in Row /\ Known(u) \in Profile
  BY DEF TypeOK, Known, Profile
<1> QED BY <1>1, ClientAssumption DEF Known, Version

LEMMA ServeEffect ==
    ASSUME TypeOK, NEW c \in Calls, Serve(c)
    PROVE  /\ Serving(c) /\ call[c].pc = "sent"
           /\ UNCHANGED <<account, raced>>
           /\ \/ /\ call'[c].pc = "answered" /\ call[c].kind = "logout"
                 /\ call'[c].answer = call[c].answer
              \/ /\ call'[c].pc = "answered" /\ call[c].kind \in {"me", "login"}
                 /\ call[c].as \in Users /\ call'[c].answer = Known(call[c].as)
              \/ /\ call'[c].pc = "refused" /\ call[c].as = None
                 /\ call'[c].answer = call[c].answer
              \/ /\ call'[c].pc = "loaded" /\ call[c].kind = "patch" /\ call[c].as \in Users
                 /\ call'[c].base = account[call[c].as]
                 /\ call'[c].answer = call[c].answer
<1> DEFINE me == call[c]
<1>1. me \in Call /\ me.pc = "sent" /\ UNCHANGED <<account, raced>>
  BY Busy DEF Serve
<1>2. me.kind \in Kinds /\ me.as \in Users \cup {None}
  BY <1>1 DEF Call
<1>3. CASE me.kind = "logout"
  <2> DEFINE new == [me EXCEPT !.pc = "answered"]
  <2>1. Advance(c, new)
    BY <1>3 DEF Serve
  <2>2. /\ new \in Call /\ new.pc = "answered" /\ new.answer = me.answer
        /\ new.kind = me.kind /\ new.ours = me.ours /\ new.as = me.as
        /\ new.stamp = me.stamp /\ new.crossed = me.crossed
    BY <1>1 DEF Call
  <2> HIDE DEF new
  <2>3. Serving(c) /\ call'[c] = new
    BY <1>1, <2>1, <2>2, AdvanceServes
  <2> QED BY <1>1, <1>3, <2>2, <2>3
<1>4. CASE me.kind # "logout" /\ me.as = None
  <2> DEFINE new == [me EXCEPT !.pc = "refused"]
  <2>1. Advance(c, new)
    BY <1>4 DEF Serve
  <2>2. /\ new \in Call /\ new.pc = "refused" /\ new.answer = me.answer
        /\ new.kind = me.kind /\ new.ours = me.ours /\ new.as = me.as
        /\ new.stamp = me.stamp /\ new.crossed = me.crossed
    BY <1>1 DEF Call
  <2> HIDE DEF new
  <2>3. Serving(c) /\ call'[c] = new
    BY <1>1, <2>1, <2>2, AdvanceServes
  <2> QED BY <1>1, <1>4, <2>2, <2>3
<1>5. CASE me.kind \in {"me", "login"} /\ me.as # None
  <2> DEFINE new == [me EXCEPT !.pc = "answered", !.answer = Known(me.as)]
  <2>1. Advance(c, new)
    BY <1>5 DEF Serve
  <2>2. me.as \in Users /\ Known(me.as) \in Profile
    BY <1>2, <1>5, KnownProfile
  <2>3. /\ new \in Call /\ new.pc = "answered" /\ new.answer = Known(me.as)
        /\ new.kind = me.kind /\ new.ours = me.ours /\ new.as = me.as
        /\ new.stamp = me.stamp /\ new.crossed = me.crossed
    BY <1>1, <2>2 DEF Call
  <2> HIDE DEF new
  <2>4. Serving(c) /\ call'[c] = new
    BY <1>1, <2>1, <2>3, AdvanceServes
  <2> QED BY <1>1, <1>5, <2>2, <2>3, <2>4
<1>6. CASE me.kind = "patch" /\ me.as # None
  <2> DEFINE new == [me EXCEPT !.pc = "loaded", !.base = account[me.as]]
  <2>1. Advance(c, new)
    BY <1>6 DEF Serve
  <2>2. me.as \in Users /\ account[me.as] \in Row
    BY <1>2, <1>6, KnownProfile
  <2>3. /\ new \in Call /\ new.pc = "loaded" /\ new.answer = me.answer
        /\ new.base = account[me.as]
        /\ new.kind = me.kind /\ new.ours = me.ours /\ new.as = me.as
        /\ new.stamp = me.stamp /\ new.crossed = me.crossed
    BY <1>1, <2>2 DEF Call
  <2> HIDE DEF new
  <2>4. Serving(c) /\ call'[c] = new
    BY <1>1, <2>1, <2>3, AdvanceServes
  <2> QED BY <1>1, <1>6, <2>2, <2>3, <2>4
<1> QED BY <1>2, <1>3, <1>4, <1>5, <1>6 DEF Kinds

LEMMA PatchedRow ==
    ASSUME NEW base \in Row, NEW change \in Change
    PROVE  /\ Patched(base, change).student \in BOOLEAN /\ Patched(base, change).track \in BOOLEAN
           /\ Patched(base, change).student => Patched(base, change).track
BY ClientAssumption DEF Patched, Row, Change

LEMMA CommitEffect ==
    ASSUME TypeOK, CallsInOrder, NEW c \in Calls, CommitPatch(c)
    PROVE  /\ Serving(c) /\ call[c].pc = "loaded" /\ call'[c].pc = "committed"
           /\ call[c].as \in Users /\ call'[c].answer = call[c].answer
           /\ call'[c].base = call[c].base
           /\ \A u \in Users \ {call[c].as} : account'[u] = account[u]
           /\ account'[call[c].as].version = account[call[c].as].version + 1
           /\ account' \in [Users -> [student : BOOLEAN, track : BOOLEAN, version : Nat]]
           /\ raced' = IF call[c].base = account[call[c].as] THEN raced
                       ELSE raced \cup {call[c].as}
           /\ call[c].base = account[call[c].as] /\ account'[call[c].as].student
                 => account'[call[c].as].track
<1> DEFINE me  == call[c]
           u   == me.as
           new == Patched(me.base, me.change)
           row == account[u]
           row2 == [student |-> IF new.student # me.base.student THEN new.student
                                ELSE row.student,
                    track |-> IF new.track # me.base.track THEN new.track ELSE row.track,
                    version |-> row.version + 1]
           call2 == [me EXCEPT !.pc = "committed"]
<1>1. /\ me \in Call /\ me.pc = "loaded" /\ u \in Users /\ me.base \in Row
      /\ me.change \in Change /\ row \in Row
  <2>1. me.pc = "loaded"
    BY DEF CommitPatch
  <2>2. me \in Call
    BY <2>1, Busy
  <2> QED BY <2>1, <2>2 DEF CallsInOrder, TypeOK, Call
<1>2. /\ account' = [account EXCEPT ![u] = row2] /\ Advance(c, call2)
      /\ raced' = IF me.base = row THEN raced ELSE raced \cup {u}
  BY DEF CommitPatch
<1>3. new.student \in BOOLEAN /\ new.track \in BOOLEAN /\ (new.student => new.track)
  BY <1>1, PatchedRow
<1> HIDE DEF new
<1>4. /\ call2 \in Call /\ call2.pc = "committed" /\ call2.answer = me.answer
      /\ call2.base = me.base
      /\ call2.kind = me.kind /\ call2.ours = me.ours /\ call2.as = me.as
      /\ call2.stamp = me.stamp /\ call2.crossed = me.crossed
  BY <1>1 DEF Call
<1> HIDE DEF call2
<1>5. Serving(c) /\ call'[c] = call2
  BY <1>1, <1>2, <1>4, AdvanceServes
<1>6. /\ row2 \in [student : BOOLEAN, track : BOOLEAN, version : Nat]
      /\ row2.version = row.version + 1
      /\ me.base = row => row2.student = new.student /\ row2.track = new.track
  BY <1>1, <1>3, ClientAssumption DEF Row
<1> HIDE DEF row2
<1>7. /\ account'[u] = row2 /\ \A v \in Users \ {u} : account'[v] = account[v]
      /\ account' \in [Users -> [student : BOOLEAN, track : BOOLEAN, version : Nat]]
  <2>1. Row \subseteq [student : BOOLEAN, track : BOOLEAN, version : Nat]
    BY ClientAssumption DEF Row
  <2> QED BY <1>1, <1>2, <1>6, <2>1 DEF TypeOK
<1> QED BY <1>1, <1>2, <1>3, <1>4, <1>5, <1>6, <1>7

LEMMA AnswerPatchEffect ==
    ASSUME TypeOK, CallsInOrder, NEW c \in Calls, AnswerPatch(c)
    PROVE  /\ call[c].pc = "committed" /\ call[c].kind = "patch" /\ call[c].as \in Users
           /\ call[c] \in Call /\ OthersSame(c) /\ call' \in [Calls -> Call \cup {Idle}]
           /\ UNCHANGED <<account, cookie, page, clicks, updates, doubt, raced>>
           /\ call[c].ours => /\ Serving(c) /\ call'[c].pc = "answered"
                              /\ call'[c].answer = Known(call[c].as)
           /\ ~call[c].ours => call'[c] = Idle
<1> DEFINE new == [call[c] EXCEPT !.pc = "answered", !.answer = Known(call[c].as)]
<1>1. /\ call[c].pc = "committed" /\ call[c] \in Call /\ call[c].kind = "patch"
      /\ call[c].as \in Users
  BY Busy DEF AnswerPatch, CallsInOrder
<1>2. /\ Advance(c, IF call[c].ours THEN new ELSE Idle)
      /\ UNCHANGED <<account, cookie, page, clicks, updates, doubt, raced>>
  BY DEF AnswerPatch, Advance
<1>3. CASE call[c].ours
  <2>1. /\ new \in Call /\ new.pc = "answered" /\ new.answer = Known(call[c].as)
        /\ new.kind = call[c].kind /\ new.ours = call[c].ours /\ new.as = call[c].as
        /\ new.stamp = call[c].stamp /\ new.crossed = call[c].crossed
    BY <1>1, KnownProfile DEF Call
  <2> HIDE DEF new
  <2>2. Serving(c) /\ call'[c] = new
    BY <1>1, <1>2, <1>3, <2>1, AdvanceServes
  <2> QED BY <1>1, <1>2, <1>3, <2>1, <2>2 DEF Serving
<1>4. CASE ~call[c].ours
  BY <1>1, <1>2, <1>4 DEF Advance, TypeOK, OthersSame
<1> QED BY <1>3, <1>4


\* The answer of c is taken: the logins and patches of the tab beside it are overtaken.
Taking(c) ==
    /\ call'[c] = Idle
    /\ call' \in [Calls -> Call \cup {Idle}]
    /\ \A d \in Calls \ {c} :
          /\ call'[d].kind = call[d].kind /\ call'[d].pc = call[d].pc
          /\ call'[d].ours = call[d].ours /\ call'[d].as = call[d].as
          /\ call'[d].stamp = call[d].stamp /\ call'[d].base = call[d].base
          /\ call'[d].answer = call[d].answer
          /\ call'[d].crossed <=>
                call[d].crossed \/ (call[d].ours /\ call[d].kind \in {"login", "patch"})

LEMMA OvertakenTakes ==
    ASSUME TypeOK, NEW c \in Calls, call' = Overtaken(c)
    PROVE  Taking(c)
<1>1. call'[c] = Idle
  BY DEF Overtaken
<1>2. ASSUME NEW d \in Calls \ {c}
      PROVE  /\ call'[d] \in Call \cup {Idle}
             /\ call'[d].kind = call[d].kind /\ call'[d].pc = call[d].pc
             /\ call'[d].ours = call[d].ours /\ call'[d].as = call[d].as
             /\ call'[d].stamp = call[d].stamp /\ call'[d].base = call[d].base
             /\ call'[d].answer = call[d].answer
             /\ call'[d].crossed <=>
                   call[d].crossed \/ (call[d].ours /\ call[d].kind \in {"login", "patch"})
  <2>1. CASE call[d].ours /\ call[d].kind \in {"login", "patch"}
    <3>1. call[d] \in Call
      BY <2>1, IdleOrCall
    <3>2. call'[d] = [call[d] EXCEPT !.crossed = TRUE]
      BY <2>1 DEF Overtaken
    <3>3. call'[d] \in Call /\ call'[d].crossed
      BY <3>1, <3>2 DEF Call
    <3> QED BY <2>1, <3>1, <3>2, <3>3 DEF Call
  <2>2. CASE ~(call[d].ours /\ call[d].kind \in {"login", "patch"})
    <3>1. call'[d] = call[d]
      BY <2>2 DEF Overtaken
    <3> QED BY <2>2, <3>1 DEF TypeOK
  <2> QED BY <2>1, <2>2
<1>3. call' = [d \in Calls |-> call'[d]]
  BY DEF Overtaken
<1>4. call' \in [Calls -> Call \cup {Idle}]
  BY <1>1, <1>2, <1>3
<1> QED BY <1>1, <1>2, <1>4 DEF Taking

Pages == [user : Profile \cup {None}, loading : BOOLEAN, requestId : Nat]

LEMMA PageType ==
    ASSUME page \in Pages, NEW profile \in Profile \cup {None}
    PROVE  /\ [page EXCEPT !.user = profile, !.loading = FALSE, !.requestId = @ + 1] \in Pages
           /\ [page EXCEPT !.user = profile, !.loading = FALSE] \in Pages
           /\ [page EXCEPT !.user = profile, !.requestId = @ + 1] \in Pages
           /\ [page EXCEPT !.loading = FALSE] \in Pages
<1>1. page.requestId + 1 \in Nat
  BY DEF Pages
<1>2. [page EXCEPT !.loading = FALSE] \in Pages
  BY DEF Pages
<1>3. [page EXCEPT !.user = profile, !.loading = FALSE] \in Pages
  BY DEF Pages
<1>4. [page EXCEPT !.user = profile, !.requestId = @ + 1] \in Pages
  BY <1>1 DEF Pages
<1>5. [page EXCEPT !.user = profile, !.loading = FALSE, !.requestId = @ + 1] \in Pages
  BY <1>1 DEF Pages
<1> QED BY <1>2, <1>3, <1>4, <1>5

\* What the provider does with an answer, field by field.
LEMMA PageEffect ==
    ASSUME TypeOK
    PROVE  /\ \A profile : SetUser(profile) =>
                 /\ page'.user = profile /\ ~page'.loading
                 /\ page'.requestId = page.requestId + 1
           /\ \A c \in Calls : \A user : Refresh(c, user) =>
                 IF page.requestId = call[c].stamp
                 THEN /\ page'.user = user /\ ~page'.loading
                      /\ page'.requestId = page.requestId
                 ELSE page' = page
BY DEF TypeOK, SetUser, Refresh

LEMMA ReceiveMeEffect ==
    ASSUME TypeOK, NEW c \in Calls, ReceiveMe(c)
    PROVE  /\ Taking(c) /\ call[c] \in Call /\ call[c].kind = "me"
           /\ UNCHANGED <<account, cookie, clicks, updates, doubt, raced>>
           /\ page.requestId # call[c].stamp => page' = page
           /\ page.requestId = call[c].stamp =>
                 /\ ~page'.loading /\ page'.requestId = page.requestId
                 /\ \/ /\ call[c].pc = "answered" /\ page'.user = call[c].answer
                    \/ /\ call[c].pc = "refused" /\ page'.user = None
<1>1. call[c] \in Call
  BY Busy DEF ReceiveMe
<1> QED BY <1>1, PageEffect, OvertakenTakes DEF ReceiveMe

LEMMA ReceiveLoginEffect ==
    ASSUME TypeOK, NEW c \in Calls, ReceiveLogin(c)
    PROVE  /\ Taking(c) /\ call[c] \in Call /\ call[c].kind = "login" /\ call[c].pc = "answered"
           /\ cookie' = call[c].as /\ doubt' = {}
           /\ UNCHANGED <<account, clicks, updates, raced>>
           /\ page'.user = call[c].answer /\ ~page'.loading
           /\ page'.requestId = page.requestId + 1
<1>1. call[c] \in Call
  BY Busy DEF ReceiveLogin
<1> QED BY <1>1, PageEffect, OvertakenTakes DEF ReceiveLogin

LEMMA ReceiveLogoutEffect ==
    ASSUME TypeOK, NEW c \in Calls, ReceiveLogout(c)
    PROVE  /\ Taking(c) /\ call[c] \in Call /\ call[c].kind = "logout" /\ call[c].pc = "answered"
           /\ cookie' = None /\ doubt' = {}
           /\ UNCHANGED <<account, clicks, updates, raced>>
           /\ page'.user = None /\ page'.loading = page.loading
           /\ page'.requestId = page.requestId + 1
<1>1. call[c] \in Call
  BY Busy DEF ReceiveLogout
<1> QED BY <1>1, OvertakenTakes DEF ReceiveLogout, TypeOK

LEMMA ReceivePatchEffect ==
    ASSUME TypeOK, NEW c \in Calls, ReceivePatch(c)
    PROVE  /\ Taking(c) /\ call[c] \in Call /\ call[c].kind = "patch" /\ call[c].pc = "answered"
           /\ doubt' = IF call[c].crossed THEN doubt \cup {"crossed"} ELSE doubt \ {"crossed"}
           /\ UNCHANGED <<account, cookie, clicks, updates, raced>>
           /\ page'.user = call[c].answer /\ ~page'.loading
           /\ page'.requestId = page.requestId + 1
<1>1. call[c] \in Call
  BY Busy DEF ReceivePatch
<1> QED BY <1>1, PageEffect, OvertakenTakes DEF ReceivePatch

LEMMA FailEffect ==
    ASSUME TypeOK, NEW c \in Calls, Fail(c)
    PROVE  /\ call[c] \in Call /\ OthersSame(c) /\ call' \in [Calls -> Call \cup {Idle}]
           /\ UNCHANGED <<account, cookie, clicks, updates, raced>>
           /\ \/ call'[c] = Idle
              \/ /\ call[c].kind = "patch" /\ call[c].pc \in {"sent", "loaded", "committed"}
                 /\ call'[c] \in Call /\ ~call'[c].ours
                 /\ call'[c].kind = call[c].kind /\ call'[c].pc = call[c].pc
                 /\ call'[c].as = call[c].as /\ call'[c].stamp = call[c].stamp
                 /\ call'[c].base = call[c].base /\ call'[c].answer = call[c].answer
                 /\ call'[c].crossed = call[c].crossed
           /\ \/ /\ call[c].kind = "me" /\ page.requestId = call[c].stamp
                 /\ page'.user = page.user /\ ~page'.loading
                 /\ page'.requestId = page.requestId
                 /\ doubt' = doubt \cup {"blind"}
              \/ /\ ~(call[c].kind = "me" /\ page.requestId = call[c].stamp)
                 /\ UNCHANGED <<page, doubt>>
<1>1. call[c] \in Call
  BY IdleOrCall, IdleRecord DEF Fail
<1>2. /\ UNCHANGED <<account, cookie, clicks, updates, raced>>
      /\ \/ call' = [call EXCEPT ![c] = Idle]
         \/ /\ call[c].kind = "patch" /\ call[c].pc \in {"sent", "loaded", "committed"}
            /\ call' = [call EXCEPT ![c].ours = FALSE]
      /\ IF call[c].kind = "me" /\ page.requestId = call[c].stamp
         THEN page' = [page EXCEPT !.loading = FALSE] /\ doubt' = doubt \cup {"blind"}
         ELSE UNCHANGED <<page, doubt>>
  BY DEF Fail
<1>3. CASE call' = [call EXCEPT ![c] = Idle]
  <2>1. /\ call'[c] = Idle /\ OthersSame(c) /\ call' \in [Calls -> Call \cup {Idle}]
    BY <1>3 DEF TypeOK, OthersSame
  <2> QED BY <1>1, <1>2, <2>1 DEF TypeOK
<1>4. CASE /\ call[c].kind = "patch" /\ call[c].pc \in {"sent", "loaded", "committed"}
           /\ call' = [call EXCEPT ![c].ours = FALSE]
  <2> DEFINE new == [call[c] EXCEPT !.ours = FALSE]
  <2>1. /\ new \in Call /\ ~new.ours /\ new.kind = call[c].kind /\ new.pc = call[c].pc
        /\ new.as = call[c].as /\ new.stamp = call[c].stamp
        /\ new.base = call[c].base /\ new.answer = call[c].answer
        /\ new.crossed = call[c].crossed
    BY <1>1 DEF Call
  <2>2. call' = [call EXCEPT ![c] = new]
    BY <1>4
  <2> HIDE DEF new
  <2>3. call'[c] = new /\ OthersSame(c) /\ call' \in [Calls -> Call \cup {Idle}]
    BY <2>1, <2>2 DEF TypeOK, OthersSame
  <2> QED BY <1>1, <1>2, <1>4, <2>1, <2>3
<1> QED BY <1>2, <1>3, <1>4


-----------------------------------------------------------------------------
(* RequestsCounted and VersionsCounted are preserved.                      *)

LEMMA IdleKind == Idle.kind \notin Kinds
BY IdleRecord, ClientAssumption

LEMMA RequestsStep ==
    ASSUME TypeOK, CallsInOrder, RequestsCounted,
           NEW c \in Calls, Click(c) \/ Settle(c) \/ Fail(c)
    PROVE  RequestsCounted'
<1> DEFINE clicked == {"login", "logout", "patch"}
<1>1. /\ IsFiniteSet(Clicked) /\ Cardinality(Clicked) \in Nat /\ page.requestId \in Nat
      /\ clicks \in Nat /\ page.requestId + Cardinality(Clicked) <= clicks + 1
  BY FS_CardinalityType, ClientAssumption DEF RequestsCounted, TypeOK
<1>2. Idle.kind \notin clicked
  BY IdleKind DEF Kinds
<1>3. CASE Click(c)
  <2>1. /\ c \notin Clicked /\ Clicked' = Clicked \cup {c}
        /\ clicks' = clicks + 1 /\ page' = page
    BY <1>2, <1>3, ClickEffect DEF Clicking, OthersSame, Clicked
  <2>2. IsFiniteSet(Clicked \cup {c}) /\ Cardinality(Clicked \cup {c}) = Cardinality(Clicked) + 1
    BY <1>1, <2>1, FS_AddElement
  <2> QED BY <1>1, <2>1, <2>2 DEF RequestsCounted
<1>4. ASSUME Clicked' = Clicked, page'.requestId = page.requestId, clicks' = clicks
      PROVE  RequestsCounted'
  BY <1>1, <1>4 DEF RequestsCounted
<1>5. ASSUME Clicked' = Clicked \ {c}, c \in Clicked, clicks' = clicks,
             page'.requestId \in {page.requestId, page.requestId + 1}
      PROVE  RequestsCounted'
  <2>1. IsFiniteSet(Clicked \ {c}) /\ Cardinality(Clicked \ {c}) = Cardinality(Clicked) - 1
    BY <1>1, <1>5, FS_RemoveElement
  <2> QED BY <1>1, <1>5, <2>1 DEF RequestsCounted
<1>6. ASSUME Serving(c) PROVE RequestsCounted'
  <2>1. Clicked' = Clicked
    BY <1>6 DEF Serving, OthersSame, Clicked
  <2> QED BY <1>4, <1>6, <2>1 DEF Serving
<1>7. CASE Serve(c) \/ CommitPatch(c)
  BY <1>6, <1>7, ServeEffect, CommitEffect
<1>8. CASE AnswerPatch(c)
  <2>1. CASE call[c].ours
    BY <1>6, <1>8, <2>1, AnswerPatchEffect
  <2>2. CASE ~call[c].ours
    <3>1. /\ c \in Clicked /\ Clicked' = Clicked \ {c}
      BY <1>2, <1>8, <2>2, AnswerPatchEffect DEF OthersSame, Clicked
    <3> QED BY <1>5, <1>8, <3>1, AnswerPatchEffect
  <2> QED BY <2>1, <2>2
<1>9. ASSUME Taking(c) PROVE Clicked' = Clicked \ {c}
  BY <1>2, <1>9 DEF Taking, Clicked
<1>10. CASE ReceiveMe(c)
  <2>1. Clicked' = Clicked
    BY <1>9, <1>10, ReceiveMeEffect DEF Clicked
  <2> QED BY <1>4, <1>10, <2>1, ReceiveMeEffect
<1>11. CASE ReceiveLogin(c)
  BY <1>5, <1>9, <1>11, ReceiveLoginEffect DEF Clicked
<1>12. CASE ReceiveLogout(c)
  BY <1>5, <1>9, <1>12, ReceiveLogoutEffect DEF Clicked
<1>13. CASE ReceivePatch(c)
  BY <1>5, <1>9, <1>13, ReceivePatchEffect DEF Clicked
<1>14. CASE Fail(c)
  <2>1. page'.requestId = page.requestId /\ clicks' = clicks
    BY <1>14, FailEffect
  <2>2. Clicked' = Clicked \/ (c \in Clicked /\ Clicked' = Clicked \ {c})
    BY <1>2, <1>14, FailEffect DEF OthersSame, Clicked
  <2> QED BY <1>4, <1>5, <2>1, <2>2
<1> QED BY <1>3, <1>7, <1>8, <1>10, <1>11, <1>12, <1>13, <1>14 DEF Settle, Answer

LEMMA VersionsStep ==
    ASSUME TypeOK, CallsInOrder, VersionsCounted,
           NEW c \in Calls, Click(c) \/ Settle(c) \/ Fail(c)
    PROVE  VersionsCounted'
<1>1. SUFFICES ASSUME NEW u \in Users
               PROVE  /\ IsFiniteSet(Pending(u))'
                      /\ account'[u].version + Cardinality(Pending(u)') <= updates'
  BY DEF VersionsCounted
<1>2. /\ IsFiniteSet(Pending(u)) /\ Cardinality(Pending(u)) \in Nat
      /\ account[u].version \in Nat /\ updates \in Nat
      /\ account[u].version + Cardinality(Pending(u)) <= updates
  BY FS_CardinalityType, ClientAssumption DEF VersionsCounted, TypeOK, Row
<1>3. Idle.kind # "patch" /\ Idle.pc = "idle"
  BY IdleKind, IdleRecord DEF Kinds
<1>4. /\ IsFiniteSet(Pending(u) \cup {c})
      /\ c \notin Pending(u) => Cardinality(Pending(u) \cup {c}) = Cardinality(Pending(u)) + 1
      /\ IsFiniteSet(Pending(u) \ {c})
      /\ c \in Pending(u) => Cardinality(Pending(u) \ {c}) = Cardinality(Pending(u)) - 1
  BY <1>2, FS_AddElement, FS_RemoveElement
<1>5. ASSUME Pending(u)' = Pending(u), UNCHANGED <<account, updates>>
      PROVE  /\ IsFiniteSet(Pending(u))'
             /\ account'[u].version + Cardinality(Pending(u)') <= updates'
  BY <1>2, <1>5
<1>6. CASE Click(c)
  <2>1. /\ c \notin Pending(u) /\ Pending(u)' \in {Pending(u), Pending(u) \cup {c}}
        /\ call'[c].kind # "patch" => Pending(u)' = Pending(u)
        /\ account' = account
    BY <1>3, <1>6, ClickEffect DEF Clicking, OthersSame, Pending
  <2>2. updates' = IF call'[c].kind = "patch" THEN updates + 1 ELSE updates
    BY <1>6, ClickEffect
  <2>3. CASE Pending(u)' = Pending(u)
    BY <1>2, <2>1, <2>2, <2>3
  <2>4. CASE Pending(u)' = Pending(u) \cup {c} /\ call'[c].kind = "patch"
    <3>1. IsFiniteSet(Pending(u))'
      BY <1>4, <2>4
    <3>2. Cardinality(Pending(u)') = Cardinality(Pending(u)) + 1
      BY <1>4, <2>1, <2>4
    <3> QED BY <1>2, <2>1, <2>2, <2>4, <3>1, <3>2
  <2> QED BY <2>1, <2>3, <2>4
<1>7. CASE Serve(c)
  <2>1. Pending(u)' = Pending(u)
    BY <1>7, ServeEffect, ClientAssumption DEF Serving, OthersSame, Pending
  <2> QED BY <1>5, <1>7, <2>1, ServeEffect DEF Serving
<1>8. CASE CommitPatch(c)
  <2>1. updates' = updates
    BY <1>8, CommitEffect DEF Serving
  <2>2. CASE call[c].as = u
    <3>1. c \in Pending(u) /\ Pending(u)' = Pending(u) \ {c}
      BY <1>8, <2>2, CommitEffect DEF Serving, OthersSame, Pending, CallsInOrder
    <3>2. account'[u].version = account[u].version + 1
      BY <1>8, <2>2, CommitEffect
    <3> QED BY <1>2, <1>4, <2>1, <3>1, <3>2
  <2>3. CASE call[c].as # u
    <3>1. Pending(u)' = Pending(u)
      BY <1>8, <2>3, CommitEffect DEF Serving, OthersSame, Pending
    <3>2. account'[u] = account[u]
      BY <1>8, <2>3, CommitEffect
    <3> QED BY <1>2, <2>1, <3>1, <3>2
  <2> QED BY <2>2, <2>3
<1>9. CASE AnswerPatch(c)
  <2>1. Pending(u)' = Pending(u)
    <3>1. CASE call[c].ours
      BY <1>9, <3>1, AnswerPatchEffect DEF OthersSame, Pending
    <3>2. CASE ~call[c].ours
      BY <1>3, <1>9, <3>2, AnswerPatchEffect DEF OthersSame, Pending
    <3> QED BY <3>1, <3>2
  <2> QED BY <1>5, <1>9, <2>1, AnswerPatchEffect
<1>10. ASSUME Taking(c), c \notin Pending(u) PROVE Pending(u)' = Pending(u)
  BY <1>3, <1>10 DEF Taking, Pending
<1>11. CASE ReceiveMe(c)
  BY <1>5, <1>10, <1>11, ReceiveMeEffect DEF Pending
<1>12. CASE ReceiveLogin(c)
  BY <1>5, <1>10, <1>12, ReceiveLoginEffect DEF Pending
<1>13. CASE ReceiveLogout(c)
  BY <1>5, <1>10, <1>13, ReceiveLogoutEffect DEF Pending
<1>14. CASE ReceivePatch(c)
  BY <1>5, <1>10, <1>14, ReceivePatchEffect DEF Pending
<1>15. CASE Fail(c)
  <2>1. Pending(u)' = Pending(u) \/ (c \in Pending(u) /\ Pending(u)' = Pending(u) \ {c})
    BY <1>3, <1>15, FailEffect DEF OthersSame, Pending
  <2>2. UNCHANGED <<account, updates>>
    BY <1>15, FailEffect
  <2>3. CASE c \in Pending(u) /\ Pending(u)' = Pending(u) \ {c}
    <3>1. IsFiniteSet(Pending(u))'
      BY <1>4, <2>3
    <3>2. Cardinality(Pending(u)') = Cardinality(Pending(u)) - 1
      BY <1>4, <2>3
    <3> QED BY <1>2, <2>2, <3>1, <3>2
  <2> QED BY <1>5, <2>1, <2>2, <2>3
<1> QED BY <1>6, <1>7, <1>8, <1>9, <1>11, <1>12, <1>13, <1>14, <1>15 DEF Settle, Answer


-----------------------------------------------------------------------------
(* TypeOK and CallsInOrder are preserved.                                  *)

\* What the two say of one request.
CallOK(me) ==
    /\ me.pc \in {"loaded", "committed"} => me.base # None
    /\ me.pc = "answered" /\ me.kind # "logout" => me.answer # None /\ me.answer.id = me.as
    /\ me.pc \in {"loaded", "committed"} => me.kind = "patch" /\ me.as \in Users
    /\ me.pc = "answered" => me.ours
    /\ me.pc = "refused" => me.as = None
    /\ me.kind # "patch" /\ me.pc # "idle" => me.ours
    /\ me.kind = "login" => me.as \in Users
    /\ me.answer # None => me.pc = "answered"

LEMMA CallsOK ==
    ASSUME TypeOK, CallsInOrder, NEW c \in Calls
    PROVE  CallOK(call[c])
BY DEF TypeOK, CallsInOrder, CallOK

LEMMA CallsStep ==
    ASSUME TypeOK, CallsInOrder, NEW c \in Calls, Click(c) \/ Settle(c) \/ Fail(c)
    PROVE  call' \in [Calls -> Call \cup {Idle}] /\ \A d \in Calls : CallOK(call'[d])
<1>1. CallOK(Idle)
  BY IdleKind, IdleRecord DEF CallOK, Kinds
<1>2. ASSUME OthersSame(c), CallOK(call'[c]) PROVE \A d \in Calls : CallOK(call'[d])
  BY <1>2, CallsOK DEF OthersSame
<1>3. CASE Click(c)
  <2>1. CallOK(call'[c])
    BY <1>3, ClickEffect DEF Clicking, CallOK
  <2> QED BY <1>2, <1>3, <2>1, ClickEffect DEF Clicking
<1>4. CASE Serve(c)
  <2>1. CallOK(call[c])
    BY CallsOK
  <2>2. call[c].as \in Users => /\ Known(call[c].as) # None /\ Known(call[c].as).id = call[c].as
                                /\ account[call[c].as] # None
    BY KnownProfile
  <2>3. CallOK(call'[c])
    BY <1>4, <2>1, <2>2, ServeEffect DEF Serving, CallOK
  <2> QED BY <1>2, <1>4, <2>3, ServeEffect DEF Serving
<1>5. CASE CommitPatch(c)
  <2>1. CallOK(call[c])
    BY CallsOK
  <2>2. CallOK(call'[c])
    BY <1>5, <2>1, CommitEffect DEF Serving, CallOK
  <2> QED BY <1>2, <1>5, <2>2, CommitEffect DEF Serving
<1>6. CASE AnswerPatch(c)
  <2>1. call[c].as \in Users => Known(call[c].as) # None /\ Known(call[c].as).id = call[c].as
    BY KnownProfile
  <2>2. CASE call[c].ours
    <3>1. CallOK(call'[c])
      BY <1>6, <2>1, <2>2, AnswerPatchEffect DEF Serving, CallOK
    <3> QED BY <1>2, <1>6, <3>1, AnswerPatchEffect
  <2>3. CASE ~call[c].ours
    BY <1>1, <1>2, <1>6, <2>3, AnswerPatchEffect
  <2> QED BY <2>2, <2>3
<1>7. ASSUME Taking(c)
      PROVE  call' \in [Calls -> Call \cup {Idle}] /\ \A d \in Calls : CallOK(call'[d])
  <2>1. ASSUME NEW d \in Calls \ {c} PROVE CallOK(call'[d])
    BY <1>7, CallsOK DEF Taking, CallOK
  <2> QED BY <1>1, <1>7, <2>1 DEF Taking
<1>8. CASE Answer(c)
  BY <1>7, <1>8, ReceiveMeEffect, ReceiveLoginEffect, ReceiveLogoutEffect, ReceivePatchEffect
     DEF Answer
<1>9. CASE Fail(c)
  <2>1. CallOK(call[c])
    BY CallsOK
  <2>2. CallOK(call'[c])
    BY <1>1, <1>9, <2>1, FailEffect DEF CallOK
  <2> QED BY <1>2, <1>9, <2>2, FailEffect
<1> QED BY <1>3, <1>4, <1>5, <1>6, <1>8, <1>9 DEF Settle

\* What the other variables may become.
LEMMA RestType ==
    ASSUME TypeOK, CallsInOrder, NEW c \in Calls, Click(c) \/ Settle(c) \/ Fail(c)
    PROVE  /\ account' \in [Users -> [student : BOOLEAN, track : BOOLEAN, version : Nat]]
           /\ cookie' \in Users \cup {None}
           /\ page' \in Pages /\ page'.requestId >= page.requestId
           /\ clicks' \in 0 .. ClickBound /\ updates' \in 0 .. UpdateBound
           /\ doubt' \subseteq {"lapsed", "blind", "crossed"}
           /\ raced' \subseteq Users
<1> USE ClientAssumption
<1>1. /\ account \in [Users -> [student : BOOLEAN, track : BOOLEAN, version : Nat]]
      /\ cookie \in Users \cup {None}
      /\ clicks \in 0 .. ClickBound /\ updates \in 0 .. UpdateBound
      /\ doubt \subseteq {"lapsed", "blind", "crossed"} /\ raced \subseteq Users
  <2>1. Row \subseteq [student : BOOLEAN, track : BOOLEAN, version : Nat]
    BY DEF Row
  <2> QED BY <2>1 DEF TypeOK
<1>2. page \in Pages /\ page.requestId \in Nat
  BY DEF TypeOK, Pages
<1>3. call[c] \in Call /\ call[c].pc = "answered" /\ call[c].kind # "logout"
         => call[c].answer \in Profile
  BY DEF TypeOK, Call
<1>13. ASSUME page' = page PROVE page' \in Pages /\ page'.requestId >= page.requestId
  BY <1>2, <1>13
<1>14. ASSUME page'.requestId = page.requestId PROVE page'.requestId >= page.requestId
  BY <1>2, <1>14
<1>4. CASE Click(c)
  <2>1. updates' \in 0 .. UpdateBound /\ clicks' \in 0 .. ClickBound
    BY <1>1, <1>4, ClickEffect DEF Clicking
  <2>2. UNCHANGED <<account, cookie, page, doubt, raced>>
    BY <1>4, ClickEffect DEF Clicking
  <2> QED BY <1>1, <1>2, <2>1, <2>2
<1>5. CASE Serve(c)
  <2>1. UNCHANGED <<account, cookie, page, clicks, updates, doubt, raced>>
    BY <1>5, ServeEffect DEF Serving
  <2> QED BY <1>1, <1>13, <2>1
<1>6. CASE CommitPatch(c)
  <2>1. raced' \subseteq Users
    BY <1>1, <1>6, CommitEffect
  <2>2. UNCHANGED <<cookie, page, clicks, updates, doubt>>
    BY <1>6, CommitEffect DEF Serving
  <2>3. account' \in [Users -> [student : BOOLEAN, track : BOOLEAN, version : Nat]]
    BY <1>6, CommitEffect
  <2> QED BY <1>1, <1>13, <2>1, <2>2, <2>3
<1>7. CASE AnswerPatch(c)
  <2>1. UNCHANGED <<account, cookie, page, clicks, updates, doubt, raced>>
    BY <1>7, AnswerPatchEffect
  <2> QED BY <1>1, <1>13, <2>1
<1>8. CASE ReceiveMe(c)
  <2>1. page' \in Pages
    <3>1. call[c].pc = "answered" => call[c].answer \in Profile
      BY <1>3, <1>8, ReceiveMeEffect
    <3> QED BY <1>2, <1>8, <3>1, PageType DEF ReceiveMe, Refresh
  <2>2. page'.requestId = page.requestId
    BY <1>8, ReceiveMeEffect
  <2>3. UNCHANGED <<account, cookie, clicks, updates, doubt, raced>>
    BY <1>8, ReceiveMeEffect
  <2> QED BY <1>1, <1>14, <2>1, <2>2, <2>3
<1>9. CASE ReceiveLogin(c)
  <2>1. call[c].as \in Users
    BY <1>9, ReceiveLoginEffect DEF CallsInOrder
  <2>2. page' \in Pages
    <3>1. call[c].answer \in Profile
      BY <1>3, <1>9, ReceiveLoginEffect
    <3> QED BY <1>2, <1>9, <3>1, PageType DEF ReceiveLogin, SetUser
  <2>3. page'.requestId = page.requestId + 1
    BY <1>9, ReceiveLoginEffect
  <2> QED BY <1>1, <1>2, <1>9, <2>1, <2>2, <2>3, ReceiveLoginEffect
<1>10. CASE ReceiveLogout(c)
  <2>1. page' \in Pages
    BY <1>2, <1>10, PageType DEF ReceiveLogout
  <2>2. page'.requestId = page.requestId + 1
    BY <1>10, ReceiveLogoutEffect
  <2> QED BY <1>1, <1>2, <1>10, <2>1, <2>2, ReceiveLogoutEffect
<1>11. CASE ReceivePatch(c)
  <2>1. doubt' \subseteq {"lapsed", "blind", "crossed"}
    BY <1>1, <1>11, ReceivePatchEffect
  <2>2. page' \in Pages
    <3>1. call[c].answer \in Profile
      BY <1>3, <1>11, ReceivePatchEffect
    <3> QED BY <1>2, <1>11, <3>1, PageType DEF ReceivePatch, SetUser
  <2>3. page'.requestId = page.requestId + 1
    BY <1>11, ReceivePatchEffect
  <2> QED BY <1>1, <1>2, <1>11, <2>1, <2>2, <2>3, ReceivePatchEffect
<1>12. CASE Fail(c)
  <2>1. page' \in Pages
    BY <1>2, <1>12, PageType DEF Fail
  <2>2. page'.requestId = page.requestId
    BY <1>12, FailEffect
  <2>3. doubt' \subseteq {"lapsed", "blind", "crossed"}
    BY <1>1, <1>12, FailEffect
  <2>4. UNCHANGED <<account, cookie, clicks, updates, raced>>
    BY <1>12, FailEffect
  <2> QED BY <1>1, <1>14, <2>1, <2>2, <2>3, <2>4
<1> QED BY <1>4, <1>5, <1>6, <1>7, <1>8, <1>9, <1>10, <1>11, <1>12 DEF Settle, Answer

LEMMA TypeStep ==
    ASSUME TypeOK, CallsInOrder, RequestsCounted, VersionsCounted,
           NEW c \in Calls, Click(c) \/ Settle(c) \/ Fail(c)
    PROVE  TypeOK' /\ CallsInOrder'
<1>1. RequestsCounted' /\ VersionsCounted'
  BY RequestsStep, VersionsStep
<1>2. page' \in [user : Profile \cup {None}, loading : BOOLEAN, requestId : 1 .. ClickBound + 1]
  <2>1. /\ IsFiniteSet(Clicked') /\ page'.requestId + Cardinality(Clicked') <= clicks' + 1
    BY <1>1 DEF RequestsCounted
  <2>2. Cardinality(Clicked') \in Nat
    BY <2>1, FS_CardinalityType
  <2>3. page.requestId \in Nat /\ page.requestId >= 1
    BY ClientAssumption DEF TypeOK
  <2>4. /\ page' \in Pages /\ page'.requestId \in Nat /\ page'.requestId >= page.requestId
        /\ clicks' \in 0 .. ClickBound
    BY RestType DEF Pages
  <2>5. page'.requestId \in 1 .. ClickBound + 1
    BY <2>1, <2>2, <2>3, <2>4, ClientAssumption
  <2> QED BY <2>4, <2>5 DEF Pages
<1>3. account' \in [Users -> Row]
  <2>1. account' \in [Users -> [student : BOOLEAN, track : BOOLEAN, version : Nat]]
        /\ updates' \in 0 .. UpdateBound
    BY RestType
  <2>2. ASSUME NEW u \in Users PROVE account'[u].version \in 0 .. UpdateBound
    <3>1. /\ IsFiniteSet(Pending(u)') /\ account'[u].version \in Nat
          /\ account'[u].version + Cardinality(Pending(u)') <= updates'
      BY <1>1, <2>1 DEF VersionsCounted
    <3>2. Cardinality(Pending(u)') \in Nat
      BY <3>1, FS_CardinalityType
    <3> QED BY <2>1, <3>1, <3>2, ClientAssumption
  <2> QED BY <2>1, <2>2 DEF Row
<1>4. call' \in [Calls -> Call \cup {Idle}] /\ \A d \in Calls : CallOK(call'[d])
  BY CallsStep
<1> QED BY <1>2, <1>3, <1>4, RestType DEF TypeOK, CallsInOrder, CallOK


-----------------------------------------------------------------------------
(* OneMe, AskedAsCookie and ShownIsSignedIn are preserved.                 *)

\* Which requests a step leaves, and what of theirs.
LEMMA CallsAfter ==
    ASSUME TypeOK, CallsInOrder, NEW c \in Calls, Settle(c) \/ Fail(c), NEW d \in Calls,
           call'[d].kind \in Kinds
    PROVE  /\ call'[d].kind = call[d].kind /\ call'[d].as = call[d].as
           /\ call'[d].stamp = call[d].stamp
           /\ call'[d].ours => call[d].ours
           /\ ~call'[d].crossed => ~call[d].crossed
           /\ Answer(c) => d # c /\ ~(call[d].ours /\ call[d].kind \in {"login", "patch"}
                                      /\ ~call'[d].crossed)
<1>1. CASE Serve(c) \/ CommitPatch(c)
  <2>1. Serving(c)
    BY <1>1, ServeEffect, CommitEffect
  <2>2. call[c].pc \in {"sent", "loaded"}
    BY <1>1, ServeEffect, CommitEffect
  <2>3. ~Answer(c)
    BY <2>2 DEF Answer, ReceiveMe, ReceiveLogin, ReceiveLogout, ReceivePatch
  <2> QED BY <2>1, <2>3 DEF Serving, OthersSame
<1>2. CASE AnswerPatch(c)
  <2>1. call[c].pc = "committed" /\ OthersSame(c)
    BY <1>2, AnswerPatchEffect
  <2>2. ~Answer(c)
    BY <2>1 DEF Answer, ReceiveMe, ReceiveLogin, ReceiveLogout, ReceivePatch
  <2>3. call[c].ours \/ call'[c].kind \notin Kinds
    BY <1>2, AnswerPatchEffect, IdleKind
  <2>4. call[c].ours => Serving(c)
    BY <1>2, AnswerPatchEffect
  <2> QED BY <2>1, <2>2, <2>3, <2>4 DEF Serving, OthersSame
<1>3. CASE Answer(c)
  <2>1. Taking(c)
    BY <1>3, ReceiveMeEffect, ReceiveLoginEffect, ReceiveLogoutEffect, ReceivePatchEffect
       DEF Answer
  <2> QED BY <2>1, IdleKind DEF Taking
<1>4. CASE Fail(c) /\ ~Answer(c)
  BY <1>4, FailEffect, IdleKind DEF OthersSame
<1>5. CASE Fail(c) /\ Answer(c)
  BY <1>3, <1>5
<1> QED BY <1>1, <1>2, <1>3, <1>4 DEF Settle

\* The requests beside c keep their kinds; a /me that ends ends the loading.
LEMMA CallsBeside ==
    ASSUME TypeOK, CallsInOrder, NEW c \in Calls, Settle(c) \/ Fail(c), NEW d \in Calls, d # c
    PROVE  call'[d].kind = call[d].kind
<1>1. OthersSame(c) \/ Taking(c)
  BY ServeEffect, CommitEffect, AnswerPatchEffect, FailEffect, ReceiveMeEffect,
     ReceiveLoginEffect, ReceiveLogoutEffect, ReceivePatchEffect DEF Settle, Answer, Serving
<1> QED BY <1>1 DEF OthersSame, Taking

LEMMA OwnMe ==
    ASSUME TypeOK, CallsInOrder, OneMe, NEW c \in Calls, Settle(c) \/ Fail(c),
           call[c].kind = "me", page.loading, page'.loading
    PROVE  call'[c].kind = "me"
<1>1. page.requestId = call[c].stamp
  BY DEF OneMe
<1>2. ~ReceiveMe(c) /\ ~Fail(c)
  BY <1>1, ReceiveMeEffect, FailEffect
<1>3. Serve(c)
  BY <1>2, CommitEffect, AnswerPatchEffect
     DEF Settle, Answer, ReceiveLogin, ReceiveLogout, ReceivePatch, CallsInOrder
<1> QED BY <1>3, ServeEffect DEF Serving

\* What the provider shows after a step that sends nothing.
LEMMA PageAfter ==
    ASSUME TypeOK, CallsInOrder, OneMe, NEW c \in Calls, Settle(c) \/ Fail(c)
    PROVE  \/ page' = page
           \/ /\ call[c].kind = "me" /\ call[c].stamp = 1 /\ call'[c] = Idle
              /\ page'.requestId = page.requestId /\ ~page'.loading
           \/ ~page'.loading /\ page'.requestId = page.requestId + 1
           \/ /\ call[c].kind = "logout" /\ call[c].ours
              /\ page'.loading = page.loading /\ page'.requestId = page.requestId + 1
<1>1. CASE Serve(c) \/ CommitPatch(c) \/ AnswerPatch(c)
  BY <1>1, ServeEffect, CommitEffect, AnswerPatchEffect DEF Serving
<1>2. CASE ReceiveMe(c)
  BY <1>2, ReceiveMeEffect DEF OneMe, Taking
<1>3. CASE ReceiveLogin(c) \/ ReceivePatch(c)
  BY <1>3, ReceiveLoginEffect, ReceivePatchEffect
<1>4. CASE ReceiveLogout(c)
  BY <1>4, ReceiveLogoutEffect DEF CallsInOrder
<1>5. CASE Fail(c)
  BY <1>5, FailEffect DEF OneMe
<1> QED BY <1>1, <1>2, <1>3, <1>4, <1>5 DEF Settle, Answer

LEMMA OneMeStep ==
    ASSUME TypeOK, CallsInOrder, OneMe, NEW c \in Calls, Click(c) \/ Settle(c) \/ Fail(c)
    PROVE  OneMe'
<1>1. page.requestId \in Nat /\ page.requestId >= 1 /\ page.loading \in BOOLEAN
  BY ClientAssumption DEF TypeOK
<1>2. {"me", "login", "logout", "patch"} \subseteq Kinds
  BY DEF Kinds
<1>3. CASE Click(c)
  <2>1. /\ page' = page /\ call'[c].kind \in {"login", "logout", "patch"}
        /\ call'[c].ours /\ call'[c].kind # "login" => ~page.loading
        /\ call[c] = Idle /\ \A d \in Calls : d # c => call'[d] = call[d]
    BY <1>3, ClickEffect DEF Clicking, OthersSame
  <2>2. call[c].kind # "me"
    BY <1>2, <2>1, IdleKind
  <2> QED BY <2>1, <2>2 DEF OneMe
<1>4. CASE Settle(c) \/ Fail(c)
  <2>1. ASSUME NEW d \in Calls, call'[d].kind = "me"
        PROVE  call[d].kind = "me" /\ call'[d].stamp = call[d].stamp
    BY <1>2, <1>4, <2>1, CallsAfter
  <2>2. ASSUME page'.loading
        PROVE  /\ page'.requestId = 1 /\ page'.user = None
               /\ \E d \in Calls : call'[d].kind = "me"
               /\ \A d \in Calls : call'[d].ours => call'[d].kind \in {"me", "login"}
    <3>1. page' = page /\ page.loading
      <4>1. ~(call[c].kind = "logout" /\ call[c].ours /\ page.loading)
        BY DEF OneMe
      <4> QED BY <1>1, <1>4, <2>2, <4>1, PageAfter
    <3>2. \E d \in Calls : call'[d].kind = "me"
      <4>1. PICK d \in Calls : call[d].kind = "me"
        BY <3>1 DEF OneMe
      <4>2. CASE d # c
        BY <1>4, <4>1, <4>2, CallsBeside
      <4>3. CASE d = c
        <5>1. call[c].kind = "me"
          BY <4>1, <4>3
        <5>2. call'[c].kind = "me"
          BY <1>4, <2>2, <3>1, <5>1, OwnMe
        <5> QED BY <5>2
      <4> QED BY <4>2, <4>3
    <3>3. ASSUME NEW d \in Calls, call'[d].ours PROVE call'[d].kind \in {"me", "login"}
      <4>1. call'[d].kind \in Kinds
        <5>1. call'[d] \in Call \cup {Idle}
          BY <1>4, CallsStep
        <5> QED BY <3>3, <5>1, IdleRecord DEF Call
      <4> QED BY <1>4, <3>1, <3>3, <4>1, CallsAfter DEF OneMe
    <3> QED BY <3>1, <3>2, <3>3 DEF OneMe
  <2>3. ASSUME page'.requestId = 1, NEW d \in Calls, call'[d].kind = "me"
        PROVE  page'.user = None
    <3>1. call[d].kind = "me" /\ call'[d] # Idle
      BY <1>2, <2>1, <2>3, IdleKind
    <3>2. \/ page' = page
          \/ call[c].kind = "me" /\ call'[c] = Idle
      BY <1>1, <1>4, <2>3, PageAfter
    <3> QED BY <2>3, <3>1, <3>2 DEF OneMe
  <2> QED BY <2>1, <2>2, <2>3 DEF OneMe
<1> QED BY <1>3, <1>4


\* The cookie and the doubts after a step that sends nothing.
LEMMA CookieAfter ==
    ASSUME TypeOK, CallsInOrder, NEW c \in Calls, Settle(c) \/ Fail(c)
    PROVE  \/ cookie' = cookie /\ ("lapsed" \in doubt => "lapsed" \in doubt')
           \/ Answer(c) /\ page'.requestId = page.requestId + 1
<1>1. CASE Serve(c) \/ CommitPatch(c) \/ AnswerPatch(c)
  BY <1>1, AnswerPatchEffect DEF Serve, CommitPatch, Advance
<1>2. CASE ReceiveMe(c) \/ Fail(c)
  BY <1>2, ReceiveMeEffect, FailEffect
<1>3. CASE ReceiveLogin(c)
  BY <1>3, ReceiveLoginEffect DEF Answer
<1>4. CASE ReceiveLogout(c)
  BY <1>4, ReceiveLogoutEffect DEF Answer
<1>5. CASE ReceivePatch(c)
  <2>1. page'.requestId = page.requestId + 1
    BY <1>5, ReceivePatchEffect
  <2> QED BY <1>5, <2>1 DEF Answer
<1> QED BY <1>1, <1>2, <1>3, <1>4, <1>5 DEF Settle, Answer

LEMMA AskedStep ==
    ASSUME TypeOK, CallsInOrder, OneMe, AskedAsCookie,
           NEW c \in Calls, Click(c) \/ Settle(c) \/ Fail(c)
    PROVE  AskedAsCookie'
<1>1. page.requestId \in Nat /\ page.requestId >= 1
  BY ClientAssumption DEF TypeOK
<1>2. {"me", "patch"} \subseteq Kinds
  BY DEF Kinds
<1>3. CASE Click(c)
  <2>1. /\ UNCHANGED <<cookie, page, doubt>> /\ call'[c].kind \in {"login", "logout", "patch"}
        /\ call'[c].kind = "patch" /\ call'[c].ours => call'[c].as = cookie
        /\ \A d \in Calls : d # c => call'[d] = call[d]
    BY <1>3, ClickEffect DEF Clicking, OthersSame
  <2> QED BY <2>1 DEF AskedAsCookie
<1>4. CASE Settle(c) \/ Fail(c)
  <2>1. SUFFICES ASSUME "lapsed" \notin doubt', NEW d \in Calls, call'[d].kind \in {"me", "patch"},
                        call'[d].kind = "me" => page'.requestId = 1,
                        call'[d].kind = "patch" => call'[d].ours /\ ~call'[d].crossed
                 PROVE  call'[d].as = cookie'
    BY DEF AskedAsCookie
  <2>2. /\ call'[d].kind = call[d].kind /\ call'[d].as = call[d].as
        /\ call'[d].ours => call[d].ours
        /\ ~call'[d].crossed => ~call[d].crossed
        /\ Answer(c) => ~(call[d].ours /\ call[d].kind \in {"login", "patch"}
                          /\ ~call'[d].crossed)
    BY <1>2, <1>4, <2>1, CallsAfter
  <2>3. cookie' = cookie /\ "lapsed" \notin doubt
    BY <1>1, <1>4, <2>1, <2>2, CookieAfter
  <2>4. call[d].kind = "me" => page.requestId = 1
    <3>1. page'.requestId >= page.requestId
      BY <1>4, RestType
    <3> QED BY <1>1, <2>1, <2>2, <3>1
  <2> QED BY <2>1, <2>2, <2>3, <2>4 DEF AskedAsCookie
<1> QED BY <1>3, <1>4

LEMMA ShownStep ==
    ASSUME TypeOK, CallsInOrder, OneMe, OneMe', AskedAsCookie, ShownIsSignedIn,
           NEW c \in Calls, Click(c) \/ Settle(c) \/ Fail(c)
    PROVE  ShownIsSignedIn'
<1>1. page'.loading => \E d \in Calls : call'[d].kind = "me" /\ call'[d].stamp = page'.requestId
  BY DEF OneMe
<1>2. SUFFICES ASSUME ~page'.loading, doubt' = {}
               PROVE  cookie' = IF page'.user = None THEN None ELSE page'.user.id
  BY <1>1 DEF ShownIsSignedIn
<1>3. ASSUME UNCHANGED <<cookie, page, doubt>>
      PROVE  cookie' = IF page'.user = None THEN None ELSE page'.user.id
  BY <1>2, <1>3 DEF ShownIsSignedIn
<1>4. call[c].pc = "answered" /\ call[c].kind # "logout" =>
         call[c].answer # None /\ call[c].answer.id = call[c].as /\ call[c].as \in Users
  <2>1. ASSUME call[c].pc = "answered", call[c].kind # "logout"
        PROVE  call[c].answer # None /\ call[c].answer.id = call[c].as /\ call[c].as \in Users
    <3>1. call[c].answer # None /\ call[c].answer.id = call[c].as /\ call[c] \in Call
      BY <2>1, Busy DEF TypeOK
    <3>2. call[c].answer \in Profile
      BY <3>1 DEF Call
    <3> QED BY <3>1, <3>2 DEF Profile
  <2> QED BY <2>1
<1>5. CASE Click(c)
  BY <1>3, <1>5, ClickEffect DEF Clicking
<1>6. CASE Serve(c) \/ CommitPatch(c) \/ AnswerPatch(c)
  BY <1>3, <1>6, AnswerPatchEffect DEF Serve, CommitPatch, Advance
<1>7. CASE ReceiveMe(c)
  <2>1. CASE page.requestId = call[c].stamp
    <3>1. call[c].kind = "me" /\ page.requestId = 1 /\ doubt = {} /\ cookie' = cookie
      BY <1>2, <1>7, <2>1, ReceiveMeEffect DEF OneMe
    <3>2. call[c].as = cookie
      BY <3>1 DEF AskedAsCookie
    <3>3. CASE call[c].pc = "answered" /\ page'.user = call[c].answer
      BY <1>4, <3>1, <3>2, <3>3
    <3>4. CASE call[c].pc = "refused" /\ page'.user = None
      BY <3>1, <3>2, <3>4 DEF CallsInOrder
    <3> QED BY <1>7, <2>1, <3>3, <3>4, ReceiveMeEffect
  <2>2. CASE page.requestId # call[c].stamp
    BY <1>3, <1>7, <2>2, ReceiveMeEffect
  <2> QED BY <2>1, <2>2
<1>8. CASE ReceiveLogin(c)
  BY <1>4, <1>8, ReceiveLoginEffect
<1>9. CASE ReceiveLogout(c)
  BY <1>9, ReceiveLogoutEffect
<1>10. CASE ReceivePatch(c)
  <2>1. call[c].kind = "patch" /\ call[c].pc = "answered" /\ call[c].ours /\ cookie' = cookie
    BY <1>10, ReceivePatchEffect DEF CallsInOrder
  <2>2. ~call[c].crossed /\ "lapsed" \notin doubt
    BY <1>2, <1>10, ReceivePatchEffect
  <2>3. call[c].as = cookie
    BY <2>1, <2>2 DEF AskedAsCookie
  <2> QED BY <1>4, <1>10, <2>1, <2>3, ReceivePatchEffect
<1>11. CASE Fail(c)
  BY <1>2, <1>3, <1>11, FailEffect
<1> QED BY <1>5, <1>6, <1>7, <1>8, <1>9, <1>10, <1>11 DEF Settle, Answer

-----------------------------------------------------------------------------
(* StudentHasTrack is preserved.                                           *)

LEMMA StudentStep ==
    ASSUME TypeOK, CallsInOrder, StudentHasTrack,
           NEW c \in Calls, Click(c) \/ Settle(c) \/ Fail(c)
    PROVE  StudentHasTrack'
<1>1. CASE UNCHANGED <<account, raced>>
  BY <1>1 DEF StudentHasTrack
<1>2. CASE CommitPatch(c)
  <2>1. ASSUME NEW u \in Users \ raced', account'[u].student
        PROVE  account'[u].track
    <3>1. u \notin raced
      BY <1>2, <2>1, CommitEffect
    <3>2. CASE u = call[c].as
      <4>1. call[c].base = account[call[c].as]
        BY <1>2, <2>1, <3>2, CommitEffect
      <4> QED BY <1>2, <2>1, <3>2, <4>1, CommitEffect
    <3>3. CASE u # call[c].as
      BY <1>2, <2>1, <3>1, <3>3, CommitEffect DEF StudentHasTrack
    <3> QED BY <3>2, <3>3
  <2> QED BY <2>1 DEF StudentHasTrack
<1>3. CommitPatch(c) \/ UNCHANGED <<account, raced>>
  BY ClickEffect, ServeEffect, AnswerPatchEffect, ReceiveMeEffect, ReceiveLoginEffect,
     ReceiveLogoutEffect, ReceivePatchEffect, FailEffect DEF Clicking, Settle, Answer
<1> QED BY <1>1, <1>2, <1>3

-----------------------------------------------------------------------------
(* AnswersNewer is preserved.                                              *)

LEMMA AnswersNewerStep ==
    ASSUME TypeOK, CallsInOrder, AnswersNewer,
           NEW c \in Calls, Click(c) \/ Settle(c) \/ Fail(c)
    PROVE  AnswersNewer'
<1>1. /\ \A u \in Users : account[u].version \in Nat
      /\ page.user \in Profile \cup {None}
      /\ \A d \in Calls : call[d].answer \in Profile \cup {None}
  <2>1. \A d \in Calls : call[d].answer \in Profile \cup {None}
    BY IdleOrCall DEF Call
  <2>2. \A u \in Users : account[u].version \in Nat
    BY ClientAssumption DEF TypeOK, Row
  <2> QED BY <2>1, <2>2 DEF TypeOK
<1>2. \A profile \in Profile : profile.id \in Users /\ Version(profile) \in Nat
  BY ClientAssumption DEF Profile, Row, Version
<1>3. Idle.answer = None
  BY IdleRecord
<1>4. CASE Click(c)
  <2>1. /\ UNCHANGED <<account, page>> /\ call'[c].answer = None
        /\ \A d \in Calls : d # c => call'[d] = call[d]
    BY <1>4, ClickEffect DEF Clicking, OthersSame
  <2> QED BY <2>1 DEF AnswersNewer, Version
<1>5. CASE Serve(c)
  <2>1. /\ UNCHANGED <<account, page>> /\ call'[c].kind = call[c].kind
        /\ call'[c].crossed = call[c].crossed
        /\ \A d \in Calls : d # c => call'[d] = call[d]
    BY <1>5, ServeEffect DEF Serving, OthersSame
  <2>2. \/ call'[c].answer = call[c].answer
        \/ call[c].as \in Users /\ call'[c].answer = Known(call[c].as)
    BY <1>5, ServeEffect
  <2>3. CASE call'[c].answer = call[c].answer
    BY <2>1, <2>3 DEF AnswersNewer, Version
  <2>4. CASE call[c].as \in Users /\ call'[c].answer = Known(call[c].as)
    <3>1. /\ call'[c].answer.id = call[c].as
          /\ call'[c].answer.row.version = account[call[c].as].version
      BY <2>4, KnownProfile DEF Version
    <3> QED BY <1>1, <2>1, <2>4, <3>1 DEF AnswersNewer, Version
  <2> QED BY <2>2, <2>3, <2>4
<1>6. CASE CommitPatch(c)
  <2>1. /\ page' = page /\ call'[c].kind = call[c].kind
        /\ call'[c].crossed = call[c].crossed /\ call'[c].answer = call[c].answer
        /\ \A d \in Calls : d # c => call'[d] = call[d]
    BY <1>6, CommitEffect DEF Serving, OthersSame
  <2>2. \A u \in Users : account'[u].version \in Nat /\ account[u].version <= account'[u].version
    <3>1. /\ \A u \in Users \ {call[c].as} : account'[u] = account[u]
          /\ call[c].as \in Users
          /\ account'[call[c].as].version = account[call[c].as].version + 1
      BY <1>6, CommitEffect
    <3> QED BY <1>1, <3>1
  <2>3. page'.user # None => page'.user.row.version <= account'[page'.user.id].version
    BY <1>1, <1>2, <2>1, <2>2 DEF AnswersNewer, Version
  <2>4. ASSUME NEW d \in Calls, call'[d].answer # None
        PROVE  /\ call'[d].answer.row.version <= account'[call'[d].answer.id].version
               /\ page'.user # None /\ call'[d].kind \in {"login", "patch"} /\ ~call'[d].crossed
                  /\ page'.user.id = call'[d].answer.id
                     => page'.user.row.version <= call'[d].answer.row.version
    <3>1. /\ call'[d].answer = call[d].answer /\ call'[d].kind = call[d].kind
          /\ call'[d].crossed = call[d].crossed
      BY <2>1
    <3>2. call[d].answer.row.version <= account[call[d].answer.id].version
      BY <2>4, <3>1 DEF AnswersNewer, Version
    <3>3. call[d].answer.row.version <= account'[call[d].answer.id].version
      BY <1>1, <1>2, <2>2, <2>4, <3>1, <3>2 DEF Version
    <3> QED BY <2>1, <2>4, <3>1, <3>3 DEF AnswersNewer, Version
  <2> QED BY <2>3, <2>4 DEF AnswersNewer, Version
<1>7. CASE AnswerPatch(c)
  <2>1. /\ UNCHANGED <<account, page>> /\ call[c].as \in Users
        /\ \A d \in Calls : d # c => call'[d] = call[d]
        /\ call'[c].answer \in {None, Known(call[c].as)}
    BY <1>3, <1>7, AnswerPatchEffect DEF OthersSame
  <2>2. /\ Known(call[c].as).id = call[c].as
        /\ Known(call[c].as).row.version = account[call[c].as].version
    BY <2>1, KnownProfile DEF Version
  <2> QED BY <1>1, <2>1, <2>2 DEF AnswersNewer, Version
<1>8. ASSUME Taking(c), account' = account,
             \/ page'.user \in {page.user, None}
             \/ call[c].pc = "answered" /\ page'.user = call[c].answer
      PROVE  AnswersNewer'
  <2>1. page'.user # None => page'.user.row.version <= account'[page'.user.id].version
    BY <1>8 DEF AnswersNewer, Version
  <2>2. ASSUME NEW d \in Calls, call'[d].answer # None
        PROVE  /\ call'[d].answer.row.version <= account'[call'[d].answer.id].version
               /\ ~(call'[d].kind \in {"login", "patch"} /\ ~call'[d].crossed)
    <3>1. d # c /\ call'[d].answer = call[d].answer /\ call'[d].kind = call[d].kind
      BY <1>3, <1>8, <2>2 DEF Taking
    <3>2. call[d].ours
      BY <2>2, <3>1 DEF CallsInOrder
    <3> QED BY <1>8, <2>2, <3>1, <3>2 DEF Taking, AnswersNewer, Version
  <2> QED BY <2>1, <2>2 DEF AnswersNewer, Version
<1>9. CASE ReceiveMe(c)
  BY <1>8, <1>9, ReceiveMeEffect
<1>10. CASE ReceiveLogin(c)
  BY <1>8, <1>10, ReceiveLoginEffect
<1>11. CASE ReceiveLogout(c)
  BY <1>8, <1>11, ReceiveLogoutEffect
<1>12. CASE ReceivePatch(c)
  <2>1. page'.user = call[c].answer
    BY <1>12, ReceivePatchEffect
  <2> QED BY <1>8, <1>12, <2>1, ReceivePatchEffect
<1>13. CASE Fail(c)
  <2>1. /\ account' = account /\ page'.user = page.user
        /\ \A d \in Calls : d # c => call'[d] = call[d]
    BY <1>13, FailEffect DEF OthersSame
  <2>2. call'[c].answer # None => /\ call'[c].answer = call[c].answer
                                  /\ call'[c].kind = call[c].kind
                                  /\ call'[c].crossed = call[c].crossed
    BY <1>3, <1>13, FailEffect
  <2> QED BY <2>1, <2>2 DEF AnswersNewer, Version
<1> QED BY <1>4, <1>5, <1>6, <1>7, <1>9, <1>10, <1>11, <1>12, <1>13 DEF Settle, Answer

-----------------------------------------------------------------------------
(* The invariant holds, and the theorems follow.                           *)

LEMMA InitIInv == Init => IInv
<1> SUFFICES ASSUME Init PROVE IInv
  OBVIOUS
<1> DEFINE me == [Sent("me", cookie) EXCEPT !.stamp = 1]
<1>1. /\ cookie \in Users \cup {None}
      /\ page = [user |-> None, loading |-> TRUE, requestId |-> 1]
      /\ clicks = 0 /\ updates = 0 /\ doubt = {} /\ raced = {}
      /\ account \in [Users -> {[student |-> s, track |-> s, version |-> 0] : s \in BOOLEAN}]
  BY DEF Init
<1>2. PICK first \in Calls : call = [c \in Calls |-> IF c = first THEN me ELSE Idle]
  BY DEF Init
<1>3. /\ me \in Call /\ me.kind = "me" /\ me.pc = "sent" /\ me.ours /\ ~me.crossed
      /\ me.as = cookie /\ me.answer = None /\ me.stamp = 1
  <2> DEFINE old == Sent("me", cookie)
  <2>1. /\ old \in Call /\ old.kind = "me" /\ old.pc = "sent" /\ old.ours /\ ~old.crossed
        /\ old.as = cookie /\ old.answer = None
    BY <1>1, SentRecord DEF Kinds
  <2>2. 1 \in 0 .. ClickBound + 1
    BY ClientAssumption
  <2>3. me = [old EXCEPT !.stamp = 1]
    OBVIOUS
  <2> HIDE DEF old, me
  <2> QED BY <2>1, <2>2, <2>3 DEF Call
<1> HIDE DEF me
<1>4. /\ Idle.kind \notin Kinds /\ Idle.pc = "idle" /\ ~Idle.ours /\ Idle.answer = None
  BY IdleKind, IdleRecord
<1>5. \A c \in Calls : call[c] = IF c = first THEN me ELSE Idle
  BY <1>2
<1>6. page.user = None /\ page.loading /\ page.requestId = 1
  BY <1>1
<1>7. /\ account \in [Users -> Row]
      /\ \A u \in Users : account[u].version = 0 /\ (account[u].student => account[u].track)
  <2>1. ASSUME NEW u \in Users
        PROVE  /\ account[u] \in Row /\ account[u].version = 0
               /\ account[u].student => account[u].track
    <3>1. PICK s \in BOOLEAN : account[u] = [student |-> s, track |-> s, version |-> 0]
      BY <1>1
    <3> QED BY <3>1, ClientAssumption DEF Row
  <2> QED BY <1>1, <2>1
<1>8. TypeOK
  <2>1. page \in [user : Profile \cup {None}, loading : BOOLEAN, requestId : 1 .. ClickBound + 1]
    BY <1>1, ClientAssumption
  <2>2. call \in [Calls -> Call \cup {Idle}]
    BY <1>2, <1>3
  <2>3. clicks \in 0 .. ClickBound /\ updates \in 0 .. UpdateBound
    BY <1>1, ClientAssumption
  <2> QED BY <1>1, <1>3, <1>4, <1>5, <1>7, <2>1, <2>2, <2>3 DEF TypeOK
<1>9. RequestsCounted
  <2>1. Clicked = {}
    BY <1>3, <1>4, <1>5 DEF Clicked, Kinds
  <2>2. IsFiniteSet(Clicked) /\ Cardinality(Clicked) = 0
    BY <2>1, FS_EmptySet
  <2> QED BY <1>1, <1>6, <2>2 DEF RequestsCounted
<1>10. VersionsCounted
  <2>1. ASSUME NEW u \in Users
        PROVE  /\ IsFiniteSet(Pending(u))
               /\ account[u].version + Cardinality(Pending(u)) <= updates
    <3>1. Pending(u) = {}
      BY <1>3, <1>4, <1>5 DEF Pending, Kinds
    <3>2. IsFiniteSet(Pending(u)) /\ Cardinality(Pending(u)) = 0
      BY <3>1, FS_EmptySet
    <3> QED BY <1>1, <1>7, <3>2
  <2> QED BY <2>1 DEF VersionsCounted
<1>11. CallsInOrder
  BY <1>3, <1>4, <1>5 DEF CallsInOrder, Kinds
<1>12. OneMe
  BY <1>3, <1>4, <1>5, <1>6 DEF OneMe, Kinds
<1>13. AskedAsCookie
  BY <1>3, <1>4, <1>5 DEF AskedAsCookie, Kinds
<1>14. ShownIsSignedIn
  BY <1>3, <1>5, <1>6 DEF ShownIsSignedIn
<1>15. AnswersNewer
  BY <1>3, <1>4, <1>5, <1>6 DEF AnswersNewer
<1>16. StudentHasTrack
  BY <1>7 DEF StudentHasTrack
<1> QED BY <1>8, <1>9, <1>10, <1>11, <1>12, <1>13, <1>14, <1>15, <1>16 DEF IInv

\* The cookie runs out, or nothing changes.
LEMMA LapseIInv ==
    ASSUME IInv, Lapse \/ UNCHANGED vars
    PROVE  IInv'
<1>1. /\ UNCHANGED <<account, page, call, clicks, updates, raced>>
      /\ \/ cookie' = None /\ doubt' = doubt \cup {"lapsed"}
         \/ UNCHANGED <<cookie, doubt>>
  BY DEF Lapse, vars
<1>2. TypeOK'
  BY <1>1 DEF IInv, TypeOK
<1>3. RequestsCounted' /\ VersionsCounted'
  BY <1>1 DEF IInv, RequestsCounted, VersionsCounted, Clicked, Pending
<1>4. CallsInOrder' /\ OneMe'
  BY <1>1 DEF IInv, CallsInOrder, OneMe
<1>5. AskedAsCookie' /\ ShownIsSignedIn'
  BY <1>1 DEF IInv, AskedAsCookie, ShownIsSignedIn
<1>6. AnswersNewer' /\ StudentHasTrack'
  BY <1>1 DEF IInv, AnswersNewer, StudentHasTrack, Version
<1> QED BY <1>2, <1>3, <1>4, <1>5, <1>6 DEF IInv

LEMMA NextIInv == IInv /\ [Next]_vars => IInv'
<1> SUFFICES ASSUME IInv, [Next]_vars PROVE IInv'
  OBVIOUS
<1>1. ASSUME NEW c \in Calls, Click(c) \/ Settle(c) \/ Fail(c) PROVE IInv'
  <2>1. TypeOK' /\ CallsInOrder'
    BY <1>1, TypeStep DEF IInv
  <2>2. RequestsCounted' /\ VersionsCounted'
    BY <1>1, RequestsStep, VersionsStep DEF IInv
  <2>3. OneMe'
    BY <1>1, OneMeStep DEF IInv
  <2>4. AskedAsCookie'
    BY <1>1, AskedStep DEF IInv
  <2>5. ShownIsSignedIn'
    BY <1>1, <2>3, ShownStep DEF IInv
  <2>6. AnswersNewer' /\ StudentHasTrack'
    BY <1>1, AnswersNewerStep, StudentStep DEF IInv
  <2> QED BY <2>1, <2>2, <2>3, <2>4, <2>5, <2>6 DEF IInv
<1> QED BY <1>1, LapseIInv DEF Next

LEMMA Inductive == Spec => []IInv
BY InitIInv, NextIInv, PTL DEF Spec

\* The tab, the cookie, the requests and the rows keep their types, and a request that
\* has been answered has the profile of the user it was asked as
\* (AuthContext.tsx:32, auth_service.py:89).
THEOREM ClientTypeOK == Spec => []TypeOK
<1>1. IInv => TypeOK
  BY DEF IInv
<1> QED BY <1>1, Inductive, PTL

\* The tab shows the user its requests are made as, in whatever order the answers of
\* /me, login, logout and the opt-in come back; unless the cookie ran out, the /me of
\* the start failed, or an overtaken PATCH was shown (AuthContext.tsx:45).
THEOREM ClientShowsWhoIsSignedIn == Spec => []ShownIsSignedIn
<1>1. IInv => ShownIsSignedIn
  BY DEF IInv
<1> QED BY <1>1, Inductive, PTL

\* A student has an exam track (auth_service.py:105), whatever fields the PATCHes of
\* the tab and of other devices set, unless two of them overlapped.
THEOREM ClientStudentHasTrack == Spec => []StudentHasTrack
<1>1. IInv => StudentHasTrack
  BY DEF IInv
<1> QED BY <1>1, Inductive, PTL

LEMMA NeverOlderStep ==
    ASSUME IInv, NEW c \in Calls, Answer(c), ~call[c].crossed,
           page.user # None, page'.user # None, page.user.id = page'.user.id
    PROVE  page'.user.row.version >= page.user.row.version
<1>1. /\ page.user.row.version \in Nat
      /\ call[c].answer # None => call[c].answer.row.version \in Nat
  <2>1. page.user \in Profile
    BY DEF IInv, TypeOK
  <2>2. call[c].answer # None => call[c].answer \in Profile
    BY IdleOrCall DEF IInv, Call
  <2> QED BY <2>1, <2>2, ClientAssumption DEF Profile, Row
<1>2. CASE page'.user = page.user
  BY <1>1, <1>2
<1>3. CASE page'.user = call[c].answer /\ call[c].kind \in {"login", "patch"}
  <2>1. Version(page.user) <= Version(call[c].answer)
    BY <1>3 DEF IInv, AnswersNewer
  <2> QED BY <1>1, <1>3, <2>1 DEF Version
<1>4. CASE ReceiveMe(c)
  <2>1. page.requestId # call[c].stamp
    BY <1>4, ReceiveMeEffect DEF IInv, OneMe
  <2> QED BY <1>2, <1>4, <2>1, ReceiveMeEffect DEF IInv
<1>5. CASE ReceiveLogin(c)
  BY <1>3, <1>5, ReceiveLoginEffect DEF IInv
<1>6. CASE ReceivePatch(c)
  <2>1. page'.user = call[c].answer /\ call[c].kind = "patch"
    BY <1>6, ReceivePatchEffect DEF IInv
  <2> QED BY <1>3, <2>1
<1>7. ~ReceiveLogout(c)
  BY ReceiveLogoutEffect DEF IInv
<1> QED BY <1>4, <1>5, <1>6, <1>7 DEF Answer

\* "so it can't clobber this update with an older response" (AuthContext.tsx:45): an
\* answer that no other overtook never replaces the profile shown by an older one of
\* the same user.
THEOREM ClientNeverOlder == Spec => NeverOlder
<1>1. ASSUME IInv, NEW c \in Calls
      PROVE  Answer(c) /\ ~call[c].crossed
             /\ page.user # None /\ page'.user # None /\ page.user.id = page'.user.id
             => page'.user.row.version >= page.user.row.version
  BY <1>1, NeverOlderStep
<1>2. IInv /\ [Next]_vars =>
        [\A c \in Calls :
          /\ Answer(c) /\ ~call[c].crossed
          /\ page.user # None /\ page'.user # None /\ page.user.id = page'.user.id
          => page'.user.row.version >= page.user.row.version]_vars
  BY <1>1
<1> QED BY <1>2, Inductive, PTL DEF Spec, NeverOlder
=============================================================================
