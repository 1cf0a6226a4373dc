----------------------------- MODULE AuthProofs -----------------------------
(***************************************************************************)
(* The proofs about accounts.  Of Sessions, for any users, devices,        *)
(* requests in flight and number of tokens: the variables keep their       *)
(* types, a sign-out leaves no token of its sessions alive, rotation does  *)
(* not fork a session unless it raced with itself, and a device that       *)
(* nothing has disturbed is never taken for a replay.  Of LoginAdmission,  *)
(* for any clients, emails, requests in flight, limits, windows and caps:  *)
(* the dicts stay within their caps, the windows hold wherever they are    *)
(* placed, Retry-After is long enough, and a client is forgotten only in a *)
(* crowd.                                                                  *)
(***************************************************************************)
EXTENDS Sessions, LoginAdmission, FiniteSetTheorems, SequenceTheorems,
        WellFoundedInduction, TLAPS

-----------------------------------------------------------------------------
(* Sessions: the inductive invariant.                                      *)

\* The tokens that a session goes back to.
Roots == {k \in Issued : token[k].session = k}

\* A session is the number of such a token, which belongs to the same user.
Rooted ==
    /\ \A i \in Issued : /\ token[i].session \in Roots
                         /\ token[token[i].session].user = token[i].user
    /\ ended \subseteq Roots
    /\ \A r \in Requests : request[r].sessions \subseteq Roots

\* A rotation that no sign-out has overtaken, and the session it goes on with.
InTime(r)    == request[r].pc = "rotate" /\ ~request[r].raced
SessionOf(r) == token[request[r].id].session

\* Its session has not ended; unless it is forked, no other rotation and no other
\* live token is in it.
RotationsInTime ==
    \A r \in Requests : InTime(r) =>
        /\ SessionOf(r) \notin ended
        /\ SessionOf(r) \notin forked =>
              /\ \A j \in Live : token[j].session = SessionOf(r) => j = request[r].id
              /\ \A q \in Requests : InTime(q) /\ SessionOf(q) = SessionOf(r) => q = r

\* A token that a sweep will miss is newer than the sessions it is to end.
SweepsMissNewOnly ==
    \A r \in Requests : request[r].pc = "sweep" =>
        \A i \in Live \ request[r].targets : i \notin request[r].sessions

\* No two devices have a token in common, in a cookie or in a request.
TokensOfOneDevice ==
    /\ \A c, d \in Devices : cookie[c] = cookie[d] /\ cookie[c] # None => c = d
    /\ \A r \in Requests, d \in Devices :
          request[r].id # None /\ request[r].id = cookie[d] => request[r].device = d
    /\ \A q, r \in Requests :
          request[q].id # None /\ request[q].id = request[r].id
             => request[q].device = request[r].device

\* A device has one request at most, and the token that it presents, or will hold
\* after the answer, is alive.
AliveOn(d) ==
    /\ \A q, r \in InFlight(d) : q = r
    /\ (\A r \in InFlight(d) : request[r].pc \in {"register", "lookup", "error"})
          => cookie[d] \in Live \cup {None}
    /\ \A r \in InFlight(d) :
          request[r].pc \in {"lookup", "cookies"} => request[r].id \in Live

UndisturbedAlive == \A d \in Devices \ disturbed : AliveOn(d)

IInv ==
    /\ TypeOK
    /\ Rooted
    /\ SignOutEndsSessions /\ OneLiveTokenPerSession /\ RotationsInTime
    /\ SweepsMissNewOnly
    /\ TokensOfOneDevice /\ UndisturbedAlive /\ ReuseMeansDisturbance

-----------------------------------------------------------------------------
(* Types.                                                                  *)

\* The number of a new token is one that no token has.
LEMMA NextIsFresh ==
    ASSUME TypeOK, NextId \in Ids
    PROVE  /\ NextId \notin Issued /\ token[NextId] = None
           /\ \E n \in 0 .. TokenBound : Issued \cup {NextId} = 1 .. n
<1>1. PICK n \in 0 .. TokenBound : Issued = 1 .. n
  BY DEF TypeOK
<1>2. n \in Nat /\ 1 \in Int /\ n \in Int
  BY <1>1, SessionAssumption
<1>3. Cardinality(Issued) = n
  <2>1. Cardinality(1 .. n) = IF 1 > n THEN 0 ELSE n - 1 + 1
    BY <1>2, FS_Interval
  <2> QED BY <1>1, <1>2, <2>1
<1>4. NextId = n + 1
  BY <1>3 DEF NextId
<1>5. NextId \notin Issued
  BY <1>1, <1>2, <1>4
<1>6. token[NextId] = None
  BY <1>5 DEF Issued
<1>7. Issued \cup {NextId} = 1 .. n + 1 /\ n + 1 \in 0 .. TokenBound
  BY <1>1, <1>2, <1>4, SessionAssumption DEF Ids
<1> QED BY <1>5, <1>6, <1>7

LEMMA NewTokenType ==
    ASSUME NEW u \in Users, NEW s \in Ids
    PROVE  /\ NewToken(u, s) \in Token /\ NewToken(u, s) # None
           /\ NewToken(u, s).user = u /\ NewToken(u, s).session = s
           /\ ~NewToken(u, s).revoked
<1>1. NewToken(u, s) \in [user : Users, revoked : BOOLEAN, session : Nat]
  BY DEF NewToken, Ids
<1>2. NewToken(u, s) # None
  BY <1>1, SessionAssumption
<1> QED BY <1>2 DEF NewToken, Token

LEMMA NotNone ==
    ASSUME NEW t \in Token
    PROVE  t # None
<1>1. Ids \subseteq Nat
  BY DEF Ids
<1>2. Token \subseteq [user : Users, revoked : BOOLEAN, session : Nat]
  BY <1>1 DEF Token
<1> QED BY <1>2, SessionAssumption

\* What an assignment to one request has to meet.
Fits(new, issued) ==
    /\ new \in Request \cup {Idle}
    /\ new.id \in issued \cup {None} /\ new.targets \subseteq issued
    /\ new.pc \in {"lookup", "rotate", "revoke", "cookies"} => new.id # None
    /\ new.pc \in {"register", "issue"} => new.user # None

LEMMA IdleRecord ==
    /\ Idle \in [pc : {"idle"}, kind : {None}, device : {None}, user : {None}, id : {None},
                 targets : {{}}, raced : BOOLEAN, sessions : {{}}]
    /\ ~Idle.raced
BY DEF Idle

\* A request that begins.
Begun(kind, d, pc, u, i) ==
    [Idle EXCEPT !.pc = pc, !.kind = kind, !.device = d, !.user = u, !.id = i]

LEMMA BegunRecord ==
    ASSUME NEW kind, NEW d, NEW pc, NEW u, NEW i
    PROVE  /\ Begun(kind, d, pc, u, i) \in
                 [pc : {pc}, kind : {kind}, device : {d}, user : {u}, id : {i},
                  targets : {{}}, raced : BOOLEAN, sessions : {{}}]
           /\ ~Begun(kind, d, pc, u, i).raced
BY IdleRecord DEF Begun

LEMMA BegunFits ==
    ASSUME TypeOK, NEW kind \in Kinds, NEW d \in Devices,
           NEW pc \in {"register", "issue", "lookup", "collect", "clear", "error"},
           NEW u \in Users \cup {None}, NEW i \in Issued \cup {None},
           pc = "lookup" => i # None, pc \in {"register", "issue"} => u # None
    PROVE  Fits(Begun(kind, d, pc, u, i), Issued) /\ Begun(kind, d, pc, u, i).device = d
<1>1. i \in Ids \cup {None} /\ u \in Users \cup {None}
  BY DEF Issued
<1>2. Begun(kind, d, pc, u, i) \in Request
  BY <1>1, BegunRecord DEF Request
<1> QED BY <1>2, BegunRecord DEF Fits

\* What a device sends.
LEMMA SentRequest ==
    ASSUME NEW r, NEW d, NEW u
    PROVE  /\ Signup(r, d, u) =>
                 Send(r, Begun("signup", d, IF u \in accounts THEN "error" ELSE "register", u, None))
           /\ Login(r, d, u) => Send(r, Begun("login", d, "issue", u, None))
           /\ Refresh(r, d) => Send(r, Begun("refresh", d, "lookup", None, cookie[d]))
           /\ Logout(r, d) =>
                 Send(r, Begun("logout", d, IF cookie[d] = None THEN "clear" ELSE "lookup",
                               None, cookie[d]))
           /\ LogoutAll(r, d) =>
                 Send(r, Begun("logout_all", d, "collect", token[cookie[d]].user, None))
<1>1. ASSUME NEW kind, NEW pc, NEW i
      PROVE  /\ [Started(kind, d, pc) EXCEPT !.user = i] = Begun(kind, d, pc, i, None)
             /\ [Started(kind, d, pc) EXCEPT !.id = i] = Begun(kind, d, pc, None, i)
  BY IdleRecord DEF Started, Begun
<1> QED BY <1>1 DEF Signup, Login, Refresh, Logout, LogoutAll

LEMMA FitsIdle ==
    ASSUME NEW issued
    PROVE  Fits(Idle, issued)
BY IdleRecord DEF Fits

\* A request that is not idle.
LEMMA Busy ==
    ASSUME TypeOK, NEW r \in Requests, request[r] # Idle \/ request[r].pc # "idle"
    PROVE  request[r] \in Request /\ request[r].device \in Devices
<1>1. Idle.pc = "idle"
  BY IdleRecord
<1>2. request[r] # Idle
  BY <1>1
<1> QED BY <1>2 DEF TypeOK, Request

\* Only one request changes, and no token does.
LEMMA OneRequestType ==
    ASSUME TypeOK, NEW r \in Requests, NEW new, Fits(new, Issued),
           request' = [request EXCEPT ![r] = new], UNCHANGED token,
           accounts' \subseteq Users, cookie' \in [Devices -> Issued \cup {None}],
           ended' \subseteq Ids, forked' \subseteq Ids, disturbed' \subseteq Devices
    PROVE  TypeOK'
<1>1. Issued' = Issued
  BY DEF Issued
<1>2. new \in Request \cup {Idle}
  BY DEF Fits
<1>3. request' \in [Requests -> Request \cup {Idle}]
  BY <1>2 DEF TypeOK
<1>4. ASSUME NEW q \in Requests
      PROVE  Fits(request'[q], Issued)
  BY DEF TypeOK, Fits
<1> QED BY <1>1, <1>3, <1>4 DEF TypeOK, Fits

LEMMA SendType ==
    ASSUME TypeOK, NEW r \in Requests, NEW new, Fits(new, Issued), new.device \in Devices,
           Send(r, new)
    PROVE  TypeOK'
<1>1. disturbed' \subseteq Devices
  BY DEF Send, TypeOK
<1> QED BY <1>1, OneRequestType DEF Send, TypeOK

LEMMA DeviceStepType ==
    ASSUME TypeOK, NEW r \in Requests, NEW d \in Devices, DeviceStep(r, d)
    PROVE  TypeOK'
<1>1. cookie[d] \in Issued \cup {None}
  BY DEF TypeOK
<1>2. {"signup", "login", "refresh", "logout", "logout_all"} \subseteq Kinds
  BY DEF Kinds
<1>3. ASSUME NEW kind \in Kinds,
             NEW pc \in {"register", "issue", "lookup", "collect", "clear", "error"},
             NEW u \in Users \cup {None}, NEW i \in Issued \cup {None},
             pc = "lookup" => i # None, pc \in {"register", "issue"} => u # None,
             Send(r, Begun(kind, d, pc, u, i))
      PROVE  TypeOK'
  <2> DEFINE new == Begun(kind, d, pc, u, i)
  <2>1. Fits(new, Issued) /\ new.device \in Devices
    BY <1>3, BegunFits
  <2> HIDE DEF new
  <2> QED BY <1>3, <2>1, SendType DEF new
<1>4. ASSUME NEW u \in Users, Signup(r, d, u) PROVE TypeOK'
  <2> DEFINE pc == IF u \in accounts THEN "error" ELSE "register"
  <2>1. pc \in {"register", "error"} /\ u # None
    BY SessionAssumption
  <2>2. Send(r, Begun("signup", d, pc, u, None))
    BY <1>4, SentRequest
  <2> HIDE DEF pc
  <2> QED BY <1>2, <1>3, <2>1, <2>2
<1>5. ASSUME NEW u \in Users, Login(r, d, u) PROVE TypeOK'
  <2>1. Send(r, Begun("login", d, "issue", u, None))
    BY <1>5, SentRequest
  <2> QED BY <1>2, <1>3, <2>1, SessionAssumption
<1>6. CASE Refresh(r, d)
  <2>1. cookie[d] # None
    BY <1>6 DEF Refresh
  <2>2. Send(r, Begun("refresh", d, "lookup", None, cookie[d]))
    BY <1>6, SentRequest
  <2> QED BY <1>1, <1>2, <1>3, <2>1, <2>2
<1>7. CASE Logout(r, d)
  <2> DEFINE pc == IF cookie[d] = None THEN "clear" ELSE "lookup"
  <2>1. pc \in {"clear", "lookup"} /\ (pc = "lookup" => cookie[d] # None)
    OBVIOUS
  <2>2. Send(r, Begun("logout", d, pc, None, cookie[d]))
    BY <1>7, SentRequest
  <2> HIDE DEF pc
  <2> QED BY <1>1, <1>2, <1>3, <2>1, <2>2
<1>8. CASE LogoutAll(r, d)
  <2>1. token[cookie[d]].user \in Users
    BY <1>1, <1>8 DEF LogoutAll, Issued, TypeOK, Token
  <2>2. Send(r, Begun("logout_all", d, "collect", token[cookie[d]].user, None))
    BY <1>8, SentRequest
  <2> QED BY <1>2, <1>3, <2>1, <2>2
<1> QED BY <1>4, <1>5, <1>6, <1>7, <1>8 DEF DeviceStep

-----------------------------------------------------------------------------
(* What the handlers do to the rows.                                       *)

\* The rows with one more, under the number that comes next, and some revoked.
WithRow(row, gone) ==
    [j \in Ids |-> IF j = NextId THEN row
                   ELSE IF j \in gone THEN [token[j] EXCEPT !.revoked = TRUE]
                   ELSE token[j]]

LEMMA NewRow ==
    ASSUME TypeOK, NextId \in Ids, NEW u \in Users, NEW s \in Ids, NEW gone \in SUBSET Issued,
           token' = WithRow(NewToken(u, s), gone)
    PROVE  /\ NextId \notin Issued
           /\ token' \in [Ids -> Token \cup {None}]
           /\ Issued' = Issued \cup {NextId}
           /\ \E n \in 0 .. TokenBound : Issued' = 1 .. n
           /\ Live' = (Live \ gone) \cup {NextId}
           /\ \A j \in Issued : /\ token'[j].session = token[j].session
                                /\ token'[j].user = token[j].user
           /\ token'[NextId].session = s /\ token'[NextId].user = u
<1>1. NextId \notin Issued /\ \E n \in 0 .. TokenBound : Issued \cup {NextId} = 1 .. n
  BY NextIsFresh
<1>2. NewToken(u, s) \in Token /\ NewToken(u, s) # None
  BY NewTokenType
<1>3. ASSUME NEW j \in Issued
      PROVE  /\ token[j] \in Token /\ token[j] # None /\ j \in Ids /\ j # NextId
             /\ [token[j] EXCEPT !.revoked = TRUE] \in Token
             /\ [token[j] EXCEPT !.revoked = TRUE] # None
             /\ [token[j] EXCEPT !.revoked = TRUE].revoked
             /\ [token[j] EXCEPT !.revoked = TRUE].session = token[j].session
             /\ [token[j] EXCEPT !.revoked = TRUE].user = token[j].user
  <2>1. token[j] \in Token /\ j \in Ids /\ j # NextId /\ token[j] # None
    BY <1>1 DEF Issued, TypeOK
  <2>2. [token[j] EXCEPT !.revoked = TRUE] \in Token
    BY <2>1 DEF Token
  <2>3. [token[j] EXCEPT !.revoked = TRUE] # None
    BY <2>2, NotNone
  <2> QED BY <2>1, <2>2, <2>3 DEF Token
<1>4. token' \in [Ids -> Token \cup {None}]
  BY <1>2, <1>3 DEF TypeOK, WithRow
<1>5. ASSUME NEW j \in Ids
      PROVE  token'[j] # None <=> j \in Issued \cup {NextId}
  BY <1>2, <1>3 DEF Issued, WithRow
<1>6. Issued' = Issued \cup {NextId}
  BY <1>5 DEF Issued
<1>7. token'[NextId] = NewToken(u, s)
  BY DEF WithRow
<1>8. token'[NextId].session = s /\ token'[NextId].user = u /\ ~token'[NextId].revoked
  BY <1>7, NewTokenType
<1>9. ASSUME NEW j \in Issued
      PROVE  /\ token'[j].session = token[j].session /\ token'[j].user = token[j].user
             /\ token'[j].revoked <=> j \in gone \/ token[j].revoked
  BY <1>3 DEF WithRow
<1>10. Live' = (Live \ gone) \cup {NextId}
  BY <1>1, <1>6, <1>8, <1>9 DEF Live
<1> QED BY <1>1, <1>4, <1>6, <1>8, <1>9, <1>10

LEMMA IssueRows ==
    ASSUME TypeOK, NEW r \in Requests, Issue(r)
    PROVE  /\ NextId \in Ids /\ NextId \notin Issued
           /\ token' \in [Ids -> Token \cup {None}]
           /\ Issued' = Issued \cup {NextId}
           /\ \E n \in 0 .. TokenBound : Issued' = 1 .. n
           /\ Live' = Live \cup {NextId}
           /\ \A j \in Issued : /\ token'[j].session = token[j].session
                                /\ token'[j].user = token[j].user
           /\ token'[NextId].session = NextId
<1>1. NextId \in Ids /\ request[r].pc = "issue"
  BY DEF Issue, Step
<1>2. request[r].user \in Users
  BY <1>1, Busy DEF TypeOK, Request
<1>3. token' = WithRow(NewToken(request[r].user, NextId), {})
  BY DEF Issue, TypeOK, WithRow
<1> QED BY <1>1, <1>2, <1>3, NewRow

LEMMA RotateRows ==
    ASSUME TypeOK, Rooted, NEW r \in Requests, Rotate(r)
    PROVE  /\ NextId \in Ids /\ NextId \notin Issued
           /\ request[r].pc = "rotate" /\ request[r].id \in Issued
           /\ token' \in [Ids -> Token \cup {None}]
           /\ Issued' = Issued \cup {NextId}
           /\ \E n \in 0 .. TokenBound : Issued' = 1 .. n
           /\ Live' = (Live \ {request[r].id}) \cup {NextId}
           /\ \A j \in Issued : /\ token'[j].session = token[j].session
                                /\ token'[j].user = token[j].user
           /\ token'[NextId].user = token[request[r].id].user
           /\ token'[NextId].session = IF request[r].raced THEN NextId ELSE SessionOf(r)
<1> DEFINE i == request[r].id
           s == IF request[r].raced THEN NextId ELSE SessionOf(r)
<1>1. NextId \in Ids /\ request[r].pc = "rotate"
  BY DEF Rotate, Step
<1>2. i \in Issued
  BY <1>1 DEF TypeOK
<1>3. NextId \notin Issued
  BY <1>1, NextIsFresh
<1>4. token[i].user \in Users /\ s \in Ids
  BY <1>1, <1>2 DEF TypeOK, Issued, Token, SessionOf
<1>5. token' = WithRow(NewToken(token[i].user, s), {i})
  BY <1>2, <1>3 DEF Rotate, TypeOK, SessionOf, WithRow
<1>6. {i} \in SUBSET Issued
  BY <1>2
<1> HIDE DEF s
<1>7. /\ token' \in [Ids -> Token \cup {None}] /\ Issued' = Issued \cup {NextId}
      /\ \E n \in 0 .. TokenBound : Issued' = 1 .. n
      /\ Live' = (Live \ {i}) \cup {NextId}
      /\ \A j \in Issued : /\ token'[j].session = token[j].session
                           /\ token'[j].user = token[j].user
      /\ token'[NextId].session = s /\ token'[NextId].user = token[i].user
  BY <1>1, <1>4, <1>5, <1>6, NewRow
<1> QED BY <1>1, <1>2, <1>3, <1>7 DEF s


LEMMA RevokeRows ==
    ASSUME TypeOK, NEW r \in Requests, Revoke(r)
    PROVE  /\ request[r].pc = "revoke" /\ request[r].id \in Issued
           /\ token' \in [Ids -> Token \cup {None}]
           /\ Issued' = Issued /\ Live' = Live \ {request[r].id}
           /\ \A j \in Issued : /\ token'[j].session = token[j].session
                                /\ token'[j].user = token[j].user
<1> DEFINE i == request[r].id
<1>1. request[r].pc = "revoke" /\ token' = [token EXCEPT ![i].revoked = TRUE]
  BY DEF Revoke
<1>2. i \in Issued
  BY <1>1 DEF TypeOK
<1>3. i \in Ids /\ token[i] \in Token /\ token[i] # None
  BY <1>2 DEF Issued, TypeOK
<1> HIDE DEF i
<1>4. /\ token'[i] = [token[i] EXCEPT !.revoked = TRUE]
      /\ \A j \in Ids \ {i} : token'[j] = token[j]
  BY <1>1, <1>3 DEF TypeOK
<1>5. /\ token'[i] \in Token /\ token'[i].revoked
      /\ token'[i].session = token[i].session /\ token'[i].user = token[i].user
  BY <1>3, <1>4 DEF Token
<1>6. token'[i] # None
  BY <1>5, NotNone
<1>7. token' \in [Ids -> Token \cup {None}]
  BY <1>1, <1>3, <1>4, <1>5 DEF TypeOK
<1>8. Issued' = Issued
  BY <1>3, <1>4, <1>6 DEF Issued
<1>9. Live' = Live \ {i}
  BY <1>2, <1>4, <1>5, <1>8 DEF Live, Issued
<1>10. \A j \in Issued : /\ token'[j].session = token[j].session
                         /\ token'[j].user = token[j].user
  BY <1>4, <1>5 DEF Issued
<1> QED BY <1>1, <1>2, <1>7, <1>8, <1>9, <1>10 DEF i

\* The tokens that a sweep misses.
Escaped(r) == {i \in Live \ request[r].targets : token[i].session \in request[r].sessions}

LEMMA SweepRows ==
    ASSUME TypeOK, NEW r \in Requests, Sweep(r)
    PROVE  /\ request[r].pc = "sweep"
           /\ token' \in [Ids -> Token \cup {None}]
           /\ Issued' = Issued /\ Live' = Live \ request[r].targets
           /\ \A j \in Issued :
                 /\ token'[j].user = token[j].user
                 /\ token'[j].session = IF j \in Escaped(r) THEN j ELSE token[j].session
<1> DEFINE T == request[r].targets
<1>1. /\ request[r].pc = "sweep"
      /\ token' = [i \in Ids |->
            IF i \in T THEN [token[i] EXCEPT !.revoked = TRUE]
            ELSE IF i \in Escaped(r) THEN [token[i] EXCEPT !.session = i] ELSE token[i]]
  BY DEF Sweep, Escaped
<1>2. T \subseteq Issued /\ Escaped(r) \subseteq Issued /\ Escaped(r) \cap T = {}
  BY DEF TypeOK, Escaped, Live
<1> HIDE DEF T
<1>3. ASSUME NEW j \in Ids \ Issued
      PROVE  token'[j] = None
  BY <1>1, <1>2, <1>3 DEF Issued
<1>4. ASSUME NEW j \in Issued
      PROVE  /\ token'[j] \in Token
             /\ token'[j].user = token[j].user
             /\ token'[j].session = IF j \in Escaped(r) THEN j ELSE token[j].session
             /\ token'[j].revoked <=> j \in T \/ token[j].revoked
  <2>1. j \in Ids /\ token[j] \in Token
    BY DEF Issued, TypeOK
  <2>2. CASE j \in T
    <3>1. token'[j] = [token[j] EXCEPT !.revoked = TRUE] /\ j \notin Escaped(r)
      BY <1>1, <1>2, <2>1, <2>2
    <3> QED BY <2>1, <2>2, <3>1 DEF Token
  <2>3. CASE j \in Escaped(r)
    <3>1. token'[j] = [token[j] EXCEPT !.session = j] /\ j \notin T
      BY <1>1, <1>2, <2>1, <2>3
    <3> QED BY <2>1, <2>3, <3>1 DEF Token
  <2>4. CASE j \notin T /\ j \notin Escaped(r)
    BY <1>1, <2>1, <2>4
  <2> QED BY <2>2, <2>3, <2>4
<1>5. token' \in [Ids -> Token \cup {None}]
  BY <1>1, <1>3, <1>4
<1>6. Issued' = Issued
  BY <1>3, <1>4, NotNone DEF Issued
<1>7. Live' = Live \ T
  BY <1>4, <1>6 DEF Live
<1> QED BY <1>1, <1>4, <1>5, <1>6, <1>7 DEF T

LEMMA OvertakenFields ==
    ASSUME NEW S, NEW base \in [Requests -> Request \cup {Idle}], NEW q \in Requests
    PROVE  /\ Overtaken(S, base)[q] \in Request \cup {Idle}
           /\ Overtaken(S, base)[q].pc = base[q].pc
           /\ Overtaken(S, base)[q].kind = base[q].kind
           /\ Overtaken(S, base)[q].device = base[q].device
           /\ Overtaken(S, base)[q].user = base[q].user
           /\ Overtaken(S, base)[q].id = base[q].id
           /\ Overtaken(S, base)[q].targets = base[q].targets
           /\ Overtaken(S, base)[q].sessions = base[q].sessions
           /\ Overtaken(S, base)[q].raced <=>
                 base[q].raced \/ (base[q].pc = "rotate" /\ token[base[q].id].session \in S)
<1> DEFINE new == Overtaken(S, base)[q]
<1>1. CASE base[q].pc = "rotate" /\ token[base[q].id].session \in S
  <2>1. new = [base[q] EXCEPT !.raced = TRUE]
    BY <1>1 DEF Overtaken
  <2>2. base[q] \in Request
    BY <1>1, IdleRecord
  <2> HIDE DEF new
  <2>3. new \in Request /\ new.raced
    BY <2>1, <2>2 DEF Request
  <2>4. /\ new.pc = base[q].pc /\ new.kind = base[q].kind /\ new.device = base[q].device
        /\ new.user = base[q].user /\ new.id = base[q].id
        /\ new.targets = base[q].targets /\ new.sessions = base[q].sessions
    BY <2>1, <2>2 DEF Request
  <2> QED BY <1>1, <2>3, <2>4 DEF new
<1>2. CASE ~(base[q].pc = "rotate" /\ token[base[q].id].session \in S)
  <2>1. new = base[q]
    BY <1>2 DEF Overtaken
  <2> QED BY <1>2, <2>1
<1> QED BY <1>1, <1>2


-----------------------------------------------------------------------------
(* What a step changes of the requests.                                    *)

\* The requests but r stay as they are.
OthersSame(r) == \A q \in Requests \ {r} : request'[q] = request[q]

\* Request r keeps what it was sent with.
SameAsked(r) ==
    /\ request'[r].kind = request[r].kind /\ request'[r].device = request[r].device

LEMMA SendEffect ==
    ASSUME TypeOK, NEW r \in Requests, NEW d \in Devices, DeviceStep(r, d)
    PROVE  /\ request[r] = Idle /\ OthersSame(r)
           /\ UNCHANGED <<accounts, token, cookie, ended, forked>>
           /\ request'[r].device = d
           /\ request'[r].id \in {None, cookie[d]}
           /\ request'[r].sessions = {}
           /\ request'[r].pc \in {"register", "issue", "lookup", "collect", "clear", "error"}
           /\ request'[r].pc = "lookup" => request'[r].id = cookie[d] /\ cookie[d] # None
           /\ request'[r].pc = "collect" => request'[r].kind = "logout_all"
           /\ disturbed' = IF InFlight(d) = {} THEN disturbed ELSE disturbed \cup {d}
<1>1. ASSUME NEW kind, NEW u, NEW i,
             NEW pc \in {"register", "issue", "lookup", "collect", "clear", "error"},
             i \in {None, cookie[d]}, pc = "lookup" => i = cookie[d] /\ cookie[d] # None,
             pc = "collect" => kind = "logout_all",
             Send(r, Begun(kind, d, pc, u, i))
      PROVE  /\ request[r] = Idle /\ OthersSame(r)
             /\ UNCHANGED <<accounts, token, cookie, ended, forked>>
             /\ request'[r].device = d
             /\ request'[r].id \in {None, cookie[d]}
             /\ request'[r].sessions = {}
             /\ request'[r].pc \in {"register", "issue", "lookup", "collect", "clear", "error"}
             /\ request'[r].pc = "lookup" => request'[r].id = cookie[d] /\ cookie[d] # None
             /\ request'[r].pc = "collect" => request'[r].kind = "logout_all"
             /\ disturbed' = IF InFlight(d) = {} THEN disturbed ELSE disturbed \cup {d}
  <2> DEFINE new == Begun(kind, d, pc, u, i)
  <2>1. /\ new.pc = pc /\ new.kind = kind /\ new.device = d /\ new.id = i
        /\ new.sessions = {}
    BY BegunRecord
  <2> HIDE DEF new
  <2>2. /\ request[r] = Idle /\ OthersSame(r) /\ request'[r] = new
        /\ UNCHANGED <<accounts, token, cookie, ended, forked>>
        /\ disturbed' = IF InFlight(d) = {} THEN disturbed ELSE disturbed \cup {d}
    BY <1>1, <2>1 DEF Send, OthersSame, TypeOK, new
  <2> QED BY <1>1, <2>1, <2>2
<1>2. ASSUME NEW u \in Users, Signup(r, d, u)
      PROVE  Send(r, Begun("signup", d, IF u \in accounts THEN "error" ELSE "register", u, None))
  BY <1>2, SentRequest
<1>3. ASSUME NEW u \in Users, Login(r, d, u)
      PROVE  Send(r, Begun("login", d, "issue", u, None))
  BY <1>3, SentRequest
<1>4. CASE Refresh(r, d)
  <2>1. /\ Send(r, Begun("refresh", d, "lookup", None, cookie[d])) /\ cookie[d] # None
    BY <1>4, SentRequest DEF Refresh
  <2> QED BY <1>1, <2>1
<1>5. CASE Logout(r, d)
  <2> DEFINE pc == IF cookie[d] = None THEN "clear" ELSE "lookup"
  <2>1. Send(r, Begun("logout", d, pc, None, cookie[d]))
    BY <1>5, SentRequest
  <2>2. pc \in {"clear", "lookup"} /\ (pc = "lookup" => cookie[d] # None)
    OBVIOUS
  <2> HIDE DEF pc
  <2> QED BY <1>1, <2>1, <2>2
<1>6. CASE LogoutAll(r, d)
  <2>1. Send(r, Begun("logout_all", d, "collect", token[cookie[d]].user, None))
    BY <1>6, SentRequest
  <2> QED BY <1>1, <2>1
<1>7. ASSUME NEW u \in Users, Signup(r, d, u)
      PROVE  \E pc \in {"error", "register"} : Send(r, Begun("signup", d, pc, u, None))
  BY <1>2, <1>7
<1> QED BY <1>1, <1>3, <1>4, <1>5, <1>6, <1>7 DEF DeviceStep

\* A handler's step that changes its own request only.
OwnStep(r) ==
    /\ request[r] \in Request /\ request'[r] \in Request
    /\ request' \in [Requests -> Request \cup {Idle}]
    /\ OthersSame(r) /\ SameAsked(r)
    /\ request'[r].raced = request[r].raced
    /\ UNCHANGED <<cookie, ended, disturbed>>

LEMMA OwnStepIs ==
    ASSUME TypeOK, NEW r \in Requests, NEW new, request[r] \in Request, new \in Request,
           request' = [request EXCEPT ![r] = new],
           new.kind = request[r].kind, new.device = request[r].device,
           new.raced = request[r].raced, UNCHANGED <<cookie, ended, disturbed>>
    PROVE  OwnStep(r) /\ request'[r] = new
BY DEF OwnStep, OthersSame, SameAsked, TypeOK

LEMMA RegisterEffect ==
    ASSUME TypeOK, NEW r \in Requests, Register(r)
    PROVE  /\ OwnStep(r) /\ request[r].pc = "register" /\ request'[r].pc \in {"error", "issue"}
           /\ request'[r].id = request[r].id /\ request'[r].user = request[r].user
           /\ request'[r].targets = request[r].targets
           /\ request'[r].sessions = request[r].sessions
           /\ accounts' \subseteq Users
           /\ UNCHANGED <<token, forked>>
<1> DEFINE new == [request[r] EXCEPT !.pc = IF request[r].user \in accounts
                                            THEN "error" ELSE "issue"]
<1>1. /\ request[r].pc = "register" /\ request' = [request EXCEPT ![r] = new]
      /\ accounts' = accounts \cup {request[r].user}
      /\ UNCHANGED <<token, cookie, ended, forked, disturbed>>
  BY DEF Register, Step
<1>2. request[r] \in Request /\ request[r].user \in Users
  BY <1>1, Busy DEF TypeOK, Request
<1>3. /\ new \in Request /\ new.pc \in {"error", "issue"} /\ new.id = request[r].id
      /\ new.user = request[r].user /\ new.kind = request[r].kind
      /\ new.device = request[r].device /\ new.raced = request[r].raced
      /\ new.targets = request[r].targets /\ new.sessions = request[r].sessions
  BY <1>2 DEF Request
<1> HIDE DEF new
<1>4. OwnStep(r) /\ request'[r] = new
  BY <1>1, <1>2, <1>3, OwnStepIs
<1>5. accounts' \subseteq Users
  BY <1>1, <1>2 DEF TypeOK
<1> QED BY <1>1, <1>3, <1>4, <1>5

LEMMA IssueEffect ==
    ASSUME TypeOK, NEW r \in Requests, Issue(r)
    PROVE  /\ OwnStep(r) /\ request[r].pc = "issue" /\ request'[r].pc = "cookies"
           /\ request'[r].id = NextId /\ request'[r].targets = request[r].targets
           /\ request'[r].sessions = request[r].sessions
           /\ UNCHANGED <<accounts, forked>>
<1> DEFINE new == [request[r] EXCEPT !.pc = "cookies", !.id = NextId]
<1>1. /\ request[r].pc = "issue" /\ request' = [request EXCEPT ![r] = new] /\ NextId \in Ids
      /\ UNCHANGED <<accounts, cookie, ended, forked, disturbed>>
  BY DEF Issue, Step
<1>2. request[r] \in Request
  BY <1>1, Busy
<1>3. /\ new \in Request /\ new.pc = "cookies" /\ new.id = NextId
      /\ new.kind = request[r].kind
      /\ new.device = request[r].device /\ new.raced = request[r].raced
      /\ new.targets = request[r].targets /\ new.sessions = request[r].sessions
  BY <1>1, <1>2 DEF Request
<1> HIDE DEF new
<1>4. OwnStep(r) /\ request'[r] = new
  BY <1>1, <1>2, <1>3, OwnStepIs
<1> QED BY <1>1, <1>3, <1>4

LEMMA RotateEffect ==
    ASSUME TypeOK, NEW r \in Requests, Rotate(r)
    PROVE  /\ OwnStep(r) /\ request'[r].pc = "cookies"
           /\ request'[r].id = NextId /\ request'[r].targets = request[r].targets
           /\ request'[r].sessions = request[r].sessions
           /\ UNCHANGED <<accounts, forked>>
<1> DEFINE new == [request[r] EXCEPT !.pc = "cookies", !.id = NextId]
<1>1. /\ request[r].pc = "rotate" /\ request' = [request EXCEPT ![r] = new] /\ NextId \in Ids
      /\ UNCHANGED <<accounts, cookie, ended, forked, disturbed>>
  BY DEF Rotate, Step
<1>2. request[r] \in Request
  BY <1>1, Busy
<1>3. /\ new \in Request /\ new.pc = "cookies" /\ new.id = NextId
      /\ new.kind = request[r].kind
      /\ new.device = request[r].device /\ new.raced = request[r].raced
      /\ new.targets = request[r].targets /\ new.sessions = request[r].sessions
  BY <1>1, <1>2 DEF Request
<1> HIDE DEF new
<1>4. OwnStep(r) /\ request'[r] = new
  BY <1>1, <1>2, <1>3, OwnStepIs
<1> QED BY <1>1, <1>3, <1>4

LEMMA LookupEffect ==
    ASSUME TypeOK, NEW r \in Requests, Lookup(r)
    PROVE  /\ OwnStep(r) /\ request[r].pc = "lookup" /\ request[r].kind = "refresh"
           /\ request[r].id \in Issued
           /\ request'[r].pc \in {"collect", "rotate", "error"}
           /\ request'[r].pc = "collect" <=> request[r].id \notin Live /\ request'[r].pc # "error"
           /\ request'[r].id = request[r].id /\ request'[r].targets = request[r].targets
           /\ request'[r].sessions = request[r].sessions
           /\ forked' = IF Rotating(request[r].id) = {} THEN forked
                        ELSE forked \cup {SessionOf(r)}
           /\ UNCHANGED <<accounts, token>>
<1> DEFINE i == request[r].id
<1>1. PICK next \in {IF token[i].revoked THEN "collect" ELSE "rotate", "error"} :
         /\ request[r].pc = "lookup"
         /\ request' = [request EXCEPT ![r] =
                           [request[r] EXCEPT !.pc = next, !.user = token[i].user]]
  BY DEF Lookup, Step
<1> DEFINE new == [request[r] EXCEPT !.pc = next, !.user = token[i].user]
<1>2. /\ request[r].kind = "refresh"
      /\ UNCHANGED <<accounts, token, cookie, ended, disturbed>>
      /\ forked' = IF Rotating(i) = {} THEN forked ELSE forked \cup {SessionOf(r)}
  BY DEF Lookup, SessionOf
<1>3. request[r] \in Request /\ i \in Issued
  BY <1>1, Busy DEF TypeOK
<1>4. token[i].user \in Users
  BY <1>3 DEF Issued, TypeOK, Token
<1>5. i \notin Live <=> token[i].revoked
  BY <1>3 DEF Live
<1>6. /\ new \in Request /\ new.pc = next /\ new.id = request[r].id
      /\ new.kind = request[r].kind
      /\ new.device = request[r].device /\ new.raced = request[r].raced
      /\ new.targets = request[r].targets /\ new.sessions = request[r].sessions
  BY <1>3, <1>4 DEF Request
<1> HIDE DEF new
<1>7. OwnStep(r) /\ request'[r] = new
  BY <1>1, <1>2, <1>3, <1>6, OwnStepIs DEF new
<1> QED BY <1>1, <1>2, <1>3, <1>5, <1>6, <1>7

LEMMA LogoutLookupEffect ==
    ASSUME TypeOK, NEW r \in Requests, LogoutLookup(r)
    PROVE  /\ OwnStep(r) /\ request[r].pc = "lookup" /\ request'[r].pc \in {"clear", "revoke"}
           /\ request[r].id \in Issued /\ request[r].kind = "logout"
           /\ request'[r].id = request[r].id /\ request'[r].targets = request[r].targets
           /\ request'[r].sessions = request[r].sessions
           /\ UNCHANGED <<accounts, token, forked>>
<1> DEFINE new == [request[r] EXCEPT !.pc = IF token[request[r].id].revoked
                                            THEN "clear" ELSE "revoke"]
<1>1. /\ request[r].pc = "lookup" /\ request' = [request EXCEPT ![r] = new]
      /\ request[r].kind = "logout"
      /\ UNCHANGED <<accounts, token, cookie, ended, forked, disturbed>>
  BY DEF LogoutLookup, Step
<1>2. request[r] \in Request /\ request[r].id \in Issued
  BY <1>1, Busy DEF TypeOK
<1>3. /\ new \in Request /\ new.pc \in {"clear", "revoke"} /\ new.id = request[r].id
      /\ new.kind = request[r].kind
      /\ new.device = request[r].device /\ new.raced = request[r].raced
      /\ new.targets = request[r].targets /\ new.sessions = request[r].sessions
  BY <1>2 DEF Request
<1> HIDE DEF new
<1>4. OwnStep(r) /\ request'[r] = new
  BY <1>1, <1>2, <1>3, OwnStepIs
<1> QED BY <1>1, <1>2, <1>3, <1>4

LEMMA CollectEffect ==
    ASSUME TypeOK, NEW r \in Requests, Collect(r)
    PROVE  /\ OwnStep(r) /\ request[r].pc = "collect" /\ request'[r].pc = "sweep"
           /\ request'[r].id = request[r].id /\ request'[r].targets = Active(r)
           /\ request'[r].sessions = {token[i].session : i \in Active(r)}
           /\ Active(r) \subseteq Issued
           /\ UNCHANGED <<accounts, token, forked>>
<1> DEFINE sessions == {token[i].session : i \in Active(r)}
           new == [request[r] EXCEPT !.pc = "sweep", !.targets = Active(r),
                                     !.sessions = sessions]
<1>1. /\ request[r].pc = "collect" /\ request' = [request EXCEPT ![r] = new]
      /\ UNCHANGED <<accounts, token, cookie, ended, forked, disturbed>>
  BY DEF Collect, Step, Active
<1>2. request[r] \in Request
  BY <1>1, Busy
<1>3. Active(r) \subseteq Issued /\ Active(r) \subseteq Ids
  BY DEF Active, Live, Issued
<1>4. sessions \subseteq Ids
  BY <1>3 DEF Issued, TypeOK, Token
<1> HIDE DEF sessions
<1>5. /\ new \in Request /\ new.pc = "sweep" /\ new.id = request[r].id
      /\ new.kind = request[r].kind
      /\ new.device = request[r].device /\ new.raced = request[r].raced
      /\ new.targets = Active(r) /\ new.sessions = sessions
  BY <1>2, <1>3, <1>4 DEF Request
<1> HIDE DEF new
<1>6. OwnStep(r) /\ request'[r] = new
  BY <1>1, <1>2, <1>5, OwnStepIs
<1> QED BY <1>1, <1>3, <1>5, <1>6 DEF sessions


\* The sessions that a logout ends.
Over(r) == {SessionOf(r)} \ {token[j].session : j \in Live \ {request[r].id}}

LEMMA RevokeEffect ==
    ASSUME TypeOK, NEW r \in Requests, Revoke(r)
    PROVE  /\ request' \in [Requests -> Request \cup {Idle}]
           /\ request[r].pc = "revoke" /\ request'[r].pc = "clear"
           /\ \A q \in Requests \ {r} : request'[q].pc = request[q].pc
           /\ \A q \in Requests :
                 /\ request'[q].kind = request[q].kind /\ request'[q].device = request[q].device
                 /\ request'[q].user = request[q].user /\ request'[q].id = request[q].id
                 /\ request'[q].targets = request[q].targets
                 /\ request'[q].sessions = request[q].sessions
                 /\ request'[q].pc = "rotate" /\ ~request'[q].raced =>
                       /\ request[q].pc = "rotate" /\ ~request[q].raced
                       /\ SessionOf(q) \notin Over(r)
           /\ ended' = ended \cup Over(r)
           /\ UNCHANGED <<accounts, cookie, forked, disturbed>>
<1> DEFINE base == [request EXCEPT ![r].pc = "clear"]
<1>1. /\ request[r].pc = "revoke"
      /\ request' = Overtaken(Over(r), base) /\ ended' = ended \cup Over(r)
      /\ UNCHANGED <<accounts, cookie, forked, disturbed>>
  BY DEF Revoke, Over, SessionOf
<1>2. request[r] \in Request
  BY <1>1, Busy
<1>3. /\ base[r] = [request[r] EXCEPT !.pc = "clear"]
      /\ \A q \in Requests \ {r} : base[q] = request[q]
      /\ DOMAIN base = Requests /\ base = [q \in Requests |-> base[q]]
  BY DEF TypeOK
<1> HIDE DEF base
<1>4. /\ base[r] \in Request /\ base[r].pc = "clear"
      /\ base[r].kind = request[r].kind /\ base[r].device = request[r].device
      /\ base[r].user = request[r].user /\ base[r].id = request[r].id
      /\ base[r].targets = request[r].targets /\ base[r].sessions = request[r].sessions
  BY <1>2, <1>3 DEF Request
<1>5. base \in [Requests -> Request \cup {Idle}]
  BY <1>3, <1>4 DEF TypeOK
<1>6. request' = [q \in Requests |-> request'[q]]
  BY <1>1 DEF Overtaken
<1>7. \A q \in Requests : request'[q] \in Request \cup {Idle}
  BY <1>1, <1>5, OvertakenFields
<1>8. request' \in [Requests -> Request \cup {Idle}]
  BY <1>6, <1>7
<1>9. ASSUME NEW q \in Requests
      PROVE  /\ request'[q].pc = base[q].pc
             /\ request'[q].kind = base[q].kind /\ request'[q].device = base[q].device
             /\ request'[q].user = base[q].user /\ request'[q].id = base[q].id
             /\ request'[q].targets = base[q].targets
             /\ request'[q].sessions = base[q].sessions
             /\ request'[q].raced <=> base[q].raced \/
                   (base[q].pc = "rotate" /\ token[base[q].id].session \in Over(r))
  BY <1>1, <1>5, OvertakenFields
<1>10. ASSUME NEW q \in Requests, request'[q].pc = "rotate", ~request'[q].raced
       PROVE  request[q].pc = "rotate" /\ ~request[q].raced /\ SessionOf(q) \notin Over(r)
  <2>1. q # r
    BY <1>4, <1>9, <1>10
  <2> QED BY <2>1, <1>3, <1>9, <1>10 DEF SessionOf
<1>11. /\ request'[r].pc = "clear"
       /\ \A q \in Requests \ {r} : request'[q].pc = request[q].pc
  <2>1. request'[r].pc = base[r].pc
    BY <1>9
  <2>2. \A q \in Requests \ {r} : request'[q].pc = base[q].pc
    BY <1>9
  <2> QED BY <2>1, <2>2, <1>3, <1>4
<1>12. ASSUME NEW q \in Requests
       PROVE  /\ request'[q].kind = request[q].kind /\ request'[q].device = request[q].device
              /\ request'[q].user = request[q].user /\ request'[q].id = request[q].id
              /\ request'[q].targets = request[q].targets
              /\ request'[q].sessions = request[q].sessions
  <2>1. CASE q = r
    BY <2>1, <1>4, <1>9
  <2>2. CASE q # r
    BY <2>2, <1>3, <1>9
  <2> QED BY <2>1, <2>2
<1> QED BY <1>1, <1>8, <1>10, <1>11, <1>12

LEMMA SweepEffect ==
    ASSUME TypeOK, NEW r \in Requests, Sweep(r)
    PROVE  /\ request' \in [Requests -> Request \cup {Idle}]
           /\ request'[r].pc \in {"clear", "error"}
           /\ request'[r].pc = "error" => request[r].kind = "refresh"
           /\ request'[r].targets = {} /\ request'[r].sessions = {}
           /\ \A q \in Requests \ {r} :
                 /\ request'[q].pc = request[q].pc
                 /\ request'[q].targets = request[q].targets
                 /\ request'[q].sessions = request[q].sessions
           /\ \A q \in Requests :
                 /\ request'[q].kind = request[q].kind /\ request'[q].device = request[q].device
                 /\ request'[q].user = request[q].user /\ request'[q].id = request[q].id
                 /\ request'[q].pc = "rotate" /\ ~request'[q].raced =>
                       /\ request[q].pc = "rotate" /\ ~request[q].raced
                       /\ SessionOf(q) \notin request[r].sessions
           /\ ended' = ended \cup request[r].sessions
           /\ disturbed' = disturbed \cup
                 {d \in Devices : \/ cookie[d] \in request[r].targets
                                  \/ \E q \in InFlight(d) : request[q].id \in request[r].targets}
           /\ UNCHANGED <<accounts, cookie, forked>>
<1> DEFINE pc   == IF request[r].kind = "refresh" THEN "error" ELSE "clear"
           base == [request EXCEPT ![r].pc = pc, ![r].targets = {}, ![r].sessions = {}]
           S    == request[r].sessions
<1>1. /\ request[r].pc = "sweep"
      /\ request' = Overtaken(S, base) /\ ended' = ended \cup S
      /\ disturbed' = disturbed \cup
            {d \in Devices : \/ cookie[d] \in request[r].targets
                             \/ \E q \in InFlight(d) : request[q].id \in request[r].targets}
      /\ UNCHANGED <<accounts, cookie, forked>>
  BY DEF Sweep
<1>2. request[r] \in Request
  BY <1>1, Busy
<1>3. pc \in {"clear", "error"} /\ (pc = "error" => request[r].kind = "refresh")
  OBVIOUS
<1> HIDE DEF pc, S
<1>4. /\ base[r] = [request[r] EXCEPT !.pc = pc, !.targets = {}, !.sessions = {}]
      /\ \A q \in Requests \ {r} : base[q] = request[q]
      /\ DOMAIN base = Requests /\ base = [q \in Requests |-> base[q]]
  BY DEF TypeOK
<1> HIDE DEF base
<1>5. /\ base[r] \in Request /\ base[r].pc = pc
      /\ base[r].kind = request[r].kind /\ base[r].device = request[r].device
      /\ base[r].user = request[r].user /\ base[r].id = request[r].id
      /\ base[r].targets = {} /\ base[r].sessions = {}
  BY <1>2, <1>3, <1>4 DEF Request
<1>6. base \in [Requests -> Request \cup {Idle}]
  BY <1>4, <1>5 DEF TypeOK
<1>7. request' = [q \in Requests |-> request'[q]]
  BY <1>1 DEF Overtaken
<1>8. \A q \in Requests : request'[q] \in Request \cup {Idle}
  BY <1>1, <1>6, OvertakenFields
<1>9. request' \in [Requests -> Request \cup {Idle}]
  BY <1>7, <1>8
<1>10. ASSUME NEW q \in Requests
       PROVE  /\ request'[q].pc = base[q].pc
              /\ request'[q].kind = base[q].kind /\ request'[q].device = base[q].device
              /\ request'[q].user = base[q].user /\ request'[q].id = base[q].id
              /\ request'[q].targets = base[q].targets
              /\ request'[q].sessions = base[q].sessions
              /\ request'[q].raced <=> base[q].raced \/
                    (base[q].pc = "rotate" /\ token[base[q].id].session \in S)
  BY <1>1, <1>6, OvertakenFields
<1>11. ASSUME NEW q \in Requests, request'[q].pc = "rotate", ~request'[q].raced
       PROVE  request[q].pc = "rotate" /\ ~request[q].raced /\ SessionOf(q) \notin S
  <2>1. q # r
    BY <1>3, <1>5, <1>10, <1>11
  <2> QED BY <2>1, <1>4, <1>10, <1>11 DEF SessionOf
<1>12. /\ request'[r].pc \in {"clear", "error"}
       /\ request'[r].pc = "error" => request[r].kind = "refresh"
       /\ request'[r].targets = {} /\ request'[r].sessions = {}
  BY <1>3, <1>5, <1>10
<1>13. \A q \in Requests \ {r} :
          /\ request'[q].pc = request[q].pc
          /\ request'[q].targets = request[q].targets
          /\ request'[q].sessions = request[q].sessions
  BY <1>4, <1>10
<1>14. ASSUME NEW q \in Requests
       PROVE  /\ request'[q].kind = request[q].kind /\ request'[q].device = request[q].device
              /\ request'[q].user = request[q].user /\ request'[q].id = request[q].id
  <2>1. CASE q = r
    BY <2>1, <1>5, <1>10
  <2>2. CASE q # r
    BY <2>2, <1>4, <1>10
  <2> QED BY <2>1, <2>2
<1> QED BY <1>1, <1>9, <1>11, <1>12, <1>13, <1>14 DEF S

\* A request that is over: its answer arrives or is lost.
LEMMA EndEffect ==
    ASSUME TypeOK, NEW r \in Requests, Receive(r) \/ Lose(r)
    PROVE  /\ request[r] \in Request /\ request'[r] = Idle /\ OthersSame(r)
           /\ request' \in [Requests -> Request \cup {Idle}]
           /\ UNCHANGED <<accounts, token, ended, forked>>
           /\ Receive(r) => /\ request[r].pc \in {"cookies", "clear", "error"}
                            /\ cookie' = [cookie EXCEPT ![request[r].device] = Cookies(r)]
                            /\ disturbed' = disturbed
           /\ Lose(r) => cookie' = cookie /\ disturbed' = disturbed \cup {request[r].device}
<1>1. /\ request' = [request EXCEPT ![r] = Idle]
      /\ UNCHANGED <<accounts, token, ended, forked>>
  BY DEF Receive, Lose
<1>2. request[r] \in Request
  <2>1. CASE Receive(r)
    BY <2>1, Busy DEF Receive
  <2>2. CASE Lose(r)
    BY <2>2, Busy DEF Lose
  <2> QED BY <2>1, <2>2
<1> QED BY <1>1, <1>2 DEF OthersSame, TypeOK, Receive, Lose


-----------------------------------------------------------------------------
(* TypeOK is preserved.                                                    *)

\* Only r has changed, and its new record fits the rows.
LEMMA OwnStepType ==
    ASSUME TypeOK, NEW r \in Requests, OwnStep(r), Issued \subseteq Issued',
           accounts' \subseteq Users, token' \in [Ids -> Token \cup {None}],
           \E n \in 0 .. TokenBound : Issued' = 1 .. n, forked' \subseteq Ids,
           request'[r].id \in Issued' \cup {None}, request'[r].targets \subseteq Issued',
           request'[r].pc \in {"lookup", "rotate", "revoke", "cookies"} => request'[r].id # None,
           request'[r].pc \in {"register", "issue"} => request'[r].user # None
    PROVE  TypeOK'
<1>1. ASSUME NEW q \in Requests
      PROVE  /\ request'[q].id \in Issued' \cup {None} /\ request'[q].targets \subseteq Issued'
             /\ request'[q].pc \in {"lookup", "rotate", "revoke", "cookies"} =>
                   request'[q].id # None
             /\ request'[q].pc \in {"register", "issue"} => request'[q].user # None
  <2>1. CASE q = r
    BY <2>1
  <2>2. CASE q # r
    <3>1. request'[q] = request[q]
      BY <2>2 DEF OwnStep, OthersSame
    <3> QED BY <3>1 DEF TypeOK
  <2> QED BY <2>1, <2>2
<1>2. cookie' \in [Devices -> Issued' \cup {None}] /\ ended' \subseteq Ids
      /\ disturbed' \subseteq Devices
  BY DEF OwnStep, TypeOK
<1>3. request' \in [Requests -> Request \cup {Idle}]
  BY DEF OwnStep
<1> QED BY <1>1, <1>2, <1>3 DEF TypeOK

LEMMA IssuedSame ==
    ASSUME TypeOK, UNCHANGED token
    PROVE  /\ Issued' = Issued /\ Live' = Live
           /\ token' \in [Ids -> Token \cup {None}]
           /\ \E n \in 0 .. TokenBound : Issued' = 1 .. n
BY DEF Issued, Live, TypeOK

LEMMA IdsNotNone == None \notin Ids
<1>1. Ids \subseteq Nat
  BY DEF Ids
<1> QED BY <1>1, SessionAssumption

LEMMA HandlerStepType ==
    ASSUME TypeOK, Rooted, NEW r \in Requests, HandlerStep(r)
    PROVE  TypeOK'
<1>1. CASE Register(r)
  BY <1>1, RegisterEffect, IssuedSame, OwnStepType DEF TypeOK
<1>2. CASE Issue(r)
  <2>1. NextId # None
    BY <1>2, IssueRows, IdsNotNone
  <2>2. /\ accounts \subseteq Users /\ forked \subseteq Ids
        /\ request[r].targets \subseteq Issued
    BY DEF TypeOK
  <2> QED BY <1>2, <2>1, <2>2, IssueEffect, IssueRows, OwnStepType
<1>3. CASE Lookup(r)
  <2>1. request[r].id \in Issued /\ request[r].id # None
    BY <1>3, LookupEffect, SessionAssumption DEF Issued, Ids
  <2>2. forked' \subseteq Ids
    <3>1. SessionOf(r) \in Ids
      BY <2>1 DEF TypeOK, SessionOf, Issued, Token
    <3>2. forked' \in {forked, forked \cup {SessionOf(r)}}
      BY <1>3, LookupEffect
    <3> QED BY <3>1, <3>2 DEF TypeOK
  <2> QED BY <1>3, <2>1, <2>2, LookupEffect, IssuedSame, OwnStepType DEF TypeOK
<1>4. CASE Rotate(r)
  <2>1. NextId # None
    BY <1>4, RotateRows, IdsNotNone
  <2>2. /\ accounts \subseteq Users /\ forked \subseteq Ids
        /\ request[r].targets \subseteq Issued
    BY DEF TypeOK
  <2> QED BY <1>4, <2>1, <2>2, RotateEffect, RotateRows, OwnStepType
<1>5. CASE LogoutLookup(r)
  <2>1. request[r].id # None
    BY <1>5, LogoutLookupEffect, SessionAssumption DEF Issued, Ids
  <2> QED BY <1>5, <2>1, LogoutLookupEffect, IssuedSame, OwnStepType DEF TypeOK
<1>6. CASE Revoke(r)
  <2>1. \E n \in 0 .. TokenBound : Issued' = 1 .. n
    BY <1>6, RevokeRows DEF TypeOK
  <2>2. Over(r) \subseteq Ids
    BY <1>6, RevokeRows DEF Over, SessionOf, TypeOK, Issued, Token
  <2>3. ASSUME NEW q \in Requests
        PROVE  /\ request'[q].id \in Issued \cup {None} /\ request'[q].targets \subseteq Issued
               /\ request'[q].pc \in {"lookup", "rotate", "revoke", "cookies"} =>
                     request'[q].id # None
               /\ request'[q].pc \in {"register", "issue"} => request'[q].user # None
    <3>1. request'[q].pc \in {"clear", request[q].pc}
      BY <1>6, RevokeEffect
    <3>2. /\ request'[q].id = request[q].id /\ request'[q].user = request[q].user
          /\ request'[q].targets = request[q].targets
      BY <1>6, RevokeEffect
    <3> QED BY <3>1, <3>2 DEF TypeOK
  <2> QED BY <1>6, <2>1, <2>2, <2>3, RevokeEffect, RevokeRows DEF TypeOK
<1>7. CASE Collect(r)
  BY <1>7, CollectEffect, IssuedSame, OwnStepType DEF TypeOK
<1>8. CASE Sweep(r)
  <2>1. \E n \in 0 .. TokenBound : Issued' = 1 .. n
    BY <1>8, SweepRows DEF TypeOK
  <2>2. request[r].sessions \subseteq Ids
    BY <1>8, SweepRows, Busy DEF Request
  <2>3. ASSUME NEW q \in Requests
        PROVE  /\ request'[q].id \in Issued \cup {None} /\ request'[q].targets \subseteq Issued
               /\ request'[q].pc \in {"lookup", "rotate", "revoke", "cookies"} =>
                     request'[q].id # None
               /\ request'[q].pc \in {"register", "issue"} => request'[q].user # None
    <3>1. request'[q].pc \in {"clear", "error", request[q].pc}
      BY <1>8, SweepEffect
    <3>2. /\ request'[q].id = request[q].id /\ request'[q].user = request[q].user
          /\ request'[q].targets = {} \/ request'[q].targets = request[q].targets
      BY <1>8, SweepEffect
    <3> QED BY <3>1, <3>2 DEF TypeOK
  <2>4. disturbed' \subseteq Devices
    BY <1>8, SweepEffect DEF TypeOK
  <2> QED BY <1>8, <2>1, <2>2, <2>3, <2>4, SweepEffect, SweepRows DEF TypeOK
<1> QED BY <1>1, <1>2, <1>3, <1>4, <1>5, <1>6, <1>7, <1>8 DEF HandlerStep

LEMMA EndType ==
    ASSUME TypeOK, NEW r \in Requests, Receive(r) \/ Lose(r)
    PROVE  TypeOK'
<1>1. /\ Issued' = Issued /\ token' \in [Ids -> Token \cup {None}]
      /\ \E n \in 0 .. TokenBound : Issued' = 1 .. n
  BY EndEffect, IssuedSame
<1>2. request[r].device \in Devices
  BY EndEffect DEF Request
<1>3. cookie' \in [Devices -> Issued \cup {None}] /\ disturbed' \subseteq Devices
  <2>1. CASE Receive(r)
    <3>1. Cookies(r) \in Issued \cup {None}
      BY <1>2 DEF Cookies, TypeOK
    <3> QED BY <2>1, <3>1, <1>2, EndEffect DEF TypeOK
  <2>2. CASE Lose(r)
    BY <2>2, <1>2, EndEffect DEF TypeOK
  <2> QED BY <2>1, <2>2
<1>4. ASSUME NEW q \in Requests
      PROVE  Fits(request'[q], Issued)
  <2>1. CASE q = r
    BY <2>1, EndEffect, FitsIdle
  <2>2. CASE q # r
    BY <2>2, EndEffect DEF OthersSame, Fits, TypeOK
  <2> QED BY <2>1, <2>2
<1> QED BY <1>1, <1>3, <1>4, EndEffect DEF TypeOK, Fits


-----------------------------------------------------------------------------
(* Rooted is preserved.                                                    *)

\* The steps that leave the rows alone.
QuietStep(r) ==
    \/ \E d \in Devices : DeviceStep(r, d)
    \/ Register(r) \/ Lookup(r) \/ LogoutLookup(r) \/ Collect(r) \/ Receive(r) \/ Lose(r)

LEMMA QuietRows ==
    ASSUME TypeOK, NEW r \in Requests, QuietStep(r)
    PROVE  UNCHANGED <<token, ended>> /\ forked \subseteq forked' /\ OthersSame(r)
<1>1. ASSUME NEW d \in Devices, DeviceStep(r, d)
      PROVE  UNCHANGED <<token, ended>> /\ forked \subseteq forked' /\ OthersSame(r)
  BY <1>1, SendEffect
<1>2. CASE Register(r)
  BY <1>2, RegisterEffect DEF OwnStep
<1>3. CASE Lookup(r)
  BY <1>3, LookupEffect DEF OwnStep
<1>4. CASE LogoutLookup(r)
  BY <1>4, LogoutLookupEffect DEF OwnStep
<1>5. CASE Collect(r)
  BY <1>5, CollectEffect DEF OwnStep
<1>6. CASE Receive(r) \/ Lose(r)
  BY <1>6, EndEffect
<1> QED BY <1>1, <1>2, <1>3, <1>4, <1>5, <1>6 DEF QuietStep

\* Rows are added: to a session of the same user, or as a session of their own.
LEMMA RootedGrows ==
    ASSUME Rooted, Issued \subseteq Issued',
           \A j \in Issued : /\ token'[j].session = token[j].session
                             /\ token'[j].user = token[j].user,
           \A j \in Issued' \ Issued :
              \/ token'[j].session = j
              \/ /\ token'[j].session \in Roots
                 /\ token'[j].user = token[token'[j].session].user,
           ended' \subseteq Roots, \A q \in Requests : request'[q].sessions \subseteq Roots
    PROVE  Rooted'
<1>1. Roots \subseteq Issued
  BY DEF Roots
<1>2. Roots \subseteq Roots'
  BY DEF Roots
<1>3. ASSUME NEW i \in Issued'
      PROVE  /\ token'[i].session \in Roots'
             /\ token'[token'[i].session].user = token'[i].user
  <2>1. CASE i \in Issued
    <3>1. token[i].session \in Roots /\ token[token[i].session].user = token[i].user
      BY <2>1 DEF Rooted
    <3> QED BY <2>1, <3>1, <1>1, <1>2
  <2>2. CASE i \notin Issued /\ token'[i].session = i
    BY <2>2 DEF Roots
  <2>3. CASE i \notin Issued /\ token'[i].session # i
    <3>1. token'[i].session \in Roots /\ token'[i].user = token[token'[i].session].user
      BY <2>3
    <3> QED BY <3>1, <1>1, <1>2
  <2> QED BY <2>1, <2>2, <2>3
<1> QED BY <1>2, <1>3 DEF Rooted

LEMMA RootedStep ==
    ASSUME TypeOK, Rooted, NEW r \in Requests, QuietStep(r) \/ HandlerStep(r)
    PROVE  Rooted'
<1>1. \A q \in Requests : request[q].sessions \subseteq Roots
  BY DEF Rooted
<1>2. ASSUME QuietStep(r), request'[r].sessions \subseteq Roots
      PROVE  Rooted'
  <2>1. UNCHANGED <<token, ended>> /\ Issued' = Issued
    BY <1>2, QuietRows, IssuedSame
  <2>2. \A q \in Requests : request'[q].sessions \subseteq Roots
    BY <1>1, <1>2, QuietRows DEF OthersSame
  <2>3. ended' \subseteq Roots
    BY <2>1 DEF Rooted
  <2> QED BY <2>1, <2>2, <2>3, RootedGrows
<1>3. ASSUME NEW d \in Devices, DeviceStep(r, d) PROVE Rooted'
  BY <1>2, <1>3, SendEffect DEF QuietStep
<1>4. CASE Register(r)
  BY <1>1, <1>2, <1>4, RegisterEffect DEF QuietStep
<1>5. CASE Lookup(r)
  BY <1>1, <1>2, <1>5, LookupEffect DEF QuietStep
<1>6. CASE LogoutLookup(r)
  BY <1>1, <1>2, <1>6, LogoutLookupEffect DEF QuietStep
<1>7. CASE Collect(r)
  <2>1. {token[i].session : i \in Active(r)} \subseteq Roots
    BY <1>7, CollectEffect DEF Rooted
  <2> QED BY <1>2, <1>7, <2>1, CollectEffect DEF QuietStep
<1>8. CASE Receive(r) \/ Lose(r)
  BY <1>2, <1>8, EndEffect, IdleRecord DEF QuietStep
<1>9. ASSUME OwnStep(r), request'[r].sessions = request[r].sessions,
             Issued' = Issued \cup {NextId},
             \A j \in Issued : /\ token'[j].session = token[j].session
                               /\ token'[j].user = token[j].user,
             \/ token'[NextId].session = NextId
             \/ /\ token'[NextId].session \in Roots
                /\ token'[NextId].user = token[token'[NextId].session].user
      PROVE  Rooted'
  <2>1. \A q \in Requests : request'[q].sessions \subseteq Roots
    BY <1>1, <1>9 DEF OwnStep, OthersSame
  <2>2. ended' \subseteq Roots
    BY <1>9 DEF OwnStep, Rooted
  <2>3. \A j \in Issued' \ Issued : j = NextId
    BY <1>9
  <2> QED BY <1>9, <2>1, <2>2, <2>3, RootedGrows
<1>10. CASE Issue(r)
  BY <1>9, <1>10, IssueEffect, IssueRows
<1>11. CASE Rotate(r)
  <2>1. request[r].id \in Issued
    BY <1>11, RotateRows
  <2>2. /\ SessionOf(r) \in Roots
        /\ token[request[r].id].user = token[SessionOf(r)].user
    BY <2>1 DEF Rooted, SessionOf
  <2> QED BY <1>9, <1>11, <2>2, RotateEffect, RotateRows
<1>12. CASE Revoke(r)
  <2>1. Over(r) \subseteq Roots
    BY <1>12, RevokeRows DEF Over, Rooted, SessionOf
  <2>2. ended' \subseteq Roots
    BY <1>12, <2>1, RevokeEffect DEF Rooted
  <2>3. \A q \in Requests : request'[q].sessions \subseteq Roots
    BY <1>1, <1>12, RevokeEffect
  <2> QED BY <1>12, <2>2, <2>3, RevokeRows, RootedGrows
<1>13. CASE Sweep(r)
  <2>1. Roots \subseteq Issued /\ Issued' = Issued
    BY <1>13, SweepRows DEF Roots
  <2>2. ASSUME NEW i \in Issued
        PROVE  /\ token'[i].user = token[i].user
               /\ token'[i].session = IF i \in Escaped(r) THEN i ELSE token[i].session
    BY <1>13, SweepRows
  <2>3. Roots \subseteq Roots'
    BY <2>1, <2>2 DEF Roots
  <2>4. ASSUME NEW i \in Issued
        PROVE  token'[i].session \in Roots' /\ token'[token'[i].session].user = token'[i].user
    <3>1. CASE i \in Escaped(r)
      BY <2>1, <2>2, <3>1 DEF Roots
    <3>2. CASE i \notin Escaped(r)
      <4>1. token[i].session \in Roots /\ token[token[i].session].user = token[i].user
        BY DEF Rooted
      <4> QED BY <2>1, <2>2, <2>3, <3>2, <4>1
    <3> QED BY <3>1, <3>2
  <2>5. ended' \subseteq Roots
    BY <1>1, <1>13, SweepEffect DEF Rooted
  <2>6. ASSUME NEW q \in Requests
        PROVE  request'[q].sessions \subseteq Roots
    BY <1>1, <1>13, SweepEffect
  <2> QED BY <2>1, <2>3, <2>4, <2>5, <2>6 DEF Rooted
<1> QED BY <1>3, <1>4, <1>5, <1>6, <1>7, <1>8, <1>10, <1>11, <1>12, <1>13
        DEF QuietStep, HandlerStep


-----------------------------------------------------------------------------
(* A sign-out ends its sessions.                                           *)

LEMMA RootIsFixed ==
    ASSUME Rooted
    PROVE  /\ \A k \in Roots : k \in Issued /\ token[k].session = k
           /\ \A i \in Issued : token[i].session \in Issued
BY DEF Rooted, Roots

\* Every token of the sessions that a sweep ends is revoked by it or escapes.
LEMMA SweptSessions ==
    ASSUME TypeOK, Rooted, NEW r \in Requests, Sweep(r), NEW i \in Live'
    PROVE  /\ i \in Live /\ i \in Issued /\ i \notin request[r].targets
           /\ i \in Escaped(r) <=> token[i].session \in request[r].sessions
           /\ token'[i].session = IF i \in Escaped(r) THEN i ELSE token[i].session
<1>1. i \in Live /\ i \notin request[r].targets /\ i \in Issued
  BY SweepRows DEF Live
<1> QED BY <1>1, SweepRows DEF Escaped

LEMMA SignOutStep ==
    ASSUME TypeOK, Rooted, SignOutEndsSessions, RotationsInTime, SweepsMissNewOnly,
           NEW r \in Requests, QuietStep(r) \/ HandlerStep(r)
    PROVE  SignOutEndsSessions'
<1>1. CASE QuietStep(r)
  BY <1>1, QuietRows, IssuedSame DEF SignOutEndsSessions
<1>2. \A k \in ended : k \in Issued /\ token[k].session = k
  BY RootIsFixed DEF Rooted
<1>3. Live \subseteq Issued
  BY DEF Live
<1>4. CASE Issue(r)
  <2>1. ended' = ended
    BY <1>4, IssueEffect DEF OwnStep
  <2>2. ASSUME NEW i \in Live' PROVE token'[i].session \notin ended
    <3>1. CASE i \in Live
      BY <1>3, <1>4, <3>1, IssueRows DEF SignOutEndsSessions
    <3>2. CASE i = NextId
      BY <1>2, <1>4, <3>2, IssueRows
    <3> QED BY <1>4, <3>1, <3>2, IssueRows
  <2> QED BY <2>1, <2>2 DEF SignOutEndsSessions
<1>5. CASE Rotate(r)
  <2>1. ended' = ended
    BY <1>5, RotateEffect DEF OwnStep
  <2>2. ASSUME NEW i \in Live' PROVE token'[i].session \notin ended
    <3>1. CASE i \in Live
      BY <1>3, <1>5, <3>1, RotateRows DEF SignOutEndsSessions
    <3>2. CASE i = NextId /\ request[r].raced
      BY <1>2, <1>5, <3>2, RotateRows
    <3>3. CASE i = NextId /\ ~request[r].raced
      <4>1. InTime(r) /\ token'[i].session = SessionOf(r)
        BY <1>5, <3>3, RotateRows DEF InTime
      <4> QED BY <4>1 DEF RotationsInTime
    <3> QED BY <1>5, <3>1, <3>2, <3>3, RotateRows
  <2> QED BY <2>1, <2>2 DEF SignOutEndsSessions
<1>6. CASE Revoke(r)
  <2>1. ended' = ended \cup Over(r)
    BY <1>6, RevokeEffect
  <2>2. ASSUME NEW i \in Live' PROVE token'[i].session \notin ended \cup Over(r)
    <3>1. i \in Live \ {request[r].id} /\ token'[i].session = token[i].session
      BY <1>3, <1>6, RevokeRows
    <3>2. token[i].session \notin Over(r)
      BY <3>1 DEF Over
    <3> QED BY <3>1, <3>2 DEF SignOutEndsSessions
  <2> QED BY <2>1, <2>2 DEF SignOutEndsSessions
<1>7. CASE Sweep(r)
  <2>1. ended' = ended \cup request[r].sessions
    BY <1>7, SweepEffect
  <2>2. ASSUME NEW i \in Live' PROVE token'[i].session \notin ended \cup request[r].sessions
    <3>1. /\ i \in Live /\ i \notin request[r].targets
          /\ i \in Escaped(r) <=> token[i].session \in request[r].sessions
          /\ token'[i].session = IF i \in Escaped(r) THEN i ELSE token[i].session
      BY <1>7, SweptSessions
    <3>2. CASE i \in Escaped(r)
      <4>1. i \notin ended
        BY <1>2, <3>1 DEF SignOutEndsSessions
      <4>2. i \notin request[r].sessions
        BY <1>7, <3>1, SweepRows DEF SweepsMissNewOnly
      <4> QED BY <3>1, <3>2, <4>1, <4>2
    <3>3. CASE i \notin Escaped(r)
      BY <3>1, <3>3 DEF SignOutEndsSessions
    <3> QED BY <3>2, <3>3
  <2> QED BY <2>1, <2>2 DEF SignOutEndsSessions
<1> QED BY <1>1, <1>4, <1>5, <1>6, <1>7 DEF HandlerStep, QuietStep

-----------------------------------------------------------------------------
(* One live token per session.                                             *)

LEMMA OneLiveStep ==
    ASSUME TypeOK, Rooted, OneLiveTokenPerSession, RotationsInTime, SweepsMissNewOnly,
           NEW r \in Requests, QuietStep(r) \/ HandlerStep(r)
    PROVE  OneLiveTokenPerSession'
<1>1. CASE QuietStep(r)
  BY <1>1, QuietRows, IssuedSame DEF OneLiveTokenPerSession
<1>2. Live \subseteq Issued /\ \A i \in Live : token[i].session \in Issued
  BY RootIsFixed DEF Live
<1>3. CASE Issue(r)
  <2>1. forked' = forked /\ Live' = Live \cup {NextId} /\ NextId \notin Issued
    BY <1>3, IssueEffect, IssueRows
  <2>2. /\ token'[NextId].session = NextId
        /\ \A i \in Live : token'[i].session = token[i].session
    BY <1>2, <1>3, IssueRows
  <2> QED BY <1>2, <2>1, <2>2 DEF OneLiveTokenPerSession
<1>4. CASE Rotate(r)
  <2>1. /\ forked' = forked /\ Live' = (Live \ {request[r].id}) \cup {NextId}
        /\ NextId \notin Issued
    BY <1>4, RotateEffect, RotateRows
  <2>2. \A i \in Live : token'[i].session = token[i].session
    BY <1>2, <1>4, RotateRows
  <2>3. CASE request[r].raced
    <3>1. token'[NextId].session = NextId
      BY <1>4, <2>3, RotateRows
    <3> QED BY <1>2, <2>1, <2>2, <3>1 DEF OneLiveTokenPerSession
  <2>4. CASE ~request[r].raced
    <3>1. InTime(r) /\ token'[NextId].session = SessionOf(r)
      BY <1>4, <2>4, RotateRows DEF InTime
    <3>2. SessionOf(r) \notin forked =>
             \A j \in Live : token[j].session = SessionOf(r) => j = request[r].id
      BY <3>1 DEF RotationsInTime
    <3> QED BY <2>1, <2>2, <3>1, <3>2 DEF OneLiveTokenPerSession
  <2> QED BY <2>3, <2>4
<1>5. CASE Revoke(r)
  BY <1>2, <1>5, RevokeRows, RevokeEffect DEF OneLiveTokenPerSession
<1>6. CASE Sweep(r)
  <2>1. ASSUME NEW i \in Live'
        PROVE  /\ i \in Live /\ i \in Issued /\ i \notin request[r].targets
               /\ i \in Escaped(r) <=> token[i].session \in request[r].sessions
               /\ token'[i].session = IF i \in Escaped(r) THEN i ELSE token[i].session
               /\ i \notin request[r].sessions
    <3>1. /\ i \in Live /\ i \in Issued /\ i \notin request[r].targets
          /\ i \in Escaped(r) <=> token[i].session \in request[r].sessions
          /\ token'[i].session = IF i \in Escaped(r) THEN i ELSE token[i].session
      BY <1>6, SweptSessions
    <3>2. i \notin request[r].sessions
      BY <1>6, <3>1, SweepRows DEF SweepsMissNewOnly
    <3> QED BY <3>1, <3>2
  <2>2. ASSUME NEW i \in Live', NEW j \in Live', i \in Escaped(r),
               token'[i].session = token'[j].session
        PROVE  i = j
    <3>1. token'[i].session = i
      BY <2>1, <2>2
    <3>2. CASE j \in Escaped(r)
      BY <2>1, <2>2, <3>1, <3>2
    <3>3. CASE j \notin Escaped(r)
      <4>1. token[j].session = i
        BY <2>1, <2>2, <3>1, <3>3
      <4>2. token[i].session = i
        BY <2>1, <4>1, RootIsFixed DEF Rooted
      <4> QED BY <2>1, <2>2, <4>2
    <3> QED BY <3>2, <3>3
  <2>3. ASSUME NEW i \in Live', NEW j \in Live', i \notin Escaped(r), j \notin Escaped(r),
               token'[i].session = token'[j].session
        PROVE  i = j \/ token'[i].session \in forked
    BY <2>1, <2>3 DEF OneLiveTokenPerSession
  <2>4. forked' = forked
    BY <1>6, SweepEffect
  <2> QED BY <2>2, <2>3, <2>4 DEF OneLiveTokenPerSession
<1> QED BY <1>1, <1>3, <1>4, <1>5, <1>6 DEF HandlerStep, QuietStep


-----------------------------------------------------------------------------
(* RotationsInTime and SweepsMissNewOnly are preserved.                    *)

\* No rotation begins: those in time after the step were so before it, in a session
\* that has not ended and has no live token it did not have.
LEMMA NoNewRotation ==
    ASSUME RotationsInTime, forked \subseteq forked',
           \A q \in Requests : request'[q].pc = "rotate" /\ ~request'[q].raced =>
              /\ request[q].pc = "rotate" /\ ~request[q].raced
              /\ request'[q].id = request[q].id
              /\ token'[request[q].id].session = SessionOf(q)
              /\ SessionOf(q) \notin ended'
              /\ SessionOf(q) \notin forked =>
                    \A j \in Live' : token'[j].session = SessionOf(q) =>
                       j \in Live /\ token[j].session = SessionOf(q)
    PROVE  RotationsInTime'
<1>1. ASSUME NEW q \in Requests, request'[q].pc = "rotate" /\ ~request'[q].raced
      PROVE  /\ InTime(q)
             /\ request'[q].id = request[q].id
             /\ token'[request'[q].id].session = SessionOf(q)
             /\ SessionOf(q) \notin ended'
             /\ SessionOf(q) \notin forked =>
                   \A j \in Live' : token'[j].session = SessionOf(q) =>
                      j \in Live /\ token[j].session = SessionOf(q)
  BY <1>1 DEF InTime
<1>2. ASSUME NEW q \in Requests, request'[q].pc = "rotate" /\ ~request'[q].raced,
             SessionOf(q) \notin forked'
      PROVE  /\ \A j \in Live' : token'[j].session = SessionOf(q) => j = request'[q].id
             /\ \A p \in Requests :
                   /\ request'[p].pc = "rotate" /\ ~request'[p].raced
                   /\ token'[request'[p].id].session = SessionOf(q)
                   => p = q
  <2>1. SessionOf(q) \notin forked /\ InTime(q)
    BY <1>1, <1>2
  <2>2. /\ \A j \in Live : token[j].session = SessionOf(q) => j = request[q].id
        /\ \A p \in Requests : InTime(p) /\ SessionOf(p) = SessionOf(q) => p = q
    BY <2>1 DEF RotationsInTime
  <2> QED BY <1>1, <1>2, <2>1, <2>2
<1> QED BY <1>1, <1>2 DEF RotationsInTime, InTime, SessionOf

LEMMA RotationsStep ==
    ASSUME TypeOK, Rooted, SignOutEndsSessions, OneLiveTokenPerSession, RotationsInTime,
           NEW r \in Requests, QuietStep(r) \/ HandlerStep(r)
    PROVE  RotationsInTime'
<1>1. \A q \in Requests : request[q].pc = "rotate" => request[q].id \in Issued
  BY DEF TypeOK
<1>2. Live \subseteq Issued /\ \A i \in Issued : token[i].session \in Issued
  BY RootIsFixed DEF Live
<1>3. \A q \in Requests : request[q].pc = "rotate" /\ ~request[q].raced =>
         SessionOf(q) \notin ended /\ SessionOf(q) \in Issued
  BY <1>1, <1>2 DEF RotationsInTime, InTime, SessionOf
<1>4. ASSUME QuietStep(r), request'[r].pc # "rotate" PROVE RotationsInTime'
  <2>1. /\ UNCHANGED <<token, ended>> /\ forked \subseteq forked' /\ Live' = Live
        /\ \A q \in Requests : q # r => request'[q] = request[q]
    BY <1>4, QuietRows, IssuedSame DEF OthersSame
  <2> QED BY <1>3, <1>4, <2>1, NoNewRotation DEF SessionOf
<1>5. ASSUME NEW d \in Devices, DeviceStep(r, d) PROVE RotationsInTime'
  BY <1>4, <1>5, SendEffect DEF QuietStep
<1>6. CASE Register(r)
  BY <1>4, <1>6, RegisterEffect DEF QuietStep
<1>7. CASE LogoutLookup(r)
  BY <1>4, <1>7, LogoutLookupEffect DEF QuietStep
<1>8. CASE Collect(r)
  BY <1>4, <1>8, CollectEffect DEF QuietStep
<1>9. CASE Receive(r) \/ Lose(r)
  BY <1>4, <1>9, EndEffect, IdleRecord DEF QuietStep
<1>10. CASE Lookup(r) /\ request'[r].pc # "rotate"
  BY <1>4, <1>10 DEF QuietStep
<1>11. CASE Lookup(r) /\ request'[r].pc = "rotate"
  <2> DEFINE i == request[r].id
             s == SessionOf(r)
  <2>1. /\ i \in Issued /\ i \in Live /\ request'[r].id = i
        /\ request[r].pc = "lookup"
        /\ forked' = IF Rotating(i) = {} THEN forked ELSE forked \cup {s}
        /\ UNCHANGED <<token, ended>> /\ forked \subseteq forked' /\ Live' = Live
    BY <1>11, LookupEffect, QuietRows, IssuedSame DEF QuietStep
  <2>2. \A q \in Requests : q # r => request'[q] = request[q]
    BY <1>11, QuietRows DEF OthersSame, QuietStep
  <2>3. s \notin ended /\ s = token[i].session
    BY <2>1 DEF SignOutEndsSessions, SessionOf
  <2>4. s \notin forked => \A j \in Live : token[j].session = s => j = i
    BY <2>1, <2>3 DEF OneLiveTokenPerSession
  <2>5. ASSUME NEW q \in Requests \ {r}, InTime(q), SessionOf(q) = s, s \notin forked'
        PROVE  FALSE
    <3>1. s \notin forked
      BY <2>1, <2>5
    <3>2. i = request[q].id
      BY <2>1, <2>3, <2>5, <3>1 DEF RotationsInTime
    <3>3. q \in Rotating(i)
      BY <2>5, <3>2 DEF Rotating, InTime
    <3>4. s \in forked'
      BY <2>1, <3>3
    <3> QED BY <2>5, <3>4
  <2> HIDE DEF i, s
  <2>6. ASSUME NEW q \in Requests \ {r}, request'[q].pc = "rotate" /\ ~request'[q].raced
        PROVE  /\ InTime(q) /\ request'[q].id = request[q].id
               /\ token'[request'[q].id].session = SessionOf(q)
               /\ SessionOf(q) \notin ended'
               /\ SessionOf(q) \notin forked' =>
                     /\ \A j \in Live' : token'[j].session = SessionOf(q) => j = request'[q].id
                     /\ \A p \in Requests \ {r} : InTime(p) /\ SessionOf(p) = SessionOf(q)
                                                  => p = q
    <3>1. request'[q] = request[q] /\ InTime(q)
      BY <2>2, <2>6 DEF InTime
    <3>2. SessionOf(q) \notin ended /\ token'[request'[q].id].session = SessionOf(q)
      BY <2>1, <3>1 DEF RotationsInTime, SessionOf
    <3>3. SessionOf(q) \notin forked =>
             /\ \A j \in Live : token[j].session = SessionOf(q) => j = request[q].id
             /\ \A p \in Requests \ {r} : InTime(p) /\ SessionOf(p) = SessionOf(q) => p = q
      BY <3>1 DEF RotationsInTime
    <3> QED BY <2>1, <3>1, <3>2, <3>3
  <2>7. token'[request'[r].id].session = s
    BY <2>1, <2>3
  <2> QED BY <2>1, <2>2, <2>3, <2>4, <2>5, <2>6, <2>7 DEF RotationsInTime, InTime, SessionOf
<1>12. CASE Issue(r)
  <2>1. /\ forked' = forked /\ ended' = ended /\ Live' = Live \cup {NextId}
        /\ NextId \notin Issued /\ token'[NextId].session = NextId
        /\ \A j \in Issued : token'[j].session = token[j].session
    BY <1>12, IssueEffect, IssueRows DEF OwnStep
  <2>2. request'[r].pc = "cookies" /\ \A q \in Requests : q # r => request'[q] = request[q]
    BY <1>12, IssueEffect DEF OwnStep, OthersSame
  <2>3. \A q \in Requests : request[q].pc = "rotate" => SessionOf(q) = token[request[q].id].session
    BY DEF SessionOf
  <2> QED BY <1>1, <1>2, <1>3, <2>1, <2>2, <2>3, NoNewRotation
<1>13. CASE Rotate(r)
  <2>1. /\ forked' = forked /\ ended' = ended
        /\ Live' = (Live \ {request[r].id}) \cup {NextId}
        /\ NextId \notin Issued
        /\ \A j \in Issued : token'[j].session = token[j].session
        /\ token'[NextId].session = IF request[r].raced THEN NextId ELSE SessionOf(r)
        /\ request[r].pc = "rotate"
    BY <1>13, RotateEffect, RotateRows DEF OwnStep
  <2>2. request'[r].pc = "cookies" /\ \A q \in Requests : q # r => request'[q] = request[q]
    BY <1>13, RotateEffect DEF OwnStep, OthersSame
  <2>3. ASSUME NEW q \in Requests, q # r, InTime(q), SessionOf(q) \notin forked
        PROVE  token'[NextId].session # SessionOf(q)
    <3>1. CASE request[r].raced
      BY <1>3, <2>1, <2>3, <3>1 DEF InTime
    <3>2. CASE ~request[r].raced
      BY <2>1, <2>3, <3>2 DEF RotationsInTime, InTime
    <3> QED BY <3>1, <3>2
  <2>4. \A q \in Requests : request[q].pc = "rotate" => SessionOf(q) = token[request[q].id].session
    BY DEF SessionOf
  <2>5. ASSUME NEW q \in Requests, request'[q].pc = "rotate" /\ ~request'[q].raced
        PROVE  /\ request[q].pc = "rotate" /\ ~request[q].raced
               /\ request'[q].id = request[q].id
               /\ token'[request[q].id].session = SessionOf(q)
               /\ SessionOf(q) \notin ended'
               /\ SessionOf(q) \notin forked =>
                     \A j \in Live' : token'[j].session = SessionOf(q) =>
                        j \in Live /\ token[j].session = SessionOf(q)
    <3>1. q # r /\ request'[q] = request[q] /\ request[q].pc = "rotate" /\ ~request[q].raced
      BY <2>2, <2>5
    <3>2. SessionOf(q) \notin forked => token'[NextId].session # SessionOf(q)
      BY <2>3, <3>1 DEF InTime
    <3> QED BY <1>1, <1>2, <1>3, <2>1, <2>4, <3>1, <3>2
  <2> QED BY <2>1, <2>5, NoNewRotation
<1>14. CASE Revoke(r)
  <2>1. /\ forked' = forked /\ ended' = ended \cup Over(r) /\ Live' \subseteq Live
        /\ \A j \in Issued : token'[j].session = token[j].session
    BY <1>14, RevokeEffect, RevokeRows
  <2>2. ASSUME NEW q \in Requests, request'[q].pc = "rotate" /\ ~request'[q].raced
        PROVE  /\ request[q].pc = "rotate" /\ ~request[q].raced
               /\ request'[q].id = request[q].id
               /\ token'[request[q].id].session = SessionOf(q)
               /\ SessionOf(q) \notin ended'
               /\ SessionOf(q) \notin forked =>
                     \A j \in Live' : token'[j].session = SessionOf(q) =>
                        j \in Live /\ token[j].session = SessionOf(q)
    <3>1. /\ request[q].pc = "rotate" /\ ~request[q].raced /\ SessionOf(q) \notin Over(r)
          /\ request'[q].id = request[q].id
      BY <1>14, <2>2, RevokeEffect
    <3>2. token'[request[q].id].session = SessionOf(q)
      BY <1>1, <2>1, <3>1 DEF SessionOf
    <3> QED BY <1>2, <1>3, <2>1, <3>1, <3>2
  <2> QED BY <2>1, <2>2, NoNewRotation
<1>15. CASE Sweep(r)
  <2>1. /\ forked' = forked /\ ended' = ended \cup request[r].sessions
        /\ \A j \in Issued :
              token'[j].session = IF j \in Escaped(r) THEN j ELSE token[j].session
        /\ \A j \in Escaped(r) : token[j].session \in request[r].sessions
    BY <1>15, SweepEffect, SweepRows DEF Escaped
  <2>2. ASSUME NEW q \in Requests, request'[q].pc = "rotate" /\ ~request'[q].raced
        PROVE  /\ request[q].pc = "rotate" /\ ~request[q].raced
               /\ request'[q].id = request[q].id
               /\ token'[request[q].id].session = SessionOf(q)
               /\ SessionOf(q) \notin ended'
               /\ SessionOf(q) \notin forked =>
                     \A j \in Live' : token'[j].session = SessionOf(q) =>
                        j \in Live /\ token[j].session = SessionOf(q)
    <3>1. /\ request[q].pc = "rotate" /\ ~request[q].raced
          /\ SessionOf(q) \notin request[r].sessions
          /\ request'[q].id = request[q].id
      BY <1>15, <2>2, SweepEffect
    <3>2. token'[request[q].id].session = SessionOf(q)
      BY <1>1, <2>1, <3>1 DEF SessionOf
    <3>3. ASSUME NEW j \in Live', token'[j].session = SessionOf(q)
          PROVE  j \in Live /\ token[j].session = SessionOf(q)
      <4>1. j \in Live /\ token'[j].session = IF j \in Escaped(r) THEN j ELSE token[j].session
        BY <1>15, SweptSessions
      <4>2. j \notin Escaped(r)
        <5>1. SUFFICES ASSUME j \in Escaped(r) PROVE FALSE
          OBVIOUS
        <5>2. SessionOf(q) = j
          BY <3>3, <4>1, <5>1
        <5>3. token[j].session = j
          BY <1>1, <3>1, <5>2, RootIsFixed DEF Rooted, SessionOf
        <5> QED BY <2>1, <3>1, <5>1, <5>2, <5>3
      <4> QED BY <3>3, <4>1, <4>2
    <3> QED BY <1>3, <2>1, <3>1, <3>2, <3>3
  <2> QED BY <2>1, <2>2, NoNewRotation
<1> QED BY <1>5, <1>6, <1>7, <1>8, <1>9, <1>10, <1>11, <1>12, <1>13, <1>14, <1>15
        DEF QuietStep, HandlerStep


LEMMA SweepsStep ==
    ASSUME TypeOK, Rooted, SweepsMissNewOnly,
           NEW r \in Requests, QuietStep(r) \/ HandlerStep(r)
    PROVE  SweepsMissNewOnly'
<1>1. \A q \in Requests : request[q].sessions \subseteq Issued
  BY RootIsFixed DEF Rooted
<1>2. ASSUME QuietStep(r), request'[r].pc # "sweep" PROVE SweepsMissNewOnly'
  BY <1>2, QuietRows, IssuedSame DEF OthersSame, SweepsMissNewOnly
<1>3. ASSUME NEW d \in Devices, DeviceStep(r, d) PROVE SweepsMissNewOnly'
  BY <1>2, <1>3, SendEffect DEF QuietStep
<1>4. CASE Register(r)
  BY <1>2, <1>4, RegisterEffect DEF QuietStep
<1>5. CASE Lookup(r)
  BY <1>2, <1>5, LookupEffect DEF QuietStep
<1>6. CASE LogoutLookup(r)
  BY <1>2, <1>6, LogoutLookupEffect DEF QuietStep
<1>7. CASE Receive(r) \/ Lose(r)
  BY <1>2, <1>7, EndEffect, IdleRecord DEF QuietStep
<1>8. CASE Collect(r)
  <2>1. ASSUME NEW i \in Live \ Active(r)
        PROVE  i \notin {token[k].session : k \in Active(r)}
    <3>1. SUFFICES ASSUME NEW k \in Active(r), i = token[k].session
                   PROVE  FALSE
      OBVIOUS
    <3>2. k \in Issued /\ token[k].user = request[r].user
      BY <3>1 DEF Active, Live
    <3>3. token[i].user = token[k].user
      BY <3>1, <3>2 DEF Rooted
    <3>4. i \in Active(r)
      BY <3>2, <3>3 DEF Active
    <3> QED BY <2>1, <3>4
  <2>2. /\ Live' = Live /\ request'[r].targets = Active(r)
        /\ request'[r].sessions = {token[k].session : k \in Active(r)}
        /\ \A q \in Requests : q # r => request'[q] = request[q]
    BY <1>8, CollectEffect, IssuedSame DEF OwnStep, OthersSame
  <2>3. \A i \in Live \ request'[r].targets : i \notin request'[r].sessions
    BY <2>1, <2>2
  <2> QED BY <2>2, <2>3 DEF SweepsMissNewOnly
<1>9. ASSUME OwnStep(r), request'[r].pc = "cookies", NextId \notin Issued,
             Live' \subseteq Live \cup {NextId}
      PROVE  SweepsMissNewOnly'
  BY <1>1, <1>9 DEF OwnStep, OthersSame, SweepsMissNewOnly
<1>10. CASE Issue(r)
  BY <1>9, <1>10, IssueEffect, IssueRows
<1>11. CASE Rotate(r)
  BY <1>9, <1>11, RotateEffect, RotateRows
<1>12. CASE Revoke(r)
  BY <1>12, RevokeEffect, RevokeRows DEF SweepsMissNewOnly
<1>13. CASE Sweep(r)
  BY <1>13, SweepEffect, SweepRows DEF SweepsMissNewOnly
<1> QED BY <1>3, <1>4, <1>5, <1>6, <1>7, <1>8, <1>10, <1>11, <1>12, <1>13
        DEF QuietStep, HandlerStep

-----------------------------------------------------------------------------
(* TokensOfOneDevice is preserved.                                         *)

LEMMA TokensStep ==
    ASSUME TypeOK, Rooted, TokensOfOneDevice,
           NEW r \in Requests, QuietStep(r) \/ HandlerStep(r)
    PROVE  TokensOfOneDevice'
<1>1. /\ \A d \in Devices : cookie[d] \in Issued \cup {None}
      /\ \A q \in Requests : request[q].id \in Issued \cup {None}
  BY DEF TypeOK
\* The cookies stay, and no request but r has another token than before.
<1>2. ASSUME UNCHANGED cookie, OthersSame(r),
             \/ request'[r].id = None
             \/ request'[r].id = request[r].id /\ request'[r].device = request[r].device
             \/ request'[r].device \in Devices /\ request'[r].id = cookie[request'[r].device]
             \/ request'[r].id \notin Issued
      PROVE  TokensOfOneDevice'
  <2>1. \A q \in Requests : q # r => request'[q] = request[q]
    BY <1>2 DEF OthersSame
  <2>2. CASE request'[r].id = None
    BY <1>2, <2>1, <2>2 DEF TokensOfOneDevice
  <2>3. CASE request'[r].id = request[r].id /\ request'[r].device = request[r].device
    BY <1>2, <2>1, <2>3 DEF TokensOfOneDevice
  <2>4. CASE request'[r].device \in Devices /\ request'[r].id = cookie[request'[r].device]
    BY <1>2, <2>1, <2>4 DEF TokensOfOneDevice
  <2>5. CASE request'[r].id \notin Issued /\ request'[r].id # None
    BY <1>1, <1>2, <2>1, <2>5 DEF TokensOfOneDevice
  <2> QED BY <1>2, <2>2, <2>3, <2>4, <2>5
<1>3. ASSUME NEW d \in Devices, DeviceStep(r, d) PROVE TokensOfOneDevice'
  BY <1>2, <1>3, SendEffect
<1>4. CASE Register(r)
  BY <1>2, <1>4, RegisterEffect DEF OwnStep, SameAsked
<1>5. CASE Issue(r)
  BY <1>2, <1>5, IssueEffect, IssueRows DEF OwnStep, SameAsked
<1>6. CASE Lookup(r)
  BY <1>2, <1>6, LookupEffect DEF OwnStep, SameAsked
<1>7. CASE Rotate(r)
  BY <1>2, <1>7, RotateEffect, RotateRows DEF OwnStep, SameAsked
<1>8. CASE LogoutLookup(r)
  BY <1>2, <1>8, LogoutLookupEffect DEF OwnStep, SameAsked
<1>9. CASE Collect(r)
  BY <1>2, <1>9, CollectEffect DEF OwnStep, SameAsked
<1>10. CASE Revoke(r)
  BY <1>10, RevokeEffect DEF TokensOfOneDevice
<1>11. CASE Sweep(r)
  BY <1>11, SweepEffect DEF TokensOfOneDevice
<1>12. CASE Lose(r)
  BY <1>2, <1>12, EndEffect, IdleRecord
<1>13. CASE Receive(r)
  <2> DEFINE d == request[r].device
  <2>1. d \in Devices
    BY <1>13, EndEffect DEF Request
  <2>2. /\ cookie'[d] = Cookies(r) /\ \A c \in Devices \ {d} : cookie'[c] = cookie[c]
        /\ request'[r] = Idle /\ \A q \in Requests : q # r => request'[q] = request[q]
    BY <1>13, <2>1, EndEffect DEF OthersSame, TypeOK
  <2>3. Cookies(r) \in {request[r].id, None, cookie[d]}
    BY DEF Cookies
  <2>4. \A c \in Devices : cookie'[d] # None /\ cookie'[d] = cookie[c] => c = d
    BY <2>1, <2>2, <2>3 DEF TokensOfOneDevice
  <2>5. \A q \in Requests : cookie'[d] # None /\ cookie'[d] = request[q].id
                            => request[q].device = d
    BY <2>1, <2>2, <2>3 DEF TokensOfOneDevice
  <2>6. Idle.id = None
    BY IdleRecord
  <2> HIDE DEF d
  <2>7. \A b, c \in Devices : cookie'[b] = cookie'[c] /\ cookie'[b] # None => b = c
    BY <2>1, <2>2, <2>4 DEF TokensOfOneDevice
  <2>8. \A q \in Requests, c \in Devices :
           request'[q].id # None /\ request'[q].id = cookie'[c] => request'[q].device = c
    BY <2>1, <2>2, <2>5, <2>6 DEF TokensOfOneDevice
  <2>9. \A p, q \in Requests :
           request'[p].id # None /\ request'[p].id = request'[q].id
              => request'[p].device = request'[q].device
    BY <2>2, <2>6 DEF TokensOfOneDevice
  <2> QED BY <2>7, <2>8, <2>9 DEF TokensOfOneDevice
<1> QED BY <1>3, <1>4, <1>5, <1>6, <1>7, <1>8, <1>9, <1>10, <1>11, <1>12, <1>13
        DEF QuietStep, HandlerStep


-----------------------------------------------------------------------------
(* UndisturbedAlive and ReuseMeansDisturbance are preserved.               *)

\* A device that a step does not touch: its requests, its cookies and the tokens in
\* them stay as they are.
LEMMA AliveElsewhere ==
    ASSUME NEW d \in Devices, AliveOn(d), cookie'[d] = cookie[d],
           \A q \in Requests : request'[q].device = d <=> request[q].device = d,
           \A q \in InFlight(d) : /\ request'[q].pc = request[q].pc
                                  /\ request'[q].id = request[q].id
                                  /\ request[q].id \in Live => request[q].id \in Live',
           cookie[d] \in Live => cookie[d] \in Live'
    PROVE  AliveOn(d)'
<1>1. InFlight(d)' = InFlight(d)
  BY DEF InFlight
<1> QED BY <1>1 DEF AliveOn

\* The device of r, which had no other request in flight and has none.
LEMMA AliveHere ==
    ASSUME NEW d \in Devices, NEW r \in Requests,
           \A q \in Requests : request'[q].device = d <=> q = r,
           request'[r].pc \in {"register", "lookup", "error"} => cookie'[d] \in Live' \cup {None},
           request'[r].pc \in {"lookup", "cookies"} => request'[r].id \in Live'
    PROVE  AliveOn(d)'
<1>1. InFlight(d)' = {r}
  BY DEF InFlight
<1> QED BY <1>1 DEF AliveOn

\* r is the one request of its device.
LEMMA OnlyRequest ==
    ASSUME NEW r \in Requests, AliveOn(request[r].device)
    PROVE  /\ \A q \in Requests : request[q].device = request[r].device <=> q = r
           /\ request[r].pc \in {"register", "lookup", "error"}
                 => cookie[request[r].device] \in Live \cup {None}
           /\ request[r].pc \in {"lookup", "cookies"} => request[r].id \in Live
<1>1. \A q \in Requests : request[q].device = request[r].device => q = r
  BY DEF AliveOn, InFlight
<1>2. InFlight(request[r].device) = {r}
  BY <1>1 DEF InFlight
<1> QED BY <1>1, <1>2 DEF AliveOn

\* A step of r that revokes no other token than its own.
LEMMA AliveAfterOwn ==
    ASSUME TypeOK, UndisturbedAlive, TokensOfOneDevice, NEW r \in Requests, OwnStep(r),
           Live \subseteq Live' \cup {request[r].id},
           AliveOn(request[r].device) =>
              /\ request'[r].pc \in {"register", "lookup", "error"} =>
                    cookie[request[r].device] \in Live' \cup {None}
              /\ request'[r].pc \in {"lookup", "cookies"} => request'[r].id \in Live'
    PROVE  UndisturbedAlive'
<1>1. /\ disturbed' = disturbed /\ cookie' = cookie
      /\ request'[r].device = request[r].device /\ request[r].device \in Devices
      /\ \A q \in Requests : q # r => request'[q] = request[q]
  BY DEF OwnStep, OthersSame, SameAsked, Request
<1>2. ASSUME NEW d \in Devices \ disturbed
      PROVE  AliveOn(d)'
  <2>1. AliveOn(d)
    BY DEF UndisturbedAlive
  <2>2. CASE d = request[r].device
    BY <1>1, <2>1, <2>2, OnlyRequest, AliveHere
  <2>3. CASE d # request[r].device
    <3>1. \A q \in InFlight(d) : q # r /\ q \in Requests /\ request[q].device = d
      BY <2>3 DEF InFlight
    <3>2. ASSUME NEW i \in Live, i = cookie[d] \/ \E q \in InFlight(d) : i = request[q].id
          PROVE  i \in Live'
      <4>1. i # None
        BY IdsNotNone DEF Live, Issued
      <4>2. i # request[r].id
        BY <2>3, <3>1, <3>2, <4>1 DEF TokensOfOneDevice
      <4> QED BY <4>2
    <3> QED BY <1>1, <2>1, <2>3, <3>1, <3>2, AliveElsewhere
  <2> QED BY <2>2, <2>3
<1> QED BY <1>1, <1>2 DEF UndisturbedAlive

LEMMA AliveStep ==
    ASSUME TypeOK, Rooted, TokensOfOneDevice, UndisturbedAlive, ReuseMeansDisturbance,
           NEW r \in Requests, QuietStep(r) \/ HandlerStep(r)
    PROVE  UndisturbedAlive'
<1>1. ASSUME NEW d \in Devices, DeviceStep(r, d) PROVE UndisturbedAlive'
  <2>1. /\ request[r] = Idle /\ request'[r].device = d /\ cookie' = cookie /\ Live' = Live
        /\ \A q \in Requests : q # r => request'[q] = request[q]
        /\ disturbed' = IF InFlight(d) = {} THEN disturbed ELSE disturbed \cup {d}
    BY <1>1, SendEffect, IssuedSame DEF OthersSame
  <2>2. Idle.device \notin Devices
    BY IdleRecord, SessionAssumption
  <2>3. ASSUME NEW c \in Devices \ disturbed'
        PROVE  AliveOn(c)'
    <3>1. AliveOn(c)
      BY <2>1, <2>3 DEF UndisturbedAlive
    <3>2. CASE c # d
      <4>1. \A q \in Requests : request'[q].device = c <=> request[q].device = c
        BY <2>1, <2>2, <3>2
      <4>2. \A q \in InFlight(c) : request'[q] = request[q]
        BY <2>1, <2>2 DEF InFlight
      <4> QED BY <2>1, <3>1, <4>1, <4>2, AliveElsewhere
    <3>3. CASE c = d
      <4>1. InFlight(d) = {}
        BY <2>1, <2>3, <3>3
      <4>2. cookie[d] \in Live \cup {None}
        BY <3>1, <3>3, <4>1 DEF AliveOn
      <4>3. \A q \in Requests : request'[q].device = d <=> q = r
        BY <2>1, <4>1 DEF InFlight
      <4>4. request'[r].pc = "lookup" => request'[r].id \in Live
        BY <1>1, <4>2, SendEffect
      <4>5. request'[r].pc # "cookies"
        BY <1>1, SendEffect
      <4> QED BY <2>1, <3>3, <4>2, <4>3, <4>4, <4>5, AliveHere
    <3> QED BY <3>2, <3>3
  <2> QED BY <2>3 DEF UndisturbedAlive
<1>2. ASSUME OwnStep(r), Live' = Live,
             request'[r].pc \notin {"register", "lookup", "cookies"},
             request'[r].pc = "error" => request[r].pc \in {"register", "lookup", "error"}
      PROVE  UndisturbedAlive'
  BY <1>2, OnlyRequest, AliveAfterOwn
<1>3. CASE Register(r)
  BY <1>2, <1>3, RegisterEffect, IssuedSame
<1>4. CASE Lookup(r)
  BY <1>2, <1>4, LookupEffect, IssuedSame
<1>5. CASE LogoutLookup(r)
  BY <1>2, <1>5, LogoutLookupEffect, IssuedSame
<1>6. CASE Collect(r)
  BY <1>2, <1>6, CollectEffect, IssuedSame
<1>7. CASE Issue(r)
  BY <1>7, IssueEffect, IssueRows, AliveAfterOwn
<1>8. CASE Rotate(r)
  BY <1>8, RotateEffect, RotateRows, AliveAfterOwn
<1>9. CASE Revoke(r)
  <2>1. /\ disturbed' = disturbed /\ cookie' = cookie /\ Live' = Live \ {request[r].id}
        /\ \A q \in Requests : /\ request'[q].device = request[q].device
                               /\ request'[q].id = request[q].id
                               /\ q # r => request'[q].pc = request[q].pc
        /\ request'[r].pc = "clear"
    BY <1>9, RevokeEffect, RevokeRows
  <2>2. ASSUME NEW d \in Devices \ disturbed
        PROVE  AliveOn(d)'
    <3>1. AliveOn(d)
      BY DEF UndisturbedAlive
    <3>2. CASE d = request[r].device
      BY <2>1, <3>1, <3>2, OnlyRequest, AliveHere
    <3>3. CASE d # request[r].device
      <4>1. \A q \in InFlight(d) : q # r /\ q \in Requests /\ request[q].device = d
        BY <3>3 DEF InFlight
      <4>2. ASSUME NEW i \in Live, i = cookie[d] \/ \E q \in InFlight(d) : i = request[q].id
            PROVE  i \in Live'
        <5>1. i # None
          BY IdsNotNone DEF Live, Issued
        <5>2. i # request[r].id
          BY <3>3, <4>1, <4>2, <5>1 DEF TokensOfOneDevice
        <5> QED BY <2>1, <5>2
      <4> QED BY <2>1, <3>1, <4>1, <4>2, AliveElsewhere
    <3> QED BY <3>2, <3>3
  <2> QED BY <2>1, <2>2 DEF UndisturbedAlive
<1>10. CASE Sweep(r)
  <2> DEFINE T == request[r].targets
  <2>1. /\ disturbed' = disturbed \cup
              {d \in Devices : cookie[d] \in T \/ \E q \in InFlight(d) : request[q].id \in T}
        /\ cookie' = cookie /\ Live' = Live \ T
        /\ \A q \in Requests : /\ request'[q].device = request[q].device
                               /\ request'[q].id = request[q].id
                               /\ q # r => request'[q].pc = request[q].pc
        /\ request[r].pc = "sweep"
        /\ request'[r].pc \in {"clear", "error"}
        /\ request'[r].pc = "error" => request[r].kind = "refresh"
    BY <1>10, SweepEffect, SweepRows
  <2> HIDE DEF T
  <2>2. ASSUME NEW d \in Devices \ disturbed'
        PROVE  AliveOn(d)'
    <3>1. AliveOn(d) /\ d \notin disturbed
      BY <2>1, <2>2 DEF UndisturbedAlive
    <3>2. CASE d = request[r].device
      <4>1. request'[r].pc = "clear"
        BY <2>1, <3>1, <3>2 DEF ReuseMeansDisturbance
      <4> QED BY <2>1, <3>1, <3>2, <4>1, OnlyRequest, AliveHere
    <3>3. CASE d # request[r].device
      <4>1. \A q \in InFlight(d) : q # r /\ q \in Requests /\ request[q].device = d
        BY <3>3 DEF InFlight
      <4>2. cookie[d] \notin T /\ \A q \in InFlight(d) : request[q].id \notin T
        BY <2>1, <2>2
      <4> QED BY <2>1, <3>1, <4>1, <4>2, AliveElsewhere
    <3> QED BY <3>2, <3>3
  <2> QED BY <2>2 DEF UndisturbedAlive
<1>11. CASE Receive(r) \/ Lose(r)
  <2> DEFINE d == request[r].device
  <2>1. /\ d \in Devices /\ request'[r] = Idle /\ Live' = Live
        /\ \A q \in Requests : q # r => request'[q] = request[q]
        /\ disturbed \subseteq disturbed'
        /\ \A c \in Devices \ {d} : cookie'[c] = cookie[c]
        /\ Lose(r) => d \in disturbed'
        /\ Receive(r) => /\ cookie'[d] = Cookies(r)
                         /\ request[r].pc \in {"cookies", "clear", "error"}
    BY <1>11, EndEffect, IssuedSame DEF OthersSame, TypeOK, Request
  <2>2. Idle.device \notin Devices
    BY IdleRecord, SessionAssumption
  <2>3. ASSUME NEW c \in Devices \ disturbed'
        PROVE  AliveOn(c)'
    <3>1. AliveOn(c)
      BY <2>1, <2>3 DEF UndisturbedAlive
    <3>2. CASE c # d
      <4>1. \A q \in Requests : request'[q].device = c <=> request[q].device = c
        BY <2>1, <2>2, <3>2
      <4>2. \A q \in InFlight(c) : request'[q] = request[q]
        BY <2>1, <3>2 DEF InFlight
      <4> QED BY <2>1, <3>1, <3>2, <4>1, <4>2, AliveElsewhere
    <3>3. CASE c = d
      <4>1. Receive(r)
        BY <1>11, <2>1, <2>3, <3>3
      <4>2. cookie'[d] \in Live \cup {None}
        BY <2>1, <3>1, <3>3, <4>1, OnlyRequest DEF Cookies
      <4>3. InFlight(c)' = {}
        BY <2>1, <2>2, <3>1, <3>3, OnlyRequest DEF InFlight
      <4> QED BY <2>1, <3>3, <4>2, <4>3 DEF AliveOn
    <3> QED BY <3>2, <3>3
  <2> QED BY <2>3 DEF UndisturbedAlive
<1> QED BY <1>1, <1>3, <1>4, <1>5, <1>6, <1>7, <1>8, <1>9, <1>10, <1>11
        DEF QuietStep, HandlerStep


LEMMA ReuseStep ==
    ASSUME TypeOK, UndisturbedAlive, ReuseMeansDisturbance,
           NEW r \in Requests, QuietStep(r) \/ HandlerStep(r)
    PROVE  ReuseMeansDisturbance'
<1>1. ASSUME OthersSame(r), disturbed \subseteq disturbed',
             request'[r].kind = "refresh" /\ request'[r].pc \in {"collect", "sweep"} =>
                request'[r].device \in disturbed'
      PROVE  ReuseMeansDisturbance'
  BY <1>1 DEF OthersSame, ReuseMeansDisturbance
<1>2. ASSUME NEW d \in Devices, DeviceStep(r, d) PROVE ReuseMeansDisturbance'
  BY <1>1, <1>2, SendEffect
<1>3. CASE Register(r)
  BY <1>1, <1>3, RegisterEffect DEF OwnStep
<1>4. CASE Issue(r)
  BY <1>1, <1>4, IssueEffect DEF OwnStep
<1>5. CASE Lookup(r)
  <2>1. request[r].device \in Devices
    BY <1>5, LookupEffect DEF OwnStep, Request
  <2>2. request'[r].pc = "collect" => request[r].device \in disturbed
    BY <1>5, <2>1, LookupEffect, OnlyRequest DEF UndisturbedAlive
  <2> QED BY <1>1, <1>5, <2>2, LookupEffect DEF OwnStep, SameAsked
<1>6. CASE Rotate(r)
  BY <1>1, <1>6, RotateEffect DEF OwnStep
<1>7. CASE LogoutLookup(r)
  BY <1>1, <1>7, LogoutLookupEffect DEF OwnStep
<1>8. CASE Collect(r)
  BY <1>1, <1>8, CollectEffect DEF OwnStep, SameAsked, ReuseMeansDisturbance
<1>9. CASE Revoke(r)
  BY <1>9, RevokeEffect DEF ReuseMeansDisturbance
<1>10. CASE Sweep(r)
  BY <1>10, SweepEffect DEF ReuseMeansDisturbance
<1>11. CASE Receive(r) \/ Lose(r)
  BY <1>1, <1>11, EndEffect, IdleRecord
<1> QED BY <1>2, <1>3, <1>4, <1>5, <1>6, <1>7, <1>8, <1>9, <1>10, <1>11
        DEF QuietStep, HandlerStep

-----------------------------------------------------------------------------
(* The theorems.                                                           *)

LEMMA InitIInv == Init => IInv
<1> SUFFICES ASSUME Init PROVE IInv
  OBVIOUS
<1>1. Issued = {} /\ Live = {}
  BY DEF Init, Issued, Live
<1>2. \A r \in Requests : /\ request[r] = Idle /\ request[r].pc = "idle"
                          /\ request[r].id = None /\ request[r].targets = {}
                          /\ request[r].sessions = {} /\ request[r].device = None
  BY IdleRecord DEF Init
<1>3. TypeOK
  <2>1. 0 \in 0 .. TokenBound /\ Issued = 1 .. 0
    BY <1>1, SessionAssumption
  <2>2. /\ accounts \subseteq Users /\ token \in [Ids -> Token \cup {None}]
        /\ cookie \in [Devices -> Issued \cup {None}]
        /\ request \in [Requests -> Request \cup {Idle}]
        /\ ended \subseteq Ids /\ forked \subseteq Ids /\ disturbed \subseteq Devices
    BY SessionAssumption DEF Init
  <2> QED BY <1>2, <2>1, <2>2 DEF TypeOK
<1>4. Rooted
  BY <1>1, <1>2 DEF Init, Rooted
<1>5. SignOutEndsSessions /\ OneLiveTokenPerSession
  BY <1>1 DEF SignOutEndsSessions, OneLiveTokenPerSession
<1>6. RotationsInTime /\ SweepsMissNewOnly
  BY <1>2 DEF RotationsInTime, SweepsMissNewOnly, InTime
<1>7. TokensOfOneDevice
  BY <1>2 DEF Init, TokensOfOneDevice
<1>8. UndisturbedAlive
  <2>1. ASSUME NEW d \in Devices PROVE InFlight(d) = {} /\ cookie[d] = None
    BY <1>2, SessionAssumption DEF Init, InFlight
  <2> QED BY <2>1 DEF UndisturbedAlive, AliveOn
<1>9. ReuseMeansDisturbance
  BY <1>2 DEF ReuseMeansDisturbance
<1> QED BY <1>3, <1>4, <1>5, <1>6, <1>7, <1>8, <1>9 DEF IInv

LEMMA NextIInv == IInv /\ [Next]_vars => IInv'
<1> SUFFICES ASSUME IInv, [Next]_vars PROVE IInv'
  OBVIOUS
<1> USE DEF IInv
<1>1. CASE UNCHANGED vars
  <2>1. Issued' = Issued /\ Live' = Live
    BY <1>1 DEF vars, Issued, Live
  <2>2. TypeOK'
    BY <1>1, <2>1 DEF vars, TypeOK
  <2>3. Rooted'
    BY <1>1, <2>1 DEF vars, Rooted, Roots
  <2>4. SignOutEndsSessions' /\ OneLiveTokenPerSession'
    BY <1>1, <2>1 DEF vars, SignOutEndsSessions, OneLiveTokenPerSession
  <2>5. RotationsInTime' /\ SweepsMissNewOnly'
    BY <1>1, <2>1 DEF vars, RotationsInTime, InTime, SessionOf, SweepsMissNewOnly
  <2>6. TokensOfOneDevice' /\ ReuseMeansDisturbance'
    BY <1>1 DEF vars, TokensOfOneDevice, ReuseMeansDisturbance
  <2>7. UndisturbedAlive'
    BY <1>1, <2>1 DEF vars, UndisturbedAlive, AliveOn, InFlight
  <2> QED BY <2>2, <2>3, <2>4, <2>5, <2>6, <2>7
<1>2. ASSUME NEW r \in Requests, QuietStep(r) \/ HandlerStep(r)
      PROVE  IInv'
  <2>1. TypeOK'
    BY <1>2, DeviceStepType, HandlerStepType, EndType DEF QuietStep, HandlerStep
  <2>2. Rooted' /\ SignOutEndsSessions' /\ OneLiveTokenPerSession'
    BY <1>2, RootedStep, SignOutStep, OneLiveStep
  <2>3. RotationsInTime' /\ SweepsMissNewOnly' /\ TokensOfOneDevice'
    BY <1>2, RotationsStep, SweepsStep, TokensStep
  <2>4. UndisturbedAlive' /\ ReuseMeansDisturbance'
    BY <1>2, AliveStep, ReuseStep
  <2> QED BY <2>1, <2>2, <2>3, <2>4
<1>3. CASE Next
  BY <1>2, <1>3 DEF Next, QuietStep
<1> QED BY <1>1, <1>3

LEMMA Inductive == Spec => []IInv
BY InitIInv, NextIInv, PTL DEF Spec

\* The variables keep their types: the rows are numbered without a gap, and no cookie,
\* request or sweep refers to a row that was never committed.
THEOREM SessionsTypeOK == Spec => []TypeOK
<1>1. IInv => TypeOK
  BY DEF IInv
<1> QED BY <1>1, Inductive, PTL

\* logout, logout from all devices and the sign-out that a reused token starts
\* (auth_service.py:203): no token of a session they ended is alive afterwards.
THEOREM SignOutIsFinal == Spec => []SignOutEndsSessions
<1>1. IInv => SignOutEndsSessions
  BY DEF IInv
<1> QED BY <1>1, Inductive, PTL

\* refresh_access_token (auth_service.py:142): a session has one live token, unless
\* two rotations of one token were under way together.
THEOREM RotationKeepsOneToken == Spec => []OneLiveTokenPerSession
<1>1. IInv => OneLiveTokenPerSession
  BY DEF IInv
<1> QED BY <1>1, Inductive, PTL

\* auth_service.py:171: a refresh signs out all devices only on account of a device
\* that lost an answer, sent requests that overlapped or was signed out from elsewhere.
THEOREM ReuseIsNeverSpurious == Spec => []ReuseMeansDisturbance
<1>1. IInv => ReuseMeansDisturbance
  BY DEF IInv
<1> QED BY <1>1, Inductive, PTL

-----------------------------------------------------------------------------
(* The inductive invariant of LoginAdmission.                              *)

Keys(order)     == {order[i] : i \in DOMAIN order}
Distinct(order) == \A i, j \in DOMAIN order : order[i] = order[j] => i = j

\* What was taken off the front of all to leave times is older than start.
Remains(times, all, start) ==
    LET taken == Len(all) - Len(times)
    IN  /\ taken >= 0
        /\ \A i \in 1 .. Len(times) : times[i] = all[i + taken]
        /\ \A i \in 1 .. taken : all[i] < start

\* A client: its deque holds the last of its admissions, at most the limit; the window
\* holds wherever it is placed; the client was told to come back when the first of its
\* hits has left the window.
ClientSound(times, all, told, now) ==
    /\ times \in Times /\ all \in Times /\ told \in Nat \cup {Never}
    /\ Remains(times, all, now - Window)
    /\ Len(times) <= MaxRequests
    /\ \A i \in 1 .. Len(all) :
          i + MaxRequests <= Len(all) => all[i + MaxRequests] - all[i] > Window
    /\ told # Never /\ times # <<>> => times[1] + Window < told

\* The clients are in the order of their last requests.
SeenInOrder ==
    /\ IsFiniteSet({d \in Clients : lastSeen[d] # Never})
    /\ \A c \in Clients : lastSeen[c] # Never => lastSeen[c] <= clock
    /\ \A i \in DOMAIN hitOrder : lastSeen[hitOrder[i]] # Never
    /\ \A i, j \in DOMAIN hitOrder :
          i < j => lastSeen[hitOrder[i]] <= lastSeen[hitOrder[j]]

\* The requests that have passed the lockout of an account, their outcome open.
Verifying(progress, e) ==
    {r \in Logins : progress[r].pc = "verifying" /\ progress[r].email = e}

Open(progress, e) == Cardinality(Verifying(progress, e))

\* How much later than a failure the first is that must be out of its window.
Burst == MaxFailed + Cardinality(Logins) - 1

\* An account with open requests that may fail yet: its deque holds the last of its
\* failures, in their order; it was told to come back when the last has been locked out
\* for long enough; what the open requests may add finds room in the window.
EmailSound(times, all, told, open, now) ==
    /\ times \in Times /\ all \in Times /\ told \in Nat \cup {Never}
    /\ Remains(times, all, now - FailWindow + 1)
    /\ \A i \in 1 .. Len(times) : times[i] <= now
    /\ \A i, j \in 1 .. Len(times) : i <= j => times[i] <= times[j]
    /\ told # Never /\ times # <<>> => times[Len(times)] + LockoutTime < told
    /\ \A i \in 1 .. Len(all) : i + Burst - open <= Len(all) => all[i] <= now - FailWindow
    /\ \A i \in 1 .. Len(all) : i + Burst <= Len(all) => all[i + Burst] - all[i] >= FailWindow

ClientsSound ==
    \A c \in Clients : ClientSound(hits[c], served[c], toldClient[c], clock)

EmailsSound ==
    \A e \in Emails :
        EmailSound(failed[e], failures[e], toldEmail[e], Open(login, e), clock)

AdmissionIInv == AdmissionTypeOK /\ ClientsSound /\ SeenInOrder /\ EmailsSound

-----------------------------------------------------------------------------
(* Deques.                                                                 *)

\* The loop that drops what is older than start stops somewhere.
LEMMA ExpiredFacts ==
    ASSUME NEW times \in Seq(Int), NEW start \in Int
    PROVE  /\ Expired(times, start) \in 0 .. Len(times)
           /\ \A i \in 1 .. Expired(times, start) : times[i] < start
           /\ Expired(times, start) < Len(times)
                 => times[Expired(times, start) + 1] >= start
<1> DEFINE less == OpToRel(<, Nat)
           stops == {n \in Nat : n = Len(times) \/ (n < Len(times) /\ times[n + 1] >= start)}
<1>1. \A x, y \in Nat : <<x, y>> \in less <=> x < y
  BY DEF OpToRel
<1>2. IsWellFoundedOn(less, Nat)
  BY NatLessThanWellFounded
<1>3. Len(times) \in Nat /\ \A i \in 1 .. Len(times) : times[i] \in Int
  BY LenProperties, ElementOfSeq
<1>4. stops \subseteq Nat /\ Len(times) \in stops
  BY <1>3
<1> HIDE DEF less
<1>5. PICK n \in stops : \A m \in stops : <<m, n>> \notin less
  <2> HIDE DEF stops
  <2> QED BY <1>2, <1>4, WFMin
<1>6. n \in Nat /\ n <= Len(times) /\ \A m \in stops : n <= m
  <2> HIDE DEF stops
  <2>1. n \in Nat /\ \A m \in stops : m \in Nat
    BY <1>4
  <2>2. \A m \in stops : ~(m < n)
    BY <1>1, <1>5, <2>1
  <2>3. \A m \in stops : n <= m
    BY <2>1, <2>2
  <2> QED BY <1>4, <2>1, <2>3
<1>7. n < Len(times) => times[n + 1] >= start
  BY <1>3, <1>5
<1>8. ASSUME NEW i \in 1 .. n PROVE times[i] < start
  <2>1. i - 1 \in Nat /\ i - 1 < n /\ i - 1 < Len(times) /\ times[i] \in Int
    BY <1>3, <1>6
  <2>2. i - 1 \notin stops
    BY <1>6, <2>1
  <2>3. ~(times[(i - 1) + 1] >= start)
    BY <2>1, <2>2
  <2>4. (i - 1) + 1 = i
    OBVIOUS
  <2> QED BY <2>1, <2>3, <2>4
<1>9. n \in 0 .. Len(times)
  BY <1>3, <1>6
<1> HIDE DEF stops
<1> QED BY <1>7, <1>8, <1>9 DEF Expired

\* What is left is the end of the deque, from the first time that is not too old.
LEMMA PrunedFacts ==
    ASSUME NEW S \in SUBSET Int, NEW times \in Seq(S), NEW start \in Int
    PROVE  /\ Pruned(times, start) \in Seq(S)
           /\ \E n \in 0 .. Len(times) :
                 /\ Len(Pruned(times, start)) = Len(times) - n
                 /\ \A i \in 1 .. Len(times) - n : Pruned(times, start)[i] = times[i + n]
                 /\ \A i \in 1 .. n : times[i] < start
                 /\ n < Len(times) => times[n + 1] >= start
<1> DEFINE n == Expired(times, start)
<1>1. times \in Seq(Int)
  BY SeqMonotonic
<1>2. /\ n \in 0 .. Len(times)
      /\ \A i \in 1 .. n : times[i] < start
      /\ n < Len(times) => times[n + 1] >= start
  BY <1>1, ExpiredFacts
<1>3. Pruned(times, start) = SubSeq(times, n + 1, Len(times))
  BY DEF Pruned
<1> HIDE DEF n
<1>4. Len(times) \in Nat /\ \A i \in 1 .. Len(times) : times[i] \in S
  BY LenProperties, ElementOfSeq
<1>5. n + 1 \in Int /\ \A i \in n + 1 .. Len(times) : times[i] \in S
  BY <1>2, <1>4
<1>6. /\ SubSeq(times, n + 1, Len(times)) \in Seq(S)
      /\ Len(SubSeq(times, n + 1, Len(times)))
            = IF n + 1 <= Len(times) THEN Len(times) - (n + 1) + 1 ELSE 0
      /\ \A i \in 1 .. Len(times) - (n + 1) + 1 :
            SubSeq(times, n + 1, Len(times))[i] = times[n + 1 + i - 1]
  BY <1>4, <1>5, SubSeqProperties
<1>7. Len(SubSeq(times, n + 1, Len(times))) = Len(times) - n
  BY <1>2, <1>4, <1>6
<1>8. ASSUME NEW i \in 1 .. Len(times) - n
      PROVE  SubSeq(times, n + 1, Len(times))[i] = times[i + n]
  <2>1. n + 1 + i - 1 = i + n /\ i \in 1 .. Len(times) - (n + 1) + 1
    BY <1>2, <1>4
  <2> QED BY <1>6, <2>1
<1> QED BY <1>2, <1>3, <1>6, <1>7, <1>8

\* A window that moves on keeps what remains in it.
LEMMA RemainsLater ==
    ASSUME NEW times \in Seq(Int), NEW all \in Seq(Int), NEW start \in Int,
           NEW later \in Int, start <= later, Remains(times, all, start)
    PROVE  Remains(times, all, later)
<1>1. /\ Len(all) \in Nat /\ Len(times) \in Nat
      /\ \A i \in 1 .. Len(all) : all[i] \in Int
  BY LenProperties, ElementOfSeq
<1> QED BY <1>1 DEF Remains

\* A deque that starts again has had nothing taken off.
LEMMA RemainsNothing ==
    ASSUME NEW start
    PROVE  Remains(<<>>, <<>>, start)
BY DEF Remains

\* A time that is added to both stays.
LEMMA RemainsAppend ==
    ASSUME NEW times \in Seq(Int), NEW all \in Seq(Int), NEW start \in Int, NEW t \in Int,
           Remains(times, all, start)
    PROVE  Remains(Append(times, t), Append(all, t), start)
<1> DEFINE times2 == Append(times, t)
           all2 == Append(all, t)
           taken == Len(all) - Len(times)
<1>1. Len(all) \in Nat /\ Len(times) \in Nat
  BY LenProperties
<1>2. /\ Len(times2) = Len(times) + 1 /\ times2[Len(times) + 1] = t
      /\ \A i \in 1 .. Len(times) : times2[i] = times[i]
  BY AppendProperties
<1>3. /\ Len(all2) = Len(all) + 1 /\ all2[Len(all) + 1] = t
      /\ \A i \in 1 .. Len(all) : all2[i] = all[i]
  BY AppendProperties
<1>4. /\ taken >= 0
      /\ \A i \in 1 .. Len(times) : times[i] = all[i + taken]
      /\ \A i \in 1 .. taken : all[i] < start
  BY DEF Remains
<1> HIDE DEF times2, all2
<1>5. Len(all2) - Len(times2) = taken
  BY <1>1, <1>2, <1>3
<1>6. ASSUME NEW i \in 1 .. Len(times2) PROVE times2[i] = all2[i + taken]
  <2>1. CASE i = Len(times) + 1
    <3>1. i + taken = Len(all) + 1
      BY <1>1, <2>1
    <3> QED BY <1>2, <1>3, <2>1, <3>1
  <2>2. CASE i # Len(times) + 1
    <3>1. i \in 1 .. Len(times) /\ i + taken \in 1 .. Len(all)
      BY <1>1, <1>2, <1>4, <2>2
    <3> QED BY <1>2, <1>3, <1>4, <3>1
  <2> QED BY <2>1, <2>2
<1>7. ASSUME NEW i \in 1 .. taken PROVE all2[i] < start
  BY <1>1, <1>3, <1>4
<1>8. Remains(times2, all2, start)
  BY <1>4, <1>5, <1>6, <1>7 DEF Remains
<1> QED BY <1>8 DEF times2, all2

\* Pruning takes old times only.
LEMMA RemainsPruned ==
    ASSUME NEW times \in Seq(Int), NEW all \in Seq(Int), NEW start \in Int,
           NEW from \in Int, from <= start, Remains(times, all, start)
    PROVE  Remains(Pruned(times, from), all, start)
<1> DEFINE taken == Len(all) - Len(times)
           left == Pruned(times, from)
<1>1. /\ Len(all) \in Nat /\ Len(times) \in Nat
      /\ \A i \in 1 .. Len(all) : all[i] \in Int
      /\ \A i \in 1 .. Len(times) : times[i] \in Int
  BY LenProperties, ElementOfSeq
<1>2. /\ taken >= 0
      /\ \A i \in 1 .. Len(times) : times[i] = all[i + taken]
      /\ \A i \in 1 .. taken : all[i] < start
  BY DEF Remains
<1>3. PICK n \in 0 .. Len(times) :
          /\ Len(left) = Len(times) - n
          /\ \A i \in 1 .. Len(times) - n : left[i] = times[i + n]
          /\ \A i \in 1 .. n : times[i] < from
  BY PrunedFacts
<1> HIDE DEF left
<1>4. Len(all) - Len(left) = taken + n /\ taken + n >= 0
  BY <1>1, <1>2, <1>3
<1>5. ASSUME NEW i \in 1 .. Len(left) PROVE left[i] = all[i + (taken + n)]
  <2>1. i \in 1 .. Len(times) - n /\ i + n \in 1 .. Len(times)
    BY <1>1, <1>3
  <2>2. (i + n) + taken = i + (taken + n)
    BY <1>1
  <2> QED BY <1>2, <1>3, <2>1, <2>2
<1>6. ASSUME NEW i \in 1 .. taken + n PROVE all[i] < start
  <2>1. CASE i <= taken
    BY <1>1, <1>2, <2>1
  <2>2. CASE i > taken
    <3>1. i - taken \in 1 .. n /\ i - taken \in 1 .. Len(times) /\ (i - taken) + taken = i
      BY <1>1, <1>2, <1>3, <2>2
    <3>2. all[i] = times[i - taken] /\ times[i - taken] < from
      BY <1>2, <1>3, <3>1
    <3> QED BY <1>1, <3>1, <3>2
  <2> QED BY <1>1, <2>1, <2>2
<1>7. Remains(left, all, start)
  BY <1>4, <1>5, <1>6 DEF Remains
<1> QED BY <1>7 DEF left

\* Retry-After is longer than the wait.
LEMMA RetryAfterLonger ==
    ASSUME Second \in Nat \ {0}, NEW wait \in Nat
    PROVE  RetryAfter(wait) \in Nat /\ RetryAfter(wait) > wait
<1> DEFINE q == wait \div Second
<1>1. q \in Nat
  OBVIOUS
<1>2. wait = Second * q + (wait % Second) /\ wait % Second < Second /\ wait % Second \in Nat
  OBVIOUS
<1>3. RetryAfter(wait) = (q + 1) * Second
  BY DEF RetryAfter
<1> HIDE DEF q
<1>4. (q + 1) * Second = Second * q + Second /\ Second * q \in Nat
  BY <1>1
<1> QED BY <1>2, <1>3, <1>4

-----------------------------------------------------------------------------
(* Ordered dicts.                                                          *)

\* What is before what in s is so in t.
SameOrder(s, t) ==
    \A i, j \in DOMAIN s : i < j =>
        \E a, b \in DOMAIN t : a < b /\ s[i] = t[a] /\ s[j] = t[b]

\* k is the last of t, and what is before it is in order in the same order.
MovedToEnd(t, order, k) ==
    /\ Len(t) \in Nat \ {0} /\ t[Len(t)] = k
    /\ \A i, j \in 1 .. Len(t) - 1 : i < j =>
          \E a, b \in DOMAIN order : a < b /\ t[i] = order[a] /\ t[j] = order[b]
    /\ \A i \in 1 .. Len(t) - 1 : t[i] \in Keys(order) \ {k}

\* Without a key the other keys are as they were.
LEMMA WithoutFacts ==
    ASSUME NEW S, NEW order \in Seq(S), Distinct(order), NEW k
    PROVE  /\ Without(order, k) \in Seq(S)
           /\ Distinct(Without(order, k))
           /\ Keys(Without(order, k)) = Keys(order) \ {k}
           /\ Len(Without(order, k))
                 = IF k \in Keys(order) THEN Len(order) - 1 ELSE Len(order)
           /\ SameOrder(Without(order, k), order)
<1>1. Len(order) \in Nat /\ DOMAIN order = 1 .. Len(order) /\ order \in [1 .. Len(order) -> S]
  BY LenProperties
<1>2. CASE k \notin Keys(order)
  <2>1. Without(order, k) = order
    BY <1>2 DEF Without, Keys
  <2>2. SameOrder(order, order)
    BY DEF SameOrder
  <2>3. Keys(order) = Keys(order) \ {k}
    BY <1>2
  <2> QED BY <1>2, <2>1, <2>2, <2>3
<1>3. CASE k \in Keys(order)
  <2> DEFINE at == CHOOSE i \in DOMAIN order : order[i] = k
             n == Len(order) - 1
             w == [i \in 1 .. n |-> order[IF i < at THEN i ELSE i + 1]]
  <2>1. at \in 1 .. Len(order) /\ order[at] = k
    BY <1>1, <1>3 DEF Keys
  <2>2. Without(order, k) = w
    BY <1>3 DEF Without, Keys
  <2> HIDE DEF at
  <2>3. /\ n \in Nat
        /\ \A i \in 1 .. n : (IF i < at THEN i ELSE i + 1) \in 1 .. Len(order)
    BY <1>1, <2>1
  <2>4. w \in [1 .. n -> S]
    BY <1>1, <2>3
  <2>5. w \in Seq(S) /\ Len(w) = n /\ DOMAIN w = 1 .. n
    BY <2>3, <2>4, SeqDef, LenProperties
  <2>6. \A i \in 1 .. n : w[i] = order[IF i < at THEN i ELSE i + 1]
    OBVIOUS
  <2> HIDE DEF w
  <2>7. Distinct(w)
    <3>1. ASSUME NEW i \in 1 .. n, NEW j \in 1 .. n, w[i] = w[j] PROVE i = j
      <4>1. (IF i < at THEN i ELSE i + 1) = (IF j < at THEN j ELSE j + 1)
        BY <1>1, <2>3, <2>6, <3>1 DEF Distinct
      <4> QED BY <2>1, <2>3, <4>1
    <3> QED BY <2>5, <3>1 DEF Distinct
  <2>8. ASSUME NEW x PROVE x \in Keys(w) <=> x \in Keys(order) /\ x # k
    <3>1. ASSUME NEW i \in 1 .. n, x = w[i] PROVE x \in Keys(order) /\ x # k
      <4>1. x = order[IF i < at THEN i ELSE i + 1]
        BY <2>6, <3>1
      <4>2. (IF i < at THEN i ELSE i + 1) # at
        BY <2>1
      <4> QED BY <1>1, <2>1, <2>3, <4>1, <4>2 DEF Keys, Distinct
    <3>2. ASSUME NEW i \in 1 .. Len(order), x = order[i], x # k PROVE x \in Keys(w)
      <4>1. i # at
        BY <2>1, <3>2
      <4>2. CASE i < at
        <5>1. i \in 1 .. n
          BY <1>1, <2>1, <4>2
        <5>2. w[i] = x
          BY <2>6, <3>2, <4>2, <5>1
        <5> QED BY <2>5, <5>1, <5>2 DEF Keys
      <4>3. CASE i > at
        <5>1. i - 1 \in 1 .. n /\ ~(i - 1 < at) /\ (i - 1) + 1 = i
          BY <1>1, <2>1, <4>3
        <5>2. w[i - 1] = x
          BY <2>6, <3>2, <5>1
        <5> QED BY <2>5, <5>1, <5>2 DEF Keys
      <4> QED BY <2>1, <4>1, <4>2, <4>3
    <3> QED BY <1>1, <2>5, <3>1, <3>2 DEF Keys
  <2>9. SameOrder(w, order)
    <3>1. ASSUME NEW i \in 1 .. n, NEW j \in 1 .. n, i < j
          PROVE  \E a, b \in DOMAIN order : a < b /\ w[i] = order[a] /\ w[j] = order[b]
      <4> DEFINE a == IF i < at THEN i ELSE i + 1
                 b == IF j < at THEN j ELSE j + 1
      <4>1. a < b
        BY <2>1, <3>1
      <4> QED BY <1>1, <2>3, <2>6, <4>1
    <3> QED BY <2>5, <3>1 DEF SameOrder
  <2>10. Keys(w) = Keys(order) \ {k}
    BY <2>8
  <2> QED BY <1>3, <2>2, <2>5, <2>7, <2>9, <2>10
<1> QED BY <1>2, <1>3

\* move_to_end and insertion both leave k in the dict, ...
LEMMA ToEndFacts ==
    ASSUME NEW S, NEW order \in Seq(S), Distinct(order), NEW k \in S,
           NEW t, t = ToEnd(order, k)
    PROVE  /\ t \in Seq(S) /\ Distinct(t) /\ Keys(t) = Keys(order) \cup {k}
           /\ Len(t) = IF k \in Keys(order) THEN Len(order) ELSE Len(order) + 1
<1> DEFINE w == Without(order, k)
<1>1. /\ w \in Seq(S) /\ Distinct(w) /\ Keys(w) = Keys(order) \ {k}
      /\ Len(w) = IF k \in Keys(order) THEN Len(order) - 1 ELSE Len(order)
      /\ SameOrder(w, order)
  BY WithoutFacts
<1>2. t = Append(w, k)
  BY DEF ToEnd
<1> HIDE DEF w
<1>3. Len(w) \in Nat /\ DOMAIN w = 1 .. Len(w) /\ Len(order) \in Nat
  BY <1>1, LenProperties
<1>4. /\ t \in Seq(S) /\ Len(t) = Len(w) + 1 /\ t[Len(w) + 1] = k
      /\ \A i \in 1 .. Len(w) : t[i] = w[i]
  BY <1>1, <1>2, AppendProperties
<1>5. DOMAIN t = 1 .. Len(w) + 1
  BY <1>4, LenProperties
<1>6. \A i \in 1 .. Len(w) : t[i] \in Keys(order) \ {k}
  BY <1>1, <1>3, <1>4 DEF Keys
<1>7. Distinct(t)
  <2>1. ASSUME NEW i \in 1 .. Len(w) + 1, NEW j \in 1 .. Len(w) + 1, t[i] = t[j] PROVE i = j
    <3>1. CASE i \in 1 .. Len(w) /\ j \in 1 .. Len(w)
      BY <1>1, <1>3, <1>4, <2>1, <3>1 DEF Distinct
    <3>2. CASE i \in 1 .. Len(w) /\ j = Len(w) + 1
      BY <1>4, <1>6, <2>1, <3>2
    <3>3. CASE i = Len(w) + 1 /\ j \in 1 .. Len(w)
      BY <1>4, <1>6, <2>1, <3>3
    <3>4. \/ i \in 1 .. Len(w) /\ j \in 1 .. Len(w)
          \/ i \in 1 .. Len(w) /\ j = Len(w) + 1
          \/ i = Len(w) + 1 /\ j \in 1 .. Len(w)
          \/ i = j
      BY <1>3
    <3> QED BY <3>1, <3>2, <3>3, <3>4
  <2> QED BY <1>5, <2>1 DEF Distinct
<1>8. ASSUME NEW x PROVE x \in Keys(t) <=> x \in Keys(order) \/ x = k
  <2>1. ASSUME x = k PROVE x \in Keys(t)
    BY <1>3, <1>4, <1>5, <2>1 DEF Keys
  <2>2. ASSUME x \in Keys(w) PROVE x \in Keys(t)
    <3>1. PICK i \in 1 .. Len(w) : x = w[i]
      BY <1>3, <2>2 DEF Keys
    <3>2. i \in DOMAIN t /\ t[i] = x
      BY <1>3, <1>4, <1>5, <3>1
    <3> QED BY <3>2 DEF Keys
  <2>3. ASSUME x \in Keys(t) PROVE x \in Keys(order) \/ x = k
    <3>1. PICK i \in 1 .. Len(w) + 1 : x = t[i]
      BY <1>5, <2>3 DEF Keys
    <3>2. i \in 1 .. Len(w) \/ i = Len(w) + 1
      BY <1>3
    <3> QED BY <1>4, <1>6, <3>1, <3>2
  <2> QED BY <1>1, <2>1, <2>2, <2>3
<1>9. Keys(t) = Keys(order) \cup {k}
  BY <1>8
<1>10. Len(t) = IF k \in Keys(order) THEN Len(order) ELSE Len(order) + 1
  BY <1>1, <1>3, <1>4
<1> QED BY <1>4, <1>7, <1>9, <1>10

\* ... as its last key, and the others before it as they were.
LEMMA ToEndOrder ==
    ASSUME NEW S, NEW order \in Seq(S), Distinct(order), NEW k \in S,
           NEW t, t = ToEnd(order, k)
    PROVE  MovedToEnd(t, order, k)
<1> DEFINE w == Without(order, k)
<1>1. /\ w \in Seq(S) /\ Distinct(w) /\ Keys(w) = Keys(order) \ {k}
      /\ Len(w) = IF k \in Keys(order) THEN Len(order) - 1 ELSE Len(order)
      /\ SameOrder(w, order)
  BY WithoutFacts
<1>2. t = Append(w, k)
  BY DEF ToEnd
<1> HIDE DEF w
<1>3. Len(w) \in Nat /\ DOMAIN w = 1 .. Len(w) /\ Len(order) \in Nat
  BY <1>1, LenProperties
<1>4. /\ t \in Seq(S) /\ Len(t) = Len(w) + 1 /\ t[Len(w) + 1] = k
      /\ \A i \in 1 .. Len(w) : t[i] = w[i]
  BY <1>1, <1>2, AppendProperties
<1>5. DOMAIN t = 1 .. Len(w) + 1
  BY <1>4, LenProperties
<1>6. \A i \in 1 .. Len(w) : t[i] \in Keys(order) \ {k}
  BY <1>1, <1>3, <1>4 DEF Keys
<1>7. Len(t) - 1 = Len(w)
  BY <1>3, <1>4
<1>8. ASSUME NEW i \in 1 .. Len(w), NEW j \in 1 .. Len(w), i < j
       PROVE  \E a, b \in DOMAIN order : a < b /\ t[i] = order[a] /\ t[j] = order[b]
  <2>1. PICK a \in DOMAIN order, b \in DOMAIN order :
            a < b /\ w[i] = order[a] /\ w[j] = order[b]
    <3>1. SameOrder(w, order) /\ i \in DOMAIN w /\ j \in DOMAIN w
      BY <1>1, <1>3
    <3> QED BY <1>8, <3>1 DEF SameOrder
  <2>2. t[i] = w[i] /\ t[j] = w[j]
    BY <1>4
  <2> QED BY <2>1, <2>2
<1>9. ASSUME NEW i \in 1 .. Len(t) - 1 PROVE i \in 1 .. Len(w)
  BY <1>7
<1>10. Len(t) \in Nat \ {0} /\ t[Len(t)] = k
  BY <1>3, <1>4
<1> QED BY <1>6, <1>8, <1>9, <1>10 DEF MovedToEnd

\* popitem takes the first key off, and nothing when there is room.
LEMMA KeptFacts ==
    ASSUME NEW S, NEW order \in Seq(S), Distinct(order), NEW cap \in Nat \ {0},
           Len(order) <= cap + 1, Len(order) # 0
    PROVE  /\ Kept(order, cap) \in Seq(S)
           /\ Distinct(Kept(order, cap))
           /\ Keys(Kept(order, cap)) = Keys(order) \ Overflow(order, cap)
           /\ Len(Kept(order, cap)) <= cap
           /\ SameOrder(Kept(order, cap), order)
           /\ order[Len(order)] \notin Overflow(order, cap)
<1>1. Len(order) \in Nat /\ DOMAIN order = 1 .. Len(order)
  BY LenProperties
<1>2. CASE ~(Len(order) > cap)
  <2>1. Overflow(order, cap) = {} /\ Kept(order, cap) = order
    BY <1>2 DEF Overflow, Kept
  <2>2. Len(order) <= cap
    BY <1>1, <1>2
  <2>3. SameOrder(order, order)
    BY DEF SameOrder
  <2> QED BY <2>1, <2>2, <2>3
<1>3. CASE Len(order) > cap
  <2> DEFINE w == Tail(order)
  <2>1. order # <<>> /\ Head(order) = order[1]
    BY <1>1, EmptySeq
  <2>2. Overflow(order, cap) = {order[1]} /\ Kept(order, cap) = w
    BY <1>3, <2>1 DEF Overflow, Kept
  <2>3. /\ w \in Seq(S) /\ Len(w) = Len(order) - 1
        /\ \A i \in 1 .. Len(w) : w[i] = order[i + 1]
    BY <2>1, HeadTailProperties
  <2> HIDE DEF w
  <2>4. DOMAIN w = 1 .. Len(w) /\ Len(w) \in Nat
    BY <2>3, LenProperties
  <2>5. \A i \in 1 .. Len(w) : i + 1 \in 1 .. Len(order) /\ i + 1 # 1
    BY <1>1, <2>3
  <2>6. Distinct(w)
    <3>1. ASSUME NEW i \in 1 .. Len(w), NEW j \in 1 .. Len(w), w[i] = w[j] PROVE i = j
      <4>1. i + 1 = j + 1
        BY <1>1, <2>3, <2>5, <3>1 DEF Distinct
      <4> QED BY <2>4, <4>1
    <3> QED BY <2>4, <3>1 DEF Distinct
  <2>7. ASSUME NEW x PROVE x \in Keys(w) <=> x \in Keys(order) /\ x # order[1]
    <3>1. ASSUME NEW i \in 1 .. Len(w), x = w[i] PROVE x \in Keys(order) /\ x # order[1]
      <4>1. x = order[i + 1] /\ 1 \in 1 .. Len(order)
        BY <1>1, <2>3, <2>5, <3>1
      <4> QED BY <1>1, <2>5, <4>1 DEF Keys, Distinct
    <3>2. ASSUME NEW i \in 1 .. Len(order), x = order[i], x # order[1] PROVE x \in Keys(w)
      <4>1. i # 1
        BY <3>2
      <4>2. i - 1 \in 1 .. Len(w) /\ (i - 1) + 1 = i
        BY <1>1, <2>3, <4>1
      <4>3. w[i - 1] = x
        BY <2>3, <3>2, <4>2
      <4> QED BY <2>4, <4>2, <4>3 DEF Keys
    <3> QED BY <1>1, <2>4, <3>1, <3>2 DEF Keys
  <2>8. Keys(w) = Keys(order) \ {order[1]}
    BY <2>7
  <2>9. SameOrder(w, order)
    <3>1. ASSUME NEW i \in 1 .. Len(w), NEW j \in 1 .. Len(w), i < j
          PROVE  \E a, b \in DOMAIN order : a < b /\ w[i] = order[a] /\ w[j] = order[b]
      <4>1. i + 1 < j + 1
        BY <3>1
      <4> QED BY <1>1, <2>3, <2>5, <4>1
    <3> QED BY <2>4, <3>1 DEF SameOrder
  <2>10. Len(w) <= cap
    BY <1>1, <2>3
  <2>11. 1 # Len(order) /\ Len(order) \in 1 .. Len(order) /\ 1 \in 1 .. Len(order)
    BY <1>1, <1>3
  <2>12. order[Len(order)] # order[1]
    BY <1>1, <2>11 DEF Distinct
  <2> QED BY <2>2, <2>3, <2>6, <2>8, <2>9, <2>10, <2>12
<1> QED BY <1>2, <1>3

\* Keys and deques agree: after an insertion with its eviction, ...
LEMMA TracksStored ==
    ASSUME NEW K, NEW V, <<>> \in V, NEW times \in [K -> V], NEW order \in Seq(K),
           NEW cap \in Nat \ {0}, Tracks(order, times, cap),
           NEW k \in K, NEW new \in V, new # <<>>
    PROVE  LET o == ToEnd(order, k)
           IN  /\ Kept(o, cap) \in Seq(K)
               /\ Tracks(Kept(o, cap), Stored(times, k, new, Overflow(o, cap)), cap)
<1> DEFINE o == ToEnd(order, k)
           evicted == Overflow(o, cap)
           stored == Stored(times, k, new, evicted)
           kp == Kept(o, cap)
<1>1. /\ Len(order) <= cap /\ Distinct(order)
      /\ Keys(order) = {j \in DOMAIN times : times[j] # <<>>}
  BY DEF Tracks, Distinct, Keys
<1>2. Len(order) \in Nat /\ DOMAIN times = K
  BY LenProperties
<1>3. /\ o \in Seq(K) /\ Distinct(o) /\ Keys(o) = Keys(order) \cup {k}
      /\ Len(o) = IF k \in Keys(order) THEN Len(order) ELSE Len(order) + 1
  <2>1. o = ToEnd(order, k)
    OBVIOUS
  <2> HIDE DEF o
  <2> QED BY <1>1, <2>1, ToEndFacts
<1>4. Len(o) \in Nat \ {0} /\ o[Len(o)] = k
  <2>1. o = ToEnd(order, k)
    OBVIOUS
  <2> HIDE DEF o
  <2>2. MovedToEnd(o, order, k)
    BY <1>1, <2>1, ToEndOrder
  <2> QED BY <2>2 DEF MovedToEnd
<1> HIDE DEF o
<1>5. Len(o) <= cap + 1 /\ Len(o) # 0
  <2>1. Len(o) = Len(order) \/ Len(o) = Len(order) + 1
    BY <1>3
  <2>2. Len(o) # 0
    BY <1>4
  <2> QED BY <1>1, <1>2, <2>1, <2>2
<1>6. /\ kp \in Seq(K) /\ Distinct(kp) /\ Keys(kp) = Keys(o) \ evicted
      /\ Len(kp) <= cap /\ k \notin evicted
  BY <1>3, <1>4, <1>5, KeptFacts
<1> HIDE DEF evicted, kp
<1>7. /\ stored \in [K -> V] /\ stored[k] = new
      /\ \A j \in K \ {k} : stored[j] = IF j \in evicted THEN <<>> ELSE times[j]
  BY DEF Stored
<1> HIDE DEF stored
<1>8. Keys(kp) = {j \in K : stored[j] # <<>>}
  BY <1>1, <1>2, <1>3, <1>6, <1>7
<1>9. Tracks(kp, stored, cap)
  BY <1>6, <1>7, <1>8 DEF Tracks, Distinct, Keys
<1> QED BY <1>6, <1>9 DEF o, evicted, stored, kp

\* ... after a change to a deque that leaves something in it, moved or not, ...
LEMMA TracksChanged ==
    ASSUME NEW K, NEW V, <<>> \in V, NEW times \in [K -> V], NEW order \in Seq(K),
           NEW cap \in Nat \ {0}, Tracks(order, times, cap),
           NEW k \in K, NEW new \in V, new # <<>>, times[k] # <<>>,
           NEW changed \in [K -> V], changed[k] = new,
           \A j \in K \ {k} : changed[j] = times[j],
           NEW o, o = ToEnd(order, k)
    PROVE  Tracks(order, changed, cap) /\ o \in Seq(K) /\ Tracks(o, changed, cap)
<1>1. /\ Len(order) <= cap /\ Distinct(order)
      /\ Keys(order) = {j \in DOMAIN times : times[j] # <<>>}
  BY DEF Tracks, Distinct, Keys
<1>2. k \in Keys(order)
  BY <1>1
<1>3. /\ o \in Seq(K) /\ Distinct(o) /\ Keys(o) = Keys(order) \cup {k}
      /\ Len(o) = Len(order)
  BY <1>1, <1>2, ToEndFacts
<1>4. Keys(o) = Keys(order)
  BY <1>2, <1>3
<1>5. DOMAIN changed = DOMAIN times /\ \A j \in K : changed[j] = IF j = k THEN new ELSE times[j]
  OBVIOUS
<1>6. DOMAIN times = K
  OBVIOUS
<1>7. {j \in DOMAIN changed : changed[j] # <<>>} = {j \in DOMAIN times : times[j] # <<>>}
  BY <1>5, <1>6
<1>8. Tracks(order, changed, cap)
  BY <1>1, <1>7 DEF Tracks, Distinct, Keys
<1>9. Tracks(o, changed, cap)
  BY <1>1, <1>3, <1>4, <1>7 DEF Tracks, Distinct, Keys
<1> QED BY <1>3, <1>8, <1>9

\* ... and after the removal of a key.
LEMMA TracksForgotten ==
    ASSUME NEW K, NEW V, <<>> \in V, NEW times \in [K -> V], NEW order \in Seq(K),
           NEW cap \in Nat \ {0}, Tracks(order, times, cap), NEW k \in K,
           NEW changed \in [K -> V], changed[k] = <<>>,
           \A j \in K \ {k} : changed[j] = times[j],
           NEW o, o = Without(order, k)
    PROVE  o \in Seq(K) /\ Tracks(o, changed, cap)
<1>1. /\ Len(order) <= cap /\ Distinct(order)
      /\ Keys(order) = {j \in DOMAIN times : times[j] # <<>>}
  BY DEF Tracks, Distinct, Keys
<1>2. /\ o \in Seq(K) /\ Distinct(o) /\ Keys(o) = Keys(order) \ {k}
      /\ Len(o) = IF k \in Keys(order) THEN Len(order) - 1 ELSE Len(order)
  BY <1>1, WithoutFacts
<1>3. Len(o) <= cap
  <2>1. Len(order) \in Nat
    BY LenProperties
  <2> QED BY <1>1, <1>2, <2>1
<1>4. DOMAIN changed = DOMAIN times /\ \A j \in K : changed[j] = IF j = k THEN <<>> ELSE times[j]
  OBVIOUS
<1>5. DOMAIN times = K
  OBVIOUS
<1>6. Keys(o) = {j \in DOMAIN changed : changed[j] # <<>>}
  BY <1>1, <1>2, <1>4, <1>5
<1>7. Tracks(o, changed, cap)
  BY <1>2, <1>3, <1>6 DEF Tracks, Distinct, Keys
<1> QED BY <1>2, <1>7

-----------------------------------------------------------------------------
(* A client.                                                               *)

\* What a deque of times is.
LEMMA TimesFacts ==
    ASSUME AdmissionAssumption, NEW times \in Times
    PROVE  /\ times \in Seq(Int) /\ Len(times) \in Nat /\ DOMAIN times = 1 .. Len(times)
           /\ \A i \in 1 .. Len(times) : times[i] \in 0 .. Horizon
           /\ times # <<>> => Len(times) # 0
<1>1. times \in Seq(0 .. Horizon)
  BY DEF Times
<1>2. times \in Seq(Int) /\ 0 .. Horizon \subseteq Int
  BY <1>1, SeqMonotonic DEF AdmissionAssumption
<1>3. Len(times) \in Nat /\ DOMAIN times = 1 .. Len(times)
  BY <1>1, LenProperties
<1>4. \A i \in 1 .. Len(times) : times[i] \in 0 .. Horizon
  BY <1>1, ElementOfSeq
<1>5. times # <<>> => Len(times) # 0
  BY <1>1, EmptySeq
<1> QED BY <1>2, <1>3, <1>4, <1>5

\* Pruning a deque leaves times of the same kind.
LEMMA PrunedTimes ==
    ASSUME AdmissionAssumption, NEW times \in Times, NEW start \in Int
    PROVE  /\ Pruned(times, start) \in Times
           /\ \E n \in 0 .. Len(times) :
                 /\ Len(Pruned(times, start)) = Len(times) - n
                 /\ \A i \in 1 .. Len(times) - n : Pruned(times, start)[i] = times[i + n]
                 /\ \A i \in 1 .. n : times[i] < start
                 /\ n < Len(times) => times[n + 1] >= start
<1>1. 0 .. Horizon \in SUBSET Int
  BY DEF AdmissionAssumption
<1> QED BY <1>1, PrunedFacts DEF Times

\* Time passes for a client.
LEMMA ClientSoundLater ==
    ASSUME AdmissionAssumption, NEW times, NEW all, NEW told, NEW now \in Nat,
           ClientSound(times, all, told, now)
    PROVE  ClientSound(times, all, told, now + 1)
<1>1. times \in Seq(Int) /\ all \in Seq(Int)
  BY TimesFacts DEF ClientSound
<1>2. now - Window \in Int /\ now + 1 - Window \in Int /\ now - Window <= now + 1 - Window
  BY DEF AdmissionAssumption
<1>3. Remains(times, all, now + 1 - Window)
  BY <1>1, <1>2, RemainsLater DEF ClientSound
<1> QED BY <1>3 DEF ClientSound

\* An evicted client starts again.
LEMMA ClientSoundForgotten ==
    ASSUME AdmissionAssumption, NEW told \in Nat \cup {Never}, NEW now
    PROVE  ClientSound(<<>>, <<>>, told, now)
<1>1. Remains(<<>>, <<>>, now - Window)
  BY RemainsNothing
<1>2. <<>> \in Times /\ Len(<<>>) = 0
  BY EmptySeq DEF Times
<1> QED BY <1>1, <1>2 DEF ClientSound, AdmissionAssumption

\* What is left of a client's deque when it makes a request.
LEMMA CountedFacts ==
    ASSUME AdmissionAssumption, NEW times, NEW all, NEW told, NEW now \in Nat,
           ClientSound(times, all, told, now), NEW left, left = Pruned(times, now - Window)
    PROVE  /\ left \in Times /\ Remains(left, all, now - Window)
           /\ Len(left) <= MaxRequests
           /\ left # <<>> => left[1] >= now - Window /\ times # <<>>
<1>1. /\ times \in Times /\ all \in Times /\ Remains(times, all, now - Window)
      /\ Len(times) <= MaxRequests
  BY DEF ClientSound
<1>2. now - Window \in Int /\ times \in Seq(Int) /\ all \in Seq(Int) /\ Len(times) \in Nat
  BY <1>1, TimesFacts DEF AdmissionAssumption
<1>3. left \in Times
  BY <1>1, <1>2, PrunedTimes
<1>4. Remains(left, all, now - Window)
  BY <1>1, <1>2, RemainsPruned
<1>5. PICK n \in 0 .. Len(times) :
          /\ Len(left) = Len(times) - n
          /\ \A i \in 1 .. Len(times) - n : left[i] = times[i + n]
          /\ n < Len(times) => times[n + 1] >= now - Window
  BY <1>1, <1>2, PrunedTimes
<1>6. Len(left) <= MaxRequests
  BY <1>1, <1>2, <1>5 DEF AdmissionAssumption
<1>7. ASSUME left # <<>> PROVE left[1] >= now - Window /\ times # <<>>
  <2>1. Len(left) # 0 /\ Len(left) \in Nat
    BY <1>3, <1>7, TimesFacts
  <2>2. n < Len(times) /\ 1 \in 1 .. Len(times) - n
    BY <1>2, <1>5, <2>1
  <2>3. left[1] = times[1 + n] /\ 1 + n = n + 1
    BY <1>5, <2>2
  <2>4. Len(times) # 0
    BY <1>2, <1>5, <2>2
  <2>5. times # <<>>
    BY <2>4
  <2> QED BY <1>5, <2>2, <2>3, <2>5
<1> QED BY <1>3, <1>4, <1>6, <1>7

\* A client that is refused learns when its first hit leaves the window.
LEMMA ClientSoundRefused ==
    ASSUME AdmissionAssumption, NEW times, NEW all, NEW told, NEW now \in Nat,
           ClientSound(times, all, told, now), NEW left, left = Pruned(times, now - Window),
           left # <<>>
    PROVE  ClientSound(left, all, now + RetryAfter(left[1] + Window - now), now)
<1>1. /\ left \in Times /\ Remains(left, all, now - Window)
      /\ Len(left) <= MaxRequests /\ left[1] >= now - Window
  BY CountedFacts
<1>2. Len(left) \in Nat /\ Len(left) # 0 /\ \A i \in 1 .. Len(left) : left[i] \in 0 .. Horizon
  BY <1>1, TimesFacts
<1>3. left[1] \in Nat
  BY <1>2 DEF AdmissionAssumption
<1> DEFINE wait == left[1] + Window - now
<1>4. wait \in Nat
  BY <1>1, <1>3 DEF AdmissionAssumption
<1> HIDE DEF wait
<1>5. RetryAfter(wait) \in Nat /\ RetryAfter(wait) > wait
  BY <1>4, RetryAfterLonger DEF AdmissionAssumption
<1> DEFINE answer == now + RetryAfter(wait)
<1>6. answer \in Nat /\ left[1] + Window < answer
  <2>1. wait = left[1] + Window - now
    BY DEF wait
  <2> QED BY <1>3, <1>4, <1>5, <2>1 DEF AdmissionAssumption
<1> HIDE DEF answer
<1>7. ClientSound(left, all, answer, now)
  BY <1>1, <1>6 DEF ClientSound
<1> QED BY <1>7 DEF answer, wait

\* A client below the limit has room for one more in every window.
LEMMA ClientSoundAdmitted ==
    ASSUME AdmissionAssumption, NEW times, NEW all, NEW told, NEW now \in 0 .. Horizon,
           ClientSound(times, all, told, now), NEW left, left = Pruned(times, now - Window),
           Len(left) < MaxRequests
    PROVE  ClientSound(Append(left, now), Append(all, now), Never, now)
<1> DEFINE left2 == Append(left, now)
           all2 == Append(all, now)
<1>1. now \in Nat /\ now \in Int /\ MaxRequests \in Nat \ {0} /\ Window \in Nat
  BY DEF AdmissionAssumption
<1>2. /\ left \in Times /\ Remains(left, all, now - Window)
      /\ all \in Times
  BY <1>1, CountedFacts DEF ClientSound
<1>3. /\ left \in Seq(Int) /\ all \in Seq(Int) /\ Len(left) \in Nat /\ Len(all) \in Nat
      /\ \A i \in 1 .. Len(all) : all[i] \in 0 .. Horizon
  BY <1>2, TimesFacts
<1>4. Remains(left2, all2, now - Window)
  BY <1>1, <1>2, <1>3, RemainsAppend
<1>5. left2 \in Times /\ Len(left2) = Len(left) + 1
  BY <1>2, AppendProperties DEF Times
<1>6. /\ all2 \in Times /\ Len(all2) = Len(all) + 1 /\ all2[Len(all) + 1] = now
      /\ \A i \in 1 .. Len(all) : all2[i] = all[i]
  BY <1>2, AppendProperties DEF Times
<1>7. \A i \in 1 .. Len(all) :
          i + MaxRequests <= Len(all) => all[i + MaxRequests] - all[i] > Window
  BY DEF ClientSound
<1> HIDE DEF left2, all2
<1>8. ASSUME NEW i \in 1 .. Len(all2), i + MaxRequests <= Len(all2)
      PROVE  all2[i + MaxRequests] - all2[i] > Window
  <2>1. i \in 1 .. Len(all) /\ all2[i] = all[i] /\ i \in Int
    BY <1>1, <1>3, <1>6, <1>8
  <2>2. CASE i + MaxRequests = Len(all) + 1
    <3> DEFINE taken == Len(all) - Len(left)
    <3>1. i \in 1 .. taken
      BY <1>1, <1>3, <2>1, <2>2
    <3>2. all[i] < now - Window
      BY <1>2, <3>1 DEF Remains
    <3>3. all[i] \in 0 .. Horizon /\ all2[i + MaxRequests] = now
      BY <1>3, <1>6, <2>1, <2>2
    <3>4. all[i] \in Int
      BY <3>3
    <3> QED BY <1>1, <2>1, <3>2, <3>3, <3>4
  <2>3. CASE i + MaxRequests # Len(all) + 1
    <3>1. i + MaxRequests <= Len(all) /\ i + MaxRequests \in 1 .. Len(all)
      BY <1>1, <1>3, <1>6, <1>8, <2>1, <2>3
    <3> QED BY <1>6, <1>7, <2>1, <3>1
  <2> QED BY <2>2, <2>3
<1>9. Len(left2) <= MaxRequests
  BY <1>1, <1>3, <1>5
<1>10. ClientSound(left2, all2, Never, now)
  BY <1>4, <1>5, <1>6, <1>8, <1>9 DEF ClientSound
<1> QED BY <1>10 DEF left2, all2

\* So the client that comes back when it was told is not refused.
LEMMA ClientToldRight ==
    ASSUME AdmissionAssumption, NEW times, NEW all, NEW told, NEW now \in Nat,
           ClientSound(times, all, told, now), told # Never, now >= told
    PROVE  ~(Len(Pruned(times, now - Window)) >= MaxRequests)
<1> DEFINE left == Pruned(times, now - Window)
<1>1. /\ times \in Times /\ told \in Nat /\ Len(times) <= MaxRequests
      /\ times # <<>> => times[1] + Window < told
  BY DEF ClientSound
<1>2. /\ Len(times) \in Nat /\ now - Window \in Int
      /\ \A i \in 1 .. Len(times) : times[i] \in 0 .. Horizon
  BY <1>1, TimesFacts DEF AdmissionAssumption
<1>3. PICK n \in 0 .. Len(times) :
          /\ Len(left) = Len(times) - n
          /\ n < Len(times) => times[n + 1] >= now - Window
  BY <1>1, <1>2, PrunedTimes
<1> HIDE DEF left
<1>4. MaxRequests \in Nat \ {0} /\ Window \in Nat
  BY DEF AdmissionAssumption
<1>5. CASE times = <<>>
  <2>1. Len(times) = 0
    BY <1>5
  <2> QED BY <1>2, <1>3, <1>4, <2>1 DEF left
<1>6. CASE times # <<>>
  <2>1. Len(times) # 0 /\ 1 \in 1 .. Len(times)
    BY <1>1, <1>2, <1>6, TimesFacts
  <2>2. times[1] \in 0 .. Horizon
    BY <1>2, <2>1
  <2>3. times[1] \in Nat /\ times[1] + Window < told
    BY <1>1, <1>6, <2>2
  <2>4. times[1] < now - Window
    BY <1>1, <1>4, <2>3
  <2>5. n # 0
    <3>1. ASSUME n = 0 PROVE FALSE
      <4>1. 0 < Len(times)
        BY <1>2, <2>1
      <4>2. times[0 + 1] >= now - Window
        BY <1>3, <3>1, <4>1
      <4> QED BY <1>2, <1>4, <2>3, <2>4, <4>2
    <3> QED BY <3>1
  <2>6. Len(left) < MaxRequests
    BY <1>1, <1>2, <1>3, <1>4, <2>5
  <2>7. Len(left) \in Int
    BY <1>2, <1>3
  <2> QED BY <1>4, <2>6, <2>7 DEF left
<1> QED BY <1>5, <1>6

-----------------------------------------------------------------------------
(* An account.                                                             *)

\* The bounds that an account is held to.
LEMMA BurstFacts ==
    ASSUME AdmissionAssumption
    PROVE  /\ Cardinality(Logins) \in Nat /\ MaxFailed \in Nat \ {0}
           /\ Burst = MaxFailed + Cardinality(Logins) - 1 /\ Burst \in Nat
           /\ FailWindow \in Nat /\ LockoutTime \in Nat /\ FailWindow <= LockoutTime
<1>1. Cardinality(Logins) \in Nat
  BY FS_CardinalityType DEF AdmissionAssumption
<1> QED BY <1>1 DEF Burst, AdmissionAssumption

\* The deque, the history and the times of a sound account.
LEMMA EmailFacts ==
    ASSUME AdmissionAssumption, NEW times, NEW all, NEW told, NEW open, NEW now \in Nat,
           EmailSound(times, all, told, open, now)
    PROVE  /\ times \in Times /\ all \in Times /\ times \in Seq(Int) /\ all \in Seq(Int)
           /\ Len(times) \in Nat /\ Len(all) \in Nat
           /\ \A i \in 1 .. Len(times) : times[i] \in Nat
           /\ \A i \in 1 .. Len(all) : all[i] \in Nat
           /\ times # <<>> => Len(times) # 0
<1>1. times \in Times /\ all \in Times
  BY DEF EmailSound
<1>2. 0 .. Horizon \subseteq Nat
  BY DEF AdmissionAssumption
<1> QED BY <1>1, <1>2, TimesFacts

\* Time passes for an account.
LEMMA EmailSoundLater ==
    ASSUME AdmissionAssumption, NEW times, NEW all, NEW told, NEW open \in Int,
           NEW now \in Nat, EmailSound(times, all, told, open, now)
    PROVE  EmailSound(times, all, told, open, now + 1)
<1>1. /\ times \in Seq(Int) /\ all \in Seq(Int)
      /\ \A i \in 1 .. Len(times) : times[i] \in Nat
      /\ \A i \in 1 .. Len(all) : all[i] \in Nat
  BY EmailFacts
<1>2. /\ now - FailWindow + 1 \in Int /\ now + 1 - FailWindow + 1 \in Int
      /\ now - FailWindow + 1 <= now + 1 - FailWindow + 1
  BY BurstFacts
<1>3. Remains(times, all, now + 1 - FailWindow + 1)
  BY <1>1, <1>2, RemainsLater DEF EmailSound
<1>4. \A i \in 1 .. Len(times) : times[i] <= now + 1
  BY <1>1 DEF EmailSound
<1>5. \A i \in 1 .. Len(all) : i + Burst - open <= Len(all) => all[i] <= now + 1 - FailWindow
  <2>1. \A i \in 1 .. Len(all) : i + Burst - open <= Len(all) => all[i] <= now - FailWindow
    BY DEF EmailSound
  <2>2. \A i \in 1 .. Len(all) : all[i] <= now - FailWindow => all[i] <= now + 1 - FailWindow
    BY <1>1, BurstFacts
  <2> QED BY <2>1, <2>2
<1> QED BY <1>3, <1>4, <1>5 DEF EmailSound

\* An account that was evicted, or signed in to, starts again.
LEMMA EmailSoundForgotten ==
    ASSUME AdmissionAssumption, NEW told \in Nat \cup {Never}, NEW open, NEW now
    PROVE  EmailSound(<<>>, <<>>, told, open, now)
<1>1. Remains(<<>>, <<>>, now - FailWindow + 1)
  BY RemainsNothing
<1>2. <<>> \in Times /\ Len(<<>>) = 0
  BY EmptySeq DEF Times
<1> QED BY <1>1, <1>2 DEF EmailSound

\* One of the open requests ends, and no password has failed.
LEMMA EmailSoundFewer ==
    ASSUME AdmissionAssumption, NEW times, NEW all, NEW told, NEW open \in Int,
           NEW fewer \in Int, fewer <= open, NEW now \in Nat,
           EmailSound(times, all, told, open, now)
    PROVE  EmailSound(times, all, told, fewer, now)
<1>1. Len(all) \in Nat
  BY EmailFacts
<1>2. ASSUME NEW i \in 1 .. Len(all), i + Burst - fewer <= Len(all)
      PROVE  all[i] <= now - FailWindow
  <2>1. i + Burst - open <= Len(all)
    BY <1>1, <1>2, BurstFacts
  <2> QED BY <2>1 DEF EmailSound
<1> QED BY <1>2 DEF EmailSound

\* The window of the account is looked at.
LEMMA EmailSoundPruned ==
    ASSUME AdmissionAssumption, NEW times, NEW all, NEW told, NEW open \in Int,
           NEW now \in Nat, EmailSound(times, all, told, open, now),
           NEW left, left = Pruned(times, now - FailWindow)
    PROVE  /\ EmailSound(left, all, told, open, now)
           /\ left # <<>> => times # <<>> /\ left[Len(left)] = times[Len(times)]
<1>1. /\ times \in Times /\ times \in Seq(Int) /\ all \in Seq(Int) /\ Len(times) \in Nat
  BY EmailFacts
<1>2. /\ now - FailWindow \in Int /\ now - FailWindow + 1 \in Int
      /\ now - FailWindow <= now - FailWindow + 1
  BY BurstFacts
<1>3. left \in Times
  BY <1>1, <1>2, PrunedTimes
<1>4. Remains(left, all, now - FailWindow + 1)
  BY <1>1, <1>2, RemainsPruned DEF EmailSound
<1>5. PICK n \in 0 .. Len(times) :
          /\ Len(left) = Len(times) - n
          /\ \A i \in 1 .. Len(times) - n : left[i] = times[i + n]
  BY <1>1, <1>2, PrunedTimes
<1>6. ASSUME NEW i \in 1 .. Len(left)
      PROVE  i + n \in 1 .. Len(times) /\ left[i] = times[i + n]
  <2>1. i \in 1 .. Len(times) - n
    BY <1>5
  <2>2. i + n \in 1 .. Len(times)
    BY <1>1, <2>1
  <2> QED BY <1>5, <2>1, <2>2
<1>7. \A i \in 1 .. Len(left) : left[i] <= now
  BY <1>6 DEF EmailSound
<1>8. ASSUME NEW i \in 1 .. Len(left), NEW j \in 1 .. Len(left), i <= j
      PROVE  left[i] <= left[j]
  <2>1. i + n <= j + n
    BY <1>8
  <2> QED BY <1>6, <2>1 DEF EmailSound
<1>9. ASSUME left # <<>> PROVE times # <<>> /\ left[Len(left)] = times[Len(times)]
  <2>1. Len(left) # 0 /\ Len(left) \in Nat
    BY <1>3, <1>9, TimesFacts
  <2>2. Len(left) \in 1 .. Len(left) /\ Len(left) + n = Len(times)
    BY <1>1, <1>5, <2>1
  <2>3. Len(times) # 0
    BY <1>1, <1>5, <2>1
  <2>4. times # <<>>
    BY <2>3
  <2> QED BY <1>6, <2>2, <2>4
<1>10. told # Never /\ left # <<>> => left[Len(left)] + LockoutTime < told
  BY <1>9 DEF EmailSound
<1> QED BY <1>3, <1>4, <1>7, <1>8, <1>9, <1>10 DEF EmailSound

\* A locked account is told when its last failure has been locked out for long enough.
LEMMA EmailSoundTold ==
    ASSUME AdmissionAssumption, NEW times, NEW all, NEW told, NEW open \in Int,
           NEW now \in Nat, EmailSound(times, all, told, open, now), times # <<>>,
           times[Len(times)] + LockoutTime - now > 0
    PROVE  EmailSound(times, all,
                      now + RetryAfter(times[Len(times)] + LockoutTime - now), open, now)
<1> DEFINE wait == times[Len(times)] + LockoutTime - now
           answer == now + RetryAfter(wait)
<1>1. Len(times) \in 1 .. Len(times) /\ \A i \in 1 .. Len(times) : times[i] \in Nat
  BY EmailFacts
<1>2. times[Len(times)] \in Nat /\ LockoutTime \in Nat
  BY <1>1, BurstFacts
<1>3. wait \in Nat
  BY <1>2
<1> HIDE DEF wait
<1>4. RetryAfter(wait) \in Nat /\ RetryAfter(wait) > wait
  BY <1>3, RetryAfterLonger DEF AdmissionAssumption
<1>5. answer \in Nat /\ times[Len(times)] + LockoutTime < answer
  BY <1>2, <1>3, <1>4 DEF wait
<1> HIDE DEF answer
<1>6. EmailSound(times, all, answer, open, now)
  BY <1>5 DEF EmailSound
<1> QED BY <1>6 DEF answer, wait

\* When all that counts is as old as the window, there is room for everything.
LEMMA EmailSoundEmptied ==
    ASSUME AdmissionAssumption, NEW times, NEW all, NEW told, NEW open \in Int,
           NEW more \in Int, NEW now \in Nat, EmailSound(times, all, told, open, now),
           \A i \in 1 .. Len(times) : times[i] <= now - FailWindow
    PROVE  EmailSound(<<>>, all, told, more, now)
<1>1. /\ Len(times) \in Nat /\ Len(all) \in Nat
      /\ \A i \in 1 .. Len(all) : all[i] \in Nat
  BY EmailFacts
<1>2. ASSUME NEW i \in 1 .. Len(all) PROVE all[i] <= now - FailWindow
  <2> DEFINE taken == Len(all) - Len(times)
  <2>1. /\ taken >= 0
        /\ \A j \in 1 .. Len(times) : times[j] = all[j + taken]
        /\ \A j \in 1 .. taken : all[j] < now - FailWindow + 1
    BY DEF EmailSound, Remains
  <2>2. CASE i <= taken
    <3>1. i \in 1 .. taken /\ all[i] \in Nat
      BY <1>1, <2>1, <2>2
    <3> QED BY <2>1, <3>1, BurstFacts
  <2>3. CASE i > taken
    <3>1. i - taken \in 1 .. Len(times) /\ (i - taken) + taken = i
      BY <1>1, <2>1, <2>3
    <3> QED BY <2>1, <3>1
  <2> QED BY <1>1, <2>2, <2>3
<1>3. <<>> \in Times /\ Len(<<>>) = 0
  BY EmptySeq DEF Times
<1>4. Remains(<<>>, all, now - FailWindow + 1)
  <2>1. Len(all) - Len(<<>>) = Len(all)
    BY <1>1, <1>3
  <2>2. \A i \in 1 .. Len(all) : all[i] < now - FailWindow + 1
    BY <1>1, <1>2, BurstFacts
  <2> QED BY <1>1, <1>3, <2>1, <2>2 DEF Remains
<1> QED BY <1>2, <1>3, <1>4 DEF EmailSound

\* A request passes: below the maximum there is room for one more.
LEMMA EmailSoundPassed ==
    ASSUME AdmissionAssumption, NEW times, NEW all, NEW told, NEW open \in Nat,
           open + 1 <= Cardinality(Logins), NEW now \in Nat,
           EmailSound(times, all, told, open, now), Len(times) < MaxFailed
    PROVE  EmailSound(times, all, told, open + 1, now)
<1>1. /\ Len(times) \in Nat /\ Len(all) \in Nat
      /\ \A i \in 1 .. Len(all) : all[i] \in Nat
  BY EmailFacts
<1>2. ASSUME NEW i \in 1 .. Len(all), i + Burst - (open + 1) <= Len(all)
      PROVE  all[i] <= now - FailWindow
  <2> DEFINE taken == Len(all) - Len(times)
  <2>1. i + MaxFailed - 1 <= Len(all)
    BY <1>1, <1>2, BurstFacts
  <2>2. i \in 1 .. taken
    BY <1>1, <2>1, BurstFacts
  <2>3. all[i] < now - FailWindow + 1
    BY <2>2 DEF EmailSound, Remains
  <2> QED BY <1>1, <2>3, BurstFacts
<1> QED BY <1>2 DEF EmailSound

\* The password of an open request is wrong: it takes the room that was kept for it.
LEMMA EmailSoundFailed ==
    ASSUME AdmissionAssumption, NEW times, NEW all, NEW told, NEW open \in Nat \ {0},
           open <= Cardinality(Logins), NEW now \in 0 .. Horizon,
           EmailSound(times, all, told, open, now)
    PROVE  EmailSound(Append(times, now), Append(all, now), Never, open - 1, now)
<1> DEFINE times2 == Append(times, now)
           all2 == Append(all, now)
<1>1. now \in Nat /\ now \in Int
  BY DEF AdmissionAssumption
<1>2. /\ times \in Times /\ all \in Times /\ times \in Seq(Int) /\ all \in Seq(Int)
      /\ Len(times) \in Nat /\ Len(all) \in Nat
      /\ \A i \in 1 .. Len(times) : times[i] \in Nat
      /\ \A i \in 1 .. Len(all) : all[i] \in Nat
  BY <1>1, EmailFacts
<1>3. Remains(times2, all2, now - FailWindow + 1)
  <2>1. now - FailWindow + 1 \in Int
    BY <1>1, BurstFacts
  <2> QED BY <1>1, <1>2, <2>1, RemainsAppend DEF EmailSound
<1>4. /\ times2 \in Times /\ Len(times2) = Len(times) + 1 /\ times2[Len(times) + 1] = now
      /\ \A i \in 1 .. Len(times) : times2[i] = times[i]
  BY <1>2, AppendProperties DEF Times
<1>5. /\ all2 \in Times /\ Len(all2) = Len(all) + 1 /\ all2[Len(all) + 1] = now
      /\ \A i \in 1 .. Len(all) : all2[i] = all[i]
  BY <1>2, AppendProperties DEF Times
<1> HIDE DEF times2, all2
<1>6. ASSUME NEW i \in 1 .. Len(times2) PROVE times2[i] <= now
  <2>1. CASE i = Len(times) + 1
    BY <1>1, <1>4, <2>1
  <2>2. CASE i # Len(times) + 1
    <3>1. i \in 1 .. Len(times)
      BY <1>2, <1>4, <2>2
    <3> QED BY <1>4, <3>1 DEF EmailSound
  <2> QED BY <2>1, <2>2
<1>7. ASSUME NEW i \in 1 .. Len(times2), NEW j \in 1 .. Len(times2), i <= j
      PROVE  times2[i] <= times2[j]
  <2>1. CASE j = Len(times) + 1
    BY <1>4, <1>6, <2>1
  <2>2. CASE j # Len(times) + 1
    <3>1. i \in 1 .. Len(times) /\ j \in 1 .. Len(times)
      BY <1>2, <1>4, <1>7, <2>2
    <3> QED BY <1>4, <1>7, <3>1 DEF EmailSound
  <2> QED BY <2>1, <2>2
<1>8. ASSUME NEW i \in 1 .. Len(all2), i + Burst - (open - 1) <= Len(all2)
      PROVE  all2[i] <= now - FailWindow
  <2>1. i + Burst - open <= Len(all) /\ i \in 1 .. Len(all)
    <3>1. Len(all2) = Len(all) + 1 /\ Burst \in Nat /\ MaxFailed \in Nat \ {0}
          /\ Burst = MaxFailed + Cardinality(Logins) - 1 /\ Cardinality(Logins) \in Nat
      BY <1>5, BurstFacts
    <3>2. Len(all) \in Nat /\ i \in Int /\ 1 <= i
      BY <1>2
    <3>3. i + Burst - open <= Len(all)
      BY <1>8, <3>1, <3>2
    <3>4. i <= Len(all)
      BY <3>1, <3>2, <3>3
    <3> QED BY <3>2, <3>3, <3>4
  <2> QED BY <1>5, <2>1 DEF EmailSound
<1>9. ASSUME NEW i \in 1 .. Len(all2), i + Burst <= Len(all2)
      PROVE  all2[i + Burst] - all2[i] >= FailWindow
  <2>0. Burst \in Nat /\ MaxFailed \in Nat \ {0} /\ Burst >= open
    BY BurstFacts
  <2>1. i \in 1 .. Len(all) /\ all2[i] = all[i] /\ all[i] \in Nat
    BY <1>2, <1>5, <1>9, <2>0
  <2>2. CASE i + Burst = Len(all) + 1
    <3>1. i + Burst - open <= Len(all)
      BY <1>2, <2>0, <2>2
    <3>2. all[i] <= now - FailWindow
      BY <2>1, <3>1 DEF EmailSound
    <3>3. all2[i + Burst] = now
      BY <1>5, <2>2
    <3> QED BY <1>1, <2>1, <3>2, <3>3, BurstFacts
  <2>3. CASE i + Burst # Len(all) + 1
    <3>1. i + Burst <= Len(all) /\ i + Burst \in 1 .. Len(all)
      <4>1. Len(all2) = Len(all) + 1 /\ Len(all) \in Nat /\ i \in Int /\ 1 <= i
        BY <1>2, <1>5, <2>1
      <4>2. i + Burst <= Len(all)
        BY <1>9, <2>0, <2>3, <4>1
      <4> QED BY <2>0, <4>1, <4>2
    <3> QED BY <1>5, <2>1, <3>1 DEF EmailSound
  <2> QED BY <2>2, <2>3
<1>10. EmailSound(times2, all2, Never, open - 1, now)
  BY <1>3, <1>4, <1>5, <1>6, <1>7, <1>8, <1>9 DEF EmailSound
<1> QED BY <1>10 DEF times2, all2

\* So the account is open again when it was told.
LEMMA EmailToldRight ==
    ASSUME AdmissionAssumption, NEW times, NEW all, NEW told, NEW open \in Int,
           NEW now \in Nat, EmailSound(times, all, told, open, now), told # Never,
           now >= told, NEW left, left = Pruned(times, now - FailWindow), left # <<>>
    PROVE  ~(left[Len(left)] + LockoutTime - now > 0)
<1>1. times # <<>> /\ left[Len(left)] = times[Len(times)]
  BY EmailSoundPruned
<1>2. times[Len(times)] + LockoutTime < told /\ told \in Nat
  BY <1>1 DEF EmailSound
<1>3. Len(times) \in 1 .. Len(times) /\ \A i \in 1 .. Len(times) : times[i] \in Nat
  BY <1>1, EmailFacts
<1>4. times[Len(times)] \in Nat
  BY <1>3
<1> QED BY <1>1, <1>2, <1>4, BurstFacts

-----------------------------------------------------------------------------
(* The steps of the limiter.                                               *)

\* The parts of the type invariant that speak of the limiter, and of the lockout.
LimiterTypeOK ==
    /\ hits \in [Clients -> Times] /\ hitOrder \in Seq(Clients)
    /\ Tracks(hitOrder, hits, ClientCap)
    /\ served \in [Clients -> Times]
    /\ lastSeen \in [Clients -> Nat \cup {Never}]
    /\ toldClient \in [Clients -> Nat \cup {Never}]

LockoutTypeOK ==
    /\ failed \in [Emails -> Times] /\ failedOrder \in Seq(Emails)
    /\ Tracks(failedOrder, failed, EmailCap)
    /\ failures \in [Emails -> Times]
    /\ toldEmail \in [Emails -> Nat \cup {Never}]

LoginTypeOK ==
    login \in [Logins -> {NoLogin} \cup [pc : {"admitted", "verifying"}, email : Emails]]

\* The type invariant is that of the limiter, the lockout and the requests.
LEMMA TypeParts ==
    AdmissionTypeOK <=> /\ clock \in 0 .. Horizon /\ arrived \in 0 .. RequestBound
                        /\ LimiterTypeOK /\ LockoutTypeOK /\ LoginTypeOK
BY DEF AdmissionTypeOK, LimiterTypeOK, LockoutTypeOK, LoginTypeOK

LimiterInv == LimiterTypeOK /\ ClientsSound /\ SeenInOrder
LockoutInv == LockoutTypeOK /\ LoginTypeOK /\ EmailsSound

\* The invariant in the same parts.
LEMMA InvParts ==
    AdmissionIInv <=> /\ clock \in 0 .. Horizon /\ arrived \in 0 .. RequestBound
                      /\ LimiterInv /\ LockoutInv
BY TypeParts DEF AdmissionIInv, LimiterInv, LockoutInv

\* A step of authenticate_user leaves the limiter alone.
LEMMA LimiterKept ==
    ASSUME LimiterInv, UNCHANGED <<clock, limiterVars>>
    PROVE  LimiterInv'
BY DEF LimiterInv, LimiterTypeOK, ClientsSound, SeenInOrder, limiterVars, Tracks

\* Time passes for the limiter.
LEMMA LimiterTick ==
    ASSUME AdmissionAssumption, clock \in 0 .. Horizon, LimiterInv, Tick
    PROVE  LimiterInv'
<1>1. clock' = clock + 1 /\ UNCHANGED limiterVars /\ clock \in Nat
  BY DEF Tick, AdmissionAssumption
<1>2. LimiterTypeOK'
  BY <1>1 DEF LimiterInv, LimiterTypeOK, limiterVars, Tracks
<1>3. ASSUME NEW c \in Clients PROVE ClientSound(hits[c], served[c], toldClient[c], clock + 1)
  BY <1>1, ClientSoundLater DEF LimiterInv, ClientsSound
<1>4. ClientsSound'
  BY <1>1, <1>3 DEF ClientsSound, limiterVars
<1>5. ASSUME NEW c \in Clients, lastSeen[c] # Never PROVE lastSeen[c] <= clock + 1
  <2>1. lastSeen[c] \in Nat /\ lastSeen[c] <= clock
    BY <1>5 DEF LimiterInv, LimiterTypeOK, SeenInOrder
  <2> QED BY <1>1, <2>1
<1>6. SeenInOrder'
  BY <1>1, <1>5 DEF LimiterInv, SeenInOrder, limiterVars
<1> QED BY <1>2, <1>4, <1>6 DEF LimiterInv

\* A request moves its client to the end of the order of last requests.
LEMMA SeenMoved ==
    ASSUME AdmissionAssumption, clock \in Nat, LimiterTypeOK, SeenInOrder, NEW c \in Clients,
           NEW t, t = ToEnd(hitOrder, c),
           lastSeen' = [lastSeen EXCEPT ![c] = clock], clock' = clock,
           SameOrder(hitOrder', t), Keys(hitOrder') \subseteq Keys(t)
    PROVE  SeenInOrder'
<1> DEFINE seen == [lastSeen EXCEPT ![c] = clock]
<1>1. /\ lastSeen \in [Clients -> Nat \cup {Never}] /\ hitOrder \in Seq(Clients)
      /\ Distinct(hitOrder)
  BY DEF LimiterTypeOK, Tracks, Distinct
<1>2. seen[c] = clock /\ \A d \in Clients \ {c} : seen[d] = lastSeen[d]
  BY <1>1
<1>3. DOMAIN seen = Clients
  BY <1>1
<1> HIDE DEF seen
<1>4. /\ t \in Seq(Clients) /\ Keys(t) = Keys(hitOrder) \cup {c}
  BY <1>1, ToEndFacts
<1>5. /\ Len(t) \in Nat \ {0} /\ t[Len(t)] = c
      /\ \A i, j \in 1 .. Len(t) - 1 : i < j =>
            \E a, b \in DOMAIN hitOrder : a < b /\ t[i] = hitOrder[a] /\ t[j] = hitOrder[b]
      /\ \A i \in 1 .. Len(t) - 1 : t[i] \in Keys(hitOrder) \ {c}
  <2>1. MovedToEnd(t, hitOrder, c)
    BY <1>1, ToEndOrder
  <2> QED BY <2>1 DEF MovedToEnd
<1>6. DOMAIN t = 1 .. Len(t) /\ DOMAIN hitOrder = 1 .. Len(hitOrder)
  BY <1>1, <1>4, LenProperties
<1>7. \A d \in Keys(hitOrder) : d \in Clients /\ lastSeen[d] # Never
  <2>1. \A i \in DOMAIN hitOrder : hitOrder[i] \in Clients
    BY <1>1, <1>6, ElementOfSeq
  <2> QED BY <2>1 DEF Keys, SeenInOrder
<1>8. \A d \in Clients : lastSeen[d] # Never => lastSeen[d] \in Nat /\ lastSeen[d] <= clock
  BY <1>1 DEF SeenInOrder
<1>9. ASSUME NEW d \in Keys(t) PROVE d \in Clients /\ seen[d] \in Nat
  BY <1>2, <1>4, <1>7, <1>8
<1>10. ASSUME NEW i \in DOMAIN t, NEW j \in DOMAIN t, i < j PROVE seen[t[i]] <= seen[t[j]]
  <2>1. i \in 1 .. Len(t) - 1 /\ i \in Int /\ j \in Int
    BY <1>5, <1>6, <1>10
  <2>2. t[i] \in Keys(hitOrder) /\ t[i] # c
    BY <1>5, <2>1
  <2>3. t[i] \in Clients /\ seen[t[i]] = lastSeen[t[i]] /\ lastSeen[t[i]] <= clock
    BY <1>2, <1>7, <1>8, <2>2
  <2>4. CASE j = Len(t)
    BY <1>2, <1>5, <2>3, <2>4
  <2>5. CASE j # Len(t)
    <3>1. j \in 1 .. Len(t) - 1
      BY <1>5, <1>6, <2>1, <2>5
    <3>2. PICK a \in DOMAIN hitOrder, b \in DOMAIN hitOrder :
              a < b /\ t[i] = hitOrder[a] /\ t[j] = hitOrder[b]
      BY <1>5, <1>10, <2>1, <3>1
    <3>3. lastSeen[t[i]] <= lastSeen[t[j]]
      BY <3>2 DEF SeenInOrder
    <3>4. t[j] \in Keys(hitOrder) /\ t[j] # c
      BY <1>5, <3>1
    <3>5. seen[t[j]] = lastSeen[t[j]]
      BY <1>2, <1>7, <3>4
    <3> QED BY <2>3, <3>3, <3>5
  <2> QED BY <2>4, <2>5
<1>11. lastSeen' = seen
  BY DEF seen
<1>12. IsFiniteSet({d \in Clients : lastSeen'[d] # Never})
  <2> DEFINE before == {d \in Clients : lastSeen[d] # Never}
  <2>1. IsFiniteSet(before \cup {c})
    BY FS_AddElement DEF SeenInOrder
  <2>2. {d \in Clients : lastSeen'[d] # Never} \subseteq before \cup {c}
    BY <1>2, <1>11
  <2> HIDE DEF before
  <2> QED BY <2>1, <2>2, FS_Subset
<1>13. \A d \in Clients : lastSeen'[d] # Never => lastSeen'[d] <= clock'
  BY <1>2, <1>8, <1>11
<1>14. \A i \in DOMAIN hitOrder' : hitOrder'[i] \in Keys(t)
  BY DEF Keys
<1>15. \A d \in Keys(t) : lastSeen'[d] \in Nat
  BY <1>9, <1>11
<1>16. ASSUME NEW i \in DOMAIN hitOrder', NEW j \in DOMAIN hitOrder', i < j
       PROVE  lastSeen'[hitOrder'[i]] <= lastSeen'[hitOrder'[j]]
  <2>1. PICK a \in DOMAIN t, b \in DOMAIN t :
            a < b /\ hitOrder'[i] = t[a] /\ hitOrder'[j] = t[b]
    BY <1>16 DEF SameOrder
  <2> QED BY <1>10, <1>11, <2>1
<1>17. ASSUME NEW i \in DOMAIN hitOrder' PROVE lastSeen'[hitOrder'[i]] # Never
  BY <1>14, <1>15 DEF AdmissionAssumption
<1> QED BY <1>12, <1>13, <1>16, <1>17 DEF SeenInOrder

\* What Counted and Limited are for a client.
LEMMA CountedIs ==
    ASSUME AdmissionAssumption, clock \in 0 .. Horizon, LimiterInv, NEW c \in Clients,
           NEW left, left = Counted(c)
    PROVE  /\ ClientSound(hits[c], served[c], toldClient[c], clock)
           /\ left = Pruned(hits[c], clock - Window) /\ left \in Times /\ Len(left) \in Nat
           /\ left # <<>> => hits[c] # <<>>
           /\ Limited(c) <=> Len(left) >= MaxRequests
           /\ Limited(c) => left # <<>> /\ Head(left) = left[1]
<1>1. ClientSound(hits[c], served[c], toldClient[c], clock) /\ clock \in Nat
  BY DEF LimiterInv, ClientsSound, AdmissionAssumption
<1>2. left = Pruned(hits[c], clock - Window)
  BY DEF Counted
<1>3. left \in Times /\ (left # <<>> => hits[c] # <<>>)
  BY <1>1, <1>2, CountedFacts
<1>4. Len(left) \in Nat
  BY <1>3, TimesFacts
<1>5. Limited(c) <=> Len(left) >= MaxRequests
  BY DEF Limited
<1>6. ASSUME Limited(c) PROVE left # <<>>
  <2>1. Len(left) # 0
    BY <1>4, <1>5, <1>6 DEF AdmissionAssumption
  <2> QED BY <2>1
<1>7. ASSUME left # <<>> PROVE Head(left) = left[1]
  BY <1>3, <1>7 DEF Times
<1> QED BY <1>1, <1>2, <1>3, <1>4, <1>5, <1>6, <1>7

\* A refusal moves the client to the end and forgets nobody.
LEMMA LimiterRefuse ==
    ASSUME AdmissionAssumption, clock \in 0 .. Horizon, LimiterInv, NEW c \in Clients,
           Refuse(c)
    PROVE  LimiterInv'
<1> DEFINE left == Counted(c)
           answer == clock + RetryAfter(Head(left) + Window - clock)
           order == ToEnd(hitOrder, c)
<1>1. /\ Limited(c) /\ clock' = clock /\ served' = served
      /\ hits' = [hits EXCEPT ![c] = left]
      /\ hitOrder' = order
      /\ lastSeen' = [lastSeen EXCEPT ![c] = clock]
      /\ toldClient' = [toldClient EXCEPT ![c] = answer]
  BY DEF Refuse
<1>2. /\ hits \in [Clients -> Times] /\ hitOrder \in Seq(Clients)
      /\ Tracks(hitOrder, hits, ClientCap)
      /\ served \in [Clients -> Times]
      /\ lastSeen \in [Clients -> Nat \cup {Never}]
      /\ toldClient \in [Clients -> Nat \cup {Never}]
      /\ clock \in Nat
  BY DEF LimiterInv, LimiterTypeOK, AdmissionAssumption
<1>3. /\ ClientSound(hits[c], served[c], toldClient[c], clock)
      /\ left = Pruned(hits[c], clock - Window) /\ left \in Times
      /\ left # <<>> /\ hits[c] # <<>> /\ Head(left) = left[1]
  BY <1>1, CountedIs
<1> HIDE DEF left
<1>4. ClientSound(left, served[c], answer, clock)
  <2>1. ClientSound(left, served[c], clock + RetryAfter(left[1] + Window - clock), clock)
    BY <1>2, <1>3, ClientSoundRefused
  <2> QED BY <1>3, <2>1
<1>5. answer \in Nat \cup {Never}
  BY <1>4 DEF ClientSound
<1> HIDE DEF answer
<1>6. /\ hits'[c] = left /\ toldClient'[c] = answer
      /\ \A d \in Clients \ {c} : hits'[d] = hits[d] /\ toldClient'[d] = toldClient[d]
  BY <1>1, <1>2
<1>7. ASSUME NEW d \in Clients
      PROVE  ClientSound(hits'[d], served'[d], toldClient'[d], clock')
  <2>1. ClientSound(hits[d], served[d], toldClient[d], clock)
    BY DEF LimiterInv, ClientsSound
  <2>2. CASE d = c
    BY <1>1, <1>4, <1>6, <2>2
  <2>3. CASE d # c
    BY <1>1, <1>6, <2>1, <2>3
  <2> QED BY <2>2, <2>3
<1>8. order \in Seq(Clients) /\ Tracks(order, hits', ClientCap)
  <2>1. <<>> \in Times /\ ClientCap \in Nat \ {0}
    BY EmptySeq DEF Times, AdmissionAssumption
  <2>2. order = ToEnd(hitOrder, c)
    OBVIOUS
  <2>3. hits' \in [Clients -> Times]
    BY <1>1, <1>2, <1>3
  <2> HIDE DEF order
  <2> QED BY <1>2, <1>3, <1>6, <2>1, <2>2, <2>3, TracksChanged
<1> HIDE DEF order
<1>9. LimiterTypeOK'
  <2>1. hits' \in [Clients -> Times] /\ toldClient' \in [Clients -> Nat \cup {Never}]
    BY <1>1, <1>2, <1>3, <1>5
  <2>2. lastSeen' \in [Clients -> Nat \cup {Never}]
    BY <1>1, <1>2
  <2>3. hitOrder' \in Seq(Clients) /\ Tracks(hitOrder', hits', ClientCap)
    BY <1>1, <1>8
  <2> QED BY <1>1, <1>2, <2>1, <2>2, <2>3 DEF LimiterTypeOK, Tracks
<1>10. SeenInOrder'
  <2>1. order = ToEnd(hitOrder, c)
    BY DEF order
  <2>2. SameOrder(hitOrder', order) /\ Keys(hitOrder') \subseteq Keys(order)
    BY <1>1 DEF SameOrder
  <2> QED BY <1>1, <1>2, <2>1, <2>2, SeenMoved DEF LimiterInv
<1> QED BY <1>7, <1>9, <1>10 DEF LimiterInv, ClientsSound

\* An admission adds a hit, and may take the client that asked last the longest ago out.
LEMMA LimiterAdmit ==
    ASSUME AdmissionAssumption, clock \in 0 .. Horizon, LimiterInv, NEW c \in Clients,
           Admit(c)
    PROVE  LimiterInv'
<1> DEFINE left == Counted(c)
           order == ToEnd(hitOrder, c)
           evicted == Overflow(order, ClientCap)
           hits2 == Stored(hits, c, Append(left, clock), evicted)
           served2 == Stored(served, c, Append(served[c], clock), evicted)
           kept == Kept(order, ClientCap)
<1>1. /\ ~Limited(c) /\ clock' = clock
      /\ hits' = hits2 /\ hitOrder' = kept /\ served' = served2
      /\ lastSeen' = [lastSeen EXCEPT ![c] = clock]
      /\ toldClient' = [toldClient EXCEPT ![c] = Never]
  BY DEF Admit
<1>2. /\ hits \in [Clients -> Times] /\ hitOrder \in Seq(Clients)
      /\ Tracks(hitOrder, hits, ClientCap)
      /\ served \in [Clients -> Times]
      /\ lastSeen \in [Clients -> Nat \cup {Never}]
      /\ toldClient \in [Clients -> Nat \cup {Never}]
      /\ clock \in Nat /\ ClientCap \in Nat \ {0}
  BY DEF LimiterInv, LimiterTypeOK, AdmissionAssumption
<1>3. /\ ClientSound(hits[c], served[c], toldClient[c], clock)
      /\ left = Pruned(hits[c], clock - Window) /\ left \in Times
      /\ ~(Len(left) >= MaxRequests) /\ Len(left) \in Nat
  BY <1>1, CountedIs
<1> HIDE DEF left
<1>4. ClientSound(Append(left, clock), Append(served[c], clock), Never, clock)
  <2>1. Len(left) < MaxRequests
    BY <1>3 DEF AdmissionAssumption
  <2> QED BY <1>3, <2>1, ClientSoundAdmitted
<1>5. /\ Append(left, clock) \in Times /\ Append(left, clock) # <<>>
      /\ Append(served[c], clock) \in Times
  <2>1. left \in Seq(0 .. Horizon) /\ served[c] \in Seq(0 .. Horizon)
    BY <1>2, <1>3 DEF Times
  <2> QED BY <2>1, AppendProperties DEF Times
<1>6. <<>> \in Times
  BY EmptySeq DEF Times
<1>7. /\ hits2 \in [Clients -> Times] /\ hits2[c] = Append(left, clock)
      /\ \A d \in Clients \ {c} : hits2[d] = IF d \in evicted THEN <<>> ELSE hits[d]
      /\ served2 \in [Clients -> Times] /\ served2[c] = Append(served[c], clock)
      /\ \A d \in Clients \ {c} : served2[d] = IF d \in evicted THEN <<>> ELSE served[d]
  <2> DEFINE new == Append(left, clock)
             new2 == Append(served[c], clock)
  <2> HIDE DEF new, new2, evicted
  <2>1. new \in Times /\ new2 \in Times
    BY <1>5 DEF new, new2
  <2>2. /\ hits2 = Stored(hits, c, new, evicted)
        /\ served2 = Stored(served, c, new2, evicted)
    BY DEF new, new2
  <2> HIDE DEF hits2, served2
  <2>3. hits2 \in [Clients -> Times] /\ served2 \in [Clients -> Times]
    BY <1>2, <1>6, <2>1, <2>2 DEF Stored
  <2>4. hits2[c] = new
    BY <1>2, <1>6, <2>1, <2>2 DEF Stored
  <2>5. served2[c] = new2
    BY <1>2, <1>6, <2>1, <2>2 DEF Stored
  <2>6. \A d \in Clients \ {c} : hits2[d] = IF d \in evicted THEN <<>> ELSE hits[d]
    BY <1>2, <1>6, <2>1, <2>2 DEF Stored
  <2>7. \A d \in Clients \ {c} : served2[d] = IF d \in evicted THEN <<>> ELSE served[d]
    BY <1>2, <1>6, <2>1, <2>2 DEF Stored
  <2> QED BY <2>3, <2>4, <2>5, <2>6, <2>7 DEF new, new2
<1>8. kept \in Seq(Clients) /\ Tracks(kept, hits2, ClientCap)
  BY <1>2, <1>5, <1>6, TracksStored
<1> HIDE DEF hits2, served2, evicted
<1>9. ASSUME NEW d \in Clients
      PROVE  ClientSound(hits'[d], served'[d], toldClient'[d], clock')
  <2>1. ClientSound(hits[d], served[d], toldClient[d], clock) /\ toldClient[d] \in Nat \cup {Never}
    BY DEF LimiterInv, ClientsSound, ClientSound
  <2>2. CASE d = c
    <3>1. toldClient'[d] = Never
      BY <1>1, <1>2, <2>2
    <3> QED BY <1>1, <1>4, <1>7, <2>2, <3>1
  <2>3. CASE d # c /\ d \in evicted
    <3>1. toldClient'[d] = toldClient[d] /\ hits'[d] = <<>> /\ served'[d] = <<>>
      BY <1>1, <1>2, <1>7, <2>3
    <3>2. ClientSound(<<>>, <<>>, toldClient[d], clock)
      BY <2>1, ClientSoundForgotten
    <3> QED BY <1>1, <3>1, <3>2
  <2>4. CASE d # c /\ d \notin evicted
    <3>1. toldClient'[d] = toldClient[d] /\ hits'[d] = hits[d] /\ served'[d] = served[d]
      BY <1>1, <1>2, <1>7, <2>4
    <3> QED BY <1>1, <2>1, <3>1
  <2> QED BY <2>2, <2>3, <2>4
<1>10. SeenInOrder'
  <2>1. Len(hitOrder) <= ClientCap /\ Distinct(hitOrder) /\ Len(hitOrder) \in Nat
    BY <1>2, LenProperties DEF Tracks, Distinct
  <2>2. order = ToEnd(hitOrder, c)
    OBVIOUS
  <2> HIDE DEF order
  <2>3. /\ order \in Seq(Clients) /\ Distinct(order)
        /\ Len(order) = IF c \in Keys(hitOrder) THEN Len(hitOrder) ELSE Len(hitOrder) + 1
    BY <1>2, <2>1, <2>2, ToEndFacts
  <2>4. Len(order) # 0
    <3>1. MovedToEnd(order, hitOrder, c)
      BY <1>2, <2>1, <2>2, ToEndOrder
    <3> QED BY <3>1 DEF MovedToEnd
  <2>5. Len(order) <= ClientCap + 1
    BY <1>2, <2>1, <2>3
  <2>6. SameOrder(kept, order) /\ Keys(kept) = Keys(order) \ evicted
    BY <1>2, <2>3, <2>4, <2>5, KeptFacts DEF evicted
  <2> HIDE DEF kept
  <2>7. SameOrder(hitOrder', order) /\ Keys(hitOrder') \subseteq Keys(order)
    BY <1>1, <2>6
  <2> QED BY <1>1, <1>2, <2>2, <2>7, SeenMoved DEF LimiterInv
<1> HIDE DEF order, kept
<1>11. LimiterTypeOK'
  <2>1. toldClient' \in [Clients -> Nat \cup {Never}]
    BY <1>1, <1>2
  <2>2. lastSeen' \in [Clients -> Nat \cup {Never}]
    BY <1>1, <1>2
  <2>3. hitOrder' \in Seq(Clients) /\ Tracks(hitOrder', hits', ClientCap)
    BY <1>1, <1>8
  <2> QED BY <1>1, <1>7, <2>1, <2>2, <2>3 DEF LimiterTypeOK, Tracks
<1> QED BY <1>9, <1>10, <1>11 DEF LimiterInv, ClientsSound

-----------------------------------------------------------------------------
(* The steps of the lockout.                                               *)

\* A slot without a request is at no await.
LEMMA NoLoginIs ==
    NoLogin.pc = "idle"
BY DEF NoLogin

\* A request under way has an account, and its record follows it to the next await.
LEMMA LoginFacts ==
    ASSUME LoginTypeOK, NEW r \in Logins, login[r].pc \in {"admitted", "verifying"}
    PROVE  /\ login[r].email \in Emails
           /\ [login[r] EXCEPT !.pc = "verifying"]
                 = [pc |-> "verifying", email |-> login[r].email]
<1>1. login[r] # NoLogin
  BY NoLoginIs
<1>2. login[r] \in [pc : {"admitted", "verifying"}, email : Emails]
  BY <1>1 DEF LoginTypeOK
<1> QED BY <1>2

\* The open requests of an account are no more than those in flight.
LEMMA VerifyingFinite ==
    ASSUME AdmissionAssumption, NEW progress, NEW e
    PROVE  /\ IsFiniteSet(Verifying(progress, e))
           /\ Open(progress, e) \in Nat /\ Open(progress, e) <= Cardinality(Logins)
<1>1. Verifying(progress, e) \subseteq Logins
  BY DEF Verifying
<1> HIDE DEF Verifying
<1>2. /\ IsFiniteSet(Verifying(progress, e))
      /\ Cardinality(Verifying(progress, e)) <= Cardinality(Logins)
  BY <1>1, FS_Subset DEF AdmissionAssumption
<1> QED BY <1>2, FS_CardinalityType DEF Open

\* One request moves: it is no longer, or not yet, one that is open for e, ...
LEMMA OpenFewer ==
    ASSUME AdmissionAssumption, NEW before, NEW after, NEW r \in Logins, NEW e,
           \A s \in Logins \ {r} : after[s] = before[s],
           ~(after[r].pc = "verifying" /\ after[r].email = e)
    PROVE  Open(after, e) <= Open(before, e)
<1>1. Verifying(after, e) \subseteq Verifying(before, e)
  BY DEF Verifying
<1>2. IsFiniteSet(Verifying(before, e))
  BY VerifyingFinite
<1> QED BY <1>1, <1>2, FS_Subset DEF Open

\* ... it was one and has ended, ...
LEMMA OpenLess ==
    ASSUME AdmissionAssumption, NEW before, NEW after, NEW r \in Logins, NEW e,
           \A s \in Logins \ {r} : after[s] = before[s],
           before[r].pc = "verifying", before[r].email = e, after[r].pc # "verifying",
           NEW n \in Nat, n = Open(before, e), NEW m \in Nat, m = Open(after, e)
    PROVE  n # 0 /\ m = n - 1
<1>1. Verifying(after, e) = Verifying(before, e) \ {r} /\ r \in Verifying(before, e)
  BY DEF Verifying
<1>2. IsFiniteSet(Verifying(before, e)) /\ Open(before, e) \in Nat /\ Open(after, e) \in Nat
  BY VerifyingFinite
<1>3. Open(after, e) = Open(before, e) - 1
  <2> DEFINE v == Verifying(before, e)
  <2> HIDE DEF v
  <2>1. IsFiniteSet(v) /\ r \in v
    BY <1>1, <1>2 DEF v
  <2>2. Cardinality(v \ {r}) = Cardinality(v) - 1
    BY <2>1, FS_RemoveElement
  <2> QED BY <1>1, <2>2 DEF Open, v
<1>4. Open(before, e) # 0
  <2>1. Cardinality(Verifying(before, e)) # 0
    BY <1>1, <1>2, FS_EmptySet
  <2> QED BY <2>1 DEF Open
<1> QED BY <1>2, <1>3, <1>4

\* ... or it has become one.
LEMMA OpenMore ==
    ASSUME AdmissionAssumption, NEW before, NEW after, NEW r \in Logins, NEW e,
           \A s \in Logins \ {r} : after[s] = before[s],
           before[r].pc # "verifying", after[r].pc = "verifying", after[r].email = e,
           NEW n \in Nat, n = Open(before, e), NEW m \in Nat, m = Open(after, e)
    PROVE  m = n + 1
<1>1. Verifying(after, e) = Verifying(before, e) \cup {r} /\ r \notin Verifying(before, e)
  BY DEF Verifying
<1>2. IsFiniteSet(Verifying(before, e)) /\ Open(after, e) <= Cardinality(Logins)
  BY VerifyingFinite
<1>3. Open(after, e) = Open(before, e) + 1
  BY <1>1, <1>2, FS_AddElement DEF Open
<1> QED BY <1>2, <1>3

\* A step of the limiter that is no login leaves the lockout alone.
LEMMA LockoutKept ==
    ASSUME LockoutInv, UNCHANGED <<clock, lockoutVars, login>>
    PROVE  LockoutInv'
BY DEF LockoutInv, LockoutTypeOK, LoginTypeOK, EmailsSound, Open, Verifying, lockoutVars, Tracks

\* Time passes for the lockout.
LEMMA LockoutTick ==
    ASSUME AdmissionAssumption, clock \in 0 .. Horizon, LockoutInv, Tick
    PROVE  LockoutInv'
<1>1. clock' = clock + 1 /\ UNCHANGED <<lockoutVars, login>> /\ clock \in Nat
  BY DEF Tick, AdmissionAssumption
<1>2. LockoutTypeOK' /\ LoginTypeOK'
  BY <1>1 DEF LockoutInv, LockoutTypeOK, LoginTypeOK, lockoutVars, Tracks
<1>3. ASSUME NEW e \in Emails
      PROVE  EmailSound(failed[e], failures[e], toldEmail[e], Open(login, e), clock + 1)
  <2>1. EmailSound(failed[e], failures[e], toldEmail[e], Open(login, e), clock)
    BY DEF LockoutInv, EmailsSound
  <2>2. Open(login, e) \in Int
    BY VerifyingFinite
  <2> QED BY <1>1, <2>1, <2>2, EmailSoundLater
<1>4. EmailsSound'
  BY <1>1, <1>3 DEF EmailsSound, lockoutVars, Open, Verifying
<1> QED BY <1>2, <1>4 DEF LockoutInv

\* An account whose counts stay, and for which no request becomes open.
LEMMA EmailLeft ==
    ASSUME AdmissionAssumption, clock \in 0 .. Horizon, LockoutInv, NEW e \in Emails,
           NEW r \in Logins, NEW progress,
           \A s \in Logins \ {r} : progress[s] = login[s],
           ~(progress[r].pc = "verifying" /\ progress[r].email = e)
    PROVE  EmailSound(failed[e], failures[e], toldEmail[e], Open(progress, e), clock)
<1>1. EmailSound(failed[e], failures[e], toldEmail[e], Open(login, e), clock) /\ clock \in Nat
  BY DEF LockoutInv, EmailsSound, AdmissionAssumption
<1>2. Open(login, e) \in Nat /\ Open(progress, e) \in Nat
  BY VerifyingFinite
<1>3. Open(progress, e) <= Open(login, e)
  BY OpenFewer
<1> QED BY <1>1, <1>2, <1>3, EmailSoundFewer

\* A request arrives, or is gone, and nothing is recorded.
LEMMA LockoutIdle ==
    ASSUME AdmissionAssumption, clock \in 0 .. Horizon, LockoutInv, NEW r \in Logins,
           NEW new, new = NoLogin \/ \E e \in Emails : new = [pc |-> "admitted", email |-> e],
           login' = [login EXCEPT ![r] = new], UNCHANGED <<clock, lockoutVars>>
    PROVE  LockoutInv'
<1>1. LoginTypeOK' /\ login'[r] = new /\ \A s \in Logins \ {r} : login'[s] = login[s]
  BY DEF LockoutInv, LoginTypeOK
<1>2. new.pc # "verifying"
  BY NoLoginIs
<1>3. LockoutTypeOK'
  BY DEF LockoutInv, LockoutTypeOK, lockoutVars, Tracks
<1>4. ASSUME NEW e \in Emails
      PROVE  EmailSound(failed[e], failures[e], toldEmail[e], Open(login', e), clock)
  BY <1>1, <1>2, EmailLeft
<1>5. /\ failed' = failed /\ failures' = failures /\ toldEmail' = toldEmail /\ clock' = clock
  BY DEF lockoutVars
<1>6. EmailsSound'
  BY <1>4, <1>5 DEF EmailsSound, Open, Verifying
<1> QED BY <1>1, <1>3, <1>6 DEF LockoutInv

\* What Attempts and Locked are for an account.
LEMMA AttemptsIs ==
    ASSUME AdmissionAssumption, clock \in 0 .. Horizon, LockoutInv, NEW e \in Emails,
           NEW left, left = Attempts(e)
    PROVE  /\ EmailSound(left, failures[e], toldEmail[e], Open(login, e), clock)
           /\ left = Pruned(failed[e], clock - FailWindow) /\ left \in Times /\ Len(left) \in Nat
           /\ left # <<>> => failed[e] # <<>> /\ Len(left) # 0
           /\ Locked(e) <=> Len(left) >= MaxFailed /\ left[Len(left)] + LockoutTime - clock > 0
           /\ Locked(e) => left # <<>>
<1>1. EmailSound(failed[e], failures[e], toldEmail[e], Open(login, e), clock) /\ clock \in Nat
  BY DEF LockoutInv, EmailsSound, AdmissionAssumption
<1>2. left = Pruned(failed[e], clock - FailWindow)
  BY DEF Attempts
<1>3. Open(login, e) \in Int
  BY VerifyingFinite
<1>4. /\ EmailSound(left, failures[e], toldEmail[e], Open(login, e), clock)
      /\ left # <<>> => failed[e] # <<>>
  BY <1>1, <1>2, <1>3, EmailSoundPruned
<1>5. left \in Times /\ Len(left) \in Nat /\ (left # <<>> => Len(left) # 0)
  BY <1>1, <1>4, EmailFacts
<1>6. Locked(e) <=> Len(left) >= MaxFailed /\ left[Len(left)] + LockoutTime - clock > 0
  BY DEF Locked, Remaining, Last
<1>7. ASSUME Locked(e) PROVE left # <<>>
  <2>1. Len(left) # 0
    BY <1>5, <1>6, <1>7, BurstFacts
  <2> QED BY <2>1
<1> QED BY <1>2, <1>4, <1>5, <1>6, <1>7

\* The counts of an account have changed, and perhaps another one was evicted.
LEMMA LockoutMoved ==
    ASSUME AdmissionAssumption, clock \in 0 .. Horizon, LockoutInv, NEW r \in Logins,
           NEW e \in Emails, clock' = clock, LoginTypeOK',
           failed' \in [Emails -> Times], failures' \in [Emails -> Times],
           toldEmail' \in [Emails -> Nat \cup {Never}],
           failedOrder' \in Seq(Emails), Tracks(failedOrder', failed', EmailCap),
           \A s \in Logins \ {r} : login'[s] = login[s],
           login'[r].pc = "verifying" => login'[r].email = e,
           EmailSound(failed'[e], failures'[e], toldEmail'[e], Open(login', e), clock),
           \A d \in Emails \ {e} :
              /\ toldEmail'[d] = toldEmail[d]
              /\ \/ failed'[d] = failed[d] /\ failures'[d] = failures[d]
                 \/ failed'[d] = <<>> /\ failures'[d] = <<>>
    PROVE  LockoutInv'
<1>1. LockoutTypeOK'
  BY DEF LockoutTypeOK, Tracks
<1>2. ASSUME NEW d \in Emails
      PROVE  EmailSound(failed'[d], failures'[d], toldEmail'[d], Open(login', d), clock)
  <2>1. CASE d = e
    BY <2>1
  <2>2. CASE d # e
    <3>1. toldEmail'[d] = toldEmail[d] /\ toldEmail[d] \in Nat \cup {Never}
      BY <2>2 DEF LockoutInv, LockoutTypeOK
    <3>2. EmailSound(failed[d], failures[d], toldEmail[d], Open(login', d), clock)
      BY <2>2, EmailLeft
    <3>3. CASE failed'[d] = failed[d] /\ failures'[d] = failures[d]
      BY <3>1, <3>2, <3>3
    <3>4. CASE failed'[d] = <<>> /\ failures'[d] = <<>>
      <4>1. EmailSound(<<>>, <<>>, toldEmail[d], Open(login', d), clock)
        BY <3>1, EmailSoundForgotten
      <4> QED BY <3>1, <3>4, <4>1
    <3> QED BY <2>2, <3>3, <3>4
  <2> QED BY <2>1, <2>2
<1>3. EmailsSound'
  BY <1>2 DEF EmailsSound, Open, Verifying
<1> QED BY <1>1, <1>3 DEF LockoutInv

\* A refusal promises a time, and forgets only what has left the window.
LEMMA LockoutRefuse ==
    ASSUME AdmissionAssumption, clock \in 0 .. Horizon, LockoutInv, NEW r \in Logins,
           RefuseAccount(r)
    PROVE  LockoutInv'
<1> DEFINE e == login[r].email
           left == Attempts(e)
           answer == clock + RetryAfter(Remaining(e))
           order == ToEnd(failedOrder, e)
<1>1. /\ login[r].pc = "admitted" /\ Locked(e) /\ clock' = clock
      /\ failed' = [failed EXCEPT ![e] = left] /\ failures' = failures
      /\ failedOrder' = failedOrder
      /\ toldEmail' = [toldEmail EXCEPT ![e] = answer]
      /\ login' = [login EXCEPT ![r] = NoLogin]
  BY DEF RefuseAccount
<1>2. /\ failed \in [Emails -> Times] /\ failures \in [Emails -> Times]
      /\ toldEmail \in [Emails -> Nat \cup {Never}]
      /\ failedOrder \in Seq(Emails) /\ Tracks(failedOrder, failed, EmailCap)
      /\ clock \in Nat /\ LoginTypeOK
  BY DEF LockoutInv, LockoutTypeOK, AdmissionAssumption
<1>3. e \in Emails
  BY <1>1, <1>2, LoginFacts
<1>4. answer = clock + RetryAfter(left[Len(left)] + LockoutTime - clock)
  BY DEF Remaining, Last
<1> HIDE DEF e, answer
<1>5. left = Attempts(e)
  OBVIOUS
<1> HIDE DEF left
<1>6. /\ EmailSound(left, failures[e], toldEmail[e], Open(login, e), clock)
      /\ left \in Times /\ left # <<>> /\ failed[e] # <<>>
      /\ left[Len(left)] + LockoutTime - clock > 0
  BY <1>1, <1>3, <1>5, AttemptsIs
<1>7. LoginTypeOK' /\ login'[r] = NoLogin /\ \A s \in Logins \ {r} : login'[s] = login[s]
  BY <1>1, <1>2 DEF LoginTypeOK
<1>8. Open(login, e) \in Nat /\ Open(login', e) \in Nat /\ Open(login', e) <= Open(login, e)
  <2>1. login'[r].pc # "verifying"
    BY <1>7, NoLoginIs
  <2> QED BY <1>7, <2>1, VerifyingFinite, OpenFewer
<1>9. EmailSound(left, failures[e], answer, Open(login', e), clock)
  <2>1. EmailSound(left, failures[e], answer, Open(login, e), clock)
    BY <1>2, <1>4, <1>6, <1>8, EmailSoundTold
  <2> QED BY <1>2, <1>8, <2>1, EmailSoundFewer
<1>10. answer \in Nat \cup {Never}
  BY <1>9 DEF EmailSound
<1>11. /\ failed' \in [Emails -> Times] /\ failed'[e] = left
       /\ \A d \in Emails \ {e} : failed'[d] = failed[d]
  BY <1>1, <1>2, <1>3, <1>6
<1>12. /\ toldEmail' \in [Emails -> Nat \cup {Never}] /\ toldEmail'[e] = answer
       /\ \A d \in Emails \ {e} : toldEmail'[d] = toldEmail[d]
  BY <1>1, <1>2, <1>3, <1>10
<1>13. Tracks(failedOrder', failed', EmailCap)
  <2>1. <<>> \in Times /\ EmailCap \in Nat \ {0}
    BY EmptySeq DEF Times, AdmissionAssumption
  <2>2. order = ToEnd(failedOrder, e)
    OBVIOUS
  <2> HIDE DEF order
  <2>3. Tracks(failedOrder, failed', EmailCap)
    BY <1>2, <1>3, <1>6, <1>11, <2>1, <2>2, TracksChanged
  <2> QED BY <1>1, <2>3
<1> HIDE DEF order
<1>14. EmailSound(failed'[e], failures'[e], toldEmail'[e], Open(login', e), clock)
  BY <1>1, <1>9, <1>11, <1>12
<1>15. login'[r].pc = "verifying" => login'[r].email = e
  BY <1>7, NoLoginIs
<1>16. failures' \in [Emails -> Times] /\ failedOrder' \in Seq(Emails)
  BY <1>1, <1>2
<1>17. \A d \in Emails \ {e} :
          /\ toldEmail'[d] = toldEmail[d]
          /\ failed'[d] = failed[d] /\ failures'[d] = failures[d]
  BY <1>1, <1>11, <1>12
<1> QED BY <1>1, <1>3, <1>7, <1>11, <1>12, <1>13, <1>14, <1>15, <1>16, <1>17, LockoutMoved

\* A success forgets the failures of the account.
LEMMA LockoutRight ==
    ASSUME AdmissionAssumption, clock \in 0 .. Horizon, LockoutInv, NEW r \in Logins,
           RightPassword(r)
    PROVE  LockoutInv'
<1> DEFINE e == login[r].email
           order == Without(failedOrder, e)
<1>1. /\ login[r].pc = "verifying" /\ clock' = clock
      /\ failed' = [failed EXCEPT ![e] = <<>>] /\ failures' = [failures EXCEPT ![e] = <<>>]
      /\ failedOrder' = order
      /\ toldEmail' = toldEmail
      /\ login' = [login EXCEPT ![r] = NoLogin]
  BY DEF RightPassword, Forget
<1>2. /\ failed \in [Emails -> Times] /\ failures \in [Emails -> Times]
      /\ toldEmail \in [Emails -> Nat \cup {Never}]
      /\ failedOrder \in Seq(Emails) /\ Tracks(failedOrder, failed, EmailCap)
      /\ clock \in Nat /\ LoginTypeOK
  BY DEF LockoutInv, LockoutTypeOK, AdmissionAssumption
<1>3. e \in Emails
  BY <1>1, <1>2, LoginFacts
<1> HIDE DEF e
<1>4. <<>> \in Times /\ EmailCap \in Nat \ {0}
  BY EmptySeq DEF Times, AdmissionAssumption
<1>5. /\ failed' \in [Emails -> Times] /\ failed'[e] = <<>>
      /\ \A d \in Emails \ {e} : failed'[d] = failed[d]
  BY <1>1, <1>2, <1>3, <1>4
<1>6. /\ failures' \in [Emails -> Times] /\ failures'[e] = <<>>
      /\ \A d \in Emails \ {e} : failures'[d] = failures[d]
  BY <1>1, <1>2, <1>3, <1>4
<1>7. LoginTypeOK' /\ login'[r] = NoLogin /\ \A s \in Logins \ {r} : login'[s] = login[s]
  BY <1>1, <1>2 DEF LoginTypeOK
<1>8. failedOrder' \in Seq(Emails) /\ Tracks(failedOrder', failed', EmailCap)
  <2>1. order = Without(failedOrder, e)
    OBVIOUS
  <2> HIDE DEF order
  <2>2. order \in Seq(Emails) /\ Tracks(order, failed', EmailCap)
    BY <1>2, <1>3, <1>4, <1>5, <2>1, TracksForgotten
  <2> QED BY <1>1, <2>2
<1> HIDE DEF order
<1>9. EmailSound(failed'[e], failures'[e], toldEmail'[e], Open(login', e), clock)
  <2>1. toldEmail[e] \in Nat \cup {Never}
    BY <1>2, <1>3
  <2>2. EmailSound(<<>>, <<>>, toldEmail[e], Open(login', e), clock)
    BY <2>1, EmailSoundForgotten
  <2> QED BY <1>1, <1>5, <1>6, <2>2
<1>10. login'[r].pc = "verifying" => login'[r].email = e
  BY <1>7, NoLoginIs
<1>11. toldEmail' \in [Emails -> Nat \cup {Never}]
  BY <1>1, <1>2
<1>12. \A d \in Emails \ {e} :
          /\ toldEmail'[d] = toldEmail[d]
          /\ failed'[d] = failed[d] /\ failures'[d] = failures[d]
  BY <1>1, <1>5, <1>6
<1> QED BY <1>1, <1>3, <1>5, <1>6, <1>7, <1>8, <1>9, <1>10, <1>11, <1>12, LockoutMoved

\* A request passes: there is room for its failure, or a lockout is over and all is old.
LEMMA LockoutPass ==
    ASSUME AdmissionAssumption, clock \in 0 .. Horizon, LockoutInv, NEW r \in Logins,
           PassAccount(r)
    PROVE  LockoutInv'
<1> DEFINE e == login[r].email
           left == Attempts(e)
           kept == IF Len(left) >= MaxFailed THEN <<>> ELSE left
           without == Without(failedOrder, e)
           order == ToEnd(failedOrder, e)
<1>1. /\ login[r].pc = "admitted" /\ ~Locked(e) /\ clock' = clock
      /\ failed' = [failed EXCEPT ![e] = kept] /\ failures' = failures
      /\ IF kept = <<>> THEN failedOrder' = without ELSE failedOrder' = failedOrder
      /\ toldEmail' = toldEmail
      /\ login' = [login EXCEPT ![r].pc = "verifying"]
  BY DEF PassAccount, Forget
<1>2. /\ failed \in [Emails -> Times] /\ failures \in [Emails -> Times]
      /\ toldEmail \in [Emails -> Nat \cup {Never}]
      /\ failedOrder \in Seq(Emails) /\ Tracks(failedOrder, failed, EmailCap)
      /\ clock \in Nat /\ LoginTypeOK
  BY DEF LockoutInv, LockoutTypeOK, AdmissionAssumption
<1>3. /\ e \in Emails
      /\ [login[r] EXCEPT !.pc = "verifying"] = [pc |-> "verifying", email |-> e]
  BY <1>1, <1>2, LoginFacts
<1> HIDE DEF e
<1>4. left = Attempts(e)
  OBVIOUS
<1> HIDE DEF left
<1>5. /\ EmailSound(left, failures[e], toldEmail[e], Open(login, e), clock)
      /\ left \in Times /\ Len(left) \in Nat
      /\ left # <<>> => failed[e] # <<>> /\ Len(left) # 0
      /\ Locked(e) <=> Len(left) >= MaxFailed /\ left[Len(left)] + LockoutTime - clock > 0
  BY <1>3, <1>4, AttemptsIs
<1>6. /\ login' = [login EXCEPT ![r] = [pc |-> "verifying", email |-> e]]
      /\ LoginTypeOK'
      /\ login'[r] = [pc |-> "verifying", email |-> e]
      /\ \A s \in Logins \ {r} : login'[s] = login[s]
  BY <1>1, <1>2, <1>3 DEF LoginTypeOK
<1>7. /\ Open(login, e) \in Nat /\ Open(login', e) = Open(login, e) + 1
      /\ Open(login, e) + 1 <= Cardinality(Logins)
  <2>1. login[r].pc # "verifying" /\ login'[r].pc = "verifying" /\ login'[r].email = e
    BY <1>1, <1>6
  <2>2. /\ Open(login, e) \in Nat /\ Open(login', e) \in Nat
        /\ Open(login', e) <= Cardinality(Logins)
    BY VerifyingFinite
  <2>3. Open(login', e) = Open(login, e) + 1
    <3>1. \A s \in Logins \ {r} : login'[s] = login[s]
      BY <1>6
    <3> QED BY <2>1, <2>2, <3>1, OpenMore
  <2> QED BY <2>2, <2>3
<1>8. EmailSound(kept, failures[e], toldEmail[e], Open(login', e), clock)
  <2>1. CASE Len(left) >= MaxFailed
    <3>1. kept = <<>>
      BY <2>1
    <3>2. /\ Len(left) \in 1 .. Len(left)
          /\ \A i \in 1 .. Len(left) : left[i] \in Nat
      BY <1>2, <1>5, <2>1, EmailFacts, BurstFacts
    <3>3. ~(left[Len(left)] + LockoutTime - clock > 0)
      BY <1>1, <1>5, <2>1
    <3>4. left[Len(left)] + LockoutTime <= clock
      BY <1>2, <3>2, <3>3, BurstFacts
    <3>5. ASSUME NEW i \in 1 .. Len(left) PROVE left[i] <= clock - FailWindow
      <4>1. left[i] <= left[Len(left)]
        <5>1. i <= Len(left)
          OBVIOUS
        <5> QED BY <1>5, <3>2, <5>1 DEF EmailSound
      <4>2. left[i] \in Nat /\ left[Len(left)] \in Nat
        BY <3>2
      <4>3. FailWindow \in Nat /\ LockoutTime \in Nat /\ FailWindow <= LockoutTime
        BY BurstFacts
      <4> QED BY <1>2, <3>4, <4>1, <4>2, <4>3
    <3>6. Open(login, e) \in Int /\ Open(login', e) \in Int
      BY <1>7
    <3>7. EmailSound(<<>>, failures[e], toldEmail[e], Open(login', e), clock)
      BY <1>2, <1>5, <3>5, <3>6, EmailSoundEmptied
    <3> QED BY <3>1, <3>7
  <2>2. CASE ~(Len(left) >= MaxFailed)
    <3>1. kept = left /\ Len(left) < MaxFailed
      BY <1>5, <2>2, BurstFacts
    <3>2. EmailSound(left, failures[e], toldEmail[e], Open(login, e) + 1, clock)
      BY <1>2, <1>5, <1>7, <3>1, EmailSoundPassed
    <3> QED BY <1>7, <3>1, <3>2
  <2> QED BY <2>1, <2>2
<1>9. kept \in Times /\ (kept # <<>> => failed[e] # <<>>)
  <2>1. <<>> \in Times
    BY EmptySeq DEF Times
  <2> QED BY <1>5, <2>1
<1> HIDE DEF kept
<1>10. /\ failed' \in [Emails -> Times] /\ failed'[e] = kept
       /\ \A d \in Emails \ {e} : failed'[d] = failed[d]
  BY <1>1, <1>2, <1>3, <1>9
<1>11. failedOrder' \in Seq(Emails) /\ Tracks(failedOrder', failed', EmailCap)
  <2>1. <<>> \in Times /\ EmailCap \in Nat \ {0}
    BY EmptySeq DEF Times, AdmissionAssumption
  <2>2. CASE kept = <<>>
    <3>1. without = Without(failedOrder, e)
      OBVIOUS
    <3> HIDE DEF without
    <3>2. failed'[e] = <<>>
      BY <1>10, <2>2
    <3>3. without \in Seq(Emails) /\ Tracks(without, failed', EmailCap)
      BY <1>2, <1>3, <1>10, <2>1, <3>1, <3>2, TracksForgotten
    <3> QED BY <1>1, <2>2, <3>3
  <2>3. CASE kept # <<>>
    <3>1. order = ToEnd(failedOrder, e)
      OBVIOUS
    <3> HIDE DEF order
    <3>2. Tracks(failedOrder, failed', EmailCap)
      BY <1>2, <1>3, <1>9, <1>10, <2>1, <2>3, <3>1, TracksChanged
    <3> QED BY <1>1, <1>2, <2>3, <3>2
  <2> QED BY <2>2, <2>3
<1> HIDE DEF without, order
<1>12. EmailSound(failed'[e], failures'[e], toldEmail'[e], Open(login', e), clock)
  BY <1>1, <1>8, <1>10
<1>13. login'[r].pc = "verifying" => login'[r].email = e
  BY <1>6
<1>14. failures' \in [Emails -> Times] /\ toldEmail' \in [Emails -> Nat \cup {Never}]
  BY <1>1, <1>2
<1>15. \A d \in Emails \ {e} :
          /\ toldEmail'[d] = toldEmail[d]
          /\ failed'[d] = failed[d] /\ failures'[d] = failures[d]
  BY <1>1, <1>10
<1> QED BY <1>1, <1>3, <1>6, <1>10, <1>11, <1>12, <1>13, <1>14, <1>15, LockoutMoved

\* A failure uses the room of its request, and may evict another account.
LEMMA LockoutWrong ==
    ASSUME AdmissionAssumption, clock \in 0 .. Horizon, LockoutInv, NEW r \in Logins,
           WrongPassword(r)
    PROVE  LockoutInv'
<1> DEFINE e == login[r].email
           order == ToEnd(failedOrder, e)
           evicted == Overflow(order, EmailCap)
           new == Append(failed[e], clock)
           new2 == Append(failures[e], clock)
           failed2 == Stored(failed, e, new, evicted)
           failures2 == Stored(failures, e, new2, evicted)
           kept == Kept(order, EmailCap)
<1>1. /\ login[r].pc = "verifying" /\ clock' = clock
      /\ failed' = failed2 /\ failedOrder' = kept /\ failures' = failures2
      /\ toldEmail' = [toldEmail EXCEPT ![e] = Never]
      /\ login' = [login EXCEPT ![r] = NoLogin]
  BY DEF WrongPassword
<1>2. /\ failed \in [Emails -> Times] /\ failures \in [Emails -> Times]
      /\ toldEmail \in [Emails -> Nat \cup {Never}]
      /\ failedOrder \in Seq(Emails) /\ Tracks(failedOrder, failed, EmailCap)
      /\ clock \in Nat /\ LoginTypeOK /\ EmailCap \in Nat \ {0}
  BY DEF LockoutInv, LockoutTypeOK, AdmissionAssumption
<1>3. e \in Emails /\ login[r].email = e
  BY <1>1, <1>2, LoginFacts
<1> HIDE DEF e
<1>4. EmailSound(failed[e], failures[e], toldEmail[e], Open(login, e), clock)
  BY <1>3 DEF LockoutInv, EmailsSound
<1>5. LoginTypeOK' /\ login'[r] = NoLogin /\ \A s \in Logins \ {r} : login'[s] = login[s]
  BY <1>1, <1>2 DEF LoginTypeOK
<1>6. /\ Open(login, e) \in Nat \ {0} /\ Open(login', e) = Open(login, e) - 1
      /\ Open(login, e) <= Cardinality(Logins)
  <2>1. login'[r].pc # "verifying"
    BY <1>5, NoLoginIs
  <2>2. /\ Open(login, e) \in Nat /\ Open(login', e) \in Nat
        /\ Open(login, e) <= Cardinality(Logins)
    BY VerifyingFinite
  <2>3. Open(login, e) # 0 /\ Open(login', e) = Open(login, e) - 1
    <3>1. \A s \in Logins \ {r} : login'[s] = login[s]
      BY <1>5
    <3>2. login[r].pc = "verifying" /\ login[r].email = e
      BY <1>1, <1>3
    <3> QED BY <2>1, <2>2, <3>1, <3>2, OpenLess
  <2> QED BY <2>2, <2>3
<1>7. EmailSound(new, new2, Never, Open(login, e) - 1, clock)
  BY <1>4, <1>6, EmailSoundFailed
<1>8. new \in Times /\ new2 \in Times /\ new # <<>> /\ <<>> \in Times
  <2>1. failed[e] \in Seq(0 .. Horizon) /\ failures[e] \in Seq(0 .. Horizon)
    BY <1>2, <1>3 DEF Times
  <2> QED BY <2>1, AppendProperties, EmptySeq DEF Times
<1> HIDE DEF new, new2
<1>9. kept \in Seq(Emails) /\ Tracks(kept, failed2, EmailCap)
  BY <1>2, <1>3, <1>8, TracksStored
<1> HIDE DEF evicted, kept
<1>10. /\ failed2 \in [Emails -> Times] /\ failed2[e] = new
       /\ \A d \in Emails \ {e} : failed2[d] = IF d \in evicted THEN <<>> ELSE failed[d]
  BY <1>2, <1>3, <1>8 DEF Stored
<1>11. /\ failures2 \in [Emails -> Times] /\ failures2[e] = new2
       /\ \A d \in Emails \ {e} : failures2[d] = IF d \in evicted THEN <<>> ELSE failures[d]
  BY <1>2, <1>3, <1>8 DEF Stored
<1> HIDE DEF failed2, failures2
<1>12. /\ toldEmail' \in [Emails -> Nat \cup {Never}] /\ toldEmail'[e] = Never
       /\ \A d \in Emails \ {e} : toldEmail'[d] = toldEmail[d]
  BY <1>1, <1>2, <1>3
<1>13. EmailSound(failed'[e], failures'[e], toldEmail'[e], Open(login', e), clock)
  BY <1>1, <1>6, <1>7, <1>10, <1>11, <1>12
<1>14. /\ failed' \in [Emails -> Times] /\ failures' \in [Emails -> Times]
       /\ failedOrder' \in Seq(Emails) /\ Tracks(failedOrder', failed', EmailCap)
  BY <1>1, <1>9, <1>10, <1>11
<1>15. login'[r].pc = "verifying" => login'[r].email = e
  BY <1>5, NoLoginIs
<1>16. ASSUME NEW d \in Emails \ {e}
       PROVE  /\ toldEmail'[d] = toldEmail[d]
              /\ \/ failed'[d] = failed[d] /\ failures'[d] = failures[d]
                 \/ failed'[d] = <<>> /\ failures'[d] = <<>>
  BY <1>1, <1>10, <1>11, <1>12
<1> QED BY <1>1, <1>3, <1>5, <1>12, <1>13, <1>14, <1>15, <1>16, LockoutMoved

-----------------------------------------------------------------------------
(* The invariant, and what follows from it.                                *)

\* A worker that starts has counted nothing.
LEMMA InitAdmission == AdmissionInit => AdmissionIInv
<1> SUFFICES ASSUME AdmissionInit PROVE AdmissionIInv
  OBVIOUS
<1>1. /\ clock = 0 /\ arrived = 0
      /\ hits = [c \in Clients |-> <<>>] /\ hitOrder = <<>>
      /\ failed = [e \in Emails |-> <<>>] /\ failedOrder = <<>>
      /\ login = [r \in Logins |-> NoLogin]
      /\ served = hits /\ failures = failed
      /\ lastSeen = [c \in Clients |-> Never] /\ toldClient = lastSeen
      /\ toldEmail = [e \in Emails |-> Never]
  BY DEF AdmissionInit
<1>2. /\ <<>> \in Times /\ clock \in 0 .. Horizon /\ arrived \in 0 .. RequestBound
      /\ clock \in Nat
  BY <1>1, AdmissionAssumption, EmptySeq DEF Times, AdmissionAssumption
<1>3. Tracks(hitOrder, hits, ClientCap)
  <2>1. ClientCap \in Nat /\ Len(<<>>) = 0 /\ DOMAIN <<>> = {}
    BY AdmissionAssumption DEF AdmissionAssumption
  <2> QED BY <1>1, <2>1 DEF Tracks
<1>4. Tracks(failedOrder, failed, EmailCap)
  <2>1. EmailCap \in Nat /\ Len(<<>>) = 0 /\ DOMAIN <<>> = {}
    BY AdmissionAssumption DEF AdmissionAssumption
  <2> QED BY <1>1, <2>1 DEF Tracks
<1>5. LimiterTypeOK
  BY <1>1, <1>2, <1>3, EmptySeq DEF LimiterTypeOK
<1>6. LockoutTypeOK /\ LoginTypeOK
  BY <1>1, <1>2, <1>4, EmptySeq DEF LockoutTypeOK, LoginTypeOK
<1>7. ClientsSound
  <2>1. ASSUME NEW c \in Clients PROVE ClientSound(<<>>, <<>>, Never, clock)
    BY AdmissionAssumption, ClientSoundForgotten
  <2> QED BY <1>1, <2>1 DEF ClientsSound
<1>8. EmailsSound
  <2>1. ASSUME NEW e \in Emails PROVE EmailSound(<<>>, <<>>, Never, Open(login, e), clock)
    BY AdmissionAssumption, EmailSoundForgotten
  <2>2. \A e \in Emails : failed[e] = <<>> /\ failures[e] = <<>> /\ toldEmail[e] = Never
    BY <1>1
  <2> QED BY <2>1, <2>2 DEF EmailsSound
<1>9. SeenInOrder
  <2>1. {d \in Clients : lastSeen[d] # Never} = {}
    BY <1>1
  <2>2. DOMAIN hitOrder = {}
    BY <1>1
  <2> QED BY <1>1, <2>1, <2>2, FS_EmptySet DEF SeenInOrder
<1> QED BY <1>2, <1>5, <1>6, <1>7, <1>8, <1>9, InvParts DEF LimiterInv, LockoutInv

\* Every step keeps both parts: those of the limiter, then those of authenticate_user.
LEMMA NextAdmission ==
    AdmissionIInv /\ [AdmissionNext]_admissionVars => AdmissionIInv'
<1> SUFFICES ASSUME AdmissionIInv, [AdmissionNext]_admissionVars PROVE AdmissionIInv'
  OBVIOUS
<1>1. /\ AdmissionAssumption /\ clock \in 0 .. Horizon /\ arrived \in 0 .. RequestBound
      /\ LimiterInv /\ LockoutInv
  BY AdmissionAssumption, InvParts
<1>2. SUFFICES /\ clock' \in 0 .. Horizon /\ arrived' \in 0 .. RequestBound
               /\ LimiterInv' /\ LockoutInv'
  BY InvParts DEF AdmissionIInv, LimiterInv, LockoutInv, AdmissionTypeOK, LimiterTypeOK,
                  LockoutTypeOK, LoginTypeOK
<1>3. CASE UNCHANGED admissionVars
  BY <1>1, <1>3, LimiterKept, LockoutKept DEF admissionVars
<1>4. CASE Tick
  <2>1. clock' \in 0 .. Horizon /\ arrived' = arrived
    BY <1>1, <1>4 DEF Tick, AdmissionAssumption
  <2> QED BY <1>1, <1>4, <2>1, LimiterTick, LockoutTick
<1>5. ASSUME NEW c \in Clients, Refuse(c)
      PROVE  /\ clock' \in 0 .. Horizon /\ arrived' \in 0 .. RequestBound
             /\ LimiterInv' /\ LockoutInv'
  <2>1. UNCHANGED <<clock, lockoutVars, login, arrived>>
    BY <1>5 DEF Refuse
  <2> QED BY <1>1, <1>5, <2>1, LimiterRefuse, LockoutKept
<1>6. ASSUME NEW c \in Clients, Admit(c)
      PROVE  /\ clock' \in 0 .. Horizon /\ arrived' \in 0 .. RequestBound
             /\ LimiterInv' /\ UNCHANGED <<clock, lockoutVars>>
  <2>1. UNCHANGED <<clock, lockoutVars>> /\ arrived < RequestBound /\ arrived' = arrived + 1
    BY <1>6 DEF Admit
  <2>2. arrived' \in 0 .. RequestBound
    BY <1>1, <2>1 DEF AdmissionAssumption
  <2> QED BY <1>1, <1>6, <2>1, <2>2, LimiterAdmit
<1>7. ASSUME NEW c \in Clients, AdmitOther(c)
      PROVE  /\ clock' \in 0 .. Horizon /\ arrived' \in 0 .. RequestBound
             /\ LimiterInv' /\ LockoutInv'
  BY <1>1, <1>6, <1>7, LockoutKept DEF AdmitOther
<1>8. ASSUME NEW r \in Logins, NEW c \in Clients, NEW e \in Emails, AdmitLogin(r, c, e)
      PROVE  /\ clock' \in 0 .. Horizon /\ arrived' \in 0 .. RequestBound
             /\ LimiterInv' /\ LockoutInv'
  <2>1. Admit(c) /\ login' = [login EXCEPT ![r] = [pc |-> "admitted", email |-> e]]
    BY <1>8 DEF AdmitLogin
  <2>2. LockoutInv'
    <3> DEFINE new == [pc |-> "admitted", email |-> e]
    <3>1. /\ new = NoLogin \/ \E d \in Emails : new = [pc |-> "admitted", email |-> d]
          /\ login' = [login EXCEPT ![r] = new]
      BY <2>1
    <3> HIDE DEF new
    <3> QED BY <1>1, <1>6, <2>1, <3>1, LockoutIdle
  <2> QED BY <1>6, <2>1, <2>2
<1>9. ASSUME NEW r \in Logins,
             \/ RefuseAccount(r) \/ PassAccount(r) \/ Abort(r)
             \/ WrongPassword(r) \/ RightPassword(r)
      PROVE  /\ clock' \in 0 .. Horizon /\ arrived' \in 0 .. RequestBound
             /\ LimiterInv' /\ LockoutInv'
  <2>1. UNCHANGED <<clock, limiterVars, arrived>>
    BY <1>9 DEF RefuseAccount, PassAccount, Abort, WrongPassword, RightPassword
  <2>2. LimiterInv'
    BY <1>1, <2>1, LimiterKept
  <2>3. CASE Abort(r)
    <3>1. login' = [login EXCEPT ![r] = NoLogin] /\ UNCHANGED <<clock, lockoutVars>>
      BY <2>3 DEF Abort
    <3>2. LockoutInv'
      BY <1>1, <3>1, LockoutIdle
    <3> QED BY <1>1, <2>1, <2>2, <3>2
  <2>4. CASE RefuseAccount(r) \/ PassAccount(r) \/ WrongPassword(r) \/ RightPassword(r)
    <3>1. LockoutInv'
      BY <1>1, <2>4, LockoutRefuse, LockoutPass, LockoutWrong, LockoutRight
    <3> QED BY <1>1, <2>1, <2>2, <3>1
  <2> QED BY <1>9, <2>3, <2>4
<1> QED BY <1>3, <1>4, <1>5, <1>7, <1>8, <1>9 DEF AdmissionNext

\* So the invariant holds in every state of a behaviour.
LEMMA AdmissionInductive == AdmissionSpec => []AdmissionIInv
BY InitAdmission, NextAdmission, PTL DEF AdmissionSpec

\* What the invariant says of the admissions of a client.
LEMMA WindowFollows == AdmissionIInv => WindowLimit
<1> SUFFICES ASSUME AdmissionIInv, NEW c \in Clients, NEW i \in DOMAIN served[c],
                    i + MaxRequests \in DOMAIN served[c]
             PROVE  served[c][i + MaxRequests] - served[c][i] > Window
  BY DEF WindowLimit
<1>1. ClientSound(hits[c], served[c], toldClient[c], clock)
  BY DEF AdmissionIInv, ClientsSound
<1>2. DOMAIN served[c] = 1 .. Len(served[c]) /\ Len(served[c]) \in Nat
  BY <1>1, AdmissionAssumption, TimesFacts DEF ClientSound
<1>3. i \in 1 .. Len(served[c]) /\ i + MaxRequests <= Len(served[c])
  BY <1>2
<1> QED BY <1>1, <1>3 DEF ClientSound

\* What it says of the failures of an account.
LEMMA FailuresFollow == AdmissionIInv => FailuresLimited
<1> SUFFICES ASSUME AdmissionIInv, NEW e \in Emails, NEW i \in DOMAIN failures[e]
             PROVE  LET j == i + MaxFailed + Cardinality(Logins) - 1
                    IN  j \in DOMAIN failures[e]
                          => failures[e][j] - failures[e][i] >= FailWindow
  BY DEF FailuresLimited
<1>1. EmailSound(failed[e], failures[e], toldEmail[e], Open(login, e), clock)
  BY DEF AdmissionIInv, EmailsSound
<1>2. DOMAIN failures[e] = 1 .. Len(failures[e]) /\ Len(failures[e]) \in Nat
  BY <1>1, AdmissionAssumption, TimesFacts DEF EmailSound
<1>3. i \in 1 .. Len(failures[e]) /\ i \in Int
  BY <1>2
<1>4. i + MaxFailed + Cardinality(Logins) - 1 = i + Burst
  BY <1>3, AdmissionAssumption, BurstFacts
<1>5. ASSUME i + Burst \in DOMAIN failures[e]
      PROVE  failures[e][i + Burst] - failures[e][i] >= FailWindow
  <2>1. i + Burst <= Len(failures[e])
    BY <1>2, <1>5
  <2> QED BY <1>1, <1>3, <2>1 DEF EmailSound
<1> QED BY <1>4, <1>5

\* What it says of the promises.
LEMMA RetryAfterFollows == AdmissionIInv => RetryAfterSuffices
<1> SUFFICES ASSUME AdmissionIInv PROVE RetryAfterSuffices
  OBVIOUS
<1>1. /\ AdmissionAssumption /\ clock \in 0 .. Horizon /\ clock \in Nat
      /\ LimiterInv /\ LockoutInv
  BY AdmissionAssumption, InvParts DEF AdmissionAssumption
<1>2. ASSUME NEW c \in Clients, toldClient[c] # Never, clock >= toldClient[c]
      PROVE  ~Limited(c)
  <2>1. ClientSound(hits[c], served[c], toldClient[c], clock)
    BY <1>1 DEF LimiterInv, ClientsSound
  <2>2. ~(Len(Pruned(hits[c], clock - Window)) >= MaxRequests)
    BY <1>1, <1>2, <2>1, ClientToldRight
  <2> QED BY <2>2 DEF Limited, Counted
<1>3. ASSUME NEW e \in Emails, toldEmail[e] # Never, clock >= toldEmail[e]
      PROVE  ~Locked(e)
  <2> DEFINE left == Attempts(e)
  <2>1. left = Attempts(e)
    OBVIOUS
  <2> HIDE DEF left
  <2>2. /\ left = Pruned(failed[e], clock - FailWindow)
        /\ Locked(e) <=> Len(left) >= MaxFailed /\ left[Len(left)] + LockoutTime - clock > 0
        /\ Locked(e) => left # <<>>
    BY <1>1, <2>1, AttemptsIs
  <2>3. EmailSound(failed[e], failures[e], toldEmail[e], Open(login, e), clock)
    BY <1>1 DEF LockoutInv, EmailsSound
  <2>4. Open(login, e) \in Int
    BY <1>1, VerifyingFinite
  <2>5. ASSUME left # <<>> PROVE ~(left[Len(left)] + LockoutTime - clock > 0)
    BY <1>1, <1>3, <2>2, <2>3, <2>4, <2>5, EmailToldRight
  <2> QED BY <2>2, <2>5
<1> QED BY <1>2, <1>3 DEF RetryAfterSuffices

\* The order of the clients that an admission evicts from: the first is the one that
\* asked last the longest ago, and the others are as many as the cap.
LEMMA EvictedIsCrowded ==
    ASSUME AdmissionAssumption, clock \in 0 .. Horizon, LimiterInv, LimiterInv',
           NEW c \in Clients, NEW d \in Clients, d # c, Admit(d),
           NEW order, order = ToEnd(hitOrder, d), c \in Overflow(order, ClientCap)
    PROVE  Cardinality({x \in Clients \ {c} : lastSeen'[x] # Never /\
                                              lastSeen'[x] >= lastSeen[c]}) >= ClientCap
<1> DEFINE others == {x \in Clients \ {c} : lastSeen'[x] # Never /\
                                            lastSeen'[x] >= lastSeen[c]}
<1>1. /\ hitOrder \in Seq(Clients) /\ Len(hitOrder) \in Nat /\ Distinct(hitOrder)
      /\ Len(hitOrder) <= ClientCap
      /\ lastSeen \in [Clients -> Nat \cup {Never}] /\ SeenInOrder
      /\ clock \in Nat /\ ClientCap \in Nat \ {0} /\ Never \notin Nat
  BY LenProperties DEF LimiterInv, LimiterTypeOK, AdmissionAssumption, Tracks, Distinct
<1>2. lastSeen'[d] = clock /\ \A x \in Clients \ {d} : lastSeen'[x] = lastSeen[x]
  BY <1>1 DEF Admit
<1>3. order \in Seq(Clients) /\ Distinct(order) /\ Len(order) <= ClientCap + 1
  <2>1. /\ order \in Seq(Clients) /\ Distinct(order)
        /\ Len(order) = IF d \in Keys(hitOrder) THEN Len(hitOrder) ELSE Len(hitOrder) + 1
    BY <1>1, ToEndFacts
  <2> QED BY <1>1, <2>1
<1>4. /\ Len(order) \in Nat \ {0} /\ order[Len(order)] = d
      /\ \A i, j \in 1 .. Len(order) - 1 : i < j =>
            \E a, b \in DOMAIN hitOrder :
               a < b /\ order[i] = hitOrder[a] /\ order[j] = hitOrder[b]
      /\ \A i \in 1 .. Len(order) - 1 : order[i] \in Keys(hitOrder) \ {d}
  <2>1. MovedToEnd(order, hitOrder, d)
    BY <1>1, ToEndOrder
  <2> QED BY <2>1 DEF MovedToEnd
<1>5. DOMAIN order = 1 .. Len(order) /\ \A i \in 1 .. Len(order) : order[i] \in Clients
  BY <1>3, LenProperties, ElementOfSeq
<1>6. Len(order) > ClientCap /\ c = order[1]
  <2>1. Len(order) > ClientCap /\ c = Head(order)
    BY DEF Overflow
  <2>2. Head(order) = order[1]
    <3>1. order # <<>>
      BY <1>1, <2>1
    <3> QED BY <1>3, <3>1, HeadTailProperties
  <2> QED BY <2>1, <2>2
<1>7. Len(order) = ClientCap + 1
  BY <1>1, <1>3, <1>4, <1>6
<1>8. c \in Keys(hitOrder) /\ lastSeen[c] \in Nat /\ lastSeen[c] <= clock
  <2>1. 1 \in 1 .. Len(order) - 1
    BY <1>1, <1>7
  <2>2. c \in Keys(hitOrder)
    BY <1>4, <1>6, <2>1
  <2>3. lastSeen[c] # Never
    BY <1>1, <2>2 DEF Keys, SeenInOrder
  <2> QED BY <1>1, <2>2, <2>3 DEF SeenInOrder
<1>9. ASSUME NEW j \in 2 .. ClientCap + 1 PROVE order[j] \in others
  <2>1. j \in 1 .. Len(order) /\ 1 \in 1 .. Len(order) /\ j # 1 /\ j \in Int
    BY <1>1, <1>7
  <2>2. order[j] \in Clients \ {c}
    BY <1>3, <1>5, <1>6, <2>1 DEF Distinct
  <2>3. CASE j = Len(order)
    BY <1>1, <1>2, <1>4, <1>8, <2>2, <2>3
  <2>4. CASE j # Len(order)
    <3>1. j \in 1 .. Len(order) - 1 /\ 1 \in 1 .. Len(order) - 1 /\ 1 < j
      BY <1>1, <1>7, <2>1, <2>4
    <3>2. PICK a \in DOMAIN hitOrder, b \in DOMAIN hitOrder :
              a < b /\ order[1] = hitOrder[a] /\ order[j] = hitOrder[b]
      BY <1>4, <3>1
    <3>3. lastSeen[c] <= lastSeen[order[j]] /\ lastSeen[order[j]] # Never
      BY <1>1, <1>6, <3>2 DEF SeenInOrder
    <3>4. lastSeen'[order[j]] = lastSeen[order[j]]
      BY <1>2, <1>4, <2>2, <3>1
    <3>5. lastSeen[order[j]] \in Nat
      BY <1>1, <2>2, <3>3
    <3> QED BY <1>8, <2>2, <3>3, <3>4, <3>5
  <2> QED BY <2>3, <2>4
<1>10. IsFiniteSet(others)
  <2> DEFINE seen == {x \in Clients : lastSeen'[x] # Never}
  <2>1. IsFiniteSet(seen)
    BY DEF LimiterInv, SeenInOrder
  <2>2. others \subseteq seen
    OBVIOUS
  <2> HIDE DEF seen, others
  <2> QED BY <2>1, <2>2, FS_Subset
<1> HIDE DEF others
<1>11. Cardinality(2 .. ClientCap + 1) <= Cardinality(others)
  <2> DEFINE f == [j \in 2 .. ClientCap + 1 |-> order[j]]
  <2>1. f \in [2 .. ClientCap + 1 -> others]
    BY <1>9
  <2>2. ASSUME NEW i \in 2 .. ClientCap + 1, NEW j \in 2 .. ClientCap + 1, f[i] = f[j]
        PROVE  i = j
    <3>1. order[i] = order[j] /\ i \in DOMAIN order /\ j \in DOMAIN order
      BY <1>1, <1>5, <1>7, <2>2
    <3> QED BY <1>3, <3>1 DEF Distinct
  <2> HIDE DEF f
  <2>3. f \in Injection(2 .. ClientCap + 1, others)
    BY <2>1, <2>2 DEF Injection, IsInjective
  <2> QED BY <1>10, <2>3, FS_Injection
<1>12. Cardinality(2 .. ClientCap + 1) = ClientCap
  <2>1. 2 \in Int /\ ClientCap + 1 \in Int /\ ~(2 > ClientCap + 1)
    BY <1>1
  <2>2. Cardinality(2 .. ClientCap + 1) = (ClientCap + 1) - 2 + 1
    BY <2>1, FS_Interval
  <2> QED BY <1>1, <2>2
<1>13. Cardinality(others) \in Nat
  BY <1>10, FS_CardinalityType
<1>14. Cardinality(others) >= ClientCap
  BY <1>1, <1>11, <1>12, <1>13
<1> QED BY <1>14 DEF others

\* Of all steps, only an admission empties the deque of a client, and not its own.
LEMMA CrowdedStep ==
    ASSUME AdmissionIInv, AdmissionIInv', [AdmissionNext]_admissionVars, NEW c \in Clients,
           hits[c] # <<>>, hits'[c] = <<>>
    PROVE  Cardinality({x \in Clients \ {c} : lastSeen'[x] # Never /\
                                              lastSeen'[x] >= lastSeen[c]}) >= ClientCap
<1>1. AdmissionAssumption /\ clock \in 0 .. Horizon /\ LimiterInv /\ LimiterInv'
  BY AdmissionAssumption, InvParts DEF AdmissionIInv, LimiterInv, AdmissionTypeOK, LimiterTypeOK
<1>2. hits \in [Clients -> Times]
  BY <1>1 DEF LimiterInv, LimiterTypeOK
<1>3. hits' # hits
  OBVIOUS
<1>4. ASSUME NEW d \in Clients, Refuse(d) PROVE FALSE
  <2> DEFINE left == Counted(d)
  <2>1. hits' = [hits EXCEPT ![d] = left] /\ Limited(d)
    BY <1>4 DEF Refuse
  <2>2. left = Counted(d)
    OBVIOUS
  <2> HIDE DEF left
  <2>3. left # <<>>
    BY <1>1, <2>1, <2>2, CountedIs
  <2> QED BY <1>2, <2>1, <2>3
<1>5. ASSUME NEW d \in Clients, Admit(d)
      PROVE  Cardinality({x \in Clients \ {c} : lastSeen'[x] # Never /\
                                                lastSeen'[x] >= lastSeen[c]}) >= ClientCap
  <2> DEFINE left == Counted(d)
             order == ToEnd(hitOrder, d)
             evicted == Overflow(order, ClientCap)
             new == Append(left, clock)
  <2>1. hits' = Stored(hits, d, new, evicted)
    BY <1>5 DEF Admit
  <2>2. new # <<>>
    <3>1. left = Counted(d)
      OBVIOUS
    <3> HIDE DEF left
    <3>2. left \in Times
      BY <1>1, <3>1, CountedIs
    <3> QED BY <1>1, <3>2, AppendProperties DEF Times
  <2>3. order = ToEnd(hitOrder, d)
    OBVIOUS
  <2> HIDE DEF new, order
  <2>4. d # c /\ c \in evicted
    <3> HIDE DEF evicted
    <3> QED BY <1>2, <2>1, <2>2 DEF Stored
  <2> QED BY <1>1, <1>5, <2>3, <2>4, EvictedIsCrowded
<1>6. CASE UNCHANGED hits
  BY <1>3, <1>6
<1>7. CASE UNCHANGED admissionVars \/ Tick
  BY <1>6, <1>7 DEF admissionVars, limiterVars, Tick
<1>8. CASE \E r \in Logins : \/ RefuseAccount(r) \/ PassAccount(r) \/ Abort(r)
                             \/ WrongPassword(r) \/ RightPassword(r)
  BY <1>6, <1>8 DEF limiterVars, RefuseAccount, PassAccount, Abort, WrongPassword, RightPassword
<1>9. ASSUME NEW d \in Clients, Refuse(d) \/ AdmitOther(d)
      PROVE  Cardinality({x \in Clients \ {c} : lastSeen'[x] # Never /\
                                                lastSeen'[x] >= lastSeen[c]}) >= ClientCap
  BY <1>4, <1>5, <1>9 DEF AdmitOther
<1>10. ASSUME NEW r \in Logins, NEW d \in Clients, NEW e \in Emails, AdmitLogin(r, d, e)
       PROVE  Cardinality({x \in Clients \ {c} : lastSeen'[x] # Never /\
                                                 lastSeen'[x] >= lastSeen[c]}) >= ClientCap
  BY <1>5, <1>10 DEF AdmitLogin
<1> QED BY <1>7, <1>8, <1>9, <1>10 DEF AdmissionNext

\* The deques, the orders of their keys and the requests under way keep their types: no
\* dict exceeds its cap, has a key twice or holds an empty deque (auth_service.py:44,
\* middleware.py:117).
THEOREM AdmissionsTypeOK == AdmissionSpec => []AdmissionTypeOK
BY AdmissionInductive, PTL DEF AdmissionIInv

\* The window of the limiter holds wherever it is placed, for any number of clients, any
\* limit, window and cap (middleware.py:64).
THEOREM WindowHoldsAnywhere == AdmissionSpec => []WindowLimit
BY AdmissionInductive, WindowFollows, PTL

\* Retry-After is long enough for a client and for an account (middleware.py:123,
\* auth_service.py:48).
THEOREM RetryAfterIsLongEnough == AdmissionSpec => []RetryAfterSuffices
BY AdmissionInductive, RetryAfterFollows, PTL

\* Requests that pass the lockout together exceed the maximum by one each at most, for
\* any maximum, window and number of requests in flight (auth_service.py:19).
THEOREM FailuresStayLimited == AdmissionSpec => []FailuresLimited
BY AdmissionInductive, FailuresFollow, PTL

\* A client loses its count only when as many others as the cap have asked since its own
\* last request (middleware.py:117 and :128).
THEOREM ForgettingNeedsACrowd == AdmissionSpec => ForgottenOnlyWhenCrowded
<1>1. AdmissionIInv /\ AdmissionIInv' /\ [AdmissionNext]_admissionVars =>
        [\A c \in Clients : hits[c] # <<>> /\ hits'[c] = <<>> =>
            Cardinality({d \in Clients \ {c} :
                            lastSeen'[d] # Never /\ lastSeen'[d] >= lastSeen[c]})
              >= ClientCap]_admissionVars
  BY CrowdedStep
<1> QED BY <1>1, AdmissionInductive, PTL DEF AdmissionSpec, ForgottenOnlyWhenCrowded
=============================================================================
