----------------------- MODULE PushSubscriptionProofs -----------------------
(***************************************************************************)
(* Proofs about PushSubscriptions, for any users, endpoints, requests and  *)
(* bounds.  The inductive invariant says what a copy of a row, a lock, a   *)
(* key pair and a reminder owe to the rows of the moment.                  *)
(***************************************************************************)
EXTENDS PushSubscriptions, FiniteSetTheorems, WellFoundedInduction, TLAPS

Due == job["due"]

\* Whoever has the id x.id now is the row of which x is a copy.
CopyOf(x) == x.id <= ids /\ \A y \in rows : y.id = x.id => y.endpoint = x.endpoint

\* What a request has loaded, and what its DELETE saw, are rows of its endpoint.
RequestsKnowRows ==
    \A r \in Requests :
        LET me == request[r]
        IN  /\ me.row # None => /\ me.row.endpoint = me.endpoint /\ me.row.owner = me.user
                                /\ CopyOf(me.row)
            /\ \A i \in me.targets : i <= ids
            /\ \A y \in rows : y.id \in me.targets => y.endpoint = me.endpoint

\* The rows a job has pruned are of endpoints that are gone.
JobsKnowRows ==
    /\ \A x \in Due.copies : CopyOf(x)
    /\ \A j \in Jobs : \A i \in job[j].dirty \cup job[j].deleted :
          i <= ids /\ \A y \in rows : y.id = i => y.endpoint \in gone

\* A request holds locks from its DELETE to its INSERT, of rows of its endpoint that
\* are there till then.
HeldRows ==
    \A r \in Requests : \A i \in request[r].held :
        /\ request[r].pc = "insert"
        /\ \E x \in rows : x.id = i /\ x.endpoint = request[r].endpoint

\* Two transactions never hold a lock of the same row, if one is a request's.
LocksExclusive ==
    /\ \A r, q \in Requests : r # q => request[r].held \cap request[q].held = {}
    /\ \A r \in Requests, j \in Jobs : request[r].held \cap job[j].deleted = {}

\* The nudge job has no reminders.
NudgeApart == job["nudge"].todo = {} /\ job["nudge"].stamps = {}

\* No copy has keys that the browser has not had yet.
KeysInOrder ==
    /\ \A x \in rows \cup Due.copies : x.keys <= browser[x.endpoint]
    /\ \A u \in Owing : \A x \in served[u] : x.keys <= browser[x.endpoint]
    /\ \A r \in Requests : request[r].keys # None
          => request[r].keys <= browser[request[r].endpoint]

\* A push that could be read has been shown.
Shown(x, u) ==
    x.endpoint \in gone \/ x.keys # browser[x.endpoint] \/ heard[<<x.endpoint, u>>] > 0

StampsHeard == \A u \in Due.stamps : \A x \in Due.copies : x.owner = u => Shown(x, u)

\* The run has each task once, and stamps only what nobody else has stamped.
RoundsInOrder == Due.todo \cup Due.stamps \subseteq pending /\ Due.todo \cap Due.stamps = {}

\* What has been shown and not stamped is accounted for.
HeardAccounted ==
    \A e \in Endpoints, u \in pending \ Due.stamps : heard[<<e, u>>] <= unstamped[u]

\* A user who is not through with the run has heard of the earlier ones only.
RunsCount ==
    /\ \A u \in Due.todo, e \in Endpoints : heard[<<e, u>>] < runs["due"]
    /\ \A u \in Due.todo \cup Due.stamps : unstamped[u] < runs["due"]

\* Of two requests in flight about one endpoint both are contested.
AloneUnlessContested ==
    \A r, q \in Requests : r # q /\ request[r].pc # "idle" /\ request[q].pc # "idle"
                             /\ request[r].endpoint = request[q].endpoint
        => request[r].contested

\* What a request that is alone has seen of its endpoint is still so.
Steady(me, table) ==
    /\ me.pc = "update" => me.row \in table
    /\ me.pc = "clearing" => \A x \in table : x.endpoint = me.endpoint => x.id \in me.targets
    /\ me.pc = "insert" => \A x \in table : x.endpoint = me.endpoint => x.id \in me.held
    /\ me.pc = "refresh" => AsAsked(me, table)

AloneIsSteady ==
    \A r \in Requests : ~request[r].contested /\ request[r].endpoint \notin gone
        => Steady(request[r], rows)

IInv ==
    /\ TypeOK
    /\ RequestsKnowRows /\ JobsKnowRows /\ HeldRows /\ LocksExclusive
    /\ NudgeApart /\ KeysInOrder /\ StampsHeard /\ StampedWasHeard
    /\ RoundsInOrder /\ HeardAccounted /\ RepeatsAccounted /\ RunsCount
    /\ AloneUnlessContested /\ AloneIsSteady


-----------------------------------------------------------------------------
(* Facts about the records and the locks.                                  *)

LEMMA NoRequestRecord ==
    /\ NoRequest \in Request /\ NoRequest.pc = "idle" /\ NoRequest.user = None
    /\ NoRequest.endpoint = None /\ NoRequest.keys = None /\ NoRequest.row = None
    /\ NoRequest.targets = {} /\ NoRequest.held = {} /\ ~NoRequest.contested
BY DEF NoRequest, Request

LEMMA NoJobRecord ==
    /\ NoJob \in Job /\ NoJob.pc = "idle" /\ NoJob.todo = {} /\ NoJob.copies = {}
    /\ NoJob.dirty = {} /\ NoJob.deleted = {} /\ NoJob.stamps = {} /\ NoJob.rounds = 0
BY PushAssumption DEF NoJob, Job

LEMMA RowFields ==
    ASSUME NEW x \in Row
    PROVE  /\ x.id \in Ids /\ x.owner \in Users /\ x.endpoint \in Endpoints /\ x.keys \in Keys
           /\ x.id \in Nat /\ x.keys \in Nat /\ x # None
BY PushAssumption DEF Row, Ids, Keys

LEMMA RequestFields ==
    ASSUME TypeOK, NEW r \in Requests
    PROVE  /\ request[r] \in Request
           /\ request[r].pc \in {"idle", "update", "clear", "clearing", "insert", "refresh",
                                 "remove"}
           /\ request[r].user \in Users \cup {None}
           /\ request[r].endpoint \in Endpoints \cup {None}
           /\ request[r].keys \in Keys \cup {None} /\ request[r].row \in Row \cup {None}
           /\ request[r].targets \subseteq Ids /\ request[r].held \subseteq Ids
           /\ request[r].contested \in BOOLEAN
           /\ request[r].pc = "idle" => request[r] = NoRequest
           /\ request[r].pc # "idle" => request[r].user # None /\ request[r].endpoint # None
           /\ request[r].pc # "idle" => (request[r].keys = None <=> request[r].pc = "remove")
           /\ request[r].pc \in {"update", "remove"} => request[r].row # None
<1>1. request[r] \in Request
  BY DEF TypeOK
<1>2. /\ request[r].pc \in {"idle", "update", "clear", "clearing", "insert", "refresh", "remove"}
      /\ request[r].user \in Users \cup {None}
      /\ request[r].endpoint \in Endpoints \cup {None}
      /\ request[r].keys \in Keys \cup {None} /\ request[r].row \in Row \cup {None}
      /\ request[r].targets \subseteq Ids /\ request[r].held \subseteq Ids
      /\ request[r].contested \in BOOLEAN
  BY <1>1 DEF Request
<1>3. /\ request[r].pc = "idle" => request[r] = NoRequest
      /\ request[r].pc # "idle" => request[r].user # None /\ request[r].endpoint # None
      /\ request[r].pc # "idle" => (request[r].keys = None <=> request[r].pc = "remove")
      /\ request[r].pc \in {"update", "remove"} => request[r].row # None
  BY DEF TypeOK
<1> QED BY <1>1, <1>2, <1>3

LEMMA JobFields ==
    ASSUME TypeOK, NEW j \in Jobs
    PROVE  /\ job[j] \in Job /\ job[j].pc \in {"idle", "running"} /\ job[j].todo \subseteq Owing
           /\ job[j].copies \subseteq Row /\ job[j].dirty \subseteq Ids
           /\ job[j].deleted \subseteq Ids /\ job[j].stamps \subseteq Owing
           /\ job[j].rounds \in 0 .. RoundBound
           /\ job[j].pc = "idle" => job[j] = NoJob
<1>1. job[j] \in Job /\ (job[j].pc = "idle" => job[j] = NoJob)
  BY DEF TypeOK
<1> QED BY <1>1 DEF Job

LEMMA DueIsAJob == "due" \in Jobs /\ "nudge" \in Jobs /\ \A j \in Jobs : j = "due" \/ j = "nudge"
BY DEF Jobs

LEMMA LockedByRequest ==
    ASSUME NEW r \in Requests, NEW i
    PROVE  i \in Locked(r) <=> \/ \E q \in Requests : q # r /\ i \in request[q].held
                               \/ \E j \in Jobs : i \in job[j].deleted
BY PushAssumption DEF Locked

LEMMA LockedByJob ==
    ASSUME NEW j \in Jobs, NEW i
    PROVE  i \in Locked(j) <=> \/ \E q \in Requests : i \in request[q].held
                               \/ \E k \in Jobs : k # j /\ i \in job[k].deleted
BY PushAssumption DEF Locked

\* When its row is the only one of the endpoint, whoever holds a lock in the INSERT
\* wants no other row.
LEMMA HoldersWantNothing ==
    ASSUME IInv, NEW r \in Requests, request[r].held # {}
    PROVE  Wanted(r) = {}
<1>1. PICK i \in request[r].held : TRUE
  OBVIOUS
<1>2. request[r].pc = "insert"
  BY <1>1 DEF IInv, HeldRows
<1>3. PICK x \in rows : x.id = i /\ x.endpoint = request[r].endpoint
  BY <1>1 DEF IInv, HeldRows
<1>4. \A y \in rows : y.endpoint = request[r].endpoint => y = x
  BY <1>3 DEF IInv, TypeOK
<1>5. IdsOf({y \in rows : y.endpoint = request[r].endpoint}) \subseteq request[r].held
  BY <1>1, <1>3, <1>4 DEF IdsOf
<1>6. Wanted(r) = IdsOf({y \in rows : y.endpoint = request[r].endpoint}) \ request[r].held
  BY <1>2 DEF Wanted
<1> QED BY <1>5, <1>6

-----------------------------------------------------------------------------
(* The requests.  A step of a request keeps the invariant if its own       *)
(* record is right about the new rows, and if it changes no rows but those *)
(* of its endpoint that nobody else has locked.                            *)

\* What the table may become by a step of r.
RowsChange(r) ==
    /\ rows' \subseteq Row /\ ids' \in 0 .. RowBound /\ ids <= ids'
    /\ \A y \in rows' : y.id <= ids'
    /\ \A x, y \in rows' : x.id = y.id \/ x.endpoint = y.endpoint => x = y
    /\ \A y \in rows' : y.id > ids \/ \E x \in rows : x.id = y.id /\ x.endpoint = y.endpoint
    /\ \A x \in rows : x.id \in Locked(r) => x \in rows'
    /\ \A x \in rows \cup rows' : x.endpoint # request[r].endpoint => (x \in rows <=> x \in rows')
    /\ \A y \in rows' : y.keys <= browser[y.endpoint]

\* What the new record of a request may be.
RecordRight(new, me) ==
    /\ new.pc \in {"idle", "clearing", "insert", "refresh"}
    /\ new.pc = "idle" => new = NoRequest
    /\ new.pc # "idle" => /\ new.user = me.user /\ new.endpoint = me.endpoint
                          /\ new.keys = me.keys /\ new.keys # None
                          /\ new.contested = me.contested

LEMMA CopiesStay ==
    ASSUME TypeOK, NEW x \in Row, x.id <= ids, \A y \in rows : y.id = x.id => y.endpoint = x.endpoint,
           rows' \subseteq Row, ids' \in Nat, ids <= ids',
           \A y \in rows' : y.id > ids \/ \E z \in rows : z.id = y.id /\ z.endpoint = y.endpoint
    PROVE  x.id <= ids' /\ \A y \in rows' : y.id = x.id => y.endpoint = x.endpoint
<1>1. x.id \in Nat /\ ids \in Nat
  BY RowFields, PushAssumption DEF TypeOK
<1>2. x.id <= ids'
  BY <1>1
<1>3. ASSUME NEW y \in rows', y.id = x.id
      PROVE  y.endpoint = x.endpoint
  <2>1. ~(y.id > ids)
    BY <1>1, <1>3
  <2> QED BY <1>3, <2>1
<1> QED BY <1>2, <1>3

LEMMA RequestStepIInv ==
    ASSUME IInv, NEW r \in Requests, NEW new \in Request, request[r].pc # "idle",
           request' = [request EXCEPT ![r] = new],
           UNCHANGED <<browser, gone, job, pending, sent, runs, crashes, heard, unstamped, served>>,
           RecordRight(new, request[r]), RowsChange(r),
           new.row # None => /\ new.row.endpoint = new.endpoint /\ new.row.owner = new.user
                             /\ new.row.id <= ids'
                             /\ \A y \in rows' : y.id = new.row.id => y.endpoint = new.row.endpoint,
           \A i \in new.targets : i <= ids',
           \A y \in rows' : y.id \in new.targets => y.endpoint = new.endpoint,
           \A i \in new.held : /\ new.pc = "insert"
                               /\ \E x \in rows' : x.id = i /\ x.endpoint = new.endpoint,
           new.held \cap Locked(r) = {},
           ~new.contested /\ new.endpoint \notin gone => Steady(new, rows')
    PROVE  IInv'
<1>1. TypeOK /\ request'[r] = new /\ \A q \in Requests \ {r} : request'[q] = request[q]
  BY DEF IInv, TypeOK
<1>2. /\ rows' \subseteq Row /\ ids' \in 0 .. RowBound /\ ids' \in Nat /\ ids <= ids'
      /\ \A y \in rows' : y.id <= ids'
      /\ \A x, y \in rows' : x.id = y.id \/ x.endpoint = y.endpoint => x = y
      /\ \A y \in rows' : y.id > ids \/ \E x \in rows : x.id = y.id /\ x.endpoint = y.endpoint
      /\ \A x \in rows : x.id \in Locked(r) => x \in rows'
  BY PushAssumption DEF RowsChange
<1>3. /\ \A x \in rows \cup rows' :
            x.endpoint # request[r].endpoint => (x \in rows <=> x \in rows')
      /\ \A y \in rows' : y.keys <= browser[y.endpoint]
  BY DEF RowsChange
<1>4. ids \in Nat /\ rows \subseteq Row
  BY <1>1, PushAssumption DEF TypeOK
<1>5. TypeOK'
  <2>1. request' \in [Requests -> Request]
    BY <1>1 DEF TypeOK
  <2>2. ASSUME NEW q \in Requests
        PROVE  IF request'[q].pc = "idle" THEN request'[q] = NoRequest
               ELSE /\ request'[q].user # None /\ request'[q].endpoint # None
                    /\ request'[q].keys = None <=> request'[q].pc = "remove"
                    /\ request'[q].pc \in {"update", "remove"} => request'[q].row # None
    <3>1. CASE q = r
      <4>1. request[r].user # None /\ request[r].endpoint # None
        BY <1>1, RequestFields
      <4> QED BY <1>1, <3>1, <4>1 DEF RecordRight
    <3>2. CASE q # r
      BY <1>1, <3>2 DEF TypeOK
    <3> QED BY <3>1, <3>2
  <2>3. IdsOf(rows') \subseteq 1 .. ids'
    <3>1. \A y \in rows' : y.id \in Ids /\ y.id <= ids'
      BY <1>2, RowFields
    <3> QED BY <1>2, <3>1 DEF IdsOf, Ids
  <2> QED BY <1>1, <1>2, <2>1, <2>2, <2>3 DEF TypeOK
<1>6. RequestsKnowRows'
  <2>1. ASSUME NEW q \in Requests, request'[q].row # None
        PROVE  /\ request'[q].row.endpoint = request'[q].endpoint
               /\ request'[q].row.owner = request'[q].user
               /\ request'[q].row.id <= ids'
               /\ \A y \in rows' : y.id = request'[q].row.id
                                       => y.endpoint = request'[q].row.endpoint
    <3>1. CASE q = r
      BY <1>1, <2>1, <3>1
    <3>2. CASE q # r
      <4>1. request'[q] = request[q]
        BY <1>1, <3>2
      <4>2. /\ request[q].row.endpoint = request[q].endpoint
            /\ request[q].row.owner = request[q].user
            /\ request[q].row.id <= ids
            /\ \A y \in rows : y.id = request[q].row.id => y.endpoint = request[q].row.endpoint
        BY <2>1, <4>1 DEF IInv, RequestsKnowRows, CopyOf
      <4>3. request[q].row \in Row
        BY <1>1, <2>1, <4>1, RequestFields
      <4> QED BY <1>1, <1>2, <4>1, <4>2, <4>3, CopiesStay
    <3> QED BY <3>1, <3>2
  <2>2. ASSUME NEW q \in Requests
        PROVE  /\ \A i \in request'[q].targets : i <= ids'
               /\ \A y \in rows' : y.id \in request'[q].targets => y.endpoint = request'[q].endpoint
    <3>1. CASE q = r
      BY <1>1, <3>1
    <3>2. CASE q # r
      <4>1. request'[q] = request[q]
        BY <1>1, <3>2
      <4>2. \A i \in request[q].targets : i <= ids /\ i \in Nat
        BY <1>1, RequestFields DEF IInv, RequestsKnowRows, Ids
      <4>3. \A i \in request'[q].targets : i <= ids'
        BY <1>2, <1>4, <4>1, <4>2
      <4>4. ASSUME NEW y \in rows', y.id \in request[q].targets
            PROVE  y.endpoint = request[q].endpoint
        <5>1. ~(y.id > ids)
          BY <1>4, <4>2, <4>4
        <5>2. PICK x \in rows : x.id = y.id /\ x.endpoint = y.endpoint
          BY <1>2, <5>1
        <5> QED BY <4>4, <5>2 DEF IInv, RequestsKnowRows
      <4> QED BY <4>1, <4>3, <4>4
    <3> QED BY <3>1, <3>2
  <2> QED BY <2>1, <2>2 DEF RequestsKnowRows, CopyOf
<1>7. JobsKnowRows'
  <2>1. ASSUME NEW x \in Due.copies
        PROVE  x.id <= ids' /\ \A y \in rows' : y.id = x.id => y.endpoint = x.endpoint
    <3>1. x \in Row
      BY <1>1, <2>1, JobFields, DueIsAJob DEF Due
    <3>2. x.id <= ids /\ \A y \in rows : y.id = x.id => y.endpoint = x.endpoint
      BY <2>1 DEF IInv, JobsKnowRows, CopyOf
    <3> QED BY <1>1, <1>2, <3>1, <3>2, CopiesStay
  <2>2. ASSUME NEW j \in Jobs, NEW i \in job[j].dirty \cup job[j].deleted
        PROVE  i <= ids' /\ \A y \in rows' : y.id = i => y.endpoint \in gone
    <3>1. i \in Nat /\ i <= ids /\ \A y \in rows : y.id = i => y.endpoint \in gone
      BY <1>1, <2>2, JobFields DEF IInv, JobsKnowRows, Ids
    <3>2. i <= ids'
      BY <1>2, <1>4, <3>1
    <3>3. ASSUME NEW y \in rows', y.id = i
          PROVE  y.endpoint \in gone
      <4>1. ~(y.id > ids)
        BY <1>4, <3>1, <3>3
      <4> QED BY <1>2, <3>1, <3>3, <4>1
    <3> QED BY <3>2, <3>3
  <2> QED BY <2>1, <2>2 DEF JobsKnowRows, CopyOf, Due
<1>8. HeldRows'
  <2>1. ASSUME NEW q \in Requests, NEW i \in request'[q].held
        PROVE  /\ request'[q].pc = "insert"
               /\ \E x \in rows' : x.id = i /\ x.endpoint = request'[q].endpoint
    <3>1. CASE q = r
      BY <1>1, <2>1, <3>1
    <3>2. CASE q # r
      <4>1. request'[q] = request[q]
        BY <1>1, <3>2
      <4>2. /\ request[q].pc = "insert"
            /\ \E x \in rows : x.id = i /\ x.endpoint = request[q].endpoint
        BY <2>1, <4>1 DEF IInv, HeldRows
      <4>3. i \in Locked(r)
        BY <2>1, <3>2, <4>1, LockedByRequest
      <4> QED BY <1>2, <4>1, <4>2, <4>3
    <3> QED BY <3>1, <3>2
  <2> QED BY <2>1 DEF HeldRows
<1>9. LocksExclusive'
  <2>1. ASSUME NEW q \in Requests \ {r}
        PROVE  new.held \cap request[q].held = {}
    BY LockedByRequest
  <2>2. ASSUME NEW j \in Jobs
        PROVE  new.held \cap job[j].deleted = {}
    BY LockedByRequest
  <2>3. ASSUME NEW p \in Requests, NEW q \in Requests, p # q
        PROVE  request'[p].held \cap request'[q].held = {}
    <3>1. CASE p = r
      BY <1>1, <2>1, <2>3, <3>1
    <3>2. CASE q = r
      BY <1>1, <2>1, <2>3, <3>2
    <3>3. CASE p # r /\ q # r
      BY <1>1, <2>3, <3>3 DEF IInv, LocksExclusive
    <3> QED BY <3>1, <3>2, <3>3
  <2>4. ASSUME NEW q \in Requests, NEW j \in Jobs
        PROVE  request'[q].held \cap job[j].deleted = {}
    BY <1>1, <2>2 DEF IInv, LocksExclusive
  <2> QED BY <2>3, <2>4 DEF LocksExclusive
<1>10. KeysInOrder'
  <2>1. ASSUME NEW q \in Requests, request'[q].keys # None
        PROVE  request'[q].keys <= browser[request'[q].endpoint]
    <3>1. CASE q # r
      BY <1>1, <2>1, <3>1 DEF IInv, KeysInOrder
    <3>2. CASE q = r
      <4>1. new.pc # "idle"
        BY <1>1, <2>1, <3>2, NoRequestRecord DEF RecordRight
      <4> QED BY <1>1, <2>1, <3>2, <4>1 DEF IInv, KeysInOrder, RecordRight
    <3> QED BY <3>1, <3>2
  <2> QED BY <1>3, <2>1 DEF IInv, KeysInOrder, Due
<1>11. NudgeApart' /\ StampsHeard' /\ StampedWasHeard'
  BY DEF IInv, NudgeApart, StampsHeard, StampedWasHeard, Shown, Due
<1>12. RoundsInOrder' /\ HeardAccounted' /\ RepeatsAccounted' /\ RunsCount'
  BY DEF IInv, RoundsInOrder, HeardAccounted, RepeatsAccounted, RunsCount, Due
<1>13. AloneUnlessContested'
  <2>1. ASSUME NEW p \in Requests, NEW q \in Requests, p # q, request'[p].pc # "idle",
               request'[q].pc # "idle", request'[p].endpoint = request'[q].endpoint
        PROVE  request'[p].contested
    <3>1. CASE p = r
      BY <1>1, <2>1, <3>1 DEF IInv, AloneUnlessContested, RecordRight
    <3>2. CASE q = r
      BY <1>1, <2>1, <3>2 DEF IInv, AloneUnlessContested, RecordRight
    <3>3. CASE p # r /\ q # r
      BY <1>1, <2>1, <3>3 DEF IInv, AloneUnlessContested
    <3> QED BY <3>1, <3>2, <3>3
  <2> QED BY <2>1 DEF AloneUnlessContested
<1>14. AloneIsSteady'
  <2>1. ASSUME NEW q \in Requests, ~request'[q].contested, request'[q].endpoint \notin gone
        PROVE  Steady(request'[q], rows')
    <3>1. CASE q = r
      BY <1>1, <2>1, <3>1
    <3>2. CASE q # r
      <4>1. request'[q] = request[q] /\ Steady(request[q], rows)
        BY <1>1, <2>1, <3>2 DEF IInv, AloneIsSteady
      <4>2. CASE request[q].pc = "idle"
        BY <4>1, <4>2 DEF Steady
      <4>3. CASE request[q].pc # "idle"
        <5>1. request[q].endpoint # request[r].endpoint
          BY <2>1, <3>2, <4>1, <4>3 DEF IInv, AloneUnlessContested
        <5>2. \A x \in rows \cup rows' :
                 x.endpoint = request[q].endpoint => (x \in rows <=> x \in rows')
          BY <1>3, <5>1
        <5>3. request[q].pc = "update" => request[q].row.endpoint = request[q].endpoint
          BY <1>1, RequestFields DEF IInv, RequestsKnowRows
        <5> QED BY <4>1, <5>2, <5>3 DEF Steady, AsAsked
      <4> QED BY <4>2, <4>3
    <3> QED BY <3>1, <3>2
  <2> QED BY <2>1 DEF AloneIsSteady
<1> QED BY <1>5, <1>6, <1>7, <1>8, <1>9, <1>10, <1>11, <1>12, <1>13, <1>14 DEF IInv

LEMMA WantedIs ==
    ASSUME NEW r \in Requests
    PROVE  /\ request[r].pc = "update" =>
                Wanted(r) = IF request[r].row.keys = request[r].keys THEN {}
                            ELSE {request[r].row.id}
           /\ request[r].pc = "clearing" => Wanted(r) = request[r].targets
           /\ request[r].pc = "insert" =>
                Wanted(r) = IdsOf({x \in rows : x.endpoint = request[r].endpoint})
                                \ request[r].held
           /\ request[r].pc = "remove" => Wanted(r) = {request[r].row.id}
           /\ request[r].pc \in {"idle", "clear", "refresh"} => Wanted(r) = {}
BY DEF Wanted

LEMMA SameRows ==
    ASSUME IInv, NEW r \in Requests, rows' = rows, ids' = ids
    PROVE  RowsChange(r)
<1>1. \A y \in rows : y.id \in 1 .. ids /\ y \in Row
  BY DEF IInv, TypeOK, IdsOf
<1>2. ids \in 0 .. RowBound /\ ids \in Nat
  BY PushAssumption DEF IInv, TypeOK
<1> QED BY <1>1, <1>2 DEF IInv, TypeOK, RowsChange, KeysInOrder

\* A request that is over keeps the invariant, if the table does.
LEMMA OverIInv ==
    ASSUME IInv, NEW r \in Requests, request[r].pc # "idle",
           request' = [request EXCEPT ![r] = NoRequest],
           UNCHANGED <<browser, gone, job, pending, sent, runs, crashes, heard, unstamped, served>>,
           RowsChange(r)
    PROVE  IInv'
<1> DEFINE new == NoRequest
<1>1. new \in Request /\ RecordRight(new, request[r])
  BY NoRequestRecord DEF RecordRight
<1>2. new.row = None /\ new.targets = {} /\ new.held = {} /\ new.pc = "idle"
  BY NoRequestRecord
<1>3. Steady(new, rows')
  BY <1>2 DEF Steady
<1>4. request' = [request EXCEPT ![r] = new]
  OBVIOUS
<1> HIDE DEF new
<1> QED BY <1>1, <1>2, <1>3, <1>4, RequestStepIInv

LEMMA RefreshIInv ==
    ASSUME IInv, NEW r \in Requests, Refresh(r)
    PROVE  IInv'
BY SameRows, OverIInv DEF Refresh, Step, RequestUnchanged

LEMMA BeginClearIInv ==
    ASSUME IInv, NEW r \in Requests, BeginClear(r)
    PROVE  IInv'
<1> DEFINE seen == ToClear(r)
           new  == [request[r] EXCEPT !.pc = "clearing", !.targets = seen]
<1>1. TypeOK
  BY DEF IInv
<1>2. /\ request[r].pc = "clear" /\ request' = [request EXCEPT ![r] = new]
      /\ rows' = rows /\ ids' = ids
      /\ UNCHANGED <<browser, gone, job, pending, sent, runs, crashes, heard, unstamped, served>>
  BY DEF BeginClear, Step, RequestUnchanged
<1>3. (\A i \in seen : i <= ids) /\ seen \subseteq Ids
  <2>1. \A x \in rows : x.id <= ids /\ x.id \in Ids
    BY <1>1, RowFields DEF TypeOK, IdsOf
  <2> QED BY <2>1 DEF ToClear, IdsOf
<1>4. \A y \in rows : y.id \in seen <=> y.endpoint = request[r].endpoint
  <2>1. \A x, y \in rows : x.id = y.id => x = y
    BY <1>1 DEF TypeOK
  <2> QED BY <2>1 DEF ToClear, IdsOf
<1>5. request[r] \in Request /\ request[r].held = {} /\ request[r].keys # None
  BY <1>1, <1>2, RequestFields DEF IInv, HeldRows
<1> HIDE DEF seen
<1>6. /\ new \in Request /\ new.pc = "clearing" /\ new.targets = seen
      /\ new.user = request[r].user /\ new.endpoint = request[r].endpoint
      /\ new.keys = request[r].keys /\ new.row = request[r].row
      /\ new.held = {} /\ new.contested = request[r].contested
  BY <1>3, <1>5 DEF Request
<1> HIDE DEF new
<1>7. RecordRight(new, request[r]) /\ RowsChange(r)
  BY <1>2, <1>5, <1>6, SameRows DEF RecordRight
<1>8. new.row # None => /\ new.row.endpoint = new.endpoint /\ new.row.owner = new.user
                        /\ new.row.id <= ids'
                        /\ \A y \in rows' : y.id = new.row.id => y.endpoint = new.row.endpoint
  BY <1>2, <1>6 DEF IInv, RequestsKnowRows, CopyOf
<1>9. \A i \in new.targets : i <= ids'
  BY <1>2, <1>3, <1>6
<1>10. \A y \in rows' : y.id \in new.targets => y.endpoint = new.endpoint
  BY <1>2, <1>4, <1>6
<1>11. Steady(new, rows')
  BY <1>2, <1>4, <1>6 DEF Steady
<1>12. request[r].pc # "idle" /\ new.held \cap Locked(r) = {} /\ \A i \in new.held : FALSE
  BY <1>2, <1>6
<1> QED BY <1>2, <1>6, <1>7, <1>8, <1>9, <1>10, <1>11, <1>12, RequestStepIInv

LEMMA ClearIInv ==
    ASSUME IInv, NEW r \in Requests, Clear(r)
    PROVE  IInv'
<1> DEFINE locked == request[r].targets \cap IdsOf(rows)
           new    == [request[r] EXCEPT !.pc = "insert", !.targets = {}, !.held = locked]
<1>1. TypeOK
  BY DEF IInv
<1>2. /\ request[r].pc = "clearing" /\ request' = [request EXCEPT ![r] = new]
      /\ rows' = rows /\ ids' = ids
      /\ UNCHANGED <<browser, gone, job, pending, sent, runs, crashes, heard, unstamped, served>>
  BY DEF Clear, Step, RequestUnchanged
<1>3. locked \cap Locked(r) = {}
  BY <1>2, WantedIs DEF Clear, Free
<1>4. request[r] \in Request /\ request[r].keys # None /\ locked \subseteq Ids
  BY <1>1, <1>2, RequestFields
<1>5. \A i \in locked : \E x \in rows : x.id = i /\ x.endpoint = request[r].endpoint
  BY DEF IdsOf, IInv, RequestsKnowRows
<1>6. ~request[r].contested /\ request[r].endpoint \notin gone =>
        \A x \in rows : x.endpoint = request[r].endpoint => x.id \in locked
  BY <1>2 DEF IdsOf, IInv, AloneIsSteady, Steady
<1> HIDE DEF locked
<1>7. /\ new \in Request /\ new.pc = "insert" /\ new.targets = {}
      /\ new.user = request[r].user /\ new.endpoint = request[r].endpoint
      /\ new.keys = request[r].keys /\ new.row = request[r].row
      /\ new.held = locked /\ new.contested = request[r].contested
  BY <1>4 DEF Request
<1> HIDE DEF new
<1>8. RecordRight(new, request[r]) /\ RowsChange(r)
  BY <1>2, <1>4, <1>7, SameRows DEF RecordRight
<1>9. new.row # None => /\ new.row.endpoint = new.endpoint /\ new.row.owner = new.user
                        /\ new.row.id <= ids'
                        /\ \A y \in rows' : y.id = new.row.id => y.endpoint = new.row.endpoint
  BY <1>2, <1>7 DEF IInv, RequestsKnowRows, CopyOf
<1>10. /\ \A i \in new.targets : i <= ids'
       /\ \A y \in rows' : y.id \in new.targets => y.endpoint = new.endpoint
  BY <1>7
<1>11. /\ \A i \in new.held : /\ new.pc = "insert"
                              /\ \E x \in rows' : x.id = i /\ x.endpoint = new.endpoint
       /\ new.held \cap Locked(r) = {}
  BY <1>2, <1>3, <1>5, <1>7
<1>12. ~new.contested /\ new.endpoint \notin gone => Steady(new, rows')
  BY <1>2, <1>6, <1>7 DEF Steady
<1>13. request[r].pc # "idle"
  BY <1>2
<1> QED BY <1>2, <1>7, <1>8, <1>9, <1>10, <1>11, <1>12, <1>13, RequestStepIInv

LEMMA RemoveIInv ==
    ASSUME IInv, NEW r \in Requests, Remove(r)
    PROVE  IInv'
<1>1. TypeOK
  BY DEF IInv
<1>2. /\ request[r].pc = "remove" /\ request' = [request EXCEPT ![r] = NoRequest]
      /\ rows' = {x \in rows : x.id # request[r].row.id} /\ ids' = ids
      /\ UNCHANGED <<browser, gone, job, pending, sent, runs, crashes, heard, unstamped, served>>
  BY DEF Remove, Step, RequestUnchanged
<1>3. request[r].row.id \notin Locked(r)
  BY <1>2, WantedIs DEF Remove, Free
<1>4. \A x \in rows : x.id = request[r].row.id => x.endpoint = request[r].endpoint
  BY <1>1, <1>2, RequestFields DEF IInv, RequestsKnowRows, CopyOf
<1>5. RowsChange(r)
  <2>1. \A y \in rows : y.id \in 1 .. ids /\ y \in Row
    BY <1>1 DEF TypeOK, IdsOf
  <2>2. ids \in 0 .. RowBound /\ ids \in Nat
    BY <1>1, PushAssumption DEF TypeOK
  <2>3. \A x, y \in rows : x.id = y.id \/ x.endpoint = y.endpoint => x = y
    BY <1>1 DEF TypeOK
  <2>4. \A x \in rows : x.id \in Locked(r) => x \in rows'
    BY <1>2, <1>3
  <2>5. \A x \in rows \cup rows' : x.endpoint # request[r].endpoint => (x \in rows <=> x \in rows')
    BY <1>2, <1>4
  <2>6. \A y \in rows' : y.keys <= browser[y.endpoint]
    BY <1>2 DEF IInv, KeysInOrder
  <2> QED BY <1>2, <2>1, <2>2, <2>3, <2>4, <2>5, <2>6 DEF RowsChange
<1> QED BY <1>2, <1>5, OverIInv

\* The UPDATE: nothing to write, no row to write to, or one row with new keys.
LEMMA UpdateIInv ==
    ASSUME IInv, NEW r \in Requests, Update(r)
    PROVE  IInv'
<1> DEFINE me   == request[r]
           old  == {x \in rows : x.id \in Wanted(r)}
           done == [me EXCEPT !.pc = "refresh"]
           new  == IF Wanted(r) \subseteq IdsOf(old) THEN done ELSE NoRequest
<1>1. TypeOK
  BY DEF IInv
<1>2. /\ me.pc = "update" /\ request' = [request EXCEPT ![r] = new] /\ ids' = ids
      /\ rows' = (rows \ old) \cup {[x EXCEPT !.keys = me.keys] : x \in old}
      /\ UNCHANGED <<browser, gone, job, pending, sent, runs, crashes, heard, unstamped, served>>
  BY DEF Update, Step, RequestUnchanged
<1>3. /\ me \in Request /\ me.keys \in Keys /\ me.keys # None /\ me.row \in Row /\ me.held = {}
      /\ me.row.endpoint = me.endpoint /\ me.row.owner = me.user /\ me.row.id <= ids
      /\ \A y \in rows : y.id = me.row.id => y.endpoint = me.endpoint
  BY <1>1, <1>2, RequestFields DEF IInv, HeldRows, RequestsKnowRows, CopyOf
<1>4. /\ me.keys <= browser[me.endpoint]
      /\ \A i \in me.targets : i <= ids
      /\ \A y \in rows : y.id \in me.targets => y.endpoint = me.endpoint
      /\ ~me.contested /\ me.endpoint \notin gone => me.row \in rows
  BY <1>2, <1>3 DEF IInv, KeysInOrder, RequestsKnowRows, AloneIsSteady, Steady
<1>5. /\ done \in Request /\ done.pc = "refresh" /\ done.targets = me.targets /\ done.held = {}
      /\ done.user = me.user /\ done.endpoint = me.endpoint /\ done.keys = me.keys
      /\ done.row = me.row /\ done.contested = me.contested
  BY <1>3 DEF Request
<1> HIDE DEF done
<1>6. \A x, y \in rows : x.id = y.id \/ x.endpoint = y.endpoint => x = y
  BY <1>1 DEF TypeOK
\* The record of a request that goes on is right, whatever became of the rows.
<1>7. ASSUME RowsChange(r), request' = [request EXCEPT ![r] = done],
             \A y \in rows' : \E x \in rows : x.id = y.id /\ x.endpoint = y.endpoint,
             ~me.contested /\ me.endpoint \notin gone => AsAsked(me, rows')
      PROVE  IInv'
  <2>1. RecordRight(done, request[r])
    BY <1>3, <1>5 DEF RecordRight
  <2>2. done.row # None => /\ done.row.endpoint = done.endpoint /\ done.row.owner = done.user
                           /\ done.row.id <= ids'
                           /\ \A y \in rows' : y.id = done.row.id => y.endpoint = done.row.endpoint
    BY <1>2, <1>3, <1>5, <1>7
  <2>3. /\ \A i \in done.targets : i <= ids'
        /\ \A y \in rows' : y.id \in done.targets => y.endpoint = done.endpoint
    BY <1>2, <1>4, <1>5, <1>7
  <2>4. /\ \A i \in done.held : /\ done.pc = "insert"
                                /\ \E x \in rows' : x.id = i /\ x.endpoint = done.endpoint
        /\ done.held \cap Locked(r) = {}
    BY <1>5
  <2>5. ~done.contested /\ done.endpoint \notin gone => Steady(done, rows')
    BY <1>5, <1>7 DEF Steady, AsAsked
  <2>6. request[r].pc # "idle"
    BY <1>2
  <2> QED BY <1>2, <1>5, <1>7, <2>1, <2>2, <2>3, <2>4, <2>5, <2>6, RequestStepIInv
<1>8. CASE Wanted(r) = {}
  <2>1. me.row.keys = me.keys
    BY <1>2, <1>8, WantedIs
  <2>2. rows' = rows /\ request' = [request EXCEPT ![r] = done]
    BY <1>2, <1>8
  <2>3. ~me.contested /\ me.endpoint \notin gone => AsAsked(me, rows')
    BY <1>3, <1>4, <2>1, <2>2 DEF AsAsked
  <2> QED BY <1>2, <1>7, <2>2, <2>3, SameRows
<1>9. CASE Wanted(r) # {} /\ old = {}
  <2>1. rows' = rows
    BY <1>2, <1>9
  <2>2. request' = [request EXCEPT ![r] = NoRequest]
    BY <1>2, <1>9 DEF IdsOf
  <2> QED BY <1>2, <2>1, <2>2, SameRows, OverIInv
<1>10. CASE old # {}
  <2>1. PICK x \in old : TRUE
    BY <1>10
  <2> DEFINE z == [x EXCEPT !.keys = me.keys]
  <2>2. Wanted(r) = {me.row.id}
    BY <1>2, <2>1, WantedIs
  <2>3. old = {x} /\ x.id = me.row.id /\ x \in rows /\ x \in Row /\ x.endpoint = me.endpoint
    BY <1>1, <1>3, <1>6, <2>1, <2>2 DEF TypeOK
  <2>4. request' = [request EXCEPT ![r] = done]
    BY <1>2, <2>2, <2>3 DEF IdsOf
  <2>5. rows' = (rows \ {x}) \cup {z}
    BY <1>2, <2>3
  <2>6. /\ z \in Row /\ z.id = x.id /\ z.endpoint = x.endpoint /\ z.owner = x.owner
        /\ z.keys = me.keys
    BY <1>3, <2>3 DEF Row
  <2> HIDE DEF z
  <2>7. RowsChange(r)
    <3>1. \A y \in rows : y.id <= ids /\ y \in Row
      BY <1>1 DEF TypeOK, IdsOf
    <3>2. ids' \in 0 .. RowBound /\ ids <= ids' /\ \A y \in rows' : y.id <= ids'
      BY <1>1, <1>2, <2>3, <2>5, <2>6, <3>1, PushAssumption DEF TypeOK
    <3>3. \A p, q \in rows' : p.id = q.id \/ p.endpoint = q.endpoint => p = q
      BY <1>6, <2>3, <2>5, <2>6
    <3>4. \A p \in rows : p.id \in Locked(r) => p \in rows'
      BY <2>2, <2>3, <2>5 DEF Update, Free
    <3>5. \A p \in rows \cup rows' : p.endpoint # request[r].endpoint => (p \in rows <=> p \in rows')
      BY <2>3, <2>5, <2>6
    <3>6. \A y \in rows' : y.keys <= browser[y.endpoint]
      BY <1>4, <2>3, <2>5, <2>6 DEF IInv, KeysInOrder
    <3>7. rows' \subseteq Row
      BY <2>5, <2>6, <3>1
    <3>8. \A y \in rows' : y.id > ids \/ \E p \in rows : p.id = y.id /\ p.endpoint = y.endpoint
      BY <2>3, <2>5, <2>6
    <3> QED BY <3>2, <3>3, <3>4, <3>5, <3>6, <3>7, <3>8 DEF RowsChange
  <2>8. \A y \in rows' : \E p \in rows : p.id = y.id /\ p.endpoint = y.endpoint
    BY <2>3, <2>5, <2>6
  <2>9. ~me.contested /\ me.endpoint \notin gone => AsAsked(me, rows')
    <3>1. me.row \in rows => x = me.row
      BY <1>6, <2>3
    <3> QED BY <1>3, <1>4, <2>3, <2>5, <2>6, <3>1 DEF AsAsked
  <2> QED BY <1>7, <2>4, <2>7, <2>8, <2>9
<1> QED BY <1>8, <1>9, <1>10

\* The INSERT: refused, or a row with a new id in the place of those deleted.
LEMMA InsertIInv ==
    ASSUME IInv, NEW r \in Requests, Insert(r)
    PROVE  IInv'
<1> DEFINE me == request[r]
           x  == [id |-> ids + 1, owner |-> me.user, endpoint |-> me.endpoint, keys |-> me.keys]
           new == [me EXCEPT !.pc = "refresh", !.held = {}, !.row = x]
<1>1. TypeOK
  BY DEF IInv
<1>2. /\ me.pc = "insert" /\ Wanted(r) \cap Locked(r) = {} /\ ids < RowBound
      /\ UNCHANGED <<browser, gone, job, pending, sent, runs, crashes, heard, unstamped, served>>
  BY DEF Insert, Step, RequestUnchanged, Free
<1>3. CASE Refused(r)
  <2>1. request' = [request EXCEPT ![r] = NoRequest] /\ rows' = rows /\ ids' = ids
    BY <1>3 DEF Insert, Step
  <2> QED BY <1>2, <2>1, SameRows, OverIInv
<1>4. CASE ~Refused(r)
  <2>1. /\ request' = [request EXCEPT ![r] = new] /\ ids' = ids + 1
        /\ rows' = {y \in rows : y.id \notin me.held} \cup {x}
    BY <1>4 DEF Insert, Step
  <2>2. /\ me \in Request /\ me.user \in Users /\ me.endpoint \in Endpoints
        /\ me.keys \in Keys /\ me.keys # None
    BY <1>1, <1>2, RequestFields
  <2>3. ids \in Nat /\ ids + 1 \in Ids
    BY <1>1, <1>2, PushAssumption DEF TypeOK, Ids
  <2>4. /\ x \in Row /\ x.id = ids + 1 /\ x.owner = me.user /\ x.endpoint = me.endpoint
        /\ x.keys = me.keys
    BY <2>2, <2>3 DEF Row
  <2> HIDE DEF x
  <2>5. /\ new \in Request /\ new.pc = "refresh" /\ new.held = {} /\ new.row = x
        /\ new.targets = me.targets /\ new.user = me.user /\ new.endpoint = me.endpoint
        /\ new.keys = me.keys /\ new.contested = me.contested
    BY <2>2, <2>4 DEF Request
  <2> HIDE DEF new
  <2>6. \A y \in rows : y.endpoint = me.endpoint => y.id \in me.held
    BY <1>2, <1>4, WantedIs DEF Refused, IdsOf
  <2>7. \A y \in rows : y.id \in me.held => y.endpoint = me.endpoint
    <3>1. ASSUME NEW y \in rows, y.id \in me.held
          PROVE  y.endpoint = me.endpoint
      <4>1. PICK w \in rows : w.id = y.id /\ w.endpoint = me.endpoint
        BY <3>1 DEF IInv, HeldRows
      <4> QED BY <1>1, <4>1 DEF TypeOK
    <3> QED BY <3>1
  <2>8. \A y \in rows : y \in Row /\ y.id \in Nat /\ y.id <= ids
    BY <1>1, RowFields DEF TypeOK, IdsOf
  <2>9. RowsChange(r)
    <3>1. ids' \in 0 .. RowBound /\ ids <= ids' /\ \A y \in rows' : y.id <= ids'
      BY <1>2, <2>1, <2>3, <2>4, <2>8, PushAssumption
    <3>2. \A y \in rows' : y = x \/ (y \in rows /\ y.endpoint # me.endpoint)
      BY <2>1, <2>6
    <3>3. \A p, q \in rows' : p.id = q.id \/ p.endpoint = q.endpoint => p = q
      <4>1. ASSUME NEW p \in rows', NEW q \in rows', p.id = q.id \/ p.endpoint = q.endpoint
            PROVE  p = q
        <5>1. CASE p = x /\ q # x
          BY <2>3, <2>4, <2>8, <3>2, <4>1, <5>1
        <5>2. CASE p # x /\ q = x
          BY <2>3, <2>4, <2>8, <3>2, <4>1, <5>2
        <5>3. CASE p # x /\ q # x
          <6>1. p \in rows /\ q \in rows
            BY <3>2, <5>3
          <6> QED BY <1>1, <4>1, <6>1 DEF TypeOK
        <5> QED BY <5>1, <5>2, <5>3
      <4> QED BY <4>1
    <3>4. \A y \in rows : y.id \in Locked(r) => y \in rows'
      <4>1. me.held \cap Locked(r) = {}
        BY LockedByRequest DEF IInv, LocksExclusive
      <4> QED BY <2>1, <4>1
    <3>5. \A y \in rows \cup rows' : y.endpoint # request[r].endpoint => (y \in rows <=> y \in rows')
      BY <2>1, <2>4, <2>7
    <3>6. \A y \in rows' : y.keys <= browser[y.endpoint]
      BY <2>1, <2>2, <2>4 DEF IInv, KeysInOrder
    <3>7. rows' \subseteq Row
      BY <2>1, <2>4, <2>8
    <3>8. \A y \in rows' : y.id > ids \/ \E p \in rows : p.id = y.id /\ p.endpoint = y.endpoint
      BY <2>1, <2>3, <2>4
    <3> QED BY <3>1, <3>3, <3>4, <3>5, <3>6, <3>7, <3>8 DEF RowsChange
  <2>10. RecordRight(new, request[r])
    BY <2>2, <2>5 DEF RecordRight
  <2>11. /\ new.row.endpoint = new.endpoint /\ new.row.owner = new.user /\ new.row.id <= ids'
         /\ \A y \in rows' : y.id = new.row.id => y.endpoint = new.row.endpoint
    <3>1. \A y \in rows' : y.id = x.id => y = x
      BY <2>1, <2>3, <2>4, <2>8
    <3> QED BY <2>1, <2>3, <2>4, <2>5, <3>1
  <2>12. /\ \A i \in new.targets : i <= ids'
         /\ \A y \in rows' : y.id \in new.targets => y.endpoint = new.endpoint
    <3>1. \A i \in me.targets : i \in Nat /\ i <= ids
      BY <1>1, RequestFields DEF IInv, RequestsKnowRows, Ids
    <3>2. \A i \in new.targets : i <= ids'
      BY <2>1, <2>3, <2>5, <3>1
    <3>3. \A y \in rows : y.id \in me.targets => y.endpoint = me.endpoint
      BY DEF IInv, RequestsKnowRows
    <3>4. \A y \in rows' : y.id \in me.targets => y.endpoint = me.endpoint
      BY <2>1, <2>4, <3>3
    <3> QED BY <2>5, <3>2, <3>4
  <2>13. /\ \A i \in new.held : /\ new.pc = "insert"
                                /\ \E y \in rows' : y.id = i /\ y.endpoint = new.endpoint
         /\ new.held \cap Locked(r) = {}
    BY <2>5
  <2>14. Steady(new, rows')
    BY <2>1, <2>4, <2>5 DEF Steady, AsAsked
  <2>15. request[r].pc # "idle"
    BY <1>2
  <2> QED BY <1>2, <2>1, <2>5, <2>9, <2>10, <2>11, <2>12, <2>13, <2>14, <2>15, RequestStepIInv
<1> QED BY <1>3, <1>4

\* A request that begins, and those about the same endpoint that it finds in flight.
LEMMA SendEffect ==
    ASSUME TypeOK, NEW r \in Requests, NEW new \in Request, new.endpoint # None, Send(r, new)
    PROVE  /\ request[r] = NoRequest /\ rows' = rows /\ ids' = ids /\ sent' \in 0 .. SendBound
           /\ UNCHANGED <<gone, job, pending, runs, crashes, heard, unstamped, served>>
           /\ request' \in [Requests -> Request]
           /\ \A q \in Requests :
                 LET old == IF q = r THEN new ELSE request[q]
                 IN  /\ request'[q].pc = old.pc /\ request'[q].user = old.user
                     /\ request'[q].endpoint = old.endpoint /\ request'[q].keys = old.keys
                     /\ request'[q].row = old.row /\ request'[q].targets = old.targets
                     /\ request'[q].held = old.held
           /\ \A q \in Requests \ {r} :
                 IF request[q].endpoint = new.endpoint
                 THEN request'[q].contested /\ request'[r].contested
                 ELSE request'[q] = request[q]
<1> DEFINE shared    == \E q \in Requests : request[q].endpoint = new.endpoint
           marked(q) == [request[q] EXCEPT !.contested = TRUE]
           begun     == [new EXCEPT !.contested = shared]
<1>1. /\ request[r] = NoRequest /\ rows' = rows /\ ids' = ids
      /\ UNCHANGED <<gone, job, pending, runs, crashes, heard, unstamped, served>>
      /\ sent < SendBound /\ sent' = sent + 1
  BY DEF Send, RequestUnchanged
<1>2. request' = [[q \in Requests |-> IF request[q].endpoint = new.endpoint
                                      THEN marked(q) ELSE request[q]] EXCEPT ![r] = begun]
  BY DEF Send, Contest
<1>3. sent' \in 0 .. SendBound
  BY <1>1, PushAssumption DEF TypeOK
<1>4. shared \in BOOLEAN
  OBVIOUS
<1> HIDE DEF shared
<1>5. /\ begun \in Request /\ begun.pc = new.pc /\ begun.user = new.user
      /\ begun.endpoint = new.endpoint /\ begun.keys = new.keys /\ begun.row = new.row
      /\ begun.targets = new.targets /\ begun.held = new.held /\ begun.contested = shared
  BY <1>4 DEF Request
<1>6. ASSUME NEW q \in Requests
      PROVE  /\ marked(q) \in Request /\ marked(q).pc = request[q].pc
             /\ marked(q).user = request[q].user /\ marked(q).endpoint = request[q].endpoint
             /\ marked(q).keys = request[q].keys /\ marked(q).row = request[q].row
             /\ marked(q).targets = request[q].targets /\ marked(q).held = request[q].held
             /\ marked(q).contested
  <2>1. request[q] \in Request
    BY RequestFields
  <2> QED BY <2>1 DEF Request
<1> HIDE DEF begun, marked
<1>7. request'[r] = begun
  BY <1>2
<1>8. \A q \in Requests \ {r} :
         request'[q] = IF request[q].endpoint = new.endpoint THEN marked(q) ELSE request[q]
  BY <1>2
<1>9. request' \in [Requests -> Request]
  <2>1. request' = [q \in Requests |-> request'[q]]
    BY <1>2
  <2>2. \A q \in Requests : request'[q] \in Request
    BY <1>5, <1>6, <1>7, <1>8, RequestFields
  <2> QED BY <2>1, <2>2
<1>10. \A q \in Requests : request[q].endpoint = new.endpoint => begun.contested
  BY <1>5 DEF shared
<1>11. ASSUME NEW q \in Requests
       PROVE  LET old == IF q = r THEN new ELSE request[q]
              IN  /\ request'[q].pc = old.pc /\ request'[q].user = old.user
                  /\ request'[q].endpoint = old.endpoint /\ request'[q].keys = old.keys
                  /\ request'[q].row = old.row /\ request'[q].targets = old.targets
                  /\ request'[q].held = old.held
  BY <1>5, <1>6, <1>7, <1>8
<1>12. ASSUME NEW q \in Requests \ {r}
       PROVE  IF request[q].endpoint = new.endpoint
              THEN request'[q].contested /\ request'[r].contested
              ELSE request'[q] = request[q]
  BY <1>6, <1>7, <1>8, <1>10
<1> QED BY <1>1, <1>3, <1>9, <1>11, <1>12

LEMMA SendIInv ==
    ASSUME IInv, NEW r \in Requests, NEW new \in Request, Send(r, new),
           new.pc \in {"update", "clear", "remove"}, new.user # None, new.endpoint # None,
           new.keys = None <=> new.pc = "remove", new.targets = {}, new.held = {},
           new.row = None <=> new.pc = "clear",
           new.row # None => /\ new.row \in rows /\ new.row.owner = new.user
                             /\ new.row.endpoint = new.endpoint,
           browser' \in [Endpoints -> Keys], \A e \in Endpoints : browser[e] <= browser'[e],
           new.keys # None => new.keys <= browser'[new.endpoint]
    PROVE  IInv'
<1>1. TypeOK
  BY DEF IInv
<1>2. /\ request[r] = NoRequest /\ rows' = rows /\ ids' = ids /\ sent' \in 0 .. SendBound
      /\ UNCHANGED <<gone, job, pending, runs, crashes, heard, unstamped, served>>
      /\ request' \in [Requests -> Request]
  BY <1>1, SendEffect
<1>3. \A q \in Requests :
         LET old == IF q = r THEN new ELSE request[q]
         IN  /\ request'[q].pc = old.pc /\ request'[q].user = old.user
             /\ request'[q].endpoint = old.endpoint /\ request'[q].keys = old.keys
             /\ request'[q].row = old.row /\ request'[q].targets = old.targets
             /\ request'[q].held = old.held
  BY <1>1, SendEffect
<1>4. \A q \in Requests \ {r} :
         IF request[q].endpoint = new.endpoint
         THEN request'[q].contested /\ request'[r].contested
         ELSE request'[q] = request[q]
  BY <1>1, SendEffect
<1>5. \A q \in Requests : request[q].pc = "idle" => request[q] = NoRequest
  BY <1>1, RequestFields
<1>6. ASSUME NEW x \in Row
      PROVE  /\ browser[x.endpoint] \in Nat /\ browser'[x.endpoint] \in Nat /\ x.keys \in Nat
             /\ browser[x.endpoint] <= browser'[x.endpoint]
  BY <1>1, RowFields, PushAssumption DEF TypeOK, Keys
<1>7. TypeOK'
  <2>1. ASSUME NEW q \in Requests
        PROVE  IF request'[q].pc = "idle" THEN request'[q] = NoRequest
               ELSE /\ request'[q].user # None /\ request'[q].endpoint # None
                    /\ request'[q].keys = None <=> request'[q].pc = "remove"
                    /\ request'[q].pc \in {"update", "remove"} => request'[q].row # None
    <3>1. CASE q = r
      BY <1>3, <3>1
    <3>2. CASE q # r /\ request[q].pc = "idle"
      BY <1>3, <1>4, <1>5, <3>2, NoRequestRecord
    <3>3. CASE q # r /\ request[q].pc # "idle"
      BY <1>1, <1>3, <3>3, RequestFields
    <3> QED BY <3>1, <3>2, <3>3
  <2> QED BY <1>1, <1>2, <2>1 DEF TypeOK
<1>8. RequestsKnowRows'
  <2>2. ASSUME NEW q \in Requests, request'[q].row # None
        PROVE  /\ request'[q].row.endpoint = request'[q].endpoint
               /\ request'[q].row.owner = request'[q].user /\ request'[q].row.id <= ids
               /\ \A y \in rows : y.id = request'[q].row.id => y.endpoint = request'[q].row.endpoint
    <3>1. CASE q = r
      <4>1. request'[q].row = new.row /\ new.row \in rows
        BY <1>3, <2>2, <3>1
      <4>2. new.row.id <= ids /\ \A y \in rows : y.id = new.row.id => y = new.row
        BY <1>1, <4>1 DEF TypeOK, IdsOf
      <4> QED BY <1>3, <2>2, <3>1, <4>1, <4>2
    <3>2. CASE q # r
      BY <1>3, <2>2, <3>2 DEF IInv, RequestsKnowRows, CopyOf
    <3> QED BY <3>1, <3>2
  <2>3. ASSUME NEW q \in Requests
        PROVE  /\ \A i \in request'[q].targets : i <= ids
               /\ \A y \in rows : y.id \in request'[q].targets => y.endpoint = request'[q].endpoint
    BY <1>3 DEF IInv, RequestsKnowRows
  <2> QED BY <1>2, <2>2, <2>3 DEF RequestsKnowRows, CopyOf
<1>9. JobsKnowRows'
  BY <1>2 DEF IInv, JobsKnowRows, CopyOf, Due
<1>10. HeldRows' /\ LocksExclusive'
  BY <1>2, <1>3 DEF IInv, HeldRows, LocksExclusive
<1>11. KeysInOrder'
  <2>1. \A x \in rows \cup Due.copies : x \in Row
    BY <1>1, JobFields, DueIsAJob DEF TypeOK, Due
  <2>2. \A u \in Owing : \A x \in served[u] : x \in Row
    BY <1>1 DEF TypeOK
  <2>3. ASSUME NEW x \in rows \cup Due.copies
        PROVE  x.keys <= browser'[x.endpoint]
    BY <1>6, <2>1 DEF IInv, KeysInOrder
  <2>4. ASSUME NEW u \in Owing, NEW x \in served[u]
        PROVE  x.keys <= browser'[x.endpoint]
    BY <1>6, <2>2 DEF IInv, KeysInOrder
  <2>5. ASSUME NEW q \in Requests, request'[q].keys # None
        PROVE  request'[q].keys <= browser'[request'[q].endpoint]
    <3>1. CASE q = r
      BY <1>3, <2>5, <3>1
    <3>2. CASE q # r
      <4>1. request[q].keys # None /\ request[q].keys <= browser[request[q].endpoint]
        BY <1>3, <2>5, <3>2 DEF IInv, KeysInOrder
      <4>2. request[q].pc # "idle"
        BY <1>5, <4>1, NoRequestRecord
      <4>3. request[q].keys \in Nat /\ request[q].endpoint \in Endpoints
        BY <1>1, <4>1, <4>2, RequestFields DEF Keys
      <4>4. browser[request[q].endpoint] \in Nat /\ browser'[request[q].endpoint] \in Nat
        BY <1>1, <4>3 DEF TypeOK, Keys
      <4> QED BY <1>3, <3>2, <4>1, <4>3, <4>4
    <3> QED BY <3>1, <3>2
  <2> QED BY <1>2, <2>3, <2>4, <2>5 DEF KeysInOrder, Due
\* The keys of a row that was shown or out of date stay so.
<1>12. StampsHeard' /\ StampedWasHeard'
  <2>1. ASSUME NEW x \in Row, NEW u \in Owing, Shown(x, u), x.keys <= browser[x.endpoint]
        PROVE  Shown(x, u)'
    <3>1. CASE x.keys # browser[x.endpoint]
      <4>1. x.keys < browser[x.endpoint]
        BY <1>6, <2>1, <3>1
      <4>2. x.keys # browser'[x.endpoint]
        BY <1>6, <4>1
      <4> QED BY <4>2 DEF Shown
    <3>2. CASE x.endpoint \in gone \/ heard[<<x.endpoint, u>>] > 0
      BY <1>2, <3>2 DEF Shown
    <3> QED BY <2>1, <3>1, <3>2 DEF Shown
  <2>2. ASSUME NEW u \in Due.stamps, NEW x \in Due.copies, x.owner = u
        PROVE  Shown(x, u)'
    <3>1. x \in Row /\ u \in Owing
      BY <1>1, JobFields, DueIsAJob DEF Due
    <3> QED BY <2>1, <2>2, <3>1 DEF IInv, StampsHeard, KeysInOrder
  <2>3. ASSUME NEW u \in Owing, NEW x \in served[u]
        PROVE  Shown(x, u)'
    <3>1. x \in Row
      BY <1>1 DEF TypeOK
    <3> QED BY <2>1, <2>3, <3>1 DEF IInv, StampedWasHeard, KeysInOrder, Shown
  <2> QED BY <1>2, <2>2, <2>3 DEF StampsHeard, StampedWasHeard, Shown, Due
<1>13. NudgeApart' /\ RoundsInOrder' /\ HeardAccounted' /\ RepeatsAccounted' /\ RunsCount'
  BY <1>2 DEF IInv, NudgeApart, RoundsInOrder, HeardAccounted, RepeatsAccounted, RunsCount, Due
<1>14. AloneUnlessContested'
  <2>1. ASSUME NEW p \in Requests, NEW q \in Requests, p # q, request'[p].pc # "idle",
               request'[q].pc # "idle", request'[p].endpoint = request'[q].endpoint
        PROVE  request'[p].contested
    <3>1. CASE p = r \/ q = r
      BY <1>3, <1>4, <2>1, <3>1
    <3>2. CASE p # r /\ q # r
      <4>1. request[p].contested
        BY <1>3, <2>1, <3>2 DEF IInv, AloneUnlessContested
      <4> QED BY <1>4, <3>2, <4>1
    <3> QED BY <3>1, <3>2
  <2> QED BY <2>1 DEF AloneUnlessContested
<1>15. AloneIsSteady'
  <2>1. ASSUME NEW q \in Requests, ~request'[q].contested, request'[q].endpoint \notin gone
        PROVE  Steady(request'[q], rows)
    <3>1. CASE q = r
      BY <1>3, <3>1 DEF Steady
    <3>2. CASE q # r
      BY <1>4, <2>1, <3>2 DEF IInv, AloneIsSteady
    <3> QED BY <3>1, <3>2
  <2> QED BY <1>2, <2>1 DEF AloneIsSteady
<1> QED BY <1>7, <1>8, <1>9, <1>10, <1>11, <1>12, <1>13, <1>14, <1>15 DEF IInv

LEMMA SendPostIInv ==
    ASSUME IInv, NEW r \in Requests, NEW u \in Users, NEW e \in Endpoints, NEW keys \in Keys,
           SendPost(r, u, e, keys)
    PROVE  IInv'
<1> DEFINE new    == [NoRequest EXCEPT !.user = u, !.endpoint = e, !.keys = keys]
           first  == [new EXCEPT !.pc = "clear"]
           again(x) == [new EXCEPT !.pc = "update", !.row = x]
<1>1. TypeOK
  BY DEF IInv
<1>2. /\ keys \in {browser[e], browser[e] + 1} /\ browser' = [browser EXCEPT ![e] = keys]
      /\ IF Owned(u, e) = {} THEN Send(r, first) ELSE \E x \in Owned(u, e) : Send(r, again(x))
  BY DEF SendPost
<1>3. /\ new \in Request /\ new.user = u /\ new.endpoint = e /\ new.keys = keys /\ new.row = None
      /\ new.targets = {} /\ new.held = {}
  BY NoRequestRecord DEF Request
<1> HIDE DEF new
<1>4. u # None /\ e # None /\ keys # None
  BY PushAssumption DEF Keys
<1>5. /\ browser' \in [Endpoints -> Keys] /\ browser'[e] = keys
      /\ \A d \in Endpoints : browser[d] <= browser'[d]
  <2>1. browser \in [Endpoints -> Keys] /\ \A d \in Endpoints : browser[d] \in Nat
    BY <1>1, PushAssumption DEF TypeOK, Keys
  <2>2. browser' \in [Endpoints -> Keys] /\ browser'[e] = keys
    BY <1>2, <2>1
  <2>3. browser[e] <= keys
    <3>1. browser[e] \in Nat /\ keys \in {browser[e], browser[e] + 1}
      BY <1>2, <2>1
    <3> QED BY <3>1
  <2>4. \A d \in Endpoints \ {e} : browser'[d] = browser[d]
    BY <1>2, <2>1
  <2>5. \A d \in Endpoints : browser[d] <= browser[d]
    BY <2>1
  <2> QED BY <2>2, <2>3, <2>4, <2>5
<1>6. keys <= browser'[e]
  BY <1>5, PushAssumption DEF Keys
<1>7. CASE Owned(u, e) = {}
  <2>1. /\ first \in Request /\ first.pc = "clear" /\ first.user = u /\ first.endpoint = e
        /\ first.keys = keys /\ first.row = None /\ first.targets = {} /\ first.held = {}
    BY <1>3 DEF Request
  <2>2. Send(r, first)
    BY <1>2, <1>7
  <2> HIDE DEF first
  <2> QED BY <1>4, <1>5, <1>6, <2>1, <2>2, SendIInv
<1>8. CASE Owned(u, e) # {}
  <2>1. PICK x \in Owned(u, e) : Send(r, again(x))
    BY <1>2, <1>8
  <2>2. x \in rows /\ x \in Row /\ x # None /\ x.owner = u /\ x.endpoint = e
    BY <1>1, RowFields DEF Owned, TypeOK
  <2> DEFINE more == again(x)
  <2>3. /\ more \in Request /\ more.pc = "update" /\ more.user = u /\ more.endpoint = e
        /\ more.keys = keys /\ more.row = x /\ more.targets = {} /\ more.held = {}
    BY <1>3, <2>2 DEF Request
  <2>4. Send(r, more)
    BY <2>1
  <2> HIDE DEF more
  <2> QED BY <1>4, <1>5, <1>6, <2>2, <2>3, <2>4, SendIInv
<1> QED BY <1>7, <1>8

LEMMA SendDeleteIInv ==
    ASSUME IInv, NEW r \in Requests, NEW x \in rows, SendDelete(r, x)
    PROVE  IInv'
<1> DEFINE new == [NoRequest EXCEPT !.pc = "remove", !.user = x.owner,
                                    !.endpoint = x.endpoint, !.row = x]
<1>1. TypeOK
  BY DEF IInv
<1>2. Send(r, new) /\ browser' = browser
  BY DEF SendDelete
<1>3. x \in Row /\ x # None /\ x.owner \in Users /\ x.endpoint \in Endpoints
  BY <1>1, RowFields DEF TypeOK
<1>4. /\ new \in Request /\ new.pc = "remove" /\ new.user = x.owner /\ new.endpoint = x.endpoint
      /\ new.keys = None /\ new.row = x /\ new.targets = {} /\ new.held = {}
  BY <1>3, NoRequestRecord DEF Request
<1> HIDE DEF new
<1>5. x.owner # None /\ x.endpoint # None
  BY <1>3, PushAssumption
<1>6. browser' \in [Endpoints -> Keys] /\ \A e \in Endpoints : browser[e] <= browser'[e]
  <2>1. \A e \in Endpoints : browser[e] \in Nat
    BY <1>1 DEF TypeOK, Keys
  <2> QED BY <1>1, <1>2, <2>1 DEF TypeOK
<1> QED BY <1>2, <1>3, <1>4, <1>5, <1>6, SendIInv

LEMMA GiveUpIInv ==
    ASSUME IInv, NEW e \in Endpoints, GiveUp(e)
    PROVE  IInv'
<1>1. /\ gone' = gone \cup {e}
      /\ UNCHANGED <<rows, browser, request, job, pending, ids, sent, runs, crashes, heard,
                     unstamped, served>>
  BY DEF GiveUp
<1>2. TypeOK'
  BY <1>1 DEF IInv, TypeOK
<1>3. RequestsKnowRows' /\ JobsKnowRows' /\ HeldRows' /\ LocksExclusive'
  BY <1>1 DEF IInv, RequestsKnowRows, JobsKnowRows, HeldRows, LocksExclusive, CopyOf, Due
<1>4. NudgeApart' /\ KeysInOrder' /\ StampsHeard' /\ StampedWasHeard'
  BY <1>1 DEF IInv, NudgeApart, KeysInOrder, StampsHeard, StampedWasHeard, Shown, Due
<1>5. RoundsInOrder' /\ HeardAccounted' /\ RepeatsAccounted' /\ RunsCount'
  BY <1>1 DEF IInv, RoundsInOrder, HeardAccounted, RepeatsAccounted, RunsCount, Due
<1>6. AloneUnlessContested' /\ AloneIsSteady'
  BY <1>1 DEF IInv, AloneUnlessContested, AloneIsSteady, Steady, AsAsked
<1> QED BY <1>2, <1>3, <1>4, <1>5, <1>6 DEF IInv

-----------------------------------------------------------------------------
(* The jobs.                                                               *)

\* What a step of a job leaves to the requests: rows of endpoints that are not gone,
\* and those that requests have locked.
LEMMA JobStepForRequests ==
    ASSUME IInv, UNCHANGED <<request, browser, gone, ids>>, rows' \subseteq rows,
           \A x \in rows \ rows' : /\ x.endpoint \in gone
                                   /\ \A r \in Requests : x.id \notin request[r].held,
           \A r \in Requests, j \in Jobs : request[r].held \cap job'[j].deleted = {}
    PROVE  RequestsKnowRows' /\ HeldRows' /\ LocksExclusive' /\ AloneUnlessContested'
           /\ AloneIsSteady'
<1>1. RequestsKnowRows'
  BY DEF IInv, RequestsKnowRows, CopyOf
<1>2. HeldRows'
  BY DEF IInv, HeldRows
<1>3. LocksExclusive' /\ AloneUnlessContested'
  BY DEF IInv, LocksExclusive, AloneUnlessContested
<1>4. AloneIsSteady'
  <2>1. ASSUME NEW r \in Requests, ~request[r].contested, request[r].endpoint \notin gone
        PROVE  Steady(request[r], rows')
    <3>1. Steady(request[r], rows)
      BY <2>1 DEF IInv, AloneIsSteady
    <3>2. \A x \in rows : x.endpoint = request[r].endpoint => x \in rows'
      BY <2>1
    <3>3. request[r].pc = "update" => request[r].row.endpoint = request[r].endpoint
      BY RequestFields DEF IInv, RequestsKnowRows
    <3> QED BY <3>1, <3>2, <3>3 DEF Steady, AsAsked
  <2> QED BY <2>1 DEF AloneIsSteady
<1> QED BY <1>1, <1>2, <1>3, <1>4

\* A flush has a first row.
LEMMA FirstIsDirty ==
    ASSUME TypeOK, NEW j \in Jobs, job[j].dirty # {}
    PROVE  First(j) \in job[j].dirty
<1> DEFINE less == OpToRel(<, Nat)
<1>1. \A x, y \in Nat : <<x, y>> \in less <=> x < y
  BY DEF OpToRel
<1>2. IsWellFoundedOn(less, Nat)
  BY NatLessThanWellFounded
<1>3. job[j].dirty \subseteq Nat
  BY JobFields DEF Ids
<1> HIDE DEF less
<1>4. \E x \in job[j].dirty : \A y \in job[j].dirty : <<y, x>> \notin less
  BY <1>2, <1>3, WFMin
<1>5. \E i \in job[j].dirty : \A k \in job[j].dirty : i <= k
  <2>1. PICK i \in job[j].dirty : \A k \in job[j].dirty : <<k, i>> \notin less
    BY <1>4
  <2>2. ASSUME NEW k \in job[j].dirty
        PROVE  i <= k
    <3>1. i \in Nat /\ k \in Nat
      BY <1>3
    <3>2. ~(k < i)
      BY <1>1, <2>1, <3>1
    <3> QED BY <3>1, <3>2
  <2> QED BY <2>2
<1> QED BY <1>5 DEF First

\* What a step of a job prunes and deletes, it has seen in a row of an endpoint that
\* is gone.
LEMMA JobStepKnowsRows ==
    ASSUME IInv, UNCHANGED <<gone, ids>>, rows' \subseteq rows,
           job'["due"].copies \subseteq Due.copies \cup rows,
           \A j \in Jobs : \A i \in job'[j].dirty \cup job'[j].deleted :
              \/ i \in job[j].dirty \cup job[j].deleted
              \/ \E x \in rows \cup Due.copies : x.id = i /\ x.endpoint \in gone
    PROVE  JobsKnowRows'
<1>1. \A x, y \in rows : x.id = y.id => x = y
  BY DEF IInv, TypeOK
<1>2. \A x \in rows : x.id <= ids
  BY DEF IInv, TypeOK, IdsOf
<1>3. ASSUME NEW x \in rows \cup Due.copies
      PROVE  x.id <= ids /\ \A y \in rows : y.id = x.id => y.endpoint = x.endpoint
  BY <1>1, <1>2 DEF IInv, JobsKnowRows, CopyOf
<1>4. ASSUME NEW j \in Jobs, NEW i \in job'[j].dirty \cup job'[j].deleted
      PROVE  i <= ids /\ \A y \in rows : y.id = i => y.endpoint \in gone
  <2>1. CASE i \in job[j].dirty \cup job[j].deleted
    BY <2>1 DEF IInv, JobsKnowRows
  <2>2. CASE \E x \in rows \cup Due.copies : x.id = i /\ x.endpoint \in gone
    BY <1>3, <2>2
  <2> QED BY <1>4, <2>1, <2>2
<1> QED BY <1>3, <1>4 DEF JobsKnowRows, CopyOf, Due

\* A step that is not about the reminders keeps what is said of them.
LEMMA QuietIInv ==
    ASSUME IInv, UNCHANGED <<request, browser, gone, pending, heard, unstamped, served>>,
           runs'["due"] = runs["due"], rows' \subseteq rows,
           job'["due"].copies = Due.copies, job'["due"].todo = Due.todo,
           job'["due"].stamps = Due.stamps,
           job'["nudge"].todo = {}, job'["nudge"].stamps = {}
    PROVE  /\ NudgeApart' /\ KeysInOrder' /\ StampsHeard' /\ StampedWasHeard'
           /\ RoundsInOrder' /\ HeardAccounted' /\ RepeatsAccounted' /\ RunsCount'
<1>1. NudgeApart' /\ KeysInOrder'
  BY DEF IInv, NudgeApart, KeysInOrder, Due
<1>2. StampsHeard' /\ StampedWasHeard'
  BY DEF IInv, StampsHeard, StampedWasHeard, Shown, Due
<1>3. RoundsInOrder' /\ HeardAccounted' /\ RepeatsAccounted' /\ RunsCount'
  BY DEF IInv, RoundsInOrder, HeardAccounted, RepeatsAccounted, RunsCount, Due
<1> QED BY <1>1, <1>2, <1>3

LEMMA StartNudgesIInv ==
    ASSUME IInv, StartNudges
    PROVE  IInv'
<1> DEFINE new == [NoJob EXCEPT !.pc = "running"]
<1>1. TypeOK
  BY DEF IInv
<1>2. /\ job["nudge"] = NoJob /\ job' = [job EXCEPT !["nudge"] = new]
      /\ runs["nudge"] < RunBound["nudge"] /\ runs' = [runs EXCEPT !["nudge"] = @ + 1]
      /\ UNCHANGED <<rows, pending, crashes, heard, unstamped, served, browser, gone, request,
                     ids, sent>>
  BY DEF StartNudges, Start, JobUnchanged
<1>3. /\ new \in Job /\ new.pc = "running" /\ new.todo = {} /\ new.copies = {}
      /\ new.dirty = {} /\ new.deleted = {} /\ new.stamps = {}
  BY NoJobRecord DEF Job
<1> HIDE DEF new
<1>4. job' \in [Jobs -> Job] /\ job'["nudge"] = new /\ job'["due"] = Due
  BY <1>1, <1>2, <1>3, DueIsAJob DEF TypeOK, Due
<1>5. /\ runs' \in [Jobs -> Nat] /\ runs'["due"] = runs["due"]
      /\ \A j \in Jobs : runs'[j] <= RunBound[j]
  <2>1. runs \in [Jobs -> Nat] /\ RunBound \in [Jobs -> Nat] /\ \A j \in Jobs : runs[j] <= RunBound[j]
    BY <1>1, PushAssumption DEF TypeOK
  <2>2. runs'["nudge"] = runs["nudge"] + 1 /\ runs'["due"] = runs["due"]
    BY <1>2, <2>1, DueIsAJob
  <2>3. runs' \in [Jobs -> Nat]
    BY <1>2, <2>1, DueIsAJob
  <2>4. runs'["nudge"] <= RunBound["nudge"]
    BY <1>2, <2>1, <2>2, DueIsAJob
  <2> QED BY <2>1, <2>2, <2>3, <2>4, DueIsAJob
<1>6. TypeOK'
  BY <1>1, <1>2, <1>3, <1>4, <1>5, DueIsAJob DEF TypeOK, Due
<1>7. JobsKnowRows'
  BY <1>2, <1>3, <1>4, DueIsAJob, JobStepKnowsRows DEF Due
<1>8. /\ RequestsKnowRows' /\ HeldRows' /\ LocksExclusive' /\ AloneUnlessContested'
      /\ AloneIsSteady'
  <2>1. \A r \in Requests, j \in Jobs : request[r].held \cap job'[j].deleted = {}
    BY <1>3, <1>4, DueIsAJob DEF IInv, LocksExclusive, Due
  <2> QED BY <1>2, <2>1, JobStepForRequests
<1>9. /\ NudgeApart' /\ KeysInOrder' /\ StampsHeard' /\ StampedWasHeard'
      /\ RoundsInOrder' /\ HeardAccounted' /\ RepeatsAccounted' /\ RunsCount'
  BY <1>2, <1>3, <1>4, <1>5, QuietIInv
<1> QED BY <1>6, <1>7, <1>8, <1>9 DEF IInv

LEMMA NudgeRoundIInv ==
    ASSUME IInv, NEW recipients \in SUBSET Users, NudgeRound(recipients)
    PROVE  IInv'
<1> DEFINE targets == {x \in RowsOf(recipients) : x.id \notin job["nudge"].deleted}
<1>1. TypeOK
  BY DEF IInv
<1>2. /\ job["nudge"].pc = "running" /\ job["nudge"].rounds < RoundBound
      /\ UNCHANGED <<rows, pending, runs, crashes, heard, unstamped, served, browser, gone,
                     request, ids, sent>>
  BY DEF NudgeRound, JobUnchanged
<1>3. PICK failed \in SUBSET {x \in targets : x.endpoint \notin gone} :
         job' = [job EXCEPT !["nudge"].rounds = @ + 1,
                            !["nudge"].dirty = IdsOf(Pruned(targets, failed))]
  BY DEF NudgeRound
<1> DEFINE pruned == IdsOf(Pruned(targets, failed))
           new    == [job["nudge"] EXCEPT !.rounds = @ + 1, !.dirty = pruned]
<1>4. job' = [job EXCEPT !["nudge"] = new]
  BY <1>1, <1>3, DueIsAJob DEF TypeOK
<1>5. \A i \in pruned : i \in Ids /\ \E x \in rows : x.id = i /\ x.endpoint \in gone
  <2>1. ASSUME NEW x \in Pruned(targets, failed)
        PROVE  x \in rows /\ x.id \in Ids /\ x.endpoint \in gone
    BY <1>1, RowFields DEF Pruned, RowsOf, TypeOK
  <2> QED BY <2>1 DEF IdsOf
<1> HIDE DEF pruned, targets
<1>6. /\ new \in Job /\ new.pc = "running" /\ new.todo = job["nudge"].todo
      /\ new.copies = job["nudge"].copies /\ new.dirty = pruned
      /\ new.deleted = job["nudge"].deleted /\ new.stamps = job["nudge"].stamps
  <2>1. job["nudge"] \in Job /\ job["nudge"].rounds \in Nat
    BY <1>1, DueIsAJob, JobFields
  <2>2. job["nudge"].rounds + 1 \in 0 .. RoundBound
    BY <1>2, <2>1, PushAssumption
  <2>3. pruned \subseteq Ids
    BY <1>5
  <2> QED BY <1>2, <2>1, <2>2, <2>3 DEF Job
<1> HIDE DEF new
<1>7. job' \in [Jobs -> Job] /\ job'["nudge"] = new /\ job'["due"] = Due
  BY <1>1, <1>4, <1>6, DueIsAJob DEF TypeOK, Due
<1>8. TypeOK'
  <2>1. \A j \in Jobs : job'[j].pc = "idle" => job'[j] = NoJob
    BY <1>1, <1>6, <1>7, DueIsAJob DEF TypeOK, Due
  <2> QED BY <1>1, <1>2, <1>7, <2>1 DEF TypeOK
<1>9. JobsKnowRows'
  <2>1. \A j \in Jobs : \A i \in job'[j].dirty \cup job'[j].deleted :
              \/ i \in job[j].dirty \cup job[j].deleted
              \/ \E x \in rows \cup Due.copies : x.id = i /\ x.endpoint \in gone
    BY <1>5, <1>6, <1>7, DueIsAJob DEF Due
  <2> QED BY <1>2, <1>7, <2>1, JobStepKnowsRows
<1>10. /\ RequestsKnowRows' /\ HeldRows' /\ LocksExclusive' /\ AloneUnlessContested'
       /\ AloneIsSteady'
  <2>1. \A r \in Requests, j \in Jobs : request[r].held \cap job'[j].deleted = {}
    BY <1>6, <1>7, DueIsAJob DEF IInv, LocksExclusive, Due
  <2> QED BY <1>2, <2>1, JobStepForRequests
<1>11. /\ NudgeApart' /\ KeysInOrder' /\ StampsHeard' /\ StampedWasHeard'
       /\ RoundsInOrder' /\ HeardAccounted' /\ RepeatsAccounted' /\ RunsCount'
  <2>1. new.todo = {} /\ new.stamps = {}
    BY <1>6 DEF IInv, NudgeApart
  <2> QED BY <1>2, <1>7, <2>1, QuietIInv
<1> QED BY <1>8, <1>9, <1>10, <1>11 DEF IInv

\* A row is deleted when nobody else has its lock.
LEMMA FlushRowIInv ==
    ASSUME IInv, NEW j \in Jobs, FlushRow(j)
    PROVE  IInv'
<1> DEFINE i     == First(j)
           dirty == job[j].dirty \ {i}
           deleted == job[j].deleted \cup ({i} \cap IdsOf(rows))
           new   == [job[j] EXCEPT !.dirty = dirty, !.deleted = deleted]
<1>1. TypeOK
  BY DEF IInv
<1>2. /\ job[j].dirty # {} /\ i \notin Locked(j)
      /\ job' = [job EXCEPT ![j].dirty = dirty, ![j].deleted = deleted]
      /\ UNCHANGED <<rows, pending, runs, crashes, heard, unstamped, served, browser, gone,
                     request, ids, sent>>
  <2>1. /\ job' = [job EXCEPT ![j].dirty = @ \ {First(j)},
                              ![j].deleted = @ \cup ({First(j)} \cap IdsOf(rows))]
        /\ UNCHANGED <<rows, pending, runs, crashes, heard, unstamped, served, browser, gone,
                       request, ids, sent>>
    BY DEF FlushRow, JobUnchanged
  <2>2. job[j].dirty # {} /\ i \notin Locked(j)
    BY DEF FlushRow, Flushing, Waits
  <2> QED BY <1>1, <2>1, <2>2 DEF TypeOK
<1>3. i \in job[j].dirty
  BY <1>1, <1>2, FirstIsDirty
<1> HIDE DEF i
<1>4. /\ job[j] \in Job /\ job[j].pc # "idle" /\ dirty \subseteq Ids /\ deleted \subseteq Ids
  <2>1. job[j] \in Job /\ (job[j].pc = "idle" => job[j] = NoJob) /\ i \in Ids
    BY <1>1, <1>3, JobFields
  <2>2. job[j].dirty \subseteq Ids /\ job[j].deleted \subseteq Ids
    BY <1>1, JobFields
  <2> QED BY <1>3, <2>1, <2>2, NoJobRecord
<1>5. /\ dirty \cup deleted \subseteq job[j].dirty \cup job[j].deleted
      /\ deleted \subseteq job[j].deleted \cup {i}
  BY <1>3
<1>6. job' = [job EXCEPT ![j] = new]
  BY <1>1, <1>2 DEF TypeOK
<1> HIDE DEF dirty, deleted
<1>7. /\ new \in Job /\ new.pc = job[j].pc /\ new.todo = job[j].todo
      /\ new.copies = job[j].copies /\ new.dirty = dirty
      /\ new.deleted = deleted /\ new.stamps = job[j].stamps
  BY <1>4 DEF Job
<1> HIDE DEF new
<1>8. job' \in [Jobs -> Job] /\ job'[j] = new /\ \A k \in Jobs \ {j} : job'[k] = job[k]
  BY <1>1, <1>6, <1>7 DEF TypeOK
<1>9. TypeOK'
  <2>1. \A k \in Jobs : job'[k].pc = "idle" => job'[k] = NoJob
    BY <1>1, <1>4, <1>7, <1>8 DEF TypeOK
  <2> QED BY <1>1, <1>2, <1>8, <2>1 DEF TypeOK
<1>10. \A k \in Jobs : /\ job'[k].todo = job[k].todo /\ job'[k].copies = job[k].copies
                       /\ job'[k].stamps = job[k].stamps
  BY <1>7, <1>8
<1>11. JobsKnowRows'
  <2>1. \A k \in Jobs : \A n \in job'[k].dirty \cup job'[k].deleted :
              \/ n \in job[k].dirty \cup job[k].deleted
              \/ \E x \in rows \cup Due.copies : x.id = n /\ x.endpoint \in gone
    BY <1>5, <1>7, <1>8
  <2> QED BY <1>2, <1>10, <2>1, DueIsAJob, JobStepKnowsRows DEF Due
<1>12. /\ RequestsKnowRows' /\ HeldRows' /\ LocksExclusive' /\ AloneUnlessContested'
       /\ AloneIsSteady'
  <2>1. \A r \in Requests : i \notin request[r].held
    BY <1>2, LockedByJob
  <2>2. \A r \in Requests, k \in Jobs : request[r].held \cap job'[k].deleted = {}
    BY <1>5, <1>7, <1>8, <2>1 DEF IInv, LocksExclusive
  <2> QED BY <1>2, <2>2, JobStepForRequests
<1>13. /\ NudgeApart' /\ KeysInOrder' /\ StampsHeard' /\ StampedWasHeard'
       /\ RoundsInOrder' /\ HeardAccounted' /\ RepeatsAccounted' /\ RunsCount'
  BY <1>2, <1>10, DueIsAJob, QuietIInv DEF Due, IInv, NudgeApart
<1> QED BY <1>9, <1>11, <1>12, <1>13 DEF IInv

\* A run that is over leaves rows to the requests and nothing of its own.
LEMMA RunOver ==
    ASSUME IInv, NEW j \in Jobs, job' = [job EXCEPT ![j] = NoJob],
           UNCHANGED <<request, browser, gone, ids, sent, runs>>, rows' \subseteq rows,
           \A x \in rows \ rows' : x.id \in job[j].deleted
    PROVE  /\ job' \in [Jobs -> Job] /\ job'[j] = NoJob
           /\ \A k \in Jobs \ {j} : job'[k] = job[k]
           /\ \A k \in Jobs : job'[k].pc = "idle" => job'[k] = NoJob
           /\ JobsKnowRows' /\ RequestsKnowRows' /\ HeldRows' /\ LocksExclusive'
           /\ AloneUnlessContested' /\ AloneIsSteady' /\ NudgeApart'
<1>1. TypeOK
  BY DEF IInv
<1>2. /\ job' \in [Jobs -> Job] /\ job'[j] = NoJob
      /\ \A k \in Jobs \ {j} : job'[k] = job[k]
  BY <1>1, NoJobRecord DEF TypeOK
<1>3. \A k \in Jobs : job'[k].pc = "idle" => job'[k] = NoJob
  BY <1>1, <1>2 DEF TypeOK
<1>4. JobsKnowRows'
  <2>1. job'["due"].copies \subseteq Due.copies
    BY <1>2, NoJobRecord, DueIsAJob DEF Due
  <2>2. \A k \in Jobs : \A n \in job'[k].dirty \cup job'[k].deleted :
              n \in job[k].dirty \cup job[k].deleted
    BY <1>2, NoJobRecord
  <2> QED BY <2>1, <2>2, JobStepKnowsRows
<1>5. /\ RequestsKnowRows' /\ HeldRows' /\ LocksExclusive' /\ AloneUnlessContested'
      /\ AloneIsSteady'
  <2>1. ASSUME NEW x \in rows \ rows'
        PROVE  x.endpoint \in gone /\ \A r \in Requests : x.id \notin request[r].held
    BY <2>1 DEF IInv, JobsKnowRows, LocksExclusive
  <2>2. \A r \in Requests, k \in Jobs : request[r].held \cap job'[k].deleted = {}
    BY <1>2, NoJobRecord DEF IInv, LocksExclusive
  <2> QED BY <2>1, <2>2, JobStepForRequests
<1>6. NudgeApart'
  BY <1>2, NoJobRecord, DueIsAJob DEF IInv, NudgeApart
<1> QED BY <1>2, <1>3, <1>4, <1>5, <1>6

LEMMA FewerRows ==
    ASSUME TypeOK, rows' \subseteq rows, ids' = ids
    PROVE  /\ rows' \subseteq Row /\ IdsOf(rows') \subseteq 1 .. ids' /\ ids' \in 0 .. RowBound
           /\ \A x, y \in rows' : x.id = y.id \/ x.endpoint = y.endpoint => x = y
BY DEF TypeOK, IdsOf

LEMMA CommitIInv ==
    ASSUME IInv, NEW j \in Jobs, Commit(j)
    PROVE  IInv'
<1>1. TypeOK
  BY DEF IInv
<1>2. /\ job[j].todo = {} /\ job' = [job EXCEPT ![j] = NoJob]
      /\ rows' = {x \in rows : x.id \notin job[j].deleted}
      /\ pending' = pending \ job[j].stamps
      /\ served' = [u \in Owing |-> IF u \in job[j].stamps
                         THEN {x \in job[j].copies : x.owner = u} ELSE served[u]]
      /\ UNCHANGED <<runs, crashes, heard, unstamped, browser, gone, request, ids, sent>>
  BY DEF Commit, JobUnchanged
<1>3. rows' \subseteq rows /\ \A x \in rows \ rows' : x.id \in job[j].deleted
  BY <1>2
<1>4. /\ job' \in [Jobs -> Job] /\ job'[j] = NoJob
      /\ \A k \in Jobs \ {j} : job'[k] = job[k]
      /\ \A k \in Jobs : job'[k].pc = "idle" => job'[k] = NoJob
      /\ JobsKnowRows' /\ RequestsKnowRows' /\ HeldRows' /\ LocksExclusive'
      /\ AloneUnlessContested' /\ AloneIsSteady' /\ NudgeApart'
  BY <1>2, <1>3, RunOver
<1>5. TypeOK'
  <2>1. \A u \in Owing : served'[u] \in SUBSET Row
    BY <1>1, <1>2, JobFields DEF TypeOK
  <2>2. served' \in [Owing -> SUBSET Row]
    BY <1>2, <2>1
  <2>3. pending' \subseteq Owing
    BY <1>1, <1>2 DEF TypeOK
  <2> QED BY <1>1, <1>2, <1>3, <1>4, <2>2, <2>3, FewerRows DEF TypeOK
<1>6. job'["due"].copies \subseteq Due.copies
  BY <1>4, NoJobRecord, DueIsAJob DEF Due
<1>7. \A u \in Owing : u \in job[j].stamps => j = "due"
  BY DueIsAJob DEF IInv, NudgeApart
<1>8. ASSUME NEW u \in Owing, NEW x \in served'[u]
      PROVE  x \in served[u] \/ (u \in Due.stamps /\ x \in Due.copies /\ x.owner = u)
  BY <1>2, <1>7, <1>8 DEF Due
<1>9. KeysInOrder'
  <2>1. \A u \in Owing : \A x \in served'[u] : x.keys <= browser[x.endpoint]
    BY <1>8 DEF IInv, KeysInOrder
  <2> QED BY <1>2, <1>3, <1>6, <2>1 DEF IInv, KeysInOrder, Due
<1>10. StampedWasHeard'
  <2>1. ASSUME NEW u \in Owing, NEW x \in served'[u]
        PROVE  Shown(x, u)
    BY <1>8 DEF IInv, StampedWasHeard, StampsHeard, Shown
  <2> QED BY <1>2, <2>1 DEF StampedWasHeard, Shown
<1>11. StampsHeard' /\ RoundsInOrder' /\ HeardAccounted' /\ RunsCount'
  <2>1. CASE j = "due"
    <3>1. Due' = NoJob /\ pending' = pending \ Due.stamps
      BY <1>2, <1>4, <2>1 DEF Due
    <3> QED BY <1>2, <3>1, NoJobRecord
            DEF IInv, StampsHeard, RoundsInOrder, HeardAccounted, RunsCount
  <2>2. CASE j = "nudge"
    <3>1. Due' = Due /\ pending' = pending
      BY <1>2, <1>4, <2>2, DueIsAJob DEF Due, IInv, NudgeApart
    <3> QED BY <1>2, <3>1
            DEF IInv, StampsHeard, RoundsInOrder, HeardAccounted, RunsCount, Shown
  <2> QED BY <2>1, <2>2, DueIsAJob
<1>12. RepeatsAccounted'
  BY <1>2 DEF IInv, RepeatsAccounted
<1> QED BY <1>4, <1>5, <1>9, <1>10, <1>11, <1>12 DEF IInv

\* A stamp that is lost counts as a round without one.
LEMMA AbandonIInv ==
    ASSUME IInv, NEW j \in Jobs, Abandon(j), crashes' \in 0 .. CrashBound
    PROVE  IInv'
<1>1. TypeOK
  BY DEF IInv
<1>2. /\ job' = [job EXCEPT ![j] = NoJob]
      /\ unstamped' = [u \in Owing |-> IF u \in job[j].stamps
                                       THEN unstamped[u] + 1 ELSE unstamped[u]]
      /\ UNCHANGED <<rows, pending, runs, heard, served, browser, gone, request, ids, sent>>
  BY DEF Abandon, JobUnchanged
<1>3. /\ job' \in [Jobs -> Job] /\ job'[j] = NoJob
      /\ \A k \in Jobs \ {j} : job'[k] = job[k]
      /\ \A k \in Jobs : job'[k].pc = "idle" => job'[k] = NoJob
      /\ JobsKnowRows' /\ RequestsKnowRows' /\ HeldRows' /\ LocksExclusive'
      /\ AloneUnlessContested' /\ AloneIsSteady' /\ NudgeApart'
  BY <1>2, RunOver
<1>4. \A u \in Owing : u \in job[j].stamps => j = "due" /\ u \in Due.stamps
  BY DueIsAJob DEF IInv, NudgeApart, Due
<1>5. runs["due"] \in Nat /\ \A u \in Owing : unstamped[u] \in Nat /\ unstamped[u] <= runs["due"]
  BY <1>1, DueIsAJob DEF TypeOK
<1>6. \A e \in Endpoints, u \in Owing : heard[<<e, u>>] \in Nat
  <2>1. ASSUME NEW e \in Endpoints, NEW u \in Owing
        PROVE  heard[<<e, u>>] \in Nat
    <3>1. <<e, u>> \in Endpoints \X Owing
      OBVIOUS
    <3> QED BY <1>1, <1>5, <3>1 DEF TypeOK
  <2> QED BY <2>1
<1>7. \A u \in Owing : /\ unstamped'[u] \in Nat /\ unstamped[u] <= unstamped'[u]
                       /\ unstamped'[u] <= runs["due"]
  <2>1. \A u \in Due.stamps : unstamped[u] < runs["due"]
    BY DEF IInv, RunsCount
  <2> QED BY <1>2, <1>4, <1>5, <2>1
<1>8. TypeOK'
  <2>1. unstamped' \in [Owing -> 0 .. runs["due"]]
    BY <1>2, <1>5, <1>7
  <2> QED BY <1>1, <1>2, <1>3, <2>1 DEF TypeOK
<1>9. KeysInOrder'
  <2>1. job'["due"].copies \subseteq Due.copies
    BY <1>3, NoJobRecord, DueIsAJob DEF Due
  <2> QED BY <1>2, <2>1 DEF IInv, KeysInOrder, Due
<1>10. StampedWasHeard'
  BY <1>2 DEF IInv, StampedWasHeard
<1>11. StampsHeard' /\ RoundsInOrder' /\ RunsCount'
  <2>1. CASE j = "due"
    BY <1>3, <2>1, NoJobRecord DEF StampsHeard, RoundsInOrder, RunsCount, Due
  <2>2. CASE j = "nudge"
    <3>1. Due' = Due /\ \A u \in Owing : unstamped'[u] = unstamped[u]
      BY <1>2, <1>3, <1>4, <2>2, DueIsAJob DEF Due
    <3>2. Due.todo \cup Due.stamps \subseteq Owing
      BY <1>1, JobFields, DueIsAJob DEF Due
    <3> QED BY <1>2, <3>1, <3>2 DEF IInv, StampsHeard, RoundsInOrder, RunsCount, Shown
  <2> QED BY <2>1, <2>2, DueIsAJob
<1>12. RepeatsAccounted'
  <2>1. ASSUME NEW e \in Endpoints, NEW u \in Owing
        PROVE  heard[<<e, u>>] <= 1 + unstamped'[u]
    <3>1. heard[<<e, u>>] <= 1 + unstamped[u]
      BY DEF IInv, RepeatsAccounted
    <3> QED BY <1>5, <1>6, <1>7, <3>1
  <2> QED BY <1>2, <2>1 DEF RepeatsAccounted
<1>13. HeardAccounted'
  <2>1. ASSUME NEW e \in Endpoints, NEW u \in pending, u \notin job'["due"].stamps
        PROVE  heard[<<e, u>>] <= unstamped'[u]
    <3>1. u \in Owing
      BY <1>1 DEF TypeOK
    <3>2. CASE u \in Due.stamps
      <4>1. job[j].stamps = Due.stamps
        BY <1>3, <2>1, <3>2, DueIsAJob DEF Due
      <4>2. unstamped'[u] = unstamped[u] + 1
        BY <1>2, <3>1, <3>2, <4>1
      <4>3. heard[<<e, u>>] <= 1 + unstamped[u]
        BY <3>1 DEF IInv, RepeatsAccounted
      <4> QED BY <1>5, <1>6, <3>1, <4>2, <4>3
    <3>3. CASE u \notin Due.stamps
      <4>1. heard[<<e, u>>] <= unstamped[u]
        BY <2>1, <3>3 DEF IInv, HeardAccounted
      <4> QED BY <1>5, <1>6, <1>7, <3>1, <4>1
    <3> QED BY <3>2, <3>3
  <2> QED BY <1>2, <2>1 DEF HeardAccounted, Due
<1> QED BY <1>3, <1>8, <1>9, <1>10, <1>11, <1>12, <1>13 DEF IInv

LEMMA StartDueIInv ==
    ASSUME IInv, StartDue
    PROVE  IInv'
<1> DEFINE copies == RowsOf(pending)
           new == [NoJob EXCEPT !.pc = "running", !.todo = pending, !.copies = copies]
<1>1. TypeOK
  BY DEF IInv
<1>2. /\ Due = NoJob /\ job' = [job EXCEPT !["due"] = new]
      /\ runs["due"] < RunBound["due"] /\ runs' = [runs EXCEPT !["due"] = @ + 1]
      /\ UNCHANGED <<rows, pending, crashes, heard, unstamped, served, browser, gone, request,
                     ids, sent>>
  BY DEF StartDue, Start, JobUnchanged, Due
<1>3. copies \subseteq rows /\ copies \subseteq Row /\ pending \subseteq Owing
  BY <1>1 DEF RowsOf, TypeOK
<1> HIDE DEF copies
<1>4. /\ new \in Job /\ new.pc = "running" /\ new.todo = pending /\ new.copies = copies
      /\ new.dirty = {} /\ new.deleted = {} /\ new.stamps = {}
  BY <1>3, NoJobRecord DEF Job
<1> HIDE DEF new
<1>5. job' \in [Jobs -> Job] /\ job'["due"] = new /\ job'["nudge"] = job["nudge"] /\ Due' = new
  BY <1>1, <1>2, <1>4, DueIsAJob DEF TypeOK, Due
<1>6. /\ runs' \in [Jobs -> Nat] /\ runs'["due"] = runs["due"] + 1 /\ runs["due"] \in Nat
      /\ \A j \in Jobs : runs'[j] <= RunBound[j]
  <2>1. runs \in [Jobs -> Nat] /\ RunBound \in [Jobs -> Nat] /\ \A j \in Jobs : runs[j] <= RunBound[j]
    BY <1>1, PushAssumption DEF TypeOK
  <2>2. runs'["due"] = runs["due"] + 1 /\ runs'["nudge"] = runs["nudge"]
    BY <1>2, <2>1, DueIsAJob
  <2>3. runs' \in [Jobs -> Nat]
    BY <1>2, <2>1, DueIsAJob
  <2>4. runs'["due"] <= RunBound["due"]
    BY <1>2, <2>1, <2>2, DueIsAJob
  <2> QED BY <2>1, <2>2, <2>3, <2>4, DueIsAJob
<1>7. ASSUME NEW u \in Owing
      PROVE  /\ unstamped[u] \in 0 .. runs'["due"] /\ unstamped[u] < runs'["due"]
             /\ \A e \in Endpoints : /\ heard[<<e, u>>] \in 0 .. runs'["due"]
                                     /\ heard[<<e, u>>] < runs'["due"]
  <2>1. unstamped[u] \in 0 .. runs["due"]
    BY <1>1 DEF TypeOK
  <2>2. ASSUME NEW e \in Endpoints
        PROVE  heard[<<e, u>>] \in 0 .. runs["due"]
    BY <1>1 DEF TypeOK
  <2> QED BY <1>6, <2>1, <2>2
<1>8. TypeOK'
  <2>1. \A j \in Jobs : job'[j].pc = "idle" => job'[j] = NoJob
    BY <1>1, <1>4, <1>5, DueIsAJob DEF TypeOK
  <2>2. heard \in [Endpoints \X Owing -> 0 .. runs'["due"]]
    <3>1. heard \in [Endpoints \X Owing -> 0 .. runs["due"]]
      BY <1>1 DEF TypeOK
    <3>2. \A n \in 0 .. runs["due"] : n \in 0 .. runs'["due"]
      BY <1>6
    <3> QED BY <3>1, <3>2
  <2>3. unstamped \in [Owing -> 0 .. runs'["due"]]
    BY <1>1, <1>7 DEF TypeOK
  <2> QED BY <1>1, <1>2, <1>5, <1>6, <2>1, <2>2, <2>3 DEF TypeOK
<1>9. JobsKnowRows'
  <2>1. \A j \in Jobs : \A i \in job'[j].dirty \cup job'[j].deleted :
              i \in job[j].dirty \cup job[j].deleted
    BY <1>4, <1>5, DueIsAJob
  <2> QED BY <1>2, <1>3, <1>4, <1>5, <2>1, JobStepKnowsRows
<1>10. /\ RequestsKnowRows' /\ HeldRows' /\ LocksExclusive' /\ AloneUnlessContested'
       /\ AloneIsSteady'
  <2>1. \A r \in Requests, j \in Jobs : request[r].held \cap job'[j].deleted = {}
    BY <1>4, <1>5, DueIsAJob DEF IInv, LocksExclusive
  <2> QED BY <1>2, <2>1, JobStepForRequests
<1>11. NudgeApart' /\ KeysInOrder' /\ StampsHeard' /\ StampedWasHeard'
  BY <1>2, <1>3, <1>4, <1>5
     DEF IInv, NudgeApart, KeysInOrder, StampsHeard, StampedWasHeard
<1>12. RoundsInOrder' /\ RepeatsAccounted'
  BY <1>2, <1>4, <1>5 DEF IInv, RoundsInOrder, RepeatsAccounted
<1>13. HeardAccounted'
  BY <1>2, <1>4, <1>5, NoJobRecord DEF IInv, HeardAccounted
<1>14. RunsCount'
  BY <1>2, <1>3, <1>4, <1>5, <1>7 DEF RunsCount
<1> QED BY <1>8, <1>9, <1>10, <1>11, <1>12, <1>13, <1>14 DEF IInv

\* What one round of the due-task job does.
LEMMA DueRoundEffect ==
    ASSUME TypeOK, NEW u \in Owing, NEW failed \in SUBSET Due.copies, DueRound(u, failed)
    PROVE  LET targets == {x \in Due.copies : x.owner = u}
           IN  /\ u \in Due.todo /\ job' \in [Jobs -> Job] /\ job'["nudge"] = job["nudge"]
               /\ Due'.pc = Due.pc /\ Due'.todo = Due.todo \ {u} /\ Due'.copies = Due.copies
               /\ Due'.stamps = Due.stamps \cup (IF failed = {} THEN {u} ELSE {})
               /\ Due'.deleted = Due.deleted
               /\ \A i \in Due'.dirty :
                     i \in Due.dirty \/ \E x \in Due.copies : x.id = i /\ x.endpoint \in gone
               /\ \A e \in Endpoints, v \in Owing :
                     /\ heard'[<<e, v>>] \in {heard[<<e, v>>], heard[<<e, v>>] + 1}
                     /\ v # u => heard'[<<e, v>>] = heard[<<e, v>>]
               /\ heard' = [p \in Endpoints \X Owing |-> heard'[p]]
               /\ failed = {} => \A x \in targets :
                     x.endpoint \in gone \/ x.keys # browser[x.endpoint]
                        \/ heard'[<<x.endpoint, u>>] = heard[<<x.endpoint, u>>] + 1
               /\ unstamped' = [v \in Owing |-> IF v = u /\ failed # {} THEN unstamped[v] + 1
                                                ELSE unstamped[v]]
               /\ UNCHANGED <<rows, pending, runs, crashes, served, browser, gone, request,
                              ids, sent>>
<1> DEFINE targets == {x \in Due.copies : x.owner = u}
           pruned  == Pruned(targets, failed)
           reached == (targets \ failed) \ pruned
           stamp   == IF failed = {} THEN {u} ELSE {}
           shows(p) == p[2] = u /\ \E x \in reached : x.endpoint = p[1] /\ x.keys = browser[p[1]]
           dirty   == Due.dirty \cup IdsOf(pruned)
           stamps  == Due.stamps \cup stamp
           new     == [Due EXCEPT !.todo = @ \ {u}, !.stamps = stamps, !.dirty = dirty]
<1>1. /\ u \in Due.todo
      /\ job' = [job EXCEPT !["due"].todo = @ \ {u}, !["due"].stamps = @ \cup stamp,
                            !["due"].dirty = @ \cup IdsOf(pruned)]
      /\ heard' = [p \in DOMAIN heard |-> IF shows(p) THEN heard[p] + 1 ELSE heard[p]]
      /\ unstamped' = IF failed = {} THEN unstamped ELSE [unstamped EXCEPT ![u] = @ + 1]
      /\ UNCHANGED <<rows, pending, runs, crashes, served, browser, gone, request, ids, sent>>
  BY DEF DueRound, AllSent, JobUnchanged, Due
<1>2. Due \in Job /\ Due.todo \subseteq Owing /\ Due.stamps \subseteq Owing /\ Due.dirty \subseteq Ids
      /\ Due.copies \subseteq Row
  BY DueIsAJob, JobFields DEF Due
<1>3. job' = [job EXCEPT !["due"] = new]
  BY <1>1, DueIsAJob DEF TypeOK, Due
<1>4. \A i \in dirty : i \in Due.dirty \/ \E x \in Due.copies : x.id = i /\ x.endpoint \in gone
  BY DEF IdsOf, Pruned
<1>5. dirty \subseteq Ids /\ stamps \subseteq Owing
  <2>1. \A x \in Due.copies : x.id \in Ids
    BY <1>2, RowFields
  <2> QED BY <1>2, <1>4, <2>1
<1>6. DOMAIN heard = Endpoints \X Owing
  BY DEF TypeOK
<1>7. ASSUME NEW e \in Endpoints, NEW v \in Owing
      PROVE  heard'[<<e, v>>] = IF shows(<<e, v>>) THEN heard[<<e, v>>] + 1 ELSE heard[<<e, v>>]
  BY <1>1, <1>6
<1>8. failed = {} => \A x \in targets :
            x.endpoint \in gone \/ x.keys # browser[x.endpoint]
               \/ heard'[<<x.endpoint, u>>] = heard[<<x.endpoint, u>>] + 1
  <2>1. ASSUME failed = {}, NEW x \in targets, x.endpoint \notin gone,
               x.keys = browser[x.endpoint]
        PROVE  heard'[<<x.endpoint, u>>] = heard[<<x.endpoint, u>>] + 1
    <3>1. x \in reached
      BY <2>1 DEF Pruned
    <3>2. x.endpoint \in Endpoints
      BY <1>2, <2>1, RowFields
    <3>3. shows(<<x.endpoint, u>>)
      BY <2>1, <3>1
    <3> QED BY <1>7, <3>2, <3>3
  <2> QED BY <2>1
<1>9. \A e \in Endpoints, v \in Owing :
         /\ heard'[<<e, v>>] \in {heard[<<e, v>>], heard[<<e, v>>] + 1}
         /\ v # u => heard'[<<e, v>>] = heard[<<e, v>>]
  BY <1>7
<1>10. heard' = [p \in Endpoints \X Owing |-> heard'[p]]
  BY <1>1, <1>6
<1>11. unstamped' = [v \in Owing |-> IF v = u /\ failed # {} THEN unstamped[v] + 1
                                     ELSE unstamped[v]]
  BY <1>1 DEF TypeOK
<1> HIDE DEF dirty, stamps
<1>12. /\ new \in Job /\ new.pc = Due.pc /\ new.todo = Due.todo \ {u} /\ new.copies = Due.copies
       /\ new.dirty = dirty /\ new.deleted = Due.deleted /\ new.stamps = stamps
  BY <1>2, <1>5 DEF Job
<1> HIDE DEF new
<1>13. job' \in [Jobs -> Job] /\ Due' = new /\ job'["nudge"] = job["nudge"]
  BY <1>3, <1>12, DueIsAJob DEF TypeOK, Due
<1>14. \A i \in Due'.dirty :
          i \in Due.dirty \/ \E x \in Due.copies : x.id = i /\ x.endpoint \in gone
  BY <1>4, <1>12, <1>13
<1>15. /\ u \in Due.todo /\ job' \in [Jobs -> Job] /\ job'["nudge"] = job["nudge"]
       /\ Due'.pc = Due.pc /\ Due'.todo = Due.todo \ {u} /\ Due'.copies = Due.copies
       /\ Due'.stamps = Due.stamps \cup (IF failed = {} THEN {u} ELSE {})
       /\ Due'.deleted = Due.deleted
  BY <1>1, <1>12, <1>13 DEF stamps
<1> QED BY <1>1, <1>8, <1>9, <1>10, <1>11, <1>14, <1>15

LEMMA DueRoundIInv ==
    ASSUME IInv, NEW u \in Owing, NEW failed \in SUBSET Due.copies, DueRound(u, failed)
    PROVE  IInv'
<1>1. TypeOK
  BY DEF IInv
<1>2. /\ u \in Due.todo /\ job' \in [Jobs -> Job] /\ job'["nudge"] = job["nudge"]
      /\ Due'.pc = Due.pc /\ Due'.todo = Due.todo \ {u} /\ Due'.copies = Due.copies
      /\ Due'.stamps = Due.stamps \cup (IF failed = {} THEN {u} ELSE {})
      /\ Due'.deleted = Due.deleted
      /\ UNCHANGED <<rows, pending, runs, crashes, served, browser, gone, request, ids, sent>>
  BY <1>1, DueRoundEffect
<1>3. \A i \in Due'.dirty :
         i \in Due.dirty \/ \E x \in Due.copies : x.id = i /\ x.endpoint \in gone
  BY <1>1, DueRoundEffect
<1>4. /\ \A e \in Endpoints, v \in Owing :
            /\ heard'[<<e, v>>] \in {heard[<<e, v>>], heard[<<e, v>>] + 1}
            /\ v # u => heard'[<<e, v>>] = heard[<<e, v>>]
      /\ heard' = [p \in Endpoints \X Owing |-> heard'[p]]
  BY <1>1, DueRoundEffect
<1>5. failed = {} => \A x \in Due.copies : x.owner = u =>
            x.endpoint \in gone \/ x.keys # browser[x.endpoint]
               \/ heard'[<<x.endpoint, u>>] = heard[<<x.endpoint, u>>] + 1
  BY <1>1, DueRoundEffect
<1>6. unstamped' = [v \in Owing |-> IF v = u /\ failed # {} THEN unstamped[v] + 1
                                    ELSE unstamped[v]]
  BY <1>1, DueRoundEffect
<1>7. /\ Due.todo \subseteq Owing /\ Due.stamps \subseteq Owing /\ Due.pc # "idle"
      /\ Due.copies \subseteq Row
  BY <1>1, <1>2, DueIsAJob, JobFields, NoJobRecord DEF Due
\* The counts of a user, before and after.
<1>8. ASSUME NEW v \in Owing
      PROVE  /\ runs["due"] \in Nat /\ unstamped[v] \in Nat /\ unstamped[v] <= runs["due"]
             /\ unstamped'[v] = IF v = u /\ failed # {} THEN unstamped[v] + 1 ELSE unstamped[v]
             /\ unstamped'[v] \in Nat /\ unstamped'[v] <= runs["due"]
  <2>1. runs["due"] \in Nat /\ unstamped[v] \in Nat /\ unstamped[v] <= runs["due"]
    BY <1>1, DueIsAJob DEF TypeOK
  <2>2. unstamped[u] < runs["due"]
    BY <1>2 DEF IInv, RunsCount
  <2>3. unstamped'[v] = IF v = u /\ failed # {} THEN unstamped[v] + 1 ELSE unstamped[v]
    BY <1>6
  <2> QED BY <2>1, <2>2, <2>3
<1>9. ASSUME NEW e \in Endpoints, NEW v \in Owing
      PROVE  /\ heard[<<e, v>>] \in Nat /\ heard[<<e, v>>] <= runs["due"]
             /\ heard'[<<e, v>>] \in Nat /\ heard'[<<e, v>>] <= runs["due"]
             /\ heard[<<e, v>>] <= heard'[<<e, v>>]
             /\ v # u => heard'[<<e, v>>] = heard[<<e, v>>]
             /\ heard'[<<e, v>>] <= heard[<<e, v>>] + 1
  <2>1. heard[<<e, v>>] \in Nat /\ heard[<<e, v>>] <= runs["due"] /\ runs["due"] \in Nat
    <3>1. <<e, v>> \in Endpoints \X Owing
      OBVIOUS
    <3>2. runs["due"] \in Nat
      BY <1>8
    <3> QED BY <1>1, <3>1, <3>2 DEF TypeOK
  <2>2. heard[<<e, u>>] < runs["due"]
    BY <1>2 DEF IInv, RunsCount
  <2>3. /\ heard'[<<e, v>>] \in {heard[<<e, v>>], heard[<<e, v>>] + 1}
        /\ v # u => heard'[<<e, v>>] = heard[<<e, v>>]
    BY <1>4
  <2>4. CASE v = u
    BY <2>1, <2>2, <2>3, <2>4
  <2>5. CASE v # u
    BY <2>1, <2>3, <2>5
  <2> QED BY <2>4, <2>5
<1>10. TypeOK'
  <2>1. \A j \in Jobs : job'[j].pc = "idle" => job'[j] = NoJob
    BY <1>1, <1>2, <1>7, DueIsAJob DEF TypeOK, Due
  <2>2. heard' \in [Endpoints \X Owing -> 0 .. runs["due"]]
    <3>1. ASSUME NEW p \in Endpoints \X Owing
          PROVE  heard'[p] \in 0 .. runs["due"]
      <4>1. PICK e \in Endpoints, v \in Owing : p = <<e, v>>
        OBVIOUS
      <4>2. heard'[<<e, v>>] \in Nat /\ heard'[<<e, v>>] <= runs["due"]
        BY <1>9
      <4>3. runs["due"] \in Nat
        BY <1>8
      <4> QED BY <4>1, <4>2, <4>3
    <3> QED BY <1>4, <3>1
  <2>3. unstamped' \in [Owing -> 0 .. runs["due"]]
    <3>1. \A v \in Owing : unstamped'[v] \in 0 .. runs["due"]
      BY <1>8
    <3>2. unstamped' = [v \in Owing |-> unstamped'[v]]
      BY <1>6
    <3> QED BY <3>1, <3>2
  <2> QED BY <1>1, <1>2, <2>1, <2>2, <2>3 DEF TypeOK
<1>11. JobsKnowRows'
  <2>1. \A j \in Jobs : \A i \in job'[j].dirty \cup job'[j].deleted :
              \/ i \in job[j].dirty \cup job[j].deleted
              \/ \E x \in rows \cup Due.copies : x.id = i /\ x.endpoint \in gone
    BY <1>2, <1>3, DueIsAJob DEF Due
  <2>2. job'["due"].copies = Due.copies
    BY <1>2 DEF Due
  <2> QED BY <1>2, <2>1, <2>2, JobStepKnowsRows
<1>12. /\ RequestsKnowRows' /\ HeldRows' /\ LocksExclusive' /\ AloneUnlessContested'
       /\ AloneIsSteady'
  <2>1. \A r \in Requests, j \in Jobs : request[r].held \cap job'[j].deleted = {}
    BY <1>2, DueIsAJob DEF IInv, LocksExclusive, Due
  <2> QED BY <1>2, <2>1, JobStepForRequests
<1>13. NudgeApart' /\ KeysInOrder' /\ RoundsInOrder'
  <2>1. NudgeApart' /\ KeysInOrder'
    BY <1>2 DEF IInv, NudgeApart, KeysInOrder
  <2>2. Due'.todo \cup Due'.stamps \subseteq pending /\ Due'.todo \cap Due'.stamps = {}
    BY <1>2 DEF IInv, RoundsInOrder
  <2> QED BY <1>2, <2>1, <2>2 DEF RoundsInOrder
\* What was shown is still shown.
<1>14. ASSUME NEW x \in Row, NEW v \in Owing, Shown(x, v)
       PROVE  Shown(x, v)'
  <2>1. x.endpoint \in Endpoints
    BY RowFields
  <2>2. /\ heard[<<x.endpoint, v>>] \in Nat /\ heard'[<<x.endpoint, v>>] \in Nat
        /\ heard[<<x.endpoint, v>>] <= heard'[<<x.endpoint, v>>]
    BY <1>9, <2>1
  <2> QED BY <1>2, <1>14, <2>2 DEF Shown
<1>15. StampedWasHeard'
  <2>1. ASSUME NEW v \in Owing, NEW x \in served[v]
        PROVE  Shown(x, v)'
    <3>1. x \in Row /\ Shown(x, v)
      BY <1>1 DEF TypeOK, IInv, StampedWasHeard, Shown
    <3> QED BY <1>14, <3>1
  <2> QED BY <1>2, <2>1 DEF StampedWasHeard, Shown
<1>16. StampsHeard'
  <2>1. ASSUME NEW v \in Due'.stamps, NEW x \in Due.copies, x.owner = v
        PROVE  Shown(x, v)'
    <3>1. CASE v \in Due.stamps
      BY <1>7, <1>14, <2>1, <3>1 DEF IInv, StampsHeard
    <3>2. CASE v \notin Due.stamps
      <4>1. v = u /\ failed = {}
        BY <1>2, <3>2
      <4>2. x.endpoint \in gone \/ x.keys # browser[x.endpoint]
               \/ heard'[<<x.endpoint, u>>] = heard[<<x.endpoint, u>>] + 1
        BY <1>5, <2>1, <4>1
      <4>3. x.endpoint \in Endpoints
        BY <1>7, RowFields
      <4>4. heard[<<x.endpoint, u>>] \in Nat
        BY <1>9, <4>3
      <4> QED BY <1>2, <4>1, <4>2, <4>4 DEF Shown
    <3> QED BY <3>1, <3>2
  <2> QED BY <1>2, <2>1 DEF StampsHeard
<1>17. \A e \in Endpoints : heard[<<e, u>>] <= unstamped[u]
  BY <1>2 DEF IInv, RoundsInOrder, HeardAccounted
<1>18. RepeatsAccounted'
  <2>1. ASSUME NEW e \in Endpoints, NEW v \in Owing
        PROVE  heard'[<<e, v>>] <= 1 + unstamped'[v]
    <3>1. heard[<<e, v>>] <= 1 + unstamped[v]
      BY DEF IInv, RepeatsAccounted
    <3>2. CASE v = u
      BY <1>8, <1>9, <1>17, <3>2
    <3>3. CASE v # u
      BY <1>8, <1>9, <3>1, <3>3
    <3> QED BY <3>2, <3>3
  <2> QED BY <2>1 DEF RepeatsAccounted
<1>19. HeardAccounted'
  <2>1. ASSUME NEW e \in Endpoints, NEW v \in pending, v \notin Due'.stamps
        PROVE  heard'[<<e, v>>] <= unstamped'[v]
    <3>1. v \in Owing
      BY <1>1 DEF TypeOK
    <3>2. CASE v = u
      <4>1. failed # {}
        BY <1>2, <2>1, <3>2
      <4> QED BY <1>8, <1>9, <1>17, <3>2, <4>1
    <3>3. CASE v # u
      <4>1. heard[<<e, v>>] <= unstamped[v]
        BY <1>2, <2>1 DEF IInv, HeardAccounted
      <4> QED BY <1>8, <1>9, <3>1, <3>3, <4>1
    <3> QED BY <3>2, <3>3
  <2> QED BY <1>2, <2>1 DEF HeardAccounted
<1>20. RunsCount'
  <2>1. ASSUME NEW v \in Due'.todo, NEW e \in Endpoints
        PROVE  heard'[<<e, v>>] < runs["due"]
    <3>1. v \in Owing /\ v \in Due.todo /\ v # u
      BY <1>2, <1>7, <2>1
    <3>2. heard[<<e, v>>] < runs["due"]
      BY <3>1 DEF IInv, RunsCount
    <3> QED BY <1>9, <3>1, <3>2
  <2>2. ASSUME NEW v \in Due'.todo \cup Due'.stamps
        PROVE  unstamped'[v] < runs["due"]
    <3>1. v \in Owing /\ v \in Due.todo \cup Due.stamps /\ (v = u => failed = {})
      <4>1. v \in Due.todo \cup Due.stamps
        BY <1>2, <2>2
      <4>2. v = u => failed = {}
        <5>1. u \notin Due.stamps
          BY <1>2 DEF IInv, RoundsInOrder
        <5>2. failed # {} => u \notin Due'.stamps /\ u \notin Due'.todo
          BY <1>2, <5>1
        <5> QED BY <2>2, <5>2
      <4> QED BY <1>7, <4>1, <4>2
    <3>2. unstamped[v] < runs["due"]
      BY <3>1 DEF IInv, RunsCount
    <3> QED BY <1>8, <3>1, <3>2
  <2> QED BY <1>2, <2>1, <2>2 DEF RunsCount
<1> QED BY <1>10, <1>11, <1>12, <1>13, <1>15, <1>16, <1>18, <1>19, <1>20 DEF IInv

-----------------------------------------------------------------------------
(* The invariant.                                                          *)

LEMMA InitIInv == Init => IInv
<1> SUFFICES ASSUME Init
             PROVE  IInv
  OBVIOUS
<1>1. /\ rows = Registered /\ ids = Cardinality(Registered)
      /\ browser = [e \in Endpoints |-> 0] /\ gone = {}
      /\ request = [r \in Requests |-> NoRequest] /\ job = [j \in Jobs |-> NoJob]
      /\ pending = Owing /\ sent = 0 /\ runs = [j \in Jobs |-> 0] /\ crashes = 0
      /\ heard = [p \in Endpoints \X Owing |-> 0]
      /\ unstamped = [u \in Owing |-> 0] /\ served = [u \in Owing |-> {}]
  BY DEF Init
<1>2. ids \in 0 .. RowBound /\ ids \in Nat
  <2>1. ids \in Nat
    BY <1>1, PushAssumption, FS_CardinalityType
  <2>2. 1 .. ids \subseteq Ids
    BY <1>1, PushAssumption DEF Row
  <2>3. CASE ids = 0
    BY <2>1, <2>3, PushAssumption
  <2>4. CASE ids # 0
    <3>1. ids \in 1 .. ids
      BY <2>1, <2>4
    <3> QED BY <2>1, <2>2, <3>1, PushAssumption DEF Ids
  <2> QED BY <2>1, <2>3, <2>4
<1>3. \A r \in Requests : request[r] = NoRequest
  BY <1>1
<1>4. job["due"] = NoJob /\ job["nudge"] = NoJob /\ \A j \in Jobs : job[j] = NoJob
  BY <1>1, DueIsAJob
<1>5. TypeOK
  <2>1. rows \subseteq Row /\ IdsOf(rows) \subseteq 1 .. ids
    BY <1>1, PushAssumption DEF IdsOf
  <2>2. \A x, y \in rows : x.id = y.id \/ x.endpoint = y.endpoint => x = y
    BY <1>1, PushAssumption
  <2>3. browser \in [Endpoints -> Keys]
    BY <1>1, PushAssumption DEF Keys
  <2>4. request \in [Requests -> Request] /\ job \in [Jobs -> Job]
    BY <1>1, NoRequestRecord, NoJobRecord
  <2>5. /\ runs \in [Jobs -> Nat] /\ \A j \in Jobs : runs[j] = 0
        /\ \A j \in Jobs : runs[j] <= RunBound[j]
    BY <1>1, PushAssumption
  <2>6. /\ heard \in [Endpoints \X Owing -> 0 .. runs["due"]]
        /\ unstamped \in [Owing -> 0 .. runs["due"]] /\ served \in [Owing -> SUBSET Row]
    BY <1>1, <2>5, DueIsAJob
  <2>7. sent \in 0 .. SendBound /\ crashes \in 0 .. CrashBound
    BY <1>1, PushAssumption
  <2> QED BY <1>1, <1>2, <1>3, <1>4, <2>1, <2>2, <2>3, <2>4, <2>5, <2>6, <2>7, NoRequestRecord
          DEF TypeOK
<1>6. RequestsKnowRows /\ HeldRows /\ LocksExclusive /\ AloneUnlessContested /\ AloneIsSteady
  BY <1>3, NoRequestRecord DEF RequestsKnowRows, HeldRows, LocksExclusive,
     AloneUnlessContested, AloneIsSteady, Steady
<1>7. JobsKnowRows /\ NudgeApart /\ StampsHeard /\ RoundsInOrder /\ RunsCount
  BY <1>4, NoJobRecord DEF JobsKnowRows, NudgeApart, StampsHeard, RoundsInOrder, RunsCount, Due
<1>8. KeysInOrder /\ StampedWasHeard
  <2>1. \A x \in rows : x.keys <= browser[x.endpoint]
    <3>1. ASSUME NEW x \in rows
          PROVE  x.keys = 0 /\ browser[x.endpoint] = 0
      BY <1>1, PushAssumption, RowFields
    <3> QED BY <3>1
  <2> QED BY <1>1, <1>3, <1>4, <2>1, NoRequestRecord, NoJobRecord
          DEF KeysInOrder, StampedWasHeard, Due
<1>9. HeardAccounted /\ RepeatsAccounted
  <2>1. \A e \in Endpoints, u \in Owing : heard[<<e, u>>] = 0 /\ unstamped[u] = 0
    BY <1>1
  <2> QED BY <1>1, <2>1 DEF HeardAccounted, RepeatsAccounted
<1> QED BY <1>5, <1>6, <1>7, <1>8, <1>9 DEF IInv

LEMMA NextIInv == IInv /\ [Next]_vars => IInv'
<1> SUFFICES ASSUME IInv, [Next]_vars
             PROVE  IInv'
  OBVIOUS
<1>1. ASSUME NEW r \in Requests, RequestStep(r)
      PROVE  IInv'
  <2>1. ASSUME NEW p \in SignIns, NEW keys \in Keys, SendPost(r, p[1], p[2], keys)
        PROVE  IInv'
    <3>1. p[1] \in Users /\ p[2] \in Endpoints
      BY PushAssumption
    <3> QED BY <2>1, <3>1, SendPostIInv
  <2> QED BY <1>1, <2>1, SendDeleteIInv, UpdateIInv, BeginClearIInv, ClearIInv, InsertIInv,
             RefreshIInv, RemoveIInv DEF RequestStep
<1>2. ASSUME JobStep
      PROVE  IInv'
  <2>1. CASE StartDue \/ StartNudges
    BY <2>1, StartDueIInv, StartNudgesIInv
  <2>2. ASSUME NEW u \in Owing, NEW failed \in SUBSET job["due"].copies, DueRound(u, failed)
        PROVE  IInv'
    BY <2>2, DueRoundIInv DEF Due
  <2>3. ASSUME NEW recipients \in SUBSET Users, NudgeRound(recipients)
        PROVE  IInv'
    BY <2>3, NudgeRoundIInv
  <2>4. ASSUME NEW j \in Jobs, FlushRow(j) \/ Commit(j)
        PROVE  IInv'
    BY <2>4, FlushRowIInv, CommitIInv
  <2>5. ASSUME NEW j \in Jobs, BreakCircle(j) \/ Crash(j)
        PROVE  IInv'
    <3>1. crashes \in 0 .. CrashBound
      BY DEF IInv, TypeOK
    <3>2. Abandon(j) /\ crashes' \in 0 .. CrashBound
      BY <2>5, <3>1, PushAssumption DEF BreakCircle, Crash
    <3> QED BY <3>2, AbandonIInv
  <2> QED BY <1>2, <2>1, <2>2, <2>3, <2>4, <2>5 DEF JobStep
<1>3. CASE UNCHANGED vars
  <2>1. UNCHANGED <<rows, browser, gone, request, job, pending, ids, sent, runs, crashes, heard,
                    unstamped, served>>
    BY <1>3 DEF vars
  <2>2. TypeOK'
    BY <2>1 DEF IInv, TypeOK
  <2>3. RequestsKnowRows' /\ JobsKnowRows' /\ HeldRows' /\ LocksExclusive'
    BY <2>1 DEF IInv, RequestsKnowRows, JobsKnowRows, HeldRows, LocksExclusive, CopyOf, Due
  <2>4. NudgeApart' /\ KeysInOrder' /\ StampsHeard' /\ StampedWasHeard'
    BY <2>1 DEF IInv, NudgeApart, KeysInOrder, StampsHeard, StampedWasHeard, Shown, Due
  <2>5. RoundsInOrder' /\ HeardAccounted' /\ RepeatsAccounted' /\ RunsCount'
    BY <2>1 DEF IInv, RoundsInOrder, HeardAccounted, RepeatsAccounted, RunsCount, Due
  <2>6. AloneUnlessContested' /\ AloneIsSteady'
    BY <2>1 DEF IInv, AloneUnlessContested, AloneIsSteady, Steady, AsAsked
  <2> QED BY <2>2, <2>3, <2>4, <2>5, <2>6 DEF IInv
<1> QED BY <1>1, <1>2, <1>3, GiveUpIInv DEF Next

LEMMA InductiveInvariant == Spec => []IInv
BY InitIInv, NextIInv, PTL DEF Spec

\* Who wants a row that is locked waits for a request that can go on, or for a job.
LEMMA SomebodyMoves ==
    ASSUME IInv
    PROVE  OnlyJobsCircle
<1> DEFINE waiting == {r \in Requests : ~Free(r)}
           moving  == \/ \E r \in Requests \ waiting : request[r] # NoRequest
                      \/ \E j \in Jobs : job[j].pc = "running" /\ ~Waits(j)
<1>1. ASSUME NEW r \in Requests, request[r].held # {}
      PROVE  moving
  <2>1. request[r] # NoRequest
    BY <1>1, NoRequestRecord
  <2>2. Free(r)
    BY <1>1, HoldersWantNothing DEF Free
  <2> QED BY <2>1, <2>2
<1>2. ASSUME NEW j \in Jobs, job[j].deleted # {} \/ Waits(j)
      PROVE  job[j].pc = "running"
  <2>1. job[j] # NoJob
    BY <1>2, NoJobRecord DEF Waits, Flushing
  <2> QED BY <2>1, JobFields DEF IInv
\* A job that waits does so for a request, or for the other job.
<1>3. ASSUME NEW j \in Jobs, Waits(j), ~moving
      PROVE  \E k \in Jobs : k # j /\ WaitsFor(j, k)
  <2>1. First(j) \in Locked(j)
    BY <1>3 DEF Waits
  <2>2. ~ \E q \in Requests : First(j) \in request[q].held
    BY <1>1, <1>3
  <2>3. PICK k \in Jobs : k # j /\ First(j) \in job[k].deleted
    BY <2>1, <2>2, LockedByJob
  <2> QED BY <1>3, <2>3 DEF WaitsFor
<1>4. ASSUME NEW j \in Jobs, job[j].deleted # {} \/ Waits(j), ~moving
      PROVE  Circle
  <2>1. Waits(j)
    BY <1>2, <1>4
  <2>2. PICK k \in Jobs : k # j /\ WaitsFor(j, k)
    BY <1>3, <1>4, <2>1
  <2>3. Waits(k)
    BY <1>2, <1>4, <2>2 DEF WaitsFor
  <2>4. PICK n \in Jobs : n # k /\ WaitsFor(k, n)
    BY <1>3, <1>4, <2>3
  <2> QED BY <2>2, <2>4, DueIsAJob DEF Circle
<1>5. ASSUME NEW r \in waiting, ~moving
      PROVE  Circle
  <2>1. PICK i : i \in Wanted(r) /\ i \in Locked(r)
    BY <1>5 DEF Free
  <2>2. ~ \E q \in Requests : i \in request[q].held
    BY <1>1, <1>5
  <2>3. \E j \in Jobs : i \in job[j].deleted
    BY <2>1, <2>2, LockedByRequest
  <2> QED BY <1>4, <1>5, <2>3
<1>6. waiting # {} \/ (\E j \in Jobs : Waits(j)) => moving \/ Circle
  BY <1>4, <1>5
<1> QED BY <1>6 DEF OnlyJobsCircle

-----------------------------------------------------------------------------
(* The end of a registration.                                              *)

LEMMA SendEndsNone ==
    ASSUME TypeOK, NEW q \in Requests, NEW new, Send(q, new), NEW r \in Requests
    PROVE  request[r].keys # None => request'[r] # NoRequest
<1> DEFINE marked(p) == [request[p] EXCEPT !.contested = TRUE]
           begun     == [new EXCEPT !.contested = \E p \in Requests :
                                                    request[p].endpoint = new.endpoint]
<1>1. /\ request[q] = NoRequest
      /\ request' = [[p \in Requests |-> IF request[p].endpoint = new.endpoint
                                         THEN marked(p) ELSE request[p]] EXCEPT ![q] = begun]
  BY DEF Send, Contest
<1>2. marked(r).keys = request[r].keys
  <2>1. request[r] \in Request
    BY RequestFields
  <2> QED BY <2>1 DEF Request
<1> HIDE DEF marked, begun
<1>3. r # q => request'[r] \in {marked(r), request[r]}
  BY <1>1
<1> QED BY <1>1, <1>2, <1>3, NoRequestRecord

LEMMA StepEnds ==
    ASSUME TypeOK, NEW q \in Requests, RequestStep(q), NEW r \in Requests,
           request[r].keys # None, request'[r] = NoRequest
    PROVE  q = r /\ (Update(r) \/ BeginClear(r) \/ Clear(r) \/ Insert(r) \/ Refresh(r))
<1>1. request[r].pc # "remove" /\ request[r] # NoRequest
  BY RequestFields, NoRequestRecord
<1>2. ASSUME NEW new, Send(q, new)
      PROVE  FALSE
  BY <1>2, SendEndsNone
<1>3. ~ \E p \in SignIns, keys \in Keys : SendPost(q, p[1], p[2], keys)
  BY <1>2 DEF SendPost
<1>4. ~ \E x \in rows : SendDelete(q, x)
  BY <1>2 DEF SendDelete
<1>5. ASSUME NEW new, NEW from, Step(q, from, new)
      PROVE  q = r
  BY <1>1, <1>5 DEF Step
<1>6. ~ (Remove(q) /\ q = r)
  BY <1>1 DEF Remove, Step
<1>7. Update(q) \/ BeginClear(q) \/ Clear(q) \/ Insert(q) \/ Refresh(q) \/ Remove(q)
  BY <1>3, <1>4 DEF RequestStep
<1>8. q = r
  <2>1. CASE Update(q)
    BY <1>5, <2>1 DEF Update
  <2>2. CASE BeginClear(q) \/ Clear(q) \/ Refresh(q) \/ Remove(q)
    BY <1>5, <2>2 DEF BeginClear, Clear, Refresh, Remove
  <2>3. CASE Insert(q)
    BY <1>5, <2>3 DEF Insert
  <2> QED BY <1>7, <2>1, <2>2, <2>3
<1> QED BY <1>6, <1>7, <1>8

LEMMA EndsAsAsked ==
    ASSUME IInv, [Next]_vars, NEW r \in Requests, request[r].keys # None,
           request'[r] = NoRequest, ~request[r].contested, request[r].endpoint \notin gone
    PROVE  AsAsked(request[r], rows')
<1> DEFINE me == request[r]
<1>1. TypeOK /\ Steady(me, rows)
  BY DEF IInv, AloneIsSteady
<1>2. me # NoRequest /\ me \in Request
  BY <1>1, NoRequestRecord, RequestFields
<1>3. PICK q \in Requests : RequestStep(q)
  <2>1. request' # request
    BY <1>2
  <2> QED BY <2>1 DEF Next, vars, GiveUp, JobStep, StartDue, StartNudges, Start, DueRound,
             NudgeRound, FlushRow, Commit, BreakCircle, Crash, Abandon, JobUnchanged
<1>4. Update(r) \/ BeginClear(r) \/ Clear(r) \/ Insert(r) \/ Refresh(r)
  BY <1>1, <1>3, StepEnds
<1>5. ~ BeginClear(r)
  <2> DEFINE seen == ToClear(r)
             new  == [me EXCEPT !.pc = "clearing", !.targets = seen]
  <2>1. BeginClear(r) => request'[r] = new
    BY <1>1 DEF BeginClear, Step, TypeOK
  <2> HIDE DEF seen
  <2>2. new.keys = me.keys
    BY <1>2 DEF Request
  <2> QED BY <2>1, <2>2, NoRequestRecord
<1>6. ~ Clear(r)
  <2> DEFINE locked == me.targets \cap IdsOf(rows)
             new    == [me EXCEPT !.pc = "insert", !.targets = {}, !.held = locked]
  <2>1. Clear(r) => request'[r] = new
    BY <1>1 DEF Clear, Step, TypeOK
  <2> HIDE DEF locked
  <2>2. new.keys = me.keys
    BY <1>2 DEF Request
  <2> QED BY <2>1, <2>2, NoRequestRecord
\* An UPDATE only ends without its row, and the row is there.
<1>7. ~ Update(r)
  <2> DEFINE old  == {x \in rows : x.id \in Wanted(r)}
             done == [me EXCEPT !.pc = "refresh"]
  <2>1. ASSUME Update(r)
        PROVE  FALSE
    <3>1. /\ me.pc = "update"
          /\ request'[r] = IF Wanted(r) \subseteq IdsOf(old) THEN done ELSE NoRequest
      BY <1>1, <2>1 DEF Update, Step, TypeOK
    <3>2. Wanted(r) \subseteq IdsOf(old)
      <4>1. Wanted(r) = {} \/ Wanted(r) = {me.row.id}
        BY <3>1, WantedIs
      <4>2. me.row \in rows
        BY <1>1, <3>1 DEF Steady
      <4> QED BY <4>1, <4>2 DEF IdsOf
    <3>3. done.keys = me.keys
      BY <1>2 DEF Request
    <3> QED BY <3>1, <3>2, <3>3, NoRequestRecord
  <2> QED BY <2>1
\* An INSERT only ends when it is refused, and there is no row to refuse it.
<1>8. ~ Insert(r)
  <2> DEFINE x   == [id |-> ids + 1, owner |-> me.user, endpoint |-> me.endpoint, keys |-> me.keys]
             new == [me EXCEPT !.pc = "refresh", !.held = {}, !.row = x]
  <2>1. ASSUME Insert(r)
        PROVE  FALSE
    <3>1. me.pc = "insert"
      BY <2>1 DEF Insert, Step
    <3>2. ~Refused(r)
      BY <1>1, <3>1, WantedIs DEF Refused, Steady, IdsOf
    <3>3. request'[r] = new
      BY <1>1, <2>1, <3>2 DEF Insert, Step, TypeOK
    <3> HIDE DEF x
    <3>4. new.keys = me.keys
      BY <1>2 DEF Request
    <3> QED BY <3>3, <3>4, NoRequestRecord
  <2> QED BY <2>1
<1>9. CASE Refresh(r)
  <2>1. me.pc = "refresh" /\ rows' = rows
    BY <1>9 DEF Refresh, Step
  <2> QED BY <1>1, <2>1 DEF Steady
<1> QED BY <1>4, <1>5, <1>6, <1>7, <1>8, <1>9

-----------------------------------------------------------------------------
(* The theorems.                                                           *)

\* The table is unique by id and endpoint, the records of requests and runs are what
\* the handlers make of them, and no count exceeds its bound.
THEOREM PushTypeOK == Spec => []TypeOK
<1>1. IInv => TypeOK
  BY DEF IInv
<1> QED BY <1>1, InductiveInvariant, PTL

\* A stamp means that every device the run had loaded showed the reminder, unless it is
\* gone or its keys have changed (_send_to_subscriptions, notification_service.py:153).
THEOREM PushStampedWasHeard == Spec => []StampedWasHeard
<1>1. IInv => StampedWasHeard
  BY DEF IInv
<1> QED BY <1>1, InductiveInvariant, PTL

\* A device shows a reminder once, and again only for a round that left no stamp: a
\* failure at another device, a crash, or a circle of locks that was broken.
THEOREM PushRepeatsAccounted == Spec => []RepeatsAccounted
<1>1. IInv => RepeatsAccounted
  BY DEF IInv
<1> QED BY <1>1, InductiveInvariant, PTL

\* Whoever waits for a row lock waits for somebody who can go on, except when the two
\* jobs wait for each other, with any number of requests, rows and rounds.
THEOREM PushOnlyJobsCircle == Spec => []OnlyJobsCircle
<1>1. IInv => OnlyJobsCircle
  BY SomebodyMoves
<1> QED BY <1>1, InductiveInvariant, PTL

\* A POST that was alone about its endpoint ends with the browser registered as asked
\* (create_or_update_subscription), whatever the jobs delete in between.
THEOREM PushRegisteredAsAsked == Spec => RegisteredAsAsked
<1>1. IInv /\ [Next]_vars =>
        [\A r \in Requests :
          LET me == request[r]
          IN  me.keys # None /\ request'[r] = NoRequest /\ ~me.contested
                /\ me.endpoint \notin gone => AsAsked(me, rows')]_vars
  BY EndsAsAsked
<1> QED BY <1>1, InductiveInvariant, PTL DEF Spec, RegisteredAsAsked
=============================================================================
