------------------------- MODULE PushSubscriptions --------------------------
(***************************************************************************)
(* The rows of push_subscriptions: the requests that register and remove   *)
(* a browser (push_subscription_service.py) and the transactions of the    *)
(* two scheduled jobs that push to the browsers and delete the rows of     *)
(* those that are gone (notification_service.py).                          *)
(*                                                                         *)
(* A DELETE or UPDATE that has not been committed holds the lock of its    *)
(* row; whoever wants that row waits.  A statement works on the rows of    *)
(* the moment it began, a transaction sees what was committed then.  The   *)
(* due-task job deletes at its commit, in the order of the primary keys;   *)
(* the nudge job also before each query of its loop (autoflush), and then  *)
(* goes on pushing with the locks in its hands.                            *)
(*                                                                         *)
(* An endpoint that a push service has once reported as gone never comes   *)
(* back.                                                                   *)
(***************************************************************************)
EXTENDS Naturals, FiniteSets

CONSTANTS
    Users, Endpoints, Requests,
    SignIns,      \* the <<user, endpoint>> for which notifications may be enabled
    Owing,        \* the users with a task that becomes due, one each
    Registered,   \* the rows at the start
    None,
    KeyBound,     \* bound: key pairs of a browser, numbered in their order
    RowBound,     \* bound: rows created in a behaviour
    SendBound,    \* bound: requests in a behaviour
    RunBound,     \* bound: [Jobs -> runs of the job]
    RoundBound,   \* bound: quiet memberships of one run of the nudge job
    CrashBound    \* bound: crashes of a worker in the middle of a job

Ids  == 1 .. RowBound
Keys == 0 .. KeyBound
Row  == [id : Ids, owner : Users, endpoint : Endpoints, keys : Keys]
Jobs == {"due", "nudge"}

ASSUME PushAssumption ==
    /\ KeyBound \in Nat /\ RowBound \in Nat /\ SendBound \in Nat
    /\ RunBound \in [Jobs -> Nat] /\ RoundBound \in Nat /\ CrashBound \in Nat
    /\ SignIns \subseteq Users \X Endpoints /\ Owing \subseteq Users
    /\ Registered \subseteq Row /\ IsFiniteSet(Registered)
    /\ \A x, y \in Registered : x.id = y.id \/ x.endpoint = y.endpoint => x = y
    /\ {x.id : x \in Registered} = 1 .. Cardinality(Registered)
    /\ \A x \in Registered : x.keys = 0
    /\ None \notin Users \cup Endpoints \cup Nat \cup Row
    /\ Requests \cap Jobs = {}

VARIABLES
    rows,       \* the committed rows
    browser,    \* [Endpoints -> the keys the browser uses now]
    gone,       \* endpoints the browser has given up
    request,    \* [Requests -> progress of a POST or DELETE]
    job,        \* [Jobs -> progress of a run]
    pending,    \* users whose task has not been stamped
    ids,        \* rows created so far
    sent,       \* history: requests so far
    runs,       \* history: [Jobs -> runs so far]
    crashes,    \* history: crashes so far
    heard,      \* history: [Endpoints \X Owing -> the user's reminders it showed]
    unstamped,  \* history: [Owing -> rounds that pushed and left no stamp]
    served      \* history: [Owing -> copies of the rows of the run that stamped the task]

vars == <<rows, browser, gone, request, job, pending, ids, sent, runs, crashes,
          heard, unstamped, served>>

\* How far a POST or DELETE is: "row" is the row it has loaded or created, "targets"
\* the rows its DELETE saw, "held" those it has deleted; "contested" is history:
\* another request about the endpoint was in flight.
Request == [pc : {"idle", "update", "clear", "clearing", "insert", "refresh", "remove"},
            user : Users \cup {None}, endpoint : Endpoints \cup {None},
            keys : Keys \cup {None}, row : Row \cup {None},
            targets : SUBSET Ids, held : SUBSET Ids, contested : BOOLEAN]

NoRequest == [pc |-> "idle", user |-> None, endpoint |-> None, keys |-> None,
              row |-> None, targets |-> {}, held |-> {}, contested |-> FALSE]

\* How far a run is: users whose task is still to push, copies of their rows, rows to
\* delete and those deleted, users to stamp, and the rounds of the nudge job.
Job == [pc : {"idle", "running"}, todo : SUBSET Owing, copies : SUBSET Row,
        dirty : SUBSET Ids, deleted : SUBSET Ids, stamps : SUBSET Owing,
        rounds : 0 .. RoundBound]

NoJob == [pc |-> "idle", todo |-> {}, copies |-> {}, dirty |-> {}, deleted |-> {},
          stamps |-> {}, rounds |-> 0]

IdsOf(set) == {x.id : x \in set}

TypeOK ==
    /\ rows \subseteq Row /\ IdsOf(rows) \subseteq 1 .. ids /\ ids \in 0 .. RowBound
    /\ \A x, y \in rows : x.id = y.id \/ x.endpoint = y.endpoint => x = y
    /\ browser \in [Endpoints -> Keys] /\ gone \subseteq Endpoints
    /\ request \in [Requests -> Request] /\ job \in [Jobs -> Job]
    /\ \A r \in Requests :
          LET me == request[r]
          IN  IF me.pc = "idle" THEN me = NoRequest
              ELSE /\ me.user # None /\ me.endpoint # None
                   /\ me.keys = None <=> me.pc = "remove"
                   /\ me.pc \in {"update", "remove"} => me.row # None
    /\ \A j \in Jobs : job[j].pc = "idle" => job[j] = NoJob
    /\ pending \subseteq Owing /\ sent \in 0 .. SendBound
    /\ runs \in [Jobs -> Nat] /\ \A j \in Jobs : runs[j] <= RunBound[j]
    /\ crashes \in 0 .. CrashBound
    /\ heard \in [Endpoints \X Owing -> 0 .. runs["due"]]
    /\ unstamped \in [Owing -> 0 .. runs["due"]] /\ served \in [Owing -> SUBSET Row]

Init ==
    /\ rows = Registered /\ ids = Cardinality(Registered)
    /\ browser = [e \in Endpoints |-> 0] /\ gone = {}
    /\ request = [r \in Requests |-> NoRequest]
    /\ job = [j \in Jobs |-> NoJob]
    /\ pending = Owing
    /\ sent = 0 /\ runs = [j \in Jobs |-> 0] /\ crashes = 0
    /\ heard = [p \in Endpoints \X Owing |-> 0]
    /\ unstamped = [u \in Owing |-> 0] /\ served = [u \in Owing |-> {}]

\* The rows that the transactions of others than t have deleted and not committed.
Locked(t) ==
    UNION ({request[r].held : r \in Requests \ {t}} \cup {job[j].deleted : j \in Jobs \ {t}})

-----------------------------------------------------------------------------
(* The requests.                                                           *)

RequestUnchanged == UNCHANGED <<gone, job, pending, runs, crashes, heard, unstamped, served>>

Contest(e) ==
    [q \in Requests |-> IF request[q].endpoint = e
                        THEN [request[q] EXCEPT !.contested = TRUE] ELSE request[q]]

Send(r, new) ==
    /\ request[r] = NoRequest /\ sent < SendBound
    /\ sent' = sent + 1
    /\ request' = [Contest(new.endpoint) EXCEPT ![r] =
          [new EXCEPT !.contested = \E q \in Requests : request[q].endpoint = new.endpoint]]
    /\ UNCHANGED <<rows, ids>> /\ RequestUnchanged

Owned(u, e) == {x \in rows : x.endpoint = e /\ x.owner = u}

\* The browser's subscription, perhaps with new keys, is posted by whoever is
\* signed in; create_or_update_subscription reads the user's own row of it.
SendPost(r, u, e, keys) ==
    LET new == [NoRequest EXCEPT !.user = u, !.endpoint = e, !.keys = keys]
    IN  /\ e \notin gone
        /\ keys \in Keys \cap {browser[e], browser[e] + 1}
        /\ browser' = [browser EXCEPT ![e] = keys]
        /\ IF Owned(u, e) = {}
           THEN Send(r, [new EXCEPT !.pc = "clear"])
           ELSE \E x \in Owned(u, e) : Send(r, [new EXCEPT !.pc = "update", !.row = x])

\* delete_subscription reads the row; without one there is nothing to do.
SendDelete(r, x) ==
    /\ x \in rows
    /\ Send(r, [NoRequest EXCEPT !.pc = "remove", !.user = x.owner,
                                 !.endpoint = x.endpoint, !.row = x])
    /\ UNCHANGED browser

Step(r, from, new) ==
    /\ request[r].pc = from
    /\ request' = [request EXCEPT ![r] = new]
    /\ UNCHANGED <<browser, sent>> /\ RequestUnchanged

\* What a request is about to write: its transaction waits while another one has
\* deleted one of these.  New keys equal to those loaded are not written at all.
Wanted(r) ==
    LET me == request[r]
    IN  CASE me.pc = "update" -> IF me.row.keys = me.keys THEN {} ELSE {me.row.id}
          [] me.pc = "clearing" -> me.targets
          [] me.pc = "insert" -> IdsOf({x \in rows : x.endpoint = me.endpoint}) \ me.held
          [] me.pc = "remove" -> {me.row.id}
          [] OTHER -> {}

Free(r) == Wanted(r) \cap Locked(r) = {}

\* The UPDATE and its commit; of a row that is gone it raises StaleDataError.
Update(r) ==
    LET me  == request[r]
        old == {x \in rows : x.id \in Wanted(r)}
    IN  /\ Free(r)
        /\ Step(r, "update", IF Wanted(r) \subseteq IdsOf(old)
                             THEN [me EXCEPT !.pc = "refresh"] ELSE NoRequest)
        /\ rows' = (rows \ old) \cup {[x EXCEPT !.keys = me.keys] : x \in old}
        /\ UNCHANGED ids

\* Mutant: only rows of the user are cleared away.
ToClearOwn(r) == IdsOf(Owned(request[r].user, request[r].endpoint))

\* "Endpoint may belong to a stale subscription from another user; clear it first."
ToClear(r) == IdsOf({x \in rows : x.endpoint = request[r].endpoint})

\* The DELETE begins, and goes through when its rows are free.
BeginClear(r) ==
    /\ Step(r, "clear", [request[r] EXCEPT !.pc = "clearing", !.targets = ToClear(r)])
    /\ UNCHANGED <<rows, ids>>

Clear(r) ==
    /\ Free(r)
    /\ Step(r, "clearing", [request[r] EXCEPT !.pc = "insert", !.targets = {},
                               !.held = request[r].targets \cap IdsOf(rows)])
    /\ UNCHANGED <<rows, ids>>

\* Mutant: the endpoint has no unique index.
RefusedNever(r) == FALSE

\* The unique index refuses a second row of the endpoint.
Refused(r) == Wanted(r) # {}

\* The INSERT and the commit.
Insert(r) ==
    LET me  == request[r]
        new == [id |-> ids + 1, owner |-> me.user, endpoint |-> me.endpoint,
                keys |-> me.keys]
    IN  /\ Free(r) /\ ids < RowBound
        /\ IF Refused(r)
           THEN /\ Step(r, "insert", NoRequest)
                /\ UNCHANGED <<rows, ids>>
           ELSE /\ Step(r, "insert", [me EXCEPT !.pc = "refresh", !.held = {}, !.row = new])
                /\ ids' = ids + 1
                /\ rows' = {x \in rows : x.id \notin me.held} \cup {new}

\* db.refresh and the answer: 201, or an error when the row is gone again.
Refresh(r) ==
    /\ Step(r, "refresh", NoRequest)
    /\ UNCHANGED <<rows, ids>>

\* The DELETE of delete_subscription and its commit; no row is no error.
Remove(r) ==
    /\ Free(r)
    /\ Step(r, "remove", NoRequest)
    /\ rows' = {x \in rows : x.id # request[r].row.id}
    /\ UNCHANGED ids

\* The push service has been told, or found out.
GiveUp(e) ==
    /\ e \notin gone
    /\ gone' = gone \cup {e}
    /\ UNCHANGED <<rows, browser, request, job, pending, ids, sent, runs, crashes,
                   heard, unstamped, served>>

-----------------------------------------------------------------------------
(* The jobs.                                                               *)

JobUnchanged == UNCHANGED <<browser, gone, request, ids, sent>>

RowsOf(us) == {x \in rows : x.owner \in us}

Start(j, new) ==
    /\ job[j] = NoJob /\ runs[j] < RunBound[j]
    /\ runs' = [runs EXCEPT ![j] = @ + 1]
    /\ job' = [job EXCEPT ![j] = new]
    /\ UNCHANGED <<rows, pending, crashes, heard, unstamped, served>> /\ JobUnchanged

\* send_due_task_notifications loads the unstamped tasks and their owners' rows.
StartDue ==
    /\ pending # {}
    /\ Start("due", [NoJob EXCEPT !.pc = "running", !.todo = pending,
                                  !.copies = RowsOf(pending)])

StartNudges == Start("nudge", [NoJob EXCEPT !.pc = "running"])

\* The push service answers 404 or 410 for these.
Pruned(targets, failed) == {x \in targets : x.endpoint \in gone}

\* Mutant: one device that was reached is enough.
AllSentAny(targets, failed) == failed = {} \/ failed # targets

\* Mutant: a pruned device counts as a failure.
AllSentIfNonePruned(targets, failed) == failed = {} /\ Pruned(targets, failed) = {}

\* "returns True iff none failed (excluding prunes)"
AllSent(targets, failed) == failed = {}

\* _send_to_subscriptions about the task of u, with the copies: a device whose keys
\* have changed meanwhile cannot read the push.
DueRound(u, failed) ==
    LET targets == {x \in job["due"].copies : x.owner = u}
        reached == (targets \ failed) \ Pruned(targets, failed)
        stamp   == IF AllSent(targets, failed) THEN {u} ELSE {}
    IN  /\ u \in job["due"].todo
        /\ failed \subseteq {x \in targets : x.endpoint \notin gone}
        /\ job' = [job EXCEPT !["due"].todo = @ \ {u}, !["due"].stamps = @ \cup stamp,
                              !["due"].dirty = @ \cup IdsOf(Pruned(targets, failed))]
        /\ heard' = [p \in DOMAIN heard |->
              IF p[2] = u /\ \E x \in reached : x.endpoint = p[1] /\ x.keys = browser[p[1]]
              THEN heard[p] + 1 ELSE heard[p]]
        /\ unstamped' = IF failed = {} THEN unstamped ELSE [unstamped EXCEPT ![u] = @ + 1]
        /\ UNCHANGED <<rows, pending, runs, crashes, served>> /\ JobUnchanged

\* A flush deletes in the order of the primary keys, and waits for each row.
First(j) == CHOOSE i \in job[j].dirty : \A k \in job[j].dirty : i <= k

Flushing(j) == job[j].todo = {} /\ job[j].dirty # {}

Waits(j) == Flushing(j) /\ First(j) \in Locked(j)

FlushRow(j) ==
    /\ Flushing(j) /\ ~Waits(j)
    /\ job' = [job EXCEPT ![j].dirty = @ \ {First(j)},
                          ![j].deleted = @ \cup ({First(j)} \cap IdsOf(rows))]
    /\ UNCHANGED <<rows, pending, runs, crashes, heard, unstamped, served>> /\ JobUnchanged

\* A round of the nudge job: the query for the rows of the recipients, which flushes
\* what the round before has pruned, and the pushes.
NudgeRound(recipients) ==
    LET me      == job["nudge"]
        targets == {x \in RowsOf(recipients) : x.id \notin me.deleted}
    IN  /\ me.pc = "running" /\ me.dirty = {} /\ me.rounds < RoundBound
        /\ \E failed \in SUBSET {x \in targets : x.endpoint \notin gone} :
              job' = [job EXCEPT !["nudge"].rounds = @ + 1,
                                 !["nudge"].dirty = IdsOf(Pruned(targets, failed))]
        /\ UNCHANGED <<rows, pending, runs, crashes, heard, unstamped, served>> /\ JobUnchanged

\* await db.commit()
Commit(j) ==
    /\ job[j].pc = "running" /\ job[j].todo = {} /\ job[j].dirty = {}
    /\ job' = [job EXCEPT ![j] = NoJob]
    /\ rows' = {x \in rows : x.id \notin job[j].deleted}
    /\ pending' = pending \ job[j].stamps
    /\ served' = [u \in Owing |-> IF u \in job[j].stamps
                       THEN {x \in job[j].copies : x.owner = u} ELSE served[u]]
    /\ UNCHANGED <<runs, crashes, heard, unstamped>> /\ JobUnchanged

\* Mutant: the locks outlive the run.
AbandonKeepsLocks(j) ==
    /\ job' = [job EXCEPT ![j] = [NoJob EXCEPT !.deleted = job[j].deleted]]
    /\ unstamped' = [u \in Owing |-> IF u \in job[j].stamps
                                     THEN unstamped[u] + 1 ELSE unstamped[u]]
    /\ UNCHANGED <<rows, pending, runs, heard, served>> /\ JobUnchanged

\* The run is rolled back: the rows stay, and the stamps are lost.
Abandon(j) ==
    /\ job' = [job EXCEPT ![j] = NoJob]
    /\ unstamped' = [u \in Owing |-> IF u \in job[j].stamps
                                     THEN unstamped[u] + 1 ELSE unstamped[u]]
    /\ UNCHANGED <<rows, pending, runs, heard, served>> /\ JobUnchanged

WaitsFor(j, k) == Waits(j) /\ First(j) \in job[k].deleted

\* Each of the jobs wants a row that the other has deleted.
Circle == WaitsFor("due", "nudge") /\ WaitsFor("nudge", "due")

\* PostgreSQL notices and ends one of the two transactions.
BreakCircle(j) == Circle /\ Abandon(j) /\ UNCHANGED crashes

Crash(j) ==
    /\ job[j] # NoJob /\ crashes < CrashBound
    /\ crashes' = crashes + 1
    /\ Abandon(j)

RequestStep(r) ==
    \/ \E p \in SignIns, keys \in Keys : SendPost(r, p[1], p[2], keys)
    \/ \E x \in rows : SendDelete(r, x)
    \/ Update(r) \/ BeginClear(r) \/ Clear(r) \/ Insert(r)
    \/ Refresh(r) \/ Remove(r)

JobStep ==
    \/ StartDue \/ StartNudges
    \/ \E u \in Owing : \E failed \in SUBSET job["due"].copies : DueRound(u, failed)
    \/ \E recipients \in SUBSET Users \ {{}} : NudgeRound(recipients)
    \/ \E j \in Jobs : FlushRow(j) \/ Commit(j) \/ BreakCircle(j) \/ Crash(j)

Next ==
    \/ \E r \in Requests : RequestStep(r)
    \/ \E e \in Endpoints : GiveUp(e)
    \/ JobStep

Spec == Init /\ [][Next]_vars

-----------------------------------------------------------------------------
(* Properties.                                                             *)

\* What a POST asks for.
AsAsked(me, table) ==
    \E x \in table : x.owner = me.user /\ x.endpoint = me.endpoint /\ x.keys = me.keys

\* "Upsert a push subscription, rotating keys if the endpoint is already known"
\* (push_subscription_service.py:17): when the POST of a browser is over, and no
\* other request was about its endpoint, the browser is registered as it asked,
\* whoever owned the endpoint before and whatever the jobs delete meanwhile.
RegisteredAsAsked ==
    [][\A r \in Requests :
          LET me == request[r]
          IN  me.keys # None /\ request'[r] = NoRequest /\ ~me.contested
                /\ me.endpoint \notin gone => AsAsked(me, rows')]_vars

\* A stamped task was shown on every browser that the run which stamped it had
\* loaded and that has kept its keys, unless its push service has given it up
\* (notification_service.py:153 "returns True iff none failed (excluding prunes)").
StampedWasHeard ==
    \A u \in Owing : \A x \in served[u] :
        x.endpoint \in gone \/ x.keys # browser[x.endpoint] \/ heard[<<x.endpoint, u>>] > 0

\* A browser shows a reminder once, and once more for each round that reached it
\* but left no stamp: another device failed, or the run was rolled back, by a
\* crash or by the circle of the two jobs.
RepeatsAccounted ==
    \A e \in Endpoints, u \in Owing : heard[<<e, u>>] <= 1 + unstamped[u]

\* Nobody waits for ever: when no transaction can go on, it is the circle of the two
\* jobs, which PostgreSQL breaks.  Requests wait only while they hold no lock.
OnlyJobsCircle ==
    LET waiting == {r \in Requests : ~Free(r)}
        moving  == \/ \E r \in Requests \ waiting : request[r] # NoRequest
                   \/ \E j \in Jobs : job[j].pc = "running" /\ ~Waits(j)
    IN  waiting # {} \/ (\E j \in Jobs : Waits(j)) => moving \/ Circle
=============================================================================
