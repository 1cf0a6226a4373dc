--------------------------- MODULE TaskReminders ----------------------------
(***************************************************************************)
(* A user's tasks, the requests that edit them (task_service.py) and the   *)
(* scheduled job that pushes reminders for them                            *)
(* (send_due_task_notifications in notification_service.py).               *)
(*                                                                         *)
(* Every worker process runs the job once a minute in a transaction that   *)
(* holds an advisory lock; it loads the candidate rows, pushes for each    *)
(* (a network call per device) and writes the stamps of all of them in one *)
(* commit at the end.  A request loads the row, changes it in memory and   *)
(* commits.  Neither locks rows, and the ORM writes a column only when it  *)
(* differs from the value that was LOADED, so both write through           *)
(* WriteBack.                                                              *)
(*                                                                         *)
(* Time is counted in scheduler minutes.  The devices of a user are not    *)
(* told apart: a round of pushes succeeds (_send_to_subscriptions returns  *)
(* True) or fails.                                                         *)
(***************************************************************************)
EXTENDS Integers, FiniteSets

CONSTANTS
    Tasks,       \* task ids
    Editors,     \* concurrent PATCH requests
    Workers,     \* uvicorn worker processes, one scheduler each
    Dues,        \* the due dates a user may choose
    Leads,       \* the reminder lead times a user may choose
    None,        \* NULL
    Keep,        \* a field that is not in the PATCH body
    Horizon,     \* bound: the clock stops here
    EditBound,   \* bound: PATCH requests in a behaviour
    CrashBound   \* bound: crashes of a worker in the middle of a job

ASSUME ReminderAssumption ==
    /\ Dues \subseteq Nat /\ Leads \subseteq Nat \ {0}
    /\ None \notin Int /\ Keep \notin Int \cup {None}
    /\ Horizon \in Nat /\ EditBound \in Nat /\ CrashBound \in Nat

VARIABLES
    clock,    \* the current minute
    life,     \* [Tasks -> "new", "live" or "deleted"]
    row,      \* [Tasks -> the columns of the row]
    editor,   \* [Editors -> progress of the request]
    worker,   \* [Workers -> progress of the job]
    edits,    \* history: PATCH requests so far
    crashes,  \* history: crashes so far
    losses,   \* history: job runs whose stamps were lost
    pushes,   \* history: successful rounds of each <<task, kind>>
    resets,   \* history: committed edits that reset the stamp of each <<task, kind>>
    raced,    \* history: tasks edited while a job held their row
    clashed   \* history: tasks with two PATCH requests at once

vars == <<clock, life, row, editor, worker, edits, crashes, losses, pushes,
          resets, raced, clashed>>

Statuses == {"todo", "in_progress", "done"}
Kinds    == {"due", "lead"}
Times    == Int \cup {None}

\* completed stands for completed_at being set.
Row == [status : Statuses, due : Dues \cup {None}, lead : Leads \cup {None},
        notified : Times, reminded : Times, completed : BOOLEAN]

BlankRow == [status |-> "todo", due |-> None, lead |-> None,
             notified |-> None, reminded |-> None, completed |-> FALSE]

\* A PATCH body (exclude_unset: only the fields that were sent count).
Patch == [status : Statuses \cup {Keep}, due : Dues \cup {None, Keep},
          lead : Leads \cup {None, Keep}]

NoEdit == [pc |-> "idle"]
NoJob  == [pc |-> "idle"]

Edit == {NoEdit} \cup [pc : {"loaded"}, task : Tasks, old : Row, patch : Patch]

\* A run that has loaded its candidates (found) keeps its copies of them (old), the
\* ones it has not come to (unsent) and the stamps it has made in memory.
Sending(found) ==
    [pc : {"sending"}, now : Nat, old : [found -> Row],
     unsent : SUBSET found, stamps : SUBSET (found \X Kinds)]

IsJob(j) ==
    \/ j = NoJob
    \/ j \in [pc : {"locked"}, now : Nat]
    \/ \E found \in SUBSET Tasks : j \in Sending(found)

TypeOK ==
    /\ clock \in 0 .. Horizon
    /\ life \in [Tasks -> {"new", "live", "deleted"}]
    /\ row \in [Tasks -> Row]
    /\ editor \in [Editors -> Edit]
    /\ DOMAIN worker = Workers /\ \A w \in Workers : IsJob(worker[w])
    /\ edits \in 0 .. EditBound /\ crashes \in 0 .. CrashBound /\ losses \in Nat
    /\ pushes \in [Tasks \X Kinds -> Nat] /\ resets \in [Tasks \X Kinds -> Nat]
    /\ raced \subseteq Tasks /\ clashed \subseteq Tasks

Init ==
    /\ clock = 0
    /\ life = [t \in Tasks |-> "new"]
    /\ row = [t \in Tasks |-> BlankRow]
    /\ editor = [e \in Editors |-> NoEdit]
    /\ worker = [w \in Workers |-> NoJob]
    /\ edits = 0 /\ crashes = 0 /\ losses = 0
    /\ pushes = [p \in Tasks \X Kinds |-> 0]
    /\ resets = [p \in Tasks \X Kinds |-> 0]
    /\ raced = {} /\ clashed = {}

Tick ==
    /\ clock < Horizon
    /\ clock' = clock + 1
    /\ UNCHANGED <<life, row, editor, worker, edits, crashes, losses, pushes,
                   resets, raced, clashed>>

\* What a flush leaves in the row: only the columns that changed in memory since
\* they were loaded are written.
WriteBack(current, old, new) ==
    [c \in DOMAIN current |-> IF new[c] = old[c] THEN current[c] ELSE new[c]]

-----------------------------------------------------------------------------
(* Requests: create_task, update_task, delete_task.                        *)

Create(t) ==
    /\ life[t] = "new"
    /\ life' = [life EXCEPT ![t] = "live"]
    /\ \E due \in Dues \cup {None}, lead \in Leads \cup {None} :
          row' = [row EXCEPT ![t] = [BlankRow EXCEPT !.due = due, !.lead = lead]]
    /\ UNCHANGED <<clock, editor, worker, edits, crashes, losses, pushes,
                   resets, raced, clashed>>

Editing(t, e) == editor[e].pc = "loaded" /\ editor[e].task = t

Holding(t, w) == worker[w].pc = "sending" /\ t \in DOMAIN worker[w].old

\* task = await _get_owned_task(...)
LoadForUpdate(e, t, patch) ==
    /\ editor[e] = NoEdit
    /\ life[t] = "live"
    /\ edits < EditBound
    /\ edits' = edits + 1
    /\ editor' = [editor EXCEPT ![e] = [pc |-> "loaded", task |-> t,
                                        old |-> row[t], patch |-> patch]]
    /\ raced' = IF \E w \in Workers : Holding(t, w) THEN raced \cup {t} ELSE raced
    /\ clashed' = IF \E f \in Editors : Editing(t, f) THEN clashed \cup {t} ELSE clashed
    /\ UNCHANGED <<clock, life, row, worker, crashes, losses, pushes, resets>>

Changes(old, patch, field) == patch[field] \notin {Keep, old[field]}

\* Mutant: a new due date does not bring the reminder back.
ResetsOwnFieldOnly(old, patch, kind) == Changes(old, patch, kind)

\* A new due date resets both stamps, a new lead time only the reminder's.
Resets(old, patch, kind) ==
    Changes(old, patch, "due") \/ (kind = "lead" /\ Changes(old, patch, "lead"))

\* Mutant: model_dump() without exclude_unset, absent fields become NULL.
PatchedWithUnset(old, patch) ==
    LET value(f) == IF patch[f] = Keep THEN None ELSE patch[f]
    IN  [old EXCEPT !.status = value("status"), !.due = value("due"),
                    !.lead = value("lead")]

\* Mutant: completed_at is set on the way to DONE and never cleared.
PatchedCompletedForGood(old, patch) ==
    [old EXCEPT !.status = IF patch.status = Keep THEN @ ELSE patch.status,
                !.completed = @ \/ patch.status = "done"]

\* The row in memory after update_task's assignments; completion follows a
\* change of status.
Patched(old, patch) ==
    [status    |-> IF patch.status = Keep THEN old.status ELSE patch.status,
     due       |-> IF patch.due = Keep THEN old.due ELSE patch.due,
     lead      |-> IF patch.lead = Keep THEN old.lead ELSE patch.lead,
     notified  |-> IF Resets(old, patch, "due") THEN None ELSE old.notified,
     reminded  |-> IF Resets(old, patch, "lead") THEN None ELSE old.reminded,
     completed |-> IF Changes(old, patch, "status")
                   THEN patch.status = "done" ELSE old.completed]

\* await db.commit(): the UPDATE of a deleted row raises StaleDataError and the
\* request fails.
CommitUpdate(e) ==
    LET t   == editor[e].task
        old == editor[e].old
        new == Patched(old, editor[e].patch)
    IN  /\ editor[e].pc = "loaded"
        /\ editor' = [editor EXCEPT ![e] = NoEdit]
        /\ IF life[t] = "live"
           THEN /\ row' = [row EXCEPT ![t] = WriteBack(@, old, new)]
                /\ resets' = [p \in Tasks \X Kinds |->
                       IF p[1] = t /\ Resets(old, editor[e].patch, p[2])
                       THEN resets[p] + 1 ELSE resets[p]]
           ELSE UNCHANGED <<row, resets>>
        /\ UNCHANGED <<clock, life, worker, edits, crashes, losses, pushes, raced, clashed>>

\* The load of delete_task decides nothing but the 404: one step.
Delete(t) ==
    /\ life[t] = "live"
    /\ life' = [life EXCEPT ![t] = "deleted"]
    /\ UNCHANGED <<clock, row, editor, worker, edits, crashes, losses, pushes,
                   resets, raced, clashed>>

-----------------------------------------------------------------------------
(* The job: send_due_task_notifications of one worker.                     *)

JobUnchanged == UNCHANGED <<clock, life, editor, edits, resets, clashed>>

\* Mutant: the job runs without the advisory lock.
StartUnlocked(w) ==
    /\ worker[w] = NoJob
    /\ worker' = [worker EXCEPT ![w] = [pc |-> "locked", now |-> clock]]
    /\ JobUnchanged /\ UNCHANGED <<row, crashes, losses, pushes, raced>>

\* pg_try_advisory_xact_lock: without the lock the job returns at once.
TryLock(w) ==
    /\ worker[w] = NoJob
    /\ \A v \in Workers : worker[v] = NoJob
    /\ worker' = [worker EXCEPT ![w] = [pc |-> "locked", now |-> clock]]
    /\ JobUnchanged /\ UNCHANGED <<row, crashes, losses, pushes, raced>>

\* The two reasons to push for a row at a time.
Fires(r, kind, now) ==
    /\ r.due # None
    /\ \/ kind = "due" /\ r.notified = None /\ r.due <= now
       \/ /\ kind = "lead" /\ r.reminded = None
          /\ r.lead # None
          /\ r.due - r.lead <= now

Candidates(now) ==
    {t \in Tasks : /\ life[t] = "live" /\ row[t].status # "done"
                   /\ \E kind \in Kinds : Fires(row[t], kind, now)}

\* The SELECT of the candidate rows; from here to the commit the job works with
\* these copies.
LoadCandidates(w) ==
    LET found == Candidates(worker[w].now)
    IN  /\ worker[w].pc = "locked"
        /\ worker' = [worker EXCEPT ![w] =
                         [pc |-> "sending", now |-> worker[w].now,
                          old |-> [t \in found |-> row[t]],
                          unsent |-> found, stamps |-> {}]]
        /\ raced' = raced \cup {t \in found : \E e \in Editors : Editing(t, e)}
        /\ JobUnchanged /\ UNCHANGED <<row, crashes, losses, pushes>>

Fired(w, t) == {kind \in Kinds : Fires(worker[w].old[t], kind, worker[w].now)}

\* The rounds for one task: each succeeds, and is stamped, or fails.  What the
\* loop does with a task is all on its own copies, so the rounds are one step.
SendTask(w, t, delivered) ==
    /\ worker[w].pc = "sending" /\ t \in worker[w].unsent
    /\ delivered \subseteq Fired(w, t)
    /\ worker' = [worker EXCEPT ![w].unsent = @ \ {t},
                                ![w].stamps = @ \cup ({t} \X delivered)]
    /\ pushes' = [p \in Tasks \X Kinds |->
                     IF p \in {t} \X delivered THEN pushes[p] + 1 ELSE pushes[p]]
    /\ JobUnchanged /\ UNCHANGED <<row, crashes, losses, raced>>

\* The copy of a row after the loop.
Stamped(w, t) ==
    [worker[w].old[t] EXCEPT
        !.notified = IF <<t, "due">> \in worker[w].stamps THEN worker[w].now ELSE @,
        !.reminded = IF <<t, "lead">> \in worker[w].stamps THEN worker[w].now ELSE @]

StampedTasks(w) == {s[1] : s \in worker[w].stamps}

\* await db.commit(): every stamp of the run in one transaction.  A row that was
\* deleted meanwhile is skipped when its UPDATE is batched with others.
CommitJob(w) ==
    /\ worker[w].pc = "sending" /\ worker[w].unsent = {}
    /\ LET missing == {t \in StampedTasks(w) : life[t] # "live"}
       IN  missing # {} => Cardinality(StampedTasks(w)) > 1
    /\ row' = [t \in Tasks |->
                 IF t \in StampedTasks(w) /\ life[t] = "live"
                 THEN WriteBack(row[t], worker[w].old[t], Stamped(w, t)) ELSE row[t]]
    /\ worker' = [worker EXCEPT ![w] = NoJob]
    /\ JobUnchanged /\ UNCHANGED <<crashes, losses, pushes, raced>>

\* Mutant: a session-level lock on a pooled connection outlives a failed run.
LoseKeepsLock(w) ==
    /\ losses' = losses + 1
    /\ worker' = [worker EXCEPT ![w] = [pc |-> "dead"]]
    /\ JobUnchanged /\ UNCHANGED <<row, pushes, raced>>

\* A run ends without its stamps: rolled back, and the lock released.
Lose(w) ==
    /\ losses' = losses + 1
    /\ worker' = [worker EXCEPT ![w] = NoJob]
    /\ JobUnchanged /\ UNCHANGED <<row, pushes, raced>>

\* The UPDATE of a deleted row raises StaleDataError: the transaction, and with it
\* the stamps of every task of the run, is rolled back.
StaleCommit(w) ==
    /\ worker[w].pc = "sending" /\ worker[w].unsent = {}
    /\ \E t \in StampedTasks(w) : life[t] # "live"
    /\ Lose(w)
    /\ UNCHANGED crashes

\* The process dies; PostgreSQL ends its session, its transaction and its lock.
Crash(w) ==
    /\ worker[w] # NoJob
    /\ crashes < CrashBound
    /\ crashes' = crashes + 1
    /\ Lose(w)

JobStep(w) ==
    \/ TryLock(w) \/ LoadCandidates(w) \/ CommitJob(w) \/ StaleCommit(w)
    \/ \E t \in Tasks : \E delivered \in SUBSET Kinds : SendTask(w, t, delivered)

RequestStep ==
    \/ \E t \in Tasks : Create(t) \/ Delete(t)
    \/ \E e \in Editors, t \in Tasks, patch \in Patch : LoadForUpdate(e, t, patch)
    \/ \E e \in Editors : CommitUpdate(e)

Next ==
    \/ Tick
    \/ RequestStep
    \/ \E w \in Workers : JobStep(w) \/ Crash(w)

Spec == Init /\ [][Next]_vars

(***************************************************************************)
(* Every scheduler keeps starting the job and every process drives its job *)
(* on (weak fairness); a push service that is tried again and again        *)
(* accepts all of a task's rounds at some point (strong fairness).  The    *)
(* clock advances.  Nobody has to edit anything.                           *)
(***************************************************************************)
FairSpec ==
    /\ Spec
    /\ WF_vars(Tick)
    /\ \A w \in Workers : WF_vars(JobStep(w))
    /\ \A t \in Tasks :
          SF_vars(\E w \in Workers : SendTask(w, t, Fired(w, t)))

-----------------------------------------------------------------------------
(* Properties.                                                             *)

\* A stamp says that the reminder for the CURRENT schedule went out: it is not
\* older than the moment that schedule asks for.  A stamp from before is never
\* looked at again and silences the task (notification_service.py:33 "Push a
\* notification for each task that's now due or within its reminder lead time").
StampFits(r) ==
    /\ r.notified # None => r.due # None /\ r.due <= r.notified
    /\ r.reminded # None => /\ r.due # None /\ r.lead # None
                            /\ r.due - r.lead <= r.reminded

StampsMatchSchedule == \A t \in Tasks : StampFits(row[t])

\* The same, for every task no edit of which overlapped a job run that held it.
StampsMatchUnlessRaced == \A t \in Tasks \ raced : StampFits(row[t])

\* completed_at is "Set when status transitions to DONE, cleared when it
\* transitions away" (models/task.py:34), the day streaks are counted by.
CompletionFits(r) == r.completed <=> r.status = "done"

\* It fits, for every task that never had two PATCH requests at once.
CompletionMatchesUnlessClashed == \A t \in Tasks \ clashed : CompletionFits(row[t])

\* Pushes have reasons: beyond the first of each kind, every successful round for a
\* task was asked for by an edit of its schedule or repeats one whose stamp was
\* lost.  The lock (notification_service.py:38) and the stamps together see to it.
PushesAccounted ==
    \A p \in Tasks \X Kinds : pushes[p] <= 1 + resets[p] + losses

\* A task that is due and unfinished is notified in the end, although workers
\* crash, rounds fail, edits reset stamps and other tasks are deleted under the job.
Overdue(t) ==
    /\ life[t] = "live" /\ row[t].status # "done"
    /\ row[t].due # None /\ row[t].due <= clock
    /\ row[t].notified = None

EventuallyNotified ==
    \A t \in Tasks : <>[](~Overdue(t))
=============================================================================
