------------------------- MODULE TaskReminderProofs -------------------------
(***************************************************************************)
(* For every set of tasks, requests and workers, all due dates and lead    *)
(* times and every bound: the copies that a job run and the requests work  *)
(* on stay in step with the rows unless they overlap, and overlaps are on  *)
(* record.  From that follow the three safety properties of TaskReminders. *)
(***************************************************************************)
EXTENDS TaskReminders, TLAPS

USE DEF Kinds

\* What WriteBack leaves in each column, and that it is a row.
LEMMA WriteBackRow ==
    ASSUME NEW current \in Row, NEW old \in Row, NEW new \in Row
    PROVE  LET written == WriteBack(current, old, new)
           IN  /\ written \in Row
               /\ written.status = IF new.status = old.status THEN current.status ELSE new.status
               /\ written.due = IF new.due = old.due THEN current.due ELSE new.due
               /\ written.lead = IF new.lead = old.lead THEN current.lead ELSE new.lead
               /\ written.notified = IF new.notified = old.notified THEN current.notified ELSE new.notified
               /\ written.reminded = IF new.reminded = old.reminded THEN current.reminded ELSE new.reminded
               /\ written.completed = IF new.completed = old.completed THEN current.completed ELSE new.completed
<1>1. DOMAIN current = {"status", "due", "lead", "notified", "reminded", "completed"}
  BY DEF Row
<1> QED BY <1>1 DEF WriteBack, Row

\* What update_task leaves in memory.
LEMMA PatchedRow ==
    ASSUME NEW old \in Row, NEW patch \in Patch
    PROVE  Patched(old, patch) \in Row
BY ReminderAssumption DEF Row, Patch, Patched, Times, Changes, Statuses

\* A stamping run changes the two stamps of its copy of a row and nothing else.
LEMMA StampedRow ==
    ASSUME NEW w \in Workers, NEW t, worker[w].old[t] \in Row, worker[w].now \in Nat
    PROVE  LET old == worker[w].old[t]
               new == Stamped(w, t)
           IN  /\ new \in Row
               /\ new.status = old.status /\ new.completed = old.completed
               /\ new.due = old.due /\ new.lead = old.lead
               /\ new.notified = IF <<t, "due">> \in worker[w].stamps
                                 THEN worker[w].now ELSE old.notified
               /\ new.reminded = IF <<t, "lead">> \in worker[w].stamps
                                 THEN worker[w].now ELSE old.reminded
<1> DEFINE old == worker[w].old[t]
           n == IF <<t, "due">> \in worker[w].stamps THEN worker[w].now ELSE old.notified
           r == IF <<t, "lead">> \in worker[w].stamps THEN worker[w].now ELSE old.reminded
<1>1. n \in Times /\ r \in Times
  BY DEF Row, Times
<1>2. Stamped(w, t) = [[old EXCEPT !.notified = n] EXCEPT !.reminded = r]
  BY DEF Stamped, Row
<1> HIDE DEF n, r
<1>3. [[old EXCEPT !.notified = n] EXCEPT !.reminded = r] \in Row
  BY <1>1 DEF Row
<1> QED BY <1>2, <1>3 DEF Row, n, r
-----------------------------------------------------------------------------
(* Types.                                                                  *)

LEMMA LoadedEdit ==
    ASSUME TypeOK, NEW e \in Editors, editor[e].pc = "loaded"
    PROVE  editor[e].task \in Tasks /\ editor[e].old \in Row /\ editor[e].patch \in Patch
BY DEF TypeOK, Edit, NoEdit

LEMMA SendingJob ==
    ASSUME TypeOK, NEW w \in Workers, worker[w].pc = "sending"
    PROVE  /\ DOMAIN worker[w].old \subseteq Tasks
           /\ worker[w] \in Sending(DOMAIN worker[w].old)
<1>1. PICK found \in SUBSET Tasks : worker[w] \in Sending(found)
  BY DEF TypeOK, IsJob, NoJob
<1>2. found = DOMAIN worker[w].old
  BY <1>1 DEF Sending
<1> QED BY <1>1, <1>2

\* The fields of a run that has loaded its candidates.
LEMMA SendingFields ==
    ASSUME TypeOK, NEW w \in Workers, worker[w].pc = "sending"
    PROVE  /\ worker[w].now \in Nat
           /\ \A t \in DOMAIN worker[w].old : worker[w].old[t] \in Row
           /\ worker[w].unsent \subseteq DOMAIN worker[w].old
           /\ worker[w].stamps \subseteq (DOMAIN worker[w].old) \X Kinds
           /\ StampedTasks(w) \subseteq DOMAIN worker[w].old
           /\ DOMAIN worker[w].old \subseteq Tasks
BY SendingJob DEF Sending, StampedTasks

LEMMA InitType == Init => TypeOK
BY ReminderAssumption
   DEF Init, TypeOK, BlankRow, Row, Statuses, Times, Edit, IsJob

LEMMA JobStepType ==
    ASSUME TypeOK, NEW w \in Workers, JobStep(w) \/ Crash(w)
    PROVE  TypeOK'
<1>1. CASE TryLock(w)
  BY <1>1 DEF TryLock, JobUnchanged, TypeOK, IsJob
<1>2. CASE LoadCandidates(w)
  <2> DEFINE found == Candidates(worker[w].now)
             job == [pc |-> "sending", now |-> worker[w].now,
                     old |-> [t \in found |-> row[t]], unsent |-> found, stamps |-> {}]
  <2>1. found \in SUBSET Tasks
    BY DEF Candidates
  <2>2. worker[w].now \in Nat
    BY <1>2 DEF LoadCandidates, TypeOK, IsJob, NoJob, Sending
  <2>3. job \in Sending(found)
    BY <2>1, <2>2 DEF Sending, TypeOK
  <2>4. worker' = [worker EXCEPT ![w] = job]
    BY <1>2 DEF LoadCandidates
  <2>5. raced' \subseteq Tasks
    BY <1>2, <2>1 DEF LoadCandidates, TypeOK
  <2> HIDE DEF found, job
  <2>6. UNCHANGED <<clock, life, row, editor, edits, crashes, losses, pushes, resets, clashed>>
    BY <1>2 DEF LoadCandidates, JobUnchanged
  <2> QED BY <2>1, <2>3, <2>4, <2>5, <2>6 DEF TypeOK, IsJob
<1>3. CASE CommitJob(w)
  <2>1. row' \in [Tasks -> Row]
    <3> SUFFICES ASSUME NEW t \in Tasks, t \in StampedTasks(w)
                 PROVE  WriteBack(row[t], worker[w].old[t], Stamped(w, t)) \in Row
      BY <1>3 DEF CommitJob, TypeOK
    <3> QED BY <1>3, SendingFields, StampedRow, WriteBackRow DEF CommitJob, TypeOK
  <2> QED BY <1>3, <2>1 DEF CommitJob, JobUnchanged, TypeOK, IsJob
<1>4. CASE StaleCommit(w)
  BY <1>4 DEF StaleCommit, Lose, JobUnchanged, TypeOK, IsJob
<1>5. CASE Crash(w)
  <2>1. crashes' \in 0 .. CrashBound
    BY <1>5, ReminderAssumption DEF Crash, TypeOK
  <2> QED BY <1>5, <2>1 DEF Crash, Lose, JobUnchanged, TypeOK, IsJob
<1>6. CASE \E t \in Tasks : \E delivered \in SUBSET Kinds : SendTask(w, t, delivered)
  <2>1. PICK t \in Tasks, delivered \in SUBSET Kinds : SendTask(w, t, delivered)
    BY <1>6
  <2> DEFINE found == DOMAIN worker[w].old
  <2>2. worker[w] \in Sending(found) /\ found \in SUBSET Tasks
    BY <2>1, SendingJob DEF SendTask
  <2>3. t \in found
    BY <2>1, <2>2 DEF SendTask, Sending
  <2> HIDE DEF found
  <2>4. [[worker[w] EXCEPT !.unsent = @ \ {t}] EXCEPT !.stamps = @ \cup ({t} \X delivered)]
           \in Sending(found)
    BY <2>2, <2>3 DEF Sending
  <2>5. worker' = [worker EXCEPT ![w] = [[worker[w] EXCEPT !.unsent = @ \ {t}]
                                         EXCEPT !.stamps = @ \cup ({t} \X delivered)]]
    BY <2>1, <2>2 DEF SendTask, TypeOK, Sending
  <2>6. pushes' \in [Tasks \X Kinds -> Nat]
    BY <2>1 DEF SendTask, TypeOK
  <2>7. UNCHANGED <<clock, life, row, editor, edits, crashes, losses, raced, resets, clashed>>
    BY <2>1 DEF SendTask, JobUnchanged
  <2> QED BY <2>2, <2>4, <2>5, <2>6, <2>7 DEF TypeOK, IsJob
<1> QED BY <1>1, <1>2, <1>3, <1>4, <1>5, <1>6 DEF JobStep

LEMMA RequestStepType ==
    ASSUME TypeOK, RequestStep
    PROVE  TypeOK'
<1>1. ASSUME NEW t \in Tasks, Create(t) PROVE TypeOK'
  <2>1. PICK due \in Dues \cup {None}, lead \in Leads \cup {None} :
            row' = [row EXCEPT ![t] = [BlankRow EXCEPT !.due = due, !.lead = lead]]
    BY <1>1 DEF Create
  <2>2. [BlankRow EXCEPT !.due = due, !.lead = lead] \in Row
    BY DEF BlankRow, Row, Statuses, Times
  <2> QED BY <1>1, <2>1, <2>2 DEF Create, TypeOK
<1>2. ASSUME NEW t \in Tasks, Delete(t) PROVE TypeOK'
  BY <1>2 DEF Delete, TypeOK
<1>3. ASSUME NEW e \in Editors, NEW t \in Tasks, NEW patch \in Patch,
             LoadForUpdate(e, t, patch)
      PROVE  TypeOK'
  <2>1. [pc |-> "loaded", task |-> t, old |-> row[t], patch |-> patch] \in Edit
    BY DEF Edit, TypeOK
  <2>2. edits' \in 0 .. EditBound
    BY <1>3, ReminderAssumption DEF LoadForUpdate, TypeOK
  <2>3. raced' \subseteq Tasks /\ clashed' \subseteq Tasks
    BY <1>3 DEF LoadForUpdate, TypeOK
  <2> QED BY <1>3, <2>1, <2>2, <2>3 DEF LoadForUpdate, TypeOK
<1>4. ASSUME NEW e \in Editors, CommitUpdate(e) PROVE TypeOK'
  <2>1. editor[e].pc = "loaded"
    BY <1>4 DEF CommitUpdate
  <2>2. WriteBack(row[editor[e].task], editor[e].old,
                  Patched(editor[e].old, editor[e].patch)) \in Row
    BY <2>1, LoadedEdit, PatchedRow, WriteBackRow DEF TypeOK
  <2>3. row' \in [Tasks -> Row]
    BY <1>4, <2>2 DEF CommitUpdate, TypeOK
  <2>4. resets' \in [Tasks \X Kinds -> Nat]
    BY <1>4 DEF CommitUpdate, TypeOK
  <2> QED BY <1>4, <2>3, <2>4 DEF CommitUpdate, TypeOK, Edit
<1> QED BY <1>1, <1>2, <1>3, <1>4 DEF RequestStep

LEMMA TypeStep == TypeOK /\ [Next]_vars => TypeOK'
<1> SUFFICES ASSUME TypeOK, [Next]_vars PROVE TypeOK'
  OBVIOUS
<1>1. CASE Tick
  BY <1>1, ReminderAssumption DEF Tick, TypeOK
<1>2. CASE UNCHANGED vars
  BY <1>2 DEF vars, TypeOK
<1> QED BY <1>1, <1>2, JobStepType, RequestStepType DEF Next

\* Whatever is edited, pushed, lost or deleted, the variables keep their types.
THEOREM TypeOKTheorem == Spec => []TypeOK
BY InitType, TypeStep, PTL DEF Spec
-----------------------------------------------------------------------------
(* The inductive invariant.                                                *)

\* The lock: at most one worker is in the job.
OneJob == \A v, w \in Workers : worker[v] # NoJob /\ worker[w] # NoJob => v = w

\* Rows are written, held and edited only after they were created.
KnownRows ==
    /\ \A t \in Tasks : life[t] = "new" => row[t] = BlankRow
    /\ \A t \in Tasks, w \in Workers : Holding(t, w) => life[t] # "new"
    /\ \A t \in Tasks, e \in Editors : Editing(t, e) => life[t] # "new"

\* Overlaps of a run with an edit and of two edits are on record.
OverlapsRecorded ==
    \A t \in Tasks, e \in Editors :
        Editing(t, e) => /\ \A w \in Workers : Holding(t, w) => t \in raced
                         /\ \A f \in Editors : Editing(t, f) /\ f # e => t \in clashed

\* Without an overlap the copies agree with the row.
CopiesCurrent ==
    /\ \A t \in Tasks \ raced, w \in Workers : Holding(t, w) => row[t] = worker[w].old[t]
    /\ \A t \in Tasks \ raced, e \in Editors :
          Editing(t, e) => /\ row[t].notified \in {None, editor[e].old.notified}
                           /\ row[t].reminded \in {None, editor[e].old.reminded}
    /\ \A t \in Tasks \ clashed, e \in Editors :
          Editing(t, e) => /\ row[t].status = editor[e].old.status
                           /\ row[t].completed = editor[e].old.completed

Stamp(r, kind) == IF kind = "due" THEN r.notified ELSE r.reminded

\* A stamp in memory is for a reminder that was due, and that no other transaction
\* has stamped; a row waiting for its rounds has no stamp in memory yet.
StampsJustified ==
    \A w \in Workers, t \in Tasks, k \in Kinds :
        /\ worker[w].pc = "sending" /\ <<t, k>> \in worker[w].stamps
              => /\ Fires(worker[w].old[t], k, worker[w].now)
                 /\ t \notin worker[w].unsent
        /\ Holding(t, w) /\ Stamp(worker[w].old[t], k) = None => Stamp(row[t], k) = None

Pending(t, k) ==
    \E w \in Workers : worker[w].pc = "sending" /\ <<t, k>> \in worker[w].stamps

\* Every successful round is in the row, in the memory of a run, forgotten for a
\* reason, or the last one of a task that was deleted while a run held it.
RoundsOnRecord ==
    \A t \in Tasks, k \in Kinds :
        \/ /\ pushes[<<t, k>>] <= resets[<<t, k>>] + losses
                               + (IF Stamp(row[t], k) # None THEN 1 ELSE 0)
                               + (IF Pending(t, k) THEN 1 ELSE 0)
        \/ /\ life[t] = "deleted" /\ \A w \in Workers : ~Holding(t, w)
           /\ pushes[<<t, k>>] <= resets[<<t, k>>] + losses + 1

IInv ==
    /\ TypeOK
    /\ OneJob
    /\ KnownRows
    /\ OverlapsRecorded
    /\ CopiesCurrent
    /\ StampsJustified
    /\ RoundsOnRecord
    /\ StampsMatchUnlessRaced
    /\ CompletionMatchesUnlessClashed

LEMMA InitIInv == Init => IInv
<1> SUFFICES ASSUME Init PROVE IInv
  OBVIOUS
<1>1. TypeOK
  BY InitType
<1>2. /\ \A t \in Tasks, w \in Workers : ~Holding(t, w)
      /\ \A t \in Tasks, e \in Editors : ~Editing(t, e)
      /\ \A t \in Tasks, k \in Kinds : ~Pending(t, k)
      /\ \A t \in Tasks : row[t] = BlankRow
  BY DEF Init, Holding, Editing, Pending, NoJob, NoEdit
<1>3. OneJob /\ StampsJustified
  BY <1>2 DEF Init, OneJob, StampsJustified, NoJob
<1>4. KnownRows /\ OverlapsRecorded /\ CopiesCurrent
  BY <1>2 DEF KnownRows, OverlapsRecorded, CopiesCurrent
<1>5. RoundsOnRecord
  BY <1>2 DEF Init, RoundsOnRecord, Stamp, BlankRow
<1>6. StampsMatchUnlessRaced /\ CompletionMatchesUnlessClashed
  BY <1>2 DEF StampsMatchUnlessRaced, StampFits, CompletionMatchesUnlessClashed,
              CompletionFits, BlankRow
<1> QED BY <1>1, <1>3, <1>4, <1>5, <1>6 DEF IInv

\* While a worker is in the job the others are out of it.
LEMMA OthersIdle ==
    ASSUME IInv, NEW w \in Workers, worker[w] # NoJob
    PROVE  \A v \in Workers \ {w} : /\ worker[v] = NoJob
                                    /\ worker[v].pc = "idle"
                                    /\ \A t : ~Holding(t, v)
BY DEF IInv, OneJob, NoJob, Holding

LEMMA TryLockStep ==
    ASSUME IInv, TypeOK', NEW w \in Workers, TryLock(w)
    PROVE  IInv'
<1>1. /\ \A v \in Workers : worker[v].pc = "idle" /\ worker[v] = NoJob
      /\ worker' = [worker EXCEPT ![w] = [pc |-> "locked", now |-> clock]]
      /\ UNCHANGED <<clock, life, row, editor, edits, crashes, losses, pushes, resets,
                     raced, clashed>>
  BY DEF TryLock, JobUnchanged, NoJob
<1>2. \A v \in Workers : worker'[v].pc # "sending" /\ (v # w => worker'[v] = NoJob)
  BY <1>1 DEF IInv, TypeOK
<1>3. /\ \A t \in Tasks, v \in Workers : ~Holding(t, v) /\ ~Holding(t, v)'
      /\ \A t, k : ~Pending(t, k) /\ ~Pending(t, k)'
      /\ \A t, e : Editing(t, e)' = Editing(t, e)
  BY <1>1, <1>2 DEF Holding, Pending, Editing
<1>4. OneJob' /\ StampsJustified'
  BY <1>2, <1>3 DEF OneJob, Holding, Editing, StampsJustified
<1>5. KnownRows' /\ OverlapsRecorded' /\ CopiesCurrent'
  BY <1>1, <1>3 DEF IInv, KnownRows, Holding, Editing, OverlapsRecorded, CopiesCurrent
<1>6. RoundsOnRecord'
  BY <1>1, <1>3 DEF IInv, RoundsOnRecord, Holding, Pending
<1>7. StampsMatchUnlessRaced' /\ CompletionMatchesUnlessClashed'
  BY <1>1 DEF IInv, StampsMatchUnlessRaced, CompletionMatchesUnlessClashed
<1> QED BY <1>4, <1>5, <1>6, <1>7 DEF IInv

LEMMA LoadCandidatesStep ==
    ASSUME IInv, TypeOK', NEW w \in Workers, LoadCandidates(w)
    PROVE  IInv'
<1> DEFINE found == Candidates(worker[w].now)
           job == [pc |-> "sending", now |-> worker[w].now,
                   old |-> [t \in found |-> row[t]], unsent |-> found, stamps |-> {}]
<1>1. /\ worker[w].pc = "locked" /\ worker[w] # NoJob
      /\ worker' = [worker EXCEPT ![w] = job]
      /\ raced' = raced \cup {t \in found : \E e \in Editors : Editing(t, e)}
      /\ UNCHANGED <<clock, life, row, editor, edits, crashes, losses, pushes, resets, clashed>>
  BY DEF LoadCandidates, JobUnchanged, NoJob
<1>2. \A t \in found : t \in Tasks /\ life[t] = "live"
  BY DEF Candidates
<1>3. job.pc = "sending" /\ job.stamps = {} /\ DOMAIN job.old = found
      /\ \A t \in found : job.old[t] = row[t]
  OBVIOUS
<1> HIDE DEF found, job
<1>4. worker'[w] = job /\ \A v \in Workers \ {w} : worker'[v] = NoJob /\ worker'[v].pc = "idle"
  BY <1>1, OthersIdle DEF IInv, TypeOK
<1>5. /\ \A t \in Tasks, v \in Workers : ~Holding(t, v)
      /\ \A t \in Tasks, v \in Workers : Holding(t, v)' <=> v = w /\ t \in found
      /\ \A t, k : ~Pending(t, k) /\ ~Pending(t, k)'
      /\ \A t, e : Editing(t, e)' = Editing(t, e)
  BY <1>1, <1>3, <1>4, OthersIdle DEF Holding, Pending, Editing
<1>6. OneJob'
  BY <1>4 DEF OneJob, Holding, Editing
<1>7. KnownRows'
  BY <1>1, <1>2, <1>5 DEF IInv, KnownRows, Holding, Editing
<1>8. OverlapsRecorded'
  BY <1>1, <1>5 DEF IInv, OverlapsRecorded, Holding, Editing
<1>9. CopiesCurrent'
  BY <1>1, <1>3, <1>4, <1>5 DEF IInv, CopiesCurrent, Holding, Editing
<1>10. StampsJustified'
  BY <1>1, <1>3, <1>4, <1>5 DEF StampsJustified, Holding, Editing
<1>11. RoundsOnRecord'
  BY <1>1, <1>2, <1>5 DEF IInv, RoundsOnRecord, Holding, Pending
<1>12. StampsMatchUnlessRaced' /\ CompletionMatchesUnlessClashed'
  BY <1>1 DEF IInv, StampsMatchUnlessRaced, CompletionMatchesUnlessClashed
<1> QED BY <1>6, <1>7, <1>8, <1>9, <1>10, <1>11, <1>12 DEF IInv

LEMMA SendTaskStep ==
    ASSUME IInv, TypeOK', NEW w \in Workers, NEW t \in Tasks,
           NEW delivered \in SUBSET Kinds, SendTask(w, t, delivered)
    PROVE  IInv'
<1>1. worker[w].pc = "sending" /\ t \in worker[w].unsent /\ delivered \subseteq Fired(w, t)
  BY DEF SendTask
<1>2. UNCHANGED <<clock, life, row, editor, edits, crashes, losses, resets, raced, clashed>>
  BY DEF SendTask, JobUnchanged
<1>3. worker[w] \in Sending(DOMAIN worker[w].old) /\ worker[w] # NoJob
  BY <1>1, SendingJob DEF IInv, NoJob
<1>4. /\ worker'[w].pc = "sending" /\ worker'[w].now = worker[w].now
      /\ worker'[w].old = worker[w].old
      /\ worker'[w].unsent = worker[w].unsent \ {t}
      /\ worker'[w].stamps = worker[w].stamps \cup ({t} \X delivered)
      /\ \A v \in Workers \ {w} : worker'[v] = worker[v]
  BY <1>3 DEF SendTask, IInv, TypeOK, Sending
<1>5. \A v \in Workers \ {w} : worker[v] = NoJob /\ worker[v].pc = "idle"
  BY <1>3, OthersIdle
<1>6. /\ \A u \in Tasks, v \in Workers : Holding(u, v)' <=> Holding(u, v)
      /\ \A u \in Tasks, e \in Editors : Editing(u, e)' <=> Editing(u, e)
  BY <1>1, <1>2, <1>4 DEF Holding, Editing
<1>7. \A v \in Workers : Holding(t, v) \/ v # w
  BY <1>1, SendingFields DEF IInv, Holding
<1>8. \A u \in Tasks, k \in Kinds :
         <<u, k>> \in worker'[w].stamps <=>
            <<u, k>> \in worker[w].stamps \/ (u = t /\ k \in delivered)
  BY <1>4
<1>9. OneJob'
  BY <1>4, <1>5 DEF OneJob
<1>10. KnownRows'
  BY <1>2, <1>6 DEF IInv, KnownRows
<1>11. OverlapsRecorded'
  BY <1>2, <1>6 DEF IInv, OverlapsRecorded
<1>12. CopiesCurrent'
  <2>1. \A u \in Tasks, v \in Workers : worker'[v].old = worker[v].old
    BY <1>4
  <2> QED BY <1>2, <1>6, <2>1 DEF IInv, CopiesCurrent
<1>13. StampsJustified'
  <2> SUFFICES ASSUME NEW v \in Workers, NEW u \in Tasks, NEW k \in Kinds
               PROVE  /\ worker'[v].pc = "sending" /\ <<u, k>> \in worker'[v].stamps
                            => /\ Fires(worker'[v].old[u], k, worker'[v].now)
                               /\ u \notin worker'[v].unsent
                      /\ Holding(u, v)' /\ Stamp(worker'[v].old[u], k) = None
                            => Stamp(row[u], k) = None
    BY <1>2 DEF StampsJustified
  <2>1. CASE v # w
    BY <2>1, <1>4, <1>5, <1>6 DEF Holding
  <2>2. CASE v = w
    <3>1. Holding(u, w)' /\ Stamp(worker'[w].old[u], k) = None => Stamp(row[u], k) = None
      <4>1. Holding(u, w) /\ Stamp(worker[w].old[u], k) = None => Stamp(row[u], k) = None
        BY DEF IInv, StampsJustified
      <4>2. worker'[w].old = worker[w].old
        BY <1>4
      <4>3. Holding(u, w)' <=> Holding(u, w)
        BY <1>6
      <4> QED BY <4>1, <4>2, <4>3
    <3>2. <<u, k>> \in worker[w].stamps
             => Fires(worker[w].old[u], k, worker[w].now) /\ u \notin worker[w].unsent
      BY <1>1 DEF IInv, StampsJustified
    <3>3. u = t /\ k \in delivered => Fires(worker[w].old[u], k, worker[w].now)
      BY <1>1 DEF Fired
    <3> QED BY <2>2, <3>1, <3>2, <3>3, <1>4, <1>8
  <2> QED BY <2>1, <2>2
<1>14. RoundsOnRecord'
  <2> SUFFICES ASSUME NEW u \in Tasks, NEW k \in Kinds
               PROVE  \/ pushes'[<<u, k>>] <= resets[<<u, k>>] + losses
                             + (IF Stamp(row[u], k) # None THEN 1 ELSE 0)
                             + (IF Pending(u, k)' THEN 1 ELSE 0)
                      \/ /\ life[u] = "deleted" /\ \A v \in Workers : ~Holding(u, v)'
                         /\ pushes'[<<u, k>>] <= resets[<<u, k>>] + losses + 1
    BY <1>2 DEF RoundsOnRecord, Stamp
  <2>1. Pending(u, k)' <=> <<u, k>> \in worker[w].stamps \/ (u = t /\ k \in delivered)
    BY <1>4, <1>5, <1>8 DEF Pending
  <2>2. Pending(u, k) <=> <<u, k>> \in worker[w].stamps
    BY <1>1, <1>5 DEF Pending
  <2>3. /\ pushes[<<u, k>>] \in Nat /\ resets[<<u, k>>] \in Nat /\ losses \in Nat
        /\ pushes'[<<u, k>>] = IF u = t /\ k \in delivered
                               THEN pushes[<<u, k>>] + 1 ELSE pushes[<<u, k>>]
    BY DEF SendTask, IInv, TypeOK
  <2>4. u = t => Holding(t, w) /\ <<u, k>> \notin worker[w].stamps
    BY <1>1, <1>7 DEF IInv, StampsJustified
  <2>5. \/ pushes[<<u, k>>] <= resets[<<u, k>>] + losses
               + (IF Stamp(row[u], k) # None THEN 1 ELSE 0)
               + (IF Pending(u, k) THEN 1 ELSE 0)
        \/ /\ life[u] = "deleted" /\ \A v \in Workers : ~Holding(u, v)
           /\ pushes[<<u, k>>] <= resets[<<u, k>>] + losses + 1
    BY DEF IInv, RoundsOnRecord
  <2>6. CASE u = t /\ k \in delivered
    BY <2>1, <2>2, <2>3, <2>4, <2>5, <2>6
  <2>7. CASE ~(u = t /\ k \in delivered)
    BY <2>1, <2>2, <2>3, <2>5, <2>7, <1>6
  <2> QED BY <2>6, <2>7
<1>15. StampsMatchUnlessRaced' /\ CompletionMatchesUnlessClashed'
  BY <1>2 DEF IInv, StampsMatchUnlessRaced, CompletionMatchesUnlessClashed
<1> QED BY <1>9, <1>10, <1>11, <1>12, <1>13, <1>14, <1>15 DEF IInv

\* A run that ends lets go of everything it held.
LEMMA JobEnds ==
    ASSUME IInv, NEW w \in Workers, worker[w] # NoJob,
           worker' = [worker EXCEPT ![w] = NoJob], UNCHANGED editor
    PROVE  /\ OneJob'
           /\ \A v \in Workers : worker'[v] = NoJob /\ worker'[v].pc = "idle"
           /\ \A t \in Tasks, v \in Workers : ~Holding(t, v)'
           /\ \A t \in Tasks, k \in Kinds : ~Pending(t, k)'
           /\ StampsJustified'
<1>1. \A v \in Workers : worker'[v] = NoJob /\ worker'[v].pc = "idle"
  BY OthersIdle DEF IInv, TypeOK, NoJob
<1> QED BY <1>1 DEF OneJob, Holding, Pending, StampsJustified

LEMMA LoseStep ==
    ASSUME IInv, TypeOK', NEW w \in Workers, worker[w] # NoJob, Lose(w)
    PROVE  IInv'
<1>1. /\ worker' = [worker EXCEPT ![w] = NoJob] /\ losses' = losses + 1
      /\ UNCHANGED <<clock, life, row, editor, edits, pushes, resets, raced, clashed>>
  BY DEF Lose, JobUnchanged
<1>2. \A u \in Tasks, e \in Editors : Editing(u, e)' <=> Editing(u, e)
  BY <1>1 DEF Editing
<1>3. /\ OneJob' /\ StampsJustified'
      /\ \A t \in Tasks, v \in Workers : ~Holding(t, v)'
      /\ \A t \in Tasks, k \in Kinds : ~Pending(t, k)'
  BY <1>1, JobEnds
<1>4. KnownRows' /\ OverlapsRecorded'
  BY <1>1, <1>2, <1>3 DEF IInv, KnownRows, OverlapsRecorded
<1>5. CopiesCurrent'
  BY <1>1, <1>2, <1>3 DEF IInv, CopiesCurrent
<1>6. RoundsOnRecord'
  <2> SUFFICES ASSUME NEW u \in Tasks, NEW k \in Kinds
               PROVE  \/ pushes[<<u, k>>] <= resets[<<u, k>>] + losses'
                             + (IF Stamp(row[u], k) # None THEN 1 ELSE 0)
                             + (IF Pending(u, k)' THEN 1 ELSE 0)
                      \/ /\ life[u] = "deleted" /\ \A v \in Workers : ~Holding(u, v)'
                         /\ pushes[<<u, k>>] <= resets[<<u, k>>] + losses' + 1
    BY <1>1 DEF RoundsOnRecord
  <2>1. pushes[<<u, k>>] \in Nat /\ resets[<<u, k>>] \in Nat /\ losses \in Nat
    BY DEF IInv, TypeOK
  <2>2. \/ pushes[<<u, k>>] <= resets[<<u, k>>] + losses
               + (IF Stamp(row[u], k) # None THEN 1 ELSE 0)
               + (IF Pending(u, k) THEN 1 ELSE 0)
        \/ /\ life[u] = "deleted"
           /\ pushes[<<u, k>>] <= resets[<<u, k>>] + losses + 1
    BY DEF IInv, RoundsOnRecord
  <2> QED BY <1>1, <1>3, <2>1, <2>2
<1>7. StampsMatchUnlessRaced' /\ CompletionMatchesUnlessClashed'
  BY <1>1 DEF IInv, StampsMatchUnlessRaced, CompletionMatchesUnlessClashed
<1> QED BY <1>3, <1>4, <1>5, <1>6, <1>7 DEF IInv

LEMMA CommitJobStep ==
    ASSUME IInv, TypeOK', NEW w \in Workers, CommitJob(w)
    PROVE  IInv'
<1> DEFINE written(t) == t \in StampedTasks(w) /\ life[t] = "live"
<1>1. worker[w].pc = "sending" /\ worker[w] # NoJob
  BY DEF CommitJob, NoJob
<1>2. /\ worker' = [worker EXCEPT ![w] = NoJob]
      /\ UNCHANGED <<clock, life, editor, edits, crashes, losses, pushes, resets, raced, clashed>>
  BY DEF CommitJob, JobUnchanged
<1>3. /\ OneJob' /\ StampsJustified'
      /\ \A t \in Tasks, v \in Workers : ~Holding(t, v)'
      /\ \A t \in Tasks, k \in Kinds : ~Pending(t, k)'
  BY <1>1, <1>2, JobEnds
<1>4. \A u \in Tasks, e \in Editors : Editing(u, e)' <=> Editing(u, e)
  BY <1>2 DEF Editing
<1>5. \A t \in Tasks : ~written(t) => row'[t] = row[t]
  BY DEF CommitJob
<1>6. ASSUME NEW t \in Tasks, written(t)
      PROVE  /\ Holding(t, w)
             /\ row'[t].status = row[t].status /\ row'[t].completed = row[t].completed
             /\ row'[t].due = row[t].due /\ row'[t].lead = row[t].lead
             /\ row'[t].notified = IF Stamped(w, t).notified = worker[w].old[t].notified
                                   THEN row[t].notified ELSE Stamped(w, t).notified
             /\ row'[t].reminded = IF Stamped(w, t).reminded = worker[w].old[t].reminded
                                   THEN row[t].reminded ELSE Stamped(w, t).reminded
             /\ Stamped(w, t).notified = IF <<t, "due">> \in worker[w].stamps
                                 THEN worker[w].now ELSE worker[w].old[t].notified
             /\ Stamped(w, t).reminded = IF <<t, "lead">> \in worker[w].stamps
                                 THEN worker[w].now ELSE worker[w].old[t].reminded
  <2>1. /\ Holding(t, w) /\ worker[w].old[t] \in Row /\ worker[w].now \in Nat
        /\ row[t] \in Row
    BY <1>1, <1>6, SendingFields DEF IInv, TypeOK, Holding
  <2>2. row'[t] = WriteBack(row[t], worker[w].old[t], Stamped(w, t))
    BY <1>6 DEF CommitJob
  <2> QED BY <2>1, <2>2, StampedRow, WriteBackRow
<1>7. ASSUME NEW t \in Tasks, NEW k \in Kinds, written(t), <<t, k>> \in worker[w].stamps
      PROVE  /\ Fires(worker[w].old[t], k, worker[w].now)
             /\ Stamp(row[t], k) = None /\ Stamp(row'[t], k) = worker[w].now
  <2>1. Fires(worker[w].old[t], k, worker[w].now)
    BY <1>1, <1>7 DEF IInv, StampsJustified
  <2>2. Stamp(worker[w].old[t], k) = None /\ Stamp(row[t], k) = None
    BY <1>6, <1>7, <2>1 DEF IInv, StampsJustified, Fires, Stamp
  <2>3. worker[w].now \in Nat /\ worker[w].now # None
    BY <1>1, SendingFields, ReminderAssumption DEF IInv
  <2>4. Stamp(row'[t], k) = worker[w].now
    BY <1>6, <1>7, <2>2, <2>3 DEF Stamp
  <2> QED BY <2>1, <2>2, <2>4
<1>8. ASSUME NEW t \in Tasks, NEW k \in Kinds, <<t, k>> \notin worker[w].stamps
      PROVE  Stamp(row'[t], k) = Stamp(row[t], k)
  <2>1. CASE written(t)
    BY <1>6, <1>8, <2>1 DEF Stamp
  <2> QED BY <2>1, <1>5
<1>9. ASSUME NEW t \in Tasks
      PROVE  /\ row'[t].status = row[t].status /\ row'[t].completed = row[t].completed
             /\ row'[t].due = row[t].due /\ row'[t].lead = row[t].lead
  <2>1. CASE written(t)
    BY <1>6, <2>1
  <2> QED BY <2>1, <1>5
<1>10. KnownRows'
  BY <1>2, <1>3, <1>4, <1>5 DEF IInv, KnownRows
<1>11. OverlapsRecorded'
  BY <1>2, <1>3, <1>4 DEF IInv, OverlapsRecorded
<1>12. CopiesCurrent'
  <2>1. \A t \in Tasks \ raced, e \in Editors : Editing(t, e) => row'[t] = row[t]
    BY <1>5, <1>6 DEF IInv, OverlapsRecorded
  <2> QED BY <1>2, <1>3, <1>4, <1>9, <2>1 DEF IInv, CopiesCurrent
<1>13. RoundsOnRecord'
  <2> SUFFICES ASSUME NEW u \in Tasks, NEW k \in Kinds
               PROVE  \/ pushes[<<u, k>>] <= resets[<<u, k>>] + losses
                             + (IF Stamp(row'[u], k) # None THEN 1 ELSE 0)
                             + (IF Pending(u, k)' THEN 1 ELSE 0)
                      \/ /\ life[u] = "deleted" /\ \A v \in Workers : ~Holding(u, v)'
                         /\ pushes[<<u, k>>] <= resets[<<u, k>>] + losses + 1
    BY <1>2 DEF RoundsOnRecord
  <2>1. pushes[<<u, k>>] \in Nat /\ resets[<<u, k>>] \in Nat /\ losses \in Nat
    BY DEF IInv, TypeOK
  <2>2. \/ pushes[<<u, k>>] <= resets[<<u, k>>] + losses
               + (IF Stamp(row[u], k) # None THEN 1 ELSE 0)
               + (IF Pending(u, k) THEN 1 ELSE 0)
        \/ /\ life[u] = "deleted"
           /\ pushes[<<u, k>>] <= resets[<<u, k>>] + losses + 1
    BY DEF IInv, RoundsOnRecord
  <2>3. Pending(u, k) <=> <<u, k>> \in worker[w].stamps
    BY <1>1, OthersIdle DEF Pending
  <2>4. CASE <<u, k>> \notin worker[w].stamps
    BY <1>3, <1>8, <2>1, <2>2, <2>3, <2>4
  <2>5. CASE <<u, k>> \in worker[w].stamps /\ life[u] = "live"
    <3>1. written(u)
      BY <2>5 DEF StampedTasks
    <3>2. worker[w].now \in Nat /\ worker[w].now # None
      BY <1>1, SendingFields, ReminderAssumption DEF IInv
    <3>3. Stamp(row[u], k) = None /\ Stamp(row'[u], k) # None
      BY <1>7, <2>5, <3>1, <3>2
    <3> QED BY <1>3, <2>1, <2>2, <2>5, <3>3
  <2>6. CASE <<u, k>> \in worker[w].stamps /\ life[u] # "live"
    <3>1. Holding(u, w)
      BY <1>1, <2>6, SendingFields DEF IInv, Holding
    <3>2. Stamp(row[u], k) = None /\ life[u] = "deleted"
      BY <1>1, <2>6, <3>1 DEF IInv, StampsJustified, KnownRows, TypeOK, Fires, Stamp
    <3> QED BY <1>3, <2>1, <2>2, <3>2
  <2> QED BY <2>4, <2>5, <2>6
<1>14. StampsMatchUnlessRaced'
  <2> SUFFICES ASSUME NEW t \in Tasks \ raced PROVE StampFits(row'[t])
    BY <1>2 DEF StampsMatchUnlessRaced
  <2>1. StampFits(row[t])
    BY DEF IInv, StampsMatchUnlessRaced
  <2>2. CASE ~written(t)
    BY <1>5, <2>1, <2>2
  <2>3. CASE written(t)
    <3>1. row[t] = worker[w].old[t]
      BY <1>6, <2>3 DEF IInv, CopiesCurrent
    <3>2. row'[t].notified # None => row'[t].due # None /\ row'[t].due <= row'[t].notified
      BY <1>7, <1>8, <1>9, <2>1, <2>3, <3>1 DEF Stamp, Fires, StampFits
    <3>3. row'[t].reminded # None => /\ row'[t].due # None /\ row'[t].lead # None
                                     /\ row'[t].due - row'[t].lead <= row'[t].reminded
      BY <1>7, <1>8, <1>9, <2>1, <2>3, <3>1 DEF Stamp, Fires, StampFits
    <3> QED BY <3>2, <3>3 DEF StampFits
  <2> QED BY <2>2, <2>3
<1>15. CompletionMatchesUnlessClashed'
  BY <1>2, <1>9 DEF IInv, CompletionMatchesUnlessClashed, CompletionFits
<1> QED BY <1>3, <1>10, <1>11, <1>12, <1>13, <1>14, <1>15 DEF IInv

\* A step that leaves the job and the editors alone leaves all overlaps alone.
LEMMA SameOverlaps ==
    ASSUME UNCHANGED <<worker, editor>>
    PROVE  /\ \A t \in Tasks, w \in Workers : Holding(t, w)' <=> Holding(t, w)
           /\ \A t \in Tasks, e \in Editors : Editing(t, e)' <=> Editing(t, e)
           /\ \A t \in Tasks, k \in Kinds : Pending(t, k)' <=> Pending(t, k)
BY DEF Holding, Editing, Pending

LEMMA CreateStep ==
    ASSUME IInv, TypeOK', NEW t \in Tasks, Create(t)
    PROVE  IInv'
<1>1. /\ life[t] = "new" /\ life' = [life EXCEPT ![t] = "live"]
      /\ UNCHANGED <<clock, editor, worker, edits, crashes, losses, pushes, resets,
                     raced, clashed>>
  BY DEF Create
<1>2. PICK due \in Dues \cup {None}, lead \in Leads \cup {None} :
          row' = [row EXCEPT ![t] = [BlankRow EXCEPT !.due = due, !.lead = lead]]
  BY DEF Create
<1>3. /\ \A u \in Tasks \ {t} : row'[u] = row[u] /\ life'[u] = life[u]
      /\ row[t] = BlankRow /\ life'[t] = "live"
      /\ row'[t].status = "todo" /\ row'[t].completed = FALSE
      /\ row'[t].notified = None /\ row'[t].reminded = None
  BY <1>1, <1>2 DEF IInv, TypeOK, KnownRows, BlankRow
<1>4. /\ \A w \in Workers : ~Holding(t, w)
      /\ \A e \in Editors : ~Editing(t, e)
  BY <1>1 DEF IInv, KnownRows
<1>5. /\ \A u \in Tasks, w \in Workers : Holding(u, w)' <=> Holding(u, w)
      /\ \A u \in Tasks, e \in Editors : Editing(u, e)' <=> Editing(u, e)
      /\ \A u \in Tasks, k \in Kinds : Pending(u, k)' <=> Pending(u, k)
  BY <1>1, SameOverlaps
<1>6. \A u \in Tasks, k \in Kinds : Stamp(row'[u], k) = Stamp(row[u], k)
  BY <1>3 DEF Stamp, BlankRow
<1>7. OneJob'
  BY <1>1 DEF IInv, OneJob
<1>8. KnownRows'
  BY <1>3, <1>4, <1>5 DEF IInv, KnownRows
<1>9. OverlapsRecorded'
  BY <1>1, <1>5 DEF IInv, OverlapsRecorded
<1>10. CopiesCurrent'
  BY <1>1, <1>3, <1>4, <1>5 DEF IInv, CopiesCurrent
<1>11. StampsJustified'
  BY <1>1, <1>5, <1>6 DEF IInv, StampsJustified
<1>12. RoundsOnRecord'
  <2>1. \A u \in Tasks : life[u] = "deleted" => life'[u] = "deleted"
    BY <1>1, <1>3
  <2> QED BY <1>1, <1>5, <1>6, <2>1 DEF IInv, RoundsOnRecord
<1>13. StampsMatchUnlessRaced'
  <2>1. StampFits(row'[t])
    BY <1>3 DEF StampFits
  <2> QED BY <1>1, <1>3, <2>1 DEF IInv, StampsMatchUnlessRaced
<1>14. CompletionMatchesUnlessClashed'
  <2>1. CompletionFits(row'[t])
    BY <1>3 DEF CompletionFits
  <2> QED BY <1>1, <1>3, <2>1 DEF IInv, CompletionMatchesUnlessClashed
<1> QED BY <1>7, <1>8, <1>9, <1>10, <1>11, <1>12, <1>13, <1>14 DEF IInv

LEMMA DeleteStep ==
    ASSUME IInv, TypeOK', NEW t \in Tasks, Delete(t)
    PROVE  IInv'
<1>1. /\ life[t] = "live" /\ life' = [life EXCEPT ![t] = "deleted"]
      /\ UNCHANGED <<clock, row, editor, worker, edits, crashes, losses, pushes, resets,
                     raced, clashed>>
  BY DEF Delete
<1>2. /\ \A u \in Tasks : life[u] # "new" <=> life'[u] # "new"
      /\ \A u \in Tasks : life[u] = "deleted" => life'[u] = "deleted"
  BY <1>1 DEF IInv, TypeOK
<1>3. /\ \A u \in Tasks, w \in Workers : Holding(u, w)' <=> Holding(u, w)
      /\ \A u \in Tasks, e \in Editors : Editing(u, e)' <=> Editing(u, e)
      /\ \A u \in Tasks, k \in Kinds : Pending(u, k)' <=> Pending(u, k)
  BY <1>1, SameOverlaps
<1>4. OneJob' /\ OverlapsRecorded' /\ CopiesCurrent'
  BY <1>1, <1>3 DEF IInv, OneJob, OverlapsRecorded, CopiesCurrent
<1>5. KnownRows'
  BY <1>1, <1>2, <1>3 DEF IInv, KnownRows
<1>6. StampsJustified'
  BY <1>1, <1>3 DEF IInv, StampsJustified
<1>7. RoundsOnRecord'
  BY <1>1, <1>2, <1>3 DEF IInv, RoundsOnRecord
<1>8. StampsMatchUnlessRaced' /\ CompletionMatchesUnlessClashed'
  BY <1>1 DEF IInv, StampsMatchUnlessRaced, CompletionMatchesUnlessClashed
<1> QED BY <1>4, <1>5, <1>6, <1>7, <1>8 DEF IInv

LEMMA LoadForUpdateStep ==
    ASSUME IInv, TypeOK', NEW e \in Editors, NEW t \in Tasks, NEW patch \in Patch,
           LoadForUpdate(e, t, patch)
    PROVE  IInv'
<1>1. /\ editor[e] = NoEdit /\ life[t] = "live"
      /\ editor' = [editor EXCEPT ![e] = [pc |-> "loaded", task |-> t,
                                          old |-> row[t], patch |-> patch]]
      /\ UNCHANGED <<clock, life, row, worker, crashes, losses, pushes, resets>>
  BY DEF LoadForUpdate
<1>2. /\ raced \subseteq raced' /\ \A w \in Workers : Holding(t, w) => t \in raced'
      /\ clashed \subseteq clashed' /\ \A f \in Editors : Editing(t, f) => t \in clashed'
  BY DEF LoadForUpdate
<1>3. /\ editor'[e].old = row[t]
      /\ \A f \in Editors \ {e} : editor'[f] = editor[f]
      /\ \A u \in Tasks, f \in Editors :
            Editing(u, f)' <=> Editing(u, f) \/ (u = t /\ f = e)
  BY <1>1 DEF IInv, TypeOK, Editing, NoEdit
<1>4. /\ \A u \in Tasks, w \in Workers : Holding(u, w)' <=> Holding(u, w)
      /\ \A u \in Tasks, k \in Kinds : Pending(u, k)' <=> Pending(u, k)
  BY <1>1 DEF Holding, Pending
<1>5. \A u \in Tasks : ~Editing(u, e)
  BY <1>1 DEF Editing, NoEdit
<1>6. OneJob' /\ StampsJustified'
  BY <1>1, <1>4 DEF IInv, OneJob, StampsJustified
<1>7. KnownRows'
  BY <1>1, <1>3, <1>4 DEF IInv, KnownRows
<1>8. OverlapsRecorded'
  BY <1>2, <1>3, <1>4, <1>5 DEF IInv, OverlapsRecorded
<1>9. CopiesCurrent'
  BY <1>1, <1>2, <1>3, <1>4, <1>5 DEF IInv, CopiesCurrent
<1>10. RoundsOnRecord'
  BY <1>1, <1>4 DEF IInv, RoundsOnRecord
<1>11. StampsMatchUnlessRaced' /\ CompletionMatchesUnlessClashed'
  BY <1>1, <1>2 DEF IInv, StampsMatchUnlessRaced, CompletionMatchesUnlessClashed
<1> QED BY <1>6, <1>7, <1>8, <1>9, <1>10, <1>11 DEF IInv

\* What the commit of an edit does to its row: each stamp is kept or reset, a reset is
\* counted, and a new due date or lead time resets what depends on it.
LEMMA CommittedRow ==
    ASSUME IInv, NEW e \in Editors, CommitUpdate(e)
    PROVE  LET t     == editor[e].task
               old   == editor[e].old
               patch == editor[e].patch
           IN  /\ t \in Tasks /\ Editing(t, e)
               /\ \A u \in Tasks \ {t} :
                     /\ row'[u] = row[u]
                     /\ \A k \in Kinds : resets'[<<u, k>>] = resets[<<u, k>>]
               /\ \/ /\ row' = row /\ resets' = resets
                  \/ /\ life[t] = "live"
                     /\ \A k \in Kinds :
                           IF Resets(old, patch, k)
                           THEN /\ resets'[<<t, k>>] = resets[<<t, k>>] + 1
                                /\ Stamp(row'[t], k) =
                                      IF Stamp(old, k) = None THEN Stamp(row[t], k) ELSE None
                           ELSE /\ resets'[<<t, k>>] = resets[<<t, k>>]
                                /\ Stamp(row'[t], k) = Stamp(row[t], k)
                     /\ ~Changes(old, patch, "due") => row'[t].due = row[t].due
                     /\ ~Changes(old, patch, "lead") => row'[t].lead = row[t].lead
                     /\ ~Changes(old, patch, "status") =>
                           row'[t].status = row[t].status /\ row'[t].completed = row[t].completed
                     /\ Changes(old, patch, "status") =>
                           /\ row'[t].status = patch.status
                           /\ row'[t].completed = IF (patch.status = "done") = old.completed
                                                  THEN row[t].completed ELSE patch.status = "done"
<1> DEFINE t     == editor[e].task
           old   == editor[e].old
           patch == editor[e].patch
           new   == Patched(old, patch)
<1>1. editor[e].pc = "loaded"
  BY DEF CommitUpdate
<1>2. t \in Tasks /\ old \in Row /\ patch \in Patch /\ new \in Row /\ row[t] \in Row
  BY <1>1, LoadedEdit, PatchedRow DEF IInv, TypeOK
<1>3. Editing(t, e)
  BY <1>1 DEF Editing
<1>4. \A u \in Tasks \ {t} : /\ row'[u] = row[u]
                             /\ \A k \in Kinds : resets'[<<u, k>>] = resets[<<u, k>>]
  BY DEF CommitUpdate, IInv, TypeOK
<1>5. CASE life[t] # "live"
  <2>1. row' = row /\ resets' = resets
    BY <1>5 DEF CommitUpdate
  <2> QED BY <1>2, <1>3, <1>4, <2>1
<1>6. CASE life[t] = "live"
  <2>1. row'[t] = WriteBack(row[t], old, new)
    BY <1>2, <1>6 DEF CommitUpdate, IInv, TypeOK
  <2>2. \A k \in Kinds : resets'[<<t, k>>] = IF Resets(old, patch, k)
                                             THEN resets[<<t, k>>] + 1 ELSE resets[<<t, k>>]
    BY <1>2, <1>6 DEF CommitUpdate
  <2>3. /\ row'[t].status = IF new.status = old.status THEN row[t].status ELSE new.status
        /\ row'[t].due = IF new.due = old.due THEN row[t].due ELSE new.due
        /\ row'[t].lead = IF new.lead = old.lead THEN row[t].lead ELSE new.lead
        /\ row'[t].notified = IF new.notified = old.notified
                              THEN row[t].notified ELSE new.notified
        /\ row'[t].reminded = IF new.reminded = old.reminded
                              THEN row[t].reminded ELSE new.reminded
        /\ row'[t].completed = IF new.completed = old.completed
                               THEN row[t].completed ELSE new.completed
    BY <1>2, <2>1, WriteBackRow
  <2>4. /\ new.notified = IF Resets(old, patch, "due") THEN None ELSE old.notified
        /\ new.reminded = IF Resets(old, patch, "lead") THEN None ELSE old.reminded
    BY DEF Patched
  <2>5. \A k \in Kinds : Stamp(row'[t], k) =
           IF Resets(old, patch, k) /\ Stamp(old, k) # None THEN None ELSE Stamp(row[t], k)
    BY <2>3, <2>4 DEF Stamp
  <2>6. /\ ~Changes(old, patch, "due") => new.due = old.due
        /\ ~Changes(old, patch, "lead") => new.lead = old.lead
    BY DEF Patched, Changes
  <2>7. IF Changes(old, patch, "status")
        THEN /\ new.status = patch.status /\ new.status # old.status
             /\ new.completed = (patch.status = "done")
        ELSE new.status = old.status /\ new.completed = old.completed
    BY DEF Patched, Changes
  <2>8. \A k \in Kinds :
           IF Resets(old, patch, k)
           THEN /\ resets'[<<t, k>>] = resets[<<t, k>>] + 1
                /\ Stamp(row'[t], k) =
                      IF Stamp(old, k) = None THEN Stamp(row[t], k) ELSE None
           ELSE /\ resets'[<<t, k>>] = resets[<<t, k>>]
                /\ Stamp(row'[t], k) = Stamp(row[t], k)
    BY <2>2, <2>5
  <2>9. /\ ~Changes(old, patch, "due") => row'[t].due = row[t].due
        /\ ~Changes(old, patch, "lead") => row'[t].lead = row[t].lead
    BY <2>3, <2>6
  <2>10. /\ ~Changes(old, patch, "status") =>
               row'[t].status = row[t].status /\ row'[t].completed = row[t].completed
         /\ Changes(old, patch, "status") =>
               /\ row'[t].status = patch.status
               /\ row'[t].completed = IF (patch.status = "done") = old.completed
                                      THEN row[t].completed ELSE patch.status = "done"
    BY <2>3, <2>7
  <2> HIDE DEF t, old, patch
  <2> QED BY <1>2, <1>3, <1>4, <1>6, <2>8, <2>9, <2>10 DEF t, old, patch
<1> QED BY <1>5, <1>6

LEMMA CommitUpdateStep ==
    ASSUME IInv, TypeOK', NEW e \in Editors, CommitUpdate(e)
    PROVE  IInv'
<1> DEFINE t     == editor[e].task
           old   == editor[e].old
           patch == editor[e].patch
           kept  == row' = row /\ resets' = resets
<1>1. /\ editor' = [editor EXCEPT ![e] = NoEdit]
      /\ UNCHANGED <<clock, life, worker, edits, crashes, losses, pushes, raced, clashed>>
  BY DEF CommitUpdate
<1>2. /\ t \in Tasks /\ Editing(t, e)
      /\ \A u \in Tasks \ {t} : /\ row'[u] = row[u]
                                /\ \A k \in Kinds : resets'[<<u, k>>] = resets[<<u, k>>]
  BY CommittedRow
<1>3. ~kept => life[t] = "live"
  BY CommittedRow
<1>4. \A k \in Kinds :
         \/ /\ Stamp(row'[t], k) = Stamp(row[t], k)
            /\ resets'[<<t, k>>] \in {resets[<<t, k>>], resets[<<t, k>>] + 1}
         \/ Stamp(row'[t], k) = None /\ resets'[<<t, k>>] = resets[<<t, k>>] + 1
  BY CommittedRow
<1>5. /\ \A u \in Tasks, w \in Workers : Holding(u, w)' <=> Holding(u, w)
      /\ \A u \in Tasks, k \in Kinds : Pending(u, k)' <=> Pending(u, k)
      /\ \A u \in Tasks, f \in Editors :
            Editing(u, f)' => Editing(u, f) /\ f # e /\ editor'[f] = editor[f]
  BY <1>1 DEF Holding, Pending, Editing, NoEdit, IInv, TypeOK
<1>6. OneJob'
  BY <1>1 DEF IInv, OneJob
<1>7. KnownRows'
  <2>1. \A u \in Tasks : life[u] = "new" => row'[u] = row[u]
    BY <1>2, <1>3
  <2> QED BY <1>1, <1>5, <2>1 DEF IInv, KnownRows
<1>8. OverlapsRecorded'
  BY <1>1, <1>5 DEF IInv, OverlapsRecorded
<1>9. CopiesCurrent'
  <2>1. \A w \in Workers : Holding(t, w) => t \in raced
    BY <1>2 DEF IInv, OverlapsRecorded
  <2>2. \A f \in Editors : Editing(t, f) /\ f # e => t \in clashed
    BY <1>2 DEF IInv, OverlapsRecorded
  <2>3. \A u \in Tasks, k \in Kinds : Stamp(row'[u], k) \in {None, Stamp(row[u], k)}
    BY <1>2, <1>4
  <2>4. \A u \in Tasks : /\ row'[u].notified \in {None, row[u].notified}
                         /\ row'[u].reminded \in {None, row[u].reminded}
    BY <2>3 DEF Stamp
  <2>5. \A u \in Tasks \ raced, w \in Workers : Holding(u, w)' => row'[u] = worker'[w].old[u]
    BY <1>1, <1>2, <1>5, <2>1 DEF IInv, CopiesCurrent
  <2>6. \A u \in Tasks \ raced, f \in Editors :
           Editing(u, f)' => /\ row'[u].notified \in {None, editor'[f].old.notified}
                             /\ row'[u].reminded \in {None, editor'[f].old.reminded}
    BY <1>5, <2>4 DEF IInv, CopiesCurrent
  <2>7. \A u \in Tasks \ clashed, f \in Editors :
           Editing(u, f)' => /\ row'[u].status = editor'[f].old.status
                             /\ row'[u].completed = editor'[f].old.completed
    <3> SUFFICES ASSUME NEW u \in Tasks \ clashed, NEW f \in Editors, Editing(u, f)'
                 PROVE  /\ row'[u].status = editor'[f].old.status
                        /\ row'[u].completed = editor'[f].old.completed
      OBVIOUS
    <3>1. Editing(u, f) /\ f # e /\ editor'[f] = editor[f]
      BY <1>5
    <3>2. u # t
      BY <2>2, <3>1
    <3>3. row'[u] = row[u]
      BY <1>2, <3>2
    <3>4. row[u].status = editor[f].old.status /\ row[u].completed = editor[f].old.completed
      BY <3>1 DEF IInv, CopiesCurrent
    <3> QED BY <3>1, <3>3, <3>4
  <2> QED BY <1>1, <2>5, <2>6, <2>7 DEF CopiesCurrent
<1>10. StampsJustified'
  <2>1. \A u \in Tasks, k \in Kinds : Stamp(row[u], k) = None => Stamp(row'[u], k) = None
    BY <1>2, <1>4
  <2> QED BY <1>1, <1>5, <2>1 DEF IInv, StampsJustified
<1>11. RoundsOnRecord'
  <2> SUFFICES ASSUME NEW u \in Tasks, NEW k \in Kinds
               PROVE  \/ pushes[<<u, k>>] <= resets'[<<u, k>>] + losses
                             + (IF Stamp(row'[u], k) # None THEN 1 ELSE 0)
                             + (IF Pending(u, k)' THEN 1 ELSE 0)
                      \/ /\ life[u] = "deleted" /\ \A w \in Workers : ~Holding(u, w)'
                         /\ pushes[<<u, k>>] <= resets'[<<u, k>>] + losses + 1
    BY <1>1 DEF RoundsOnRecord
  <2>1. pushes[<<u, k>>] \in Nat /\ resets[<<u, k>>] \in Nat /\ losses \in Nat
    BY DEF IInv, TypeOK
  <2>2. \/ pushes[<<u, k>>] <= resets[<<u, k>>] + losses
               + (IF Stamp(row[u], k) # None THEN 1 ELSE 0)
               + (IF Pending(u, k) THEN 1 ELSE 0)
        \/ /\ life[u] = "deleted" /\ \A w \in Workers : ~Holding(u, w)
           /\ pushes[<<u, k>>] <= resets[<<u, k>>] + losses + 1
    BY DEF IInv, RoundsOnRecord
  <2>3. \/ /\ Stamp(row'[u], k) = Stamp(row[u], k)
           /\ resets'[<<u, k>>] \in {resets[<<u, k>>], resets[<<u, k>>] + 1}
        \/ Stamp(row'[u], k) = None /\ resets'[<<u, k>>] = resets[<<u, k>>] + 1
    BY <1>2, <1>4
  <2> QED BY <1>5, <2>1, <2>2, <2>3
<1>12. StampsMatchUnlessRaced'
  <2> SUFFICES ASSUME NEW u \in Tasks \ raced PROVE StampFits(row'[u])
    BY <1>1 DEF StampsMatchUnlessRaced
  <2>1. StampFits(row[u])
    BY DEF IInv, StampsMatchUnlessRaced
  <2>2. CASE u # t \/ kept
    BY <1>2, <2>1, <2>2
  <2>3. CASE u = t /\ ~kept
    <3>1. /\ row[t].notified \in {None, old.notified}
          /\ row[t].reminded \in {None, old.reminded}
      BY <1>2, <2>3 DEF IInv, CopiesCurrent
    <3>2. \A k \in Kinds : Resets(old, patch, k) => Stamp(row'[t], k) = None
      BY <2>3, <3>1, CommittedRow DEF Stamp
    <3>3. \A k \in Kinds : ~Resets(old, patch, k) => Stamp(row'[t], k) = Stamp(row[t], k)
      BY <2>3, CommittedRow
    <3>4. /\ ~Changes(old, patch, "due") => row'[t].due = row[t].due
          /\ ~Changes(old, patch, "lead") => row'[t].lead = row[t].lead
      BY <2>3, CommittedRow
    <3>5. CASE Resets(old, patch, "due")
      BY <3>2, <3>5, <2>3 DEF Resets, Stamp, StampFits
    <3>6. CASE ~Resets(old, patch, "due") /\ Resets(old, patch, "lead")
      BY <3>2, <3>3, <3>4, <3>6, <2>1, <2>3 DEF Resets, Stamp, StampFits
    <3>7. CASE ~Resets(old, patch, "due") /\ ~Resets(old, patch, "lead")
      BY <3>3, <3>4, <3>7, <2>1, <2>3 DEF Resets, Stamp, StampFits
    <3> QED BY <3>5, <3>6, <3>7
  <2> QED BY <2>2, <2>3
<1>13. CompletionMatchesUnlessClashed'
  <2> SUFFICES ASSUME NEW u \in Tasks \ clashed PROVE CompletionFits(row'[u])
    BY <1>1 DEF CompletionMatchesUnlessClashed
  <2>1. CompletionFits(row[u])
    BY DEF IInv, CompletionMatchesUnlessClashed
  <2>2. CASE u # t \/ kept
    BY <1>2, <2>1, <2>2
  <2>3. CASE u = t /\ ~kept
    <3>1. row[t].status = old.status /\ row[t].completed = old.completed
      BY <1>2, <2>3 DEF IInv, CopiesCurrent
    <3>2. CASE ~Changes(old, patch, "status")
      <4>1. row'[t].status = row[t].status /\ row'[t].completed = row[t].completed
        BY <2>3, <3>2, CommittedRow
      <4> QED BY <4>1, <2>1, <2>3 DEF CompletionFits
    <3>3. CASE Changes(old, patch, "status")
      <4>1. /\ row'[t].status = patch.status
            /\ row'[t].completed = IF (patch.status = "done") = old.completed
                                   THEN row[t].completed ELSE patch.status = "done"
        BY <2>3, <3>3, CommittedRow
      <4> QED BY <4>1, <2>3, <3>1 DEF CompletionFits
    <3> QED BY <3>2, <3>3
  <2> QED BY <2>2, <2>3
<1> QED BY <1>6, <1>7, <1>8, <1>9, <1>10, <1>11, <1>12, <1>13 DEF IInv

-----------------------------------------------------------------------------
(* The theorems.                                                           *)

LEMMA UnchangedIInv ==
    ASSUME IInv, TypeOK',
           UNCHANGED <<life, row, editor, worker, losses, pushes, resets, raced, clashed>>
    PROVE  IInv'
<1>1. /\ \A t \in Tasks, w \in Workers : Holding(t, w)' <=> Holding(t, w)
      /\ \A t \in Tasks, e \in Editors : Editing(t, e)' <=> Editing(t, e)
      /\ \A t \in Tasks, k \in Kinds : Pending(t, k)' <=> Pending(t, k)
  BY SameOverlaps
<1>2. OneJob' /\ KnownRows' /\ OverlapsRecorded' /\ CopiesCurrent'
  BY <1>1 DEF IInv, OneJob, KnownRows, OverlapsRecorded, CopiesCurrent
<1>3. StampsJustified' /\ RoundsOnRecord'
  BY <1>1 DEF IInv, StampsJustified, RoundsOnRecord
<1>4. StampsMatchUnlessRaced' /\ CompletionMatchesUnlessClashed'
  BY DEF IInv, StampsMatchUnlessRaced, CompletionMatchesUnlessClashed
<1> QED BY <1>2, <1>3, <1>4 DEF IInv

LEMMA NextStep == IInv /\ [Next]_vars => IInv'
<1> SUFFICES ASSUME IInv, [Next]_vars PROVE IInv'
  OBVIOUS
<1>1. TypeOK'
  BY TypeStep DEF IInv
<1>2. CASE Tick \/ UNCHANGED vars
  BY <1>1, <1>2, UnchangedIInv DEF Tick, vars
<1>3. CASE RequestStep
  BY <1>1, <1>3, CreateStep, DeleteStep, LoadForUpdateStep, CommitUpdateStep DEF RequestStep
<1>4. ASSUME NEW w \in Workers, JobStep(w) PROVE IInv'
  <2>1. CASE StaleCommit(w)
    BY <1>1, <2>1, LoseStep DEF StaleCommit, NoJob
  <2> QED BY <1>1, <1>4, <2>1, TryLockStep, LoadCandidatesStep, SendTaskStep, CommitJobStep
          DEF JobStep
<1>5. ASSUME NEW w \in Workers, Crash(w) PROVE IInv'
  BY <1>1, <1>5, LoseStep DEF Crash
<1> QED BY <1>2, <1>3, <1>4, <1>5 DEF Next

\* Whatever requests and job runs overlap: one run at a time holds the lock, an
\* undisturbed run writes what the row still says, and every pushed round is on record.
THEOREM InductiveInvariant == Spec => []IInv
BY InitIInv, NextStep, PTL DEF Spec

\* However many tasks, requests and workers there are, a stamp belongs to the
\* schedule of its row as long as no edit of the task overlapped a run that held it.
THEOREM StampsTheorem == Spec => []StampsMatchUnlessRaced
<1>1. IInv => StampsMatchUnlessRaced
  BY DEF IInv
<1> QED BY <1>1, InductiveInvariant, PTL

\* completed_at is set exactly for done tasks as long as a task never had two
\* requests at once, whatever the job wrote in between.
THEOREM CompletionTheorem == Spec => []CompletionMatchesUnlessClashed
<1>1. IInv => CompletionMatchesUnlessClashed
  BY DEF IInv
<1> QED BY <1>1, InductiveInvariant, PTL

\* No reminder is pushed more often than one plus its resets plus the lost runs.
THEOREM PushesTheorem == Spec => []PushesAccounted
<1>1. IInv => PushesAccounted
  <2> SUFFICES ASSUME IInv, NEW p \in Tasks \X Kinds
               PROVE  pushes[p] <= 1 + resets[p] + losses
    BY DEF PushesAccounted
  <2> PICK t \in Tasks, k \in Kinds : p = <<t, k>>
    OBVIOUS
  <2>1. pushes[<<t, k>>] \in Nat /\ resets[<<t, k>>] \in Nat /\ losses \in Nat
    BY DEF IInv, TypeOK
  <2>2. Pending(t, k) => Stamp(row[t], k) = None
    <3> SUFFICES ASSUME NEW w \in Workers, worker[w].pc = "sending",
                        <<t, k>> \in worker[w].stamps
                 PROVE  Stamp(row[t], k) = None
      BY DEF Pending
    <3>1. Holding(t, w)
      BY SendingFields DEF IInv, Holding
    <3>2. Stamp(worker[w].old[t], k) = None
      BY DEF IInv, StampsJustified, Fires, Stamp
    <3> QED BY <3>1, <3>2 DEF IInv, StampsJustified
  <2>3. \/ pushes[<<t, k>>] <= resets[<<t, k>>] + losses
               + (IF Stamp(row[t], k) # None THEN 1 ELSE 0)
               + (IF Pending(t, k) THEN 1 ELSE 0)
        \/ pushes[<<t, k>>] <= resets[<<t, k>>] + losses + 1
    BY DEF IInv, RoundsOnRecord
  <2> QED BY <2>1, <2>2, <2>3
<1> QED BY <1>1, InductiveInvariant, PTL
=============================================================================
