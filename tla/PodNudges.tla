----------------------------- MODULE PodNudges ------------------------------
(***************************************************************************)
(* The memberships of accountability pods (pod_service.py), the activity   *)
(* of their members and the scheduled job that tells pod-mates about a     *)
(* member who has gone quiet (send_pod_inactivity_nudges in                *)
(* notification_service.py).                                               *)
(*                                                                         *)
(* The job works in one transaction: it loads the memberships that may be  *)
(* due, then the activity of their users, and then goes through the quiet  *)
(* ones; a stamp made in memory is flushed by the next query of the loop   *)
(* (autoflush), which locks the row, and committed at the end.  A flush of *)
(* a membership that was deleted meanwhile raises StaleDataError and ends  *)
(* the run without any stamp.                                              *)
(*                                                                         *)
(* Of the workers only the one that got the advisory lock is represented:  *)
(* the others return at once (TaskReminders has the competition for such a *)
(* lock).  Devices do not change hands here.                               *)
(***************************************************************************)
EXTENDS Integers, FiniteSets

CONSTANTS
    Users, Pods, Devices,
    DevicesOf,      \* [Users -> SUBSET Devices]: their push subscriptions
    Founders,       \* the <<pod, user>> that are members at the start
    Inactivity,     \* POD_INACTIVITY_HOURS
    Cooldown,       \* POD_NUDGE_COOLDOWN_HOURS
    Backdates,      \* how long ago a logged study session may have been
    None,           \* NULL
    Horizon,        \* bound: the clock stops here
    JoinBound,      \* bound: memberships created in a behaviour
    ActivityBound,  \* bound: activities logged in a behaviour
    CrashBound      \* bound: crashes of the worker in the middle of the job

Subjects == Pods \X Users
Row      == [id : Nat, pod : Pods, user : Users, joined : Nat, nudged : Nat \cup {None}]
Activity == {"task", "session"} \X Int

ASSUME NudgeAssumption ==
    /\ DevicesOf \in [Users -> SUBSET Devices]
    /\ Founders \subseteq Pods \X Users
    /\ Inactivity \in Nat /\ Cooldown \in Nat /\ Cooldown <= Inactivity
    /\ Backdates \subseteq Nat /\ None \notin Int /\ None \notin Row
    /\ Horizon \in Nat /\ JoinBound \in Nat /\ ActivityBound \in Nat
    /\ CrashBound \in Nat

VARIABLES
    clock,
    members,   \* the rows of pod_memberships
    activity,  \* [Users -> completed tasks and study sessions, with their times]
    job,       \* progress of the run that holds the advisory lock
    joins,     \* memberships created so far, the source of ids
    logged,    \* history: activities logged so far
    crashes,   \* history: crashes so far
    stirred,   \* history: users who logged an activity since the job's check
    heard,     \* history: [Devices -> [Pods \X Users -> last push, or None]]
    repeated,  \* history: <<pod, user>> pushed to one device again in the cooldown
    retried    \* history: <<pod, user>> with a partly failed round or a lost stamp

vars == <<clock, members, activity, job, joins, logged, crashes, stirred,
          heard, repeated, retried>>


\* The quiet memberships still to do, the one that is being pushed about and to
\* which devices, the membership stamped in memory and those flushed.  They are the
\* copies the run has loaded.
NoJob == [pc |-> "idle", now |-> 0, todo |-> {}, member |-> None, targets |-> {},
          dirty |-> {}, flushed |-> {}]
Job   == [pc : {"idle", "checking", "looping", "sending"}, now : Nat, todo : SUBSET Row,
          member : Row \cup {None}, targets : SUBSET Devices, dirty : SUBSET Row,
          flushed : SUBSET Row]

TypeOK ==
    /\ clock \in 0 .. Horizon
    /\ members \subseteq Row
    /\ activity \in [Users -> SUBSET Activity]
    /\ job \in Job /\ job.now <= clock
    /\ job.pc = "sending" <=> job.member # None
    /\ Cardinality(job.dirty) <= 1
    /\ job.todo \cap (job.dirty \cup job.flushed) = {}
    /\ joins \in 0 .. JoinBound /\ logged \in 0 .. ActivityBound
    /\ crashes \in 0 .. CrashBound
    /\ stirred \subseteq Users
    /\ heard \in [Devices -> [Subjects -> Nat \cup {None}]]
    /\ repeated \subseteq Subjects /\ retried \subseteq Subjects

Init ==
    /\ clock = 0 /\ activity = [u \in Users |-> {}]
    /\ members = {[id |-> 0, pod |-> founder[1], user |-> founder[2], joined |-> 0,
                    nudged |-> None] : founder \in Founders}
    /\ job = NoJob /\ joins = 0 /\ logged = 0 /\ crashes = 0 /\ stirred = {}
    /\ heard = [d \in Devices |-> [s \in Subjects |-> None]]
    /\ repeated = {} /\ retried = {}

Tick ==
    /\ clock < Horizon
    /\ clock' = clock + 1
    /\ UNCHANGED <<members, activity, job, joins, logged, crashes, stirred,
                   heard, repeated, retried>>

-----------------------------------------------------------------------------
(* Requests.                                                               *)

MembersOf(p) == {r \in members : r.pod = p}

\* join_pod, and the enrolment of the owner by create_pod.  A second membership
\* runs into the unique constraint and is rejected.
Join(p, u) ==
    /\ joins < JoinBound
    /\ \A r \in MembersOf(p) : r.user # u
    /\ joins' = joins + 1
    /\ members' = members \cup {[id |-> joins + 1, pod |-> p, user |-> u,
                                 joined |-> clock, nudged |-> None]}
    /\ UNCHANGED <<clock, activity, job, logged, crashes, stirred, heard,
                   repeated, retried>>

\* leave_pod.  The DELETE waits for a transaction that has updated the row.
Leave(r) ==
    /\ r \in members
    /\ r \notin job.flushed
    /\ members' = members \ {r}
    /\ UNCHANGED <<clock, activity, job, joins, logged, crashes, stirred,
                   heard, repeated, retried>>

RequestUnchanged == UNCHANGED <<clock, members, job, joins, crashes, heard, repeated, retried>>

\* A task is completed, or a study session logged, perhaps for an earlier time.
LogActivity(u, entry) ==
    /\ logged < ActivityBound
    /\ logged' = logged + 1
    /\ activity' = [activity EXCEPT ![u] = @ \cup {entry}]
    /\ stirred' = stirred \cup {u}
    /\ RequestUnchanged

\* A completed task is reopened or deleted, and with it the activity.
Reopen(u, entry) ==
    /\ entry \in activity[u] /\ entry[1] = "task"
    /\ activity' = [activity EXCEPT ![u] = @ \ {entry}]
    /\ UNCHANGED <<logged, stirred>>
    /\ RequestUnchanged

-----------------------------------------------------------------------------
(* The job.                                                                *)

JobUnchanged == UNCHANGED <<clock, activity, joins, logged>>
HistoryUnchanged == UNCHANGED <<heard, repeated, retried>>

\* Mutant: the cooldown is left out of the query.
DueIgnoringCooldown(now) == {r \in members : r.joined < now - Inactivity}

\* The first query of list_quiet_memberships.
DueMemberships(now) ==
    {r \in members : /\ r.joined < now - Inactivity
                     /\ r.nudged = None \/ r.nudged < now - Cooldown}

\* Got the advisory lock; nothing happens between taking the time and the query
\* that could not have happened before.
StartNudges ==
    /\ job = NoJob
    /\ job' = [NoJob EXCEPT !.pc = "checking", !.now = clock,
                            !.todo = DueMemberships(clock)]
    /\ UNCHANGED <<members, crashes, stirred>>
    /\ JobUnchanged /\ HistoryUnchanged

\* Mutant: an activity exactly at the threshold does not count.
ActiveAfter(u, threshold) == \E entry \in activity[u] : entry[2] > threshold

ActiveSince(u, threshold) == \E entry \in activity[u] : entry[2] >= threshold

\* The second query, _activity_timestamps.
CheckActivity ==
    /\ job.pc = "checking"
    /\ job' = [job EXCEPT !.pc = "looping",
                  !.todo = {r \in @ : ~ActiveSince(r.user, job.now - Inactivity)}]
    /\ stirred' = {}
    /\ UNCHANGED <<members, crashes>>
    /\ JobUnchanged /\ HistoryUnchanged

\* An UPDATE by the job would match no row.
DirtyRowGone == ~(job.dirty \subseteq members)

Recipients(r) == {m.user : m \in {m \in MembersOf(r.pod) : m.user # r.user}}

\* Mutant: the whole pod is stamped, not only the member.
StampWholePod(r) == MembersOf(r.pod)

\* Mutant: a pod of one is passed over without a stamp.
StampUnlessSolo(r) == IF Recipients(r) = {} THEN {} ELSE {r}

\* membership.last_nudge_sent_at = now, in memory.
Stamp(r) == {r}

\* The next round of the loop: list_other_member_ids flushes the last stamp; a
\* pod of one is stamped at once.
NextMembership(r) ==
    /\ job.pc = "looping" /\ r \in job.todo /\ ~DirtyRowGone
    /\ job' = IF Recipients(r) = {}
              THEN [job EXCEPT !.todo = @ \ {r}, !.flushed = @ \cup job.dirty,
                               !.dirty = Stamp(r)]
              ELSE [job EXCEPT !.todo = @ \ {r}, !.flushed = @ \cup job.dirty,
                               !.dirty = {}, !.pc = "sending", !.member = r,
                               !.targets = UNION {DevicesOf[u] : u \in Recipients(r)}]
    /\ UNCHANGED <<members, crashes, stirred>>
    /\ JobUnchanged /\ HistoryUnchanged

\* _send_to_subscriptions: each device gets the push, has failed, or is gone and
\* pruned; the membership is stamped if none failed.
SendRound(delivered, failed) ==
    LET subject == <<job.member.pod, job.member.user>>
        again(d) == heard[d][subject] # None /\ job.now - heard[d][subject] <= Cooldown
    IN  /\ job.pc = "sending"
        /\ delivered \cup failed \subseteq job.targets /\ delivered \cap failed = {}
        /\ job' = [job EXCEPT !.pc = "looping", !.member = None, !.targets = {},
                              !.dirty = IF failed = {} THEN Stamp(job.member) ELSE {}]
        /\ heard' = [d \in Devices |-> IF d \in delivered
                        THEN [heard[d] EXCEPT ![subject] = job.now] ELSE heard[d]]
        /\ repeated' = repeated \cup {s \in {subject} : \E d \in delivered : again(d)}
        /\ retried' = retried \cup {s \in {subject} : failed # {}}
        /\ UNCHANGED <<members, crashes, stirred>>
        /\ JobUnchanged

Stamped == job.dirty \cup job.flushed

\* await db.commit()
CommitNudges ==
    /\ job.pc = "looping" /\ job.todo = {} /\ ~DirtyRowGone
    /\ members' = {IF r \in Stamped THEN [r EXCEPT !.nudged = job.now] ELSE r :
                      r \in members}
    /\ job' = NoJob
    /\ UNCHANGED <<crashes, stirred>>
    /\ JobUnchanged /\ HistoryUnchanged

\* The run ends without its stamps: whoever it pushed about will be again.
Abandon ==
    /\ job' = NoJob
    /\ retried' = retried \cup {<<r.pod, r.user>> : r \in Stamped}
    /\ UNCHANGED <<members, stirred, heard, repeated>>
    /\ JobUnchanged

\* StaleDataError, out of the next query of the loop or out of the commit.
StaleStamp ==
    /\ job.pc = "looping" /\ DirtyRowGone
    /\ Abandon /\ UNCHANGED crashes

Crash ==
    /\ job # NoJob
    /\ crashes < CrashBound
    /\ crashes' = crashes + 1
    /\ Abandon

JobStep ==
    \/ StartNudges \/ CheckActivity \/ CommitNudges \/ StaleStamp
    \/ \E r \in job.todo : NextMembership(r)
    \/ \E delivered \in SUBSET job.targets, failed \in SUBSET job.targets :
          SendRound(delivered, failed)

RequestStep ==
    \/ \E p \in Pods, u \in Users : Join(p, u)
    \/ \E r \in members : Leave(r)
    \/ \E u \in Users : \E ago \in Backdates :
          LogActivity(u, <<"task", clock>>) \/ LogActivity(u, <<"session", clock - ago>>)
    \/ \E u \in Users : \E entry \in activity[u] : Reopen(u, entry)

Next == Tick \/ RequestStep \/ JobStep \/ Crash

Spec == Init /\ [][Next]_vars

\* A round about the subject in which no device failed.
CleanRound(subject) ==
    /\ job.pc = "sending" /\ subject = <<job.member.pod, job.member.user>>
    /\ SendRound(job.targets, {})

\* The scheduler keeps starting the job and the process drives it on (weak
\* fairness); push services that are tried again and again accept a whole round
\* at some point (strong fairness).  Nobody has to join, leave or be active.
FairSpec ==
    /\ Spec
    /\ WF_vars(Tick) /\ WF_vars(JobStep)
    /\ \A s \in Subjects : SF_vars(CleanRound(s))

-----------------------------------------------------------------------------
(* Properties.                                                             *)

\* "After 24h of silence the pod gets a push nudge (with a 24h cooldown so one
\* quiet member does not spam the group)" (README.md:12): no device hears about
\* a member of a pod twice within the cooldown, although members leave, join again
\* and log activities under the job, unless a round failed in part or a stamp was
\* lost.
NudgesSpacedUnlessRetried == repeated \subseteq retried

\* A push about a member goes out only if the member was silent and in the pod
\* since the threshold (pod_service.py:285 "Someone can't have "gone quiet" over a
\* window that started before they joined"); only an activity logged after the
\* run's check, or a new membership that replaced the old one during the run, can
\* make it wrong.  It never goes to the member's own devices alone.
NudgesTruthful ==
    job.pc = "sending" =>
        LET r == job.member
            threshold == job.now - Inactivity
        IN  /\ r.user \notin stirred => \A entry \in activity[r.user] : entry[2] < threshold
            /\ r.joined < threshold
            /\ \A m \in members : m.pod = r.pod /\ m.user = r.user /\ m.id # r.id
                                     => m.joined >= job.now
            /\ \E u \in Users \ {r.user} : DevicesOf[u] \subseteq job.targets

\* A member who stays silent is not examined for ever: the pod is nudged (or there
\* is nobody to nudge) and the membership stamped, whatever partial failures,
\* departures under the job and crashes come first.
Overdue(r) ==
    /\ r \in DueMemberships(clock)
    /\ ~ActiveSince(r.user, clock - Inactivity)

EventuallyNudged == <>[](\A r \in members : ~Overdue(r))
=============================================================================
