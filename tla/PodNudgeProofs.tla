---------------------------- MODULE PodNudgeProofs ----------------------------
(***************************************************************************)
(* For any users, pods, devices and bounds: the variables of PodNudges     *)
(* keep their types, a push about a quiet member is true when it goes out, *)
(* and no device hears about a member twice within the cooldown unless a   *)
(* round failed in part or a stamp was lost.                               *)
(***************************************************************************)
EXTENDS PodNudges, FiniteSetTheorems, TLAPS

-----------------------------------------------------------------------------
(* The inductive invariant.                                                *)

SameSubject(m, r) == m.pod = r.pod /\ m.user = r.user

\* The copies the run works with: those to push about, and all of them.
Pending == job.todo \cup ({job.member} \ {None})
Loaded  == Pending \cup job.dirty \cup job.flushed

\* pod_memberships is unique by pod and user, and so is what the run has loaded.
OneMembership ==
    /\ \A m, r \in members : SameSubject(m, r) => m = r
    /\ \A q, r \in Loaded : SameSubject(q, r) => q = r

\* A membership of the subject of a copy is the one that was copied, or newer than the run.
CopiesCurrent ==
    \A r \in Loaded, m \in members : SameSubject(m, r) => m = r \/ m.joined >= job.now

\* The rounds of the loop.
RoundsInOrder ==
    /\ job.pc = "sending" => job.dirty = {} /\ job.member \notin job.todo
    /\ job.pc = "idle" => job = NoJob

\* The run pushes about memberships that were due.
PendingDue ==
    \A r \in Pending : /\ r.joined < job.now - Inactivity
                       /\ r.nudged = None \/ r.nudged < job.now - Cooldown

\* And whose users were silent when it checked.
PendingSilent ==
    job.pc \in {"looping", "sending"} =>
        \A r \in Pending : r.user \notin stirred =>
            \A entry \in activity[r.user] : entry[2] < job.now - Inactivity

\* A push is not from the future.
HeardPast ==
    \A d \in Devices, s \in Subjects : heard[d][s] # None =>
        /\ heard[d][s] <= clock
        /\ job.pc # "idle" => heard[d][s] <= job.now

\* Whoever was heard about without a failure has a stamp at least as new, in the table,
\* in the copies or in the run, or a membership at least as new.
StampCovers(r, time) == r.joined >= time \/ (r.nudged # None /\ r.nudged >= time)

HeardStamped ==
    \A d \in Devices, s \in Subjects \ retried : heard[d][s] # None =>
        /\ \A r \in members : <<r.pod, r.user>> = s =>
              StampCovers(r, heard[d][s]) \/ r \in Stamped
        /\ \A r \in Pending : <<r.pod, r.user>> = s => StampCovers(r, heard[d][s])

IInv ==
    /\ TypeOK
    /\ OneMembership /\ CopiesCurrent /\ RoundsInOrder
    /\ PendingDue /\ PendingSilent
    /\ HeardPast /\ HeardStamped
    /\ NudgesTruthful /\ NudgesSpacedUnlessRetried


-----------------------------------------------------------------------------
(* What the steps of the job do.                                           *)

LEMMA NoJobRecord ==
    /\ NoJob \in Job /\ NoJob.pc = "idle" /\ NoJob.now = 0 /\ NoJob.todo = {}
    /\ NoJob.member = None /\ NoJob.targets = {} /\ NoJob.dirty = {} /\ NoJob.flushed = {}
BY DEF NoJob, Job

LEMMA JobFields ==
    ASSUME TypeOK
    PROVE  /\ job.now \in Nat /\ job.todo \subseteq Row /\ job.member \in Row \cup {None}
           /\ job.targets \subseteq Devices /\ job.dirty \subseteq Row /\ job.flushed \subseteq Row
           /\ job.pc \in {"idle", "checking", "looping", "sending"}
BY DEF TypeOK, Job

LEMMA RowFields ==
    ASSUME NEW r \in Row
    PROVE  /\ r.pod \in Pods /\ r.user \in Users /\ r.joined \in Nat /\ r.id \in Nat
           /\ r.nudged \in Nat \cup {None} /\ r # None /\ <<r.pod, r.user>> \in Subjects
BY NudgeAssumption DEF Row, Subjects

LEMMA StartEffect ==
    ASSUME TypeOK, StartNudges
    PROVE  /\ job = NoJob /\ job' \in Job
           /\ job'.pc = "checking" /\ job'.now = clock /\ job'.todo = DueMemberships(clock)
           /\ job'.member = None /\ job'.dirty = {} /\ job'.flushed = {}
           /\ UNCHANGED <<clock, members, activity, joins, logged, crashes, stirred, heard,
                          repeated, retried>>
<1> DEFINE due == DueMemberships(clock)
<1>1. due \subseteq Row /\ clock \in Nat
  BY NudgeAssumption DEF TypeOK, DueMemberships
<1>2. /\ job = NoJob
      /\ job' = [NoJob EXCEPT !.pc = "checking", !.now = clock, !.todo = due]
  BY DEF StartNudges
<1> HIDE DEF due
<1>3. /\ job' \in Job /\ job'.pc = "checking" /\ job'.now = clock /\ job'.todo = due
      /\ job'.member = None /\ job'.dirty = {} /\ job'.flushed = {}
  BY <1>1, <1>2, NoJobRecord DEF Job
<1> QED BY <1>2, <1>3 DEF due, StartNudges, JobUnchanged, HistoryUnchanged

LEMMA CheckEffect ==
    ASSUME TypeOK, CheckActivity
    PROVE  /\ job.pc = "checking" /\ job' \in Job
           /\ job'.pc = "looping" /\ job'.now = job.now
           /\ job'.todo = {r \in job.todo : ~ActiveSince(r.user, job.now - Inactivity)}
           /\ job'.member = job.member /\ job'.dirty = job.dirty /\ job'.flushed = job.flushed
           /\ stirred' = {}
           /\ UNCHANGED <<clock, members, activity, joins, logged, crashes, heard,
                          repeated, retried>>
<1> DEFINE todo == {r \in job.todo : ~ActiveSince(r.user, job.now - Inactivity)}
<1>1. todo \subseteq Row /\ job \in Job
  BY JobFields DEF TypeOK
<1>2. job.pc = "checking" /\ job' = [job EXCEPT !.pc = "looping", !.todo = todo]
  BY DEF CheckActivity
<1> HIDE DEF todo
<1>3. /\ job' \in Job /\ job'.pc = "looping" /\ job'.now = job.now /\ job'.todo = todo
      /\ job'.member = job.member /\ job'.dirty = job.dirty /\ job'.flushed = job.flushed
  BY <1>1, <1>2 DEF Job
<1> QED BY <1>2, <1>3 DEF todo, CheckActivity, JobUnchanged, HistoryUnchanged

LEMMA NextMembershipEffect ==
    ASSUME TypeOK, NEW r \in job.todo, NextMembership(r)
    PROVE  /\ job.pc = "looping" /\ job' \in Job /\ job'.now = job.now
           /\ job'.todo = job.todo \ {r} /\ job'.flushed = job.flushed \cup job.dirty
           /\ \/ /\ job'.dirty = {r} /\ job'.pc = "looping" /\ job'.member = job.member
              \/ /\ job'.dirty = {} /\ job'.pc = "sending" /\ job'.member = r
                 /\ Recipients(r) # {}
                 /\ job'.targets = UNION {DevicesOf[u] : u \in Recipients(r)}
           /\ UNCHANGED <<clock, members, activity, joins, logged, crashes, stirred, heard,
                          repeated, retried>>
<1> DEFINE todo    == job.todo \ {r}
           flushed == job.flushed \cup job.dirty
           targets == UNION {DevicesOf[u] : u \in Recipients(r)}
<1>1. /\ job \in Job /\ todo \subseteq Row /\ flushed \subseteq Row /\ {r} \subseteq Row
      /\ {} \subseteq Row
  BY JobFields DEF TypeOK
<1>2. targets \subseteq Devices
  <2>1. \A m \in members : m.user \in Users
    BY RowFields DEF TypeOK
  <2>2. Recipients(r) \subseteq Users
    BY <2>1 DEF Recipients, MembersOf
  <2> QED BY <2>2, NudgeAssumption
<1>3. /\ job.pc = "looping"
      /\ job' = IF Recipients(r) = {}
                THEN [job EXCEPT !.todo = todo, !.flushed = flushed, !.dirty = {r}]
                ELSE [job EXCEPT !.todo = todo, !.flushed = flushed, !.dirty = {},
                                 !.pc = "sending", !.member = r, !.targets = targets]
  BY DEF NextMembership, Stamp
<1> HIDE DEF todo, flushed, targets
<1>4. CASE Recipients(r) = {}
  <2>1. /\ job' \in Job /\ job'.now = job.now /\ job'.todo = todo /\ job'.flushed = flushed
        /\ job'.dirty = {r} /\ job'.pc = "looping" /\ job'.member = job.member
    BY <1>1, <1>3, <1>4 DEF Job
  <2> QED BY <1>3, <2>1 DEF todo, flushed, NextMembership, JobUnchanged, HistoryUnchanged
<1>5. CASE Recipients(r) # {}
  <2>1. /\ job' \in Job /\ job'.now = job.now /\ job'.todo = todo /\ job'.flushed = flushed
        /\ job'.dirty = {} /\ job'.pc = "sending" /\ job'.member = r /\ job'.targets = targets
    BY <1>1, <1>2, <1>3, <1>5 DEF Job
  <2> QED BY <1>3, <1>5, <2>1
         DEF todo, flushed, targets, NextMembership, JobUnchanged, HistoryUnchanged
<1> QED BY <1>4, <1>5

Subject == <<job.member.pod, job.member.user>>

LEMMA SendRoundEffect ==
    ASSUME TypeOK, NEW delivered \in SUBSET job.targets, NEW failed \in SUBSET job.targets,
           SendRound(delivered, failed)
    PROVE  /\ job.pc = "sending" /\ job.member \in Row /\ Subject \in Subjects
           /\ job' \in Job /\ job'.now = job.now /\ job'.pc = "looping" /\ job'.member = None
           /\ job'.todo = job.todo /\ job'.flushed = job.flushed
           /\ job'.dirty = IF failed = {} THEN {job.member} ELSE {}
           /\ heard' \in [Devices -> [Subjects -> Nat \cup {None}]]
           /\ \A d \in Devices, s \in Subjects :
                 heard'[d][s] = IF d \in delivered /\ s = Subject THEN job.now ELSE heard[d][s]
           /\ repeated' \subseteq repeated \cup {Subject}
           /\ Subject \in repeated' \ repeated =>
                 \E d \in delivered : /\ heard[d][Subject] # None
                                      /\ job.now - heard[d][Subject] <= Cooldown
           /\ retried' = retried \cup {s \in {Subject} : failed # {}}
           /\ UNCHANGED <<clock, members, activity, joins, logged, crashes, stirred>>
<1> DEFINE dirty == IF failed = {} THEN {job.member} ELSE {}
           again(d) == heard[d][Subject] # None /\ job.now - heard[d][Subject] <= Cooldown
<1>1. /\ job.pc = "sending"
      /\ job' = [job EXCEPT !.pc = "looping", !.member = None, !.targets = {}, !.dirty = dirty]
      /\ heard' = [d \in Devices |-> IF d \in delivered
                      THEN [heard[d] EXCEPT ![Subject] = job.now] ELSE heard[d]]
      /\ repeated' = repeated \cup {s \in {Subject} : \E d \in delivered : again(d)}
      /\ retried' = retried \cup {s \in {Subject} : failed # {}}
      /\ UNCHANGED <<clock, members, activity, joins, logged, crashes, stirred>>
  BY DEF SendRound, Stamp, Subject, JobUnchanged
<1>2. job.member \in Row /\ Subject \in Subjects /\ job \in Job /\ job.now \in Nat
  <2>1. job.member \in Row
    BY <1>1, JobFields DEF TypeOK
  <2> QED BY <2>1, JobFields, RowFields DEF Subject, TypeOK
<1>3. dirty \subseteq Row
  BY <1>2
<1> HIDE DEF dirty
<1>4. /\ job' \in Job /\ job'.now = job.now /\ job'.pc = "looping" /\ job'.member = None
      /\ job'.todo = job.todo /\ job'.flushed = job.flushed /\ job'.dirty = dirty
  BY <1>1, <1>2, <1>3 DEF Job
<1> HIDE DEF Subject
<1>5. /\ heard' \in [Devices -> [Subjects -> Nat \cup {None}]]
      /\ \A d \in Devices, s \in Subjects :
            heard'[d][s] = IF d \in delivered /\ s = Subject THEN job.now ELSE heard[d][s]
  <2>1. ASSUME NEW d \in Devices
        PROVE  /\ heard'[d] \in [Subjects -> Nat \cup {None}]
               /\ \A s \in Subjects :
                    heard'[d][s] = IF d \in delivered /\ s = Subject THEN job.now ELSE heard[d][s]
    <3>1. heard[d] \in [Subjects -> Nat \cup {None}]
      BY DEF TypeOK
    <3>2. heard'[d] = IF d \in delivered
                      THEN [heard[d] EXCEPT ![Subject] = job.now] ELSE heard[d]
      BY <1>1
    <3> QED BY <1>2, <3>1, <3>2
  <2>2. heard' = [d \in Devices |-> heard'[d]]
    BY <1>1
  <2> QED BY <2>1, <2>2
<1>6. /\ repeated' \subseteq repeated \cup {Subject}
      /\ Subject \in repeated' \ repeated =>
            \E d \in delivered : /\ heard[d][Subject] # None
                                 /\ job.now - heard[d][Subject] <= Cooldown
  BY <1>1
<1> QED BY <1>1, <1>2, <1>4, <1>5, <1>6 DEF dirty

LEMMA CommitEffect ==
    ASSUME TypeOK, CommitNudges
    PROVE  /\ job.pc = "looping" /\ job.todo = {} /\ job' = NoJob
           /\ \A m \in members' : \E r \in members :
                 /\ m.id = r.id /\ SameSubject(m, r) /\ m.joined = r.joined /\ m \in Row
                 /\ m = IF r \in Stamped THEN [r EXCEPT !.nudged = job.now] ELSE r
                 /\ m.nudged = IF r \in Stamped THEN job.now ELSE r.nudged
           /\ UNCHANGED <<clock, activity, joins, logged, crashes, stirred, heard,
                          repeated, retried>>
<1>1. members' = {IF r \in Stamped THEN [r EXCEPT !.nudged = job.now] ELSE r : r \in members}
  BY DEF CommitNudges
<1>2. ASSUME NEW m \in members'
      PROVE  \E r \in members :
                 /\ m.id = r.id /\ SameSubject(m, r) /\ m.joined = r.joined /\ m \in Row
                 /\ m = IF r \in Stamped THEN [r EXCEPT !.nudged = job.now] ELSE r
                 /\ m.nudged = IF r \in Stamped THEN job.now ELSE r.nudged
  <2>1. PICK r \in members : m = IF r \in Stamped THEN [r EXCEPT !.nudged = job.now] ELSE r
    BY <1>1
  <2>2. r \in Row /\ job.now \in Nat
    BY JobFields DEF TypeOK
  <2>3. /\ m.id = r.id /\ SameSubject(m, r) /\ m.joined = r.joined /\ m \in Row
        /\ m.nudged = IF r \in Stamped THEN job.now ELSE r.nudged
    BY <2>1, <2>2 DEF SameSubject, Row
  <2> QED BY <2>1, <2>3
<1> QED BY <1>2 DEF CommitNudges, JobUnchanged, HistoryUnchanged

\* The run ends without its stamps.
LEMMA AbandonEffect ==
    ASSUME StaleStamp \/ Crash
    PROVE  /\ job' = NoJob
           /\ retried' = retried \cup {<<r.pod, r.user>> : r \in Stamped}
           /\ UNCHANGED <<clock, members, activity, joins, logged, stirred, heard, repeated>>
           /\ crashes' = crashes \/ (crashes < CrashBound /\ crashes' = crashes + 1)
BY DEF StaleStamp, Crash, Abandon, JobUnchanged

\* The requests, which leave the job and its history alone.
LEMMA RequestEffect ==
    ASSUME TypeOK, Tick \/ RequestStep
    PROVE  /\ UNCHANGED <<job, crashes, heard, repeated, retried>>
           /\ clock' \in 0 .. Horizon /\ clock <= clock'
           /\ joins' \in 0 .. JoinBound /\ logged' \in 0 .. ActivityBound
           /\ stirred \subseteq stirred' /\ stirred' \subseteq Users
           /\ activity' \in [Users -> SUBSET Activity]
           /\ \A u \in Users : u \notin stirred' => activity'[u] \subseteq activity[u]
           /\ \A m \in members' :
                 \/ m \in members
                 \/ /\ m \in Row /\ m.joined = clock
                    /\ \A r \in members : ~SameSubject(m, r)
                    /\ \A q \in members' : q \in members \/ q = m
           /\ \A r \in members \ members' : r \notin job.flushed
<1>1. /\ clock \in Nat /\ clock \in 0 .. Horizon /\ joins \in 0 .. JoinBound
      /\ logged \in 0 .. ActivityBound /\ activity \in [Users -> SUBSET Activity]
      /\ stirred \subseteq Users /\ members \subseteq Row
  BY NudgeAssumption DEF TypeOK
<1>2. CASE Tick
  BY <1>1, <1>2, NudgeAssumption DEF Tick
<1>3. ASSUME NEW p \in Pods, NEW u \in Users, Join(p, u)
      PROVE  /\ UNCHANGED <<clock, activity, logged, stirred, job, crashes, heard, repeated, retried>>
             /\ joins' \in 0 .. JoinBound
             /\ \E m \in Row : /\ members' = members \cup {m} /\ m.joined = clock
                               /\ \A r \in members : ~SameSubject(m, r)
  <2> DEFINE m == [id |-> joins + 1, pod |-> p, user |-> u, joined |-> clock, nudged |-> None]
  <2>1. joins + 1 \in Nat /\ joins' \in 0 .. JoinBound
    BY <1>1, <1>3, NudgeAssumption DEF Join
  <2>2. m \in Row /\ m.joined = clock /\ m.pod = p /\ m.user = u
    BY <1>1, <2>1 DEF Row
  <2>3. members' = members \cup {m}
    BY <1>3 DEF Join
  <2>4. \A r \in members : ~SameSubject(m, r)
    BY <1>3, <2>2 DEF Join, MembersOf, SameSubject
  <2> HIDE DEF m
  <2> QED BY <1>3, <2>1, <2>2, <2>3, <2>4 DEF Join
<1>4. CASE \E p \in Pods, u \in Users : Join(p, u)
  BY <1>1, <1>3, <1>4
<1>5. CASE \E r \in members : Leave(r)
  BY <1>1, <1>5 DEF Leave
<1>6. ASSUME NEW u \in Users, NEW entry \in Activity, LogActivity(u, entry)
      PROVE  /\ UNCHANGED <<clock, members, job, joins, crashes, heard, repeated, retried>>
             /\ logged' \in 0 .. ActivityBound /\ stirred' = stirred \cup {u}
             /\ activity' \in [Users -> SUBSET Activity]
             /\ \A v \in Users : v # u => activity'[v] = activity[v]
  BY <1>1, <1>6, NudgeAssumption DEF LogActivity, RequestUnchanged
<1>7. CASE \E u \in Users : \E ago \in Backdates :
              LogActivity(u, <<"task", clock>>) \/ LogActivity(u, <<"session", clock - ago>>)
  <2>1. PICK u \in Users, entry \in Activity : LogActivity(u, entry)
    <3>1. \A ago \in Backdates : clock \in Int /\ clock - ago \in Int
      BY <1>1, NudgeAssumption
    <3> QED BY <1>7, <3>1 DEF Activity
  <2> QED BY <1>1, <1>6, <2>1
<1>8. CASE \E u \in Users : \E entry \in activity[u] : Reopen(u, entry)
  BY <1>1, <1>8 DEF Reopen, RequestUnchanged
<1> QED BY <1>2, <1>4, <1>5, <1>7, <1>8 DEF RequestStep


-----------------------------------------------------------------------------
(* Each step preserves the invariant.                                      *)

\* NudgesTruthful without its LET.
LEMMA TruthfulIs ==
    NudgesTruthful <=>
        (job.pc = "sending" =>
            /\ job.member.user \notin stirred =>
                  \A entry \in activity[job.member.user] : entry[2] < job.now - Inactivity
            /\ job.member.joined < job.now - Inactivity
            /\ \A m \in members : SameSubject(m, job.member) /\ m.id # job.member.id
                                     => m.joined >= job.now
            /\ \E u \in Users \ {job.member.user} : DevicesOf[u] \subseteq job.targets)
BY DEF NudgesTruthful, SameSubject

LEMMA LoadedRows ==
    ASSUME TypeOK
    PROVE  /\ Loaded \subseteq Row /\ Pending \subseteq Loaded /\ Stamped \subseteq Loaded
           /\ job.pc = "sending" => job.member \in Pending /\ job.member \in Row
           /\ members \subseteq Row
<1>1. job.pc = "sending" => job.member # None
  BY DEF TypeOK
<1> QED BY <1>1, JobFields DEF Loaded, Pending, Stamped, TypeOK

LEMMA RequestIInv ==
    ASSUME IInv, Tick \/ RequestStep
    PROVE  IInv'
<1>1. TypeOK /\ clock \in Nat /\ job.now <= clock /\ job.now \in Nat
  BY NudgeAssumption, JobFields DEF IInv, TypeOK
<1>2. /\ UNCHANGED <<job, crashes, heard, repeated, retried>>
      /\ clock' \in 0 .. Horizon /\ clock' \in Nat /\ clock <= clock'
      /\ stirred \subseteq stirred' /\ stirred' \subseteq Users
      /\ \A u \in Users : u \notin stirred' => activity'[u] \subseteq activity[u]
  BY <1>1, RequestEffect, NudgeAssumption
<1>3. \A m \in members' :
         \/ m \in members
         \/ /\ m \in Row /\ m.joined = clock
            /\ \A r \in members : ~SameSubject(m, r)
            /\ \A q \in members' : q \in members \/ q = m
  BY <1>1, RequestEffect
<1>4. TypeOK'
  <2>1. members' \subseteq Row
    BY <1>1, <1>3 DEF TypeOK
  <2>2. job.now <= clock'
    BY <1>1, <1>2
  <2> QED BY <1>1, <1>2, <2>1, <2>2, RequestEffect DEF TypeOK
<1>5. OneMembership'
  <2>1. \A q, r \in Loaded' : SameSubject(q, r) => q = r
    BY <1>2 DEF IInv, OneMembership, Loaded, Pending
  <2>2. ASSUME NEW m \in members', NEW r \in members', SameSubject(m, r) PROVE m = r
    <3>1. SameSubject(r, m)
      BY <2>2 DEF SameSubject
    <3> QED BY <1>3, <2>2, <3>1 DEF IInv, OneMembership
  <2> QED BY <2>1, <2>2 DEF OneMembership
<1>6. CopiesCurrent'
  <2>1. ASSUME NEW r \in Loaded, NEW m \in members', SameSubject(m, r)
        PROVE  m = r \/ m.joined >= job.now
    <3>1. CASE m \in members
      BY <2>1, <3>1 DEF IInv, CopiesCurrent
    <3>2. CASE m.joined = clock
      BY <1>1, <3>2
    <3> QED BY <1>3, <3>1, <3>2
  <2>2. Loaded' = Loaded
    BY <1>2 DEF Loaded, Pending
  <2> QED BY <1>2, <2>1, <2>2 DEF CopiesCurrent
<1>7. RoundsInOrder' /\ PendingDue'
  BY <1>2 DEF IInv, RoundsInOrder, PendingDue, Pending
<1>8. PendingSilent'
  <2>1. \A r \in Pending : r.user \in Users
    BY <1>1, LoadedRows, RowFields
  <2> QED BY <1>2, <2>1 DEF IInv, PendingSilent, Pending
<1>9. HeardPast'
  <2>1. \A d \in Devices, s \in Subjects : heard[d][s] # None => heard[d][s] \in Nat
    BY <1>1 DEF TypeOK
  <2> QED BY <1>1, <1>2, <2>1 DEF IInv, HeardPast
<1>10. HeardStamped'
  <2>1. ASSUME NEW d \in Devices, NEW s \in Subjects \ retried, heard[d][s] # None,
               NEW m \in members', <<m.pod, m.user>> = s
        PROVE  StampCovers(m, heard[d][s]) \/ m \in Stamped
    <3>1. CASE m \in members
      BY <2>1, <3>1 DEF IInv, HeardStamped
    <3>2. CASE m.joined = clock
      <4>1. heard[d][s] <= clock
        BY <2>1 DEF IInv, HeardPast
      <4>2. heard[d][s] \in Nat
        BY <1>1, <2>1 DEF TypeOK
      <4> QED BY <1>1, <3>2, <4>1, <4>2 DEF StampCovers
    <3> QED BY <1>3, <3>1, <3>2
  <2>2. Stamped' = Stamped /\ Pending' = Pending
    BY <1>2 DEF Stamped, Pending
  <2> QED BY <1>2, <2>1, <2>2 DEF IInv, HeardStamped, StampCovers
<1>11. NudgesTruthful'
  <2>1. ASSUME job.pc = "sending"
        PROVE  /\ job.member.user \notin stirred' =>
                    \A entry \in activity'[job.member.user] : entry[2] < job.now - Inactivity
               /\ \A m \in members' : SameSubject(m, job.member) /\ m.id # job.member.id
                                       => m.joined >= job.now
    <3>1. job.member.user \in Users /\ job.member \in Loaded
      BY <1>1, <2>1, LoadedRows, RowFields
    <3>2. job.member.user \notin stirred' =>
             \A entry \in activity'[job.member.user] : entry[2] < job.now - Inactivity
      BY <1>2, <2>1, <3>1, TruthfulIs DEF IInv
    <3>3. Loaded' = Loaded
      BY <1>2 DEF Loaded, Pending
    <3>4. \A m \in members' : SameSubject(m, job.member) => m = job.member \/ m.joined >= job.now
      BY <1>2, <1>6, <3>1, <3>3 DEF CopiesCurrent
    <3> QED BY <3>2, <3>4
  <2>2. job.pc = "sending" =>
           /\ job.member.joined < job.now - Inactivity
           /\ \E u \in Users \ {job.member.user} : DevicesOf[u] \subseteq job.targets
    BY TruthfulIs DEF IInv
  <2> QED BY <1>2, <2>1, <2>2 DEF NudgesTruthful, SameSubject
<1>12. NudgesSpacedUnlessRetried'
  BY <1>2 DEF IInv, NudgesSpacedUnlessRetried
<1> QED BY <1>4, <1>5, <1>6, <1>7, <1>8, <1>9, <1>10, <1>11, <1>12 DEF IInv

\* What the run has loaded only becomes less until it ends.
LEMMA StartIInv ==
    ASSUME IInv, StartNudges
    PROVE  IInv'
<1>1. TypeOK /\ clock \in Nat
  BY NudgeAssumption DEF IInv, TypeOK
<1>2. /\ job = NoJob /\ job' \in Job
      /\ job'.pc = "checking" /\ job'.now = clock /\ job'.todo = DueMemberships(clock)
      /\ job'.member = None /\ job'.dirty = {} /\ job'.flushed = {}
      /\ UNCHANGED <<clock, members, activity, joins, logged, crashes, stirred, heard,
                     repeated, retried>>
  BY <1>1, StartEffect
<1>3. /\ Pending' = DueMemberships(clock) /\ Loaded' = DueMemberships(clock)
      /\ DueMemberships(clock) \subseteq members /\ Stamped' = {}
  BY <1>2 DEF Pending, Loaded, Stamped, DueMemberships
<1>4. TypeOK'
  <2>1. Cardinality({}) = 0
    BY FS_EmptySet
  <2>2. Cardinality(job'.dirty) <= 1
    BY <1>2, <2>1
  <2>3. job'.now <= clock'
    BY <1>1, <1>2
  <2> QED BY <1>1, <1>2, <2>2, <2>3 DEF TypeOK
<1>5. OneMembership'
  BY <1>2, <1>3 DEF IInv, OneMembership
<1>6. CopiesCurrent'
  BY <1>2, <1>3 DEF IInv, OneMembership, CopiesCurrent
<1>7. RoundsInOrder' /\ PendingSilent' /\ NudgesTruthful'
  BY <1>2 DEF RoundsInOrder, PendingSilent, NudgesTruthful
<1>8. PendingDue'
  BY <1>2, <1>3 DEF PendingDue, DueMemberships
<1>9. HeardPast'
  BY <1>2 DEF IInv, HeardPast
<1>10. HeardStamped'
  <2>1. Stamped = {}
    BY <1>2, NoJobRecord DEF Stamped
  <2> QED BY <1>2, <1>3, <2>1 DEF IInv, HeardStamped, StampCovers
<1>11. NudgesSpacedUnlessRetried'
  BY <1>2 DEF IInv, NudgesSpacedUnlessRetried
<1> QED BY <1>4, <1>5, <1>6, <1>7, <1>8, <1>9, <1>10, <1>11 DEF IInv

LEMMA CheckIInv ==
    ASSUME IInv, CheckActivity
    PROVE  IInv'
<1>1. TypeOK
  BY DEF IInv
<1>2. /\ job.pc = "checking" /\ job' \in Job
      /\ job'.pc = "looping" /\ job'.now = job.now
      /\ job'.todo = {r \in job.todo : ~ActiveSince(r.user, job.now - Inactivity)}
      /\ job'.member = job.member /\ job'.dirty = job.dirty /\ job'.flushed = job.flushed
      /\ stirred' = {}
      /\ UNCHANGED <<clock, members, activity, joins, logged, crashes, heard, repeated, retried>>
  BY <1>1, CheckEffect
<1>3. job.member = None
  BY <1>1, <1>2 DEF TypeOK
<1>4. Pending' \subseteq Pending /\ Loaded' \subseteq Loaded /\ Stamped' = Stamped
  BY <1>2 DEF Pending, Loaded, Stamped
<1>5. TypeOK'
  BY <1>1, <1>2, <1>3 DEF TypeOK
<1>6. OneMembership' /\ CopiesCurrent'
  BY <1>2, <1>4 DEF IInv, OneMembership, CopiesCurrent
<1>7. RoundsInOrder' /\ NudgesTruthful'
  BY <1>2 DEF RoundsInOrder, NudgesTruthful
<1>8. PendingDue'
  BY <1>2, <1>4 DEF IInv, PendingDue
<1>9. PendingSilent'
  <2>1. ASSUME NEW r \in Pending', NEW entry \in activity[r.user]
        PROVE  entry[2] < job.now - Inactivity
    <3>1. r \in job.todo /\ ~ActiveSince(r.user, job.now - Inactivity)
      BY <1>2, <1>3, <2>1 DEF Pending
    <3>2. ~(entry[2] >= job.now - Inactivity)
      BY <2>1, <3>1 DEF ActiveSince
    <3>3. r.user \in Users /\ job.now \in Int /\ Inactivity \in Int
      <4>1. r \in Row /\ job.now \in Nat
        BY <1>1, <3>1, JobFields
      <4>2. r.user \in Users
        BY <4>1, RowFields
      <4>3. job.now \in Int /\ Inactivity \in Int
        BY <4>1, NudgeAssumption
      <4> QED BY <4>2, <4>3
    <3>4. entry[2] \in Int
      BY <1>1, <2>1, <3>3 DEF TypeOK, Activity
    <3> QED BY <3>2, <3>3, <3>4
  <2> QED BY <1>2, <2>1 DEF PendingSilent
<1>10. HeardPast'
  BY <1>2 DEF IInv, HeardPast
<1>11. HeardStamped'
  BY <1>2, <1>4 DEF IInv, HeardStamped, StampCovers
<1>12. NudgesSpacedUnlessRetried'
  BY <1>2 DEF IInv, NudgesSpacedUnlessRetried
<1> QED BY <1>5, <1>6, <1>7, <1>8, <1>9, <1>10, <1>11, <1>12 DEF IInv


LEMMA NextMembershipIInv ==
    ASSUME IInv, NEW r \in job.todo, NextMembership(r)
    PROVE  IInv'
<1>1. TypeOK
  BY DEF IInv
<1>2. /\ job.pc = "looping" /\ job' \in Job /\ job'.now = job.now
      /\ job'.todo = job.todo \ {r} /\ job'.flushed = job.flushed \cup job.dirty
      /\ UNCHANGED <<clock, members, activity, joins, logged, crashes, stirred, heard,
                     repeated, retried>>
  BY <1>1, NextMembershipEffect
<1>3. \/ /\ job'.dirty = {r} /\ job'.pc = "looping" /\ job'.member = job.member
      \/ /\ job'.dirty = {} /\ job'.pc = "sending" /\ job'.member = r
         /\ Recipients(r) # {}
         /\ job'.targets = UNION {DevicesOf[u] : u \in Recipients(r)}
  BY <1>1, NextMembershipEffect
<1>4. job.member = None /\ r \in Row /\ r # None
  BY <1>1, <1>2, JobFields, RowFields DEF TypeOK
<1>5. /\ Pending' \subseteq Pending /\ Loaded' \subseteq Loaded /\ Stamped \subseteq Stamped'
      /\ r \in Pending
  BY <1>2, <1>3, <1>4 DEF Pending, Loaded, Stamped
<1>6. TypeOK'
  <2>1. Cardinality(job'.dirty) <= 1
    <3>1. Cardinality({r}) = 1 /\ Cardinality({}) = 0
      BY FS_Singleton, FS_EmptySet
    <3>2. CASE job'.dirty = {r}
      BY <3>1, <3>2
    <3>3. CASE job'.dirty = {}
      BY <3>1, <3>3
    <3> QED BY <1>3, <3>2, <3>3
  <2>2. job'.todo \cap (job'.dirty \cup job'.flushed) = {}
    BY <1>1, <1>2, <1>3 DEF TypeOK
  <2>3. job'.pc = "sending" <=> job'.member # None
    BY <1>3, <1>4
  <2> QED BY <1>1, <1>2, <2>1, <2>2, <2>3 DEF TypeOK
<1>7. OneMembership' /\ CopiesCurrent'
  BY <1>2, <1>5 DEF IInv, OneMembership, CopiesCurrent
<1>8. RoundsInOrder'
  BY <1>2, <1>3 DEF RoundsInOrder
<1>9. PendingDue' /\ PendingSilent'
  BY <1>2, <1>3, <1>5 DEF IInv, PendingDue, PendingSilent
<1>10. HeardPast'
  BY <1>2, <1>3 DEF IInv, HeardPast
<1>11. HeardStamped'
  BY <1>2, <1>5 DEF IInv, HeardStamped, StampCovers
<1>12. NudgesTruthful'
  <2>1. SUFFICES ASSUME job'.pc = "sending"
                 PROVE  /\ r.user \notin stirred =>
                              \A entry \in activity[r.user] : entry[2] < job.now - Inactivity
                        /\ r.joined < job.now - Inactivity
                        /\ \A m \in members : SameSubject(m, r) /\ m.id # r.id
                                                 => m.joined >= job.now
                        /\ \E u \in Users \ {r.user} : DevicesOf[u] \subseteq job'.targets
    BY <1>2, <1>3, <1>4 DEF NudgesTruthful, SameSubject
  <2>2. r.user \notin stirred =>
           \A entry \in activity[r.user] : entry[2] < job.now - Inactivity
    BY <1>2, <1>5 DEF IInv, PendingSilent
  <2>3. r.joined < job.now - Inactivity
    BY <1>5 DEF IInv, PendingDue
  <2>4. \A m \in members : SameSubject(m, r) /\ m.id # r.id => m.joined >= job.now
    BY <1>1, <1>5, LoadedRows DEF IInv, CopiesCurrent
  <2>5. \E u \in Users \ {r.user} : DevicesOf[u] \subseteq job'.targets
    <3>1. PICK u \in Recipients(r) : TRUE
      BY <1>3, <1>4, <2>1
    <3>2. \A m \in members : m.user \in Users
      BY <1>1, RowFields DEF TypeOK
    <3>3. u \in Users \ {r.user}
      BY <3>1, <3>2 DEF Recipients, MembersOf
    <3>4. DevicesOf[u] \subseteq job'.targets
      BY <1>3, <1>4, <2>1, <3>1
    <3> QED BY <3>3, <3>4
  <2> QED BY <2>2, <2>3, <2>4, <2>5
<1>13. NudgesSpacedUnlessRetried'
  BY <1>2 DEF IInv, NudgesSpacedUnlessRetried
<1> QED BY <1>6, <1>7, <1>8, <1>9, <1>10, <1>11, <1>12, <1>13 DEF IInv

\* A push that goes out again to a device comes after the cooldown, if the stamps of
\* the subject are all there.
LEMMA CooldownOver ==
    ASSUME IInv, job.pc = "sending", NEW d \in Devices, Subject \notin retried,
           heard[d][Subject] # None
    PROVE  job.now - heard[d][Subject] > Cooldown
<1> DEFINE r == job.member
           time == heard[d][Subject]
<1>1. r \in Pending /\ r \in Row /\ job.now \in Nat
  BY LoadedRows, JobFields DEF IInv
<1>2. Subject \in Subjects /\ time \in Nat
  <2>1. Subject \in Subjects
    BY <1>1, RowFields DEF Subject
  <2> QED BY <2>1 DEF IInv, TypeOK
<1>3. StampCovers(r, time)
  BY <1>1, <1>2 DEF IInv, HeardStamped, Subject
<1>4. r.joined < job.now - Inactivity /\ (r.nudged = None \/ r.nudged < job.now - Cooldown)
  BY <1>1 DEF IInv, PendingDue
<1>5. r.joined \in Nat /\ (r.nudged # None => r.nudged \in Nat)
  BY <1>1, RowFields
<1> HIDE DEF r, time
<1>6. job.now - time > Cooldown
  BY <1>1, <1>2, <1>3, <1>4, <1>5, NudgeAssumption DEF StampCovers
<1> QED BY <1>6 DEF time

LEMMA SendRoundIInv ==
    ASSUME IInv, NEW delivered \in SUBSET job.targets, NEW failed \in SUBSET job.targets,
           SendRound(delivered, failed)
    PROVE  IInv'
<1>1. TypeOK
  BY DEF IInv
<1>2. /\ job.pc = "sending" /\ job.member \in Row /\ Subject \in Subjects
      /\ job' \in Job /\ job'.now = job.now /\ job'.pc = "looping" /\ job'.member = None
      /\ job'.todo = job.todo /\ job'.flushed = job.flushed
      /\ job'.dirty = IF failed = {} THEN {job.member} ELSE {}
      /\ retried' = retried \cup {s \in {Subject} : failed # {}}
      /\ UNCHANGED <<clock, members, activity, joins, logged, crashes, stirred>>
  <2>1. /\ job.pc = "sending" /\ job.member \in Row /\ Subject \in Subjects
        /\ job' \in Job /\ job'.now = job.now /\ job'.pc = "looping" /\ job'.member = None
        /\ job'.todo = job.todo /\ job'.flushed = job.flushed
    BY <1>1, SendRoundEffect
  <2>2. job'.dirty = IF failed = {} THEN {job.member} ELSE {}
    BY <1>1, SendRoundEffect
  <2>3. retried' = retried \cup {s \in {Subject} : failed # {}}
    BY <1>1, SendRoundEffect
  <2>4. UNCHANGED <<clock, members, activity, joins, logged, crashes, stirred>>
    BY <1>1, SendRoundEffect
  <2> QED BY <2>1, <2>2, <2>3, <2>4
<1>3. /\ heard' \in [Devices -> [Subjects -> Nat \cup {None}]]
      /\ \A d \in Devices, s \in Subjects :
            heard'[d][s] = IF d \in delivered /\ s = Subject THEN job.now ELSE heard[d][s]
  BY <1>1, SendRoundEffect
<1>4. /\ repeated' \subseteq repeated \cup {Subject}
      /\ Subject \in repeated' \ repeated =>
            \E d \in delivered : /\ heard[d][Subject] # None
                                 /\ job.now - heard[d][Subject] <= Cooldown
  BY <1>1, SendRoundEffect
<1>5. job.dirty = {} /\ job.member \notin job.todo /\ job.member \in Pending
  BY <1>1, <1>2, LoadedRows DEF IInv, RoundsInOrder
<1>6. /\ Pending' = job.todo /\ Pending' \subseteq Pending /\ Loaded' \subseteq Loaded
      /\ Stamped \subseteq Stamped' /\ (failed = {} => job.member \in Stamped')
  BY <1>2, <1>5 DEF Pending, Loaded, Stamped
<1>7. TypeOK'
  <2>1. Cardinality(job'.dirty) <= 1
    <3>1. Cardinality({job.member}) = 1 /\ Cardinality({}) = 0
      BY FS_Singleton, FS_EmptySet
    <3> QED BY <1>2, <3>1
  <2>2. job'.todo \cap (job'.dirty \cup job'.flushed) = {}
    BY <1>1, <1>2, <1>5 DEF TypeOK
  <2>3. repeated' \subseteq Subjects /\ retried' \subseteq Subjects
    BY <1>1, <1>2, <1>4 DEF TypeOK
  <2> QED BY <1>1, <1>2, <1>3, <2>1, <2>2, <2>3 DEF TypeOK
<1>8. OneMembership' /\ CopiesCurrent'
  BY <1>2, <1>6 DEF IInv, OneMembership, CopiesCurrent
<1>9. RoundsInOrder' /\ NudgesTruthful'
  BY <1>2 DEF RoundsInOrder, NudgesTruthful
<1>10. PendingDue' /\ PendingSilent'
  BY <1>2, <1>6 DEF IInv, PendingDue, PendingSilent
<1>11. HeardPast'
  <2>1. job.now <= clock /\ job.now \in Nat
    BY <1>1, JobFields DEF TypeOK
  <2> QED BY <1>2, <1>3, <2>1 DEF IInv, HeardPast
<1>12. HeardStamped'
  <2>1. SUFFICES ASSUME NEW d \in Devices, NEW s \in Subjects \ retried', heard'[d][s] # None
                 PROVE  /\ \A r \in members : <<r.pod, r.user>> = s =>
                              StampCovers(r, heard'[d][s]) \/ r \in Stamped'
                        /\ \A r \in Pending' : <<r.pod, r.user>> = s =>
                              StampCovers(r, heard'[d][s])
    BY <1>2 DEF HeardStamped, StampCovers
  <2>2. s \notin retried
    BY <1>2, <2>1
  <2>3. CASE heard'[d][s] = heard[d][s]
    BY <1>6, <2>1, <2>2, <2>3 DEF IInv, HeardStamped
  <2>4. CASE d \in delivered /\ s = Subject
    <3>1. failed = {} /\ heard'[d][s] = job.now
      BY <1>2, <1>3, <2>1, <2>4
    <3>2. ASSUME NEW r \in members, <<r.pod, r.user>> = s
          PROVE  StampCovers(r, job.now) \/ r \in Stamped'
      <4>1. SameSubject(r, job.member) /\ job.member \in Loaded
        BY <1>1, <1>5, <2>4, <3>2, LoadedRows DEF Subject, SameSubject
      <4>2. r = job.member \/ r.joined >= job.now
        BY <4>1 DEF IInv, CopiesCurrent
      <4> QED BY <1>6, <3>1, <4>2 DEF StampCovers
    <3>3. ASSUME NEW r \in Pending', <<r.pod, r.user>> = s
          PROVE  FALSE
      <4>1. SameSubject(r, job.member) /\ job.member \in Loaded /\ r \in Loaded
        BY <1>1, <1>5, <1>6, <2>4, <3>3, LoadedRows DEF Subject, SameSubject
      <4>2. r = job.member
        BY <4>1 DEF IInv, OneMembership
      <4> QED BY <1>5, <1>6, <3>3, <4>2
    <3> QED BY <3>1, <3>2, <3>3
  <2> QED BY <1>3, <2>1, <2>3, <2>4
<1>13. NudgesSpacedUnlessRetried'
  <2>1. ASSUME Subject \in repeated' \ repeated, Subject \notin retried
        PROVE  FALSE
    <3>1. PICK d \in delivered : /\ heard[d][Subject] # None
                                 /\ job.now - heard[d][Subject] <= Cooldown
      BY <1>4, <2>1
    <3>2. d \in Devices
      BY <1>1, <3>1, JobFields
    <3>3. job.now - heard[d][Subject] > Cooldown
      BY <1>2, <2>1, <3>1, <3>2, CooldownOver
    <3>4. heard[d][Subject] \in Nat /\ job.now \in Nat /\ Cooldown \in Nat
      BY <1>1, <1>2, <3>1, <3>2, JobFields, NudgeAssumption DEF TypeOK
    <3> QED BY <3>1, <3>3, <3>4
  <2> QED BY <1>2, <1>4, <2>1 DEF IInv, NudgesSpacedUnlessRetried
<1> QED BY <1>7, <1>8, <1>9, <1>10, <1>11, <1>12, <1>13 DEF IInv

\* An idle run has loaded nothing.
LEMMA IdleIInv ==
    ASSUME job' = NoJob
    PROVE  /\ Pending' = {} /\ Loaded' = {} /\ Stamped' = {}
           /\ CopiesCurrent' /\ RoundsInOrder' /\ PendingDue' /\ PendingSilent'
           /\ NudgesTruthful'
<1>1. /\ job'.pc = "idle" /\ job'.todo = {} /\ job'.member = None /\ job'.dirty = {}
      /\ job'.flushed = {}
  BY NoJobRecord
<1>2. Pending' = {} /\ Loaded' = {} /\ Stamped' = {}
  BY <1>1 DEF Pending, Loaded, Stamped
<1> QED BY <1>1, <1>2 DEF CopiesCurrent, RoundsInOrder, PendingDue, PendingSilent, NudgesTruthful

LEMMA IdleType ==
    ASSUME TypeOK, job' = NoJob, UNCHANGED <<clock, activity, joins, logged, stirred, heard, repeated>>,
           crashes' \in 0 .. CrashBound, members' \subseteq Row, retried' \subseteq Subjects
    PROVE  TypeOK'
<1>1. /\ job' \in Job /\ job'.now = 0 /\ job'.todo = {} /\ job'.pc = "idle"
      /\ job'.member = None /\ job'.dirty = {}
  BY NoJobRecord
<1>2. Cardinality(job'.dirty) <= 1
  BY <1>1, FS_EmptySet
<1>3. job'.now <= clock'
  BY <1>1, NudgeAssumption DEF TypeOK
<1> QED BY <1>1, <1>2, <1>3 DEF TypeOK

LEMMA CommitIInv ==
    ASSUME IInv, CommitNudges
    PROVE  IInv'
<1>1. TypeOK
  BY DEF IInv
<1>2. /\ job.pc = "looping" /\ job.todo = {} /\ job' = NoJob
      /\ UNCHANGED <<clock, activity, joins, logged, crashes, stirred, heard, repeated, retried>>
  BY <1>1, CommitEffect
<1>3. \A m \in members' : \E r \in members :
         /\ m.id = r.id /\ SameSubject(m, r) /\ m.joined = r.joined /\ m \in Row
         /\ m = IF r \in Stamped THEN [r EXCEPT !.nudged = job.now] ELSE r
         /\ m.nudged = IF r \in Stamped THEN job.now ELSE r.nudged
  BY <1>1, CommitEffect
<1>4. /\ Pending' = {} /\ Loaded' = {} /\ Stamped' = {}
      /\ CopiesCurrent' /\ RoundsInOrder' /\ PendingDue' /\ PendingSilent' /\ NudgesTruthful'
  BY <1>2, IdleIInv
<1>5. TypeOK'
  <2>1. members' \subseteq Row /\ crashes \in 0 .. CrashBound /\ retried \subseteq Subjects
    BY <1>1, <1>3 DEF TypeOK
  <2> QED BY <1>1, <1>2, <2>1, IdleType
<1>6. OneMembership'
  <2>1. ASSUME NEW m \in members', NEW n \in members', SameSubject(m, n) PROVE m = n
    <3>1. PICK r \in members :
             /\ SameSubject(m, r)
             /\ m = IF r \in Stamped THEN [r EXCEPT !.nudged = job.now] ELSE r
      BY <1>3
    <3>2. PICK q \in members :
             /\ SameSubject(n, q)
             /\ n = IF q \in Stamped THEN [q EXCEPT !.nudged = job.now] ELSE q
      BY <1>3
    <3>3. SameSubject(r, q)
      BY <2>1, <3>1, <3>2 DEF SameSubject
    <3>4. r = q
      BY <3>3 DEF IInv, OneMembership
    <3> QED BY <3>1, <3>2, <3>4
  <2> QED BY <1>4, <2>1 DEF OneMembership
<1>7. HeardPast'
  <2>1. job'.pc = "idle"
    BY <1>2, NoJobRecord
  <2> QED BY <1>2, <2>1 DEF IInv, HeardPast
<1>8. HeardStamped'
  <2>1. ASSUME NEW d \in Devices, NEW s \in Subjects \ retried, heard[d][s] # None,
               NEW m \in members', <<m.pod, m.user>> = s
        PROVE  StampCovers(m, heard[d][s])
    <3>1. PICK r \in members :
             /\ SameSubject(m, r) /\ m.joined = r.joined
             /\ m.nudged = IF r \in Stamped THEN job.now ELSE r.nudged
      BY <1>3
    <3>2. <<r.pod, r.user>> = s
      BY <2>1, <3>1 DEF SameSubject
    <3>3. StampCovers(r, heard[d][s]) \/ r \in Stamped
      BY <2>1, <3>2 DEF IInv, HeardStamped
    <3>4. heard[d][s] <= job.now /\ job.now \in Nat /\ heard[d][s] \in Nat /\ job.now # None
      <4>1. job.now \in Nat /\ heard[d][s] \in Nat
        BY <1>1, <2>1, JobFields DEF TypeOK
      <4> QED BY <1>2, <2>1, <4>1, NudgeAssumption DEF IInv, HeardPast
    <3>5. CASE r \in Stamped
      BY <3>1, <3>4, <3>5 DEF StampCovers
    <3>6. CASE r \notin Stamped
      BY <3>1, <3>3, <3>6 DEF StampCovers
    <3> QED BY <3>5, <3>6
  <2> QED BY <1>2, <1>4, <2>1 DEF HeardStamped, StampCovers
<1>9. NudgesSpacedUnlessRetried'
  BY <1>2 DEF IInv, NudgesSpacedUnlessRetried
<1> QED BY <1>4, <1>5, <1>6, <1>7, <1>8, <1>9 DEF IInv

LEMMA AbandonIInv ==
    ASSUME IInv, StaleStamp \/ Crash
    PROVE  IInv'
<1>1. TypeOK
  BY DEF IInv
<1>2. /\ job' = NoJob
      /\ retried' = retried \cup {<<r.pod, r.user>> : r \in Stamped}
      /\ UNCHANGED <<clock, members, activity, joins, logged, stirred, heard, repeated>>
      /\ crashes' = crashes \/ (crashes < CrashBound /\ crashes' = crashes + 1)
  BY AbandonEffect
<1>3. /\ Pending' = {} /\ Loaded' = {} /\ Stamped' = {}
      /\ CopiesCurrent' /\ RoundsInOrder' /\ PendingDue' /\ PendingSilent' /\ NudgesTruthful'
  BY <1>2, IdleIInv
<1>4. TypeOK'
  <2>1. crashes' \in 0 .. CrashBound
    BY <1>1, <1>2, NudgeAssumption DEF TypeOK
  <2>2. retried' \subseteq Subjects
    <3>1. \A r \in Stamped : <<r.pod, r.user>> \in Subjects
      BY <1>1, LoadedRows, RowFields
    <3> QED BY <1>1, <1>2, <3>1 DEF TypeOK
  <2>3. members' \subseteq Row
    BY <1>1, <1>2 DEF TypeOK
  <2> QED BY <1>1, <1>2, <2>1, <2>2, <2>3, IdleType
<1>5. OneMembership'
  BY <1>2, <1>3 DEF IInv, OneMembership
<1>6. HeardPast'
  <2>1. job'.pc = "idle"
    BY <1>2, NoJobRecord
  <2> QED BY <1>2, <2>1 DEF IInv, HeardPast
<1>7. HeardStamped'
  <2>1. ASSUME NEW d \in Devices, NEW s \in Subjects \ retried', heard[d][s] # None,
               NEW m \in members, <<m.pod, m.user>> = s
        PROVE  StampCovers(m, heard[d][s])
    <3>1. s \notin retried /\ m \notin Stamped
      BY <1>2, <2>1
    <3> QED BY <2>1, <3>1 DEF IInv, HeardStamped
  <2> QED BY <1>2, <1>3, <2>1 DEF HeardStamped, StampCovers
<1>8. NudgesSpacedUnlessRetried'
  BY <1>2 DEF IInv, NudgesSpacedUnlessRetried
<1> QED BY <1>3, <1>4, <1>5, <1>6, <1>7, <1>8 DEF IInv

-----------------------------------------------------------------------------
(* The theorems.                                                           *)

LEMMA InitIInv == Init => IInv
<1> SUFFICES ASSUME Init PROVE IInv
  OBVIOUS
<1>1. /\ clock = 0 /\ job = NoJob /\ joins = 0 /\ logged = 0 /\ crashes = 0 /\ stirred = {}
      /\ activity = [u \in Users |-> {}]
      /\ heard = [d \in Devices |-> [s \in Subjects |-> None]]
      /\ repeated = {} /\ retried = {}
      /\ members = {[id |-> 0, pod |-> founder[1], user |-> founder[2], joined |-> 0,
                     nudged |-> None] : founder \in Founders}
  BY DEF Init
<1>2. /\ job \in Job /\ job.pc = "idle" /\ job.now = 0 /\ job.todo = {}
      /\ job.member = None /\ job.dirty = {} /\ job.flushed = {}
  BY <1>1, NoJobRecord
<1>3. \A m \in members : \E founder \in Pods \X Users :
         /\ m = [id |-> 0, pod |-> founder[1], user |-> founder[2], joined |-> 0, nudged |-> None]
         /\ m \in Row /\ m.pod = founder[1] /\ m.user = founder[2]
  BY <1>1, NudgeAssumption DEF Row
<1>4. /\ Pending = {} /\ Loaded = {}
  BY <1>2 DEF Pending, Loaded
<1>5. TypeOK
  <2>1. members \subseteq Row
    BY <1>3
  <2>2. Cardinality(job.dirty) <= 1
    BY <1>2, FS_EmptySet
  <2>3. /\ clock \in 0 .. Horizon /\ joins \in 0 .. JoinBound /\ logged \in 0 .. ActivityBound
        /\ crashes \in 0 .. CrashBound /\ job.now <= clock
    BY <1>1, <1>2, NudgeAssumption
  <2>4. heard \in [Devices -> [Subjects -> Nat \cup {None}]]
    BY <1>1
  <2> QED BY <1>1, <1>2, <2>1, <2>2, <2>3, <2>4 DEF TypeOK
<1>6. OneMembership
  <2>1. \A m, r \in members : SameSubject(m, r) => m = r
    BY <1>3 DEF SameSubject
  <2> QED BY <1>4, <2>1 DEF OneMembership
<1>7. CopiesCurrent /\ RoundsInOrder /\ PendingDue /\ PendingSilent /\ NudgesTruthful
  BY <1>1, <1>2, <1>4 DEF CopiesCurrent, RoundsInOrder, PendingDue, PendingSilent, NudgesTruthful
<1>8. HeardPast /\ HeardStamped /\ NudgesSpacedUnlessRetried
  BY <1>1 DEF HeardPast, HeardStamped, NudgesSpacedUnlessRetried
<1> QED BY <1>5, <1>6, <1>7, <1>8 DEF IInv

LEMMA StutterIInv ==
    ASSUME IInv, UNCHANGED vars
    PROVE  IInv'
<1>1. UNCHANGED <<clock, members, activity, job, joins, logged, crashes, stirred, heard,
                  repeated, retried>>
  BY DEF vars
<1>2. TypeOK' /\ Pending' = Pending /\ Loaded' = Loaded /\ Stamped' = Stamped
  BY <1>1 DEF IInv, TypeOK, Pending, Loaded, Stamped
<1>3. OneMembership' /\ CopiesCurrent' /\ RoundsInOrder' /\ PendingDue' /\ PendingSilent'
  BY <1>1, <1>2 DEF IInv, OneMembership, CopiesCurrent, RoundsInOrder, PendingDue, PendingSilent
<1>4. HeardPast' /\ HeardStamped' /\ NudgesTruthful' /\ NudgesSpacedUnlessRetried'
  BY <1>1, <1>2 DEF IInv, HeardPast, HeardStamped, StampCovers, NudgesTruthful,
                    NudgesSpacedUnlessRetried
<1> QED BY <1>2, <1>3, <1>4 DEF IInv

LEMMA NextIInv == IInv /\ [Next]_vars => IInv'
<1> SUFFICES ASSUME IInv, [Next]_vars PROVE IInv'
  OBVIOUS
<1>1. CASE JobStep
  BY <1>1, StartIInv, CheckIInv, CommitIInv, AbandonIInv, NextMembershipIInv, SendRoundIInv
     DEF JobStep
<1>2. CASE Tick \/ RequestStep
  BY <1>2, RequestIInv
<1>3. CASE Crash
  BY <1>3, AbandonIInv
<1>4. CASE UNCHANGED vars
  BY <1>4, StutterIInv
<1> QED BY <1>1, <1>2, <1>3, <1>4 DEF Next

LEMMA Inductive == Spec => []IInv
BY InitIInv, NextIInv, PTL DEF Spec

\* The memberships, the activity and the run of the job (notification_service.py:97)
\* keep their types; a membership is never both still to be pushed about and stamped.
THEOREM PodNudgesTypeOK == Spec => []TypeOK
<1>1. IInv => TypeOK
  BY DEF IInv
<1> QED BY <1>1, Inductive, PTL

\* A push about a member goes out only if the member was silent and in the pod since
\* the threshold (pod_service.py:285), unless an activity was logged after the check or
\* a new membership replaced the old one during the run; and not to nobody.
THEOREM PodNudgesAreTruthful == Spec => []NudgesTruthful
<1>1. IInv => NudgesTruthful
  BY DEF IInv
<1> QED BY <1>1, Inductive, PTL

\* No device hears about a member of a pod twice within the cooldown (README.md:12),
\* whoever leaves, joins again or logs activities under the job, unless a round failed
\* in part or a stamp was lost.
THEOREM PodNudgesAreSpaced == Spec => []NudgesSpacedUnlessRetried
<1>1. IInv => NudgesSpacedUnlessRetried
  BY DEF IInv
<1> QED BY <1>1, Inductive, PTL
=============================================================================
