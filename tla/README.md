# Notes of Accountability: formal models

Notes of Accountability is a study companion: notes, tasks with reminders, a focus timer,
exam preparation, and accountability pods whose members see each other's streaks and are
told when one of them goes quiet. A Next.js frontend talks to a FastAPI backend; the
backend runs four uvicorn workers over PostgreSQL, with an optional Redis cache, and every
worker has a scheduler of its own.

This directory holds TLA+ models of the parts where order, failure and concurrency decide
whether the program is right, TLC configurations that check small instances, and TLAPS
proofs for all values of the constants. `PROJECT.json` maps every definition to the lines
it models and lists runs, hazards, findings and theorems. Paths below are relative to
`src/`; services are in `backend/app/services/`.

    tlc -config VersionedCache_safety.cfg VersionedCache.tla    # a run
    tlapm TaskReminderProofs.tla                                  # a proof module

## 1. Inventory

| component | state | operations | interacts with |
| --- | --- | --- | --- |
| Cache (`core/cache.py`) | version counters and entries with a TTL in Redis | `get_version(s)`, `get_json`/`mget_json`, `set_json`/`mset_json`, `bump_version`; every failure is swallowed | notes, tasks, exam prep, pods, seed script |
| Notes (`note_service.py`) | `notes` rows | list, get, create, update, delete; each write bumps the owner's version after its commit | cache |
| Exam preparation (`exam_prep_service.py`, `scripts/seed_exam_config.py`) | subjects and config of a track, study sessions | list subjects, log a session, list sessions, allocation, seed | cache (two scopes), streaks |
| Tasks (`task_service.py`) | `tasks` rows: status, due date, lead time, two stamps, `completed_at` | list, get, create, update, delete | cache, due-task job, streaks |
| Due-task job (`notification_service.py`) | advisory lock, copies of rows, stamps to commit | every minute in every worker: lock, load, push, stamp, commit | tasks, push subscriptions |
| Pods (`pod_service.py`) | `pods`, `pod_memberships` with `last_nudge_sent_at` | create, join, leave, feed, streaks | cache, nudge job |
| Nudge job (`notification_service.py`) | advisory lock, quiet memberships, stamps | every 30 minutes in every worker | pods, activity, push subscriptions |
| Accounts and login (`auth_service.py`) | `users`, failed logins in memory of each worker | register, authenticate with lockout, update profile | rate limiter, tokens |
| Tokens (`auth_service.py`, `api/deps.py`) | `refresh_tokens` rows, cookies | issue, rotate, revoke one, revoke all | accounts |
| Rate limiter (`core/middleware.py`) | hits per client in memory of each worker | admit or answer 429 | every request |
| Push subscriptions (`push_subscription_service.py`) | `push_subscriptions` rows | upsert by endpoint, delete, delete by a job | both jobs |
| Focus timer (`lib/useFocusTimer.ts`, `timer/page.tsx`, `exam-prep/page.tsx`) | countdown per tab, durations and stats in localStorage, a banner | start, pause, reset, change mode or durations, tick, completion, POST | study sessions, streaks |
| Session state (`lib/AuthContext.tsx`) | user, loading, request id | refresh, setUser, logout | `/api/auth/*` |
| Data hooks and pages | lists on screen | load, change, load again | the API |

Configuration, the database engine, logging, migrations, containers and visual components
keep no state whose order matters.

What is hard, and what makes each component right:

* **Cache.** A read takes its versions, misses, queries and fills while writes commit and
  increment. Right: a read that starts after a write was answered shows the write; what
  Redis fails to do costs at most the TTL.
* **Allocation.** It reads two versions and builds on a second cached read, against the
  lock-free seed script. Right: logged study time is never missing, and a list of
  subjects is stale only where the orders cross.
* **Due-task job.** It loads rows, waits for the network, and writes stamps computed from
  what it loaded, while requests edit and delete the rows; one failed row fails the
  commit of all. Right: a stamp belongs to the schedule in its row, no reminder is pushed
  twice without a reason, each is pushed in the end.
* **Nudge job.** The activity is read once, the stamps are autoflushed one behind, rounds
  fail in part, members leave and come back. Right: nudges are true and spaced, and no
  quiet member is looked at for ever.
* **Focus timer.** Two tabs share localStorage, clicks come between the last second and
  the effect that handles it, requests and replies are lost and cross. Right: the time
  claimed was run, a lost save is announced, the server's streak keeps up with the one
  on the screen.
* **Login.** A check, an await, a record; pruning, refusing and evicting share one
  dictionary. Right: the limits hold per worker in every window, and what a refusal says
  of the time to come is true.
* **Tokens.** Rotation by two requests; replies lost after the commit; sign-outs that
  cross both. Right: a sign-out leaves no usable token of the session, a session does not
  fork, a device that loses nothing is not signed out as a replay.
* **Push subscriptions.** One browser used by two people; both jobs delete rows inside
  long transactions. Right: a browser is registered as it asked, a stamped reminder was
  shown, nobody waits for ever.
* **Session state of the tab.** Answers of four kinds of requests in any order. Right:
  the user shown is the one the requests are made as.

The hazards, with the line where each bites and the property that watches it or the reason
why none does yet, are in `PROJECT.json`.

## 2. Modules

### FreshReads and VersionedCache (`core/cache.py`, `note_service.py`, streak keys)

`FreshReads` is the promise of a cached endpoint: every read answers with the data as
committed at some moment of the request, or later than every write answered before it
began. It knows nothing of Redis. `VersionedCache` is the mechanism:

| code | model |
| --- | --- |
| Redis counters `ver:<scope>:<owner>` | `version`, one number per scope |
| entries under `...:v<versions>` | `cache`, records of a key (versions) and a content |
| `get_version(s)`, `get_json`, the query, `set_json`, the return | `GetVersions`, `LookupHit`/`LookupMiss`, `QueryDb`, `Fill`, `Return` of a reader |
| commit, then `bump_version`, then the response | `Commit`, `BumpVersion` |
| failed commands, eviction, TTL, a worker dying after the commit | elements of `Faults`, `Expire`, `Flush`, `CrashWriter` |

Contents are counts of commits, so "older" is a comparison. `cache_safety` shows
`FreshAnswers` and the refinement `FreshReadsPromise` under the faults the design
tolerates (a failed GET or SET, a crash before the increment); the two scopes are what a streak depends on. Two readers, one on each side of a write, and one
write per scope show every race of a fill with an increment; more writes repeat it.
`cache_ttl` turns on every fault, lost increments and flushed counters included, and shows
that once the writes cease every entry and answer becomes current. A failed read of the
counters yields version 0, under which an old entry may still live; it is excluded from
`cache_safety` for that reason and costs at most a TTL (`cache_ttl`).

### ExamAllocation (`exam_prep_service.py`, `seed_exam_config.py`)

The same mechanism where it is composed: `get_subject_allocation` reads the subjects
through their own cache entry, then the study version, then the ref version, and caches
the result under both. Actions follow that order; the seed script commits and increments
like a writer, a session bumps the study scope. `allocation_safety` shows that subject lists
and study time are fresh, and that an allocation shows old subjects only if the ref
version changed between its two uses (all in `StaleOnlyWhereRaced`). A session
may name a subject: `CheckSubject` finds it among the active ones, `CommitTagged` inserts
the session later, and `TaggedTimeReported` says when its time can still be missing from
a report: a later seed retired the subject. One session and one reseed after the first
suffice for the race of each pair of steps; a second of either repeats it.

### TaskReminders (`task_service.py`, the due-task job)

| code | model |
| --- | --- |
| a `tasks` row | `row[t]`: status, due, lead, notified, reminded, completed; `life[t]` |
| `PATCH`: load, change in memory, UPDATE of changed columns | `LoadForUpdate`, `Patched`, `CommitUpdate` with `WriteBack` |
| `pg_try_advisory_xact_lock`, candidate query, rounds, commit | `TryLock`, `LoadCandidates`, `SendTask`, `CommitJob` of a worker |
| StaleDataError, crash | `StaleCommit`, `Crash` |

Several workers compete for the lock, several requests edit, time passes. History
variables record overlaps (`raced`, `clashed`), pushes and resets. `reminders_safety` (one
task, two edits by two requests, two workers, due dates on both sides of the clock) holds
every overlap of two edits and a job run; a third edit meets the same states.
`reminders_liveness` has two tasks in one run, because the commit of one depends on the
other. `reminders_silenced` shows the unconditional statement of the stamps violated.

### PodNudges (`pod_service.py`, the nudge job)

Memberships with their age and stamp, activities with their time, and the one run that
holds the lock: `StartNudges` (memberships due), `CheckActivity` (one query for all),
`NextMembership`, `SendRound` (any part of the devices fails), `Stamp` with autoflush at
the next query, `CommitNudges`, `StaleStamp`, `Crash`; `Join`, `Leave`, `LogActivity`
(backdated sessions included) and `Reopen` run at any time. `nudges_safety` has one pod of
two members, one of them with two devices (a round can fail in part), thresholds of one
tick and a clock of three, so every comparison meets its boundary.

### FocusTimer (`useFocusTimer.ts`, both pages, `log_study_session`, the streak)

| code | model |
| --- | --- |
| React state of a mounted page | `page[t]` |
| localStorage | `storedDurations`, `storedStats` |
| the interval, the completion effect | `Tick`, `FocusOver`/`BreakOver`: two steps, a click can come between |
| buttons and settings | `Start`, `Pause`, `Reset`, `ChangeMode`, `UpdateDurations` |
| `api.post` and its catch, `loadAllocation` | `posts` with phases, `Save`, `Reply`, `Refreshed`, `Fail` |
| `_streak_from_timestamps` | `ServerStreak` |

`timer_safety` has two tabs, each on either page, two completed sessions, two days, one
change of durations (a countdown of two seconds next to those of one), two sessions to a
long break and a lookback of one day, so the cap is reached. Two completions are what
crossing replies, a stale tab and a streak over midnight need. After the last completion
nobody clicks, which cuts only states no property tells apart.

### LoginAdmission (`core/middleware.py`, `authenticate_user`)

| code | model |
| --- | --- |
| `_hits`, `_failed_attempts`: OrderedDicts of deques of monotonic times | `hits` with `hitOrder`, `failed` with `failedOrder` |
| `RateLimitMiddleware.dispatch` | `Refuse`, `Admit` (`AdmitLogin`, `AdmitOther`) |
| `_check_and_record_lockout` up to the query | `RefuseAccount`, `PassAccount` |
| after the query | `WrongPassword`, `RightPassword`, `Abort` |

One worker: workers share nothing, and between two awaits the event loop runs one request.
Names that `Sessions` has too carry a prefix (`AdmissionTypeOK`, `AdmissionSpec`, `login`),
because `AuthProofs` extends both modules.
History keeps what each client was granted and each account failed since it was last
forgotten, and what each refusal promised. `login_safety` has caps smaller than the number
of clients and accounts, so eviction happens; limits of two, windows of one and two ticks
and two ticks to a second, so fractions, equality with the window and the rounding of
Retry-After occur; two logins in flight, so the check and the record interleave. Four
requests fill a limit of two, exceed it, and come back after it.

### Sessions (`auth_service.py`, `api/routers/auth.py`, `api/deps.py`)

| code | model |
| --- | --- |
| rows of `refresh_tokens` | `token`, numbered in the order of issue |
| the two cookies of a device | `cookie[d]`: they are set and cleared together |
| a request between two awaits | `request[r].pc`: `Register`, `Issue`, `Lookup`, `Rotate`, `LogoutLookup`, `Revoke`, `Collect`, `Sweep`, `Receive` |
| a dying worker, a lost answer | `Lose` |

A session is the chain of tokens that goes back to one login; the table has no such
column, so it is history, and a token that escapes a sign-out in flight starts a session
of its own. Whether a token has expired is left open at every look. `sessions_safety` has
one account (accounts meet only in the unique email), two devices, two requests and three
pairs of tokens: a login on each device and a rotation, or a login and two rotations of
one token. Users are never deleted, as in the code.

### PushSubscriptions (`push_subscription_service.py`, both jobs)

The rows, the requests that upsert and remove them, and the transactions of the two jobs,
reduced to what they do to rows: `StartDue` loads copies, `DueRound` pushes to each device
with those copies and prunes the ones reported gone, `FlushRow` deletes in the order of the
keys, `NudgeRound` autoflushes before its queries, `Commit` applies. Row locks are
explicit: a statement waits (`Free`, `Waits`) while another transaction has deleted its
row; `BreakCircle` is PostgreSQL's deadlock detection. It takes apart, device by
device, the rounds that are one step each in `TaskReminders` and `PodNudges`. `push_safety` has
a user with two browsers, another who sits down at one of them, two requests, two runs of
the due-task job (a repeat needs two) beside one of the nudge job with two rounds (the
second flushes the first), and one crash.

### ClientSession (`AuthContext.tsx`, login, signup, logout, opt-in, `update_profile`)

`page` is the provider's user, loading flag and request id; `call` the requests under way,
of the tab (`ours`) and of other devices. `Serve`, `CommitPatch` and `AnswerPatch` are the
server, with the UPDATE of the columns changed since the load; `ReceiveMe`, `ReceiveLogin`,
`ReceiveLogout`, `ReceivePatch` and `Fail` what the tab does with the outcome. `doubt`
records why the tab may show something else than the cookie: the cookie ran out, `/me`
failed, or the answer to an overtaken opt-in was shown. `client_safety` has two users, three
requests at a time and four clicks: enough for a login, an opt-in, a logout and another
login around the `/me` of the start, and for two updates of one profile to overlap.

## 3. Runs

| run | expected | question |
| --- | --- | --- |
| `cache_safety` | pass | are cached answers as fresh as the database, and is that an implementation of `FreshReads`? |
| `cache_ttl` | pass | does every staleness end, whatever Redis fails to do? |
| `allocation_safety` | pass | what can an allocation be stale in, and when? |
| `reminders_safety` | pass | do stamps, completion dates and pushes stay consistent under edits and competing workers? |
| `reminders_liveness` | pass | is a due task notified in the end? |
| `reminders_silenced` | violation | does a stamp always belong to the current schedule? |
| `nudges_safety` | pass | are nudges true, spaced unless retried, and never withheld for ever? |
| `timer_safety` | pass | is the time real, is a failed save announced, do the two streaks agree? |
| `login_safety` | pass | do the limits hold in every window, and is every refusal's promise kept? |
| `sessions_safety` | pass | do sign-outs last, sessions stay single, and honest devices stay signed in? |
| `push_safety` | pass | do registrations end as asked and reminders reach every device, without waiting for ever? |
| `client_safety` | pass | does the tab show who is signed in, and is a student's profile complete? |

The largest, `allocation_safety`, `timer_safety` and `push_safety`, have three to six
million states and take two minutes or less with two workers.

`CHECK_DEADLOCK FALSE` is set where a behaviour may end because its inputs are bounded: the
days and clicks of `timer_safety` and `client_safety`, the clock and requests of
`login_safety`, the requests and runs of `push_safety`. That transactions do not wait for
ever is stated there as an invariant (`OnlyJobsCircle`).

### Fairness

* `VersionedCache`: a request that has begun goes on (an event loop schedules every
  task), and the entries of every key expire (each `SET` has `ex`). No one has to read or
  write.
* `TaskReminders`, `PodNudges`: the clock goes on and every worker's scheduler keeps
  starting its job (`main.py:23-32`), which its process drives on: weak fairness. Push
  services that are tried on every run accept a whole round at some point: strong
  fairness on the successful round, because failures in between disable it again and
  again. Without it a device that fails for ever keeps a membership unstamped for ever,
  which is what the code does. No request is fair.
* The other modules state no liveness: nothing in them has to happen unless a person acts,
  and what must not get stuck is an invariant (`OnlyJobsCircle`, and in `ShownIsSignedIn` the wait
  of a loading page for the `/me` that ends it).

## 4. Findings

**A rescheduled task can be silenced** (`reminders_silenced`). The job stamps a copy loaded
before its pushes; its commit puts the stamp of the old schedule on the row a PATCH has
meanwhile rescheduled, and the task is never a candidate again.

The other properties hold, several of them with an exception in their statement. Each
exception is a place where the code does less than its comments say:

* **Status and completion date can part ways** (`CompletionMatchesUnlessClashed`,
  `models/task.py:34`). Of two overlapping PATCHes each writes the columns it changed; the
  row can end in progress with `completed_at` set. `StudentHasTrack` is the same for
  `is_student` and `exam_track`.
* **The nudge cooldown does not hold while one device fails**
  (`NudgesSpacedUnlessRetried`, `README.md:12`). The membership is stamped only after a
  round without a failure, and all the others hear of the member again on every run. The
  due-task job repeats its reminders in the same way (`RepeatsAccounted`).
* **A seed can be missing from an allocation that is cached as current**
  (`StaleOnlyWhereRaced`, `seed_exam_config.py:76`). The allocation reads its subjects
  before the ref version its key is made of.
* **The banner contradicts the server** (`BannerTruthful`, `exam-prep/page.tsx:102`). The
  exam-prep page says the session "couldn't be saved" when the save was confirmed and only
  the reload failed; the timer page never does.
* **More failures than the maximum fit in a window** (`FailuresLimited`,
  `auth_service.py:19`). Requests that passed the check together are all tried. The lockout
  is counted from the last failure, but ends early when the first one leaves the window.
* **A revoked token need not have been rotated** (`ReuseMeansDisturbance`,
  `auth_service.py:170`). A lost answer, two requests at once or a sign-out elsewhere leave
  a device with a revoked token, and its next refresh ends all sessions of the user.
* **The jobs can block each other** (`OnlyJobsCircle`). "Distinct keys so the two jobs
  never block each other" (`notification_service.py:21`) is true of the advisory locks; the
  rows of dead subscriptions are locked too, and in different orders.
* **A late opt-in shows the previous user** (`ShownIsSignedIn`, `exam-prep/page.tsx:125`).

Also: a failed read of the counters is treated as version 0 (`cache.py`), under which
entries of the time before the first write may still be found until their TTL ends.

## 5. Theorems

All constants are arbitrary: any numbers of users, devices, tabs, rows, requests, workers
and any thresholds and bounds. The assumptions are the named `ASSUME` of each module: the
types of the constants, that `None` is none of the values it stands beside, and what a
deployment starts from (`PushSubscriptions`: registered rows are numbered from 1, one per
endpoint, with the keys their browsers have; `PodNudges`: the cooldown is no longer than
the threshold of inactivity, both 24 hours in the code; `LoginAdmission`: a lockout is no
shorter than the window of failures, both 15 minutes, and no window is negative). TLC evaluates them in every run.

Each proof goes the same way. Most properties are not inductive, because they speak of
what is visible at the end of a request, and what decides it is in flight before. The
inductive invariant (`IInv`, or one per property in `FocusTimerProofs`) adds what the
requests and copies in flight owe to the state of the moment. It was checked by TLC on the
instance of the module's run, then proved: one lemma says what an action changes, field by
field, and one per conjunct or group of conjuncts that these changes keep it.

* **`VersionedCacheProofs`**: `TypeOKTheorem`; `FreshAnswersTheorem`,
  `ReachableEntriesFreshTheorem` and `Refinement` (the cached endpoint implements
  `FreshReads`) as long as `Faults \subseteq SoundFaults`. An old entry is harmless only
  while its key is old: no key is ahead of the counters (`KeysNotAhead`), and whatever is
  stored (`EntriesFresh`) or about to be (`FillsFresh`) under a key covers every answered
  write that a request holding, or still able to take, that key has to see.
* **`ExamAllocationProofs`**: `ExamTypeOK`, `ExamFreshUnlessRaced`, `ExamTaggedTime`, under
  every fault the module has. The argument of the cache twice over, for the lists of
  subjects (`SubjectsFresh`) and for the allocations built on them (`TotalsFresh`,
  `AllocationsFresh`). The two meet in `BetweenIsRaced`: an allocation that has its
  subjects and not yet its ref version either knows all that was announced, or the version
  it will read is a raced one.
* **`TaskReminderProofs`**: `TypeOKTheorem`, `StampsTheorem`, `CompletionTheorem`,
  `PushesTheorem`, from one `InductiveInvariant`. The lock admits one run (`OneJob`); a row
  that no overlap touched equals the copy a run or a request holds (`CopiesCurrent`), so
  what they write fits it; a stamp in memory is for a reminder that was due and that no one
  else has stamped (`StampsJustified`); every successful round is in the row, in the memory
  of the run, or paid for by a reset or a lost run (`RoundsOnRecord`).
* **`PodNudgeProofs`**: `PodNudgesTypeOK`, `PodNudgesAreTruthful`, `PodNudgesAreSpaced`. A
  membership of the same person in the same pod is the one the run has copied or one that
  began during the run (`CopiesCurrent`), so what was due when it was loaded (`PendingDue`)
  and silent when it was checked (`PendingSilent`) still is. Whoever was heard about has a
  stamp at least as new, in the table, in the copies or in the run, or has joined since
  (`HeardStamped`): this is what makes the cooldown hold across two tables and a rejoin.
* **`FocusTimerProofs`**: `TypeOKTheorem` and the five other properties of the module.
  `TimeEarnedTheorem`: what has run and what is left add up to the length of the countdown
  whatever is clicked (`CountdownsAddUp`). `SilenceTheorem`: the server answers only for a
  session on record, and only a failure ends the wait for another, leaving a banner.
  `BannerTheorem`: the 201 settles a POST of the timer page, so a failure that comes later
  is about another session, and nobody waits for a session a banner is about
  (`BannersSettled`). `StatsTheorem`: a tab no other has overtaken has in memory what is
  stored (`FreshTabs`), and the updater makes of the stats of all sessions those of all
  sessions and one more (`NextStatsCount`, from `RunFacts` and `RunIs` about runs of days).
  `StreakTheorem`: every day that any stats count was earned (`StreakEarned`).
* **`AuthProofs`, of `Sessions`**: `SessionsTypeOK`, `SignOutIsFinal`, `RotationKeepsOneToken`,
  `ReuseIsNeverSpurious`. A session goes back to a token of the same user (`Rooted`). A
  rotation that no sign-out has overtaken is of a session that has not ended and, unless
  forked, is the only one of its session (`RotationsInTime`); a live token that a sweep
  will miss is newer than the sessions it ends (`SweepsMissNewOnly`); no two devices ever
  hold the same token (`TokensOfOneDevice`), and what an undisturbed device presents, or
  will hold after the answer, is alive (`UndisturbedAlive`).
* **`AuthProofs`, of `LoginAdmission`**: `AdmissionsTypeOK`, `WindowHoldsAnywhere`,
  `RetryAfterIsLongEnough`, `FailuresStayLimited` and the action property
  `ForgettingNeedsACrowd`, from `AdmissionIInv`, which has a part for each client, one for
  each account and one for the order of the clients. A deque is the end of what was granted
  (or failed) since the key was last forgotten, and what was taken off its front is older
  than the window (`Remains`). For a client that is enough (`ClientSound`): below the limit,
  the admission as many places back as the limit was taken off, so it is out of the window
  of the next. For an account the check and the failure are two steps, so room has to be
  reserved (`EmailSound`): with *n* requests past the check, every failure at least
  `MaxFailed + Cardinality(Logins) - 1 - n` places before the last is already out of the
  window. Passing the check makes *n* one larger, and there is room because fewer than
  the maximum count; a failure takes the room it was given; a lockout that is over leaves
  only failures that are out of the window, since a lockout is no shorter. What was
  promised is later than the first hit that counts leaves the window, or the lockout of the
  last failure ends, and stays so because only the front of a deque is taken off. The keys
  of a dict are in the order of the last requests (`SeenInOrder`): whoever is evicted is
  followed by as many others as the cap, each at least as recent. The lemmas on
  `Without`, `ToEnd`, `Kept`, `Pruned` and `RetryAfter` hold for all inputs.
* **`PushSubscriptionProofs`**: `PushTypeOK`, `PushStampedWasHeard`, `PushRepeatsAccounted`,
  `PushOnlyJobsCircle` and the action property `PushRegisteredAsAsked`. Keys of rows are
  serial numbers and never reused, so a copy or a lock still means the row it was taken
  from (`RequestsKnowRows`, `JobsKnowRows`, `HeldRows`, `LocksExclusive`). A request takes
  all its locks in one step and then waits for nothing, so a circle needs both jobs. What
  an uncontested request has seen of its endpoint is still so when it writes
  (`AloneIsSteady`). `StampedWasHeard` is proved for all rows a run served, still registered
  or not.
* **`ClientSessionProofs`**: `ClientTypeOK`, `ClientShowsWhoIsSignedIn`,
  `ClientStudentHasTrack` and the action property `ClientNeverOlder`. There is one `/me`,
  it has the first number, and while pages load it is under way (`OneMe`); what the tab
  will take was asked as the user of the cookie (`AskedAsCookie`); no profile is newer than
  its row, and none that the tab will take is older than the one shown (`AnswersNewer`).
  The bounds on numbers and versions (`RequestsCounted`, `VersionsCounted`) follow from
  counting the requests in flight, which is why the proof needs cardinalities.

The proofs changed the models where a type was too weak to reason from: the requests and
runs of `Sessions`, `PodNudges` and `PushSubscriptions` have record sets of their own, and
`TypeOK` says which fields a step may rely on. `Sweep` of `Sessions` no longer touches the
history `forked`, and `Fail` of `ClientSession` is for requests of this tab and for those
refused: other devices' requests need no failure of their own. `Without` of
`LoginAdmission` is the sequence without the one place of the key, and not a filter, whose
definition by recursion no proof here could unfold.

Model-checked only:

* liveness (`EventuallyCurrent`, `EventuallyNotified`, `EventuallyNudged`), which is beyond
  the prover, as is everything about `ENABLED`.

Every other property of a passing run is a theorem.

## 6. Not modelled, and the plan

Not modelled: the lists of the pages (tasks, pods, notes), which are loaded again after
each change without a guard against answers that cross, and which no other component
reads; several tabs over one cookie jar; rendering, sounds, logging, configuration,
migrations, containers (no state whose order matters); the hashing and encoding of tokens;
the allocation of random invite codes; the arithmetic of shares and the order of a feed,
which are pure functions of one query.

What remains:

1. Readability of the longest proofs (`AuthProofs`, `PushSubscriptionProofs`): lemmas
   that two of their actions share.
2. The lists of the pages, once they have a guard against answers that cross: until then
   the code promises nothing that could be checked.
