----------------------------- MODULE FocusTimer -----------------------------
(***************************************************************************)
(* The focus timer of the frontend (useFocusTimer.ts, FocusTimer.tsx), the *)
(* two pages that mount it (timer/page.tsx and exam-prep/page.tsx), the    *)
(* study session a completed countdown logs on the server, and the streak  *)
(* the server derives from the sessions (pod_service.py).                  *)
(*                                                                         *)
(* A browser has several tabs over one localStorage.  A second of the      *)
(* countdown and the effect that notices its end are two steps, so a click *)
(* can come between them.  The POST of a session may be lost, its reply    *)
(* may be lost, and a reply to an older session may come after a newer one *)
(* was posted.  Days are UTC on both sides: todayKey() and the server's    *)
(* occurred_at.                                                            *)
(***************************************************************************)
EXTENDS Integers, FiniteSets, FiniteSetsExt

CONSTANTS
    Tabs,
    Defaults,        \* [Modes -> Nat \ {0}]: DEFAULT_DURATIONS
    Offered,         \* durations the settings offer
    LongBreakAfter,  \* SESSIONS_BEFORE_LONG_BREAK
    Lookback,        \* _MAX_STREAK_LOOKBACK_DAYS
    None,            \* null
    Horizon,         \* bound: the last day
    FocusBound,      \* bound: focus sessions completed, after which nobody clicks
    EditBound        \* bound: changes of the durations in a behaviour

Modes == {"focus", "short_break", "long_break"}

ASSUME TimerAssumption ==
    /\ Defaults \in [Modes -> Nat \ {0}] /\ Offered \subseteq Nat \ {0}
    /\ LongBreakAfter \in Nat \ {0} /\ Lookback \in Nat \ {0}
    /\ None \notin Int /\ None \notin Tabs
    /\ Horizon \in Nat /\ FocusBound \in Nat /\ EditBound \in Nat

VARIABLES
    day,
    page,             \* [Tabs -> the page it shows and the state of its timer]
    storedDurations,  \* localStorage "noa.focusTimer.durations"
    storedStats,      \* localStorage "noa.focusTimer.stats"
    posts,            \* POSTs of study sessions that are not settled
    sessions,         \* the rows of study_sessions
    completions,      \* focus sessions completed, the source of their ids
    edits,            \* changes of the durations so far
    earned,           \* history: days a focus session was completed on
    behind,           \* history: tabs whose stats another tab has overtaken
    overwritten,      \* history: such a tab has written its stats
    confirmed         \* history: sessions whose 201 has reached the page

vars == <<day, page, storedDurations, storedStats, posts, sessions, completions,
          edits, earned, behind, overwritten, confirmed>>
server  == <<day, sessions>>
storage == <<storedDurations, storedStats>>
history == <<completions, edits, earned, behind, overwritten, confirmed>>

Days      == 0 .. Horizon
Ids       == 1 .. FocusBound
Durations == [Modes -> Nat \ {0}]
Stats     == [sessions : Nat, last : Days \cup {None}, streak : Nat]
NoStats   == [sessions |-> 0, last |-> None, streak |-> 0]

\* A POST: the session, the tab whose promise waits for it (None once that page is
\* gone), the page it came from, the time it claims, the time that ran.
Post == [id : Ids, tab : Tabs \cup {None}, from : {"timer", "exam"}, duration : Nat,
         ran : Nat, phase : {"sent", "saved", "refreshing"}]

\* left, running, inCycle: secondsLeft, running, completedInCycle.  error: the session
\* logError is about.  latest and ran are history: the last session completed on the
\* page and the seconds since the countdown was last full.
Closed == [at |-> "closed", durations |-> Defaults, mode |-> "focus", left |-> 0,
           running |-> FALSE, inCycle |-> 0, stats |-> NoStats, error |-> None,
           latest |-> None, ran |-> 0]

Page == [at : {"closed", "timer", "exam"}, durations : Durations, mode : Modes,
         left : Nat, running : BOOLEAN, inCycle : 0 .. LongBreakAfter - 1, stats : Stats,
         error : Ids \cup {None}, latest : Ids \cup {None}, ran : Nat]

Open(t) == page[t].at # "closed"

TypeOK ==
    /\ day \in Days
    /\ page \in [Tabs -> Page]
    /\ storedDurations \in Durations /\ storedStats \in Stats
    /\ posts \subseteq Post
    /\ sessions \subseteq [id : Ids, day : Days]
    /\ completions \in 0 .. FocusBound /\ edits \in 0 .. EditBound
    /\ earned \subseteq Days
    /\ behind \subseteq Tabs /\ overwritten \in BOOLEAN
    /\ confirmed \subseteq Ids

Init ==
    /\ day = 0 /\ page = [t \in Tabs |-> Closed]
    /\ storedDurations = Defaults /\ storedStats = NoStats
    /\ posts = {} /\ sessions = {} /\ completions = 0 /\ edits = 0
    /\ earned = {} /\ behind = {} /\ overwritten = FALSE /\ confirmed = {}

NextDay ==
    /\ day < Horizon
    /\ day' = day + 1
    /\ UNCHANGED <<page, storedDurations, storedStats, posts, sessions>>
    /\ UNCHANGED history

-----------------------------------------------------------------------------
(* The timer.                                                              *)

\* switchMode(mode, false), reset and updateDurations fill the countdown up again.
Refilled(p, mode) ==
    [p EXCEPT !.mode = mode, !.left = p.durations[mode], !.running = FALSE, !.ran = 0]

\* The effect on mount loads both entries of localStorage.
Mount(t, at) ==
    /\ ~Open(t)
    /\ page' = [page EXCEPT ![t] =
                  Refilled([Closed EXCEPT !.at = at, !.durations = storedDurations,
                                          !.stats = storedStats], "focus")]
    /\ behind' = behind \ {t}
    /\ UNCHANGED <<posts, completions, edits, earned, overwritten, confirmed>>
    /\ UNCHANGED server /\ UNCHANGED storage

\* Leaving the page or closing the tab.  Nobody waits for its POSTs any more.
Leave(t) ==
    /\ Open(t)
    /\ page' = [page EXCEPT ![t] = Closed]
    /\ posts' = {IF q.tab = t THEN [q EXCEPT !.tab = None] ELSE q : q \in posts}
    /\ UNCHANGED server /\ UNCHANGED storage /\ UNCHANGED history

Becomes(t, p) ==
    /\ Open(t)
    /\ page' = [page EXCEPT ![t] = p]
    /\ UNCHANGED posts
    /\ UNCHANGED server /\ UNCHANGED storage /\ UNCHANGED history

Click(t, p) == completions < FocusBound /\ Becomes(t, p)

Start(t) == ~page[t].running /\ Click(t, [page[t] EXCEPT !.running = TRUE])

Pause(t) == page[t].running /\ Click(t, [page[t] EXCEPT !.running = FALSE])

Reset(t) == Click(t, Refilled(page[t], page[t].mode))

ChangeMode(t, mode) == Click(t, Refilled(page[t], mode))

\* Mutant: new durations stop the timer but leave the countdown where it is.
WithDurationsOnly(p, next) == [p EXCEPT !.durations = next, !.running = FALSE]

WithDurations(p, next) == Refilled([p EXCEPT !.durations = next], p.mode)

\* One field of the settings changes; the whole record of this tab is stored.
UpdateDurations(t, mode, n) ==
    LET next == [page[t].durations EXCEPT ![mode] = n] IN
    /\ Open(t) /\ edits < EditBound /\ completions < FocusBound
    /\ page' = [page EXCEPT ![t] = WithDurations(page[t], next)]
    /\ storedDurations' = next
    /\ edits' = edits + 1
    /\ UNCHANGED <<storedStats, posts, completions, earned, behind, overwritten, confirmed>>
    /\ UNCHANGED server

\* The interval's callback.
Tick(t) ==
    /\ page[t].running /\ page[t].left > 0
    /\ Becomes(t, [page[t] EXCEPT !.left = @ - 1, !.ran = @ + 1])

\* Mutant: the cycle is never started over.
NextInCycleUnbounded(n) == n + 1

NextInCycle(n) == (n + 1) % LongBreakAfter

\* Mutant: a second session of a day counts as another day.
NextStatsEverySession(prev) ==
    [sessions |-> prev.sessions + 1,
     last     |-> day,
     streak   |-> IF prev.last \in {day, day - 1} THEN prev.streak + 1 ELSE 1]

\* The updater of setStats, from the stats this tab has in memory.
NextStats(prev) ==
    [sessions |-> prev.sessions + 1,
     last     |-> day,
     streak   |-> CASE prev.last = day -> prev.streak
                    [] prev.last = day - 1 -> prev.streak + 1
                    [] OTHER -> 1]

\* The effect after a focus countdown: stats, localStorage, POST, banner, next break.
FocusOver(t) ==
    LET p     == page[t]
        id    == completions + 1
        count == NextInCycle(p.inCycle)
        next  == NextStats(p.stats)
        break == IF count = 0 THEN "long_break" ELSE "short_break"
    IN
    /\ Open(t) /\ p.left = 0 /\ p.running /\ p.mode = "focus"
    /\ completions < FocusBound
    /\ page' = [page EXCEPT ![t] =
                  [Refilled(p, break) EXCEPT !.inCycle = count, !.stats = next,
                                             !.error = None, !.latest = id]]
    /\ storedStats' = next
    /\ posts' = posts \cup {[id |-> id, tab |-> t, from |-> p.at, phase |-> "sent",
                             duration |-> p.durations["focus"], ran |-> p.ran]}
    /\ completions' = id
    /\ earned' = earned \cup {day}
    /\ behind' = behind \cup {u \in Tabs \ {t} : Open(u)}
    /\ overwritten' = (overwritten \/ t \in behind)
    /\ UNCHANGED <<storedDurations, edits, confirmed>>
    /\ UNCHANGED server

BreakOver(t) ==
    /\ page[t].left = 0 /\ page[t].running /\ page[t].mode # "focus"
    /\ Becomes(t, Refilled(page[t], "focus"))

-----------------------------------------------------------------------------
(* The session on its way.                                                 *)

\* log_study_session commits the row, dated by the server's clock.
Save(q) ==
    /\ q \in posts /\ q.phase = "sent"
    /\ sessions' = sessions \cup {[id |-> q.id, day |-> day]}
    /\ posts' = (posts \ {q}) \cup {[q EXCEPT !.phase = "saved"]}
    /\ UNCHANGED <<day, page>> /\ UNCHANGED storage /\ UNCHANGED history

\* Mutant: the banner is taken down by a success instead of by the next completion.
ReplyClearsBanner(q) ==
    /\ q \in posts /\ q.phase = "saved"
    /\ posts' = posts \ {q}
    /\ page' = IF q.tab = None THEN page ELSE [page EXCEPT ![q.tab].error = None]
    /\ confirmed' = confirmed \cup {q.id}
    /\ UNCHANGED <<completions, edits, earned, behind, overwritten>>
    /\ UNCHANGED server /\ UNCHANGED storage

\* Mutant: both pages load the allocation after the POST.
ReplyReloads(q) ==
    /\ q \in posts /\ q.phase = "saved"
    /\ posts' = (posts \ {q}) \cup {[q EXCEPT !.phase = "refreshing"]}
    /\ confirmed' = IF q.tab = None THEN confirmed ELSE confirmed \cup {q.id}
    /\ UNCHANGED <<page, completions, edits, earned, behind, overwritten>>
    /\ UNCHANGED server /\ UNCHANGED storage

\* The 201.  The timer page is done; logStudySession of the exam page goes on to
\* load the allocation.
Reply(q) ==
    /\ q \in posts /\ q.phase = "saved"
    /\ posts' = (posts \ {q}) \cup
                (IF q.from = "exam" THEN {[q EXCEPT !.phase = "refreshing"]} ELSE {})
    /\ confirmed' = IF q.tab = None THEN confirmed ELSE confirmed \cup {q.id}
    /\ UNCHANGED <<page, completions, edits, earned, behind, overwritten>>
    /\ UNCHANGED server /\ UNCHANGED storage

\* loadAllocation has its answer.
Refreshed(q) ==
    /\ q \in posts /\ q.phase = "refreshing"
    /\ posts' = posts \ {q}
    /\ UNCHANGED page
    /\ UNCHANGED server /\ UNCHANGED storage /\ UNCHANGED history

\* The promise is rejected: the request was lost, refused or cut off while the server
\* still handles it, the reply was lost, or the load of the allocation failed.
Fail(q) ==
    /\ q \in posts
    /\ \/ posts' = posts \ {q}
       \/ /\ q.phase = "sent" /\ q.tab # None
          /\ posts' = (posts \ {q}) \cup {[q EXCEPT !.tab = None]}
    /\ page' = IF q.tab = None THEN page ELSE [page EXCEPT ![q.tab].error = q.id]
    /\ UNCHANGED server /\ UNCHANGED storage /\ UNCHANGED history

-----------------------------------------------------------------------------
TabStep(t) ==
    \/ \E at \in {"timer", "exam"} : Mount(t, at)
    \/ Leave(t) \/ Start(t) \/ Pause(t) \/ Reset(t)
    \/ \E mode \in Modes : ChangeMode(t, mode) \/ \E n \in Offered : UpdateDurations(t, mode, n)
    \/ Tick(t) \/ FocusOver(t) \/ BreakOver(t)

PostStep(q) == Save(q) \/ Reply(q) \/ Refreshed(q) \/ Fail(q)

Next == NextDay \/ (\E t \in Tabs : TabStep(t)) \/ (\E q \in posts : PostStep(q))

Spec == Init /\ [][Next]_vars

-----------------------------------------------------------------------------
(* The streak.                                                             *)

\* The days in a row that end with d, at most cap of them.
Run(days, d, cap) == Max({n \in 0 .. cap : \A i \in 0 .. n - 1 : d - i \in days})

SavedDays == {s.day : s \in sessions}

Active(today) == {d \in SavedDays : d >= today - Lookback}

\* Mutant: the streak reads as broken until something is done today.
ServerStreakWithoutGrace(today) == Run(Active(today), today, Lookback)

\* _streak_from_timestamps over the timestamps _activity_timestamps returns: a day not
\* used yet does not break the streak.
ServerStreak(today) ==
    LET cursor == IF today \in Active(today) THEN today ELSE today - 1
    IN Run(Active(today), cursor, Lookback)

-----------------------------------------------------------------------------
(* Properties.                                                             *)

\* A session claims exactly the seconds its countdown ran: no pause, reset, change of
\* mode or of the durations, here or in another tab, makes it claim others.
TimeEarned == \A q \in posts : q.duration = q.ran

\* The stats in localStorage count every completed session and every day in a row,
\* unless a tab wrote its own over those of a tab that completed a session meanwhile
\* (setStats works on the copy loaded at mount).
StatsCompleteUnlessOverwritten ==
    ~overwritten =>
        storedStats = IF completions = 0 THEN NoStats ELSE
            [sessions |-> completions, last |-> Max(earned),
             streak |-> Run(earned, Max(earned), Cardinality(earned))]

\* A completed focus session "count[s] toward the streak, which is what the rest of the
\* app promises" (timer/page.tsx:30): if every session was saved on its day, the server
\* reports at least the streak any page shows that is not over.
StreakPromise ==
    earned \subseteq SavedDays =>
        \A stats \in {storedStats} \cup {page[t].stats : t \in Tabs} :
            stats.last \in {day, day - 1} =>
                \/ ServerStreak(day) >= stats.streak
                \/ ServerStreak(day) = Lookback

\* "a failed POST would otherwise lose the session silently" (exam-prep/page.tsx:96): if
\* nothing is said about the last session of an open page and nothing more is heard of
\* it, it is on the server, whatever the replies to earlier sessions did.
SilenceMeansSaved ==
    \A t \in Tabs :
        /\ Open(t) /\ page[t].latest # None /\ page[t].error = None
        /\ \A q \in posts : ~(q.tab = t /\ q.id = page[t].latest)
        => \E s \in sessions : s.id = page[t].latest

\* "That session couldn't be saved ... It won't count toward your streak."
\* (exam-prep/page.tsx:102, timer/page.tsx:40): the timer page never says so of a
\* session whose 201 it has received.  The exam-prep page does, when the reload of the
\* allocation fails that logStudySession awaits after the POST (useExamPrep.ts:67).
BannerTruthful ==
    \A t \in Tabs : page[t].error \in confirmed => page[t].at = "exam"
=============================================================================
