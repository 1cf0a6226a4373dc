-------------------------- MODULE FocusTimerProofs --------------------------
(***************************************************************************)
(* For any number of tabs and any durations: the variables of FocusTimer   *)
(* keep their types, a session claims exactly the time that ran, a page    *)
(* that says nothing about its last session has it on the server, the      *)
(* banner of the timer page is true, the stats in localStorage are         *)
(* complete unless overwritten, and the server's streak keeps up.          *)
(***************************************************************************)
EXTENDS FocusTimer, FiniteSetTheorems, WellFoundedInduction, TLAPS

-----------------------------------------------------------------------------
(* Types.                                                                  *)

LEMMA RefilledPage ==
    ASSUME NEW p \in Page, NEW mode \in Modes
    PROVE  /\ Refilled(p, mode) \in Page
           /\ Refilled(p, mode).left = p.durations[mode]
           /\ Refilled(p, mode).durations = p.durations
           /\ Refilled(p, mode).mode = mode
           /\ Refilled(p, mode).ran = 0
           /\ Refilled(p, mode).at = p.at
           /\ Refilled(p, mode).latest = p.latest
           /\ Refilled(p, mode).error = p.error
BY DEF Refilled, Page, Durations

LEMMA ClosedPage == Closed \in Page /\ NoStats \in Stats
<1>1. NoStats \in Stats
  BY DEF NoStats, Stats
<1>2. Defaults \in Durations /\ 0 \in 0 .. LongBreakAfter - 1 /\ "focus" \in Modes
  BY TimerAssumption DEF Durations, Modes
<1>3. None \in Ids \cup {None} /\ 0 \in Nat
  OBVIOUS
<1> QED BY <1>1, <1>2, <1>3, Zenon DEF Closed, Page

LEMMA InitType == Init => TypeOK
<1> SUFFICES ASSUME Init PROVE TypeOK
  OBVIOUS
<1>1. page \in [Tabs -> Page] /\ storedStats \in Stats
  BY ClosedPage DEF Init
<1>2. storedDurations \in Durations
  BY TimerAssumption DEF Init, Durations
<1>3. 0 \in Days /\ 0 \in 0 .. FocusBound /\ 0 \in 0 .. EditBound
  BY TimerAssumption DEF Days
<1> QED BY <1>1, <1>2, <1>3 DEF Init, TypeOK

\* What the settings make of a page.
LEMMA NewDurations ==
    ASSUME NEW p \in Page, NEW mode \in Modes, NEW n \in Offered
    PROVE  /\ [p.durations EXCEPT ![mode] = n] \in Durations
           /\ WithDurations(p, [p.durations EXCEPT ![mode] = n]) \in Page
<1>1. p.durations \in Durations /\ p.mode \in Modes
  BY DEF Page
<1>2. [p.durations EXCEPT ![mode] = n] \in Durations
  BY <1>1, TimerAssumption DEF Durations
<1>3. [p EXCEPT !.durations = [p.durations EXCEPT ![mode] = n]] \in Page
  BY <1>2 DEF Page
<1> QED BY <1>1, <1>2, <1>3, RefilledPage DEF WithDurations

\* What the end of a focus session writes is a page, stats and a POST.
LEMMA NextStatsType ==
    ASSUME NEW prev \in Stats, day \in Days
    PROVE  NextStats(prev) \in Stats
<1>1. prev.sessions + 1 \in Nat
  BY DEF Stats
<1>2. (CASE prev.last = day -> prev.streak
         [] prev.last = day - 1 -> prev.streak + 1
         [] OTHER -> 1) \in Nat
  BY DEF Stats, Days
<1> QED BY <1>1, <1>2 DEF NextStats, Stats

\* A second passes.
LEMMA TickedPage ==
    ASSUME NEW p \in Page, p.left > 0
    PROVE  /\ [p EXCEPT !.left = @ - 1, !.ran = @ + 1] \in Page
           /\ p.left - 1 + (p.ran + 1) = p.left + p.ran
<1>1. p.left \in Nat /\ p.ran \in Nat
  BY DEF Page
<1>2. p.left - 1 \in Nat /\ p.ran + 1 \in Nat
  BY <1>1
<1> DEFINE a == p.left - 1
           b == p.ran + 1
<1>3. [p EXCEPT !.left = a, !.ran = b] \in Page
  <2> HIDE DEF a, b
  <2> SUFFICES ASSUME a \in Nat, b \in Nat PROVE [p EXCEPT !.left = a, !.ran = b] \in Page
    BY <1>2 DEF a, b
  <2> QED BY DEF Page
<1>4. p.left - 1 + (p.ran + 1) = p.left + p.ran
  BY <1>1
<1> QED BY <1>3, <1>4

\* A step that puts a page of the right type on one tab keeps the types of all.
LEMMA OnePageType ==
    ASSUME TypeOK, NEW t \in Tabs, NEW p \in Page,
           page' = [page EXCEPT ![t] = p]
    PROVE  page' \in [Tabs -> Page]
BY DEF TypeOK

\* Clicks, the interval and the end of a break change one page and nothing else.
LEMMA BecomesType ==
    ASSUME TypeOK, NEW t \in Tabs, NEW p \in Page, Becomes(t, p)
    PROVE  TypeOK'
<1>1. page' \in [Tabs -> Page]
  BY OnePageType DEF Becomes
<1> QED BY <1>1 DEF TypeOK, Becomes, server, storage, history

LEMMA MountType ==
    ASSUME TypeOK, NEW t \in Tabs, NEW at \in {"timer", "exam"}, Mount(t, at)
    PROVE  TypeOK'
<1>1. [Closed EXCEPT !.at = at, !.durations = storedDurations, !.stats = storedStats] \in Page
  BY ClosedPage DEF TypeOK, Page
<1>2. page' \in [Tabs -> Page]
  BY <1>1, RefilledPage, OnePageType DEF Mount, Modes
<1> QED BY <1>2 DEF TypeOK, Mount, server, storage

LEMMA LeaveType ==
    ASSUME TypeOK, NEW t \in Tabs, Leave(t)
    PROVE  TypeOK'
<1>1. page' \in [Tabs -> Page]
  BY ClosedPage, OnePageType DEF Leave
<1>2. posts' \subseteq Post
  <2> SUFFICES ASSUME NEW q \in posts
               PROVE  (IF q.tab = t THEN [q EXCEPT !.tab = None] ELSE q) \in Post
    BY DEF Leave
  <2> QED BY DEF TypeOK, Post
<1> QED BY <1>1, <1>2 DEF TypeOK, Leave, server, storage, history

LEMMA UpdateDurationsType ==
    ASSUME TypeOK, NEW t \in Tabs, NEW mode \in Modes, NEW n \in Offered,
           UpdateDurations(t, mode, n)
    PROVE  TypeOK'
<1> DEFINE next == [page[t].durations EXCEPT ![mode] = n]
<1>1. page[t] \in Page
  BY DEF TypeOK
<1>2. next \in Durations /\ WithDurations(page[t], next) \in Page
  BY <1>1, NewDurations
<1>3. page' = [page EXCEPT ![t] = WithDurations(page[t], next)] /\ storedDurations' = next
  BY DEF UpdateDurations
<1>4. page' \in [Tabs -> Page]
  BY <1>2, <1>3, OnePageType
<1>5. edits' \in 0 .. EditBound
  BY TimerAssumption DEF TypeOK, UpdateDurations
<1> QED BY <1>2, <1>3, <1>4, <1>5 DEF TypeOK, UpdateDurations, server

LEMMA FocusOverType ==
    ASSUME TypeOK, NEW t \in Tabs, FocusOver(t)
    PROVE  TypeOK'
<1> DEFINE id == completions + 1
           next == NextStats(page[t].stats)
           count == NextInCycle(page[t].inCycle)
           break == IF count = 0 THEN "long_break" ELSE "short_break"
           rest == [Refilled(page[t], break) EXCEPT
                       !.inCycle = count, !.stats = next, !.error = None, !.latest = id]
           post == [id |-> id, tab |-> t, from |-> page[t].at, phase |-> "sent",
                    duration |-> page[t].durations["focus"], ran |-> page[t].ran]
<1>1. page[t] \in Page
  BY DEF TypeOK
<1>2. id \in Ids /\ id \in 0 .. FocusBound
  BY TimerAssumption DEF TypeOK, Ids, FocusOver
<1>3. next \in Stats
  BY <1>1, NextStatsType DEF TypeOK, Page
<1>4. count \in 0 .. LongBreakAfter - 1
  BY <1>1, TimerAssumption DEF Page, NextInCycle
<1>5. break \in Modes
  BY DEF Modes
<1>6. Refilled(page[t], break) \in Page
  BY <1>1, <1>5, RefilledPage
<1>7. rest \in Page
  <2> HIDE DEF next, count, break, id
  <2> QED BY <1>2, <1>3, <1>4, <1>6 DEF Page
<1>8. post \in Post
  <2>1. page[t].at \in {"timer", "exam"}
    BY <1>1 DEF FocusOver, Open, Page
  <2>2. page[t].durations["focus"] \in Nat /\ page[t].ran \in Nat
    BY <1>1 DEF Page, Durations, Modes
  <2> QED BY <1>2, <2>1, <2>2 DEF Post
<1>9. page' = [page EXCEPT ![t] = rest] /\ storedStats' = next
      /\ posts' = posts \cup {post} /\ completions' = id
  BY DEF FocusOver
<1>10. page' \in [Tabs -> Page]
  <2> HIDE DEF rest
  <2> QED BY <1>7, <1>9, OnePageType
<1>11. posts' \subseteq Post
  BY <1>8, <1>9 DEF TypeOK
<1>12. earned' \subseteq Days /\ behind' \subseteq Tabs /\ overwritten' \in BOOLEAN
  BY DEF TypeOK, FocusOver
<1>13. UNCHANGED <<day, sessions, storedDurations, edits, confirmed>>
  BY DEF FocusOver, server
<1> HIDE DEF id, next, count, break, rest, post
<1> QED BY <1>2, <1>3, <1>9, <1>10, <1>11, <1>12, <1>13 DEF TypeOK

LEMMA PostStepType ==
    ASSUME TypeOK, NEW q \in posts, PostStep(q)
    PROVE  TypeOK'
<1>1. q \in Post
  BY DEF TypeOK
<1>2. CASE Save(q)
  <2>1. [id |-> q.id, day |-> day] \in [id : Ids, day : Days]
    BY <1>1 DEF TypeOK, Post
  <2>2. [q EXCEPT !.phase = "saved"] \in Post
    BY <1>1 DEF Post
  <2> QED BY <1>2, <2>1, <2>2 DEF TypeOK, Save, storage, history
<1>3. CASE Reply(q)
  <2>1. [q EXCEPT !.phase = "refreshing"] \in Post
    BY <1>1 DEF Post
  <2>2. q.id \in Ids
    BY <1>1 DEF Post
  <2>3. posts' \subseteq Post
    BY <1>3, <2>1 DEF Reply, TypeOK
  <2> QED BY <1>3, <2>2, <2>3 DEF TypeOK, Reply, server, storage
<1>4. CASE Refreshed(q)
  BY <1>4 DEF TypeOK, Refreshed, server, storage, history
<1>5. CASE Fail(q)
  <2>1. [q EXCEPT !.tab = None] \in Post
    BY <1>1 DEF Post
  <2>2. posts' \subseteq Post
    BY <1>5, <2>1 DEF Fail, TypeOK
  <2>3. page' \in [Tabs -> Page]
    <3>1. CASE q.tab = None
      BY <1>5, <3>1 DEF Fail, TypeOK
    <3>2. CASE q.tab # None
      <4>1. q.tab \in Tabs /\ q.id \in Ids
        BY <1>1, <3>2 DEF Post
      <4>2. [page[q.tab] EXCEPT !.error = q.id] \in Page
        BY <4>1 DEF TypeOK, Page
      <4>3. page' = [page EXCEPT ![q.tab] = [page[q.tab] EXCEPT !.error = q.id]]
        BY <1>5, <3>2, <4>1 DEF Fail, TypeOK
      <4> QED BY <4>1, <4>2, <4>3, OnePageType
    <3> QED BY <3>1, <3>2
  <2> QED BY <1>5, <2>2, <2>3 DEF TypeOK, Fail, server, storage, history
<1> QED BY <1>2, <1>3, <1>4, <1>5 DEF PostStep

LEMMA ClickType ==
    ASSUME TypeOK, NEW t \in Tabs,
           \/ Start(t) \/ Pause(t) \/ Reset(t) \/ Tick(t) \/ BreakOver(t)
           \/ \E mode \in Modes : ChangeMode(t, mode)
    PROVE  \E p \in Page : Becomes(t, p)
<1>1. page[t] \in Page /\ page[t].mode \in Modes
  BY DEF TypeOK, Page
<1>2. [page[t] EXCEPT !.running = TRUE] \in Page /\ [page[t] EXCEPT !.running = FALSE] \in Page
  BY <1>1 DEF Page
<1>3. CASE Tick(t)
  <2>1. [page[t] EXCEPT !.left = @ - 1, !.ran = @ + 1] \in Page
    BY <1>1, <1>3, TickedPage DEF Tick
  <2> QED BY <1>3, <2>1 DEF Tick
<1>4. "focus" \in Modes
  BY DEF Modes
<1> QED BY <1>1, <1>2, <1>3, <1>4, RefilledPage
        DEF Start, Pause, Reset, ChangeMode, BreakOver, Click

LEMMA TypeStep == TypeOK /\ [Next]_vars => TypeOK'
<1> SUFFICES ASSUME TypeOK, [Next]_vars PROVE TypeOK'
  OBVIOUS
<1>1. CASE NextDay
  BY <1>1, TimerAssumption DEF NextDay, TypeOK, Days, history
<1>2. ASSUME NEW t \in Tabs, TabStep(t) PROVE TypeOK'
  <2>1. CASE \E at \in {"timer", "exam"} : Mount(t, at)
    BY <2>1, MountType
  <2>2. CASE Leave(t)
    BY <2>2, LeaveType
  <2>3. CASE \E mode \in Modes : \E n \in Offered : UpdateDurations(t, mode, n)
    BY <2>3, UpdateDurationsType
  <2>4. CASE FocusOver(t)
    BY <2>4, FocusOverType
  <2>5. CASE \/ Start(t) \/ Pause(t) \/ Reset(t) \/ Tick(t) \/ BreakOver(t)
             \/ \E mode \in Modes : ChangeMode(t, mode)
    BY <2>5, ClickType, BecomesType
  <2> QED BY <1>2, <2>1, <2>2, <2>3, <2>4, <2>5 DEF TabStep
<1>3. CASE UNCHANGED vars
  BY <1>3 DEF vars, TypeOK
<1> QED BY <1>1, <1>2, <1>3, PostStepType DEF Next

\* Whatever tabs are opened, clicked and closed and whatever becomes of the requests,
\* the variables keep their types.
THEOREM TypeOKTheorem == Spec => []TypeOK
BY InitType, TypeStep, PTL DEF Spec

-----------------------------------------------------------------------------
(* The time a session claims.                                              *)

\* What has run and what is left add up to the length of the countdown.
CountdownsAddUp ==
    \A t \in Tabs : Open(t) => page[t].left + page[t].ran = page[t].durations[page[t].mode]

TimeInv == TypeOK /\ CountdownsAddUp /\ TimeEarned

AddsUp(p) == p.left + p.ran = p.durations[p.mode]

LEMMA RefilledAddsUp ==
    ASSUME NEW p \in Page, NEW mode \in Modes
    PROVE  AddsUp(Refilled(p, mode))
<1>1. p.durations[mode] \in Nat
  BY DEF Page, Durations
<1> QED BY <1>1, RefilledPage DEF AddsUp

LEMMA OneAddsUp ==
    ASSUME TimeInv, NEW t \in Tabs, NEW p, AddsUp(p),
           page' = [page EXCEPT ![t] = p]
    PROVE  CountdownsAddUp'
BY DEF TimeInv, CountdownsAddUp, AddsUp, TypeOK, Open

\* The pages a click or a tick leads to add up.
LEMMA ClickAddsUp ==
    ASSUME TimeInv, NEW t \in Tabs,
           \/ Start(t) \/ Pause(t) \/ Reset(t) \/ Tick(t) \/ BreakOver(t)
           \/ \E mode \in Modes : ChangeMode(t, mode)
    PROVE  \E p \in Page : Becomes(t, p) /\ AddsUp(p)
<1>1. page[t] \in Page /\ page[t].mode \in Modes
  BY DEF TimeInv, TypeOK, Page
<1>2. Open(t) => AddsUp(page[t])
  BY DEF TimeInv, CountdownsAddUp, AddsUp
<1>3. CASE Start(t)
  <2> DEFINE p == [page[t] EXCEPT !.running = TRUE]
  <2>1. p \in Page /\ (AddsUp(page[t]) => AddsUp(p))
    BY <1>1 DEF Page, AddsUp
  <2> QED BY <1>2, <1>3, <2>1 DEF Start, Click, Becomes
<1>4. CASE Pause(t)
  <2> DEFINE p == [page[t] EXCEPT !.running = FALSE]
  <2>1. p \in Page /\ (AddsUp(page[t]) => AddsUp(p))
    BY <1>1 DEF Page, AddsUp
  <2> QED BY <1>2, <1>4, <2>1 DEF Pause, Click, Becomes
<1>5. CASE Tick(t)
  <2> DEFINE p == [page[t] EXCEPT !.left = @ - 1, !.ran = @ + 1]
  <2>1. p \in Page
    BY <1>1, <1>5, TickedPage DEF Tick
  <2>2. /\ p.left = page[t].left - 1 /\ p.ran = page[t].ran + 1
        /\ p.durations = page[t].durations /\ p.mode = page[t].mode
    BY <1>1 DEF Page
  <2>3. AddsUp(page[t]) => AddsUp(p)
    BY <1>1, <1>5, <2>2, TickedPage DEF AddsUp, Tick
  <2> QED BY <1>2, <1>5, <2>1, <2>3 DEF Tick, Becomes
<1>6. CASE Reset(t) \/ BreakOver(t) \/ \E mode \in Modes : ChangeMode(t, mode)
  <2>1. "focus" \in Modes
    BY DEF Modes
  <2>2. \E mode \in Modes : Becomes(t, Refilled(page[t], mode))
    BY <1>1, <1>6, <2>1 DEF Reset, BreakOver, ChangeMode, Click
  <2> QED BY <1>1, <2>2, RefilledPage, RefilledAddsUp
<1> QED BY <1>3, <1>4, <1>5, <1>6

LEMMA TimeFocusOver ==
    ASSUME TimeInv, NEW t \in Tabs, FocusOver(t)
    PROVE  CountdownsAddUp' /\ TimeEarned'
<1> DEFINE count == NextInCycle(page[t].inCycle)
           break == IF count = 0 THEN "long_break" ELSE "short_break"
           rest == [Refilled(page[t], break) EXCEPT
                       !.inCycle = count, !.stats = NextStats(page[t].stats),
                       !.error = None, !.latest = completions + 1]
           post == [id |-> completions + 1, tab |-> t, from |-> page[t].at,
                    phase |-> "sent", duration |-> page[t].durations["focus"],
                    ran |-> page[t].ran]
<1>1. page[t] \in Page /\ break \in Modes
  BY DEF TimeInv, TypeOK, Modes
<1>2. AddsUp(Refilled(page[t], break)) /\ Refilled(page[t], break) \in Page
  BY <1>1, RefilledAddsUp, RefilledPage
<1>3. AddsUp(rest)
  <2> HIDE DEF break, count
  <2> QED BY <1>2 DEF AddsUp, Page
<1>4. page' = [page EXCEPT ![t] = rest] /\ posts' = posts \cup {post}
  BY DEF FocusOver
<1>5. CountdownsAddUp'
  <2> HIDE DEF rest
  <2> QED BY <1>3, <1>4, OneAddsUp
<1>6. page[t].durations["focus"] = page[t].ran
  <2>1. page[t].left + page[t].ran = page[t].durations["focus"] /\ page[t].left = 0
    BY DEF FocusOver, TimeInv, CountdownsAddUp
  <2> QED BY <1>1, <2>1 DEF Page
<1>7. TimeEarned'
  <2> HIDE DEF rest
  <2> QED BY <1>4, <1>6 DEF TimeInv, TimeEarned
<1> QED BY <1>5, <1>7

LEMMA TimeInit == Init => TimeInv
<1> SUFFICES ASSUME Init PROVE TimeInv
  OBVIOUS
<1>1. TypeOK
  BY InitType
<1>2. CountdownsAddUp
  BY DEF Init, CountdownsAddUp, Open, Closed
<1>3. TimeEarned
  BY DEF Init, TimeEarned
<1> QED BY <1>1, <1>2, <1>3 DEF TimeInv

\* A POST carries the same two times through all its phases.
LEMMA PostsKeepTimes ==
    ASSUME TimeInv, NEW q \in posts, PostStep(q)
    PROVE  TimeEarned'
<1>1. q \in Post /\ q.duration = q.ran
  BY DEF TimeInv, TypeOK, TimeEarned
<1>2. ASSUME NEW r \in posts', r \notin posts
      PROVE  r.duration = q.duration /\ r.ran = q.ran
  BY <1>1, <1>2 DEF PostStep, Save, Reply, Refreshed, Fail, Post
<1> QED BY <1>1, <1>2 DEF TimeInv, TimeEarned

\* An answer changes no countdown.
LEMMA PostsKeepCountdowns ==
    ASSUME TimeInv, NEW q \in posts, PostStep(q)
    PROVE  CountdownsAddUp'
<1>1. CASE page' = page
  BY <1>1 DEF TimeInv, CountdownsAddUp, Open
<1>2. CASE page' # page
  <2>1. q \in Post
    BY DEF TimeInv, TypeOK
  <2>2. q.tab \in Tabs /\ page' = [page EXCEPT ![q.tab].error = q.id]
    BY <1>2, <2>1 DEF PostStep, Save, Reply, Refreshed, Fail, Post
  <2> DEFINE p == [page[q.tab] EXCEPT !.error = q.id]
  <2>3. /\ p.left = page[q.tab].left /\ p.ran = page[q.tab].ran /\ p.at = page[q.tab].at
        /\ p.durations = page[q.tab].durations /\ p.mode = page[q.tab].mode
    BY <2>2 DEF TimeInv, TypeOK, Page
  <2>4. page' = [page EXCEPT ![q.tab] = p]
    BY <2>2 DEF TimeInv, TypeOK
  <2> SUFFICES ASSUME NEW t \in Tabs, Open(t)'
               PROVE  (page[t].left + page[t].ran = page[t].durations[page[t].mode])'
    BY DEF CountdownsAddUp
  <2>5. CASE t = q.tab
    <3>1. page'[t] = p
      BY <2>2, <2>4, <2>5 DEF TimeInv, TypeOK
    <3> QED BY <2>3, <2>5, <3>1 DEF TimeInv, CountdownsAddUp, Open
  <2>6. CASE t # q.tab
    <3>1. page'[t] = page[t]
      BY <2>2, <2>4, <2>6 DEF TimeInv, TypeOK
    <3> QED BY <3>1 DEF TimeInv, CountdownsAddUp, Open
  <2> QED BY <2>5, <2>6
<1> QED BY <1>1, <1>2

LEMMA TimeStep == TimeInv /\ [Next]_vars => TimeInv'
<1> SUFFICES ASSUME TimeInv, [Next]_vars PROVE CountdownsAddUp' /\ TimeEarned'
  BY TypeStep DEF TimeInv
<1>1. CASE NextDay \/ UNCHANGED vars
  BY <1>1 DEF NextDay, vars, TimeInv, CountdownsAddUp, TimeEarned, Open
<1>2. ASSUME NEW t \in Tabs, TabStep(t) PROVE CountdownsAddUp' /\ TimeEarned'
  <2>1. CASE \E at \in {"timer", "exam"} : Mount(t, at)
    <3> PICK at \in {"timer", "exam"} : Mount(t, at)
      BY <2>1
    <3> DEFINE blank == [Closed EXCEPT !.at = at, !.durations = storedDurations,
                                       !.stats = storedStats]
    <3>1. blank \in Page /\ "focus" \in Modes
      BY ClosedPage DEF TimeInv, TypeOK, Page, Modes
    <3>2. page' = [page EXCEPT ![t] = Refilled(blank, "focus")] /\ posts' = posts
      BY DEF Mount
    <3>3. AddsUp(Refilled(blank, "focus"))
      BY <3>1, RefilledAddsUp
    <3> HIDE DEF blank
    <3> QED BY <3>2, <3>3, OneAddsUp DEF TimeInv, TimeEarned
  <2>2. CASE Leave(t)
    <3>1. CountdownsAddUp'
      BY <2>2 DEF Leave, TimeInv, TypeOK, CountdownsAddUp, Open, Closed
    <3>2. TimeEarned'
      BY <2>2 DEF Leave, TimeInv, TypeOK, TimeEarned, Post
    <3> QED BY <3>1, <3>2
  <2>3. CASE \E mode \in Modes : \E n \in Offered : UpdateDurations(t, mode, n)
    <3> PICK mode \in Modes, n \in Offered : UpdateDurations(t, mode, n)
      BY <2>3
    <3> DEFINE next == [page[t].durations EXCEPT ![mode] = n]
               p == [page[t] EXCEPT !.durations = next]
    <3>1. page[t] \in Page /\ page[t].mode \in Modes /\ next \in Durations
      BY NewDurations DEF TimeInv, TypeOK, Page
    <3>2. p \in Page
      BY <3>1 DEF Page
    <3>3. AddsUp(Refilled(p, page[t].mode)) /\ p.mode = page[t].mode
      BY <3>1, <3>2, RefilledAddsUp DEF Page
    <3>4. page' = [page EXCEPT ![t] = Refilled(p, p.mode)] /\ posts' = posts
      BY DEF UpdateDurations, WithDurations
    <3> HIDE DEF p
    <3> QED BY <3>3, <3>4, OneAddsUp DEF TimeInv, TimeEarned
  <2>4. CASE FocusOver(t)
    BY <2>4, TimeFocusOver
  <2>5. CASE \/ Start(t) \/ Pause(t) \/ Reset(t) \/ Tick(t) \/ BreakOver(t)
             \/ \E mode \in Modes : ChangeMode(t, mode)
    <3> PICK p \in Page : Becomes(t, p) /\ AddsUp(p)
      BY <2>5, ClickAddsUp
    <3>1. page' = [page EXCEPT ![t] = p] /\ posts' = posts
      BY DEF Becomes
    <3> QED BY <3>1, OneAddsUp DEF TimeInv, TimeEarned
  <2> QED BY <1>2, <2>1, <2>2, <2>3, <2>4, <2>5 DEF TabStep
<1> QED BY <1>1, <1>2, PostsKeepTimes, PostsKeepCountdowns DEF Next

\* Whatever is paused, reset, switched or reconfigured, in however many tabs, a logged
\* session claims exactly the seconds its countdown ran.
THEOREM TimeEarnedTheorem == Spec => []TimeEarned
<1>1. TimeInv => TimeEarned
  BY DEF TimeInv
<1> QED BY <1>1, TimeInit, TimeStep, PTL DEF Spec

-----------------------------------------------------------------------------
(* Silence.                                                                *)

OnServer(id) == \E s \in sessions : s.id = id

\* The server answers only once the row is committed.
AnsweredOnServer == \A q \in posts : q.phase # "sent" => OnServer(q.id)

\* The promise of session id on tab t is not settled.
Awaited(t, id) == \E q \in posts : q.tab = t /\ q.id = id

\* What SilenceMeansSaved says of the page p of tab t.
Honest(t, p) ==
    p.at # "closed" /\ p.latest # None /\ p.error = None
        => Awaited(t, p.latest) \/ OnServer(p.latest)

SilenceInv == TypeOK /\ AnsweredOnServer /\ \A t \in Tabs : Honest(t, page[t])

LEMMA SilenceInit == Init => SilenceInv
<1> SUFFICES ASSUME Init PROVE SilenceInv
  OBVIOUS
<1>1. TypeOK
  BY InitType
<1> QED BY <1>1 DEF Init, SilenceInv, AnsweredOnServer, Honest, Closed

LEMMA SilenceFollows == SilenceInv => SilenceMeansSaved
BY DEF SilenceInv, SilenceMeansSaved, Honest, Awaited, OnServer, Open

\* No row is deleted, so what is on the server stays there.
LEMMA RowsStay ==
    ASSUME SilenceInv, [Next]_vars, NEW id, OnServer(id)
    PROVE  OnServer(id)'
<1>1. sessions \subseteq sessions'
  BY DEF Next, TabStep, PostStep, vars, NextDay, Mount, Leave, Start, Pause, Reset, ChangeMode,
         UpdateDurations, Tick, FocusOver, BreakOver, Click, Becomes, Save, Reply, Refreshed,
         Fail, server
<1> QED BY <1>1 DEF OnServer

\* A step that leaves the POSTs alone, and on tab t a page that is silent only about
\* what the page before it was silent about.
LEMMA SamePosts ==
    ASSUME SilenceInv, [Next]_vars, posts' = posts, NEW t \in Tabs, NEW p,
           page' = [page EXCEPT ![t] = p],
           p.latest = None \/ (p.latest = page[t].latest /\ p.error = page[t].error
                               /\ page[t].at # "closed")
    PROVE  AnsweredOnServer' /\ \A u \in Tabs : Honest(u, page[u])'
<1>1. AnsweredOnServer'
  BY RowsStay DEF SilenceInv, AnsweredOnServer
<1>2. ASSUME NEW u \in Tabs PROVE Honest(u, page[u])'
  <2>1. CASE u = t
    <3>1. page'[u] = p
      BY <2>1 DEF SilenceInv, TypeOK
    <3>2. Honest(t, page[t])
      BY DEF SilenceInv
    <3>3. p.latest # None /\ p.error = None => Awaited(t, p.latest) \/ OnServer(p.latest)
      BY <3>2 DEF Honest
    <3>4. Awaited(t, p.latest) => \E q \in posts' : q.tab = u /\ q.id = page'[u].latest
      BY <2>1, <3>1 DEF Awaited
    <3>5. OnServer(p.latest) => \E s \in sessions' : s.id = page'[u].latest
      BY <3>1, RowsStay DEF OnServer
    <3> QED BY <3>1, <3>3, <3>4, <3>5 DEF Honest, Awaited, OnServer
  <2>2. CASE u # t
    <3>1. page'[u] = page[u]
      BY <2>2 DEF SilenceInv, TypeOK
    <3>2. Honest(u, page[u])
      BY DEF SilenceInv
    <3>3. OnServer(page[u].latest) => \E s \in sessions' : s.id = page'[u].latest
      BY <3>1, RowsStay DEF OnServer
    <3> QED BY <3>1, <3>2, <3>3 DEF Honest, Awaited, OnServer
  <2> QED BY <2>1, <2>2
<1> QED BY <1>1, <1>2

\* Clicks and seconds leave what is known of the last session alone.
LEMMA ClickKeepsBanner ==
    ASSUME SilenceInv, NEW t \in Tabs,
           \/ Start(t) \/ Pause(t) \/ Reset(t) \/ Tick(t) \/ BreakOver(t)
           \/ \E mode \in Modes : ChangeMode(t, mode)
    PROVE  \E p : Becomes(t, p) /\ p.latest = page[t].latest /\ p.error = page[t].error
<1>1. page[t] \in Page /\ page[t].mode \in Modes /\ "focus" \in Modes
  BY DEF SilenceInv, TypeOK, Page, Modes
<1>2. CASE Start(t) \/ Pause(t) \/ Tick(t)
  <2>1. CASE Start(t)
    <3>1. Becomes(t, [page[t] EXCEPT !.running = TRUE])
      BY <2>1 DEF Start, Click
    <3> QED BY <1>1, <3>1 DEF Page
  <2>2. CASE Pause(t)
    <3>1. Becomes(t, [page[t] EXCEPT !.running = FALSE])
      BY <2>2 DEF Pause, Click
    <3> QED BY <1>1, <3>1 DEF Page
  <2>3. CASE Tick(t)
    <3> DEFINE p == [page[t] EXCEPT !.left = @ - 1, !.ran = @ + 1]
    <3>1. Becomes(t, p)
      BY <2>3 DEF Tick
    <3>2. p.latest = page[t].latest /\ p.error = page[t].error
      BY <1>1 DEF Page
    <3> HIDE DEF p
    <3> QED BY <3>1, <3>2
  <2> QED BY <1>2, <2>1, <2>2, <2>3
<1>3. CASE Reset(t) \/ BreakOver(t) \/ \E mode \in Modes : ChangeMode(t, mode)
  <2>1. \E mode \in Modes : Becomes(t, Refilled(page[t], mode))
    BY <1>1, <1>3 DEF Reset, BreakOver, ChangeMode, Click
  <2> PICK mode \in Modes : Becomes(t, Refilled(page[t], mode))
    BY <2>1
  <2>2. /\ Refilled(page[t], mode).latest = page[t].latest
        /\ Refilled(page[t], mode).error = page[t].error
    BY <1>1, RefilledPage
  <2> QED BY <2>2
<1> QED BY <1>2, <1>3

LEMMA SilenceFocusOver ==
    ASSUME SilenceInv, NEW t \in Tabs, FocusOver(t)
    PROVE  AnsweredOnServer' /\ \A u \in Tabs : Honest(u, page[u])'
<1> DEFINE id == completions + 1
           count == NextInCycle(page[t].inCycle)
           break == IF count = 0 THEN "long_break" ELSE "short_break"
           rest == [Refilled(page[t], break) EXCEPT
                       !.inCycle = count, !.stats = NextStats(page[t].stats),
                       !.error = None, !.latest = id]
           post == [id |-> id, tab |-> t, from |-> page[t].at, phase |-> "sent",
                    duration |-> page[t].durations["focus"], ran |-> page[t].ran]
<1>1. page[t] \in Page /\ break \in Modes
  BY DEF SilenceInv, TypeOK, Modes
<1>2. rest.latest = id
  <2>1. Refilled(page[t], break) \in Page
    BY <1>1, RefilledPage
  <2> HIDE DEF break, count, id
  <2> QED BY <2>1 DEF Page
<1>3. /\ page' = [page EXCEPT ![t] = rest] /\ posts' = posts \cup {post}
      /\ sessions' = sessions
  BY DEF FocusOver, server
<1>4. post.phase = "sent" /\ post.tab = t /\ post.id = id
  OBVIOUS
<1> HIDE DEF rest, post, id
<1>5. AnsweredOnServer'
  BY <1>3, <1>4 DEF SilenceInv, AnsweredOnServer, OnServer
<1>6. ASSUME NEW u \in Tabs PROVE Honest(u, page[u])'
  <2>1. CASE u = t
    <3>1. page'[u] = rest
      BY <1>3, <2>1 DEF SilenceInv, TypeOK
    <3>2. \E q \in posts' : q.tab = u /\ q.id = page'[u].latest
      BY <1>2, <1>3, <1>4, <2>1, <3>1
    <3> QED BY <3>2 DEF Honest, Awaited
  <2>2. CASE u # t
    <3>1. page'[u] = page[u]
      BY <1>3, <2>2 DEF SilenceInv, TypeOK
    <3>2. Honest(u, page[u])
      BY DEF SilenceInv
    <3> QED BY <1>3, <3>1, <3>2 DEF Honest, Awaited, OnServer
  <2> QED BY <2>1, <2>2
<1> QED BY <1>5, <1>6

LEMMA SilenceLeave ==
    ASSUME SilenceInv, NEW t \in Tabs, Leave(t)
    PROVE  AnsweredOnServer' /\ \A u \in Tabs : Honest(u, page[u])'
<1>1. sessions' = sessions /\ page' = [page EXCEPT ![t] = Closed]
      /\ posts' = {IF q.tab = t THEN [q EXCEPT !.tab = None] ELSE q : q \in posts}
  BY DEF Leave, server
<1>2. AnsweredOnServer'
  <2> SUFFICES ASSUME NEW r \in posts', r.phase # "sent"
               PROVE  \E s \in sessions : s.id = r.id
    BY <1>1 DEF AnsweredOnServer, OnServer
  <2> PICK q \in posts : r = IF q.tab = t THEN [q EXCEPT !.tab = None] ELSE q
    BY <1>1
  <2>1. r.phase = q.phase /\ r.id = q.id
    BY DEF SilenceInv, TypeOK, Post
  <2> QED BY <2>1 DEF SilenceInv, AnsweredOnServer, OnServer
<1>3. ASSUME NEW u \in Tabs PROVE Honest(u, page[u])'
  <2>1. CASE u = t
    <3>1. page'[u].at = "closed"
      BY <1>1, <2>1 DEF SilenceInv, TypeOK, Closed
    <3> QED BY <3>1 DEF Honest
  <2>2. CASE u # t
    <3>1. page'[u] = page[u]
      BY <1>1, <2>2 DEF SilenceInv, TypeOK
    <3>2. Honest(u, page[u])
      BY DEF SilenceInv
    <3>3. ASSUME NEW q \in posts, q.tab = u PROVE q \in posts'
      BY <1>1, <2>2, <3>3
    <3> QED BY <1>1, <3>1, <3>2, <3>3 DEF Honest, Awaited, OnServer
  <2> QED BY <2>1, <2>2
<1> QED BY <1>2, <1>3

LEMMA SilencePostStep ==
    ASSUME SilenceInv, NEW q \in posts, PostStep(q)
    PROVE  AnsweredOnServer' /\ \A u \in Tabs : Honest(u, page[u])'
<1>1. q \in Post /\ None \notin Ids
  BY TimerAssumption DEF SilenceInv, TypeOK, Ids
<1>2. sessions \subseteq sessions' /\ posts \ {q} \subseteq posts'
  BY DEF PostStep, Save, Reply, Refreshed, Fail, server
<1>3. ASSUME NEW r \in posts', r \notin posts
      PROVE  r.id = q.id /\ (r.phase # "sent" => q.phase # "sent" \/ Save(q))
  BY <1>1, <1>3 DEF PostStep, Save, Reply, Refreshed, Fail, Post
<1>4. Save(q) => \E s \in sessions' : s.id = q.id
  <2> SUFFICES ASSUME Save(q) PROVE \E s \in sessions' : s.id = q.id
    OBVIOUS
  <2> DEFINE s == [id |-> q.id, day |-> day]
  <2>1. s \in sessions' /\ s.id = q.id
    BY DEF Save
  <2> QED BY <2>1
<1>5. AnsweredOnServer'
  <2> SUFFICES ASSUME NEW r \in posts', r.phase # "sent"
               PROVE  \E s \in sessions' : s.id = r.id
    BY DEF AnsweredOnServer, OnServer
  <2>1. ASSUME NEW x \in posts, x.phase # "sent"
        PROVE  \E s \in sessions' : s.id = x.id
    BY <1>2, <2>1 DEF SilenceInv, AnsweredOnServer, OnServer
  <2>2. CASE r \in posts
    BY <2>1, <2>2
  <2>3. CASE r \notin posts
    BY <1>3, <1>4, <2>1, <2>3
  <2> QED BY <2>2, <2>3
<1>6. Save(q) => \E r \in posts' : r.tab = q.tab /\ r.id = q.id
  <2> DEFINE r == [q EXCEPT !.phase = "saved"]
  <2>1. r.tab = q.tab /\ r.id = q.id
    BY <1>1 DEF Post
  <2>2. Save(q) => r \in posts'
    BY DEF Save
  <2> QED BY <2>1, <2>2
<1>7. Reply(q) \/ Refreshed(q) => \E s \in sessions' : s.id = q.id
  BY <1>2 DEF Reply, Refreshed, SilenceInv, AnsweredOnServer, OnServer
<1>8. ASSUME NEW u \in Tabs PROVE Honest(u, page[u])'
  <2>1. Honest(u, page[u])
    BY DEF SilenceInv
  <2>2. /\ page'[u].at = page[u].at /\ page'[u].latest = page[u].latest
        /\ page'[u].error = page[u].error \/ page'[u].error # None
    BY <1>1 DEF PostStep, Save, Reply, Refreshed, Fail, SilenceInv, TypeOK, Page, Post
  <2>3. Fail(q) /\ q.tab = u => page'[u].error # None
    BY <1>1, TimerAssumption DEF Fail, SilenceInv, TypeOK, Post, Page
  <2>4. ASSUME NEW id, Awaited(u, id), page'[u].error = None
        PROVE  (\E r \in posts' : r.tab = u /\ r.id = id) \/ \E s \in sessions' : s.id = id
    <3> PICK r \in posts : r.tab = u /\ r.id = id
      BY <2>4 DEF Awaited
    <3>1. CASE r # q
      BY <1>2, <3>1
    <3>2. CASE r = q
      BY <1>6, <1>7, <2>3, <2>4, <3>2 DEF PostStep
    <3> QED BY <3>1, <3>2
  <2> QED BY <1>2, <2>1, <2>2, <2>4 DEF Honest, Awaited, OnServer
<1> QED BY <1>5, <1>8

LEMMA SilenceStep == SilenceInv /\ [Next]_vars => SilenceInv'
<1> SUFFICES ASSUME SilenceInv, [Next]_vars
             PROVE  AnsweredOnServer' /\ \A u \in Tabs : Honest(u, page[u])'
  BY TypeStep DEF SilenceInv
<1>1. CASE NextDay \/ UNCHANGED vars
  BY <1>1 DEF NextDay, vars, SilenceInv, AnsweredOnServer, Honest, Awaited, OnServer
<1>2. ASSUME NEW t \in Tabs, TabStep(t)
      PROVE  AnsweredOnServer' /\ \A u \in Tabs : Honest(u, page[u])'
  <2>1. CASE \E at \in {"timer", "exam"} : Mount(t, at)
    <3> PICK at \in {"timer", "exam"} : Mount(t, at)
      BY <2>1
    <3> DEFINE blank == [Closed EXCEPT !.at = at, !.durations = storedDurations,
                                       !.stats = storedStats]
    <3>1. blank \in Page /\ "focus" \in Modes /\ blank.latest = None
      BY ClosedPage DEF SilenceInv, TypeOK, Page, Modes, Closed
    <3>2. page' = [page EXCEPT ![t] = Refilled(blank, "focus")] /\ posts' = posts
      BY DEF Mount
    <3> HIDE DEF blank
    <3>3. Refilled(blank, "focus").latest = None
      BY <3>1, RefilledPage
    <3> QED BY <3>2, <3>3, SamePosts
  <2>2. CASE Leave(t)
    BY <2>2, SilenceLeave
  <2>3. CASE \E mode \in Modes : \E n \in Offered : UpdateDurations(t, mode, n)
    <3> PICK mode \in Modes, n \in Offered : UpdateDurations(t, mode, n)
      BY <2>3
    <3> DEFINE next == [page[t].durations EXCEPT ![mode] = n]
               p == [page[t] EXCEPT !.durations = next]
    <3>1. page[t] \in Page /\ next \in Durations
      BY NewDurations DEF SilenceInv, TypeOK
    <3>2. p \in Page /\ p.mode \in Modes /\ p.latest = page[t].latest /\ p.error = page[t].error
      BY <3>1 DEF Page
    <3>3. /\ page' = [page EXCEPT ![t] = Refilled(p, p.mode)] /\ posts' = posts
          /\ page[t].at # "closed"
      BY DEF UpdateDurations, WithDurations, Open
    <3> HIDE DEF p
    <3>4. /\ Refilled(p, p.mode).latest = page[t].latest
          /\ Refilled(p, p.mode).error = page[t].error
      BY <3>2, RefilledPage
    <3> QED BY <3>3, <3>4, SamePosts
  <2>4. CASE FocusOver(t)
    BY <2>4, SilenceFocusOver
  <2>5. CASE \/ Start(t) \/ Pause(t) \/ Reset(t) \/ Tick(t) \/ BreakOver(t)
             \/ \E mode \in Modes : ChangeMode(t, mode)
    <3> PICK p : Becomes(t, p) /\ p.latest = page[t].latest /\ p.error = page[t].error
      BY <2>5, ClickKeepsBanner
    <3>1. page' = [page EXCEPT ![t] = p] /\ posts' = posts /\ page[t].at # "closed"
      BY DEF Becomes, Open
    <3> QED BY <3>1, SamePosts
  <2> QED BY <1>2, <2>1, <2>2, <2>3, <2>4, <2>5 DEF TabStep
<1> QED BY <1>1, <1>2, SilencePostStep DEF Next

\* Whatever order the replies come in and whichever requests are lost, a page that
\* says nothing about its last session and waits for nothing has it on the server.
THEOREM SilenceTheorem == Spec => []SilenceMeansSaved
BY SilenceInit, SilenceStep, SilenceFollows, PTL DEF Spec

-----------------------------------------------------------------------------
(* The steps, as far as the banner and the stats are concerned.            *)

\* A step on tab t that leaves its stats, its banner and everything shared alone.
Calm(t, p) ==
    /\ Open(t) /\ page' = [page EXCEPT ![t] = p]
    /\ p.at = page[t].at /\ p.stats = page[t].stats /\ p.error = page[t].error
    /\ UNCHANGED <<day, sessions, storedStats, posts, completions, earned, behind,
                   overwritten, confirmed>>

LEMMA CalmClick ==
    ASSUME TypeOK, NEW t \in Tabs,
           \/ Start(t) \/ Pause(t) \/ Reset(t) \/ Tick(t) \/ BreakOver(t)
           \/ \E mode \in Modes : ChangeMode(t, mode)
    PROVE  \E p \in Page : Calm(t, p)
<1>1. page[t] \in Page /\ page[t].mode \in Modes /\ "focus" \in Modes
  BY DEF TypeOK, Page, Modes
<1>2. ASSUME NEW p \in Page, Becomes(t, p), p.at = page[t].at,
             p.stats = page[t].stats, p.error = page[t].error
      PROVE  \E r \in Page : Calm(t, r)
  BY <1>2 DEF Becomes, Calm, server, storage, history
<1>3. CASE Start(t) \/ Pause(t)
  <2>1. \E b \in BOOLEAN : Becomes(t, [page[t] EXCEPT !.running = b])
    BY <1>3 DEF Start, Pause, Click
  <2> PICK b \in BOOLEAN : Becomes(t, [page[t] EXCEPT !.running = b])
    BY <2>1
  <2> DEFINE p == [page[t] EXCEPT !.running = b]
  <2>2. /\ p \in Page /\ p.at = page[t].at /\ p.stats = page[t].stats
        /\ p.error = page[t].error
    BY <1>1 DEF Page
  <2> QED BY <1>2, <2>2
<1>4. CASE Tick(t)
  <2> DEFINE p == [page[t] EXCEPT !.left = @ - 1, !.ran = @ + 1]
  <2>1. p \in Page
    BY <1>1, <1>4, TickedPage DEF Tick
  <2>2. p.at = page[t].at /\ p.stats = page[t].stats /\ p.error = page[t].error
    BY <1>1 DEF Page
  <2>3. Becomes(t, p)
    BY <1>4 DEF Tick
  <2> HIDE DEF p
  <2> QED BY <1>2, <2>1, <2>2, <2>3
<1>5. CASE Reset(t) \/ BreakOver(t) \/ \E mode \in Modes : ChangeMode(t, mode)
  <2>1. \E mode \in Modes : Becomes(t, Refilled(page[t], mode))
    BY <1>1, <1>5 DEF Reset, BreakOver, ChangeMode, Click
  <2> PICK mode \in Modes : Becomes(t, Refilled(page[t], mode))
    BY <2>1
  <2>2. Refilled(page[t], mode).stats = page[t].stats
    BY <1>1 DEF Refilled, Page
  <2>3. /\ Refilled(page[t], mode) \in Page
        /\ Refilled(page[t], mode).at = page[t].at
        /\ Refilled(page[t], mode).error = page[t].error
    BY <1>1, RefilledPage
  <2> QED BY <1>2, <2>2, <2>3
<1> QED BY <1>3, <1>4, <1>5

LEMMA CalmUpdate ==
    ASSUME TypeOK, NEW t \in Tabs, NEW mode \in Modes, NEW n \in Offered,
           UpdateDurations(t, mode, n)
    PROVE  \E p \in Page : Calm(t, p)
<1> DEFINE next == [page[t].durations EXCEPT ![mode] = n]
           p == [page[t] EXCEPT !.durations = next]
<1>1. page[t] \in Page /\ next \in Durations
  BY NewDurations DEF TypeOK
<1>2. p \in Page /\ p.mode \in Modes
  BY <1>1 DEF Page
<1>3. p.at = page[t].at /\ p.stats = page[t].stats /\ p.error = page[t].error
  BY <1>1 DEF Page
<1>4. Open(t) /\ page' = [page EXCEPT ![t] = Refilled(p, p.mode)]
  BY DEF UpdateDurations, WithDurations
<1>5. UNCHANGED <<day, sessions, storedStats, posts, completions, earned, behind,
                  overwritten, confirmed>>
  BY DEF UpdateDurations, server
<1> HIDE DEF p
<1>6. Refilled(p, p.mode).stats = p.stats
  BY <1>2 DEF Refilled, Page
<1>7. /\ Refilled(p, p.mode) \in Page /\ Refilled(p, p.mode).at = p.at
      /\ Refilled(p, p.mode).error = p.error
  BY <1>2, RefilledPage
<1>8. Calm(t, Refilled(p, p.mode))
  BY <1>3, <1>4, <1>5, <1>6, <1>7 DEF Calm
<1> QED BY <1>7, <1>8

\* A page opens with the stats in localStorage and without a banner.
Opens(t, p) ==
    /\ ~Open(t) /\ page' = [page EXCEPT ![t] = p]
    /\ p.stats = storedStats /\ p.error = None
    /\ behind' = behind \ {t}
    /\ UNCHANGED <<day, sessions, storedStats, posts, completions, earned, overwritten,
                   confirmed>>

LEMMA MountOpens ==
    ASSUME TypeOK, NEW t \in Tabs, NEW at \in {"timer", "exam"}, Mount(t, at)
    PROVE  \E p \in Page : Opens(t, p)
<1> DEFINE blank == [Closed EXCEPT !.at = at, !.durations = storedDurations,
                                   !.stats = storedStats]
<1>1. blank \in Page /\ "focus" \in Modes
  BY ClosedPage DEF TypeOK, Page, Modes
<1>2. blank.stats = storedStats /\ blank.error = None
  BY DEF Closed
<1>3. ~Open(t) /\ page' = [page EXCEPT ![t] = Refilled(blank, "focus")]
  BY DEF Mount
<1>4. /\ behind' = behind \ {t}
      /\ UNCHANGED <<day, sessions, storedStats, posts, completions, earned, overwritten,
                     confirmed>>
  BY DEF Mount, server, storage
<1> HIDE DEF blank
<1>5. Refilled(blank, "focus").stats = blank.stats
  BY <1>1 DEF Refilled, Page
<1>6. Refilled(blank, "focus") \in Page /\ Refilled(blank, "focus").error = blank.error
  BY <1>1, RefilledPage
<1>7. Opens(t, Refilled(blank, "focus"))
  BY <1>2, <1>3, <1>4, <1>5, <1>6 DEF Opens
<1> QED BY <1>6, <1>7

\* A focus session ends: new stats, a new POST, no banner.
Ends(t, p, q) ==
    /\ Open(t) /\ page' = [page EXCEPT ![t] = p]
    /\ p.at = page[t].at /\ p.stats = NextStats(page[t].stats) /\ p.error = None
    /\ storedStats' = NextStats(page[t].stats)
    /\ posts' = posts \cup {q}
    /\ q.id = completions + 1 /\ q.tab = t /\ q.from = page[t].at
    /\ completions' = completions + 1
    /\ earned' = earned \cup {day}
    /\ behind' = behind \cup {u \in Tabs \ {t} : Open(u)}
    /\ overwritten' = (overwritten \/ t \in behind)
    /\ UNCHANGED <<day, sessions, confirmed>>

LEMMA FocusEnds ==
    ASSUME TypeOK, NEW t \in Tabs, FocusOver(t)
    PROVE  \E p, q : p \in Page /\ q \in Post /\ Ends(t, p, q)
<1> DEFINE id == completions + 1
           next == NextStats(page[t].stats)
           count == NextInCycle(page[t].inCycle)
           break == IF count = 0 THEN "long_break" ELSE "short_break"
           rest == [Refilled(page[t], break) EXCEPT
                       !.inCycle = count, !.stats = next, !.error = None, !.latest = id]
           post == [id |-> id, tab |-> t, from |-> page[t].at, phase |-> "sent",
                    duration |-> page[t].durations["focus"], ran |-> page[t].ran]
<1>1. page[t] \in Page /\ break \in Modes /\ page'[t] \in Page /\ posts' \subseteq Post
  BY FocusOverType DEF TypeOK, Modes
<1>2. /\ page' = [page EXCEPT ![t] = rest] /\ posts' = posts \cup {post}
  BY DEF FocusOver
<1>3. Refilled(page[t], break) \in Page /\ Refilled(page[t], break).at = page[t].at
  BY <1>1, RefilledPage
<1>4. rest.at = page[t].at /\ rest.stats = next /\ rest.error = None
  <2> HIDE DEF break, count, id, next
  <2> QED BY <1>3 DEF Page
<1>5. post.id = id /\ post.tab = t /\ post.from = page[t].at
  OBVIOUS
<1>6. /\ Open(t) /\ storedStats' = next /\ completions' = id
      /\ earned' = earned \cup {day}
      /\ behind' = behind \cup {u \in Tabs \ {t} : Open(u)}
      /\ overwritten' = (overwritten \/ t \in behind)
      /\ UNCHANGED <<day, sessions, confirmed>>
  BY DEF FocusOver, server
<1> HIDE DEF rest, post
<1>7. rest \in Page /\ post \in Post
  BY <1>1, <1>2 DEF TypeOK
<1>8. Ends(t, rest, post)
  BY <1>2, <1>4, <1>5, <1>6 DEF Ends
<1> QED BY <1>7, <1>8

-----------------------------------------------------------------------------
(* The banner.                                                             *)

\* The ids of the POSTs, of the banners and of the confirmed sessions were given out.
IdsGiven ==
    /\ \A q \in posts : q.id \in 1 .. completions
    /\ \A t \in Tabs : page[t].error # None => page[t].error \in 1 .. completions
    /\ confirmed \subseteq 1 .. completions

OnePost == \A q, r \in posts : q.id = r.id => q = r

\* The POST of the timer page is settled by its 201, that of the exam page goes on.
TimerPostsUnconfirmed == \A q \in posts : q.from = "timer" => q.id \notin confirmed

\* The page that waits for a POST is the one it came from.
PagesStay == \A q \in posts : q.tab # None => page[q.tab].at = q.from

\* A banner is about a POST nobody waits for any more.
BannersSettled == \A q \in posts : q.tab # None => \A t \in Tabs : page[t].error # q.id

BannerInv ==
    /\ TypeOK /\ IdsGiven /\ OnePost /\ TimerPostsUnconfirmed /\ PagesStay
    /\ BannersSettled /\ BannerTruthful

LEMMA BannerInit == Init => BannerInv
<1> SUFFICES ASSUME Init PROVE BannerInv
  OBVIOUS
<1>1. TypeOK
  BY InitType
<1>2. posts = {} /\ confirmed = {} /\ \A t \in Tabs : page[t].error = None
  BY DEF Init, Closed
<1> QED BY <1>1, <1>2 DEF BannerInv, IdsGiven, OnePost, TimerPostsUnconfirmed, PagesStay,
           BannersSettled, BannerTruthful

\* A banner that stays is true as before, and a page without one says nothing.
LEMMA BannerQuiet ==
    ASSUME BannerInv, NEW t \in Tabs, NEW p \in Page,
           page' = [page EXCEPT ![t] = p],
           p.error = None \/ (p.error = page[t].error /\ p.at = page[t].at),
           confirmed' = confirmed
    PROVE  BannerTruthful'
<1>1. None \notin confirmed
  <2>1. confirmed \subseteq Ids
    BY DEF BannerInv, TypeOK
  <2>2. None \notin Ids
    BY TimerAssumption DEF Ids
  <2> QED BY <2>1, <2>2
<1>2. ASSUME NEW u \in Tabs PROVE page'[u] = IF u = t THEN p ELSE page[u]
  BY DEF BannerInv, TypeOK
<1>3. \A u \in Tabs : page[u].error \in confirmed => page[u].at = "exam"
  BY DEF BannerInv, BannerTruthful
<1>4. ASSUME NEW u \in Tabs, page'[u].error \in confirmed PROVE page'[u].at = "exam"
  <2>1. CASE u = t
    <3>1. page'[u] = p /\ p.error # None
      BY <1>1, <1>2, <1>4, <2>1
    <3>2. p.error = page[t].error /\ p.at = page[t].at
      BY <3>1
    <3> QED BY <1>3, <1>4, <3>1, <3>2
  <2>2. CASE u # t
    BY <1>2, <1>3, <1>4, <2>2
  <2> QED BY <2>1, <2>2
<1> QED BY <1>4 DEF BannerTruthful

LEMMA BannerCalm ==
    ASSUME BannerInv, NEW t \in Tabs, NEW p \in Page, Calm(t, p), TypeOK'
    PROVE  BannerInv'
<1>1. ASSUME NEW u \in Tabs
      PROVE  page'[u].at = page[u].at /\ page'[u].error = page[u].error
  BY DEF BannerInv, TypeOK, Calm
<1>2. posts' = posts /\ completions' = completions /\ confirmed' = confirmed
  BY DEF Calm
<1>3. BannerTruthful'
  BY BannerQuiet DEF Calm
<1>4. IdsGiven' /\ OnePost' /\ TimerPostsUnconfirmed'
  BY <1>1, <1>2 DEF BannerInv, IdsGiven, OnePost, TimerPostsUnconfirmed
<1>5. ASSUME NEW q \in posts, q.tab # None PROVE q.tab \in Tabs
  BY <1>5 DEF BannerInv, TypeOK, Post
<1>6. PagesStay' /\ BannersSettled'
  BY <1>1, <1>2, <1>5 DEF BannerInv, PagesStay, BannersSettled
<1> QED BY <1>3, <1>4, <1>6 DEF BannerInv

\* Nobody waits on a tab that is closed.
LEMMA BannerOpens ==
    ASSUME BannerInv, NEW t \in Tabs, NEW p \in Page, Opens(t, p), TypeOK'
    PROVE  BannerInv'
<1>1. ASSUME NEW u \in Tabs PROVE page'[u] = IF u = t THEN p ELSE page[u]
  BY DEF BannerInv, TypeOK, Opens
<1>2. posts' = posts /\ completions' = completions /\ confirmed' = confirmed /\ p.error = None
  BY DEF Opens
<1>3. BannerTruthful'
  BY BannerQuiet DEF Opens
<1>4. IdsGiven' /\ OnePost' /\ TimerPostsUnconfirmed'
  BY <1>1, <1>2 DEF BannerInv, IdsGiven, OnePost, TimerPostsUnconfirmed
<1>5. ASSUME NEW q \in posts, q.tab # None
      PROVE  q.tab \in Tabs /\ q.tab # t /\ q.id # None
  <2>1. q.tab \in Tabs /\ q.from # "closed" /\ q.id # None
    BY <1>5, TimerAssumption DEF BannerInv, TypeOK, Post, Ids
  <2> QED BY <1>5, <2>1 DEF BannerInv, PagesStay, Opens, Open
<1>6. PagesStay' /\ BannersSettled'
  BY <1>1, <1>2, <1>5 DEF BannerInv, PagesStay, BannersSettled
<1> QED BY <1>3, <1>4, <1>6 DEF BannerInv

LEMMA BannerEnds ==
    ASSUME BannerInv, NEW t \in Tabs, NEW p \in Page, NEW q \in Post, Ends(t, p, q), TypeOK'
    PROVE  BannerInv'
<1>1. ASSUME NEW u \in Tabs PROVE page'[u] = IF u = t THEN p ELSE page[u]
  BY DEF BannerInv, TypeOK, Ends
<1>2. /\ posts' = posts \cup {q} /\ completions' = completions + 1 /\ confirmed' = confirmed
      /\ p.error = None /\ p.at = page[t].at
      /\ q.id = completions + 1 /\ q.tab = t /\ q.from = page[t].at
  BY DEF Ends
<1>3. BannerTruthful'
  BY <1>2, BannerQuiet DEF Ends
<1>4. completions \in Nat
  BY DEF BannerInv, TypeOK
<1>5. completions + 1 \in 1 .. completions' /\ completions + 1 \notin 1 .. completions
      /\ 1 .. completions \subseteq 1 .. completions'
  BY <1>2, <1>4
<1>6. IdsGiven'
  BY <1>1, <1>2, <1>5 DEF BannerInv, IdsGiven
<1>7. OnePost' /\ TimerPostsUnconfirmed'
  BY <1>2, <1>5 DEF BannerInv, IdsGiven, OnePost, TimerPostsUnconfirmed
<1>8. ASSUME NEW r \in posts, r.tab # None PROVE r.tab \in Tabs
  BY <1>8 DEF BannerInv, TypeOK, Post
<1>9. PagesStay'
  BY <1>1, <1>2, <1>8 DEF BannerInv, PagesStay
<1>10. ASSUME NEW r \in posts', r.tab # None, NEW u \in Tabs PROVE page'[u].error # r.id
  <2>1. r.id # None /\ None \notin 1 .. completions
    BY <1>2, <1>4, TimerAssumption DEF BannerInv, TypeOK, Post, Ids
  <2>2. CASE u = t
    BY <1>1, <1>2, <2>1, <2>2
  <2>3. CASE u # t /\ r \in posts
    BY <1>1, <1>10, <2>3 DEF BannerInv, BannersSettled
  <2>4. CASE u # t /\ r = q
    <3>1. page'[u].error \in 1 .. completions \cup {None}
      BY <1>1, <2>4 DEF BannerInv, IdsGiven
    <3> QED BY <1>2, <1>5, <2>1, <2>4, <3>1
  <2> QED BY <1>2, <2>2, <2>3, <2>4
<1>11. BannersSettled'
  BY <1>10 DEF BannersSettled
<1> QED BY <1>3, <1>6, <1>7, <1>9, <1>11 DEF BannerInv

LEMMA BannerLeave ==
    ASSUME BannerInv, NEW t \in Tabs, Leave(t), TypeOK'
    PROVE  BannerInv'
<1>1. ASSUME NEW u \in Tabs PROVE page'[u] = IF u = t THEN Closed ELSE page[u]
  BY DEF BannerInv, TypeOK, Leave
<1>2. completions' = completions /\ confirmed' = confirmed /\ Closed.error = None
  BY DEF Leave, history, Closed
<1>3. BannerTruthful'
  BY <1>2, ClosedPage, BannerQuiet DEF Leave
<1>4. ASSUME NEW r \in posts'
      PROVE  \E q \in posts : /\ q.id = r.id /\ q.from = r.from
                              /\ r = IF q.tab = t THEN [q EXCEPT !.tab = None] ELSE q
                              /\ r.tab # None => r.tab # t /\ r = q
  <2> PICK q \in posts : r = IF q.tab = t THEN [q EXCEPT !.tab = None] ELSE q
    BY DEF Leave
  <2>1. q \in Post
    BY DEF BannerInv, TypeOK
  <2>2. q.id = r.id /\ q.from = r.from /\ (q.tab = t => r.tab = None)
    BY <2>1 DEF Post
  <2> QED BY <2>2
<1>5. IdsGiven'
  BY <1>1, <1>2, <1>4 DEF BannerInv, IdsGiven
<1>6. OnePost' /\ TimerPostsUnconfirmed'
  BY <1>2, <1>4 DEF BannerInv, OnePost, TimerPostsUnconfirmed
<1>7. ASSUME NEW r \in posts', r.tab # None
      PROVE  /\ page'[r.tab].at = r.from
             /\ \A u \in Tabs : page'[u].error # r.id
  <2>1. r \in posts /\ r.tab # t
    BY <1>4, <1>7
  <2>2. r.tab \in Tabs /\ r.id # None
    BY <1>7, <2>1, TimerAssumption DEF BannerInv, TypeOK, Post, Ids
  <2> QED BY <1>1, <1>2, <1>7, <2>1, <2>2 DEF BannerInv, PagesStay, BannersSettled
<1> QED BY <1>3, <1>5, <1>6, <1>7 DEF BannerInv, PagesStay, BannersSettled

\* What a step of the request on q leaves of the POSTs: the others, and at most q itself
\* in another phase, perhaps with nobody waiting for it.
Settles(q) ==
    \A r \in posts' :
        \/ r \in posts \ {q}
        \/ r.id = q.id /\ r.from = q.from /\ r.tab \in {q.tab, None}
           /\ \A s \in posts' : s.id = q.id => s = r

LEMMA PostSettles ==
    ASSUME BannerInv, NEW q \in posts, PostStep(q)
    PROVE  Settles(q)
<1>1. q \in Post
  BY DEF BannerInv, TypeOK
<1>2. \A s \in posts \ {q} : s.id # q.id
  BY DEF BannerInv, OnePost
<1>3. ASSUME NEW r, r.id = q.id, r.from = q.from, r.tab \in {q.tab, None},
             posts' \subseteq (posts \ {q}) \cup {r}
      PROVE  Settles(q)
  BY <1>2, <1>3 DEF Settles
<1>4. CASE Save(q)
  <2> DEFINE r == [q EXCEPT !.phase = "saved"]
  <2>1. r.id = q.id /\ r.from = q.from /\ r.tab = q.tab
    BY <1>1 DEF Post
  <2>2. posts' \subseteq (posts \ {q}) \cup {r}
    BY <1>4 DEF Save
  <2> QED BY <1>3, <2>1, <2>2
<1>5. CASE Reply(q)
  <2> DEFINE r == [q EXCEPT !.phase = "refreshing"]
  <2>1. r.id = q.id /\ r.from = q.from /\ r.tab = q.tab
    BY <1>1 DEF Post
  <2>2. posts' \subseteq (posts \ {q}) \cup {r}
    BY <1>5 DEF Reply
  <2> QED BY <1>3, <2>1, <2>2
<1>6. CASE Refreshed(q)
  BY <1>6 DEF Refreshed, Settles
<1>7. CASE Fail(q)
  <2> DEFINE r == [q EXCEPT !.tab = None]
  <2>1. r.id = q.id /\ r.from = q.from /\ r.tab = None
    BY <1>1 DEF Post
  <2>2. posts' \subseteq (posts \ {q}) \cup {r}
    BY <1>7 DEF Fail
  <2> QED BY <1>3, <2>1, <2>2
<1> QED BY <1>4, <1>5, <1>6, <1>7 DEF PostStep

LEMMA SettledPosts ==
    ASSUME BannerInv, NEW q \in posts, Settles(q)
    PROVE  /\ OnePost'
           /\ \A r \in posts' : \E x \in posts :
                 x.id = r.id /\ x.from = r.from /\ (r.tab # None => r.tab = x.tab)
<1>1. \A s \in posts \ {q} : s.id # q.id
  BY DEF BannerInv, OnePost
<1>2. OnePost'
  BY <1>1 DEF Settles, OnePost, BannerInv
<1> QED BY <1>2 DEF Settles

\* The 201 reaches the page: from the timer page nothing is left to wait for, and no
\* page has said the session was lost.
LEMMA BannerReply ==
    ASSUME BannerInv, NEW q \in posts, Reply(q), TypeOK'
    PROVE  BannerInv'
<1>1. /\ page' = page /\ completions' = completions
      /\ confirmed' = IF q.tab = None THEN confirmed ELSE confirmed \cup {q.id}
      /\ q.from # "exam" => posts' = posts \ {q}
  BY DEF Reply
<1>2. Settles(q)
  BY PostSettles DEF PostStep
<1>3. IdsGiven'
  BY <1>1, <1>2, SettledPosts DEF BannerInv, IdsGiven
<1>4. PagesStay' /\ BannersSettled'
  BY <1>1, <1>2, SettledPosts DEF BannerInv, PagesStay, BannersSettled
<1>5. TimerPostsUnconfirmed'
  <2> SUFFICES ASSUME NEW r \in posts', r.from = "timer" PROVE r.id \notin confirmed'
    BY DEF TimerPostsUnconfirmed
  <2>1. r \in posts \ {q}
    <3>1. CASE q.from = "timer"
      BY <1>1, <3>1
    <3>2. CASE q.from # "timer"
      BY <1>2, <3>2 DEF Settles
    <3> QED BY <3>1, <3>2
  <2>2. r.id # q.id
    BY <2>1 DEF BannerInv, OnePost
  <2> QED BY <1>1, <2>1, <2>2 DEF BannerInv, TimerPostsUnconfirmed
<1>6. BannerTruthful'
  <2>1. q.tab # None => \A t \in Tabs : page[t].error # q.id
    BY DEF BannerInv, BannersSettled
  <2> QED BY <1>1, <2>1 DEF BannerInv, BannerTruthful
<1> QED BY <1>2, <1>3, <1>4, <1>5, <1>6, SettledPosts DEF BannerInv

LEMMA BannerFail ==
    ASSUME BannerInv, NEW q \in posts, Fail(q), TypeOK'
    PROVE  BannerInv'
<1>1. /\ page' = IF q.tab = None THEN page ELSE [page EXCEPT ![q.tab].error = q.id]
      /\ completions' = completions /\ confirmed' = confirmed
  BY DEF Fail, history
<1>2. Settles(q)
  BY PostSettles DEF PostStep
<1>3. q.id \in 1 .. completions /\ q \in Post /\ q.tab \in Tabs \cup {None}
  BY DEF BannerInv, IdsGiven, TypeOK, Post
<1>4. ASSUME NEW u \in Tabs
      PROVE  /\ page'[u].at = page[u].at
             /\ page'[u].error = IF u = q.tab THEN q.id ELSE page[u].error
  <2>1. CASE q.tab = None
    BY <1>1, <2>1, TimerAssumption
  <2>2. CASE q.tab # None
    BY <1>1, <1>3, <2>2 DEF BannerInv, TypeOK, Page
  <2> QED BY <2>1, <2>2
<1>5. IdsGiven'
  BY <1>1, <1>2, <1>3, <1>4, SettledPosts DEF BannerInv, IdsGiven
<1>6. TimerPostsUnconfirmed'
  BY <1>1, <1>2, SettledPosts DEF BannerInv, TimerPostsUnconfirmed
<1>7. ASSUME NEW r \in posts', r.tab # None PROVE r \in posts \ {q} /\ r.tab \in Tabs
  <2>1. r \in posts \ {q}
    <3>1. CASE posts' = posts \ {q}
      BY <3>1
    <3>2. CASE posts' = (posts \ {q}) \cup {[q EXCEPT !.tab = None]}
      BY <1>3, <1>7, <3>2 DEF Post
    <3> QED BY <3>1, <3>2 DEF Fail
  <2> QED BY <1>7, <2>1 DEF BannerInv, TypeOK, Post
<1>8. PagesStay'
  BY <1>4, <1>7 DEF BannerInv, PagesStay
<1>9. BannersSettled'
  <2> SUFFICES ASSUME NEW r \in posts', r.tab # None, NEW u \in Tabs
               PROVE  page'[u].error # r.id
    BY DEF BannersSettled
  <2>1. r \in posts \ {q} /\ r.id # q.id
    BY <1>7 DEF BannerInv, OnePost
  <2> QED BY <1>4, <2>1 DEF BannerInv, BannersSettled
<1>10. BannerTruthful'
  <2> SUFFICES ASSUME NEW u \in Tabs, page'[u].error \in confirmed PROVE page'[u].at = "exam"
    BY <1>1 DEF BannerTruthful
  <2>1. CASE u = q.tab
    <3>1. q.id \in confirmed /\ page'[u].at = q.from /\ q.from \in {"timer", "exam"}
      BY <1>3, <1>4, <2>1, TimerAssumption DEF BannerInv, PagesStay, Post
    <3> QED BY <3>1 DEF BannerInv, TimerPostsUnconfirmed
  <2>2. CASE u # q.tab
    BY <1>4, <2>2 DEF BannerInv, BannerTruthful
  <2> QED BY <2>1, <2>2
<1> QED BY <1>2, <1>5, <1>6, <1>8, <1>9, <1>10, SettledPosts DEF BannerInv

LEMMA BannerPostStep ==
    ASSUME BannerInv, NEW q \in posts, PostStep(q), TypeOK'
    PROVE  BannerInv'
<1>1. CASE Save(q) \/ Refreshed(q)
  <2>1. page' = page /\ completions' = completions /\ confirmed' = confirmed
    BY <1>1 DEF Save, Refreshed, history
  <2>2. Settles(q)
    BY PostSettles
  <2>3. IdsGiven'
    BY <2>1, <2>2, SettledPosts DEF BannerInv, IdsGiven
  <2>4. TimerPostsUnconfirmed'
    BY <2>1, <2>2, SettledPosts DEF BannerInv, TimerPostsUnconfirmed
  <2>5. PagesStay' /\ BannersSettled'
    BY <2>1, <2>2, SettledPosts DEF BannerInv, PagesStay, BannersSettled
  <2>6. BannerTruthful'
    BY <2>1 DEF BannerInv, BannerTruthful
  <2> QED BY <2>2, <2>3, <2>4, <2>5, <2>6, SettledPosts DEF BannerInv
<1> QED BY <1>1, BannerReply, BannerFail DEF PostStep

LEMMA BannerStep == BannerInv /\ [Next]_vars => BannerInv'
<1> SUFFICES ASSUME BannerInv, [Next]_vars PROVE BannerInv'
  OBVIOUS
<1>1. TypeOK /\ TypeOK'
  BY TypeStep DEF BannerInv
<1>2. CASE NextDay \/ UNCHANGED vars
  <2>1. UNCHANGED <<page, posts, completions, confirmed>>
    BY <1>2 DEF NextDay, vars, history
  <2> QED BY <1>1, <2>1 DEF BannerInv, IdsGiven, OnePost, TimerPostsUnconfirmed,
             PagesStay, BannersSettled, BannerTruthful
<1>3. ASSUME NEW t \in Tabs, TabStep(t) PROVE BannerInv'
  <2>1. CASE \E at \in {"timer", "exam"} : Mount(t, at)
    BY <1>1, <2>1, MountOpens, BannerOpens
  <2>2. CASE Leave(t)
    BY <1>1, <2>2, BannerLeave
  <2>3. CASE \E mode \in Modes : \E n \in Offered : UpdateDurations(t, mode, n)
    BY <1>1, <2>3, CalmUpdate, BannerCalm
  <2>4. CASE FocusOver(t)
    BY <1>1, <2>4, FocusEnds, BannerEnds
  <2>5. CASE \/ Start(t) \/ Pause(t) \/ Reset(t) \/ Tick(t) \/ BreakOver(t)
             \/ \E mode \in Modes : ChangeMode(t, mode)
    BY <1>1, <2>5, CalmClick, BannerCalm
  <2> QED BY <1>3, <2>1, <2>2, <2>3, <2>4, <2>5 DEF TabStep
<1> QED BY <1>1, <1>2, <1>3, BannerPostStep DEF Next

\* Whatever order the replies of however many sessions come in, the timer page never
\* says a session was lost whose 201 it has received.
THEOREM BannerTheorem == Spec => []BannerTruthful
<1>1. BannerInv => BannerTruthful
  BY DEF BannerInv
<1> QED BY <1>1, BannerInit, BannerStep, PTL DEF Spec

-----------------------------------------------------------------------------
(* Days in a row.                                                          *)

\* A nonempty set of numbers up to a bound has a greatest.
LEMMA MaxOf ==
    ASSUME NEW cap \in Nat, NEW S \in SUBSET (0 .. cap), S # {}
    PROVE  Max(S) \in S /\ \A y \in S : Max(S) >= y
<1> DEFINE less == OpToRel(<, Nat)
           gaps == {n \in Nat : \E x \in S : n = cap - x}
<1>1. \A x, y \in Nat : <<x, y>> \in less <=> x < y
  BY DEF OpToRel
<1>2. IsWellFoundedOn(less, Nat)
  BY NatLessThanWellFounded
<1>3. gaps \subseteq Nat /\ gaps # {}
  <2>1. PICK x \in S : x \in 0 .. cap
    OBVIOUS
  <2>2. cap - x \in gaps
    BY <2>1
  <2> QED BY <2>2
<1> HIDE DEF less, gaps
<1>4. PICK g \in gaps : \A h \in gaps : <<h, g>> \notin less
  BY <1>2, <1>3, WFMin
<1>5. PICK x \in S : g = cap - x
  BY <1>4 DEF gaps
<1>6. ASSUME NEW y \in S PROVE x >= y
  <2>1. x \in 0 .. cap /\ y \in 0 .. cap /\ cap - y \in Nat /\ cap - x \in Nat
    OBVIOUS
  <2>2. cap - y \in gaps
    BY <2>1 DEF gaps
  <2>3. ~(cap - y < cap - x)
    BY <1>1, <1>4, <1>5, <2>1, <2>2
  <2> QED BY <2>1, <2>3
<1> QED BY <1>6 DEF Max

\* A run is in the days, and goes on as far as it can.
LEMMA RunFacts ==
    ASSUME NEW days, NEW d \in Int, NEW cap \in Nat
    PROVE  /\ Run(days, d, cap) \in 0 .. cap
           /\ \A i \in 0 .. Run(days, d, cap) - 1 : d - i \in days
           /\ Run(days, d, cap) = cap \/ d - Run(days, d, cap) \notin days
<1> DEFINE S == {n \in 0 .. cap : \A i \in 0 .. n - 1 : d - i \in days}
           r == Max(S)
<1>1. S \in SUBSET (0 .. cap) /\ 0 \in S
  OBVIOUS
<1>2. r \in S /\ \A y \in S : r >= y
  <2> HIDE DEF S
  <2> QED BY <1>1, MaxOf
<1>3. Run(days, d, cap) = r
  BY DEF Run
<1> HIDE DEF r
<1>4. r \in 0 .. cap /\ \A i \in 0 .. r - 1 : d - i \in days
  BY <1>2
<1>5. ASSUME r # cap, d - r \in days PROVE FALSE
  <2>1. r + 1 \in 0 .. cap
    BY <1>4, <1>5
  <2>2. ASSUME NEW i \in 0 .. (r + 1) - 1 PROVE d - i \in days
    BY <1>4, <1>5
  <2>3. r + 1 \in S
    BY <2>1, <2>2
  <2> QED BY <1>2, <1>4, <2>3
<1> QED BY <1>3, <1>4, <1>5

\* These facts determine it.
LEMMA RunIs ==
    ASSUME NEW days, NEW d \in Int, NEW cap \in Nat, NEW n \in 0 .. cap,
           \A i \in 0 .. n - 1 : d - i \in days,
           n = cap \/ d - n \notin days
    PROVE  Run(days, d, cap) = n
<1> DEFINE r == Run(days, d, cap)
<1>1. /\ r \in 0 .. cap /\ \A i \in 0 .. r - 1 : d - i \in days
      /\ r = cap \/ d - r \notin days
  BY RunFacts
<1> HIDE DEF r
<1>2. ~(r < n)
  BY <1>1
<1>3. ~(n < r)
  BY <1>1
<1> QED BY <1>1, <1>2, <1>3 DEF r

-----------------------------------------------------------------------------
(* The stats in localStorage.                                              *)

\* What localStorage should hold.
AllStats ==
    IF completions = 0 THEN NoStats ELSE
        [sessions |-> completions, last |-> Max(earned),
         streak |-> Run(earned, Max(earned), Cardinality(earned))]

\* An open tab that no other has overtaken has in memory what is stored, as long as
\* no tab that was overtaken has stored anything.
FreshTabs ==
    \A t \in Tabs : ~overwritten /\ Open(t) /\ t \notin behind => page[t].stats = storedStats

EarnedSoFar ==
    /\ earned \subseteq 0 .. day
    /\ completions = 0 <=> earned = {}

StatsInv == TypeOK /\ EarnedSoFar /\ FreshTabs /\ (~overwritten => storedStats = AllStats)

LEMMA StatsFollow == StatsInv => StatsCompleteUnlessOverwritten
BY DEF StatsInv, StatsCompleteUnlessOverwritten, AllStats

LEMMA StatsInit == Init => StatsInv
<1> SUFFICES ASSUME Init PROVE StatsInv
  OBVIOUS
<1>1. TypeOK
  BY InitType
<1>2. EarnedSoFar /\ storedStats = AllStats
  BY DEF Init, EarnedSoFar, AllStats
<1>3. FreshTabs
  BY DEF Init, FreshTabs, Open, Closed
<1> QED BY <1>1, <1>2, <1>3 DEF StatsInv

\* The days earned with today among them.
LEMMA EarnedToday ==
    ASSUME StatsInv
    PROVE  /\ earned \cup {day} \subseteq 0 .. day /\ day \in Nat
           /\ Max(earned \cup {day}) = day
           /\ Cardinality(earned) \in Nat
           /\ Cardinality(earned \cup {day})
                = IF day \in earned THEN Cardinality(earned) ELSE Cardinality(earned) + 1
<1>1. day \in Nat /\ earned \subseteq 0 .. day
  BY DEF StatsInv, TypeOK, Days, EarnedSoFar
<1> DEFINE S == earned \cup {day}
<1>2. S \in SUBSET (0 .. day) /\ S # {} /\ day \in S
  BY <1>1
<1> HIDE DEF S
<1>3. Max(S) \in S /\ \A y \in S : Max(S) >= y
  BY <1>1, <1>2, MaxOf
<1>4. Max(S) = day
  <2> DEFINE x == Max(S)
  <2>1. x \in 0 .. day /\ x >= day
    BY <1>2, <1>3
  <2> HIDE DEF x
  <2>2. x = day
    BY <1>1, <2>1
  <2> QED BY <2>2 DEF x
<1>5. IsFiniteSet(0 .. day)
  BY <1>1, FS_Interval
<1>6. IsFiniteSet(earned)
  BY <1>1, <1>5, FS_Subset
<1>7. Cardinality(earned) \in Nat
  BY <1>6, FS_CardinalityType
<1> QED BY <1>1, <1>2, <1>4, <1>6, <1>7, FS_AddElement DEF S

\* The updater counts right: from the stats of all sessions so far it makes those with
\* one more today.
LEMMA NextStatsCount ==
    ASSUME StatsInv, FocusBound \in Nat, completions' = completions + 1,
           earned' = earned \cup {day}
    PROVE  NextStats(AllStats) = AllStats'
<1> DEFINE new == earned \cup {day}
           c == Cardinality(earned)
           n == Cardinality(new)
<1>1. /\ new \subseteq 0 .. day /\ day \in Nat /\ Max(new) = day /\ c \in Nat
      /\ n = IF day \in earned THEN c ELSE c + 1
  BY EarnedToday
<1>2. completions \in Nat /\ completions + 1 # 0
  BY DEF StatsInv, TypeOK
<1>3. AllStats' = [sessions |-> completions + 1, last |-> day,
                   streak |-> Run(new, day, n)]
  BY <1>1, <1>2 DEF AllStats
<1>4. CASE completions = 0
  <2>1. earned = {} /\ AllStats = NoStats
    BY <1>4 DEF StatsInv, EarnedSoFar, AllStats
  <2>2. c = 0 /\ n = 1
    BY <1>1, <2>1, FS_EmptySet
  <2>3. Run(new, day, n) = 1
    <3>1. \A i \in 0 .. 1 - 1 : day - i \in new
      BY <1>1
    <3> HIDE DEF new, n
    <3> QED BY <1>1, <2>2, <3>1, RunIs
  <2>4. None # day /\ None # day - 1
    BY <1>1, TimerAssumption
  <2>5. NextStats(NoStats) = [sessions |-> 0 + 1, last |-> day, streak |-> 1]
    BY <2>4 DEF NextStats, NoStats
  <2> QED BY <1>3, <1>4, <2>1, <2>3, <2>5
<1>5. CASE completions # 0
  <2> DEFINE m == Max(earned)
             r == Run(earned, m, c)
  <2>1. earned # {} /\ earned \in SUBSET (0 .. day)
    BY <1>5 DEF StatsInv, EarnedSoFar
  <2>2. m \in earned /\ m \in 0 .. day /\ \A y \in earned : m >= y
    BY <1>1, <2>1, MaxOf
  <2>3. AllStats = [sessions |-> completions, last |-> m, streak |-> r]
    BY <1>5 DEF AllStats
  <2>4. /\ r \in 0 .. c /\ \A i \in 0 .. r - 1 : m - i \in earned
        /\ r = c \/ m - r \notin earned
    <3> HIDE DEF m, c
    <3> QED BY <1>1, <2>2, RunFacts
  <2> HIDE DEF c, n, m, r
  <2>5. CASE m = day
    <3>1. new = earned
      BY <2>2, <2>5
    <3>2. n = c
      BY <3>1 DEF n, c
    <3>3. Run(new, day, n) = r
      BY <2>5, <3>1, <3>2 DEF r
    <3> HIDE DEF new
    <3>4. NextStats(AllStats) = [sessions |-> completions + 1, last |-> day, streak |-> r]
      <4>1. day # day - 1
        BY <1>1
      <4> QED BY <2>3, <2>5, <4>1 DEF NextStats
    <3> QED BY <1>3, <3>3, <3>4
  <2>6. CASE m = day - 1
    <3>1. day \notin earned /\ n = c + 1
      BY <1>1, <2>2, <2>6
    <3>2. ASSUME NEW i \in 0 .. (r + 1) - 1 PROVE day - i \in new
      <4>1. CASE i = 0
        BY <1>1, <4>1
      <4>2. CASE i # 0
        <5>1. i - 1 \in 0 .. r - 1 /\ m - (i - 1) = day - i
          BY <1>1, <2>2, <2>4, <2>6, <4>2
        <5> QED BY <2>4, <5>1
      <4> QED BY <4>1, <4>2
    <3>3. r + 1 = n \/ day - (r + 1) \notin new
      <4>1. m - r = day - (r + 1) /\ day - (r + 1) # day
        BY <1>1, <2>2, <2>4, <2>6
      <4> QED BY <2>4, <3>1, <4>1
    <3>4. r + 1 \in 0 .. n /\ n \in Nat /\ day \in Int
      BY <1>1, <2>4, <3>1
    <3> HIDE DEF new
    <3>5. Run(new, day, n) = r + 1
      BY <3>2, <3>3, <3>4, RunIs
    <3>6. NextStats(AllStats) = [sessions |-> completions + 1, last |-> day, streak |-> r + 1]
      <4>1. m # day
        BY <1>1, <2>6
      <4> QED BY <2>3, <2>6, <4>1 DEF NextStats
    <3> QED BY <1>3, <3>5, <3>6
  <2>7. CASE m # day /\ m # day - 1
    <3>1. day \notin earned /\ n = c + 1 /\ day - 1 \notin earned
      BY <1>1, <2>2, <2>7
    <3>2. \A i \in 0 .. 1 - 1 : day - i \in new
      BY <1>1
    <3>3. day - 1 \notin new
      BY <1>1, <3>1
    <3>4. 1 \in 0 .. n /\ n \in Nat /\ day \in Int
      BY <1>1, <3>1
    <3> HIDE DEF new
    <3>5. Run(new, day, n) = 1
      BY <3>2, <3>3, <3>4, RunIs
    <3>6. NextStats(AllStats) = [sessions |-> completions + 1, last |-> day, streak |-> 1]
      BY <2>3, <2>7 DEF NextStats
    <3> QED BY <1>3, <3>5, <3>6
  <2> QED BY <2>5, <2>6, <2>7
<1> QED BY <1>4, <1>5

LEMMA StatsEnds ==
    ASSUME StatsInv, NEW t \in Tabs, NEW p \in Page, NEW q, Ends(t, p, q), TypeOK'
    PROVE  StatsInv'
<1>1. ASSUME NEW u \in Tabs PROVE page'[u] = IF u = t THEN p ELSE page[u]
  BY DEF StatsInv, TypeOK, Ends
<1>2. EarnedSoFar'
  <2>1. earned' \subseteq 0 .. day /\ earned' # {} /\ day' = day
    BY EarnedToday DEF Ends
  <2>2. completions' # 0
    BY DEF StatsInv, TypeOK, Ends
  <2> QED BY <2>1, <2>2 DEF EarnedSoFar
<1>3. FreshTabs'
  <2> SUFFICES ASSUME NEW u \in Tabs, page'[u].at # "closed", u \notin behind'
               PROVE  page'[u].stats = storedStats'
    BY DEF FreshTabs, Open
  <2>1. u = t
    BY <1>1 DEF Ends, Open
  <2> QED BY <1>1, <2>1 DEF Ends
<1>4. ~overwritten' => storedStats' = AllStats'
  <2> SUFFICES ASSUME ~overwritten' PROVE storedStats' = AllStats'
    OBVIOUS
  <2>1. ~overwritten /\ t \notin behind /\ Open(t)
    BY DEF Ends
  <2>2. page[t].stats = AllStats
    BY <2>1 DEF StatsInv, FreshTabs
  <2>3. storedStats' = NextStats(page[t].stats)
    BY DEF Ends
  <2>4. NextStats(AllStats) = AllStats'
    BY NextStatsCount, TimerAssumption DEF Ends
  <2> QED BY <2>2, <2>3, <2>4
<1> QED BY <1>2, <1>3, <1>4 DEF StatsInv

\* A step that leaves the stats and the history of every tab that stays open alone.
LEMMA StatsQuiet ==
    ASSUME StatsInv, TypeOK', day' \in {day, day + 1},
           UNCHANGED <<storedStats, completions, earned, overwritten>>,
           \A t \in Tabs : \/ page'[t].at = "closed"
                           \/ ~overwritten /\ t \notin behind' => page'[t].stats = storedStats
    PROVE  StatsInv'
<1>1. EarnedSoFar'
  BY DEF StatsInv, TypeOK, Days, EarnedSoFar
<1>2. FreshTabs'
  BY DEF FreshTabs, Open
<1>3. AllStats' = AllStats
  BY DEF AllStats
<1> QED BY <1>1, <1>2, <1>3 DEF StatsInv

LEMMA StatsStep == StatsInv /\ [Next]_vars => StatsInv'
<1> SUFFICES ASSUME StatsInv, [Next]_vars PROVE StatsInv'
  OBVIOUS
<1>1. TypeOK /\ TypeOK' /\ day \in Nat
  BY TypeStep DEF StatsInv, TypeOK, Days
<1>2. ASSUME NEW t \in Tabs
      PROVE  page[t].at = "closed" \/ (~overwritten /\ t \notin behind => page[t].stats = storedStats)
  BY DEF StatsInv, FreshTabs, Open
<1>3. ASSUME day' \in {day, day + 1},
             UNCHANGED <<storedStats, completions, earned, overwritten, behind>>,
             \A t \in Tabs : /\ page'[t].at = page[t].at
                             /\ page'[t].stats = page[t].stats
      PROVE  StatsInv'
  BY <1>1, <1>2, <1>3, StatsQuiet
<1>4. CASE NextDay \/ UNCHANGED vars
  <2>1. /\ day' \in {day, day + 1} /\ page' = page
        /\ UNCHANGED <<storedStats, completions, earned, overwritten, behind>>
    BY <1>4 DEF NextDay, vars, history
  <2> QED BY <1>3, <2>1
<1>5. ASSUME NEW t \in Tabs, NEW p \in Page, Calm(t, p) PROVE StatsInv'
  <2>1. \A u \in Tabs : page'[u].at = page[u].at /\ page'[u].stats = page[u].stats
    BY <1>1, <1>5 DEF TypeOK, Calm
  <2> QED BY <1>3, <1>5, <2>1 DEF Calm
<1>6. ASSUME NEW t \in Tabs, NEW p \in Page, Opens(t, p) PROVE StatsInv'
  <2>1. /\ day' = day /\ behind' = behind \ {t}
        /\ UNCHANGED <<storedStats, completions, earned, overwritten>>
        /\ p.stats = storedStats
    BY <1>6 DEF Opens
  <2>2. \A u \in Tabs : page'[u] = IF u = t THEN p ELSE page[u]
    BY <1>1, <1>6 DEF TypeOK, Opens
  <2> QED BY <1>1, <1>2, <2>1, <2>2, StatsQuiet
<1>7. ASSUME NEW t \in Tabs, Leave(t) PROVE StatsInv'
  <2>1. UNCHANGED <<day, storedStats, completions, earned, overwritten, behind>>
    BY <1>7 DEF Leave, server, storage, history
  <2>2. \A u \in Tabs : page'[u] = IF u = t THEN Closed ELSE page[u]
    BY <1>1, <1>7 DEF TypeOK, Leave
  <2>3. Closed.at = "closed"
    BY DEF Closed
  <2> QED BY <1>1, <1>2, <2>1, <2>2, <2>3, StatsQuiet
<1>8. ASSUME NEW q \in posts, PostStep(q) PROVE StatsInv'
  <2>1. UNCHANGED <<day, storedStats, completions, earned, overwritten, behind>>
    BY <1>8 DEF PostStep, Save, Reply, Refreshed, Fail, server, storage, history
  <2>2. \A u \in Tabs : page'[u].at = page[u].at /\ page'[u].stats = page[u].stats
    <3>1. CASE page' = page
      BY <3>1
    <3>2. CASE q.tab \in Tabs /\ page' = [page EXCEPT ![q.tab].error = q.id]
      BY <1>1, <3>2 DEF TypeOK, Page
    <3>3. q.tab \in Tabs \cup {None}
      BY <1>1 DEF TypeOK, Post
    <3> QED BY <1>8, <3>1, <3>2, <3>3 DEF PostStep, Save, Reply, Refreshed, Fail
  <2> QED BY <1>3, <2>1, <2>2
<1>9. ASSUME NEW t \in Tabs, TabStep(t) PROVE StatsInv'
  <2>1. CASE \E at \in {"timer", "exam"} : Mount(t, at)
    BY <1>1, <1>6, <2>1, MountOpens
  <2>2. CASE \E mode \in Modes : \E n \in Offered : UpdateDurations(t, mode, n)
    BY <1>1, <1>5, <2>2, CalmUpdate
  <2>3. CASE FocusOver(t)
    BY <1>1, <2>3, FocusEnds, StatsEnds
  <2>4. CASE \/ Start(t) \/ Pause(t) \/ Reset(t) \/ Tick(t) \/ BreakOver(t)
             \/ \E mode \in Modes : ChangeMode(t, mode)
    BY <1>1, <1>5, <2>4, CalmClick
  <2> QED BY <1>7, <1>9, <2>1, <2>2, <2>3, <2>4 DEF TabStep
<1> QED BY <1>4, <1>8, <1>9 DEF Next

\* However many tabs complete sessions on whatever days, the stats in localStorage count
\* them all and every day in a row, unless a tab has stored its own over newer ones.
THEOREM StatsTheorem == Spec => []StatsCompleteUnlessOverwritten
BY StatsInit, StatsStep, StatsFollow, PTL DEF Spec

-----------------------------------------------------------------------------
(* The streak.                                                             *)

\* A day in a row that stats count is a day a session was completed on.
StreakEarned(stats) ==
    stats.last # None =>
        stats.last <= day /\ \A i \in 0 .. stats.streak - 1 : stats.last - i \in earned

StreakInv ==
    /\ TypeOK
    /\ StreakEarned(storedStats)
    /\ \A t \in Tabs : StreakEarned(page[t].stats)

LEMMA StreakInit == Init => StreakInv
<1> SUFFICES ASSUME Init PROVE StreakInv
  OBVIOUS
<1>1. TypeOK
  BY InitType
<1>2. storedStats.last = None /\ \A t \in Tabs : page[t].stats.last = None
  BY DEF Init, Closed, NoStats
<1> QED BY <1>1, <1>2 DEF StreakInv, StreakEarned

\* The server counts at least the days the stats count, or as many as it looks back.
LEMMA StreakFollows == StreakInv => StreakPromise
<1> SUFFICES ASSUME StreakInv, earned \subseteq SavedDays,
                    NEW stats \in {storedStats} \cup {page[t].stats : t \in Tabs},
                    stats.last \in {day, day - 1}
             PROVE  ServerStreak(day) >= stats.streak \/ ServerStreak(day) = Lookback
  BY DEF StreakPromise
<1> DEFINE cursor == IF day \in Active(day) THEN day ELSE day - 1
           r == Run(Active(day), cursor, Lookback)
<1>1. day \in Nat /\ Lookback \in Nat /\ Lookback # 0 /\ None \notin Int
  BY TimerAssumption DEF StreakInv, TypeOK, Days
<1>2. stats.streak \in Nat
  BY DEF StreakInv, TypeOK, Page, Stats
<1>3. StreakEarned(stats)
  BY DEF StreakInv
<1>4. \A i \in 0 .. stats.streak - 1 : stats.last - i \in earned
  BY <1>1, <1>3 DEF StreakEarned
<1>5. ASSUME NEW d \in earned, d >= day - Lookback PROVE d \in Active(day)
  BY <1>5 DEF Active
<1>6. /\ r \in 0 .. Lookback
      /\ r = Lookback \/ cursor - r \notin Active(day)
  <2>1. cursor \in Int
    BY <1>1
  <2> HIDE DEF cursor
  <2> QED BY <1>1, <2>1, RunFacts
<1>7. ServerStreak(day) = r
  BY DEF ServerStreak
<1>8. day \notin Active(day) => cursor = day - 1
  OBVIOUS
<1>9. day \in Active(day) => cursor = day
  OBVIOUS
<1> HIDE DEF cursor, r
<1>10. SUFFICES ASSUME r < stats.streak, r # Lookback PROVE FALSE
  BY <1>2, <1>6, <1>7
<1>11. r \in 0 .. stats.streak - 1 /\ r < Lookback /\ cursor - r \notin Active(day)
  BY <1>1, <1>2, <1>6, <1>10
<1>12. CASE stats.last = day
  <2>1. day \in Active(day)
    <3>1. 0 \in 0 .. stats.streak - 1 /\ day - 0 = day /\ day >= day - Lookback
      BY <1>1, <1>2, <1>11
    <3>2. day \in earned
      BY <1>4, <1>12, <3>1
    <3> QED BY <1>5, <3>1, <3>2
  <2>2. day - r \in earned /\ cursor = day
    BY <1>4, <1>9, <1>11, <1>12, <2>1
  <2>3. day - r >= day - Lookback
    BY <1>1, <1>11
  <2> QED BY <1>5, <1>11, <2>2, <2>3
<1>13. CASE stats.last = day - 1
  <2>1. CASE day \in Active(day)
    <3>1. r # 0
      BY <1>1, <1>9, <1>11, <2>1
    <3>2. /\ r - 1 \in 0 .. stats.streak - 1 /\ (day - 1) - (r - 1) = day - r
          /\ day - r >= day - Lookback
      BY <1>1, <1>2, <1>11, <3>1
    <3>3. (day - 1) - (r - 1) \in earned
      BY <1>4, <1>13, <3>2
    <3> QED BY <1>5, <1>9, <1>11, <2>1, <3>2, <3>3
  <2>2. CASE day \notin Active(day)
    <3>1. (day - 1) - r \in earned
      BY <1>4, <1>11, <1>13
    <3>2. (day - 1) - r >= day - Lookback
      BY <1>1, <1>11
    <3> QED BY <1>5, <1>8, <1>11, <2>2, <3>1, <3>2
  <2> QED BY <2>1, <2>2
<1> QED BY <1>12, <1>13

\* The updater counts today, and the days in a row before it.
LEMMA NextStatsEarned ==
    ASSUME TypeOK, NEW prev \in Stats, StreakEarned(prev)
    PROVE  /\ NextStats(prev).last = day
           /\ \A i \in 0 .. NextStats(prev).streak - 1 : day - i \in earned \cup {day}
<1>1. day \in Nat /\ None \notin Int /\ prev.streak \in Nat
  BY TimerAssumption DEF TypeOK, Days, Stats
<1>2. NextStats(prev).last = day
  BY DEF NextStats
<1>3. CASE prev.last = day
  <2>1. day # day - 1 /\ day # None
    BY <1>1
  <2>2. NextStats(prev).streak = prev.streak
    BY <1>3, <2>1 DEF NextStats
  <2>3. \A i \in 0 .. prev.streak - 1 : day - i \in earned
    BY <1>3, <2>1 DEF StreakEarned
  <2> QED BY <1>2, <2>2, <2>3
<1>4. CASE prev.last = day - 1
  <2>1. day # day - 1 /\ day - 1 # None
    BY <1>1
  <2>2. NextStats(prev).streak = prev.streak + 1
    BY <1>4, <2>1 DEF NextStats
  <2>3. \A i \in 0 .. prev.streak - 1 : (day - 1) - i \in earned
    BY <1>4, <2>1 DEF StreakEarned
  <2>4. ASSUME NEW i \in 0 .. (prev.streak + 1) - 1 PROVE day - i \in earned \cup {day}
    <3>1. CASE i = 0
      BY <1>1, <3>1
    <3>2. CASE i # 0
      <4>1. i - 1 \in 0 .. prev.streak - 1 /\ (day - 1) - (i - 1) = day - i
        BY <1>1, <3>2
      <4> QED BY <2>3, <4>1
    <3> QED BY <3>1, <3>2
  <2> QED BY <1>2, <2>2, <2>4
<1>5. CASE prev.last # day /\ prev.last # day - 1
  <2>1. NextStats(prev).streak = 1
    BY <1>5 DEF NextStats
  <2>2. \A i \in 0 .. 1 - 1 : day - i \in earned \cup {day}
    BY <1>1
  <2> QED BY <1>2, <2>1, <2>2
<1> QED BY <1>3, <1>4, <1>5

\* No day is taken back, and days pass.
LEMMA StreakStays ==
    ASSUME TypeOK, NEW stats \in Stats, StreakEarned(stats),
           day' \in {day, day + 1}, earned \subseteq earned'
    PROVE  StreakEarned(stats)'
<1>1. day \in Nat /\ (stats.last # None => stats.last \in Nat)
  BY DEF TypeOK, Days, Stats
<1>2. stats.last # None => stats.last <= day'
  BY <1>1 DEF StreakEarned
<1> QED BY <1>2 DEF StreakEarned

LEMMA StreakStep == StreakInv /\ [Next]_vars => StreakInv'
<1> SUFFICES ASSUME StreakInv, [Next]_vars PROVE StreakInv'
  OBVIOUS
<1>1. TypeOK /\ TypeOK' /\ storedStats \in Stats /\ \A t \in Tabs : page[t].stats \in Stats
  BY TypeStep DEF StreakInv, TypeOK, Page
<1>2. StreakEarned(storedStats) /\ \A t \in Tabs : StreakEarned(page[t].stats)
  BY DEF StreakInv
<1> DEFINE Known == {NoStats, storedStats} \cup {page[t].stats : t \in Tabs}
<1>3. ASSUME NEW stats \in Known PROVE stats \in Stats /\ StreakEarned(stats)
  <2>1. NoStats \in Stats /\ StreakEarned(NoStats)
    BY ClosedPage DEF NoStats, StreakEarned
  <2> QED BY <1>1, <1>2, <2>1
\* Every page keeps its stats, loads the stored ones or loses them.
<1>4. ASSUME day' \in {day, day + 1}, earned' = earned, storedStats' = storedStats,
             \A t \in Tabs : page'[t].stats \in Known
      PROVE  StreakInv'
  <2>1. ASSUME NEW stats \in Known
        PROVE  stats.last # None =>
                  stats.last <= day' /\ \A i \in 0 .. stats.streak - 1 : stats.last - i \in earned'
    BY <1>1, <1>3, <1>4, StreakStays DEF StreakEarned
  <2>2. storedStats' \in Known
    BY <1>4
  <2> HIDE DEF Known
  <2> QED BY <1>1, <1>4, <2>1, <2>2 DEF StreakInv, StreakEarned
<1>5. CASE NextDay \/ UNCHANGED vars
  <2>1. day' \in {day, day + 1} /\ UNCHANGED <<page, earned, storedStats>>
    BY <1>5 DEF NextDay, vars, history
  <2> QED BY <1>4, <2>1
<1>6. ASSUME NEW t \in Tabs, NEW p \in Page, Calm(t, p) PROVE StreakInv'
  <2>1. \A u \in Tabs : page'[u].stats = page[u].stats
    BY <1>1, <1>6 DEF TypeOK, Calm
  <2> QED BY <1>4, <1>6, <2>1 DEF Calm
<1>7. ASSUME NEW t \in Tabs, NEW p \in Page, Opens(t, p) PROVE StreakInv'
  <2>1. \A u \in Tabs : page'[u].stats = IF u = t THEN storedStats ELSE page[u].stats
    BY <1>1, <1>7 DEF TypeOK, Opens
  <2> QED BY <1>4, <1>7, <2>1 DEF Opens
<1>8. ASSUME NEW t \in Tabs, Leave(t) PROVE StreakInv'
  <2>1. UNCHANGED <<day, earned, storedStats>>
    BY <1>8 DEF Leave, server, storage, history
  <2>2. \A u \in Tabs : page'[u].stats = IF u = t THEN NoStats ELSE page[u].stats
    BY <1>1, <1>8 DEF TypeOK, Leave, Closed
  <2> QED BY <1>4, <2>1, <2>2
<1>9. ASSUME NEW q \in posts, PostStep(q) PROVE StreakInv'
  <2>1. UNCHANGED <<day, earned, storedStats>>
    BY <1>9 DEF PostStep, Save, Reply, Refreshed, Fail, server, storage, history
  <2>2. \A u \in Tabs : page'[u].stats = page[u].stats
    <3>1. CASE page' = page
      BY <3>1
    <3>2. CASE q.tab \in Tabs /\ page' = [page EXCEPT ![q.tab].error = q.id]
      BY <1>1, <3>2 DEF TypeOK, Page
    <3>3. q.tab \in Tabs \cup {None}
      BY <1>1 DEF TypeOK, Post
    <3> QED BY <1>9, <3>1, <3>2, <3>3 DEF PostStep, Save, Reply, Refreshed, Fail
  <2> QED BY <1>4, <2>1, <2>2
<1>10. ASSUME NEW t \in Tabs, NEW p \in Page, NEW q, Ends(t, p, q) PROVE StreakInv'
  <2> DEFINE next == NextStats(page[t].stats)
  <2>1. /\ day' = day /\ earned' = earned \cup {day} /\ storedStats' = next
        /\ \A u \in Tabs : page'[u].stats = IF u = t THEN next ELSE page[u].stats
    BY <1>1, <1>10 DEF TypeOK, Ends
  <2>2. next.last = day /\ \A i \in 0 .. next.streak - 1 : day - i \in earned \cup {day}
    BY <1>1, <1>2, NextStatsEarned
  <2> HIDE DEF next
  <2>3. day <= day'
    BY <1>1, <2>1 DEF TypeOK, Days
  <2>4. next.last # None =>
           next.last <= day' /\ \A i \in 0 .. next.streak - 1 : next.last - i \in earned'
    BY <2>1, <2>2, <2>3
  <2>5. ASSUME NEW stats \in Known
        PROVE  stats.last # None =>
                  stats.last <= day' /\ \A i \in 0 .. stats.streak - 1 : stats.last - i \in earned'
    BY <1>1, <1>3, <2>1, StreakStays DEF StreakEarned
  <2>6. \A u \in Tabs : page[u].stats \in Known
    OBVIOUS
  <2> HIDE DEF Known
  <2> QED BY <1>1, <2>1, <2>4, <2>5, <2>6 DEF StreakInv, StreakEarned
<1>11. ASSUME NEW t \in Tabs, TabStep(t) PROVE StreakInv'
  <2>1. CASE \E at \in {"timer", "exam"} : Mount(t, at)
    BY <1>1, <1>7, <2>1, MountOpens
  <2>2. CASE \E mode \in Modes : \E n \in Offered : UpdateDurations(t, mode, n)
    BY <1>1, <1>6, <2>2, CalmUpdate
  <2>3. CASE FocusOver(t)
    BY <1>1, <1>10, <2>3, FocusEnds
  <2>4. CASE \/ Start(t) \/ Pause(t) \/ Reset(t) \/ Tick(t) \/ BreakOver(t)
             \/ \E mode \in Modes : ChangeMode(t, mode)
    BY <1>1, <1>6, <2>4, CalmClick
  <2> QED BY <1>8, <1>11, <2>1, <2>2, <2>3, <2>4 DEF TabStep
<1> QED BY <1>5, <1>9, <1>11 DEF Next

\* Whatever the tabs overwrite: once every day a session was completed on has a row, the
\* server's streak is no shorter than the one a page shows, up to its look-back.
THEOREM StreakTheorem == Spec => []StreakPromise
BY StreakInit, StreakStep, StreakFollows, PTL DEF Spec
=============================================================================
