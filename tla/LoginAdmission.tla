--------------------------- MODULE LoginAdmission ---------------------------
(***************************************************************************)
(* What a login request passes in one worker process before it gets a      *)
(* session: the sliding-window limiter of the client's requests            *)
(* (RateLimitMiddleware.dispatch in backend/app/core/middleware.py), the   *)
(* lockout of the account, the look at the password and the record of its  *)
(* outcome (authenticate_user in backend/app/services/auth_service.py).    *)
(*                                                                         *)
(* Both counters live in the memory of the process and are OrderedDicts of *)
(* deques of monotonic times: here a function from keys to sequences of    *)
(* times, empty for a key that is not in the dict, and the sequence of its *)
(* keys from the first to be evicted to the last.  Between two awaits the  *)
(* event loop runs one request only, so each stretch of code from one      *)
(* await to the next is one action.  Other workers have counters of their  *)
(* own and share nothing.  The names that Sessions has too carry a prefix, *)
(* so that the proofs about the accounts can extend both modules.          *)
(***************************************************************************)
EXTENDS Integers, Sequences, FiniteSets

CONSTANTS
    Clients,        \* the keys of the limiter: X-Real-IP, or the peer's address
    Emails,         \* normalized emails
    AccountEmails,  \* those of accounts
    Logins,         \* login requests that may be in flight at a time
    MaxRequests, Window,       \* settings.rate_limit_requests, .._window_seconds
    ClientCap,                 \* _MAX_TRACKED_CLIENTS
    MaxFailed, FailWindow,     \* _MAX_FAILED_ATTEMPTS, _WINDOW_SECONDS
    LockoutTime, EmailCap,     \* _LOCKOUT_SECONDS, _MAX_TRACKED_EMAILS
    Second,         \* ticks of the clock in a second
    Never,          \* no time at all
    Horizon,        \* bound: the clock stops here
    RequestBound    \* bound: login requests in a behaviour

ASSUME AdmissionAssumption ==
    /\ AccountEmails \subseteq Emails
    /\ IsFiniteSet(Logins)
    /\ MaxRequests \in Nat \ {0} /\ Window \in Nat /\ ClientCap \in Nat \ {0}
    /\ MaxFailed \in Nat \ {0} /\ FailWindow \in Nat /\ EmailCap \in Nat \ {0}
    /\ LockoutTime \in Nat /\ FailWindow <= LockoutTime
    /\ Second \in Nat \ {0} /\ Never \notin Nat
    /\ Horizon \in Nat /\ RequestBound \in Nat

VARIABLES
    clock,
    hits,        \* self._hits
    hitOrder,    \* its keys
    failed,      \* _failed_attempts
    failedOrder, \* its keys
    login,       \* [Logins -> progress of a login request]
    arrived,     \* login requests so far
    served,      \* history: admissions of a client since it was last forgotten
    lastSeen,    \* history: [Clients -> its last request, admitted or not]
    failures,    \* history: failures of an account since it was last forgotten
    toldClient,  \* history: when a refused client may come again
    toldEmail    \* history: when a locked account may be tried again

limiterVars == <<hits, hitOrder, served, lastSeen, toldClient>>
lockoutVars == <<failed, failedOrder, failures, toldEmail>>
admissionVars == <<clock, limiterVars, lockoutVars, login, arrived>>

Times   == Seq(0 .. Horizon)
NoLogin == [pc |-> "idle"]

\* No key twice, no empty deque, and never more keys than the cap.
Tracks(order, times, cap) ==
    /\ Len(order) <= cap
    /\ \A i, j \in DOMAIN order : order[i] = order[j] => i = j
    /\ {order[i] : i \in DOMAIN order} = {k \in DOMAIN times : times[k] # <<>>}

AdmissionTypeOK ==
    /\ clock \in 0 .. Horizon
    /\ hits \in [Clients -> Times] /\ hitOrder \in Seq(Clients)
    /\ failed \in [Emails -> Times] /\ failedOrder \in Seq(Emails)
    /\ Tracks(hitOrder, hits, ClientCap) /\ Tracks(failedOrder, failed, EmailCap)
    /\ login \in [Logins -> {NoLogin} \cup
                             [pc : {"admitted", "verifying"}, email : Emails]]
    /\ arrived \in 0 .. RequestBound
    /\ served \in [Clients -> Times] /\ failures \in [Emails -> Times]
    /\ lastSeen \in [Clients -> Nat \cup {Never}]
    /\ toldClient \in [Clients -> Nat \cup {Never}]
    /\ toldEmail \in [Emails -> Nat \cup {Never}]

AdmissionInit ==
    /\ clock = 0 /\ arrived = 0
    /\ hits = [c \in Clients |-> <<>>] /\ hitOrder = <<>>
    /\ failed = [e \in Emails |-> <<>>] /\ failedOrder = <<>>
    /\ login = [r \in Logins |-> NoLogin]
    /\ served = hits /\ failures = failed
    /\ lastSeen = [c \in Clients |-> Never] /\ toldClient = lastSeen
    /\ toldEmail = [e \in Emails |-> Never]

Tick ==
    /\ clock < Horizon
    /\ clock' = clock + 1
    /\ UNCHANGED <<limiterVars, lockoutVars, login, arrived>>

-----------------------------------------------------------------------------
(* Deques and ordered dicts.                                               *)

\* while times and times[0] < start: times.popleft()
Expired(times, start) ==
    CHOOSE n \in 0 .. Len(times) :
        /\ \A i \in 1 .. n : times[i] < start
        /\ n < Len(times) => times[n + 1] >= start

\* Mutant: what is exactly as old as the window is dropped.
PrunedEarly(times, start) ==
    SubSeq(times, Expired(times, start + 1) + 1, Len(times))

Pruned(times, start) == SubSeq(times, Expired(times, start) + 1, Len(times))

\* pop(k, None); a key is in the dict once.
Without(order, k) ==
    LET at == CHOOSE i \in DOMAIN order : order[i] = k
    IN  IF \E i \in DOMAIN order : order[i] = k
        THEN [i \in 1 .. Len(order) - 1 |-> order[IF i < at THEN i ELSE i + 1]]
        ELSE order

\* Mutant: a key that is there stays where it is.
ToEndIfNew(order, k) ==
    IF \E i \in DOMAIN order : order[i] = k THEN order ELSE Append(order, k)

\* move_to_end, or the insertion of a new key
ToEnd(order, k) == Append(Without(order, k), k)

\* Mutant: one key more than the cap is kept.
OverflowLate(order, cap) == IF Len(order) > cap + 1 THEN {Head(order)} ELSE {}

\* popitem(last=False) once an insertion has exceeded the cap
Overflow(order, cap) == IF Len(order) > cap THEN {Head(order)} ELSE {}

Kept(order, cap) == IF Overflow(order, cap) = {} THEN order ELSE Tail(order)

\* The deques of a dict in which k got the new deque, less what was evicted.
Stored(times, k, new, evicted) ==
    [key \in DOMAIN times |-> IF key = k THEN new
                              ELSE IF key \in evicted THEN <<>> ELSE times[key]]

Last(times) == times[Len(times)]

\* Mutant: the fraction of a second is dropped.
RetryAfterFloor(wait) == (wait \div Second) * Second

\* Retry-After: whole seconds, int(retry_after) + 1
RetryAfter(wait) == ((wait \div Second) + 1) * Second

-----------------------------------------------------------------------------
(* The limiter.                                                            *)

\* The client's hits that still count.
Counted(c) == Pruned(hits[c], clock - Window)

Limited(c) == Len(Counted(c)) >= MaxRequests

\* 429; the refused request itself is not a hit.
Refuse(c) ==
    /\ Limited(c)
    /\ hits' = [hits EXCEPT ![c] = Counted(c)]
    /\ hitOrder' = ToEnd(hitOrder, c)
    /\ lastSeen' = [lastSeen EXCEPT ![c] = clock]
    /\ toldClient' = [toldClient EXCEPT
                        ![c] = clock + RetryAfter(Head(Counted(c)) + Window - clock)]
    /\ UNCHANGED <<clock, served, lockoutVars, login, arrived>>

\* hits.append(now); a client that had no hits left is inserted, and may evict.
Admit(c) ==
    LET order   == ToEnd(hitOrder, c)
        evicted == Overflow(order, ClientCap)
    IN  /\ ~Limited(c) /\ arrived < RequestBound
        /\ hits' = Stored(hits, c, Append(Counted(c), clock), evicted)
        /\ hitOrder' = Kept(order, ClientCap)
        /\ served' = Stored(served, c, Append(served[c], clock), evicted)
        /\ lastSeen' = [lastSeen EXCEPT ![c] = clock]
        /\ toldClient' = [toldClient EXCEPT ![c] = Never]
        /\ arrived' = arrived + 1
        /\ UNCHANGED <<clock, lockoutVars>>

\* call_next leads to POST /login, with an email of whatever spelling.
AdmitLogin(r, c, e) ==
    /\ login[r] = NoLogin
    /\ Admit(c)
    /\ login' = [login EXCEPT ![r] = [pc |-> "admitted", email |-> e]]

\* call_next leads to any other handler.
AdmitOther(c) == Admit(c) /\ UNCHANGED login

-----------------------------------------------------------------------------
(* authenticate_user.                                                      *)

Attempts(e) == Pruned(failed[e], clock - FailWindow)

\* What is left of the lockout, if the account has too many failures.
Remaining(e) == Last(Attempts(e)) + LockoutTime - clock

Locked(e) == Len(Attempts(e)) >= MaxFailed /\ Remaining(e) > 0

\* Removal of a key, or of nothing.
Forget(e) == failedOrder' = Without(failedOrder, e)

\* _check_and_record_lockout raises: 429 for the account.
RefuseAccount(r) ==
    LET e == login[r].email
    IN  /\ login[r].pc = "admitted" /\ Locked(e)
        /\ failed' = [failed EXCEPT ![e] = Attempts(e)]
        /\ toldEmail' = [toldEmail EXCEPT ![e] = clock + RetryAfter(Remaining(e))]
        /\ login' = [login EXCEPT ![r] = NoLogin]
        /\ UNCHANGED <<clock, limiterVars, failedOrder, failures, arrived>>

\* Mutant: the lockout is checked on the count before the last attempt.
PassAccountLate(r) ==
    LET e == login[r].email
    IN  /\ login[r].pc = "admitted" /\ Len(Attempts(e)) <= MaxFailed
        /\ failed' = [failed EXCEPT ![e] = Attempts(e)]
        /\ IF Attempts(e) = <<>> THEN Forget(e) ELSE UNCHANGED failedOrder
        /\ login' = [login EXCEPT ![r].pc = "verifying"]
        /\ UNCHANGED <<clock, limiterVars, failures, toldEmail, arrived>>

\* It returns, and the account is looked up: an await.  A lockout that is over
\* takes all its attempts with it.
PassAccount(r) ==
    LET e    == login[r].email
        kept == IF Len(Attempts(e)) >= MaxFailed THEN <<>> ELSE Attempts(e)
    IN  /\ login[r].pc = "admitted" /\ ~Locked(e)
        /\ failed' = [failed EXCEPT ![e] = kept]
        /\ IF kept = <<>> THEN Forget(e) ELSE UNCHANGED failedOrder
        /\ login' = [login EXCEPT ![r].pc = "verifying"]
        /\ UNCHANGED <<clock, limiterVars, failures, toldEmail, arrived>>

\* _record_failed_attempt; the answer is 401, the same for an unknown account.
WrongPassword(r) ==
    LET e       == login[r].email
        order   == ToEnd(failedOrder, e)
        evicted == Overflow(order, EmailCap)
    IN  /\ login[r].pc = "verifying"
        /\ failed' = Stored(failed, e, Append(failed[e], clock), evicted)
        /\ failedOrder' = Kept(order, EmailCap)
        /\ failures' = Stored(failures, e, Append(failures[e], clock), evicted)
        /\ toldEmail' = [toldEmail EXCEPT ![e] = Never]
        /\ login' = [login EXCEPT ![r] = NoLogin]
        /\ UNCHANGED <<clock, limiterVars, arrived>>

\* _clear_failed_attempts
RightPassword(r) ==
    LET e == login[r].email
    IN  /\ login[r].pc = "verifying" /\ e \in AccountEmails
        /\ failed' = [failed EXCEPT ![e] = <<>>] /\ Forget(e)
        /\ failures' = [failures EXCEPT ![e] = <<>>]
        /\ login' = [login EXCEPT ![r] = NoLogin]
        /\ UNCHANGED <<clock, limiterVars, toldEmail, arrived>>

\* The query fails or the client goes away: nothing is recorded.
Abort(r) ==
    /\ login[r] # NoLogin
    /\ login' = [login EXCEPT ![r] = NoLogin]
    /\ UNCHANGED <<clock, limiterVars, lockoutVars, arrived>>

AdmissionNext ==
    \/ Tick
    \/ \E c \in Clients : Refuse(c) \/ AdmitOther(c)
    \/ \E r \in Logins, c \in Clients, e \in Emails : AdmitLogin(r, c, e)
    \/ \E r \in Logins : \/ RefuseAccount(r) \/ PassAccount(r) \/ Abort(r)
                           \/ WrongPassword(r) \/ RightPassword(r)

AdmissionSpec == AdmissionInit /\ [][AdmissionNext]_admissionVars

-----------------------------------------------------------------------------
(* Properties.                                                             *)

\* The sliding window holds wherever it is placed, not only where a request looks:
\* of the requests of a client admitted by this worker, one more than the limit
\* never fit in a window (middleware.py:64), unless the client was forgotten.
WindowLimit ==
    \A c \in Clients : \A i \in DOMAIN served[c] :
        i + MaxRequests \in DOMAIN served[c]
            => served[c][i + MaxRequests] - served[c][i] > Window

\* Retry-After tells the truth: a client that comes back after it, and has not been
\* admitted in between, is admitted; an account is open again, unless a request
\* that was in flight has failed since (middleware.py:123, auth_service.py:48).
RetryAfterSuffices ==
    /\ \A c \in Clients : toldClient[c] # Never /\ clock >= toldClient[c] => ~Limited(c)
    /\ \A e \in Emails : toldEmail[e] # Never /\ clock >= toldEmail[e] => ~Locked(e)

\* A busy worker forgets the count of a client only when as many other clients as
\* the cap have come since the client's last request, refused ones included
\* (middleware.py:117 and :128): a client cannot lose its count by keeping asking.
ForgottenOnlyWhenCrowded ==
    [][\A c \in Clients : hits[c] # <<>> /\ hits'[c] = <<>> =>
          Cardinality({d \in Clients \ {c} : lastSeen'[d] # Never /\
                                             lastSeen'[d] >= lastSeen[c]}) >= ClientCap]_admissionVars

\* How many passwords of an account fail within the window: the maximum, and one
\* for each other request that passed the check while the last was in flight.
\* (auth_service.py:19 "after MAX_FAILED_ATTEMPTS failures for the same
\* (normalized) email within WINDOW_SECONDS, further login attempts ... are locked
\* out"), unless a success or an eviction starts the count again.  A lockout may end
\* before LOCKOUT_SECONDS are over, when the first of its failures leaves the window.
FailuresLimited ==
    \A e \in Emails : \A i \in DOMAIN failures[e] :
        LET j == i + MaxFailed + Cardinality(Logins) - 1
        IN  j \in DOMAIN failures[e] => failures[e][j] - failures[e][i] >= FailWindow
=============================================================================
