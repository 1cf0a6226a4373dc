--------------------------- MODULE VersionedCache ---------------------------
(***************************************************************************)
(* The cache-aside protocol of backend/app/core/cache.py as the services   *)
(* use it (note_service, task_service, exam_prep_service, pod_service).    *)
(*                                                                         *)
(* Every scope of data ("notes" of one owner, "study" of one owner, ...)   *)
(* has an integer version in Redis.  A reader takes the versions, looks    *)
(* up the entry whose key embeds them, and on a miss queries the database  *)
(* and fills that key.  A writer commits and then INCRs the version of its *)
(* scope, which orphans every entry.  Each await is a point where other    *)
(* requests, of this worker or another, may run: each is a step here.      *)
(*                                                                         *)
(* Redis is best effort.  Faults lists what may go wrong in a behaviour:   *)
(*   "version"  the MGET of the versions fails and reads as all zero       *)
(*   "get"      the GET of an entry fails and reads as a miss              *)
(*   "set"      the SET of an entry fails and is dropped                   *)
(*   "bump"     the INCR fails; whether it was applied is not known        *)
(*   "flush"    Redis restarts empty, versions included                    *)
(*   "crash"    a worker dies between the commit and the INCR              *)
(***************************************************************************)
EXTENDS Naturals

CONSTANTS
    Scopes,       \* the scopes embedded in the endpoint's cache key
    Readers,      \* concurrent reading requests
    CommitBound,  \* bound: commits of one scope in a behaviour
    Faults        \* the faults a behaviour may contain

FaultKinds == {"version", "get", "set", "bump", "flush", "crash"}

ASSUME CommitBoundAssumption == CommitBound \in Nat
ASSUME FaultsAssumption == Faults \subseteq FaultKinds

VARIABLES
    db,       \* commits of each scope so far (stands for the rows)
    acked,    \* history: the newest commit of each scope whose request returned
    version,  \* the version counters in Redis
    cache,    \* the entries in Redis: records [key, content]
    reader,   \* [Readers -> progress of the reading request]
    unbumped  \* writes committed and not yet bumped: records [scope, commit]

vars == <<db, acked, version, cache, reader, unbumped>>

Vector == [Scopes -> Nat]
Zero   == [s \in Scopes |-> 0]

\* v reflects everything that u reflects.
Covers(v, u) == \A s \in Scopes : v[s] >= u[s]

Entry == [key : Vector, content : Vector]
Write == [scope : Scopes, commit : Nat]

ReaderPc == {"idle", "lookup", "query", "fill", "done"}

IdleReader == [pc |-> "idle", key |-> Zero, content |-> Zero, floor |-> Zero]

TypeOK ==
    /\ db \in Vector
    /\ acked \in Vector
    /\ version \in Vector
    /\ cache \subseteq Entry
    /\ reader \in [Readers -> [pc : ReaderPc, key : Vector,
                               content : Vector, floor : Vector]]
    /\ unbumped \subseteq Write

Init ==
    /\ db = Zero
    /\ acked = Zero
    /\ version = Zero
    /\ cache = {}
    /\ reader = [r \in Readers |-> IdleReader]
    /\ unbumped = {}

-----------------------------------------------------------------------------
(* The reading request.  floor is history: what had been answered when it  *)
(* began.                                                                  *)

\* The outcomes of get_versions: the counters, or all zero when the MGET fails.
VersionsRead == {version} \cup (IF "version" \in Faults THEN {Zero} ELSE {})

\* version = await get_version(...)
GetVersions(r) ==
    /\ reader[r].pc = "idle"
    /\ \E k \in VersionsRead :
          reader' = [reader EXCEPT ![r] = [pc |-> "lookup", key |-> k,
                                           content |-> Zero, floor |-> acked]]
    /\ UNCHANGED <<db, acked, version, cache, unbumped>>

\* cached = await get_json(key): a hit answers the request.
LookupHit(r) ==
    /\ reader[r].pc = "lookup"
    /\ \E e \in cache :
          /\ e.key = reader[r].key
          /\ reader' = [reader EXCEPT ![r].pc = "done", ![r].content = e.content]
    /\ UNCHANGED <<db, acked, version, cache, unbumped>>

\* A miss, or a failed GET, goes to the database.
LookupMiss(r) ==
    /\ reader[r].pc = "lookup"
    /\ \/ \A e \in cache : e.key # reader[r].key
       \/ "get" \in Faults
    /\ reader' = [reader EXCEPT ![r].pc = "query"]
    /\ UNCHANGED <<db, acked, version, cache, unbumped>>

\* Mutant: a missing row is cached as an empty answer instead of raising.
QueryDbCachesNothing(r) ==
    /\ reader[r].pc = "query"
    /\ reader' = [reader EXCEPT ![r].pc = "fill", ![r].content = <<>>]
    /\ UNCHANGED <<db, acked, version, cache, unbumped>>

\* One SELECT, a consistent snapshot of all scopes.  A row that is not there is
\* answered with NotFoundError at once and nothing is cached.
QueryDb(r) ==
    /\ reader[r].pc = "query"
    /\ \E next \in {"fill", "done"} :
          reader' = [reader EXCEPT ![r].pc = next, ![r].content = db]
    /\ UNCHANGED <<db, acked, version, cache, unbumped>>

\* What set_json leaves in Redis: the entry of its key is replaced, or nothing
\* changes when the SET fails.
AfterSet(k, c) ==
    {{e \in cache : e.key # k} \cup {[key |-> k, content |-> c]}}
        \cup (IF "set" \in Faults THEN {cache} ELSE {})

\* Mutant: the version is read again when the entry is stored.
FillUnderNewestVersion(r) ==
    /\ reader[r].pc = "fill"
    /\ cache' \in AfterSet(version, reader[r].content)
    /\ reader' = [reader EXCEPT ![r].pc = "done"]
    /\ UNCHANGED <<db, acked, version, unbumped>>

\* await set_json(key, ...) and return.
Fill(r) ==
    /\ reader[r].pc = "fill"
    /\ cache' \in AfterSet(reader[r].key, reader[r].content)
    /\ reader' = [reader EXCEPT ![r].pc = "done"]
    /\ UNCHANGED <<db, acked, version, unbumped>>

\* The response is delivered and the slot may carry another request.
Return(r) ==
    /\ reader[r].pc = "done"
    /\ reader' = [reader EXCEPT ![r] = IdleReader]
    /\ UNCHANGED <<db, acked, version, cache, unbumped>>

-----------------------------------------------------------------------------
(* The writing request: await db.commit(), then await bump_version().      *)

Commit(s) ==
    /\ db[s] < CommitBound
    /\ db' = [db EXCEPT ![s] = @ + 1]
    /\ unbumped' = unbumped \cup {[scope |-> s, commit |-> db[s] + 1]}
    /\ UNCHANGED <<acked, version, cache, reader>>

\* Mutant: a write path that forgets to invalidate.
AfterForgottenIncr(s) == {version}

\* The outcomes of INCR on the counter of scope s.
AfterIncr(s) ==
    {[version EXCEPT ![s] = @ + 1]}
        \cup (IF "bump" \in Faults THEN {version} ELSE {})

\* bump_version returns, applied or failed, and the write is answered.
BumpVersion(w) ==
    /\ w \in unbumped
    /\ version' \in AfterIncr(w.scope)
    /\ acked' = [acked EXCEPT ![w.scope] = IF @ > w.commit THEN @ ELSE w.commit]
    /\ unbumped' = unbumped \ {w}
    /\ UNCHANGED <<db, cache, reader>>

\* The worker dies after the commit: no INCR, no answer.
CrashWriter(w) ==
    /\ "crash" \in Faults
    /\ w \in unbumped
    /\ unbumped' = unbumped \ {w}
    /\ UNCHANGED <<db, acked, version, cache, reader>>

-----------------------------------------------------------------------------
(* Redis itself.                                                           *)

\* Mutant: entries are stored without a TTL.
ExpireNever(e) == e \in {} /\ UNCHANGED vars

\* The TTL of an entry runs out; it may do so at any moment.
Expire(e) ==
    /\ e \in cache
    /\ cache' = cache \ {e}
    /\ UNCHANGED <<db, acked, version, reader, unbumped>>

Flush ==
    /\ "flush" \in Faults
    /\ cache' = {}
    /\ version' = Zero
    /\ UNCHANGED <<db, acked, reader, unbumped>>

ReaderStep(r) ==
    GetVersions(r) \/ LookupHit(r) \/ LookupMiss(r) \/ QueryDb(r) \/ Fill(r) \/ Return(r)

Next ==
    \/ \E r \in Readers : ReaderStep(r)
    \/ \E s \in Scopes : Commit(s)
    \/ \E w \in unbumped : BumpVersion(w) \/ CrashWriter(w)
    \/ \E e \in cache : Expire(e)
    \/ Flush

Spec == Init /\ [][Next]_vars

(***************************************************************************)
(* The scheduling the code has: a request in progress is driven to its     *)
(* answer by its event loop, and Redis expires what has a TTL.  Nobody is  *)
(* obliged to send a request, and nothing obliges a fault.                 *)
(***************************************************************************)
InProgress(r) == reader[r].pc # "idle" /\ ReaderStep(r)

\* Every entry filled under one of these keys is retired by its TTL.
ExpireKey(k) == \E e \in cache : e.key = k /\ Expire(e)

Keys == [Scopes -> 0 .. CommitBound]

FairSpec ==
    /\ Spec
    /\ \A r \in Readers : WF_vars(InProgress(r))
    /\ \A k \in Keys : WF_vars(ExpireKey(k))

-----------------------------------------------------------------------------
(* Properties.                                                             *)

\* A read that starts after a write was answered returns data that includes that
\* write, whatever else runs in between (test_cache.py:1; cache.py:131-138).
FreshAnswers ==
    \A r \in Readers :
        reader[r].pc = "done" =>
            /\ Covers(reader[r].content, reader[r].floor)
            /\ Covers(db, reader[r].content)

\* No entry that a reader could still reach under the current versions is older
\* than a write that was answered: the INCR orphans entries, and a fill that
\* races with it lands under the old version (cache.py:135-138).
ReachableEntriesFresh ==
    \A e \in cache : e.key = version => Covers(e.content, acked)

(* Why FreshAnswers holds: the inductive invariant.  It is preserved when  *)
(* no fault lowers a version, loses an INCR or misreads the versions.      *)

SoundFaults == {"get", "set", "crash"}

\* Nothing is answered, or about to be answered, that was not committed.
CommitsOrdered ==
    /\ Covers(db, acked)
    /\ \A w \in unbumped : w.commit <= db[w.scope]
    /\ \A e \in cache : Covers(db, e.content)
    /\ \A r \in Readers : /\ Covers(acked, reader[r].floor)
                          /\ Covers(db, reader[r].content)

\* No key is ahead of the counters: an INCR retires every key there is.
KeysNotAhead ==
    /\ \A e \in cache : Covers(version, e.key)
    /\ \A r \in Readers : Covers(version, reader[r].key)

\* Content c is good enough to be found under key k: for a reader that arrives
\* now, and for each that has taken its versions and not yet looked up.
FreshUnder(k, c) ==
    \A s \in Scopes :
        /\ k[s] = version[s] => c[s] >= acked[s]
        /\ \A r \in Readers :
              reader[r].pc = "lookup" /\ reader[r].key[s] = k[s]
                  => c[s] >= reader[r].floor[s]

EntriesFresh == \A e \in cache : FreshUnder(e.key, e.content)

FillsFresh ==
    \A r \in Readers :
        reader[r].pc = "fill" => FreshUnder(reader[r].key, reader[r].content)

AnswersFresh ==
    \A r \in Readers :
        reader[r].pc \in {"fill", "done"} => Covers(reader[r].content, reader[r].floor)

IInv ==
    /\ TypeOK
    /\ CommitsOrdered
    /\ KeysNotAhead
    /\ EntriesFresh
    /\ FillsFresh
    /\ AnswersFresh

\* The endpoint implements the promise of FreshReads.
Promise == INSTANCE FreshReads WITH
    read <- [r \in Readers |->
        [pc |-> IF reader[r].pc \in {"idle", "done"} THEN reader[r].pc ELSE "reading",
         floor |-> reader[r].floor,
         answer |-> IF reader[r].pc = "done" THEN reader[r].content ELSE Zero]]

FreshReadsPromise == Promise!Spec

\* Whatever Redis fails to do, once the writes cease every entry left in it, and
\* every answer, is the current data: the TTL bounds each kind of staleness
\* (the "wrong for at most the TTL" behind cache.py:4-8 and core/config.py).
EventuallyCurrent ==
    <>[](/\ \A e \in cache : e.content = db
         /\ \A r \in Readers : reader[r].pc = "done" => reader[r].content = db)
=============================================================================
