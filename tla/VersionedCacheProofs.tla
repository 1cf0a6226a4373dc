------------------------ MODULE VersionedCacheProofs ------------------------
(***************************************************************************)
(* For every set of scopes and readers and every bound on the commits: as  *)
(* long as Redis neither loses an INCR, nor misreads or forgets a version, *)
(* a read that starts after a write was answered reflects it, and the      *)
(* endpoint implements FreshReads.                                         *)
(***************************************************************************)
EXTENDS VersionedCache, TLAPS

LEMMA InitIInv == Init => IInv
BY DEF Init, IInv, TypeOK, CommitsOrdered, KeysNotAhead, EntriesFresh, FillsFresh,
       AnswersFresh, Covers, Zero, Vector, IdleReader, ReaderPc, Entry, Write

LEMMA GetVersionsStep ==
    ASSUME IInv, Faults \subseteq SoundFaults, NEW r \in Readers, GetVersions(r)
    PROVE  IInv'
<1>1. VersionsRead = {version}
  BY DEF VersionsRead, SoundFaults
<1>2. reader' = [reader EXCEPT ![r] = [pc |-> "lookup", key |-> version,
                                       content |-> Zero, floor |-> acked]]
  BY <1>1 DEF GetVersions, IdleReader
<1>3. UNCHANGED <<db, acked, version, cache, unbumped>>
  BY DEF GetVersions
<1> USE <1>2, <1>3 DEF IInv
<1>4. TypeOK'
  BY DEF TypeOK, Vector, Zero, ReaderPc
<1>5. CommitsOrdered'
  BY DEF CommitsOrdered, Covers, TypeOK, Vector, Zero, Write
<1>6. KeysNotAhead'
  BY DEF KeysNotAhead, Covers, TypeOK, Vector
<1>7. EntriesFresh'
  BY DEF EntriesFresh, FreshUnder, TypeOK, Vector, Entry
<1>8. FillsFresh'
  <2> SUFFICES ASSUME NEW q \in Readers, reader'[q].pc = "fill", NEW s \in Scopes,
                      NEW p \in Readers
               PROVE  /\ reader'[q].key[s] = version[s] => reader'[q].content[s] >= acked[s]
                      /\ reader'[p].pc = "lookup" /\ reader'[p].key[s] = reader'[q].key[s]
                            => reader'[q].content[s] >= reader'[p].floor[s]
    BY DEF FillsFresh, FreshUnder
  <2>1. q # r /\ reader'[q] = reader[q]
    BY DEF TypeOK
  <2>2. FreshUnder(reader[q].key, reader[q].content)
    BY <2>1 DEF FillsFresh
  <2> QED BY <2>1, <2>2 DEF FreshUnder, TypeOK, Vector
<1>9. AnswersFresh'
  BY DEF AnswersFresh, TypeOK, Covers
<1> QED BY <1>4, <1>5, <1>6, <1>7, <1>8, <1>9

LEMMA LookupHitStep ==
    ASSUME IInv, NEW r \in Readers, LookupHit(r)
    PROVE  IInv'
<1>1. PICK e \in cache : /\ e.key = reader[r].key
                         /\ reader' = [reader EXCEPT ![r].pc = "done",
                                                     ![r].content = e.content]
  BY DEF LookupHit
<1>2. UNCHANGED <<db, acked, version, cache, unbumped>> /\ reader[r].pc = "lookup"
  BY DEF LookupHit
<1> USE <1>1, <1>2 DEF IInv
<1>3. TypeOK'
  BY DEF TypeOK, Entry, ReaderPc
<1>4. CommitsOrdered'
  BY DEF CommitsOrdered, Covers, TypeOK
<1>5. KeysNotAhead'
  BY DEF KeysNotAhead, TypeOK, Covers
<1>6. EntriesFresh'
  BY DEF EntriesFresh, FreshUnder, TypeOK
<1>7. FillsFresh'
  BY DEF FillsFresh, FreshUnder, TypeOK
<1>8. AnswersFresh'
  <2>1. Covers(e.content, reader[r].floor)
    BY DEF EntriesFresh, FreshUnder, Covers
  <2> QED BY <2>1 DEF AnswersFresh, TypeOK, Covers
<1> QED BY <1>3, <1>4, <1>5, <1>6, <1>7, <1>8

LEMMA LookupMissStep ==
    ASSUME IInv, NEW r \in Readers, LookupMiss(r)
    PROVE  IInv'
<1> USE DEF IInv, LookupMiss
<1>1. TypeOK'
  BY DEF TypeOK, ReaderPc
<1>2. CommitsOrdered' /\ KeysNotAhead'
  BY DEF CommitsOrdered, KeysNotAhead, Covers, TypeOK
<1>3. EntriesFresh' /\ FillsFresh'
  BY DEF EntriesFresh, FillsFresh, FreshUnder, TypeOK
<1>4. AnswersFresh'
  BY DEF AnswersFresh, TypeOK
<1> QED BY <1>1, <1>2, <1>3, <1>4

LEMMA QueryDbStep ==
    ASSUME IInv, NEW r \in Readers, QueryDb(r)
    PROVE  IInv'
<1>1. PICK next \in {"fill", "done"} :
         reader' = [reader EXCEPT ![r].pc = next, ![r].content = db]
  BY DEF QueryDb
<1>2. UNCHANGED <<db, acked, version, cache, unbumped>>
  BY DEF QueryDb
<1> USE <1>1, <1>2 DEF IInv
<1>3. TypeOK'
  BY DEF TypeOK, ReaderPc
<1>4. CommitsOrdered'
  BY DEF CommitsOrdered, Covers, TypeOK, Vector
<1>5. KeysNotAhead'
  BY DEF KeysNotAhead, Covers, TypeOK
<1>6. EntriesFresh'
  BY DEF EntriesFresh, FreshUnder, TypeOK
<1>7. \A q \in Readers : Covers(db, reader[q].floor)
  BY DEF CommitsOrdered, Covers, TypeOK, Vector
<1>8. FillsFresh'
  <2>1. FreshUnder(reader[r].key, db)
    BY <1>7 DEF FreshUnder, Covers, CommitsOrdered
  <2> QED BY <2>1 DEF FillsFresh, FreshUnder, TypeOK
<1>9. AnswersFresh'
  BY <1>7 DEF AnswersFresh, TypeOK
<1> QED BY <1>3, <1>4, <1>5, <1>6, <1>8, <1>9

LEMMA FillStep ==
    ASSUME IInv, NEW r \in Readers, Fill(r)
    PROVE  IInv'
<1> DEFINE filled == [key |-> reader[r].key, content |-> reader[r].content]
<1>1. cache' \subseteq cache \cup {filled}
  BY DEF Fill, AfterSet
<1>2. /\ reader[r].pc = "fill"
      /\ reader' = [reader EXCEPT ![r].pc = "done"]
      /\ UNCHANGED <<db, acked, version, unbumped>>
  BY DEF Fill
<1>3. filled \in Entry /\ Covers(db, filled.content) /\ Covers(version, filled.key)
  BY DEF IInv, TypeOK, Entry, CommitsOrdered, KeysNotAhead
<1>4. FreshUnder(filled.key, filled.content)
  BY <1>2 DEF IInv, FillsFresh
<1> HIDE DEF filled
<1> USE <1>1, <1>2, <1>3 DEF IInv
<1>5. TypeOK'
  BY DEF TypeOK, ReaderPc
<1>6. CommitsOrdered' /\ KeysNotAhead'
  BY DEF CommitsOrdered, KeysNotAhead, Covers, TypeOK
<1>7. EntriesFresh'
  BY <1>4 DEF EntriesFresh, FreshUnder, TypeOK
<1>8. FillsFresh' /\ AnswersFresh'
  BY DEF FillsFresh, AnswersFresh, FreshUnder, TypeOK
<1> QED BY <1>5, <1>6, <1>7, <1>8

LEMMA ReturnStep ==
    ASSUME IInv, NEW r \in Readers, Return(r)
    PROVE  IInv'
<1> USE DEF IInv, Return, IdleReader
<1>1. TypeOK'
  BY DEF TypeOK, ReaderPc, Vector, Zero
<1>2. CommitsOrdered' /\ KeysNotAhead'
  BY DEF CommitsOrdered, KeysNotAhead, Covers, TypeOK, Vector, Zero
<1>3. EntriesFresh' /\ FillsFresh'
  BY DEF EntriesFresh, FillsFresh, FreshUnder, TypeOK
<1>4. AnswersFresh'
  BY DEF AnswersFresh, TypeOK
<1> QED BY <1>1, <1>2, <1>3, <1>4

LEMMA CommitStep ==
    ASSUME IInv, NEW s \in Scopes, Commit(s)
    PROVE  IInv'
<1> DEFINE w == [scope |-> s, commit |-> db[s] + 1]
<1>1. /\ db' = [db EXCEPT ![s] = @ + 1]
      /\ unbumped' = unbumped \cup {w}
      /\ UNCHANGED <<acked, version, cache, reader>>
  BY DEF Commit
<1>2. w \in Write /\ w.scope = s /\ w.commit = db[s] + 1
  BY DEF IInv, TypeOK, Vector, Write
<1>3. db' \in Vector /\ Covers(db', db) /\ db'[s] = db[s] + 1
  BY <1>1 DEF IInv, TypeOK, Vector, Covers
<1> HIDE DEF w
<1> USE <1>1, <1>2, <1>3 DEF IInv
<1>4. TypeOK'
  BY DEF TypeOK
<1>5. CommitsOrdered'
  <2>1. \A v \in Vector : Covers(db, v) => Covers(db', v)
    BY DEF Covers, Vector, TypeOK
  <2>2. \A x \in unbumped' : x.commit <= db'[x.scope]
    <3> SUFFICES ASSUME NEW x \in unbumped PROVE x.commit <= db'[x.scope]
      BY DEF Vector
    <3> QED BY DEF CommitsOrdered, Covers, TypeOK, Vector, Write
  <2> QED BY <2>1, <2>2 DEF CommitsOrdered, TypeOK, Entry
<1>6. KeysNotAhead'
  BY DEF KeysNotAhead
<1>7. EntriesFresh' /\ FillsFresh'
  BY DEF EntriesFresh, FillsFresh, FreshUnder
<1>8. AnswersFresh'
  BY DEF AnswersFresh
<1> QED BY <1>4, <1>5, <1>6, <1>7, <1>8

\* The step the protocol rests on: after the INCR no key in the cache, and none
\* of a fill in flight, carries the new version.
LEMMA BumpVersionStep ==
    ASSUME IInv, Faults \subseteq SoundFaults, NEW w \in unbumped, BumpVersion(w)
    PROVE  IInv'
<1> DEFINE s == w.scope
<1>1. s \in Scopes /\ w.commit \in Nat /\ w.commit <= db[s]
  BY DEF IInv, TypeOK, Write, CommitsOrdered
<1>2. /\ version' = [version EXCEPT ![s] = @ + 1]
      /\ acked' = [acked EXCEPT ![s] = IF @ > w.commit THEN @ ELSE w.commit]
      /\ unbumped' = unbumped \ {w}
      /\ UNCHANGED <<db, cache, reader>>
  BY DEF BumpVersion, AfterIncr, SoundFaults
<1> HIDE DEF s
<1>3. /\ acked' \in Vector /\ Covers(acked', acked) /\ Covers(db, acked')
      /\ \A x \in Scopes : x # s => acked'[x] = acked[x]
  BY <1>1, <1>2 DEF IInv, TypeOK, CommitsOrdered, Covers, Vector
<1>4. /\ version' \in Vector
      /\ version'[s] = version[s] + 1
      /\ \A x \in Scopes : x # s => version'[x] = version[x]
  BY <1>1, <1>2 DEF IInv, TypeOK, Vector
<1>5. \A k \in Vector : Covers(version, k) => /\ Covers(version', k)
                                             /\ k[s] # version'[s]
  BY <1>1, <1>4 DEF Covers, IInv, TypeOK, Vector
<1>6. ASSUME NEW k \in Vector, NEW c, Covers(version, k), FreshUnder(k, c)
      PROVE  FreshUnder(k, c)'
  BY <1>2, <1>3, <1>4, <1>5, <1>6 DEF FreshUnder
<1> USE <1>2, <1>3, <1>4, <1>5 DEF IInv
<1>7. TypeOK'
  BY DEF TypeOK
<1>8. CommitsOrdered'
  BY DEF CommitsOrdered, Covers, TypeOK, Vector
<1>9. KeysNotAhead'
  BY DEF KeysNotAhead, TypeOK, Entry
<1>10. EntriesFresh' /\ FillsFresh'
  BY <1>6 DEF EntriesFresh, FillsFresh, KeysNotAhead, TypeOK, Entry
<1>11. AnswersFresh'
  BY DEF AnswersFresh
<1> QED BY <1>7, <1>8, <1>9, <1>10, <1>11

LEMMA ShrinkStep ==
    ASSUME IInv, cache' \subseteq cache, unbumped' \subseteq unbumped,
           UNCHANGED <<db, acked, version, reader>>
    PROVE  IInv'
BY DEF IInv, TypeOK, CommitsOrdered, KeysNotAhead, EntriesFresh, FillsFresh,
       AnswersFresh, FreshUnder

LEMMA NextIInv ==
    ASSUME IInv, Faults \subseteq SoundFaults, [Next]_vars
    PROVE  IInv'
<1>1. ASSUME NEW r \in Readers, ReaderStep(r) PROVE IInv'
  BY <1>1, GetVersionsStep, LookupHitStep, LookupMissStep, QueryDbStep, FillStep,
     ReturnStep DEF ReaderStep
<1>2. ASSUME NEW s \in Scopes, Commit(s) PROVE IInv'
  BY <1>2, CommitStep
<1>3. ASSUME NEW w \in unbumped, BumpVersion(w) PROVE IInv'
  BY <1>3, BumpVersionStep
<1>4. ASSUME NEW w \in unbumped, CrashWriter(w) PROVE IInv'
  BY <1>4, ShrinkStep DEF CrashWriter
<1>5. ASSUME NEW e \in cache, Expire(e) PROVE IInv'
  BY <1>5, ShrinkStep DEF Expire
<1>6. CASE Flush
  BY <1>6 DEF Flush, SoundFaults
<1>7. CASE UNCHANGED vars
  BY <1>7, ShrinkStep DEF vars
<1> QED BY <1>1, <1>2, <1>3, <1>4, <1>5, <1>6, <1>7 DEF Next

\* The inductive invariant holds of every behaviour with sound faults only.
THEOREM IInvInvariant ==
    ASSUME Faults \subseteq SoundFaults
    PROVE  Spec => []IInv
<1>1. IInv /\ [Next]_vars => IInv'
  BY NextIInv
<1> QED BY <1>1, InitIInv, PTL DEF Spec

\* A read that starts after a write was answered returns data that includes that
\* write, for any number of scopes, requests and commits (cache.py:131-138).
THEOREM FreshAnswersTheorem ==
    ASSUME Faults \subseteq SoundFaults
    PROVE  Spec => []FreshAnswers
<1>1. IInv => FreshAnswers
  BY DEF IInv, AnswersFresh, CommitsOrdered, FreshAnswers
<1> QED BY <1>1, IInvInvariant, PTL

\* An entry that is still reachable reflects every answered write.
THEOREM ReachableEntriesFreshTheorem ==
    ASSUME Faults \subseteq SoundFaults
    PROVE  Spec => []ReachableEntriesFresh
<1>1. IInv => ReachableEntriesFresh
  BY DEF IInv, EntriesFresh, FreshUnder, ReachableEntriesFresh, Covers
<1> QED BY <1>1, IInvInvariant, PTL

-----------------------------------------------------------------------------
(* Refinement: every step is a step of FreshReads, or changes nothing that *)
(* FreshReads can see.                                                     *)

LEMMA InitRefines == Init => Promise!Init
BY DEF Init, Promise!Init, IdleReader, Promise!Idle, Zero, Promise!Zero

\* The abstract view of one request.
View(q) ==
    [pc |-> IF q.pc \in {"idle", "done"} THEN q.pc ELSE "reading",
     floor |-> q.floor,
     answer |-> IF q.pc = "done" THEN q.content ELSE Zero]

\* A step of one request that FreshReads does not see.
LEMMA HiddenReaderStep ==
    ASSUME NEW r \in Readers,
           {reader[r].pc, reader'[r].pc} \cap {"idle", "done"} = {},
           reader'[r].floor = reader[r].floor,
           \A p \in Readers : p # r => reader'[p] = reader[p],
           UNCHANGED <<db, acked>>
    PROVE  UNCHANGED Promise!vars
<1>1. \A p \in Readers : View(reader'[p]) = View(reader[p])
  BY DEF View
<1> QED BY <1>1 DEF View, Promise!vars

\* A request that comes to its answer c, old enough and committed.
LEMMA AnswerRefines ==
    ASSUME TypeOK, NEW r \in Readers, NEW c \in Vector,
           reader[r].pc \in {"lookup", "query", "fill"},
           Covers(c, reader[r].floor), Covers(db, c),
           reader'[r].pc = "done", reader'[r].content = c,
           reader'[r].floor = reader[r].floor,
           \A p \in Readers : p # r => reader'[p] = reader[p],
           UNCHANGED <<db, acked>>
    PROVE  Promise!Answer(r)
<1> DEFINE floor == reader[r].floor
           view  == [p \in Readers |-> View(reader[p])]
           after == [pc |-> "done", floor |-> floor, answer |-> c]
<1>1. floor \in Vector /\ db \in Vector
  BY DEF TypeOK
<1>2. c \in Promise!Answers(floor)
  <2>1. \A s \in Scopes : c[s] \in floor[s] .. db[s]
    BY <1>1 DEF Covers, Vector
  <2>2. c \in [Scopes -> UNION {floor[s] .. db[s] : s \in Scopes}]
    BY <2>1 DEF Vector
  <2> QED BY <2>2 DEF Promise!Answers, Promise!Covers, Covers
<1>3. view[r].pc = "reading" /\ view[r].floor = floor
  BY DEF View
<1>4. \A p \in Readers : View(reader'[p]) = IF p = r THEN after ELSE View(reader[p])
  BY DEF View
<1>5. view' = [view EXCEPT ![r] = after]
  <2> HIDE DEF after
  <2> QED BY <1>4 DEF View
<1> QED BY <1>2, <1>3, <1>5 DEF Promise!Answer, View

LEMMA GetVersionsRefines ==
    ASSUME TypeOK, NEW r \in Readers, GetVersions(r), reader[r] = IdleReader
    PROVE  Promise!Begin(r)
<1> DEFINE view == [p \in Readers |-> View(reader[p])]
<1>1. PICK k : reader' = [reader EXCEPT ![r] = [pc |-> "lookup", key |-> k,
                                               content |-> Zero, floor |-> acked]]
  BY DEF GetVersions
<1>2. view[r] = Promise!Idle
  BY DEF View, IdleReader, Promise!Idle, Zero, Promise!Zero
<1>3. view' = [view EXCEPT ![r] = [pc |-> "reading", floor |-> acked, answer |-> Zero]]
  BY <1>1 DEF View, TypeOK
<1>4. view' = [view EXCEPT ![r] = [pc |-> "reading", floor |-> acked, answer |-> Promise!Zero]]
  BY <1>3 DEF Zero, Promise!Zero
<1>5. UNCHANGED <<db, acked>>
  BY DEF GetVersions
<1> QED BY <1>2, <1>4, <1>5 DEF Promise!Begin, View

\* A request slot is wiped when its response is delivered.
IdleClean == \A r \in Readers : reader[r].pc = "idle" => reader[r] = IdleReader

LEMMA IdleCleanInvariant ==
    ASSUME Faults \subseteq SoundFaults
    PROVE  Spec => []IdleClean
<1>1. Init => IdleClean
  BY DEF Init, IdleClean
<1>2. ASSUME IInv, IdleClean, [Next]_vars PROVE IdleClean'
  <2> reader \in [Readers -> [pc : ReaderPc, key : Vector, content : Vector, floor : Vector]]
    BY <1>2 DEF IInv, TypeOK
  <2>1. ASSUME NEW r \in Readers, ReaderStep(r) PROVE IdleClean'
    <3>1. CASE GetVersions(r)
      BY <1>2, <3>1 DEF IdleClean, GetVersions
    <3>2. CASE LookupHit(r)
      BY <1>2, <3>2 DEF IdleClean, LookupHit
    <3>3. CASE LookupMiss(r)
      BY <1>2, <3>3 DEF IdleClean, LookupMiss
    <3>4. CASE QueryDb(r)
      BY <1>2, <3>4 DEF IdleClean, QueryDb
    <3>5. CASE Fill(r)
      BY <1>2, <3>5 DEF IdleClean, Fill
    <3>6. CASE Return(r)
      BY <1>2, <3>6 DEF IdleClean, Return
    <3> QED BY <2>1, <3>1, <3>2, <3>3, <3>4, <3>5, <3>6 DEF ReaderStep
  <2>2. CASE UNCHANGED reader
    BY <1>2, <2>2 DEF IdleClean
  <2> QED BY <1>2, <2>1, <2>2
          DEF Next, vars, Commit, BumpVersion, CrashWriter, Expire, Flush
<1>3. IInv /\ IdleClean /\ [Next]_vars => IdleClean'
  BY <1>2
<1> QED BY <1>1, <1>3, IInvInvariant, PTL DEF Spec

LEMMA ReaderStepRefines ==
    ASSUME IInv, IInv', IdleClean, NEW r \in Readers, ReaderStep(r)
    PROVE  [Promise!Next]_(Promise!vars)
<1> USE DEF IInv
<1> UNCHANGED <<db, acked>>
  BY DEF ReaderStep, GetVersions, LookupHit, LookupMiss, QueryDb, Fill, Return
<1>1. CASE GetVersions(r)
  BY <1>1, GetVersionsRefines DEF IdleClean, GetVersions, Promise!Next
<1>2. ASSUME reader[r].pc \in {"lookup", "query", "fill"}, reader'[r].pc = "done",
             reader'[r].floor = reader[r].floor,
             \A p \in Readers : p # r => reader'[p] = reader[p]
      PROVE  [Promise!Next]_(Promise!vars)
  <2> DEFINE c == reader'[r].content
  <2>1. c \in Vector /\ Covers(c, reader[r].floor) /\ Covers(db, c)
    BY <1>2 DEF AnswersFresh, CommitsOrdered, TypeOK
  <2> HIDE DEF c
  <2>2. c = reader'[r].content
    BY DEF c
  <2>3. Promise!Answer(r)
    BY <1>2, <2>1, <2>2, AnswerRefines
  <2> QED BY <2>3 DEF Promise!Next
<1>3. CASE LookupHit(r)
  BY <1>2, <1>3 DEF LookupHit, TypeOK
<1>4. CASE LookupMiss(r)
  BY <1>4, HiddenReaderStep DEF LookupMiss, TypeOK
<1>5. CASE QueryDb(r)
  <2>1. PICK next \in {"fill", "done"} :
           reader' = [reader EXCEPT ![r].pc = next, ![r].content = db]
    BY <1>5 DEF QueryDb
  <2>2. /\ reader'[r].pc = next /\ reader'[r].floor = reader[r].floor
        /\ reader[r].pc = "query"
        /\ \A p \in Readers : p # r => reader'[p] = reader[p]
    BY <1>5, <2>1 DEF TypeOK, QueryDb
  <2> QED BY <1>2, <2>2, HiddenReaderStep
<1>6. CASE Fill(r)
  BY <1>2, <1>6 DEF Fill, TypeOK
<1>7. CASE Return(r)
  <2>1. View(IdleReader) = Promise!Idle
    BY DEF View, IdleReader, Promise!Idle, Zero, Promise!Zero
  <2> QED BY <1>7, <2>1 DEF Return, Promise!End, Promise!Next, View, TypeOK
<1> QED BY <1>1, <1>3, <1>4, <1>5, <1>6, <1>7 DEF ReaderStep

LEMMA NextRefines ==
    ASSUME IInv, IInv', IdleClean, Faults \subseteq SoundFaults, [Next]_vars
    PROVE  [Promise!Next]_(Promise!vars)
<1> USE DEF Promise!vars, Promise!Next
<1>1. ASSUME NEW r \in Readers, ReaderStep(r) PROVE [Promise!Next]_(Promise!vars)
  BY <1>1, ReaderStepRefines
<1>2. ASSUME NEW s \in Scopes, Commit(s) PROVE [Promise!Next]_(Promise!vars)
  <2>1. Promise!Commit(s)
    BY <1>2 DEF Commit, Promise!Commit
  <2> QED BY <2>1
<1>3. ASSUME NEW w \in unbumped, BumpVersion(w) PROVE [Promise!Next]_(Promise!vars)
  <2> DEFINE s == w.scope
             n == IF acked[s] > w.commit THEN acked[s] ELSE w.commit
  <2>1. s \in Scopes /\ n \in acked[s] .. db[s]
    BY DEF IInv, TypeOK, Write, Vector, CommitsOrdered, Covers
  <2>2. /\ acked' = [acked EXCEPT ![s] = n]
        /\ UNCHANGED <<db, reader>>
    BY <1>3 DEF BumpVersion
  <2> HIDE DEF s, n
  <2>3. Promise!Ack(s)
    BY <2>1, <2>2 DEF Promise!Ack
  <2> QED BY <2>1, <2>3
<1>4. CASE UNCHANGED <<db, acked, reader>>
  BY <1>4
<1> QED BY <1>1, <1>2, <1>3, <1>4 DEF Next, vars, CrashWriter, Expire, Flush

\* The cached endpoint implements FreshReads: its callers cannot tell it from one
\* that reads the database at some moment of the request.
THEOREM Refinement ==
    ASSUME Faults \subseteq SoundFaults
    PROVE  Spec => FreshReadsPromise
<1>1. IInv /\ IInv' /\ IdleClean /\ [Next]_vars => [Promise!Next]_(Promise!vars)
  BY NextRefines
<1>2. Spec => Promise!Init /\ [][Promise!Next]_(Promise!vars)
  BY <1>1, InitRefines, IInvInvariant, IdleCleanInvariant, PTL DEF Spec
<1> QED BY <1>2 DEF FreshReadsPromise, Promise!Spec

-----------------------------------------------------------------------------
(* Type correctness needs no assumption on the faults.                     *)

LEMMA ReaderStepTypes ==
    ASSUME TypeOK, NEW r \in Readers, ReaderStep(r)
    PROVE  TypeOK'
<1>1. CASE GetVersions(r)
  <2>1. PICK k \in VersionsRead :
            reader' = [reader EXCEPT ![r] = [pc |-> "lookup", key |-> k,
                                             content |-> Zero, floor |-> acked]]
    BY <1>1 DEF GetVersions
  <2>2. k \in Vector
    BY DEF VersionsRead, TypeOK, Vector, Zero
  <2>3. [pc |-> "lookup", key |-> k, content |-> Zero, floor |-> acked]
            \in [pc : ReaderPc, key : Vector, content : Vector, floor : Vector]
    BY <2>2 DEF TypeOK, ReaderPc, Vector, Zero
  <2> QED BY <1>1, <2>1, <2>3 DEF GetVersions, TypeOK
<1>2. CASE LookupHit(r)
  <2>1. PICK e \in cache :
            reader' = [reader EXCEPT ![r].pc = "done", ![r].content = e.content]
    BY <1>2 DEF LookupHit
  <2>2. e.content \in Vector
    BY DEF TypeOK, Entry
  <2>3. [reader[r] EXCEPT !.pc = "done", !.content = e.content]
            \in [pc : ReaderPc, key : Vector, content : Vector, floor : Vector]
    BY <2>2 DEF TypeOK, ReaderPc
  <2> QED BY <1>2, <2>1, <2>3 DEF LookupHit, TypeOK
<1>3. CASE LookupMiss(r)
  BY <1>3 DEF LookupMiss, TypeOK, ReaderPc
<1>4. CASE QueryDb(r)
  <2>1. PICK next \in {"fill", "done"} :
            reader' = [reader EXCEPT ![r].pc = next, ![r].content = db]
    BY <1>4 DEF QueryDb
  <2>2. next \in ReaderPc
    BY DEF ReaderPc
  <2>3. [reader[r] EXCEPT !.pc = next, !.content = db]
            \in [pc : ReaderPc, key : Vector, content : Vector, floor : Vector]
    BY <2>2 DEF TypeOK
  <2> QED BY <1>4, <2>1, <2>3 DEF QueryDb, TypeOK
<1>5. CASE Fill(r)
  <2>1. reader[r].key \in Vector /\ reader[r].content \in Vector
    BY DEF TypeOK
  <2>2. cache' \subseteq Entry
    BY <1>5, <2>1 DEF Fill, AfterSet, TypeOK, Entry
  <2> QED BY <1>5, <2>2 DEF Fill, TypeOK, ReaderPc
<1>6. CASE Return(r)
  BY <1>6 DEF Return, TypeOK, ReaderPc, IdleReader, Vector, Zero
<1> QED BY <1>1, <1>2, <1>3, <1>4, <1>5, <1>6 DEF ReaderStep

\* The state stays well typed whatever fails: counters and commits are natural
\* numbers and every entry and request in flight holds whole vectors of them.
THEOREM TypeOKTheorem == Spec => []TypeOK
<1>1. Init => TypeOK
  BY DEF Init, TypeOK, Vector, Zero, IdleReader, ReaderPc
<1>2. TypeOK /\ [Next]_vars => TypeOK'
  <2> SUFFICES ASSUME TypeOK, [Next]_vars PROVE TypeOK'
    OBVIOUS
  <2>1. ASSUME NEW r \in Readers, ReaderStep(r) PROVE TypeOK'
    BY <2>1, ReaderStepTypes
  <2>2. ASSUME NEW s \in Scopes, Commit(s) PROVE TypeOK'
    BY <2>2 DEF Commit, TypeOK, Vector, Write
  <2>3. ASSUME NEW w \in unbumped, BumpVersion(w) PROVE TypeOK'
    <3>1. w.scope \in Scopes /\ w.commit \in Nat
      BY DEF TypeOK, Write
    <3>2. version' \in Vector
      BY <2>3, <3>1 DEF BumpVersion, AfterIncr, TypeOK, Vector
    <3>3. acked' \in Vector
      <4>1. (IF acked[w.scope] > w.commit THEN acked[w.scope] ELSE w.commit) \in Nat
        BY <3>1 DEF TypeOK, Vector
      <4> QED BY <2>3, <3>1, <4>1 DEF BumpVersion, TypeOK, Vector
    <3> QED BY <2>3, <3>2, <3>3 DEF BumpVersion, TypeOK
  <2>4. ASSUME NEW w \in unbumped, CrashWriter(w) PROVE TypeOK'
    BY <2>4 DEF CrashWriter, TypeOK
  <2>5. ASSUME NEW e \in cache, Expire(e) PROVE TypeOK'
    BY <2>5 DEF Expire, TypeOK
  <2>6. CASE Flush
    BY <2>6 DEF Flush, TypeOK, Vector, Zero
  <2>7. CASE UNCHANGED vars
    BY <2>7 DEF vars, TypeOK
  <2> QED BY <2>1, <2>2, <2>3, <2>4, <2>5, <2>6, <2>7 DEF Next
<1> QED BY <1>1, <1>2, PTL DEF Spec
=============================================================================
