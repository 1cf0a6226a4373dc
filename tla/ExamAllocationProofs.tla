------------------------- MODULE ExamAllocationProofs -------------------------
(***************************************************************************)
(* For any readers, seeds, bounds and faults: the variables of             *)
(* ExamAllocation keep their types, what was announced before a request is *)
(* in its answer except under a raced ref version, and the time of a       *)
(* tagged session is left out of an allocation only for the reasons its    *)
(* property names.                                                         *)
(***************************************************************************)
EXTENDS ExamAllocation, TLAPS

-----------------------------------------------------------------------------
(* The inductive invariant.                                                *)

ReaderRecord == [pc : ReaderPc, kind : Kinds, key : Vector, content : Vector, floor : Vector]

\* The requests that look for the subjects under the ref version they read first,
\* those that have read the study version, and those that have the whole key.
AtSubjects(r) == reader[r].pc \in SubjectsPc
HasStudy(r)   == reader[r].pc \in {"ref_version", "lookup", "query", "fill"}
HasKey(r)     == reader[r].pc \in {"lookup", "query", "fill"}

\* Only what is committed is announced, and a request knows only what was announced.
Announced ==
    \A s \in Scopes : /\ acked[s] <= db[s]
                      /\ \A w \in unbumped : w.scope = s => w.commit <= db[s]
                      /\ \A r \in Readers : reader[r].floor[s] <= acked[s]

\* No key has a version from the future.
KeysReached ==
    /\ \A e \in subjects : e.key <= version.ref
    /\ \A e \in allocations, s \in Scopes : e.key[s] <= version[s]
    /\ \A r \in Readers, s \in Scopes : reader[r].key[s] <= version[s]

\* The second half of get_subject_allocation is for allocations.
KindsInOrder == \A r \in Readers : reader[r].pc \in KeyPc \/ HasKey(r) => reader[r].kind = "allocation"

\* A list of subjects, cached or about to be, has all that its version announced, and all
\* that the requests with this version know.
SubjectsFresh ==
    /\ \A e \in subjects :
          /\ e.key = version.ref => e.content >= acked.ref
          /\ \A r \in Readers : AtSubjects(r) /\ reader[r].key.ref = e.key
                => e.content >= reader[r].floor.ref
    /\ \A q \in Readers : reader[q].pc = "subjects_fill" =>
          /\ reader[q].key.ref = version.ref => reader[q].content.ref >= acked.ref
          /\ \A r \in Readers : AtSubjects(r) /\ reader[r].key.ref = reader[q].key.ref
                => reader[q].content.ref >= reader[r].floor.ref

\* Subjects that were found have all that the request knew when it began.
SubjectsFound ==
    \A r \in Readers :
        reader[r].pc \in KeyPc \/ (reader[r].pc = "done" /\ reader[r].kind = "subjects")
            => reader[r].content.ref >= reader[r].floor.ref

\* As long as an allocation is between its subjects and its ref version, a ref version
\* that was not raced has announced nothing the request does not know.
BetweenIsRaced ==
    \A r \in Readers : BetweenSubjectsAndKey(r) =>
        version.ref \in raced \/ reader[r].floor.ref = acked.ref

\* The same for the totals of an allocation and its study version.
TotalsFresh ==
    /\ \A e \in allocations :
          /\ e.key.study = version.study => e.content.study >= acked.study
          /\ \A r \in Readers : HasStudy(r) /\ reader[r].key.study = e.key.study
                => e.content.study >= reader[r].floor.study
    /\ \A q \in Readers : reader[q].pc = "fill" =>
          /\ reader[q].key.study = version.study => reader[q].content.study >= acked.study
          /\ \A r \in Readers : HasStudy(r) /\ reader[r].key.study = reader[q].key.study
                => reader[q].content.study >= reader[r].floor.study

\* And for the subjects of an allocation and its ref version, unless it was raced.
AllocationsFresh ==
    /\ \A e \in allocations : e.key.ref \notin raced =>
          /\ e.key.ref = version.ref => e.content.ref >= acked.ref
          /\ \A r \in Readers : HasKey(r) /\ reader[r].key.ref = e.key.ref
                => e.content.ref >= reader[r].floor.ref
    /\ \A q \in Readers : HasKey(q) /\ reader[q].key.ref \notin raced =>
          /\ reader[q].key.ref = version.ref => reader[q].content.ref >= acked.ref
          /\ \A r \in Readers : HasKey(r) /\ reader[r].key.ref = reader[q].key.ref
                => reader[q].content.ref >= reader[r].floor.ref

\* A session is tagged with a subject that was active at the check.
TagsChecked ==
    /\ checked # None => checked \in ActiveAfter
    /\ \A t \in tagged : t.seed \in ActiveAfter

IInv ==
    /\ TypeOK
    /\ Announced /\ KeysReached /\ KindsInOrder
    /\ SubjectsFresh /\ SubjectsFound
    /\ BetweenIsRaced /\ TotalsFresh /\ AllocationsFresh
    /\ StaleOnlyWhereRaced /\ TagsChecked


-----------------------------------------------------------------------------
(* What a step changes of a request.                                       *)

OthersSame(r) == \A q \in Readers \ {r} : reader'[q] = reader[q]

Goes(r, from, to) ==
    /\ reader[r].pc = from /\ reader'[r].pc = to
    /\ reader[r] \in ReaderRecord /\ reader'[r] \in ReaderRecord
    /\ OthersSame(r) /\ reader' \in [Readers -> ReaderRecord]

\* A step of a request that has begun.
Proceeds(r, from, to) ==
    /\ Goes(r, from, to)
    /\ reader'[r].kind = reader[r].kind /\ reader'[r].floor = reader[r].floor

LEMMA StepGoes ==
    ASSUME TypeOK, NEW r \in Readers, NEW from, NEW new \in ReaderRecord, Step(r, from, new)
    PROVE  /\ Goes(r, from, new.pc) /\ reader'[r] = new
<1>1. reader \in [Readers -> ReaderRecord] /\ reader[r] \in ReaderRecord
  BY DEF TypeOK, ReaderRecord
<1>2. reader'[r] = new /\ OthersSame(r) /\ reader' \in [Readers -> ReaderRecord]
  BY <1>1 DEF Step, OthersSame
<1> QED BY <1>1, <1>2 DEF Goes, Step

LEMMA ZeroVector == Zero \in Vector /\ Zero.ref = 0 /\ Zero.study = 0
BY DEF Zero, Vector

LEMMA ReaderType ==
    ASSUME TypeOK, NEW r \in Readers
    PROVE  /\ reader[r] \in ReaderRecord
           /\ reader[r].kind \in Kinds /\ reader[r].key \in Vector
           /\ reader[r].content \in Vector /\ reader[r].floor \in Vector
           /\ \A s \in Scopes : /\ reader[r].key[s] \in Nat /\ reader[r].content[s] \in Nat
                                /\ reader[r].floor[s] \in Nat
BY DEF TypeOK, ReaderRecord, Vector, Scopes

LEMMA VectorType ==
    ASSUME TypeOK
    PROVE  \A s \in Scopes : db[s] \in Nat /\ acked[s] \in Nat /\ version[s] \in Nat
BY DEF TypeOK, Vector, Scopes

Caches == <<subjects, allocations>>
Writes == <<db, acked, version, checked, tagged, unbumped, raced>>

LEMMA BeginEffect ==
    ASSUME TypeOK, NEW r \in Readers, Begin(r)
    PROVE  /\ Goes(r, "idle", "subjects_lookup") /\ UNCHANGED <<Caches, Writes>>
           /\ reader'[r].key.ref = version.ref /\ reader'[r].key.study = 0
           /\ reader'[r].floor = acked
<1>1. PICK kind \in Kinds :
         Step(r, "idle", [pc |-> "subjects_lookup", kind |-> kind, content |-> Zero,
                          key |-> [Zero EXCEPT !.ref = version.ref], floor |-> acked])
  BY DEF Begin
<1> DEFINE key == [Zero EXCEPT !.ref = version.ref]
           new == [pc |-> "subjects_lookup", kind |-> kind, content |-> Zero,
                   key |-> key, floor |-> acked]
<1>2. key \in Vector /\ key.ref = version.ref /\ key.study = 0
  BY ZeroVector DEF TypeOK, Vector
<1> HIDE DEF key
<1>3. /\ new \in ReaderRecord /\ new.pc = "subjects_lookup" /\ new.key = key
      /\ new.floor = acked
  BY <1>2, ZeroVector DEF TypeOK, ReaderRecord, ReaderPc, SubjectsPc
<1>4. Step(r, "idle", new)
  BY <1>1 DEF key
<1> HIDE DEF new
<1>5. Goes(r, "idle", new.pc) /\ reader'[r] = new
  BY <1>3, <1>4, StepGoes
<1> QED BY <1>2, <1>3, <1>5 DEF Begin, ReadsDb, Caches, Writes

\* A step to a request of the same kind and floor.
LEMMA StepProceeds ==
    ASSUME TypeOK, NEW r \in Readers, NEW from, NEW new \in ReaderRecord, Step(r, from, new),
           new.kind = reader[r].kind, new.floor = reader[r].floor
    PROVE  Proceeds(r, from, new.pc) /\ reader'[r] = new
BY StepGoes DEF Proceeds

LEMMA PcTypes ==
    /\ {"idle", "lookup", "query", "fill", "done"} \subseteq ReaderPc
    /\ {"subjects_lookup", "subjects_query", "subjects_fill"} \subseteq ReaderPc
    /\ {"study_version", "ref_version"} \subseteq ReaderPc
BY DEF ReaderPc, SubjectsPc, KeyPc

\* A vector with one entry replaced.
LEMMA VectorEdit ==
    ASSUME NEW v \in Vector, NEW n \in Nat
    PROVE  /\ [v EXCEPT !.ref = n] \in Vector /\ [v EXCEPT !.study = n] \in Vector
           /\ [v EXCEPT !.ref = n].ref = n /\ [v EXCEPT !.ref = n].study = v.study
           /\ [v EXCEPT !.study = n].study = n /\ [v EXCEPT !.study = n].ref = v.ref
BY DEF Vector

LEMMA AfterSubjectsPc ==
    ASSUME NEW kind, NEW content
    PROVE  /\ AfterSubjects(kind, content) \in ReaderPc
           /\ \/ AfterSubjects(kind, content) = "done" /\ (kind = "subjects" \/ content = 0)
              \/ AfterSubjects(kind, content) = "study_version" /\ kind # "subjects"
BY PcTypes DEF AfterSubjects

LEMMA SubjectsHitEffect ==
    ASSUME TypeOK, NEW r \in Readers, SubjectsHit(r)
    PROVE  /\ UNCHANGED <<Caches, Writes>>
           /\ \E e \in subjects :
                 /\ e.key = reader[r].key.ref
                 /\ Proceeds(r, "subjects_lookup", AfterSubjects(reader[r].kind, e.content))
                 /\ reader'[r].key = reader[r].key /\ reader'[r].content.ref = e.content
<1>1. PICK e \in subjects :
         /\ e.key = reader[r].key.ref
         /\ Step(r, "subjects_lookup",
                  [reader[r] EXCEPT !.pc = AfterSubjects(reader[r].kind, e.content),
                                    !.content.ref = e.content])
  BY DEF SubjectsHit
<1> DEFINE content == [reader[r].content EXCEPT !.ref = e.content]
           to  == AfterSubjects(reader[r].kind, e.content)
           new == [reader[r] EXCEPT !.pc = to, !.content = content]
<1>2. content \in Vector /\ content.ref = e.content
  <2>1. e.content \in Nat
    BY DEF TypeOK
  <2> QED BY <2>1, ReaderType, VectorEdit
<1>3. Step(r, "subjects_lookup", new)
  BY <1>1, ReaderType DEF ReaderRecord
<1>4. to \in ReaderPc
  BY AfterSubjectsPc
<1> HIDE DEF content, to
<1>5. /\ new \in ReaderRecord /\ new.pc = to /\ new.key = reader[r].key
      /\ new.content = content /\ new.kind = reader[r].kind /\ new.floor = reader[r].floor
  BY <1>2, <1>4, ReaderType DEF ReaderRecord
<1> HIDE DEF new
<1>6. Proceeds(r, "subjects_lookup", to) /\ reader'[r] = new
  BY <1>3, <1>5, StepProceeds
<1>7. UNCHANGED <<Caches, Writes>>
  BY DEF SubjectsHit, ReadsDb, Caches, Writes
<1> QED BY <1>1, <1>2, <1>5, <1>6, <1>7 DEF to

LEMMA FillSubjectsEffect ==
    ASSUME TypeOK, NEW r \in Readers, FillSubjects(r)
    PROVE  /\ UNCHANGED <<allocations, Writes>>
           /\ Proceeds(r, "subjects_fill",
                       AfterSubjects(reader[r].kind, reader[r].content.ref))
           /\ reader'[r].key = reader[r].key /\ reader'[r].content = reader[r].content
           /\ \A e \in subjects' :
                 \/ e \in subjects
                 \/ e = [key |-> reader[r].key.ref, content |-> reader[r].content.ref]
<1> DEFINE to  == AfterSubjects(reader[r].kind, reader[r].content.ref)
           new == [reader[r] EXCEPT !.pc = to]
<1>1. Step(r, "subjects_fill", new)
  BY DEF FillSubjects
<1>2. to \in ReaderPc
  BY AfterSubjectsPc
<1> HIDE DEF to
<1>3. /\ new \in ReaderRecord /\ new.pc = to /\ new.key = reader[r].key
      /\ new.content = reader[r].content /\ new.kind = reader[r].kind
      /\ new.floor = reader[r].floor
  BY <1>2, ReaderType DEF ReaderRecord
<1> HIDE DEF new
<1>4. Proceeds(r, "subjects_fill", to) /\ reader'[r] = new
  BY <1>1, <1>3, StepProceeds
<1>5. UNCHANGED <<allocations, Writes>>
  BY DEF FillSubjects, ReadsDb, Writes
<1>6. \A e \in subjects' :
         \/ e \in subjects
         \/ e = [key |-> reader[r].key.ref, content |-> reader[r].content.ref]
  BY DEF FillSubjects, AfterSet
<1> QED BY <1>3, <1>4, <1>5, <1>6 DEF to

LEMMA SubjectsMissEffect ==
    ASSUME TypeOK, NEW r \in Readers, SubjectsMiss(r)
    PROVE  /\ UNCHANGED <<Caches, Writes>>
           /\ Proceeds(r, "subjects_lookup", "subjects_query")
           /\ reader'[r].key = reader[r].key
           /\ reader'[r].content = reader[r].content
<1> DEFINE new == [reader[r] EXCEPT !.pc = "subjects_query"]
<1>2. Step(r, "subjects_lookup", new)
  BY DEF SubjectsMiss
<1>3. /\ new \in ReaderRecord /\ new.pc = "subjects_query" /\ new.key = reader[r].key
      /\ new.content = reader[r].content
      /\ new.kind = reader[r].kind /\ new.floor = reader[r].floor
  BY PcTypes, ReaderType DEF ReaderRecord
<1> HIDE DEF new
<1>4. Proceeds(r, "subjects_lookup", "subjects_query") /\ reader'[r] = new
  BY <1>2, <1>3, StepProceeds
<1>5. UNCHANGED <<Caches, Writes>>
  BY DEF SubjectsMiss, ReadsDb, Caches, Writes
<1> QED BY <1>3, <1>4, <1>5

LEMMA QuerySubjectsEffect ==
    ASSUME TypeOK, NEW r \in Readers, QuerySubjects(r)
    PROVE  /\ UNCHANGED <<Caches, Writes>>
           /\ Proceeds(r, "subjects_query", "subjects_fill")
           /\ reader'[r].key = reader[r].key
           /\ reader'[r].content.ref = db.ref
<1> DEFINE content == [reader[r].content EXCEPT !.ref = db.ref]
           new == [reader[r] EXCEPT !.pc = "subjects_fill", !.content = content]
<1>1. content \in Vector /\ content.ref = db.ref /\ content.study = reader[r].content.study
  BY ReaderType, VectorType, VectorEdit DEF Scopes
<1>2. Step(r, "subjects_query", new)
  BY ReaderType DEF QuerySubjects, ReaderRecord
<1> HIDE DEF content
<1>3. /\ new \in ReaderRecord /\ new.pc = "subjects_fill" /\ new.content = content
      /\ new.key = reader[r].key
      /\ new.kind = reader[r].kind /\ new.floor = reader[r].floor
  BY <1>1, PcTypes, ReaderType DEF ReaderRecord
<1> HIDE DEF new
<1>4. Proceeds(r, "subjects_query", "subjects_fill") /\ reader'[r] = new
  BY <1>2, <1>3, StepProceeds
<1>5. UNCHANGED <<Caches, Writes>>
  BY DEF QuerySubjects, ReadsDb, Caches, Writes
<1> QED BY <1>1, <1>3, <1>4, <1>5

LEMMA StudyVersionEffect ==
    ASSUME TypeOK, NEW r \in Readers, StudyVersion(r)
    PROVE  /\ UNCHANGED <<Caches, Writes>>
           /\ Proceeds(r, "study_version", "ref_version")
           /\ reader'[r].content = reader[r].content
           /\ reader'[r].key.study = version.study
           /\ reader'[r].key.ref = reader[r].key.ref
<1> DEFINE key == [reader[r].key EXCEPT !.study = version.study]
           new == [reader[r] EXCEPT !.pc = "ref_version", !.key = key]
<1>1. key \in Vector /\ key.study = version.study /\ key.ref = reader[r].key.ref
  BY ReaderType, VectorType, VectorEdit DEF Scopes
<1>2. Step(r, "study_version", new)
  BY ReaderType DEF StudyVersion, ReaderRecord
<1> HIDE DEF key
<1>3. /\ new \in ReaderRecord /\ new.pc = "ref_version" /\ new.key = key
      /\ new.content = reader[r].content
      /\ new.kind = reader[r].kind /\ new.floor = reader[r].floor
  BY <1>1, PcTypes, ReaderType DEF ReaderRecord
<1> HIDE DEF new
<1>4. Proceeds(r, "study_version", "ref_version") /\ reader'[r] = new
  BY <1>2, <1>3, StepProceeds
<1>5. UNCHANGED <<Caches, Writes>>
  BY DEF StudyVersion, ReadsDb, Caches, Writes
<1> QED BY <1>1, <1>3, <1>4, <1>5

LEMMA RefVersionEffect ==
    ASSUME TypeOK, NEW r \in Readers, RefVersion(r)
    PROVE  /\ UNCHANGED <<Caches, Writes>>
           /\ Proceeds(r, "ref_version", "lookup")
           /\ reader'[r].content = reader[r].content
           /\ reader'[r].key.ref = version.ref
           /\ reader'[r].key.study = reader[r].key.study
<1> DEFINE key == [reader[r].key EXCEPT !.ref = version.ref]
           new == [reader[r] EXCEPT !.pc = "lookup", !.key = key]
<1>1. key \in Vector /\ key.ref = version.ref /\ key.study = reader[r].key.study
  BY ReaderType, VectorType, VectorEdit DEF Scopes
<1>2. Step(r, "ref_version", new)
  BY ReaderType DEF RefVersion, ReaderRecord
<1> HIDE DEF key
<1>3. /\ new \in ReaderRecord /\ new.pc = "lookup" /\ new.key = key
      /\ new.content = reader[r].content
      /\ new.kind = reader[r].kind /\ new.floor = reader[r].floor
  BY <1>1, PcTypes, ReaderType DEF ReaderRecord
<1> HIDE DEF new
<1>4. Proceeds(r, "ref_version", "lookup") /\ reader'[r] = new
  BY <1>2, <1>3, StepProceeds
<1>5. UNCHANGED <<Caches, Writes>>
  BY DEF RefVersion, ReadsDb, Caches, Writes
<1> QED BY <1>1, <1>3, <1>4, <1>5

LEMMA AllocationMissEffect ==
    ASSUME TypeOK, NEW r \in Readers, AllocationMiss(r)
    PROVE  /\ UNCHANGED <<Caches, Writes>>
           /\ Proceeds(r, "lookup", "query")
           /\ reader'[r].key = reader[r].key
           /\ reader'[r].content = reader[r].content
<1> DEFINE new == [reader[r] EXCEPT !.pc = "query"]
<1>2. Step(r, "lookup", new)
  BY DEF AllocationMiss
<1>3. /\ new \in ReaderRecord /\ new.pc = "query" /\ new.key = reader[r].key
      /\ new.content = reader[r].content
      /\ new.kind = reader[r].kind /\ new.floor = reader[r].floor
  BY PcTypes, ReaderType DEF ReaderRecord
<1> HIDE DEF new
<1>4. Proceeds(r, "lookup", "query") /\ reader'[r] = new
  BY <1>2, <1>3, StepProceeds
<1>5. UNCHANGED <<Caches, Writes>>
  BY DEF AllocationMiss, ReadsDb, Caches, Writes
<1> QED BY <1>3, <1>4, <1>5

LEMMA QueryTotalsEffect ==
    ASSUME TypeOK, NEW r \in Readers, QueryTotals(r)
    PROVE  /\ UNCHANGED <<Caches, Writes>>
           /\ Proceeds(r, "query", "fill")
           /\ reader'[r].key = reader[r].key
           /\ reader'[r].content.study = db.study
           /\ reader'[r].content.ref = reader[r].content.ref
<1> DEFINE content == [reader[r].content EXCEPT !.study = db.study]
           new == [reader[r] EXCEPT !.pc = "fill", !.content = content]
<1>1. content \in Vector /\ content.study = db.study /\ content.ref = reader[r].content.ref
  BY ReaderType, VectorType, VectorEdit DEF Scopes
<1>2. Step(r, "query", new)
  BY ReaderType DEF QueryTotals, ReaderRecord
<1> HIDE DEF content
<1>3. /\ new \in ReaderRecord /\ new.pc = "fill" /\ new.content = content
      /\ new.key = reader[r].key
      /\ new.kind = reader[r].kind /\ new.floor = reader[r].floor
  BY <1>1, PcTypes, ReaderType DEF ReaderRecord
<1> HIDE DEF new
<1>4. Proceeds(r, "query", "fill") /\ reader'[r] = new
  BY <1>2, <1>3, StepProceeds
<1>5. UNCHANGED <<Caches, Writes>>
  BY DEF QueryTotals, ReadsDb, Caches, Writes
<1> QED BY <1>1, <1>3, <1>4, <1>5

LEMMA FillAllocationEffect ==
    ASSUME TypeOK, NEW r \in Readers, FillAllocation(r)
    PROVE  /\ UNCHANGED <<subjects, Writes>>
           /\ Proceeds(r, "fill", "done")
           /\ reader'[r].key = reader[r].key
           /\ reader'[r].content = reader[r].content
           /\ \A e \in allocations' :
                 e \in allocations \/ e = [key |-> reader[r].key, content |-> reader[r].content]
<1> DEFINE new == [reader[r] EXCEPT !.pc = "done"]
<1>2. Step(r, "fill", new)
  BY DEF FillAllocation
<1>3. /\ new \in ReaderRecord /\ new.pc = "done" /\ new.key = reader[r].key
      /\ new.content = reader[r].content
      /\ new.kind = reader[r].kind /\ new.floor = reader[r].floor
  BY PcTypes, ReaderType DEF ReaderRecord
<1> HIDE DEF new
<1>4. Proceeds(r, "fill", "done") /\ reader'[r] = new
  BY <1>2, <1>3, StepProceeds
<1>5. UNCHANGED <<subjects, Writes>>
  BY DEF FillAllocation, ReadsDb, Caches, Writes
<1>6. \A e \in allocations' :
         e \in allocations \/ e = [key |-> reader[r].key, content |-> reader[r].content]
  BY DEF FillAllocation, AfterSet
<1> QED BY <1>3, <1>4, <1>5, <1>6

LEMMA AllocationHitEffect ==
    ASSUME TypeOK, NEW r \in Readers, AllocationHit(r)
    PROVE  /\ UNCHANGED <<Caches, Writes>> /\ Proceeds(r, "lookup", "done")
           /\ \E e \in allocations :
                 /\ e.key = reader[r].key
                 /\ reader'[r].key = reader[r].key /\ reader'[r].content = e.content
<1>1. PICK e \in allocations :
         /\ e.key = reader[r].key
         /\ Step(r, "lookup", [reader[r] EXCEPT !.pc = "done", !.content = e.content])
  BY DEF AllocationHit
<1> DEFINE new == [reader[r] EXCEPT !.pc = "done", !.content = e.content]
<1>2. e.content \in Vector
  BY DEF TypeOK
<1>3. /\ new \in ReaderRecord /\ new.pc = "done" /\ new.key = reader[r].key
      /\ new.content = e.content /\ new.kind = reader[r].kind /\ new.floor = reader[r].floor
  BY <1>2, PcTypes, ReaderType DEF ReaderRecord
<1>4. Step(r, "lookup", new)
  BY <1>1
<1> HIDE DEF new
<1>5. Proceeds(r, "lookup", "done") /\ reader'[r] = new
  BY <1>3, <1>4, StepProceeds
<1>6. UNCHANGED <<Caches, Writes>>
  BY DEF AllocationHit, ReadsDb, Caches, Writes
<1> QED BY <1>1, <1>3, <1>5, <1>6

LEMMA ReturnEffect ==
    ASSUME TypeOK, NEW r \in Readers, Return(r)
    PROVE  /\ UNCHANGED <<Caches, Writes>> /\ Goes(r, "done", "idle")
           /\ reader'[r].key = Zero /\ reader'[r].floor = Zero
<1>1. /\ IdleReader \in ReaderRecord /\ IdleReader.pc = "idle" /\ IdleReader.key = Zero
      /\ IdleReader.floor = Zero
  BY PcTypes, ZeroVector DEF IdleReader, ReaderRecord, Kinds
<1>2. Goes(r, "done", "idle") /\ reader'[r] = IdleReader
  BY <1>1, StepGoes DEF Return
<1> QED BY <1>1, <1>2 DEF Return, ReadsDb, Caches, Writes


-----------------------------------------------------------------------------
(* What the other steps change.                                            *)

QuietStep ==
    \/ \E s \in Scopes : CommitUntagged(s)
    \/ CheckSubject \/ CommitTagged
    \/ \E w \in unbumped : CrashWriter(w)
    \/ \E e \in subjects : ExpireSubjects(e.key)
    \/ \E e \in allocations : ExpireAllocation(e.key)

LEMMA CommitEffect ==
    ASSUME TypeOK, NEW s \in Scopes, Commit(s)
    PROVE  /\ UNCHANGED <<acked, version, subjects, allocations, reader, raced>>
           /\ db' \in Vector /\ \A t \in Scopes : db[t] <= db'[t]
           /\ unbumped' \subseteq [scope : Scopes, commit : Nat]
           /\ \A w \in unbumped' : w \in unbumped \/ w.commit = db'[w.scope]
<1>1. db' = [db EXCEPT ![s] = db[s] + 1]
  BY DEF Commit
<1>2. db \in Vector /\ db[s] \in Nat
  BY VectorType DEF TypeOK
<1>3. /\ db' \in Vector /\ db'[s] = db[s] + 1 /\ \A t \in Scopes \ {s} : db'[t] = db[t]
  BY <1>1, <1>2 DEF Vector, Scopes
<1>4. /\ unbumped' = unbumped \cup {[scope |-> s, commit |-> db[s] + 1]}
      /\ UNCHANGED <<acked, version, subjects, allocations, reader, raced>>
  BY DEF Commit
<1>5. \A t \in Scopes : db[t] <= db'[t]
  BY <1>2, <1>3, VectorType
<1> QED BY <1>2, <1>3, <1>4, <1>5 DEF TypeOK

LEMMA QuietEffect ==
    ASSUME TypeOK, Announced, QuietStep
    PROVE  /\ UNCHANGED <<reader, acked, version, raced>>
           /\ subjects' \subseteq subjects /\ allocations' \subseteq allocations
           /\ db' \in Vector /\ \A s \in Scopes : db[s] <= db'[s]
           /\ unbumped' \subseteq [scope : Scopes, commit : Nat]
           /\ \A w \in unbumped' : w.commit <= db'[w.scope]
<1>1. /\ db \in Vector /\ \A s \in Scopes : db[s] <= db[s]
      /\ unbumped \subseteq [scope : Scopes, commit : Nat]
      /\ \A w \in unbumped : w.scope \in Scopes /\ w.commit \in Nat /\ w.commit <= db[w.scope]
  BY VectorType DEF TypeOK, Announced
<1>2. ASSUME NEW s \in Scopes, Commit(s)
      PROVE  /\ UNCHANGED <<reader, acked, version, raced, subjects, allocations>>
             /\ db' \in Vector /\ \A t \in Scopes : db[t] <= db'[t]
             /\ unbumped' \subseteq [scope : Scopes, commit : Nat]
             /\ \A w \in unbumped' : w.commit <= db'[w.scope]
  <2>1. ASSUME NEW w \in unbumped' PROVE w.commit <= db'[w.scope]
    <3>1. w.scope \in Scopes /\ w.commit \in Nat /\ db'[w.scope] \in Nat
      BY <1>2, CommitEffect DEF Vector, Scopes
    <3>2. w \in unbumped \/ w.commit = db'[w.scope]
      BY <1>2, CommitEffect
    <3>3. ASSUME w \in unbumped PROVE w.commit <= db'[w.scope]
      <4>1. w.commit <= db[w.scope] /\ db[w.scope] <= db'[w.scope] /\ db[w.scope] \in Nat
        BY <1>1, <1>2, <3>1, <3>3, CommitEffect, VectorType
      <4> QED BY <3>1, <4>1
    <3> QED BY <3>1, <3>2, <3>3
  <2> QED BY <1>2, <2>1, CommitEffect
<1>3. CASE \E s \in Scopes : CommitUntagged(s)
  BY <1>2, <1>3 DEF CommitUntagged
<1>4. CASE CommitTagged
  BY <1>2, <1>4 DEF CommitTagged, Scopes
<1>5. CASE CheckSubject
  BY <1>1, <1>5 DEF CheckSubject
<1>6. CASE \E w \in unbumped : CrashWriter(w)
  BY <1>1, <1>6 DEF CrashWriter
<1>7. CASE \E e \in subjects : ExpireSubjects(e.key)
  BY <1>1, <1>7 DEF ExpireSubjects, ReadsDb
<1>8. CASE \E e \in allocations : ExpireAllocation(e.key)
  BY <1>1, <1>8 DEF ExpireAllocation, ReadsDb
<1> QED BY <1>3, <1>4, <1>5, <1>6, <1>7, <1>8 DEF QuietStep

LEMMA BumpEffect ==
    ASSUME TypeOK, Announced, NEW w \in unbumped, BumpVersion(w)
    PROVE  /\ UNCHANGED <<db, subjects, allocations, reader, checked, tagged>>
           /\ w.scope \in Scopes /\ unbumped' \subseteq unbumped
           /\ version' \in Vector /\ version'[w.scope] = version[w.scope] + 1
           /\ \A s \in Scopes \ {w.scope} : version'[s] = version[s] /\ acked'[s] = acked[s]
           /\ acked' \in Vector /\ \A s \in Scopes : acked[s] <= acked'[s] /\ acked'[s] <= db[s]
           /\ raced \subseteq raced' /\ raced' \subseteq raced \cup {version.ref + 1}
           /\ w.scope = "ref" /\ (\E r \in Readers : BetweenSubjectsAndKey(r))
                => version.ref + 1 \in raced'
           /\ w.scope # "ref" => raced' = raced
<1> DEFINE s == w.scope
           top == IF acked[s] > w.commit THEN acked[s] ELSE w.commit
<1>1. /\ s \in Scopes /\ w.commit \in Nat /\ acked \in Vector /\ version \in Vector
      /\ acked[s] \in Nat /\ version[s] \in Nat /\ db[s] \in Nat
      /\ w.commit <= db[s] /\ acked[s] <= db[s]
  BY VectorType DEF TypeOK, Announced
<1>2. /\ version' = [version EXCEPT ![s] = version[s] + 1]
      /\ acked' = [acked EXCEPT ![s] = top]
  BY DEF BumpVersion
<1>3. top \in Nat /\ acked[s] <= top /\ top <= db[s]
  BY <1>1
<1> HIDE DEF top
<1>4. /\ version' \in Vector /\ version'[s] = version[s] + 1
      /\ \A t \in Scopes \ {s} : version'[t] = version[t]
  BY <1>1, <1>2 DEF Vector, Scopes
<1>5. /\ acked' \in Vector /\ acked'[s] = top
      /\ \A t \in Scopes \ {s} : acked'[t] = acked[t]
  BY <1>1, <1>2, <1>3 DEF Vector, Scopes
<1>6. \A t \in Scopes : acked[t] <= acked'[t] /\ acked'[t] <= db[t]
  BY <1>3, <1>5, VectorType DEF Announced
<1>7. /\ UNCHANGED <<db, subjects, allocations, reader, checked, tagged>>
      /\ unbumped' = unbumped \ {w}
      /\ raced' = IF s = "ref" /\ \E r \in Readers : BetweenSubjectsAndKey(r)
                  THEN raced \cup {version.ref + 1} ELSE raced
  BY DEF BumpVersion
<1> HIDE DEF s
<1>8. /\ raced \subseteq raced' /\ raced' \subseteq raced \cup {version.ref + 1}
      /\ s = "ref" /\ (\E r \in Readers : BetweenSubjectsAndKey(r)) => version.ref + 1 \in raced'
      /\ s # "ref" => raced' = raced
  BY <1>7
<1> QED BY <1>1, <1>4, <1>5, <1>6, <1>7, <1>8 DEF s

\* The steps: of a request, of a writer that announces, and the others.
LEMMA StepKinds ==
    ASSUME Next
    PROVE  \/ \E r \in Readers : ReaderStep(r)
           \/ \E w \in unbumped : BumpVersion(w)
           \/ QuietStep
BY DEF Next, QuietStep

\* What every step of a request does.
LEMMA ReaderEffect ==
    ASSUME TypeOK, NEW r \in Readers, ReaderStep(r)
    PROVE  /\ UNCHANGED Writes /\ OthersSame(r) /\ reader' \in [Readers -> ReaderRecord]
           /\ reader'[r] \in ReaderRecord
           /\ reader'[r].floor \in {reader[r].floor, acked, Zero}
           /\ \A s \in Scopes : reader'[r].key[s] \in {reader[r].key[s], version[s], 0}
           /\ \A e \in subjects' :
                 \/ e \in subjects
                 \/ /\ reader[r].pc = "subjects_fill"
                    /\ e = [key |-> reader[r].key.ref, content |-> reader[r].content.ref]
           /\ \A e \in allocations' :
                 \/ e \in allocations
                 \/ /\ reader[r].pc = "fill"
                    /\ e = [key |-> reader[r].key, content |-> reader[r].content]
<1>1. CASE Begin(r)
  BY <1>1, BeginEffect DEF Goes, Caches, Scopes
<1>2. CASE SubjectsHit(r)
  BY <1>2, SubjectsHitEffect DEF Proceeds, Goes, Caches
<1>3. CASE SubjectsMiss(r)
  BY <1>3, SubjectsMissEffect DEF Proceeds, Goes, Caches
<1>4. CASE QuerySubjects(r)
  BY <1>4, QuerySubjectsEffect DEF Proceeds, Goes, Caches
<1>5. CASE FillSubjects(r)
  BY <1>5, FillSubjectsEffect DEF Proceeds, Goes
<1>6. CASE StudyVersion(r)
  BY <1>6, StudyVersionEffect DEF Proceeds, Goes, Caches, Scopes
<1>7. CASE RefVersion(r)
  BY <1>7, RefVersionEffect DEF Proceeds, Goes, Caches, Scopes
<1>8. CASE AllocationHit(r)
  BY <1>8, AllocationHitEffect DEF Proceeds, Goes, Caches
<1>9. CASE AllocationMiss(r)
  BY <1>9, AllocationMissEffect DEF Proceeds, Goes, Caches
<1>10. CASE QueryTotals(r)
  BY <1>10, QueryTotalsEffect DEF Proceeds, Goes, Caches
<1>11. CASE FillAllocation(r)
  BY <1>11, FillAllocationEffect DEF Proceeds, Goes
<1>12. CASE Return(r)
  BY <1>12, ReturnEffect, ZeroVector DEF Goes, Caches, Scopes
<1> QED BY <1>1, <1>2, <1>3, <1>4, <1>5, <1>6, <1>7, <1>8, <1>9, <1>10, <1>11, <1>12
        DEF ReaderStep

-----------------------------------------------------------------------------
(* The invariant is preserved.                                             *)

LEMMA TypeStep ==
    ASSUME TypeOK, Announced, Next
    PROVE  TypeOK'
<1>1. CASE \E r \in Readers : ReaderStep(r)
  <2>1. PICK r \in Readers : ReaderStep(r)
    BY <1>1
  <2>2. UNCHANGED Writes /\ reader' \in [Readers -> ReaderRecord]
    BY <2>1, ReaderEffect
  <2>3. subjects' \subseteq [key : Nat, content : Nat]
    BY <2>1, ReaderEffect, ReaderType DEF TypeOK, Vector, Scopes
  <2>4. allocations' \subseteq [key : Vector, content : Vector]
    BY <2>1, ReaderEffect, ReaderType DEF TypeOK
  <2> QED BY <2>2, <2>3, <2>4 DEF TypeOK, Writes, ReaderRecord
<1>2. CASE \E w \in unbumped : BumpVersion(w)
  <2>1. PICK w \in unbumped : BumpVersion(w)
    BY <1>2
  <2>2. version.ref + 1 \in Nat
    BY DEF TypeOK, Vector
  <2> QED BY <2>1, <2>2, BumpEffect DEF TypeOK
<1>3. CASE QuietStep
  <2>1. checked' \in Nat \cup {None} /\ tagged' \subseteq [commit : Nat, seed : Nat]
    <3>1. db.ref \in Nat /\ db.study \in Nat
      BY DEF TypeOK, Vector
    <3> QED BY <1>3, <3>1 DEF QuietStep, TypeOK, CommitUntagged, CheckSubject, CommitTagged,
                              CrashWriter, ExpireSubjects, ExpireAllocation, ReadsDb
  <2>2. subjects' \subseteq subjects /\ allocations' \subseteq allocations
    BY <1>3, QuietEffect
  <2> QED BY <1>3, <2>1, <2>2, QuietEffect DEF TypeOK
<1> QED BY <1>1, <1>2, <1>3, StepKinds


\* Where a request of each part of the code was before a step of a request.
LEMMA CameFrom ==
    ASSUME TypeOK, NEW r \in Readers, ReaderStep(r), NEW q \in Readers
    PROVE  /\ reader'[q].pc \in SubjectsPc =>
                 \/ /\ reader[q].pc \in SubjectsPc /\ reader'[q].floor = reader[q].floor
                    /\ reader'[q].key.ref = reader[q].key.ref
                 \/ reader'[q].floor = acked /\ reader'[q].key.ref = version.ref
           /\ reader'[q].pc = "subjects_fill" =>
                 \/ reader'[q] = reader[q]
                 \/ reader'[q].content.ref = db.ref
           /\ reader'[q].pc \in {"ref_version", "lookup", "query", "fill"} =>
                 /\ reader'[q].floor = reader[q].floor /\ reader'[q].kind = reader[q].kind
                 /\ \/ /\ reader[q].pc \in {"ref_version", "lookup", "query", "fill"}
                       /\ reader'[q].key.study = reader[q].key.study
                    \/ reader[q].pc = "study_version" /\ reader'[q].key.study = version.study
           /\ reader'[q].pc = "fill" =>
                 \/ reader'[q] = reader[q]
                 \/ reader'[q].content.study = db.study
           /\ reader'[q].pc \in {"lookup", "query", "fill"} =>
                 /\ reader'[q].content.ref = reader[q].content.ref
                 /\ \/ /\ reader[q].pc \in {"lookup", "query", "fill"}
                       /\ reader'[q].key.ref = reader[q].key.ref
                    \/ reader[q].pc = "ref_version" /\ reader'[q].key.ref = version.ref
<1>1. CASE q # r
  <2>1. reader'[q] = reader[q]
    BY <1>1, ReaderEffect DEF OthersSame
  <2> QED BY <2>1
<1>2. CASE q = r
  <2>1. CASE Begin(r)
    BY <1>2, <2>1, BeginEffect DEF Goes
  <2>2. CASE SubjectsHit(r)
    <3>1. reader'[r].pc \in {"done", "study_version"}
      BY <2>2, SubjectsHitEffect, AfterSubjectsPc DEF Proceeds, Goes
    <3> QED BY <1>2, <3>1 DEF SubjectsPc
  <2>3. CASE SubjectsMiss(r)
    BY <1>2, <2>3, SubjectsMissEffect DEF Proceeds, Goes, SubjectsPc
  <2>4. CASE QuerySubjects(r)
    BY <1>2, <2>4, QuerySubjectsEffect DEF Proceeds, Goes, SubjectsPc
  <2>5. CASE FillSubjects(r)
    <3>1. reader'[r].pc \in {"done", "study_version"}
      BY <2>5, FillSubjectsEffect, AfterSubjectsPc DEF Proceeds, Goes
    <3> QED BY <1>2, <3>1 DEF SubjectsPc
  <2>6. CASE StudyVersion(r)
    BY <1>2, <2>6, StudyVersionEffect DEF Proceeds, Goes, SubjectsPc
  <2>7. CASE RefVersion(r)
    BY <1>2, <2>7, RefVersionEffect DEF Proceeds, Goes, SubjectsPc
  <2>8. CASE AllocationHit(r)
    BY <1>2, <2>8, AllocationHitEffect DEF Proceeds, Goes, SubjectsPc
  <2>9. CASE AllocationMiss(r)
    BY <1>2, <2>9, AllocationMissEffect DEF Proceeds, Goes, SubjectsPc
  <2>10. CASE QueryTotals(r)
    BY <1>2, <2>10, QueryTotalsEffect DEF Proceeds, Goes, SubjectsPc
  <2>11. CASE FillAllocation(r)
    BY <1>2, <2>11, FillAllocationEffect DEF Proceeds, Goes, SubjectsPc
  <2>12. CASE Return(r)
    BY <1>2, <2>12, ReturnEffect DEF Goes, SubjectsPc
  <2> QED BY <2>1, <2>2, <2>3, <2>4, <2>5, <2>6, <2>7, <2>8, <2>9, <2>10, <2>11, <2>12
          DEF ReaderStep
<1> QED BY <1>1, <1>2

\* A request on the way to its versions, and one that ends.
LEMMA CameToVersions ==
    ASSUME TypeOK, NEW r \in Readers, ReaderStep(r), NEW q \in Readers
    PROVE  /\ reader'[q].pc \in KeyPc =>
                 \/ /\ reader[q].pc \in KeyPc /\ reader'[q].content = reader[q].content
                    /\ reader'[q].floor = reader[q].floor /\ reader'[q].kind = reader[q].kind
                 \/ /\ reader[q].pc \in SubjectsPc /\ q = r /\ (SubjectsHit(r) \/ FillSubjects(r))
                    /\ reader'[q].kind = reader[q].kind /\ reader[q].kind # "subjects"
           /\ reader'[q].pc = "done" =>
                 \/ reader'[q] = reader[q]
                 \/ q = r /\ (SubjectsHit(r) \/ FillSubjects(r) \/ AllocationHit(r)
                              \/ FillAllocation(r))
<1>1. CASE q # r
  <2>1. reader'[q] = reader[q]
    BY <1>1, ReaderEffect DEF OthersSame
  <2> QED BY <2>1
<1>2. CASE q = r
  <2>1. CASE Begin(r)
    BY <1>2, <2>1, BeginEffect DEF Goes, KeyPc
  <2>2. CASE SubjectsHit(r)
    <3>1. /\ reader[r].pc \in SubjectsPc /\ reader'[r].kind = reader[r].kind
          /\ reader'[r].pc = "done" \/ reader[r].kind # "subjects"
      BY <2>2, SubjectsHitEffect, AfterSubjectsPc DEF Proceeds, Goes, SubjectsPc
    <3> QED BY <1>2, <2>2, <3>1 DEF KeyPc
  <2>3. CASE SubjectsMiss(r)
    BY <1>2, <2>3, SubjectsMissEffect DEF Proceeds, Goes, KeyPc
  <2>4. CASE QuerySubjects(r)
    BY <1>2, <2>4, QuerySubjectsEffect DEF Proceeds, Goes, KeyPc
  <2>5. CASE FillSubjects(r)
    <3>1. /\ reader[r].pc \in SubjectsPc /\ reader'[r].kind = reader[r].kind
          /\ reader'[r].pc = "done" \/ reader[r].kind # "subjects"
      BY <2>5, FillSubjectsEffect, AfterSubjectsPc DEF Proceeds, Goes, SubjectsPc
    <3> QED BY <1>2, <2>5, <3>1 DEF KeyPc
  <2>6. CASE StudyVersion(r)
    BY <1>2, <2>6, StudyVersionEffect DEF Proceeds, Goes, KeyPc
  <2>7. CASE RefVersion(r)
    BY <1>2, <2>7, RefVersionEffect DEF Proceeds, Goes, KeyPc
  <2>8. CASE AllocationHit(r)
    BY <1>2, <2>8, AllocationHitEffect DEF Proceeds, Goes, KeyPc
  <2>9. CASE AllocationMiss(r)
    BY <1>2, <2>9, AllocationMissEffect DEF Proceeds, Goes, KeyPc
  <2>10. CASE QueryTotals(r)
    BY <1>2, <2>10, QueryTotalsEffect DEF Proceeds, Goes, KeyPc
  <2>11. CASE FillAllocation(r)
    BY <1>2, <2>11, FillAllocationEffect DEF Proceeds, Goes, KeyPc
  <2>12. CASE Return(r)
    BY <1>2, <2>12, ReturnEffect DEF Goes, KeyPc
  <2> QED BY <2>1, <2>2, <2>3, <2>4, <2>5, <2>6, <2>7, <2>8, <2>9, <2>10, <2>11, <2>12
          DEF ReaderStep
<1> QED BY <1>1, <1>2

LEMMA AnnouncedStep ==
    ASSUME TypeOK, Announced, Next
    PROVE  Announced'
<1>1. \A s \in Scopes : db[s] \in Nat /\ acked[s] \in Nat
  BY VectorType
<1>2. CASE \E r \in Readers : ReaderStep(r)
  <2>1. PICK r \in Readers : ReaderStep(r)
    BY <1>2
  <2>2. UNCHANGED <<db, acked, unbumped>>
    BY <2>1, ReaderEffect DEF Writes
  <2>3. ASSUME NEW q \in Readers, NEW s \in Scopes PROVE reader'[q].floor[s] <= acked[s]
    <3>1. CASE q = r
      BY <1>1, <2>1, <3>1, ReaderEffect, ZeroVector DEF Announced, Scopes
    <3>2. CASE q # r
      BY <2>1, <3>2, ReaderEffect DEF OthersSame, Announced
    <3> QED BY <3>1, <3>2
  <2> QED BY <2>2, <2>3 DEF Announced
<1>3. CASE \E w \in unbumped : BumpVersion(w)
  <2>1. PICK w \in unbumped : BumpVersion(w)
    BY <1>3
  <2>2. /\ UNCHANGED <<db, reader>> /\ unbumped' \subseteq unbumped /\ acked' \in Vector
        /\ \A s \in Scopes : acked[s] <= acked'[s] /\ acked'[s] <= db[s]
    BY <2>1, BumpEffect
  <2>3. ASSUME NEW q \in Readers, NEW s \in Scopes PROVE reader'[q].floor[s] <= acked'[s]
    <3>1. /\ reader[q].floor[s] <= acked[s] /\ acked[s] <= acked'[s]
          /\ reader[q].floor[s] \in Nat /\ acked'[s] \in Nat
      BY <2>2, ReaderType DEF Announced, Vector, Scopes
    <3> QED BY <1>1, <2>2, <3>1
  <2> QED BY <2>2, <2>3 DEF Announced
<1>4. CASE QuietStep
  <2>1. /\ UNCHANGED <<reader, acked>> /\ db' \in Vector /\ \A s \in Scopes : db[s] <= db'[s]
        /\ \A w \in unbumped' : w.commit <= db'[w.scope]
    BY <1>4, QuietEffect
  <2>2. ASSUME NEW s \in Scopes PROVE acked'[s] <= db'[s]
    <3>1. acked[s] <= db[s] /\ db[s] <= db'[s] /\ db'[s] \in Nat
      BY <2>1 DEF Announced, Vector, Scopes
    <3> QED BY <1>1, <2>1, <3>1
  <2> QED BY <2>1, <2>2 DEF Announced
<1> QED BY <1>2, <1>3, <1>4, StepKinds

LEMMA KeysStep ==
    ASSUME TypeOK, Announced, KeysReached, Next
    PROVE  KeysReached'
<1>1. \A s \in Scopes : version[s] \in Nat
  BY VectorType
<1>2. CASE \E r \in Readers : ReaderStep(r)
  <2>1. PICK r \in Readers : ReaderStep(r)
    BY <1>2
  <2>2. version' = version
    BY <2>1, ReaderEffect DEF Writes
  <2>3. ASSUME NEW q \in Readers, NEW s \in Scopes PROVE reader'[q].key[s] <= version[s]
    <3>1. CASE q = r
      BY <1>1, <2>1, <3>1, ReaderEffect DEF KeysReached
    <3>2. CASE q # r
      BY <2>1, <3>2, ReaderEffect DEF OthersSame, KeysReached
    <3> QED BY <3>1, <3>2
  <2>4. \A e \in subjects' : e.key <= version.ref
    BY <2>1, ReaderEffect DEF KeysReached, Scopes
  <2>5. \A e \in allocations', s \in Scopes : e.key[s] <= version[s]
    BY <2>1, ReaderEffect DEF KeysReached
  <2> QED BY <2>2, <2>3, <2>4, <2>5 DEF KeysReached
<1>3. CASE \E w \in unbumped : BumpVersion(w)
  <2>1. PICK w \in unbumped : BumpVersion(w)
    BY <1>3
  <2>2. UNCHANGED <<subjects, allocations, reader>>
    BY <2>1, BumpEffect
  <2>3. \A s \in Scopes : version'[s] \in {version[s], version[s] + 1}
    BY <2>1, BumpEffect
  <2>4. \A s \in Scopes : \A k \in Nat : k <= version[s] => k <= version'[s]
    BY <1>1, <2>3
  <2>5. \A e \in subjects : e.key \in Nat
    BY DEF TypeOK
  <2>6. \A e \in allocations, s \in Scopes : e.key[s] \in Nat
    BY DEF TypeOK, Vector, Scopes
  <2>7. \A q \in Readers, s \in Scopes : reader[q].key[s] \in Nat
    BY ReaderType
  <2>8. \A e \in subjects : e.key <= version'.ref
    BY <2>4, <2>5 DEF KeysReached, Scopes
  <2>9. \A e \in allocations, s \in Scopes : e.key[s] <= version'[s]
    BY <2>4, <2>6 DEF KeysReached
  <2>10. \A q \in Readers, s \in Scopes : reader[q].key[s] <= version'[s]
    BY <2>4, <2>7 DEF KeysReached
  <2> QED BY <2>2, <2>8, <2>9, <2>10 DEF KeysReached
<1>4. CASE QuietStep
  BY <1>4, QuietEffect DEF KeysReached
<1> QED BY <1>2, <1>3, <1>4, StepKinds

LEMMA KindsStep ==
    ASSUME TypeOK, Announced, KindsInOrder, Next
    PROVE  KindsInOrder'
<1>1. CASE \E r \in Readers : ReaderStep(r)
  <2>1. PICK r \in Readers : ReaderStep(r)
    BY <1>1
  <2>2. ASSUME NEW q \in Readers, reader'[q].pc \in KeyPc
        PROVE  reader'[q].kind = "allocation"
    BY <2>1, <2>2, CameToVersions, ReaderType DEF KindsInOrder, Kinds
  <2>3. ASSUME NEW q \in Readers, reader'[q].pc \in {"lookup", "query", "fill"}
        PROVE  reader'[q].kind = "allocation"
    BY <2>1, <2>3, CameFrom DEF KindsInOrder, HasKey, KeyPc
  <2> QED BY <2>2, <2>3 DEF KindsInOrder, HasKey
<1>2. CASE \E w \in unbumped : BumpVersion(w)
  BY <1>2, BumpEffect DEF KindsInOrder, HasKey
<1>3. CASE QuietStep
  BY <1>3, QuietEffect DEF KindsInOrder, HasKey
<1> QED BY <1>1, <1>2, <1>3, StepKinds


LEMMA SubjectsStep ==
    ASSUME TypeOK, Announced, KeysReached, SubjectsFresh, Next
    PROVE  SubjectsFresh'
<1>1. /\ db.ref \in Nat /\ acked.ref \in Nat /\ version.ref \in Nat /\ acked.ref <= db.ref
      /\ \A r \in Readers : /\ reader[r].floor.ref <= acked.ref /\ reader[r].floor.ref \in Nat
                            /\ reader[r].content.ref \in Nat
  BY VectorType, ReaderType DEF Announced, Scopes
<1>2. CASE \E r \in Readers : ReaderStep(r)
  <2>1. PICK r \in Readers : ReaderStep(r)
    BY <1>2
  <2>2. UNCHANGED <<acked, version, db>>
    BY <2>1, ReaderEffect DEF Writes
  <2>3. ASSUME NEW k, NEW n \in Nat,
               k = version.ref => n >= acked.ref,
               \A q \in Readers : reader[q].pc \in SubjectsPc /\ reader[q].key.ref = k
                  => n >= reader[q].floor.ref
        PROVE  \A q \in Readers : reader'[q].pc \in SubjectsPc /\ reader'[q].key.ref = k
                  => n >= reader'[q].floor.ref
    BY <2>1, <2>3, CameFrom
  <2>4. ASSUME NEW e \in subjects'
        PROVE  /\ e.key = version.ref => e.content >= acked.ref
               /\ \A q \in Readers : reader'[q].pc \in SubjectsPc /\ reader'[q].key.ref = e.key
                    => e.content >= reader'[q].floor.ref
    <3>1. CASE e \in subjects
      <4>1. /\ e.key = version.ref => e.content >= acked.ref
            /\ \A q \in Readers : reader[q].pc \in SubjectsPc /\ reader[q].key.ref = e.key
                 => e.content >= reader[q].floor.ref
        BY <3>1 DEF SubjectsFresh, AtSubjects
      <4>2. e.content \in Nat
        BY <3>1 DEF TypeOK
      <4> QED BY <2>3, <4>1, <4>2
    <3>2. CASE reader[r].pc = "subjects_fill"
               /\ e = [key |-> reader[r].key.ref, content |-> reader[r].content.ref]
      <4>1. e.key = reader[r].key.ref /\ e.content = reader[r].content.ref
        BY <3>2
      <4>2. /\ e.key = version.ref => e.content >= acked.ref
            /\ \A q \in Readers : reader[q].pc \in SubjectsPc /\ reader[q].key.ref = e.key
                 => e.content >= reader[q].floor.ref
        BY <3>2, <4>1 DEF SubjectsFresh, AtSubjects
      <4>3. e.content \in Nat
        BY <1>1, <4>1
      <4> QED BY <2>3, <4>2, <4>3
    <3> QED BY <2>1, <3>1, <3>2, ReaderEffect
  <2>5. ASSUME NEW p \in Readers, reader'[p].pc = "subjects_fill"
        PROVE  /\ reader'[p].key.ref = version.ref => reader'[p].content.ref >= acked.ref
               /\ \A q \in Readers :
                    reader'[q].pc \in SubjectsPc /\ reader'[q].key.ref = reader'[p].key.ref
                    => reader'[p].content.ref >= reader'[q].floor.ref
    <3>1. CASE reader'[p] = reader[p]
      <4>1. /\ reader[p].key.ref = version.ref => reader[p].content.ref >= acked.ref
            /\ \A q \in Readers : reader[q].pc \in SubjectsPc /\ reader[q].key.ref = reader[p].key.ref
                 => reader[p].content.ref >= reader[q].floor.ref
        BY <2>5, <3>1 DEF SubjectsFresh, AtSubjects
      <4>2. \A q \in Readers : reader'[q].pc \in SubjectsPc /\ reader'[q].key.ref = reader[p].key.ref
                 => reader[p].content.ref >= reader'[q].floor.ref
        BY <1>1, <2>3, <4>1
      <4> QED BY <3>1, <4>1, <4>2
    <3>2. CASE reader'[p].content.ref = db.ref
      <4>1. \A q \in Readers : reader'[q].pc \in SubjectsPc => db.ref >= reader'[q].floor.ref
        BY <1>1, <2>1, CameFrom
      <4> QED BY <1>1, <3>2, <4>1
    <3> QED BY <2>1, <2>5, <3>1, <3>2, CameFrom
  <2> QED BY <2>2, <2>4, <2>5 DEF SubjectsFresh, AtSubjects
<1>3. CASE \E w \in unbumped : BumpVersion(w)
  <2>1. PICK w \in unbumped : BumpVersion(w)
    BY <1>3
  <2>2. UNCHANGED <<subjects, reader>> /\ w.scope \in Scopes
    BY <2>1, BumpEffect
  <2>3. CASE w.scope = "ref"
    <3>1. version'.ref = version.ref + 1
      BY <2>1, <2>3, BumpEffect
    <3>2. \A e \in subjects : e.key \in Nat /\ e.key <= version.ref
      BY DEF TypeOK, KeysReached
    <3>3. \A q \in Readers : reader[q].key.ref \in Nat /\ reader[q].key.ref <= version.ref
      BY ReaderType DEF KeysReached, Scopes
    <3> QED BY <1>1, <2>2, <3>1, <3>2, <3>3 DEF SubjectsFresh, AtSubjects
  <2>4. CASE w.scope = "study"
    <3>1. version'.ref = version.ref /\ acked'.ref = acked.ref
      BY <2>1, <2>4, BumpEffect DEF Scopes
    <3> QED BY <2>2, <3>1 DEF SubjectsFresh, AtSubjects
  <2> QED BY <2>2, <2>3, <2>4 DEF Scopes
<1>4. CASE QuietStep
  <2>1. UNCHANGED <<reader, acked, version>> /\ subjects' \subseteq subjects
    BY <1>4, QuietEffect
  <2> QED BY <2>1 DEF SubjectsFresh, AtSubjects
<1> QED BY <1>2, <1>3, <1>4, StepKinds

LEMMA FoundStep ==
    ASSUME TypeOK, Announced, KindsInOrder, SubjectsFresh, SubjectsFound, Next
    PROVE  SubjectsFound'
<1>1. CASE \E r \in Readers : ReaderStep(r)
  <2>1. PICK r \in Readers : ReaderStep(r)
    BY <1>1
  <2>2. CASE SubjectsHit(r)
    <3>1. PICK e \in subjects :
             /\ e.key = reader[r].key.ref
             /\ Proceeds(r, "subjects_lookup", AfterSubjects(reader[r].kind, e.content))
             /\ reader'[r].key = reader[r].key /\ reader'[r].content.ref = e.content
      BY <2>2, SubjectsHitEffect
    <3>2. e.content >= reader[r].floor.ref /\ reader'[r].floor = reader[r].floor
      BY <3>1 DEF SubjectsFresh, AtSubjects, Proceeds, Goes, SubjectsPc
    <3> QED BY <3>1, <3>2 DEF SubjectsFound, Proceeds, Goes, OthersSame
  <2>3. CASE FillSubjects(r)
    <3>1. /\ reader[r].pc = "subjects_fill" /\ OthersSame(r)
          /\ reader'[r].content = reader[r].content /\ reader'[r].floor = reader[r].floor
      BY <2>3, FillSubjectsEffect DEF Proceeds, Goes
    <3>2. reader[r].content.ref >= reader[r].floor.ref
      BY <3>1 DEF SubjectsFresh, AtSubjects, SubjectsPc
    <3> QED BY <3>1, <3>2 DEF SubjectsFound, OthersSame
  <2>4. CASE AllocationHit(r) \/ FillAllocation(r)
    <3>1. /\ reader[r].pc \in {"lookup", "fill"} /\ OthersSame(r) /\ reader'[r].pc = "done"
          /\ reader'[r].kind = reader[r].kind
      BY <2>4, AllocationHitEffect, FillAllocationEffect DEF Proceeds, Goes
    <3>2. reader'[r].kind # "subjects"
      BY <3>1 DEF KindsInOrder, HasKey
    <3> QED BY <3>1, <3>2 DEF SubjectsFound, OthersSame, KeyPc
  <2>5. CASE ~SubjectsHit(r) /\ ~FillSubjects(r) /\ ~AllocationHit(r) /\ ~FillAllocation(r)
    <3>1. ASSUME NEW q \in Readers, reader'[q].pc \in KeyPc
          PROVE  reader'[q].content.ref >= reader'[q].floor.ref
      BY <2>1, <2>5, <3>1, CameToVersions DEF SubjectsFound
    <3>2. ASSUME NEW q \in Readers, reader'[q].pc = "done", reader'[q].kind = "subjects"
          PROVE  reader'[q].content.ref >= reader'[q].floor.ref
      BY <2>1, <2>5, <3>2, CameToVersions DEF SubjectsFound
    <3> QED BY <3>1, <3>2 DEF SubjectsFound
  <2> QED BY <2>2, <2>3, <2>4, <2>5
<1>2. CASE \E w \in unbumped : BumpVersion(w)
  BY <1>2, BumpEffect DEF SubjectsFound
<1>3. CASE QuietStep
  BY <1>3, QuietEffect DEF SubjectsFound
<1> QED BY <1>1, <1>2, <1>3, StepKinds

LEMMA BetweenStep ==
    ASSUME TypeOK, Announced, BetweenIsRaced, Next
    PROVE  BetweenIsRaced'
<1>1. CASE \E r \in Readers : ReaderStep(r)
  <2>1. PICK r \in Readers : ReaderStep(r)
    BY <1>1
  <2>2. UNCHANGED <<acked, version, raced>>
    BY <2>1, ReaderEffect DEF Writes
  <2>3. ASSUME NEW q \in Readers, reader'[q].kind = "allocation",
               reader'[q].pc \in SubjectsPc \cup KeyPc
        PROVE  version.ref \in raced \/ reader'[q].floor.ref = acked.ref
    <3>1. CASE q # r
      <4>1. reader'[q] = reader[q]
        BY <2>1, <3>1, ReaderEffect DEF OthersSame
      <4> QED BY <2>3, <4>1 DEF BetweenIsRaced, BetweenSubjectsAndKey
    <3>2. CASE q = r /\ Begin(r)
      BY <3>2, BeginEffect
    <3>3. CASE q = r /\ ~Begin(r)
      <4>1. /\ reader[r].pc \in SubjectsPc \cup KeyPc /\ reader'[r].kind = reader[r].kind
            /\ reader'[r].floor = reader[r].floor
        <5>1. CASE SubjectsHit(r)
          BY <5>1, SubjectsHitEffect DEF Proceeds, Goes, SubjectsPc
        <5>2. CASE SubjectsMiss(r) \/ QuerySubjects(r) \/ FillSubjects(r)
          BY <5>2, SubjectsMissEffect, QuerySubjectsEffect, FillSubjectsEffect
             DEF Proceeds, Goes, SubjectsPc
        <5>3. CASE StudyVersion(r)
          BY <5>3, StudyVersionEffect DEF Proceeds, Goes, KeyPc
        <5>4. reader'[r].pc \notin {"lookup", "query", "fill", "done", "idle"}
          BY <2>3, <3>3 DEF SubjectsPc, KeyPc
        <5> QED BY <2>1, <3>3, <5>1, <5>2, <5>3, <5>4, RefVersionEffect, AllocationHitEffect,
                   AllocationMissEffect, QueryTotalsEffect, FillAllocationEffect, ReturnEffect
                DEF ReaderStep, Proceeds, Goes
      <4> QED BY <2>3, <3>3, <4>1 DEF BetweenIsRaced, BetweenSubjectsAndKey
    <3> QED BY <3>1, <3>2, <3>3
  <2> QED BY <2>2, <2>3 DEF BetweenIsRaced, BetweenSubjectsAndKey
<1>2. CASE \E w \in unbumped : BumpVersion(w)
  <2>1. PICK w \in unbumped : BumpVersion(w)
    BY <1>2
  <2>2. /\ reader' = reader /\ w.scope \in Scopes
    BY <2>1, BumpEffect
  <2>3. CASE w.scope = "ref"
    <3>1. /\ version'.ref = version.ref + 1
          /\ (\E r \in Readers : BetweenSubjectsAndKey(r)) => version.ref + 1 \in raced'
      BY <2>1, <2>3, BumpEffect
    <3> QED BY <2>2, <3>1 DEF BetweenIsRaced, BetweenSubjectsAndKey
  <2>4. CASE w.scope = "study"
    <3>1. version'.ref = version.ref /\ acked'.ref = acked.ref /\ raced' = raced
      BY <2>1, <2>4, BumpEffect DEF Scopes
    <3> QED BY <2>2, <3>1 DEF BetweenIsRaced, BetweenSubjectsAndKey
  <2> QED BY <2>2, <2>3, <2>4 DEF Scopes
<1>3. CASE QuietStep
  BY <1>3, QuietEffect DEF BetweenIsRaced, BetweenSubjectsAndKey
<1> QED BY <1>1, <1>2, <1>3, StepKinds


LEMMA TotalsStep ==
    ASSUME TypeOK, Announced, KeysReached, TotalsFresh, Next
    PROVE  TotalsFresh'
<1>1. /\ db.study \in Nat /\ acked.study \in Nat /\ version.study \in Nat
      /\ acked.study <= db.study
      /\ \A r \in Readers : /\ reader[r].floor.study <= acked.study
                            /\ reader[r].floor.study \in Nat
                            /\ reader[r].content.study \in Nat
  BY VectorType, ReaderType DEF Announced, Scopes
<1>2. CASE \E r \in Readers : ReaderStep(r)
  <2>1. PICK r \in Readers : ReaderStep(r)
    BY <1>2
  <2>2. UNCHANGED <<acked, version, db>>
    BY <2>1, ReaderEffect DEF Writes
  <2>3. ASSUME NEW k, NEW n \in Nat,
               k = version.study => n >= acked.study,
               \A q \in Readers : HasStudy(q) /\ reader[q].key.study = k
                  => n >= reader[q].floor.study
        PROVE  \A q \in Readers :
                  reader'[q].pc \in {"ref_version", "lookup", "query", "fill"}
                  /\ reader'[q].key.study = k => n >= reader'[q].floor.study
    BY <1>1, <2>1, <2>3, CameFrom DEF HasStudy
  <2>4. ASSUME NEW e \in allocations'
        PROVE  /\ e.key.study = version.study => e.content.study >= acked.study
               /\ \A q \in Readers :
                    reader'[q].pc \in {"ref_version", "lookup", "query", "fill"}
                    /\ reader'[q].key.study = e.key.study
                    => e.content.study >= reader'[q].floor.study
    <3>1. CASE e \in allocations
      <4>1. /\ e.key.study = version.study => e.content.study >= acked.study
            /\ \A q \in Readers : HasStudy(q) /\ reader[q].key.study = e.key.study
                 => e.content.study >= reader[q].floor.study
        BY <3>1 DEF TotalsFresh
      <4>2. e.content.study \in Nat
        BY <3>1 DEF TypeOK, Vector
      <4> QED BY <2>3, <4>1, <4>2
    <3>2. CASE reader[r].pc = "fill" /\ e = [key |-> reader[r].key, content |-> reader[r].content]
      <4>1. e.key = reader[r].key /\ e.content = reader[r].content
        BY <3>2
      <4>2. /\ e.key.study = version.study => e.content.study >= acked.study
            /\ \A q \in Readers : HasStudy(q) /\ reader[q].key.study = e.key.study
                 => e.content.study >= reader[q].floor.study
        BY <3>2, <4>1 DEF TotalsFresh
      <4>3. e.content.study \in Nat
        BY <1>1, <4>1
      <4> QED BY <2>3, <4>2, <4>3
    <3> QED BY <2>1, <3>1, <3>2, ReaderEffect
  <2>5. ASSUME NEW p \in Readers, reader'[p].pc = "fill"
        PROVE  /\ reader'[p].key.study = version.study => reader'[p].content.study >= acked.study
               /\ \A q \in Readers :
                    reader'[q].pc \in {"ref_version", "lookup", "query", "fill"}
                    /\ reader'[q].key.study = reader'[p].key.study
                    => reader'[p].content.study >= reader'[q].floor.study
    <3>1. CASE reader'[p] = reader[p]
      <4>1. /\ reader[p].key.study = version.study => reader[p].content.study >= acked.study
            /\ \A q \in Readers : HasStudy(q) /\ reader[q].key.study = reader[p].key.study
                 => reader[p].content.study >= reader[q].floor.study
        BY <2>5, <3>1 DEF TotalsFresh
      <4>2. \A q \in Readers :
               reader'[q].pc \in {"ref_version", "lookup", "query", "fill"}
               /\ reader'[q].key.study = reader[p].key.study
               => reader[p].content.study >= reader'[q].floor.study
        BY <1>1, <2>3, <4>1
      <4> QED BY <3>1, <4>1, <4>2
    <3>2. CASE reader'[p].content.study = db.study
      <4>1. \A q \in Readers : reader'[q].pc \in {"ref_version", "lookup", "query", "fill"}
                 => db.study >= reader'[q].floor.study
        BY <1>1, <2>1, CameFrom
      <4> QED BY <1>1, <3>2, <4>1
    <3> QED BY <2>1, <2>5, <3>1, <3>2, CameFrom
  <2> QED BY <2>2, <2>4, <2>5 DEF TotalsFresh, HasStudy
<1>3. CASE \E w \in unbumped : BumpVersion(w)
  <2>1. PICK w \in unbumped : BumpVersion(w)
    BY <1>3
  <2>2. UNCHANGED <<allocations, reader>> /\ w.scope \in Scopes
    BY <2>1, BumpEffect
  <2>3. CASE w.scope = "study"
    <3>1. version'.study = version.study + 1
      BY <2>1, <2>3, BumpEffect
    <3>2. \A e \in allocations : e.key.study \in Nat /\ e.key.study <= version.study
      BY DEF TypeOK, KeysReached, Vector, Scopes
    <3>3. \A q \in Readers : reader[q].key.study \in Nat /\ reader[q].key.study <= version.study
      BY ReaderType DEF KeysReached, Scopes
    <3> QED BY <1>1, <2>2, <3>1, <3>2, <3>3 DEF TotalsFresh, HasStudy
  <2>4. CASE w.scope = "ref"
    <3>1. version'.study = version.study /\ acked'.study = acked.study
      BY <2>1, <2>4, BumpEffect DEF Scopes
    <3> QED BY <2>2, <3>1 DEF TotalsFresh, HasStudy
  <2> QED BY <2>2, <2>3, <2>4 DEF Scopes
<1>4. CASE QuietStep
  <2>1. UNCHANGED <<reader, acked, version>> /\ allocations' \subseteq allocations
    BY <1>4, QuietEffect
  <2> QED BY <2>1 DEF TotalsFresh, HasStudy
<1> QED BY <1>2, <1>3, <1>4, StepKinds

LEMMA AllocationsStep ==
    ASSUME TypeOK, Announced, KeysReached, KindsInOrder, SubjectsFound, BetweenIsRaced,
           AllocationsFresh, Next
    PROVE  AllocationsFresh'
<1>1. /\ acked.ref \in Nat /\ version.ref \in Nat
      /\ \A r \in Readers : /\ reader[r].floor.ref <= acked.ref /\ reader[r].floor.ref \in Nat
                            /\ reader[r].content.ref \in Nat
  BY VectorType, ReaderType DEF Announced, Scopes
<1>2. CASE \E r \in Readers : ReaderStep(r)
  <2>1. PICK r \in Readers : ReaderStep(r)
    BY <1>2
  <2>2. UNCHANGED <<acked, version, raced>>
    BY <2>1, ReaderEffect DEF Writes
  <2>3. ASSUME NEW q \in Readers, reader'[q].pc \in {"lookup", "query", "fill"}
        PROVE  /\ reader'[q].floor = reader[q].floor
               /\ reader'[q].content.ref = reader[q].content.ref
               /\ \/ HasKey(q) /\ reader'[q].key.ref = reader[q].key.ref
                  \/ reader[q].pc = "ref_version" /\ reader'[q].key.ref = version.ref
    BY <2>1, <2>3, CameFrom DEF HasKey
  <2>4. ASSUME NEW k, NEW n \in Nat,
               k = version.ref => n >= acked.ref,
               \A q \in Readers : HasKey(q) /\ reader[q].key.ref = k
                  => n >= reader[q].floor.ref
        PROVE  \A q \in Readers :
                  reader'[q].pc \in {"lookup", "query", "fill"} /\ reader'[q].key.ref = k
                  => n >= reader'[q].floor.ref
    BY <1>1, <2>3, <2>4
  <2>5. ASSUME NEW e \in allocations', e.key.ref \notin raced
        PROVE  /\ e.key.ref = version.ref => e.content.ref >= acked.ref
               /\ \A q \in Readers :
                    reader'[q].pc \in {"lookup", "query", "fill"}
                    /\ reader'[q].key.ref = e.key.ref
                    => e.content.ref >= reader'[q].floor.ref
    <3>1. CASE e \in allocations
      <4>1. /\ e.key.ref = version.ref => e.content.ref >= acked.ref
            /\ \A q \in Readers : HasKey(q) /\ reader[q].key.ref = e.key.ref
                 => e.content.ref >= reader[q].floor.ref
        BY <2>5, <3>1 DEF AllocationsFresh
      <4>2. e.content.ref \in Nat
        BY <3>1 DEF TypeOK, Vector
      <4> QED BY <2>4, <4>1, <4>2
    <3>2. CASE reader[r].pc = "fill" /\ e = [key |-> reader[r].key, content |-> reader[r].content]
      <4>1. e.key = reader[r].key /\ e.content = reader[r].content
        BY <3>2
      <4>2. /\ e.key.ref = version.ref => e.content.ref >= acked.ref
            /\ \A q \in Readers : HasKey(q) /\ reader[q].key.ref = e.key.ref
                 => e.content.ref >= reader[q].floor.ref
        BY <2>5, <3>2, <4>1 DEF AllocationsFresh, HasKey
      <4>3. e.content.ref \in Nat
        BY <1>1, <4>1
      <4> QED BY <2>4, <4>2, <4>3
    <3> QED BY <2>1, <3>1, <3>2, ReaderEffect
  <2>6. ASSUME NEW p \in Readers, reader'[p].pc \in {"lookup", "query", "fill"},
               reader'[p].key.ref \notin raced
        PROVE  /\ reader'[p].key.ref = version.ref => reader'[p].content.ref >= acked.ref
               /\ \A q \in Readers :
                    reader'[q].pc \in {"lookup", "query", "fill"}
                    /\ reader'[q].key.ref = reader'[p].key.ref
                    => reader'[p].content.ref >= reader'[q].floor.ref
    <3> DEFINE k == reader'[p].key.ref
               n == reader[p].content.ref
    <3>1. CASE HasKey(p) /\ k = reader[p].key.ref
      <4>1. /\ k = version.ref => n >= acked.ref
            /\ \A q \in Readers : HasKey(q) /\ reader[q].key.ref = k
                 => n >= reader[q].floor.ref
        BY <2>6, <3>1 DEF AllocationsFresh
      <4> QED BY <1>1, <2>3, <2>4, <2>6, <4>1
    <3>2. CASE reader[p].pc = "ref_version" /\ k = version.ref
      <4>1. reader[p].kind = "allocation" /\ n >= reader[p].floor.ref
        BY <3>2 DEF KindsInOrder, SubjectsFound, KeyPc
      <4>2. reader[p].floor.ref = acked.ref
        BY <2>6, <3>2, <4>1 DEF BetweenIsRaced, BetweenSubjectsAndKey, KeyPc
      <4>3. \A q \in Readers : n >= reader[q].floor.ref
        BY <1>1, <4>1, <4>2
      <4> QED BY <2>3, <2>6, <4>1, <4>2, <4>3
    <3> QED BY <2>3, <2>6, <3>1, <3>2
  <2> QED BY <2>2, <2>5, <2>6 DEF AllocationsFresh, HasKey
<1>3. CASE \E w \in unbumped : BumpVersion(w)
  <2>1. PICK w \in unbumped : BumpVersion(w)
    BY <1>3
  <2>2. UNCHANGED <<allocations, reader>> /\ w.scope \in Scopes /\ raced \subseteq raced'
    BY <2>1, BumpEffect
  <2>3. CASE w.scope = "ref"
    <3>1. version'.ref = version.ref + 1
      BY <2>1, <2>3, BumpEffect
    <3>2. \A e \in allocations : e.key.ref \in Nat /\ e.key.ref <= version.ref
      BY DEF TypeOK, KeysReached, Vector, Scopes
    <3>3. \A q \in Readers : reader[q].key.ref \in Nat /\ reader[q].key.ref <= version.ref
      BY ReaderType DEF KeysReached, Scopes
    <3> QED BY <1>1, <2>2, <3>1, <3>2, <3>3 DEF AllocationsFresh, HasKey
  <2>4. CASE w.scope = "study"
    <3>1. version'.ref = version.ref /\ acked'.ref = acked.ref
      BY <2>1, <2>4, BumpEffect DEF Scopes
    <3> QED BY <2>2, <3>1 DEF AllocationsFresh, HasKey
  <2> QED BY <2>2, <2>3, <2>4 DEF Scopes
<1>4. CASE QuietStep
  <2>1. UNCHANGED <<reader, acked, version, raced>> /\ allocations' \subseteq allocations
    BY <1>4, QuietEffect
  <2> QED BY <2>1 DEF AllocationsFresh, HasKey
<1> QED BY <1>2, <1>3, <1>4, StepKinds

LEMMA StaleStep ==
    ASSUME TypeOK, Announced, KindsInOrder, SubjectsFound, SubjectsFound', TotalsFresh,
           AllocationsFresh, StaleOnlyWhereRaced, Next
    PROVE  StaleOnlyWhereRaced'
<1>1. \A q \in Readers : reader'[q].pc = "done" /\ reader'[q].kind = "subjects"
         => reader'[q].content.ref >= reader'[q].floor.ref
  BY DEF SubjectsFound
<1>2. CASE \E r \in Readers : ReaderStep(r)
  <2>1. PICK r \in Readers : ReaderStep(r)
    BY <1>2
  <2>2. raced' = raced
    BY <2>1, ReaderEffect DEF Writes
  <2>3. ASSUME NEW q \in Readers, reader'[q].pc = "done", reader'[q].kind = "allocation",
               reader'[q].content.ref > 0
        PROVE  /\ reader'[q].content.study >= reader'[q].floor.study
               /\ reader'[q].key.ref \notin raced => reader'[q].content.ref >= reader'[q].floor.ref
    <3>1. CASE reader'[q] = reader[q]
      BY <2>3, <3>1 DEF StaleOnlyWhereRaced, Allocated
    <3>2. CASE q = r /\ SubjectsHit(r)
      <4>1. PICK e \in subjects :
               /\ Proceeds(r, "subjects_lookup", AfterSubjects(reader[r].kind, e.content))
               /\ reader'[r].content.ref = e.content
        BY <3>2, SubjectsHitEffect
      <4>2. AfterSubjects(reader[r].kind, e.content) = "done" /\ reader[r].kind = "allocation"
        BY <2>3, <3>2, <4>1 DEF Proceeds, Goes
      <4>3. e.content = 0
        BY <4>2, AfterSubjectsPc
      <4> QED BY <2>3, <3>2, <4>1, <4>3
    <3>3. CASE q = r /\ FillSubjects(r)
      <4>1. /\ Proceeds(r, "subjects_fill", AfterSubjects(reader[r].kind, reader[r].content.ref))
            /\ reader'[r].content = reader[r].content
        BY <3>3, FillSubjectsEffect
      <4>2. /\ AfterSubjects(reader[r].kind, reader[r].content.ref) = "done"
            /\ reader[r].kind = "allocation"
        BY <2>3, <3>3, <4>1 DEF Proceeds, Goes
      <4>3. reader[r].content.ref = 0
        BY <4>2, AfterSubjectsPc
      <4> QED BY <2>3, <3>3, <4>1, <4>3
    <3>4. CASE q = r /\ AllocationHit(r)
      <4>1. PICK e \in allocations :
               /\ e.key = reader[r].key
               /\ reader'[r].key = reader[r].key /\ reader'[r].content = e.content
        BY <3>4, AllocationHitEffect
      <4>2. reader[r].pc = "lookup" /\ reader'[r].floor = reader[r].floor
        BY <3>4, AllocationHitEffect DEF Proceeds, Goes
      <4>3. e.content.study >= reader[r].floor.study
        BY <4>1, <4>2 DEF TotalsFresh, HasStudy
      <4>4. e.key.ref \notin raced => e.content.ref >= reader[r].floor.ref
        BY <4>1, <4>2 DEF AllocationsFresh, HasKey
      <4> QED BY <3>4, <4>1, <4>2, <4>3, <4>4
    <3>5. CASE q = r /\ FillAllocation(r)
      <4>1. /\ reader'[r].key = reader[r].key /\ reader'[r].content = reader[r].content
            /\ reader[r].pc = "fill" /\ reader'[r].floor = reader[r].floor
        BY <3>5, FillAllocationEffect DEF Proceeds, Goes
      <4>2. reader[r].content.study >= reader[r].floor.study
        BY <4>1 DEF TotalsFresh, HasStudy
      <4>3. reader[r].key.ref \notin raced => reader[r].content.ref >= reader[r].floor.ref
        BY <4>1 DEF AllocationsFresh, HasKey
      <4> QED BY <3>5, <4>1, <4>2, <4>3
    <3> QED BY <2>1, <2>3, <3>1, <3>2, <3>3, <3>4, <3>5, CameToVersions
  <2> QED BY <1>1, <2>2, <2>3 DEF StaleOnlyWhereRaced, Allocated
<1>3. CASE \E w \in unbumped : BumpVersion(w)
  <2>1. reader' = reader /\ raced \subseteq raced'
    BY <1>3, BumpEffect
  <2> QED BY <2>1 DEF StaleOnlyWhereRaced, Allocated
<1>4. CASE QuietStep
  <2>1. reader' = reader /\ raced' = raced
    BY <1>4, QuietEffect
  <2> QED BY <2>1 DEF StaleOnlyWhereRaced, Allocated
<1> QED BY <1>2, <1>3, <1>4, StepKinds

LEMMA TagsStep ==
    ASSUME TypeOK, Announced, TagsChecked, Next
    PROVE  TagsChecked'
<1>1. CASE \E r \in Readers : ReaderStep(r)
  BY <1>1, ReaderEffect DEF TagsChecked, Writes
<1>2. CASE \E w \in unbumped : BumpVersion(w)
  BY <1>2, BumpEffect DEF TagsChecked
<1>3. CASE QuietStep
  BY <1>3 DEF TagsChecked, QuietStep, CommitUntagged, CheckSubject, Known, CommitTagged,
              CrashWriter, ExpireSubjects, ExpireAllocation, ReadsDb
<1> QED BY <1>1, <1>2, <1>3, StepKinds

-----------------------------------------------------------------------------
(* The theorems.                                                           *)

LEMMA InitIInv == Init => IInv
<1> SUFFICES ASSUME Init PROVE IInv
  OBVIOUS
<1>1. /\ IdleReader \in ReaderRecord /\ IdleReader.pc = "idle" /\ IdleReader.key = Zero
      /\ IdleReader.floor = Zero
  BY PcTypes, ZeroVector DEF IdleReader, ReaderRecord, Kinds
<1>2. Seeded \in Vector
  BY AllocationAssumption DEF Seeded, Vector
<1> HIDE DEF IdleReader
<1>3. /\ reader \in [Readers -> ReaderRecord]
      /\ \A r \in Readers : reader[r].pc = "idle" /\ reader[r].key = Zero /\ reader[r].floor = Zero
      /\ db = Seeded /\ acked = Seeded /\ version = Seeded /\ subjects = {} /\ allocations = {}
      /\ checked = None /\ tagged = {} /\ unbumped = {} /\ raced = {}
  BY <1>1 DEF Init
<1>4. \A s \in Scopes : Zero[s] <= Seeded[s] /\ Seeded[s] \in Nat /\ Seeded[s] <= Seeded[s]
  BY <1>2, ZeroVector DEF Vector, Scopes
<1>5. TypeOK
  BY <1>2, <1>3 DEF TypeOK, ReaderRecord
<1>6. Announced /\ KeysReached
  BY <1>3, <1>4 DEF Announced, KeysReached
<1>7. \A r \in Readers : /\ reader[r].pc \notin SubjectsPc \cup KeyPc
                         /\ reader[r].pc \notin {"lookup", "query", "fill", "done"}
  BY <1>3 DEF SubjectsPc, KeyPc
<1>8. KindsInOrder /\ SubjectsFound /\ BetweenIsRaced
  BY <1>7 DEF KindsInOrder, HasKey, SubjectsFound, BetweenIsRaced, BetweenSubjectsAndKey
<1>9. SubjectsFresh
  BY <1>3 DEF SubjectsFresh
<1>10. TotalsFresh
  BY <1>3, <1>7 DEF TotalsFresh
<1>11. AllocationsFresh
  BY <1>3, <1>7 DEF AllocationsFresh, HasKey
<1>12. StaleOnlyWhereRaced /\ TagsChecked
  BY <1>3, <1>7 DEF StaleOnlyWhereRaced, Allocated, TagsChecked
<1> QED BY <1>5, <1>6, <1>8, <1>9, <1>10, <1>11, <1>12 DEF IInv

LEMMA StutterIInv ==
    ASSUME IInv, UNCHANGED vars
    PROVE  IInv'
<1>1. UNCHANGED <<db, acked, version, subjects, allocations, reader, checked, tagged,
                  unbumped, raced>>
  BY DEF vars
<1>2. TypeOK' /\ Announced' /\ KeysReached' /\ KindsInOrder'
  BY <1>1 DEF IInv, TypeOK, Announced, KeysReached, KindsInOrder, HasKey
<1>3. SubjectsFresh' /\ SubjectsFound' /\ BetweenIsRaced'
  BY <1>1 DEF IInv, SubjectsFresh, AtSubjects, SubjectsFound, BetweenIsRaced,
              BetweenSubjectsAndKey
<1>4. TotalsFresh' /\ AllocationsFresh'
  BY <1>1 DEF IInv, TotalsFresh, HasStudy, AllocationsFresh, HasKey
<1>5. StaleOnlyWhereRaced' /\ TagsChecked'
  BY <1>1 DEF IInv, StaleOnlyWhereRaced, Allocated, TagsChecked
<1> QED BY <1>2, <1>3, <1>4, <1>5 DEF IInv

LEMMA NextIInv == IInv /\ [Next]_vars => IInv'
<1> SUFFICES ASSUME IInv, [Next]_vars PROVE IInv'
  OBVIOUS
<1>1. CASE Next
  <2>1. TypeOK' /\ Announced' /\ KeysReached' /\ KindsInOrder'
    BY <1>1, TypeStep, AnnouncedStep, KeysStep, KindsStep DEF IInv
  <2>2. SubjectsFresh' /\ SubjectsFound' /\ BetweenIsRaced'
    BY <1>1, SubjectsStep, FoundStep, BetweenStep DEF IInv
  <2>3. TotalsFresh' /\ AllocationsFresh' /\ TagsChecked'
    BY <1>1, TotalsStep, AllocationsStep, TagsStep DEF IInv
  <2>4. StaleOnlyWhereRaced'
    BY <1>1, <2>2, StaleStep DEF IInv
  <2> QED BY <2>1, <2>2, <2>3, <2>4 DEF IInv
<1> QED BY <1>1, StutterIInv

LEMMA Inductive == Spec => []IInv
BY InitIInv, NextIInv, PTL DEF Spec

\* The counters, the entries and the requests of the two endpoints keep their types
\* (exam_prep_service.py:86 and :167), whatever faults occur.
THEOREM ExamTypeOK == Spec => []TypeOK
<1>1. IInv => TypeOK
  BY DEF IInv
<1> QED BY <1>1, Inductive, PTL

\* What was announced before a request is in its answer, although an allocation reads
\* its subjects before its versions (exam_prep_service.py:176): a list has the
\* subjects of every announced seed, an allocation all announced time, and the
\* subjects too unless its ref version was raced.
THEOREM ExamFreshUnlessRaced == Spec => []StaleOnlyWhereRaced
<1>1. IInv => StaleOnlyWhereRaced
  BY DEF IInv
<1> QED BY <1>1, Inductive, PTL

\* An allocation leaves out the announced time of a tagged session only if a later seed
\* retired its subject, or its ref version was raced (exam_prep_service.py:108).
THEOREM ExamTaggedTime == Spec => []TaggedTimeReported
<1>1. IInv => TaggedTimeReported
  <2> SUFFICES ASSUME IInv, NEW r \in Readers, NEW t \in tagged,
                      Allocated(r), reader[r].content.ref \notin ActiveAfter,
                      reader[r].key.ref \notin raced, t.seed <= reader[r].floor.ref
               PROVE  reader[r].content.ref > t.seed
    BY DEF TaggedTimeReported
  <2>1. reader[r].content.ref >= reader[r].floor.ref
    BY DEF IInv, StaleOnlyWhereRaced
  <2>2. t.seed # reader[r].content.ref
    BY DEF IInv, TagsChecked
  <2>3. t.seed \in Nat /\ reader[r].content.ref \in Nat /\ reader[r].floor.ref \in Nat
    BY ReaderType DEF IInv, TypeOK, Scopes
  <2> QED BY <2>1, <2>2, <2>3
<1> QED BY <1>1, Inductive, PTL
=============================================================================
