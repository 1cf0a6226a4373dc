--------------------------- MODULE ExamAllocation ---------------------------
(***************************************************************************)
(* GET /exam-prep/subjects and GET /exam-prep/allocation of one student    *)
(* (list_subjects and get_subject_allocation of                            *)
(* backend/app/services/exam_prep_service.py) while study sessions are     *)
(* logged and scripts/seed_exam_config.py reseeds the track.               *)
(*                                                                         *)
(* An allocation is computed from two scopes, and not with the plain       *)
(* protocol of VersionedCache: the subjects are read (through their own    *)
(* cache) before the versions of the allocation's key are.  A scope is     *)
(* represented by the number of commits it has seen; reference data that   *)
(* was never seeded is number 0 and has no subjects.                       *)
(*                                                                         *)
(* Faults may contain "get" (a failed GET reads as a miss), "set" (a       *)
(* failed SET is dropped) and "crash" (a writer dies before its INCR);     *)
(* VersionedCache has the faults that break the versions themselves.       *)
(***************************************************************************)
EXTENDS Naturals

CONSTANTS
    None,
    Readers,      \* concurrent reading requests
    InitialSeeds, \* how often the track was seeded before (0: no subjects yet)
    ActiveAfter,  \* the seeds that leave the subject of the tagged sessions active
    StudyBound,   \* bound: study sessions logged in a behaviour
    SeedBound,    \* bound: runs of the seed script, the initial ones included
    Faults        \* the faults a behaviour may contain

ASSUME AllocationAssumption ==
    /\ ActiveAfter \subseteq Nat \ {0} /\ None \notin Nat
    /\ InitialSeeds \in Nat /\ StudyBound \in Nat /\ SeedBound \in Nat
    /\ Faults \subseteq {"get", "set", "crash"}

VARIABLES
    db,          \* commits of each scope so far
    acked,       \* history: newest commit of each scope whose writer returned
    version,     \* the version counters in Redis
    subjects,    \* cached subject lists: records [key, content] of ref numbers
    allocations, \* cached allocations: records [key, content] of vectors
    reader,      \* [Readers -> progress of the reading request]
    checked,     \* the seed at which a session's subject was found; it is inserted next
    tagged,      \* tagged sessions: records [commit, seed] with the seed of the check
    unbumped,    \* writes committed and not yet bumped: records [scope, commit]
    raced        \* history: ref versions created while an allocation was between
                 \* its subjects and its ref version

vars == <<db, acked, version, subjects, allocations, reader, checked, tagged, unbumped, raced>>

Scopes == {"study", "ref"}
Vector == [study : Nat, ref : Nat]
Zero   == [study |-> 0, ref |-> 0]

\* The track as the earlier runs of the seed script left it.
Seeded == [study |-> 0, ref |-> InitialSeeds]

Kinds == {"subjects", "allocation"}

SubjectsPc == {"subjects_lookup", "subjects_query", "subjects_fill"}
KeyPc == {"study_version", "ref_version"}
ReaderPc == {"idle", "lookup", "query", "fill", "done"} \cup SubjectsPc \cup KeyPc

IdleReader == [pc |-> "idle", kind |-> "subjects", key |-> Zero, content |-> Zero,
               floor |-> Zero]

TypeOK ==
    /\ db \in Vector /\ acked \in Vector /\ version \in Vector
    /\ subjects \subseteq [key : Nat, content : Nat]
    /\ allocations \subseteq [key : Vector, content : Vector]
    /\ reader \in [Readers -> [pc : ReaderPc, kind : Kinds, key : Vector,
                               content : Vector, floor : Vector]]
    /\ checked \in Nat \cup {None}
    /\ tagged \subseteq [commit : Nat, seed : Nat]
    /\ unbumped \subseteq [scope : Scopes, commit : Nat]
    /\ raced \subseteq Nat

Init ==
    /\ db = Seeded /\ acked = Seeded /\ version = Seeded
    /\ subjects = {} /\ allocations = {}
    /\ reader = [r \in Readers |-> IdleReader]
    /\ checked = None /\ tagged = {}
    /\ unbumped = {}
    /\ raced = {}

\* Request r goes from one await to the next with these fields changed.
Step(r, from, new) ==
    /\ reader[r].pc = from
    /\ reader' = [reader EXCEPT ![r] = new]

\* What SET leaves of a set of entries: the key is replaced, or the SET fails.
AfterSet(entries, k, c) ==
    {{e \in entries : e.key # k} \cup {[key |-> k, content |-> c]}}
        \cup (IF "set" \in Faults THEN {entries} ELSE {})

ReadsDb == UNCHANGED <<db, acked, version, checked, tagged, unbumped, raced>>

-----------------------------------------------------------------------------
(* list_subjects, alone or as the first line of get_subject_allocation.    *)

\* A request arrives: version = await get_version(EXAM_REF_SCOPE, track)
Begin(r) ==
    /\ \E kind \in Kinds :
          Step(r, "idle", [pc |-> "subjects_lookup", kind |-> kind, content |-> Zero,
                           key |-> [Zero EXCEPT !.ref = version.ref], floor |-> acked])
    /\ ReadsDb /\ UNCHANGED <<subjects, allocations>>

\* Where a request goes with its list of subjects: an allocation without
\* subjects is the empty list.
AfterSubjects(kind, content) ==
    IF kind = "subjects" \/ content = 0 THEN "done" ELSE "study_version"

SubjectsHit(r) ==
    /\ \E e \in subjects :
          /\ e.key = reader[r].key.ref
          /\ Step(r, "subjects_lookup",
                  [reader[r] EXCEPT !.pc = AfterSubjects(reader[r].kind, e.content),
                                    !.content.ref = e.content])
    /\ ReadsDb /\ UNCHANGED <<subjects, allocations>>

SubjectsMiss(r) ==
    /\ \/ \A e \in subjects : e.key # reader[r].key.ref
       \/ "get" \in Faults
    /\ Step(r, "subjects_lookup", [reader[r] EXCEPT !.pc = "subjects_query"])
    /\ ReadsDb /\ UNCHANGED <<subjects, allocations>>

QuerySubjects(r) ==
    /\ Step(r, "subjects_query", [reader[r] EXCEPT !.pc = "subjects_fill",
                                                   !.content.ref = db.ref])
    /\ ReadsDb /\ UNCHANGED <<subjects, allocations>>

FillSubjects(r) ==
    LET me == reader[r]
    IN  /\ Step(r, "subjects_fill",
                [me EXCEPT !.pc = AfterSubjects(me.kind, me.content.ref)])
        /\ subjects' \in AfterSet(subjects, me.key.ref, me.content.ref)
        /\ ReadsDb /\ UNCHANGED allocations

-----------------------------------------------------------------------------
(* The rest of get_subject_allocation: the versions of its key are read    *)
(* one after the other, and only now.                                      *)

StudyVersion(r) ==
    /\ Step(r, "study_version", [reader[r] EXCEPT !.pc = "ref_version",
                                                  !.key.study = version.study])
    /\ ReadsDb /\ UNCHANGED <<subjects, allocations>>

\* Mutant: the key leaves out the ref version.
RefVersionIgnored(r) ==
    /\ Step(r, "ref_version", [reader[r] EXCEPT !.pc = "lookup", !.key.ref = 0])
    /\ ReadsDb /\ UNCHANGED <<subjects, allocations>>

RefVersion(r) ==
    /\ Step(r, "ref_version", [reader[r] EXCEPT !.pc = "lookup",
                                                !.key.ref = version.ref])
    /\ ReadsDb /\ UNCHANGED <<subjects, allocations>>

AllocationHit(r) ==
    /\ \E e \in allocations :
          /\ e.key = reader[r].key
          /\ Step(r, "lookup", [reader[r] EXCEPT !.pc = "done", !.content = e.content])
    /\ ReadsDb /\ UNCHANGED <<subjects, allocations>>

AllocationMiss(r) ==
    /\ \/ \A e \in allocations : e.key # reader[r].key
       \/ "get" \in Faults
    /\ Step(r, "lookup", [reader[r] EXCEPT !.pc = "query"])
    /\ ReadsDb /\ UNCHANGED <<subjects, allocations>>

\* The totals are new, the subjects are the ones read at the start.
QueryTotals(r) ==
    /\ Step(r, "query", [reader[r] EXCEPT !.pc = "fill", !.content.study = db.study])
    /\ ReadsDb /\ UNCHANGED <<subjects, allocations>>

FillAllocation(r) ==
    /\ Step(r, "fill", [reader[r] EXCEPT !.pc = "done"])
    /\ allocations' \in AfterSet(allocations, reader[r].key, reader[r].content)
    /\ ReadsDb /\ UNCHANGED subjects

Return(r) ==
    /\ Step(r, "done", IdleReader)
    /\ ReadsDb /\ UNCHANGED <<subjects, allocations>>

-----------------------------------------------------------------------------
(* The writers: log_study_session (scope study) and the seed script (ref). *)

Bound == [study |-> StudyBound, ref |-> SeedBound]

Commit(s) ==
    /\ db[s] < Bound[s]
    /\ db' = [db EXCEPT ![s] = @ + 1]
    /\ unbumped' = unbumped \cup {[scope |-> s, commit |-> db[s] + 1]}
    /\ UNCHANGED <<acked, version, subjects, allocations, reader, raced>>

\* A seed, or a session without a subject.
CommitUntagged(s) == Commit(s) /\ UNCHANGED <<checked, tagged>>

\* Mutant: a subject that was deactivated will do.
KnownAny(seed) == \E n \in ActiveAfter : n <= seed

\* The query for the subject among the active ones of the track.
Known(seed) == seed \in ActiveAfter

\* log_study_session checks the subject, or answers 404.
CheckSubject ==
    /\ checked = None /\ db.study < StudyBound
    /\ Known(db.ref)
    /\ checked' = db.ref
    /\ UNCHANGED <<db, acked, version, subjects, allocations, reader, tagged, unbumped, raced>>

\* Then it inserts the session.
CommitTagged ==
    /\ checked # None
    /\ Commit("study")
    /\ tagged' = tagged \cup {[commit |-> db.study + 1, seed |-> checked]}
    /\ checked' = None

\* An allocation has begun to read the subjects and not yet the ref version.
BetweenSubjectsAndKey(r) ==
    /\ reader[r].kind = "allocation"
    /\ reader[r].pc \in SubjectsPc \cup KeyPc

\* Mutant: DECR in place of INCR.
DecrementVersion(w) ==
    /\ w \in unbumped
    /\ version' = [version EXCEPT ![w.scope] = @ - 1]
    /\ unbumped' = unbumped \ {w}
    /\ UNCHANGED <<db, acked, subjects, allocations, reader, checked, tagged, raced>>

BumpVersion(w) ==
    /\ w \in unbumped
    /\ version' = [version EXCEPT ![w.scope] = @ + 1]
    /\ acked' = [acked EXCEPT ![w.scope] = IF @ > w.commit THEN @ ELSE w.commit]
    /\ unbumped' = unbumped \ {w}
    /\ raced' = IF w.scope = "ref" /\ \E r \in Readers : BetweenSubjectsAndKey(r)
                THEN raced \cup {version.ref + 1} ELSE raced
    /\ UNCHANGED <<db, subjects, allocations, reader, checked, tagged>>

CrashWriter(w) ==
    /\ "crash" \in Faults
    /\ w \in unbumped
    /\ unbumped' = unbumped \ {w}
    /\ UNCHANGED <<db, acked, version, subjects, allocations, reader, checked, tagged, raced>>

\* The TTL of an entry runs out.
ExpireSubjects(k) ==
    /\ \E e \in subjects : e.key = k /\ subjects' = subjects \ {e}
    /\ ReadsDb /\ UNCHANGED <<allocations, reader>>

ExpireAllocation(k) ==
    /\ \E e \in allocations : e.key = k /\ allocations' = allocations \ {e}
    /\ ReadsDb /\ UNCHANGED <<subjects, reader>>

ReaderStep(r) ==
    \/ Begin(r) \/ SubjectsHit(r) \/ SubjectsMiss(r) \/ QuerySubjects(r)
    \/ FillSubjects(r) \/ StudyVersion(r) \/ RefVersion(r) \/ AllocationHit(r)
    \/ AllocationMiss(r) \/ QueryTotals(r) \/ FillAllocation(r) \/ Return(r)

Next ==
    \/ \E r \in Readers : ReaderStep(r)
    \/ \E s \in Scopes : CommitUntagged(s)
    \/ CheckSubject \/ CommitTagged
    \/ \E w \in unbumped : BumpVersion(w) \/ CrashWriter(w)
    \/ \E e \in subjects : ExpireSubjects(e.key)
    \/ \E e \in allocations : ExpireAllocation(e.key)

Spec == Init /\ [][Next]_vars

-----------------------------------------------------------------------------
(* Properties.                                                             *)

Allocated(r) ==
    reader[r].pc = "done" /\ reader[r].kind = "allocation" /\ reader[r].content.ref > 0

\* What was announced before a request is in its answer: the subjects of a seed in a
\* list, although allocations fill the same entries, and logged time in an
\* allocation, whatever the reference data does (test_cache.py:1).  The seed script
\* drops the cached copies "so the API serves the new ones now"
\* (seed_exam_config.py:76): allocations use them too, except under a ref version
\* that was created while some allocation had read the subjects and not yet the
\* version.
StaleOnlyWhereRaced ==
    \A r \in Readers :
        LET got   == reader[r].content
            floor == reader[r].floor
        IN  /\ reader[r].pc = "done" /\ reader[r].kind = "subjects" => got.ref >= floor.ref
            /\ Allocated(r) => got.study >= floor.study
            /\ Allocated(r) /\ reader[r].key.ref \notin raced => got.ref >= floor.ref

\* "otherwise the time would be accepted and then silently dropped from their
\* allocation report" (exam_prep_service.py:108): an allocation leaves out the time
\* of a tagged session that was answered before only if a later seed retired the
\* subject, or its key was raced; the reseed of the check has been announced.
TaggedTimeReported ==
    \A r \in Readers, t \in tagged :
        /\ Allocated(r) /\ reader[r].content.ref \notin ActiveAfter
        /\ reader[r].key.ref \notin raced
        /\ t.commit <= reader[r].floor.study /\ t.seed <= reader[r].floor.ref
        => reader[r].content.ref > t.seed
=============================================================================
