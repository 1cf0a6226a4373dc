-------------------------- MODULE MCExamAllocation --------------------------
(* Small instances of ExamAllocation for TLC. *)
EXTENDS ExamAllocation, TLC

\* The readers are interchangeable: Init, Next and the invariants never name one.
ReaderSymmetry == Permutations(Readers)
=============================================================================
