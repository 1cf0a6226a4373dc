-------------------------- MODULE MCTaskReminders ---------------------------
(* Small instances of TaskReminders for TLC. *)
EXTENDS TaskReminders, TLC

\* Tasks, editors and workers are interchangeable.
Symmetry == Permutations(Tasks) \cup Permutations(Editors) \cup Permutations(Workers)
=============================================================================
