---------------------------- MODULE MCFocusTimer ----------------------------
(* Small instances of FocusTimer for TLC. *)
EXTENDS FocusTimer, TLC

CONSTANTS t1, t2

\* Every countdown starts with one second.
OneSecond == [mode \in Modes |-> 1]

\* No property is temporal, so the tabs can be exchanged.
TabSymmetry == Permutations(Tabs)
=============================================================================
