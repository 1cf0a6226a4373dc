--------------------------- MODULE MCClientSession ---------------------------
(* Small instances of ClientSession for TLC.                               *)
EXTENDS ClientSession, TLC

\* The student mode is left or taken up again, the track is dropped.
SomeChanges == {[student |-> TRUE, track |-> None], [student |-> FALSE, track |-> None],
                [student |-> None, track |-> FALSE]}

\* Users and requests are interchangeable.
Symmetry == Permutations(Users) \cup Permutations(Calls)
=============================================================================
