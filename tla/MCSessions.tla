----------------------------- MODULE MCSessions -----------------------------
(* Small instances of Sessions for TLC. *)
EXTENDS Sessions, TLC

\* Devices and requests are interchangeable.
Symmetry == Permutations(Devices) \cup Permutations(Requests)
=============================================================================
