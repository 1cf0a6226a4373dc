-------------------------- MODULE MCLoginAdmission --------------------------
(* Small instances of LoginAdmission for TLC. *)
EXTENDS LoginAdmission, TLC

\* Clients and requests are interchangeable; of the emails, unknown ones are not
\* told apart from each other.
Symmetry == Permutations(Clients) \cup Permutations(Logins)
=============================================================================
