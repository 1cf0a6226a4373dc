------------------------ MODULE MCPushSubscriptions -------------------------
(* Small instances of PushSubscriptions for TLC. *)
EXTENDS PushSubscriptions, TLC

CONSTANTS u1, u2, e1, e2

\* A user with two browsers.
TwoBrowsers == {[id |-> 1, owner |-> u1, endpoint |-> e1, keys |-> 0],
                [id |-> 2, owner |-> u1, endpoint |-> e2, keys |-> 0]}

\* The other user sits down at the first of them.
SharedBrowser == {<<u1, e1>>, <<u2, e1>>}

\* One run of the nudge job beside two of the due-task job.
Runs == [due |-> 2, nudge |-> 1]

\* Requests are interchangeable.
Symmetry == Permutations(Requests)
=============================================================================
