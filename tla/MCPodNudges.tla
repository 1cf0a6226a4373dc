---------------------------- MODULE MCPodNudges -----------------------------
(* Small instances of PodNudges for TLC. *)
EXTENDS PodNudges, TLC

CONSTANTS p1, u1, u2, d1, d2

\* The second user has two devices, so a round about the first can fail in part;
\* a round about the second reaches nobody and counts as a success.
DevicesOfPair == (u1 :> {}) @@ (u2 :> {d1, d2})

\* Both are in the pod from the start.
FoundersPair == {p1} \X {u1, u2}
=============================================================================
