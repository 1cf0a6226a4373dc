----------------------------- MODULE FreshReads -----------------------------
(***************************************************************************)
(* What the cached endpoints promise, with no cache in sight: a read that  *)
(* starts after a write was answered reflects that write.  The first line  *)
(* of backend/tests/test_cache.py says it so: "every read that's cached    *)
(* must reflect a write made right after it".                              *)
(*                                                                         *)
(* The data behind one endpoint is a vector of scopes (tasks, notes,       *)
(* study, exam_ref).  Each scope is represented by the number of commits   *)
(* it has seen, so "reflects the write" is "at least its number".  A read  *)
(* may or may not reflect the writes that overlap it: every scope behaves  *)
(* like a regular register.                                                *)
(***************************************************************************)
EXTENDS Naturals

CONSTANTS
    Scopes,   \* the scopes an endpoint's answer depends on
    Readers   \* concurrent requests that read

VARIABLES
    db,     \* commits of each scope so far
    acked,  \* the newest commit of each scope whose writer has been answered
    read    \* [Readers -> what the request is doing]

vars == <<db, acked, read>>

Zero   == [s \in Scopes |-> 0]

\* v reflects everything that u reflects.
Covers(v, u) == \A s \in Scopes : v[s] >= u[s]

Idle == [pc |-> "idle", floor |-> Zero, answer |-> Zero]

Init ==
    /\ db = Zero
    /\ acked = Zero
    /\ read = [r \in Readers |-> Idle]

\* A write reaches the database; its request is not answered yet.
Commit(s) ==
    /\ db' = [db EXCEPT ![s] = @ + 1]
    /\ UNCHANGED <<acked, read>>

\* The request of a committed write is answered.
Ack(s) ==
    /\ \E n \in acked[s] .. db[s] : acked' = [acked EXCEPT ![s] = n]
    /\ UNCHANGED <<db, read>>

Begin(r) ==
    /\ read[r] = Idle
    /\ read' = [read EXCEPT ![r] = [pc |-> "reading", floor |-> acked, answer |-> Zero]]
    /\ UNCHANGED <<db, acked>>

\* The answers that reflect every write answered before the read began, and
\* nothing that was never committed.
Answers(floor) ==
    {c \in [Scopes -> UNION {floor[s] .. db[s] : s \in Scopes}] :
        Covers(c, floor) /\ Covers(db, c)}

Answer(r) ==
    /\ read[r].pc = "reading"
    /\ \E c \in Answers(read[r].floor) :
          read' = [read EXCEPT ![r] = [pc |-> "done", floor |-> read[r].floor,
                                       answer |-> c]]
    /\ UNCHANGED <<db, acked>>

End(r) ==
    /\ read[r].pc = "done"
    /\ read' = [read EXCEPT ![r] = Idle]
    /\ UNCHANGED <<db, acked>>

Next ==
    \/ \E s \in Scopes : Commit(s) \/ Ack(s)
    \/ \E r \in Readers : Begin(r) \/ Answer(r) \/ End(r)

Spec == Init /\ [][Next]_vars
=============================================================================
