------------------------------ MODULE MCJobStore ------------------------------
(* JobStore on small instances: two invocation tokens, one or two jobs. *)
EXTENDS JobStore, TLC

CONSTANTS k1, k2, t1, t2, p1, p2

OneKey   == {k1}
TwoKeys  == {k1, k2}
Tokens   == {t1, t2}
Payloads == {p1}
Delays   == {0, 1}
GateDelays == {0, 2}

(* What stale owners report: one row for each way late evidence can be      *)
(* acted on, and one whose status does not fit its category.                *)
LateReports ==
    {[category |-> "processed", status |-> 200],
     [category |-> "rate_limited", status |-> 429],
     [category |-> "idempotency_conflict", status |-> 409],
     [category |-> "idempotency_conflict", status |-> 200]}

Forward  == {1}
AnyWay   == {1, -1}

Symmetry == Permutations(Tokens)
=============================================================================
