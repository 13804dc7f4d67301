---------------------------- MODULE MCSubmitWorkflow ----------------------------
(* SubmitWorkflow on small instances.  One unit of time stands for the      *)
(* quarantine of ten seconds.                                               *)
EXTENDS SubmitWorkflow, TLC

CONSTANTS k1, t1, t2, t3, p1, p2

OneKey      == {k1}
TwoTokens   == {t1, t2}
ThreeTokens == {t1, t2, t3}
OnePayload  == {p1}
TwoPayloads == {p1, p2}
Delays      == {0, 1}
LongDelays  == {0, 2}
FullDelays  == {0, 3}

(* Every pair of category and status a stale owner reports. *)
LateReports ==
    {[category |-> "processed", status |-> 200],
     [category |-> "validation_rejected", status |-> 400],
     [category |-> "idempotency_conflict", status |-> 409],
     [category |-> "rate_limited", status |-> 429],
     [category |-> "transport_not_sent", status |-> 0],
     [category |-> "uncertain", status |-> 0],
     [category |-> "idempotency_conflict", status |-> 200],
     [category |-> "reconciliation_not_found", status |-> 404],
     [category |-> "reconciliation_inconclusive", status |-> 0]}

(* A sleeper may move the clock by a whole wait. *)
Steps == 1 .. 3
LongSteps == {1, 2, 3, 6}

Faults == {"crash", "persistence", "cancel", "foreign"}
CrashFault == {"crash"}
NoFaults == {}

Symmetry == Permutations(Token)
=============================================================================
