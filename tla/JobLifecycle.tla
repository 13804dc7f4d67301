----------------------------- MODULE JobLifecycle -----------------------------
(***************************************************************************)
(* What the store promises about every Job, without attempts rows, leases, *)
(* fencing, late evidence or the gate: a Job is accepted once, makes at    *)
(* most MaxSubmissionAttempts tries one after the other, retries only      *)
(* while a try is left, and then rests for ever in one outcome.  "Failed   *)
(* because the budget ran out" is an outcome only of the last try.         *)
(* JobStore is shown to implement this module.                             *)
(***************************************************************************)
EXTENDS Integers

CONSTANTS Key, MaxSubmissionAttempts

VARIABLES
    stage,   \* per key: where the job is in its life
    tries    \* per key: the submission attempts started so far

lifeVars == <<stage, tries>>

Stage == {"none", "waiting", "trying", "succeeded", "rejected", "exhausted", "unknown"}

LifeInit ==
    /\ stage = [k \in Key |-> "none"]
    /\ tries = [k \in Key |-> 0]

(* The job row is inserted without a try: the service-wide gate is closed. *)
Accept(k) ==
    /\ stage[k] = "none"
    /\ stage' = [stage EXCEPT ![k] = "waiting"]
    /\ UNCHANGED tries

(* A try starts, possibly in the step that accepts the job. *)
Try(k) ==
    /\ stage[k] \in {"none", "waiting"}
    /\ tries[k] < MaxSubmissionAttempts
    /\ stage' = [stage EXCEPT ![k] = "trying"]
    /\ tries' = [tries EXCEPT ![k] = @ + 1]

(* The try failed in a way that proves nothing was processed. *)
Fail(k) ==
    /\ stage[k] = "trying"
    /\ stage' = [stage EXCEPT ![k] =
                   IF tries[k] < MaxSubmissionAttempts THEN "waiting" ELSE "exhausted"]
    /\ UNCHANGED tries

Settle(k) ==
    /\ stage[k] = "trying"
    /\ \E s \in {"succeeded", "rejected", "unknown"} : stage' = [stage EXCEPT ![k] = s]
    /\ UNCHANGED tries

LifeNext == \E k \in Key : Accept(k) \/ Try(k) \/ Fail(k) \/ Settle(k)

LifeSpec == LifeInit /\ [][LifeNext]_lifeVars

=============================================================================
