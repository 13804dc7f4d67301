------------------------------- MODULE JobStore -------------------------------
(***************************************************************************)
(* The durable store every CLI invocation shares: one SQLite file, changed *)
(* only by the transactions of persistence/transactions.py.  Each of them  *)
(* runs under BEGIN IMMEDIATE, so a transaction that commits is one atomic *)
(* step here and a transaction that rolls back is no step at all.          *)
(*                                                                         *)
(* The module is the most general client of that file: any invocation      *)
(* token may run any transaction on any attempt at any time, with any      *)
(* evidence.  What holds here holds however invocations are interleaved,   *)
(* paused, crashed or cancelled.  SubmitWorkflow restricts the callers to  *)
(* what the application really does.                                       *)
(*                                                                         *)
(* Instants are integers; 0 stands for a NULL instant (no gate row, no     *)
(* lease, not completed), which the code's max() treats as "no limit".     *)
(***************************************************************************)
EXTENDS Integers, Sequences

CONSTANTS
    Key,                    \* idempotency keys
    Payload,                \* canonical Job Entries
    NoPayload,              \* the payload of a job row that does not exist
    Token,                  \* invocation tokens
    NoToken,                \* NULL owner_token
    MaxSubmissionAttempts,  \* MAX_SUBMISSION_ATTEMPTS
    LeaseLength,            \* LEASE_SECONDS
    Delay,                  \* values the effective retry delay may take
    LateReport,             \* the (category, status) pairs a stale owner may report
    ClockStep,              \* how far the wall clock may move in one step
    MaxClock,               \* bound: the wall clock stays in 1..MaxClock
    MaxGeneration,          \* bound: fencing generations of one attempt
    MaxObservations         \* bound: appended observation rows of one job

(* evidence_category; "null" is SQL NULL, "uncertain" stands for the three  *)
(* MAYBE_SENT categories, which no code tells apart.                        *)
Category == {"null", "processed", "validation_rejected", "idempotency_conflict",
             "rate_limited", "transport_not_sent", "uncertain",
             "reconciliation_not_found", "reconciliation_inconclusive"}

ASSUME TokenAssumption  == NoToken \notin Token
ASSUME BudgetAssumption == MaxSubmissionAttempts \in Nat \ {0}
ASSUME LeaseAssumption  == LeaseLength \in Nat \ {0}
ASSUME DelayAssumption  == Delay \subseteq Nat
ASSUME LateAssumption   ==
    \A r \in LateReport : r.category \in Category /\ r.status \in Nat
ASSUME ClockAssumption  == ClockStep \subseteq Int /\ MaxClock \in Nat \ {0}
ASSUME BoundAssumption  == MaxGeneration \in Nat /\ MaxObservations \in Nat

VARIABLES
    jobs,          \* table jobs, by idempotency_key (UNIQUE)
    attempts,      \* table submission_attempts, per key, by attempt_number
    observations,  \* table attempt_observations, per key, in commit order
    gate,          \* service_rate_limit_gate.not_before, 0 when there is no row
    clock          \* the wall clock the transactions read

storeVars == <<jobs, attempts, observations, gate, clock>>

-----------------------------------------------------------------------------
(* Rows *)

JobState == {"ABSENT", "PENDING", "SUBMITTING", "RETRY_SCHEDULED",
             "SUCCEEDED", "FAILED_PERMANENT", "AMBIGUOUS"}

AttemptState == {"STARTED", "SUCCEEDED", "RETRYABLE_FAILURE",
                 "PERMANENT_FAILURE", "AMBIGUOUS"}

Operation == {"SUBMISSION", "RECONCILIATION"}

JobRow == [state : JobState, payload : Payload \cup {NoPayload}, createdAt : Nat]

AttemptRow == [state : AttemptState, startedAt : Nat, completedAt : Nat,
               retryAfter : Nat, error : Category,
               owner : Token \cup {NoToken}, generation : Nat, lease : Nat]

ObservationRow == [attempt : Nat, operation : Operation, category : Category,
                   status : Nat, late : BOOLEAN, consumed : BOOLEAN,
                   generation : Nat]

(* The five durable and physical variables keep the types the schema's      *)
(* CHECK constraints give the rows.                                         *)
TypeOK ==
    /\ jobs \in [Key -> JobRow]
    /\ attempts \in [Key -> Seq(AttemptRow)]
    /\ observations \in [Key -> Seq(ObservationRow)]
    /\ gate \in Nat
    /\ clock \in Nat \ {0}

Init ==
    /\ jobs = [k \in Key |-> [state |-> "ABSENT", payload |-> NoPayload, createdAt |-> 0]]
    /\ attempts = [k \in Key |-> <<>>]
    /\ observations = [k \in Key |-> <<>>]
    /\ gate = 0
    /\ clock = 1

-----------------------------------------------------------------------------
(* Helpers the transactions share *)

LaterOf(a, b) == IF a >= b THEN a ELSE b

AttemptNumbers(k) == 1 .. Len(attempts[k])

Latest(k) == attempts[k][Len(attempts[k])]

(* Mistake: the recorded delay is forgotten. *)
EligibleAtOnce(k) == Latest(k).completedAt

(* eligible_at of a RETRY_SCHEDULED job: completed_at + retry_after_ms. *)
EligibleAt(k) == Latest(k).completedAt + Latest(k).retryAfter

LeaseExpiry == clock + LeaseLength

(* _owns_active_attempt: the caller still holds the unexpired, unfenced lease. *)
Owns(k, n, t, g) ==
    /\ jobs[k].state = "SUBMITTING"
    /\ n \in AttemptNumbers(k)
    /\ attempts[k][n].state = "STARTED"
    /\ attempts[k][n].owner = t
    /\ attempts[k][n].generation = g
    /\ attempts[k][n].lease > clock

(* Mistakes: the attempt's state is written to the job; the budget is one   *)
(* attempt too large.                                                       *)
RetryStateOfAttempt(n) ==
    IF n < MaxSubmissionAttempts THEN "RETRYABLE_FAILURE" ELSE "FAILED_PERMANENT"
RetryStateOffByOne(n) ==
    IF n <= MaxSubmissionAttempts THEN "RETRY_SCHEDULED" ELSE "FAILED_PERMANENT"

(* Where a retryable failure of attempt n leaves the job. *)
RetryState(n) ==
    IF n < MaxSubmissionAttempts THEN "RETRY_SCHEDULED" ELSE "FAILED_PERMANENT"

NewJob(p) == [state |-> "PENDING", payload |-> p, createdAt |-> clock]

StartedRow(t) ==
    [state |-> "STARTED", startedAt |-> clock, completedAt |-> 0,
     retryAfter |-> 0, error |-> "null",
     owner |-> t, generation |-> 1, lease |-> LeaseExpiry]

Observation(n, op, c, s, late, g) ==
    [attempt |-> n, operation |-> op, category |-> c, status |-> s,
     late |-> late, consumed |-> FALSE, generation |-> g]

(* The status that makes a late report of this category authoritative. *)
AuthoritativeStatus ==
    [processed |-> 200, validation_rejected |-> 400,
     idempotency_conflict |-> 409, rate_limited |-> 429]

(* _is_actionable_late_evidence *)
Actionable(row) ==
    /\ row.category \in DOMAIN AuthoritativeStatus
    /\ row.status = AuthoritativeStatus[row.category]

(* Mistake: rows are selected by job, not by attempt. *)
UnconsumedLateOfJob(k, n) ==
    {i \in DOMAIN observations[k] :
        observations[k][i].late /\ ~observations[k][i].consumed
        /\ Actionable(observations[k][i])}

UnconsumedLate(k, n) ==
    {i \in DOMAIN observations[k] :
        /\ observations[k][i].attempt = n
        /\ observations[k][i].late
        /\ ~observations[k][i].consumed
        /\ Actionable(observations[k][i])}

-----------------------------------------------------------------------------
(* The pieces transactions are made of.  Each determines the tables it names. *)

(* Mistake: the last 429 wins. *)
OverwriteGate(d) == gate' = clock + d

(* rate_limit_gate.advance_gate: the later of the current and the new instant. *)
RaiseGate(d) == gate' = LaterOf(gate, clock + d)

InState(job, state) == [job EXCEPT !.state = state]

(* An attempt row once its outcome is known: it has no owner and no lease. *)
Completed(row, attemptState, error, d) ==
    [row EXCEPT !.state = attemptState, !.completedAt = clock, !.retryAfter = d,
                !.error = error, !.owner = NoToken, !.lease = 0]

(* An attempt row with a fresh lease. *)
Leased(row, owner, g) ==
    [row EXCEPT !.owner = owner, !.generation = g, !.lease = LeaseExpiry]

(* Mistake: the job row is not updated with the attempt. *)
CompleteAttemptOnly(k, n, attemptState, jobState, error, d) ==
    /\ clock >= attempts[k][n].startedAt
    /\ attempts' = [attempts EXCEPT ![k][n] = Completed(@, attemptState, error, d)]
    /\ UNCHANGED jobs

(* The attempt and its job leave STARTED / SUBMITTING together.  The first  *)
(* conjunct is CHECK (completed_at >= started_at): when the wall clock has  *)
(* moved back past started_at the UPDATE raises and nothing is committed.   *)
Complete(k, n, attemptState, jobState, error, d) ==
    /\ clock >= attempts[k][n].startedAt
    /\ attempts' = [attempts EXCEPT ![k][n] = Completed(@, attemptState, error, d)]
    /\ jobs' = [jobs EXCEPT ![k] = InState(@, jobState)]

Observe(k, row) == observations' = [observations EXCEPT ![k] = Append(@, row)]

SetLease(k, n, owner, g) ==
    attempts' = [attempts EXCEPT ![k][n] = Leased(@, owner, g)]

(* _authorize_or_defer, the branch that starts the next attempt. *)
Authorize(k, job, eligible, t) ==
    /\ LaterOf(eligible, gate) <= clock
    /\ clock >= job.createdAt              \* CHECK (updated_at >= created_at)
    /\ attempts' = [attempts EXCEPT ![k] = Append(@, StartedRow(t))]
    /\ jobs' = [jobs EXCEPT ![k] = InState(job, "SUBMITTING")]
    /\ UNCHANGED <<observations, gate, clock>>

(* _authorize_or_defer, the branch that commits without an attempt: the job *)
(* row inserted by the same transaction stays.                              *)
Defer(k, job, eligible) ==
    /\ LaterOf(eligible, gate) > clock
    /\ jobs' = [jobs EXCEPT ![k] = job]
    /\ UNCHANGED <<attempts, observations, gate, clock>>

-----------------------------------------------------------------------------
(* run_pre_side_effect_transaction *)

(* The instant from which job k may start its next attempt, before the gate. *)
JobEligibleAt(k) == IF jobs[k].state = "RETRY_SCHEDULED" THEN EligibleAt(k) ELSE 0

(* The job row the transaction works on: a new one when the key is unknown. *)
JobToSubmit(k, p) == IF jobs[k].state = "ABSENT" THEN NewJob(p) ELSE jobs[k]

(* Mistake: an ambiguous job is submitted again. *)
SubmittableAmbiguous(k, p) ==
    \/ jobs[k].state = "ABSENT"
    \/ jobs[k].state \in {"PENDING", "AMBIGUOUS"} /\ jobs[k].payload = p
    \/ /\ jobs[k].state = "RETRY_SCHEDULED" /\ jobs[k].payload = p
       /\ Latest(k).state = "RETRYABLE_FAILURE"

(* A new, PENDING or RETRY_SCHEDULED job with the caller's own payload. *)
Submittable(k, p) ==
    \/ jobs[k].state = "ABSENT"
    \/ jobs[k].state = "PENDING" /\ jobs[k].payload = p
    \/ /\ jobs[k].state = "RETRY_SCHEDULED" /\ jobs[k].payload = p
       /\ Latest(k).state = "RETRYABLE_FAILURE"

StartAttempt(k, p, t) ==
    /\ Submittable(k, p)
    /\ Authorize(k, JobToSubmit(k, p), JobEligibleAt(k), t)

DeferAttempt(k, p) ==
    /\ Submittable(k, p)
    /\ Defer(k, JobToSubmit(k, p), JobEligibleAt(k))

-----------------------------------------------------------------------------
(* Leases *)

(* Mistake: an expired lease can still be renewed by its owner. *)
RenewExpired(k, n, t, g) ==
    /\ jobs[k].state = "SUBMITTING" /\ n \in AttemptNumbers(k)
    /\ attempts[k][n].state = "STARTED"
    /\ attempts[k][n].owner = t /\ attempts[k][n].generation = g
    /\ SetLease(k, n, t, g)
    /\ UNCHANGED <<jobs, observations, gate, clock>>

RenewLease(k, n, t, g) ==
    /\ Owns(k, n, t, g)
    /\ SetLease(k, n, t, g)
    /\ UNCHANGED <<jobs, observations, gate, clock>>

(* Mistakes: the claim compares ownership only and takes a completed        *)
(* attempt; it does not check that the lease is expired; it does not look   *)
(* whether someone else has claimed the attempt in the quarantine.          *)
ClaimableCompleted(k, n, owner, g, lease) ==
    /\ n \in AttemptNumbers(k)
    /\ attempts[k][n].owner = owner /\ attempts[k][n].generation = g
    /\ attempts[k][n].lease = lease /\ lease <= clock
ClaimableUnexpired(k, n, owner, g, lease) ==
    /\ jobs[k].state = "SUBMITTING" /\ n \in AttemptNumbers(k)
    /\ attempts[k][n].state = "STARTED"
    /\ attempts[k][n].owner = owner /\ attempts[k][n].generation = g
    /\ attempts[k][n].lease = lease
ClaimableUncompared(k, n, owner, g, lease) ==
    /\ jobs[k].state = "SUBMITTING" /\ n \in AttemptNumbers(k)
    /\ attempts[k][n].state = "STARTED"
    /\ attempts[k][n].lease <= clock

(* claim_expired_attempt, given the owner, generation and lease captured    *)
(* before the quarantine.                                                   *)
Claimable(k, n, owner, g, lease) ==
    /\ jobs[k].state = "SUBMITTING"
    /\ n \in AttemptNumbers(k)
    /\ attempts[k][n].state = "STARTED"
    /\ attempts[k][n].owner = owner
    /\ attempts[k][n].generation = g
    /\ attempts[k][n].lease = lease
    /\ lease <= clock

ClaimExpiredAttempt(k, n, owner, g, lease, t) ==
    /\ Claimable(k, n, owner, g, lease)
    /\ SetLease(k, n, t, g + 1)
    /\ UNCHANGED <<jobs, observations, gate, clock>>

-----------------------------------------------------------------------------
(* finalize_submission_attempt, one action per disposition of the evidence *)

FinalizeSucceeded(k, n, t, g) ==
    /\ Owns(k, n, t, g)
    /\ Complete(k, n, "SUCCEEDED", "SUCCEEDED", "null", 0)
    /\ Observe(k, Observation(n, "SUBMISSION", "null", 200, FALSE, g))
    /\ UNCHANGED <<gate, clock>>

FinalizePermanentFailure(k, n, t, g, c) ==
    /\ c \in {"validation_rejected", "idempotency_conflict"}
    /\ Owns(k, n, t, g)
    /\ Complete(k, n, "PERMANENT_FAILURE", "FAILED_PERMANENT", c, 0)
    /\ Observe(k, Observation(n, "SUBMISSION", c, AuthoritativeStatus[c], FALSE, g))
    /\ UNCHANGED <<gate, clock>>

FinalizeRateLimited(k, n, t, g, d) ==
    /\ Owns(k, n, t, g)
    /\ RaiseGate(d)
    /\ Complete(k, n, "RETRYABLE_FAILURE", RetryState(n), "rate_limited", d)
    /\ Observe(k, Observation(n, "SUBMISSION", "rate_limited", 429, FALSE, g))
    /\ UNCHANGED clock

FinalizeNotSent(k, n, t, g, d) ==
    /\ Owns(k, n, t, g)
    /\ Complete(k, n, "RETRYABLE_FAILURE", RetryState(n), "transport_not_sent", d)
    /\ Observe(k, Observation(n, "SUBMISSION", "transport_not_sent", 0, FALSE, g))
    /\ UNCHANGED <<gate, clock>>

(* Mistake: an uncertain exchange is retried like one that was not sent. *)
RetryUncertain(k, n, t, g) ==
    /\ Owns(k, n, t, g)
    /\ Complete(k, n, "RETRYABLE_FAILURE", RetryState(n), "uncertain", 0)
    /\ Observe(k, Observation(n, "SUBMISSION", "uncertain", 0, FALSE, g))
    /\ UNCHANGED <<gate, clock>>

(* 5xx, MAYBE_SENT, protocol-uncertain: the attempt stays STARTED. *)
FinalizeRetained(k, n, t, g) ==
    /\ Owns(k, n, t, g)
    /\ Observe(k, Observation(n, "SUBMISSION", "uncertain", 0, FALSE, g))
    /\ UNCHANGED <<jobs, attempts, gate, clock>>

-----------------------------------------------------------------------------
(* Reconciliation and late evidence *)

(* authorize_reconciliation_request; when it defers, nothing changes. *)
MayReconcile(k, n, t, g, notBefore) ==
    /\ Owns(k, n, t, g)
    /\ LaterOf(notBefore, gate) <= clock

AuthorizeReconciliationRequest(k, n, t, g, notBefore) ==
    /\ MayReconcile(k, n, t, g, notBefore)
    /\ SetLease(k, n, t, g)
    /\ UNCHANGED <<jobs, observations, gate, clock>>

AdvanceGateForReconciliation(d) ==
    /\ RaiseGate(d)
    /\ UNCHANGED <<jobs, attempts, observations, clock>>

RecordReconciliationResult(k, n, t, g, disposition) ==
    /\ Owns(k, n, t, g)
    /\ \/ /\ disposition = "matched"
          /\ Complete(k, n, "SUCCEEDED", "SUCCEEDED", "null", 0)
       \/ /\ disposition = "conflict"
          /\ Complete(k, n, "PERMANENT_FAILURE", "FAILED_PERMANENT",
                      "idempotency_conflict", 0)
       \/ /\ disposition = "not_found"
          /\ Complete(k, n, "AMBIGUOUS", "AMBIGUOUS", "reconciliation_not_found", 0)
       \/ /\ disposition = "inconclusive"
          /\ Complete(k, n, "AMBIGUOUS", "AMBIGUOUS", "reconciliation_inconclusive", 0)
    /\ UNCHANGED <<observations, gate, clock>>

(* What one GET is recorded as; status 0 stands for NULL and for 5xx. *)
GetReport ==
    {[category |-> "null", status |-> 200],
     [category |-> "idempotency_conflict", status |-> 200],
     [category |-> "reconciliation_not_found", status |-> 404],
     [category |-> "rate_limited", status |-> 429],
     [category |-> "uncertain", status |-> 0]}

(* append_observation: no ownership check and is_late = 0. *)
AppendObservation(k, n, g, c, s) ==
    /\ n \in AttemptNumbers(k)
    /\ Observe(k, Observation(n, "RECONCILIATION", c, s, FALSE, g))
    /\ UNCHANGED <<jobs, attempts, gate, clock>>

(* append_late_observation: no ownership check, is_late = 1. *)
AppendLateObservation(k, n, g, op, c, s) ==
    /\ n \in AttemptNumbers(k)
    /\ Observe(k, Observation(n, op, c, s, TRUE, g))
    /\ UNCHANGED <<jobs, attempts, gate, clock>>

(* consume_late_observations, on the earliest actionable row i.  Without    *)
(* one the transaction commits nothing.                                     *)
ConsumeLateObservations(k, n, t, g, d) ==
    /\ Owns(k, n, t, g)
    /\ \E i \in UnconsumedLate(k, n) :
          LET row == observations[k][i] IN
          /\ \A j \in UnconsumedLate(k, n) : i <= j
          /\ observations' = [observations EXCEPT ![k][i] = [@ EXCEPT !.consumed = TRUE]]
          /\ \/ /\ row.category = "processed"
                /\ Complete(k, n, "SUCCEEDED", "SUCCEEDED", "null", 0)
                /\ UNCHANGED gate
             \/ /\ row.category = "rate_limited"
                /\ RaiseGate(d)
                /\ Complete(k, n, "RETRYABLE_FAILURE", RetryState(n), "rate_limited", d)
             \/ /\ row.category \notin {"processed", "rate_limited"}
                /\ Complete(k, n, "PERMANENT_FAILURE", "FAILED_PERMANENT", row.category, 0)
                /\ UNCHANGED gate
    /\ UNCHANGED clock

-----------------------------------------------------------------------------
(* The wall clock may be stepped: ClockStep holds a negative number in the  *)
(* runs that let it move back.                                              *)
Tick ==
    /\ \E s \in ClockStep :
          /\ clock + s \in 1 .. MaxClock
          /\ clock' = clock + s
    /\ UNCHANGED <<jobs, attempts, observations, gate>>

-----------------------------------------------------------------------------
(* The most general client *)

MayAppend(k) == Len(observations[k]) < MaxObservations

OwnerStep(k, n, t, g) ==
    \/ RenewLease(k, n, t, g)
    \/ FinalizeSucceeded(k, n, t, g)
    \/ \E c \in {"validation_rejected", "idempotency_conflict"} :
          FinalizePermanentFailure(k, n, t, g, c)
    \/ \E d \in Delay : \/ FinalizeRateLimited(k, n, t, g, d)
                        \/ FinalizeNotSent(k, n, t, g, d)
                        \/ ConsumeLateObservations(k, n, t, g, d)
    \/ MayAppend(k) /\ FinalizeRetained(k, n, t, g)
    \/ \E notBefore \in 0 .. MaxClock : AuthorizeReconciliationRequest(k, n, t, g, notBefore)
    \/ \E disposition \in {"matched", "conflict", "not_found", "inconclusive"} :
          RecordReconciliationResult(k, n, t, g, disposition)

AnyoneStep(k, n, t) ==
    \/ LET a == attempts[k][n] IN
          /\ a.generation < MaxGeneration
          /\ ClaimExpiredAttempt(k, n, a.owner, a.generation, a.lease, t)
    \/ /\ MayAppend(k)
       /\ \E g \in 1 .. attempts[k][n].generation :
             \/ \E r \in LateReport, op \in Operation :
                   AppendLateObservation(k, n, g, op, r.category, r.status)
             \/ \E r \in GetReport : AppendObservation(k, n, g, r.category, r.status)

Next ==
    \/ \E k \in Key, p \in Payload :
          \/ DeferAttempt(k, p)
          \/ \E t \in Token : StartAttempt(k, p, t)
    \/ \E k \in Key : \E n \in AttemptNumbers(k), t \in Token :
          \/ AnyoneStep(k, n, t)
          \/ OwnerStep(k, n, t, attempts[k][n].generation)
    \/ \E d \in Delay : AdvanceGateForReconciliation(d)
    \/ Tick

Spec == Init /\ [][Next]_storeVars

-----------------------------------------------------------------------------
(* Invariants *)

Terminal == {"SUCCEEDED", "FAILED_PERMANENT", "AMBIGUOUS"}

(* What the state of a job says about the state of its latest attempt. *)
Agreement == {<<"SUBMITTING", "STARTED">>, <<"SUCCEEDED", "SUCCEEDED">>,
              <<"RETRY_SCHEDULED", "RETRYABLE_FAILURE">>,
              <<"FAILED_PERMANENT", "RETRYABLE_FAILURE">>,
              <<"FAILED_PERMANENT", "PERMANENT_FAILURE">>,
              <<"AMBIGUOUS", "AMBIGUOUS">>}

(* The two tables never disagree: a job without attempts is absent or       *)
(* PENDING, any other job's state is explained by its latest attempt, and   *)
(* every earlier attempt failed retryably.  It is why none of the           *)
(* DatabaseCorruptionError branches of _route_existing_job can be reached   *)
(* and why the index one_started_attempt_per_job never fires.               *)
JobMatchesAttempts ==
    \A k \in Key :
        /\ Len(attempts[k]) = 0 => jobs[k].state \in {"ABSENT", "PENDING"}
        /\ Len(attempts[k]) > 0 => <<jobs[k].state, Latest(k).state>> \in Agreement
        /\ \A n \in 1 .. (Len(attempts[k]) - 1) : attempts[k][n].state = "RETRYABLE_FAILURE"

(* No job ever has more attempts than the lifetime budget.  Starting an     *)
(* attempt checks nothing: the budget is only looked at when an attempt     *)
(* fails, in two transactions, so a retry may be scheduled only while one   *)
(* is left, and "retry exhausted" is reported only when none is.            *)
BudgetHeld ==
    \A k \in Key :
        /\ Len(attempts[k]) <= MaxSubmissionAttempts
        /\ jobs[k].state = "RETRY_SCHEDULED" => Len(attempts[k]) < MaxSubmissionAttempts
        /\ jobs[k].state = "FAILED_PERMANENT" /\ Latest(k).state = "RETRYABLE_FAILURE"
              => Len(attempts[k]) = MaxSubmissionAttempts

(* The service-wide gate: once a 429 was recorded at instant c with delay   *)
(* d, no attempt of any job starts strictly between c and c + d, whichever  *)
(* invocation starts it.                                                    *)
RateLimitWindowQuiet ==
    \A k, l \in Key : \A n \in AttemptNumbers(k), m \in AttemptNumbers(l) :
        LET limited == attempts[k][n]
            started == attempts[l][m]
        IN  limited.state = "RETRYABLE_FAILURE" /\ limited.error = "rate_limited"
            => \/ started.startedAt <= limited.completedAt
               \/ started.startedAt >= limited.completedAt + limited.retryAfter

(* An attempt follows its predecessor only after the delay recorded with it. *)
RetryDelayHonoured ==
    \A k \in Key : \A n \in 1 .. (Len(attempts[k]) - 1) :
        attempts[k][n + 1].startedAt
            >= attempts[k][n].completedAt + attempts[k][n].retryAfter

(* The outcome an attempt must have when late evidence of this category     *)
(* was consumed for it.                                                     *)
OutcomeOf(category) ==
    CASE category = "processed" -> "SUCCEEDED"
      [] category = "rate_limited" -> "RETRYABLE_FAILURE"
      [] OTHER -> "PERMANENT_FAILURE"

(* A late row is consumed only by the transition it explains: its attempt   *)
(* is complete with the outcome the evidence stands for, and no other row   *)
(* of that attempt was consumed.                                            *)
ConsumedEvidenceDecides ==
    \A k \in Key : \A i \in DOMAIN observations[k] :
        LET row == observations[k][i] IN
        row.consumed =>
            /\ row.late /\ Actionable(row)
            /\ row.attempt \in AttemptNumbers(k)
            /\ attempts[k][row.attempt].state = OutcomeOf(row.category)
            /\ \A j \in DOMAIN observations[k] :
                  observations[k][j].consumed /\ observations[k][j].attempt = row.attempt
                      => j = i

(* Action properties *)

FinalStep ==
    \A k \in Key :
        /\ Len(attempts'[k]) >= Len(attempts[k])
        /\ \A n \in AttemptNumbers(k) :
              attempts[k][n].state # "STARTED" => attempts'[k][n] = attempts[k][n]
        /\ jobs[k].state \in Terminal =>
              jobs'[k] = jobs[k] /\ attempts'[k] = attempts[k]

(* A completed attempt is never reclassified, a terminal job never changes  *)
(* and never gets another attempt, and no attempt row is ever removed.      *)
OutcomesAreFinal == [][FinalStep]_storeVars

TakeoverStep ==
    \A k \in Key : \A n \in AttemptNumbers(k) :
        \/ /\ attempts'[k][n].generation = attempts[k][n].generation
           /\ attempts'[k][n].owner \in {attempts[k][n].owner, NoToken}
        \/ /\ attempts'[k][n].generation = attempts[k][n].generation + 1
           /\ attempts[k][n].lease <= clock

(* An active attempt changes hands only when its lease has expired, and     *)
(* then its fencing generation grows; otherwise the generation stays.       *)
TakeoverIsFenced == [][TakeoverStep]_storeVars

NoRegainStep ==
    \A k \in Key : \A n \in AttemptNumbers(k), t \in Token :
        \A g \in 1 .. attempts[k][n].generation :
            Owns(k, n, t, g)' => Owns(k, n, t, g)

(* Ownership that was lost is never regained under the same generation: an  *)
(* invocation paused past its lease finds every later guarded transaction   *)
(* closed, so nothing it observed before can complete the attempt.          *)
OwnershipNeverRegained == [][NoRegainStep]_storeVars

(* Refinement mapping: the life of a job as JobLifecycle tells it. *)
StageOf(k) ==
    CASE jobs[k].state = "ABSENT" -> "none"
      [] jobs[k].state \in {"PENDING", "RETRY_SCHEDULED"} -> "waiting"
      [] jobs[k].state = "SUBMITTING" -> "trying"
      [] jobs[k].state = "SUCCEEDED" -> "succeeded"
      [] jobs[k].state = "AMBIGUOUS" -> "unknown"
      [] OTHER -> IF Latest(k).state = "RETRYABLE_FAILURE" THEN "exhausted" ELSE "rejected"

Lifecycle == INSTANCE JobLifecycle
    WITH stage <- [k \in Key |-> StageOf(k)],
         tries <- [k \in Key |-> Len(attempts[k])]

(* The store implements the lifecycle: seen through the mapping, every      *)
(* transaction is a lifecycle step of one job or changes nothing.           *)
ImplementsLifecycle == Lifecycle!LifeSpec

=============================================================================
