---------------------------- MODULE JobStoreProofs ----------------------------
(***************************************************************************)
(* Proofs about JobStore for every set of keys, tokens and delays, every   *)
(* budget and lease length, and, unless a theorem says otherwise, every    *)
(* movement of the wall clock.                                             *)
(***************************************************************************)
EXTENDS JobStore, SequenceTheorems, TLAPS

(* Rows that transactions write are rows of the tables. *)
LEMMA StartedRowTyped ==
    ASSUME TypeOK, NEW t \in Token
    PROVE  StartedRow(t) \in AttemptRow
BY LeaseAssumption, SMT
   DEF TypeOK, StartedRow, AttemptRow, AttemptState, Category, LeaseExpiry

(* Rows found in the tables are rows of the tables. *)
LEMMA AttemptTyped ==
    ASSUME TypeOK, NEW k \in Key, NEW n \in AttemptNumbers(k)
    PROVE  /\ attempts[k][n] \in AttemptRow
           /\ attempts[k][n].generation \in Nat
           /\ attempts[k][n].startedAt \in Nat
           /\ attempts[k][n].completedAt \in Nat
           /\ attempts[k][n].retryAfter \in Nat
           /\ attempts[k][n].lease \in Nat
<1>1. attempts[k] \in Seq(AttemptRow) /\ n \in 1 .. Len(attempts[k])
  BY DEF TypeOK, AttemptNumbers
<1>2. attempts[k][n] \in AttemptRow
  BY <1>1
<1>3. QED
  BY <1>2 DEF AttemptRow

LEMMA ObservationTyped ==
    ASSUME TypeOK, NEW k \in Key, NEW i \in DOMAIN observations[k]
    PROVE  /\ observations[k][i] \in ObservationRow
           /\ observations[k][i].category \in Category
<1>1. observations[k] \in Seq(ObservationRow)
  BY DEF TypeOK
<1>2. observations[k][i] \in ObservationRow
  BY <1>1
<1>3. QED
  BY <1>2 DEF ObservationRow

(* Names for the two ways the attempts table changes: as opaque facts they   *)
(* let a lemma be applied without looking into its EXCEPT.                  *)
Replaced(k, n, r) == attempts' = [attempts EXCEPT ![k][n] = r]
Appended(k, r) == attempts' = [attempts EXCEPT ![k] = Append(@, r)]

(* Replacing one attempt row by a row of the table keeps the table's type   *)
(* and length, and changes that row only.                                   *)
LEMMA RowReplaced ==
    ASSUME TypeOK, NEW k \in Key, NEW n \in AttemptNumbers(k), NEW r \in AttemptRow,
           Replaced(k, n, r)
    PROVE  /\ attempts' \in [Key -> Seq(AttemptRow)]
           /\ \A l \in Key : Len(attempts'[l]) = Len(attempts[l])
           /\ \A l \in Key : \A m \in AttemptNumbers(l) :
                 attempts'[l][m] = IF l = k /\ m = n THEN r ELSE attempts[l][m]
<1>1. attempts[k] \in Seq(AttemptRow) /\ n \in 1 .. Len(attempts[k])
  BY DEF TypeOK, AttemptNumbers
<1>2. DEFINE s == [attempts[k] EXCEPT ![n] = r]
<1>3. /\ s \in Seq(AttemptRow)
      /\ Len(s) = Len(attempts[k])
      /\ \A m \in 1 .. Len(attempts[k]) : s[m] = IF m = n THEN r ELSE attempts[k][m]
  BY <1>1, ExceptSeq
<1>4. attempts' = [attempts EXCEPT ![k] = s]
  BY DEF Replaced
<1>5. QED
  BY <1>3, <1>4 DEF TypeOK, AttemptNumbers

(* Adding a row appends it under the next attempt number. *)
LEMMA RowAppended ==
    ASSUME TypeOK, NEW k \in Key, NEW r \in AttemptRow,
           Appended(k, r)
    PROVE  /\ attempts' \in [Key -> Seq(AttemptRow)]
           /\ \A l \in Key : Len(attempts'[l]) =
                 IF l = k THEN Len(attempts[k]) + 1 ELSE Len(attempts[l])
           /\ \A l \in Key : \A m \in AttemptNumbers(l) : attempts'[l][m] = attempts[l][m]
           /\ attempts'[k][Len(attempts[k]) + 1] = r
<1>1. attempts[k] \in Seq(AttemptRow)
  BY DEF TypeOK
<1>2. DEFINE s == Append(attempts[k], r)
<1>3. /\ s \in Seq(AttemptRow)
      /\ Len(s) = Len(attempts[k]) + 1
      /\ \A m \in 1 .. Len(attempts[k]) : s[m] = attempts[k][m]
      /\ s[Len(attempts[k]) + 1] = r
  BY <1>1, AppendProperties
<1>4. attempts' = [attempts EXCEPT ![k] = s]
  BY DEF Appended
<1>5. QED
  BY <1>3, <1>4 DEF TypeOK, AttemptNumbers

(* What Complete does to the tables. *)
LEMMA CompleteEffect ==
    ASSUME TypeOK, NEW k \in Key, NEW n \in AttemptNumbers(k),
           NEW as \in AttemptState, NEW js \in JobState, NEW e \in Category, NEW d \in Nat,
           Complete(k, n, as, js, e, d)
    PROVE  /\ attempts' \in [Key -> Seq(AttemptRow)]
           /\ jobs' \in [Key -> JobRow]
           /\ \A l \in Key : Len(attempts'[l]) = Len(attempts[l])
           /\ \A l \in Key : \A m \in AttemptNumbers(l) :
                 l # k \/ m # n => attempts'[l][m] = attempts[l][m]
           /\ attempts'[k][n] = Completed(attempts[k][n], as, e, d)
           /\ \A l \in Key : l # k => jobs'[l] = jobs[l]
           /\ jobs'[k] = InState(jobs[k], js)
<1> DEFINE r == Completed(attempts[k][n], as, e, d)
<1>1. attempts[k][n] \in AttemptRow
  BY DEF TypeOK, AttemptNumbers
<1>2. r \in AttemptRow
  BY <1>1 DEF TypeOK, AttemptRow, Completed
<1>3. Replaced(k, n, r)
  BY DEF Complete, Replaced
<1>4. jobs' = [jobs EXCEPT ![k] = InState(jobs[k], js)]
  BY DEF Complete
<1>5. jobs' \in [Key -> JobRow]
  BY <1>4 DEF TypeOK, JobRow, InState
<1> HIDE DEF r
<1>6. /\ attempts' \in [Key -> Seq(AttemptRow)]
      /\ \A l \in Key : Len(attempts'[l]) = Len(attempts[l])
      /\ \A l \in Key : \A m \in AttemptNumbers(l) :
            attempts'[l][m] = IF l = k /\ m = n THEN r ELSE attempts[l][m]
  BY <1>2, <1>3, RowReplaced
<1>7. /\ \A l \in Key : l # k => jobs'[l] = jobs[l]
      /\ jobs'[k] = InState(jobs[k], js)
  BY <1>4 DEF TypeOK
<1>8. QED
  BY <1>5, <1>6, <1>7 DEF r

(* What SetLease does to the tables. *)
LEMMA SetLeaseEffect ==
    ASSUME TypeOK, NEW k \in Key, NEW n \in AttemptNumbers(k), NEW t \in Token, NEW g \in Nat,
           SetLease(k, n, t, g)
    PROVE  /\ attempts' \in [Key -> Seq(AttemptRow)]
           /\ \A l \in Key : Len(attempts'[l]) = Len(attempts[l])
           /\ \A l \in Key : \A m \in AttemptNumbers(l) :
                 l # k \/ m # n => attempts'[l][m] = attempts[l][m]
           /\ attempts'[k][n] = Leased(attempts[k][n], t, g)
<1> DEFINE r == Leased(attempts[k][n], t, g)
<1>1. attempts[k][n] \in AttemptRow
  BY DEF TypeOK, AttemptNumbers
<1>2. r \in AttemptRow
  <2>1. LeaseExpiry \in Nat
    BY LeaseAssumption DEF TypeOK, LeaseExpiry
  <2>2. QED
    BY <1>1, <2>1 DEF AttemptRow, Leased
<1>3. Replaced(k, n, r)
  BY DEF SetLease, Replaced
<1> HIDE DEF r
<1>4. /\ attempts' \in [Key -> Seq(AttemptRow)]
      /\ \A l \in Key : Len(attempts'[l]) = Len(attempts[l])
      /\ \A l \in Key : \A m \in AttemptNumbers(l) :
            attempts'[l][m] = IF l = k /\ m = n THEN r ELSE attempts[l][m]
  BY <1>2, <1>3, RowReplaced
<1>5. QED
  BY <1>4 DEF r

-----------------------------------------------------------------------------
(***************************************************************************)
(* Every action of Next changes the tables jobs and attempts in one of     *)
(* four ways or not at all.  The theorems below argue by these kinds.      *)
(***************************************************************************)

(* The lease of the active attempt is renewed by its owner, or the attempt  *)
(* is claimed after its lease expired.                                      *)
LeaseChange(k, n, t, g) ==
    /\ jobs[k].state = "SUBMITTING"
    /\ attempts[k][n].state = "STARTED"
    /\ \/ Owns(k, n, t, g)
       \/ g = attempts[k][n].generation + 1 /\ attempts[k][n].lease <= clock
    /\ SetLease(k, n, t, g)
    /\ UNCHANGED <<jobs, gate, clock>>

(* The active attempt is completed with an outcome that fits the job's. *)
Completion(k, n, as, js, e, d) ==
    /\ jobs[k].state = "SUBMITTING"
    /\ attempts[k][n].state = "STARTED"
    /\ <<js, as>> \in Agreement
    /\ as # "STARTED"
    /\ js = "RETRY_SCHEDULED" => n < MaxSubmissionAttempts
    /\ js = "FAILED_PERMANENT" /\ as = "RETRYABLE_FAILURE" => ~(n < MaxSubmissionAttempts)
    /\ e = "rate_limited" => gate' >= clock + d
    /\ Complete(k, n, as, js, e, d)
    /\ clock' = clock

Kinds ==
    \/ \E k \in Key, p \in Payload, t \in Token : StartAttempt(k, p, t)
    \/ \E k \in Key, p \in Payload : DeferAttempt(k, p)
    \/ \E k \in Key : \E n \in AttemptNumbers(k), t \in Token, g \in Nat :
          LeaseChange(k, n, t, g)
    \/ \E k \in Key : \E n \in AttemptNumbers(k), as \in AttemptState, js \in JobState,
                         e \in Category, d \in Nat :
          Completion(k, n, as, js, e, d)
    \/ UNCHANGED <<jobs, attempts>>

LEMMA RetryStateFits ==
    ASSUME NEW n \in Nat
    PROVE  /\ <<RetryState(n), "RETRYABLE_FAILURE">> \in Agreement
           /\ RetryState(n) \in JobState
           /\ RetryState(n) = "RETRY_SCHEDULED" => n < MaxSubmissionAttempts
           /\ RetryState(n) = "FAILED_PERMANENT" => ~(n < MaxSubmissionAttempts)
BY DEF RetryState, Agreement, JobState

(* The gate only moves to later instants, and far enough to cover d. *)
LEMMA RaisedGate ==
    ASSUME TypeOK, NEW d \in Delay, RaiseGate(d)
    PROVE  gate' \in Nat /\ gate' >= gate /\ gate' >= clock + d
BY DelayAssumption DEF TypeOK, RaiseGate, LaterOf

(* Each transaction of the owner is of one of the kinds. *)
LEMMA OwnerStepKinds ==
    ASSUME TypeOK, NEW k \in Key, NEW n \in AttemptNumbers(k), NEW t \in Token,
           NEW g \in Nat, OwnerStep(k, n, t, g)
    PROVE  Kinds /\ gate' \in Nat /\ gate' >= gate /\ clock' = clock
<1> USE DEF AttemptState, JobState, Category
<1>0. n \in Nat
  BY DEF AttemptNumbers
<1>1. CASE RenewLease(k, n, t, g)
  <2>1. LeaseChange(k, n, t, g)
    BY <1>1 DEF RenewLease, LeaseChange, Owns
  <2>2. QED
    BY <1>1, <2>1 DEF RenewLease, Kinds, TypeOK
<1>2. CASE FinalizeSucceeded(k, n, t, g)
  <2>1. Completion(k, n, "SUCCEEDED", "SUCCEEDED", "null", 0)
    BY <1>2 DEF FinalizeSucceeded, Completion, Owns, Agreement
  <2>2. QED
    BY <1>2, <2>1 DEF FinalizeSucceeded, Kinds, TypeOK
<1>3. ASSUME NEW c \in {"validation_rejected", "idempotency_conflict"},
             FinalizePermanentFailure(k, n, t, g, c)
      PROVE  Kinds /\ gate' \in Nat /\ gate' >= gate /\ clock' = clock
  <2>1. Completion(k, n, "PERMANENT_FAILURE", "FAILED_PERMANENT", c, 0)
    BY <1>3 DEF FinalizePermanentFailure, Completion, Owns, Agreement
  <2>2. QED
    BY <1>3, <2>1 DEF FinalizePermanentFailure, Kinds, TypeOK
<1>4. ASSUME NEW d \in Delay, FinalizeRateLimited(k, n, t, g, d)
      PROVE  Kinds /\ gate' \in Nat /\ gate' >= gate /\ clock' = clock
  <2>1. gate' \in Nat /\ gate' >= gate /\ gate' >= clock + d
    BY <1>4, RaisedGate DEF FinalizeRateLimited
  <2>2. Completion(k, n, "RETRYABLE_FAILURE", RetryState(n), "rate_limited", d)
    BY <1>0, <1>4, <2>1, RetryStateFits DEF FinalizeRateLimited, Completion, Owns
  <2>3. d \in Nat /\ RetryState(n) \in JobState
    BY <1>0, DelayAssumption, RetryStateFits
  <2>4. QED
    BY <1>4, <2>1, <2>2, <2>3 DEF FinalizeRateLimited, Kinds
<1>5. ASSUME NEW d \in Delay, FinalizeNotSent(k, n, t, g, d)
      PROVE  Kinds /\ gate' \in Nat /\ gate' >= gate /\ clock' = clock
  <2>1. Completion(k, n, "RETRYABLE_FAILURE", RetryState(n), "transport_not_sent", d)
    BY <1>0, <1>5, RetryStateFits DEF FinalizeNotSent, Completion, Owns
  <2>2. d \in Nat /\ RetryState(n) \in JobState
    BY <1>0, DelayAssumption, RetryStateFits
  <2>3. QED
    BY <1>5, <2>1, <2>2 DEF FinalizeNotSent, Kinds, TypeOK
<1>6. ASSUME NEW d \in Delay, ConsumeLateObservations(k, n, t, g, d)
      PROVE  Kinds /\ gate' \in Nat /\ gate' >= gate /\ clock' = clock
  <2>1. PICK i \in UnconsumedLate(k, n) :
          \/ /\ observations[k][i].category = "processed"
             /\ Complete(k, n, "SUCCEEDED", "SUCCEEDED", "null", 0)
             /\ UNCHANGED gate
          \/ /\ observations[k][i].category = "rate_limited"
             /\ RaiseGate(d)
             /\ Complete(k, n, "RETRYABLE_FAILURE", RetryState(n), "rate_limited", d)
          \/ /\ observations[k][i].category \notin {"processed", "rate_limited"}
             /\ Complete(k, n, "PERMANENT_FAILURE", "FAILED_PERMANENT",
                         observations[k][i].category, 0)
             /\ UNCHANGED gate
    BY <1>6 DEF ConsumeLateObservations
  <2>2. Owns(k, n, t, g) /\ clock' = clock
    BY <1>6 DEF ConsumeLateObservations
  <2>3. CASE Complete(k, n, "SUCCEEDED", "SUCCEEDED", "null", 0) /\ UNCHANGED gate
    <3>1. Completion(k, n, "SUCCEEDED", "SUCCEEDED", "null", 0)
      BY <2>2, <2>3 DEF Completion, Owns, Agreement
    <3>2. QED
      BY <2>2, <2>3, <3>1 DEF Kinds, TypeOK
  <2>4. CASE /\ RaiseGate(d)
             /\ Complete(k, n, "RETRYABLE_FAILURE", RetryState(n), "rate_limited", d)
    <3>1. gate' \in Nat /\ gate' >= gate /\ gate' >= clock + d
      BY <2>4, RaisedGate
    <3>2. Completion(k, n, "RETRYABLE_FAILURE", RetryState(n), "rate_limited", d)
      BY <1>0, <2>2, <2>4, <3>1, RetryStateFits DEF Completion, Owns
    <3>3. d \in Nat /\ RetryState(n) \in JobState
      BY <1>0, DelayAssumption, RetryStateFits
    <3>4. QED
      BY <2>2, <3>1, <3>2, <3>3 DEF Kinds
  <2>5. CASE /\ observations[k][i].category \notin {"processed", "rate_limited"}
             /\ Complete(k, n, "PERMANENT_FAILURE", "FAILED_PERMANENT",
                         observations[k][i].category, 0)
             /\ UNCHANGED gate
    <3>1. observations[k][i].category \in Category
      BY <2>1, ObservationTyped DEF UnconsumedLate
    <3>2. Completion(k, n, "PERMANENT_FAILURE", "FAILED_PERMANENT",
                     observations[k][i].category, 0)
      BY <2>2, <2>5 DEF Completion, Owns, Agreement
    <3>3. QED
      BY <2>2, <2>5, <3>1, <3>2 DEF Kinds, TypeOK
  <2>6. QED
    BY <2>1, <2>3, <2>4, <2>5
<1>7. CASE MayAppend(k) /\ FinalizeRetained(k, n, t, g)
  BY <1>7 DEF FinalizeRetained, Kinds, TypeOK
<1>8. ASSUME NEW notBefore, AuthorizeReconciliationRequest(k, n, t, g, notBefore)
      PROVE  Kinds /\ gate' \in Nat /\ gate' >= gate /\ clock' = clock
  <2>1. LeaseChange(k, n, t, g)
    BY <1>8 DEF AuthorizeReconciliationRequest, MayReconcile, LeaseChange, Owns
  <2>2. QED
    BY <1>8, <2>1 DEF AuthorizeReconciliationRequest, Kinds, TypeOK
<1>9. ASSUME NEW disposition, RecordReconciliationResult(k, n, t, g, disposition)
      PROVE  Kinds /\ gate' \in Nat /\ gate' >= gate /\ clock' = clock
  <2>1. PICK as \in AttemptState, js \in JobState, e \in Category :
          /\ <<js, as>> \in Agreement
          /\ as \notin {"STARTED", "RETRYABLE_FAILURE"}
          /\ js # "RETRY_SCHEDULED"
          /\ e # "rate_limited"
          /\ Complete(k, n, as, js, e, 0)
    BY <1>9 DEF RecordReconciliationResult, Agreement
  <2>2. Completion(k, n, as, js, e, 0)
    BY <1>9, <2>1 DEF RecordReconciliationResult, Completion, Owns
  <2> HIDE DEF AttemptState, JobState, Category
  <2>3. Kinds
    <3>1. 0 \in Nat
      OBVIOUS
    <3>2. QED
      BY <2>2, <3>1, Zenon DEF Kinds
  <2>4. QED
    BY <1>9, <2>3 DEF RecordReconciliationResult, TypeOK
<1>10. QED
  BY <1>1, <1>2, <1>3, <1>4, <1>5, <1>6, <1>7, <1>8, <1>9 DEF OwnerStep

LEMMA AnyoneStepKinds ==
    ASSUME TypeOK, NEW k \in Key, NEW n \in AttemptNumbers(k), NEW t \in Token,
           AnyoneStep(k, n, t)
    PROVE  Kinds /\ gate' = gate /\ clock' = clock
<1>1. attempts[k][n] \in AttemptRow
  BY DEF TypeOK, AttemptNumbers
<1>2. CASE ClaimExpiredAttempt(k, n, attempts[k][n].owner, attempts[k][n].generation,
                               attempts[k][n].lease, t)
  <2>1. attempts[k][n].generation + 1 \in Nat
    BY <1>1 DEF AttemptRow
  <2>2. LeaseChange(k, n, t, attempts[k][n].generation + 1)
    BY <1>2 DEF ClaimExpiredAttempt, Claimable, LeaseChange
  <2>3. QED
    BY <1>2, <2>1, <2>2 DEF ClaimExpiredAttempt, Kinds
<1>3. CASE UNCHANGED <<jobs, attempts, gate, clock>>
  BY <1>3 DEF Kinds
<1>4. QED
  BY <1>2, <1>3 DEF AnyoneStep, AppendLateObservation, AppendObservation

(* Every step is of one of the kinds, never lowers the gate, and moves the  *)
(* wall clock only by Tick.                                                 *)
LEMMA NextKinds ==
    ASSUME TypeOK, [Next]_storeVars
    PROVE  /\ Kinds
           /\ gate' \in Nat /\ gate' >= gate
           /\ \/ clock' = clock
              \/ UNCHANGED <<jobs, attempts, gate>> /\ \E s \in ClockStep : clock' = clock + s
           /\ clock' \in Nat \ {0}
<1>1. ASSUME NEW k \in Key, NEW p \in Payload, DeferAttempt(k, p)
      PROVE  Kinds /\ gate' = gate /\ clock' = clock
  BY <1>1 DEF DeferAttempt, Defer, Kinds
<1>2. ASSUME NEW k \in Key, NEW p \in Payload, NEW t \in Token, StartAttempt(k, p, t)
      PROVE  Kinds /\ gate' = gate /\ clock' = clock
  BY <1>2 DEF StartAttempt, Authorize, Kinds
<1>3. ASSUME NEW k \in Key, NEW n \in AttemptNumbers(k), NEW t \in Token,
             \/ AnyoneStep(k, n, t)
             \/ OwnerStep(k, n, t, attempts[k][n].generation)
      PROVE  Kinds /\ gate' \in Nat /\ gate' >= gate /\ clock' = clock
  <2>1. attempts[k][n].generation \in Nat
    BY AttemptTyped
  <2>2. gate \in Nat
    BY DEF TypeOK
  <2>3. QED
    BY <1>3, <2>1, <2>2, AnyoneStepKinds, OwnerStepKinds
<1>4. ASSUME NEW d \in Delay, AdvanceGateForReconciliation(d)
      PROVE  Kinds /\ gate' \in Nat /\ gate' >= gate /\ clock' = clock
  BY <1>4, RaisedGate DEF AdvanceGateForReconciliation, Kinds
<1>5. CASE Tick
  BY <1>5, ClockAssumption DEF Tick, Kinds, TypeOK
<1>6. CASE UNCHANGED storeVars
  BY <1>6 DEF storeVars, Kinds, TypeOK
<1>7. gate \in Nat /\ clock \in Nat \ {0}
  BY DEF TypeOK
<1>8. QED
  BY <1>1, <1>2, <1>3, <1>4, <1>5, <1>6, <1>7 DEF Next

-----------------------------------------------------------------------------
(* A job with attempts has a latest attempt, and one that awaits a retry has *)
(* attempts.                                                                *)
LEMMA LatestTyped ==
    ASSUME TypeOK, JobMatchesAttempts, NEW k \in Key
    PROVE  /\ Len(attempts[k]) \in Nat
           /\ Len(attempts[k]) > 0 =>
                 /\ Len(attempts[k]) \in AttemptNumbers(k)
                 /\ Latest(k) = attempts[k][Len(attempts[k])]
           /\ jobs[k].state \notin {"ABSENT", "PENDING"} => Len(attempts[k]) > 0
           /\ jobs[k].state = "RETRY_SCHEDULED" => EligibleAt(k) \in Nat
<1>1. attempts[k] \in Seq(AttemptRow) /\ Len(attempts[k]) \in Nat
  BY DEF TypeOK
<1>2. Len(attempts[k]) > 0 => Len(attempts[k]) \in AttemptNumbers(k)
  BY <1>1 DEF AttemptNumbers
<1>3. jobs[k].state \notin {"ABSENT", "PENDING"} => Len(attempts[k]) > 0
  <2>1. Len(attempts[k]) = 0 => jobs[k].state \in {"ABSENT", "PENDING"}
    BY DEF JobMatchesAttempts
  <2>2. QED
    BY <1>1, <2>1
<1>4. ASSUME jobs[k].state = "RETRY_SCHEDULED"
      PROVE  EligibleAt(k) \in Nat
  <2>1. Len(attempts[k]) \in AttemptNumbers(k)
    BY <1>2, <1>3, <1>4
  <2>2. Latest(k).completedAt \in Nat /\ Latest(k).retryAfter \in Nat
    BY <2>1, AttemptTyped DEF Latest
  <2>3. QED
    BY <2>2 DEF EligibleAt
<1>5. QED
  BY <1>1, <1>2, <1>3, <1>4 DEF Latest

(* What starting an attempt does to the tables. *)
LEMMA StartEffect ==
    ASSUME TypeOK, JobMatchesAttempts, NEW k \in Key, NEW p \in Payload, NEW t \in Token, StartAttempt(k, p, t)
    PROVE  /\ attempts' \in [Key -> Seq(AttemptRow)]
           /\ jobs' \in [Key -> JobRow]
           /\ \A l \in Key : Len(attempts'[l]) =
                 IF l = k THEN Len(attempts[k]) + 1 ELSE Len(attempts[l])
           /\ \A l \in Key : \A m \in AttemptNumbers(l) : attempts'[l][m] = attempts[l][m]
           /\ attempts'[k][Len(attempts[k]) + 1] = StartedRow(t)
           /\ \A l \in Key : l # k => jobs'[l] = jobs[l]
           /\ jobs'[k].state = "SUBMITTING"
           /\ jobs[k].state \in {"ABSENT", "PENDING", "RETRY_SCHEDULED"}
           /\ gate <= clock /\ gate' = gate /\ clock' = clock
           /\ jobs[k].state = "RETRY_SCHEDULED" => EligibleAt(k) <= clock
<1>1. Appended(k, StartedRow(t))
  BY DEF StartAttempt, Authorize, Appended
<1>2. StartedRow(t) \in AttemptRow
  BY StartedRowTyped
<1> DEFINE job == InState(JobToSubmit(k, p), "SUBMITTING")
<1>3. jobs' = [jobs EXCEPT ![k] = job]
  BY DEF StartAttempt, Authorize
<1>4. JobToSubmit(k, p) \in JobRow
  <2>1. jobs[k] \in JobRow
    BY DEF TypeOK
  <2>2. NewJob(p) \in JobRow
    BY DEF NewJob, JobRow, JobState, TypeOK
  <2>3. QED
    BY <2>1, <2>2 DEF JobToSubmit
<1>5. job \in JobRow /\ job.state = "SUBMITTING"
  BY <1>4 DEF JobRow, JobState, InState
<1> HIDE DEF job
<1>6. /\ jobs' \in [Key -> JobRow]
      /\ \A l \in Key : l # k => jobs'[l] = jobs[l]
      /\ jobs'[k].state = "SUBMITTING"
  BY <1>3, <1>5 DEF TypeOK
<1>7. jobs[k].state \in {"ABSENT", "PENDING", "RETRY_SCHEDULED"}
  BY DEF StartAttempt, Submittable
<1>8. LaterOf(JobEligibleAt(k), gate) <= clock /\ gate' = gate /\ clock' = clock
  BY DEF StartAttempt, Authorize
<1>9. JobEligibleAt(k) \in Nat /\ gate \in Nat /\ clock \in Nat
  BY LatestTyped DEF JobEligibleAt, TypeOK
<1>10. JobEligibleAt(k) <= clock /\ gate <= clock
  BY <1>8, <1>9 DEF LaterOf
<1>11. jobs[k].state = "RETRY_SCHEDULED" => EligibleAt(k) <= clock
  BY <1>10 DEF JobEligibleAt
<1>12. QED
  BY <1>1, <1>2, <1>6, <1>7, <1>8, <1>10, <1>11, RowAppended

-----------------------------------------------------------------------------
(* The type invariant *)

LEMMA ObservedTyped ==
    ASSUME TypeOK, NEW k \in Key, NEW row \in ObservationRow, Observe(k, row)
    PROVE  observations' \in [Key -> Seq(ObservationRow)]
<1>1. observations[k] \in Seq(ObservationRow)
  BY DEF TypeOK
<1>2. DEFINE s == Append(observations[k], row)
<1>3. s \in Seq(ObservationRow)
  BY <1>1, AppendProperties
<1>4. observations' = [observations EXCEPT ![k] = s]
  BY DEF Observe
<1> HIDE DEF s
<1>5. QED
  BY <1>3, <1>4 DEF TypeOK

LEMMA NewObservationTyped ==
    ASSUME NEW n \in Nat, NEW op \in Operation, NEW c \in Category, NEW st \in Nat,
           NEW late \in BOOLEAN, NEW g \in Nat
    PROVE  Observation(n, op, c, st, late, g) \in ObservationRow
BY DEF Observation, ObservationRow

LEMMA ConsumedTyped ==
    ASSUME TypeOK, NEW k \in Key, NEW i \in DOMAIN observations[k],
           observations' = [observations EXCEPT ![k][i] = [@ EXCEPT !.consumed = TRUE]]
    PROVE  observations' \in [Key -> Seq(ObservationRow)]
<1>1. observations[k] \in Seq(ObservationRow) /\ i \in 1 .. Len(observations[k])
  BY DEF TypeOK
<1> DEFINE r == [observations[k][i] EXCEPT !.consumed = TRUE]
<1>2. r \in ObservationRow
  BY ObservationTyped DEF ObservationRow
<1> HIDE DEF r
<1> DEFINE s == [observations[k] EXCEPT ![i] = r]
<1>3. s \in Seq(ObservationRow)
  BY <1>1, <1>2, ExceptSeq
<1>4. observations' = [observations EXCEPT ![k] = s]
  BY DEF r
<1> HIDE DEF s
<1>5. QED
  BY <1>3, <1>4 DEF TypeOK

(* The owner's transactions write rows of the table. *)
LEMMA OwnerObservationsTyped ==
    ASSUME TypeOK, NEW k \in Key, NEW n \in AttemptNumbers(k), NEW t \in Token,
           NEW g \in Nat, OwnerStep(k, n, t, g)
    PROVE  observations' \in [Key -> Seq(ObservationRow)]
<1>0. n \in Nat /\ "SUBMISSION" \in Operation
  BY DEF AttemptNumbers, Operation
<1>1. ASSUME NEW c \in Category, NEW st \in Nat,
             Observe(k, Observation(n, "SUBMISSION", c, st, FALSE, g))
      PROVE  observations' \in [Key -> Seq(ObservationRow)]
  <2>1. Observation(n, "SUBMISSION", c, st, FALSE, g) \in ObservationRow
    BY <1>0, NewObservationTyped
  <2>2. QED
    BY <1>1, <2>1, ObservedTyped
<1>2. ASSUME NEW c \in {"validation_rejected", "idempotency_conflict"},
             FinalizePermanentFailure(k, n, t, g, c)
      PROVE  observations' \in [Key -> Seq(ObservationRow)]
  <2>1. c \in Category
    BY DEF Category
  <2>2. AuthoritativeStatus[c] \in Nat
    <3>1. CASE c = "validation_rejected"
      BY <3>1 DEF AuthoritativeStatus
    <3>2. CASE c = "idempotency_conflict"
      BY <3>2 DEF AuthoritativeStatus
    <3>3. QED
      BY <3>1, <3>2
  <2>3. Observe(k, Observation(n, "SUBMISSION", c, AuthoritativeStatus[c], FALSE, g))
    BY <1>2 DEF FinalizePermanentFailure
  <2>4. QED
    BY <1>1, <2>1, <2>2, <2>3
<1>3. ASSUME NEW d \in Delay, ConsumeLateObservations(k, n, t, g, d)
      PROVE  observations' \in [Key -> Seq(ObservationRow)]
  <2>1. PICK i \in UnconsumedLate(k, n) :
          observations' = [observations EXCEPT ![k][i] = [@ EXCEPT !.consumed = TRUE]]
    BY <1>3 DEF ConsumeLateObservations
  <2>2. i \in DOMAIN observations[k]
    BY DEF UnconsumedLate
  <2>3. QED
    BY <2>1, <2>2, ConsumedTyped
<1>4. ASSUME FinalizeSucceeded(k, n, t, g)
      PROVE  observations' \in [Key -> Seq(ObservationRow)]
  BY <1>1, <1>4 DEF FinalizeSucceeded, Category
<1>5. ASSUME NEW d \in Delay,
             FinalizeRateLimited(k, n, t, g, d) \/ FinalizeNotSent(k, n, t, g, d)
      PROVE  observations' \in [Key -> Seq(ObservationRow)]
  <2>1. \/ Observe(k, Observation(n, "SUBMISSION", "rate_limited", 429, FALSE, g))
        \/ Observe(k, Observation(n, "SUBMISSION", "transport_not_sent", 0, FALSE, g))
    BY <1>5 DEF FinalizeRateLimited, FinalizeNotSent
  <2>2. /\ "rate_limited" \in Category /\ "transport_not_sent" \in Category
        /\ 429 \in Nat /\ 0 \in Nat
    BY DEF Category
  <2>3. QED
    BY <1>1, <2>1, <2>2, Zenon
<1>6. ASSUME FinalizeRetained(k, n, t, g)
      PROVE  observations' \in [Key -> Seq(ObservationRow)]
  BY <1>1, <1>6 DEF FinalizeRetained, Category
<1>7. CASE observations' = observations
  BY <1>7 DEF TypeOK
<1>8. QED
  BY <1>2, <1>3, <1>4, <1>5, <1>6, <1>7
     DEF OwnerStep, RenewLease, AuthorizeReconciliationRequest, RecordReconciliationResult

LEMMA ObservationsTyped ==
    ASSUME TypeOK, [Next]_storeVars
    PROVE  observations' \in [Key -> Seq(ObservationRow)]
<1>0. observations \in [Key -> Seq(ObservationRow)]
  BY DEF TypeOK
<1>1. ASSUME NEW k \in Key, NEW n \in AttemptNumbers(k), NEW t \in Token, AnyoneStep(k, n, t)
      PROVE  observations' \in [Key -> Seq(ObservationRow)]
  <2>0. n \in Nat
    BY DEF AttemptNumbers
  <2>1. ASSUME NEW g \in Nat, NEW r \in LateReport, NEW op \in Operation,
               AppendLateObservation(k, n, g, op, r.category, r.status)
        PROVE  observations' \in [Key -> Seq(ObservationRow)]
    <3>1. Observation(n, op, r.category, r.status, TRUE, g) \in ObservationRow
      BY <2>0, LateAssumption, NewObservationTyped
    <3>2. QED
      BY <2>1, <3>1, ObservedTyped DEF AppendLateObservation
  <2>2. ASSUME NEW g \in Nat, NEW r \in GetReport,
               AppendObservation(k, n, g, r.category, r.status)
        PROVE  observations' \in [Key -> Seq(ObservationRow)]
    <3>1. r.category \in Category /\ r.status \in Nat /\ "RECONCILIATION" \in Operation
      BY DEF Category, Operation, GetReport
    <3>2. Observation(n, "RECONCILIATION", r.category, r.status, FALSE, g) \in ObservationRow
      BY <2>0, <3>1, NewObservationTyped
    <3>3. QED
      BY <2>2, <3>2, ObservedTyped DEF AppendObservation
  <2>3. CASE observations' = observations
    BY <1>0, <2>3
  <2>4. QED
    BY <1>1, <2>1, <2>2, <2>3 DEF AnyoneStep, ClaimExpiredAttempt
<1>2. ASSUME NEW k \in Key, NEW n \in AttemptNumbers(k), NEW t \in Token, NEW g \in Nat,
             OwnerStep(k, n, t, g)
      PROVE  observations' \in [Key -> Seq(ObservationRow)]
  BY <1>2, OwnerObservationsTyped
<1>3. ASSUME NEW k \in Key, NEW n \in AttemptNumbers(k), NEW t \in Token,
             OwnerStep(k, n, t, attempts[k][n].generation)
      PROVE  observations' \in [Key -> Seq(ObservationRow)]
  BY <1>2, <1>3, AttemptTyped
<1>4. CASE observations' = observations
  BY <1>0, <1>4
<1>5. QED
  BY <1>1, <1>3, <1>4
     DEF Next, storeVars, DeferAttempt, Defer, StartAttempt, Authorize,
         AdvanceGateForReconciliation, Tick

-----------------------------------------------------------------------------
(***************************************************************************)
(* The inductive invariant.  BudgetHeld alone is not inductive: a          *)
(* completion must be known to concern the latest attempt, which is what   *)
(* JobMatchesAttempts says of a STARTED row, and a start must be known to  *)
(* follow a completed attempt.  RetryDelayHonoured is preserved because a  *)
(* completed row with a successor never changes.                           *)
(***************************************************************************)
TableInv == JobMatchesAttempts /\ BudgetHeld /\ RetryDelayHonoured

StoreInv == TypeOK /\ TableInv

(* JobMatchesAttempts for one job. *)
LEMMA TablesAgree ==
    ASSUME JobMatchesAttempts, NEW k \in Key
    PROVE  /\ Len(attempts[k]) = 0 => jobs[k].state \in {"ABSENT", "PENDING"}
           /\ Len(attempts[k]) > 0 =>
                 <<jobs[k].state, attempts[k][Len(attempts[k])].state>> \in Agreement
           /\ \A m \in 1 .. (Len(attempts[k]) - 1) :
                 attempts[k][m].state = "RETRYABLE_FAILURE"
BY DEF JobMatchesAttempts, Latest

(* Only the latest attempt of a job can be STARTED. *)
LEMMA StartedIsLatest ==
    ASSUME StoreInv, NEW k \in Key, NEW n \in AttemptNumbers(k),
           attempts[k][n].state = "STARTED"
    PROVE  n = Len(attempts[k])
<1>1. Len(attempts[k]) \in Nat /\ n \in 1 .. Len(attempts[k])
  BY LatestTyped DEF StoreInv, TableInv, AttemptNumbers
<1>2. n \notin 1 .. (Len(attempts[k]) - 1)
  BY DEF StoreInv, TableInv, JobMatchesAttempts
<1>3. QED
  BY <1>1, <1>2

LEMMA StartKeepsTables ==
    ASSUME StoreInv, NEW k \in Key, NEW p \in Payload, NEW t \in Token, StartAttempt(k, p, t)
    PROVE  TableInv'
<1> DEFINE L == Len(attempts[k])
<1>0. TypeOK /\ JobMatchesAttempts /\ BudgetHeld /\ RetryDelayHonoured
  BY DEF StoreInv, TableInv
<1>1. /\ \A l \in Key : Len(attempts'[l]) = IF l = k THEN L + 1 ELSE Len(attempts[l])
      /\ \A l \in Key : \A m \in AttemptNumbers(l) : attempts'[l][m] = attempts[l][m]
      /\ attempts'[k][L + 1] = StartedRow(t)
      /\ \A l \in Key : l # k => jobs'[l] = jobs[l]
      /\ jobs'[k].state = "SUBMITTING"
      /\ jobs[k].state \in {"ABSENT", "PENDING", "RETRY_SCHEDULED"}
      /\ jobs[k].state = "RETRY_SCHEDULED" => EligibleAt(k) <= clock
  BY <1>0, StartEffect
<1>2. /\ StartedRow(t).state = "STARTED"
      /\ StartedRow(t).startedAt = clock
  BY DEF StartedRow
<1>3. \A l \in Key : Len(attempts[l]) \in Nat
  BY <1>0, LatestTyped
<1>4. L > 0 => /\ jobs[k].state = "RETRY_SCHEDULED"
               /\ attempts[k][L].state = "RETRYABLE_FAILURE"
  BY <1>0, <1>1, <1>3 DEF JobMatchesAttempts, Agreement, Latest
<1>5. L < MaxSubmissionAttempts
  <2>1. CASE L = 0
    BY <2>1, BudgetAssumption
  <2>2. CASE L > 0
    BY <1>0, <1>4, <2>2 DEF BudgetHeld
  <2>3. QED
    BY <1>3, <2>1, <2>2
<1>6. JobMatchesAttempts'
  <2> SUFFICES ASSUME NEW l \in Key
               PROVE  /\ Len(attempts'[l]) = 0 => jobs'[l].state \in {"ABSENT", "PENDING"}
                      /\ Len(attempts'[l]) > 0 =>
                            <<jobs'[l].state, attempts'[l][Len(attempts'[l])].state>> \in Agreement
                      /\ \A m \in 1 .. (Len(attempts'[l]) - 1) :
                            attempts'[l][m].state = "RETRYABLE_FAILURE"
    BY DEF JobMatchesAttempts, Latest
  <2>1. CASE l = k
    <3>1. Len(attempts'[k]) = L + 1 /\ L \in Nat
      BY <1>1, <1>3
    <3>2. <<jobs'[k].state, attempts'[k][L + 1].state>> \in Agreement
      BY <1>1, <1>2 DEF Agreement
    <3>3. \A m \in 1 .. L : attempts'[k][m].state = "RETRYABLE_FAILURE"
      <4> SUFFICES ASSUME NEW m \in 1 .. L
                   PROVE  attempts'[k][m].state = "RETRYABLE_FAILURE"
        OBVIOUS
      <4>1. attempts'[k][m] = attempts[k][m]
        BY <1>1 DEF AttemptNumbers
      <4>2. CASE m = L
        BY <1>4, <3>1, <4>1, <4>2
      <4>3. CASE m \in 1 .. (L - 1)
        <5>1. attempts[k][m].state = "RETRYABLE_FAILURE"
          BY <1>0, <4>3, TablesAgree
        <5>2. QED
          BY <4>1, <5>1
      <4>4. QED
        BY <3>1, <4>2, <4>3
    <3>4. QED
      BY <2>1, <3>1, <3>2, <3>3
  <2>2. CASE l # k
    <3>1. Len(attempts'[l]) = Len(attempts[l]) /\ jobs'[l] = jobs[l] /\ Len(attempts[l]) \in Nat
      BY <1>1, <1>3, <2>2
    <3>2. \A m \in 1 .. Len(attempts[l]) : attempts'[l][m] = attempts[l][m]
      BY <1>1 DEF AttemptNumbers
    <3>3. QED
      BY <1>0, <3>1, <3>2 DEF JobMatchesAttempts, Latest
  <2>3. QED
    BY <2>1, <2>2
<1>7. BudgetHeld'
  <2> SUFFICES ASSUME NEW l \in Key
               PROVE  /\ Len(attempts'[l]) <= MaxSubmissionAttempts
                      /\ jobs'[l].state = "RETRY_SCHEDULED"
                            => Len(attempts'[l]) < MaxSubmissionAttempts
                      /\ jobs'[l].state = "FAILED_PERMANENT"
                            /\ attempts'[l][Len(attempts'[l])].state = "RETRYABLE_FAILURE"
                            => Len(attempts'[l]) = MaxSubmissionAttempts
    BY DEF BudgetHeld, Latest
  <2>1. CASE l = k
    BY <1>1, <1>3, <1>5, <2>1, BudgetAssumption
  <2>2. CASE l # k
    <3>1. Len(attempts'[l]) = Len(attempts[l]) /\ jobs'[l] = jobs[l] /\ Len(attempts[l]) \in Nat
      BY <1>1, <1>3, <2>2
    <3>2. CASE Len(attempts[l]) = 0
      <4>1. jobs[l].state \in {"ABSENT", "PENDING"}
        BY <1>0, <3>2 DEF JobMatchesAttempts
      <4>2. QED
        BY <3>1, <3>2, <4>1, BudgetAssumption
    <3>3. CASE Len(attempts[l]) > 0
      <4>1. attempts'[l][Len(attempts[l])] = attempts[l][Len(attempts[l])]
        BY <1>1, <3>1, <3>3 DEF AttemptNumbers
      <4>2. QED
        BY <1>0, <3>1, <4>1 DEF BudgetHeld, Latest
    <3>4. QED
      BY <3>1, <3>2, <3>3
  <2>3. QED
    BY <2>1, <2>2
<1>8. RetryDelayHonoured'
  <2> SUFFICES ASSUME NEW l \in Key, NEW m \in 1 .. (Len(attempts'[l]) - 1)
               PROVE  attempts'[l][m + 1].startedAt
                        >= attempts'[l][m].completedAt + attempts'[l][m].retryAfter
    BY DEF RetryDelayHonoured
  <2>1. CASE l = k /\ m = L
    <3>1. L > 0 /\ attempts'[k][L] = attempts[k][L]
      BY <1>1, <1>3, <2>1 DEF AttemptNumbers
    <3>2. attempts[k][L].completedAt + attempts[k][L].retryAfter <= clock
      BY <1>1, <1>4, <3>1 DEF EligibleAt, Latest
    <3>3. attempts'[k][L + 1].startedAt = clock
      BY <1>1, <1>2
    <3>4. /\ L \in AttemptNumbers(k) /\ clock \in Nat
          /\ attempts[k][L].completedAt \in Nat /\ attempts[k][L].retryAfter \in Nat
      BY <1>0, <1>3, <3>1, AttemptTyped DEF AttemptNumbers, TypeOK
    <3>5. clock >= attempts[k][L].completedAt + attempts[k][L].retryAfter
      BY <3>2, <3>4
    <3>6. QED
      BY <2>1, <3>1, <3>3, <3>5
  <2>2. CASE ~(l = k /\ m = L)
    <3>1. m \in 1 .. (Len(attempts[l]) - 1)
      BY <1>1, <1>3, <2>2
    <3>2. attempts'[l][m] = attempts[l][m] /\ attempts'[l][m + 1] = attempts[l][m + 1]
      BY <1>1, <1>3, <3>1 DEF AttemptNumbers
    <3>3. QED
      BY <1>0, <3>1, <3>2 DEF RetryDelayHonoured
  <2>3. QED
    BY <2>1, <2>2
<1>9. QED
  BY <1>6, <1>7, <1>8 DEF TableInv

LEMMA CompletionKeepsTables ==
    ASSUME StoreInv, NEW k \in Key, NEW n \in AttemptNumbers(k),
           NEW as \in AttemptState, NEW js \in JobState, NEW e \in Category, NEW d \in Nat,
           Completion(k, n, as, js, e, d)
    PROVE  TableInv'
<1>0. TypeOK /\ JobMatchesAttempts /\ BudgetHeld /\ RetryDelayHonoured
  BY DEF StoreInv, TableInv
<1>1. /\ \A l \in Key : Len(attempts'[l]) = Len(attempts[l])
      /\ \A l \in Key : \A m \in AttemptNumbers(l) :
            l # k \/ m # n => attempts'[l][m] = attempts[l][m]
      /\ attempts'[k][n] = Completed(attempts[k][n], as, e, d)
      /\ \A l \in Key : l # k => jobs'[l] = jobs[l]
      /\ jobs'[k] = InState(jobs[k], js)
  <2>1. Complete(k, n, as, js, e, d)
    BY DEF Completion
  <2>2. QED
    BY <1>0, <2>1, CompleteEffect, ZenonT(60)
<1>2. n = Len(attempts[k]) /\ n \in Nat /\ n > 0
  BY StartedIsLatest DEF Completion, AttemptNumbers
<1>3. \A l \in Key : Len(attempts[l]) \in Nat
  BY <1>0, LatestTyped
<1>4. attempts'[k][n].state = as /\ jobs'[k].state = js
  <2>1. attempts[k][n] \in AttemptRow /\ jobs[k] \in JobRow
    BY <1>0, AttemptTyped DEF TypeOK
  <2>2. QED
    BY <1>1, <2>1 DEF AttemptRow, JobRow, Completed, InState
<1>5. JobMatchesAttempts'
  <2> SUFFICES ASSUME NEW l \in Key
               PROVE  /\ Len(attempts'[l]) = 0 => jobs'[l].state \in {"ABSENT", "PENDING"}
                      /\ Len(attempts'[l]) > 0 =>
                            <<jobs'[l].state, attempts'[l][Len(attempts'[l])].state>> \in Agreement
                      /\ \A m \in 1 .. (Len(attempts'[l]) - 1) :
                            attempts'[l][m].state = "RETRYABLE_FAILURE"
    BY DEF JobMatchesAttempts, Latest
  <2>1. CASE l = k
    <3>1. <<jobs'[k].state, attempts'[k][n].state>> \in Agreement
      BY <1>4 DEF Completion
    <3>2. \A m \in 1 .. (n - 1) : attempts'[k][m] = attempts[k][m]
      BY <1>1, <1>2 DEF AttemptNumbers
    <3>3. \A m \in 1 .. (n - 1) : attempts[k][m].state = "RETRYABLE_FAILURE"
      BY <1>0, <1>2, TablesAgree
    <3>4. Len(attempts'[k]) = n /\ n \in Nat /\ n > 0
      BY <1>1, <1>2
    <3>5. QED
      BY <2>1, <3>1, <3>2, <3>3, <3>4
  <2>2. CASE l # k
    <3>1. Len(attempts'[l]) = Len(attempts[l]) /\ jobs'[l] = jobs[l] /\ Len(attempts[l]) \in Nat
      BY <1>1, <1>3, <2>2
    <3>2. \A m \in 1 .. Len(attempts[l]) : attempts'[l][m] = attempts[l][m]
      BY <1>1, <2>2 DEF AttemptNumbers
    <3>3. QED
      BY <1>0, <3>1, <3>2 DEF JobMatchesAttempts, Latest
  <2>3. QED
    BY <2>1, <2>2
<1>6. BudgetHeld'
  <2> SUFFICES ASSUME NEW l \in Key
               PROVE  /\ Len(attempts'[l]) <= MaxSubmissionAttempts
                      /\ jobs'[l].state = "RETRY_SCHEDULED"
                            => Len(attempts'[l]) < MaxSubmissionAttempts
                      /\ jobs'[l].state = "FAILED_PERMANENT"
                            /\ attempts'[l][Len(attempts'[l])].state = "RETRYABLE_FAILURE"
                            => Len(attempts'[l]) = MaxSubmissionAttempts
    BY DEF BudgetHeld, Latest
  <2>1. CASE l = k
    <3>1. n <= MaxSubmissionAttempts
      BY <1>0, <1>2 DEF BudgetHeld
    <3>2. /\ js = "RETRY_SCHEDULED" => n < MaxSubmissionAttempts
          /\ js = "FAILED_PERMANENT" /\ as = "RETRYABLE_FAILURE" => ~(n < MaxSubmissionAttempts)
      BY DEF Completion
    <3>3. Len(attempts'[k]) = n /\ n \in Nat /\ MaxSubmissionAttempts \in Nat
      BY <1>1, <1>2, BudgetAssumption
    <3>4. ~(n < MaxSubmissionAttempts) => n = MaxSubmissionAttempts
      BY <3>1, <3>3
    <3>5. QED
      BY <1>4, <2>1, <3>1, <3>2, <3>3, <3>4
  <2>2. CASE l # k
    <3>1. Len(attempts'[l]) = Len(attempts[l]) /\ jobs'[l] = jobs[l] /\ Len(attempts[l]) \in Nat
      BY <1>1, <1>3, <2>2
    <3>2. CASE Len(attempts[l]) = 0
      <4>1. jobs[l].state \in {"ABSENT", "PENDING"}
        BY <1>0, <3>2 DEF JobMatchesAttempts
      <4>2. QED
        BY <3>1, <3>2, <4>1, BudgetAssumption
    <3>3. CASE Len(attempts[l]) > 0
      <4>1. attempts'[l][Len(attempts[l])] = attempts[l][Len(attempts[l])]
        BY <1>1, <2>2, <3>1, <3>3 DEF AttemptNumbers
      <4>2. QED
        BY <1>0, <3>1, <4>1 DEF BudgetHeld, Latest
    <3>4. QED
      BY <3>1, <3>2, <3>3
  <2>3. QED
    BY <2>1, <2>2
<1>7. RetryDelayHonoured'
  <2> SUFFICES ASSUME NEW l \in Key, NEW m \in 1 .. (Len(attempts'[l]) - 1)
               PROVE  attempts'[l][m + 1].startedAt
                        >= attempts'[l][m].completedAt + attempts'[l][m].retryAfter
    BY DEF RetryDelayHonoured
  <2>1. m \in 1 .. (Len(attempts[l]) - 1)
    BY <1>1
  <2>2. attempts'[l][m] = attempts[l][m]
    BY <1>1, <1>2, <1>3, <2>1 DEF AttemptNumbers
  <2>3. attempts'[l][m + 1].startedAt = attempts[l][m + 1].startedAt
    <3>1. m + 1 \in AttemptNumbers(l)
      BY <1>3, <2>1 DEF AttemptNumbers
    <3>2. CASE l = k /\ m + 1 = n
      <4>1. attempts[k][n] \in AttemptRow
        BY <1>0, AttemptTyped
      <4>2. attempts'[k][n].startedAt = attempts[k][n].startedAt
        BY <1>1, <4>1 DEF AttemptRow, Completed
      <4>3. QED
        BY <3>2, <4>2
    <3>3. CASE ~(l = k /\ m + 1 = n)
      BY <1>1, <3>1, <3>3
    <3>4. QED
      BY <3>2, <3>3
  <2>4. QED
    BY <1>0, <2>1, <2>2, <2>3 DEF RetryDelayHonoured
<1>8. QED
  BY <1>5, <1>6, <1>7 DEF TableInv

(* The same rows in every field the invariants speak of. *)
SameOutcomes ==
    /\ \A l \in Key : jobs'[l].state = jobs[l].state \/
                      (Len(attempts[l]) = 0 /\ jobs'[l].state = "PENDING")
    /\ \A l \in Key : Len(attempts'[l]) = Len(attempts[l])
    /\ \A l \in Key : \A m \in AttemptNumbers(l) :
          /\ attempts'[l][m].state = attempts[l][m].state
          /\ attempts'[l][m].startedAt = attempts[l][m].startedAt
          /\ attempts'[l][m].completedAt = attempts[l][m].completedAt
          /\ attempts'[l][m].retryAfter = attempts[l][m].retryAfter

LEMMA SameOutcomesKeepTables ==
    ASSUME StoreInv, SameOutcomes
    PROVE  TableInv'
<1>0. TypeOK /\ JobMatchesAttempts /\ BudgetHeld /\ RetryDelayHonoured
  BY DEF StoreInv, TableInv
<1>1. ASSUME NEW l \in Key
      PROVE  /\ Len(attempts'[l]) = Len(attempts[l]) /\ Len(attempts[l]) \in Nat
             /\ \A m \in 1 .. Len(attempts[l]) :
                   /\ attempts'[l][m].state = attempts[l][m].state
                   /\ attempts'[l][m].startedAt = attempts[l][m].startedAt
                   /\ attempts'[l][m].completedAt = attempts[l][m].completedAt
                   /\ attempts'[l][m].retryAfter = attempts[l][m].retryAfter
  BY <1>0, LatestTyped DEF SameOutcomes, AttemptNumbers
<1>2. ASSUME NEW l \in Key
      PROVE  /\ Len(attempts[l]) = 0 => jobs'[l].state \in {"ABSENT", "PENDING"}
             /\ Len(attempts[l]) > 0 => jobs'[l].state = jobs[l].state
  <2>1. jobs'[l].state = jobs[l].state \/ (Len(attempts[l]) = 0 /\ jobs'[l].state = "PENDING")
    BY DEF SameOutcomes
  <2>2. Len(attempts[l]) = 0 => jobs[l].state \in {"ABSENT", "PENDING"}
    BY <1>0, TablesAgree
  <2>3. QED
    BY <2>1, <2>2
<1>3. JobMatchesAttempts'
  <2> SUFFICES ASSUME NEW l \in Key
               PROVE  /\ Len(attempts'[l]) = 0 => jobs'[l].state \in {"ABSENT", "PENDING"}
                      /\ Len(attempts'[l]) > 0 =>
                            <<jobs'[l].state, attempts'[l][Len(attempts'[l])].state>> \in Agreement
                      /\ \A m \in 1 .. (Len(attempts'[l]) - 1) :
                            attempts'[l][m].state = "RETRYABLE_FAILURE"
    BY DEF JobMatchesAttempts, Latest
  <2>1. QED
    BY <1>0, <1>1, <1>2 DEF JobMatchesAttempts, Latest
<1>4. BudgetHeld'
  <2> SUFFICES ASSUME NEW l \in Key
               PROVE  /\ Len(attempts'[l]) <= MaxSubmissionAttempts
                      /\ jobs'[l].state = "RETRY_SCHEDULED"
                            => Len(attempts'[l]) < MaxSubmissionAttempts
                      /\ jobs'[l].state = "FAILED_PERMANENT"
                            /\ attempts'[l][Len(attempts'[l])].state = "RETRYABLE_FAILURE"
                            => Len(attempts'[l]) = MaxSubmissionAttempts
    BY DEF BudgetHeld, Latest
  <2>1. CASE Len(attempts[l]) = 0
    BY <1>1, <1>2, <2>1, BudgetAssumption
  <2>2. CASE Len(attempts[l]) > 0
    BY <1>0, <1>1, <1>2, <2>2 DEF BudgetHeld, Latest
  <2>3. QED
    BY <1>1, <2>1, <2>2
<1>5. RetryDelayHonoured'
  BY <1>0, <1>1 DEF RetryDelayHonoured
<1>6. QED
  BY <1>3, <1>4, <1>5 DEF TableInv

LEMMA LeaseChangeEffect ==
    ASSUME TypeOK, NEW k \in Key, NEW n \in AttemptNumbers(k), NEW t \in Token, NEW g \in Nat,
           LeaseChange(k, n, t, g)
    PROVE  /\ attempts' \in [Key -> Seq(AttemptRow)]
           /\ jobs' = jobs
           /\ \A l \in Key : Len(attempts'[l]) = Len(attempts[l])
           /\ \A l \in Key : \A m \in AttemptNumbers(l) :
                 l # k \/ m # n => attempts'[l][m] = attempts[l][m]
           /\ attempts'[k][n].state = attempts[k][n].state
           /\ attempts'[k][n].startedAt = attempts[k][n].startedAt
           /\ attempts'[k][n].completedAt = attempts[k][n].completedAt
           /\ attempts'[k][n].retryAfter = attempts[k][n].retryAfter
           /\ attempts'[k][n].error = attempts[k][n].error
           /\ attempts'[k][n].owner = t
           /\ attempts'[k][n].generation = g
<1>1. SetLease(k, n, t, g) /\ jobs' = jobs
  BY DEF LeaseChange
<1>2. attempts[k][n] \in AttemptRow
  BY AttemptTyped
<1>3. attempts'[k][n] = Leased(attempts[k][n], t, g)
  BY <1>1, SetLeaseEffect
<1>4. /\ attempts'[k][n].state = attempts[k][n].state
      /\ attempts'[k][n].startedAt = attempts[k][n].startedAt
      /\ attempts'[k][n].completedAt = attempts[k][n].completedAt
      /\ attempts'[k][n].retryAfter = attempts[k][n].retryAfter
      /\ attempts'[k][n].error = attempts[k][n].error
      /\ attempts'[k][n].owner = t
      /\ attempts'[k][n].generation = g
  BY <1>2, <1>3 DEF Leased, AttemptRow
<1>5. QED
  BY <1>1, <1>4, SetLeaseEffect

(* What a completion does, field by field. *)
LEMMA CompletionEffect ==
    ASSUME TypeOK, NEW k \in Key, NEW n \in AttemptNumbers(k),
           NEW as \in AttemptState, NEW js \in JobState, NEW e \in Category, NEW d \in Nat,
           Completion(k, n, as, js, e, d)
    PROVE  /\ \A l \in Key : Len(attempts'[l]) = Len(attempts[l])
           /\ \A l \in Key : \A m \in AttemptNumbers(l) :
                 l # k \/ m # n => attempts'[l][m] = attempts[l][m]
           /\ \A l \in Key : l # k => jobs'[l] = jobs[l] /\ attempts'[l] = attempts[l]
           /\ jobs[k].state = "SUBMITTING" /\ jobs'[k].state = js
           /\ attempts[k][n].state = "STARTED" /\ attempts'[k][n].state = as
           /\ as # "STARTED"
           /\ attempts'[k][n].startedAt = attempts[k][n].startedAt
           /\ attempts'[k][n].completedAt = clock
           /\ attempts'[k][n].retryAfter = d
           /\ attempts'[k][n].error = e
           /\ attempts'[k][n].owner = NoToken
           /\ attempts'[k][n].generation = attempts[k][n].generation
<1>1. Complete(k, n, as, js, e, d)
  BY DEF Completion
<1>2. attempts[k][n] \in AttemptRow /\ jobs[k] \in JobRow
  BY AttemptTyped DEF TypeOK
<1>3. attempts'[k][n] = Completed(attempts[k][n], as, e, d) /\ jobs'[k] = InState(jobs[k], js)
  BY <1>1, CompleteEffect, ZenonT(60)
<1>4. /\ attempts'[k][n].state = as
      /\ attempts'[k][n].startedAt = attempts[k][n].startedAt
      /\ attempts'[k][n].completedAt = clock
      /\ attempts'[k][n].retryAfter = d
      /\ attempts'[k][n].error = e
      /\ attempts'[k][n].owner = NoToken
      /\ attempts'[k][n].generation = attempts[k][n].generation
  BY <1>2, <1>3 DEF Completed, AttemptRow
<1>5. jobs'[k].state = js
  BY <1>2, <1>3 DEF InState, JobRow
<1>6. \A l \in Key : l # k => attempts'[l] = attempts[l]
  BY <1>1 DEF Complete, TypeOK
<1>7. /\ jobs[k].state = "SUBMITTING" /\ attempts[k][n].state = "STARTED"
      /\ as # "STARTED"
  BY DEF Completion
<1>8. QED
  BY <1>1, <1>4, <1>5, <1>6, <1>7, CompleteEffect, ZenonT(60)

LEMMA DeferEffect ==
    ASSUME TypeOK, JobMatchesAttempts, NEW k \in Key, NEW p \in Payload, DeferAttempt(k, p)
    PROVE  /\ attempts' = attempts
           /\ jobs' \in [Key -> JobRow]
           /\ \A l \in Key : l # k => jobs'[l] = jobs[l]
           /\ \/ jobs'[k] = jobs[k]
              \/ jobs[k].state = "ABSENT" /\ jobs'[k].state = "PENDING"
                 /\ Len(attempts[k]) = 0
<1>1. jobs' = [jobs EXCEPT ![k] = JobToSubmit(k, p)] /\ attempts' = attempts
  BY DEF DeferAttempt, Defer
<1>2. NewJob(p) \in JobRow /\ NewJob(p).state = "PENDING"
  BY DEF NewJob, JobRow, JobState, TypeOK
<1>3. jobs[k] \in JobRow
  BY DEF TypeOK
<1>4. JobToSubmit(k, p) \in JobRow
  BY <1>2, <1>3 DEF JobToSubmit
<1>5. jobs'[k] = JobToSubmit(k, p) /\ jobs' \in [Key -> JobRow]
  BY <1>1, <1>4 DEF TypeOK
<1>6. jobs[k].state = "ABSENT" => Len(attempts[k]) = 0
  <2>1. Len(attempts[k]) > 0 => <<jobs[k].state, attempts[k][Len(attempts[k])].state>> \in Agreement
    BY TablesAgree
  <2>2. Len(attempts[k]) \in Nat
    BY LatestTyped
  <2>3. QED
    BY <2>1, <2>2 DEF Agreement
<1>7. QED
  BY <1>1, <1>2, <1>5, <1>6 DEF JobToSubmit, TypeOK

(* Steps of these kinds keep the types of the two tables. *)
LEMMA KindsKeepTypes ==
    ASSUME TypeOK, JobMatchesAttempts, Kinds
    PROVE  jobs' \in [Key -> JobRow] /\ attempts' \in [Key -> Seq(AttemptRow)]
<1>1. ASSUME NEW k \in Key, NEW p \in Payload, NEW t \in Token, StartAttempt(k, p, t)
      PROVE  jobs' \in [Key -> JobRow] /\ attempts' \in [Key -> Seq(AttemptRow)]
  BY <1>1, StartEffect
<1>2. ASSUME NEW k \in Key, NEW p \in Payload, DeferAttempt(k, p)
      PROVE  jobs' \in [Key -> JobRow] /\ attempts' \in [Key -> Seq(AttemptRow)]
  BY <1>2, DeferEffect DEF TypeOK
<1>3. ASSUME NEW k \in Key, NEW n \in AttemptNumbers(k), NEW t \in Token, NEW g \in Nat,
             LeaseChange(k, n, t, g)
      PROVE  jobs' \in [Key -> JobRow] /\ attempts' \in [Key -> Seq(AttemptRow)]
  BY <1>3, LeaseChangeEffect DEF TypeOK
<1>4. ASSUME NEW k \in Key, NEW n \in AttemptNumbers(k), NEW as \in AttemptState,
             NEW js \in JobState, NEW e \in Category, NEW d \in Nat,
             Completion(k, n, as, js, e, d)
      PROVE  jobs' \in [Key -> JobRow] /\ attempts' \in [Key -> Seq(AttemptRow)]
  <2>1. Complete(k, n, as, js, e, d)
    BY <1>4 DEF Completion
  <2>2. QED
    BY <2>1, CompleteEffect, ZenonT(60)
<1>5. CASE UNCHANGED <<jobs, attempts>>
  BY <1>5 DEF TypeOK
<1>6. QED
  BY <1>1, <1>2, <1>3, <1>4, <1>5 DEF Kinds

(* One step of the type invariant. *)
LEMMA TypeStep ==
    ASSUME StoreInv, [Next]_storeVars
    PROVE  TypeOK'
<1>0. TypeOK /\ JobMatchesAttempts
  BY DEF StoreInv, TableInv
<1>1. Kinds /\ gate' \in Nat /\ clock' \in Nat \ {0}
  BY <1>0, NextKinds
<1>2. observations' \in [Key -> Seq(ObservationRow)]
  BY <1>0, ObservationsTyped
<1>3. jobs' \in [Key -> JobRow] /\ attempts' \in [Key -> Seq(AttemptRow)]
  BY <1>0, <1>1, KindsKeepTypes
<1>4. QED
  BY <1>1, <1>2, <1>3 DEF TypeOK

LEMMA StoreInvInit == Init => StoreInv
<1> SUFFICES ASSUME Init PROVE StoreInv
  OBVIOUS
<1>1. TypeOK
  BY DEF Init, TypeOK, JobRow, JobState
<1>2. \A k \in Key : Len(attempts[k]) = 0 /\ jobs[k].state = "ABSENT"
  BY DEF Init
<1>3. JobMatchesAttempts /\ BudgetHeld /\ RetryDelayHonoured
  BY <1>2, BudgetAssumption DEF JobMatchesAttempts, BudgetHeld, RetryDelayHonoured
<1>4. QED
  BY <1>1, <1>3 DEF StoreInv, TableInv

(* Steps of these kinds keep the tables in agreement. *)
LEMMA KindsKeepTables ==
    ASSUME StoreInv, Kinds
    PROVE  TableInv'
<1>0. TypeOK /\ JobMatchesAttempts
  BY DEF StoreInv, TableInv
<1>1. ASSUME NEW k \in Key, NEW p \in Payload, NEW t \in Token, StartAttempt(k, p, t)
      PROVE  TableInv'
  BY <1>1, StartKeepsTables
<1>2. ASSUME NEW k \in Key, NEW p \in Payload, DeferAttempt(k, p)
      PROVE  TableInv'
  <2>1. SameOutcomes
    BY <1>0, <1>2, DeferEffect DEF SameOutcomes
  <2>2. QED
    BY <2>1, SameOutcomesKeepTables
<1>3. ASSUME NEW k \in Key, NEW n \in AttemptNumbers(k), NEW t \in Token, NEW g \in Nat,
             LeaseChange(k, n, t, g)
      PROVE  TableInv'
  <2>1. SameOutcomes
    BY <1>0, <1>3, LeaseChangeEffect DEF SameOutcomes
  <2>2. QED
    BY <2>1, SameOutcomesKeepTables
<1>4. ASSUME NEW k \in Key, NEW n \in AttemptNumbers(k), NEW as \in AttemptState,
             NEW js \in JobState, NEW e \in Category, NEW d \in Nat,
             Completion(k, n, as, js, e, d)
      PROVE  TableInv'
  BY <1>4, CompletionKeepsTables
<1>5. CASE UNCHANGED <<jobs, attempts>>
  <2>1. SameOutcomes
    BY <1>5 DEF SameOutcomes
  <2>2. QED
    BY <2>1, SameOutcomesKeepTables
<1>6. QED
  BY <1>1, <1>2, <1>3, <1>4, <1>5 DEF Kinds

LEMMA StoreInvStep ==
    ASSUME StoreInv, [Next]_storeVars
    PROVE  StoreInv'
<1>0. TypeOK /\ JobMatchesAttempts
  BY DEF StoreInv, TableInv
<1>1. Kinds
  BY <1>0, NextKinds
<1>2. TypeOK'
  BY TypeStep
<1>3. TableInv'
  BY <1>1, KindsKeepTables
<1>4. QED
  BY <1>2, <1>3 DEF StoreInv

(* Whatever invocations do and however the wall clock is stepped: the       *)
(* tables keep their types, job states are explained by attempts, the       *)
(* lifetime budget holds and recorded retry delays are honoured.            *)
THEOREM StoreInvariant == Spec => []StoreInv
<1>1. Init => StoreInv
  BY StoreInvInit
<1>2. StoreInv /\ [Next]_storeVars => StoreInv'
  BY StoreInvStep
<1>3. QED
  BY <1>1, <1>2, PTL DEF Spec

(* The type invariant of the store. *)
THEOREM TypeCorrect == Spec => []TypeOK
<1>1. StoreInv => TypeOK
  BY DEF StoreInv
<1>2. QED
  BY <1>1, StoreInvariant, PTL

(* No state of the store lets _route_existing_job meet contradicting tables. *)
THEOREM TablesNeverDisagree == Spec => []JobMatchesAttempts
<1>1. StoreInv => JobMatchesAttempts
  BY DEF StoreInv, TableInv
<1>2. QED
  BY <1>1, StoreInvariant, PTL

(* The lifetime submission budget holds for every budget. *)
THEOREM BudgetNeverExceeded == Spec => []BudgetHeld
<1>1. StoreInv => BudgetHeld
  BY DEF StoreInv, TableInv
<1>2. QED
  BY <1>1, StoreInvariant, PTL

(* No attempt starts before the delay recorded with its predecessor is over. *)
THEOREM RetryDelayAlwaysHonoured == Spec => []RetryDelayHonoured
<1>1. StoreInv => RetryDelayHonoured
  BY DEF StoreInv, TableInv
<1>2. QED
  BY <1>1, StoreInvariant, PTL

-----------------------------------------------------------------------------
(* Action properties *)

(* No step of these kinds changes what is final. *)
LEMMA KindsAreFinal ==
    ASSUME StoreInv, Kinds
    PROVE  FinalStep
<1>0. TypeOK /\ JobMatchesAttempts
  BY DEF StoreInv, TableInv
<1>2. \A l \in Key : Len(attempts[l]) \in Nat
  BY <1>0, LatestTyped
<1> DEFINE Final(l) ==
      /\ Len(attempts'[l]) >= Len(attempts[l])
      /\ \A m \in AttemptNumbers(l) :
            attempts[l][m].state # "STARTED" => attempts'[l][m] = attempts[l][m]
      /\ jobs[l].state \in Terminal => jobs'[l] = jobs[l] /\ attempts'[l] = attempts[l]
<1>3. ASSUME NEW l \in Key
      PROVE  Final(l)
  <2>1. ASSUME NEW k \in Key, NEW p \in Payload, NEW t \in Token, StartAttempt(k, p, t)
        PROVE  Final(l)
    <3>1. l # k => attempts'[l] = attempts[l]
      BY <1>0, <2>1 DEF StartAttempt, Authorize, TypeOK
    <3>2. jobs[k].state \notin Terminal
      BY <1>0, <2>1, StartEffect DEF Terminal
    <3>3. QED
      BY <1>0, <1>2, <2>1, <3>1, <3>2, StartEffect
  <2>2. ASSUME NEW k \in Key, NEW p \in Payload, DeferAttempt(k, p)
        PROVE  Final(l)
    BY <1>0, <1>2, <2>2, DeferEffect DEF Terminal
  <2>3. ASSUME NEW k \in Key, NEW n \in AttemptNumbers(k), NEW t \in Token, NEW g \in Nat,
               LeaseChange(k, n, t, g)
        PROVE  Final(l)
    <3>1. l # k => attempts'[l] = attempts[l]
      BY <1>0, <2>3 DEF LeaseChange, SetLease, TypeOK
    <3>2. jobs[k].state \notin Terminal /\ attempts[k][n].state = "STARTED"
      BY <2>3 DEF LeaseChange, Terminal
    <3>3. QED
      BY <1>0, <1>2, <2>3, <3>1, <3>2, LeaseChangeEffect
  <2>4. ASSUME NEW k \in Key, NEW n \in AttemptNumbers(k), NEW as \in AttemptState,
               NEW js \in JobState, NEW e \in Category, NEW d \in Nat,
               Completion(k, n, as, js, e, d)
        PROVE  Final(l)
    <3>0. Complete(k, n, as, js, e, d)
      BY <2>4 DEF Completion
    <3>1. l # k => attempts'[l] = attempts[l]
      BY <1>0, <3>0 DEF Complete, TypeOK
    <3>2. jobs[k].state \notin Terminal /\ attempts[k][n].state = "STARTED"
      BY <2>4 DEF Completion, Terminal
    <3>3. /\ \A j \in Key : Len(attempts'[j]) = Len(attempts[j])
          /\ \A j \in Key : \A m \in AttemptNumbers(j) :
                j # k \/ m # n => attempts'[j][m] = attempts[j][m]
          /\ \A j \in Key : j # k => jobs'[j] = jobs[j]
      BY <1>0, <3>0, CompleteEffect, ZenonT(60)
    <3>4. QED
      BY <1>2, <3>1, <3>2, <3>3
  <2>5. CASE UNCHANGED <<jobs, attempts>>
    BY <1>2, <2>5
  <2>6. QED
    BY <2>1, <2>2, <2>3, <2>4, <2>5 DEF Kinds
<1>4. QED
  BY <1>3 DEF FinalStep

LEMMA FinalStepHolds ==
    ASSUME StoreInv, [Next]_storeVars
    PROVE  FinalStep
<1>1. Kinds
  BY NextKinds DEF StoreInv, TableInv
<1>. QED
  BY <1>1, KindsAreFinal

(* Outcomes are final for every instance: no transaction reclassifies a     *)
(* completed attempt or touches a terminal job.                             *)
THEOREM OutcomesStayFinal == Spec => OutcomesAreFinal
<1>1. StoreInv /\ [Next]_storeVars => FinalStep
  BY FinalStepHolds
<1>2. QED
  BY <1>1, StoreInvariant, PTL DEF Spec, OutcomesAreFinal

LEMMA KindsTakeOver ==
    ASSUME StoreInv, Kinds
    PROVE  TakeoverStep
<1>0. TypeOK /\ JobMatchesAttempts
  BY DEF StoreInv, TableInv
<1> DEFINE Fenced(l, m) ==
      \/ /\ attempts'[l][m].generation = attempts[l][m].generation
         /\ attempts'[l][m].owner \in {attempts[l][m].owner, NoToken}
      \/ /\ attempts'[l][m].generation = attempts[l][m].generation + 1
         /\ attempts[l][m].lease <= clock
<1>2. ASSUME NEW l \in Key, NEW m \in AttemptNumbers(l)
      PROVE  Fenced(l, m)
  <2>1. ASSUME NEW k \in Key, NEW p \in Payload, NEW t \in Token, StartAttempt(k, p, t)
        PROVE  Fenced(l, m)
    BY <1>0, <2>1, StartEffect
  <2>2. ASSUME NEW k \in Key, NEW p \in Payload, DeferAttempt(k, p)
        PROVE  Fenced(l, m)
    BY <1>0, <2>2, DeferEffect
  <2>3. ASSUME NEW k \in Key, NEW n \in AttemptNumbers(k), NEW t \in Token, NEW g \in Nat,
               LeaseChange(k, n, t, g)
        PROVE  Fenced(l, m)
    <3>1. l # k \/ m # n => attempts'[l][m] = attempts[l][m]
      BY <1>0, <2>3, LeaseChangeEffect
    <3>2. attempts'[k][n].owner = t /\ attempts'[k][n].generation = g
      BY <1>0, <2>3, LeaseChangeEffect
    <3>3. \/ attempts[k][n].owner = t /\ attempts[k][n].generation = g
          \/ g = attempts[k][n].generation + 1 /\ attempts[k][n].lease <= clock
      BY <2>3 DEF LeaseChange, Owns
    <3>4. QED
      BY <3>1, <3>2, <3>3
  <2>4. ASSUME NEW k \in Key, NEW n \in AttemptNumbers(k), NEW as \in AttemptState,
               NEW js \in JobState, NEW e \in Category, NEW d \in Nat,
               Completion(k, n, as, js, e, d)
        PROVE  Fenced(l, m)
    <3>1. Complete(k, n, as, js, e, d)
      BY <2>4 DEF Completion
    <3>2. l # k \/ m # n => attempts'[l][m] = attempts[l][m]
      BY <1>0, <3>1, CompleteEffect, ZenonT(60)
    <3>5. /\ attempts'[k][n].generation = attempts[k][n].generation
          /\ attempts'[k][n].owner = NoToken
      BY <1>0, <2>4, CompletionEffect, ZenonT(60)
    <3>6. CASE l = k /\ m = n
      BY <3>5, <3>6
    <3>7. CASE ~(l = k /\ m = n)
      BY <3>2, <3>7
    <3>8. QED
      BY <3>6, <3>7
  <2>5. CASE UNCHANGED <<jobs, attempts>>
    BY <2>5
  <2>6. QED
    BY <2>1, <2>2, <2>3, <2>4, <2>5 DEF Kinds
<1>3. QED
  BY <1>2 DEF TakeoverStep

(* An active attempt changes hands only after its lease expired, and only   *)
(* with a larger fencing generation.                                        *)
THEOREM TakeoverAlwaysFenced == Spec => TakeoverIsFenced
<1>1. StoreInv /\ [Next]_storeVars => TakeoverStep
  BY NextKinds, KindsTakeOver DEF StoreInv
<1>2. QED
  BY <1>1, StoreInvariant, PTL DEF Spec, TakeoverIsFenced

-----------------------------------------------------------------------------
(***************************************************************************)
(* Properties that need a wall clock which never moves back.               *)
(***************************************************************************)
ForwardClock == ClockStep \subseteq Nat

LEMMA ClockForward ==
    ASSUME ForwardClock, TypeOK, [Next]_storeVars
    PROVE  clock' \in Nat /\ clock \in Nat /\ clock' >= clock
<1>1. clock \in Nat
  BY DEF TypeOK
<1>2. clock' = clock \/ \E s \in Nat : clock' = clock + s
  BY NextKinds DEF ForwardClock
<1>3. QED
  BY <1>1, <1>2

LEMMA KindsRegainNothing ==
    ASSUME StoreInv, Kinds, clock' \in Nat, clock' >= clock
    PROVE  NoRegainStep
<1>0. TypeOK /\ JobMatchesAttempts
  BY DEF StoreInv, TableInv
<1>2. clock' \in Nat /\ clock \in Nat /\ clock' >= clock
  BY <1>0 DEF TypeOK
<1>3. SUFFICES ASSUME NEW l \in Key, NEW m \in AttemptNumbers(l), NEW u \in Token,
                      NEW h \in 1 .. attempts[l][m].generation,
                      Owns(l, m, u, h)'
               PROVE  Owns(l, m, u, h)
  BY DEF NoRegainStep
<1>4. /\ jobs'[l].state = "SUBMITTING"
      /\ attempts'[l][m].state = "STARTED"
      /\ attempts'[l][m].owner = u
      /\ attempts'[l][m].generation = h
      /\ attempts'[l][m].lease > clock'
  BY <1>3 DEF Owns
<1>5. attempts[l][m].lease \in Nat /\ attempts[l][m].generation \in Nat
  BY <1>0, AttemptTyped
(* A row that the step leaves alone was already owned before it. *)
<1>6. ASSUME attempts'[l][m] = attempts[l][m], jobs[l].state = "SUBMITTING"
      PROVE  Owns(l, m, u, h)
  BY <1>2, <1>4, <1>5, <1>6 DEF Owns
(* A STARTED row is the active attempt of a SUBMITTING job. *)
<1>7. ASSUME attempts[l][m].state = "STARTED"
      PROVE  jobs[l].state = "SUBMITTING"
  <2>1. m = Len(attempts[l])
    BY <1>7, StartedIsLatest
  <2>2. Len(attempts[l]) > 0
    BY <2>1, LatestTyped, <1>0 DEF AttemptNumbers
  <2>3. <<jobs[l].state, attempts[l][Len(attempts[l])].state>> \in Agreement
    BY <1>0, <2>2, TablesAgree
  <2>4. QED
    BY <1>7, <2>1, <2>3 DEF Agreement
<1>8. ASSUME attempts'[l][m] = attempts[l][m]
      PROVE  Owns(l, m, u, h)
  BY <1>4, <1>6, <1>7, <1>8
<1>9. ASSUME NEW k \in Key, NEW p \in Payload, NEW t \in Token, StartAttempt(k, p, t)
      PROVE  Owns(l, m, u, h)
  BY <1>0, <1>8, <1>9, StartEffect
<1>10. ASSUME NEW k \in Key, NEW p \in Payload, DeferAttempt(k, p)
       PROVE  Owns(l, m, u, h)
  BY <1>0, <1>8, <1>10, DeferEffect
<1>11. ASSUME NEW k \in Key, NEW n \in AttemptNumbers(k), NEW t \in Token, NEW g \in Nat,
              LeaseChange(k, n, t, g)
       PROVE  Owns(l, m, u, h)
  <2>1. CASE l = k /\ m = n
    <3>1. attempts'[l][m].owner = t /\ attempts'[l][m].generation = g
      BY <1>0, <1>11, <2>1, LeaseChangeEffect
    <3>2. u = t /\ h = g
      BY <1>4, <3>1
    <3>3. g # attempts[k][n].generation + 1
      BY <1>3, <1>5, <2>1, <3>2
    <3>4. QED
      BY <1>11, <2>1, <3>2, <3>3 DEF LeaseChange
  <2>2. CASE ~(l = k /\ m = n)
    BY <1>0, <1>8, <1>11, <2>2, LeaseChangeEffect
  <2>3. QED
    BY <2>1, <2>2
<1>12. ASSUME NEW k \in Key, NEW n \in AttemptNumbers(k), NEW as \in AttemptState,
              NEW js \in JobState, NEW e \in Category, NEW d \in Nat,
              Completion(k, n, as, js, e, d)
       PROVE  Owns(l, m, u, h)
  <2>1. CASE l = k /\ m = n
    <3>1. attempts'[k][n].owner = NoToken
      BY <1>0, <1>12, CompletionEffect, ZenonT(60)
    <3>2. QED
      BY <1>4, <2>1, <3>1, TokenAssumption
  <2>2. CASE ~(l = k /\ m = n)
    <3>1. Complete(k, n, as, js, e, d)
      BY <1>12 DEF Completion
    <3>2. attempts'[l][m] = attempts[l][m]
      BY <1>0, <2>2, <3>1, CompleteEffect, ZenonT(60)
    <3>3. QED
      BY <1>8, <3>2
  <2>3. QED
    BY <2>1, <2>2
<1>13. CASE UNCHANGED <<jobs, attempts>>
  BY <1>8, <1>13
<1>14. QED
  BY <1>9, <1>10, <1>11, <1>12, <1>13 DEF Kinds

(* Under a wall clock that never moves back, an invocation that lost its    *)
(* attempt never owns it again under the generation it was given.           *)
THEOREM LostOwnershipStaysLost ==
    ASSUME ForwardClock
    PROVE  Spec => OwnershipNeverRegained
<1>1. StoreInv /\ [Next]_storeVars => NoRegainStep
  BY NextKinds, ClockForward, KindsRegainNothing DEF StoreInv
<1>2. QED
  BY <1>1, StoreInvariant, PTL DEF Spec, OwnershipNeverRegained

-----------------------------------------------------------------------------
(***************************************************************************)
(* The service-wide gate.  RateLimitWindowQuiet compares rows of different *)
(* jobs, so it is not inductive: that a start respects every recorded 429  *)
(* follows from the gate, which covers all of them, and that a 429 recorded *)
(* now finds no later start follows from starts lying in the past.         *)
(***************************************************************************)
Limited(row) == row.state = "RETRYABLE_FAILURE" /\ row.error = "rate_limited"

StartedInPast ==
    \A k \in Key : \A n \in AttemptNumbers(k) : attempts[k][n].startedAt <= clock

GateCovers ==
    \A k \in Key : \A n \in AttemptNumbers(k) :
        Limited(attempts[k][n])
            => attempts[k][n].completedAt + attempts[k][n].retryAfter <= gate

GateInv == StoreInv /\ StartedInPast /\ GateCovers /\ RateLimitWindowQuiet

(* What one step may do to one attempt row: keep what the gate is about,    *)
(* complete it, or begin it.                                                *)
Kept(k, n) ==
    /\ n \in AttemptNumbers(k)
    /\ attempts'[k][n].state = attempts[k][n].state
    /\ attempts'[k][n].error = attempts[k][n].error
    /\ attempts'[k][n].startedAt = attempts[k][n].startedAt
    /\ attempts'[k][n].completedAt = attempts[k][n].completedAt
    /\ attempts'[k][n].retryAfter = attempts[k][n].retryAfter

Ends(k, n) ==
    /\ n \in AttemptNumbers(k)
    /\ attempts'[k][n].startedAt = attempts[k][n].startedAt
    /\ attempts'[k][n].completedAt = clock
    /\ attempts'[k][n].retryAfter \in Nat
    /\ Limited(attempts'[k][n]) => gate' >= clock + attempts'[k][n].retryAfter

Begins(k, n) ==
    /\ attempts'[k][n].state = "STARTED"
    /\ attempts'[k][n].startedAt = clock
    /\ gate <= clock

(* A completion ends its own attempt and keeps every other one. *)
LEMMA CompletionEnds ==
    ASSUME TypeOK, NEW k \in Key, NEW n \in AttemptNumbers(k),
           NEW as \in AttemptState, NEW js \in JobState, NEW e \in Category, NEW d \in Nat,
           Completion(k, n, as, js, e, d),
           NEW l \in Key, NEW m \in AttemptNumbers(l)
    PROVE  Kept(l, m) \/ Ends(l, m)
<1>1. Complete(k, n, as, js, e, d)
  BY DEF Completion
<1>2. l # k \/ m # n => attempts'[l][m] = attempts[l][m]
  BY <1>1, CompleteEffect, ZenonT(60)
<1>3. attempts'[k][n] = Completed(attempts[k][n], as, e, d)
  BY <1>1, CompleteEffect, ZenonT(60)
<1>4. attempts[k][n] \in AttemptRow
  BY AttemptTyped
<1>5. /\ attempts'[k][n].startedAt = attempts[k][n].startedAt
      /\ attempts'[k][n].completedAt = clock
      /\ attempts'[k][n].retryAfter = d
      /\ attempts'[k][n].error = e
  BY <1>3, <1>4 DEF Completed, AttemptRow
<1>6. e = "rate_limited" => gate' >= clock + d
  BY DEF Completion
<1>7. CASE l = k /\ m = n
  BY <1>5, <1>6, <1>7 DEF Ends, Limited
<1>8. CASE ~(l = k /\ m = n)
  <2>1. attempts'[l][m] = attempts[l][m]
    BY <1>2, <1>8
  <2>2. QED
    BY <2>1 DEF Kept
<1>9. QED
  BY <1>7, <1>8

LEMMA RowHistory ==
    ASSUME StoreInv, Kinds, NEW l \in Key, NEW m \in AttemptNumbers(l)'
    PROVE  Kept(l, m) \/ Ends(l, m) \/ Begins(l, m)
<1>0. TypeOK /\ JobMatchesAttempts
  BY DEF StoreInv, TableInv
<1>2. \A k \in Key : Len(attempts[k]) \in Nat
  BY <1>0, LatestTyped
<1>3. ASSUME NEW k \in Key, NEW p \in Payload, NEW t \in Token, StartAttempt(k, p, t)
      PROVE  Kept(l, m) \/ Begins(l, m)
  <2>1. /\ Len(attempts'[l]) = IF l = k THEN Len(attempts[k]) + 1 ELSE Len(attempts[l])
        /\ \A j \in AttemptNumbers(l) : attempts'[l][j] = attempts[l][j]
        /\ attempts'[k][Len(attempts[k]) + 1] = StartedRow(t)
        /\ gate <= clock
    BY <1>0, <1>3, StartEffect
  <2>2. CASE m \in AttemptNumbers(l)
    BY <2>1, <2>2 DEF Kept
  <2>3. CASE m \notin AttemptNumbers(l)
    <3>1. l = k /\ m = Len(attempts[k]) + 1
      BY <1>2, <2>1, <2>3 DEF AttemptNumbers
    <3>2. attempts'[l][m].state = "STARTED" /\ attempts'[l][m].startedAt = clock
      BY <2>1, <3>1 DEF StartedRow
    <3>3. QED
      BY <2>1, <3>2 DEF Begins
  <2>4. QED
    BY <2>2, <2>3
<1>4. ASSUME NEW k \in Key, NEW p \in Payload, DeferAttempt(k, p)
      PROVE  Kept(l, m)
  BY <1>0, <1>4, DeferEffect DEF Kept, AttemptNumbers
<1>5. ASSUME NEW k \in Key, NEW n \in AttemptNumbers(k), NEW t \in Token, NEW g \in Nat,
             LeaseChange(k, n, t, g)
      PROVE  Kept(l, m)
  BY <1>0, <1>5, LeaseChangeEffect DEF Kept, AttemptNumbers
<1>6. ASSUME NEW k \in Key, NEW n \in AttemptNumbers(k), NEW as \in AttemptState,
             NEW js \in JobState, NEW e \in Category, NEW d \in Nat,
             Completion(k, n, as, js, e, d)
      PROVE  Kept(l, m) \/ Ends(l, m)
  <2>1. \A i \in Key : Len(attempts'[i]) = Len(attempts[i])
    BY <1>0, <1>6, CompletionEffect, ZenonT(60)
  <2>2. m \in AttemptNumbers(l)
    BY <2>1 DEF AttemptNumbers
  <2>3. QED
    BY <1>0, <1>6, <2>2, CompletionEnds
<1>7. CASE UNCHANGED <<jobs, attempts>>
  BY <1>7 DEF Kept, AttemptNumbers
<1>8. QED
  BY <1>3, <1>4, <1>5, <1>6, <1>7 DEF Kinds

(* The instants of a row found in the table before the step. *)
LEMMA RowInstants ==
    ASSUME GateInv, NEW k \in Key, NEW n \in AttemptNumbers(k)
    PROVE  /\ attempts[k][n].startedAt \in Nat /\ attempts[k][n].startedAt <= clock
           /\ attempts[k][n].completedAt \in Nat
           /\ attempts[k][n].retryAfter \in Nat
           /\ Limited(attempts[k][n])
                 => attempts[k][n].completedAt + attempts[k][n].retryAfter <= gate
BY AttemptTyped DEF GateInv, StoreInv, StartedInPast, GateCovers

LEMMA KindsKeepQuiet ==
    ASSUME GateInv, Kinds, StoreInv', clock' >= clock, gate' >= gate
    PROVE  GateInv'
<1>0. StoreInv /\ TypeOK
  BY DEF GateInv, StoreInv
<1>1. TypeOK'
  BY DEF StoreInv
<1>2. clock' \in Nat /\ clock \in Nat /\ clock' >= clock
  BY <1>0, <1>1 DEF TypeOK
<1>3. gate \in Nat /\ gate' \in Nat /\ gate' >= gate
  BY <1>0, <1>1 DEF TypeOK
<1>4. StartedInPast'
  <2>1. SUFFICES ASSUME NEW k \in Key, NEW n \in AttemptNumbers(k)'
                 PROVE  attempts'[k][n].startedAt <= clock'
    BY DEF StartedInPast
  <2>2. CASE Kept(k, n) \/ Ends(k, n)
    <3>1. attempts'[k][n].startedAt = attempts[k][n].startedAt /\ n \in AttemptNumbers(k)
      BY <2>2 DEF Kept, Ends
    <3>2. QED
      BY <1>2, <3>1, RowInstants
  <2>3. CASE Begins(k, n)
    BY <1>2, <2>3 DEF Begins
  <2>4. QED
    BY <1>0, <2>2, <2>3, RowHistory
<1>5. GateCovers'
  <2>1. SUFFICES ASSUME NEW k \in Key, NEW n \in AttemptNumbers(k)', Limited(attempts'[k][n])
                 PROVE  attempts'[k][n].completedAt + attempts'[k][n].retryAfter <= gate'
    BY DEF GateCovers, Limited
  <2>2. CASE Kept(k, n)
    <3>1. n \in AttemptNumbers(k) /\ Limited(attempts[k][n])
      BY <2>1, <2>2 DEF Kept, Limited
    <3>2. QED
      BY <1>3, <2>2, <3>1, RowInstants DEF Kept
  <2>3. CASE Ends(k, n)
    BY <1>2, <1>3, <2>1, <2>3 DEF Ends
  <2>4. CASE Begins(k, n)
    BY <2>1, <2>4 DEF Begins, Limited
  <2>5. QED
    BY <1>0, <2>2, <2>3, <2>4, RowHistory
<1>6. RateLimitWindowQuiet'
  <2>1. SUFFICES ASSUME NEW k \in Key, NEW l \in Key,
                        NEW n \in AttemptNumbers(k)', NEW m \in AttemptNumbers(l)',
                        Limited(attempts'[k][n])
                 PROVE  \/ attempts'[l][m].startedAt <= attempts'[k][n].completedAt
                        \/ attempts'[l][m].startedAt >=
                              attempts'[k][n].completedAt + attempts'[k][n].retryAfter
    BY DEF RateLimitWindowQuiet, Limited
  <2>2. CASE Kept(k, n)
    <3>1. n \in AttemptNumbers(k) /\ Limited(attempts[k][n])
      BY <2>1, <2>2 DEF Kept, Limited
    <3>2. CASE Kept(l, m) \/ Ends(l, m)
      <4>1. attempts'[l][m].startedAt = attempts[l][m].startedAt /\ m \in AttemptNumbers(l)
        BY <3>2 DEF Kept, Ends
      <4>2. \/ attempts[l][m].startedAt <= attempts[k][n].completedAt
            \/ attempts[l][m].startedAt >=
                  attempts[k][n].completedAt + attempts[k][n].retryAfter
        BY <3>1, <4>1 DEF GateInv, RateLimitWindowQuiet, Limited
      <4>3. QED
        BY <2>2, <4>1, <4>2 DEF Kept
    <3>3. CASE Begins(l, m)
      <4>1. attempts[k][n].completedAt + attempts[k][n].retryAfter <= gate
        BY <3>1, RowInstants
      <4>2. attempts[k][n].completedAt \in Nat /\ attempts[k][n].retryAfter \in Nat
        BY <3>1, RowInstants
      <4>3. QED
        BY <1>2, <1>3, <2>2, <3>3, <4>1, <4>2 DEF Kept, Begins
    <3>4. QED
      BY <1>0, <3>2, <3>3, RowHistory
  <2>3. CASE Ends(k, n)
    <3>1. CASE Kept(l, m) \/ Ends(l, m)
      <4>1. attempts'[l][m].startedAt = attempts[l][m].startedAt /\ m \in AttemptNumbers(l)
        BY <3>1 DEF Kept, Ends
      <4>2. attempts[l][m].startedAt <= clock
        BY <4>1, RowInstants
      <4>3. QED
        BY <2>3, <4>1, <4>2 DEF Ends
    <3>2. CASE Begins(l, m)
      BY <1>2, <2>3, <3>2 DEF Ends, Begins
    <3>3. QED
      BY <1>0, <3>1, <3>2, RowHistory
  <2>4. CASE Begins(k, n)
    BY <2>1, <2>4 DEF Begins, Limited
  <2>5. QED
    BY <1>0, <2>2, <2>3, <2>4, RowHistory
<1>7. QED
  BY <1>4, <1>5, <1>6 DEF GateInv

(* Nothing is recorded before the first attempt. *)
LEMMA GateInvInit == Init => GateInv
<1>1. SUFFICES ASSUME Init PROVE GateInv
  OBVIOUS
<1>2. StoreInv
  BY <1>1, StoreInvInit
<1>3. \A k \in Key : AttemptNumbers(k) = {}
  <2>1. SUFFICES ASSUME NEW k \in Key PROVE AttemptNumbers(k) = {}
    OBVIOUS
  <2>2. attempts[k] = <<>>
    BY <1>1 DEF Init
  <2>3. Len(attempts[k]) = 0
    BY <2>2
  <2>4. QED
    BY <2>3 DEF AttemptNumbers
<1>4. QED
  BY <1>2, <1>3 DEF GateInv, StartedInPast, GateCovers, RateLimitWindowQuiet

(* Once a 429 is recorded no attempt of any job starts inside its delay,    *)
(* for any number of jobs and invocations, under a wall clock that never    *)
(* moves back.                                                              *)
THEOREM RateLimitAlwaysQuiet ==
    ASSUME ForwardClock
    PROVE  Spec => []RateLimitWindowQuiet
<1>1. Init => GateInv
  BY GateInvInit
<1>2. GateInv /\ [Next]_storeVars => GateInv'
  BY NextKinds, ClockForward, StoreInvStep, KindsKeepQuiet DEF GateInv, StoreInv
<1>3. GateInv => RateLimitWindowQuiet
  BY DEF GateInv
<1>4. QED
  BY <1>1, <1>2, <1>3, PTL DEF Spec
=============================================================================
