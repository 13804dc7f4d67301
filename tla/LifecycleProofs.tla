---------------------------- MODULE LifecycleProofs ----------------------------
(***************************************************************************)
(* The store implements JobLifecycle, and late evidence that was consumed  *)
(* decided its attempt: proofs about JobStore that rest on the inductive   *)
(* invariant of JobStoreProofs, for every movement of the wall clock.      *)
(***************************************************************************)
EXTENDS JobStoreProofs

-----------------------------------------------------------------------------
(* The refinement mapping *)

Stages == [k \in Key |-> StageOf(k)]
Tries == [k \in Key |-> Len(attempts[k])]

(* The stage of a job, state by state. *)
LEMMA StageIs ==
    ASSUME NEW k \in Key
    PROVE  /\ jobs[k].state = "ABSENT" => StageOf(k) = "none"
           /\ jobs[k].state = "PENDING" => StageOf(k) = "waiting"
           /\ jobs[k].state = "RETRY_SCHEDULED" => StageOf(k) = "waiting"
           /\ jobs[k].state = "SUBMITTING" => StageOf(k) = "trying"
           /\ jobs[k].state = "SUCCEEDED" => StageOf(k) = "succeeded"
           /\ jobs[k].state = "AMBIGUOUS" => StageOf(k) = "unknown"
           /\ jobs[k].state = "FAILED_PERMANENT" =>
                 StageOf(k) = IF Latest(k).state = "RETRYABLE_FAILURE"
                              THEN "exhausted" ELSE "rejected"
BY DEF StageOf

(* A job whose row and latest attempt keep their states keeps its stage.    *)
LEMMA SameStage ==
    ASSUME NEW k \in Key, jobs[k].state \in JobState, jobs'[k].state = jobs[k].state,
           Latest(k)'.state = Latest(k).state
    PROVE  StageOf(k)' = StageOf(k)
<1>1. CASE jobs[k].state = "FAILED_PERMANENT"
  BY <1>1 DEF StageOf
<1>2. CASE jobs[k].state # "FAILED_PERMANENT"
  BY <1>2 DEF StageOf, JobState
<1>. QED
  BY <1>1, <1>2

(* A job nothing is written of keeps its stage.                              *)
LEMMA OtherStage ==
    ASSUME TypeOK, NEW l \in Key, jobs'[l] = jobs[l], attempts'[l] = attempts[l]
    PROVE  StageOf(l)' = StageOf(l) /\ Len(attempts'[l]) = Len(attempts[l])
<1>1. jobs[l].state \in JobState
  BY DEF TypeOK, JobRow
<1>2. Latest(l)' = Latest(l)
  BY DEF Latest
<1>. QED
  BY <1>1, <1>2, SameStage

(* What changes for one job changes one place of the mapping. *)
LEMMA OneStage ==
    ASSUME TypeOK, NEW k \in Key,
           \A l \in Key : l # k => jobs'[l] = jobs[l] /\ attempts'[l] = attempts[l]
    PROVE  /\ Stages' = [Stages EXCEPT ![k] = StageOf(k)']
           /\ Tries' = [Tries EXCEPT ![k] = Len(attempts'[k])]
<1>1. \A l \in Key : l # k =>
          StageOf(l)' = StageOf(l) /\ Len(attempts'[l]) = Len(attempts[l])
  BY OtherStage
<1>. QED
  BY <1>1 DEF Stages, Tries

(* The two cases in which the mapping shows nothing. *)
LEMMA NothingShown ==
    ASSUME TypeOK, NEW k \in Key,
           \A l \in Key : l # k => jobs'[l] = jobs[l] /\ attempts'[l] = attempts[l],
           StageOf(k)' = StageOf(k), Len(attempts'[k]) = Len(attempts[k])
    PROVE  UNCHANGED <<Stages, Tries>>
BY OneStage DEF Stages, Tries

(* Starting an attempt is a try, and the budget has room for it.             *)
LEMMA StartIsTry ==
    ASSUME StoreInv, NEW k \in Key, NEW p \in Payload, NEW t \in Token, StartAttempt(k, p, t)
    PROVE  Lifecycle!Try(k)
<1>0. TypeOK /\ JobMatchesAttempts /\ BudgetHeld
  BY DEF StoreInv, TableInv
<1>1. /\ Len(attempts'[k]) = Len(attempts[k]) + 1 /\ Len(attempts[k]) \in Nat
      /\ jobs'[k].state = "SUBMITTING"
      /\ jobs[k].state \in {"ABSENT", "PENDING", "RETRY_SCHEDULED"}
      /\ \A l \in Key : l # k => jobs'[l] = jobs[l]
  BY <1>0, StartEffect, LatestTyped
<1>2. \A l \in Key : l # k => attempts'[l] = attempts[l]
  BY <1>0 DEF StartAttempt, Authorize, TypeOK
<1>3. StageOf(k) \in {"none", "waiting"}
  BY <1>1, StageIs
<1>4. StageOf(k)' = "trying"
  BY <1>1 DEF StageOf
<1>5. Len(attempts[k]) < MaxSubmissionAttempts
  <2>1. CASE jobs[k].state = "RETRY_SCHEDULED"
    BY <1>0, <2>1 DEF BudgetHeld
  <2>2. CASE jobs[k].state \in {"ABSENT", "PENDING"}
    <3>1. ~(Len(attempts[k]) > 0)
      BY <1>0, <2>2, TablesAgree DEF Agreement
    <3>. QED
      BY <1>1, <3>1, BudgetAssumption
  <2>. QED
    BY <1>1, <2>1, <2>2
<1>6. /\ Stages' = [Stages EXCEPT ![k] = "trying"]
      /\ Tries' = [Tries EXCEPT ![k] = Tries[k] + 1]
      /\ Stages[k] = StageOf(k) /\ Tries[k] = Len(attempts[k])
  BY <1>0, <1>1, <1>2, <1>4, OneStage DEF Stages, Tries
<1>. QED
  BY <1>3, <1>5, <1>6 DEF Lifecycle!Try, Stages, Tries

(* A transaction that defers accepts a new job or shows nothing.             *)
LEMMA DeferIsAccept ==
    ASSUME StoreInv, NEW k \in Key, NEW p \in Payload, DeferAttempt(k, p)
    PROVE  Lifecycle!Accept(k) \/ UNCHANGED <<Stages, Tries>>
<1>0. TypeOK /\ JobMatchesAttempts
  BY DEF StoreInv, TableInv
<1>1. /\ attempts' = attempts
      /\ \A l \in Key : l # k => jobs'[l] = jobs[l]
      /\ \/ jobs'[k] = jobs[k]
         \/ jobs[k].state = "ABSENT" /\ jobs'[k].state = "PENDING"
  BY <1>0, DeferEffect
<1>2. CASE jobs'[k] = jobs[k]
  BY <1>0, <1>1, <1>2, NothingShown, OtherStage
<1>3. CASE jobs[k].state = "ABSENT" /\ jobs'[k].state = "PENDING"
  <2>1. StageOf(k) = "none" /\ StageOf(k)' = "waiting"
    BY <1>3 DEF StageOf
  <2>2. Stages' = [Stages EXCEPT ![k] = "waiting"] /\ Tries' = Tries /\ Stages[k] = "none"
    BY <1>0, <1>1, <2>1, OneStage DEF Stages, Tries
  <2>. QED
    BY <2>2 DEF Lifecycle!Accept, Stages, Tries
<1>. QED
  BY <1>1, <1>2, <1>3

(* A lease that changes hands shows nothing. *)
LEMMA LeaseIsQuiet ==
    ASSUME StoreInv, NEW k \in Key, NEW n \in AttemptNumbers(k), NEW t \in Token,
           NEW g \in Nat, LeaseChange(k, n, t, g)
    PROVE  UNCHANGED <<Stages, Tries>>
<1>0. TypeOK /\ JobMatchesAttempts
  BY DEF StoreInv, TableInv
<1>1. /\ jobs' = jobs /\ Len(attempts'[k]) = Len(attempts[k])
      /\ attempts'[k][n].state = attempts[k][n].state
      /\ jobs[k].state \in JobState
  BY <1>0, LeaseChangeEffect DEF TypeOK, JobRow
<1>2. \A l \in Key : l # k => attempts'[l] = attempts[l]
  BY <1>0 DEF LeaseChange, SetLease, TypeOK
<1>3. n = Len(attempts[k])
  BY StartedIsLatest DEF LeaseChange
<1>4. StageOf(k)' = StageOf(k)
  BY <1>1, <1>3, SameStage DEF Latest
<1>. QED
  BY <1>0, <1>1, <1>2, <1>4, NothingShown

(* A completion is a failed try or settles the job.                          *)
LEMMA CompletionSettles ==
    ASSUME StoreInv, NEW k \in Key, NEW n \in AttemptNumbers(k), NEW as \in AttemptState,
           NEW js \in JobState, NEW e \in Category, NEW d \in Nat,
           Completion(k, n, as, js, e, d)
    PROVE  Lifecycle!Fail(k) \/ Lifecycle!Settle(k)
<1>0. TypeOK
  BY DEF StoreInv
<1>1. /\ Len(attempts'[k]) = Len(attempts[k])
      /\ \A l \in Key : l # k => jobs'[l] = jobs[l] /\ attempts'[l] = attempts[l]
      /\ jobs[k].state = "SUBMITTING" /\ jobs'[k].state = js
      /\ attempts[k][n].state = "STARTED" /\ attempts'[k][n].state = as
  <2>1. \A l \in Key : Len(attempts'[l]) = Len(attempts[l])
    BY <1>0, CompletionEffect, ZenonT(60)
  <2>2. \A l \in Key : l # k => jobs'[l] = jobs[l] /\ attempts'[l] = attempts[l]
    BY <1>0, CompletionEffect, ZenonT(60)
  <2> DEFINE row == Completed(attempts[k][n], as, e, d)
             job == InState(jobs[k], js)
  <2>3. attempts'[k][n] = row /\ jobs'[k] = job
    BY <1>0, CompleteEffect, ZenonT(60) DEF Completion
  <2>4. row.state = as /\ job.state = js
    <3>1. attempts[k][n] \in AttemptRow /\ jobs[k] \in JobRow
      BY <1>0, AttemptTyped DEF TypeOK
    <3>. QED
      BY <3>1 DEF Completed, InState, AttemptRow, JobRow
  <2>5. jobs[k].state = "SUBMITTING" /\ attempts[k][n].state = "STARTED"
    BY DEF Completion
  <2>. QED
    BY <2>1, <2>2, <2>3, <2>4, <2>5
<1>2. n = Len(attempts[k])
  BY <1>1, StartedIsLatest
<1>3. Latest(k)'.state = as
  BY <1>1, <1>2 DEF Latest
<1>4. StageOf(k) = "trying"
  BY <1>1, StageIs
<1>5. /\ <<js, as>> \in Agreement /\ as # "STARTED"
      /\ js = "RETRY_SCHEDULED" => n < MaxSubmissionAttempts
      /\ js = "FAILED_PERMANENT" /\ as = "RETRYABLE_FAILURE" => ~(n < MaxSubmissionAttempts)
  BY DEF Completion
<1>6. /\ Stages' = [Stages EXCEPT ![k] = StageOf(k)'] /\ Tries' = Tries
      /\ Stages[k] = "trying" /\ Tries[k] = n
  BY <1>0, <1>1, <1>2, <1>4, OneStage DEF Stages, Tries
<1>7. CASE js = "RETRY_SCHEDULED"
  <2>1. StageOf(k)' = "waiting"
    BY <1>1, <1>7 DEF StageOf
  <2>2. Lifecycle!Fail(k)
    BY <1>5, <1>6, <1>7, <2>1 DEF Lifecycle!Fail, Stages, Tries
  <2>. QED
    BY <2>2
<1>8. CASE js = "FAILED_PERMANENT" /\ as = "RETRYABLE_FAILURE"
  <2>1. StageOf(k)' = "exhausted"
    BY <1>1, <1>3, <1>8 DEF StageOf
  <2>2. Lifecycle!Fail(k)
    BY <1>5, <1>6, <1>8, <2>1 DEF Lifecycle!Fail, Stages, Tries
  <2>. QED
    BY <2>2
<1>9. CASE js # "RETRY_SCHEDULED" /\ as # "RETRYABLE_FAILURE"
  <2>1. StageOf(k)' \in {"succeeded", "rejected", "unknown"}
    <3>1. js \in {"SUCCEEDED", "FAILED_PERMANENT", "AMBIGUOUS"}
      BY <1>5, <1>9 DEF Agreement
    <3>2. CASE js = "SUCCEEDED"
      BY <1>1, <3>2 DEF StageOf
    <3>3. CASE js = "FAILED_PERMANENT"
      BY <1>1, <1>3, <1>9, <3>3 DEF StageOf
    <3>4. CASE js = "AMBIGUOUS"
      BY <1>1, <3>4 DEF StageOf
    <3>. QED
      BY <3>1, <3>2, <3>3, <3>4
  <2>2. Lifecycle!Settle(k)
    BY <1>6, <2>1 DEF Lifecycle!Settle, Stages, Tries
  <2>. QED
    BY <2>2
<1>. QED
  BY <1>5, <1>7, <1>8, <1>9 DEF Agreement

(* A step of any kind is a lifecycle step of one job or changes nothing. *)
LEMMA KindsAreLifeSteps ==
    ASSUME StoreInv, Kinds
    PROVE  [Lifecycle!LifeNext]_(Lifecycle!lifeVars)
<1>0. TypeOK
  BY DEF StoreInv
<1>2. ASSUME UNCHANGED <<Stages, Tries>>
      PROVE  UNCHANGED Lifecycle!lifeVars
  BY <1>2 DEF Lifecycle!lifeVars, Stages, Tries
<1>3. ASSUME NEW k \in Key, NEW p \in Payload, NEW t \in Token, StartAttempt(k, p, t)
      PROVE  Lifecycle!LifeNext
  BY <1>3, StartIsTry DEF Lifecycle!LifeNext
<1>4. ASSUME NEW k \in Key, NEW p \in Payload, DeferAttempt(k, p)
      PROVE  [Lifecycle!LifeNext]_(Lifecycle!lifeVars)
  BY <1>2, <1>4, DeferIsAccept DEF Lifecycle!LifeNext
<1>5. ASSUME NEW k \in Key, NEW n \in AttemptNumbers(k), NEW t \in Token, NEW g \in Nat,
             LeaseChange(k, n, t, g)
      PROVE  UNCHANGED Lifecycle!lifeVars
  BY <1>2, <1>5, LeaseIsQuiet
<1>6. ASSUME NEW k \in Key, NEW n \in AttemptNumbers(k), NEW as \in AttemptState,
             NEW js \in JobState, NEW e \in Category, NEW d \in Nat,
             Completion(k, n, as, js, e, d)
      PROVE  Lifecycle!LifeNext
  BY <1>6, CompletionSettles DEF Lifecycle!LifeNext
<1>7. CASE UNCHANGED <<jobs, attempts>>
  <2>1. \A k \in Key : StageOf(k)' = StageOf(k) /\ Len(attempts'[k]) = Len(attempts[k])
    BY <1>0, <1>7, OtherStage
  <2>2. UNCHANGED <<Stages, Tries>>
    BY <2>1 DEF Stages, Tries
  <2>. QED
    BY <1>2, <2>2
<1>. QED
  BY <1>3, <1>4, <1>5, <1>6, <1>7 DEF Kinds

LEMMA LifeBegins == Init => Lifecycle!LifeInit
<1> SUFFICES ASSUME Init PROVE Lifecycle!LifeInit
  OBVIOUS
<1>1. \A k \in Key : StageOf(k) = "none" /\ Len(attempts[k]) = 0
  BY StageIs DEF Init
<1>. QED
  BY <1>1 DEF Lifecycle!LifeInit

(* Seen through the mapping, every transaction is a lifecycle step of one    *)
(* job or changes nothing: transactions.py against what the store promises,  *)
(* for any keys, tokens, budget and clock.                                   *)
THEOREM StoreImplementsLifecycle == Spec => ImplementsLifecycle
<1>1. StoreInv /\ [Next]_storeVars => [Lifecycle!LifeNext]_(Lifecycle!lifeVars)
  BY NextKinds, KindsAreLifeSteps DEF StoreInv
<1>. QED
  BY <1>1, LifeBegins, StoreInvariant, PTL
     DEF Spec, ImplementsLifecycle, Lifecycle!LifeSpec

-----------------------------------------------------------------------------
(* Late evidence *)

(* The attempt state an authoritative late report stands for; no report      *)
(* stands for STARTED.                                                       *)
LEMMA OutcomeIs ==
    ASSUME NEW c
    PROVE  /\ c = "processed" => OutcomeOf(c) = "SUCCEEDED"
           /\ c = "rate_limited" => OutcomeOf(c) = "RETRYABLE_FAILURE"
           /\ c \notin {"processed", "rate_limited"} => OutcomeOf(c) = "PERMANENT_FAILURE"
           /\ OutcomeOf(c) # "STARTED"
BY DEF OutcomeOf

(* A transaction adds one row that is not consumed, consumes one, or leaves  *)
(* the observations alone.                                                   *)
Adds(k) == \E row : Observe(k, row) /\ row.consumed = FALSE

Consumes(k) ==
    \E n \in AttemptNumbers(k), t \in Token, g \in Nat, d \in Delay :
        ConsumeLateObservations(k, n, t, g, d)

EvidenceKind == observations' = observations \/ \E k \in Key : Adds(k) \/ Consumes(k)

(* Observation makes rows that have not been consumed. *)
LEMMA NewIsAdded ==
    ASSUME NEW k \in Key, NEW n, NEW op, NEW c, NEW st, NEW late, NEW g,
           Observe(k, Observation(n, op, c, st, late, g))
    PROVE  EvidenceKind
<1>1. Observation(n, op, c, st, late, g).consumed = FALSE
  BY DEF Observation
<1>. QED
  BY <1>1 DEF EvidenceKind, Adds

(* Each transaction is of one of the three kinds. *)
LEMMA EvidenceKinds ==
    ASSUME TypeOK, [Next]_storeVars
    PROVE  EvidenceKind
<1>1. ASSUME NEW k \in Key, NEW n \in AttemptNumbers(k), NEW t \in Token, AnyoneStep(k, n, t)
      PROVE  EvidenceKind
  <2>1. ASSUME NEW g, NEW op, NEW c, NEW s, AppendLateObservation(k, n, g, op, c, s)
        PROVE  EvidenceKind
    BY <2>1, NewIsAdded DEF AppendLateObservation
  <2>2. ASSUME NEW g, NEW c, NEW s, AppendObservation(k, n, g, c, s)
        PROVE  EvidenceKind
    BY <2>2, NewIsAdded DEF AppendObservation
  <2>3. CASE observations' = observations
    BY <2>3 DEF EvidenceKind
  <2>. QED
    BY <1>1, <2>1, <2>2, <2>3 DEF AnyoneStep, ClaimExpiredAttempt
<1>2. ASSUME NEW k \in Key, NEW n \in AttemptNumbers(k), NEW t \in Token, NEW g \in Nat,
             OwnerStep(k, n, t, g)
      PROVE  EvidenceKind
  <2>1. ASSUME NEW c, NEW s, Observe(k, Observation(n, "SUBMISSION", c, s, FALSE, g))
        PROVE  EvidenceKind
    BY <2>1, NewIsAdded
  <2>2. ASSUME NEW c, FinalizePermanentFailure(k, n, t, g, c)
        PROVE  EvidenceKind
    BY <2>1, <2>2 DEF FinalizePermanentFailure
  <2>3. ASSUME NEW d \in Delay, ConsumeLateObservations(k, n, t, g, d)
        PROVE  EvidenceKind
    BY <2>3 DEF EvidenceKind, Consumes
  <2>4. CASE FinalizeSucceeded(k, n, t, g) \/ FinalizeRetained(k, n, t, g)
    BY <2>1, <2>4 DEF FinalizeSucceeded, FinalizeRetained
  <2>5. ASSUME NEW d, FinalizeRateLimited(k, n, t, g, d) \/ FinalizeNotSent(k, n, t, g, d)
        PROVE  EvidenceKind
    BY <2>1, <2>5 DEF FinalizeRateLimited, FinalizeNotSent
  <2>6. CASE observations' = observations
    BY <2>6 DEF EvidenceKind
  <2>. QED
    BY <1>2, <2>2, <2>3, <2>4, <2>5, <2>6
       DEF OwnerStep, RenewLease, AuthorizeReconciliationRequest, RecordReconciliationResult
<1>3. ASSUME NEW k \in Key, NEW n \in AttemptNumbers(k), NEW t \in Token,
             OwnerStep(k, n, t, attempts[k][n].generation)
      PROVE  EvidenceKind
  BY <1>2, <1>3, AttemptTyped
<1>4. CASE observations' = observations
  BY <1>4 DEF EvidenceKind
<1>. QED
  BY <1>1, <1>3, <1>4
     DEF Next, storeVars, DeferAttempt, Defer, StartAttempt, Authorize,
         AdvanceGateForReconciliation, Tick

(* What ConsumedEvidenceDecides says of one consumed row. *)
Explains(k, i) ==
    LET row == observations[k][i] IN
    /\ row.late /\ Actionable(row)
    /\ row.attempt \in AttemptNumbers(k)
    /\ attempts[k][row.attempt].state = OutcomeOf(row.category)

(* No other row of its attempt was consumed. *)
Alone(k, i) ==
    \A j \in DOMAIN observations[k] :
        observations[k][j].consumed
            /\ observations[k][j].attempt = observations[k][i].attempt => j = i

(* A completed attempt stays as it is, so what was decided stays decided.    *)
LEMMA DecidedStays ==
    ASSUME StoreInv, TypeOK', FinalStep, NEW k \in Key, NEW i, Explains(k, i),
           NEW j, observations'[k][j] = observations[k][i]
    PROVE  Explains(k, j)'
<1> DEFINE n == observations[k][i].attempt
<1>2. /\ n \in AttemptNumbers(k)
      /\ attempts[k][n].state # "STARTED"
      /\ Len(attempts'[k]) >= Len(attempts[k])
  BY OutcomeIs DEF Explains, FinalStep
<1>3. attempts'[k][n] = attempts[k][n]
  BY <1>2 DEF FinalStep
<1>4. Len(attempts[k]) \in Nat /\ Len(attempts'[k]) \in Nat
  BY DEF StoreInv, TypeOK
<1>5. n \in AttemptNumbers(k)'
  BY <1>2, <1>4 DEF AttemptNumbers
<1>. QED
  BY <1>3, <1>5 DEF Explains, Actionable

(* The outcome with which an attempt is completed. *)
LEMMA CompletedState ==
    ASSUME TypeOK, NEW k \in Key, NEW n \in AttemptNumbers(k), NEW as \in AttemptState,
           NEW js \in JobState, NEW e \in Category, NEW d \in Nat,
           Complete(k, n, as, js, e, d)
    PROVE  attempts'[k][n].state = as /\ Len(attempts'[k]) = Len(attempts[k])
<1> DEFINE row == Completed(attempts[k][n], as, e, d)
<1>1. attempts'[k][n] = row
  BY CompleteEffect, ZenonT(60)
<1>2. Len(attempts'[k]) = Len(attempts[k])
  BY CompleteEffect, ZenonT(60)
<1>3. row.state = as
  BY AttemptTyped DEF Completed, AttemptRow
<1>. QED
  BY <1>1, <1>2, <1>3


(* ConsumedEvidenceDecides, one job at a time. *)
Explained(k) ==
    \A i \in DOMAIN observations[k] :
        observations[k][i].consumed => Explains(k, i) /\ Alone(k, i)

(* The invariant is a property of each job. *)
LEMMA EvidenceOfJobs == ConsumedEvidenceDecides <=> \A k \in Key : Explained(k)
BY DEF ConsumedEvidenceDecides, Explained, Explains, Alone

(* Rows another transaction leaves alone keep explaining their attempts. *)
LEMMA SameEvidence ==
    ASSUME StoreInv, TypeOK', FinalStep, NEW k \in Key, Explained(k),
           observations'[k] = observations[k]
    PROVE  Explained(k)'
<1> SUFFICES ASSUME NEW i \in DOMAIN observations[k], observations[k][i].consumed
             PROVE  Explains(k, i)' /\ Alone(k, i)'
  BY DEF Explained
<1>1. Explains(k, i) /\ Alone(k, i)
  BY DEF Explained
<1>2. Explains(k, i)'
  BY <1>1, DecidedStays
<1>3. Alone(k, i)'
  BY <1>1 DEF Alone
<1>. QED
  BY <1>2, <1>3

(* A row that has just been appended has not been consumed. *)
LEMMA AddedEvidence ==
    ASSUME StoreInv, TypeOK', FinalStep, NEW k \in Key, Explained(k), Adds(k)
    PROVE  Explained(k)'
<1>1. PICK row : Observe(k, row) /\ row.consumed = FALSE
  BY DEF Adds
<1> DEFINE S == ObservationRow \cup {row}
           old == observations[k]
<1>2. observations \in [Key -> Seq(ObservationRow)]
  BY DEF StoreInv, TypeOK
<1>3. old \in Seq(ObservationRow)
  BY <1>2
<1>4. old \in Seq(S)
  BY <1>3, SeqMonotonic, Zenon
<1>5. row \in S
  OBVIOUS
<1>6. observations'[k] = Append(old, row)
  BY <1>1, <1>2 DEF Observe
<1>7. /\ Len(observations'[k]) = Len(old) + 1
      /\ \A i \in 1 .. Len(old) : observations'[k][i] = old[i]
      /\ observations'[k][Len(old) + 1] = row
      /\ observations'[k] \in Seq(S)
  <2> HIDE DEF S, old
  <2>1. /\ Append(old, row) \in Seq(S)
        /\ Len(Append(old, row)) = Len(old) + 1
        /\ \A i \in 1 .. Len(old) : Append(old, row)[i] = old[i]
        /\ Append(old, row)[Len(old) + 1] = row
    BY <1>4, <1>5, AppendProperties
  <2>. QED
    BY <2>1, <1>6
<1>8. DOMAIN observations'[k] = 1 .. (Len(old) + 1) /\ DOMAIN old = 1 .. Len(old)
      /\ Len(old) \in Nat
  BY <1>3, <1>7
<1>9. \A i \in DOMAIN observations'[k] :
         observations'[k][i].consumed => i \in DOMAIN old /\ observations'[k][i] = old[i]
  <2> SUFFICES ASSUME NEW i \in DOMAIN observations'[k], observations'[k][i].consumed
               PROVE  i \in DOMAIN old /\ observations'[k][i] = old[i]
    OBVIOUS
  <2>1. i # Len(old) + 1
    BY <1>1, <1>7
  <2>. QED
    BY <2>1, <1>7, <1>8
<1> HIDE DEF old, S
<1>10. ASSUME NEW i \in DOMAIN observations'[k], observations'[k][i].consumed
       PROVE  Explains(k, i)' /\ Alone(k, i)'
  <2>1. i \in DOMAIN observations[k] /\ observations'[k][i] = observations[k][i]
    BY <1>9, <1>10 DEF old
  <2>2. Explains(k, i) /\ Alone(k, i)
    BY <2>1, <1>10 DEF Explained
  <2>3. Explains(k, i)'
    BY <2>1, <2>2, DecidedStays
  <2>4. Alone(k, i)'
    BY <2>1, <2>2, <1>9 DEF Alone, old
  <2>. QED
    BY <2>3, <2>4
<1>. QED
  BY <1>10 DEF Explained

(* The transaction that consumes a row completes the row's attempt with the  *)
(* outcome the row stands for, and it was the first to consume one of it.    *)
LEMMA ConsumptionDecides ==
    ASSUME TypeOK, NEW k \in Key, NEW n \in AttemptNumbers(k), NEW t \in Token,
           NEW g \in Nat, NEW d \in Delay, ConsumeLateObservations(k, n, t, g, d)
    PROVE  /\ Len(attempts'[k]) = Len(attempts[k])
           /\ attempts[k][n].state = "STARTED"
           /\ \E i \in UnconsumedLate(k, n) :
                 /\ observations' =
                       [observations EXCEPT ![k][i] = [@ EXCEPT !.consumed = TRUE]]
                 /\ attempts'[k][n].state = OutcomeOf(observations[k][i].category)
<1>1. PICK i \in UnconsumedLate(k, n) :
        LET row == observations[k][i] IN
        /\ observations' = [observations EXCEPT ![k][i] = [@ EXCEPT !.consumed = TRUE]]
        /\ \/ /\ row.category = "processed"
              /\ Complete(k, n, "SUCCEEDED", "SUCCEEDED", "null", 0)
           \/ /\ row.category = "rate_limited"
              /\ Complete(k, n, "RETRYABLE_FAILURE", RetryState(n), "rate_limited", d)
           \/ /\ row.category \notin {"processed", "rate_limited"}
              /\ Complete(k, n, "PERMANENT_FAILURE", "FAILED_PERMANENT", row.category, 0)
  BY Zenon DEF ConsumeLateObservations
<1> DEFINE c == observations[k][i].category
<1>2. c \in Category
  BY ObservationTyped DEF UnconsumedLate
<1>3. /\ d \in Nat
      /\ n \in Nat
  BY DelayAssumption DEF AttemptNumbers
<1>4. RetryState(n) \in JobState
  BY <1>3, RetryStateFits
<1> HIDE DEF c
<1>5. ASSUME c = "processed", Complete(k, n, "SUCCEEDED", "SUCCEEDED", "null", 0)
      PROVE  attempts'[k][n].state = OutcomeOf(c) /\ Len(attempts'[k]) = Len(attempts[k])
  <2>1. /\ "SUCCEEDED" \in AttemptState
        /\ "SUCCEEDED" \in JobState
        /\ "null" \in Category
        /\ 0 \in Nat
    BY DEF AttemptState, JobState, Category
  <2>2. attempts'[k][n].state = "SUCCEEDED" /\ Len(attempts'[k]) = Len(attempts[k])
    BY <1>5, <2>1, CompletedState
  <2>. QED
    BY <2>2, <1>5, OutcomeIs
<1>6. ASSUME c = "rate_limited",
             Complete(k, n, "RETRYABLE_FAILURE", RetryState(n), "rate_limited", d)
      PROVE  attempts'[k][n].state = OutcomeOf(c) /\ Len(attempts'[k]) = Len(attempts[k])
  <2>1. /\ "RETRYABLE_FAILURE" \in AttemptState
        /\ "rate_limited" \in Category
    BY DEF AttemptState, Category
  <2>2. attempts'[k][n].state = "RETRYABLE_FAILURE" /\ Len(attempts'[k]) = Len(attempts[k])
    BY <1>3, <1>4, <1>6, <2>1, CompletedState
  <2>. QED
    BY <2>2, <1>6, OutcomeIs
<1>7. ASSUME c \notin {"processed", "rate_limited"},
             Complete(k, n, "PERMANENT_FAILURE", "FAILED_PERMANENT", c, 0)
      PROVE  attempts'[k][n].state = OutcomeOf(c) /\ Len(attempts'[k]) = Len(attempts[k])
  <2>1. /\ "PERMANENT_FAILURE" \in AttemptState
        /\ "FAILED_PERMANENT" \in JobState
        /\ 0 \in Nat
    BY DEF AttemptState, JobState
  <2>2. attempts'[k][n].state = "PERMANENT_FAILURE" /\ Len(attempts'[k]) = Len(attempts[k])
    BY <1>2, <1>7, <2>1, CompletedState
  <2>. QED
    BY <2>2, <1>7, OutcomeIs
<1>8. attempts'[k][n].state = OutcomeOf(c) /\ Len(attempts'[k]) = Len(attempts[k])
  BY <1>1, <1>5, <1>6, <1>7 DEF c
<1>9. attempts[k][n].state = "STARTED"
  BY DEF ConsumeLateObservations, Owns
<1>. QED
  BY <1>1, <1>8, <1>9 DEF c

(* A consumed row explains the attempt it completes, and the rows consumed   *)
(* earlier belong to other attempts.                                         *)
LEMMA ConsumedEvidence ==
    ASSUME StoreInv, TypeOK', FinalStep, NEW k \in Key, Explained(k), Consumes(k)
    PROVE  Explained(k)'
<1>0. TypeOK
  BY DEF StoreInv
<1>1. PICK n \in AttemptNumbers(k), t \in Token, g \in Nat, d \in Delay :
        ConsumeLateObservations(k, n, t, g, d)
  BY DEF Consumes
<1>2. /\ Len(attempts'[k]) = Len(attempts[k])
      /\ attempts[k][n].state = "STARTED"
  BY <1>0, <1>1, ConsumptionDecides
<1>3. PICK i \in UnconsumedLate(k, n) :
        /\ observations' = [observations EXCEPT ![k][i] = [@ EXCEPT !.consumed = TRUE]]
        /\ attempts'[k][n].state = OutcomeOf(observations[k][i].category)
  BY <1>0, <1>1, ConsumptionDecides
<1> DEFINE old == observations[k]
           new == observations'[k]
           row == [old[i] EXCEPT !.consumed = TRUE]
<1>4. i \in DOMAIN old /\ old[i].late /\ Actionable(old[i]) /\ old[i].attempt = n
  BY DEF UnconsumedLate
<1>5. old[i] \in ObservationRow
  BY <1>0, <1>4, ObservationTyped
<1>6. /\ row.late /\ Actionable(row)
      /\ row.attempt = n /\ row.category = old[i].category
  BY <1>4, <1>5 DEF ObservationRow, Actionable
<1>7. /\ DOMAIN new = DOMAIN old
      /\ new[i] = row
      /\ \A j \in DOMAIN old : j # i => new[j] = old[j]
  BY <1>0, <1>3, <1>4 DEF TypeOK
<1>8. AttemptNumbers(k)' = AttemptNumbers(k)
  BY <1>2 DEF AttemptNumbers
<1>9. Explains(k, i)'
  BY <1>1, <1>3, <1>6, <1>7, <1>8 DEF Explains, Actionable
(* No row of the attempt was consumed before: the attempt was still STARTED. *)
<1>10. ASSUME NEW j \in DOMAIN new, new[j].consumed, j # i
       PROVE  Explains(k, j)' /\ Alone(k, j) /\ new[j] = old[j] /\ new[j].attempt # n
  <2>1. j \in DOMAIN old /\ new[j] = old[j]
    BY <1>7, <1>10
  <2>2. Explains(k, j) /\ Alone(k, j)
    BY <1>10, <2>1 DEF Explained
  <2>3. old[j].attempt # n
    BY <1>2, <2>2, OutcomeIs DEF Explains
  <2>4. Explains(k, j)'
    BY <2>1, <2>2, DecidedStays
  <2>. QED
    BY <2>1, <2>2, <2>3, <2>4
<1>11. Alone(k, i)'
  BY <1>6, <1>7, <1>10 DEF Alone
<1>12. ASSUME NEW j \in DOMAIN new, new[j].consumed, j # i
       PROVE  Alone(k, j)'
  BY <1>6, <1>7, <1>10, <1>12 DEF Alone
<1>. QED
  BY <1>9, <1>10, <1>11, <1>12 DEF Explained

(* A transaction touches the observations of one job. *)
LEMMA EvidenceStep ==
    ASSUME StoreInv, ConsumedEvidenceDecides, EvidenceKind, FinalStep, TypeOK'
    PROVE  ConsumedEvidenceDecides'
<1>1. \A k \in Key : Explained(k)
  BY EvidenceOfJobs
<1>2. TypeOK
  BY DEF StoreInv
<1>4. ASSUME NEW l \in Key, Adds(l) \/ Consumes(l), NEW k \in Key, k # l
      PROVE  observations'[k] = observations[k]
  BY <1>2, <1>4 DEF TypeOK, Adds, Consumes, Observe, ConsumeLateObservations
<1>5. ASSUME NEW k \in Key
      PROVE  Explained(k)'
  <2>1. CASE observations'[k] = observations[k]
    BY <1>1, <2>1, SameEvidence
  <2>2. CASE Adds(k)
    BY <1>1, <2>2, AddedEvidence
  <2>3. CASE Consumes(k)
    BY <1>1, <2>3, ConsumedEvidence
  <2>. QED
    BY <1>4, <2>1, <2>2, <2>3 DEF EvidenceKind
<1>6. ConsumedEvidenceDecides' <=> \A k \in Key : Explained(k)'
  BY DEF ConsumedEvidenceDecides, Explained, Explains, Alone
<1>. QED
  BY <1>5, <1>6

(* Every consumed late observation is late and authoritative, it belongs to  *)
(* an attempt that was completed with the outcome it stands for, and no      *)
(* other row of that attempt was consumed (consume_late_observations).       *)
THEOREM ConsumedEvidenceHolds == Spec => []ConsumedEvidenceDecides
<1>1. Init => ConsumedEvidenceDecides
  BY DEF Init, ConsumedEvidenceDecides
<1>2. StoreInv /\ ConsumedEvidenceDecides /\ [Next]_storeVars => ConsumedEvidenceDecides'
  BY EvidenceStep, EvidenceKinds, FinalStepHolds, TypeStep DEF StoreInv
<1>. QED
  BY <1>1, <1>2, StoreInvariant, PTL DEF Spec

=============================================================================
