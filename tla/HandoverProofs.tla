---------------------------- MODULE HandoverProofs ----------------------------
(***************************************************************************)
(* How attempts change hands between invocations of SubmitWorkflow: every  *)
(* fencing term is granted to one invocation, the evidence of an attempt   *)
(* that is given up was used, and the application drives the store by its  *)
(* own transactions only, so that what JobStore promises it keeps without  *)
(* the bounds of the most general client.                                  *)
(***************************************************************************)
EXTENDS WorkflowProofs, LifecycleProofs

-----------------------------------------------------------------------------
(***************************************************************************)
(* The transactions of the application.                                    *)
(***************************************************************************)

(* What a stale owner reports of its POST, or of its GETs. *)
StaleReport ==
    {SubmissionReport(e) : e \in Concluded} \cup {LateGetReport(e) : e \in Evidence}

(* The owner's transactions, but for the end of a reconciliation. *)
OwnerTransaction(k, n, t, g) ==
    \/ RenewLease(k, n, t, g)
    \/ FinalizeSucceeded(k, n, t, g)
    \/ \E c \in {"validation_rejected", "idempotency_conflict"} :
          FinalizePermanentFailure(k, n, t, g, c)
    \/ \E d \in Delay : \/ FinalizeRateLimited(k, n, t, g, d)
                        \/ FinalizeNotSent(k, n, t, g, d)
                        \/ ConsumeLateObservations(k, n, t, g, d)
    \/ FinalizeRetained(k, n, t, g)
    \/ \E notBefore \in Nat : AuthorizeReconciliationRequest(k, n, t, g, notBefore)

(* The transactions that neither record a GET nor give an attempt up. *)
Ordinary(k, n, t) ==
    \/ OwnerTransaction(k, n, t, attempts[k][n].generation)
    \/ LET a == attempts[k][n] IN
          ClaimExpiredAttempt(k, n, a.owner, a.generation, a.lease, t)
    \/ \E g \in 1 .. attempts[k][n].generation, op \in Operation, r \in StaleReport :
          AppendLateObservation(k, n, g, op, r.category, r.status)

TimeMoves ==
    /\ clock' \in Nat /\ clock' >= clock
    /\ UNCHANGED <<jobs, attempts, observations, gate>>

Plain ==
    \/ \E k \in Key, p \in Payload :
          \/ DeferAttempt(k, p)
          \/ \E t \in Token : StartAttempt(k, p, t)
    \/ \E k \in Key : \E n \in AttemptNumbers(k), t \in Token : Ordinary(k, n, t)
    \/ \E d \in Delay : AdvanceGateForReconciliation(d)
    \/ TimeMoves

(* A GET of generation g is recorded; an attempt's reconciliation ends. *)
GetRecorded(k, n, g) ==
    \E r \in GetReport : AppendObservation(k, n, g, r.category, r.status)

ReconciliationEnds(k, n, t) ==
    \E disposition \in {"matched", "conflict", "not_found", "inconclusive"} :
        RecordReconciliationResult(k, n, t, attempts[k][n].generation, disposition)

(* A transaction as the application calls it: by the owner with the current  *)
(* generation, with evidence of a generation that was granted, and without   *)
(* any bound.                                                                *)
Transaction ==
    \/ Plain
    \/ \E k \in Key : \E n \in AttemptNumbers(k), t \in Token :
          \/ \E g \in 1 .. attempts[k][n].generation : GetRecorded(k, n, g)
          \/ ReconciliationEnds(k, n, t)

(* The owner's transactions keep the clock and never lower the gate. *)
LEMMA OwnerInstants ==
    ASSUME TypeOK, NEW k \in Key, NEW n \in AttemptNumbers(k), NEW t \in Token,
           NEW g \in Nat, OwnerTransaction(k, n, t, g)
    PROVE  gate' >= gate /\ clock' = clock
<1>1. gate \in Nat
  BY DEF TypeOK
<1>2. ASSUME NEW d \in Delay, RaiseGate(d) PROVE gate' >= gate
  BY <1>2, RaisedGate
<1>3. CASE gate' = gate /\ clock' = clock
  BY <1>1, <1>3
<1>4. ASSUME NEW d \in Delay, FinalizeRateLimited(k, n, t, g, d)
      PROVE  gate' >= gate /\ clock' = clock
  BY <1>2, <1>4 DEF FinalizeRateLimited
<1>5. ASSUME NEW d \in Delay, ConsumeLateObservations(k, n, t, g, d)
      PROVE  gate' >= gate /\ clock' = clock
  BY <1>1, <1>2, <1>5 DEF ConsumeLateObservations
<1>. QED
  BY <1>3, <1>4, <1>5 DEF OwnerTransaction, RenewLease, FinalizeSucceeded,
        FinalizePermanentFailure, FinalizeNotSent, FinalizeRetained,
        AuthorizeReconciliationRequest

(* A transaction never lowers the gate or turns the clock back. *)
LEMMA TransactionInstants ==
    ASSUME TypeOK, Transaction \/ UNCHANGED storeVars
    PROVE  gate' >= gate /\ clock' >= clock /\ clock' \in Nat
<1>1. gate \in Nat /\ clock \in Nat
  BY DEF TypeOK
<1>2. CASE gate' = gate /\ clock' = clock
  BY <1>1, <1>2
<1>3. ASSUME NEW k \in Key, NEW n \in AttemptNumbers(k), NEW t \in Token, Ordinary(k, n, t)
      PROVE  gate' >= gate /\ clock' = clock
  <2>1. attempts[k][n].generation \in Nat
    BY AttemptTyped
  <2>2. CASE OwnerTransaction(k, n, t, attempts[k][n].generation)
    BY <2>1, <2>2, OwnerInstants
  <2>3. CASE gate' = gate /\ clock' = clock
    BY <1>1, <2>3
  <2>. QED
    BY <1>3, <2>2, <2>3 DEF Ordinary, ClaimExpiredAttempt, AppendLateObservation
<1>4. ASSUME NEW d \in Delay, AdvanceGateForReconciliation(d)
      PROVE  gate' >= gate /\ clock' = clock
  BY <1>4, RaisedGate DEF AdvanceGateForReconciliation
<1>5. CASE Plain
  <2>1. CASE TimeMoves
    BY <1>1, <2>1 DEF TimeMoves
  <2>2. CASE gate' >= gate /\ clock' = clock
    BY <1>1, <2>2
  <2>. QED
    BY <1>2, <1>3, <1>4, <1>5, <2>1, <2>2
       DEF Plain, DeferAttempt, Defer, StartAttempt, Authorize
<1>. QED
  BY <1>2, <1>5 DEF Transaction, GetRecorded, AppendObservation, ReconciliationEnds,
                    RecordReconciliationResult, storeVars

(* A transaction adds a row that is not consumed, or consumes one. *)
LEMMA TransactionEvidence ==
    ASSUME TypeOK, Transaction \/ UNCHANGED storeVars
    PROVE  EvidenceKind
<1>1. CASE observations' = observations
  BY <1>1 DEF EvidenceKind
<1>2. ASSUME NEW k \in Key, NEW n \in AttemptNumbers(k), NEW t \in Token, NEW g \in Nat,
             OwnerTransaction(k, n, t, g)
      PROVE  EvidenceKind
  <2>1. ASSUME NEW c, NEW s, Observe(k, Observation(n, "SUBMISSION", c, s, FALSE, g))
        PROVE  EvidenceKind
    BY <2>1, NewIsAdded
  <2>2. ASSUME NEW c, FinalizePermanentFailure(k, n, t, g, c)
        PROVE  EvidenceKind
    BY <2>1, <2>2 DEF FinalizePermanentFailure
  <2>3. ASSUME NEW d \in Delay, ConsumeLateObservations(k, n, t, g, d)
        PROVE  EvidenceKind
    BY <2>3 DEF EvidenceKind, Consumes
  <2>4. CASE FinalizeSucceeded(k, n, t, g) \/ FinalizeRetained(k, n, t, g)
    BY <2>1, <2>4 DEF FinalizeSucceeded, FinalizeRetained
  <2>5. ASSUME NEW d, FinalizeRateLimited(k, n, t, g, d) \/ FinalizeNotSent(k, n, t, g, d)
        PROVE  EvidenceKind
    BY <2>1, <2>5 DEF FinalizeRateLimited, FinalizeNotSent
  <2>. QED
    BY <1>1, <1>2, <2>2, <2>3, <2>4, <2>5
       DEF OwnerTransaction, RenewLease, AuthorizeReconciliationRequest
<1>3. ASSUME NEW k \in Key, NEW n \in AttemptNumbers(k), NEW t \in Token, Ordinary(k, n, t)
      PROVE  EvidenceKind
  <2>1. attempts[k][n].generation \in Nat
    BY AttemptTyped
  <2>2. ASSUME NEW g, NEW op, NEW c, NEW s, AppendLateObservation(k, n, g, op, c, s)
        PROVE  EvidenceKind
    BY <2>2, NewIsAdded DEF AppendLateObservation
  <2>. QED
    BY <1>1, <1>2, <1>3, <2>1, <2>2 DEF Ordinary, ClaimExpiredAttempt
<1>4. CASE Plain
  BY <1>1, <1>3, <1>4 DEF Plain, DeferAttempt, Defer, StartAttempt, Authorize,
                          AdvanceGateForReconciliation, TimeMoves
<1>5. ASSUME NEW k \in Key, NEW n, NEW g, GetRecorded(k, n, g)
      PROVE  EvidenceKind
  BY <1>5, NewIsAdded DEF GetRecorded, AppendObservation
<1>. QED
  BY <1>1, <1>4, <1>5 DEF Transaction, ReconciliationEnds, RecordReconciliationResult, storeVars

-----------------------------------------------------------------------------
(***************************************************************************)
(* Evidence and the GETs of one fencing term.                              *)
(***************************************************************************)

(* The observation of a GET that attempt n made under generation g. *)
IsGet(row, n, g) ==
    row.attempt = n /\ row.operation = "RECONCILIATION" /\ ~row.late /\ row.generation = g

(* Every late row that is still to be consumed came after those GETs. *)
GetsBefore(k, n, g) ==
    \A i \in UnconsumedLate(k, n), j \in DOMAIN observations[k] :
        IsGet(observations[k][j], n, g) => j < i

KeepsGets(k, n, g) == GetsBefore(k, n, g) => GetsBefore(k, n, g)'

NoneGivenUp ==
    \A k \in Key, n \in Nat : n \in AmbiguousFor(k, "reconciliation_inconclusive")'
        => n \in AmbiguousFor(k, "reconciliation_inconclusive")

LEMMA SameRowsKeepGets ==
    ASSUME NEW k, NEW n, NEW g, observations'[k] = observations[k]
    PROVE  KeepsGets(k, n, g)
BY DEF KeepsGets, GetsBefore, UnconsumedLate, Actionable

(* A new row comes last, so it can only overtake as a GET of the same term. *)
LEMMA ObserveKeepsGets ==
    ASSUME TypeOK, NEW l \in Key, NEW row, Observe(l, row),
           NEW k \in Key, NEW n, NEW g, k # l \/ ~IsGet(row, n, g)
    PROVE  KeepsGets(k, n, g)
<1>1. observations \in [Key -> Seq(ObservationRow)]
  BY DEF TypeOK
<1>2. CASE k # l
  BY <1>1, <1>2, SameRowsKeepGets DEF Observe
<1>3. CASE k = l
  <2> DEFINE o == observations[k]
             new == observations'[k]
  <2>1. Len(o) \in Nat /\ DOMAIN o = 1 .. Len(o) /\ new = Append(o, row)
    BY <1>1, <1>3 DEF Observe
  <2>2. /\ DOMAIN new = 1 .. (Len(o) + 1)
        /\ new[Len(o) + 1] = row
        /\ \A i \in 1 .. Len(o) : new[i] = o[i]
    BY <1>1, <2>1
  <2>3. SUFFICES ASSUME GetsBefore(k, n, g), NEW i \in UnconsumedLate(k, n)',
                        NEW j \in DOMAIN new, IsGet(new[j], n, g)
                 PROVE  j < i
    BY DEF KeepsGets, GetsBefore
  <2>4. i \in DOMAIN new
    BY DEF UnconsumedLate
  <2>5. j \in 1 .. Len(o)
    BY <1>3, <2>2, <2>3
  <2>6. CASE i = Len(o) + 1
    BY <2>1, <2>5, <2>6
  <2>7. CASE i # Len(o) + 1
    <3>1. i \in DOMAIN o /\ new[i] = o[i]
      BY <2>1, <2>2, <2>4, <2>7
    <3>2. i \in UnconsumedLate(k, n)
      BY <3>1 DEF UnconsumedLate, Actionable
    <3>. QED
      BY <2>1, <2>2, <2>3, <2>5, <3>2 DEF GetsBefore
  <2>. QED
    BY <2>6, <2>7
<1>. QED
  BY <1>2, <1>3

(* Consumption leaves less to be consumed. *)
LEMMA ConsumeKeepsGets ==
    ASSUME TypeOK, NEW l \in Key, NEW m, NEW t, NEW h, NEW d,
           ConsumeLateObservations(l, m, t, h, d), NEW k \in Key, NEW n, NEW g
    PROVE  KeepsGets(k, n, g)
<1>1. PICK c \in DOMAIN observations[l] :
         observations' = [observations EXCEPT ![l][c] = [@ EXCEPT !.consumed = TRUE]]
  BY DEF ConsumeLateObservations, UnconsumedLate
<1>2. observations \in [Key -> Seq(ObservationRow)] /\ observations[l] \in Seq(ObservationRow)
  BY DEF TypeOK
<1> DEFINE new == [observations[l][c] EXCEPT !.consumed = TRUE]
<1>3. observations[l][c] \in ObservationRow
  BY ObservationTyped
<1>4. /\ new.attempt = observations[l][c].attempt
      /\ new.operation = observations[l][c].operation
      /\ new.generation = observations[l][c].generation
  BY <1>3 DEF ObservationRow
<1>5. new.late = observations[l][c].late
  BY <1>3 DEF ObservationRow
<1>6. new.consumed = TRUE
  BY <1>3 DEF ObservationRow
<1>7. /\ observations'[l] = [observations[l] EXCEPT ![c] = new]
      /\ \A x \in Key : x # l => observations'[x] = observations[x]
  BY <1>1, <1>2
<1> HIDE DEF new
<1>8. /\ DOMAIN observations'[l] = DOMAIN observations[l]
      /\ observations'[l][c] = new
      /\ \A j \in DOMAIN observations[l] : j # c => observations'[l][j] = observations[l][j]
  BY <1>2, <1>7
<1>9. CASE k # l
  BY <1>7, <1>9, SameRowsKeepGets
<1>10. CASE k = l
  <2>1. \A i \in UnconsumedLate(k, n)' : i \in UnconsumedLate(k, n)
    BY <1>6, <1>8, <1>10 DEF UnconsumedLate, Actionable
  <2>2. \A j \in DOMAIN observations'[k] :
           /\ j \in DOMAIN observations[k]
           /\ IsGet(observations'[k][j], n, g) => IsGet(observations[k][j], n, g)
    BY <1>4, <1>5, <1>8, <1>10 DEF IsGet
  <2>. QED
    BY <2>1, <2>2 DEF KeepsGets, GetsBefore
<1>. QED
  BY <1>9, <1>10

(* No ordinary transaction lets a GET overtake evidence. *)
LEMMA PlainKeepsGets ==
    ASSUME TypeOK, Plain \/ UNCHANGED storeVars, NEW k \in Key, NEW n, NEW g
    PROVE  KeepsGets(k, n, g)
<1>1. CASE observations' = observations
  BY <1>1, SameRowsKeepGets
<1>2. ASSUME NEW l \in Key, NEW m, NEW op, NEW c, NEW s, NEW late, NEW h,
             Observe(l, Observation(m, op, c, s, late, h)), op = "SUBMISSION" \/ late = TRUE
      PROVE  KeepsGets(k, n, g)
  <2>1. ~IsGet(Observation(m, op, c, s, late, h), n, g)
    BY <1>2 DEF IsGet, Observation
  <2>. QED
    BY <1>2, <2>1, ObserveKeepsGets
<1>3. ASSUME NEW l \in Key, NEW m, NEW t, NEW h, OwnerTransaction(l, m, t, h)
      PROVE  KeepsGets(k, n, g)
  <2>1. ASSUME NEW c, FinalizePermanentFailure(l, m, t, h, c)
        PROVE  KeepsGets(k, n, g)
    BY <1>2, <2>1 DEF FinalizePermanentFailure
  <2>2. ASSUME NEW d, FinalizeRateLimited(l, m, t, h, d) \/ FinalizeNotSent(l, m, t, h, d)
        PROVE  KeepsGets(k, n, g)
    BY <1>2, <2>2 DEF FinalizeRateLimited, FinalizeNotSent
  <2>3. CASE FinalizeSucceeded(l, m, t, h) \/ FinalizeRetained(l, m, t, h)
    BY <1>2, <2>3 DEF FinalizeSucceeded, FinalizeRetained
  <2>. QED
    BY <1>1, <1>3, <2>1, <2>2, <2>3, ConsumeKeepsGets
       DEF OwnerTransaction, RenewLease, AuthorizeReconciliationRequest
<1>4. ASSUME NEW l \in Key, NEW m, NEW t, Ordinary(l, m, t)
      PROVE  KeepsGets(k, n, g)
  <2>1. ASSUME NEW h, NEW op, NEW c, NEW s, AppendLateObservation(l, m, h, op, c, s)
        PROVE  KeepsGets(k, n, g)
    BY <1>2, <2>1 DEF AppendLateObservation
  <2>. QED
    BY <1>1, <1>3, <1>4, <2>1 DEF Ordinary, ClaimExpiredAttempt
<1>. QED
  BY <1>1, <1>4 DEF Plain, DeferAttempt, Defer, StartAttempt, Authorize,
                    AdvanceGateForReconciliation, TimeMoves, storeVars

(* Nor does it give an attempt up. *)
LEMMA SameRowsGiveUpNone ==
    ASSUME attempts' = attempts
    PROVE  NoneGivenUp
BY DEF NoneGivenUp, AmbiguousFor, AttemptNumbers

LEMMA CompleteGivesUpNone ==
    ASSUME TypeOK, NEW k \in Key, NEW n \in AttemptNumbers(k),
           NEW as \in AttemptState, NEW js \in JobState, NEW e \in Category, NEW d \in Nat,
           Complete(k, n, as, js, e, d), as # "AMBIGUOUS"
    PROVE  NoneGivenUp
<1>1. /\ \A l \in Key : Len(attempts'[l]) = Len(attempts[l])
      /\ \A l \in Key : \A m \in AttemptNumbers(l) :
            l # k \/ m # n => attempts'[l][m] = attempts[l][m]
      /\ attempts'[k][n] = Completed(attempts[k][n], as, e, d)
  BY CompleteEffect
<1>2. attempts'[k][n].state = as
  BY <1>1, AttemptTyped DEF Completed, AttemptRow
<1>. QED
  BY <1>1, <1>2 DEF NoneGivenUp, AmbiguousFor, AttemptNumbers

LEMMA LeaseGivesUpNone ==
    ASSUME TypeOK, NEW k \in Key, NEW n \in AttemptNumbers(k), NEW t \in Token, NEW g \in Nat,
           SetLease(k, n, t, g)
    PROVE  NoneGivenUp
<1>1. /\ \A l \in Key : Len(attempts'[l]) = Len(attempts[l])
      /\ \A l \in Key : \A m \in AttemptNumbers(l) :
            l # k \/ m # n => attempts'[l][m] = attempts[l][m]
      /\ attempts'[k][n] = Leased(attempts[k][n], t, g)
  BY SetLeaseEffect
<1>2. /\ attempts'[k][n].state = attempts[k][n].state
      /\ attempts'[k][n].error = attempts[k][n].error
  BY <1>1, AttemptTyped DEF Leased, AttemptRow
<1>. QED
  BY <1>1, <1>2 DEF NoneGivenUp, AmbiguousFor, AttemptNumbers

LEMMA StartGivesUpNone ==
    ASSUME StoreInv, NEW k \in Key, NEW p \in Payload, NEW t \in Token, StartAttempt(k, p, t)
    PROVE  NoneGivenUp
<1>1. /\ \A l \in Key : Len(attempts'[l]) =
            IF l = k THEN Len(attempts[k]) + 1 ELSE Len(attempts[l])
      /\ \A l \in Key : \A m \in AttemptNumbers(l) : attempts'[l][m] = attempts[l][m]
      /\ attempts'[k][Len(attempts[k]) + 1] = StartedRow(t)
  BY StartEffect DEF StoreInv, TableInv
<1>2. StartedRow(t).state = "STARTED"
  BY DEF StartedRow
<1>3. \A l \in Key : Len(attempts[l]) \in Nat
  BY DEF StoreInv, TypeOK
<1>. QED
  BY <1>1, <1>2, <1>3 DEF NoneGivenUp, AmbiguousFor, AttemptNumbers

LEMMA PlainGivesUpNone ==
    ASSUME StoreInv, Plain \/ UNCHANGED storeVars
    PROVE  NoneGivenUp
<1>0. TypeOK
  BY DEF StoreInv
<1>1. CASE attempts' = attempts
  BY <1>1, SameRowsGiveUpNone
<1>2. ASSUME NEW k \in Key, NEW n \in AttemptNumbers(k),
             NEW js \in JobState, NEW e \in Category, NEW d \in Nat,
             NEW as \in {"SUCCEEDED", "PERMANENT_FAILURE", "RETRYABLE_FAILURE"},
             Complete(k, n, as, js, e, d)
      PROVE  NoneGivenUp
  <2>1. as \in AttemptState /\ as # "AMBIGUOUS"
    BY DEF AttemptState
  <2>. QED
    BY <1>0, <1>2, <2>1, CompleteGivesUpNone
<1>3. ASSUME NEW k \in Key, NEW n \in AttemptNumbers(k), NEW t \in Token, NEW g \in Nat,
             OwnerTransaction(k, n, t, g)
      PROVE  NoneGivenUp
  <2>1. {"SUCCEEDED", "FAILED_PERMANENT", RetryState(n)} \subseteq JobState
    <3>1. n \in Nat
      BY DEF AttemptNumbers
    <3>. QED
      BY <3>1, RetryStateFits DEF JobState
  <2>2. {"null", "rate_limited", "transport_not_sent", "validation_rejected",
         "idempotency_conflict"} \subseteq Category
    BY DEF Category
  <2>3. ASSUME NEW d \in Delay, ConsumeLateObservations(k, n, t, g, d)
        PROVE  NoneGivenUp
    <3>1. PICK i \in UnconsumedLate(k, n) :
            \/ Complete(k, n, "SUCCEEDED", "SUCCEEDED", "null", 0)
            \/ Complete(k, n, "RETRYABLE_FAILURE", RetryState(n), "rate_limited", d)
            \/ Complete(k, n, "PERMANENT_FAILURE", "FAILED_PERMANENT",
                        observations[k][i].category, 0)
      BY <2>3 DEF ConsumeLateObservations
    <3>2. observations[k][i].category \in Category /\ d \in Nat
      BY <1>0, ObservationTyped, DelayAssumption DEF UnconsumedLate
    <3>. QED
      BY <1>2, <2>1, <2>2, <3>1, <3>2
  <2>4. CASE SetLease(k, n, t, g)
    BY <1>0, <2>4, LeaseGivesUpNone
  <2>5. CASE FinalizeSucceeded(k, n, t, g)
    BY <1>2, <2>1, <2>2, <2>5 DEF FinalizeSucceeded
  <2>6. ASSUME NEW c \in {"validation_rejected", "idempotency_conflict"},
               FinalizePermanentFailure(k, n, t, g, c)
        PROVE  NoneGivenUp
    BY <1>2, <2>1, <2>2, <2>6 DEF FinalizePermanentFailure
  <2>7. ASSUME NEW d \in Delay,
               FinalizeRateLimited(k, n, t, g, d) \/ FinalizeNotSent(k, n, t, g, d)
        PROVE  NoneGivenUp
    BY <1>2, <2>1, <2>2, <2>7, DelayAssumption DEF FinalizeRateLimited, FinalizeNotSent
  <2>8. CASE attempts' = attempts
    BY <1>1, <2>8
  <2>. QED
    BY <1>3, <2>3, <2>4, <2>5, <2>6, <2>7, <2>8
       DEF OwnerTransaction, RenewLease, FinalizeRetained, AuthorizeReconciliationRequest
<1>4. ASSUME NEW k \in Key, NEW n \in AttemptNumbers(k), NEW t \in Token, Ordinary(k, n, t)
      PROVE  NoneGivenUp
  <2>1. attempts[k][n].generation \in Nat /\ attempts[k][n].generation + 1 \in Nat
    BY <1>0, AttemptTyped
  <2>2. ASSUME NEW g \in Nat, SetLease(k, n, t, g)
        PROVE  NoneGivenUp
    BY <1>0, <2>2, LeaseGivesUpNone
  <2>. QED
    BY <1>1, <1>3, <1>4, <2>1, <2>2 DEF Ordinary, ClaimExpiredAttempt, AppendLateObservation
<1>5. ASSUME NEW k \in Key, NEW p \in Payload, NEW t \in Token, StartAttempt(k, p, t)
      PROVE  NoneGivenUp
  BY <1>5, StartGivesUpNone
<1>. QED
  BY <1>1, <1>4, <1>5 DEF Plain, DeferAttempt, Defer, AdvanceGateForReconciliation,
                          TimeMoves, storeVars

-----------------------------------------------------------------------------
(***************************************************************************)
(* The invariant.  A term names a granted generation of an attempt and is  *)
(* held by one invocation; evidence is used before its holder gives up;    *)
(* and an attempt that was given up has no holder left who could record    *)
(* another GET under its last generation.                                  *)
(***************************************************************************)
Granted(t) ==
    Acts(t) => /\ inv[t].n \in AttemptNumbers(inv[t].key)
               /\ inv[t].gen \in 1 .. attempts[inv[t].key][inv[t].n].generation

GivingUp(t) == inv[t].pc = "record" /\ inv[t].evidence = "inconclusive"

UsedEvidence(t) == GivingUp(t) => GetsBefore(inv[t].key, inv[t].n, inv[t].gen)

DelayKnown(t) == inv[t].pc = "advanceGate" => inv[t].delay \in Delay

(* Invocation t acts under the last generation of attempt n of k. *)
LastHolder(t, k, n) ==
    Acts(t) /\ inv[t].key = k /\ inv[t].n = n /\ inv[t].gen = attempts[k][n].generation

Closed(k) ==
    \A n \in AmbiguousFor(k, "reconciliation_inconclusive") :
        /\ GetsBefore(k, n, attempts[k][n].generation)
        /\ \A t \in Token : ~LastHolder(t, k, n)

HandInv ==
    /\ \A t \in Token : Granted(t) /\ UsedEvidence(t) /\ DelayKnown(t)
    /\ TermsAreExclusive
    /\ \A k \in Key : Closed(k)

-----------------------------------------------------------------------------
(***************************************************************************)
(* One step.  At most one invocation moves; it acts afterwards only under  *)
(* the term it had, or under one the step has just created.                *)
(***************************************************************************)
Stays(t) == inv'[t] = inv[t]

KeepsTerm(t) == Acts(t) /\ inv'[t].n = inv[t].n /\ inv'[t].gen = inv[t].gen

TakesTerm(t) ==
    LET k == inv'[t].key
        n == inv'[t].n
    IN  /\ n \in 1 .. Len(attempts'[k])
        /\ inv'[t].gen \in Nat \ {0}
        /\ inv'[t].gen = attempts'[k][n].generation
        /\ n \in AttemptNumbers(k) => inv'[t].gen > attempts[k][n].generation

Moves(t) ==
    /\ inv'[t].key = inv[t].key
    /\ Acts(t)' => KeepsTerm(t) \/ TakesTerm(t)
    /\ GivingUp(t)' => UnconsumedLate(inv[t].key, inv[t].n)' = {}
    /\ DelayKnown(t)'

Turn ==
    /\ \A t \in Token : Stays(t) \/ Moves(t)
    /\ \A t, u \in Token : Stays(t) \/ Stays(u) \/ t = u

(* What the step does to the store. *)
Gets(t) == At(t, "observe") /\ GetRecorded(inv[t].key, inv[t].n, inv[t].gen)

Records(t) ==
    /\ At(t, "record") /\ ~Acts(t)'
    /\ RecordReconciliationResult(inv[t].key, inv[t].n, t, inv[t].gen, inv[t].evidence)

StoreTurn ==
    \/ Plain \/ UNCHANGED storeVars
    \/ \E t \in Token : Gets(t) \/ Records(t)

(* Generations and attempts only grow. *)
LEMMA TermsStand ==
    ASSUME TypeOK, TypeOK', FinalStep, TakeoverStep, NEW k \in Key, NEW n \in AttemptNumbers(k)
    PROVE  /\ n \in AttemptNumbers(k)'
           /\ attempts[k][n].generation \in Nat /\ attempts'[k][n].generation \in Nat
           /\ attempts'[k][n].generation >= attempts[k][n].generation
<1>1. Len(attempts'[k]) >= Len(attempts[k]) /\ n \in 1 .. Len(attempts[k])
  BY DEF FinalStep, AttemptNumbers
<1>2. Len(attempts'[k]) \in Nat /\ Len(attempts[k]) \in Nat
  BY DEF TypeOK
<1>3. n \in AttemptNumbers(k)'
  BY <1>1, <1>2 DEF AttemptNumbers
<1>4. attempts[k][n].generation \in Nat
  BY AttemptTyped
<1>5. \/ attempts'[k][n].generation = attempts[k][n].generation
      \/ attempts'[k][n].generation = attempts[k][n].generation + 1
  BY DEF TakeoverStep
<1>. QED
  BY <1>3, <1>4, <1>5

LEMMA GrantedStep ==
    ASSUME FullInv, TypeOK', FinalStep, TakeoverStep, Turn, NEW t \in Token, Granted(t)
    PROVE  Granted(t)'
<1>0. TypeOK /\ inv[t].key \in Key
  BY Known
<1>1. CASE Stays(t)
  BY <1>0, <1>1, TermsStand DEF Stays, Granted, Acts, At
<1>2. CASE Moves(t)
  <2>1. CASE KeepsTerm(t)
    BY <1>0, <1>2, <2>1, TermsStand DEF Moves, KeepsTerm, Granted
  <2>2. CASE TakesTerm(t)
    BY <1>2, <2>2 DEF Moves, TakesTerm, Granted, AttemptNumbers
  <2>. QED
    BY <1>2, <2>1, <2>2 DEF Moves, Granted
<1>. QED
  BY <1>1, <1>2 DEF Turn

(* A term that was just created is nobody else's. *)
LEMMA ExclusiveStep ==
    ASSUME FullInv, FinalStep, TakeoverStep, Turn, TermsAreExclusive,
           \A t \in Token : Granted(t)
    PROVE  TermsAreExclusive'
<1>1. SUFFICES ASSUME NEW t \in Token, NEW u \in Token, Acts(t)', Acts(u)', SameTerm(t, u)',
                      t # u, Stays(u)
               PROVE  FALSE
  <2>1. ASSUME NEW t \in Token, NEW u \in Token, Acts(t)', Acts(u)', SameTerm(t, u)', t # u
        PROVE  FALSE
    <3>1. Stays(t) \/ Stays(u)
      BY <2>1 DEF Turn
    <3>2. SameTerm(u, t)'
      BY <2>1 DEF SameTerm
    <3>. QED
      BY <1>1, <2>1, <3>1, <3>2
  <2>. QED
    BY <2>1 DEF TermsAreExclusive
<1>2. Acts(u) /\ inv'[u] = inv[u]
  BY <1>1 DEF Stays, Acts, At
<1>3. /\ inv'[t].key = inv[u].key /\ inv'[t].n = inv[u].n /\ inv'[t].gen = inv[u].gen
  BY <1>1, <1>2 DEF SameTerm
<1>4. /\ inv[u].key \in Key /\ inv[u].n \in AttemptNumbers(inv[u].key)
      /\ inv[u].gen \in 1 .. attempts[inv[u].key][inv[u].n].generation
      /\ attempts[inv[u].key][inv[u].n].generation \in Nat
  BY <1>2, Known, AttemptTyped DEF Granted
<1>5. CASE Stays(t) \/ (Moves(t) /\ KeepsTerm(t))
  <2>1. Acts(t) /\ SameTerm(t, u)
    BY <1>1, <1>3, <1>5 DEF Stays, Moves, KeepsTerm, Acts, SameTerm, At
  <2>. QED
    BY <1>1, <1>2, <2>1 DEF TermsAreExclusive
<1>6. CASE Moves(t) /\ TakesTerm(t)
  BY <1>3, <1>4, <1>6 DEF Moves, TakesTerm
<1>. QED
  BY <1>1, <1>5, <1>6 DEF Turn, Moves

(* Only the holder of a term records a GET under it. *)
LEMMA OthersKeepGets ==
    ASSUME FullInv, StoreTurn, NEW k \in Key, NEW n, NEW g,
           \A t \in Token : At(t, "observe") =>
               inv[t].key # k \/ inv[t].n # n \/ inv[t].gen # g
    PROVE  KeepsGets(k, n, g)
<1>0. TypeOK
  BY DEF FullInv, StoreInv
<1>1. CASE Plain \/ UNCHANGED storeVars
  BY <1>0, <1>1, PlainKeepsGets
<1>2. ASSUME NEW t \in Token, Gets(t)
      PROVE  KeepsGets(k, n, g)
  <2>1. PICK c, s : Observe(inv[t].key, Observation(inv[t].n, "RECONCILIATION", c, s, FALSE,
                                                    inv[t].gen))
    BY <1>2 DEF Gets, GetRecorded, AppendObservation
  <2>2. k # inv[t].key
        \/ ~IsGet(Observation(inv[t].n, "RECONCILIATION", c, s, FALSE, inv[t].gen), n, g)
    BY <1>2 DEF Gets, IsGet, Observation
  <2>3. inv[t].key \in Key
    BY Known
  <2>. QED
    BY <1>0, <2>1, <2>2, <2>3, ObserveKeepsGets
<1>3. ASSUME NEW t \in Token, Records(t)
      PROVE  KeepsGets(k, n, g)
  BY <1>3, SameRowsKeepGets DEF Records, RecordReconciliationResult
<1>. QED
  BY <1>1, <1>2, <1>3 DEF StoreTurn

LEMMA UsedEvidenceStep ==
    ASSUME FullInv, Turn, StoreTurn, TermsAreExclusive, NEW t \in Token, UsedEvidence(t)
    PROVE  UsedEvidence(t)'
<1>1. inv[t].key \in Key
  BY Known
<1>2. CASE Moves(t)
  BY <1>2 DEF Moves, UsedEvidence, GetsBefore
<1>3. CASE Stays(t) /\ GivingUp(t)
  <2>1. Acts(t) /\ ~At(t, "observe")
    BY <1>3 DEF GivingUp, Acts, Acting, Pc, At
  <2>2. \A u \in Token : At(u, "observe") => Acts(u)
    BY DEF Acts, Acting, Pc, At
  <2>3. KeepsGets(inv[t].key, inv[t].n, inv[t].gen)
    BY <1>1, <2>1, <2>2, OthersKeepGets DEF TermsAreExclusive, SameTerm
  <2>. QED
    BY <1>3, <2>3 DEF Stays, UsedEvidence, KeepsGets, GetsBefore, UnconsumedLate, Actionable
<1>. QED
  BY <1>2, <1>3 DEF Turn, Stays, UsedEvidence, GivingUp

(* Giving an attempt up records no row and keeps its generation. *)
LEMMA RecordsEffect ==
    ASSUME FullInv, NEW t \in Token, Records(t)
    PROVE  LET k == inv[t].key
               n == inv[t].n
           IN  /\ k \in Key /\ n \in AttemptNumbers(k)
               /\ attempts[k][n].generation = inv[t].gen
               /\ attempts'[k][n].generation = inv[t].gen
               /\ observations' = observations
               /\ \A l \in Key : Len(attempts'[l]) = Len(attempts[l])
               /\ \A l \in Key : \A m \in AttemptNumbers(l) :
                     l # k \/ m # n => attempts'[l][m] = attempts[l][m]
               /\ inv[t].evidence # "inconclusive" =>
                     attempts'[k][n].error # "reconciliation_inconclusive"
<1> DEFINE k == inv[t].key
           n == inv[t].n
<1>1. TypeOK /\ k \in Key
  BY Known
<1>2. /\ n \in AttemptNumbers(k) /\ attempts[k][n].generation = inv[t].gen
      /\ observations' = observations
  BY DEF Records, RecordReconciliationResult, Owns
<1>3. PICK as \in AttemptState, js \in JobState, e \in Category :
         /\ Complete(k, n, as, js, e, 0)
         /\ inv[t].evidence # "inconclusive" => e # "reconciliation_inconclusive"
  BY DEF Records, RecordReconciliationResult, AttemptState, JobState, Category
<1>a. 0 \in Nat
  OBVIOUS
<1> HIDE DEF k, n
<1>4. /\ \A l \in Key : Len(attempts'[l]) = Len(attempts[l])
      /\ \A l \in Key : \A m \in AttemptNumbers(l) :
            l # k \/ m # n => attempts'[l][m] = attempts[l][m]
      /\ attempts'[k][n] = Completed(attempts[k][n], as, e, 0)
  BY <1>1, <1>2, <1>3, <1>a, CompleteEffect
<1>5. /\ attempts'[k][n].generation = attempts[k][n].generation
      /\ attempts'[k][n].error = e
  BY <1>1, <1>2, <1>4, AttemptTyped DEF Completed, AttemptRow
<1>. QED
  BY <1>1, <1>2, <1>3, <1>4, <1>5 DEF k, n

(* An attempt is newly given up as inconclusive only by the invocation that  *)
(* acts under its last term, with its evidence used.                         *)
LEMMA NewlyGivenUp ==
    ASSUME FullInv, HandInv, StoreTurn, NEW k \in Key,
           NEW n \in AmbiguousFor(k, "reconciliation_inconclusive")',
           n \notin AmbiguousFor(k, "reconciliation_inconclusive")
    PROVE  /\ \E t \in Token : Records(t) /\ LastHolder(t, k, n)
           /\ GetsBefore(k, n, attempts[k][n].generation)
           /\ observations' = observations
           /\ n \in AttemptNumbers(k)
           /\ attempts'[k][n].generation = attempts[k][n].generation
<1>0. StoreInv /\ TypeOK
  BY DEF FullInv, StoreInv
<1>1. n \in Nat
  BY DEF AmbiguousFor, AttemptNumbers
<1>2. CASE Plain \/ UNCHANGED storeVars
  BY <1>0, <1>1, <1>2, PlainGivesUpNone DEF NoneGivenUp
<1>3. ASSUME NEW t \in Token, Gets(t)
      PROVE  FALSE
  <2>1. attempts' = attempts
    BY <1>3 DEF Gets, GetRecorded, AppendObservation
  <2>. QED
    BY <1>1, <2>1, SameRowsGiveUpNone DEF NoneGivenUp
<1>4. PICK t \in Token : Records(t)
  BY <1>2, <1>3 DEF StoreTurn
<1>5. k = inv[t].key /\ n = inv[t].n /\ inv[t].evidence = "inconclusive"
  <2>1. n \in AttemptNumbers(k)
    BY <1>0, <1>4, RecordsEffect DEF AmbiguousFor, AttemptNumbers
  <2>2. attempts'[k][n] # attempts[k][n]
    BY <2>1 DEF AmbiguousFor
  <2>3. k = inv[t].key /\ n = inv[t].n
    BY <1>4, <2>1, <2>2, RecordsEffect
  <2>4. attempts'[k][n].error = "reconciliation_inconclusive"
    BY DEF AmbiguousFor
  <2>. QED
    BY <1>4, <2>3, <2>4, RecordsEffect
<1>6. /\ attempts[k][n].generation = inv[t].gen /\ attempts'[k][n].generation = inv[t].gen
      /\ n \in AttemptNumbers(k) /\ observations' = observations
  BY <1>4, <1>5, RecordsEffect
<1>7. inv[t].pc = "record" /\ Acts(t)
  BY <1>4 DEF Records, At, Acts, Acting, Pc
<1>8. GetsBefore(k, n, inv[t].gen)
  BY <1>5, <1>7 DEF HandInv, UsedEvidence, GivingUp
<1>9. LastHolder(t, k, n)
  BY <1>5, <1>6, <1>7 DEF LastHolder
<1>. QED
  BY <1>4, <1>6, <1>8, <1>9

(* An attempt that was given up stays as it is, and so does its evidence:    *)
(* the terms under which invocations act on it are other ones.               *)
LEMMA ClosedStep ==
    ASSUME FullInv, TypeOK', HandInv, FinalStep, TakeoverStep, Turn, StoreTurn, NEW k \in Key
    PROVE  Closed(k)'
<1> SUFFICES ASSUME NEW n \in AmbiguousFor(k, "reconciliation_inconclusive")'
             PROVE  /\ GetsBefore(k, n, attempts[k][n].generation)'
                    /\ \A t \in Token : ~LastHolder(t, k, n)'
  BY DEF Closed
<1>0. TypeOK
  BY DEF FullInv, StoreInv
<1>1. CASE n \in AmbiguousFor(k, "reconciliation_inconclusive")
  <2>1. n \in AttemptNumbers(k) /\ attempts'[k][n] = attempts[k][n]
    BY <1>1 DEF AmbiguousFor, FinalStep
  <2>2. /\ GetsBefore(k, n, attempts[k][n].generation)
        /\ \A t \in Token : ~LastHolder(t, k, n)
    BY <1>1 DEF HandInv, Closed
  <2>3. \A t \in Token : At(t, "observe") => Acts(t)
    BY DEF At, Acts, Acting, Pc
  <2>4. KeepsGets(k, n, attempts[k][n].generation)
    BY <2>2, <2>3, OthersKeepGets DEF LastHolder
  <2>5. GetsBefore(k, n, attempts[k][n].generation)'
    BY <2>1, <2>2, <2>4 DEF KeepsGets, GetsBefore
  <2>6. ASSUME NEW t \in Token, LastHolder(t, k, n)'
        PROVE  FALSE
    <3>1. /\ Acts(t)' /\ inv'[t].key = k /\ inv'[t].n = n
          /\ inv'[t].gen = attempts[k][n].generation
      BY <2>1, <2>6 DEF LastHolder
    <3>2. CASE Stays(t) \/ (Moves(t) /\ KeepsTerm(t))
      BY <2>2, <3>1, <3>2 DEF Stays, Moves, KeepsTerm, LastHolder, Acts, At
    <3>3. CASE Moves(t) /\ TakesTerm(t)
      <4>1. attempts[k][n].generation \in Nat
        BY <1>0, <2>1, AttemptTyped
      <4>. QED
        BY <2>1, <3>1, <3>3, <4>1 DEF Moves, TakesTerm
    <3>. QED
      BY <3>1, <3>2, <3>3 DEF Turn, Moves
  <2>. QED
    BY <2>5, <2>6
<1>2. CASE n \notin AmbiguousFor(k, "reconciliation_inconclusive")
  <2>1. PICK u \in Token : Records(u) /\ LastHolder(u, k, n)
    BY <1>2, NewlyGivenUp
  <2>2. /\ GetsBefore(k, n, attempts[k][n].generation)
        /\ observations' = observations
        /\ n \in AttemptNumbers(k)
        /\ attempts'[k][n].generation = attempts[k][n].generation
    BY <1>2, NewlyGivenUp
  <2>3. GetsBefore(k, n, attempts[k][n].generation)'
    BY <2>2, SameRowsKeepGets DEF KeepsGets, GetsBefore
  <2>4. ASSUME NEW t \in Token, LastHolder(t, k, n)'
        PROVE  FALSE
    <3>1. /\ Acts(t)' /\ inv'[t].key = k /\ inv'[t].n = n
          /\ inv'[t].gen = attempts[k][n].generation
      BY <2>2, <2>4 DEF LastHolder
    <3>2. t # u
      BY <2>1, <3>1 DEF Records
    <3>3. CASE Stays(t) \/ (Moves(t) /\ KeepsTerm(t))
      <4>1. Acts(t) /\ SameTerm(t, u)
        BY <2>1, <3>1, <3>3 DEF Stays, Moves, KeepsTerm, LastHolder, SameTerm, Acts, At
      <4>. QED
        BY <2>1, <3>2, <4>1 DEF HandInv, TermsAreExclusive, LastHolder
    <3>4. CASE Moves(t) /\ TakesTerm(t)
      <4>1. attempts[k][n].generation \in Nat
        BY <1>0, <2>2, AttemptTyped
      <4>. QED
        BY <2>2, <3>1, <3>4, <4>1 DEF Moves, TakesTerm
    <3>. QED
      BY <3>1, <3>3, <3>4 DEF Turn, Moves
  <2>. QED
    BY <2>3, <2>4
<1>. QED
  BY <1>1, <1>2

LEMMA HandStep ==
    ASSUME FullInv, TypeOK', HandInv, FinalStep, TakeoverStep, Turn, StoreTurn
    PROVE  HandInv'
<1>1. ASSUME NEW t \in Token
      PROVE  Granted(t)' /\ UsedEvidence(t)' /\ DelayKnown(t)'
  <2>1. DelayKnown(t)'
    BY DEF HandInv, Turn, Stays, Moves, DelayKnown
  <2>. QED
    BY <2>1, GrantedStep, UsedEvidenceStep DEF HandInv
<1>2. TermsAreExclusive'
  BY ExclusiveStep DEF HandInv
<1>. QED
  BY <1>1, <1>2, ClosedStep DEF HandInv

-----------------------------------------------------------------------------
(***************************************************************************)
(* What each action does to the terms.                                     *)
(***************************************************************************)
OnlyMoves(t) ==
    /\ \A u \in Token : u # t => Stays(u)
    /\ Stays(t) \/ Moves(t)

LEMMA OnlyMovesTurn ==
    ASSUME NEW t \in Token, OnlyMoves(t)
    PROVE  Turn
BY DEF OnlyMoves, Turn, Stays

(* The pcs and resumptions at which an invocation acts. *)
ActsAt(pc, then) == pc \in Acting \/ (pc = "sleep" /\ then \in {"late", "reconRenew"})

LEMMA ActsFields ==
    ASSUME NEW t \in Token
    PROVE  /\ Acts(t) <=> ActsAt(inv[t].pc, inv[t].then)
           /\ Acts(t)' <=> ActsAt(inv'[t].pc, inv'[t].then)
BY DEF Acts, ActsAt, At

LEMMA ActingPcs ==
    /\ Acting = {"renew", "post", "posted", "finalize", "appendLate", "late", "reconcile",
                 "reconWait", "reconRenew", "get", "observe", "advanceGate", "backoff",
                 "lastLate", "record", "appendLateGet"}
    /\ "done" \notin Acting /\ "crashed" \notin Acting
BY DEF Acting, Pc

(* The invocation leaves its attempt. *)
LEMMA NowLeaves ==
    ASSUME NEW t \in Token, NEW pc, NEW then, NEW n, NEW e, NEW s, NEW o,
           Now(t, pc, then, n, e, s, o), ~ActsAt(pc, then)
    PROVE  OnlyMoves(t) /\ ~Acts(t)'
<1>1. inv'[t].pc = pc /\ inv'[t].then = then /\ inv'[t].key = inv[t].key
  BY DEF Now
<1>2. ~Acts(t)'
  BY <1>1, ActsFields
<1>3. pc # "record" /\ pc # "advanceGate"
  BY ActingPcs DEF ActsAt
<1>4. Moves(t)
  BY <1>1, <1>2, <1>3 DEF Moves, GivingUp, DelayKnown
<1>. QED
  BY <1>2, <1>4 DEF Now, OnlyMoves, Stays

LEMMA EndLeaves ==
    ASSUME FullInv, NEW t \in Token, NEW o \in Outcome,
           EndAs(t, o) \/ \E s \in BOOLEAN : End(t, o, s)
    PROVE  OnlyMoves(t) /\ ~Acts(t)'
<1>1. WorkTypeOK /\ ~ActsAt("done", "authorize")
  BY ActingPcs DEF FullInv, ActsAt
<1>2. CASE EndAs(t, o)
  <2>1. Now(t, "done", "authorize", 0, "none", inv[t].submitted, o)
    BY <1>1, <1>2, EndAsNow
  <2>. QED
    BY <1>1, <2>1, NowLeaves
<1>3. ASSUME NEW s \in BOOLEAN, End(t, o, s)
      PROVE  OnlyMoves(t) /\ ~Acts(t)'
  <2>1. Now(t, "done", "authorize", 0, "none", s, o)
    BY <1>1, <1>3, EndNow
  <2>. QED
    BY <1>1, <2>1, NowLeaves
<1>. QED
  BY <1>2, <1>3

LEMMA VanishLeaves ==
    ASSUME FullInv, NEW t \in Token, Vanish(t)
    PROVE  OnlyMoves(t)
<1>1. Now(t, "crashed", "authorize", 0, "none", FALSE, "none")
  BY VanishNow DEF FullInv
<1>2. ~ActsAt("crashed", "authorize")
  BY ActingPcs DEF ActsAt
<1>. QED
  BY <1>1, <1>2, NowLeaves

(* The invocation stands elsewhere, under the term it had if under any. *)
LEMMA BecomeMoves ==
    ASSUME FullInv, NEW t \in Token, NEW r, Become(t, r), r.key = inv[t].key,
           ActsAt(r.pc, r.then) => Acts(t) /\ r.n = inv[t].n /\ r.gen = inv[t].gen,
           r.pc # "record", r.pc # "advanceGate"
    PROVE  OnlyMoves(t)
<1>1. inv'[t] = r /\ \A u \in Token : u # t => inv'[u] = inv[u]
  BY DEF FullInv, WorkTypeOK, Become
<1>2. Acts(t)' => KeepsTerm(t)
  BY <1>1, ActsFields DEF KeepsTerm
<1>3. Moves(t)
  BY <1>1, <1>2 DEF Moves, GivingUp, DelayKnown
<1>. QED
  BY <1>1, <1>3 DEF OnlyMoves, Stays

LEMMA GotoMoves ==
    ASSUME FullInv, NEW t \in Token, NEW pc, Goto(t, pc), Acts(t), pc # "record",
           pc # "advanceGate"
    PROVE  OnlyMoves(t)
<1> DEFINE r == [inv[t] EXCEPT !.pc = pc]
<1>1. inv[t] \in Invocation
  BY Known
<1>2. /\ Become(t, r) /\ r.key = inv[t].key /\ r.n = inv[t].n /\ r.gen = inv[t].gen
      /\ r.pc = pc
  BY <1>1 DEF Goto, Invocation
<1> HIDE DEF r
<1>. QED
  BY <1>2, BecomeMoves

LEMMA ObservedMoves ==
    ASSUME FullInv, NEW t \in Token, NEW e, Observed(t, e), Acts(t)
    PROVE  OnlyMoves(t)
<1> DEFINE s == (inv[t].submitted \/ e # "transport_not_sent")
           r == [inv[t] EXCEPT !.pc = "finalize", !.evidence = e, !.submitted = s]
<1>1. inv[t] \in Invocation
  BY Known
<1>2. Become(t, r)
  BY DEF Observed
<1> HIDE DEF s
<1>3. /\ r.key = inv[t].key /\ r.n = inv[t].n /\ r.gen = inv[t].gen /\ r.pc = "finalize"
  BY <1>1 DEF Invocation
<1> HIDE DEF r
<1>. QED
  BY <1>2, <1>3, BecomeMoves

(* A sleep that ends anywhere but on the attempt. *)
LEMMA SleepLeaves ==
    ASSUME FullInv, NEW t \in Token, NEW i \in Invocation,
           i.key = inv[t].key, i.payload = inv[t].payload,
           NEW d \in Nat, NEW then \in {"claim", "authorize"}, Become(t, Sleeping(i, d, then))
    PROVE  OnlyMoves(t)
<1>1. then \in Pc /\ WorkTypeOK
  BY PcTyped DEF FullInv
<1>2. Now(t, "sleep", then, i.n, i.evidence, i.submitted, i.outcome)
  BY <1>1, SleepNow
<1>3. ~ActsAt("sleep", then)
  BY ActingPcs DEF ActsAt
<1>. QED
  BY <1>2, <1>3, NowLeaves

(* A chunk of a wait between two GETs. *)
LEMMA ChunkTerm ==
    ASSUME TypeOK, NEW i \in Invocation, NEW left \in Nat
    PROVE  LET r == SleepChunk(i, left) IN r.gen = i.gen
<1> DEFINE chunk == IF left > Cadence THEN Cadence ELSE left
           then == IF left > chunk THEN "reconRenew" ELSE "late"
           rest == left - chunk
           u == clock + chunk
           w == i.slept + chunk
           a == [i EXCEPT !.pc = "sleep", !.until = u, !.then = then, !.slept = w]
<1> HIDE DEF chunk, then, rest
<1>1. SleepChunk(i, left) = [Sleeping(i, chunk, then) EXCEPT !.delay = rest]
  BY DEF SleepChunk, chunk, then, rest
<1>2. Sleeping(i, chunk, then) = a
  BY Zenon DEF Sleeping
<1> HIDE DEF u, w
<1>3. [a EXCEPT !.delay = rest].gen = i.gen
  BY DEF Invocation
<1>. QED
  BY <1>1, <1>2, <1>3

LEMMA ChunkMoves ==
    ASSUME FullInv, NEW t \in Token, NEW left \in Nat, Become(t, SleepChunk(inv[t], left)),
           Acts(t)
    PROVE  OnlyMoves(t)
<1> DEFINE r == SleepChunk(inv[t], left)
<1>1. TypeOK /\ inv[t] \in Invocation
  BY Known
<1>2. r.key = inv[t].key /\ r.n = inv[t].n /\ r.gen = inv[t].gen /\ r.pc = "sleep"
  BY <1>1, ChunkFields, ChunkTerm
<1> HIDE DEF r
<1>3. Become(t, r)
  BY DEF r
<1>. QED
  BY <1>2, <1>3, BecomeMoves

(* Starting an attempt creates its first term. *)
LEMMA AuthorizedTurn ==
    ASSUME FullInv, NEW t \in Token, Authorized(t)
    PROVE  OnlyMoves(t) /\ Plain
<1> DEFINE i == inv[t]
           k == inv[t].key
           m == Len(attempts[k]) + 1
           r == [i EXCEPT !.pc = "renew", !.n = m, !.gen = 1]
<1>1. /\ StoreInv /\ TypeOK /\ JobMatchesAttempts /\ i \in Invocation
      /\ k \in Key /\ i.payload \in Payload
  BY Known
<1>2. StartAttempt(k, i.payload, t) /\ Become(t, r)
  BY DEF Authorized
<1>3. /\ Len(attempts'[k]) = m /\ attempts'[k][m] = StartedRow(t)
  BY <1>1, <1>2, StartEffect
<1>4. m \in Nat \ {0} /\ Len(attempts[k]) \in Nat
  BY <1>1 DEF TypeOK
<1>5. m \notin AttemptNumbers(k) /\ m \in 1 .. Len(attempts'[k])
  BY <1>3, <1>4 DEF AttemptNumbers
<1>6. attempts'[k][m].generation = 1
  BY <1>3 DEF StartedRow
<1>7. Plain
  BY <1>1, <1>2 DEF Plain
<1> HIDE DEF m
<1>8. r.key = k /\ r.n = m /\ r.gen = 1 /\ r.pc = "renew"
  BY <1>1 DEF Invocation
<1> HIDE DEF r
<1>9. inv'[t] = r /\ \A u \in Token : u # t => inv'[u] = inv[u]
  BY <1>2 DEF FullInv, WorkTypeOK, Become
<1> HIDE DEF k
<1>a. k = inv[t].key
  BY DEF k
<1>10. TakesTerm(t)
  BY <1>5, <1>6, <1>8, <1>9 DEF TakesTerm
<1>11. Moves(t)
  BY <1>8, <1>9, <1>10, <1>a DEF Moves, GivingUp, DelayKnown
<1>. QED
  BY <1>7, <1>9, <1>11 DEF OnlyMoves, Stays

LEMMA PreSideEffectTurn ==
    ASSUME FullInv, NEW t \in Token, PreSideEffect(t)
    PROVE  OnlyMoves(t) /\ (Plain \/ UNCHANGED storeVars)
<1> DEFINE i == inv[t]
<1>1. /\ TypeOK /\ JobMatchesAttempts /\ i \in Invocation
      /\ i.key \in Key /\ i.payload \in Payload
  BY Known
<1>2. {"idempotency_conflict", "already_completed", "job_in_progress", "succeeded",
       "failed_permanent", "ambiguous", "retry_exhausted", "retry_scheduled"} \subseteq Outcome
  BY DEF Outcome
<1>3. CASE Refused(t)
  <2>1. FALSE \in BOOLEAN
    OBVIOUS
  <2>. QED
    BY <1>2, <1>3, <2>1, EndLeaves DEF Refused
<1>4. CASE Settled(t)
  <2>1. Render(jobs[i.key], Latest(i.key)) \in Outcome
    BY <1>2 DEF Render
  <2>2. \/ End(t, "already_completed", FALSE)
        \/ EndAs(t, Render(jobs[i.key], Latest(i.key)))
    BY <1>4 DEF Settled
  <2>3. FALSE \in BOOLEAN
    OBVIOUS
  <2>. QED
    BY <1>2, <1>4, <2>1, <2>2, <2>3, EndLeaves DEF Settled
<1>5. CASE InProgress(t)
  BY <1>2, <1>5, EndLeaves DEF InProgress
<1>6. CASE Expired(t)
  <2> DEFINE L == Len(attempts[i.key])
             latest == Latest(i.key)
             r == [i EXCEPT !.n = L, !.gen = latest.generation,
                            !.seenOwner = latest.owner, !.seenLease = latest.lease]
  <2>1. L \in AttemptNumbers(i.key) /\ L \in Nat /\ latest = attempts[i.key][L]
    BY <1>1, <1>6, LatestTyped DEF Expired
  <2>2. latest.generation \in Nat /\ latest.owner \in Token \cup {NoToken} /\ latest.lease \in Nat
    BY <1>1, <2>1, AttemptTyped DEF AttemptRow
  <2>3. Become(t, Sleeping(r, Quarantine, "claim")) /\ UNCHANGED storeVars
    BY <1>6 DEF Expired
  <2> HIDE DEF latest, L
  <2>4. r \in Invocation /\ r.key = i.key /\ r.payload = i.payload
    BY <1>1, <2>1, <2>2 DEF Invocation
  <2> HIDE DEF r
  <2>. QED
    BY <2>3, <2>4, WaitAssumption, SleepLeaves
<1>7. CASE Authorized(t)
  BY <1>7, AuthorizedTurn
<1>8. CASE Deferred(t)
  <2> DEFINE u == LaterOf(JobEligibleAt(i.key), gate)
             o == IF jobs[i.key].state = "RETRY_SCHEDULED"
                  THEN "retry_scheduled" ELSE "submission_deferred"
             r == [i EXCEPT !.pc = "wait", !.until = u, !.outcome = o]
  <2>1. DeferAttempt(i.key, i.payload) /\ Become(t, r)
    BY <1>8 DEF Deferred
  <2> HIDE DEF u, o
  <2>2. r.key = i.key /\ r.pc = "wait" /\ ~ActsAt("wait", r.then)
    BY <1>1, ActingPcs DEF Invocation, ActsAt
  <2> HIDE DEF r
  <2>3. Plain
    BY <1>1, <2>1 DEF Plain
  <2>. QED
    BY <2>1, <2>2, <2>3, BecomeMoves
<1>. QED
  BY <1>3, <1>4, <1>5, <1>6, <1>7, <1>8 DEF PreSideEffect

LEMMA WaitTurn ==
    ASSUME FullInv, NEW t \in Token, WaitIfItFits(t)
    PROVE  OnlyMoves(t) /\ UNCHANGED storeVars
<1> DEFINE i == inv[t]
           d == DelayLeft(i)
           r == [i EXCEPT !.outcome = "none"]
<1>1. i \in Invocation /\ clock \in Nat /\ i.outcome \in Outcome /\ i.until \in Nat
  BY Known, KnownSleep DEF Invocation
<1>2. CASE EndAs(t, i.outcome)
  BY <1>1, <1>2, EndLeaves DEF WaitIfItFits
<1>3. CASE Become(t, Sleeping(r, d, "authorize"))
  <2>1. d \in Nat
    BY <1>1 DEF DelayLeft
  <2>2. r \in Invocation /\ r.key = i.key /\ r.payload = i.payload
    BY <1>1 DEF Invocation, Outcome
  <2> HIDE DEF r, d
  <2>. QED
    BY <1>3, <2>1, <2>2, SleepLeaves DEF WaitIfItFits
<1>. QED
  BY <1>2, <1>3 DEF WaitIfItFits

LEMMA WakeTurn ==
    ASSUME FullInv, NEW t \in Token, Wake(t)
    PROVE  OnlyMoves(t) /\ Plain
<1> DEFINE i == inv[t]
           r == [i EXCEPT !.pc = i.then, !.then = "authorize", !.until = 0]
<1>1. i \in Invocation /\ clock \in Nat /\ i.then \in Resumes /\ i.until \in Nat /\ i.pc = "sleep"
  BY Known, KnownSleep DEF Wake, At
<1>2. Become(t, r)
  BY DEF Wake
<1>3. r.key = i.key /\ r.n = i.n /\ r.gen = i.gen /\ r.pc = i.then
  BY <1>1 DEF Invocation
<1> HIDE DEF r
<1>4. ActsAt(r.pc, r.then) => Acts(t)
  BY <1>1, <1>3, ActingPcs, ActsFields DEF ActsAt, Resumes
<1>5. OnlyMoves(t)
  BY <1>1, <1>2, <1>3, <1>4, BecomeMoves DEF Resumes
<1>6. TimeMoves
  BY <1>1 DEF Wake, TimeMoves, LaterOf
<1>. QED
  BY <1>5, <1>6 DEF Plain

(* A claim creates the next term of the attempt. *)
LEMMA ClaimTurn ==
    ASSUME FullInv, NEW t \in Token, Claim(t)
    PROVE  OnlyMoves(t) /\ (Plain \/ UNCHANGED storeVars)
<1> DEFINE i == inv[t]
           k == inv[t].key
<1>1. /\ TypeOK /\ i \in Invocation /\ k \in Key /\ i.payload \in Payload
      /\ i.gen \in Nat /\ i.n \in Nat
  BY Known
<1>2. CASE /\ ClaimExpiredAttempt(k, i.n, i.seenOwner, i.gen, i.seenLease, t)
           /\ Become(t, [i EXCEPT !.pc = "late", !.gen = @ + 1,
                                  !.seenOwner = NoToken, !.seenLease = 0])
  <2> DEFINE g == i.gen + 1
             r == [i EXCEPT !.pc = "late", !.gen = g, !.seenOwner = NoToken, !.seenLease = 0]
  <2>1. g \in Nat \ {0} /\ g > i.gen /\ Become(t, r)
    BY <1>1, <1>2
  <2>2. /\ i.n \in AttemptNumbers(k) /\ SetLease(k, i.n, t, g)
        /\ attempts[k][i.n].owner = i.seenOwner
        /\ attempts[k][i.n].generation = i.gen
        /\ attempts[k][i.n].lease = i.seenLease
    BY <1>2 DEF ClaimExpiredAttempt, Claimable
  <2>3. Plain
    BY <1>1, <1>2, <2>2 DEF Plain, Ordinary
  <2> HIDE DEF g
  <2>4. /\ Len(attempts'[k]) = Len(attempts[k])
        /\ attempts'[k][i.n] = Leased(attempts[k][i.n], t, g)
    BY <1>1, <2>1, <2>2, SetLeaseEffect
  <2>5. attempts'[k][i.n].generation = g
    BY <1>1, <2>2, <2>4, AttemptTyped DEF Leased, AttemptRow
  <2>6. r.key = k /\ r.n = i.n /\ r.gen = g /\ r.pc = "late"
    BY <1>1 DEF Invocation
  <2> HIDE DEF r
  <2>7. inv'[t] = r /\ \A u \in Token : u # t => inv'[u] = inv[u]
    BY <2>1 DEF FullInv, WorkTypeOK, Become
  <2>8. TakesTerm(t)
    BY <2>1, <2>2, <2>4, <2>5, <2>6, <2>7 DEF TakesTerm, AttemptNumbers
  <2>9. Moves(t)
    BY <2>6, <2>7, <2>8 DEF Moves, GivingUp, DelayKnown
  <2>. QED
    BY <2>3, <2>7, <2>9 DEF OnlyMoves, Stays
<1>3. CASE /\ Become(t, [Started(k, i.payload) EXCEPT !.slept = i.slept,
                                                      !.submitted = i.submitted])
           /\ UNCHANGED storeVars
  <2> DEFINE b == Started(k, i.payload)
             r == [b EXCEPT !.slept = i.slept, !.submitted = i.submitted]
  <2>1. b \in Invocation /\ b.key = k /\ b.pc = "authorize"
    BY <1>1, StartedFields
  <2>2. Become(t, r)
    BY <1>3
  <2> HIDE DEF b
  <2>3. r.key = k /\ r.pc = "authorize" /\ ~ActsAt("authorize", r.then)
    BY <2>1, ActingPcs DEF Invocation, ActsAt
  <2> HIDE DEF r
  <2>. QED
    BY <1>3, <2>2, <2>3, BecomeMoves
<1>. QED
  BY <1>2, <1>3 DEF Claim

(* The owner's transactions of the invocation that acts under a term. *)
LEMMA OwnerIsPlain ==
    ASSUME FullInv, NEW t \in Token, OwnerTransaction(inv[t].key, inv[t].n, t, inv[t].gen)
    PROVE  Plain
<1>1. inv[t].key \in Key
  BY Known
<1>2. Owns(inv[t].key, inv[t].n, t, inv[t].gen)
  BY DEF OwnerTransaction, RenewLease, FinalizeSucceeded, FinalizePermanentFailure,
         FinalizeRateLimited, FinalizeNotSent, ConsumeLateObservations, FinalizeRetained,
         AuthorizeReconciliationRequest, MayReconcile
<1>3. /\ inv[t].n \in AttemptNumbers(inv[t].key)
      /\ attempts[inv[t].key][inv[t].n].generation = inv[t].gen
  BY <1>2 DEF Owns
<1>4. Ordinary(inv[t].key, inv[t].n, t)
  BY <1>3 DEF Ordinary
<1>. QED
  BY <1>1, <1>3, <1>4 DEF Plain

(* A stale owner's report speaks of a generation that was granted. *)
LEMMA StaleIsPlain ==
    ASSUME FullInv, NEW t \in Token, Granted(t), Acts(t), NEW op \in Operation,
           NEW r \in StaleReport,
           AppendLateObservation(inv[t].key, inv[t].n, inv[t].gen, op, r.category, r.status)
    PROVE  Plain
<1>1. inv[t].key \in Key
  BY Known
<1>2. /\ inv[t].n \in AttemptNumbers(inv[t].key)
      /\ inv[t].gen \in 1 .. attempts[inv[t].key][inv[t].n].generation
  BY DEF Granted
<1>3. Ordinary(inv[t].key, inv[t].n, t)
  BY <1>2 DEF Ordinary
<1>. QED
  BY <1>1, <1>2, <1>3 DEF Plain

LEMMA RenewTurn ==
    ASSUME FullInv, NEW t \in Token, Renew(t)
    PROVE  OnlyMoves(t) /\ Plain
<1>1. Acts(t)
  BY ActingPcs DEF Renew, At, Acts
<1>. QED
  BY <1>1, GotoMoves, OwnerIsPlain DEF Renew, OwnerTransaction

LEMMA ExchangeTurn ==
    ASSUME FullInv, NEW t \in Token, Dispatch(t) \/ Deadline(t) \/ Arrive(t)
    PROVE  OnlyMoves(t) /\ UNCHANGED storeVars
<1>1. At(t, "post") \/ At(t, "posted") => Acts(t)
  BY ActingPcs DEF At, Acts
<1>2. CASE Dispatch(t)
  BY <1>1, <1>2, GotoMoves, ObservedMoves DEF Dispatch
<1>3. CASE Deadline(t)
  BY <1>1, <1>3, ObservedMoves DEF Deadline
<1>4. CASE Arrive(t)
  <2>1. UNCHANGED inv \/ (At(t, "posted") /\ \E e : Observed(t, e))
    BY <1>4 DEF Arrive
  <2>2. CASE UNCHANGED inv
    BY <1>4, <2>2 DEF OnlyMoves, Stays, Arrive
  <2>. QED
    BY <1>1, <1>4, <2>1, <2>2, ObservedMoves DEF Arrive
<1>. QED
  BY <1>2, <1>3, <1>4

LEMMA RetryTurn ==
    ASSUME FullInv, NEW t \in Token, NEW d, RetryOrExhausted(t, d)
    PROVE  OnlyMoves(t)
<1> DEFINE i == inv[t]
           b == Started(i.key, i.payload)
           u == clock + d
           r == [b EXCEPT !.pc = "wait", !.until = u, !.slept = i.slept,
                          !.submitted = i.submitted, !.outcome = "retry_scheduled"]
<1>1. i.key \in Key /\ i.payload \in Payload /\ "retry_exhausted" \in Outcome
  BY Known DEF Outcome
<1>2. CASE EndAs(t, "retry_exhausted")
  BY <1>1, <1>2, EndLeaves
<1>3. CASE Become(t, r)
  <2>1. b \in Invocation /\ b.key = i.key
    BY <1>1, StartedFields
  <2> HIDE DEF b, u
  <2>2. r.key = i.key /\ r.pc = "wait" /\ ~ActsAt("wait", r.then)
    BY <2>1, ActingPcs DEF Invocation, ActsAt
  <2> HIDE DEF r
  <2>. QED
    BY <1>3, <2>2, BecomeMoves
<1>. QED
  BY <1>2, <1>3 DEF RetryOrExhausted

LEMMA FinalizeTurn ==
    ASSUME FullInv, NEW t \in Token, Finalize(t)
    PROVE  OnlyMoves(t) /\ (Plain \/ UNCHANGED storeVars)
<1> DEFINE i == inv[t]
           k == inv[t].key
           e == inv[t].evidence
<1>1. Acts(t) /\ i \in Invocation
  BY Known, ActingPcs DEF Finalize, At, Acts
<1>2. {"succeeded", "failed_permanent"} \subseteq Outcome /\ TRUE \in BOOLEAN
  BY DEF Outcome
<1>3. CASE FinalizeSucceeded(k, i.n, t, i.gen) /\ End(t, "succeeded", TRUE)
  <2>1. OnlyMoves(t)
    BY <1>2, <1>3, EndLeaves
  <2>. QED
    BY <1>3, <2>1, OwnerIsPlain DEF OwnerTransaction
<1>4. CASE /\ e \in {"validation_rejected", "idempotency_conflict"}
           /\ FinalizePermanentFailure(k, i.n, t, i.gen, e)
           /\ EndAs(t, "failed_permanent")
  <2>1. OnlyMoves(t)
    BY <1>2, <1>4, EndLeaves
  <2>. QED
    BY <1>4, <2>1, OwnerIsPlain DEF OwnerTransaction
<1>5. ASSUME NEW d \in Delay, RetryOrExhausted(t, d),
             FinalizeRateLimited(k, i.n, t, i.gen, d) \/ FinalizeNotSent(k, i.n, t, i.gen, d)
      PROVE  OnlyMoves(t) /\ Plain
  BY <1>5, RetryTurn, OwnerIsPlain DEF OwnerTransaction
<1>6. CASE /\ FinalizeRetained(k, i.n, t, i.gen)
           /\ Become(t, [i EXCEPT !.pc = "late", !.evidence = "none"])
  <2> DEFINE r == [i EXCEPT !.pc = "late", !.evidence = "none"]
  <2>1. r.key = i.key /\ r.n = i.n /\ r.gen = i.gen /\ r.pc = "late"
    BY <1>1 DEF Invocation
  <2>2. Become(t, r)
    BY <1>6
  <2> HIDE DEF r
  <2>3. OnlyMoves(t)
    BY <1>1, <2>1, <2>2, BecomeMoves
  <2>. QED
    BY <1>6, <2>3, OwnerIsPlain DEF OwnerTransaction
<1>7. CASE Goto(t, "appendLate") /\ UNCHANGED storeVars
  BY <1>1, <1>7, GotoMoves
<1>. QED
  BY <1>3, <1>4, <1>5, <1>6, <1>7 DEF Finalize

LEMMA LateTurn ==
    ASSUME FullInv, NEW t \in Token, Granted(t), AppendLate(t) \/ AppendLateGet(t)
    PROVE  OnlyMoves(t) /\ Plain
<1>1. Acts(t) /\ inv[t].evidence \in Evidence /\ "ownership_lost" \in Outcome
  BY KnownSleep, ActingPcs DEF AppendLate, AppendLateGet, At, Acts, Outcome
<1>2. /\ AppendLate(t) => SubmissionReport(inv[t].evidence) \in StaleReport
      /\ LateGetReport(inv[t].evidence) \in StaleReport
  <2>1. TokenInv(t)
    BY Known
  <2>2. AppendLate(t) => inv[t].evidence \in Concluded
    BY <2>1 DEF TokenInv, Routed, AppendLate, At
  <2>. QED
    BY <1>1, <2>2 DEF StaleReport
<1>3. {"SUBMISSION", "RECONCILIATION"} \subseteq Operation
  BY DEF Operation
<1>4. Plain
  <2>1. CASE AppendLate(t)
    <3> DEFINE r == SubmissionReport(inv[t].evidence)
    <3>1. AppendLateObservation(inv[t].key, inv[t].n, inv[t].gen, "SUBMISSION",
                                r.category, r.status)
      BY <2>1 DEF AppendLate
    <3> HIDE DEF r
    <3>2. r \in StaleReport
      BY <1>2, <2>1 DEF r
    <3>. QED
      BY <1>1, <1>3, <3>1, <3>2, StaleIsPlain
  <2>2. CASE AppendLateGet(t)
    <3> DEFINE r == LateGetReport(inv[t].evidence)
    <3>1. AppendLateObservation(inv[t].key, inv[t].n, inv[t].gen, "RECONCILIATION",
                                r.category, r.status)
      BY <2>2 DEF AppendLateGet
    <3> HIDE DEF r
    <3>2. r \in StaleReport
      BY <1>2 DEF r
    <3>. QED
      BY <1>1, <1>3, <3>1, <3>2, StaleIsPlain
  <2>. QED
    BY <2>1, <2>2
<1>5. OnlyMoves(t)
  BY <1>1, EndLeaves DEF AppendLate, AppendLateGet
<1>. QED
  BY <1>4, <1>5

LEMMA RenderTyped ==
    ASSUME NEW job, NEW attempt
    PROVE  Render(job, attempt) \in Outcome
BY DEF Render, Outcome

(* An inconclusive sequence is recorded only with no evidence left. *)
LEMMA ConsumeTurn ==
    ASSUME FullInv, NEW t \in Token, NEW pc, NEW next,
           <<pc, next>> \in {<<"late", "reconcile">>, <<"lastLate", "record">>},
           ConsumeLate(t, pc, next)
    PROVE  OnlyMoves(t) /\ (Plain \/ UNCHANGED storeVars)
<1> DEFINE i == inv[t]
           k == inv[t].key
<1>1. Acts(t) /\ i \in Invocation
  BY Known, ActingPcs DEF ConsumeLate, At, Acts
<1>2. ASSUME NEW d \in Delay, ConsumeLateObservations(k, i.n, t, i.gen, d),
             EndAs(t, Render(jobs'[k], attempts'[k][i.n]))
      PROVE  OnlyMoves(t) /\ Plain
  <2>1. OnlyMoves(t)
    BY <1>2, RenderTyped, EndLeaves
  <2>. QED
    BY <1>2, <2>1, OwnerIsPlain DEF OwnerTransaction
<1>3. CASE UnconsumedLate(k, i.n) = {} /\ Goto(t, next) /\ UNCHANGED storeVars
  <2>1. CASE next = "reconcile"
    BY <1>1, <1>3, <2>1, GotoMoves
  <2>2. CASE next = "record"
    <3> DEFINE r == [i EXCEPT !.pc = "record"]
    <3>1. Become(t, r)
      BY <1>3, <2>2 DEF Goto
    <3>2. r.key = k /\ r.n = i.n /\ r.gen = i.gen /\ r.pc = "record"
      BY <1>1 DEF Invocation
    <3> HIDE DEF r
    <3>3. inv'[t] = r /\ \A u \in Token : u # t => inv'[u] = inv[u]
      BY <3>1 DEF FullInv, WorkTypeOK, Become
    <3>4. UnconsumedLate(inv[t].key, inv[t].n)' = {}
      BY <1>3, <3>2, <3>3 DEF UnconsumedLate, Actionable, storeVars
    <3>5. KeepsTerm(t)
      BY <1>1, <3>2, <3>3 DEF KeepsTerm
    <3>6. Moves(t)
      BY <3>2, <3>3, <3>4, <3>5 DEF Moves, DelayKnown
    <3>. QED
      BY <1>3, <3>3, <3>6 DEF OnlyMoves, Stays
  <2>. QED
    BY <2>1, <2>2
<1>. QED
  BY <1>2, <1>3 DEF ConsumeLate

LEMMA AuthorizeGetTurn ==
    ASSUME FullInv, NEW t \in Token, AuthorizeGet(t)
    PROVE  OnlyMoves(t) /\ (Plain \/ UNCHANGED storeVars)
<1> DEFINE i == inv[t]
           a == [i EXCEPT !.pc = "get", !.notBefore = 0]
           u == LaterOf(i.notBefore, gate)
           b == [i EXCEPT !.pc = "reconWait", !.until = u]
<1>1. Acts(t) /\ i \in Invocation
  BY Known, ActingPcs DEF AuthorizeGet, At, Acts
<1>2. i.notBefore \in Nat
  BY <1>1 DEF Invocation
<1>3. a.key = i.key /\ a.n = i.n /\ a.gen = i.gen /\ a.pc = "get"
  BY <1>1 DEF Invocation
<1>4. b.key = i.key /\ b.n = i.n /\ b.gen = i.gen /\ b.pc = "reconWait"
  <2> HIDE DEF u
  <2>. QED
    BY <1>1 DEF Invocation
<1>5. \/ AuthorizeReconciliationRequest(i.key, i.n, t, i.gen, i.notBefore) /\ Become(t, a)
      \/ Become(t, b) /\ UNCHANGED storeVars
  BY DEF AuthorizeGet
<1> HIDE DEF a, b
<1>6. CASE AuthorizeReconciliationRequest(i.key, i.n, t, i.gen, i.notBefore) /\ Become(t, a)
  <2>1. Plain
    BY <1>2, <1>6, OwnerIsPlain DEF OwnerTransaction
  <2>. QED
    BY <1>1, <1>3, <1>6, <2>1, BecomeMoves
<1>. QED
  BY <1>1, <1>4, <1>5, <1>6, BecomeMoves

(* The waits between two GETs. *)
LEMMA WaitForGetTurn ==
    ASSUME FullInv, NEW t \in Token, WaitForGet(t)
    PROVE  OnlyMoves(t) /\ UNCHANGED storeVars
<1> DEFINE i == inv[t]
           d == DelayLeft(i)
           a == [i EXCEPT !.pc = "lastLate", !.evidence = "inconclusive", !.until = 0]
           b == [i EXCEPT !.pc = "late", !.until = 0]
<1>1. Acts(t) /\ i \in Invocation /\ clock \in Nat /\ i.until \in Nat
  BY Known, KnownSleep, ActingPcs DEF WaitForGet, At, Acts
<1>2. d \in Nat
  BY <1>1 DEF DelayLeft
<1>3. a.key = i.key /\ a.n = i.n /\ a.gen = i.gen /\ a.pc = "lastLate"
  BY <1>1 DEF Invocation
<1>4. b.key = i.key /\ b.n = i.n /\ b.gen = i.gen /\ b.pc = "late"
  BY <1>1 DEF Invocation
<1>5. Become(t, a) \/ Become(t, b) \/ Become(t, SleepChunk(i, d))
  BY DEF WaitForGet
<1> HIDE DEF a, b, d
<1>6. OnlyMoves(t)
  BY <1>1, <1>2, <1>3, <1>4, <1>5, BecomeMoves, ChunkMoves
<1>. QED
  BY <1>6 DEF WaitForGet

LEMMA RenewWaitTurn ==
    ASSUME FullInv, NEW t \in Token, RenewDuringWait(t)
    PROVE  OnlyMoves(t) /\ Plain
<1>1. Acts(t) /\ inv[t].delay \in Nat
  BY Known, ActingPcs DEF RenewDuringWait, At, Acts, Invocation
<1>. QED
  BY <1>1, ChunkMoves, OwnerIsPlain DEF RenewDuringWait, OwnerTransaction

LEMMA GetTurn ==
    ASSUME FullInv, NEW t \in Token, Get(t)
    PROVE  OnlyMoves(t) /\ UNCHANGED storeVars
<1> DEFINE i == inv[t]
           m == i.gets + 1
<1>1. Acts(t) /\ i \in Invocation
  BY Known, ActingPcs DEF Get, At, Acts
<1>2. PICK e : Become(t, [i EXCEPT !.pc = "observe", !.gets = m, !.evidence = e])
  BY DEF Get
<1> DEFINE r == [i EXCEPT !.pc = "observe", !.gets = m, !.evidence = e]
<1> HIDE DEF m
<1>3. r.key = i.key /\ r.n = i.n /\ r.gen = i.gen /\ r.pc = "observe"
  BY <1>1 DEF Invocation
<1> HIDE DEF r
<1>4. OnlyMoves(t)
  <2>1. Become(t, r)
    BY <1>2 DEF r
  <2>. QED
    BY <1>1, <1>3, <2>1, BecomeMoves
<1>. QED
  BY <1>4 DEF Get

(* After a retryable GET the invocation keeps its term. *)
LEMMA NextGetMoves ==
    ASSUME FullInv, NEW t \in Token, Acts(t), NEW d, NextGet(t, inv[t], d)
    PROVE  OnlyMoves(t)
<1> DEFINE i == inv[t]
           u == clock + d
           a == [i EXCEPT !.pc = "lastLate", !.evidence = "inconclusive", !.delay = 0]
           b == [i EXCEPT !.pc = "late", !.evidence = "none", !.delay = 0, !.notBefore = u]
<1>1. i \in Invocation
  BY Known
<1>2. a.key = i.key /\ a.n = i.n /\ a.gen = i.gen /\ a.pc = "lastLate"
  BY <1>1 DEF Invocation
<1>3. Become(t, a) \/ Become(t, b)
  BY DEF NextGet
<1> HIDE DEF a, u
<1>4. b.key = i.key /\ b.n = i.n /\ b.gen = i.gen /\ b.pc = "late"
  BY <1>1 DEF Invocation
<1> HIDE DEF b
<1>. QED
  BY <1>2, <1>3, <1>4, BecomeMoves

LEMMA ObserveGetTurn ==
    ASSUME FullInv, NEW t \in Token, ObserveGet(t)
    PROVE  OnlyMoves(t) /\ Gets(t)
<1> DEFINE i == inv[t]
<1>1. Acts(t) /\ i \in Invocation /\ At(t, "observe")
  BY Known, ActingPcs DEF ObserveGet, At, Acts
<1>3. ASSUME i.evidence \in {"matched", "conflict", "not_found"}, Goto(t, "record")
      PROVE  OnlyMoves(t)
  <2> DEFINE r == [i EXCEPT !.pc = "record"]
  <2>1. Become(t, r)
    BY <1>3 DEF Goto
  <2>2. r.key = i.key /\ r.n = i.n /\ r.gen = i.gen /\ r.pc = "record" /\ r.evidence = i.evidence
    BY <1>1 DEF Invocation
  <2> HIDE DEF r
  <2>3. inv'[t] = r /\ \A u \in Token : u # t => inv'[u] = inv[u]
    BY <2>1 DEF FullInv, WorkTypeOK, Become
  <2>4. KeepsTerm(t) /\ ~GivingUp(t)' /\ DelayKnown(t)'
    BY <1>1, <1>3, <2>2, <2>3 DEF KeepsTerm, GivingUp, DelayKnown
  <2>. QED
    BY <2>2, <2>3, <2>4 DEF OnlyMoves, Stays, Moves
<1>4. ASSUME NEW d \in Delay, Become(t, [i EXCEPT !.pc = "advanceGate", !.delay = d])
      PROVE  OnlyMoves(t)
  <2> DEFINE r == [i EXCEPT !.pc = "advanceGate", !.delay = d]
  <2>1. /\ r.key = i.key /\ r.n = i.n /\ r.gen = i.gen /\ r.pc = "advanceGate"
        /\ r.delay = d
    BY <1>1 DEF Invocation
  <2>2. Become(t, r)
    BY <1>4
  <2> HIDE DEF r
  <2>3. inv'[t] = r /\ \A u \in Token : u # t => inv'[u] = inv[u]
    BY <2>2 DEF FullInv, WorkTypeOK, Become
  <2>4. KeepsTerm(t) /\ ~GivingUp(t)' /\ DelayKnown(t)'
    BY <1>1, <2>1, <2>3 DEF KeepsTerm, GivingUp, DelayKnown
  <2>. QED
    BY <2>1, <2>3, <2>4 DEF OnlyMoves, Stays, Moves
<1>5. ASSUME NEW d \in Delay, NextGet(t, i, d)
      PROVE  OnlyMoves(t)
  BY <1>1, <1>5, NextGetMoves
<1>6. OnlyMoves(t)
  BY <1>3, <1>4, <1>5 DEF ObserveGet
<1>7. ReconciliationReport(i.evidence) \in GetReport
  BY DEF ReconciliationReport, GetReport
<1>8. Gets(t)
  <2> DEFINE r == ReconciliationReport(i.evidence)
  <2>1. AppendObservation(i.key, i.n, i.gen, r.category, r.status)
    BY DEF ObserveGet
  <2> HIDE DEF r
  <2>2. r \in GetReport
    BY <1>7 DEF r
  <2>. QED
    BY <1>1, <2>1, <2>2 DEF Gets, GetRecorded
<1>. QED
  BY <1>6, <1>8

LEMMA BackOffTurn ==
    ASSUME FullInv, NEW t \in Token, DelayKnown(t), AdvanceGate(t) \/ BackOff(t)
    PROVE  OnlyMoves(t) /\ (Plain \/ UNCHANGED storeVars)
<1>1. Acts(t)
  BY ActingPcs DEF AdvanceGate, BackOff, At, Acts
<1>2. CASE AdvanceGate(t)
  <2>1. Plain
    BY <1>2 DEF AdvanceGate, DelayKnown, At, Plain
  <2>. QED
    BY <1>1, <1>2, <2>1, GotoMoves DEF AdvanceGate
<1>. QED
  BY <1>1, <1>2, NextGetMoves DEF BackOff

(* The end of a reconciliation is the end of the invocation. *)
LEMMA RecordTurn ==
    ASSUME FullInv, NEW t \in Token, Record(t)
    PROVE  OnlyMoves(t) /\ (Records(t) \/ UNCHANGED storeVars)
<1> DEFINE i == inv[t]
<1>1. Acts(t) /\ At(t, "record")
  BY ActingPcs DEF Record, At, Acts
<1>2. CASE /\ RecordReconciliationResult(i.key, i.n, t, i.gen, i.evidence)
           /\ EndAs(t, Render(jobs'[i.key], attempts'[i.key][i.n]))
  <2>1. OnlyMoves(t) /\ ~Acts(t)'
    BY <1>2, RenderTyped, EndLeaves
  <2>. QED
    BY <1>1, <1>2, <2>1 DEF Records
<1>3. CASE Goto(t, "appendLateGet") /\ UNCHANGED storeVars
  BY <1>1, <1>3, GotoMoves
<1>. QED
  BY <1>2, <1>3 DEF Record

(* Faults, and owners that were fenced off. *)
LEMMA StopTurn ==
    ASSUME FullInv, NEW t \in Token,
           LoseOwnership(t) \/ PersistenceFails(t) \/ Crash(t) \/ CancelBeforeDispatch(t)
    PROVE  OnlyMoves(t) /\ (Plain \/ UNCHANGED storeVars)
<1>1. {"ownership_lost", "local_persistence_failure"} \subseteq Outcome
  BY DEF Outcome
<1>2. CASE LoseOwnership(t)
  BY <1>1, <1>2, EndLeaves DEF LoseOwnership
<1>3. CASE PersistenceFails(t)
  BY <1>1, <1>3, EndLeaves DEF PersistenceFails
<1>4. CASE Crash(t)
  BY <1>4, VanishLeaves DEF Crash
<1>5. CASE CancelBeforeDispatch(t)
  <2>1. OnlyMoves(t)
    BY <1>5, VanishLeaves DEF CancelBeforeDispatch
  <2>2. ASSUME NEW d \in Delay, FinalizeNotSent(inv[t].key, inv[t].n, t, inv[t].gen, d)
        PROVE  Plain
    BY <2>2, OwnerIsPlain DEF OwnerTransaction
  <2>. QED
    BY <1>5, <2>1, <2>2 DEF CancelBeforeDispatch
<1>. QED
  BY <1>2, <1>3, <1>4, <1>5

(* The service, other clients and time move no invocation. *)
LEMMA StillTurn ==
    ASSUME inv' = inv
    PROVE  Turn
BY DEF Turn, Stays

LEMMA ProceedTurn ==
    ASSUME FullInv, HandInv, NEW t \in Token, Proceed(t)
    PROVE  Turn /\ StoreTurn
<1>1. Granted(t) /\ DelayKnown(t)
  BY DEF HandInv
<1>2. ASSUME OnlyMoves(t), Plain \/ UNCHANGED storeVars \/ Gets(t) \/ Records(t)
      PROVE  Turn /\ StoreTurn
  BY <1>2, OnlyMovesTurn DEF StoreTurn
<1>3. CASE PreSideEffect(t) \/ WaitIfItFits(t) \/ Wake(t) \/ Claim(t)
  BY <1>2, <1>3, PreSideEffectTurn, WaitTurn, WakeTurn, ClaimTurn
<1>4. CASE Renew(t) \/ Dispatch(t) \/ Deadline(t) \/ Finalize(t) \/ AppendLate(t)
  BY <1>1, <1>2, <1>4, RenewTurn, ExchangeTurn, FinalizeTurn, LateTurn
<1>5. CASE ConsumeLate(t, "late", "reconcile") \/ ConsumeLate(t, "lastLate", "record")
  BY <1>2, <1>5, ConsumeTurn
<1>6. CASE AuthorizeGet(t) \/ WaitForGet(t) \/ RenewDuringWait(t) \/ Get(t) \/ ObserveGet(t)
  BY <1>2, <1>6, AuthorizeGetTurn, WaitForGetTurn, RenewWaitTurn, GetTurn, ObserveGetTurn
<1>7. CASE AdvanceGate(t) \/ BackOff(t) \/ Record(t) \/ AppendLateGet(t) \/ LoseOwnership(t)
  BY <1>1, <1>2, <1>7, BackOffTurn, RecordTurn, LateTurn, StopTurn
<1>. QED
  BY <1>3, <1>4, <1>5, <1>6, <1>7 DEF Proceed

LEMMA WorkTurn ==
    ASSUME FullInv, HandInv, [WorkNext]_workVars
    PROVE  Turn /\ StoreTurn
<1>1. ASSUME NEW t \in Token, Proceed(t)
      PROVE  Turn /\ StoreTurn
  BY <1>1, ProceedTurn
<1>2. ASSUME NEW t \in Token,
             Arrive(t) \/ PersistenceFails(t) \/ Crash(t) \/ CancelBeforeDispatch(t)
      PROVE  Turn /\ StoreTurn
  <2>1. OnlyMoves(t) /\ (Plain \/ UNCHANGED storeVars)
    BY <1>2, ExchangeTurn, StopTurn
  <2>. QED
    BY <2>1, OnlyMovesTurn DEF StoreTurn
<1>3. ASSUME NEW k \in Key, BindForeign(k)
      PROVE  Turn /\ StoreTurn
  BY <1>3, StillTurn DEF BindForeign, StoreTurn
<1>4. CASE TimePasses
  <2>1. PICK s \in ClockStep : clock' = clock + s
    BY <1>4 DEF TimePasses, Tick
  <2>2. clock \in Nat /\ s \in Nat
    BY ForwardAssumption DEF FullInv, StoreInv, TypeOK
  <2>3. TimeMoves
    BY <1>4, <2>1, <2>2 DEF TimePasses, Tick, TimeMoves
  <2>. QED
    BY <1>4, <2>3, StillTurn DEF TimePasses, StoreTurn, Plain
<1>5. CASE UNCHANGED workVars
  BY <1>5, StillTurn DEF workVars, StoreTurn
<1>. QED
  BY <1>1, <1>2, <1>3, <1>4, <1>5 DEF WorkNext

-----------------------------------------------------------------------------
(* The theorems *)

LEMMA HandInvInit == WorkInit => HandInv
<1> SUFFICES ASSUME WorkInit PROVE HandInv
  OBVIOUS
<1>1. ASSUME NEW t \in Token
      PROVE  inv[t].pc = "authorize"
  BY <1>1 DEF WorkInit, Started
<1>2. \A t \in Token : ~Acts(t) /\ ~GivingUp(t) /\ inv[t].pc # "advanceGate"
  BY <1>1, ActingPcs DEF Acts, At, GivingUp
<1>3. \A k \in Key : AmbiguousFor(k, "reconciliation_inconclusive") = {}
  <2> SUFFICES ASSUME NEW k \in Key
               PROVE  AmbiguousFor(k, "reconciliation_inconclusive") = {}
    OBVIOUS
  <2>1. attempts[k] = <<>>
    BY DEF WorkInit, Init
  <2>2. Len(attempts[k]) = 0
    BY <2>1
  <2>. QED
    BY <2>2 DEF AmbiguousFor, AttemptNumbers
<1>. QED
  BY <1>2, <1>3 DEF HandInv, Granted, UsedEvidence, DelayKnown, TermsAreExclusive, Closed

LEMMA HandInvStep ==
    ASSUME FullInv, HandInv, [WorkNext]_workVars
    PROVE  HandInv'
<1>1. FullInv'
  BY WorkStep
<1>2. TypeOK'
  BY <1>1 DEF FullInv, StoreInv
<1>3. FinalStep /\ TakeoverStep
  BY WorkKinds, KindsAreFinal, KindsTakeOver DEF FullInv
<1>. QED
  BY <1>2, <1>3, WorkTurn, HandStep

(* The invariant of the handovers: terms are granted and held by one, and    *)
(* the evidence of an attempt is used before its holder gives it up.         *)
THEOREM HandoverInvariant == WorkSpec => [](FullInv /\ HandInv)
<1>1. WorkInit => FullInv /\ HandInv
  BY WorkInvInit, HandInvInit
<1>2. FullInv /\ HandInv /\ [WorkNext]_workVars => (FullInv /\ HandInv)'
  BY WorkStep, HandInvStep
<1>. QED
  BY <1>1, <1>2, PTL DEF WorkSpec

(* No two invocations ever act under the same attempt and generation,        *)
(* however many recover the same expired lease at once (claim_expired_       *)
(* attempt, run_pre_side_effect_transaction).                                *)
THEOREM TermsStayExclusive == WorkSpec => []TermsAreExclusive
<1>1. HandInv => TermsAreExclusive
  BY DEF HandInv
<1>. QED
  BY <1>1, HandoverInvariant, PTL

(* An attempt is given up as inconclusive only after the late evidence that  *)
(* was there at its last GET was used: late evidence that a stale owner      *)
(* appends meanwhile included (_try_consume_late_evidence, _finalize).       *)
THEOREM InconclusiveUsesEvidence == WorkSpec => []InconclusiveUsedEvidence
<1>1. FullInv /\ HandInv => InconclusiveUsedEvidence
  <2> SUFFICES ASSUME FullInv, HandInv, NEW k \in Key,
                      NEW n \in AmbiguousFor(k, "reconciliation_inconclusive"),
                      NEW i \in OverlookedLate(k, n)
               PROVE  FALSE
    BY DEF InconclusiveUsedEvidence
  <2>1. GetsBefore(k, n, attempts[k][n].generation)
    BY DEF HandInv, Closed
  <2>2. i \in UnconsumedLate(k, n)
    BY DEF OverlookedLate
  <2>3. PICK j \in DOMAIN observations[k] :
          i < j /\ IsGet(observations[k][j], n, attempts[k][n].generation)
    BY DEF OverlookedLate, IsGet
  <2>4. j < i
    BY <2>1, <2>2, <2>3 DEF GetsBefore
  <2>5. i \in Nat /\ j \in Nat
    <3>1. observations[k] \in Seq(ObservationRow)
      BY DEF FullInv, StoreInv, TypeOK
    <3>. QED
      BY <2>2, <3>1 DEF UnconsumedLate
  <2>. QED
    BY <2>3, <2>4, <2>5
<1>. QED
  BY <1>1, HandoverInvariant, PTL

-----------------------------------------------------------------------------
(***************************************************************************)
(* The store under the application.                                        *)
(***************************************************************************)
LEMMA TurnIsTransaction ==
    ASSUME FullInv, HandInv, StoreTurn
    PROVE  Transaction \/ UNCHANGED storeVars
<1>1. ASSUME NEW t \in Token, Gets(t)
      PROVE  Transaction
  <2> DEFINE k == inv[t].key
             n == inv[t].n
  <2>1. k \in Key /\ Acts(t)
    BY <1>1, Known, ActingPcs DEF Gets, At, Acts
  <2>2. n \in AttemptNumbers(k) /\ inv[t].gen \in 1 .. attempts[k][n].generation
    BY <2>1 DEF HandInv, Granted
  <2>3. GetRecorded(k, n, inv[t].gen)
    BY <1>1 DEF Gets
  <2> HIDE DEF k, n
  <2>. QED
    BY <2>1, <2>2, <2>3 DEF Transaction
<1>2. ASSUME NEW t \in Token, Records(t)
      PROVE  Transaction
  <2> DEFINE k == inv[t].key
             n == inv[t].n
             e == inv[t].evidence
  <2>1. k \in Key
    BY Known
  <2>2. /\ n \in AttemptNumbers(k) /\ attempts[k][n].generation = inv[t].gen
        /\ e \in {"matched", "conflict", "not_found", "inconclusive"}
    BY <1>2 DEF Records, RecordReconciliationResult, Owns
  <2>3. RecordReconciliationResult(k, n, t, attempts[k][n].generation, e)
    BY <1>2, <2>2 DEF Records
  <2> HIDE DEF k, n, e
  <2>. QED
    BY <2>1, <2>2, <2>3 DEF Transaction, ReconciliationEnds
<1>. QED
  BY <1>1, <1>2 DEF StoreTurn, Transaction

(* What a step of the application is for the store. *)
LEMMA WorkTransacts ==
    ASSUME FullInv, HandInv, [WorkNext]_workVars
    PROVE  Transaction \/ UNCHANGED storeVars
BY WorkTurn, TurnIsTransaction

(* Whatever the application does to the store is one of its transactions,    *)
(* called by the owner with the current generation or with evidence of a     *)
(* generation that was granted (submit.py, recovery.py,                      *)
(* reconciliation_sequence.py against transactions.py).                      *)
THEOREM WorkflowTransacts == WorkSpec => [][Transaction]_storeVars
<1>1. FullInv /\ HandInv /\ [WorkNext]_workVars => [Transaction]_storeVars
  BY WorkTransacts
<1>. QED
  BY <1>1, HandoverInvariant, PTL DEF WorkSpec

(* The bounds JobStore puts on its most general client. *)
WithinBounds ==
    /\ clock \in 1 .. MaxClock
    /\ \A k \in Key :
          /\ Len(observations[k]) <= MaxObservations
          /\ \A n \in AttemptNumbers(k) : attempts[k][n].generation <= MaxGeneration

(* A row that fits afterwards may be appended. *)
LEMMA RowFits ==
    ASSUME TypeOK, NEW k \in Key, NEW row, Observe(k, row), WithinBounds'
    PROVE  MayAppend(k)
<1>1. Len(observations[k]) \in Nat /\ observations'[k] = Append(observations[k], row)
  BY DEF TypeOK, Observe
<1>2. Len(observations'[k]) = Len(observations[k]) + 1
  <2>1. observations[k] \in Seq(ObservationRow)
    BY DEF TypeOK
  <2>. QED
    BY <1>1, <2>1
<1>3. Len(observations'[k]) <= MaxObservations
  BY DEF WithinBounds
<1>. QED
  BY <1>1, <1>2, <1>3, BoundAssumption DEF MayAppend

(* Within those bounds an ordinary transaction is one of JobStore's client. *)
LEMMA OrdinaryIsNext ==
    ASSUME TypeOK, WithinBounds, WithinBounds', StaleReport \subseteq LateReport,
           NEW k \in Key, NEW n \in AttemptNumbers(k), NEW t \in Token, Ordinary(k, n, t)
    PROVE  \/ AnyoneStep(k, n, t)
           \/ OwnerStep(k, n, t, attempts[k][n].generation)
<1> DEFINE g == attempts[k][n].generation
<1>1. g \in Nat /\ clock \in Nat /\ gate \in Nat
  BY AttemptTyped DEF TypeOK
<1>2. CASE OwnerTransaction(k, n, t, g)
  <2>1. CASE FinalizeRetained(k, n, t, g)
    <3>1. MayAppend(k)
      BY <2>1, RowFits DEF FinalizeRetained
    <3>. QED
      BY <2>1, <3>1 DEF OwnerStep
  <2>2. ASSUME NEW notBefore \in Nat, AuthorizeReconciliationRequest(k, n, t, g, notBefore)
        PROVE  OwnerStep(k, n, t, g)
    <3>1. notBefore <= clock
      BY <1>1, <2>2 DEF AuthorizeReconciliationRequest, MayReconcile, LaterOf
    <3>2. notBefore \in 0 .. MaxClock
      BY <1>1, <3>1, ClockAssumption DEF WithinBounds
    <3>. QED
      BY <2>2, <3>2 DEF OwnerStep
  <2>. QED
    BY <1>2, <2>1, <2>2 DEF OwnerTransaction, OwnerStep
<1>3. CASE ClaimExpiredAttempt(k, n, attempts[k][n].owner, g, attempts[k][n].lease, t)
  <2>1. SetLease(k, n, t, g + 1) /\ g + 1 \in Nat
    BY <1>1, <1>3 DEF ClaimExpiredAttempt
  <2>2. /\ Len(attempts'[k]) = Len(attempts[k])
        /\ attempts'[k][n] = Leased(attempts[k][n], t, g + 1)
    BY <2>1, SetLeaseEffect
  <2>3. attempts'[k][n].generation = g + 1
    BY <1>1, <2>1, <2>2, AttemptTyped DEF Leased, AttemptRow
  <2>4. n \in AttemptNumbers(k)'
    BY <2>2 DEF AttemptNumbers
  <2>5. g < MaxGeneration
    BY <1>1, <2>3, <2>4, BoundAssumption DEF WithinBounds
  <2>. QED
    BY <1>3, <2>5 DEF AnyoneStep
<1>4. ASSUME NEW h \in 1 .. g, NEW op \in Operation, NEW r \in StaleReport,
             AppendLateObservation(k, n, h, op, r.category, r.status)
      PROVE  AnyoneStep(k, n, t)
  <2>1. MayAppend(k)
    BY <1>4, RowFits DEF AppendLateObservation
  <2>2. r \in LateReport
    BY <1>4
  <2>. QED
    BY <1>4, <2>1, <2>2 DEF AnyoneStep
<1>. QED
  BY <1>2, <1>3, <1>4 DEF Ordinary

(* From one instant to a later one there is a step. *)
LEMMA StepsAhead ==
    ASSUME NEW from \in Nat, NEW to \in Nat, NEW last \in Nat,
           from >= 1, to > from, to <= last
    PROVE  \E s \in 1 .. last : to = from + s
<1>1. to - from \in 1 .. last
  OBVIOUS
<1>2. to = from + (to - from)
  OBVIOUS
<1>. QED
  BY <1>1, <1>2

LEMMA TransactionIsNext ==
    ASSUME TypeOK, Transaction, WithinBounds, WithinBounds',
           StaleReport \subseteq LateReport, 1 .. MaxClock \subseteq ClockStep
    PROVE  Next \/ UNCHANGED storeVars
<1>1. CASE TimeMoves
  <2>1. clock \in Nat \ {0} /\ clock' \in 1 .. MaxClock /\ clock' >= clock
    BY <1>1 DEF TypeOK, TimeMoves, WithinBounds
  <2>2. CASE clock' = clock
    BY <1>1, <2>2 DEF TimeMoves, storeVars
  <2>3. CASE clock' # clock
    <3>1. MaxClock \in Nat
      BY ClockAssumption
    <3>2. PICK s \in 1 .. MaxClock : clock' = clock + s
      <4>1. /\ clock \in Nat /\ clock' \in Nat /\ clock >= 1
            /\ clock' <= MaxClock /\ clock' > clock
        BY <2>1, <2>3, <3>1
      <4>. QED
        BY <3>1, <4>1, StepsAhead
    <3>3. Tick
      BY <1>1, <2>1, <3>2 DEF TimeMoves, Tick
    <3>. QED
      BY <3>3 DEF Next
  <2>. QED
    BY <2>2, <2>3
<1>2. ASSUME NEW k \in Key, NEW n \in AttemptNumbers(k), NEW t \in Token, Ordinary(k, n, t)
      PROVE  Next
  BY <1>2, OrdinaryIsNext DEF Next
<1>3. ASSUME NEW k \in Key, NEW n \in AttemptNumbers(k),
             NEW t \in Token, NEW g \in 1 .. attempts[k][n].generation,
             GetRecorded(k, n, g)
      PROVE  Next
  <2>1. MayAppend(k)
    BY <1>3, RowFits DEF GetRecorded, AppendObservation
  <2>2. AnyoneStep(k, n, t)
    BY <1>3, <2>1 DEF AnyoneStep, GetRecorded
  <2>. QED
    BY <2>2 DEF Next
<1>4. ASSUME NEW k \in Key, NEW n \in AttemptNumbers(k), NEW t \in Token,
             ReconciliationEnds(k, n, t)
      PROVE  Next
  BY <1>4 DEF Next, OwnerStep, ReconciliationEnds
<1>. QED
  BY <1>1, <1>2, <1>3, <1>4 DEF Transaction, Plain, Next

(* Within those bounds the application is a client of JobStore: whatever it  *)
(* does to the store, JobStore's most general client may do, if that client  *)
(* may send what a stale owner reports and the clock may move to any instant *)
(* ahead.                                                                    *)
THEOREM WorkflowIsAClient ==
    ASSUME StaleReport \subseteq LateReport, 1 .. MaxClock \subseteq ClockStep
    PROVE  WorkSpec /\ []WithinBounds => WorkflowUsesStore
<1>1. /\ FullInv /\ HandInv /\ [WorkNext]_workVars
      /\ WithinBounds /\ WithinBounds'
      => [Next]_storeVars
  BY WorkTransacts, TransactionIsNext DEF FullInv, StoreInv
<1>. QED
  BY <1>1, HandoverInvariant, PTL DEF WorkSpec, WorkflowUsesStore

(* What JobStore promises of its transactions, the application keeps.        *)
LEMMA WorkAdvances ==
    ASSUME FullInv, HandInv, [WorkNext]_workVars
    PROVE  gate' >= gate /\ clock' >= clock /\ clock' \in Nat
BY WorkTransacts, TransactionInstants DEF FullInv, StoreInv

(* An attempt changes hands only when its lease has expired, and then under  *)
(* a larger generation, whatever invocations do.                             *)
THEOREM WorkflowFencesTakeovers == WorkSpec => TakeoverIsFenced
<1>1. FullInv /\ [WorkNext]_workVars => [TakeoverStep]_storeVars
  BY WorkKinds, KindsTakeOver DEF FullInv
<1>. QED
  BY <1>1, WorkInvariant, PTL DEF WorkSpec, TakeoverIsFenced

(* An invocation that lost its attempt in a pause never owns it again under  *)
(* the generation it was given.                                              *)
THEOREM WorkflowRegainsNothing == WorkSpec => OwnershipNeverRegained
<1>1. FullInv /\ HandInv /\ [WorkNext]_workVars => [NoRegainStep]_storeVars
  BY WorkKinds, WorkAdvances, KindsRegainNothing DEF FullInv
<1>. QED
  BY <1>1, HandoverInvariant, PTL DEF WorkSpec, OwnershipNeverRegained

(* After a 429 no invocation starts an attempt of any job inside its delay.  *)
THEOREM WorkflowKeepsQuiet == WorkSpec => []RateLimitWindowQuiet
<1>1. WorkInit => GateInv
  BY GateInvInit DEF WorkInit
<1>2. FullInv /\ HandInv /\ FullInv' /\ GateInv /\ [WorkNext]_workVars => GateInv'
  BY WorkKinds, WorkAdvances, KindsKeepQuiet DEF FullInv
<1>3. GateInv => RateLimitWindowQuiet
  BY DEF GateInv
<1>. QED
  BY <1>1, <1>2, <1>3, HandoverInvariant, PTL DEF WorkSpec

(* Late evidence is consumed at most once, by the transition it explains,    *)
(* whoever appends it meanwhile.                                             *)
THEOREM WorkflowConsumesOnce == WorkSpec => []ConsumedEvidenceDecides
<1>1. WorkInit => ConsumedEvidenceDecides
  BY DEF WorkInit, Init, ConsumedEvidenceDecides
<1>2. /\ FullInv /\ HandInv /\ FullInv' /\ ConsumedEvidenceDecides /\ [WorkNext]_workVars
      => ConsumedEvidenceDecides'
  BY WorkTransacts, TransactionEvidence, WorkKinds, KindsAreFinal, EvidenceStep
     DEF FullInv, StoreInv
<1>. QED
  BY <1>1, <1>2, HandoverInvariant, PTL DEF WorkSpec

(* Seen through the mapping of JobLifecycle, the application moves every job *)
(* along its lifecycle and nowhere else.                                     *)
THEOREM WorkflowImplementsLifecycle == WorkSpec => ImplementsLifecycle
<1>1. FullInv /\ [WorkNext]_workVars => [Lifecycle!LifeNext]_(Lifecycle!lifeVars)
  BY WorkKinds, KindsAreLifeSteps DEF FullInv
<1>2. WorkInit => Lifecycle!LifeInit
  BY LifeBegins DEF WorkInit
<1>. QED
  BY <1>1, <1>2, WorkInvariant, PTL DEF WorkSpec, ImplementsLifecycle, Lifecycle!LifeSpec

=============================================================================
