---------------------------- MODULE SubmitWorkflow ----------------------------
(***************************************************************************)
(* What invocations of `boolean-maybe submit` do to the shared store and   *)
(* to the remote service: application/submit.py, recovery.py, waiting.py   *)
(* and reconciliation_sequence.py, with the service as simulator/service   *)
(* answers.                                                                *)
(*                                                                         *)
(* An invocation is one process with a token of its own.  Its control      *)
(* state stands at the awaits of the coroutine: between two of them other  *)
(* invocations, the service and the clock may move.  Every transaction is  *)
(* an action of JobStore; a transaction that finds itself refused changes  *)
(* only the invocation.  A POST is an entity of its own: it outlives the   *)
(* client's deadline and the client's process.                             *)
(***************************************************************************)
EXTENDS JobStore

CONSTANTS
    ForeignPayload,      \* a payload some other client bound at the service
    Quarantine,          \* QUARANTINE_SECONDS
    Ceiling,             \* CEILING_SECONDS of the invocation's WaitBudget
    Cadence,             \* RENEWAL_CADENCE_SECONDS
    MaxReconciliations,  \* MAX_RECONCILIATION_REQUESTS
    Fault,               \* the faults that may happen
    LastTick             \* bound: time passes by itself only up to this instant

ASSUME WaitAssumption ==
    /\ Quarantine \in Nat /\ Ceiling \in Nat /\ Cadence \in Nat \ {0}
    /\ MaxReconciliations \in Nat \ {0}
ASSUME ForwardAssumption == ClockStep \subseteq Nat
ASSUME FaultAssumption == Fault \subseteq {"crash", "persistence", "cancel", "foreign"}
ASSUME PayloadAssumption == ForeignPayload \notin Payload /\ NoPayload \notin Payload

VARIABLES
    inv,       \* per token: the local state of its invocation
    wire,      \* per token: whether its POST was sent, and whether it arrived
    remote,    \* per key: the payload of the service's processed record
    accepted   \* per key: how many POSTs the service accepted for processing

workVars == <<storeVars, inv, wire, remote, accepted>>

-----------------------------------------------------------------------------
(* The invocation *)

(* Where the coroutine stands: before each transaction, in a wait, or at    *)
(* the end.  "crashed" is an end without a report.                          *)
Pc == {"authorize", "wait", "sleep", "claim", "renew", "post", "posted", "finalize",
       "appendLate", "late", "reconcile", "reconWait", "reconRenew", "get", "observe",
       "advanceGate", "backoff", "lastLate", "record", "appendLateGet", "done", "crashed"}

Outcome == {"none", "succeeded", "already_completed", "submission_deferred",
            "retry_scheduled", "retry_exhausted", "failed_permanent", "ambiguous",
            "job_in_progress", "ownership_lost", "local_persistence_failure",
            "idempotency_conflict"}

(* What one HTTP exchange was classified as. *)
Evidence == {"none", "processed", "validation_rejected", "idempotency_conflict",
             "rate_limited", "transport_not_sent", "uncertain",
             "matched", "conflict", "not_found", "inconclusive"}

Invocation ==
    [pc : Pc, key : Key, payload : Payload, n : Nat, gen : Nat,
     seenOwner : Token \cup {NoToken}, seenLease : Nat,
     slept : Nat, until : Nat, then : Pc,
     gets : Nat, notBefore : Nat, delay : Nat,
     evidence : Evidence, submitted : BOOLEAN, outcome : Outcome]

Started(k, p) ==
    [pc |-> "authorize", key |-> k, payload |-> p, n |-> 0, gen |-> 0,
     seenOwner |-> NoToken, seenLease |-> 0,
     slept |-> 0, until |-> 0, then |-> "authorize",
     gets |-> 0, notBefore |-> 0, delay |-> 0,
     evidence |-> "none", submitted |-> FALSE, outcome |-> "none"]

(* Every variable has its type.  Sleeps and instants are naturals: a delay  *)
(* that is over is no negative sleep (waiting.py clamps it).                *)
WorkTypeOK ==
    /\ TypeOK
    /\ inv \in [Token -> Invocation]
    /\ wire \in [Token -> {"none", "sent", "arrived"}]
    /\ remote \in [Key -> Payload \cup {NoPayload, ForeignPayload}]
    /\ accepted \in [Key -> Nat]

WorkInit ==
    /\ Init
    /\ inv \in [Token -> {Started(k, p) : k \in Key, p \in Payload}]
    /\ wire = [t \in Token |-> "none"]
    /\ remote = [k \in Key |-> NoPayload]
    /\ accepted = [k \in Key |-> 0]

service == <<wire, remote, accepted>>

Become(t, record) == inv' = [inv EXCEPT ![t] = record]

Goto(t, pc) == Become(t, [inv[t] EXCEPT !.pc = pc])

(* The invocation prints its one JSON envelope and exits. *)
End(t, outcome, submitted) ==
    Become(t, [Started(inv[t].key, inv[t].payload) EXCEPT
                  !.pc = "done", !.outcome = outcome, !.submitted = submitted])

EndAs(t, outcome) == End(t, outcome, inv[t].submitted)

At(t, pc) == inv[t].pc = pc

Ended(t) == inv[t].pc \in {"done", "crashed"}

MyKey(t) == inv[t].key

OwnsMine(t) == Owns(inv[t].key, inv[t].n, t, inv[t].gen)

(* Mistake: every wait is given the whole ceiling. *)
RemainingAnew(i) == Ceiling

(* remaining_seconds of the WaitBudget. *)
Remaining(i) == IF Ceiling > i.slept THEN Ceiling - i.slept ELSE 0

(* Mistake: a delay that is over counts as a negative sleep. *)
SignedDelay(i) == i.until - clock

(* max(0, until - now) *)
DelayLeft(i) == IF i.until > clock THEN i.until - clock ELSE 0

(* Start a sleep of d; `until` is the instant it ends, slept counts it. *)
Sleeping(i, d, then) ==
    [i EXCEPT !.pc = "sleep", !.until = clock + d, !.then = then, !.slept = @ + d]

(* What a stored job and attempt are reported as: _render_reconciliation_   *)
(* outcome, and the last branches of _dispatch_and_finalize.                *)
Render(job, attempt) ==
    CASE attempt.state = "SUCCEEDED" -> "succeeded"
      [] attempt.state = "PERMANENT_FAILURE" -> "failed_permanent"
      [] attempt.state = "AMBIGUOUS" -> "ambiguous"
      [] OTHER -> IF job.state = "FAILED_PERMANENT" THEN "retry_exhausted"
                                                    ELSE "retry_scheduled"

-----------------------------------------------------------------------------
(* The authorization loop of _run_with_connection *)

Refused(t) ==
    LET i == inv[t] IN
    /\ jobs[i.key].state # "ABSENT" /\ jobs[i.key].payload # i.payload
    /\ End(t, "idempotency_conflict", FALSE)
    /\ UNCHANGED storeVars

(* A terminal job: its stored outcome is reported. *)
Settled(t) ==
    LET i == inv[t] IN
    /\ jobs[i.key].payload = i.payload
    /\ jobs[i.key].state \in Terminal
    /\ IF jobs[i.key].state = "SUCCEEDED"
       THEN End(t, "already_completed", FALSE)
       ELSE EndAs(t, Render(jobs[i.key], Latest(i.key)))
    /\ UNCHANGED storeVars

InProgress(t) ==
    LET i == inv[t] IN
    /\ jobs[i.key].payload = i.payload
    /\ jobs[i.key].state = "SUBMITTING" /\ Latest(i.key).lease > clock
    /\ EndAs(t, "job_in_progress")
    /\ UNCHANGED storeVars

(* RecoveryCandidate: the ownership evidence is captured and the mandatory  *)
(* quarantine slept, whatever is left of the wait budget.                   *)
Expired(t) ==
    LET i == inv[t]
        latest == Latest(i.key)
    IN
    /\ jobs[i.key].payload = i.payload
    /\ jobs[i.key].state = "SUBMITTING" /\ latest.lease <= clock
    /\ Become(t, Sleeping([i EXCEPT !.n = Len(attempts[i.key]), !.gen = latest.generation,
                                    !.seenOwner = latest.owner, !.seenLease = latest.lease],
                          Quarantine, "claim"))
    /\ UNCHANGED storeVars

Authorized(t) ==
    LET i == inv[t] IN
    /\ StartAttempt(i.key, i.payload, t)
    /\ Become(t, [i EXCEPT !.pc = "renew", !.n = Len(attempts[i.key]) + 1, !.gen = 1])

(* NotYetEligible; `outcome` is what is reported if the delay does not fit. *)
Deferred(t) ==
    LET i == inv[t] IN
    /\ DeferAttempt(i.key, i.payload)
    /\ Become(t, [i EXCEPT !.pc = "wait", !.until = LaterOf(JobEligibleAt(i.key), gate),
                           !.outcome = IF jobs[i.key].state = "RETRY_SCHEDULED"
                                       THEN "retry_scheduled" ELSE "submission_deferred"])

PreSideEffect(t) ==
    /\ At(t, "authorize")
    /\ Refused(t) \/ Settled(t) \/ InProgress(t) \/ Expired(t) \/ Authorized(t) \/ Deferred(t)
    /\ UNCHANGED service

(* wait_if_it_fits *)
WaitIfItFits(t) ==
    LET i == inv[t] IN
    /\ At(t, "wait")
    /\ IF DelayLeft(i) > Remaining(i)
       THEN EndAs(t, i.outcome)
       ELSE Become(t, Sleeping([i EXCEPT !.outcome = "none"], DelayLeft(i), "authorize"))
    /\ UNCHANGED <<storeVars, service>>

(* A sleep ends at its instant or, when time has passed it already, late. *)
Wake(t) ==
    LET i == inv[t] IN
    /\ At(t, "sleep")
    /\ clock' = LaterOf(clock, i.until)
    /\ Become(t, [i EXCEPT !.pc = i.then, !.then = "authorize", !.until = 0])
    /\ UNCHANGED <<jobs, attempts, observations, gate, service>>

(* recover_and_reconcile, after the quarantine: the captured evidence must  *)
(* still stand, or the invocation routes again from the current state.      *)
Claim(t) ==
    LET i == inv[t] IN
    /\ At(t, "claim")
    /\ \/ /\ ClaimExpiredAttempt(i.key, i.n, i.seenOwner, i.gen, i.seenLease, t)
          /\ Become(t, [i EXCEPT !.pc = "late", !.gen = @ + 1,
                                 !.seenOwner = NoToken, !.seenLease = 0])
       \/ /\ ~Claimable(i.key, i.n, i.seenOwner, i.gen, i.seenLease)
          /\ Become(t, [Started(i.key, i.payload) EXCEPT !.slept = i.slept,
                                                         !.submitted = i.submitted])
          /\ UNCHANGED storeVars
    /\ UNCHANGED service

-----------------------------------------------------------------------------
(* _dispatch_and_finalize *)

Renew(t) ==
    LET i == inv[t] IN
    /\ At(t, "renew")
    /\ RenewLease(i.key, i.n, t, i.gen)
    /\ Goto(t, "post")
    /\ UNCHANGED service

(* Mistake: the last attempt alone decides what is reported as submitted. *)
ObservedLast(t, e) ==
    Become(t, [inv[t] EXCEPT !.pc = "finalize", !.evidence = e,
                             !.submitted = e # "transport_not_sent"])

(* The exchange is over and classified; only a connection that never formed *)
(* proves that this invocation did not submit.                              *)
Observed(t, e) ==
    Become(t, [inv[t] EXCEPT !.pc = "finalize", !.evidence = e,
                             !.submitted = @ \/ e # "transport_not_sent"])

Dispatch(t) ==
    /\ At(t, "post")
    /\ \/ Goto(t, "posted") /\ wire' = [wire EXCEPT ![t] = "sent"]
       \/ Observed(t, "transport_not_sent") /\ UNCHANGED wire
    /\ UNCHANGED <<storeVars, remote, accepted>>

(* Mistake: the client waits until the service has taken the request. *)
DeadlineAfterArrival(t) ==
    /\ At(t, "posted") /\ wire[t] = "arrived"
    /\ Observed(t, "uncertain")
    /\ UNCHANGED <<storeVars, service>>

(* The client's deadline, or a lost connection: the POST may still arrive.  *)
Deadline(t) ==
    /\ At(t, "posted")
    /\ Observed(t, "uncertain")
    /\ UNCHANGED <<storeVars, service>>

(* handle_submission: the service answers a POST whenever it arrives.  A    *)
(* client that gave up does not hear the answer.                            *)
Arrive(t) ==
    LET k == inv[t].key
        p == inv[t].payload
        Hear(e) == IF At(t, "posted") THEN Observed(t, e) ELSE UNCHANGED inv
    IN
    /\ wire[t] = "sent"
    /\ wire' = [wire EXCEPT ![t] = "arrived"]
    /\ \/ /\ remote[k] \notin {NoPayload, p}
          /\ Hear("idempotency_conflict")
          /\ UNCHANGED <<remote, accepted>>
       \/ /\ remote[k] \in {NoPayload, p}
          /\ \E e \in {"rate_limited", "validation_rejected", "uncertain"} : Hear(e)
          /\ UNCHANGED <<remote, accepted>>
       \/ /\ remote[k] \in {NoPayload, p}
          /\ \E e \in {"processed", "uncertain"} : Hear(e)
          /\ remote' = [remote EXCEPT ![k] = p]
          /\ accepted' = [accepted EXCEPT ![k] = @ + 1]
    /\ UNCHANGED storeVars

(* Mistake: the budget is exhausted one attempt too early in the report. *)
RetryOrExhaustedEarly(t, d) ==
    LET i == inv[t] IN
    IF i.n + 1 < MaxSubmissionAttempts
    THEN Become(t, [Started(i.key, i.payload) EXCEPT
                       !.pc = "wait", !.until = clock + d, !.slept = i.slept,
                       !.submitted = i.submitted, !.outcome = "retry_scheduled"])
    ELSE EndAs(t, "retry_exhausted")

(* A retryable failure was committed with delay d: wait for the job's own   *)
(* eligibility, or report that the budget is exhausted.                     *)
RetryOrExhausted(t, d) ==
    LET i == inv[t] IN
    IF RetryState(i.n) = "RETRY_SCHEDULED"
    THEN Become(t, [Started(i.key, i.payload) EXCEPT
                       !.pc = "wait", !.until = clock + d, !.slept = i.slept,
                       !.submitted = i.submitted, !.outcome = "retry_scheduled"])
    ELSE EndAs(t, "retry_exhausted")

Finalize(t) ==
    LET i == inv[t]
        k == i.key
        e == i.evidence
    IN
    /\ At(t, "finalize")
    /\ \/ /\ e = "processed"
          /\ FinalizeSucceeded(k, i.n, t, i.gen)
          /\ End(t, "succeeded", TRUE)
       \/ /\ e \in {"validation_rejected", "idempotency_conflict"}
          /\ FinalizePermanentFailure(k, i.n, t, i.gen, e)
          /\ EndAs(t, "failed_permanent")
       \/ \E d \in Delay :
             /\ \/ e = "rate_limited" /\ FinalizeRateLimited(k, i.n, t, i.gen, d)
                \/ e = "transport_not_sent" /\ FinalizeNotSent(k, i.n, t, i.gen, d)
             /\ RetryOrExhausted(t, d)
       \/ /\ e = "uncertain"
          /\ FinalizeRetained(k, i.n, t, i.gen)
          /\ Become(t, [i EXCEPT !.pc = "late", !.evidence = "none"])
       \/ /\ ~OwnsMine(t)
          /\ Goto(t, "appendLate")
          /\ UNCHANGED storeVars
    /\ UNCHANGED service

(* Mistake: an uncertain exchange is reported like a success. *)
OptimisticReport(e) ==
    IF e \in {"processed", "uncertain"}
    THEN [category |-> "processed", status |-> 200]
    ELSE [category |-> e,
          status |-> IF e \in DOMAIN AuthoritativeStatus THEN AuthoritativeStatus[e] ELSE 0]

(* A stale owner's POST evidence, as the category and status of a late row. *)
SubmissionReport(e) ==
    [category |-> e,
     status |-> IF e \in DOMAIN AuthoritativeStatus THEN AuthoritativeStatus[e] ELSE 0]

AppendLate(t) ==
    LET i == inv[t]
        r == SubmissionReport(i.evidence)
    IN
    /\ At(t, "appendLate")
    /\ AppendLateObservation(i.key, i.n, i.gen, "SUBMISSION", r.category, r.status)
    /\ EndAs(t, "ownership_lost")
    /\ UNCHANGED service

-----------------------------------------------------------------------------
(* run_reconciliation_sequence *)

(* _try_consume_late_evidence at the top of the loop and, when the sequence *)
(* is inconclusive, before it is recorded.                                  *)
ConsumeLate(t, pc, next) ==
    LET i == inv[t] IN
    /\ At(t, pc)
    /\ \/ /\ \E d \in Delay : ConsumeLateObservations(i.key, i.n, t, i.gen, d)
          /\ EndAs(t, Render(jobs'[i.key], attempts'[i.key][i.n]))
       \/ /\ OwnsMine(t) /\ UnconsumedLate(i.key, i.n) = {}
          /\ Goto(t, next)
          /\ UNCHANGED storeVars
    /\ UNCHANGED service

AuthorizeGet(t) ==
    LET i == inv[t] IN
    /\ At(t, "reconcile")
    /\ \/ /\ AuthorizeReconciliationRequest(i.key, i.n, t, i.gen, i.notBefore)
          /\ Become(t, [i EXCEPT !.pc = "get", !.notBefore = 0])
       \/ /\ OwnsMine(t) /\ ~MayReconcile(i.key, i.n, t, i.gen, i.notBefore)
          /\ Become(t, [i EXCEPT !.pc = "reconWait", !.until = LaterOf(i.notBefore, gate)])
          /\ UNCHANGED storeVars
    /\ UNCHANGED service

(* The next chunk of a wait of which `left` remains; see Cadence. *)
SleepChunk(i, left) ==
    LET chunk == IF left > Cadence THEN Cadence ELSE left IN
    [Sleeping(i, chunk, IF left > chunk THEN "reconRenew" ELSE "late")
        EXCEPT !.delay = left - chunk]

(* wait_while_renewing_lease; a wait that does not fit ends the sequence. *)
WaitForGet(t) ==
    LET i == inv[t] IN
    /\ At(t, "reconWait")
    /\ IF DelayLeft(i) > Remaining(i)
       THEN Become(t, [i EXCEPT !.pc = "lastLate", !.evidence = "inconclusive", !.until = 0])
       ELSE IF DelayLeft(i) = 0
            THEN Become(t, [i EXCEPT !.pc = "late", !.until = 0])
            ELSE Become(t, SleepChunk(i, DelayLeft(i)))
    /\ UNCHANGED <<storeVars, service>>

(* Mistake: the lease is renewed for whoever slept, without _owns_active_   *)
(* attempt.                                                                 *)
RenewUnchecked(t) ==
    LET i == inv[t] IN
    /\ At(t, "reconRenew")
    /\ SetLease(i.key, i.n, t, i.gen)
    /\ UNCHANGED <<jobs, observations, gate, clock>>
    /\ Become(t, SleepChunk(i, i.delay))
    /\ UNCHANGED service

RenewDuringWait(t) ==
    LET i == inv[t] IN
    /\ At(t, "reconRenew")
    /\ RenewLease(i.key, i.n, t, i.gen)
    /\ Become(t, SleepChunk(i, i.delay))
    /\ UNCHANGED service

(* handle_reconciliation: what the service has stored for the key of i. *)
StoredAnswer(i) ==
    CASE remote[i.key] = NoPayload -> "not_found"
      [] remote[i.key] = i.payload -> "matched"
      [] OTHER -> "conflict"

(* One GET: the stored answer, a 429, or nothing that can be relied on. *)
Get(t) ==
    LET i == inv[t] IN
    /\ At(t, "get")
    /\ \E e \in {StoredAnswer(i), "rate_limited", "uncertain"} :
          Become(t, [i EXCEPT !.pc = "observe", !.gets = @ + 1, !.evidence = e])
    /\ UNCHANGED <<storeVars, service>>

(* The category and status a GET is recorded with. *)
ReconciliationReport(e) ==
    CASE e = "matched" -> [category |-> "null", status |-> 200]
      [] e = "conflict" -> [category |-> "idempotency_conflict", status |-> 200]
      [] e = "not_found" -> [category |-> "reconciliation_not_found", status |-> 404]
      [] e = "rate_limited" -> [category |-> "rate_limited", status |-> 429]
      [] OTHER -> [category |-> "uncertain", status |-> 0]

(* Mistake: late evidence is not looked at once the GETs are used up. *)
NextGetOrRecord(t, i, d) ==
    IF i.gets >= MaxReconciliations
    THEN Become(t, [i EXCEPT !.pc = "record", !.evidence = "inconclusive", !.delay = 0])
    ELSE Become(t, [i EXCEPT !.pc = "late", !.evidence = "none", !.delay = 0,
                             !.notBefore = clock + d])

(* After a retryable GET: the last one of the sequence is inconclusive, and *)
(* the next must wait d.                                                    *)
NextGet(t, i, d) ==
    IF i.gets >= MaxReconciliations
    THEN Become(t, [i EXCEPT !.pc = "lastLate", !.evidence = "inconclusive", !.delay = 0])
    ELSE Become(t, [i EXCEPT !.pc = "late", !.evidence = "none", !.delay = 0,
                             !.notBefore = clock + d])

ObserveGet(t) ==
    LET i == inv[t]
        r == ReconciliationReport(i.evidence)
    IN
    /\ At(t, "observe")
    /\ AppendObservation(i.key, i.n, i.gen, r.category, r.status)
    /\ \/ /\ i.evidence \in {"matched", "conflict", "not_found"}
          /\ Goto(t, "record")
       \/ /\ i.evidence = "rate_limited"
          /\ \E d \in Delay : Become(t, [i EXCEPT !.pc = "advanceGate", !.delay = d])
       \/ /\ i.evidence = "uncertain"
          /\ \E d \in Delay : NextGet(t, i, d)
    /\ UNCHANGED service

AdvanceGate(t) ==
    LET i == inv[t] IN
    /\ At(t, "advanceGate")
    /\ AdvanceGateForReconciliation(i.delay)
    /\ Goto(t, "backoff")
    /\ UNCHANGED service

(* not_before is computed from the clock after the gate has been advanced. *)
BackOff(t) ==
    /\ At(t, "backoff")
    /\ NextGet(t, inv[t], inv[t].delay)
    /\ UNCHANGED <<storeVars, service>>

(* _finalize *)
Record(t) ==
    LET i == inv[t] IN
    /\ At(t, "record")
    /\ \/ /\ RecordReconciliationResult(i.key, i.n, t, i.gen, i.evidence)
          /\ EndAs(t, Render(jobs'[i.key], attempts'[i.key][i.n]))
       \/ /\ ~OwnsMine(t)
          /\ Goto(t, "appendLateGet")
          /\ UNCHANGED storeVars
    /\ UNCHANGED service

(* _LATE_EVIDENCE_CATEGORY_BY_DISPOSITION, with the status of the GET. *)
LateGetReport(e) ==
    CASE e = "matched" -> [category |-> "processed", status |-> 200]
      [] e = "conflict" -> [category |-> "idempotency_conflict", status |-> 200]
      [] e = "not_found" -> [category |-> "reconciliation_not_found", status |-> 404]
      [] OTHER -> [category |-> "reconciliation_inconclusive", status |-> 0]

AppendLateGet(t) ==
    LET i == inv[t]
        r == LateGetReport(i.evidence)
    IN
    /\ At(t, "appendLateGet")
    /\ AppendLateObservation(i.key, i.n, i.gen, "RECONCILIATION", r.category, r.status)
    /\ EndAs(t, "ownership_lost")
    /\ UNCHANGED service

(* A guarded transaction found the lease or the fencing gone: no further    *)
(* request is made.                                                         *)
LoseOwnership(t) ==
    /\ inv[t].pc \in {"renew", "late", "reconcile", "reconRenew", "lastLate"}
    /\ ~OwnsMine(t)
    /\ EndAs(t, "ownership_lost")
    /\ UNCHANGED <<storeVars, service>>

-----------------------------------------------------------------------------
(* Faults *)

(* A transaction raises and is rolled back. *)
PersistenceFails(t) ==
    /\ "persistence" \in Fault
    /\ \/ /\ inv[t].pc \in {"authorize", "claim", "renew", "finalize", "late", "reconcile",
                            "observe", "advanceGate", "lastLate", "record"}
          /\ EndAs(t, "local_persistence_failure")
       \/ /\ inv[t].pc \in {"appendLate", "appendLateGet", "reconRenew"}
          /\ EndAs(t, "ownership_lost")
    /\ UNCHANGED <<storeVars, service>>

Vanish(t) == Become(t, [Started(inv[t].key, inv[t].payload) EXCEPT !.pc = "crashed"])

(* The process is killed, or cancelled where the code lets it stop. *)
Crash(t) ==
    /\ "crash" \in Fault
    /\ ~Ended(t)
    /\ Vanish(t)
    /\ UNCHANGED <<storeVars, service>>

(* Mistake: a cancelled POST is completed as not sent, too. *)
CancelDispatched(t) ==
    LET i == inv[t] IN
    /\ "cancel" \in Fault
    /\ i.pc \in {"renew", "post", "posted"}
    /\ \/ \E d \in Delay : FinalizeNotSent(i.key, i.n, t, i.gen, d)
       \/ UNCHANGED storeVars
    /\ Vanish(t)
    /\ UNCHANGED service

(* Cancelled while the lease is renewed before dispatch: the attempt is     *)
(* completed as not sent, if it is still owned and the commit succeeds.     *)
CancelBeforeDispatch(t) ==
    LET i == inv[t] IN
    /\ "cancel" \in Fault
    /\ i.pc \in {"renew", "post"}
    /\ \/ \E d \in Delay : FinalizeNotSent(i.key, i.n, t, i.gen, d)
       \/ UNCHANGED storeVars
    /\ Vanish(t)
    /\ UNCHANGED service

(* Another client of the service binds the key to a payload of its own. *)
BindForeign(k) ==
    /\ "foreign" \in Fault
    /\ remote[k] = NoPayload
    /\ remote' = [remote EXCEPT ![k] = ForeignPayload]
    /\ UNCHANGED <<storeVars, inv, wire, accepted>>

(* Time passes while processes are paused or requests are under way. *)
TimePasses ==
    /\ clock < LastTick
    /\ Tick
    /\ UNCHANGED <<inv, service>>

-----------------------------------------------------------------------------
(* What the coroutine does when nothing stops it. *)
Proceed(t) ==
    \/ PreSideEffect(t) \/ WaitIfItFits(t) \/ Wake(t) \/ Claim(t)
    \/ Renew(t) \/ Dispatch(t) \/ Deadline(t) \/ Finalize(t) \/ AppendLate(t)
    \/ ConsumeLate(t, "late", "reconcile") \/ AuthorizeGet(t)
    \/ WaitForGet(t) \/ RenewDuringWait(t)
    \/ Get(t) \/ ObserveGet(t) \/ AdvanceGate(t) \/ BackOff(t)
    \/ ConsumeLate(t, "lastLate", "record") \/ Record(t) \/ AppendLateGet(t)
    \/ LoseOwnership(t)

WorkNext ==
    \/ \E t \in Token : \/ Proceed(t) \/ Arrive(t)
                        \/ PersistenceFails(t) \/ Crash(t) \/ CancelBeforeDispatch(t)
    \/ \E k \in Key : BindForeign(k)
    \/ TimePasses

WorkSpec == WorkInit /\ [][WorkNext]_workVars

(* A live process is scheduled, its transactions end (busy_timeout), its    *)
(* sleeps end and its requests meet their deadline.  The service owes no    *)
(* answer and time need not pass by itself.                                 *)
FairWorkSpec == WorkSpec /\ \A t \in Token : WF_workVars(Proceed(t))

-----------------------------------------------------------------------------
(* Properties *)

(* No job is processed twice, even by a service that ignores the            *)
(* idempotency key: once a POST may have been processed none is sent again. *)
AtMostOnceEffect == \A k \in Key : accepted[k] <= 1

(* Stored outcomes are true of the service: a SUCCEEDED job is processed    *)
(* with its own payload; a job that failed, or that may be submitted again, *)
(* was processed by none of its POSTs, nor ever will be.                    *)
OutcomeIsTrue ==
    \A k \in Key :
        /\ jobs[k].state = "SUCCEEDED" => remote[k] = jobs[k].payload
        /\ jobs[k].state \in {"PENDING", "RETRY_SCHEDULED", "FAILED_PERMANENT"}
              => accepted[k] = 0

(* What an invocation reported as final is what the store says ever after,  *)
(* whoever else works on the job.                                           *)
ReportedOutcomeHolds ==
    \A t \in Token :
        LET i == inv[t] IN
        /\ i.outcome \in {"succeeded", "already_completed", "failed_permanent",
                          "retry_exhausted", "ambiguous"} =>
              /\ jobs[i.key].payload = i.payload
              /\ jobs[i.key].state \in Terminal
              /\ Render(jobs[i.key], Latest(i.key)) =
                    IF i.outcome = "already_completed" THEN "succeeded" ELSE i.outcome
        /\ i.outcome = "idempotency_conflict" =>
              jobs[i.key].state # "ABSENT" /\ jobs[i.key].payload # i.payload

MayHavePosted(t) == wire[t] # "none"

(* `submitted` in the report: true exactly when a POST of this invocation   *)
(* began, in an earlier attempt or in this one, except that a stored        *)
(* success is always reported with false.                                   *)
SubmittedIsHonest ==
    \A t \in Token :
        At(t, "done") /\ inv[t].outcome # "already_completed"
            => inv[t].submitted = MayHavePosted(t)

(* The documented meaning of `submitted`, without that exception. *)
SubmittedAlwaysHonest ==
    \A t \in Token : At(t, "done") => inv[t].submitted = MayHavePosted(t)

(* Late evidence that was stored before the observation of a GET. *)
OverlookedLate(k, n) ==
    {i \in UnconsumedLate(k, n) :
        \E j \in DOMAIN observations[k] :
            /\ i < j
            /\ observations[k][j].attempt = n
            /\ observations[k][j].operation = "RECONCILIATION"
            /\ ~observations[k][j].late
            /\ observations[k][j].generation = attempts[k][n].generation}

AmbiguousFor(k, error) ==
    {n \in AttemptNumbers(k) :
        attempts[k][n].state = "AMBIGUOUS" /\ attempts[k][n].error = error}

(* An attempt given up as inconclusive had no decisive late evidence when   *)
(* its last GET was recorded.                                               *)
InconclusiveUsedEvidence ==
    \A k \in Key : \A n \in AmbiguousFor(k, "reconciliation_inconclusive") :
        OverlookedLate(k, n) = {}

(* The same for an attempt given up after a 404, as the documentation of    *)
(* late observations and of _try_consume_late_evidence promise.             *)
NotFoundUsedEvidence ==
    \A k \in Key : \A n \in AmbiguousFor(k, "reconciliation_not_found") :
        OverlookedLate(k, n) = {}

(* One invocation sleeps at most the ceiling in total. *)
SleepsWithinCeiling == \A t \in Token : inv[t].slept <= Ceiling

(* An invocation acts under the fencing term of an attempt: from the        *)
(* authorization or the claim that granted it to its report, in a wait      *)
(* between two GETs too, and as a stale owner, who does not know it yet.    *)
Acting == Pc \ {"authorize", "wait", "sleep", "claim", "done", "crashed"}

Acts(t) ==
    \/ inv[t].pc \in Acting
    \/ At(t, "sleep") /\ inv[t].then \in {"late", "reconRenew"}

SameTerm(t, u) ==
    inv[t].key = inv[u].key /\ inv[t].n = inv[u].n /\ inv[t].gen = inv[u].gen

(* A fencing term is granted once: no two invocations ever act under the    *)
(* same attempt and generation, however many saw the lease expire, were     *)
(* paused in the quarantine, or act on without knowing that they were       *)
(* fenced off.                                                              *)
TermsAreExclusive ==
    \A t, u \in Token : Acts(t) /\ Acts(u) /\ SameTerm(t, u) => t = u

(* The ceiling holds for what it is asked about: an invocation starts a     *)
(* sleep that takes it past the ceiling only for the mandatory quarantine,  *)
(* however a wait is cut into chunks and however often it is resumed.       *)
WaitsFitCeiling ==
    [][\A t \in Token : inv'[t].slept > inv[t].slept =>
          inv'[t].then = "claim" \/ inv'[t].slept <= Ceiling]_workVars

(* Whatever the workflow does to the store is a step of JobStore, so what   *)
(* is proved of JobStore holds of the application.                          *)
WorkflowUsesStore == [][Next]_storeVars

(* Refinement mapping: what the store and the service say of one job. *)
VerdictOf(state) ==
    CASE state = "SUCCEEDED" -> "succeeded"
      [] state = "FAILED_PERMANENT" -> "failed"
      [] state = "AMBIGUOUS" -> "unknown"
      [] OTHER -> "open"

Promise == INSTANCE Delivery
    WITH verdict <- [k \in Key |-> VerdictOf(jobs[k].state)],
         effect <- accepted

(* The application keeps the promise of Delivery about every job. *)
ImplementsDelivery == Promise!DeliverySpec

(* Every invocation ends with a report, however the others are scheduled,   *)
(* whatever the service answers or does not answer.                         *)
InvocationEnds == \A t \in Token : <>Ended(t)

=============================================================================
