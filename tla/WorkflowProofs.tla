---------------------------- MODULE WorkflowProofs ----------------------------
(***************************************************************************)
(* Proofs about SubmitWorkflow for any keys, payloads, invocations, delays *)
(* and faults: it keeps the invariant of the store, no job takes effect    *)
(* twice, stored and reported outcomes are true, and the promise of        *)
(* Delivery is kept.                                                       *)
(***************************************************************************)
EXTENDS SubmitWorkflow, JobStoreProofs

-----------------------------------------------------------------------------
(* Records of invocations *)

LEMMA StartedTyped ==
    ASSUME NEW k \in Key, NEW p \in Payload
    PROVE  Started(k, p) \in Invocation
BY DEF Started, Invocation, Pc, Outcome, Evidence

-----------------------------------------------------------------------------
(* The store *)

(* No step takes a job's payload from it. *)
PayloadStays ==
    \A k \in Key : jobs[k].state # "ABSENT" =>
        jobs'[k].state # "ABSENT" /\ jobs'[k].payload = jobs[k].payload

StoreMoves == FinalStep /\ PayloadStays

LEMMA KindsKeepPayload ==
    ASSUME TypeOK, JobMatchesAttempts, Kinds
    PROVE  PayloadStays
<1> SUFFICES ASSUME NEW l \in Key, jobs[l].state # "ABSENT"
             PROVE  jobs'[l].state # "ABSENT" /\ jobs'[l].payload = jobs[l].payload
  BY DEF PayloadStays
<1>0. jobs[l] \in JobRow
  BY DEF TypeOK
<1>1. ASSUME NEW k \in Key, NEW p \in Payload, NEW t \in Token, StartAttempt(k, p, t)
      PROVE  jobs'[l].state # "ABSENT" /\ jobs'[l].payload = jobs[l].payload
  BY <1>0, <1>1 DEF StartAttempt, Authorize, JobToSubmit, InState, JobRow, TypeOK
<1>2. ASSUME NEW k \in Key, NEW p \in Payload, DeferAttempt(k, p)
      PROVE  jobs'[l].state # "ABSENT" /\ jobs'[l].payload = jobs[l].payload
  BY <1>0, <1>2 DEF DeferAttempt, Defer, JobToSubmit, TypeOK
<1>3. CASE jobs' = jobs
  BY <1>3
<1>4. ASSUME NEW k \in Key, NEW n \in AttemptNumbers(k), NEW as \in AttemptState,
             NEW js \in JobState, NEW e \in Category, NEW d \in Nat,
             Completion(k, n, as, js, e, d)
      PROVE  jobs'[l].state # "ABSENT" /\ jobs'[l].payload = jobs[l].payload
  <2>1. jobs' = [jobs EXCEPT ![k] = InState(@, js)] /\ <<js, as>> \in Agreement
    BY <1>4 DEF Completion, Complete
  <2>2. js # "ABSENT"
    BY <2>1 DEF Agreement
  <2>. QED
    BY <1>0, <2>1, <2>2 DEF InState, JobRow, TypeOK
<1>. QED
  BY <1>1, <1>2, <1>3, <1>4 DEF Kinds, LeaseChange

(* The transactions of the owner of an attempt. *)
LEMMA OwnerMoves ==
    ASSUME StoreInv, NEW k \in Key, NEW n \in Nat, NEW t \in Token, NEW g \in Nat,
           OwnerStep(k, n, t, g)
    PROVE  Kinds /\ TypeOK'
<1>0. TypeOK /\ JobMatchesAttempts
  BY DEF StoreInv, TableInv
<1>1. n \in AttemptNumbers(k)
  BY DEF OwnerStep, RenewLease, FinalizeSucceeded, FinalizePermanentFailure, FinalizeRateLimited,
         FinalizeNotSent, ConsumeLateObservations, FinalizeRetained,
         AuthorizeReconciliationRequest, MayReconcile, RecordReconciliationResult, Owns
<1>2. Kinds /\ gate' \in Nat /\ clock' = clock
  BY <1>0, <1>1, OwnerStepKinds
<1>3. observations' \in [Key -> Seq(ObservationRow)]
  BY <1>0, <1>1, OwnerObservationsTyped
<1>4. jobs' \in [Key -> JobRow] /\ attempts' \in [Key -> Seq(AttemptRow)]
  BY <1>0, <1>2, KindsKeepTypes
<1>. QED
  BY <1>0, <1>2, <1>3, <1>4 DEF TypeOK

(* Steps that leave jobs and attempts alone. *)
LEMMA QuietMoves ==
    ASSUME StoreInv, UNCHANGED <<jobs, attempts>>,
           observations' \in [Key -> Seq(ObservationRow)], gate' \in Nat, clock' \in Nat \ {0}
    PROVE  Kinds /\ TypeOK'
BY DEF Kinds, TypeOK, StoreInv

(* One more observation row. *)
LEMMA ObserveMoves ==
    ASSUME StoreInv, NEW k \in Key, NEW row \in ObservationRow, Observe(k, row),
           UNCHANGED <<jobs, attempts, gate, clock>>
    PROVE  Kinds /\ TypeOK'
<1>1. TypeOK
  BY DEF StoreInv
<1>2. observations' \in [Key -> Seq(ObservationRow)]
  BY <1>1, ObservedTyped
<1>. QED
  BY <1>1, <1>2, QuietMoves DEF TypeOK

(* A lease is set by the owner or by a claim. *)
LEMMA LeaseMoves ==
    ASSUME StoreInv, NEW k \in Key, NEW n \in AttemptNumbers(k), NEW t \in Token, NEW g \in Nat,
           LeaseChange(k, n, t, g), observations' = observations
    PROVE  Kinds /\ TypeOK'
<1>1. TypeOK
  BY DEF StoreInv
<1>2. Kinds
  BY DEF Kinds
<1>3. attempts' \in [Key -> Seq(AttemptRow)] /\ jobs' = jobs
  BY <1>1, LeaseChangeEffect
<1>. QED
  BY <1>1, <1>2, <1>3 DEF LeaseChange, TypeOK

(* An attempt is started, or deferred. *)
LEMMA StartMoves ==
    ASSUME StoreInv, NEW k \in Key, NEW p \in Payload, NEW t \in Token, StartAttempt(k, p, t)
    PROVE  Kinds /\ TypeOK'
<1>0. TypeOK /\ JobMatchesAttempts
  BY DEF StoreInv, TableInv
<1>1. Kinds
  BY DEF Kinds
<1>2. jobs' \in [Key -> JobRow] /\ attempts' \in [Key -> Seq(AttemptRow)]
  BY <1>0, <1>1, KindsKeepTypes
<1>3. UNCHANGED <<observations, gate, clock>>
  BY DEF StartAttempt, Authorize
<1>. QED
  BY <1>0, <1>1, <1>2, <1>3 DEF TypeOK

LEMMA DeferMoves ==
    ASSUME StoreInv, NEW k \in Key, NEW p \in Payload, DeferAttempt(k, p)
    PROVE  Kinds /\ TypeOK'
<1>0. TypeOK /\ JobMatchesAttempts
  BY DEF StoreInv, TableInv
<1>1. Kinds
  BY DEF Kinds
<1>2. jobs' \in [Key -> JobRow] /\ attempts' \in [Key -> Seq(AttemptRow)]
  BY <1>0, <1>1, KindsKeepTypes
<1>3. UNCHANGED <<observations, gate, clock>>
  BY DEF DeferAttempt, Defer
<1>. QED
  BY <1>0, <1>1, <1>2, <1>3 DEF TypeOK

(* What every step of these kinds means for the store. *)
LEMMA KindsMove ==
    ASSUME StoreInv, Kinds, TypeOK'
    PROVE  StoreInv' /\ StoreMoves
<1>1. TableInv'
  BY KindsKeepTables
<1>2. FinalStep
  BY KindsAreFinal
<1>3. PayloadStays
  BY KindsKeepPayload DEF StoreInv, TableInv
<1>. QED
  BY <1>1, <1>2, <1>3 DEF StoreInv, StoreMoves

-----------------------------------------------------------------------------
(* Where a step leaves the invocation that makes it *)

(* The fields the invariant speaks of, after a step of t.                    *)
Now(t, pc, then, n, e, s, o) ==
    /\ inv' \in [Token -> Invocation]
    /\ \A u \in Token : u # t => inv'[u] = inv[u]
    /\ inv'[t].key = inv[t].key /\ inv'[t].payload = inv[t].payload
    /\ inv'[t].pc = pc /\ inv'[t].then = then /\ inv'[t].n = n
    /\ inv'[t].evidence = e /\ inv'[t].submitted = s /\ inv'[t].outcome = o

(* The fields a record starts with. *)
LEMMA StartedFields ==
    ASSUME NEW k \in Key, NEW p \in Payload
    PROVE  /\ Started(k, p) \in Invocation
           /\ Started(k, p).key = k /\ Started(k, p).payload = p
           /\ Started(k, p).pc = "authorize" /\ Started(k, p).then = "authorize"
           /\ Started(k, p).n = 0 /\ Started(k, p).evidence = "none"
           /\ Started(k, p).outcome = "none"
BY StartedTyped DEF Started

LEMMA NotSubmittedYet ==
    ASSUME NEW k \in Key, NEW p \in Payload
    PROVE  Started(k, p).submitted = FALSE
BY StartedTyped DEF Started

LEMMA BecomeNow ==
    ASSUME WorkTypeOK, NEW t \in Token, NEW r \in Invocation, Become(t, r),
           r.key = inv[t].key, r.payload = inv[t].payload
    PROVE  Now(t, r.pc, r.then, r.n, r.evidence, r.submitted, r.outcome)
BY DEF WorkTypeOK, Become, Now

LEMMA EndNow ==
    ASSUME WorkTypeOK, NEW t \in Token, NEW o \in Outcome, NEW s \in BOOLEAN, End(t, o, s)
    PROVE  Now(t, "done", "authorize", 0, "none", s, o)
<1> DEFINE b == Started(inv[t].key, inv[t].payload)
           r == [b EXCEPT !.pc = "done", !.outcome = o, !.submitted = s]
<1>1. inv[t].key \in Key /\ inv[t].payload \in Payload
  BY DEF WorkTypeOK, Invocation
<1>2. /\ b \in Invocation /\ b.key = inv[t].key /\ b.payload = inv[t].payload
      /\ b.then = "authorize" /\ b.n = 0 /\ b.evidence = "none"
  BY <1>1, StartedFields
<1>3. Become(t, r)
  BY DEF End
<1>4. "done" \in Pc
  BY DEF Pc
<1> HIDE DEF b
<1>5. /\ r \in Invocation /\ r.key = inv[t].key /\ r.payload = inv[t].payload
      /\ r.pc = "done" /\ r.then = "authorize" /\ r.n = 0 /\ r.evidence = "none"
      /\ r.submitted = s /\ r.outcome = o
  BY <1>2, <1>4 DEF Invocation
<1> HIDE DEF r
<1>6. Now(t, r.pc, r.then, r.n, r.evidence, r.submitted, r.outcome)
  BY <1>3, <1>5, BecomeNow
<1>. QED
  BY <1>5, <1>6

LEMMA EndAsNow ==
    ASSUME WorkTypeOK, NEW t \in Token, NEW o \in Outcome, EndAs(t, o)
    PROVE  Now(t, "done", "authorize", 0, "none", inv[t].submitted, o)
<1>1. inv[t].submitted \in BOOLEAN
  BY DEF WorkTypeOK, Invocation
<1>. QED
  BY <1>1, EndNow DEF EndAs

LEMMA GotoNow ==
    ASSUME WorkTypeOK, NEW t \in Token, NEW pc \in Pc, Goto(t, pc)
    PROVE  LET i == inv[t] IN
           Now(t, pc, i.then, i.n, i.evidence, i.submitted, i.outcome)
<1> DEFINE r == [inv[t] EXCEPT !.pc = pc]
<1>1. inv[t] \in Invocation
  BY DEF WorkTypeOK
<1>2. Become(t, r)
  BY DEF Goto
<1>3. /\ r \in Invocation /\ r.key = inv[t].key /\ r.payload = inv[t].payload
      /\ r.pc = pc /\ r.then = inv[t].then /\ r.n = inv[t].n
      /\ r.evidence = inv[t].evidence /\ r.submitted = inv[t].submitted
      /\ r.outcome = inv[t].outcome
  BY <1>1 DEF Invocation
<1> HIDE DEF r
<1>4. Now(t, r.pc, r.then, r.n, r.evidence, r.submitted, r.outcome)
  BY <1>2, <1>3, BecomeNow
<1>. QED
  BY <1>3, <1>4

LEMMA VanishNow ==
    ASSUME WorkTypeOK, NEW t \in Token, Vanish(t)
    PROVE  Now(t, "crashed", "authorize", 0, "none", FALSE, "none")
<1> DEFINE b == Started(inv[t].key, inv[t].payload)
           r == [b EXCEPT !.pc = "crashed"]
<1>1. inv[t].key \in Key /\ inv[t].payload \in Payload
  BY DEF WorkTypeOK, Invocation
<1>2. /\ b \in Invocation /\ b.key = inv[t].key /\ b.payload = inv[t].payload
      /\ b.then = "authorize" /\ b.n = 0 /\ b.evidence = "none"
      /\ b.outcome = "none"
  BY <1>1, StartedFields
<1>0. b.submitted = FALSE
  BY <1>1, NotSubmittedYet
<1>3. Become(t, r)
  BY DEF Vanish
<1>4. "crashed" \in Pc
  BY DEF Pc
<1> HIDE DEF b
<1>5. /\ r \in Invocation /\ r.key = inv[t].key /\ r.payload = inv[t].payload
      /\ r.pc = "crashed" /\ r.then = "authorize" /\ r.n = 0 /\ r.evidence = "none"
      /\ r.outcome = "none"
  BY <1>2, <1>4 DEF Invocation
<1>7. r.submitted = FALSE
  BY <1>0, <1>2 DEF Invocation
<1> HIDE DEF r
<1>6. Now(t, r.pc, r.then, r.n, r.evidence, r.submitted, r.outcome)
  BY <1>3, <1>5, BecomeNow
<1>. QED
  BY <1>5, <1>6, <1>7

LEMMA ObservedNow ==
    ASSUME WorkTypeOK, NEW t \in Token, NEW e \in Evidence, Observed(t, e)
    PROVE  LET i == inv[t] IN
           Now(t, "finalize", i.then, i.n, e,
               (i.submitted \/ e # "transport_not_sent"), i.outcome)
<1> DEFINE s == (inv[t].submitted \/ e # "transport_not_sent")
           r == [inv[t] EXCEPT !.pc = "finalize", !.evidence = e, !.submitted = s]
<1>1. inv[t] \in Invocation
  BY DEF WorkTypeOK
<1>2. Become(t, r)
  BY DEF Observed
<1>3. "finalize" \in Pc /\ s \in BOOLEAN
  BY DEF Pc
<1> HIDE DEF s
<1>4. /\ r \in Invocation /\ r.key = inv[t].key /\ r.payload = inv[t].payload
      /\ r.pc = "finalize" /\ r.then = inv[t].then /\ r.n = inv[t].n
      /\ r.evidence = e /\ r.submitted = s
      /\ r.outcome = inv[t].outcome
  BY <1>1, <1>3 DEF Invocation
<1> HIDE DEF r
<1>5. Now(t, r.pc, r.then, r.n, r.evidence, r.submitted, r.outcome)
  BY <1>2, <1>4, BecomeNow
<1>. QED
  BY <1>4, <1>5 DEF s

-----------------------------------------------------------------------------
(***************************************************************************)
(* The invariant.  What a key's POSTs have done, or may still do, follows   *)
(* from three things: at most one of them is on its way and none is once    *)
(* one was accepted; while an invocation prepares one, none is; and a job   *)
(* may be submitted again only when none is and none will be.               *)
(***************************************************************************)

(* The pcs before the POST of an attempt, and those from its start to the    *)
(* end of its evidence.  Whoever takes an attempt over is at none of them.   *)
Early == {"renew", "post"}
Dispatching == Early \cup {"posted", "finalize", "appendLate"}

(* The pcs at which an invocation works on an attempt. *)
OnAttempt == Dispatching \cup
    {"claim", "late", "reconcile", "reconWait", "reconRenew", "get", "observe",
     "advanceGate", "backoff", "lastLate", "record", "appendLateGet"}

(* Evidence that a POST had no effect and will have none. *)
Negative == {"validation_rejected", "idempotency_conflict", "rate_limited",
             "transport_not_sent"}

(* What the sender of a POST can hear of it, and what an exchange can end in. *)
Heard == {"processed", "validation_rejected", "idempotency_conflict", "rate_limited",
          "uncertain"}
Concluded == Heard \cup {"transport_not_sent"}

LEMMA EvidenceTyped ==
    /\ {"none", "processed", "validation_rejected", "idempotency_conflict", "rate_limited",
        "transport_not_sent", "uncertain", "matched", "conflict", "not_found",
        "inconclusive"} = Evidence
    /\ Negative \subseteq Evidence
    /\ Heard \subseteq Evidence /\ Concluded \subseteq Category
    /\ \A e \in Heard : e \notin {"transport_not_sent", "matched", "conflict"}
BY DEF Evidence, Negative, Heard, Concluded, Category

InFlight(k, t) == inv[t].key = k /\ wire[t] = "sent"

Dispatcher(k, t) == inv[t].key = k /\ inv[t].pc \in Dispatching

(* No POST for k had an effect or is on its way. *)
Unsent(k) == accepted[k] = 0 /\ \A t \in Token : ~InFlight(k, t)

(* ... and no invocation is about to send one. *)
Silent(k) == Unsent(k) /\ \A t \in Token : ~Dispatcher(k, t)

(* The service is bound to what no invocation asks for. *)
BoundElsewhere(k) == accepted[k] = 0 /\ remote[k] \notin Payload \cup {NoPayload}

ServiceAgrees(k) ==
    /\ accepted[k] \in {0, 1}
    /\ accepted[k] = 0 => remote[k] \notin Payload
    /\ accepted[k] = 1 => remote[k] = jobs[k].payload /\ remote[k] \in Payload

(* An invocation that has yet to POST, or holds evidence against its POST. *)
Certain(t) ==
    \/ inv[t].pc \in Early
    \/ inv[t].pc \in {"finalize", "appendLate"} /\ inv[t].evidence \in Negative

OnePost(k) ==
    /\ \A t, u \in Token : InFlight(k, t) /\ InFlight(k, u) => t = u
    /\ \A t \in Token : InFlight(k, t) => accepted[k] = 0
    /\ \A t, u \in Token : Dispatcher(k, t) /\ Dispatcher(k, u) => t = u
    /\ \A t \in Token : inv[t].key = k /\ Certain(t) => Unsent(k)

(* What the state of a job promises about its POSTs. *)
Judged(k) ==
    /\ jobs[k].state \in {"ABSENT", "PENDING", "RETRY_SCHEDULED"} => Silent(k)
    /\ jobs[k].state = "FAILED_PERMANENT" => Silent(k) \/ BoundElsewhere(k)
    /\ jobs[k].state = "SUCCEEDED" => accepted[k] = 1

(* What an authoritative late row promises about them. *)
LateRow(k, row) ==
    row.late /\ Actionable(row) =>
       /\ row.attempt \in AttemptNumbers(k)
       /\ row.category = "processed" => accepted[k] = 1
       /\ row.category # "processed" /\ row.attempt = Len(attempts[k]) => Silent(k)

LateRows(k) == \A i \in DOMAIN observations[k] : LateRow(k, observations[k][i])

KeyInv(k) == ServiceAgrees(k) /\ OnePost(k) /\ Judged(k) /\ LateRows(k)

-----------------------------------------------------------------------------
(* Steps that do not bring a POST nearer *)

Progress(t) ==
    /\ \A u \in Token : u # t => inv'[u] = inv[u]
    /\ inv'[t].key = inv[t].key
    /\ inv'[t].pc \in Dispatching => inv[t].pc \in Dispatching
    /\ Certain(t)' => Certain(t)

LEMMA UnsentStays ==
    ASSUME NEW t \in Token, Progress(t), UNCHANGED service, NEW k
    PROVE  Unsent(k)' <=> Unsent(k)
<1>1. \A u \in Token : inv'[u].key = inv[u].key
  BY DEF Progress
<1>. QED
  BY <1>1 DEF Unsent, InFlight, service

LEMMA SilentStays ==
    ASSUME NEW t \in Token, Progress(t), UNCHANGED service, NEW k, Silent(k)
    PROVE  Silent(k)'
<1>1. Unsent(k)'
  BY UnsentStays DEF Silent
<1>2. \A u \in Token : inv'[u].key = inv[u].key
  BY DEF Progress
<1>3. \A u \in Token : inv'[u].pc \in Dispatching => inv[u].pc \in Dispatching
  BY DEF Progress
<1>. QED
  BY <1>1, <1>2, <1>3 DEF Silent, Dispatcher

LEMMA OnePostStays ==
    ASSUME NEW t \in Token, Progress(t), UNCHANGED service, NEW k, OnePost(k)
    PROVE  OnePost(k)'
<1>1. \A u \in Token : inv'[u].key = inv[u].key
  BY DEF Progress
<1>2. \A u \in Token : inv'[u].pc \in Dispatching => inv[u].pc \in Dispatching
  BY DEF Progress
<1>3. \A u \in Token : Certain(u)' => Certain(u)
  BY DEF Progress, Certain
<1>4. Unsent(k)' <=> Unsent(k)
  BY UnsentStays
<1>5. \A u \in Token : InFlight(k, u)' <=> InFlight(k, u)
  BY <1>1 DEF InFlight, service
<1>6. \A u \in Token : Dispatcher(k, u)' => Dispatcher(k, u)
  BY <1>1, <1>2 DEF Dispatcher
<1>7. accepted' = accepted
  BY DEF service
<1>. QED
  BY <1>1, <1>3, <1>4, <1>5, <1>6, <1>7 DEF OnePost

LEMMA AgreesStays ==
    ASSUME NEW k \in Key, KeyInv(k), PayloadStays, UNCHANGED service
    PROVE  ServiceAgrees(k)'
<1>1. accepted[k] = 1 => jobs[k].state # "ABSENT"
  BY DEF KeyInv, Judged, Silent, Unsent
<1>2. accepted[k] = 1 => jobs'[k].payload = jobs[k].payload
  BY <1>1 DEF PayloadStays
<1>. QED
  BY <1>2 DEF KeyInv, ServiceAgrees, service

(* The late rows of k are those there were, but for being consumed. *)
SameLate(k) ==
    /\ Len(attempts'[k]) = Len(attempts[k])
    /\ \A i \in DOMAIN observations'[k] :
          observations'[k][i].late =>
             /\ i \in DOMAIN observations[k]
             /\ observations[k][i].late
             /\ observations'[k][i].attempt = observations[k][i].attempt
             /\ observations'[k][i].category = observations[k][i].category
             /\ observations'[k][i].status = observations[k][i].status

LEMMA LateRowsStay ==
    ASSUME NEW t \in Token, Progress(t), UNCHANGED service, NEW k, LateRows(k), SameLate(k)
    PROVE  LateRows(k)'
<1> SUFFICES ASSUME NEW i \in DOMAIN observations'[k],
                    observations'[k][i].late, Actionable(observations'[k][i])
             PROVE  LateRow(k, observations[k][i])'
  BY DEF LateRows, LateRow, Actionable
<1> DEFINE old == observations[k][i]
           new == observations'[k][i]
<1>1. LateRow(k, old) /\ old.late
  BY DEF LateRows, SameLate
<1>2. /\ Actionable(old)
      /\ new.attempt = old.attempt /\ new.category = old.category
  BY DEF SameLate, Actionable
<1>3. AttemptNumbers(k)' = AttemptNumbers(k) /\ Len(attempts'[k]) = Len(attempts[k])
  BY DEF SameLate, AttemptNumbers
<1>4. Silent(k) => Silent(k)'
  BY SilentStays
<1>5. accepted' = accepted
  BY DEF service
<1>6. /\ new.attempt \in AttemptNumbers(k)'
      /\ new.category = "processed" => accepted'[k] = 1
      /\ new.category # "processed" /\ new.attempt = Len(attempts'[k]) => Silent(k)'
  <2> HIDE DEF old, new
  <2>. QED
    BY <1>1, <1>2, <1>3, <1>4, <1>5 DEF LateRow
<1>. QED
  BY <1>6 DEF LateRow

(* Such a step keeps the invariant if what it decides is justified. *)
LEMMA ProgressKeeps ==
    ASSUME NEW t \in Token, Progress(t), UNCHANGED service, PayloadStays,
           NEW k \in Key, KeyInv(k), SameLate(k), Judged(k)'
    PROVE  KeyInv(k)'
BY AgreesStays, OnePostStays, LateRowsStay DEF KeyInv

(* A job nobody decides about. *)
LEMMA SameJobJudged ==
    ASSUME NEW t \in Token, Progress(t), UNCHANGED service, NEW k, Judged(k),
           \/ jobs'[k].state = jobs[k].state
           \/ jobs[k].state = "ABSENT" /\ jobs'[k].state = "PENDING"
    PROVE  Judged(k)'
<1>1. Silent(k) => Silent(k)'
  BY SilentStays
<1>2. UNCHANGED <<accepted, remote>>
  BY DEF service
<1>. QED
  BY <1>1, <1>2 DEF Judged, BoundElsewhere

-----------------------------------------------------------------------------
(* What an invocation knows and reports *)

(* The job is there, with the invocation's own payload. *)
Mine(t) ==
    /\ jobs[inv[t].key].state # "ABSENT"
    /\ jobs[inv[t].key].payload = inv[t].payload

(* Evidence is true of the service, and stays true. *)
Truth(t) ==
    /\ inv[t].evidence \in {"processed", "matched"} => accepted[inv[t].key] = 1
    /\ inv[t].evidence = "conflict" => BoundElsewhere(inv[t].key)

Resumes == {"authorize", "claim", "late", "reconRenew"}

Routed(t) ==
    /\ inv[t].then \in Resumes
    /\ inv[t].pc \in OnAttempt \/ inv[t].then \in OnAttempt =>
          inv[t].n \in AttemptNumbers(inv[t].key) /\ Mine(t)
    /\ wire[t] # "none" => Mine(t)
    /\ inv[t].pc = "posted" => wire[t] = "sent"
    /\ inv[t].evidence = "processed" => wire[t] # "none"
    /\ inv[t].pc \in {"finalize", "appendLate"} => inv[t].evidence \in Concluded

Honest(t) ==
    /\ inv[t].pc \notin {"posted", "done", "crashed"} => inv[t].submitted = MayHavePosted(t)
    /\ inv[t].pc = "done" /\ inv[t].outcome # "already_completed" =>
          inv[t].submitted = MayHavePosted(t)

FinalReport == {"succeeded", "already_completed", "failed_permanent",
                "retry_exhausted", "ambiguous"}

(* ReportedOutcomeHolds for one invocation. *)
OutcomeHolds(t) ==
    LET i == inv[t] IN
    /\ i.outcome \in FinalReport =>
          /\ jobs[i.key].payload = i.payload
          /\ jobs[i.key].state \in Terminal
          /\ Render(jobs[i.key], Latest(i.key)) =
                IF i.outcome = "already_completed" THEN "succeeded" ELSE i.outcome
    /\ i.outcome = "idempotency_conflict" =>
          jobs[i.key].state # "ABSENT" /\ jobs[i.key].payload # i.payload

(* Until it ends, an invocation has nothing to report; while it waits, what  *)
(* it reports if the wait does not fit.                                      *)
Unreported(pc, o) ==
    \/ o = "none"
    \/ pc = "wait" /\ o \in {"retry_scheduled", "submission_deferred"}

Reported(t) ==
    /\ OutcomeHolds(t)
    /\ inv[t].pc # "done" => Unreported(inv[t].pc, inv[t].outcome)
    /\ inv[t].pc = "wait" => inv[t].outcome # "none"

TokenInv(t) == Truth(t) /\ Routed(t) /\ Honest(t) /\ Reported(t)

WorkInv == (\A k \in Key : KeyInv(k)) /\ (\A t \in Token : TokenInv(t))

FullInv == StoreInv /\ WorkTypeOK /\ WorkInv

(* What the service does never turns true evidence false. *)
ServiceMoves ==
    \A k \in Key : /\ accepted[k] = 1 => accepted'[k] = 1
                   /\ BoundElsewhere(k) => BoundElsewhere(k)'

LEMMA MineStays ==
    ASSUME WorkTypeOK, NEW t \in Token, Mine(t), PayloadStays,
           inv'[t].key = inv[t].key, inv'[t].payload = inv[t].payload
    PROVE  Mine(t)'
<1>1. inv[t].key \in Key
  BY DEF WorkTypeOK, Invocation
<1>. QED
  BY <1>1 DEF Mine, PayloadStays

LEMMA NumbersStay ==
    ASSUME StoreInv, StoreInv', StoreMoves, NEW k \in Key, NEW n \in AttemptNumbers(k)
    PROVE  n \in AttemptNumbers(k)'
<1>1. Len(attempts[k]) \in Nat /\ Len(attempts'[k]) \in Nat
  BY DEF StoreInv, TypeOK
<1>2. Len(attempts'[k]) >= Len(attempts[k])
  BY DEF StoreMoves, FinalStep
<1>. QED
  BY <1>1, <1>2 DEF AttemptNumbers

(* A job that is final is reported in the same way ever after. *)
LEMMA ReportStays ==
    ASSUME WorkTypeOK, NEW t \in Token, OutcomeHolds(t), StoreMoves, inv'[t] = inv[t]
    PROVE  OutcomeHolds(t)'
<1> DEFINE k == inv[t].key
<1>1. k \in Key
  BY DEF WorkTypeOK, Invocation
<1>2. jobs[k].state \in Terminal => jobs'[k] = jobs[k] /\ attempts'[k] = attempts[k]
  BY <1>1 DEF StoreMoves, FinalStep
<1>3. jobs[k].state # "ABSENT" => jobs'[k].state # "ABSENT" /\ jobs'[k].payload = jobs[k].payload
  BY <1>1 DEF StoreMoves, PayloadStays
<1>4. CASE inv[t].outcome \in FinalReport
  <2>1. jobs'[k] = jobs[k] /\ attempts'[k] = attempts[k]
    BY <1>2, <1>4 DEF OutcomeHolds
  <2>. QED
    BY <1>4, <2>1 DEF OutcomeHolds, Latest, Render, FinalReport
<1>5. CASE inv[t].outcome \notin FinalReport
  BY <1>3, <1>5 DEF OutcomeHolds
<1>. QED
  BY <1>4, <1>5

LEMMA TokenStays ==
    ASSUME StoreInv, StoreInv', WorkTypeOK, NEW t \in Token, TokenInv(t), StoreMoves,
           ServiceMoves, inv'[t] = inv[t],
           MayHavePosted(t)' <=> MayHavePosted(t),
           inv[t].pc = "posted" => wire'[t] = wire[t]
    PROVE  TokenInv(t)'
<1>1. inv[t].key \in Key
  BY DEF WorkTypeOK, Invocation
<1>2. Truth(t)'
  BY <1>1 DEF TokenInv, Truth, ServiceMoves
<1>3. Mine(t) => Mine(t)'
  BY MineStays DEF StoreMoves
<1>4. \A n \in AttemptNumbers(inv[t].key) : n \in AttemptNumbers(inv[t].key)'
  BY <1>1, NumbersStay
<1>5. Routed(t)'
  BY <1>3, <1>4 DEF TokenInv, Routed, MayHavePosted
<1>6. Honest(t)'
  <2>1. MayHavePosted(t)' = MayHavePosted(t)
    BY DEF MayHavePosted
  <2>. QED
    BY <2>1, Zenon DEF TokenInv, Honest
<1>7. Reported(t)'
  BY ReportStays DEF TokenInv, Reported, Unreported
<1>. QED
  BY <1>2, <1>5, <1>6, <1>7 DEF TokenInv

-----------------------------------------------------------------------------
(* A step of one invocation keeps the invariant if it does so for what it    *)
(* decides and for what it knows itself.                                     *)

(* A job nobody decides about. *)
Still(k) ==
    \/ jobs'[k].state = jobs[k].state
    \/ jobs[k].state = "ABSENT" /\ jobs'[k].state = "PENDING"

LEMMA StepKeeps ==
    ASSUME FullInv, NEW t \in Token, Progress(t), UNCHANGED service,
           inv' \in [Token -> Invocation], TokenInv(t)',
           StoreInv', StoreMoves,
           \A k \in Key : SameLate(k),
           \A k \in Key : Still(k) \/ Judged(k)'
    PROVE  FullInv'
<1>1. WorkTypeOK'
  BY DEF FullInv, WorkTypeOK, service, StoreInv
<1>2. ASSUME NEW k \in Key PROVE KeyInv(k)'
  <2>1. KeyInv(k) /\ Judged(k)
    BY DEF FullInv, WorkInv, KeyInv
  <2>2. Judged(k)'
    BY <2>1, SameJobJudged DEF Still
  <2>. QED
    BY <2>1, <2>2, ProgressKeeps DEF StoreMoves
<1>3. ASSUME NEW u \in Token PROVE TokenInv(u)'
  <2>1. CASE u = t
    BY <2>1
  <2>2. CASE u # t
    <3>1. inv'[u] = inv[u] /\ wire'[u] = wire[u]
      BY <2>2 DEF Progress, service
    <3>2. ServiceMoves
      BY DEF ServiceMoves, BoundElsewhere, service
    <3>3. MayHavePosted(u)' <=> MayHavePosted(u)
      BY <3>1 DEF MayHavePosted
    <3>. QED
      BY <3>1, <3>2, <3>3, TokenStays DEF FullInv, WorkInv
  <2>. QED
    BY <2>1, <2>2
<1>. QED
  BY <1>1, <1>2, <1>3 DEF FullInv, WorkInv

(* The invocation goes on; what it learns is true of the service. *)
Onward(t, pc, then, n, e, o) ==
    /\ inv[t].pc \notin {"posted", "done", "crashed"}
    /\ pc \notin {"posted", "done", "crashed"}
    /\ then \in Resumes
    /\ pc \in OnAttempt \/ then \in OnAttempt =>
          n \in AttemptNumbers(inv[t].key) /\ Mine(t)
    /\ \/ e = inv[t].evidence
       \/ e \notin {"processed", "matched", "conflict"}
       \/ e = "matched" /\ accepted[inv[t].key] = 1
       \/ e = "conflict" /\ BoundElsewhere(inv[t].key)
    /\ pc \in {"finalize", "appendLate"} => e \in Concluded
    /\ Unreported(pc, o)
    /\ pc = "wait" => o # "none"

LEMMA SubmittedKnown ==
    ASSUME FullInv, NEW t \in Token, inv[t].pc \notin {"posted", "done", "crashed"}
    PROVE  inv[t].submitted = MayHavePosted(t)
BY DEF FullInv, WorkInv, TokenInv, Honest

LEMMA TokenMoves ==
    ASSUME FullInv, NEW t \in Token, StoreInv', StoreMoves, ServiceMoves, wire'[t] = wire[t],
           NEW pc, NEW then, NEW n, NEW e, NEW o,
           Now(t, pc, then, n, e, inv[t].submitted, o), Onward(t, pc, then, n, e, o)
    PROVE  TokenInv(t)'
<1>0. inv[t].key \in Key /\ WorkTypeOK /\ TokenInv(t)
  BY DEF FullInv, WorkInv, WorkTypeOK, Invocation
<1>1. Truth(t)'
  BY <1>0 DEF TokenInv, Truth, ServiceMoves, Now, Onward
<1>2. Mine(t) => Mine(t)'
  BY <1>0, MineStays DEF StoreMoves, Now
<1>3. n \in AttemptNumbers(inv[t].key) => n \in 1 .. Len(attempts'[inv[t].key])
  <2>1. \A k \in Key : \A m \in AttemptNumbers(k) : m \in AttemptNumbers(k)'
    BY NumbersStay DEF FullInv
  <2>. QED
    BY <1>0, <2>1 DEF AttemptNumbers
<1>4. Routed(t)'
  <2>1. /\ then \in Resumes
        /\ pc \in OnAttempt \/ then \in OnAttempt =>
              n \in 1 .. Len(attempts'[inv[t].key]) /\ Mine(t)'
    BY <1>2, <1>3 DEF Onward
  <2>2. wire'[t] # "none" => Mine(t)'
    BY <1>0, <1>2 DEF TokenInv, Routed
  <2>3. /\ pc # "posted" /\ (e = "processed" => wire'[t] # "none")
        /\ pc \in {"finalize", "appendLate"} => e \in Concluded
    BY <1>0 DEF Onward, TokenInv, Routed
  <2>. QED
    BY <2>1, <2>2, <2>3 DEF Routed, Now, AttemptNumbers
<1>5. Honest(t)'
  <2>1. inv'[t].submitted = MayHavePosted(t)'
    BY SubmittedKnown DEF Onward, Now, MayHavePosted
  <2>2. inv'[t].pc # "done"
    BY DEF Now, Onward
  <2>. QED
    BY <2>1, <2>2 DEF Honest
<1>6. Reported(t)'
  BY DEF Reported, OutcomeHolds, Now, Onward, Unreported, FinalReport
<1>. QED
  BY <1>1, <1>4, <1>5, <1>6 DEF TokenInv

(* It ends with a report, or without one. *)
LEMMA TokenEnds ==
    ASSUME FullInv, NEW t \in Token, StoreInv', StoreMoves, wire'[t] = wire[t],
           NEW s, NEW o, Now(t, "done", "authorize", 0, "none", s, o),
           o # "already_completed" => s = MayHavePosted(t),
           OutcomeHolds(t)'
    PROVE  TokenInv(t)'
<1>0. WorkTypeOK /\ TokenInv(t)
  BY DEF FullInv, WorkInv
<1>1. Truth(t)'
  BY DEF Truth, Now
<1>2. Mine(t) => Mine(t)'
  BY <1>0, MineStays DEF StoreMoves, Now
<1>3. Routed(t)'
  BY <1>0, <1>2 DEF TokenInv, Routed, Now, Resumes, OnAttempt, Dispatching, Early
<1>4. Honest(t)'
  BY DEF Honest, Now, MayHavePosted
<1>5. Reported(t)'
  BY DEF Reported, Now
<1>. QED
  BY <1>1, <1>3, <1>4, <1>5 DEF TokenInv

LEMMA TokenVanishes ==
    ASSUME FullInv, NEW t \in Token, StoreInv', StoreMoves, wire'[t] = wire[t], Vanish(t)
    PROVE  TokenInv(t)' /\ inv' \in [Token -> Invocation] /\ Progress(t)
<1>0. WorkTypeOK /\ TokenInv(t)
  BY DEF FullInv, WorkInv
<1>1. Now(t, "crashed", "authorize", 0, "none", FALSE, "none")
  BY <1>0, VanishNow
<1>2. Truth(t)'
  BY <1>1 DEF Truth, Now
<1>3. Mine(t) => Mine(t)'
  BY <1>0, <1>1, MineStays DEF StoreMoves, Now
<1>4. Routed(t)'
  BY <1>0, <1>1, <1>3 DEF TokenInv, Routed, Now, Resumes, OnAttempt, Dispatching, Early
<1>5. Honest(t)'
  BY <1>1 DEF Honest, Now
<1>6. Reported(t)'
  BY <1>1 DEF Reported, Now, OutcomeHolds, Unreported, FinalReport
<1>7. Progress(t)
  BY <1>1 DEF Progress, Now, Certain, Dispatching, Early
<1>. QED
  BY <1>1, <1>2, <1>4, <1>5, <1>6, <1>7 DEF TokenInv, Now

-----------------------------------------------------------------------------
(* Transactions that decide nothing *)

QuietStore == StoreInv' /\ StoreMoves /\ \A k \in Key : SameLate(k) /\ Still(k)

LEMMA SameTablesQuiet ==
    ASSUME StoreInv, UNCHANGED <<jobs, attempts, observations>>,
           gate' \in Nat, clock' \in Nat \ {0}
    PROVE  QuietStore
<1>1. observations' \in [Key -> Seq(ObservationRow)]
  BY DEF StoreInv, TypeOK
<1>2. Kinds /\ TypeOK'
  BY <1>1, QuietMoves
<1>3. StoreInv' /\ StoreMoves
  BY <1>2, KindsMove
<1>4. \A k \in Key : SameLate(k) /\ Still(k)
  BY DEF SameLate, Still
<1>. QED
  BY <1>3, <1>4 DEF QuietStore

LEMMA IdleQuiet ==
    ASSUME StoreInv, UNCHANGED storeVars
    PROVE  QuietStore
<1>1. gate' \in Nat /\ clock' \in Nat \ {0} /\ UNCHANGED <<jobs, attempts, observations>>
  BY DEF StoreInv, TypeOK, storeVars
<1>. QED
  BY <1>1, SameTablesQuiet

LEMMA LeaseQuiet ==
    ASSUME StoreInv, NEW k \in Key, NEW n \in AttemptNumbers(k), NEW t \in Token, NEW g \in Nat,
           LeaseChange(k, n, t, g), observations' = observations
    PROVE  QuietStore
<1>1. StoreInv' /\ StoreMoves
  BY LeaseMoves, KindsMove
<1>2. \A l \in Key : Len(attempts'[l]) = Len(attempts[l]) /\ jobs' = jobs
  BY LeaseChangeEffect DEF StoreInv
<1>3. \A l \in Key : SameLate(l) /\ Still(l)
  BY <1>2 DEF SameLate, Still
<1>. QED
  BY <1>1, <1>3 DEF QuietStore

(* The rows of k after one more. *)
LEMMA ObservedRows ==
    ASSUME StoreInv, NEW k \in Key, NEW row, Observe(k, row)
    PROVE  /\ \A l \in Key : l # k => observations'[l] = observations[l]
           /\ \A i \in DOMAIN observations'[k] :
                 \/ i \in DOMAIN observations[k] /\ observations'[k][i] = observations[k][i]
                 \/ observations'[k][i] = row
<1>1. observations \in [Key -> Seq(ObservationRow)] /\ observations[k] \in Seq(ObservationRow)
  BY DEF StoreInv, TypeOK
<1>2. /\ \A l \in Key : l # k => observations'[l] = observations[l]
      /\ observations'[k] = Append(observations[k], row)
  BY <1>1 DEF Observe
<1> DEFINE o == observations[k]
<1>3. Len(o) \in Nat /\ DOMAIN o = 1 .. Len(o)
  BY <1>1
<1>4. /\ DOMAIN Append(o, row) = 1 .. (Len(o) + 1)
      /\ Append(o, row)[Len(o) + 1] = row
      /\ \A i \in 1 .. Len(o) : Append(o, row)[i] = o[i]
  BY <1>1
<1> HIDE DEF o
<1>5. \A i \in DOMAIN Append(o, row) : \/ i \in DOMAIN o /\ Append(o, row)[i] = o[i]
                                       \/ Append(o, row)[i] = row
  BY <1>3, <1>4
<1>. QED
  BY <1>2, <1>5 DEF o

LEMMA ObserveQuiet ==
    ASSUME StoreInv, NEW k \in Key, NEW row \in ObservationRow, ~row.late, Observe(k, row),
           UNCHANGED <<jobs, attempts, gate, clock>>
    PROVE  QuietStore
<1>1. StoreInv' /\ StoreMoves
  BY ObserveMoves, KindsMove
<1>2. ASSUME NEW l \in Key PROVE SameLate(l) /\ Still(l)
  BY ObservedRows DEF SameLate, Still
<1>. QED
  BY <1>1, <1>2 DEF QuietStore

LEMMA DeferQuiet ==
    ASSUME StoreInv, NEW k \in Key, NEW p \in Payload, DeferAttempt(k, p)
    PROVE  QuietStore
<1>1. StoreInv' /\ StoreMoves
  BY DeferMoves, KindsMove
<1>2. /\ attempts' = attempts /\ \A l \in Key : l # k => jobs'[l] = jobs[l]
      /\ jobs'[k] = jobs[k] \/ (jobs[k].state = "ABSENT" /\ jobs'[k].state = "PENDING")
  BY DeferEffect DEF StoreInv, TableInv
<1>3. observations' = observations
  BY DEF DeferAttempt, Defer
<1>4. ASSUME NEW l \in Key PROVE SameLate(l) /\ Still(l)
  BY <1>2, <1>3 DEF SameLate, Still
<1>. QED
  BY <1>1, <1>4 DEF QuietStore

(* Where pc with evidence e is no nearer to a POST than t was. *)
NoNearer(t, pc, e) ==
    /\ pc \in Dispatching => inv[t].pc \in Dispatching
    /\ pc \in Early => Certain(t)
    /\ pc \in {"finalize", "appendLate"} /\ e \in Negative => Certain(t)

LEMMA NowProgress ==
    ASSUME NEW t, NEW pc, NEW then, NEW n, NEW e, NEW s, NEW o, Now(t, pc, then, n, e, s, o),
           NoNearer(t, pc, e)
    PROVE  Progress(t)
BY DEF Progress, Now, NoNearer, Certain

LEMMA QuietMove ==
    ASSUME FullInv, NEW t \in Token, QuietStore, UNCHANGED service,
           NEW pc, NEW then, NEW n, NEW e, NEW o,
           Now(t, pc, then, n, e, inv[t].submitted, o), Onward(t, pc, then, n, e, o),
           NoNearer(t, pc, e)
    PROVE  FullInv'
<1>1. StoreInv' /\ StoreMoves /\ \A k \in Key : SameLate(k) /\ Still(k)
  BY DEF QuietStore
<1>2. ServiceMoves /\ wire'[t] = wire[t]
  BY DEF ServiceMoves, BoundElsewhere, service
<1>3. TokenInv(t)'
  BY <1>1, <1>2, TokenMoves
<1>4. Progress(t)
  BY NowProgress
<1>. QED
  BY <1>1, <1>3, <1>4, StepKeeps DEF Now

LEMMA QuietEnd ==
    ASSUME FullInv, NEW t \in Token, QuietStore, UNCHANGED service,
           NEW s, NEW o, Now(t, "done", "authorize", 0, "none", s, o),
           o # "already_completed" => s = MayHavePosted(t),
           OutcomeHolds(t)'
    PROVE  FullInv'
<1>1. StoreInv' /\ StoreMoves /\ \A k \in Key : SameLate(k) /\ Still(k)
  BY DEF QuietStore
<1>2. wire'[t] = wire[t]
  BY DEF service
<1>3. TokenInv(t)'
  BY <1>1, <1>2, TokenEnds
<1>4. NoNearer(t, "done", "none")
  BY DEF NoNearer, Dispatching, Early
<1>5. Progress(t)
  BY <1>4, NowProgress
<1>. QED
  BY <1>1, <1>3, <1>5, StepKeeps DEF Now

LEMMA QuietVanish ==
    ASSUME FullInv, NEW t \in Token, QuietStore, UNCHANGED service, Vanish(t)
    PROVE  FullInv'
<1>1. StoreInv' /\ StoreMoves /\ \A k \in Key : SameLate(k) /\ Still(k)
  BY DEF QuietStore
<1>2. wire'[t] = wire[t]
  BY DEF service
<1>3. TokenInv(t)' /\ inv' \in [Token -> Invocation] /\ Progress(t)
  BY <1>1, <1>2, TokenVanishes
<1>. QED
  BY <1>1, <1>3, StepKeeps

-----------------------------------------------------------------------------
(* The authorization loop *)

LEMMA Known ==
    ASSUME FullInv, NEW t \in Token
    PROVE  /\ StoreInv /\ WorkTypeOK /\ TypeOK /\ JobMatchesAttempts
           /\ inv[t] \in Invocation /\ TokenInv(t)
           /\ inv[t].key \in Key /\ inv[t].payload \in Payload
           /\ inv[t].n \in Nat /\ inv[t].gen \in Nat
           /\ KeyInv(inv[t].key)
           /\ clock \in Nat \ {0}
BY DEF FullInv, WorkInv, WorkTypeOK, StoreInv, TableInv, TypeOK, Invocation

LEMMA KnownSleep ==
    ASSUME FullInv, NEW t \in Token
    PROVE  /\ inv[t].until \in Nat /\ inv[t].slept \in Nat /\ inv[t].delay \in Nat
           /\ inv[t].notBefore \in Nat /\ inv[t].gets \in Nat
           /\ inv[t].then \in Resumes /\ inv[t].evidence \in Evidence
BY DEF FullInv, WorkInv, WorkTypeOK, Invocation, TokenInv, Routed

(* An invocation on an attempt knows it, and that the job is its own. *)
LEMMA AttemptKnown ==
    ASSUME FullInv, NEW t \in Token, inv[t].pc \in OnAttempt \/ inv[t].then \in OnAttempt
    PROVE  inv[t].n \in AttemptNumbers(inv[t].key) /\ Mine(t)
BY DEF FullInv, WorkInv, TokenInv, Routed

LEMMA SleepNow ==
    ASSUME WorkTypeOK, NEW t \in Token, NEW i \in Invocation,
           i.key = inv[t].key, i.payload = inv[t].payload,
           NEW d \in Nat, NEW then \in Pc, Become(t, Sleeping(i, d, then))
    PROVE  Now(t, "sleep", then, i.n, i.evidence, i.submitted, i.outcome)
<1> DEFINE u == clock + d
           w == i.slept + d
           r == [i EXCEPT !.pc = "sleep", !.until = u, !.then = then, !.slept = w]
<1>1. u \in Nat /\ w \in Nat /\ "sleep" \in Pc
  <2>1. clock \in Nat
    BY DEF WorkTypeOK, TypeOK
  <2>2. i.slept \in Nat
    BY DEF Invocation
  <2>3. "sleep" \in Pc
    BY DEF Pc
  <2>. QED
    BY <2>1, <2>2, <2>3
<1>a. Sleeping(i, d, then) = r
  BY Zenon DEF Sleeping
<1> HIDE DEF u, w, r
<1>0. Become(t, r)
  BY <1>a
<1> USE DEF r
<1>2. /\ r \in Invocation /\ r.key = i.key /\ r.payload = i.payload
      /\ r.pc = "sleep" /\ r.then = then /\ r.n = i.n /\ r.evidence = i.evidence
      /\ r.outcome = i.outcome
  BY <1>1 DEF Invocation
<1>3. r.submitted = i.submitted
  BY <1>1 DEF Invocation
<1> HIDE DEF r
<1>4. Now(t, r.pc, r.then, r.n, r.evidence, r.submitted, r.outcome)
  BY <1>0, <1>2, BecomeNow
<1>. QED
  BY <1>2, <1>3, <1>4

(* A report that leaves the tables as they are. *)
LEMMA ReportAtOnce ==
    ASSUME FullInv, NEW t \in Token, UNCHANGED <<storeVars, service>>,
           NEW o \in Outcome, EndAs(t, o), inv[t].pc \notin {"posted", "done", "crashed"},
           o \notin FinalReport \cup {"idempotency_conflict"}
    PROVE  FullInv'
<1>1. WorkTypeOK /\ StoreInv
  BY DEF FullInv
<1>2. Now(t, "done", "authorize", 0, "none", inv[t].submitted, o)
  BY <1>1, EndAsNow
<1>3. QuietStore
  BY <1>1, IdleQuiet
<1>4. inv[t].submitted = MayHavePosted(t)
  BY SubmittedKnown
<1>5. OutcomeHolds(t)'
  BY <1>2 DEF OutcomeHolds, Now
<1>. QED
  BY <1>2, <1>3, <1>4, <1>5, QuietEnd

LEMMA RefusedKeeps ==
    ASSUME FullInv, NEW t \in Token, At(t, "authorize"), Refused(t), UNCHANGED service
    PROVE  FullInv'
<1>1. WorkTypeOK /\ StoreInv /\ TokenInv(t) /\ inv[t].key \in Key
  BY Known
<1>2. "idempotency_conflict" \in Outcome /\ FALSE \in BOOLEAN
  BY DEF Outcome
<1>3. Now(t, "done", "authorize", 0, "none", FALSE, "idempotency_conflict")
  BY <1>1, <1>2, EndNow DEF Refused
<1>4. QuietStore
  BY <1>1, IdleQuiet DEF Refused
<1>5. ~Mine(t) /\ UNCHANGED jobs
  BY DEF Refused, Mine, storeVars
<1>6. wire[t] = "none"
  BY <1>1, <1>5 DEF TokenInv, Routed
<1>7. OutcomeHolds(t)'
  BY <1>3, <1>5 DEF OutcomeHolds, Now, FinalReport, Refused
<1>. QED
  BY <1>3, <1>4, <1>6, <1>7, QuietEnd DEF MayHavePosted

(* What the stored job is reported as. *)
LEMMA RenderedOutcome ==
    ASSUME NEW job, NEW attempt
    PROVE  /\ Render(job, attempt) \in {"succeeded", "failed_permanent", "ambiguous",
                                        "retry_exhausted", "retry_scheduled"}
           /\ Render(job, attempt) \in Outcome
BY DEF Render, Outcome

LEMMA SettledKeeps ==
    ASSUME FullInv, NEW t \in Token, At(t, "authorize"), Settled(t), UNCHANGED service
    PROVE  FullInv'
<1> DEFINE k == inv[t].key
           o == IF jobs[k].state = "SUCCEEDED" THEN "already_completed"
                                               ELSE Render(jobs[k], Latest(k))
           s == IF jobs[k].state = "SUCCEEDED" THEN FALSE ELSE inv[t].submitted
<1>1. WorkTypeOK /\ StoreInv /\ TypeOK /\ JobMatchesAttempts /\ inv[t] \in Invocation /\ k \in Key
  BY Known
<1>2. o \in Outcome /\ s \in BOOLEAN
  <2>1. o \in Outcome
    BY RenderedOutcome DEF Outcome
  <2>2. inv[t].submitted \in BOOLEAN
    BY <1>1 DEF Invocation
  <2>. QED
    BY <2>1, <2>2
<1>3. End(t, o, s)
  BY DEF Settled, EndAs
<1>4. Now(t, "done", "authorize", 0, "none", s, o)
  <2> HIDE DEF o, s
  <2>. QED
    BY <1>1, <1>2, <1>3, EndNow
<1>5. QuietStore
  BY <1>1, IdleQuiet DEF Settled
<1>6. o # "already_completed" => s = MayHavePosted(t)
  BY SubmittedKnown DEF At
<1>7. jobs[k].state = "SUCCEEDED" => Latest(k).state = "SUCCEEDED"
  <2>1. jobs[k].state = "SUCCEEDED" => Len(attempts[k]) > 0
    BY <1>1, LatestTyped
  <2>2. Len(attempts[k]) > 0 => <<jobs[k].state, Latest(k).state>> \in Agreement
    BY <1>1 DEF JobMatchesAttempts
  <2>. QED
    BY <2>1, <2>2 DEF Agreement
<1>8. /\ jobs[k].payload = inv[t].payload /\ jobs[k].state \in Terminal
      /\ UNCHANGED <<jobs, attempts>>
  BY DEF Settled, storeVars
<1>9. Render(jobs[k], Latest(k)) = IF o = "already_completed" THEN "succeeded" ELSE o
  <2>1. CASE jobs[k].state = "SUCCEEDED"
    BY <1>7, <2>1 DEF Render
  <2>2. CASE jobs[k].state # "SUCCEEDED"
    BY <2>2, RenderedOutcome
  <2>. QED
    BY <2>1, <2>2
<1>10. o # "idempotency_conflict"
  BY RenderedOutcome
<1> HIDE DEF o, s
<1>11. Latest(k)' = Latest(k)
  BY <1>4, <1>8 DEF Latest, Now
<1>12. OutcomeHolds(t)'
  BY <1>4, <1>8, <1>9, <1>10, <1>11 DEF OutcomeHolds, Now
<1>. QED
  BY <1>4, <1>5, <1>6, <1>12, QuietEnd

LEMMA InProgressKeeps ==
    ASSUME FullInv, NEW t \in Token, At(t, "authorize"), InProgress(t), UNCHANGED service
    PROVE  FullInv'
<1>1. EndAs(t, "job_in_progress") /\ UNCHANGED storeVars
  BY DEF InProgress
<1>2. "job_in_progress" \in Outcome \ (FinalReport \cup {"idempotency_conflict"})
  BY DEF Outcome, FinalReport
<1>. QED
  BY <1>1, <1>2, ReportAtOnce DEF At

(* Where a coroutine can be resumed. *)
LEMMA PcTyped ==
    /\ {"authorize", "wait", "sleep", "claim", "renew", "post", "posted", "finalize",
        "appendLate", "late", "reconcile", "reconWait", "reconRenew", "get", "observe",
        "advanceGate", "backoff", "lastLate", "record", "appendLateGet", "done",
        "crashed"} = Pc
    /\ Resumes \subseteq Pc
BY DEF Pc, Resumes

LEMMA ExpiredKeeps ==
    ASSUME FullInv, NEW t \in Token, At(t, "authorize"), Expired(t), UNCHANGED service
    PROVE  FullInv'
<1> DEFINE i == inv[t]
           L == Len(attempts[i.key])
           latest == Latest(i.key)
           r == [i EXCEPT !.n = L, !.gen = latest.generation,
                          !.seenOwner = latest.owner, !.seenLease = latest.lease]
<1>1. /\ WorkTypeOK /\ StoreInv /\ TypeOK /\ JobMatchesAttempts /\ i \in Invocation
      /\ i.key \in Key
  BY Known
<1>2. jobs[i.key].state = "SUBMITTING" /\ jobs[i.key].payload = i.payload
  BY DEF Expired
<1>3. L \in AttemptNumbers(i.key) /\ L \in Nat /\ latest = attempts[i.key][L]
  BY <1>1, <1>2, LatestTyped
<1>4. latest \in AttemptRow
  BY <1>1, <1>3, AttemptTyped
<1>5. latest.generation \in Nat /\ latest.owner \in Token \cup {NoToken} /\ latest.lease \in Nat
  BY <1>4 DEF AttemptRow
<1>6. Become(t, Sleeping(r, Quarantine, "claim")) /\ UNCHANGED storeVars
  BY DEF Expired
<1> HIDE DEF latest, L
<1>7. /\ r \in Invocation /\ r.key = i.key /\ r.payload = i.payload /\ r.n = L
      /\ r.evidence = i.evidence /\ r.outcome = i.outcome
  BY <1>1, <1>3, <1>5 DEF Invocation
<1>8. r.submitted = i.submitted
  BY <1>1, <1>3, <1>5 DEF Invocation
<1> HIDE DEF r
<1>9. Quarantine \in Nat /\ "claim" \in Pc
  BY WaitAssumption, PcTyped
<1>10. Now(t, "sleep", "claim", L, i.evidence, i.submitted, i.outcome)
  <2>1. Now(t, "sleep", "claim", r.n, r.evidence, r.submitted, r.outcome)
    BY <1>1, <1>6, <1>7, <1>9, SleepNow
  <2>. QED
    BY <1>7, <1>8, <2>1
<1>11. Unreported("authorize", i.outcome)
  BY <1>1, Known DEF At, TokenInv, Reported
<1>12. Onward(t, "sleep", "claim", L, i.evidence, i.outcome)
  BY <1>2, <1>3, <1>11 DEF At, Onward, Mine, Unreported, Resumes
<1>13. NoNearer(t, "sleep", i.evidence)
  BY DEF NoNearer, Dispatching, Early
<1>14. QuietStore
  BY <1>1, <1>6, IdleQuiet
<1>. QED
  BY <1>10, <1>12, <1>13, <1>14, QuietMove

LEMMA DeferredKeeps ==
    ASSUME FullInv, NEW t \in Token, At(t, "authorize"), Deferred(t), UNCHANGED service
    PROVE  FullInv'
<1> DEFINE i == inv[t]
           u == LaterOf(JobEligibleAt(i.key), gate)
           o == IF jobs[i.key].state = "RETRY_SCHEDULED"
                THEN "retry_scheduled" ELSE "submission_deferred"
           r == [i EXCEPT !.pc = "wait", !.until = u, !.outcome = o]
<1>1. /\ WorkTypeOK /\ StoreInv /\ TypeOK /\ JobMatchesAttempts /\ i \in Invocation
      /\ i.key \in Key /\ i.payload \in Payload /\ TokenInv(t)
  BY Known
<1>2. u \in Nat
  <2>1. JobEligibleAt(i.key) \in Nat
    BY <1>1, LatestTyped DEF JobEligibleAt
  <2>2. gate \in Nat
    BY <1>1 DEF TypeOK
  <2>. QED
    BY <2>1, <2>2 DEF LaterOf
<1>3. o \in {"retry_scheduled", "submission_deferred"} /\ o \in Outcome /\ "wait" \in Pc
  BY DEF Outcome, Pc
<1>4. DeferAttempt(i.key, i.payload) /\ Become(t, r)
  BY DEF Deferred
<1> HIDE DEF u, o
<1>5. /\ r \in Invocation /\ r.key = i.key /\ r.payload = i.payload /\ r.pc = "wait"
      /\ r.then = i.then /\ r.n = i.n /\ r.evidence = i.evidence /\ r.outcome = o
  BY <1>1, <1>2, <1>3 DEF Invocation
<1>6. r.submitted = i.submitted
  BY <1>1 DEF Invocation
<1> HIDE DEF r
<1>7. Now(t, "wait", i.then, i.n, i.evidence, i.submitted, o)
  <2>1. Now(t, r.pc, r.then, r.n, r.evidence, r.submitted, r.outcome)
    BY <1>1, <1>4, <1>5, BecomeNow
  <2>. QED
    BY <1>5, <1>6, <2>1
<1>8. i.then \in OnAttempt => i.n \in AttemptNumbers(i.key) /\ Mine(t)
  BY AttemptKnown
<1>9. "wait" \notin OnAttempt
  BY DEF OnAttempt, Dispatching, Early
<1>10. Onward(t, "wait", i.then, i.n, i.evidence, o)
  BY <1>3, <1>8, <1>9, KnownSleep DEF At, Onward, Unreported
<1>11. NoNearer(t, "wait", i.evidence)
  BY DEF NoNearer, Dispatching, Early
<1>12. QuietStore
  BY <1>1, <1>4, DeferQuiet
<1>. QED
  BY <1>7, <1>10, <1>11, <1>12, QuietMove

LEMMA WaitKeeps ==
    ASSUME FullInv, NEW t \in Token, WaitIfItFits(t)
    PROVE  FullInv'
<1> DEFINE i == inv[t]
           d == DelayLeft(i)
           r == [i EXCEPT !.outcome = "none"]
<1>1. /\ WorkTypeOK /\ StoreInv /\ TypeOK /\ i \in Invocation /\ TokenInv(t)
      /\ i.key \in Key /\ i.payload \in Payload /\ clock \in Nat
  BY Known
<1>2. i.outcome \in {"retry_scheduled", "submission_deferred"}
  BY <1>1 DEF TokenInv, Reported, Unreported, WaitIfItFits, At
<1>3. d \in Nat
  BY <1>1, KnownSleep DEF DelayLeft
<1>4. UNCHANGED <<storeVars, service>>
  BY DEF WaitIfItFits
<1>5. CASE EndAs(t, i.outcome)
  <2>1. i.outcome \in Outcome \ (FinalReport \cup {"idempotency_conflict"})
    BY <1>2 DEF FinalReport, Outcome
  <2>. QED
    BY <1>4, <1>5, <2>1, ReportAtOnce DEF WaitIfItFits, At
<1>6. CASE Become(t, Sleeping(r, d, "authorize"))
  <2>1. /\ r \in Invocation /\ r.key = i.key /\ r.payload = i.payload
        /\ r.n = i.n /\ r.evidence = i.evidence /\ r.outcome = "none"
    BY <1>1 DEF Invocation, Outcome
  <2>2. r.submitted = i.submitted
    BY <1>1 DEF Invocation
  <2> HIDE DEF r, d
  <2>3. Now(t, "sleep", "authorize", i.n, i.evidence, i.submitted, "none")
    <3>1. Now(t, "sleep", "authorize", r.n, r.evidence, r.submitted, r.outcome)
      BY <1>1, <1>3, <1>6, <2>1, PcTyped, SleepNow
    <3>. QED
      BY <2>1, <2>2, <3>1
  <2>4. Onward(t, "sleep", "authorize", i.n, i.evidence, "none")
    BY DEF Onward, At, WaitIfItFits, Unreported, Resumes, OnAttempt, Dispatching, Early
  <2>5. NoNearer(t, "sleep", i.evidence)
    BY DEF NoNearer, Dispatching, Early
  <2>6. QuietStore
    BY <1>1, <1>4, IdleQuiet
  <2>. QED
    BY <1>4, <2>3, <2>4, <2>5, <2>6, QuietMove
<1>. QED
  BY <1>5, <1>6 DEF WaitIfItFits

LEMMA WakeKeeps ==
    ASSUME FullInv, NEW t \in Token, Wake(t)
    PROVE  FullInv'
<1> DEFINE i == inv[t]
           r == [i EXCEPT !.pc = i.then, !.then = "authorize", !.until = 0]
<1>1. /\ WorkTypeOK /\ StoreInv /\ TypeOK /\ i \in Invocation /\ TokenInv(t)
      /\ i.key \in Key /\ i.payload \in Payload /\ clock \in Nat \ {0}
  BY Known
<1>2. i.then \in Resumes /\ i.until \in Nat
  BY KnownSleep
<1>3. Become(t, r) /\ UNCHANGED <<jobs, attempts, observations, gate, service>>
  BY DEF Wake
<1>4. clock' \in Nat \ {0} /\ gate' \in Nat
  BY <1>1, <1>2, <1>3 DEF Wake, LaterOf, TypeOK
<1>5. /\ r \in Invocation /\ r.key = i.key /\ r.payload = i.payload /\ r.pc = i.then
      /\ r.then = "authorize" /\ r.n = i.n /\ r.evidence = i.evidence
      /\ r.outcome = i.outcome
  <2>1. i.then \in Pc /\ "authorize" \in Pc
    BY <1>2, PcTyped
  <2>. QED
    BY <1>1, <2>1 DEF Invocation
<1>6. r.submitted = i.submitted
  BY <1>1 DEF Invocation
<1> HIDE DEF r
<1>7. Now(t, i.then, "authorize", i.n, i.evidence, i.submitted, i.outcome)
  <2>1. Now(t, r.pc, r.then, r.n, r.evidence, r.submitted, r.outcome)
    BY <1>1, <1>3, <1>5, BecomeNow
  <2>. QED
    BY <1>5, <1>6, <2>1
<1>8. i.then \in OnAttempt => i.n \in AttemptNumbers(i.key) /\ Mine(t)
  BY AttemptKnown
<1>9. i.outcome = "none"
  BY <1>1 DEF Wake, At, TokenInv, Reported, Unreported
<1>10. Onward(t, i.then, "authorize", i.n, i.evidence, i.outcome)
  BY <1>2, <1>8, <1>9 DEF Wake, At, Onward, Unreported, Resumes, OnAttempt, Dispatching, Early
<1>11. NoNearer(t, i.then, i.evidence)
  BY <1>2 DEF NoNearer, Dispatching, Early, Resumes
<1>12. QuietStore
  BY <1>1, <1>3, <1>4, SameTablesQuiet
<1>. QED
  BY <1>3, <1>7, <1>10, <1>11, <1>12, QuietMove DEF service

(* A step on an attempt that decides nothing. *)
LEMMA OnAttemptKeeps ==
    ASSUME FullInv, NEW t \in Token, QuietStore, UNCHANGED service,
           NEW r \in Invocation, Become(t, r),
           r.key = inv[t].key, r.payload = inv[t].payload, r.n = inv[t].n,
           r.submitted = inv[t].submitted,
           r.outcome = inv[t].outcome, r.then \in Resumes,
           \/ r.evidence = inv[t].evidence
           \/ r.evidence \notin {"processed", "matched", "conflict"}
           \/ r.evidence = "matched" /\ accepted[inv[t].key] = 1
           \/ r.evidence = "conflict" /\ BoundElsewhere(inv[t].key),
           inv[t].pc \in OnAttempt \ {"posted"},
           r.pc \in (OnAttempt \ {"posted"}) \cup {"sleep"},
           r.pc \in {"finalize", "appendLate"} => r.evidence \in Concluded,
           NoNearer(t, r.pc, r.evidence)
    PROVE  FullInv'
<1>1. WorkTypeOK /\ TokenInv(t)
  BY Known
<1>2. inv[t].n \in AttemptNumbers(inv[t].key) /\ Mine(t)
  BY AttemptKnown
<1>3. Now(t, r.pc, r.then, r.n, r.evidence, inv[t].submitted, r.outcome)
  <2>1. Now(t, r.pc, r.then, r.n, r.evidence, r.submitted, r.outcome)
    BY <1>1, BecomeNow
  <2>. QED
    BY <2>1
<1>4. inv[t].outcome = "none"
  BY <1>1 DEF TokenInv, Reported, Unreported, OnAttempt, Dispatching, Early
<1>5. /\ inv[t].pc \notin {"posted", "done", "crashed"}
      /\ r.pc \notin {"posted", "done", "crashed", "wait"}
  BY DEF OnAttempt, Dispatching, Early
<1>6. Onward(t, r.pc, r.then, r.n, r.evidence, r.outcome)
  BY <1>2, <1>4, <1>5 DEF Onward, Unreported
<1>. QED
  BY <1>3, <1>6, QuietMove

LEMMA GotoKeeps ==
    ASSUME FullInv, NEW t \in Token, QuietStore, UNCHANGED service,
           NEW pc \in Pc, Goto(t, pc),
           inv[t].pc \in OnAttempt \ {"posted"}, pc \in OnAttempt \ {"posted"},
           pc \in {"finalize", "appendLate"} => inv[t].evidence \in Concluded,
           NoNearer(t, pc, inv[t].evidence)
    PROVE  FullInv'
<1> DEFINE r == [inv[t] EXCEPT !.pc = pc]
<1>1. inv[t] \in Invocation
  BY Known
<1>2. Become(t, r)
  BY DEF Goto
<1>3. /\ r \in Invocation /\ r.key = inv[t].key /\ r.payload = inv[t].payload
      /\ r.pc = pc /\ r.then = inv[t].then /\ r.n = inv[t].n
      /\ r.evidence = inv[t].evidence /\ r.outcome = inv[t].outcome
  BY <1>1 DEF Invocation
<1>4. r.submitted = inv[t].submitted
  BY <1>1 DEF Invocation
<1>5. inv[t].then \in Resumes
  BY KnownSleep
<1> HIDE DEF r
<1>. QED
  BY <1>2, <1>3, <1>4, <1>5, OnAttemptKeeps

(* The owner renews its lease. *)
LEMMA RenewQuiet ==
    ASSUME FullInv, NEW t \in Token,
           Owns(inv[t].key, inv[t].n, t, inv[t].gen),
           SetLease(inv[t].key, inv[t].n, t, inv[t].gen),
           UNCHANGED <<jobs, observations, gate, clock>>
    PROVE  QuietStore
<1> DEFINE k == inv[t].key
           n == inv[t].n
           g == inv[t].gen
<1>1. StoreInv /\ k \in Key /\ g \in Nat
  BY Known
<1>2. n \in AttemptNumbers(k) /\ LeaseChange(k, n, t, g)
  BY DEF LeaseChange, Owns
<1> HIDE DEF k, n, g
<1>. QED
  BY <1>1, <1>2, LeaseQuiet

LEMMA ClaimKeeps ==
    ASSUME FullInv, NEW t \in Token, Claim(t)
    PROVE  FullInv'
<1> DEFINE i == inv[t]
<1>1. /\ WorkTypeOK /\ StoreInv /\ TypeOK /\ i \in Invocation /\ TokenInv(t)
      /\ i.key \in Key /\ i.payload \in Payload /\ i.gen \in Nat /\ i.n \in Nat
  BY Known
<1>2. UNCHANGED service /\ i.pc = "claim"
  BY DEF Claim, At
<1>3. CASE /\ ClaimExpiredAttempt(i.key, i.n, i.seenOwner, i.gen, i.seenLease, t)
           /\ Become(t, [i EXCEPT !.pc = "late", !.gen = @ + 1,
                                  !.seenOwner = NoToken, !.seenLease = 0])
  <2> DEFINE g == i.gen + 1
             r == [i EXCEPT !.pc = "late", !.gen = g, !.seenOwner = NoToken, !.seenLease = 0]
  <2>1. g \in Nat /\ Become(t, r)
    BY <1>1, <1>3
  <2>2. i.n \in AttemptNumbers(i.key) /\ LeaseChange(i.key, i.n, t, g)
    BY <1>3 DEF ClaimExpiredAttempt, Claimable, LeaseChange
  <2>3. observations' = observations
    BY <1>3 DEF ClaimExpiredAttempt
  <2> HIDE DEF g
  <2>4. QuietStore
    BY <1>1, <2>1, <2>2, <2>3, LeaseQuiet
  <2>5. /\ r \in Invocation /\ r.key = i.key /\ r.payload = i.payload /\ r.pc = "late"
        /\ r.then = i.then /\ r.n = i.n /\ r.evidence = i.evidence /\ r.outcome = i.outcome
    BY <1>1, <2>1, PcTyped DEF Invocation
  <2>6. r.submitted = i.submitted
    BY <1>1 DEF Invocation
  <2>7. NoNearer(t, "late", i.evidence) /\ "late" \in OnAttempt /\ "claim" \in OnAttempt
    BY DEF NoNearer, OnAttempt, Dispatching, Early
  <2> HIDE DEF r
  <2>. QED
    BY <1>2, <2>1, <2>4, <2>5, <2>6, <2>7, KnownSleep, OnAttemptKeeps
<1>4. CASE /\ Become(t, [Started(i.key, i.payload) EXCEPT !.slept = i.slept,
                                                          !.submitted = i.submitted])
           /\ UNCHANGED storeVars
  <2> DEFINE b == Started(i.key, i.payload)
             r == [b EXCEPT !.slept = i.slept, !.submitted = i.submitted]
  <2>1. /\ b \in Invocation /\ b.key = i.key /\ b.payload = i.payload
        /\ b.pc = "authorize" /\ b.then = "authorize" /\ b.n = 0 /\ b.evidence = "none"
        /\ b.outcome = "none"
    BY <1>1, StartedFields
  <2>2. i.slept \in Nat
    BY KnownSleep
  <2>3. i.submitted \in BOOLEAN
    BY <1>1 DEF Invocation
  <2>4. Become(t, r)
    BY <1>4
  <2> HIDE DEF b
  <2>5. /\ r \in Invocation /\ r.key = i.key /\ r.payload = i.payload
        /\ r.pc = "authorize" /\ r.then = "authorize" /\ r.n = 0 /\ r.evidence = "none"
        /\ r.outcome = "none"
    BY <2>1, <2>2, <2>3 DEF Invocation
  <2>6. r.submitted = i.submitted
    BY <2>1 DEF Invocation
  <2> HIDE DEF r
  <2>7. Now(t, "authorize", "authorize", 0, "none", i.submitted, "none")
    <3>1. Now(t, r.pc, r.then, r.n, r.evidence, r.submitted, r.outcome)
      BY <1>1, <2>4, <2>5, BecomeNow
    <3>. QED
      BY <2>5, <2>6, <3>1
  <2>8. Onward(t, "authorize", "authorize", 0, "none", "none")
    BY <1>2 DEF Onward, Unreported, Resumes, OnAttempt, Dispatching, Early
  <2>9. NoNearer(t, "authorize", "none")
    BY DEF NoNearer, Dispatching, Early
  <2>10. QuietStore
    BY <1>1, <1>4, IdleQuiet
  <2>. QED
    BY <1>2, <2>7, <2>8, <2>9, <2>10, QuietMove
<1>. QED
  BY <1>3, <1>4 DEF Claim

LEMMA RenewKeeps ==
    ASSUME FullInv, NEW t \in Token, Renew(t)
    PROVE  FullInv'
<1>1. QuietStore
  BY RenewQuiet DEF Renew, RenewLease
<1>2. NoNearer(t, "post", inv[t].evidence)
  BY DEF NoNearer, Dispatching, Early, Certain, Renew, At
<1>3. "post" \in Pc /\ {"renew", "post"} \subseteq OnAttempt \ {"posted"}
  BY PcTyped DEF OnAttempt, Dispatching, Early
<1>. QED
  BY <1>1, <1>2, <1>3, GotoKeeps DEF Renew, At

-----------------------------------------------------------------------------
(* POSTs: a step of t that touches only what concerns its own key *)

OnlyMine(t) ==
    /\ \A u \in Token : u # t => inv'[u] = inv[u] /\ wire'[u] = wire[u]
    /\ inv'[t].key = inv[t].key
    /\ \A k \in Key : k # inv[t].key =>
          /\ remote'[k] = remote[k] /\ accepted'[k] = accepted[k]
          /\ jobs'[k] = jobs[k] /\ attempts'[k] = attempts[k]
          /\ observations'[k] = observations[k]

LEMMA OthersKeep ==
    ASSUME NEW t \in Token, OnlyMine(t), NEW k \in Key, k # inv[t].key, KeyInv(k)
    PROVE  KeyInv(k)'
<1>1. \A u \in Token : inv'[u].key = inv[u].key
  BY DEF OnlyMine
<1>2. \A u \in Token : inv[u].key = k => inv'[u] = inv[u] /\ wire'[u] = wire[u]
  BY DEF OnlyMine
<1>3. /\ \A u \in Token : InFlight(k, u)' <=> InFlight(k, u)
      /\ \A u \in Token : Dispatcher(k, u)' <=> Dispatcher(k, u)
  BY <1>1, <1>2 DEF InFlight, Dispatcher
<1>4. /\ remote'[k] = remote[k] /\ accepted'[k] = accepted[k]
      /\ jobs'[k] = jobs[k] /\ attempts'[k] = attempts[k]
      /\ observations'[k] = observations[k]
  BY DEF OnlyMine
<1>5. Unsent(k)' <=> Unsent(k)
  BY <1>3, <1>4 DEF Unsent
<1>6. Silent(k)' <=> Silent(k)
  BY <1>3, <1>5 DEF Silent
<1>7. \A u \in Token : inv[u].key = k => (Certain(u)' <=> Certain(u))
  BY <1>2 DEF Certain
<1>8. OnePost(k)'
  BY <1>1, <1>3, <1>4, <1>5, <1>7 DEF KeyInv, OnePost
<1>9. ServiceAgrees(k)' /\ Judged(k)'
  BY <1>4, <1>6 DEF KeyInv, ServiceAgrees, Judged, BoundElsewhere
<1>10. LateRows(k)'
  BY <1>4, <1>6 DEF KeyInv, LateRows, LateRow, AttemptNumbers
<1>. QED
  BY <1>8, <1>9, <1>10 DEF KeyInv

(* The rest of the invariant after such a step. *)
LEMMA OnlyMineKeeps ==
    ASSUME FullInv, NEW t \in Token, OnlyMine(t), ServiceMoves, StoreInv', StoreMoves,
           inv' \in [Token -> Invocation],
           wire' \in [Token -> {"none", "sent", "arrived"}],
           remote' \in [Key -> Payload \cup {NoPayload, ForeignPayload}],
           accepted' \in [Key -> Nat],
           KeyInv(inv[t].key)', TokenInv(t)'
    PROVE  FullInv'
<1>1. StoreInv /\ WorkTypeOK /\ inv[t].key \in Key
  BY Known
<1>4. WorkTypeOK'
  BY DEF WorkTypeOK, StoreInv
<1>5. ASSUME NEW k \in Key PROVE KeyInv(k)'
  <2>1. KeyInv(k)
    BY DEF FullInv, WorkInv
  <2>2. CASE k # inv[t].key
    BY <2>1, <2>2, OthersKeep
  <2>3. CASE k = inv[t].key
    <3>1. inv'[t].key = inv[t].key
      BY DEF OnlyMine
    <3>2. KeyInv(inv[t].key)'
      OBVIOUS
    <3>. QED
      BY <2>3, <3>1, <3>2
  <2>. QED
    BY <2>2, <2>3
<1>6. ASSUME NEW u \in Token PROVE TokenInv(u)'
  <2>1. CASE u # t
    <3>1. inv'[u] = inv[u] /\ wire'[u] = wire[u]
      BY <2>1 DEF OnlyMine
    <3>2. MayHavePosted(u)' <=> MayHavePosted(u)
      BY <3>1 DEF MayHavePosted
    <3>. QED
      BY <1>1, <3>1, <3>2, TokenStays DEF FullInv, WorkInv
  <2>2. CASE u = t
    BY <2>2
  <2>. QED
    BY <2>1, <2>2
<1>. QED
  BY <1>4, <1>5, <1>6 DEF FullInv, WorkInv

(* A POST was begun and is over for its sender: what it may have heard. *)
LEMMA TokenHears ==
    ASSUME FullInv, NEW t \in Token, inv[t].pc = "posted", wire[t] = "sent",
           StoreInv', StoreMoves, ServiceMoves, wire'[t] # "none",
           NEW e \in Heard,
           Observed(t, e), e = "processed" => accepted'[inv[t].key] = 1
    PROVE  TokenInv(t)'
<1>0. /\ WorkTypeOK /\ TokenInv(t) /\ inv[t].then \in Resumes
      /\ inv[t].key \in Key /\ inv[t].submitted \in BOOLEAN
  BY Known, KnownSleep DEF Invocation
<1>e. /\ e \in Evidence /\ e \in Concluded
      /\ e \notin {"transport_not_sent", "matched", "conflict"}
  BY EvidenceTyped DEF Concluded
<1>1. Now(t, "finalize", inv[t].then, inv[t].n, e, TRUE, inv[t].outcome)
  <2>1. Now(t, "finalize", inv[t].then, inv[t].n, e,
            (inv[t].submitted \/ e # "transport_not_sent"), inv[t].outcome)
    BY <1>0, <1>e, ObservedNow
  <2>2. (inv[t].submitted \/ e # "transport_not_sent") = TRUE
    BY <1>0, <1>e
  <2>. QED
    BY <2>1, <2>2
<1>2. Truth(t)'
  BY <1>1, <1>e DEF Truth, Now
<1>3. inv[t].n \in AttemptNumbers(inv[t].key) /\ Mine(t)
  BY AttemptKnown DEF OnAttempt, Dispatching
<1>4. Mine(t)'
  BY <1>0, <1>1, <1>3, MineStays DEF StoreMoves, Now
<1>5. inv[t].n \in 1 .. Len(attempts'[inv[t].key])
  BY <1>0, <1>3, NumbersStay DEF FullInv, AttemptNumbers
<1>6. Routed(t)'
  BY <1>0, <1>1, <1>e, <1>4, <1>5 DEF Routed, Now, AttemptNumbers
<1>7. Honest(t)'
  <2>1. inv'[t].submitted = TRUE /\ MayHavePosted(t)' = TRUE
    BY <1>1 DEF Now, MayHavePosted
  <2>. QED
    BY <2>1 DEF Honest
<1>8. inv[t].outcome = "none"
  BY <1>0 DEF TokenInv, Reported, Unreported
<1>9. Reported(t)'
  BY <1>1, <1>8 DEF Reported, OutcomeHolds, Now, Unreported, FinalReport
<1>. QED
  BY <1>2, <1>6, <1>7, <1>9 DEF TokenInv

LEMMA DeadlineKeeps ==
    ASSUME FullInv, NEW t \in Token, Deadline(t)
    PROVE  FullInv'
<1>1. /\ WorkTypeOK /\ StoreInv /\ TokenInv(t) /\ inv[t].pc = "posted"
      /\ UNCHANGED <<storeVars, service>> /\ Observed(t, "uncertain")
  BY Known DEF Deadline, At
<1>2. wire[t] = "sent" /\ wire' = wire
  BY <1>1 DEF TokenInv, Routed, service
<1>3. QuietStore
  BY <1>1, IdleQuiet
<1>4. StoreInv' /\ StoreMoves /\ \A k \in Key : SameLate(k) /\ Still(k)
  BY <1>3 DEF QuietStore
<1>5. ServiceMoves
  BY <1>1 DEF ServiceMoves, BoundElsewhere, service
<1>6. TokenInv(t)'
  <2>1. "uncertain" \in Heard
    BY DEF Heard
  <2>. QED
    BY <1>1, <1>2, <1>4, <1>5, <2>1, TokenHears
<1>7. Now(t, "finalize", inv[t].then, inv[t].n, "uncertain",
          (inv[t].submitted \/ "uncertain" # "transport_not_sent"), inv[t].outcome)
  BY <1>1, ObservedNow, EvidenceTyped
<1>8. NoNearer(t, "finalize", "uncertain")
  BY <1>1 DEF NoNearer, Dispatching, Early, Negative
<1>9. Progress(t) /\ inv' \in [Token -> Invocation]
  <2>1. Progress(t)
    BY <1>7, <1>8, NowProgress
  <2>. QED
    BY <1>7, <2>1 DEF Now
<1>. QED
  BY <1>1, <1>4, <1>6, <1>9, StepKeeps

(* The connection never formed. *)
LEMMA NotSentKeeps ==
    ASSUME FullInv, NEW t \in Token, At(t, "post"), Observed(t, "transport_not_sent"),
           UNCHANGED <<storeVars, service>>
    PROVE  FullInv'
<1>1. /\ WorkTypeOK /\ StoreInv /\ TokenInv(t) /\ inv[t] \in Invocation
      /\ inv[t].pc = "post" /\ inv[t].then \in Resumes
  BY Known, KnownSleep DEF At
<1>2. Now(t, "finalize", inv[t].then, inv[t].n, "transport_not_sent", inv[t].submitted,
          inv[t].outcome)
  <2>1. Now(t, "finalize", inv[t].then, inv[t].n, "transport_not_sent",
            (inv[t].submitted \/ "transport_not_sent" # "transport_not_sent"),
            inv[t].outcome)
    BY <1>1, ObservedNow, EvidenceTyped
  <2>2. inv[t].submitted \in BOOLEAN
    BY <1>1 DEF Invocation
  <2>3. (inv[t].submitted \/ "transport_not_sent" # "transport_not_sent") = inv[t].submitted
    BY <2>2
  <2>. QED
    BY <2>1, <2>3
<1>3. inv[t].n \in AttemptNumbers(inv[t].key) /\ Mine(t)
  BY <1>1, AttemptKnown DEF OnAttempt, Dispatching, Early
<1>4. inv[t].outcome = "none"
  BY <1>1 DEF TokenInv, Reported, Unreported
<1>5. Onward(t, "finalize", inv[t].then, inv[t].n, "transport_not_sent", inv[t].outcome)
  BY <1>1, <1>3, <1>4 DEF Onward, Unreported, Concluded
<1>6. NoNearer(t, "finalize", "transport_not_sent")
  BY <1>1 DEF NoNearer, Dispatching, Early, Certain
<1>7. QuietStore
  BY <1>1, IdleQuiet
<1>. QED
  BY <1>2, <1>5, <1>6, <1>7, QuietMove

(* A POST begins: none was on its way and none had an effect. *)
LEMMA SentKeeps ==
    ASSUME FullInv, NEW t \in Token, At(t, "post"), Goto(t, "posted"),
           wire' = [wire EXCEPT ![t] = "sent"], UNCHANGED <<storeVars, remote, accepted>>
    PROVE  FullInv'
<1> DEFINE i == inv[t]
           k == inv[t].key
<1>1. /\ WorkTypeOK /\ StoreInv /\ TokenInv(t) /\ i \in Invocation /\ k \in Key
      /\ i.pc = "post" /\ i.then \in Resumes /\ KeyInv(k)
  BY Known, KnownSleep DEF At
<1>2. Now(t, "posted", i.then, i.n, i.evidence, i.submitted, i.outcome)
  BY <1>1, GotoNow, PcTyped
<1>3. wire \in [Token -> {"none", "sent", "arrived"}]
  BY <1>1 DEF WorkTypeOK
<1>4. wire'[t] = "sent" /\ \A u \in Token : u # t => wire'[u] = wire[u]
  BY <1>3
<1>5. OnlyMine(t) /\ ServiceMoves
  BY <1>2, <1>4 DEF OnlyMine, Now, ServiceMoves, BoundElsewhere, storeVars
<1>6. Dispatcher(k, t) /\ Unsent(k)
  BY <1>1 DEF Dispatcher, Dispatching, Early, KeyInv, OnePost, Certain
<1>7. ~Silent(k) /\ ~Silent(k)'
  BY <1>2, <1>6 DEF Silent, Dispatcher, Now, Dispatching
<1>8. \A u \in Token : inv'[u].key = inv[u].key
  BY <1>2 DEF Now
<1>9. \A u \in Token : InFlight(k, u)' => u = t
  BY <1>4, <1>6, <1>8 DEF InFlight, Unsent
<1>10. \A u \in Token : Dispatcher(k, u)' => u = t
  <2> SUFFICES ASSUME NEW u \in Token, u # t, Dispatcher(k, u)' PROVE FALSE
    OBVIOUS
  <2>1. Dispatcher(k, u)
    BY <1>2 DEF Dispatcher, Now
  <2>. QED
    BY <1>1, <1>6, <2>1 DEF KeyInv, OnePost
<1>11. \A u \in Token : inv'[u].key = k => ~Certain(u)'
  <2> SUFFICES ASSUME NEW u \in Token, inv'[u].key = k, Certain(u)' PROVE FALSE
    OBVIOUS
  <2>1. Dispatcher(k, u)'
    BY <1>2 DEF Dispatcher, Certain, Dispatching, Now
  <2>2. u = t
    BY <1>10, <2>1
  <2>. QED
    BY <1>2, <2>2 DEF Certain, Now, Early
<1>12. OnePost(k)'
  <2>1. accepted[k] = 0 /\ accepted' = accepted
    BY <1>6 DEF Unsent
  <2>2. k' = k
    BY <1>2 DEF Now
  <2>. QED
    BY <1>9, <1>10, <1>11, <2>1, <2>2 DEF OnePost, InFlight, Dispatcher
<1>13. UNCHANGED <<accepted, remote, storeVars>> /\ accepted[k] = 0 /\ k' = k
  BY <1>2, <1>6 DEF Unsent, Now
<1>14. ServiceAgrees(k)'
  BY <1>1, <1>13 DEF KeyInv, ServiceAgrees, storeVars
<1>15. Judged(k)'
  BY <1>1, <1>7, <1>13 DEF KeyInv, Judged, BoundElsewhere, storeVars
<1>16. LateRows(k)'
  BY <1>1, <1>7, <1>13 DEF KeyInv, LateRows, LateRow, AttemptNumbers, storeVars
<1>17. KeyInv(k)'
  BY <1>12, <1>14, <1>15, <1>16 DEF KeyInv
<1>18. TokenInv(t)'
  <2>1. i.n \in AttemptNumbers(k) /\ Mine(t)
    BY <1>1, AttemptKnown DEF OnAttempt, Dispatching, Early
  <2>2. Mine(t)'
    BY <1>2, <1>13, <2>1 DEF Mine, Now, storeVars
  <2>3. Truth(t)'
    BY <1>1, <1>2, <1>13 DEF TokenInv, Truth, Now, BoundElsewhere
  <2>4. Routed(t)'
    BY <1>1, <1>2, <1>4, <1>13, <2>1, <2>2 DEF TokenInv, Routed, Now, AttemptNumbers, storeVars
  <2>5. Honest(t)'
    BY <1>2 DEF Honest, Now
  <2>6. i.outcome = "none"
    BY <1>1 DEF TokenInv, Reported, Unreported
  <2>7. Reported(t)'
    BY <1>2, <2>6 DEF Reported, OutcomeHolds, Now, Unreported, FinalReport
  <2>. QED
    BY <2>3, <2>4, <2>5, <2>7 DEF TokenInv
<1>19. /\ inv' \in [Token -> Invocation]
       /\ wire' \in [Token -> {"none", "sent", "arrived"}]
       /\ remote' \in [Key -> Payload \cup {NoPayload, ForeignPayload}]
       /\ accepted' \in [Key -> Nat]
  BY <1>1, <1>2, <1>3, <1>13 DEF WorkTypeOK, Now
<1>. QED
  BY <1>1, <1>5, <1>17, <1>18, <1>19, IdleQuiet, OnlyMineKeeps DEF QuietStore

LEMMA DispatchKeeps ==
    ASSUME FullInv, NEW t \in Token, Dispatch(t)
    PROVE  FullInv'
<1>1. CASE Goto(t, "posted") /\ wire' = [wire EXCEPT ![t] = "sent"]
  BY <1>1, SentKeeps DEF Dispatch
<1>2. CASE Observed(t, "transport_not_sent") /\ UNCHANGED wire
  BY <1>2, NotSentKeeps DEF Dispatch, service
<1>. QED
  BY <1>1, <1>2 DEF Dispatch

(* The client hears e, or has given up and hears nothing. *)
Hears(t, e) == IF At(t, "posted") THEN Observed(t, e) ELSE UNCHANGED inv

(* A POST arrives, and had an effect or had none. *)
Answered(t, e) ==
    /\ wire[t] = "sent" /\ wire' = [wire EXCEPT ![t] = "arrived"]
    /\ Hears(t, e)
    /\ UNCHANGED storeVars

LEMMA HearsNow ==
    ASSUME FullInv, NEW t \in Token,
           NEW e \in Heard, Hears(t, e)
    PROVE  /\ inv' \in [Token -> Invocation]
           /\ \A u \in Token : u # t => inv'[u] = inv[u]
           /\ inv'[t].key = inv[t].key
           /\ inv'[t].pc \in Dispatching => inv[t].pc \in Dispatching
           /\ Certain(t)' /\ e \notin Negative => Certain(t)
<1>1. WorkTypeOK /\ e \in Evidence
  BY Known, EvidenceTyped
<1>2. CASE At(t, "posted")
  <2>1. Now(t, "finalize", inv[t].then, inv[t].n, e,
            (inv[t].submitted \/ e # "transport_not_sent"), inv[t].outcome)
    BY <1>1, <1>2, ObservedNow DEF Hears
  <2>. QED
    BY <1>2, <2>1 DEF Now, At, Certain, Dispatching, Early
<1>3. CASE ~At(t, "posted")
  BY <1>1, <1>3 DEF Hears, WorkTypeOK, Certain
<1>. QED
  BY <1>2, <1>3

LEMMA AnsweredToken ==
    ASSUME FullInv, NEW t \in Token,
           NEW e \in Heard,
           Answered(t, e), ServiceMoves,
           e = "processed" => accepted'[inv[t].key] = 1
    PROVE  TokenInv(t)'
<1>1. StoreInv /\ WorkTypeOK /\ TokenInv(t)
  BY Known
<1>2. StoreInv' /\ StoreMoves
  BY <1>1, IdleQuiet DEF Answered, QuietStore
<1>3. wire'[t] = "arrived" /\ wire[t] = "sent"
  BY <1>1 DEF Answered, WorkTypeOK
<1>4. CASE At(t, "posted")
  BY <1>2, <1>3, <1>4, TokenHears DEF Answered, Hears, At
<1>5. CASE ~At(t, "posted")
  <2>1. inv'[t] = inv[t]
    BY <1>5 DEF Answered, Hears
  <2>2. MayHavePosted(t)' <=> MayHavePosted(t)
    BY <1>3 DEF MayHavePosted
  <2>. QED
    BY <1>1, <1>2, <1>5, <2>1, <2>2, TokenStays DEF At
<1>. QED
  BY <1>4, <1>5

(* What holds of a key while a POST for it is on its way. *)
LEMMA WhileInFlight ==
    ASSUME FullInv, NEW t \in Token, wire[t] = "sent"
    PROVE  LET k == inv[t].key IN
           /\ accepted[k] = 0
           /\ \A u \in Token : InFlight(k, u) => u = t
           /\ ~Unsent(k) /\ ~Silent(k)
           /\ \A u \in Token : inv[u].key = k => ~Certain(u)
           /\ Mine(t)
<1> DEFINE k == inv[t].key
<1>1. TokenInv(t) /\ KeyInv(k)
  BY Known
<1>2. InFlight(k, t)
  BY DEF InFlight
<1>3. ~Unsent(k) /\ ~Silent(k)
  BY <1>2 DEF Unsent, Silent
<1>. QED
  BY <1>1, <1>2, <1>3 DEF KeyInv, OnePost, TokenInv, Routed

(* A POST that arrives is on its way no more. *)
LEMMA AnsweredKey ==
    ASSUME FullInv, NEW t \in Token,
           NEW e \in Heard, Answered(t, e),
           NEW k, k = inv[t].key
    PROVE  /\ \A u \in Token : ~InFlight(k, u)'
           /\ \A u \in Token : Dispatcher(k, u)' => Dispatcher(k, u)
           /\ e \notin Negative => \A u \in Token : inv'[u].key = k => ~Certain(u)'
           /\ UNCHANGED storeVars
<1>1. WorkTypeOK
  BY Known
<1>2. /\ \A u \in Token : u # t => inv'[u] = inv[u]
      /\ inv'[t].key = inv[t].key
      /\ inv'[t].pc \in Dispatching => inv[t].pc \in Dispatching
      /\ Certain(t)' /\ e \notin Negative => Certain(t)
  BY HearsNow DEF Answered
<1>3. wire'[t] = "arrived" /\ \A u \in Token : u # t => wire'[u] = wire[u]
  BY <1>1 DEF Answered, WorkTypeOK
<1>4. \A u \in Token : InFlight(k, u) => u = t
  BY WhileInFlight DEF Answered
<1>5. \A u \in Token : ~InFlight(k, u)'
  BY <1>2, <1>3, <1>4 DEF InFlight
<1>6. \A u \in Token : Dispatcher(k, u)' => Dispatcher(k, u)
  BY <1>2 DEF Dispatcher
<1>7. \A u \in Token : inv[u].key = k => ~Certain(u)
  BY WhileInFlight DEF Answered
<1>8. ASSUME e \notin Negative, NEW u \in Token, inv'[u].key = k
      PROVE  ~Certain(u)'
  BY <1>2, <1>7, <1>8 DEF Certain
<1>. QED
  BY <1>5, <1>6, <1>8 DEF Answered

(* The service refuses the POST, or fails before it processes it. *)
LEMMA RejectedKeeps ==
    ASSUME FullInv, NEW t \in Token,
           NEW e \in Heard \ {"processed"},
           Answered(t, e), UNCHANGED <<remote, accepted>>
    PROVE  FullInv'
<1>0. PICK k \in Key : k = inv[t].key
  BY Known
<1>1. WorkTypeOK /\ KeyInv(k)
  BY <1>0, Known
<1>2. accepted[k] = 0 /\ ~Silent(k)
  BY <1>0, WhileInFlight DEF Answered
<1>3. /\ \A u \in Token : ~InFlight(k, u)'
      /\ \A u \in Token : Dispatcher(k, u)' => Dispatcher(k, u)
      /\ UNCHANGED storeVars
  BY <1>0, AnsweredKey
<1>4. Unsent(k)'
  BY <1>2, <1>3 DEF Unsent
<1>5. OnePost(k)'
  BY <1>1, <1>3, <1>4 DEF KeyInv, OnePost
<1>6. ServiceAgrees(k)' /\ Judged(k)'
  BY <1>1, <1>2, <1>3 DEF KeyInv, ServiceAgrees, Judged, BoundElsewhere, storeVars
<1>7. LateRows(k)'
  BY <1>1, <1>2, <1>3 DEF KeyInv, LateRows, LateRow, AttemptNumbers, storeVars
<1>8. KeyInv(k)'
  BY <1>5, <1>6, <1>7 DEF KeyInv
<1>9. /\ inv' \in [Token -> Invocation]
      /\ \A u \in Token : u # t => inv'[u] = inv[u]
      /\ inv'[t].key = inv[t].key
  BY HearsNow DEF Answered
<1>10. KeyInv(inv[t].key)'
  BY <1>0, <1>8, <1>9
<1>11. ServiceMoves
  BY DEF ServiceMoves, BoundElsewhere
<1>12. TokenInv(t)'
  BY <1>11, AnsweredToken
<1>13. /\ wire' \in [Token -> {"none", "sent", "arrived"}]
       /\ \A u \in Token : u # t => wire'[u] = wire[u]
  BY <1>1 DEF Answered, WorkTypeOK
<1>14. OnlyMine(t)
  BY <1>3, <1>9, <1>13 DEF OnlyMine, storeVars
<1>15. /\ remote' \in [Key -> Payload \cup {NoPayload, ForeignPayload}]
       /\ accepted' \in [Key -> Nat]
  BY <1>1 DEF WorkTypeOK
<1>. QED
  BY <1>3, <1>9, <1>10, <1>11, <1>12, <1>13, <1>14, <1>15, Known, IdleQuiet, OnlyMineKeeps
     DEF QuietStore

(* The service processes it: nothing had an effect before. *)
LEMMA ProcessedKeeps ==
    ASSUME FullInv, NEW t \in Token, NEW e \in {"processed", "uncertain"}, Answered(t, e),
           remote[inv[t].key] \in {NoPayload, inv[t].payload},
           remote' = [remote EXCEPT ![inv[t].key] = inv[t].payload],
           accepted' = [accepted EXCEPT ![inv[t].key] = @ + 1]
    PROVE  FullInv'
<1>0. PICK k \in Key : k = inv[t].key
  BY Known
<1>e. e \in Heard /\ e \notin Negative
  BY DEF Negative, Heard
<1>1. WorkTypeOK /\ KeyInv(k) /\ inv[t].payload \in Payload
  BY <1>0, Known
<1>2. accepted[k] = 0 /\ ~Silent(k) /\ Mine(t)
  BY <1>0, WhileInFlight DEF Answered
<1>3. /\ \A u \in Token : ~InFlight(k, u)'
      /\ \A u \in Token : Dispatcher(k, u)' => Dispatcher(k, u)
      /\ \A u \in Token : inv'[u].key = k => ~Certain(u)'
      /\ UNCHANGED storeVars
  BY <1>0, <1>e, AnsweredKey
<1>4. /\ accepted'[k] = 1 /\ remote'[k] = inv[t].payload
      /\ \A l \in Key : l # k => accepted'[l] = accepted[l] /\ remote'[l] = remote[l]
      /\ accepted' \in [Key -> Nat]
      /\ remote' \in [Key -> Payload \cup {NoPayload, ForeignPayload}]
  BY <1>0, <1>1, <1>2 DEF WorkTypeOK
<1>5. OnePost(k)'
  BY <1>1, <1>3 DEF KeyInv, OnePost
<1>6. ServiceAgrees(k)'
  BY <1>0, <1>1, <1>2, <1>3, <1>4 DEF ServiceAgrees, Mine, storeVars
<1>7. ~BoundElsewhere(k)
  BY <1>0, <1>1 DEF BoundElsewhere
<1>8. Judged(k)'
  BY <1>1, <1>2, <1>3, <1>4, <1>7 DEF KeyInv, Judged, storeVars
<1>9. LateRows(k)'
  BY <1>1, <1>2, <1>3, <1>4 DEF KeyInv, LateRows, LateRow, AttemptNumbers, storeVars
<1>10. KeyInv(k)'
  BY <1>5, <1>6, <1>8, <1>9 DEF KeyInv
<1>11. /\ inv' \in [Token -> Invocation]
       /\ \A u \in Token : u # t => inv'[u] = inv[u]
       /\ inv'[t].key = inv[t].key
  BY <1>e, HearsNow DEF Answered
<1>12. KeyInv(inv[t].key)'
  BY <1>0, <1>10, <1>11
<1>13. ServiceMoves
  BY <1>4, <1>7 DEF ServiceMoves, BoundElsewhere
<1>14. TokenInv(t)'
  BY <1>0, <1>e, <1>4, <1>13, AnsweredToken
<1>15. /\ wire' \in [Token -> {"none", "sent", "arrived"}]
       /\ \A u \in Token : u # t => wire'[u] = wire[u]
  BY <1>1 DEF Answered, WorkTypeOK
<1>16. OnlyMine(t)
  BY <1>0, <1>3, <1>4, <1>11, <1>15 DEF OnlyMine, storeVars
<1>. QED
  BY <1>3, <1>4, <1>11, <1>12, <1>13, <1>14, <1>15, <1>16, Known, IdleQuiet, OnlyMineKeeps
     DEF QuietStore

LEMMA ArriveKeeps ==
    ASSUME FullInv, NEW t \in Token, Arrive(t)
    PROVE  FullInv'
<1>1. \A e : Hears(t, e) <=> (IF At(t, "posted") THEN Observed(t, e) ELSE UNCHANGED inv)
  BY DEF Hears
<1>2. ASSUME NEW e \in {"idempotency_conflict", "rate_limited", "validation_rejected",
                        "uncertain"},
             Hears(t, e), UNCHANGED <<remote, accepted>>
      PROVE  FullInv'
  <2>1. e \in Heard \ {"processed"}
    BY DEF Heard
  <2>2. Answered(t, e)
    BY <1>2 DEF Answered, Arrive
  <2>. QED
    BY <1>2, <2>1, <2>2, RejectedKeeps
<1>3. ASSUME NEW e \in {"processed", "uncertain"}, Hears(t, e),
             remote[inv[t].key] \in {NoPayload, inv[t].payload},
             remote' = [remote EXCEPT ![inv[t].key] = inv[t].payload],
             accepted' = [accepted EXCEPT ![inv[t].key] = @ + 1]
      PROVE  FullInv'
  <2>1. Answered(t, e)
    BY <1>3 DEF Answered, Arrive
  <2>. QED
    BY <1>3, <2>1, ProcessedKeeps
<1>. QED
  BY <1>1, <1>2, <1>3 DEF Arrive

-----------------------------------------------------------------------------
(* The end of an exchange, and reconciliation, where nothing is decided *)

(* An observation row that is not late. *)
LEMMA NotLateQuiet ==
    ASSUME StoreInv, NEW k \in Key, NEW n \in Nat, NEW op \in Operation, NEW c \in Category,
           NEW st \in Nat, NEW g \in Nat, Observe(k, Observation(n, op, c, st, FALSE, g)),
           UNCHANGED <<jobs, attempts, gate, clock>>
    PROVE  QuietStore
<1> DEFINE row == Observation(n, op, c, st, FALSE, g)
<1>1. row \in ObservationRow
  BY NewObservationTyped
<1>2. ~row.late
  BY DEF Observation
<1> HIDE DEF row
<1>3. Observe(k, row)
  BY DEF row
<1>. QED
  BY <1>1, <1>2, <1>3, ObserveQuiet

LEMMA RetainedKeeps ==
    ASSUME FullInv, NEW t \in Token, At(t, "finalize"),
           FinalizeRetained(inv[t].key, inv[t].n, t, inv[t].gen),
           Become(t, [inv[t] EXCEPT !.pc = "late", !.evidence = "none"]), UNCHANGED service
    PROVE  FullInv'
<1> DEFINE i == inv[t]
           r == [i EXCEPT !.pc = "late", !.evidence = "none"]
<1>1. /\ StoreInv /\ i \in Invocation /\ i.key \in Key /\ i.n \in Nat /\ i.gen \in Nat
      /\ i.then \in Resumes
  BY Known, KnownSleep
<1>2. "SUBMISSION" \in Operation /\ "uncertain" \in Category
  BY DEF Operation, Category
<1>3. QuietStore
  BY <1>1, <1>2, NotLateQuiet DEF FinalizeRetained
<1>4. /\ r \in Invocation /\ r.key = i.key /\ r.payload = i.payload /\ r.pc = "late"
      /\ r.then = i.then /\ r.n = i.n /\ r.evidence = "none" /\ r.outcome = i.outcome
  BY <1>1, PcTyped, EvidenceTyped DEF Invocation
<1>5. r.submitted = i.submitted
  BY <1>1 DEF Invocation
<1>6. NoNearer(t, "late", "none") /\ {"late", "finalize"} \subseteq OnAttempt
  BY DEF NoNearer, OnAttempt, Dispatching, Early
<1> HIDE DEF r
<1>7. Become(t, r)
  BY DEF r
<1>. QED
  BY <1>1, <1>3, <1>4, <1>5, <1>6, <1>7, OnAttemptKeeps DEF At

LEMMA StaleKeeps ==
    ASSUME FullInv, NEW t \in Token, At(t, "finalize"), Goto(t, "appendLate"),
           UNCHANGED <<storeVars, service>>
    PROVE  FullInv'
<1>1. QuietStore
  BY Known, IdleQuiet
<1>2. NoNearer(t, "appendLate", inv[t].evidence) /\ inv[t].evidence \in Concluded
  BY Known DEF NoNearer, Dispatching, Early, Certain, At, TokenInv, Routed
<1>3. "appendLate" \in Pc /\ {"finalize", "appendLate"} \subseteq OnAttempt
  BY PcTyped DEF OnAttempt, Dispatching
<1>. QED
  BY <1>1, <1>2, <1>3, GotoKeeps DEF At

(* Steps between the transactions of a reconciliation sequence. *)
Reconciling == {"late", "reconcile", "reconWait", "reconRenew", "get", "observe",
                "advanceGate", "backoff", "lastLate", "record", "appendLateGet"}

LEMMA ReconcilingKeeps ==
    ASSUME FullInv, NEW t \in Token, QuietStore, UNCHANGED service,
           NEW r \in Invocation, Become(t, r),
           r.key = inv[t].key, r.payload = inv[t].payload, r.n = inv[t].n,
           r.submitted = inv[t].submitted,
           r.outcome = inv[t].outcome, r.then \in Resumes,
           \/ r.evidence = inv[t].evidence
           \/ r.evidence \notin {"processed", "matched", "conflict"}
           \/ r.evidence = "matched" /\ accepted[inv[t].key] = 1
           \/ r.evidence = "conflict" /\ BoundElsewhere(inv[t].key),
           inv[t].pc \in Reconciling, r.pc \in Reconciling \cup {"sleep"}
    PROVE  FullInv'
<1>1. inv[t].pc \in OnAttempt \ {"posted"} /\ r.pc \in (OnAttempt \ {"posted"}) \cup {"sleep"}
  BY DEF Reconciling, OnAttempt
<1>2. NoNearer(t, r.pc, r.evidence) /\ r.pc \notin {"finalize", "appendLate"}
  BY DEF NoNearer, Reconciling, Dispatching, Early
<1>. QED
  BY <1>1, <1>2, OnAttemptKeeps

LEMMA ReconcilingGoto ==
    ASSUME FullInv, NEW t \in Token, QuietStore, UNCHANGED service,
           NEW pc \in Reconciling, Goto(t, pc), inv[t].pc \in Reconciling
    PROVE  FullInv'
<1>1. inv[t].pc \in OnAttempt \ {"posted"} /\ pc \in OnAttempt \ {"posted"}
  BY DEF Reconciling, OnAttempt
<1>2. NoNearer(t, pc, inv[t].evidence) /\ pc \notin {"finalize", "appendLate"}
  BY DEF NoNearer, Reconciling, Dispatching, Early
<1>3. pc \in Pc
  BY PcTyped DEF Reconciling
<1>. QED
  BY <1>1, <1>2, <1>3, GotoKeeps

LEMMA AuthorizeGetKeeps ==
    ASSUME FullInv, NEW t \in Token, AuthorizeGet(t)
    PROVE  FullInv'
<1> DEFINE i == inv[t]
           u == LaterOf(i.notBefore, gate)
           a == [i EXCEPT !.pc = "get", !.notBefore = 0]
           b == [i EXCEPT !.pc = "reconWait", !.until = u]
<1>1. /\ StoreInv /\ TypeOK /\ i \in Invocation /\ i.then \in Resumes /\ i.notBefore \in Nat
      /\ UNCHANGED service /\ i.pc = "reconcile"
  BY Known, KnownSleep DEF AuthorizeGet, At
<1>2. {"reconcile", "get", "reconWait"} \subseteq Reconciling
  BY DEF Reconciling
<1>3. CASE /\ AuthorizeReconciliationRequest(i.key, i.n, t, i.gen, i.notBefore)
           /\ Become(t, a)
  <2>1. QuietStore
    BY <1>3, RenewQuiet DEF AuthorizeReconciliationRequest, MayReconcile
  <2>2. /\ a \in Invocation /\ a.key = i.key /\ a.payload = i.payload /\ a.pc = "get"
        /\ a.then = i.then /\ a.n = i.n /\ a.evidence = i.evidence /\ a.outcome = i.outcome
    BY <1>1, PcTyped DEF Invocation
  <2>3. a.submitted = i.submitted
    BY <1>1 DEF Invocation
  <2> HIDE DEF a
  <2>. QED
    BY <1>1, <1>2, <1>3, <2>1, <2>2, <2>3, ReconcilingKeeps
<1>4. CASE Become(t, b) /\ UNCHANGED storeVars
  <2>1. QuietStore
    BY <1>1, <1>4, IdleQuiet
  <2>2. u \in Nat
    BY <1>1 DEF LaterOf, TypeOK
  <2> HIDE DEF u
  <2>3. /\ b \in Invocation /\ b.key = i.key /\ b.payload = i.payload /\ b.pc = "reconWait"
        /\ b.then = i.then /\ b.n = i.n /\ b.evidence = i.evidence /\ b.outcome = i.outcome
    BY <1>1, <2>2, PcTyped DEF Invocation
  <2>4. b.submitted = i.submitted
    BY <1>1 DEF Invocation
  <2> HIDE DEF b
  <2>. QED
    BY <1>1, <1>2, <1>4, <2>1, <2>3, <2>4, ReconcilingKeeps
<1>. QED
  BY <1>3, <1>4 DEF AuthorizeGet

LEMMA ChunkFields ==
    ASSUME TypeOK, NEW i \in Invocation, NEW left \in Nat
    PROVE  LET r == SleepChunk(i, left) IN
           /\ r \in Invocation /\ r.key = i.key /\ r.payload = i.payload /\ r.pc = "sleep"
           /\ r.then \in Resumes /\ r.n = i.n /\ r.evidence = i.evidence
           /\ r.outcome = i.outcome /\ (r.submitted = i.submitted)
<1> DEFINE chunk == IF left > Cadence THEN Cadence ELSE left
           then == IF left > chunk THEN "reconRenew" ELSE "late"
           rest == left - chunk
           u == clock + chunk
           w == i.slept + chunk
           r == [i EXCEPT !.pc = "sleep", !.until = u, !.then = then, !.slept = w,
                          !.delay = rest]
<1>1. chunk \in Nat /\ rest \in Nat
  BY WaitAssumption
<1>2. clock \in Nat /\ i.slept \in Nat
  BY DEF TypeOK, Invocation
<1>3. u \in Nat /\ w \in Nat
  BY <1>1, <1>2
<1>4. then \in Resumes /\ then \in Pc
  BY PcTyped DEF Resumes
<1>5. SleepChunk(i, left) = r
  <2> HIDE DEF chunk, then, rest
  <2>1. SleepChunk(i, left) = [Sleeping(i, chunk, then) EXCEPT !.delay = rest]
    BY DEF SleepChunk, chunk, then, rest
  <2>2. Sleeping(i, chunk, then) = [i EXCEPT !.pc = "sleep", !.until = u, !.then = then,
                                             !.slept = w]
    BY Zenon DEF Sleeping
  <2> HIDE DEF u, w
  <2>3. [[i EXCEPT !.pc = "sleep", !.until = u, !.then = then, !.slept = w]
            EXCEPT !.delay = rest] = r
    BY DEF Invocation
  <2>. QED
    BY <2>1, <2>2, <2>3
<1> HIDE DEF chunk, then, rest, u, w
<1>6. /\ r \in Invocation /\ r.key = i.key /\ r.payload = i.payload /\ r.pc = "sleep"
      /\ r.then = then /\ r.n = i.n /\ r.evidence = i.evidence
      /\ r.outcome = i.outcome
  BY <1>1, <1>3, <1>4, PcTyped DEF Invocation
<1>7. r.submitted = i.submitted
  BY DEF Invocation
<1> HIDE DEF r
<1>. QED
  BY <1>4, <1>5, <1>6, <1>7

LEMMA ChunkKeeps ==
    ASSUME FullInv, NEW t \in Token, QuietStore, UNCHANGED service,
           NEW left \in Nat, Become(t, SleepChunk(inv[t], left)), inv[t].pc \in Reconciling
    PROVE  FullInv'
<1> DEFINE i == inv[t]
           r == SleepChunk(i, left)
<1>1. TypeOK /\ i \in Invocation
  BY Known
<1>2. /\ r \in Invocation /\ r.key = i.key /\ r.payload = i.payload /\ r.pc = "sleep"
      /\ r.then \in Resumes /\ r.n = i.n /\ r.evidence = i.evidence
      /\ r.outcome = i.outcome /\ (r.submitted = i.submitted)
  BY <1>1, ChunkFields
<1> HIDE DEF r
<1>3. Become(t, r)
  BY DEF r
<1>. QED
  BY <1>2, <1>3, ReconcilingKeeps

LEMMA WaitForGetKeeps ==
    ASSUME FullInv, NEW t \in Token, WaitForGet(t)
    PROVE  FullInv'
<1> DEFINE i == inv[t]
           a == [i EXCEPT !.pc = "lastLate", !.evidence = "inconclusive", !.until = 0]
           b == [i EXCEPT !.pc = "late", !.until = 0]
           d == DelayLeft(i)
<1>1. /\ StoreInv /\ TypeOK /\ i \in Invocation /\ i.then \in Resumes /\ i.until \in Nat
      /\ UNCHANGED <<storeVars, service>> /\ i.pc = "reconWait" /\ clock \in Nat
  BY Known, KnownSleep DEF WaitForGet, At
<1>2. {"lastLate", "late", "reconWait"} \subseteq Reconciling
  BY DEF Reconciling
<1>3. QuietStore
  BY <1>1, IdleQuiet
<1>4. CASE Become(t, a)
  <2>1. /\ a \in Invocation /\ a.key = i.key /\ a.payload = i.payload /\ a.pc = "lastLate"
        /\ a.then = i.then /\ a.n = i.n /\ a.evidence = "inconclusive"
        /\ a.outcome = i.outcome
    BY <1>1, PcTyped, EvidenceTyped DEF Invocation
  <2>2. a.submitted = i.submitted
    BY <1>1 DEF Invocation
  <2> HIDE DEF a
  <2>. QED
    BY <1>1, <1>2, <1>3, <1>4, <2>1, <2>2, ReconcilingKeeps
<1>5. CASE Become(t, b)
  <2>1. /\ b \in Invocation /\ b.key = i.key /\ b.payload = i.payload /\ b.pc = "late"
        /\ b.then = i.then /\ b.n = i.n /\ b.evidence = i.evidence
        /\ b.outcome = i.outcome
    BY <1>1, PcTyped DEF Invocation
  <2>2. b.submitted = i.submitted
    BY <1>1 DEF Invocation
  <2> HIDE DEF b
  <2>. QED
    BY <1>1, <1>2, <1>3, <1>5, <2>1, <2>2, ReconcilingKeeps
<1>6. CASE Become(t, SleepChunk(i, d))
  <2>1. d \in Nat
    BY <1>1 DEF DelayLeft
  <2> HIDE DEF d
  <2>. QED
    BY <1>1, <1>2, <1>3, <1>6, <2>1, ChunkKeeps
<1>. QED
  BY <1>4, <1>5, <1>6 DEF WaitForGet

LEMMA RenewDuringWaitKeeps ==
    ASSUME FullInv, NEW t \in Token, RenewDuringWait(t)
    PROVE  FullInv'
<1>1. inv[t].delay \in Nat
  BY KnownSleep
<1>2. QuietStore
  BY RenewQuiet DEF RenewDuringWait, RenewLease
<1>3. inv[t].pc \in Reconciling
  BY DEF RenewDuringWait, At, Reconciling
<1>. QED
  BY <1>1, <1>2, <1>3, ChunkKeeps DEF RenewDuringWait

LEMMA GetKeeps ==
    ASSUME FullInv, NEW t \in Token, Get(t)
    PROVE  FullInv'
<1> DEFINE i == inv[t]
           k == i.key
           g == i.gets + 1
<1>1. /\ StoreInv /\ WorkTypeOK /\ TypeOK /\ i \in Invocation /\ i.then \in Resumes
      /\ i.gets \in Nat /\ k \in Key /\ i.payload \in Payload /\ KeyInv(k)
      /\ UNCHANGED <<storeVars, service>> /\ i.pc = "get"
  BY Known, KnownSleep DEF Get, At
<1>2. Mine(t)
  BY <1>1, AttemptKnown DEF OnAttempt
<1>3. accepted[k] = 0 \/ (accepted[k] = 1 /\ remote[k] = i.payload)
  BY <1>1, <1>2 DEF KeyInv, ServiceAgrees, Mine
<1>4. remote[k] = i.payload => accepted[k] = 1
  BY <1>1, <1>3 DEF KeyInv, ServiceAgrees
<1>5. remote[k] # i.payload /\ remote[k] # NoPayload => BoundElsewhere(k)
  BY <1>1, <1>3 DEF KeyInv, ServiceAgrees, BoundElsewhere
<1>6. /\ StoredAnswer(i) \in {"not_found", "matched", "conflict"}
      /\ StoredAnswer(i) = "matched" => accepted[k] = 1
      /\ StoredAnswer(i) = "conflict" => BoundElsewhere(k)
  BY <1>4, <1>5 DEF StoredAnswer
<1>7. PICK e \in {StoredAnswer(i), "rate_limited", "uncertain"} :
         Become(t, [i EXCEPT !.pc = "observe", !.gets = @ + 1, !.evidence = e])
  BY DEF Get
<1>8. /\ e \in Evidence
      /\ e \notin {"processed", "matched", "conflict"} \/ (e = "matched" /\ accepted[k] = 1)
         \/ (e = "conflict" /\ BoundElsewhere(k))
  BY <1>6, EvidenceTyped
<1>9. g \in Nat
  BY <1>1
<1> DEFINE r == [i EXCEPT !.pc = "observe", !.gets = g, !.evidence = e]
<1>10. Become(t, r)
  BY <1>7
<1> HIDE DEF g
<1>11. /\ r \in Invocation /\ r.key = i.key /\ r.payload = i.payload /\ r.pc = "observe"
       /\ r.then = i.then /\ r.n = i.n /\ r.evidence = e /\ r.outcome = i.outcome
  BY <1>1, <1>8, <1>9, PcTyped DEF Invocation
<1>12. r.submitted = i.submitted
  BY <1>1 DEF Invocation
<1> HIDE DEF r
<1>13. {"get", "observe"} \subseteq Reconciling /\ QuietStore
  BY <1>1, IdleQuiet DEF Reconciling
<1>. QED
  BY <1>1, <1>8, <1>10, <1>11, <1>12, <1>13, ReconcilingKeeps

LEMMA NextGetKeeps ==
    ASSUME FullInv, NEW t \in Token, QuietStore, UNCHANGED service,
           NEW d \in Nat, NextGet(t, inv[t], d), inv[t].pc \in Reconciling
    PROVE  FullInv'
<1> DEFINE i == inv[t]
           b == clock + d
           r == [i EXCEPT !.pc = "lastLate", !.evidence = "inconclusive", !.delay = 0]
           q == [i EXCEPT !.pc = "late", !.evidence = "none", !.delay = 0, !.notBefore = b]
<1>1. i \in Invocation /\ i.then \in Resumes /\ clock \in Nat
  BY Known, KnownSleep
<1>2. b \in Nat
  BY <1>1
<1>3. {"lastLate", "late"} \subseteq Reconciling
  BY DEF Reconciling
<1>4. Become(t, r) \/ Become(t, q)
  BY DEF NextGet
<1> HIDE DEF b
<1>5. CASE Become(t, r)
  <2>1. /\ r \in Invocation /\ r.key = i.key /\ r.payload = i.payload /\ r.pc = "lastLate"
        /\ r.then = i.then /\ r.n = i.n /\ r.evidence = "inconclusive"
        /\ r.outcome = i.outcome
    BY <1>1, PcTyped, EvidenceTyped DEF Invocation
  <2>2. r.submitted = i.submitted
    BY <1>1 DEF Invocation
  <2> HIDE DEF r
  <2>. QED
    BY <1>1, <1>3, <1>5, <2>1, <2>2, ReconcilingKeeps
<1>6. CASE Become(t, q)
  <2>1. /\ q \in Invocation /\ q.key = i.key /\ q.payload = i.payload /\ q.pc = "late"
        /\ q.then = i.then /\ q.n = i.n /\ q.evidence = "none"
        /\ q.outcome = i.outcome
    BY <1>1, <1>2, PcTyped, EvidenceTyped DEF Invocation
  <2>2. q.submitted = i.submitted
    BY <1>1 DEF Invocation
  <2> HIDE DEF q
  <2>. QED
    BY <1>1, <1>3, <1>6, <2>1, <2>2, ReconcilingKeeps
<1>. QED
  BY <1>4, <1>5, <1>6

LEMMA ReportTyped ==
    ASSUME NEW e
    PROVE  /\ ReconciliationReport(e).category \in Category
           /\ ReconciliationReport(e).status \in Nat
BY DEF ReconciliationReport, Category

LEMMA ObserveGetKeeps ==
    ASSUME FullInv, NEW t \in Token, ObserveGet(t)
    PROVE  FullInv'
<1> DEFINE i == inv[t]
           c == ReconciliationReport(i.evidence).category
           st == ReconciliationReport(i.evidence).status
<1>1. /\ StoreInv /\ i \in Invocation /\ i.then \in Resumes
      /\ i.key \in Key /\ i.n \in Nat /\ i.gen \in Nat
      /\ UNCHANGED service /\ i.pc \in Reconciling
  BY Known, KnownSleep DEF ObserveGet, At, Reconciling
<1>2. AppendObservation(i.key, i.n, i.gen, c, st)
  BY DEF ObserveGet
<1>3. c \in Category /\ st \in Nat /\ "RECONCILIATION" \in Operation
  BY ReportTyped DEF Operation
<1> HIDE DEF c, st
<1>4. QuietStore
  BY <1>1, <1>2, <1>3, NotLateQuiet DEF AppendObservation
<1>5. CASE Goto(t, "record")
  <2>1. "record" \in Reconciling
    BY DEF Reconciling
  <2>. QED
    BY <1>1, <1>4, <1>5, <2>1, ReconcilingGoto
<1>6. ASSUME NEW d \in Delay, Become(t, [i EXCEPT !.pc = "advanceGate", !.delay = d])
      PROVE  FullInv'
  <2> DEFINE r == [i EXCEPT !.pc = "advanceGate", !.delay = d]
  <2>1. d \in Nat
    BY DelayAssumption
  <2>2. /\ r \in Invocation /\ r.key = i.key /\ r.payload = i.payload
        /\ r.pc = "advanceGate"
        /\ r.then = i.then /\ r.n = i.n /\ r.evidence = i.evidence
        /\ r.outcome = i.outcome
    BY <1>1, <2>1, PcTyped DEF Invocation
  <2>3. r.submitted = i.submitted
    BY <1>1 DEF Invocation
  <2> HIDE DEF r
  <2>4. Become(t, r) /\ "advanceGate" \in Reconciling
    BY <1>6 DEF r, Reconciling
  <2>. QED
    BY <1>1, <1>4, <2>2, <2>3, <2>4, ReconcilingKeeps
<1>7. ASSUME NEW d \in Delay, NextGet(t, i, d)
      PROVE  FullInv'
  <2>1. d \in Nat
    BY DelayAssumption
  <2>. QED
    BY <1>1, <1>4, <1>7, <2>1, NextGetKeeps
<1>. QED
  BY <1>5, <1>6, <1>7 DEF ObserveGet

LEMMA AdvanceGateKeeps ==
    ASSUME FullInv, NEW t \in Token, AdvanceGate(t)
    PROVE  FullInv'
<1>1. /\ StoreInv /\ TypeOK /\ inv[t].delay \in Nat /\ clock \in Nat \ {0}
      /\ UNCHANGED service /\ {inv[t].pc, "backoff"} \subseteq Reconciling
  BY Known, KnownSleep DEF AdvanceGate, At, Reconciling
<1>2. gate' \in Nat /\ clock' = clock /\ UNCHANGED <<jobs, attempts, observations>>
  BY <1>1 DEF AdvanceGate, AdvanceGateForReconciliation, RaiseGate, LaterOf, TypeOK
<1>3. QuietStore
  BY <1>1, <1>2, SameTablesQuiet
<1>. QED
  BY <1>1, <1>3, ReconcilingGoto DEF AdvanceGate

LEMMA BackOffKeeps ==
    ASSUME FullInv, NEW t \in Token, BackOff(t)
    PROVE  FullInv'
<1>1. StoreInv /\ inv[t].delay \in Nat /\ UNCHANGED <<storeVars, service>>
  BY Known, KnownSleep DEF BackOff
<1>2. QuietStore
  BY <1>1, IdleQuiet
<1>3. inv[t].pc \in Reconciling
  BY DEF BackOff, At, Reconciling
<1>. QED
  BY <1>1, <1>2, <1>3, NextGetKeeps DEF BackOff

(* No late evidence: on to `next`. *)
LEMMA NoLateKeeps ==
    ASSUME FullInv, NEW t \in Token, inv[t].pc \in Reconciling, NEW next \in Reconciling,
           Goto(t, next), UNCHANGED <<storeVars, service>>
    PROVE  FullInv'
<1>1. QuietStore
  BY Known, IdleQuiet
<1>. QED
  BY <1>1, ReconcilingGoto

-----------------------------------------------------------------------------
(* Faults *)

LEMMA LoseOwnershipKeeps ==
    ASSUME FullInv, NEW t \in Token, LoseOwnership(t)
    PROVE  FullInv'
<1>1. "ownership_lost" \in Outcome /\ "ownership_lost" \notin FinalReport \cup {"idempotency_conflict"}
  BY DEF Outcome, FinalReport
<1>. QED
  BY <1>1, ReportAtOnce DEF LoseOwnership

LEMMA PersistenceFailsKeeps ==
    ASSUME FullInv, NEW t \in Token, PersistenceFails(t)
    PROVE  FullInv'
<1>1. PICK o \in {"local_persistence_failure", "ownership_lost"} : EndAs(t, o)
  BY DEF PersistenceFails
<1>2. o \in Outcome /\ o \notin FinalReport \cup {"idempotency_conflict"}
  BY DEF Outcome, FinalReport
<1>3. inv[t].pc \notin {"posted", "done", "crashed"}
  BY DEF PersistenceFails
<1>. QED
  BY <1>1, <1>2, <1>3, ReportAtOnce DEF PersistenceFails

LEMMA CrashKeeps ==
    ASSUME FullInv, NEW t \in Token, Crash(t)
    PROVE  FullInv'
<1>1. QuietStore
  BY Known, IdleQuiet DEF Crash
<1>. QED
  BY <1>1, QuietVanish DEF Crash

(* A step of the clock alone, and a step in which nothing happens. *)
LEMMA ClockKeeps ==
    ASSUME FullInv, clock' \in Nat \ {0},
           UNCHANGED <<jobs, attempts, observations, gate, inv, wire, remote, accepted>>
    PROVE  FullInv'
<1>1. StoreInv /\ TypeOK /\ WorkTypeOK
  BY DEF FullInv, StoreInv
<1>2. /\ UNCHANGED <<jobs, attempts, observations, gate, inv, wire, remote, accepted>>
      /\ clock' \in Nat \ {0}
  OBVIOUS
<1>3. QuietStore
  BY <1>1, <1>2, SameTablesQuiet DEF TypeOK
<1>4. WorkTypeOK' /\ StoreInv'
  BY <1>1, <1>2, <1>3 DEF QuietStore, StoreInv, WorkTypeOK
<1>5. ASSUME NEW k \in Key PROVE KeyInv(k)'
  <2>1. KeyInv(k)
    BY DEF FullInv, WorkInv
  <2>2. Silent(k)' <=> Silent(k)
    BY <1>2 DEF Silent, Unsent, InFlight, Dispatcher
  <2>3. OnePost(k)'
    BY <1>2, <2>1 DEF KeyInv, OnePost, InFlight, Dispatcher, Certain, Unsent
  <2>4. ServiceAgrees(k)' /\ Judged(k)' /\ LateRows(k)'
    BY <1>2, <2>1, <2>2 DEF KeyInv, ServiceAgrees, Judged, BoundElsewhere, LateRows, LateRow,
                            AttemptNumbers
  <2>. QED
    BY <2>3, <2>4 DEF KeyInv
<1>6. ASSUME NEW u \in Token PROVE TokenInv(u)'
  <2>1. TokenInv(u) /\ StoreMoves
    BY <1>3 DEF FullInv, WorkInv, QuietStore
  <2>2. ServiceMoves /\ (MayHavePosted(u)' <=> MayHavePosted(u))
    BY <1>2 DEF ServiceMoves, BoundElsewhere, MayHavePosted
  <2>. QED
    BY <1>1, <1>2, <1>4, <2>1, <2>2, TokenStays
<1>. QED
  BY <1>4, <1>5, <1>6 DEF FullInv, WorkInv

LEMMA TimePassesKeeps ==
    ASSUME FullInv, TimePasses
    PROVE  FullInv'
<1>1. /\ UNCHANGED <<jobs, attempts, observations, gate, inv, wire, remote, accepted>>
      /\ clock' \in Nat \ {0}
  BY ClockAssumption DEF TimePasses, Tick, service
<1>. QED
  BY <1>1, ClockKeeps

LEMMA BindForeignKeeps ==
    ASSUME FullInv, NEW k \in Key, BindForeign(k)
    PROVE  FullInv'
<1>1. StoreInv /\ TypeOK /\ WorkTypeOK
  BY DEF FullInv, StoreInv
<1>2. /\ UNCHANGED <<storeVars, inv, wire, accepted>> /\ remote[k] = NoPayload
      /\ remote'[k] = ForeignPayload /\ \A l \in Key : l # k => remote'[l] = remote[l]
      /\ remote' \in [Key -> Payload \cup {NoPayload, ForeignPayload}]
  BY <1>1 DEF BindForeign, WorkTypeOK
<1>3. StoreInv' /\ StoreMoves
  BY <1>1, <1>2, IdleQuiet DEF QuietStore
<1>4. WorkTypeOK'
  BY <1>1, <1>2, <1>3 DEF StoreInv, WorkTypeOK
<1>5. ForeignPayload \notin Payload /\ NoPayload \notin Payload
  BY PayloadAssumption
<1>6. ASSUME NEW l \in Key PROVE KeyInv(l)'
  <2>1. KeyInv(l)
    BY DEF FullInv, WorkInv
  <2>2. Silent(l)' <=> Silent(l)
    BY <1>2 DEF Silent, Unsent, InFlight, Dispatcher
  <2>3. OnePost(l)'
    BY <1>2, <2>1 DEF KeyInv, OnePost, InFlight, Dispatcher, Certain, Unsent
  <2>4. ServiceAgrees(l)'
    BY <1>2, <1>5, <2>1 DEF KeyInv, ServiceAgrees, storeVars
  <2>5. BoundElsewhere(l) => BoundElsewhere(l)'
    BY <1>2 DEF BoundElsewhere
  <2>6. Judged(l)' /\ LateRows(l)'
    BY <1>2, <2>1, <2>2, <2>5 DEF KeyInv, Judged, LateRows, LateRow, AttemptNumbers, storeVars
  <2>. QED
    BY <2>3, <2>4, <2>6 DEF KeyInv
<1>7. ASSUME NEW u \in Token PROVE TokenInv(u)'
  <2>1. TokenInv(u)
    BY DEF FullInv, WorkInv
  <2>2. ServiceMoves /\ (MayHavePosted(u)' <=> MayHavePosted(u))
    BY <1>2 DEF ServiceMoves, BoundElsewhere, MayHavePosted
  <2>. QED
    BY <1>1, <1>2, <1>3, <2>1, <2>2, TokenStays
<1>. QED
  BY <1>3, <1>4, <1>6, <1>7 DEF FullInv, WorkInv

-----------------------------------------------------------------------------
(* Transactions that decide about an attempt *)

(* The latest attempt of k ends as `as`, and with it the job as js. *)
Decides(k, js, as) ==
    /\ StoreInv' /\ StoreMoves
    /\ \A l \in Key : SameLate(l) /\ (l # k => jobs'[l] = jobs[l])
    /\ jobs'[k].state = js /\ jobs'[k].payload = jobs[k].payload
    /\ attempts'[k][Len(attempts'[k])].state = as
    /\ <<js, as>> \in Agreement

LEMMA CompleteDecides ==
    ASSUME StoreInv, NEW k \in Key, NEW n \in Nat, NEW t \in Token, NEW g \in Nat,
           NEW as \in AttemptState, NEW js \in JobState, NEW e \in Category, NEW d \in Nat,
           OwnerStep(k, n, t, g), Owns(k, n, t, g), Complete(k, n, as, js, e, d),
           <<js, as>> \in Agreement, \A l \in Key : Len(attempts'[l]) = Len(attempts[l]) => SameLate(l)
    PROVE  Decides(k, js, as) /\ n = Len(attempts'[k]) /\ n = Len(attempts[k])
<1>1. StoreInv' /\ StoreMoves
  BY OwnerMoves, KindsMove
<1>2. TypeOK /\ n \in AttemptNumbers(k) /\ attempts[k][n].state = "STARTED"
      /\ jobs[k] \in JobRow
  BY DEF Owns, StoreInv, TypeOK
<1>3. n = Len(attempts[k])
  BY <1>2, StartedIsLatest
<1> DEFINE row == Completed(attempts[k][n], as, e, d)
           job == InState(jobs[k], js)
<1>4. /\ \A l \in Key : Len(attempts'[l]) = Len(attempts[l])
      /\ attempts'[k][n] = row
      /\ \A l \in Key : l # k => jobs'[l] = jobs[l]
      /\ jobs'[k] = job
  BY <1>2, CompleteEffect, ZenonT(60)
<1>5. attempts[k][n] \in AttemptRow
  BY <1>2, AttemptTyped
<1>6. row.state = as /\ job.state = js /\ job.payload = jobs[k].payload
  BY <1>2, <1>5 DEF Completed, InState, AttemptRow, JobRow
<1> HIDE DEF row, job
<1>7. jobs'[k].state = js /\ jobs'[k].payload = jobs[k].payload
  BY <1>4, <1>6
<1>8. Len(attempts'[k]) = n /\ attempts'[k][n].state = as
  BY <1>3, <1>4, <1>6
<1>. QED
  BY <1>1, <1>3, <1>4, <1>7, <1>8 DEF Decides

(* An observation row that is not late, as far as late rows go. *)
LEMMA NotLateSame ==
    ASSUME StoreInv, NEW k \in Key, NEW n, NEW op, NEW c, NEW st, NEW g,
           Observe(k, Observation(n, op, c, st, FALSE, g)),
           NEW l \in Key, Len(attempts'[l]) = Len(attempts[l])
    PROVE  SameLate(l)
<1> DEFINE row == Observation(n, op, c, st, FALSE, g)
<1>1. ~row.late
  BY DEF Observation
<1> HIDE DEF row
<1>2. Observe(k, row)
  BY DEF row
<1>. QED
  BY <1>1, <1>2, ObservedRows DEF SameLate

LEMMA SucceededDecides ==
    ASSUME StoreInv, NEW k \in Key, NEW n \in Nat, NEW t \in Token, NEW g \in Nat,
           FinalizeSucceeded(k, n, t, g)
    PROVE  Decides(k, "SUCCEEDED", "SUCCEEDED")
<1>1. OwnerStep(k, n, t, g)
  BY DEF OwnerStep
<1>2. \A l \in Key : Len(attempts'[l]) = Len(attempts[l]) => SameLate(l)
  BY NotLateSame DEF FinalizeSucceeded
<1>3. /\ "SUCCEEDED" \in AttemptState /\ "SUCCEEDED" \in JobState /\ "null" \in Category
      /\ <<"SUCCEEDED", "SUCCEEDED">> \in Agreement
  BY DEF AttemptState, JobState, Category, Agreement
<1>4. Owns(k, n, t, g) /\ Complete(k, n, "SUCCEEDED", "SUCCEEDED", "null", 0)
  BY DEF FinalizeSucceeded
<1>. QED
  BY <1>1, <1>2, <1>3, <1>4, CompleteDecides

LEMMA PermanentDecides ==
    ASSUME StoreInv, NEW k \in Key, NEW n \in Nat, NEW t \in Token, NEW g \in Nat, NEW c,
           FinalizePermanentFailure(k, n, t, g, c)
    PROVE  Decides(k, "FAILED_PERMANENT", "PERMANENT_FAILURE")
<1>1. OwnerStep(k, n, t, g)
  BY DEF OwnerStep, FinalizePermanentFailure
<1>2. \A l \in Key : Len(attempts'[l]) = Len(attempts[l]) => SameLate(l)
  BY NotLateSame DEF FinalizePermanentFailure
<1>3. /\ "PERMANENT_FAILURE" \in AttemptState /\ "FAILED_PERMANENT" \in JobState
      /\ c \in Category
      /\ <<"FAILED_PERMANENT", "PERMANENT_FAILURE">> \in Agreement
  BY DEF AttemptState, JobState, Category, Agreement, FinalizePermanentFailure
<1>4. /\ Owns(k, n, t, g)
      /\ Complete(k, n, "PERMANENT_FAILURE", "FAILED_PERMANENT", c, 0)
  BY DEF FinalizePermanentFailure
<1>. QED
  BY <1>1, <1>2, <1>3, <1>4, CompleteDecides

LEMMA RateLimitedDecides ==
    ASSUME StoreInv, NEW k \in Key, NEW n \in Nat, NEW t \in Token, NEW g \in Nat,
           NEW d \in Delay, FinalizeRateLimited(k, n, t, g, d)
    PROVE  Decides(k, RetryState(n), "RETRYABLE_FAILURE")
<1>1. OwnerStep(k, n, t, g) /\ d \in Nat
  BY DelayAssumption DEF OwnerStep
<1>2. \A l \in Key : Len(attempts'[l]) = Len(attempts[l]) => SameLate(l)
  BY NotLateSame DEF FinalizeRateLimited
<1>3. /\ "RETRYABLE_FAILURE" \in AttemptState /\ RetryState(n) \in JobState
      /\ "rate_limited" \in Category
      /\ <<RetryState(n), "RETRYABLE_FAILURE">> \in Agreement
  BY RetryStateFits DEF AttemptState, Category
<1>4. /\ Owns(k, n, t, g)
      /\ Complete(k, n, "RETRYABLE_FAILURE", RetryState(n), "rate_limited", d)
  BY DEF FinalizeRateLimited
<1>. QED
  BY <1>1, <1>2, <1>3, <1>4, CompleteDecides

LEMMA NotSentDecides ==
    ASSUME StoreInv, NEW k \in Key, NEW n \in Nat, NEW t \in Token, NEW g \in Nat,
           NEW d \in Delay, FinalizeNotSent(k, n, t, g, d)
    PROVE  Decides(k, RetryState(n), "RETRYABLE_FAILURE")
<1>1. OwnerStep(k, n, t, g) /\ d \in Nat
  BY DelayAssumption DEF OwnerStep
<1>2. \A l \in Key : Len(attempts'[l]) = Len(attempts[l]) => SameLate(l)
  BY NotLateSame DEF FinalizeNotSent
<1>3. /\ "RETRYABLE_FAILURE" \in AttemptState /\ RetryState(n) \in JobState
      /\ "transport_not_sent" \in Category
      /\ <<RetryState(n), "RETRYABLE_FAILURE">> \in Agreement
  BY RetryStateFits DEF AttemptState, Category
<1>4. /\ Owns(k, n, t, g)
      /\ Complete(k, n, "RETRYABLE_FAILURE", RetryState(n), "transport_not_sent", d)
  BY DEF FinalizeNotSent
<1>. QED
  BY <1>1, <1>2, <1>3, <1>4, CompleteDecides

(* What a reconciliation result makes of the job. *)
LEMMA RecordDecides ==
    ASSUME StoreInv, NEW k \in Key, NEW n \in Nat, NEW t \in Token, NEW g \in Nat, NEW e,
           RecordReconciliationResult(k, n, t, g, e)
    PROVE  /\ n = Len(attempts'[k])
           /\ \/ e = "matched" /\ Decides(k, "SUCCEEDED", "SUCCEEDED")
              \/ e = "conflict" /\ Decides(k, "FAILED_PERMANENT", "PERMANENT_FAILURE")
              \/ Decides(k, "AMBIGUOUS", "AMBIGUOUS")
<1>1. OwnerStep(k, n, t, g) /\ Owns(k, n, t, g) /\ observations' = observations
  BY DEF OwnerStep, RecordReconciliationResult
<1>2. \A l \in Key : Len(attempts'[l]) = Len(attempts[l]) => SameLate(l)
  BY <1>1 DEF SameLate
<1>3. /\ {"SUCCEEDED", "PERMANENT_FAILURE", "AMBIGUOUS"} \subseteq AttemptState
      /\ {"SUCCEEDED", "FAILED_PERMANENT", "AMBIGUOUS"} \subseteq JobState
      /\ {"null", "idempotency_conflict", "reconciliation_not_found",
          "reconciliation_inconclusive"} \subseteq Category
      /\ {<<"SUCCEEDED", "SUCCEEDED">>, <<"FAILED_PERMANENT", "PERMANENT_FAILURE">>,
          <<"AMBIGUOUS", "AMBIGUOUS">>} \subseteq Agreement
  BY DEF AttemptState, JobState, Category, Agreement
<1>4. ASSUME e = "matched", Complete(k, n, "SUCCEEDED", "SUCCEEDED", "null", 0)
      PROVE  Decides(k, "SUCCEEDED", "SUCCEEDED") /\ n = Len(attempts'[k])
  BY <1>1, <1>2, <1>3, <1>4, CompleteDecides
<1>5. ASSUME e = "conflict",
             Complete(k, n, "PERMANENT_FAILURE", "FAILED_PERMANENT", "idempotency_conflict", 0)
      PROVE  Decides(k, "FAILED_PERMANENT", "PERMANENT_FAILURE") /\ n = Len(attempts'[k])
  BY <1>1, <1>2, <1>3, <1>5, CompleteDecides
<1>6. ASSUME NEW c \in {"reconciliation_not_found", "reconciliation_inconclusive"},
             Complete(k, n, "AMBIGUOUS", "AMBIGUOUS", c, 0)
      PROVE  Decides(k, "AMBIGUOUS", "AMBIGUOUS") /\ n = Len(attempts'[k])
  BY <1>1, <1>2, <1>3, <1>6, CompleteDecides
<1>. QED
  BY <1>4, <1>5, <1>6 DEF RecordReconciliationResult

(* Consuming a row changes no late row in what it says. *)
LEMMA ConsumedSame ==
    ASSUME StoreInv, NEW k \in Key, NEW i \in DOMAIN observations[k],
           observations' = [observations EXCEPT ![k][i] = [@ EXCEPT !.consumed = TRUE]],
           NEW l \in Key, Len(attempts'[l]) = Len(attempts[l])
    PROVE  SameLate(l)
<1>1. TypeOK
  BY DEF StoreInv
<1>2. observations[k] \in Seq(ObservationRow) /\ observations \in [Key -> Seq(ObservationRow)]
  BY <1>1 DEF TypeOK
<1> DEFINE new == [observations[k][i] EXCEPT !.consumed = TRUE]
<1>3. /\ observations'[k] = [observations[k] EXCEPT ![i] = new]
      /\ \A m \in Key : m # k => observations'[m] = observations[m]
  BY <1>2
<1>4. observations[k][i] \in ObservationRow
  BY <1>1, ObservationTyped
<1>5. /\ new.attempt = observations[k][i].attempt
      /\ new.category = observations[k][i].category
      /\ new.status = observations[k][i].status
  BY <1>4 DEF ObservationRow
<1>6. new.late = observations[k][i].late
  BY <1>4 DEF ObservationRow
<1> HIDE DEF new
<1>7. /\ DOMAIN observations'[k] = DOMAIN observations[k]
      /\ observations'[k][i] = new
      /\ \A j \in DOMAIN observations[k] : j # i => observations'[k][j] = observations[k][j]
  BY <1>2, <1>3
<1>8. CASE l = k
  BY <1>5, <1>6, <1>7, <1>8 DEF SameLate
<1>9. CASE l # k
  BY <1>3, <1>9 DEF SameLate
<1>. QED
  BY <1>8, <1>9

(* What consumed late evidence makes of the job. *)
LEMMA ConsumeDecides ==
    ASSUME StoreInv, NEW k \in Key, NEW n \in Nat, NEW t \in Token, NEW g \in Nat,
           NEW d \in Delay, ConsumeLateObservations(k, n, t, g, d)
    PROVE  /\ n = Len(attempts'[k]) /\ n = Len(attempts[k])
           /\ \E i \in UnconsumedLate(k, n) :
                 \/ /\ observations[k][i].category = "processed"
                    /\ Decides(k, "SUCCEEDED", "SUCCEEDED")
                 \/ /\ observations[k][i].category # "processed"
                    /\ \E js \in {"RETRY_SCHEDULED", "FAILED_PERMANENT"}, as \in AttemptState :
                          Decides(k, js, as)
<1>0. PICK i \in UnconsumedLate(k, n) :
         LET row == observations[k][i] IN
         /\ observations' = [observations EXCEPT ![k][i] = [@ EXCEPT !.consumed = TRUE]]
         /\ \/ /\ row.category = "processed"
               /\ Complete(k, n, "SUCCEEDED", "SUCCEEDED", "null", 0)
            \/ /\ row.category = "rate_limited"
               /\ Complete(k, n, "RETRYABLE_FAILURE", RetryState(n), "rate_limited", d)
            \/ /\ row.category \notin {"processed", "rate_limited"}
               /\ Complete(k, n, "PERMANENT_FAILURE", "FAILED_PERMANENT", row.category, 0)
  BY DEF ConsumeLateObservations
<1> DEFINE c == observations[k][i].category
<1>1. OwnerStep(k, n, t, g) /\ Owns(k, n, t, g) /\ d \in Nat /\ TypeOK
  BY DelayAssumption DEF OwnerStep, ConsumeLateObservations, StoreInv
<1>2. i \in DOMAIN observations[k]
  BY DEF UnconsumedLate
<1>3. \A l \in Key : Len(attempts'[l]) = Len(attempts[l]) => SameLate(l)
  BY <1>0, <1>2, ConsumedSame
<1>4. c \in Category
  BY <1>1, <1>2, ObservationTyped
<1>5. /\ {"SUCCEEDED", "PERMANENT_FAILURE", "RETRYABLE_FAILURE"} \subseteq AttemptState
      /\ {"SUCCEEDED", "FAILED_PERMANENT"} \subseteq JobState
      /\ RetryState(n) \in JobState
      /\ {"null", "rate_limited"} \subseteq Category
      /\ {<<"SUCCEEDED", "SUCCEEDED">>, <<"FAILED_PERMANENT", "PERMANENT_FAILURE">>,
          <<RetryState(n), "RETRYABLE_FAILURE">>} \subseteq Agreement
  BY RetryStateFits DEF AttemptState, JobState, Category, Agreement
<1>6. RetryState(n) \in {"RETRY_SCHEDULED", "FAILED_PERMANENT"}
  BY DEF RetryState
<1>7. ASSUME Complete(k, n, "SUCCEEDED", "SUCCEEDED", "null", 0)
      PROVE  /\ Decides(k, "SUCCEEDED", "SUCCEEDED")
             /\ n = Len(attempts'[k]) /\ n = Len(attempts[k])
  BY <1>1, <1>3, <1>5, <1>7, CompleteDecides
<1>8. ASSUME Complete(k, n, "RETRYABLE_FAILURE", RetryState(n), "rate_limited", d)
      PROVE  /\ Decides(k, RetryState(n), "RETRYABLE_FAILURE")
             /\ n = Len(attempts'[k]) /\ n = Len(attempts[k])
  BY <1>1, <1>3, <1>5, <1>8, CompleteDecides
<1>9. ASSUME Complete(k, n, "PERMANENT_FAILURE", "FAILED_PERMANENT", c, 0)
      PROVE  /\ Decides(k, "FAILED_PERMANENT", "PERMANENT_FAILURE")
             /\ n = Len(attempts'[k]) /\ n = Len(attempts[k])
  BY <1>1, <1>3, <1>4, <1>5, <1>9, CompleteDecides
<1> HIDE DEF c
<1>10. CASE c = "processed" /\ Complete(k, n, "SUCCEEDED", "SUCCEEDED", "null", 0)
  BY <1>7, <1>10 DEF c
<1>11. CASE c = "rate_limited"
            /\ Complete(k, n, "RETRYABLE_FAILURE", RetryState(n), "rate_limited", d)
  BY <1>5, <1>6, <1>8, <1>11 DEF c
<1>12. CASE c \notin {"processed", "rate_limited"}
            /\ Complete(k, n, "PERMANENT_FAILURE", "FAILED_PERMANENT", c, 0)
  BY <1>5, <1>9, <1>12 DEF c
<1>. QED
  BY <1>0, <1>10, <1>11, <1>12 DEF c

(* Why a job may get the state js. *)
Justified(t, js) ==
    LET k == inv[t].key IN
    \/ js = "SUCCEEDED" /\ accepted[k] = 1
    \/ js = "AMBIGUOUS"
    \/ js = "FAILED_PERMANENT" /\ BoundElsewhere(k)
    \/ js \in {"RETRY_SCHEDULED", "FAILED_PERMANENT"} /\ (Certain(t) \/ Silent(k))

LEMMA CertainLeaves ==
    ASSUME FullInv, NEW t \in Token, Certain(t), Progress(t), UNCHANGED service,
           inv'[t].pc \notin Dispatching, NEW k \in Key, k = inv[t].key
    PROVE  Silent(k)'
<1>1. KeyInv(k)
  BY DEF FullInv, WorkInv
<1>2. Dispatcher(k, t) /\ Unsent(k)
  BY <1>1 DEF Dispatcher, Certain, Dispatching, KeyInv, OnePost
<1>3. Unsent(k)'
  BY <1>2, UnsentStays
<1>4. ASSUME NEW u \in Token PROVE ~Dispatcher(k, u)'
  <2>1. u # t => inv'[u] = inv[u]
    BY DEF Progress
  <2>2. u # t => ~Dispatcher(k, u)
    BY <1>1, <1>2 DEF KeyInv, OnePost
  <2>. QED
    BY <2>1, <2>2 DEF Dispatcher
<1>. QED
  BY <1>3, <1>4 DEF Silent

LEMMA JustifiedJudged ==
    ASSUME FullInv, NEW t \in Token, Progress(t), UNCHANGED service,
           inv'[t].pc \notin Dispatching, NEW js, Justified(t, js),
           NEW k \in Key, k = inv[t].key, jobs'[k].state = js
    PROVE  Judged(k)'
<1>1. Silent(k) => Silent(k)'
  BY SilentStays
<1>2. Certain(t) => Silent(k)'
  BY CertainLeaves
<1>3. UNCHANGED <<accepted, remote>>
  BY DEF service
<1>. QED
  BY <1>1, <1>2, <1>3 DEF Justified, Judged, BoundElsewhere

(* The step that decides keeps the invariant. *)
LEMMA DecisionKeeps ==
    ASSUME FullInv, NEW t \in Token, UNCHANGED service,
           NEW js, NEW as, Decides(inv[t].key, js, as), Justified(t, js),
           Progress(t), inv'[t].pc \notin Dispatching,
           inv' \in [Token -> Invocation], TokenInv(t)'
    PROVE  FullInv'
<1>0. PICK k \in Key : k = inv[t].key
  BY Known
<1>1. /\ StoreInv' /\ StoreMoves
      /\ \A l \in Key : SameLate(l) /\ (l # k => jobs'[l] = jobs[l])
      /\ jobs'[k].state = js
  BY <1>0 DEF Decides
<1>2. Judged(k)'
  BY <1>0, <1>1, JustifiedJudged
<1>3. \A l \in Key : Still(l) \/ Judged(l)'
  BY <1>1, <1>2 DEF Still
<1>. QED
  BY <1>1, <1>3, StepKeeps

(* It is reported as it is stored. *)
LEMMA DecisionEnds ==
    ASSUME FullInv, NEW t \in Token, UNCHANGED service,
           NEW js, NEW as, Decides(inv[t].key, js, as), Justified(t, js), Mine(t),
           NEW s, NEW o, Now(t, "done", "authorize", 0, "none", s, o), s = MayHavePosted(t),
           o = Render(jobs'[inv[t].key], attempts'[inv[t].key][Len(attempts'[inv[t].key])])
    PROVE  FullInv'
<1>0. PICK k \in Key : k = inv[t].key
  BY Known
<1>1. /\ StoreInv' /\ StoreMoves /\ <<js, as>> \in Agreement
      /\ jobs'[k].state = js /\ jobs'[k].payload = jobs[k].payload
      /\ attempts'[k][Len(attempts'[k])].state = as
  BY <1>0 DEF Decides
<1>2. NoNearer(t, "done", "none")
  BY DEF NoNearer, Dispatching, Early
<1>3. Progress(t) /\ inv'[t].pc \notin Dispatching /\ inv' \in [Token -> Invocation]
  <2>1. Progress(t)
    BY <1>2, NowProgress
  <2>. QED
    BY <2>1 DEF Now, Dispatching, Early
<1>4. jobs'[k].payload = inv[t].payload
  BY <1>0, <1>1 DEF Mine
<1>5. /\ o \in FinalReport => js \in Terminal
      /\ o \notin {"already_completed", "idempotency_conflict"}
  <2> DEFINE a == attempts'[k][Len(attempts'[k])]
  <2>1. o = Render(jobs'[k], a) /\ a.state = as
    BY <1>0, <1>1
  <2> HIDE DEF a
  <2>. QED
    BY <1>1, <2>1 DEF Render, FinalReport, Terminal, Agreement
<1>6. OutcomeHolds(t)'
  <2>1. inv'[t].key = k /\ inv'[t].payload = inv[t].payload /\ inv'[t].outcome = o
    BY <1>0 DEF Now
  <2>2. Latest(k)' = attempts'[k][Len(attempts'[k])]
    BY DEF Latest
  <2>3. o = Render(jobs'[k], Latest(k)')
    BY <1>0, <2>2
  <2>. QED
    BY <1>1, <1>4, <1>5, <2>1, <2>3 DEF OutcomeHolds, Latest
<1>7. wire'[t] = wire[t]
  BY DEF service
<1>8. TokenInv(t)'
  BY <1>1, <1>6, <1>7, TokenEnds
<1>. QED
  BY <1>3, <1>8, DecisionKeeps

(* The invocation that decides ends with what is stored. *)
LEMMA DecisionReported ==
    ASSUME FullInv, NEW t \in Token, UNCHANGED service,
           NEW js, NEW as, Decides(inv[t].key, js, as), Justified(t, js),
           inv[t].pc \in OnAttempt \ {"posted"}, NEW o, EndAs(t, o),
           o = Render(jobs'[inv[t].key], attempts'[inv[t].key][Len(attempts'[inv[t].key])])
    PROVE  FullInv'
<1>1. WorkTypeOK /\ Mine(t)
  BY Known, AttemptKnown
<1>2. o \in Outcome
  BY RenderedOutcome
<1>3. inv[t].submitted = MayHavePosted(t)
  BY SubmittedKnown DEF OnAttempt, Dispatching, Early
<1>4. Now(t, "done", "authorize", 0, "none", inv[t].submitted, o)
  BY <1>1, <1>2, EndAsNow
<1>. QED
  BY <1>1, <1>3, <1>4, DecisionEnds

LEMMA FinalizeSucceededKeeps ==
    ASSUME FullInv, NEW t \in Token, At(t, "finalize"), inv[t].evidence = "processed",
           FinalizeSucceeded(inv[t].key, inv[t].n, t, inv[t].gen), End(t, "succeeded", TRUE),
           UNCHANGED service
    PROVE  FullInv'
<1> DEFINE k == inv[t].key
<1>1. /\ StoreInv /\ WorkTypeOK /\ TokenInv(t) /\ k \in Key
      /\ inv[t].n \in Nat /\ inv[t].gen \in Nat
  BY Known
<1>2. Decides(k, "SUCCEEDED", "SUCCEEDED")
  BY <1>1, SucceededDecides
<1>3. Justified(t, "SUCCEEDED")
  BY <1>1 DEF Justified, TokenInv, Truth
<1>4. TRUE = MayHavePosted(t)
  BY <1>1 DEF TokenInv, Routed, MayHavePosted
<1>5. Mine(t)
  BY AttemptKnown DEF At, OnAttempt, Dispatching
<1>6. "succeeded" \in Outcome /\ TRUE \in BOOLEAN
  BY DEF Outcome
<1>7. Now(t, "done", "authorize", 0, "none", TRUE, "succeeded")
  BY <1>1, <1>6, EndNow
<1>8. "succeeded" = Render(jobs'[k], attempts'[k][Len(attempts'[k])])
  BY <1>2 DEF Decides, Render
<1>. QED
  BY <1>2, <1>3, <1>4, <1>5, <1>7, <1>8, DecisionEnds

LEMMA FinalizePermanentKeeps ==
    ASSUME FullInv, NEW t \in Token, At(t, "finalize"),
           inv[t].evidence \in {"validation_rejected", "idempotency_conflict"},
           FinalizePermanentFailure(inv[t].key, inv[t].n, t, inv[t].gen, inv[t].evidence),
           EndAs(t, "failed_permanent"), UNCHANGED service
    PROVE  FullInv'
<1> DEFINE k == inv[t].key
<1>1. StoreInv /\ k \in Key /\ inv[t].n \in Nat /\ inv[t].gen \in Nat
  BY Known
<1>2. Decides(k, "FAILED_PERMANENT", "PERMANENT_FAILURE")
  BY <1>1, PermanentDecides
<1>3. Justified(t, "FAILED_PERMANENT")
  BY DEF Justified, Certain, Negative, At
<1>4. "failed_permanent" = Render(jobs'[k], attempts'[k][Len(attempts'[k])])
  BY <1>2 DEF Decides, Render
<1>5. inv[t].pc \in OnAttempt \ {"posted"}
  BY DEF At, OnAttempt, Dispatching
<1>. QED
  BY <1>2, <1>3, <1>4, <1>5, DecisionReported

LEMMA RetryKeeps ==
    ASSUME FullInv, NEW t \in Token, inv[t].pc = "finalize", Certain(t), UNCHANGED service,
           Decides(inv[t].key, RetryState(inv[t].n), "RETRYABLE_FAILURE"),
           NEW d \in Nat, RetryOrExhausted(t, d)
    PROVE  FullInv'
<1> DEFINE i == inv[t]
           k == inv[t].key
           js == RetryState(i.n)
<1>1. /\ WorkTypeOK /\ i \in Invocation /\ k \in Key /\ i.payload \in Payload
      /\ clock \in Nat /\ i.slept \in Nat
  BY Known, KnownSleep
<1>2. js \in {"RETRY_SCHEDULED", "FAILED_PERMANENT"}
  BY DEF RetryState
<1>3. Justified(t, js)
  BY <1>2 DEF Justified
<1>4. i.pc \in OnAttempt \ {"posted"}
  BY DEF OnAttempt, Dispatching
<1>5. /\ StoreInv' /\ StoreMoves /\ jobs'[k].state = js
      /\ attempts'[k][Len(attempts'[k])].state = "RETRYABLE_FAILURE"
  BY DEF Decides
<1>6. CASE js = "RETRY_SCHEDULED"
  <2> DEFINE b == Started(k, i.payload)
             u == clock + d
             r == [b EXCEPT !.pc = "wait", !.until = u, !.slept = i.slept,
                            !.submitted = i.submitted, !.outcome = "retry_scheduled"]
  <2>1. /\ b \in Invocation /\ b.key = k /\ b.payload = i.payload
        /\ b.then = "authorize" /\ b.n = 0 /\ b.evidence = "none"
    BY <1>1, StartedFields
  <2>2. i.submitted \in BOOLEAN /\ u \in Nat
    BY <1>1 DEF Invocation
  <2>3. Become(t, r)
    BY <1>6 DEF RetryOrExhausted
  <2>4. "wait" \in Pc /\ "retry_scheduled" \in Outcome
    BY DEF Pc, Outcome
  <2> HIDE DEF b, u
  <2>5. /\ r \in Invocation /\ r.key = k /\ r.payload = i.payload
        /\ r.pc = "wait" /\ r.then = "authorize" /\ r.n = 0 /\ r.evidence = "none"
        /\ r.outcome = "retry_scheduled"
    BY <1>1, <2>1, <2>2, <2>4 DEF Invocation
  <2>6. r.submitted = i.submitted
    BY <2>1 DEF Invocation
  <2> HIDE DEF r
  <2>7. Now(t, "wait", "authorize", 0, "none", i.submitted, "retry_scheduled")
    <3>1. Now(t, r.pc, r.then, r.n, r.evidence, r.submitted, r.outcome)
      BY <1>1, <2>3, <2>5, BecomeNow
    <3>. QED
      BY <2>5, <2>6, <3>1
  <2>8. Onward(t, "wait", "authorize", 0, "none", "retry_scheduled")
    BY DEF Onward, Unreported, Resumes, OnAttempt, Dispatching, Early
  <2>9. NoNearer(t, "wait", "none")
    BY DEF NoNearer, Dispatching, Early
  <2>10. ServiceMoves /\ wire'[t] = wire[t]
    BY DEF ServiceMoves, BoundElsewhere, service
  <2>11. TokenInv(t)'
    BY <1>5, <2>7, <2>8, <2>10, TokenMoves
  <2>12. Progress(t)
    BY <2>7, <2>9, NowProgress
  <2>13. inv'[t].pc \notin Dispatching /\ inv' \in [Token -> Invocation]
    BY <2>7 DEF Now, Dispatching, Early
  <2>. QED
    BY <1>3, <2>11, <2>12, <2>13, DecisionKeeps
<1>7. CASE js # "RETRY_SCHEDULED"
  <2>1. EndAs(t, "retry_exhausted")
    BY <1>7 DEF RetryOrExhausted
  <2>2. jobs'[k].state = "FAILED_PERMANENT"
    BY <1>2, <1>5, <1>7
  <2>3. "retry_exhausted" = Render(jobs'[k], attempts'[k][Len(attempts'[k])])
    BY <1>5, <2>2 DEF Render
  <2>. QED
    BY <1>3, <1>4, <2>1, <2>3, DecisionReported
<1>. QED
  BY <1>6, <1>7

LEMMA FinalizeKeeps ==
    ASSUME FullInv, NEW t \in Token, Finalize(t)
    PROVE  FullInv'
<1> DEFINE i == inv[t]
           k == i.key
           e == i.evidence
<1>1. /\ At(t, "finalize") /\ i.pc = "finalize" /\ UNCHANGED service
      /\ StoreInv /\ k \in Key /\ i.n \in Nat /\ i.gen \in Nat
  BY Known DEF Finalize, At
<1>2. CASE /\ e = "processed"
           /\ FinalizeSucceeded(k, i.n, t, i.gen)
           /\ End(t, "succeeded", TRUE)
  BY <1>1, <1>2, FinalizeSucceededKeeps
<1>3. CASE /\ e \in {"validation_rejected", "idempotency_conflict"}
           /\ FinalizePermanentFailure(k, i.n, t, i.gen, e)
           /\ EndAs(t, "failed_permanent")
  BY <1>1, <1>3, FinalizePermanentKeeps
<1>4. ASSUME NEW d \in Delay,
             \/ e = "rate_limited" /\ FinalizeRateLimited(k, i.n, t, i.gen, d)
             \/ e = "transport_not_sent" /\ FinalizeNotSent(k, i.n, t, i.gen, d),
             RetryOrExhausted(t, d)
      PROVE  FullInv'
  <2>1. Decides(k, RetryState(i.n), "RETRYABLE_FAILURE") /\ d \in Nat
    BY <1>1, <1>4, RateLimitedDecides, NotSentDecides, DelayAssumption
  <2>2. Certain(t)
    BY <1>1, <1>4 DEF Certain, Negative
  <2>. QED
    BY <1>1, <1>4, <2>1, <2>2, RetryKeeps
<1>5. CASE /\ FinalizeRetained(k, i.n, t, i.gen)
           /\ Become(t, [i EXCEPT !.pc = "late", !.evidence = "none"])
  BY <1>1, <1>5, RetainedKeeps
<1>6. CASE Goto(t, "appendLate") /\ UNCHANGED storeVars
  BY <1>1, <1>6, StaleKeeps
<1>. QED
  BY <1>2, <1>3, <1>4, <1>5, <1>6 DEF Finalize

LEMMA CancelKeeps ==
    ASSUME FullInv, NEW t \in Token, CancelBeforeDispatch(t)
    PROVE  FullInv'
<1> DEFINE i == inv[t]
           k == i.key
<1>1. /\ UNCHANGED service /\ Vanish(t) /\ i.pc \in Early
      /\ StoreInv /\ WorkTypeOK /\ k \in Key /\ i.n \in Nat /\ i.gen \in Nat
  BY Known DEF CancelBeforeDispatch, Early
<1>2. ASSUME NEW d \in Delay, FinalizeNotSent(k, i.n, t, i.gen, d)
      PROVE  FullInv'
  <2>1. Decides(k, RetryState(i.n), "RETRYABLE_FAILURE")
    BY <1>1, <1>2, NotSentDecides
  <2>2. Justified(t, RetryState(i.n))
    BY <1>1 DEF Justified, Certain, RetryState
  <2>3. StoreInv' /\ StoreMoves /\ wire'[t] = wire[t]
    BY <1>1, <2>1 DEF Decides, service
  <2>4. TokenInv(t)' /\ inv' \in [Token -> Invocation] /\ Progress(t)
    BY <1>1, <2>3, TokenVanishes
  <2>5. inv'[t].pc \notin Dispatching
    BY <1>1, VanishNow DEF Now, Dispatching, Early
  <2>. QED
    BY <1>1, <2>1, <2>2, <2>4, <2>5, DecisionKeeps
<1>3. CASE UNCHANGED storeVars
  BY <1>1, <1>3, IdleQuiet, QuietVanish
<1>. QED
  BY <1>2, <1>3 DEF CancelBeforeDispatch

LEMMA RecordKeeps ==
    ASSUME FullInv, NEW t \in Token, Record(t)
    PROVE  FullInv'
<1> DEFINE i == inv[t]
           k == i.key
<1>1. /\ UNCHANGED service /\ i.pc = "record" /\ TokenInv(t)
      /\ StoreInv /\ WorkTypeOK /\ k \in Key /\ i.n \in Nat /\ i.gen \in Nat
  BY Known DEF Record, At
<1>2. CASE /\ RecordReconciliationResult(i.key, i.n, t, i.gen, i.evidence)
           /\ EndAs(t, Render(jobs'[i.key], attempts'[i.key][i.n]))
  <2> DEFINE o == Render(jobs'[k], attempts'[k][i.n])
  <2>1. i.pc \in OnAttempt \ {"posted"} /\ i.n = Len(attempts'[k])
    BY <1>1, <1>2, RecordDecides DEF OnAttempt
  <2>2. o = Render(jobs'[k], attempts'[k][Len(attempts'[k])]) /\ EndAs(t, o)
    BY <1>2, <2>1
  <2> HIDE DEF o
  <2>3. CASE i.evidence = "matched" /\ Decides(k, "SUCCEEDED", "SUCCEEDED")
    <3>1. Justified(t, "SUCCEEDED")
      BY <1>1, <2>3 DEF Justified, TokenInv, Truth
    <3>. QED
      BY <1>1, <2>1, <2>2, <2>3, <3>1, DecisionReported
  <2>4. CASE i.evidence = "conflict" /\ Decides(k, "FAILED_PERMANENT", "PERMANENT_FAILURE")
    <3>1. Justified(t, "FAILED_PERMANENT")
      BY <1>1, <2>4 DEF Justified, TokenInv, Truth
    <3>. QED
      BY <1>1, <2>1, <2>2, <2>4, <3>1, DecisionReported
  <2>5. CASE Decides(k, "AMBIGUOUS", "AMBIGUOUS")
    <3>1. Justified(t, "AMBIGUOUS")
      BY DEF Justified
    <3>. QED
      BY <1>1, <2>1, <2>2, <2>5, <3>1, DecisionReported
  <2>. QED
    BY <1>1, <1>2, <2>3, <2>4, <2>5, RecordDecides
<1>3. CASE Goto(t, "appendLateGet") /\ UNCHANGED storeVars
  <2>1. i.pc \in Reconciling /\ "appendLateGet" \in Reconciling
    BY <1>1 DEF Reconciling
  <2>. QED
    BY <1>1, <1>3, <2>1, NoLateKeeps
<1>. QED
  BY <1>2, <1>3 DEF Record

LEMMA ConsumeLateKeeps ==
    ASSUME FullInv, NEW t \in Token, NEW pc \in Reconciling, NEW next \in Reconciling,
           ConsumeLate(t, pc, next)
    PROVE  FullInv'
<1> DEFINE i == inv[t]
           k == i.key
<1>1. /\ UNCHANGED service /\ i.pc \in Reconciling /\ KeyInv(k)
      /\ StoreInv /\ WorkTypeOK /\ k \in Key /\ i.n \in Nat /\ i.gen \in Nat
  BY Known DEF ConsumeLate, At
<1>2. ASSUME NEW d \in Delay, ConsumeLateObservations(k, i.n, t, i.gen, d),
             EndAs(t, Render(jobs'[i.key], attempts'[i.key][i.n]))
      PROVE  FullInv'
  <2> DEFINE o == Render(jobs'[k], attempts'[k][i.n])
  <2>1. /\ i.n = Len(attempts'[k]) /\ i.n = Len(attempts[k])
        /\ \E x \in UnconsumedLate(k, i.n) :
              \/ /\ observations[k][x].category = "processed"
                 /\ Decides(k, "SUCCEEDED", "SUCCEEDED")
              \/ /\ observations[k][x].category # "processed"
                 /\ \E js \in {"RETRY_SCHEDULED", "FAILED_PERMANENT"}, as \in AttemptState :
                       Decides(k, js, as)
    BY <1>1, <1>2, ConsumeDecides
  <2>2. PICK x \in UnconsumedLate(k, i.n) :
              \/ /\ observations[k][x].category = "processed"
                 /\ Decides(k, "SUCCEEDED", "SUCCEEDED")
              \/ /\ observations[k][x].category # "processed"
                 /\ \E js \in {"RETRY_SCHEDULED", "FAILED_PERMANENT"}, as \in AttemptState :
                       Decides(k, js, as)
    BY <2>1
  <2>3. o = Render(jobs'[k], attempts'[k][Len(attempts'[k])]) /\ EndAs(t, o)
    BY <1>2, <2>1
  <2>4. LateRow(k, observations[k][x])
    BY <1>1 DEF UnconsumedLate, KeyInv, LateRows
  <2>5. /\ observations[k][x].late /\ Actionable(observations[k][x])
        /\ observations[k][x].attempt = i.n
    BY DEF UnconsumedLate
  <2>6. i.pc \in OnAttempt \ {"posted"}
    BY <1>1 DEF Reconciling, OnAttempt
  <2> HIDE DEF o
  <2>7. CASE /\ observations[k][x].category = "processed"
             /\ Decides(k, "SUCCEEDED", "SUCCEEDED")
    <3>1. Justified(t, "SUCCEEDED")
      BY <2>4, <2>5, <2>7 DEF LateRow, Justified
    <3>. QED
      BY <1>1, <2>3, <2>6, <2>7, <3>1, DecisionReported
  <2>8. ASSUME observations[k][x].category # "processed",
               NEW js \in {"RETRY_SCHEDULED", "FAILED_PERMANENT"}, NEW as \in AttemptState,
               Decides(k, js, as)
        PROVE  FullInv'
    <3>1. Silent(k)
      BY <2>1, <2>4, <2>5, <2>8 DEF LateRow
    <3>2. Justified(t, js)
      BY <3>1 DEF Justified
    <3>. QED
      BY <1>1, <2>3, <2>6, <2>8, <3>2, DecisionReported
  <2>. QED
    BY <2>2, <2>7, <2>8
<1>3. CASE Goto(t, next) /\ UNCHANGED storeVars
  BY <1>1, <1>3, NoLateKeeps
<1>. QED
  BY <1>2, <1>3 DEF ConsumeLate

-----------------------------------------------------------------------------
(* An attempt is started: whoever starts it is the only one to POST *)

LEMMA StartedPayload ==
    ASSUME TypeOK, NEW k \in Key, NEW p \in Payload, NEW t \in Token, StartAttempt(k, p, t)
    PROVE  jobs'[k].payload = p
<1> DEFINE job == JobToSubmit(k, p)
<1>1. job \in [state : JobState, payload : Payload \cup {NoPayload}, createdAt : Nat]
  <2>1. jobs[k] \in JobRow
    BY DEF TypeOK
  <2>2. NewJob(p) \in JobRow
    BY DEF NewJob, JobRow, JobState, TypeOK
  <2>. QED
    BY <2>1, <2>2 DEF JobToSubmit, JobRow
<1>2. job.payload = p
  BY DEF JobToSubmit, NewJob, StartAttempt, Submittable
<1>3. jobs' = [jobs EXCEPT ![k] = InState(job, "SUBMITTING")]
  BY DEF StartAttempt, Authorize
<1> HIDE DEF job
<1>4. InState(job, "SUBMITTING").payload = p
  BY <1>1, <1>2 DEF InState
<1>. QED
  BY <1>3, <1>4 DEF TypeOK

LEMMA AuthorizedNow ==
    ASSUME FullInv, NEW t \in Token, Authorized(t)
    PROVE  LET i == inv[t] IN
           Now(t, "renew", i.then, Len(attempts[i.key]) + 1, i.evidence, i.submitted, i.outcome)
<1> DEFINE i == inv[t]
           m == Len(attempts[i.key]) + 1
           r == [i EXCEPT !.pc = "renew", !.n = m, !.gen = 1]
<1>1. WorkTypeOK /\ i \in Invocation /\ i.key \in Key /\ TypeOK
  BY Known
<1>2. m \in Nat
  BY <1>1 DEF TypeOK
<1>3. Become(t, r) /\ "renew" \in Pc
  BY PcTyped DEF Authorized
<1> HIDE DEF m
<1>4. /\ r \in Invocation /\ r.key = i.key /\ r.payload = i.payload
      /\ r.pc = "renew" /\ r.then = i.then /\ r.n = m
      /\ r.evidence = i.evidence /\ r.outcome = i.outcome
  BY <1>1, <1>2, <1>3 DEF Invocation
<1>5. r.submitted = i.submitted
  BY <1>1 DEF Invocation
<1> HIDE DEF r
<1>6. Now(t, r.pc, r.then, r.n, r.evidence, r.submitted, r.outcome)
  BY <1>1, <1>3, <1>4, BecomeNow
<1>. QED
  BY <1>4, <1>5, <1>6 DEF m

LEMMA AuthorizedKey ==
    ASSUME FullInv, NEW t \in Token, Authorized(t), UNCHANGED service,
           NEW k \in Key, k = inv[t].key
    PROVE  KeyInv(k)'
<1>0. /\ StoreInv /\ TypeOK /\ JobMatchesAttempts /\ KeyInv(k)
      /\ inv[t].payload \in Payload /\ StartAttempt(k, inv[t].payload, t)
  BY Known DEF Authorized
<1>1. /\ Len(attempts'[k]) = Len(attempts[k]) + 1
      /\ jobs'[k].state = "SUBMITTING"
      /\ jobs[k].state \in {"ABSENT", "PENDING", "RETRY_SCHEDULED"}
      /\ observations' = observations
  BY <1>0, StartEffect DEF StartAttempt, Authorize
<1>2. Silent(k)
  BY <1>0, <1>1 DEF KeyInv, Judged
<1>3. UNCHANGED <<wire, accepted, remote>>
  BY DEF service
<1>4. /\ \A u \in Token : u # t => inv'[u] = inv[u]
      /\ \A u \in Token : inv'[u].key = inv[u].key
  BY AuthorizedNow DEF Now
<1>5. Unsent(k)'
  BY <1>2, <1>3, <1>4 DEF Silent, Unsent, InFlight
<1>6. \A u \in Token : Dispatcher(k, u)' => u = t
  BY <1>2, <1>4 DEF Silent, Dispatcher
<1>7. OnePost(k)'
  BY <1>5, <1>6 DEF OnePost, Unsent
<1>8. ServiceAgrees(k)'
  BY <1>0, <1>2, <1>3 DEF KeyInv, ServiceAgrees, Silent, Unsent
<1>9. Judged(k)'
  BY <1>1 DEF Judged
<1>10. ASSUME NEW x \in DOMAIN observations[k] PROVE LateRow(k, observations[k][x])'
  <2>1. LateRow(k, observations[k][x])
    BY <1>0 DEF KeyInv, LateRows
  <2>2. Len(attempts[k]) \in Nat
    BY <1>0 DEF TypeOK
  <2>3. observations'[k][x] = observations[k][x]
    BY <1>1
  <2> DEFINE row == observations[k][x]
  <2>4. row.late /\ Actionable(row) =>
           /\ row.attempt \in 1 .. Len(attempts'[k])
           /\ row.category = "processed" => accepted'[k] = 1
           /\ row.attempt # Len(attempts'[k])
    BY <1>1, <1>3, <2>1, <2>2 DEF LateRow, AttemptNumbers
  <2> HIDE DEF row
  <2>5. LateRow(k, row)'
    BY <2>3, <2>4 DEF LateRow, Actionable, AttemptNumbers, row
  <2>. QED
    BY <2>5 DEF row
<1>11. LateRows(k)'
  BY <1>1, <1>10 DEF LateRows
<1>. QED
  BY <1>7, <1>8, <1>9, <1>11 DEF KeyInv

LEMMA AuthorizedKeeps ==
    ASSUME FullInv, NEW t \in Token, At(t, "authorize"), Authorized(t), UNCHANGED service
    PROVE  FullInv'
<1> DEFINE i == inv[t]
<1>0. PICK k \in Key : k = inv[t].key
  BY Known
<1>1. /\ StoreInv /\ WorkTypeOK /\ TypeOK /\ JobMatchesAttempts /\ TokenInv(t)
      /\ i.payload \in Payload /\ StartAttempt(k, i.payload, t) /\ i.pc = "authorize"
  BY <1>0, Known DEF Authorized, At
<1>2. StoreInv' /\ StoreMoves
  BY <1>1, StartMoves, KindsMove
<1>3. /\ \A l \in Key : l # k => jobs'[l] = jobs[l] /\ attempts'[l] = attempts[l]
      /\ Len(attempts'[k]) = Len(attempts[k]) + 1
      /\ jobs'[k].state = "SUBMITTING" /\ jobs'[k].payload = i.payload
      /\ observations' = observations
  <2>1. attempts' = [attempts EXCEPT ![k] = Append(@, StartedRow(t))]
    BY <1>1 DEF StartAttempt, Authorize
  <2>2. \A l \in Key : l # k => attempts'[l] = attempts[l]
    BY <1>1, <2>1 DEF TypeOK
  <2>. QED
    BY <1>1, <2>2, StartEffect, StartedPayload DEF StartAttempt, Authorize
<1>4. Now(t, "renew", i.then, Len(attempts[k]) + 1, i.evidence, i.submitted, i.outcome)
  BY <1>0, AuthorizedNow
<1>5. UNCHANGED <<wire, accepted, remote>>
  BY DEF service
<1>6. OnlyMine(t)
  BY <1>0, <1>3, <1>4, <1>5 DEF OnlyMine, Now
<1>7. ServiceMoves
  BY <1>5 DEF ServiceMoves, BoundElsewhere
<1>8. KeyInv(inv[t].key)'
  <2>1. KeyInv(k)' /\ inv'[t].key = k
    BY <1>0, <1>4, AuthorizedKey DEF Now
  <2>. QED
    BY <2>1
<1>9. TokenInv(t)'
  <2>1. Mine(t)'
    BY <1>0, <1>3, <1>4 DEF Mine, Now
  <2>2. Len(attempts[k]) + 1 \in 1 .. Len(attempts'[k])
    BY <1>1, <1>3 DEF TypeOK
  <2>3. Truth(t)'
    BY <1>1, <1>4, <1>5 DEF TokenInv, Truth, Now, BoundElsewhere
  <2>4. Routed(t)'
    BY <1>0, <1>1, <1>4, <1>5, <2>1, <2>2 DEF TokenInv, Routed, Now, AttemptNumbers
  <2>5. Honest(t)'
    <3>1. i.submitted = MayHavePosted(t)
      BY <1>1, SubmittedKnown
    <3>2. inv'[t].pc = "renew" /\ inv'[t].submitted = MayHavePosted(t)'
      BY <1>4, <1>5, <3>1 DEF Now, MayHavePosted
    <3>. QED
      BY <3>2 DEF Honest
  <2>6. i.outcome = "none"
    BY <1>1 DEF TokenInv, Reported, Unreported
  <2>7. Reported(t)'
    BY <1>4, <2>6 DEF Reported, OutcomeHolds, Now, Unreported, FinalReport
  <2>. QED
    BY <2>3, <2>4, <2>5, <2>7 DEF TokenInv
<1>10. /\ inv' \in [Token -> Invocation]
       /\ wire' \in [Token -> {"none", "sent", "arrived"}]
       /\ remote' \in [Key -> Payload \cup {NoPayload, ForeignPayload}]
       /\ accepted' \in [Key -> Nat]
  BY <1>1, <1>4, <1>5 DEF WorkTypeOK, Now
<1>. QED
  BY <1>2, <1>6, <1>7, <1>8, <1>9, <1>10, OnlyMineKeeps

LEMMA PreSideEffectKeeps ==
    ASSUME FullInv, NEW t \in Token, PreSideEffect(t)
    PROVE  FullInv'
BY RefusedKeeps, SettledKeeps, InProgressKeeps, ExpiredKeeps, AuthorizedKeeps, DeferredKeeps
   DEF PreSideEffect

-----------------------------------------------------------------------------
(* A stale owner leaves its evidence behind *)

(* Its row says of the service what is true of it from now on. *)
LEMMA LateRowAdded ==
    ASSUME FullInv, NEW t \in Token, NEW k \in Key, k = inv[t].key, UNCHANGED service,
           Progress(t), inv'[t].pc \notin Dispatching,
           NEW row, Observe(k, row), UNCHANGED attempts,
           row.attempt \in AttemptNumbers(k),
           row.category = "processed" => accepted[k] = 1,
           row.category # "processed" /\ Actionable(row) => Certain(t)
    PROVE  LateRows(k)'
<1>1. /\ AttemptNumbers(k)' = AttemptNumbers(k) /\ Len(attempts'[k]) = Len(attempts[k])
      /\ accepted' = accepted
  BY DEF AttemptNumbers, service
<1>2. Silent(k) => Silent(k)'
  BY SilentStays
<1>3. Certain(t) => Silent(k)'
  BY CertainLeaves
<1>4. LateRow(k, row)'
  BY <1>1, <1>3 DEF LateRow, Actionable
<1>5. ASSUME NEW x \in DOMAIN observations[k] PROVE LateRow(k, observations[k][x])
  BY DEF FullInv, WorkInv, KeyInv, LateRows
<1>6. ASSUME NEW x \in DOMAIN observations'[k] PROVE LateRow(k, observations[k][x])'
  <2>1. CASE observations'[k][x] = row
    BY <1>4, <2>1 DEF LateRow, Actionable
  <2>2. CASE x \in DOMAIN observations[k] /\ observations'[k][x] = observations[k][x]
    <3> DEFINE old == observations[k][x]
    <3>1. LateRow(k, old)
      BY <1>5, <2>2
    <3> HIDE DEF old
    <3>2. LateRow(k, old)'
      BY <1>1, <1>2, <2>2, <3>1 DEF LateRow, Actionable, old
    <3>. QED
      BY <3>2 DEF old
  <2>. QED
    BY <2>1, <2>2, ObservedRows, Known
<1>. QED
  BY <1>6 DEF LateRows

LEMMA LateKeeps ==
    ASSUME FullInv, NEW t \in Token, inv[t].pc \in {"appendLate", "appendLateGet"},
           UNCHANGED service, EndAs(t, "ownership_lost"),
           NEW op \in Operation, NEW c \in Category, NEW st \in Nat,
           AppendLateObservation(inv[t].key, inv[t].n, inv[t].gen, op, c, st),
           c = "processed" => accepted[inv[t].key] = 1,
           c # "processed" /\ c \in DOMAIN AuthoritativeStatus /\ st = AuthoritativeStatus[c]
              => Certain(t)
    PROVE  FullInv'
<1>0. PICK k \in Key : k = inv[t].key
  BY Known
<1> DEFINE row == Observation(inv[t].n, op, c, st, TRUE, inv[t].gen)
<1>1. /\ StoreInv /\ WorkTypeOK /\ KeyInv(k) /\ inv[t].n \in Nat /\ inv[t].gen \in Nat
  BY <1>0, Known
<1>2. /\ row \in ObservationRow /\ row.attempt = inv[t].n
      /\ row.category = c /\ row.status = st
  BY <1>1 DEF Observation, ObservationRow
<1>3. /\ inv[t].n \in AttemptNumbers(k) /\ Observe(k, row)
      /\ UNCHANGED <<jobs, attempts, gate, clock>>
  BY <1>0 DEF AppendLateObservation
<1> HIDE DEF row
<1>4. StoreInv' /\ StoreMoves
  BY <1>1, <1>2, <1>3, ObserveMoves, KindsMove
<1>5. Now(t, "done", "authorize", 0, "none", inv[t].submitted, "ownership_lost")
  BY <1>1, EndAsNow DEF Outcome
<1>6. Progress(t) /\ inv'[t].pc \notin Dispatching
  <2>1. NoNearer(t, "done", "none")
    BY DEF NoNearer, Dispatching, Early
  <2>2. Progress(t)
    BY <1>5, <2>1, NowProgress
  <2>. QED
    BY <1>5, <2>2 DEF Now, Dispatching, Early
<1>7. LateRows(k)'
  <2>1. row.category # "processed" /\ Actionable(row) => Certain(t)
    BY <1>2 DEF Actionable
  <2>. QED
    BY <1>0, <1>2, <1>3, <1>6, <2>1, LateRowAdded
<1>8. KeyInv(inv[t].key)'
  <2>1. ServiceAgrees(k)'
    BY <1>1, <1>4, AgreesStays DEF StoreMoves
  <2>2. OnePost(k)'
    BY <1>1, <1>6, OnePostStays DEF KeyInv
  <2>3. Judged(k)'
    BY <1>1, <1>3, <1>6, SameJobJudged DEF KeyInv
  <2>4. KeyInv(k)' /\ inv'[t].key = k
    BY <1>0, <1>5, <1>7, <2>1, <2>2, <2>3 DEF KeyInv, Now
  <2>. QED
    BY <2>4
<1>9. TokenInv(t)'
  <2>1. inv[t].submitted = MayHavePosted(t)
    BY SubmittedKnown
  <2>2. OutcomeHolds(t)'
    BY <1>5 DEF OutcomeHolds, Now, FinalReport
  <2>3. wire'[t] = wire[t]
    BY DEF service
  <2>. QED
    BY <1>4, <1>5, <2>1, <2>2, <2>3, TokenEnds
<1>10. OnlyMine(t) /\ ServiceMoves
  <2>1. \A l \in Key : l # k => observations'[l] = observations[l]
    BY <1>1, <1>3, ObservedRows
  <2>. QED
    BY <1>0, <1>3, <1>5, <2>1 DEF OnlyMine, ServiceMoves, BoundElsewhere, Now, service
<1>11. /\ inv' \in [Token -> Invocation]
       /\ wire' \in [Token -> {"none", "sent", "arrived"}]
       /\ remote' \in [Key -> Payload \cup {NoPayload, ForeignPayload}]
       /\ accepted' \in [Key -> Nat]
  BY <1>1, <1>5 DEF WorkTypeOK, Now, service
<1>. QED
  BY <1>4, <1>8, <1>9, <1>10, <1>11, OnlyMineKeeps

(* A late report of a POST is true because its sender knows what became of it. *)
LEMMA AppendLateKeeps ==
    ASSUME FullInv, NEW t \in Token, AppendLate(t)
    PROVE  FullInv'
<1> DEFINE e == inv[t].evidence
           st == IF e \in DOMAIN AuthoritativeStatus THEN AuthoritativeStatus[e] ELSE 0
           r == SubmissionReport(e)
<1>1. TokenInv(t) /\ inv[t].pc = "appendLate"
  BY Known DEF AppendLate, At
<1>2. e \in Concluded /\ e \in Category
  BY <1>1, EvidenceTyped DEF TokenInv, Routed
<1>3. r.category = e /\ r.status = st
  BY DEF SubmissionReport
<1>4. /\ st \in Nat
      /\ e \in DOMAIN AuthoritativeStatus => e \in Negative \cup {"processed"}
  BY DEF AuthoritativeStatus, Negative
<1>5. e = "processed" => accepted[inv[t].key] = 1
  BY <1>1 DEF TokenInv, Truth
<1>6. e # "processed" /\ e \in DOMAIN AuthoritativeStatus => Certain(t)
  BY <1>1, <1>4 DEF Certain
<1>7. /\ AppendLateObservation(inv[t].key, inv[t].n, inv[t].gen, "SUBMISSION", e, st)
      /\ EndAs(t, "ownership_lost") /\ UNCHANGED service
  BY <1>3 DEF AppendLate
<1>8. "SUBMISSION" \in Operation
  BY DEF Operation
<1> HIDE DEF st, r
<1>. QED
  BY <1>1, <1>2, <1>4, <1>5, <1>6, <1>7, <1>8, LateKeeps

(* Of a GET only a match is authoritative. *)
LEMMA AppendLateGetKeeps ==
    ASSUME FullInv, NEW t \in Token, AppendLateGet(t)
    PROVE  FullInv'
<1> DEFINE e == inv[t].evidence
           r == LateGetReport(e)
<1>1. TokenInv(t) /\ inv[t].pc = "appendLateGet"
  BY Known DEF AppendLateGet, At
<1>2. /\ r.category \in Category /\ r.status \in Nat
      /\ r.category = "processed" => e = "matched"
      /\ r.category # "processed" /\ r.category \in DOMAIN AuthoritativeStatus =>
            r.status # AuthoritativeStatus[r.category]
  BY DEF LateGetReport, Category, AuthoritativeStatus
<1>3. r.category = "processed" => accepted[inv[t].key] = 1
  BY <1>1, <1>2 DEF TokenInv, Truth
<1>4. /\ AppendLateObservation(inv[t].key, inv[t].n, inv[t].gen, "RECONCILIATION",
                               r.category, r.status)
      /\ EndAs(t, "ownership_lost") /\ UNCHANGED service
  BY DEF AppendLateGet
<1>5. "RECONCILIATION" \in Operation
  BY DEF Operation
<1> HIDE DEF r
<1>. QED
  BY <1>1, <1>2, <1>3, <1>4, <1>5, LateKeeps

-----------------------------------------------------------------------------
(* The invariant *)

LEMMA WorkInvInit == WorkInit => FullInv
<1> SUFFICES ASSUME WorkInit PROVE FullInv
  OBVIOUS
<1>1. StoreInv /\ TypeOK
  BY StoreInvInit DEF WorkInit, StoreInv
<1>2. ASSUME NEW t \in Token
      PROVE  /\ inv[t] \in Invocation /\ inv[t].pc = "authorize" /\ inv[t].then = "authorize"
             /\ inv[t].evidence = "none" /\ inv[t].outcome = "none"
             /\ inv[t].submitted = FALSE
  <2>1. PICK k \in Key, p \in Payload : inv[t] = Started(k, p)
    BY DEF WorkInit
  <2>2. inv[t].submitted = FALSE
    BY <2>1, NotSubmittedYet
  <2>3. /\ inv[t] \in Invocation /\ inv[t].pc = "authorize" /\ inv[t].then = "authorize"
        /\ inv[t].evidence = "none" /\ inv[t].outcome = "none"
    BY <2>1, StartedFields
  <2>. QED
    BY <2>2, <2>3
<1>3. /\ wire = [t \in Token |-> "none"] /\ remote = [k \in Key |-> NoPayload]
      /\ accepted = [k \in Key |-> 0]
  BY DEF WorkInit
<1>4. inv \in [Token -> Invocation]
  <2> DEFINE S == {Started(k, p) : k \in Key, p \in Payload}
  <2>1. inv \in [Token -> S]
    BY DEF WorkInit
  <2> HIDE DEF S
  <2>. QED
    BY <1>2, <2>1
<1>5. WorkTypeOK
  BY <1>1, <1>3, <1>4 DEF WorkTypeOK
<1>6. ASSUME NEW k \in Key PROVE KeyInv(k)
  <2>1. /\ accepted[k] = 0 /\ remote[k] = NoPayload /\ remote[k] \notin Payload
        /\ \A t \in Token : ~InFlight(k, t) /\ ~Dispatcher(k, t) /\ ~Certain(t)
    BY <1>2, <1>3, PayloadAssumption DEF InFlight, Dispatcher, Dispatching, Early, Certain
  <2>2. Silent(k)
    BY <2>1 DEF Silent, Unsent
  <2>3. ServiceAgrees(k) /\ OnePost(k)
    BY <2>1 DEF ServiceAgrees, OnePost
  <2>4. jobs[k].state = "ABSENT" /\ observations[k] = <<>>
    BY DEF WorkInit, Init
  <2>5. Judged(k) /\ LateRows(k)
    BY <2>2, <2>4 DEF Judged, LateRows
  <2>. QED
    BY <2>3, <2>5 DEF KeyInv
<1>7. ASSUME NEW t \in Token PROVE TokenInv(t)
  <2>1. wire[t] = "none"
    BY <1>3
  <2>2. Truth(t) /\ Reported(t)
    BY <1>2 DEF Truth, Reported, OutcomeHolds, Unreported, FinalReport
  <2>3. Routed(t)
    BY <1>2, <2>1 DEF Routed, Resumes, OnAttempt, Dispatching, Early
  <2>4. Honest(t)
    BY <1>2, <2>1 DEF Honest, MayHavePosted
  <2>. QED
    BY <2>2, <2>3, <2>4 DEF TokenInv
<1>. QED
  BY <1>1, <1>5, <1>6, <1>7 DEF FullInv, WorkInv

LEMMA ProceedKeeps ==
    ASSUME FullInv, NEW t \in Token, Proceed(t)
    PROVE  FullInv'
<1>1. {"late", "reconcile", "lastLate", "record"} \subseteq Reconciling
  BY DEF Reconciling
<1>2. CASE ConsumeLate(t, "late", "reconcile") \/ ConsumeLate(t, "lastLate", "record")
  BY <1>1, <1>2, ConsumeLateKeeps
<1>3. CASE PreSideEffect(t) \/ WaitIfItFits(t) \/ Wake(t) \/ Claim(t)
  BY <1>3, PreSideEffectKeeps, WaitKeeps, WakeKeeps, ClaimKeeps
<1>4. CASE Renew(t) \/ Dispatch(t) \/ Deadline(t) \/ Finalize(t) \/ AppendLate(t)
  BY <1>4, RenewKeeps, DispatchKeeps, DeadlineKeeps, FinalizeKeeps, AppendLateKeeps
<1>5. CASE AuthorizeGet(t) \/ WaitForGet(t) \/ RenewDuringWait(t) \/ Get(t) \/ ObserveGet(t)
  BY <1>5, AuthorizeGetKeeps, WaitForGetKeeps, RenewDuringWaitKeeps, GetKeeps, ObserveGetKeeps
<1>6. CASE AdvanceGate(t) \/ BackOff(t) \/ Record(t) \/ AppendLateGet(t) \/ LoseOwnership(t)
  BY <1>6, AdvanceGateKeeps, BackOffKeeps, RecordKeeps, AppendLateGetKeeps, LoseOwnershipKeeps
<1>. QED
  BY <1>2, <1>3, <1>4, <1>5, <1>6 DEF Proceed

LEMMA WorkStep ==
    ASSUME FullInv, [WorkNext]_workVars
    PROVE  FullInv'
<1>1. ASSUME NEW t \in Token,
             Proceed(t) \/ Arrive(t) \/ PersistenceFails(t) \/ Crash(t)
                \/ CancelBeforeDispatch(t)
      PROVE  FullInv'
  BY <1>1, ProceedKeeps, ArriveKeeps, PersistenceFailsKeeps, CrashKeeps, CancelKeeps
<1>2. ASSUME NEW k \in Key, BindForeign(k)
      PROVE  FullInv'
  BY <1>2, BindForeignKeeps
<1>3. CASE TimePasses
  BY <1>3, TimePassesKeeps
<1>4. CASE UNCHANGED workVars
  <2>1. clock' \in Nat \ {0}
    BY <1>4 DEF FullInv, StoreInv, TypeOK, workVars, storeVars
  <2>. QED
    BY <1>4, <2>1, ClockKeeps DEF workVars, storeVars
<1>. QED
  BY <1>1, <1>2, <1>3, <1>4 DEF WorkNext

(* The invariant of the application: what is stored agrees, at most one POST *)
(* of a job is on its way, and what every invocation knows is true.          *)
THEOREM WorkInvariant == WorkSpec => []FullInv
BY WorkInvInit, WorkStep, PTL DEF WorkSpec

(* Every variable keeps its type, whatever the invocations, the service and  *)
(* the clock do (submit.py, recovery.py, reconciliation_sequence.py).        *)
THEOREM WorkflowTyped == WorkSpec => []WorkTypeOK
<1>1. FullInv => WorkTypeOK
  BY DEF FullInv
<1>. QED
  BY <1>1, WorkInvariant, PTL

(* No job takes effect twice, though the service of the model ignores the    *)
(* idempotency key: the leases, the fencing and the late rows are enough.    *)
THEOREM EffectAtMostOnce == WorkSpec => []AtMostOnceEffect
<1>1. FullInv => AtMostOnceEffect
  <2> SUFFICES ASSUME FullInv, NEW k \in Key
               PROVE  accepted[k] <= 1
    BY DEF AtMostOnceEffect
  <2>1. ServiceAgrees(k)
    BY DEF FullInv, WorkInv, KeyInv
  <2>. QED
    BY <2>1 DEF ServiceAgrees
<1>. QED
  BY <1>1, WorkInvariant, PTL

(* What finalize_submission_attempt, consume_late_observations and           *)
(* record_reconciliation_result store is true of the service.                *)
THEOREM OutcomesAreTrue == WorkSpec => []OutcomeIsTrue
<1>1. FullInv => OutcomeIsTrue
  <2> SUFFICES ASSUME FullInv, NEW k \in Key
               PROVE  /\ jobs[k].state = "SUCCEEDED" => remote[k] = jobs[k].payload
                      /\ jobs[k].state \in {"PENDING", "RETRY_SCHEDULED", "FAILED_PERMANENT"}
                            => accepted[k] = 0
    BY DEF OutcomeIsTrue
  <2>1. ServiceAgrees(k) /\ Judged(k)
    BY DEF FullInv, WorkInv, KeyInv
  <2>. QED
    BY <2>1 DEF ServiceAgrees, Judged, Silent, Unsent, BoundElsewhere
<1>. QED
  BY <1>1, WorkInvariant, PTL

(* The envelope says `submitted` exactly when a POST of this invocation      *)
(* began, but for a stored success (_run_with_connection).                   *)
THEOREM SubmittedStaysHonest == WorkSpec => []SubmittedIsHonest
<1>1. FullInv => SubmittedIsHonest
  BY DEF FullInv, WorkInv, TokenInv, Honest, SubmittedIsHonest, At
<1>. QED
  BY <1>1, WorkInvariant, PTL

(* A final report is never overtaken by what another invocation stores.      *)
THEOREM ReportsHold == WorkSpec => []ReportedOutcomeHolds
<1>1. FullInv => ReportedOutcomeHolds
  <2> SUFFICES ASSUME FullInv, NEW t \in Token
               PROVE  OutcomeHolds(t)
    BY DEF ReportedOutcomeHolds, OutcomeHolds, FinalReport
  <2>. QED
    BY DEF FullInv, WorkInv, TokenInv, Reported
<1>. QED
  BY <1>1, WorkInvariant, PTL

-----------------------------------------------------------------------------
(* What the application does to the store *)

LEMMA OwnerKinds ==
    ASSUME FullInv, NEW t \in Token, OwnerStep(inv[t].key, inv[t].n, t, inv[t].gen)
    PROVE  Kinds
BY Known, OwnerMoves

LEMMA SameTablesKinds ==
    ASSUME UNCHANGED <<jobs, attempts>>
    PROVE  Kinds
BY DEF Kinds

LEMMA LeaseKinds ==
    ASSUME FullInv, NEW t \in Token, NEW g \in Nat,
           inv[t].n \in AttemptNumbers(inv[t].key), LeaseChange(inv[t].key, inv[t].n, t, g),
           observations' = observations
    PROVE  Kinds
BY Known, LeaseMoves

LEMMA ProceedKinds ==
    ASSUME FullInv, NEW t \in Token, Proceed(t)
    PROVE  Kinds
<1> DEFINE i == inv[t]
           k == inv[t].key
<1>0. k \in Key /\ i.payload \in Payload /\ StoreInv /\ i.gen \in Nat /\ i.gen + 1 \in Nat
  BY Known
<1>1. CASE PreSideEffect(t)
  <2>1. CASE StartAttempt(k, i.payload, t)
    BY <1>0, <2>1, StartMoves
  <2>2. CASE DeferAttempt(k, i.payload)
    BY <1>0, <2>2, DeferMoves
  <2>3. CASE UNCHANGED storeVars
    BY <2>3, SameTablesKinds DEF storeVars
  <2>. QED
    BY <1>1, <2>1, <2>2, <2>3 DEF PreSideEffect, Refused, Settled, InProgress, Expired,
                                  Authorized, Deferred
<1>2. CASE WaitIfItFits(t) \/ Wake(t) \/ Dispatch(t) \/ Deadline(t) \/ WaitForGet(t)
           \/ Get(t) \/ BackOff(t) \/ LoseOwnership(t)
  BY <1>2, SameTablesKinds DEF WaitIfItFits, Wake, Dispatch, Deadline, WaitForGet, Get, BackOff,
                               LoseOwnership, storeVars
<1>3. CASE AppendLate(t) \/ ObserveGet(t) \/ AdvanceGate(t) \/ AppendLateGet(t)
  BY <1>3, SameTablesKinds DEF AppendLate, ObserveGet, AdvanceGate, AppendLateGet,
        AppendLateObservation, AppendObservation, AdvanceGateForReconciliation
<1>4. CASE Claim(t)
  <2>1. CASE ClaimExpiredAttempt(k, i.n, i.seenOwner, i.gen, i.seenLease, t)
    <3>1. i.n \in AttemptNumbers(k) /\ LeaseChange(k, i.n, t, i.gen + 1)
      BY <2>1 DEF ClaimExpiredAttempt, Claimable, LeaseChange
    <3>. QED
      BY <1>0, <2>1, <3>1, LeaseKinds DEF ClaimExpiredAttempt
  <2>2. CASE UNCHANGED storeVars
    BY <2>2, SameTablesKinds DEF storeVars
  <2>. QED
    BY <1>4, <2>1, <2>2 DEF Claim
<1>5. CASE Renew(t) \/ RenewDuringWait(t)
  BY <1>5, OwnerKinds DEF Renew, RenewDuringWait, OwnerStep
<1>6. CASE Finalize(t)
  <2>1. CASE OwnerStep(k, i.n, t, i.gen)
    BY <2>1, OwnerKinds
  <2>2. CASE FinalizeRetained(k, i.n, t, i.gen) \/ UNCHANGED storeVars
    BY <2>2, SameTablesKinds DEF FinalizeRetained, storeVars
  <2>. QED
    BY <1>6, <2>1, <2>2 DEF Finalize, OwnerStep
<1>7. CASE ConsumeLate(t, "late", "reconcile") \/ ConsumeLate(t, "lastLate", "record")
  <2>1. CASE \E d \in Delay : ConsumeLateObservations(k, i.n, t, i.gen, d)
    BY <2>1, OwnerKinds DEF OwnerStep
  <2>2. CASE UNCHANGED storeVars
    BY <2>2, SameTablesKinds DEF storeVars
  <2>. QED
    BY <1>7, <2>1, <2>2 DEF ConsumeLate
<1>8. CASE AuthorizeGet(t)
  <2>1. CASE AuthorizeReconciliationRequest(k, i.n, t, i.gen, i.notBefore)
    <3>1. i.n \in AttemptNumbers(k) /\ LeaseChange(k, i.n, t, i.gen)
      BY <2>1 DEF AuthorizeReconciliationRequest, MayReconcile, Owns, LeaseChange
    <3>. QED
      BY <1>0, <2>1, <3>1, LeaseKinds DEF AuthorizeReconciliationRequest
  <2>2. CASE UNCHANGED storeVars
    BY <2>2, SameTablesKinds DEF storeVars
  <2>. QED
    BY <1>8, <2>1, <2>2 DEF AuthorizeGet
<1>9. CASE Record(t)
  <2>1. CASE RecordReconciliationResult(k, i.n, t, i.gen, i.evidence)
    <3>1. i.evidence \in {"matched", "conflict", "not_found", "inconclusive"}
      BY <2>1 DEF RecordReconciliationResult
    <3>. QED
      BY <2>1, <3>1, OwnerKinds DEF OwnerStep
  <2>2. CASE UNCHANGED storeVars
    BY <2>2, SameTablesKinds DEF storeVars
  <2>. QED
    BY <1>9, <2>1, <2>2 DEF Record
<1>. QED
  BY <1>1, <1>2, <1>3, <1>4, <1>5, <1>6, <1>7, <1>8, <1>9 DEF Proceed

LEMMA WorkKinds ==
    ASSUME FullInv, [WorkNext]_workVars
    PROVE  Kinds
<1>1. ASSUME NEW t \in Token, Proceed(t) PROVE Kinds
  BY <1>1, ProceedKinds
<1>2. ASSUME NEW t \in Token, Arrive(t) \/ PersistenceFails(t) \/ Crash(t) PROVE Kinds
  BY <1>2, SameTablesKinds DEF Arrive, PersistenceFails, Crash, storeVars
<1>3. ASSUME NEW t \in Token, CancelBeforeDispatch(t) PROVE Kinds
  BY <1>3, OwnerKinds, SameTablesKinds DEF CancelBeforeDispatch, OwnerStep, storeVars
<1>4. ASSUME NEW k \in Key, BindForeign(k) PROVE Kinds
  BY <1>4, SameTablesKinds DEF BindForeign, storeVars
<1>5. CASE TimePasses \/ UNCHANGED workVars
  BY <1>5, SameTablesKinds DEF TimePasses, Tick, workVars, storeVars
<1>. QED
  BY <1>1, <1>2, <1>3, <1>4, <1>5 DEF WorkNext

(* A step touches the row of one job. *)
LEMMA KindsTouchOne ==
    ASSUME StoreInv, Kinds
    PROVE  jobs' = jobs \/ \E k \in Key : \A l \in Key : l # k => jobs'[l] = jobs[l]
<1>0. TypeOK /\ JobMatchesAttempts
  BY DEF StoreInv, TableInv
<1>1. ASSUME NEW k \in Key, NEW p \in Payload, NEW t \in Token, StartAttempt(k, p, t)
      PROVE  \A l \in Key : l # k => jobs'[l] = jobs[l]
  BY <1>0, <1>1, StartEffect
<1>2. ASSUME NEW k \in Key, NEW p \in Payload, DeferAttempt(k, p)
      PROVE  \A l \in Key : l # k => jobs'[l] = jobs[l]
  BY <1>0, <1>2, DeferEffect
<1>3. ASSUME NEW k \in Key, NEW n \in AttemptNumbers(k), NEW t \in Token, NEW g \in Nat,
             LeaseChange(k, n, t, g)
      PROVE  jobs' = jobs
  BY <1>3 DEF LeaseChange
<1>4. ASSUME NEW k \in Key, NEW n \in AttemptNumbers(k), NEW as \in AttemptState,
             NEW js \in JobState, NEW e \in Category, NEW d \in Nat,
             Completion(k, n, as, js, e, d)
      PROVE  \A l \in Key : l # k => jobs'[l] = jobs[l]
  <2>1. Complete(k, n, as, js, e, d)
    BY <1>4 DEF Completion
  <2>. QED
    BY <1>0, <2>1, CompleteEffect
<1>. QED
  BY <1>1, <1>2, <1>3, <1>4 DEF Kinds

(* The store's promise of final outcomes, kept by the application: whatever  *)
(* invocations do, no completed attempt is reclassified and no terminal job  *)
(* changes.                                                                  *)
THEOREM WorkflowKeepsOutcomes == WorkSpec => OutcomesAreFinal
<1>1. FullInv /\ [WorkNext]_workVars => [FinalStep]_storeVars
  BY WorkKinds, KindsAreFinal DEF FullInv
<1>. QED
  BY <1>1, WorkInvariant, PTL DEF WorkSpec, OutcomesAreFinal

(* The tables agree, the submission budget holds and every retry waits for   *)
(* its delay, in every behaviour of the application and without the bounds   *)
(* of JobStore's most general client.                                        *)
THEOREM WorkflowKeepsTables ==
    WorkSpec => [](JobMatchesAttempts /\ BudgetHeld /\ RetryDelayHonoured)
<1>1. FullInv => JobMatchesAttempts /\ BudgetHeld /\ RetryDelayHonoured
  BY DEF FullInv, StoreInv, TableInv
<1>. QED
  BY <1>1, WorkInvariant, PTL

-----------------------------------------------------------------------------
(* The promise of Delivery *)

Verdicts == [k \in Key |-> VerdictOf(jobs[k].state)]

(* The service accepts the POST of t. *)
Accepts(t) ==
    /\ wire[t] = "sent"
    /\ remote[inv[t].key] \in {NoPayload, inv[t].payload}
    /\ accepted' = [accepted EXCEPT ![inv[t].key] = @ + 1]
    /\ UNCHANGED storeVars

LEMMA OnlyArrivalsAccept ==
    ASSUME [WorkNext]_workVars
    PROVE  accepted' = accepted \/ \E t \in Token : Accepts(t)
<1>1. ASSUME NEW t \in Token, Proceed(t) PROVE accepted' = accepted
  BY <1>1 DEF Proceed, PreSideEffect, WaitIfItFits, Wake, Claim, Renew, Dispatch, Deadline,
              Finalize, AppendLate, ConsumeLate, AuthorizeGet, WaitForGet, RenewDuringWait, Get,
              ObserveGet, AdvanceGate, BackOff, Record, AppendLateGet, LoseOwnership, service
<1>2. ASSUME NEW t \in Token, Arrive(t) PROVE accepted' = accepted \/ Accepts(t)
  BY <1>2 DEF Arrive, Accepts
<1>3. ASSUME NEW t \in Token, PersistenceFails(t) \/ Crash(t) \/ CancelBeforeDispatch(t)
      PROVE  accepted' = accepted
  BY <1>3 DEF PersistenceFails, Crash, CancelBeforeDispatch, service
<1>4. ASSUME NEW k \in Key, BindForeign(k) PROVE accepted' = accepted
  BY <1>4 DEF BindForeign
<1>5. CASE TimePasses \/ UNCHANGED workVars
  BY <1>5 DEF TimePasses, service, workVars
<1>. QED
  BY <1>1, <1>2, <1>3, <1>4, <1>5 DEF WorkNext

LEMMA AcceptsIsEffect ==
    ASSUME FullInv, NEW t \in Token, Accepts(t)
    PROVE  \E k \in Key : Promise!TakeEffect(k)
<1>0. PICK k \in Key : k = inv[t].key
  BY Known
<1>1. KeyInv(k) /\ WorkTypeOK /\ inv[t].payload \in Payload
  BY <1>0, Known
<1>2. InFlight(k, t) /\ accepted[k] = 0 /\ ~Silent(k)
  BY <1>0, <1>1 DEF Accepts, InFlight, KeyInv, OnePost, Silent, Unsent
<1>3. ~BoundElsewhere(k)
  BY <1>0, <1>1 DEF Accepts, BoundElsewhere
<1>4. jobs[k].state \notin {"SUCCEEDED", "FAILED_PERMANENT"}
  BY <1>1, <1>2, <1>3 DEF KeyInv, Judged
<1>5. VerdictOf(jobs[k].state) \in {"open", "unknown"}
  BY <1>4 DEF VerdictOf
<1>6. accepted' = [accepted EXCEPT ![k] = 1] /\ jobs' = jobs
  BY <1>0, <1>2 DEF Accepts, storeVars
<1>7. Promise!TakeEffect(k)
  BY <1>2, <1>5, <1>6 DEF Promise!TakeEffect
<1>. QED
  BY <1>7

LEMMA DecidesOrStutters ==
    ASSUME FullInv, FullInv', FinalStep, accepted' = accepted,
           NEW k \in Key, \A l \in Key : l # k => jobs'[l] = jobs[l]
    PROVE  \/ Verdicts' = Verdicts
           \/ \E v \in {"succeeded", "failed", "unknown"} : Promise!Decide(k, v)
<1> DEFINE v == VerdictOf(jobs'[k].state)
<1>1. \A l \in Key : l # k => VerdictOf(jobs'[l].state) = VerdictOf(jobs[l].state)
  OBVIOUS
<1>2. CASE v = VerdictOf(jobs[k].state)
  <2>1. \A l \in Key : VerdictOf(jobs'[l].state) = VerdictOf(jobs[l].state)
    BY <1>1, <1>2
  <2>. QED
    BY <2>1 DEF Verdicts
<1>3. CASE v # VerdictOf(jobs[k].state)
  <2>1. jobs[k].state \notin Terminal
    BY <1>3 DEF FinalStep
  <2>2. VerdictOf(jobs[k].state) = "open"
    BY <2>1 DEF VerdictOf, Terminal
  <2>3. v \in {"succeeded", "failed", "unknown"}
    BY <1>3, <2>2 DEF VerdictOf
  <2>4. Judged(k)'
    BY DEF FullInv, WorkInv, KeyInv
  <2>5. v = "succeeded" => accepted[k] = 1
    <3>1. v = "succeeded" => jobs'[k].state = "SUCCEEDED"
      BY DEF VerdictOf
    <3>. QED
      BY <2>4, <3>1 DEF Judged
  <2>6. v = "failed" => accepted[k] = 0
    <3>1. v = "failed" => jobs'[k].state = "FAILED_PERMANENT"
      BY DEF VerdictOf
    <3>. QED
      BY <2>4, <3>1 DEF Judged, Silent, Unsent, BoundElsewhere
  <2>7. Verdicts' = [Verdicts EXCEPT ![k] = v]
    BY <1>1 DEF Verdicts
  <2> HIDE DEF v
  <2>8. Promise!Decide(k, v)
    BY <2>2, <2>5, <2>6, <2>7 DEF Promise!Decide, Verdicts
  <2>. QED
    BY <2>3, <2>8
<1>. QED
  BY <1>2, <1>3

(* Every step of the application is a step of the promise or changes neither *)
(* a verdict nor an effect: submit.py, recovery.py and the service together  *)
(* against what the user is told (Delivery).                                 *)
THEOREM WorkflowImplementsDelivery == WorkSpec => ImplementsDelivery
<1>1. WorkInit => Promise!DeliveryInit
  <2> SUFFICES ASSUME WorkInit PROVE Promise!DeliveryInit
    OBVIOUS
  <2>1. \A k \in Key : VerdictOf(jobs[k].state) = "open"
    BY DEF WorkInit, Init, VerdictOf
  <2>. QED
    BY <2>1 DEF WorkInit, Promise!DeliveryInit
<1>2. FullInv /\ FullInv' /\ [WorkNext]_workVars =>
         [Promise!DeliveryNext]_(Promise!deliveryVars)
  <2> SUFFICES ASSUME FullInv, FullInv', [WorkNext]_workVars
               PROVE  [Promise!DeliveryNext]_(Promise!deliveryVars)
    OBVIOUS
  <2>1. StoreInv /\ Kinds /\ FinalStep
    BY WorkKinds, KindsAreFinal DEF FullInv
  <2>2. ASSUME Verdicts' = Verdicts, accepted' = accepted
        PROVE  UNCHANGED Promise!deliveryVars
    BY <2>2 DEF Promise!deliveryVars, Verdicts
  <2>3. CASE accepted' = accepted /\ jobs' = jobs
    BY <2>2, <2>3 DEF Verdicts
  <2>4. ASSUME accepted' = accepted, NEW k \in Key, \A l \in Key : l # k => jobs'[l] = jobs[l]
        PROVE  [Promise!DeliveryNext]_(Promise!deliveryVars)
    BY <2>1, <2>2, <2>4, DecidesOrStutters DEF Promise!DeliveryNext
  <2>5. ASSUME NEW t \in Token, Accepts(t)
        PROVE  Promise!DeliveryNext
    BY <2>5, AcceptsIsEffect DEF Promise!DeliveryNext
  <2>. QED
    BY <2>1, <2>3, <2>4, <2>5, KindsTouchOne, OnlyArrivalsAccept
<1>. QED
  BY <1>1, <1>2, WorkInvariant, PTL DEF WorkSpec, ImplementsDelivery, Promise!DeliverySpec

=============================================================================
