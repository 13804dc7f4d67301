----------------------------- MODULE WaitingProofs -----------------------------
(***************************************************************************)
(* The wait budget of SubmitWorkflow.  A wait is checked against the       *)
(* ceiling once, when it starts, and then slept in chunks with a renewal   *)
(* of the lease between two of them: what is left of it must still fit,    *)
(* whenever it is resumed.                                                 *)
(***************************************************************************)
EXTENDS WorkflowProofs

(* The invocation sleeps the chunk of a wait, or renews before the next one. *)
MidWait(i) == i.pc = "reconRenew" \/ (i.pc = "sleep" /\ i.then = "reconRenew")

(* What is left of a wait fits the ceiling. *)
RestFits(t) == MidWait(inv[t]) => inv[t].slept + inv[t].delay <= Ceiling

WaitInv == \A t \in Token : RestFits(t)

(* One invocation moves, and sleeps past the ceiling for the quarantine only. *)
SleepFits(t) ==
    inv'[t].slept > inv[t].slept => inv'[t].then = "claim" \/ inv'[t].slept <= Ceiling

OnlySleeps(t) ==
    /\ \A u \in Token : u # t => inv'[u] = inv[u]
    /\ SleepFits(t) /\ RestFits(t)'

WaitStep == \A t \in Token : SleepFits(t) /\ RestFits(t)'

LEMMA OnlySleepsStep ==
    ASSUME FullInv, WaitInv, NEW t \in Token, OnlySleeps(t)
    PROVE  WaitStep
<1> SUFFICES ASSUME NEW u \in Token
             PROVE  SleepFits(u) /\ RestFits(u)'
  BY DEF WaitStep
<1>1. CASE u = t
  BY <1>1 DEF OnlySleeps
<1>2. CASE inv'[u] = inv[u]
  <2>1. inv[u].slept \in Nat
    BY KnownSleep
  <2>2. SleepFits(u)
    BY <1>2, <2>1 DEF SleepFits
  <2>3. RestFits(u)'
    BY <1>2 DEF WaitInv, RestFits
  <2>. QED
    BY <2>2, <2>3
<1>. QED
  BY <1>1, <1>2 DEF OnlySleeps

LEMMA StillSleeps ==
    ASSUME FullInv, WaitInv, inv' = inv
    PROVE  WaitStep
<1> SUFFICES ASSUME NEW u \in Token
             PROVE  SleepFits(u) /\ RestFits(u)'
  BY DEF WaitStep
<1>1. inv[u].slept \in Nat
  BY KnownSleep
<1>. QED
  BY <1>1 DEF SleepFits, WaitInv, RestFits

-----------------------------------------------------------------------------
(* What each action does to the sleeps *)

LEMMA AwakeSleeps ==
    ASSUME FullInv, NEW t \in Token, NEW r, Become(t, r),
           r.pc # "sleep", r.pc # "reconRenew", r.slept = inv[t].slept \/ r.slept = 0
    PROVE  OnlySleeps(t)
<1>1. inv'[t] = r /\ \A u \in Token : u # t => inv'[u] = inv[u]
  BY DEF FullInv, WorkTypeOK, Become
<1>2. inv[t].slept \in Nat
  BY KnownSleep
<1>3. SleepFits(t)
  BY <1>1, <1>2 DEF SleepFits
<1>4. RestFits(t)'
  BY <1>1 DEF RestFits, MidWait
<1>. QED
  BY <1>1, <1>3, <1>4 DEF OnlySleeps

LEMMA NothingSlept ==
    ASSUME NEW k \in Key, NEW p \in Payload
    PROVE  Started(k, p) \in Invocation /\ Started(k, p).slept = 0
BY StartedTyped DEF Started

LEMMA EndSleeps ==
    ASSUME FullInv, NEW t \in Token, NEW o, EndAs(t, o) \/ \E s : End(t, o, s)
    PROVE  OnlySleeps(t)
<1> DEFINE b == Started(inv[t].key, inv[t].payload)
<1>1. PICK s : End(t, o, s)
  BY DEF EndAs
<1>2. b \in Invocation /\ b.slept = 0
  BY Known, NothingSlept
<1> DEFINE r == [b EXCEPT !.pc = "done", !.outcome = o, !.submitted = s]
<1>3. Become(t, r)
  BY <1>1 DEF End
<1> HIDE DEF b
<1>4. r.pc = "done" /\ r.slept = 0
  BY <1>2 DEF Invocation
<1> HIDE DEF r
<1>. QED
  BY <1>3, <1>4, AwakeSleeps

LEMMA VanishSleeps ==
    ASSUME FullInv, NEW t \in Token, Vanish(t)
    PROVE  OnlySleeps(t)
<1> DEFINE b == Started(inv[t].key, inv[t].payload)
           r == [b EXCEPT !.pc = "crashed"]
<1>1. b \in Invocation /\ b.slept = 0
  BY Known, NothingSlept
<1>2. Become(t, r)
  BY DEF Vanish
<1> HIDE DEF b
<1>3. r.pc = "crashed" /\ r.slept = 0
  BY <1>1 DEF Invocation
<1> HIDE DEF r
<1>. QED
  BY <1>2, <1>3, AwakeSleeps

LEMMA GotoSleeps ==
    ASSUME FullInv, NEW t \in Token, NEW pc, Goto(t, pc), pc # "sleep", pc # "reconRenew"
    PROVE  OnlySleeps(t)
<1> DEFINE r == [inv[t] EXCEPT !.pc = pc]
<1>1. inv[t] \in Invocation /\ Become(t, r)
  BY Known DEF Goto
<1>2. r.pc = pc /\ r.slept = inv[t].slept
  BY <1>1 DEF Invocation
<1> HIDE DEF r
<1>. QED
  BY <1>1, <1>2, AwakeSleeps

LEMMA ObservedSleeps ==
    ASSUME FullInv, NEW t \in Token, NEW e, Observed(t, e)
    PROVE  OnlySleeps(t)
<1> DEFINE s == (inv[t].submitted \/ e # "transport_not_sent")
           r == [inv[t] EXCEPT !.pc = "finalize", !.evidence = e, !.submitted = s]
<1>1. inv[t] \in Invocation /\ Become(t, r)
  BY Known DEF Observed
<1> HIDE DEF s
<1>2. r.pc = "finalize" /\ r.slept = inv[t].slept
  BY <1>1 DEF Invocation
<1> HIDE DEF r
<1>. QED
  BY <1>1, <1>2, AwakeSleeps

(* A sleep of d on top of what was slept before. *)
LEMMA SleepAdds ==
    ASSUME FullInv, NEW t \in Token, NEW i \in Invocation, i.slept = inv[t].slept,
           NEW d \in Nat, NEW then, Become(t, Sleeping(i, d, then)), then # "reconRenew",
           then = "claim" \/ d = 0 \/ inv[t].slept + d <= Ceiling
    PROVE  OnlySleeps(t)
<1> DEFINE u == clock + d
           w == i.slept + d
           r == [i EXCEPT !.pc = "sleep", !.until = u, !.then = then, !.slept = w]
<1>1. Sleeping(i, d, then) = r
  BY Zenon DEF Sleeping
<1>2. inv[t].slept \in Nat
  BY KnownSleep
<1>3. d = 0 => w = inv[t].slept
  BY <1>2
<1>4. then = "claim" \/ w = inv[t].slept \/ w <= Ceiling
  BY <1>3
<1> HIDE DEF u, w
<1>5. r.pc = "sleep" /\ r.then = then /\ r.slept = w
  BY DEF Invocation
<1>6. Become(t, r)
  BY <1>1
<1> HIDE DEF r
<1>7. inv'[t] = r /\ \A v \in Token : v # t => inv'[v] = inv[v]
  BY <1>6 DEF FullInv, WorkTypeOK, Become
<1>8. SleepFits(t)
  BY <1>2, <1>4, <1>5, <1>7 DEF SleepFits
<1>9. RestFits(t)'
  BY <1>5, <1>7 DEF RestFits, MidWait
<1>. QED
  BY <1>7, <1>8, <1>9 DEF OnlySleeps

(* A chunk of a wait that fits leaves a rest that fits. *)
LEMMA ChunkSleeps ==
    ASSUME FullInv, NEW t \in Token, NEW left \in Nat, Become(t, SleepChunk(inv[t], left)),
           inv[t].slept + left <= Ceiling
    PROVE  OnlySleeps(t)
<1> DEFINE i == inv[t]
           chunk == IF left > Cadence THEN Cadence ELSE left
           then == IF left > chunk THEN "reconRenew" ELSE "late"
           rest == left - chunk
           u == clock + chunk
           w == i.slept + chunk
           a == [i EXCEPT !.pc = "sleep", !.until = u, !.then = then, !.slept = w]
           r == [a EXCEPT !.delay = rest]
<1>1. i \in Invocation /\ i.slept \in Nat
  BY Known, KnownSleep
<1>2. w <= Ceiling /\ w + rest <= Ceiling
  BY <1>1, WaitAssumption
<1> HIDE DEF chunk, then, rest
<1>3. SleepChunk(i, left) = [Sleeping(i, chunk, then) EXCEPT !.delay = rest]
  BY DEF SleepChunk, chunk, then, rest
<1>4. Sleeping(i, chunk, then) = a
  BY Zenon DEF Sleeping
<1>5. Become(t, r)
  BY <1>3, <1>4
<1> HIDE DEF u, w
<1>6. r.slept = w /\ r.delay = rest
  BY <1>1 DEF Invocation
<1> HIDE DEF r
<1>7. inv'[t] = r /\ \A v \in Token : v # t => inv'[v] = inv[v]
  BY <1>5 DEF FullInv, WorkTypeOK, Become
<1>. QED
  BY <1>2, <1>6, <1>7 DEF OnlySleeps, SleepFits, RestFits

LEMMA PreSideEffectSleeps ==
    ASSUME FullInv, NEW t \in Token, PreSideEffect(t)
    PROVE  OnlySleeps(t)
<1> DEFINE i == inv[t]
<1>1. i \in Invocation /\ TypeOK /\ i.key \in Key
  BY Known
<1>2. CASE Refused(t) \/ Settled(t) \/ InProgress(t)
  BY <1>2, EndSleeps DEF Refused, Settled, InProgress
<1>3. CASE Expired(t)
  <2> DEFINE L == Len(attempts[i.key])
             latest == Latest(i.key)
             r == [i EXCEPT !.n = L, !.gen = latest.generation,
                            !.seenOwner = latest.owner, !.seenLease = latest.lease]
  <2>1. L \in AttemptNumbers(i.key) /\ L \in Nat /\ latest = attempts[i.key][L]
    BY <1>1, <1>3, Known, LatestTyped DEF Expired
  <2>2. latest.generation \in Nat /\ latest.owner \in Token \cup {NoToken} /\ latest.lease \in Nat
    BY <1>1, <2>1, AttemptTyped DEF AttemptRow
  <2>3. Become(t, Sleeping(r, Quarantine, "claim"))
    BY <1>3 DEF Expired
  <2> HIDE DEF latest, L
  <2>4. r \in Invocation /\ r.slept = i.slept
    BY <1>1, <2>1, <2>2 DEF Invocation
  <2> HIDE DEF r
  <2>. QED
    BY <2>3, <2>4, WaitAssumption, SleepAdds
<1>4. CASE Authorized(t)
  <2> DEFINE m == Len(attempts[i.key]) + 1
             r == [i EXCEPT !.pc = "renew", !.n = m, !.gen = 1]
  <2>1. Become(t, r)
    BY <1>4 DEF Authorized
  <2> HIDE DEF m
  <2>2. r.pc = "renew" /\ r.slept = i.slept
    BY <1>1 DEF Invocation
  <2> HIDE DEF r
  <2>. QED
    BY <2>1, <2>2, AwakeSleeps
<1>5. CASE Deferred(t)
  <2> DEFINE u == LaterOf(JobEligibleAt(i.key), gate)
             o == IF jobs[i.key].state = "RETRY_SCHEDULED"
                  THEN "retry_scheduled" ELSE "submission_deferred"
             r == [i EXCEPT !.pc = "wait", !.until = u, !.outcome = o]
  <2>1. Become(t, r)
    BY <1>5 DEF Deferred
  <2> HIDE DEF u, o
  <2>2. r.pc = "wait" /\ r.slept = i.slept
    BY <1>1 DEF Invocation
  <2> HIDE DEF r
  <2>. QED
    BY <2>1, <2>2, AwakeSleeps
<1>. QED
  BY <1>2, <1>3, <1>4, <1>5 DEF PreSideEffect

(* What a wait may take was asked of the ceiling. *)
LEMMA RemainingFits ==
    ASSUME NEW i \in Invocation, NEW d \in Nat, ~(d > Remaining(i))
    PROVE  d = 0 \/ i.slept + d <= Ceiling
<1>1. i.slept \in Nat /\ Ceiling \in Nat
  BY WaitAssumption DEF Invocation
<1>. QED
  BY <1>1 DEF Remaining

LEMMA WaitSleeps ==
    ASSUME FullInv, NEW t \in Token, WaitIfItFits(t)
    PROVE  OnlySleeps(t)
<1> DEFINE i == inv[t]
           d == DelayLeft(i)
           r == [i EXCEPT !.outcome = "none"]
<1>1. i \in Invocation /\ d \in Nat
  BY Known, KnownSleep DEF DelayLeft
<1>2. CASE EndAs(t, i.outcome)
  BY <1>2, EndSleeps
<1>3. CASE ~(d > Remaining(i)) /\ Become(t, Sleeping(r, d, "authorize"))
  <2>1. r \in Invocation /\ r.slept = i.slept
    BY <1>1 DEF Invocation, Outcome
  <2>2. d = 0 \/ i.slept + d <= Ceiling
    BY <1>1, <1>3, RemainingFits
  <2> HIDE DEF r, d
  <2>. QED
    BY <1>1, <1>3, <2>1, <2>2, SleepAdds
<1>. QED
  BY <1>2, <1>3 DEF WaitIfItFits

(* Waking up changes neither what was slept nor what is left. *)
LEMMA WakeSleeps ==
    ASSUME FullInv, WaitInv, NEW t \in Token, Wake(t)
    PROVE  OnlySleeps(t)
<1> DEFINE i == inv[t]
           r == [i EXCEPT !.pc = i.then, !.then = "authorize", !.until = 0]
<1>1. i \in Invocation /\ i.slept \in Nat /\ i.then # "sleep" /\ i.pc = "sleep"
  BY Known, KnownSleep DEF Wake, At, Resumes
<1>2. Become(t, r)
  BY DEF Wake
<1>3. r.pc = i.then /\ r.then = "authorize" /\ r.slept = i.slept /\ r.delay = i.delay
  BY <1>1 DEF Invocation
<1> HIDE DEF r
<1>4. inv'[t] = r /\ \A v \in Token : v # t => inv'[v] = inv[v]
  BY <1>2 DEF FullInv, WorkTypeOK, Become
<1>5. SleepFits(t)
  BY <1>1, <1>3, <1>4 DEF SleepFits
<1>6. RestFits(t)'
  BY <1>1, <1>3, <1>4 DEF WaitInv, RestFits, MidWait
<1>. QED
  BY <1>4, <1>5, <1>6 DEF OnlySleeps

LEMMA ClaimSleeps ==
    ASSUME FullInv, NEW t \in Token, Claim(t)
    PROVE  OnlySleeps(t)
<1> DEFINE i == inv[t]
           b == Started(i.key, i.payload)
           g == i.gen + 1
           r == [i EXCEPT !.pc = "late", !.gen = g, !.seenOwner = NoToken, !.seenLease = 0]
           s == [b EXCEPT !.slept = i.slept, !.submitted = i.submitted]
<1>1. i \in Invocation /\ b \in Invocation
  BY Known, NothingSlept
<1>2. b.pc = "authorize"
  BY Known, StartedFields
<1>3. Become(t, r) \/ Become(t, s)
  BY DEF Claim
<1> HIDE DEF b, g
<1>4. r.pc = "late" /\ r.slept = i.slept
  BY <1>1 DEF Invocation
<1>5. s.pc = "authorize" /\ s.slept = i.slept
  BY <1>1, <1>2 DEF Invocation
<1> HIDE DEF r, s
<1>. QED
  BY <1>3, <1>4, <1>5, AwakeSleeps

LEMMA RetrySleeps ==
    ASSUME FullInv, NEW t \in Token, NEW d, RetryOrExhausted(t, d)
    PROVE  OnlySleeps(t)
<1> DEFINE i == inv[t]
           b == Started(i.key, i.payload)
           u == clock + d
           r == [b EXCEPT !.pc = "wait", !.until = u, !.slept = i.slept,
                          !.submitted = i.submitted, !.outcome = "retry_scheduled"]
<1>1. b \in Invocation
  BY Known, NothingSlept
<1>2. EndAs(t, "retry_exhausted") \/ Become(t, r)
  BY DEF RetryOrExhausted
<1> HIDE DEF b, u
<1>3. r.pc = "wait" /\ r.slept = i.slept
  BY <1>1 DEF Invocation
<1> HIDE DEF r
<1>. QED
  BY <1>2, <1>3, AwakeSleeps, EndSleeps

LEMMA FinalizeSleeps ==
    ASSUME FullInv, NEW t \in Token, Finalize(t)
    PROVE  OnlySleeps(t)
<1> DEFINE r == [inv[t] EXCEPT !.pc = "late", !.evidence = "none"]
<1>1. inv[t] \in Invocation
  BY Known
<1>2. r.pc = "late" /\ r.slept = inv[t].slept
  BY <1>1 DEF Invocation
<1>3. \/ \E s : End(t, "succeeded", s)
      \/ EndAs(t, "failed_permanent")
      \/ \E d : RetryOrExhausted(t, d)
      \/ Become(t, r)
      \/ Goto(t, "appendLate")
  BY DEF Finalize
<1> HIDE DEF r
<1>. QED
  BY <1>2, <1>3, AwakeSleeps, EndSleeps, RetrySleeps, GotoSleeps

LEMMA WaitForGetSleeps ==
    ASSUME FullInv, NEW t \in Token, WaitForGet(t)
    PROVE  OnlySleeps(t)
<1> DEFINE i == inv[t]
           d == DelayLeft(i)
           r == [i EXCEPT !.pc = "lastLate", !.evidence = "inconclusive", !.until = 0]
           s == [i EXCEPT !.pc = "late", !.until = 0]
<1>1. i \in Invocation /\ d \in Nat
  BY Known, KnownSleep DEF DelayLeft
<1>2. /\ r.pc = "lastLate" /\ r.slept = i.slept
      /\ s.pc = "late" /\ s.slept = i.slept
  BY <1>1 DEF Invocation
<1>3. CASE Become(t, r) \/ Become(t, s)
  <2> HIDE DEF r, s
  <2>. QED
    BY <1>2, <1>3, AwakeSleeps
<1>4. CASE ~(d > Remaining(i)) /\ d # 0 /\ Become(t, SleepChunk(i, d))
  <2>1. i.slept + d <= Ceiling
    BY <1>1, <1>4, RemainingFits
  <2> HIDE DEF d
  <2>. QED
    BY <1>1, <1>4, <2>1, ChunkSleeps
<1>. QED
  BY <1>3, <1>4 DEF WaitForGet

LEMMA RenewWaitSleeps ==
    ASSUME FullInv, WaitInv, NEW t \in Token, RenewDuringWait(t)
    PROVE  OnlySleeps(t)
<1>1. inv[t].delay \in Nat
  BY KnownSleep
<1>2. inv[t].slept + inv[t].delay <= Ceiling
  BY DEF RenewDuringWait, At, WaitInv, RestFits, MidWait
<1>. QED
  BY <1>1, <1>2, ChunkSleeps DEF RenewDuringWait

LEMMA NextGetSleeps ==
    ASSUME FullInv, NEW t \in Token, NEW d, NextGet(t, inv[t], d)
    PROVE  OnlySleeps(t)
<1> DEFINE i == inv[t]
           u == clock + d
           r == [i EXCEPT !.pc = "lastLate", !.evidence = "inconclusive", !.delay = 0]
           s == [i EXCEPT !.pc = "late", !.evidence = "none", !.delay = 0, !.notBefore = u]
<1>1. i \in Invocation
  BY Known
<1>2. Become(t, r) \/ Become(t, s)
  BY DEF NextGet
<1> HIDE DEF u
<1>3. r.pc = "lastLate" /\ r.slept = i.slept
  BY <1>1 DEF Invocation
<1>4. s.pc = "late" /\ s.slept = i.slept
  BY <1>1 DEF Invocation
<1> HIDE DEF r, s
<1>. QED
  BY <1>2, <1>3, <1>4, AwakeSleeps

LEMMA GetSleeps ==
    ASSUME FullInv, NEW t \in Token, AuthorizeGet(t) \/ Get(t) \/ ObserveGet(t)
    PROVE  OnlySleeps(t)
<1> DEFINE i == inv[t]
<1>1. i \in Invocation
  BY Known
<1>2. CASE AuthorizeGet(t)
  <2> DEFINE u == LaterOf(i.notBefore, gate)
             r == [i EXCEPT !.pc = "get", !.notBefore = 0]
             s == [i EXCEPT !.pc = "reconWait", !.until = u]
  <2>1. Become(t, r) \/ Become(t, s)
    BY <1>2 DEF AuthorizeGet
  <2> HIDE DEF u
  <2>2. r.pc = "get" /\ r.slept = i.slept /\ s.pc = "reconWait" /\ s.slept = i.slept
    BY <1>1 DEF Invocation
  <2> HIDE DEF r, s
  <2>. QED
    BY <2>1, <2>2, AwakeSleeps
<1>3. CASE Get(t)
  <2> DEFINE m == i.gets + 1
             r(e) == [i EXCEPT !.pc = "observe", !.gets = m, !.evidence = e]
  <2>1. PICK e : Become(t, r(e))
    BY <1>3 DEF Get
  <2> HIDE DEF m
  <2>2. r(e).pc = "observe" /\ r(e).slept = i.slept
    BY <1>1 DEF Invocation
  <2> HIDE DEF r
  <2>. QED
    BY <2>1, <2>2, AwakeSleeps
<1>4. CASE ObserveGet(t)
  <2>1. ASSUME NEW d, Become(t, [i EXCEPT !.pc = "advanceGate", !.delay = d])
        PROVE  OnlySleeps(t)
    <3> DEFINE r == [i EXCEPT !.pc = "advanceGate", !.delay = d]
    <3>1. Become(t, r) /\ r.pc = "advanceGate" /\ r.slept = i.slept
      BY <1>1, <2>1 DEF Invocation
    <3> HIDE DEF r
    <3>. QED
      BY <3>1, AwakeSleeps
  <2>. QED
    BY <1>4, <2>1, GotoSleeps, NextGetSleeps DEF ObserveGet
<1>. QED
  BY <1>2, <1>3, <1>4

(* The actions that only move on, or end. *)
LEMMA OtherSleeps ==
    ASSUME FullInv, NEW t \in Token,
           \/ Renew(t) \/ Dispatch(t) \/ Deadline(t) \/ AppendLate(t)
           \/ ConsumeLate(t, "late", "reconcile") \/ ConsumeLate(t, "lastLate", "record")
           \/ AdvanceGate(t) \/ BackOff(t) \/ Record(t) \/ AppendLateGet(t) \/ LoseOwnership(t)
           \/ PersistenceFails(t) \/ Crash(t) \/ CancelBeforeDispatch(t)
    PROVE  OnlySleeps(t)
<1>1. CASE Renew(t) \/ Dispatch(t) \/ Deadline(t) \/ AppendLate(t)
  BY <1>1, GotoSleeps, ObservedSleeps, EndSleeps DEF Renew, Dispatch, Deadline, AppendLate
<1>2. CASE ConsumeLate(t, "late", "reconcile") \/ ConsumeLate(t, "lastLate", "record")
  BY <1>2, GotoSleeps, EndSleeps DEF ConsumeLate
<1>3. CASE AdvanceGate(t) \/ BackOff(t) \/ Record(t) \/ AppendLateGet(t)
  BY <1>3, GotoSleeps, EndSleeps, NextGetSleeps DEF AdvanceGate, BackOff, Record, AppendLateGet
<1>4. CASE \/ LoseOwnership(t) \/ PersistenceFails(t) \/ Crash(t) \/ CancelBeforeDispatch(t)
  BY <1>4, EndSleeps, VanishSleeps
     DEF LoseOwnership, PersistenceFails, Crash, CancelBeforeDispatch
<1>. QED
  BY <1>1, <1>2, <1>3, <1>4

LEMMA WorkSleeps ==
    ASSUME FullInv, WaitInv, [WorkNext]_workVars
    PROVE  WaitStep
<1>1. ASSUME NEW t \in Token, Proceed(t)
      PROVE  WaitStep
  <2>1. OnlySleeps(t)
    BY <1>1, PreSideEffectSleeps, WaitSleeps, WakeSleeps, ClaimSleeps, FinalizeSleeps,
       WaitForGetSleeps, RenewWaitSleeps, GetSleeps, OtherSleeps DEF Proceed
  <2>. QED
    BY <2>1, OnlySleepsStep
<1>2. ASSUME NEW t \in Token, Arrive(t)
      PROVE  WaitStep
  <2>1. inv' = inv \/ \E e : Observed(t, e)
    BY <1>2 DEF Arrive
  <2>. QED
    BY <2>1, ObservedSleeps, OnlySleepsStep, StillSleeps
<1>3. ASSUME NEW t \in Token, PersistenceFails(t) \/ Crash(t) \/ CancelBeforeDispatch(t)
      PROVE  WaitStep
  BY <1>3, OtherSleeps, OnlySleepsStep
<1>4. ASSUME NEW k \in Key, BindForeign(k)
      PROVE  WaitStep
  BY <1>4, StillSleeps DEF BindForeign
<1>5. CASE TimePasses \/ UNCHANGED workVars
  BY <1>5, StillSleeps DEF TimePasses, workVars
<1>. QED
  BY <1>1, <1>2, <1>3, <1>4, <1>5 DEF WorkNext

-----------------------------------------------------------------------------
(* The theorem *)

LEMMA WaitInvInit == WorkInit => WaitInv
<1> SUFFICES ASSUME WorkInit, NEW t \in Token
             PROVE  RestFits(t)
  BY DEF WaitInv
<1>1. inv[t].pc = "authorize"
  BY DEF WorkInit, Started
<1>. QED
  BY <1>1 DEF RestFits, MidWait

(* An invocation starts a sleep that takes it past the ceiling only for the  *)
(* quarantine: wait_if_it_fits and wait_while_renewing_lease ask the         *)
(* WaitBudget once, and the chunks of the wait never outgrow the answer.     *)
THEOREM WaitsStayWithinCeiling == WorkSpec => WaitsFitCeiling
<1>1. WorkInit => FullInv /\ WaitInv
  BY WorkInvInit, WaitInvInit
<1>2. FullInv /\ WaitInv /\ [WorkNext]_workVars => (FullInv /\ WaitInv)'
  BY WorkStep, WorkSleeps DEF WaitStep, WaitInv
<1>3. /\ FullInv /\ WaitInv /\ [WorkNext]_workVars
      => [\A t \in Token : inv'[t].slept > inv[t].slept =>
             inv'[t].then = "claim" \/ inv'[t].slept <= Ceiling]_workVars
  BY WorkSleeps DEF WaitStep, SleepFits
<1>. QED
  BY <1>1, <1>2, <1>3, PTL DEF WorkSpec, WaitsFitCeiling

=============================================================================
