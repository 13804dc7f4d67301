---------------------------- MODULE ExchangeProofs ----------------------------
(***************************************************************************)
(* Proofs about ClientExchange, and with it about SimulatorService and     *)
(* SimulatorServer, for every set of requests, keys and payloads, every    *)
(* workload, every number of workers and every header.                     *)
(***************************************************************************)
EXTENDS ClientExchange, RetryDelayProofs, FiniteSetTheorems

-----------------------------------------------------------------------------
(* Types *)

LoopState == [pc : {"select", "admit", "stopped"}, pending : Request \cup {NoRequest}]

MainState == {"serving", "interrupted", "signalled", "asked", "closing", "joining", "closed"}

(* Where a thread stands: before service.py, in it, behind it.               *)
Early == {"none", "queued", "accepted", "spawned", "reading"}
Inner == {"lockFor", "enter", "inspect", "decide", "waiting"}
Late  == {"deliver", "finish", "over"}

(* What never changes, and the tables of the simulator. *)
ServiceTyped ==
    /\ call \in [Request -> Call]
    /\ plan \in ScenarioPlan
    /\ lockTable \in [Key -> Request \cup {NoRequest}]
    /\ holder \in [Request -> Request \cup {NoRequest}]
    /\ ordinals \in [Operation -> [Key -> Nat]]
    /\ records \in [Key -> Payload \cup {NoRecord}]
    /\ handler \in [Request -> Thread]

ServerTyped ==
    /\ maxWorkers \in Nat /\ permits \in Nat /\ lost \in Nat
    /\ loop \in LoopState /\ main \in MainState
    /\ event \in BOOLEAN /\ active \subseteq Request /\ cut \subseteq Request
    /\ wire \in [Request -> Wire] /\ reply \in [Request -> Answer]

ClientTyped ==
    /\ peer \in {"simulator", "stranger"}
    /\ client \in [Request -> ClientRecord]

Typed == ServiceTyped /\ ServerTyped /\ ClientTyped

(* The presets decide on documented actions. *)
LEMMA ActionTyped ==
    ASSUME NEW scenario, NEW n
    PROVE  ResolveAction(scenario, n) \in HandlerAction
<1>1. FirstAction(scenario) \in HandlerAction
  BY DEF FirstAction, HandlerAction
<1>. QED
  BY <1>1 DEF ResolveAction, HandlerAction

(* resolve_action answers 429 to the first request of an operation only, and *)
(* a validated plan to submissions only.                                     *)
LEMMA FirstOnlyLimits ==
    ASSUME plan \in ScenarioPlan, NEW op \in Operation, NEW k \in Key, NEW n \in Nat,
           ResolveAction(Resolve(op, k), n) = "return_429"
    PROVE  op = "submission" /\ n = 1
<1> DEFINE scenario == Resolve(op, k)
<1>1. scenario = "429_then_success" /\ n = 1
  <2> HIDE DEF scenario
  <2>1. ResolveAction(scenario, n) = "return_429"
    BY DEF scenario
  <2>2. scenario # "always_500" /\ n = 1 /\ FirstAction(scenario) = "return_429"
    BY <2>1 DEF ResolveAction
  <2>. QED
    BY <2>2 DEF FirstAction
<1>2. PICK j \in {k, AnyKey} : scenario = plan[<<op, j>>]
  BY DEF Resolve
<1>3. <<op, j>> \in Operation \X (Key \cup {AnyKey})
  BY <1>2
<1>4. op \in Supports(plan[<<op, j>>])
  <2>1. DOMAIN plan = Operation \X (Key \cup {AnyKey})
    BY DEF ScenarioPlan
  <2>2. <<op, j>>[1] \in Supports(plan[<<op, j>>])
    BY <1>3, <2>1 DEF ScenarioPlan
  <2>. QED
    BY <2>2
<1>5. Supports("429_then_success") = {"submission"}
  BY DEF Supports
<1>. QED
  BY <1>1, <1>2, <1>4, <1>5

(* The initial values have their types.                                     *)
LEMMA InitTyped == ExchangeInit => Typed
<1> SUFFICES ASSUME ExchangeInit PROVE Typed
  OBVIOUS
<1>1. PICK w \in Workload : call = w.call /\ plan = w.plan /\ peer = w.peer
  BY DEF ExchangeInit
<1>2. NoThread \in Thread /\ NoAnswer \in Answer
  BY DEF NoThread, Thread, Pc, HandlerAction, NoAnswer, Answer
<1>3. ServiceTyped
  BY <1>1, <1>2, ExchangeAssumption DEF ExchangeInit, SimulatorInit, ServiceInit, ServiceTyped
<1>4. ServerTyped
  BY <1>2, ServerAssumption
     DEF ExchangeInit, SimulatorInit, ServerTyped, Idle, LoopState, MainState, Wire
<1>5. Nothing \in ClientRecord
  BY DEF Nothing, ClientRecord, Evidence, Absent, Header
<1>6. ClientTyped
  BY <1>1, <1>5, ExchangeAssumption DEF ExchangeInit, ClientTyped
<1>. QED
  BY <1>3, <1>4, <1>6 DEF Typed

-----------------------------------------------------------------------------
(* The invariant of the handlers *)

(* A handled request is valid.  Past lock_for a thread has the lock of its  *)
(* key, and from there to its decision it holds it.                        *)
Locked(r) ==
    LET h == handler[r] IN
    /\ h.pc \in Inner => call[r].op \in Operation /\ call[r].valid
    /\ h.pc \in Inner \ {"lockFor"} => h.lock \in Request /\ h.lock = lockTable[MyKey(r)]
    /\ Busy(r) => holder[h.lock] = r

(* An ordinal is given once; without one there is no decision.               *)
Counted(r) ==
    LET h == handler[r] IN
    /\ h.pc \in Early \cup {"lockFor", "enter"} => h.ordinal = 0
    /\ h.pc \in Early \cup Inner => h.answer = NoAnswer
    /\ Busy(r) => h.ordinal # 0
    /\ h.ordinal # 0 =>
          /\ call[r].op \in Operation
          /\ h.ordinal <= ordinals[call[r].op][MyKey(r)]

(* 429 is for the first POST of a key, which finds no record.                *)
FirstComes(r) ==
    LET h == handler[r] IN
    /\ h.action = "return_429" /\ h.ordinal # 0 => IsPost(r) /\ h.ordinal = 1
    /\ h.pc \in {"inspect", "decide"} /\ IsPost(r) /\ h.ordinal = 1 =>
          records[MyKey(r)] = NoRecord

(* What an answer says is so. *)
AnswerTrue(r, a) ==
    /\ a.status \in {200, 201} =>
          /\ a.payload # NoRecord /\ records[MyKey(r)] = a.payload
          /\ IsPost(r) => a.payload = call[r].payload
    /\ a.status = 409 => IsPost(r) /\ records[MyKey(r)] \notin {NoRecord, call[r].payload}
    /\ a.status = 429 => handler[r].action = "return_429"
    /\ a.status = 400 => handler[r].ordinal = 0

Informed(r) ==
    /\ handler[r].pc = "decide" => handler[r].seen = records[MyKey(r)]
    /\ AnswerTrue(r, handler[r].answer)

OrdinalsDiffer ==
    \A r, s \in Request :
        r # s /\ call[r].key = call[s].key /\ call[r].op = call[s].op
            /\ handler[r].ordinal # 0 => handler[r].ordinal # handler[s].ordinal

RecordsCounted ==
    \A k \in Key : ordinals["submission"][k] = 0 => records[k] = NoRecord

ServiceInv ==
    /\ \A r \in Request : Locked(r) /\ Counted(r) /\ FirstComes(r) /\ Informed(r)
    /\ OrdinalsDiffer
    /\ RecordsCounted

(* Threads of one key do not overlap between their ordinal and their answer. *)
LEMMA BusyAlone ==
    ASSUME ServiceInv, NEW r \in Request, NEW s \in Request,
           call[r].key = call[s].key, Busy(r), Busy(s)
    PROVE  r = s
<1>1. /\ handler[r].lock = lockTable[MyKey(r)] /\ holder[handler[r].lock] = r
      /\ handler[s].lock = lockTable[MyKey(s)] /\ holder[handler[s].lock] = s
  BY DEF ServiceInv, Locked, Busy, Inner
<1>. QED
  BY <1>1 DEF MyKey

(* The handlers of service.py. *)
LEMMA ServeTyped ==
    ASSUME ServiceTyped, ServiceInv, NEW r \in Request, Serve(r), UNCHANGED <<call, plan>>
    PROVE  ServiceTyped'
<1>1. handler[r] \in Thread /\ call[r] \in Call
  BY DEF ServiceTyped
<1>2. MyKey(r) \in Key
  BY <1>1 DEF MyKey, Call
<1>3. CASE LockFor(r)
  <2> DEFINE lock == IF lockTable[MyKey(r)] = NoRequest THEN r ELSE lockTable[MyKey(r)]
  <2>1. lock \in Request
    BY <1>2, ServiceAssumption DEF ServiceTyped
  <2>2. [handler[r] EXCEPT !.pc = "enter", !.lock = lock] \in Thread
    BY <1>1, <2>1 DEF Thread, Pc
  <2>. QED
    BY <1>2, <1>3, <2>1, <2>2 DEF LockFor, Move, ServiceTyped
<1>4. CASE Enter(r)
  <2> DEFINE n == ordinals[call[r].op][MyKey(r)] + 1
             action == ResolveAction(Resolve(call[r].op, MyKey(r)), n)
  <2>1. call[r].op \in Operation /\ handler[r].lock \in Request
    BY <1>4 DEF Enter, At, ServiceInv, Locked, Inner
  <2>2. n \in Nat
    BY <1>2, <2>1 DEF ServiceTyped
  <2>3. action \in HandlerAction
    BY ActionTyped
  <2> HIDE DEF action
  <2>4. [handler[r] EXCEPT !.pc = "inspect", !.ordinal = n, !.action = action] \in Thread
    BY <1>1, <2>2, <2>3 DEF Thread, Pc
  <2>5. ordinals' \in [Operation -> [Key -> Nat]]
    BY <1>2, <1>4, <2>1, <2>2 DEF Enter, ServiceTyped
  <2>. QED
    BY <1>2, <1>4, <2>1, <2>4, <2>5 DEF Enter, Move, ServiceTyped, action
<1>5. CASE Inspect(r)
  <2>1. [handler[r] EXCEPT !.pc = "decide", !.seen = records[MyKey(r)]] \in Thread
    BY <1>1, <1>2 DEF Thread, Pc, ServiceTyped
  <2>. QED
    BY <1>5, <2>1 DEF Inspect, Move, ServiceTyped
<1>6. ASSUME NEW status \in {0, 200, 201, 404, 409, 429, 500},
             NEW payload \in Payload \cup {NoRecord}, Return(r, status, payload)
      PROVE  handler' \in [Request -> Thread]
  <2>1. [status |-> status, payload |-> payload] \in Answer
    BY <1>6 DEF Answer
  <2>2. [handler[r] EXCEPT !.pc = "deliver",
                           !.answer = [status |-> status, payload |-> payload]] \in Thread
    BY <1>1, <2>1 DEF Thread, Pc
  <2>. QED
    BY <1>6, <2>2 DEF Return, Move, ServiceTyped
<1>7. ASSUME StartWait(r)
      PROVE  handler' \in [Request -> Thread]
  <2>1. [handler[r] EXCEPT !.pc = "waiting"] \in Thread
    BY <1>1 DEF Thread, Pc
  <2>. QED
    BY <1>7, <2>1 DEF StartWait, Move, ServiceTyped
<1>8. CASE Decide(r)
  <2>1. handler[r].seen \in Payload \cup {NoRecord} /\ call[r].payload \in Payload
    BY <1>1 DEF Thread, Call
  <2>2. handler[r].lock \in Request
    BY <1>8 DEF Decide, At, ServiceInv, Locked, Inner
  <2>3. CASE Refuse(r)
    <3>1. handler' \in [Request -> Thread]
      BY <1>6, <1>7, <2>1, <2>3 DEF Refuse
    <3>2. holder' \in [Request -> Request \cup {NoRequest}]
      BY <2>2, <2>3 DEF Refuse, Return, StartWait, ServiceTyped
    <3>. QED
      BY <1>8, <2>3, <3>1, <3>2 DEF Refuse, Decide, ServiceTyped
  <2>4. CASE Accept(r)
    <3>1. handler' \in [Request -> Thread]
      BY <1>6, <1>7, <2>1, <2>4 DEF Accept
    <3>2. holder' \in [Request -> Request \cup {NoRequest}]
      BY <2>2, <2>4 DEF Accept, Return, StartWait, ServiceTyped
    <3>3. records' \in [Key -> Payload \cup {NoRecord}]
      BY <1>2, <2>1, <2>4 DEF Accept, Process, ServiceTyped
    <3>. QED
      BY <1>8, <3>1, <3>2, <3>3 DEF Decide, ServiceTyped
  <2>5. CASE Report(r)
    <3>1. handler' \in [Request -> Thread]
      BY <1>6, <2>1, <2>5 DEF Report
    <3>2. holder' \in [Request -> Request \cup {NoRequest}]
      BY <2>2, <2>5 DEF Report, Return, ServiceTyped
    <3>. QED
      BY <1>8, <2>5, <3>1, <3>2 DEF Report, Decide, ServiceTyped
  <2>. QED
    BY <1>8, <2>3, <2>4, <2>5 DEF Decide
<1>9. CASE WaitEnds(r)
  <2>1. handler[r].lock \in Request
    BY <1>9 DEF WaitEnds, At, ServiceInv, Locked, Inner
  <2>2. handler' \in [Request -> Thread]
    BY <1>6, <1>9 DEF WaitEnds
  <2>3. holder' \in [Request -> Request \cup {NoRequest}]
    BY <1>9, <2>1 DEF WaitEnds, Return, ServiceTyped
  <2>. QED
    BY <1>9, <2>2, <2>3 DEF WaitEnds, ServiceTyped
<1>. QED
  BY <1>3, <1>4, <1>5, <1>8, <1>9 DEF Serve

(* What a step outside service.py does to a thread: it goes on outside, or   *)
(* comes in with a valid request.                                            *)
OutsideMove(s) ==
    /\ handler'[s].lock = handler[s].lock
    /\ handler'[s].ordinal = handler[s].ordinal
    /\ handler'[s].action = handler[s].action
    /\ handler'[s].seen = handler[s].seen
    /\ handler'[s].answer = handler[s].answer
    /\ \/ handler[s].pc \in Early /\ handler'[s].pc \in Early \cup Late
       \/ handler[s].pc \in Late /\ handler'[s].pc \in Late

Quiet ==
    /\ UNCHANGED <<call, plan, lockTable, holder, ordinals, records>>
    /\ handler' \in [Request -> Thread]
    /\ \A s \in Request : handler'[s] = handler[s] \/ OutsideMove(s)

(* Steps outside service.py keep the invariant of the handlers.             *)
LEMMA QuietKeepsService ==
    ASSUME ServiceTyped, ServiceInv, Quiet
    PROVE  ServiceInv'
<1> USE DEF Quiet
<1>1. ASSUME NEW s \in Request
      PROVE  (Locked(s) /\ Counted(s) /\ FirstComes(s) /\ Informed(s))'
  <2>1. Locked(s) /\ Counted(s) /\ FirstComes(s) /\ Informed(s)
    BY DEF ServiceInv
  <2>2. CASE handler'[s] = handler[s]
    BY <2>1, <2>2
       DEF Locked, Counted, FirstComes, Informed, AnswerTrue, MyKey, IsPost, Busy
  <2>3. CASE OutsideMove(s)
    <3>1. Locked(s)'
      BY <2>3 DEF OutsideMove, Locked, Early, Late, Inner, Busy
    <3>2. Counted(s)'
      BY <2>1, <2>3 DEF OutsideMove, Counted, Early, Late, Inner, Busy, MyKey
    <3>3. FirstComes(s)'
      BY <2>1, <2>3 DEF OutsideMove, FirstComes, Early, Late, IsPost, MyKey
    <3>4. Informed(s)'
      BY <2>1, <2>3 DEF OutsideMove, Informed, AnswerTrue, Early, Late, IsPost, MyKey
    <3>. QED
      BY <3>1, <3>2, <3>3, <3>4
  <2>. QED
    BY <2>2, <2>3
<1>2. OrdinalsDiffer'
  <2>1. \A s \in Request : handler'[s].ordinal = handler[s].ordinal
    BY DEF OutsideMove
  <2>. QED
    BY <2>1 DEF ServiceInv, OrdinalsDiffer
<1>3. RecordsCounted'
  BY DEF ServiceInv, RecordsCounted
<1>. QED
  BY <1>1, <1>2, <1>3 DEF ServiceInv

(* The steps of a handler in service.py.  Each changes its own thread only.  *)
LEMMA LockForKeepsService ==
    ASSUME ServiceTyped, ServiceInv, NEW r \in Request, LockFor(r), UNCHANGED <<call, plan>>
    PROVE  ServiceInv'
<1> DEFINE lock == IF lockTable[MyKey(r)] = NoRequest THEN r ELSE lockTable[MyKey(r)]
<1>1. handler[r] \in Thread /\ MyKey(r) \in Key
  BY DEF ServiceTyped, MyKey, Call
<1>2. lock \in Request
  BY <1>1, ServiceAssumption DEF ServiceTyped
<1>3. /\ handler[r].pc = "lockFor"
      /\ lockTable' = [lockTable EXCEPT ![MyKey(r)] = lock]
      /\ UNCHANGED <<holder, ordinals, records, call>>
      /\ \A s \in Request : s # r => handler'[s] = handler[s]
  BY DEF LockFor, At, Move, ServiceTyped
<1>4. /\ handler'[r].pc = "enter" /\ handler'[r].lock = lock
      /\ handler'[r].ordinal = handler[r].ordinal
      /\ handler'[r].action = handler[r].action
      /\ handler'[r].answer = handler[r].answer
  BY <1>1 DEF LockFor, Move, ServiceTyped, Thread
<1> HIDE DEF lock
<1>5. lockTable'[MyKey(r)] = lock
  BY <1>1, <1>3 DEF ServiceTyped
<1>6. ASSUME NEW s \in Request
      PROVE  (Locked(s) /\ Counted(s) /\ FirstComes(s) /\ Informed(s))'
  <2>1. Locked(s) /\ Counted(s) /\ FirstComes(s) /\ Informed(s)
    BY DEF ServiceInv
  <2>2. CASE s = r
    BY <1>2, <1>3, <1>4, <1>5, <2>1, <2>2
       DEF Locked, Counted, FirstComes, Informed, AnswerTrue, MyKey, IsPost, Busy, Early, Inner
  <2>3. CASE s # r
    <3>1. handler[s].pc \in Inner \ {"lockFor"} => lockTable'[MyKey(s)] = lockTable[MyKey(s)]
      <4>1. MyKey(s) \in Key
        BY DEF ServiceTyped, MyKey, Call
      <4>2. handler[s].pc \in Inner \ {"lockFor"} => lockTable[MyKey(s)] # NoRequest
        BY <2>1, ServiceAssumption DEF Locked
      <4>. QED
        BY <1>1, <1>3, <4>1, <4>2 DEF lock, ServiceTyped
    <3>. QED
      BY <1>3, <2>1, <2>3, <3>1
         DEF Locked, Counted, FirstComes, Informed, AnswerTrue, MyKey, IsPost, Busy
  <2>. QED
    BY <2>2, <2>3
<1>7. OrdinalsDiffer'
  <2>1. \A s \in Request : handler'[s].ordinal = handler[s].ordinal
    BY <1>3, <1>4
  <2>. QED
    BY <1>3, <2>1 DEF ServiceInv, OrdinalsDiffer
<1>8. RecordsCounted'
  BY <1>3 DEF ServiceInv, RecordsCounted
<1>. QED
  BY <1>6, <1>7, <1>8 DEF ServiceInv

(* The ordinal is new, and the lock was free.                               *)
LEMMA EnterKeepsService ==
    ASSUME ServiceTyped, ServiceInv, NEW r \in Request, Enter(r), UNCHANGED <<call, plan>>
    PROVE  ServiceInv'
<1> DEFINE op == call[r].op
           k == MyKey(r)
           n == ordinals[op][k] + 1
           action == ResolveAction(Resolve(op, k), n)
<1>1. handler[r] \in Thread /\ k \in Key /\ handler[r].pc = "enter"
  BY DEF ServiceTyped, MyKey, Call, Enter, At
<1>2. /\ op \in Operation /\ call[r].valid
      /\ handler[r].lock \in Request /\ handler[r].lock = lockTable[k]
  BY <1>1 DEF ServiceInv, Locked, Inner
<1>3. n \in Nat /\ n > ordinals[op][k] /\ ordinals[op][k] \in Nat
  BY <1>1, <1>2 DEF ServiceTyped
<1>4. /\ UNCHANGED <<lockTable, records, call>>
      /\ holder[handler[r].lock] = NoRequest
      /\ holder' = [holder EXCEPT ![handler[r].lock] = r]
      /\ ordinals' = [ordinals EXCEPT ![op][k] = n]
      /\ \A s \in Request : s # r => handler'[s] = handler[s]
  BY DEF Enter, Move, ServiceTyped
<1>5. /\ handler'[r].pc = "inspect" /\ handler'[r].lock = handler[r].lock
      /\ handler'[r].ordinal = n /\ handler'[r].action = action
      /\ handler'[r].answer = handler[r].answer
  BY <1>1 DEF Enter, Move, ServiceTyped, Thread
<1>6. /\ ordinals'[op][k] = n
      /\ \A o \in Operation, l \in Key : ordinals'[o][l] >= ordinals[o][l]
      /\ \A o \in Operation, l \in Key : ordinals'[o][l] = 0 => ordinals[o][l] = 0
  BY <1>1, <1>2, <1>3, <1>4 DEF ServiceTyped
<1>7. holder'[handler[r].lock] = r
  BY <1>2, <1>4 DEF ServiceTyped
<1>8. handler[r].ordinal = 0 /\ handler[r].answer = NoAnswer
  BY <1>1 DEF ServiceInv, Counted, Inner
<1>9. action = "return_429" => IsPost(r) /\ n = 1
  BY <1>1, <1>2, FirstOnlyLimits DEF ServiceTyped, IsPost
<1> HIDE DEF n, action, op, k
<1>10. ASSUME NEW s \in Request
       PROVE  (Locked(s) /\ Counted(s) /\ FirstComes(s) /\ Informed(s))'
  <2>1. Locked(s) /\ Counted(s) /\ FirstComes(s) /\ Informed(s)
    BY DEF ServiceInv
  <2>2. CASE s = r
    <3>1. Locked(r)'
      BY <1>2, <1>4, <1>5, <1>7 DEF Locked, Busy, Inner, MyKey, op, k
    <3>2. Counted(r)'
      BY <1>2, <1>3, <1>4, <1>5, <1>6, <1>8 DEF Counted, Early, Inner, Busy, MyKey, op, k
    <3>3. IsPost(r) /\ n = 1 => records[k] = NoRecord
      BY <1>1, <1>3, SMT DEF ServiceInv, RecordsCounted, IsPost, n, op
    <3>4. FirstComes(r)'
      BY <1>4, <1>5, <1>9, <3>3 DEF FirstComes, IsPost, MyKey, k
    <3>5. Informed(r)'
      BY <1>4, <1>5, <1>8 DEF Informed, AnswerTrue, NoAnswer
    <3>. QED
      BY <2>2, <3>1, <3>2, <3>4, <3>5
  <2>3. CASE s # r
    <3>1. Busy(s) => holder'[handler[s].lock] = s
      <4>1. Busy(s) => holder[handler[s].lock] = s /\ handler[s].lock \in Request
        BY <2>1 DEF Locked, Busy, Inner
      <4>. QED
        BY <1>4, <4>1, ServiceAssumption DEF ServiceTyped
    <3>2. Locked(s)'
      BY <1>4, <2>1, <2>3, <3>1 DEF Locked, Busy, MyKey
    <3>3. Counted(s)'
      <4>1. MyKey(s) \in Key /\ handler[s] \in Thread
        BY DEF ServiceTyped, MyKey, Call
      <4>2. handler[s].ordinal # 0 =>
               /\ call[s].op \in Operation
               /\ handler[s].ordinal <= ordinals'[call[s].op][MyKey(s)]
        <5>1. ASSUME call[s].op \in Operation
              PROVE  /\ ordinals[call[s].op][MyKey(s)] \in Nat
                     /\ ordinals'[call[s].op][MyKey(s)] >= ordinals[call[s].op][MyKey(s)]
                     /\ ordinals'[call[s].op][MyKey(s)] \in Int
          <6>1. ordinals'[call[s].op][MyKey(s)] \in Nat
            BY <1>1, <1>2, <1>3, <1>4, <4>1, <5>1 DEF ServiceTyped
          <6>. QED
            BY <1>6, <4>1, <5>1, <6>1 DEF ServiceTyped
        <5>2. handler[s].ordinal \in Nat
          BY <4>1 DEF Thread
        <5>3. handler[s].ordinal # 0 =>
                 call[s].op \in Operation /\ handler[s].ordinal <= ordinals[call[s].op][MyKey(s)]
          BY <2>1 DEF Counted
        <5>. QED
          BY <5>1, <5>2, <5>3
      <4>. QED
        BY <1>4, <2>1, <2>3, <4>2 DEF Counted, Busy, MyKey
    <3>4. FirstComes(s)' /\ Informed(s)'
      BY <1>4, <2>1, <2>3 DEF FirstComes, Informed, AnswerTrue, IsPost, MyKey
    <3>. QED
      BY <3>2, <3>3, <3>4
  <2>. QED
    BY <2>2, <2>3
<1>11. OrdinalsDiffer'
  <2>1. SUFFICES ASSUME NEW s \in Request, NEW t \in Request, s # t,
                        call[s].key = call[t].key, call[s].op = call[t].op,
                        handler'[s].ordinal # 0
                 PROVE  handler'[s].ordinal # handler'[t].ordinal
    BY <1>4 DEF OrdinalsDiffer
  <2>2. ASSUME NEW q \in Request, q # r, call[q].key = call[r].key, call[q].op = call[r].op
        PROVE  handler[q].ordinal # n
    <3>1. handler[q].ordinal \in Nat
      BY DEF ServiceTyped, Thread
    <3>2. handler[q].ordinal # 0 => handler[q].ordinal <= ordinals[op][k]
      BY <2>2 DEF ServiceInv, Counted, MyKey, op, k
    <3>. QED
      BY <1>3, <3>1, <3>2
  <2>3. CASE s = r \/ t = r
    BY <1>4, <1>5, <2>1, <2>2, <2>3
  <2>4. CASE s # r /\ t # r
    BY <1>4, <2>1, <2>4 DEF ServiceInv, OrdinalsDiffer
  <2>. QED
    BY <2>3, <2>4
<1>12. RecordsCounted'
  BY <1>4, <1>6 DEF ServiceInv, RecordsCounted, Operation
<1>. QED
  BY <1>10, <1>11, <1>12 DEF ServiceInv

(* The lookup sees the record of the key.                                   *)
LEMMA InspectKeepsService ==
    ASSUME ServiceTyped, ServiceInv, NEW r \in Request, Inspect(r), UNCHANGED <<call, plan>>
    PROVE  ServiceInv'
<1>1. handler[r] \in Thread /\ handler[r].pc = "inspect"
  BY DEF ServiceTyped, Inspect, At
<1>2. /\ UNCHANGED <<lockTable, holder, ordinals, records, call>>
      /\ \A s \in Request : s # r => handler'[s] = handler[s]
  BY DEF Inspect, Move, ServiceTyped
<1>3. /\ handler'[r].pc = "decide" /\ handler'[r].seen = records[MyKey(r)]
      /\ handler'[r].lock = handler[r].lock /\ handler'[r].ordinal = handler[r].ordinal
      /\ handler'[r].action = handler[r].action /\ handler'[r].answer = handler[r].answer
  BY <1>1 DEF Inspect, Move, ServiceTyped, Thread
<1>4. ASSUME NEW s \in Request
      PROVE  (Locked(s) /\ Counted(s) /\ FirstComes(s) /\ Informed(s))'
  <2>1. Locked(s) /\ Counted(s) /\ FirstComes(s) /\ Informed(s)
    BY DEF ServiceInv
  <2>2. CASE s = r
    BY <1>1, <1>2, <1>3, <2>1, <2>2
       DEF Locked, Counted, FirstComes, Informed, AnswerTrue, MyKey, IsPost, Busy, Early, Inner
  <2>3. CASE s # r
    BY <1>2, <2>1, <2>3
       DEF Locked, Counted, FirstComes, Informed, AnswerTrue, MyKey, IsPost, Busy
  <2>. QED
    BY <2>2, <2>3
<1>5. OrdinalsDiffer'
  <2>1. \A s \in Request : handler'[s].ordinal = handler[s].ordinal
    BY <1>2, <1>3
  <2>. QED
    BY <1>2, <2>1 DEF ServiceInv, OrdinalsDiffer
<1>6. RecordsCounted'
  BY <1>2 DEF ServiceInv, RecordsCounted
<1>. QED
  BY <1>4, <1>5, <1>6 DEF ServiceInv

(* A thread decides: it begins to wait with its lock, or leaves with an      *)
(* answer that is true; the record of its key may be created.                *)
Decision(r) ==
    /\ UNCHANGED <<call, plan, lockTable, ordinals>>
    /\ Busy(r)
    /\ \A s \in Request : s # r => handler'[s] = handler[s]
    /\ handler'[r].lock = handler[r].lock /\ handler'[r].ordinal = handler[r].ordinal
    /\ handler'[r].action = handler[r].action
    /\ \/ /\ handler'[r].pc = "waiting" /\ handler'[r].answer = handler[r].answer
          /\ UNCHANGED holder
       \/ /\ handler'[r].pc = "deliver"
          /\ holder' = [holder EXCEPT ![handler[r].lock] = NoRequest]
    /\ AnswerTrue(r, handler[r].answer)'
    /\ \/ UNCHANGED records
       \/ /\ call[r].op = "submission" /\ records[MyKey(r)] = NoRecord
          /\ handler[r].pc = "decide"
          /\ records' = [records EXCEPT ![MyKey(r)] = call[r].payload]

(* No other thread of the key is between its ordinal and its answer.        *)
LEMMA DecisionKeepsService ==
    ASSUME ServiceTyped, ServiceInv, NEW r \in Request, Decision(r)
    PROVE  ServiceInv'
<1>1. /\ handler[r] \in Thread /\ MyKey(r) \in Key
      /\ handler[r].lock \in Request /\ holder[handler[r].lock] = r
      /\ handler[r].ordinal # 0 /\ call[r].op \in Operation /\ call[r].valid
      /\ handler[r].lock = lockTable[MyKey(r)]
  BY DEF ServiceTyped, MyKey, Call, Decision, Busy, ServiceInv, Locked, Counted, Inner
<1>2. \A k \in Key : records[k] # NoRecord => records'[k] = records[k]
  BY <1>1 DEF Decision, ServiceTyped
<1>3. \A k \in Key : k # MyKey(r) => records'[k] = records[k]
  BY <1>1 DEF Decision, ServiceTyped
<1>4. ASSUME NEW s \in Request
      PROVE  (Locked(s) /\ Counted(s) /\ FirstComes(s) /\ Informed(s))'
  <2>1. Locked(s) /\ Counted(s) /\ FirstComes(s) /\ Informed(s)
    BY DEF ServiceInv
  <2>2. CASE s = r
    <3>1. Locked(r)'
      BY <1>1 DEF Decision, Locked, Inner, Busy, MyKey
    <3>2. Counted(r)'
      BY <1>1, <2>1, <2>2 DEF Decision, Counted, Early, Inner, Busy, MyKey
    <3>3. FirstComes(r)'
      BY <1>1, <2>1, <2>2 DEF Decision, FirstComes, IsPost
    <3>4. Informed(r)'
      BY DEF Decision, Informed
    <3>. QED
      BY <2>2, <3>1, <3>2, <3>3, <3>4
  <2>3. CASE s # r
    <3>1. handler'[s] = handler[s] /\ MyKey(s) \in Key
      BY <2>3 DEF Decision, ServiceTyped, MyKey, Call
    <3>2. Busy(s) => MyKey(s) # MyKey(r)
      BY <2>3, BusyAlone DEF Decision, MyKey
    <3>3. Busy(s) => holder'[handler[s].lock] = s
      <4>1. Busy(s) => holder[handler[s].lock] = s /\ handler[s].lock \in Request
        BY <2>1 DEF Locked, Busy, Inner
      <4>. QED
        BY <1>1, <2>3, <4>1 DEF Decision, ServiceTyped
    <3>4. Locked(s)'
      BY <2>1, <3>1, <3>3 DEF Decision, Locked, Busy, MyKey
    <3>5. Counted(s)'
      BY <2>1, <3>1 DEF Decision, Counted, Busy, MyKey
    <3>6. FirstComes(s)'
      BY <1>3, <2>1, <3>1, <3>2 DEF Decision, FirstComes, Busy, MyKey, IsPost
    <3>7. Informed(s)'
      BY <1>2, <1>3, <2>1, <3>1, <3>2 DEF Decision, Informed, AnswerTrue, Busy, MyKey, IsPost
    <3>. QED
      BY <3>4, <3>5, <3>6, <3>7
  <2>. QED
    BY <2>2, <2>3
<1>5. OrdinalsDiffer'
  <2>1. \A s \in Request : handler'[s].ordinal = handler[s].ordinal
    BY DEF Decision
  <2>. QED
    BY <2>1 DEF Decision, ServiceInv, OrdinalsDiffer
<1>6. RecordsCounted'
  <2>1. SUFFICES ASSUME NEW k \in Key, ordinals["submission"][k] = 0
                 PROVE  records'[k] = NoRecord
    BY DEF Decision, RecordsCounted
  <2>2. records[k] = NoRecord
    BY <2>1 DEF ServiceInv, RecordsCounted
  <2>3. CASE k = MyKey(r) /\ call[r].op = "submission"
    <3>1. handler[r].ordinal <= 0 /\ handler[r].ordinal \in Nat
      BY <1>1, <2>1, <2>3 DEF ServiceInv, Counted, Thread
    <3>. QED
      BY <1>1, <3>1
  <2>4. CASE ~(k = MyKey(r) /\ call[r].op = "submission")
    BY <1>3, <2>2, <2>4 DEF Decision
  <2>. QED
    BY <2>3, <2>4
<1>. QED
  BY <1>4, <1>5, <1>6 DEF ServiceInv

(* Every branch of a handler is such a decision.                            *)
LEMMA DecideDecides ==
    ASSUME ServiceTyped, ServiceInv, NEW r \in Request, Decide(r), UNCHANGED <<call, plan>>
    PROVE  Decision(r)
<1> DEFINE h == handler[r]
<1>1. /\ h \in Thread /\ MyKey(r) \in Key /\ call[r].payload \in Payload
      /\ h.pc = "decide" /\ Busy(r)
  BY DEF ServiceTyped, MyKey, Call, Decide, At, Busy
<1>2. h.seen = records[MyKey(r)] /\ h.answer = NoAnswer /\ records[MyKey(r)] \in Payload \cup {NoRecord}
  BY <1>1 DEF ServiceInv, Informed, Counted, Inner, ServiceTyped
<1>3. UNCHANGED <<lockTable, ordinals>>
  BY DEF Decide
<1>4. ASSUME NEW status, NEW payload, Return(r, status, payload)
      PROVE  /\ \A s \in Request : s # r => handler'[s] = handler[s]
             /\ handler'[r].lock = h.lock /\ handler'[r].ordinal = h.ordinal
             /\ handler'[r].action = h.action
             /\ handler'[r].pc = "deliver"
             /\ holder' = [holder EXCEPT ![h.lock] = NoRequest]
             /\ handler'[r].answer.status = status /\ handler'[r].answer.payload = payload
  BY <1>1, <1>4 DEF Return, Move, ServiceTyped, Thread
<1>5. ASSUME StartWait(r)
      PROVE  /\ \A s \in Request : s # r => handler'[s] = handler[s]
             /\ handler'[r].lock = h.lock /\ handler'[r].ordinal = h.ordinal
             /\ handler'[r].action = h.action
             /\ handler'[r].pc = "waiting" /\ handler'[r].answer = h.answer
             /\ UNCHANGED holder
  BY <1>1, <1>5 DEF StartWait, Move, ServiceTyped, Thread
<1>6. CASE Refuse(r)
  <2>1. UNCHANGED records
    BY <1>6 DEF Refuse
  <2>2. CASE Conflicting(r) /\ Return(r, 409, h.seen)
    <3>1. AnswerTrue(r, handler[r].answer)'
      BY <1>2, <1>4, <2>1, <2>2 DEF AnswerTrue, Conflicting, IsPost, MyKey
    <3>. QED
      BY <1>1, <1>3, <1>4, <2>1, <2>2, <3>1 DEF Decision
  <2>3. CASE h.action = "return_500" /\ Return(r, 500, NoRecord)
    <3>1. AnswerTrue(r, handler[r].answer)'
      BY <1>4, <2>3 DEF AnswerTrue
    <3>. QED
      BY <1>1, <1>3, <1>4, <2>1, <2>3, <3>1 DEF Decision
  <2>4. CASE h.action = "return_429" /\ Return(r, 429, NoRecord)
    <3>1. AnswerTrue(r, handler[r].answer)'
      BY <1>4, <2>4 DEF AnswerTrue
    <3>. QED
      BY <1>1, <1>3, <1>4, <2>1, <2>4, <3>1 DEF Decision
  <2>5. CASE h.action = "timeout_no_process" /\ StartWait(r)
    <3>1. AnswerTrue(r, handler[r].answer)'
      BY <1>2, <1>5, <2>5 DEF AnswerTrue, NoAnswer
    <3>. QED
      BY <1>1, <1>3, <1>5, <2>1, <2>5, <3>1 DEF Decision
  <2>. QED
    BY <1>6, <2>2, <2>3, <2>4, <2>5 DEF Refuse
<1>7. CASE Accept(r)
  <2>1. \/ UNCHANGED records
        \/ /\ call[r].op = "submission" /\ records[MyKey(r)] = NoRecord
           /\ records' = [records EXCEPT ![MyKey(r)] = call[r].payload]
    BY <1>2, <1>7 DEF Accept, Process, IsPost
  <2>2. records'[MyKey(r)] = call[r].payload
    BY <1>1, <1>2, <1>7 DEF Accept, Process, Conflicting, ServiceTyped
  <2>3. CASE Return(r, 0, NoRecord) \/ Return(r, 500, NoRecord)
    <3>1. AnswerTrue(r, handler[r].answer)'
      BY <1>4, <2>3 DEF AnswerTrue
    <3>. QED
      BY <1>1, <1>3, <1>4, <2>1, <2>3, <3>1 DEF Decision
  <2>4. CASE StartWait(r)
    <3>1. AnswerTrue(r, handler[r].answer)'
      BY <1>2, <1>5, <2>4 DEF AnswerTrue, NoAnswer
    <3>. QED
      BY <1>1, <1>3, <1>5, <2>1, <2>4, <3>1 DEF Decision
  <2>5. ASSUME NEW status \in {200, 201}, Return(r, status, call[r].payload)
        PROVE  Decision(r)
    <3>1. AnswerTrue(r, handler[r].answer)'
      BY <1>1, <1>4, <2>2, <2>5, ServiceAssumption DEF AnswerTrue, MyKey, IsPost
    <3>. QED
      BY <1>1, <1>3, <1>4, <2>1, <2>5, <3>1 DEF Decision
  <2>. QED
    BY <1>7, <2>3, <2>4, <2>5 DEF Accept
<1>8. CASE Report(r)
  <2>1. UNCHANGED records
    BY <1>8 DEF Report
  <2>2. CASE h.seen = NoRecord
    <3>1. Return(r, 404, NoRecord)
      BY <1>8, <2>2 DEF Report
    <3>2. AnswerTrue(r, handler[r].answer)'
      BY <1>4, <3>1 DEF AnswerTrue
    <3>. QED
      BY <1>1, <1>3, <1>4, <2>1, <3>1, <3>2 DEF Decision
  <2>3. CASE h.seen # NoRecord
    <3>1. Return(r, 200, h.seen) /\ ~IsPost(r)
      BY <1>8, <2>3 DEF Report
    <3>2. AnswerTrue(r, handler[r].answer)'
      BY <1>2, <1>4, <2>1, <2>3, <3>1 DEF AnswerTrue, MyKey, IsPost
    <3>. QED
      BY <1>1, <1>3, <1>4, <2>1, <3>1, <3>2 DEF Decision
  <2>. QED
    BY <2>2, <2>3
<1>. QED
  BY <1>6, <1>7, <1>8 DEF Decide

(* So is the end of a wait.                                                 *)
LEMMA WaitEndsDecides ==
    ASSUME ServiceTyped, ServiceInv, NEW r \in Request, WaitEnds(r), UNCHANGED <<call, plan>>
    PROVE  Decision(r)
<1>1. handler[r] \in Thread /\ handler[r].pc = "waiting" /\ Busy(r)
  BY DEF ServiceTyped, WaitEnds, At, Busy
<1>2. /\ UNCHANGED <<lockTable, ordinals, records>>
      /\ \A s \in Request : s # r => handler'[s] = handler[s]
      /\ handler'[r].lock = handler[r].lock /\ handler'[r].ordinal = handler[r].ordinal
      /\ handler'[r].action = handler[r].action
      /\ handler'[r].pc = "deliver"
      /\ holder' = [holder EXCEPT ![handler[r].lock] = NoRequest]
      /\ handler'[r].answer.status = 0
  BY <1>1 DEF WaitEnds, Return, Move, ServiceTyped, Thread
<1>3. AnswerTrue(r, handler[r].answer)'
  BY <1>2 DEF AnswerTrue
<1>. QED
  BY <1>1, <1>2, <1>3 DEF Decision

(* A request that is read is handled if it is valid, and answered if not.    *)
LEMMA ReadKeepsService ==
    ASSUME ServiceTyped, ServiceInv, NEW r \in Request, ReadRequest(r), Made(r)
    PROVE  ServiceTyped' /\ ServiceInv'
<1>1. handler[r] \in Thread /\ call[r] \in Call /\ handler[r].pc = "reading"
  BY DEF ServiceTyped, ReadRequest, At
<1>2. /\ UNCHANGED <<call, plan, lockTable, holder, ordinals, records>>
      /\ \A s \in Request : s # r => handler'[s] = handler[s]
      /\ handler'[r].ordinal = handler[r].ordinal /\ handler'[r].action = handler[r].action
  BY <1>1 DEF ReadRequest, Unthreaded, Move, ServiceTyped, Thread
<1>3. handler[r].ordinal = 0 /\ handler[r].answer = NoAnswer
  BY <1>1 DEF ServiceInv, Counted, Early
<1>4. \/ handler'[r].pc = "deliver" /\ handler'[r].answer.status = 400
      \/ /\ call[r].op \in Operation /\ call[r].valid
         /\ handler'[r].pc = "lockFor" /\ handler'[r].answer = NoAnswer
  <2>1. call[r].op \in Operation
    BY <1>1 DEF Made, Call
  <2>2. CASE ~call[r].valid
    BY <1>1, <1>3, <2>2 DEF ReadRequest, Rejection, Move, ServiceTyped, Thread, NoAnswer, Answer
  <2>3. CASE call[r].valid
    BY <1>1, <1>3, <2>1, <2>3 DEF ReadRequest, Move, ServiceTyped, Thread
  <2>. QED
    BY <2>2, <2>3
<1>5. handler' \in [Request -> Thread]
  <2>1. Rejection \in Answer
    BY DEF Rejection, NoAnswer, Answer
  <2>2. [handler[r] EXCEPT !.pc = "deliver", !.answer = Rejection] \in Thread
    BY <1>1, <2>1 DEF Thread, Pc
  <2>3. [handler[r] EXCEPT !.pc = "lockFor"] \in Thread
    BY <1>1 DEF Thread, Pc
  <2>. QED
    BY <2>2, <2>3 DEF ReadRequest, Move, ServiceTyped
<1>6. ServiceTyped'
  BY <1>2, <1>5 DEF ServiceTyped
<1>7. ASSUME NEW s \in Request
      PROVE  (Locked(s) /\ Counted(s) /\ FirstComes(s) /\ Informed(s))'
  <2>1. Locked(s) /\ Counted(s) /\ FirstComes(s) /\ Informed(s)
    BY DEF ServiceInv
  <2>2. CASE s = r
    <3>1. Locked(r)' /\ Counted(r)' /\ FirstComes(r)'
      BY <1>2, <1>3, <1>4 DEF Locked, Counted, FirstComes, Early, Inner, Busy
    <3>2. Informed(r)'
      BY <1>2, <1>3, <1>4 DEF Informed, AnswerTrue, NoAnswer
    <3>. QED
      BY <2>2, <3>1, <3>2
  <2>3. CASE s # r
    BY <1>2, <2>1, <2>3
       DEF Locked, Counted, FirstComes, Informed, AnswerTrue, MyKey, IsPost, Busy
  <2>. QED
    BY <2>2, <2>3
<1>8. OrdinalsDiffer'
  <2>1. \A s \in Request : handler'[s].ordinal = handler[s].ordinal
    BY <1>2
  <2>. QED
    BY <1>2, <2>1 DEF ServiceInv, OrdinalsDiffer
<1>9. RecordsCounted'
  BY <1>2 DEF ServiceInv, RecordsCounted
<1>. QED
  BY <1>6, <1>7, <1>8, <1>9 DEF ServiceInv

(* A step of service.py is one of its thread, which has a request in hand.   *)
LEMMA ServeMoves ==
    ASSUME ServiceTyped, NEW r \in Request, Serve(r)
    PROVE  /\ handler[r].pc \in Inner
           /\ handler'[r].pc \in Inner \cup {"deliver"}
           /\ \A s \in Request : s # r => handler'[s] = handler[s]
<1>1. handler \in [Request -> Thread]
  BY DEF ServiceTyped
<1>2. CASE LockFor(r)
  BY <1>1, <1>2 DEF LockFor, At, Move, Thread, Inner
<1>3. CASE Enter(r)
  BY <1>1, <1>3 DEF Enter, At, Move, Thread, Inner
<1>4. CASE Inspect(r)
  BY <1>1, <1>4 DEF Inspect, At, Move, Thread, Inner
<1>5. ASSUME NEW status, NEW payload, Return(r, status, payload)
      PROVE  /\ handler'[r].pc = "deliver"
             /\ \A s \in Request : s # r => handler'[s] = handler[s]
  BY <1>1, <1>5 DEF Return, Move, Thread
<1>6. ASSUME StartWait(r)
      PROVE  /\ handler'[r].pc = "waiting"
             /\ \A s \in Request : s # r => handler'[s] = handler[s]
  BY <1>1, <1>6 DEF StartWait, Move, Thread
<1>7. CASE Decide(r)
  BY <1>5, <1>6, <1>7 DEF Decide, At, Refuse, Accept, Report, Inner
<1>8. CASE WaitEnds(r)
  BY <1>5, <1>8 DEF WaitEnds, At, Inner
<1>. QED
  BY <1>2, <1>3, <1>4, <1>7, <1>8 DEF Serve

(* Every step of service.py keeps the invariant of the handlers.            *)
LEMMA ServeKeepsService ==
    ASSUME ServiceTyped, ServiceInv, NEW r \in Request, Serve(r), UNCHANGED <<call, plan>>
    PROVE  ServiceTyped' /\ ServiceInv'
BY ServeTyped, LockForKeepsService, EnterKeepsService, InspectKeepsService,
   DecideDecides, WaitEndsDecides, DecisionKeepsService DEF Serve

-----------------------------------------------------------------------------
(* The invariant of the server and of the clients *)

(* The loop has a connection in its hands while it looks for a permit.       *)
LoopHolds ==
    /\ loop.pc = "admit" => loop.pending \in Request /\ At(loop.pending, "accepted")
    /\ loop.pending # NoRequest => loop.pc = "admit"

(* A thread has a request that somebody made.  What is on its way to the     *)
(* client is what the thread, which has nothing more to say, answered.       *)
Served(r) ==
    /\ handler[r].pc # "none" => Made(r) /\ wire[r] # "none"
    /\ reply[r].status # 0 =>
          handler[r].pc \in {"finish", "over"} /\ reply[r] = handler[r].answer

(* What the client concludes comes from such an answer. *)
Concluded(r) ==
    LET c == client[r] IN
    /\ c.evidence = "transport_not_sent" => wire[r] = "none"
    /\ peer = "simulator" /\ c.evidence \notin {"none", "uncertain", "transport_not_sent"} =>
          reply[r].status # 0 /\ c.evidence = Classify(r, Written(r))
    /\ c.settled = "retry" => Keeps(c.ordinal, c.header, c.now, c.delay)

ExchangeInv ==
    /\ Typed /\ ServiceInv /\ LoopHolds /\ PermitsAccounted
    /\ \A r \in Request : Served(r) /\ Concluded(r)

(* The steps of server.py that leave the tables of service.py alone. *)
Goes(s, from, to) == handler[s].pc = from /\ handler'[s] = [handler[s] EXCEPT !.pc = to]

Onward(s) ==
    \/ Goes(s, "queued", "accepted") \/ Goes(s, "queued", "over")
    \/ Goes(s, "accepted", "spawned") \/ Goes(s, "accepted", "over")
    \/ Goes(s, "spawned", "reading") \/ Goes(s, "reading", "finish")
    \/ Goes(s, "deliver", "finish") \/ Goes(s, "finish", "over")

(* A step of one thread leaves the others where they are.                   *)
LEMMA MoveGoes ==
    ASSUME ServiceTyped, NEW r \in Request, NEW to \in Pc,
           Move(r, [handler[r] EXCEPT !.pc = to])
    PROVE  /\ handler' \in [Request -> Thread]
           /\ handler'[r] = [handler[r] EXCEPT !.pc = to]
           /\ \A s \in Request : s # r => handler'[s] = handler[s]
<1>1. handler[r] \in Thread
  BY DEF ServiceTyped
<1>2. [handler[r] EXCEPT !.pc = to] \in Thread
  BY <1>1 DEF Thread
<1>. QED
  BY <1>2 DEF Move, ServiceTyped

(* These steps are outside service.py.                                      *)
LEMMA OnwardIsQuiet ==
    ASSUME ServiceTyped, UNCHANGED Unthreaded, handler' \in [Request -> Thread],
           \A s \in Request : handler'[s] = handler[s] \/ Onward(s) \/ Goes(s, "none", "queued")
    PROVE  Quiet
<1>1. ASSUME NEW s \in Request, handler'[s] # handler[s]
      PROVE  OutsideMove(s)
  <2>1. handler[s] \in Thread
    BY DEF ServiceTyped
  <2>. QED
    BY <1>1, <2>1 DEF Onward, Goes, OutsideMove, Thread, Early, Late
<1>. QED
  BY <1>1 DEF Quiet, Unthreaded

(* A conclusion stays while what it rests on does.                          *)
LEMMA ConclusionStays ==
    ASSUME NEW s \in Request, Served(s), Concluded(s), call' = call, peer' = peer,
           client'[s] = client[s], wire'[s] = wire[s],
           reply[s].status # 0 => reply'[s] = reply[s]
    PROVE  Concluded(s)'
<1>1. ASSUME reply'[s] = reply[s]
      PROVE  Classify(s, Written(s))' = Classify(s, Written(s))
  <2>1. Written(s)' = Written(s)
    BY <1>1 DEF Written, IsPost
  <2>. QED
    BY <2>1 DEF Classify, IsPost
<1>. QED
  BY <1>1 DEF Concluded

(* Such steps keep what is about handlers, answers and conclusions.         *)
LEMMA OnwardKeeps ==
    ASSUME ExchangeInv, UNCHANGED <<Unthreaded, wire, peer, client>>,
           handler' \in [Request -> Thread],
           \A s \in Request : handler'[s] = handler[s] \/ Onward(s),
           \A s \in Request :
               \/ reply'[s] = reply[s]
               \/ Goes(s, "deliver", "finish") /\ reply'[s] = handler[s].answer
    PROVE  /\ ServiceTyped' /\ ServiceInv' /\ ClientTyped'
           /\ \A s \in Request : Served(s)' /\ Concluded(s)'
<1>1. ServiceTyped /\ ServiceInv /\ ClientTyped
  BY DEF ExchangeInv, Typed
<1>2. ServiceTyped'
  BY <1>1 DEF ServiceTyped, Unthreaded
<1>3. ServiceInv'
  BY <1>1, OnwardIsQuiet, QuietKeepsService
<1>4. ClientTyped'
  BY <1>1 DEF ClientTyped
<1>5. ASSUME NEW s \in Request
      PROVE  Served(s)' /\ Concluded(s)'
  <2>1. Served(s) /\ Concluded(s) /\ handler[s] \in Thread
    BY <1>1 DEF ExchangeInv, ServiceTyped
  <2>2. Served(s)'
    BY <2>1 DEF Served, Onward, Goes, Made, Unthreaded, Thread
  <2>3. reply[s].status # 0 => reply'[s] = reply[s]
    BY <2>1 DEF Served, Goes
  <2>. QED
    BY <2>1, <2>2, <2>3, ConclusionStays DEF Unthreaded
<1>. QED
  BY <1>2, <1>3, <1>4, <1>5

(* Permits *)

RunningSet == {r \in Request : Running(r)}

(* There are finitely many running threads.                                 *)
LEMMA RunningFinite == IsFiniteSet(RunningSet) /\ Cardinality(RunningSet) \in Nat
BY ServerAssumption, FS_Subset, FS_CardinalityType DEF RunningSet

(* No thread begins or ends: permits stay, or one is lost.                  *)
LEMMA SameRunning ==
    ASSUME PermitsAccounted, ServerTyped, \A s \in Request : Running(s)' <=> Running(s),
           maxWorkers' = maxWorkers,
           \/ permits' = permits /\ lost' = lost
           \/ permits' = permits - 1 /\ lost' = lost + 1
    PROVE  PermitsAccounted'
<1>1. RunningSet' = RunningSet
  BY DEF RunningSet
<1>2. permits + Cardinality(RunningSet) + lost = maxWorkers
  BY DEF PermitsAccounted, RunningSet
<1>3. Cardinality(RunningSet)' = Cardinality(RunningSet)
  BY <1>1
<1>4. permits' + Cardinality(RunningSet)' + lost' = maxWorkers'
  BY <1>2, <1>3, RunningFinite DEF ServerTyped
<1>. QED
  BY <1>4 DEF PermitsAccounted, RunningSet

(* A thread begins with a permit.                                           *)
LEMMA OneMoreRunning ==
    ASSUME PermitsAccounted, ServerTyped, NEW r \in Request, ~Running(r), Running(r)',
           \A s \in Request : s # r => (Running(s)' <=> Running(s)),
           maxWorkers' = maxWorkers, permits > 0, permits' = permits - 1, lost' = lost
    PROVE  PermitsAccounted'
<1>1. RunningSet' = RunningSet \cup {r} /\ r \notin RunningSet
  BY DEF RunningSet
<1>2. Cardinality(RunningSet)' = Cardinality(RunningSet) + 1
  BY <1>1, RunningFinite, FS_AddElement
<1>3. permits + Cardinality(RunningSet) + lost = maxWorkers
  BY DEF PermitsAccounted, RunningSet
<1>4. permits' + Cardinality(RunningSet)' + lost' = maxWorkers'
  BY <1>2, <1>3, RunningFinite DEF ServerTyped
<1>. QED
  BY <1>4 DEF PermitsAccounted, RunningSet

(* A thread ends and gives its permit back.                                 *)
LEMMA OneLessRunning ==
    ASSUME PermitsAccounted, ServerTyped, NEW r \in Request, Running(r), ~Running(r)',
           \A s \in Request : s # r => (Running(s)' <=> Running(s)),
           maxWorkers' = maxWorkers, permits' = permits + 1, lost' = lost
    PROVE  PermitsAccounted'
<1>1. RunningSet' = RunningSet \ {r} /\ r \in RunningSet
  BY DEF RunningSet
<1>2. Cardinality(RunningSet)' = Cardinality(RunningSet) - 1
  BY <1>1, RunningFinite, FS_RemoveElement
<1>3. permits + Cardinality(RunningSet) + lost = maxWorkers
  BY DEF PermitsAccounted, RunningSet
<1>4. permits' + Cardinality(RunningSet)' + lost' = maxWorkers'
  BY <1>2, <1>3, RunningFinite DEF ServerTyped
<1>. QED
  BY <1>4 DEF PermitsAccounted, RunningSet

-----------------------------------------------------------------------------
(* The steps of the server *)

(* One thread goes on, and may have answered.                               *)
LEMMA OneOnward ==
    ASSUME ExchangeInv, NEW r \in Request, NEW to \in Pc,
           Move(r, [handler[r] EXCEPT !.pc = to]),
           UNCHANGED <<Unthreaded, wire, peer, client>>,
           Goes(r, handler[r].pc, to) => Onward(r),
           \/ UNCHANGED reply
           \/ /\ handler[r].pc = "deliver" /\ to = "finish"
              /\ reply' = [reply EXCEPT ![r] = handler[r].answer]
    PROVE  /\ ServiceTyped' /\ ServiceInv' /\ ClientTyped'
           /\ \A s \in Request : Served(s)' /\ Concluded(s)'
           /\ handler'[r].pc = to
           /\ \A s \in Request : s # r => handler'[s] = handler[s]
<1>1. ServiceTyped /\ handler[r] \in Thread /\ reply \in [Request -> Answer]
  BY DEF ExchangeInv, Typed, ServiceTyped, ServerTyped
<1>2. /\ handler' \in [Request -> Thread]
      /\ handler'[r] = [handler[r] EXCEPT !.pc = to]
      /\ \A s \in Request : s # r => handler'[s] = handler[s]
  BY <1>1, MoveGoes
<1>3. Goes(r, handler[r].pc, to)
  BY <1>2 DEF Goes
<1>4. ASSUME NEW s \in Request
      PROVE  \/ reply'[s] = reply[s]
             \/ Goes(s, "deliver", "finish") /\ reply'[s] = handler[s].answer
  BY <1>1, <1>3
<1>5. handler'[r].pc = to
  BY <1>1, <1>2 DEF Thread
<1>. QED
  BY <1>2, <1>3, <1>4, <1>5, OnwardKeeps

(* The accept loop. *)
LEMMA LoopKeeps ==
    ASSUME ExchangeInv, LoopStep, UNCHANGED <<peer, client>>
    PROVE  ExchangeInv'
<1>1. /\ ServerTyped /\ LoopHolds /\ PermitsAccounted
      /\ handler \in [Request -> Thread]
  BY DEF ExchangeInv, Typed, ServiceTyped
<1>2. CASE StopLoop
  <2>1. /\ UNCHANGED <<Unthreaded, wire, peer, client, handler, reply>>
        /\ UNCHANGED <<maxWorkers, permits, lost, main, event, active, cut>>
        /\ loop' = [loop EXCEPT !.pc = "stopped"] /\ loop.pc = "select"
    BY <1>2 DEF StopLoop
  <2>2. /\ ServiceTyped' /\ ServiceInv' /\ ClientTyped'
        /\ \A s \in Request : Served(s)' /\ Concluded(s)'
    BY <1>1, <2>1, OnwardKeeps
  <2>3. ServerTyped'
    BY <1>1, <2>1 DEF ServerTyped, LoopState
  <2>4. LoopHolds'
    BY <1>1, <2>1 DEF LoopHolds, ServerTyped, LoopState
  <2>5. PermitsAccounted'
    BY <1>1, <2>1, SameRunning DEF Running
  <2>. QED
    BY <2>2, <2>3, <2>4, <2>5 DEF ExchangeInv, Typed
<1>3. ASSUME NEW r \in Request, TakeConnection(r)
      PROVE  ExchangeInv'
  <2>1. /\ Move(r, [handler[r] EXCEPT !.pc = "accepted"]) /\ handler[r].pc = "queued"
        /\ UNCHANGED <<Unthreaded, wire, peer, client, reply>>
        /\ UNCHANGED <<maxWorkers, permits, lost, main, event, active, cut>>
        /\ loop' = [pc |-> "admit", pending |-> r]
    BY <1>3 DEF TakeConnection, At
  <2>2. /\ ServiceTyped' /\ ServiceInv' /\ ClientTyped'
        /\ \A s \in Request : Served(s)' /\ Concluded(s)'
        /\ handler'[r].pc = "accepted"
        /\ \A s \in Request : s # r => handler'[s] = handler[s]
    BY <2>1, OneOnward DEF Pc, Onward
  <2>3. ServerTyped'
    BY <1>1, <2>1 DEF ServerTyped, LoopState
  <2>4. LoopHolds'
    BY <2>1, <2>2 DEF LoopHolds, At
  <2>5. PermitsAccounted'
    BY <1>1, <2>1, <2>2, SameRunning DEF Running
  <2>. QED
    BY <2>2, <2>3, <2>4, <2>5 DEF ExchangeInv, Typed
<1>4. ASSUME NEW r \in Request, Admit(r)
      PROVE  ExchangeInv'
  <2>1. /\ Move(r, [handler[r] EXCEPT !.pc = "spawned"]) /\ handler[r].pc = "accepted"
        /\ UNCHANGED <<Unthreaded, wire, peer, client, reply>>
        /\ UNCHANGED <<maxWorkers, lost, main, event, active, cut>>
        /\ permits > 0 /\ permits' = permits - 1 /\ loop' = Idle
    BY <1>1, <1>4 DEF Admit, LoopHolds, At
  <2>2. /\ ServiceTyped' /\ ServiceInv' /\ ClientTyped'
        /\ \A s \in Request : Served(s)' /\ Concluded(s)'
        /\ handler'[r].pc = "spawned"
        /\ \A s \in Request : s # r => handler'[s] = handler[s]
    BY <2>1, OneOnward DEF Pc, Onward
  <2>3. ServerTyped'
    BY <1>1, <2>1 DEF ServerTyped, LoopState, Idle
  <2>4. LoopHolds'
    BY <2>1 DEF LoopHolds, Idle
  <2>5. PermitsAccounted'
    BY <1>1, <2>1, <2>2, OneMoreRunning DEF Running
  <2>. QED
    BY <2>2, <2>3, <2>4, <2>5 DEF ExchangeInv, Typed
<1>5. ASSUME NEW r \in Request, TurnAway(r) \/ StartFails(r)
      PROVE  ExchangeInv'
  <2>1. /\ Move(r, [handler[r] EXCEPT !.pc = "over"]) /\ handler[r].pc = "accepted"
        /\ UNCHANGED <<Unthreaded, wire, peer, client, reply>>
        /\ UNCHANGED <<maxWorkers, main, event, active, cut>>
        /\ \/ permits' = permits /\ lost' = lost
           \/ permits > 0 /\ permits' = permits - 1 /\ lost' = lost + 1
        /\ loop' = Idle
    BY <1>1, <1>5 DEF TurnAway, StartFails, LoopHolds, At
  <2>2. /\ ServiceTyped' /\ ServiceInv' /\ ClientTyped'
        /\ \A s \in Request : Served(s)' /\ Concluded(s)'
        /\ handler'[r].pc = "over"
        /\ \A s \in Request : s # r => handler'[s] = handler[s]
    BY <2>1, OneOnward DEF Pc, Onward
  <2>3. ServerTyped'
    BY <1>1, <2>1 DEF ServerTyped, LoopState, Idle
  <2>4. LoopHolds'
    BY <2>1 DEF LoopHolds, Idle
  <2>5. PermitsAccounted'
    BY <1>1, <2>1, <2>2, SameRunning DEF Running
  <2>. QED
    BY <2>2, <2>3, <2>4, <2>5 DEF ExchangeInv, Typed
<1>. QED
  BY <1>2, <1>3, <1>4, <1>5 DEF LoopStep

(* The thread of a request. *)
LEMMA ThreadKeeps ==
    ASSUME ExchangeInv, NEW r \in Request, ThreadStep(r), UNCHANGED <<peer, client>>
    PROVE  ExchangeInv'
<1>1. /\ ServiceTyped /\ ServiceInv /\ ServerTyped /\ ClientTyped
      /\ LoopHolds /\ PermitsAccounted
      /\ handler \in [Request -> Thread]
      /\ \A s \in Request : Served(s) /\ Concluded(s)
  BY DEF ExchangeInv, Typed, ServiceTyped
<1>2. ASSUME handler[r].pc \notin {"none", "queued", "accepted", "over"},
             handler'[r].pc \notin {"none", "queued", "accepted"},
             \A s \in Request : s # r => handler'[s] = handler[s],
             UNCHANGED <<loop, maxWorkers, lost>>,
             \/ handler'[r].pc # "over" /\ permits' = permits
             \/ handler'[r].pc = "over" /\ permits' = permits + 1
      PROVE  LoopHolds' /\ PermitsAccounted'
  <2>1. LoopHolds'
    BY <1>1, <1>2 DEF LoopHolds, At
  <2>2. handler'[r].pc # "over" => PermitsAccounted'
    BY <1>1, <1>2, SameRunning DEF Running
  <2>3. handler'[r].pc = "over" => PermitsAccounted'
    BY <1>1, <1>2, OneLessRunning DEF Running
  <2>. QED
    BY <2>1, <2>2, <2>3
<1>3. CASE Register(r)
  <2>1. /\ Move(r, [handler[r] EXCEPT !.pc = "reading"]) /\ handler[r].pc = "spawned"
        /\ UNCHANGED <<Unthreaded, wire, peer, client, reply>>
        /\ UNCHANGED <<maxWorkers, lost, loop, main, event, cut, permits>>
        /\ active' = active \cup {r}
    BY <1>3 DEF Register, At, control
  <2>2. /\ ServiceTyped' /\ ServiceInv' /\ ClientTyped'
        /\ \A s \in Request : Served(s)' /\ Concluded(s)'
        /\ handler'[r].pc = "reading"
        /\ \A s \in Request : s # r => handler'[s] = handler[s]
    BY <2>1, OneOnward DEF Pc, Onward
  <2>3. ServerTyped'
    BY <1>1, <2>1 DEF ServerTyped
  <2>4. LoopHolds' /\ PermitsAccounted'
    BY <1>2, <2>1, <2>2
  <2>. QED
    BY <2>2, <2>3, <2>4 DEF ExchangeInv, Typed
<1>4. CASE ReadRequest(r)
  <2>1. /\ handler[r].pc = "reading"
        /\ UNCHANGED <<Unthreaded, wire, peer, client, reply>>
        /\ UNCHANGED <<maxWorkers, lost, loop, main, event, cut, permits, active>>
    BY <1>4 DEF ReadRequest, At, control
  <2>2. /\ handler'[r].pc \in {"deliver", "lockFor"}
        /\ \A s \in Request : s # r => handler'[s] = handler[s]
    BY <1>1, <1>4 DEF ReadRequest, Move, Thread
  <2>3. ServiceTyped' /\ ServiceInv'
    BY <1>1, <1>4, <2>1, ReadKeepsService DEF Served
  <2>4. ClientTyped' /\ ServerTyped'
    BY <1>1, <2>1 DEF ClientTyped, ServerTyped
  <2>5. LoopHolds' /\ PermitsAccounted'
    BY <1>2, <2>1, <2>2
  <2>6. ASSUME NEW s \in Request
        PROVE  Served(s)' /\ Concluded(s)'
    <3>1. Served(s)'
      BY <1>1, <2>1, <2>2 DEF Served, Made, Unthreaded
    <3>. QED
      BY <1>1, <2>1, <3>1, ConclusionStays DEF Unthreaded
  <2>. QED
    BY <2>3, <2>4, <2>5, <2>6 DEF ExchangeInv, Typed
<1>5. CASE ReadEnds(r)
  <2>1. /\ Move(r, [handler[r] EXCEPT !.pc = "finish"]) /\ handler[r].pc = "reading"
        /\ UNCHANGED <<Unthreaded, wire, peer, client, reply>>
        /\ UNCHANGED <<maxWorkers, lost, loop, main, event, cut, permits, active>>
    BY <1>5 DEF ReadEnds, At, control
  <2>2. /\ ServiceTyped' /\ ServiceInv' /\ ClientTyped'
        /\ \A s \in Request : Served(s)' /\ Concluded(s)'
        /\ handler'[r].pc = "finish"
        /\ \A s \in Request : s # r => handler'[s] = handler[s]
    BY <2>1, OneOnward DEF Pc, Onward
  <2>3. ServerTyped'
    BY <1>1, <2>1 DEF ServerTyped
  <2>4. LoopHolds' /\ PermitsAccounted'
    BY <1>2, <2>1, <2>2
  <2>. QED
    BY <2>2, <2>3, <2>4 DEF ExchangeInv, Typed
<1>6. CASE InService(r)
  <2>1. Serve(r) /\ UNCHANGED <<call, plan, serverVars>>
    BY <1>6 DEF InService
  <2>2. ServiceTyped' /\ ServiceInv'
    BY <1>1, <2>1, ServeKeepsService
  <2>3. ClientTyped' /\ ServerTyped'
    BY <1>1, <2>1 DEF ClientTyped, ServerTyped, serverVars
  <2>4. /\ handler[r].pc \in Inner /\ handler'[r].pc \in (Inner \cup {"deliver"})
        /\ \A s \in Request : s # r => handler'[s] = handler[s]
    BY <1>1, <2>1, ServeMoves
  <2>5. LoopHolds' /\ PermitsAccounted'
    BY <1>2, <2>1, <2>4 DEF Inner, serverVars
  <2>6. ASSUME NEW s \in Request
        PROVE  Served(s)' /\ Concluded(s)'
    <3>1. Served(s)'
      BY <1>1, <2>1, <2>4 DEF Served, Made, serverVars, Inner
    <3>. QED
      BY <1>1, <2>1, <3>1, ConclusionStays DEF serverVars
  <2>. QED
    BY <2>2, <2>3, <2>5, <2>6 DEF ExchangeInv, Typed
<1>7. CASE Deliver(r)
  <2>1. /\ Move(r, [handler[r] EXCEPT !.pc = "finish"]) /\ handler[r].pc = "deliver"
        /\ UNCHANGED <<Unthreaded, wire, peer, client>>
        /\ UNCHANGED <<maxWorkers, lost, loop, main, event, cut, permits, active>>
        /\ UNCHANGED reply \/ reply' = [reply EXCEPT ![r] = handler[r].answer]
    BY <1>7 DEF Deliver, At, control
  <2>2. /\ ServiceTyped' /\ ServiceInv' /\ ClientTyped'
        /\ \A s \in Request : Served(s)' /\ Concluded(s)'
        /\ handler'[r].pc = "finish"
        /\ \A s \in Request : s # r => handler'[s] = handler[s]
    BY <2>1, OneOnward DEF Pc, Onward
  <2>3. ServerTyped'
    <3>1. handler[r].answer \in Answer
      BY <1>1 DEF Thread
    <3>2. reply' \in [Request -> Answer]
      BY <1>1, <2>1, <3>1 DEF ServerTyped
    <3>. QED
      BY <1>1, <2>1, <3>2 DEF ServerTyped
  <2>4. LoopHolds' /\ PermitsAccounted'
    BY <1>2, <2>1, <2>2
  <2>. QED
    BY <2>2, <2>3, <2>4 DEF ExchangeInv, Typed
<1>8. CASE Finish(r)
  <2>1. /\ Move(r, [handler[r] EXCEPT !.pc = "over"]) /\ handler[r].pc = "finish"
        /\ UNCHANGED <<Unthreaded, wire, peer, client, reply>>
        /\ UNCHANGED <<maxWorkers, lost, loop, main, event, cut>>
        /\ permits' = permits + 1 /\ active' = active \ {r}
    BY <1>8 DEF Finish, At, control
  <2>2. /\ ServiceTyped' /\ ServiceInv' /\ ClientTyped'
        /\ \A s \in Request : Served(s)' /\ Concluded(s)'
        /\ handler'[r].pc = "over"
        /\ \A s \in Request : s # r => handler'[s] = handler[s]
    BY <2>1, OneOnward DEF Pc, Onward
  <2>3. ServerTyped'
    BY <1>1, <2>1 DEF ServerTyped
  <2>4. LoopHolds' /\ PermitsAccounted'
    BY <1>2, <2>1, <2>2
  <2>. QED
    BY <2>2, <2>3, <2>4 DEF ExchangeInv, Typed
<1>. QED
  BY <1>3, <1>4, <1>5, <1>6, <1>7, <1>8 DEF ThreadStep

(* The end of the server: the interrupt and the shutdown. *)
LEMMA EndKeeps ==
    ASSUME ExchangeInv, Interrupt \/ SetEvent \/ CloseStep, UNCHANGED <<peer, client>>
    PROVE  ExchangeInv'
<1>1. /\ ServiceTyped /\ ServerTyped /\ LoopHolds /\ PermitsAccounted
      /\ handler \in [Request -> Thread]
  BY DEF ExchangeInv, Typed, ServiceTyped
<1>2. ASSUME handler' \in [Request -> Thread],
             \A s \in Request :
                 handler'[s] = handler[s] \/ Goes(s, "accepted", "over") \/ Goes(s, "queued", "over"),
             UNCHANGED <<Unthreaded, wire, peer, client, reply, maxWorkers>>,
             \/ permits' = permits /\ lost' = lost
             \/ permits' = permits - 1 /\ lost' = lost + 1
      PROVE  /\ ServiceTyped' /\ ServiceInv' /\ ClientTyped'
             /\ \A s \in Request : Served(s)' /\ Concluded(s)'
             /\ PermitsAccounted'
  <2>1. /\ ServiceTyped' /\ ServiceInv' /\ ClientTyped'
        /\ \A s \in Request : Served(s)' /\ Concluded(s)'
    BY <1>2, OnwardKeeps DEF Onward
  <2>2. ASSUME NEW s \in Request
        PROVE  Running(s)' <=> Running(s)
    <3>1. handler[s] \in Thread
      BY <1>1
    <3>. QED
      BY <1>2, <3>1 DEF Running, Goes, Thread
  <2>3. PermitsAccounted'
    BY <1>1, <1>2, <2>2, SameRunning
  <2>. QED
    BY <2>1, <2>3
<1>3. CASE Interrupt
  <2>1. /\ UNCHANGED <<Unthreaded, wire, peer, client, reply, maxWorkers>>
        /\ UNCHANGED <<event, active, cut>>
        /\ \/ permits' = permits /\ lost' = lost
           \/ permits > 0 /\ permits' = permits - 1 /\ lost' = lost + 1
        /\ main' = "interrupted"
        /\ loop' = [pc |-> "stopped", pending |-> NoRequest]
    BY <1>3 DEF Interrupt, MainStep
  <2>2. /\ handler' \in [Request -> Thread]
        /\ \A s \in Request : handler'[s] = handler[s] \/ Goes(s, "accepted", "over")
    <3>1. CASE loop.pending = NoRequest
      BY <1>1, <1>3, <3>1 DEF Interrupt
    <3>2. CASE loop.pending # NoRequest
      <4> DEFINE r == loop.pending
      <4>1. r \in Request /\ handler[r].pc = "accepted" /\ handler[r] \in Thread
        BY <1>1, <3>2 DEF LoopHolds, At
      <4>2. handler' = [handler EXCEPT ![r].pc = "over"]
        BY <1>3, <3>2 DEF Interrupt
      <4>3. [handler[r] EXCEPT !.pc = "over"] \in Thread
        BY <4>1 DEF Thread, Pc
      <4> HIDE DEF r
      <4>4. Move(r, [handler[r] EXCEPT !.pc = "over"])
        BY <1>1, <4>1, <4>2 DEF Move
      <4>. QED
        BY <1>1, <4>1, <4>3, <4>4 DEF Move, Goes
    <3>. QED
      BY <3>1, <3>2
  <2>3. /\ ServiceTyped' /\ ServiceInv' /\ ClientTyped'
        /\ \A s \in Request : Served(s)' /\ Concluded(s)'
        /\ PermitsAccounted'
    BY <1>2, <2>1, <2>2
  <2>4. ServerTyped' /\ LoopHolds'
    BY <1>1, <2>1 DEF ServerTyped, LoopState, MainState, LoopHolds
  <2>. QED
    BY <2>3, <2>4 DEF ExchangeInv, Typed
<1>4. CASE CloseListener
  <2>1. /\ UNCHANGED <<Unthreaded, wire, peer, client, reply, maxWorkers, permits, lost>>
        /\ UNCHANGED <<event, active, cut, loop>> /\ main' = "closing"
        /\ loop.pc = "stopped"
        /\ handler' = [r \in Request |-> IF At(r, "queued")
                                         THEN [handler[r] EXCEPT !.pc = "over"]
                                         ELSE handler[r]]
    BY <1>4 DEF CloseListener, MainStep
  <2>2. ASSUME NEW s \in Request
        PROVE  [handler[s] EXCEPT !.pc = "over"] \in Thread
    BY <1>1 DEF Thread, Pc
  <2>3. /\ handler' \in [Request -> Thread]
        /\ \A s \in Request : handler'[s] = handler[s] \/ Goes(s, "queued", "over")
    BY <1>1, <2>1, <2>2 DEF At, Goes
  <2>4. /\ ServiceTyped' /\ ServiceInv' /\ ClientTyped'
        /\ \A s \in Request : Served(s)' /\ Concluded(s)'
        /\ PermitsAccounted'
    BY <1>2, <2>1, <2>3
  <2>5. ServerTyped' /\ LoopHolds'
    BY <1>1, <2>1 DEF ServerTyped, MainState, LoopHolds
  <2>. QED
    BY <2>4, <2>5 DEF ExchangeInv, Typed
<1>5. CASE SetEvent \/ AskLoop \/ CloseSockets \/ JoinThreads
  <2>1. /\ UNCHANGED <<Unthreaded, wire, peer, client, reply, maxWorkers, permits, lost>>
        /\ UNCHANGED <<handler, loop, active>>
        /\ main' \in MainState /\ event' \in BOOLEAN /\ cut' \subseteq Request
    BY <1>1, <1>5
       DEF SetEvent, AskLoop, CloseSockets, JoinThreads, MainStep, MainState, ServerTyped
  <2>2. /\ ServiceTyped' /\ ServiceInv' /\ ClientTyped'
        /\ \A s \in Request : Served(s)' /\ Concluded(s)'
        /\ PermitsAccounted'
    BY <1>1, <1>2, <2>1
  <2>3. ServerTyped' /\ LoopHolds'
    BY <1>1, <2>1 DEF ServerTyped, LoopHolds, At
  <2>. QED
    BY <2>2, <2>3 DEF ExchangeInv, Typed
<1>. QED
  BY <1>3, <1>4, <1>5 DEF CloseStep

-----------------------------------------------------------------------------
(* The steps of a client *)

(* What the exchange leads to is stored for its request; the connection is   *)
(* closed, if it was opened.                                                 *)
LEMMA ResultKeeps ==
    ASSUME ExchangeInv, NEW r \in Request, NEW evidence \in Evidence, NEW header \in Header,
           Result(r, evidence, header), UNCHANGED <<ServerSide, handler>>,
           \/ UNCHANGED wire
           \/ wire[r] \in {"partial", "complete"} /\ wire' = Closed(r),
           evidence = "transport_not_sent" => wire'[r] = "none",
           peer = "simulator" /\ evidence \notin {"none", "uncertain", "transport_not_sent"} =>
               reply[r].status # 0 /\ evidence = Classify(r, Written(r))
    PROVE  ExchangeInv'
<1>1. /\ ServiceTyped /\ ServiceInv /\ ServerTyped /\ ClientTyped
      /\ LoopHolds /\ PermitsAccounted
      /\ \A s \in Request : Served(s) /\ Concluded(s)
  BY DEF ExchangeInv, Typed
<1>2. /\ UNCHANGED <<lockTable, holder, ordinals, records, maxWorkers, permits, lost, loop>>
      /\ UNCHANGED <<main, event, active, cut, reply, call, plan, peer, handler>>
  BY DEF ServerSide
<1>3. ServiceTyped'
  BY <1>1, <1>2 DEF ServiceTyped
<1>4. ServiceInv'
  <2>1. Quiet
    BY <1>1, <1>2 DEF Quiet, ServiceTyped
  <2>. QED
    BY <1>1, <2>1, QuietKeepsService
<1>5. /\ wire' \in [Request -> Wire]
      /\ \A s \in Request : wire[s] # "none" <=> wire'[s] # "none"
      /\ \A s \in Request : s # r => wire'[s] = wire[s]
  BY <1>1 DEF Closed, ServerTyped, Wire
<1>6. ServerTyped' /\ LoopHolds'
  BY <1>1, <1>2, <1>5 DEF ServerTyped, LoopHolds, At
<1>7. PermitsAccounted'
  BY <1>1, <1>2, SameRunning DEF Running
<1> DEFINE c == [Nothing EXCEPT !.evidence = evidence, !.header = header]
<1>8. /\ c \in ClientRecord
      /\ c.evidence = evidence /\ c.settled = "none"
  BY DEF Nothing, ClientRecord
<1> HIDE DEF c
<1>9. client' = [client EXCEPT ![r] = c]
  BY DEF Result, c
<1>10. ClientTyped'
  BY <1>1, <1>2, <1>8, <1>9 DEF ClientTyped
<1>11. ASSUME NEW s \in Request
       PROVE  Served(s)' /\ Concluded(s)'
  <2>1. Served(s)'
    BY <1>1, <1>2, <1>5 DEF Served, Made
  <2>2. CASE s = r
    <3>1. client'[r] = c
      BY <1>1, <1>9 DEF ClientTyped
    <3>2. Classify(r, Written(r))' = Classify(r, Written(r))
      <4>1. Written(r)' = Written(r)
        BY <1>2 DEF Written, IsPost
      <4>. QED
        BY <1>2, <4>1 DEF Classify, IsPost
    <3>. QED
      BY <1>2, <1>8, <2>1, <2>2, <3>1, <3>2 DEF Concluded
  <2>3. CASE s # r
    <3>1. client'[s] = client[s]
      BY <1>1, <1>9, <2>3 DEF ClientTyped
    <3>. QED
      BY <1>1, <1>2, <1>5, <2>1, <2>3, <3>1, ConclusionStays
  <2>. QED
    BY <2>2, <2>3
<1>. QED
  BY <1>3, <1>4, <1>6, <1>7, <1>10, <1>11 DEF ExchangeInv, Typed

(* The connection and the request change the wire, and who is in the backlog. *)
LEMMA WireKeeps ==
    ASSUME ExchangeInv, NEW r \in Request, Connect(r) \/ Send(r)
    PROVE  ExchangeInv'
<1>1. /\ ServiceTyped /\ ServiceInv /\ ServerTyped /\ ClientTyped
      /\ LoopHolds /\ PermitsAccounted
      /\ \A s \in Request : Served(s) /\ Concluded(s)
  BY DEF ExchangeInv, Typed
<1>2. /\ UNCHANGED <<lockTable, holder, ordinals, records, maxWorkers, permits, lost, loop>>
      /\ UNCHANGED <<main, event, active, cut, reply, call, plan, peer, client>>
      /\ Made(r) \/ handler' = handler
      /\ client[r].evidence = "none"
      /\ wire[r] = "none" \/ handler' = handler
      /\ \E w \in {"partial", "complete"} : wire' = [wire EXCEPT ![r] = w]
  BY DEF Connect, Send, ServerSide, Talking
<1>3. handler' = handler \/ Move(r, [handler[r] EXCEPT !.pc = "queued"])
  BY DEF Connect, Send
<1>4. /\ wire' \in [Request -> Wire] /\ wire'[r] # "none"
      /\ \A s \in Request : s # r => wire'[s] = wire[s]
  BY <1>1, <1>2 DEF ServerTyped, Wire
<1>5. /\ handler' \in [Request -> Thread]
      /\ \A s \in Request : s # r => handler'[s] = handler[s]
      /\ handler'[r] = handler[r] \/ Goes(r, "none", "queued")
  <2>1. CASE handler' = handler
    BY <1>1, <2>1 DEF ServiceTyped
  <2>2. CASE handler' # handler
    <3>1. handler[r].pc = "none"
      BY <1>1, <1>2, <2>2 DEF Served
    <3>. QED
      BY <1>1, <1>3, <2>2, <3>1, MoveGoes DEF Goes, Pc
  <2>. QED
    BY <2>1, <2>2
<1>6. ServiceTyped'
  BY <1>1, <1>2, <1>5 DEF ServiceTyped
<1>7. ServiceInv'
  <2>1. Quiet
    BY <1>1, <1>2, <1>5, OnwardIsQuiet DEF Unthreaded
  <2>. QED
    BY <1>1, <2>1, QuietKeepsService
<1>8. ServerTyped' /\ ClientTyped'
  BY <1>1, <1>2, <1>4 DEF ServerTyped, ClientTyped
<1>9. ASSUME NEW s \in Request
      PROVE  \/ handler'[s].pc = handler[s].pc
             \/ handler[s].pc = "none" /\ handler'[s].pc = "queued"
  <2>1. handler[s] \in Thread
    BY <1>1 DEF ServiceTyped
  <2>. QED
    BY <1>5, <2>1 DEF Goes, Thread
<1>10. LoopHolds' /\ PermitsAccounted'
  <2>1. LoopHolds'
    BY <1>1, <1>2, <1>9 DEF LoopHolds, At
  <2>2. \A s \in Request : Running(s)' <=> Running(s)
    BY <1>9 DEF Running
  <2>. QED
    BY <1>1, <1>2, <2>1, <2>2, SameRunning
<1>11. ASSUME NEW s \in Request
       PROVE  Served(s)' /\ Concluded(s)'
  <2>1. CASE s = r
    <3>1. Served(r)'
      BY <1>1, <1>2, <1>4, <1>5 DEF Served, Made, Goes
    <3>2. Concluded(r)'
      BY <1>1, <1>2 DEF Concluded
    <3>. QED
      BY <2>1, <3>1, <3>2
  <2>2. CASE s # r
    <3>1. Served(s)'
      BY <1>1, <1>2, <1>4, <1>5, <2>2 DEF Served, Made
    <3>. QED
      BY <1>1, <1>2, <1>4, <2>2, <3>1, ConclusionStays
  <2>. QED
    BY <2>1, <2>2
<1>. QED
  BY <1>6, <1>7, <1>8, <1>10, <1>11 DEF ExchangeInv, Typed

(* A 429 schedules the next request with a delay that keeps what the server  *)
(* asks for, or its header cannot be parsed.                                 *)
LEMMA SettleKeeps ==
    ASSUME ExchangeInv, NEW r \in Request, Settle(r)
    PROVE  ExchangeInv'
<1>1. /\ ServiceTyped /\ ServiceInv /\ ServerTyped /\ ClientTyped
      /\ LoopHolds /\ PermitsAccounted
      /\ \A s \in Request : Served(s) /\ Concluded(s)
      /\ client[r] \in ClientRecord
  BY DEF ExchangeInv, Typed, ClientTyped
<1>2. /\ UNCHANGED <<lockTable, holder, ordinals, records, maxWorkers, permits, lost, loop>>
      /\ UNCHANGED <<main, event, active, cut, reply, call, plan, peer, handler, wire>>
      /\ peer = "stranger" /\ client[r].evidence = "rate_limited"
  BY DEF Settle, ServerSide
<1>3. PICK c \in ClientRecord :
         /\ client' = [client EXCEPT ![r] = c]
         /\ c.evidence = "rate_limited"
         /\ c.settled = "retry" => Keeps(c.ordinal, c.header, c.now, c.delay)
  <2>1. PICK n \in Ordinals, now \in Instants :
           \/ \E d \in Delays(n, client[r].header, now) :
                 client' = [client EXCEPT ![r] = [client[r] EXCEPT
                     !.ordinal = n, !.now = now, !.delay = d, !.settled = "retry"]]
           \/ client' = [client EXCEPT ![r] = [client[r] EXCEPT !.settled = "raised"]]
    BY DEF Settle
  <2>2. n \in Nat /\ now \in Nat /\ Cap(n) \in Int /\ client[r].header \in Header
    BY <1>1, ExchangeAssumption, CapAssumption DEF ClientRecord
  <2>3. ASSUME NEW d \in Delays(n, client[r].header, now),
               client' = [client EXCEPT ![r] = [client[r] EXCEPT
                   !.ordinal = n, !.now = now, !.delay = d, !.settled = "retry"]]
        PROVE  \E c \in ClientRecord :
                  /\ client' = [client EXCEPT ![r] = c]
                  /\ c.evidence = "rate_limited"
                  /\ c.settled = "retry" => Keeps(c.ordinal, c.header, c.now, c.delay)
    <3> DEFINE c == [client[r] EXCEPT !.ordinal = n, !.now = now, !.delay = d,
                                      !.settled = "retry"]
    <3>1. d \in Nat /\ Keeps(n, client[r].header, now, d)
      BY <2>2, DelaysKeepServer
    <3>2. c \in ClientRecord
      BY <1>1, <2>2, <3>1 DEF ClientRecord
    <3>3. /\ c.evidence = "rate_limited" /\ c.ordinal = n /\ c.header = client[r].header
          /\ c.now = now /\ c.delay = d
      BY <1>1, <1>2 DEF ClientRecord
    <3>4. Keeps(c.ordinal, c.header, c.now, c.delay)
      BY <3>1, <3>3
    <3> HIDE DEF c
    <3>5. client' = [client EXCEPT ![r] = c]
      BY <2>3 DEF c
    <3>. QED
      BY <3>2, <3>3, <3>4, <3>5
  <2>4. ASSUME client' = [client EXCEPT ![r] = [client[r] EXCEPT !.settled = "raised"]]
        PROVE  \E c \in ClientRecord :
                  /\ client' = [client EXCEPT ![r] = c]
                  /\ c.evidence = "rate_limited"
                  /\ c.settled = "retry" => Keeps(c.ordinal, c.header, c.now, c.delay)
    <3> DEFINE c == [client[r] EXCEPT !.settled = "raised"]
    <3>1. c \in ClientRecord /\ c.evidence = "rate_limited" /\ c.settled = "raised"
      BY <1>1, <1>2 DEF ClientRecord
    <3> HIDE DEF c
    <3>2. client' = [client EXCEPT ![r] = c]
      BY <2>4 DEF c
    <3>. QED
      BY <3>1, <3>2
  <2>. QED
    BY <2>1, <2>3, <2>4
<1>4. /\ ServiceTyped' /\ ServiceInv' /\ ServerTyped' /\ LoopHolds' /\ PermitsAccounted'
  <2>1. ServiceTyped' /\ ServerTyped' /\ LoopHolds'
    BY <1>1, <1>2 DEF ServiceTyped, ServerTyped, LoopHolds, At
  <2>2. Quiet
    BY <1>1, <1>2 DEF Quiet, ServiceTyped
  <2>3. PermitsAccounted'
    BY <1>1, <1>2, SameRunning DEF Running
  <2>. QED
    BY <1>1, <2>1, <2>2, <2>3, QuietKeepsService
<1>5. ClientTyped'
  BY <1>1, <1>2, <1>3 DEF ClientTyped
<1>6. ASSUME NEW s \in Request
      PROVE  Served(s)' /\ Concluded(s)'
  <2>1. Served(s)'
    BY <1>1, <1>2 DEF Served, Made
  <2>2. CASE s = r
    <3>1. client'[r] = c
      BY <1>1, <1>3 DEF ClientTyped
    <3>2. Concluded(r)'
      BY <1>2, <1>3, <3>1 DEF Concluded
    <3>. QED
      BY <2>1, <2>2, <3>2
  <2>3. CASE s # r
    <3>1. client'[s] = client[s]
      BY <1>1, <1>3, <2>3 DEF ClientTyped
    <3>. QED
      BY <1>1, <1>2, <2>1, <3>1, ConclusionStays
  <2>. QED
    BY <2>2, <2>3
<1>. QED
  BY <1>4, <1>5, <1>6 DEF ExchangeInv, Typed

(* Every step of a client keeps the invariant.                              *)
LEMMA ClientKeeps ==
    ASSUME ExchangeInv, NEW r \in Request, ExchangeStep(r)
    PROVE  ExchangeInv'
<1>1. Absent \in Header
  BY DEF Absent, Header
<1>2. CASE Connect(r) \/ Send(r)
  BY <1>2, WireKeeps
<1>3. CASE ConnectFails(r)
  <2>1. /\ UNCHANGED <<ServerSide, handler>> /\ UNCHANGED wire /\ wire[r] = "none"
        /\ \/ Result(r, "transport_not_sent", Absent)
           \/ Result(r, "uncertain", Absent)
    BY <1>3 DEF ConnectFails
  <2>2. wire'[r] = "none"
    BY <2>1
  <2>3. CASE Result(r, "transport_not_sent", Absent)
    BY <1>1, <2>1, <2>2, <2>3, ResultKeeps DEF Evidence
  <2>4. CASE Result(r, "uncertain", Absent)
    BY <1>1, <2>1, <2>4, ResultKeeps DEF Evidence
  <2>. QED
    BY <2>1, <2>3, <2>4
<1>4. CASE GiveUp(r)
  <2>1. /\ Result(r, "uncertain", Absent) /\ UNCHANGED <<ServerSide, handler>>
        /\ wire[r] \in {"partial", "complete"} /\ wire' = Closed(r)
    BY <1>4 DEF GiveUp
  <2>. QED
    BY <1>1, <2>1, ResultKeeps DEF Evidence
<1>5. ASSUME NEW x, Receive(r, x), x.header \in Header, wire[r] = "complete",
             peer = "simulator" => reply[r].status # 0 /\ x = Written(r)
      PROVE  ExchangeInv'
  <2>1. /\ Result(r, Classify(r, x), x.header) /\ UNCHANGED <<ServerSide, handler>>
        /\ wire' = Closed(r)
    BY <1>5 DEF Receive
  <2>2. Classify(r, x) \in Evidence \ {"none", "transport_not_sent"}
    BY DEF Classify, ClassifyPost, ClassifyGet, Evidence
  <2> DEFINE evidence == Classify(r, x)
  <2>3. peer = "simulator" => reply[r].status # 0 /\ evidence = Classify(r, Written(r))
    BY <1>5
  <2> HIDE DEF evidence
  <2>. QED
    BY <1>5, <2>1, <2>2, <2>3, ResultKeeps DEF evidence
<1>6. CASE ReceiveAnswer(r)
  <2>1. Written(r).header \in Header
    BY DEF Written, Header, Absent
  <2>. QED
    BY <1>5, <1>6, <2>1 DEF ReceiveAnswer
<1>7. CASE StrangeAnswer(r)
  <2>1. PICK x : Receive(r, x) /\ x.header \in Header
    BY <1>1, <1>7, ExchangeAssumption DEF StrangeAnswer
  <2>. QED
    BY <1>5, <1>7, <2>1 DEF StrangeAnswer
<1>8. CASE Settle(r)
  BY <1>8, SettleKeeps
<1>. QED
  BY <1>2, <1>3, <1>4, <1>6, <1>7, <1>8 DEF ExchangeStep

-----------------------------------------------------------------------------
(* The invariant holds, and what follows from it *)

(* The invariant holds initially.                                           *)
LEMMA InitHolds == ExchangeInit => ExchangeInv
<1> SUFFICES ASSUME ExchangeInit PROVE ExchangeInv
  OBVIOUS
<1>1. Typed
  BY InitTyped
<1>2. /\ \A r \in Request : handler[r] = NoThread
      /\ records = [k \in Key |-> NoRecord]
      /\ loop = Idle /\ permits = maxWorkers /\ lost = 0
      /\ \A r \in Request : reply[r] = NoAnswer /\ client[r] = Nothing
  BY DEF ExchangeInit, SimulatorInit, ServiceInit
<1>3. ServiceInv
  <2>1. ASSUME NEW r \in Request
        PROVE  Locked(r) /\ Counted(r) /\ FirstComes(r) /\ Informed(r)
    BY <1>2 DEF NoThread, NoAnswer, Locked, Counted, FirstComes, Informed, AnswerTrue,
                Busy, Early, Inner
  <2>2. OrdinalsDiffer
    BY <1>2 DEF OrdinalsDiffer, NoThread
  <2>3. RecordsCounted
    BY <1>2 DEF RecordsCounted
  <2>. QED
    BY <2>1, <2>2, <2>3 DEF ServiceInv
<1>4. LoopHolds
  BY <1>2 DEF LoopHolds, Idle
<1>5. PermitsAccounted
  <2>1. RunningSet = {}
    BY <1>2 DEF RunningSet, Running, NoThread
  <2>2. Cardinality(RunningSet) = 0
    BY <2>1, FS_EmptySet
  <2>3. permits + Cardinality(RunningSet) + lost = maxWorkers
    BY <1>1, <1>2, <2>2 DEF Typed, ServerTyped
  <2>. QED
    BY <2>3 DEF PermitsAccounted, RunningSet
<1>6. ASSUME NEW r \in Request
      PROVE  Served(r) /\ Concluded(r)
  BY <1>2 DEF Served, Concluded, NoThread, NoAnswer, Nothing
<1>. QED
  BY <1>1, <1>3, <1>4, <1>5, <1>6 DEF ExchangeInv

(* It holds after a stuttering step.                                        *)
LEMMA StutterKeeps ==
    ASSUME ExchangeInv, UNCHANGED exchangeVars
    PROVE  ExchangeInv'
<1>1. /\ UNCHANGED <<call, plan, lockTable, holder, ordinals, records, handler>>
      /\ UNCHANGED <<maxWorkers, permits, lost, loop, main, event, active, cut, wire, reply>>
      /\ UNCHANGED <<peer, client>>
  BY DEF exchangeVars, simulatorVars, serviceVars, serverVars
<1>2. /\ ServiceTyped /\ ServiceInv /\ ServerTyped /\ ClientTyped
      /\ LoopHolds /\ PermitsAccounted
      /\ \A s \in Request : Served(s) /\ Concluded(s)
  BY DEF ExchangeInv, Typed
<1>3. ServiceTyped' /\ ServerTyped' /\ ClientTyped' /\ LoopHolds'
  BY <1>1, <1>2 DEF ServiceTyped, ServerTyped, ClientTyped, LoopHolds, At
<1>4. PermitsAccounted'
  BY <1>1, <1>2, SameRunning DEF Running
<1>5. Quiet
  BY <1>1, <1>2 DEF Quiet, ServiceTyped
<1>6. ASSUME NEW s \in Request
      PROVE  Served(s)' /\ Concluded(s)'
  <2>1. Served(s)'
    BY <1>1, <1>2 DEF Served, Made
  <2>. QED
    BY <1>1, <1>2, <2>1, ConclusionStays
<1>. QED
  BY <1>2, <1>3, <1>4, <1>5, <1>6, QuietKeepsService DEF ExchangeInv, Typed

(* It holds after every step.                                               *)
LEMMA NextKeeps == ExchangeInv /\ [ExchangeNext]_exchangeVars => ExchangeInv'
<1> SUFFICES ASSUME ExchangeInv, [ExchangeNext]_exchangeVars PROVE ExchangeInv'
  OBVIOUS
<1>1. ASSUME NEW r \in Request, ExchangeStep(r)
      PROVE  ExchangeInv'
  BY <1>1, ClientKeeps
<1>2. CASE SimulatorStep /\ UNCHANGED <<peer, client>>
  BY <1>2, LoopKeeps, ThreadKeeps, EndKeeps DEF SimulatorStep
<1>3. CASE UNCHANGED exchangeVars
  BY <1>3, StutterKeeps
<1>. QED
  BY <1>1, <1>2, <1>3 DEF ExchangeNext

(* So it holds in every reachable state of the exchange.                    *)
LEMMA ExchangeInvHolds == ExchangeSpec => []ExchangeInv
BY InitHolds, NextKeeps, PTL DEF ExchangeSpec

(* Every variable of the exchange, of the server and of the handlers keeps   *)
(* its type; so the permits of the accept loop stay between 0 and            *)
(* max_workers.                                                              *)
THEOREM ExchangeTyped == ExchangeSpec => []ExchangeTypeOK
<1>1. ExchangeInv => ExchangeTypeOK
  <2> SUFFICES ASSUME ExchangeInv PROVE ExchangeTypeOK
    OBVIOUS
  <2>1. Typed
    BY DEF ExchangeInv
  <2>2. permits \in 0 .. maxWorkers
    <3>1. permits + Cardinality(RunningSet) + lost = maxWorkers
      BY DEF ExchangeInv, PermitsAccounted, RunningSet
    <3>. QED
      BY <2>1, <3>1, RunningFinite DEF Typed, ServerTyped
  <2>. QED
    BY <2>1, <2>2
       DEF Typed, ServiceTyped, ServerTyped, ClientTyped, LoopState, MainState, ExchangeTypeOK
<1>. QED
  BY <1>1, ExchangeInvHolds, PTL

(* The handlers of one key exclude each other from the ordinal to the answer *)
(* and never share an ordinal: KeyCoordinator and handle_submission and      *)
(* handle_reconciliation, for any number of requests and keys.               *)
THEOREM KeysSerialized == ExchangeSpec => []SameKeySerialized
<1>1. ExchangeInv => SameKeySerialized
  <2> SUFFICES ASSUME ExchangeInv, NEW r \in Request, NEW s \in Request,
                      r # s, call[r].key = call[s].key
               PROVE  /\ ~(Busy(r) /\ Busy(s))
                      /\ call[r].op = call[s].op /\ handler[r].ordinal # 0 =>
                             handler[r].ordinal # handler[s].ordinal
    BY DEF SameKeySerialized
  <2>1. ServiceInv
    BY DEF ExchangeInv
  <2>2. ~(Busy(r) /\ Busy(s))
    BY <2>1, BusyAlone
  <2>. QED
    BY <2>1, <2>2 DEF ServiceInv, OrdinalsDiffer
<1>. QED
  BY <1>1, ExchangeInvHolds, PTL

(* A permit is held by a running thread or lost with one that did not start: *)
(* process_request and process_request_thread, for any max_workers.          *)
THEOREM PermitsNeverLeak == ExchangeSpec => []PermitsAccounted
<1>1. ExchangeInv => PermitsAccounted
  BY DEF ExchangeInv
<1>. QED
  BY <1>1, ExchangeInvHolds, PTL

(* What the client concludes of an exchange is so at the service, for every  *)
(* number of requests, keys and payloads and every scenario plan:            *)
(* client.py and reconcile.py against service.py.                            *)
THEOREM EvidenceHolds == ExchangeSpec => []EvidenceIsTrue
<1>1. ExchangeInv => EvidenceIsTrue
  <2> SUFFICES ASSUME ExchangeInv, peer = "simulator", NEW r \in Request
               PROVE  LET bound == records[MyKey(r)] IN
                      CASE client[r].evidence \in {"processed", "matched"} -> bound = call[r].payload
                        [] client[r].evidence \in {"idempotency_conflict", "conflict"} ->
                              bound \notin {NoRecord, call[r].payload}
                        [] client[r].evidence = "validation_rejected" -> handler[r].ordinal = 0
                        [] client[r].evidence = "rate_limited" -> handler[r].action = "return_429"
                        [] client[r].evidence = "transport_not_sent" ->
                              ~Running(r) /\ handler[r].ordinal = 0
                        [] OTHER -> TRUE
    BY DEF EvidenceIsTrue
  <2> DEFINE e == client[r].evidence
             a == reply[r]
             x == Written(r)
  <2>1. /\ Counted(r) /\ Informed(r) /\ Served(r) /\ Concluded(r)
        /\ call[r].payload \in Payload
    BY DEF ExchangeInv, ServiceInv, Typed, ServiceTyped, Call
  <2>2. CASE e = "transport_not_sent"
    <3>1. handler[r].pc = "none"
      BY <2>1, <2>2 DEF Served, Concluded
    <3>2. ~Running(r) /\ handler[r].ordinal = 0
      BY <2>1, <3>1 DEF Running, Counted, Early
    <3>. QED
      BY <2>2, <3>2
  <2>3. CASE e \in {"none", "uncertain"}
    BY <2>3
  <2>4. CASE e \notin {"none", "uncertain", "transport_not_sent"}
    <3>1. a.status # 0 /\ e = Classify(r, x)
      BY <2>1, <2>4 DEF Concluded
    <3>2. AnswerTrue(r, a)
      BY <2>1, <3>1 DEF Served, Informed
    <3>3. x.status = a.status /\ (a.status # 409 => x.payload = a.payload)
      BY DEF Written
    <3>4. CASE IsPost(r)
      <4>1. e = ClassifyPost(x, call[r].payload)
        BY <3>1, <3>4 DEF Classify
      <4> HIDE DEF x, e
      <4>2. /\ e = "processed" => x.status \in {200, 201} /\ x.payload = call[r].payload
            /\ e = "validation_rejected" => x.status = 400
            /\ e = "idempotency_conflict" => x.status = 409
            /\ e = "rate_limited" => x.status = 429
            /\ e \notin {"matched", "conflict", "not_found"}
        BY <4>1 DEF ClassifyPost
      <4>. QED
        BY <2>4, <3>2, <3>3, <3>4, <4>2 DEF AnswerTrue, e
    <3>5. CASE ~IsPost(r)
      <4>1. e = ClassifyGet(x, call[r].payload)
        BY <3>1, <3>5 DEF Classify
      <4> HIDE DEF x, e
      <4>2. /\ e = "matched" => x.status = 200 /\ x.payload = call[r].payload
            /\ e = "conflict" => x.status = 200 /\ x.payload # call[r].payload
            /\ e = "rate_limited" => x.status = 429
            /\ e \notin {"processed", "validation_rejected", "idempotency_conflict"}
        BY <4>1 DEF ClassifyGet
      <4>. QED
        BY <2>4, <3>2, <3>3, <3>5, <4>2 DEF AnswerTrue, e
    <3>. QED
      BY <3>4, <3>5
  <2>. QED
    BY <2>2, <2>3, <2>4
<1>. QED
  BY <1>1, ExchangeInvHolds, PTL

(* A delay scheduled after a 429 keeps what the server asks for, whatever    *)
(* the peer answers: effective_delay_ms of parse_retry_after.                *)
THEOREM ServerIsKept == ExchangeSpec => []DelayKeepsServer
<1>1. ExchangeInv => DelayKeepsServer
  BY DEF ExchangeInv, Concluded, DelayKeepsServer
<1>. QED
  BY <1>1, ExchangeInvHolds, PTL

-----------------------------------------------------------------------------
(* The handlers implement RemoteService *)

Outcomes == [r \in Request |-> Verdict(r)]

(* A step that decides nothing leaves every verdict alone. *)
LEMMA SameVerdict ==
    ASSUME NEW s \in Request, call' = call,
           handler'[s].answer = handler[s].answer,
           handler'[s].answer.status = 400 \/ (Decided(s)' <=> Decided(s))
    PROVE  Verdict(s)' = Verdict(s)
<1>1. IsPost(s)' = IsPost(s) /\ handler'[s].answer.status = handler[s].answer.status
  BY DEF IsPost
<1>2. CASE handler[s].answer.status = 400
  BY <1>1, <1>2 DEF Verdict
<1>3. CASE handler[s].answer.status # 400 /\ ~Decided(s)
  BY <1>1, <1>3 DEF Verdict
<1>4. CASE handler[s].answer.status # 400 /\ Decided(s)
  <2>1. Decided(s)'
    BY <1>1, <1>4
  <2>. QED
    BY <1>1, <1>4, <2>1 DEF Verdict
<1>. QED
  BY <1>2, <1>3, <1>4

(* Steps outside service.py decide nothing.                                 *)
LEMMA QuietStutters ==
    ASSUME ServiceTyped, Quiet
    PROVE  UNCHANGED <<call, records, Outcomes>>
<1>1. ASSUME NEW s \in Request
      PROVE  Verdict(s)' = Verdict(s)
  <2>1. handler'[s].answer = handler[s].answer /\ (Decided(s)' <=> Decided(s))
    BY DEF Quiet, OutsideMove, Decided, Early, Late
  <2>. QED
    BY <2>1, SameVerdict DEF Quiet
<1>. QED
  BY <1>1 DEF Quiet, Outcomes

(* A step that decides about one request changes its verdict only. *)
LEMMA OneVerdict ==
    ASSUME NEW r \in Request, call' = call,
           \A s \in Request : s # r => handler'[s] = handler[s]
    PROVE  Outcomes' = [Outcomes EXCEPT ![r] = Verdict(r)']
<1>1. ASSUME NEW s \in Request, s # r
      PROVE  Verdict(s)' = Verdict(s)
  BY <1>1, SameVerdict DEF Decided
<1>2. Outcomes' = [s \in Request |-> Verdict(s)']
  BY DEF Outcomes
<1>3. \A s \in Request : Verdict(s)' = IF s = r THEN Verdict(r)' ELSE Verdict(s)
  BY <1>1
<1>. QED
  BY <1>2, <1>3 DEF Outcomes

(* A decision is the instant at which the request is handled.               *)
LEMMA DecideImplements ==
    ASSUME ServiceTyped, ServiceInv, NEW r \in Request, Decide(r), UNCHANGED <<call, plan>>
    PROVE  \/ Remote!Conflict(r) \/ Remote!Take(r) \/ Remote!RateLimit(r)
           \/ Remote!Find(r) \/ Remote!Fail(r)
<1> DEFINE h == handler[r]
           out == Verdict(r)'
<1>1. /\ h \in Thread /\ MyKey(r) \in Key /\ call[r].payload \in Payload
      /\ h.pc = "decide" /\ Busy(r)
  BY DEF ServiceTyped, MyKey, Call, Decide, At, Busy
<1>2. /\ h.seen = records[MyKey(r)] /\ h.answer = NoAnswer /\ h.ordinal # 0
      /\ call[r].op \in Operation /\ call[r].valid
      /\ h.action = "return_429" => IsPost(r) /\ records[MyKey(r)] = NoRecord
  BY <1>1 DEF ServiceInv, Informed, Counted, FirstComes, Locked, Inner
<1>3. Verdict(r) = "pending"
  BY <1>1, <1>2 DEF Verdict, Decided, NoAnswer
<1>4. ASSUME NEW status \in {0, 200, 201, 404, 409, 429, 500}, NEW payload,
             Return(r, status, payload)
      PROVE  /\ \A s \in Request : s # r => handler'[s] = handler[s]
             /\ Decided(r)' /\ handler'[r].answer.status = status
  BY <1>1, <1>2, <1>4 DEF Return, Move, ServiceTyped, Thread, Decided
<1>5. ASSUME StartWait(r)
      PROVE  /\ \A s \in Request : s # r => handler'[s] = handler[s]
             /\ Decided(r)' /\ handler'[r].answer.status = 0
  BY <1>1, <1>2, <1>5 DEF StartWait, Move, ServiceTyped, Thread, Decided, NoAnswer
<1>6. ASSUME NEW status \in {0, 200, 201, 404, 409, 429, 500},
             Decided(r)', handler'[r].answer.status = status
      PROVE  out = CASE status \in {0, 500} -> "uncertain"
                     [] status = 409 -> "conflict"
                     [] status = 429 -> "rate_limited"
                     [] status = 404 -> "not_found"
                     [] status \in {200, 201} -> IF IsPost(r) THEN "processed" ELSE "found"
  BY <1>6 DEF Verdict, IsPost
<1>7. \A s \in Request : s # r => handler'[s] = handler[s]
  BY <1>4, <1>5 DEF Decide, Refuse, Accept, Report
<1>8. Outcomes' = [Outcomes EXCEPT ![r] = out] /\ Outcomes[r] = "pending"
  BY <1>3, <1>7, OneVerdict DEF Outcomes
<1> HIDE DEF out
<1>9. CASE Refuse(r)
  <2>1. UNCHANGED records
    BY <1>9 DEF Refuse
  <2>2. CASE Conflicting(r) /\ Return(r, 409, h.seen)
    <3>1. out = "conflict"
      BY <1>4, <1>6, <2>2
    <3>. QED
      BY <1>2, <1>8, <2>1, <2>2, <3>1
         DEF Remote!Conflict, Remote!Pending, Remote!Asks, Remote!Say, Remote!Binding,
             Outcomes, Conflicting, IsPost, MyKey
  <2>3. CASE Return(r, 500, NoRecord) \/ StartWait(r)
    <3>1. out = "uncertain"
      BY <1>4, <1>5, <1>6, <2>3
    <3>. QED
      BY <1>2, <1>8, <2>1, <3>1
         DEF Remote!Fail, Remote!Pending, Remote!Say, Outcomes
  <2>4. CASE h.action = "return_429" /\ Return(r, 429, NoRecord)
    <3>1. out = "rate_limited"
      BY <1>4, <1>6, <2>4
    <3>. QED
      BY <1>2, <1>8, <2>1, <2>4, <3>1
         DEF Remote!RateLimit, Remote!Pending, Remote!Asks, Remote!Say, Remote!Binding,
             Outcomes, IsPost, MyKey
  <2>. QED
    BY <1>9, <2>2, <2>3, <2>4 DEF Refuse
<1>10. CASE Accept(r)
  <2>1. /\ call[r].op = "submission"
        /\ records[MyKey(r)] \in {NoRecord, call[r].payload}
        /\ records' = [records EXCEPT ![MyKey(r)] = call[r].payload]
    BY <1>1, <1>2, <1>10 DEF Accept, Process, Conflicting, IsPost, ServiceTyped
  <2>2. out \in {"uncertain", "processed"}
    <3>1. CASE Return(r, 0, NoRecord) \/ Return(r, 500, NoRecord) \/ StartWait(r)
      BY <1>4, <1>5, <1>6, <3>1
    <3>2. ASSUME NEW status \in {200, 201}, Return(r, status, call[r].payload)
          PROVE  out = "processed"
      BY <1>4, <1>6, <2>1, <3>2 DEF IsPost
    <3>. QED
      BY <1>10, <3>1, <3>2 DEF Accept
  <2>. QED
    BY <1>2, <1>8, <2>1, <2>2
       DEF Remote!Take, Remote!Pending, Remote!Asks, Remote!Say, Remote!Binding, Outcomes, MyKey
<1>11. CASE Report(r)
  <2>1. UNCHANGED records /\ call[r].op = "reconciliation"
    BY <1>2, <1>11 DEF Report, IsPost, Operation
  <2>2. out = IF records[MyKey(r)] = NoRecord THEN "not_found" ELSE "found"
    <3>1. CASE h.seen = NoRecord
      <4>1. Return(r, 404, NoRecord)
        BY <1>11, <3>1 DEF Report
      <4>. QED
        BY <1>2, <1>4, <1>6, <3>1, <4>1
    <3>2. CASE h.seen # NoRecord
      <4>1. Return(r, 200, h.seen) /\ ~IsPost(r)
        BY <1>11, <3>2 DEF Report
      <4>. QED
        BY <1>2, <1>4, <1>6, <3>2, <4>1
    <3>. QED
      BY <3>1, <3>2
  <2>. QED
    BY <1>2, <1>8, <2>1, <2>2
       DEF Remote!Find, Remote!Pending, Remote!Asks, Remote!Say, Remote!Binding, Outcomes, MyKey
<1>. QED
  BY <1>9, <1>10, <1>11 DEF Decide

(* The other steps of service.py decide nothing.                            *)
LEMMA ServeImplements ==
    ASSUME ServiceTyped, ServiceInv, NEW r \in Request, Serve(r), UNCHANGED <<call, plan>>
    PROVE  [Remote!RemoteNext]_(Remote!remoteVars)
<1>1. handler[r] \in Thread /\ handler[r].pc \in Inner /\ Counted(r)
      /\ \A s \in Request : s # r => handler'[s] = handler[s]
  BY ServeMoves DEF ServiceTyped, ServiceInv
<1>2. ASSUME UNCHANGED records, Verdict(r)' = Verdict(r)
      PROVE  UNCHANGED Remote!remoteVars
  <2>1. Outcomes' = [Outcomes EXCEPT ![r] = Verdict(r)']
    BY <1>1, OneVerdict
  <2>2. Outcomes' = Outcomes
    BY <1>2, <2>1 DEF Outcomes
  <2>. QED
    BY <1>2, <2>2 DEF Remote!remoteVars, Outcomes
<1>3. CASE LockFor(r)
  <2>1. /\ handler'[r].answer = handler[r].answer /\ handler'[r].ordinal = handler[r].ordinal
        /\ handler[r].ordinal = 0 /\ UNCHANGED records
    BY <1>1, <1>3 DEF LockFor, At, Move, ServiceTyped, Thread, Counted
  <2>. QED
    BY <1>2, <2>1, SameVerdict DEF Decided
<1>4. CASE Enter(r)
  <2>1. /\ handler'[r].answer = handler[r].answer /\ handler'[r].pc = "inspect"
        /\ handler[r].ordinal = 0 /\ UNCHANGED records
    BY <1>1, <1>4 DEF Enter, At, Move, ServiceTyped, Thread, Counted
  <2>. QED
    BY <1>2, <2>1, SameVerdict DEF Decided
<1>5. CASE Inspect(r)
  <2>1. /\ handler'[r].answer = handler[r].answer /\ handler'[r].pc = "decide"
        /\ handler[r].pc = "inspect" /\ UNCHANGED records
    BY <1>1, <1>5 DEF Inspect, At, Move, ServiceTyped, Thread
  <2>. QED
    BY <1>2, <2>1, SameVerdict DEF Decided
<1>6. CASE Decide(r)
  BY <1>6, DecideImplements DEF Remote!RemoteNext
<1>7. CASE WaitEnds(r)
  <2>1. /\ UNCHANGED records /\ handler[r].pc = "waiting" /\ handler[r].ordinal # 0
        /\ handler'[r].pc = "deliver" /\ handler'[r].ordinal = handler[r].ordinal
        /\ handler[r].answer.status = 0 /\ handler'[r].answer.status = 0
    BY <1>1, <1>7
       DEF WaitEnds, At, Return, Move, ServiceTyped, Thread, Counted, Busy, Inner, NoAnswer
  <2>2. Verdict(r)' = Verdict(r)
    BY <2>1 DEF Verdict, Decided
  <2>. QED
    BY <1>2, <2>1, <2>2
<1>. QED
  BY <1>3, <1>4, <1>5, <1>6, <1>7 DEF Serve

(* A request that is not valid is rejected when it is read.                 *)
LEMMA ReadImplements ==
    ASSUME ServiceTyped, ServiceInv, NEW r \in Request, ReadRequest(r)
    PROVE  [Remote!RemoteNext]_(Remote!remoteVars)
<1>1. /\ handler[r] \in Thread /\ handler[r].pc = "reading"
      /\ handler[r].ordinal = 0 /\ handler[r].answer = NoAnswer
  BY DEF ServiceTyped, ServiceInv, Counted, Early, ReadRequest, At
<1>2. UNCHANGED <<call, records>>
  BY DEF ReadRequest, Unthreaded
<1>3. Verdict(r) = "pending"
  BY <1>1 DEF Verdict, Decided, NoAnswer
<1>4. \A s \in Request : s # r => handler'[s] = handler[s]
  BY DEF ReadRequest, Move, ServiceTyped
<1>5. Outcomes' = [Outcomes EXCEPT ![r] = Verdict(r)']
  BY <1>2, <1>4, OneVerdict
<1>6. CASE ~call[r].valid
  <2>1. handler'[r].answer.status = 400
    BY <1>1, <1>6 DEF ReadRequest, Rejection, Move, ServiceTyped, Thread, NoAnswer
  <2>2. Verdict(r)' = "rejected"
    BY <2>1 DEF Verdict
  <2>3. Remote!Reject(r)
    BY <1>2, <1>3, <1>5, <1>6, <2>2
       DEF Remote!Reject, Remote!Pending, Remote!Say, Outcomes
  <2>. QED
    BY <1>2, <2>3 DEF Remote!RemoteNext
<1>7. CASE call[r].valid
  <2>1. handler'[r].answer = handler[r].answer /\ handler'[r].ordinal = 0
    BY <1>1, <1>7 DEF ReadRequest, Move, ServiceTyped, Thread
  <2>2. Verdict(r)' = Verdict(r)
    BY <1>1, <1>2, <2>1, SameVerdict DEF Decided
  <2>3. Outcomes' = Outcomes
    BY <1>5, <2>2 DEF Outcomes
  <2>. QED
    BY <1>2, <2>3 DEF Remote!remoteVars, Outcomes
<1>. QED
  BY <1>6, <1>7

(* The steps of server.py and of a client that service.py does not notice.   *)
LEMMA OthersAreQuiet ==
    ASSUME ExchangeInv, ExchangeNext,
           \A r \in Request : ~(InService(r) \/ ReadRequest(r))
    PROVE  Quiet
<1>1. /\ ServiceTyped /\ LoopHolds
      /\ handler \in [Request -> Thread]
      /\ \A s \in Request : Served(s)
  BY DEF ExchangeInv, Typed, ServiceTyped
<1>2. ASSUME UNCHANGED <<Unthreaded, handler>>
      PROVE  Quiet
  BY <1>1, <1>2 DEF Quiet, Unthreaded
<1>3. ASSUME NEW r \in Request, NEW to \in Pc, UNCHANGED Unthreaded,
             Move(r, [handler[r] EXCEPT !.pc = to]),
             Goes(r, handler[r].pc, to) => Onward(r) \/ Goes(r, "none", "queued")
      PROVE  Quiet
  <2>1. /\ handler' \in [Request -> Thread]
        /\ Goes(r, handler[r].pc, to)
        /\ \A s \in Request : s # r => handler'[s] = handler[s]
    BY <1>1, <1>3, MoveGoes DEF Goes
  <2>. QED
    BY <1>1, <1>3, <2>1, OnwardIsQuiet
<1>4. ASSUME NEW r \in Request, ExchangeStep(r)
      PROVE  Quiet
  <2>1. CASE Connect(r)
    <3>1. UNCHANGED Unthreaded
      BY <2>1 DEF Connect, ServerSide, Unthreaded
    <3>2. handler[r].pc = "none"
      BY <1>1, <2>1 DEF Connect, Served
    <3>3. UNCHANGED handler \/ Move(r, [handler[r] EXCEPT !.pc = "queued"])
      BY <2>1 DEF Connect
    <3>. QED
      BY <1>2, <1>3, <3>1, <3>2, <3>3 DEF Pc
  <2>2. CASE ~Connect(r)
    <3>1. UNCHANGED <<ServerSide, handler>>
      <4>1. CASE ConnectFails(r) \/ Send(r) \/ GiveUp(r) \/ Settle(r)
        BY <4>1 DEF ConnectFails, Send, GiveUp, Settle
      <4>2. CASE ReceiveAnswer(r)
        BY <4>2 DEF ReceiveAnswer, Receive
      <4>3. CASE StrangeAnswer(r)
        <5>1. PICK x : Receive(r, x)
          BY <4>3 DEF StrangeAnswer
        <5>. QED
          BY <5>1 DEF Receive
      <4>. QED
        BY <1>4, <2>2, <4>1, <4>2, <4>3 DEF ExchangeStep
    <3>. QED
      BY <1>2, <3>1 DEF ServerSide, Unthreaded
  <2>. QED
    BY <2>1, <2>2
<1>5. CASE LoopStep
  <2>1. CASE StopLoop
    BY <1>2, <2>1 DEF StopLoop, Unthreaded
  <2>2. ASSUME NEW r \in Request, TakeConnection(r)
        PROVE  Quiet
    BY <1>3, <2>2 DEF TakeConnection, Unthreaded, At, Onward, Pc
  <2>3. ASSUME NEW r \in Request, Admit(r)
        PROVE  Quiet
    <3>1. handler[r].pc = "accepted"
      BY <1>1, <2>3 DEF Admit, LoopHolds, At
    <3>. QED
      BY <1>3, <2>3, <3>1 DEF Admit, Unthreaded, Onward, Pc
  <2>4. ASSUME NEW r \in Request, TurnAway(r) \/ StartFails(r)
        PROVE  Quiet
    <3>1. /\ handler[r].pc = "accepted" /\ UNCHANGED Unthreaded
          /\ Move(r, [handler[r] EXCEPT !.pc = "over"])
      BY <1>1, <2>4 DEF TurnAway, StartFails, LoopHolds, At, Unthreaded
    <3>. QED
      BY <1>3, <3>1 DEF Onward, Pc
  <2>. QED
    BY <1>5, <2>1, <2>2, <2>3, <2>4 DEF LoopStep
<1>6. ASSUME NEW r \in Request, Register(r) \/ ReadEnds(r) \/ Deliver(r) \/ Finish(r)
      PROVE  Quiet
  <2>1. CASE Register(r)
    BY <1>3, <2>1 DEF Register, At, Unthreaded, Onward, Pc
  <2>2. CASE ReadEnds(r)
    BY <1>3, <2>2 DEF ReadEnds, At, Unthreaded, Onward, Pc
  <2>3. CASE Deliver(r)
    BY <1>3, <2>3 DEF Deliver, At, Unthreaded, Onward, Pc
  <2>4. CASE Finish(r)
    BY <1>3, <2>4 DEF Finish, At, Unthreaded, Onward, Pc
  <2>. QED
    BY <1>6, <2>1, <2>2, <2>3, <2>4
<1>7. CASE Interrupt
  <2>1. UNCHANGED Unthreaded
    BY <1>7 DEF Interrupt, Unthreaded
  <2>2. CASE loop.pending = NoRequest
    BY <1>2, <1>7, <2>1, <2>2 DEF Interrupt
  <2>3. CASE loop.pending # NoRequest
    <3> DEFINE r == loop.pending
    <3>1. r \in Request /\ handler[r].pc = "accepted"
      BY <1>1, <2>3 DEF LoopHolds, At
    <3>2. handler' = [handler EXCEPT ![r].pc = "over"]
      BY <1>7, <2>3 DEF Interrupt
    <3> HIDE DEF r
    <3>3. Move(r, [handler[r] EXCEPT !.pc = "over"])
      BY <1>1, <3>1, <3>2 DEF Move
    <3>. QED
      BY <1>3, <2>1, <3>1, <3>3 DEF Onward, Pc
  <2>. QED
    BY <2>2, <2>3
<1>8. CASE CloseListener
  <2>1. /\ UNCHANGED Unthreaded
        /\ handler' = [r \in Request |-> IF At(r, "queued")
                                         THEN [handler[r] EXCEPT !.pc = "over"]
                                         ELSE handler[r]]
    BY <1>8 DEF CloseListener, Unthreaded
  <2>2. ASSUME NEW s \in Request
        PROVE  [handler[s] EXCEPT !.pc = "over"] \in Thread
    BY <1>1 DEF Thread, Pc
  <2>3. /\ handler' \in [Request -> Thread]
        /\ \A s \in Request : handler'[s] = handler[s] \/ Goes(s, "queued", "over")
    BY <1>1, <2>1, <2>2 DEF At, Goes
  <2>. QED
    BY <1>1, <2>1, <2>3, OnwardIsQuiet DEF Onward
<1>9. CASE SetEvent \/ AskLoop \/ CloseSockets \/ JoinThreads
  BY <1>2, <1>9 DEF SetEvent, AskLoop, CloseSockets, JoinThreads, Unthreaded
<1>. QED
  BY <1>4, <1>5, <1>6, <1>7, <1>8, <1>9
     DEF ExchangeNext, SimulatorStep, ThreadStep, CloseStep

(* Whatever the interleaving of any number of handlers, of the accept loop,  *)
(* of the shutdown and of the clients, each request is answered as if it had *)
(* been handled at one instant of RemoteService: service.py and state.py.    *)
THEOREM ServiceImplemented == ExchangeSpec => ImplementsService
<1>1. ExchangeInit => Remote!RemoteInit
  <2> SUFFICES ASSUME ExchangeInit PROVE Remote!RemoteInit
    OBVIOUS
  <2>1. ASSUME NEW r \in Request
        PROVE  Verdict(r) = "pending"
    <3>1. handler[r].ordinal = 0 /\ handler[r].answer.status = 0
      BY DEF ExchangeInit, SimulatorInit, ServiceInit, NoThread, NoAnswer
    <3>. QED
      BY <3>1 DEF Verdict, Decided
  <2>. QED
    BY <2>1 DEF ExchangeInit, SimulatorInit, ServiceInit, Remote!RemoteInit
<1>2. ExchangeInv /\ [ExchangeNext]_exchangeVars => [Remote!RemoteNext]_(Remote!remoteVars)
  <2> SUFFICES ASSUME ExchangeInv, [ExchangeNext]_exchangeVars
               PROVE  [Remote!RemoteNext]_(Remote!remoteVars)
    OBVIOUS
  <2>1. ServiceTyped /\ ServiceInv
    BY DEF ExchangeInv, Typed
  <2>2. ASSUME NEW r \in Request, InService(r)
        PROVE  [Remote!RemoteNext]_(Remote!remoteVars)
    BY <2>1, <2>2, ServeImplements DEF InService
  <2>3. ASSUME NEW r \in Request, ReadRequest(r)
        PROVE  [Remote!RemoteNext]_(Remote!remoteVars)
    BY <2>1, <2>3, ReadImplements
  <2>4. ASSUME Quiet
        PROVE  UNCHANGED Remote!remoteVars
    BY <2>1, <2>4, QuietStutters DEF Remote!remoteVars, Outcomes
  <2>5. CASE UNCHANGED exchangeVars
    <3>1. Quiet
      BY <2>1, <2>5
         DEF Quiet, exchangeVars, simulatorVars, serviceVars, ServiceTyped
    <3>. QED
      BY <2>4, <3>1
  <2>. QED
    BY <2>2, <2>3, <2>4, <2>5, OthersAreQuiet
<1>. QED
  BY <1>1, <1>2, ExchangeInvHolds, PTL DEF ExchangeSpec, ImplementsService, Remote!RemoteSpec

=============================================================================
