--------------------------- MODULE SimulatorService ---------------------------
(***************************************************************************)
(* What a handler thread of the simulator does with a valid request:       *)
(* simulator/service.py with the tables of state.py, the presets of        *)
(* scenario.py and the wait of waiting.py.                                 *)
(*                                                                         *)
(* The tables have guards of their own, which make one access atomic; that *)
(* a handler takes several accesses as one is what the lock of its key is  *)
(* for.  So every access is a step.  A lock is named after the request     *)
(* whose thread created it.                                                *)
(***************************************************************************)
EXTENDS Integers

CONSTANTS
    Request,      \* requests that may be made, each with its handler thread
    Key, Payload,
    AnyKey,       \* WILDCARD_KEY
    NoRecord, NoRequest

ASSUME ServiceAssumption ==
    AnyKey \notin Key /\ NoRecord \notin Payload /\ NoRequest \notin Request

VARIABLES
    call,        \* per request: what it asks for; never changes
    plan,        \* the scenario plan; never changes
    lockTable,   \* KeyCoordinator._locks
    holder,      \* per lock: the request whose thread holds it
    ordinals,    \* KeyCoordinator._ordinals
    records,     \* KeyCoordinator._records: the canonical payload
    handler      \* per request: the state of its thread

serviceVars == <<lockTable, holder, ordinals, records, handler>>

-----------------------------------------------------------------------------
(* scenario.py *)

Operation == {"submission", "reconciliation"}

(* SCENARIO_OPERATIONS *)
Supports(scenario) ==
    CASE scenario \in {"none", "success", "always_500"} -> Operation
      [] scenario = "reconciliation_timeout" -> {"reconciliation"}
      [] OTHER -> {"submission"}

Scenario == {"none", "success", "500_then_success", "429_then_success", "connect_timeout",
             "processed_then_disconnect", "processed_without_response",
             "processed_then_500", "duplicate_remote_request_id",
             "reconciliation_timeout", "always_500"}

(* A validated plan: for an operation and a key, or any key, one rule. *)
ScenarioPlan ==
    {p \in [Operation \X (Key \cup {AnyKey}) -> Scenario] :
        \A rule \in DOMAIN p : rule[1] \in Supports(p[rule])}

(* A rule for the key goes before the wildcard. *)
Resolve(op, k) == IF plan[<<op, k>>] # "none" THEN plan[<<op, k>>] ELSE plan[<<op, AnyKey>>]

HandlerAction == {"normal", "return_500", "return_429", "timeout_no_process",
                  "process_then_disconnect", "process_then_timeout", "process_then_500"}

FirstAction(scenario) ==
    CASE scenario = "500_then_success" -> "return_500"
      [] scenario = "429_then_success" -> "return_429"
      [] scenario \in {"connect_timeout", "reconciliation_timeout"} -> "timeout_no_process"
      [] scenario = "processed_then_disconnect" -> "process_then_disconnect"
      [] scenario = "processed_without_response" -> "process_then_timeout"
      [] scenario = "processed_then_500" -> "process_then_500"
      [] OTHER -> "normal"

(* resolve_action: all but always_500 decide about the first request only. *)
ResolveAction(scenario, ordinal) ==
    IF scenario = "always_500" THEN "return_500"
    ELSE IF ordinal = 1 THEN FirstAction(scenario) ELSE "normal"

-----------------------------------------------------------------------------
(* Handler threads *)

(* What a request asks for, "none" for none at all, and whether the checks   *)
(* of server.py accept it.                                                  *)
Call == [op : Operation \cup {"none"}, key : Key, payload : Payload, valid : BOOLEAN]

(* Up to "reading" and from "deliver" on a thread is in server.py. *)
Pc == {"none", "queued", "accepted", "spawned", "reading",
       "lockFor", "enter", "inspect", "decide", "waiting",
       "deliver", "finish", "over"}

(* An answer decided on: its status, 0 when the connection is to be closed  *)
(* without one, and the payload its digest is of.                           *)
Answer == [status : {0, 200, 201, 400, 404, 409, 429, 500},
           payload : Payload \cup {NoRecord}]

NoAnswer == [status |-> 0, payload |-> NoRecord]

Thread == [pc : Pc, lock : Request \cup {NoRequest}, ordinal : Nat,
           action : HandlerAction, seen : Payload \cup {NoRecord}, answer : Answer]

NoThread == [pc |-> "none", lock |-> NoRequest, ordinal |-> 0, action |-> "normal",
             seen |-> NoRecord, answer |-> NoAnswer]

At(r, pc) == handler[r].pc = pc

Move(r, thread) == handler' = [handler EXCEPT ![r] = thread]

MyKey(r) == call[r].key

IsPost(r) == call[r].op = "submission"

(* Mistake: the new lock is not stored for the next thread. *)
ForgetLock(r) ==
    /\ At(r, "lockFor")
    /\ Move(r, [handler[r] EXCEPT !.pc = "enter", !.lock = r])
    /\ UNCHANGED <<lockTable, holder, ordinals, records>>

LockFor(r) ==
    LET lock == IF lockTable[MyKey(r)] = NoRequest THEN r ELSE lockTable[MyKey(r)] IN
    /\ At(r, "lockFor")
    /\ lockTable' = [lockTable EXCEPT ![MyKey(r)] = lock]
    /\ Move(r, [handler[r] EXCEPT !.pc = "enter", !.lock = lock])
    /\ UNCHANGED <<holder, ordinals, records>>

(* The key's lock, then the ordinal and what the plan says for it. *)
Enter(r) ==
    LET op == call[r].op
        n == ordinals[op][MyKey(r)] + 1
    IN
    /\ At(r, "enter")
    /\ holder[handler[r].lock] = NoRequest
    /\ holder' = [holder EXCEPT ![handler[r].lock] = r]
    /\ ordinals' = [ordinals EXCEPT ![op][MyKey(r)] = n]
    /\ Move(r, [handler[r] EXCEPT !.pc = "inspect", !.ordinal = n,
                                  !.action = ResolveAction(Resolve(op, MyKey(r)), n)])
    /\ UNCHANGED <<lockTable, records>>

Inspect(r) ==
    /\ At(r, "inspect")
    /\ Move(r, [handler[r] EXCEPT !.pc = "decide", !.seen = records[MyKey(r)]])
    /\ UNCHANGED <<lockTable, holder, ordinals, records>>

(* Leave the lock with an Outcome. *)
Return(r, status, payload) ==
    /\ Move(r, [handler[r] EXCEPT !.pc = "deliver",
                                  !.answer = [status |-> status, payload |-> payload]])
    /\ holder' = [holder EXCEPT ![handler[r].lock] = NoRequest]

(* Mistake: the lock is left before the wait. *)
WaitUnlocked(r) ==
    /\ Move(r, [handler[r] EXCEPT !.pc = "waiting"])
    /\ holder' = [holder EXCEPT ![handler[r].lock] = NoRequest]

(* Waiter.wait, with the lock held. *)
StartWait(r) ==
    /\ Move(r, [handler[r] EXCEPT !.pc = "waiting"])
    /\ UNCHANGED holder

Conflicting(r) == IsPost(r) /\ handler[r].seen \notin {NoRecord, call[r].payload}

(* create_record, unless the inspection found one. *)
Process(r) ==
    records' = IF handler[r].seen = NoRecord
               THEN [records EXCEPT ![MyKey(r)] = call[r].payload] ELSE records

(* Answers that leave the record alone: conflict, refusal, failure. *)
Refuse(r) ==
    LET seen == handler[r].seen
        action == handler[r].action
    IN
    /\ UNCHANGED records
    /\ \/ Conflicting(r) /\ Return(r, 409, seen)
       \/ ~Conflicting(r) /\ action = "return_500" /\ Return(r, 500, NoRecord)
       \/ ~Conflicting(r) /\ action = "return_429" /\ Return(r, 429, NoRecord)
       \/ ~Conflicting(r) /\ action = "timeout_no_process" /\ StartWait(r)

(* The other answers to a POST: the key has a record afterwards. *)
Accept(r) ==
    LET action == handler[r].action IN
    /\ IsPost(r) /\ ~Conflicting(r)
    /\ Process(r)
    /\ \/ action = "process_then_disconnect" /\ Return(r, 0, NoRecord)
       \/ action = "process_then_timeout" /\ StartWait(r)
       \/ action = "process_then_500" /\ Return(r, 500, NoRecord)
       \/ /\ action = "normal"
          /\ Return(r, IF handler[r].seen = NoRecord THEN 201 ELSE 200, call[r].payload)

(* The other answers to a GET. *)
Report(r) ==
    /\ ~IsPost(r) /\ handler[r].action = "normal"
    /\ UNCHANGED records
    /\ Return(r, IF handler[r].seen = NoRecord THEN 404 ELSE 200, handler[r].seen)

Decide(r) ==
    /\ At(r, "decide")
    /\ Refuse(r) \/ Accept(r) \/ Report(r)
    /\ UNCHANGED <<lockTable, ordinals>>

(* Mistake: the wait has no duration. *)
WaitForever(r) == FALSE

(* The wait ends after its eleven seconds or when the server shuts down.    *)
WaitEnds(r) ==
    /\ At(r, "waiting")
    /\ Return(r, 0, NoRecord)
    /\ UNCHANGED <<lockTable, ordinals, records>>

ServiceInit ==
    /\ lockTable = [k \in Key |-> NoRequest]
    /\ holder = [r \in Request |-> NoRequest]
    /\ ordinals = [op \in Operation |-> [k \in Key |-> 0]]
    /\ records = [k \in Key |-> NoRecord]
    /\ handler = [r \in Request |-> NoThread]

Serve(r) ==
    \/ LockFor(r) \/ Enter(r) \/ Inspect(r) \/ Decide(r) \/ WaitEnds(r)

-----------------------------------------------------------------------------
(* Properties *)

Busy(r) == handler[r].pc \in {"inspect", "decide", "waiting"}

(* The requests for one key are handled one after another, waits included:  *)
(* a request enters handle_submission or handle_reconciliation's locked     *)
(* part only when the one before has left it, and no two of one operation   *)
(* get the same ordinal, although their threads look the lock up, and       *)
(* create it, at the same time.                                             *)
SameKeySerialized ==
    \A r, s \in Request :
        r # s /\ call[r].key = call[s].key =>
            /\ ~(Busy(r) /\ Busy(s))
            /\ call[r].op = call[s].op /\ handler[r].ordinal # 0 =>
                   handler[r].ordinal # handler[s].ordinal

(* The handler came to a decision; a wait is decided when it begins.        *)
Decided(r) == handler[r].ordinal # 0 /\ handler[r].pc \notin {"inspect", "decide"}

(* What a request was answered, as RemoteService tells it: nothing, if its  *)
(* handler never came to a decision.                                        *)
Verdict(r) ==
    LET status == handler[r].answer.status IN
    IF status = 400 THEN "rejected"
    ELSE IF ~Decided(r) THEN "pending"
    ELSE CASE status \in {0, 500} -> "uncertain"
           [] status = 409 -> "conflict"
           [] status = 429 -> "rate_limited"
           [] status = 404 -> "not_found"
           [] status \in {200, 201} -> IF IsPost(r) THEN "processed" ELSE "found"

Remote == INSTANCE RemoteService WITH
    request <- call, bound <- records, outcome <- [r \in Request |-> Verdict(r)]

(* The handlers of one key, whose threads interleave at every access to the *)
(* shared tables, answer as if each were one step of RemoteService: a key   *)
(* is bound once, a conflict and a 404 are what the records say at that     *)
(* step, and 429 is answered only while the key has no record.              *)
ImplementsService == Remote!RemoteSpec

=============================================================================
