---------------------------- MODULE ClientExchange ----------------------------
(***************************************************************************)
(* One HTTP exchange of boolean-maybe, from the connection to the evidence *)
(* and the delay it leads to (external/_transport.py, client.py and        *)
(* reconcile.py, application/classification.py, domain/retry_after.py),    *)
(* with the simulator at the other end, or any other program that happens  *)
(* to answer at the configured port.                                       *)
(***************************************************************************)
EXTENDS SimulatorServer, RetryDelay

CONSTANTS
    Workload,     \* what may be asked for, of whom, under which plan
    OtherPayload, \* a payload whose digest nobody here submitted
    Headers, Instants, Ordinals   \* bound: what a stranger's 429 is tried with

ASSUME ExchangeAssumption ==
    /\ OtherPayload \notin Payload \cup {NoRecord}
    /\ \A w \in Workload :
          /\ w.call \in [Request -> Call] /\ w.plan \in ScenarioPlan
          /\ w.peer \in {"simulator", "stranger"}
    /\ Headers \subseteq Header /\ Instants \subseteq Nat /\ Ordinals \subseteq Nat \ {0}

(* Arithmetic of 2 ^ n, which the provers do not do. *)
ASSUME CapAssumption == \A n \in Ordinals : Cap(n) \in Nat

VARIABLES
    peer,     \* "simulator" or "stranger"; never changes
    client    \* per request: what the exchange came to

exchangeVars == <<simulatorVars, peer, client>>

-----------------------------------------------------------------------------
(* What the client reads *)

(* A complete response: whether its Content-Type is JSON, which documented  *)
(* shape its body has, and the fields the client compares.                  *)
Response ==
    [status : {200, 201, 400, 404, 409, 429, 500, 302}, json : BOOLEAN,
     shape : {"submission", "processed", "not_found", "error", "conflict", "other"},
     payload : Payload \cup {NoRecord, OtherPayload}, replayed : BOOLEAN,
     code : {"documented", "other"}, header : Header]

Absent == [form |-> "missing", value |-> 0, digits |-> 0]

(* The bodies service.py and server.py write for an answer to r; the digest *)
(* of a conflict is the one submitted.                                      *)
Written(r) ==
    LET a == reply[r] IN
    [status |-> a.status, json |-> TRUE,
     shape |-> CASE a.status \in {200, 201} -> IF IsPost(r) THEN "submission" ELSE "processed"
                 [] a.status = 404 -> "not_found"
                 [] a.status = 409 -> "conflict"
                 [] OTHER -> "error",
     payload |-> IF a.status = 409 THEN call[r].payload ELSE a.payload,
     replayed |-> a.status = 200,
     code |-> "documented",
     header |-> IF a.status = 429 THEN [form |-> "delta", value |-> 1, digits |-> 1]
                                  ELSE Absent]

Evidence == {"none", "processed", "validation_rejected", "idempotency_conflict",
             "rate_limited", "transport_not_sent", "uncertain",
             "matched", "conflict", "not_found"}

(* client._classify_response, then classify_submission_outcome; errors are  *)
(* read whatever their Content-Type, and a 400 whatever its code.           *)
ClassifyPost(x, payload) ==
    CASE x.status \in {200, 201} /\ x.json /\ x.shape = "submission"
            /\ x.replayed = (x.status = 200) /\ x.payload = payload -> "processed"
      [] x.status = 400 /\ x.shape = "error" -> "validation_rejected"
      [] x.status = 409 /\ x.shape = "conflict" /\ x.code = "documented"
            /\ x.payload = payload -> "idempotency_conflict"
      [] x.status = 429 /\ x.shape = "error" /\ x.code = "documented" -> "rate_limited"
      [] OTHER -> "uncertain"

(* reconcile._classify_response, then classify_reconciliation_outcome *)
ClassifyGet(x, payload) ==
    CASE x.status = 200 /\ x.json /\ x.shape = "processed" ->
            IF x.payload = payload THEN "matched" ELSE "conflict"
      [] x.status = 404 /\ x.json /\ x.shape = "not_found" -> "not_found"
      [] x.status = 429 /\ x.shape = "error" /\ x.code = "documented" -> "rate_limited"
      [] OTHER -> "uncertain"

Classify(r, x) ==
    IF IsPost(r) THEN ClassifyPost(x, call[r].payload) ELSE ClassifyGet(x, call[r].payload)

-----------------------------------------------------------------------------
(* send_request *)

Nothing == [evidence |-> "none", header |-> Absent, ordinal |-> 0, now |-> 0,
            delay |-> 0, settled |-> "none"]

Result(r, evidence, header) ==
    client' = [client EXCEPT ![r] = [Nothing EXCEPT !.evidence = evidence, !.header = header]]

Made(r) == call[r].op # "none"

Talking(r) == client[r].evidence = "none"

ServerSide == <<lockTable, holder, ordinals, records, maxWorkers, permits, lost, loop, main,
                event, active, cut, reply, call, plan, peer>>

(* The connection forms: with the simulator, in the listener's backlog. *)
Connect(r) ==
    /\ Made(r) /\ Talking(r) /\ wire[r] = "none"
    /\ wire' = [wire EXCEPT ![r] = "partial"]
    /\ \/ peer = "simulator" /\ Listening /\ Move(r, [handler[r] EXCEPT !.pc = "queued"])
       \/ peer = "stranger" /\ UNCHANGED handler
    /\ UNCHANGED <<ServerSide, client>>

(* Nothing was sent; only a submission needs to know. *)
ConnectFails(r) ==
    /\ Made(r) /\ Talking(r) /\ wire[r] = "none"
    /\ Result(r, IF IsPost(r) THEN "transport_not_sent" ELSE "uncertain", Absent)
    /\ UNCHANGED <<ServerSide, wire, handler>>

Send(r) ==
    /\ Talking(r) /\ wire[r] = "partial"
    /\ wire' = [wire EXCEPT ![r] = "complete"]
    /\ UNCHANGED <<ServerSide, handler, client>>

Closed(r) == [wire EXCEPT ![r] = IF wire[r] = "partial" THEN "closedPartial" ELSE "closedComplete"]

(* Mistake: a request that could not be sent whole counts as not sent. *)
GiveUpOptimistic(r) ==
    /\ Talking(r) /\ wire[r] \in {"partial", "complete"}
    /\ Result(r, IF IsPost(r) THEN "transport_not_sent" ELSE "uncertain", Absent)
    /\ wire' = Closed(r)
    /\ UNCHANGED <<ServerSide, handler>>

(* The deadline passes, or sending or receiving fails: no conclusion. *)
GiveUp(r) ==
    /\ Talking(r) /\ wire[r] \in {"partial", "complete"}
    /\ Result(r, "uncertain", Absent)
    /\ wire' = Closed(r)
    /\ UNCHANGED <<ServerSide, handler>>

Receive(r, x) ==
    /\ Result(r, Classify(r, x), x.header)
    /\ wire' = Closed(r)
    /\ UNCHANGED <<ServerSide, handler>>

ReceiveAnswer(r) ==
    /\ Talking(r) /\ wire[r] = "complete" /\ reply[r].status # 0
    /\ Receive(r, Written(r))

(* Any other program may answer anything. *)
StrangeAnswer(r) ==
    /\ peer = "stranger" /\ Talking(r) /\ wire[r] = "complete"
    /\ \E status \in {200, 201, 400, 404, 409, 429, 500, 302},
          shape \in {"submission", "processed", "not_found", "error", "conflict", "other"},
          payload \in {call[r].payload, OtherPayload},
          json \in BOOLEAN, replayed \in BOOLEAN, code \in {"documented", "other"} :
       \E header \in IF status = 429 THEN Headers ELSE {Absent} :
          Receive(r, [status |-> status, json |-> json, shape |-> shape, payload |-> payload,
                      replayed |-> replayed, code |-> code, header |-> header])

(* A 429 schedules the next request, or the header's parser raises and the  *)
(* transaction, or the invocation, fails.  The simulator's own header is    *)
(* one of the stranger's.                                                   *)
Settle(r) ==
    LET c == client[r] IN
    /\ peer = "stranger" /\ c.evidence = "rate_limited" /\ c.settled = "none"
    /\ \E n \in Ordinals, now \in Instants :
          \/ \E d \in Delays(n, c.header, now) :
                client' = [client EXCEPT ![r] = [c EXCEPT !.ordinal = n, !.now = now,
                                                          !.delay = d, !.settled = "retry"]]
          \/ /\ Raised \in Parsed(c.header, now)
             /\ client' = [client EXCEPT ![r] = [c EXCEPT !.settled = "raised"]]
    /\ UNCHANGED <<ServerSide, handler, wire>>

ExchangeStep(r) ==
    \/ Connect(r) \/ ConnectFails(r) \/ Send(r) \/ GiveUp(r) \/ ReceiveAnswer(r)
    \/ StrangeAnswer(r) \/ Settle(r)

-----------------------------------------------------------------------------
ExchangeInit ==
    /\ SimulatorInit
    /\ \E w \in Workload : call = w.call /\ plan = w.plan /\ peer = w.peer
    /\ client = [r \in Request |-> Nothing]

ExchangeNext ==
    \/ \E r \in Request : ExchangeStep(r)
    \/ SimulatorStep /\ UNCHANGED <<peer, client>>

ExchangeSpec == ExchangeInit /\ [][ExchangeNext]_exchangeVars

(* The loop and the closing thread are scheduled; a thread runs when it     *)
(* can, and so a wait ends and a lock that stays free is taken.  A client   *)
(* owes nothing: it may stop in the middle of a request.                    *)
FairExchangeSpec ==
    /\ ExchangeSpec
    /\ WF_exchangeVars(LoopStep /\ UNCHANGED <<peer, client>>)
    /\ WF_exchangeVars(CloseStep /\ UNCHANGED <<peer, client>>)
    /\ WF_exchangeVars(main = "interrupted" /\ SetEvent /\ UNCHANGED <<peer, client>>)
    /\ \A r \in Request : WF_exchangeVars(ThreadStep(r) /\ UNCHANGED <<peer, client>>)

-----------------------------------------------------------------------------
(* Properties *)

ClientRecord ==
    [evidence : Evidence, header : Header, ordinal : Nat, now : Nat, delay : Nat,
     settled : {"none", "retry", "raised"}]

ExchangeTypeOK ==
    /\ lockTable \in [Key -> Request \cup {NoRequest}]
    /\ holder \in [Request -> Request \cup {NoRequest}]
    /\ ordinals \in [Operation -> [Key -> Nat]]
    /\ records \in [Key -> Payload \cup {NoRecord}]
    /\ handler \in [Request -> Thread]
    /\ permits \in 0 .. maxWorkers /\ lost \in Nat
    /\ loop \in [pc : {"select", "admit", "stopped"}, pending : Request \cup {NoRequest}]
    /\ main \in {"serving", "interrupted", "signalled", "asked", "closing", "joining", "closed"}
    /\ event \in BOOLEAN /\ active \subseteq Request /\ cut \subseteq Request
    /\ wire \in [Request -> Wire] /\ reply \in [Request -> Answer]
    /\ peer \in {"simulator", "stranger"}
    /\ client \in [Request -> ClientRecord]

(* What the client concludes is so at the service, whenever the exchange    *)
(* broke off: processed and matched mean that the key has this payload, a   *)
(* conflict that it has another, a rejection or a 429 that this request has *)
(* no effect, and "not sent" that its handler never processes it.           *)
EvidenceIsTrue ==
    peer = "simulator" =>
        \A r \in Request :
            LET bound == records[MyKey(r)] IN
            CASE client[r].evidence \in {"processed", "matched"} -> bound = call[r].payload
              [] client[r].evidence \in {"idempotency_conflict", "conflict"} ->
                    bound \notin {NoRecord, call[r].payload}
              [] client[r].evidence = "validation_rejected" -> handler[r].ordinal = 0
              [] client[r].evidence = "rate_limited" -> handler[r].action = "return_429"
              [] client[r].evidence = "transport_not_sent" -> ~Running(r) /\ handler[r].ordinal = 0
              [] OTHER -> TRUE

(* The delay scheduled after a 429 keeps what the feature specification     *)
(* says of Retry-After: never earlier than the server asks for, if that is  *)
(* valid, in the future and at most the maximum, and otherwise the policy's *)
(* own, although the date is compared with a clock that counts microseconds *)
(* and the result is rounded to milliseconds as a float.                    *)
DelayKeepsServer ==
    \A r \in Request :
        LET c == client[r] IN
        c.settled = "retry" => Keeps(c.ordinal, c.header, c.now, c.delay)

=============================================================================
