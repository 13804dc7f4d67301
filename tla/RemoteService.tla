----------------------------- MODULE RemoteService -----------------------------
(***************************************************************************)
(* What a client may rely on about the simulated service: every request is *)
(* answered as if it had been handled at one instant.  A key is bound to   *)
(* the payload of the first POST that is processed, for good; another      *)
(* payload is a conflict, the same one is processed without effect; a 429  *)
(* tells that nothing is bound; a failure tells nothing.  SimulatorService *)
(* is shown to implement this module.                                      *)
(***************************************************************************)
CONSTANTS Request, Key, Payload, NoRecord

VARIABLES
    request,   \* per request: operation, key and payload, and whether it is valid
    bound,     \* per key: the payload it is bound to
    outcome    \* per request: what it was answered

remoteVars == <<request, bound, outcome>>

Pending(r) == outcome[r] = "pending"

Say(r, o) == outcome' = [outcome EXCEPT ![r] = o]

Asks(r, op) == request[r].valid /\ request[r].op = op

Binding(r) == bound[request[r].key]

RemoteInit ==
    /\ bound = [k \in Key |-> NoRecord]
    /\ outcome = [r \in Request |-> "pending"]

(* A request that is not a valid one has no effect. *)
Reject(r) ==
    /\ Pending(r) /\ ~request[r].valid
    /\ Say(r, "rejected") /\ UNCHANGED bound

Conflict(r) ==
    /\ Pending(r) /\ Asks(r, "submission")
    /\ Binding(r) \notin {NoRecord, request[r].payload}
    /\ Say(r, "conflict") /\ UNCHANGED bound

Take(r) ==
    /\ Pending(r) /\ Asks(r, "submission")
    /\ Binding(r) \in {NoRecord, request[r].payload}
    /\ bound' = [bound EXCEPT ![request[r].key] = request[r].payload]
    /\ Say(r, "processed") \/ Say(r, "uncertain")

RateLimit(r) ==
    /\ Pending(r) /\ Asks(r, "submission")
    /\ Binding(r) = NoRecord
    /\ Say(r, "rate_limited") /\ UNCHANGED bound

Find(r) ==
    /\ Pending(r) /\ Asks(r, "reconciliation")
    /\ Say(r, IF Binding(r) = NoRecord THEN "not_found" ELSE "found")
    /\ UNCHANGED bound

Fail(r) ==
    /\ Pending(r) /\ request[r].valid
    /\ Say(r, "uncertain") /\ UNCHANGED bound

RemoteNext ==
    /\ UNCHANGED request
    /\ \E r \in Request : \/ Reject(r) \/ Conflict(r) \/ Take(r)
                          \/ RateLimit(r) \/ Find(r) \/ Fail(r)

RemoteSpec == RemoteInit /\ [][RemoteNext]_remoteVars

=============================================================================
