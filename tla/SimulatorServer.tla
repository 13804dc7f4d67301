--------------------------- MODULE SimulatorServer ---------------------------
(***************************************************************************)
(* The simulator's HTTP server (simulator/server.py) around the handlers   *)
(* of SimulatorService: the accept loop of serve_forever, the worker       *)
(* permits, one thread per request, and shutdown, called by cli.py after   *)
(* an interrupt of the loop or by a program that runs the loop in another  *)
(* thread.                                                                 *)
(*                                                                         *)
(* A connection is the request made on it; protocol_version and            *)
(* close_connection make it the only one.                                  *)
(***************************************************************************)
EXTENDS SimulatorService, FiniteSets

CONSTANTS
    WorkerLimits,   \* the values of max_workers
    ServerFault     \* what may go wrong: "noThread"

ASSUME ServerAssumption ==
    /\ IsFiniteSet(Request)
    /\ WorkerLimits \subseteq Nat
    /\ ServerFault \subseteq {"noThread"}

VARIABLES
    maxWorkers,   \* max_workers; never changes
    permits,      \* the value of _request_semaphore
    lost,         \* permits of threads that were not started
    loop,         \* the accept loop, and the connection it has in its hands
    main,         \* where shutdown_and_close stands
    event,        \* shutdown_event
    active,       \* _active_threads and _active_sockets
    cut,          \* the requests whose socket shutdown_and_close closed
    wire,         \* per request: the connection as the client left it
    reply         \* per request: the answer on its way to the client

serverVars == <<maxWorkers, permits, lost, loop, main, event, active, cut, wire, reply>>

simulatorVars == <<call, plan, serviceVars, serverVars>>

(* What the handlers never touch. *)
control == <<maxWorkers, lost, loop, main, event, cut>>

Idle == [pc |-> "select", pending |-> NoRequest]

(* A wire is untouched, refused, open with an incomplete or a complete      *)
(* request, or closed by the client after either.                           *)
Wire == {"none", "partial", "complete", "closedPartial", "closedComplete"}

Sent(r) == wire[r] \in {"complete", "closedComplete"}

Listening == main \notin {"closing", "joining", "closed"}

-----------------------------------------------------------------------------
(* The accept loop *)

Unthreaded == <<call, plan, lockTable, holder, ordinals, records>>

(* serve_forever: stop when asked, else take a connection. *)
TakeConnection(r) ==
    /\ loop.pc = "select" /\ main # "asked"
    /\ At(r, "queued")
    /\ loop' = [pc |-> "admit", pending |-> r]
    /\ Move(r, [handler[r] EXCEPT !.pc = "accepted"])
    /\ UNCHANGED <<Unthreaded, maxWorkers, permits, lost, main, event, active, cut, wire, reply>>

StopLoop ==
    /\ loop.pc = "select" /\ main = "asked"
    /\ loop' = [loop EXCEPT !.pc = "stopped"]
    /\ UNCHANGED <<Unthreaded, handler, maxWorkers, permits, lost, main, event, active, cut,
                   wire, reply>>

(* process_request, with a permit: the thread of the request is started. *)
Admit(r) ==
    /\ loop.pc = "admit" /\ loop.pending = r
    /\ permits > 0
    /\ permits' = permits - 1
    /\ loop' = Idle
    /\ Move(r, [handler[r] EXCEPT !.pc = "spawned"])
    /\ UNCHANGED <<Unthreaded, maxWorkers, lost, main, event, active, cut, wire, reply>>

(* No permit within 0.1 seconds: given up only once the server shuts down. *)
TurnAway(r) ==
    /\ loop.pc = "admit" /\ loop.pending = r
    /\ permits = 0 /\ event
    /\ loop' = Idle
    /\ Move(r, [handler[r] EXCEPT !.pc = "over"])
    /\ UNCHANGED <<Unthreaded, maxWorkers, permits, lost, main, event, active, cut, wire, reply>>

(* Thread.start raises: the connection is closed, the permit is not given   *)
(* back.                                                                    *)
StartFails(r) ==
    /\ "noThread" \in ServerFault
    /\ loop.pc = "admit" /\ loop.pending = r
    /\ permits > 0
    /\ permits' = permits - 1
    /\ lost' = lost + 1
    /\ loop' = Idle
    /\ Move(r, [handler[r] EXCEPT !.pc = "over"])
    /\ UNCHANGED <<Unthreaded, maxWorkers, main, event, active, cut, wire, reply>>

-----------------------------------------------------------------------------
(* The thread of a request, outside SimulatorService *)

(* process_request_thread *)
Register(r) ==
    /\ At(r, "spawned")
    /\ active' = active \cup {r}
    /\ Move(r, [handler[r] EXCEPT !.pc = "reading"])
    /\ UNCHANGED <<Unthreaded, control, permits, wire, reply>>

Rejection == [NoAnswer EXCEPT !.status = 400]

(* Mistake: a request that has been answered as invalid is handled as well. *)
ReadOn(r) ==
    /\ At(r, "reading")
    /\ Sent(r) \/ ~call[r].valid
    /\ Move(r, [handler[r] EXCEPT !.pc = "lockFor"])
    /\ reply' = IF call[r].valid THEN reply ELSE [reply EXCEPT ![r] = Rejection]
    /\ UNCHANGED <<Unthreaded, control, permits, active, wire>>

(* A complete request is validated and, unless that answers it, handled.    *)
(* Headers that are not valid are answered before the body is read.         *)
ReadRequest(r) ==
    /\ At(r, "reading")
    /\ Sent(r) \/ ~call[r].valid
    /\ Move(r, IF call[r].valid
               THEN [handler[r] EXCEPT !.pc = "lockFor"]
               ELSE [handler[r] EXCEPT !.pc = "deliver", !.answer = Rejection])
    /\ UNCHANGED <<Unthreaded, control, permits, active, wire, reply>>

(* The stream ends before the request does, or was shut down.  What can be  *)
(* answered to a truncated body does not reach the client.                  *)
ReadEnds(r) ==
    /\ At(r, "reading") /\ (wire[r] = "closedPartial" \/ r \in cut)
    /\ Move(r, [handler[r] EXCEPT !.pc = "finish"])
    /\ UNCHANGED <<Unthreaded, control, permits, active, wire, reply>>

(* _deliver: a socket that is gone swallows the answer.                     *)
Deliver(r) ==
    /\ At(r, "deliver")
    /\ Move(r, [handler[r] EXCEPT !.pc = "finish"])
    /\ reply' = IF r \in cut THEN reply ELSE [reply EXCEPT ![r] = handler[r].answer]
    /\ UNCHANGED <<Unthreaded, control, permits, active, wire>>

(* Mistake: the permit is kept when the answer was an abort. *)
FinishAnswered(r) ==
    /\ At(r, "finish")
    /\ active' = active \ {r}
    /\ permits' = IF handler[r].answer.status = 0 THEN permits ELSE permits + 1
    /\ Move(r, [handler[r] EXCEPT !.pc = "over"])
    /\ UNCHANGED <<Unthreaded, control, wire, reply>>

(* Mistake: the permit is released twice. *)
FinishTwice(r) ==
    /\ At(r, "finish")
    /\ active' = active \ {r}
    /\ permits' = permits + 2
    /\ Move(r, [handler[r] EXCEPT !.pc = "over"])
    /\ UNCHANGED <<Unthreaded, control, wire, reply>>

(* The socket is closed, the thread unregistered, the permit released. *)
Finish(r) ==
    /\ At(r, "finish")
    /\ active' = active \ {r}
    /\ permits' = permits + 1
    /\ Move(r, [handler[r] EXCEPT !.pc = "over"])
    /\ UNCHANGED <<Unthreaded, control, wire, reply>>

InService(r) ==
    /\ Serve(r)
    /\ UNCHANGED <<call, plan, serverVars>>

ThreadStep(r) ==
    Register(r) \/ ReadRequest(r) \/ ReadEnds(r) \/ InService(r) \/ Deliver(r) \/ Finish(r)

-----------------------------------------------------------------------------
(* shutdown_and_close *)

MainStep(from, to) == main = from /\ main' = to

(* SIGINT ends serve_forever in the thread it runs in; a connection the     *)
(* loop holds is closed, and a permit just taken for it is not given back.  *)
Interrupt ==
    /\ loop.pc # "stopped"
    /\ MainStep("serving", "interrupted")
    /\ loop' = [pc |-> "stopped", pending |-> NoRequest]
    /\ handler' = IF loop.pending = NoRequest THEN handler
                  ELSE [handler EXCEPT ![loop.pending].pc = "over"]
    /\ \/ UNCHANGED <<permits, lost>>
       \/ /\ loop.pc = "admit" /\ permits > 0
          /\ permits' = permits - 1 /\ lost' = lost + 1
    /\ UNCHANGED <<Unthreaded, maxWorkers, event, active, cut, wire, reply>>

(* Mistake: the loop is asked to stop before the event is set. *)
ForgetEvent ==
    /\ main \in {"serving", "interrupted"} /\ main' = "signalled"
    /\ UNCHANGED <<Unthreaded, handler, maxWorkers, permits, lost, loop, event, active, cut,
                   wire, reply>>

SetEvent ==
    /\ main \in {"serving", "interrupted"} /\ main' = "signalled"
    /\ event' = TRUE
    /\ UNCHANGED <<Unthreaded, handler, maxWorkers, permits, lost, loop, active, cut, wire, reply>>

(* shutdown(): the loop is asked to stop and waited for. *)
AskLoop ==
    /\ MainStep("signalled", "asked")
    /\ UNCHANGED <<Unthreaded, handler, maxWorkers, permits, lost, loop, event, active, cut,
                   wire, reply>>

(* server_close: no connection is taken any more, waiting ones are reset. *)
CloseListener ==
    /\ loop.pc = "stopped"
    /\ MainStep("asked", "closing")
    /\ handler' = [r \in Request |-> IF At(r, "queued") THEN [handler[r] EXCEPT !.pc = "over"]
                                                       ELSE handler[r]]
    /\ UNCHANGED <<Unthreaded, maxWorkers, permits, lost, loop, event, active, cut, wire, reply>>

(* The registered threads are listed, then their sockets closed. *)
CloseSockets ==
    /\ MainStep("closing", "joining")
    /\ cut' = active
    /\ UNCHANGED <<Unthreaded, handler, maxWorkers, permits, lost, loop, event, active, wire, reply>>

(* Every join returns, by its deadline if the thread goes on. *)
JoinThreads ==
    /\ MainStep("joining", "closed")
    /\ UNCHANGED <<Unthreaded, handler, maxWorkers, permits, lost, loop, event, active, cut,
                   wire, reply>>

CloseStep == AskLoop \/ CloseListener \/ CloseSockets \/ JoinThreads

-----------------------------------------------------------------------------
SimulatorInit ==
    /\ ServiceInit
    /\ maxWorkers \in WorkerLimits
    /\ permits = maxWorkers /\ lost = 0
    /\ loop = Idle /\ main = "serving" /\ event = FALSE
    /\ active = {} /\ cut = {}
    /\ wire = [r \in Request |-> "none"]
    /\ reply = [r \in Request |-> NoAnswer]

LoopStep == StopLoop \/ \E r \in Request : TakeConnection(r) \/ Admit(r) \/ TurnAway(r) \/ StartFails(r)

SimulatorStep ==
    \/ LoopStep \/ \E r \in Request : ThreadStep(r)
    \/ Interrupt \/ SetEvent \/ CloseStep

-----------------------------------------------------------------------------
(* Properties *)

Running(r) == handler[r].pc \notin {"none", "queued", "accepted", "over"}

(* process_request takes a permit in the accept loop and the thread gives   *)
(* it back, so at no moment do more than max_workers handlers run, and a    *)
(* permit is gone for good only when its thread was not started: by an      *)
(* error, or by the interrupt that ends the server.                         *)
PermitsAccounted ==
    permits + Cardinality({r \in Request : Running(r)}) + lost = maxWorkers

(* shutdown_and_close returns once it was called, and it is called after an *)
(* interrupt, although the accept loop may be waiting for a permit of a     *)
(* handler whose client sends nothing.                                      *)
ShutdownEnds == main \in {"interrupted", "signalled"} ~> main = "closed"

(* A handler thread ends once its request has arrived whole, its client has *)
(* closed the connection, or shutdown_and_close has: whatever the wait of   *)
(* another request for the same key, and whoever takes its answer.          *)
RequestsEnd ==
    \A r \in Request :
        At(r, "reading") /\ (wire[r] \notin {"none", "partial"} \/ r \in cut)
            ~> At(r, "over")

=============================================================================
