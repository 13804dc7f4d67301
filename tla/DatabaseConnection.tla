-------------------------- MODULE DatabaseConnection --------------------------
(***************************************************************************)
(* One SQLite file and the connections of the processes that use it, below *)
(* the level of JobStore, where a transaction is one step: opening and     *)
(* migrating the file (persistence/connection.py and schema.py), and the   *)
(* first transactions of a process (application/submit.py), statement by   *)
(* statement, in the threads asyncio.to_thread runs them in.  A cancelled  *)
(* await leaves its thread running on the connection.                      *)
(*                                                                         *)
(* SQLite itself is external: one transaction at a time holds the write    *)
(* lock, belongs to a connection and not to a thread, and is dropped when  *)
(* the connection is closed or the process dies.                           *)
(***************************************************************************)
EXTENDS Sequences, Integers

CONSTANTS
    Process,        \* processes that open the file, each with a job of its own
    NoProcess,
    InitialSchema,  \* schemas the file may have before
    Cancel,         \* the awaits at which the user may cancel
    Fault           \* the faults that may happen

ASSUME ConnectionAssumption ==
    /\ NoProcess \notin Process
    /\ Cancel \subseteq {"authorize", "renew"}
    /\ Fault \subseteq {"crash", "busy", "error", "check"}

-----------------------------------------------------------------------------
(* The schema *)

Migration1 == <<"jobs", "submission_attempts", "one_started_attempt_per_job">>

Migration2 == <<"service_rate_limit_gate", "attempt_observations",
                "attempt_observations_attempt_order">>

Names(migration) == {migration[i] : i \in DOMAIN migration}

Object == Names(Migration1 \o Migration2)

Newer == 99

(* user_version, and which objects are there, as the migrations write them  *)
(* or otherwise.                                                            *)
Schema == [version : {0, 1, 2, Newer}, objects : [Object -> {"absent", "own", "other"}]]

ASSUME SchemaAssumption == InitialSchema \subseteq Schema

Migrated == [version |-> 2, objects |-> [o \in Object |-> "own"]]

(* _verify_v1_schema, _verify_schema: columns, definitions and indexes. *)
Verified(schema, names) == \A o \in names : schema.objects[o] = "own"

-----------------------------------------------------------------------------
(* The rows *)

(* Of a process's job: the transaction that last wrote each of them. *)
Table == {"jobs", "submission_attempts", "lease_expires_at", "attempt_observations"}

Transaction == {"authorize", "renew", "finalize"}

(* The statements of run_pre_side_effect_transaction for a new job, of      *)
(* renew_lease, and of finalize_submission_attempt for a request that was   *)
(* not sent.                                                                *)
Statements(k) ==
    CASE k = "authorize" -> <<"jobs", "submission_attempts", "jobs">>
      [] k = "renew"     -> <<"lease_expires_at">>
      [] k = "finalize"  -> <<"attempt_observations", "submission_attempts", "jobs">>

(* The SELECTs before: the job is new; the attempt is STARTED and one's own. *)
MayWrite(k, row) ==
    row["submission_attempts"] = IF k = "authorize" THEN "none" ELSE "authorize"

VARIABLES
    initial,   \* the schema before; never changes
    file,      \* what is committed: the schema, and per process its rows
    draft,     \* what the open transaction has made of it
    lock,      \* the process whose connection is in a transaction
    main,      \* per process: where it stands
    todo,      \* per process: the DDL statements still to execute
    thread     \* per process and transaction: where its thread stands

vars == <<initial, file, draft, lock, main, todo, thread>>

(* "failed" is an open that was refused, "closed" an end with a report,     *)
(* "cancelled" one with CancelledError.                                     *)
Main == {"configure", "begin", "inspect", "create", "commit",
         "authorize", "renew", "finalize", "closing", "closingCancelled",
         "failed", "closed", "cancelled", "crashed"}

(* A thread's BEGIN, its SELECTs, its statements, its COMMIT, and its result. *)
ThreadState ==
    [pc : {"idle", "begin", "select", "write", "commit", "done", "lost", "failed", "unstarted"},
     next : Nat]

Idle == [pc |-> "idle", next |-> 1]
Ready == [pc |-> "begin", next |-> 1]

Result == {"done", "lost", "failed", "unstarted"}

In(p, pc) == main[p] = pc
GoOn(p, pc) == main' = [main EXCEPT ![p] = pc]

T(p, k, pc) == thread[p][k].pc = pc
Step(p, k, pc) == thread' = [thread EXCEPT ![p][k].pc = pc]

-----------------------------------------------------------------------------
(* SQLite *)

Free == lock = NoProcess

BeginTransaction(p) == Free /\ lock' = p /\ draft' = file

CommitTransaction(p) == lock = p /\ file' = draft /\ lock' = NoProcess

(* ROLLBACK, or the end of a connection. *)
DropTransaction(p) == lock' = IF lock = p THEN NoProcess ELSE lock

(* Mistake: DDL commits by itself. *)
WriteThrough(p, content) ==
    lock = p /\ draft' = content /\ file' = content /\ UNCHANGED lock

(* A statement of the transaction the connection is in. *)
Write(p, content) == lock = p /\ draft' = content /\ UNCHANGED <<file, lock>>

(* A statement of a migration. *)
WriteSchema(p, schema) == Write(p, [draft EXCEPT !.schema = schema])

-----------------------------------------------------------------------------
(* open_connection *)

(* _configure_pragmas *)
Configure(p) ==
    /\ In(p, "configure")
    /\ GoOn(p, "begin")
    /\ UNCHANGED <<initial, file, draft, lock, todo, thread>>

BeginExclusive(p) ==
    /\ In(p, "begin")
    /\ BeginTransaction(p)
    /\ GoOn(p, "inspect")
    /\ UNCHANGED <<initial, file, todo, thread>>

(* Mistake: an exception leaves the connection as it is. *)
RefuseOpen(p) == GoOn(p, "failed") /\ UNCHANGED <<lock, todo>>

(* Any exception: ROLLBACK, and the connection is closed. *)
Refuse(p) == GoOn(p, "failed") /\ DropTransaction(p) /\ todo' = [todo EXCEPT ![p] = <<>>]

Migrate(p, statements) == GoOn(p, "create") /\ todo' = [todo EXCEPT ![p] = statements]

(* Mistake: a file of the current version is not verified. *)
EnsureSchemaUnverified(p) ==
    LET s == draft.schema IN
    /\ In(p, "inspect")
    /\ \/ s.version = 0 /\ Migrate(p, Migration1 \o Migration2) /\ UNCHANGED lock
       \/ s.version = 1 /\ Verified(s, Names(Migration1)) /\ Migrate(p, Migration2)
            /\ UNCHANGED lock
       \/ s.version = 2 /\ GoOn(p, "commit") /\ UNCHANGED <<lock, todo>>
       \/ s.version = 1 /\ ~Verified(s, Names(Migration1)) /\ Refuse(p)
       \/ s.version = Newer /\ Refuse(p)
    /\ UNCHANGED <<initial, file, draft, thread>>

(* ensure_schema, up to the first statement of a migration. *)
EnsureSchema(p) ==
    LET s == draft.schema IN
    /\ In(p, "inspect")
    /\ \/ s.version = 0 /\ Migrate(p, Migration1 \o Migration2) /\ UNCHANGED lock
       \/ s.version = 1 /\ Verified(s, Names(Migration1)) /\ Migrate(p, Migration2)
            /\ UNCHANGED lock
       \/ s.version = 2 /\ Verified(s, Object) /\ GoOn(p, "commit") /\ UNCHANGED <<lock, todo>>
       \/ s.version = 1 /\ ~Verified(s, Names(Migration1)) /\ Refuse(p)
       \/ s.version = 2 /\ ~Verified(s, Object) /\ Refuse(p)
       \/ s.version = Newer /\ Refuse(p)
    /\ UNCHANGED <<initial, file, draft, thread>>

(* CREATE fails if there is an object of that name. *)
CreateObject(p) ==
    /\ In(p, "create") /\ todo[p] # <<>>
    /\ LET o == Head(todo[p]) IN
       \/ /\ draft.schema.objects[o] = "absent"
          /\ WriteSchema(p, [draft.schema EXCEPT !.objects[o] = "own"])
          /\ todo' = [todo EXCEPT ![p] = Tail(@)]
          /\ UNCHANGED main
       \/ /\ draft.schema.objects[o] # "absent"
          /\ Refuse(p)
          /\ UNCHANGED <<file, draft>>
    /\ UNCHANGED <<initial, thread>>

(* Mistake: the version is advanced by the number of migrations. *)
AdvanceVersion(p) ==
    /\ In(p, "create") /\ todo[p] = <<>>
    /\ WriteSchema(p, [draft.schema EXCEPT !.version = @ + 2])
    /\ GoOn(p, "commit")
    /\ UNCHANGED <<initial, todo, thread>>

SetVersion(p) ==
    /\ In(p, "create") /\ todo[p] = <<>>
    /\ WriteSchema(p, [draft.schema EXCEPT !.version = 2])
    /\ GoOn(p, "commit")
    /\ UNCHANGED <<initial, todo, thread>>

(* The commit of the schema; the process then asks for an attempt. *)
CommitSchema(p) ==
    /\ In(p, "commit")
    /\ CommitTransaction(p)
    /\ GoOn(p, "authorize")
    /\ thread' = [thread EXCEPT ![p]["authorize"] = Ready]
    /\ UNCHANGED <<initial, draft, todo>>

(* A statement of open_connection raises, or BEGIN EXCLUSIVE is still       *)
(* refused after five seconds.                                              *)
OpenFails(p) ==
    /\ \/ "error" \in Fault /\ main[p] \in {"configure", "begin", "inspect", "create", "commit"}
       \/ "busy" \in Fault /\ In(p, "begin") /\ ~Free
    /\ Refuse(p)
    /\ UNCHANGED <<initial, file, draft, thread>>

OpenStep(p) ==
    \/ Configure(p) \/ BeginExclusive(p) \/ EnsureSchema(p) \/ CreateObject(p)
    \/ SetVersion(p) \/ CommitSchema(p)

-----------------------------------------------------------------------------
(* The threads of transactions.py *)

(* Mistake: a transaction the connection is in already is joined. *)
JoinTransaction(p, k) ==
    /\ T(p, k, "begin")
    /\ \/ BeginTransaction(p) /\ Step(p, k, "select") /\ UNCHANGED file
       \/ lock = p /\ Step(p, k, "select") /\ UNCHANGED <<file, draft, lock>>
    /\ UNCHANGED <<initial, main, todo>>

(* _begin_immediate waits while another connection has the lock, and raises *)
(* if its own is in a transaction.                                          *)
BeginImmediate(p, k) ==
    /\ T(p, k, "begin")
    /\ \/ BeginTransaction(p) /\ Step(p, k, "select") /\ UNCHANGED file
       \/ lock = p /\ Step(p, k, "failed") /\ UNCHANGED <<file, draft, lock>>
    /\ UNCHANGED <<initial, main, todo>>

Rollback(p, k, result) ==
    /\ DropTransaction(p) /\ Step(p, k, result)
    /\ UNCHANGED <<initial, file, draft, main, todo>>

Select(p, k) ==
    /\ T(p, k, "select") /\ lock = p
    /\ \/ /\ MayWrite(k, draft.rows[p])
          /\ Step(p, k, "write")
          /\ UNCHANGED <<initial, file, draft, lock, main, todo>>
       \/ /\ ~MayWrite(k, draft.rows[p])
          /\ Rollback(p, k, "lost")

Execute(p, k) ==
    LET i == thread[p][k].next
        table == Statements(k)[i]
    IN
    /\ T(p, k, "write")
    /\ Write(p, [draft EXCEPT !.rows[p][table] = k])
    /\ thread' = [thread EXCEPT ![p][k] =
                    [pc |-> IF i = Len(Statements(k)) THEN "commit" ELSE "write",
                     next |-> i + 1]]
    /\ UNCHANGED <<initial, main, todo>>

Commit(p, k) ==
    /\ T(p, k, "commit")
    /\ CommitTransaction(p)
    /\ Step(p, k, "done")
    /\ UNCHANGED <<initial, draft, main, todo>>

(* OperationalError in the transaction, or BEGIN IMMEDIATE still refused    *)
(* after five seconds.                                                      *)
StatementFails(p, k) ==
    \/ /\ "error" \in Fault /\ lock = p
       /\ thread[p][k].pc \in {"select", "write", "commit"}
       /\ Rollback(p, k, "failed")
    \/ /\ "busy" \in Fault /\ T(p, k, "begin") /\ lock \notin {p, NoProcess}
       /\ Step(p, k, "failed")
       /\ UNCHANGED <<initial, file, draft, lock, main, todo>>

(* A CHECK constraint: IntegrityError is not caught, and the connection     *)
(* stays in the transaction.                                                *)
CheckFails(p, k) ==
    /\ "check" \in Fault /\ k # "renew" /\ lock = p
    /\ T(p, k, "write")
    /\ Step(p, k, "failed")
    /\ UNCHANGED <<initial, file, draft, lock, main, todo>>

ThreadStep(p, k) ==
    BeginImmediate(p, k) \/ Select(p, k) \/ Execute(p, k) \/ Commit(p, k)

-----------------------------------------------------------------------------
(* The coroutine *)

Returned(p, k) == thread[p][k].pc \in Result

(* An attempt was authorized: the lease is renewed before it is dispatched. *)
Authorized(p) ==
    /\ In(p, "authorize") /\ T(p, "authorize", "done")
    /\ GoOn(p, "renew")
    /\ thread' = [thread EXCEPT ![p]["renew"] = Ready]
    /\ UNCHANGED <<initial, file, draft, lock, todo>>

(* The invocation ends with a report; or it dispatches, with the connection *)
(* out of every transaction, and goes on as in SubmitWorkflow.              *)
Report(p) ==
    /\ \/ In(p, "authorize") /\ Returned(p, "authorize") /\ ~T(p, "authorize", "done")
       \/ In(p, "renew") /\ Returned(p, "renew")
    /\ GoOn(p, "closing")
    /\ UNCHANGED <<initial, file, draft, lock, todo, thread>>

(* The thread of a cancelled await goes on, unless it has not started yet.  *)
CancelThread(p, k, threads) ==
    \/ thread' = threads
    \/ T(p, k, "begin") /\ thread' = [threads EXCEPT ![p][k].pc = "unstarted"]

(* Nothing is done about a cancelled authorization. *)
CancelAuthorize(p) ==
    /\ "authorize" \in Cancel /\ In(p, "authorize")
    /\ GoOn(p, "closingCancelled")
    /\ CancelThread(p, "authorize", thread)
    /\ UNCHANGED <<initial, file, draft, lock, todo>>

(* The attempt is to be completed as not sent. *)
CancelRenew(p) ==
    /\ "renew" \in Cancel /\ In(p, "renew")
    /\ GoOn(p, "finalize")
    /\ CancelThread(p, "renew", [thread EXCEPT ![p]["finalize"] = Ready])
    /\ UNCHANGED <<initial, file, draft, lock, todo>>

(* Whatever came of it, cancellation goes on. *)
Propagate(p) ==
    /\ In(p, "finalize") /\ Returned(p, "finalize")
    /\ GoOn(p, "closingCancelled")
    /\ UNCHANGED <<initial, file, draft, lock, todo, thread>>

(* A thread that is still running finds its connection closed. *)
Leave(p, pc) ==
    /\ GoOn(p, pc)
    /\ DropTransaction(p)
    /\ thread' = [thread EXCEPT ![p] =
                    [k \in Transaction |-> IF thread[p][k].pc \in Result \cup {"idle"}
                                           THEN thread[p][k]
                                           ELSE [thread[p][k] EXCEPT !.pc = "failed"]]]
    /\ UNCHANGED <<initial, file, draft>>

Close(p) ==
    /\ \/ In(p, "closing") /\ Leave(p, "closed")
       \/ In(p, "closingCancelled") /\ Leave(p, "cancelled")
    /\ UNCHANGED todo

Gone == {"failed", "closed", "cancelled", "crashed"}

Crash(p) ==
    /\ "crash" \in Fault /\ main[p] \notin Gone
    /\ Leave(p, "crashed")
    /\ todo' = [todo EXCEPT ![p] = <<>>]

MainStep(p) == Authorized(p) \/ Report(p) \/ Propagate(p) \/ Close(p)

-----------------------------------------------------------------------------
Init ==
    /\ initial \in InitialSchema
    /\ file = [schema |-> initial, rows |-> [p \in Process |-> [t \in Table |-> "none"]]]
    /\ draft = file
    /\ lock = NoProcess
    /\ main = [p \in Process |-> "configure"]
    /\ todo = [p \in Process |-> <<>>]
    /\ thread = [p \in Process |-> [k \in Transaction |-> Idle]]

Next ==
    \E p \in Process :
        \/ OpenStep(p) \/ OpenFails(p) \/ MainStep(p)
        \/ CancelAuthorize(p) \/ CancelRenew(p) \/ Crash(p)
        \/ \E k \in Transaction : ThreadStep(p, k) \/ StatementFails(p, k) \/ CheckFails(p, k)

Spec == Init /\ [][Next]_vars

(* Processes and their threads are scheduled; a lock that becomes free is   *)
(* taken by one that waits for it.                                          *)
FairSpec ==
    /\ Spec
    /\ \A p \in Process :
          /\ WF_vars(OpenStep(p)) /\ WF_vars(MainStep(p))
          /\ \A k \in Transaction : WF_vars(ThreadStep(p, k))

-----------------------------------------------------------------------------
(* Properties *)

Rows == [Table -> Transaction \cup {"none"}]

ConnectionTypeOK ==
    /\ initial \in InitialSchema
    /\ file \in [schema : Schema, rows : [Process -> Rows]]
    /\ draft \in [schema : Schema, rows : [Process -> Rows]]
    /\ lock \in Process \cup {NoProcess}
    /\ main \in [Process -> Main]
    /\ todo \in [Process -> Seq(Object)]
    /\ thread \in [Process -> [Transaction -> ThreadState]]

(* An empty file, or one of version 1 as the program wrote it. *)
Migratable(s) ==
    \/ s.version = 0 /\ \A o \in Object : s.objects[o] = "absent"
    \/ /\ s.version = 1 /\ Verified(s, Names(Migration1))
       /\ \A o \in Names(Migration2) : s.objects[o] = "absent"

(* Nobody ever finds a migration in part, whoever dies or fails in the      *)
(* middle of it and whoever opens the file at the same time: the file keeps *)
(* the schema it had, or has all of version 2, and that only if what it had *)
(* was an empty file or an unaltered version 1.                             *)
WholeMigrationOrNone ==
    \/ file.schema = initial
    \/ file.schema = Migrated /\ Migratable(initial)

(* A process that gets past open_connection works on an unaltered version   *)
(* 2; an altered, a partial or a newer one is refused.                      *)
ReadyMeansMigrated ==
    \A p \in Process :
        thread[p]["authorize"].pc # "idle" => file.schema = Migrated

(* A transaction is committed as a whole or not at all, although a thread   *)
(* whose await was cancelled shares its connection with the one that        *)
(* handles the cancellation, and the connection may be closed under both:   *)
(* job and attempt are written together, and a completed attempt has its    *)
(* observation.                                                             *)
TransactionsAreWhole ==
    \A p \in Process :
        LET row == file.rows[p] IN
        /\ row["jobs"] = row["submission_attempts"]
        /\ row["attempt_observations"] = "finalize" <=> row["jobs"] = "finalize"

(* Every process gets out: no refused open, failed statement or connection  *)
(* left in a transaction keeps the file locked for the others.              *)
ProcessesEnd == \A p \in Process : <>(main[p] \in Gone)

(* Cancellation before connect() completes the owned attempt as a retryable *)
(* failure, as the feature specification says.                              *)
CancelCompletesAttempt ==
    \A p \in Process :
        In(p, "cancelled") => file.rows[p]["submission_attempts"] # "authorize"

=============================================================================
