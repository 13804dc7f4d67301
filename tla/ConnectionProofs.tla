--------------------------- MODULE ConnectionProofs ---------------------------
(***************************************************************************)
(* Proofs about DatabaseConnection, for any number of processes, any       *)
(* schemas the file may have before, and every set of faults and           *)
(* cancellations.                                                          *)
(***************************************************************************)
EXTENDS DatabaseConnection, SequenceTheorems, TLAPS

-----------------------------------------------------------------------------
(* The migrations *)

(* Names of statements that are still to be executed: each once. *)
Ahead(s, o) == \E i \in 1 .. Len(s) : s[i] = o

Distinct(s) == \A i, j \in 1 .. Len(s) : s[i] = s[j] => i = j

BothMigrations == Migration1 \o Migration2

(* What the migrations create: each object once.                             *)
LEMMA MigrationObjects ==
    /\ Migration2 \in Seq(Object) /\ BothMigrations \in Seq(Object)
    /\ Distinct(Migration2) /\ Distinct(BothMigrations)
    /\ \A o \in Object : Ahead(BothMigrations, o)
    /\ \A o \in Object : Ahead(Migration2, o) <=> o \in Names(Migration2)
    /\ Object = Names(Migration1) \cup Names(Migration2)
    /\ Names(Migration1) \cap Names(Migration2) = {}
<1> DEFINE first == {"jobs", "submission_attempts", "one_started_attempt_per_job"}
           second == {"service_rate_limit_gate", "attempt_observations",
                      "attempt_observations_attempt_order"}
           all == first \cup second
<1>1. Migration1 \in Seq(all) /\ Migration2 \in Seq(all)
      /\ Len(Migration1) = 3 /\ Len(Migration2) = 3
  BY DEF Migration1, Migration2
<1>2. /\ BothMigrations \in Seq(all) /\ Len(BothMigrations) = 6
      /\ \A i \in 1 .. 6 : BothMigrations[i] = IF i <= 3 THEN Migration1[i] ELSE Migration2[i - 3]
  <2> HIDE DEF all
  <2>1. /\ BothMigrations \in Seq(all)
        /\ Len(BothMigrations) = Len(Migration1) + Len(Migration2)
        /\ \A i \in 1 .. Len(Migration1) + Len(Migration2) :
              BothMigrations[i] = IF i <= Len(Migration1)
                               THEN Migration1[i] ELSE Migration2[i - Len(Migration1)]
    BY <1>1, ConcatProperties, Zenon DEF BothMigrations
  <2>. QED
    BY <1>1, <2>1
<1>3. /\ BothMigrations[1] = "jobs" /\ BothMigrations[2] = "submission_attempts"
      /\ BothMigrations[3] = "one_started_attempt_per_job"
      /\ BothMigrations[4] = "service_rate_limit_gate" /\ BothMigrations[5] = "attempt_observations"
      /\ BothMigrations[6] = "attempt_observations_attempt_order"
  BY <1>2 DEF Migration1, Migration2
<1>4. Names(Migration1) = first /\ Names(Migration2) = second
  <2>1. DOMAIN Migration1 = {1, 2, 3} /\ DOMAIN Migration2 = {1, 2, 3}
    BY DEF Migration1, Migration2
  <2>. QED
    BY <2>1 DEF Names, Migration1, Migration2
<1>5. Object = all
  <2>1. Names(BothMigrations) = {BothMigrations[i] : i \in 1 .. 6}
    BY <1>2, LenProperties DEF Names
  <2>2. 1 .. 6 = {1, 2, 3, 4, 5, 6}
    OBVIOUS
  <2>. QED
    BY <1>3, <2>1, <2>2 DEF Object, BothMigrations
<1>6. \A o \in Object : Ahead(BothMigrations, o)
  BY <1>2, <1>3, <1>5 DEF Ahead
<1>7. \A o \in Object : Ahead(Migration2, o) <=> o \in second
  <2>1. \A i \in 1 .. 3 : i = 1 \/ i = 2 \/ i = 3
    OBVIOUS
  <2>. QED
    BY <1>1, <2>1 DEF Ahead, Migration2
<1>8. Distinct(BothMigrations)
  <2>1. \A i \in 1 .. 6 : i = 1 \/ i = 2 \/ i = 3 \/ i = 4 \/ i = 5 \/ i = 6
    OBVIOUS
  <2>. QED
    BY <1>2, <1>3, <2>1 DEF Distinct
<1>9. Distinct(Migration2)
  <2>1. \A i \in 1 .. 3 : i = 1 \/ i = 2 \/ i = 3
    OBVIOUS
  <2>. QED
    BY <1>1, <2>1 DEF Distinct, Migration2
<1>. QED
  BY <1>1, <1>2, <1>4, <1>5, <1>6, <1>7, <1>8, <1>9

-----------------------------------------------------------------------------
(* The invariant *)

Content == [schema : Schema, rows : [Process -> Rows]]

(* Where open_connection is under way, and where it holds its transaction.   *)
Opening == {"configure", "begin", "inspect", "create", "commit"}
InSchema == {"inspect", "create", "commit"}

(* A thread in its transaction. *)
InTransaction(p, k) == thread[p][k].pc \in {"select", "write", "commit"}

(* The lock is with the connection of whoever is in a transaction; of the    *)
(* threads that share a connection only one is.                              *)
Locks(p) ==
    /\ main[p] \in InSchema => lock = p
    /\ main[p] \in Opening \cup {"failed"} => \A k \in Transaction : thread[p][k].pc = "idle"
    /\ \A k \in Transaction :
          InTransaction(p, k) => lock = p /\ \A j \in Transaction : InTransaction(p, j) => j = k

(* What a migration has made: the objects behind are its own and were not    *)
(* there before, the objects ahead are as they were.                         *)
Migrating(p) ==
    LET s == file.schema
        d == draft.schema
    IN
    /\ Distinct(todo[p])
    /\ d.version = s.version
    /\ \/ s.version = 0
       \/ s.version = 1 /\ Verified(s, Names(Migration1))
    /\ \A o \in Object :
          IF Ahead(todo[p], o) THEN d.objects[o] = s.objects[o]
                               ELSE d.objects[o] = "own"
    /\ \A o \in Object :
          ~Ahead(todo[p], o) =>
              \/ s.objects[o] = "absent"
              \/ s.version = 1 /\ o \in Names(Migration1)
    /\ \A o \in Object :
          Ahead(todo[p], o) /\ s.version = 1 => o \in Names(Migration2)

Schemas(p) ==
    /\ main[p] = "inspect" => draft = file
    /\ main[p] \in InSchema => draft.rows = file.rows
    /\ main[p] = "create" => Migrating(p)
    /\ main[p] = "commit" =>
          draft.schema = Migrated /\ (file.schema = Migrated \/ Migratable(file.schema))
    /\ lock = p /\ main[p] \notin Opening => draft.schema = file.schema
    /\ thread[p]["authorize"].pc # "idle" => file.schema = Migrated

(* What a thread has written so far of its rows. *)
Written(p, k) ==
    LET row == draft.rows[p]
        old == file.rows[p]
        t   == thread[p][k]
    IN
    /\ t.pc = "select" => row = old
    /\ t.pc = "write" => t.next <= Len(Statements(k))
    /\ t.pc = "commit" => t.next = Len(Statements(k)) + 1
    /\ k = "authorize" /\ t.pc \in {"write", "commit"} =>
          /\ old["submission_attempts"] = "none"
          /\ t.next >= 2 => row["jobs"] = "authorize"
          /\ t.next >= 3 => row["submission_attempts"] = "authorize"
          /\ row["attempt_observations"] = old["attempt_observations"]
    /\ k = "renew" =>
          \A table \in Table \ {"lease_expires_at"} : row[table] = old[table]
    /\ k = "finalize" /\ t.pc \in {"write", "commit"} =>
          /\ t.next >= 2 => row["attempt_observations"] = "finalize"
          /\ t.next >= 3 => row["submission_attempts"] = "finalize"
          /\ t.next >= 4 => row["jobs"] = "finalize"

RowsOf(p) ==
    /\ lock = p => \A q \in Process : q # p => draft.rows[q] = file.rows[q]
    /\ \A k \in Transaction :
          /\ thread[p][k].pc \in {"idle", "begin", "select"} => thread[p][k].next = 1
          /\ thread[p][k].next >= 1
          /\ InTransaction(p, k) => Written(p, k)

WholeRow(row) ==
    /\ row["jobs"] = row["submission_attempts"]
    /\ row["attempt_observations"] = "finalize" <=> row["jobs"] = "finalize"

ProcessInv(p) == Locks(p) /\ Schemas(p) /\ RowsOf(p) /\ WholeRow(file.rows[p])

ConnectionInv ==
    /\ ConnectionTypeOK
    /\ WholeMigrationOrNone
    /\ \A p \in Process : ProcessInv(p)

-----------------------------------------------------------------------------
(* Writing *)

(* A row of a process is written and nothing else. *)
LEMMA RowWritten ==
    ASSUME NEW d \in Content, NEW p \in Process, NEW t \in Table, NEW k \in Transaction
    PROVE  LET e == [d EXCEPT !.rows[p][t] = k] IN
           /\ e \in Content
           /\ e.schema = d.schema
           /\ \A q \in Process : q # p => e.rows[q] = d.rows[q]
           /\ \A u \in Table : e.rows[p][u] = IF u = t THEN k ELSE d.rows[p][u]
<1> DEFINE rows == [d.rows EXCEPT ![p][t] = k]
           e == [d EXCEPT !.rows = rows]
<1>1. d.rows \in [Process -> Rows] /\ d.rows[p] \in [Table -> Transaction \cup {"none"}]
      /\ d.schema \in Schema
  BY DEF Content, Rows
<1>2. /\ rows \in [Process -> Rows]
      /\ \A q \in Process : q # p => rows[q] = d.rows[q]
      /\ \A u \in Table : rows[p][u] = IF u = t THEN k ELSE d.rows[p][u]
  BY <1>1 DEF Rows
<1> HIDE DEF rows
<1>3. e \in Content /\ e.schema = d.schema /\ e.rows = rows
  BY <1>1, <1>2 DEF Content
<1>4. e = [d EXCEPT !.rows[p][t] = k]
  BY DEF rows
<1>. QED
  BY <1>2, <1>3, <1>4

(* The schema is written and no row. *)
LEMMA SchemaWritten ==
    ASSUME NEW d \in Content, NEW s \in Schema
    PROVE  LET e == [d EXCEPT !.schema = s] IN
           e \in Content /\ e.schema = s /\ e.rows = d.rows
BY DEF Content

ThreadPc == {"idle", "begin", "select", "write", "commit", "done", "lost", "failed", "unstarted"}

Threads == [Process -> [Transaction -> ThreadState]]

(* A thread of asyncio.to_thread is started. *)
LEMMA ThreadStarts ==
    ASSUME thread \in Threads, NEW p \in Process, NEW k \in Transaction,
           thread' = [thread EXCEPT ![p][k] = Ready]
    PROVE  /\ thread' \in Threads
           /\ \A q \in Process : q # p => thread'[q] = thread[q]
           /\ \A j \in Transaction : thread'[p][j] = IF j = k THEN Ready ELSE thread[p][j]
<1>1. Ready \in ThreadState
  BY DEF Ready, ThreadState
<1>. QED
  BY <1>1 DEF Threads

(* One thread goes on. *)
LEMMA ThreadGoes ==
    ASSUME thread \in Threads, NEW p \in Process, NEW k \in Transaction,
           NEW pc \in ThreadPc, Step(p, k, pc)
    PROVE  /\ thread' \in Threads
           /\ \A q \in Process : q # p => thread'[q] = thread[q]
           /\ \A j \in Transaction : j # k => thread'[p][j] = thread[p][j]
           /\ thread'[p][k].pc = pc /\ thread'[p][k].next = thread[p][k].next
<1> DEFINE t == [thread[p][k] EXCEPT !.pc = pc]
<1>1. thread[p][k] \in ThreadState
  BY DEF Threads
<1>2. t \in ThreadState /\ t.pc = pc /\ t.next = thread[p][k].next
  BY <1>1 DEF ThreadState, ThreadPc
<1>3. thread' = [thread EXCEPT ![p][k] = t]
  BY DEF Step
<1> HIDE DEF t
<1>. QED
  BY <1>2, <1>3 DEF Threads

(* The coroutine of a process goes on. *)
LEMMA MainGoes ==
    ASSUME ConnectionTypeOK, NEW p \in Process, NEW pc \in Main, GoOn(p, pc)
    PROVE  /\ main' \in [Process -> Main]
           /\ main'[p] = pc
           /\ \A q \in Process : q # p => main'[q] = main[q]
BY DEF ConnectionTypeOK, GoOn

(* What a step of one process leaves alone is all another one relies on.     *)
LEMMA OthersStay ==
    ASSUME ConnectionInv, NEW p \in Process, NEW q \in Process, q # p,
           main'[q] = main[q], thread'[q] = thread[q], todo'[q] = todo[q],
           lock = q => UNCHANGED <<lock, file, draft>>,
           lock # q => lock' # q,
           file.schema = Migrated => file'.schema = Migrated,
           file'.rows[q] = file.rows[q]
    PROVE  ProcessInv(q)'
<1>1. ProcessInv(q)
  BY DEF ConnectionInv
<1>2. CASE lock = q
  <2>1. UNCHANGED <<lock, file, draft>>
    BY <1>2
  <2>2. Locks(q)'
    BY <1>1, <2>1 DEF ProcessInv, Locks, InTransaction
  <2>3. Schemas(q)'
    BY <1>1, <2>1 DEF ProcessInv, Schemas, Migrating
  <2>4. RowsOf(q)'
    BY <1>1, <2>1 DEF ProcessInv, RowsOf, InTransaction, Written
  <2>. QED
    BY <1>1, <2>1, <2>2, <2>3, <2>4 DEF ProcessInv
<1>3. CASE lock # q
  <2>1. lock' # q /\ main[q] \notin InSchema /\ \A k \in Transaction : ~InTransaction(q, k)
    BY <1>1, <1>3 DEF ProcessInv, Locks
  <2>2. Locks(q)'
    BY <1>1, <2>1 DEF ProcessInv, Locks, InTransaction
  <2>3. Schemas(q)'
    BY <1>1, <2>1 DEF ProcessInv, Schemas, InSchema
  <2>4. RowsOf(q)'
    BY <1>1, <2>1 DEF ProcessInv, RowsOf, InTransaction
  <2>. QED
    BY <1>1, <2>2, <2>3, <2>4 DEF ProcessInv
<1>. QED
  BY <1>2, <1>3

(* A step of p leaves the others where they are, and the file to whoever has *)
(* the lock.                                                                 *)
Leaves(p) ==
    \A q \in Process : q # p =>
        main'[q] = main[q] /\ thread'[q] = thread[q] /\ todo'[q] = todo[q]

Keeps == UNCHANGED <<file, draft, lock>>
Drops(p) == UNCHANGED <<file, draft>> /\ DropTransaction(p)
Begins(p) == BeginTransaction(p) /\ UNCHANGED file
Writes(p) == lock = p /\ UNCHANGED <<file, lock>>
Commits(p) ==
    /\ CommitTransaction(p) /\ draft' = draft
    /\ \/ draft.schema = file.schema
       \/ /\ draft.schema = Migrated
          /\ file.schema = Migrated \/ Migratable(file.schema)

Stored(p) == Keeps \/ Drops(p) \/ Begins(p) \/ Writes(p) \/ Commits(p)

(* What the step does to p is left to show; the others keep their part.      *)
LEMMA StepKeeps ==
    ASSUME ConnectionInv, NEW p \in Process, Leaves(p), Stored(p), initial' = initial,
           ConnectionTypeOK', ProcessInv(p)'
    PROVE  ConnectionInv'
<1>1. NoProcess \notin Process /\ ProcessInv(p)
  BY ConnectionAssumption DEF ConnectionInv
<1>2. lock = p => \A q \in Process : q # p => draft.rows[q] = file.rows[q]
  BY <1>1 DEF ProcessInv, RowsOf
<1>3. /\ file.schema = Migrated => file'.schema = Migrated
      /\ \A q \in Process : q # p => file'.rows[q] = file.rows[q]
      /\ \A q \in Process : q # p /\ lock = q => UNCHANGED <<lock, file, draft>>
      /\ \A q \in Process : q # p /\ lock # q => lock' # q
  <2>1. CASE Keeps
    BY <2>1 DEF Keeps
  <2>2. CASE Drops(p)
    BY <2>2, <1>1 DEF Drops, DropTransaction
  <2>3. CASE Begins(p)
    BY <2>3, <1>1 DEF Begins, BeginTransaction, Free
  <2>4. CASE Writes(p)
    BY <2>4 DEF Writes
  <2>5. CASE Commits(p)
    BY <2>5, <1>1, <1>2 DEF Commits, CommitTransaction
  <2>. QED
    BY <2>1, <2>2, <2>3, <2>4, <2>5 DEF Stored
<1>4. WholeMigrationOrNone'
  <2>1. WholeMigrationOrNone
    BY DEF ConnectionInv
  <2>2. CASE file' = file
    BY <2>1, <2>2 DEF WholeMigrationOrNone
  <2>3. CASE Commits(p)
    BY <2>1, <2>3 DEF WholeMigrationOrNone, Commits, CommitTransaction
  <2>. QED
    BY <2>2, <2>3 DEF Stored, Keeps, Drops, Begins, Writes
<1>5. ASSUME NEW q \in Process, q # p
      PROVE  ProcessInv(q)'
  BY <1>3, <1>5, OthersStay DEF Leaves
<1>. QED
  BY <1>4, <1>5 DEF ConnectionInv

(* A process that is in no transaction relies on little. *)
LEMMA OutOfTransaction ==
    ASSUME ConnectionInv, NEW p \in Process, lock' # p, main'[p] \notin InSchema,
           main'[p] \in Opening \cup {"failed"} =>
               \A k \in Transaction : thread'[p][k].pc = "idle",
           \A k \in Transaction : ~InTransaction(p, k)',
           \A k \in Transaction :
               /\ thread'[p][k].next >= 1
               /\ thread'[p][k].pc \in {"idle", "begin"} => thread'[p][k].next = 1,
           thread'[p]["authorize"].pc # "idle" => file'.schema = Migrated,
           WholeRow(file'.rows[p])
    PROVE  ProcessInv(p)'
<1>1. Locks(p)'
  BY DEF Locks
<1>2. Schemas(p)'
  BY DEF Schemas, InSchema
<1>3. RowsOf(p)'
  <2>1. \A k \in Transaction : thread'[p][k].pc # "select"
    BY DEF InTransaction
  <2>. QED
    BY <2>1 DEF RowsOf
<1>. QED
  BY <1>1, <1>2, <1>3 DEF ProcessInv, WholeRow

(* The coroutine goes on, and starts, withdraws or fails threads: nothing    *)
(* happens to the store, whoever is in a transaction.                        *)
LEMMA CoroutineGoes ==
    ASSUME ConnectionInv, NEW p \in Process, Keeps,
           main[p] \notin Opening \cup {"failed"}, main'[p] \notin Opening \cup {"failed"},
           \A k \in Transaction :
               \/ thread'[p][k] = thread[p][k]
               \/ /\ thread'[p][k].pc \in {"begin", "failed", "unstarted"}
                  /\ thread'[p][k].next >= 1
                  /\ thread'[p][k].pc = "begin" => thread'[p][k].next = 1,
           thread[p]["authorize"].pc = "idle" => thread'[p]["authorize"].pc = "idle"
    PROVE  ProcessInv(p)'
<1>1. ProcessInv(p) /\ file' = file /\ draft' = draft /\ lock' = lock
  BY DEF ConnectionInv, Keeps
<1>2. \A k \in Transaction : InTransaction(p, k)' =>
          InTransaction(p, k) /\ thread'[p][k] = thread[p][k]
  BY DEF InTransaction
<1>3. Locks(p)'
  BY <1>1, <1>2 DEF ProcessInv, Locks, InSchema, Opening
<1>4. Schemas(p)'
  BY <1>1 DEF ProcessInv, Schemas, InSchema, Opening
<1>5. RowsOf(p)'
  <2>1. ASSUME NEW k \in Transaction, InTransaction(p, k)'
        PROVE  Written(p, k)'
    BY <1>1, <1>2, <2>1 DEF ProcessInv, RowsOf, Written
  <2>2. \A k \in Transaction :
          /\ thread'[p][k].pc \in {"idle", "begin", "select"} => thread'[p][k].next = 1
          /\ thread'[p][k].next >= 1
    BY <1>1 DEF ProcessInv, RowsOf
  <2>. QED
    BY <1>1, <2>1, <2>2 DEF ProcessInv, RowsOf
<1>. QED
  BY <1>1, <1>3, <1>4, <1>5 DEF ProcessInv, WholeRow

-----------------------------------------------------------------------------
(* open_connection *)

(* What is known of a process that opens the file. *)
LEMMA OpeningHolds ==
    ASSUME ConnectionInv, NEW p \in Process, main[p] \in Opening
    PROVE  /\ \A k \in Transaction : thread[p][k].pc = "idle" /\ thread[p][k].next = 1
           /\ main[p] \in InSchema => lock = p /\ draft.rows = file.rows
           /\ lock = p => \A q \in Process : q # p => draft.rows[q] = file.rows[q]
           /\ WholeRow(file.rows[p])
           /\ p # NoProcess
           /\ Schemas(p)
<1>1. ProcessInv(p) /\ p # NoProcess
  BY ConnectionAssumption DEF ConnectionInv
<1>2. \A k \in Transaction : thread[p][k].pc = "idle"
  BY <1>1 DEF ProcessInv, Locks
<1>3. \A k \in Transaction : thread[p][k].next = 1
  BY <1>1, <1>2 DEF ProcessInv, RowsOf
<1>. QED
  BY <1>1, <1>2, <1>3 DEF ProcessInv, Locks, Schemas, RowsOf

(* A refused open leaves nothing behind. *)
LEMMA RefuseKeeps ==
    ASSUME ConnectionInv, NEW p \in Process, main[p] \in Opening, Refuse(p),
           UNCHANGED <<initial, file, draft, thread>>
    PROVE  ConnectionInv'
<1>1. /\ main' \in [Process -> Main] /\ main'[p] = "failed"
      /\ \A q \in Process : q # p => main'[q] = main[q]
  BY MainGoes DEF ConnectionInv, Refuse, Main
<1>2. todo' \in [Process -> Seq(Object)] /\ \A q \in Process : q # p => todo'[q] = todo[q]
  <2>1. todo \in [Process -> Seq(Object)] /\ <<>> \in Seq(Object)
    BY DEF ConnectionInv, ConnectionTypeOK
  <2>. QED
    BY <2>1 DEF Refuse
<1>3. Drops(p) /\ lock' \in Process \cup {NoProcess} /\ lock' # p
  BY OpeningHolds DEF Refuse, Drops, DropTransaction, ConnectionInv, ConnectionTypeOK
<1>4. ConnectionTypeOK'
  BY <1>1, <1>2, <1>3 DEF ConnectionInv, ConnectionTypeOK
<1>5. ProcessInv(p)'
  <2>1. /\ \A k \in Transaction : thread'[p][k].pc = "idle" /\ thread'[p][k].next = 1
        /\ WholeRow(file'.rows[p])
    BY OpeningHolds DEF WholeRow
  <2>. QED
    BY <1>1, <1>3, <2>1, OutOfTransaction DEF InTransaction, InSchema, Transaction
<1>6. Leaves(p) /\ Stored(p)
  BY <1>1, <1>2, <1>3 DEF Leaves, Stored
<1>. QED
  BY <1>4, <1>5, <1>6, StepKeeps

(* The required pragmas change nothing that is modelled. *)
LEMMA ConfigureKeeps ==
    ASSUME ConnectionInv, NEW p \in Process, Configure(p)
    PROVE  ConnectionInv'
<1>1. /\ main' \in [Process -> Main] /\ main'[p] = "begin" /\ main[p] = "configure"
      /\ \A q \in Process : q # p => main'[q] = main[q]
  BY MainGoes DEF ConnectionInv, Configure, Main, In
<1>2. UNCHANGED <<initial, file, draft, lock, todo, thread>> /\ ProcessInv(p)
  BY DEF Configure, ConnectionInv
<1>3. ConnectionTypeOK'
  BY <1>1, <1>2 DEF ConnectionInv, ConnectionTypeOK
<1>4. Locks(p)' /\ Schemas(p)'
  BY <1>1, <1>2 DEF ProcessInv, Locks, Schemas, InTransaction, InSchema, Opening
<1>5. RowsOf(p)' /\ WholeRow(file.rows[p])'
  BY <1>1, <1>2 DEF ProcessInv, RowsOf, InTransaction, Written, WholeRow
<1>6. Leaves(p) /\ Stored(p)
  BY <1>1, <1>2 DEF Leaves, Stored, Keeps
<1>. QED
  BY <1>2, <1>3, <1>4, <1>5, <1>6, StepKeeps DEF ProcessInv

(* BEGIN EXCLUSIVE finds the lock free and what is committed. *)
LEMMA BeginExclusiveKeeps ==
    ASSUME ConnectionInv, NEW p \in Process, BeginExclusive(p)
    PROVE  ConnectionInv'
<1>1. /\ main' \in [Process -> Main] /\ main'[p] = "inspect" /\ main[p] = "begin"
      /\ \A q \in Process : q # p => main'[q] = main[q]
  BY MainGoes DEF ConnectionInv, BeginExclusive, Main, In
<1>2. UNCHANGED <<initial, file, todo, thread>> /\ lock' = p /\ draft' = file
  BY DEF BeginExclusive, BeginTransaction
<1>3. ConnectionTypeOK'
  BY <1>1, <1>2 DEF ConnectionInv, ConnectionTypeOK
<1>4. /\ \A k \in Transaction : thread'[p][k].pc = "idle" /\ thread'[p][k].next = 1
      /\ WholeRow(file'.rows[p])
  BY <1>1, <1>2, OpeningHolds DEF Opening, WholeRow
<1>5. Locks(p)' /\ Schemas(p)' /\ RowsOf(p)'
  BY <1>1, <1>2, <1>4
     DEF Locks, Schemas, RowsOf, InTransaction, InSchema, Opening, Transaction
<1>6. Leaves(p) /\ Stored(p)
  BY <1>1, <1>2 DEF Leaves, Stored, Begins, BeginExclusive
<1>. QED
  BY <1>2, <1>3, <1>4, <1>5, <1>6, StepKeeps DEF ProcessInv, WholeRow

(* One more step inside the transaction of open_connection. *)
LEMMA InSchemaKeeps ==
    ASSUME ConnectionInv, NEW p \in Process, main[p] \in InSchema,
           UNCHANGED <<initial, file, lock, thread>>,
           draft' \in Content, draft'.rows = draft.rows,
           main' \in [Process -> Main], main'[p] \in {"create", "commit"},
           \A q \in Process : q # p => main'[q] = main[q],
           todo' \in [Process -> Seq(Object)],
           \A q \in Process : q # p => todo'[q] = todo[q],
           main'[p] = "create" => Migrating(p)',
           main'[p] = "commit" =>
               /\ draft'.schema = Migrated
               /\ file.schema = Migrated \/ Migratable(file.schema)
    PROVE  ConnectionInv'
<1>1. ConnectionTypeOK'
  BY DEF ConnectionInv, ConnectionTypeOK, Content
<1>2. /\ \A k \in Transaction : thread'[p][k].pc = "idle" /\ thread'[p][k].next = 1
      /\ WholeRow(file'.rows[p]) /\ lock = p /\ draft.rows = file.rows
  BY OpeningHolds DEF Opening, InSchema, WholeRow
<1>3. Locks(p)' /\ RowsOf(p)'
  BY <1>2 DEF Locks, RowsOf, InTransaction, InSchema, Opening, Transaction
<1>4. Schemas(p)'
  BY <1>2 DEF Schemas, InSchema, Opening, Transaction
<1>5. Leaves(p) /\ Stored(p)
  BY <1>2 DEF Leaves, Stored, Writes
<1>. QED
  BY <1>1, <1>2, <1>3, <1>4, <1>5, StepKeeps DEF ProcessInv, WholeRow

(* A migration starts with everything it creates ahead of it. *)
LEMMA MigrateKeeps ==
    ASSUME ConnectionInv, NEW p \in Process, In(p, "inspect"),
           UNCHANGED <<initial, file, draft, lock, thread>>,
           NEW statements, Migrate(p, statements),
           \/ draft.schema.version = 0 /\ statements = BothMigrations
           \/ /\ draft.schema.version = 1 /\ Verified(draft.schema, Names(Migration1))
              /\ statements = Migration2
    PROVE  ConnectionInv'
<1>1. /\ main' \in [Process -> Main] /\ main'[p] = "create" /\ main[p] = "inspect"
      /\ \A q \in Process : q # p => main'[q] = main[q]
  BY MainGoes DEF ConnectionInv, Migrate, Main, In
<1>2. statements \in Seq(Object)
  BY MigrationObjects
<1>3. /\ todo' \in [Process -> Seq(Object)] /\ todo'[p] = statements
      /\ \A q \in Process : q # p => todo'[q] = todo[q]
  BY <1>2 DEF Migrate, ConnectionInv, ConnectionTypeOK
<1>4. draft = file /\ draft' \in Content
  BY <1>1, OpeningHolds DEF Schemas, Opening, ConnectionInv, ConnectionTypeOK, Content
<1>5. Migrating(p)'
  <2>1. CASE draft.schema.version = 0 /\ statements = BothMigrations
    BY <1>3, <1>4, <2>1, MigrationObjects DEF Migrating
  <2>2. CASE /\ draft.schema.version = 1 /\ Verified(draft.schema, Names(Migration1))
             /\ statements = Migration2
    BY <1>3, <1>4, <2>2, MigrationObjects DEF Migrating, Verified
  <2>. QED
    BY <2>1, <2>2
<1>. QED
  BY <1>1, <1>3, <1>4, <1>5, InSchemaKeeps DEF InSchema

(* A file that is verified as version 2 is Migrated. *)
LEMMA VerifiedIsMigrated ==
    ASSUME NEW s \in Schema, s.version = 2, Verified(s, Object)
    PROVE  s = Migrated
<1>1. s = [version |-> s.version, objects |-> s.objects]
      /\ s.objects = [o \in Object |-> s.objects[o]]
  BY DEF Schema
<1>. QED
  BY <1>1 DEF Verified, Migrated

(* Every branch of ensure_schema: it migrates, goes on, or refuses. *)
LEMMA EnsureSchemaKeeps ==
    ASSUME ConnectionInv, NEW p \in Process, EnsureSchema(p)
    PROVE  ConnectionInv'
<1> DEFINE s == draft.schema
<1>1. In(p, "inspect") /\ main[p] = "inspect" /\ UNCHANGED <<initial, file, draft, thread>>
  BY DEF EnsureSchema, In
<1>2. CASE s.version = 0 /\ Migrate(p, BothMigrations) /\ UNCHANGED lock
  BY <1>1, <1>2, MigrateKeeps
<1>3. CASE /\ s.version = 1 /\ Verified(s, Names(Migration1)) /\ Migrate(p, Migration2)
           /\ UNCHANGED lock
  BY <1>1, <1>3, MigrateKeeps
<1>4. CASE s.version = 2 /\ Verified(s, Object) /\ GoOn(p, "commit") /\ UNCHANGED <<lock, todo>>
  <2>1. /\ main' \in [Process -> Main] /\ main'[p] = "commit"
        /\ \A q \in Process : q # p => main'[q] = main[q]
    BY <1>4, MainGoes DEF ConnectionInv, Main
  <2>2. draft = file /\ draft \in Content /\ todo \in [Process -> Seq(Object)]
    BY <1>1, OpeningHolds DEF Schemas, Opening, ConnectionInv, ConnectionTypeOK, Content
  <2>3. draft.schema = Migrated
    BY <1>4, <2>2, VerifiedIsMigrated DEF Content
  <2>. QED
    BY <1>1, <1>4, <2>1, <2>2, <2>3, InSchemaKeeps DEF InSchema
<1>5. CASE Refuse(p)
  BY <1>1, <1>5, RefuseKeeps DEF Opening
<1>. QED
  BY <1>2, <1>3, <1>4, <1>5 DEF EnsureSchema, BothMigrations


(* The first statement is executed: the others are ahead. *)
LEMMA HeadExecuted ==
    ASSUME NEW s \in Seq(Object), s # <<>>, Distinct(s)
    PROVE  /\ Head(s) \in Object /\ Ahead(s, Head(s))
           /\ Tail(s) \in Seq(Object) /\ Distinct(Tail(s))
           /\ \A o \in Object : Ahead(Tail(s), o) <=> Ahead(s, o) /\ o # Head(s)
<1>1. Len(s) \in Nat \ {0} /\ Head(s) = s[1] /\ \A i \in 1 .. Len(s) : s[i] \in Object
  BY EmptySeq, HeadTailProperties, ElementOfSeq, LenProperties
<1>2. /\ Tail(s) \in Seq(Object) /\ Len(Tail(s)) = Len(s) - 1
      /\ \A i \in 1 .. Len(Tail(s)) : Tail(s)[i] = s[i + 1]
  BY HeadTailProperties
<1>3. Head(s) \in Object /\ Ahead(s, Head(s))
  BY <1>1 DEF Ahead
<1>4. Distinct(Tail(s))
  BY <1>1, <1>2 DEF Distinct
<1>5. ASSUME NEW o \in Object, Ahead(Tail(s), o)
      PROVE  Ahead(s, o) /\ o # Head(s)
  <2>1. PICK i \in 1 .. Len(Tail(s)) : Tail(s)[i] = o
    BY <1>5 DEF Ahead
  <2>2. i + 1 \in 1 .. Len(s) /\ s[i + 1] = o
    BY <1>1, <1>2, <2>1
  <2>3. s[1] # s[i + 1]
    BY <1>1, <2>2 DEF Distinct
  <2>. QED
    BY <1>1, <2>2, <2>3 DEF Ahead
<1>6. ASSUME NEW o \in Object, Ahead(s, o), o # Head(s)
      PROVE  Ahead(Tail(s), o)
  <2>1. PICK i \in 1 .. Len(s) : s[i] = o
    BY <1>6 DEF Ahead
  <2>2. i # 1 /\ i - 1 \in 1 .. Len(Tail(s)) /\ (i - 1) + 1 = i
    BY <1>1, <1>2, <1>6, <2>1
  <2>. QED
    BY <1>2, <2>1, <2>2 DEF Ahead
<1>. QED
  BY <1>2, <1>3, <1>4, <1>5, <1>6

(* A CREATE of a migration makes what was not there, or is refused. *)
LEMMA CreateObjectKeeps ==
    ASSUME ConnectionInv, NEW p \in Process, CreateObject(p)
    PROVE  ConnectionInv'
<1> DEFINE o == Head(todo[p])
           s == [draft.schema EXCEPT !.objects[o] = "own"]
<1>1. /\ main[p] = "create" /\ todo[p] # <<>> /\ UNCHANGED <<initial, thread>>
      /\ draft \in Content /\ todo \in [Process -> Seq(Object)] /\ todo[p] \in Seq(Object)
  BY DEF CreateObject, In, ConnectionInv, ConnectionTypeOK, Content
<1>2. Migrating(p)
  BY <1>1, OpeningHolds DEF Opening, Schemas
<1>3. /\ o \in Object /\ Ahead(todo[p], o)
      /\ Tail(todo[p]) \in Seq(Object) /\ Distinct(Tail(todo[p]))
      /\ \A x \in Object : Ahead(Tail(todo[p]), x) <=> Ahead(todo[p], x) /\ x # o
  BY <1>1, <1>2, HeadExecuted DEF Migrating
<1> HIDE DEF o
<1>4. CASE /\ draft.schema.objects[o] = "absent"
           /\ WriteSchema(p, s)
           /\ todo' = [todo EXCEPT ![p] = Tail(@)]
           /\ UNCHANGED main
  <2>1. /\ s \in Schema /\ s.version = draft.schema.version
        /\ \A x \in Object : s.objects[x] = IF x = o THEN "own" ELSE draft.schema.objects[x]
    <3> DEFINE objects == [draft.schema.objects EXCEPT ![o] = "own"]
    <3>1. /\ objects \in [Object -> {"absent", "own", "other"}]
          /\ \A x \in Object : objects[x] = IF x = o THEN "own" ELSE draft.schema.objects[x]
      BY <1>1, <1>3 DEF Content, Schema
    <3>2. s = [draft.schema EXCEPT !.objects = objects]
      OBVIOUS
    <3> HIDE DEF objects, s
    <3>. QED
      BY <1>1, <3>1, <3>2 DEF Content, Schema
  <2> HIDE DEF s
  <2>2. draft' \in Content /\ draft'.schema = s /\ draft'.rows = draft.rows
        /\ UNCHANGED <<file, lock>>
    BY <1>1, <1>4, <2>1, SchemaWritten DEF WriteSchema, Write
  <2>3. /\ todo' \in [Process -> Seq(Object)] /\ todo'[p] = Tail(todo[p])
        /\ \A q \in Process : q # p => todo'[q] = todo[q]
    BY <1>1, <1>3, <1>4
  <2>4. main' \in [Process -> Main] /\ main' = main
    BY <1>4 DEF ConnectionInv, ConnectionTypeOK
  <2>5. Migrating(p)'
    <3>1. file'.schema = file.schema /\ draft'.schema = s
      BY <2>2
    <3>2. /\ \A x \in Object :
               IF Ahead(todo'[p], x) THEN s.objects[x] = file.schema.objects[x]
                                     ELSE s.objects[x] = "own"
          /\ \A x \in Object :
               ~Ahead(todo'[p], x) =>
                   \/ file.schema.objects[x] = "absent"
                   \/ file.schema.version = 1 /\ x \in Names(Migration1)
      BY <1>2, <1>3, <1>4, <2>1, <2>3 DEF Migrating
    <3>. QED
      BY <1>2, <1>3, <2>1, <2>3, <3>1, <3>2 DEF Migrating
  <2>. QED
    BY <1>1, <2>2, <2>3, <2>4, <2>5, InSchemaKeeps DEF InSchema
<1>5. CASE Refuse(p) /\ UNCHANGED <<file, draft>>
  BY <1>1, <1>5, RefuseKeeps DEF Opening
<1>. QED
  BY <1>4, <1>5 DEF CreateObject, o

(* With nothing ahead, the draft is all of version 2. *)
LEMMA SetVersionKeeps ==
    ASSUME ConnectionInv, NEW p \in Process, SetVersion(p)
    PROVE  ConnectionInv'
<1> DEFINE s == [draft.schema EXCEPT !.version = 2]
<1>1. /\ main[p] = "create" /\ todo[p] = <<>> /\ UNCHANGED <<initial, thread, todo>>
      /\ draft \in Content /\ file \in Content /\ todo \in [Process -> Seq(Object)]
      /\ WriteSchema(p, s) /\ GoOn(p, "commit")
  BY DEF SetVersion, In, ConnectionInv, ConnectionTypeOK, Content
<1>2. Migrating(p)
  BY <1>1, OpeningHolds DEF Opening, Schemas
<1>3. s \in Schema /\ s.version = 2 /\ s.objects = draft.schema.objects
  BY <1>1 DEF Content, Schema
<1> HIDE DEF s
<1>4. draft' \in Content /\ draft'.schema = s /\ draft'.rows = draft.rows
      /\ UNCHANGED <<file, lock>>
  BY <1>1, <1>3, SchemaWritten DEF WriteSchema, Write
<1>5. \A o \in Object : ~Ahead(todo[p], o)
  BY <1>1 DEF Ahead
<1>6. s = Migrated
  BY <1>2, <1>3, <1>5, VerifiedIsMigrated DEF Migrating, Verified
<1>7. Migratable(file.schema)
  BY <1>2, <1>5, MigrationObjects DEF Migrating, Migratable
<1>8. /\ main' \in [Process -> Main] /\ main'[p] = "commit"
      /\ \A q \in Process : q # p => main'[q] = main[q]
  BY <1>1, MainGoes DEF ConnectionInv, Main
<1>. QED
  BY <1>1, <1>4, <1>6, <1>7, <1>8, InSchemaKeeps DEF InSchema

(* The commit publishes a whole migration or what was there before. *)
LEMMA CommitSchemaKeeps ==
    ASSUME ConnectionInv, NEW p \in Process, CommitSchema(p)
    PROVE  ConnectionInv'
<1>1. /\ main[p] = "commit" /\ UNCHANGED <<initial, draft, todo>>
      /\ file' = draft /\ lock = p /\ lock' = NoProcess /\ p # NoProcess
      /\ thread \in Threads
  BY ConnectionAssumption
     DEF CommitSchema, In, CommitTransaction, ConnectionInv, ConnectionTypeOK, Threads
<1>2. /\ main' \in [Process -> Main] /\ main'[p] = "authorize"
      /\ \A q \in Process : q # p => main'[q] = main[q]
  BY MainGoes DEF CommitSchema, ConnectionInv, Main
<1>3. /\ thread' \in Threads
      /\ \A q \in Process : q # p => thread'[q] = thread[q]
      /\ \A k \in Transaction :
            thread'[p][k] = IF k = "authorize" THEN Ready ELSE thread[p][k]
  <2>1. /\ "authorize" \in Transaction
        /\ thread' = [thread EXCEPT ![p]["authorize"] = Ready]
    BY DEF CommitSchema, Transaction
  <2>. QED
    BY <1>1, <2>1, ThreadStarts
<1>4. /\ \A k \in Transaction : thread[p][k].pc = "idle" /\ thread[p][k].next = 1
      /\ draft.rows = file.rows /\ WholeRow(file.rows[p])
      /\ draft.schema = Migrated /\ (file.schema = Migrated \/ Migratable(file.schema))
  BY <1>1, OpeningHolds DEF Opening, InSchema, Schemas
<1>5. ConnectionTypeOK'
  BY <1>1, <1>2, <1>3 DEF ConnectionInv, ConnectionTypeOK, Threads
<1>6. ProcessInv(p)'
  <2>1. \A k \in Transaction :
            thread'[p][k].pc \in {"idle", "begin"} /\ thread'[p][k].next = 1
    BY <1>3, <1>4 DEF Ready
  <2>2. WholeRow(file'.rows[p])
    BY <1>1, <1>4
  <2>. QED
    BY <1>1, <1>2, <1>4, <2>1, <2>2, OutOfTransaction
       DEF InTransaction, InSchema, Opening, Transaction
<1>7. Leaves(p) /\ Stored(p)
  BY <1>1, <1>2, <1>3, <1>4 DEF Leaves, Stored, Commits, CommitTransaction
<1>. QED
  BY <1>1, <1>5, <1>6, <1>7, StepKeeps

(* An exception anywhere in open_connection is a refused open. *)
LEMMA OpenFailsKeeps ==
    ASSUME ConnectionInv, NEW p \in Process, OpenFails(p)
    PROVE  ConnectionInv'
<1>1. main[p] \in Opening
  BY DEF OpenFails, Opening, In
<1>. QED
  BY <1>1, RefuseKeeps DEF OpenFails


-----------------------------------------------------------------------------
(* The threads *)

(* What is known of a process one of whose threads has started. *)
LEMMA RunningHolds ==
    ASSUME ConnectionInv, NEW p \in Process, NEW k \in Transaction, ~T(p, k, "idle")
    PROVE  /\ ProcessInv(p) /\ p # NoProcess
           /\ main[p] \notin Opening \cup {"failed"} /\ main[p] \notin InSchema
           /\ thread \in Threads /\ thread[p][k] \in ThreadState
           /\ lock = p => draft.schema = file.schema
           /\ InTransaction(p, k) => lock = p
<1>1. ProcessInv(p) /\ p # NoProcess /\ thread \in Threads
  BY ConnectionAssumption DEF ConnectionInv, ConnectionTypeOK, Threads
<1>2. main[p] \notin Opening \cup {"failed"}
  BY <1>1 DEF ProcessInv, Locks, T
<1>. QED
  BY <1>1, <1>2 DEF ProcessInv, Locks, Schemas, Threads, Opening, InSchema

(* Nothing but the coroutine and its threads moves. *)
LEMMA CoroutineKeeps ==
    ASSUME ConnectionInv, NEW p \in Process, Keeps, UNCHANGED <<initial, todo>>,
           main[p] \notin Opening \cup {"failed"}, main'[p] \notin Opening \cup {"failed"},
           main' \in [Process -> Main], thread' \in Threads,
           \A q \in Process : q # p => main'[q] = main[q] /\ thread'[q] = thread[q],
           \A k \in Transaction :
               \/ thread'[p][k] = thread[p][k]
               \/ /\ thread'[p][k].pc \in {"begin", "failed", "unstarted"}
                  /\ thread'[p][k].next >= 1
                  /\ thread'[p][k].pc = "begin" => thread'[p][k].next = 1,
           thread[p]["authorize"].pc = "idle" => thread'[p]["authorize"].pc = "idle"
    PROVE  ConnectionInv'
<1>1. ProcessInv(p)'
  BY CoroutineGoes
<1>2. ConnectionTypeOK'
  BY DEF ConnectionInv, ConnectionTypeOK, Keeps, Threads
<1>3. Leaves(p) /\ Stored(p)
  BY DEF Leaves, Stored
<1>. QED
  BY <1>1, <1>2, <1>3, StepKeeps

(* A thread ends outside of any transaction and the store stays. *)
LEMMA ThreadFails ==
    ASSUME ConnectionInv, NEW p \in Process, NEW k \in Transaction, ~T(p, k, "idle"),
           Step(p, k, "failed"), UNCHANGED <<initial, file, draft, lock, main, todo>>
    PROVE  ConnectionInv'
<1>1. /\ thread' \in Threads
      /\ \A q \in Process : q # p => thread'[q] = thread[q]
      /\ \A j \in Transaction : j # k => thread'[p][j] = thread[p][j]
      /\ thread'[p][k].pc = "failed" /\ thread'[p][k].next = thread[p][k].next
  BY RunningHolds, ThreadGoes DEF ThreadPc
<1>2. thread[p][k].next >= 1 /\ thread[p][k].pc # "idle"
  BY RunningHolds DEF ProcessInv, RowsOf, T
<1>3. thread[p]["authorize"].pc = "idle" => thread'[p]["authorize"].pc = "idle"
  BY <1>1, <1>2 DEF Transaction
<1>4. main' \in [Process -> Main]
  BY DEF ConnectionInv, ConnectionTypeOK
<1>. QED
  BY <1>1, <1>2, <1>3, <1>4, RunningHolds, CoroutineKeeps DEF Keeps

(* ROLLBACK: the connection is out of its transaction. *)
LEMMA RollbackKeeps ==
    ASSUME ConnectionInv, NEW p \in Process, NEW k \in Transaction, InTransaction(p, k),
           NEW result \in {"lost", "failed"}, Rollback(p, k, result)
    PROVE  ConnectionInv'
<1>1. /\ ~T(p, k, "idle") /\ UNCHANGED <<initial, file, draft, main, todo>>
      /\ Step(p, k, result) /\ DropTransaction(p) /\ result \in ThreadPc
  BY DEF Rollback, InTransaction, T, ThreadPc
<1>2. /\ thread' \in Threads
      /\ \A q \in Process : q # p => thread'[q] = thread[q]
      /\ \A j \in Transaction : j # k => thread'[p][j] = thread[p][j]
      /\ thread'[p][k].pc = result /\ thread'[p][k].next = thread[p][k].next
  BY <1>1, RunningHolds, ThreadGoes
<1>3. ProcessInv(p) /\ lock' = NoProcess /\ lock' # p
  BY <1>1, RunningHolds DEF DropTransaction
<1>4. \A j \in Transaction : ~InTransaction(p, j)'
  BY <1>2, <1>3 DEF ProcessInv, Locks, InTransaction
<1>5. \A j \in Transaction :
          /\ thread'[p][j].next >= 1
          /\ thread'[p][j].pc \in {"idle", "begin"} => thread'[p][j].next = 1
  BY <1>2, <1>3 DEF ProcessInv, RowsOf
<1>6. thread'[p]["authorize"].pc # "idle" => file'.schema = Migrated
  BY <1>1, <1>2, <1>3 DEF ProcessInv, Schemas, T, Transaction
<1>7. ProcessInv(p)'
  BY <1>1, <1>3, <1>4, <1>5, <1>6, RunningHolds, OutOfTransaction DEF ProcessInv, WholeRow
<1>8. ConnectionTypeOK'
  BY <1>1, <1>2, <1>3 DEF ConnectionInv, ConnectionTypeOK, Threads
<1>9. Leaves(p) /\ Stored(p)
  BY <1>1, <1>2 DEF Leaves, Stored, Drops
<1>. QED
  BY <1>1, <1>7, <1>8, <1>9, StepKeeps

(* BEGIN IMMEDIATE starts from what is committed, or raises on its own lock. *)
LEMMA BeginImmediateKeeps ==
    ASSUME ConnectionInv, NEW p \in Process, NEW k \in Transaction, BeginImmediate(p, k)
    PROVE  ConnectionInv'
<1>1. ~T(p, k, "idle") /\ T(p, k, "begin") /\ UNCHANGED <<initial, main, todo>>
  BY DEF BeginImmediate, T
<1>2. CASE BeginTransaction(p) /\ Step(p, k, "select") /\ UNCHANGED file
  <2>1. /\ thread' \in Threads
        /\ \A q \in Process : q # p => thread'[q] = thread[q]
        /\ \A j \in Transaction : j # k => thread'[p][j] = thread[p][j]
        /\ thread'[p][k].pc = "select" /\ thread'[p][k].next = thread[p][k].next
    BY <1>1, <1>2, RunningHolds, ThreadGoes DEF ThreadPc
  <2>2. ProcessInv(p) /\ lock # p /\ lock' = p /\ draft' = file /\ file' = file
    BY <1>1, <1>2, RunningHolds DEF BeginTransaction, Free
  <2>3. \A j \in Transaction : InTransaction(p, j)' => j = k
    BY <2>1, <2>2 DEF ProcessInv, Locks, InTransaction
  <2>4. Locks(p)'
    BY <1>1, <2>2, <2>3, RunningHolds DEF Locks
  <2>5. Schemas(p)'
    BY <1>1, <2>1, <2>2, RunningHolds
       DEF ProcessInv, Schemas, InSchema, Opening, T, Transaction
  <2>6. RowsOf(p)'
    <3>1. thread'[p][k].next = 1
      BY <1>1, <2>1, <2>2 DEF ProcessInv, RowsOf, T
    <3>2. Written(p, k)'
      BY <2>1, <2>2, <3>1 DEF Written
    <3>. QED
      BY <2>1, <2>2, <2>3, <3>1, <3>2 DEF ProcessInv, RowsOf
  <2>7. ConnectionTypeOK'
    BY <1>1, <2>1, <2>2 DEF ConnectionInv, ConnectionTypeOK, Threads
  <2>8. Leaves(p) /\ Stored(p)
    BY <1>1, <1>2, <2>1 DEF Leaves, Stored, Begins
  <2>. QED
    BY <1>1, <2>2, <2>4, <2>5, <2>6, <2>7, <2>8, StepKeeps DEF ProcessInv, WholeRow
<1>3. CASE lock = p /\ Step(p, k, "failed") /\ UNCHANGED <<file, draft, lock>>
  BY <1>1, <1>3, ThreadFails
<1>. QED
  BY <1>2, <1>3 DEF BeginImmediate


(* The SELECTs let a thread write, or roll it back. *)
LEMMA SelectKeeps ==
    ASSUME ConnectionInv, NEW p \in Process, NEW k \in Transaction, Select(p, k)
    PROVE  ConnectionInv'
<1>1. ~T(p, k, "idle") /\ T(p, k, "select") /\ lock = p /\ InTransaction(p, k)
  BY DEF Select, T, InTransaction
<1>2. CASE /\ MayWrite(k, draft.rows[p]) /\ Step(p, k, "write")
           /\ UNCHANGED <<initial, file, draft, lock, main, todo>>
  <2>1. /\ thread' \in Threads
        /\ \A q \in Process : q # p => thread'[q] = thread[q]
        /\ \A j \in Transaction : j # k => thread'[p][j] = thread[p][j]
        /\ thread'[p][k].pc = "write" /\ thread'[p][k].next = thread[p][k].next
    BY <1>1, <1>2, RunningHolds, ThreadGoes DEF ThreadPc
  <2>2. ProcessInv(p)
    BY <1>1, RunningHolds
  <2>3. \A j \in Transaction : InTransaction(p, j)' => j = k
    BY <1>1, <2>1, <2>2 DEF ProcessInv, Locks, InTransaction
  <2>4. Locks(p)'
    BY <1>1, <1>2, <2>3, RunningHolds DEF Locks
  <2>5. Schemas(p)'
    BY <1>1, <1>2, <2>1, <2>2, RunningHolds
       DEF ProcessInv, Schemas, InSchema, Opening, T, Transaction
  <2>6. RowsOf(p)'
    <3>1. thread'[p][k].next = 1 /\ draft.rows[p] = file.rows[p]
      BY <1>1, <2>1, <2>2 DEF ProcessInv, RowsOf, Written, T
    <3>2. 1 <= Len(Statements(k))
      BY DEF Statements, Transaction
    <3>3. k = "authorize" => file.rows[p]["submission_attempts"] = "none"
      BY <1>2, <3>1 DEF MayWrite
    <3>4. Written(p, k)'
      BY <1>2, <2>1, <3>1, <3>2, <3>3 DEF Written
    <3>. QED
      BY <1>2, <2>1, <2>2, <2>3, <3>1, <3>4 DEF ProcessInv, RowsOf
  <2>7. ConnectionTypeOK'
    BY <1>2, <2>1 DEF ConnectionInv, ConnectionTypeOK, Threads
  <2>8. Leaves(p) /\ Stored(p)
    BY <1>2, <2>1 DEF Leaves, Stored, Keeps
  <2>. QED
    BY <1>2, <2>2, <2>4, <2>5, <2>6, <2>7, <2>8, StepKeeps DEF ProcessInv, WholeRow
<1>3. CASE Rollback(p, k, "lost")
  BY <1>1, <1>3, RollbackKeeps
<1>. QED
  BY <1>2, <1>3 DEF Select

(* What each statement of a transaction leaves in the rows. *)
LEMMA StatementWritten ==
    ASSUME ConnectionInv, NEW p \in Process, NEW k \in Transaction, Execute(p, k)
    PROVE  LET i == thread[p][k].next IN
           /\ i \in 1 .. Len(Statements(k)) /\ Statements(k)[i] \in Table
           /\ draft' \in Content /\ draft'.schema = draft.schema
           /\ \A q \in Process : q # p => draft'.rows[q] = draft.rows[q]
           /\ \A u \in Table :
                 draft'.rows[p][u] = IF u = Statements(k)[i] THEN k ELSE draft.rows[p][u]
<1> DEFINE i == thread[p][k].next
           table == Statements(k)[i]
<1>1. ~T(p, k, "idle") /\ T(p, k, "write") /\ InTransaction(p, k)
  BY DEF Execute, T, InTransaction
<1>2. ProcessInv(p) /\ thread[p][k] \in ThreadState
  BY <1>1, RunningHolds
<1>3. i \in Nat /\ 1 <= i /\ i <= Len(Statements(k))
  BY <1>1, <1>2 DEF ProcessInv, RowsOf, Written, T, ThreadState
<1>4. Len(Statements(k)) \in Nat /\ \A n \in 1 .. Len(Statements(k)) : Statements(k)[n] \in Table
  <2>1. \A n \in 1 .. 3 : n = 1 \/ n = 2 \/ n = 3
    OBVIOUS
  <2>. QED
    BY <2>1 DEF Statements, Transaction, Table
<1>5. i \in 1 .. Len(Statements(k)) /\ table \in Table
  BY <1>3, <1>4
<1>6. draft' = [draft EXCEPT !.rows[p][table] = k] /\ draft \in Content
  BY DEF Execute, Write, ConnectionInv, ConnectionTypeOK, Content
<1> HIDE DEF table
<1>7. /\ draft' \in Content /\ draft'.schema = draft.schema
      /\ \A q \in Process : q # p => draft'.rows[q] = draft.rows[q]
      /\ \A u \in Table : draft'.rows[p][u] = IF u = table THEN k ELSE draft.rows[p][u]
  BY <1>5, <1>6, RowWritten
<1>. QED
  BY <1>5, <1>7 DEF table

(* Each statement writes the next row of its transaction. *)
LEMMA ExecuteKeeps ==
    ASSUME ConnectionInv, NEW p \in Process, NEW k \in Transaction, Execute(p, k)
    PROVE  ConnectionInv'
<1> DEFINE i == thread[p][k].next
           t == [pc |-> IF i = Len(Statements(k)) THEN "commit" ELSE "write", next |-> i + 1]
<1>1. ~T(p, k, "idle") /\ T(p, k, "write") /\ InTransaction(p, k) /\ lock = p
      /\ UNCHANGED <<initial, main, todo, file, lock>>
  BY DEF Execute, T, InTransaction, Write
<1>2. ProcessInv(p) /\ thread[p][k] \in ThreadState /\ thread \in Threads
  BY <1>1, RunningHolds
<1>3. /\ i \in 1 .. Len(Statements(k)) /\ Statements(k)[i] \in Table
      /\ draft' \in Content /\ draft'.schema = draft.schema
      /\ \A q \in Process : q # p => draft'.rows[q] = draft.rows[q]
      /\ \A u \in Table :
            draft'.rows[p][u] = IF u = Statements(k)[i] THEN k ELSE draft.rows[p][u]
  BY StatementWritten
<1>4. /\ t \in ThreadState /\ t.next = i + 1 /\ t.pc \in {"write", "commit"}
      /\ t.pc = "commit" => i = Len(Statements(k))
      /\ t.pc = "write" => i # Len(Statements(k))
  BY <1>3 DEF ThreadState
<1>5. /\ thread' \in Threads
      /\ \A q \in Process : q # p => thread'[q] = thread[q]
      /\ \A j \in Transaction : j # k => thread'[p][j] = thread[p][j]
      /\ thread'[p][k] = t
  <2>1. thread' = [thread EXCEPT ![p][k] = t]
    BY DEF Execute
  <2> HIDE DEF t
  <2>. QED
    BY <1>2, <1>4, <2>1 DEF Threads
<1> HIDE DEF t
<1>6. \A j \in Transaction : InTransaction(p, j)' => j = k
  BY <1>1, <1>2, <1>5 DEF ProcessInv, Locks, InTransaction
<1>7. Locks(p)'
  BY <1>1, <1>6, RunningHolds DEF Locks
<1>8. Schemas(p)'
  BY <1>1, <1>2, <1>3, <1>5, RunningHolds
     DEF ProcessInv, Schemas, InSchema, Opening, T, Transaction
<1>9. Written(p, k)'
  <2>1. Written(p, k)
    BY <1>1, <1>2 DEF ProcessInv, RowsOf
  <2>2. /\ thread'[p][k].pc = "select" => FALSE
        /\ thread'[p][k].pc = "write" => thread'[p][k].next <= Len(Statements(k))
        /\ thread'[p][k].pc = "commit" => thread'[p][k].next = Len(Statements(k)) + 1
    <3>1. Len(Statements(k)) \in Nat
      BY DEF Statements, Transaction
    <3>. QED
      BY <1>3, <1>4, <1>5, <3>1
  <2>3. k = "authorize" =>
          /\ file.rows[p]["submission_attempts"] = "none"
          /\ i + 1 >= 2 => draft'.rows[p]["jobs"] = "authorize"
          /\ i + 1 >= 3 => draft'.rows[p]["submission_attempts"] = "authorize"
          /\ draft'.rows[p]["attempt_observations"] = file.rows[p]["attempt_observations"]
    <3> SUFFICES ASSUME k = "authorize" PROVE
          /\ file.rows[p]["submission_attempts"] = "none"
          /\ i + 1 >= 2 => draft'.rows[p]["jobs"] = "authorize"
          /\ i + 1 >= 3 => draft'.rows[p]["submission_attempts"] = "authorize"
          /\ draft'.rows[p]["attempt_observations"] = file.rows[p]["attempt_observations"]
      OBVIOUS
    <3>1. i \in 1 .. 3 /\ Statements(k)[1] = "jobs" /\ Statements(k)[2] = "submission_attempts"
          /\ Statements(k)[3] = "jobs"
      BY <1>3 DEF Statements
    <3>2. /\ file.rows[p]["submission_attempts"] = "none"
          /\ i >= 2 => draft.rows[p]["jobs"] = "authorize"
          /\ i >= 3 => draft.rows[p]["submission_attempts"] = "authorize"
          /\ draft.rows[p]["attempt_observations"] = file.rows[p]["attempt_observations"]
      BY <1>1, <2>1 DEF Written, T
    <3>3. i = 1 \/ i = 2 \/ i = 3
      BY <3>1
    <3>. QED
      BY <1>3, <3>1, <3>2, <3>3 DEF Table
  <2>4. k = "renew" =>
          \A table \in Table \ {"lease_expires_at"} :
              draft'.rows[p][table] = file.rows[p][table]
    <3> SUFFICES ASSUME k = "renew", NEW table \in Table, table # "lease_expires_at"
                 PROVE  draft'.rows[p][table] = file.rows[p][table]
      OBVIOUS
    <3>1. Statements(k)[i] = "lease_expires_at"
      BY <1>3 DEF Statements
    <3>2. draft.rows[p][table] = file.rows[p][table]
      BY <2>1 DEF Written
    <3>. QED
      BY <1>3, <3>1, <3>2
  <2>5. k = "finalize" =>
          /\ i + 1 >= 2 => draft'.rows[p]["attempt_observations"] = "finalize"
          /\ i + 1 >= 3 => draft'.rows[p]["submission_attempts"] = "finalize"
          /\ i + 1 >= 4 => draft'.rows[p]["jobs"] = "finalize"
    <3> SUFFICES ASSUME k = "finalize" PROVE
          /\ i + 1 >= 2 => draft'.rows[p]["attempt_observations"] = "finalize"
          /\ i + 1 >= 3 => draft'.rows[p]["submission_attempts"] = "finalize"
          /\ i + 1 >= 4 => draft'.rows[p]["jobs"] = "finalize"
      OBVIOUS
    <3>1. i \in 1 .. 3 /\ Statements(k)[1] = "attempt_observations"
          /\ Statements(k)[2] = "submission_attempts" /\ Statements(k)[3] = "jobs"
      BY <1>3 DEF Statements
    <3>2. /\ i >= 2 => draft.rows[p]["attempt_observations"] = "finalize"
          /\ i >= 3 => draft.rows[p]["submission_attempts"] = "finalize"
      BY <1>1, <2>1 DEF Written, T
    <3>3. i = 1 \/ i = 2 \/ i = 3
      BY <3>1
    <3>. QED
      BY <1>3, <3>1, <3>2, <3>3 DEF Table
  <2>. QED
    BY <1>1, <1>4, <1>5, <2>2, <2>3, <2>4, <2>5 DEF Written
<1>10. RowsOf(p)'
  <2>1. thread'[p][k].next >= 1 /\ thread'[p][k].pc \notin {"idle", "begin", "select"}
    BY <1>3, <1>4, <1>5
  <2>. QED
    BY <1>1, <1>2, <1>3, <1>5, <1>6, <1>9, <2>1 DEF ProcessInv, RowsOf
<1>11. ConnectionTypeOK'
  BY <1>1, <1>3, <1>5 DEF ConnectionInv, ConnectionTypeOK, Threads, Content
<1>12. Leaves(p) /\ Stored(p)
  BY <1>1, <1>5 DEF Leaves, Stored, Writes
<1>. QED
  BY <1>1, <1>2, <1>7, <1>8, <1>10, <1>11, <1>12, StepKeeps DEF ProcessInv, WholeRow


(* A transaction that has written all of its rows is whole. *)
LEMMA WrittenIsWhole ==
    ASSUME ConnectionInv, NEW p \in Process, NEW k \in Transaction, T(p, k, "commit")
    PROVE  WholeRow(draft.rows[p])
<1>1. ProcessInv(p)
  BY RunningHolds DEF T
<1>2. Written(p, k) /\ WholeRow(file.rows[p])
  BY <1>1 DEF ProcessInv, RowsOf, InTransaction, T
<1>3. thread[p][k].next = Len(Statements(k)) + 1
  BY <1>2 DEF Written, T
<1>4. CASE k = "authorize"
  <2>1. thread[p][k].next = 4
    BY <1>3, <1>4 DEF Statements
  <2>. QED
    BY <1>2, <1>4, <2>1 DEF Written, T, WholeRow
<1>5. CASE k = "renew"
  BY <1>2, <1>5 DEF Written, WholeRow, Table
<1>6. CASE k = "finalize"
  <2>1. thread[p][k].next = 4
    BY <1>3, <1>6 DEF Statements
  <2>. QED
    BY <1>2, <1>6, <2>1 DEF Written, T, WholeRow
<1>. QED
  BY <1>4, <1>5, <1>6 DEF Transaction

(* COMMIT publishes a whole transaction. *)
LEMMA CommitKeeps ==
    ASSUME ConnectionInv, NEW p \in Process, NEW k \in Transaction, Commit(p, k)
    PROVE  ConnectionInv'
<1>1. /\ T(p, k, "commit") /\ ~T(p, k, "idle") /\ InTransaction(p, k)
      /\ CommitTransaction(p) /\ Step(p, k, "done") /\ UNCHANGED <<initial, draft, main, todo>>
  BY DEF Commit, T, InTransaction
<1>2. /\ thread' \in Threads
      /\ \A q \in Process : q # p => thread'[q] = thread[q]
      /\ \A j \in Transaction : j # k => thread'[p][j] = thread[p][j]
      /\ thread'[p][k].pc = "done" /\ thread'[p][k].next = thread[p][k].next
  BY <1>1, RunningHolds, ThreadGoes DEF ThreadPc
<1>3. /\ ProcessInv(p) /\ lock = p /\ lock' = NoProcess /\ lock' # p
      /\ file' = draft /\ draft.schema = file.schema
  BY <1>1, RunningHolds DEF CommitTransaction
<1>4. \A j \in Transaction : ~InTransaction(p, j)'
  BY <1>1, <1>2, <1>3 DEF ProcessInv, Locks, InTransaction
<1>5. \A j \in Transaction :
          /\ thread'[p][j].next >= 1
          /\ thread'[p][j].pc \in {"idle", "begin"} => thread'[p][j].next = 1
  BY <1>2, <1>3 DEF ProcessInv, RowsOf
<1>6. thread'[p]["authorize"].pc # "idle" => file'.schema = Migrated
  BY <1>1, <1>2, <1>3 DEF ProcessInv, Schemas, T, Transaction
<1>7. ProcessInv(p)'
  BY <1>1, <1>3, <1>4, <1>5, <1>6, RunningHolds, WrittenIsWhole, OutOfTransaction
<1>8. ConnectionTypeOK'
  BY <1>1, <1>2, <1>3 DEF ConnectionInv, ConnectionTypeOK, Threads
<1>9. Leaves(p) /\ Stored(p)
  BY <1>1, <1>2, <1>3 DEF Leaves, Stored, Commits
<1>. QED
  BY <1>1, <1>7, <1>8, <1>9, StepKeeps

(* OperationalError rolls back. *)
LEMMA StatementFailsKeeps ==
    ASSUME ConnectionInv, NEW p \in Process, NEW k \in Transaction, StatementFails(p, k)
    PROVE  ConnectionInv'
<1>1. CASE /\ thread[p][k].pc \in {"select", "write", "commit"}
           /\ Rollback(p, k, "failed")
  BY <1>1, RollbackKeeps DEF InTransaction
<1>2. CASE /\ T(p, k, "begin") /\ Step(p, k, "failed")
           /\ UNCHANGED <<initial, file, draft, lock, main, todo>>
  BY <1>2, ThreadFails DEF T
<1>. QED
  BY <1>1, <1>2 DEF StatementFails

(* IntegrityError leaves the transaction open, and the thread out of it. *)
LEMMA CheckFailsKeeps ==
    ASSUME ConnectionInv, NEW p \in Process, NEW k \in Transaction, CheckFails(p, k)
    PROVE  ConnectionInv'
BY ThreadFails DEF CheckFails, T

(* All steps of a thread. *)
LEMMA ThreadStepKeeps ==
    ASSUME ConnectionInv, NEW p \in Process, NEW k \in Transaction, ThreadStep(p, k)
    PROVE  ConnectionInv'
BY BeginImmediateKeeps, SelectKeeps, ExecuteKeeps, CommitKeeps DEF ThreadStep

-----------------------------------------------------------------------------
(* The coroutine *)

(* The renewal is started. *)
LEMMA AuthorizedKeeps ==
    ASSUME ConnectionInv, NEW p \in Process, Authorized(p)
    PROVE  ConnectionInv'
<1>1. /\ main[p] = "authorize" /\ thread \in Threads
      /\ UNCHANGED <<initial, file, draft, lock, todo>>
      /\ "renew" \in Transaction
  BY DEF Authorized, In, ConnectionInv, ConnectionTypeOK, Threads, Transaction
<1>2. /\ main' \in [Process -> Main] /\ main'[p] = "renew"
      /\ \A q \in Process : q # p => main'[q] = main[q]
  BY MainGoes DEF Authorized, ConnectionInv, Main
<1>3. /\ thread' \in Threads
      /\ \A q \in Process : q # p => thread'[q] = thread[q]
      /\ \A j \in Transaction : thread'[p][j] = IF j = "renew" THEN Ready ELSE thread[p][j]
  <2>1. thread' = [thread EXCEPT ![p]["renew"] = Ready]
    BY DEF Authorized
  <2>. QED
    BY <1>1, <2>1, ThreadStarts
<1>4. /\ \A k \in Transaction :
            \/ thread'[p][k] = thread[p][k]
            \/ thread'[p][k].pc = "begin" /\ thread'[p][k].next = 1 /\ thread'[p][k].next >= 1
      /\ thread'[p]["authorize"] = thread[p]["authorize"]
  BY <1>3 DEF Ready, Transaction
<1>5. main[p] \notin Opening \cup {"failed"} /\ main'[p] \notin Opening \cup {"failed"}
  BY <1>1, <1>2 DEF Opening
<1>. QED
  BY <1>1, <1>2, <1>3, <1>4, <1>5, CoroutineKeeps DEF Keeps

(* The coroutine goes on without any of its threads. *)
LEMMA MainKeeps ==
    ASSUME ConnectionInv, NEW p \in Process, main[p] \in {"authorize", "renew", "finalize"},
           NEW pc \in {"closing", "closingCancelled"}, GoOn(p, pc),
           UNCHANGED <<initial, file, draft, lock, todo, thread>>
    PROVE  ConnectionInv'
<1>1. /\ main' \in [Process -> Main] /\ main'[p] = pc
      /\ \A q \in Process : q # p => main'[q] = main[q]
  BY MainGoes DEF ConnectionInv, Main
<1>2. thread \in Threads
  BY DEF ConnectionInv, ConnectionTypeOK, Threads
<1>. QED
  BY <1>1, <1>2, CoroutineKeeps DEF Keeps, Opening

(* The invocation ends with a report. *)
LEMMA ReportKeeps ==
    ASSUME ConnectionInv, NEW p \in Process, Report(p)
    PROVE  ConnectionInv'
BY MainKeeps DEF Report, In

(* Cancellation goes on after the attempt was to be completed. *)
LEMMA PropagateKeeps ==
    ASSUME ConnectionInv, NEW p \in Process, Propagate(p)
    PROVE  ConnectionInv'
BY MainKeeps DEF Propagate, In

(* The authorization is abandoned, its thread goes on or never starts. *)
LEMMA CancelAuthorizeKeeps ==
    ASSUME ConnectionInv, NEW p \in Process, CancelAuthorize(p)
    PROVE  ConnectionInv'
<1>1. /\ main[p] = "authorize" /\ thread \in Threads /\ "authorize" \in Transaction
      /\ GoOn(p, "closingCancelled") /\ UNCHANGED <<initial, file, draft, lock, todo>>
  BY DEF CancelAuthorize, In, ConnectionInv, ConnectionTypeOK, Threads, Transaction
<1>2. CASE thread' = thread
  BY <1>1, <1>2, MainKeeps
<1>3. CASE /\ T(p, "authorize", "begin")
           /\ thread' = [thread EXCEPT ![p]["authorize"].pc = "unstarted"]
  <2>1. Step(p, "authorize", "unstarted") /\ "unstarted" \in ThreadPc
    BY <1>3 DEF Step, ThreadPc
  <2>2. /\ thread' \in Threads
        /\ \A q \in Process : q # p => thread'[q] = thread[q]
        /\ \A j \in Transaction : j # "authorize" => thread'[p][j] = thread[p][j]
        /\ thread'[p]["authorize"].pc = "unstarted"
        /\ thread'[p]["authorize"].next = thread[p]["authorize"].next
    BY <1>1, <2>1, ThreadGoes
  <2>3. thread[p]["authorize"].next >= 1 /\ thread[p]["authorize"].pc # "idle"
    BY <1>1, <1>3 DEF ConnectionInv, ProcessInv, RowsOf, T
  <2>4. /\ main' \in [Process -> Main] /\ main'[p] = "closingCancelled"
        /\ \A q \in Process : q # p => main'[q] = main[q]
    BY <1>1, MainGoes DEF ConnectionInv, Main
  <2>. QED
    BY <1>1, <2>2, <2>3, <2>4, CoroutineKeeps DEF Keeps, Opening
<1>. QED
  BY <1>2, <1>3 DEF CancelAuthorize, CancelThread

(* The attempt is to be completed while the renewal goes on or never starts. *)
LEMMA CancelRenewKeeps ==
    ASSUME ConnectionInv, NEW p \in Process, CancelRenew(p)
    PROVE  ConnectionInv'
<1> DEFINE started == [thread EXCEPT ![p]["finalize"] = Ready]
<1>1. /\ main[p] = "renew" /\ thread \in Threads
      /\ "renew" \in Transaction /\ "finalize" \in Transaction
      /\ GoOn(p, "finalize") /\ UNCHANGED <<initial, file, draft, lock, todo>>
      /\ CancelThread(p, "renew", started)
  BY DEF CancelRenew, In, ConnectionInv, ConnectionTypeOK, Threads, Transaction
<1>2. /\ main' \in [Process -> Main] /\ main'[p] = "finalize"
      /\ \A q \in Process : q # p => main'[q] = main[q]
  BY <1>1, MainGoes DEF ConnectionInv, Main
<1>3. CASE thread' = started
  <2>1. /\ thread' \in Threads
        /\ \A q \in Process : q # p => thread'[q] = thread[q]
        /\ \A j \in Transaction :
              thread'[p][j] = IF j = "finalize" THEN Ready ELSE thread[p][j]
    BY <1>1, <1>3, ThreadStarts
  <2>. QED
    BY <1>1, <1>2, <2>1, CoroutineKeeps DEF Keeps, Opening, Ready, Transaction
<1>4. CASE T(p, "renew", "begin") /\ thread' = [started EXCEPT ![p]["renew"].pc = "unstarted"]
  <2>1. Ready \in ThreadState /\ thread[p]["renew"] \in ThreadState
    BY <1>1 DEF Ready, ThreadState, Threads
  <2> DEFINE t == [thread[p]["renew"] EXCEPT !.pc = "unstarted"]
  <2>2. t \in ThreadState /\ t.pc = "unstarted" /\ t.next = thread[p]["renew"].next
    BY <2>1 DEF ThreadState
  <2>3. started \in Threads /\ started[p]["renew"] = thread[p]["renew"]
    BY <1>1, <2>1 DEF Threads
  <2>4. thread' = [started EXCEPT ![p]["renew"] = t]
    BY <1>4, <2>3
  <2> HIDE DEF t
  <2>5. /\ thread' \in Threads
        /\ \A q \in Process : q # p => thread'[q] = thread[q]
        /\ \A j \in Transaction :
              thread'[p][j] = CASE j = "finalize" -> Ready
                                [] j = "renew" -> t
                                [] OTHER -> thread[p][j]
    BY <1>1, <2>1, <2>2, <2>3, <2>4 DEF Threads, Transaction
  <2>6. t.next >= 1
    BY <1>1, <2>2 DEF ConnectionInv, ProcessInv, RowsOf
  <2>. QED
    BY <1>1, <1>2, <2>2, <2>5, <2>6, CoroutineKeeps DEF Keeps, Opening, Ready, Transaction
<1>. QED
  BY <1>1, <1>3, <1>4 DEF CancelThread


(* The connection is closed: a thread that is still running fails.           *)
LEMMA LeaveKeeps ==
    ASSUME ConnectionInv, NEW p \in Process, NEW pc \in {"closed", "cancelled", "crashed"},
           Leave(p, pc), todo' \in [Process -> Seq(Object)],
           \A q \in Process : q # p => todo'[q] = todo[q]
    PROVE  ConnectionInv'
<1>1. /\ UNCHANGED <<initial, file, draft>> /\ GoOn(p, pc) /\ DropTransaction(p)
      /\ thread \in Threads /\ ProcessInv(p) /\ p # NoProcess
  BY ConnectionAssumption DEF Leave, ConnectionInv, ConnectionTypeOK, Threads
<1>2. /\ main' \in [Process -> Main] /\ main'[p] = pc
      /\ \A q \in Process : q # p => main'[q] = main[q]
  BY <1>1, MainGoes DEF ConnectionInv, Main
<1> DEFINE Stay(k) == thread[p][k].pc \in Result \cup {"idle"}
           ended == [k \in Transaction |-> IF Stay(k) THEN thread[p][k]
                                                     ELSE [thread[p][k] EXCEPT !.pc = "failed"]]
<1>3. /\ ended \in [Transaction -> ThreadState]
      /\ \A k \in Transaction :
            /\ Stay(k) => ended[k] = thread[p][k]
            /\ ~Stay(k) => ended[k].pc = "failed" /\ ended[k].next = thread[p][k].next
  <2>1. \A k \in Transaction : thread[p][k] \in ThreadState
    BY <1>1 DEF Threads
  <2>. QED
    BY <2>1 DEF ThreadState
<1>4. thread' = [thread EXCEPT ![p] = ended]
  BY DEF Leave
<1> HIDE DEF ended
<1>5. /\ thread' \in Threads /\ thread'[p] = ended
      /\ \A q \in Process : q # p => thread'[q] = thread[q]
  BY <1>1, <1>3, <1>4 DEF Threads
<1>6. lock' \in Process \cup {NoProcess} /\ lock' # p
  BY <1>1 DEF DropTransaction, ConnectionInv, ConnectionTypeOK
<1>7. ConnectionTypeOK'
  BY <1>1, <1>2, <1>5, <1>6 DEF ConnectionInv, ConnectionTypeOK, Threads
<1>8. ProcessInv(p)'
  <2>1. \A k \in Transaction : ~InTransaction(p, k)'
    BY <1>3, <1>5 DEF InTransaction, Result
  <2>2. \A k \in Transaction :
            /\ thread'[p][k].next >= 1
            /\ thread'[p][k].pc \in {"idle", "begin"} => thread'[p][k].next = 1
    BY <1>1, <1>3, <1>5 DEF ProcessInv, RowsOf, Result
  <2>3. thread'[p]["authorize"].pc # "idle" => file'.schema = Migrated
    BY <1>1, <1>3, <1>5 DEF ProcessInv, Schemas, Transaction
  <2>4. WholeRow(file'.rows[p])
    BY <1>1 DEF ProcessInv
  <2>5. main'[p] \notin InSchema /\ main'[p] \notin Opening \cup {"failed"}
    BY <1>2 DEF InSchema, Opening
  <2>. QED
    BY <1>6, <2>1, <2>2, <2>3, <2>4, <2>5, OutOfTransaction
<1>9. Leaves(p) /\ Stored(p)
  BY <1>1, <1>2, <1>5 DEF Leaves, Stored, Drops
<1>. QED
  BY <1>1, <1>7, <1>8, <1>9, StepKeeps

(* The end of the connection, with a report or with CancelledError. *)
LEMMA CloseKeeps ==
    ASSUME ConnectionInv, NEW p \in Process, Close(p)
    PROVE  ConnectionInv'
<1>1. todo' = todo /\ todo \in [Process -> Seq(Object)]
  BY DEF Close, ConnectionInv, ConnectionTypeOK
<1>. QED
  BY <1>1, LeaveKeeps DEF Close

(* The end of the process. *)
LEMMA CrashKeeps ==
    ASSUME ConnectionInv, NEW p \in Process, Crash(p)
    PROVE  ConnectionInv'
<1>1. todo' \in [Process -> Seq(Object)] /\ \A q \in Process : q # p => todo'[q] = todo[q]
  <2>1. todo \in [Process -> Seq(Object)] /\ <<>> \in Seq(Object)
    BY DEF ConnectionInv, ConnectionTypeOK
  <2>. QED
    BY <2>1 DEF Crash
<1>. QED
  BY <1>1, LeaveKeeps DEF Crash

-----------------------------------------------------------------------------
(* The theorems *)

(* A file nobody has opened yet. *)
LEMMA InitHolds == Init => ConnectionInv
<1> SUFFICES ASSUME Init PROVE ConnectionInv
  OBVIOUS
<1> DEFINE none == [t \in Table |-> "none"]
<1>1. initial \in Schema /\ file.schema = initial /\ draft = file /\ lock = NoProcess
      /\ \A p \in Process : file.rows[p] = none
  BY SchemaAssumption DEF Init
<1>2. Idle \in ThreadState /\ none \in Rows
  BY DEF Idle, ThreadState, Rows
<1>3. file \in Content /\ <<>> \in Seq(Object)
  BY <1>2, SchemaAssumption DEF Init, Content
<1>4. ConnectionTypeOK
  BY <1>1, <1>2, <1>3 DEF Init, ConnectionTypeOK, Content, Main
<1>5. WholeMigrationOrNone
  BY <1>1 DEF WholeMigrationOrNone
<1>6. ASSUME NEW p \in Process
      PROVE  ProcessInv(p)
  <2>1. /\ main[p] = "configure" /\ lock # p
        /\ \A k \in Transaction : thread[p][k].pc = "idle" /\ thread[p][k].next = 1
    BY <1>1, ConnectionAssumption DEF Init, Idle
  <2>2. Locks(p) /\ Schemas(p) /\ RowsOf(p)
    BY <2>1 DEF Locks, Schemas, RowsOf, InTransaction, InSchema, Transaction
  <2>3. WholeRow(file.rows[p])
    BY <1>1 DEF WholeRow, Table
  <2>. QED
    BY <2>2, <2>3 DEF ProcessInv
<1>. QED
  BY <1>4, <1>5, <1>6 DEF ConnectionInv

(* Every step of every process keeps the invariant. *)
LEMMA NextKeeps == ConnectionInv /\ [Next]_vars => ConnectionInv'
<1> SUFFICES ASSUME ConnectionInv, [Next]_vars PROVE ConnectionInv'
  OBVIOUS
<1>1. CASE UNCHANGED vars
  BY <1>1 DEF vars, ConnectionInv, ConnectionTypeOK, WholeMigrationOrNone, ProcessInv, Locks,
     Schemas, Migrating, RowsOf, Written, WholeRow, InTransaction
<1>2. ASSUME NEW p \in Process, OpenStep(p) \/ OpenFails(p)
      PROVE  ConnectionInv'
  BY <1>2, ConfigureKeeps, BeginExclusiveKeeps, EnsureSchemaKeeps, CreateObjectKeeps,
     SetVersionKeeps, CommitSchemaKeeps, OpenFailsKeeps DEF OpenStep
<1>3. ASSUME NEW p \in Process,
             MainStep(p) \/ CancelAuthorize(p) \/ CancelRenew(p) \/ Crash(p)
      PROVE  ConnectionInv'
  BY <1>3, AuthorizedKeeps, ReportKeeps, PropagateKeeps, CloseKeeps, CancelAuthorizeKeeps,
     CancelRenewKeeps, CrashKeeps DEF MainStep
<1>4. ASSUME NEW p \in Process, NEW k \in Transaction,
             ThreadStep(p, k) \/ StatementFails(p, k) \/ CheckFails(p, k)
      PROVE  ConnectionInv'
  BY <1>4, ThreadStepKeeps, StatementFailsKeeps, CheckFailsKeeps
<1>. QED
  BY <1>1, <1>2, <1>3, <1>4 DEF Next

(* The inductive invariant: who holds the lock, what a migration has made so *)
(* far and what a transaction has written so far, of every process.          *)
THEOREM ConnectionInvariant == Spec => []ConnectionInv
BY InitHolds, NextKeeps, PTL DEF Spec

(* Every variable of connections, threads and file keeps its type.           *)
THEOREM ConnectionTyped == Spec => []ConnectionTypeOK
<1>1. ConnectionInv => ConnectionTypeOK
  BY DEF ConnectionInv
<1>. QED
  BY <1>1, ConnectionInvariant, PTL

(* ensure_schema and open_connection: the file has the schema it had, or all *)
(* of version 2, for any number of processes that open, fail and die.        *)
THEOREM MigrationIsWhole == Spec => []WholeMigrationOrNone
<1>1. ConnectionInv => WholeMigrationOrNone
  BY DEF ConnectionInv
<1>. QED
  BY <1>1, ConnectionInvariant, PTL

(* open_connection returns only on an unaltered version 2, and nobody        *)
(* changes it afterwards.                                                    *)
THEOREM ReadyIsMigrated == Spec => []ReadyMeansMigrated
<1>1. ConnectionInv => ReadyMeansMigrated
  BY DEF ConnectionInv, ProcessInv, Schemas, ReadyMeansMigrated
<1>. QED
  BY <1>1, ConnectionInvariant, PTL

(* _begin_immediate, COMMIT and ROLLBACK of transactions.py: job, attempt    *)
(* and observation are written together, whatever thread was cancelled,      *)
(* failed or left the connection in its transaction.                         *)
THEOREM TransactionsStayWhole == Spec => []TransactionsAreWhole
<1>1. ConnectionInv => TransactionsAreWhole
  BY DEF ConnectionInv, ProcessInv, WholeRow, TransactionsAreWhole
<1>. QED
  BY <1>1, ConnectionInvariant, PTL


=============================================================================
