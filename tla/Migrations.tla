------------------------------ MODULE Migrations ------------------------------
(***************************************************************************)
(* Schema migration at deployment: several runs of chatbot-migrate         *)
(* (storage/migrations.py), of the same release or of different ones,      *)
(* against one PostgreSQL database.                                        *)
(*                                                                         *)
(* A statement is one step.  Between them other runners go on, and a       *)
(* runner may die or lose its connection: the database then rolls its      *)
(* transaction back and gives its advisory lock up.                        *)
(***************************************************************************)
EXTENDS Naturals, Sequences, Functions

CONSTANTS
    Runners,   \* processes that run apply_migrations
    Files,     \* for each runner, discover_migrations() of its release
    MaxRuns,   \* bound: how often a runner is started
    None

(* discover_migrations() sorts the files, and a release keeps the numbers  *)
(* of those before it; the contents of a file may have changed.            *)
ASSUME FilesAssumption ==
    \A r \in Runners : \A i \in DOMAIN Files[r] : Files[r][i].version = i
ASSUME FilesShape ==
    Files \in [Runners -> Seq([version : Nat, checksum : STRING])]
ASSUME RunsAssumption == MaxRuns \in Nat \ {0} /\ None \notin Runners

VARIABLES
    table,     \* whether chatbot_schema_migrations exists
    schema,    \* the migrations executed and committed, in order
    records,   \* rows of chatbot_schema_migrations
    lock,      \* who holds pg_advisory_xact_lock(MIGRATION_LOCK_ID), or None
    pc,        \* where each runner is
    applied,   \* the rows it read
    index,     \* the file it looks at
    work,      \* migrations executed in its transaction
    noted,     \* rows inserted in its transaction
    runs       \* how often it was started

db == <<table, schema, records>>
runner == <<pc, applied, index, work, noted>>
vars == <<db, lock, runner, runs>>

InTransaction == {"read", "files", "record"}
Running == InTransaction \cup {"create", "creating", "lock"}
Ended == {"done", "failed"}

Init ==
    /\ table = FALSE /\ schema = <<>> /\ records = {}
    /\ lock = None
    /\ pc = [r \in Runners |-> "idle"]
    /\ applied = [r \in Runners |-> {}]
    /\ index = [r \in Runners |-> 1]
    /\ work = [r \in Runners |-> <<>>]
    /\ noted = [r \in Runners |-> {}]
    /\ runs = [r \in Runners |-> 0]

Goto(r, place) == pc' = [pc EXCEPT ![r] = place]

Start(r) ==
    /\ pc[r] \notin Running /\ runs[r] < MaxRuns
    /\ runs' = [runs EXCEPT ![r] = @ + 1]
    /\ applied' = [applied EXCEPT ![r] = {}]
    /\ index' = [index EXCEPT ![r] = 1]
    /\ work' = [work EXCEPT ![r] = <<>>]
    /\ noted' = [noted EXCEPT ![r] = {}]
    /\ Goto(r, "create")
    /\ UNCHANGED <<db, lock>>

(* CREATE TABLE IF NOT EXISTS runs before the lock is taken: it looks, and *)
(* creates; if another runner created the table meanwhile, the catalog's   *)
(* unique index makes it raise.                                            *)
LookForTable(r) ==
    /\ pc[r] = "create"
    /\ Goto(r, IF table THEN "lock" ELSE "creating")
    /\ UNCHANGED <<db, lock, applied, index, work, noted, runs>>

CreateTable(r) ==
    /\ pc[r] = "creating"
    /\ table' = TRUE
    /\ Goto(r, IF table THEN "failed" ELSE "lock")
    /\ UNCHANGED <<schema, records, lock, applied, index, work, noted, runs>>

(* Mutant: the lock is a try-lock whose answer is ignored.                 *)
LockAnyway(r) ==
    /\ pc[r] = "lock"
    /\ lock' = r
    /\ Goto(r, "read")
    /\ UNCHANGED <<db, applied, index, work, noted, runs>>

Lock(r) ==
    /\ pc[r] = "lock" /\ lock = None
    /\ lock' = r
    /\ Goto(r, "read")
    /\ UNCHANGED <<db, applied, index, work, noted, runs>>

ReadRecords(r) ==
    /\ pc[r] = "read"
    /\ applied' = [applied EXCEPT ![r] = records]
    /\ Goto(r, "files")
    /\ UNCHANGED <<db, lock, index, work, noted, runs>>

-----------------------------------------------------------------------------
File(r) == Files[r][index[r]]
HasFile(r) == index[r] \in DOMAIN Files[r]
IsRecorded(r) == \E row \in applied[r] : row.version = File(r).version

(* Applied with the same checksum: nothing to do.                          *)
Skip(r) ==
    /\ pc[r] = "files" /\ HasFile(r) /\ File(r) \in applied[r]
    /\ index' = [index EXCEPT ![r] = @ + 1]
    /\ UNCHANGED <<db, lock, pc, applied, work, noted, runs>>

(* Mutant: the exception leaves the lock held.                             *)
RollbackHolding(r) ==
    /\ Goto(r, "failed")
    /\ UNCHANGED <<db, lock, applied, index, work, noted, runs>>

(* The transaction ends without effect, and its lock with it.              *)
Rollback(r) ==
    /\ lock' = IF lock = r THEN None ELSE lock
    /\ Goto(r, "failed")
    /\ UNCHANGED <<db, applied, index, work, noted, runs>>

(* Mutant: a changed file counts as applied.                               *)
SkipChanged(r) ==
    /\ pc[r] = "files" /\ HasFile(r)
    /\ File(r) \notin applied[r] /\ IsRecorded(r)
    /\ index' = [index EXCEPT ![r] = @ + 1]
    /\ UNCHANGED <<db, lock, pc, applied, work, noted, runs>>

(* A file that changed after it was applied: MigrationError.               *)
RefuseChanged(r) ==
    /\ pc[r] = "files" /\ HasFile(r)
    /\ File(r) \notin applied[r] /\ IsRecorded(r)
    /\ Rollback(r)

Execute(r) ==
    /\ pc[r] = "files" /\ HasFile(r) /\ ~IsRecorded(r)
    /\ work' = [work EXCEPT ![r] = Append(@, File(r))]
    /\ Goto(r, "record")
    /\ UNCHANGED <<db, lock, applied, index, noted, runs>>

Record(r) ==
    /\ pc[r] = "record"
    /\ noted' = [noted EXCEPT ![r] = @ \cup {File(r)}]
    /\ index' = [index EXCEPT ![r] = @ + 1]
    /\ Goto(r, "files")
    /\ UNCHANGED <<db, lock, applied, work, runs>>

(* Mutant: the rows are committed without the work.                        *)
CommitRecords(r) ==
    /\ pc[r] = "files" /\ ~HasFile(r)
    /\ records' = records \cup noted[r]
    /\ lock' = None
    /\ Goto(r, "done")
    /\ UNCHANGED <<table, schema, applied, index, work, noted, runs>>

(* COMMIT; its reply may be lost, and the runner then reports a failure.   *)
Commit(r) ==
    /\ pc[r] = "files" /\ ~HasFile(r)
    /\ schema' = schema \o work[r]
    /\ records' = records \cup noted[r]
    /\ lock' = None
    /\ Goto(r, "done") \/ Goto(r, "failed")
    /\ UNCHANGED <<table, applied, index, work, noted, runs>>

(* The process dies, the connection breaks, or a statement raises.         *)
Fail(r) == pc[r] \in Running /\ Rollback(r)

Work(r) ==
    \/ LookForTable(r) \/ CreateTable(r) \/ Lock(r) \/ ReadRecords(r)
    \/ Skip(r) \/ RefuseChanged(r) \/ Execute(r) \/ Record(r) \/ Commit(r)

Next == \E r \in Runners : Start(r) \/ Work(r) \/ Fail(r)

Spec == Init /\ [][Next]_vars

(* Statements return or raise, and the database grants a free lock to one  *)
(* that waits for it.                                                      *)
FairSpec == Spec /\ \A r \in Runners : WF_vars(Work(r))

-----------------------------------------------------------------------------
(* The lock is held exactly by the runner inside the transaction.          *)
TypeOK ==
    /\ table \in BOOLEAN
    /\ pc \in [Runners -> Running \cup Ended \cup {"idle"}]
    /\ index \in [Runners -> Nat \ {0}]
    /\ runs \in [Runners -> 0..MaxRuns]
    /\ lock \in Runners \cup {None}
    /\ \A r \in Runners : (pc[r] \in InTransaction) = (lock = r)

(* What the table says was applied is what was applied, and every version  *)
(* once: a runner that dies between a migration and its row leaves neither.*)
RecordsMatchSchema ==
    /\ records = Range(schema)
    /\ \A i, j \in DOMAIN schema : schema[i].version = schema[j].version => i = j

(* A run that reports success left the database with every file of its     *)
(* release, as the release has it, whoever ran before or beside it.        *)
DoneMeansApplied ==
    \A r \in Runners : pc[r] = "done" => Range(Files[r]) \subseteq Range(schema)

(* The database moves from release to release and never back or aside.     *)
Ledger == INSTANCE SchemaLedger WITH Releases <- Range(Files)
ImplementsLedger == Ledger!Spec

(* Every run ends: the lock of one that failed does not stop the others.   *)
RunsEnd == \A r \in Runners : pc[r] \in Running ~> pc[r] \in Ended

=============================================================================
