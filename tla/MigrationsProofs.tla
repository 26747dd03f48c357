--------------------------- MODULE MigrationsProofs ---------------------------
(***************************************************************************)
(* Theorems about Migrations, for any number of runners, any releases that *)
(* number their files in order, and failures at any step.                  *)
(***************************************************************************)
EXTENDS Migrations, TLAPS

Migration == [version : Nat, checksum : STRING]

(* What a runner carries.                                                  *)
CarryInv ==
    /\ schema \in Seq(Migration)
    /\ pc \in [Runners -> Running \cup Ended \cup {"idle"}]
    /\ applied \in [Runners -> SUBSET Migration]
    /\ index \in [Runners -> Nat \ {0}]
    /\ work \in [Runners -> Seq(Migration)]
    /\ noted \in [Runners -> SUBSET Migration]

(* The schema is the first migrations of a sequence numbered like every    *)
(* release, and its table says so.                                         *)
SchemaInv ==
    /\ \A i \in DOMAIN schema : schema[i].version = i
    /\ records = Range(schema)

(* Until it reads the rows a runner has done nothing.                      *)
Fresh(r) ==
    pc[r] \in {"create", "creating", "lock", "read"} =>
        index[r] = 1 /\ work[r] = <<>> /\ noted[r] = {}

(* How many files its loop has dealt with, a file executed included.       *)
Dealt(r) == IF pc[r] = "record" THEN index[r] ELSE index[r] - 1

(* A runner in its loop knows the table as it is: the files up to the      *)
(* schema's length are the schema's, those after it are its work.          *)
LoopInv(r) ==
    pc[r] \in {"files", "record"} =>
        /\ applied[r] = records
        /\ index[r] <= Len(Files[r]) + 1
        /\ \A i \in 1..Len(Files[r]) :
              i < index[r] /\ i <= Len(schema) => Files[r][i] = schema[i]
        /\ Len(work[r]) = IF Dealt(r) > Len(schema) THEN Dealt(r) - Len(schema) ELSE 0
        /\ \A k \in 1..Len(work[r]) : work[r][k] = Files[r][Len(schema) + k]
        /\ noted[r] = {Files[r][j] : j \in (Len(schema) + 1)..(index[r] - 1)}
        /\ pc[r] = "record" => index[r] > Len(schema) /\ index[r] <= Len(Files[r])

IInv ==
    /\ TypeOK /\ CarryInv /\ SchemaInv /\ DoneMeansApplied
    /\ \A r \in Runners : Fresh(r) /\ LoopInv(r)

-----------------------------------------------------------------------------
(* A release is a sequence of migrations numbered from one.                *)
LEMMA FilesType ==
    ASSUME NEW r \in Runners
    PROVE  /\ Files[r] \in Seq(Migration)
           /\ DOMAIN Files[r] = 1..Len(Files[r]) /\ Len(Files[r]) \in Nat
           /\ \A i \in 1..Len(Files[r]) :
                 Files[r][i] \in Migration /\ Files[r][i].version = i
<1>1. Files[r] \in Seq(Migration)
  BY FilesShape DEF Migration
<1>2. DOMAIN Files[r] = 1..Len(Files[r]) /\ Len(Files[r]) \in Nat
  BY <1>1
<1> QED
  BY <1>1, <1>2, FilesAssumption

(* The rows are those of the schema: a version is recorded exactly if the  *)
(* schema reaches it, and then with the schema's checksum.                 *)
LEMMA RecordedVersions ==
    ASSUME SchemaInv, schema \in Seq(Migration), NEW m \in Migration, m.version # 0
    PROVE  /\ (\E row \in records : row.version = m.version)
                <=> m.version <= Len(schema)
           /\ m \in records <=> m.version <= Len(schema) /\ m = schema[m.version]
<1>1. DOMAIN schema = 1..Len(schema) /\ Len(schema) \in Nat
  OBVIOUS
<1>2. m.version \in Nat
  BY DEF Migration
<1>3. records = {schema[i] : i \in 1..Len(schema)}
  BY <1>1 DEF SchemaInv, Range
<1>4. \A i \in 1..Len(schema) : schema[i].version = i
  BY <1>1 DEF SchemaInv
<1>5. m.version <= Len(schema) => schema[m.version] \in records
                                  /\ schema[m.version].version = m.version
  BY <1>2, <1>3, <1>4, m.version # 0
<1>6. ASSUME NEW row \in records
      PROVE  row.version <= Len(schema) /\ row = schema[row.version]
  BY <1>3, <1>4
<1> QED
  BY <1>5, <1>6

(* Everything of the other runners stays.                                  *)
Others(r) ==
    \A q \in Runners \ {r} :
        /\ pc'[q] = pc[q] /\ applied'[q] = applied[q] /\ index'[q] = index[q]
        /\ work'[q] = work[q] /\ noted'[q] = noted[q]

(* A step of r that leaves the database alone has to be looked at only     *)
(* for r.                                                                  *)
LEMMA LocalStep ==
    ASSUME IInv, NEW r \in Runners, Others(r), schema' = schema, records' = records,
           TypeOK', CarryInv', Fresh(r)', LoopInv(r)', pc'[r] # "done"
    PROVE  IInv'
<1>1. SchemaInv'
  BY DEF IInv, SchemaInv
<1>2. DoneMeansApplied'
  BY DEF IInv, DoneMeansApplied, Others
<1>3. ASSUME NEW q \in Runners \ {r} PROVE Fresh(q)' /\ LoopInv(q)'
  <2>1. Fresh(q) /\ LoopInv(q)
    BY DEF IInv
  <2>2. /\ pc'[q] = pc[q] /\ applied'[q] = applied[q] /\ index'[q] = index[q]
        /\ work'[q] = work[q] /\ noted'[q] = noted[q]
    BY DEF Others
  <2>3. Dealt(q)' = Dealt(q)
    BY <2>2 DEF Dealt
  <2> QED
    BY <2>1, <2>2, <2>3 DEF Fresh, LoopInv
<1> QED
  BY <1>1, <1>2, <1>3 DEF IInv

-----------------------------------------------------------------------------
(* Initially nothing was executed and nobody runs.                         *)
LEMMA InitInv == Init => IInv
<1> SUFFICES ASSUME Init PROVE IInv
  OBVIOUS
<1>1. TypeOK
  <2>1. \A r \in Runners : pc[r] \notin InTransaction /\ lock # r
    BY RunsAssumption DEF Init, InTransaction
  <2>2. \A r \in Runners : (pc[r] \in InTransaction) = (lock = r)
    BY <2>1
  <2>3. pc \in [Runners -> Running \cup Ended \cup {"idle"}]
    BY DEF Init
  <2>4. runs \in [Runners -> 0..MaxRuns]
    BY RunsAssumption DEF Init
  <2>5. index \in [Runners -> Nat \ {0}]
    BY DEF Init
  <2>6. table \in BOOLEAN /\ lock \in Runners \cup {None}
    BY DEF Init
  <2> QED
    BY <2>2, <2>3, <2>4, <2>5, <2>6 DEF TypeOK
<1>. <<>> \in Seq(Migration)
  OBVIOUS
<1>. pc \in [Runners -> Running \cup Ended \cup {"idle"}]
  BY <1>1 DEF TypeOK
<1>2. CarryInv
  BY DEF Init, CarryInv
<1>3. SchemaInv
  BY DEF Init, SchemaInv, Range
<1>4. DoneMeansApplied /\ \A r \in Runners : Fresh(r) /\ LoopInv(r)
  BY DEF Init, DoneMeansApplied, Fresh, LoopInv
<1> QED
  BY <1>1, <1>2, <1>3, <1>4 DEF IInv

(* Only r moves, and only between these places.                            *)
LEMMA GotoType ==
    ASSUME TypeOK, NEW r \in Runners, NEW place, Goto(r, place),
           place \in Running \cup Ended \cup {"idle"}
    PROVE  /\ pc' \in [Runners -> Running \cup Ended \cup {"idle"}]
           /\ pc'[r] = place
           /\ \A q \in Runners \ {r} : pc'[q] = pc[q]
  BY DEF TypeOK, Goto

(* A start forgets what the run before it did.                             *)
LEMMA StartInv ==
    ASSUME IInv, NEW r \in Runners, Start(r)
    PROVE  IInv'
<1>0. TypeOK /\ CarryInv
  BY DEF IInv
<1>1. /\ pc' \in [Runners -> Running \cup Ended \cup {"idle"}]
      /\ pc'[r] = "create" /\ \A q \in Runners \ {r} : pc'[q] = pc[q]
  BY <1>0, GotoType DEF Start, Running, InTransaction
<1>2. TypeOK' /\ CarryInv'
  <2>1. runs' \in [Runners -> 0..MaxRuns]
    BY <1>0, RunsAssumption DEF TypeOK, Start
  <2>2. pc[r] \notin InTransaction /\ pc'[r] \notin InTransaction
    BY <1>1 DEF Start, Running, InTransaction
  <2>3. TypeOK'
    <3>1. /\ table' = table /\ lock' = lock
          /\ index' \in [Runners -> Nat \ {0}]
      BY <1>0 DEF Start, db, CarryInv
    <3>2. ASSUME NEW q \in Runners
          PROVE  (pc'[q] \in InTransaction) = (lock' = q)
      BY <1>0, <1>1, <2>2, <3>1 DEF TypeOK
    <3> QED
      BY <1>0, <1>1, <2>1, <3>1, <3>2 DEF TypeOK
  <2>4. CarryInv'
    BY <1>0, <1>1, <<>> \in Seq(Migration) DEF CarryInv, Start, db
  <2> QED
    BY <2>3, <2>4
<1>3. Others(r) /\ Fresh(r)' /\ LoopInv(r)'
  BY <1>0, <1>1 DEF Others, Fresh, LoopInv, Start, CarryInv
<1> QED
  BY <1>1, <1>2, <1>3, LocalStep DEF Start, db

(* Looking for the table, creating it, locking and reading.                *)
LEMMA PrepareInv ==
    ASSUME IInv, NEW r \in Runners,
           LookForTable(r) \/ CreateTable(r) \/ Lock(r) \/ ReadRecords(r)
    PROVE  IInv'
<1>0. TypeOK /\ CarryInv /\ Fresh(r) /\ SchemaInv
  BY DEF IInv
<1>1. PICK place \in {"lock", "creating", "failed", "read", "files"} :
         /\ Goto(r, place)
         /\ place \in {"lock", "creating"} => LookForTable(r) \/ CreateTable(r)
         /\ place = "failed" => CreateTable(r)
         /\ place = "read" => Lock(r)
         /\ place = "files" => ReadRecords(r)
  BY DEF LookForTable, CreateTable, Lock, ReadRecords
<1>2. /\ pc' \in [Runners -> Running \cup Ended \cup {"idle"}]
      /\ pc'[r] = place /\ \A q \in Runners \ {r} : pc'[q] = pc[q]
  BY <1>0, <1>1, GotoType DEF Running, InTransaction, Ended
<1>3. /\ schema' = schema /\ records' = records /\ index' = index
      /\ work' = work /\ noted' = noted /\ runs' = runs
      /\ applied' = applied \/ applied' = [applied EXCEPT ![r] = records]
      /\ table' \in BOOLEAN
      /\ pc[r] \in {"create", "creating", "lock", "read"}
      /\ place = "files" => applied' = [applied EXCEPT ![r] = records]
  BY <1>0, <1>1 DEF LookForTable, CreateTable, Lock, ReadRecords, db, TypeOK
<1>4. TypeOK'
  <2>1. CASE Lock(r)
    BY <1>0, <1>2, <1>3, <2>1, RunsAssumption, pc'[r] = "read"
       DEF TypeOK, Lock, Goto, InTransaction
  <2>2. CASE LookForTable(r) \/ CreateTable(r)
    <3>1. lock' = lock /\ pc[r] \notin InTransaction /\ pc'[r] \notin InTransaction
      BY <1>0, <2>2, <1>2 DEF LookForTable, CreateTable, InTransaction, Goto, TypeOK
    <3> QED
      BY <1>0, <1>2, <1>3, <3>1 DEF TypeOK
  <2>3. CASE ReadRecords(r)
    <3>1. lock' = lock /\ pc[r] \in InTransaction /\ pc'[r] \in InTransaction
      BY <1>0, <2>3, <1>2 DEF ReadRecords, InTransaction, Goto, TypeOK
    <3> QED
      BY <1>0, <1>2, <1>3, <3>1 DEF TypeOK
  <2> QED
    BY <2>1, <2>2, <2>3
<1>5. records \in SUBSET Migration
  BY <1>0 DEF SchemaInv, CarryInv, Range
<1>6. CarryInv'
  BY <1>0, <1>2, <1>3, <1>5 DEF CarryInv
<1>7. Others(r)
  BY <1>2, <1>3, <1>0 DEF Others, CarryInv
<1>8. index[r] = 1 /\ work[r] = <<>> /\ noted[r] = {}
  BY <1>0, <1>3 DEF Fresh
<1>9. Fresh(r)'
  BY <1>3, <1>8 DEF Fresh
<1>10. LoopInv(r)'
  <2> SUFFICES ASSUME place = "files" PROVE LoopInv(r)'
    BY <1>2 DEF LoopInv
  <2>1. applied'[r] = records'
    BY <1>0, <1>3 DEF CarryInv
  <2>2. Dealt(r)' = 0 /\ Len(work'[r]) = 0 /\ index'[r] = 1 /\ noted'[r] = {}
    BY <1>2, <1>3, <1>8 DEF Dealt
  <2>3. Len(schema') \in Nat /\ Len(Files[r]) \in Nat
    BY <1>6, FilesType DEF CarryInv
  <2> QED
    BY <1>2, <2>1, <2>2, <2>3 DEF LoopInv
<1> QED
  BY <1>2, <1>3, <1>4, <1>6, <1>7, <1>9, <1>10, LocalStep

(* A transaction that ends without effect leaves everything to the others. *)
LEMMA RollbackInv ==
    ASSUME IInv, NEW r \in Runners, pc[r] \in Running, Rollback(r)
    PROVE  IInv'
<1>0. TypeOK /\ CarryInv
  BY DEF IInv
<1>1. /\ pc' \in [Runners -> Running \cup Ended \cup {"idle"}]
      /\ pc'[r] = "failed" /\ \A q \in Runners \ {r} : pc'[q] = pc[q]
  BY <1>0, GotoType DEF Rollback, Ended
<1>2. lock' \in Runners \cup {None} /\ lock' # r
      /\ \A q \in Runners \ {r} : (lock' = q) = (lock = q)
  BY <1>0, RunsAssumption DEF TypeOK, Rollback
<1>3. TypeOK'
  <2>1. ASSUME NEW q \in Runners
        PROVE  (pc'[q] \in InTransaction) = (lock' = q)
    BY <1>0, <1>1, <1>2 DEF TypeOK, InTransaction
  <2> QED
    BY <1>0, <1>1, <1>2, <2>1 DEF TypeOK, Rollback, db
<1>4. CarryInv' /\ Others(r)
  BY <1>0, <1>1 DEF CarryInv, Others, Rollback, db
<1>5. Fresh(r)' /\ LoopInv(r)'
  BY <1>1 DEF Fresh, LoopInv
<1> QED
  BY <1>1, <1>3, <1>4, <1>5, LocalStep DEF Rollback, db

(* What a runner in its loop knows of the file it looks at.                *)
LEMMA FileFacts ==
    ASSUME IInv, NEW r \in Runners, pc[r] \in {"files", "record"}, HasFile(r)
    PROVE  /\ index[r] \in 1..Len(Files[r]) /\ Len(schema) \in Nat
           /\ Len(Files[r]) \in Nat
           /\ File(r) = Files[r][index[r]] /\ File(r) \in Migration
           /\ IsRecorded(r) <=> index[r] <= Len(schema)
           /\ File(r) \in applied[r] <=>
                 index[r] <= Len(schema) /\ File(r) = schema[index[r]]
<1>1. schema \in Seq(Migration) /\ SchemaInv /\ applied[r] = records
  BY DEF IInv, CarryInv, LoopInv
<1>2. index[r] \in 1..Len(Files[r]) /\ Len(Files[r]) \in Nat
  BY FilesType DEF HasFile
<1>3. File(r) \in Migration /\ File(r).version = index[r]
  BY <1>2, FilesType DEF File
<1>4. index[r] # 0
  BY <1>2
<1>5. /\ (\E row \in records : row.version = File(r).version)
            <=> index[r] <= Len(schema)
      /\ File(r) \in records <=>
            index[r] <= Len(schema) /\ File(r) = schema[index[r]]
  BY <1>1, <1>3, <1>4, RecordedVersions
<1> QED
  BY <1>1, <1>2, <1>3, <1>5 DEF File, IsRecorded

(* A file that is applied already is passed over.                          *)
LEMMA SkipInv ==
    ASSUME IInv, NEW r \in Runners, Skip(r)
    PROVE  IInv'
<1>0. TypeOK /\ CarryInv /\ LoopInv(r) /\ pc[r] = "files"
  BY DEF IInv, Skip
<1>1. /\ index[r] \in 1..Len(Files[r]) /\ Len(schema) \in Nat
      /\ Len(Files[r]) \in Nat
      /\ index[r] <= Len(schema) /\ Files[r][index[r]] = schema[index[r]]
  BY <1>0, FileFacts DEF Skip
<1>2. /\ index' = [index EXCEPT ![r] = index[r] + 1]
      /\ schema' = schema /\ records' = records /\ pc' = pc
      /\ applied' = applied /\ work' = work /\ noted' = noted
      /\ table' = table /\ lock' = lock /\ runs' = runs
  BY DEF Skip, db
<1>3. index' \in [Runners -> Nat \ {0}] /\ index'[r] = index[r] + 1
  BY <1>0, <1>2 DEF CarryInv
<1>4. TypeOK' /\ CarryInv' /\ Others(r)
  BY <1>0, <1>2, <1>3 DEF TypeOK, CarryInv, Others
<1>5. Fresh(r)'
  BY <1>0, <1>2 DEF Fresh
<1>6. Dealt(r) = index[r] - 1 /\ Dealt(r)' = index[r]
  BY <1>0, <1>1, <1>2, <1>3 DEF Dealt
<1>7. LoopInv(r)'
  <2>1. Len(work[r]) = 0 /\ noted[r] = {}
    BY <1>0, <1>1, <1>6 DEF LoopInv
  <2>2. \A i \in 1..Len(Files[r]) :
           i < index[r] + 1 /\ i <= Len(schema) => Files[r][i] = schema[i]
    BY <1>0, <1>1 DEF LoopInv
  <2>3. (Len(schema) + 1)..(index[r] + 1 - 1) = {}
    BY <1>1
  <2> QED
    BY <1>0, <1>1, <1>2, <1>3, <1>6, <2>1, <2>2, <2>3 DEF LoopInv
<1> QED
  BY <1>0, <1>2, <1>4, <1>5, <1>7, LocalStep

(* A file no row names is executed: it belongs after the schema and after  *)
(* the work done.                                                          *)
LEMMA ExecuteInv ==
    ASSUME IInv, NEW r \in Runners, Execute(r)
    PROVE  IInv'
<1>0. TypeOK /\ CarryInv /\ LoopInv(r) /\ pc[r] = "files"
  BY DEF IInv, Execute
<1>1. /\ index[r] \in 1..Len(Files[r]) /\ Len(schema) \in Nat
      /\ Len(Files[r]) \in Nat
      /\ index[r] > Len(schema) /\ File(r) = Files[r][index[r]]
      /\ File(r) \in Migration
  BY <1>0, FileFacts DEF Execute
<1>2. /\ work' = [work EXCEPT ![r] = Append(work[r], File(r))]
      /\ schema' = schema /\ records' = records
      /\ applied' = applied /\ index' = index /\ noted' = noted
      /\ table' = table /\ lock' = lock /\ runs' = runs
  BY DEF Execute, db
<1>3. /\ pc' \in [Runners -> Running \cup Ended \cup {"idle"}]
      /\ pc'[r] = "record" /\ \A q \in Runners \ {r} : pc'[q] = pc[q]
  BY <1>0, GotoType DEF Execute, Running, InTransaction
<1>4. work[r] \in Seq(Migration) /\ work'[r] = Append(work[r], File(r))
      /\ work' \in [Runners -> Seq(Migration)]
  BY <1>0, <1>1, <1>2 DEF CarryInv
<1>5. TypeOK'
  <2>1. ASSUME NEW q \in Runners
        PROVE  (pc'[q] \in InTransaction) = (lock' = q)
    BY <1>0, <1>2, <1>3 DEF TypeOK, InTransaction
  <2> QED
    BY <1>0, <1>2, <1>3, <2>1 DEF TypeOK
<1>6. CarryInv' /\ Others(r)
  BY <1>0, <1>2, <1>3, <1>4 DEF CarryInv, Others
<1>7. Fresh(r)'
  BY <1>3 DEF Fresh
<1>8. Dealt(r) = index[r] - 1 /\ Dealt(r)' = index[r]
  BY <1>0, <1>2, <1>3 DEF Dealt
<1>9. LoopInv(r)'
  <2>1. Len(work[r]) = index[r] - 1 - Len(schema)
    BY <1>0, <1>1, <1>8 DEF LoopInv
  <2>2. Len(work'[r]) = index[r] - Len(schema)
    BY <1>1, <1>4, <2>1
  <2>3. ASSUME NEW k \in 1..Len(work'[r])
        PROVE  work'[r][k] = Files[r][Len(schema) + k]
    <3>1. CASE k = Len(work'[r])
      BY <1>1, <1>4, <2>1, <2>2, <3>1
    <3>2. CASE k # Len(work'[r])
      <4>1. k \in 1..Len(work[r])
        BY <1>1, <2>1, <2>2, <3>2
      <4> QED
        BY <1>0, <1>4, <4>1 DEF LoopInv
    <3> QED
      BY <3>1, <3>2
  <2> QED
    BY <1>0, <1>1, <1>2, <1>3, <1>8, <2>2, <2>3 DEF LoopInv
<1> QED
  BY <1>2, <1>3, <1>5, <1>6, <1>7, <1>9, LocalStep

(* Its row follows.                                                        *)
LEMMA RecordInv ==
    ASSUME IInv, NEW r \in Runners, Record(r)
    PROVE  IInv'
<1>0. TypeOK /\ CarryInv /\ LoopInv(r) /\ pc[r] = "record"
  BY DEF IInv, Record
<1>1. /\ index[r] \in 1..Len(Files[r]) /\ Len(schema) \in Nat
      /\ Len(Files[r]) \in Nat /\ index[r] > Len(schema)
      /\ File(r) = Files[r][index[r]] /\ File(r) \in Migration
  <2>1. index[r] \in 1..Len(Files[r])
    BY <1>0, FilesType DEF LoopInv, CarryInv
  <2>2. HasFile(r)
    BY <2>1, FilesType DEF HasFile
  <2> QED
    BY <1>0, <2>1, <2>2, FileFacts DEF LoopInv
<1>2. /\ noted' = [noted EXCEPT ![r] = noted[r] \cup {File(r)}]
      /\ index' = [index EXCEPT ![r] = index[r] + 1]
      /\ schema' = schema /\ records' = records
      /\ applied' = applied /\ work' = work
      /\ table' = table /\ lock' = lock /\ runs' = runs
  BY DEF Record, db
<1>3. /\ pc' \in [Runners -> Running \cup Ended \cup {"idle"}]
      /\ pc'[r] = "files" /\ \A q \in Runners \ {r} : pc'[q] = pc[q]
  BY <1>0, GotoType DEF Record, Running, InTransaction
<1>4. /\ index' \in [Runners -> Nat \ {0}] /\ index'[r] = index[r] + 1
      /\ noted'[r] = noted[r] \cup {File(r)}
      /\ noted' \in [Runners -> SUBSET Migration]
  BY <1>0, <1>1, <1>2 DEF CarryInv
<1>5. TypeOK'
  <2>1. ASSUME NEW q \in Runners
        PROVE  (pc'[q] \in InTransaction) = (lock' = q)
    BY <1>0, <1>2, <1>3 DEF TypeOK, InTransaction
  <2> QED
    BY <1>0, <1>2, <1>3, <1>4, <2>1 DEF TypeOK
<1>6. CarryInv' /\ Others(r)
  BY <1>0, <1>2, <1>3, <1>4 DEF CarryInv, Others
<1>7. Fresh(r)'
  BY <1>3 DEF Fresh
<1>8. Dealt(r) = index[r] /\ Dealt(r)' = index[r]
  BY <1>0, <1>1, <1>3, <1>4 DEF Dealt
<1>9. LoopInv(r)'
  <2>1. noted'[r] = {Files[r][j] : j \in (Len(schema') + 1)..(index'[r] - 1)}
    <3>1. (Len(schema') + 1)..(index'[r] - 1)
            = ((Len(schema) + 1)..(index[r] - 1)) \cup {index[r]}
      BY <1>1, <1>2, <1>4
    <3>2. noted[r] = {Files[r][j] : j \in (Len(schema) + 1)..(index[r] - 1)}
      BY <1>0 DEF LoopInv
    <3> QED
      BY <1>1, <1>4, <3>1, <3>2
  <2>2. \A i \in 1..Len(Files[r]) :
           i < index'[r] /\ i <= Len(schema') => Files[r][i] = schema'[i]
    BY <1>0, <1>1, <1>2, <1>4 DEF LoopInv
  <2>3. applied'[r] = records' /\ index'[r] <= Len(Files[r]) + 1
    BY <1>0, <1>1, <1>2, <1>4 DEF LoopInv
  <2>4. /\ Len(work'[r]) = IF Dealt(r)' > Len(schema') THEN Dealt(r)' - Len(schema')
                                                        ELSE 0
        /\ \A k \in 1..Len(work'[r]) : work'[r][k] = Files[r][Len(schema') + k]
    BY <1>0, <1>2, <1>8 DEF LoopInv
  <2> QED
    BY <1>3, <2>1, <2>2, <2>3, <2>4 DEF LoopInv
<1> QED
  BY <1>2, <1>3, <1>5, <1>6, <1>7, <1>9, LocalStep

(* What a commit makes of the schema: itself, or the runner's release.     *)
LEMMA CommitEffect ==
    ASSUME IInv, NEW r \in Runners, Commit(r)
    PROVE  /\ schema' \in Seq(Migration) /\ SchemaInv'
           /\ Range(Files[r]) \subseteq Range(schema')
           /\ Range(schema) \subseteq Range(schema')
           /\ \/ schema' = schema
              \/ Ledger!Extends(Files[r]) /\ schema' = Files[r]
<1> DEFINE F == Files[r]
           n == Len(schema)
<1>0. CarryInv /\ SchemaInv /\ LoopInv(r) /\ pc[r] = "files"
  BY DEF IInv, Commit
<1>1. /\ F \in Seq(Migration) /\ DOMAIN F = 1..Len(F) /\ Len(F) \in Nat
      /\ \A i \in 1..Len(F) : F[i].version = i
  BY FilesType
<1>2. /\ schema \in Seq(Migration) /\ n \in Nat /\ DOMAIN schema = 1..n
      /\ work[r] \in Seq(Migration) /\ index[r] \in Nat
      /\ records = {schema[i] : i \in 1..n}
  <2>1. /\ schema \in Seq(Migration) /\ work[r] \in Seq(Migration)
        /\ index[r] \in Nat \ {0}
    BY <1>0 DEF CarryInv
  <2>2. n \in Nat /\ DOMAIN schema = 1..n
    BY <2>1
  <2>3. records = {schema[i] : i \in 1..n}
    BY <1>0, <2>2 DEF SchemaInv, Range
  <2> QED
    BY <2>1, <2>2, <2>3
<1>3. index[r] = Len(F) + 1
  <2>1. index[r] <= Len(F) + 1 /\ index[r] # 0
    BY <1>0 DEF LoopInv, CarryInv
  <2>2. index[r] \notin 1..Len(F)
    BY <1>1 DEF Commit, HasFile
  <2> QED
    BY <1>1, <1>2, <2>1, <2>2
<1>4. /\ \A i \in 1..Len(F) : i <= n => F[i] = schema[i]
      /\ Len(work[r]) = IF Len(F) > n THEN Len(F) - n ELSE 0
      /\ \A k \in 1..Len(work[r]) : work[r][k] = F[n + k]
  BY <1>0, <1>1, <1>3 DEF LoopInv, Dealt
<1>5. noted[r] = {F[j] : j \in (n + 1)..Len(F)}
  <2>1. (n + 1)..(index[r] - 1) = (n + 1)..Len(F)
    BY <1>1, <1>3
  <2>2. noted[r] = {F[j] : j \in (n + 1)..(index[r] - 1)}
    BY <1>0 DEF LoopInv
  <2> QED
    BY <2>1, <2>2
<1>6. schema' = schema \o work[r] /\ records' = records \cup noted[r]
  BY DEF Commit
<1>7. CASE Len(F) <= n
  <2>1. work[r] = <<>>
    BY <1>1, <1>2, <1>4, <1>7
  <2>2. schema' = schema
    BY <1>2, <1>6, <2>1
  <2>3. records' = records
    <3>1. (n + 1)..Len(F) = {}
      BY <1>1, <1>2, <1>7
    <3> QED
      BY <1>5, <1>6, <3>1
  <2>4. \A i \in 1..Len(F) : i \in 1..n /\ F[i] = schema[i]
    BY <1>1, <1>2, <1>4, <1>7
  <2>5. SchemaInv'
    BY <1>0, <2>2, <2>3 DEF SchemaInv
  <2>6. Range(Files[r]) \subseteq Range(schema')
    BY <1>1, <1>2, <2>2, <2>4 DEF Range
  <2>7. Range(schema) \subseteq Range(schema') /\ schema' \in Seq(Migration)
    BY <1>2, <2>2
  <2> QED
    BY <2>2, <2>5, <2>6, <2>7
<1>8. CASE Len(F) > n
  <2>1. Len(schema \o work[r]) = Len(F) /\ schema \o work[r] \in Seq(Migration)
    <3>1. Len(schema \o work[r]) = n + Len(work[r])
      BY <1>2
    <3>2. schema \o work[r] \in Seq(Migration)
      BY <1>2
    <3> QED
      BY <1>1, <1>2, <1>4, <1>8, <3>1, <3>2
  <2>2. ASSUME NEW i \in 1..Len(F)
        PROVE  (schema \o work[r])[i] = F[i]
    <3>1. CASE i <= n
      <4>1. (schema \o work[r])[i] = schema[i]
        BY <1>2, <3>1
      <4> QED
        BY <1>4, <3>1, <4>1
    <3>2. CASE i > n
      <4>1. i - n \in 1..Len(work[r]) /\ n + (i - n) = i
        BY <1>1, <1>2, <1>4, <1>8, <3>2
      <4>2. (schema \o work[r])[i] = work[r][i - n]
        BY <1>2, <3>2, <4>1, <2>1
      <4> QED
        BY <1>4, <4>1, <4>2
    <3>3. i <= n \/ i > n
      BY <1>2
    <3> QED
      BY <3>1, <3>2, <3>3
  <2>3. schema' = F
    BY <1>1, <1>6, <2>1, <2>2
  <2>4. /\ n <= Len(F) /\ \A i \in 1..n : i \in 1..Len(F) /\ schema[i] = F[i]
    BY <1>1, <1>2, <1>4, <1>8
  <2>5. schema = SubSeq(F, 1, n)
    BY <1>1, <1>2, <2>4
  <2>6. records' = {F[i] : i \in 1..Len(F)}
    <3>1. 1..Len(F) = (1..n) \cup ((n + 1)..Len(F))
      BY <1>1, <1>2, <1>8
    <3>2. {schema[i] : i \in 1..n} = {F[i] : i \in 1..n}
      BY <2>4
    <3> QED
      BY <1>2, <1>5, <1>6, <3>1, <3>2
  <2>7. SchemaInv'
    BY <1>1, <2>3, <2>6 DEF SchemaInv, Range
  <2>8. Range(schema) \subseteq Range(schema')
    BY <1>1, <1>2, <2>3, <2>4 DEF Range
  <2>9. Ledger!Extends(Files[r])
    BY <2>4, <2>5 DEF Ledger!Extends
  <2> QED
    BY <1>1, <2>3, <2>7, <2>8, <2>9
<1> QED
  BY <1>1, <1>2, <1>7, <1>8

(* Nobody else is in its loop when a runner commits.                       *)
LEMMA CommitInv ==
    ASSUME IInv, NEW r \in Runners, Commit(r)
    PROVE  IInv'
<1>0. TypeOK /\ CarryInv /\ pc[r] = "files"
  BY DEF IInv, Commit
<1>1. PICK place \in {"done", "failed"} : Goto(r, place)
  BY DEF Commit
<1>2. /\ pc' \in [Runners -> Running \cup Ended \cup {"idle"}]
      /\ pc'[r] = place /\ \A q \in Runners \ {r} : pc'[q] = pc[q]
  BY <1>0, <1>1, GotoType DEF Ended
<1>3. /\ table' = table /\ applied' = applied /\ index' = index /\ work' = work
      /\ noted' = noted /\ runs' = runs /\ lock' = None
  BY DEF Commit
<1>4. lock = r /\ \A q \in Runners \ {r} : pc[q] \notin InTransaction
  BY <1>0 DEF TypeOK, InTransaction
<1>5. TypeOK'
  <2>1. ASSUME NEW q \in Runners
        PROVE  (pc'[q] \in InTransaction) = (lock' = q)
    <3>1. pc'[q] \notin InTransaction
      BY <1>1, <1>2, <1>4 DEF InTransaction
    <3>2. lock' # q
      BY <1>3, RunsAssumption
    <3> QED
      BY <3>1, <3>2
  <2> QED
    BY <1>0, <1>2, <1>3, <2>1 DEF TypeOK
<1>6. SchemaInv' /\ CarryInv'
  BY <1>0, <1>2, <1>3, CommitEffect DEF CarryInv
<1>7. DoneMeansApplied'
  <2> SUFFICES ASSUME NEW q \in Runners, pc'[q] = "done"
               PROVE  Range(Files[q]) \subseteq Range(schema')
    BY DEF DoneMeansApplied
  <2>1. CASE q = r
    BY <2>1, CommitEffect
  <2>2. CASE q # r
    BY <1>2, <2>2, CommitEffect DEF IInv, DoneMeansApplied
  <2> QED
    BY <2>1, <2>2
<1>8. ASSUME NEW q \in Runners PROVE Fresh(q)' /\ LoopInv(q)'
  <2>1. pc'[q] \notin {"read", "files", "record"}
    BY <1>1, <1>2, <1>4 DEF InTransaction
  <2>2. CASE q = r
    BY <1>1, <1>2, <2>2 DEF Fresh, LoopInv
  <2>3. CASE q # r
    BY <1>2, <1>3, <2>1, <2>3 DEF IInv, Fresh, LoopInv
  <2> QED
    BY <2>2, <2>3
<1> QED
  BY <1>5, <1>6, <1>7, <1>8 DEF IInv

-----------------------------------------------------------------------------
(* Every step of a runner leaves the schema as it is or upgrades it to the *)
(* runner's release.                                                       *)
LEMMA StepSchema ==
    ASSUME IInv, NEW r \in Runners, Start(r) \/ Work(r) \/ Fail(r)
    PROVE  \/ schema' = schema
           \/ Ledger!Extends(Files[r]) /\ schema' = Files[r]
<1>1. CASE Commit(r)
  BY <1>1, CommitEffect
<1>2. CASE ~Commit(r)
  BY <1>2 DEF Start, Work, Fail, Rollback, LookForTable, CreateTable, Lock,
              ReadRecords, Skip, RefuseChanged, Execute, Record, db
<1> QED
  BY <1>1, <1>2

(* The invariant is inductive.                                             *)
LEMMA NextInv == IInv /\ [Next]_vars => IInv'
<1> SUFFICES ASSUME IInv, [Next]_vars PROVE IInv'
  OBVIOUS
<1>1. CASE UNCHANGED vars
  BY <1>1 DEF vars, db, runner, IInv, TypeOK, CarryInv, SchemaInv, DoneMeansApplied,
              Fresh, LoopInv, Dealt
<1>2. ASSUME NEW r \in Runners, Start(r) \/ Work(r) \/ Fail(r)
      PROVE  IInv'
  <2>1. CASE Start(r)
    BY <2>1, StartInv
  <2>2. CASE LookForTable(r) \/ CreateTable(r) \/ Lock(r) \/ ReadRecords(r)
    BY <2>2, PrepareInv
  <2>3. CASE Skip(r)
    BY <2>3, SkipInv
  <2>4. CASE RefuseChanged(r)
    BY <2>4, RollbackInv DEF RefuseChanged, Running, InTransaction
  <2>5. CASE Execute(r)
    BY <2>5, ExecuteInv
  <2>6. CASE Record(r)
    BY <2>6, RecordInv
  <2>7. CASE Commit(r)
    BY <2>7, CommitInv
  <2>8. CASE Fail(r)
    BY <2>8, RollbackInv DEF Fail
  <2> QED
    BY <1>2, <2>1, <2>2, <2>3, <2>4, <2>5, <2>6, <2>7, <2>8 DEF Work
<1> QED
  BY <1>1, <1>2 DEF Next

(* The invariant holds in every reachable state.                           *)
LEMMA Invariant == Spec => []IInv
  BY InitInv, NextInv, PTL DEF Spec

(* Variables keep their types, and the advisory lock is held exactly by    *)
(* the runner inside its transaction.                                      *)
THEOREM TypeCorrect == Spec => []TypeOK
<1>1. IInv => TypeOK
  BY DEF IInv
<1> QED
  BY <1>1, Invariant, PTL

(* chatbot_schema_migrations always says what was executed, once each,     *)
(* wherever a runner dies and whatever files the others bring.             *)
THEOREM RecordsMatchSchemaHolds == Spec => []RecordsMatchSchema
<1>1. IInv => RecordsMatchSchema
  BY DEF IInv, SchemaInv, RecordsMatchSchema
<1> QED
  BY <1>1, Invariant, PTL

(* A run that reported success left every file of its release applied.     *)
THEOREM DoneMeansAppliedHolds == Spec => []DoneMeansApplied
<1>1. IInv => DoneMeansApplied
  BY DEF IInv
<1> QED
  BY <1>1, Invariant, PTL

(* The runners implement the ledger: the schema moves from the beginning   *)
(* of a release to the whole of one.                                       *)
THEOREM ImplementsLedgerHolds == Spec => ImplementsLedger
<1>1. Init => Ledger!Init
  BY DEF Init, Ledger!Init
<1>2. IInv /\ [Next]_vars => [Ledger!Upgrade]_schema
  <2> SUFFICES ASSUME IInv, [Next]_vars PROVE [Ledger!Upgrade]_schema
    OBVIOUS
  <2>1. CASE UNCHANGED vars
    BY <2>1 DEF vars, db
  <2>2. ASSUME NEW r \in Runners, Start(r) \/ Work(r) \/ Fail(r)
        PROVE  [Ledger!Upgrade]_schema
    <3>1. Files[r] \in Range(Files)
      BY FilesShape DEF Range
    <3> QED
      BY <2>2, <3>1, StepSchema DEF Ledger!Upgrade
  <2> QED
    BY <2>1, <2>2 DEF Next
<1> QED
  BY <1>1, <1>2, Invariant, PTL DEF Spec, ImplementsLedger, Ledger!Spec

=============================================================================
