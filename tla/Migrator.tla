------------------------------- MODULE Migrator -------------------------------
(***************************************************************************)
(* database/migrator and the commands of pola db: replicas that migrate on *)
(* boot and operators who migrate, roll back, reset or load share one      *)
(* database.  Each statement is its own transaction, its row in the ledger *)
(* is written after it, and nobody holds a lock.  The steps inside Atlas's *)
(* executor are external: Pending and Execute as database/migrator drives  *)
(* them.                                                                   *)
(***************************************************************************)
EXTENDS Integers, FiniteSets

CONSTANTS Procs,      \* processes: booting replicas and CLI commands
          NFiles,     \* migration files, in the order of their versions
          Total,      \* Total[f]: statements of file f
          Reversible, \* files with an atlas:down directive at every statement
          MaxStarts,  \* bound: commands begun
          MaxFaults   \* bound: crashes and statements the database refuses

Files == 1..NFiles
Stmts == UNION {{<<f, i>> : i \in 1..Total[f]} : f \in Files}

ASSUME FilesAssumption == /\ NFiles \in Nat \ {0}
                          /\ Total \in [Files -> Nat \ {0}]
                          /\ Reversible \subseteq Files

VARIABLES schema,  \* what exists: the ledger and, for each statement in effect, its object
          revs,    \* the rows of the ledger: how many statements of a file they say are applied
          pc, op,  \* per process: the step it is at, and its command
          arg,     \* per process: --step, --version, or the number of pending files
          todo,    \* per process: the files it still has to run or undo
          row,     \* per process: the applied count of its copy of the row, or of undone statements
          drops,   \* per process: the objects a reset found and has not dropped yet
          torn,    \* history: files of which something was undone and the row was not deleted
          clash,   \* history: a rollback or reset ran beside another command
          overlap, \* history: two commands ran at the same time
          bootsOnly, \* history: every command was to run all files
          starts, faults

database == <<schema, revs>>
recorded == <<torn, clash, overlap, bootsOnly>>
migratorVars == <<schema, revs, pc, op, arg, todo, row, drops, torn, clash, overlap, bootsOnly, starts, faults>>

Ledger == <<0, 0>>
Ops == {"boot", "load", "to", "rollback", "reset"}
Undoing == {"rollback", "reset"}
Idle == {"idle", "ok", "failed"}

Least(S) == CHOOSE x \in S : \A y \in S : x <= y
Greatest(S) == CHOOSE x \in S : \A y \in S : x >= y

Active(p) == pc[p] \notin Idle
AllIn(f) == \A i \in 1..Total[f] : <<f, i>> \in schema

-----------------------------------------------------------------------------
MigratorInit ==
        /\ schema = {}
        /\ revs = [f \in {} |-> 0]
        /\ pc = [p \in Procs |-> "idle"] /\ op = [p \in Procs |-> "boot"]
        /\ arg = [p \in Procs |-> 0] /\ todo = [p \in Procs |-> {}]
        /\ row = [p \in Procs |-> 0] /\ drops = [p \in Procs |-> {}]
        /\ torn = {} /\ clash = FALSE /\ overlap = FALSE /\ bootsOnly = TRUE
        /\ starts = 0 /\ faults = 0

At(p, step) == pc[p] = step
Go(p, step) == pc' = [pc EXCEPT ![p] = step]

\* The command: the reset inspects the schema, the others create the ledger first.
Start(p, o, n) ==
    /\ pc[p] \in Idle
    /\ starts < MaxStarts
    /\ starts' = starts + 1
    /\ Go(p, IF o = "reset" THEN "inspect" ELSE "init")
    /\ op' = [op EXCEPT ![p] = o]
    /\ arg' = [arg EXCEPT ![p] = n]
    /\ LET others == {q \in Procs \ {p} : Active(q)}
       IN  /\ overlap' = (overlap \/ others # {})
           /\ clash' = (clash \/ \E q \in others : {o, op[q]} \cap Undoing # {})
    /\ bootsOnly' = (bootsOnly /\ o \in {"boot", "load"})
    /\ todo' = [todo EXCEPT ![p] = {}]
    /\ row' = [row EXCEPT ![p] = 0]
    /\ UNCHANGED <<database, drops, torn, faults>>

\* RevisionReadWriter.Init: CREATE TABLE IF NOT EXISTS.
InitLedger(p) ==
    /\ At(p, "init")
    /\ schema' = schema \cup {Ledger}
    /\ Go(p, CASE op[p] = "rollback" -> "read"
               [] op[p] = "to" -> "plan"
               [] OTHER -> "pending")
    /\ UNCHANGED <<revs, op, arg, todo, row, drops, recorded, starts, faults>>

-----------------------------------------------------------------------------
(* Atlas's Pending: the last row tells where to go on, and a file between   *)
(* the first row and there that has none is an error.                       *)

PendingFiles ==
    IF DOMAIN revs = {} THEN Files
    ELSE LET last == Greatest(DOMAIN revs)
         IN  {f \in Files : f > last \/ (f = last /\ revs[f] < Total[f])}

\* Mutant of Readable: an empty ledger is an error.
ReadableRows == Ledger \in schema /\ DOMAIN revs # {}

Readable == /\ Ledger \in schema
            /\ \A f \in Files \ DOMAIN revs :
                  ~ \E g, h \in DOMAIN revs : g < f /\ f < h

\* The first n files of S.
FirstOf(S, n) == {f \in S : Cardinality({g \in S : g <= f}) <= n}

\* Mutant of PendingCount: one too few.
PendingCountShort == Cardinality(PendingFiles) - 1

PendingCount == Cardinality(PendingFiles)

\* RunPending and the commands: no pending file is success to a boot and to
\* migrate, and an error to reset and schema:load.
CheckPending(p) ==
    /\ At(p, "pending")
    /\ Go(p, IF ~Readable THEN "failed"
             ELSE IF PendingFiles # {} THEN "plan"
             ELSE IF op[p] = "boot" THEN "ok" ELSE "failed")
    /\ arg' = [arg EXCEPT ![p] = PendingCount]
    /\ UNCHANGED <<database, op, todo, row, drops, recorded, starts, faults>>

\* ExecuteN and ExecuteTo look again; to them no pending file is an error.
Plan(p) ==
    LET files == IF op[p] = "to" THEN {f \in PendingFiles : arg[p] \in PendingFiles /\ f <= arg[p]}
                                 ELSE FirstOf(PendingFiles, arg[p])
    IN  /\ At(p, "plan")
        /\ Go(p, IF Readable /\ files # {} THEN "load" ELSE "failed")
        /\ todo' = [todo EXCEPT ![p] = files]
        /\ UNCHANGED <<database, op, arg, row, drops, recorded, starts, faults>>

-----------------------------------------------------------------------------
(* Atlas's Execute, file by file.  Each write upserts the process's copy of *)
(* the row, whatever the ledger says by then.                               *)

\* Mutant of Upsert: the columns applied and total are taken for one another.
UpsertTotal(f, a) == revs' = [g \in DOMAIN revs \cup {f} |-> IF g = f THEN Total[f] ELSE revs[g]]

\* WriteRevision.
Upsert(f, a) == revs' = [g \in DOMAIN revs \cup {f} |-> IF g = f THEN a ELSE revs[g]]

Running(p) == Least(todo[p])

\* Mutant of Stored: any file that is run has no row yet.
StoredFresh(f) == 0

\* ReadRevision: a file without a row starts from its first statement.
Stored(f) == IF f \in DOMAIN revs THEN revs[f] ELSE 0

ReadRow(p) ==
    /\ At(p, "load")
    /\ Go(p, IF Ledger \in schema THEN "mark" ELSE "failed")
    /\ row' = [row EXCEPT ![p] = Stored(Running(p))]
    /\ UNCHANGED <<database, op, arg, todo, drops, recorded, starts, faults>>

\* The first write; then what the row says is applied is compared with hashes
\* this ledger does not store, so that going on from a partial row may fail.
MarkStarted(p) ==
    /\ At(p, "mark")
    /\ IF Ledger \in schema
         THEN /\ Upsert(Running(p), row[p])
              /\ \/ Go(p, IF row[p] = Total[Running(p)] THEN "store" ELSE "statement")
                 \/ row[p] > 0 /\ Go(p, "abandon")
         ELSE Go(p, "failed") /\ UNCHANGED revs
    /\ UNCHANGED <<schema, op, arg, todo, row, drops, recorded, starts, faults>>

\* A statement fails if what it creates is there already.
RunStatement(p) ==
    LET stmt == <<Running(p), row[p] + 1>>
    IN  /\ At(p, "statement")
        /\ IF stmt \in schema
             THEN Go(p, "abandon") /\ UNCHANGED <<schema, row>>
             ELSE /\ schema' = schema \cup {stmt}
                  /\ row' = [row EXCEPT ![p] = @ + 1]
                  /\ Go(p, "record")
        /\ UNCHANGED <<revs, op, arg, todo, drops, recorded, starts, faults>>

\* The database refuses a statement: a lock timeout, a lost connection.
RefuseStatement(p) ==
    /\ At(p, "statement")
    /\ faults < MaxFaults
    /\ faults' = faults + 1
    /\ Go(p, "abandon")
    /\ UNCHANGED <<database, op, arg, todo, row, drops, recorded, starts>>

RecordStatement(p) ==
    /\ At(p, "record")
    /\ IF Ledger \in schema
         THEN /\ Upsert(Running(p), row[p])
              /\ Go(p, IF row[p] = Total[Running(p)] THEN "store" ELSE "statement")
         ELSE Go(p, "failed") /\ UNCHANGED revs
    /\ UNCHANGED <<schema, op, arg, todo, row, drops, recorded, starts, faults>>

\* The deferred write, after the last statement as after a failure.
StoreRow(p) ==
    LET left == todo[p] \ {Running(p)}
    IN  /\ pc[p] \in {"store", "abandon"}
        /\ IF Ledger \in schema THEN Upsert(Running(p), row[p]) ELSE UNCHANGED revs
        /\ Go(p, IF At(p, "abandon") \/ Ledger \notin schema THEN "failed"
                 ELSE IF left = {} THEN "ok" ELSE "load")
        /\ todo' = [todo EXCEPT ![p] = left]
        /\ UNCHANGED <<schema, op, arg, row, drops, recorded, starts, faults>>

-----------------------------------------------------------------------------
(* pola db rollback: the last rows, the latest first, each with the reverse *)
(* statements of its whole file in the order of the file.                   *)

ReadRows(p) ==
    /\ At(p, "read")
    /\ Go(p, IF Ledger \notin schema THEN "failed"
             ELSE IF DOMAIN revs = {} THEN "ok" ELSE "undo")
    /\ todo' = [todo EXCEPT ![p] =
                  {f \in DOMAIN revs : Cardinality({g \in DOMAIN revs : g >= f}) <= arg[p]}]
    /\ UNCHANGED <<database, op, arg, row, drops, recorded, starts, faults>>

\* Mutant of Undone: the revisions are walked forwards.
UndoneForwards(p) == Least(todo[p])

Undone(p) == Greatest(todo[p])

UndoStatement(p) ==
    LET f == Undone(p)
        stmt == <<f, row[p] + 1>>
    IN  /\ At(p, "undo")
        /\ IF f \in Reversible /\ stmt \in schema
             THEN /\ schema' = schema \ {stmt}
                  /\ torn' = torn \cup {f}
                  /\ row' = [row EXCEPT ![p] = @ + 1]
                  /\ Go(p, IF row[p] + 1 = Total[f] THEN "forget" ELSE "undo")
             ELSE Go(p, "failed") /\ UNCHANGED <<schema, torn, row>>
        /\ UNCHANGED <<revs, op, arg, todo, drops, clash, overlap, bootsOnly, starts, faults>>

DeleteRow(p) ==
    LET f == Undone(p)
    IN  /\ At(p, "forget")
        /\ IF Ledger \in schema
             THEN /\ revs' = [g \in DOMAIN revs \ {f} |-> revs[g]]
                  /\ torn' = torn \ {f}
                  /\ todo' = [todo EXCEPT ![p] = @ \ {f}]
                  /\ row' = [row EXCEPT ![p] = 0]
                  /\ Go(p, IF todo[p] = {f} THEN "ok" ELSE "undo")
             ELSE Go(p, "failed") /\ UNCHANGED <<revs, torn, todo, row>>
        /\ UNCHANGED <<schema, op, arg, drops, clash, overlap, bootsOnly, starts, faults>>

-----------------------------------------------------------------------------
(* pola db reset: what the inspection found is dropped one by one, the      *)
(* ledger among it and once more at the end, and all files run again.       *)

Inspect(p) ==
    /\ At(p, "inspect")
    /\ Go(p, "drop")
    /\ drops' = [drops EXCEPT ![p] = schema]
    /\ torn' = Files
    /\ UNCHANGED <<database, op, arg, todo, row, clash, overlap, bootsOnly, starts, faults>>

Drop(p, object) ==
    /\ At(p, "drop")
    /\ object \in drops[p]
    /\ schema' = schema \ {object}
    /\ revs' = IF object = Ledger THEN [f \in {} |-> 0] ELSE revs
    /\ drops' = [drops EXCEPT ![p] = @ \ {object}]
    /\ UNCHANGED <<pc, op, arg, todo, row, recorded, starts, faults>>

\* A table others refer to cannot be dropped.
RefuseDrop(p) ==
    /\ At(p, "drop")
    /\ drops[p] # {}
    /\ Go(p, "failed")
    /\ drops' = [drops EXCEPT ![p] = {}]
    /\ UNCHANGED <<database, op, arg, todo, row, recorded, starts, faults>>

DropLedger(p) ==
    /\ At(p, "drop")
    /\ drops[p] = {}
    /\ schema' = schema \ {Ledger}
    /\ revs' = [f \in {} |-> 0]
    /\ torn' = IF schema' = {} THEN {} ELSE torn
    /\ Go(p, "init")
    /\ UNCHANGED <<op, arg, todo, row, drops, clash, overlap, bootsOnly, starts, faults>>

-----------------------------------------------------------------------------
\* The process dies; the database stays as it is.
Crash(p) ==
    /\ Active(p)
    /\ faults < MaxFaults
    /\ faults' = faults + 1
    /\ Go(p, "idle")
    /\ todo' = [todo EXCEPT ![p] = {}]
    /\ row' = [row EXCEPT ![p] = 0]
    /\ drops' = [drops EXCEPT ![p] = {}]
    /\ UNCHANGED <<database, op, arg, recorded, starts>>

Execute(p) == \/ ReadRow(p) \/ MarkStarted(p) \/ RunStatement(p) \/ RefuseStatement(p)
              \/ RecordStatement(p) \/ StoreRow(p)
Rollback(p) == ReadRows(p) \/ UndoStatement(p) \/ DeleteRow(p)
Reset(p) == \/ Inspect(p) \/ RefuseDrop(p) \/ DropLedger(p)
            \/ \E object \in drops[p] : Drop(p, object)

MigratorNext ==
    \E p \in Procs :
       \/ \E o \in Ops : \E n \in IF o \in {"to", "rollback"} THEN Files ELSE {1} : Start(p, o, n)
       \/ InitLedger(p) \/ CheckPending(p) \/ Plan(p)
       \/ Execute(p) \/ Rollback(p) \/ Reset(p) \/ Crash(p)

MigratorSpec == MigratorInit /\ [][MigratorNext]_migratorVars

-----------------------------------------------------------------------------
(* Properties                                                               *)

MigratorTypeOK ==
    /\ schema \subseteq Stmts \cup {Ledger}
    /\ DOMAIN revs \subseteq Files /\ \A f \in DOMAIN revs : revs[f] \in 0..Total[f]
    /\ pc \in [Procs -> Idle \cup {"init", "pending", "plan", "load", "mark", "statement",
                 "record", "store", "abandon", "read", "undo", "forget", "inspect", "drop"}]
    /\ op \in [Procs -> Ops]
    /\ arg \in [Procs -> Nat] /\ row \in [Procs -> Nat]
    /\ todo \in [Procs -> SUBSET Files]
    /\ drops \in [Procs -> SUBSET (Stmts \cup {Ledger})]
    /\ torn \subseteq Files
    /\ clash \in BOOLEAN /\ overlap \in BOOLEAN /\ bootsOnly \in BOOLEAN
    /\ starts \in Nat /\ faults \in Nat

\* What a row says is applied exists, however many replicas boot at once and
\* wherever they die, unless a rollback or a reset was cut short or ran beside
\* another command.
RowsBacked == ~clash => \A f \in DOMAIN revs \ torn : \A i \in 1..revs[f] : <<f, i>> \in schema

\* No statement of a file is in effect before all of every earlier file is,
\* although nothing but the last row decides where a process goes on; a rollback
\* or reset that was cut short leaves its files behind as they are (torn).
FileOrder ==
    ~clash => \A f, g \in Files \ torn :
                 f < g /\ (\E j \in 1..Total[g] : <<g, j>> \in schema) => AllIn(f)

\* As long as commands run one at a time, the ledger lags behind the schema by
\* one statement at most: a crash forgets no more than the one just executed.
OneStatementGap ==
    ~overlap => Cardinality({s \in schema \cap Stmts :
                               /\ s[1] \notin torn
                               /\ s[1] \in DOMAIN revs => s[2] > revs[s[1]]}) <= 1

\* A boot that reports success leaves every file in effect, if commands run
\* one at a time: whatever the crashes before it left half done.
BootMeansCurrent ==
    [][\A p \in Procs : At(p, "ok")' /\ ~At(p, "ok") /\ op[p] = "boot" /\ ~overlap /\ torn = {}
          => \A f \in Files : AllIn(f)']_migratorVars

\* Without a lock the replicas that boot at once may fail one another, but what
\* one of them began one of them completes: when all have ended, without a
\* fault, the first file is in effect and no file is half done.  All files need
\* not be: a replica that counted what is pending (RunPending) before another's
\* older row made one file more pending stops that much early and succeeds.
WholeFiles ==
    bootsOnly /\ starts > 0 /\ faults = 0 /\ (\A p \in Procs : ~Active(p))
    => AllIn(1) /\ \A f \in Files : (\E i \in 1..Total[f] : <<f, i>> \in schema) => AllIn(f)

\* "... so re-runs are idempotent and `pola db status` stays accurate"
\* (README.md): after boots that met no fault nothing is pending.
StatusAccurate ==
    bootsOnly /\ starts > 0 /\ faults = 0 /\ (\A p \in Procs : ~Active(p))
    => Readable /\ PendingFiles = {}
=============================================================================
