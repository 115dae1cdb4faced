------------------------------ MODULE Migrator ------------------------------
(***************************************************************************)
(* Developers write migrations, processes apply them to one database       *)
(* (postgres_executor.rs, sqlite_executor.rs, and the makemigrations       *)
(* command of the application template).  A process runs the graph that    *)
(* was compiled into it, which may be older than the sources; it takes the *)
(* write lock, reads the history, applies the first pending migration      *)
(* operation by operation in one transaction, commits, and starts over     *)
(* until nothing is pending.                                               *)
(*                                                                         *)
(* What depends on the rows of the tables (a required column added to      *)
(* existing rows, duplicates under a new unique constraint), a failing     *)
(* connection and the end of the process all have one effect, Abort.       *)
(***************************************************************************)
EXTENDS SchemaEditor

CONSTANTS
  Processes,    \* processes that run migrations
  Backends,     \* the backends the database may be of
  Registered,   \* states the application's models may describe
  Written,      \* <<app, operations>> a developer may write by hand
  HandColumns,  \* <<table, column>>: where someone may create an index by hand
  Targets,      \* targets of a run: <<>> or <<id>>
  MaxMigrations, MaxEdits, MaxDrift, MaxRuns, MaxAborts,   \* bounds
  NoProcess

\* NoProcess stands for a free lock; applications and bounds are numbers.
ASSUME MigratorAssumption ==
  /\ NoProcess \notin Processes
  /\ \A written \in Written : written[1] \in Nat
  /\ {MaxMigrations, MaxEdits, MaxDrift, MaxRuns, MaxAborts} \subseteq Nat

VARIABLES
  backend,   \* the backend of the database
  sources,   \* the migrations in the source tree: identity -> migration
  edits,     \* how often the source of a migration was changed afterwards
  catalog,   \* what the database holds
  drift,     \* how many indexes were created by hand
  history,   \* che_migration_history: identity -> checksum
  log,       \* the identities in the order of their commits
  lock,      \* the process inside a migration transaction
  proc,      \* the state of each process
  runs,      \* runs started
  aborts     \* transactions that ended for a reason outside the model

vars == <<backend, sources, edits, catalog, drift, history, log, lock, proc, runs, aborts>>

source == <<sources, edits>>
database == <<backend, catalog, drift, history, log, lock>>
process == <<proc, runs, aborts>>

Idle == [phase |-> "idle", graph |-> <<>>, target |-> <<>>, fault |-> "none"]

Init ==
  /\ backend \in Backends
  /\ sources = <<>> /\ edits = 0
  /\ catalog = EmptyCatalog /\ drift = 0
  /\ history = <<>> /\ log = <<>>
  /\ lock = NoProcess
  /\ proc = [p \in Processes |-> Idle]
  /\ runs = 0 /\ aborts = 0

-----------------------------------------------------------------------------
(* Writing migrations.                                                     *)

App == 1

With(g, id, migration) == [x \in DOMAIN g \cup {id} |-> IF x = id THEN migration ELSE g[x]]

NextNumber(g) == IF DOMAIN g = {} THEN 1 ELSE 1 + Max({id[2] : id \in DOMAIN g})

\* What the command generates for a source tree g and the registered models;
\* no tree when it refuses or finds no change.
Generated(g, models, name) ==
  LET heads == AppHeads(g, App)
      changes == {Diff(historical, models) : historical \in {Replay(g)} \ {Invalid}}
      proposed == {With(g, <<App, NextNumber(g), name>>, [deps |-> heads, ops |-> ops]) :
                     ops \in changes \ {Invalid, <<>>}}
  IN  {tree \in proposed :
         /\ Cardinality(heads) <= 1
         /\ \E replayed \in {Replay(tree)} \ {Invalid} : Diff(replayed, models) = <<>>}

\* Two developers: the second has the whole tree, the first a checkout
\* without the newest head.  The file is merged under a name of its own.
MakeMigrations(models, branch) ==
  LET base == IF branch = 2 THEN DOMAIN sources ELSE DOMAIN sources \ AppHeads(sources, App)
  IN  /\ Cardinality(DOMAIN sources) < MaxMigrations
      /\ \E made \in Generated(Restrict(sources, base), models, branch) :
           /\ (DOMAIN made \ base) \cap DOMAIN sources = {}
           /\ sources' = [id \in DOMAIN sources \cup DOMAIN made |->
                            IF id \in DOMAIN made THEN made[id] ELSE sources[id]]
      /\ UNCHANGED <<edits, database, process>>

\* A migration of any application written by hand, after everything else.
WriteMigration(app, ops) ==
  /\ Cardinality(DOMAIN sources) < MaxMigrations
  /\ sources' = With(sources, <<app, NextNumber(sources), 1>>,
                     [deps |-> UNION {AppHeads(sources, a) : a \in 1..2}, ops |-> ops])
  /\ UNCHANGED <<edits, database, process>>

\* A merge migration joins the heads of two branches.
MergeHeads ==
  /\ Cardinality(AppHeads(sources, App)) > 1
  /\ sources' = With(sources, <<App, NextNumber(sources), 1>>,
                     [deps |-> AppHeads(sources, App), ops |-> <<>>])
  /\ UNCHANGED <<edits, database, process>>

\* The source of an existing migration is changed, and with it its checksum:
\* its operations are taken out.
EditMigration(id) ==
  /\ edits < MaxEdits
  /\ sources[id].ops # <<>>
  /\ sources' = [sources EXCEPT ![id].ops = <<>>]
  /\ edits' = edits + 1
  /\ UNCHANGED <<database, process>>

-----------------------------------------------------------------------------
(* Applying them.                                                          *)

Ended(p, fault) == proc' = [proc EXCEPT ![p] = [Idle EXCEPT !.fault = fault]]

\* Errors that need no database are reported before any lock is taken.
Start(p, target) ==
  LET refused == ~WellFormed(sources) \/ PlanForward(sources, {}, target) = Invalid
  IN  /\ proc[p].phase = "idle"
      /\ runs < MaxRuns
      /\ runs' = runs + 1
      /\ IF refused THEN Ended(p, "plan")
         ELSE proc' = [proc EXCEPT ![p] = [phase |-> "begin", graph |-> sources,
                                           target |-> target, fault |-> "none"]]
      /\ UNCHANGED <<source, database, aborts>>

\* Everything recorded is compiled in, unchanged, with its dependencies.
HistoryMatches(g, seen) ==
  /\ \A id \in DOMAIN seen : id \in DOMAIN g /\ Checksum(g, id) = seen[id]
  /\ ValidApplied(g, DOMAIN seen)

\* Defect: the history is read before the lock, and another process commits.
SeenEarlier == Restrict(history, {log[i] : i \in 1..Len(log) - 1})

\* The history is read under the lock.
Seen == history

\* Take the lock, read the history, choose the first pending migration.
Begin(p) ==
  LET g == proc[p].graph
  IN  /\ proc[p].phase = "begin"
      /\ lock = NoProcess
      /\ \E plan \in {IF HistoryMatches(g, Seen)
                      THEN PlanForward(g, DOMAIN Seen, proc[p].target) ELSE Invalid} :
         \/ /\ plan = Invalid
            /\ Ended(p, "history")
            /\ UNCHANGED lock
         \/ /\ plan = <<>>
            /\ Ended(p, "none")
            /\ UNCHANGED lock
         \/ /\ plan \notin {Invalid, <<>>}
            /\ lock' = p
            /\ proc' = [proc EXCEPT ![p] =
                 [phase |-> "run", graph |-> g, target |-> proc[p].target, fault |-> "none",
                  id |-> plan[1], state |-> ReplaySelected(g, DOMAIN Seen),
                  todo |-> g[plan[1]].ops, pending |-> {}, work |-> catalog]]
      /\ UNCHANGED <<source, backend, catalog, drift, history, log, runs, aborts>>

\* SQLite waits five seconds for the write lock.
LockTimesOut(p) ==
  /\ backend = "sqlite"
  /\ proc[p].phase = "begin"
  /\ lock # NoProcess
  /\ Ended(p, "busy")
  /\ UNCHANGED <<source, database, runs, aborts>>

\* Defect: the lock outlives a failed transaction.
RollbackHolding(p, fault) ==
  /\ Ended(p, fault)
  /\ UNCHANGED <<source, database, runs>>

\* The transaction rolls back: nothing of the migration remains.
Rollback(p, fault) ==
  /\ lock' = NoProcess
  /\ Ended(p, fault)
  /\ UNCHANGED <<source, backend, catalog, drift, history, log, runs>>

AddKeys(work, s, keys) ==
  ExecuteAll(work, Each(SetToSeq(keys), LAMBDA key :
    [sql |-> "add constraint", con |-> ForeignKey(key[1], key[2], s.tables[key[1]].cols[key[2]])]))

\* The pending foreign keys after an operation, before the ready ones are added.
Deferred(op, after, pending, new) ==
  LET kept == {key \in pending : op.op # "AlterColumn" \/ key # <<op.table, op.column>>}
      moved == {Follow(key, op) : key \in kept}
  IN  {key \in moved : KeyExists(after, key)} \cup new

\* What the operation makes of a run: the statements, the foreign keys that
\* become possible, the state.  Both are sets of one value.
PostgresStep(run, op) ==
  LET Ready(after, pending) == {key \in pending : KeyReady(after, key)}
  IN  {[run EXCEPT !.state = after, !.todo = Tail(@),
                   !.pending = pending \ Ready(after, pending),
                   !.work = AddKeys(work, after, Ready(after, pending))] :
         after \in {StateForwards(run.state, op)},
         work \in {ExecuteAll(run.work, PostgresPlan(run.state, op, run.pending).sql)},
         pending \in {Deferred(op, StateForwards(run.state, op), run.pending,
                               PostgresPlan(run.state, op, run.pending).deferred)}}

SqliteStep(run, op) ==
  {[run EXCEPT !.state = StateForwards(@, op), !.todo = Tail(@),
               !.work = ExecuteAll(@, SqlitePlan(run.state, op))]}

\* Migration SQL must not end the transaction it runs in.
Controls(op) == op.op = "RunSql" /\ op.control

\* One operation; when it is refused or a statement fails, the migration fails.
ExecuteOperation(p) ==
  LET run == proc[p]
      op == Head(run.todo)
      refused == \/ Controls(op)
                 \/ /\ backend = "sqlite" /\ op.op \in RebuildOps
                    /\ ~RebuildAllowed(run.work, run.state, op.table)
  IN  /\ run.phase = "run"
      /\ run.todo # <<>>
      /\ \/ refused /\ Rollback(p, "refused")
         \/ /\ ~refused
            /\ \E next \in IF backend = "postgres" THEN PostgresStep(run, op) ELSE SqliteStep(run, op) :
                 \/ next.work = Invalid /\ Rollback(p, "statement")
                 \/ /\ next.work # Invalid
                    /\ proc' = [proc EXCEPT ![p] = next]
                    /\ UNCHANGED <<source, database, runs>>
      /\ UNCHANGED aborts

\* SQLite checks the foreign keys before the commit: each refers to a key.
Mismatched(work) ==
  /\ backend = "sqlite"
  /\ \E k \in work.cons : /\ k.kind = "references" /\ k.to[1] \in DOMAIN work.tables
                          /\ ~KeyOn(work, k.to)

\* The remaining foreign keys, the history entry (whose key is the identity)
\* and the commit; then the next migration.
Finish(p) ==
  LET run == proc[p]
  IN  /\ run.phase = "run"
      /\ run.todo = <<>>
      /\ \E work \in {AddKeys(run.work, run.state, run.pending)} :
           IF work = Invalid \/ Mismatched(work) \/ run.id \in DOMAIN history THEN Rollback(p, "statement")
           ELSE /\ catalog' = work
                /\ history' = With(history, run.id, Checksum(run.graph, run.id))
                /\ log' = Append(log, run.id)
                /\ lock' = NoProcess
                /\ proc' = [proc EXCEPT ![p] = [phase |-> "begin", graph |-> run.graph,
                                                target |-> run.target, fault |-> "none"]]
                /\ UNCHANGED <<source, backend, drift, runs>>
      /\ UNCHANGED aborts

Abort(p) ==
  /\ proc[p].phase = "run"
  /\ aborts < MaxAborts
  /\ aborts' = aborts + 1
  /\ Rollback(p, "aborted")

\* Someone creates an index by hand.
Handmade == <<"handmade", 0>>

CreateIndexByHand(t, c) ==
  /\ drift < MaxDrift
  /\ lock = NoProcess
  /\ t \in DOMAIN catalog.tables /\ c \in DOMAIN catalog.tables[t]
  /\ catalog' = [catalog EXCEPT !.idx = @ \cup {[name |-> Handmade, table |-> t, cols |-> <<c>>]}]
  /\ drift' = drift + 1
  /\ UNCHANGED <<source, backend, history, log, lock, process>>

-----------------------------------------------------------------------------
Develop ==
  \/ \E models \in Registered, branch \in 1..2 : MakeMigrations(models, branch)
  \/ \E written \in Written : WriteMigration(written[1], written[2])
  \/ MergeHeads
  \/ \E id \in DOMAIN sources : EditMigration(id)

Work(p) ==
  \/ Begin(p)
  \/ LockTimesOut(p)
  \/ ExecuteOperation(p)
  \/ Finish(p)

Next ==
  \/ Develop
  \/ \E p \in Processes :
       \/ \E target \in Targets : Start(p, target)
       \/ Work(p)
       \/ Abort(p)
  \/ \E at \in HandColumns : CreateIndexByHand(at[1], at[2])

Spec == Init /\ [][Next]_vars

-----------------------------------------------------------------------------
(* Properties.                                                             *)

\* A process in a transaction holds the lock, and only it does.
TypeOK ==
  /\ backend \in Backends
  /\ Range(log) = DOMAIN history
  /\ \A p \in Processes : /\ proc[p].phase \in {"idle", "begin", "run"}
                          /\ (proc[p].phase = "run") <=> (lock = p)
  /\ runs \in 0..MaxRuns /\ aborts \in 0..MaxAborts /\ drift \in 0..MaxDrift

\* However the runs of old and new builds interleave, each migration is
\* recorded once and after the migrations it depends on.
DependenciesFirst ==
  /\ IsInjective(log)
  /\ \A i \in DOMAIN log : history[log[i]].deps \subseteq {log[j] : j \in 1..i - 1}

Recorded == ReplaySelected(history, DOMAIN history)

Clean(cat) == [cat EXCEPT !.idx = {i \in @ : i.name # Handmade}]

SameCatalog(cat, s) ==
  IF backend = "postgres" THEN Clean(cat) = Expected(s)
  ELSE Shape(Clean(cat)) = Shape(Expected(s))

\* The database holds what the recorded migrations describe when they are
\* replayed, whatever failed, was retried or ran concurrently in between.
CatalogIsReplay == \A s \in {Recorded} : SameCatalog(catalog, s)

\* The same, when the commits came in the order of the graph.
InOrder == log = Ordered(history)
CatalogIsReplayInOrder == InOrder => CatalogIsReplay

\* On PostgreSQL a planned migration meets the names and the keys its
\* statements expect.
FailuresExplained ==
  backend = "postgres" /\ InOrder => \A p \in Processes : proc[p].fault # "statement"

\* An index nobody recorded disappears only with its column or its table.
DropsUnder(ops, i) ==
  \E k \in DOMAIN ops : \/ ops[k].op \in {"DropTable"}
                        \/ ops[k].op = "RemoveColumn" /\ ops[k].column \in Range(i.cols)
HandmadeKept ==
  [][\A i \in catalog.idx :
       i.name = Handmade => \/ IndexTaken(catalog', Handmade)
                            \/ log' # log /\ DropsUnder(history'[log'[Len(log')]].ops, i)]_vars

BeforeDeployment == log = <<>> /\ \A p \in Processes : proc[p].phase = "idle"

\* The differences the command may be asked for before the first deployment.
Differences ==
  {d \in [old : {Replay(sources)} \ {Invalid}, models : Registered] : Covers(d.old)}

Reproduces(old, ops, models) ==
  \E new \in {Forwards(old, ops)} \ {Invalid} : Diff(new, models) = <<>>

\* A difference of two valid states is turned into operations that reproduce
\* it, as StateChange::into_operation says of itself.
DifferenceReproduced ==
  BeforeDeployment =>
    \A d \in Differences : \A ops \in {Diff(d.old, d.models)} :
      Reproduces(d.old, ops, d.models)

\* The column is removed before the index or the unique constraint over it.
RemovesCovered(s, op) ==
  op.op = "RemoveColumn" /\ op.column \in Covered(s.tables[op.table])

\* The table is dropped before the column of another that refers to it.
DropsReferenced(s, op) ==
  op.op = "DropTable" /\ \E t \in Tables(s) \ {op.table} : \E c \in DOMAIN s.tables[t].cols :
    s.tables[t].cols[c].ref # <<>> /\ s.tables[t].cols[c].ref[1] = op.table

\* The column is altered from the reference it had before an earlier
\* operation renamed the table it refers to.
AltersRenamed(s, op, before) ==
  op.op = "AlterColumn" /\ \E rename \in Range(before) :
    /\ rename.op = "RenameTable"
    /\ op.old.ref # <<>> /\ op.old.ref[1] = rename.table
    /\ s.tables[op.table].cols[op.column] = [op.old EXCEPT !.ref[1] = rename.new]

\* The first operation that is refused is one of the three above.
RefusedByOrder(old, ops) ==
  \E i \in DOMAIN ops :
    LET before == SubSeq(ops, 1, i - 1)
    IN  /\ Forwards(old, Append(before, ops[i])) = Invalid
        /\ \E s \in {Forwards(old, before)} \ {Invalid} :
             RemovesCovered(s, ops[i]) \/ DropsReferenced(s, ops[i]) \/ AltersRenamed(s, ops[i], before)

\* Unless the order of the operations is refused in one of these three ways,
\* the operations of a difference are accepted one after the other and lead
\* to a state that differs in nothing from the registered models.
DiffReplays ==
  BeforeDeployment =>
    \A d \in Differences : \A ops \in {Diff(d.old, d.models)} :
      RefusedByOrder(d.old, ops) \/ Reproduces(d.old, ops, d.models)

\* No view or trigger is present while a generated migration changes a table
\* it mentions.
ByHand(ops) == \E written \in Written : written[2] = ops
ObjectsClear ==
  \A p \in Processes :
    (proc[p].phase = "run" /\ proc[p].todo # <<>> /\ ~ByHand(proc[p].graph[proc[p].id].ops)) =>
      LET op == Head(proc[p].todo)
      IN  op.op \notin {"CreateObject", "DropObject", "RunSql", "BackfillColumn"} =>
            \A o \in proc[p].state.objects : op.table \notin o.on

=============================================================================
