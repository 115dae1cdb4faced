---------------------------- MODULE SchemaEditor ----------------------------
(***************************************************************************)
(* What a database physically holds (its catalog), what a statement does   *)
(* to it, and the statements each backend sends for an operation           *)
(* (postgres_schema.rs; migration.rs and sqlite_executor.rs for SQLite).   *)
(*                                                                         *)
(* PostgreSQL names every constraint <<table, kind, columns>> and every    *)
(* index <<table, position>>, and statements refer to them by these names; *)
(* they must follow renames and removals.  SQLite rebuilds a table whose   *)
(* shape changes, after checking that the rebuild loses nothing.           *)
(***************************************************************************)
EXTENDS MigrationGraph

EmptyCatalog == [tables |-> <<>>, cons |-> {}, idx |-> {}, objects |-> {}]

ConstraintName(t, kind, columns) == <<t, kind, columns>>

IndexName(t, position) == <<t, position>>

\* The constraints a column and a table definition stand for.
Constraint(t, kind, columns, to) ==
  [table |-> t, name |-> ConstraintName(t, kind, columns), kind |-> kind,
   cols |-> columns, to |-> to]

ForeignKey(t, c, def) == Constraint(t, "fk", <<c>>, def.ref)

OwnConstraints(t, c, def) ==
  {Constraint(t, kind, <<c>>, <<>>) : kind \in
     {k \in {"pk", "unique", "check"} :
        \/ k = "pk" /\ def.key = "primary"
        \/ k = "unique" /\ def.key = "unique"
        \/ k = "check" /\ def.check}}

ColumnConstraints(t, c, def) ==
  OwnConstraints(t, c, def) \cup (IF def.ref = <<>> THEN {} ELSE {ForeignKey(t, c, def)})

TableConstraints(t, columns) == Constraint(t, "uniques", columns, <<>>)

Types(def) == [c \in DOMAIN def.cols |-> def.cols[c].type]

Indexes(t, def) ==
  {[name |-> IndexName(t, i), table |-> t, cols |-> def.indexes[i]] : i \in DOMAIN def.indexes}

\* The catalog of a PostgreSQL database created from scratch in this state.
Expected(s) ==
  [tables |-> [t \in Tables(s) |-> Types(s.tables[t])],
   cons |-> UNION {UNION {ColumnConstraints(t, c, s.tables[t].cols[c]) :
                            c \in DOMAIN s.tables[t].cols} : t \in Tables(s)}
            \cup UNION {{TableConstraints(t, u) : u \in Range(s.tables[t].uniques)} :
                          t \in Tables(s)},
   idx |-> UNION {Indexes(t, s.tables[t]) : t \in Tables(s)},
   objects |-> s.objects]

\* A catalog without the names of its constraints and indexes: SQLite names
\* no constraint, and never refers to an index by its name.
Shape(cat) ==
  [tables |-> cat.tables,
   cons |-> {<<k.table, IF k.kind = "references" THEN "fk" ELSE k.kind, k.cols, k.to>> : k \in cat.cons},
   idx |-> {<<i.table, i.cols>> : i \in cat.idx},
   objects |-> cat.objects]

-----------------------------------------------------------------------------
(* The effect of a statement on a catalog: Invalid when the database       *)
(* refuses it.                                                             *)

Taken(cat, t, name) == \E k \in cat.cons : k.table = t /\ k.name = name

IndexTaken(cat, name) == \E i \in cat.idx : i.name = name

\* A foreign key needs a key on exactly the column it refers to.
KeyOn(cat, to) ==
  \E k \in cat.cons : k.table = to[1] /\ k.kind \in {"pk", "unique", "uniques"} /\ k.cols = <<to[2]>>

Holds(cat, k) == ~Taken(cat, k.table, k.name) /\ (k.kind # "fk" \/ KeyOn(cat, k.to))

Depended(cat, k) ==
  \E f \in cat.cons : f.kind = "fk" /\ f.to[1] = k.table /\ k.cols = <<f.to[2]>> /\ k.kind # "fk"

Viewed(cat, t) == \E o \in cat.objects : o.kind = "view" /\ t \in o.on

Swap(x, old, new) == IF x = old THEN new ELSE x

CreatesTable(cat, st) ==
  LET own == [cat EXCEPT !.tables = [t \in DOMAIN @ \cup {st.table} |->
                                       IF t = st.table THEN st.types ELSE @[t]],
                         !.cons = @ \cup {k \in st.cons : k.kind # "fk"}]
      keys == {k \in st.cons : k.kind = "fk"}
  IN  IF st.table \in DOMAIN cat.tables \/ \E k \in keys : ~KeyOn(own, k.to) THEN Invalid
      ELSE [own EXCEPT !.cons = @ \cup keys]

DropsTable(cat, st) ==
  IF \/ st.table \notin DOMAIN cat.tables
     \/ \E f \in cat.cons : f.kind = "fk" /\ f.table # st.table /\ f.to[1] = st.table
     \/ st.strict /\ Viewed(cat, st.table)
  THEN Invalid
  ELSE [cat EXCEPT !.tables = Without(@, st.table),
                   !.cons = {k \in @ : k.table # st.table},
                   !.idx = {i \in @ : i.table # st.table},
                   !.objects = {o \in @ : o.kind # "trigger" \/ st.table \notin o.on}]

RenamesTable(cat, st) ==
  LET Name(t) == Swap(t, st.table, st.new)
  IN  IF st.table \notin DOMAIN cat.tables \/ st.new \in DOMAIN cat.tables THEN Invalid
      ELSE [cat EXCEPT
        !.tables = Renamed(@, st.table, st.new),
        !.cons = {[k EXCEPT !.table = Name(@),
                            !.to = IF @ = <<>> THEN @ ELSE <<Name(@[1]), @[2]>>] : k \in @},
        !.idx = {[i EXCEPT !.table = Name(@)] : i \in @}]

RenamesColumn(cat, st) ==
  LET Name(t, columns) == IF t # st.table THEN columns
                          ELSE [i \in DOMAIN columns |-> Swap(columns[i], st.column, st.new)]
  IN  IF st.new \in DOMAIN cat.tables[st.table] THEN Invalid
      ELSE [cat EXCEPT
        !.tables[st.table] = Renamed(@, st.column, st.new),
        !.cons = {[k EXCEPT !.cols = Name(k.table, @),
                            !.to = Swap(@, <<st.table, st.column>>, <<st.table, st.new>>)] : k \in @},
        !.idx = {[i EXCEPT !.cols = Name(i.table, @)] : i \in @}]

\* Dropping a column takes its constraints and indexes with it.
DropsColumn(cat, st) ==
  LET Gone(x) == x.table = st.table /\ st.column \in Range(x.cols)
  IN  IF \/ Viewed(cat, st.table)
         \/ \E k \in cat.cons : Gone(k) /\ Depended(cat, k)
      THEN Invalid
      ELSE [cat EXCEPT !.tables[st.table] = Without(@, st.column),
                       !.cons = {k \in @ : ~Gone(k)},
                       !.idx = {i \in @ : ~Gone(i)}]

DropsConstraint(cat, st) ==
  LET gone == {k \in cat.cons : k.table = st.table /\ k.name = st.name}
  IN  IF gone = {} \/ \E k \in gone : Depended([cat EXCEPT !.cons = @ \ gone], k) THEN Invalid
      ELSE [cat EXCEPT !.cons = @ \ gone]

RenamesConstraint(cat, st) ==
  IF ~Taken(cat, st.table, st.name) \/ Taken(cat, st.table, st.new) THEN Invalid
  ELSE [cat EXCEPT !.cons = {IF k.table = st.table /\ k.name = st.name
                             THEN [k EXCEPT !.name = st.new] ELSE k : k \in @}]

RenamesIndex(cat, st) ==
  IF ~IndexTaken(cat, st.name) \/ IndexTaken(cat, st.new) THEN Invalid
  ELSE [cat EXCEPT !.idx = {[i EXCEPT !.name = Swap(@, st.name, st.new)] : i \in @}]

\* SQLite: create, copy, drop, rename, and the indexes again.
Rebuilds(cat, st) ==
  LET rest == {i \in cat.idx : i.table # st.table}
  IN  IF \E i \in rest : i.name \in {j.name : j \in st.idx} THEN Invalid
      ELSE [cat EXCEPT !.tables[st.table] = st.types,
                       !.cons = {k \in @ : k.table # st.table} \cup st.cons,
                       !.idx = rest \cup st.idx]

Execute(cat, st) ==
  IF cat = Invalid THEN Invalid
  ELSE
  CASE st.sql = "create table"      -> CreatesTable(cat, st)
    [] st.sql = "drop table"        -> DropsTable(cat, st)
    [] st.sql = "rename table"      -> RenamesTable(cat, st)
    [] st.sql = "rename column"     -> RenamesColumn(cat, st)
    [] st.sql = "drop column"       -> DropsColumn(cat, st)
    [] st.sql = "add column"        ->
         IF st.column \in DOMAIN cat.tables[st.table] \/ \E k \in st.cons : ~Holds(cat, k)
         THEN Invalid
         ELSE [cat EXCEPT !.tables[st.table] = [c \in DOMAIN @ \cup {st.column} |->
                                                  IF c = st.column THEN st.type ELSE @[c]],
                          !.cons = @ \cup st.cons]
    [] st.sql = "alter type"        ->
         IF Viewed(cat, st.table) THEN Invalid
         ELSE [cat EXCEPT !.tables[st.table][st.column] = st.type]
    [] st.sql = "add constraint"    ->
         IF Holds(cat, st.con) THEN [cat EXCEPT !.cons = @ \cup {st.con}] ELSE Invalid
    [] st.sql = "drop constraint"   -> DropsConstraint(cat, st)
    [] st.sql = "rename constraint" -> RenamesConstraint(cat, st)
    [] st.sql = "create index"      ->
         IF IndexTaken(cat, st.index.name) THEN Invalid
         ELSE [cat EXCEPT !.idx = @ \cup {st.index}]
    [] st.sql = "drop index"        ->
         IF IndexTaken(cat, st.name)
         THEN [cat EXCEPT !.idx = {i \in @ : i.name # st.name}] ELSE Invalid
    [] st.sql = "rename index"      -> RenamesIndex(cat, st)
    [] st.sql = "rebuild"           -> Rebuilds(cat, st)
    [] st.sql = "create object"     -> [cat EXCEPT !.objects = @ \cup {st.object}]
    [] st.sql = "drop object"       -> [cat EXCEPT !.objects = @ \ {st.object}]
    [] st.sql = "update"            -> cat

ExecuteAll(cat, statements) == Folded(Execute, cat, statements)

-----------------------------------------------------------------------------
(* PostgreSQL.  A pending foreign key is <<table, column>>: its definition *)
(* waits until the column it refers to has a key.                          *)

TargetReady(def, c) ==
  \/ c \in DOMAIN def.cols /\ def.cols[c].key \in {"primary", "unique"}
  \/ \E columns \in Range(def.uniques) : columns = <<c>>

ForeignReady(def, s) ==
  \/ def.ref = <<>>
  \/ def.ref[1] \in Tables(s) /\ TargetReady(s.tables[def.ref[1]], def.ref[2])

Source(s, key) ==
  IF key[1] \in Tables(s) /\ key[2] \in DOMAIN s.tables[key[1]].cols
  THEN {s.tables[key[1]].cols[key[2]]} ELSE {}

KeyExists(s, key) == \E def \in Source(s, key) : def.ref # <<>>

KeyReady(s, key) == \E def \in Source(s, key) : ForeignReady(def, s)

\* Defect: a rename that RunSql declares is not followed.
FollowPlain(key, op) ==
  IF op.op = "RenameTable" /\ key[1] = op.table THEN <<op.new, key[2]>>
  ELSE IF op.op = "RenameColumn" /\ key = <<op.table, op.column>> THEN <<key[1], op.new>>
  ELSE key

\* A pending key follows a rename, also one that RunSql declares.
Follow(key, op) ==
  LET Step(k, each) ==
        IF each.op = "RenameTable" /\ k[1] = each.table THEN <<each.new, k[2]>>
        ELSE IF each.op = "RenameColumn" /\ k = <<each.table, each.column>>
        THEN <<k[1], each.new>> ELSE k
  IN  IF op.op = "RunSql" THEN Folded(Step, key, op.state) ELSE Step(key, op)

\* The columns of a new table whose reference has no target yet.
Unready(t, def, s) ==
  {c \in DOMAIN def.cols :
     LET ref == def.cols[c].ref
     IN  ref # <<>> /\ IF ref[1] = t THEN ~TargetReady(def, ref[2])
                       ELSE ~ForeignReady(def.cols[c], s)}

CreateStatements(t, def, s) ==
  <<[sql |-> "create table", table |-> t, types |-> Types(def),
     cons |-> UNION {IF c \in Unready(t, def, s) THEN OwnConstraints(t, c, def.cols[c])
                     ELSE ColumnConstraints(t, c, def.cols[c]) : c \in DOMAIN def.cols}
              \cup {TableConstraints(t, u) : u \in Range(def.uniques)}]>>
  \o [i \in DOMAIN def.indexes |->
        [sql |-> "create index",
         index |-> [name |-> IndexName(t, i), table |-> t, cols |-> def.indexes[i]]]]

\* Each constraint whose name changes, from its old to its new name; a
\* pending foreign key has no constraint to rename.
RenameConstraints(t, old, new, Column(_), pending) ==
  LET named == UNION {IF <<old, c>> \in pending THEN OwnConstraints(old, c, t.cols[c])
                      ELSE ColumnConstraints(old, c, t.cols[c]) : c \in DOMAIN t.cols}
               \cup {TableConstraints(old, u) : u \in Range(t.uniques)}
      After(k) == ConstraintName(new, k.kind, [i \in DOMAIN k.cols |-> Column(k.cols[i])])
  IN  Each(SetToSeq({k \in named : After(k) # k.name}),
           LAMBDA k : [sql |-> "rename constraint", table |-> new,
                       name |-> k.name, new |-> After(k)])

Position(list, columns) == CHOOSE i \in DOMAIN list : list[i] = columns

RenumberIndexes(t, old, new) ==
  Each(SelectSeq([i \in DOMAIN new |-> i], LAMBDA i : Position(old, new[i]) # i),
       LAMBDA i : [sql |-> "rename index", name |-> IndexName(t, Position(old, new[i])),
                   new |-> IndexName(t, i)])

\* Constraints go before the type changes and come back after it.
AlterStatements(t, c, old, new) ==
  LET retyped == old.type # new.type
      replaced == {k \in {"fk", "check", "pk", "unique"} :
                     CASE k = "fk"    -> retyped \/ old.ref # new.ref
                       [] k = "check" -> retyped \/ old.check # new.check
                       [] OTHER       -> old.key # new.key}
      dropped == {k \in ColumnConstraints(t, c, old) : k.kind \in replaced}
      added == {k \in ColumnConstraints(t, c, new) : k.kind \in replaced}
  IN  Each(SetToSeq(dropped), LAMBDA k : [sql |-> "drop constraint", table |-> t, name |-> k.name])
      \o (IF retyped
          THEN <<[sql |-> "alter type", table |-> t, column |-> c, type |-> new.type]>> ELSE <<>>)
      \o Each(SetToSeq({k \in added : k.kind # "fk"}) \o SetToSeq({k \in added : k.kind = "fk"}),
              LAMBDA k : [sql |-> "add constraint", con |-> k])

\* An altered column whose key is pending has no constraint to drop; one
\* whose new target is not ready waits.
AlterPlan(s, op, pending) ==
  LET after == StateForwards(s, op)
      absent == <<op.table, op.column>> \in pending
      replacing == absent \/ op.old.ref # op.new.ref \/ op.old.type # op.new.type
      foreign == ~replacing \/ ForeignReady(op.new, after)
  IN  [sql |-> AlterStatements(op.table, op.column,
                 IF absent THEN [op.old EXCEPT !.ref = <<>>] ELSE op.old,
                 IF foreign THEN op.new ELSE [op.new EXCEPT !.ref = <<>>]),
       deferred |-> IF foreign THEN {} ELSE {<<op.table, op.column>>}]

AddColumnPlan(s, op) ==
  LET foreign == ForeignReady(op.new, StateForwards(s, op))
  IN  [sql |-> <<[sql |-> "add column", table |-> op.table, column |-> op.column,
                  type |-> op.new.type,
                  cons |-> IF foreign THEN ColumnConstraints(op.table, op.column, op.new)
                           ELSE OwnConstraints(op.table, op.column, op.new)]>>,
       deferred |-> IF foreign THEN {} ELSE {<<op.table, op.column>>}]

RenameTablePlan(s, op, pending) ==
  LET t == s.tables[op.table]
  IN  <<[sql |-> "rename table", table |-> op.table, new |-> op.new]>>
      \o RenameConstraints(t, op.table, op.new, LAMBDA c : c, pending)
      \o [i \in DOMAIN t.indexes |-> [sql |-> "rename index", name |-> IndexName(op.table, i),
                                      new |-> IndexName(op.new, i)]]

RenameColumnPlan(s, op, pending) ==
  <<[sql |-> "rename column", table |-> op.table, column |-> op.column, new |-> op.new]>>
  \o RenameConstraints(s.tables[op.table], op.table, op.table,
                       LAMBDA c : Swap(c, op.column, op.new), pending)

\* plan_with_deferred, for an operation that applies to s.
PostgresPlan(s, op, pending) ==
  LET Only(statements) == [sql |-> statements, deferred |-> {}]
      list(which) == s.tables[op.table][which]
      left(which) == StateForwards(s, op).tables[op.table][which]
  IN
  CASE op.op \in {"CreateModel", "CreateTable"} ->
         [sql |-> CreateStatements(op.table, op.def, s),
          deferred |-> {<<op.table, c>> : c \in Unready(op.table, op.def, s)}]
    [] op.op = "DropTable"    -> Only(<<[sql |-> "drop table", table |-> op.table, strict |-> TRUE]>>)
    [] op.op = "RenameTable"  -> Only(RenameTablePlan(s, op, pending))
    [] op.op = "RenameColumn" -> Only(RenameColumnPlan(s, op, pending))
    [] op.op = "AddColumn"    -> AddColumnPlan(s, op)
    [] op.op = "RemoveColumn" ->
         Only(<<[sql |-> "drop column", table |-> op.table, column |-> op.column]>>
              \o RenumberIndexes(op.table, list("indexes"), left("indexes")))
    [] op.op = "AlterColumn"  -> AlterPlan(s, op, pending)
    [] op.op = "AddIndex"     ->
         Only(<<[sql |-> "create index",
                 index |-> [name |-> IndexName(op.table, Len(list("indexes")) + 1),
                            table |-> op.table, cols |-> op.columns]]>>)
    [] op.op = "RemoveIndex"  ->
         Only(<<[sql |-> "drop index",
                 name |-> IndexName(op.table, Position(list("indexes"), op.columns))]>>
              \o RenumberIndexes(op.table, list("indexes"), left("indexes")))
    [] op.op = "AddUnique"    ->
         Only(<<[sql |-> "add constraint", con |-> TableConstraints(op.table, op.columns)]>>)
    [] op.op = "RemoveUnique" ->
         Only(<<[sql |-> "drop constraint", table |-> op.table,
                 name |-> ConstraintName(op.table, "uniques", op.columns)]>>)
    [] op.op = "BackfillColumn" -> Only(<<[sql |-> "update"]>>)
    [] op.op = "CreateObject" -> Only(<<[sql |-> "create object", object |-> op.object]>>)
    [] op.op = "DropObject"   -> Only(<<[sql |-> "drop object", object |-> op.object]>>)
    [] op.op = "RunSql"       -> Only(op.forward)

-----------------------------------------------------------------------------
(* SQLite.                                                                 *)

RebuildOps == {"AddIndex", "RemoveIndex", "AddUnique", "RemoveUnique",
               "AddColumn", "RemoveColumn", "AlterColumn"}

\* Defect: only missing indexes are noticed.
RebuildAllowedUnmanaged(cat, s, t) ==
  /\ Range(s.tables[t].indexes) \subseteq {i.cols : i \in cat.idx}
  /\ \A o \in cat.objects : t \notin o.on

\* The table's indexes are exactly the recorded ones, compared by columns,
\* and no view or trigger may depend on it.
RebuildAllowed(cat, s, t) ==
  LET own == {i \in cat.idx : i.table = t}
  IN  /\ {i.cols : i \in own} = Range(s.tables[t].indexes)
      /\ Cardinality(own) = Len(s.tables[t].indexes)
      /\ \A o \in cat.objects : t \notin o.on

\* A reference is declared whether or not its target exists yet.
SqliteConstraints(t, after) ==
  {[k EXCEPT !.kind = Swap(@, "fk", "references")] :
     k \in {x \in Expected(after).cons : x.table = t}}

SqliteCreate(t, after) ==
  <<[sql |-> "create table", table |-> t, types |-> Types(after.tables[t]),
     cons |-> SqliteConstraints(t, after)]>>
  \o Each(SetToSeq(Indexes(t, after.tables[t])), LAMBDA i : [sql |-> "create index", index |-> i])

SqlitePlan(s, op) ==
  LET after == StateForwards(s, op)
      def == after.tables[op.table]
  IN
  CASE op.op \in RebuildOps ->
         <<[sql |-> "rebuild", table |-> op.table, types |-> Types(def),
            cons |-> SqliteConstraints(op.table, after), idx |-> Indexes(op.table, def)]>>
    [] op.op \in {"CreateModel", "CreateTable"} -> SqliteCreate(op.table, after)
    [] op.op = "DropTable"    ->
         <<[sql |-> "drop table", table |-> op.table, strict |-> FALSE]>>
    [] op.op = "RenameTable"  -> <<[sql |-> "rename table", table |-> op.table, new |-> op.new]>>
    [] op.op = "RenameColumn" ->
         <<[sql |-> "rename column", table |-> op.table, column |-> op.column, new |-> op.new]>>
    [] op.op = "BackfillColumn" -> <<[sql |-> "update"]>>
    [] op.op = "CreateObject" -> <<[sql |-> "create object", object |-> op.object]>>
    [] op.op = "DropObject"   -> <<[sql |-> "drop object", object |-> op.object]>>
    [] op.op = "RunSql"       -> op.forward

=============================================================================
