---------------------------- MODULE ProjectState ----------------------------
(***************************************************************************)
(* The schema a history of migrations describes (migration.rs): tables,    *)
(* the identity of the model behind each, and the views and triggers that  *)
(* belong to the project.  Operations change a state or are refused; Diff  *)
(* computes the operations that lead from one state to another.            *)
(*                                                                         *)
(* A column keeps what the database sees of it: its type, its key, whether *)
(* it has a CHECK, and the column it refers to (<<>> for none).  The order *)
(* of the indexes of a table matters: an index is named by its position.   *)
(***************************************************************************)
EXTENDS Naturals, FiniteSets, SequencesExt

CONSTANTS
  ModelOrder,   \* the model keys, in the order of a BTreeMap
  ColumnOrder,  \* the column names, in that order
  Invalid       \* the value of a replay that was refused

ColumnNames == Range(ColumnOrder)

\* A fold from the left; each intermediate value is computed once.
Folded(Op(_, _), start, list) ==
  LET fold[n \in 0..Len(list)] ==
        IF n = 0 THEN start
        ELSE CHOOSE x \in {Op(before, list[n]) : before \in {fold[n - 1]}} : TRUE
  IN  fold[Len(list)]

Empty == [tables |-> <<>>, keys |-> <<>>, objects |-> {}]

Tables(s) == DOMAIN s.tables

Without(f, x) == Restrict(f, DOMAIN f \ {x})

Renamed(f, old, new) ==
  [x \in (DOMAIN f \ {old}) \cup {new} |-> IF x = new THEN f[old] ELSE f[x]]

\* Some column of some table, the table itself included, refers to one of
\* the columns of target.
InboundReference(s, target, columns) ==
  \E t \in Tables(s) : \E c \in DOMAIN s.tables[t].cols :
    LET ref == s.tables[t].cols[c].ref
    IN  ref # <<>> /\ ref[1] = target /\ ref[2] \in columns

\* Every reference of every column, moved by Move.
Redirected(s, Move(_)) ==
  [s EXCEPT !.tables = [t \in DOMAIN s.tables |->
     [s.tables[t] EXCEPT !.cols = [c \in DOMAIN s.tables[t].cols |->
        [s.tables[t].cols[c] EXCEPT !.ref = Move(s.tables[t].cols[c].ref)]]]]]

\* A constraint names at least one column, and only columns of the table.
ValidConstraint(def, columns) == columns # <<>> /\ Range(columns) \subseteq DOMAIN def.cols

Covered(def) == UNION {Range(columns) : columns \in Range(def.indexes) \cup Range(def.uniques)}

Valid(s) ==
  /\ \A t \in Tables(s) :
       \A columns \in Range(s.tables[t].indexes) \cup Range(s.tables[t].uniques) :
         ValidConstraint(s.tables[t], columns)
  /\ \A o \in s.objects : o.kind = "table" => o.name \notin Tables(s)

-----------------------------------------------------------------------------
(* The operations of a migration on the state.                             *)

CreateTable(s, op) ==
  IF op.table \in Tables(s) THEN Invalid
  ELSE [s EXCEPT !.tables = [t \in DOMAIN @ \cup {op.table} |->
                               IF t = op.table THEN op.def ELSE @[t]]]

CreateModel(s, op) ==
  IF op.key \in Range(s.keys) \/ CreateTable(s, op) = Invalid THEN Invalid
  ELSE [CreateTable(s, op) EXCEPT
          !.keys = [t \in DOMAIN @ \cup {op.table} |-> IF t = op.table THEN op.key ELSE @[t]]]

DropTable(s, op) ==
  IF op.table \notin Tables(s) \/ InboundReference(s, op.table, ColumnNames) THEN Invalid
  ELSE [s EXCEPT !.tables = Without(@, op.table), !.keys = Without(@, op.table)]

RenameTable(s, op) ==
  IF op.table \notin Tables(s) \/ op.new \in Tables(s) THEN Invalid
  ELSE LET moved == [s EXCEPT
             !.tables = Renamed(@, op.table, op.new),
             !.keys = IF op.table \in DOMAIN @ THEN Renamed(@, op.table, op.new) ELSE @]
       IN  Redirected(moved, LAMBDA ref : IF ref # <<>> /\ ref[1] = op.table
                                          THEN <<op.new, ref[2]>> ELSE ref)

AddColumn(s, op) ==
  IF op.table \notin Tables(s) \/ op.column \in DOMAIN s.tables[op.table].cols THEN Invalid
  ELSE [s EXCEPT !.tables[op.table].cols =
          [c \in DOMAIN @ \cup {op.column} |-> IF c = op.column THEN op.new ELSE @[c]]]

RemoveColumn(s, op) ==
  IF \/ InboundReference(s, op.table, {op.column})
     \/ op.table \notin Tables(s)
     \/ op.column \in Covered(s.tables[op.table])
     \/ op.column \notin DOMAIN s.tables[op.table].cols
  THEN Invalid
  ELSE [s EXCEPT !.tables[op.table].cols = Without(@, op.column)]

\* Refused while any column of the table has a CHECK, whose text is opaque.
RenameColumn(s, op) ==
  IF \/ op.table \notin Tables(s)
     \/ \E c \in DOMAIN s.tables[op.table].cols : s.tables[op.table].cols[c].check
     \/ op.new \in DOMAIN s.tables[op.table].cols
     \/ op.column \notin DOMAIN s.tables[op.table].cols
  THEN Invalid
  ELSE LET Name(c) == IF c = op.column THEN op.new ELSE c
           Names(columns) == [i \in DOMAIN columns |-> Name(columns[i])]
           All(lists) == [i \in DOMAIN lists |-> Names(lists[i])]
           moved == [s EXCEPT !.tables[op.table] =
                       [cols |-> Renamed(@.cols, op.column, op.new),
                        indexes |-> All(@.indexes), uniques |-> All(@.uniques)]]
       IN  Redirected(moved, LAMBDA ref : IF ref = <<op.table, op.column>>
                                          THEN <<op.table, op.new>> ELSE ref)

\* The column must be exactly the one the migration was written against.
AlterColumn(s, op) ==
  IF \/ op.table \notin Tables(s)
     \/ op.column \notin DOMAIN s.tables[op.table].cols
     \/ s.tables[op.table].cols[op.column] # op.old
  THEN Invalid
  ELSE [s EXCEPT !.tables[op.table].cols[op.column] = op.new]

\* Add and remove one element of a list of constraints of a table.
AddTo(s, op, list) ==
  IF \/ op.table \notin Tables(s)
     \/ ~ValidConstraint(s.tables[op.table], op.columns)
     \/ op.columns \in Range(s.tables[op.table][list])
  THEN Invalid
  ELSE [s EXCEPT !.tables[op.table][list] = Append(@, op.columns)]

RemoveFrom(s, op, list) ==
  IF op.table \notin Tables(s) \/ op.columns \notin Range(s.tables[op.table][list]) THEN Invalid
  ELSE [s EXCEPT !.tables[op.table] =
          [@ EXCEPT ![list] = SelectSeq(@, LAMBDA columns : columns # op.columns)]]

CreateObject(s, op) ==
  IF \E o \in s.objects : o.kind = op.object.kind /\ o.name = op.object.name THEN Invalid
  ELSE [s EXCEPT !.objects = @ \cup {op.object}]

DropObject(s, op) ==
  IF \A o \in s.objects : o.kind # op.object.kind \/ o.name # op.object.name THEN Invalid
  ELSE [s EXCEPT !.objects =
          {o \in @ : o.kind # op.object.kind \/ o.name # op.object.name}]

\* A backfill changes rows only, but its column must exist.
BackfillColumn(s, op) ==
  IF op.table \in Tables(s) /\ op.column \in DOMAIN s.tables[op.table].cols THEN s ELSE Invalid

Structural(s, op) ==
  CASE op.op = "CreateModel"      -> CreateModel(s, op)
    [] op.op = "CreateTable"      -> CreateTable(s, op)
    [] op.op = "DropTable"        -> DropTable(s, op)
    [] op.op = "RenameTable"      -> RenameTable(s, op)
    [] op.op = "AddColumn"        -> AddColumn(s, op)
    [] op.op = "RemoveColumn"     -> RemoveColumn(s, op)
    [] op.op = "RenameColumn"     -> RenameColumn(s, op)
    [] op.op = "AlterColumn"      -> AlterColumn(s, op)
    [] op.op = "AddIndex"         -> AddTo(s, op, "indexes")
    [] op.op = "RemoveIndex"      -> RemoveFrom(s, op, "indexes")
    [] op.op = "AddUnique"        -> AddTo(s, op, "uniques")
    [] op.op = "RemoveUnique"     -> RemoveFrom(s, op, "uniques")
    [] op.op = "BackfillColumn"   -> BackfillColumn(s, op)
    [] op.op = "CreateObject"     -> CreateObject(s, op)
    [] op.op = "DropObject"       -> DropObject(s, op)

\* A refusal stays a refusal; RunSql has the effect its author declares.
StateForwards(s, op) ==
  LET Step(before, each) == IF before = Invalid THEN Invalid ELSE Structural(before, each)
  IN  IF s = Invalid THEN Invalid
      ELSE IF op.op = "RunSql" THEN Folded(Step, s, op.state) ELSE Structural(s, op)

\* Every operation leaves a valid state.
Forwards(s, ops) ==
  LET Step(before, op) ==
        CHOOSE x \in {IF after # Invalid /\ Valid(after) THEN after ELSE Invalid :
                        after \in {StateForwards(before, op)}} : TRUE
  IN  Folded(Step, s, ops)

-----------------------------------------------------------------------------
(* The difference of two states, as operations in the order of the source. *)

Covers(s) == DOMAIN s.keys = Tables(s) /\ Valid(s)

TableOf(s, key) == CHOOSE t \in DOMAIN s.keys : s.keys[t] = key

Each(names, Change(_)) == [i \in DOMAIN names |-> Change(names[i])]

ColumnsIn(names) == SelectSeq(ColumnOrder, LAMBDA c : c \in names)

ConstraintChanges(t, old, new, remove, add) ==
  Each(SelectSeq(old, LAMBDA columns : columns \notin Range(new)),
       LAMBDA columns : [op |-> remove, table |-> t, columns |-> columns])
  \o
  Each(SelectSeq(new, LAMBDA columns : columns \notin Range(old)),
       LAMBDA columns : [op |-> add, table |-> t, columns |-> columns])

ColumnChanges(t, old, new) ==
  Each(ColumnsIn(DOMAIN old \ DOMAIN new),
       LAMBDA c : [op |-> "RemoveColumn", table |-> t, column |-> c])
  \o
  Each(ColumnsIn({c \in DOMAIN new : c \notin DOMAIN old \/ old[c] # new[c]}),
       LAMBDA c : IF c \in DOMAIN old
                  THEN [op |-> "AlterColumn", table |-> t, column |-> c,
                        old |-> old[c], new |-> new[c]]
                  ELSE [op |-> "AddColumn", table |-> t, column |-> c, new |-> new[c]])

\* Defect: the changes of a renamed table are written against its old name.
ModelChangesOldName(old, new, key) ==
  LET t == TableOf(new, key)
  IN  IF key \notin Range(old.keys)
      THEN <<[op |-> "CreateModel", key |-> key, table |-> t, def |-> new.tables[t]]>>
      ELSE LET was == TableOf(old, key)
               from == old.tables[was]
               to == new.tables[t]
           IN  (IF was = t THEN <<>> ELSE <<[op |-> "RenameTable", table |-> was, new |-> t]>>)
               \o ColumnChanges(was, from.cols, to.cols)
               \o ConstraintChanges(was, from.indexes, to.indexes, "RemoveIndex", "AddIndex")
               \o ConstraintChanges(was, from.uniques, to.uniques, "RemoveUnique", "AddUnique")

ModelChanges(old, new, key) ==
  LET t == TableOf(new, key)
  IN  IF key \notin Range(old.keys)
      THEN <<[op |-> "CreateModel", key |-> key, table |-> t, def |-> new.tables[t]]>>
      ELSE LET was == TableOf(old, key)
               from == old.tables[was]
               to == new.tables[t]
           IN  (IF was = t THEN <<>> ELSE <<[op |-> "RenameTable", table |-> was, new |-> t]>>)
               \o ColumnChanges(t, from.cols, to.cols)
               \o ConstraintChanges(t, from.indexes, to.indexes, "RemoveIndex", "AddIndex")
               \o ConstraintChanges(t, from.uniques, to.uniques, "RemoveUnique", "AddUnique")

AllModelChanges(old, new) ==
  Each(SelectSeq(ModelOrder, LAMBDA key : key \in Range(old.keys) \ Range(new.keys)),
       LAMBDA key : [op |-> "DropTable", table |-> TableOf(old, key)])
  \o
  FlattenSeq(Each(SelectSeq(ModelOrder, LAMBDA key : key \in Range(new.keys)),
                  LAMBDA key : ModelChanges(old, new, key)))

\* Defect: only created, dropped and renamed tables count as changed.
ChangedTablesWhole(changes) ==
  {changes[i].table : i \in {j \in DOMAIN changes :
     changes[j].op \in {"CreateModel", "DropTable", "RenameTable"}}}

ChangedTables(changes) ==
  {changes[i].table : i \in DOMAIN changes}
  \cup {changes[i].new : i \in {j \in DOMAIN changes : changes[j].op = "RenameTable"}}

\* A view or trigger that mentions a changed table is dropped before the
\* changes and created again after them.
Diff(old, new) ==
  LET models == AllModelChanges(old, new)
      Touched(o) == o.on \cap ChangedTables(models) # {}
      before == {o \in old.objects : o \notin new.objects \/ Touched(o)}
      after == {o \in new.objects : o \notin old.objects \/ Touched(o)}
  IN  IF ~Covers(old) \/ ~Covers(new) THEN Invalid
      ELSE Each(SetToSeq(before), LAMBDA o : [op |-> "DropObject", object |-> o])
           \o models
           \o Each(SetToSeq(after), LAMBDA o : [op |-> "CreateObject", object |-> o])

=============================================================================
