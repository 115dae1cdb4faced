----------------------------- MODULE MCMigrator -----------------------------
(***************************************************************************)
(* Two models, Author (key <<1, 1>>) and Book (<<1, 2>>), in up to two     *)
(* tables, and the states their definitions may go through.                *)
(***************************************************************************)
EXTENDS Migrator

CONSTANTS none, invalid, p1, p2

Keys == << <<1, 1>>, <<1, 2>> >>
Names == <<"id", "ref", "x", "y">>

Column(type, key, ref) == [type |-> type, key |-> key, check |-> FALSE, ref |-> ref]
Id == Column("int", "primary", <<>>)
Plain == Column("text", "plain", <<>>)
Refers(t, c) == Column("int", "plain", <<t, c>>)

Table(cols, indexes, uniques) == [cols |-> cols, indexes |-> indexes, uniques |-> uniques]

\* A state of the two models: their tables and definitions.
Models(a, author, b, book, objects) ==
  [tables |-> [t \in {a, b} |-> IF t = a THEN author ELSE book],
   keys |-> [t \in {a, b} |-> IF t = a THEN <<1, 1>> ELSE <<1, 2>>],
   objects |-> objects]

View(on) == [kind |-> "view", name |-> "v", on |-> on]

Author == Table([id |-> Id, x |-> Plain, y |-> Plain], << <<"x">>, <<"y">> >>, <<>>)
AuthorOneIndex == [Author EXCEPT !.indexes = << <<"y">> >>]
AuthorBare == [Author EXCEPT !.indexes = <<>>]
AuthorNarrow == Table([id |-> Id, y |-> Plain], << <<"y">> >>, <<>>)
AuthorUnique == Table([id |-> Id, x |-> [Plain EXCEPT !.key = "unique"], y |-> Plain],
                      << <<"y">> >>, << <<"y">> >>)
\* Each refers to the other; Author is created first.
AuthorCyclic == Table([id |-> Id, ref |-> Refers("b", "x")], <<>>, <<>>)
Book(ref) == Table([id |-> Id, ref |-> Refers(ref, "id"), x |-> Plain], <<>>, << <<"x">> >>)
BookPlain == Table([id |-> Id, x |-> [Plain EXCEPT !.check = TRUE]], << <<"x">> >>, <<>>)
BookRetyped == Table([id |-> Id, ref |-> [Refers("a", "id") EXCEPT !.type = "bigint"], x |-> Plain],
                     <<>>, << <<"x">> >>)

AuthorAlone ==
  [tables |-> [t \in {"a"} |-> Author], keys |-> [t \in {"a"} |-> <<1, 1>>], objects |-> {}]

RegisteredStates ==
  {Models("a", Author, "b", BookPlain, {View({"b"})}),
   Models("a", AuthorOneIndex, "b", Book("a"), {View({"b"})}),
   Models("a", AuthorNarrow, "b", BookRetyped, {View({"a"})}),
   Models("a", AuthorUnique, "c", Book("a"), {}),
   Models("n", Author, "b", Book("n"), {}),
   Models("a", AuthorCyclic, "b", Book("a"), {View({"b"})}),
   AuthorAlone}

\* A column goes with its index.
IndexedStates == {Models("a", author, "b", BookPlain, {}) : author \in {Author, AuthorNarrow}}

\* Two branches that each add an index to the same table.
BranchStates ==
  {Models("a", author, "b", BookPlain, {}) :
     author \in {AuthorBare, AuthorOneIndex, [Author EXCEPT !.indexes = << <<"x">> >>]}}

RunSql(control, forward, state) ==
  [op |-> "RunSql", control |-> control, forward |-> forward, state |-> state]

\* In the first, the pending reference of a new table follows the renames of
\* its migration; the second tries to commit in the middle of itself.
WrittenOps ==
  {<<2, << [op |-> "CreateTable", table |-> "c",
            def |-> Table([id |-> Id, ref |-> Refers("n", "y")], << <<"ref">> >>, <<>>)],
           [op |-> "RenameColumn", table |-> "c", column |-> "ref", new |-> "x"],
           RunSql(FALSE,
                  << [sql |-> "rename table", table |-> "c", new |-> "b"],
                     [sql |-> "rename constraint", table |-> "b",
                      name |-> <<"c", "pk", <<"id">>>>, new |-> <<"b", "pk", <<"id">>>>],
                     [sql |-> "rename index", name |-> <<"c", 1>>, new |-> <<"b", 1>>] >>,
                  << [op |-> "RenameTable", table |-> "c", new |-> "b"] >>),
           [op |-> "CreateTable", table |-> "n", def |-> Table([id |-> Id, y |-> Plain], <<>>, <<>>)],
           [op |-> "AddUnique", table |-> "n", columns |-> <<"y">>] >> >>,
   <<1, << [op |-> "AddColumn", table |-> "b", column |-> "y", new |-> Plain],
           [op |-> "BackfillColumn", table |-> "b", column |-> "y"],
           RunSql(TRUE, << [sql |-> "update"] >>, <<>>) >> >>}

HandColumnsOfTwo == {<<"a", "y">>}

BothBackends == {"postgres", "sqlite"}
SameProcesses == Permutations(Processes)
NoTarget == {<<>>}
AnyTarget == {<<>>, << <<1, 1, 1>> >>}
=============================================================================
