--------------------------- MODULE MigrationGraph ---------------------------
(***************************************************************************)
(* The dependency graph of migrations (migration.rs, MigrationGraph).  A   *)
(* graph is a function from identities to migrations; an identity is       *)
(* <<app, number, name>>, compared in that order.  A migration has         *)
(* dependencies and operations; its checksum is a function of identity,    *)
(* dependencies and operations, so here the content stands for it.         *)
(***************************************************************************)
EXTENDS ProjectState

Before(a, b) ==
  \/ a[1] < b[1]
  \/ a[1] = b[1] /\ a[2] < b[2]
  \/ a[1] = b[1] /\ a[2] = b[2] /\ a[3] < b[3]

Checksum(g, id) == g[id]

\* The batches of Kahn's algorithm: what is ready after n batches.
Done(g) ==
  LET done[n \in 0..Cardinality(DOMAIN g)] ==
        IF n = 0 THEN {}
        ELSE LET earlier == done[n - 1]
             IN  earlier \cup {id \in DOMAIN g : g[id].deps \subseteq earlier}
  IN  done

\* No dependency is missing and none is circular.
WellFormed(g) ==
  /\ \A id \in DOMAIN g : g[id].deps \subseteq DOMAIN g
  /\ Done(g)[Cardinality(DOMAIN g)] = DOMAIN g

\* The batch of a migration.
Batch(g, id) == Min({n \in 1..Cardinality(DOMAIN g) : id \in Done(g)[n]})

\* Defect: the order of the names alone.
EarlierByName(g, a, b) == Before(a, b)

\* Batch after batch, each in the order of the identities.
Earlier(g, a, b) ==
  \/ Batch(g, a) < Batch(g, b)
  \/ Batch(g, a) = Batch(g, b) /\ Before(a, b)

\* The migrations of a set in graph order.
InGraphOrder(g, ids) ==
  [k \in 1..Cardinality(ids) |->
     CHOOSE id \in ids : Cardinality({other \in ids : Earlier(g, other, id)}) = k - 1]

Ordered(g) == InGraphOrder(g, DOMAIN g)

AppHeads(g, app) ==
  {id \in DOMAIN g : /\ id[1] = app
                     /\ \A other \in DOMAIN g : other[1] = app => id \notin g[other].deps}

\* Two heads of one application need a merge migration first.
ValidHeads(g) == \A id \in DOMAIN g : Cardinality(AppHeads(g, id[1])) <= 1

\* The target and what it depends on: the least set closed under dependencies.
TargetClosure(g, target) ==
  {id \in DOMAIN g :
     \A ids \in SUBSET DOMAIN g :
       target \in ids /\ (\A each \in ids : g[each].deps \subseteq ids) => id \in ids}

\* What is recorded is known and closed under dependencies.
ValidApplied(g, applied) == \A id \in applied : id \in DOMAIN g /\ g[id].deps \subseteq applied

ReplayAll(g, s, ids) ==
  Folded(LAMBDA before, id : IF before = Invalid THEN before ELSE Forwards(before, g[id].ops),
         s, ids)

\* The state after the selected migrations, replayed in graph order.
ReplaySelected(g, selected) ==
  IF ~ValidApplied(g, selected) THEN Invalid
  ELSE ReplayAll(g, Empty, InGraphOrder(g, selected))

Replay(g) == ReplaySelected(g, DOMAIN g)

\* A target is <<>> for everything, or <<id>>.
Desired(g, target) == IF target = <<>> THEN DOMAIN g ELSE TargetClosure(g, target[1])

\* An applied migration of the target's application is already past it.
PastTarget(g, applied, target) ==
  /\ target # <<>>
  /\ \E id \in applied \ {target[1]} :
       id[1] = target[1][1] /\ target[1] \in TargetClosure(g, id)

\* The pending migrations in graph order; Invalid when refused, and refused
\* as a whole when any pending operation does not apply.
PlanForward(g, applied, target) ==
  LET pending == InGraphOrder(g, Desired(g, target) \ applied)
  IN  IF \/ ~ValidApplied(g, applied)
         \/ ~ValidHeads(g)
         \/ target # <<>> /\ target[1] \notin DOMAIN g
         \/ PastTarget(g, applied, target)
         \/ ReplayAll(g, ReplaySelected(g, applied), pending) = Invalid
      THEN Invalid ELSE pending

=============================================================================
