----------------------------- MODULE SyncServer -----------------------------
(***************************************************************************)
(* The authoritative side of one scope (che-sync/src/server.rs): rows with *)
(* revisions and tombstones, the journal of committed groups, and one      *)
(* receipt for every operation that got an outcome.  Each action is one    *)
(* database transaction; the scope row lock taken first makes them atomic. *)
(*                                                                         *)
(* A mutation group is a function from the ids it touches to mutations:    *)
(* the code refuses a group that names an id twice.                        *)
(***************************************************************************)
EXTENDS SyncData, Sequences

CONSTANTS
  Keys,         \* receipt keys: principal, replica and operation id
  Forbidden,    \* values the application's access policy refuses
  MaxRevision,  \* i64::MAX: the checked increment of a revision fails beyond
  MaxWrites,    \* bound: groups written by the server's own code
  MaxPrunes,    \* bound: journal rows deleted
  Requests      \* the push requests that may arrive

ASSUME ServerAssumption ==
  /\ MaxRevision \in Nat /\ MaxWrites \in Nat /\ MaxPrunes \in Nat
  /\ \A req \in Requests : req.key \in Keys /\ IsMutations(req.muts)

VARIABLES
  row,          \* id -> entity; a soft-deleted row is a tombstone
  journal,      \* the committed groups, journal[n] has sequence n
  retained,     \* sequences whose journal row has not been pruned
  receipts,     \* operations with an outcome: key, contents and result
  replies       \* every reply the server has sent

serverVars == <<row, journal, retained, receipts, replies>>

Sequence == Len(journal)

ServerInit ==
  /\ row = [i \in Ids |-> Absent]
  /\ journal = <<>>
  /\ retained = {}
  /\ receipts = {}
  /\ replies = {}

-----------------------------------------------------------------------------
(* Checks made on a group before anything is written.                      *)

Malformed(muts) ==
  \E i \in DOMAIN muts :
    \/ muts[i].changes # None /\ muts[i].changes \notin PatchOf(i)
    \/ muts[i].changes = None /\ row[i].rev = 0
    \/ muts[i].changes # None /\ muts[i].base = row[i].rev /\ Tombstone(row[i])

(* Defect: only a base ahead of the row is refused, an older one overwrites. *)
StaleAhead(muts) == \E i \in DOMAIN muts : muts[i].base > row[i].rev

Stale(muts) == \E i \in DOMAIN muts : muts[i].base # row[i].rev

(* A referenced parent is live, or this very group creates it. *)
ReferenceAllowed(p, muts) ==
  \/ Live(row[p])
  \/ row[p].rev = 0 /\ p \in Upserts(muts) /\ muts[p].base = 0

ReferencesAllowed(muts) ==
  \A i \in Upserts(muts) :
    "ref" \in DOMAIN muts[i].changes /\ muts[i].changes["ref"] \in Parents
      => ReferenceAllowed(muts[i].changes["ref"], muts)

(* Defect: the server trusts the client to send the required fields. *)
CreatesAnything(muts) == TRUE

(* INSERT: "ref" is nullable, "val" is not. *)
CreatesComplete(muts) ==
  \A i \in Upserts(muts) : muts[i].base = 0 => "val" \in DOMAIN muts[i].changes

-----------------------------------------------------------------------------
(* What the group does to the rows: upserts, parents first, then deletions *)
(* with their referential actions.                                         *)

Upserted(muts) ==
  [i \in Ids |-> IF i \in Upserts(muts) THEN Overlay(row[i].data, muts[i].changes)
                 ELSE row[i].data]

(* Live children of the deleted parents that the group does not delete. *)
Reached(muts) == Referring(Upserted(muts), Deletions(muts)) \ Deletions(muts)

Restricted(muts) == \E c \in Reached(muts) : OnDelete[c] = "restrict"

(* Defect: ON DELETE SET NULL is not carried out. *)
DeletedKeepingRefs(muts) ==
  [i \in Ids |->
     IF i \in Deletions(muts) \/ (i \in Reached(muts) /\ OnDelete[i] = "cascade") THEN None
     ELSE Upserted(muts)[i]]

Deleted(muts) ==
  [i \in Ids |->
     IF i \in Deletions(muts) \/ (i \in Reached(muts) /\ OnDelete[i] = "cascade") THEN None
     ELSE IF i \in Reached(muts) THEN [Upserted(muts)[i] EXCEPT !["ref"] = None]
     ELSE Upserted(muts)[i]]

(* Defect: the dependents of a deletion get no revision. *)
TouchedMutations(muts) == DOMAIN muts

(* The mutated entities and the dependents found before the group is       *)
(* applied: the only ones that are stamped and journalled.                 *)
Touched(muts) ==
  DOMAIN muts \cup
    {c \in Referring([i \in Ids |-> row[i].data], Deletions(muts)) : OnDelete[c] # "restrict"}

Affected(muts) ==
  {i \in Touched(muts) : i \in DOMAIN muts \/ Deleted(muts)[i] # row[i].data}

(* Defect: a deletion removes the row and the revision with it. *)
StampedHard(muts) ==
  [i \in Ids |-> IF Deleted(muts)[i] = None THEN Absent
                 ELSE IF i \in Affected(muts)
                 THEN [rev |-> row[i].rev + 1, data |-> Deleted(muts)[i]]
                 ELSE [rev |-> row[i].rev, data |-> Deleted(muts)[i]]]

Stamped(muts) ==
  [i \in Ids |-> IF i \in Affected(muts)
                 THEN [rev |-> row[i].rev + 1, data |-> Deleted(muts)[i]]
                 ELSE [rev |-> row[i].rev, data |-> Deleted(muts)[i]]]

(* Every step of apply_and_journal succeeds: no constraint, overflow or    *)
(* policy error rolls the savepoint back.                                  *)
Applicable(muts) ==
  LET next == Stamped(muts)
  IN /\ ReferencesAllowed(muts)
     /\ CreatesComplete(muts)
     /\ ~Restricted(muts)
     /\ \A i \in Affected(muts) :
          /\ next[i].rev <= MaxRevision
          /\ Live(next[i]) => next[i].data["val"] \notin Forbidden
          /\ Live(next[i]) /\ next[i].data["ref"] \in Parents
               => Live(next[next[i].data["ref"]])

(* Defect: the journal has the mutations, and not the effects of deletions. *)
ApplyAndJournalMutations(muts) ==
  /\ Applicable(muts)
  /\ row' = Stamped(muts)
  /\ journal' = Append(journal, [i \in DOMAIN muts |-> Stamped(muts)[i]])
  /\ retained' = retained \cup {Sequence + 1}

ApplyAndJournal(muts) ==
  /\ Applicable(muts)
  /\ row' = Stamped(muts)
  /\ journal' = Append(journal, [i \in Affected(muts) |-> Stamped(muts)[i]])
  /\ retained' = retained \cup {Sequence + 1}

-----------------------------------------------------------------------------
(* One operation of a replica.  The receipt is looked up under the lock,   *)
(* before any check; only an operation without one is executed, and every  *)
(* outcome leaves a receipt.                                               *)

(* Defect: an id with other contents counts as a new operation. *)
ReceiptedContents(req) == \E r \in receipts : r.key = req.key /\ r.muts = req.muts

Receipted(req) == \E r \in receipts : r.key = req.key

Result(kind, entities) == [kind |-> kind, entities |-> entities]

Answer(req, result) ==
  /\ receipts' = receipts \cup {[key |-> req.key, muts |-> req.muts, result |-> result]}
  /\ replies' = replies \cup {[key |-> req.key, result |-> result]}

Replay(req) ==
  \E r \in receipts :
    /\ r.key = req.key
    /\ r.muts = req.muts
    /\ replies' = replies \cup {[key |-> r.key, result |-> r.result]}
    /\ UNCHANGED <<row, journal, retained, receipts>>

Accept(req) ==
  /\ ~Receipted(req)
  /\ ~Malformed(req.muts)
  /\ ~Stale(req.muts)
  /\ ApplyAndJournal(req.muts)
  /\ Answer(req, Result("accepted", [i \in Affected(req.muts) |-> Stamped(req.muts)[i]]))

Refused(req) ==
  /\ ~Receipted(req)
  /\ ~Malformed(req.muts)
  /\ Stale(req.muts)
  /\ Answer(req, Result("conflict", [i \in DOMAIN req.muts |-> row[i]]))
  /\ UNCHANGED <<row, journal, retained>>

Reject(req) ==
  /\ ~Receipted(req)
  /\ \/ Malformed(req.muts)
     \/ ~Stale(req.muts) /\ ~Applicable(req.muts)
  /\ Answer(req, Result("rejected", [i \in {} |-> Absent]))
  /\ UNCHANGED <<row, journal, retained>>

Push(req) ==
  /\ DOMAIN req.muts # {}
  /\ Replay(req) \/ Accept(req) \/ Refused(req) \/ Reject(req)

-----------------------------------------------------------------------------
(* Writes by the server's own code through its ORM: bases are read under   *)
(* the lock, there is no receipt, and an error changes nothing.            *)

Here(S, changes) == [i \in S |-> [base |-> row[i].rev, changes |-> changes]]

OrmWrite(muts) ==
  /\ ApplyAndJournal(muts)
  /\ UNCHANGED <<receipts, replies>>

OrmInsert(i, data) ==
  /\ row[i].rev = 0
  /\ OrmWrite(Here({i}, data))

(* UPDATE and DELETE select live rows of one model. *)
OrmUpdate(S, patch) ==
  /\ S # {} /\ \A i \in S : Live(row[i])
  /\ OrmWrite(Here(S, patch))

OrmDelete(S) ==
  /\ S # {} /\ \A i \in S : Live(row[i])
  /\ OrmWrite(Here(S, None))

(* The rows of one table. *)
Tables == {Parents} \cup {{c \in Children : OnDelete[c] = a} : a \in {OnDelete[c] : c \in Children}}

(* Groups that no operation of a replica asked for. *)
OwnGroups == Sequence - Cardinality({r \in receipts : r.result.kind = "accepted"})

ServerWrite ==
  /\ OwnGroups < MaxWrites
  /\ \/ \E i \in Ids : \E d \in DataOf(i) : OrmInsert(i, [f \in FieldsOf(i) |-> d[f]])
     \/ \E T \in Tables : \E S \in SUBSET T :
          \/ OrmDelete(S)
          \/ \E p \in Patch : (\A i \in S : p \in PatchOf(i)) /\ OrmUpdate(S, p)

(* Retention: an operator deletes a journal row. *)
Prune(n) ==
  /\ n \in retained
  /\ Sequence - Cardinality(retained) < MaxPrunes
  /\ retained' = retained \ {n}
  /\ UNCHANGED <<row, journal, receipts, replies>>

(* What a pull returns after a cursor: the next retained groups, at most   *)
(* limit of them.  "feed" are the ids of the models that the request       *)
(* carries.                                                                *)
PageAfter(cursor, limit) ==
  LET later == {n \in retained : n > cursor}
  IN {n \in later : Cardinality({m \in later : m < n}) < limit}

(* Defect: only a journal that ends before the head counts as pruned. *)
HistoryLostAtEnd(cursor, limit) == PageAfter(cursor, limit) = {} /\ cursor < Sequence

(* Defect: only a gap in the page counts as pruned. *)
HistoryLostInPage(cursor, limit) ==
  LET page == PageAfter(cursor, limit)
  IN page # (cursor + 1)..(cursor + Cardinality(page))

(* The answer is ResetRequired: the journal was pruned in between. *)
HistoryLost(cursor, limit) ==
  LET page == PageAfter(cursor, limit)
  IN \/ page # (cursor + 1)..(cursor + Cardinality(page))
     \/ page = {} /\ cursor < Sequence

(* A feed sees its own models, and every effect of a deletion among them. *)
Projected(group, feed) ==
  IF \E i \in DOMAIN group \cap feed : ~Live(group[i]) THEN group
  ELSE [i \in DOMAIN group \cap feed |-> group[i]]

PageGroups(cursor, limit, feed) ==
  LET page == PageAfter(cursor, limit)
      nth(n) == CHOOSE m \in page : Cardinality({k \in page : k <= m}) = n
  IN [n \in 1..Cardinality(page) |-> Projected(journal[nth(n)], feed)]

(* The cursor behind the page: its last sequence. *)
PageEnd(cursor, limit) ==
  LET page == PageAfter(cursor, limit)
  IN IF page = {} THEN cursor ELSE CHOOSE m \in page : \A k \in page : k <= m

Snapshot(feed) ==
  LET carried == IF \E i \in feed : Tombstone(row[i]) THEN Ids ELSE feed
  IN [i \in {k \in carried : row[k].rev > 0} |-> row[i]]

ServerNext ==
  \/ \E req \in Requests : Push(req)
  \/ ServerWrite
  \/ \E n \in retained : Prune(n)

ServerSpec == ServerInit /\ [][ServerNext]_serverVars

-----------------------------------------------------------------------------
(* Properties.                                                             *)

(* Every part of the server's state has its type, and a row holds only     *)
(* data that its model's columns accept (validate, model.rs).              *)
TypeOK ==
  /\ row \in [Ids -> Entity]
  /\ \A i \in Ids : row[i].data \in DataOf(i) \cup {None}
  /\ \A n \in 1..Sequence : IsGroup(journal[n])
  /\ retained \subseteq 1..Sequence
  /\ \A r \in receipts : r.key \in Keys /\ IsMutations(r.muts) /\ IsGroup(r.result.entities)
  /\ \A r \in replies : r.key \in Keys /\ IsGroup(r.result.entities)

(* The groups that contain entity i, and its history in them. *)
GroupsOf(i) == {n \in 1..Sequence : i \in DOMAIN journal[n]}

(* Journal and rows tell one story: the groups of an entity number its     *)
(* revisions without a gap, and the last of them holds its row.  A replica *)
(* that applies the journal arrives at the rows, cascades included         *)
(* (apply_and_journal, collect_dependents).                                *)
JournalIsHistory ==
  \A i \in Ids :
    /\ \A n \in GroupsOf(i) : journal[n][i].rev = Cardinality({m \in GroupsOf(i) : m <= n})
    /\ row[i].rev = Cardinality(GroupsOf(i))
    /\ \A n \in GroupsOf(i) : (\A m \in GroupsOf(i) : m <= n) => journal[n][i] = row[i]

(* A live child refers to a live parent, whatever operations, cascades and *)
(* ORM writes ran (check_references, soft_delete).                         *)
References ==
  \A c \in Children :
    Live(row[c]) /\ row[c].data["ref"] \in Parents => Live(row[row[c].data["ref"]])

(* An operation has one outcome: a retry, a duplicate or a request that    *)
(* arrives late gets the result of the first execution, also after other   *)
(* replicas changed the same entities (receipt lookup, push_transaction).  *)
OneOutcome ==
  \A a, b \in replies : a.key = b.key => a.result = b.result

(* First writer wins: of all operations made against one revision of an    *)
(* entity at most one is accepted, and that one produces the next          *)
(* revision, so no accepted write is lost under another (base check of     *)
(* push_transaction, stamp).                                               *)
FirstWriterWins ==
  \A r \in receipts : r.result.kind = "accepted" =>
    /\ \A i \in DOMAIN r.muts : r.result.entities[i].rev = r.muts[i].base + 1
    /\ \A s \in receipts : s.result.kind = "accepted" /\ s.key # r.key =>
         \A i \in DOMAIN r.muts \cap DOMAIN s.muts : r.muts[i].base # s.muts[i].base

(* A deleted id never gets data again and no revision goes back: neither a *)
(* replayed creation nor a concurrent update revives a tombstone.          *)
DeletedForGood ==
  [][\A i \in Ids : /\ row'[i].rev >= row[i].rev
                    /\ Tombstone(row[i]) => Tombstone(row'[i])]_serverVars

(* The server is a store of versioned entities with operations decided     *)
(* once.                                                                   *)
Store == INSTANCE VersionedStore WITH store <- row, decided <- {r.key : r \in receipts}

(* Every step of the server is a step of that store.                       *)
ImplementsStore == Store!StoreSpec
=============================================================================
