----------------------------- MODULE SyncClient -----------------------------
(***************************************************************************)
(* The durable state of the replicas (che-sync/src/client.rs) and the      *)
(* transactions on it: writes of the application, the preparation of an    *)
(* operation, its completion, and the application of received groups.      *)
(* Each action is one transaction under the client's write lock; where the *)
(* code returns an error the transaction has no effect and the action is   *)
(* not enabled.                                                            *)
(*                                                                         *)
(* d is the database of one client:                                        *)
(*   local     id -> visible row              shadow  id -> last known entity *)
(*   dirty     ids to compare with the shadow                              *)
(*   deleting  ids whose row the application deleted                       *)
(*   conflict  id -> conflict or None         outbox  unfinished operations *)
(*   cursor    feed -> sequence or None       reset   feeds to load again  *)
(***************************************************************************)
EXTENDS Merge, SequencesExt, TLC

CONSTANTS
  Clients,
  Feeds,          \* {"scope"}, or the model feeds {"parents", "children"}
  MaxMutations,   \* of the transport, per operation
  Protocol        \* 1: commit groups of a scope or a model feed; 2: a log per model;
                  \* 3: objects of one model, under rights of their own

ASSUME ClientAssumption ==
  /\ Feeds = {"scope"} \/ Feeds = {"parents", "children"}
  /\ MaxMutations \in Nat \ {0}
  /\ Protocol \in {1, 2, 3}
  /\ Protocol = 3 => Feeds = {"scope"} /\ Children = {}
  /\ None \notin Nat            \* no sequence of the journal

VARIABLE db       \* client -> its database

(* The ids of the feed's own model, and the ids that the feed carries: its *)
(* model and the models it refers to (feed_models).                        *)
OwnIds(f) == CASE f = "scope" -> Ids [] f = "parents" -> Parents [] f = "children" -> Children

FeedIds(f) == IF f = "parents" THEN Parents ELSE Ids

EmptyDatabase ==
  [local    |-> [i \in Ids |-> None],
   shadow   |-> [i \in Ids |-> Absent],
   dirty    |-> {},
   deleting |-> {},
   conflict |-> [i \in Ids |-> None],
   outbox   |-> {},
   cursor   |-> [f \in Feeds |-> None],
   reset    |-> {}]

ClientInit == db = [c \in Clients |-> EmptyDatabase]

ShadowRow(d, i) == RecordOf(d.shadow[i])

(* A conflict that is not retryable waits for the application: its base    *)
(* and acknowledgement are not used again.                                 *)
Clash == [retryable |-> FALSE, base |-> None, ack |-> None]

Deferred(base, ack) == [retryable |-> TRUE, base |-> base, ack |-> ack]

Retryable(d, i) == d.conflict[i] # None /\ d.conflict[i].retryable

(* The application deleted the row, and it is not there again. *)
LocallyDeleted(d, i) == i \in d.deleting /\ d.local[i] = None

Conflicts(d) == {i \in Ids : d.conflict[i] # None}

-----------------------------------------------------------------------------
(* Writes of the application (save_local, delete_local, resolve).  The     *)
(* local database enforces the foreign keys.                               *)

Save(c, i, r) ==
  LET d == db[c]
  IN /\ RefsPresent([d.local EXCEPT ![i] = r])
     /\ db' = [db EXCEPT ![c].local[i]  = r,
                         ![c].deleting = @ \ {i},
                         ![c].dirty    = @ \cup {i}]

Insert(c, i, data) ==
  /\ db[c].local[i] = None
  /\ Save(c, i, [rev |-> 0, data |-> data])

Update(c, i, data) ==
  /\ db[c].local[i] # None
  /\ db[c].local[i].data # data
  /\ Save(c, i, [db[c].local[i] EXCEPT !.data = data])

(* Defect: the dependents are those that the server knows of. *)
DependentsKnown(d, i) == {k \in Children : RefOf(ShadowRow(d, k)) = i}

Dependents(d, i) == {k \in Children : d.local[k] # None /\ d.local[k].data["ref"] = i}

Delete(c, i) ==
  LET d == db[c]
      deps == IF i \in Parents THEN Dependents(d, i) ELSE {}
      gone == {i} \cup {k \in deps : OnDelete[k] = "cascade"}
  IN /\ d.local[i] # None \/ Live(d.shadow[i])
     /\ \A k \in deps : OnDelete[k] # "restrict"
     /\ db' = [db EXCEPT
          ![c].local    = [k \in Ids |-> IF k \in gone THEN None
                                         ELSE IF k \in deps THEN [@[k] EXCEPT !.data["ref"] = None]
                                         ELSE @[k]],
          ![c].deleting = @ \cup gone,
          ![c].conflict = [k \in Ids |-> IF k \in gone /\ Retryable(d, k) THEN None ELSE @[k]],
          ![c].dirty    = @ \cup gone \cup deps]

(* data = None removes the row; the application takes its own row, the     *)
(* shadow's or any other.                                                  *)
Resolve(c, i, data) ==
  LET d == db[c]
      r == IF data = None THEN None ELSE [rev |-> d.shadow[i].rev, data |-> data]
  IN /\ d.conflict[i] # None
     /\ ~(Tombstone(d.shadow[i]) /\ r # None)
     /\ RefsPresent([d.local EXCEPT ![i] = r])
     /\ db' = [db EXCEPT ![c].local[i]    = r,
                         ![c].deleting    = IF r = None THEN @ \cup {i} ELSE @ \ {i},
                         ![c].conflict[i] = None,
                         ![c].dirty       = @ \cup {i}]

-----------------------------------------------------------------------------
(* What a feed has to send, and what an operation in flight freezes.       *)

(* Defect: a deletion has no fields to send. *)
ChangedFields(d, i) ==
  LET base == ShadowRow(d, i)
      patch == PatchRow(i, base, d.local[i])
  IN patch # None /\ (base = None \/ DOMAIN patch # {})

Changed(d, i) ==
  LET base == ShadowRow(d, i)
      patch == PatchRow(i, base, d.local[i])
  IN IF patch = None THEN base # None ELSE base = None \/ DOMAIN patch # {}

Unsent(d) == {i \in d.dirty : Changed(d, i)}

(* Parents that rows of S refer to and that the server does not have yet.  *)
MissingParents(d, S) ==
  {p \in Parents : ~Live(d.shadow[p]) /\ \E k \in S \cap Children : RefOf(d.local[k]) = p}

(* The rows of the feed's model, the dirty children of parents it deletes, *)
(* and the parents it has to create first (selected_entities).             *)
Selected(d, f) ==
  LET own == Unsent(d) \cap OwnIds(f)
      bereft == {k \in Unsent(d) \cap Children :
                   \E p \in own \cap Parents :
                     d.local[p] = None /\ p \in {RefOf(d.local[k]), RefOf(ShadowRow(d, k))}}
  IN IF f = "scope" THEN own
     ELSE own \cup bereft \cup MissingParents(d, own \cup bereft)

(* Otherwise: "missing tracked local FK dependency". *)
Selectable(d, f) == f # "scope" => Selected(d, f) \subseteq d.dirty

EntityDeps(d, S) ==
  S \cup (Parents \cap UNION {{RefOf(d.local[k]), RefOf(ShadowRow(d, k))} : k \in S \cap Children})

SentRefs(op) ==
  {op.muts[k].changes["ref"] :
     k \in {j \in Upserts(op.muts) : "ref" \in DOMAIN op.muts[j].changes}}

OperationDeps(d, op) == EntityDeps(d, DOMAIN op.muts) \cup (Parents \cap SentRefs(op))

(* S meets the entities and references that op freezes. *)
Frozen(d, S, op) ==
  \/ S \cap OperationDeps(d, op) # {}
  \/ DOMAIN op.muts \cap EntityDeps(d, S) # {}

(* The operation that feed f retries: its own, or one in its way.  With    *)
(* two of its own the code gives up ("multiple outbox groups").            *)
Owned(d, f) == {op \in d.outbox : op.feed = f}

Pending(d, f) ==
  LET related == {op \in d.outbox : Selected(d, f) \cap OperationDeps(d, op) # {}}
  IN IF Owned(d, f) # {} THEN {op \in Owned(d, f) : Cardinality(Owned(d, f)) = 1}
     ELSE IF f = "scope" \/ ~Selectable(d, f) THEN {}
     ELSE {op \in related : \A o \in related : op.number <= o.number}

(* The model an operation of feed f carries. *)
SendFeed(d, f) ==
  LET sel == Selected(d, f)
  IN IF f = "scope" THEN f
     ELSE IF MissingParents(d, sel) # {} THEN "parents"
     ELSE IF sel \subseteq OwnIds(f) THEN f
     ELSE CHOOSE g \in Feeds : g # f

Sendable(d, f) ==
  LET need == MissingParents(d, Selected(d, f))
  IN Selected(d, f) \cap OwnIds(SendFeed(d, f)) \cap (IF f = "scope" \/ need = {} THEN Ids ELSE need)

MutationOf(d, i) ==
  [base |-> d.shadow[i].rev, changes |-> PatchRow(i, ShadowRow(d, i), d.local[i])]

(* Deletions are sent first, within a kind parents before children. *)
Rank(d, i) == (IF d.local[i] = None THEN 0 ELSE 2) + (IF i \in Parents THEN 0 ELSE 1)

(* The first MaxMutations of S in that order. *)
FirstOf(d, S) ==
  {T \in SUBSET S : /\ Cardinality(T) = IF Cardinality(S) <= MaxMutations
                                        THEN Cardinality(S) ELSE MaxMutations
                    /\ \A i \in T, j \in S \ T : Rank(d, i) <= Rank(d, j)}

Preparable(d, f) ==
  /\ Owned(d, f) = {}
  /\ f = "scope" => d.outbox = {}
  /\ Selectable(d, f)
  /\ \A op \in d.outbox : ~Frozen(d, Selected(d, f), op)
  /\ (IF f = "scope" THEN Ids ELSE Selected(d, f)) \cap Conflicts(d) = {}

(* Defect: whatever a preparation saw leaves the dirty set. *)
TidiedAll(d) == [d EXCEPT !.dirty = {}]

(* Defect: a row in conflict leaves the dirty set. *)
TidiedConflicts(d) ==
  [d EXCEPT !.dirty = Unsent(d) \ Conflicts(d), !.deleting = @ \ (d.dirty \ Unsent(d))]

(* Rows that no longer differ from the shadow leave the dirty set. *)
Tidied(d) == [d EXCEPT !.dirty = Unsent(d), !.deleting = @ \ (d.dirty \ Unsent(d))]

(* The operation is stored, under a number of its own, before it is sent. *)
Prepare(c, f, number) ==
  LET d == db[c]
      sendable == Sendable(d, f)
  IN /\ Preparable(d, f)
     /\ sendable # {}
     /\ \E S \in FirstOf(d, sendable) :
          db' = [db EXCEPT ![c] = [Tidied(d) EXCEPT !.outbox = @ \cup
                   {[number |-> number, feed |-> SendFeed(d, f),
                     muts |-> [i \in S |-> MutationOf(d, i)]]}]]

PrepareNothing(c, f) ==
  /\ Tidied(db[c]) # db[c]
  /\ Preparable(db[c], f)
  /\ Sendable(db[c], f) = {}
  /\ db' = [db EXCEPT ![c] = Tidied(db[c])]

-----------------------------------------------------------------------------
(* Received entities become updates of one local transaction.  An update   *)
(* has the entity, the row to make visible, a conflict or None, the row    *)
(* before, the base of the merge, and what a retry of it needs: whether    *)
(* the entity was an acknowledgement (ack), and whether it was received at *)
(* all or only protects a row that a deletion would take along.            *)

(* The updates of one transaction: those of f, and for other ids those of g. *)
Joined(f, g) == [i \in DOMAIN f \cup DOMAIN g |-> IF i \in DOMAIN f THEN f[i] ELSE g[i]]

(* Defect: the page of another model's log is not waited for. *)
KeptClash(d, k) == Clash

(* An unedited child of a deleted row waits for the page of its own log.   *)
KeptConflict(d, k) ==
  IF Protocol = 2 /\ ShadowRow(d, k) = d.local[k] THEN Deferred(ShadowRow(d, k), None) ELSE Clash

(* Visible children of a row to delete that the group says nothing about   *)
(* keep their row and get a conflict (protect_dependencies).               *)
Protected(d, U) ==
  LET gone == {i \in DOMAIN U : U[i].merged = None}
      kept == {k \in Children \ DOMAIN U : RefOf(d.local[k]) \in gone /\ OnDelete[k] # "restrict"}
  IN [k \in kept |->
        [remote |-> d.shadow[k], merged |-> d.local[k], previous |-> d.local[k],
         base |-> ShadowRow(d, k), ack |-> None, received |-> FALSE,
         conflict |-> IF d.conflict[k] = None THEN KeptConflict(d, k) ELSE d.conflict[k]]]

(* Shadows advance in any case; the rows advance together, or not at all   *)
(* when a foreign key forbids the result (apply_updates).                  *)
ApplyUpdates(d, received) ==
  LET U == Joined(Protected(d, received), received)
      target == [i \in Ids |-> IF i \in DOMAIN U THEN U[i].merged ELSE d.local[i]]
      fits == RefsPresent(target)
      visible == IF fits THEN target ELSE d.local
      blocked(u) == IF u.ack # None \/ u.previous = u.base THEN Deferred(u.base, u.ack) ELSE Clash
      conflict(u) == IF u.conflict # None THEN u.conflict
                     ELSE IF fits THEN None ELSE blocked(u)
  IN [d EXCEPT
        !.local    = visible,
        !.shadow   = [i \in Ids |-> IF i \in DOMAIN received THEN received[i].remote ELSE @[i]],
        !.conflict = [i \in Ids |-> IF i \in DOMAIN U THEN conflict(U[i]) ELSE @[i]],
        !.deleting = @ \ {i \in DOMAIN U : ~Live(U[i].remote) /\ visible[i] = None},
        !.dirty    = @ \cup DOMAIN U]

-----------------------------------------------------------------------------
(* Groups of a page or a snapshot.                                         *)

(* What a retryable conflict merges the entity with: the answer to what    *)
(* was sent, and then anything newer than that answer.                     *)
MergeAnswer(base, ack, local, remote) ==
  LET answered == Acknowledge(IF base = None THEN None ELSE base.data, local, RecordOf(ack))
  IN IF ~answered.clash /\ remote.rev # ack.rev
     THEN MergeRow(RecordOf(ack), answered.row, RecordOf(remote))
     ELSE answered

ReceiveBase(d, i) ==
  IF Retryable(d, i) /\ ~LocallyDeleted(d, i) THEN d.conflict[i].base ELSE ShadowRow(d, i)

Reconciled(d, i, base, remote) ==
  LET existing == d.conflict[i]
      ack == IF existing = None THEN None ELSE existing.ack
      merged == IF LocallyDeleted(d, i) THEN MergeDeleted(base, RecordOf(remote))
                ELSE IF ack # None THEN MergeAnswer(base, ack, d.local[i], remote)
                ELSE MergeRow(base, d.local[i], RecordOf(remote))
  IN [remote |-> remote, merged |-> merged.row, previous |-> d.local[i], base |-> base,
      ack |-> ack, received |-> TRUE,
      conflict |-> IF (existing # None /\ ~existing.retryable) \/ merged.clash THEN Clash ELSE None]

(* Defect: a late page brings old revisions back. *)
ReconcileAll(d, group) ==
  LET news == {i \in DOMAIN group : group[i].rev # d.shadow[i].rev \/ Retryable(d, i)}
  IN [i \in news |-> Reconciled(d, i, ReceiveBase(d, i), group[i])]

(* Entities older than the shadow are skipped; equal ones matter only to a *)
(* conflict that is to be retried.                                         *)
Reconcile(d, group) ==
  LET news == {i \in DOMAIN group : \/ group[i].rev > d.shadow[i].rev
                                    \/ group[i].rev = d.shadow[i].rev /\ Retryable(d, i)}
  IN [i \in news |-> Reconciled(d, i, ReceiveBase(d, i), group[i])]

ApplyGroup(d, group) == ApplyUpdates(d, Reconcile(d, group))

RetryBlocked(d) ==
  LET blocked == {i \in Ids : Retryable(d, i)}
  IN IF blocked = {} THEN d ELSE ApplyGroup(d, [i \in blocked |-> d.shadow[i]])

Incoming(d, groups) ==
  UNION {{i \in DOMAIN groups[n] : groups[n][i] # d.shadow[i]} : n \in DOMAIN groups}

(* Defect: pages are applied under an operation in flight. *)
BlockedNever(d, groups) == FALSE

(* Groups that touch what an operation in flight freezes are not applied. *)
Blocked(d, groups) == \E op \in d.outbox : Frozen(d, Incoming(d, groups), op)

(* A snapshot has to mention every entity the replica knows. *)
Omits(d, f, group) == \E i \in FeedIds(f) \ DOMAIN group : d.shadow[i].rev > 0

(* Whole groups, in commit order, and the cursor, in one transaction; or   *)
(* nothing, and the page has to be pulled again.                           *)
Takes(d, f, groups, cursor, full) ==
  /\ ~Blocked(d, groups)
  /\ d.cursor[f] # None => cursor >= d.cursor[f]
  /\ full => ~Omits(d, f, groups[1])

Applied(d, groups) == RetryBlocked(FoldLeft(ApplyGroup, d, groups))

(* Defect: the cursor moves although the page was put off. *)
ApplySkipping(c, f, groups, cursor, full) ==
  LET d == IF Takes(db[c], f, groups, cursor, full) THEN Applied(db[c], groups) ELSE db[c]
  IN db' = [db EXCEPT ![c] = [d EXCEPT !.cursor[f] = cursor,
                                       !.reset = IF full THEN @ \ {f} ELSE @]]

Apply(c, f, groups, cursor, full) ==
  IF Takes(db[c], f, groups, cursor, full)
  THEN db' = [db EXCEPT ![c] = [Applied(db[c], groups) EXCEPT
                                  !.cursor[f] = cursor,
                                  !.reset = IF full THEN @ \ {f} ELSE @]]
  ELSE UNCHANGED db

RequireReset(c, f) == db' = [db EXCEPT ![c].reset = @ \cup {f}]

-----------------------------------------------------------------------------
(* The result of an operation (finish_result).                             *)

SentData(d, i, m) == IF m.changes = None THEN None ELSE Overlay(d.shadow[i].data, m.changes)

(* Its revision is not sent and never read. *)
SentRow(d, i, m) == IF m.changes = None THEN None ELSE [rev |-> 0, data |-> SentData(d, i, m)]

Answered(d, i, m, result) ==
  LET accepted == result.kind = "accepted"
      remote == IF i \in DOMAIN result.entities THEN result.entities[i] ELSE d.shadow[i]
      base == ShadowRow(d, i)
      deleted == LocallyDeleted(d, i)
      merged == IF accepted THEN Acknowledge(SentData(d, i, m), d.local[i], RecordOf(remote))
                ELSE IF deleted THEN MergeDeleted(base, RecordOf(remote))
                ELSE MergeRow(base, d.local[i], RecordOf(remote))
      refused == result.kind = "rejected" /\ ~(deleted /\ ~Live(remote))
  IN [remote |-> remote, merged |-> merged.row, previous |-> d.local[i],
      base |-> IF accepted THEN SentRow(d, i, m) ELSE base,
      ack |-> IF accepted THEN remote ELSE None,
      received |-> result.kind # "rejected",
      conflict |-> IF merged.clash \/ refused THEN Clash ELSE None]

(* Defect: an effect of the operation replaces the visible row. *)
SideEffectTaken(d, i, remote) ==
  [remote |-> remote, merged |-> RecordOf(remote), previous |-> d.local[i],
   base |-> ShadowRow(d, i), ack |-> None, received |-> TRUE, conflict |-> None]

(* Effects of the operation on other rows: cascades and SET NULL. *)
SideEffect(d, i, remote) ==
  LET merged == MergeRow(ShadowRow(d, i), d.local[i], RecordOf(remote))
  IN [remote |-> remote, merged |-> merged.row, previous |-> d.local[i],
      base |-> ShadowRow(d, i), ack |-> None, received |-> TRUE,
      conflict |-> IF merged.clash THEN Clash ELSE None]

SideEffects(d, op, result) ==
  [i \in {k \in DOMAIN result.entities \ DOMAIN op.muts :
             result.entities[k].rev > d.shadow[k].rev}
     |-> SideEffect(d, i, result.entities[i])]

(* The code refuses a result when the shadow under a mutation moved. *)
ShadowMoved(d, op) == \E i \in DOMAIN op.muts : d.shadow[i].rev # op.muts[i].base

Finish(c, op, result) ==
  LET d == db[c]
      answers == [i \in DOMAIN op.muts |-> Answered(d, i, op.muts[i], result)]
  IN /\ op \in d.outbox
     /\ ~ShadowMoved(d, op)
     /\ db' = [db EXCEPT ![c] =
          [ApplyUpdates(d, Joined(answers, SideEffects(d, op, result))) EXCEPT !.outbox = @ \ {op}]]
=============================================================================
