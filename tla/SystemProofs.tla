---------------------------- MODULE SystemProofs ----------------------------
(***************************************************************************)
(* What holds of any number of replicas with any feeds and one server:     *)
(* that shadows are committed revisions and no cursor runs ahead of them,  *)
(* that no edit is forgotten, and that a replica with nothing to send and  *)
(* nothing to receive shows the server's rows.                             *)
(*                                                                         *)
(* SystemInv says what is known of everything that is on its way: pages    *)
(* and snapshots in flight are still part of the history, and reach as far *)
(* as their cursor; operations in the outbox have one number each, bases   *)
(* that the server has reached, and the contents their receipt has.        *)
(*                                                                         *)
(* Before it comes what the transactions of a client do to its database,   *)
(* for any ids, values, ON DELETE actions, feeds and operations: that its  *)
(* rows keep their types and references, that shadows only advance, and    *)
(* that what differs from the shadow is in the dirty set.                  *)
(***************************************************************************)
EXTENDS SyncSystem, SyncServerProofs

-----------------------------------------------------------------------------
(* The invariant of a database.                                            *)

(* d has the fields of a database. *)
IsDatabase(d) ==
  /\ d = [local |-> d.local, shadow |-> d.shadow, dirty |-> d.dirty, deleting |-> d.deleting,
          conflict |-> d.conflict, outbox |-> d.outbox, cursor |-> d.cursor, reset |-> d.reset]
  /\ d.local = [i \in Ids |-> d.local[i]]
  /\ d.shadow = [i \in Ids |-> d.shadow[i]]
  /\ d.conflict = [i \in Ids |-> d.conflict[i]]
  /\ d.cursor = [f \in Feeds |-> d.cursor[f]]

(* A conflict that waits for a retry may hold an answer. *)
IsConflict(i, k) == k = None \/ k.ack \in EntityOf(i) \cup {None}

(* Rows are rows of their model, and refer to rows that are present. *)
Fit(d) ==
  /\ \A i \in Ids : /\ d.local[i] \in RowOf(i)
                    /\ d.shadow[i] \in EntityOf(i)
                    /\ IsConflict(i, d.conflict[i])
  /\ RefsPresent(d.local)
  /\ d.dirty \subseteq Ids /\ d.deleting \subseteq Ids

(* What differs from the shadow is in the dirty set. *)
Tracked(d) == \A i \in Ids : Changed(d, i) => i \in d.dirty

Replica(d) == IsDatabase(d) /\ Fit(d) /\ Tracked(d)

(* The sequence that a finite set is read in has each element once. *)
LEMMA SetToSeqForms ==
  ASSUME NEW S, IsFiniteSet(S)
  PROVE  LET s == SetToSeq(S)
         IN \E m \in Nat : /\ s \in [1..m -> S]
                           /\ \A i \in S : \E x \in 1..m : s[x] = i
<1> DEFINE m == Cardinality(S)
           s == SetToSeq(S)
<1>1. m \in Nat /\ ExistsBijection(1..m, S)
  BY FS_CardinalityType
<1>2. s \in [1..m -> S] /\ IsInjective(s)
  <2>1. \E f \in [1..m -> S] : IsInjective(f)
    BY <1>1 DEF ExistsBijection, Bijection, Injection
  <2> QED
    BY <2>1 DEF SetToSeq
<1> HIDE DEF s, m
<1> DEFINE T == {s[x] : x \in 1..m}
<1>3. T \in SUBSET S
  BY <1>2
<1>4. IsFiniteSet(T) /\ Cardinality(T) = m
  <2>1. s \in Bijection(1..m, T)
    <3>1. s \in [1..m -> T]
      BY <1>2
    <3>2. \A i \in T : \E x \in 1..m : s[x] = i
      OBVIOUS
    <3> HIDE DEF T
    <3> QED
      BY <1>2, <3>1, <3>2 DEF Bijection, Injection, Surjection
  <2>2. ExistsBijection(1..m, T)
    BY <2>1 DEF ExistsBijection
  <2>3. IsFiniteSet(T)
    BY <1>3, FS_Subset
  <2> HIDE DEF T
  <2> QED
    BY <1>1, <2>2, <2>3, FS_CountingElements
<1>5. S = T
  BY <1>3, <1>4, FS_Subset DEF m
<1>6. \A i \in S : \E x \in 1..m : s[x] = i
  BY <1>5
<1> HIDE DEF T
<1> QED
  BY <1>1, <1>2, <1>6 DEF s

(* Whether a row has changed depends on the row and its shadow only. *)
LEMMA ChangedSame ==
  ASSUME NEW d, NEW e, NEW i, d.local[i] = e.local[i], d.shadow[i] = e.shadow[i]
  PROVE  Changed(e, i) <=> Changed(d, i)
BY DEF Changed, ShadowRow

LEMMA EmptyReplica == Replica(EmptyDatabase)
<1>1. PICK d : d = EmptyDatabase
  OBVIOUS
<1>2. IsDatabase(d)
  BY <1>1 DEF EmptyDatabase, IsDatabase
<1>3. Fit(d)
  BY <1>1, AbsentEntity, DataAssumption DEF EmptyDatabase, Fit, RowOf, IsConflict, RefsPresent, RefOf, Ids
<1>4. Tracked(d)
  <2> SUFFICES ASSUME NEW i \in Ids
               PROVE  ~Changed(d, i)
    BY DEF Tracked
  <2>1. d.local[i] = None /\ d.shadow[i].data = None
    BY <1>1 DEF EmptyDatabase, Absent
  <2>2. PatchRow(i, ShadowRow(d, i), d.local[i]) = None /\ ShadowRow(d, i) = None
    BY <2>1 DEF PatchRow, ShadowRow, RecordOf, Live
  <2> QED
    BY <2>2 DEF Changed
<1> QED
  BY <1>1, <1>2, <1>3, <1>4 DEF Replica

-----------------------------------------------------------------------------
(* Merges.                                                                 *)

LEMMA RebasedTyped ==
  ASSUME NEW i \in Ids, NEW from, NEW local \in RowOf(i), NEW remote \in RowOf(i),
         local # None, remote # None
  PROVE  Rebased(from, local, remote) \in RowOf(i)
<1> DEFINE data == [f \in Fields |-> IF f \in Edited(from, local) THEN local.data[f]
                                     ELSE remote.data[f]]
<1>1. /\ local.data \in DataOf(i) /\ remote.data \in DataOf(i) /\ remote.rev \in Nat
  BY RowForms
<1>2. \A f \in Fields : data[f] \in {local.data[f], remote.data[f]}
  OBVIOUS
<1>3. data = [f \in Fields |-> data[f]]
  OBVIOUS
<1>4. Rebased(from, local, remote) = [rev |-> remote.rev, data |-> data]
  BY DEF Rebased
<1> HIDE DEF data
<1>5. /\ local.data["val"] \in Values /\ remote.data["val"] \in Values
      /\ local.data["ref"] \in Parents \cup {None} /\ remote.data["ref"] \in Parents \cup {None}
      /\ i \notin Children => local.data["ref"] = None /\ remote.data["ref"] = None
  BY <1>1, DataForms
<1>6. /\ data["val"] \in {local.data["val"], remote.data["val"]}
      /\ data["ref"] \in {local.data["ref"], remote.data["ref"]}
  BY <1>2 DEF Fields
<1>7. data \in DataOf(i)
  BY <1>3, <1>5, <1>6, DataIntro
<1> QED
  BY <1>1, <1>4, <1>7, RowIntro

LEMMA MergeTyped ==
  ASSUME NEW i \in Ids, NEW base, NEW sent, NEW local \in RowOf(i), NEW remote \in RowOf(i)
  PROVE  /\ MergeRow(base, local, remote).row \in RowOf(i)
         /\ Acknowledge(sent, local, remote).row \in RowOf(i)
         /\ MergeDeleted(base, remote).row \in RowOf(i)
<1>1. None \in RowOf(i)
  BY DEF RowOf
<1>2. MergeRow(base, local, remote).row \in RowOf(i)
  <2>1. \/ MergeRow(base, local, remote).row \in {local, remote}
        \/ /\ local # None /\ remote # None
           /\ MergeRow(base, local, remote).row = Rebased(base.data, local, remote)
    BY DEF MergeRow, Outcome
  <2> QED
    BY <2>1, RebasedTyped
<1>3. Acknowledge(sent, local, remote).row \in RowOf(i)
  <2>1. \/ Acknowledge(sent, local, remote).row \in {local, remote, None}
        \/ /\ local # None /\ remote # None
           /\ Acknowledge(sent, local, remote).row = Rebased(sent, local, remote)
    BY DEF Acknowledge, Outcome
  <2> QED
    BY <1>1, <2>1, RebasedTyped
<1>4. MergeDeleted(base, remote).row \in RowOf(i)
  BY <1>1 DEF MergeDeleted, Outcome
<1> QED
  BY <1>2, <1>3, <1>4

(* The patch of a row is one that its model accepts. *)
LEMMA PatchTyped ==
  ASSUME NEW i \in Ids, NEW base, NEW local \in RowOf(i)
  PROVE  /\ PatchRow(i, base, local) \in PatchOf(i) \cup {None}
         /\ PatchRow(i, base, local) \in Patch \cup {None}
<1> DEFINE F == {g \in FieldsOf(i) : base = None \/ local.data[g] # base.data[g]}
           ch == [f \in F |-> local.data[f]]
<1>1. CASE local = None
  BY <1>1 DEF PatchRow
<1>2. CASE local # None
  <2>1. F \subseteq FieldsOf(i) /\ FieldsOf(i) \subseteq Fields
    BY DEF FieldsOf, Fields
  <2>2. local.data \in DataOf(i)
    BY <1>2, RowForms
  <2>3. \A f \in F : local.data[f] \in FieldValue /\ local.data[f] \in FieldType(f)
    <3> SUFFICES ASSUME NEW f \in F
                 PROVE  local.data[f] \in FieldValue /\ local.data[f] \in FieldType(f)
      OBVIOUS
    <3>1. f = "val" \/ f = "ref"
      BY <2>1 DEF Fields
    <3> QED
      BY <2>2, <3>1, DataForms DEF FieldType, FieldValue
  <2>4. ch \in [F -> FieldValue] /\ F \in SUBSET Fields
    BY <2>1, <2>3
  <2>5. ch \in Patch
    BY <2>4 DEF Patch
  <2>6. ch \in PatchOf(i)
    BY <2>1, <2>3, <2>5 DEF PatchOf
  <2>7. PatchRow(i, base, local) = ch
    BY <1>2 DEF PatchRow
  <2> QED
    BY <2>5, <2>6, <2>7
<1> QED
  BY <1>1, <1>2

-----------------------------------------------------------------------------
(* Updates.                                                                *)

(* An update leaves a row, a shadow and a conflict of its id behind. *)
UpdateOk(i, u) ==
  /\ u.merged \in RowOf(i)
  /\ u.remote \in EntityOf(i)
  /\ u.ack \in EntityOf(i) \cup {None}
  /\ IsConflict(i, u.conflict)

LEMMA ConflictForms ==
  ASSUME NEW i \in Ids, NEW base, NEW ack \in EntityOf(i) \cup {None}
  PROVE  IsConflict(i, Clash) /\ IsConflict(i, Deferred(base, ack))
BY DEF IsConflict, Clash, Deferred

LEMMA ProtectedOk ==
  ASSUME NEW d, Replica(d), NEW U
  PROVE  /\ DOMAIN Protected(d, U) \subseteq Ids \ DOMAIN U
         /\ \A i \in DOMAIN Protected(d, U) : UpdateOk(i, Protected(d, U)[i])
<1> DEFINE P == Protected(d, U)
           gone == {i \in DOMAIN U : U[i].merged = None}
           kept == {k \in Children \ DOMAIN U : RefOf(d.local[k]) \in gone /\ OnDelete[k] # "restrict"}
<1>1. /\ DOMAIN P = kept
      /\ \A k \in kept : /\ P[k].merged = d.local[k]
                         /\ P[k].remote = d.shadow[k]
                         /\ P[k].ack = None
                         /\ P[k].conflict = IF d.conflict[k] = None THEN KeptConflict(d, k)
                                            ELSE d.conflict[k]
  BY DEF Protected
<1>2. kept \subseteq Ids \ DOMAIN U
  BY DEF Ids
<1> HIDE DEF P, kept, gone
<1>3. ASSUME NEW k \in kept
      PROVE  UpdateOk(k, P[k])
  <2>1. k \in Ids /\ IsConflict(k, d.conflict[k]) /\ d.local[k] \in RowOf(k) /\ d.shadow[k] \in EntityOf(k)
    BY <1>2 DEF Replica, Fit
  <2>2. IsConflict(k, KeptConflict(d, k))
    BY <2>1, ConflictForms DEF KeptConflict
  <2> QED
    BY <1>1, <2>1, <2>2 DEF UpdateOk
<1> QED
  BY <1>1, <1>2, <1>3 DEF P

(* A transaction of updates: the parts of the database that it leaves      *)
(* alone, the shadows, and the invariant.                                  *)
LEMMA UpdatesApplied ==
  ASSUME NEW d, Replica(d), NEW U, DOMAIN U \subseteq Ids,
         \A i \in DOMAIN U : UpdateOk(i, U[i])
  PROVE  LET e == ApplyUpdates(d, U)
         IN /\ Replica(e)
            /\ e.outbox = d.outbox /\ e.cursor = d.cursor /\ e.reset = d.reset
            /\ \A i \in Ids : e.shadow[i] = IF i \in DOMAIN U THEN U[i].remote ELSE d.shadow[i]
<1> DEFINE P == Protected(d, U)
           W == Joined(P, U)
           target == [i \in Ids |-> IF i \in DOMAIN W THEN W[i].merged ELSE d.local[i]]
           visible == IF RefsPresent(target) THEN target ELSE d.local
           blocked(u) == IF u.ack # None \/ u.previous = u.base THEN Deferred(u.base, u.ack) ELSE Clash
           conflict(u) == IF u.conflict # None THEN u.conflict
                          ELSE IF RefsPresent(target) THEN None ELSE blocked(u)
           shadow == [i \in Ids |-> IF i \in DOMAIN U THEN U[i].remote ELSE d.shadow[i]]
           conflicts == [i \in Ids |-> IF i \in DOMAIN W THEN conflict(W[i]) ELSE d.conflict[i]]
           e == ApplyUpdates(d, U)
<1>1. DOMAIN W = DOMAIN P \cup DOMAIN U
      /\ \A i \in DOMAIN W : W[i] = IF i \in DOMAIN P THEN P[i] ELSE U[i]
  BY DEF Joined
<1>2. DOMAIN W \subseteq Ids /\ \A i \in DOMAIN W : UpdateOk(i, W[i])
  BY <1>1, ProtectedOk
<1>3. e = [d EXCEPT !.local = visible, !.shadow = shadow, !.conflict = conflicts,
                    !.deleting = @ \ {i \in DOMAIN W : ~Live(W[i].remote) /\ visible[i] = None},
                    !.dirty = @ \cup DOMAIN W]
  BY DEF ApplyUpdates, Replica, IsDatabase
<1>4. \A i \in Ids : target[i] = IF i \in DOMAIN W THEN W[i].merged ELSE d.local[i]
  OBVIOUS
<1>5. /\ \A i \in Ids : visible[i] \in RowOf(i) /\ (i \notin DOMAIN W => visible[i] = d.local[i])
      /\ RefsPresent(visible)
      /\ visible = [i \in Ids |-> visible[i]]
  <2> HIDE DEF P, W
  <2>1. CASE RefsPresent(target)
    BY <1>2, <1>4, <2>1 DEF UpdateOk, Replica, Fit
  <2>2. CASE ~RefsPresent(target)
    BY <2>2 DEF Replica, Fit, IsDatabase
  <2> QED
    BY <2>1, <2>2
<1>6. \A i \in Ids : IsConflict(i, conflicts[i])
  <2> SUFFICES ASSUME NEW i \in Ids
               PROVE  IsConflict(i, conflicts[i])
    OBVIOUS
  <2>1. CASE i \in DOMAIN W
    <3>1. UpdateOk(i, W[i])
      BY <1>2, <2>1
    <3>2. conflicts[i] \in {W[i].conflict, None, Deferred(W[i].base, W[i].ack), Clash}
      BY <2>1
    <3>3. IsConflict(i, None)
      BY DEF IsConflict
    <3> HIDE DEF conflicts, W
    <3> QED
      BY <3>1, <3>2, <3>3, ConflictForms DEF UpdateOk
  <2>2. CASE i \notin DOMAIN W
    <3>1. conflicts[i] = d.conflict[i]
      BY <2>2
    <3> QED
      BY <3>1 DEF Replica, Fit
  <2> QED
    BY <2>1, <2>2
<1>7. \A i \in Ids : /\ shadow[i] = IF i \in DOMAIN U THEN U[i].remote ELSE d.shadow[i]
                     /\ shadow[i] \in EntityOf(i)
                     /\ i \notin DOMAIN W => shadow[i] = d.shadow[i]
  BY <1>1 DEF UpdateOk, Replica, Fit
<1>8. shadow = [i \in Ids |-> shadow[i]] /\ conflicts = [i \in Ids |-> conflicts[i]]
  OBVIOUS
<1> HIDE DEF P, W, target, visible, shadow, conflicts, conflict, blocked
<1>9. /\ e.local = visible /\ e.shadow = shadow /\ e.conflict = conflicts
      /\ e.dirty = d.dirty \cup DOMAIN W /\ e.deleting \subseteq d.deleting
      /\ e.outbox = d.outbox /\ e.cursor = d.cursor /\ e.reset = d.reset
      /\ e = [local |-> e.local, shadow |-> e.shadow, dirty |-> e.dirty, deleting |-> e.deleting,
              conflict |-> e.conflict, outbox |-> e.outbox, cursor |-> e.cursor, reset |-> e.reset]
  BY <1>3 DEF Replica, IsDatabase
<1> HIDE DEF e
<1>10. IsDatabase(e)
  BY <1>5, <1>8, <1>9 DEF IsDatabase, Replica
<1>11. Fit(e)
  BY <1>2, <1>5, <1>6, <1>7, <1>9 DEF Fit, Replica
<1>12. Tracked(e)
  <2> SUFFICES ASSUME NEW i \in Ids, Changed(e, i), i \notin DOMAIN W
               PROVE  i \in d.dirty
    BY <1>9 DEF Tracked
  <2>1. e.local[i] = d.local[i] /\ e.shadow[i] = d.shadow[i]
    BY <1>5, <1>7, <1>9
  <2>2. Changed(d, i)
    BY <2>1, ChangedSame
  <2> QED
    BY <2>2 DEF Replica, Tracked
<1> QED
  BY <1>7, <1>9, <1>10, <1>11, <1>12 DEF Replica, e

-----------------------------------------------------------------------------
(* Groups.                                                                 *)

LEMMA ReconciledOk ==
  ASSUME NEW d, Replica(d), NEW i \in Ids, NEW base, NEW remote \in EntityOf(i)
  PROVE  UpdateOk(i, Reconciled(d, i, base, remote)) /\ Reconciled(d, i, base, remote).remote = remote
<1> DEFINE existing == d.conflict[i]
           ack == IF existing = None THEN None ELSE existing.ack
           local == d.local[i]
           merged == IF LocallyDeleted(d, i) THEN MergeDeleted(base, RecordOf(remote))
                     ELSE IF ack # None THEN MergeAnswer(base, ack, local, remote)
                     ELSE MergeRow(base, local, RecordOf(remote))
           u == Reconciled(d, i, base, remote)
<1>1. /\ u.remote = remote /\ u.merged = merged.row /\ u.ack = ack
      /\ u.conflict \in {Clash, None}
  BY DEF Reconciled
<1>2. local \in RowOf(i) /\ ack \in EntityOf(i) \cup {None} /\ RecordOf(remote) \in RowOf(i)
  BY EntityIsRow DEF Replica, Fit, IsConflict
<1>3. ack # None => MergeAnswer(base, ack, local, remote).row \in RowOf(i)
  <2> SUFFICES ASSUME ack # None
               PROVE  MergeAnswer(base, ack, local, remote).row \in RowOf(i)
    OBVIOUS
  <2> DEFINE sent == IF base = None THEN None ELSE base.data
             answered == Acknowledge(sent, local, RecordOf(ack))
  <2>1. RecordOf(ack) \in RowOf(i)
    BY <1>2, EntityIsRow
  <2>2. answered.row \in RowOf(i)
    BY <1>2, <2>1, MergeTyped
  <2>3. MergeAnswer(base, ack, local, remote) \in
          {answered, MergeRow(RecordOf(ack), answered.row, RecordOf(remote))}
    BY DEF MergeAnswer
  <2> HIDE DEF answered
  <2>4. MergeRow(RecordOf(ack), answered.row, RecordOf(remote)).row \in RowOf(i)
    BY <1>2, <2>2, MergeTyped
  <2> QED
    BY <2>2, <2>3, <2>4
<1>4. merged.row \in RowOf(i)
  <2> HIDE DEF local, ack
  <2> QED
    BY <1>2, <1>3, MergeTyped
<1>5. IsConflict(i, u.conflict)
  <2>1. IsConflict(i, Clash) /\ IsConflict(i, None)
    BY ConflictForms DEF IsConflict
  <2> QED
    BY <1>1, <2>1
<1> HIDE DEF u, merged, ack
<1> QED
  BY <1>1, <1>2, <1>4, <1>5 DEF UpdateOk, u

(* A group of entities of their models. *)
EntityGroup(g) == DOMAIN g \subseteq Ids /\ \A i \in DOMAIN g : g[i] \in EntityOf(i)

(* A group moves shadows forward, to its own entities and nothing else. *)
LEMMA GroupApplied ==
  ASSUME NEW d, Replica(d), NEW g, EntityGroup(g)
  PROVE  LET e == ApplyGroup(d, g)
         IN /\ Replica(e)
            /\ e.outbox = d.outbox /\ e.cursor = d.cursor /\ e.reset = d.reset
            /\ \A i \in Ids :
                 /\ e.shadow[i] = d.shadow[i] \/ (i \in DOMAIN g /\ e.shadow[i] = g[i])
                 /\ e.shadow[i].rev >= d.shadow[i].rev
                 /\ i \in DOMAIN g => e.shadow[i].rev >= g[i].rev
<1> DEFINE U == Reconcile(d, g)
           e == ApplyGroup(d, g)
<1>1. DOMAIN U = {i \in DOMAIN g : \/ g[i].rev > d.shadow[i].rev
                                   \/ g[i].rev = d.shadow[i].rev /\ Retryable(d, i)}
  BY DEF Reconcile
<1>2. \A i \in DOMAIN U : U[i] = Reconciled(d, i, ReceiveBase(d, i), g[i])
  BY DEF Reconcile
<1> HIDE DEF U
<1>3. DOMAIN U \subseteq Ids /\ DOMAIN U \subseteq DOMAIN g
  BY <1>1 DEF EntityGroup
<1>4. \A i \in DOMAIN U : UpdateOk(i, U[i]) /\ U[i].remote = g[i]
  BY <1>2, <1>3, ReconciledOk DEF EntityGroup
<1>5. /\ Replica(e)
      /\ e.outbox = d.outbox /\ e.cursor = d.cursor /\ e.reset = d.reset
      /\ \A i \in Ids : e.shadow[i] = IF i \in DOMAIN U THEN U[i].remote ELSE d.shadow[i]
  BY <1>3, <1>4, UpdatesApplied DEF ApplyGroup, U
<1> HIDE DEF e
<1>6. ASSUME NEW i \in Ids
      PROVE  /\ e.shadow[i] = d.shadow[i] \/ (i \in DOMAIN g /\ e.shadow[i] = g[i])
             /\ e.shadow[i].rev >= d.shadow[i].rev
             /\ i \in DOMAIN g => e.shadow[i].rev >= g[i].rev
  <2>1. d.shadow[i].rev \in Nat
    BY EntityIsRow DEF Replica, Fit
  <2>2. i \in DOMAIN g => g[i].rev \in Nat
    BY EntityIsRow DEF EntityGroup
  <2>3. CASE i \in DOMAIN U
    <3>1. e.shadow[i] = g[i] /\ i \in DOMAIN g
      BY <1>3, <1>4, <1>5, <2>3
    <3>2. g[i].rev >= d.shadow[i].rev
      BY <1>1, <2>1, <2>2, <2>3, <3>1
    <3> QED
      BY <2>2, <3>1, <3>2
  <2>4. CASE i \notin DOMAIN U
    <3>1. e.shadow[i] = d.shadow[i]
      BY <1>5, <2>4
    <3>2. i \in DOMAIN g => ~(g[i].rev > d.shadow[i].rev)
      BY <1>1, <2>4
    <3> QED
      BY <2>1, <2>2, <3>1, <3>2
  <2> QED
    BY <2>3, <2>4
<1> QED
  BY <1>5, <1>6 DEF e

LEMMA RetryApplied ==
  ASSUME NEW d, Replica(d)
  PROVE  LET e == RetryBlocked(d)
         IN /\ Replica(e)
            /\ e.outbox = d.outbox /\ e.cursor = d.cursor /\ e.reset = d.reset
            /\ e.shadow = d.shadow
<1> DEFINE blocked == {i \in Ids : Retryable(d, i)}
           g == [i \in blocked |-> d.shadow[i]]
           e == ApplyGroup(d, g)
<1>1. CASE blocked = {}
  BY <1>1 DEF RetryBlocked
<1>2. CASE blocked # {}
  <2>1. DOMAIN g \subseteq Ids /\ \A i \in DOMAIN g : g[i] = d.shadow[i] /\ g[i] \in EntityOf(i)
    BY DEF Replica, Fit
  <2>2. EntityGroup(g)
    BY <2>1 DEF EntityGroup
  <2>3. RetryBlocked(d) = e
    BY <1>2 DEF RetryBlocked
  <2> HIDE DEF g
  <2>4. /\ Replica(e)
        /\ e.outbox = d.outbox /\ e.cursor = d.cursor /\ e.reset = d.reset
        /\ \A i \in Ids : e.shadow[i] = d.shadow[i]
    BY <2>1, <2>2, GroupApplied
  <2> HIDE DEF e
  <2>5. e.shadow = d.shadow
    <3>1. e.shadow = [i \in Ids |-> e.shadow[i]] /\ d.shadow = [i \in Ids |-> d.shadow[i]]
      BY <2>4 DEF Replica, IsDatabase
    <3> QED
      BY <2>4, <3>1
  <2> QED
    BY <2>3, <2>4, <2>5
<1> QED
  BY <1>1, <1>2
(* A sequence of groups is applied one after the other. *)
InOrder(d, groups) == FoldLeft(ApplyGroup, d, groups)

(* The databases after each of the first L groups. *)
Stages(after, d, groups, L) ==
  /\ after[0] = d
  /\ \A n \in 0..L - 1 : after[n + 1] = ApplyGroup(after[n], groups[n + 1])
  /\ InOrder(d, groups) = after[L]

LEMMA FoldGroups ==
  ASSUME NEW d, NEW groups, NEW L \in Nat, DOMAIN groups = 1..L
  PROVE  \E after : Stages(after, d, groups, L)
<1> DEFINE Fold(D, h) == h = [s \in SUBSET D |-> IF s = {} THEN d
                                ELSE ApplyGroup(h[s \ {Max(s)}], groups[Max(s)])]
           S == {m \in Nat : \E h : Fold(1..m, h)}
<1>1. ASSUME NEW m \in Nat, NEW s \in SUBSET (1..m), m \in s
      PROVE  Max(s) = m /\ s \ {m} \in SUBSET (1..m - 1)
  <2>1. m \in s /\ \A y \in s : m >= y
    BY <1>1
  <2>2. ASSUME NEW x \in s, \A y \in s : x >= y
        PROVE  x = m
    <3>1. x >= m /\ m >= x /\ x \in Nat
      BY <2>1, <2>2
    <3> QED
      BY <3>1
  <2>3. Max(s) = m
    BY <2>1, <2>2 DEF Max
  <2> QED
    BY <1>1, <2>3
<1>2. 0 \in S
  <2> DEFINE h == [s \in SUBSET (1..0) |-> d]
  <2>1. \A s \in SUBSET (1..0) : s = {}
    OBVIOUS
  <2>2. Fold(1..0, h)
    BY <2>1
  <2> QED
    BY <2>2
<1>3. ASSUME NEW m \in Nat, m \in S
      PROVE  m + 1 \in S
  <2>1. PICK h : Fold(1..m, h)
    BY <1>3
  <2> DEFINE k == [s \in SUBSET (1..m + 1) |->
                     IF s \in SUBSET (1..m) THEN h[s]
                     ELSE ApplyGroup(h[s \ {m + 1}], groups[m + 1])]
  <2>2. ASSUME NEW s \in SUBSET (1..m + 1)
        PROVE  k[s] = IF s = {} THEN d ELSE ApplyGroup(k[s \ {Max(s)}], groups[Max(s)])
    <3>1. CASE s \in SUBSET (1..m) /\ s = {}
      BY <2>1, <3>1
    <3>2. CASE s \in SUBSET (1..m) /\ s # {}
      <4>1. s \ {Max(s)} \in SUBSET (1..m) /\ s \ {Max(s)} \in SUBSET (1..m + 1)
        BY <3>2
      <4>2. k[s \ {Max(s)}] = h[s \ {Max(s)}] /\ k[s] = h[s]
        BY <3>2, <4>1
      <4> HIDE DEF k
      <4> QED
        BY <2>1, <3>2, <4>2
    <3>3. CASE s \notin SUBSET (1..m)
      <4>1. m + 1 \in s
        BY <3>3
      <4>2. Max(s) = m + 1 /\ s \ {m + 1} \in SUBSET (1..m)
        BY <1>1, <4>1
      <4>3. k[s] = ApplyGroup(h[s \ {m + 1}], groups[m + 1])
        BY <3>3
      <4>4. k[s \ {m + 1}] = h[s \ {m + 1}]
        BY <4>2
      <4> HIDE DEF k
      <4> QED
        BY <4>1, <4>2, <4>3, <4>4
    <3> QED
      BY <3>1, <3>2, <3>3
  <2>3. Fold(1..m + 1, k)
    <3>1. k = [s \in SUBSET (1..m + 1) |-> k[s]]
      OBVIOUS
    <3> HIDE DEF k
    <3> QED
      BY <2>2, <3>1
  <2> HIDE DEF Fold, k
  <2>4. \E f : Fold(1..m + 1, f)
    BY <2>3
  <2> QED
    BY <2>4
<1>4. \E h : Fold(1..L, h)
  <2>1. L \in S
    <3> HIDE DEF S
    <3> QED
      BY <1>2, <1>3, Induction
  <2> QED
    BY <2>1
<1> DEFINE iter == CHOOSE h : Fold(1..L, h)
           after == [n \in 0..L |-> iter[1..n]]
<1>5. InOrder(d, groups) = iter[1..L]
  BY DEF InOrder, FoldLeft, MapThenFoldSet
<1>6. iter = [s \in SUBSET (1..L) |-> IF s = {} THEN d
                ELSE ApplyGroup(iter[s \ {Max(s)}], groups[Max(s)])]
  <2>1. Fold(1..L, iter)
    <3> HIDE DEF Fold
    <3> QED
      BY <1>4
  <2> QED
    BY <2>1
<1> HIDE DEF iter
<1>7. after[0] = d
  <2>1. 1..0 = {} /\ 1..0 \in SUBSET (1..L)
    OBVIOUS
  <2>2. iter[1..0] = d
    BY <1>6, <2>1
  <2> QED
    BY <2>2
<1>8. ASSUME NEW n \in 0..L - 1
      PROVE  after[n + 1] = ApplyGroup(after[n], groups[n + 1])
  <2>1. /\ 1..n + 1 \in SUBSET (1..L) /\ n + 1 \in 1..n + 1
        /\ (1..n + 1) \ {n + 1} = 1..n
    OBVIOUS
  <2>2. Max(1..n + 1) = n + 1
    BY <1>1, n + 1 \in Nat
  <2>3. iter[1..n + 1] = ApplyGroup(iter[1..n], groups[n + 1])
    BY <1>6, <2>1, <2>2
  <2>4. n \in 0..L /\ n + 1 \in 0..L
    OBVIOUS
  <2> QED
    BY <2>3, <2>4
<1>9. InOrder(d, groups) = after[L]
  BY <1>5
<1> HIDE DEF after
<1> QED
  BY <1>7, <1>8, <1>9 DEF Stages

(* What a page does to the shadows: it moves them forward, to entities of  *)
(* its groups, and past all of these.                                      *)
Received(d, e, groups) ==
  \A i \in Ids :
    /\ \/ e.shadow[i] = d.shadow[i]
       \/ \E n \in DOMAIN groups : i \in DOMAIN groups[n] /\ e.shadow[i] = groups[n][i]
    /\ e.shadow[i].rev >= d.shadow[i].rev
    /\ \A n \in DOMAIN groups : i \in DOMAIN groups[n] => e.shadow[i].rev >= groups[n][i].rev

LEMMA GroupsApplied ==
  ASSUME NEW d, Replica(d), NEW groups, NEW L \in Nat, DOMAIN groups = 1..L,
         \A n \in 1..L : EntityGroup(groups[n])
  PROVE  LET e == Applied(d, groups)
         IN /\ Replica(e)
            /\ e.outbox = d.outbox /\ e.cursor = d.cursor /\ e.reset = d.reset
            /\ Received(d, e, groups)
<1>0. PICK after : Stages(after, d, groups, L)
  BY FoldGroups
<1>1. /\ after[0] = d
      /\ \A n \in 0..L - 1 : after[n + 1] = ApplyGroup(after[n], groups[n + 1])
      /\ InOrder(d, groups) = after[L]
  BY <1>0 DEF Stages
<1> DEFINE Good(e, m) ==
             /\ Replica(e)
             /\ e.outbox = d.outbox /\ e.cursor = d.cursor /\ e.reset = d.reset
             /\ \A i \in Ids :
                  /\ \/ e.shadow[i] = d.shadow[i]
                     \/ \E n \in 1..m : i \in DOMAIN groups[n] /\ e.shadow[i] = groups[n][i]
                  /\ e.shadow[i].rev >= d.shadow[i].rev
                  /\ \A n \in 1..m : i \in DOMAIN groups[n] => e.shadow[i].rev >= groups[n][i].rev
           S == {m \in Nat : m <= L => Good(after[m], m)}
<1>2. 0 \in S
  <2>1. \A i \in Ids : d.shadow[i].rev \in Nat
    BY EntityIsRow DEF Replica, Fit
  <2>2. Good(d, 0)
    BY <2>1
  <2> QED
    BY <1>1, <2>2
<1>3. ASSUME NEW m \in Nat, m \in S
      PROVE  m + 1 \in S
  <2> SUFFICES ASSUME m + 1 <= L
               PROVE  Good(after[m + 1], m + 1)
    OBVIOUS
  <2> DEFINE a == after[m]
             g == groups[m + 1]
             e == ApplyGroup(a, g)
  <2>1. Good(a, m) /\ after[m + 1] = e
    BY <1>1, <1>3
  <2>2. m + 1 \in 1..L /\ 1..m + 1 = 1..m \cup {m + 1}
    OBVIOUS
  <2>3. EntityGroup(g)
    BY <2>2
  <2> HIDE DEF a
  <2>4. /\ Replica(e)
        /\ e.outbox = a.outbox /\ e.cursor = a.cursor /\ e.reset = a.reset
        /\ \A i \in Ids :
             /\ e.shadow[i] = a.shadow[i] \/ (i \in DOMAIN g /\ e.shadow[i] = g[i])
             /\ e.shadow[i].rev >= a.shadow[i].rev
             /\ i \in DOMAIN g => e.shadow[i].rev >= g[i].rev
    <3> HIDE DEF g
    <3> QED
      BY <2>1, <2>3, GroupApplied
  <2> HIDE DEF e
  <2>5. ASSUME NEW i \in Ids
        PROVE  /\ \/ e.shadow[i] = d.shadow[i]
                  \/ \E n \in 1..m + 1 : i \in DOMAIN groups[n] /\ e.shadow[i] = groups[n][i]
               /\ e.shadow[i].rev >= d.shadow[i].rev
               /\ \A n \in 1..m + 1 : i \in DOMAIN groups[n] => e.shadow[i].rev >= groups[n][i].rev
    <3>1. a.shadow[i].rev \in Nat /\ d.shadow[i].rev \in Nat /\ e.shadow[i].rev \in Nat
      BY <2>1, <2>4, EntityIsRow DEF Replica, Fit
    <3>2. \A n \in 1..m + 1 : i \in DOMAIN groups[n] => groups[n][i].rev \in Nat
      <4> SUFFICES ASSUME NEW n \in 1..m + 1, i \in DOMAIN groups[n]
                   PROVE  groups[n][i].rev \in Nat
        OBVIOUS
      <4>1. n \in 1..L
        OBVIOUS
      <4>2. groups[n][i] \in EntityOf(i)
        BY <4>1 DEF EntityGroup
      <4> QED
        BY <4>2, EntityIsRow
    <3>3. \/ e.shadow[i] = d.shadow[i]
          \/ \E n \in 1..m + 1 : i \in DOMAIN groups[n] /\ e.shadow[i] = groups[n][i]
      BY <2>1, <2>2, <2>4
    <3>4. e.shadow[i].rev >= d.shadow[i].rev
      BY <2>1, <2>4, <3>1
    <3>5. ASSUME NEW n \in 1..m + 1, i \in DOMAIN groups[n]
          PROVE  e.shadow[i].rev >= groups[n][i].rev
      <4>1. CASE n = m + 1
        BY <2>4, <3>5, <4>1
      <4>2. CASE n \in 1..m
        <5>1. a.shadow[i].rev >= groups[n][i].rev /\ e.shadow[i].rev >= a.shadow[i].rev
          BY <2>1, <2>4, <3>5, <4>2
        <5> QED
          BY <3>1, <3>2, <3>5, <5>1
      <4> QED
        BY <2>2, <4>1, <4>2
    <3> QED
      BY <3>3, <3>4, <3>5
  <2>6. e.outbox = d.outbox /\ e.cursor = d.cursor /\ e.reset = d.reset
    BY <2>1, <2>4
  <2>7. Good(e, m + 1)
    BY <2>4, <2>5, <2>6
  <2> HIDE DEF Good
  <2> QED
    BY <2>1, <2>7
<1>4. Good(after[L], L)
  <2>1. L \in S
    <3> HIDE DEF S
    <3> QED
      BY <1>2, <1>3, Induction
  <2> HIDE DEF Good
  <2> QED
    BY <2>1
<1>5. Applied(d, groups) = RetryBlocked(after[L])
  <2>1. Applied(d, groups) = RetryBlocked(InOrder(d, groups))
    BY DEF Applied, InOrder
  <2> QED
    BY <1>1, <2>1
<1>6. Received(d, after[L], groups)
  BY <1>4 DEF Received
<1>7. /\ Replica(after[L])
      /\ after[L].outbox = d.outbox /\ after[L].cursor = d.cursor /\ after[L].reset = d.reset
  BY <1>4
<1> HIDE DEF Good
<1> QED
  BY <1>5, <1>6, <1>7, RetryApplied DEF Received

-----------------------------------------------------------------------------
(* Transactions.  Only c's database changes, and no other part of it than  *)
(* the lemma says.                                                         *)

AllReplicas == db = [c \in Clients |-> db[c]] /\ \A c \in Clients : Replica(db[c])

OthersSame(c) == \A k \in Clients \ {c} : db'[k] = db[k]

LEMMA OneChanged ==
  ASSUME AllReplicas, NEW c \in Clients, NEW e, Replica(e), db' = [db EXCEPT ![c] = e]
  PROVE  AllReplicas' /\ OthersSame(c) /\ db'[c] = e
<1>1. db'[c] = e /\ \A k \in Clients \ {c} : db'[k] = db[k]
  BY DEF AllReplicas
<1>2. db' = [k \in Clients |-> db'[k]]
  BY DEF AllReplicas
<1>3. \A k \in Clients : Replica(db'[k])
  BY <1>1 DEF AllReplicas
<1> QED
  BY <1>1, <1>2, <1>3 DEF AllReplicas, OthersSame

(* What a write of the application leaves alone. *)
WriteOnly(d, e) ==
  e.shadow = d.shadow /\ e.outbox = d.outbox /\ e.cursor = d.cursor /\ e.reset = d.reset

(* The rows of S change and are marked. *)
Marked(d, e, S) ==
  /\ e = [local |-> e.local, shadow |-> e.shadow, dirty |-> e.dirty, deleting |-> e.deleting,
          conflict |-> e.conflict, outbox |-> e.outbox, cursor |-> e.cursor, reset |-> e.reset]
  /\ WriteOnly(d, e)
  /\ e.local = [i \in Ids |-> e.local[i]]
  /\ \A i \in Ids : e.local[i] \in RowOf(i) /\ (i \notin S => e.local[i] = d.local[i])
  /\ RefsPresent(e.local)
  /\ e.deleting \subseteq Ids
  /\ e.conflict = [i \in Ids |-> e.conflict[i]]
  /\ \A i \in Ids : e.conflict[i] = d.conflict[i] \/ e.conflict[i] = None
  /\ e.dirty = d.dirty \cup S

LEMMA RowsMarked ==
  ASSUME NEW d, Replica(d), NEW S \in SUBSET Ids, NEW e, Marked(d, e, S)
  PROVE  Replica(e)
<1>1. IsDatabase(e)
  BY DEF Replica, IsDatabase, Marked, WriteOnly
<1>2. Fit(e)
  <2>1. \A i \in Ids : IsConflict(i, e.conflict[i])
    BY DEF Replica, Fit, IsConflict, Marked
  <2>2. \A i \in Ids : e.shadow[i] \in EntityOf(i)
    BY DEF Replica, Fit, Marked, WriteOnly
  <2>3. e.dirty \subseteq Ids
    BY DEF Replica, Fit, Marked
  <2> QED
    BY <2>1, <2>2, <2>3 DEF Fit, Marked
<1>3. Tracked(e)
  <2> SUFFICES ASSUME NEW i \in Ids, Changed(e, i), i \notin S
               PROVE  i \in d.dirty
    BY DEF Tracked, Marked
  <2>1. e.local[i] = d.local[i] /\ e.shadow[i] = d.shadow[i]
    BY DEF Marked, WriteOnly
  <2>2. Changed(d, i)
    BY <2>1, ChangedSame
  <2> QED
    BY <2>2 DEF Replica, Tracked
<1> QED
  BY <1>1, <1>2, <1>3 DEF Replica

(* A write of the application stores the rows of S and marks them. *)
Writes(c, local, deleting, conflict, S) ==
  db' = [db EXCEPT ![c] = [db[c] EXCEPT !.local = local, !.deleting = deleting,
                                        !.conflict = conflict, !.dirty = @ \cup S]]

Writable(d, local, deleting, conflict, S) ==
  /\ local = [i \in Ids |-> local[i]]
  /\ RefsPresent(local)
  /\ \A i \in Ids : local[i] \in RowOf(i) /\ (i \notin S => local[i] = d.local[i])
  /\ deleting \subseteq Ids
  /\ conflict = [i \in Ids |-> conflict[i]]
  /\ \A i \in Ids : conflict[i] = d.conflict[i] \/ conflict[i] = None

LEMMA Written ==
  ASSUME AllReplicas, NEW c \in Clients, NEW S \in SUBSET Ids, NEW local, NEW deleting, NEW conflict,
         Writes(c, local, deleting, conflict, S), Writable(db[c], local, deleting, conflict, S)
  PROVE  AllReplicas' /\ OthersSame(c) /\ WriteOnly(db[c], db'[c])
<1>1. PICK d : d = db[c]
  OBVIOUS
<1>2. PICK e : e = [d EXCEPT !.local = local, !.deleting = deleting, !.conflict = conflict,
                             !.dirty = @ \cup S]
  OBVIOUS
<1>3. Replica(d) /\ db' = [db EXCEPT ![c] = e]
  BY <1>1, <1>2 DEF AllReplicas, Writes
<1>4. /\ e = [local |-> e.local, shadow |-> e.shadow, dirty |-> e.dirty, deleting |-> e.deleting,
              conflict |-> e.conflict, outbox |-> e.outbox, cursor |-> e.cursor, reset |-> e.reset]
      /\ WriteOnly(d, e) /\ e.local = local /\ e.deleting = deleting /\ e.conflict = conflict
      /\ e.dirty = d.dirty \cup S
  BY <1>2, <1>3 DEF WriteOnly, Replica, IsDatabase
<1>5. Marked(d, e, S)
  BY <1>1, <1>4 DEF Marked, Writable
<1>6. Replica(e)
  BY <1>3, <1>5, RowsMarked
<1> QED
  BY <1>1, <1>3, <1>4, <1>6, OneChanged

LEMMA SaveApplied ==
  ASSUME AllReplicas, NEW c \in Clients, NEW i \in Ids, NEW r \in RowOf(i), Save(c, i, r)
  PROVE  AllReplicas' /\ OthersSame(c) /\ WriteOnly(db[c], db'[c])
<1>1. PICK d : d = db[c]
  OBVIOUS
<1>2. PICK local : local = [d.local EXCEPT ![i] = r]
  OBVIOUS
<1>3. /\ Replica(d) /\ db = [k \in Clients |-> db[k]]
      /\ RefsPresent(local)
  BY <1>1, <1>2 DEF AllReplicas, Save
<1>4. /\ local = [k \in Ids |-> local[k]]
      /\ \A k \in Ids : local[k] = IF k = i THEN r ELSE d.local[k]
      /\ d.conflict = [k \in Ids |-> d.conflict[k]]
      /\ d.deleting \ {i} \subseteq Ids
      /\ \A k \in Ids : d.local[k] \in RowOf(k)
  BY <1>2, <1>3 DEF Replica, IsDatabase, Fit
<1>5. Writes(c, local, d.deleting \ {i}, d.conflict, {i})
  BY <1>1, <1>2, <1>3 DEF Writes, Save, Replica, IsDatabase
<1>6. Writable(d, local, d.deleting \ {i}, d.conflict, {i})
  BY <1>3, <1>4 DEF Writable
<1> QED
  BY <1>1, <1>5, <1>6, Written

LEMMA DeleteApplied ==
  ASSUME AllReplicas, NEW c \in Clients, NEW i \in Ids, Delete(c, i)
  PROVE  AllReplicas' /\ OthersSame(c) /\ WriteOnly(db[c], db'[c])
<1>1. PICK d : d = db[c]
  OBVIOUS
<1>2. PICK deps : deps = IF i \in Parents THEN Dependents(d, i) ELSE {}
  OBVIOUS
<1>3. PICK gone : gone = {i} \cup {k \in deps : OnDelete[k] = "cascade"}
  OBVIOUS
<1> DEFINE freed(k) == [d.local[k] EXCEPT !.data["ref"] = None]
<1>4. PICK local : local = [k \in Ids |-> IF k \in gone THEN None
                                          ELSE IF k \in deps THEN freed(k) ELSE d.local[k]]
  OBVIOUS
<1>5. PICK conflict : conflict = [k \in Ids |-> IF k \in gone /\ Retryable(d, k) THEN None
                                                ELSE d.conflict[k]]
  OBVIOUS
<1>6. Replica(d) /\ db = [k \in Clients |-> db[k]]
  BY <1>1 DEF AllReplicas
<1>7. /\ deps \subseteq Children /\ gone \cup deps \subseteq Ids
      /\ i \in Parents => \A k \in Children : k \in deps <=> RefOf(d.local[k]) = i
  <2>1. i \in Parents => i # None
    BY DataAssumption
  <2> QED
    BY <1>2, <1>3, <2>1 DEF Dependents, RefOf, Ids
<1>8. ASSUME NEW k \in Ids
      PROVE  /\ local[k] \in RowOf(k)
             /\ k \notin gone \cup deps => local[k] = d.local[k]
             /\ k \in deps => RefOf(local[k]) = None
  <2>1. d.local[k] \in RowOf(k) /\ None \in RowOf(k)
    BY <1>6 DEF Replica, Fit, RowOf
  <2>2. CASE k \in deps /\ k \notin gone
    <3>1. PICK r : r = d.local[k] /\ r # None
      BY <1>2, <2>2 DEF Dependents
    <3>2. /\ r = [rev |-> r.rev, data |-> r.data] /\ r.rev \in Nat /\ r.data \in DataOf(k)
      BY <2>1, <3>1, RowForms
    <3>3. PICK data : data = [r.data EXCEPT !["ref"] = None]
      OBVIOUS
    <3>4. [r EXCEPT !.data["ref"] = None] = [rev |-> r.rev, data |-> data]
      BY <3>2, <3>3
    <3>5. r.data \in [Fields -> FieldValue] /\ r.data["val"] \in Values
      BY <3>2, DataForms
    <3>6. data = [f \in Fields |-> data[f]] /\ data["val"] \in Values /\ data["ref"] = None
      BY <3>3, <3>5 DEF Fields
    <3>7. data \in DataOf(k)
      BY <3>6, DataIntro
    <3>8. local[k] = [rev |-> r.rev, data |-> data]
      BY <1>4, <2>2, <3>1, <3>4
    <3> QED
      BY <2>2, <3>2, <3>6, <3>7, <3>8, RowIntro DEF RefOf
  <2>3. CASE k \in gone
    BY <1>4, <2>1, <2>3 DEF RefOf
  <2>4. CASE k \notin gone /\ k \notin deps
    BY <1>4, <2>1, <2>4
  <2> QED
    BY <2>2, <2>3, <2>4
<1>9. RefsPresent(local)
  <2> SUFFICES ASSUME NEW k \in Children, RefOf(local[k]) \in Parents
               PROVE  local[RefOf(local[k])] # None
    BY DEF RefsPresent
  <2>1. k \in Ids /\ k \notin deps /\ k \notin gone
    BY <1>4, <1>8, DataAssumption DEF Ids, RefOf
  <2>2. local[k] = d.local[k]
    BY <1>8, <2>1
  <2> DEFINE p == RefOf(local[k])
  <2>3. p \in Ids /\ p \notin Children /\ d.local[p] # None
    BY <1>6, <2>2, DataAssumption DEF Replica, Fit, RefsPresent, Ids
  <2>4. p # i
    BY <1>7, <2>1, <2>2
  <2>5. p \notin deps /\ p \notin gone
    BY <1>3, <1>7, <2>3, <2>4
  <2> QED
    BY <1>4, <2>3, <2>5
<1>10. /\ local = [k \in Ids |-> local[k]]
       /\ conflict = [k \in Ids |-> conflict[k]]
       /\ \A k \in Ids : conflict[k] = d.conflict[k] \/ conflict[k] = None
       /\ d.deleting \cup gone \subseteq Ids
  BY <1>4, <1>5, <1>6, <1>7 DEF Replica, Fit
<1>11. Writes(c, local, d.deleting \cup gone, conflict, gone \cup deps)
  <2>1. d.dirty \cup gone \cup deps = d.dirty \cup (gone \cup deps)
    OBVIOUS
  <2>2. db' = [db EXCEPT ![c].local = local, ![c].deleting = d.deleting \cup gone,
                         ![c].conflict = conflict, ![c].dirty = d.dirty \cup (gone \cup deps)]
    BY <1>1, <1>2, <1>3, <1>4, <1>5, <1>6, <2>1 DEF Delete
  <2> QED
    BY <1>1, <1>6, <2>2 DEF Writes, Replica, IsDatabase
<1>12. Writable(d, local, d.deleting \cup gone, conflict, gone \cup deps)
  BY <1>8, <1>9, <1>10 DEF Writable
<1> QED
  BY <1>1, <1>7, <1>11, <1>12, Written

LEMMA ResolveApplied ==
  ASSUME AllReplicas, NEW c \in Clients, NEW i \in Ids, NEW data \in DataOf(i) \cup {None},
         Resolve(c, i, data)
  PROVE  AllReplicas' /\ OthersSame(c) /\ WriteOnly(db[c], db'[c])
<1>1. PICK d : d = db[c]
  OBVIOUS
<1>2. PICK r : r = IF data = None THEN None ELSE [rev |-> d.shadow[i].rev, data |-> data]
  OBVIOUS
<1>3. PICK local : local = [d.local EXCEPT ![i] = r]
  OBVIOUS
<1>4. PICK conflict : conflict = [d.conflict EXCEPT ![i] = None]
  OBVIOUS
<1>5. PICK deleting : deleting = IF r = None THEN d.deleting \cup {i} ELSE d.deleting \ {i}
  OBVIOUS
<1>6. /\ Replica(d) /\ db = [k \in Clients |-> db[k]]
      /\ RefsPresent(local)
  BY <1>1, <1>2, <1>3 DEF AllReplicas, Resolve
<1>7. r \in RowOf(i)
  <2>1. d.shadow[i].rev \in Nat
    BY <1>6, EntityIsRow DEF Replica, Fit
  <2>2. None \in RowOf(i)
    BY DEF RowOf
  <2> QED
    BY <1>2, <2>1, <2>2, RowIntro
<1>8. Writes(c, local, deleting, conflict, {i})
  BY <1>1, <1>2, <1>3, <1>4, <1>5, <1>6 DEF Writes, Resolve, Replica, IsDatabase
<1>9. Writable(d, local, deleting, conflict, {i})
  <2>1. /\ local = [k \in Ids |-> local[k]]
        /\ \A k \in Ids : local[k] = IF k = i THEN r ELSE d.local[k]
    BY <1>3, <1>6 DEF Replica, IsDatabase
  <2>2. /\ conflict = [k \in Ids |-> conflict[k]]
        /\ \A k \in Ids : conflict[k] = d.conflict[k] \/ conflict[k] = None
    BY <1>4, <1>6 DEF Replica, IsDatabase
  <2>3. deleting \subseteq Ids
    BY <1>5, <1>6 DEF Replica, Fit
  <2>4. \A k \in Ids : d.local[k] \in RowOf(k)
    BY <1>6 DEF Replica, Fit
  <2> QED
    BY <1>6, <1>7, <2>1, <2>2, <2>3, <2>4 DEF Writable
<1> QED
  BY <1>1, <1>8, <1>9, Written

(* A write of the application does not touch the shadows, the outbox and   *)
(* the cursors.                                                            *)
LEMMA EditApplied ==
  ASSUME AllReplicas, NEW c \in Clients, NEW i \in Ids,
         \/ \E data \in DataOf(i) : Insert(c, i, data) \/ Update(c, i, data)
         \/ Delete(c, i)
         \/ \E data \in DataOf(i) \cup {None} : Resolve(c, i, data)
  PROVE  AllReplicas' /\ OthersSame(c) /\ WriteOnly(db[c], db'[c])
<1>1. ASSUME NEW data \in DataOf(i), Insert(c, i, data)
      PROVE  \E r \in RowOf(i) : Save(c, i, r)
  <2>1. [rev |-> 0, data |-> data] \in RowOf(i)
    BY RowIntro
  <2> QED
    BY <1>1, <2>1 DEF Insert
<1>2. ASSUME NEW data \in DataOf(i), Update(c, i, data)
      PROVE  \E r \in RowOf(i) : Save(c, i, r)
  <2>1. PICK old : old = db[c].local[i] /\ old \in RowOf(i) /\ old # None
    BY <1>2 DEF Update, AllReplicas, Replica, Fit
  <2>2. [old EXCEPT !.data = data] = [rev |-> old.rev, data |-> data] /\ old.rev \in Nat
    BY <2>1, RowForms
  <2>3. [old EXCEPT !.data = data] \in RowOf(i)
    BY <2>2, RowIntro
  <2> QED
    BY <1>2, <2>1, <2>3 DEF Update
<1> QED
  BY <1>1, <1>2, SaveApplied, DeleteApplied, ResolveApplied

(* The books of a database: its outbox, cursors and pending resets. *)
Booked(d, e) ==
  /\ e = [local |-> e.local, shadow |-> e.shadow, dirty |-> e.dirty, deleting |-> e.deleting,
          conflict |-> e.conflict, outbox |-> e.outbox, cursor |-> e.cursor, reset |-> e.reset]
  /\ e.local = d.local /\ e.shadow = d.shadow /\ e.dirty = d.dirty /\ e.deleting = d.deleting
  /\ e.conflict = d.conflict
  /\ e.cursor = [f \in Feeds |-> e.cursor[f]]

LEMMA BooksKept ==
  ASSUME NEW d, Replica(d), NEW e, Booked(d, e)
  PROVE  Replica(e)
<1>1. IsDatabase(e)
  BY DEF Replica, IsDatabase, Booked
<1>2. Fit(e)
  BY DEF Replica, Fit, Booked
<1>3. \A i \in Ids : Changed(e, i) <=> Changed(d, i)
  BY ChangedSame DEF Booked
<1>4. Tracked(e)
  BY <1>3 DEF Replica, Tracked, Booked
<1> QED
  BY <1>1, <1>2, <1>4 DEF Replica

LEMMA TidiedForms ==
  ASSUME NEW d, Replica(d)
  PROVE  LET e == Tidied(d)
         IN /\ Replica(e)
            /\ e.local = d.local /\ e.conflict = d.conflict
            /\ WriteOnly(d, e)
<1>1. PICK e : e = Tidied(d)
  OBVIOUS
<1>2. /\ e = [local |-> e.local, shadow |-> e.shadow, dirty |-> e.dirty, deleting |-> e.deleting,
              conflict |-> e.conflict, outbox |-> e.outbox, cursor |-> e.cursor, reset |-> e.reset]
      /\ e.local = d.local /\ e.conflict = d.conflict
      /\ e.dirty = Unsent(d) /\ e.deleting \subseteq d.deleting
      /\ WriteOnly(d, e)
  BY <1>1 DEF Tidied, WriteOnly, Replica, IsDatabase
<1>3. IsDatabase(e)
  BY <1>2 DEF Replica, IsDatabase, WriteOnly
<1>4. Fit(e)
  BY <1>2 DEF Replica, Fit, WriteOnly, Unsent
<1>5. Tracked(e)
  <2> SUFFICES ASSUME NEW i \in Ids, Changed(e, i)
               PROVE  i \in Unsent(d)
    BY <1>2 DEF Tracked
  <2>1. Changed(d, i)
    BY <1>2, ChangedSame DEF WriteOnly
  <2> QED
    BY <2>1 DEF Replica, Tracked, Unsent
<1> QED
  BY <1>1, <1>2, <1>3, <1>4, <1>5 DEF Replica

(* The operation that a preparation makes of the rows of S. *)
OperationOf(d, number, feed, S) ==
  [number |-> number, feed |-> feed, muts |-> [i \in S |-> MutationOf(d, i)]]

LEMMA OperationTyped ==
  ASSUME NEW d, Replica(d), NEW number, NEW feed, NEW S \in SUBSET Ids
  PROVE  LET op == OperationOf(d, number, feed, S)
         IN /\ op.number = number /\ op.feed = feed
            /\ IsMutations(op.muts) /\ DOMAIN op.muts = S
            /\ \A i \in S : op.muts[i] = MutationOf(d, i) /\ op.muts[i].base = d.shadow[i].rev
<1> DEFINE muts == [i \in S |-> MutationOf(d, i)]
<1>1. \A i \in S : MutationOf(d, i) \in Mutation /\ MutationOf(d, i).base = d.shadow[i].rev
  <2> SUFFICES ASSUME NEW i \in S
               PROVE  MutationOf(d, i) \in Mutation /\ MutationOf(d, i).base = d.shadow[i].rev
    OBVIOUS
  <2>1. d.shadow[i].rev \in Nat /\ d.local[i] \in RowOf(i)
    BY EntityIsRow DEF Replica, Fit
  <2>2. PatchRow(i, ShadowRow(d, i), d.local[i]) \in Patch \cup {None}
    BY <2>1, PatchTyped
  <2> QED
    BY <2>1, <2>2 DEF MutationOf, Mutation
<1>2. DOMAIN muts = S /\ \A i \in S : muts[i] = MutationOf(d, i)
  OBVIOUS
<1>3. IsMutations(muts)
  BY <1>1 DEF IsMutations
<1>4. /\ OperationOf(d, number, feed, S).number = number
      /\ OperationOf(d, number, feed, S).feed = feed
      /\ OperationOf(d, number, feed, S).muts = muts
  BY DEF OperationOf
<1> HIDE DEF muts
<1> QED
  BY <1>1, <1>2, <1>3, <1>4

LEMMA SelectionTyped ==
  ASSUME NEW d, Replica(d), NEW f \in Feeds
  PROVE  Sendable(d, f) \subseteq Ids /\ SendFeed(d, f) \in Feeds
<1>1. Unsent(d) \subseteq Ids
  BY DEF Replica, Fit, Unsent
<1>2. Selected(d, f) \subseteq Ids
  BY <1>1 DEF Selected, MissingParents, Ids
<1>3. Sendable(d, f) \subseteq Ids
  BY <1>2 DEF Sendable
<1>4. SendFeed(d, f) \in Feeds
  <2>1. CASE f = "scope"
    BY <2>1 DEF SendFeed
  <2>2. CASE f # "scope"
    <3>1. Feeds = {"parents", "children"}
      BY <2>2, ClientAssumption
    <3>2. (CHOOSE g \in Feeds : g # f) \in Feeds
      <4>1. \E g \in Feeds : g # f
        BY <3>1
      <4> QED
        BY <4>1
    <3> QED
      BY <2>2, <3>1, <3>2 DEF SendFeed
  <2> QED
    BY <2>1, <2>2
<1> QED
  BY <1>3, <1>4

(* A preparation tidies the dirty set and stores an operation made of rows *)
(* and shadows as they are.                                                *)
LEMMA PrepareApplied ==
  ASSUME AllReplicas, NEW c \in Clients, NEW f \in Feeds, NEW number, Prepare(c, f, number)
  PROVE  /\ AllReplicas' /\ OthersSame(c)
         /\ db'[c].local = db[c].local /\ db'[c].shadow = db[c].shadow
         /\ db'[c].cursor = db[c].cursor /\ db'[c].reset = db[c].reset
         /\ db'[c].conflict = db[c].conflict
         /\ \E feed \in Feeds : \E S \in SUBSET Ids :
              db'[c].outbox = db[c].outbox \cup {OperationOf(db[c], number, feed, S)}
<1>1. PICK d : d = db[c] /\ Replica(d)
  BY DEF AllReplicas
<1>2. PICK S \in SUBSET Ids, feed \in Feeds :
        db' = [db EXCEPT ![c] = [Tidied(d) EXCEPT !.outbox = @ \cup {OperationOf(d, number, feed, S)}]]
  <2>1. PICK T \in FirstOf(d, Sendable(d, f)) :
          db' = [db EXCEPT ![c] = [Tidied(d) EXCEPT !.outbox = @ \cup
                   {OperationOf(d, number, SendFeed(d, f), T)}]]
    <3>1. \E T \in FirstOf(db[c], Sendable(db[c], f)) :
             db' = [db EXCEPT ![c] = [Tidied(db[c]) EXCEPT !.outbox = @ \cup
                      {OperationOf(db[c], number, SendFeed(db[c], f), T)}]]
      BY Zenon DEF Prepare, OperationOf
    <3> QED
      BY <1>1, <3>1
  <2>2. T \in SUBSET Ids /\ SendFeed(d, f) \in Feeds
    BY <1>1, SelectionTyped DEF FirstOf
  <2> QED
    BY <2>1, <2>2
<1>3. PICK t : t = Tidied(d)
  OBVIOUS
<1>4. PICK op : op = OperationOf(d, number, feed, S)
  OBVIOUS
<1>5. PICK e : e = [t EXCEPT !.outbox = @ \cup {op}]
  OBVIOUS
<1>6. /\ Replica(t)
      /\ t.local = d.local /\ t.conflict = d.conflict /\ WriteOnly(d, t)
  BY <1>1, <1>3, TidiedForms
<1>7. Booked(t, e) /\ e.cursor = t.cursor /\ e.reset = t.reset /\ e.outbox = t.outbox \cup {op}
  BY <1>5, <1>6 DEF Booked, Replica, IsDatabase
<1>8. Replica(e)
  BY <1>6, <1>7, BooksKept
<1>9. AllReplicas' /\ OthersSame(c) /\ db'[c] = e
  BY <1>2, <1>3, <1>4, <1>5, <1>8, OneChanged
<1>10. db'[c].outbox = db[c].outbox \cup {OperationOf(db[c], number, feed, S)}
  BY <1>1, <1>4, <1>6, <1>7, <1>9 DEF WriteOnly
<1> QED
  BY <1>1, <1>6, <1>7, <1>9, <1>10 DEF WriteOnly, Booked

LEMMA TidyApplied ==
  ASSUME AllReplicas, NEW c \in Clients, NEW f, PrepareNothing(c, f)
  PROVE  AllReplicas' /\ OthersSame(c) /\ WriteOnly(db[c], db'[c]) /\ db'[c].local = db[c].local
<1>1. PICK d : d = db[c] /\ Replica(d)
  BY DEF AllReplicas
<1>2. PICK e : e = Tidied(d) /\ db' = [db EXCEPT ![c] = e]
  BY <1>1 DEF PrepareNothing
<1>3. Replica(e) /\ e.local = d.local /\ WriteOnly(d, e)
  BY <1>1, <1>2, TidiedForms
<1> QED
  BY <1>1, <1>2, <1>3, OneChanged

TypedPage(groups) ==
  \E L \in Nat : DOMAIN groups = 1..L /\ \A n \in 1..L : EntityGroup(groups[n])

LEMMA ApplyApplied ==
  ASSUME AllReplicas, NEW c \in Clients, NEW f \in Feeds, NEW groups, TypedPage(groups),
         NEW cursor, NEW full, Apply(c, f, groups, cursor, full)
  PROVE  /\ AllReplicas' /\ OthersSame(c)
         /\ \/ db' = db
            \/ /\ Takes(db[c], f, groups, cursor, full)
               /\ db'[c].outbox = db[c].outbox
               /\ db'[c].cursor = [db[c].cursor EXCEPT ![f] = cursor]
               /\ db'[c].reset \subseteq db[c].reset
               /\ Received(db[c], db'[c], groups)
<1>0. PICK L \in Nat : DOMAIN groups = 1..L /\ \A n \in 1..L : EntityGroup(groups[n])
  BY DEF TypedPage
<1>1. PICK d : d = db[c] /\ Replica(d)
  BY DEF AllReplicas
<1>2. CASE ~Takes(d, f, groups, cursor, full)
  BY <1>1, <1>2 DEF Apply, AllReplicas, OthersSame
<1>3. CASE Takes(d, f, groups, cursor, full)
  <2>1. PICK a : a = Applied(d, groups)
    OBVIOUS
  <2>2. PICK e : e = [a EXCEPT !.cursor[f] = cursor, !.reset = IF full THEN @ \ {f} ELSE @]
    OBVIOUS
  <2>3. db' = [db EXCEPT ![c] = e]
    BY <1>1, <1>3, <2>1, <2>2 DEF Apply
  <2>4. /\ Replica(a) /\ a.outbox = d.outbox /\ a.cursor = d.cursor /\ a.reset = d.reset
        /\ Received(d, a, groups)
    BY <1>0, <1>1, <2>1, GroupsApplied
  <2>5. PICK cs : cs = [a.cursor EXCEPT ![f] = cursor]
    OBVIOUS
  <2>6. /\ Booked(a, e) /\ e.outbox = a.outbox
        /\ e.cursor = cs /\ e.reset \subseteq a.reset
    <3>1. cs = [g \in Feeds |-> cs[g]]
      BY <2>4, <2>5 DEF Replica, IsDatabase
    <3>2. e = [a EXCEPT !.cursor = cs, !.reset = IF full THEN @ \ {f} ELSE @]
      BY <2>2, <2>4, <2>5 DEF Replica, IsDatabase
    <3> QED
      BY <2>4, <3>1, <3>2 DEF Booked, Replica, IsDatabase
  <2>7. Replica(e)
    BY <2>4, <2>6, BooksKept
  <2>8. AllReplicas' /\ OthersSame(c) /\ db'[c] = e
    BY <2>3, <2>7, OneChanged
  <2>9. Received(d, e, groups)
    BY <2>4, <2>6 DEF Received, Booked
  <2> QED
    BY <1>1, <1>3, <2>4, <2>5, <2>6, <2>8, <2>9
<1> QED
  BY <1>2, <1>3

LEMMA ResetApplied ==
  ASSUME AllReplicas, NEW c \in Clients, NEW f \in Feeds, RequireReset(c, f)
  PROVE  /\ AllReplicas' /\ OthersSame(c)
         /\ db'[c].local = db[c].local /\ db'[c].shadow = db[c].shadow
         /\ db'[c].outbox = db[c].outbox /\ db'[c].cursor = db[c].cursor
         /\ db'[c].conflict = db[c].conflict
         /\ db'[c].reset = db[c].reset \cup {f}
<1>1. PICK d : d = db[c] /\ Replica(d)
  BY DEF AllReplicas
<1>2. PICK e : e = [d EXCEPT !.reset = @ \cup {f}]
  OBVIOUS
<1>3. db' = [db EXCEPT ![c] = e]
  BY <1>1, <1>2 DEF RequireReset
<1>4. Booked(d, e) /\ e.outbox = d.outbox /\ e.cursor = d.cursor /\ e.reset = d.reset \cup {f}
  BY <1>1, <1>2 DEF Booked, Replica, IsDatabase
<1>5. Replica(e)
  BY <1>1, <1>4, BooksKept
<1> QED
  BY <1>1, <1>3, <1>4, <1>5, OneChanged DEF Booked

-----------------------------------------------------------------------------
(* The result of an operation.                                             *)

LEMMA AnsweredOk ==
  ASSUME NEW d, Replica(d), NEW i \in Ids, NEW m, NEW result, EntityGroup(result.entities)
  PROVE  /\ UpdateOk(i, Answered(d, i, m, result))
         /\ Answered(d, i, m, result).remote = IF i \in DOMAIN result.entities
                                               THEN result.entities[i] ELSE d.shadow[i]
<1> DEFINE accepted == result.kind = "accepted"
           deleted == LocallyDeleted(d, i)
           base == ShadowRow(d, i)
           u == Answered(d, i, m, result)
<1>1. PICK remote : remote = IF i \in DOMAIN result.entities THEN result.entities[i] ELSE d.shadow[i]
  OBVIOUS
<1>2. PICK local : local = d.local[i]
  OBVIOUS
<1>3. remote \in EntityOf(i) /\ local \in RowOf(i) /\ RecordOf(remote) \in RowOf(i)
  BY <1>1, <1>2, EntityIsRow DEF EntityGroup, Replica, Fit
<1>4. /\ u.remote = remote
      /\ u.merged \in {Acknowledge(SentData(d, i, m), local, RecordOf(remote)).row,
                       MergeDeleted(base, RecordOf(remote)).row,
                       MergeRow(base, local, RecordOf(remote)).row}
      /\ u.ack \in {remote, None}
      /\ u.conflict \in {Clash, None}
  BY <1>1, <1>2 DEF Answered
<1>5. IsConflict(i, Clash) /\ IsConflict(i, None)
  BY ConflictForms DEF IsConflict
<1> HIDE DEF u
<1>6. u.merged \in RowOf(i)
  BY <1>3, <1>4, MergeTyped
<1>7. UpdateOk(i, u)
  BY <1>3, <1>4, <1>5, <1>6 DEF UpdateOk
<1> QED
  BY <1>1, <1>4, <1>7 DEF u

LEMMA SideEffectOk ==
  ASSUME NEW d, Replica(d), NEW i \in Ids, NEW remote \in EntityOf(i)
  PROVE  UpdateOk(i, SideEffect(d, i, remote)) /\ SideEffect(d, i, remote).remote = remote
<1> DEFINE u == SideEffect(d, i, remote)
<1>1. d.local[i] \in RowOf(i) /\ RecordOf(remote) \in RowOf(i)
  BY EntityIsRow DEF Replica, Fit
<1>2. /\ u.remote = remote /\ u.ack = None
      /\ u.merged = MergeRow(ShadowRow(d, i), d.local[i], RecordOf(remote)).row
      /\ u.conflict \in {Clash, None}
  BY DEF SideEffect
<1>3. IsConflict(i, Clash) /\ IsConflict(i, None)
  BY ConflictForms DEF IsConflict
<1> HIDE DEF u
<1>4. u.merged \in RowOf(i)
  BY <1>1, <1>2, MergeTyped
<1>5. UpdateOk(i, u)
  BY <1>2, <1>3, <1>4 DEF UpdateOk
<1> QED
  BY <1>2, <1>5 DEF u

(* The operation leaves the outbox.  Shadows take the entities of the      *)
(* result: those of the mutations in any case, the others when newer.      *)
LEMMA FinishApplied ==
  ASSUME AllReplicas, NEW c \in Clients, NEW op, IsMutations(op.muts), NEW result,
         EntityGroup(result.entities), Finish(c, op, result)
  PROVE  /\ AllReplicas' /\ OthersSame(c)
         /\ op \in db[c].outbox /\ ~ShadowMoved(db[c], op)
         /\ db'[c].outbox = db[c].outbox \ {op}
         /\ db'[c].cursor = db[c].cursor /\ db'[c].reset = db[c].reset
         /\ \A i \in Ids :
              \/ db'[c].shadow[i] = db[c].shadow[i]
              \/ /\ i \in DOMAIN result.entities
                 /\ db'[c].shadow[i] = result.entities[i]
                 /\ i \in DOMAIN op.muts \/ result.entities[i].rev > db[c].shadow[i].rev
<1>1. PICK d : d = db[c] /\ Replica(d)
  BY DEF AllReplicas
<1>2. PICK answers : answers = [i \in DOMAIN op.muts |-> Answered(d, i, op.muts[i], result)]
  OBVIOUS
<1>3. PICK effects : effects = SideEffects(d, op, result)
  OBVIOUS
<1>4. PICK U : U = Joined(answers, effects)
  OBVIOUS
<1>5. PICK a : a = ApplyUpdates(d, U)
  OBVIOUS
<1>6. PICK e : e = [a EXCEPT !.outbox = @ \ {op}]
  OBVIOUS
<1>7. op \in d.outbox /\ ~ShadowMoved(d, op)
  BY <1>1 DEF Finish
<1>8. db' = [db EXCEPT ![c] = e]
  <2>1. db' = [db EXCEPT ![c] =
                 [ApplyUpdates(db[c], Joined([i \in DOMAIN op.muts |-> Answered(db[c], i, op.muts[i], result)],
                                             SideEffects(db[c], op, result)))
                    EXCEPT !.outbox = @ \ {op}]]
    BY Zenon DEF Finish
  <2>2. [i \in DOMAIN op.muts |-> Answered(db[c], i, op.muts[i], result)] = answers
    BY <1>1, <1>2
  <2> QED
    BY <1>1, <1>3, <1>4, <1>5, <1>6, <2>1, <2>2
<1>9. /\ DOMAIN answers = DOMAIN op.muts /\ DOMAIN op.muts \subseteq Ids
      /\ \A i \in DOMAIN answers :
           /\ UpdateOk(i, answers[i])
           /\ answers[i].remote = IF i \in DOMAIN result.entities THEN result.entities[i]
                                  ELSE d.shadow[i]
  BY <1>1, <1>2, AnsweredOk DEF IsMutations
<1>10. /\ DOMAIN effects = {k \in DOMAIN result.entities \ DOMAIN op.muts :
                              result.entities[k].rev > d.shadow[k].rev}
       /\ \A i \in DOMAIN effects : effects[i] = SideEffect(d, i, result.entities[i])
  BY <1>3 DEF SideEffects
<1>11. \A i \in DOMAIN effects : UpdateOk(i, effects[i]) /\ effects[i].remote = result.entities[i]
  BY <1>1, <1>10, SideEffectOk DEF EntityGroup
<1>12. /\ DOMAIN U = DOMAIN answers \cup DOMAIN effects
       /\ \A i \in DOMAIN U : U[i] = IF i \in DOMAIN answers THEN answers[i] ELSE effects[i]
  BY <1>4 DEF Joined
<1>13. DOMAIN U \subseteq Ids /\ \A i \in DOMAIN U : UpdateOk(i, U[i])
  BY <1>9, <1>10, <1>11, <1>12 DEF EntityGroup
<1>14. /\ Replica(a)
       /\ a.outbox = d.outbox /\ a.cursor = d.cursor /\ a.reset = d.reset
       /\ \A i \in Ids : a.shadow[i] = IF i \in DOMAIN U THEN U[i].remote ELSE d.shadow[i]
  BY <1>1, <1>5, <1>13, UpdatesApplied
<1>15. Booked(a, e) /\ e.outbox = a.outbox \ {op} /\ e.cursor = a.cursor /\ e.reset = a.reset
  BY <1>6, <1>14 DEF Booked, Replica, IsDatabase
<1>16. AllReplicas' /\ OthersSame(c) /\ db'[c] = e
  BY <1>8, <1>14, <1>15, BooksKept, OneChanged
<1>17. ASSUME NEW i \in Ids
       PROVE  \/ e.shadow[i] = d.shadow[i]
              \/ /\ i \in DOMAIN result.entities
                 /\ e.shadow[i] = result.entities[i]
                 /\ i \in DOMAIN op.muts \/ result.entities[i].rev > d.shadow[i].rev
  <2>1. e.shadow[i] = IF i \in DOMAIN U THEN U[i].remote ELSE d.shadow[i]
    BY <1>14, <1>15 DEF Booked
  <2>2. CASE i \in DOMAIN answers
    BY <1>9, <1>12, <2>1, <2>2
  <2>3. CASE i \in DOMAIN effects /\ i \notin DOMAIN answers
    BY <1>10, <1>11, <1>12, <2>1, <2>3
  <2>4. CASE i \notin DOMAIN U
    BY <2>1, <2>4
  <2> QED
    BY <1>12, <2>2, <2>3, <2>4
<1> QED
  BY <1>1, <1>7, <1>14, <1>15, <1>16, <1>17

-----------------------------------------------------------------------------
(* The invariant.                                                          *)

ServerInv == Typed /\ History /\ References /\ RepliesReceipted /\ WritersInv

(* e has been committed as a revision of i, or i has none. *)
Historical(i, e) == e = Absent \/ \E n \in GroupsOf(i) : journal[n][i] = e

HistoricalGroup(g) == DOMAIN g \subseteq Ids /\ \A i \in DOMAIN g : Historical(i, g[i])

Shadows == \A c \in Clients : \A i \in Ids : Historical(i, db[c].shadow[i])

(* Client c has received what was committed of entity i up to sequence n. *)
CoveredAt(c, i, n) == db[c].shadow[i].rev >= Cardinality(Until(i, n))

CursorOk(c, f) ==
  db[c].cursor[f] # None =>
    /\ db[c].cursor[f] \in 0..Len(journal)
    /\ \A i \in FeedIds(f) : CoveredAt(c, i, db[c].cursor[f])

Cursors == \A c \in Clients : \A f \in Feeds : CursorOk(c, f)

(* The groups of a page hold what the client lacks up to the cursor. *)
PageOk(c, f, groups, cursor) ==
  /\ \E L \in Nat : DOMAIN groups = 1..L
  /\ \A n \in DOMAIN groups : HistoricalGroup(groups[n])
  /\ cursor \in 0..Len(journal)
  /\ \A i \in FeedIds(f) :
       \/ CoveredAt(c, i, cursor)
       \/ \E n \in DOMAIN groups : /\ i \in DOMAIN groups[n]
                                   /\ groups[n][i].rev >= Cardinality(Until(i, cursor))

CallOk(c, f) ==
  call[c][f].kind = "page" => PageOk(c, f, call[c][f].groups, call[c][f].cursor)

Pages == \A c \in Clients : \A f \in Feeds : CallOk(c, f)

(* Operations in the outbox have numbers of their own, and bases that were *)
(* revisions of the server.                                                *)
OutboxOk(c) ==
  /\ \A op \in db[c].outbox :
       /\ op.number \in 1..made[c] /\ op.feed \in Feeds
       /\ IsMutations(op.muts)
       /\ \A i \in DOMAIN op.muts : op.muts[i].base <= row[i].rev
  /\ \A a, b \in db[c].outbox : a.number = b.number => a = b

Outboxes == \A c \in Clients : OutboxOk(c)

(* Receipts are those of operations made, and hold committed revisions not *)
(* older than the bases of a refused operation.                            *)
ReceiptOk(r) ==
  /\ \E c \in Clients : \E n \in 1..made[c] : r.key = <<c, n>>
  /\ HistoricalGroup(r.result.entities)
  /\ r.result.kind \in {"accepted", "conflict", "rejected"}
  /\ r.result.kind # "accepted" =>
       \A i \in DOMAIN r.muts \cap DOMAIN r.result.entities :
         r.result.entities[i].rev >= r.muts[i].base

Receipts == \A r \in receipts : ReceiptOk(r)

(* A receipt belongs to the operation with its number. *)
Matched ==
  \A c \in Clients : \A op \in db[c].outbox : \A r \in receipts :
    r.key = <<c, op.number>> => r.muts = op.muts

Counters ==
  /\ call = [c \in Clients |-> [f \in Feeds |-> call[c][f]]]
  /\ made \in [Clients -> Nat]
  /\ edits \in 0..MaxEdits
  /\ \A c \in Clients : db[c].reset \subseteq Feeds

(* A row has reached the revisions of its groups. *)
Bounded == \A i \in Ids : \A n \in GroupsOf(i) : journal[n][i].rev <= row[i].rev

(* What the replicas have and have sent, whatever brings it to them.       *)
ReplicasInv ==
  /\ Typed /\ Bounded
  /\ AllReplicas /\ Shadows
  /\ Outboxes /\ Receipts /\ Matched
  /\ made \in [Clients -> Nat]

SystemInv ==
  /\ AllReplicas /\ ServerInv
  /\ Shadows /\ Cursors /\ Pages
  /\ Outboxes /\ Receipts /\ Matched /\ Counters

-----------------------------------------------------------------------------
(* The history grows at its end.                                           *)

Grown ==
  /\ Len(journal) \in Nat /\ Len(journal)' \in Nat /\ Len(journal)' >= Len(journal)
  /\ \A i \in Ids :
       /\ \A n \in GroupsOf(i) : n \in GroupsOf(i)' /\ journal'[n][i] = journal[n][i]
       /\ \A n \in 0..Len(journal) : Until(i, n)' = Until(i, n)
       /\ row[i].rev \in Nat /\ row'[i].rev \in Nat /\ row'[i].rev >= row[i].rev

LEMMA HistoryGrows ==
  ASSUME Typed, Step
  PROVE  Grown
<1>1. /\ Len(journal) \in Nat
      /\ \A i \in Ids : GroupsOf(i) \subseteq 1..Len(journal)
      /\ \A i \in Ids : /\ row[i].rev \in Nat /\ row'[i].rev \in Nat
                        /\ row'[i].rev >= row[i].rev
  BY GroupsFinite, EntityForms, RevisionsGrow
<1>2. CASE journal' = journal
  <2>1. Len(journal)' = Len(journal)
    BY <1>2
  <2>2. \A i \in Ids : GroupsOf(i)' = GroupsOf(i)
    BY <1>2, <2>1 DEF GroupsOf, Sequence
  <2> QED
    BY <1>1, <1>2, <2>1, <2>2 DEF Grown, Until
<1>3. CASE \E muts : Sound(muts) /\ ApplyAndJournal(muts)
  <2>1. PICK muts : Sound(muts) /\ ApplyAndJournal(muts)
    BY <1>3
  <2>2. SUFFICES ASSUME NEW i \in Ids
                 PROVE  /\ \A n \in GroupsOf(i) : n \in GroupsOf(i)' /\ journal'[n][i] = journal[n][i]
                        /\ \A n \in 0..Len(journal) : Until(i, n)' = Until(i, n)
                        /\ Len(journal)' = Len(journal) + 1
    <3>1. Len(journal') = Len(journal) + 1
      BY <2>1, TypedInductive, ApplyTyped DEF Typed, ApplyAndJournal
    <3> QED
      BY <1>1, <2>2, <3>1 DEF Grown
  <2>3. /\ Len(journal') = Len(journal) + 1
        /\ \A n \in 1..Len(journal) : journal'[n] = journal[n]
        /\ GroupsOf(i)' = GroupsOf(i) \cup {Len(journal) + 1} \/ GroupsOf(i)' = GroupsOf(i)
    BY <2>1, GroupsGrow
  <2> QED
    BY <1>1, <2>3 DEF Until
<1>4. ASSUME NEW muts, OwnStep(muts) PROVE Grown
  BY <1>3, <1>4 DEF OwnStep
<1>5. ASSUME NEW req, AcceptStep(req) PROVE Grown
  BY <1>3, <1>5 DEF AcceptStep, Accept
<1>6. ASSUME NEW req, NEW result, RefuseStep(req, result) PROVE Grown
  BY <1>2, <1>6 DEF RefuseStep
<1>7. ASSUME NEW r, RepeatStep(r) PROVE Grown
  BY <1>2, <1>7 DEF RepeatStep
<1>8. PruneStep \/ UNCHANGED serverVars => Grown
  BY <1>2 DEF PruneStep, serverVars
<1> QED
  BY <1>4, <1>5, <1>6, <1>7, <1>8 DEF Step

LEMMA HistoricalStays ==
  ASSUME Grown, NEW i \in Ids, NEW e, Historical(i, e)
  PROVE  e = Absent \/ \E n \in GroupsOf(i)' : journal'[n][i] = e
BY DEF Grown, Historical

LEMMA HistoricalGroupStays ==
  ASSUME Grown, NEW g, HistoricalGroup(g)
  PROVE  /\ DOMAIN g \subseteq Ids
         /\ \A i \in DOMAIN g : g[i] = Absent \/ \E n \in GroupsOf(i)' : journal'[n][i] = g[i]
BY HistoricalStays DEF HistoricalGroup

LEMMA HistoryBounds ==
  ASSUME Typed, History
  PROVE  Bounded
<1> SUFFICES ASSUME NEW i \in Ids, NEW n \in GroupsOf(i)
             PROVE  journal[n][i].rev <= row[i].rev
  BY DEF Bounded
<1>1. Until(i, n) \in SUBSET GroupsOf(i)
  BY DEF Until
<1>2. Cardinality(Until(i, n)) <= Cardinality(GroupsOf(i))
  BY <1>1, GroupsFinite, FS_Subset
<1> QED
  BY <1>2 DEF History

LEMMA ReplicasHold ==
  ASSUME SystemInv
  PROVE  ReplicasInv
BY HistoryBounds DEF SystemInv, ServerInv, Counters, ReplicasInv

(* What was committed has the type of its model, and a revision that the   *)
(* row has reached.                                                        *)
LEMMA CommittedForms ==
  ASSUME Typed, Bounded, NEW i \in Ids, NEW e, Historical(i, e)
  PROVE  e \in EntityOf(i) /\ e.rev \in Nat /\ e.rev <= row[i].rev
<1>1. CASE e = Absent
  <2>1. row[i].rev \in Nat
    BY EntityForms
  <2>2. e \in EntityOf(i) /\ e.rev = 0
    BY <1>1, AbsentEntity, Zenon DEF Absent
  <2> QED
    BY <2>1, <2>2
<1>2. CASE \E n \in GroupsOf(i) : journal[n][i] = e
  <2>1. PICK n \in GroupsOf(i) : journal[n][i] = e
    BY <1>2
  <2>2. journal[n] \in Groups /\ i \in DOMAIN journal[n]
    BY <2>1 DEF Typed, GroupsOf, Sequence
  <2>3. e \in EntityOf(i) /\ e.rev \in Nat
    BY <2>1, <2>2, GroupTyped DEF EntityOf, Entity
  <2> QED
    BY <2>1, <2>3 DEF Bounded
<1> QED
  BY <1>1, <1>2 DEF Historical

LEMMA HistoricalForms ==
  ASSUME Typed, History, NEW i \in Ids, NEW e, Historical(i, e)
  PROVE  e \in EntityOf(i) /\ e.rev \in Nat /\ e.rev <= row[i].rev
BY HistoryBounds, CommittedForms

LEMMA CommittedGroupForms ==
  ASSUME Typed, Bounded, NEW g, HistoricalGroup(g)
  PROVE  EntityGroup(g)
BY CommittedForms DEF HistoricalGroup, EntityGroup

LEMMA HistoricalGroupForms ==
  ASSUME Typed, History, NEW g, HistoricalGroup(g)
  PROVE  EntityGroup(g)
BY HistoryBounds, CommittedGroupForms

LEMMA RowHistorical ==
  ASSUME Typed, History, NEW i \in Ids
  PROVE  Historical(i, row[i])
BY DEF History, Historical

(* The revisions counted up to a sequence never exceed the row's.          *)
LEMMA UntilForms ==
  ASSUME Typed, History, NEW i \in Ids
  PROVE  /\ \A n : Cardinality(Until(i, n)) \in Nat
         /\ \A n : Cardinality(Until(i, n)) <= row[i].rev
         /\ Cardinality(Until(i, Len(journal))) = row[i].rev
         /\ Cardinality(Until(i, 0)) = 0
<1>1. \A n : Until(i, n) \in SUBSET GroupsOf(i)
  BY DEF Until
<1>2. IsFiniteSet(GroupsOf(i)) /\ GroupsOf(i) \subseteq 1..Len(journal) /\ Len(journal) \in Nat
  BY GroupsFinite
<1>3. \A n : IsFiniteSet(Until(i, n)) /\ Cardinality(Until(i, n)) <= Cardinality(GroupsOf(i))
  BY <1>1, <1>2, FS_Subset
<1>4. Until(i, Len(journal)) = GroupsOf(i) /\ Until(i, 0) = {}
  BY <1>2 DEF Until
<1> QED
  BY <1>3, <1>4, FS_CardinalityType, FS_EmptySet DEF History

-----------------------------------------------------------------------------
(* Steps of the server: its own writes, and the delivery of operations.    *)

LEMMA ServerInvInductive ==
  ASSUME ServerInv, Step
  PROVE  ServerInv' /\ Grown
BY TypedInductive, HistoryInductive, ReferencesInductive, ReceiptedInductive, WritersInductive,
   HistoryGrows DEF ServerInv

(* The server's own writes make no receipt.                                *)
LEMMA ServerWrites ==
  ASSUME ServerInv, ServerWrite
  PROVE  ServerInv' /\ Grown /\ receipts' = receipts
<1>1. Typed
  BY DEF ServerInv
<1>2. PICK muts : OwnStep(muts)
  BY <1>1, OwnSound
<1> QED
  BY <1>2, ServerInvInductive DEF Step, OwnStep

(* What the clients have, and what is on its way to them, stays as good as *)
(* it was while the history grows.                                         *)
LEMMA ReplicasWait ==
  ASSUME ReplicasInv, Grown, UNCHANGED <<db, made>>
  PROVE  AllReplicas' /\ Shadows' /\ Outboxes' /\ made' \in [Clients -> Nat]
<1>1. AllReplicas' /\ made' \in [Clients -> Nat]
  BY DEF ReplicasInv, AllReplicas
<1>2. Shadows'
  <2> SUFFICES ASSUME NEW c \in Clients, NEW i \in Ids
               PROVE  Historical(i, db[c].shadow[i])'
    BY DEF Shadows
  <2> QED
    BY HistoricalStays DEF ReplicasInv, Shadows, Historical
<1>3. Outboxes'
  <2> SUFFICES ASSUME NEW c \in Clients
               PROVE  OutboxOk(c)'
    BY DEF Outboxes
  <2>1. OutboxOk(c)
    BY DEF ReplicasInv, Outboxes
  <2> QED
    BY <2>1 DEF OutboxOk, Grown, IsMutations, Mutation
<1> QED
  BY <1>1, <1>2, <1>3

LEMMA ClientsWait ==
  ASSUME SystemInv, Grown, UNCHANGED <<db, call, made, edits>>
  PROVE  AllReplicas' /\ Shadows' /\ Cursors' /\ Pages' /\ Outboxes' /\ Counters'
<1>1. Counters'
  BY DEF SystemInv, Counters
<1>2. AllReplicas' /\ Shadows' /\ Outboxes'
  BY ReplicasHold, ReplicasWait
<1>3. \A c \in Clients : \A i \in Ids : \A n \in 0..Len(journal) :
        CoveredAt(c, i, n) => CoveredAt(c, i, n)'
  BY DEF CoveredAt, Grown
<1>4. Cursors'
  BY <1>3 DEF SystemInv, Cursors, CursorOk, Grown, FeedIds, OwnIds, Ids
<1>5. Pages'
  <2> SUFFICES ASSUME NEW c \in Clients, NEW f \in Feeds, call[c][f].kind = "page"
               PROVE  PageOk(c, f, call[c][f].groups, call[c][f].cursor)'
    BY DEF Pages, CallOk
  <2>1. PICK g : g = call[c][f]
    OBVIOUS
  <2>2. PageOk(c, f, g.groups, g.cursor)
    BY <2>1 DEF SystemInv, Pages, CallOk
  <2>3. \A n \in DOMAIN g.groups : HistoricalGroup(g.groups[n])'
    BY <2>2, HistoricalGroupStays DEF PageOk, HistoricalGroup, Historical
  <2>4. /\ g.cursor \in 0..Len(journal)'
        /\ \A i \in Ids : CoveredAt(c, i, g.cursor) => CoveredAt(c, i, g.cursor)'
        /\ \A i \in Ids : Until(i, g.cursor)' = Until(i, g.cursor)
    BY <1>3, <2>2 DEF PageOk, Grown
  <2>5. FeedIds(f) \subseteq Ids
    BY DEF FeedIds, Ids
  <2> QED
    BY <2>1, <2>2, <2>3, <2>4, <2>5 DEF PageOk
<1> QED
  BY <1>1, <1>2, <1>4, <1>5

LEMMA ReceiptStays ==
  ASSUME Grown, NEW r, ReceiptOk(r),
         \A c \in Clients : made[c] \in Nat /\ made'[c] \in Nat /\ made'[c] >= made[c]
  PROVE  ReceiptOk(r)'
<1>1. HistoricalGroup(r.result.entities)'
  BY HistoricalGroupStays DEF ReceiptOk, HistoricalGroup, Historical
<1>2. \A c \in Clients : 1..made[c] \subseteq 1..made'[c]
  OBVIOUS
<1> QED
  BY <1>1, <1>2 DEF ReceiptOk

LEMMA OneReceiptMore ==
  ASSUME ReplicasInv, Grown, UNCHANGED <<db, made>>,
         NEW c \in Clients, NEW op \in db[c].outbox, NEW result,
         receipts' = receipts \cup {[key |-> <<c, op.number>>, muts |-> op.muts, result |-> result]},
         HistoricalGroup(result.entities)',
         result.kind \in {"accepted", "conflict", "rejected"},
         result.kind # "accepted" =>
           \A i \in DOMAIN op.muts \cap DOMAIN result.entities :
             result.entities[i].rev >= op.muts[i].base
  PROVE  Receipts' /\ Matched'
<1> DEFINE new == [key |-> <<c, op.number>>, muts |-> op.muts, result |-> result]
<1>1. OutboxOk(c) /\ made \in [Clients -> Nat]
  BY DEF ReplicasInv, Outboxes
<1>2. op.number \in 1..made[c]
  BY <1>1 DEF OutboxOk
<1>3. ReceiptOk(new)'
  <2>1. new.key = <<c, op.number>> /\ new.muts = op.muts /\ new.result = result
    OBVIOUS
  <2> HIDE DEF new
  <2>2. /\ \E k \in Clients : \E n \in 1..made'[k] : new.key = <<k, n>>
        /\ HistoricalGroup(new.result.entities)'
    BY <1>2, <2>1
  <2> QED
    BY <2>1, <2>2 DEF ReceiptOk
<1>4. \A r \in receipts : ReceiptOk(r)'
  BY <1>1, ReceiptStays DEF ReplicasInv, Receipts
<1>5. Receipts'
  BY <1>3, <1>4 DEF Receipts
<1>6. ASSUME NEW k \in Clients, NEW o \in db[k].outbox, new.key = <<k, o.number>>
      PROVE  o.muts = op.muts
  BY <1>1, <1>6 DEF OutboxOk
<1>7. Matched'
  BY <1>6 DEF ReplicasInv, Matched
<1> QED
  BY <1>5, <1>7

LEMMA ReceiptsWait ==
  ASSUME ReplicasInv, Grown, UNCHANGED <<db, made, receipts>>
  PROVE  Receipts' /\ Matched'
<1>1. made \in [Clients -> Nat]
  BY DEF ReplicasInv
<1>2. \A r \in receipts : ReceiptOk(r)'
  BY <1>1, ReceiptStays DEF ReplicasInv, Receipts
<1> QED
  BY <1>2 DEF ReplicasInv, Receipts, Matched

LEMMA ServerStepKeeps ==
  ASSUME SystemInv, ServerStep
  PROVE  SystemInv'
<1>1. ServerInv /\ ReplicasInv /\ UNCHANGED <<db, call, made, edits>>
  BY ReplicasHold DEF SystemInv, ServerStep
<1>2. CASE ServerWrite
  <2>1. ServerInv' /\ Grown /\ receipts' = receipts
    BY <1>1, <1>2, ServerWrites
  <2> QED
    BY <1>1, <2>1, ClientsWait, ReceiptsWait DEF SystemInv
<1>3. CASE \E n \in retained : Prune(n)
  <2>1. PruneStep
    BY <1>3 DEF PruneStep, Prune
  <2>2. ServerInv' /\ Grown
    BY <1>1, <2>1, ServerInvInductive DEF Step
  <2>3. receipts' = receipts
    BY <2>1 DEF PruneStep
  <2> QED
    BY <1>1, <2>2, <2>3, ClientsWait, ReceiptsWait DEF SystemInv
<1> QED
  BY <1>2, <1>3 DEF ServerStep

(* An operation of an outbox arrives.                                      *)
LEMMA OperationDelivered ==
  ASSUME ReplicasInv, ServerInv, NEW c \in Clients, NEW op \in db[c].outbox,
         Push([key |-> <<c, op.number>>, muts |-> op.muts]), UNCHANGED <<db, made>>
  PROVE  ServerInv' /\ Grown /\ Receipts' /\ Matched'
<1>1. Typed /\ History /\ OutboxOk(c)
  BY DEF ServerInv, ReplicasInv, Outboxes
<1>3. PICK req : /\ req = [key |-> <<c, op.number>>, muts |-> op.muts]
                 /\ req.key = <<c, op.number>> /\ req.muts = op.muts
                 /\ Push(req)
  OBVIOUS
<1>4. IsMutations(req.muts)
  BY <1>1, <1>3 DEF OutboxOk
<1>5. CASE AcceptStep(req)
  <2>1. ServerInv' /\ Grown
    BY <1>1, <1>5, ServerInvInductive DEF Step
  <2>2. PICK result : /\ result = Result("accepted", [i \in Affected(req.muts) |-> Stamped(req.muts)[i]])
                      /\ Answer(req, result)
    BY <1>5 DEF AcceptStep, Accept
  <2>3. /\ result.kind = "accepted"
        /\ result.entities = [i \in Affected(req.muts) |-> Stamped(req.muts)[i]]
    BY <2>2 DEF Result
  <2>4. Sound(req.muts) /\ ApplyAndJournal(req.muts) /\ row' = Stamped(req.muts)
    BY <1>5 DEF AcceptStep, Accept, ApplyAndJournal
  <2>5. Affected(req.muts) \subseteq Ids
    BY <1>1, <2>4, GroupEffect
  <2>6. \A i \in Affected(req.muts) : \E n \in GroupsOf(i)' : journal'[n][i] = row'[i]
    BY <1>1, <2>4, <2>5, GroupsGrow
  <2>7. HistoricalGroup(result.entities)'
    BY <2>3, <2>4, <2>5, <2>6 DEF HistoricalGroup, Historical
  <2>8. Receipts' /\ Matched'
    BY <1>1, <1>3, <2>1, <2>2, <2>3, <2>7, OneReceiptMore DEF Answer
  <2> QED
    BY <2>1, <2>8
<1>6. ASSUME NEW result, RefuseStep(req, result)
      PROVE  ServerInv' /\ Grown /\ Receipts' /\ Matched'
  <2>1. ServerInv' /\ Grown
    BY <1>1, <1>6, ServerInvInductive DEF Step
  <2>2. HistoricalGroup(result.entities)
    BY <1>1, <1>6, RowHistorical DEF RefuseStep, HistoricalGroup
  <2>3. HistoricalGroup(result.entities)'
    BY <2>1, <2>2, HistoricalGroupStays DEF HistoricalGroup, Historical
  <2>4. \A i \in DOMAIN op.muts \cap DOMAIN result.entities :
          result.entities[i].rev >= op.muts[i].base
    BY <1>1, <1>6 DEF RefuseStep, OutboxOk, IsMutations, Mutation
  <2>5. Receipts' /\ Matched'
    BY <1>1, <1>3, <1>6, <2>1, <2>3, <2>4, OneReceiptMore DEF RefuseStep, Answer
  <2> QED
    BY <2>1, <2>5
<1>7. ASSUME NEW r, RepeatStep(r)
      PROVE  ServerInv' /\ Grown /\ Receipts' /\ Matched'
  <2>1. ServerInv' /\ Grown
    BY <1>1, <1>7, ServerInvInductive DEF Step
  <2>2. receipts' = receipts
    BY <1>7 DEF RepeatStep
  <2> QED
    BY <2>1, <2>2, ReceiptsWait
<1> QED
  BY <1>1, <1>3, <1>4, <1>5, <1>6, <1>7, PushForms

LEMMA DeliverKeeps ==
  ASSUME SystemInv, NEW c \in Clients, Deliver(c)
  PROVE  SystemInv'
<1>1. ReplicasInv /\ ServerInv /\ UNCHANGED <<db, call, made, edits>>
  BY ReplicasHold DEF SystemInv, Deliver
<1>2. PICK op \in db[c].outbox : Push([key |-> <<c, op.number>>, muts |-> op.muts])
  BY DEF Deliver
<1>3. ServerInv' /\ Grown /\ Receipts' /\ Matched'
  BY <1>1, <1>2, OperationDelivered
<1> QED
  BY <1>1, <1>3, ClientsWait DEF SystemInv

-----------------------------------------------------------------------------
(* Steps of the clients.                                                   *)

(* No shadow of client c goes back, and each is part of the history.       *)
Forward(c) ==
  \A i \in Ids : /\ Historical(i, db'[c].shadow[i])
                 /\ db'[c].shadow[i].rev >= db[c].shadow[i].rev

LEMMA ServerWaits ==
  ASSUME SystemInv, UNCHANGED serverVars
  PROVE  ServerInv' /\ Grown
BY ServerInvInductive DEF SystemInv, ServerInv, Step

LEMMA ServerSilent ==
  ASSUME Typed, Bounded, UNCHANGED serverVars
  PROVE  Grown /\ Typed' /\ Bounded'
BY HistoryGrows DEF Step, serverVars, Typed, RowsTyped, Bounded, GroupsOf, Sequence

LEMMA ReplicaForms ==
  ASSUME ReplicasInv, NEW c \in Clients, NEW i \in Ids
  PROVE  /\ Historical(i, db[c].shadow[i])
         /\ db[c].shadow[i] \in EntityOf(i)
         /\ db[c].shadow[i].rev \in Nat
         /\ db[c].shadow[i].rev <= row[i].rev
BY CommittedForms DEF ReplicasInv, Shadows

LEMMA ShadowForms ==
  ASSUME SystemInv, NEW c \in Clients, NEW i \in Ids
  PROVE  /\ Historical(i, db[c].shadow[i])
         /\ db[c].shadow[i] \in EntityOf(i)
         /\ db[c].shadow[i].rev \in Nat
         /\ db[c].shadow[i].rev <= row[i].rev
BY ReplicasHold, ReplicaForms

LEMMA SameShadowsForward ==
  ASSUME ReplicasInv, NEW c \in Clients, db'[c].shadow = db[c].shadow
  PROVE  Forward(c)
BY ReplicaForms DEF Forward

LEMMA ShadowsKept ==
  ASSUME ReplicasInv, UNCHANGED serverVars, NEW c \in Clients, OthersSame(c), Forward(c)
  PROVE  Shadows'
<1>1. \A k \in Clients : Forward(k)
  BY SameShadowsForward DEF OthersSame
<1>2. Grown
  BY ServerSilent DEF ReplicasInv
<1> QED
  BY <1>1, <1>2, HistoricalStays DEF Forward, Historical, Shadows

LEMMA ShadowsForward ==
  ASSUME SystemInv, UNCHANGED serverVars, NEW c \in Clients, OthersSame(c), Forward(c)
  PROVE  /\ Shadows'
         /\ \A k \in Clients : \A i \in Ids : \A n \in 0..Len(journal) :
              CoveredAt(k, i, n) => CoveredAt(k, i, n)'
<1>1. \A k \in Clients : Forward(k)
  BY ReplicasHold, SameShadowsForward DEF OthersSame
<1>2. Grown
  BY ServerWaits
<1>3. Shadows'
  BY ReplicasHold, ShadowsKept
<1>4. ASSUME NEW k \in Clients, NEW i \in Ids, NEW n \in 0..Len(journal), CoveredAt(k, i, n)
      PROVE  CoveredAt(k, i, n)'
  <2>1. /\ Until(i, n)' = Until(i, n)
        /\ Cardinality(Until(i, n)) \in Nat
    BY <1>2, UntilForms DEF Grown, SystemInv, ServerInv
  <2>2. /\ db[k].shadow[i].rev \in Nat /\ db'[k].shadow[i].rev \in Nat
        /\ db'[k].shadow[i].rev >= db[k].shadow[i].rev
    BY <1>1, ShadowForms, HistoricalForms DEF Forward, SystemInv, ServerInv
  <2> QED
    BY <1>4, <2>1, <2>2 DEF CoveredAt
<1> QED
  BY <1>3, <1>4

(* What a step of client c leaves as it was stays good.                    *)
LEMMA RestForward ==
  ASSUME SystemInv, UNCHANGED serverVars, NEW c \in Clients, OthersSame(c), Forward(c)
  PROVE  /\ \A k \in Clients : \A f \in Feeds :
              db'[k].cursor[f] = db[k].cursor[f] => CursorOk(k, f)'
         /\ \A k \in Clients : \A f \in Feeds :
              call'[k][f] = call[k][f] => CallOk(k, f)'
<1>1. \A k \in Clients : \A i \in Ids : \A n \in 0..Len(journal) :
        CoveredAt(k, i, n) => CoveredAt(k, i, n)'
  BY ShadowsForward
<1>2. Grown /\ Len(journal)' = Len(journal)
  BY ServerWaits DEF serverVars
<1>3. ASSUME NEW k \in Clients, NEW f \in Feeds, db'[k].cursor[f] = db[k].cursor[f]
      PROVE  CursorOk(k, f)'
  <2>1. CursorOk(k, f)
    BY DEF SystemInv, Cursors
  <2>2. FeedIds(f) \subseteq Ids
    BY DEF FeedIds, Ids
  <2> QED
    BY <1>1, <1>2, <1>3, <2>1, <2>2 DEF CursorOk
<1>4. ASSUME NEW k \in Clients, NEW f \in Feeds, call'[k][f] = call[k][f]
      PROVE  CallOk(k, f)'
  <2> SUFFICES ASSUME call[k][f].kind = "page"
               PROVE  PageOk(k, f, call[k][f].groups, call[k][f].cursor)'
    BY <1>4 DEF CallOk
  <2>1. PICK g : g = call[k][f] /\ g = call'[k][f]
    BY <1>4
  <2>2. PageOk(k, f, g.groups, g.cursor)
    BY <2>1 DEF SystemInv, Pages, CallOk
  <2>3. \A n \in DOMAIN g.groups : HistoricalGroup(g.groups[n])'
    BY <1>2, <2>2, HistoricalGroupStays DEF PageOk, HistoricalGroup, Historical
  <2>4. /\ g.cursor \in 0..Len(journal)'
        /\ \A i \in Ids : CoveredAt(k, i, g.cursor) => CoveredAt(k, i, g.cursor)'
        /\ \A i \in Ids : Until(i, g.cursor)' = Until(i, g.cursor)
    BY <1>1, <1>2, <2>2 DEF PageOk, Grown
  <2>5. FeedIds(f) \subseteq Ids
    BY DEF FeedIds, Ids
  <2> QED
    BY <2>1, <2>2, <2>3, <2>4, <2>5 DEF PageOk
<1> QED
  BY <1>3, <1>4

LEMMA OutboxShrinks ==
  ASSUME ReplicasInv, UNCHANGED serverVars, NEW c \in Clients, OthersSame(c), made' = made,
         db'[c].outbox \subseteq db[c].outbox
  PROVE  Outboxes' /\ Receipts' /\ Matched'
<1>1. \A k \in Clients : db'[k].outbox \subseteq db[k].outbox
  BY DEF OthersSame
<1>2. Grown /\ made \in [Clients -> Nat] /\ receipts' = receipts
  BY ServerSilent DEF ReplicasInv, serverVars
<1>3. Outboxes'
  <2> SUFFICES ASSUME NEW k \in Clients
               PROVE  OutboxOk(k)'
    BY DEF Outboxes
  <2>1. OutboxOk(k)
    BY DEF ReplicasInv, Outboxes
  <2> QED
    BY <1>1, <1>2, <2>1 DEF OutboxOk, Grown, IsMutations, Mutation
<1>4. \A r \in receipts : ReceiptOk(r)'
  BY <1>2, ReceiptStays DEF ReplicasInv, Receipts
<1> QED
  BY <1>1, <1>2, <1>3, <1>4 DEF ReplicasInv, Receipts, Matched

(* A call may only become one that brings no page, or be dropped.          *)
CallsQuiet(c) ==
  \A k \in Clients : \A f \in Feeds :
    call'[k][f] = call[k][f] \/ (k = c /\ call'[k][f].kind # "page")

CallsTyped ==
  call' = [c \in Clients |-> [f \in Feeds |-> call'[c][f]]]

LEMMA CallReplaced ==
  ASSUME SystemInv, NEW c \in Clients, NEW f \in Feeds, NEW reply, Called(c, f, reply)
  PROVE  /\ CallsTyped
         /\ call'[c][f] = reply
         /\ \A k \in Clients : \A g \in Feeds : k # c \/ g # f => call'[k][g] = call[k][g]
         /\ reply.kind # "page" => CallsQuiet(c)
BY DEF SystemInv, Counters, Called, CallsTyped, CallsQuiet

LEMMA CallsSame ==
  ASSUME SystemInv, call' = call, NEW c
  PROVE  CallsTyped /\ CallsQuiet(c)
BY DEF SystemInv, Counters, CallsTyped, CallsQuiet

(* A step of client c that fetches nothing.                                *)
LEMMA QuietStepKeeps ==
  ASSUME SystemInv, UNCHANGED serverVars, NEW c \in Clients, AllReplicas', OthersSame(c),
         Forward(c), CallsTyped, CallsQuiet(c), db'[c].cursor = db[c].cursor,
         db'[c].reset \subseteq Feeds, edits' \in 0..MaxEdits
  PROVE  /\ ServerInv' /\ AllReplicas' /\ Shadows' /\ Cursors' /\ Pages'
         /\ made' \in [Clients -> Nat] => Counters'
<1>1. ServerInv' /\ Shadows'
  BY ServerWaits, ShadowsForward
<1>2. Cursors'
  <2>1. \A k \in Clients : db'[k].cursor = db[k].cursor
    BY DEF OthersSame
  <2> QED
    BY <2>1, RestForward DEF Cursors
<1>3. Pages'
  <2> SUFFICES ASSUME NEW k \in Clients, NEW f \in Feeds
               PROVE  CallOk(k, f)'
    BY DEF Pages
  <2>1. CASE call'[k][f] = call[k][f]
    BY <2>1, RestForward
  <2>2. CASE call'[k][f].kind # "page"
    BY <2>2 DEF CallOk
  <2> QED
    BY <2>1, <2>2 DEF CallsQuiet
<1>4. \A k \in Clients : db'[k].reset \subseteq Feeds
  BY DEF SystemInv, Counters, OthersSame
<1> QED
  BY <1>1, <1>2, <1>3, <1>4 DEF Counters, CallsTyped

LEMMA EditKeeps ==
  ASSUME SystemInv, NEW c \in Clients, Edit(c)
  PROVE  SystemInv'
<1>1. UNCHANGED <<call, made, serverVars>> /\ edits' \in 0..MaxEdits
  BY SystemAssumption DEF Edit, SystemInv, Counters
<1>2. PICK i \in Ids : \/ \E data \in DataOf(i) : Insert(c, i, data) \/ Update(c, i, data)
                       \/ Delete(c, i)
                       \/ \E data \in DataOf(i) \cup {None} : Resolve(c, i, data)
  BY DEF Edit
<1>3. AllReplicas' /\ OthersSame(c) /\ WriteOnly(db[c], db'[c])
  BY <1>2, EditApplied DEF SystemInv
<1>4. Forward(c)
  BY <1>3, ReplicasHold, SameShadowsForward DEF WriteOnly
<1>5. /\ Outboxes' /\ Receipts' /\ Matched'
  BY <1>1, <1>3, ReplicasHold, OutboxShrinks DEF WriteOnly
<1>6. CallsTyped /\ CallsQuiet(c)
  BY <1>1, CallsSame
<1>7. /\ db'[c].reset \subseteq Feeds /\ db'[c].cursor = db[c].cursor
      /\ made' \in [Clients -> Nat]
  BY <1>1, <1>3 DEF SystemInv, Counters, WriteOnly
<1> QED
  BY <1>1, <1>3, <1>4, <1>5, <1>6, <1>7, QuietStepKeeps DEF SystemInv

(* Steps that leave the databases alone, and Tidy and RequireReset.        *)
LEMMA BookStepKeeps ==
  ASSUME SystemInv, UNCHANGED <<made, edits, serverVars>>, NEW c \in Clients, AllReplicas',
         OthersSame(c), CallsTyped, CallsQuiet(c), db'[c].shadow = db[c].shadow,
         db'[c].cursor = db[c].cursor, db'[c].outbox = db[c].outbox,
         db'[c].reset \subseteq Feeds
  PROVE  SystemInv'
<1>1. Forward(c)
  BY ReplicasHold, SameShadowsForward
<1>2. Outboxes' /\ Receipts' /\ Matched'
  BY ReplicasHold, OutboxShrinks
<1>3. edits' \in 0..MaxEdits /\ made' \in [Clients -> Nat]
  BY DEF SystemInv, Counters
<1> QED
  BY <1>1, <1>2, <1>3, QuietStepKeeps DEF SystemInv

LEMMA IdleStepKeeps ==
  ASSUME SystemInv, UNCHANGED <<db, made, edits, serverVars>>, NEW c \in Clients,
         CallsTyped, CallsQuiet(c)
  PROVE  SystemInv'
<1>1. AllReplicas' /\ OthersSame(c) /\ db'[c].reset \subseteq Feeds
  BY DEF SystemInv, AllReplicas, OthersSame, Counters
<1> QED
  BY <1>1, BookStepKeeps

LEMMA ResendKeeps ==
  ASSUME SystemInv, NEW c \in Clients, NEW f \in Feeds, Resend(c, f)
  PROVE  SystemInv'
<1>1. PICK n : Called(c, f, Pushing(n))
  BY DEF Resend
<1>2. Pushing(n).kind # "page"
  BY DEF Pushing
<1>3. CallsTyped /\ CallsQuiet(c)
  BY <1>1, <1>2, CallReplaced
<1> QED
  BY <1>3, IdleStepKeeps DEF Resend

LEMMA GiveUpKeeps ==
  ASSUME SystemInv, NEW c \in Clients, NEW f \in Feeds, GiveUp(c, f)
  PROVE  SystemInv'
<1>1. Idle.kind # "page"
  BY DEF Idle
<1>2. CallsTyped /\ CallsQuiet(c)
  BY <1>1, CallReplaced DEF GiveUp
<1> QED
  BY <1>2, IdleStepKeeps DEF GiveUp

LEMMA TidyKeeps ==
  ASSUME SystemInv, NEW c \in Clients, NEW f \in Feeds, Tidy(c, f)
  PROVE  SystemInv'
<1>1. PrepareNothing(c, f) /\ UNCHANGED <<call, made, edits, serverVars>>
  BY DEF Tidy
<1>2. AllReplicas' /\ OthersSame(c) /\ WriteOnly(db[c], db'[c])
  BY <1>1, TidyApplied DEF SystemInv
<1>3. CallsTyped /\ CallsQuiet(c) /\ db'[c].reset \subseteq Feeds
  BY <1>1, <1>2, CallsSame DEF SystemInv, Counters, WriteOnly
<1> QED
  BY <1>1, <1>2, <1>3, BookStepKeeps DEF WriteOnly

(* A new operation has a number of its own, which no receipt has, and the  *)
(* revisions of the shadows for its bases.                                 *)
LEMMA OneOperationMore ==
  ASSUME ReplicasInv, NEW c \in Clients, OthersSame(c), NEW feed \in Feeds, NEW S \in SUBSET Ids,
         db'[c].outbox = db[c].outbox \cup {OperationOf(db[c], made[c] + 1, feed, S)},
         made' = [made EXCEPT ![c] = @ + 1], UNCHANGED serverVars
  PROVE  made' \in [Clients -> Nat] /\ Outboxes' /\ Receipts' /\ Matched'
<1>1. made \in [Clients -> Nat] /\ made' \in [Clients -> Nat]
  BY DEF ReplicasInv
<1>2. PICK op : op = OperationOf(db[c], made[c] + 1, feed, S)
  OBVIOUS
<1>3. /\ op.number = made[c] + 1 /\ op.feed = feed
      /\ IsMutations(op.muts) /\ DOMAIN op.muts = S
      /\ \A i \in S : op.muts[i].base = db[c].shadow[i].rev
  BY <1>2, OperationTyped DEF ReplicasInv, AllReplicas
<1>4. \A k \in Clients : OutboxOk(k)
  BY DEF ReplicasInv, Outboxes
<1>5. row' = row /\ receipts' = receipts /\ Grown
  BY ServerSilent DEF ReplicasInv, serverVars
<1>6. Outboxes'
  <2> SUFFICES ASSUME NEW k \in Clients
               PROVE  OutboxOk(k)'
    BY DEF Outboxes
  <2>1. CASE k # c
    <3>1. db'[k].outbox = db[k].outbox /\ made'[k] = made[k]
      BY <1>1, <2>1 DEF OthersSame
    <3> QED
      BY <1>4, <1>5, <3>1 DEF OutboxOk
  <2>2. CASE k = c
    <3>1. db'[k].outbox = db[c].outbox \cup {op} /\ made'[k] = made[c] + 1 /\ made[c] \in Nat
      BY <1>1, <1>2, <2>2
    <3>2. \A i \in DOMAIN op.muts : op.muts[i].base <= row[i].rev
      BY <1>3, ReplicaForms
    <3> QED
      BY <1>3, <1>4, <1>5, <2>2, <3>1, <3>2 DEF OutboxOk
  <2> QED
    BY <2>1, <2>2
<1>7. Receipts'
  <2>1. \A k \in Clients : made[k] \in Nat /\ made'[k] \in Nat /\ made'[k] >= made[k]
    BY <1>1
  <2>2. \A r \in receipts : ReceiptOk(r)'
    BY <1>5, <2>1, ReceiptStays DEF ReplicasInv, Receipts
  <2> QED
    BY <1>5, <2>2 DEF Receipts
<1>8. Matched'
  <2> SUFFICES ASSUME NEW k \in Clients, NEW o \in db'[k].outbox, NEW r \in receipts,
                      r.key = <<k, o.number>>
               PROVE  r.muts = o.muts
    BY <1>5 DEF Matched
  <2>1. CASE o \in db[k].outbox
    BY <2>1 DEF ReplicasInv, Matched
  <2>2. CASE o \notin db[k].outbox
    <3>1. k = c /\ o = op
      BY <1>2, <2>2 DEF OthersSame
    <3>2. \E n \in 1..made[c] : r.key = <<c, n>>
      BY <3>1 DEF ReplicasInv, Receipts, ReceiptOk
    <3> QED
      BY <1>1, <1>3, <3>1, <3>2
  <2> QED
    BY <2>1, <2>2
<1> QED
  BY <1>1, <1>6, <1>7, <1>8

LEMMA Prepared ==
  ASSUME ReplicasInv, NEW c \in Clients, NEW f \in Feeds, Prepare(c, f, made[c] + 1),
         made' = [made EXCEPT ![c] = @ + 1], UNCHANGED serverVars
  PROVE  /\ AllReplicas' /\ OthersSame(c)
         /\ db'[c].shadow = db[c].shadow
         /\ db'[c].cursor = db[c].cursor /\ db'[c].reset = db[c].reset
         /\ made' \in [Clients -> Nat]
         /\ Outboxes' /\ Receipts' /\ Matched'
<1>1. /\ AllReplicas' /\ OthersSame(c)
      /\ db'[c].shadow = db[c].shadow
      /\ db'[c].cursor = db[c].cursor /\ db'[c].reset = db[c].reset
      /\ \E feed \in Feeds : \E S \in SUBSET Ids :
           db'[c].outbox = db[c].outbox \cup {OperationOf(db[c], made[c] + 1, feed, S)}
  BY PrepareApplied DEF ReplicasInv
<1> QED
  BY <1>1, OneOperationMore

LEMMA PrepareKeeps ==
  ASSUME SystemInv, NEW c \in Clients, NEW f \in Feeds, PrepareAndSend(c, f)
  PROVE  SystemInv'
<1>1. /\ Prepare(c, f, made[c] + 1)
      /\ made' = [made EXCEPT ![c] = @ + 1]
      /\ Called(c, f, Pushing(made[c] + 1))
      /\ UNCHANGED <<edits, serverVars>>
  BY DEF PrepareAndSend
<1>2. /\ AllReplicas' /\ OthersSame(c)
      /\ db'[c].shadow = db[c].shadow
      /\ db'[c].cursor = db[c].cursor /\ db'[c].reset = db[c].reset
      /\ made' \in [Clients -> Nat]
      /\ Outboxes' /\ Receipts' /\ Matched'
  BY <1>1, ReplicasHold, Prepared
<1>3. CallsTyped /\ CallsQuiet(c)
  <2>1. Pushing(made[c] + 1).kind # "page"
    BY DEF Pushing
  <2> QED
    BY <1>1, <2>1, CallReplaced
<1>4. Forward(c) /\ edits' \in 0..MaxEdits /\ db'[c].reset \subseteq Feeds
  BY <1>1, <1>2, ReplicasHold, SameShadowsForward DEF SystemInv, Counters
<1> QED
  BY <1>1, <1>2, <1>3, <1>4, QuietStepKeeps DEF SystemInv

(* The result that a client finishes has a receipt of the operation; its   *)
(* entities are revisions of the server, and not older than the shadows    *)
(* under the operation.                                                    *)
LEMMA ReplyForms ==
  ASSUME ReplicasInv, RepliesReceipted, WritersInv, NEW c \in Clients, NEW op \in db[c].outbox, NEW y \in replies,
         y.key = <<c, op.number>>
  PROVE  /\ HistoricalGroup(y.result.entities) /\ EntityGroup(y.result.entities)
         /\ \A i \in DOMAIN op.muts \cap DOMAIN y.result.entities :
              y.result.entities[i].rev >= op.muts[i].base
<1>1. PICK r \in receipts : r.key = y.key /\ r.result = y.result
  BY DEF RepliesReceipted
<1>2. ReceiptOk(r) /\ r.muts = op.muts
  BY <1>1 DEF ReplicasInv, Receipts, Matched
<1>3. IsMutations(op.muts)
  BY DEF ReplicasInv, Outboxes, OutboxOk
<1>4. CASE r.result.kind = "accepted"
  <2>1. \A i \in DOMAIN op.muts : r.result.entities[i].rev = op.muts[i].base + 1
    BY <1>2, <1>4 DEF WritersInv, FirstWriterWins
  <2>2. \A i \in DOMAIN op.muts : op.muts[i].base \in Nat
    BY <1>3 DEF IsMutations, Mutation
  <2> QED
    BY <1>1, <1>2, <2>1, <2>2, CommittedGroupForms DEF ReceiptOk, ReplicasInv
<1>5. CASE r.result.kind # "accepted"
  BY <1>1, <1>2, <1>5, CommittedGroupForms DEF ReceiptOk, ReplicasInv
<1> QED
  BY <1>4, <1>5

LEMMA ResultForms ==
  ASSUME SystemInv, NEW c \in Clients, NEW op \in db[c].outbox, NEW y \in replies,
         y.key = <<c, op.number>>
  PROVE  /\ HistoricalGroup(y.result.entities) /\ EntityGroup(y.result.entities)
         /\ \A i \in DOMAIN op.muts \cap DOMAIN y.result.entities :
              y.result.entities[i].rev >= op.muts[i].base
BY ReplicasHold, ReplyForms DEF SystemInv, ServerInv

LEMMA Finished ==
  ASSUME ReplicasInv, RepliesReceipted, WritersInv, NEW c \in Clients, NEW op \in db[c].outbox,
         NEW y \in replies, y.key = <<c, op.number>>, Finish(c, op, y.result),
         UNCHANGED <<made, serverVars>>
  PROVE  /\ AllReplicas' /\ OthersSame(c) /\ Forward(c)
         /\ db'[c].cursor = db[c].cursor /\ db'[c].reset = db[c].reset
         /\ Outboxes' /\ Receipts' /\ Matched'
<1>1. /\ HistoricalGroup(y.result.entities) /\ EntityGroup(y.result.entities)
      /\ \A i \in DOMAIN op.muts \cap DOMAIN y.result.entities :
           y.result.entities[i].rev >= op.muts[i].base
  BY ReplyForms
<1>2. IsMutations(op.muts)
  BY DEF ReplicasInv, Outboxes, OutboxOk
<1>3. PICK result : result = y.result
  OBVIOUS
<1>4. /\ AllReplicas' /\ OthersSame(c)
      /\ ~ShadowMoved(db[c], op)
      /\ db'[c].outbox = db[c].outbox \ {op}
      /\ db'[c].cursor = db[c].cursor /\ db'[c].reset = db[c].reset
      /\ \A i \in Ids :
           \/ db'[c].shadow[i] = db[c].shadow[i]
           \/ /\ i \in DOMAIN result.entities
              /\ db'[c].shadow[i] = result.entities[i]
              /\ i \in DOMAIN op.muts \/ result.entities[i].rev > db[c].shadow[i].rev
  BY <1>1, <1>2, <1>3, FinishApplied DEF ReplicasInv
<1>5. Forward(c)
  <2> SUFFICES ASSUME NEW i \in Ids
               PROVE  /\ Historical(i, db'[c].shadow[i])
                      /\ db'[c].shadow[i].rev >= db[c].shadow[i].rev
    BY DEF Forward
  <2>1. Historical(i, db[c].shadow[i]) /\ db[c].shadow[i].rev \in Nat
    BY ReplicaForms
  <2>2. CASE db'[c].shadow[i] = db[c].shadow[i]
    BY <2>1, <2>2
  <2>3. CASE /\ i \in DOMAIN result.entities
             /\ db'[c].shadow[i] = result.entities[i]
             /\ i \in DOMAIN op.muts \/ result.entities[i].rev > db[c].shadow[i].rev
    <3>1. Historical(i, result.entities[i]) /\ result.entities[i].rev \in Nat
      BY <1>1, <1>3, <2>3 DEF HistoricalGroup, EntityGroup, EntityOf, Entity
    <3>2. i \in DOMAIN op.muts => result.entities[i].rev >= db[c].shadow[i].rev
      BY <1>1, <1>3, <1>4, <2>3 DEF ShadowMoved
    <3> QED
      BY <2>1, <2>3, <3>1, <3>2
  <2> QED
    BY <1>4, <2>2, <2>3
<1>6. Outboxes' /\ Receipts' /\ Matched'
  BY <1>4, OutboxShrinks
<1> QED
  BY <1>4, <1>5, <1>6

LEMMA FinishKeeps ==
  ASSUME SystemInv, NEW c \in Clients, NEW f \in Feeds, FinishPush(c, f)
  PROVE  SystemInv'
<1>1. Called(c, f, Idle) /\ UNCHANGED <<made, edits, serverVars>>
  BY DEF FinishPush
<1>2. CallsTyped /\ CallsQuiet(c)
  <2>1. Idle.kind # "page"
    BY DEF Idle
  <2> QED
    BY <1>1, <2>1, CallReplaced
<1>3. CASE UNCHANGED db
  BY <1>1, <1>2, <1>3, IdleStepKeeps
<1>4. CASE db' # db
  <2>1. PICK op \in db[c].outbox, y \in replies : y.key = <<c, op.number>> /\ Finish(c, op, y.result)
    BY <1>4 DEF FinishPush
  <2>2. /\ AllReplicas' /\ OthersSame(c) /\ Forward(c)
        /\ db'[c].cursor = db[c].cursor /\ db'[c].reset = db[c].reset
        /\ Outboxes' /\ Receipts' /\ Matched'
    BY <1>1, <2>1, ReplicasHold, Finished DEF SystemInv, ServerInv
  <2>3. /\ db'[c].reset \subseteq Feeds /\ edits' \in 0..MaxEdits
        /\ made' \in [Clients -> Nat]
    BY <1>1, <2>2 DEF SystemInv, Counters
  <2> QED
    BY <1>1, <1>2, <2>2, <2>3, QuietStepKeeps DEF SystemInv
<1> QED
  BY <1>3, <1>4

(* A page that follows a cursor: the groups after it, without a gap.       *)
PageForms(cursor, limit, feed) ==
  \E k \in Nat :
    /\ cursor + k <= Len(journal)
    /\ PageEnd(cursor, limit) = cursor + k
    /\ DOMAIN PageGroups(cursor, limit, feed) = 1..k
    /\ \A n \in 1..k :
         PageGroups(cursor, limit, feed)[n] = Projected(journal[cursor + n], feed)

LEMMA PulledPage ==
  ASSUME Typed, NEW cursor \in 0..Len(journal), NEW limit, NEW feed, ~HistoryLost(cursor, limit)
  PROVE  PageForms(cursor, limit, feed)
<1> DEFINE page == PageAfter(cursor, limit)
           k == Cardinality(page)
<1>1. page = (cursor + 1)..(cursor + k)
  BY DEF HistoryLost
<1>2. Len(journal) \in Nat /\ retained \subseteq 1..Len(journal) /\ cursor \in Nat
  BY DEF Typed
<1>3. page \in SUBSET (1..Len(journal))
  BY <1>2 DEF PageAfter
<1>4. k \in Nat
  <2>1. 1 \in Int /\ Len(journal) \in Int
    BY <1>2
  <2>2. IsFiniteSet(1..Len(journal))
    BY <2>1, FS_Interval
  <2> HIDE DEF page
  <2>3. IsFiniteSet(page)
    BY <1>3, <2>2, FS_Subset
  <2> QED
    BY <2>3, FS_CardinalityType DEF k
<1>5. PageGroups(cursor, limit, feed) =
        [n \in 1..k |-> Projected(journal[CHOOSE m \in page : Cardinality({j \in page : j <= m}) = n], feed)]
  BY Zenon DEF PageGroups
<1>6. PageEnd(cursor, limit) = IF page = {} THEN cursor ELSE CHOOSE m \in page : \A j \in page : j <= m
  BY Zenon DEF PageEnd
<1> HIDE DEF page, k
<1>7. \A m \in page : Cardinality({j \in page : j <= m}) = m - cursor
  <2> SUFFICES ASSUME NEW m \in page
               PROVE  Cardinality({j \in page : j <= m}) = m - cursor
    OBVIOUS
  <2>1. m \in Nat /\ m >= cursor + 1
    BY <1>1, <1>2, <1>4
  <2>2. {j \in page : j <= m} = (cursor + 1)..m
    BY <1>1, <1>2, <1>4, <2>1
  <2>3. cursor + 1 \in Int /\ m \in Int /\ ~(cursor + 1 > m)
    BY <1>2, <2>1
  <2>4. Cardinality((cursor + 1)..m) = m - (cursor + 1) + 1
    BY <2>3, FS_Interval
  <2>5. m - (cursor + 1) + 1 = m - cursor
    BY <1>2, <2>1
  <2> QED
    BY <2>2, <2>4, <2>5, Zenon
<1>8. ASSUME NEW n \in 1..k
      PROVE  (CHOOSE m \in page : Cardinality({j \in page : j <= m}) = n) = cursor + n
  <2>1. cursor + n \in page
    BY <1>1, <1>2, <1>4
  <2>2. Cardinality({j \in page : j <= cursor + n}) = n
    BY <1>2, <1>4, <1>7, <2>1
  <2>3. \A m \in page : Cardinality({j \in page : j <= m}) = n => m = cursor + n
    <3>1. \A m \in page : m \in Nat
      BY <1>1, <1>2, <1>4
    <3> QED
      BY <1>2, <1>7, <3>1
  <2> QED
    BY <2>1, <2>2, <2>3
<1>9. PageEnd(cursor, limit) = cursor + k
  <2>1. CASE k = 0
    <3>1. page = {}
      BY <1>1, <1>2, <2>1
    <3> QED
      BY <1>2, <1>6, <2>1, <3>1
  <2>2. CASE k > 0
    <3>1. cursor + k \in page
      BY <1>1, <1>2, <1>4, <2>2
    <3>2. \A m \in page : m <= cursor + k
      BY <1>1, <1>2, <1>4
    <3>3. \A m \in page : (\A j \in page : j <= m) => m = cursor + k
      BY <1>1, <1>2, <1>4, <3>1
    <3> QED
      BY <1>6, <3>1, <3>2, <3>3
  <2> QED
    BY <1>4, <2>1, <2>2
<1>10. cursor + k <= Len(journal)
  <2>1. k > 0 => cursor + k \in page
    BY <1>1, <1>2, <1>4
  <2> QED
    BY <1>2, <1>3, <1>4, <2>1
<1> QED
  BY <1>4, <1>5, <1>8, <1>9, <1>10 DEF PageForms

(* What a feed sees of a committed group is part of the history, and holds *)
(* the group's entities of the feed.                                       *)
LEMMA ProjectedForms ==
  ASSUME Typed, NEW n \in 1..Len(journal), NEW feed \in SUBSET Ids
  PROVE  /\ HistoricalGroup(Projected(journal[n], feed))
         /\ \A i \in feed : n \in GroupsOf(i) =>
              /\ i \in DOMAIN Projected(journal[n], feed)
              /\ Projected(journal[n], feed)[i] = journal[n][i]
<1>1. journal[n] \in Groups
  BY DEF Typed
<1>2. PICK g : g = journal[n] /\ DOMAIN g \subseteq Ids
  BY <1>1, GroupTyped
<1>3. \A i \in DOMAIN g : n \in GroupsOf(i)
  BY <1>2 DEF GroupsOf, Sequence
<1>4. PICK h : h = Projected(g, feed)
  OBVIOUS
<1>5. /\ DOMAIN h \subseteq DOMAIN g
      /\ \A i \in DOMAIN h : h[i] = g[i]
      /\ \A i \in DOMAIN g \cap feed : i \in DOMAIN h
  BY <1>4 DEF Projected
<1>6. HistoricalGroup(h)
  BY <1>2, <1>3, <1>5 DEF HistoricalGroup, Historical
<1>7. \A i \in feed : n \in GroupsOf(i) => i \in DOMAIN g
  BY <1>2 DEF GroupsOf
<1> QED
  BY <1>2, <1>4, <1>5, <1>6, <1>7

LEMMA PulledPageOk ==
  ASSUME SystemInv, NEW c \in Clients, NEW f \in Feeds, NEW limit, db[c].cursor[f] # None,
         ~HistoryLost(db[c].cursor[f], limit)
  PROVE  PageOk(c, f, PageGroups(db[c].cursor[f], limit, FeedIds(f)), PageEnd(db[c].cursor[f], limit))
<1>1. PICK cursor : cursor = db[c].cursor[f]
  OBVIOUS
<1>2. cursor \in 0..Len(journal) /\ \A i \in FeedIds(f) : CoveredAt(c, i, cursor)
  BY <1>1 DEF SystemInv, Cursors, CursorOk
<1>3. Typed /\ History /\ Len(journal) \in Nat
  BY DEF SystemInv, ServerInv, Typed
<1>4. PICK groups : groups = PageGroups(cursor, limit, FeedIds(f))
  OBVIOUS
<1>5. PageForms(cursor, limit, FeedIds(f))
  BY <1>1, <1>2, <1>3, PulledPage
<1>6. PICK k \in Nat : /\ cursor + k <= Len(journal)
                       /\ PageEnd(cursor, limit) = cursor + k
                       /\ DOMAIN groups = 1..k
                       /\ \A n \in 1..k : groups[n] = Projected(journal[cursor + n], FeedIds(f))
  BY <1>4, <1>5 DEF PageForms
<1>7. FeedIds(f) \in SUBSET Ids
  BY DEF FeedIds, Ids
<1>8. \A n \in 1..k : cursor + n \in 1..Len(journal)
  BY <1>2, <1>3, <1>6
<1>9. \A n \in 1..k :
        /\ HistoricalGroup(groups[n])
        /\ \A i \in FeedIds(f) : cursor + n \in GroupsOf(i) =>
             i \in DOMAIN groups[n] /\ groups[n][i] = journal[cursor + n][i]
  BY <1>3, <1>6, <1>7, <1>8, ProjectedForms
<1>10. ASSUME NEW i \in FeedIds(f)
       PROVE  \/ CoveredAt(c, i, cursor + k)
              \/ \E n \in 1..k : /\ i \in DOMAIN groups[n]
                                 /\ groups[n][i].rev >= Cardinality(Until(i, cursor + k))
  <2>1. i \in Ids /\ GroupsOf(i) \subseteq 1..Len(journal)
    BY <1>3, <1>7, GroupsFinite
  <2>2. CASE \E m \in Until(i, cursor + k) : m > cursor
    <3> DEFINE T == Until(i, cursor + k)
    <3>1. T \in SUBSET (0..Len(journal)) /\ T # {}
      BY <2>1, <2>2 DEF Until
    <3> HIDE DEF T
    <3>2. PICK m \in T : \A j \in T : j <= m
      BY <1>3, <3>1, LastOf
    <3>3. m \in GroupsOf(i) /\ m \in 1..Len(journal) /\ m > cursor /\ m <= cursor + k
      BY <1>2, <1>3, <1>6, <2>1, <2>2, <3>2 DEF T, Until
    <3>4. Until(i, m) = Until(i, cursor + k)
      BY <1>2, <1>3, <1>6, <2>1, <3>2, <3>3 DEF T, Until
    <3>5. m - cursor \in 1..k /\ cursor + (m - cursor) = m
      BY <1>2, <1>3, <1>6, <3>3
    <3>6. PICK n \in 1..k : cursor + n = m
      BY <3>5
    <3>7. i \in DOMAIN groups[n] /\ groups[n][i] = journal[m][i]
      BY <1>9, <3>3, <3>6
    <3>8. /\ journal[m][i].rev = Cardinality(Until(i, cursor + k))
          /\ Cardinality(Until(i, cursor + k)) \in Nat
      BY <1>3, <2>1, <3>3, <3>4, UntilForms DEF History
    <3> QED
      BY <3>7, <3>8
  <2>3. CASE \A m \in Until(i, cursor + k) : ~(m > cursor)
    <3>1. Until(i, cursor + k) = Until(i, cursor)
      BY <1>2, <1>3, <1>6, <2>1, <2>3 DEF Until
    <3> QED
      BY <1>2, <3>1 DEF CoveredAt
  <2> QED
    BY <2>2, <2>3
<1>11. cursor + k \in 0..Len(journal)
  BY <1>2, <1>3, <1>6
<1> QED
  BY <1>1, <1>4, <1>6, <1>9, <1>10, <1>11 DEF PageOk

LEMMA SnapshotOk ==
  ASSUME SystemInv, NEW c \in Clients, NEW f \in Feeds
  PROVE  PageOk(c, f, <<Snapshot(FeedIds(f))>>, Sequence)
<1>1. Typed /\ History /\ Len(journal) \in Nat
  BY DEF SystemInv, ServerInv, Typed
<1>2. FeedIds(f) \subseteq Ids
  BY DEF FeedIds, Ids
<1>3. PICK g : g = Snapshot(FeedIds(f))
  OBVIOUS
<1>4. /\ DOMAIN g \subseteq Ids
      /\ \A i \in DOMAIN g : g[i] = row[i]
      /\ \A i \in FeedIds(f) : row[i].rev > 0 => i \in DOMAIN g
  BY <1>2, <1>3 DEF Snapshot
<1>5. HistoricalGroup(g)
  BY <1>1, <1>4, RowHistorical DEF HistoricalGroup
<1>6. PICK groups : groups = <<g>>
  OBVIOUS
<1>7. DOMAIN groups = 1..1 /\ groups[1] = g
  BY <1>6
<1>8. \A i \in FeedIds(f) :
        \/ CoveredAt(c, i, Len(journal))
        \/ i \in DOMAIN g /\ g[i].rev >= Cardinality(Until(i, Len(journal)))
  BY <1>1, <1>2, <1>4, UntilForms, ShadowForms, EntityForms DEF CoveredAt
<1> QED
  BY <1>1, <1>3, <1>5, <1>6, <1>7, <1>8 DEF PageOk, Sequence

(* A page is on its way; nothing else changes.                             *)
LEMMA PageStepKeeps ==
  ASSUME SystemInv, UNCHANGED <<db, made, edits, serverVars>>, NEW c \in Clients, NEW f \in Feeds,
         NEW groups, NEW cursor, NEW full, Called(c, f, Page(groups, cursor, full)),
         PageOk(c, f, groups, cursor)
  PROVE  SystemInv'
<1>1. /\ CallsTyped
      /\ call'[c][f] = Page(groups, cursor, full)
      /\ \A k \in Clients : \A g \in Feeds : k # c \/ g # f => call'[k][g] = call[k][g]
  BY CallReplaced
<1>2. AllReplicas' /\ OthersSame(c) /\ Counters'
  BY <1>1 DEF SystemInv, AllReplicas, OthersSame, Counters, CallsTyped
<1>3. Forward(c) /\ ServerInv' /\ Grown
  BY ReplicasHold, SameShadowsForward, ServerWaits
<1>4. Outboxes' /\ Receipts' /\ Matched'
  BY <1>2, ReplicasHold, OutboxShrinks
<1>5. Shadows' /\ Cursors'
  BY <1>2, <1>3, ShadowsForward, RestForward DEF Cursors
<1>6. CallOk(c, f)'
  <2>1. /\ \A n \in DOMAIN groups : HistoricalGroup(groups[n])'
        /\ Len(journal)' = Len(journal)
        /\ \A i \in Ids : Until(i, cursor)' = Until(i, cursor)
    BY <1>3, HistoricalGroupStays
       DEF PageOk, HistoricalGroup, Historical, Grown, serverVars
  <2>2. FeedIds(f) \subseteq Ids
    BY DEF FeedIds, Ids
  <2>3. PageOk(c, f, groups, cursor)'
    BY <2>1, <2>2 DEF PageOk, CoveredAt
  <2> QED
    BY <1>1, <2>3 DEF CallOk, Page
<1>7. Pages'
  <2> SUFFICES ASSUME NEW k \in Clients, NEW g \in Feeds
               PROVE  CallOk(k, g)'
    BY DEF Pages
  <2> QED
    BY <1>1, <1>2, <1>3, <1>6, RestForward
<1> QED
  BY <1>2, <1>3, <1>4, <1>5, <1>7 DEF SystemInv

LEMMA LoadKeeps ==
  ASSUME SystemInv, NEW c \in Clients, NEW f \in Feeds, Load(c, f)
  PROVE  SystemInv'
BY SnapshotOk, PageStepKeeps DEF Load

LEMMA PullKeeps ==
  ASSUME SystemInv, NEW c \in Clients, NEW f \in Feeds, Pull(c, f)
  PROVE  SystemInv'
<1>1. UNCHANGED <<made, edits, serverVars>> /\ db[c].cursor[f] # None
  BY Zenon DEF Pull
<1>2. CASE HistoryLost(db[c].cursor[f], PageSize)
  <2>1. RequireReset(c, f) /\ call' = call
    BY <1>2, Zenon DEF Pull
  <2>2. /\ AllReplicas' /\ OthersSame(c)
        /\ db'[c].shadow = db[c].shadow
        /\ db'[c].outbox = db[c].outbox /\ db'[c].cursor = db[c].cursor
        /\ db'[c].reset = db[c].reset \cup {f}
    BY <2>1, ResetApplied DEF SystemInv
  <2>3. CallsTyped /\ CallsQuiet(c) /\ db'[c].reset \subseteq Feeds
    BY <2>1, <2>2, CallsSame DEF SystemInv, Counters
  <2> QED
    BY <1>1, <2>2, <2>3, BookStepKeeps
<1>3. CASE ~HistoryLost(db[c].cursor[f], PageSize)
  <2>1. /\ Called(c, f, Page(PageGroups(db[c].cursor[f], PageSize, FeedIds(f)),
                             PageEnd(db[c].cursor[f], PageSize), FALSE))
        /\ UNCHANGED db
    BY <1>3, Zenon DEF Pull
  <2>2. PICK groups, cursor : /\ groups = PageGroups(db[c].cursor[f], PageSize, FeedIds(f))
                              /\ cursor = PageEnd(db[c].cursor[f], PageSize)
    OBVIOUS
  <2>3. PageOk(c, f, groups, cursor)
    BY <1>1, <1>3, <2>2, PulledPageOk
  <2>4. Called(c, f, Page(groups, cursor, FALSE))
    BY <2>1, <2>2
  <2> QED
    BY <1>1, <2>1, <2>3, <2>4, PageStepKeeps
<1> QED
  BY <1>2, <1>3

(* The page arrives: shadows and cursor move together.                     *)
LEMMA ReceiveKeeps ==
  ASSUME SystemInv, NEW c \in Clients, NEW f \in Feeds, Receive(c, f)
  PROVE  SystemInv'
<1>1. /\ call[c][f].kind = "page" /\ Called(c, f, Idle)
      /\ UNCHANGED <<made, edits, serverVars>>
  BY DEF Receive
<1>2. CallsTyped /\ CallsQuiet(c)
  <2>1. Idle.kind # "page"
    BY DEF Idle
  <2> QED
    BY <1>1, <2>1, CallReplaced
<1>3. PICK groups, cursor, full :
        /\ groups = call[c][f].groups /\ cursor = call[c][f].cursor
        /\ Apply(c, f, groups, cursor, full)
  BY DEF Receive
<1>4. PageOk(c, f, groups, cursor)
  BY <1>1, <1>3 DEF SystemInv, Pages, CallOk
<1>5. PICK L \in Nat : DOMAIN groups = 1..L
  BY <1>4 DEF PageOk
<1>6. \A n \in 1..L : HistoricalGroup(groups[n]) /\ EntityGroup(groups[n])
  BY <1>4, <1>5, HistoricalGroupForms DEF PageOk, SystemInv, ServerInv
<1>7. /\ AllReplicas' /\ OthersSame(c)
      /\ \/ db' = db
         \/ /\ db'[c].outbox = db[c].outbox
            /\ db'[c].cursor = [db[c].cursor EXCEPT ![f] = cursor]
            /\ db'[c].reset \subseteq db[c].reset
            /\ Received(db[c], db'[c], groups)
  <2>1. TypedPage(groups)
    BY <1>5, <1>6 DEF TypedPage
  <2>2. Apply(c, f, groups, cursor, full) /\ AllReplicas
    BY <1>3 DEF SystemInv
  <2> QED
    BY <2>1, <2>2, ApplyApplied
<1>8. CASE db' = db
  BY <1>1, <1>2, <1>8, IdleStepKeeps
<1>9. CASE db' # db
  <2>1. Received(db[c], db'[c], groups)
    BY <1>7, <1>9
  <2>2. Forward(c)
    BY <1>5, <1>6, <2>1, ShadowForms DEF Forward, Received, HistoricalGroup
  <2>3. ServerInv' /\ Shadows' /\ Outboxes' /\ Receipts' /\ Matched' /\ Grown
    BY <1>1, <1>7, <1>9, <2>2, ServerWaits, ShadowsForward, ReplicasHold, OutboxShrinks
  <2>4. Counters'
    BY <1>1, <1>2, <1>7 DEF SystemInv, Counters, CallsTyped, OthersSame
  <2>5. Pages'
    <3> SUFFICES ASSUME NEW k \in Clients, NEW g \in Feeds
                 PROVE  CallOk(k, g)'
      BY DEF Pages
    <3>1. CASE call'[k][g] = call[k][g]
      BY <1>1, <1>7, <2>2, <3>1, RestForward
    <3>2. CASE call'[k][g].kind # "page"
      BY <3>2 DEF CallOk
    <3> QED
      BY <1>2, <3>1, <3>2 DEF CallsQuiet
  <2>6. CursorOk(c, f)'
    <3>1. db'[c].cursor[f] = cursor
      BY <1>7, <1>9 DEF SystemInv, AllReplicas, Replica, IsDatabase
    <3>2. cursor \in 0..Len(journal) /\ Len(journal)' = Len(journal)
      BY <1>1, <1>4 DEF PageOk, serverVars
    <3>3. ASSUME NEW i \in FeedIds(f)
          PROVE  CoveredAt(c, i, cursor)'
      <4>1. i \in Ids
        BY DEF FeedIds, Ids
      <4>2. CASE CoveredAt(c, i, cursor)
        BY <1>1, <1>7, <2>2, <3>2, <4>1, <4>2, ShadowsForward
      <4>3. CASE ~CoveredAt(c, i, cursor)
        <5>1. PICK n \in DOMAIN groups : /\ i \in DOMAIN groups[n]
                                         /\ groups[n][i].rev >= Cardinality(Until(i, cursor))
          BY <1>4, <4>3 DEF PageOk
        <5>2. db'[c].shadow[i].rev >= groups[n][i].rev
          BY <2>1, <4>1, <5>1 DEF Received
        <5>3. groups[n][i].rev \in Nat /\ db'[c].shadow[i].rev \in Nat
          BY <1>5, <1>6, <2>2, <4>1, <5>1, HistoricalForms
             DEF Forward, HistoricalGroup, SystemInv, ServerInv
        <5>4. Cardinality(Until(i, cursor)) \in Nat /\ Until(i, cursor)' = Until(i, cursor)
          BY <2>3, <3>2, <4>1, UntilForms DEF Grown, SystemInv, ServerInv
        <5> QED
          BY <5>1, <5>2, <5>3, <5>4 DEF CoveredAt
      <4> QED
        BY <4>2, <4>3
    <3> QED
      BY <3>1, <3>2, <3>3 DEF CursorOk
  <2>7. Cursors'
    <3> SUFFICES ASSUME NEW k \in Clients, NEW g \in Feeds
                 PROVE  CursorOk(k, g)'
      BY DEF Cursors
    <3>1. CASE k = c /\ g = f
      BY <2>6, <3>1
    <3>2. CASE k # c \/ g # f
      <4>1. k # c => db'[k].cursor[g] = db[k].cursor[g]
        BY <1>7 DEF OthersSame
      <4>2. k = c => db'[k].cursor[g] = db[k].cursor[g]
        <5>1. PICK cs : cs = db[c].cursor /\ cs = [h \in Feeds |-> cs[h]]
          BY DEF SystemInv, AllReplicas, Replica, IsDatabase
        <5>2. db'[c].cursor = [cs EXCEPT ![f] = cursor]
          BY <1>7, <1>9, <5>1
        <5> QED
          BY <3>2, <5>1, <5>2
      <4>3. db'[k].cursor[g] = db[k].cursor[g]
        BY <4>1, <4>2
      <4> QED
        BY <1>1, <1>7, <2>2, <4>3, RestForward
    <3> QED
      BY <3>1, <3>2
  <2> QED
    BY <1>7, <2>3, <2>4, <2>5, <2>7 DEF SystemInv
<1> QED
  BY <1>8, <1>9

-----------------------------------------------------------------------------
(* The beginning, with or without rows.                                    *)

LEMMA SeedForms ==
  /\ DOMAIN SeedGroup = DOMAIN Seed /\ DOMAIN Seed \subseteq Ids
  /\ \A i \in DOMAIN Seed : /\ SeedGroup[i] = [rev |-> 1, data |-> Seed[i]]
                            /\ SeedGroup[i].rev = 1 /\ SeedGroup[i].data = Seed[i]
                            /\ SeedGroup[i] \in EntityOf(i)
                            /\ Seed[i] # None
  /\ SeedGroup \in Groups
  /\ Seed = <<>> => DOMAIN Seed = {}
<1>1. DOMAIN SeedGroup = DOMAIN Seed /\ DOMAIN Seed \subseteq Ids
  BY SystemAssumption DEF SeedGroup
<1>2. ASSUME NEW i \in DOMAIN Seed
      PROVE  /\ SeedGroup[i] = [rev |-> 1, data |-> Seed[i]]
             /\ SeedGroup[i].rev = 1 /\ SeedGroup[i].data = Seed[i]
             /\ SeedGroup[i] \in EntityOf(i)
             /\ Seed[i] # None
  <2>1. Seed[i] \in DataOf(i) /\ i \in Ids
    BY SystemAssumption
  <2>2. Seed[i] \in Data /\ Seed[i] # None
    BY <2>1, DataForms
  <2> QED
    BY <2>1, <2>2 DEF SeedGroup, EntityOf, Entity
<1>3. SeedGroup \in [DOMAIN Seed -> Entity]
  BY <1>1, <1>2 DEF SeedGroup, EntityOf
<1>4. SeedGroup \in Groups
  BY <1>1, <1>2, <1>3 DEF Groups
<1>5. Seed = <<>> => DOMAIN Seed = {}
  OBVIOUS
<1> QED
  BY <1>1, <1>2, <1>4, <1>5

(* The rows and the journal after the server's own code wrote Seed.        *)
SeededServer ==
  /\ row = [i \in Ids |-> IF i \in DOMAIN Seed THEN SeedGroup[i] ELSE Absent]
  /\ journal = SeedJournal /\ retained = 1..Len(SeedJournal)
  /\ receipts = {} /\ replies = {}

LEMMA SeededHistory ==
  ASSUME SeededServer
  PROVE  /\ Len(journal) \in {0, 1} /\ Len(journal) = Len(SeedJournal)
         /\ \A i \in Ids : GroupsOf(i) = IF i \in DOMAIN Seed THEN {1} ELSE {}
         /\ \A i \in DOMAIN Seed : journal[1][i] = SeedGroup[i]
         /\ \A i \in Ids : row[i] = IF i \in DOMAIN Seed THEN SeedGroup[i] ELSE Absent
         /\ ServerInv
<1>1. /\ row = [i \in Ids |-> IF i \in DOMAIN Seed THEN SeedGroup[i] ELSE Absent]
      /\ journal = SeedJournal /\ retained = 1..Len(journal)
      /\ receipts = {} /\ replies = {}
  BY DEF SeededServer
<1>2. /\ Len(journal) \in {0, 1} /\ journal \in Seq(Groups)
      /\ \A i \in Ids : GroupsOf(i) = IF i \in DOMAIN Seed THEN {1} ELSE {}
      /\ \A i \in DOMAIN Seed : journal[1][i] = SeedGroup[i]
  <2>1. CASE Seed = <<>>
    <3>1. journal = <<>>
      BY <1>1, <2>1 DEF SeedJournal
    <3> QED
      BY <2>1, <3>1, SeedForms DEF GroupsOf, Sequence
  <2>2. CASE Seed # <<>>
    <3>1. PICK g : g = SeedGroup /\ g \in Groups /\ DOMAIN g = DOMAIN Seed
      BY SeedForms
    <3>2. journal = <<g>> /\ Len(journal) = 1 /\ journal[1] = g /\ journal \in Seq(Groups)
      BY <1>1, <2>2, <3>1 DEF SeedJournal
    <3>3. \A i : GroupsOf(i) = IF i \in DOMAIN Seed THEN {1} ELSE {}
      BY <3>1, <3>2 DEF GroupsOf, Sequence
    <3> QED
      BY <3>1, <3>2, <3>3
  <2> QED
    BY <2>1, <2>2
<1>3. \A i \in Ids : /\ row[i] = IF i \in DOMAIN Seed THEN SeedGroup[i] ELSE Absent
                     /\ row[i] \in EntityOf(i)
  BY <1>1, SeedForms, AbsentEntity
<1>4. Typed
  <2>1. row \in [Ids -> Entity]
    BY <1>1, <1>3 DEF EntityOf
  <2> QED
    BY <1>1, <1>2, <1>3, <2>1 DEF Typed, RowsTyped
<1>5. History
  <2> SUFFICES ASSUME NEW i \in Ids
               PROVE  /\ \A n \in GroupsOf(i) : journal[n][i].rev = Cardinality(Until(i, n))
                      /\ row[i].rev = Cardinality(GroupsOf(i))
                      /\ GroupsOf(i) = {} => row[i] = Absent
                      /\ GroupsOf(i) # {} =>
                           \E n \in GroupsOf(i) : (\A m \in GroupsOf(i) : m <= n) /\ journal[n][i] = row[i]
    BY DEF History
  <2>1. CASE i \in DOMAIN Seed
    <3>1. GroupsOf(i) = {1} /\ Until(i, 1) = {1}
      BY <1>2, <2>1 DEF Until
    <3>2. Cardinality({1}) = 1
      BY FS_Singleton
    <3>3. journal[1][i] = SeedGroup[i] /\ row[i] = SeedGroup[i] /\ row[i].rev = 1
      BY <1>2, <1>3, <2>1, SeedForms
    <3> QED
      BY <3>1, <3>2, <3>3
  <2>2. CASE i \notin DOMAIN Seed
    <3>1. GroupsOf(i) = {} /\ row[i] = Absent
      BY <1>2, <1>3, <2>2
    <3> QED
      BY <3>1, FS_EmptySet DEF Absent
  <2> QED
    BY <2>1, <2>2
<1>6. References
  <2> SUFFICES ASSUME NEW c \in Children, row[c].data # None, row[c].data["ref"] \in Parents
               PROVE  row[row[c].data["ref"]].data # None
    BY DEF References, Live
  <2>1. c \in Ids /\ c \in DOMAIN Seed
    BY <1>3 DEF Ids, Absent
  <2>2. row[c].data = Seed[c]
    BY <1>3, <2>1, SeedForms
  <2>3. Seed[c]["ref"] # None
    BY <2>2, DataAssumption
  <2>4. Seed[c]["ref"] \in DOMAIN Seed
    BY <2>1, <2>3, SystemAssumption
  <2> QED
    BY <1>3, <2>2, <2>4, SeedForms
<1>7. RepliesReceipted /\ WritersInv
  BY <1>1 DEF RepliesReceipted, WritersInv, FirstWriterWins, BasesConsumed
<1> QED
  BY <1>1, <1>2, <1>3, <1>4, <1>5, <1>6, <1>7 DEF ServerInv

(* A client that has loaded Seed has its entities in its shadows.          *)
LEMMA LoadedForms ==
  LET d == [Tidied(ApplyGroup(EmptyDatabase, SeedGroup)) EXCEPT
              !.cursor = [f \in Feeds |-> Len(SeedJournal)]]
  IN /\ Replica(d) /\ d.outbox = {} /\ d.reset = {}
     /\ \A f \in Feeds : d.cursor[f] = Len(SeedJournal)
     /\ \A i \in Ids : \/ d.shadow[i] = Absent
                       \/ i \in DOMAIN Seed /\ d.shadow[i] = SeedGroup[i]
     /\ \A i \in DOMAIN Seed : d.shadow[i].rev >= 1
<1>1. PICK a : a = EmptyDatabase
  OBVIOUS
<1>2. PICK b : b = ApplyGroup(a, SeedGroup)
  OBVIOUS
<1>3. PICK e : e = Tidied(b)
  OBVIOUS
<1>4. PICK cs : cs = [f \in Feeds |-> Len(SeedJournal)]
  OBVIOUS
<1>5. PICK d : d = [e EXCEPT !.cursor = cs]
  OBVIOUS
<1>6. Replica(a) /\ a.outbox = {} /\ a.reset = {} /\ \A i \in Ids : a.shadow[i] = Absent
  BY <1>1, EmptyReplica DEF EmptyDatabase
<1>7. EntityGroup(SeedGroup)
  BY SeedForms DEF EntityGroup
<1>8. /\ Replica(b) /\ b.outbox = {} /\ b.reset = {}
      /\ \A i \in Ids : \/ b.shadow[i] = Absent
                        \/ i \in DOMAIN Seed /\ b.shadow[i] = SeedGroup[i]
      /\ \A i \in DOMAIN Seed : b.shadow[i].rev >= 1
  BY <1>2, <1>6, <1>7, GroupApplied, SeedForms
<1>9. Replica(e) /\ WriteOnly(b, e)
  BY <1>3, <1>8, TidiedForms
<1>10. /\ Booked(e, d) /\ d.outbox = e.outbox /\ d.reset = e.reset /\ d.shadow = e.shadow
       /\ d.cursor = cs
  BY <1>4, <1>5, <1>9 DEF Booked, Replica, IsDatabase
<1>11. Replica(d)
  BY <1>9, <1>10, BooksKept
<1> QED
  BY <1>1, <1>2, <1>3, <1>4, <1>5, <1>8, <1>9, <1>10, <1>11 DEF WriteOnly

LEMMA SystemInitially ==
  ASSUME SystemInit
  PROVE  SystemInv
<1>1. /\ Len(journal) \in {0, 1} /\ Len(journal) = Len(SeedJournal)
      /\ \A i \in Ids : GroupsOf(i) = IF i \in DOMAIN Seed THEN {1} ELSE {}
      /\ \A i \in DOMAIN Seed : journal[1][i] = SeedGroup[i]
      /\ \A i \in Ids : row[i] = IF i \in DOMAIN Seed THEN SeedGroup[i] ELSE Absent
      /\ ServerInv
  BY SeededHistory DEF SystemInit, SeededServer
<1>2. ASSUME NEW c \in Clients
      PROVE  /\ Replica(db[c]) /\ db[c].outbox = {} /\ db[c].reset = {}
             /\ \A f \in Feeds :
                  \/ db[c].cursor[f] = None
                  \/ /\ db[c].cursor[f] = Len(journal)
                     /\ \A i \in DOMAIN Seed : db[c].shadow[i].rev >= 1
             /\ \A i \in Ids : \/ db[c].shadow[i] = Absent
                               \/ i \in DOMAIN Seed /\ db[c].shadow[i] = SeedGroup[i]
  <2>1. CASE c \in Loaded
    <3>1. PICK d : d = [Tidied(ApplyGroup(EmptyDatabase, SeedGroup)) EXCEPT
                          !.cursor = [f \in Feeds |-> Len(SeedJournal)]]
      OBVIOUS
    <3>2. db[c] = d
      BY <2>1, <3>1 DEF SystemInit
    <3>3. /\ Replica(d) /\ d.outbox = {} /\ d.reset = {}
          /\ \A f \in Feeds : d.cursor[f] = Len(SeedJournal)
          /\ \A i \in Ids : \/ d.shadow[i] = Absent
                            \/ i \in DOMAIN Seed /\ d.shadow[i] = SeedGroup[i]
          /\ \A i \in DOMAIN Seed : d.shadow[i].rev >= 1
      BY <3>1, LoadedForms
    <3> QED
      BY <1>1, <3>2, <3>3
  <2>2. CASE c \notin Loaded
    <3>1. PICK d : d = EmptyDatabase
      OBVIOUS
    <3>2. db[c] = d
      BY <2>2, <3>1 DEF SystemInit
    <3>3. /\ Replica(d) /\ d.outbox = {} /\ d.reset = {}
          /\ \A f \in Feeds : d.cursor[f] = None
          /\ \A i \in Ids : d.shadow[i] = Absent
      BY <3>1, EmptyReplica DEF EmptyDatabase
    <3> QED
      BY <3>2, <3>3
  <2> QED
    BY <2>1, <2>2
<1>3. AllReplicas
  <2>1. db = [c \in Clients |-> db[c]]
    BY DEF SystemInit
  <2> QED
    BY <1>2, <2>1 DEF AllReplicas
<1>4. Shadows
  BY <1>1, <1>2 DEF Shadows, Historical
<1>5. Cursors
  <2> SUFFICES ASSUME NEW c \in Clients, NEW f \in Feeds, db[c].cursor[f] # None
               PROVE  /\ db[c].cursor[f] \in 0..Len(journal)
                      /\ \A i \in FeedIds(f) : CoveredAt(c, i, db[c].cursor[f])
    BY DEF Cursors, CursorOk
  <2>1. /\ db[c].cursor[f] = Len(journal) /\ Len(journal) \in Nat
        /\ \A i \in DOMAIN Seed : db[c].shadow[i].rev >= 1
    BY <1>1, <1>2
  <2>2. ASSUME NEW i \in Ids
        PROVE  CoveredAt(c, i, Len(journal))
    <3>1. Cardinality(Until(i, Len(journal))) = row[i].rev
      BY <1>1, UntilForms DEF ServerInv
    <3>2. i \in DOMAIN Seed => row[i].rev = 1
      BY <1>1, SeedForms
    <3>3. i \notin DOMAIN Seed => row[i].rev = 0 /\ db[c].shadow[i].rev = 0
      BY <1>1, <1>2 DEF Absent
    <3> QED
      BY <2>1, <3>1, <3>2, <3>3 DEF CoveredAt
  <2> QED
    BY <2>1, <2>2 DEF FeedIds, Ids
<1>6. Pages
  BY DEF SystemInit, Pages, CallOk, Idle
<1>7. Outboxes /\ Matched
  BY <1>2 DEF Outboxes, OutboxOk, Matched
<1>8. Receipts
  BY DEF SystemInit, Receipts
<1>9. Counters
  <2>1. call = [c \in Clients |-> [f \in Feeds |-> call[c][f]]] /\ made \in [Clients -> Nat]
    BY DEF SystemInit
  <2>2. edits \in 0..MaxEdits
    BY SystemAssumption DEF SystemInit
  <2> QED
    BY <1>2, <2>1, <2>2 DEF Counters
<1> QED
  BY <1>1, <1>3, <1>4, <1>5, <1>6, <1>7, <1>8, <1>9 DEF SystemInv

LEMMA SystemStutters ==
  ASSUME SystemInv, UNCHANGED systemVars
  PROVE  SystemInv'
<1>1. UNCHANGED <<db, call, made, edits, receipts, serverVars>>
  BY DEF systemVars, serverVars
<1>2. ServerInv' /\ Grown
  BY <1>1, ServerWaits
<1> QED
  BY <1>1, <1>2, ReplicasHold, ClientsWait, ReceiptsWait DEF SystemInv

LEMMA SystemInductive ==
  ASSUME SystemInv, [SystemNext]_systemVars
  PROVE  SystemInv'
<1>1. ASSUME NEW c \in Clients, NEW f \in Feeds, EngineStep(c, f)
      PROVE  SystemInv'
  BY <1>1, ResendKeeps, PrepareKeeps, TidyKeeps, FinishKeeps, PullKeeps, LoadKeeps, ReceiveKeeps,
     GiveUpKeeps DEF EngineStep
<1> QED
  BY <1>1, EditKeeps, DeliverKeeps, ServerStepKeeps, SystemStutters DEF SystemNext

LEMMA SystemAlways == SystemSpec => []SystemInv
BY SystemInitially, SystemInductive, PTL DEF SystemSpec

-----------------------------------------------------------------------------
(* Theorems.                                                               *)

(* However pages, snapshots and acknowledgements cross, a shadow is a      *)
(* committed revision, and a cursor never runs ahead of what the replica   *)
(* has received for its feed (apply, pull).                                *)
THEOREM CursorsNeverAhead == SystemSpec => []CursorCovered
<1>1. SystemInv => CursorCovered
  <2> SUFFICES ASSUME SystemInv
               PROVE  CursorCovered
    OBVIOUS
  <2>1. ShadowIsHistory
    BY DEF SystemInv, Shadows, Historical, ShadowIsHistory
  <2>2. \A c \in Clients : \A f \in Feeds : db[c].cursor[f] # None =>
          \A i \in FeedIds(f) : db[c].shadow[i].rev >= Cardinality(Until(i, db[c].cursor[f]))
    BY DEF SystemInv, Cursors, CursorOk, CoveredAt
  <2> QED
    BY <2>1, <2>2 DEF CursorCovered, Until
<1> QED
  BY <1>1, SystemAlways, PTL

(* No edit is forgotten: a visible row that differs from the shadow is in  *)
(* the dirty set, whatever arrived in the meantime (mark, prepare,         *)
(* apply_updates).                                                         *)
THEOREM EditsTracked == SystemSpec => []DivergenceTracked
<1>1. SystemInv => DivergenceTracked
  BY DEF SystemInv, AllReplicas, Replica, Tracked, DivergenceTracked
<1> QED
  BY <1>1, SystemAlways, PTL

(* The replicas' databases keep their types and their local foreign keys.  *)
THEOREM SystemTyped == SystemSpec => []SystemTypeOK
<1>1. SystemInv => SystemTypeOK
  <2> SUFFICES ASSUME SystemInv, NEW c \in Clients
               PROVE  /\ \A i \in Ids : /\ db[c].local[i] # None => db[c].local[i].data \in DataOf(i)
                                        /\ db[c].shadow[i].data \in DataOf(i) \cup {None}
                      /\ RefsPresent(db[c].local)
                      /\ db[c].dirty \cup db[c].deleting \subseteq Ids
                      /\ db[c].reset \subseteq Feeds
                      /\ \A op \in db[c].outbox : op.number \in 1..made[c] /\ op.feed \in Feeds
                      /\ edits \in 0..MaxEdits
    BY DEF SystemTypeOK
  <2>1. Fit(db[c])
    BY DEF SystemInv, AllReplicas, Replica
  <2>2. \A i \in Ids : /\ db[c].local[i] # None => db[c].local[i].data \in DataOf(i)
                       /\ db[c].shadow[i].data \in DataOf(i) \cup {None}
    BY <2>1, RowForms DEF Fit, EntityOf
  <2> QED
    BY <2>1, <2>2 DEF Fit, SystemInv, Counters, Outboxes, OutboxOk
<1> QED
  BY <1>1, SystemAlways, PTL

(* A committed revision that is the row's is the row.                      *)
LEMMA LatestIsRow ==
  ASSUME Typed, History, NEW i \in Ids, NEW e, Historical(i, e), e.rev = row[i].rev
  PROVE  e = row[i]
<1>1. row[i].rev \in Nat
  BY EntityForms
<1>2. IsFiniteSet(GroupsOf(i)) /\ row[i].rev = Cardinality(GroupsOf(i))
  BY GroupsFinite DEF History
<1>3. CASE e = Absent
  <2>1. GroupsOf(i) = {}
    BY <1>2, <1>3, FS_EmptySet DEF Absent
  <2> QED
    BY <1>3, <2>1 DEF History
<1>4. CASE e # Absent
  <2>1. PICK n \in GroupsOf(i) : journal[n][i] = e
    BY <1>4 DEF Historical
  <2>2. Cardinality(Until(i, n)) = Cardinality(GroupsOf(i))
    BY <1>1, <1>2, <2>1 DEF History
  <2>3. Until(i, n) \in SUBSET GroupsOf(i)
    BY DEF Until
  <2>4. Until(i, n) = GroupsOf(i)
    BY <1>2, <2>2, <2>3, FS_Subset
  <2>5. JournalIsHistory
    BY HistoryForms
  <2>6. \A m \in GroupsOf(i) : m <= n
    BY <2>4 DEF Until
  <2> QED
    BY <2>1, <2>5, <2>6 DEF JournalIsHistory
<1> QED
  BY <1>3, <1>4

(* A shadow that is as far as the whole journal is the server's row.       *)
LEMMA WhollyCovered ==
  ASSUME SystemInv, NEW c \in Clients, NEW i \in Ids, CoveredAt(c, i, Len(journal))
  PROVE  db[c].shadow[i] = row[i]
<1>1. Typed /\ History
  BY DEF SystemInv, ServerInv
<1>2. Historical(i, db[c].shadow[i]) /\ db[c].shadow[i].rev = row[i].rev
  BY <1>1, ShadowForms, UntilForms, EntityForms DEF CoveredAt
<1> QED
  BY <1>1, <1>2, LatestIsRow

LEMMA UnchangedShows ==
  ASSUME NEW i \in Ids, NEW d, d.local[i] \in RowOf(i), d.shadow[i] \in EntityOf(i), ~Changed(d, i)
  PROVE  Shown(d.local[i]) = d.shadow[i].data
<1>1. PICK r : r = d.local[i] /\ r \in RowOf(i)
  OBVIOUS
<1>2. PICK e : e = d.shadow[i] /\ e \in EntityOf(i)
  OBVIOUS
<1>3. /\ PatchRow(i, RecordOf(e), r) = None => RecordOf(e) = None
      /\ PatchRow(i, RecordOf(e), r) # None =>
           RecordOf(e) # None /\ DOMAIN PatchRow(i, RecordOf(e), r) = {}
  BY <1>1, <1>2 DEF Changed, ShadowRow
<1>4. CASE r = None
  <2>1. e.data = None
    BY <1>2, <1>3, <1>4, EntityIsRow DEF PatchRow
  <2> QED
    BY <1>1, <1>2, <1>4, <2>1 DEF Shown
<1>5. CASE r # None
  <2>1. r.data \in DataOf(i)
    BY <1>1, <1>5, RowForms
  <2>2. PICK F : F = {g \in FieldsOf(i) : RecordOf(e) = None \/ r.data[g] # RecordOf(e).data[g]}
    OBVIOUS
  <2>3. PatchRow(i, RecordOf(e), r) = [f \in F |-> r.data[f]]
    BY <1>5, <2>2 DEF PatchRow
  <2>4. PatchRow(i, RecordOf(e), r) # None
    <3>1. F \in SUBSET Fields /\ \A f \in F : r.data[f] \in FieldValue
      BY <2>1, <2>2, DataForms DEF FieldsOf, Fields
    <3>2. [f \in F |-> r.data[f]] \in Patch
      BY <3>1 DEF Patch
    <3> QED
      BY <2>3, <3>2, DataAssumption
  <2>5. RecordOf(e) # None /\ F = {}
    BY <1>3, <2>3, <2>4
  <2>6. e.data \in DataOf(i) /\ RecordOf(e) = e
    BY <1>2, <2>5, EntityIsRow
  <2>7. \A g \in FieldsOf(i) : r.data[g] = e.data[g]
    BY <2>2, <2>5, <2>6
  <2>8. r.data["val"] = e.data["val"] /\ r.data["ref"] = e.data["ref"]
    BY <2>1, <2>6, <2>7, DataForms DEF FieldsOf, Fields
  <2>9. /\ r.data = [f \in Fields |-> r.data[f]] /\ e.data = [f \in Fields |-> e.data[f]]
    BY <2>1, <2>6, DataForms
  <2>10. r.data = e.data
    BY <2>8, <2>9 DEF Fields
  <2> QED
    BY <1>1, <1>2, <1>5, <2>10 DEF Shown
<1> QED
  BY <1>4, <1>5

(* A replica that has received everything, has nothing to send and no      *)
(* conflict shows exactly the server's rows.                               *)
THEOREM QuietConverged == SystemSpec => []Converged
<1>1. SystemInv => Converged
  <2> SUFFICES ASSUME SystemInv, NEW c \in Clients, Quiet(c), NEW i \in Ids
               PROVE  Shown(db[c].local[i]) = row[i].data
    BY DEF Converged, ShowsServer
  <2>1. PICK f \in Feeds : FeedIds(f) = Ids
    BY ClientAssumption DEF FeedIds
  <2>2. db[c].cursor[f] = Len(journal) /\ Len(journal) \in Nat
    BY GroupsFinite DEF Quiet, Sequence, SystemInv, ServerInv
  <2>3. CoveredAt(c, i, Len(journal))
    BY <2>1, <2>2, ClientAssumption DEF SystemInv, Cursors, CursorOk
  <2>4. db[c].shadow[i] = row[i]
    BY <2>3, WhollyCovered
  <2>5. Replica(db[c])
    BY DEF SystemInv, AllReplicas
  <2>6. ~Changed(db[c], i)
    BY <2>5 DEF Quiet, Unsent, Replica, Tracked
  <2>7. db[c].local[i] \in RowOf(i) /\ db[c].shadow[i] \in EntityOf(i)
    BY <2>5 DEF Replica, Fit
  <2>8. Shown(db[c].local[i]) = db[c].shadow[i].data
    BY <2>6, <2>7, UnchangedShows
  <2> QED
    BY <2>4, <2>8
<1> QED
  BY <1>1, SystemAlways, PTL

(* What the server promises for any requests holds when the requests are   *)
(* those of the replicas: its journal and rows tell one story, references  *)
(* hold, an operation has one outcome, and of the operations made from one *)
(* revision of an entity at most one is accepted.                          *)
THEOREM ServerPromisesKept ==
  SystemSpec => [](JournalIsHistory /\ References /\ OneOutcome /\ FirstWriterWins)
<1>1. SystemInv => JournalIsHistory /\ References /\ OneOutcome /\ FirstWriterWins
  <2> SUFFICES ASSUME SystemInv
               PROVE  JournalIsHistory /\ References /\ OneOutcome /\ FirstWriterWins
    OBVIOUS
  <2>1. JournalIsHistory /\ References /\ FirstWriterWins
    BY HistoryForms DEF SystemInv, ServerInv, WritersInv
  <2>2. OneOutcome
    BY DEF SystemInv, ServerInv, RepliesReceipted, OneOutcome
  <2> QED
    BY <2>1, <2>2
<1> QED
  BY <1>1, SystemAlways, PTL

(* Whatever the replicas send, to the server every step is one of its own. *)
LEMMA SystemServerStep ==
  ASSUME SystemInv, [SystemNext]_systemVars
  PROVE  Step
<1>1. Typed
  BY DEF SystemInv, ServerInv
<1>2. ASSUME NEW c \in Clients, Deliver(c)
      PROVE  Step
  <2>1. PICK op \in db[c].outbox : \E req : req.muts = op.muts /\ Push(req)
    BY <1>2 DEF Deliver
  <2> PICK req : req.muts = op.muts /\ Push(req)
    BY <2>1
  <2>2. IsMutations(req.muts)
    BY <2>1 DEF SystemInv, Outboxes, OutboxOk
  <2> QED
    BY <1>1, <2>1, <2>2, PushForms DEF Step
<1>3. CASE ServerStep
  <2>1. CASE ServerWrite
    BY <1>1, <2>1, OwnSound DEF Step
  <2>2. CASE \E n \in retained : Prune(n)
    BY <2>2 DEF Step, PruneStep, Prune
  <2> QED
    BY <1>3, <2>1, <2>2 DEF ServerStep
<1>4. CASE UNCHANGED serverVars
  BY <1>4 DEF Step
<1>5. ASSUME NEW c \in Clients, NEW f \in Feeds, EngineStep(c, f)
      PROVE  UNCHANGED serverVars
  <2>1. Pull(c, f) => UNCHANGED serverVars
    BY Zenon DEF Pull
  <2> QED
    BY <1>5, <2>1
       DEF EngineStep, Resend, PrepareAndSend, Tidy, FinishPush, Load, Receive, GiveUp
<1>6. \A c \in Clients : Edit(c) => UNCHANGED serverVars
  BY DEF Edit
<1>7. UNCHANGED systemVars => UNCHANGED serverVars
  BY DEF systemVars
<1> QED
  BY <1>2, <1>3, <1>4, <1>5, <1>6, <1>7 DEF SystemNext

(* No replica revives what was deleted, and no revision goes back.         *)
THEOREM SystemRevivesNothing == SystemSpec => DeletedForGood
<1>1. SystemInv /\ [SystemNext]_systemVars =>
        [\A i \in Ids : /\ row'[i].rev >= row[i].rev
                        /\ Tombstone(row[i]) => Tombstone(row'[i])]_serverVars
  BY SystemServerStep, RevisionsGrow DEF SystemInv, ServerInv
<1> QED
  BY <1>1, SystemAlways, PTL DEF SystemSpec, DeletedForGood

-----------------------------------------------------------------------------
(* The shadow below an operation in flight, with one feed.                 *)

(* A client with one feed has at most one operation in flight.             *)
OneOperation == \A c \in Clients : \A a, b \in db[c].outbox : a = b

LEMMA BlockedForms ==
  ASSUME NEW d, NEW groups, ~Blocked(d, groups), NEW op \in d.outbox, NEW i \in DOMAIN op.muts,
         NEW n \in DOMAIN groups, i \in DOMAIN groups[n]
  PROVE  groups[n][i] = d.shadow[i]
<1>1. ~Frozen(d, Incoming(d, groups), op)
  BY DEF Blocked
<1>2. i \in OperationDeps(d, op)
  BY DEF OperationDeps, EntityDeps
<1>3. i \notin Incoming(d, groups)
  BY <1>1, <1>2 DEF Frozen
<1> QED
  BY <1>3 DEF Incoming

(* A page is not applied when it has news of an entity in flight.          *)
LEMMA ReceiveFreezes ==
  ASSUME SystemInv, NEW c \in Clients, NEW f \in Feeds, Receive(c, f)
  PROVE  /\ OthersSame(c) /\ db'[c].outbox = db[c].outbox
         /\ \A op \in db[c].outbox : \A i \in DOMAIN op.muts :
              db'[c].shadow[i] = db[c].shadow[i]
<1>1. PICK groups, cursor, full :
        /\ groups = call[c][f].groups /\ cursor = call[c][f].cursor
        /\ Apply(c, f, groups, cursor, full)
  BY DEF Receive
<1>2. PageOk(c, f, groups, cursor)
  BY <1>1 DEF SystemInv, Pages, CallOk, Receive
<1>3. TypedPage(groups)
  BY <1>2, HistoricalGroupForms DEF PageOk, TypedPage, SystemInv, ServerInv
<1>4. /\ OthersSame(c)
      /\ \/ db' = db
         \/ /\ Takes(db[c], f, groups, cursor, full)
            /\ db'[c].outbox = db[c].outbox
            /\ Received(db[c], db'[c], groups)
  <2>1. Apply(c, f, groups, cursor, full) /\ AllReplicas
    BY <1>1 DEF SystemInv
  <2> QED
    BY <1>3, <2>1, ApplyApplied
<1>5. CASE db' = db
  BY <1>4, <1>5
<1>6. CASE db' # db
  <2>1. ~Blocked(db[c], groups) /\ Received(db[c], db'[c], groups)
    BY <1>4, <1>6 DEF Takes
  <2>2. ASSUME NEW op \in db[c].outbox, NEW i \in DOMAIN op.muts
        PROVE  db'[c].shadow[i] = db[c].shadow[i]
    <3>1. i \in Ids
      BY DEF SystemInv, Outboxes, OutboxOk, IsMutations
    <3>2. \A n \in DOMAIN groups : i \in DOMAIN groups[n] => groups[n][i] = db[c].shadow[i]
      BY <2>1, BlockedForms
    <3> QED
      BY <2>1, <3>1, <3>2 DEF Received
  <2> QED
    BY <1>4, <1>6, <2>2
<1> QED
  BY <1>5, <1>6

FrozenInv == OneOperation /\ ShadowFrozen

LEMMA FrozenKept ==
  ASSUME FrozenInv, NEW c \in Clients, OthersSame(c), db'[c].outbox \subseteq db[c].outbox,
         \A op \in db'[c].outbox : \A i \in DOMAIN op.muts : db'[c].shadow[i] = db[c].shadow[i]
  PROVE  FrozenInv'
<1>1. \A k \in Clients : db'[k].outbox \subseteq db[k].outbox
  BY DEF OthersSame
<1>2. OneOperation'
  BY <1>1 DEF FrozenInv, OneOperation
<1>3. \A k \in Clients : \A op \in db'[k].outbox : \A i \in DOMAIN op.muts :
        db'[k].shadow[i] = db[k].shadow[i]
  BY DEF OthersSame
<1>4. ShadowFrozen'
  BY <1>1, <1>3 DEF FrozenInv, ShadowFrozen, ShadowMoved
<1> QED
  BY <1>2, <1>4 DEF FrozenInv

LEMMA PrepareFreezes ==
  ASSUME SystemInv, FrozenInv, Feeds = {"scope"}, NEW c \in Clients, NEW f \in Feeds,
         PrepareAndSend(c, f)
  PROVE  FrozenInv'
<1>1. Prepare(c, f, made[c] + 1) /\ f = "scope"
  BY DEF PrepareAndSend
<1>2. db[c].outbox = {}
  <2>1. Preparable(db[c], f)
    BY <1>1, Zenon DEF Prepare
  <2> QED
    BY <1>1, <2>1 DEF Preparable
<1>3. /\ OthersSame(c) /\ db'[c].shadow = db[c].shadow
      /\ \E feed \in Feeds : \E S \in SUBSET Ids :
           db'[c].outbox = db[c].outbox \cup {OperationOf(db[c], made[c] + 1, feed, S)}
  BY <1>1, PrepareApplied DEF SystemInv
<1>4. PICK feed \in Feeds, S \in SUBSET Ids :
        db'[c].outbox = db[c].outbox \cup {OperationOf(db[c], made[c] + 1, feed, S)}
  BY <1>3
<1>5. PICK op : op = OperationOf(db[c], made[c] + 1, feed, S)
  OBVIOUS
<1>6. DOMAIN op.muts = S /\ \A i \in S : op.muts[i].base = db[c].shadow[i].rev
  BY <1>5, OperationTyped DEF SystemInv, AllReplicas
<1>7. db'[c].outbox = {op}
  BY <1>2, <1>4, <1>5
<1>8. OneOperation'
  BY <1>3, <1>7 DEF FrozenInv, OneOperation, OthersSame
<1>9. ASSUME NEW k \in Clients, NEW o \in db'[k].outbox, NEW i \in DOMAIN o.muts
      PROVE  db'[k].shadow[i].rev = o.muts[i].base
  BY <1>3, <1>6, <1>7 DEF FrozenInv, ShadowFrozen, ShadowMoved, OthersSame
<1>10. ShadowFrozen'
  BY <1>9 DEF ShadowFrozen, ShadowMoved
<1> QED
  BY <1>8, <1>10 DEF FrozenInv

LEMMA FinishFreezes ==
  ASSUME SystemInv, FrozenInv, NEW c \in Clients, NEW f \in Feeds, FinishPush(c, f), db' # db
  PROVE  FrozenInv'
<1>1. PICK op \in db[c].outbox, y \in replies : y.key = <<c, op.number>> /\ Finish(c, op, y.result)
  BY DEF FinishPush
<1>2. EntityGroup(y.result.entities) /\ IsMutations(op.muts)
  BY <1>1, ResultForms DEF SystemInv, Outboxes, OutboxOk
<1>3. OthersSame(c) /\ db'[c].outbox = db[c].outbox \ {op}
  BY <1>1, <1>2, FinishApplied DEF SystemInv
<1>4. db'[c].outbox = {}
  BY <1>3 DEF FrozenInv, OneOperation
<1> QED
  BY <1>3, <1>4, FrozenKept

LEMMA FrozenInductive ==
  ASSUME SystemInv, FrozenInv, Feeds = {"scope"}, [SystemNext]_systemVars
  PROVE  FrozenInv'
<1>1. CASE UNCHANGED db
  BY <1>1 DEF FrozenInv, OneOperation, ShadowFrozen
<1>2. ASSUME NEW c \in Clients, Edit(c)
      PROVE  FrozenInv'
  <2>1. PICK i \in Ids : \/ \E data \in DataOf(i) : Insert(c, i, data) \/ Update(c, i, data)
                         \/ Delete(c, i)
                         \/ \E data \in DataOf(i) \cup {None} : Resolve(c, i, data)
    BY <1>2 DEF Edit
  <2>2. OthersSame(c) /\ WriteOnly(db[c], db'[c])
    BY <2>1, EditApplied DEF SystemInv
  <2> QED
    BY <2>2, FrozenKept DEF WriteOnly
<1>3. ASSUME NEW c \in Clients, NEW f \in Feeds, EngineStep(c, f), db' # db
      PROVE  FrozenInv'
  <2>1. CASE PrepareAndSend(c, f)
    BY <2>1, PrepareFreezes
  <2>2. CASE Tidy(c, f)
    <3>1. OthersSame(c) /\ WriteOnly(db[c], db'[c])
      BY <2>2, TidyApplied DEF SystemInv, Tidy
    <3> QED
      BY <3>1, FrozenKept DEF WriteOnly
  <2>3. CASE FinishPush(c, f)
    BY <1>3, <2>3, FinishFreezes
  <2>4. CASE Pull(c, f)
    <3>1. RequireReset(c, f)
      BY <1>3, <2>4, Zenon DEF Pull
    <3>2. OthersSame(c) /\ db'[c].shadow = db[c].shadow /\ db'[c].outbox = db[c].outbox
      BY <3>1, ResetApplied DEF SystemInv
    <3> QED
      BY <3>2, FrozenKept
  <2>5. CASE Receive(c, f)
    BY <2>5, ReceiveFreezes, FrozenKept
  <2> QED
    BY <1>3, <2>1, <2>2, <2>3, <2>4, <2>5 DEF EngineStep, Resend, Load, GiveUp
<1> QED
  BY <1>1, <1>2, <1>3 DEF SystemNext, Deliver, ServerStep, systemVars

(* With a single feed the shadow below an operation in flight stays at its *)
(* base ("The sole shadow is frozen until this request finishes",          *)
(* client.rs:586).  Of two feeds it is not true: the effects of the one's  *)
(* operation move shadows below the other's (run frozen).                  *)
THEOREM SoleFeedFrozen ==
  ASSUME Feeds = {"scope"}
  PROVE  SystemSpec => []ShadowFrozen
<1>1. SystemInit => FrozenInv
  <2> SUFFICES ASSUME SystemInit
               PROVE  FrozenInv
    OBVIOUS
  <2>1. \A c \in Clients : db[c].outbox = {}
    <3> SUFFICES ASSUME NEW c \in Clients
                 PROVE  db[c].outbox = {}
      OBVIOUS
    <3>1. PICK d : d = [Tidied(ApplyGroup(EmptyDatabase, SeedGroup)) EXCEPT
                          !.cursor = [f \in Feeds |-> Len(SeedJournal)]]
      OBVIOUS
    <3>2. db[c] = d \/ db[c] = EmptyDatabase
      BY <3>1 DEF SystemInit
    <3>3. d.outbox = {}
      BY <3>1, LoadedForms
    <3> QED
      BY <3>2, <3>3 DEF EmptyDatabase
  <2> QED
    BY <2>1 DEF FrozenInv, OneOperation, ShadowFrozen
<1>2. SystemInv /\ FrozenInv /\ [SystemNext]_systemVars => FrozenInv'
  BY FrozenInductive
<1>3. FrozenInv => ShadowFrozen
  BY DEF FrozenInv
<1> QED
  BY <1>1, <1>2, <1>3, SystemAlways, PTL DEF SystemSpec
=============================================================================
