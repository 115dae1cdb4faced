------------------------------ MODULE EditProofs ------------------------------
(***************************************************************************)
(* Synchronization never takes an edit away, for any number of replicas,   *)
(* rows, groups in a page and operations in flight.                        *)
(*                                                                         *)
(* The argument follows one field of one row, or one deleted row, through  *)
(* the groups of a page, each of which merges it anew, and through the     *)
(* result of an operation.  It needs three facts besides SystemInv: what a *)
(* conflict that is to be retried remembers (Waits), what an accepted      *)
(* operation was answered (AcceptedOk), and that the history of an id ends *)
(* with its tombstone (Graves).                                            *)
(***************************************************************************)
EXTENDS SystemProofs

-----------------------------------------------------------------------------
(* Merges keep what was edited.                                            *)

(* The row is there and has v in field f. *)
HasValue(r, f, v) == r # None /\ r.data[f] = v

(* The data of a row, or None. *)
DataIn(r) == IF r = None THEN None ELSE r.data

(* Nothing with the data "from" had v in f. *)
Departs(from, f, v) == from = None \/ from[f] # v

Disagrees(e, f, v) == Live(e) => e.data[f] # v

(* A row that is there has data. *)
Whole(r) == r # None => r.data # None

LEMMA RebasedKeeps ==
  ASSUME NEW i \in Ids, NEW f \in Fields, NEW v, NEW from,
         NEW local \in RowOf(i), NEW remote \in RowOf(i),
         HasValue(local, f, v), remote # None, from[f] # v
  PROVE  HasValue(Rebased(from, local, remote), f, v)
<1> DEFINE r == Rebased(from, local, remote)
<1>1. f \in Edited(from, local)
  BY DEF Edited, HasValue
<1>2. r.data[f] = v
  BY <1>1 DEF Rebased, HasValue
<1>3. r = [rev |-> r.rev, data |-> r.data] /\ r.rev \in Nat
  BY RowForms DEF Rebased
<1>4. r.data \in DataOf(i)
  <2>1. local.data \in DataOf(i) /\ remote.data \in DataOf(i)
    BY RowForms DEF HasValue
  <2>2. /\ r.data = [g \in Fields |-> r.data[g]]
        /\ \A g \in Fields : r.data[g] \in {local.data[g], remote.data[g]}
    BY DEF Rebased
  <2> HIDE DEF r
  <2>3. /\ r.data["val"] \in {local.data["val"], remote.data["val"]}
        /\ r.data["ref"] \in {local.data["ref"], remote.data["ref"]}
    BY <2>2 DEF Fields
  <2>4. r.data["val"] \in Values
    BY <2>1, <2>3, DataForms
  <2>5. r.data["ref"] \in Parents \cup {None} /\ (i \notin Children => r.data["ref"] = None)
    BY <2>1, <2>3, DataForms
  <2> QED
    BY <2>2, <2>4, <2>5, DataIntro
<1> HIDE DEF r
<1>5. r # None
  BY <1>3, <1>4, RowIntro
<1> QED
  BY <1>2, <1>5 DEF HasValue, r

(* What has no counterpart in the base is kept by a merge. *)
LEMMA MergeKeeps ==
  ASSUME NEW i \in Ids, NEW f \in Fields, NEW v, NEW base,
         NEW local \in RowOf(i), NEW remote \in RowOf(i),
         HasValue(local, f, v), Whole(base), Departs(DataIn(base), f, v)
  PROVE  HasValue(MergeRow(base, local, remote).row, f, v)
<1>1. local # base /\ local # None
  BY DEF HasValue, Departs, DataIn, Whole
<1>2. CASE local = remote \/ remote = base \/ None \in {base, local, remote}
  BY <1>1, <1>2 DEF MergeRow, Outcome
<1>3. CASE ~(local = remote \/ remote = base \/ None \in {base, local, remote})
  <2>1. MergeRow(base, local, remote).row = Rebased(base.data, local, remote)
    BY <1>1, <1>3 DEF MergeRow, Outcome
  <2>2. base.data[f] # v /\ remote # None
    BY <1>3 DEF Departs, DataIn, Whole
  <2> QED
    BY <2>1, <2>2, RebasedKeeps
<1> QED
  BY <1>2, <1>3

(* ... and by an acknowledgement what was not in the data sent. *)
LEMMA AcknowledgeKeeps ==
  ASSUME NEW i \in Ids, NEW f \in Fields, NEW v, NEW sent,
         NEW local \in RowOf(i), NEW remote \in RowOf(i),
         HasValue(local, f, v), Departs(sent, f, v)
  PROVE  HasValue(Acknowledge(sent, local, remote).row, f, v)
<1>1. local # None /\ (sent # None => local.data # sent)
  BY DEF HasValue, Departs
<1>2. CASE local = remote
  BY <1>2 DEF Acknowledge, Outcome
<1>3. CASE local # remote /\ sent # None /\ remote # None
  <2>1. Acknowledge(sent, local, remote).row = Rebased(sent, local, remote)
    BY <1>1, <1>3 DEF Acknowledge, Outcome
  <2> QED
    BY <1>3, <2>1, RebasedKeeps DEF Departs
<1>4. CASE local # remote /\ ~(sent # None /\ remote # None)
  <2>1. Acknowledge(sent, local, remote).row = local
    BY <1>1, <1>4 DEF Acknowledge, Outcome
  <2> QED
    BY <2>1
<1> QED
  BY <1>2, <1>3, <1>4

(* The answer to what was sent, and then anything newer. *)
LEMMA MergeAnswerKeeps ==
  ASSUME NEW i \in Ids, NEW f \in Fields, NEW v, NEW base, NEW ack \in EntityOf(i),
         NEW local \in RowOf(i), NEW remote \in EntityOf(i),
         HasValue(local, f, v), Departs(DataIn(base), f, v), Disagrees(ack, f, v)
  PROVE  HasValue(MergeAnswer(base, ack, local, remote).row, f, v)
<1> DEFINE answered == Acknowledge(DataIn(base), local, RecordOf(ack))
<1>1. RecordOf(ack) \in RowOf(i) /\ RecordOf(remote) \in RowOf(i)
  BY EntityIsRow
<1>2. HasValue(answered.row, f, v) /\ answered.row \in RowOf(i)
  BY <1>1, AcknowledgeKeeps, MergeTyped
<1>3. \/ MergeAnswer(base, ack, local, remote) = answered
      \/ MergeAnswer(base, ack, local, remote) =
           MergeRow(RecordOf(ack), answered.row, RecordOf(remote))
  BY DEF MergeAnswer, DataIn
<1> HIDE DEF answered
<1>4. Whole(RecordOf(ack)) /\ Departs(DataIn(RecordOf(ack)), f, v)
  BY EntityIsRow DEF Whole, Departs, DataIn, Disagrees, Live, RecordOf
<1>5. HasValue(MergeRow(RecordOf(ack), answered.row, RecordOf(remote)).row, f, v)
  BY <1>1, <1>2, <1>4, MergeKeeps
<1> QED
  BY <1>2, <1>3, <1>5

(* A row that is gone stays away when the answer to its deletion and what  *)
(* was received since are deletions too.                                   *)
LEMMA GoneStaysGone ==
  ASSUME NEW base, NEW ack, NEW remote, ~Live(remote),
         DataIn(base) = None => ~Live(ack)
  PROVE  /\ MergeRow(base, None, None).row = None
         /\ MergeAnswer(base, ack, None, remote).row = None
<1>1. \A b : MergeRow(b, None, None).row = None
  BY DEF MergeRow, Outcome
<1>2. RecordOf(remote) = None
  BY DEF RecordOf
<1> DEFINE answered == Acknowledge(DataIn(base), None, RecordOf(ack))
<1>3. answered.row = None
  BY DEF Acknowledge, Outcome, RecordOf
<1>4. \/ MergeAnswer(base, ack, None, remote) = answered
      \/ MergeAnswer(base, ack, None, remote) = MergeRow(RecordOf(ack), answered.row, None)
  BY <1>2 DEF MergeAnswer, DataIn
<1> HIDE DEF answered
<1> QED
  BY <1>1, <1>3, <1>4

-----------------------------------------------------------------------------
(* What a database remembers.                                              *)

(* A conflict that is to be retried knows the base of the merge and the    *)
(* answer to what was sent.  A row that the application deleted waits for  *)
(* nothing once its deletion has been received, and a deletion was         *)
(* answered by a deletion.                                                 *)
RetryOk(d, i, k) ==
  \/ k \in {None, Clash}
  \/ /\ k = Deferred(k.base, k.ack)
     /\ Whole(k.base)
     /\ k.base = None => k.ack = None \/ ~Live(k.ack)
     /\ LocallyDeleted(d, i) => Live(d.shadow[i])

Waits(d) == \A i \in Ids : RetryOk(d, i, d.conflict[i])

(* What the application last saw of the row, and what else the next merge  *)
(* of it looks at.                                                         *)
From(d, i) == IF Retryable(d, i) THEN DataIn(d.conflict[i].base) ELSE d.shadow[i].data

Awaited(d, i) == IF Retryable(d, i) THEN {d.conflict[i].ack, d.shadow[i]} \ {None} ELSE {}

(* The row has an edited value that nobody else has. *)
Holds(d, i, f, v) ==
  /\ HasValue(d.local[i], f, v)
  /\ Departs(From(d, i), f, v)
  /\ \A e \in Awaited(d, i) : Disagrees(e, f, v)

(* The row is gone: the application deleted it, or the server did. *)
Gone(d, i) ==
  /\ d.local[i] = None
  /\ i \in d.deleting \/ (d.shadow[i].rev > 0 /\ ~Live(d.shadow[i]))

(* The effect of an update on a row that it names, ...                     *)
RowUpdated(d, e, i, u) ==
  /\ e.shadow[i] = u.remote
  /\ e.local[i] \in {u.merged, d.local[i]}
  /\ e.conflict[i] \in {u.conflict, None, Clash, Deferred(u.base, u.ack)}
  /\ i \in e.deleting <=> i \in d.deleting /\ (Live(u.remote) \/ e.local[i] # None)

(* ... and on the others. *)
RowLeft(d, e, i) ==
  /\ e.shadow[i] = d.shadow[i]
  /\ e.local[i] = d.local[i]
  /\ \/ e.conflict[i] = d.conflict[i]
     \/ /\ d.conflict[i] = None /\ d.local[i] # None
        /\ e.conflict[i] \in {Clash, Deferred(ShadowRow(d, i), None)}
  /\ i \in e.deleting => i \in d.deleting
  /\ d.local[i] = None => (i \in e.deleting <=> i \in d.deleting)

LEMMA RowsUpdated ==
  ASSUME NEW d, Replica(d), NEW U, DOMAIN U \subseteq Ids, NEW i \in Ids
  PROVE  /\ i \in DOMAIN U => RowUpdated(d, ApplyUpdates(d, U), i, U[i])
         /\ i \notin DOMAIN U => RowLeft(d, ApplyUpdates(d, U), i)
<1> DEFINE P == Protected(d, U)
           W == Joined(P, U)
           target == [k \in Ids |-> IF k \in DOMAIN W THEN W[k].merged ELSE d.local[k]]
           visible == IF RefsPresent(target) THEN target ELSE d.local
           blocked(u) == IF u.ack # None \/ u.previous = u.base THEN Deferred(u.base, u.ack) ELSE Clash
           conflict(u) == IF u.conflict # None THEN u.conflict
                          ELSE IF RefsPresent(target) THEN None ELSE blocked(u)
           shadow == [k \in Ids |-> IF k \in DOMAIN U THEN U[k].remote ELSE d.shadow[k]]
           conflicts == [k \in Ids |-> IF k \in DOMAIN W THEN conflict(W[k]) ELSE d.conflict[k]]
           removed == {k \in DOMAIN W : ~Live(W[k].remote) /\ visible[k] = None}
           e == ApplyUpdates(d, U)
           gone == {k \in DOMAIN U : U[k].merged = None}
           kept == {k \in Children \ DOMAIN U : RefOf(d.local[k]) \in gone /\ OnDelete[k] # "restrict"}
<1>1. DOMAIN W = DOMAIN P \cup DOMAIN U
      /\ \A k \in DOMAIN W : W[k] = IF k \in DOMAIN P THEN P[k] ELSE U[k]
  BY DEF Joined
<1>2. /\ DOMAIN P = kept
      /\ \A k \in kept : /\ P[k].merged = d.local[k]
                         /\ P[k].base = ShadowRow(d, k) /\ P[k].ack = None
                         /\ P[k].conflict = IF d.conflict[k] = None THEN KeptConflict(d, k)
                                            ELSE d.conflict[k]
  BY DEF Protected
<1>3. /\ e.local = visible /\ e.shadow = shadow /\ e.conflict = conflicts
      /\ e.deleting = d.deleting \ removed
  BY DEF ApplyUpdates, Replica, IsDatabase
<1>4. /\ target[i] = IF i \in DOMAIN W THEN W[i].merged ELSE d.local[i]
      /\ visible[i] \in {target[i], d.local[i]}
      /\ shadow[i] = IF i \in DOMAIN U THEN U[i].remote ELSE d.shadow[i]
      /\ conflicts[i] = IF i \in DOMAIN W THEN conflict(W[i]) ELSE d.conflict[i]
      /\ i \in removed <=> i \in DOMAIN W /\ ~Live(W[i].remote) /\ visible[i] = None
  OBVIOUS
<1>5. \A u : conflict(u) \in {u.conflict, None, Clash, Deferred(u.base, u.ack)}
  OBVIOUS
<1>6. \A u : u.conflict # None => conflict(u) = u.conflict
  OBVIOUS
<1> HIDE DEF P, W, target, visible, conflict, blocked, shadow, conflicts, removed, e
<1>7. CASE i \in DOMAIN U
  <2>1. i \in DOMAIN W /\ W[i] = U[i]
    BY <1>1, <1>2, <1>7
  <2> QED
    BY <1>3, <1>4, <1>5, <1>7, <2>1 DEF RowUpdated, e
<1>8. CASE i \in kept
  <2>1. i \in DOMAIN W /\ W[i] = P[i] /\ i \notin DOMAIN U
    BY <1>1, <1>2, <1>8
  <2>2. d.local[i] # None
    BY <1>8, DataAssumption DEF RefOf, Ids
  <2>3. visible[i] = d.local[i] /\ i \notin removed
    BY <1>2, <1>4, <1>8, <2>1, <2>2
  <2>4. \/ conflicts[i] = d.conflict[i]
        \/ d.conflict[i] = None /\ conflicts[i] \in {Clash, Deferred(ShadowRow(d, i), None)}
    <3>1. CASE d.conflict[i] # None
      BY <1>2, <1>4, <1>6, <1>8, <2>1, <3>1
    <3>2. CASE d.conflict[i] = None
      <4>1. W[i].conflict \in {Clash, Deferred(ShadowRow(d, i), None)}
        BY <1>2, <1>8, <2>1, <3>2 DEF KeptConflict
      <4>2. CASE W[i].conflict # None
        BY <1>4, <1>6, <2>1, <3>2, <4>1, <4>2
      <4>3. CASE W[i].conflict = None
        BY <1>2, <1>4, <1>5, <1>8, <2>1, <3>2, <4>3
      <4> QED
        BY <4>2, <4>3
    <3> QED
      BY <3>1, <3>2
  <2> QED
    BY <1>3, <1>4, <2>1, <2>2, <2>3, <2>4 DEF RowLeft, e
<1>9. CASE i \notin DOMAIN U /\ i \notin kept
  <2>1. i \notin DOMAIN W /\ i \notin removed
    BY <1>1, <1>2, <1>4, <1>9
  <2>2. visible[i] = d.local[i]
    BY <1>4, <2>1
  <2> QED
    BY <1>3, <1>4, <1>9, <2>1, <2>2 DEF RowLeft, e
<1> QED
  BY <1>7, <1>8, <1>9

(* What an update must say for its row to wait for the right thing. *)
Rightly(u) ==
  /\ u.conflict \in {None, Clash}
  /\ Whole(u.base)
  /\ u.base = None => u.ack = None \/ ~Live(u.ack)

LEMMA DeferredForms ==
  ASSUME NEW base, NEW ack
  PROVE  /\ Deferred(base, ack) = Deferred(Deferred(base, ack).base, Deferred(base, ack).ack)
         /\ Deferred(base, ack).base = base /\ Deferred(base, ack).ack = ack
         /\ Clash.ack = None /\ Clash.retryable = FALSE
BY DEF Deferred, Clash

LEMMA ShadowRowForms ==
  ASSUME NEW d, Replica(d), NEW i \in Ids
  PROVE  /\ ShadowRow(d, i) \in RowOf(i) /\ Whole(ShadowRow(d, i))
         /\ DataIn(ShadowRow(d, i)) = d.shadow[i].data
         /\ ShadowRow(d, i) = None <=> ~Live(d.shadow[i])
         /\ d.shadow[i] \in EntityOf(i) /\ d.shadow[i].rev \in Nat
         /\ d.local[i] \in RowOf(i)
<1>1. d.shadow[i] \in EntityOf(i) /\ d.local[i] \in RowOf(i)
  BY DEF Replica, Fit
<1> QED
  BY <1>1, EntityIsRow DEF ShadowRow, Whole, DataIn, Live, RecordOf

LEMMA DeferredWaits ==
  ASSUME NEW d, NEW i, NEW base, NEW ack, Whole(base),
         base = None => ack = None \/ ~Live(ack),
         LocallyDeleted(d, i) => Live(d.shadow[i])
  PROVE  RetryOk(d, i, Deferred(base, ack))
<1>1. PICK k : k = Deferred(base, ack)
  OBVIOUS
<1>2. k.base = base /\ k.ack = ack
  BY <1>1, DeferredForms
<1>3. k = Deferred(k.base, k.ack)
  BY <1>1, <1>2
<1>4. RetryOk(d, i, k)
  BY <1>2, <1>3 DEF RetryOk
<1> QED
  BY <1>1, <1>4

LEMMA UpdatesWait ==
  ASSUME NEW d, Replica(d), Waits(d), NEW U, DOMAIN U \subseteq Ids,
         \A i \in DOMAIN U : Rightly(U[i])
  PROVE  Waits(ApplyUpdates(d, U))
<1> SUFFICES ASSUME NEW e, e = ApplyUpdates(d, U), NEW i \in Ids
             PROVE  RetryOk(e, i, e.conflict[i])
  BY DEF Waits
<1>1. CASE i \in DOMAIN U
  <2>1. PICK u : u = U[i]
    OBVIOUS
  <2>2. RowUpdated(d, e, i, u) /\ Rightly(u)
    BY <1>1, <2>1, RowsUpdated
  <2>3. LocallyDeleted(e, i) => Live(e.shadow[i])
    BY <2>2 DEF RowUpdated, LocallyDeleted
  <2>4. RetryOk(e, i, Deferred(u.base, u.ack))
    BY <2>2, <2>3, DeferredWaits DEF Rightly
  <2>5. e.conflict[i] \in {None, Clash, Deferred(u.base, u.ack)}
    BY <2>2 DEF RowUpdated, Rightly
  <2> QED
    BY <2>4, <2>5 DEF RetryOk
<1>2. CASE i \notin DOMAIN U
  <2>1. RowLeft(d, e, i)
    BY <1>2, RowsUpdated
  <2>2. CASE e.conflict[i] = d.conflict[i]
    <3>1. RetryOk(d, i, d.conflict[i])
      BY DEF Waits
    <3>2. LocallyDeleted(e, i) => LocallyDeleted(d, i)
      BY <2>1 DEF RowLeft, LocallyDeleted
    <3> QED
      BY <2>1, <2>2, <3>1, <3>2 DEF RowLeft, RetryOk
  <2>3. CASE d.local[i] # None /\ e.conflict[i] \in {Clash, Deferred(ShadowRow(d, i), None)}
    <3>1. ~LocallyDeleted(e, i)
      BY <2>1, <2>3 DEF RowLeft, LocallyDeleted
    <3>2. RetryOk(e, i, Deferred(ShadowRow(d, i), None))
      BY <3>1, DeferredWaits, ShadowRowForms
    <3> QED
      BY <2>3, <3>2 DEF RetryOk
  <2> QED
    BY <2>1, <2>2, <2>3 DEF RowLeft
<1> QED
  BY <1>1, <1>2

-----------------------------------------------------------------------------
(* One group.                                                              *)

LEMMA SettledRow ==
  ASSUME NEW d, NEW i, d.conflict[i] = None \/ d.conflict[i] = Clash
  PROVE  ~Retryable(d, i)
<1>1. CASE d.conflict[i] = None
  BY <1>1 DEF Retryable
<1>2. CASE d.conflict[i] = Clash
  BY <1>2, DeferredForms, Zenon DEF Retryable
<1> QED
  BY <1>1, <1>2

LEMMA WaitingForms ==
  ASSUME NEW d, Waits(d), NEW i \in Ids
  PROVE  /\ Retryable(d, i) => /\ d.conflict[i] = Deferred(d.conflict[i].base, d.conflict[i].ack)
                               /\ Whole(d.conflict[i].base)
                               /\ d.conflict[i].base = None =>
                                    d.conflict[i].ack = None \/ ~Live(d.conflict[i].ack)
                               /\ LocallyDeleted(d, i) => Live(d.shadow[i])
         /\ ~Retryable(d, i) => d.conflict[i] = None \/ d.conflict[i].ack = None
<1>1. RetryOk(d, i, d.conflict[i])
  BY DEF Waits
<1>2. \A base, ack : Deferred(base, ack).retryable = TRUE
  BY DEF Deferred
<1>3. Clash.ack = None /\ Clash.retryable = FALSE
  BY DEF Clash
<1> QED
  BY <1>1, <1>2, <1>3 DEF RetryOk, Retryable

(* The base and the answer that a received entity is merged with. *)
AckOf(d, i) == IF d.conflict[i] = None THEN None ELSE d.conflict[i].ack

LEMMA ReconciledForms ==
  ASSUME NEW d, Replica(d), Waits(d), NEW i \in Ids, NEW remote \in EntityOf(i)
  PROVE  LET base == ReceiveBase(d, i)
             u == Reconciled(d, i, base, remote)
         IN /\ Rightly(u)
            /\ u.remote = remote /\ u.base = base /\ u.ack = AckOf(d, i)
            /\ AckOf(d, i) \in EntityOf(i) \cup {None}
            /\ u.merged = IF LocallyDeleted(d, i) THEN None
                          ELSE IF AckOf(d, i) # None
                          THEN MergeAnswer(base, AckOf(d, i), d.local[i], remote).row
                          ELSE MergeRow(base, d.local[i], RecordOf(remote)).row
<1>1. PICK base : base = ReceiveBase(d, i)
  OBVIOUS
<1>2. PICK u : u = Reconciled(d, i, base, remote)
  OBVIOUS
<1>3. /\ u.conflict \in {None, Clash}
      /\ u.remote = remote /\ u.base = base /\ u.ack = AckOf(d, i)
      /\ u.merged = IF LocallyDeleted(d, i) THEN None
                    ELSE IF AckOf(d, i) # None
                    THEN MergeAnswer(base, AckOf(d, i), d.local[i], remote).row
                    ELSE MergeRow(base, d.local[i], RecordOf(remote)).row
  BY <1>2 DEF Reconciled, AckOf, MergeDeleted, Outcome
<1>4. Whole(base) /\ (base = None => AckOf(d, i) = None \/ ~Live(AckOf(d, i)))
  <2>1. CASE Retryable(d, i) /\ ~LocallyDeleted(d, i)
    BY <1>1, <2>1, WaitingForms DEF ReceiveBase, AckOf
  <2>2. CASE Retryable(d, i) /\ LocallyDeleted(d, i)
    BY <1>1, <2>2, WaitingForms, ShadowRowForms DEF ReceiveBase
  <2>3. CASE ~Retryable(d, i)
    BY <1>1, <2>3, WaitingForms, ShadowRowForms DEF ReceiveBase, AckOf
  <2> QED
    BY <2>1, <2>2, <2>3
<1>5. AckOf(d, i) \in EntityOf(i) \cup {None}
  BY DEF AckOf, Replica, Fit, IsConflict
<1> QED
  BY <1>1, <1>2, <1>3, <1>4, <1>5 DEF Rightly

LEMMA ReconcileForms ==
  ASSUME NEW d, Replica(d), Waits(d), NEW g, EntityGroup(g)
  PROVE  LET U == Reconcile(d, g)
         IN /\ DOMAIN U \subseteq Ids
            /\ DOMAIN U = {i \in DOMAIN g : \/ g[i].rev > d.shadow[i].rev
                                            \/ g[i].rev = d.shadow[i].rev /\ Retryable(d, i)}
            /\ \A i \in DOMAIN U : U[i] = Reconciled(d, i, ReceiveBase(d, i), g[i]) /\ Rightly(U[i])
<1> DEFINE U == Reconcile(d, g)
<1>1. /\ DOMAIN U = {i \in DOMAIN g : \/ g[i].rev > d.shadow[i].rev
                                      \/ g[i].rev = d.shadow[i].rev /\ Retryable(d, i)}
      /\ \A i \in DOMAIN U : U[i] = Reconciled(d, i, ReceiveBase(d, i), g[i])
  BY DEF Reconcile
<1> HIDE DEF U
<1>2. \A i \in DOMAIN U : i \in Ids /\ g[i] \in EntityOf(i)
  BY <1>1 DEF EntityGroup
<1>3. \A i \in DOMAIN U : Rightly(U[i])
  BY <1>1, <1>2, ReconciledForms
<1> QED
  BY <1>1, <1>2, <1>3 DEF U

LEMMA GroupWaits ==
  ASSUME NEW d, Replica(d), Waits(d), NEW g, EntityGroup(g)
  PROVE  Waits(ApplyGroup(d, g))
<1> DEFINE U == Reconcile(d, g)
<1>1. DOMAIN U \subseteq Ids /\ \A i \in DOMAIN U : Rightly(U[i])
  BY ReconcileForms
<1> HIDE DEF U
<1>2. Waits(ApplyUpdates(d, U))
  BY <1>1, UpdatesWait
<1> QED
  BY <1>2 DEF ApplyGroup, U

(* The revisions of one entity: no two alike, and nothing after a          *)
(* tombstone.                                                              *)
Story(H) ==
  \A x, y \in H :
    /\ x.rev = y.rev => x = y
    /\ x.rev > 0 /\ x.rev <= y.rev /\ ~Live(x) => ~Live(y)

(* No revision after low, up to high, had the value. *)
Nobody(H, low, high, f, v) ==
  \A x \in H : x.rev \in (low + 1)..high => Disagrees(x, f, v)

(* What an update of a received entity does to a row with an edit. *)
LEMMA ReceivedKeeps ==
  ASSUME NEW d, Replica(d), Waits(d), NEW i \in Ids, NEW remote \in EntityOf(i), NEW e, NEW u,
         u = Reconciled(d, i, ReceiveBase(d, i), remote), RowUpdated(d, e, i, u),
         NEW f \in Fields, NEW v, Holds(d, i, f, v), Disagrees(remote, f, v)
  PROVE  Holds(e, i, f, v)
<1> DEFINE base == ReceiveBase(d, i)
           ack == AckOf(d, i)
           local == d.local[i]
<1>1. HasValue(local, f, v) /\ Departs(From(d, i), f, v) /\ ~LocallyDeleted(d, i)
      /\ local \in RowOf(i) /\ RecordOf(remote) \in RowOf(i)
  BY ShadowRowForms, EntityIsRow DEF Holds, HasValue, LocallyDeleted
<1>2. /\ Rightly(u) /\ u.remote = remote /\ u.base = base /\ u.ack = ack
      /\ ack \in EntityOf(i) \cup {None}
      /\ u.merged = IF ack # None THEN MergeAnswer(base, ack, local, remote).row
                    ELSE MergeRow(base, local, RecordOf(remote)).row
  BY <1>1, ReconciledForms
<1>3. DataIn(base) = From(d, i)
  BY <1>1, ShadowRowForms DEF ReceiveBase, From
<1>4. ack # None => Disagrees(ack, f, v)
  BY WaitingForms DEF AckOf, Holds, Awaited
<1> HIDE DEF base, ack, local
<1>5. HasValue(u.merged, f, v)
  <2>1. CASE ack # None
    BY <1>1, <1>2, <1>3, <1>4, <2>1, MergeAnswerKeeps
  <2>2. CASE ack = None
    BY <1>1, <1>2, <1>3, <2>2, MergeKeeps DEF Rightly
  <2> QED
    BY <2>1, <2>2
<1>6. HasValue(e.local[i], f, v)
  BY <1>1, <1>5 DEF RowUpdated, local
<1>7. e.shadow[i] = remote
  BY <1>2 DEF RowUpdated
<1>8. CASE ~Retryable(e, i)
  BY <1>6, <1>7, <1>8 DEF Holds, From, Awaited, Departs, Disagrees, Live
<1>9. CASE Retryable(e, i)
  <2>1. e.conflict[i] = Deferred(base, ack)
    BY <1>2, <1>9, SettledRow DEF RowUpdated, Rightly
  <2>2. e.conflict[i].base = base /\ e.conflict[i].ack = ack
    BY <2>1 DEF Deferred
  <2> QED
    BY <1>1, <1>3, <1>4, <1>6, <1>7, <1>9, <2>2 DEF Holds, From, Awaited
<1> QED
  BY <1>8, <1>9

(* ... and to a row that is gone. *)
LEMMA ReceivedStaysGone ==
  ASSUME NEW d, Replica(d), Waits(d), NEW i \in Ids, NEW remote \in EntityOf(i), NEW e, NEW u,
         u = Reconciled(d, i, ReceiveBase(d, i), remote), RowUpdated(d, e, i, u),
         Gone(d, i), remote.rev > 0 \/ Live(remote),
         d.shadow[i].rev > 0 /\ ~Live(d.shadow[i]) => ~Live(remote)
  PROVE  Gone(e, i)
<1> DEFINE base == ReceiveBase(d, i)
           ack == AckOf(d, i)
<1>1. /\ Rightly(u) /\ u.remote = remote /\ u.base = base /\ u.ack = ack
      /\ ack \in EntityOf(i) \cup {None}
      /\ u.merged = IF LocallyDeleted(d, i) THEN None
                    ELSE IF ack # None THEN MergeAnswer(base, ack, d.local[i], remote).row
                    ELSE MergeRow(base, d.local[i], RecordOf(remote)).row
  BY ReconciledForms
<1>2. d.local[i] = None
  BY DEF Gone
<1>3. u.merged = None
  <2>1. CASE LocallyDeleted(d, i)
    BY <1>1, <2>1
  <2>2. CASE ~LocallyDeleted(d, i)
    <3>1. ~Live(remote) /\ RecordOf(remote) = None
      BY <2>2, <1>2 DEF Gone, LocallyDeleted, RecordOf
    <3>2. ack # None /\ DataIn(base) = None => ~Live(ack)
      BY <1>1 DEF Rightly, Whole, DataIn
    <3> HIDE DEF base, ack
    <3>3. MergeRow(base, None, None).row = None
      BY DEF MergeRow, Outcome
    <3>4. ack # None => MergeAnswer(base, ack, None, remote).row = None
      BY <3>1, <3>2, GoneStaysGone
    <3> QED
      BY <1>1, <1>2, <2>2, <3>1, <3>3, <3>4
  <2> QED
    BY <2>1, <2>2
<1>4. e.local[i] = None /\ e.shadow[i] = remote
  BY <1>1, <1>2, <1>3 DEF RowUpdated
<1>5. i \in e.deleting \/ (remote.rev > 0 /\ ~Live(remote))
  <2>1. CASE Live(remote)
    BY <1>1, <2>1 DEF Gone, RowUpdated
  <2> QED
    BY <2>1
<1> QED
  BY <1>4, <1>5 DEF Gone

(* A row that no update names waits for what it is. *)
LEMMA LeftKeeps ==
  ASSUME NEW d, Replica(d), NEW i \in Ids, NEW e, RowLeft(d, e, i)
  PROVE  /\ Gone(d, i) => Gone(e, i)
         /\ \A f \in Fields : \A v : Holds(d, i, f, v) => Holds(e, i, f, v)
<1>1. Gone(d, i) => Gone(e, i)
  BY DEF Gone, RowLeft
<1>2. ASSUME NEW f \in Fields, NEW v, Holds(d, i, f, v)
      PROVE  Holds(e, i, f, v)
  <2>1. CASE e.conflict[i] = d.conflict[i]
    BY <1>2, <2>1 DEF Holds, From, Awaited, Retryable, RowLeft
  <2>2. CASE d.conflict[i] = None /\ e.conflict[i] \in {Clash, Deferred(ShadowRow(d, i), None)}
    <3>1. From(d, i) = d.shadow[i].data
      BY <2>2 DEF From, Retryable
    <3>2. Departs(d.shadow[i].data, f, v) /\ Disagrees(d.shadow[i], f, v)
      BY <1>2, <3>1 DEF Holds, Departs, Disagrees, Live
    <3>3. Retryable(e, i) => e.conflict[i] = Deferred(ShadowRow(d, i), None)
      BY <2>2, SettledRow
    <3>4. From(e, i) = d.shadow[i].data
      BY <3>3, ShadowRowForms DEF Deferred, From, RowLeft
    <3>5. Awaited(e, i) \subseteq {d.shadow[i]}
      BY <3>3 DEF Deferred, Awaited, RowLeft
    <3> QED
      BY <1>2, <3>2, <3>4, <3>5 DEF Holds, RowLeft
  <2> QED
    BY <2>1, <2>2 DEF RowLeft
<1> QED
  BY <1>1, <1>2

(* The shadow is in the story of its entity, and so is what a group says   *)
(* of it.                                                                  *)
InStory(d, g, i, H) ==
  /\ Story(H)
  /\ d.shadow[i] \in H
  /\ i \in DOMAIN g => g[i] \in H

LEMMA GroupKeeps ==
  ASSUME NEW d, Replica(d), Waits(d), NEW g, EntityGroup(g), NEW i \in Ids, NEW H, InStory(d, g, i, H)
  PROVE  LET e == ApplyGroup(d, g)
         IN /\ e.shadow[i] \in H
            /\ Gone(d, i) => Gone(e, i)
            /\ \A f \in Fields : \A v :
                 Holds(d, i, f, v) /\ Nobody(H, d.shadow[i].rev, e.shadow[i].rev, f, v)
                   => Holds(e, i, f, v)
<1> DEFINE U == Reconcile(d, g)
<1>1. PICK e : e = ApplyGroup(d, g)
  OBVIOUS
<1>2. /\ DOMAIN U \subseteq Ids
      /\ DOMAIN U = {k \in DOMAIN g : \/ g[k].rev > d.shadow[k].rev
                                      \/ g[k].rev = d.shadow[k].rev /\ Retryable(d, k)}
      /\ \A k \in DOMAIN U : U[k] = Reconciled(d, k, ReceiveBase(d, k), g[k])
  BY ReconcileForms
<1>3. e = ApplyUpdates(d, U)
  BY <1>1 DEF ApplyGroup
<1> HIDE DEF U
<1>4. CASE i \notin DOMAIN U
  <2>1. RowLeft(d, e, i)
    BY <1>2, <1>3, <1>4, RowsUpdated
  <2>2. e.shadow[i] \in H
    BY <2>1 DEF RowLeft, InStory
  <2> QED
    BY <1>1, <2>1, <2>2, LeftKeeps
<1>5. CASE i \in DOMAIN U
  <2>1. PICK remote : remote = g[i] /\ remote \in EntityOf(i) /\ i \in DOMAIN g
    BY <1>2, <1>5 DEF EntityGroup
  <2>2. PICK u : u = Reconciled(d, i, ReceiveBase(d, i), remote) /\ u = U[i]
    BY <1>2, <1>5, <2>1
  <2>3. RowUpdated(d, e, i, u) /\ u.remote = remote
    BY <1>2, <1>3, <1>5, <2>1, <2>2, RowsUpdated, ReconciledForms
  <2>4. e.shadow[i] = remote /\ remote \in H /\ d.shadow[i] \in H /\ Story(H)
    BY <2>1, <2>3 DEF RowUpdated, InStory
  <2>5. /\ remote.rev \in Nat /\ d.shadow[i].rev \in Nat
        /\ remote.rev > d.shadow[i].rev \/ (remote.rev = d.shadow[i].rev /\ Retryable(d, i))
    BY <1>2, <1>5, <2>1, EntityIsRow, ShadowRowForms
  <2>6. Gone(d, i) => Gone(e, i)
    <3> SUFFICES ASSUME Gone(d, i)
                 PROVE  Gone(e, i)
      OBVIOUS
    <3>1. d.shadow[i].rev <= remote.rev
      BY <2>5
    <3>2. d.shadow[i].rev > 0 /\ ~Live(d.shadow[i]) => ~Live(remote)
      BY <2>4, <3>1 DEF Story
    <3>3. remote.rev > 0 \/ Live(remote)
      <4>1. CASE remote.rev > d.shadow[i].rev
        BY <2>5, <4>1
      <4>2. CASE remote.rev = d.shadow[i].rev /\ Retryable(d, i)
        <5>1. remote = d.shadow[i]
          BY <2>4, <4>2 DEF Story
        <5>2. LocallyDeleted(d, i) => Live(d.shadow[i])
          BY <4>2, SettledRow DEF Waits, RetryOk
        <5>3. LocallyDeleted(d, i) \/ d.shadow[i].rev > 0
          BY DEF Gone, LocallyDeleted
        <5> QED
          BY <5>1, <5>2, <5>3
      <4> QED
        BY <2>5, <4>1, <4>2
    <3> QED
      BY <2>1, <2>2, <2>3, <3>2, <3>3, ReceivedStaysGone
  <2>7. ASSUME NEW f \in Fields, NEW v, Holds(d, i, f, v),
               Nobody(H, d.shadow[i].rev, e.shadow[i].rev, f, v)
        PROVE  Holds(e, i, f, v)
    <3>1. Disagrees(remote, f, v)
      <4>1. CASE remote.rev > d.shadow[i].rev
        <5>1. remote.rev \in (d.shadow[i].rev + 1)..e.shadow[i].rev
          BY <2>4, <2>5, <4>1
        <5> QED
          BY <2>4, <2>7, <5>1 DEF Nobody
      <4>2. CASE remote.rev = d.shadow[i].rev /\ Retryable(d, i)
        <5>1. remote = d.shadow[i]
          BY <2>4, <4>2 DEF Story
        <5>2. remote = None \/ remote \in Awaited(d, i)
          BY <4>2, <5>1 DEF Awaited
        <5>3. CASE remote # None
          BY <2>7, <5>2, <5>3 DEF Holds
        <5>4. CASE remote = None
          BY <2>1, <5>4, EntityIsRow DEF Disagrees, Live
        <5> QED
          BY <5>3, <5>4
      <4> QED
        BY <2>5, <4>1, <4>2
    <3> QED
      BY <2>1, <2>2, <2>3, <2>7, <3>1, ReceivedKeeps
  <2> QED
    BY <1>1, <2>4, <2>6, <2>7
<1> QED
  BY <1>4, <1>5

-----------------------------------------------------------------------------
(* A page: one group after the other, and a retry of what still waits.     *)

(* What the steps from d to e have kept of row i. *)
Kept(d, e, i, H) ==
  /\ Replica(e) /\ Waits(e)
  /\ e.shadow[i] \in H /\ e.shadow[i].rev \in Nat /\ e.shadow[i].rev >= d.shadow[i].rev
  /\ Gone(d, i) => Gone(e, i)
  /\ \A f \in Fields : \A v :
       Holds(d, i, f, v) /\ Nobody(H, d.shadow[i].rev, e.shadow[i].rev, f, v) => Holds(e, i, f, v)

LEMMA KeptFurther ==
  ASSUME NEW d, Replica(d), NEW i \in Ids, NEW H, Story(H), NEW a, Kept(d, a, i, H),
         NEW g, EntityGroup(g), i \in DOMAIN g => g[i] \in H
  PROVE  Kept(d, ApplyGroup(a, g), i, H)
<1>1. PICK e : e = ApplyGroup(a, g)
  OBVIOUS
<1>2. /\ Replica(a) /\ Waits(a) /\ InStory(a, g, i, H)
      /\ a.shadow[i].rev \in Nat /\ d.shadow[i].rev \in Nat /\ a.shadow[i].rev >= d.shadow[i].rev
  BY ShadowRowForms DEF Kept, InStory
<1>3. Replica(e) /\ Waits(e) /\ e.shadow[i].rev >= a.shadow[i].rev /\ e.shadow[i].rev \in Nat
  BY <1>1, <1>2, GroupApplied, GroupWaits, ShadowRowForms
<1>4. /\ e.shadow[i] \in H
      /\ Gone(a, i) => Gone(e, i)
      /\ \A f \in Fields : \A v :
           Holds(a, i, f, v) /\ Nobody(H, a.shadow[i].rev, e.shadow[i].rev, f, v)
             => Holds(e, i, f, v)
  BY <1>1, <1>2, GroupKeeps
<1>5. ASSUME NEW f \in Fields, NEW v, Holds(d, i, f, v),
             Nobody(H, d.shadow[i].rev, e.shadow[i].rev, f, v)
      PROVE  Holds(e, i, f, v)
  <2>1. /\ (d.shadow[i].rev + 1)..a.shadow[i].rev \subseteq (d.shadow[i].rev + 1)..e.shadow[i].rev
        /\ (a.shadow[i].rev + 1)..e.shadow[i].rev \subseteq (d.shadow[i].rev + 1)..e.shadow[i].rev
    BY <1>2, <1>3
  <2>2. /\ Nobody(H, d.shadow[i].rev, a.shadow[i].rev, f, v)
        /\ Nobody(H, a.shadow[i].rev, e.shadow[i].rev, f, v)
    BY <1>5, <2>1 DEF Nobody
  <2>3. Holds(a, i, f, v)
    BY <1>5, <2>2 DEF Kept
  <2> QED
    BY <1>4, <2>2, <2>3
<1>6. Gone(d, i) => Gone(e, i)
  BY <1>4 DEF Kept
<1>7. Kept(d, e, i, H)
  BY <1>2, <1>3, <1>4, <1>5, <1>6 DEF Kept
<1> QED
  BY <1>1, <1>7

LEMMA RetryKeeps ==
  ASSUME NEW d, Replica(d), NEW i \in Ids, NEW H, Story(H), NEW a, Kept(d, a, i, H)
  PROVE  Kept(d, RetryBlocked(a), i, H)
<1> DEFINE blocked == {k \in Ids : Retryable(a, k)}
           g == [k \in blocked |-> a.shadow[k]]
<1>1. CASE blocked = {}
  BY <1>1 DEF RetryBlocked
<1>2. CASE blocked # {}
  <2>1. RetryBlocked(a) = ApplyGroup(a, g)
    BY <1>2 DEF RetryBlocked
  <2>2. Replica(a) /\ a.shadow[i] \in H
    BY DEF Kept
  <2>3. DOMAIN g \subseteq Ids /\ \A k \in DOMAIN g : g[k] = a.shadow[k] /\ g[k] \in EntityOf(k)
    BY <2>2 DEF Replica, Fit
  <2> HIDE DEF g
  <2>4. EntityGroup(g) /\ (i \in DOMAIN g => g[i] \in H)
    BY <2>2, <2>3 DEF EntityGroup
  <2> QED
    BY <2>1, <2>4, KeptFurther
<1> QED
  BY <1>1, <1>2

LEMMA PageKeeps ==
  ASSUME NEW d, Replica(d), Waits(d), NEW groups, NEW L \in Nat, DOMAIN groups = 1..L,
         \A n \in 1..L : EntityGroup(groups[n]),
         NEW i \in Ids, NEW H, Story(H), d.shadow[i] \in H,
         \A n \in 1..L : i \in DOMAIN groups[n] => groups[n][i] \in H
  PROVE  Kept(d, Applied(d, groups), i, H)
<1>1. PICK after : Stages(after, d, groups, L)
  BY FoldGroups
<1>2. /\ after[0] = d
      /\ \A n \in 0..L - 1 : after[n + 1] = ApplyGroup(after[n], groups[n + 1])
      /\ InOrder(d, groups) = after[L]
  BY <1>1 DEF Stages
<1> DEFINE S == {m \in Nat : m <= L => Kept(d, after[m], i, H)}
<1>3. 0 \in S
  <2>1. d.shadow[i].rev \in Nat
    BY ShadowRowForms
  <2>2. Kept(d, d, i, H)
    BY <2>1 DEF Kept
  <2> QED
    BY <1>2, <2>2
<1>4. ASSUME NEW m \in Nat, m \in S
      PROVE  m + 1 \in S
  <2> SUFFICES ASSUME m + 1 <= L
               PROVE  Kept(d, after[m + 1], i, H)
    OBVIOUS
  <2>1. Kept(d, after[m], i, H) /\ after[m + 1] = ApplyGroup(after[m], groups[m + 1])
    BY <1>2, <1>4
  <2>2. m + 1 \in 1..L
    OBVIOUS
  <2>3. EntityGroup(groups[m + 1]) /\ (i \in DOMAIN groups[m + 1] => groups[m + 1][i] \in H)
    BY <2>2
  <2> QED
    BY <2>1, <2>3, KeptFurther
<1>5. Kept(d, after[L], i, H)
  <2>1. L \in S
    <3> HIDE DEF S
    <3> QED
      BY <1>3, <1>4, Induction
  <2> QED
    BY <2>1
<1>6. Applied(d, groups) = RetryBlocked(after[L])
  <2>1. Applied(d, groups) = RetryBlocked(InOrder(d, groups))
    BY DEF Applied, InOrder
  <2> QED
    BY <1>2, <2>1
<1> QED
  BY <1>5, <1>6, RetryKeeps

-----------------------------------------------------------------------------
(* The history of an entity, and the end of it.                            *)

HistoryOf(i) == {Absent} \cup {journal[n][i] : n \in GroupsOf(i)}

(* Nothing is committed of an entity after its tombstone.                  *)
Graves ==
  \A i \in Ids : \A n, m \in GroupsOf(i) :
    n <= m /\ ~Live(journal[n][i]) => ~Live(journal[m][i])

LEMMA InHistory ==
  ASSUME NEW i, NEW e
  PROVE  e \in HistoryOf(i) <=> Historical(i, e)
BY DEF HistoryOf, Historical

(* The groups of an entity are numbered by its revisions. *)
Numbered == \A i \in Ids : \A n \in GroupsOf(i) : journal[n][i].rev = Cardinality(Until(i, n))

LEMMA HistoryNumbers ==
  ASSUME History
  PROVE  Numbered
BY DEF History, Numbered

LEMMA RevsOrdered ==
  ASSUME Typed, Numbered, NEW i \in Ids, NEW n \in GroupsOf(i)
  PROVE  /\ journal[n][i].rev \in Nat /\ journal[n][i].rev > 0
         /\ \A m \in GroupsOf(i) : n < m => journal[n][i].rev < journal[m][i].rev
<1>1. /\ IsFiniteSet(GroupsOf(i)) /\ GroupsOf(i) \subseteq 1..Len(journal) /\ Len(journal) \in Nat
  BY GroupsFinite
<1>2. \A k \in GroupsOf(i) : /\ journal[k][i].rev = Cardinality(Until(i, k))
                             /\ IsFiniteSet(Until(i, k)) /\ Cardinality(Until(i, k)) \in Nat
  <2>1. \A k : Until(i, k) \in SUBSET GroupsOf(i)
    BY DEF Until
  <2> QED
    BY <1>1, <2>1, FS_Subset, FS_CardinalityType DEF Numbered
<1>3. Cardinality(Until(i, n)) > 0
  <2>1. n \in Until(i, n)
    BY <1>1 DEF Until
  <2>2. Cardinality(Until(i, n)) # 0
    BY <1>2, <2>1, FS_EmptySet
  <2> QED
    BY <1>2, <2>2
<1>4. ASSUME NEW m \in GroupsOf(i), n < m
      PROVE  Cardinality(Until(i, n)) < Cardinality(Until(i, m))
  <2>1. n \in Nat /\ m \in Nat /\ n < m /\ \A k \in GroupsOf(i) : k \in Nat
    BY <1>1, <1>4
  <2>2. Until(i, n) \in SUBSET Until(i, m)
    <3>1. \A k \in GroupsOf(i) : k <= n => k <= m
      BY <2>1
    <3> QED
      BY <3>1 DEF Until
  <2>4. m \in Until(i, m) /\ m \notin Until(i, n)
    <3>1. m <= m /\ ~(m <= n)
      BY <2>1
    <3> QED
      BY <3>1 DEF Until
  <2>3. /\ Cardinality(Until(i, n)) <= Cardinality(Until(i, m))
        /\ Cardinality(Until(i, n)) # Cardinality(Until(i, m))
    BY <1>2, <2>2, <2>4, FS_Subset
  <2> QED
    BY <1>2, <2>3
<1> QED
  BY <1>2, <1>3, <1>4

LEMMA HistoryIsStory ==
  ASSUME Typed, Numbered, Graves, NEW i \in Ids
  PROVE  Story(HistoryOf(i))
<1> SUFFICES ASSUME NEW x \in HistoryOf(i), NEW y \in HistoryOf(i)
             PROVE  /\ x.rev = y.rev => x = y
                    /\ x.rev > 0 /\ x.rev <= y.rev /\ ~Live(x) => ~Live(y)
  BY DEF Story
<1>1. Absent.rev = 0 /\ ~(0 > 0)
  BY DEF Absent
<1>2. \A n \in GroupsOf(i) : n \in Nat /\ journal[n][i].rev \in Nat /\ journal[n][i].rev > 0
  BY GroupsFinite, RevsOrdered
<1>3. CASE x = Absent
  BY <1>1, <1>2, <1>3 DEF HistoryOf
<1>4. CASE y = Absent
  BY <1>1, <1>2, <1>4 DEF HistoryOf
<1>5. CASE x # Absent /\ y # Absent
  <2>1. PICK n \in GroupsOf(i) : x = journal[n][i]
    BY <1>5 DEF HistoryOf
  <2>2. PICK m \in GroupsOf(i) : y = journal[m][i]
    BY <1>5 DEF HistoryOf
  <2>3. n \in Nat /\ m \in Nat /\ x.rev \in Nat /\ y.rev \in Nat
    BY <1>2, <2>1, <2>2
  <2>4. n < m => x.rev < y.rev
    BY <2>1, <2>2, RevsOrdered
  <2>5. m < n => y.rev < x.rev
    BY <2>1, <2>2, RevsOrdered
  <2>6. x.rev = y.rev => n = m
    BY <2>3, <2>4, <2>5
  <2>7. x.rev <= y.rev => n <= m
    BY <2>3, <2>5
  <2> QED
    BY <2>1, <2>2, <2>6, <2>7 DEF Graves
<1> QED
  BY <1>3, <1>4, <1>5

LEMMA GravesStay ==
  ASSUME Typed, History, Graves, Step
  PROVE  Graves'
<1>1. CASE journal' = journal
  BY <1>1 DEF Graves, GroupsOf, Sequence
<1>2. CASE \E muts : Sound(muts) /\ ApplyAndJournal(muts)
  <2>1. PICK muts : Sound(muts) /\ ApplyAndJournal(muts)
    BY <1>2
  <2> SUFFICES ASSUME NEW i \in Ids, NEW n \in GroupsOf(i)', NEW m \in GroupsOf(i)', n <= m,
                      ~Live(journal'[n][i])
               PROVE  ~Live(journal'[m][i])
    BY DEF Graves
  <2>2. /\ \A k \in 1..Len(journal) : journal'[k] = journal[k]
        /\ i \in Affected(muts) => /\ GroupsOf(i)' = GroupsOf(i) \cup {Len(journal) + 1}
                                   /\ journal'[Len(journal) + 1][i] = row'[i]
        /\ i \notin Affected(muts) => GroupsOf(i)' = GroupsOf(i)
    BY <2>1, GroupsGrow
  <2>3. GroupsOf(i) \subseteq 1..Len(journal) /\ Len(journal) \in Nat
    BY GroupsFinite
  <2>4. \A k \in GroupsOf(i) : journal'[k][i] = journal[k][i]
    BY <2>2, <2>3
  <2>5. CASE m \in GroupsOf(i)
    <3>1. n \in GroupsOf(i)
      BY <2>2, <2>3, <2>5
    <3> QED
      BY <2>4, <2>5, <3>1 DEF Graves
  <2>6. CASE m \notin GroupsOf(i)
    <3>1. journal'[m][i] = row'[i]
      BY <2>2, <2>6
    <3>2. CASE n \notin GroupsOf(i)
      BY <2>2, <3>1, <3>2
    <3>3. CASE n \in GroupsOf(i)
      <4>1. PICK k \in GroupsOf(i) : (\A j \in GroupsOf(i) : j <= k) /\ journal[k][i] = row[i]
        BY <3>3 DEF History
      <4>2. ~Live(journal[n][i])
        BY <2>4, <3>3
      <4>3. n <= k
        BY <3>3, <4>1
      <4>4. ~Live(row[i])
        BY <3>3, <4>1, <4>2, <4>3 DEF Graves
      <4>5. row[i].rev > 0
        BY <4>1, HistoryNumbers, RevsOrdered
      <4>6. Tombstone(row'[i])
        BY <4>4, <4>5, RevisionsGrow DEF Tombstone
      <4> QED
        BY <3>1, <4>6 DEF Tombstone
    <3> QED
      BY <3>2, <3>3
  <2> QED
    BY <2>5, <2>6
<1>3. ASSUME NEW muts, OwnStep(muts) PROVE Graves'
  BY <1>2, <1>3 DEF OwnStep
<1>4. ASSUME NEW req, AcceptStep(req) PROVE Graves'
  BY <1>2, <1>4 DEF AcceptStep, Accept
<1>5. ASSUME NEW req, NEW result, RefuseStep(req, result) PROVE Graves'
  BY <1>1, <1>5 DEF RefuseStep
<1>6. ASSUME NEW r, RepeatStep(r) PROVE Graves'
  BY <1>1, <1>6 DEF RepeatStep
<1>7. PruneStep \/ UNCHANGED serverVars => Graves'
  BY <1>1 DEF PruneStep, serverVars
<1> QED
  BY <1>3, <1>4, <1>5, <1>6, <1>7 DEF Step

(* An accepted operation was answered with every entity it names, and a    *)
(* deletion with a tombstone.                                              *)
AcceptedOk ==
  \A r \in receipts : r.result.kind = "accepted" =>
    \A i \in DOMAIN r.muts :
      /\ i \in DOMAIN r.result.entities
      /\ r.muts[i].changes = None => ~Live(r.result.entities[i])

LEMMA AcceptedStays ==
  ASSUME Typed, AcceptedOk, Step
  PROVE  AcceptedOk'
<1>1. ASSUME NEW req, AcceptStep(req)
      PROVE  AcceptedOk'
  <2>1. PICK result : /\ result = Result("accepted", [i \in Affected(req.muts) |-> Stamped(req.muts)[i]])
                      /\ Answer(req, result)
    BY <1>1 DEF AcceptStep, Accept
  <2>2. result.entities = [i \in Affected(req.muts) |-> Stamped(req.muts)[i]]
    BY <2>1 DEF Result
  <2>3. ASSUME NEW i \in DOMAIN req.muts
        PROVE  /\ i \in DOMAIN result.entities
               /\ req.muts[i].changes = None => ~Live(result.entities[i])
    <3>1. Sound(req.muts) /\ i \in Ids
      BY <1>1 DEF AcceptStep, Sound, IsMutations
    <3>2. i \in Affected(req.muts) /\ Stamped(req.muts)[i].data = Deleted(req.muts)[i]
      BY <3>1, GroupEffect
    <3>3. req.muts[i].changes = None => Deleted(req.muts)[i] = None
      BY <3>1 DEF Deleted, Deletions
    <3> QED
      BY <2>2, <3>2, <3>3 DEF Live
  <2>4. PICK new : /\ new = [key |-> req.key, muts |-> req.muts, result |-> result]
                   /\ receipts' = receipts \cup {new}
    BY <2>1 DEF Answer
  <2>5. new.muts = req.muts /\ new.result = result
    BY <2>4
  <2> QED
    BY <2>3, <2>4, <2>5 DEF AcceptedOk
<1>2. ASSUME NEW req, NEW result, RefuseStep(req, result)
      PROVE  AcceptedOk'
  <2>1. PICK new : /\ new = [key |-> req.key, muts |-> req.muts, result |-> result]
                   /\ receipts' = receipts \cup {new}
    BY <1>2 DEF RefuseStep, Answer
  <2>2. new.result.kind # "accepted"
    BY <1>2, <2>1 DEF RefuseStep
  <2> QED
    BY <2>1, <2>2 DEF AcceptedOk
<1>3. CASE receipts' = receipts
  BY <1>3 DEF AcceptedOk
<1>4. ASSUME NEW muts, OwnStep(muts) PROVE receipts' = receipts
  BY <1>4 DEF OwnStep
<1>5. ASSUME NEW r, RepeatStep(r) PROVE receipts' = receipts
  BY <1>5 DEF RepeatStep
<1>6. PruneStep \/ UNCHANGED serverVars => receipts' = receipts
  BY DEF PruneStep, serverVars
<1> QED
  BY <1>1, <1>2, <1>3, <1>4, <1>5, <1>6 DEF Step

-----------------------------------------------------------------------------
(* Steps that only the replica itself knows of.                            *)

(* A conflict stays the right one when rows that become deleted, or are    *)
(* put back, settle theirs.                                                *)
LEMMA WaitingStays ==
  ASSUME NEW d, Waits(d), NEW e, NEW i \in Ids, e.shadow = d.shadow,
         \/ e.conflict[i] = None
         \/ /\ e.conflict[i] = d.conflict[i]
            /\ ~Retryable(d, i) \/ (LocallyDeleted(e, i) => LocallyDeleted(d, i))
  PROVE  RetryOk(e, i, e.conflict[i])
<1>1. RetryOk(d, i, d.conflict[i])
  BY DEF Waits
<1>2. \A base, ack : Deferred(base, ack).retryable = TRUE
  BY DEF Deferred
<1>3. ASSUME NEW k, k = d.conflict[i], ~Retryable(d, i)
      PROVE  k \in {None, Clash}
  BY <1>1, <1>2, <1>3 DEF RetryOk, Retryable
<1>4. CASE e.conflict[i] = None \/ ~Retryable(d, i)
  BY <1>3, <1>4 DEF RetryOk
<1>5. CASE e.conflict[i] = d.conflict[i] /\ (LocallyDeleted(e, i) => LocallyDeleted(d, i))
  BY <1>1, <1>5 DEF RetryOk
<1> QED
  BY <1>4, <1>5

LEMMA SaveWaits ==
  ASSUME AllReplicas, NEW c \in Clients, Waits(db[c]), NEW i \in Ids, NEW r, Save(c, i, r)
  PROVE  Waits(db'[c])
<1>1. PICK d : d = db[c] /\ Replica(d)
  BY DEF AllReplicas
<1>2. PICK e : e = db'[c]
  OBVIOUS
<1>3. /\ e.shadow = d.shadow /\ e.conflict = d.conflict
      /\ e.deleting = d.deleting \ {i} /\ e.local = [d.local EXCEPT ![i] = r]
  BY <1>1, <1>2 DEF Save, AllReplicas, Replica, IsDatabase
<1>4. \A k \in Ids : LocallyDeleted(e, k) => LocallyDeleted(d, k)
  BY <1>1, <1>3 DEF LocallyDeleted, Replica, IsDatabase
<1> QED
  BY <1>1, <1>2, <1>3, <1>4, WaitingStays DEF Waits

LEMMA FreedRow ==
  ASSUME NEW k \in Ids, NEW r \in RowOf(k), r # None
  PROVE  [r EXCEPT !.data["ref"] = None] # None
<1>1. r = [rev |-> r.rev, data |-> r.data] /\ r.rev \in Nat /\ r.data \in DataOf(k)
  BY RowForms
<1>2. PICK data : data = [r.data EXCEPT !["ref"] = None]
  OBVIOUS
<1>3. [r EXCEPT !.data["ref"] = None] = [rev |-> r.rev, data |-> data]
  BY <1>1, <1>2
<1>4. r.data \in [Fields -> FieldValue] /\ r.data["val"] \in Values
  BY <1>1, DataForms
<1>5. data = [f \in Fields |-> data[f]] /\ data["val"] \in Values /\ data["ref"] = None
      /\ \A f \in Fields : data[f] \in FieldValue
  BY <1>2, <1>4 DEF Fields, FieldValue
<1>6. data \in Data
  BY <1>5 DEF Data
<1>7. [rev |-> r.rev, data |-> data] \in Record
  BY <1>1, <1>6 DEF Record
<1> QED
  BY <1>3, <1>7, DataAssumption

LEMMA DeleteWaits ==
  ASSUME AllReplicas, NEW c \in Clients, Waits(db[c]), NEW i \in Ids, Delete(c, i)
  PROVE  Waits(db'[c])
<1>1. PICK d : d = db[c] /\ Replica(d)
  BY DEF AllReplicas
<1>2. PICK e : e = db'[c]
  OBVIOUS
<1>3. PICK deps : deps = IF i \in Parents THEN Dependents(d, i) ELSE {}
  OBVIOUS
<1>4. PICK gone : gone = {i} \cup {k \in deps : OnDelete[k] = "cascade"}
  OBVIOUS
<1> DEFINE freed(k) == [d.local[k] EXCEPT !.data["ref"] = None]
<1>5. PICK local : local = [k \in Ids |-> IF k \in gone THEN None
                                          ELSE IF k \in deps THEN freed(k) ELSE d.local[k]]
  OBVIOUS
<1>6. PICK conflict : conflict = [k \in Ids |-> IF k \in gone /\ Retryable(d, k) THEN None
                                                ELSE d.conflict[k]]
  OBVIOUS
<1>7. db' = [db EXCEPT ![c].local = local, ![c].deleting = d.deleting \cup gone,
                       ![c].conflict = conflict, ![c].dirty = @ \cup gone \cup deps]
  BY <1>1, <1>3, <1>4, <1>5, <1>6 DEF Delete, Replica, IsDatabase
<1>8. /\ e.shadow = d.shadow /\ e.conflict = conflict
      /\ e.deleting = d.deleting \cup gone /\ e.local = local
  BY <1>1, <1>2, <1>7 DEF AllReplicas, Replica, IsDatabase
<1> SUFFICES ASSUME NEW k \in Ids
             PROVE  RetryOk(e, k, e.conflict[k])
  BY <1>2 DEF Waits
<1>9. CASE k \in gone
  BY <1>1, <1>6, <1>8, <1>9, WaitingStays
<1>10. CASE k \notin gone
  <2>1. LocallyDeleted(e, k) => LocallyDeleted(d, k)
    <3> SUFFICES ASSUME LocallyDeleted(e, k)
                 PROVE  LocallyDeleted(d, k)
      OBVIOUS
    <3>1. k \in d.deleting /\ local[k] = None
      BY <1>8, <1>10 DEF LocallyDeleted
    <3>2. CASE k \in deps
      <4>1. d.local[k] # None /\ d.local[k] \in RowOf(k)
        BY <1>1, <1>3, <3>2 DEF Dependents, Replica, Fit
      <4>2. freed(k) # None
        BY <4>1, FreedRow
      <4> QED
        BY <1>5, <1>10, <3>1, <3>2, <4>2
    <3>3. CASE k \notin deps
      BY <1>5, <1>10, <3>1, <3>3 DEF LocallyDeleted
    <3> QED
      BY <3>2, <3>3
  <2> QED
    BY <1>1, <1>6, <1>8, <1>10, <2>1, WaitingStays
<1> QED
  BY <1>9, <1>10

LEMMA ResolveWaits ==
  ASSUME AllReplicas, NEW c \in Clients, Waits(db[c]), NEW i \in Ids, NEW data, Resolve(c, i, data)
  PROVE  Waits(db'[c])
<1>1. PICK d : d = db[c] /\ Replica(d)
  BY DEF AllReplicas
<1>2. PICK e : e = db'[c]
  OBVIOUS
<1>3. PICK r : r = IF data = None THEN None ELSE [rev |-> d.shadow[i].rev, data |-> data]
  OBVIOUS
<1>4. /\ e.shadow = d.shadow /\ e.conflict = [d.conflict EXCEPT ![i] = None]
      /\ e.local = [d.local EXCEPT ![i] = r]
      /\ \A k \in Ids \ {i} : k \in e.deleting <=> k \in d.deleting
  BY <1>1, <1>2, <1>3 DEF Resolve, AllReplicas, Replica, IsDatabase
<1>5. \A k \in Ids : \/ e.conflict[k] = None
                     \/ /\ e.conflict[k] = d.conflict[k]
                        /\ LocallyDeleted(e, k) => LocallyDeleted(d, k)
  BY <1>1, <1>4 DEF LocallyDeleted, Replica, IsDatabase
<1> QED
  BY <1>1, <1>2, <1>4, <1>5, WaitingStays DEF Waits

LEMMA EditWaits ==
  ASSUME AllReplicas, NEW c \in Clients, Waits(db[c]), Edit(c)
  PROVE  Waits(db'[c])
BY SaveWaits, DeleteWaits, ResolveWaits DEF Edit, Insert, Update

LEMMA TidiedWaits ==
  ASSUME NEW d, Replica(d), Waits(d), NEW e, e.shadow = d.shadow, e.local = d.local,
         e.conflict = d.conflict, e.deleting \subseteq d.deleting
  PROVE  Waits(e)
<1>1. \A k \in Ids : LocallyDeleted(e, k) => LocallyDeleted(d, k)
  BY DEF LocallyDeleted
<1> QED
  BY <1>1, WaitingStays DEF Waits

(* Preparing and tidying leave the visible rows alone, ...                 *)
LEMMA TidyWaits ==
  ASSUME AllReplicas, NEW c \in Clients, Waits(db[c]), NEW f, PrepareNothing(c, f)
  PROVE  Waits(db'[c]) /\ db'[c].local = db[c].local
<1>1. PICK d : d = db[c] /\ Replica(d)
  BY DEF AllReplicas
<1>2. PICK e : e = Tidied(d)
  OBVIOUS
<1>3. db'[c] = e
  BY <1>1, <1>2 DEF PrepareNothing, AllReplicas
<1>4. /\ e.shadow = d.shadow /\ e.local = d.local /\ e.conflict = d.conflict
      /\ e.deleting \subseteq d.deleting
  BY <1>1, <1>2 DEF Tidied, Replica, IsDatabase
<1> QED
  BY <1>1, <1>3, <1>4, TidiedWaits

LEMMA PrepareWaits ==
  ASSUME AllReplicas, NEW c \in Clients, Waits(db[c]), NEW f, NEW number, Prepare(c, f, number)
  PROVE  Waits(db'[c]) /\ db'[c].local = db[c].local
<1>1. PICK d : d = db[c] /\ Replica(d)
  BY DEF AllReplicas
<1>2. PICK outbox : db' = [db EXCEPT ![c] = [Tidied(d) EXCEPT !.outbox = outbox]]
  BY <1>1 DEF Prepare
<1>3. PICK b : b = Tidied(d)
  OBVIOUS
<1>4. PICK e : e = [b EXCEPT !.outbox = outbox]
  OBVIOUS
<1>5. db'[c] = e
  BY <1>2, <1>3, <1>4 DEF AllReplicas
<1>6. /\ b.shadow = d.shadow /\ b.local = d.local /\ b.conflict = d.conflict
      /\ b.deleting \subseteq d.deleting
  BY <1>1, <1>3 DEF Tidied, Replica, IsDatabase
<1>7. /\ e.shadow = b.shadow /\ e.local = b.local /\ e.conflict = b.conflict
      /\ e.deleting = b.deleting
  BY <1>4
<1> QED
  BY <1>1, <1>5, <1>6, <1>7, TidiedWaits

(* ... and so does the demand of a reset.                                  *)
LEMMA ResetWaits ==
  ASSUME AllReplicas, NEW c \in Clients, Waits(db[c]), NEW f, RequireReset(c, f)
  PROVE  Waits(db'[c]) /\ db'[c].local = db[c].local
<1>1. PICK d : d = db[c] /\ Replica(d)
  BY DEF AllReplicas
<1>2. PICK e : e = db'[c]
  OBVIOUS
<1>3. /\ e.shadow = d.shadow /\ e.local = d.local /\ e.conflict = d.conflict
      /\ e.deleting = d.deleting
  BY <1>1, <1>2 DEF RequireReset, AllReplicas, Replica, IsDatabase
<1> QED
  BY <1>1, <1>2, <1>3, TidiedWaits

LEMMA WaitsInitially ==
  ASSUME SystemInit, NEW c \in Clients
  PROVE  Waits(db[c])
<1>1. PICK a : a = EmptyDatabase
  OBVIOUS
<1>2. PICK b : b = ApplyGroup(a, SeedGroup)
  OBVIOUS
<1>3. PICK t : t = Tidied(b)
  OBVIOUS
<1>4. PICK d : d = [t EXCEPT !.cursor = [f \in Feeds |-> Len(SeedJournal)]]
  OBVIOUS
<1>5. Replica(a) /\ Waits(a)
  <2>1. \A i \in Ids : a.conflict[i] = None
    BY <1>1 DEF EmptyDatabase
  <2> QED
    BY <1>1, <2>1, EmptyReplica DEF Waits, RetryOk
<1>6. Replica(b) /\ Waits(b)
  <2>1. EntityGroup(SeedGroup)
    BY SeedForms DEF EntityGroup
  <2> QED
    BY <1>2, <1>5, <2>1, GroupApplied, GroupWaits
<1>7. Waits(t)
  <2>1. /\ t.shadow = b.shadow /\ t.local = b.local /\ t.conflict = b.conflict
        /\ t.deleting \subseteq b.deleting
    BY <1>3, <1>6 DEF Tidied, Replica, IsDatabase
  <2> QED
    BY <1>6, <2>1, TidiedWaits
<1>8. /\ d.shadow = t.shadow /\ d.local = t.local /\ d.conflict = t.conflict
      /\ d.deleting = t.deleting
  BY <1>4
<1>9. Waits(d)
  <2>1. \A i \in Ids : LocallyDeleted(d, i) => LocallyDeleted(t, i)
    BY <1>8 DEF LocallyDeleted
  <2> QED
    BY <1>7, <1>8, <2>1, WaitingStays DEF Waits
<1>10. db[c] = d \/ db[c] = a
  BY <1>1, <1>2, <1>3, <1>4 DEF SystemInit
<1> QED
  BY <1>5, <1>9, <1>10

-----------------------------------------------------------------------------
(* What KeepsEdits asks of a step, in the terms above.                     *)

LEMMA UntouchedKeeps ==
  ASSUME NEW c, NEW i \in Ids, db'[c].local[i] = db[c].local[i]
  PROVE  KeepsEdits(c, i)
BY DEF KeepsEdits, KeepsEditsFrom, LocallyDeleted

(* The row was edited since it was the row from.                           *)
LEMMA KeptFrom ==
  ASSUME NEW c, NEW i \in Ids, NEW d, d = db[c], NEW from, from = Anchor(c, i),
         \A f \in Fields : \A v :
           HasValue(d.local[i], f, v) /\ Departs(from, f, v)
             /\ (\A x \in MergedInto(c, i) : Disagrees(x, f, v))
           => HasValue(db'[c].local[i], f, v),
         LocallyDeleted(d, i) /\ ~Unheard(c, i) => db'[c].local[i] = None
  PROVE  KeepsEdits(c, i)
<1>1. ASSUME NEW f \in FieldsOf(i), d.local[i] # None,
             from = None \/ d.local[i].data[f] # from[f], ~Agreed(c, i, f)
      PROVE  db'[c].local[i] # None /\ db'[c].local[i].data[f] = d.local[i].data[f]
  <2>1. PICK v : v = d.local[i].data[f]
    OBVIOUS
  <2>2. f \in Fields
    BY DEF FieldsOf, Fields
  <2>3. \A x \in MergedInto(c, i) : Disagrees(x, f, v)
    BY <1>1, <2>1 DEF Agreed, Disagrees
  <2>4. HasValue(d.local[i], f, v) /\ Departs(from, f, v)
    BY <1>1, <2>1 DEF HasValue, Departs
  <2>5. HasValue(db'[c].local[i], f, v)
    BY <2>2, <2>3, <2>4
  <2> QED
    BY <2>1, <2>5 DEF HasValue
<1>2. KeepsEditsFrom(c, i, from)
  BY <1>1 DEF KeepsEditsFrom
<1> QED
  BY <1>2 DEF KeepsEdits

LEMMA AwaitedMerged ==
  ASSUME NEW c, NEW i
  PROVE  /\ Awaited(db[c], i) \subseteq MergedInto(c, i)
         /\ \A n \in GroupsOf(i) :
              journal[n][i].rev \in (db[c].shadow[i].rev + 1)..db'[c].shadow[i].rev
                => journal[n][i] \in MergedInto(c, i)
BY DEF Awaited, MergedInto

LEMMA AnchorUnfinished ==
  ASSUME NEW c, NEW i,
         \A op \in db[c].outbox \ db'[c].outbox : \A y \in replies :
           ~(i \in DOMAIN op.muts /\ y.key = <<c, op.number>> /\ y.result.kind = "accepted")
  PROVE  Anchor(c, i) = From(db[c], i)
<1> DEFINE finished == {op \in db[c].outbox \ db'[c].outbox :
                          /\ i \in DOMAIN op.muts
                          /\ \E r \in replies : r.key = <<c, op.number>> /\ r.result.kind = "accepted"}
<1>1. finished = {}
  OBVIOUS
<1>2. Anchor(c, i) = IF finished # {}
                     THEN SentData(db[c], i, (CHOOSE op \in finished : TRUE).muts[i])
                     ELSE IF Retryable(db[c], i)
                     THEN IF db[c].conflict[i].base = None THEN None ELSE db[c].conflict[i].base.data
                     ELSE db[c].shadow[i].data
  BY Zenon DEF Anchor
<1> QED
  BY <1>1, <1>2 DEF From, DataIn

-----------------------------------------------------------------------------
(* A page arrives.                                                         *)

(* What does not concern rows keeps them. *)
LEMMA BooksKeep ==
  ASSUME NEW d, NEW i \in Ids, NEW H, NEW a, Kept(d, a, i, H), NEW e, Replica(e),
         e.local = a.local, e.shadow = a.shadow, e.conflict = a.conflict, e.deleting = a.deleting
  PROVE  Kept(d, e, i, H)
<1>1. Replica(a) /\ Waits(a)
  BY DEF Kept
<1>2. \A k \in Ids : LocallyDeleted(e, k) => LocallyDeleted(a, k)
  BY DEF LocallyDeleted
<1>3. Waits(e)
  BY <1>1, <1>2, WaitingStays DEF Waits
<1>4. \A g \in Fields : \A v : Holds(a, i, g, v) => Holds(e, i, g, v)
  BY DEF Holds, From, Awaited, Retryable
<1>5. Gone(a, i) => Gone(e, i)
  BY DEF Gone
<1> QED
  BY <1>3, <1>4, <1>5 DEF Kept

LEMMA PageReceived ==
  ASSUME AllReplicas, NEW c \in Clients, Waits(db[c]), NEW f \in Feeds, NEW groups, TypedPage(groups),
         NEW cursor, NEW full, Apply(c, f, groups, cursor, full), db' # db,
         NEW i \in Ids, NEW H, Story(H), db[c].shadow[i] \in H,
         \A n \in DOMAIN groups : i \in DOMAIN groups[n] => groups[n][i] \in H
  PROVE  Kept(db[c], db'[c], i, H)
<1>1. PICK d : d = db[c] /\ Replica(d)
  BY DEF AllReplicas
<1>2. PICK L \in Nat : DOMAIN groups = 1..L /\ \A n \in 1..L : EntityGroup(groups[n])
  BY DEF TypedPage
<1>3. PICK a : a = Applied(d, groups)
  OBVIOUS
<1>4. PICK e : e = [a EXCEPT !.cursor[f] = cursor, !.reset = IF full THEN @ \ {f} ELSE @]
  OBVIOUS
<1>5. db'[c] = e
  BY <1>1, <1>3, <1>4 DEF Apply, AllReplicas
<1>6. Kept(d, a, i, H)
  BY <1>1, <1>2, <1>3, PageKeeps
<1>7. Replica(a)
  BY <1>6 DEF Kept
<1>8. Replica(e)
  BY <1>5, ApplyApplied DEF AllReplicas
<1>9. /\ e.local = a.local /\ e.shadow = a.shadow /\ e.conflict = a.conflict
      /\ e.deleting = a.deleting
  BY <1>4, <1>7 DEF Replica, IsDatabase
<1>10. Kept(d, e, i, H)
  BY <1>6, <1>8, <1>9, BooksKeep
<1> QED
  BY <1>1, <1>5, <1>10

(* Whatever brought the replica from one state to the next keeps edits,    *)
(* when it kept every row and finished nothing.                            *)
LEMMA KeptKeeps ==
  ASSUME AllReplicas, NEW c \in Clients, Waits(db[c]), db'[c].outbox = db[c].outbox,
         \A i \in Ids : Kept(db[c], db'[c], i, HistoryOf(i))
  PROVE  Waits(db'[c]) /\ \A i \in Ids : KeepsEdits(c, i)
<1>1. Waits(db'[c])
  <2>1. CASE Ids = {}
    BY <2>1 DEF Waits
  <2>2. CASE Ids # {}
    BY <2>2 DEF Kept
  <2> QED
    BY <2>1, <2>2
<1>2. ASSUME NEW i \in Ids
      PROVE  KeepsEdits(c, i)
  <2>1. PICK d : d = db[c] /\ Replica(d)
    BY DEF AllReplicas
  <2>2. PICK e : e = db'[c] /\ Kept(d, e, i, HistoryOf(i))
    BY <2>1
  <2>3. Anchor(c, i) = From(d, i)
    BY <2>1, AnchorUnfinished
  <2>4. ASSUME NEW g \in Fields, NEW v, HasValue(d.local[i], g, v), Departs(From(d, i), g, v),
               \A x \in MergedInto(c, i) : Disagrees(x, g, v)
        PROVE  HasValue(e.local[i], g, v)
    <3>1. Holds(d, i, g, v)
      BY <2>1, <2>4, AwaitedMerged DEF Holds
    <3>2. Disagrees(Absent, g, v)
      BY DEF Disagrees, Live, Absent
    <3>3. Nobody(HistoryOf(i), d.shadow[i].rev, e.shadow[i].rev, g, v)
      BY <2>1, <2>2, <2>4, <3>2, AwaitedMerged DEF Nobody, HistoryOf
    <3> QED
      BY <2>2, <3>1, <3>3 DEF Kept, Holds
  <2>5. LocallyDeleted(d, i) => e.local[i] = None
    BY <2>2 DEF Kept, LocallyDeleted, Gone
  <2> QED
    BY <2>1, <2>2, <2>3, <2>4, <2>5, KeptFrom
<1> QED
  BY <1>1, <1>2

EditInv == /\ SystemInv
           /\ \A c \in Clients : Waits(db[c])
           /\ AcceptedOk /\ Graves

LEMMA ReceiveKeepsEdits ==
  ASSUME EditInv, NEW c \in Clients, NEW f \in Feeds, Receive(c, f)
  PROVE  OthersSame(c) /\ Waits(db'[c]) /\ \A i \in Ids : KeepsEdits(c, i)
<1>1. SystemInv /\ Waits(db[c]) /\ AllReplicas /\ Typed /\ History /\ Graves
  BY DEF EditInv, SystemInv, ServerInv
<1>2. PICK groups, cursor, full :
        /\ groups = call[c][f].groups /\ cursor = call[c][f].cursor
        /\ Apply(c, f, groups, cursor, full)
  BY DEF Receive
<1>3. PageOk(c, f, groups, cursor)
  BY <1>1, <1>2 DEF SystemInv, Pages, CallOk, Receive
<1>4. TypedPage(groups) /\ \A n \in DOMAIN groups : HistoricalGroup(groups[n])
  BY <1>1, <1>3, HistoricalGroupForms DEF PageOk, TypedPage
<1>5. OthersSame(c) /\ db'[c].outbox = db[c].outbox
  BY <1>1, ReceiveFreezes
<1>6. CASE db' = db
  BY <1>1, <1>5, <1>6, UntouchedKeeps
<1>7. CASE db' # db
  <2>1. ASSUME NEW i \in Ids
        PROVE  Kept(db[c], db'[c], i, HistoryOf(i))
    <3>1. Story(HistoryOf(i))
      BY <1>1, HistoryNumbers, HistoryIsStory
    <3>2. db[c].shadow[i] \in HistoryOf(i)
      BY <1>1, ShadowForms, InHistory
    <3>3. \A n \in DOMAIN groups : i \in DOMAIN groups[n] => groups[n][i] \in HistoryOf(i)
      BY <1>4, InHistory DEF HistoricalGroup
    <3> QED
      BY <1>1, <1>2, <1>4, <1>7, <3>1, <3>2, <3>3, PageReceived
  <2> QED
    BY <1>1, <1>5, <2>1, KeptKeeps
<1> QED
  BY <1>6, <1>7

-----------------------------------------------------------------------------
(* The result of an operation arrives.                                     *)

LEMMA SentWhole ==
  ASSUME NEW i \in Ids, NEW d, Replica(d), NEW m \in Mutation
  PROVE  /\ Whole(SentRow(d, i, m))
         /\ SentRow(d, i, m) = None => m.changes = None
         /\ SentData(d, i, m) = None => m.changes = None
<1>1. CASE m.changes = None
  BY <1>1 DEF SentRow, Whole
<1>2. CASE m.changes # None
  <2>1. PICK ch : ch = m.changes /\ ch \in Patch
    BY <1>2 DEF Mutation
  <2>2. PICK data : data = d.shadow[i].data /\ data \in Data \cup {None}
    BY DataForms DEF Replica, Fit, EntityOf
  <2>3. PICK o : o = Overlay(data, ch)
    OBVIOUS
  <2>4. \A f \in DOMAIN ch : ch[f] \in FieldValue
    BY <2>1 DEF Patch
  <2>5. \A f \in Fields : IF f \in DOMAIN ch THEN ch[f] \in FieldValue
                          ELSE (IF data = None THEN None ELSE data[f]) \in FieldValue
    BY <2>2, <2>4 DEF Data, FieldValue
  <2>6. o \in Data
    BY <2>3, <2>5 DEF Overlay, Data
  <2>7. [rev |-> 0, data |-> o] \in Record
    BY <2>6 DEF Record
  <2>8. PICK r : r = [rev |-> 0, data |-> o]
    OBVIOUS
  <2>9. SentRow(d, i, m) = r /\ SentData(d, i, m) = o
    BY <1>2, <2>1, <2>2, <2>3, <2>8 DEF SentRow, SentData
  <2>10. r.data # None /\ r # None /\ o # None
    BY <2>6, <2>7, <2>8, DataAssumption
  <2> QED
    BY <2>9, <2>10 DEF Whole
<1> QED
  BY <1>1, <1>2

(* The answer names the entity, as that of an accepted operation does.     *)
Answers(result, i, m) ==
  result.kind = "accepted" =>
    /\ i \in DOMAIN result.entities
    /\ m.changes = None => ~Live(result.entities[i])

LEMMA AnsweredRightly ==
  ASSUME NEW d, Replica(d), NEW i \in Ids, NEW m \in Mutation, NEW result, Answers(result, i, m)
  PROVE  Rightly(Answered(d, i, m, result))
<1> DEFINE u == Answered(d, i, m, result)
<1>1. u.conflict \in {None, Clash}
  BY DEF Answered
<1>2. CASE result.kind = "accepted"
  <2>1. u.base = SentRow(d, i, m) /\ u.ack = result.entities[i]
    BY <1>2 DEF Answered, Answers
  <2> HIDE DEF u
  <2> QED
    BY <1>1, <1>2, <2>1, SentWhole DEF Rightly, Answers, u
<1>3. CASE result.kind # "accepted"
  <2>1. u.base = ShadowRow(d, i) /\ u.ack = None
    BY <1>3 DEF Answered
  <2> HIDE DEF u
  <2> QED
    BY <1>1, <2>1, ShadowRowForms DEF Rightly, u
<1> QED
  BY <1>2, <1>3

LEMMA SideEffectRightly ==
  ASSUME NEW d, Replica(d), NEW i \in Ids, NEW remote
  PROVE  Rightly(SideEffect(d, i, remote))
<1> DEFINE u == SideEffect(d, i, remote)
<1>1. u.conflict \in {None, Clash} /\ u.base = ShadowRow(d, i) /\ u.ack = None
  BY DEF SideEffect
<1> HIDE DEF u
<1>2. Rightly(u)
  BY <1>1, ShadowRowForms DEF Rightly
<1> QED
  BY <1>2 DEF u

LEMMA FinishRows ==
  ASSUME AllReplicas, NEW c \in Clients, Waits(db[c]), NEW op, IsMutations(op.muts), NEW result,
         EntityGroup(result.entities), Finish(c, op, result),
         \A i \in DOMAIN op.muts : Answers(result, i, op.muts[i])
  PROVE  /\ Waits(db'[c])
         /\ \A i \in Ids :
              \/ db'[c].local[i] = db[c].local[i]
              \/ /\ i \in DOMAIN op.muts
                 /\ db'[c].local[i] = Answered(db[c], i, op.muts[i], result).merged
              \/ /\ i \in DOMAIN result.entities \ DOMAIN op.muts
                 /\ result.entities[i].rev > db[c].shadow[i].rev
                 /\ db'[c].local[i] = SideEffect(db[c], i, result.entities[i]).merged
<1>1. PICK d : d = db[c] /\ Replica(d) /\ Waits(d)
  BY DEF AllReplicas
<1>2. PICK answers : answers = [i \in DOMAIN op.muts |-> Answered(d, i, op.muts[i], result)]
  OBVIOUS
<1>3. PICK effects : effects = SideEffects(d, op, result)
  OBVIOUS
<1>4. PICK U : U = Joined(answers, effects)
  OBVIOUS
<1>5. PICK a : a = ApplyUpdates(d, U)
  OBVIOUS
<1>6. PICK e : e = [a EXCEPT !.outbox = @ \ {op}]
  OBVIOUS
<1>7. db'[c] = e
  <2>1. db' = [db EXCEPT ![c] =
                 [ApplyUpdates(db[c], Joined([i \in DOMAIN op.muts |-> Answered(db[c], i, op.muts[i], result)],
                                             SideEffects(db[c], op, result)))
                    EXCEPT !.outbox = @ \ {op}]]
    BY Zenon DEF Finish
  <2>2. [i \in DOMAIN op.muts |-> Answered(db[c], i, op.muts[i], result)] = answers
    BY <1>1, <1>2
  <2>3. db' = [db EXCEPT ![c] = e]
    BY <1>1, <1>3, <1>4, <1>5, <1>6, <2>1, <2>2
  <2> QED
    BY <2>3 DEF AllReplicas
<1>8. /\ DOMAIN answers = DOMAIN op.muts /\ DOMAIN op.muts \subseteq Ids
      /\ \A i \in DOMAIN op.muts : answers[i] = Answered(d, i, op.muts[i], result)
  BY <1>2 DEF IsMutations
<1>9. /\ DOMAIN effects = {k \in DOMAIN result.entities \ DOMAIN op.muts :
                             result.entities[k].rev > d.shadow[k].rev}
      /\ \A i \in DOMAIN effects : effects[i] = SideEffect(d, i, result.entities[i])
  BY <1>3 DEF SideEffects
<1>10. /\ DOMAIN U = DOMAIN answers \cup DOMAIN effects
       /\ \A i \in DOMAIN U : U[i] = IF i \in DOMAIN answers THEN answers[i] ELSE effects[i]
  BY <1>4 DEF Joined
<1>11. DOMAIN U \subseteq Ids
  BY <1>8, <1>9, <1>10 DEF EntityGroup
<1>12. \A i \in DOMAIN U : Rightly(U[i])
  <2>1. \A i \in DOMAIN answers : Rightly(answers[i])
    BY <1>1, <1>8, AnsweredRightly DEF IsMutations
  <2>2. \A i \in DOMAIN effects : Rightly(effects[i])
    BY <1>1, <1>9, SideEffectRightly DEF EntityGroup
  <2> QED
    BY <1>10, <2>1, <2>2
<1>13. /\ e.shadow = a.shadow /\ e.local = a.local /\ e.conflict = a.conflict
       /\ e.deleting = a.deleting
  BY <1>6
<1>14. Waits(e)
  <2>1. Waits(a)
    BY <1>1, <1>5, <1>11, <1>12, UpdatesWait
  <2>2. \A i \in Ids : LocallyDeleted(e, i) => LocallyDeleted(a, i)
    BY <1>13 DEF LocallyDeleted
  <2> QED
    BY <1>13, <2>1, <2>2, WaitingStays DEF Waits
<1>15. ASSUME NEW i \in Ids
       PROVE  \/ e.local[i] = d.local[i]
              \/ i \in DOMAIN op.muts /\ e.local[i] = Answered(d, i, op.muts[i], result).merged
              \/ /\ i \in DOMAIN result.entities \ DOMAIN op.muts
                 /\ result.entities[i].rev > d.shadow[i].rev
                 /\ e.local[i] = SideEffect(d, i, result.entities[i]).merged
  <2>1. CASE i \in DOMAIN U
    <3>1. RowUpdated(d, a, i, U[i])
      BY <1>1, <1>5, <1>11, <2>1, RowsUpdated
    <3>2. e.local[i] \in {U[i].merged, d.local[i]}
      BY <1>13, <3>1 DEF RowUpdated
    <3> QED
      BY <1>8, <1>9, <1>10, <2>1, <3>2
  <2>2. CASE i \notin DOMAIN U
    <3>1. RowLeft(d, a, i)
      BY <1>1, <1>5, <1>11, <2>2, RowsUpdated
    <3> QED
      BY <1>13, <3>1 DEF RowLeft
  <2> QED
    BY <2>1, <2>2
<1> QED
  BY <1>1, <1>7, <1>14, <1>15

LEMMA AnchorFinished ==
  ASSUME NEW c, NEW i, NEW op \in db[c].outbox, db'[c].outbox = db[c].outbox \ {op},
         i \in DOMAIN op.muts,
         NEW y \in replies, y.key = <<c, op.number>>, y.result.kind = "accepted"
  PROVE  Anchor(c, i) = SentData(db[c], i, op.muts[i])
<1> DEFINE finished == {o \in db[c].outbox \ db'[c].outbox :
                          /\ i \in DOMAIN o.muts
                          /\ \E r \in replies : r.key = <<c, o.number>> /\ r.result.kind = "accepted"}
<1>1. finished = {op}
  OBVIOUS
<1>2. Anchor(c, i) = IF finished # {}
                     THEN SentData(db[c], i, (CHOOSE o \in finished : TRUE).muts[i])
                     ELSE IF Retryable(db[c], i)
                     THEN IF db[c].conflict[i].base = None THEN None ELSE db[c].conflict[i].base.data
                     ELSE db[c].shadow[i].data
  BY Zenon DEF Anchor
<1> HIDE DEF finished
<1>3. (CHOOSE o \in finished : TRUE) = op
  BY <1>1
<1> QED
  BY <1>1, <1>2, <1>3

(* Whatever comes of it, a merge with the shadow below keeps what differs  *)
(* from what was seen last.                                                *)
LEMMA ShadowMergeKeeps ==
  ASSUME NEW c \in Clients, NEW d, d = db[c], Replica(d), NEW i \in Ids, NEW f \in Fields, NEW v,
         HasValue(d.local[i], f, v), Departs(From(d, i), f, v),
         \A x \in MergedInto(c, i) : Disagrees(x, f, v),
         NEW remote \in RowOf(i)
  PROVE  HasValue(MergeRow(ShadowRow(d, i), d.local[i], remote).row, f, v)
<1>1. Departs(d.shadow[i].data, f, v)
  <2>1. CASE Retryable(d, i)
    <3>1. d.shadow[i] = None \/ d.shadow[i] \in MergedInto(c, i)
      BY <2>1, AwaitedMerged DEF Awaited
    <3>2. d.shadow[i] = None => d.shadow[i].data = None
      BY ShadowRowForms, EntityIsRow
    <3> QED
      BY <3>1, <3>2 DEF Disagrees, Live, Departs
  <2>2. CASE ~Retryable(d, i)
    BY <2>2 DEF From
  <2> QED
    BY <2>1, <2>2
<1> QED
  BY <1>1, MergeKeeps, ShadowRowForms

LEMMA AcceptedKeeps ==
  ASSUME NEW c \in Clients, NEW d, d = db[c], Replica(d), NEW i \in Ids,
         NEW m \in Mutation, NEW result,
         EntityGroup(result.entities), result.kind = "accepted", Answers(result, i, m),
         Anchor(c, i) = SentData(d, i, m),
         db'[c].local[i] = Answered(d, i, m, result).merged
  PROVE  KeepsEdits(c, i)
<1>1. PICK remote : remote = RecordOf(result.entities[i]) /\ remote \in RowOf(i)
  BY EntityIsRow DEF EntityGroup, Answers
<1>2. PICK sent : sent = SentData(d, i, m)
  OBVIOUS
<1>3. PICK local : local = d.local[i] /\ local \in RowOf(i)
  BY ShadowRowForms
<1>4. Answered(d, i, m, result).merged = Acknowledge(sent, local, remote).row
  BY <1>1, <1>2, <1>3 DEF Answered, Answers
<1>5. ASSUME NEW f \in Fields, NEW v, HasValue(local, f, v), Departs(sent, f, v)
      PROVE  HasValue(Acknowledge(sent, local, remote).row, f, v)
  BY <1>1, <1>3, <1>5, AcknowledgeKeeps
<1>6. local = None => Acknowledge(sent, local, remote).row = None
  <2>1. sent = None => remote = None
    <3>1. sent = None => m.changes = None
      BY <1>2, SentWhole
    <3> QED
      BY <1>1, <3>1 DEF Answers, RecordOf
  <2> QED
    BY <2>1 DEF Acknowledge, Outcome
<1> QED
  BY <1>2, <1>3, <1>4, <1>5, <1>6, KeptFrom DEF LocallyDeleted

(* The merge of an answer with the shadow below keeps edits and deletions: *)
(* of a row that was deleted, only a tombstone or a revision that clashes  *)
(* arrives.                                                                *)
LEMMA ShadowMergeGone ==
  ASSUME NEW d, Replica(d), NEW i \in Ids, NEW H, Story(H), d.shadow[i] \in H,
         NEW remote \in H, remote \in EntityOf(i), remote.rev >= d.shadow[i].rev,
         d.local[i] = None, d.shadow[i].rev > 0
  PROVE  MergeRow(ShadowRow(d, i), d.local[i], RecordOf(remote)).row = None
<1>1. CASE Live(d.shadow[i])
  <2>1. ShadowRow(d, i) # None
    BY <1>1, ShadowRowForms
  <2> QED
    BY <2>1 DEF MergeRow, Outcome
<1>2. CASE ~Live(d.shadow[i])
  <2>1. ~Live(remote)
    BY <1>2 DEF Story
  <2>2. RecordOf(remote) = None
    BY <2>1 DEF RecordOf
  <2> QED
    BY <2>2 DEF MergeRow, Outcome
<1> QED
  BY <1>1, <1>2

LEMMA ShadowMergedKeeps ==
  ASSUME NEW c \in Clients, NEW d, d = db[c], Replica(d), NEW i \in Ids, NEW H, Story(H),
         d.shadow[i] \in H, NEW remote \in H, remote \in EntityOf(i),
         remote.rev >= d.shadow[i].rev, Anchor(c, i) = From(d, i),
         LocallyDeleted(d, i) => Unheard(c, i) \/ d.shadow[i].rev > 0,
         db'[c].local[i] = MergeRow(ShadowRow(d, i), d.local[i], RecordOf(remote)).row
  PROVE  KeepsEdits(c, i)
<1>1. RecordOf(remote) \in RowOf(i)
  BY EntityIsRow
<1>2. ASSUME NEW f \in Fields, NEW v, HasValue(d.local[i], f, v), Departs(From(d, i), f, v),
             \A x \in MergedInto(c, i) : Disagrees(x, f, v)
      PROVE  HasValue(db'[c].local[i], f, v)
  BY <1>1, <1>2, ShadowMergeKeeps
<1>3. LocallyDeleted(d, i) /\ ~Unheard(c, i) => db'[c].local[i] = None
  BY ShadowMergeGone DEF LocallyDeleted
<1> QED
  BY <1>2, <1>3, KeptFrom

LEMMA RefusedKeeps ==
  ASSUME NEW c \in Clients, NEW d, d = db[c], Replica(d), NEW i \in Ids, NEW H, Story(H),
         d.shadow[i] \in H, NEW m, NEW result, result.kind # "accepted",
         EntityGroup(result.entities),
         i \in DOMAIN result.entities =>
           result.entities[i] \in H /\ result.entities[i].rev >= d.shadow[i].rev,
         Anchor(c, i) = From(d, i),
         db'[c].local[i] = Answered(d, i, m, result).merged
  PROVE  KeepsEdits(c, i)
<1>1. PICK remote : /\ remote = IF i \in DOMAIN result.entities THEN result.entities[i]
                                ELSE d.shadow[i]
                    /\ remote \in H /\ remote \in EntityOf(i) /\ remote.rev >= d.shadow[i].rev
  BY ShadowRowForms DEF EntityGroup
<1>2. CASE LocallyDeleted(d, i)
  <2>1. db'[c].local[i] = MergeDeleted(ShadowRow(d, i), RecordOf(remote)).row
    BY <1>1, <1>2 DEF Answered
  <2>2. db'[c].local[i] = d.local[i]
    BY <1>2, <2>1 DEF MergeDeleted, Outcome, LocallyDeleted
  <2> QED
    BY <2>2, UntouchedKeeps
<1>3. CASE ~LocallyDeleted(d, i)
  <2>1. db'[c].local[i] = MergeRow(ShadowRow(d, i), d.local[i], RecordOf(remote)).row
    BY <1>1, <1>3 DEF Answered
  <2> QED
    BY <1>1, <1>3, <2>1, ShadowMergedKeeps
<1> QED
  BY <1>2, <1>3

(* What a replica finishes with is the receipt's result. *)
LEMMA ResultAnswers ==
  ASSUME RepliesReceipted, Matched, AcceptedOk,
         NEW c \in Clients, NEW op \in db[c].outbox, NEW y \in replies,
         y.key = <<c, op.number>>
  PROVE  /\ \A i \in DOMAIN op.muts : Answers(y.result, i, op.muts[i])
         /\ \A z \in replies : z.key = y.key => z.result = y.result
<1>1. PICK r \in receipts : r.key = y.key /\ r.result = y.result
  BY DEF RepliesReceipted
<1>2. r.muts = op.muts
  BY <1>1 DEF Matched
<1>3. \A i \in DOMAIN op.muts : Answers(y.result, i, op.muts[i])
  BY <1>1, <1>2 DEF AcceptedOk, Answers
<1>4. \A z \in replies : z.key = y.key => z.result = y.result
  BY DEF RepliesReceipted
<1> QED
  BY <1>3, <1>4

LEMMA FinishedKeeps ==
  ASSUME ReplicasInv, RepliesReceipted, WritersInv, Numbered, Graves, AcceptedOk, NEW c \in Clients, NEW op \in db[c].outbox, NEW y \in replies,
         y.key = <<c, op.number>>, Finish(c, op, y.result), Waits(db[c])
  PROVE  OthersSame(c) /\ Waits(db'[c]) /\ \A i \in Ids : KeepsEdits(c, i)
<1>1. Typed /\ AllReplicas /\ Outboxes /\ Matched
  BY DEF ReplicasInv
<1>2. PICK result : result = y.result
  OBVIOUS
<1>3. /\ HistoricalGroup(result.entities) /\ EntityGroup(result.entities)
      /\ \A i \in DOMAIN op.muts \cap DOMAIN result.entities :
           result.entities[i].rev >= op.muts[i].base
  BY <1>2, ReplyForms
<1>4. IsMutations(op.muts)
  BY <1>1 DEF Outboxes, OutboxOk
<1>5. /\ \A i \in DOMAIN op.muts : Answers(result, i, op.muts[i])
      /\ \A z \in replies : z.key = y.key => z.result = result
  BY <1>1, <1>2, ResultAnswers
<1>6. /\ OthersSame(c) /\ ~ShadowMoved(db[c], op)
      /\ db'[c].outbox = db[c].outbox \ {op}
  BY <1>1, <1>2, <1>3, <1>4, FinishApplied
<1>7. /\ Waits(db'[c])
      /\ \A i \in Ids :
           \/ db'[c].local[i] = db[c].local[i]
           \/ /\ i \in DOMAIN op.muts
              /\ db'[c].local[i] = Answered(db[c], i, op.muts[i], result).merged
           \/ /\ i \in DOMAIN result.entities \ DOMAIN op.muts
              /\ result.entities[i].rev > db[c].shadow[i].rev
              /\ db'[c].local[i] = SideEffect(db[c], i, result.entities[i]).merged
  BY <1>1, <1>2, <1>3, <1>4, <1>5, FinishRows
<1>8. PICK d : d = db[c] /\ Replica(d)
  BY <1>1 DEF AllReplicas
<1>9. ASSUME NEW i \in Ids
      PROVE  KeepsEdits(c, i)
  <2>1. Story(HistoryOf(i))
    BY <1>1, HistoryIsStory
  <2>2. d.shadow[i] \in HistoryOf(i) /\ d.shadow[i].rev \in Nat
    BY <1>8, ReplicaForms, InHistory
  <2>3. i \in DOMAIN result.entities =>
          /\ result.entities[i] \in HistoryOf(i) /\ result.entities[i] \in EntityOf(i)
          /\ result.entities[i].rev \in Nat
    BY <1>3, InHistory DEF HistoricalGroup, EntityGroup, EntityOf, Entity
  <2>4. i \in DOMAIN op.muts /\ i \in DOMAIN result.entities =>
          result.entities[i].rev >= d.shadow[i].rev
    BY <1>3, <1>6, <1>8 DEF ShadowMoved
  <2>5. ASSUME i \notin DOMAIN op.muts \/ result.kind # "accepted"
        PROVE  Anchor(c, i) = From(d, i)
    BY <1>5, <1>6, <1>8, <2>5, AnchorUnfinished
  <2>6. CASE db'[c].local[i] = db[c].local[i]
    BY <2>6, UntouchedKeeps
  <2>7. CASE /\ i \in DOMAIN op.muts
             /\ db'[c].local[i] = Answered(db[c], i, op.muts[i], result).merged
    <3>1. PICK m \in Mutation : m = op.muts[i]
      BY <1>4, <2>7 DEF IsMutations
    <3>2. CASE result.kind = "accepted"
      <4>1. Anchor(c, i) = SentData(d, i, m)
        BY <1>2, <1>6, <1>8, <2>7, <3>1, <3>2, AnchorFinished
      <4> QED
        BY <1>3, <1>5, <1>8, <2>7, <3>1, <3>2, <4>1, AcceptedKeeps
    <3>3. CASE result.kind # "accepted"
      BY <1>3, <1>8, <2>1, <2>2, <2>3, <2>4, <2>5, <2>7, <3>1, <3>3, RefusedKeeps
    <3> QED
      BY <3>2, <3>3
  <2>8. CASE /\ i \in DOMAIN result.entities \ DOMAIN op.muts
             /\ result.entities[i].rev > db[c].shadow[i].rev
             /\ db'[c].local[i] = SideEffect(db[c], i, result.entities[i]).merged
    <3>1. PICK remote : remote = result.entities[i] /\ remote.rev >= d.shadow[i].rev
      BY <1>8, <2>2, <2>3, <2>8
    <3>2. db'[c].local[i] = MergeRow(ShadowRow(d, i), d.local[i], RecordOf(remote)).row
      BY <1>8, <2>8, <3>1 DEF SideEffect
    <3>3. Unheard(c, i) \/ d.shadow[i].rev > 0
      BY <1>6, <1>8, <2>2, <2>8 DEF Unheard
    <3> QED
      BY <1>8, <2>1, <2>2, <2>3, <2>5, <2>8, <3>1, <3>2, <3>3, ShadowMergedKeeps
  <2> QED
    BY <1>7, <2>6, <2>7, <2>8
<1> QED
  BY <1>6, <1>7, <1>9

LEMMA FinishKeepsEdits ==
  ASSUME EditInv, NEW c \in Clients, NEW f \in Feeds, FinishPush(c, f)
  PROVE  OthersSame(c) /\ Waits(db'[c]) /\ \A i \in Ids : KeepsEdits(c, i)
<1>1. CASE UNCHANGED db
  BY <1>1, UntouchedKeeps DEF EditInv, OthersSame
<1>2. CASE db' # db
  <2>1. PICK op \in db[c].outbox : \E y \in replies : y.key = <<c, op.number>> /\ Finish(c, op, y.result)
    BY <1>2 DEF FinishPush
  <2> QED
    BY <2>1, ReplicasHold, HistoryNumbers, FinishedKeeps DEF EditInv, SystemInv, ServerInv
<1> QED
  BY <1>1, <1>2

-----------------------------------------------------------------------------
(* Every step.                                                             *)

(* The other steps leave every visible row alone. *)
LEMMA CalmKeeps ==
  ASSUME \A k \in Clients : Waits(db[k]),
         NEW c \in Clients, OthersSame(c), db'[c].local = db[c].local, Waits(db'[c])
  PROVE  (\A k \in Clients : Waits(db'[k])) /\ \A k \in Clients, i \in Ids : KeepsEdits(k, i)
<1>1. \A k \in Clients : Waits(db'[k])
  BY DEF OthersSame
<1>2. \A k \in Clients, i \in Ids : db'[k].local[i] = db[k].local[i]
  BY DEF OthersSame
<1> QED
  BY <1>1, <1>2, UntouchedKeeps

LEMMA EngineKeepsEdits ==
  ASSUME EditInv, NEW c \in Clients, NEW f \in Feeds, EngineStep(c, f)
  PROVE  (\A k \in Clients : Waits(db'[k])) /\ \A k \in Clients, i \in Ids : KeepsEdits(k, i)
<1>1. SystemInv /\ AllReplicas /\ \A k \in Clients : Waits(db[k])
  BY DEF EditInv, SystemInv
<1>2. ASSUME OthersSame(c), Waits(db'[c]), \A i \in Ids : KeepsEdits(c, i)
      PROVE  (\A k \in Clients : Waits(db'[k])) /\ \A k \in Clients, i \in Ids : KeepsEdits(k, i)
  <2>1. \A k \in Clients : Waits(db'[k])
    BY <1>2 DEF EditInv, OthersSame
  <2>2. \A k \in Clients \ {c}, i \in Ids : KeepsEdits(k, i)
    BY <1>2, UntouchedKeeps DEF OthersSame
  <2> QED
    BY <1>2, <2>1, <2>2
<1>3. CASE FinishPush(c, f)
  BY <1>2, <1>3, FinishKeepsEdits
<1>4. CASE Receive(c, f)
  BY <1>2, <1>4, ReceiveKeepsEdits
<1>5. CASE UNCHANGED db
  BY <1>1, <1>5, CalmKeeps DEF OthersSame
<1>6. CASE Resend(c, f) \/ Load(c, f) \/ GiveUp(c, f)
  BY <1>5, <1>6 DEF Resend, Load, GiveUp
<1>7. CASE PrepareAndSend(c, f)
  BY <1>1, <1>7, PrepareWaits, PrepareApplied, CalmKeeps DEF PrepareAndSend
<1>8. CASE Tidy(c, f)
  BY <1>1, <1>8, TidyWaits, TidyApplied, CalmKeeps DEF Tidy
<1>9. CASE Pull(c, f)
  <2>1. RequireReset(c, f) \/ UNCHANGED db
    BY <1>9, Zenon DEF Pull
  <2> QED
    BY <1>1, <1>5, <2>1, ResetWaits, ResetApplied, CalmKeeps
<1> QED
  BY <1>3, <1>4, <1>6, <1>7, <1>8, <1>9 DEF EngineStep

LEMMA StepKeepsEdits ==
  ASSUME EditInv, [SystemNext]_systemVars
  PROVE  /\ \A k \in Clients : Waits(db'[k])
         /\ edits' = edits => \A k \in Clients, i \in Ids : KeepsEdits(k, i)
<1>1. SystemInv /\ AllReplicas
  BY DEF EditInv, SystemInv
<1>2. CASE UNCHANGED db
  BY <1>2, UntouchedKeeps DEF EditInv
<1>3. ASSUME NEW c \in Clients, Edit(c)
      PROVE  (\A k \in Clients : Waits(db'[k])) /\ edits' # edits
  <2>1. OthersSame(c)
    BY <1>1, <1>3, EditApplied DEF Edit
  <2>2. Waits(db'[c])
    BY <1>1, <1>3, EditWaits DEF EditInv
  <2>3. edits' # edits
    BY <1>1, <1>3 DEF Edit, SystemInv, Counters
  <2> QED
    BY <2>1, <2>2, <2>3 DEF EditInv, OthersSame
<1>4. ASSUME NEW c \in Clients, Deliver(c)
      PROVE  UNCHANGED db
  BY <1>4 DEF Deliver
<1>5. ASSUME NEW c \in Clients, NEW f \in Feeds, EngineStep(c, f)
      PROVE  (\A k \in Clients : Waits(db'[k])) /\ \A k \in Clients, i \in Ids : KeepsEdits(k, i)
  BY <1>5, EngineKeepsEdits
<1>6. CASE ServerStep \/ UNCHANGED systemVars
  BY <1>2, <1>6 DEF ServerStep, systemVars
<1> QED
  BY <1>2, <1>3, <1>4, <1>5, <1>6 DEF SystemNext

LEMMA EditInvInitially ==
  ASSUME SystemInit
  PROVE  EditInv
<1>1. AcceptedOk
  BY DEF SystemInit, AcceptedOk
<1>2. Graves
  <2>1. \A i \in Ids : \A n, m \in GroupsOf(i) : n = m
    BY SeededHistory DEF SystemInit, SeededServer
  <2> QED
    BY <2>1 DEF Graves
<1> QED
  BY <1>1, <1>2, SystemInitially, WaitsInitially DEF EditInv

LEMMA EditInvInductive ==
  ASSUME EditInv, [SystemNext]_systemVars
  PROVE  EditInv'
<1>1. SystemInv /\ AcceptedOk /\ Graves /\ Typed /\ History
  BY DEF EditInv, SystemInv, ServerInv
<1>2. SystemInv'
  BY <1>1, SystemInductive
<1>3. Step
  BY <1>1, SystemServerStep
<1>4. AcceptedOk' /\ Graves'
  BY <1>1, <1>3, AcceptedStays, GravesStay
<1> QED
  BY <1>2, <1>4, StepKeepsEdits DEF EditInv

(* Synchronization never takes an edit away: whatever arrives, in whatever *)
(* order, and however operations and pages of several feeds cross, a field *)
(* the application edited keeps its value, and a row it deleted stays      *)
(* deleted, until it is sent and accepted, the server has the same value,  *)
(* or the application resolves a conflict (merge, acknowledge,             *)
(* finish_result, apply, retry_blocked).                                   *)
THEOREM EditsSurvive == SystemSpec => SyncKeepsEdits
<1>1. SystemInit => EditInv
  BY EditInvInitially
<1>2. EditInv /\ [SystemNext]_systemVars => EditInv'
  BY EditInvInductive
<1>3. EditInv /\ [SystemNext]_systemVars =>
        [edits' = edits => \A c \in Clients : \A i \in Ids : KeepsEdits(c, i)]_systemVars
  BY StepKeepsEdits
<1> QED
  BY <1>1, <1>2, <1>3, PTL DEF SystemSpec, SyncKeepsEdits
=============================================================================
