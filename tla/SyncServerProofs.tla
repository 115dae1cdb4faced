-------------------------- MODULE SyncServerProofs --------------------------
(***************************************************************************)
(* What holds of the server for any parents, children, values, ON DELETE   *)
(* actions, policies and requests: its types, the references between its   *)
(* rows, the single outcome of an operation, and that no accepted write is *)
(* lost under another.                                                     *)
(*                                                                         *)
(* Sound collects what the guards of an accepted operation and of the      *)
(* server's own writes have established when apply_and_journal runs;       *)
(* GroupEffect says what the group then does to the rows; Steps reduces    *)
(* every action to one of five forms, over which the invariants are shown. *)
(***************************************************************************)
EXTENDS SyncServer, FiniteSetTheorems, TLAPS

-----------------------------------------------------------------------------
(* Numbers.                                                                *)

(* Induction on n \in S. *)
LEMMA Induction ==
  ASSUME NEW S, 0 \in S, \A n \in Nat : n \in S => n + 1 \in S
  PROVE  Nat \subseteq S
<1> DEFINE R == {ss \in Nat \X Nat : ss[1] < ss[2]}
           T == Nat \ S
<1>1. IsWellFoundedOn(R, Nat)
  BY NatLessThanWellFounded DEF OpToRel
<1>2. SUFFICES ASSUME T # {}
               PROVE  FALSE
  OBVIOUS
<1>3. \E x \in T : \A y \in T : <<y, x>> \notin R
  <2> HIDE DEF R
  <2> QED
    BY <1>1, <1>2, WFMin
<1>4. PICK x \in T : \A y \in T : ~(y < x)
  BY <1>3
<1>5. x \in Nat /\ x # 0 /\ x - 1 \in Nat /\ x - 1 \notin T
  BY <1>4
<1> QED
  BY <1>4, <1>5

(* A nonempty set of numbers up to k has a last one. *)
LEMMA LastOf ==
  ASSUME NEW k \in Nat, NEW T \in SUBSET (0..k), T # {}
  PROVE  \E n \in T : \A m \in T : m <= n
<1> DEFINE S == {n \in Nat : \A U \in SUBSET (0..n) : U # {} => \E x \in U : \A y \in U : y <= x}
<1>1. 0 \in S
  <2> SUFFICES ASSUME NEW U \in SUBSET (0..0), U # {}
               PROVE  \E x \in U : \A y \in U : y <= x
    OBVIOUS
  <2>1. \A y \in U : y = 0
    OBVIOUS
  <2>2. PICK x \in U : TRUE
    OBVIOUS
  <2>3. \A y \in U : y <= x
    BY <2>1, x = 0
  <2> QED
    BY <2>3
<1>2. ASSUME NEW n \in Nat, n \in S
      PROVE  n + 1 \in S
  <2> SUFFICES ASSUME NEW U \in SUBSET (0..n + 1), U # {}
               PROVE  \E x \in U : \A y \in U : y <= x
    OBVIOUS
  <2>1. CASE n + 1 \in U
    BY <2>1
  <2>2. CASE n + 1 \notin U
    BY <1>2, <2>2, U \in SUBSET (0..n)
  <2> QED
    BY <2>1, <2>2
<1>3. k \in S
  <2> HIDE DEF S
  <2> QED
    BY <1>1, <1>2, Induction
<1> QED
  BY <1>3

-----------------------------------------------------------------------------
(* Data of one row.                                                        *)

LEMMA DataForms ==
  ASSUME NEW i \in Ids, NEW d \in DataOf(i)
  PROVE  /\ d \in [Fields -> FieldValue]
         /\ d \in Data
         /\ d # None
         /\ d["val"] \in Values
         /\ d["ref"] \in Parents \cup {None}
         /\ i \notin Children => d["ref"] = None
BY DataAssumption DEF DataOf, Data

LEMMA DataIntro ==
  ASSUME NEW i \in Ids, NEW d,
         d = [f \in Fields |-> d[f]],
         d["val"] \in Values,
         d["ref"] \in Parents \cup {None},
         i \notin Children => d["ref"] = None
  PROVE  d \in DataOf(i)
<1>1. \A f \in Fields : d[f] \in FieldValue
  BY DEF Fields, FieldValue
<1>2. d \in Data
  BY <1>1 DEF Data
<1> QED
  BY <1>2 DEF DataOf

(* A patch that the model accepts leads from a row of the model to a row   *)
(* of the model, and creates one when it has the required field.           *)
LEMMA OverlayData ==
  ASSUME NEW i \in Ids, NEW data \in DataOf(i) \cup {None}, NEW ch \in PatchOf(i),
         data = None => "val" \in DOMAIN ch
  PROVE  Overlay(data, ch) \in DataOf(i)
<1> DEFINE d == Overlay(data, ch)
<1>1. d = [f \in Fields |-> d[f]]
  BY DEF Overlay
<1>2. \A f \in Fields : d[f] = IF f \in DOMAIN ch THEN ch[f]
                               ELSE IF data = None THEN None ELSE data[f]
  BY DEF Overlay
<1>3. /\ DOMAIN ch \subseteq FieldsOf(i)
      /\ \A f \in DOMAIN ch : ch[f] \in FieldType(f)
  BY DEF PatchOf
<1>4. d["val"] \in Values
  <2>1. CASE "val" \in DOMAIN ch
    BY <1>2, <1>3, <2>1 DEF FieldType, Fields
  <2>2. CASE "val" \notin DOMAIN ch
    BY <1>2, <2>2, DataForms DEF Fields
  <2> QED
    BY <2>1, <2>2
<1>5. d["ref"] \in Parents \cup {None} /\ (i \notin Children => d["ref"] = None)
  <2>1. CASE "ref" \in DOMAIN ch
    <3>1. ch["ref"] \in Parents \cup {None}
      BY <1>3, <2>1 DEF FieldType
    <3>2. i \in Children
      BY <1>3, <2>1 DEF FieldsOf
    <3> QED
      BY <1>2, <2>1, <3>1, <3>2 DEF Fields
  <2>2. CASE "ref" \notin DOMAIN ch
    <3>1. d["ref"] = IF data = None THEN None ELSE data["ref"]
      BY <1>2, <2>2 DEF Fields
    <3> QED
      BY <3>1, DataForms
  <2> QED
    BY <2>1, <2>2
<1> QED
  BY <1>1, <1>4, <1>5, DataIntro

(* What the entity and the visible row of id i may be. *)
EntityOf(i) == {e \in Entity : e.data \in DataOf(i) \cup {None}}

RowOf(i) == {r \in Record : r.data \in DataOf(i)} \cup {None}

LEMMA RowForms ==
  ASSUME NEW i \in Ids, NEW r \in RowOf(i)
  PROVE  r # None => /\ r \in Record
                     /\ r = [rev |-> r.rev, data |-> r.data]
                     /\ r.rev \in Nat
                     /\ r.data \in DataOf(i)
                     /\ r.data # None
BY DataForms DEF RowOf, Record

LEMMA RowIntro ==
  ASSUME NEW i \in Ids, NEW n \in Nat, NEW data \in DataOf(i)
  PROVE  /\ [rev |-> n, data |-> data] \in RowOf(i)
         /\ [rev |-> n, data |-> data] # None
<1>1. data \in Data
  BY DataForms
<1>2. [rev |-> n, data |-> data] \in Record
  BY <1>1 DEF Record
<1> QED
  BY <1>2, DataAssumption DEF RowOf

LEMMA EntityIsRow ==
  ASSUME NEW i \in Ids, NEW e \in EntityOf(i)
  PROVE  /\ RecordOf(e) \in RowOf(i)
         /\ RecordOf(e) = None <=> e.data = None
         /\ RecordOf(e) # None => RecordOf(e) = e
         /\ e = [rev |-> e.rev, data |-> e.data]
         /\ e.rev \in Nat
         /\ e.data \in DataOf(i) \cup {None}
<1>1. e = [rev |-> e.rev, data |-> e.data] /\ e.rev \in Nat /\ e.data \in DataOf(i) \cup {None}
  BY DEF EntityOf, Entity
<1>2. e.data # None => e \in RowOf(i) /\ e # None
  BY <1>1, RowIntro
<1> QED
  BY <1>1, <1>2 DEF RecordOf, Live, RowOf

LEMMA AbsentEntity ==
  ASSUME NEW i \in Ids
  PROVE  Absent \in EntityOf(i)
BY DEF Absent, EntityOf, Entity

-----------------------------------------------------------------------------
(* The invariant.                                                          *)

(* The groups that the journal is made of. *)
Groups == UNION {{g \in [S -> Entity] : \A i \in S : g[i] \in EntityOf(i)} : S \in SUBSET Ids}

RowsTyped == row \in [Ids -> Entity] /\ \A i \in Ids : row[i] \in EntityOf(i)

(* The types without the receipt keys, whose set a composed system chooses. *)
Typed ==
  /\ RowsTyped
  /\ journal \in Seq(Groups)
  /\ retained \subseteq 1..Len(journal)
  /\ \A r \in receipts : IsMutations(r.muts) /\ IsGroup(r.result.entities)
  /\ \A r \in replies : IsGroup(r.result.entities)

KeysTyped == \A r \in receipts \cup replies : r.key \in Keys

(* An accepted operation has moved its entities beyond the base revisions. *)
BasesConsumed ==
  \A r \in receipts : r.result.kind = "accepted" =>
    \A i \in DOMAIN r.muts : r.muts[i].base < row[i].rev

(* Receipts are functional, and replies only repeat them. *)
RepliesReceipted ==
  /\ \A a, b \in receipts : a.key = b.key => a = b
  /\ \A y \in replies : \E r \in receipts : r.key = y.key /\ r.result = y.result

(* What has been established of a group when it is applied. *)
Sound(muts) ==
  /\ IsMutations(muts)
  /\ \A i \in Upserts(muts) :
       /\ muts[i].changes \in PatchOf(i)
       /\ ~Tombstone(row[i])
       /\ Live(row[i]) \/ "val" \in DOMAIN muts[i].changes

-----------------------------------------------------------------------------
(* What a group does to the rows.                                          *)

LEMMA EntityForms ==
  ASSUME Typed, NEW i \in Ids
  PROVE  /\ row[i].rev \in Nat
         /\ row[i].data \in DataOf(i) \cup {None}
         /\ row[i] = [rev |-> row[i].rev, data |-> row[i].data]
BY DEF Typed, RowsTyped, Entity, EntityOf

LEMMA UpsertedData ==
  ASSUME Typed, NEW muts, Sound(muts), NEW i \in Ids
  PROVE  /\ Upserted(muts)[i] \in DataOf(i) \cup {None}
         /\ i \in Upserts(muts) => Upserted(muts)[i] # None
         /\ i \notin Upserts(muts) => Upserted(muts)[i] = row[i].data
<1>1. CASE i \in Upserts(muts)
  <2>1. Upserted(muts)[i] = Overlay(row[i].data, muts[i].changes)
    BY <1>1 DEF Upserted
  <2>2. /\ muts[i].changes \in PatchOf(i)
        /\ row[i].data = None => "val" \in DOMAIN muts[i].changes
    BY <1>1 DEF Sound, Live
  <2>3. Upserted(muts)[i] \in DataOf(i)
    BY <2>1, <2>2, OverlayData, EntityForms
  <2> QED
    BY <1>1, <2>3, DataForms
<1>2. CASE i \notin Upserts(muts)
  BY <1>2, EntityForms DEF Upserted
<1> QED
  BY <1>1, <1>2

LEMMA DeletedData ==
  ASSUME Typed, NEW muts, Sound(muts), NEW i \in Ids
  PROVE  /\ Deleted(muts)[i] \in DataOf(i) \cup {None}
         /\ Upserted(muts)[i] = None => Deleted(muts)[i] = None
<1> DEFINE u == Upserted(muts)[i]
<1>1. CASE i \in Deletions(muts) \/ (i \in Reached(muts) /\ OnDelete[i] = "cascade")
  BY <1>1 DEF Deleted
<1>2. CASE i \notin Deletions(muts) /\ i \in Reached(muts) /\ OnDelete[i] # "cascade"
  <2>1. Deleted(muts)[i] = [u EXCEPT !["ref"] = None]
    BY <1>2 DEF Deleted
  <2>2. i \in Children /\ u # None
    BY <1>2 DEF Reached, Referring
  <2>3. u \in DataOf(i)
    BY <2>2, UpsertedData
  <2>4. u \in [Fields -> FieldValue] /\ u["val"] \in Values
    BY <2>3, DataForms
  <2>5. [u EXCEPT !["ref"] = None] = [f \in Fields |-> [u EXCEPT !["ref"] = None][f]]
    BY <2>4
  <2>6. [u EXCEPT !["ref"] = None]["val"] \in Values
    BY <2>4 DEF Fields
  <2>7. [u EXCEPT !["ref"] = None]["ref"] = None
    BY <2>4 DEF Fields
  <2>8. [u EXCEPT !["ref"] = None] \in DataOf(i)
    BY <2>2, <2>5, <2>6, <2>7, DataIntro
  <2> QED
    BY <2>1, <2>2, <2>8
<1>3. CASE i \notin Deletions(muts) /\ i \notin Reached(muts)
  BY <1>3, UpsertedData DEF Deleted
<1> QED
  BY <1>1, <1>2, <1>3

(* The rows stay rows of their models, affected entities move one revision *)
(* forward and the others keep theirs, and tombstones stay tombstones.     *)
LEMMA GroupEffect ==
  ASSUME Typed, NEW muts, Sound(muts)
  PROVE  /\ Affected(muts) \subseteq Ids
         /\ DOMAIN muts \subseteq Affected(muts)
         /\ Stamped(muts) \in [Ids -> Entity]
         /\ \A i \in Ids :
              /\ Stamped(muts)[i].data = Deleted(muts)[i]
              /\ Stamped(muts)[i].data \in DataOf(i) \cup {None}
              /\ i \in Affected(muts) => Stamped(muts)[i].rev = row[i].rev + 1
              /\ i \notin Affected(muts) => Stamped(muts)[i].rev = row[i].rev
              /\ Tombstone(row[i]) => Tombstone(Stamped(muts)[i])
<1>1. Affected(muts) \subseteq Ids /\ DOMAIN muts \subseteq Affected(muts)
  BY DEF Affected, Touched, Referring, Sound, IsMutations, Ids
<1>2. ASSUME NEW i \in Ids
      PROVE  /\ Stamped(muts)[i] \in Entity
             /\ Stamped(muts)[i].data = Deleted(muts)[i]
             /\ i \in Affected(muts) => Stamped(muts)[i].rev = row[i].rev + 1
             /\ i \notin Affected(muts) => Stamped(muts)[i].rev = row[i].rev
  <2> row[i].rev \in Nat
    BY EntityForms
  <2>1. Deleted(muts)[i] \in Data \cup {None}
    BY DeletedData, DataForms
  <2>2. CASE i \in Affected(muts)
    <3>1. Stamped(muts)[i] = [rev |-> row[i].rev + 1, data |-> Deleted(muts)[i]]
      BY <2>2 DEF Stamped
    <3> QED
      BY <2>1, <2>2, <3>1 DEF Entity
  <2>3. CASE i \notin Affected(muts)
    <3>1. Stamped(muts)[i] = [rev |-> row[i].rev, data |-> Deleted(muts)[i]]
      BY <2>3 DEF Stamped
    <3> QED
      BY <2>1, <2>3, <3>1 DEF Entity
  <2> QED
    BY <2>2, <2>3
<1>3. Stamped(muts) \in [Ids -> Entity]
  BY <1>2 DEF Stamped
<1>4. ASSUME NEW i \in Ids, Tombstone(row[i])
      PROVE  Tombstone(Stamped(muts)[i])
  <2>1. row[i].data = None /\ row[i].rev > 0 /\ i \notin Upserts(muts)
    BY <1>4 DEF Tombstone, Live, Sound
  <2>2. Upserted(muts)[i] = None
    BY <2>1 DEF Upserted
  <2>3. Deleted(muts)[i] = None
    BY <2>2, DeletedData
  <2>4. Stamped(muts)[i].rev > 0
    <3>1. Stamped(muts)[i].rev = row[i].rev + 1 \/ Stamped(muts)[i].rev = row[i].rev
      BY <1>2
    <3>2. row[i].rev \in Nat
      BY EntityForms
    <3> QED
      BY <2>1, <3>1, <3>2
  <2>5. Stamped(muts)[i].data = None
    BY <1>2, <2>3
  <2> QED
    BY <2>4, <2>5 DEF Tombstone, Live
<1> QED
  BY <1>1, <1>2, <1>3, <1>4, DeletedData

-----------------------------------------------------------------------------
(* The forms of a step.                                                    *)

OwnStep(muts) ==
  /\ Sound(muts)
  /\ ApplyAndJournal(muts)
  /\ UNCHANGED <<receipts, replies>>

AcceptStep(req) == Sound(req.muts) /\ Accept(req)

(* The entities of a refusal are rows of the moment. *)
RefuseStep(req, result) ==
  /\ ~Receipted(req)
  /\ IsMutations(req.muts)
  /\ \A i \in DOMAIN result.entities : result.entities[i] = row[i]
  /\ DOMAIN result.entities \subseteq Ids
  /\ result.entities = [i \in DOMAIN result.entities |-> result.entities[i]]
  /\ result.kind \in {"conflict", "rejected"}
  /\ DOMAIN result.entities = IF result.kind = "conflict" THEN DOMAIN req.muts ELSE {}
  /\ Answer(req, result)
  /\ UNCHANGED <<row, journal, retained>>

(* A reply is sent again, to the operation that has its receipt. *)
RepeatStep(r) ==
  /\ r \in receipts
  /\ replies' = replies \cup {[key |-> r.key, result |-> r.result]}
  /\ UNCHANGED <<row, journal, retained, receipts>>

PruneStep ==
  /\ retained' \subseteq retained
  /\ UNCHANGED <<row, journal, receipts, replies>>

(* What any component that works on this state through the server does. *)
Step ==
  \/ \E muts : OwnStep(muts)
  \/ \E req : AcceptStep(req)
  \/ \E req, result : RefuseStep(req, result)
  \/ \E r : RepeatStep(r)
  \/ PruneStep
  \/ UNCHANGED serverVars

(* The checks of push_transaction make the group sound. *)
LEMMA AcceptSound ==
  ASSUME Typed, NEW req, IsMutations(req.muts), Accept(req)
  PROVE  AcceptStep(req)
<1> DEFINE muts == req.muts
<1>1. IsMutations(muts)
  OBVIOUS
<1>2. ASSUME NEW i \in Upserts(muts)
      PROVE  /\ muts[i].changes \in PatchOf(i)
             /\ ~Tombstone(row[i])
             /\ Live(row[i]) \/ "val" \in DOMAIN muts[i].changes
  <2>1. i \in DOMAIN muts /\ i \in Ids /\ muts[i].changes # None
    BY <1>1 DEF Upserts, IsMutations
  <2>2. muts[i].base = row[i].rev
    BY <2>1 DEF Accept, Stale
  <2>3. muts[i].changes \in PatchOf(i) /\ ~Tombstone(row[i])
    BY <2>1, <2>2 DEF Accept, Malformed
  <2>4. CASE ~Live(row[i])
    <3>1. row[i].rev = 0
      <4>1. row[i].rev \in Nat
        BY <2>1, EntityForms
      <4> QED
        BY <2>3, <2>4, <4>1 DEF Tombstone
    <3>2. CreatesComplete(muts)
      BY DEF Accept, ApplyAndJournal, Applicable
    <3> QED
      BY <2>2, <2>3, <3>1, <3>2 DEF CreatesComplete
  <2> QED
    BY <2>3, <2>4
<1> QED
  BY <1>1, <1>2 DEF AcceptStep, Sound

LEMMA HereMutations ==
  ASSUME Typed, NEW S \in SUBSET Ids, NEW ch \in Patch \cup {None}
  PROVE  IsMutations(Here(S, ch)) /\ DOMAIN Here(S, ch) = S
<1>1. \A i \in S : [base |-> row[i].rev, changes |-> ch] \in Mutation
  BY EntityForms DEF Mutation
<1> QED
  BY <1>1 DEF Here, IsMutations

LEMMA InsertPatch ==
  ASSUME NEW i \in Ids, NEW d \in DataOf(i)
  PROVE  /\ [f \in FieldsOf(i) |-> d[f]] \in PatchOf(i)
         /\ "val" \in DOMAIN [f \in FieldsOf(i) |-> d[f]]
<1> DEFINE ch == [f \in FieldsOf(i) |-> d[f]]
<1>1. FieldsOf(i) \subseteq Fields /\ "val" \in FieldsOf(i)
  BY DEF FieldsOf, Fields
<1>2. \A f \in FieldsOf(i) : ch[f] \in FieldValue /\ ch[f] \in FieldType(f)
  <2> SUFFICES ASSUME NEW f \in FieldsOf(i)
               PROVE  d[f] \in FieldValue /\ d[f] \in FieldType(f)
    OBVIOUS
  <2>1. f = "val" \/ f = "ref"
    BY <1>1 DEF Fields
  <2> QED
    BY <2>1, DataForms DEF FieldType, FieldValue
<1>3. ch \in [FieldsOf(i) -> FieldValue]
  BY <1>2
<1>4. ch \in Patch
  BY <1>1, <1>3 DEF Patch
<1> QED
  BY <1>1, <1>2, <1>4 DEF PatchOf

(* A write through the ORM has its base under the lock. *)
LEMMA OwnSound ==
  ASSUME Typed, ServerWrite
  PROVE  \E muts : OwnStep(muts)
<1>1. ASSUME NEW i \in Ids, NEW d \in DataOf(i), OrmInsert(i, [f \in FieldsOf(i) |-> d[f]])
      PROVE  \E muts : OwnStep(muts)
  <2> DEFINE ch == [f \in FieldsOf(i) |-> d[f]]
             muts == Here({i}, ch)
  <2>1. ch \in PatchOf(i) /\ "val" \in DOMAIN ch /\ ch \in Patch
    BY InsertPatch DEF PatchOf
  <2>2. IsMutations(muts) /\ DOMAIN muts = {i}
    BY <2>1, HereMutations
  <2>3. muts[i].changes = ch
    BY DEF Here
  <2>4. ~Tombstone(row[i])
    BY <1>1 DEF OrmInsert, Tombstone
  <2>5. Sound(muts)
    <3> HIDE DEF ch, muts
    <3> QED
      BY <2>1, <2>2, <2>3, <2>4 DEF Sound, Upserts
  <2> QED
    BY <1>1, <2>5 DEF OrmInsert, OrmWrite, OwnStep
<1>2. ASSUME NEW S \in SUBSET Ids, OrmDelete(S)
      PROVE  \E muts : OwnStep(muts)
  <2>1. IsMutations(Here(S, None))
    BY HereMutations
  <2>2. Upserts(Here(S, None)) = {}
    BY DEF Upserts, Here
  <2> QED
    BY <1>2, <2>1, <2>2 DEF OrmDelete, OrmWrite, OwnStep, Sound
<1>3. ASSUME NEW S \in SUBSET Ids, NEW p \in Patch, \A i \in S : p \in PatchOf(i), OrmUpdate(S, p)
      PROVE  \E muts : OwnStep(muts)
  <2>1. IsMutations(Here(S, p)) /\ DOMAIN Here(S, p) = S
    BY HereMutations
  <2>2. \A i \in S : Here(S, p)[i].changes = p /\ Live(row[i])
    BY <1>3 DEF Here, OrmUpdate
  <2>3. Sound(Here(S, p))
    BY <1>3, <2>1, <2>2 DEF Sound, Upserts, Tombstone
  <2> QED
    BY <1>3, <2>3 DEF OrmUpdate, OrmWrite, OwnStep
<1>4. \A T \in Tables : T \subseteq Ids
  BY DEF Tables, Ids
<1> QED
  BY <1>1, <1>2, <1>3, <1>4 DEF ServerWrite

(* Refusals and rejections write nothing but the receipt. *)
LEMMA RefusalForms ==
  ASSUME Typed, NEW req, IsMutations(req.muts), Refused(req) \/ Reject(req)
  PROVE  \E result : RefuseStep(req, result)
<1>1. CASE Refused(req)
  <2> DEFINE entities == [i \in DOMAIN req.muts |-> row[i]]
  <2>1. DOMAIN req.muts \subseteq Ids
    BY DEF IsMutations
  <2>2. RefuseStep(req, Result("conflict", entities))
    BY <1>1, <2>1 DEF RefuseStep, Refused, Result
  <2> QED
    BY <2>2
<1>2. CASE Reject(req)
  <2>1. RefuseStep(req, Result("rejected", [i \in {} |-> Absent]))
    BY <1>2 DEF RefuseStep, Reject, Result
  <2> QED
    BY <2>1
<1> QED
  BY <1>1, <1>2

(* A push of any typed request has one of the forms. *)
LEMMA PushForms ==
  ASSUME Typed, NEW req, IsMutations(req.muts), Push(req)
  PROVE  AcceptStep(req) \/ (\E result : RefuseStep(req, result)) \/ \E r : RepeatStep(r)
<1>1. CASE Replay(req)
  BY <1>1 DEF Replay, RepeatStep
<1> QED
  BY <1>1, AcceptSound, RefusalForms DEF Push

LEMMA Steps ==
  ASSUME Typed, [ServerNext]_serverVars
  PROVE  Step
<1>1. ASSUME NEW req \in Requests, Push(req)
      PROVE  Step
  <2>1. IsMutations(req.muts)
    BY ServerAssumption
  <2> QED
    BY <1>1, <2>1, PushForms DEF Step
<1>2. ASSUME NEW n \in retained, Prune(n)
      PROVE  PruneStep
  BY <1>2 DEF Prune, PruneStep
<1> QED
  BY <1>1, <1>2, OwnSound DEF ServerNext, Step

-----------------------------------------------------------------------------
(* Types.                                                                  *)

LEMMA GroupTyped ==
  ASSUME NEW g \in Groups
  PROVE  /\ IsGroup(g)
         /\ \A i \in DOMAIN g : i \in Ids /\ g[i] \in EntityOf(i)
BY DEF IsGroup, Groups

(* What an applied group leaves behind, accepted or written here. *)
LEMMA ApplyTyped ==
  ASSUME Typed, NEW muts, Sound(muts), ApplyAndJournal(muts)
  PROVE  /\ RowsTyped'
         /\ journal' \in Seq(Groups)
         /\ retained' \subseteq 1..Len(journal')
         /\ IsGroup([i \in Affected(muts) |-> Stamped(muts)[i]])
<1> DEFINE g == [i \in Affected(muts) |-> Stamped(muts)[i]]
<1>1. /\ Affected(muts) \subseteq Ids
      /\ Stamped(muts) \in [Ids -> Entity]
      /\ \A i \in Ids : Stamped(muts)[i] \in EntityOf(i)
  BY GroupEffect DEF EntityOf
<1>2. row' = Stamped(muts) /\ journal' = Append(journal, g) /\ retained' = retained \cup {Len(journal) + 1}
  BY DEF ApplyAndJournal, Sequence
<1>3. IsGroup(g) /\ g \in Groups
  <2>1. g \in [Affected(muts) -> Entity] /\ \A i \in Affected(muts) : g[i] \in EntityOf(i)
    BY <1>1
  <2> QED
    BY <1>1, <2>1 DEF IsGroup, Groups
<1>4. journal \in Seq(Groups) /\ retained \subseteq 1..Len(journal)
  BY DEF Typed
<1> HIDE DEF g
<1>5. journal' \in Seq(Groups) /\ Len(journal') = Len(journal) + 1 /\ Len(journal) \in Nat
  BY <1>2, <1>3, <1>4
<1>6. 1..Len(journal) \subseteq 1..Len(journal') /\ Len(journal) + 1 \in 1..Len(journal')
  BY <1>5
<1>7. retained' \subseteq 1..Len(journal')
  BY <1>2, <1>4, <1>6
<1>8. RowsTyped'
  BY <1>1, <1>2 DEF RowsTyped
<1> QED
  BY <1>3, <1>5, <1>7, <1>8 DEF g

(* A recorded outcome has its type. *)
LEMMA AnswerTyped ==
  ASSUME Typed, NEW req, IsMutations(req.muts), NEW result, IsGroup(result.entities),
         Answer(req, result)
  PROVE  /\ \A r \in receipts' : IsMutations(r.muts) /\ IsGroup(r.result.entities)
         /\ \A r \in replies' : IsGroup(r.result.entities)
BY DEF Answer, Typed

LEMMA TypedInductive ==
  ASSUME Typed, Step
  PROVE  Typed'
<1>1. ASSUME NEW muts, OwnStep(muts)
      PROVE  Typed'
  BY <1>1, ApplyTyped DEF OwnStep, Typed
<1>2. ASSUME NEW req, AcceptStep(req)
      PROVE  Typed'
  <2> DEFINE result == Result("accepted", [i \in Affected(req.muts) |-> Stamped(req.muts)[i]])
  <2>1. Sound(req.muts) /\ ApplyAndJournal(req.muts) /\ Answer(req, result)
    BY <1>2 DEF AcceptStep, Accept
  <2>2. IsGroup(result.entities) /\ IsMutations(req.muts)
    BY <2>1, ApplyTyped DEF Result, Sound
  <2> HIDE DEF result
  <2>3. /\ \A r \in receipts' : IsMutations(r.muts) /\ IsGroup(r.result.entities)
        /\ \A r \in replies' : IsGroup(r.result.entities)
    BY <2>1, <2>2, AnswerTyped
  <2> QED
    BY <2>1, <2>3, ApplyTyped DEF Typed
<1>3. ASSUME NEW req, NEW result, RefuseStep(req, result)
      PROVE  Typed'
  <2>1. IsGroup(result.entities)
    BY <1>3 DEF RefuseStep, IsGroup, Typed, RowsTyped
  <2>2. /\ \A r \in receipts' : IsMutations(r.muts) /\ IsGroup(r.result.entities)
        /\ \A r \in replies' : IsGroup(r.result.entities)
    BY <1>3, <2>1, AnswerTyped DEF RefuseStep
  <2> QED
    BY <1>3, <2>2 DEF RefuseStep, Typed, RowsTyped
<1>4. ASSUME NEW r, RepeatStep(r)
      PROVE  Typed'
  <2>1. \A y \in replies' : IsGroup(y.result.entities)
    BY <1>4 DEF RepeatStep, Typed
  <2> QED
    BY <1>4, <2>1 DEF RepeatStep, Typed, RowsTyped
<1>5. CASE PruneStep
  BY <1>5 DEF PruneStep, Typed, RowsTyped
<1>6. CASE UNCHANGED serverVars
  BY <1>6 DEF serverVars, Typed, RowsTyped
<1> QED
  BY <1>1, <1>2, <1>3, <1>4, <1>5, <1>6 DEF Step

LEMMA TypedInitially ==
  ASSUME ServerInit
  PROVE  Typed
BY DEF ServerInit, Typed, RowsTyped, Entity, EntityOf, Absent, Groups

LEMMA TypedAlways == ServerSpec => []Typed
<1>1. Typed /\ [ServerNext]_serverVars => Typed'
  BY TypedInductive, Steps
<1> QED
  BY <1>1, TypedInitially, PTL DEF ServerSpec

(* Only requests bring keys. *)
LEMMA KeysInductive ==
  ASSUME KeysTyped, [ServerNext]_serverVars
  PROVE  KeysTyped'
<1>1. ASSUME NEW req \in Requests, NEW result, Answer(req, result)
      PROVE  KeysTyped'
  BY <1>1, ServerAssumption DEF Answer, KeysTyped
<1>2. ASSUME NEW req \in Requests, Replay(req)
      PROVE  KeysTyped'
  BY <1>2 DEF Replay, KeysTyped
<1>3. CASE UNCHANGED <<receipts, replies>>
  BY <1>3 DEF KeysTyped
<1>4. ASSUME NEW req \in Requests, Push(req)
      PROVE  KeysTyped'
  BY <1>1, <1>2, <1>4 DEF Push, Accept, Refused, Reject
<1>5. ServerWrite => UNCHANGED <<receipts, replies>>
  BY DEF ServerWrite, OrmInsert, OrmUpdate, OrmDelete, OrmWrite
<1> QED
  BY <1>3, <1>4, <1>5 DEF ServerNext, Prune, serverVars

LEMMA TypeOKForms ==
  ASSUME Typed, KeysTyped
  PROVE  TypeOK
<1>1. \A n \in 1..Len(journal) : IsGroup(journal[n])
  <2> SUFFICES ASSUME NEW n \in 1..Len(journal)
               PROVE  journal[n] \in Groups
    BY GroupTyped
  <2> QED
    BY DEF Typed
<1> QED
  BY <1>1 DEF Typed, RowsTyped, EntityOf, KeysTyped, TypeOK, Sequence

LEMMA KeysAlways == ServerSpec => []KeysTyped
<1>1. ServerInit => KeysTyped
  BY DEF ServerInit, KeysTyped
<1> QED
  BY <1>1, KeysInductive, PTL DEF ServerSpec

(* The server's state always has its type, whatever is pushed to it.       *)
THEOREM TypeCorrect == ServerSpec => []TypeOK
BY TypedAlways, KeysAlways, TypeOKForms, PTL

-----------------------------------------------------------------------------
(* Rows, revisions and tombstones.                                         *)

(* Only the entities that are stamped and journalled change. *)
LEMMA Unaffected ==
  ASSUME Typed, NEW muts, Sound(muts), Applicable(muts), NEW i \in Ids, i \notin Affected(muts)
  PROVE  /\ i \notin DOMAIN muts
         /\ i \notin Reached(muts)
         /\ Deleted(muts)[i] = row[i].data
         /\ Stamped(muts)[i] = row[i]
<1>1. i \notin DOMAIN muts
  BY GroupEffect
<1>2. i \notin Upserts(muts) /\ i \notin Deletions(muts)
  BY <1>1 DEF Upserts, Deletions
<1>3. Upserted(muts)[i] = row[i].data
  BY <1>2, UpsertedData
<1>4. i \notin Reached(muts)
  <2> SUFFICES ASSUME i \in Reached(muts)
               PROVE  FALSE
    OBVIOUS
  <2>1. /\ i \in Children
        /\ row[i].data # None
        /\ row[i].data["ref"] \in Deletions(muts)
    BY <1>3 DEF Reached, Referring
  <2>2. OnDelete[i] # "restrict"
    BY DEF Applicable, Restricted
  <2>3. i \in Touched(muts)
    BY <2>1, <2>2 DEF Touched, Referring
  <2>4. Deleted(muts)[i] = row[i].data
    BY <1>1, <2>3 DEF Affected
  <2>5. row[i].data \in DataOf(i)
    BY <2>1, EntityForms
  <2>6. row[i].data["ref"] # None
    BY <2>1, DataAssumption DEF Deletions, Sound, IsMutations, Ids
  <2>7. CASE OnDelete[i] = "cascade"
    BY <2>1, <2>4, <2>7 DEF Deleted
  <2>8. CASE OnDelete[i] # "cascade"
    <3>1. Deleted(muts)[i] = [row[i].data EXCEPT !["ref"] = None]
      BY <1>2, <1>3, <2>8 DEF Deleted
    <3>2. [row[i].data EXCEPT !["ref"] = None]["ref"] = None
      BY <2>5, DataForms DEF Fields
    <3> QED
      BY <2>4, <2>6, <3>1, <3>2
  <2> QED
    BY <2>7, <2>8
<1>5. Deleted(muts)[i] = row[i].data
  BY <1>2, <1>3, <1>4 DEF Deleted
<1>6. Stamped(muts)[i] = [rev |-> row[i].rev, data |-> row[i].data]
  BY <1>5 DEF Stamped
<1>7. row[i] = [rev |-> row[i].rev, data |-> row[i].data]
  BY EntityForms
<1> QED
  BY <1>1, <1>4, <1>5, <1>6, <1>7

(* A step leaves the rows alone or applies a sound group to them. *)
LEMMA RowSteps ==
  ASSUME Typed, Step
  PROVE  row' = row \/ \E muts : Sound(muts) /\ ApplyAndJournal(muts)
BY DEF Step, OwnStep, AcceptStep, Accept, RefuseStep, RepeatStep, PruneStep, serverVars

LEMMA RevisionsGrow ==
  ASSUME Typed, Step, NEW i \in Ids
  PROVE  /\ row'[i].rev \in Nat
         /\ row'[i].rev >= row[i].rev
         /\ Tombstone(row[i]) => Tombstone(row'[i])
<1>1. row[i].rev \in Nat
  BY EntityForms
<1>2. CASE row' = row
  BY <1>1, <1>2 DEF Tombstone, Live
<1>3. ASSUME NEW muts, Sound(muts), ApplyAndJournal(muts)
      PROVE  /\ row'[i].rev \in Nat
             /\ row'[i].rev >= row[i].rev
             /\ Tombstone(row[i]) => Tombstone(row'[i])
  <2>1. row' = Stamped(muts)
    BY <1>3 DEF ApplyAndJournal
  <2>2. Stamped(muts)[i].rev = row[i].rev + 1 \/ Stamped(muts)[i].rev = row[i].rev
    BY <1>3, GroupEffect
  <2>3. Tombstone(row[i]) => Tombstone(Stamped(muts)[i])
    BY <1>3, GroupEffect
  <2> QED
    BY <1>1, <2>1, <2>2, <2>3
<1> QED
  BY <1>2, <1>3, RowSteps

(* No operation and no write of the server revives a deleted id or takes a *)
(* revision back (Tombstone check of push_transaction, soft_delete).       *)
THEOREM NothingRevived == ServerSpec => DeletedForGood
<1>1. Typed /\ [ServerNext]_serverVars
        => [\A i \in Ids : /\ row'[i].rev >= row[i].rev
                           /\ Tombstone(row[i]) => Tombstone(row'[i])]_serverVars
  BY RevisionsGrow, Steps
<1> QED
  BY <1>1, TypedAlways, PTL DEF ServerSpec, DeletedForGood

-----------------------------------------------------------------------------
(* The journal.                                                            *)

(* The groups of an entity up to group n. *)
Until(i, n) == {m \in GroupsOf(i) : m <= n}

(* JournalIsHistory, with the last group of an entity named.               *)
History ==
  \A i \in Ids :
    /\ \A n \in GroupsOf(i) : journal[n][i].rev = Cardinality(Until(i, n))
    /\ row[i].rev = Cardinality(GroupsOf(i))
    /\ GroupsOf(i) = {} => row[i] = Absent
    /\ GroupsOf(i) # {} =>
         \E n \in GroupsOf(i) : (\A m \in GroupsOf(i) : m <= n) /\ journal[n][i] = row[i]

LEMMA GroupsFinite ==
  ASSUME Typed, NEW i
  PROVE  /\ Len(journal) \in Nat
         /\ GroupsOf(i) \subseteq 1..Len(journal)
         /\ IsFiniteSet(GroupsOf(i))
         /\ Cardinality(GroupsOf(i)) \in Nat
<1>1. Len(journal) \in Nat /\ GroupsOf(i) \subseteq 1..Len(journal)
  BY DEF Typed, GroupsOf, Sequence
<1>2. IsFiniteSet(1..Len(journal))
  BY <1>1, FS_Interval
<1> QED
  BY <1>1, <1>2, FS_Subset, FS_CardinalityType

(* The groups that an entity gets from a step. *)
LEMMA GroupsGrow ==
  ASSUME Typed, NEW muts, Sound(muts), ApplyAndJournal(muts), NEW i \in Ids
  PROVE  /\ Len(journal') = Len(journal) + 1
         /\ \A n \in 1..Len(journal) : journal'[n] = journal[n]
         /\ i \in Affected(muts) => /\ GroupsOf(i)' = GroupsOf(i) \cup {Len(journal) + 1}
                                    /\ journal'[Len(journal) + 1][i] = row'[i]
                                    /\ row'[i].rev = row[i].rev + 1
         /\ i \notin Affected(muts) => GroupsOf(i)' = GroupsOf(i) /\ row'[i] = row[i]
<1> DEFINE g == [k \in Affected(muts) |-> Stamped(muts)[k]]
           last == Len(journal) + 1
<1>1. journal' = Append(journal, g) /\ row' = Stamped(muts) /\ Applicable(muts)
  BY DEF ApplyAndJournal
<1>2. DOMAIN g = Affected(muts) /\ \A k \in Affected(muts) : g[k] = Stamped(muts)[k]
  OBVIOUS
<1> HIDE DEF g
<1>3. journal \in Seq(Groups) /\ Len(journal) \in Nat
  BY DEF Typed
<1>4. /\ Len(journal') = last
      /\ \A n \in 1..Len(journal) : journal'[n] = journal[n]
      /\ journal'[last] = g
  <2>1. g \in Groups
    BY <1>1, ApplyTyped, GroupEffect DEF Groups, EntityOf, g
  <2> QED
    BY <1>1, <1>3, <2>1
<1>5. 1..last = 1..Len(journal) \cup {last}
  BY <1>3
<1>6. GroupsOf(i)' = {n \in 1..last : i \in DOMAIN journal'[n]}
  BY <1>4 DEF GroupsOf, Sequence
<1>7. CASE i \in Affected(muts)
  <2>1. GroupsOf(i)' = GroupsOf(i) \cup {last}
    BY <1>2, <1>4, <1>5, <1>6, <1>7 DEF GroupsOf, Sequence
  <2>2. row'[i].rev = row[i].rev + 1
    BY <1>1, <1>7, GroupEffect
  <2> QED
    BY <1>1, <1>2, <1>4, <1>7, <2>1, <2>2
<1>8. CASE i \notin Affected(muts)
  <2>1. GroupsOf(i)' = GroupsOf(i)
    BY <1>2, <1>4, <1>5, <1>6, <1>8 DEF GroupsOf, Sequence
  <2> QED
    BY <1>1, <1>4, <1>8, <2>1, Unaffected
<1> QED
  BY <1>4, <1>7, <1>8

LEMMA HistoryInductive ==
  ASSUME Typed, History, Step
  PROVE  History'
<1>1. CASE UNCHANGED <<row, journal>>
  BY <1>1 DEF History, GroupsOf, Until, Sequence
<1>2. ASSUME NEW muts, Sound(muts), ApplyAndJournal(muts), NEW i \in Ids
      PROVE  /\ \A n \in GroupsOf(i)' : journal'[n][i].rev = Cardinality(Until(i, n)')
             /\ row'[i].rev = Cardinality(GroupsOf(i)')
             /\ GroupsOf(i)' = {} => row'[i] = Absent
             /\ GroupsOf(i)' # {} =>
                  \E n \in GroupsOf(i)' : (\A m \in GroupsOf(i)' : m <= n) /\ journal'[n][i] = row'[i]
  <2>0. PICK last : last = Len(journal) + 1
    OBVIOUS
  <2>1. /\ Len(journal) \in Nat /\ last \notin GroupsOf(i)
        /\ \A m \in GroupsOf(i) : m \in Nat /\ m <= Len(journal)
        /\ IsFiniteSet(GroupsOf(i)) /\ Cardinality(GroupsOf(i)) \in Nat
    BY <2>0, GroupsFinite
  <2>2. \A n \in GroupsOf(i) : journal'[n][i] = journal[n][i]
    BY <1>2, GroupsGrow, GroupsFinite
  <2>3. CASE i \in Affected(muts)
    <3>1. /\ GroupsOf(i)' = GroupsOf(i) \cup {last}
          /\ journal'[last][i] = row'[i]
          /\ row'[i].rev = row[i].rev + 1
      BY <1>2, <2>0, <2>3, GroupsGrow
    <3>2. Cardinality(GroupsOf(i)') = Cardinality(GroupsOf(i)) + 1
      BY <2>1, <3>1, FS_AddElement
    <3>3. row'[i].rev = Cardinality(GroupsOf(i)')
      BY <3>1, <3>2 DEF History
    <3>4. \A m \in GroupsOf(i)' : m <= last
      BY <2>0, <2>1, <3>1
    <3>5. Until(i, last)' = GroupsOf(i)'
      BY <3>4 DEF Until
    <3>6. \A n \in GroupsOf(i) : Until(i, n)' = Until(i, n)
      BY <2>0, <2>1, <3>1 DEF Until
    <3>7. \A n \in GroupsOf(i)' : journal'[n][i].rev = Cardinality(Until(i, n)')
      <4> SUFFICES ASSUME NEW n \in GroupsOf(i)'
                   PROVE  journal'[n][i].rev = Cardinality(Until(i, n)')
        OBVIOUS
      <4>1. CASE n = last
        BY <3>1, <3>3, <3>5, <4>1
      <4>2. CASE n \in GroupsOf(i)
        BY <2>2, <3>6, <4>2 DEF History
      <4> QED
        BY <3>1, <4>1, <4>2
    <3> QED
      BY <3>1, <3>3, <3>4, <3>7
  <2>4. CASE i \notin Affected(muts)
    <3>1. GroupsOf(i)' = GroupsOf(i) /\ row'[i] = row[i]
      BY <1>2, <2>4, GroupsGrow
    <3>2. \A n : Until(i, n)' = Until(i, n)
      BY <3>1 DEF Until
    <3> QED
      BY <2>2, <3>1, <3>2 DEF History
  <2> QED
    BY <2>3, <2>4
<1>3. ASSUME NEW muts, Sound(muts), ApplyAndJournal(muts)
      PROVE  History'
  BY <1>2, <1>3 DEF History
<1> QED
  BY <1>1, <1>3 DEF Step, OwnStep, AcceptStep, Accept, RefuseStep, RepeatStep, PruneStep, serverVars

LEMMA HistoryForms ==
  ASSUME Typed, History
  PROVE  JournalIsHistory
<1> SUFFICES ASSUME NEW i \in Ids, NEW n \in GroupsOf(i), \A m \in GroupsOf(i) : m <= n
             PROVE  journal[n][i] = row[i]
  BY DEF History, JournalIsHistory, Until
<1>1. PICK k \in GroupsOf(i) : (\A m \in GroupsOf(i) : m <= k) /\ journal[k][i] = row[i]
  BY DEF History
<1>2. k <= n /\ n <= k /\ k \in Nat /\ n \in Nat
  BY <1>1, GroupsFinite
<1> QED
  BY <1>1, <1>2

LEMMA HistoryInitially ==
  ASSUME ServerInit
  PROVE  History
<1>1. \A i \in Ids : GroupsOf(i) = {}
  BY DEF ServerInit, GroupsOf, Sequence
<1> QED
  BY <1>1, FS_EmptySet DEF ServerInit, History, Absent

(* Journal and rows tell one story: a replica that applies the groups of   *)
(* an entity in order sees each of its revisions once, and arrives at its  *)
(* row, also through the cascades of a deletion (apply_and_journal).       *)
THEOREM JournalTellsHistory == ServerSpec => []JournalIsHistory
<1>1. Typed /\ History /\ [ServerNext]_serverVars => History'
  BY HistoryInductive, Steps
<1>2. Typed /\ History => JournalIsHistory
  BY HistoryForms
<1> QED
  BY <1>1, <1>2, HistoryInitially, TypedAlways, PTL DEF ServerSpec

-----------------------------------------------------------------------------
(* References.                                                             *)

LEMMA ReferencesInductive ==
  ASSUME Typed, References, Step
  PROVE  References'
<1>1. CASE row' = row
  BY <1>1 DEF References, Live
<1>2. ASSUME NEW muts, Sound(muts), ApplyAndJournal(muts)
      PROVE  References'
  <2>1. row' = Stamped(muts) /\ Applicable(muts)
    BY <1>2 DEF ApplyAndJournal
  <2> SUFFICES ASSUME NEW c \in Children,
                      Stamped(muts)[c].data # None,
                      Stamped(muts)[c].data["ref"] \in Parents
               PROVE  Stamped(muts)[Stamped(muts)[c].data["ref"]].data # None
    BY <2>1 DEF References, Live
  <2> DEFINE p == Stamped(muts)[c].data["ref"]
  <2>2. c \in Ids /\ p \in Ids /\ p \notin Children
    BY DataAssumption DEF Ids
  <2>3. CASE c \in Affected(muts)
    BY <2>1, <2>3 DEF Applicable, Live
  <2>4. CASE c \notin Affected(muts)
    <3>1. Stamped(muts)[c] = row[c] /\ c \notin Reached(muts) /\ c \notin DOMAIN muts
      BY <1>2, <2>1, <2>2, <2>4, Unaffected
    <3>2. row[p].data # None
      BY <3>1 DEF References, Live
    <3>3. Upserted(muts)[c] = row[c].data
      BY <1>2, <2>2, <3>1, UpsertedData DEF Upserts
    <3>4. p \notin Deletions(muts)
      BY <3>1, <3>3 DEF Reached, Referring, Deletions
    <3>5. p \notin Reached(muts)
      BY <2>2 DEF Reached, Referring
    <3>6. Upserted(muts)[p] # None
      BY <1>2, <2>2, <3>2, UpsertedData
    <3>7. Deleted(muts)[p] = Upserted(muts)[p]
      BY <2>2, <3>4, <3>5 DEF Deleted
    <3>8. Stamped(muts)[p].data = Deleted(muts)[p]
      BY <1>2, <2>2, GroupEffect
    <3> QED
      BY <3>6, <3>7, <3>8
  <2> QED
    BY <2>3, <2>4
<1> QED
  BY <1>1, <1>2, RowSteps

(* A live child always refers to a live parent: the checks of a group and  *)
(* the referential actions of its deletions leave no dangling key.         *)
THEOREM NoDanglingReference == ServerSpec => []References
<1>1. ServerInit => References
  BY DEF ServerInit, References, Live, Absent, Ids
<1>2. Typed /\ References /\ [ServerNext]_serverVars => References'
  BY ReferencesInductive, Steps
<1> QED
  BY <1>1, <1>2, TypedAlways, PTL DEF ServerSpec

-----------------------------------------------------------------------------
(* Outcomes.                                                               *)

(* A new outcome is recorded and sent once. *)
LEMMA AnswerReceipted ==
  ASSUME RepliesReceipted, NEW req, NEW result, ~Receipted(req), Answer(req, result)
  PROVE  RepliesReceipted'
<1> DEFINE new == [key |-> req.key, muts |-> req.muts, result |-> result]
<1>1. receipts' = receipts \cup {new} /\ replies' = replies \cup {[key |-> req.key, result |-> result]}
  BY DEF Answer
<1>2. \A a, b \in receipts' : a.key = b.key => a = b
  BY <1>1 DEF RepliesReceipted, Receipted
<1>3. ASSUME NEW y \in replies'
      PROVE  \E r \in receipts' : r.key = y.key /\ r.result = y.result
  <2>1. CASE y \in replies
    BY <1>1, <2>1 DEF RepliesReceipted
  <2>2. CASE y = [key |-> req.key, result |-> result]
    <3>1. new.key = y.key /\ new.result = y.result /\ new \in receipts'
      BY <1>1, <2>2
    <3> QED
      BY <3>1
  <2> QED
    BY <1>1, <2>1, <2>2
<1> QED
  BY <1>2, <1>3 DEF RepliesReceipted

LEMMA ReceiptedInductive ==
  ASSUME Typed, RepliesReceipted, Step
  PROVE  RepliesReceipted'
<1>1. ASSUME NEW req, AcceptStep(req)
      PROVE  RepliesReceipted'
  BY <1>1, AnswerReceipted DEF AcceptStep, Accept
<1>2. ASSUME NEW req, NEW result, RefuseStep(req, result)
      PROVE  RepliesReceipted'
  BY <1>2, AnswerReceipted DEF RefuseStep
<1>3. ASSUME NEW r, RepeatStep(r)
      PROVE  RepliesReceipted'
  BY <1>3 DEF RepeatStep, RepliesReceipted
<1>4. CASE UNCHANGED <<receipts, replies>>
  BY <1>4 DEF RepliesReceipted
<1> QED
  BY <1>1, <1>2, <1>3, <1>4 DEF Step, OwnStep, PruneStep, serverVars

(* Whatever is retried, duplicated or delayed, all replies to an operation *)
(* carry the result of its one execution.                                  *)
THEOREM SingleOutcome == ServerSpec => []OneOutcome
<1>1. ServerInit => RepliesReceipted
  BY DEF ServerInit, RepliesReceipted
<1>2. Typed /\ RepliesReceipted /\ [ServerNext]_serverVars => RepliesReceipted'
  BY ReceiptedInductive, Steps
<1>3. RepliesReceipted => OneOutcome
  BY DEF RepliesReceipted, OneOutcome
<1> QED
  BY <1>1, <1>2, <1>3, TypedAlways, PTL DEF ServerSpec

-----------------------------------------------------------------------------
(* First writer wins.                                                      *)

WritersInv == FirstWriterWins /\ BasesConsumed

(* Without a new accepted receipt the bases stay consumed, as revisions    *)
(* only grow.                                                              *)
LEMMA WritersUnchanged ==
  ASSUME Typed, WritersInv, Step,
         \A r \in receipts' : r.result.kind = "accepted" => r \in receipts
  PROVE  WritersInv'
<1>1. FirstWriterWins'
  BY DEF WritersInv, FirstWriterWins
<1>2. ASSUME NEW r \in receipts, r.result.kind = "accepted", NEW i \in DOMAIN r.muts
      PROVE  r.muts[i].base < row'[i].rev
  <2>1. i \in Ids /\ r.muts[i].base \in Nat
    BY DEF Typed, IsMutations, Mutation
  <2>2. r.muts[i].base < row[i].rev
    BY <1>2 DEF WritersInv, BasesConsumed
  <2>3. row'[i].rev >= row[i].rev
    BY <2>1, RevisionsGrow
  <2>4. row[i].rev \in Nat /\ row'[i].rev \in Nat
    BY <2>1, RevisionsGrow, EntityForms
  <2> QED
    BY <2>1, <2>2, <2>3, <2>4
<1> QED
  BY <1>1, <1>2 DEF WritersInv, BasesConsumed

(* An accepted operation has the current revisions as bases: they are not  *)
(* among the consumed ones, and its own result consumes them.              *)
LEMMA WritersAccept ==
  ASSUME Typed, WritersInv, NEW req, AcceptStep(req)
  PROVE  WritersInv'
<1> DEFINE muts == req.muts
           result == Result("accepted", [i \in Affected(muts) |-> Stamped(muts)[i]])
           new == [key |-> req.key, muts |-> muts, result |-> result]
<1>1. /\ Sound(muts) /\ ~Stale(muts)
      /\ row' = Stamped(muts)
      /\ receipts' = receipts \cup {new}
  BY DEF AcceptStep, Accept, ApplyAndJournal, Answer
<1>2. ASSUME NEW i \in DOMAIN muts
      PROVE  /\ i \in Ids
             /\ muts[i].base = row[i].rev
             /\ row[i].rev \in Nat
             /\ row'[i].rev = row[i].rev + 1
             /\ result.entities[i].rev = muts[i].base + 1
  <2>1. i \in Ids /\ i \in Affected(muts)
    BY <1>1, GroupEffect
  <2>2. muts[i].base = row[i].rev
    BY <1>1 DEF Stale
  <2>3. Stamped(muts)[i].rev = row[i].rev + 1
    BY <1>1, <2>1, GroupEffect
  <2>4. result.entities[i] = Stamped(muts)[i]
    BY <2>1 DEF Result
  <2> QED
    BY <1>1, <2>1, <2>2, <2>3, <2>4, EntityForms
<1>3. ASSUME NEW r \in receipts, r.result.kind = "accepted", NEW i \in DOMAIN r.muts
      PROVE  /\ i \in Ids
             /\ r.muts[i].base \in Nat
             /\ r.muts[i].base < row[i].rev
             /\ r.muts[i].base < row'[i].rev
  <2>1. i \in Ids /\ r.muts[i].base \in Nat
    BY DEF Typed, IsMutations, Mutation
  <2>2. r.muts[i].base < row[i].rev
    BY <1>3 DEF WritersInv, BasesConsumed
  <2>3. row[i].rev \in Nat /\ row'[i].rev \in Nat /\ row'[i].rev >= row[i].rev
    BY <2>1, RevisionsGrow, EntityForms DEF Step
  <2> QED
    BY <2>1, <2>2, <2>3
<1>4. BasesConsumed'
  <2> SUFFICES ASSUME NEW r \in receipts', r.result.kind = "accepted", NEW i \in DOMAIN r.muts
               PROVE  r.muts[i].base < row'[i].rev
    BY DEF BasesConsumed
  <2>1. CASE r \in receipts
    BY <1>3, <2>1
  <2>2. CASE r = new
    <3>1. i \in DOMAIN muts /\ r.muts[i].base = muts[i].base
      BY <2>2
    <3> HIDE DEF new, result, muts
    <3> QED
      BY <1>2, <3>1
  <2> QED
    BY <1>1, <2>1, <2>2
<1>5. FirstWriterWins'
  <2>1. ASSUME NEW r \in receipts', r.result.kind = "accepted", NEW i \in DOMAIN r.muts
        PROVE  r.result.entities[i].rev = r.muts[i].base + 1
    <3>1. CASE r \in receipts
      BY <2>1, <3>1 DEF WritersInv, FirstWriterWins
    <3>2. CASE r = new
      <4>1. i \in DOMAIN muts /\ r.muts = muts /\ r.result = result
        BY <2>1, <3>2
      <4> HIDE DEF new, result, muts
      <4> QED
        BY <1>2, <4>1
    <3> QED
      BY <1>1, <3>1, <3>2
  <2>2. ASSUME NEW r \in receipts, r.result.kind = "accepted", NEW i \in DOMAIN r.muts \cap DOMAIN muts
        PROVE  r.muts[i].base # muts[i].base
    <3>1. row[i].rev \in Nat /\ muts[i].base = row[i].rev
      BY <1>2
    <3>2. r.muts[i].base \in Nat /\ r.muts[i].base < row[i].rev
      BY <1>3, <2>2
    <3> QED
      BY <3>1, <3>2
  <2>3. ASSUME NEW r \in receipts', NEW s \in receipts',
               r.result.kind = "accepted", s.result.kind = "accepted", s.key # r.key,
               NEW i \in DOMAIN r.muts \cap DOMAIN s.muts
        PROVE  r.muts[i].base # s.muts[i].base
    <3>1. CASE r \in receipts /\ s \in receipts
      BY <2>3, <3>1 DEF WritersInv, FirstWriterWins
    <3>2. CASE r \in receipts /\ s = new
      <4>1. s.muts = muts
        BY <3>2
      <4> HIDE DEF new, result, muts
      <4> QED
        BY <2>2, <2>3, <3>2, <4>1
    <3>3. CASE r = new /\ s \in receipts
      <4>1. r.muts = muts
        BY <3>3
      <4> HIDE DEF new, result, muts
      <4> QED
        BY <2>2, <2>3, <3>3, <4>1
    <3>4. CASE r = new /\ s = new
      BY <2>3, <3>4
    <3> QED
      BY <1>1, <3>1, <3>2, <3>3, <3>4
  <2> QED
    BY <2>1, <2>3 DEF FirstWriterWins
<1> QED
  BY <1>4, <1>5 DEF WritersInv

LEMMA WritersInductive ==
  ASSUME Typed, WritersInv, Step
  PROVE  WritersInv'
<1>1. ASSUME NEW req, AcceptStep(req)
      PROVE  WritersInv'
  BY <1>1, WritersAccept
<1>2. ASSUME NEW req, NEW result, RefuseStep(req, result)
      PROVE  WritersInv'
  <2>1. \A r \in receipts' : r.result.kind = "accepted" => r \in receipts
    BY <1>2 DEF RefuseStep, Answer
  <2> QED
    BY <2>1, WritersUnchanged
<1>3. CASE UNCHANGED receipts
  BY <1>3, WritersUnchanged
<1> QED
  BY <1>1, <1>2, <1>3 DEF Step, OwnStep, RepeatStep, PruneStep, serverVars

(* Of the operations made against one revision of an entity at most one is *)
(* accepted: no accepted write is lost under another.                      *)
THEOREM NoLostUpdate == ServerSpec => []FirstWriterWins
<1>1. ServerInit => WritersInv
  BY DEF ServerInit, WritersInv, FirstWriterWins, BasesConsumed
<1>2. Typed /\ WritersInv /\ [ServerNext]_serverVars => WritersInv'
  BY WritersInductive, Steps
<1>3. WritersInv => FirstWriterWins
  BY DEF WritersInv
<1> QED
  BY <1>1, <1>2, <1>3, TypedAlways, PTL DEF ServerSpec

-----------------------------------------------------------------------------
(* Refinement.                                                             *)

(* A group advances exactly the entities it affects. *)
LEMMA GroupAdvances ==
  ASSUME Typed, NEW muts, Sound(muts), ApplyAndJournal(muts)
  PROVE  Affected(muts) \in SUBSET Ids /\ Store!Advance(Affected(muts))
<1>1. row' = Stamped(muts) /\ Applicable(muts)
  BY DEF ApplyAndJournal
<1>2. \A i \in Ids \ Affected(muts) : Stamped(muts)[i] = row[i]
  BY <1>1, Unaffected
<1>3. ASSUME NEW i \in Affected(muts)
      PROVE  /\ Stamped(muts)[i].rev = row[i].rev + 1
             /\ Tombstone(row[i]) => ~Live(Stamped(muts)[i])
  BY GroupEffect DEF Tombstone
<1> QED
  BY <1>1, <1>2, <1>3, GroupEffect DEF Store!Advance, Store!Tombstone, Store!Live, Store!Entity,
     Store!Data, Store!Fields, Store!FieldValue, Store!Ids, Tombstone, Live, Entity, Data, Fields,
     FieldValue, Ids

Decided == {r.key : r \in receipts}

(* It is enough that a step gives receipts to keys of the store only. *)
LEMMA StoreStep ==
  ASSUME Typed, Step, KeysTyped'
  PROVE  Store!StoreNext \/ UNCHANGED <<row, Decided>>
<1>1. ASSUME NEW muts, OwnStep(muts)
      PROVE  Store!StoreNext
  <2>1. \E S \in SUBSET Ids : Store!Advance(S)
    BY <1>1, GroupAdvances DEF OwnStep
  <2>2. receipts' = receipts
    BY <1>1 DEF OwnStep
  <2>3. \E S \in SUBSET Ids : Store!WriteLocally(S)
    BY <2>1, <2>2 DEF Store!WriteLocally
  <2> QED
    BY <2>3 DEF Store!StoreNext, Store!Ids, Ids
<1>2. ASSUME NEW req, NEW result, ~Receipted(req), Answer(req, result)
      PROVE  /\ req.key \in Keys
             /\ req.key \notin Decided
             /\ Decided' = Decided \cup {req.key}
  <2> DEFINE new == [key |-> req.key, muts |-> req.muts, result |-> result]
  <2>1. receipts' = receipts \cup {new} /\ new.key = req.key
    BY <1>2 DEF Answer
  <2>2. Decided' = Decided \cup {new.key}
    <3> HIDE DEF new
    <3> QED
      BY <2>1 DEF Decided
  <2>3. req.key \notin Decided
    BY <1>2 DEF Decided, Receipted
  <2> QED
    BY <2>1, <2>2, <2>3 DEF KeysTyped
<1>3. ASSUME NEW req, AcceptStep(req)
      PROVE  Store!StoreNext
  <2>1. \E S \in SUBSET Ids : Store!Advance(S)
    BY <1>3, GroupAdvances DEF AcceptStep, Accept
  <2>2. /\ req.key \in Keys
        /\ req.key \notin Decided
        /\ Decided' = Decided \cup {req.key}
    BY <1>2, <1>3 DEF AcceptStep, Accept
  <2>3. \E S \in SUBSET Ids : Store!Commit(req.key, S)
    BY <2>1, <2>2 DEF Store!Commit, Decided
  <2> QED
    BY <2>2, <2>3 DEF Store!StoreNext, Store!Ids, Ids
<1>4. ASSUME NEW req, NEW result, RefuseStep(req, result)
      PROVE  Store!StoreNext
  <2>1. /\ req.key \in Keys
        /\ req.key \notin Decided
        /\ Decided' = Decided \cup {req.key}
    BY <1>2, <1>4 DEF RefuseStep
  <2>2. Store!Refuse(req.key)
    BY <1>4, <2>1 DEF Store!Refuse, Decided, RefuseStep
  <2> QED
    BY <2>1, <2>2 DEF Store!StoreNext
<1>5. CASE UNCHANGED <<row, receipts>>
  BY <1>5 DEF Decided
<1> QED
  BY <1>1, <1>3, <1>4, <1>5 DEF Step, RepeatStep, PruneStep, serverVars

(* Every behaviour of the server is one of the versioned store: commits    *)
(* move whole sets of entities one revision forward, deletions are final,  *)
(* and an operation is decided at most once.                               *)
THEOREM ServerImplementsStore == ServerSpec => ImplementsStore
<1>1. ServerInit => Store!StoreInit
  BY DEF ServerInit, Store!StoreInit, Store!Absent, Absent, Store!Ids, Ids
<1>2. Typed /\ KeysTyped' /\ [ServerNext]_serverVars => [Store!StoreNext]_(Store!storeVars)
  BY StoreStep, Steps DEF Store!storeVars, Decided
<1> QED
  BY <1>1, <1>2, TypedAlways, KeysAlways, PTL DEF ServerSpec, ImplementsStore, Store!StoreSpec
=============================================================================
