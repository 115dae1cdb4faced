---------------------------- MODULE ObjectProofs ----------------------------
(***************************************************************************)
(* Protocol 3, for any number of clients, objects, rights and edits.       *)
(*                                                                         *)
(* What was accepted without its state waits on the revision it was made   *)
(* on (ObjectInv); the engine reactivates an object only when its draft is *)
(* gone (RightsInv); and a client that read its feed to the end shows what *)
(* the server lets it see.  The last needs that every state that waits or  *)
(* is on its way was committed (StatesInv), and that a client recalls each *)
(* event behind its cursor, whatever answers and merges came since         *)
(* (FeedInv).                                                              *)
(***************************************************************************)
EXTENDS ObjectLogs, EditProofs

-----------------------------------------------------------------------------
(* The invariant.                                                          *)

(* A revision that the server gave to row i. *)
Committed(i, rev) == rev \in 0..row[i].rev

RowsKept == row \in [Ids -> Entity]

PerClient ==
  /\ db = [c \in Clients |-> db[c]]
  /\ object = [c \in Clients |-> object[c]]
  /\ call = [c \in Clients |-> call[c]]
  /\ feed = [c \in Clients |-> feed[c]]
  /\ made \in [Clients -> Nat]

(* The records, as far as the argument needs them. *)
IsReplica(d) ==
  /\ d = [local |-> d.local, shadow |-> d.shadow, dirty |-> d.dirty, deleting |-> d.deleting,
          conflict |-> d.conflict, outbox |-> d.outbox, cursor |-> d.cursor, reset |-> d.reset]
  /\ d.shadow = [i \in Ids |-> d.shadow[i]]
  /\ d.cursor = [f \in Feeds |-> d.cursor[f]]
  /\ d.cursor["scope"] \in Nat \cup {None}

IsObject(o) ==
  /\ o = [access |-> o.access, create |-> o.create, deferred |-> o.deferred, intent |-> o.intent]
  /\ o.access = [i \in Ids |-> o.access[i]]
  /\ o.deferred = [i \in Ids |-> o.deferred[i]]
  /\ o.intent = [i \in Ids |-> o.intent[i]]
  /\ \A i \in Ids : o.access[i] # None =>
       o.access[i] = Access(o.access[i].rights, o.access[i].status)

(* What a client has, the server gave; and it has one operation at a time, *)
(* numbered up to n.                                                       *)
ReplicaOk(d, n) ==
  /\ IsReplica(d)
  /\ \A i \in Ids : Committed(i, d.shadow[i].rev)
  /\ \A op \in d.outbox : op.number \in 1..n
  /\ \A a, b \in d.outbox : a = b

Hidden == {Access({}, s) : s \in {"review", "revoked", "deleted"}}

(* Until the state of an accepted change comes, its object is hidden, has  *)
(* no operation and keeps its shadow.                                      *)
AwaitedOk(o, d, i) ==
  /\ o.access[i] \in Hidden
  /\ o.intent[i].base = d.shadow[i].rev
  /\ i \notin Submitted(d)

ObjectOk(o, d) ==
  /\ IsObject(o)
  /\ \A i \in Ids :
       /\ o.deferred[i] # None => Committed(i, o.deferred[i].rev)
       /\ o.intent[i] # None => AwaitedOk(o, d, i)

(* An event tells a state that is not behind the shadow, or takes every    *)
(* right away.                                                             *)
TellsState(e, d) ==
  /\ e.status = "active" /\ "read" \in e.rights /\ e.entity # None
  /\ Committed(e.id, e.entity.rev) /\ e.entity.rev >= d.shadow[e.id].rev

TakesAway(e) == e.status \in {"revoked", "deleted"} /\ e.rights = {} /\ e.entity = None

EventsOk(page, d) ==
  /\ page.next \in Nat
  /\ \E L \in Nat : DOMAIN page.events = 1..L
  /\ \A n \in DOMAIN page.events : /\ page.events[n].id \in Ids
                                   /\ TellsState(page.events[n], d) \/ TakesAway(page.events[n])

CycleOk(c, e, d, o) ==
  /\ e.at = "replied" => \E y \in replies : y.key = <<c, e.number>> /\ y.result = e.result
  /\ e.at = "settled" => \A i \in Ids \cap DOMAIN e.entities : o.intent[i] = None
  /\ e.at = "fetched" => EventsOk(e.page, d)

FeedOk(h) == h = [seen |-> h.seen, events |-> h.events] /\ h.events \in Seq(Ids)

ClientOk(c) ==
  /\ ReplicaOk(db[c], made[c]) /\ ObjectOk(object[c], db[c])
  /\ CycleOk(c, call[c], db[c], object[c]) /\ FeedOk(feed[c])

(* A receipt is of an operation that was made, and tells nothing but of    *)
(* what this operation changes.                                            *)
OwnReceipt(r) ==
  /\ \E c \in Clients : \E n \in 1..made[c] :
       r.key = <<c, n>> /\ \A op \in db[c].outbox : op.number = n => op.muts = r.muts
  /\ DOMAIN r.result.entities \subseteq DOMAIN r.muts
  /\ \A i \in Ids \cap DOMAIN r.result.entities : Committed(i, r.result.entities[i].rev)

ServerOk ==
  /\ RowsKept
  /\ \A r \in receipts : OwnReceipt(r)
  /\ \A y \in replies : \E r \in receipts : r.key = y.key /\ r.result = y.result

ObjectInv == PerClient /\ ServerOk /\ \A c \in Clients : ClientOk(c)

-----------------------------------------------------------------------------
(* The server.                                                             *)

(* Objects have no foreign keys, and one feed. *)
LEMMA Keyless == Children = {} /\ Feeds = {"scope"} /\ IsFiniteSet(Ids)
BY ObjectAssumption, ClientAssumption

(* Rows stay rows, and revisions only grow. *)
RowsGrown == RowsKept /\ RowsKept' /\ \A i \in Ids : row'[i].rev >= row[i].rev

LEMMA RevisionForms ==
  ASSUME RowsKept, NEW i \in Ids
  PROVE  /\ row[i] = [rev |-> row[i].rev, data |-> row[i].data]
         /\ row[i].rev \in Nat /\ row[i].data \in Data \cup {None}
BY DEF RowsKept, Entity

LEMMA OverlayKept ==
  ASSUME NEW data \in Data \cup {None}, NEW ch \in Patch
  PROVE  Overlay(data, ch) \in Data
<1>1. PICK F \in SUBSET Fields : ch \in [F -> FieldValue]
  BY DEF Patch
<1>2. ASSUME NEW f \in Fields
      PROVE  Overlay(data, ch)[f] \in FieldValue
  <2>1. CASE f \in DOMAIN ch
    BY <1>1, <2>1 DEF Overlay
  <2>2. CASE f \notin DOMAIN ch
    BY <2>2 DEF Overlay, Data, FieldValue
  <2> QED
    BY <2>1, <2>2
<1> QED
  BY <1>2 DEF Overlay, Data

(* A group moves rows one revision forward, without effects on others. *)
LEMMA StampedRows ==
  ASSUME RowsKept, NEW muts, \A i \in Upserts(muts) : muts[i].changes \in Patch
  PROVE  /\ Affected(muts) \subseteq DOMAIN muts
         /\ Stamped(muts) \in [Ids -> Entity]
         /\ \A i \in Ids : Stamped(muts)[i].rev >= row[i].rev
<1>1. \A data, S : Referring(data, S) = {}
  BY Keyless DEF Referring
<1>2. Affected(muts) \subseteq DOMAIN muts
  BY <1>1 DEF Affected, Touched
<1>3. ASSUME NEW i \in Ids
      PROVE  Stamped(muts)[i] \in Entity /\ Stamped(muts)[i].rev >= row[i].rev
  <2>1. Upserted(muts)[i] \in Data \cup {None}
    BY OverlayKept, RevisionForms DEF Upserted
  <2>2. Deleted(muts)[i] \in {None, Upserted(muts)[i]}
    BY <1>1 DEF Deleted, Reached
  <2>3. /\ Stamped(muts)[i] = [rev |-> Stamped(muts)[i].rev, data |-> Deleted(muts)[i]]
        /\ Stamped(muts)[i].rev \in {row[i].rev, row[i].rev + 1}
    BY DEF Stamped
  <2>4. row[i].rev \in Nat
    BY RevisionForms
  <2> QED
    BY <2>1, <2>2, <2>3, <2>4 DEF Entity
<1>4. Stamped(muts) = [i \in Ids |-> Stamped(muts)[i]]
  BY DEF Stamped
<1> QED
  BY <1>2, <1>3, <1>4

LEMMA GroupGrows ==
  ASSUME RowsKept, NEW muts, \A i \in Upserts(muts) : muts[i].changes \in Patch,
         ApplyAndJournal(muts)
  PROVE  RowsGrown
BY StampedRows DEF RowsGrown, RowsKept, ApplyAndJournal

LEMMA OwnGrows ==
  ASSUME RowsKept, ServerWrite
  PROVE  RowsGrown
<1>1. ASSUME NEW i \in Ids, NEW d \in DataOf(i), OrmInsert(i, [f \in FieldsOf(i) |-> d[f]])
      PROVE  RowsGrown
  <2> DEFINE ch == [f \in FieldsOf(i) |-> d[f]]
  <2>1. ch \in Patch
    BY InsertPatch DEF PatchOf
  <2>2. \A k \in Upserts(Here({i}, ch)) : Here({i}, ch)[k].changes = ch
    BY DEF Upserts, Here
  <2> HIDE DEF ch
  <2>3. ApplyAndJournal(Here({i}, ch))
    BY <1>1 DEF OrmInsert, OrmWrite, ch
  <2> QED
    BY <2>1, <2>2, <2>3, GroupGrows
<1>2. ASSUME NEW S, OrmDelete(S)
      PROVE  RowsGrown
  <2>1. Upserts(Here(S, None)) = {}
    BY DEF Upserts, Here
  <2> QED
    BY <1>2, <2>1, GroupGrows DEF OrmDelete, OrmWrite
<1>3. ASSUME NEW S, NEW p \in Patch, OrmUpdate(S, p)
      PROVE  RowsGrown
  <2>1. \A k \in Upserts(Here(S, p)) : Here(S, p)[k].changes = p
    BY DEF Upserts, Here
  <2> QED
    BY <1>3, <2>1, GroupGrows DEF OrmUpdate, OrmWrite
<1> QED
  BY <1>1, <1>2, <1>3 DEF ServerWrite

-----------------------------------------------------------------------------
(* What a step leaves alone.                                               *)

LEMMA CommittedStays ==
  ASSUME RowsGrown, NEW i \in Ids, NEW rev, Committed(i, rev)
  PROVE  Committed(i, rev)'
BY RevisionForms, row'[i].rev \in Nat DEF RowsGrown, Committed, RowsKept, Entity

LEMMA ClientStays ==
  ASSUME RowsGrown, NEW c \in Clients, ClientOk(c), replies \subseteq replies',
         db'[c] = db[c], object'[c] = object[c], call'[c] = call[c],
         feed'[c] = feed[c], made'[c] = made[c]
  PROVE  ClientOk(c)'
<1>1. ReplicaOk(db[c], made[c])'
  BY CommittedStays DEF ClientOk, ReplicaOk, IsReplica
<1>2. ObjectOk(object[c], db[c])'
  BY CommittedStays DEF ClientOk, ObjectOk, IsObject, AwaitedOk, Submitted
<1>3. CycleOk(c, call[c], db[c], object[c])'
  <2>1. call[c].at = "replied" =>
          \E y \in replies' : y.key = <<c, call[c].number>> /\ y.result = call[c].result
    BY DEF ClientOk, CycleOk
  <2>2. call[c].at = "fetched" => EventsOk(call[c].page, db[c])'
    <3> SUFFICES ASSUME call[c].at = "fetched"
                 PROVE  EventsOk(call[c].page, db[c])'
      OBVIOUS
    <3>1. EventsOk(call[c].page, db[c])
      BY DEF ClientOk, CycleOk
    <3>2. ASSUME NEW x, x.id \in Ids, TellsState(x, db[c])
          PROVE  TellsState(x, db[c])'
      BY <3>2, CommittedStays DEF TellsState
    <3> QED
      BY <3>1, <3>2 DEF EventsOk, TakesAway
  <2> QED
    BY <2>1, <2>2 DEF ClientOk, CycleOk
<1>4. FeedOk(feed[c])'
  BY DEF ClientOk, FeedOk
<1> QED
  BY <1>1, <1>2, <1>3, <1>4 DEF ClientOk

(* A receipt outlives the operation, and does not meet the next one. *)
LEMMA OwnReceiptStays ==
  ASSUME RowsGrown, NEW r, OwnReceipt(r),
         \A k \in Clients : /\ made[k] \in Nat /\ made'[k] \in Nat /\ made'[k] >= made[k]
                            /\ \A op \in db'[k].outbox : op \in db[k].outbox \/ op.number > made[k]
  PROVE  OwnReceipt(r)'
<1>0. PICK c \in Clients : \E n \in 1..made[c] :
        r.key = <<c, n>> /\ \A op \in db[c].outbox : op.number = n => op.muts = r.muts
  BY DEF OwnReceipt
<1>1. PICK n \in 1..made[c] :
        r.key = <<c, n>> /\ \A op \in db[c].outbox : op.number = n => op.muts = r.muts
  BY <1>0
<1>2. n \in 1..made'[c]
  BY <1>1
<1>3. \A op \in db'[c].outbox : op.number = n => op.muts = r.muts
  BY <1>1
<1> QED
  BY <1>1, <1>2, <1>3, CommittedStays DEF OwnReceipt

LEMMA Replaced ==
  ASSUME NEW f, f = [k \in Clients |-> f[k]], NEW c \in Clients, NEW e
  PROVE  /\ [f EXCEPT ![c] = e] = [k \in Clients |-> [f EXCEPT ![c] = e][k]]
         /\ [f EXCEPT ![c] = e][c] = e
         /\ \A k \in Clients \ {c} : [f EXCEPT ![c] = e][k] = f[k]
         /\ f = [f EXCEPT ![c] = f[c]]
OBVIOUS

(* A step of one client. *)
LEMMA ClientSteps ==
  ASSUME ObjectInv, NEW c \in Clients,
         NEW d, NEW o, NEW e, NEW h, NEW n \in Nat,
         db' = [db EXCEPT ![c] = d], object' = [object EXCEPT ![c] = o],
         call' = [call EXCEPT ![c] = e], feed' = [feed EXCEPT ![c] = h],
         made' = [made EXCEPT ![c] = n], UNCHANGED serverVars,
         n >= made[c], \A op \in d.outbox : op \in db[c].outbox \/ op.number > made[c],
         ReplicaOk(d, n), ObjectOk(o, d), CycleOk(c, e, d, o), FeedOk(h)
  PROVE  ObjectInv'
<1>1. RowsGrown
  BY RevisionForms DEF ObjectInv, ServerOk, RowsGrown, RowsKept, serverVars
<1>2. /\ PerClient'
      /\ db'[c] = d /\ object'[c] = o /\ call'[c] = e /\ feed'[c] = h /\ made'[c] = n
      /\ \A k \in Clients \ {c} : /\ db'[k] = db[k] /\ object'[k] = object[k]
                                  /\ call'[k] = call[k] /\ feed'[k] = feed[k]
                                  /\ made'[k] = made[k]
  BY Replaced DEF ObjectInv, PerClient
<1>3. ClientOk(c)'
  <2>1. UNCHANGED <<row, replies>>
    BY DEF serverVars
  <2>2. ReplicaOk(d, n)' /\ ObjectOk(o, d)' /\ CycleOk(c, e, d, o)' /\ FeedOk(h)'
    BY <2>1 DEF ReplicaOk, IsReplica, ObjectOk, IsObject, AwaitedOk, CycleOk, EventsOk, TellsState,
                Committed
  <2> QED
    BY <1>2, <2>2 DEF ClientOk
<1>4. \A k \in Clients \ {c} : ClientOk(k)'
  BY <1>1, <1>2, ClientStays DEF ObjectInv, serverVars
<1>5. ServerOk'
  <2>1. \A k \in Clients : /\ made[k] \in Nat /\ made'[k] \in Nat /\ made'[k] >= made[k]
                           /\ \A op \in db'[k].outbox : op \in db[k].outbox \/ op.number > made[k]
    BY <1>2 DEF ObjectInv, PerClient
  <2>2. \A r \in receipts : OwnReceipt(r)'
    BY <1>1, <2>1, OwnReceiptStays DEF ObjectInv, ServerOk
  <2> QED
    BY <1>1, <2>2 DEF ObjectInv, ServerOk, RowsGrown, serverVars
<1> QED
  BY <1>2, <1>3, <1>4, <1>5 DEF ObjectInv

-----------------------------------------------------------------------------
(* Steps of the server.                                                    *)

LEMMA ServerSteps ==
  ASSUME ObjectInv, RowsGrown, UNCHANGED <<db, object, call, feed, made>>,
         replies \subseteq replies',
         \A r \in receipts' : r \in receipts \/ OwnReceipt(r)',
         \A y \in replies' : y \in replies \/ \E r \in receipts' : r.key = y.key /\ r.result = y.result,
         receipts \subseteq receipts'
  PROVE  ObjectInv'
<1>1. PerClient'
  BY DEF ObjectInv, PerClient
<1>2. \A c \in Clients : ClientOk(c)'
  BY ClientStays DEF ObjectInv
<1>3. \A r \in receipts : OwnReceipt(r)'
  <2>1. \A k \in Clients : /\ made[k] \in Nat /\ made'[k] \in Nat /\ made'[k] >= made[k]
                           /\ \A op \in db'[k].outbox : op \in db[k].outbox \/ op.number > made[k]
    BY DEF ObjectInv, PerClient
  <2> QED
    BY <2>1, OwnReceiptStays DEF ObjectInv, ServerOk
<1>4. ServerOk'
  BY <1>3 DEF ObjectInv, ServerOk, RowsGrown
<1> QED
  BY <1>1, <1>2, <1>4 DEF ObjectInv

LEMMA AnswerKeeps ==
  ASSUME ObjectInv, RowsGrown, UNCHANGED <<db, object, call, feed, made>>,
         NEW c \in Clients, NEW op \in db[c].outbox, NEW result,
         Answer([key |-> <<c, op.number>>, muts |-> op.muts], result),
         DOMAIN result.entities \subseteq DOMAIN op.muts,
         \A i \in Ids \cap DOMAIN result.entities : result.entities[i].rev \in 0..row'[i].rev
  PROVE  ObjectInv'
<1> DEFINE r == [key |-> <<c, op.number>>, muts |-> op.muts, result |-> result]
<1>1. op.number \in 1..made[c] /\ \A a \in db[c].outbox : a = op
  BY DEF ObjectInv, ClientOk, ReplicaOk
<1>2. OwnReceipt(r)'
  <2>1. r.key = <<c, op.number>> /\ r.muts = op.muts /\ r.result = result
    OBVIOUS
  <2> HIDE DEF r
  <2>2. \E k \in Clients : \E n \in 1..made'[k] :
          r.key = <<k, n>> /\ \A a \in db'[k].outbox : a.number = n => a.muts = r.muts
    BY <1>1, <2>1
  <2> QED
    BY <2>1, <2>2 DEF OwnReceipt, Committed
<1>3. /\ receipts' = receipts \cup {r}
      /\ replies' = replies \cup {[key |-> <<c, op.number>>, result |-> result]}
  BY DEF Answer
<1>4. r.key = <<c, op.number>> /\ r.result = result
  OBVIOUS
<1> HIDE DEF r
<1> QED
  BY <1>2, <1>3, <1>4, ServerSteps

LEMMA PushKeeps ==
  ASSUME ObjectInv, NEW c \in Clients, ObjectPush(c)
  PROVE  ObjectInv'
<1>1. PICK op \in db[c].outbox :
        LET req == [key |-> <<c, op.number>>, muts |-> op.muts]
        IN IF Permitted(c, op.muts) \/ Receipted(req) THEN Push(req)
           ELSE /\ Answer(req, Result("rejected", [i \in {} |-> Absent]))
                /\ UNCHANGED <<row, journal, retained>>
  BY DEF ObjectPush
<1> DEFINE req == [key |-> <<c, op.number>>, muts |-> op.muts]
<1>2. UNCHANGED <<db, object, call, feed, made>>
  BY DEF ObjectPush
<1>3. RowsKept
  BY DEF ObjectInv, ServerOk
<1>4. UNCHANGED row => RowsGrown
  BY <1>3, RevisionForms DEF RowsGrown, RowsKept
<1>5. ASSUME Answer(req, Result("rejected", [i \in {} |-> Absent])), UNCHANGED row
      PROVE  ObjectInv'
  <2> DEFINE result == Result("rejected", [i \in {} |-> Absent])
  <2>1. DOMAIN result.entities = {}
    BY DEF Result
  <2> HIDE DEF result
  <2> QED
    BY <1>2, <1>4, <1>5, <2>1, AnswerKeeps DEF result
<1>6. CASE Replay(req)
  <2>1. PICK r \in receipts : replies' = replies \cup {[key |-> r.key, result |-> r.result]}
    BY <1>6 DEF Replay
  <2>2. UNCHANGED <<row, receipts>>
    BY <1>6 DEF Replay
  <2> QED
    BY <1>2, <1>4, <2>1, <2>2, ServerSteps
<1>7. CASE Accept(req)
  <2> DEFINE result == Result("accepted", [i \in Affected(op.muts) |-> Stamped(op.muts)[i]])
  <2>1. \A i \in Upserts(op.muts) : op.muts[i].changes \in Patch
    BY <1>7 DEF Accept, Malformed, Upserts, PatchOf
  <2>2. ApplyAndJournal(op.muts) /\ Answer(req, result)
    BY <1>7 DEF Accept
  <2>3. RowsGrown
    BY <1>3, <2>1, <2>2, GroupGrows
  <2>4. /\ Affected(op.muts) \subseteq DOMAIN op.muts
        /\ row' = Stamped(op.muts)
    BY <1>3, <2>1, <2>2, StampedRows DEF ApplyAndJournal
  <2>5. /\ DOMAIN result.entities = Affected(op.muts)
        /\ \A i \in Affected(op.muts) : result.entities[i] = row'[i]
    BY <2>4 DEF Result
  <2>6. \A i \in Ids : row'[i].rev \in Nat
    BY <2>3 DEF RowsGrown, RowsKept, Entity
  <2>7. \A i \in Ids \cap DOMAIN result.entities : result.entities[i].rev \in 0..row'[i].rev
    BY <2>5, <2>6
  <2> HIDE DEF result
  <2> QED
    BY <1>2, <2>2, <2>3, <2>4, <2>5, <2>7, AnswerKeeps
<1>8. CASE Refused(req)
  <2> DEFINE result == Result("conflict", [i \in DOMAIN op.muts |-> row[i]])
  <2>1. Answer(req, result) /\ UNCHANGED row
    BY <1>8 DEF Refused
  <2>2. /\ DOMAIN result.entities = DOMAIN op.muts
        /\ \A i \in DOMAIN op.muts : result.entities[i] = row[i]
    BY DEF Result
  <2>3. \A i \in Ids \cap DOMAIN result.entities : result.entities[i].rev \in 0..row'[i].rev
    <3>1. \A i \in Ids : row[i].rev \in Nat
      BY <1>3, RevisionForms
    <3>2. row' = row
      BY <2>1
    <3> HIDE DEF result
    <3> QED
      BY <2>2, <3>1, <3>2
  <2> HIDE DEF result
  <2> QED
    BY <1>2, <1>4, <2>1, <2>2, <2>3, AnswerKeeps
<1>9. CASE Reject(req)
  BY <1>5, <1>9 DEF Reject
<1> QED
  BY <1>1, <1>5, <1>6, <1>7, <1>8, <1>9 DEF Push

LEMMA WriteKeeps ==
  ASSUME ObjectInv, ObjectWrite
  PROVE  ObjectInv'
<1>1. RowsGrown
  BY OwnGrows DEF ObjectInv, ServerOk, ObjectWrite
<1>2. UNCHANGED <<receipts, replies>>
  BY DEF ObjectWrite, ServerWrite, OrmInsert, OrmUpdate, OrmDelete, OrmWrite
<1> QED
  BY <1>1, <1>2, ServerSteps DEF ObjectWrite

LEMMA GrantKeeps ==
  ASSUME ObjectInv, Grant
  PROVE  ObjectInv'
<1>1. RowsGrown
  BY RevisionForms DEF ObjectInv, ServerOk, RowsKept, RowsGrown, Grant, systemVars, serverVars
<1> QED
  BY <1>1, ServerSteps DEF Grant, systemVars, serverVars

-----------------------------------------------------------------------------
(* Steps that write neither shadows, operations nor the cursor.            *)

SameStore(d, e) ==
  /\ e = [local |-> e.local, shadow |-> e.shadow, dirty |-> e.dirty, deleting |-> e.deleting,
          conflict |-> e.conflict, outbox |-> e.outbox, cursor |-> e.cursor, reset |-> e.reset]
  /\ e.shadow = d.shadow /\ e.outbox = d.outbox /\ e.cursor = d.cursor

LEMMA SameStoreOk ==
  ASSUME NEW d, NEW e, SameStore(d, e), NEW n, ReplicaOk(d, n)
  PROVE  /\ ReplicaOk(e, n)
         /\ \A o : ObjectOk(o, d) => ObjectOk(o, e)
         /\ \A c, at, o : CycleOk(c, at, d, o) => CycleOk(c, at, e, o)
<1>1. ReplicaOk(e, n)
  BY DEF SameStore, ReplicaOk, IsReplica
<1>2. \A o : ObjectOk(o, d) => ObjectOk(o, e)
  BY DEF SameStore, ObjectOk, AwaitedOk, Submitted
<1>3. \A c, at, o : CycleOk(c, at, d, o) => CycleOk(c, at, e, o)
  BY DEF SameStore, CycleOk, EventsOk, TellsState
<1> QED
  BY <1>1, <1>2, <1>3

(* The client's part of the invariant, and what it leaves alone. *)
LEMMA ClientForms ==
  ASSUME ObjectInv, NEW c \in Clients
  PROVE  /\ ReplicaOk(db[c], made[c]) /\ ObjectOk(object[c], db[c])
         /\ CycleOk(c, call[c], db[c], object[c]) /\ FeedOk(feed[c])
         /\ made[c] \in Nat
         /\ db = [db EXCEPT ![c] = db[c]] /\ object = [object EXCEPT ![c] = object[c]]
         /\ call = [call EXCEPT ![c] = call[c]] /\ feed = [feed EXCEPT ![c] = feed[c]]
         /\ made = [made EXCEPT ![c] = made[c]]
BY Replaced DEF ObjectInv, ClientOk, PerClient

LEMMA WriteForms ==
  ASSUME NEW d, IsReplica(d), NEW local, NEW deleting, NEW conflict, NEW dirty
  PROVE  SameStore(d, [d EXCEPT !.local = local, !.deleting = deleting,
                                !.conflict = conflict, !.dirty = dirty])
<1>1. PICK e : e = [d EXCEPT !.local = local, !.deleting = deleting,
                             !.conflict = conflict, !.dirty = dirty]
  OBVIOUS
<1>2. SameStore(d, e)
  BY <1>1 DEF IsReplica, SameStore
<1> QED
  BY <1>1, <1>2

LEMMA SaveStores ==
  ASSUME ObjectInv, NEW c \in Clients, NEW i \in Ids, NEW r, Save(c, i, r)
  PROVE  \E e : db' = [db EXCEPT ![c] = e] /\ SameStore(db[c], e)
<1>1. PICK d : d = db[c]
  OBVIOUS
<1>2. IsReplica(d) /\ db = [k \in Clients |-> db[k]]
  BY <1>1, ClientForms DEF ReplicaOk, ObjectInv, PerClient
<1>3. PICK e : e = [d EXCEPT !.local = [d.local EXCEPT ![i] = r], !.deleting = d.deleting \ {i},
                             !.conflict = d.conflict, !.dirty = d.dirty \cup {i}]
  OBVIOUS
<1>4. db' = [db EXCEPT ![c] = e]
  BY <1>1, <1>2, <1>3 DEF Save, IsReplica
<1>5. SameStore(d, e)
  BY <1>2, <1>3, WriteForms
<1> QED
  BY <1>1, <1>4, <1>5

LEMMA DeleteStores ==
  ASSUME ObjectInv, NEW c \in Clients, NEW i \in Ids, Delete(c, i)
  PROVE  \E e : db' = [db EXCEPT ![c] = e] /\ SameStore(db[c], e)
<1>1. PICK d : d = db[c]
  OBVIOUS
<1>2. IsReplica(d) /\ db = [k \in Clients |-> db[k]]
  BY <1>1, ClientForms DEF ReplicaOk, ObjectInv, PerClient
<1>3. \E local, deleting, conflict, dirty :
        db' = [db EXCEPT ![c] = [d EXCEPT !.local = local, !.deleting = deleting,
                                          !.conflict = conflict, !.dirty = dirty]]
  <2> DEFINE deps == IF i \in Parents THEN Dependents(d, i) ELSE {}
             gone == {i} \cup {k \in deps : OnDelete[k] = "cascade"}
             rows == [k \in Ids |-> IF k \in gone THEN None
                                    ELSE IF k \in deps THEN [d.local[k] EXCEPT !.data["ref"] = None]
                                    ELSE d.local[k]]
             clashes == [k \in Ids |-> IF k \in gone /\ Retryable(d, k) THEN None ELSE d.conflict[k]]
  <2>1. db' = [db EXCEPT ![c].local = rows, ![c].deleting = @ \cup gone,
                         ![c].conflict = clashes, ![c].dirty = @ \cup gone \cup deps]
    BY <1>1, <1>2 DEF Delete, IsReplica
  <2> HIDE DEF rows, clashes, gone, deps
  <2>2. db' = [db EXCEPT ![c] = [d EXCEPT !.local = rows, !.deleting = d.deleting \cup gone,
                                   !.conflict = clashes, !.dirty = d.dirty \cup gone \cup deps]]
    BY <1>1, <1>2, <2>1 DEF IsReplica
  <2> QED
    BY <2>2
<1>4. PICK local, deleting, conflict, dirty :
        db' = [db EXCEPT ![c] = [d EXCEPT !.local = local, !.deleting = deleting,
                                          !.conflict = conflict, !.dirty = dirty]]
  BY <1>3
<1>5. SameStore(d, [d EXCEPT !.local = local, !.deleting = deleting,
                             !.conflict = conflict, !.dirty = dirty])
  BY <1>2, WriteForms
<1> QED
  BY <1>1, <1>4, <1>5

LEMMA ResolveStores ==
  ASSUME ObjectInv, NEW c \in Clients, NEW i \in Ids, NEW data, Resolve(c, i, data)
  PROVE  \E e : db' = [db EXCEPT ![c] = e] /\ SameStore(db[c], e)
<1>1. PICK d : d = db[c]
  OBVIOUS
<1>2. IsReplica(d) /\ db = [k \in Clients |-> db[k]]
  BY <1>1, ClientForms DEF ReplicaOk, ObjectInv, PerClient
<1>3. PICK r : r = IF data = None THEN None ELSE [rev |-> d.shadow[i].rev, data |-> data]
  OBVIOUS
<1>4. PICK e : e = [d EXCEPT !.local = [d.local EXCEPT ![i] = r],
                             !.deleting = IF r = None THEN d.deleting \cup {i} ELSE d.deleting \ {i},
                             !.conflict = [d.conflict EXCEPT ![i] = None],
                             !.dirty = d.dirty \cup {i}]
  OBVIOUS
<1>5. db' = [db EXCEPT ![c] = e]
  BY <1>1, <1>2, <1>3, <1>4 DEF Resolve, IsReplica
<1>6. SameStore(d, e)
  BY <1>2, <1>4, WriteForms
<1> QED
  BY <1>1, <1>5, <1>6

LEMMA StoreStepKeeps ==
  ASSUME ObjectInv, NEW c \in Clients, NEW d, db' = [db EXCEPT ![c] = d], SameStore(db[c], d),
         NEW e, call' = [call EXCEPT ![c] = e], CycleOk(c, e, db[c], object[c]),
         UNCHANGED <<object, feed, made, serverVars>>
  PROVE  ObjectInv'
<1>1. /\ ReplicaOk(d, made[c]) /\ ObjectOk(object[c], d) /\ CycleOk(c, e, d, object[c])
  BY SameStoreOk, ClientForms
<1>2. \A op \in d.outbox : op \in db[c].outbox
  BY DEF SameStore
<1>3. /\ object' = [object EXCEPT ![c] = object[c]] /\ feed' = [feed EXCEPT ![c] = feed[c]]
      /\ made' = [made EXCEPT ![c] = made[c]] /\ UNCHANGED serverVars
      /\ FeedOk(feed[c]) /\ made[c] \in Nat /\ made[c] >= made[c]
  BY ClientForms
<1> QED
  BY <1>1, <1>2, <1>3, ClientSteps

LEMMA ObjectEditKeeps ==
  ASSUME ObjectInv, NEW c \in Clients, ObjectEdit(c)
  PROVE  ObjectInv'
<1>1. \E e : db' = [db EXCEPT ![c] = e] /\ SameStore(db[c], e)
  BY SaveStores, DeleteStores, ResolveStores DEF ObjectEdit, Insert, Update
<1>2. UNCHANGED <<object, call, feed, made, serverVars>>
  BY DEF ObjectEdit, serverSide
<1> QED
  BY <1>1, <1>2, ClientForms, StoreStepKeeps

(* Steps of the cycle that only move it. *)
LEMMA MoveKeeps ==
  ASSUME ObjectInv, NEW c \in Clients, NEW e, Moves(c, e), CycleOk(c, e, db[c], object[c]),
         UNCHANGED <<db, object, feed, made, serverVars>>
  PROVE  ObjectInv'
<1>1. SameStore(db[c], db[c])
  BY ClientForms DEF SameStore, ReplicaOk, IsReplica
<1> QED
  BY <1>1, ClientForms, StoreStepKeeps DEF Moves

(* Places of the cycle with nothing to remember. *)
LEMMA Places ==
  ASSUME NEW c, NEW d, NEW o
  PROVE  /\ CycleOk(c, Resting, d, o) /\ CycleOk(c, Ending, d, o)
         /\ \A new : CycleOk(c, Choosing(new), d, o)
         /\ \A n : CycleOk(c, Waiting(n), d, o)
BY DEF CycleOk, Resting, Ending, Choosing, Waiting

LEMMA TidiedStore ==
  ASSUME NEW d, IsReplica(d)
  PROVE  SameStore(d, Tidied(d))
<1>1. PICK e : e = Tidied(d)
  OBVIOUS
<1>2. SameStore(d, e)
  BY <1>1 DEF Tidied, IsReplica, SameStore
<1> QED
  BY <1>1, <1>2

LEMMA SkipKeeps ==
  ASSUME ObjectInv, NEW c \in Clients, SkipObject(c)
  PROVE  ObjectInv'
<1>1. IsReplica(db[c])
  BY ClientForms DEF ReplicaOk
<1>2. SameStore(db[c], db[c])
  BY <1>1 DEF SameStore, IsReplica
<1>3. \E d : db' = [db EXCEPT ![c] = d] /\ SameStore(db[c], d)
  BY <1>1, <1>2, TidiedStore, ClientForms DEF SkipObject
<1>4. UNCHANGED <<object, feed, made, serverVars>> /\ call' = [call EXCEPT ![c] = Ending]
  BY DEF SkipObject, serverSide, Moves
<1>5. CycleOk(c, Ending, db[c], object[c])
  BY Places
<1> QED
  BY <1>3, <1>4, <1>5, StoreStepKeeps

LEMMA ResubmitKeeps ==
  ASSUME ObjectInv, NEW c \in Clients, Resubmit(c)
  PROVE  ObjectInv'
<1>1. UNCHANGED <<db, object, feed, made, serverVars>> /\ \E n : Moves(c, Waiting(n))
  BY DEF Resubmit, serverSide
<1> QED
  BY <1>1, Places, MoveKeeps

LEMMA RespondKeeps ==
  ASSUME ObjectInv, NEW c \in Clients, Respond(c)
  PROVE  ObjectInv'
<1>1. PICK r \in replies : /\ r.key = <<c, call[c].number>>
                           /\ Moves(c, Replied(call[c].number, r.result, Withheld(c, r.result)))
  BY DEF Respond
<1>2. UNCHANGED <<db, object, feed, made, serverVars>>
  BY DEF Respond, serverSide
<1>3. CycleOk(c, Replied(call[c].number, r.result, Withheld(c, r.result)), db[c], object[c])
  BY <1>1 DEF CycleOk, Replied
<1> QED
  BY <1>1, <1>2, <1>3, MoveKeeps

LEMMA InterruptKeeps ==
  ASSUME ObjectInv, NEW c \in Clients, Interrupt(c)
  PROVE  ObjectInv'
BY Places, MoveKeeps DEF Interrupt, serverSide

(* An object that waits for its state cannot be sent. *)
LEMMA HiddenForms ==
  ASSUME NEW a \in Hidden
  PROVE  a # None /\ a.rights = {} /\ a.status \in {"review", "revoked", "deleted"}
<1>1. a \in [rights : SUBSET {"read", "change", "delete"},
             status : {"active", "review", "revoked", "deleted", "discarded"}]
  BY DEF Hidden, Access
<1> QED
  BY <1>1, ObjectAssumption DEF Hidden, Access

LEMMA PrepareObjectKeeps ==
  ASSUME ObjectInv, NEW c \in Clients, PrepareObject(c)
  PROVE  ObjectInv'
<1>1. PICK d : d = db[c]
  OBVIOUS
<1>2. PICK t : t = Tidied(d)
  OBVIOUS
<1>3. PICK S \in SUBSET Selection(c) :
        db' = [db EXCEPT ![c] = [t EXCEPT !.outbox =
                 {[number |-> made[c] + 1, feed |-> "scope", muts |-> [i \in S |-> MutationOf(d, i)]]}]]
  BY <1>1, <1>2 DEF PrepareObject, FirstOf
<1>4. PICK op : op = [number |-> made[c] + 1, feed |-> "scope", muts |-> [i \in S |-> MutationOf(d, i)]]
  OBVIOUS
<1>5. PICK e : e = [t EXCEPT !.outbox = {op}]
  OBVIOUS
<1>6. /\ ReplicaOk(d, made[c]) /\ ReplicaOk(t, made[c]) /\ ObjectOk(object[c], d)
      /\ SameStore(d, t) /\ made[c] \in Nat
  BY <1>1, <1>2, ClientForms, SameStoreOk, TidiedStore DEF ReplicaOk
<1>7. /\ e = [local |-> e.local, shadow |-> e.shadow, dirty |-> e.dirty, deleting |-> e.deleting,
              conflict |-> e.conflict, outbox |-> e.outbox, cursor |-> e.cursor, reset |-> e.reset]
      /\ e.shadow = d.shadow /\ e.cursor = d.cursor /\ e.outbox = {op}
  BY <1>5, <1>6 DEF SameStore
<1>8. op.number = made[c] + 1 /\ DOMAIN op.muts = S
  BY <1>4
<1>9. ReplicaOk(e, made[c] + 1)
  BY <1>6, <1>7, <1>8 DEF ReplicaOk, IsReplica
<1>10. Submitted(e) = S
  BY <1>7, <1>8 DEF Submitted
<1>11. ObjectOk(object[c], e)
  <2>1. ASSUME NEW i \in Ids, object[c].intent[i] # None
        PROVE  i \notin S
    <3>1. object[c].access[i] \in Hidden
      BY <1>6, <2>1 DEF ObjectOk, AwaitedOk
    <3>2. \A right : ~CanSend(object[c], i, right)
      BY <3>1, HiddenForms DEF CanSend
    <3> QED
      BY <3>2 DEF Selection
  <2> QED
    BY <1>6, <1>7, <1>10, <2>1 DEF ObjectOk, AwaitedOk
<1>12. /\ call' = [call EXCEPT ![c] = Waiting(made[c] + 1)]
       /\ made' = [made EXCEPT ![c] = made[c] + 1]
       /\ db' = [db EXCEPT ![c] = e]
       /\ object' = [object EXCEPT ![c] = object[c]] /\ feed' = [feed EXCEPT ![c] = feed[c]]
       /\ UNCHANGED serverVars
  BY <1>3, <1>4, <1>5, ClientForms DEF PrepareObject, Moves, serverSide
<1>13. CycleOk(c, Waiting(made[c] + 1), e, object[c])
  BY Places
<1>14. /\ made[c] + 1 \in Nat /\ made[c] + 1 >= made[c]
       /\ \A x \in e.outbox : x.number > made[c]
  BY <1>6, <1>7, <1>8
<1>15. FeedOk(feed[c])
  BY ClientForms
<1> QED
  BY <1>9, <1>11, <1>12, <1>13, <1>14, <1>15, ClientSteps

-----------------------------------------------------------------------------
(* Steps that change what the client knows of its objects.                 *)

LEMMA SameIntents ==
  ASSUME NEW c, NEW e, NEW d, NEW o, NEW p, CycleOk(c, e, d, o),
         \A i \in Ids : p.intent[i] = o.intent[i] \/ p.intent[i] = None
  PROVE  CycleOk(c, e, d, p)
BY DEF CycleOk

(* The access to some objects is replaced, never that to an awaited one. *)
LEMMA AccessKeeps ==
  ASSUME NEW o, NEW d, ObjectOk(o, d), NEW access,
         access = [i \in Ids |-> access[i]],
         \A i \in Ids : \/ access[i] = o.access[i]
                        \/ /\ o.intent[i] = None
                           /\ access[i] = Access(access[i].rights, access[i].status)
  PROVE  /\ ObjectOk([o EXCEPT !.access = access], d)
         /\ [o EXCEPT !.access = access].intent = o.intent
<1>1. PICK p : p = [o EXCEPT !.access = access]
  OBVIOUS
<1>2. /\ p = [access |-> p.access, create |-> p.create, deferred |-> p.deferred, intent |-> p.intent]
      /\ p.access = access /\ p.create = o.create /\ p.deferred = o.deferred /\ p.intent = o.intent
  BY <1>1 DEF ObjectOk, IsObject
<1>3. IsObject(p)
  BY <1>2 DEF ObjectOk, IsObject
<1>4. ObjectOk(p, d)
  BY <1>2, <1>3 DEF ObjectOk, AwaitedOk
<1> QED
  BY <1>1, <1>2, <1>4

LEMMA AccessStepKeeps ==
  ASSUME ObjectInv, NEW c \in Clients, NEW o, object' = [object EXCEPT ![c] = o],
         ObjectOk(o, db[c]), o.intent = object[c].intent,
         NEW e, Moves(c, e), CycleOk(c, e, db[c], object[c]),
         UNCHANGED <<db, feed, made, serverVars>>
  PROVE  ObjectInv'
<1>1. CycleOk(c, e, db[c], o)
  BY SameIntents
<1>2. /\ db' = [db EXCEPT ![c] = db[c]] /\ feed' = [feed EXCEPT ![c] = feed[c]]
      /\ made' = [made EXCEPT ![c] = made[c]] /\ UNCHANGED serverVars
      /\ ReplicaOk(db[c], made[c]) /\ FeedOk(feed[c]) /\ made[c] \in Nat /\ made[c] >= made[c]
  BY ClientForms
<1> QED
  BY <1>1, <1>2, ClientSteps DEF Moves

LEMMA ResumeKeeps ==
  ASSUME ObjectInv, NEW c \in Clients, NEW i \in Ids, ResumeObject(c, i)
  PROVE  ObjectInv'
<1>1. PICK o : o = object[c]
  OBVIOUS
<1>2. PICK a : a = o.access[i]
  OBVIOUS
<1>3. PICK access : access = [o.access EXCEPT ![i] = [a EXCEPT !.status = "active"]]
  OBVIOUS
<1>4. ObjectOk(o, db[c]) /\ object = [k \in Clients |-> object[k]] /\ IsObject(o)
  BY <1>1, ClientForms DEF ObjectInv, PerClient, ObjectOk
<1>5. a # None /\ "read" \in a.rights
  BY <1>1, <1>2 DEF ResumeObject
<1>6. a = Access(a.rights, a.status)
  BY <1>2, <1>4, <1>5 DEF IsObject
<1>7. [a EXCEPT !.status = "active"] = Access(a.rights, "active")
  BY <1>6 DEF Access
<1>8. o.intent[i] = None
  BY <1>2, <1>4, <1>5, HiddenForms DEF ObjectOk, AwaitedOk
<1>9. ObjectOk([o EXCEPT !.access = access], db[c]) /\ [o EXCEPT !.access = access].intent = o.intent
  <2>1. /\ access = [k \in Ids |-> access[k]]
        /\ \A k \in Ids : access[k] = IF k = i THEN Access(a.rights, "active") ELSE o.access[k]
    BY <1>3, <1>4, <1>7 DEF IsObject
  <2>2. \A R, s : Access(R, s).rights = R /\ Access(R, s).status = s
    BY DEF Access
  <2> QED
    BY <1>4, <1>8, <2>1, <2>2, AccessKeeps
<1>10. object' = [object EXCEPT ![c] = [o EXCEPT !.access = access]]
  BY <1>1, <1>2, <1>3, <1>4 DEF ResumeObject, IsObject
<1>11. UNCHANGED <<db, call, feed, made, serverVars>>
  BY DEF ResumeObject, systemVars
<1> QED
  BY <1>1, <1>9, <1>10, <1>11, ClientForms, AccessStepKeeps DEF Moves

LEMMA ObserveKeeps ==
  ASSUME ObjectInv, NEW c \in Clients, ObserveDisclosures(c)
  PROVE  ObjectInv'
<1>1. PICK o : o = object[c]
  OBVIOUS
<1>2. PICK told : told = call[c].entities
  OBVIOUS
<1> DEFINE seen(i) == IF ~Live(told[i]) THEN Access({}, "deleted")
                      ELSE IF o.access[i] = None THEN Access({"read"}, "active")
                      ELSE [o.access[i] EXCEPT !.rights = @ \cup {"read"}]
<1>3. PICK access : access = [i \in Ids |-> IF i \in DOMAIN told THEN seen(i) ELSE o.access[i]]
  OBVIOUS
<1>4. ObjectOk(o, db[c]) /\ object = [k \in Clients |-> object[k]] /\ IsObject(o)
  BY <1>1, ClientForms DEF ObjectInv, PerClient, ObjectOk
<1>5. call[c].at = "settled" /\ \A i \in Ids \cap DOMAIN told : o.intent[i] = None
  BY <1>1, <1>2, ClientForms DEF ObserveDisclosures, CycleOk
<1>6. \A i \in Ids : seen(i) = Access(seen(i).rights, seen(i).status)
  <2> SUFFICES ASSUME NEW i \in Ids
               PROVE  \E R, s : seen(i) = Access(R, s)
    BY DEF Access
  <2>1. o.access[i] # None => o.access[i] = Access(o.access[i].rights, o.access[i].status)
    BY <1>4 DEF IsObject
  <2>2. o.access[i] # None =>
          [o.access[i] EXCEPT !.rights = @ \cup {"read"}]
            = Access(o.access[i].rights \cup {"read"}, o.access[i].status)
    BY <2>1 DEF Access
  <2> QED
    BY <2>2
<1>7. ObjectOk([o EXCEPT !.access = access], db[c]) /\ [o EXCEPT !.access = access].intent = o.intent
  <2>1. /\ access = [k \in Ids |-> access[k]]
        /\ \A i \in Ids : access[i] = IF i \in DOMAIN told THEN seen(i) ELSE o.access[i]
    BY <1>3
  <2> HIDE DEF seen
  <2> QED
    BY <1>4, <1>5, <1>6, <2>1, AccessKeeps
<1>8. object' = [object EXCEPT ![c] = [o EXCEPT !.access = access]]
  BY <1>1, <1>2, <1>3, <1>4 DEF ObserveDisclosures, IsObject
<1>9. Moves(c, Ending) /\ UNCHANGED <<db, feed, made, serverVars>>
  BY DEF ObserveDisclosures, serverSide
<1> QED
  BY <1>1, <1>7, <1>8, <1>9, Places, AccessStepKeeps

LEMMA DiscardKeeps ==
  ASSUME ObjectInv, NEW c \in Clients, NEW i \in Ids, DiscardRetainedDraft(c, i)
  PROVE  ObjectInv'
<1>1. PICK d : d = db[c]
  OBVIOUS
<1>2. PICK o : o = object[c]
  OBVIOUS
<1>3. PICK a : a = o.access[i]
  OBVIOUS
<1>4. PICK e : e = [d EXCEPT !.local = [d.local EXCEPT ![i] = None],
                             !.shadow = [d.shadow EXCEPT ![i] = Absent],
                             !.dirty = d.dirty \ {i}, !.deleting = d.deleting \ {i},
                             !.conflict = [d.conflict EXCEPT ![i] = None]]
  OBVIOUS
<1>5. PICK p : p = [o EXCEPT !.access = [o.access EXCEPT ![i] = [a EXCEPT !.status = "discarded"]],
                             !.intent = [o.intent EXCEPT ![i] = None]]
  OBVIOUS
<1>6. /\ ReplicaOk(d, made[c]) /\ ObjectOk(o, d) /\ CycleOk(c, call[c], d, o) /\ FeedOk(feed[c])
      /\ IsReplica(d) /\ IsObject(o) /\ made[c] \in Nat
      /\ db = [k \in Clients |-> db[k]] /\ object = [k \in Clients |-> object[k]]
  BY <1>1, <1>2, ClientForms DEF ReplicaOk, ObjectOk, ObjectInv, PerClient
<1>7. db' = [db EXCEPT ![c] = e]
  BY <1>1, <1>4, <1>6 DEF DiscardRetainedDraft, IsReplica
<1>8. object' = [object EXCEPT ![c] = p]
  BY <1>2, <1>3, <1>5, <1>6 DEF DiscardRetainedDraft, Discarded, IsObject
<1>9. /\ e = [local |-> e.local, shadow |-> e.shadow, dirty |-> e.dirty, deleting |-> e.deleting,
              conflict |-> e.conflict, outbox |-> e.outbox, cursor |-> e.cursor, reset |-> e.reset]
      /\ e.outbox = d.outbox /\ e.cursor = d.cursor
      /\ e.shadow = [d.shadow EXCEPT ![i] = Absent]
  BY <1>4, <1>6 DEF IsReplica
<1>10. \A k \in Ids : e.shadow[k] = IF k = i THEN Absent ELSE d.shadow[k]
  BY <1>6, <1>9 DEF IsReplica
<1>11. Absent.rev = 0 /\ Committed(i, 0)
  <2>1. RowsKept
    BY DEF ObjectInv, ServerOk
  <2>2. row[i].rev \in Nat
    BY <2>1, RevisionForms
  <2> QED
    BY <2>2 DEF Absent, Committed
<1>12. ReplicaOk(e, made[c])
  <2>1. IsReplica(e)
    BY <1>6, <1>9 DEF IsReplica
  <2>2. \A k \in Ids : Committed(k, e.shadow[k].rev)
    BY <1>6, <1>10, <1>11 DEF ReplicaOk
  <2> QED
    BY <1>6, <1>9, <2>1, <2>2 DEF ReplicaOk
<1>13. a = Access(a.rights, a.status)
  BY <1>2, <1>3, <1>6 DEF IsObject, DiscardRetainedDraft
<1>14. /\ p = [access |-> p.access, create |-> p.create, deferred |-> p.deferred, intent |-> p.intent]
       /\ p.access = [o.access EXCEPT ![i] = Access(a.rights, "discarded")]
       /\ p.deferred = o.deferred /\ p.intent = [o.intent EXCEPT ![i] = None]
  <2>1. [a EXCEPT !.status = "discarded"] = Access(a.rights, "discarded")
    BY <1>13 DEF Access
  <2> QED
    BY <1>5, <1>6, <2>1 DEF IsObject
<1>15. \A k \in Ids : /\ p.access[k] = IF k = i THEN Access(a.rights, "discarded") ELSE o.access[k]
                      /\ p.intent[k] = IF k = i THEN None ELSE o.intent[k]
  BY <1>6, <1>14 DEF IsObject
<1>16. IsObject(p)
  <2>1. \A R, s : Access(R, s) = Access(Access(R, s).rights, Access(R, s).status)
    BY DEF Access
  <2> QED
    BY <1>6, <1>14, <1>15, <2>1 DEF IsObject
<1>17. ObjectOk(p, e)
  <2>1. Submitted(e) = Submitted(d)
    BY <1>9 DEF Submitted
  <2> QED
    BY <1>6, <1>10, <1>14, <1>15, <1>16, <2>1 DEF ObjectOk, AwaitedOk
<1>18. CycleOk(c, call[c], e, p)
  <2>1. CycleOk(c, call[c], d, p)
    BY <1>6, <1>15, SameIntents
  <2>2. ASSUME NEW x, x.id \in Ids, TellsState(x, d)
        PROVE  TellsState(x, e)
    BY <1>10, <1>11, <2>2 DEF TellsState, Committed
  <2>3. \A page : EventsOk(page, d) => EventsOk(page, e)
    BY <2>2 DEF EventsOk
  <2> QED
    BY <2>1, <2>3 DEF CycleOk
<1>19. /\ call' = [call EXCEPT ![c] = call[c]] /\ feed' = [feed EXCEPT ![c] = feed[c]]
       /\ made' = [made EXCEPT ![c] = made[c]] /\ UNCHANGED serverVars
  BY ClientForms DEF DiscardRetainedDraft, serverSide
<1>20. made[c] >= made[c] /\ \A op \in e.outbox : op \in db[c].outbox
  BY <1>1, <1>6, <1>9
<1> QED
  BY <1>6, <1>7, <1>8, <1>12, <1>17, <1>18, <1>19, <1>20, ClientSteps

-----------------------------------------------------------------------------
(* Delivered states.                                                       *)

(* Received entities become the shadows. *)
LEMMA UpdatesStore ==
  ASSUME NEW d, IsReplica(d), NEW received
  PROVE  \E e : /\ e = ApplyUpdates(d, received)
                /\ IsReplica(e) /\ e.outbox = d.outbox /\ e.cursor = d.cursor
                /\ \A i \in Ids : e.shadow[i] = IF i \in DOMAIN received THEN received[i].remote
                                                ELSE d.shadow[i]
<1>1. \E local, deleting, conflict, dirty :
        ApplyUpdates(d, received) =
          [d EXCEPT !.local = local,
                    !.shadow = [i \in Ids |-> IF i \in DOMAIN received THEN received[i].remote ELSE @[i]],
                    !.conflict = conflict, !.deleting = deleting, !.dirty = dirty]
  <2> DEFINE U == Joined(Protected(d, received), received)
             target == [i \in Ids |-> IF i \in DOMAIN U THEN U[i].merged ELSE d.local[i]]
             fits == RefsPresent(target)
             visible == IF fits THEN target ELSE d.local
             blocked(u) == IF u.ack # None \/ u.previous = u.base THEN Deferred(u.base, u.ack) ELSE Clash
             conflict(u) == IF u.conflict # None THEN u.conflict
                            ELSE IF fits THEN None ELSE blocked(u)
  <2>1. ApplyUpdates(d, received) =
          [d EXCEPT !.local = visible,
                    !.shadow = [i \in Ids |-> IF i \in DOMAIN received THEN received[i].remote ELSE @[i]],
                    !.conflict = [i \in Ids |-> IF i \in DOMAIN U THEN conflict(U[i]) ELSE d.conflict[i]],
                    !.deleting = d.deleting \ {i \in DOMAIN U : ~Live(U[i].remote) /\ visible[i] = None},
                    !.dirty = d.dirty \cup DOMAIN U]
    BY DEF ApplyUpdates, IsReplica
  <2> HIDE DEF U, visible, conflict
  <2> QED
    BY <2>1
<1>2. PICK local, deleting, conflict, dirty :
        ApplyUpdates(d, received) =
          [d EXCEPT !.local = local,
                    !.shadow = [i \in Ids |-> IF i \in DOMAIN received THEN received[i].remote ELSE @[i]],
                    !.conflict = conflict, !.deleting = deleting, !.dirty = dirty]
  BY <1>1
<1>3. PICK e : e = ApplyUpdates(d, received)
  OBVIOUS
<1>4. /\ e = [local |-> e.local, shadow |-> e.shadow, dirty |-> e.dirty, deleting |-> e.deleting,
              conflict |-> e.conflict, outbox |-> e.outbox, cursor |-> e.cursor, reset |-> e.reset]
      /\ e.outbox = d.outbox /\ e.cursor = d.cursor
      /\ e.shadow = [i \in Ids |-> IF i \in DOMAIN received THEN received[i].remote ELSE d.shadow[i]]
  BY <1>2, <1>3 DEF IsReplica
<1>5. IsReplica(e)
  BY <1>4 DEF IsReplica
<1> QED
  BY <1>3, <1>4, <1>5

(* The answer to the operation tells of nothing else. *)
LEMMA AnswerForms ==
  ASSUME ObjectInv, NEW c \in Clients, call[c].at = "replied", NEW op \in Operation(c)
  PROVE  /\ op \in db[c].outbox /\ \A a \in db[c].outbox : a = op
         /\ DOMAIN call[c].result.entities \subseteq DOMAIN op.muts
         /\ \A i \in Ids \cap DOMAIN call[c].result.entities :
              Committed(i, call[c].result.entities[i].rev)
<1>1. op \in db[c].outbox /\ op.number = call[c].number /\ \A a \in db[c].outbox : a = op
  BY ClientForms DEF Operation, ReplicaOk
<1>2. PICK y \in replies : y.key = <<c, call[c].number>> /\ y.result = call[c].result
  BY ClientForms DEF CycleOk
<1>3. PICK r \in receipts : r.key = y.key /\ r.result = y.result /\ OwnReceipt(r)
  BY DEF ObjectInv, ServerOk
<1>4. PICK k \in Clients : \E n \in 1..made[k] :
        r.key = <<k, n>> /\ \A a \in db[k].outbox : a.number = n => a.muts = r.muts
  BY <1>3 DEF OwnReceipt
<1>5. op.muts = r.muts
  BY <1>1, <1>2, <1>3, <1>4
<1> QED
  BY <1>1, <1>2, <1>3, <1>5 DEF OwnReceipt

LEMMA SettleKeeps ==
  ASSUME ObjectInv, NEW c \in Clients, SettleObject(c)
  PROVE  ObjectInv'
<1>1. PICK d : d = db[c]
  OBVIOUS
<1>2. PICK result : result = call[c].result
  OBVIOUS
<1>3. PICK op \in Operation(c) : Finish(c, op, result)
  BY <1>2 DEF SettleObject
<1> DEFINE answers == [i \in DOMAIN op.muts |-> Answered(d, i, op.muts[i], result)]
           received == Joined(answers, SideEffects(d, op, result))
<1>4. /\ op \in d.outbox /\ \A a \in d.outbox : a = op
      /\ DOMAIN result.entities \subseteq DOMAIN op.muts
      /\ \A i \in Ids \cap DOMAIN result.entities : Committed(i, result.entities[i].rev)
  BY <1>1, <1>2, <1>3, AnswerForms DEF SettleObject
<1>5. /\ ReplicaOk(d, made[c]) /\ ObjectOk(object[c], d) /\ IsReplica(d) /\ made[c] \in Nat
      /\ FeedOk(feed[c])
  BY <1>1, ClientForms DEF ReplicaOk
<1>6. /\ DOMAIN received = DOMAIN op.muts
      /\ \A i \in DOMAIN op.muts : received[i] = Answered(d, i, op.muts[i], result)
  <2>1. DOMAIN SideEffects(d, op, result) = {}
    BY <1>4 DEF SideEffects
  <2> QED
    BY <2>1 DEF Joined
<1>7. \A i \in Ids \cap DOMAIN op.muts : Committed(i, received[i].remote.rev)
  <2> SUFFICES ASSUME NEW i \in Ids \cap DOMAIN op.muts
               PROVE  Committed(i, Answered(d, i, op.muts[i], result).remote.rev)
    BY <1>6
  <2>1. Answered(d, i, op.muts[i], result).remote
          = IF i \in DOMAIN result.entities THEN result.entities[i] ELSE d.shadow[i]
    BY DEF Answered
  <2> QED
    BY <1>4, <1>5, <2>1 DEF ReplicaOk
<1> HIDE DEF received
<1>8. PICK t : /\ t = ApplyUpdates(d, received)
               /\ IsReplica(t) /\ t.outbox = d.outbox /\ t.cursor = d.cursor
               /\ \A i \in Ids : t.shadow[i] = IF i \in DOMAIN received THEN received[i].remote
                                               ELSE d.shadow[i]
  BY <1>5, UpdatesStore
<1>9. PICK e : e = [t EXCEPT !.outbox = t.outbox \ {op}]
  OBVIOUS
<1>10. /\ e = [local |-> e.local, shadow |-> e.shadow, dirty |-> e.dirty, deleting |-> e.deleting,
               conflict |-> e.conflict, outbox |-> e.outbox, cursor |-> e.cursor, reset |-> e.reset]
       /\ e.outbox = {} /\ e.cursor = t.cursor /\ e.shadow = t.shadow
  BY <1>4, <1>8, <1>9 DEF IsReplica
<1>11. db' = [db EXCEPT ![c] = e]
  <2>1. e = [ApplyUpdates(d, received) EXCEPT !.outbox = @ \ {op}]
    BY <1>8, <1>9 DEF IsReplica
  <2> QED
    BY <1>1, <1>3, <2>1 DEF Finish, received
<1>12. ReplicaOk(e, made[c])
  BY <1>5, <1>6, <1>7, <1>8, <1>10 DEF ReplicaOk, IsReplica
<1>13. Submitted(e) = {} /\ DOMAIN op.muts \subseteq Submitted(d)
  BY <1>4, <1>10 DEF Submitted
<1>14. ObjectOk(object[c], e)
  BY <1>5, <1>6, <1>8, <1>10, <1>13 DEF ObjectOk, AwaitedOk
<1>15. CycleOk(c, Disclosing(result.entities), e, object[c])
  BY <1>4, <1>5, <1>13 DEF CycleOk, Disclosing, ObjectOk, AwaitedOk
<1>16. /\ call' = [call EXCEPT ![c] = Disclosing(result.entities)]
       /\ object' = [object EXCEPT ![c] = object[c]] /\ feed' = [feed EXCEPT ![c] = feed[c]]
       /\ made' = [made EXCEPT ![c] = made[c]] /\ UNCHANGED serverVars
  BY <1>2, ClientForms DEF SettleObject, serverSide, Moves
<1>17. made[c] >= made[c] /\ \A x \in e.outbox : x \in db[c].outbox
  BY <1>5, <1>10
<1> QED
  BY <1>5, <1>11, <1>12, <1>14, <1>15, <1>16, <1>17, ClientSteps

LEMMA WithoutStateKeeps ==
  ASSUME ObjectInv, NEW c \in Clients, FinishWithoutState(c)
  PROVE  ObjectInv'
<1>1. PICK d : d = db[c]
  OBVIOUS
<1>2. PICK o : o = object[c]
  OBVIOUS
<1> DEFINE accepted == call[c].result.kind = "accepted"
           waits(op, i) == [base |-> op.muts[i].base, row |-> SentRow(d, i, op.muts[i])]
           access(op) == [i \in Ids |-> IF i \in DOMAIN op.muts THEN Access({}, "review") ELSE o.access[i]]
           intent(op) == [i \in Ids |-> IF i \in DOMAIN op.muts /\ accepted THEN waits(op, i)
                                        ELSE o.intent[i]]
<1>3. /\ ReplicaOk(d, made[c]) /\ ObjectOk(o, d) /\ IsReplica(d) /\ IsObject(o) /\ made[c] \in Nat
      /\ FeedOk(feed[c])
      /\ db = [k \in Clients |-> db[k]] /\ object = [k \in Clients |-> object[k]]
  BY <1>1, <1>2, ClientForms DEF ReplicaOk, ObjectOk, ObjectInv, PerClient
<1>4. PICK op \in Operation(c) :
        /\ accepted => ~ShadowMoved(d, op)
        /\ db' = [db EXCEPT ![c] = Settled(c, op)]
        /\ object' = [object EXCEPT ![c] = [o EXCEPT !.intent = intent(op), !.access = access(op)]]
  BY <1>1, <1>2 DEF FinishWithoutState
<1>5. op \in d.outbox /\ \A a \in d.outbox : a = op
  BY <1>1, <1>4, AnswerForms DEF FinishWithoutState
<1>6. PICK e : e = Settled(c, op)
  OBVIOUS
<1>7. /\ e = [local |-> e.local, shadow |-> e.shadow, dirty |-> e.dirty, deleting |-> e.deleting,
              conflict |-> e.conflict, outbox |-> e.outbox, cursor |-> e.cursor, reset |-> e.reset]
      /\ e.outbox = {} /\ e.shadow = d.shadow
      /\ e.cursor = [d.cursor EXCEPT !["scope"] = IF @ = None THEN None ELSE 0]
  BY <1>1, <1>3, <1>5, <1>6 DEF Settled, IsReplica
<1>8. ReplicaOk(e, made[c])
  <2>1. e.cursor = [f \in Feeds |-> e.cursor[f]] /\ e.cursor["scope"] \in Nat \cup {None}
    <3>1. PICK v : v = IF d.cursor["scope"] = None THEN None ELSE 0
      OBVIOUS
    <3>2. e.cursor = [d.cursor EXCEPT !["scope"] = v] /\ v \in Nat \cup {None}
      BY <1>7, <3>1
    <3> QED
      BY <1>3, <3>2, Keyless DEF IsReplica
  <2> QED
    BY <1>3, <1>7, <2>1 DEF ReplicaOk, IsReplica
<1>9. PICK p : p = [o EXCEPT !.intent = intent(op), !.access = access(op)]
  OBVIOUS
<1>10. /\ p = [access |-> p.access, create |-> p.create, deferred |-> p.deferred, intent |-> p.intent]
       /\ p.access = access(op) /\ p.intent = intent(op) /\ p.deferred = o.deferred
  BY <1>3, <1>9 DEF IsObject
<1>11. ASSUME NEW i \in Ids
       PROVE  /\ p.access[i] = IF i \in DOMAIN op.muts THEN Access({}, "review") ELSE o.access[i]
              /\ p.intent[i] = IF i \in DOMAIN op.muts /\ accepted THEN waits(op, i) ELSE o.intent[i]
  BY <1>10
<1>12. p.access = [i \in Ids |-> p.access[i]] /\ p.intent = [i \in Ids |-> p.intent[i]]
  BY <1>10
<1> HIDE DEF access, intent
<1>13. IsObject(p)
  <2>1. Access({}, "review") = Access(Access({}, "review").rights, Access({}, "review").status)
    BY DEF Access
  <2> QED
    BY <1>3, <1>10, <1>11, <1>12, <2>1 DEF IsObject
<1>14. Submitted(e) = {} /\ DOMAIN op.muts \subseteq Submitted(d)
  BY <1>5, <1>7 DEF Submitted
<1>15. \A i \in Ids : p.intent[i] # None => AwaitedOk(p, e, i)
  <2> SUFFICES ASSUME NEW i \in Ids, p.intent[i] # None
               PROVE  AwaitedOk(p, e, i)
    OBVIOUS
  <2>1. CASE i \in DOMAIN op.muts
    <3>1. o.intent[i] = None
      BY <1>3, <1>14, <2>1 DEF ObjectOk, AwaitedOk
    <3>2. accepted /\ p.intent[i] = waits(op, i) /\ p.access[i] = Access({}, "review")
      BY <1>11, <2>1, <3>1
    <3>3. d.shadow[i].rev = op.muts[i].base
      BY <1>4, <2>1, <3>2 DEF ShadowMoved
    <3>4. p.intent[i].base = op.muts[i].base
      BY <3>2
    <3> QED
      BY <1>7, <1>14, <3>2, <3>3, <3>4 DEF AwaitedOk, Hidden
  <2>2. CASE i \notin DOMAIN op.muts
    BY <1>3, <1>7, <1>11, <1>14, <2>2 DEF ObjectOk, AwaitedOk
  <2> QED
    BY <2>1, <2>2
<1>16. ObjectOk(p, e)
  BY <1>3, <1>10, <1>13, <1>15 DEF ObjectOk
<1>17. /\ db' = [db EXCEPT ![c] = e] /\ object' = [object EXCEPT ![c] = p]
       /\ call' = [call EXCEPT ![c] = Ending] /\ feed' = [feed EXCEPT ![c] = feed[c]]
       /\ made' = [made EXCEPT ![c] = made[c]] /\ UNCHANGED serverVars
  BY <1>4, <1>6, <1>9, ClientForms DEF FinishWithoutState, serverSide, Moves
<1>18. made[c] >= made[c] /\ (\A x \in e.outbox : x \in db[c].outbox) /\ CycleOk(c, Ending, e, p)
  BY <1>3, <1>7, Places
<1> QED
  BY <1>3, <1>8, <1>16, <1>17, <1>18, ClientSteps

(* What an object with delivered states has to satisfy: an accepted change *)
(* waits on its revision, and its state is among those to merge unless the *)
(* object is hidden.                                                       *)
Receivable(o, d) ==
  /\ IsObject(o)
  /\ \A i \in Ids :
       /\ o.deferred[i] # None => Committed(i, o.deferred[i].rev)
       /\ o.intent[i] # None =>
            /\ o.intent[i].base = d.shadow[i].rev /\ i \notin Submitted(d)
            /\ o.access[i] \in Hidden \/ (i \in Drained(d, o) /\ Current(d, o, i))

LEMMA Drains ==
  ASSUME NEW d, NEW n, ReplicaOk(d, n), NEW o, Receivable(o, d)
  PROVE  /\ ReplicaOk(DrainedDatabase(d, o), n)
         /\ DrainedDatabase(d, o).outbox = d.outbox
         /\ ObjectOk(DrainedObject(d, o), DrainedDatabase(d, o))
<1> DEFINE taken == {k \in Drained(d, o) : Current(d, o, k)}
           received == [i \in taken |-> Reconciled(d, i, BaseFor(d, o, i), o.deferred[i])]
<1>1. IsReplica(d) /\ IsObject(o)
  BY DEF ReplicaOk, Receivable
<1>2. PICK t : /\ t = ApplyUpdates(d, received)
               /\ IsReplica(t) /\ t.outbox = d.outbox /\ t.cursor = d.cursor
               /\ \A i \in Ids : t.shadow[i] = IF i \in DOMAIN received THEN received[i].remote
                                               ELSE d.shadow[i]
  <2> HIDE DEF received
  <2> QED
    BY <1>1, UpdatesStore
<1>3. t = DrainedDatabase(d, o)
  BY <1>2 DEF DrainedDatabase
<1>4. ASSUME NEW i \in Ids
      PROVE  t.shadow[i] = IF i \in taken THEN o.deferred[i] ELSE d.shadow[i]
  <2>1. i \in taken => received[i].remote = o.deferred[i]
    BY DEF Reconciled
  <2>2. DOMAIN received = taken
    OBVIOUS
  <2> HIDE DEF received, taken
  <2> QED
    BY <1>2, <2>1, <2>2
<1>5. taken \subseteq {i \in Ids : o.deferred[i] # None}
  BY DEF Drained
<1>6. ReplicaOk(t, n)
  <2>1. \A i \in Ids : Committed(i, t.shadow[i].rev)
    <3> HIDE DEF taken
    <3> QED
      BY <1>4, <1>5 DEF ReplicaOk, Receivable
  <2> QED
    BY <1>2, <2>1 DEF ReplicaOk
<1>7. PICK p : p = DrainedObject(d, o)
  OBVIOUS
<1> DEFINE reviewed(i) == /\ i \in Drained(d, o) /\ "read" \in o.access[i].rights
                          /\ o.access[i].status = "review" /\ ~HasDraft(t, i)
<1>8. /\ p = [access |-> p.access, create |-> p.create, deferred |-> p.deferred, intent |-> p.intent]
      /\ p.deferred = [i \in Ids |-> IF i \in Drained(d, o) THEN None ELSE o.deferred[i]]
      /\ p.intent = [i \in Ids |-> IF i \in Drained(d, o) /\ Current(d, o, i) THEN None ELSE o.intent[i]]
      /\ p.access = [i \in Ids |-> IF o.access[i] # None /\ reviewed(i)
                                   THEN [o.access[i] EXCEPT !.status = "active"] ELSE o.access[i]]
  BY <1>1, <1>3, <1>7 DEF DrainedObject, IsObject
<1>9. ASSUME NEW i \in Ids
      PROVE  /\ p.deferred[i] # None => p.deferred[i] = o.deferred[i]
             /\ p.intent[i] # None => p.intent[i] = o.intent[i] /\ i \notin taken
             /\ p.access[i] = IF o.access[i] # None /\ reviewed(i)
                              THEN Access(o.access[i].rights, "active") ELSE o.access[i]
  <2>1. p.access[i] = IF o.access[i] # None /\ reviewed(i)
                      THEN [o.access[i] EXCEPT !.status = "active"] ELSE o.access[i]
    <3> HIDE DEF reviewed
    <3> QED
      BY <1>8
  <2>2. o.access[i] # None => [o.access[i] EXCEPT !.status = "active"] = Access(o.access[i].rights, "active")
    <3>1. PICK a : a = o.access[i]
      OBVIOUS
    <3>2. a # None => a = Access(a.rights, a.status)
      BY <1>1, <3>1 DEF IsObject
    <3>3. a # None => [a EXCEPT !.status = "active"] = Access(a.rights, "active")
      BY <3>2 DEF Access
    <3> QED
      BY <3>1, <3>3
  <2>3. /\ p.deferred[i] # None => p.deferred[i] = o.deferred[i]
        /\ p.intent[i] # None => p.intent[i] = o.intent[i] /\ i \notin taken
    BY <1>8
  <2> HIDE DEF reviewed
  <2> QED
    BY <2>1, <2>2, <2>3
<1>10. IsObject(p)
  <2>1. \A R, s : Access(R, s) = Access(Access(R, s).rights, Access(R, s).status)
    BY DEF Access
  <2>2. /\ p.access = [i \in Ids |-> p.access[i]] /\ p.deferred = [i \in Ids |-> p.deferred[i]]
        /\ p.intent = [i \in Ids |-> p.intent[i]]
    BY <1>8
  <2> HIDE DEF reviewed, taken
  <2> QED
    BY <1>1, <1>8, <1>9, <2>1, <2>2 DEF IsObject
<1>11. ASSUME NEW i \in Ids, p.intent[i] # None
       PROVE  AwaitedOk(p, t, i)
  <2>1. p.intent[i] = o.intent[i] /\ i \notin taken
    BY <1>9, <1>11
  <2>2. o.access[i] \in Hidden
    BY <1>11, <2>1 DEF Receivable
  <2>3. p.access[i] = o.access[i]
    BY <1>9, <2>2, HiddenForms
  <2>4. i \notin Submitted(t) /\ o.intent[i].base = d.shadow[i].rev
    BY <1>2, <1>11, <2>1 DEF Receivable, Submitted
  <2> QED
    BY <1>4, <2>1, <2>2, <2>3, <2>4 DEF AwaitedOk
<1>12. ObjectOk(p, t)
  <2>1. \A i \in Ids : p.deferred[i] # None => Committed(i, p.deferred[i].rev)
    BY <1>9 DEF Receivable
  <2> QED
    BY <1>10, <1>11, <2>1 DEF ObjectOk
<1> QED
  BY <1>2, <1>3, <1>6, <1>7, <1>12

LEMMA DrainStep ==
  ASSUME ObjectInv, NEW c \in Clients, Drain(c), NEW e, Moves(c, e), \A d, o : CycleOk(c, e, d, o),
         UNCHANGED <<feed, made, serverVars>>
  PROVE  ObjectInv'
<1>1. /\ ReplicaOk(db[c], made[c]) /\ ObjectOk(object[c], db[c]) /\ FeedOk(feed[c]) /\ made[c] \in Nat
      /\ feed' = [feed EXCEPT ![c] = feed[c]] /\ made' = [made EXCEPT ![c] = made[c]]
  BY ClientForms
<1>2. Receivable(object[c], db[c])
  BY <1>1 DEF Receivable, ObjectOk, AwaitedOk
<1>3. PICK d : d = DrainedDatabase(db[c], object[c])
  OBVIOUS
<1>4. PICK o : o = DrainedObject(db[c], object[c])
  OBVIOUS
<1>5. ReplicaOk(d, made[c]) /\ ObjectOk(o, d) /\ d.outbox = db[c].outbox
  BY <1>1, <1>2, <1>3, <1>4, Drains
<1>6. db' = [db EXCEPT ![c] = d] /\ object' = [object EXCEPT ![c] = o]
  BY <1>3, <1>4 DEF Drain
<1>7. made[c] >= made[c] /\ (\A x \in d.outbox : x \in db[c].outbox) /\ CycleOk(c, e, d, o)
  BY <1>1, <1>5
<1> QED
  BY <1>1, <1>5, <1>6, <1>7, ClientSteps DEF Moves

LEMMA RecoverKeeps ==
  ASSUME ObjectInv, NEW c \in Clients, Recover(c)
  PROVE  ObjectInv'
BY Places, DrainStep DEF Recover, serverSide

LEMMA EndKeeps ==
  ASSUME ObjectInv, NEW c \in Clients, EndFlush(c)
  PROVE  ObjectInv'
BY Places, DrainStep DEF EndFlush, serverSide

(* The events of a feed that was brought up to date are objects. *)
LEMMA FeedReconciled ==
  ASSUME ObjectInv, NEW c \in Clients
  PROVE  FeedOk(ReconciledFeed(c))
<1>1. Fresh(c) \in SUBSET Ids /\ IsFiniteSet(Fresh(c))
  BY Keyless, FS_Subset DEF Fresh
<1>2. Cardinality(Fresh(c)) \in Nat /\ ExistsBijection(1..Cardinality(Fresh(c)), Fresh(c))
  BY <1>1, FS_CardinalityType
<1>3. \E f \in [1..Cardinality(Fresh(c)) -> Fresh(c)] : IsInjective(f)
  BY <1>2 DEF ExistsBijection, Bijection, Injection
<1>4. SetToSeq(Fresh(c)) \in [1..Cardinality(Fresh(c)) -> Fresh(c)]
  BY <1>3 DEF SetToSeq
<1>5. SetToSeq(Fresh(c)) \in Seq(Ids)
  <2>1. PICK n \in Nat : n = Cardinality(Fresh(c))
    BY <1>2
  <2>2. PICK s : s = SetToSeq(Fresh(c))
    OBVIOUS
  <2>3. s \in [1..n -> Ids]
    BY <1>1, <1>4, <2>1, <2>2
  <2> QED
    BY <2>2, <2>3
<1>6. feed[c].events \in Seq(Ids)
  BY ClientForms DEF FeedOk
<1>7. feed[c].events \o SetToSeq(Fresh(c)) \in Seq(Ids)
  BY <1>5, <1>6
<1> QED
  BY <1>7 DEF FeedOk, ReconciledFeed

(* What an event tells is true of the row and the rights it is read with. *)
LEMMA EventOk ==
  ASSUME RowsKept, NEW c, NEW d, NEW i \in Ids, Committed(i, d.shadow[i].rev)
  PROVE  /\ Event(c, i).id = i
         /\ TellsState(Event(c, i), d) \/ TakesAway(Event(c, i))
<1>1. PICK x : x = Event(c, i)
  OBVIOUS
<1>2. PICK v : v = Visibility(c, i)
  OBVIOUS
<1>3. /\ x.id = i /\ x.status = v.status /\ x.rights = v.rights
      /\ x.entity = IF v.status = "active" THEN row[i] ELSE None
  BY <1>1, <1>2 DEF Event
<1>4. v.status = Status(c, i) /\ v.rights = IF Status(c, i) = "active" THEN rights[c][i] ELSE {}
  BY <1>2 DEF Visibility
<1>5. CASE Status(c, i) = "active"
  <2>1. "read" \in rights[c][i] /\ row[i].data # None
    <3>1. Readable(c, i) /\ Live(row[i])
      <4> HIDE DEF Readable, Live
      <4> QED
        BY <1>5 DEF Status
    <3> QED
      BY <3>1 DEF Readable, Live
  <2>2. row[i] \in Record
    <3>1. PICK r : r = row[i]
      OBVIOUS
    <3>2. r = [rev |-> r.rev, data |-> r.data] /\ r.rev \in Nat /\ r.data \in Data
      BY <2>1, <3>1, RevisionForms
    <3> QED
      BY <3>1, <3>2 DEF Record
  <2>3. row[i] # None
    BY <2>2, DataAssumption
  <2>4. row[i].rev \in Nat
    BY RevisionForms
  <2>5. TellsState(x, d)
    BY <1>3, <1>4, <1>5, <2>1, <2>3, <2>4 DEF TellsState, Committed
  <2> QED
    BY <1>1, <1>3, <2>5
<1>6. CASE Status(c, i) # "active"
  <2>1. TakesAway(x)
    BY <1>3, <1>4, <1>6 DEF TakesAway, Status
  <2> QED
    BY <1>1, <1>3, <2>1
<1> QED
  BY <1>5, <1>6

LEMMA PageRead ==
  ASSUME RowsKept, NEW c, NEW d, \A i \in Ids : Committed(i, d.shadow[i].rev),
         NEW events \in Seq(Ids), NEW after \in Nat
  PROVE  EventsOk(EventsPage(c, events, after), d)
<1>1. PICK end : end = IF Len(events) <= after + PageSize THEN Len(events) ELSE after + PageSize
  OBVIOUS
<1>2. PICK page : page = EventsPage(c, events, after)
  OBVIOUS
<1>3. /\ page.next = end
      /\ page.events = [n \in 1..(end - after) |-> Event(c, events[after + n])]
  BY <1>1, <1>2 DEF EventsPage
<1>4. end \in Nat /\ end <= Len(events)
  BY <1>1, SystemAssumption
<1>5. ASSUME NEW n \in 1..(end - after)
      PROVE  events[after + n] \in Ids
  BY <1>4
<1>6. ASSUME NEW n \in DOMAIN page.events
      PROVE  /\ page.events[n].id \in Ids
             /\ TellsState(page.events[n], d) \/ TakesAway(page.events[n])
  <2>1. n \in 1..(end - after) /\ page.events[n] = Event(c, events[after + n])
    BY <1>3
  <2> QED
    BY <1>5, <2>1, EventOk
<1>7. \E L \in Nat : DOMAIN page.events = 1..L
  <2>1. PICK L : L = IF end >= after THEN end - after ELSE 0
    OBVIOUS
  <2>2. L \in Nat /\ 1..(end - after) = 1..L
    BY <1>4, <2>1
  <2> QED
    BY <1>3, <2>2
<1> QED
  BY <1>2, <1>3, <1>4, <1>6, <1>7 DEF EventsOk

LEMMA FetchKeeps ==
  ASSUME ObjectInv, NEW c \in Clients, FetchPage(c)
  PROVE  ObjectInv'
<1>1. PICK after : after = IF Cursor(c) = None THEN 0 ELSE Cursor(c)
  OBVIOUS
<1>2. PICK h : h = ReconciledFeed(c)
  OBVIOUS
<1>3. PICK page : page = EventsPage(c, h.events, after)
  OBVIOUS
<1>4. /\ ReplicaOk(db[c], made[c]) /\ ObjectOk(object[c], db[c]) /\ made[c] \in Nat /\ RowsKept
      /\ db' = [db EXCEPT ![c] = db[c]] /\ object' = [object EXCEPT ![c] = object[c]]
      /\ made' = [made EXCEPT ![c] = made[c]]
  BY ClientForms DEF FetchPage, ObjectInv, ServerOk
<1>5. FeedOk(h)
  BY <1>2, FeedReconciled
<1>6. after \in Nat
  BY <1>1, <1>4 DEF ReplicaOk, IsReplica, Cursor
<1>7. EventsOk(page, db[c])
  BY <1>3, <1>4, <1>5, <1>6, PageRead DEF ReplicaOk, FeedOk
<1>8. CycleOk(c, Fetched(page, TRUE), db[c], object[c])
  BY <1>7 DEF CycleOk, Fetched
<1>9. /\ feed' = [feed EXCEPT ![c] = h] /\ call' = [call EXCEPT ![c] = Fetched(page, TRUE)]
      /\ UNCHANGED serverVars
  BY <1>1, <1>2, <1>3 DEF FetchPage, serverSide, Moves
<1>10. made[c] >= made[c] /\ \A x \in db[c].outbox : x \in db[c].outbox
  BY <1>4
<1> QED
  BY <1>4, <1>5, <1>8, <1>9, <1>10, ClientSteps

-----------------------------------------------------------------------------
(* A page of the feed.                                                     *)

(* The object after each of the L events. *)
IsTelling(told, d, o, events, L) ==
  /\ told[0] = o
  /\ \A n \in 0..L - 1 : told[n + 1] = Told(d, told[n], events[n + 1])
  /\ told[L] = TellAll(d, o, events)

LEMMA FoldEvents ==
  ASSUME NEW d, NEW o, NEW events, NEW L \in Nat, DOMAIN events = 1..L
  PROVE  \E told : IsTelling(told, d, o, events, L)
<1> DEFINE Fold(D, h) == h = [s \in SUBSET D |-> IF s = {} THEN o
                                ELSE Told(d, h[s \ {Max(s)}], events[Max(s)])]
           S == {m \in Nat : \E h : Fold(1..m, h)}
<1>1. ASSUME NEW m \in Nat, NEW s \in SUBSET (1..m), m \in s
      PROVE  Max(s) = m /\ s \ {m} \in SUBSET (1..m - 1)
  <2>1. m \in s /\ \A y \in s : m >= y
    BY <1>1
  <2>2. ASSUME NEW x \in s, \A y \in s : x >= y
        PROVE  x = m
    <3>1. x >= m /\ m >= x /\ x \in Nat
      BY <2>1, <2>2
    <3> QED
      BY <3>1
  <2>3. Max(s) = m
    BY <2>1, <2>2 DEF Max
  <2> QED
    BY <1>1, <2>3
<1>2. 0 \in S
  <2> DEFINE h == [s \in SUBSET (1..0) |-> o]
  <2>1. \A s \in SUBSET (1..0) : s = {}
    OBVIOUS
  <2>2. Fold(1..0, h)
    BY <2>1
  <2> QED
    BY <2>2
<1>3. ASSUME NEW m \in Nat, m \in S
      PROVE  m + 1 \in S
  <2>1. PICK h : Fold(1..m, h)
    BY <1>3
  <2> DEFINE k == [s \in SUBSET (1..m + 1) |->
                     IF s \in SUBSET (1..m) THEN h[s]
                     ELSE Told(d, h[s \ {m + 1}], events[m + 1])]
  <2>2. ASSUME NEW s \in SUBSET (1..m + 1)
        PROVE  k[s] = IF s = {} THEN o ELSE Told(d, k[s \ {Max(s)}], events[Max(s)])
    <3>1. CASE s \in SUBSET (1..m) /\ s = {}
      BY <2>1, <3>1
    <3>2. CASE s \in SUBSET (1..m) /\ s # {}
      <4>1. s \ {Max(s)} \in SUBSET (1..m) /\ s \ {Max(s)} \in SUBSET (1..m + 1)
        BY <3>2
      <4>2. k[s \ {Max(s)}] = h[s \ {Max(s)}] /\ k[s] = h[s]
        BY <3>2, <4>1
      <4> HIDE DEF k
      <4> QED
        BY <2>1, <3>2, <4>2
    <3>3. CASE s \notin SUBSET (1..m)
      <4>1. m + 1 \in s
        BY <3>3
      <4>2. Max(s) = m + 1 /\ s \ {m + 1} \in SUBSET (1..m)
        BY <1>1, <4>1
      <4>3. k[s] = Told(d, h[s \ {m + 1}], events[m + 1])
        BY <3>3
      <4>4. k[s \ {m + 1}] = h[s \ {m + 1}]
        BY <4>2
      <4> HIDE DEF k
      <4> QED
        BY <4>1, <4>2, <4>3, <4>4
    <3> QED
      BY <3>1, <3>2, <3>3
  <2>3. Fold(1..m + 1, k)
    <3>1. k = [s \in SUBSET (1..m + 1) |-> k[s]]
      OBVIOUS
    <3> HIDE DEF k
    <3> QED
      BY <2>2, <3>1
  <2> HIDE DEF Fold, k
  <2>4. \E f : Fold(1..m + 1, f)
    BY <2>3
  <2> QED
    BY <2>4
<1>4. \E h : Fold(1..L, h)
  <2>1. L \in S
    <3> HIDE DEF S
    <3> QED
      BY <1>2, <1>3, Induction
  <2> QED
    BY <2>1
<1> DEFINE iter == CHOOSE h : Fold(1..L, h)
           told == [n \in 0..L |-> iter[1..n]]
<1>5. TellAll(d, o, events) = iter[1..L]
  BY DEF TellAll, FoldLeft, MapThenFoldSet
<1>6. iter = [s \in SUBSET (1..L) |-> IF s = {} THEN o
                ELSE Told(d, iter[s \ {Max(s)}], events[Max(s)])]
  <2>1. Fold(1..L, iter)
    <3> HIDE DEF Fold
    <3> QED
      BY <1>4
  <2> QED
    BY <2>1
<1> HIDE DEF iter
<1>7. told[0] = o
  <2>1. 1..0 = {} /\ 1..0 \in SUBSET (1..L)
    OBVIOUS
  <2>2. iter[1..0] = o
    BY <1>6, <2>1
  <2> QED
    BY <2>2
<1>8. ASSUME NEW n \in 0..L - 1
      PROVE  told[n + 1] = Told(d, told[n], events[n + 1])
  <2>1. /\ 1..n + 1 \in SUBSET (1..L) /\ n + 1 \in 1..n + 1
        /\ (1..n + 1) \ {n + 1} = 1..n
    OBVIOUS
  <2>2. Max(1..n + 1) = n + 1
    BY <1>1, n + 1 \in Nat
  <2>3. iter[1..n + 1] = Told(d, iter[1..n], events[n + 1])
    BY <1>6, <2>1, <2>2
  <2>4. n \in 0..L /\ n + 1 \in 0..L
    OBVIOUS
  <2> QED
    BY <2>3, <2>4
<1>9. TellAll(d, o, events) = told[L]
  BY <1>5
<1> HIDE DEF told
<1>10. IsTelling(told, d, o, events, L)
  BY <1>7, <1>8, <1>9 DEF IsTelling
<1> QED
  BY <1>10

(* An event tells of one object, and what is accepted still waits. *)
(* The status that is kept. *)
ToldStatus(d, o, e) ==
  IF /\ e.status = "active" /\ HasDraft(d, e.id)
     /\ o.access[e.id] # None /\ o.access[e.id].status # "active"
  THEN "review" ELSE e.status

LEMMA Tells ==
  ASSUME NEW d, NEW o, IsObject(o), NEW e, e.id \in Ids, NEW p, p = Told(d, o, e)
  PROVE  /\ IsObject(p) /\ p.intent = o.intent
         /\ \A k \in Ids :
              /\ p.deferred[k] = IF k = e.id THEN e.entity ELSE o.deferred[k]
              /\ p.access[k] = IF k = e.id THEN Access(e.rights, ToldStatus(d, o, e)) ELSE o.access[k]
<1>1. PICK s : s = ToldStatus(d, o, e)
  OBVIOUS
<1>2. p = [o EXCEPT !.access[e.id] = Access(e.rights, s), !.deferred[e.id] = e.entity]
  BY <1>1 DEF Told, ToldStatus
<1>3. /\ p = [access |-> p.access, create |-> p.create, deferred |-> p.deferred, intent |-> p.intent]
      /\ p.access = [o.access EXCEPT ![e.id] = Access(e.rights, s)]
      /\ p.deferred = [o.deferred EXCEPT ![e.id] = e.entity]
      /\ p.intent = o.intent
  BY <1>2 DEF IsObject
<1>4. \A k \in Ids : /\ p.access[k] = IF k = e.id THEN Access(e.rights, s) ELSE o.access[k]
                     /\ p.deferred[k] = IF k = e.id THEN e.entity ELSE o.deferred[k]
  BY <1>3 DEF IsObject
<1>5. IsObject(p)
  <2>1. \A R, t : Access(R, t) = Access(Access(R, t).rights, Access(R, t).status)
    BY DEF Access
  <2> QED
    BY <1>3, <1>4, <2>1 DEF IsObject
<1> QED
  BY <1>1, <1>3, <1>4, <1>5

LEMMA ToldReceivable ==
  ASSUME NEW d, NEW o, Receivable(o, d), NEW e, e.id \in Ids, Committed(e.id, d.shadow[e.id].rev),
         TellsState(e, d) \/ TakesAway(e)
  PROVE  Receivable(Told(d, o, e), d)
<1>1. PICK p : p = Told(d, o, e)
  OBVIOUS
<1>2. IsObject(o)
  BY DEF Receivable
<1>3. PICK s :
        /\ s = e.status \/ (s = "review" /\ e.status = "active")
        /\ \A k \in Ids : p.access[k] = IF k = e.id THEN Access(e.rights, s) ELSE o.access[k]
  <2>1. PICK s : s = ToldStatus(d, o, e)
    OBVIOUS
  <2>2. \A k \in Ids : p.access[k] = IF k = e.id THEN Access(e.rights, s) ELSE o.access[k]
    BY <1>1, <1>2, <2>1, Tells
  <2>3. s = e.status \/ (s = "review" /\ e.status = "active")
    BY <2>1 DEF ToldStatus
  <2> QED
    BY <2>2, <2>3
<1>4. /\ IsObject(p) /\ p.intent = o.intent
      /\ \A k \in Ids : p.deferred[k] = IF k = e.id THEN e.entity ELSE o.deferred[k]
  BY <1>1, <1>2, Tells
<1>5. \A k \in Ids : p.deferred[k] # None => Committed(k, p.deferred[k].rev)
  BY <1>4 DEF Receivable, TellsState, TakesAway
<1>6. ASSUME NEW k \in Ids, k # e.id, p.intent[k] # None
      PROVE  p.access[k] \in Hidden \/ (k \in Drained(d, p) /\ Current(d, p, k))
  BY <1>3, <1>4, <1>6 DEF Receivable, Drained, Current
<1>7. ASSUME p.intent[e.id] # None
      PROVE  p.access[e.id] \in Hidden \/ (e.id \in Drained(d, p) /\ Current(d, p, e.id))
  <2>1. CASE TakesAway(e)
    <3>1. s = e.status
      BY <1>3, <2>1 DEF TakesAway
    <3>2. p.access[e.id] = Access({}, e.status)
      BY <1>3, <2>1, <3>1 DEF TakesAway
    <3> QED
      BY <2>1, <3>2 DEF TakesAway, Hidden
  <2>2. CASE TellsState(e, d)
    <3>1. p.deferred[e.id] = e.entity /\ e.entity # None
      BY <1>4, <2>2 DEF TellsState
    <3>2. e.id \in Drained(d, p)
      BY <1>4, <1>7, <3>1 DEF Drained, Receivable
    <3>3. p.access[e.id].rights = e.rights /\ "read" \in e.rights
      BY <1>3, <2>2 DEF TellsState, Access
    <3>4. e.entity.rev > d.shadow[e.id].rev \/ e.entity.rev = d.shadow[e.id].rev
      BY <2>2 DEF TellsState, Committed
    <3>5. Current(d, p, e.id)
      BY <1>7, <3>1, <3>3, <3>4 DEF Current
    <3> QED
      BY <3>2, <3>5
  <2> QED
    BY <2>1, <2>2
<1>8. \A k \in Ids : p.intent[k] # None => p.intent[k].base = d.shadow[k].rev /\ k \notin Submitted(d)
  BY <1>4 DEF Receivable
<1> QED
  BY <1>1, <1>4, <1>5, <1>6, <1>7, <1>8 DEF Receivable

LEMMA PageReceivable ==
  ASSUME NEW d, NEW n, ReplicaOk(d, n), NEW o, Receivable(o, d), NEW page, EventsOk(page, d)
  PROVE  Receivable(TellAll(d, o, page.events), d)
<1>1. PICK L \in Nat : DOMAIN page.events = 1..L
  BY DEF EventsOk
<1>2. PICK told : IsTelling(told, d, o, page.events, L)
  BY <1>1, FoldEvents
<1> DEFINE S == {m \in Nat : m <= L => Receivable(told[m], d)}
<1>3. 0 \in S
  BY <1>2 DEF IsTelling
<1>4. ASSUME NEW m \in Nat, m \in S
      PROVE  m + 1 \in S
  <2> SUFFICES ASSUME m + 1 <= L
               PROVE  Receivable(told[m + 1], d)
    OBVIOUS
  <2>1. m <= L /\ m \in 0..L - 1 /\ m + 1 \in DOMAIN page.events
    BY <1>1
  <2>2. Receivable(told[m], d)
    BY <1>4, <2>1
  <2>3. PICK e : e = page.events[m + 1]
    OBVIOUS
  <2>4. e.id \in Ids /\ (TellsState(e, d) \/ TakesAway(e))
    BY <2>1, <2>3 DEF EventsOk
  <2>5. Committed(e.id, d.shadow[e.id].rev)
    BY <2>4 DEF ReplicaOk
  <2> QED
    BY <1>2, <2>1, <2>2, <2>3, <2>4, <2>5, ToldReceivable DEF IsTelling
<1>5. L \in S
  <2> HIDE DEF S
  <2> QED
    BY <1>3, <1>4, Induction
<1> QED
  BY <1>2, <1>5 DEF IsTelling

LEMMA ApplyPageKeeps ==
  ASSUME ObjectInv, NEW c \in Clients, ApplyPage(c)
  PROVE  ObjectInv'
<1>1. PICK d : d = db[c]
  OBVIOUS
<1>2. PICK page : page = call[c].page
  OBVIOUS
<1>3. PICK o : o = TellAll(d, object[c], page.events)
  OBVIOUS
<1>4. /\ ReplicaOk(d, made[c]) /\ ObjectOk(object[c], d) /\ FeedOk(feed[c]) /\ made[c] \in Nat
      /\ EventsOk(page, d)
  BY <1>1, <1>2, ClientForms DEF CycleOk, ApplyPage
<1>5. Receivable(object[c], d)
  BY <1>4 DEF Receivable, ObjectOk, AwaitedOk
<1>6. Receivable(o, d)
  BY <1>3, <1>4, <1>5, PageReceivable
<1>7. PICK t : t = DrainedDatabase(d, o)
  OBVIOUS
<1>8. PICK q : q = DrainedObject(d, o)
  OBVIOUS
<1>9. ReplicaOk(t, made[c]) /\ t.outbox = d.outbox /\ ObjectOk(q, t)
  BY <1>4, <1>6, <1>7, <1>8, Drains
<1>10. PICK e : e = [t EXCEPT !.cursor["scope"] = page.next]
  OBVIOUS
<1>11. /\ e = [local |-> e.local, shadow |-> e.shadow, dirty |-> e.dirty, deleting |-> e.deleting,
               conflict |-> e.conflict, outbox |-> e.outbox, cursor |-> e.cursor, reset |-> e.reset]
       /\ e.outbox = t.outbox /\ e.shadow = t.shadow
       /\ e.cursor = [t.cursor EXCEPT !["scope"] = page.next]
  BY <1>9, <1>10 DEF ReplicaOk, IsReplica
<1>12. ReplicaOk(e, made[c])
  <2>1. page.next \in Nat
    BY <1>4 DEF EventsOk
  <2>2. e.cursor = [f \in Feeds |-> e.cursor[f]] /\ e.cursor["scope"] \in Nat \cup {None}
    BY <1>9, <1>11, <2>1, Keyless DEF ReplicaOk, IsReplica
  <2> QED
    BY <1>9, <1>11, <2>2 DEF ReplicaOk, IsReplica
<1>13. PICK p : p = [q EXCEPT !.create = call[c].create]
  OBVIOUS
<1>14. /\ p = [access |-> p.access, create |-> p.create, deferred |-> p.deferred, intent |-> p.intent]
       /\ p.access = q.access /\ p.deferred = q.deferred /\ p.intent = q.intent
  BY <1>9, <1>13 DEF ObjectOk, IsObject
<1>15. ObjectOk(p, e)
  BY <1>9, <1>11, <1>14 DEF ObjectOk, IsObject, AwaitedOk, Submitted
<1>16. db' = [db EXCEPT ![c] = e] /\ object' = [object EXCEPT ![c] = p]
  BY <1>1, <1>2, <1>3, <1>7, <1>8, <1>10, <1>13 DEF ApplyPage
<1>17. /\ call' = [call EXCEPT ![c] = Resting] /\ feed' = [feed EXCEPT ![c] = feed[c]]
       /\ made' = [made EXCEPT ![c] = made[c]] /\ UNCHANGED serverVars
  BY ClientForms DEF ApplyPage, serverSide, Moves
<1>18. made[c] >= made[c] /\ (\A x \in e.outbox : x \in db[c].outbox) /\ CycleOk(c, Resting, e, p)
  BY <1>1, <1>4, <1>9, <1>11, Places
<1> QED
  BY <1>4, <1>12, <1>15, <1>16, <1>17, <1>18, ClientSteps

-----------------------------------------------------------------------------
(* Delivered states fit.                                                   *)

LEMMA InitialDatabases ==
  ASSUME row = [i \in Ids |-> IF i \in DOMAIN Seed THEN SeedGroup[i] ELSE Absent],
         NEW d \in {EmptyDatabase} \cup UpgradedDatabases
  PROVE  ReplicaOk(d, 0) /\ d.outbox = {}
<1>1. \A i \in Ids : IF i \in DOMAIN Seed THEN row[i] = SeedGroup[i] /\ SeedGroup[i].rev = 1
                     ELSE row[i] = Absent /\ row[i].rev = 0
  BY DEF SeedGroup, Absent
<1>2. \A i \in Ids : row[i].rev \in Nat
  BY <1>1
<1>3. PICK x : x = EmptyDatabase
  OBVIOUS
<1>4. /\ IsReplica(x) /\ x.outbox = {} /\ x.cursor["scope"] = None
      /\ \A i \in Ids : x.shadow[i] = Absent
  BY <1>3, Keyless DEF EmptyDatabase, IsReplica
<1>5. ReplicaOk(x, 0)
  BY <1>2, <1>4 DEF ReplicaOk, Committed, Absent
<1>6. PICK t : /\ t = ApplyUpdates(x, Reconcile(x, SeedGroup))
               /\ IsReplica(t) /\ t.outbox = x.outbox /\ t.cursor = x.cursor
               /\ \A i \in Ids : t.shadow[i] = IF i \in DOMAIN Reconcile(x, SeedGroup)
                                               THEN Reconcile(x, SeedGroup)[i].remote ELSE x.shadow[i]
  BY <1>4, UpdatesStore
<1>7. ASSUME NEW i \in DOMAIN Reconcile(x, SeedGroup)
      PROVE  i \in DOMAIN Seed /\ Reconcile(x, SeedGroup)[i].remote = SeedGroup[i]
  BY DEF Reconcile, Reconciled, SeedGroup
<1>8. ReplicaOk(t, 0)
  <2>1. \A i \in Ids : Committed(i, t.shadow[i].rev)
    BY <1>1, <1>2, <1>4, <1>6, <1>7 DEF Committed, Absent
  <2> QED
    BY <1>4, <1>6, <2>1 DEF ReplicaOk
<1>9. PICK y : y = Downloaded
  OBVIOUS
<1>10. y = Tidied(t)
  BY <1>3, <1>6, <1>9 DEF Downloaded, ApplyGroup
<1>11. SameStore(t, y)
  BY <1>6, <1>10, TidiedStore
<1>12. ReplicaOk(y, 0) /\ y.outbox = {}
  BY <1>4, <1>6, <1>8, <1>11, SameStoreOk DEF SameStore
<1>13. CASE d = x
  BY <1>4, <1>5, <1>13
<1>14. CASE d # x
  <2>1. CASE d = Downloaded
    BY <1>9, <1>12, <2>1
  <2>2. CASE d # Downloaded
    <3>1. PICK i \in DOMAIN Seed :
            d \in {[Downloaded EXCEPT !.local[i].data = data, !.dirty = {i}] :
                    data \in DataOf(i) \ {Seed[i]}}
      BY <1>3, <1>14, <2>2 DEF UpgradedDatabases
    <3>2. PICK data : d = [Downloaded EXCEPT !.local[i].data = data, !.dirty = {i}]
      BY <3>1
    <3>3. d = [y EXCEPT !.local[i].data = data, !.dirty = {i}]
      BY <1>9, <3>2
    <3>4. SameStore(y, d)
      BY <1>12, <3>3 DEF ReplicaOk, IsReplica, SameStore
    <3> QED
      BY <1>12, <3>4, SameStoreOk DEF SameStore
  <2> QED
    BY <2>1, <2>2
<1> QED
  BY <1>13, <1>14

LEMMA ObjectInitially == ObjectInit => ObjectInv
<1> SUFFICES ASSUME ObjectInit
             PROVE  ObjectInv
  OBVIOUS
<1>1. RowsKept
  <2>1. ASSUME NEW i \in Ids
        PROVE  (IF i \in DOMAIN Seed THEN SeedGroup[i] ELSE Absent) \in Entity
    <3>1. CASE i \in DOMAIN Seed
      <4>1. Seed[i] \in Data
        BY <3>1, SystemAssumption DEF DataOf
      <4>2. SeedGroup[i] = [rev |-> 1, data |-> Seed[i]]
        BY <3>1 DEF SeedGroup
      <4> QED
        BY <3>1, <4>1, <4>2 DEF Entity
    <3>2. CASE i \notin DOMAIN Seed
      BY <3>2 DEF Absent, Entity
    <3> QED
      BY <3>1, <3>2
  <2> QED
    BY <2>1 DEF ObjectInit, RowsKept
<1>2. ServerOk
  BY <1>1 DEF ObjectInit, ServerOk
<1>3. PerClient
  BY DEF ObjectInit, PerClient
<1>4. ASSUME NEW c \in Clients
      PROVE  ClientOk(c)
  <2>1. ReplicaOk(db[c], made[c])
    BY InitialDatabases DEF ObjectInit
  <2>2. PICK S : object[c] = NothingKnown(S)
    BY DEF ObjectInit
  <2>3. PICK o : o = NothingKnown(S)
    OBVIOUS
  <2>4. /\ o = [access |-> o.access, create |-> o.create, deferred |-> o.deferred, intent |-> o.intent]
        /\ o.access = [i \in Ids |-> o.access[i]]
        /\ o.deferred = [i \in Ids |-> None] /\ o.intent = [i \in Ids |-> None]
        /\ \A i \in Ids : o.access[i] \in {Access({}, "review"), None}
    BY <2>3 DEF NothingKnown
  <2>5. ObjectOk(o, db[c])
    <3>1. Access({}, "review") = Access(Access({}, "review").rights, Access({}, "review").status)
      BY DEF Access
    <3> QED
      BY <2>4, <3>1 DEF ObjectOk, IsObject
  <2>6. CycleOk(c, call[c], db[c], object[c])
    BY Places DEF ObjectInit
  <2>7. FeedOk(feed[c])
    <3>1. feed[c] = [seen |-> [i \in Ids |-> None], events |-> <<>>]
      BY DEF ObjectInit
    <3>2. feed[c].events = <<>> /\ <<>> \in Seq(Ids)
      BY <3>1
    <3>3. feed[c] = [seen |-> feed[c].seen, events |-> feed[c].events]
      BY <3>1
    <3> QED
      BY <3>2, <3>3 DEF FeedOk
  <2> QED
    BY <2>1, <2>2, <2>3, <2>5, <2>6, <2>7 DEF ClientOk
<1> QED
  BY <1>2, <1>3, <1>4 DEF ObjectInv

LEMMA ObjectInductive ==
  ASSUME ObjectInv, [ObjectNext]_objectVars
  PROVE  ObjectInv'
<1>1. CASE UNCHANGED objectVars
  <2>1. RowsGrown
    BY <1>1, RevisionForms DEF ObjectInv, ServerOk, RowsKept, RowsGrown, objectVars, systemVars, serverVars
  <2> QED
    BY <1>1, <2>1, ServerSteps DEF objectVars, systemVars, serverVars
<1>2. ASSUME NEW c \in Clients, EngineCycle(c)
      PROVE  ObjectInv'
  BY <1>2, RecoverKeeps, ResubmitKeeps, PrepareObjectKeeps, SkipKeeps, RespondKeeps, SettleKeeps,
     ObserveKeeps, WithoutStateKeeps, EndKeeps, FetchKeeps, ApplyPageKeeps, InterruptKeeps DEF EngineCycle
<1> QED
  BY <1>1, <1>2, GrantKeeps, WriteKeeps, ObjectEditKeeps, PushKeeps, ResumeKeeps, DiscardKeeps
  DEF ObjectNext

LEMMA ObjectAlways == ObjectSpec => []ObjectInv
BY ObjectInitially, ObjectInductive, PTL DEF ObjectSpec

(* DeliveriesFit, for any number of clients, objects, rights and edits: a  *)
(* change that was accepted without its state waits on the revision it was *)
(* made on, until that state comes (object_client.rs finish_without_state, *)
(* drain_deferred, apply_page).                                            *)
THEOREM AcceptedChangesWait == ObjectSpec => []DeliveriesFit
<1>1. ObjectInv => DeliveriesFit
  BY DEF ObjectInv, ClientOk, ObjectOk, AwaitedOk, DeliveriesFit
<1> QED
  BY <1>1, ObjectAlways, PTL

-----------------------------------------------------------------------------
(* Hidden drafts are reviewed.                                             *)

Rights == {"read", "change", "delete"}

EventTyped(e) == e.rights \in SUBSET Rights /\ e.status \in {"active", "revoked", "deleted"}

(* The rights, and those that a page tells. *)
RightsInv ==
  /\ rights \in [Clients -> [Ids -> SUBSET Rights]]
  /\ \A c \in Clients : call[c].at = "fetched" =>
       \A n \in DOMAIN call[c].page.events : EventTyped(call[c].page.events[n])

LEMMA RightsInitially == ObjectInit => RightsInv
<1>1. UNION Grants \in SUBSET Rights
  BY ObjectAssumption DEF Rights
<1> QED
  BY <1>1 DEF ObjectInit, RightsInv, Resting

(* Steps that fetch no page. *)
LEMMA RightsStay ==
  ASSUME PerClient, RightsInv, NEW c \in Clients, NEW e, Moves(c, e), e.at # "fetched",
         UNCHANGED rights
  PROVE  RightsInv'
<1>1. \A k \in Clients : call'[k] = IF k = c THEN e ELSE call[k]
  BY DEF PerClient, Moves
<1> QED
  BY <1>1 DEF RightsInv

LEMMA FetchRights ==
  ASSUME ObjectInv, RightsInv, NEW c \in Clients, FetchPage(c)
  PROVE  RightsInv'
<1>1. PICK after : after = IF Cursor(c) = None THEN 0 ELSE Cursor(c)
  OBVIOUS
<1>2. PICK events : events = ReconciledFeed(c).events
  OBVIOUS
<1>3. PICK page : page = EventsPage(c, events, after)
  OBVIOUS
<1>4. PICK end : end = IF Len(events) <= after + PageSize THEN Len(events) ELSE after + PageSize
  OBVIOUS
<1>5. page.events = [n \in 1..(end - after) |-> Event(c, events[after + n])]
  BY <1>3, <1>4 DEF EventsPage
<1>6. events \in Seq(Ids)
  BY <1>2, FeedReconciled DEF FeedOk
<1>7. after \in Nat
  BY <1>1, ClientForms DEF ReplicaOk, IsReplica, Cursor
<1>8. end \in Nat /\ end <= Len(events)
  BY <1>4, <1>6, <1>7, SystemAssumption
<1>9. ASSUME NEW n \in DOMAIN page.events
      PROVE  EventTyped(page.events[n])
  <2>1. PICK i : i = events[after + n]
    OBVIOUS
  <2>2. n \in 1..(end - after) /\ page.events[n] = Event(c, i)
    BY <1>5, <2>1
  <2>3. i \in Ids
    BY <1>6, <1>7, <1>8, <2>1, <2>2
  <2>4. Status(c, i) \in {"active", "revoked", "deleted"} /\ rights[c][i] \in SUBSET Rights
    BY <2>3 DEF Status, RightsInv
  <2>5. /\ Event(c, i).status = Status(c, i)
        /\ Event(c, i).rights \in {rights[c][i], {}}
    BY DEF Event, Visibility
  <2> QED
    BY <2>2, <2>4, <2>5 DEF EventTyped
<1>10. /\ \A k \in Clients : call'[k] = IF k = c THEN Fetched(page, TRUE) ELSE call[k]
       /\ UNCHANGED rights
  BY <1>1, <1>2, <1>3 DEF FetchPage, Moves, ObjectInv, PerClient, serverSide
<1>11. Fetched(page, TRUE).page = page
  BY DEF Fetched
<1> QED
  BY <1>9, <1>10, <1>11 DEF RightsInv

LEMMA GrantRights ==
  ASSUME RightsInv, Grant
  PROVE  RightsInv'
<1>1. PICK c \in Clients : \E i \in Ids : \E R \in Grants : rights' = [rights EXCEPT ![c][i] = R]
  BY DEF Grant
<1>2. PICK i \in Ids, R \in Grants : rights' = [rights EXCEPT ![c][i] = R]
  BY <1>1
<1>3. R \in SUBSET Rights
  BY ObjectAssumption DEF Rights
<1>4. rights' \in [Clients -> [Ids -> SUBSET Rights]]
  BY <1>2, <1>3 DEF RightsInv
<1>5. UNCHANGED call
  BY DEF Grant, systemVars
<1> QED
  BY <1>4, <1>5 DEF RightsInv

LEMMA RightsInductive ==
  ASSUME ObjectInv, RightsInv, [ObjectNext]_objectVars
  PROVE  RightsInv'
<1>1. PerClient
  BY DEF ObjectInv
<1>2. ASSUME UNCHANGED <<call, rights>>
      PROVE  RightsInv'
  BY <1>2 DEF RightsInv
<1>3. ASSUME NEW c \in Clients, EngineCycle(c)
      PROVE  RightsInv'
  <2>1. CASE FetchPage(c)
    BY <2>1, FetchRights
  <2>2. ASSUME ~FetchPage(c)
        PROVE  \E e : Moves(c, e) /\ e.at # "fetched" /\ UNCHANGED rights
    <3>1. CASE Recover(c)
      BY <3>1 DEF Recover, Choosing, serverSide
    <3>2. CASE Resubmit(c)
      BY <3>2 DEF Resubmit, Waiting, serverSide
    <3>3. CASE PrepareObject(c)
      BY <3>3 DEF PrepareObject, Waiting, serverSide
    <3>4. CASE SkipObject(c)
      BY <3>4 DEF SkipObject, Ending, serverSide
    <3>5. CASE Respond(c)
      BY <3>5 DEF Respond, Replied, serverSide
    <3>6. CASE SettleObject(c)
      BY <3>6 DEF SettleObject, Disclosing, serverSide
    <3>7. CASE ObserveDisclosures(c)
      BY <3>7 DEF ObserveDisclosures, Ending, serverSide
    <3>8. CASE FinishWithoutState(c)
      BY <3>8 DEF FinishWithoutState, Ending, serverSide
    <3>9. CASE EndFlush(c)
      BY <3>9 DEF EndFlush, Resting, serverSide
    <3>10. CASE ApplyPage(c)
      BY <3>10 DEF ApplyPage, Resting, serverSide
    <3>11. CASE Interrupt(c)
      BY <3>11 DEF Interrupt, Resting, serverSide
    <3> QED
      BY <1>3, <2>2, <3>1, <3>2, <3>3, <3>4, <3>5, <3>6, <3>7, <3>8, <3>9, <3>10, <3>11
      DEF EngineCycle
  <2> QED
    BY <1>1, <2>1, <2>2, RightsStay
<1>4. ASSUME NEW c \in Clients, ObjectEdit(c) \/ ObjectPush(c)
             \/ (\E i \in Ids : ResumeObject(c, i) \/ DiscardRetainedDraft(c, i))
      PROVE  UNCHANGED <<call, rights>>
  BY <1>4 DEF ObjectEdit, ObjectPush, ResumeObject, DiscardRetainedDraft, serverSide, systemVars
<1>5. ObjectWrite \/ UNCHANGED objectVars => UNCHANGED <<call, rights>>
  BY DEF ObjectWrite, objectVars, systemVars
<1> QED
  BY <1>2, <1>3, <1>4, <1>5, GrantRights DEF ObjectNext

(* The object is known, and not active. *)
Suspended(o, i) == o.access[i] # None /\ o.access[i].status # "active"

LEMMA ToldSuspended ==
  ASSUME NEW d, NEW o, IsObject(o), NEW i \in Ids, HasDraft(d, i), Suspended(o, i),
         NEW e, e.id \in Ids, EventTyped(e)
  PROVE  IsObject(Told(d, o, e)) /\ Suspended(Told(d, o, e), i)
<1>1. PICK p : p = Told(d, o, e)
  OBVIOUS
<1>2. IsObject(p)
  BY <1>1, Tells
<1>3. PICK s : s = ToldStatus(d, o, e)
  OBVIOUS
<1>4. \A k \in Ids : p.access[k] = IF k = e.id THEN Access(e.rights, s) ELSE o.access[k]
  BY <1>1, <1>3, Tells
<1>5. CASE i = e.id
  <2>1. s \in {"review", "revoked", "deleted"}
    BY <1>3, <1>5 DEF EventTyped, Suspended, ToldStatus
  <2>2. Access(e.rights, s) \in [rights : SUBSET {"read", "change", "delete"},
                                 status : {"active", "review", "revoked", "deleted", "discarded"}]
    BY <2>1 DEF Access, EventTyped, Rights
  <2>3. Access(e.rights, s) # None /\ Access(e.rights, s).status = s
    BY <2>2, ObjectAssumption DEF Access
  <2> QED
    BY <1>1, <1>2, <1>4, <1>5, <2>1, <2>3 DEF Suspended
<1>6. CASE i # e.id
  BY <1>1, <1>2, <1>4, <1>6 DEF Suspended
<1> QED
  BY <1>5, <1>6

LEMMA PageSuspends ==
  ASSUME NEW d, NEW o, IsObject(o), NEW i \in Ids, HasDraft(d, i), Suspended(o, i),
         NEW page, EventsOk(page, d), \A n \in DOMAIN page.events : EventTyped(page.events[n])
  PROVE  IsObject(TellAll(d, o, page.events)) /\ Suspended(TellAll(d, o, page.events), i)
<1>1. PICK L \in Nat : DOMAIN page.events = 1..L
  BY DEF EventsOk
<1>2. PICK told : IsTelling(told, d, o, page.events, L)
  BY <1>1, FoldEvents
<1> DEFINE S == {m \in Nat : m <= L => IsObject(told[m]) /\ Suspended(told[m], i)}
<1>3. 0 \in S
  BY <1>2 DEF IsTelling
<1>4. ASSUME NEW m \in Nat, m \in S
      PROVE  m + 1 \in S
  <2> SUFFICES ASSUME m + 1 <= L
               PROVE  IsObject(told[m + 1]) /\ Suspended(told[m + 1], i)
    OBVIOUS
  <2>1. m <= L /\ m \in 0..L - 1 /\ m + 1 \in DOMAIN page.events
    BY <1>1
  <2>2. IsObject(told[m]) /\ Suspended(told[m], i)
    BY <1>4, <2>1
  <2>3. PICK e : e = page.events[m + 1]
    OBVIOUS
  <2>4. e.id \in Ids /\ EventTyped(e)
    BY <2>1, <2>3 DEF EventsOk
  <2>5. told[m + 1] = Told(d, told[m], e)
    BY <1>2, <2>1, <2>3 DEF IsTelling
  <2> QED
    BY <2>2, <2>4, <2>5, ToldSuspended
<1>5. L \in S
  <2> HIDE DEF S
  <2> QED
    BY <1>3, <1>4, Induction
<1> QED
  BY <1>2, <1>5 DEF IsTelling

(* Merged states reactivate an object without a draft only. *)
LEMMA DrainedSuspended ==
  ASSUME NEW d, NEW o, IsObject(o), NEW i \in Ids, Suspended(o, i),
         HasDraft(DrainedDatabase(d, o), i)
  PROVE  Suspended(DrainedObject(d, o), i)
<1>1. PICK t : t = DrainedDatabase(d, o)
  OBVIOUS
<1> DEFINE reviewed(k) == /\ k \in Drained(d, o) /\ "read" \in o.access[k].rights
                          /\ o.access[k].status = "review" /\ ~HasDraft(t, k)
<1>2. DrainedObject(d, o).access = [k \in Ids |-> IF o.access[k] # None /\ reviewed(k)
                                      THEN [o.access[k] EXCEPT !.status = "active"] ELSE o.access[k]]
  BY <1>1 DEF DrainedObject, IsObject
<1>3. ~reviewed(i)
  BY <1>1
<1> HIDE DEF reviewed
<1>4. DrainedObject(d, o).access[i] = o.access[i]
  BY <1>2, <1>3
<1> QED
  BY <1>4 DEF Suspended

LEMMA OwnObject ==
  ASSUME PerClient, NEW k \in Clients, NEW o, object' = [object EXCEPT ![k] = o],
         NEW d, db' = [db EXCEPT ![k] = d]
  PROVE  /\ object'[k] = o /\ db'[k] = d
         /\ \A c \in Clients \ {k} : object'[c] = object[c] /\ db'[c] = db[c]
BY Replaced DEF PerClient

LEMMA DrainReviews ==
  ASSUME ObjectInv, NEW k \in Clients, Drain(k), NEW c \in Clients, NEW i \in Ids,
         Suspended(object[c], i), HasDraft(db'[c], i)
  PROVE  Suspended(object'[c], i)
<1>1. PICK d : d = DrainedDatabase(db[k], object[k])
  OBVIOUS
<1>2. PICK o : o = DrainedObject(db[k], object[k])
  OBVIOUS
<1>3. db' = [db EXCEPT ![k] = d] /\ object' = [object EXCEPT ![k] = o]
  BY <1>1, <1>2 DEF Drain
<1>4. /\ object'[k] = o /\ db'[k] = d
      /\ \A x \in Clients \ {k} : object'[x] = object[x]
  BY <1>3, OwnObject DEF ObjectInv
<1>5. CASE c = k
  <2>1. IsObject(object[k])
    BY ClientForms DEF ObjectOk
  <2> QED
    BY <1>1, <1>2, <1>4, <1>5, <2>1, DrainedSuspended
<1>6. CASE c # k
  BY <1>4, <1>6
<1> QED
  BY <1>5, <1>6

LEMMA PageReviews ==
  ASSUME ObjectInv, RightsInv, NEW k \in Clients, ApplyPage(k), NEW c \in Clients, NEW i \in Ids,
         Suspended(object[c], i), HasDraft(db[c], i), HasDraft(db'[c], i)
  PROVE  Suspended(object'[c], i)
<1>1. PICK d : d = db[k]
  OBVIOUS
<1>2. PICK page : page = call[k].page
  OBVIOUS
<1>3. PICK o : o = TellAll(d, object[k], page.events)
  OBVIOUS
<1>4. PICK t : t = DrainedDatabase(d, o)
  OBVIOUS
<1>5. PICK q : q = DrainedObject(d, o)
  OBVIOUS
<1>6. PICK e : e = [t EXCEPT !.cursor["scope"] = page.next]
  OBVIOUS
<1>7. PICK p : p = [q EXCEPT !.create = call[k].create]
  OBVIOUS
<1>8. db' = [db EXCEPT ![k] = e] /\ object' = [object EXCEPT ![k] = p]
  BY <1>1, <1>2, <1>3, <1>4, <1>5, <1>6, <1>7 DEF ApplyPage
<1>9. /\ object'[k] = p /\ db'[k] = e
      /\ \A x \in Clients \ {k} : object'[x] = object[x]
  BY <1>8, OwnObject DEF ObjectInv
<1>10. CASE c = k
  <2>1. /\ ReplicaOk(d, made[k]) /\ IsReplica(d) /\ ObjectOk(object[k], d) /\ IsObject(object[k])
        /\ EventsOk(page, d)
    BY <1>1, <1>2, ClientForms DEF CycleOk, ApplyPage, ReplicaOk, ObjectOk
  <2>2. \A n \in DOMAIN page.events : EventTyped(page.events[n])
    BY <1>2 DEF RightsInv, ApplyPage
  <2>3. IsObject(o) /\ Suspended(o, i)
    BY <1>1, <1>3, <1>10, <2>1, <2>2, PageSuspends
  <2>4. Receivable(o, d)
    <3>1. Receivable(object[k], d)
      BY <2>1 DEF Receivable, ObjectOk, AwaitedOk
    <3> QED
      BY <1>3, <2>1, <3>1, PageReceivable
  <2>5. IsReplica(t) /\ IsObject(q)
    BY <1>4, <1>5, <2>1, <2>4, Drains DEF ReplicaOk, ObjectOk
  <2>6. e.local = t.local /\ e.shadow = t.shadow /\ p.access = q.access
    BY <1>6, <1>7, <2>5 DEF IsReplica, IsObject
  <2>7. HasDraft(t, i)
    BY <1>9, <1>10, <2>6 DEF HasDraft, Changed, ShadowRow
  <2>8. Suspended(q, i)
    BY <1>4, <1>5, <2>3, <2>7, DrainedSuspended
  <2> QED
    BY <1>9, <1>10, <2>6, <2>8 DEF Suspended
<1>11. CASE c # k
  BY <1>9, <1>11
<1> QED
  BY <1>10, <1>11

(* The two steps of an answer. *)
LEMMA AnswersReview ==
  ASSUME ObjectInv, NEW k \in Clients, ObserveDisclosures(k) \/ FinishWithoutState(k),
         NEW c \in Clients, NEW i \in Ids, Suspended(object[c], i)
  PROVE  object'[c].access[i].status # "active"
<1>1. PICK o : o = object[k]
  OBVIOUS
<1>2. IsObject(o) /\ object = [x \in Clients |-> object[x]]
  BY <1>1, ClientForms DEF ObjectOk, ObjectInv, PerClient
<1>3. Access({}, "deleted").status = "deleted" /\ Access({}, "review").status = "review"
  BY DEF Access
<1>4. CASE ObserveDisclosures(k)
  <2> DEFINE told == call[k].entities
             seen(x) == IF ~Live(told[x]) THEN Access({}, "deleted")
                        ELSE IF o.access[x] = None THEN Access({"read"}, "active")
                        ELSE [o.access[x] EXCEPT !.rights = @ \cup {"read"}]
  <2>1. PICK access : access = [x \in Ids |-> IF x \in DOMAIN told THEN seen(x) ELSE o.access[x]]
    OBVIOUS
  <2>2. object' = [object EXCEPT ![k] = [o EXCEPT !.access = access]]
    BY <1>1, <1>2, <1>4, <2>1 DEF ObserveDisclosures, IsObject
  <2>3. object'[k].access = access /\ \A x \in Clients \ {k} : object'[x] = object[x]
    BY <1>2, <2>2 DEF IsObject
  <2>4. access[i] \in {seen(i), o.access[i]}
    BY <2>1
  <2>5. Suspended(o, i) => seen(i).status # "active"
    <3>1. PICK a : a = o.access[i]
      OBVIOUS
    <3>2. a # None => a = Access(a.rights, a.status)
      BY <1>2, <3>1 DEF IsObject
    <3>3. a # None => [a EXCEPT !.rights = a.rights \cup {"read"}].status = a.status
      BY <3>2 DEF Access
    <3> QED
      BY <1>3, <3>1, <3>3 DEF Suspended
  <2> HIDE DEF seen
  <2> QED
    BY <1>1, <2>3, <2>4, <2>5 DEF Suspended
<1>5. CASE FinishWithoutState(k)
  <2>1. \E op \in Operation(k) : \E intent :
          object' = [object EXCEPT ![k] = [o EXCEPT !.intent = intent,
            !.access = [x \in Ids |-> IF x \in DOMAIN op.muts THEN Access({}, "review") ELSE o.access[x]]]]
    <3>1. PICK op \in Operation(k) :
            object' = [object EXCEPT ![k] = [o EXCEPT
              !.intent = [x \in Ids |-> IF x \in DOMAIN op.muts /\ call[k].result.kind = "accepted"
                                        THEN [base |-> op.muts[x].base,
                                              row |-> SentRow(db[k], x, op.muts[x])]
                                        ELSE o.intent[x]],
              !.access = [x \in Ids |-> IF x \in DOMAIN op.muts THEN Access({}, "review")
                                        ELSE o.access[x]]]]
      BY <1>1, <1>5 DEF FinishWithoutState
    <3> QED
      BY <3>1
  <2>2. PICK op, intent, access :
          /\ object' = [object EXCEPT ![k] = [o EXCEPT !.intent = intent, !.access = access]]
          /\ access = [x \in Ids |-> IF x \in DOMAIN op.muts THEN Access({}, "review") ELSE o.access[x]]
    BY <2>1
  <2>3. object'[k].access = access /\ \A x \in Clients \ {k} : object'[x] = object[x]
    BY <1>2, <2>2 DEF IsObject
  <2>4. access[i] \in {Access({}, "review"), o.access[i]}
    BY <2>2
  <2> QED
    BY <1>1, <1>3, <2>3, <2>4 DEF Suspended
<1> QED
  BY <1>4, <1>5

(* DraftsReviewed, for any number of clients, objects, rights and edits: a *)
(* draft that was hidden, or whose outcome is not known, is not sent       *)
(* before the application looked at it (object_client.rs apply_page,       *)
(* drain_deferred, finish_without_state).                                  *)
THEOREM HiddenDraftsReviewed == ObjectSpec => DraftsReviewed
<1>1. ASSUME ObjectInv, RightsInv, ObjectNext, call' # call, NEW c \in Clients, NEW i \in Ids,
             HasDraft(db[c], i), Activated(c, i)
      PROVE  ~HasDraft(db'[c], i)
  <2>1. Suspended(object[c], i) /\ object'[c].access[i].status = "active"
    BY <1>1 DEF Activated, Suspended
  <2>2. PICK k \in Clients : EngineCycle(k)
    <3>1. ASSUME NEW x \in Clients, ObjectEdit(x) \/ ObjectPush(x)
                 \/ (\E y \in Ids : ResumeObject(x, y) \/ DiscardRetainedDraft(x, y))
          PROVE  UNCHANGED call
      BY <3>1 DEF ObjectEdit, ObjectPush, ResumeObject, DiscardRetainedDraft, systemVars
    <3>2. Grant \/ ObjectWrite => UNCHANGED call
      BY DEF Grant, ObjectWrite, systemVars
    <3> QED
      BY <1>1, <3>1, <3>2 DEF ObjectNext
  <2>3. object' # object
    BY <2>1 DEF Suspended
  <2>4. CASE Drain(k)
    BY <1>1, <2>1, <2>4, DrainReviews DEF Suspended
  <2>5. CASE ApplyPage(k)
    BY <1>1, <2>1, <2>5, PageReviews DEF Suspended
  <2>6. CASE ObserveDisclosures(k) \/ FinishWithoutState(k)
    BY <1>1, <2>1, <2>6, AnswersReview
  <2> QED
    BY <2>2, <2>3, <2>4, <2>5, <2>6
    DEF EngineCycle, Recover, Resubmit, PrepareObject, SkipObject, Respond, SettleObject,
        EndFlush, FetchPage, Interrupt
<1>2. ASSUME ObjectInv, RightsInv, [ObjectNext]_objectVars
      PROVE  [\A c \in Clients : \A i \in Ids :
                call' # call /\ HasDraft(db[c], i) /\ Activated(c, i) => ~HasDraft(db'[c], i)]_objectVars
  <2>1. CASE UNCHANGED objectVars
    BY <2>1
  <2>2. CASE ObjectNext
    BY <1>1, <1>2, <2>2
  <2> QED
    BY <1>2, <2>1, <2>2
<1>3. ObjectInv /\ RightsInv /\ [ObjectNext]_objectVars => RightsInv'
  BY RightsInductive
<1> QED
  BY <1>2, <1>3, ObjectAlways, RightsInitially, PTL DEF ObjectSpec, DraftsReviewed

-----------------------------------------------------------------------------
(* The states that wait.                                                   *)

(* What waits to be merged, and what a page brings, the server committed.  *)
Delivers(o, e) ==
  /\ \A i \in Ids : o.deferred[i] # None => Historical(i, o.deferred[i])
  /\ e.at = "fetched" =>
       \A n \in DOMAIN e.page.events :
         /\ e.page.events[n].id \in Ids
         /\ e.page.events[n].entity # None =>
              Historical(e.page.events[n].id, e.page.events[n].entity)

StatesInv == ReplicasInv /\ ServerInv /\ \A c \in Clients : Delivers(object[c], call[c])

(* A step of client c leaves what the others know and do. *)
OthersRest(c) == \A k \in Clients \ {c} : object'[k] = object[k] /\ call'[k] = call[k]

LEMMA DeliversStay ==
  ASSUME Grown, NEW k \in Clients, Delivers(object'[k], call'[k])
  PROVE  Delivers(object[k], call[k])'
<1> DEFINE o == object'[k]
           e == call'[k]
<1>1. ASSUME NEW i \in Ids, NEW x, Historical(i, x)
      PROVE  x = Absent \/ \E n \in GroupsOf(i)' : journal'[n][i] = x
  BY <1>1, HistoricalStays
<1>2. ASSUME NEW i \in Ids, o.deferred[i] # None
      PROVE  Historical(i, object[k].deferred[i])'
  <2>1. Historical(i, o.deferred[i])
    BY <1>2 DEF Delivers
  <2> QED
    BY <1>1, <2>1 DEF Historical
<1>3. ASSUME e.at = "fetched", NEW n \in DOMAIN e.page.events
      PROVE  /\ e.page.events[n].id \in Ids
             /\ e.page.events[n].entity # None =>
                  Historical(call[k].page.events[n].id, call[k].page.events[n].entity)'
  <2>1. /\ e.page.events[n].id \in Ids
        /\ e.page.events[n].entity # None => Historical(e.page.events[n].id, e.page.events[n].entity)
    BY <1>3 DEF Delivers
  <2> QED
    BY <1>1, <2>1 DEF Historical
<1> QED
  BY <1>2, <1>3 DEF Delivers

(* Steps of client c. *)
LEMMA StatesKept ==
  ASSUME ObjectInv, StatesInv, UNCHANGED serverVars, NEW c \in Clients,
         AllReplicas', OthersSame(c), OthersRest(c),
         \A i \in Ids : Historical(i, db'[c].shadow[i]), Delivers(object'[c], call'[c]),
         made' \in [Clients -> Nat], Outboxes', Receipts', Matched'
  PROVE  StatesInv'
<1>1. Typed /\ Bounded /\ Grown /\ Typed' /\ Bounded'
  BY ServerSilent DEF StatesInv, ReplicasInv
<1>2. ServerInv'
  BY ServerInvInductive DEF StatesInv, ServerInv, Step
<1>3. Shadows'
  <2> SUFFICES ASSUME NEW k \in Clients, NEW i \in Ids
               PROVE  Historical(i, db[k].shadow[i])'
    BY DEF Shadows
  <2>1. Historical(i, db'[k].shadow[i])
    BY DEF OthersSame, StatesInv, ReplicasInv, Shadows
  <2> QED
    BY <1>1, <2>1, HistoricalStays DEF Historical
<1>4. ASSUME NEW k \in Clients
      PROVE  Delivers(object[k], call[k])'
  <2>1. Delivers(object'[k], call'[k])
    BY DEF OthersRest, StatesInv
  <2> QED
    BY <1>1, <2>1, DeliversStay
<1> QED
  BY <1>1, <1>2, <1>3, <1>4 DEF StatesInv, ReplicasInv

(* Steps that make no operation. *)
LEMMA StatesQuiet ==
  ASSUME ObjectInv, StatesInv, UNCHANGED <<made, serverVars>>, NEW c \in Clients,
         AllReplicas', OthersSame(c), OthersRest(c), db'[c].outbox \subseteq db[c].outbox,
         \A i \in Ids : Historical(i, db'[c].shadow[i]), Delivers(object'[c], call'[c])
  PROVE  StatesInv'
<1>1. Outboxes' /\ Receipts' /\ Matched' /\ made' \in [Clients -> Nat]
  BY OutboxShrinks DEF StatesInv, ReplicasInv
<1> QED
  BY <1>1, StatesKept

LEMMA StateForms ==
  ASSUME StatesInv, NEW c \in Clients
  PROVE  /\ Replica(db[c]) /\ Delivers(object[c], call[c])
         /\ \A i \in Ids : /\ Historical(i, db[c].shadow[i])
                           /\ object[c].deferred[i] # None => object[c].deferred[i] \in EntityOf(i)
BY CommittedForms DEF StatesInv, ReplicasInv, AllReplicas, Shadows, Delivers

(* Steps that move the cycle or change what is known of objects. *)
LEMMA StatesIdle ==
  ASSUME ObjectInv, StatesInv, UNCHANGED <<db, made, serverVars>>, NEW c \in Clients,
         OthersRest(c), object'[c].deferred = object[c].deferred,
         call'[c].at # "fetched" \/ call'[c] = call[c]
  PROVE  StatesInv'
<1>1. AllReplicas' /\ OthersSame(c) /\ \A i \in Ids : Historical(i, db'[c].shadow[i])
  BY StateForms DEF StatesInv, ReplicasInv, AllReplicas, OthersSame
<1>2. Delivers(object'[c], call'[c])
  BY StateForms DEF Delivers
<1> QED
  BY <1>1, <1>2, StatesQuiet

(* Steps that write the database of c only. *)
LEMMA StatesWritten ==
  ASSUME ObjectInv, StatesInv, UNCHANGED <<object, made, serverVars>>, NEW c \in Clients,
         AllReplicas', OthersSame(c), OthersRest(c), WriteOnly(db[c], db'[c]),
         call'[c].at # "fetched" \/ call'[c] = call[c]
  PROVE  StatesInv'
<1>1. \A i \in Ids : Historical(i, db'[c].shadow[i])
  BY StateForms DEF WriteOnly
<1>2. Delivers(object'[c], call'[c])
  BY StateForms DEF Delivers
<1> QED
  BY <1>1, <1>2, StatesQuiet DEF WriteOnly

LEMMA EditStates ==
  ASSUME ObjectInv, StatesInv, NEW c \in Clients, ObjectEdit(c)
  PROVE  StatesInv'
<1>1. UNCHANGED <<object, call, made, serverVars>>
  BY DEF ObjectEdit, serverSide
<1>2. PICK i \in Ids :
        \/ \E data \in DataOf(i) : Insert(c, i, data) \/ Update(c, i, data)
        \/ Delete(c, i)
        \/ \E data \in DataOf(i) \cup {None} : Resolve(c, i, data)
  BY DEF ObjectEdit
<1>3. AllReplicas' /\ OthersSame(c) /\ WriteOnly(db[c], db'[c])
  BY <1>2, EditApplied DEF StatesInv, ReplicasInv
<1> QED
  BY <1>1, <1>3, StatesWritten DEF OthersRest

(* The call of c moves on. *)
LEMMA Moved ==
  ASSUME ObjectInv, NEW c \in Clients, NEW e, Moves(c, e)
  PROVE  call'[c] = e /\ \A k \in Clients \ {c} : call'[k] = call[k]
BY Replaced DEF ObjectInv, PerClient, Moves

LEMMA MoveStates ==
  ASSUME ObjectInv, StatesInv, NEW c \in Clients,
         Resubmit(c) \/ Respond(c) \/ Interrupt(c)
  PROVE  StatesInv'
<1>1. UNCHANGED <<db, object, made, serverVars>>
  BY DEF Resubmit, Respond, Interrupt, serverSide
<1> DEFINE Leads(e) == Moves(c, e) /\ e.at # "fetched"
<1>2. \E e : Leads(e)
  <2>1. ASSUME NEW e, Moves(c, e), e.at # "fetched"
        PROVE  \E x : Leads(x)
    BY <2>1
  <2>2. /\ \A n : Waiting(n).at # "fetched"
        /\ \A n, r, w : Replied(n, r, w).at # "fetched"
        /\ Resting.at # "fetched"
    BY DEF Waiting, Replied, Resting
  <2> HIDE DEF Leads
  <2>3. CASE Resubmit(c)
    BY <2>1, <2>2, <2>3 DEF Resubmit
  <2>4. CASE Respond(c)
    BY <2>1, <2>2, <2>4 DEF Respond
  <2>5. CASE Interrupt(c)
    BY <2>1, <2>2, <2>5 DEF Interrupt
  <2> QED
    BY <2>3, <2>4, <2>5
<1>3. PICK e : Leads(e)
  BY <1>2
<1> QED
  BY <1>1, <1>3, Moved, StatesIdle DEF OthersRest

LEMMA SkipStates ==
  ASSUME ObjectInv, StatesInv, NEW c \in Clients, SkipObject(c)
  PROVE  StatesInv'
<1>1. UNCHANGED <<object, made, serverVars>> /\ Moves(c, Ending) /\ Ending.at # "fetched"
  BY DEF SkipObject, serverSide, Ending
<1>2. call'[c] = Ending /\ OthersRest(c)
  BY <1>1, Moved DEF OthersRest
<1>3. CASE UNCHANGED db
  BY <1>1, <1>2, <1>3, StatesIdle
<1>4. CASE db' = [db EXCEPT ![c] = Tidied(db[c])]
  <2>1. Replica(Tidied(db[c])) /\ WriteOnly(db[c], Tidied(db[c]))
    BY StateForms, TidiedForms
  <2>2. AllReplicas' /\ OthersSame(c) /\ db'[c] = Tidied(db[c])
    BY <1>4, <2>1, OneChanged DEF StatesInv, ReplicasInv
  <2> QED
    BY <1>1, <1>2, <2>1, <2>2, StatesWritten
<1> QED
  BY <1>3, <1>4 DEF SkipObject

-----------------------------------------------------------------------------
(* What the merge of delivered states and a page leave behind.             *)

(* The rows of objects that nothing was received of stay. *)
LEMMA UpdatesElsewhere ==
  ASSUME NEW d, Replica(d), NEW U, DOMAIN U \subseteq Ids, NEW i \in Ids \ DOMAIN U
  PROVE  /\ ApplyUpdates(d, U).local[i] = d.local[i]
         /\ ApplyUpdates(d, U).conflict[i] = d.conflict[i]
<1>1. DOMAIN Joined(Protected(d, U), U) = DOMAIN U
  <2>1. DOMAIN Protected(d, U) = {}
    BY Keyless DEF Protected
  <2> QED
    BY <2>1 DEF Joined
<1> DEFINE V == Joined(Protected(d, U), U)
           target == [k \in Ids |-> IF k \in DOMAIN V THEN V[k].merged ELSE d.local[k]]
           fits == RefsPresent(target)
           visible == IF fits THEN target ELSE d.local
           blocked(u) == IF u.ack # None \/ u.previous = u.base THEN Deferred(u.base, u.ack) ELSE Clash
           conflict(u) == IF u.conflict # None THEN u.conflict
                          ELSE IF fits THEN None ELSE blocked(u)
<1>2. PICK e : e = ApplyUpdates(d, U)
  OBVIOUS
<1>3. /\ e.local = visible
      /\ e.conflict = [k \in Ids |-> IF k \in DOMAIN V THEN conflict(V[k]) ELSE d.conflict[k]]
  BY <1>2 DEF ApplyUpdates, Replica, IsDatabase
<1>4. target[i] = d.local[i]
  BY <1>1
<1> HIDE DEF V, fits, target, conflict
<1> QED
  BY <1>1, <1>2, <1>3, <1>4 DEF V

(* Delivered states become the shadows of their objects, the others stay.  *)
LEMMA DrainedReplica ==
  ASSUME NEW d, Replica(d), NEW o, IsObject(o),
         \A i \in Ids : o.deferred[i] # None => o.deferred[i] \in EntityOf(i)
  PROVE  /\ Replica(DrainedDatabase(d, o))
         /\ DrainedDatabase(d, o).outbox = d.outbox /\ DrainedDatabase(d, o).cursor = d.cursor
         /\ \A i \in Ids : DrainedDatabase(d, o).shadow[i]
               = IF i \in Drained(d, o) /\ Current(d, o, i) THEN o.deferred[i] ELSE d.shadow[i]
         /\ \A i \in Ids : o.deferred[i] = None =>
               /\ DrainedDatabase(d, o).local[i] = d.local[i]
               /\ DrainedDatabase(d, o).conflict[i] = d.conflict[i]
<1> DEFINE taken == {k \in Drained(d, o) : Current(d, o, k)}
           received == [i \in taken |-> Reconciled(d, i, BaseFor(d, o, i), o.deferred[i])]
<1>1. DOMAIN received = taken /\ taken \subseteq Ids /\ \A i \in taken : o.deferred[i] # None
  BY DEF Drained
<1>2. ASSUME NEW i \in taken
      PROVE  UpdateOk(i, received[i]) /\ received[i].remote = o.deferred[i]
  <2>1. received[i] = Reconciled(d, i, BaseFor(d, o, i), o.deferred[i])
    OBVIOUS
  <2> HIDE DEF taken, received
  <2> QED
    BY <1>1, <1>2, <2>1, ReconciledOk
<1>3. DrainedDatabase(d, o) = ApplyUpdates(d, received)
  BY DEF DrainedDatabase
<1>4. \A i \in Ids : i \in taken <=> i \in Drained(d, o) /\ Current(d, o, i)
  OBVIOUS
<1> HIDE DEF taken, received
<1> QED
  BY <1>1, <1>2, <1>3, <1>4, UpdatesApplied, UpdatesElsewhere

LEMMA DrainedKnows ==
  ASSUME NEW d, NEW o, IsObject(o), NEW i \in Ids
  PROVE  /\ DrainedObject(d, o).deferred[i] = IF i \in Drained(d, o) THEN None ELSE o.deferred[i]
         /\ \/ DrainedObject(d, o).access[i] = o.access[i]
            \/ /\ o.access[i] # None /\ o.access[i].status = "review" /\ o.deferred[i] # None
               /\ DrainedObject(d, o).access[i] = Access(o.access[i].rights, "active")
<1>1. PICK t : t = DrainedDatabase(d, o)
  OBVIOUS
<1>2. PICK p : p = DrainedObject(d, o)
  OBVIOUS
<1> DEFINE reviewed(k) == /\ k \in Drained(d, o) /\ "read" \in o.access[k].rights
                          /\ o.access[k].status = "review" /\ ~HasDraft(t, k)
<1>3. /\ p.deferred = [k \in Ids |-> IF k \in Drained(d, o) THEN None ELSE o.deferred[k]]
      /\ p.access = [k \in Ids |-> IF o.access[k] # None /\ reviewed(k)
                                   THEN [o.access[k] EXCEPT !.status = "active"] ELSE o.access[k]]
  BY <1>1, <1>2 DEF DrainedObject, IsObject
<1>4. o.access[i] # None => [o.access[i] EXCEPT !.status = "active"] = Access(o.access[i].rights, "active")
  <2>1. PICK a : a = o.access[i]
    OBVIOUS
  <2>2. a # None => a = Access(a.rights, a.status)
    BY <2>1 DEF IsObject
  <2>3. a # None => [a EXCEPT !.status = "active"] = Access(a.rights, "active")
    BY <2>2 DEF Access
  <2> QED
    BY <2>1, <2>3
<1>5. reviewed(i) => o.access[i].status = "review" /\ o.deferred[i] # None
  BY DEF Drained
<1> HIDE DEF reviewed
<1> QED
  BY <1>2, <1>3, <1>4, <1>5

(* An object after a page: as one of its events tells, or as before.       *)
ToldBy(o, p, events, L, i) ==
  \/ /\ \A n \in 1..L : events[n].id # i
     /\ p.deferred[i] = o.deferred[i] /\ p.access[i] = o.access[i]
  \/ \E n \in 1..L : \E s : /\ events[n].id = i /\ p.deferred[i] = events[n].entity
                            /\ p.access[i] = Access(events[n].rights, s)
                            /\ s = events[n].status \/ (s = "review" /\ events[n].status = "active")

LEMMA ToldByMore ==
  ASSUME NEW d, NEW o, NEW q, IsObject(q), NEW events, NEW m \in Nat, events[m + 1].id \in Ids,
         NEW i \in Ids, ToldBy(o, q, events, m, i)
  PROVE  ToldBy(o, Told(d, q, events[m + 1]), events, m + 1, i)
<1>1. PICK e : e = events[m + 1]
  OBVIOUS
<1>2. PICK p : p = Told(d, q, e)
  OBVIOUS
<1>3. /\ p.deferred[i] = IF i = e.id THEN e.entity ELSE q.deferred[i]
      /\ p.access[i] = IF i = e.id THEN Access(e.rights, ToldStatus(d, q, e)) ELSE q.access[i]
  BY <1>1, <1>2, Tells
<1>4. 1..m \subseteq 1..m + 1 /\ m + 1 \in 1..m + 1 /\ \A n \in 1..m + 1 : n \in 1..m \/ n = m + 1
  OBVIOUS
<1>5. CASE i = e.id
  <2>1. PICK s : s = ToldStatus(d, q, e)
    OBVIOUS
  <2>2. s = e.status \/ (s = "review" /\ e.status = "active")
    BY <2>1 DEF ToldStatus
  <2> QED
    BY <1>1, <1>2, <1>3, <1>4, <1>5, <2>1, <2>2 DEF ToldBy
<1>6. CASE i # e.id
  <2>1. p.deferred[i] = q.deferred[i] /\ p.access[i] = q.access[i]
    BY <1>3, <1>6
  <2> QED
    BY <1>1, <1>2, <1>4, <1>6, <2>1 DEF ToldBy
<1> QED
  BY <1>5, <1>6

LEMMA PageTold ==
  ASSUME NEW d, NEW o, IsObject(o), NEW page, EventsOk(page, d), NEW i \in Ids,
         NEW L \in Nat, DOMAIN page.events = 1..L
  PROVE  /\ IsObject(TellAll(d, o, page.events))
         /\ ToldBy(o, TellAll(d, o, page.events), page.events, L, i)
<1>2. PICK told : IsTelling(told, d, o, page.events, L)
  BY FoldEvents
<1> DEFINE S == {m \in Nat : m <= L => IsObject(told[m]) /\ ToldBy(o, told[m], page.events, m, i)}
<1>3. 0 \in S
  BY <1>2 DEF IsTelling, ToldBy
<1>4. ASSUME NEW m \in Nat, m \in S
      PROVE  m + 1 \in S
  <2> SUFFICES ASSUME m + 1 <= L
               PROVE  IsObject(told[m + 1]) /\ ToldBy(o, told[m + 1], page.events, m + 1, i)
    OBVIOUS
  <2>1. m <= L /\ m \in 0..L - 1 /\ m + 1 \in DOMAIN page.events
    OBVIOUS
  <2>2. IsObject(told[m]) /\ ToldBy(o, told[m], page.events, m, i)
    BY <1>4, <2>1
  <2>3. page.events[m + 1].id \in Ids
    BY <2>1 DEF EventsOk
  <2>4. told[m + 1] = Told(d, told[m], page.events[m + 1])
    BY <1>2, <2>1 DEF IsTelling
  <2>5. IsObject(told[m + 1])
    <3>1. PICK q : q = told[m]
      OBVIOUS
    <3>2. PICK e : e = page.events[m + 1]
      OBVIOUS
    <3>3. PICK p : p = Told(d, q, e)
      OBVIOUS
    <3>4. IsObject(q) /\ e.id \in Ids
      BY <2>2, <2>3, <3>1, <3>2
    <3>5. IsObject(p)
      BY <3>3, <3>4, Tells
    <3>6. told[m + 1] = p
      BY <2>4, <3>1, <3>2, <3>3
    <3> QED
      BY <3>5, <3>6
  <2> QED
    BY <2>2, <2>3, <2>4, <2>5, ToldByMore
<1>5. L \in S
  <2> HIDE DEF S
  <2> QED
    BY <1>3, <1>4, Induction
<1> QED
  BY <1>2, <1>5 DEF IsTelling

(* Steps of client c that write its database and what it knows.            *)
LEMMA DrainStates ==
  ASSUME ObjectInv, StatesInv, NEW c \in Clients, Recover(c) \/ EndFlush(c)
  PROVE  StatesInv'
<1>1. Drain(c) /\ UNCHANGED <<made, serverVars>>
  BY DEF Recover, EndFlush, serverSide
<1>2. call'[c].at # "fetched" /\ \A k \in Clients \ {c} : call'[k] = call[k]
  <2>1. CASE Recover(c)
    <3>1. PICK new \in BOOLEAN : Moves(c, Choosing(new))
      BY <2>1 DEF Recover
    <3> QED
      BY <3>1, Moved DEF Choosing
  <2>2. CASE EndFlush(c)
    BY <2>2, Moved DEF EndFlush, Resting
  <2> QED
    BY <2>1, <2>2
<1>3. PICK d : d = DrainedDatabase(db[c], object[c])
  OBVIOUS
<1>4. PICK o : o = DrainedObject(db[c], object[c])
  OBVIOUS
<1>5. db' = [db EXCEPT ![c] = d] /\ object' = [object EXCEPT ![c] = o]
  BY <1>1, <1>3, <1>4 DEF Drain
<1>6. IsObject(object[c])
  BY ClientForms DEF ObjectOk
<1>7. /\ Replica(d) /\ d.outbox = db[c].outbox
      /\ \A i \in Ids : \/ d.shadow[i] = db[c].shadow[i]
                        \/ object[c].deferred[i] # None /\ d.shadow[i] = object[c].deferred[i]
  BY <1>3, <1>6, StateForms, DrainedReplica DEF Drained
<1>8. \A i \in Ids : o.deferred[i] \in {None, object[c].deferred[i]}
  BY <1>4, <1>6, DrainedKnows
<1>9. AllReplicas' /\ OthersSame(c) /\ db'[c] = d
  BY <1>5, <1>7, OneChanged DEF StatesInv, ReplicasInv
<1>10. OthersRest(c) /\ object'[c] = o
  BY <1>2, <1>5, Replaced DEF OthersRest, ObjectInv, PerClient
<1>11. Delivers(object[c], call[c]) /\ \A i \in Ids : Historical(i, db[c].shadow[i])
  BY StateForms
<1>12. Delivers(o, call'[c])
  BY <1>2, <1>8, <1>11 DEF Delivers
<1>13. \A i \in Ids : Historical(i, d.shadow[i])
  BY <1>7, <1>11 DEF Delivers
<1> QED
  BY <1>1, <1>7, <1>9, <1>10, <1>12, <1>13, StatesQuiet

LEMMA SettleStates ==
  ASSUME ObjectInv, StatesInv, NEW c \in Clients, SettleObject(c)
  PROVE  StatesInv'
<1>1. UNCHANGED <<object, made, serverVars>> /\ Moves(c, Disclosing(call[c].result.entities))
  BY DEF SettleObject, serverSide
<1>2. call'[c].at # "fetched" /\ OthersRest(c)
  BY <1>1, Moved DEF Disclosing, OthersRest
<1>3. PICK op \in Operation(c) : Finish(c, op, call[c].result)
  BY DEF SettleObject
<1>4. op \in db[c].outbox /\ op.number = call[c].number
  BY <1>3 DEF Operation
<1>5. PICK y \in replies : y.key = <<c, op.number>> /\ y.result = call[c].result
  BY <1>4, ClientForms DEF CycleOk, SettleObject
<1>6. RepliesReceipted /\ WritersInv /\ ReplicasInv
  BY DEF StatesInv, ServerInv
<1>7. Finish(c, op, y.result)
  BY <1>3, <1>5
<1>8. AllReplicas' /\ OthersSame(c) /\ Forward(c) /\ Outboxes' /\ Receipts' /\ Matched'
  BY <1>1, <1>4, <1>5, <1>6, <1>7, Finished
<1>9. made' \in [Clients -> Nat]
  BY <1>1, <1>6 DEF ReplicasInv
<1>10. Delivers(object'[c], call'[c])
  BY <1>1, <1>2, StateForms DEF Delivers
<1> QED
  BY <1>1, <1>2, <1>8, <1>9, <1>10, StatesKept DEF Forward

LEMMA WithoutStateStates ==
  ASSUME ObjectInv, StatesInv, NEW c \in Clients, FinishWithoutState(c)
  PROVE  StatesInv'
<1>1. UNCHANGED <<made, serverVars>> /\ Moves(c, Ending)
  BY DEF FinishWithoutState, serverSide
<1>2. call'[c].at # "fetched" /\ \A k \in Clients \ {c} : call'[k] = call[k]
  BY <1>1, Moved DEF Ending
<1>3. PICK d : d = db[c]
  OBVIOUS
<1>4. PICK op \in Operation(c) : db' = [db EXCEPT ![c] = Settled(c, op)]
  BY DEF FinishWithoutState
<1>5. PICK e : e = Settled(c, op)
  OBVIOUS
<1>6. Replica(d) /\ IsDatabase(d)
  BY <1>3, StateForms DEF Replica
<1>7. Booked(d, e) /\ e.outbox \subseteq d.outbox
  BY <1>3, <1>5, <1>6 DEF Settled, Booked, IsDatabase
<1>8. AllReplicas' /\ OthersSame(c) /\ db'[c] = e
  BY <1>4, <1>5, <1>6, <1>7, BooksKept, OneChanged DEF StatesInv, ReplicasInv
<1>9. object'[c].deferred = object[c].deferred /\ \A k \in Clients \ {c} : object'[k] = object[k]
  <2>1. object = [k \in Clients |-> object[k]] /\ IsObject(object[c])
    BY ClientForms DEF ObjectInv, PerClient, ObjectOk
  <2>2. PICK o : o = object[c]
    OBVIOUS
  <2>3. PICK access, intent : object' = [object EXCEPT ![c] = [o EXCEPT !.intent = intent, !.access = access]]
    BY <2>2 DEF FinishWithoutState
  <2>4. [o EXCEPT !.intent = intent, !.access = access].deferred = o.deferred
    BY <2>1, <2>2 DEF IsObject
  <2> QED
    BY <2>1, <2>2, <2>3, <2>4, Replaced
<1>10. \A i \in Ids : Historical(i, db'[c].shadow[i])
  BY <1>3, <1>7, <1>8, StateForms DEF Booked
<1>11. Delivers(object'[c], call'[c])
  BY <1>2, <1>9, StateForms DEF Delivers
<1> QED
  BY <1>1, <1>2, <1>3, <1>7, <1>8, <1>9, <1>10, <1>11, StatesQuiet DEF OthersRest

(* Steps that change the access to objects. *)
LEMMA AccessStates ==
  ASSUME ObjectInv, StatesInv, NEW c \in Clients,
         ObserveDisclosures(c) \/ \E i \in Ids : ResumeObject(c, i)
  PROVE  StatesInv'
<1>1. object = [k \in Clients |-> object[k]] /\ IsObject(object[c])
  BY ClientForms DEF ObjectInv, PerClient, ObjectOk
<1>2. PICK o : o = object[c]
  OBVIOUS
<1>3. \A access : [o EXCEPT !.access = access].deferred = o.deferred
  BY <1>1, <1>2 DEF IsObject
<1>4. UNCHANGED <<db, made, serverVars>>
  BY DEF ObserveDisclosures, ResumeObject, serverSide, systemVars, serverVars
<1>5. /\ call'[c].at # "fetched" \/ call'[c] = call[c]
      /\ \A k \in Clients \ {c} : call'[k] = call[k]
  <2>1. CASE ObserveDisclosures(c)
    BY <2>1, Moved DEF ObserveDisclosures, Ending
  <2>2. CASE \E i \in Ids : ResumeObject(c, i)
    BY <2>2 DEF ResumeObject, systemVars
  <2> QED
    BY <2>1, <2>2
<1>6. PICK access : object' = [object EXCEPT ![c] = [o EXCEPT !.access = access]]
  <2>1. CASE ObserveDisclosures(c)
    <3>1. PICK told : told = call[c].entities
      OBVIOUS
    <3>2. PICK access : access = [i \in Ids |-> IF i \in DOMAIN told
                           THEN IF ~Live(told[i]) THEN Access({}, "deleted")
                                ELSE IF o.access[i] = None THEN Access({"read"}, "active")
                                ELSE [o.access[i] EXCEPT !.rights = @ \cup {"read"}]
                           ELSE o.access[i]]
      OBVIOUS
    <3>3. object' = [object EXCEPT ![c] = [o EXCEPT !.access = access]]
      BY <1>1, <1>2, <2>1, <3>1, <3>2 DEF ObserveDisclosures
    <3> QED
      BY <3>3
  <2>2. CASE \E i \in Ids : ResumeObject(c, i)
    <3>1. PICK i \in Ids : ResumeObject(c, i)
      BY <2>2
    <3>2. PICK access : access = [o.access EXCEPT ![i] = [o.access[i] EXCEPT !.status = "active"]]
      OBVIOUS
    <3>3. object' = [object EXCEPT ![c] = [o EXCEPT !.access = access]]
      BY <1>1, <1>2, <3>1, <3>2 DEF ResumeObject, IsObject
    <3> QED
      BY <3>3
  <2> QED
    BY <2>1, <2>2
<1>7. object'[c].deferred = object[c].deferred /\ \A k \in Clients \ {c} : object'[k] = object[k]
  BY <1>1, <1>2, <1>3, <1>6, Replaced
<1> QED
  BY <1>4, <1>5, <1>7, StatesIdle DEF OthersRest

LEMMA ApplyPageStates ==
  ASSUME ObjectInv, StatesInv, NEW c \in Clients, ApplyPage(c)
  PROVE  StatesInv'
<1>1. UNCHANGED <<made, serverVars>> /\ Moves(c, Resting)
  BY DEF ApplyPage, serverSide
<1>2. call'[c].at # "fetched" /\ \A k \in Clients \ {c} : call'[k] = call[k]
  BY <1>1, Moved DEF Resting
<1>3. PICK d : d = db[c]
  OBVIOUS
<1>4. PICK page : page = call[c].page
  OBVIOUS
<1>5. PICK told : told = TellAll(d, object[c], page.events)
  OBVIOUS
<1>6. PICK t : t = DrainedDatabase(d, told)
  OBVIOUS
<1>7. PICK q : q = DrainedObject(d, told)
  OBVIOUS
<1>8. PICK e : e = [t EXCEPT !.cursor["scope"] = page.next]
  OBVIOUS
<1>9. PICK p : p = [q EXCEPT !.create = call[c].create]
  OBVIOUS
<1>10. db' = [db EXCEPT ![c] = e] /\ object' = [object EXCEPT ![c] = p]
  BY <1>3, <1>4, <1>5, <1>6, <1>7, <1>8, <1>9 DEF ApplyPage
<1>11. /\ ReplicaOk(d, made[c]) /\ ObjectOk(object[c], d) /\ IsObject(object[c]) /\ EventsOk(page, d)
  BY <1>3, <1>4, ClientForms DEF CycleOk, ApplyPage, ObjectOk
<1>12. PICK L \in Nat : DOMAIN page.events = 1..L
  BY <1>11 DEF EventsOk
<1>13. IsObject(told) /\ \A i \in Ids : ToldBy(object[c], told, page.events, L, i)
  <2>1. IsObject(told)
    <3>1. Receivable(told, d)
      <4>1. Receivable(object[c], d)
        BY <1>11 DEF Receivable, ObjectOk, AwaitedOk
      <4> QED
        BY <1>5, <1>11, <4>1, PageReceivable
    <3> QED
      BY <3>1 DEF Receivable
  <2>2. ASSUME NEW i \in Ids
        PROVE  ToldBy(object[c], told, page.events, L, i)
    BY <1>5, <1>11, <1>12, PageTold
  <2> QED
    BY <2>1, <2>2
<1>14. /\ Replica(d) /\ Delivers(object[c], call[c]) /\ Typed /\ Bounded
       /\ \A i \in Ids : Historical(i, d.shadow[i])
  BY <1>3, StateForms DEF StatesInv, ReplicasInv
<1>15. \A n \in 1..L : page.events[n].entity # None =>
         Historical(page.events[n].id, page.events[n].entity)
  BY <1>4, <1>12, <1>14 DEF Delivers, ApplyPage
<1>16. \A i \in Ids : told.deferred[i] # None => Historical(i, told.deferred[i])
  <2> SUFFICES ASSUME NEW i \in Ids, told.deferred[i] # None
               PROVE  Historical(i, told.deferred[i])
    OBVIOUS
  <2>1. \/ told.deferred[i] = object[c].deferred[i]
        \/ \E n \in 1..L : page.events[n].id = i /\ told.deferred[i] = page.events[n].entity
    <3>1. ToldBy(object[c], told, page.events, L, i)
      BY <1>13
    <3>2. PICK o : o = object[c]
      OBVIOUS
    <3>3. PICK events : events = page.events
      OBVIOUS
    <3>4. ToldBy(o, told, events, L, i)
      BY <3>1, <3>2, <3>3
    <3>5. \/ told.deferred[i] = o.deferred[i]
          \/ \E n \in 1..L : events[n].id = i /\ told.deferred[i] = events[n].entity
      BY <3>4 DEF ToldBy
    <3> QED
      BY <3>2, <3>3, <3>5
  <2>2. object[c].deferred[i] # None => Historical(i, object[c].deferred[i])
    BY <1>14 DEF Delivers
  <2> QED
    BY <1>15, <2>1, <2>2
<1>17. \A i \in Ids : told.deferred[i] # None => told.deferred[i] \in EntityOf(i)
  BY <1>14, <1>16, CommittedForms
<1>18. /\ Replica(t) /\ t.outbox = d.outbox
       /\ \A i \in Ids : \/ t.shadow[i] = d.shadow[i]
                         \/ told.deferred[i] # None /\ t.shadow[i] = told.deferred[i]
  BY <1>6, <1>13, <1>14, <1>17, DrainedReplica DEF Drained
<1>19. IsObject(q) /\ \A i \in Ids : q.deferred[i] \in {None, told.deferred[i]}
  <2>1. IsObject(q)
    <3>1. Receivable(told, d)
      <4>1. Receivable(object[c], d)
        BY <1>11 DEF Receivable, ObjectOk, AwaitedOk
      <4> QED
        BY <1>5, <1>11, <4>1, PageReceivable
    <3> QED
      BY <1>7, <1>11, <3>1, Drains DEF ObjectOk
  <2> QED
    BY <1>7, <1>13, <2>1, DrainedKnows
<1>20. Booked(t, e) /\ e.outbox = t.outbox
  BY <1>8, <1>18 DEF Booked, Replica, IsDatabase
<1>21. AllReplicas' /\ OthersSame(c) /\ db'[c] = e
  BY <1>10, <1>18, <1>20, BooksKept, OneChanged DEF StatesInv, ReplicasInv
<1>22. OthersRest(c) /\ object'[c] = p
  BY <1>2, <1>10, Replaced DEF OthersRest, ObjectInv, PerClient
<1>23. p.deferred = q.deferred
  BY <1>9, <1>19 DEF IsObject
<1>24. \A i \in Ids : Historical(i, e.shadow[i])
  BY <1>14, <1>16, <1>18, <1>20 DEF Booked
<1>25. Delivers(p, call'[c])
  BY <1>2, <1>16, <1>19, <1>23 DEF Delivers
<1> QED
  BY <1>1, <1>3, <1>18, <1>20, <1>21, <1>22, <1>24, <1>25, StatesQuiet

LEMMA DiscardStates ==
  ASSUME ObjectInv, StatesInv, NEW c \in Clients, NEW i \in Ids, DiscardRetainedDraft(c, i)
  PROVE  StatesInv'
<1>1. PICK d : d = db[c]
  OBVIOUS
<1>2. PICK e : e = [d EXCEPT !.local = [d.local EXCEPT ![i] = None],
                             !.shadow = [d.shadow EXCEPT ![i] = Absent],
                             !.dirty = d.dirty \ {i}, !.deleting = d.deleting \ {i},
                             !.conflict = [d.conflict EXCEPT ![i] = None]]
  OBVIOUS
<1>3. /\ Replica(d) /\ IsDatabase(d) /\ db = [k \in Clients |-> db[k]]
      /\ object = [k \in Clients |-> object[k]] /\ IsObject(object[c])
  BY <1>1, StateForms, ClientForms DEF Replica, ObjectInv, PerClient, ObjectOk
<1>4. db' = [db EXCEPT ![c] = e]
  BY <1>1, <1>2, <1>3 DEF DiscardRetainedDraft, IsDatabase
<1>5. /\ e = [local |-> e.local, shadow |-> e.shadow, dirty |-> e.dirty, deleting |-> e.deleting,
              conflict |-> e.conflict, outbox |-> e.outbox, cursor |-> e.cursor, reset |-> e.reset]
      /\ e.local = [d.local EXCEPT ![i] = None] /\ e.shadow = [d.shadow EXCEPT ![i] = Absent]
      /\ e.dirty = d.dirty \ {i} /\ e.deleting = d.deleting \ {i}
      /\ e.conflict = [d.conflict EXCEPT ![i] = None]
      /\ e.outbox = d.outbox /\ e.cursor = d.cursor
  BY <1>2, <1>3 DEF IsDatabase
<1>6. \A k \in Ids : /\ e.local[k] = IF k = i THEN None ELSE d.local[k]
                     /\ e.shadow[k] = IF k = i THEN Absent ELSE d.shadow[k]
                     /\ e.conflict[k] = IF k = i THEN None ELSE d.conflict[k]
  BY <1>3, <1>5 DEF IsDatabase
<1>7. IsDatabase(e)
  BY <1>3, <1>5 DEF IsDatabase
<1>8. Fit(e)
  <2>1. \A k \in Ids : /\ e.local[k] \in RowOf(k) /\ e.shadow[k] \in EntityOf(k)
                       /\ IsConflict(k, e.conflict[k])
    BY <1>3, <1>6, AbsentEntity DEF Replica, Fit, IsConflict, RowOf
  <2>2. RefsPresent(e.local)
    BY Keyless DEF RefsPresent
  <2> QED
    BY <1>3, <1>5, <2>1, <2>2 DEF Replica, Fit
<1>9. Tracked(e)
  <2> SUFFICES ASSUME NEW k \in Ids, Changed(e, k)
               PROVE  k \in e.dirty
    BY DEF Tracked
  <2>1. k # i
    <3>1. ASSUME k = i
          PROVE  FALSE
      <4>1. e.local[i] = None /\ e.shadow[i] = Absent
        BY <1>6
      <4>2. PatchRow(i, ShadowRow(e, i), None) = None
        BY DEF PatchRow
      <4>3. ShadowRow(e, i) = None
        BY <4>1 DEF ShadowRow, RecordOf, Live, Absent
      <4> QED
        BY <3>1, <4>1, <4>2, <4>3 DEF Changed
    <3> QED
      BY <3>1
  <2>2. Changed(d, k)
    BY <1>6, <2>1, ChangedSame
  <2> QED
    BY <1>3, <1>5, <2>1, <2>2 DEF Replica, Tracked
<1>10. AllReplicas' /\ OthersSame(c) /\ db'[c] = e
  BY <1>4, <1>7, <1>8, <1>9, OneChanged DEF StatesInv, ReplicasInv, Replica
<1>11. \A k \in Ids : Historical(k, e.shadow[k])
  BY <1>1, <1>6, StateForms DEF Historical
<1>12. object'[c].deferred = object[c].deferred /\ OthersRest(c) /\ UNCHANGED <<call, made, serverVars>>
  <2>1. PICK o : o = object[c]
    OBVIOUS
  <2>2. object' = [object EXCEPT ![c] = Discarded(o, i)]
    BY <1>3, <2>1 DEF DiscardRetainedDraft
  <2>3. Discarded(o, i).deferred = o.deferred
    BY <1>3, <2>1 DEF Discarded, IsObject
  <2>4. UNCHANGED <<call, made, serverVars>>
    BY DEF DiscardRetainedDraft, serverSide
  <2> QED
    BY <1>3, <2>1, <2>2, <2>3, <2>4, Replaced DEF OthersRest
<1>13. Delivers(object'[c], call'[c])
  BY <1>12, StateForms DEF Delivers
<1> QED
  BY <1>1, <1>5, <1>10, <1>11, <1>12, <1>13, StatesQuiet

LEMMA PrepareStates ==
  ASSUME ObjectInv, StatesInv, NEW c \in Clients, PrepareObject(c)
  PROVE  StatesInv'
<1>1. PICK d : d = db[c]
  OBVIOUS
<1>2. PICK t : t = Tidied(d)
  OBVIOUS
<1>3. PICK S \in SUBSET Selection(c) :
        db' = [db EXCEPT ![c] = [t EXCEPT !.outbox =
                 {[number |-> made[c] + 1, feed |-> "scope", muts |-> [i \in S |-> MutationOf(d, i)]]}]]
  BY <1>1, <1>2 DEF PrepareObject, FirstOf
<1>4. PICK op : op = OperationOf(d, made[c] + 1, "scope", S)
  OBVIOUS
<1>5. PICK e : e = [t EXCEPT !.outbox = {op}]
  OBVIOUS
<1>6. db' = [db EXCEPT ![c] = e]
  BY <1>3, <1>4, <1>5 DEF OperationOf
<1>7. Replica(d) /\ Replica(t) /\ WriteOnly(d, t)
  BY <1>1, <1>2, StateForms, TidiedForms
<1>8. Booked(t, e) /\ e.outbox = {op}
  BY <1>5, <1>7 DEF Booked, Replica, IsDatabase
<1>9. AllReplicas' /\ OthersSame(c) /\ db'[c] = e
  BY <1>6, <1>7, <1>8, BooksKept, OneChanged DEF StatesInv, ReplicasInv
<1>10. d.outbox = {} /\ S \in SUBSET Ids /\ "scope" \in Feeds
  <2>1. Selection(c) \subseteq Ids
    BY <1>1, <1>7 DEF Selection, Unsent, Replica, Fit
  <2> QED
    BY <1>1, <2>1, Keyless DEF PrepareObject, MayPrepare
<1>11. /\ made' = [made EXCEPT ![c] = @ + 1] /\ UNCHANGED <<object, serverVars>>
       /\ Moves(c, Waiting(made[c] + 1))
  BY DEF PrepareObject, serverSide
<1>12. call'[c].at # "fetched" /\ OthersRest(c)
  BY <1>11, Moved DEF OthersRest, Waiting
<1>13. made' \in [Clients -> Nat] /\ Outboxes' /\ Receipts' /\ Matched'
  <2>1. db'[c].outbox = db[c].outbox \cup {OperationOf(db[c], made[c] + 1, "scope", S)}
    BY <1>1, <1>4, <1>8, <1>9, <1>10
  <2> QED
    BY <1>9, <1>10, <1>11, <2>1, OneOperationMore DEF StatesInv
<1>14. \A i \in Ids : Historical(i, db'[c].shadow[i])
  BY <1>1, <1>7, <1>8, <1>9, StateForms DEF Booked, WriteOnly
<1>15. Delivers(object'[c], call'[c])
  BY <1>11, <1>12, StateForms DEF Delivers
<1> QED
  BY <1>9, <1>11, <1>12, <1>13, <1>14, <1>15, StatesKept

LEMMA FetchStates ==
  ASSUME ObjectInv, StatesInv, NEW c \in Clients, FetchPage(c)
  PROVE  StatesInv'
<1>1. PICK after : after = IF Cursor(c) = None THEN 0 ELSE Cursor(c)
  OBVIOUS
<1>2. PICK h : h = ReconciledFeed(c)
  OBVIOUS
<1>3. PICK page : page = EventsPage(c, h.events, after)
  OBVIOUS
<1>4. Moves(c, Fetched(page, TRUE)) /\ UNCHANGED <<db, object, made, serverVars>>
  BY <1>1, <1>2, <1>3 DEF FetchPage, serverSide
<1>5. call'[c] = Fetched(page, TRUE) /\ OthersRest(c)
  BY <1>4, Moved DEF OthersRest
<1>6. ReplicaOk(db[c], made[c]) /\ RowsKept /\ h.events \in Seq(Ids)
  BY <1>2, ClientForms, FeedReconciled DEF ObjectInv, ServerOk, FeedOk
<1>7. after \in Nat
  BY <1>1, <1>6 DEF ReplicaOk, IsReplica, Cursor
<1>8. EventsOk(page, db[c])
  BY <1>3, <1>6, <1>7, PageRead DEF ReplicaOk
<1>9. ASSUME NEW n \in DOMAIN page.events
      PROVE  /\ page.events[n].id \in Ids
             /\ page.events[n].entity # None => page.events[n].entity = row[page.events[n].id]
  <2>1. page.events[n].id \in Ids
    BY <1>8 DEF EventsOk
  <2>2. \E i : page.events[n] = Event(c, i)
    BY <1>3 DEF EventsPage
  <2>3. \A i : /\ Event(c, i).id = i
               /\ Event(c, i).entity # None => Event(c, i).entity = row[i]
    BY DEF Event
  <2> QED
    BY <2>1, <2>2, <2>3
<1>10. \A i \in Ids : Historical(i, row[i])
  BY RowHistorical DEF StatesInv, ServerInv
<1>11. Delivers(object'[c], call'[c])
  <2>1. Fetched(page, TRUE).page = page
    BY DEF Fetched
  <2>2. PICK e : e = call'[c]
    OBVIOUS
  <2>3. e.page = page
    BY <1>5, <2>1, <2>2
  <2>4. ASSUME NEW n \in DOMAIN e.page.events
        PROVE  /\ e.page.events[n].id \in Ids
               /\ e.page.events[n].entity # None => Historical(e.page.events[n].id, e.page.events[n].entity)
    BY <1>9, <1>10, <2>3
  <2>5. \A i \in Ids : object[c].deferred[i] # None => Historical(i, object[c].deferred[i])
    BY StateForms DEF Delivers
  <2>6. object'[c] = object[c]
    BY <1>4
  <2> QED
    BY <2>2, <2>4, <2>5, <2>6 DEF Delivers
<1>12. AllReplicas' /\ OthersSame(c) /\ \A i \in Ids : Historical(i, db'[c].shadow[i])
  BY <1>4, StateForms DEF StatesInv, ReplicasInv, AllReplicas, OthersSame
<1> QED
  BY <1>4, <1>5, <1>11, <1>12, StatesQuiet

(* Steps of the server. *)
LEMMA StatesWait ==
  ASSUME StatesInv, Grown, UNCHANGED <<db, made, call, object>>, ServerInv', Receipts', Matched'
  PROVE  StatesInv'
<1>1. AllReplicas' /\ Shadows' /\ Outboxes' /\ made' \in [Clients -> Nat]
  BY ReplicasWait DEF StatesInv
<1>2. Typed' /\ Bounded'
  <2>1. Typed' /\ History'
    BY DEF ServerInv
  <2>2. Bounded'
    <3> SUFFICES ASSUME NEW i \in Ids, NEW n \in GroupsOf(i)'
                 PROVE  journal'[n][i].rev <= row'[i].rev
      BY DEF Bounded
    <3>1. PICK G : G = GroupsOf(i)'
      OBVIOUS
    <3>2. PICK T : T = Until(i, n)'
      OBVIOUS
    <3>3. T \subseteq G
      BY <3>1, <3>2 DEF Until
    <3>4. PICK L \in Nat : L = Len(journal)'
      BY DEF Grown
    <3>5. G \subseteq 1..L
      BY <3>1, <3>4 DEF GroupsOf, Sequence
    <3>6. IsFiniteSet(G)
      <4>1. 0 \in Int /\ 1 \in Int /\ L \in Int
        OBVIOUS
      <4>2. IsFiniteSet(1..L)
        BY <4>1, FS_Interval
      <4> QED
        BY <3>5, <4>2, FS_Subset
    <3>7. Cardinality(T) <= Cardinality(G)
      BY <3>3, <3>6, FS_Subset
    <3> QED
      BY <2>1, <3>1, <3>2, <3>7 DEF History
  <2> QED
    BY <2>1, <2>2
<1>3. ASSUME NEW k \in Clients
      PROVE  Delivers(object[k], call[k])'
  <2>1. Delivers(object'[k], call'[k])
    BY DEF StatesInv
  <2> QED
    BY <2>1, DeliversStay
<1> QED
  BY <1>1, <1>2, <1>3 DEF StatesInv, ReplicasInv

LEMMA WriteStates ==
  ASSUME StatesInv, ObjectWrite
  PROVE  StatesInv' /\ Grown
<1>1. ServerWrite /\ UNCHANGED <<db, call, made, object>>
  BY DEF ObjectWrite
<1>2. ServerInv' /\ Grown /\ receipts' = receipts
  BY <1>1, ServerWrites DEF StatesInv
<1>3. Receipts' /\ Matched'
  BY <1>1, <1>2, ReceiptsWait DEF StatesInv
<1> QED
  BY <1>1, <1>2, <1>3, StatesWait

LEMMA PushStates ==
  ASSUME StatesInv, NEW c \in Clients, ObjectPush(c)
  PROVE  StatesInv' /\ Grown /\ Step
<1>1. PICK op \in db[c].outbox :
        LET req == [key |-> <<c, op.number>>, muts |-> op.muts]
        IN IF Permitted(c, op.muts) \/ Receipted(req) THEN Push(req)
           ELSE /\ Answer(req, Result("rejected", [i \in {} |-> Absent]))
                /\ UNCHANGED <<row, journal, retained>>
  BY DEF ObjectPush
<1> DEFINE req == [key |-> <<c, op.number>>, muts |-> op.muts]
           result == Result("rejected", [i \in {} |-> Absent])
<1>2. UNCHANGED <<db, call, made, object>> /\ ReplicasInv /\ ServerInv /\ Typed
  BY DEF ObjectPush, StatesInv, ServerInv
<1>3. IsMutations(op.muts)
  BY <1>2 DEF ReplicasInv, Outboxes, OutboxOk
<1>4. CASE Push(req)
  <2>1. ServerInv' /\ Grown /\ Receipts' /\ Matched'
    BY <1>2, <1>4, OperationDelivered
  <2>2. Step
    <3>1. PICK x : x = req
      OBVIOUS
    <3>2. x.muts = op.muts /\ Push(x)
      BY <1>4, <3>1
    <3>3. AcceptStep(x) \/ (\E y : RefuseStep(x, y)) \/ \E r : RepeatStep(r)
      BY <1>2, <1>3, <3>2, PushForms
    <3> QED
      BY <3>3 DEF Step
  <2> QED
    BY <1>2, <2>1, <2>2, StatesWait
<1>5. CASE ~Receipted(req) /\ Answer(req, result) /\ UNCHANGED <<row, journal, retained>>
  <2>1. /\ result.kind = "rejected" /\ DOMAIN result.entities = {}
        /\ result.entities = [i \in DOMAIN result.entities |-> result.entities[i]]
    BY DEF Result
  <2>2. req.muts = op.muts /\ req.key = <<c, op.number>>
    OBVIOUS
  <2>3. Answer(req, result) /\ ~Receipted(req)
    BY <1>5
  <2> HIDE DEF result, req
  <2>4. RefuseStep(req, result)
    BY <1>3, <1>5, <2>1, <2>2, <2>3 DEF RefuseStep
  <2>5. Step
    BY <2>4 DEF Step
  <2>6. ServerInv' /\ Grown
    BY <1>2, <2>5, ServerInvInductive
  <2>7. HistoricalGroup(result.entities)'
    BY <2>1 DEF HistoricalGroup
  <2>8. receipts' = receipts \cup {[key |-> <<c, op.number>>, muts |-> op.muts, result |-> result]}
    BY <2>2, <2>3 DEF Answer
  <2>9. /\ result.kind \in {"accepted", "conflict", "rejected"}
        /\ \A i \in DOMAIN op.muts \cap DOMAIN result.entities :
             result.entities[i].rev >= op.muts[i].base
    BY <2>1
  <2>10. Receipts' /\ Matched'
    BY <1>2, <2>6, <2>7, <2>8, <2>9, OneReceiptMore
  <2> QED
    BY <1>2, <2>5, <2>6, <2>10, StatesWait
<1> QED
  BY <1>1, <1>4, <1>5

LEMMA GrantStates ==
  ASSUME StatesInv, UNCHANGED <<serverVars, db, made, call, object>>
  PROVE  StatesInv'
<1>1. Grown
  BY ServerSilent DEF StatesInv, ReplicasInv
<1>2. ServerInv'
  BY ServerInvInductive DEF StatesInv, ServerInv, Step
<1>3. Receipts' /\ Matched'
  BY <1>1, ReceiptsWait DEF StatesInv, serverVars
<1> QED
  BY <1>1, <1>2, <1>3, StatesWait

-----------------------------------------------------------------------------
(* The beginning.                                                          *)

LEMMA SameUnchanged ==
  ASSUME NEW d, NEW i \in Ids, d.local[i] \in RowOf(i), d.local[i] = ShadowRow(d, i)
  PROVE  ~Changed(d, i)
<1>1. PICK r : r = d.local[i] /\ r \in RowOf(i) /\ ShadowRow(d, i) = r
  OBVIOUS
<1>2. CASE r = None
  BY <1>1, <1>2 DEF Changed, PatchRow
<1>3. CASE r # None
  <2>1. PatchRow(i, r, r) = [f \in {} |-> r.data[f]]
    BY <1>3 DEF PatchRow
  <2>2. PICK p : p = PatchRow(i, r, r)
    OBVIOUS
  <2>3. p # None /\ DOMAIN p = {}
    <3>1. [f \in {} |-> r.data[f]] \in [{} -> FieldValue]
      OBVIOUS
    <3>2. p \in Patch
      BY <2>1, <2>2, <3>1 DEF Patch
    <3> QED
      BY <2>1, <2>2, <3>2, DataAssumption
  <2> QED
    BY <1>1, <1>3, <2>2, <2>3 DEF Changed
<1> QED
  BY <1>2, <1>3

LEMMA DownloadedForms ==
  /\ Replica(Downloaded) /\ Downloaded.outbox = {} /\ Downloaded.cursor["scope"] = None
  /\ \A i \in Ids : /\ Downloaded.shadow[i] = IF i \in DOMAIN Seed THEN SeedGroup[i] ELSE Absent
                    /\ Downloaded.local[i] = IF i \in DOMAIN Seed THEN SeedGroup[i] ELSE None
  /\ \A i \in Ids : ~Changed(Downloaded, i)
<1>1. PICK a : a = EmptyDatabase
  OBVIOUS
<1>2. /\ Replica(a) /\ a.outbox = {} /\ a.deleting = {} /\ a.cursor["scope"] = None
      /\ \A i \in Ids : a.local[i] = None /\ a.shadow[i] = Absent /\ a.conflict[i] = None
  BY <1>1, EmptyReplica, Keyless DEF EmptyDatabase
<1>3. PICK U : U = Reconcile(a, SeedGroup)
  OBVIOUS
<1>4. \A i \in DOMAIN Seed : SeedGroup[i] \in EntityOf(i) /\ SeedGroup[i].data # None /\ SeedGroup[i].rev = 1
  BY SeedForms
<1>5. DOMAIN U = DOMAIN Seed
  <2>1. DOMAIN U = {i \in DOMAIN SeedGroup : \/ SeedGroup[i].rev > a.shadow[i].rev
                                             \/ SeedGroup[i].rev = a.shadow[i].rev /\ Retryable(a, i)}
    BY <1>3 DEF Reconcile
  <2>2. DOMAIN SeedGroup = DOMAIN Seed /\ DOMAIN Seed \subseteq Ids
    BY SeedForms
  <2>3. \A i \in DOMAIN Seed : SeedGroup[i].rev > a.shadow[i].rev
    BY <1>2, <1>4, <2>2 DEF Absent
  <2> QED
    BY <2>1, <2>2, <2>3
<1>6. ASSUME NEW i \in DOMAIN Seed
      PROVE  UpdateOk(i, U[i]) /\ U[i].remote = SeedGroup[i] /\ U[i].merged = SeedGroup[i]
  <2>1. U[i] = Reconciled(a, i, ReceiveBase(a, i), SeedGroup[i])
    <3>1. i \in DOMAIN U
      BY <1>5
    <3> QED
      BY <1>3, <3>1 DEF Reconcile
  <2>2. i \in Ids
    BY SeedForms
  <2>3. UpdateOk(i, U[i]) /\ U[i].remote = SeedGroup[i]
    BY <1>2, <1>4, <2>1, <2>2, ReconciledOk
  <2>4. ReceiveBase(a, i) = None /\ ~LocallyDeleted(a, i)
    BY <1>2, <2>2 DEF ReceiveBase, Retryable, LocallyDeleted, ShadowRow, RecordOf, Live, Absent
  <2>5. RecordOf(SeedGroup[i]) = SeedGroup[i] /\ SeedGroup[i] # None
    BY <1>4, <2>2, EntityIsRow
  <2>6. MergeRow(None, None, SeedGroup[i]).row = SeedGroup[i]
    BY <2>5 DEF MergeRow, Outcome
  <2>7. U[i].merged = SeedGroup[i]
    BY <1>2, <2>1, <2>2, <2>4, <2>5, <2>6 DEF Reconciled
  <2> QED
    BY <2>3, <2>7
<1>7. PICK b : b = ApplyUpdates(a, U)
  OBVIOUS
<1>8. /\ Replica(b) /\ b.outbox = {} /\ b.cursor["scope"] = None
      /\ \A i \in Ids : b.shadow[i] = IF i \in DOMAIN Seed THEN SeedGroup[i] ELSE Absent
  BY <1>2, <1>5, <1>6, <1>7, SeedForms, UpdatesApplied
<1>9. \A i \in Ids : b.local[i] = IF i \in DOMAIN Seed THEN SeedGroup[i] ELSE None
  <2>1. DOMAIN Protected(a, U) = {}
    BY Keyless DEF Protected
  <2>2. PICK V : V = Joined(Protected(a, U), U)
    OBVIOUS
  <2>3. DOMAIN V = DOMAIN Seed /\ \A i \in DOMAIN Seed : V[i] = U[i]
    BY <1>5, <2>1, <2>2 DEF Joined
  <2>4. RefsPresent([i \in Ids |-> IF i \in DOMAIN V THEN V[i].merged ELSE a.local[i]])
    BY Keyless DEF RefsPresent
  <2>5. b.local = [i \in Ids |-> IF i \in DOMAIN V THEN V[i].merged ELSE a.local[i]]
    BY <1>2, <1>7, <2>2, <2>4 DEF ApplyUpdates, Replica, IsDatabase
  <2> QED
    BY <1>2, <1>6, <2>3, <2>5
<1>10. PICK e : e = Tidied(b)
  OBVIOUS
<1>11. Replica(e) /\ e.local = b.local /\ WriteOnly(b, e)
  BY <1>8, <1>10, TidiedForms
<1>12. e = Downloaded
  BY <1>1, <1>3, <1>7, <1>10 DEF Downloaded, ApplyGroup
<1>13. ASSUME NEW i \in Ids
       PROVE  ~Changed(e, i)
  <2>1. e.local[i] \in RowOf(i) /\ e.shadow[i] \in EntityOf(i)
    BY <1>11 DEF Replica, Fit
  <2>2. e.local[i] = ShadowRow(e, i)
    <3>1. CASE i \in DOMAIN Seed
      <4>1. e.local[i] = SeedGroup[i] /\ e.shadow[i] = SeedGroup[i]
        BY <1>8, <1>9, <1>11, <3>1 DEF WriteOnly
      <4> QED
        BY <1>4, <3>1, <4>1 DEF ShadowRow, RecordOf, Live
    <3>2. CASE i \notin DOMAIN Seed
      BY <1>8, <1>9, <1>11, <3>2 DEF WriteOnly, ShadowRow, RecordOf, Live, Absent
    <3> QED
      BY <3>1, <3>2
  <2> QED
    BY <2>1, <2>2, SameUnchanged
<1> QED
  BY <1>8, <1>9, <1>11, <1>12, <1>13 DEF WriteOnly

LEMMA InitialReplicas ==
  ASSUME NEW d \in {EmptyDatabase} \cup UpgradedDatabases
  PROVE  /\ Replica(d) /\ d.outbox = {} /\ d.cursor["scope"] = None
         /\ \A i \in Ids : d.shadow[i] = Absent \/ (i \in DOMAIN Seed /\ d.shadow[i] = SeedGroup[i])
<1>1. CASE d = EmptyDatabase
  <2>1. PICK a : a = EmptyDatabase
    OBVIOUS
  <2>2. /\ Replica(a) /\ a.outbox = {} /\ a.cursor["scope"] = None
        /\ \A i \in Ids : a.shadow[i] = Absent
    BY <2>1, EmptyReplica, Keyless DEF EmptyDatabase
  <2> QED
    BY <1>1, <2>1, <2>2
<1>2. PICK y : y = Downloaded
  OBVIOUS
<1>3. /\ Replica(y) /\ y.outbox = {} /\ IsDatabase(y) /\ y.cursor["scope"] = None
      /\ \A i \in Ids : /\ y.shadow[i] = IF i \in DOMAIN Seed THEN SeedGroup[i] ELSE Absent
                        /\ y.local[i] = IF i \in DOMAIN Seed THEN SeedGroup[i] ELSE None
                        /\ ~Changed(y, i)
  BY <1>2, DownloadedForms DEF Replica
<1>4. CASE d = Downloaded
  BY <1>2, <1>3, <1>4
<1>5. CASE d # EmptyDatabase /\ d # Downloaded
  <2>1. PICK i \in DOMAIN Seed :
          d \in {[Downloaded EXCEPT !.local[i].data = data, !.dirty = {i}] :
                  data \in DataOf(i) \ {Seed[i]}}
    BY <1>5 DEF UpgradedDatabases
  <2>2. PICK data \in DataOf(i) : d = [Downloaded EXCEPT !.local[i].data = data, !.dirty = {i}]
    BY <2>1
  <2>3. i \in Ids /\ y.local[i] = SeedGroup[i] /\ SeedGroup[i] = [rev |-> 1, data |-> Seed[i]]
    BY <1>3, SeedForms
  <2>4. PICK r : r = [rev |-> 1, data |-> data]
    OBVIOUS
  <2>5. d = [y EXCEPT !.local[i].data = data, !.dirty = {i}]
    BY <1>2, <2>2
  <2>6. /\ d = [local |-> d.local, shadow |-> d.shadow, dirty |-> d.dirty, deleting |-> d.deleting,
                conflict |-> d.conflict, outbox |-> d.outbox, cursor |-> d.cursor, reset |-> d.reset]
        /\ d.local = [y.local EXCEPT ![i].data = data] /\ d.shadow = y.shadow /\ d.dirty = {i}
        /\ d.deleting = y.deleting /\ d.conflict = y.conflict /\ d.outbox = y.outbox /\ d.cursor = y.cursor
    BY <1>3, <2>5 DEF IsDatabase
  <2>7. \A k \in Ids : d.local[k] = IF k = i THEN r ELSE y.local[k]
    BY <1>3, <2>3, <2>4, <2>6 DEF IsDatabase
  <2>8. d.local = [k \in Ids |-> d.local[k]]
    BY <1>3, <2>6 DEF IsDatabase
  <2>9. r \in RowOf(i)
    BY <2>3, <2>4, RowIntro
  <2>10. IsDatabase(d)
    BY <1>3, <2>6, <2>8 DEF IsDatabase
  <2>11. Fit(d)
    <3>1. \A k \in Ids : d.local[k] \in RowOf(k) /\ d.shadow[k] \in EntityOf(k) /\ IsConflict(k, d.conflict[k])
      BY <1>3, <2>6, <2>7, <2>9 DEF Replica, Fit
    <3>2. RefsPresent(d.local)
      BY Keyless DEF RefsPresent
    <3> QED
      BY <1>3, <2>3, <2>6, <3>1, <3>2 DEF Replica, Fit
  <2>12. Tracked(d)
    <3> SUFFICES ASSUME NEW k \in Ids, Changed(d, k)
                 PROVE  k = i
      BY <2>6 DEF Tracked
    <3> QED
      BY <1>3, <2>6, <2>7, ChangedSame
  <2> QED
    BY <1>3, <2>6, <2>10, <2>11, <2>12 DEF Replica
<1> QED
  BY <1>1, <1>4, <1>5 DEF UpgradedDatabases

LEMMA StatesInitially ==
  ASSUME ObjectInit
  PROVE  StatesInv
<1>1. SeededServer
  BY DEF ObjectInit, SeededServer
<1>2. /\ \A i \in Ids : GroupsOf(i) = IF i \in DOMAIN Seed THEN {1} ELSE {}
      /\ \A i \in DOMAIN Seed : journal[1][i] = SeedGroup[i]
      /\ ServerInv
  BY <1>1, SeededHistory
<1>3. Typed /\ Bounded
  BY <1>2, HistoryBounds DEF ServerInv
<1>4. ASSUME NEW c \in Clients
      PROVE  /\ Replica(db[c]) /\ db[c].outbox = {}
             /\ \A i \in Ids : Historical(i, db[c].shadow[i])
             /\ Delivers(object[c], call[c])
  <2>1. /\ Replica(db[c]) /\ db[c].outbox = {}
        /\ \A i \in Ids : db[c].shadow[i] = Absent \/ (i \in DOMAIN Seed /\ db[c].shadow[i] = SeedGroup[i])
    BY InitialReplicas DEF ObjectInit
  <2>2. \A i \in Ids : Historical(i, db[c].shadow[i])
    BY <1>2, <2>1 DEF Historical
  <2>3. PICK S : object[c] = NothingKnown(S)
    BY DEF ObjectInit
  <2>4. \A i \in Ids : object[c].deferred[i] = None
    BY <2>3 DEF NothingKnown
  <2>5. call[c].at # "fetched"
    BY DEF ObjectInit, Resting
  <2> QED
    BY <2>1, <2>2, <2>4, <2>5 DEF Delivers
<1>5. AllReplicas
  BY <1>4 DEF AllReplicas, ObjectInit
<1>6. Shadows
  BY <1>4 DEF Shadows
<1>7. Outboxes /\ Matched /\ Receipts
  BY <1>4 DEF Outboxes, OutboxOk, Matched, Receipts, ObjectInit
<1>8. made \in [Clients -> Nat]
  BY DEF ObjectInit
<1> QED
  BY <1>2, <1>3, <1>4, <1>5, <1>6, <1>7, <1>8 DEF StatesInv, ReplicasInv

LEMMA StatesInductive ==
  ASSUME ObjectInv, StatesInv, [ObjectNext]_objectVars
  PROVE  StatesInv'
<1>1. CASE UNCHANGED objectVars
  BY <1>1, GrantStates DEF objectVars, systemVars, serverVars
<1>2. CASE Grant
  BY <1>2, GrantStates DEF Grant, systemVars, serverVars
<1>3. ASSUME NEW c \in Clients, EngineCycle(c)
      PROVE  StatesInv'
  BY <1>3, DrainStates, MoveStates, PrepareStates, SkipStates, SettleStates, AccessStates,
     WithoutStateStates, FetchStates, ApplyPageStates DEF EngineCycle
<1> QED
  BY <1>1, <1>2, <1>3, WriteStates, EditStates, PushStates, AccessStates, DiscardStates
  DEF ObjectNext

LEMMA StatesAlways == ObjectSpec => []StatesInv
<1>1. ObjectInit => StatesInv
  BY StatesInitially
<1>2. ObjectInv /\ StatesInv /\ [ObjectNext]_objectVars => StatesInv'
  BY StatesInductive
<1> QED
  BY <1>1, <1>2, ObjectAlways, PTL DEF ObjectSpec

-----------------------------------------------------------------------------
(* What a client remembers of the events it has read.                      *)

(* The client has read every event of object i. *)
ToldOf(d, h, i) ==
  /\ h.seen[i] # None
  /\ \A n \in DOMAIN h.events : h.events[n] = i =>
       d.cursor["scope"] # None /\ n <= d.cursor["scope"]

Statuses == {"active", "review", "revoked", "deleted", "discarded"}

Accesses == [rights : SUBSET Rights, status : Statuses]

(* It has the state it was told of, or a later one, or that state waits. *)
RecallsState(d, o, v, i) ==
  \/ Tombstone(row[i])
  \/ /\ o.access[i] \in Accesses /\ "read" \in o.access[i].rights
     /\ \/ d.shadow[i].rev >= v.rev
        \/ o.deferred[i] # None /\ o.deferred[i].rev >= v.rev

(* Nothing is left of the object that was given up. *)
GivenUp(d, i) == d.local[i] = None /\ d.conflict[i] = None /\ i \notin Submitted(d)

(* It knows that the object was taken away, whatever an answer disclosed   *)
(* since.                                                                  *)
RecallsEnd(d, o, i) ==
  /\ o.access[i] \in Accesses /\ o.access[i].rights \subseteq {"read"} /\ o.deferred[i] = None
  /\ \/ o.access[i].status = "revoked"
     \/ o.access[i].status = "deleted" /\ "read" \notin o.access[i].rights /\ Tombstone(row[i])
     \/ o.access[i].status = "discarded" /\ GivenUp(d, i)

Recalls(d, o, v, i) == IF v.status = "active" THEN RecallsState(d, o, v, i) ELSE RecallsEnd(d, o, i)

Visibilities == [status : {"active", "revoked", "deleted"}, rev : Nat, rights : SUBSET Rights]

(* What the feed has seen of an object, it has an event of. *)
SeenOk(h, i) ==
  LET v == h.seen[i]
  IN /\ v = None => \A n \in DOMAIN h.events : h.events[n] # i
     /\ v # None =>
          /\ v \in Visibilities
          /\ IF v.status = "active" THEN "read" \in v.rights ELSE v.rights = {}
          /\ row[i].rev > 0
          /\ v.status = "deleted" => Tombstone(row[i])
          /\ \E n \in DOMAIN h.events : h.events[n] = i

(* The page tells what the feed has seen. *)
FetchedOk(e, h) ==
  e.at = "fetched" =>
    /\ e.page.after \in Nat /\ e.page.next \in e.page.after..Len(h.events)
    /\ DOMAIN e.page.events = 1..(e.page.next - e.page.after)
    /\ \A n \in DOMAIN e.page.events :
         LET x == e.page.events[n]
             v == h.seen[x.id]
         IN /\ x.id = h.events[e.page.after + n]
            /\ v # None /\ x.status = v.status /\ x.rights = v.rights
            /\ IF v.status = "active" THEN x.entity # None /\ x.entity.rev = v.rev
               ELSE x.entity = None

(* The entities that an answer is about to disclose. *)
Disclosed(e) ==
  IF e.at = "replied" /\ ~e.withheld THEN e.result.entities
  ELSE IF e.at = "settled" THEN e.entities ELSE [i \in {} |-> Absent]

DisclosedOk(e, d, o, h) ==
  \A i \in Ids \cap DOMAIN Disclosed(e) :
    IF Live(Disclosed(e)[i])
    THEN ToldOf(d, h, i) /\ h.seen[i].status # "active" => o.access[i].status # "deleted"
    ELSE h.seen[i] # None => Tombstone(row[i])

CursorIn(d, h) == d.cursor["scope"] # None => d.cursor["scope"] \in 0..Len(h.events)

Fed(d, o, e, h) ==
  /\ CursorIn(d, h) /\ FetchedOk(e, h) /\ DisclosedOk(e, d, o, h)
  /\ \A i \in Ids : SeenOk(h, i) /\ (ToldOf(d, h, i) => Recalls(d, o, h.seen[i], i))

FeedInv == \A c \in Clients : Fed(db[c], object[c], call[c], feed[c])

-----------------------------------------------------------------------------
(* Steps that leave it.                                                    *)

(* Rows are not forgotten, and do not come back. *)
RowsPersist ==
  \A i \in Ids : /\ row[i].rev > 0 => row'[i].rev > 0
                 /\ Tombstone(row[i]) => Tombstone(row'[i])

LEMMA FedStays ==
  ASSUME RowsPersist, NEW k \in Clients, Fed(db'[k], object'[k], call'[k], feed'[k])
  PROVE  Fed(db[k], object[k], call[k], feed[k])'
<1> DEFINE d == db'[k]
           o == object'[k]
           e == call'[k]
           h == feed'[k]
<1>1. CursorIn(db[k], feed[k])' /\ FetchedOk(call[k], feed[k])'
  BY DEF Fed, CursorIn, FetchedOk
<1>2. \A i \in Ids : Tombstone(row[i]) => Tombstone(row[i])'
  BY DEF RowsPersist, Tombstone, Live
<1>3. DisclosedOk(call[k], db[k], object[k], feed[k])'
  <2> SUFFICES ASSUME NEW i \in Ids, i \in DOMAIN Disclosed(e)
               PROVE  IF Live(Disclosed(e)[i])
                      THEN ToldOf(d, h, i) /\ h.seen[i].status # "active" => o.access[i].status # "deleted"
                      ELSE h.seen[i] # None => Tombstone(row[i])'
    BY DEF DisclosedOk, Disclosed, Live, ToldOf
  <2>1. DisclosedOk(e, d, o, h)
    BY DEF Fed
  <2> HIDE DEF d, o, e, h
  <2> QED
    BY <1>2, <2>1 DEF DisclosedOk
<1>4. ASSUME NEW i \in Ids
      PROVE  SeenOk(feed[k], i)' /\ (ToldOf(db[k], feed[k], i)' => Recalls(db[k], object[k], feed[k].seen[i], i)')
  <2>1. SeenOk(h, i) /\ (ToldOf(d, h, i) => Recalls(d, o, h.seen[i], i))
    BY DEF Fed
  <2>2. SeenOk(feed[k], i)'
    BY <1>2, <2>1 DEF SeenOk, RowsPersist
  <2>3. ASSUME Recalls(d, o, h.seen[i], i)
        PROVE  Recalls(db[k], object[k], feed[k].seen[i], i)'
    BY <1>2, <2>3 DEF Recalls, RecallsState, RecallsEnd, GivenUp, Submitted
  <2> QED
    BY <2>1, <2>2, <2>3 DEF ToldOf
<1> QED
  BY <1>1, <1>3, <1>4 DEF Fed

(* A step of client c. *)
LEMMA FedKept ==
  ASSUME FeedInv, UNCHANGED row, NEW c \in Clients,
         \A k \in Clients \ {c} : /\ db'[k] = db[k] /\ object'[k] = object[k]
                                  /\ call'[k] = call[k] /\ feed'[k] = feed[k],
         Fed(db'[c], object'[c], call'[c], feed'[c])
  PROVE  FeedInv'
<1>1. RowsPersist
  BY DEF RowsPersist
<1>2. ASSUME NEW k \in Clients
      PROVE  Fed(db[k], object[k], call[k], feed[k])'
  <2>1. Fed(db'[k], object'[k], call'[k], feed'[k])
    BY DEF FeedInv
  <2> QED
    BY <1>1, <2>1, FedStays
<1> QED
  BY <1>2 DEF FeedInv

Discreet(e) == e.at \notin {"fetched", "replied", "settled"}

(* A step that keeps what was remembered. *)
LEMMA FedRecalls ==
  ASSUME NEW d, NEW o, NEW e, NEW h, Fed(d, o, e, h), NEW d2, NEW o2, NEW e2,
         d2.cursor["scope"] = d.cursor["scope"],
         \/ Discreet(e2)
         \/ e2 = e /\ \A i \in Ids : o2.access[i] = o.access[i] \/ o2.access[i].status # "deleted",
         \A i \in Ids : ToldOf(d, h, i) /\ Recalls(d, o, h.seen[i], i) => Recalls(d2, o2, h.seen[i], i)
  PROVE  Fed(d2, o2, e2, h)
<1>1. \A i \in Ids : ToldOf(d2, h, i) <=> ToldOf(d, h, i)
  BY DEF ToldOf
<1>2. CursorIn(d2, h)
  BY DEF Fed, CursorIn
<1>3. FetchedOk(e2, h)
  BY DEF Fed, FetchedOk, Discreet
<1>4. DisclosedOk(e2, d2, o2, h)
  <2>1. CASE Discreet(e2)
    <3>1. DOMAIN Disclosed(e2) = {}
      BY <2>1 DEF Disclosed, Discreet
    <3> QED
      BY <3>1 DEF DisclosedOk
  <2>2. CASE e2 = e /\ \A i \in Ids : o2.access[i] = o.access[i] \/ o2.access[i].status # "deleted"
    BY <1>1, <2>2 DEF Fed, DisclosedOk
  <2> QED
    BY <2>1, <2>2
<1> QED
  BY <1>1, <1>2, <1>3, <1>4 DEF Fed

LEMMA FeedStep ==
  ASSUME FeedInv, UNCHANGED <<row, feed>>, NEW c \in Clients, OthersSame(c), OthersRest(c),
         Fed(db'[c], object'[c], call'[c], feed[c])
  PROVE  FeedInv'
BY FedKept DEF OthersSame, OthersRest

(* Steps that only recall as much as before. *)
LEMMA RecallsStep ==
  ASSUME FeedInv, UNCHANGED <<row, feed>>, NEW c \in Clients, OthersSame(c), OthersRest(c),
         db'[c].cursor["scope"] = db[c].cursor["scope"],
         \/ Discreet(call'[c])
         \/ /\ call'[c] = call[c]
            /\ \A i \in Ids : \/ object'[c].access[i] = object[c].access[i]
                              \/ object'[c].access[i].status # "deleted",
         \A i \in Ids : ToldOf(db[c], feed[c], i) /\ Recalls(db[c], object[c], feed[c].seen[i], i)
                          => Recalls(db'[c], object'[c], feed[c].seen[i], i)
  PROVE  FeedInv'
<1>1. Fed(db[c], object[c], call[c], feed[c])
  BY DEF FeedInv
<1>2. Fed(db'[c], object'[c], call'[c], feed[c])
  BY <1>1, FedRecalls
<1> QED
  BY <1>2, FeedStep

(* What a client remembers of an object does not depend on the others. *)
LEMMA RecallsSame ==
  ASSUME NEW d, NEW o, NEW v, NEW i \in Ids, Recalls(d, o, v, i), NEW d2, NEW o2,
         o2.access[i] = o.access[i], o2.deferred[i] = o.deferred[i],
         d2.shadow[i] = d.shadow[i],
         o.access[i] \in Accesses /\ o.access[i].status = "discarded" /\ GivenUp(d, i) => GivenUp(d2, i)
  PROVE  Recalls(d2, o2, v, i)
BY DEF Recalls, RecallsState, RecallsEnd

(* A write of the application touches one row. *)
LEMMA EditTouches ==
  ASSUME ObjectInv, StatesInv, NEW c \in Clients, NEW i \in Ids,
         \/ \E data : Insert(c, i, data) \/ Update(c, i, data)
         \/ Delete(c, i)
         \/ \E data : Resolve(c, i, data)
  PROVE  \A k \in Ids \ {i} : /\ db'[c].local[k] = db[c].local[k]
                              /\ db'[c].conflict[k] = db[c].conflict[k]
<1>1. PICK d : d = db[c]
  OBVIOUS
<1>2. IsDatabase(d) /\ db = [k \in Clients |-> db[k]]
  BY <1>1, StateForms DEF Replica, ObjectInv, PerClient
<1>3. ASSUME NEW local, NEW conflict, NEW deleting, NEW dirty,
             db' = [db EXCEPT ![c] = [d EXCEPT !.local = local, !.deleting = deleting,
                                               !.conflict = conflict, !.dirty = dirty]]
      PROVE  db'[c].local = local /\ db'[c].conflict = conflict
  <2>1. PICK e : e = [d EXCEPT !.local = local, !.deleting = deleting, !.conflict = conflict, !.dirty = dirty]
    OBVIOUS
  <2>2. e.local = local /\ e.conflict = conflict
    BY <1>2, <2>1 DEF IsDatabase
  <2> QED
    BY <1>2, <1>3, <2>1, <2>2
<1>4. ASSUME NEW r, Save(c, i, r)
      PROVE  db'[c].local = [d.local EXCEPT ![i] = r] /\ db'[c].conflict = d.conflict
  <2>1. db' = [db EXCEPT ![c] = [d EXCEPT !.local = [d.local EXCEPT ![i] = r], !.deleting = d.deleting \ {i},
                                    !.conflict = d.conflict, !.dirty = d.dirty \cup {i}]]
    BY <1>1, <1>2, <1>4 DEF Save, IsDatabase
  <2> QED
    BY <1>3, <2>1
<1>5. CASE \E data : Insert(c, i, data) \/ Update(c, i, data)
  <2>1. \E r : Save(c, i, r)
    BY <1>5 DEF Insert, Update
  <2> QED
    BY <1>1, <1>2, <1>4, <2>1 DEF IsDatabase
<1>6. CASE Delete(c, i)
  <2> DEFINE deps == IF i \in Parents THEN Dependents(d, i) ELSE {}
             gone == {i} \cup {k \in deps : OnDelete[k] = "cascade"}
             rows == [k \in Ids |-> IF k \in gone THEN None
                                    ELSE IF k \in deps THEN [d.local[k] EXCEPT !.data["ref"] = None]
                                    ELSE d.local[k]]
             clashes == [k \in Ids |-> IF k \in gone /\ Retryable(d, k) THEN None ELSE d.conflict[k]]
  <2>1. db' = [db EXCEPT ![c].local = rows, ![c].deleting = @ \cup gone,
                         ![c].conflict = clashes, ![c].dirty = @ \cup gone \cup deps]
    BY <1>1, <1>2, <1>6 DEF Delete, IsDatabase
  <2>2. deps = {}
    BY Keyless DEF Dependents
  <2>3. \A k \in Ids \ {i} : rows[k] = d.local[k] /\ clashes[k] = d.conflict[k]
    BY <2>2
  <2> HIDE DEF rows, clashes, gone, deps
  <2>4. db' = [db EXCEPT ![c] = [d EXCEPT !.local = rows, !.deleting = d.deleting \cup gone,
                                   !.conflict = clashes, !.dirty = d.dirty \cup gone \cup deps]]
    BY <1>1, <1>2, <2>1 DEF IsDatabase
  <2>5. db'[c].local = rows /\ db'[c].conflict = clashes
    BY <1>3, <2>4
  <2> QED
    BY <1>1, <2>3, <2>5
<1>7. ASSUME NEW data, Resolve(c, i, data)
      PROVE  \A k \in Ids \ {i} : db'[c].local[k] = d.local[k] /\ db'[c].conflict[k] = d.conflict[k]
  <2>1. PICK r : r = IF data = None THEN None ELSE [rev |-> d.shadow[i].rev, data |-> data]
    OBVIOUS
  <2>2. PICK deleting : deleting = IF r = None THEN d.deleting \cup {i} ELSE d.deleting \ {i}
    OBVIOUS
  <2>3. db' = [db EXCEPT ![c] = [d EXCEPT !.local = [d.local EXCEPT ![i] = r], !.deleting = deleting,
                                   !.conflict = [d.conflict EXCEPT ![i] = None], !.dirty = d.dirty \cup {i}]]
    BY <1>1, <1>2, <1>7, <2>1, <2>2 DEF Resolve, IsDatabase
  <2>4. /\ db'[c].local = [d.local EXCEPT ![i] = r]
        /\ db'[c].conflict = [d.conflict EXCEPT ![i] = None]
    BY <1>3, <2>3
  <2> QED
    BY <1>2, <2>4 DEF IsDatabase
<1> QED
  BY <1>1, <1>5, <1>6, <1>7

LEMMA EditFed ==
  ASSUME ObjectInv, StatesInv, FeedInv, NEW c \in Clients, ObjectEdit(c)
  PROVE  FeedInv'
<1>1. UNCHANGED <<row, feed, object, call>>
  BY DEF ObjectEdit, serverSide, serverVars
<1>2. PICK i \in Ids :
        \/ CanSend(object[c], i, "change") /\ \E data \in DataOf(i) : Insert(c, i, data) \/ Update(c, i, data)
        \/ CanSend(object[c], i, "delete") /\ Delete(c, i)
        \/ \E data \in DataOf(i) \cup {None} : Resolve(c, i, data)
  BY DEF ObjectEdit
<1>3. AllReplicas' /\ OthersSame(c) /\ WriteOnly(db[c], db'[c])
  BY <1>2, EditApplied DEF StatesInv, ReplicasInv
<1>4. \A k \in Ids \ {i} : /\ db'[c].local[k] = db[c].local[k]
                           /\ db'[c].conflict[k] = db[c].conflict[k]
  BY <1>2, EditTouches
<1>5. object[c].access[i] \in Accesses /\ object[c].access[i].status = "discarded" => db[c].conflict[i] # None
  <2> SUFFICES ASSUME object[c].access[i] \in Accesses, object[c].access[i].status = "discarded",
                      NEW right, CanSend(object[c], i, right)
               PROVE  FALSE
    BY <1>2 DEF Resolve
  <2>1. object[c].access[i] # None
    BY ObjectAssumption DEF Accesses, Rights, Statuses
  <2> QED
    BY <2>1 DEF CanSend
<1>6. Submitted(db'[c]) = Submitted(db[c]) /\ db'[c].cursor = db[c].cursor
  BY <1>3 DEF WriteOnly, Submitted
<1>7. ASSUME NEW k \in Ids, Recalls(db[c], object[c], feed[c].seen[k], k)
      PROVE  Recalls(db'[c], object'[c], feed[c].seen[k], k)
  <2>1. db'[c].shadow[k] = db[c].shadow[k]
    BY <1>3 DEF WriteOnly
  <2>2. object[c].access[k] \in Accesses /\ object[c].access[k].status = "discarded" /\ GivenUp(db[c], k)
          => GivenUp(db'[c], k)
    BY <1>4, <1>5, <1>6 DEF GivenUp
  <2> QED
    BY <1>1, <1>7, <2>1, <2>2, RecallsSame
<1>8. OthersRest(c)
  BY <1>1 DEF OthersRest
<1> QED
  BY <1>1, <1>3, <1>6, <1>7, <1>8, RecallsStep

(* Steps that move the cycle. *)
LEMMA MoveFed ==
  ASSUME ObjectInv, StatesInv, FeedInv, NEW c \in Clients, Resubmit(c) \/ Interrupt(c)
  PROVE  FeedInv'
<1>1. UNCHANGED <<row, feed, object, db>>
  BY DEF Resubmit, Interrupt, serverSide, serverVars
<1>2. \E e : Moves(c, e) /\ Discreet(e)
  <2>1. Discreet(Resting) /\ \A n : Discreet(Waiting(n))
    BY DEF Resting, Waiting, Discreet
  <2>2. \/ Moves(c, Resting)
        \/ \E n : Moves(c, Waiting(n))
    BY DEF Resubmit, Interrupt
  <2> QED
    BY <2>1, <2>2
<1>3. Discreet(call'[c]) /\ OthersRest(c)
  BY <1>1, <1>2, Moved DEF OthersRest
<1>4. OthersSame(c)
  BY <1>1 DEF OthersSame
<1> QED
  BY <1>1, <1>3, <1>4, RecallsStep

LEMMA SkipFed ==
  ASSUME ObjectInv, StatesInv, FeedInv, NEW c \in Clients, SkipObject(c)
  PROVE  FeedInv'
<1>1. UNCHANGED <<row, feed, object>> /\ Moves(c, Ending) /\ Discreet(Ending)
  BY DEF SkipObject, serverSide, serverVars, Ending, Discreet
<1>2. Discreet(call'[c]) /\ OthersRest(c)
  BY <1>1, Moved DEF OthersRest
<1>3. CASE UNCHANGED db
  <2>1. OthersSame(c)
    BY <1>3 DEF OthersSame
  <2> QED
    BY <1>1, <1>2, <1>3, <2>1, RecallsStep
<1>4. CASE db' = [db EXCEPT ![c] = Tidied(db[c])]
  <2>1. PICK e : e = Tidied(db[c])
    OBVIOUS
  <2>2. /\ Replica(e) /\ WriteOnly(db[c], e)
        /\ e.local = db[c].local /\ e.conflict = db[c].conflict
    BY <2>1, StateForms, TidiedForms
  <2>3. AllReplicas' /\ OthersSame(c) /\ db'[c] = e
    BY <1>4, <2>1, <2>2, OneChanged DEF StatesInv, ReplicasInv
  <2>4. \A i \in Ids : GivenUp(db[c], i) => GivenUp(e, i)
    BY <2>2 DEF GivenUp, Submitted, WriteOnly
  <2>5. \A i \in Ids : Recalls(db[c], object[c], feed[c].seen[i], i) => Recalls(e, object[c], feed[c].seen[i], i)
    BY <2>2, <2>4, RecallsSame DEF WriteOnly
  <2>6. e.cursor = db[c].cursor
    BY <2>2 DEF WriteOnly
  <2> QED
    BY <1>1, <1>2, <2>3, <2>5, <2>6, RecallsStep
<1> QED
  BY <1>3, <1>4 DEF SkipObject

LEMMA AccessForms ==
  ASSUME NEW a \in Accesses
  PROVE  a # None /\ a.rights \subseteq Rights /\ a.status \in Statuses
BY ObjectAssumption DEF Accesses, Rights, Statuses

LEMMA PrepareFed ==
  ASSUME ObjectInv, StatesInv, FeedInv, NEW c \in Clients, PrepareObject(c)
  PROVE  FeedInv'
<1>1. PICK d : d = db[c]
  OBVIOUS
<1>2. PICK t : t = Tidied(d)
  OBVIOUS
<1>3. PICK S \in SUBSET Selection(c) :
        db' = [db EXCEPT ![c] = [t EXCEPT !.outbox =
                 {[number |-> made[c] + 1, feed |-> "scope", muts |-> [i \in S |-> MutationOf(d, i)]]}]]
  BY <1>1, <1>2 DEF PrepareObject, FirstOf
<1>4. PICK op : op = [number |-> made[c] + 1, feed |-> "scope", muts |-> [i \in S |-> MutationOf(d, i)]]
  OBVIOUS
<1>5. PICK e : e = [t EXCEPT !.outbox = {op}]
  OBVIOUS
<1>6. db' = [db EXCEPT ![c] = e]
  BY <1>3, <1>4, <1>5
<1>7. Replica(t) /\ WriteOnly(d, t) /\ t.local = d.local /\ t.conflict = d.conflict
  BY <1>1, <1>2, StateForms, TidiedForms
<1>8. Booked(t, e) /\ e.outbox = {op} /\ e.cursor = t.cursor
  BY <1>5, <1>7 DEF Booked, Replica, IsDatabase
<1>9. AllReplicas' /\ OthersSame(c) /\ db'[c] = e
  BY <1>6, <1>7, <1>8, BooksKept, OneChanged DEF StatesInv, ReplicasInv
<1>10. UNCHANGED <<row, feed, object>> /\ Moves(c, Waiting(made[c] + 1))
  BY DEF PrepareObject, serverSide, serverVars
<1>11. Discreet(call'[c]) /\ OthersRest(c)
  BY <1>10, Moved DEF OthersRest, Waiting, Discreet
<1>12. Submitted(e) \subseteq Selection(c)
  <2>1. DOMAIN op.muts = S
    BY <1>4
  <2> QED
    BY <1>8, <2>1 DEF Submitted
<1>13. ASSUME NEW i \in Ids, object[c].access[i] \in Accesses, object[c].access[i].status = "discarded"
       PROVE  i \notin Selection(c)
  BY <1>13, AccessForms DEF Selection, CanSend
<1>14. \A i \in Ids : Recalls(d, object[c], feed[c].seen[i], i) => Recalls(e, object[c], feed[c].seen[i], i)
  <2>1. \A i \in Ids : e.shadow[i] = d.shadow[i] /\ e.local[i] = d.local[i] /\ e.conflict[i] = d.conflict[i]
    BY <1>7, <1>8 DEF Booked, WriteOnly
  <2> QED
    BY <1>12, <1>13, <2>1, RecallsSame DEF GivenUp
<1>15. e.cursor = d.cursor
  BY <1>7, <1>8 DEF WriteOnly
<1> QED
  BY <1>1, <1>9, <1>10, <1>11, <1>14, <1>15, RecallsStep

(* The application decides about a hidden draft. *)
LEMMA ResumeFed ==
  ASSUME ObjectInv, StatesInv, FeedInv, NEW c \in Clients, NEW i \in Ids, ResumeObject(c, i)
  PROVE  FeedInv'
<1>1. PICK o : o = object[c]
  OBVIOUS
<1>2. PICK a : a = o.access[i]
  OBVIOUS
<1>3. PICK p : p = [o EXCEPT !.access = [o.access EXCEPT ![i] = [a EXCEPT !.status = "active"]]]
  OBVIOUS
<1>4. object = [k \in Clients |-> object[k]] /\ IsObject(o)
  BY <1>1, ClientForms DEF ObjectInv, PerClient, ObjectOk
<1>5. a # None /\ "read" \in a.rights /\ ~(a.rights \subseteq {"read"})
  BY <1>1, <1>2 DEF ResumeObject
<1>6. [a EXCEPT !.status = "active"] = Access(a.rights, "active")
  <2>1. a = Access(a.rights, a.status)
    BY <1>2, <1>4, <1>5 DEF IsObject
  <2> QED
    BY <2>1 DEF Access
<1>7. object' = [object EXCEPT ![c] = p]
  BY <1>1, <1>2, <1>3, <1>4 DEF ResumeObject, IsObject
<1>8. /\ p.deferred = o.deferred
      /\ \A k \in Ids : p.access[k] = IF k = i THEN Access(a.rights, "active") ELSE o.access[k]
  BY <1>3, <1>4, <1>6 DEF IsObject
<1>9. UNCHANGED <<db, call, feed, row>>
  BY DEF ResumeObject, systemVars, serverVars
<1>10. object'[c] = p /\ OthersSame(c) /\ OthersRest(c)
  BY <1>4, <1>7, <1>9, Replaced DEF OthersSame, OthersRest
<1>11. Access(a.rights, "active").status = "active" /\ Access(a.rights, "active").rights = a.rights
  BY DEF Access
<1>12. \A k \in Ids : \/ object'[c].access[k] = object[c].access[k]
                      \/ object'[c].access[k].status # "deleted"
  BY <1>1, <1>8, <1>10, <1>11
<1>13. ASSUME NEW k \in Ids, Recalls(db[c], o, feed[c].seen[k], k)
       PROVE  Recalls(db[c], p, feed[c].seen[k], k)
  <2>1. CASE k # i
    BY <1>8, <1>13, <2>1, RecallsSame
  <2>2. CASE k = i
    <3>1. feed[c].seen[i].status = "active"
      BY <1>2, <1>5, <1>13, <2>2 DEF Recalls, RecallsEnd
    <3>2. a \in Accesses => Access(a.rights, "active") \in Accesses
      BY DEF Accesses, Access, Statuses
    <3> QED
      BY <1>2, <1>8, <1>11, <1>13, <2>2, <3>1, <3>2 DEF Recalls, RecallsState
  <2> QED
    BY <2>1, <2>2
<1> QED
  BY <1>1, <1>9, <1>10, <1>12, <1>13, RecallsStep

LEMMA DiscardFed ==
  ASSUME ObjectInv, StatesInv, FeedInv, NEW c \in Clients, NEW i \in Ids, DiscardRetainedDraft(c, i)
  PROVE  FeedInv'
<1>1. PICK d : d = db[c]
  OBVIOUS
<1>2. PICK o : o = object[c]
  OBVIOUS
<1>3. PICK a : a = o.access[i]
  OBVIOUS
<1>4. PICK e : e = [d EXCEPT !.local = [d.local EXCEPT ![i] = None],
                             !.shadow = [d.shadow EXCEPT ![i] = Absent],
                             !.dirty = d.dirty \ {i}, !.deleting = d.deleting \ {i},
                             !.conflict = [d.conflict EXCEPT ![i] = None]]
  OBVIOUS
<1>5. PICK p : p = [o EXCEPT !.access = [o.access EXCEPT ![i] = [a EXCEPT !.status = "discarded"]],
                             !.intent = [o.intent EXCEPT ![i] = None]]
  OBVIOUS
<1>6. /\ IsDatabase(d) /\ IsObject(o)
      /\ db = [k \in Clients |-> db[k]] /\ object = [k \in Clients |-> object[k]]
  BY <1>1, <1>2, StateForms, ClientForms DEF Replica, ObjectOk, ObjectInv, PerClient
<1>7. db' = [db EXCEPT ![c] = e]
  BY <1>1, <1>4, <1>6 DEF DiscardRetainedDraft, IsDatabase
<1>8. object' = [object EXCEPT ![c] = p]
  BY <1>2, <1>3, <1>5, <1>6 DEF DiscardRetainedDraft, Discarded, IsObject
<1>9. /\ e.outbox = d.outbox /\ e.cursor = d.cursor
      /\ \A k \in Ids : /\ e.local[k] = IF k = i THEN None ELSE d.local[k]
                        /\ e.shadow[k] = IF k = i THEN Absent ELSE d.shadow[k]
                        /\ e.conflict[k] = IF k = i THEN None ELSE d.conflict[k]
  BY <1>4, <1>6 DEF IsDatabase
<1>10. /\ a # None /\ "read" \notin a.rights /\ i \notin Submitted(d)
       /\ UNCHANGED <<call, feed, row>>
  BY <1>1, <1>2, <1>3 DEF DiscardRetainedDraft, serverSide, serverVars
<1>11. [a EXCEPT !.status = "discarded"] = Access(a.rights, "discarded")
  <2>1. a = Access(a.rights, a.status)
    BY <1>3, <1>6, <1>10 DEF IsObject
  <2> QED
    BY <2>1 DEF Access
<1>12. /\ p.deferred = o.deferred
       /\ \A k \in Ids : p.access[k] = IF k = i THEN Access(a.rights, "discarded") ELSE o.access[k]
  BY <1>5, <1>6, <1>11 DEF IsObject
<1>13. db'[c] = e /\ object'[c] = p /\ OthersSame(c) /\ OthersRest(c)
  BY <1>6, <1>7, <1>8, <1>10, Replaced DEF OthersSame, OthersRest
<1>14. Access(a.rights, "discarded").status = "discarded" /\ Access(a.rights, "discarded").rights = a.rights
  BY DEF Access
<1>15. Submitted(e) = Submitted(d)
  BY <1>9 DEF Submitted
<1>16. ASSUME NEW k \in Ids, Recalls(d, o, feed[c].seen[k], k)
       PROVE  Recalls(e, p, feed[c].seen[k], k)
  <2>1. CASE k # i
    BY <1>9, <1>12, <1>15, <1>16, <2>1, RecallsSame DEF GivenUp
  <2>2. CASE k = i /\ feed[c].seen[i].status = "active"
    BY <1>3, <1>10, <1>16, <2>2 DEF Recalls, RecallsState
  <2>3. CASE k = i /\ feed[c].seen[i].status # "active"
    <3>1. a \in Accesses /\ a.rights \subseteq {"read"} /\ o.deferred[i] = None
      BY <1>3, <1>16, <2>3 DEF Recalls, RecallsEnd
    <3>2. Access(a.rights, "discarded") \in Accesses
      BY <3>1 DEF Accesses, Access, Statuses
    <3>3. GivenUp(e, i)
      BY <1>9, <1>10, <1>15 DEF GivenUp
    <3> QED
      BY <1>12, <1>14, <2>3, <3>1, <3>2, <3>3 DEF Recalls, RecallsEnd
  <2> QED
    BY <2>1, <2>2, <2>3
<1>17. \A k \in Ids : \/ object'[c].access[k] = object[c].access[k]
                      \/ object'[c].access[k].status # "deleted"
  BY <1>2, <1>12, <1>13, <1>14
<1> QED
  BY <1>1, <1>2, <1>9, <1>10, <1>13, <1>16, <1>17, RecallsStep

(* Whoever reads the feed again from its start was told nothing yet. *)
LEMMA FedAfresh ==
  ASSUME NEW d, NEW o, NEW e, NEW h, Fed(d, o, e, h), FeedOk(h),
         NEW d2, NEW o2, NEW e2, d2.cursor["scope"] \in {None, 0}, Discreet(e2)
  PROVE  Fed(d2, o2, e2, h)
<1>1. PICK L \in Nat : L = Len(h.events) /\ DOMAIN h.events = 1..L
  BY DEF FeedOk
<1>2. CursorIn(d2, h) /\ FetchedOk(e2, h)
  BY <1>1 DEF CursorIn, FetchedOk, Discreet
<1>3. DisclosedOk(e2, d2, o2, h)
  <2>1. DOMAIN Disclosed(e2) = {}
    BY DEF Disclosed, Discreet
  <2> QED
    BY <2>1 DEF DisclosedOk
<1>4. ASSUME NEW i \in Ids
      PROVE  SeenOk(h, i) /\ ~ToldOf(d2, h, i)
  <2>1. SeenOk(h, i)
    BY DEF Fed
  <2>2. ASSUME h.seen[i] # None
        PROVE  \E n \in DOMAIN h.events : h.events[n] = i
    BY <2>1, <2>2 DEF SeenOk
  <2>3. \A n \in DOMAIN h.events : ~(n <= 0)
    BY <1>1
  <2> QED
    BY <2>1, <2>2, <2>3 DEF ToldOf
<1> QED
  BY <1>2, <1>3, <1>4 DEF Fed

LEMMA WithoutStateFed ==
  ASSUME ObjectInv, StatesInv, FeedInv, NEW c \in Clients, FinishWithoutState(c)
  PROVE  FeedInv'
<1>1. UNCHANGED <<row, feed>> /\ Moves(c, Ending)
  BY DEF FinishWithoutState, serverSide, serverVars
<1>2. Discreet(call'[c]) /\ \A k \in Clients \ {c} : call'[k] = call[k]
  BY <1>1, Moved DEF Ending, Discreet
<1>3. PICK d : d = db[c]
  OBVIOUS
<1>4. PICK op \in Operation(c) : db' = [db EXCEPT ![c] = Settled(c, op)]
  BY DEF FinishWithoutState
<1>5. PICK e : e = Settled(c, op)
  OBVIOUS
<1>6. IsDatabase(d) /\ db = [k \in Clients |-> db[k]] /\ object = [k \in Clients |-> object[k]]
  BY <1>3, StateForms DEF Replica, ObjectInv, PerClient
<1>7. e.cursor["scope"] \in {None, 0}
  BY <1>3, <1>5, <1>6, Keyless DEF Settled, IsDatabase
<1>8. db'[c] = e /\ OthersSame(c)
  BY <1>4, <1>5, <1>6, Replaced DEF OthersSame
<1>9. \A k \in Clients \ {c} : object'[k] = object[k]
  <2>1. \E o : object' = [object EXCEPT ![c] = o]
    BY DEF FinishWithoutState
  <2> QED
    BY <1>6, <2>1, Replaced
<1>10. Fed(db[c], object[c], call[c], feed[c]) /\ FeedOk(feed[c])
  BY ClientForms DEF FeedInv
<1>11. Fed(db'[c], object'[c], call'[c], feed[c])
  BY <1>2, <1>7, <1>8, <1>10, FedAfresh
<1>12. OthersRest(c)
  BY <1>2, <1>9 DEF OthersRest
<1> QED
  BY <1>1, <1>8, <1>11, <1>12, FeedStep

(* The answer is disclosed with the rows and rights of the moment. *)
LEMMA RespondFed ==
  ASSUME ObjectInv, StatesInv, FeedInv, NEW c \in Clients, Respond(c)
  PROVE  FeedInv'
<1>1. UNCHANGED <<row, feed, db, object>>
  BY DEF Respond, serverSide, serverVars
<1>2. PICK r \in replies : Moves(c, Replied(call[c].number, r.result, Withheld(c, r.result)))
  BY DEF Respond
<1>3. PICK e : e = Replied(call[c].number, r.result, Withheld(c, r.result))
  OBVIOUS
<1>4. call'[c] = e /\ OthersRest(c) /\ OthersSame(c)
  BY <1>1, <1>2, <1>3, Moved DEF OthersRest, OthersSame
<1>5. PICK d : d = db[c]
  OBVIOUS
<1>6. PICK o : o = object[c]
  OBVIOUS
<1>7. PICK h : h = feed[c]
  OBVIOUS
<1>8. Fed(d, o, call[c], h)
  BY <1>5, <1>6, <1>7 DEF FeedInv
<1>9. FetchedOk(e, h)
  BY <1>3 DEF FetchedOk, Replied
<1>10. DisclosedOk(e, d, o, h)
  <2> SUFFICES ASSUME NEW i \in Ids, i \in DOMAIN Disclosed(e)
               PROVE  IF Live(Disclosed(e)[i])
                      THEN ToldOf(d, h, i) /\ h.seen[i].status # "active" => o.access[i].status # "deleted"
                      ELSE h.seen[i] # None => Tombstone(row[i])
    BY DEF DisclosedOk
  <2>1. e.at = "replied" /\ e.withheld = Withheld(c, r.result) /\ e.result = r.result
    BY <1>3 DEF Replied
  <2>2. ~Withheld(c, r.result) /\ Disclosed(e) = r.result.entities
    BY <2>1 DEF Disclosed
  <2>3. Disclosed(e)[i] = row[i]
    BY <2>2 DEF Withheld
  <2>4. SeenOk(h, i) /\ (ToldOf(d, h, i) => Recalls(d, o, h.seen[i], i))
    BY <1>8 DEF Fed
  <2>5. CASE Live(row[i])
    BY <2>3, <2>4, <2>5 DEF Recalls, RecallsEnd, Tombstone
  <2>6. CASE ~Live(row[i])
    BY <2>3, <2>4, <2>6 DEF SeenOk, Tombstone
  <2> QED
    BY <2>5, <2>6
<1>11. Fed(d, o, e, h)
  BY <1>8, <1>9, <1>10 DEF Fed
<1> QED
  BY <1>1, <1>4, <1>5, <1>6, <1>7, <1>11, FeedStep

(* A state that is not older says as much. *)
LEMMA RecallsLater ==
  ASSUME NEW d, NEW o, NEW v \in Visibilities, NEW i \in Ids, Recalls(d, o, v, i), NEW d2, NEW o2,
         o2.access[i] = o.access[i], o2.deferred[i] = o.deferred[i],
         d.shadow[i].rev \in Nat, d2.shadow[i].rev \in Nat, d2.shadow[i].rev >= d.shadow[i].rev,
         o.access[i].status = "discarded" /\ GivenUp(d, i) => GivenUp(d2, i)
  PROVE  Recalls(d2, o2, v, i)
<1>1. v.rev \in Nat
  BY DEF Visibilities
<1> QED
  BY <1>1 DEF Recalls, RecallsState, RecallsEnd

(* What an answer leaves alone. *)
LEMMA SettleTouches ==
  ASSUME ObjectInv, StatesInv, NEW c \in Clients, SettleObject(c)
  PROVE  \A i \in Ids \ Submitted(db[c]) :
           /\ db'[c].local[i] = db[c].local[i] /\ db'[c].conflict[i] = db[c].conflict[i]
           /\ i \notin Submitted(db'[c])
<1>1. PICK d : d = db[c]
  OBVIOUS
<1>2. PICK result : result = call[c].result
  OBVIOUS
<1>3. PICK op \in Operation(c) : Finish(c, op, result)
  BY <1>2 DEF SettleObject
<1> DEFINE answers == [i \in DOMAIN op.muts |-> Answered(d, i, op.muts[i], result)]
           received == Joined(answers, SideEffects(d, op, result))
<1>4. /\ op \in d.outbox /\ \A a \in d.outbox : a = op
      /\ DOMAIN result.entities \subseteq DOMAIN op.muts
  BY <1>1, <1>2, <1>3, AnswerForms DEF SettleObject
<1>5. Replica(d) /\ IsDatabase(d) /\ db = [k \in Clients |-> db[k]]
  BY <1>1, StateForms DEF Replica, ObjectInv, PerClient
<1>6. DOMAIN received = DOMAIN op.muts
  <2>1. DOMAIN SideEffects(d, op, result) = {}
    BY <1>4 DEF SideEffects
  <2> QED
    BY <2>1 DEF Joined
<1>7. DOMAIN op.muts \subseteq Ids
  BY <1>1, <1>4 DEF StatesInv, ReplicasInv, Outboxes, OutboxOk, IsMutations
<1> HIDE DEF received
<1>8. PICK t : t = ApplyUpdates(d, received)
  OBVIOUS
<1>9. IsReplica(t) /\ t.outbox = d.outbox
  <2>1. IsReplica(d)
    BY <1>1, ClientForms DEF ReplicaOk
  <2> QED
    BY <1>8, <2>1, UpdatesStore
<1>10. db'[c] = [t EXCEPT !.outbox = @ \ {op}]
  BY <1>1, <1>3, <1>5, <1>8 DEF Finish, received
<1>11. db'[c].local = t.local /\ db'[c].conflict = t.conflict /\ db'[c].outbox = {}
  BY <1>4, <1>9, <1>10 DEF IsReplica
<1>12. ASSUME NEW i \in Ids \ Submitted(d)
       PROVE  t.local[i] = d.local[i] /\ t.conflict[i] = d.conflict[i]
  <2>1. i \in Ids \ DOMAIN received
    BY <1>4, <1>6, <1>12 DEF Submitted
  <2> QED
    BY <1>5, <1>6, <1>7, <1>8, <2>1, UpdatesElsewhere
<1> QED
  BY <1>1, <1>11, <1>12 DEF Submitted

LEMMA SettleFed ==
  ASSUME ObjectInv, StatesInv, FeedInv, NEW c \in Clients, SettleObject(c)
  PROVE  FeedInv'
<1>1. UNCHANGED <<row, feed, object, made, serverVars>> /\ Moves(c, Disclosing(call[c].result.entities))
  BY DEF SettleObject, serverSide, serverVars
<1>2. PICK e : e = Disclosing(call[c].result.entities)
  OBVIOUS
<1>3. call'[c] = e /\ OthersRest(c)
  BY <1>1, <1>2, Moved DEF OthersRest
<1>4. AllReplicas' /\ OthersSame(c) /\ Forward(c) /\ db'[c].cursor = db[c].cursor
  <2>1. PICK op \in Operation(c) : Finish(c, op, call[c].result)
    BY DEF SettleObject
  <2>2. op \in db[c].outbox /\ op.number = call[c].number
    BY <2>1 DEF Operation
  <2>3. PICK y \in replies : y.key = <<c, op.number>> /\ y.result = call[c].result
    BY <2>2, ClientForms DEF CycleOk, SettleObject
  <2>4. RepliesReceipted /\ WritersInv /\ ReplicasInv
    BY DEF StatesInv, ServerInv
  <2>5. Finish(c, op, y.result)
    BY <2>1, <2>3
  <2> QED
    BY <1>1, <2>2, <2>3, <2>4, <2>5, Finished
<1>5. PICK d : d = db[c]
  OBVIOUS
<1>6. PICK d2 : d2 = db'[c]
  OBVIOUS
<1>7. PICK o : o = object[c]
  OBVIOUS
<1>8. PICK h : h = feed[c]
  OBVIOUS
<1>9. Fed(d, o, call[c], h)
  BY <1>5, <1>7, <1>8 DEF FeedInv
<1>10. d2.cursor["scope"] = d.cursor["scope"]
  BY <1>4, <1>5, <1>6
<1>11. ASSUME NEW i \in Ids, ToldOf(d, h, i), Recalls(d, o, h.seen[i], i)
       PROVE  Recalls(d2, o, h.seen[i], i)
  <2>1. h.seen[i] \in Visibilities
    BY <1>9, <1>11 DEF Fed, SeenOk, ToldOf
  <2>2. d2.shadow[i].rev >= d.shadow[i].rev /\ d.shadow[i].rev \in Nat /\ d2.shadow[i].rev \in Nat
    <3>1. d.shadow[i] \in EntityOf(i)
      BY <1>5, StateForms DEF Replica, Fit
    <3>2. d2.shadow[i] \in EntityOf(i)
      BY <1>4, <1>6 DEF AllReplicas, Replica, Fit
    <3> QED
      BY <1>4, <1>5, <1>6, <3>1, <3>2, EntityIsRow DEF Forward
  <2>3. GivenUp(d, i) => GivenUp(d2, i)
    BY <1>5, <1>6, SettleTouches DEF GivenUp
  <2> QED
    BY <1>11, <2>1, <2>2, <2>3, RecallsLater
<1>12. Fed(d2, o, e, h)
  <2>1. \A i \in Ids : ToldOf(d2, h, i) <=> ToldOf(d, h, i)
    BY <1>10 DEF ToldOf
  <2>2. CursorIn(d2, h) /\ FetchedOk(e, h)
    BY <1>2, <1>9, <1>10 DEF Fed, CursorIn, FetchedOk, Disclosing
  <2>3. Disclosed(e) = Disclosed(call[c])
    BY <1>2 DEF Disclosed, Disclosing, SettleObject
  <2>4. DisclosedOk(e, d2, o, h)
    BY <1>9, <2>1, <2>3 DEF Fed, DisclosedOk
  <2> QED
    BY <1>9, <1>11, <2>1, <2>2, <2>4 DEF Fed
<1> QED
  BY <1>1, <1>3, <1>4, <1>6, <1>7, <1>8, <1>12, FeedStep

(* An answer is disclosed of objects that may be read again, or are gone.  *)
LEMMA ObserveFed ==
  ASSUME ObjectInv, StatesInv, FeedInv, NEW c \in Clients, ObserveDisclosures(c)
  PROVE  FeedInv'
<1>1. PICK o : o = object[c]
  OBVIOUS
<1>2. PICK told : told = call[c].entities
  OBVIOUS
<1> DEFINE seen(i) == IF ~Live(told[i]) THEN Access({}, "deleted")
                      ELSE IF o.access[i] = None THEN Access({"read"}, "active")
                      ELSE [o.access[i] EXCEPT !.rights = @ \cup {"read"}]
<1>3. PICK p : p = [o EXCEPT !.access = [i \in Ids |-> IF i \in DOMAIN told THEN seen(i) ELSE o.access[i]]]
  OBVIOUS
<1>4. IsObject(o) /\ object = [k \in Clients |-> object[k]]
  BY <1>1, ClientForms DEF ObjectInv, PerClient, ObjectOk
<1>5. object' = [object EXCEPT ![c] = p]
  BY <1>1, <1>2, <1>3, <1>4 DEF ObserveDisclosures, IsObject
<1>6. /\ p.deferred = o.deferred
      /\ \A i \in Ids : p.access[i] = IF i \in DOMAIN told THEN seen(i) ELSE o.access[i]
  BY <1>3, <1>4 DEF IsObject
<1>7. UNCHANGED <<row, feed, db>> /\ Moves(c, Ending) /\ Discreet(Ending)
  BY DEF ObserveDisclosures, serverSide, serverVars, Ending, Discreet
<1>8. Discreet(call'[c]) /\ OthersRest(c) /\ OthersSame(c) /\ object'[c] = p
  BY <1>4, <1>5, <1>7, Moved, Replaced DEF OthersRest, OthersSame
<1>9. PICK d : d = db[c]
  OBVIOUS
<1>10. PICK h : h = feed[c]
  OBVIOUS
<1>11. \A i \in Ids \cap DOMAIN told :
          IF Live(told[i])
          THEN ToldOf(d, h, i) /\ h.seen[i].status # "active" => o.access[i].status # "deleted"
          ELSE h.seen[i] # None => Tombstone(row[i])
  <2>1. Disclosed(call[c]) = told
    BY <1>2 DEF Disclosed, ObserveDisclosures
  <2>2. DisclosedOk(call[c], d, o, h)
    BY <1>1, <1>9, <1>10 DEF FeedInv, Fed
  <2> QED
    BY <2>1, <2>2 DEF DisclosedOk
<1>12. ASSUME NEW i \in Ids, ToldOf(d, h, i), Recalls(d, o, h.seen[i], i)
       PROVE  Recalls(d, p, h.seen[i], i)
  <2>1. CASE i \notin DOMAIN told
    BY <1>6, <1>12, <2>1, RecallsSame
  <2>2. CASE i \in DOMAIN told /\ ~Live(told[i])
    <3>1. p.access[i] = Access({}, "deleted")
      BY <1>6, <2>2
    <3>2. Tombstone(row[i])
      BY <1>11, <1>12, <2>2 DEF ToldOf
    <3>3. Access({}, "deleted") \in Accesses
      BY DEF Accesses, Access, Statuses
    <3>4. Access({}, "deleted").rights = {} /\ Access({}, "deleted").status = "deleted"
      BY DEF Access
    <3>5. h.seen[i].status # "active" => o.deferred[i] = None
      BY <1>12 DEF Recalls, RecallsEnd
    <3> QED
      BY <1>6, <3>1, <3>2, <3>3, <3>4, <3>5 DEF Recalls, RecallsState, RecallsEnd
  <2>3. CASE i \in DOMAIN told /\ Live(told[i]) /\ o.access[i] \in Accesses
    <3>1. PICK a : a = o.access[i]
      OBVIOUS
    <3>2. a = Access(a.rights, a.status) /\ a # None
      BY <1>4, <2>3, <3>1, AccessForms DEF IsObject
    <3>3. p.access[i] = Access(a.rights \cup {"read"}, a.status)
      <4>1. p.access[i] = [a EXCEPT !.rights = @ \cup {"read"}]
        BY <1>6, <2>3, <3>1, <3>2
      <4> QED
        BY <3>2, <4>1 DEF Access
    <3>4. PICK b : b = p.access[i]
      OBVIOUS
    <3>5. b \in Accesses /\ b.rights = a.rights \cup {"read"} /\ b.status = a.status
      BY <2>3, <3>1, <3>3, <3>4 DEF Accesses, Access, Rights
    <3>6. h.seen[i].status # "active" => a.status # "deleted"
      BY <1>11, <1>12, <2>3, <3>1
    <3> QED
      BY <1>6, <1>12, <3>1, <3>4, <3>5, <3>6 DEF Recalls, RecallsState, RecallsEnd
  <2>4. CASE i \in DOMAIN told /\ Live(told[i]) /\ o.access[i] \notin Accesses
    BY <1>12, <2>4 DEF Recalls, RecallsState, RecallsEnd
  <2> QED
    BY <2>1, <2>2, <2>3, <2>4
<1> QED
  BY <1>1, <1>7, <1>8, <1>9, <1>10, <1>12, RecallsStep

(* A merge of delivered states forgets nothing. *)
LEMMA DrainRecalls ==
  ASSUME NEW d, Replica(d), NEW o, IsObject(o),
         \A k \in Ids : o.deferred[k] # None => o.deferred[k] \in EntityOf(k),
         NEW i \in Ids, NEW v \in Visibilities, Recalls(d, o, v, i)
  PROVE  Recalls(DrainedDatabase(d, o), DrainedObject(d, o), v, i)
<1>1. PICK t : t = DrainedDatabase(d, o)
  OBVIOUS
<1>2. PICK p : p = DrainedObject(d, o)
  OBVIOUS
<1>3. /\ Replica(t) /\ t.outbox = d.outbox
      /\ t.shadow[i] = IF i \in Drained(d, o) /\ Current(d, o, i) THEN o.deferred[i] ELSE d.shadow[i]
      /\ o.deferred[i] = None => t.local[i] = d.local[i] /\ t.conflict[i] = d.conflict[i]
  BY <1>1, DrainedReplica
<1>4. /\ p.deferred[i] = IF i \in Drained(d, o) THEN None ELSE o.deferred[i]
      /\ \/ p.access[i] = o.access[i]
         \/ o.deferred[i] # None /\ p.access[i] = Access(o.access[i].rights, "active")
  BY <1>2, DrainedKnows
<1>5. o.access[i] \in Accesses => /\ Access(o.access[i].rights, "active") \in Accesses
                                  /\ Access(o.access[i].rights, "active").rights = o.access[i].rights
  BY DEF Access, Accesses, Statuses
<1>6. /\ d.shadow[i].rev \in Nat /\ v.rev \in Nat
      /\ o.deferred[i] # None => o.deferred[i].rev \in Nat
  <2>1. d.shadow[i] \in EntityOf(i)
    BY DEF Replica, Fit
  <2> QED
    BY <2>1, EntityIsRow DEF Visibilities
<1>7. CASE v.status = "active"
  <2>1. CASE Tombstone(row[i])
    BY <1>1, <1>2, <1>7, <2>1 DEF Recalls, RecallsState
  <2>2. CASE ~Tombstone(row[i])
    <3>1. /\ o.access[i] \in Accesses /\ "read" \in o.access[i].rights
          /\ \/ d.shadow[i].rev >= v.rev
             \/ o.deferred[i] # None /\ o.deferred[i].rev >= v.rev
      BY <1>7, <2>2 DEF Recalls, RecallsState
    <3>2. p.access[i] \in Accesses /\ "read" \in p.access[i].rights
      BY <1>4, <1>5, <3>1
    <3>3. i \in Drained(d, o) /\ ~Current(d, o, i) => d.shadow[i].rev >= o.deferred[i].rev
      BY <1>6, <3>1 DEF Current, Drained
    <3>4. i \in Drained(d, o) /\ Current(d, o, i) => o.deferred[i].rev >= d.shadow[i].rev
      BY <1>6 DEF Current, Drained
    <3>5. i \in Drained(d, o) => o.deferred[i] # None
      BY DEF Drained
    <3>6. \/ t.shadow[i].rev >= v.rev
          \/ p.deferred[i] # None /\ p.deferred[i].rev >= v.rev
      BY <1>3, <1>4, <1>6, <3>1, <3>3, <3>4, <3>5
    <3> QED
      BY <1>1, <1>2, <1>7, <3>2, <3>6 DEF Recalls, RecallsState
  <2> QED
    BY <2>1, <2>2
<1>8. CASE v.status # "active"
  <2>1. RecallsEnd(d, o, i) /\ o.deferred[i] = None
    BY <1>8 DEF Recalls, RecallsEnd
  <2>2. p.access[i] = o.access[i] /\ p.deferred[i] = None
    BY <1>4, <2>1
  <2>3. GivenUp(d, i) => GivenUp(t, i)
    BY <1>3, <2>1 DEF GivenUp, Submitted
  <2> QED
    BY <1>1, <1>2, <1>8, <2>1, <2>2, <2>3 DEF Recalls, RecallsEnd
<1> QED
  BY <1>7, <1>8

LEMMA DrainFed ==
  ASSUME ObjectInv, StatesInv, FeedInv, NEW c \in Clients, Recover(c) \/ EndFlush(c)
  PROVE  FeedInv'
<1>1. Drain(c) /\ UNCHANGED <<row, feed>>
  BY DEF Recover, EndFlush, serverSide, serverVars
<1>2. Discreet(call'[c]) /\ \A k \in Clients \ {c} : call'[k] = call[k]
  <2>1. CASE Recover(c)
    <3>1. PICK new \in BOOLEAN : Moves(c, Choosing(new))
      BY <2>1 DEF Recover
    <3> QED
      BY <3>1, Moved DEF Choosing, Discreet
  <2>2. CASE EndFlush(c)
    BY <2>2, Moved DEF EndFlush, Resting, Discreet
  <2> QED
    BY <2>1, <2>2
<1>3. PICK o : o = object[c]
  OBVIOUS
<1>4. PICK d : d = db[c]
  OBVIOUS
<1>5. PICK t : t = DrainedDatabase(d, o)
  OBVIOUS
<1>6. PICK p : p = DrainedObject(d, o)
  OBVIOUS
<1>7. db' = [db EXCEPT ![c] = t] /\ object' = [object EXCEPT ![c] = p]
  BY <1>1, <1>3, <1>4, <1>5, <1>6 DEF Drain
<1>8. /\ IsObject(o) /\ Replica(d)
      /\ \A i \in Ids : o.deferred[i] # None => o.deferred[i] \in EntityOf(i)
  BY <1>3, <1>4, StateForms, ClientForms DEF ObjectOk
<1>9. t.cursor = d.cursor
  BY <1>5, <1>8, DrainedReplica
<1>10. db'[c] = t /\ object'[c] = p /\ OthersSame(c) /\ OthersRest(c)
  BY <1>2, <1>7, Replaced DEF OthersSame, OthersRest, ObjectInv, PerClient
<1>11. ASSUME NEW i \in Ids, ToldOf(d, feed[c], i), Recalls(d, o, feed[c].seen[i], i)
       PROVE  Recalls(t, p, feed[c].seen[i], i)
  <2>1. feed[c].seen[i] \in Visibilities
    BY <1>11 DEF FeedInv, Fed, SeenOk, ToldOf
  <2> QED
    BY <1>5, <1>6, <1>8, <1>11, <2>1, DrainRecalls
<1> QED
  BY <1>1, <1>2, <1>3, <1>4, <1>9, <1>10, <1>11, RecallsStep

LEMMA ApplyPageFed ==
  ASSUME ObjectInv, StatesInv, RightsInv, FeedInv, NEW c \in Clients, ApplyPage(c)
  PROVE  FeedInv'
<1>1. UNCHANGED <<row, feed>> /\ Moves(c, Resting) /\ Discreet(Resting)
  BY DEF ApplyPage, serverSide, serverVars, Resting, Discreet
<1>2. Discreet(call'[c]) /\ \A k \in Clients \ {c} : call'[k] = call[k]
  BY <1>1, Moved
<1>3. PICK d : d = db[c]
  OBVIOUS
<1>4. PICK page : page = call[c].page
  OBVIOUS
<1>5. PICK o : o = object[c]
  OBVIOUS
<1>6. PICK told : told = TellAll(d, o, page.events)
  OBVIOUS
<1>7. PICK t : t = DrainedDatabase(d, told)
  OBVIOUS
<1>8. PICK q : q = DrainedObject(d, told)
  OBVIOUS
<1>9. PICK e : e = [t EXCEPT !.cursor["scope"] = page.next]
  OBVIOUS
<1>10. PICK p : p = [q EXCEPT !.create = call[c].create]
  OBVIOUS
<1>11. PICK h : h = feed[c]
  OBVIOUS
<1>12. db' = [db EXCEPT ![c] = e] /\ object' = [object EXCEPT ![c] = p]
  BY <1>3, <1>4, <1>5, <1>6, <1>7, <1>8, <1>9, <1>10 DEF ApplyPage
<1>13. /\ ReplicaOk(d, made[c]) /\ ObjectOk(o, d) /\ IsObject(o) /\ EventsOk(page, d)
  BY <1>3, <1>4, <1>5, ClientForms DEF CycleOk, ApplyPage, ObjectOk
<1>14. Fed(d, o, call[c], h) /\ call[c].at = "fetched"
  BY <1>3, <1>5, <1>11 DEF FeedInv, ApplyPage
<1>15. /\ page.after \in Nat /\ page.next \in page.after..Len(h.events)
       /\ DOMAIN page.events = 1..(page.next - page.after)
       /\ \A n \in DOMAIN page.events :
            LET x == page.events[n]
                v == h.seen[x.id]
            IN /\ x.id = h.events[page.after + n]
               /\ v # None /\ x.status = v.status /\ x.rights = v.rights
               /\ IF v.status = "active" THEN x.entity # None /\ x.entity.rev = v.rev
                  ELSE x.entity = None
  BY <1>4, <1>14 DEF Fed, FetchedOk
<1>16. page.after = IF d.cursor["scope"] = None THEN 0 ELSE d.cursor["scope"]
  BY <1>3, <1>4 DEF ApplyPage, Cursor
<1>17. PICK L \in Nat : L = page.next - page.after
  BY <1>13, <1>15 DEF EventsOk
<1>18. ASSUME NEW n \in 1..L
       PROVE  EventTyped(page.events[n])
  BY <1>4, <1>14, <1>15, <1>17 DEF RightsInv
<1>19. IsObject(told)
  <2>1. Receivable(o, d)
    BY <1>13 DEF Receivable, ObjectOk, AwaitedOk
  <2>2. Receivable(told, d)
    BY <1>6, <1>13, <2>1, PageReceivable
  <2> QED
    BY <2>2 DEF Receivable
<1>20. ASSUME NEW i \in Ids
       PROVE  ToldBy(o, told, page.events, L, i)
  BY <1>6, <1>13, <1>15, <1>17, PageTold
<1>21. Replica(d) /\ Delivers(o, call[c]) /\ Typed /\ Bounded
  BY <1>3, <1>5, StateForms DEF StatesInv, ReplicasInv
<1>22. \A i \in Ids : told.deferred[i] # None => told.deferred[i] \in EntityOf(i)
  <2> SUFFICES ASSUME NEW i \in Ids, told.deferred[i] # None
               PROVE  told.deferred[i] \in EntityOf(i)
    OBVIOUS
  <2>1. \/ told.deferred[i] = o.deferred[i]
        \/ \E n \in 1..L : page.events[n].id = i /\ told.deferred[i] = page.events[n].entity
    BY <1>20 DEF ToldBy
  <2>2. \A n \in 1..L : page.events[n].entity # None =>
          Historical(page.events[n].id, page.events[n].entity)
    BY <1>4, <1>14, <1>15, <1>17, <1>21 DEF Delivers
  <2>3. Historical(i, told.deferred[i])
    BY <1>21, <2>1, <2>2 DEF Delivers
  <2> QED
    BY <1>21, <2>3, CommittedForms
<1>23. Replica(t) /\ IsDatabase(t) /\ t.outbox = d.outbox
  BY <1>7, <1>19, <1>21, <1>22, DrainedReplica DEF Replica
<1>24. Booked(t, e) /\ e.outbox = t.outbox /\ e.cursor["scope"] = page.next
  BY <1>9, <1>23, Keyless DEF Booked, IsDatabase
<1>25. AllReplicas' /\ OthersSame(c) /\ db'[c] = e
  BY <1>12, <1>23, <1>24, BooksKept, OneChanged DEF StatesInv, ReplicasInv
<1>26. OthersRest(c) /\ object'[c] = p
  BY <1>2, <1>12, Replaced DEF OthersRest, ObjectInv, PerClient
<1>27. p.deferred = q.deferred /\ p.access = q.access
  <2>1. IsObject(q)
    <3>1. Receivable(o, d)
      BY <1>13 DEF Receivable, ObjectOk, AwaitedOk
    <3>2. Receivable(told, d)
      BY <1>6, <1>13, <3>1, PageReceivable
    <3> QED
      BY <1>8, <1>13, <3>2, Drains DEF ObjectOk
  <2> QED
    BY <1>10, <2>1 DEF IsObject
<1>28. FeedOk(h) /\ \A i \in Ids : SeenOk(h, i)
  BY <1>11, <1>14, ClientForms DEF Fed
<1>29. PICK N \in Nat : N = Len(h.events) /\ DOMAIN h.events = 1..N
  BY <1>28 DEF FeedOk
<1>30. ASSUME NEW i \in Ids, ToldOf(e, h, i)
       PROVE  Recalls(d, told, h.seen[i], i)
  <2>1. CASE /\ \A n \in 1..L : page.events[n].id # i
             /\ told.deferred[i] = o.deferred[i] /\ told.access[i] = o.access[i]
    <3>1. ASSUME NEW n \in DOMAIN h.events, h.events[n] = i
          PROVE  d.cursor["scope"] # None /\ n <= d.cursor["scope"]
      <4>1. n <= page.next
        BY <1>24, <1>30, <3>1 DEF ToldOf
      <4>2. n <= page.after
        <5>1. ASSUME ~(n <= page.after)
              PROVE  FALSE
          <6>1. n - page.after \in 1..L /\ page.after + (n - page.after) = n
            BY <1>15, <1>17, <1>29, <4>1, <5>1
          <6>2. page.events[n - page.after].id = h.events[n]
            BY <1>15, <1>17, <6>1
          <6> QED
            BY <2>1, <3>1, <6>1, <6>2
        <5> QED
          BY <5>1
      <4> QED
        BY <1>16, <1>29, <4>2
    <3>2. ToldOf(d, h, i)
      BY <1>30, <3>1 DEF ToldOf
    <3>3. Recalls(d, o, h.seen[i], i)
      BY <1>14, <3>2 DEF Fed
    <3> QED
      BY <2>1, <3>3, RecallsSame
  <2>2. ASSUME NEW n \in 1..L, NEW s, page.events[n].id = i, told.deferred[i] = page.events[n].entity,
               told.access[i] = Access(page.events[n].rights, s),
               s = page.events[n].status \/ (s = "review" /\ page.events[n].status = "active")
        PROVE  Recalls(d, told, h.seen[i], i)
    <3>1. PICK x : x = page.events[n]
      OBVIOUS
    <3>2. PICK v : v = h.seen[i]
      OBVIOUS
    <3>3. /\ v # None /\ x.status = v.status /\ x.rights = v.rights
          /\ IF v.status = "active" THEN x.entity # None /\ x.entity.rev = v.rev
             ELSE x.entity = None
      BY <1>15, <1>17, <2>2, <3>1, <3>2
    <3>4. v \in Visibilities /\ (IF v.status = "active" THEN "read" \in v.rights ELSE v.rights = {})
      BY <1>28, <3>2, <3>3 DEF SeenOk
    <3>5. v.status = "deleted" => Tombstone(row[i])
      BY <1>28, <3>2, <3>3 DEF SeenOk
    <3>6. PICK a : a = told.access[i]
      OBVIOUS
    <3>7. a.rights = x.rights /\ a.status = s
      BY <2>2, <3>1, <3>6 DEF Access
    <3>8. a \in Accesses
      <4>1. x.rights \in SUBSET Rights /\ s \in Statuses
        BY <1>18, <2>2, <3>1 DEF EventTyped, Statuses
      <4> QED
        BY <2>2, <3>1, <3>6, <4>1 DEF Access, Accesses
    <3>9. CASE v.status = "active"
      <4>1. told.deferred[i] # None /\ told.deferred[i].rev >= v.rev
        BY <2>2, <3>1, <3>3, <3>4, <3>9 DEF Visibilities
      <4> QED
        BY <3>2, <3>3, <3>4, <3>6, <3>7, <3>8, <3>9, <4>1 DEF Recalls, RecallsState
    <3>10. CASE v.status # "active"
      <4>1. told.deferred[i] = None /\ a.rights = {} /\ s = v.status
        BY <2>2, <3>1, <3>3, <3>4, <3>7, <3>10
      <4>2. v.status \in {"revoked", "deleted"}
        BY <3>4, <3>10 DEF Visibilities
      <4> QED
        BY <3>2, <3>5, <3>6, <3>7, <3>8, <3>10, <4>1, <4>2 DEF Recalls, RecallsEnd
    <3> QED
      BY <3>9, <3>10
  <2>3. PICK events : events = page.events
    OBVIOUS
  <2>4. ToldBy(o, told, events, L, i)
    BY <1>20, <2>3
  <2>5. CASE \E n \in 1..L : \E s : /\ events[n].id = i /\ told.deferred[i] = events[n].entity
                                    /\ told.access[i] = Access(events[n].rights, s)
                                    /\ s = events[n].status \/ (s = "review" /\ events[n].status = "active")
    <3>1. PICK n \in 1..L :
            \E s : /\ events[n].id = i /\ told.deferred[i] = events[n].entity
                   /\ told.access[i] = Access(events[n].rights, s)
                   /\ s = events[n].status \/ (s = "review" /\ events[n].status = "active")
      BY <2>5
    <3>2. PICK s : /\ events[n].id = i /\ told.deferred[i] = events[n].entity
                   /\ told.access[i] = Access(events[n].rights, s)
                   /\ s = events[n].status \/ (s = "review" /\ events[n].status = "active")
      BY <3>1
    <3> QED
      BY <2>2, <2>3, <3>2
  <2> QED
    BY <2>1, <2>3, <2>4, <2>5 DEF ToldBy
<1>31. ASSUME NEW i \in Ids, ToldOf(e, h, i)
       PROVE  Recalls(e, p, h.seen[i], i)
  <2>1. h.seen[i] \in Visibilities
    BY <1>28, <1>31 DEF SeenOk, ToldOf
  <2>2. Recalls(d, told, h.seen[i], i)
    BY <1>30, <1>31
  <2>3. Recalls(t, q, h.seen[i], i)
    BY <1>7, <1>8, <1>19, <1>21, <1>22, <2>1, <2>2, DrainRecalls
  <2>4. GivenUp(t, i) => GivenUp(e, i)
    BY <1>24 DEF GivenUp, Submitted, Booked
  <2>5. e.shadow[i] = t.shadow[i] /\ p.access[i] = q.access[i] /\ p.deferred[i] = q.deferred[i]
    BY <1>24, <1>27 DEF Booked
  <2> QED
    BY <2>3, <2>4, <2>5, RecallsSame
<1>32. CursorIn(e, h)
  <2>1. page.next \in 0..N
    BY <1>15, <1>29
  <2> QED
    BY <1>24, <1>29, <2>1 DEF CursorIn
<1>33. Fed(e, p, call'[c], h)
  <2>1. FetchedOk(call'[c], h)
    BY <1>2 DEF FetchedOk, Discreet
  <2>2. DisclosedOk(call'[c], e, p, h)
    <3>1. DOMAIN Disclosed(call'[c]) = {}
      BY <1>2 DEF Disclosed, Discreet
    <3> QED
      BY <3>1 DEF DisclosedOk
  <2> QED
    BY <1>28, <1>31, <1>32, <2>1, <2>2 DEF Fed
<1> QED
  BY <1>1, <1>11, <1>25, <1>26, <1>33, FeedStep

-----------------------------------------------------------------------------
(* The feed is brought up to date.                                         *)

LEMMA LiveRows ==
  ASSUME Typed, History, NEW i \in Ids, Live(row[i])
  PROVE  row[i].rev > 0
<1>1. GroupsOf(i) # {}
  BY DEF History, Absent, Live
<1>2. IsFiniteSet(GroupsOf(i)) /\ row[i].rev = Cardinality(GroupsOf(i)) /\ row[i].rev \in Nat
  BY GroupsFinite, EntityForms DEF History
<1>3. Cardinality(GroupsOf(i)) # 0
  BY <1>1, <1>2, FS_EmptySet
<1> QED
  BY <1>2, <1>3

LEMMA VisibilityForms ==
  ASSUME Typed, History, RightsInv, NEW c \in Clients, NEW i \in Ids
  PROVE  LET v == Visibility(c, i)
         IN /\ v \in Visibilities /\ v # None /\ v.status = Status(c, i)
            /\ IF v.status = "active" THEN "read" \in v.rights ELSE v.rights = {}
            /\ v.status = "active" => row[i].rev > 0 /\ v.rev = row[i].rev /\ Live(row[i])
            /\ v.status = "deleted" => ~Live(row[i])
<1>1. PICK v : v = Visibility(c, i)
  OBVIOUS
<1>2. /\ v = [status |-> Status(c, i), rev |-> v.rev, rights |-> v.rights]
      /\ v.rev = (IF Status(c, i) = "revoked" THEN 0 ELSE row[i].rev)
      /\ v.rights = (IF Status(c, i) = "active" THEN rights[c][i] ELSE {})
  BY <1>1 DEF Visibility
<1>3. Status(c, i) \in {"active", "revoked", "deleted"} /\ rights[c][i] \in SUBSET Rights
  BY DEF Status, RightsInv
<1>4. row[i].rev \in Nat
  BY EntityForms
<1>5. /\ Status(c, i) = "active" => Readable(c, i) /\ Live(row[i])
      /\ Status(c, i) = "deleted" => ~Live(row[i])
  <2> HIDE DEF Readable, Live
  <2> QED
    BY DEF Status
<1>6. v \in Visibilities
  BY <1>2, <1>3, <1>4 DEF Visibilities
<1>7. v # None
  BY <1>6, ObjectAssumption DEF Visibilities, Rights
<1>8. Status(c, i) = "active" => row[i].rev > 0
  BY <1>5, LiveRows
<1> QED
  BY <1>1, <1>2, <1>5, <1>6, <1>7, <1>8 DEF Readable

(* The new events come after those there were. *)
LEMMA EventsAdded ==
  ASSUME ObjectInv, NEW c \in Clients
  PROVE  LET old == feed[c].events
             new == ReconciledFeed(c).events
         IN /\ Len(old) \in Nat /\ DOMAIN old = 1..Len(old)
            /\ Len(new) \in Nat /\ DOMAIN new = 1..Len(new) /\ Len(old) <= Len(new)
            /\ \A n \in 1..Len(old) : new[n] = old[n]
            /\ \A n \in 1..Len(new) : n > Len(old) => new[n] \in Fresh(c)
            /\ \A i \in Fresh(c) : \E n \in 1..Len(new) : n > Len(old) /\ new[n] = i
<1>1. PICK S : S = Fresh(c)
  OBVIOUS
<1>2. S \in SUBSET Ids /\ IsFiniteSet(S)
  BY <1>1, Keyless, FS_Subset DEF Fresh
<1>3. PICK t : t = SetToSeq(S)
  OBVIOUS
<1>4. PICK m \in Nat : t \in [1..m -> S] /\ \A i \in S : \E x \in 1..m : t[x] = i
  BY <1>2, <1>3, SetToSeqForms
<1>5. PICK old : old = feed[c].events
  OBVIOUS
<1>6. PICK new : new = old \o t
  OBVIOUS
<1>7. new = ReconciledFeed(c).events
  BY <1>1, <1>3, <1>5, <1>6 DEF ReconciledFeed
<1>8. old \in Seq(Ids) /\ t \in Seq(Ids) /\ Len(t) = m
  <2>1. t \in [1..m -> Ids]
    BY <1>2, <1>4
  <2>2. t \in Seq(Ids) /\ Len(t) = m
    BY <2>1
  <2> QED
    BY <1>5, <2>2, ClientForms DEF FeedOk
<1>9. /\ new \in Seq(Ids) /\ Len(new) = Len(old) + m /\ Len(old) \in Nat
      /\ \A n \in 1..Len(new) : new[n] = IF n <= Len(old) THEN old[n] ELSE t[n - Len(old)]
  <2>1. new \in Seq(Ids) /\ Len(new) = Len(old) + Len(t) /\ Len(old) \in Nat
    <3>1. old \o t \in Seq(Ids)
      BY <1>8
    <3>2. Len(old \o t) = Len(old) + Len(t)
      BY <1>8
    <3>3. Len(old) \in Nat
      BY <1>8
    <3> QED
      BY <1>6, <3>1, <3>2, <3>3
  <2>2. \A n \in 1..Len(old) + Len(t) : (old \o t)[n] = IF n <= Len(old) THEN old[n] ELSE t[n - Len(old)]
    BY <1>8
  <2> QED
    BY <1>6, <1>8, <2>1, <2>2
<1>10. /\ DOMAIN old = 1..Len(old) /\ DOMAIN new = 1..Len(new)
       /\ \A n \in 1..Len(old) : new[n] = old[n]
  BY <1>8, <1>9
<1>11. ASSUME NEW n \in 1..Len(new), n > Len(old)
       PROVE  new[n] \in S
  <2>1. n - Len(old) \in 1..m /\ new[n] = t[n - Len(old)]
    BY <1>9, <1>11
  <2> QED
    BY <1>4, <2>1
<1>12. ASSUME NEW i \in S
       PROVE  \E n \in 1..Len(new) : n > Len(old) /\ new[n] = i
  <2>1. PICK x \in 1..m : t[x] = i
    BY <1>4
  <2>2. Len(old) + x \in 1..Len(new) /\ Len(old) + x > Len(old) /\ (Len(old) + x) - Len(old) = x
    BY <1>9, <2>1
  <2>3. new[Len(old) + x] = i
    BY <1>9, <2>1, <2>2
  <2> QED
    BY <2>2, <2>3
<1> QED
  BY <1>1, <1>5, <1>7, <1>9, <1>10, <1>11, <1>12

(* What a feed that is up to date has seen, and what its clients recall.   *)
LEMMA ReconciledSeen ==
  ASSUME ObjectInv, StatesInv, RightsInv, FeedInv, NEW c \in Clients, NEW i \in Ids,
         NEW h, h = ReconciledFeed(c)
  PROVE  /\ SeenOk(h, i)
         /\ h.seen[i] = None \/ h.seen[i] = Visibility(c, i)
         /\ ToldOf(db[c], h, i) => Recalls(db[c], object[c], h.seen[i], i)
<1>1. Fed(db[c], object[c], call[c], feed[c]) /\ Typed /\ History
  BY DEF FeedInv, StatesInv, ServerInv
<1>2. PICK old : old = feed[c].events
  OBVIOUS
<1>3. PICK new : new = h.events
  OBVIOUS
<1>4. /\ Len(old) \in Nat /\ DOMAIN old = 1..Len(old)
      /\ Len(new) \in Nat /\ DOMAIN new = 1..Len(new) /\ Len(old) <= Len(new)
      /\ \A n \in 1..Len(old) : new[n] = old[n]
      /\ \A n \in 1..Len(new) : n > Len(old) => new[n] \in Fresh(c)
      /\ \A k \in Fresh(c) : \E n \in 1..Len(new) : n > Len(old) /\ new[n] = k
  BY <1>2, <1>3, EventsAdded
<1>5. h.seen[i] = IF i \in Fresh(c) THEN Visibility(c, i) ELSE feed[c].seen[i]
  BY DEF ReconciledFeed
<1>6. SeenOk(feed[c], i)
  BY <1>1 DEF Fed
<1>7. CASE i \in Fresh(c)
  <2>1. PICK v : v = Visibility(c, i)
    OBVIOUS
  <2>2. /\ v \in Visibilities /\ v # None /\ v.status = Status(c, i)
        /\ IF v.status = "active" THEN "read" \in v.rights ELSE v.rights = {}
        /\ v.status = "active" => row[i].rev > 0
        /\ v.status = "deleted" => ~Live(row[i])
    BY <1>1, <2>1, VisibilityForms
  <2>3. feed[c].seen[i] = None => Status(c, i) = "active"
    BY <1>7 DEF Fresh
  <2>4. row[i].rev > 0
    BY <1>6, <2>2, <2>3 DEF SeenOk
  <2>5. PICK n \in 1..Len(new) : n > Len(old) /\ new[n] = i
    BY <1>4, <1>7
  <2>6. SeenOk(h, i)
    BY <1>3, <1>4, <1>5, <1>7, <2>1, <2>2, <2>4, <2>5 DEF SeenOk, Tombstone
  <2>7. ~ToldOf(db[c], h, i)
    <3>1. ASSUME ToldOf(db[c], h, i)
          PROVE  FALSE
      <4>1. db[c].cursor["scope"] # None /\ n <= db[c].cursor["scope"]
        BY <1>3, <1>4, <2>5, <3>1 DEF ToldOf
      <4>2. db[c].cursor["scope"] \in 0..Len(old)
        BY <1>1, <1>2, <4>1 DEF Fed, CursorIn
      <4> QED
        BY <1>4, <2>5, <4>1, <4>2
    <3> QED
      BY <3>1
  <2> QED
    BY <1>5, <1>7, <2>6, <2>7
<1>8. CASE i \notin Fresh(c)
  <2>1. h.seen[i] = feed[c].seen[i]
    BY <1>5, <1>8
  <2>2. feed[c].seen[i] = None \/ feed[c].seen[i] = Visibility(c, i)
    BY <1>8 DEF Fresh
  <2>3. \A n \in 1..Len(new) : new[n] = i => n \in 1..Len(old) /\ old[n] = i
    BY <1>4, <1>8
  <2>4. SeenOk(h, i)
    <3>1. \A n \in DOMAIN h.events : h.events[n] = i => n \in DOMAIN feed[c].events /\ feed[c].events[n] = i
      BY <1>2, <1>3, <1>4, <2>3
    <3>2. \A n \in DOMAIN feed[c].events : n \in DOMAIN h.events /\ h.events[n] = feed[c].events[n]
      BY <1>2, <1>3, <1>4
    <3> QED
      BY <1>6, <2>1, <3>1, <3>2 DEF SeenOk
  <2>5. ToldOf(db[c], h, i) => ToldOf(db[c], feed[c], i)
    BY <1>2, <1>3, <1>4, <2>1 DEF ToldOf
  <2> QED
    BY <1>1, <2>1, <2>2, <2>4, <2>5 DEF Fed
<1> QED
  BY <1>7, <1>8

(* An event of the page is of what the feed has seen. *)
LEMMA FetchedEvent ==
  ASSUME ObjectInv, StatesInv, RightsInv, FeedInv, NEW c \in Clients, NEW h, h = ReconciledFeed(c),
         NEW n \in DOMAIN h.events
  PROVE  LET i == h.events[n]
             x == Event(c, i)
             v == h.seen[i]
         IN /\ x.id = i /\ v # None /\ x.status = v.status /\ x.rights = v.rights
            /\ IF v.status = "active" THEN x.entity # None /\ x.entity.rev = v.rev
               ELSE x.entity = None
<1>1. PICK i : i = h.events[n]
  OBVIOUS
<1>2. i \in Ids
  BY <1>1, FeedReconciled DEF FeedOk
<1>3. SeenOk(h, i) /\ (h.seen[i] = None \/ h.seen[i] = Visibility(c, i)) /\ Typed /\ History
  BY <1>2, ReconciledSeen DEF StatesInv, ServerInv
<1>4. PICK v : v = h.seen[i]
  OBVIOUS
<1>5. v # None /\ v = Visibility(c, i)
  BY <1>1, <1>3, <1>4 DEF SeenOk
<1>6. v.status = "active" => v.rev = row[i].rev /\ Live(row[i])
  BY <1>2, <1>3, <1>5, VisibilityForms
<1>7. PICK x : x = Event(c, i)
  OBVIOUS
<1>8. /\ x.id = i /\ x.status = v.status /\ x.rights = v.rights
      /\ x.entity = IF v.status = "active" THEN row[i] ELSE None
  BY <1>5, <1>7 DEF Event
<1>9. v.status = "active" => x.entity # None
  <2>1. RowsKept /\ Committed(i, db[c].shadow[i].rev)
    BY <1>2, ClientForms DEF ObjectInv, ServerOk, ReplicaOk
  <2>2. TellsState(x, db[c]) \/ TakesAway(x)
    BY <1>2, <1>7, <2>1, EventOk
  <2> QED
    BY <1>8, <2>2 DEF TellsState, TakesAway
<1> QED
  BY <1>1, <1>4, <1>5, <1>6, <1>7, <1>8, <1>9

LEMMA FetchPageFed ==
  ASSUME ObjectInv, StatesInv, RightsInv, FeedInv, NEW c \in Clients, FetchPage(c)
  PROVE  FeedInv'
<1>1. PICK after : after = IF Cursor(c) = None THEN 0 ELSE Cursor(c)
  OBVIOUS
<1>2. PICK h : h = ReconciledFeed(c)
  OBVIOUS
<1>3. PICK events : events = h.events
  OBVIOUS
<1>4. PICK page : page = EventsPage(c, events, after)
  OBVIOUS
<1>5. PICK end : end = IF Len(events) <= after + PageSize THEN Len(events) ELSE after + PageSize
  OBVIOUS
<1>6. /\ page.after = after /\ page.next = end
      /\ page.events = [n \in 1..(end - after) |-> Event(c, events[after + n])]
  BY <1>4, <1>5 DEF EventsPage
<1>7. /\ Moves(c, Fetched(page, TRUE)) /\ UNCHANGED <<row, db, object>>
      /\ feed' = [feed EXCEPT ![c] = h]
  BY <1>1, <1>2, <1>3, <1>4 DEF FetchPage, serverSide, serverVars
<1>8. /\ feed'[c] = h /\ \A k \in Clients \ {c} : feed'[k] = feed[k]
      /\ call'[c] = Fetched(page, TRUE) /\ \A k \in Clients \ {c} : call'[k] = call[k]
  BY <1>7, Moved, Replaced DEF ObjectInv, PerClient
<1>9. /\ Len(feed[c].events) \in Nat
      /\ Len(events) \in Nat /\ DOMAIN events = 1..Len(events) /\ Len(feed[c].events) <= Len(events)
  BY <1>2, <1>3, EventsAdded
<1>10. CursorIn(db[c], feed[c])
  BY DEF FeedInv, Fed
<1>11. CursorIn(db[c], h)
  BY <1>3, <1>9, <1>10 DEF CursorIn
<1>12. after \in 0..Len(events)
  BY <1>1, <1>3, <1>9, <1>11 DEF CursorIn, Cursor
<1>13. end \in after..Len(events)
  BY <1>5, <1>9, <1>12, SystemAssumption
<1>14. \A n \in 1..(end - after) : after + n \in DOMAIN events
  BY <1>9, <1>12, <1>13
<1>15. FetchedOk(Fetched(page, TRUE), h)
  <2>1. PICK e : e = Fetched(page, TRUE)
    OBVIOUS
  <2>2. e.page = page
    BY <2>1 DEF Fetched
  <2>3. ASSUME NEW n \in DOMAIN page.events
        PROVE  LET x == page.events[n]
                   v == h.seen[x.id]
               IN /\ x.id = h.events[page.after + n]
                  /\ v # None /\ x.status = v.status /\ x.rights = v.rights
                  /\ IF v.status = "active" THEN x.entity # None /\ x.entity.rev = v.rev
                     ELSE x.entity = None
    <3>1. n \in 1..(end - after) /\ page.events[n] = Event(c, events[after + n])
      BY <1>6
    <3>2. PICK m \in DOMAIN h.events : m = after + n
      BY <1>3, <1>14, <3>1
    <3>3. PICK i : i = h.events[m]
      OBVIOUS
    <3>4. PICK x : x = Event(c, i)
      OBVIOUS
    <3>5. PICK v : v = h.seen[i]
      OBVIOUS
    <3>6. /\ x.id = i /\ v # None /\ x.status = v.status /\ x.rights = v.rights
          /\ IF v.status = "active" THEN x.entity # None /\ x.entity.rev = v.rev
             ELSE x.entity = None
      BY <1>2, <3>3, <3>4, <3>5, FetchedEvent
    <3>7. page.events[n] = x /\ h.events[page.after + n] = i
      BY <1>3, <1>6, <3>1, <3>2, <3>3, <3>4
    <3> QED
      BY <3>5, <3>6, <3>7
  <2>4. page.after \in Nat /\ page.next \in page.after..Len(h.events)
    BY <1>3, <1>6, <1>9, <1>12, <1>13
  <2>5. DOMAIN page.events = 1..(page.next - page.after)
    BY <1>6
  <2> QED
    BY <2>1, <2>2, <2>3, <2>4, <2>5 DEF FetchedOk
<1>16. DisclosedOk(Fetched(page, TRUE), db[c], object[c], h)
  <2>1. DOMAIN Disclosed(Fetched(page, TRUE)) = {}
    BY DEF Disclosed, Fetched
  <2> QED
    BY <2>1 DEF DisclosedOk
<1>17. \A i \in Ids : SeenOk(h, i) /\ (ToldOf(db[c], h, i) => Recalls(db[c], object[c], h.seen[i], i))
  BY <1>2, ReconciledSeen
<1>18. Fed(db[c], object[c], Fetched(page, TRUE), h)
  BY <1>11, <1>15, <1>16, <1>17 DEF Fed
<1> QED
  BY <1>7, <1>8, <1>18, FedKept

-----------------------------------------------------------------------------
(* The server writes.                                                      *)

LEMMA RowsOnlyGrow ==
  ASSUME Typed, Step
  PROVE  RowsPersist
<1>1. \A i \in Ids : row[i].rev \in Nat
  BY EntityForms
<1>2. \A i \in Ids : /\ row'[i].rev \in Nat /\ row'[i].rev >= row[i].rev
                     /\ Tombstone(row[i]) => Tombstone(row'[i])
  BY RevisionsGrow
<1> QED
  BY <1>1, <1>2 DEF RowsPersist

LEMMA ServerFed ==
  ASSUME FeedInv, RowsPersist, UNCHANGED <<db, object, call, feed>>
  PROVE  FeedInv'
<1>1. ASSUME NEW k \in Clients
      PROVE  Fed(db[k], object[k], call[k], feed[k])'
  <2>1. Fed(db'[k], object'[k], call'[k], feed'[k])
    BY DEF FeedInv
  <2> QED
    BY <2>1, FedStays
<1> QED
  BY <1>1 DEF FeedInv

LEMMA WriteFed ==
  ASSUME StatesInv, FeedInv, ObjectWrite
  PROVE  FeedInv'
<1>1. Typed /\ ServerWrite /\ UNCHANGED <<db, object, call, feed>>
  BY DEF ObjectWrite, StatesInv, ServerInv
<1>2. Step
  BY <1>1, OwnSound DEF Step
<1> QED
  BY <1>1, <1>2, RowsOnlyGrow, ServerFed

LEMMA PushFed ==
  ASSUME StatesInv, FeedInv, NEW c \in Clients, ObjectPush(c)
  PROVE  FeedInv'
<1>1. Typed /\ UNCHANGED <<db, object, call, feed>>
  BY DEF ObjectPush, StatesInv, ServerInv
<1>2. Step
  BY PushStates
<1> QED
  BY <1>1, <1>2, RowsOnlyGrow, ServerFed

LEMMA QuietFed ==
  ASSUME FeedInv, UNCHANGED <<row, db, object, call, feed>>
  PROVE  FeedInv'
<1>1. RowsPersist
  BY DEF RowsPersist
<1> QED
  BY <1>1, ServerFed

-----------------------------------------------------------------------------
(* Every client has read what its cursor says.                             *)

LEMMA FeedInitially ==
  ASSUME ObjectInit
  PROVE  FeedInv
<1> SUFFICES ASSUME NEW c \in Clients
             PROVE  Fed(db[c], object[c], call[c], feed[c])
  BY DEF FeedInv
<1>1. db[c].cursor["scope"] = None
  BY InitialReplicas DEF ObjectInit
<1>2. PICK h : h = feed[c]
  OBVIOUS
<1>3. h.events = <<>> /\ \A i \in Ids : h.seen[i] = None
  BY <1>2 DEF ObjectInit
<1>4. call[c] = Resting
  BY DEF ObjectInit
<1>5. CursorIn(db[c], h)
  BY <1>1 DEF CursorIn
<1>6. FetchedOk(call[c], h)
  BY <1>4 DEF FetchedOk, Resting
<1>7. DisclosedOk(call[c], db[c], object[c], h)
  <2>1. DOMAIN Disclosed(call[c]) = {}
    BY <1>4 DEF Disclosed, Resting
  <2> QED
    BY <2>1 DEF DisclosedOk
<1>8. \A i \in Ids : SeenOk(h, i) /\ ~ToldOf(db[c], h, i)
  BY <1>3 DEF SeenOk, ToldOf
<1> QED
  BY <1>2, <1>5, <1>6, <1>7, <1>8 DEF Fed

LEMMA FeedInductive ==
  ASSUME ObjectInv, StatesInv, RightsInv, FeedInv, [ObjectNext]_objectVars
  PROVE  FeedInv'
<1>1. CASE UNCHANGED objectVars
  BY <1>1, QuietFed DEF objectVars, systemVars, serverVars
<1>2. CASE Grant
  BY <1>2, QuietFed DEF Grant, systemVars, serverVars
<1>3. ASSUME NEW c \in Clients, EngineCycle(c)
      PROVE  FeedInv'
  BY <1>3, DrainFed, MoveFed, PrepareFed, SkipFed, RespondFed, SettleFed, ObserveFed,
     WithoutStateFed, FetchPageFed, ApplyPageFed DEF EngineCycle
<1> QED
  BY <1>1, <1>2, <1>3, WriteFed, EditFed, PushFed, ResumeFed, DiscardFed DEF ObjectNext

LEMMA RightsAlways == ObjectSpec => []RightsInv
<1>1. ObjectInit => RightsInv
  BY RightsInitially
<1>2. ObjectInv /\ RightsInv /\ [ObjectNext]_objectVars => RightsInv'
  BY RightsInductive
<1> QED
  BY <1>1, <1>2, ObjectAlways, PTL DEF ObjectSpec

LEMMA FeedAlways == ObjectSpec => []FeedInv
<1>1. ObjectInit => FeedInv
  BY FeedInitially
<1>2. ObjectInv /\ StatesInv /\ RightsInv /\ FeedInv /\ [ObjectNext]_objectVars => FeedInv'
  BY FeedInductive
<1> QED
  BY <1>1, <1>2, ObjectAlways, StatesAlways, RightsAlways, PTL DEF ObjectSpec

(* A client that read its feed to the end recalls what the server has.     *)
LEMMA DeliveredRecalls ==
  ASSUME ObjectInv, StatesInv, RightsInv, FeedInv, NEW c \in Clients, NEW i \in Ids,
         Delivered(c), feed[c].seen[i] # None
  PROVE  /\ feed[c].seen[i] = Visibility(c, i)
         /\ Recalls(db[c], object[c], feed[c].seen[i], i)
<1>1. feed[c].seen[i] = Visibility(c, i)
  BY DEF Delivered, Fresh
<1>2. PICK h : h = feed[c]
  OBVIOUS
<1>3. Len(h.events) \in Nat /\ DOMAIN h.events = 1..Len(h.events)
  <2>1. FeedOk(h)
    BY <1>2, ClientForms
  <2> QED
    BY <2>1 DEF FeedOk
<1>4. db[c].cursor["scope"] = Len(h.events) /\ db[c].cursor["scope"] # None
  BY <1>2, <1>3, ClientAssumption DEF Delivered, Cursor
<1>5. ToldOf(db[c], h, i)
  BY <1>2, <1>3, <1>4 DEF ToldOf
<1> QED
  BY <1>1, <1>2, <1>5 DEF FeedInv, Fed

LEMMA FeedsConverge ==
  ASSUME ObjectInv, StatesInv, RightsInv, FeedInv
  PROVE  ObjectsConverge
<1> SUFFICES ASSUME NEW c \in Clients, NEW i \in Ids, Delivered(c), ~OnlyAnswered(c, i)
             PROVE  /\ Status(c, i) # "active" => ShownTo(c, i) = None
                    /\ Status(c, i) = "active" /\ Untouched(c, i) => ShownTo(c, i) = row[i].data
  BY DEF ObjectsConverge
<1>1. PICK v : v = Visibility(c, i)
  OBVIOUS
<1>2. PICK d : d = db[c]
  OBVIOUS
<1>3. PICK o : o = object[c]
  OBVIOUS
<1>4. PICK a : a = o.access[i]
  OBVIOUS
<1>5. feed[c].seen[i] = v /\ Recalls(d, o, v, i)
  BY <1>1, <1>2, <1>3, DeliveredRecalls DEF OnlyAnswered
<1>6. Typed /\ History
  BY DEF StatesInv, ServerInv
<1>7. /\ v.status = Status(c, i)
      /\ v.status = "active" => v.rev = row[i].rev /\ Live(row[i])
  BY <1>1, <1>6, VisibilityForms
<1>8. None \notin Accesses
  BY ObjectAssumption DEF Accesses, Statuses, Rights
<1>9. ShownTo(c, i) = IF d.local[i] # None /\ (IF a = None THEN d.local[i].rev = 0 ELSE "read" \in a.rights)
                      THEN d.local[i].data ELSE None
  BY <1>2, <1>3, <1>4 DEF ShownTo
<1>10. CASE Status(c, i) # "active"
  <2>1. RecallsEnd(d, o, i)
    BY <1>5, <1>7, <1>10 DEF Recalls
  <2>2. a # None /\ ~(a.status = "revoked" /\ "read" \in a.rights)
    BY <1>3, <1>4, <1>8, <2>1 DEF RecallsEnd, OnlyAnswered
  <2>3. "read" \notin a.rights \/ d.local[i] = None
    BY <1>4, <2>1, <2>2 DEF RecallsEnd, GivenUp
  <2> QED
    BY <1>9, <1>10, <2>2, <2>3
<1>11. CASE Status(c, i) = "active" /\ Untouched(c, i)
  <2>1. o.deferred[i] = None /\ ~Changed(d, i)
    BY <1>2, <1>3, <1>11 DEF Untouched, HasDraft
  <2>2. RecallsState(d, o, v, i) /\ ~Tombstone(row[i])
    BY <1>5, <1>7, <1>11 DEF Recalls, Tombstone
  <2>3. a # None /\ "read" \in a.rights /\ d.shadow[i].rev >= row[i].rev
    BY <1>4, <1>7, <1>8, <1>11, <2>1, <2>2 DEF RecallsState
  <2>4. Historical(i, d.shadow[i]) /\ Replica(d)
    BY <1>2, StateForms
  <2>5. d.shadow[i].rev \in Nat /\ d.shadow[i].rev <= row[i].rev /\ row[i].rev \in Nat
    BY <1>6, <2>4, HistoricalForms, EntityForms
  <2>6. d.shadow[i] = row[i]
    BY <1>6, <2>3, <2>4, <2>5, LatestIsRow
  <2>7. Shown(d.local[i]) = row[i].data
    BY <2>1, <2>4, <2>6, UnchangedShows DEF Replica, Fit
  <2> QED
    BY <1>9, <1>11, <2>3, <2>7 DEF Shown
<1> QED
  BY <1>10, <1>11

(* ObjectsConverge, for any number of clients, objects, rights, edits and  *)
(* pages: a client that read its feed to the end shows nothing of an       *)
(* object that was taken from it, and of every other object that it does   *)
(* not edit the server's row (object_log.rs reconcile_feed,                *)
(* object_client.rs apply_page, drain_deferred, finish_without_state).     *)
THEOREM ObjectReadersConverge == ObjectSpec => []ObjectsConverge
<1>1. ObjectInv /\ StatesInv /\ RightsInv /\ FeedInv => ObjectsConverge
  BY FeedsConverge
<1> QED
  BY <1>1, ObjectAlways, StatesAlways, RightsAlways, FeedAlways, PTL
=============================================================================
