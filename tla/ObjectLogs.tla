----------------------------- MODULE ObjectLogs -----------------------------
(***************************************************************************)
(* Protocol 3 (che-sync/src/object_log.rs, object_client.rs): the objects  *)
(* of one model without foreign keys, each under rights of its own that    *)
(* the server's application grants and takes away.  For every client the   *)
(* server keeps a feed of the objects whose visible state changed; a page  *)
(* of it has the state and the rights of the moment it is read.  A client  *)
(* keeps drafts of objects that it may no longer read, hidden, until the   *)
(* application reviews them.                                               *)
(*                                                                         *)
(* The stored payloads are as in ModelLogs, and left out.                  *)
(***************************************************************************)
EXTENDS SyncSystem

CONSTANTS
  Grants,      \* the rights an object may be given
  MaxGrants    \* bound: changes of rights

ASSUME ObjectAssumption ==
  /\ Protocol = 3
  /\ IsFiniteSet(Ids)          \* keys have a fixed width
  /\ Grants \subseteq SUBSET {"read", "change", "delete"}
  /\ MaxGrants \in Nat
  /\ None \notin [rights : SUBSET {"read", "change", "delete"},
                  status : {"active", "review", "revoked", "deleted", "discarded"}]
  /\ None \notin [rights : SUBSET {"read", "change", "delete"}, rev : Nat,
                  status : {"active", "revoked", "deleted"}]

VARIABLES
  rights,      \* client -> id -> rights, as the application's policy has them
  granted,     \* changes of rights so far
  feed,        \* client -> what was seen last of each id, and the events: ids
  object       \* client -> the access it knows of, and what it put aside

objectVars == <<systemVars, rights, granted, feed, object>>

serverSide == <<serverVars, rights, granted>>

Cursor(c) == db[c].cursor["scope"]

(* A client's own record of an object. *)
Access(R, status) == [rights |-> R, status |-> status]

-----------------------------------------------------------------------------
(* The server: feeds.                                                      *)

Readable(c, i) == "read" \in rights[c][i]

Status(c, i) ==
  IF ~Readable(c, i) THEN "revoked" ELSE IF ~Live(row[i]) THEN "deleted" ELSE "active"

(* What client c may know of object i. *)
Visibility(c, i) ==
  LET status == Status(c, i)
  IN [status |-> status,
      rev    |-> IF status = "revoked" THEN 0 ELSE row[i].rev,
      rights |-> IF status = "active" THEN rights[c][i] ELSE {}]

(* Objects whose visibility changed; nothing is told of an object that was *)
(* never visible.                                                          *)
Fresh(c) ==
  {i \in Ids : IF feed[c].seen[i] = None THEN Status(c, i) = "active"
               ELSE feed[c].seen[i] # Visibility(c, i)}

ReconciledFeed(c) ==
  [seen   |-> [i \in Ids |-> IF i \in Fresh(c) THEN Visibility(c, i) ELSE feed[c].seen[i]],
   events |-> feed[c].events \o SetToSeq(Fresh(c))]

(* An event of the page, however old it is. *)
Event(c, i) ==
  LET now == Visibility(c, i)
  IN [id |-> i, status |-> now.status, rights |-> now.rights,
      entity |-> IF now.status = "active" THEN row[i] ELSE None]

EventsPage(c, events, after) ==
  LET end == IF Len(events) <= after + PageSize THEN Len(events) ELSE after + PageSize
  IN [after |-> after, next |-> end,
      events |-> [n \in 1..(end - after) |-> Event(c, events[after + n])]]

-----------------------------------------------------------------------------
(* The server: writes and answers.                                         *)

(* The application's write policy: the right for the mutation's action. *)
Permitted(c, muts) ==
  \A i \in DOMAIN muts :
    row[i].rev > 0 => (IF muts[i].changes = None THEN "delete" ELSE "change") \in rights[c][i]

ObjectPush(c) ==
  \E op \in db[c].outbox :
    LET req == [key |-> <<c, op.number>>, muts |-> op.muts]
    IN /\ IF Permitted(c, op.muts) \/ Receipted(req) THEN Push(req)
          ELSE /\ Answer(req, Result("rejected", [i \in {} |-> Absent]))
               /\ UNCHANGED <<row, journal, retained>>
       /\ UNCHANGED <<db, call, made, edits, rights, granted, feed, object>>

(* Only the outcome is told when the receipt has what the client may not   *)
(* read, or what is not current (object_write_result).                     *)
Withheld(c, result) ==
  \E i \in DOMAIN result.entities : ~Readable(c, i) \/ row[i] # result.entities[i]

Grant ==
  /\ granted < MaxGrants
  /\ granted' = granted + 1
  /\ \E c \in Clients : \E i \in Ids : \E R \in Grants \ {rights[c][i]} :
       rights' = [rights EXCEPT ![c][i] = R]
  /\ UNCHANGED <<systemVars, feed, object>>

ObjectWrite == ServerWrite /\ UNCHANGED <<db, call, made, edits, rights, granted, feed, object>>

-----------------------------------------------------------------------------
(* The application.                                                        *)

HasDraft(d, i) == Changed(d, i)

(* A known object needs the right of the action and no pending review, a   *)
(* new one the model's permission to create.                               *)
CanSend(o, i, right) ==
  IF o.access[i] = None THEN o.create
  ELSE {"read", right} \subseteq o.access[i].rights /\ o.access[i].status = "active"

RightOf(d, i) == IF d.local[i] = None THEN "delete" ELSE "change"

ObjectEdit(c) ==
  /\ edits < MaxEdits
  /\ edits' = edits + 1
  /\ \E i \in Ids :
       \/ /\ CanSend(object[c], i, "change")
          /\ \E data \in DataOf(i) : Insert(c, i, data) \/ Update(c, i, data)
       \/ CanSend(object[c], i, "delete") /\ Delete(c, i)
       \/ \E data \in DataOf(i) \cup {None} : Resolve(c, i, data)
  /\ UNCHANGED <<call, made, serverSide, feed, object>>

(* The application lets a reviewed draft be sent. *)
ResumeObject(c, i) ==
  LET needed == IF LocallyDeleted(db[c], i) THEN "delete" ELSE "change"
  IN /\ object[c].access[i] # None
     /\ {"read", needed} \subseteq object[c].access[i].rights
     /\ object[c].access[i].status # "active"
     /\ object' = [object EXCEPT ![c].access[i].status = "active"]
     /\ UNCHANGED <<systemVars, rights, granted, feed>>

Submitted(d) == UNION {DOMAIN op.muts : op \in d.outbox}

(* Defect: what was accepted of the discarded object is still expected. *)
DiscardedKeepingIntent(o, i) == [o EXCEPT !.access[i].status = "discarded"]

Discarded(o, i) == [o EXCEPT !.access[i].status = "discarded", !.intent[i] = None]

(* The application gives up the draft of a hidden object. *)
DiscardRetainedDraft(c, i) ==
  LET d == db[c]
  IN /\ i \notin Submitted(d)
     /\ object[c].access[i] # None
     /\ "read" \notin object[c].access[i].rights
     /\ object[c].access[i].status # "discarded"
     /\ db' = [db EXCEPT ![c].local[i] = None, ![c].shadow[i] = Absent,
                         ![c].dirty = @ \ {i}, ![c].deleting = @ \ {i}, ![c].conflict[i] = None]
     /\ object' = [object EXCEPT ![c] = Discarded(@, i)]
     /\ UNCHANGED <<call, made, edits, serverSide, feed>>

-----------------------------------------------------------------------------
(* Delivered states wait while an operation of their object is on its way. *)

(* Defect: the merge forgets what was accepted without its state. *)
BaseForShadow(d, o, i) == ReceiveBase(d, i)

(* What was accepted without its state: the base of the next merge. *)
BaseFor(d, o, i) == IF o.intent[i] # None THEN o.intent[i].row ELSE ReceiveBase(d, i)

(* States to merge; older ones are dropped. *)
Drained(d, o) == {i \in Ids : o.deferred[i] # None /\ i \notin Submitted(d)}

Current(d, o, i) ==
  LET rev == o.deferred[i].rev
  IN /\ "read" \in o.access[i].rights
     /\ \/ rev > d.shadow[i].rev
        \/ rev = d.shadow[i].rev /\ (o.intent[i] # None \/ Retryable(d, i))

(* Otherwise: "accepted intent shadow base changed". *)
IntentsFit(d, o) ==
  \A i \in Drained(d, o) :
    Current(d, o, i) /\ o.intent[i] # None => o.intent[i].base = d.shadow[i].rev

DrainedDatabase(d, o) ==
  ApplyUpdates(d, [i \in {k \in Drained(d, o) : Current(d, o, k)} |->
                     Reconciled(d, i, BaseFor(d, o, i), o.deferred[i])])

(* An object without a draft needs no review. *)
DrainedObject(d, o) ==
  LET after == DrainedDatabase(d, o)
      reviewed(i) == /\ i \in Drained(d, o) /\ "read" \in o.access[i].rights
                     /\ o.access[i].status = "review" /\ ~HasDraft(after, i)
  IN [o EXCEPT
        !.deferred = [i \in Ids |-> IF i \in Drained(d, o) THEN None ELSE @[i]],
        !.intent   = [i \in Ids |-> IF i \in Drained(d, o) /\ Current(d, o, i) THEN None ELSE @[i]],
        !.access   = [i \in Ids |-> IF o.access[i] # None /\ reviewed(i)
                                    THEN [@[i] EXCEPT !.status = "active"] ELSE @[i]]]

Drain(c) ==
  /\ IntentsFit(db[c], object[c])
  /\ db' = [db EXCEPT ![c] = DrainedDatabase(db[c], object[c])]
  /\ object' = [object EXCEPT ![c] = DrainedObject(db[c], object[c])]

(* Defect: a draft of an object that is readable again is sent at once. *)
ToldActive(d, o, e) ==
  [o EXCEPT !.access[e.id] = Access(e.rights, e.status), !.deferred[e.id] = e.entity]

(* One event of a page: a draft that was hidden has to be reviewed. *)
Told(d, o, e) ==
  LET hidden == o.access[e.id] # None /\ o.access[e.id].status # "active"
      status == IF e.status = "active" /\ HasDraft(d, e.id) /\ hidden THEN "review" ELSE e.status
  IN [o EXCEPT !.access[e.id] = Access(e.rights, status), !.deferred[e.id] = e.entity]

TellAll(d, o, events) == FoldLeft(LAMBDA x, e : Told(d, x, e), o, events)

-----------------------------------------------------------------------------
(* The cycle of the client's engine.  flush settles the operation on its   *)
(* way or, when new ones may be prepared, sends one; pull reads a page.    *)
(* sync_once runs these phases in a row, the application may in any order. *)

Resting == [at |-> "rest"]
Choosing(new) == [at |-> "choose", new |-> new]
Waiting(number) == [at |-> "submitted", number |-> number]
Replied(number, result, withheld) ==
  [at |-> "replied", number |-> number, result |-> result, withheld |-> withheld]
Disclosing(entities) == [at |-> "settled", entities |-> entities]
Ending == [at |-> "last"]
Fetched(page, create) == [at |-> "fetched", page |-> page, create |-> create]

Moves(c, e) == call' = [call EXCEPT ![c] = e]

(* flush starts with what a crash left to apply; the first flush of        *)
(* sync_once prepares nothing new.                                         *)
Recover(c) ==
  /\ call[c] = Resting
  /\ Drain(c)
  /\ \E new \in BOOLEAN : Moves(c, Choosing(new))
  /\ UNCHANGED <<made, edits, serverSide, feed>>

Resubmit(c) ==
  /\ call[c].at = "choose"
  /\ \E op \in db[c].outbox : Moves(c, Waiting(op.number))
  /\ UNCHANGED <<db, made, edits, serverSide, feed, object>>

(* The drafts that may be sent; a new operation needs a feed that was read *)
(* and none of them in conflict.                                           *)
Selection(c) == {i \in Unsent(db[c]) : CanSend(object[c], i, RightOf(db[c], i))}

MayPrepare(c) ==
  /\ call[c].new /\ db[c].outbox = {} /\ Cursor(c) # None
  /\ Selection(c) \cap Conflicts(db[c]) = {}

PrepareObject(c) ==
  LET d == db[c]
  IN /\ call[c].at = "choose"
     /\ MayPrepare(c) /\ Selection(c) # {}
     /\ \E S \in FirstOf(d, Selection(c)) :
          db' = [db EXCEPT ![c] = [Tidied(d) EXCEPT !.outbox =
                   {[number |-> made[c] + 1, feed |-> "scope", muts |-> [i \in S |-> MutationOf(d, i)]]}]]
     /\ made' = [made EXCEPT ![c] = @ + 1]
     /\ Moves(c, Waiting(made[c] + 1))
     /\ UNCHANGED <<edits, serverSide, feed, object>>

SkipObject(c) ==
  /\ call[c].at = "choose"
  /\ db[c].outbox = {}
  /\ IF MayPrepare(c) THEN Selection(c) = {} /\ db' = [db EXCEPT ![c] = Tidied(db[c])]
     ELSE UNCHANGED db
  /\ Moves(c, Ending)
  /\ UNCHANGED <<made, edits, serverSide, feed, object>>

(* The server's answer, with the rights and the rows of this moment. *)
Respond(c) ==
  /\ call[c].at = "submitted"
  /\ \E r \in replies :
       /\ r.key = <<c, call[c].number>>
       /\ Moves(c, Replied(call[c].number, r.result, Withheld(c, r.result)))
  /\ UNCHANGED <<db, made, edits, serverSide, feed, object>>

Operation(c) == {op \in db[c].outbox : op.number = call[c].number}

SettleObject(c) ==
  /\ call[c].at = "replied" /\ ~call[c].withheld
  /\ \E op \in Operation(c) : Finish(c, op, call[c].result)
  /\ Moves(c, Disclosing(call[c].result.entities))
  /\ UNCHANGED <<made, edits, serverSide, feed, object>>

(* In a transaction of its own: an entity that was disclosed is readable.  *)
ObserveDisclosures(c) ==
  LET told == call[c].entities
      seen(i) == LET old == object[c].access[i]
                 IN IF ~Live(told[i]) THEN Access({}, "deleted")
                    ELSE IF old = None THEN Access({"read"}, "active")
                    ELSE [old EXCEPT !.rights = @ \cup {"read"}]
  IN /\ call[c].at = "settled"
     /\ object' = [object EXCEPT ![c].access =
                     [i \in Ids |-> IF i \in DOMAIN told THEN seen(i) ELSE @[i]]]
     /\ Moves(c, Ending)
     /\ UNCHANGED <<db, made, edits, serverSide, feed>>

(* Defect: the feed is not read again. *)
SettledKeepingCursor(c, op) == [db[c] EXCEPT !.outbox = @ \ {op}]

(* The operation is over; the feed is read again from its start, for the   *)
(* state and the rights that were withheld.                                *)
Settled(c, op) ==
  [db[c] EXCEPT !.outbox = @ \ {op}, !.cursor["scope"] = IF @ = None THEN None ELSE 0]

FinishWithoutState(c) ==
  /\ call[c].at = "replied" /\ call[c].withheld
  /\ \E op \in Operation(c) :
       LET o == object[c]
           accepted == call[c].result.kind = "accepted"
           intent(i) == [base |-> op.muts[i].base, row |-> SentRow(db[c], i, op.muts[i])]
           mutated(i) == i \in DOMAIN op.muts
       IN /\ accepted => ~ShadowMoved(db[c], op)
          /\ db' = [db EXCEPT ![c] = Settled(c, op)]
          /\ object' = [object EXCEPT ![c] = [o EXCEPT
               !.intent = [i \in Ids |-> IF mutated(i) /\ accepted THEN intent(i) ELSE o.intent[i]],
               !.access = [i \in Ids |-> IF mutated(i) THEN Access({}, "review") ELSE o.access[i]]]]
  /\ Moves(c, Ending)
  /\ UNCHANGED <<made, edits, serverSide, feed>>

(* The end of flush. *)
EndFlush(c) ==
  /\ call[c] = Ending
  /\ Drain(c)
  /\ Moves(c, Resting)
  /\ UNCHANGED <<made, edits, serverSide, feed>>

FetchPage(c) ==
  LET after == IF Cursor(c) = None THEN 0 ELSE Cursor(c)
  IN /\ call[c] = Resting
     /\ feed' = [feed EXCEPT ![c] = ReconciledFeed(c)]
     /\ Moves(c, Fetched(EventsPage(c, ReconciledFeed(c).events, after), TRUE))
     /\ UNCHANGED <<db, made, edits, serverSide, object>>

(* The page in one transaction (apply_page). *)
ApplyPage(c) ==
  LET page == call[c].page
      told == TellAll(db[c], object[c], page.events)
  IN /\ call[c].at = "fetched"
     /\ page.after = IF Cursor(c) = None THEN 0 ELSE Cursor(c)
     /\ IntentsFit(db[c], told)
     /\ db' = [db EXCEPT ![c] = [DrainedDatabase(db[c], told) EXCEPT !.cursor["scope"] = page.next]]
     /\ object' = [object EXCEPT ![c] = [DrainedObject(db[c], told) EXCEPT !.create = call[c].create]]
     /\ Moves(c, Resting)
     /\ UNCHANGED <<made, edits, serverSide, feed>>

(* An error, a timeout, or the end of the process. *)
Interrupt(c) ==
  /\ call[c] # Resting
  /\ Moves(c, Resting)
  /\ UNCHANGED <<db, made, edits, serverSide, feed, object>>

EngineCycle(c) ==
  \/ Recover(c) \/ Resubmit(c) \/ PrepareObject(c) \/ SkipObject(c) \/ Respond(c)
  \/ SettleObject(c) \/ ObserveDisclosures(c) \/ FinishWithoutState(c) \/ EndFlush(c)
  \/ FetchPage(c) \/ ApplyPage(c) \/ Interrupt(c)

(* A database of protocol 2 has the rows, perhaps with an edit that was    *)
(* not sent, and no right to send it.                                      *)
Downloaded == Tidied(ApplyGroup(EmptyDatabase, SeedGroup))

UpgradedDatabases ==
  {Downloaded} \cup UNION {{[Downloaded EXCEPT !.local[i].data = data, !.dirty = {i}] :
                              data \in DataOf(i) \ {Seed[i]}} : i \in DOMAIN Seed}

NothingKnown(S) ==
  [access   |-> [i \in Ids |-> IF i \in S THEN Access({}, "review") ELSE None],
   create   |-> FALSE,
   deferred |-> [i \in Ids |-> None],
   intent   |-> [i \in Ids |-> None]]

ObjectInit ==
  /\ row = [i \in Ids |-> IF i \in DOMAIN Seed THEN SeedGroup[i] ELSE Absent]
  /\ journal = SeedJournal /\ retained = 1..Len(SeedJournal)
  /\ receipts = {} /\ replies = {}
  /\ db \in [Clients -> {EmptyDatabase} \cup UpgradedDatabases]
  /\ object = [c \in Clients |-> NothingKnown(IF db[c] = EmptyDatabase THEN {} ELSE DOMAIN Seed)]
  /\ call = [c \in Clients |-> Resting]
  /\ made = [c \in Clients |-> 0]
  /\ edits = 0
  /\ rights = [c \in Clients |-> [i \in Ids |-> UNION Grants]]
  /\ granted = 0
  /\ feed = [c \in Clients |-> [seen |-> [i \in Ids |-> None], events |-> <<>>]]

ObjectNext ==
  \/ Grant \/ ObjectWrite
  \/ \E c \in Clients :
       \/ ObjectEdit(c) \/ ObjectPush(c) \/ EngineCycle(c)
       \/ \E i \in Ids : ResumeObject(c, i) \/ DiscardRetainedDraft(c, i)

ObjectSpec == ObjectInit /\ [][ObjectNext]_objectVars

-----------------------------------------------------------------------------
(* Properties.                                                             *)

(* The client read its feed to the end, and nothing changed since. *)
Delivered(c) == Fresh(c) = {} /\ Cursor(c) = Len(feed[c].events)

(* What ordinary reads of the application return (prepare_read). *)
ShownTo(c, i) ==
  LET r == db[c].local[i]
      a == object[c].access[i]
  IN IF r # None /\ (IF a = None THEN r.rev = 0 ELSE "read" \in a.rights) THEN r.data ELSE None

(* Nothing of the object is on its way or waits for the application. *)
Untouched(c, i) ==
  /\ i \notin Submitted(db[c]) /\ ~HasDraft(db[c], i)
  /\ db[c].conflict[i] = None /\ object[c].deferred[i] = None

(* A client that read its feed to the end shows no row of the server that  *)
(* it may not read: "revocation-aware local reads" (che-sync/CHANGELOG.md).*)
RevokedHidden ==
  \A c \in Clients : \A i \in Ids : Delivered(c) /\ ~Readable(c, i) =>
    ShownTo(c, i) = None \/ db[c].local[i].rev = 0

(* What the client knows of the object it has from an answer, and the feed *)
(* does not see that it has to be taken back.                              *)
OnlyAnswered(c, i) ==
  LET a == object[c].access[i]
  IN \/ feed[c].seen[i] = None
     \/ a # None /\ a.status = "revoked" /\ "read" \in a.rights

(* A client that read its feed to the end shows nothing of an object that  *)
(* was revoked or deleted, and of every other object that it does not edit *)
(* what the server has: through withheld answers, rights given and taken   *)
(* between any two steps, pages interrupted, and reviews (reconcile_feed,  *)
(* object_client.rs finish_without_state, apply_page).  It is said of the  *)
(* objects the feed has told of.                                           *)
ObjectsConverge ==
  \A c \in Clients : \A i \in Ids : Delivered(c) /\ ~OnlyAnswered(c, i) =>
    /\ Status(c, i) # "active" => ShownTo(c, i) = None
    /\ Status(c, i) = "active" /\ Untouched(c, i) => ShownTo(c, i) = row[i].data

(* An accepted change whose state was withheld waits on the revision it    *)
(* was made on until that state comes; otherwise no page could be applied  *)
(* any more ("accepted intent shadow base changed", drain_deferred).       *)
DeliveriesFit ==
  \A c \in Clients : \A i \in Ids :
    object[c].intent[i] # None => object[c].intent[i].base = db[c].shadow[i].rev

(* The engine made an object active again. *)
Activated(c, i) ==
  /\ object[c].access[i] # None /\ object[c].access[i].status # "active"
  /\ object'[c].access[i].status = "active"

(* A draft that was hidden, or whose outcome is not known, is sent after   *)
(* the application looked at it: the engine itself reactivates an object   *)
(* only when its draft is gone (apply_page, drain_deferred).               *)
DraftsReviewed ==
  [][\A c \in Clients : \A i \in Ids :
       call' # call /\ HasDraft(db[c], i) /\ Activated(c, i) => ~HasDraft(db'[c], i)]_objectVars

(* The row the next merge of object i starts from. *)
AnchorOf(c, i) ==
  LET intent == object[c].intent[i]
  IN IF intent = None THEN Anchor(c, i) ELSE IF intent.row = None THEN None ELSE intent.row.data

(* The engine never takes an edit away: what the application changed       *)
(* after the last accepted state stays, or a conflict holds it             *)
(* (drain_deferred with accepted intents, finish_result).                  *)
ObjectsKeepEdits ==
  [][call' # call => \A c \in Clients : \A i \in Ids : KeepsEditsFrom(c, i, AnchorOf(c, i))]_objectVars
=============================================================================
