----------------------------- MODULE SyncSystem -----------------------------
(***************************************************************************)
(* Replicas, their sync engines (che-sync/src/engine.rs) and the server.   *)
(* An engine serves one feed of a client and makes one call at a time.     *)
(* While a call is on the network nothing is locked: the application       *)
(* writes, other engines of the client work, other replicas push.  Replies *)
(* may be lost (the engine gives up, also when the process restarts), and  *)
(* requests may be delivered late or repeatedly.                           *)
(***************************************************************************)
EXTENDS SyncClient, SyncServer

CONSTANTS
  Seed,        \* id -> data: rows that exist in the beginning
  Loaded,      \* clients that have loaded them
  PageSize,    \* groups in a page
  MaxEdits     \* bound: writes and resolutions of the applications

ASSUME SystemAssumption ==
  /\ Seed = [i \in DOMAIN Seed |-> Seed[i]] /\ DOMAIN Seed \subseteq Ids
  /\ \A i \in DOMAIN Seed : Seed[i] \in DataOf(i)
  /\ \A i \in DOMAIN Seed : Seed[i]["ref"] # None => Seed[i]["ref"] \in DOMAIN Seed
  /\ Loaded \subseteq Clients
  /\ PageSize \in Nat \ {0}
  /\ MaxEdits \in Nat

VARIABLES
  call,        \* client and feed -> the engine's call on the network
  made,        \* client -> operations prepared so far
  edits        \* writes of the applications so far

systemVars == <<db, call, made, edits, serverVars>>

Idle == [kind |-> "idle"]
Pushing(number) == [kind |-> "push", number |-> number]
Page(groups, cursor, full) ==
  [kind |-> "page", groups |-> groups, cursor |-> cursor, full |-> full]

SeedGroup == [i \in DOMAIN Seed |-> [rev |-> 1, data |-> Seed[i]]]
SeedJournal == IF Seed = <<>> THEN <<>> ELSE <<SeedGroup>>

(* The state after the server's own code wrote Seed, and after the clients *)
(* in Loaded loaded it and found that they have nothing to send.           *)
SystemInit ==
  /\ row = [i \in Ids |-> IF i \in DOMAIN Seed THEN SeedGroup[i] ELSE Absent]
  /\ journal = SeedJournal
  /\ retained = 1..Len(SeedJournal)
  /\ receipts = {} /\ replies = {}
  /\ db = [c \in Clients |->
             IF c \in Loaded
             THEN [Tidied(ApplyGroup(EmptyDatabase, SeedGroup)) EXCEPT
                     !.cursor = [f \in Feeds |-> Len(SeedJournal)]]
             ELSE EmptyDatabase]
  /\ call = [c \in Clients |-> [f \in Feeds |-> Idle]]
  /\ made = [c \in Clients |-> 0]
  /\ edits = 0

-----------------------------------------------------------------------------
(* The application, at any time. *)
Edit(c) ==
  /\ edits < MaxEdits
  /\ edits' = edits + 1
  /\ UNCHANGED <<call, made, serverVars>>
  /\ \E i \in Ids :
       \/ \E data \in DataOf(i) : Insert(c, i, data) \/ Update(c, i, data)
       \/ Delete(c, i)
       \/ \E data \in DataOf(i) \cup {None} : Resolve(c, i, data)

-----------------------------------------------------------------------------
(* Engine steps. *)

Called(c, f, reply) == call' = [call EXCEPT ![c][f] = reply]

(* Operations that some engine of the client is sending: one at a time. *)
InFlight(c, number) == \E f \in Feeds : call[c][f] = Pushing(number)

(* An unfinished operation is sent again, whatever became of it. *)
Resend(c, f) ==
  /\ call[c][f] = Idle
  /\ \E op \in Pending(db[c], f) :
       /\ ~InFlight(c, op.number)
       /\ Called(c, f, Pushing(op.number))
  /\ UNCHANGED <<db, made, edits, serverVars>>

(* A new operation needs an initialized feed and no pending reset. *)
Ready(c, f) ==
  /\ call[c][f] = Idle
  /\ Pending(db[c], f) = {}
  /\ db[c].cursor[f] # None
  /\ f \notin db[c].reset

PrepareAndSend(c, f) ==
  /\ Ready(c, f)
  /\ Prepare(c, f, made[c] + 1)
  /\ made' = [made EXCEPT ![c] = @ + 1]
  /\ Called(c, f, Pushing(made[c] + 1))
  /\ UNCHANGED <<edits, serverVars>>

Tidy(c, f) ==
  /\ Ready(c, f)
  /\ PrepareNothing(c, f)
  /\ UNCHANGED <<call, made, edits, serverVars>>

(* The server gets an operation that is, or may be, on its way.  Repeating *)
(* it does not change the server, so a late duplicate is no step.          *)
Deliver(c) ==
  /\ \E op \in db[c].outbox : Push([key |-> <<c, op.number>>, muts |-> op.muts])
  /\ UNCHANGED <<db, call, made, edits>>

(* The reply arrives; on an error of finish_result the operation stays.    *)
FinishPush(c, f) ==
  /\ \E op \in db[c].outbox, r \in replies :
       /\ call[c][f] = Pushing(op.number)
       /\ r.key = <<c, op.number>>
       /\ \/ Finish(c, op, r.result)
          \/ ShadowMoved(db[c], op) /\ UNCHANGED db
  /\ Called(c, f, Idle)
  /\ UNCHANGED <<made, edits, serverVars>>

(* The server reads a page at one instant; the client applies it later.  A *)
(* page without groups changes nothing unless a conflict is to be retried  *)
(* (retry_blocked), and is left out then.                                  *)
Pull(c, f) ==
  LET cursor == db[c].cursor[f]
  IN /\ call[c][f] = Idle
     /\ cursor # None /\ f \notin db[c].reset
     /\ IF HistoryLost(cursor, PageSize)
        THEN RequireReset(c, f) /\ UNCHANGED call
        ELSE LET groups == PageGroups(cursor, PageSize, FeedIds(f))
             IN /\ groups # <<>> \/ \E i \in Ids : Retryable(db[c], i)
                /\ Called(c, f, Page(groups, PageEnd(cursor, PageSize), FALSE))
                /\ UNCHANGED db
     /\ UNCHANGED <<made, edits, serverVars>>

(* The initial load, or the recovery after a reset. *)
Load(c, f) ==
  /\ call[c][f] = Idle
  /\ db[c].cursor[f] = None \/ f \in db[c].reset
  /\ Called(c, f, Page(<<Snapshot(FeedIds(f))>>, Sequence, TRUE))
  /\ UNCHANGED <<db, made, edits, serverVars>>

Receive(c, f) ==
  /\ call[c][f].kind = "page"
  /\ Apply(c, f, call[c][f].groups, call[c][f].cursor, call[c][f].full)
  /\ Called(c, f, Idle)
  /\ UNCHANGED <<made, edits, serverVars>>

(* A timeout, a lost reply or a restart. *)
GiveUp(c, f) ==
  /\ call[c][f] # Idle
  /\ Called(c, f, Idle)
  /\ UNCHANGED <<db, made, edits, serverVars>>

EngineStep(c, f) ==
  \/ Resend(c, f) \/ PrepareAndSend(c, f) \/ Tidy(c, f) \/ FinishPush(c, f)
  \/ Pull(c, f) \/ Load(c, f) \/ Receive(c, f) \/ GiveUp(c, f)

ServerStep ==
  /\ ServerWrite \/ \E n \in retained : Prune(n)
  /\ UNCHANGED <<db, call, made, edits>>

SystemNext ==
  \/ \E c \in Clients : Edit(c) \/ Deliver(c) \/ \E f \in Feeds : EngineStep(c, f)
  \/ ServerStep

SystemSpec == SystemInit /\ [][SystemNext]_systemVars

(* The application calls its engines again and again, and no call fails    *)
(* for ever: an engine that can send again and again sends, and so for     *)
(* finishing, fetching and receiving.  Nothing obliges the application to  *)
(* edit or an engine to give up.                                           *)
Send(c, f) == Resend(c, f) \/ PrepareAndSend(c, f)
Fetch(c, f) == Load(c, f) \/ Pull(c, f)

Fairness ==
  \A c \in Clients :
    /\ WF_systemVars(Deliver(c))
    /\ \A f \in Feeds :
         /\ SF_systemVars(Send(c, f)) /\ SF_systemVars(FinishPush(c, f))
         /\ SF_systemVars(Fetch(c, f)) /\ SF_systemVars(Receive(c, f))

FairSpec == SystemSpec /\ Fairness

-----------------------------------------------------------------------------
(* Properties.                                                             *)

(* The replicas' databases have their types; local rows hold only data of  *)
(* their model, and the local foreign keys hold at every commit.           *)
SystemTypeOK ==
  \A c \in Clients :
    /\ \A i \in Ids : /\ db[c].local[i] # None => db[c].local[i].data \in DataOf(i)
                      /\ db[c].shadow[i].data \in DataOf(i) \cup {None}
    /\ RefsPresent(db[c].local)
    /\ db[c].dirty \cup db[c].deleting \subseteq Ids
    /\ db[c].reset \subseteq Feeds
    /\ \A op \in db[c].outbox : op.number \in 1..made[c] /\ op.feed \in Feeds
    /\ edits \in 0..MaxEdits

(* A shadow is a revision that the server committed, never a mixture of    *)
(* two or a row that only this replica knows (set_shadow).                 *)
ShadowIsHistory ==
  \A c \in Clients : \A i \in Ids :
    LET e == db[c].shadow[i]
    IN e = Absent \/ \E n \in GroupsOf(i) : journal[n][i] = e

(* Shadows are committed revisions, and a cursor never runs ahead of them: *)
(* whatever was committed up to it for the models of the feed has been     *)
(* received, although pages and snapshots cross acknowledgements and pages *)
(* of other feeds, and the journal is pruned (apply, pull).                *)
CursorCovered ==
  /\ ShadowIsHistory
  /\ \A c \in Clients : \A f \in Feeds : db[c].cursor[f] # None =>
       \A i \in FeedIds(f) :
         db[c].shadow[i].rev >= Cardinality({n \in GroupsOf(i) : n <= db[c].cursor[f]})

(* No edit is forgotten: a visible row that differs from the shadow is in  *)
(* the dirty set, from which operations are made (mark, prepare).          *)
DivergenceTracked ==
  \A c \in Clients : \A i \in Ids : Changed(db[c], i) => i \in db[c].dirty

(* "The sole shadow is frozen until this request finishes" (client.rs:586): *)
(* the shadow below a mutation in the outbox stays at its base revision,    *)
(* so that the result can be merged with what was sent.                     *)
ShadowFrozen ==
  \A c \in Clients : \A op \in db[c].outbox : ~ShadowMoved(db[c], op)

(* What the application last saw of row i before it edited it: the data    *)
(* that was sent when the step finishes an accepted operation, the base of *)
(* a deferred update, and else the shadow.                                 *)
Anchor(c, i) ==
  LET d == db[c]
      finished == {op \in d.outbox \ db'[c].outbox :
                     /\ i \in DOMAIN op.muts
                     /\ \E r \in replies : r.key = <<c, op.number>> /\ r.result.kind = "accepted"}
  IN IF finished # {} THEN SentData(d, i, (CHOOSE op \in finished : TRUE).muts[i])
     ELSE IF Retryable(d, i)
     THEN IF d.conflict[i].base = None THEN None ELSE d.conflict[i].base.data
     ELSE d.shadow[i].data

(* What the step may merge into row i: the answer and the shadow that an   *)
(* update which was put off waits with, and the revisions received now.    *)
MergedInto(c, i) ==
  LET d == db[c]
      deferred == IF Retryable(d, i) THEN {d.conflict[i].ack, d.shadow[i]} \ {None} ELSE {}
  IN deferred \cup
     {journal[n][i] : n \in {m \in GroupsOf(i) :
                               journal[m][i].rev \in (d.shadow[i].rev + 1)..db'[c].shadow[i].rev}}

(* It had the edited value already.                                        *)
Agreed(c, i, f) ==
  \E e \in MergedInto(c, i) : Live(e) /\ e.data[f] = db[c].local[i].data[f]

(* The step finishes an operation on other rows, and the server had told   *)
(* nothing of row i: an effect of the operation takes it for a new one.    *)
Unheard(c, i) ==
  /\ db[c].shadow[i].rev = 0
  /\ \E op \in db[c].outbox \ db'[c].outbox : i \notin DOMAIN op.muts

(* The step keeps what was edited of row i since it was the row from, and  *)
(* its deletion.                                                           *)
KeepsEditsFrom(c, i, from) ==
  LET before == db[c].local[i]
      after == db'[c].local[i]
  IN /\ before # None =>
          \A f \in FieldsOf(i) :
            (from = None \/ before.data[f] # from[f]) /\ ~Agreed(c, i, f)
              => after # None /\ after.data[f] = before.data[f]
     /\ LocallyDeleted(db[c], i) /\ ~Unheard(c, i) => after = None

KeepsEdits(c, i) == KeepsEditsFrom(c, i, Anchor(c, i))

(* Synchronization never takes an edit away: whatever arrives, a field the *)
(* application edited keeps its value, and a row it deleted stays deleted, *)
(* until it is sent and accepted, the server has the same value, or the    *)
(* application resolves a conflict.  Edits made while the operation was in *)
(* flight count (merge, delete, acknowledge, protect_dependencies).        *)
SyncKeepsEdits ==
  [][edits' = edits => \A c \in Clients : \A i \in Ids : KeepsEdits(c, i)]_systemVars

(* The server accepted the creation of row i by client c. *)
CreatedBy(c, i) ==
  \E r \in receipts : /\ r.key[1] = c /\ r.result.kind = "accepted"
                      /\ i \in DOMAIN r.muts /\ r.muts[i].base = 0

(* "Explicit deletion must not be mistaken for an incoming row that has    *)
(* never been materialized." (che-sync/src/merge.rs:41), also not of a row *)
(* that the client created and deleted before it heard of the creation.    *)
DeletionsStay ==
  [][edits' = edits => \A c \in Clients : \A i \in Ids :
       CreatedBy(c, i) /\ LocallyDeleted(db[c], i) => db'[c].local[i] = None]_systemVars

(* A replica that has received everything, has nothing to send and no      *)
(* conflict shows exactly the server's rows.                               *)
Quiet(c) ==
  /\ db[c].outbox = {} /\ Unsent(db[c]) = {} /\ Conflicts(db[c]) = {}
  /\ \A f \in Feeds : db[c].cursor[f] = Sequence

(* The revision column of the visible row may lag: a row that was deleted  *)
(* and inserted again with the same content has nothing to send.           *)
Shown(r) == IF r = None THEN None ELSE r.data

ShowsServer(c) == \A i \in Ids : Shown(db[c].local[i]) = row[i].data

Converged == \A c \in Clients : Quiet(c) => ShowsServer(c)

(* When the applications stop editing, every replica ends up showing the   *)
(* server's rows, or with a conflict that the application has to resolve:  *)
(* lost replies, repeated resets, other replicas and rows that were put    *)
(* off for a foreign key stop nobody.                                      *)
Settles ==
  \A c \in Clients :
    <>[](\/ Quiet(c) /\ ShowsServer(c)
         \/ \E i \in Conflicts(db[c]) : ~Retryable(db[c], i))
=============================================================================
