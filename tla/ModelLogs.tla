----------------------------- MODULE ModelLogs -----------------------------
(***************************************************************************)
(* Protocol 2 (che-sync/src/model_log.rs, model_client.rs): one log per    *)
(* model in place of the scope's journal, and one engine per client that   *)
(* works through the models, parents first, in a cycle:                    *)
(*   settle   send again what was submitted before,                        *)
(*   pull     fetch and apply one page of every log,                       *)
(*   send     submit one new operation per model.                          *)
(* Everything a client stores is as in SyncClient.  The commits are still  *)
(* numbered in "journal"; the log of a model is derived from it.  call[c]  *)
(* is where the cycle of client c stands, k the model it works on.         *)
(***************************************************************************)
EXTENDS SyncSystem

CONSTANTS
  Adapters     \* transports: each has its own payload format

ASSUME LogAssumption ==
  /\ Protocol = 2
  /\ Feeds = {"parents", "children"}
  /\ IsFiniteSet(Ids)          \* keys have a fixed width

VARIABLES
  adapter,     \* client -> transport of the running process
  payload,     \* client -> stored payloads: operation number and adapter
  sent         \* payloads of unfinished operations that were handed to the network

logVars == <<systemVars, adapter, payload, sent>>

(* Registration order. *)
Models == <<"parents", "children">>

-----------------------------------------------------------------------------
(* The logs.  An operation has the entity's id and revision, and the old   *)
(* and new values of the fields that differ.                               *)

(* The entity before group n, as far as the logs know it. *)
Before(i, n) ==
  LET past == {m \in GroupsOf(i) : m < n}
  IN IF past = {} THEN Absent ELSE journal[CHOOSE m \in past : \A k \in past : k <= m][i]

Kind(old, next) ==
  IF ~Live(next) THEN "delete" ELSE IF ~Live(old) THEN "create" ELSE "update"

(* A missing row has no values. *)
DiffFields(i, old, next) ==
  {f \in FieldsOf(i) : ~Live(old) \/ ~Live(next) \/ old.data[f] # next.data[f]}

ValuesOf(e, F) == IF Live(e) THEN [f \in F |-> e.data[f]] ELSE <<>>

LogEntry(i, old, next) ==
  LET F == IF Live(old) \/ Live(next) THEN DiffFields(i, old, next) ELSE {}
  IN [id |-> i, rev |-> next.rev, kind |-> Kind(old, next),
      old |-> ValuesOf(old, F), new |-> ValuesOf(next, F)]

(* The entities that group n appends to the log of f. *)
Appended(f, n) == DOMAIN journal[n] \cap OwnIds(f)

EntryOf(i, n) == LogEntry(i, Before(i, n), journal[n][i])

Entries(f, n) ==
  LET ids == SetToSeq(Appended(f, n))
  IN [x \in DOMAIN ids |-> EntryOf(ids[x], n)]

Log(f) == FlattenSeq([n \in 1..Sequence |-> Entries(f, n)])

(* Rows that were there before the logs have to be backfilled first. *)
HasBaseline(f) == Log(f) # <<>> \/ \A i \in OwnIds(f) : row[i].rev = 0

Baselined == \A f \in Feeds : HasBaseline(f)

(* A page of the log, after the position of a cursor. *)
PageFrom(log, after) ==
  LET end == IF Len(log) <= after + PageSize THEN Len(log) ELSE after + PageSize
  IN [ops |-> SubSeq(log, after + 1, end), next |-> end, more |-> end < Len(log)]

After(c, f) == IF db[c].cursor[f] = None THEN 0 ELSE db[c].cursor[f]

-----------------------------------------------------------------------------
(* The server: rows from before the logs, an explicit backfill per model,  *)
(* and writes as ever once every model has its baseline.                   *)

Backfill(f) ==
  /\ Log(f) = <<>> /\ ~HasBaseline(f)
  /\ journal' = Append(journal, [i \in {k \in OwnIds(f) : row[k].rev > 0} |-> row[i]])
  /\ retained' = retained \cup {Sequence + 1}
  /\ UNCHANGED <<row, receipts, replies, db, call, made, edits, adapter, payload, sent>>

LogWrite ==
  /\ Baselined
  /\ ServerWrite
  /\ UNCHANGED <<db, call, made, edits, adapter, payload, sent>>

(* A submitted request arrives, for the first time or again. *)
LogPush(c) ==
  /\ Baselined
  /\ \E op \in db[c].outbox :
       /\ \E s \in sent : s.client = c /\ s.number = op.number
       /\ Push([key |-> <<c, op.number>>, muts |-> op.muts])
  /\ UNCHANGED <<db, call, made, edits, adapter, payload, sent>>

-----------------------------------------------------------------------------
(* Applying a page (apply_model_changes).                                  *)

(* Defect: a value that becomes NULL is taken for an absent one. *)
EntityAfterPresent(e, op) ==
  [rev  |-> op.rev,
   data |-> IF op.kind = "delete" THEN None
            ELSE [f \in Fields |-> IF f \in DOMAIN op.new /\ op.new[f] # None THEN op.new[f]
                                   ELSE IF op.kind = "create" THEN None ELSE e.data[f]]]

(* The entity that an operation makes of the confirmed state. *)
EntityAfter(e, op) ==
  [rev  |-> op.rev,
   data |-> IF op.kind = "delete" THEN None
            ELSE [f \in Fields |-> IF f \in DOMAIN op.new THEN op.new[f]
                                   ELSE IF op.kind = "create" THEN None ELSE e.data[f]]]

(* The operation does not follow the confirmed state: a revision is        *)
(* missing, the creation is missing, or an old value is another.           *)
Refuses(e, op) ==
  \/ op.kind # "create" /\ e.rev > 0 /\ op.rev # e.rev + 1
  \/ op.kind = "update" /\ ~Live(e)
  \/ op.kind # "create" /\ e.rev > 0 /\
       \E f \in DOMAIN op.old \cup DOMAIN op.new :
         IF Live(e) THEN f \notin DOMAIN op.old \/ op.old[f] # e.data[f] ELSE f \in DOMAIN op.old

(* Defect: an operation that a response acknowledged is applied again. *)
KnownOlder(e, op) == op.rev < e.rev

(* Already acknowledged by a response to a write. *)
Known(e, op) == op.rev <= e.rev

(* An operation that is refused fails the page. *)
ApplyOperation(s, op) ==
  LET e == s.db.shadow[op.id]
  IN IF s.refused \/ Known(e, op) THEN s
     ELSE IF Refuses(e, op) THEN [s EXCEPT !.refused = TRUE]
     ELSE [s EXCEPT !.db = ApplyGroup(@, [i \in {op.id} |-> EntityAfter(e, op)])]

ApplyOperations(d, ops) == FoldLeft(ApplyOperation, [db |-> d, refused |-> FALSE], ops)

PageBlocked(d, page) ==
  \E op \in d.outbox : Frozen(d, {page.ops[x].id : x \in DOMAIN page.ops}, op)

(* The page and its cursor in one transaction. *)
PageApplied(d, f, page) ==
  [RetryBlocked(ApplyOperations(d, page.ops).db) EXCEPT !.cursor[f] = page.next]

-----------------------------------------------------------------------------
(* The cycle.  sync is set in sync_once, which goes on after a phase; new  *)
(* while new operations may be submitted; clear while nothing was blocked  *)
(* and no log had more.                                                    *)

Resting == [at |-> "rest"]
Flushing(k, new, sync) == [at |-> "flush", k |-> k, new |-> new, sync |-> sync]
Chosen(e, number) == [at |-> "chosen", k |-> e.k, new |-> e.new, sync |-> e.sync, number |-> number]
Submitted(e) == [e EXCEPT !.at = "submitted"]
Settled(e) == [e EXCEPT !.at = "settled"]
Pulling(k, sync, clear) == [at |-> "pull", k |-> k, sync |-> sync, clear |-> clear]
Fetched(e, pages) == [at |-> "fetched", k |-> e.k, sync |-> e.sync, clear |-> e.clear, pages |-> pages]

(* The step after model k. *)
AfterFlush(e) ==
  IF e.k < Len(Models) THEN Flushing(e.k + 1, e.new, e.sync)
  ELSE IF e.sync THEN Pulling(1, TRUE, TRUE) ELSE Resting

AfterPage(e, clear) ==
  IF e.k = Len(Models) THEN IF e.sync /\ clear THEN Flushing(1, TRUE, FALSE) ELSE Resting
  ELSE IF Len(e.pages) > 1
  THEN [e EXCEPT !.k = @ + 1, !.clear = clear, !.pages = Tail(@)]
  ELSE Pulling(e.k + 1, e.sync, clear)

Moves(c, e) == call' = [call EXCEPT ![c] = e]

Model(c) == Models[call[c].k]

(* pull, flush or sync_once is called. *)
Begin(c) ==
  /\ call[c].at = "rest"
  /\ \E e \in {Pulling(1, FALSE, TRUE), Flushing(1, TRUE, FALSE), Flushing(1, FALSE, TRUE)} : Moves(c, e)
  /\ UNCHANGED <<db, made, edits, serverVars, adapter, payload, sent>>

(* A submitted operation comes first; a new one needs a log that was read. *)
MayPrepare(c) == Pending(db[c], Model(c)) = {} /\ call[c].new /\ db[c].cursor[Model(c)] # None

Choose(c) ==
  /\ call[c].at = "flush"
  /\ \/ /\ \E op \in Pending(db[c], Model(c)) : Moves(c, Chosen(call[c], op.number))
        /\ UNCHANGED <<db, made>>
     \/ /\ MayPrepare(c)
        /\ Prepare(c, Model(c), made[c] + 1)
        /\ made' = [made EXCEPT ![c] = @ + 1]
        /\ Moves(c, Chosen(call[c], made[c] + 1))
  /\ UNCHANGED <<edits, serverVars, adapter, payload, sent>>

(* No operation for this model. *)
Skip(c) ==
  LET d == db[c]
      f == Model(c)
  IN /\ call[c].at = "flush"
     /\ Owned(d, f) = {} /\ Pending(d, f) = {} /\ Selectable(d, f)
     /\ IF MayPrepare(c) /\ Preparable(d, f)
        THEN Sendable(d, f) = {} /\ db' = [db EXCEPT ![c] = Tidied(d)]
        ELSE UNCHANGED db
     /\ Moves(c, AfterFlush(call[c]))
     /\ UNCHANGED <<made, edits, serverVars, adapter, payload, sent>>

(* Defect: another adapter encodes a submitted operation again. *)
EncodableAgain(c, number) == TRUE

(* Without a payload, or with one in this adapter's format. *)
Encodable(c, number) ==
  \A s \in payload[c] : s.number = number => s.adapter = adapter[c]

(* The operation is encoded once, the payload stored, and then sent. *)
Submit(c) ==
  LET number == call[c].number
  IN /\ call[c].at = "chosen"
     /\ Encodable(c, number)
     /\ payload' = [payload EXCEPT ![c] = @ \cup {[number |-> number, adapter |-> adapter[c]]}]
     /\ sent' = sent \cup {[client |-> c, number |-> number, adapter |-> adapter[c]]}
     /\ Moves(c, Submitted(call[c]))
     /\ UNCHANGED <<db, made, edits, serverVars, adapter>>

(* The reply settles the operation. *)
Settle(c) ==
  /\ call[c].at = "submitted"
  /\ \E op \in db[c].outbox, r \in replies :
       op.number = call[c].number /\ r.key = <<c, op.number>> /\ Finish(c, op, r.result)
  /\ sent' = {s \in sent : s.client # c \/ s.number # call[c].number}
  /\ Moves(c, Settled(call[c]))
  /\ UNCHANGED <<made, edits, serverVars, adapter, payload>>

(* Then, in a transaction of its own, the payload goes. *)
Discard(c) ==
  /\ call[c].at = "settled"
  /\ payload' = [payload EXCEPT ![c] = {s \in @ : s.number # call[c].number}]
  /\ Moves(c, AfterFlush(call[c]))
  /\ UNCHANGED <<db, made, edits, serverVars, adapter, sent>>

(* The pages of all logs at one instant, or of one log at a time. *)
FetchBatch(c) ==
  /\ call[c].at = "pull" /\ call[c].k = 1
  /\ Baselined
  /\ Moves(c, Fetched(call[c], [k \in DOMAIN Models |-> PageFrom(Log(Models[k]), After(c, Models[k]))]))
  /\ UNCHANGED <<db, made, edits, serverVars, adapter, payload, sent>>

FetchOne(c) ==
  /\ call[c].at = "pull"
  /\ HasBaseline(Model(c))
  /\ Moves(c, Fetched(call[c], <<PageFrom(Log(Model(c)), After(c, Model(c)))>>))
  /\ UNCHANGED <<db, made, edits, serverVars, adapter, payload, sent>>

(* Defect: the cursor moves although the page was put off. *)
ReceivePageSkipping(c) ==
  LET page == Head(call[c].pages)
  IN /\ call[c].at = "fetched"
     /\ db' = [db EXCEPT ![c] = IF PageBlocked(db[c], page) THEN [db[c] EXCEPT !.cursor[Model(c)] = page.next]
                                ELSE PageApplied(db[c], Model(c), page)]
     /\ Moves(c, AfterPage(call[c], call[c].clear /\ ~page.more))
     /\ UNCHANGED <<made, edits, serverVars, adapter, payload, sent>>

ReceivePage(c) ==
  LET page == Head(call[c].pages)
      blocked == PageBlocked(db[c], page)
  IN /\ call[c].at = "fetched"
     /\ IF blocked THEN UNCHANGED db
        ELSE /\ ~ApplyOperations(db[c], page.ops).refused
             /\ db' = [db EXCEPT ![c] = PageApplied(db[c], Model(c), page)]
     /\ Moves(c, AfterPage(call[c], call[c].clear /\ ~blocked /\ ~page.more))
     /\ UNCHANGED <<made, edits, serverVars, adapter, payload, sent>>

(* An error, a timeout, or the end of the process. *)
Interrupt(c) ==
  /\ call[c] # Resting
  /\ Moves(c, Resting)
  /\ UNCHANGED <<db, made, edits, serverVars, adapter, payload, sent>>

(* The application runs again with another transport. *)
Reopen(c) ==
  /\ call[c] = Resting
  /\ \E a \in Adapters \ {adapter[c]} : adapter' = [adapter EXCEPT ![c] = a]
  /\ UNCHANGED <<systemVars, payload, sent>>

LogEdit(c) == Edit(c) /\ UNCHANGED <<adapter, payload, sent>>

CycleStep(c) ==
  \/ Choose(c) \/ Skip(c) \/ Submit(c) \/ Settle(c) \/ Discard(c)
  \/ FetchBatch(c) \/ FetchOne(c) \/ ReceivePage(c)

(* Seed is there before the logs are; the clients are new. *)
LogInit ==
  /\ row = [i \in Ids |-> IF i \in DOMAIN Seed THEN SeedGroup[i] ELSE Absent]
  /\ journal = <<>> /\ retained = {} /\ receipts = {} /\ replies = {}
  /\ ClientInit
  /\ call = [c \in Clients |-> Resting]
  /\ made = [c \in Clients |-> 0]
  /\ edits = 0
  /\ adapter \in [Clients -> Adapters]
  /\ payload = [c \in Clients |-> {}]
  /\ sent = {}

LogNext ==
  \/ \E f \in Feeds : Backfill(f)
  \/ LogWrite
  \/ \E c \in Clients :
       LogEdit(c) \/ LogPush(c) \/ Begin(c) \/ CycleStep(c) \/ Interrupt(c) \/ Reopen(c)

LogSpec == LogInit /\ [][LogNext]_logVars

-----------------------------------------------------------------------------
(* Properties.                                                             *)

(* The rest of the log of f, from the cursor of client c on. *)
Ahead(c, f) == SubSeq(Log(f), After(c, f) + 1, Len(Log(f)))

(* No page is ever refused: whatever answers to writes, cascades and other *)
(* pages brought in the meantime, every operation behind the cursor        *)
(* follows the confirmed state that it will meet.  Otherwise the model     *)
(* could never be synchronized again (apply_model_changes).                *)
NoPageRefused ==
  \A c \in Clients : \A f \in Feeds : ~ApplyOperations(db[c], Ahead(c, f)).refused

(* Shadows are committed revisions, and everything in a log up to the      *)
(* cursor has been received (apply_model_changes, finish_result).          *)
LogCovered ==
  \A c \in Clients :
    /\ \A i \in Ids : db[c].shadow[i] = Absent \/ \E n \in GroupsOf(i) : journal[n][i] = db[c].shadow[i]
    /\ \A f \in Feeds : \A x \in 1..After(c, f) : db[c].shadow[Log(f)[x].id].rev >= Log(f)[x].rev

CaughtUp(c) == \A f \in Feeds : db[c].cursor[f] = Len(Log(f))

(* A row that waits for another log does not wait for ever, and does not   *)
(* become a conflict that the application has to resolve: when every log   *)
(* has been read and nothing is on its way, what is deferred depends on a  *)
(* real conflict, and there is none where nothing was edited               *)
(* (protect_dependencies, retry_blocked).                                  *)
NothingWaits ==
  \A c \in Clients :
    LET clashes == {i \in Conflicts(db[c]) : ~Retryable(db[c], i)}
    IN /\ edits = 0 => clashes = {}
       /\ CaughtUp(c) /\ db[c].outbox = {} /\ Unsent(db[c]) = {} /\ clashes = {}
            => Conflicts(db[c]) = {}

(* A client that read every log, has nothing to send and no conflict shows *)
(* the server's rows.                                                      *)
LogsConverge ==
  \A c \in Clients :
    CaughtUp(c) /\ Baselined /\ db[c].outbox = {} /\ Unsent(db[c]) = {} /\ Conflicts(db[c]) = {}
      => ShowsServer(c)

(* "The engine encodes once" (docs/model-sync.md:138): all deliveries of   *)
(* an operation have one payload, and it is stored until the operation is  *)
(* settled, also when the process ends between two steps (flush_inner).    *)
OneEncoding ==
  /\ \A s, t \in sent : s.client = t.client /\ s.number = t.number => s = t
  /\ \A s \in sent : \A op \in db[s.client].outbox :
       op.number = s.number => [number |-> s.number, adapter |-> s.adapter] \in payload[s.client]

(* Whatever the pages of several logs and the answers bring, in any order, *)
(* what the application changed stays, or a conflict holds it (reconcile,  *)
(* protect_dependencies, finish_result).                                   *)
LogsKeepEdits ==
  [][edits' = edits => \A c \in Clients : \A i \in Ids : KeepsEdits(c, i)]_logVars
=============================================================================
