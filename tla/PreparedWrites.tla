--------------------------- MODULE PreparedWrites ---------------------------
(***************************************************************************)
(* The server's API for application code that takes part in a write: a     *)
(* handler captures the rows that a request touches (prepare_push), decides *)
(* on effects, and pushes the request with what it saw.  The capture and   *)
(* the push are two transactions, and so are the two halves of save and    *)
(* delete.  Effects are queued with the commit and run later.              *)
(***************************************************************************)
EXTENDS SyncServer

CONSTANTS
  Handlers,    \* calls that run side by side
  Prepared,    \* requests that reach a handler: key, mutations and identity
  Watched,     \* entities for which the application prepares effects
  Saves,       \* what the application saves: an id and its row, or None to delete
  OwnKeys,     \* receipt keys of save and delete: a fresh operation each
  MaxCalls     \* bound: operations of handlers that get an outcome

(* A key belongs to one kind of call, an identity names its request        *)
(* whatever revision it is prepared against, and None is no set of rows.   *)
ASSUME PreparedAssumption ==
  /\ MaxCalls \in Nat
  /\ OwnKeys \subseteq Keys
  /\ \A w \in Prepared : w.req.key \in Keys \ OwnKeys /\ IsMutations(w.req.muts)
  /\ \A w \in Prepared : \A req \in Requests : req.key \notin OwnKeys \cup {w.req.key}
  /\ \A v, w \in Prepared : v.req.key = w.req.key => (v.identity = None <=> w.identity = None)
  /\ Watched \subseteq Ids
  /\ \A S \in SUBSET Ids : None \notin [S -> Entity]
  /\ \A s \in Saves : s.id \in Ids /\ s.changes \in PatchOf(s.id) \cup {None}

VARIABLES
  work,        \* handler -> request in hand and the entities it saw
  identity,    \* key -> identity stored in the receipt
  effects,     \* _sync_effects
  ran          \* effects that the application carried out

preparedVars == <<work, identity, effects, ran>>

-----------------------------------------------------------------------------
(* First transaction of a call.                                            *)

(* A handled request may come again, a new one within the bound. *)
Handled == {r.key : r \in receipts} \cap (OwnKeys \cup {w.req.key : w \in Prepared})

MayHandle(key) == key \in Handled \/ Cardinality(Handled) < MaxCalls

(* The rows that a group touches, dependents of its deletions included. *)
Captured(muts) == [i \in Touched(muts) |-> row[i]]

PreparePush(h) ==
  /\ work[h] = None
  /\ \E w \in Prepared :
       /\ MayHandle(w.req.key)
       /\ work' = [work EXCEPT ![h] =
            [req |-> w.req, identity |-> w.identity, before |-> Captured(w.req.muts)]]
  /\ UNCHANGED <<serverVars, identity, effects, ran>>

(* save and delete read the revision that they will write over. *)
ReadRevision(h) ==
  /\ work[h] = None
  /\ \E k \in OwnKeys, s \in Saves :
       /\ k \notin Handled /\ MayHandle(k)
       /\ ~\E g \in Handlers : work[g] # None /\ work[g].req.key = k
       /\ work' = [work EXCEPT ![h] =
            [req |-> [key |-> k, muts |-> [i \in {s.id} |-> [base |-> row[i].rev, changes |-> s.changes]]],
             identity |-> None, before |-> None]]
  /\ UNCHANGED <<serverVars, identity, effects, ran>>

-----------------------------------------------------------------------------
(* Second transaction: push_transaction, with what the handler saw.        *)

(* Defect: only the set of captured rows is compared. *)
ChangedSet(w) == w.before # None /\ DOMAIN w.before # Touched(w.req.muts)

Changed(w) == w.before # None /\ w.before # Captured(w.req.muts)

(* The receipt of the same request, with an identity whatever its contents. *)
Again(w) ==
  \E r \in receipts :
    /\ r.key = w.req.key
    /\ IF w.identity = None THEN r.muts = w.req.muts ELSE identity[r.key] = w.identity
    /\ replies' = replies \cup {[key |-> r.key, result |-> r.result]}
    /\ UNCHANGED <<row, journal, retained, receipts>>

Stored(w) == identity' = [identity EXCEPT ![w.req.key] = w.identity]

(* One effect for every watched entity of the result; its id is fresh. *)
Queued(w) ==
  LET next == Stamped(w.req.muts)
      ids == IF w.before = None THEN {} ELSE Watched \cap Affected(w.req.muts)
      earlier(i) == {e \in effects \cup ran : e.key = w.req.key /\ e.id = i}
  IN {[key |-> w.req.key, id |-> i, number |-> Cardinality(earlier(i)) + 1,
       previous |-> w.before[i], entity |-> next[i]] : i \in ids}

(* Defect: the effects are queued for every answer, a replayed one too. *)
RepeatWithEffects(w) ==
  /\ Again(w)
  /\ effects' = effects \cup
       {[e EXCEPT !.number = Cardinality({f \in effects \cup ran : f.key = e.key}) + 1] :
          e \in {f \in effects \cup ran : f.key = w.req.key}}
  /\ UNCHANGED identity

Repeat(w) == Again(w) /\ UNCHANGED <<identity, effects>>

(* A changed preparation is answered with a conflict and leaves no receipt. *)
Outdated(w) ==
  /\ ~Receipted(w.req) /\ ~Malformed(w.req.muts) /\ ~Stale(w.req.muts)
  /\ Changed(w)
  /\ UNCHANGED <<serverVars, identity, effects>>

Commit(w) ==
  /\ ~Changed(w)
  /\ Accept(w.req)
  /\ Stored(w)
  /\ effects' = effects \cup Queued(w)

Fail(w) ==
  /\ Refused(w.req) \/ (Reject(w.req) /\ (Malformed(w.req.muts) \/ ~Changed(w)))
  /\ Stored(w)
  /\ UNCHANGED effects

Done(h) == work' = [work EXCEPT ![h] = None]

(* push_prepared, push_with_effects, write_prepared_request, save, delete. *)
Write(h) ==
  /\ work[h] # None
  /\ Repeat(work[h]) \/ Outdated(work[h]) \/ Commit(work[h]) \/ Fail(work[h])
  /\ Done(h)
  /\ UNCHANGED ran

(* reject_request: the application's own verdict, unless there is one. *)
RejectRequest(h) ==
  /\ work[h] # None /\ work[h].identity # None
  /\ \/ Repeat(work[h])
     \/ /\ ~Receipted(work[h].req)
        /\ Answer(work[h].req, Result("rejected", [i \in {} |-> Absent]))
        /\ Stored(work[h])
        /\ UNCHANGED <<row, journal, retained, effects>>
  /\ Done(h)
  /\ UNCHANGED ran

(* The call ends, or its process does. *)
Abandon(h) == work[h] # None /\ Done(h) /\ UNCHANGED <<serverVars, identity, effects, ran>>

-----------------------------------------------------------------------------
(* The application works through the queue: it runs an effect and then     *)
(* acknowledges it, and may end in between.                                *)

RunEffect(e) ==
  /\ ran' = ran \cup {e}
  /\ UNCHANGED <<serverVars, work, identity, effects>>

AcknowledgeEffect(e) ==
  /\ e \in ran
  /\ effects' = effects \ {e}
  /\ UNCHANGED <<serverVars, work, identity, ran>>

PreparedInit ==
  /\ ServerInit
  /\ work = [h \in Handlers |-> None]
  /\ identity = [k \in Keys |-> None]
  /\ effects = {} /\ ran = {}

PreparedNext ==
  \/ ServerNext /\ UNCHANGED preparedVars
  \/ \E h \in Handlers :
       PreparePush(h) \/ ReadRevision(h) \/ Write(h) \/ RejectRequest(h) \/ Abandon(h)
  \/ \E e \in effects : RunEffect(e) \/ AcknowledgeEffect(e)

PreparedSpec == PreparedInit /\ [][PreparedNext]_<<serverVars, preparedVars>>

-----------------------------------------------------------------------------
(* Properties.                                                             *)

(* The revisions of entity i before group n. *)
Earlier(i, n) == {journal[m][i] : m \in {k \in GroupsOf(i) : k < n}} \cup {Absent}

(* An effect is about a change that was committed, by its own operation,   *)
(* and the state it gives as the previous one is the one that the commit   *)
(* replaced, for mutated rows as for rows that a cascade reached, although *)
(* the application read it in another transaction (push_with_effects).     *)
EffectsTellTruth ==
  \A e \in effects \cup ran :
    /\ \E r \in receipts : /\ r.key = e.key /\ r.result.kind = "accepted"
                           /\ r.result.entities[e.id] = e.entity
    /\ \E n \in GroupsOf(e.id) :
         /\ journal[n][e.id].rev = e.entity.rev
         /\ e.previous \in Earlier(e.id, n)
         /\ e.previous.rev = e.entity.rev - 1

(* A commit queues its effects once, however often its request is handled, *)
(* and each stays in the queue until it has run, whatever other effects of *)
(* the entity are acknowledged (push_with_effects, acknowledge_effect).    *)
EffectsOnce ==
  \A r \in receipts :
    r.result.kind = "accepted" /\ (\E w \in Prepared : w.req.key = r.key) =>
      \A i \in Watched \cap DOMAIN r.result.entities :
        Cardinality({e \in effects \cup ran : e.key = r.key /\ e.id = i}) = 1
=============================================================================
