--------------------------- MODULE PreparedProofs ---------------------------
(***************************************************************************)
(* The guarantees of the server, with handlers of the application that     *)
(* prepare and push in two transactions beside the requests of replicas,   *)
(* and what holds of the effects that they queue.                          *)
(*                                                                         *)
(* PreparedForms shows that a handler, whatever it saw, acts on the server *)
(* by the same forms of a step as a request does, so that every invariant  *)
(* of SyncServerProofs carries over.                                       *)
(***************************************************************************)
EXTENDS PreparedWrites, SyncServerProofs

allVars == <<serverVars, preparedVars>>

PreparedKeys == {w.req.key : w \in Prepared}

(* A handler has a typed request; it saw rows if and only if it prepared.  *)
WorkOf(w) ==
  /\ IsMutations(w.req.muts)
  /\ w.req.key \in Keys
  /\ w.before = None => w.req.key \notin PreparedKeys

WorkTyped ==
  /\ work = [h \in Handlers |-> work[h]]
  /\ \A h \in Handlers : work[h] # None => WorkOf(work[h])

-----------------------------------------------------------------------------
(* Steps.                                                                  *)

LEMMA WorkInductive ==
  ASSUME Typed, WorkTyped, [PreparedNext]_allVars
  PROVE  WorkTyped'
<1>1. ASSUME NEW h \in Handlers, PreparePush(h)
      PROVE  WorkTyped'
  <2>1. PICK w \in Prepared :
          work' = [work EXCEPT ![h] =
            [req |-> w.req, identity |-> w.identity, before |-> Captured(w.req.muts)]]
    BY <1>1 DEF PreparePush
  <2>2. IsMutations(w.req.muts) /\ w.req.key \in Keys
    BY PreparedAssumption
  <2>3. Touched(w.req.muts) \subseteq Ids
    BY <2>2 DEF Touched, Referring, IsMutations, Ids
  <2>4. Captured(w.req.muts) \in [Touched(w.req.muts) -> Entity]
    BY <2>3 DEF Captured, Typed, RowsTyped
  <2>5. Captured(w.req.muts) # None
    BY <2>3, <2>4, PreparedAssumption
  <2> QED
    BY <2>1, <2>2, <2>5 DEF WorkTyped, WorkOf
<1>2. ASSUME NEW h \in Handlers, ReadRevision(h)
      PROVE  WorkTyped'
  <2> DEFINE muts(s) == [i \in {s.id} |-> [base |-> row[i].rev, changes |-> s.changes]]
  <2>1. PICK k \in OwnKeys, s \in Saves :
          work' = [work EXCEPT ![h] =
            [req |-> [key |-> k, muts |-> muts(s)], identity |-> None, before |-> None]]
    BY <1>2 DEF ReadRevision
  <2>2. s.id \in Ids /\ s.changes \in Patch \cup {None}
    BY PreparedAssumption DEF PatchOf
  <2>3. row[s.id].rev \in Nat
    BY <2>2, EntityForms
  <2>4. IsMutations(muts(s))
    BY <2>2, <2>3 DEF IsMutations, Mutation
  <2>5. k \in Keys /\ k \notin PreparedKeys
    BY PreparedAssumption DEF PreparedKeys
  <2> HIDE DEF muts
  <2> QED
    BY <2>1, <2>4, <2>5 DEF WorkTyped, WorkOf
<1>3. ASSUME NEW h \in Handlers, Done(h)
      PROVE  WorkTyped'
  BY <1>3 DEF Done, WorkTyped
<1>4. CASE UNCHANGED work
  BY <1>4 DEF WorkTyped
<1> QED
  BY <1>1, <1>2, <1>3, <1>4
  DEF PreparedNext, Write, RejectRequest, Abandon, RunEffect, AcknowledgeEffect, allVars, preparedVars

(* The second transaction of a handler. *)
LEMMA WriteForms ==
  ASSUME Typed, NEW w, WorkOf(w), Repeat(w) \/ Outdated(w) \/ Commit(w) \/ Fail(w)
  PROVE  Step
<1>1. CASE Repeat(w)
  BY <1>1 DEF Repeat, Again, RepeatStep, Step
<1>2. CASE Outdated(w)
  BY <1>2 DEF Outdated, Step
<1>3. CASE Commit(w)
  BY <1>3, AcceptSound DEF Commit, WorkOf, Step
<1>4. CASE Fail(w)
  BY <1>4, RefusalForms DEF Fail, WorkOf, Step
<1> QED
  BY <1>1, <1>2, <1>3, <1>4

LEMMA RejectForms ==
  ASSUME Typed, NEW h, WorkOf(work[h]), RejectRequest(h)
  PROVE  Step
<1>1. CASE Repeat(work[h])
  BY <1>1 DEF Repeat, Again, RepeatStep, Step
<1>2. CASE ~Receipted(work[h].req) /\ Answer(work[h].req, Result("rejected", [i \in {} |-> Absent]))
           /\ UNCHANGED <<row, journal, retained>>
  <2>1. RefuseStep(work[h].req, Result("rejected", [i \in {} |-> Absent]))
    BY <1>2 DEF RefuseStep, Result, WorkOf
  <2> QED
    BY <2>1 DEF Step
<1> QED
  BY <1>1, <1>2 DEF RejectRequest

LEMMA PreparedForms ==
  ASSUME Typed, WorkTyped, [PreparedNext]_allVars
  PROVE  Step
<1>1. CASE ServerNext
  BY <1>1, Steps
<1>2. ASSUME NEW h \in Handlers, Write(h)
      PROVE  Step
  BY <1>2, WriteForms DEF Write, WorkTyped
<1>3. ASSUME NEW h \in Handlers, RejectRequest(h)
      PROVE  Step
  BY <1>3, RejectForms DEF RejectRequest, WorkTyped
<1>4. CASE UNCHANGED serverVars
  BY <1>4 DEF Step
<1> QED
  BY <1>1, <1>2, <1>3, <1>4
  DEF PreparedNext, PreparePush, ReadRevision, Abandon, RunEffect, AcknowledgeEffect, allVars

LEMMA PreparedKeysInductive ==
  ASSUME WorkTyped, KeysTyped, [PreparedNext]_allVars
  PROVE  KeysTyped'
<1>1. CASE ServerNext
  BY <1>1, KeysInductive
<1>2. ASSUME NEW req, req.key \in Keys, NEW result, Answer(req, result)
      PROVE  KeysTyped'
  BY <1>2 DEF Answer, KeysTyped
<1>3. ASSUME NEW w, Again(w)
      PROVE  KeysTyped'
  BY <1>3 DEF Again, KeysTyped
<1>4. CASE UNCHANGED <<receipts, replies>>
  BY <1>4 DEF KeysTyped
<1>5. ASSUME NEW w, WorkOf(w), Repeat(w) \/ Outdated(w) \/ Commit(w) \/ Fail(w)
      PROVE  KeysTyped'
  BY <1>2, <1>3, <1>4, <1>5
  DEF Repeat, Outdated, Commit, Fail, Accept, Refused, Reject, WorkOf, serverVars
<1>6. ASSUME NEW h \in Handlers, Write(h)
      PROVE  KeysTyped'
  BY <1>5, <1>6 DEF Write, WorkTyped
<1>7. ASSUME NEW h \in Handlers, RejectRequest(h)
      PROVE  KeysTyped'
  BY <1>2, <1>3, <1>7 DEF RejectRequest, WorkTyped, WorkOf, Repeat
<1> QED
  BY <1>1, <1>4, <1>6, <1>7
  DEF PreparedNext, PreparePush, ReadRevision, Abandon, RunEffect, AcknowledgeEffect, allVars, serverVars

-----------------------------------------------------------------------------
(* The guarantees of the server.                                           *)

(* What is shown of the server for every Step. *)
ServerInv ==
  /\ Typed /\ KeysTyped
  /\ History /\ References /\ RepliesReceipted /\ WritersInv

LEMMA ServerInvInitially ==
  ASSUME ServerInit
  PROVE  ServerInv
<1>1. KeysTyped /\ RepliesReceipted
  BY DEF ServerInit, KeysTyped, RepliesReceipted
<1>2. References
  BY DEF ServerInit, References, Live, Absent, Ids
<1>3. WritersInv
  BY DEF ServerInit, WritersInv, FirstWriterWins, BasesConsumed
<1> QED
  BY <1>1, <1>2, <1>3, TypedInitially, HistoryInitially DEF ServerInv

LEMMA PreparedInvAlways == PreparedSpec => [](ServerInv /\ WorkTyped)
<1>1. PreparedInit => ServerInv /\ WorkTyped
  BY ServerInvInitially DEF PreparedInit, WorkTyped
<1>2. ServerInv /\ WorkTyped /\ [PreparedNext]_allVars => (ServerInv /\ WorkTyped)'
  <2> SUFFICES ASSUME ServerInv, WorkTyped, [PreparedNext]_allVars
               PROVE  ServerInv' /\ WorkTyped'
    OBVIOUS
  <2>1. Typed /\ KeysTyped /\ History /\ References /\ RepliesReceipted /\ WritersInv
    BY DEF ServerInv
  <2>2. Step
    BY <2>1, PreparedForms
  <2>3. Typed' /\ History' /\ References' /\ RepliesReceipted' /\ WritersInv'
    BY <2>1, <2>2, TypedInductive, HistoryInductive, ReferencesInductive, ReceiptedInductive,
       WritersInductive
  <2>4. KeysTyped' /\ WorkTyped'
    BY <2>1, PreparedKeysInductive, WorkInductive
  <2> QED
    BY <2>3, <2>4 DEF ServerInv
<1> QED
  BY <1>1, <1>2, PTL DEF PreparedSpec, allVars

(* Handlers that write what they saw earlier break nothing that requests   *)
(* keep: types, history, references, one outcome per operation, no lost    *)
(* update (push_with_effects, save, delete, reject_request).               *)
THEOREM HandlersKeepServer ==
  PreparedSpec => [](TypeOK /\ JournalIsHistory /\ References /\ OneOutcome /\ FirstWriterWins)
<1>1. ServerInv => TypeOK /\ JournalIsHistory /\ References /\ FirstWriterWins
  BY TypeOKForms, HistoryForms DEF ServerInv, WritersInv
<1>2. ServerInv => OneOutcome
  BY DEF ServerInv, RepliesReceipted, OneOutcome
<1> QED
  BY <1>1, <1>2, PreparedInvAlways, PTL

(* Neither does a stale save or a prepared write revive a deleted row.     *)
THEOREM HandlersReviveNothing == PreparedSpec => DeletedForGood
<1>1. ServerInv /\ WorkTyped /\ [PreparedNext]_allVars
        => [\A i \in Ids : /\ row'[i].rev >= row[i].rev
                           /\ Tombstone(row[i]) => Tombstone(row'[i])]_serverVars
  BY RevisionsGrow, PreparedForms DEF ServerInv
<1> QED
  BY <1>1, PreparedInvAlways, PTL DEF PreparedSpec, DeletedForGood, allVars

(* With its handlers the server still is a store of versioned entities     *)
(* with operations decided once.                                           *)
THEOREM HandlersImplementStore == PreparedSpec => ImplementsStore
<1>1. PreparedInit => Store!StoreInit
  BY DEF PreparedInit, ServerInit, Store!StoreInit, Store!Absent, Absent, Store!Ids, Ids
<1>2. ServerInv /\ ServerInv' /\ WorkTyped /\ [PreparedNext]_allVars
        => [Store!StoreNext]_(Store!storeVars)
  BY StoreStep, PreparedForms DEF ServerInv, Store!storeVars, Decided
<1> QED
  BY <1>1, <1>2, PreparedInvAlways, PTL
  DEF PreparedSpec, ImplementsStore, Store!StoreSpec, allVars

-----------------------------------------------------------------------------
(* Effects.                                                                *)

(* What is committed stays: receipts, groups and what came before them.    *)
LEMMA Committed ==
  ASSUME Typed, Step
  PROVE  /\ receipts \subseteq receipts'
         /\ \A i \in Ids : \A n \in GroupsOf(i) :
              /\ n \in GroupsOf(i)'
              /\ journal'[n] = journal[n]
              /\ Earlier(i, n)' = Earlier(i, n)
<1>1. receipts \subseteq receipts'
  BY DEF Step, OwnStep, AcceptStep, Accept, RefuseStep, RepeatStep, PruneStep, Answer, serverVars
<1>2. CASE UNCHANGED journal
  BY <1>1, <1>2 DEF GroupsOf, Earlier, Sequence
<1>3. ASSUME NEW muts, Sound(muts), ApplyAndJournal(muts), NEW i \in Ids, NEW n \in GroupsOf(i)
      PROVE  /\ n \in GroupsOf(i)'
             /\ journal'[n] = journal[n]
             /\ Earlier(i, n)' = Earlier(i, n)
  <2>0. PICK last : last = Len(journal) + 1
    OBVIOUS
  <2>1. /\ Len(journal) \in Nat /\ GroupsOf(i) \subseteq 1..Len(journal)
        /\ GroupsOf(i)' = GroupsOf(i) \/ GroupsOf(i)' = GroupsOf(i) \cup {last}
        /\ \A m \in 1..Len(journal) : journal'[m] = journal[m]
    BY <1>3, <2>0, GroupsFinite, GroupsGrow
  <2>2. {k \in GroupsOf(i)' : k < n} = {k \in GroupsOf(i) : k < n}
    BY <2>0, <2>1
  <2>3. \A m \in {k \in GroupsOf(i) : k < n} : journal'[m][i] = journal[m][i]
    BY <2>1
  <2> QED
    BY <2>1, <2>2, <2>3 DEF Earlier
<1> QED
  BY <1>1, <1>2, <1>3
  DEF Step, OwnStep, AcceptStep, Accept, RefuseStep, RepeatStep, PruneStep, serverVars

(* The two ways in which a step touches effects and accepted receipts.     *)
QueueStep(w) ==
  /\ WorkOf(w)
  /\ Commit(w)
  /\ ran' = ran

QuietStep ==
  /\ effects' \cup ran' = effects \cup ran
  /\ \A r \in receipts' \ receipts : r.result.kind = "accepted" => r.key \notin PreparedKeys

LEMMA EffectSteps ==
  ASSUME Typed, WorkTyped, [PreparedNext]_allVars
  PROVE  QuietStep \/ \E w : QueueStep(w)
<1>1. ASSUME NEW req \in Requests, Push(req), UNCHANGED <<effects, ran>>
      PROVE  QuietStep
  <2>1. req.key \notin PreparedKeys
    BY PreparedAssumption DEF PreparedKeys
  <2>2. UNCHANGED receipts \/ \E result : Answer(req, result)
    BY <1>1 DEF Push, Replay, Accept, Refused, Reject
  <2>3. \A r \in receipts' \ receipts : r.key = req.key
    BY <2>2 DEF Answer
  <2> QED
    BY <1>1, <2>1, <2>3 DEF QuietStep
<1>2. CASE UNCHANGED receipts /\ effects' \cup ran' = effects \cup ran
  BY <1>2 DEF QuietStep
<1>3. ASSUME NEW h \in Handlers, Write(h), ~Commit(work[h])
      PROVE  QuietStep
  BY <1>3
  DEF Write, Repeat, Again, Outdated, Fail, Refused, Reject, Answer, Result, QuietStep, serverVars
<1>4. ASSUME NEW h \in Handlers, Write(h), Commit(work[h])
      PROVE  QueueStep(work[h])
  BY <1>4 DEF Write, QueueStep, WorkTyped
<1>5. ASSUME NEW h \in Handlers, RejectRequest(h)
      PROVE  QuietStep
  BY <1>5 DEF RejectRequest, Repeat, Again, Answer, Result, QuietStep
<1>6. ASSUME NEW e \in effects, RunEffect(e) \/ AcknowledgeEffect(e)
      PROVE  effects' \cup ran' = effects \cup ran
  BY <1>6 DEF RunEffect, AcknowledgeEffect
<1>7. CASE ServerNext /\ UNCHANGED preparedVars
  BY <1>1, <1>2, <1>7
  DEF ServerNext, ServerWrite, OrmInsert, OrmUpdate, OrmDelete, OrmWrite, Prune, preparedVars
<1> QED
  BY <1>2, <1>3, <1>4, <1>5, <1>6, <1>7
  DEF PreparedNext, PreparePush, ReadRevision, Abandon, RunEffect, AcknowledgeEffect, allVars,
      preparedVars, serverVars

(* One effect for every watched entity that the request affects. *)
LEMMA QueuedElements ==
  ASSUME NEW w
  PROVE  /\ \A e \in Queued(w) :
              /\ w.before # None
              /\ e.key = w.req.key
              /\ e.id \in Watched \cap Affected(w.req.muts)
              /\ e.previous = w.before[e.id]
              /\ e.entity = Stamped(w.req.muts)[e.id]
         /\ \A e, f \in Queued(w) : e.id = f.id => e = f
         /\ w.before # None =>
              \A i \in Watched \cap Affected(w.req.muts) : \E e \in Queued(w) : e.id = i
<1> DEFINE earlier(i) == {e \in effects \cup ran : e.key = w.req.key /\ e.id = i}
           effect(i) == [key |-> w.req.key, id |-> i, number |-> Cardinality(earlier(i)) + 1,
                         previous |-> w.before[i], entity |-> Stamped(w.req.muts)[i]]
           ids == IF w.before = None THEN {} ELSE Watched \cap Affected(w.req.muts)
<1>1. Queued(w) = {effect(i) : i \in ids}
  BY DEF Queued
<1>2. \A i : /\ effect(i).key = w.req.key /\ effect(i).id = i
             /\ effect(i).previous = w.before[i]
             /\ effect(i).entity = Stamped(w.req.muts)[i]
  OBVIOUS
<1> HIDE DEF effect
<1> QED
  BY <1>1, <1>2

(* What a commit queues: about the rows that it replaced, once each.       *)
LEMMA QueuedForms ==
  ASSUME ServerInv, NEW w, QueueStep(w)
  PROVE  LET result == Result("accepted", [i \in Affected(w.req.muts) |-> Stamped(w.req.muts)[i]])
         IN  /\ Sound(w.req.muts) /\ ApplyAndJournal(w.req.muts)
             /\ ~Receipted(w.req)
             /\ receipts' = receipts \cup {[key |-> w.req.key, muts |-> w.req.muts, result |-> result]}
             /\ effects' \cup ran' = effects \cup ran \cup Queued(w)
             /\ Queued(w) # {} => w.before = Captured(w.req.muts)
<1>1. Commit(w) /\ IsMutations(w.req.muts)
  BY DEF QueueStep, WorkOf
<1>2. Sound(w.req.muts)
  BY <1>1, AcceptSound DEF Commit, ServerInv, AcceptStep
<1>3. Queued(w) # {} => w.before # None
  BY DEF Queued
<1> QED
  BY <1>1, <1>2, <1>3 DEF Commit, Accept, Answer, QueueStep, Changed

LEMMA TruthInductive ==
  ASSUME ServerInv, WorkTyped, EffectsTellTruth, [PreparedNext]_allVars
  PROVE  EffectsTellTruth'
<1> DEFINE Truth(e) ==
             /\ \E r \in receipts : /\ r.key = e.key /\ r.result.kind = "accepted"
                                    /\ r.result.entities[e.id] = e.entity
             /\ \E n \in GroupsOf(e.id) :
                  /\ journal[n][e.id].rev = e.entity.rev
                  /\ e.previous \in Earlier(e.id, n)
                  /\ e.previous.rev = e.entity.rev - 1
<1>1. Typed /\ History /\ Step
  BY PreparedForms DEF ServerInv
<1>2. ASSUME NEW e \in effects \cup ran
      PROVE  Truth(e)'
  <2>1. Truth(e)
    BY DEF EffectsTellTruth
  <2>2. e.id \in Ids
    <3>1. PICK n \in GroupsOf(e.id) : n \in 1..Len(journal) /\ e.id \in DOMAIN journal[n]
      BY <2>1 DEF GroupsOf, Sequence
    <3>2. journal[n] \in Groups
      BY <1>1, <3>1 DEF Typed
    <3> QED
      BY <3>1, <3>2, GroupTyped
  <2> QED
    BY <1>1, <2>1, <2>2, Committed
<1>3. CASE QuietStep
  BY <1>2, <1>3 DEF QuietStep, EffectsTellTruth
<1>4. ASSUME NEW w, QueueStep(w), NEW e \in Queued(w)
      PROVE  Truth(e)'
  <2> DEFINE muts == w.req.muts
             result == Result("accepted", [i \in Affected(muts) |-> Stamped(muts)[i]])
             new == [key |-> w.req.key, muts |-> muts, result |-> result]
  <2>0. PICK last : last = Len(journal) + 1
    OBVIOUS
  <2>1. /\ Sound(muts) /\ ApplyAndJournal(muts)
        /\ new \in receipts'
        /\ w.before = Captured(muts)
    BY <1>4, QueuedForms
  <2>2. PICK i \in Affected(muts) :
          e.key = w.req.key /\ e.id = i /\ e.previous = w.before[i] /\ e.entity = Stamped(muts)[i]
    BY QueuedElements
  <2>3. i \in Ids /\ i \in Touched(muts)
    BY <1>1, <2>1, GroupEffect DEF Affected
  <2>4. e.previous = row[i]
    BY <2>1, <2>2, <2>3 DEF Captured
  <2>5. new.key = e.key /\ new.result.kind = "accepted" /\ new.result.entities[i] = e.entity
    BY <2>2 DEF Result
  <2>6. /\ last \in GroupsOf(i)'
        /\ GroupsOf(i)' = GroupsOf(i) \cup {last}
        /\ journal'[last][i] = e.entity
        /\ e.entity.rev = row[i].rev + 1
        /\ \A n \in 1..Len(journal) : journal'[n] = journal[n]
    BY <1>1, <2>0, <2>1, <2>2, <2>3, GroupsGrow DEF ApplyAndJournal
  <2>7. row[i].rev \in Nat
    BY <1>1, <2>3, EntityForms
  <2>8. GroupsOf(i) \subseteq 1..Len(journal) /\ Len(journal) \in Nat
    BY <1>1, GroupsFinite
  <2>9. row[i] \in Earlier(i, last)'
    <3>1. CASE GroupsOf(i) = {}
      BY <1>1, <2>3, <3>1 DEF History, Earlier
    <3>2. CASE GroupsOf(i) # {}
      <4>1. PICK n \in GroupsOf(i) : journal[n][i] = row[i]
        BY <1>1, <2>3, <3>2 DEF History
      <4>2. n \in GroupsOf(i)' /\ n < last /\ journal'[n][i] = row[i]
        BY <2>0, <2>6, <2>8, <4>1
      <4> QED
        BY <4>2 DEF Earlier
    <3> QED
      BY <3>1, <3>2
  <2> HIDE DEF new, result, muts
  <2> QED
    BY <2>1, <2>2, <2>4, <2>5, <2>6, <2>7, <2>9
<1>5. ASSUME NEW w, QueueStep(w)
      PROVE  EffectsTellTruth'
  <2>1. effects' \cup ran' = effects \cup ran \cup Queued(w)
    BY <1>5, QueuedForms
  <2>2. \A e \in effects' \cup ran' : Truth(e)'
    BY <1>2, <1>4, <1>5, <2>1
  <2> QED
    BY <2>2 DEF EffectsTellTruth
<1> QED
  BY <1>1, <1>3, <1>5, EffectSteps

LEMMA OnceInductive ==
  ASSUME ServerInv, WorkTyped, EffectsTellTruth, EffectsOnce, [PreparedNext]_allVars
  PROVE  EffectsOnce'
<1> DEFINE Of(all, k, i) == {e \in all : e.key = k /\ e.id = i}
<1>1. EffectsOnce <=>
        \A r \in receipts : r.result.kind = "accepted" /\ r.key \in PreparedKeys =>
          \A i \in Watched \cap DOMAIN r.result.entities :
            Cardinality(Of(effects \cup ran, r.key, i)) = 1
  BY DEF EffectsOnce, PreparedKeys
<1>2. EffectsOnce' <=>
        \A r \in receipts' : r.result.kind = "accepted" /\ r.key \in PreparedKeys =>
          \A i \in Watched \cap DOMAIN r.result.entities :
            Cardinality(Of(effects' \cup ran', r.key, i)) = 1
  BY DEF EffectsOnce, PreparedKeys
<1>3. CASE QuietStep
  BY <1>1, <1>2, <1>3 DEF QuietStep
<1>4. ASSUME NEW w, QueueStep(w)
      PROVE  EffectsOnce'
  <2> DEFINE muts == w.req.muts
             result == Result("accepted", [i \in Affected(muts) |-> Stamped(muts)[i]])
             new == [key |-> w.req.key, muts |-> muts, result |-> result]
  <2>1. /\ ~Receipted(w.req)
        /\ receipts' = receipts \cup {new}
        /\ effects' \cup ran' = effects \cup ran \cup Queued(w)
    BY <1>4, QueuedForms
  <2>2. \A e \in effects \cup ran : \E r \in receipts : r.key = e.key
    BY DEF EffectsTellTruth
  <2>3. \A e \in Queued(w) : e.key = w.req.key
    BY QueuedElements
  <2>4. ASSUME NEW r \in receipts, NEW i
        PROVE  Of(effects' \cup ran', r.key, i) = Of(effects \cup ran, r.key, i)
    <3>1. r.key # w.req.key
      BY <2>1 DEF Receipted
    <3> QED
      BY <2>1, <2>3, <3>1
  <2>5. ASSUME w.req.key \in PreparedKeys, NEW i \in Watched \cap Affected(muts)
        PROVE  Cardinality(Of(effects' \cup ran', w.req.key, i)) = 1
    <3>1. w.before # None
      BY <1>4, <2>5 DEF QueueStep, WorkOf
    <3>2. PICK e : e \in Queued(w) /\ e.id = i /\ \A f \in Queued(w) : f.id = i => f = e
      BY <2>5, <3>1, QueuedElements
    <3>3. \A f \in effects \cup ran : f.key # w.req.key
      BY <2>1, <2>2 DEF Receipted
    <3>4. Of(effects' \cup ran', w.req.key, i) = {e}
      BY <2>1, <2>3, <3>2, <3>3
    <3> QED
      BY <3>4, FS_Singleton
  <2>6. DOMAIN new.result.entities = Affected(muts) /\ new.key = w.req.key
    BY DEF Result
  <2> HIDE DEF Of, new, result, muts
  <2> QED
    BY <1>1, <1>2, <2>1, <2>4, <2>5, <2>6
<1> QED
  BY <1>3, <1>4, EffectSteps DEF ServerInv

LEMMA EffectsAlways == PreparedSpec => [](EffectsTellTruth /\ EffectsOnce)
<1>1. PreparedInit => EffectsTellTruth /\ EffectsOnce
  BY DEF PreparedInit, ServerInit, EffectsTellTruth, EffectsOnce
<1>2. /\ ServerInv /\ WorkTyped
      /\ EffectsTellTruth /\ EffectsOnce
      /\ [PreparedNext]_allVars
      => EffectsTellTruth' /\ EffectsOnce'
  BY TruthInductive, OnceInductive
<1> QED
  BY <1>1, <1>2, PreparedInvAlways, PTL DEF PreparedSpec, allVars

(* Every effect is about a change that its own operation committed, and    *)
(* the previous state it carries is the one that the commit replaced,      *)
(* although it was read in an earlier transaction: a row that moved in     *)
(* between makes the preparation outdated (push_with_effects).             *)
THEOREM EffectsAreTrue == PreparedSpec => []EffectsTellTruth
BY EffectsAlways, PTL

(* A commit queues one effect for each watched entity that it changed, a   *)
(* replayed request queues none, and no acknowledgement takes an effect    *)
(* away that has not run (push_with_effects, acknowledge_effect).          *)
THEOREM EffectsQueuedOnce == PreparedSpec => []EffectsOnce
BY EffectsAlways, PTL
=============================================================================
