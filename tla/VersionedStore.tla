--------------------------- MODULE VersionedStore ---------------------------
(***************************************************************************)
(* What the server promises to every replica: a store of versioned         *)
(* entities.  A commit moves a set of entities one revision forward at     *)
(* once, a deleted entity never gets data again, and an operation is       *)
(* decided at most once, whatever the network does to its messages.        *)
(***************************************************************************)
EXTENDS SyncData

CONSTANT Keys      \* identities of operations: replica and operation id

VARIABLES
  store,           \* id -> its current entity
  decided          \* the operations whose outcome is fixed

storeVars == <<store, decided>>

StoreInit ==
  /\ store = [i \in Ids |-> Absent]
  /\ decided = {}

(* The entities of S advance by one revision; tombstones stay tombstones. *)
Advance(S) ==
  /\ store' \in [Ids -> Entity]
  /\ \A i \in Ids \ S : store'[i] = store[i]
  /\ \A i \in S : /\ store'[i].rev = store[i].rev + 1
                  /\ Tombstone(store[i]) => ~Live(store'[i])

(* An operation takes effect, once. *)
Commit(k, S) ==
  /\ k \notin decided
  /\ decided' = decided \cup {k}
  /\ Advance(S)

(* An operation is refused (conflict or rejection), once and for all. *)
Refuse(k) ==
  /\ k \notin decided
  /\ decided' = decided \cup {k}
  /\ UNCHANGED store

(* The server's own code writes through its ORM. *)
WriteLocally(S) ==
  /\ Advance(S)
  /\ UNCHANGED decided

StoreNext ==
  \/ \E k \in Keys : Refuse(k) \/ \E S \in SUBSET Ids : Commit(k, S)
  \/ \E S \in SUBSET Ids : WriteLocally(S)

StoreSpec == StoreInit /\ [][StoreNext]_storeVars
=============================================================================
