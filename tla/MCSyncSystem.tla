---------------------------- MODULE MCSyncSystem ----------------------------
(* Instances of the whole system.                                          *)
EXTENDS SyncSystem, MergeLaws

CONSTANTS
  A, B,            \* clients
  p, q, c,         \* parents and a child
  MaxOperations    \* of one client: only bounds the set of receipt keys

MCKeys == Clients \X (1..MaxOperations)
MCNoRequests == {}
MCCascade == [i \in Children |-> "cascade"]
MCSetNull == [i \in Children |-> "set null"]

(* The child exists with its parent, or apart from it. *)
MCFamily == (p :> [val |-> 1, ref |-> None]) @@ (c :> [val |-> 1, ref |-> p])
MCApart == (p :> [val |-> 1, ref |-> None]) @@ (c :> [val |-> 1, ref |-> None])
MCParent == p :> [val |-> 1, ref |-> None]

(* The versions of a child row to merge: NULL is a third value of "val".    *)
MCRows ==
  {None} \cup [rev : {1, 2}, data : [val : Values \cup {None}, ref : Parents \cup {None}]]

Replicas == Permutations(Clients)
=============================================================================
