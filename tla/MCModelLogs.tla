---------------------------- MODULE MCModelLogs ----------------------------
(* Instances of protocol 2. *)
EXTENDS ModelLogs

CONSTANTS
  A,               \* a client
  rest, local,     \* adapters
  p, c,            \* a parent and a child
  MaxOperations    \* of one client: only bounds the set of receipt keys

MCKeys == Clients \X (1..MaxOperations)
Formats == Permutations(Adapters)
MCNoRequests == {}
MCCascade == [i \in Children |-> "cascade"]
MCFamily == (p :> [val |-> 1, ref |-> None]) @@ (c :> [val |-> 1, ref |-> p])
=============================================================================
