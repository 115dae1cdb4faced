---------------------------- MODULE MCObjectLogs ----------------------------
(* Instances of protocol 3. *)
EXTENDS ObjectLogs

CONSTANTS
  A,               \* a client
  p, q,            \* objects
  MaxOperations    \* of one client: only bounds the set of receipt keys

MCKeys == Clients \X (1..MaxOperations)
MCNoRequests == {}
MCNoChildren == <<>>
MCSeed == p :> [val |-> 1, ref |-> None]
MCGrants == {{}, {"read", "change", "delete"}}
=============================================================================
