---------------------------- MODULE MCSyncServer ----------------------------
(* The server alone, against requests that replicas made from what they    *)
(* had pulled: creations that depend on each other, two writers of one     *)
(* child, deletions of a parent that every ON DELETE action sees, a value  *)
(* the policy refuses, a creation without a required field, and an         *)
(* operation id used for several contents.  Beside them the application's  *)
(* own calls: a prepared deletion whose cascade it observes, one change of *)
(* a child prepared at two revisions, and a save.                          *)
EXTENDS PreparedWrites, TLC

CONSTANTS p1, c1, c2, c3, v1, bad, h1

MCParents == {p1}
MCChildren == {c1, c2, c3}
MCValues == {v1, bad}
MCForbidden == {bad}
MCOnDelete == (c1 :> "cascade") @@ (c2 :> "set null") @@ (c3 :> "restrict")
MCKeys == 1..9

Put(base, patch) == [base |-> base, changes |-> patch]
Del(base) == [base |-> base, changes |-> None]
Req(key, muts) == [key |-> key, muts |-> muts]
Val(v) == [f \in {"val"} |-> v]
Child(v, p) == [f \in Fields |-> IF f = "val" THEN v ELSE p]

MCRequests == {
  Req(1, (p1 :> Put(0, Val(v1))) @@ (c1 :> Put(0, Child(v1, p1)))),
  Req(2, (c2 :> Put(0, Child(v1, p1))) @@ (c1 :> Put(1, Val(v1)))),
  Req(4, (c1 :> Put(1, [f \in {"ref"} |-> None])) @@ (p1 :> Del(1))),
  Req(5, (p1 :> Del(1)) @@ (c3 :> Del(1))),
  Req(6, (c2 :> Put(1, Val(bad)))),
  Req(6, (c2 :> Put(0, [f \in {"ref"} |-> p1])))}

Write7(base) == [req |-> Req(7, c1 :> Put(base, Val(v1))), identity |-> "write"]

MCPrepared == {Write7(1), Write7(2),
  [req |-> Req(8, p1 :> Del(1)), identity |-> None]}

MCHandlers == {h1}
MCWatched == {c1}
MCSaves == {[id |-> c1, changes |-> Child(v1, None)]}
MCOwnKeys == {9}
=============================================================================

