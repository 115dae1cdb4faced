------------------------------ MODULE SyncData ------------------------------
(***************************************************************************)
(* The values that the scoped synchronization protocol exchanges           *)
(* (che-sync-protocol), over a registry of parents, and of children that   *)
(* hold one nullable foreign key "ref" to a parent.  Both have one more    *)
(* writable field, "val".  Children of different models may differ in the  *)
(* ON DELETE action of the key.  A row's id, revision and deletion mark    *)
(* are what the protocol itself looks at; time stamps, the scope column    *)
(* and the model name (an id belongs to one model) are left out.           *)
(***************************************************************************)
EXTENDS Naturals, FiniteSets

CONSTANTS
  Parents,     \* ids of the parent model
  Children,    \* ids of the child model
  Values,      \* values of the field "val"
  None,        \* SQL NULL, a missing record, and the patch of a deletion
  OnDelete     \* child -> its foreign key's ON DELETE action

Ids == Parents \cup Children

(* The fields a client may write. *)
Fields == {"val", "ref"}

FieldValue == Values \cup Parents \cup {None}

Data == [Fields -> FieldValue]

(* Columns and column types: only children refer to a parent. *)
FieldsOf(i) == IF i \in Children THEN Fields ELSE {"val"}

FieldType(f) == IF f = "val" THEN Values ELSE Parents \cup {None}

(* The data a row of id i may hold. *)
DataOf(i) ==
  {d \in Data : /\ d["val"] \in Values
                /\ d["ref"] \in IF i \in Children THEN Parents \cup {None} ELSE {None}}

(* An entity is one id at one revision.  Missing data at a positive        *)
(* revision is a tombstone; revision 0 has never been recorded.            *)
Entity == [rev : Nat, data : Data \cup {None}]

Absent == [rev |-> 0, data |-> None]

Live(e) == e.data # None

Tombstone(e) == e.rev > 0 /\ ~Live(e)

(* A record is the full row of a live entity, its revision column included *)
(* (revision 0 for a row inserted by a client and not yet acknowledged).   *)
Record == [rev : Nat, data : Data]

RecordOf(e) == IF Live(e) THEN e ELSE None

(* The foreign key of a row, None when the row is missing. *)
RefOf(r) == IF r = None THEN None ELSE r.data["ref"]

(* A writable patch maps some fields to their new value. *)
Patch == UNION {[F -> FieldValue] : F \in SUBSET Fields}

(* Ids belong to one model, and None is no value, row or patch. *)
ASSUME DataAssumption ==
  /\ Parents \cap Children = {}
  /\ None \notin Parents \cup Children \cup Values
  /\ None \notin Data /\ None \notin Record /\ None \notin Patch
  /\ OnDelete \in [Children -> {"cascade", "set null", "restrict"}]

(* The patches that validate accepts for id i. *)
PatchOf(i) ==
  {p \in Patch : DOMAIN p \subseteq FieldsOf(i) /\ \A f \in DOMAIN p : p[f] \in FieldType(f)}

(* changes = None deletes the entity; at base 0 a patch creates it. *)
Mutation == [base : Nat, changes : Patch \cup {None}]

(* Partial functions from ids: the mutations of an operation, and the      *)
(* entities of a change group.                                             *)
IsMutations(m) == DOMAIN m \subseteq Ids /\ m \in [DOMAIN m -> Mutation]

IsGroup(g) == DOMAIN g \subseteq Ids /\ g \in [DOMAIN g -> Entity]

(* data with the patch ch applied; a creation has no data before. *)
Overlay(data, ch) ==
  [f \in Fields |-> IF f \in DOMAIN ch THEN ch[f]
                    ELSE IF data = None THEN None ELSE data[f]]

Deletions(muts) == {i \in DOMAIN muts : muts[i].changes = None}

Upserts(muts) == {i \in DOMAIN muts : muts[i].changes # None}

(* Children that a deletion of the parents in S reaches. *)
Referring(data, S) == {c \in Children : data[c] # None /\ data[c]["ref"] \in S}

(* Every foreign key of the rows points at a row that is present. *)
RefsPresent(rows) ==
  \A c \in Children : RefOf(rows[c]) \in Parents => rows[RefOf(rows[c])] # None
=============================================================================
