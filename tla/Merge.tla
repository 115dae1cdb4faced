------------------------------- MODULE Merge -------------------------------
(***************************************************************************)
(* The three-way merge of one row (che-sync/src/merge.rs).  A row is a     *)
(* record or None; "clash" says that the code reports conflicting fields.  *)
(* A record's revision stands for all server-owned columns: they take part *)
(* in the comparison of whole records and never in the merge of fields.    *)
(***************************************************************************)
EXTENDS SyncData

Row == Record \cup {None}

Outcome(r, clash) == [row |-> r, clash |-> clash]

(* The writable fields in which a row departs from earlier data. *)
Edited(from, local) == {f \in Fields : local.data[f] # from[f]}

(* Defect: where both writers edited a field, the server wins. *)
RebasedServerWins(from, local, remote) ==
  [rev  |-> remote.rev,
   data |-> [f \in Fields |-> IF f \in Edited(from, local) /\ remote.data[f] = from[f]
                              THEN local.data[f] ELSE remote.data[f]]]

(* remote, with the edits that local made to the data "from". *)
Rebased(from, local, remote) ==
  [rev  |-> remote.rev,
   data |-> [f \in Fields |-> IF f \in Edited(from, local) THEN local.data[f]
                              ELSE remote.data[f]]]

(* Defect: a remote deletion wins over an edit, without a conflict. *)
MergeRowDeletionWins(base, local, remote) ==
  IF local = remote \/ remote = base THEN Outcome(local, FALSE)
  ELSE IF local = base \/ remote = None THEN Outcome(remote, FALSE)
  ELSE IF None \in {base, local} THEN Outcome(local, TRUE)
  ELSE Outcome(Rebased(base.data, local, remote),
               \E f \in Edited(base.data, local) :
                 remote.data[f] \notin {base.data[f], local.data[f]})

(* Local values win at conflicting fields until the application resolves them. *)
MergeRow(base, local, remote) ==
  IF local = remote \/ remote = base THEN Outcome(local, FALSE)
  ELSE IF local = base THEN Outcome(remote, FALSE)
  ELSE IF None \in {base, local, remote} THEN Outcome(local, TRUE)
  ELSE Outcome(Rebased(base.data, local, remote),
               \E f \in Edited(base.data, local) :
                 remote.data[f] \notin {base.data[f], local.data[f]})

(* Defect: a deleted row comes back when the server changed it. *)
MergeDeletedRevives(base, remote) ==
  IF remote = None \/ remote = base THEN Outcome(None, FALSE) ELSE Outcome(remote, TRUE)

(* The row was deleted locally: it stays deleted. *)
MergeDeleted(base, remote) == Outcome(None, remote # None /\ remote # base)

(* Defect: a patch leaves out the fields set to NULL. *)
PatchRowNonNull(i, base, local) ==
  IF local = None THEN None
  ELSE [f \in {g \in FieldsOf(i) :
                 local.data[g] # None /\ (base = None \/ local.data[g] # base.data[g])}
          |-> local.data[f]]

(* The patch that turns the shadow into the local row; None deletes. *)
PatchRow(i, base, local) ==
  IF local = None THEN None
  ELSE [f \in {g \in FieldsOf(i) : base = None \/ local.data[g] # base.data[g]} |-> local.data[f]]

(* Defect: the accepted row replaces the visible one, edited since or not. *)
AcknowledgeOverwrites(sent, local, remote) == Outcome(remote, FALSE)

(* An accepted operation: remote answers the data that was sent (None for  *)
(* a deletion), and edits made since then become the next intent.          *)
Acknowledge(sent, local, remote) ==
  IF \/ local = remote
     \/ local = None /\ sent = None
     \/ local # None /\ sent # None /\ local.data = sent
  THEN Outcome(remote, FALSE)
  ELSE IF sent # None /\ remote # None
  THEN Outcome(IF local = None THEN None ELSE Rebased(sent, local, remote), FALSE)
  ELSE Outcome(local, TRUE)
=============================================================================
