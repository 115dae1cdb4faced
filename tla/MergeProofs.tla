---------------------------- MODULE MergeProofs ----------------------------
(***************************************************************************)
(* The laws of the merge for any three versions of a row, whatever the     *)
(* values, the parents and the revisions, and for the server's row at any  *)
(* time of the whole system.                                               *)
(***************************************************************************)
EXTENDS MergeLaws, SystemProofs

(* The two forms of a version. *)
LEMMA VersionForms ==
  ASSUME NEW r \in Row
  PROVE  /\ r = None => DataIn(r) = None
         /\ r # None => /\ DataIn(r) = r.data
                        /\ r.data \in [Fields -> FieldValue]
                        /\ r.rev \in Nat
                        /\ r.data # None
  BY DataAssumption DEF DataIn, Data, Row, Record

(* Rebased is a record, with the local value of every edited field and the *)
(* remote value of the others.                                             *)
LEMMA RebasedFields ==
  ASSUME NEW from, NEW l \in Row, NEW r \in Row, l # None, r # None
  PROVE  /\ Rebased(from, l, r) # None
         /\ \A f \in Fields :
              /\ l.data[f] # from[f] => Rebased(from, l, r).data[f] = l.data[f]
              /\ l.data[f] = from[f] => Rebased(from, l, r).data[f] = r.data[f]
<1> DEFINE out == Rebased(from, l, r)
<1>1. out.data \in Data
  BY VersionForms DEF Rebased, Edited, Data
<1>2. out \in Record
  BY <1>1, VersionForms DEF Rebased, Record
<1>3. out # None
  BY <1>2, DataAssumption
<1> QED
  BY <1>3 DEF Rebased, Edited

(* The three-way merge keeps the local edits: where it does not keep the   *)
(* whole local row, the row has not been edited or is rebased.             *)
LEMMA MergeKeeps ==
  ASSUME NEW b \in Row, NEW l \in Row, NEW r \in Row, l # b
  PROVE  Keeps(DataIn(b), l, MergeRow(b, l, r).row)
<1>1. Keeps(DataIn(b), l, l)
  BY DEF Keeps
<1>2. CASE MergeRow(b, l, r).row = l
  BY <1>1, <1>2
<1>3. CASE MergeRow(b, l, r).row # l
  <2>1. b # None /\ l # None /\ r # None /\ MergeRow(b, l, r).row = Rebased(b.data, l, r)
    BY <1>3 DEF MergeRow, Outcome
  <2>2. DataIn(b) = b.data
    BY <2>1, VersionForms
  <2>3. /\ Rebased(b.data, l, r) # None
        /\ \A f \in Fields : l.data[f] # b.data[f] => Rebased(b.data, l, r).data[f] = l.data[f]
    BY <2>1, RebasedFields
  <2>4. b.data # None
    BY <2>1, VersionForms
  <2> QED
    BY <2>1, <2>2, <2>3, <2>4 DEF Keeps
<1> QED
  BY <1>2, <1>3

(* So does the acknowledgement of an operation that sent the data of b.    *)
LEMMA AcknowledgeKeeps ==
  ASSUME NEW b \in Row, NEW l \in Row, NEW r \in Row, DataIn(l) # DataIn(b)
  PROVE  Keeps(DataIn(b), l, Acknowledge(DataIn(b), l, r).row)
<1> DEFINE out == Acknowledge(DataIn(b), l, r).row
<1>1. Keeps(DataIn(b), l, l)
  BY DEF Keeps
<1>2. CASE out = l
  BY <1>1, <1>2
<1>3. CASE out # l
  <2>1. DataIn(b) # None /\ r # None /\ out = IF l = None THEN None ELSE Rebased(DataIn(b), l, r)
    BY <1>3, VersionForms DEF Acknowledge, Outcome
  <2>2. CASE l = None
    BY <2>1, <2>2 DEF Keeps
  <2>3. CASE l # None
    BY <2>1, <2>3, RebasedFields DEF Keeps
  <2> QED
    BY <2>2, <2>3
<1> QED
  BY <1>2, <1>3

LEMMA EditsKeptForAll ==
  ASSUME NEW b \in Row, NEW l \in Row, NEW r \in Row
  PROVE  EditsKeptFor(b, l, r)
BY MergeKeeps, AcknowledgeKeeps DEF EditsKeptFor

(* Merging is symmetric in the two writers.                                *)
LEMMA WritersAgreeForAll ==
  ASSUME NEW b \in Row, NEW l \in Row, NEW r \in Row
  PROVE  WritersAgreeFor(b, l, r)
<1> DEFINE mine == MergeRow(b, l, r)
           theirs == MergeRow(b, r, l)
<1>1. CASE l = r \/ r = b \/ l = b
  BY <1>1 DEF WritersAgreeFor, MergeRow, Outcome
<1>2. CASE l # r /\ r # b /\ l # b /\ None \in {b, l, r}
  BY <1>2 DEF WritersAgreeFor, MergeRow, Outcome
<1>3. CASE l # r /\ r # b /\ l # b /\ None \notin {b, l, r}
  <2>1. /\ mine = Outcome(Rebased(b.data, l, r),
                          \E f \in Edited(b.data, l) : r.data[f] \notin {b.data[f], l.data[f]})
        /\ theirs = Outcome(Rebased(b.data, r, l),
                            \E f \in Edited(b.data, r) : l.data[f] \notin {b.data[f], r.data[f]})
    BY <1>3 DEF MergeRow
  <2>2. mine.clash <=> \E f \in Fields : /\ l.data[f] # b.data[f]
                                         /\ r.data[f] \notin {b.data[f], l.data[f]}
    BY <2>1 DEF Outcome, Edited
  <2>3. theirs.clash <=> \E f \in Fields : /\ r.data[f] # b.data[f]
                                           /\ l.data[f] \notin {b.data[f], r.data[f]}
    BY <2>1 DEF Outcome, Edited
  <2>4. mine.clash \in BOOLEAN /\ theirs.clash \in BOOLEAN
    BY <2>1 DEF Outcome
  <2>5. mine.clash = theirs.clash
    BY <2>2, <2>3, <2>4
  <2>6. ASSUME ~mine.clash
        PROVE  DataIn(mine.row) = DataIn(theirs.row)
    <3>1. mine.row = Rebased(b.data, l, r) /\ theirs.row = Rebased(b.data, r, l)
      BY <2>1 DEF Outcome
    <3>2. \A f \in Fields : mine.row.data[f] = theirs.row.data[f]
      <4> SUFFICES ASSUME NEW f \in Fields
                   PROVE  mine.row.data[f] = theirs.row.data[f]
        OBVIOUS
      <4>1. /\ l.data[f] # b.data[f] => Rebased(b.data, l, r).data[f] = l.data[f]
            /\ l.data[f] = b.data[f] => Rebased(b.data, l, r).data[f] = r.data[f]
        BY <1>3, RebasedFields
      <4>2. /\ r.data[f] # b.data[f] => Rebased(b.data, r, l).data[f] = r.data[f]
            /\ r.data[f] = b.data[f] => Rebased(b.data, r, l).data[f] = l.data[f]
        BY <1>3, RebasedFields
      <4>3. l.data[f] # b.data[f] => r.data[f] \in {b.data[f], l.data[f]}
        BY <2>2, <2>6
      <4> HIDE DEF mine, theirs
      <4> QED
        BY <3>1, <4>1, <4>2, <4>3
    <3>3. mine.row.data = [f \in Fields |-> mine.row.data[f]]
          /\ theirs.row.data = [f \in Fields |-> theirs.row.data[f]]
      BY <3>1 DEF Rebased
    <3>4. mine.row.data = theirs.row.data
      BY <3>2, <3>3
    <3> QED
      BY <1>3, <3>1, <3>4, RebasedFields DEF DataIn
  <2> QED
    BY <2>5, <2>6 DEF WritersAgreeFor
<1> QED
  BY <1>1, <1>2, <1>3

(* A field without a change is not in the patch, and keeps its value.      *)
LEMMA PatchCarriesRowForAll ==
  ASSUME NEW i \in Children, NEW b \in Row, NEW l \in Row
  PROVE  PatchCarriesRowFor(i, b, l)
<1> SUFFICES ASSUME l # None
             PROVE  Overlay(DataIn(b), PatchRow(i, b, l)) = l.data
  BY DEF PatchCarriesRowFor
<1> DEFINE patch == PatchRow(i, b, l)
<1>1. /\ DOMAIN patch = {g \in Fields : b = None \/ l.data[g] # b.data[g]}
      /\ \A f \in DOMAIN patch : patch[f] = l.data[f]
  BY DEF PatchRow, FieldsOf
<1>2. \A f \in Fields : Overlay(DataIn(b), patch)[f] = l.data[f]
  BY <1>1, VersionForms DEF Overlay
<1>3. Overlay(DataIn(b), patch) = [f \in Fields |-> Overlay(DataIn(b), patch)[f]]
  BY DEF Overlay
<1>4. l.data = [f \in Fields |-> l.data[f]]
  BY VersionForms
<1> QED
  BY <1>2, <1>3, <1>4

-----------------------------------------------------------------------------
(* What the server holds is a version of a row, and so is what is compared *)
(* with it.                                                                *)
LEMMA ServerVersion ==
  ASSUME SystemInv
  PROVE  /\ \A i \in Ids : RecordOf(row[i]) \in Row
         /\ \A b \in Rows : b \in Row
<1>1. \A i \in Ids : row[i] \in Entity
  BY DEF SystemInv, ServerInv, Typed, RowsTyped
<1>2. \A i \in Ids : RecordOf(row[i]) \in Row
  BY <1>1 DEF RecordOf, Live, Entity, Record, Row
<1> QED
  BY <1>2, RowsAssumption

(* No merge with the server's row takes an edit of a replica away, nor     *)
(* does the acknowledgement of an operation, at any time.                  *)
THEOREM MergeKeepsEdits == SystemSpec => []EditsKept
<1>1. SystemInv => EditsKept
  BY ServerVersion, EditsKeptForAll DEF EditsKept, Ids
<1> QED
  BY <1>1, SystemAlways, PTL

(* A replica and the server's last writer, each merging the other's row,   *)
(* both conflict or both arrive at the same data.                          *)
THEOREM MergeIsSymmetric == SystemSpec => []WritersAgree
<1>1. SystemInv => WritersAgree
  BY ServerVersion, WritersAgreeForAll DEF WritersAgree, Ids
<1> QED
  BY <1>1, SystemAlways, PTL

(* The patch of a row against the server's recreates it on top of that.    *)
THEOREM PatchIsComplete == SystemSpec => []PatchCarriesRow
<1>1. SystemInv => PatchCarriesRow
  BY ServerVersion, PatchCarriesRowForAll DEF PatchCarriesRow, Ids
<1> QED
  BY <1>1, SystemAlways, PTL
=============================================================================
