----------------------------- MODULE MergeLaws -----------------------------
(***************************************************************************)
(* What the merge of one row owes to its two writers, stated for three     *)
(* versions of a row: the base both started from and the visible row of a  *)
(* replica, which may be any, and the row that the server has.             *)
(***************************************************************************)
EXTENDS Merge, SyncServer

CONSTANT Rows     \* the versions of a child row to compare, None included

ASSUME RowsAssumption == \A r \in Rows : r \in Row

DataIn(r) == IF r = None THEN None ELSE r.data

(* out has every field in which l departs from the data "from", or is      *)
(* missing as l is.                                                        *)
Keeps(from, l, out) ==
  IF l = None THEN out = None
  ELSE \A f \in Fields : (from = None \/ l.data[f] # from[f])
                            => out # None /\ out.data[f] = l.data[f]

(* No merge takes an edit away: neither the three-way merge, nor the       *)
(* acknowledgement of an operation that sent the data of b.                *)
EditsKeptFor(b, l, r) ==
  /\ l # b => Keeps(DataIn(b), l, MergeRow(b, l, r).row)
  /\ DataIn(l) # DataIn(b) => Keeps(DataIn(b), l, Acknowledge(DataIn(b), l, r).row)

(* Two replicas that merge each other's edits agree: both see a conflict,  *)
(* or both arrive at the same data.                                        *)
WritersAgreeFor(b, l, r) ==
  LET mine == MergeRow(b, l, r)
      theirs == MergeRow(b, r, l)
  IN /\ mine.clash = theirs.clash
     /\ ~mine.clash => DataIn(mine.row) = DataIn(theirs.row)

(* The patch against a version, applied to that version, gives the row: a  *)
(* field neither sent nor changed cannot end up different on the server.   *)
PatchCarriesRowFor(i, b, l) ==
  l # None => Overlay(DataIn(b), PatchRow(i, b, l)) = l.data

(* The same against the server's row, at any time, for all versions that   *)
(* the replica may have started from and may show.                         *)
EditsKept ==
  \A i \in Children : \A b, l \in Rows : EditsKeptFor(b, l, RecordOf(row[i]))

WritersAgree ==
  \A i \in Children : \A b, l \in Rows : WritersAgreeFor(b, l, RecordOf(row[i]))

PatchCarriesRow ==
  \A i \in Children : \A l \in Rows : PatchCarriesRowFor(i, RecordOf(row[i]), l)
=============================================================================
