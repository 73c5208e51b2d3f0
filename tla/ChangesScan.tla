----------------------------- MODULE ChangesScan -----------------------------
(***************************************************************************)
(* UserGuideMenu.populateChanges (cli-user-guide.js) on one ".revhistory"  *)
(* table: the for loop over its rows two at a time, from row 1 (row 0 is   *)
(* the "Revision History" header), then the removal of the table from the  *)
(* page.  A row is abstracted to the number of TD cells it has (0, 1, or 2 *)
(* meaning "two or more"): a pair (i, i + 1) gives a "Changes" menu item,  *)
(* with its dialog, when row i has >= 2 cells and row i + 1 has >= 1.      *)
(* The item is appended under "Changes", so menu order is creation order.  *)
(***************************************************************************)
EXTENDS Naturals, Sequences, FiniteSets

CONSTANT MaxRows   \* bound on the rows of the table

ASSUME ScanAssumption == MaxRows \in Nat

Cells == 0..2

\* The tables of at most MaxRows rows: rows are indexed from 0, as xml_trs.
Tables == UNION {[0..(n - 1) -> Cells] : n \in 0..MaxRows}

NRows(t) == Cardinality(DOMAIN t)

VARIABLES
    rows,      \* xml_trs: the TD count of each row
    i,         \* the loop index
    changes,   \* rows i of the pairs turned into menu items, in creation order
    removed    \* the table was removed from the body

vars == <<rows, i, changes, removed>>

TypeOK ==
    /\ rows \in Tables
    /\ i \in Nat
    /\ changes \in Seq(0..MaxRows)
    /\ removed \in BOOLEAN

\* Seeded fault: the loop starts on the header row.
InitFromHeader ==
    /\ rows \in Tables
    /\ i = 0
    /\ changes = << >>
    /\ removed = FALSE

Init ==
    /\ rows \in Tables
    /\ i = 1
    /\ changes = << >>
    /\ removed = FALSE

\* Rows i and i + 1 hold a title/date row and a details row.
IsChange(t, k) == t[k] >= 2 /\ t[k + 1] >= 1

(***************************************************************************)
(* One iteration: i + 1 < xml_trs.length; if the cell counts fit, a menu   *)
(* item and its DynamicDialog are created; then i += 2.                    *)
(***************************************************************************)
ScanPair ==
    /\ i + 1 < NRows(rows)
    /\ changes' = IF IsChange(rows, i) THEN Append(changes, i) ELSE changes
    /\ i' = i + 2
    /\ UNCHANGED <<rows, removed>>

\* The loop test fails: this.parentNode.removeChild(this).
RemoveTable ==
    /\ ~(i + 1 < NRows(rows))
    /\ ~removed
    /\ removed' = TRUE
    /\ UNCHANGED <<rows, i, changes>>

Next == ScanPair \/ RemoveTable

Spec == Init /\ [][Next]_vars

-----------------------------------------------------------------------------
\* Reference: the pairs of a revision-history table, rows (1, 2), (3, 4) ...
ChangePairs(t) == {k \in 1..(NRows(t) - 2) : k % 2 = 1 /\ IsChange(t, k)}

(***************************************************************************)
(* Once the table is gone, every well-formed title/details pair of it has  *)
(* become exactly one "Changes" item, and nothing else has: no pair is     *)
(* missed or shifted by the two-row stride, and none is created twice.     *)
(***************************************************************************)
ScanCoversPairs ==
    removed =>
        /\ {changes[n] : n \in DOMAIN changes} = ChangePairs(rows)
        /\ Len(changes) = Cardinality(ChangePairs(rows))

(***************************************************************************)
(* The loop's comment: changes are scanned from the end of the table, to   *)
(* restore a chronological order, so each item comes from a later row     *)
(* than the item created after it.  Expected to fail: the loop runs from   *)
(* row 1 forwards.                                                         *)
(***************************************************************************)
ScannedFromEnd ==
    \A n \in 1..(Len(changes) - 1) : changes[n] > changes[n + 1]

-----------------------------------------------------------------------------
\* The items the menu sees: none until populateChanges has returned.
Shown == IF removed THEN changes ELSE << >>

Once == INSTANCE ChangesOnce WITH items <- Shown, Pairs <- ChangePairs

(***************************************************************************)
(* The row-by-row loop implements populateChanges as the hover handler     *)
(* uses it: when the table is removed the "Changes" entry holds one item   *)
(* per title/details pair of the table, and they come in the table's       *)
(* order (so not in the reverse order the loop's comment announces).       *)
(***************************************************************************)
ScanRefinesOnce == Once!Spec

=============================================================================
