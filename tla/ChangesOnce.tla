----------------------------- MODULE ChangesOnce -----------------------------
(***************************************************************************)
(* populateChanges as the rest of the user guide sees it: the hover        *)
(* handler runs it to completion, so in one step the revision table leaves *)
(* the page and the "Changes" entry gets one item per title/details pair   *)
(* of it, in the table's order.                                            *)
(***************************************************************************)
EXTENDS Naturals, Sequences

CONSTANTS
    Tables,    \* the revision tables the page may hold
    Pairs(_)   \* Pairs(t): the rows of t that start a title/details pair

VARIABLES
    rows,      \* the table
    items,     \* the rows whose pair became an item, in menu order
    removed    \* the table was removed from the body

onceVars == <<rows, items, removed>>

\* s lists the set S once each, in increasing order.
InOrder(s, S) ==
    /\ {s[n] : n \in DOMAIN s} = S
    /\ \A a, b \in DOMAIN s : a < b => s[a] < s[b]

Init ==
    /\ rows \in Tables
    /\ items = << >>
    /\ removed = FALSE

\* The handler's populateChanges(): all the items, then the table removed.
Populate ==
    /\ ~removed
    /\ removed' = TRUE
    /\ items' \in Seq(Nat)
    /\ InOrder(items', Pairs(rows))
    /\ UNCHANGED rows

Spec == Init /\ [][Populate]_onceVars

=============================================================================
