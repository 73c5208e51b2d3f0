----------------------------- MODULE TocBuilder -----------------------------
(***************************************************************************)
(* UserGuideMenu.populateToc (cli-user-guide.js): the walk over the        *)
(* document's ".titlepage" blocks in document order.  ar_TocItems[l - 1]   *)
(* holds the menu item last created for a heading of level l; ar_TocItems  *)
(* starts as [toc], so level-2 headings go under the "Table of content"    *)
(* entry.  A heading of level l >= 2 becomes a menu item under             *)
(* ar_TocItems[l - 2], which is undefined when no heading of level l - 1   *)
(* was seen: createItem then appends the item to the menu's top level.     *)
(* A title block whose markup the XmlNode chain cannot follow throws and   *)
(* is skipped (log.warn).  One step is one iteration of the each().        *)
(***************************************************************************)
EXTENDS Naturals, Sequences

CONSTANTS
    MaxLevel,     \* deepest heading level h1..hMaxLevel in the document
    MaxHeadings,  \* bound on the number of title blocks
    Bad,          \* a title block whose processing throws
    Undef,        \* a JavaScript undefined read from ar_TocItems
    NotCreated    \* parentOf of a heading that gave no menu item

ASSUME TocAssumption ==
    /\ MaxLevel \in Nat \ {0, 1}
    /\ MaxHeadings \in Nat
    /\ Bad \notin Nat /\ Undef \notin Nat /\ NotCreated \notin Nat
    /\ Undef # NotCreated

\* Menu items: 0 is the "Table of content" entry, j the item of heading j.
TocItem == 0

Headings == (1..MaxLevel) \cup {Bad}

\* The documents of at most MaxHeadings title blocks.
Docs == UNION {[1..n -> Headings] : n \in 0..MaxHeadings}

VARIABLES
    doc,       \* the title blocks, in document order
    i,         \* index of the next block the each() visits
    ar,        \* ar_TocItems, indexed 0..MaxLevel - 1
    parentOf   \* parentOf[j]: parent argument of heading j's createItem

vars == <<doc, i, ar, parentOf>>

\* A heading that populateToc turns into a menu item when it reaches it.
Valid(d, j) == d[j] # Bad /\ d[j] >= 2

TypeOK ==
    /\ doc \in Docs
    /\ i \in 1..(MaxHeadings + 1)
    /\ ar \in [0..(MaxLevel - 1) -> (0..MaxHeadings) \cup {Undef}]
    /\ parentOf \in [1..MaxHeadings -> (0..MaxHeadings) \cup {Undef, NotCreated}]

\* new Array(userGuideMenu.toc): only index 0 is defined.
Init ==
    /\ doc \in Docs
    /\ i = 1
    /\ ar = [l \in 0..(MaxLevel - 1) |-> IF l = 0 THEN TocItem ELSE Undef]
    /\ parentOf = [j \in 1..MaxHeadings |-> NotCreated]

\* A title block that throws, or an h1 (i_HeaderLevel >= 2 fails): skipped.
SkipTitle ==
    /\ i <= Len(doc)
    /\ ~Valid(doc, i)
    /\ i' = i + 1
    /\ UNCHANGED <<doc, ar, parentOf>>

\* Seeded fault: the parent is looked up at the heading's own level.
AddTocItemSameLevel ==
    /\ i <= Len(doc)
    /\ Valid(doc, i)
    /\ parentOf' = [parentOf EXCEPT ![i] = ar[doc[i] - 1]]
    /\ ar' = [ar EXCEPT ![doc[i] - 1] = i]
    /\ i' = i + 1
    /\ UNCHANGED doc

(***************************************************************************)
(* ar_TocItems[i_HeaderLevel - 1] =                                        *)
(*     createItem(ar_TocItems[i_HeaderLevel - 2], title, id, "#" + anchor) *)
(***************************************************************************)
AddTocItem ==
    /\ i <= Len(doc)
    /\ Valid(doc, i)
    /\ parentOf' = [parentOf EXCEPT ![i] = ar[doc[i] - 2]]
    /\ ar' = [ar EXCEPT ![doc[i] - 1] = i]
    /\ i' = i + 1
    /\ UNCHANGED doc

Next == SkipTitle \/ AddTocItem

Spec == Init /\ [][Next]_vars

-----------------------------------------------------------------------------
(***************************************************************************)
(* Reference definitions, from the document's outline: the heading that    *)
(* encloses heading j is the nearest earlier valid heading of a smaller    *)
(* level, or the "Table of content" entry when there is none.              *)
(***************************************************************************)
Enclosers(d, j) == {k \in 1..(j - 1) : Valid(d, k) /\ d[k] < d[j]}

Enclosing(d, j) ==
    IF Enclosers(d, j) = {} THEN TocItem
    ELSE CHOOSE k \in Enclosers(d, j) : \A m \in Enclosers(d, j) : m <= k

\* Level of the nearest earlier valid heading; 1 (the TOC entry) if none.
PrevLevel(d, j) ==
    LET P == {k \in 1..(j - 1) : Valid(d, k)}
    IN  IF P = {} THEN 1 ELSE d[CHOOSE k \in P : \A m \in P : m <= k]

\* An outline that never skips a level going down.
WellNested(d) == \A j \in DOMAIN d : Valid(d, j) => d[j] <= PrevLevel(d, j) + 1

(***************************************************************************)
(* On a document whose outline never skips a level, populateToc puts every *)
(* heading's menu item under the item of its enclosing section.  It        *)
(* depends on ar_TocItems[l - 2] being, at each step, the latest heading   *)
(* of level l - 1, and on that heading still enclosing the current one.    *)
(***************************************************************************)
TocFollowsOutline ==
    WellNested(doc) =>
        \A j \in 1..(i - 1) : Valid(doc, j) => parentOf[j] = Enclosing(doc, j)

=============================================================================
