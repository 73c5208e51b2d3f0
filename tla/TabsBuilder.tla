----------------------------- MODULE TabsBuilder -----------------------------
(***************************************************************************)
(* onLoad's level-2 tabs (cli-toolkit.js): a UL is put first in the        *)
(* ".version-details" div, then each H5 of the div, in document order, is  *)
(* turned into a tab: its nextSibling chain is followed to the first DIV   *)
(* (the panel), the panel gets id "tab-" + i_TabCount, the H5's link gets  *)
(* href "#tab-" + i_TabCount, and the link moves into an LI of the UL      *)
(* while the H5 is removed.  A heading whose processing throws is logged   *)
(* and skipped, with whatever it did before the throw left in place.       *)
(* The div's children are positions 1..Len(page); the UL is not among      *)
(* them since the walk only goes forwards from an H5.  An id "tab-n" is    *)
(* the number n.                                                           *)
(***************************************************************************)
EXTENDS Naturals, Sequences

CONSTANTS
    MaxChildren,  \* bound on the children of the div
    None          \* no id or href attribute

ASSUME TabsAssumption == MaxChildren \in Nat /\ None \notin Nat

\* An H5 with an A child, an H5 without one, a DIV, anything else.
Kinds == {"h5", "h5NoLink", "div", "text"}

Pages == UNION {[1..n -> Kinds] : n \in 0..MaxChildren}

Positions == 1..MaxChildren

VARIABLES
    page,     \* the kind of each child of the div, in document order
    todo,     \* the H5s the each() has still to visit
    inDiv,    \* the H5s still in the div
    count,    \* i_TabCount
    tabId,    \* tabId[q]: the id set on child q, or None
    href,     \* href[h]: the href set on H5 h's link, or None
    ul        \* the links moved into the UL, as the positions of their H5s

vars == <<page, todo, inDiv, count, tabId, href, ul>>

IsH5(p, q) == p[q] \in {"h5", "h5NoLink"}

TypeOK ==
    /\ page \in Pages
    /\ todo \subseteq Positions /\ inDiv \subseteq Positions
    /\ count \in Nat
    /\ tabId \in [Positions -> Nat \cup {None}]
    /\ href \in [Positions -> Nat \cup {None}]
    /\ ul \in Seq(Positions)

(***************************************************************************)
(* The UL is created and inserted first in the div; i_TabCount = 0; the    *)
(* each() has collected every H5 of the div.                               *)
(***************************************************************************)
Init ==
    /\ page \in Pages
    /\ todo = {q \in DOMAIN page : IsH5(page, q)}
    /\ inDiv = todo
    /\ count = 0
    /\ tabId = [q \in Positions |-> None]
    /\ href = [q \in Positions |-> None]
    /\ ul = << >>

\* The H5 the each() visits next.
Current == CHOOSE h \in todo : \A g \in todo : h <= g

(***************************************************************************)
(* The for loop: p_tab = nextSibling until name() is "div".  The DIVs      *)
(* after h, of which the loop stops at the first; none means that          *)
(* nextSibling became null and name() threw.  Only earlier H5s have been   *)
(* removed, so the siblings after h are those of the page.                 *)
(***************************************************************************)
DivsAfter(p, h) == {q \in (h + 1)..Len(p) : p[q] = "div"}

Panel(p, h) == CHOOSE q \in DivsAfter(p, h) : \A r \in DivsAfter(p, h) : q <= r

\* No DIV follows the heading: the throw comes before any change.
TabNoDiv ==
    /\ todo # {}
    /\ DivsAfter(page, Current) = {}
    /\ todo' = todo \ {Current}
    /\ UNCHANGED <<page, inDiv, count, tabId, href, ul>>

\* Seeded fault: i_TabCount++ placed after the link's setAttribute.
TabNoLinkSameId ==
    /\ todo # {}
    /\ DivsAfter(page, Current) # {}
    /\ page[Current] = "h5NoLink"
    /\ tabId' = [tabId EXCEPT ![Panel(page, Current)] = count]
    /\ todo' = todo \ {Current}
    /\ UNCHANGED <<page, inDiv, count, href, ul>>

(***************************************************************************)
(* The H5 has no A child: p_h5.child("a") returned null.  The count is     *)
(* taken and the panel's id set; then p_a.setAttribute throws.             *)
(***************************************************************************)
TabNoLink ==
    /\ todo # {}
    /\ DivsAfter(page, Current) # {}
    /\ page[Current] = "h5NoLink"
    /\ tabId' = [tabId EXCEPT ![Panel(page, Current)] = count]
    /\ count' = count + 1
    /\ todo' = todo \ {Current}
    /\ UNCHANGED <<page, inDiv, href, ul>>

\* Seeded fault: the count is not advanced.
MakeTabSameId ==
    /\ todo # {}
    /\ DivsAfter(page, Current) # {}
    /\ page[Current] = "h5"
    /\ tabId' = [tabId EXCEPT ![Panel(page, Current)] = count]
    /\ href' = [href EXCEPT ![Current] = count]
    /\ ul' = Append(ul, Current)
    /\ inDiv' = inDiv \ {Current}
    /\ todo' = todo \ {Current}
    /\ UNCHANGED <<page, count>>

\* The whole iteration: id on the panel, href on the link, link into the UL.
MakeTab ==
    /\ todo # {}
    /\ DivsAfter(page, Current) # {}
    /\ page[Current] = "h5"
    /\ tabId' = [tabId EXCEPT ![Panel(page, Current)] = count]
    /\ count' = count + 1
    /\ href' = [href EXCEPT ![Current] = count]
    /\ ul' = Append(ul, Current)
    /\ inDiv' = inDiv \ {Current}
    /\ todo' = todo \ {Current}
    /\ UNCHANGED page

Next == TabNoDiv \/ TabNoLink \/ MakeTab

Spec == Init /\ [][Next]_vars

-----------------------------------------------------------------------------
(***************************************************************************)
(* The markup the page is written with: every H5 has its link and is       *)
(* followed by its own panel, before the next H5.                          *)
(***************************************************************************)
WellFormed(p) ==
    \A h \in DOMAIN p :
        IsH5(p, h) =>
            /\ p[h] = "h5"
            /\ DivsAfter(p, h) # {}
            /\ \A g \in (h + 1)..Panel(p, h) : ~IsH5(p, g)

(***************************************************************************)
(* On such markup each link in the tab bar opens its own heading's panel,  *)
(* no two panels share an id, and once the each() is over the bar holds    *)
(* every heading's link and no heading is left in the div.                 *)
(***************************************************************************)
TabsMatchPanels ==
    WellFormed(page) =>
        /\ \A n \in 1..Len(ul) : tabId[Panel(page, ul[n])] = href[ul[n]]
        /\ \A q, r \in Positions :
              q # r /\ tabId[q] # None => tabId[q] # tabId[r]
        /\ todo = {} =>
              /\ {ul[n] : n \in 1..Len(ul)} = {q \in DOMAIN page : IsH5(page, q)}
              /\ inDiv = {}


(***************************************************************************)
(* Markup where every H5 is followed by its own panel, but some H5 may     *)
(* lack its link.                                                          *)
(***************************************************************************)
OwnPanels(p) ==
    \A h \in DOMAIN p :
        IsH5(p, h) =>
            /\ DivsAfter(p, h) # {}
            /\ \A g \in (h + 1)..Panel(p, h) : ~IsH5(p, g)

(***************************************************************************)
(* A heading without a link throws half-way (TabNoLink): its panel keeps   *)
(* the id it was given and the heading stays in the div.  That partial     *)
(* iteration must not spoil the tabs around it: the ids given out are      *)
(* exactly 0 .. i_TabCount - 1, no two panels share one, each link in the  *)
(* bar still opens its own heading's panel, and a visited heading is left  *)
(* in the div exactly when it has no link, its panel holding an id.        *)
(***************************************************************************)
TabsSurviveMissingLink ==
    OwnPanels(page) =>
        /\ {tabId[q] : q \in {r \in Positions : tabId[r] # None}} = 0..(count - 1)
        /\ \A q, r \in Positions :
              q # r /\ tabId[q] # None => tabId[q] # tabId[r]
        /\ \A n \in 1..Len(ul) : tabId[Panel(page, ul[n])] = href[ul[n]]
        /\ \A h \in DOMAIN page :
              IsH5(page, h) /\ h \notin todo =>
                  /\ h \in inDiv <=> page[h] = "h5NoLink"
                  /\ tabId[Panel(page, h)] # None

=============================================================================
