----------------------------- MODULE MenuItems -----------------------------
(***************************************************************************)
(* DynamicMenu.createItem (dynamic-menu.js) and the DynamicMenuItem        *)
(* constructor it calls.  A new item is appended under its parent's UL (or *)
(* the menu's main UL), then the "force zIndex through menu hierarchy"     *)
(* loop walks from the new item up through its ancestors:                  *)
(*                                                                         *)
(*    for (p_Item = new; p_Item != null; p_Item = p_Item.parent)           *)
(*        if (a.zIndex <= i_zIndex) i_zIndex++ else break;                 *)
(*        li.parentNode.z = li.z = a.z = i_zIndex; ul.z = i_zIndex - 1     *)
(*                                                                         *)
(* The handler runs to completion on the single UI thread.  The loop is    *)
(* modelled one iteration per step, with the code's loop variables p_Item  *)
(* (cur) and i_zIndex (iz); no other operation is enabled while cur is not *)
(* Null, so every behaviour runs the whole handler before anything else.   *)
(***************************************************************************)
EXTENDS Naturals

CONSTANTS
    Items,  \* the menu items the page may create (model values)
    Null    \* the JavaScript null: no parent, no loop variable

ASSUME NullAssumption == Null \notin Items

VARIABLES
    items,  \* the items created so far
    parent, \* parent[x]: the p_ParentMenuItem x was created under, or Null
    z,      \* z[x]: style.zIndex of x's LI and A elements (0 stands for "")
    zUl,    \* zUl[x]: style.zIndex of x's UL element (its sub-list)
    zMain,  \* style.zIndex of the menu's main UL
    cur,    \* p_Item, the createItem loop variable (Null between handlers)
    iz      \* i_zIndex, the createItem loop counter

vars == <<items, parent, z, zUl, zMain, cur, iz>>

Idle == cur = Null

\* The items whose LI sits directly in x's UL.
Children(x) == {c \in items : parent[c] = x}

TypeOK ==
    /\ items \subseteq Items
    /\ parent \in [Items -> Items \cup {Null}]
    /\ z \in [Items -> Nat]
    /\ zUl \in [Items -> Nat]
    /\ zMain \in Nat
    /\ cur \in Items \cup {Null}
    /\ iz \in Nat

Init ==
    /\ items = {}
    /\ parent = [x \in Items |-> Null]
    /\ z = [x \in Items |-> 0]
    /\ zUl = [x \in Items |-> 0]
    /\ zMain = 0
    /\ cur = Null
    /\ iz = 0

(***************************************************************************)
(* createItem(p_ParentMenuItem, ...): DynamicMenuItem.create builds LI, A  *)
(* and UL with no zIndex and appends the LI to the parent's UL, or to      *)
(* ulMain when the parent is null; then the loop starts at the new item    *)
(* with i_zIndex = 0.                                                      *)
(***************************************************************************)
CreateItem(x, p) ==
    /\ Idle
    /\ x \notin items
    /\ p \in items \cup {Null}
    /\ items' = items \cup {x}
    /\ parent' = [parent EXCEPT ![x] = p]
    /\ z' = [z EXCEPT ![x] = 0]
    /\ zUl' = [zUl EXCEPT ![x] = 0]
    /\ cur' = x
    /\ iz' = 0
    /\ UNCHANGED zMain

\* Seeded fault: the item's own UL takes i_zIndex instead of i_zIndex - 1.
RaiseZIndexUlSameLevel ==
    /\ cur # Null
    /\ z[cur] <= iz
    /\ iz' = iz + 1
    /\ z' = [z EXCEPT ![cur] = iz + 1]
    /\ IF parent[cur] = Null
          THEN /\ zMain' = iz + 1
               /\ zUl' = [zUl EXCEPT ![cur] = iz + 1]
          ELSE /\ zUl' = [zUl EXCEPT ![parent[cur]] = iz + 1, ![cur] = iz + 1]
               /\ UNCHANGED zMain
    /\ cur' = parent[cur]
    /\ UNCHANGED <<items, parent>>

\* Seeded fault: the item's UL takes i_zIndex - 1 before the increment.
RaiseZIndexUlBeforeIncrement ==
    /\ cur # Null
    /\ z[cur] <= iz
    /\ iz' = iz + 1
    /\ z' = [z EXCEPT ![cur] = iz + 1]
    /\ IF parent[cur] = Null
          THEN /\ zMain' = iz + 1
               /\ zUl' = [zUl EXCEPT ![cur] = iz - 1]
          ELSE /\ zUl' = [zUl EXCEPT ![parent[cur]] = iz + 1, ![cur] = iz - 1]
               /\ UNCHANGED zMain
    /\ cur' = parent[cur]
    /\ UNCHANGED <<items, parent>>

(***************************************************************************)
(* One loop iteration when a.zIndex <= i_zIndex: the counter goes up, the  *)
(* item's LI and A and the UL holding the LI take it, the item's own UL    *)
(* takes one less, and the loop moves to the parent.                       *)
(***************************************************************************)
RaiseZIndex ==
    /\ cur # Null
    /\ z[cur] <= iz
    /\ iz' = iz + 1
    /\ z' = [z EXCEPT ![cur] = iz + 1]
    /\ IF parent[cur] = Null
          THEN /\ zMain' = iz + 1
               /\ zUl' = [zUl EXCEPT ![cur] = iz]
          ELSE /\ zUl' = [zUl EXCEPT ![parent[cur]] = iz + 1, ![cur] = iz]
               /\ UNCHANGED zMain
    /\ cur' = parent[cur]
    /\ UNCHANGED <<items, parent>>

\* Seeded fault: the loop also breaks when a.zIndex equals the counter.
StopRaisingOnTie ==
    /\ cur # Null
    /\ z[cur] >= iz
    /\ cur' = Null
    /\ UNCHANGED <<items, parent, z, zUl, zMain, iz>>

\* The loop's break: the ancestor already stands above the counter.
StopRaising ==
    /\ cur # Null
    /\ z[cur] > iz
    /\ cur' = Null
    /\ UNCHANGED <<items, parent, z, zUl, zMain, iz>>

Next ==
    \/ \E x \in Items, p \in Items \cup {Null} : CreateItem(x, p)
    \/ RaiseZIndex
    \/ StopRaising

Spec == Init /\ [][Next]_vars

-----------------------------------------------------------------------------
(***************************************************************************)
(* Properties, stated between handlers (cur = Null).                       *)
(***************************************************************************)

(***************************************************************************)
(* After every createItem the zIndex of each item is exactly the height of *)
(* its subtree: 1 for a leaf, one more than its highest child otherwise.   *)
(* This is what the first-fit break of the loop relies on: it stops at the *)
(* first ancestor already above the counter and never leaves an ancestor   *)
(* at or below one of its children, nor above what its subtree needs.      *)
(***************************************************************************)
ParentAboveChild ==
    \A c \in items : parent[c] # Null => z[parent[c]] > z[c]

HeightIsTight ==
    \A x \in items : z[x] = 1 \/ \E c \in Children(x) : z[x] = z[c] + 1

ZIndexIsHeight ==
    Idle => /\ \A x \in items : z[x] >= 1
            /\ ParentAboveChild
            /\ HeightIsTight

(***************************************************************************)
(* After every createItem, each item's sub-list UL stacks below the item's *)
(* own link, although the UL's zIndex is written by two different loop     *)
(* iterations (as "ul" of the item, and as "li.parentNode" of its child),  *)
(* and the second write survives when the loop breaks at the item.         *)
(***************************************************************************)
UlBelowLink ==
    Idle => \A x \in items : zUl[x] < z[x]

(***************************************************************************)
(* The spec's testable property (section 8): "Menu Item stacking index is  *)
(* non-decreasing from root to the created leaf".  The code assigns the    *)
(* leaf 1 and each ancestor a larger index, so this is expected to fail.   *)
(***************************************************************************)
SpecNonDecreasingToLeaf ==
    Idle => \A c \in items : parent[c] # Null => z[parent[c]] <= z[c]

=============================================================================
