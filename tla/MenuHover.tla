----------------------------- MODULE MenuHover -----------------------------
(***************************************************************************)
(* The mouse-driven show/hide of a built DynamicMenu (dynamic-menu.js):    *)
(* show() and its 1 s auto-hide timer, the LI hover in/out handlers bound  *)
(* by animate(), the click handler animate() binds on every link, hide(),  *)
(* and the timers' callbacks.  The menu tree is fixed (MenuParent); the    *)
(* pointer moves between items and the outside, and each move runs the     *)
(* jQuery mouseleave handlers of the LIs it leaves (innermost first) and   *)
(* then the mouseenter handlers of the LIs it enters, in one event         *)
(* dispatch.  Timers fire later, between events.  The geometry of          *)
(* onItemMouseOver (sliding a long sub-list into the window) and the       *)
(* smooth scroll to an anchor are layout and are left out.                 *)
(***************************************************************************)
EXTENDS Naturals, FiniteSets

CONSTANTS
    Items,      \* the menu items (LI elements)
    MenuParent, \* MenuParent[x]: the item whose UL holds x's LI, or Null
    Null,       \* JavaScript null
    Outside,    \* the pointer is over no menu LI
    Handles,    \* timer handles window.setTimeout may return
    NoTimer     \* a handle with no pending callback

ASSUME HoverAssumption ==
    /\ MenuParent \in [Items -> Items \cup {Null}]
    /\ Null \notin Items /\ Outside \notin Items
    /\ Null \notin Handles /\ NoTimer \notin {"show", "out"}

\* AncOrSelf[x]: x and the items in whose sub-lists x lies, at any depth.
AncOrSelf[x \in Items] ==
    {x} \cup (IF MenuParent[x] = Null THEN {} ELSE AncOrSelf[MenuParent[x]])

\* The LIs the pointer is inside of when it is over item x (jQuery hover).
Hovered(x) == IF x = Outside THEN {} ELSE AncOrSelf[x]

\* The pointer can only reach an item whose enclosing sub-lists are shown.
Reachable(x, shown) ==
    \A y \in Hovered(x) \ {x} : shown[y]

VARIABLES
    ptr,       \* the item the pointer is over, or Outside
    menuShown, \* ulMain is at top 0 (TRUE) or slid up by hideOffset (FALSE)
    subShown,  \* subShown[x]: x's sub-list UL is displayed
    timers,    \* timers[h]: callback pending on handle h ("show", "out")
    hHideMenu  \* menu.hHideMenu: the handle last stored, or Null

vars == <<ptr, menuShown, subShown, timers, hHideMenu>>

TimerKinds == {"show", "out"}

TypeOK ==
    /\ ptr \in Items \cup {Outside}
    /\ menuShown \in BOOLEAN
    /\ subShown \in [Items -> BOOLEAN]
    /\ timers \in [Handles -> TimerKinds \cup {NoTimer}]
    /\ hHideMenu \in Handles \cup {Null}

\* A handle window.setTimeout may hand out: no callback pending on it.
Fresh(h) == timers[h] = NoTimer /\ h # hHideMenu

\* window.clearTimeout(menu.hHideMenu) when the handle is not null.
ClearHide(t) == IF hHideMenu = Null THEN t ELSE [t EXCEPT ![hHideMenu] = NoTimer]

(***************************************************************************)
(* The state onLoad leaves: the menu built, styled and animated, then      *)
(* show(): display block and a fresh 1 s timer stored in hHideMenu.  The   *)
(* pointer may already rest on a top-level item, or anywhere else.         *)
(***************************************************************************)
Init ==
    /\ ptr \in {Outside} \cup {x \in Items : MenuParent[x] = Null}
    /\ menuShown = TRUE
    /\ subShown = [x \in Items |-> FALSE]
    /\ \E h \in Handles :
          /\ timers = [g \in Handles |-> IF g = h THEN "show" ELSE NoTimer]
          /\ hHideMenu = h

\* Seeded fault: the 'out' effect does not hide the sub-list it leaves.
SubAfterMoveKeep(left, entered) ==
    [x \in Items |-> IF x \in entered THEN TRUE ELSE subShown[x]]

(***************************************************************************)
(* The sub-lists after a pointer move: each 'out' effect sets visibility   *)
(* hidden on the sub-list of the LI it leaves, each 'in' effect shows the  *)
(* sub-list of the LI it enters.                                           *)
(***************************************************************************)
SubAfterMove(left, entered) ==
    [x \in Items |-> IF x \in left THEN FALSE
                    ELSE IF x \in entered THEN TRUE
                    ELSE subShown[x]]

\* Seeded fault: the 'out' effect arms its timer without clearing the old one.
ArmHideNoClear(h) ==
    /\ timers' = [timers EXCEPT ![h] = "out"]
    /\ hHideMenu' = h

\* Seeded fault: the 'out' effect clears the pending timer and arms none.
ArmHideNoTimer(h) ==
    /\ timers' = ClearHide(timers)
    /\ hHideMenu' = Null

(***************************************************************************)
(* The 'out' effect's timer handling: clear the pending hide timer, then   *)
(* hHideMenu := setTimeout(hide; hHideMenu = null, 1000) on handle h.      *)
(***************************************************************************)
ArmHide(h) ==
    /\ timers' = [ClearHide(timers) EXCEPT ![h] = "out"]
    /\ hHideMenu' = h

(***************************************************************************)
(* The pointer moves from ptr to y.  The mouseleave handlers of the LIs it *)
(* leaves run first, then the mouseenter handlers of the LIs it enters:    *)
(* the enters' clearTimeout cancels what the leaves armed, so the timer    *)
(* ends armed only when no LI is entered.  Each 'in' effect also puts the  *)
(* menu back at top 0.  A move always leaves or enters some LI.            *)
(***************************************************************************)
MovePointer(y) ==
    LET left    == Hovered(ptr) \ Hovered(y)
        entered == Hovered(y) \ Hovered(ptr)
    IN
    /\ y # ptr
    /\ Reachable(y, subShown)
    /\ ptr' = y
    /\ subShown' = SubAfterMove(left, entered)
    /\ \/ /\ entered # {}
          /\ timers' = ClearHide(timers)
          /\ hHideMenu' = Null
          /\ menuShown' = TRUE
       \/ /\ entered = {}
          /\ \E h \in Handles : Fresh(h) /\ ArmHide(h)
          /\ UNCHANGED menuShown

(***************************************************************************)
(* A pending timer fires and calls menu.hide(): the menu slides up.  The   *)
(* 'out' timer's callback also sets hHideMenu to null; show()'s does not.  *)
(***************************************************************************)
HideTimerFires(h) ==
    /\ timers[h] # NoTimer
    /\ timers' = [timers EXCEPT ![h] = NoTimer]
    /\ menuShown' = FALSE
    /\ hHideMenu' = IF timers[h] = "out" THEN Null ELSE hHideMenu
    /\ UNCHANGED <<ptr, subShown>>

(***************************************************************************)
(* A click on any link of the page (a menu item's or not): every sub-list  *)
(* of the menu gets visibility hidden and menu.hide("onClick") slides the  *)
(* menu up.  The pending hide timer is left alone.                         *)
(***************************************************************************)
ClickLink ==
    /\ subShown' = [x \in Items |-> FALSE]
    /\ menuShown' = FALSE
    /\ UNCHANGED <<ptr, timers, hHideMenu>>

Next ==
    \/ \E y \in Items \cup {Outside} : MovePointer(y)
    \/ \E h \in Handles : HideTimerFires(h)
    \/ ClickLink

\* Browser timers fire; the user is under no obligation to move or click.
Fairness == \A h \in Handles : WF_vars(HideTimerFires(h))

Spec == Init /\ [][Next]_vars /\ Fairness

-----------------------------------------------------------------------------

(***************************************************************************)
(* A sub-list is displayed only while the pointer is inside its LI: every  *)
(* mouseleave hides what its mouseenter showed, nested LIs included.       *)
(***************************************************************************)
SubmenuOnlyWhenHovered ==
    \A x \in Items : subShown[x] => x \in Hovered(ptr)

(***************************************************************************)
(* The only pending hide timer is the one hHideMenu names, so clearing it  *)
(* in a mouseenter really cancels the auto-hide: no timer is orphaned by   *)
(* the last-writer-wins updates of hHideMenu.                              *)
(***************************************************************************)
SingleHideTimer ==
    \A h \in Handles : timers[h] # NoTimer => h = hHideMenu

(***************************************************************************)
(* Once the pointer is away from the menu, the menu eventually slides up   *)
(* (unless the pointer comes back first).                                  *)
(***************************************************************************)
AwayMenuHides ==
    (ptr = Outside /\ menuShown) ~> (~menuShown \/ ptr # Outside)

(***************************************************************************)
(* The spec (section 4.3): hovering an item cancels any pending hide.  So  *)
(* no auto-hide timer should fire while the pointer is on a menu item.     *)
(* Expected to fail even when the page loads with the pointer away from   *)
(* the menu: leaving a sub-item for its parent's link runs the sub-item's *)
(* 'out' effect, which arms the hide timer while the parent LI is still   *)
(* hovered and gets no new mouseenter to cancel it.                        *)
(***************************************************************************)
NoAutoHideUnderPointer ==
    [][\A h \in Handles : HideTimerFires(h) => ptr = Outside]_vars

-----------------------------------------------------------------------------
\* Some callback of a hide timer is pending.
HidePending == \E h \in Handles : timers[h] # NoTimer

AutoHide == INSTANCE MenuAutoHide WITH shown <- menuShown, pending <- HidePending

(***************************************************************************)
(* The menu's timers implement the one cancellable auto-hide the spec      *)
(* describes: whatever show(), the hover handlers, hide() and the clicks   *)
(* do to hHideMenu and the browser's timers, the menu's visibility and     *)
(* "an auto-hide is pending" change only as MenuAutoHide allows, and a    *)
(* pending auto-hide runs out unless cancelled.                            *)
(***************************************************************************)
AutoHideSpec == AutoHide!Spec

=============================================================================
