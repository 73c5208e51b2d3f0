--------------------------- MODULE MenuHover_proofs ---------------------------
(***************************************************************************)
(* Proofs about a built DynamicMenu's hover handling and hide timers, for  *)
(* every menu tree and every set of timer handles.  Neither proof looks    *)
(* inside Hovered: they use only that a move's left and entered sets are   *)
(* the differences of the hovered sets before and after.                   *)
(***************************************************************************)
EXTENDS MenuHover, TLAPS

USE HoverAssumption

\* Type correctness and the two invariants, which together are inductive.
IInv == TypeOK /\ SingleHideTimer /\ SubmenuOnlyWhenHovered

LEMMA IInvInit == Init => IInv
<1> SUFFICES ASSUME Init PROVE IInv
  OBVIOUS
<1>1. PICK h \in Handles :
          /\ timers = [g \in Handles |-> IF g = h THEN "show" ELSE NoTimer]
          /\ hHideMenu = h
  BY DEF Init
<1>2. TypeOK
  BY <1>1 DEF Init, TypeOK, TimerKinds
<1>3. SingleHideTimer
  BY <1>1 DEF SingleHideTimer
<1>4. SubmenuOnlyWhenHovered
  BY DEF Init, SubmenuOnlyWhenHovered
<1>5. QED
  BY <1>2, <1>3, <1>4 DEF IInv

\* After ClearHide, with one timer at most, no timer is pending.
LEMMA ClearHideEmpties ==
  ASSUME TypeOK, SingleHideTimer
  PROVE  /\ ClearHide(timers) \in [Handles -> TimerKinds \cup {NoTimer}]
         /\ \A g \in Handles : ClearHide(timers)[g] = NoTimer
BY DEF TypeOK, SingleHideTimer, ClearHide

LEMMA IInvMove ==
  ASSUME IInv, NEW y \in Items \cup {Outside}, MovePointer(y)
  PROVE  IInv'
<1> DEFINE left    == Hovered(ptr) \ Hovered(y)
           entered == Hovered(y) \ Hovered(ptr)
<1>1. ptr' = y /\ subShown' = SubAfterMove(left, entered)
  BY DEF MovePointer
<1>2. \A g \in Handles : ClearHide(timers)[g] = NoTimer
  BY ClearHideEmpties DEF IInv
<1>3. ClearHide(timers) \in [Handles -> TimerKinds \cup {NoTimer}]
  BY ClearHideEmpties DEF IInv
<1>4. (TypeOK /\ SingleHideTimer)'
  <2>1. CASE entered # {} /\ timers' = ClearHide(timers) /\ hHideMenu' = Null
                          /\ menuShown' = TRUE
    BY <1>1, <1>2, <1>3, <2>1 DEF IInv, TypeOK, SingleHideTimer, SubAfterMove
  <2>2. CASE entered = {} /\ (\E h \in Handles : Fresh(h) /\ ArmHide(h))
               /\ UNCHANGED menuShown
    <3>1. PICK h \in Handles : ArmHide(h)
      BY <2>2
    <3>2. timers' = [ClearHide(timers) EXCEPT ![h] = "out"] /\ hHideMenu' = h
      BY <3>1 DEF ArmHide
    <3>3. QED
      BY <1>1, <1>2, <1>3, <3>2, <2>2 DEF IInv, TypeOK, SingleHideTimer,
         SubAfterMove, TimerKinds
  <2>3. QED
    BY <2>1, <2>2 DEF MovePointer
<1>5. SubmenuOnlyWhenHovered'
  BY <1>1 DEF IInv, TypeOK, SubmenuOnlyWhenHovered, SubAfterMove
<1>6. QED
  BY <1>4, <1>5 DEF IInv

LEMMA IInvFires ==
  ASSUME IInv, NEW h \in Handles, HideTimerFires(h)
  PROVE  IInv'
<1>1. h = hHideMenu
  BY DEF HideTimerFires, IInv, SingleHideTimer
<1>2. \A g \in Handles : timers'[g] = NoTimer
  BY <1>1 DEF HideTimerFires, IInv, TypeOK, SingleHideTimer
<1>3. QED
  BY <1>1, <1>2 DEF HideTimerFires, IInv, TypeOK, SingleHideTimer,
     SubmenuOnlyWhenHovered

LEMMA IInvNext == IInv /\ [Next]_vars => IInv'
<1> SUFFICES ASSUME IInv, [Next]_vars PROVE IInv'
  OBVIOUS
<1>1. CASE \E y \in Items \cup {Outside} : MovePointer(y)
  BY <1>1, IInvMove
<1>2. CASE \E h \in Handles : HideTimerFires(h)
  BY <1>2, IInvFires
<1>3. CASE ClickLink
  BY <1>3 DEF ClickLink, IInv, TypeOK, SingleHideTimer, SubmenuOnlyWhenHovered
<1>4. CASE UNCHANGED vars
  BY <1>4 DEF vars, IInv, TypeOK, SingleHideTimer, SubmenuOnlyWhenHovered
<1>5. QED
  BY <1>1, <1>2, <1>3, <1>4 DEF Next

(***************************************************************************)
(* For every menu and every set of handles: the only pending hide timer is *)
(* the one hHideMenu names, so the clearTimeout of each mouseenter cancels *)
(* every pending auto-hide.                                                *)
(***************************************************************************)
THEOREM SingleTimer == Spec => []SingleHideTimer
<1>1. Init => IInv
  BY IInvInit
<1>2. IInv /\ [Next]_vars => IInv'
  BY IInvNext
<1>3. IInv => SingleHideTimer
  BY DEF IInv
<1>4. QED
  BY <1>1, <1>2, <1>3, PTL DEF Spec

(***************************************************************************)
(* For every menu tree: a sub-list is displayed only while the pointer is  *)
(* inside its LI, whatever sequence of moves, timers and clicks occurred.  *)
(***************************************************************************)
THEOREM SubmenuHovered == Spec => []SubmenuOnlyWhenHovered
<1>1. Init => IInv
  BY IInvInit
<1>2. IInv /\ [Next]_vars => IInv'
  BY IInvNext
<1>3. IInv => SubmenuOnlyWhenHovered
  BY DEF IInv
<1>4. QED
  BY <1>1, <1>2, <1>3, PTL DEF Spec

-----------------------------------------------------------------------------
(***************************************************************************)
(* Refinement.  Under the mapping shown <- menuShown, pending <-           *)
(* HidePending, show() is MenuAutoHide's initial state, and each step of   *)
(* the menu is one of its steps or a stutter.  The invariant is needed:    *)
(* clearTimeout(hHideMenu) cancels every pending hide, and a timer that   *)
(* fires leaves none pending, only because no other timer is pending.     *)
(***************************************************************************)
LEMMA InitMaps == Init => AutoHide!Init
BY DEF Init, AutoHide!Init, HidePending

LEMMA MoveMaps ==
  ASSUME IInv, NEW y \in Items \cup {Outside}, MovePointer(y)
  PROVE  AutoHide!Cancel \/ AutoHide!Rearm
<1> DEFINE entered == Hovered(y) \ Hovered(ptr)
<1>1. \A g \in Handles : ClearHide(timers)[g] = NoTimer
  BY ClearHideEmpties DEF IInv
<1>2. CASE entered # {} /\ timers' = ClearHide(timers) /\ menuShown' = TRUE
  <2>1. ~HidePending'
    BY <1>1, <1>2 DEF HidePending
  <2>2. QED
    BY <1>2, <2>1 DEF AutoHide!Cancel
<1>3. CASE entered = {} /\ (\E h \in Handles : Fresh(h) /\ ArmHide(h))
             /\ UNCHANGED menuShown
  <2>1. PICK h \in Handles : ArmHide(h)
    BY <1>3
  <2>2. timers'[h] = "out"
    BY <2>1, ClearHideEmpties DEF ArmHide, IInv
  <2>3. HidePending'
    BY <2>2, HoverAssumption DEF HidePending
  <2>4. QED
    BY <1>3, <2>3 DEF AutoHide!Rearm
<1>4. QED
  BY <1>2, <1>3 DEF MovePointer

LEMMA FiresMaps ==
  ASSUME IInv, NEW h \in Handles, HideTimerFires(h)
  PROVE  AutoHide!Expire
<1>1. HidePending
  BY DEF HideTimerFires, HidePending
<1>2. h = hHideMenu
  BY DEF HideTimerFires, IInv, SingleHideTimer
<1>3. ~HidePending'
  BY <1>2 DEF HideTimerFires, IInv, TypeOK, SingleHideTimer, HidePending
<1>4. QED
  BY <1>1, <1>3 DEF HideTimerFires, AutoHide!Expire

LEMMA StepMaps == IInv /\ [Next]_vars => [AutoHide!Next]_AutoHide!vars
<1> SUFFICES ASSUME IInv, [Next]_vars PROVE [AutoHide!Next]_AutoHide!vars
  OBVIOUS
<1>1. CASE \E y \in Items \cup {Outside} : MovePointer(y)
  BY <1>1, MoveMaps DEF AutoHide!Next
<1>2. CASE \E h \in Handles : HideTimerFires(h)
  BY <1>2, FiresMaps DEF AutoHide!Next
<1>3. CASE ClickLink
  BY <1>3 DEF ClickLink, HidePending, AutoHide!Next, AutoHide!Dismiss
<1>4. CASE UNCHANGED vars
  BY <1>4 DEF vars, HidePending, AutoHide!vars
<1>5. QED
  BY <1>1, <1>2, <1>3, <1>4 DEF Next

(***************************************************************************)
(* For every menu and set of handles, the menu's show/hover/hide timers    *)
(* implement MenuAutoHide's single cancellable auto-hide (its safety       *)
(* part; that a pending hide runs out is checked by TLC).                  *)
(***************************************************************************)
THEOREM Refines == Spec => AutoHide!SafeSpec
<1>1. Init => IInv /\ AutoHide!Init
  BY IInvInit, InitMaps
<1>2. IInv /\ [Next]_vars => IInv'
  BY IInvNext
<1>3. IInv /\ [Next]_vars => [AutoHide!Next]_AutoHide!vars
  BY StepMaps
<1>4. QED
  BY <1>1, <1>2, <1>3, PTL DEF Spec, AutoHide!SafeSpec

=============================================================================
