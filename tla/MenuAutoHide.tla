---------------------------- MODULE MenuAutoHide ----------------------------
(***************************************************************************)
(* What a DynamicMenu promises about hiding itself (spec, dynamic menu):   *)
(* show() reveals the menu and starts an auto-hide; there is at most one   *)
(* pending auto-hide, which a hover on an item cancels and a new request   *)
(* replaces (last writer wins); when it runs out the menu slides away.    *)
(* A click on a link hides the menu whatever is pending.  Only the menu's  *)
(* visibility and whether an auto-hide is pending are observed.            *)
(***************************************************************************)

VARIABLES
    shown,    \* the menu is on screen
    pending   \* an auto-hide is pending

vars == <<shown, pending>>

TypeOK == shown \in BOOLEAN /\ pending \in BOOLEAN

\* show(): on screen, with its auto-hide started.
Init == shown = TRUE /\ pending = TRUE

\* The pointer enters an item: any pending hide is cancelled, the menu shown.
Cancel == shown' = TRUE /\ pending' = FALSE

\* A new hide request replaces whatever was pending.
Rearm == pending' = TRUE /\ UNCHANGED shown

\* The pending auto-hide runs out.
Expire == pending /\ shown' = FALSE /\ pending' = FALSE

\* A link is clicked: the menu hides, the pending auto-hide is left alone.
Dismiss == shown' = FALSE /\ UNCHANGED pending

Next == Cancel \/ Rearm \/ Expire \/ Dismiss

SafeSpec == Init /\ [][Next]_vars

\* A pending auto-hide is not postponed for ever.
Spec == SafeSpec /\ WF_vars(Expire)

=============================================================================
