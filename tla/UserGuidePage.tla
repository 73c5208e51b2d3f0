---------------------------- MODULE UserGuidePage ----------------------------
(***************************************************************************)
(* The user guide's dialogs and its callouts together: the note/tip        *)
(* dialogs of DynamicDialog are the dialogs the makeInfos timer creates,   *)
(* so an info LI can only be clicked once its callout has become an info.  *)
(* Everything runs on the one event loop: while the timer callback walks   *)
(* the callouts no click and no other timer is handled.                    *)
(***************************************************************************)
EXTENDS DynamicDialog, InfoSteps

ASSUME PageAssumption == InfoDialogs = Callouts

pageVars == <<fullyCreated, handlers, isOpen, lastDialog, pending,
              content, kids, made, dlg, title, label, timer, at>>

PageInit == Init /\ InfoInit

\* No other event is dispatched while the makeInfos callback runs.
Idle == timer # "running"

\* A click on a callout's LI: its click handler exists once the info is made.
ClickMadeInfo(d) == made[d] /\ ClickInfo(d)

PageNext ==
    \/ /\ Idle
       /\ \/ \E d \in ChangeDialogs : ClickChangeItem(d) \/ ShowDlgTimer(d)
          \/ \E d \in InfoDialogs : ClickMadeInfo(d)
          \/ \E d \in Dialogs : ClickLinkInDialog(d) \/ DismissWidget(d)
       /\ UNCHANGED infoVars
    \/ InfoNext /\ UNCHANGED vars

PageSpec == PageInit /\ [][PageNext]_pageVars /\ Fairness /\ InfoFairness

=============================================================================
