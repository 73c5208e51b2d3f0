--------------------------- MODULE DynamicDialog ---------------------------
(***************************************************************************)
(* DynamicDialog (dynamic-dialog.js) and the two ways the user guide       *)
(* opens one (cli-user-guide.js): a revision-history menu item, whose      *)
(* onclick defers dialog.open() by a 10 ms timer (showDlg), and a note/tip *)
(* info LI, whose click opens its dialog at once.  window.lastDialog is    *)
(* the one process-wide reference; every link's click handler installed by *)
(* createResource closes the dialog it names.  Dialogs are modal: while    *)
(* one is displayed its overlay takes every click outside it.              *)
(***************************************************************************)
EXTENDS Naturals, FiniteSets

CONSTANTS
    ChangeDialogs,  \* dialogs of revision-history menu items
    InfoDialogs,    \* dialogs of note/tip callouts
    Null,           \* window.lastDialog when no dialog is tracked
    MaxPending      \* bound on the 10 ms timers pending for one dialog

Dialogs == ChangeDialogs \cup InfoDialogs

ASSUME DialogAssumption ==
    /\ IsFiniteSet(Dialogs)
    /\ ChangeDialogs \cap InfoDialogs = {}
    /\ Null \notin Dialogs
    /\ MaxPending \in Nat \ {0}

VARIABLES
    fullyCreated, \* bFullyCreated of each dialog
    handlers,     \* link click handlers bound by createResource so far
    isOpen,       \* the jQuery UI dialog widget of each dialog is open
    lastDialog,   \* window.lastDialog
    pending       \* pending[d]: showDlg timers of d not yet fired

vars == <<fullyCreated, handlers, isOpen, lastDialog, pending>>

TypeOK ==
    /\ fullyCreated \in [Dialogs -> BOOLEAN]
    /\ handlers \in Nat
    /\ isOpen \in [Dialogs -> BOOLEAN]
    /\ lastDialog \in Dialogs \cup {Null}
    /\ pending \in [ChangeDialogs -> 0..MaxPending]

\* A modal dialog is displayed: its overlay covers the page.
ModalUp == \E d \in Dialogs : isOpen[d]

Init ==
    /\ fullyCreated = [d \in Dialogs |-> FALSE]
    /\ handlers = 0
    /\ isOpen = [d \in Dialogs |-> FALSE]
    /\ lastDialog = Null
    /\ pending = [d \in ChangeDialogs |-> 0]

(***************************************************************************)
(* DynamicDialog.open(): createResource once (it binds one more click      *)
(* handler on the page's links), then lastDialog := this and open the      *)
(* widget.  Written as the values it leaves, for use inside handlers.      *)
(***************************************************************************)
OpenDialog(d) ==
    /\ fullyCreated' = [fullyCreated EXCEPT ![d] = TRUE]
    /\ handlers' = IF fullyCreated[d] THEN handlers ELSE handlers + 1
    /\ lastDialog' = d
    /\ isOpen' = [isOpen EXCEPT ![d] = TRUE]

(***************************************************************************)
(* The click handler createResource binds on links: if lastDialog is not   *)
(* null, lastDialog.close(), which nulls lastDialog and closes its widget. *)
(* Several bound copies act as one: the first nulls lastDialog.            *)
(***************************************************************************)
CloseLast(open) ==
    IF handlers > 0 /\ lastDialog # Null
        THEN [open EXCEPT ![lastDialog] = FALSE]
        ELSE open

CloseLastRef ==
    IF handlers > 0 THEN Null ELSE lastDialog

(***************************************************************************)
(* Click on a revision-history menu item (a link on the page, so only when *)
(* no modal overlay is up): the link handlers close the tracked dialog,    *)
(* then onclick="this.showDlg()" schedules dlg.open() in 10 ms.            *)
(***************************************************************************)
ClickChangeItem(d) ==
    /\ ~ModalUp
    /\ pending[d] < MaxPending
    /\ isOpen' = CloseLast(isOpen)
    /\ lastDialog' = CloseLastRef
    /\ pending' = [pending EXCEPT ![d] = pending[d] + 1]
    /\ UNCHANGED <<fullyCreated, handlers>>

\* The showDlg timer fires: xml_a.dlg.open().
ShowDlgTimer(d) ==
    /\ pending[d] > 0
    /\ OpenDialog(d)
    /\ pending' = [pending EXCEPT ![d] = pending[d] - 1]

\* Click on a note/tip info LI (not a link): info.dlg.open() at once.
ClickInfo(d) ==
    /\ ~ModalUp
    /\ OpenDialog(d)
    /\ UNCHANGED pending

(***************************************************************************)
(* Click on a link inside a displayed dialog (copied revision details or a *)
(* note's content): the handlers bound by createResource close lastDialog. *)
(***************************************************************************)
ClickLinkInDialog(d) ==
    /\ isOpen[d]
    /\ isOpen' = CloseLast(isOpen)
    /\ lastDialog' = CloseLastRef
    /\ UNCHANGED <<fullyCreated, handlers, pending>>

(***************************************************************************)
(* The widget's own close button or Escape: jQuery UI closes the dialog    *)
(* without calling DynamicDialog.close(), so lastDialog keeps naming it.   *)
(***************************************************************************)
DismissWidget(d) ==
    /\ isOpen[d]
    /\ isOpen' = [isOpen EXCEPT ![d] = FALSE]
    /\ UNCHANGED <<fullyCreated, handlers, lastDialog, pending>>

Next ==
    \/ \E d \in ChangeDialogs : ClickChangeItem(d) \/ ShowDlgTimer(d)
    \/ \E d \in InfoDialogs : ClickInfo(d)
    \/ \E d \in Dialogs : ClickLinkInDialog(d) \/ DismissWidget(d)

\* Browser timers fire: a scheduled showDlg is not postponed forever.
Fairness == \A d \in ChangeDialogs : WF_vars(ShowDlgTimer(d))

Spec == Init /\ [][Next]_vars /\ Fairness

-----------------------------------------------------------------------------

(***************************************************************************)
(* The comment on createResource's handler says that whenever a dialog is  *)
(* displayed, a click on a link discards it; it can only do so for the     *)
(* dialog window.lastDialog names.  So every displayed dialog should be    *)
(* the tracked one.  Expected to fail: two showDlg timers scheduled before *)
(* either fires (the overlay is not up yet) open two dialogs, and only the *)
(* second stays tracked.                                                   *)
(***************************************************************************)
DisplayedIsTracked ==
    \A d \in Dialogs : isOpen[d] => lastDialog = d

(***************************************************************************)
(* createResource runs once per dialog, on its first open: the page holds  *)
(* exactly one link click handler per dialog ever opened, and a dialog is  *)
(* only displayed once its widget exists.                                  *)
(***************************************************************************)
ResourceCreatedOnce ==
    /\ handlers = Cardinality({d \in Dialogs : fullyCreated[d]})
    /\ \A d \in Dialogs : isOpen[d] => fullyCreated[d]

=============================================================================
