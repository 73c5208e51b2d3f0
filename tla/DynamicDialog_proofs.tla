------------------------ MODULE DynamicDialog_proofs ------------------------
(***************************************************************************)
(* Proofs about DynamicDialog: type correctness, and that createResource   *)
(* runs exactly once per dialog ever opened, for any finite set of dialogs *)
(* and any bound on pending timers.                                        *)
(***************************************************************************)
EXTENDS DynamicDialog, FiniteSetTheorems, TLAPS

USE DialogAssumption

\* The dialogs whose resource has been created.
Created == {d \in Dialogs : fullyCreated[d]}

\* The safety part of Spec: what the page composition also satisfies.
DialogSafe == Init /\ [][Next]_vars

LEMMA SafeTypeOK == DialogSafe => []TypeOK
<1>1. Init => TypeOK
  BY DEF Init, TypeOK
<1>2. TypeOK /\ [Next]_vars => TypeOK'
  <2> SUFFICES ASSUME TypeOK, [Next]_vars PROVE TypeOK'
    OBVIOUS
  <2> USE DEF TypeOK, Dialogs
  <2>1. ASSUME NEW d \in ChangeDialogs, ClickChangeItem(d) PROVE TypeOK'
    BY <2>1 DEF ClickChangeItem, CloseLast, CloseLastRef
  <2>2. ASSUME NEW d \in ChangeDialogs, ShowDlgTimer(d) PROVE TypeOK'
    BY <2>2 DEF ShowDlgTimer, OpenDialog
  <2>3. ASSUME NEW d \in InfoDialogs, ClickInfo(d) PROVE TypeOK'
    BY <2>3 DEF ClickInfo, OpenDialog
  <2>4. ASSUME NEW d \in Dialogs, ClickLinkInDialog(d) PROVE TypeOK'
    BY <2>4 DEF ClickLinkInDialog, CloseLast, CloseLastRef
  <2>5. ASSUME NEW d \in Dialogs, DismissWidget(d) PROVE TypeOK'
    BY <2>5 DEF DismissWidget
  <2>6. CASE UNCHANGED vars
    BY <2>6 DEF vars
  <2>7. QED
    BY <2>1, <2>2, <2>3, <2>4, <2>5, <2>6 DEF Next
<1>3. QED
  BY <1>1, <1>2, PTL DEF DialogSafe

(* Every handler keeps every variable in its type.                        *)
THEOREM TypeCorrect == Spec => []TypeOK
BY SafeTypeOK, PTL DEF Spec, DialogSafe

(* open() keeps the count of bound handlers equal to the created dialogs, *)
(* and the dialog it displays has its resource.                           *)
LEMMA OpenKeepsResource ==
  ASSUME TypeOK, ResourceCreatedOnce, NEW d \in Dialogs, OpenDialog(d)
  PROVE  ResourceCreatedOnce'
<1>1. IsFiniteSet(Created)
  BY FS_Subset DEF Created
<1>2. Created' = Created \cup {d}
  BY DEF OpenDialog, Created, TypeOK
<1>3. handlers' = Cardinality(Created')
  <2>1. CASE fullyCreated[d]
    BY <1>1, <1>2, <2>1, FS_AddElement DEF OpenDialog, Created, ResourceCreatedOnce
  <2>2. CASE ~fullyCreated[d]
    BY <1>1, <1>2, <2>2, FS_AddElement DEF OpenDialog, Created, ResourceCreatedOnce
  <2>3. QED
    BY <2>1, <2>2
<1>4. \A e \in Dialogs : isOpen'[e] => fullyCreated'[e]
  BY DEF OpenDialog, ResourceCreatedOnce, TypeOK
<1>5. QED
  BY <1>3, <1>4 DEF ResourceCreatedOnce, Created

(* Closing dialogs touches neither the flags nor the handler count.       *)
LEMMA CloseKeepsResource ==
  ASSUME TypeOK, ResourceCreatedOnce,
         fullyCreated' = fullyCreated, handlers' = handlers,
         \A e \in Dialogs : isOpen'[e] => isOpen[e]
  PROVE  ResourceCreatedOnce'
BY DEF ResourceCreatedOnce

LEMMA SafeResourceOnce == DialogSafe => []ResourceCreatedOnce
<1>1. Init => ResourceCreatedOnce
  <2> SUFFICES ASSUME Init PROVE ResourceCreatedOnce
    OBVIOUS
  <2>1. \A e \in Dialogs : ~fullyCreated[e] /\ ~isOpen[e]
    BY DEF Init
  <2>2. Created = {}
    BY <2>1 DEF Created
  <2>3. handlers = 0
    BY DEF Init
  <2>4. QED
    BY <2>1, <2>2, <2>3, FS_EmptySet DEF ResourceCreatedOnce, Created
<1>2. TypeOK /\ ResourceCreatedOnce /\ [Next]_vars => ResourceCreatedOnce'
  <2> SUFFICES ASSUME TypeOK, ResourceCreatedOnce, [Next]_vars
               PROVE  ResourceCreatedOnce'
    OBVIOUS
  <2>1. ASSUME NEW d \in ChangeDialogs, ClickChangeItem(d) PROVE ResourceCreatedOnce'
    <3>1. \A e \in Dialogs : isOpen'[e] => isOpen[e]
      BY <2>1 DEF ClickChangeItem, CloseLast, TypeOK
    <3>2. QED
      BY <2>1, <3>1, CloseKeepsResource DEF ClickChangeItem
  <2>2. ASSUME NEW d \in ChangeDialogs, ShowDlgTimer(d) PROVE ResourceCreatedOnce'
    BY <2>2, OpenKeepsResource DEF ShowDlgTimer, Dialogs
  <2>3. ASSUME NEW d \in InfoDialogs, ClickInfo(d) PROVE ResourceCreatedOnce'
    BY <2>3, OpenKeepsResource DEF ClickInfo, Dialogs
  <2>4. ASSUME NEW d \in Dialogs, ClickLinkInDialog(d) PROVE ResourceCreatedOnce'
    <3>1. \A e \in Dialogs : isOpen'[e] => isOpen[e]
      BY <2>4 DEF ClickLinkInDialog, CloseLast, TypeOK
    <3>2. QED
      BY <2>4, <3>1, CloseKeepsResource DEF ClickLinkInDialog
  <2>5. ASSUME NEW d \in Dialogs, DismissWidget(d) PROVE ResourceCreatedOnce'
    <3>1. \A e \in Dialogs : isOpen'[e] => isOpen[e]
      BY <2>5 DEF DismissWidget, TypeOK
    <3>2. QED
      BY <2>5, <3>1, CloseKeepsResource DEF DismissWidget
  <2>6. CASE UNCHANGED vars
    BY <2>6 DEF vars, ResourceCreatedOnce
  <2>7. QED
    BY <2>1, <2>2, <2>3, <2>4, <2>5, <2>6 DEF Next
<1>3. QED
  BY <1>1, <1>2, SafeTypeOK, PTL DEF DialogSafe

(***************************************************************************)
(* createResource runs once per dialog: the page holds one link click      *)
(* handler per dialog ever opened, and a displayed dialog has its widget.  *)
(***************************************************************************)
THEOREM ResourceOnce == Spec => []ResourceCreatedOnce
BY SafeResourceOnce, PTL DEF Spec, DialogSafe

=============================================================================
