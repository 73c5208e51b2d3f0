--------------------------- MODULE InfoSteps_proofs ---------------------------
(***************************************************************************)
(* Proofs about the construction of the note and tip infos, for any        *)
(* callouts, any visiting order, any markup, any preview cut and any       *)
(* fullText, and about the user guide page that runs it beside the         *)
(* dialogs: the page keeps what each of the two promises.                  *)
(***************************************************************************)
EXTENDS UserGuidePage, DynamicDialog_proofs, TLAPS

USE InfoAssumption

\* The safety part of InfoSpec: what the page composition also satisfies.
InfoSafe == InfoInit /\ [][InfoNext]_infoVars

(***************************************************************************)
(* The inductive invariant.  InfoBuilt alone does not say that the         *)
(* per-callout state is a function on the callouts, which the EXCEPTs of   *)
(* MakeInfo need, nor that a DIV's children are always its original ones   *)
(* or the info's list.                                                     *)
(***************************************************************************)
IInfo ==
    /\ InfoTypeOK
    /\ kids \in [Callouts -> Contents \cup {<<InfoList>>}]
    /\ dlg = [c \in Callouts |-> dlg[c]]
    /\ title = [c \in Callouts |-> title[c]]
    /\ label = [c \in Callouts |-> label[c]]
    /\ InfoBuilt

\* InfoBuilt of one callout.
BuiltAt(c) ==
    IF made[c]
    THEN LET h == FirstH3(content[c]) IN
         /\ h # 0
         /\ dlg[c] = RemoveChild(content[c], h)
         /\ kids[c] = <<InfoList>>
         /\ title[c] = Preview(Text(dlg[c]))
         /\ label[c] = Text(content[c][h].kids)
    ELSE /\ kids[c] = content[c]
         /\ dlg[c] = << >> /\ title[c] = << >> /\ label[c] = << >>

\* The info's list holds no H3: child("h3") of a made callout is null.
LEMMA NoH3InList == FirstH3(<<InfoList>>) = 0
BY DEF FirstH3, H3At, InfoList

\* The callout the running callback visits is one of the callouts.
LEMMA VisitedCallout ==
  ASSUME at \in 1..(Len(Order) + 1), at <= Len(Order)
  PROVE  Visited \in Callouts
BY DEF Visited

(***************************************************************************)
(* The callout MakeInfo visits is untouched: a made one holds only the     *)
(* list, where child("h3") is null, so create() reads the loaded markup.   *)
(***************************************************************************)
LEMMA VisitedUntouched ==
  ASSUME IInfo, MakeInfo
  PROVE  /\ Visited \in Callouts /\ ~made[Visited]
         /\ kids[Visited] = content[Visited]
         /\ dlg[Visited] = << >> /\ title[Visited] = << >> /\ label[Visited] = << >>
<1> DEFINE c == Visited
<1>1. c \in Callouts
  BY VisitedCallout DEF MakeInfo, IInfo, InfoTypeOK
<1>2. ~made[c]
  <2>1. SUFFICES ASSUME made[c] PROVE FALSE
    OBVIOUS
  <2>2. kids[c] = <<InfoList>>
    BY <1>1, <2>1 DEF IInfo, InfoBuilt
  <2>3. QED
    BY <2>2, NoH3InList DEF MakeInfo
<1>3. QED
  BY <1>1, <1>2 DEF IInfo, InfoBuilt

LEMMA IInfoInit == InfoInit => IInfo
<1> SUFFICES ASSUME InfoInit PROVE IInfo
  OBVIOUS
<1>1. InfoTypeOK
  BY DEF InfoInit, InfoTypeOK
<1>2. kids \in [Callouts -> Contents \cup {<<InfoList>>}]
  BY DEF InfoInit
<1>3. dlg = [c \in Callouts |-> dlg[c]] /\ title = [c \in Callouts |-> title[c]]
      /\ label = [c \in Callouts |-> label[c]]
  BY DEF InfoInit
<1>4. InfoBuilt
  BY DEF InfoInit, InfoBuilt
<1>5. QED
  BY <1>1, <1>2, <1>3, <1>4 DEF IInfo

(***************************************************************************)
(* MakeInfo: create() reads the untouched markup of the visited callout,   *)
(* so that callout's new state is what InfoBuilt says; no other changes.   *)
(***************************************************************************)
LEMMA IInfoMakeInfo ==
  ASSUME IInfo, MakeInfo
  PROVE  IInfo'
<1> DEFINE c == Visited
<1>1. c \in Callouts /\ kids[c] = content[c]
  BY VisitedUntouched
<1>2. FirstH3(content[c]) # 0
  BY <1>1 DEF MakeInfo
<1>3. InfoTypeOK'
  BY <1>1 DEF MakeInfo, IInfo, InfoTypeOK
<1>4. kids' \in [Callouts -> Contents \cup {<<InfoList>>}]
  BY <1>1 DEF MakeInfo, IInfo
<1>5. dlg' = [d \in Callouts |-> dlg'[d]] /\ title' = [d \in Callouts |-> title'[d]]
      /\ label' = [d \in Callouts |-> label'[d]]
  BY <1>1 DEF MakeInfo, IInfo
<1>6. ASSUME NEW d \in Callouts, d # c
      PROVE  /\ made'[d] = made[d] /\ kids'[d] = kids[d] /\ dlg'[d] = dlg[d]
             /\ title'[d] = title[d] /\ label'[d] = label[d] /\ content' = content
  BY <1>1, <1>6 DEF MakeInfo, IInfo, InfoTypeOK
<1>7. /\ made'[c] /\ content' = content
      /\ dlg'[c] = RemoveChild(content[c], FirstH3(content[c]))
      /\ kids'[c] = <<InfoList>>
      /\ title'[c] = Preview(Text(dlg'[c]))
      /\ label'[c] = Text(content[c][FirstH3(content[c])].kids)
  BY <1>1 DEF MakeInfo, IInfo, InfoTypeOK
<1>8. InfoBuilt'
  <2>1. SUFFICES ASSUME NEW d \in Callouts PROVE BuiltAt(d)'
    BY DEF InfoBuilt, BuiltAt
  <2>2. CASE d = c
    BY <1>2, <1>7, <2>2 DEF BuiltAt
  <2>3. CASE d # c
    <3>1. BuiltAt(d)
      BY DEF IInfo, InfoBuilt, BuiltAt
    <3>2. QED
      BY <3>1, <1>6, <2>3 DEF BuiltAt
  <2>4. QED
    BY <2>2, <2>3
<1>9. QED
  BY <1>3, <1>4, <1>5, <1>8 DEF IInfo

LEMMA IInfoNext == IInfo /\ [InfoNext]_infoVars => IInfo'
<1> SUFFICES ASSUME IInfo, [InfoNext]_infoVars PROVE IInfo'
  OBVIOUS
<1>1. CASE InfoTimer
  BY <1>1 DEF InfoTimer, IInfo, InfoTypeOK, InfoBuilt
<1>2. CASE MakeInfo
  BY <1>2, IInfoMakeInfo
<1>3. CASE MakeInfoFails
  BY <1>3 DEF MakeInfoFails, IInfo, InfoTypeOK, InfoBuilt
<1>4. CASE InfoTimerDone
  BY <1>4 DEF InfoTimerDone, IInfo, InfoTypeOK, InfoBuilt
<1>5. CASE UNCHANGED infoVars
  BY <1>5 DEF infoVars, IInfo, InfoTypeOK, InfoBuilt
<1>6. QED
  BY <1>1, <1>2, <1>3, <1>4, <1>5 DEF InfoNext

LEMMA IInfoHolds == InfoSafe => []IInfo
<1>1. InfoInit => IInfo
  BY IInfoInit
<1>2. IInfo /\ [InfoNext]_infoVars => IInfo'
  BY IInfoNext
<1>3. QED
  BY <1>1, <1>2, PTL DEF InfoSafe

\* InfoBuilt holds in every state of the info construction.
LEMMA SafeInfoBuilt == InfoSafe => []InfoBuilt
<1>1. IInfo => InfoBuilt
  BY DEF IInfo
<1>2. QED
  BY <1>1, IInfoHolds, PTL

\* What a step may do to a made callout: nothing.
Kept == \A c \in Callouts :
            made[c] => <<kids[c], dlg[c], title[c], label[c]>>' =
                       <<kids[c], dlg[c], title[c], label[c]>>

\* MakeInfo rewrites only the visited callout, and that one is not made.
LEMMA MakeInfoKept ==
  ASSUME IInfo, MakeInfo
  PROVE  Kept
<1> DEFINE c == Visited
<1>1. c \in Callouts /\ ~made[c]
  BY VisitedUntouched
<1>2. ASSUME NEW d \in Callouts, made[d]
      PROVE  <<kids[d], dlg[d], title[d], label[d]>>' = <<kids[d], dlg[d], title[d], label[d]>>
  <2>1. d # c
    BY <1>1, <1>2
  <2>2. QED
    BY <1>1, <2>1 DEF MakeInfo, IInfo
<1>3. QED
  BY <1>2 DEF Kept

LEMMA KeptNext == IInfo /\ [InfoNext]_infoVars => Kept
<1> SUFFICES ASSUME IInfo, [InfoNext]_infoVars PROVE Kept
  OBVIOUS
<1>1. CASE MakeInfo
  BY <1>1, MakeInfoKept
<1>2. CASE InfoTimer \/ MakeInfoFails \/ InfoTimerDone \/ UNCHANGED infoVars
  BY <1>2 DEF InfoTimer, MakeInfoFails, InfoTimerDone, infoVars, Kept
<1>3. QED
  BY <1>1, <1>2 DEF InfoNext

\* No step of the info construction alters a made callout.
LEMMA SafeNeverRebuilt == InfoSafe => InfoNeverRebuilt
<1>1. InfoSafe => []IInfo
  BY IInfoHolds
<1>2. IInfo /\ [InfoNext]_infoVars => [Kept]_infoVars
  BY KeptNext
<1>3. QED
  BY <1>1, <1>2, PTL DEF InfoSafe, InfoNeverRebuilt, Kept

-----------------------------------------------------------------------------
(***************************************************************************)
(* The refinement of InfoOnce: the loaded page is all markup; MakeInfo is  *)
(* InfoOnce's Build of the visited callout; every other step leaves what   *)
(* the page shows unchanged.                                               *)
(***************************************************************************)
LEMMA RefInit == InfoInit => InfoAbs!Init
BY DEF InfoInit, InfoAbs!Init, CalloutViews, Markup, View

LEMMA RefMakeInfo ==
  ASSUME IInfo, MakeInfo
  PROVE  InfoAbs!Build(Visited)
<1> DEFINE c == Visited
<1>1. /\ c \in Callouts /\ kids[c] = content[c]
      /\ dlg[c] = << >> /\ title[c] = << >> /\ label[c] = << >>
  BY VisitedUntouched
<1>2. CalloutViews[c] = Markup(content[c])
  BY <1>1 DEF CalloutViews, Markup
<1>3. Titled(content[c])
  BY <1>1 DEF MakeInfo, Titled
<1>4. View(kids'[c], dlg'[c], title'[c], label'[c]) = BuiltInfo(content[c])
  BY <1>1 DEF MakeInfo, BuiltInfo, IInfo
<1>5. ASSUME NEW d \in Callouts, d # c
      PROVE  View(kids'[d], dlg'[d], title'[d], label'[d]) = View(kids[d], dlg[d], title[d], label[d])
  BY <1>1, <1>5 DEF MakeInfo, IInfo
<1>6. CalloutViews' = [CalloutViews EXCEPT ![c] = BuiltInfo(content[c])]
  BY <1>1, <1>4, <1>5 DEF CalloutViews
<1>7. content' = content
  BY DEF MakeInfo
<1>8. QED
  BY <1>2, <1>3, <1>6, <1>7 DEF InfoAbs!Build

LEMMA RefNext ==
  IInfo /\ [InfoNext]_infoVars => [InfoAbs!Next]_InfoAbs!onceVars
<1> SUFFICES ASSUME IInfo, [InfoNext]_infoVars PROVE [InfoAbs!Next]_InfoAbs!onceVars
  OBVIOUS
<1>1. CASE MakeInfo
  <2>1. Visited \in Callouts
    BY <1>1, VisitedUntouched
  <2>2. QED
    BY <1>1, <2>1, RefMakeInfo DEF InfoAbs!Next
<1>2. CASE InfoTimer \/ MakeInfoFails \/ InfoTimerDone \/ UNCHANGED infoVars
  <2>1. UNCHANGED <<content, kids, dlg, title, label>>
    BY <1>2 DEF InfoTimer, MakeInfoFails, InfoTimerDone, infoVars
  <2>2. QED
    BY <2>1 DEF InfoAbs!onceVars, CalloutViews
<1>3. QED
  BY <1>1, <1>2 DEF InfoNext

\* The info construction implements InfoOnce.
LEMMA SafeRefines == InfoSafe => InfoRefinesOnce
<1>1. InfoInit => InfoAbs!Init
  BY RefInit
<1>2. IInfo /\ [InfoNext]_infoVars => [InfoAbs!Next]_InfoAbs!onceVars
  BY RefNext
<1>3. QED
  BY <1>1, <1>2, IInfoHolds, PTL DEF InfoSafe, InfoRefinesOnce, InfoAbs!Spec

-----------------------------------------------------------------------------
(***************************************************************************)
(* The page.  Every step of the page is a step of the info construction or *)
(* leaves its variables alone, and is a step of the dialogs or leaves      *)
(* theirs alone: a click on an info LI is a DynamicDialog ClickInfo, and   *)
(* the makeInfos callback touches no dialog.                               *)
(***************************************************************************)
LEMMA PageInfoStep == [PageNext]_pageVars => [InfoNext]_infoVars
BY DEF PageNext, pageVars, infoVars

LEMMA PageDialogStep == [PageNext]_pageVars => [Next]_vars
<1> SUFFICES ASSUME [PageNext]_pageVars PROVE [Next]_vars
  OBVIOUS
<1>1. ASSUME NEW d \in InfoDialogs, ClickMadeInfo(d) PROVE Next
  BY <1>1 DEF ClickMadeInfo, Next
<1>2. CASE InfoNext /\ UNCHANGED vars
  BY <1>2
<1>3. CASE UNCHANGED pageVars
  BY <1>3 DEF pageVars, vars
<1>4. QED
  BY <1>1, <1>2, <1>3 DEF PageNext, Next

LEMMA PageSafe == PageSpec => InfoSafe /\ DialogSafe
<1>1. PageInit => InfoInit /\ Init
  BY DEF PageInit
<1>2. QED
  BY <1>1, PageInfoStep, PageDialogStep, PTL DEF PageSpec, InfoSafe, DialogSafe

(***************************************************************************)
(* On the page, with makeInfos building the note and tip dialogs while     *)
(* revision dialogs are clicked, createResource still runs once per dialog *)
(* ever opened: one link click handler each, and no dialog displayed       *)
(* before its widget exists.                                               *)
(***************************************************************************)
THEOREM PageResourceOnce == PageSpec => []ResourceCreatedOnce
BY PageSafe, SafeResourceOnce, PTL

(***************************************************************************)
(* On the page, for any markup and any fullText: a callout makeInfos      *)
(* turned into an info has its loaded children but the first H3 as its    *)
(* dialog, only the list in the DIV, the dialog's text cut as its preview *)
(* and the H3's text as its label; a callout it did not turn is untouched *)
(* and has no info, whatever the order in which the callouts are visited. *)
(***************************************************************************)
THEOREM PageInfosBuilt == PageSpec => []InfoBuilt
BY PageSafe, SafeInfoBuilt, PTL

(***************************************************************************)
(* For any markup and any visiting order, a DIV visited again (a callout   *)
(* of both classes) keeps the info its first visit built: no later step    *)
(* changes a made callout's children, dialog, preview or label.            *)
(***************************************************************************)
THEOREM PageNeverRebuilt == PageSpec => InfoNeverRebuilt
BY PageSafe, SafeNeverRebuilt, PTL

(***************************************************************************)
(* For any markup, any visiting order and any fullText, makeInfos with its *)
(* 100 ms timer, its two each() loops and the errors it logs implements    *)
(* InfoOnce: what the page shows of the callouts changes only by one       *)
(* untouched titled callout becoming the info built from its markup.       *)
(***************************************************************************)
THEOREM PageRefinesInfo == PageSpec => InfoRefinesOnce
BY PageSafe, SafeRefines, PTL

=============================================================================
