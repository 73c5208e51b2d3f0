----------------------------- MODULE InfoSteps -----------------------------
(***************************************************************************)
(* The steps that turn the note and tip callouts of the user guide into    *)
(* infos (cli-user-guide.js, UserGuideInfo and makeInfos), with            *)
(* XmlNode.fullText left as the operator constant Text: what the steps do  *)
(* to the DOM does not depend on how a text is normalised.  UserGuideInfo  *)
(* gives Text its definition.  A DOM node is a record: nodeType 1          *)
(* (element: name, kids), 3 (text: value) or another type (a comment).     *)
(***************************************************************************)
EXTENDS Naturals, Sequences

CONSTANTS
    Callouts,    \* the ".note" and ".tip" DIVs of the page
    Order,       \* the order makeInfos visits them: notes, then tips
    Contents,    \* the children a callout DIV may hold when the page loads
    PreviewLen,  \* the cut of shortText: 100
    Text(_)      \* XmlNode.fullText of a sequence of children

ASSUME InfoAssumption ==
    /\ Order \in Seq(Callouts)
    /\ \A c \in Callouts : \E k \in DOMAIN Order : Order[k] = c
    /\ PreviewLen \in Nat

NL == "\n"

\* The UL that create() appends to the DIV, holding the info's LI.
InfoList == [type |-> 1, name |-> "ul", kids |-> << >>, value |-> << >>]

VARIABLES
    content,  \* the children each callout DIV had when the page loaded
    kids,     \* the children each callout DIV has now
    made,     \* made[c]: c.info was constructed
    dlg,      \* dlg[c]: the children of info.dlg.div
    title,    \* title[c]: the LI's title attribute, info.shortText
    label,    \* label[c]: the LI's text, the removed H3's fullText
    timer,    \* the makeInfos timer: "pending", "running" or "done"
    at        \* the position in Order the running callback has reached

infoVars == <<content, kids, made, dlg, title, label, timer, at>>

\* The i-th child is not a text node and is an H3.
H3At(ks, i) == ks[i].type # 3 /\ ks[i].name = "h3"

\* XmlNode.child("h3"): the position of the first such child, 0 for null.
FirstH3(ks) ==
    IF \E i \in DOMAIN ks : H3At(ks, i)
    THEN CHOOSE i \in DOMAIN ks : H3At(ks, i) /\ \A j \in 1..(i - 1) : ~H3At(ks, j)
    ELSE 0

\* removeChild of the i-th child: the others keep their order.
RemoveChild(ks, i) == SubSeq(ks, 1, i - 1) \o SubSeq(ks, i + 1, Len(ks))

\* Seeded fault: the preview is cut when the text reaches PreviewLen.
PreviewAtLimit(t) == IF Len(t) >= PreviewLen THEN SubSeq(t, 1, PreviewLen) \o <<".", ".", ".">> ELSE t

\* shortText: the first PreviewLen characters and "..." when it is longer.
Preview(t) == IF Len(t) > PreviewLen THEN SubSeq(t, 1, PreviewLen) \o <<".", ".", ".">> ELSE t

InfoTypeOK ==
    /\ content \in [Callouts -> Contents]
    /\ made \in [Callouts -> BOOLEAN]
    /\ timer \in {"pending", "running", "done"}
    /\ at \in 1..(Len(Order) + 1)

InfoInit ==
    /\ content \in [Callouts -> Contents]
    /\ kids = content
    /\ made = [c \in Callouts |-> FALSE]
    /\ dlg = [c \in Callouts |-> << >>]
    /\ title = [c \in Callouts |-> << >>]
    /\ label = [c \in Callouts |-> << >>]
    /\ timer = "pending"
    /\ at = 1

\* The 100 ms timer set by onLoad fires.
InfoTimer ==
    /\ timer = "pending"
    /\ timer' = "running"
    /\ UNCHANGED <<content, kids, made, dlg, title, label, at>>

\* The callout the each() visits now.
Visited == Order[at]

(***************************************************************************)
(* new UserGuideInfo(div): create() removes the H3, takes the preview from *)
(* the rest, moves every child (firstChild first) into a new dialog, and   *)
(* appends the UL; applyStyles and animate follow (the LI's click opens    *)
(* the dialog).                                                            *)
(***************************************************************************)
MakeInfo ==
    /\ timer = "running" /\ at <= Len(Order)
    /\ FirstH3(kids[Visited]) # 0
    /\ LET c == Visited
           h == FirstH3(kids[c])
           rest == RemoveChild(kids[c], h)
       IN  /\ title' = [title EXCEPT ![c] = Preview(Text(rest))]
           /\ dlg' = [dlg EXCEPT ![c] = rest]
           /\ kids' = [kids EXCEPT ![c] = <<InfoList>>]
           /\ label' = [label EXCEPT ![c] = Text(kids[c][h].kids)]
           /\ made' = [made EXCEPT ![c] = TRUE]
    /\ at' = at + 1
    /\ UNCHANGED <<content, timer>>

\* Seeded fault: no try in the each(), so the throw ends the timer callback.
MakeInfoFailsStops ==
    /\ timer = "running" /\ at <= Len(Order)
    /\ FirstH3(kids[Visited]) = 0
    /\ timer' = "done"
    /\ UNCHANGED <<content, kids, made, dlg, title, label, at>>

\* child("h3") is null and .node throws before any change: logged, skipped.
MakeInfoFails ==
    /\ timer = "running" /\ at <= Len(Order)
    /\ FirstH3(kids[Visited]) = 0
    /\ at' = at + 1
    /\ UNCHANGED <<content, kids, made, dlg, title, label, timer>>

\* Both each() loops are over: the callback returns.
InfoTimerDone ==
    /\ timer = "running" /\ at > Len(Order)
    /\ timer' = "done"
    /\ UNCHANGED <<content, kids, made, dlg, title, label, at>>

InfoNext == InfoTimer \/ MakeInfo \/ MakeInfoFails \/ InfoTimerDone

(***************************************************************************)
(* A step of the running callback, seen on (timer, at) alone: MakeInfo and *)
(* MakeInfoFails advance at, InfoTimerDone ends the callback.              *)
(***************************************************************************)
CallbackStep ==
    /\ timer = "running"
    /\ \/ at <= Len(Order) /\ at' = at + 1 /\ timer' = timer
       \/ at > Len(Order) /\ timer' = "done" /\ at' = at

\* The browser fires the timer, and its callback runs to its end.
InfoFairness == WF_infoVars(InfoTimer) /\ WF_<<timer, at>>(CallbackStep)

InfoSpec == InfoInit /\ [][InfoNext]_infoVars /\ InfoFairness


(***************************************************************************)
(* Whatever fullText computes, a callout is turned into an info at most    *)
(* once and from its original markup: create() reads the H3 and the       *)
(* preview from the DIV's children before it moves them out, so the info  *)
(* of a made callout has the original children but its first H3 as its    *)
(* dialog, the UL as the DIV's only child, the text of those children cut  *)
(* as its preview and the H3's text as its label; a callout not made is    *)
(* untouched and has no info yet.                                          *)
(***************************************************************************)
InfoBuilt ==
    \A c \in Callouts :
        IF made[c]
        THEN LET h == FirstH3(content[c]) IN
             /\ h # 0
             /\ dlg[c] = RemoveChild(content[c], h)
             /\ kids[c] = <<InfoList>>
             /\ title[c] = Preview(Text(dlg[c]))
             /\ label[c] = Text(content[c][h].kids)
        ELSE /\ kids[c] = content[c]
             /\ dlg[c] = << >> /\ title[c] = << >> /\ label[c] = << >>

(***************************************************************************)
(* A DIV of both classes ("note tip") is visited by both each() loops.     *)
(* The info the first visit built is never rebuilt nor altered by a later  *)
(* step: the second UserGuideInfo finds no H3 in the rebuilt DIV and       *)
(* throws before it touches the DOM, and this.info keeps the first info.   *)
(***************************************************************************)
InfoNeverRebuilt ==
    [][\A c \in Callouts :
          made[c] => <<kids[c], dlg[c], title[c], label[c]>>' =
                     <<kids[c], dlg[c], title[c], label[c]>>]_infoVars

-----------------------------------------------------------------------------
(***************************************************************************)
(* The refinement of InfoOnce.  What the page shows of a callout: the      *)
(* DIV's children, the info's dialog, preview and label.  A callout as it  *)
(* was loaded has no info; create() builds the info from the DIV's         *)
(* children when child("h3") finds a title.                                *)
(***************************************************************************)
View(ks, d, t, l) == [kids |-> ks, dlg |-> d, title |-> t, label |-> l]

Markup(ks) == View(ks, << >>, << >>, << >>)

Titled(ks) == FirstH3(ks) # 0

BuiltInfo(ks) ==
    LET h == FirstH3(ks)
        rest == RemoveChild(ks, h)
    IN  View(<<InfoList>>, rest, Preview(Text(rest)), Text(ks[h].kids))

CalloutViews == [c \in Callouts |-> View(kids[c], dlg[c], title[c], label[c])]

InfoAbs == INSTANCE InfoOnce WITH
    shown <- CalloutViews, Untouched <- Markup, Built <- BuiltInfo

(***************************************************************************)
(* makeInfos, its timer and its thrown errors implement InfoOnce: every    *)
(* step either replaces one untouched titled callout by the info built     *)
(* from its loaded markup, or leaves what the page shows unchanged.        *)
(***************************************************************************)
InfoRefinesOnce == InfoAbs!Spec

=============================================================================
