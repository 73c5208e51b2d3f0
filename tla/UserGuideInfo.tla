---------------------------- MODULE UserGuideInfo ----------------------------
(***************************************************************************)
(* The note and tip callouts of the user guide (cli-user-guide.js), with   *)
(* the text their infos show: InfoSteps holds the steps (the makeInfos     *)
(* timer visits the callouts; UserGuideInfo.create removes the H3, takes   *)
(* the preview, moves the children into a dialog and appends the UL), and *)
(* this module gives XmlNode.fullText, which the configurations put in for *)
(* InfoSteps' Text, and states what the infos show against a reference     *)
(* reading of the markup.  A text is a sequence of one-character strings.  *)
(***************************************************************************)
EXTENDS InfoSteps, SequencesExt

(***************************************************************************)
(* XmlNode.fullText (xml-node.js): the pieces of the children, left to     *)
(* right, joined by one space, empty pieces skipped.  An element's piece   *)
(* is its own fullText; a text node's is its value with newlines turned    *)
(* to spaces, leading and trailing spaces stripped and runs of spaces      *)
(* squeezed to one.                                                        *)
(***************************************************************************)
RECURSIVE TrimLeft(_), TrimRight(_), Squeeze(_), FullText(_)
TrimLeft(s) == IF s # << >> /\ Head(s) = " " THEN TrimLeft(Tail(s)) ELSE s
TrimRight(s) == IF s # << >> /\ Last(s) = " " THEN TrimRight(Front(s)) ELSE s
Squeeze(s) ==
    IF Len(s) < 2 THEN s
    ELSE IF s[1] = " " /\ s[2] = " " THEN Squeeze(Tail(s))
    ELSE <<s[1]>> \o Squeeze(Tail(s))

NormaliseText(v) ==
    Squeeze(TrimRight(TrimLeft([i \in DOMAIN v |-> IF v[i] = NL THEN " " ELSE v[i]])))

JoinText(acc, piece) ==
    IF piece = << >> THEN acc ELSE IF acc = << >> THEN piece ELSE acc \o <<" ">> \o piece

FullText(ks) ==
    IF ks = << >> THEN << >>
    ELSE LET k == Last(ks)
             piece == IF k.type = 1 THEN FullText(k.kids)
                      ELSE IF k.type = 3 THEN NormaliseText(k.value) ELSE << >>
         IN  JoinText(FullText(Front(ks)), piece)

\* Reference: the values of the text nodes under ks, in document order.
RECURSIVE TextLeaves(_)
TextLeaves(ks) ==
    IF ks = << >> THEN << >>
    ELSE LET k == Head(ks)
         IN  (IF k.type = 1 THEN TextLeaves(k.kids)
              ELSE IF k.type = 3 THEN <<k.value>> ELSE << >>) \o TextLeaves(Tail(ks))

Blank(ch) == ch \in {" ", NL}

\* Reference: the words of a text, its maximal runs of non-blank characters.
Words(s) ==
    LET starts == SetToSortSeq({i \in DOMAIN s : ~Blank(s[i]) /\ (i = 1 \/ Blank(s[i - 1]))}, <)
        End(i) == CHOOSE j \in i..Len(s) :
                     /\ \A m \in i..j : ~Blank(s[m])
                     /\ j = Len(s) \/ Blank(s[j + 1])
    IN  [n \in 1..Len(starts) |-> SubSeq(s, starts[n], End(starts[n]))]

\* Reference: the text of the nodes ks as read: their words, one space apart.
RefText(ks) ==
    LET ws == FlattenSeq([n \in DOMAIN TextLeaves(ks) |-> Words(TextLeaves(ks)[n])])
    IN  FoldLeft(LAMBDA a, w : IF a = << >> THEN w ELSE a \o <<" ">> \o w, << >>, ws)

\* Reference: the position of the callout's H3 title among its children.
TitleAt(ks) == CHOOSE i \in DOMAIN ks : ks[i].type = 1 /\ ks[i].name = "h3"
                                        /\ \A j \in 1..(i - 1) : ks[j].name # "h3"

(***************************************************************************)
(* Reference: p is the preview the page promises of text r, "truncated to *)
(* at most PreviewLen characters plus ellipsis when the source text       *)
(* exceeds that length, otherwise copied verbatim".                        *)
(***************************************************************************)
IsPreviewOf(p, r) ==
    IF Len(r) <= PreviewLen
    THEN p = r
    ELSE /\ Len(p) = PreviewLen + 3
         /\ \A k \in 1..PreviewLen : p[k] = r[k]
         /\ \A k \in (PreviewLen + 1)..(PreviewLen + 3) : p[k] = "."

HasTitle(ks) == \E i \in DOMAIN ks : ks[i].type = 1 /\ ks[i].name = "h3"

(***************************************************************************)
(* A callout turned into an info is what the page promised: its dialog    *)
(* holds all of its original content but the H3 title, in order; the DIV  *)
(* holds only the info's list; the LI's preview is the content's text     *)
(* (words one space apart, whatever the markup's whitespace and nesting)  *)
(* as IsPreviewOf states it, independently of the Preview the code's     *)
(* length test computes, and the LI's label is the title's text.  A       *)
(* callout not turned into one is intact.                                  *)
(***************************************************************************)
InfoMatchesCallout ==
    \A c \in Callouts :
        IF made[c]
        THEN LET h == TitleAt(content[c]) IN
             /\ dlg[c] = RemoveAt(content[c], h)
             /\ kids[c] = <<InfoList>>
             /\ IsPreviewOf(title[c], RefText(dlg[c]))
             /\ label[c] = RefText(content[c][h].kids)
        ELSE kids[c] = content[c]

(***************************************************************************)
(* The deferred makeInfos is not lost: the timer callback eventually runs  *)
(* to its end, and then every callout with an H3 title is an info, even   *)
(* when a callout before it in the page has none and throws.               *)
(***************************************************************************)
InfosEventuallyMade ==
    <>(timer = "done" /\ \A c \in Callouts : made[c] = HasTitle(content[c]))

=============================================================================
