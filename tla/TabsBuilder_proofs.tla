-------------------------- MODULE TabsBuilder_proofs --------------------------
(***************************************************************************)
(* Proofs about onLoad's level-2 tabs: on markup written heading-then-     *)
(* panel, every tab link opens its own panel and panel ids are distinct,   *)
(* for any number of children of the div.                                  *)
(***************************************************************************)
EXTENDS TabsBuilder, WellFoundedInduction, TLAPS

USE TabsAssumption

\* The H5s of the div.
H5Set(p) == {q \in DOMAIN p : IsH5(p, q)}

-----------------------------------------------------------------------------
(* A non-empty set of naturals has a least element (from WFMin).          *)
LEMMA MinExists ==
  ASSUME NEW S \in SUBSET Nat, S # {}
  PROVE  \E x \in S : \A y \in S : x <= y
<1> DEFINE R == {ss \in Nat \X Nat : ss[1] < ss[2]}
<1>1. IsWellFoundedOn(R, Nat)
  BY NatLessThanWellFounded DEF OpToRel
<1>2. PICK x \in S : \A y \in S : ~(<<y, x>> \in R)
  BY <1>1, WFMin
<1>3. \A y \in S : x <= y
  <2> TAKE y \in S
  <2>1. ~(<<y, x>> \in R)
    BY <1>2
  <2>2. <<y, x>> \in Nat \X Nat
    OBVIOUS
  <2>3. ~(y < x)
    BY <2>1, <2>2 DEF R
  <2>4. QED
    BY <2>3
<1>4. QED
  BY <1>3

\* A page is a sequence of at most MaxChildren kinds.
LEMMA PageLen ==
  ASSUME NEW p \in Pages
  PROVE  \E n \in 0..MaxChildren : p \in [1..n -> Kinds] /\ Len(p) = n
<1>1. PICK n \in 0..MaxChildren : p \in [1..n -> Kinds]
  BY DEF Pages
<1>2. p \in Seq(Kinds)
  BY <1>1
<1>3. Len(p) = n
  BY <1>1, <1>2
<1>4. QED
  BY <1>1, <1>3

\* The heading the each() visits is the first one left.
LEMMA CurrentSpec ==
  ASSUME todo \in SUBSET Nat, todo # {}
  PROVE  Current \in todo /\ \A g \in todo : Current <= g
<1>1. \E h \in todo : \A g \in todo : h <= g
  BY MinExists
<1>2. QED
  BY <1>1 DEF Current

\* The sibling walk stops at the first DIV after the heading.
LEMMA PanelSpec ==
  ASSUME NEW p, NEW h \in Nat, DivsAfter(p, h) # {}
  PROVE  /\ Panel(p, h) \in DivsAfter(p, h)
         /\ \A r \in DivsAfter(p, h) : Panel(p, h) <= r
<1>1. DivsAfter(p, h) \in SUBSET Nat
  BY DEF DivsAfter
<1>2. \E q \in DivsAfter(p, h) : \A r \in DivsAfter(p, h) : q <= r
  BY <1>1, MinExists
<1>3. QED
  BY <1>2 DEF Panel

\* Well-formed markup gives every heading its own panel.
LEMMA WellFormedOwn ==
  ASSUME NEW p, WellFormed(p)
  PROVE  OwnPanels(p)
BY DEF WellFormed, OwnPanels

(***************************************************************************)
(* When every heading has its own panel, a heading's panel comes before    *)
(* any later heading: the walks of two headings never reach the same DIV.  *)
(***************************************************************************)
LEMMA PanelBeforeNext ==
  ASSUME NEW n \in Nat, NEW p \in [1..n -> Kinds], OwnPanels(p),
         NEW h \in H5Set(p), NEW g \in H5Set(p), h < g
  PROVE  h < Panel(p, h) /\ Panel(p, h) < g
<1>1. DivsAfter(p, h) # {} /\ \A q \in (h + 1)..Panel(p, h) : ~IsH5(p, q)
  BY DEF OwnPanels, H5Set
<1>2. Len(p) = n
  OBVIOUS
<1>3. Panel(p, h) \in (h + 1)..n
  BY <1>1, <1>2, PanelSpec DEF DivsAfter, H5Set
<1>4. IsH5(p, g) /\ g \in Nat
  BY DEF H5Set
<1>5. QED
  BY <1>1, <1>3, <1>4
-----------------------------------------------------------------------------
(***************************************************************************)
(* The inductive invariant.  The headings visited all come before those    *)
(* left; every id set is below i_TabCount and ids are distinct; on         *)
(* well-formed markup the tab bar holds exactly the headings visited,      *)
(* each with the id of its own panel, and they are gone from the div.      *)
(***************************************************************************)
IInv ==
    /\ TypeOK
    /\ todo \subseteq H5Set(page)
    /\ \A h \in H5Set(page) \ todo : \A g \in todo : h < g
    /\ \A q \in Positions : tabId[q] # None => tabId[q] < count
    /\ \A q, r \in Positions : q # r /\ tabId[q] # None => tabId[q] # tabId[r]
    /\ WellFormed(page) =>
          /\ {ul[k] : k \in 1..Len(ul)} = H5Set(page) \ todo
          /\ inDiv = todo
          /\ \A k \in 1..Len(ul) : tabId[Panel(page, ul[k])] = href[ul[k]]

LEMMA IInvInit == Init => IInv
<1> SUFFICES ASSUME Init PROVE IInv
  OBVIOUS
<1>1. PICK n \in 0..MaxChildren : page \in [1..n -> Kinds] /\ Len(page) = n
  BY PageLen DEF Init
<1>2. TypeOK
  <2>1. todo \subseteq Positions
    BY <1>1 DEF Init, Positions
  <2>2. << >> \in Seq(Positions)
    OBVIOUS
  <2>3. QED
    BY <2>1, <2>2 DEF Init, TypeOK
<1>3. todo = H5Set(page)
  BY DEF Init, H5Set
<1>4. QED
  BY <1>2, <1>3 DEF Init, IInv

\* What the invariant gives about the heading visited next.
LEMMA CurrentFacts ==
  ASSUME IInv, todo # {}
  PROVE  /\ Current \in todo /\ Current \in H5Set(page)
         /\ \A g \in todo : Current <= g
         /\ \A h \in H5Set(page) \ todo : h < Current
         /\ Current \in Positions
<1>1. todo \in SUBSET Nat
  BY DEF IInv, TypeOK, Positions
<1>2. QED
  BY <1>1, CurrentSpec DEF IInv, TypeOK

\* The ordering and id conjuncts hold after any step that visits Current.
LEMMA OrderStep ==
  ASSUME IInv, todo # {}, todo' = todo \ {Current}, page' = page
  PROVE  /\ todo' \subseteq H5Set(page')
         /\ \A h \in H5Set(page') \ todo' : \A g \in todo' : h < g
<1>1. /\ Current \in todo /\ \A g \in todo : Current <= g
      /\ \A h \in H5Set(page) \ todo : h < Current
  BY CurrentFacts
<1>2. todo \subseteq Positions
  BY DEF IInv, TypeOK
<1>3. QED
  BY <1>1, <1>2 DEF IInv, Positions

\* A new id count on one panel keeps ids distinct and below the new count.
LEMMA IdStep ==
  ASSUME IInv, NEW q0 \in Positions,
         tabId' = [tabId EXCEPT ![q0] = count], count' = count + 1
  PROVE  /\ \A q \in Positions : tabId'[q] # None => tabId'[q] < count'
         /\ \A q, r \in Positions :
               q # r /\ tabId'[q] # None => tabId'[q] # tabId'[r]
         /\ tabId' \in [Positions -> Nat \cup {None}]
BY DEF IInv, TypeOK

\* On well-formed markup every heading visited has its link and its panel.
LEMMA WellFormedCurrent ==
  ASSUME IInv, todo # {}, WellFormed(page)
  PROVE  page[Current] = "h5" /\ DivsAfter(page, Current) # {}
BY CurrentFacts DEF WellFormed, H5Set

LEMMA IInvNoDiv == IInv /\ TabNoDiv => IInv'
<1> SUFFICES ASSUME IInv, TabNoDiv PROVE IInv'
  OBVIOUS
<1>1. /\ todo' \subseteq H5Set(page')
      /\ \A h \in H5Set(page') \ todo' : \A g \in todo' : h < g
  BY OrderStep DEF TabNoDiv
<1>2. ~WellFormed(page)
  BY WellFormedCurrent DEF TabNoDiv
<1>3. TypeOK'
  BY DEF IInv, TypeOK, TabNoDiv
<1>4. QED
  BY <1>1, <1>2, <1>3 DEF IInv, TabNoDiv

LEMMA IInvNoLink == IInv /\ TabNoLink => IInv'
<1> SUFFICES ASSUME IInv, TabNoLink PROVE IInv'
  OBVIOUS
<1>1. /\ todo' \subseteq H5Set(page')
      /\ \A h \in H5Set(page') \ todo' : \A g \in todo' : h < g
  BY OrderStep DEF TabNoLink
<1>2. ~WellFormed(page)
  BY WellFormedCurrent DEF TabNoLink
<1>3. PICK n \in 0..MaxChildren : page \in [1..n -> Kinds] /\ Len(page) = n
  BY PageLen DEF IInv, TypeOK
<1>4. Current \in Nat
  BY CurrentFacts DEF TabNoLink, Positions
<1>5. Panel(page, Current) \in Positions
  BY <1>3, <1>4, PanelSpec DEF TabNoLink, DivsAfter, Positions
<1>6. /\ \A q \in Positions : tabId'[q] # None => tabId'[q] < count'
      /\ \A q, r \in Positions :
            q # r /\ tabId'[q] # None => tabId'[q] # tabId'[r]
      /\ tabId' \in [Positions -> Nat \cup {None}]
  BY <1>5, IdStep DEF TabNoLink
<1>7. TypeOK'
  BY <1>6 DEF IInv, TypeOK, TabNoLink
<1>8. QED
  BY <1>1, <1>2, <1>6, <1>7 DEF IInv, TabNoLink

LEMMA IInvMake == IInv /\ MakeTab => IInv'
<1> SUFFICES ASSUME IInv, MakeTab PROVE IInv'
  OBVIOUS
<1> DEFINE c == Current
           P == Panel(page, Current)
<1>1. /\ c \in todo /\ c \in H5Set(page) /\ c \in Positions
      /\ \A h \in H5Set(page) \ todo : h < c
  BY CurrentFacts DEF MakeTab
<1>2. PICK n \in 0..MaxChildren : page \in [1..n -> Kinds] /\ Len(page) = n
  BY PageLen DEF IInv, TypeOK
<1>3. P \in (c + 1)..n /\ P \in Positions
  BY <1>1, <1>2, PanelSpec DEF MakeTab, DivsAfter, Positions
<1>4. /\ todo' \subseteq H5Set(page')
      /\ \A h \in H5Set(page') \ todo' : \A g \in todo' : h < g
  BY OrderStep DEF MakeTab
<1>5. /\ \A q \in Positions : tabId'[q] # None => tabId'[q] < count'
      /\ \A q, r \in Positions :
            q # r /\ tabId'[q] # None => tabId'[q] # tabId'[r]
      /\ tabId' \in [Positions -> Nat \cup {None}]
  BY <1>3, IdStep DEF MakeTab
<1>6. TypeOK'
  <2>1. ul' \in Seq(Positions) /\ Len(ul') = Len(ul) + 1
    BY <1>1 DEF MakeTab, IInv, TypeOK
  <2>2. href' \in [Positions -> Nat \cup {None}]
    BY DEF MakeTab, IInv, TypeOK
  <2>3. QED
    BY <1>5, <2>1, <2>2 DEF MakeTab, IInv, TypeOK
<1>7. ASSUME WellFormed(page)
      PROVE  /\ {ul'[k] : k \in 1..Len(ul')} = H5Set(page) \ todo'
             /\ inDiv' = todo'
             /\ \A k \in 1..Len(ul') : tabId'[Panel(page, ul'[k])] = href'[ul'[k]]
  <2>1. /\ ul' = Append(ul, c) /\ ul \in Seq(Positions)
        /\ Len(ul') = Len(ul) + 1
        /\ \A k \in 1..Len(ul) : ul'[k] = ul[k]
        /\ ul'[Len(ul) + 1] = c
    BY DEF MakeTab, IInv, TypeOK
  <2>2. {ul'[k] : k \in 1..Len(ul')} = {ul[k] : k \in 1..Len(ul)} \cup {c}
    BY <2>1
  <2>3. {ul'[k] : k \in 1..Len(ul')} = H5Set(page) \ todo'
    BY <1>1, <1>7, <2>2 DEF IInv, MakeTab
  <2>4. inDiv' = todo'
    BY <1>7 DEF IInv, MakeTab
  <2>5. \A k \in 1..Len(ul') : tabId'[Panel(page, ul'[k])] = href'[ul'[k]]
    <3> TAKE k \in 1..Len(ul')
    <3>1. CASE k = Len(ul) + 1
      <4>1. ul'[k] = c
        BY <2>1, <3>1
      <4>2. tabId'[P] = count
        BY <1>3 DEF MakeTab, IInv, TypeOK
      <4>3. href'[c] = count
        BY <1>1 DEF MakeTab, IInv, TypeOK
      <4>4. QED
        BY <4>1, <4>2, <4>3
    <3>2. CASE k \in 1..Len(ul)
      <4> DEFINE h == ul[k]
      <4>1. h \in H5Set(page) \ todo /\ h # c /\ h < c
        BY <1>1, <1>7, <3>2 DEF IInv
      <4>2. h < Panel(page, h) /\ Panel(page, h) < c
        BY <1>2, <1>7, <1>1, <4>1, WellFormedOwn, PanelBeforeNext
      <4>6. h \in 1..n
        BY <1>2, <4>1 DEF H5Set
      <4>7. Panel(page, h) \in (h + 1)..n
        <5>1. DivsAfter(page, h) # {}
          BY <1>7, <4>1 DEF WellFormed, H5Set
        <5>2. QED
          BY <1>2, <4>6, <5>1, PanelSpec DEF DivsAfter
      <4>3. Panel(page, h) \in Positions /\ Panel(page, h) # P
        BY <1>1, <1>2, <1>3, <4>2, <4>6, <4>7 DEF Positions
      <4>4. tabId'[Panel(page, h)] = tabId[Panel(page, h)] /\ href'[h] = href[h]
        BY <4>1, <4>3 DEF MakeTab
      <4>5. QED
        BY <1>7, <2>1, <3>2, <4>4 DEF IInv
    <3>3. QED
      BY <2>1, <3>1, <3>2
  <2>6. QED
    BY <2>3, <2>4, <2>5
<1>8. QED
  BY <1>4, <1>5, <1>6, <1>7 DEF IInv, MakeTab

LEMMA IInvNext == IInv /\ [Next]_vars => IInv'
<1> SUFFICES ASSUME IInv, [Next]_vars PROVE IInv'
  OBVIOUS
<1>1. CASE TabNoDiv
  BY <1>1, IInvNoDiv
<1>2. CASE TabNoLink
  BY <1>2, IInvNoLink
<1>3. CASE MakeTab
  BY <1>3, IInvMake
<1>4. CASE UNCHANGED vars
  <2>1. /\ page' = page /\ todo' = todo /\ inDiv' = inDiv /\ count' = count
        /\ tabId' = tabId /\ href' = href /\ ul' = ul
    BY <1>4 DEF vars
  <2>2. TypeOK'
    BY <2>1 DEF IInv, TypeOK
  <2>3. H5Set(page') = H5Set(page) /\ (WellFormed(page') <=> WellFormed(page))
    BY <2>1
  <2>4. \A h : Panel(page', h) = Panel(page, h)
    BY <2>1
  <2>5. QED
    BY <2>1, <2>2, <2>3, <2>4 DEF IInv
<1>5. QED
  BY <1>1, <1>2, <1>3, <1>4 DEF Next

LEMMA IInvMatch == IInv => TabsMatchPanels
<1> SUFFICES ASSUME IInv, WellFormed(page) PROVE TabsMatchPanels
  BY DEF TabsMatchPanels
<1>1. \A n \in 1..Len(ul) : tabId[Panel(page, ul[n])] = href[ul[n]]
  BY DEF IInv
<1>2. \A q, r \in Positions : q # r /\ tabId[q] # None => tabId[q] # tabId[r]
  BY DEF IInv
<1>3. todo = {} =>
        /\ {ul[n] : n \in 1..Len(ul)} = {q \in DOMAIN page : IsH5(page, q)}
        /\ inDiv = {}
  BY DEF IInv, H5Set
<1>4. QED
  BY <1>1, <1>2, <1>3 DEF TabsMatchPanels

(***************************************************************************)
(* For every bound on the div's children: on well-formed markup the tab    *)
(* bar onLoad builds links each heading to its own panel, the tab ids are  *)
(* distinct (i_TabCount advances on every panel it names), and at the end  *)
(* of the each() every heading's link is in the bar and none in the div.   *)
(***************************************************************************)
THEOREM TabsCorrect == Spec => []TabsMatchPanels
<1>1. Init => IInv
  BY IInvInit
<1>2. IInv /\ [Next]_vars => IInv'
  BY IInvNext
<1>3. IInv => TabsMatchPanels
  BY IInvMatch
<1>4. QED
  BY <1>1, <1>2, <1>3, PTL DEF Spec

-----------------------------------------------------------------------------
(***************************************************************************)
(* Markup where a heading may lack its link.  When every heading still has *)
(* its own panel, the visited headings' panels all hold ids, only they do, *)
(* the ids 0 .. count - 1 are all given out, the div keeps exactly the     *)
(* headings left and the visited ones without a link, and the bar holds    *)
(* visited headings only, each with its own panel's id.                    *)
(***************************************************************************)
OwnInv ==
    OwnPanels(page) =>
        /\ \A h \in H5Set(page) \ todo : tabId[Panel(page, h)] # None
        /\ \A q \in Positions :
              tabId[q] # None => \E h \in H5Set(page) \ todo : q = Panel(page, h)
        /\ \A i \in 0..(count - 1) : \E q \in Positions : tabId[q] = i
        /\ inDiv = todo \cup {h \in H5Set(page) \ todo : page[h] = "h5NoLink"}
        /\ \A k \in 1..Len(ul) :
              /\ ul[k] \in H5Set(page) \ todo
              /\ tabId[Panel(page, ul[k])] = href[ul[k]]

LEMMA OwnInit == Init => OwnInv
<1> SUFFICES ASSUME Init PROVE OwnInv
  OBVIOUS
<1>1. todo = H5Set(page) /\ count = 0 /\ ul = << >> /\ inDiv = todo
  BY DEF Init, H5Set
<1>2. \A q \in Positions : tabId[q] = None
  BY DEF Init
<1>3. QED
  BY <1>1, <1>2 DEF OwnInv

(***************************************************************************)
(* When every heading has its own panel, the heading visited next has a    *)
(* panel after it, beyond the panels of the headings already visited, and  *)
(* that panel has no id yet.                                               *)
(***************************************************************************)
LEMMA OwnCurrent ==
  ASSUME IInv, OwnInv, todo # {}, OwnPanels(page)
  PROVE  /\ DivsAfter(page, Current) # {}
         /\ Panel(page, Current) \in Positions
         /\ Current < Panel(page, Current)
         /\ \A h \in H5Set(page) \ todo :
               Panel(page, h) < Current /\ Panel(page, h) \in Positions
         /\ tabId[Panel(page, Current)] = None
<1>1. /\ Current \in todo /\ Current \in H5Set(page) /\ Current \in Positions
      /\ \A h \in H5Set(page) \ todo : h < Current
  BY CurrentFacts
<1>2. PICK n \in 0..MaxChildren : page \in [1..n -> Kinds] /\ Len(page) = n
  BY PageLen DEF IInv, TypeOK
<1>3. DivsAfter(page, Current) # {}
  BY <1>1 DEF OwnPanels, H5Set
<1>4. Panel(page, Current) \in (Current + 1)..n /\ Panel(page, Current) \in Positions
  BY <1>1, <1>2, <1>3, PanelSpec DEF DivsAfter, Positions
<1>5. \A h \in H5Set(page) \ todo :
         Panel(page, h) < Current /\ Panel(page, h) \in Positions
  <2> TAKE h \in H5Set(page) \ todo
  <2>1. h < Current /\ h \in 1..n
    BY <1>1, <1>2 DEF H5Set
  <2>2. Panel(page, h) \in (h + 1)..n
    <3>1. DivsAfter(page, h) # {}
      BY DEF OwnPanels, H5Set
    <3>2. QED
      BY <1>2, <2>1, <3>1, PanelSpec DEF DivsAfter
  <2>3. Panel(page, h) < Current
    BY <1>1, <1>2, <2>1, PanelBeforeNext
  <2>4. QED
    BY <1>1, <1>2, <2>1, <2>2, <2>3 DEF Positions
<1>6. tabId[Panel(page, Current)] = None
  <2>1. SUFFICES ASSUME tabId[Panel(page, Current)] # None PROVE FALSE
    OBVIOUS
  <2>2. PICK h \in H5Set(page) \ todo : Panel(page, Current) = Panel(page, h)
    BY <1>4, <2>1 DEF OwnInv
  <2>3. QED
    BY <1>1, <1>4, <1>5, <2>2 DEF Positions
<1>7. QED
  BY <1>1, <1>3, <1>4, <1>5, <1>6 DEF Positions

\* A heading with no panel after it cannot occur when every heading has one.
LEMMA OwnNoDiv == IInv /\ OwnInv /\ TabNoDiv => OwnInv'
<1> SUFFICES ASSUME IInv, OwnInv, TabNoDiv, OwnPanels(page) PROVE FALSE
  BY DEF OwnInv, TabNoDiv
<1>1. QED
  BY OwnCurrent DEF TabNoDiv


(***************************************************************************)
(* The throw after the panel's id is set: the panel takes the next id,     *)
(* which no panel held, and the heading stays in the div.                  *)
(***************************************************************************)
LEMMA OwnNoLink == IInv /\ OwnInv /\ TabNoLink => OwnInv'
<1> SUFFICES ASSUME IInv, OwnInv, TabNoLink, OwnPanels(page) PROVE OwnInv'
  BY DEF OwnInv, TabNoLink
<1> DEFINE P == Panel(page, Current)
           Old == H5Set(page) \ todo
<1>1. /\ Current \in todo /\ Current \in H5Set(page) /\ Current \in Positions
  BY CurrentFacts DEF TabNoLink
<1>2. /\ P \in Positions /\ tabId[P] = None
      /\ \A h \in Old : Panel(page, h) < Current /\ Panel(page, h) \in Positions
      /\ Current < P
  BY OwnCurrent DEF TabNoLink
<1>3. /\ page' = page /\ todo' = todo \ {Current} /\ count' = count + 1
      /\ tabId' = [tabId EXCEPT ![P] = count] /\ inDiv' = inDiv
      /\ href' = href /\ ul' = ul
  BY DEF TabNoLink
<1>4. H5Set(page') \ todo' = Old \cup {Current}
  BY <1>1, <1>3
<1>5. count \in Nat /\ tabId \in [Positions -> Nat \cup {None}]
  BY DEF IInv, TypeOK
<1>6. \A h \in Old : tabId'[Panel(page, h)] = tabId[Panel(page, h)]
  BY <1>1, <1>2, <1>3, <1>5 DEF Positions
<1>7. tabId'[P] = count /\ count # None
  BY <1>2, <1>3, <1>5, TabsAssumption
<1>8. \A h \in H5Set(page') \ todo' : tabId'[Panel(page', h)] # None
  BY <1>3, <1>4, <1>6, <1>7 DEF OwnInv
<1>9. \A q \in Positions :
         tabId'[q] # None => \E h \in H5Set(page') \ todo' : q = Panel(page', h)
  <2> TAKE q \in Positions
  <2>1. CASE q = P
    BY <1>3, <1>4, <2>1
  <2>2. CASE q # P
    <3>1. tabId'[q] = tabId[q]
      BY <1>3, <1>5, <2>2
    <3>2. QED
      BY <1>3, <1>4, <3>1 DEF OwnInv
  <2>3. QED
    BY <2>1, <2>2
<1>10. \A i \in 0..(count' - 1) : \E q \in Positions : tabId'[q] = i
  <2> TAKE i \in 0..(count' - 1)
  <2>1. CASE i = count
    BY <1>2, <1>7, <2>1
  <2>2. CASE i # count
    <3>1. PICK q \in Positions : tabId[q] = i
      BY <1>3, <1>5, <2>2 DEF OwnInv
    <3>2. q # P /\ i \in Nat
      BY <1>2, <1>3, <1>5, <2>2, <3>1, TabsAssumption
    <3>3. tabId'[q] = i
      BY <1>3, <1>5, <3>1, <3>2
    <3>4. QED
      BY <3>3
  <2>3. QED
    BY <2>1, <2>2
<1>11. inDiv' = todo' \cup {h \in H5Set(page') \ todo' : page'[h] = "h5NoLink"}
  BY <1>1, <1>3, <1>4 DEF OwnInv, TabNoLink
<1>12. \A k \in 1..Len(ul') :
          /\ ul'[k] \in H5Set(page') \ todo'
          /\ tabId'[Panel(page', ul'[k])] = href'[ul'[k]]
  BY <1>3, <1>4, <1>6 DEF OwnInv
<1>13. QED
  BY <1>8, <1>9, <1>10, <1>11, <1>12 DEF OwnInv


(***************************************************************************)
(* The whole iteration: the panel takes the next id, the link that names   *)
(* it joins the bar and the heading leaves the div.                        *)
(***************************************************************************)
LEMMA OwnMake == IInv /\ OwnInv /\ MakeTab => OwnInv'
<1> SUFFICES ASSUME IInv, OwnInv, MakeTab, OwnPanels(page) PROVE OwnInv'
  BY DEF OwnInv, MakeTab
<1> DEFINE P == Panel(page, Current)
           Old == H5Set(page) \ todo
<1>1. /\ Current \in todo /\ Current \in H5Set(page) /\ Current \in Positions
  BY CurrentFacts DEF MakeTab
<1>2. /\ P \in Positions /\ tabId[P] = None
      /\ \A h \in Old : Panel(page, h) < Current /\ Panel(page, h) \in Positions
      /\ Current < P
  BY OwnCurrent DEF MakeTab
<1>3. /\ page' = page /\ todo' = todo \ {Current} /\ count' = count + 1
      /\ tabId' = [tabId EXCEPT ![P] = count] /\ inDiv' = inDiv \ {Current}
      /\ href' = [href EXCEPT ![Current] = count] /\ ul' = Append(ul, Current)
      /\ page[Current] = "h5"
  BY DEF MakeTab
<1>4. H5Set(page') \ todo' = Old \cup {Current}
  BY <1>1, <1>3
<1>5. /\ count \in Nat /\ tabId \in [Positions -> Nat \cup {None}]
      /\ href \in [Positions -> Nat \cup {None}] /\ ul \in Seq(Positions)
  BY DEF IInv, TypeOK
<1>6. \A h \in Old : tabId'[Panel(page, h)] = tabId[Panel(page, h)]
  BY <1>1, <1>2, <1>3, <1>5 DEF Positions
<1>7. tabId'[P] = count /\ count # None
  BY <1>2, <1>3, <1>5, TabsAssumption
<1>8. \A h \in H5Set(page') \ todo' : tabId'[Panel(page', h)] # None
  BY <1>3, <1>4, <1>6, <1>7 DEF OwnInv
<1>9. \A q \in Positions :
         tabId'[q] # None => \E h \in H5Set(page') \ todo' : q = Panel(page', h)
  <2> TAKE q \in Positions
  <2>1. CASE q = P
    BY <1>3, <1>4, <2>1
  <2>2. CASE q # P
    <3>1. tabId'[q] = tabId[q]
      BY <1>3, <1>5, <2>2
    <3>2. QED
      BY <1>3, <1>4, <3>1 DEF OwnInv
  <2>3. QED
    BY <2>1, <2>2
<1>10. \A i \in 0..(count' - 1) : \E q \in Positions : tabId'[q] = i
  <2> TAKE i \in 0..(count' - 1)
  <2>1. CASE i = count
    BY <1>2, <1>7, <2>1
  <2>2. CASE i # count
    <3>1. PICK q \in Positions : tabId[q] = i
      BY <1>3, <1>5, <2>2 DEF OwnInv
    <3>2. q # P /\ i \in Nat
      BY <1>2, <1>3, <1>5, <2>2, <3>1, TabsAssumption
    <3>3. tabId'[q] = i
      BY <1>3, <1>5, <3>1, <3>2
    <3>4. QED
      BY <3>3
  <2>3. QED
    BY <2>1, <2>2
<1>11. inDiv' = todo' \cup {h \in H5Set(page') \ todo' : page'[h] = "h5NoLink"}
  BY <1>1, <1>3, <1>4 DEF OwnInv
<1>12. \A k \in 1..Len(ul') :
          /\ ul'[k] \in H5Set(page') \ todo'
          /\ tabId'[Panel(page', ul'[k])] = href'[ul'[k]]
  <2> TAKE k \in 1..Len(ul')
  <2>1. Len(ul') = Len(ul) + 1 /\ ul'[Len(ul) + 1] = Current
        /\ \A j \in 1..Len(ul) : ul'[j] = ul[j]
    BY <1>3, <1>5
  <2>2. CASE k = Len(ul) + 1
    <3>1. href'[Current] = count
      BY <1>1, <1>3, <1>5
    <3>2. QED
      BY <1>3, <1>4, <1>7, <2>1, <2>2, <3>1
  <2>3. CASE k \in 1..Len(ul)
    <3> DEFINE h == ul[k]
    <3>1. h \in Old /\ tabId[Panel(page, h)] = href[h]
      BY <2>3 DEF OwnInv
    <3>2. h # Current /\ h \in Positions
      BY <1>1, <1>5, <2>3, <3>1
    <3>3. href'[h] = href[h]
      BY <1>3, <1>5, <3>2
    <3>4. QED
      BY <1>3, <1>4, <1>6, <2>1, <2>3, <3>1, <3>3
  <2>4. QED
    BY <2>1, <2>2, <2>3
<1>13. QED
  BY <1>8, <1>9, <1>10, <1>11, <1>12 DEF OwnInv


LEMMA OwnNext == IInv /\ OwnInv /\ [Next]_vars => OwnInv'
<1> SUFFICES ASSUME IInv, OwnInv, [Next]_vars PROVE OwnInv'
  OBVIOUS
<1>1. CASE TabNoDiv
  BY <1>1, OwnNoDiv
<1>2. CASE TabNoLink
  BY <1>2, OwnNoLink
<1>3. CASE MakeTab
  BY <1>3, OwnMake
<1>4. CASE UNCHANGED vars
  <2>1. /\ page' = page /\ todo' = todo /\ inDiv' = inDiv /\ count' = count
        /\ tabId' = tabId /\ href' = href /\ ul' = ul
    BY <1>4 DEF vars
  <2>2. H5Set(page') = H5Set(page) /\ (OwnPanels(page') <=> OwnPanels(page))
    BY <2>1
  <2>3. \A h : Panel(page', h) = Panel(page, h)
    BY <2>1
  <2>4. QED
    BY <2>1, <2>2, <2>3 DEF OwnInv
<1>5. QED
  BY <1>1, <1>2, <1>3, <1>4 DEF Next

LEMMA OwnSurvive == IInv /\ OwnInv => TabsSurviveMissingLink
<1> SUFFICES ASSUME IInv, OwnInv, OwnPanels(page) PROVE TabsSurviveMissingLink
  BY DEF TabsSurviveMissingLink
<1>1. count \in Nat /\ tabId \in [Positions -> Nat \cup {None}]
  BY DEF IInv, TypeOK
<1>2. {tabId[q] : q \in {r \in Positions : tabId[r] # None}} = 0..(count - 1)
  <2>1. \A q \in Positions : tabId[q] # None => tabId[q] \in 0..(count - 1)
    BY <1>1 DEF IInv
  <2>2. \A i \in 0..(count - 1) : \E q \in Positions : tabId[q] = i /\ tabId[q] # None
    BY <1>1, TabsAssumption DEF OwnInv
  <2>3. QED
    BY <2>1, <2>2
<1>3. \A q, r \in Positions : q # r /\ tabId[q] # None => tabId[q] # tabId[r]
  BY DEF IInv
<1>4. \A n \in 1..Len(ul) : tabId[Panel(page, ul[n])] = href[ul[n]]
  BY DEF OwnInv
<1>5. \A h \in DOMAIN page :
         IsH5(page, h) /\ h \notin todo =>
             /\ h \in inDiv <=> page[h] = "h5NoLink"
             /\ tabId[Panel(page, h)] # None
  BY DEF OwnInv, H5Set
<1>6. QED
  BY <1>2, <1>3, <1>4, <1>5 DEF TabsSurviveMissingLink

(***************************************************************************)
(* For every bound on the div's children, on markup where every heading is *)
(* followed by its own panel but some headings lack their link: the throw  *)
(* half-way through a link-less heading leaves ids 0 .. i_TabCount - 1     *)
(* each on one panel, every link in the bar opens its own heading's panel, *)
(* and a visited heading stays in the div exactly when it has no link.     *)
(***************************************************************************)
THEOREM TabsSurvive == Spec => []TabsSurviveMissingLink
<1>1. Init => IInv /\ OwnInv
  BY IInvInit, OwnInit
<1>2. IInv /\ OwnInv /\ [Next]_vars => IInv' /\ OwnInv'
  BY IInvNext, OwnNext
<1>3. IInv /\ OwnInv => TabsSurviveMissingLink
  BY OwnSurvive
<1>4. QED
  BY <1>1, <1>2, <1>3, PTL DEF Spec

=============================================================================
