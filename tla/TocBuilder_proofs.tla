-------------------------- MODULE TocBuilder_proofs --------------------------
(***************************************************************************)
(* Proofs about TocBuilder: populateToc follows the document's outline     *)
(* whenever the outline never skips a level, for any document length and  *)
(* any number of heading levels.                                           *)
(***************************************************************************)
EXTENDS TocBuilder, WellFoundedInduction, TLAPS

USE TocAssumption

\* The largest element of a set of naturals (the CHOOSE of the module).
MaxNat(S) == CHOOSE k \in S : \A m \in S : m <= k

(***************************************************************************)
(* ar_TocItems' intended content: the latest valid heading of level l     *)
(* among the first n - 1 blocks; the "Table of content" entry for level 1, *)
(* undefined for a deeper level not seen yet.                              *)
(***************************************************************************)
LatestAt(d, l, n) ==
    LET S == {k \in 1..(n - 1) : Valid(d, k) /\ d[k] = l}
    IN  IF S = {} THEN (IF l = 1 THEN TocItem ELSE Undef) ELSE MaxNat(S)

-----------------------------------------------------------------------------
(* A non-empty set of naturals has a least element (from WFMin).          *)
LEMMA MinExists ==
  ASSUME NEW S \in SUBSET Nat, S # {}
  PROVE  \E x \in S : \A y \in S : x <= y
<1> DEFINE R == {ss \in Nat \X Nat : ss[1] < ss[2]}
<1>1. IsWellFoundedOn(R, Nat)
  BY NatLessThanWellFounded DEF OpToRel
<1>2. PICK x \in S : \A y \in S : ~(<<y, x>> \in R)
  BY <1>1, WFMin
<1>3. \A y \in S : x <= y
  <2> TAKE y \in S
  <2>1. ~(<<y, x>> \in R)
    BY <1>2
  <2>2. <<y, x>> \in Nat \X Nat
    OBVIOUS
  <2>3. ~(y < x)
    BY <2>1, <2>2 DEF R
  <2>4. QED
    BY <2>3
<1>4. QED
  BY <1>3

(* A non-empty set of naturals below a bound has a greatest element.      *)
LEMMA MaxNatSpec ==
  ASSUME NEW n \in Nat, NEW S \in SUBSET (0..n), S # {}
  PROVE  /\ MaxNat(S) \in S
         /\ \A m \in S : m <= MaxNat(S)
<1> DEFINE T == {n - s : s \in S}
<1>1. T \in SUBSET Nat /\ T # {}
  <2>1. \A s \in S : n - s \in Nat
    OBVIOUS
  <2>2. PICK s0 \in S : TRUE
    OBVIOUS
  <2>3. QED
    BY <2>1, <2>2 DEF T
<1>2. PICK t \in T : \A y \in T : t <= y
  BY <1>1, MinExists
<1>3. \E k \in S : \A m \in S : m <= k
  <2>1. PICK k \in S : t = n - k
    BY <1>2 DEF T
  <2>2. \A m \in S : m <= k
    <3> TAKE m \in S
    <3>1. n - m \in T
      BY DEF T
    <3>2. t <= n - m
      BY <1>2, <3>1
    <3>3. QED
      BY <2>1, <3>2
  <2>3. QED
    BY <2>2
<1>4. QED
  BY <1>3 DEF MaxNat

(* A greatest element is the one MaxNat picks.                            *)
LEMMA MaxNatIs ==
  ASSUME NEW n \in Nat, NEW S \in SUBSET (0..n), NEW k \in S,
         \A m \in S : m <= k
  PROVE  MaxNat(S) = k
<1>1. MaxNat(S) \in S /\ \A m \in S : m <= MaxNat(S)
  BY MaxNatSpec
<1>2. MaxNat(S) \in 0..n /\ k \in 0..n
  BY <1>1
<1>3. MaxNat(S) <= k /\ k <= MaxNat(S)
  BY <1>1
<1>4. QED
  BY <1>2, <1>3

(* One more block: LatestAt moves to it when it is a valid heading of the *)
(* level, and stays put otherwise.                                         *)
LEMMA LatestStep ==
  ASSUME NEW d, NEW l, NEW n \in Nat \ {0}
  PROVE  LatestAt(d, l, n + 1) =
             IF Valid(d, n) /\ d[n] = l THEN n ELSE LatestAt(d, l, n)
<1> DEFINE S0 == {k \in 1..(n - 1) : Valid(d, k) /\ d[k] = l}
           S1 == {k \in 1..n : Valid(d, k) /\ d[k] = l}
<1>1. LatestAt(d, l, n + 1) =
          IF S1 = {} THEN (IF l = 1 THEN TocItem ELSE Undef) ELSE MaxNat(S1)
  <2>1. (n + 1) - 1 = n
    OBVIOUS
  <2>2. QED
    BY <2>1 DEF LatestAt
<1>2. LatestAt(d, l, n) =
          IF S0 = {} THEN (IF l = 1 THEN TocItem ELSE Undef) ELSE MaxNat(S0)
  BY DEF LatestAt
<1>3. CASE Valid(d, n) /\ d[n] = l
  <2>1. n \in S1 /\ S1 \in SUBSET (0..n) /\ \A m \in S1 : m <= n
    BY <1>3
  <2>2. MaxNat(S1) = n
    BY <2>1, MaxNatIs
  <2>3. QED
    BY <1>1, <1>3, <2>1, <2>2
<1>4. CASE ~(Valid(d, n) /\ d[n] = l)
  <2>1. S1 = S0
    BY <1>4
  <2>2. QED
    BY <1>1, <1>2, <1>4, <2>1
<1>5. QED
  BY <1>3, <1>4

(***************************************************************************)
(* On an outline that never skips a level, the latest heading of the level *)
(* just above heading j is the heading that encloses j.  The nearest       *)
(* enclosing heading k has a smaller level; the first valid heading f      *)
(* after k is no shallower than j and, not skipping, at most one level     *)
(* below k, so k is exactly one level above j, and no later heading of     *)
(* that level precedes j.  With no enclosing heading, the first valid      *)
(* heading is at level 2 and no shallower than j, so j is at level 2.      *)
(***************************************************************************)
LEMMA OutlineLemma ==
  ASSUME NEW n \in Nat, NEW d \in [1..n -> Headings], WellNested(d),
         NEW j \in 1..n, Valid(d, j)
  PROVE  LatestAt(d, d[j] - 1, j) = Enclosing(d, j)
<1>1. \A k \in 1..n : Valid(d, k) => d[k] \in Nat /\ d[k] >= 2
  BY DEF Valid, Headings
<1>2. \A k \in 1..n : Valid(d, k) => d[k] <= PrevLevel(d, k) + 1
  BY DEF WellNested
<1>3. d[j] \in Nat /\ d[j] >= 2
  BY <1>1
<1>4. CASE Enclosers(d, j) = {}
  <2>1. Enclosing(d, j) = TocItem
    BY <1>4 DEF Enclosing
  <2>2. d[j] = 2
    <3> DEFINE P == {k \in 1..(j - 1) : Valid(d, k)}
<3> USE DEF P
    <3>1. SUFFICES ASSUME d[j] # 2 PROVE FALSE
      OBVIOUS
    <3>2. d[j] >= 3
      BY <1>3, <3>1
    <3>3. CASE P = {}
      <4>1. PrevLevel(d, j) = 1
        BY <3>3 DEF PrevLevel
      <4>2. d[j] <= PrevLevel(d, j) + 1
        BY <1>2
      <4>3. d[j] <= 2
        BY <4>1, <4>2
      <4>4. QED
        BY <1>3, <3>2, <4>3
    <3>4. CASE P # {}
      <4>0. P \in SUBSET Nat
        OBVIOUS
      <4>1. PICK f \in P : \A y \in P : f <= y
        BY <3>4, <4>0, MinExists, Zenon
      <4>2. {k \in 1..(f - 1) : Valid(d, k)} = {}
        <5>1. f \in 1..(j - 1)
          BY <4>1
        <5>2. SUFFICES ASSUME NEW k \in 1..(f - 1), Valid(d, k) PROVE FALSE
          OBVIOUS
        <5>3. k \in P
          BY <5>1, <5>2
        <5>4. QED
          BY <4>1, <5>1, <5>3
      <4>3. PrevLevel(d, f) = 1
        BY <4>2 DEF PrevLevel
      <4>4. d[f] <= 2
        BY <1>2, <4>3
      <4>5. ~(d[f] < d[j])
        BY <1>4 DEF Enclosers
      <4>6. QED
        BY <1>1, <3>2, <4>4, <4>5
    <3>5. QED
      BY <3>3, <3>4
  <2>3. LatestAt(d, 1, j) = TocItem
    BY <1>1 DEF LatestAt
  <2>4. QED
    BY <2>1, <2>2, <2>3
<1>5. CASE Enclosers(d, j) # {}
  <2>0. Enclosers(d, j) \in SUBSET (0..j)
    BY DEF Enclosers
  <2>1. PICK k \in Enclosers(d, j) : \A m \in Enclosers(d, j) : m <= k
    <3>1. /\ MaxNat(Enclosers(d, j)) \in Enclosers(d, j)
          /\ \A m \in Enclosers(d, j) : m <= MaxNat(Enclosers(d, j))
      <4>1. j \in Nat
        OBVIOUS
      <4>2. QED
        BY <1>5, <2>0, <4>1, MaxNatSpec, Zenon
    <3>2. QED
      BY <3>1
  <2>2. Enclosing(d, j) = k
    <3>1. MaxNat(Enclosers(d, j)) = k
      <4>1. j \in Nat
        OBVIOUS
      <4>2. QED
        BY <2>0, <2>1, <4>1, MaxNatIs, Zenon
    <3>2. QED
      BY <1>5, <3>1, Zenon DEF Enclosing, MaxNat
  <2>3. k \in 1..(j - 1) /\ Valid(d, k) /\ d[k] < d[j]
    BY <2>1 DEF Enclosers
  <2>4. d[k] = d[j] - 1
    <3> DEFINE Q == {m \in (k + 1)..j : Valid(d, m)}
<3> USE DEF Q
    <3>1. j \in Q
      BY <2>3
    <3>2. PICK f \in Q : \A y \in Q : f <= y
      <4>1. Q \in SUBSET Nat
        BY <2>3
      <4>2. QED
        BY <3>1, <4>1, MinExists, Zenon
    <3>9. f \in 1..n /\ Valid(d, f) /\ k < f /\ f <= j /\ d[f] \in Nat
      BY <1>1, <2>3, <3>2
    <3> DEFINE Pf == {m \in 1..(f - 1) : Valid(d, m)}
<3> USE DEF Pf
    <3>3. k \in Pf /\ \A m \in Pf : m <= k
      BY <2>3, <3>2
    <3>4. MaxNat(Pf) = k
      <4>1. Pf \in SUBSET (0..f) /\ f \in Nat
        BY <3>9
      <4>2. QED
        BY <3>3, <4>1, MaxNatIs, Zenon
    <3>5. PrevLevel(d, f) = d[k]
      <4>1. Pf # {}
        BY <3>3
      <4>2. PrevLevel(d, f) = d[MaxNat(Pf)]
        BY <4>1 DEF PrevLevel, MaxNat
      <4>3. QED
        BY <3>4, <4>2
    <3>6. d[f] <= d[k] + 1
      BY <1>2, <3>9, <3>5
    <3>7. d[f] >= d[j]
      <4>1. CASE f = j
        BY <1>3, <4>1
      <4>2. CASE f # j
        <5>1. SUFFICES ASSUME d[f] < d[j] PROVE FALSE
          BY <1>3, <3>9
        <5>2. f \in Enclosers(d, j)
          BY <3>2, <4>2, <5>1 DEF Enclosers
        <5>3. QED
          BY <2>1, <3>2, <5>2
      <4>3. QED
        BY <4>1, <4>2
    <3>8. QED
      BY <1>1, <1>3, <2>3, <3>2, <3>6, <3>7
  <2>5. LatestAt(d, d[j] - 1, j) = k
    <3> DEFINE S == {m \in 1..(j - 1) : Valid(d, m) /\ d[m] = d[j] - 1}
<3> USE DEF S
    <3>1. k \in S
      BY <2>3, <2>4
    <3>2. \A m \in S : m <= k
      BY <1>1, <1>3, <2>1 DEF Enclosers
    <3>3. MaxNat(S) = k
      <4>1. S \in SUBSET (0..j) /\ j \in Nat
        OBVIOUS
      <4>2. QED
        BY <3>1, <3>2, <4>1, MaxNatIs, Zenon
    <3>4. QED
      BY <3>1, <3>3 DEF LatestAt
  <2>6. QED
    BY <2>2, <2>5
<1>6. QED
  BY <1>4, <1>5

(* A document is a sequence of title blocks of its own length.            *)
LEMMA DocLen ==
  ASSUME NEW d \in Docs
  PROVE  \E n \in 0..MaxHeadings : d \in [1..n -> Headings] /\ Len(d) = n
<1>1. PICK n \in 0..MaxHeadings : d \in [1..n -> Headings]
  BY DEF Docs
<1>2. d \in Seq(Headings)
  BY <1>1
<1>3. Len(d) = n
  BY <1>1, <1>2
<1>4. QED
  BY <1>1, <1>3

-----------------------------------------------------------------------------
(***************************************************************************)
(* The inductive invariant: ar_TocItems holds, for each level, the latest  *)
(* heading of that level among the blocks visited, and each visited valid  *)
(* heading's parent is the latest heading one level up when it was        *)
(* visited.  The outline property follows by OutlineLemma.                 *)
(***************************************************************************)
IInv ==
    /\ TypeOK
    /\ i <= Len(doc) + 1
    /\ \A l \in 0..(MaxLevel - 1) : ar[l] = LatestAt(doc, l + 1, i)
    /\ \A j \in 1..(i - 1) :
          Valid(doc, j) => parentOf[j] = LatestAt(doc, doc[j] - 1, j)

LEMMA IInvInit == Init => IInv
<1> SUFFICES ASSUME Init PROVE IInv
  OBVIOUS
<1>1. PICK n \in 0..MaxHeadings : doc \in [1..n -> Headings] /\ Len(doc) = n
  BY DocLen DEF Init
<1>2. TypeOK
  BY DEF Init, TypeOK, TocItem
<1>3. \A l \in 0..(MaxLevel - 1) : ar[l] = LatestAt(doc, l + 1, i)
  BY DEF Init, LatestAt, TocItem
<1>4. QED
  BY <1>1, <1>2, <1>3 DEF Init, IInv

LEMMA IInvSkip == IInv /\ SkipTitle => IInv'
<1> SUFFICES ASSUME IInv, SkipTitle PROVE IInv'
  OBVIOUS
<1>1. i \in Nat \ {0} /\ i <= Len(doc)
  BY DEF IInv, TypeOK, SkipTitle
<1>2. \A l \in 0..(MaxLevel - 1) : ar'[l] = LatestAt(doc, l + 1, i + 1)
  <2> TAKE l \in 0..(MaxLevel - 1)
  <2>1. LatestAt(doc, l + 1, i + 1) =
            IF Valid(doc, i) /\ doc[i] = l + 1 THEN i ELSE LatestAt(doc, l + 1, i)
    BY <1>1, LatestStep, Zenon
  <2>2. QED
    BY <2>1 DEF SkipTitle, IInv
<1>3. TypeOK'
  <2>1. PICK n \in 0..MaxHeadings : doc \in [1..n -> Headings] /\ Len(doc) = n
    BY DocLen DEF IInv, TypeOK
  <2>2. QED
    BY <1>1, <2>1 DEF IInv, TypeOK, SkipTitle
<1>4. \A j \in 1..i : Valid(doc, j) => parentOf'[j] = LatestAt(doc, doc[j] - 1, j)
  BY <1>1 DEF IInv, SkipTitle
<1>5. QED
  <2>1. i' = i + 1 /\ doc' = doc
    BY DEF SkipTitle
  <2>2. i + 1 <= Len(doc) + 1
    BY <1>1, <2>1 DEF IInv, TypeOK
  <2>3. QED
    BY <1>1, <1>2, <1>3, <1>4, <2>1, <2>2 DEF IInv

LEMMA IInvAdd == IInv /\ AddTocItem => IInv'
<1> SUFFICES ASSUME IInv, AddTocItem PROVE IInv'
  OBVIOUS
<1>1. PICK n \in 0..MaxHeadings : doc \in [1..n -> Headings] /\ Len(doc) = n
  BY DocLen DEF IInv, TypeOK
<1>2. i \in 1..n /\ doc[i] \in 2..MaxLevel
  BY <1>1 DEF IInv, TypeOK, AddTocItem, Valid, Headings
<1>3. TypeOK'
  <2>1. doc' \in Docs /\ i' \in 1..(MaxHeadings + 1)
    BY <1>1, <1>2 DEF IInv, TypeOK, AddTocItem
  <2>2. doc[i] - 2 \in 0..(MaxLevel - 1) /\ doc[i] - 1 \in 0..(MaxLevel - 1)
    BY <1>2
  <2>3. ar' \in [0..(MaxLevel - 1) -> (0..MaxHeadings) \cup {Undef}]
    <3>1. i \in 0..MaxHeadings
      BY <1>1, <1>2
    <3>2. QED
      BY <2>2, <3>1 DEF IInv, TypeOK, AddTocItem
  <2>4. parentOf' \in [1..MaxHeadings -> (0..MaxHeadings) \cup {Undef, NotCreated}]
    <3>1. ar[doc[i] - 2] \in (0..MaxHeadings) \cup {Undef}
      BY <2>2 DEF IInv, TypeOK
    <3>2. QED
      BY <3>1 DEF IInv, TypeOK, AddTocItem
  <2>5. QED
    BY <2>1, <2>3, <2>4 DEF TypeOK
<1>4. \A l \in 0..(MaxLevel - 1) : ar'[l] = LatestAt(doc, l + 1, i + 1)
  <2> TAKE l \in 0..(MaxLevel - 1)
  <2>1. LatestAt(doc, l + 1, i + 1) =
            IF Valid(doc, i) /\ doc[i] = l + 1 THEN i ELSE LatestAt(doc, l + 1, i)
    <3>1. i \in Nat \ {0}
      BY <1>2
    <3>2. QED
      BY <3>1, LatestStep, Zenon
  <2>2. CASE l = doc[i] - 1
    BY <1>2, <2>1, <2>2 DEF AddTocItem, IInv, TypeOK
  <2>3. CASE l # doc[i] - 1
    BY <1>2, <2>1, <2>3 DEF AddTocItem, IInv, TypeOK
  <2>4. QED
    BY <2>2, <2>3
<1>5. \A j \in 1..i : Valid(doc, j) => parentOf'[j] = LatestAt(doc, doc[j] - 1, j)
  <2> TAKE j \in 1..i
  <2>1. CASE j = i
    <3>1. parentOf'[i] = ar[doc[i] - 2]
      BY <1>2 DEF AddTocItem, IInv, TypeOK
    <3>2. ar[doc[i] - 2] = LatestAt(doc, doc[i] - 1, i)
      BY <1>2 DEF IInv
    <3>3. QED
      BY <2>1, <3>1, <3>2
  <2>2. CASE j # i
    BY <1>2, <2>2 DEF AddTocItem, IInv, TypeOK
  <2>3. QED
    BY <2>1, <2>2
<1>6. QED
  BY <1>1, <1>2, <1>3, <1>4, <1>5 DEF IInv, AddTocItem

LEMMA IInvNext == IInv /\ [Next]_vars => IInv'
<1> SUFFICES ASSUME IInv, [Next]_vars PROVE IInv'
  OBVIOUS
<1>1. CASE SkipTitle
  BY <1>1, IInvSkip
<1>2. CASE AddTocItem
  BY <1>2, IInvAdd
<1>3. CASE UNCHANGED vars
  BY <1>3 DEF IInv, TypeOK, vars
<1>4. QED
  BY <1>1, <1>2, <1>3 DEF Next

\* populateToc's state stays within its types: TypeOK holds in every state.
THEOREM TypeCorrect == Spec => []TypeOK
<1>1. Init => IInv
  BY IInvInit
<1>2. IInv /\ [Next]_vars => IInv'
  BY IInvNext
<1>3. IInv => TypeOK
  BY DEF IInv
<1>4. QED
  BY <1>1, <1>2, <1>3, PTL DEF Spec

\* The invariant gives the outline property: parentOf[j] is the latest
\* heading one level up, which OutlineLemma shows is the enclosing one.
LEMMA IInvOutline == IInv => TocFollowsOutline
<1> SUFFICES ASSUME IInv, WellNested(doc), NEW j \in 1..(i - 1), Valid(doc, j)
             PROVE  parentOf[j] = Enclosing(doc, j)
  BY DEF TocFollowsOutline
<1>1. PICK n \in 0..MaxHeadings : doc \in [1..n -> Headings] /\ Len(doc) = n
  BY DocLen DEF IInv, TypeOK
<1>2. j \in 1..n /\ n \in Nat
  BY <1>1 DEF IInv, TypeOK
<1>3. LatestAt(doc, doc[j] - 1, j) = Enclosing(doc, j)
  BY <1>1, <1>2, OutlineLemma, Zenon
<1>4. QED
  BY <1>3 DEF IInv

(***************************************************************************)
(* For every bound on the levels and on the headings: on a document whose  *)
(* outline never skips a level, populateToc's ar_TocItems lookup puts      *)
(* every heading's menu item under the item of its enclosing section.      *)
(***************************************************************************)
THEOREM TocOutline == Spec => []TocFollowsOutline
<1>1. Init => IInv
  BY IInvInit
<1>2. IInv /\ [Next]_vars => IInv'
  BY IInvNext
<1>3. IInv => TocFollowsOutline
  BY IInvOutline
<1>4. QED
  BY <1>1, <1>2, <1>3, PTL DEF Spec

=============================================================================
