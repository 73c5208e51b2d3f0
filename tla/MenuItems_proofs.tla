-------------------------- MODULE MenuItems_proofs --------------------------
(***************************************************************************)
(* Proofs about MenuItems: type correctness, and that every createItem     *)
(* leaves each item's zIndex equal to the height of its subtree and its    *)
(* sub-list UL below its link, for any set of items.                       *)
(***************************************************************************)
EXTENDS MenuItems, TLAPS

(***************************************************************************)
(* The loop invariant.  Between handlers it is ZIndexIsHeight and          *)
(* UlBelowLink; during the loop the item p_Item (cur) is exempt, because   *)
(* its child on the walked chain has just been raised to i_zIndex.  What   *)
(* is known of cur is what the next iteration needs: every child is either *)
(* at most i_zIndex or already below cur, some child sits exactly at       *)
(* i_zIndex (unless cur is the new item), and cur's UL is at most          *)
(* i_zIndex.                                                               *)
(***************************************************************************)
ParentsCreated ==
    /\ cur \in items \cup {Null}
    /\ \A c \in items : parent[c] \in (items \ {c}) \cup {Null}

AboveExceptCur ==
    \A c \in items : parent[c] # Null /\ parent[c] # cur => z[parent[c]] > z[c]

TightExceptCur ==
    \A x \in items \ {cur} :
        /\ z[x] >= 1
        /\ z[x] = 1 \/ \E c \in Children(x) : z[x] = z[c] + 1

UlExceptCur ==
    \A x \in items \ {cur} : zUl[x] < z[x]

CurInv ==
    cur # Null =>
        /\ zUl[cur] <= iz
        /\ \A c \in Children(cur) : z[c] <= iz \/ z[c] < z[cur]
        /\ iz = 0 \/ \E c \in Children(cur) : z[c] = iz
        /\ z[cur] > iz => z[cur] = 1 \/ \E c \in Children(cur) : z[cur] = z[c] + 1

IInv ==
    /\ TypeOK
    /\ ParentsCreated
    /\ AboveExceptCur
    /\ TightExceptCur
    /\ UlExceptCur
    /\ CurInv

-----------------------------------------------------------------------------
USE NullAssumption

(* createItem and each loop iteration keep every variable in its type.    *)
THEOREM TypeCorrect == Spec => []TypeOK
<1>1. Init => TypeOK
  BY DEF Init, TypeOK
<1>2. TypeOK /\ [Next]_vars => TypeOK'
  <2> SUFFICES ASSUME TypeOK, [Next]_vars PROVE TypeOK'
    OBVIOUS
  <2>1. ASSUME NEW x \in Items, NEW p \in Items \cup {Null}, CreateItem(x, p)
        PROVE TypeOK'
    BY <2>1 DEF CreateItem, TypeOK, Idle
  <2>2. CASE RaiseZIndex
    <3>1. cur \in Items /\ parent[cur] \in Items \cup {Null}
      BY <2>2 DEF RaiseZIndex, TypeOK
    <3>2. CASE parent[cur] = Null
      BY <2>2, <3>1, <3>2 DEF RaiseZIndex, TypeOK
    <3>3. CASE parent[cur] # Null
      BY <2>2, <3>1, <3>3 DEF RaiseZIndex, TypeOK
    <3>4. QED
      BY <3>2, <3>3
  <2>3. CASE StopRaising
    BY <2>3 DEF StopRaising, TypeOK
  <2>4. CASE UNCHANGED vars
    BY <2>4 DEF vars, TypeOK
  <2>5. QED
    BY <2>1, <2>2, <2>3, <2>4 DEF Next
<1>3. QED
  BY <1>1, <1>2, PTL DEF Spec

(* The loop invariant holds initially and is kept by every step.          *)
LEMMA IInvInit == Init => IInv
  BY NullAssumption DEF Init, IInv, TypeOK, ParentsCreated, AboveExceptCur,
                        TightExceptCur, UlExceptCur, CurInv

LEMMA IInvCreate ==
  ASSUME IInv, NEW x \in Items, NEW p \in Items \cup {Null}, CreateItem(x, p)
  PROVE  IInv'
<1> USE NullAssumption DEF CreateItem, Idle, Children
<1>1. TypeOK'
  BY DEF IInv, TypeOK
<1>2. ParentsCreated'
  BY DEF IInv, TypeOK, ParentsCreated
<1>3. \A c \in items : parent[c] # x
  BY DEF IInv, TypeOK, ParentsCreated
<1>4. AboveExceptCur'
  BY <1>3 DEF IInv, TypeOK, AboveExceptCur, TightExceptCur
<1>5. TightExceptCur'
  BY <1>3 DEF IInv, TypeOK, TightExceptCur
<1>6. UlExceptCur'
  BY DEF IInv, TypeOK, UlExceptCur
<1>7. CurInv'
  BY <1>3 DEF IInv, TypeOK, CurInv
<1>8. QED
  BY <1>1, <1>2, <1>4, <1>5, <1>6, <1>7 DEF IInv, TypeOK

(* What one raising iteration writes, with its IF taken apart.            *)
LEMMA RaiseFrame ==
  ASSUME TypeOK, ParentsCreated, RaiseZIndex
  PROVE  LET p == parent[cur] IN
         /\ cur \in items
         /\ p \in (items \ {cur}) \cup {Null}
         /\ z' = [z EXCEPT ![cur] = iz + 1]
         /\ iz' = iz + 1
         /\ cur' = p
         /\ items' = items /\ parent' = parent
         /\ zUl' \in [Items -> Nat]
         /\ zUl'[cur] = iz
         /\ p # Null => zUl'[p] = iz + 1
         /\ \A y \in Items \ {cur, p} : zUl'[y] = zUl[y]
<1>1. cur \in items /\ parent[cur] \in (items \ {cur}) \cup {Null}
  BY DEF RaiseZIndex, TypeOK, ParentsCreated
<1>2. CASE parent[cur] = Null
  BY <1>1, <1>2 DEF RaiseZIndex, TypeOK
<1>3. CASE parent[cur] # Null
  BY <1>1, <1>3 DEF RaiseZIndex, TypeOK
<1>4. QED
  BY <1>2, <1>3

LEMMA IInvRaise ==
  ASSUME IInv, RaiseZIndex
  PROVE  IInv'
<1> DEFINE p == parent[cur]
<1>0. /\ cur \in items
      /\ p \in (items \ {cur}) \cup {Null}
      /\ z' = [z EXCEPT ![cur] = iz + 1]
      /\ iz' = iz + 1
      /\ cur' = p
      /\ items' = items /\ parent' = parent
      /\ zUl' \in [Items -> Nat]
      /\ zUl'[cur] = iz
      /\ p # Null => zUl'[p] = iz + 1
      /\ \A y \in Items \ {cur, p} : zUl'[y] = zUl[y]
  BY RaiseFrame DEF IInv, TypeOK
<1>1. z[cur] <= iz
  BY DEF RaiseZIndex
<1> USE DEF Children
<1>2. TypeOK'
  BY <1>0 DEF IInv, TypeOK, RaiseZIndex
<1>3. ParentsCreated'
  BY <1>0 DEF IInv, TypeOK, ParentsCreated
<1>4. \A c \in Children(cur) : z[c] <= iz
  BY <1>0, <1>1 DEF IInv, CurInv, TypeOK
<1>5. AboveExceptCur'
  BY <1>0, <1>4 DEF IInv, TypeOK, AboveExceptCur
<1>6. TightExceptCur'
  <2>1. z'[cur] >= 1 /\ (z'[cur] = 1 \/ \E c \in Children(cur) : z'[cur] = z'[c] + 1)
    <3>1. CASE iz = 0
      BY <1>0, <3>1 DEF IInv, TypeOK
    <3>2. CASE iz # 0
      <4>1. PICK c \in Children(cur) : z[c] = iz
        BY <1>0, <3>2 DEF IInv, TypeOK, CurInv
      <4>2. c # cur
        BY <1>0 DEF IInv, TypeOK, ParentsCreated
      <4>3. QED
        BY <1>0, <4>1, <4>2 DEF IInv, TypeOK
    <3>3. QED
      BY <3>1, <3>2
  <2>2. ASSUME NEW y \in items \ {cur, p}
        PROVE  z'[y] >= 1 /\ (z'[y] = 1 \/ \E c \in Children(y) : z'[y] = z'[c] + 1)
    <3>1. \A c \in Children(y) : c # cur
      BY <1>0 DEF IInv, TypeOK
    <3>2. QED
      BY <1>0, <3>1 DEF IInv, TypeOK, TightExceptCur
  <2>3. QED
    BY <1>0, <2>1, <2>2 DEF TightExceptCur
<1>7. UlExceptCur'
  <2>1. zUl'[cur] < z'[cur]
    BY <1>0 DEF IInv, TypeOK
  <2>2. \A y \in items \ {cur, p} : zUl'[y] < z'[y]
    BY <1>0 DEF IInv, TypeOK, UlExceptCur
  <2>3. QED
    BY <1>0, <2>1, <2>2 DEF UlExceptCur
<1>8. CurInv'
  <2>1. CASE p = Null
    BY <1>0, <2>1 DEF CurInv
  <2>2. CASE p # Null
    <3>1. p \in items \ {cur} /\ z[p] > z[cur] /\ cur \in Children(p)
      BY <1>0, <2>2 DEF IInv, AboveExceptCur, TypeOK
    <3>2. zUl'[p] <= iz'
      BY <1>0, <2>2 DEF IInv, TypeOK
    <3>3. \A c \in Children(p) : z'[c] <= iz' \/ z'[c] < z'[p]
      BY <1>0, <1>1, <3>1 DEF IInv, TypeOK, AboveExceptCur
    <3>4. \E c \in Children(p) : z'[c] = iz'
      BY <1>0, <3>1 DEF IInv, TypeOK
    <3>5. z'[p] > iz' => z'[p] = 1 \/ \E c \in Children(p) : z'[p] = z'[c] + 1
      <4> SUFFICES ASSUME z[p] > iz + 1
                   PROVE  \E c \in Children(p) : z'[p] = z'[c] + 1
        BY <1>0, <3>1 DEF IInv, TypeOK
      <4>1. z[p] # 1
        BY <1>0 DEF IInv, TypeOK
      <4>2. PICK c \in Children(p) : z[p] = z[c] + 1
        BY <3>1, <4>1 DEF IInv, TypeOK, TightExceptCur
      <4>3. c # cur
        BY <1>0, <1>1, <4>2 DEF IInv, TypeOK
      <4>4. QED
        BY <1>0, <3>1, <4>2, <4>3 DEF IInv, TypeOK
    <3>6. QED
      BY <1>0, <2>2, <3>2, <3>3, <3>4, <3>5 DEF CurInv
  <2>3. QED
    BY <2>1, <2>2
<1>9. QED
  BY <1>2, <1>3, <1>5, <1>6, <1>7, <1>8 DEF IInv, TypeOK

LEMMA IInvStop ==
  ASSUME IInv, StopRaising
  PROVE  IInv'
<1> USE DEF StopRaising, Children
<1>1. cur \in items /\ z[cur] > iz
  BY DEF IInv, TypeOK, ParentsCreated
<1>2. TypeOK' /\ ParentsCreated'
  BY DEF IInv, TypeOK, ParentsCreated
<1>3. AboveExceptCur'
  BY <1>1 DEF IInv, TypeOK, AboveExceptCur, CurInv
<1>4. TightExceptCur'
  BY <1>1 DEF IInv, TypeOK, TightExceptCur, CurInv
<1>5. UlExceptCur'
  BY <1>1 DEF IInv, TypeOK, UlExceptCur, CurInv
<1>6. CurInv'
  BY NullAssumption DEF CurInv
<1>7. QED
  BY <1>2, <1>3, <1>4, <1>5, <1>6 DEF IInv, TypeOK

LEMMA IInvStep == IInv /\ [Next]_vars => IInv'
<1> SUFFICES ASSUME IInv, [Next]_vars PROVE IInv'
  OBVIOUS
<1>1. CASE \E x \in Items, p \in Items \cup {Null} : CreateItem(x, p)
  BY <1>1, IInvCreate
<1>2. CASE RaiseZIndex
  BY <1>2, IInvRaise
<1>3. CASE StopRaising
  BY <1>3, IInvStop
<1>4. CASE UNCHANGED vars
  BY <1>4 DEF vars, IInv, TypeOK, ParentsCreated, AboveExceptCur,
              TightExceptCur, UlExceptCur, CurInv, Children
<1>5. QED
  BY <1>1, <1>2, <1>3, <1>4 DEF Next

(***************************************************************************)
(* Between createItem calls every item's zIndex is the height of its       *)
(* subtree (so a parent always stacks above its children), and every       *)
(* item's sub-list UL stacks below its own link.                           *)
(***************************************************************************)
THEOREM ZIndexCorrect == Spec => [](ZIndexIsHeight /\ UlBelowLink)
<1>1. IInv => ZIndexIsHeight /\ UlBelowLink
  BY NullAssumption DEF IInv, TypeOK, ZIndexIsHeight, UlBelowLink, Idle, ParentAboveChild,
         HeightIsTight, AboveExceptCur, TightExceptCur, UlExceptCur, TypeOK
<1>2. QED
  BY <1>1, IInvInit, IInvStep, PTL DEF Spec

(***************************************************************************)
(* In particular, after every createItem each sub-list UL stacks below its *)
(* item's link, whichever of the two loop iterations wrote it last.        *)
(***************************************************************************)
THEOREM UlBelowLinkHolds == Spec => []UlBelowLink
  BY ZIndexCorrect, PTL

=============================================================================
