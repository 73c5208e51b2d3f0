-------------------------- MODULE ChangesScan_proofs --------------------------
(***************************************************************************)
(* Proofs about populateChanges' scan of a revision-history table, for     *)
(* every bound on the table's rows.                                        *)
(***************************************************************************)
EXTENDS ChangesScan, FiniteSetTheorems, SequenceTheorems, TLAPS

USE ScanAssumption

\* The title/details pairs among the rows the loop has passed.
Found == {k \in 1..(i - 1) : k % 2 = 1 /\ IsChange(rows, k)}

(***************************************************************************)
(* The loop's invariant: i stays odd and within the table, the items made  *)
(* so far are exactly the pairs passed, one item each, and the table is    *)
(* removed only once the loop test has failed.                             *)
(***************************************************************************)
IInv ==
    /\ TypeOK
    /\ i % 2 = 1
    /\ i <= NRows(rows) \/ i = 1
    /\ removed => ~(i + 1 < NRows(rows))
    /\ {changes[n] : n \in DOMAIN changes} = Found
    /\ IsFiniteSet(Found)
    /\ Len(changes) = Cardinality(Found)

\* A table's rows are numbered 0..n - 1 and it has n of them.
LEMMA TableRows ==
  ASSUME NEW t \in Tables
  PROVE  \E n \in 0..MaxRows : t \in [0..(n - 1) -> Cells] /\ NRows(t) = n
<1>1. PICK n \in 0..MaxRows : t \in [0..(n - 1) -> Cells]
  BY DEF Tables
<1>2. Cardinality(0..(n - 1)) = n
  BY FS_Interval
<1>3. QED
  BY <1>1, <1>2 DEF NRows

LEMMA IInvInit == Init => IInv
<1> SUFFICES ASSUME Init PROVE IInv
  OBVIOUS
<1>1. Found = {}
  BY DEF Init, Found
<1>2. PICK n \in 0..MaxRows : rows \in [0..(n - 1) -> Cells] /\ NRows(rows) = n
  BY TableRows DEF Init
<1>3. {changes[m] : m \in DOMAIN changes} = {} /\ Len(changes) = 0
  BY DEF Init
<1>4. IsFiniteSet(Found) /\ Cardinality(Found) = 0
  BY <1>1, FS_EmptySet
<1>5. TypeOK
  <2>1. << >> \in Seq(0..MaxRows)
    BY EmptySeq
  <2>2. QED
    BY <2>1 DEF Init, TypeOK
<1>6. i % 2 = 1 /\ (i <= NRows(rows) \/ i = 1) /\ ~removed
  BY DEF Init
<1>7. QED
  BY <1>1, <1>3, <1>4, <1>5, <1>6 DEF IInv

LEMMA IInvScan == IInv /\ ScanPair => IInv'
<1> SUFFICES ASSUME IInv, ScanPair PROVE IInv'
  OBVIOUS
<1>1. PICK n \in 0..MaxRows : rows \in [0..(n - 1) -> Cells] /\ NRows(rows) = n
  BY TableRows DEF IInv, TypeOK
<1>2. i \in Nat /\ i + 1 < n /\ i % 2 = 1
  BY <1>1 DEF IInv, TypeOK, ScanPair
<1>3. i \notin Found
  BY DEF Found
<1>4. Found' = IF IsChange(rows, i) THEN Found \cup {i} ELSE Found
  BY <1>2 DEF Found, ScanPair
<1>5. CASE IsChange(rows, i)
  <2>1. changes' = Append(changes, i)
    BY <1>5 DEF ScanPair
  <2>2. IsFiniteSet(Found') /\ Cardinality(Found') = Cardinality(Found) + 1
    BY <1>3, <1>4, <1>5, FS_AddElement DEF IInv
  <2>3. {changes'[m] : m \in DOMAIN changes'} = Found'
    BY <1>4, <1>5, <2>1 DEF IInv, TypeOK
  <2>4. changes' \in Seq(0..MaxRows)
    BY <1>1, <1>2, <2>1 DEF IInv, TypeOK
  <2>5. QED
    BY <1>1, <1>2, <2>1, <2>2, <2>3, <2>4 DEF IInv, TypeOK, ScanPair
<1>6. CASE ~IsChange(rows, i)
  BY <1>1, <1>2, <1>4, <1>6 DEF IInv, TypeOK, ScanPair
<1>7. QED
  BY <1>5, <1>6

LEMMA IInvNext == IInv /\ [Next]_vars => IInv'
<1> SUFFICES ASSUME IInv, [Next]_vars PROVE IInv'
  OBVIOUS
<1>1. CASE ScanPair
  BY <1>1, IInvScan
<1>2. CASE RemoveTable
  BY <1>2 DEF RemoveTable, IInv, TypeOK, Found
<1>3. CASE UNCHANGED vars
  BY <1>3 DEF vars, IInv, TypeOK, Found
<1>4. QED
  BY <1>1, <1>2, <1>3 DEF Next

\* Once the loop test fails, the pairs passed are all the table's pairs.
LEMMA LoopDone ==
  ASSUME IInv, ~(i + 1 < NRows(rows))
  PROVE  Found = ChangePairs(rows)
<1>1. PICK n \in 0..MaxRows : rows \in [0..(n - 1) -> Cells] /\ NRows(rows) = n
  BY TableRows DEF IInv, TypeOK
<1>2. i \in Nat /\ i % 2 = 1 /\ (i <= n \/ i = 1) /\ ~(i + 1 < n)
  BY <1>1 DEF IInv, TypeOK
<1>3. \A k \in Nat : k % 2 = 1 => (k \in 1..(i - 1) <=> k \in 1..(n - 2))
  BY <1>2
<1>4. QED
  BY <1>1, <1>3 DEF Found, ChangePairs

LEMMA IInvCovers == IInv => ScanCoversPairs
BY LoopDone DEF IInv, ScanCoversPairs

(***************************************************************************)
(* For every bound on the rows: once populateChanges has removed the       *)
(* table, each title/details pair has become exactly one "Changes" item    *)
(* and no other row has.                                                   *)
(***************************************************************************)
THEOREM CoversPairs == Spec => []ScanCoversPairs
<1>1. Init => IInv
  BY IInvInit
<1>2. IInv /\ [Next]_vars => IInv'
  BY IInvNext
<1>3. IInv => ScanCoversPairs
  BY IInvCovers
<1>4. QED
  BY <1>1, <1>2, <1>3, PTL DEF Spec

-----------------------------------------------------------------------------
(***************************************************************************)
(* For the order: the loop appends the row it is on, and i only grows, so  *)
(* the items are increasing and all below i.                               *)
(***************************************************************************)
OInv ==
    /\ IInv
    /\ \A a, b \in DOMAIN changes : a < b => changes[a] < changes[b]
    /\ \A n \in DOMAIN changes : changes[n] < i

LEMMA OInvInit == Init => OInv
BY IInvInit DEF Init, OInv

LEMMA OInvNext == OInv /\ [Next]_vars => OInv'
<1> SUFFICES ASSUME OInv, [Next]_vars PROVE OInv'
  OBVIOUS
<1>1. IInv'
  BY IInvNext DEF OInv
<1>2. changes \in Seq(0..MaxRows) /\ i \in Nat
  BY DEF OInv, IInv, TypeOK
<1>3. CASE ScanPair /\ IsChange(rows, i)
  <2>1. changes' = Append(changes, i) /\ i' = i + 2
    BY <1>3 DEF ScanPair
  <2>2. /\ DOMAIN changes' = 1..(Len(changes) + 1)
        /\ \A n \in 1..Len(changes) : changes'[n] = changes[n]
        /\ changes'[Len(changes) + 1] = i
    BY <1>2, <2>1, AppendProperties
  <2>3. DOMAIN changes = 1..Len(changes)
    BY <1>2
  <2>4. \A a, b \in DOMAIN changes' : a < b => changes'[a] < changes'[b]
    BY <2>2, <2>3 DEF OInv
  <2>5. \A n \in DOMAIN changes' : changes'[n] < i'
    BY <1>2, <2>1, <2>2, <2>3 DEF OInv
  <2>6. QED
    BY <1>1, <2>4, <2>5 DEF OInv
<1>4. CASE ScanPair /\ ~IsChange(rows, i)
  BY <1>1, <1>2, <1>4 DEF ScanPair, OInv
<1>5. CASE RemoveTable
  BY <1>1, <1>5 DEF RemoveTable, OInv
<1>6. CASE UNCHANGED vars
  BY <1>1, <1>6 DEF vars, OInv
<1>7. QED
  BY <1>3, <1>4, <1>5, <1>6 DEF Next

LEMMA RefInit == Init => Once!Init
BY DEF Init, Once!Init, Shown

\* A row pair read before the table goes is not seen: the menu stutters.
LEMMA RefScan ==
  ASSUME OInv, ScanPair
  PROVE  UNCHANGED Once!onceVars
<1>1. ~removed
  BY DEF OInv, IInv, ScanPair
<1>2. QED
  BY <1>1 DEF ScanPair, Shown, Once!onceVars

\* Removing the table is populateChanges' one step.
LEMMA RefRemove ==
  ASSUME OInv, RemoveTable
  PROVE  Once!Populate
<1>1. Found = ChangePairs(rows)
  BY LoopDone DEF OInv, RemoveTable
<1>2. removed' /\ Shown' = changes /\ changes' = changes /\ rows' = rows
  BY DEF RemoveTable, Shown
<1>3. {changes[n] : n \in DOMAIN changes} = ChangePairs(rows)
  BY <1>1 DEF OInv, IInv
<1>4. changes \in Seq(Nat)
  BY DEF OInv, IInv, TypeOK
<1>5. QED
  BY <1>2, <1>3, <1>4 DEF OInv, RemoveTable, Once!Populate, Once!InOrder, Shown

(***************************************************************************)
(* For every bound on the rows: the loop of populateChanges, pair by pair, *)
(* implements its one-step description: the menu sees the table removed    *)
(* and one item per title/details pair, in the table's order.              *)
(***************************************************************************)
THEOREM ScanRefines == Spec => ScanRefinesOnce
<1>1. Spec => []OInv
  BY OInvInit, OInvNext, PTL DEF Spec
<1>2. Init => Once!Init
  BY RefInit
<1>3. OInv /\ [Next]_vars => [Once!Populate]_Once!onceVars
  <2> SUFFICES ASSUME OInv, [Next]_vars PROVE [Once!Populate]_Once!onceVars
    OBVIOUS
  <2>1. CASE ScanPair
    BY <2>1, RefScan
  <2>2. CASE RemoveTable
    BY <2>2, RefRemove
  <2>3. CASE UNCHANGED vars
    BY <2>3 DEF vars, Once!onceVars, Shown
  <2>4. QED
    BY <2>1, <2>2, <2>3 DEF Next
<1>4. QED
  BY <1>1, <1>2, <1>3, PTL DEF Spec, ScanRefinesOnce, Once!Spec

=============================================================================
