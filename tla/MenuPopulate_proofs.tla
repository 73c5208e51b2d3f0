------------------------- MODULE MenuPopulate_proofs -------------------------
(***************************************************************************)
(* Proofs about the user guide menu's lazy population, for any sets of     *)
(* main entries and sub-items and any page: its one-step form              *)
(* (UserGuideMenu) binds the handlers once per population, and the         *)
(* examples, figures and tables loops (MenuPopulate) make each item lead   *)
(* to its own block and implement that one-step population.                *)
(***************************************************************************)
EXTENDS MenuPopulate, FiniteSetTheorems, TLAPS

USE MenuAssumption, PopulateAssumption

(***************************************************************************)
(* UserGuideMenu: the handlers of a lazy population.                       *)
(***************************************************************************)
\* The main entries whose populate hook has run.
Done == {m \in Mains : ~populate[m]}

(***************************************************************************)
(* EveryItemAnimated is inductive once the set of populated entries is     *)
(* known to be finite, so that each population adds one to its size.       *)
(***************************************************************************)
IInv ==
    /\ TypeOK
    /\ IsFiniteSet(Done)
    /\ EveryItemAnimated

LEMMA IInvInit == Init => IInv
<1> SUFFICES ASSUME Init PROVE IInv
  OBVIOUS
<1>1. TypeOK
  BY DEF Init, TypeOK, Items
<1>2. Done = {}
  BY DEF Init, Done
<1>3. IsFiniteSet(Done) /\ Cardinality(Done) = 0
  BY <1>2, FS_EmptySet
<1>4. EveryItemAnimated
  BY <1>3 DEF Init, EveryItemAnimated, Populations, Done, Items
<1>5. QED
  BY <1>1, <1>3, <1>4 DEF IInv

LEMMA IInvPopulate ==
  ASSUME IInv, NEW m \in Mains, Populate(m)
  PROVE  IInv'
<1>1. created' \subseteq Subs /\ created \subseteq created'
  BY DEF Populate, Scrape, IInv, TypeOK
<1>2. Done' = Done \cup {m} /\ m \notin Done
  BY DEF Populate, Done, IInv, TypeOK
<1>3. IsFiniteSet(Done') /\ Cardinality(Done') = Cardinality(Done) + 1
  BY <1>2, FS_AddElement DEF IInv
<1>4. TypeOK'
  BY <1>1 DEF Populate, Animate, IInv, TypeOK, Items
<1>5. \A x \in created' : hoverCopies'[x] >= 1 /\ clickCopies'[x] >= 1
  BY <1>1 DEF Populate, Animate, IInv, TypeOK, Items
<1>6. \A n \in Mains : hoverCopies'[n] = Populations'
  <2>1. Populations' = Populations + 1
    BY <1>3 DEF Populations, Done
  <2>2. QED
    BY <2>1 DEF Populate, Animate, IInv, TypeOK, Items, EveryItemAnimated
<1>7. QED
  BY <1>3, <1>4, <1>5, <1>6 DEF IInv, EveryItemAnimated

LEMMA IInvNext == IInv /\ [Next]_vars => IInv'
<1> SUFFICES ASSUME IInv, [Next]_vars PROVE IInv'
  OBVIOUS
<1>1. CASE Next
  BY <1>1, IInvPopulate DEF Next
<1>2. CASE UNCHANGED vars
  BY <1>2 DEF IInv, TypeOK, Done, EveryItemAnimated, Populations, vars
<1>3. QED
  BY <1>1, <1>2

(***************************************************************************)
(* For any menu and any page: every sub-item a lazy population created has *)
(* animate()'s hover and click handlers, and each main entry carries one   *)
(* copy of the hover pair per population run so far.                       *)
(***************************************************************************)
THEOREM AllAnimated == Spec => []EveryItemAnimated
<1>1. Init => IInv
  BY IInvInit
<1>2. IInv /\ [Next]_vars => IInv'
  BY IInvNext
<1>3. IInv => EveryItemAnimated
  BY DEF IInv
<1>4. QED
  BY <1>1, <1>2, <1>3, PTL DEF Spec


-----------------------------------------------------------------------------
(***************************************************************************)
(* MenuPopulate: the loops of the hover handler.                           *)
(***************************************************************************)
\* The items the table of contents and the changes create.
OtherItems == UNION {Scraped[m] : m \in Mains \ Scanned}

FigBlocks == Blocks(Figures)

\* The blocks of m's loop at positions 1..k, and those of them it can read.
Prefix(m, k) == {BlocksOf[m][i] : i \in 1..k}
ReadUpTo(m, k) == {b \in Prefix(m, k) : Readable(m, b)}

(***************************************************************************)
(* The inductive invariant.  Each loop has created exactly the blocks it   *)
(* can read among those it has passed: none before its hover, all once it  *)
(* ended.  A figure has a number exactly when its item exists; while the   *)
(* figures loop runs the numbers are at most i_FigureCount; no two figures *)
(* share one; a loop item's href is its block's anchor.                    *)
(***************************************************************************)
PInv ==
    /\ TypeOK
    /\ running \in Scanned \cup {None}
    /\ pos \in Nat /\ figCount \in Nat
    /\ anchor \in [Subs -> Subs \cup Nat \cup {None}]
    /\ href \in [Subs -> Subs \cup Nat \cup {None}]
    /\ running # None => populate[running] /\ pos \in 1..(Len(BlocksOf[running]) + 1)
    /\ created \subseteq OtherItems \cup UNION {Blocks(m) : m \in Scanned}
    /\ \A m \in Scanned :
          created \cap Blocks(m) =
              IF running = m THEN ReadUpTo(m, pos - 1)
              ELSE IF populate[m] THEN {} ELSE Scraped[m]
    /\ \A c \in Subs \ FigBlocks : anchor[c] = WrittenAnchor(c)
    /\ \A c \in FigBlocks : (anchor[c] # None <=> c \in created) /\ anchor[c] \in Nat \cup {None}
    /\ running = Figures => \A c \in FigBlocks \cap created : anchor[c] \in 1..figCount
    /\ \A c, d \in FigBlocks \cap created : anchor[c] = anchor[d] => c = d
    /\ \A b \in created \ OtherItems : href[b] = anchor[b]


\* Each loop's blocks are sub-items at positions 1..Len.
LEMMA BlocksShape ==
  ASSUME NEW m \in Scanned
  PROVE  /\ BlocksOf[m] \in Seq(Subs)
         /\ DOMAIN BlocksOf[m] = 1..Len(BlocksOf[m])
         /\ Blocks(m) \subseteq Subs
<1>1. BlocksOf[m] \in Seq(Subs)
  OBVIOUS
<1>2. QED
  BY <1>1 DEF Blocks

\* The blocks of two different loops are different blocks.
LEMMA BlocksDisjoint ==
  ASSUME NEW m \in Scanned, NEW n \in Scanned, m # n
  PROVE  Blocks(m) \cap Blocks(n) = {}
BY DEF Blocks

LEMMA PInvInit == PopInit => PInv
<1> SUFFICES ASSUME PopInit PROVE PInv
  OBVIOUS
<1>1. TypeOK
  BY DEF PopInit, Init, TypeOK, Items
<1>2. anchor \in [Subs -> Subs \cup Nat \cup {None}]
  BY DEF PopInit, WrittenAnchor
<1>3. \A m \in Scanned : running # m /\ populate[m] /\ created \cap Blocks(m) = {}
  BY DEF PopInit, Init
<1>4. \A c \in FigBlocks : anchor[c] = None
  <2>1. FigBlocks \subseteq Subs
    BY BlocksShape DEF FigBlocks
  <2>2. QED
    BY <2>1 DEF PopInit, WrittenAnchor, FigBlocks
<1>5. QED
  BY <1>1, <1>2, <1>3, <1>4 DEF PopInit, Init, PInv

LEMMA PInvHover ==
  ASSUME PInv, NEW m \in Scanned, Hover(m)
  PROVE  PInv'
<1>1. created \cap Blocks(m) = {}
  BY DEF PInv, Hover
<1>2. ReadUpTo(m, 0) = {}
  BY DEF ReadUpTo, Prefix
<1>3. \A n \in Scanned :
         created' \cap Blocks(n) =
            IF running' = n THEN ReadUpTo(n, pos' - 1)
            ELSE IF populate'[n] THEN {} ELSE Scraped[n]
  <2> TAKE n \in Scanned
  <2>1. CASE n = m
    BY <2>1, <1>1, <1>2 DEF Hover
  <2>2. CASE n # m
    BY <2>2 DEF Hover, PInv
  <2>3. QED
    BY <2>1, <2>2
<1>4. running' = Figures => created' \cap FigBlocks = {}
  BY <1>1 DEF Hover, FigBlocks
<1>5. QED
  BY <1>3, <1>4 DEF PInv, Hover, TypeOK

\* One more position read adds the block there, if the loop can read it.
LEMMA ReadUpToStep ==
  ASSUME NEW m \in Scanned, NEW k \in 1..Len(BlocksOf[m])
  PROVE  ReadUpTo(m, k) =
            ReadUpTo(m, k - 1) \cup
            (IF Readable(m, BlocksOf[m][k]) THEN {BlocksOf[m][k]} ELSE {})
<1>1. Prefix(m, k) = Prefix(m, k - 1) \cup {BlocksOf[m][k]}
  BY DEF Prefix
<1>2. QED
  BY <1>1 DEF ReadUpTo

\* The block at position k is none of the blocks before it.
LEMMA BlockNotBefore ==
  ASSUME NEW m \in Scanned, NEW k \in 1..Len(BlocksOf[m])
  PROVE  BlocksOf[m][k] \notin Prefix(m, k - 1)
<1>1. DOMAIN BlocksOf[m] = 1..Len(BlocksOf[m])
  BY BlocksShape
<1>2. \A i \in 1..(k - 1) : BlocksOf[m][i] # BlocksOf[m][k]
  BY <1>1
<1>3. QED
  BY <1>2 DEF Prefix

\* Past the last position, a loop has read what populate<m> creates.
LEMMA ReadUpToAll ==
  ASSUME NEW m \in Scanned
  PROVE  ReadUpTo(m, Len(BlocksOf[m])) = Scraped[m]
<1>1. Prefix(m, Len(BlocksOf[m])) = Blocks(m)
  BY BlocksShape DEF Prefix, Blocks
<1>2. QED
  BY <1>1 DEF ReadUpTo

\* What a step of the running loop knows about where it is.
LEMMA ScanPlace ==
  ASSUME PInv, Scanning
  PROVE  /\ running \in Scanned
         /\ pos \in 1..Len(BlocksOf[running])
         /\ Block \in Blocks(running) /\ Block \in Subs
         /\ created \cap Blocks(running) = ReadUpTo(running, pos - 1)
         /\ \A n \in Scanned \ {running} : Block \notin Blocks(n)
<1>1. running \in Scanned /\ pos \in 1..Len(BlocksOf[running])
  BY DEF PInv, Scanning
<1>2. Block \in Blocks(running) /\ Block \in Subs
  BY <1>1, BlocksShape DEF Block, Blocks
<1>3. \A n \in Scanned \ {running} : Block \notin Blocks(n)
  BY <1>1, <1>2, BlocksDisjoint
<1>4. QED
  BY <1>1, <1>2, <1>3 DEF PInv

LEMMA PInvScanItem ==
  ASSUME PInv, ScanItem
  PROVE  PInv'
<1>1. /\ running \in Scanned /\ pos \in 1..Len(BlocksOf[running])
      /\ Block \in Blocks(running) /\ Block \in Subs
      /\ created \cap Blocks(running) = ReadUpTo(running, pos - 1)
      /\ \A n \in Scanned \ {running} : Block \notin Blocks(n)
  BY ScanPlace DEF ScanItem
<1>2. Block \notin FigBlocks
  BY <1>1 DEF ScanItem, FigBlocks
<1>3. TypeOK' /\ href' \in [Subs -> Subs \cup Nat \cup {None}]
  BY <1>1 DEF PInv, ScanItem, TypeOK
<1>4. \A n \in Scanned :
         created' \cap Blocks(n) =
            IF running' = n THEN ReadUpTo(n, pos' - 1)
            ELSE IF populate'[n] THEN {} ELSE Scraped[n]
  <2> TAKE n \in Scanned
  <2>1. CASE n = running
    <3>1. ReadUpTo(n, pos) = ReadUpTo(n, pos - 1) \cup {Block}
      <4>1. ReadUpTo(n, pos) =
               ReadUpTo(n, pos - 1) \cup
               (IF Readable(n, BlocksOf[n][pos]) THEN {BlocksOf[n][pos]} ELSE {})
        BY <1>1, <2>1, ReadUpToStep
      <4>2. QED
        BY <2>1, <4>1 DEF ScanItem, Block
    <3>2. QED
      BY <1>1, <2>1, <3>1 DEF ScanItem
  <2>2. CASE n # running
    BY <1>1, <2>2 DEF PInv, ScanItem
  <2>3. QED
    BY <2>1, <2>2
<1>5. \A b \in created' \ OtherItems : href'[b] = anchor'[b]
  BY <1>1 DEF PInv, ScanItem
<1>6. created' \subseteq OtherItems \cup UNION {Blocks(m) : m \in Scanned}
  BY <1>1 DEF PInv, ScanItem
<1>7. FigBlocks \cap created' = FigBlocks \cap created
  BY <1>2 DEF ScanItem
<1>8. QED
  BY <1>1, <1>3, <1>4, <1>5, <1>6, <1>7 DEF PInv, ScanItem

LEMMA PInvScanSkip ==
  ASSUME PInv, ScanSkip
  PROVE  PInv'
<1>1. /\ running \in Scanned /\ pos \in 1..Len(BlocksOf[running])
      /\ created \cap Blocks(running) = ReadUpTo(running, pos - 1)
  BY ScanPlace DEF ScanSkip
<1>2. ReadUpTo(running, pos) = ReadUpTo(running, pos - 1)
  <2>1. ReadUpTo(running, pos) =
           ReadUpTo(running, pos - 1) \cup
           (IF Readable(running, BlocksOf[running][pos])
               THEN {BlocksOf[running][pos]} ELSE {})
    BY <1>1, ReadUpToStep
  <2>2. ~Readable(running, BlocksOf[running][pos])
    BY DEF ScanSkip, Block
  <2>3. QED
    BY <2>1, <2>2
<1>3. \A n \in Scanned :
         created' \cap Blocks(n) =
            IF running' = n THEN ReadUpTo(n, pos' - 1)
            ELSE IF populate'[n] THEN {} ELSE Scraped[n]
  BY <1>1, <1>2 DEF PInv, ScanSkip
<1>4. QED
  BY <1>1, <1>3 DEF PInv, ScanSkip, TypeOK

LEMMA PInvScanFigure ==
  ASSUME PInv, ScanFigure
  PROVE  PInv'
<1>1. /\ running = Figures /\ pos \in 1..Len(BlocksOf[Figures])
      /\ Block \in FigBlocks /\ Block \in Subs
      /\ created \cap FigBlocks = ReadUpTo(Figures, pos - 1)
      /\ \A n \in Scanned \ {Figures} : Block \notin Blocks(n)
  BY ScanPlace DEF ScanFigure, FigBlocks
<1>2. Block \notin created
  BY <1>1, BlockNotBefore DEF Block, ReadUpTo
<1>3. figCount \in Nat /\ figCount + 1 \in Nat /\ figCount + 1 # None
  BY DEF PInv
<1>4. \A c \in FigBlocks \cap created : anchor[c] \in 1..figCount
  BY <1>1 DEF PInv
<1>5. \A c \in Subs \ {Block} : anchor'[c] = anchor[c] /\ href'[c] = href[c]
  BY DEF ScanFigure
<1>6. anchor'[Block] = figCount + 1 /\ href'[Block] = figCount + 1
  BY <1>1 DEF PInv, ScanFigure
<1>7. TypeOK' /\ anchor' \in [Subs -> Subs \cup Nat \cup {None}]
              /\ href' \in [Subs -> Subs \cup Nat \cup {None}]
  BY <1>1, <1>3 DEF PInv, ScanFigure, TypeOK
<1>8. \A n \in Scanned :
         created' \cap Blocks(n) =
            IF running' = n THEN ReadUpTo(n, pos' - 1)
            ELSE IF populate'[n] THEN {} ELSE Scraped[n]
  <2> TAKE n \in Scanned
  <2>1. CASE n = Figures
    <3>1. ReadUpTo(n, pos) = ReadUpTo(n, pos - 1) \cup {Block}
      <4>1. ReadUpTo(n, pos) =
               ReadUpTo(n, pos - 1) \cup
               (IF Readable(n, BlocksOf[n][pos]) THEN {BlocksOf[n][pos]} ELSE {})
        BY <1>1, <2>1, ReadUpToStep
      <4>2. QED
        BY <2>1, <4>1 DEF ScanFigure, Block
    <3>2. QED
      BY <1>1, <2>1, <3>1 DEF ScanFigure, FigBlocks
  <2>2. CASE n # Figures
    BY <1>1, <2>2 DEF PInv, ScanFigure
  <2>3. QED
    BY <2>1, <2>2
<1>9. \A c \in Subs \ FigBlocks : anchor'[c] = WrittenAnchor(c)
  BY <1>1, <1>5 DEF PInv
<1>10. \A c \in FigBlocks : (anchor'[c] # None <=> c \in created')
                             /\ anchor'[c] \in Nat \cup {None}
  BY <1>1, <1>3, <1>5, <1>6 DEF PInv, ScanFigure
<1>11. \A c \in FigBlocks \cap created' : anchor'[c] \in 1..figCount'
  BY <1>1, <1>3, <1>4, <1>5, <1>6 DEF ScanFigure
<1>12. \A c, d \in FigBlocks \cap created' : anchor'[c] = anchor'[d] => c = d
  <2> TAKE c, d \in FigBlocks \cap created'
  <2>1. CASE c # Block /\ d # Block
    BY <1>1, <1>5, <2>1 DEF PInv, ScanFigure
  <2>2. CASE c = Block /\ d # Block
    BY <1>1, <1>3, <1>4, <1>5, <1>6, <2>2 DEF ScanFigure
  <2>3. CASE c # Block /\ d = Block
    BY <1>1, <1>3, <1>4, <1>5, <1>6, <2>3 DEF ScanFigure
  <2>4. QED
    BY <2>1, <2>2, <2>3
<1>13. \A b \in created' \ OtherItems : href'[b] = anchor'[b]
  BY <1>1, <1>5, <1>6 DEF PInv, ScanFigure
<1>14. created' \subseteq OtherItems \cup UNION {Blocks(m) : m \in Scanned}
  BY <1>1 DEF PInv, ScanFigure, FigBlocks
<1>15. QED
  BY <1>1, <1>3, <1>7, <1>8, <1>9, <1>10, <1>11, <1>12, <1>13, <1>14
     DEF PInv, ScanFigure

\* When the handler ends, its loop has created the items populate<m> creates.
LEMMA EndCreated ==
  ASSUME PInv, running # None, pos > Len(BlocksOf[running])
  PROVE  /\ running \in Scanned /\ populate[running]
         /\ created \cap Blocks(running) = Scraped[running]
<1>1. running \in Scanned /\ populate[running]
      /\ pos = Len(BlocksOf[running]) + 1
  BY DEF PInv
<1>2. QED
  BY <1>1, ReadUpToAll DEF PInv

LEMMA PInvEnd ==
  ASSUME PInv, EndPopulate
  PROVE  PInv'
<1>1. /\ running \in Scanned /\ populate[running]
      /\ created \cap Blocks(running) = Scraped[running]
  BY EndCreated DEF EndPopulate
<1>2. TypeOK'
  <2>1. TypeOK /\ running \in Mains
    BY <1>1 DEF PInv
  <2>2. populate' \in [Mains -> BOOLEAN] /\ created' \subseteq Subs
    BY <2>1 DEF EndPopulate, TypeOK
  <2>3. hoverCopies' \in [Items -> Nat] /\ clickCopies' \in [Items -> Nat]
    BY <2>1 DEF EndPopulate, TypeOK, Animate
  <2>4. QED
    BY <2>2, <2>3 DEF TypeOK
<1>3. \A n \in Scanned :
         created' \cap Blocks(n) =
            IF running' = n THEN ReadUpTo(n, pos' - 1)
            ELSE IF populate'[n] THEN {} ELSE Scraped[n]
  <2> TAKE n \in Scanned
  <2>1. running' # n
    BY DEF EndPopulate
  <2>2. CASE n = running
    BY <1>1, <2>1, <2>2 DEF PInv, EndPopulate, TypeOK
  <2>3. CASE n # running
    BY <1>1, <2>1, <2>3 DEF PInv, EndPopulate, TypeOK
  <2>4. QED
    BY <2>2, <2>3
<1>4. running' # Figures
  BY DEF EndPopulate
<1>5. QED
  BY <1>2, <1>3, <1>4 DEF PInv, EndPopulate

LEMMA PInvOther ==
  ASSUME PInv, NEW m \in Mains \ Scanned, PopulateOther(m)
  PROVE  PInv'
<1>1. created' = created \cup Scraped[m]
  BY DEF PopulateOther, Populate, Scrape
<1>2. Scraped[m] \subseteq OtherItems
  BY DEF OtherItems
<1>3. \A n \in Scanned : Scraped[m] \cap Blocks(n) = {}
  OBVIOUS
<1>4. TypeOK'
  <2>1. TypeOK
    BY DEF PInv
  <2>2. created' \subseteq Subs
    BY <1>1, <2>1 DEF TypeOK
  <2>3. QED
    BY <2>1, <2>2 DEF PopulateOther, Populate, TypeOK, Animate, Items
<1>5. \A n \in Scanned :
         created' \cap Blocks(n) =
            IF running' = n THEN ReadUpTo(n, pos' - 1)
            ELSE IF populate'[n] THEN {} ELSE Scraped[n]
  <2> TAKE n \in Scanned
  <2>1. created' \cap Blocks(n) = created \cap Blocks(n)
    BY <1>1, <1>3
  <2>2. populate'[n] = populate[n] /\ running' = running /\ pos' = pos
    <3>1. n # m /\ n \in Mains /\ populate \in [Mains -> BOOLEAN]
      BY DEF PInv, TypeOK
    <3>2. populate' = [populate EXCEPT ![m] = FALSE]
      BY DEF PopulateOther, Populate
    <3>3. running' = running /\ pos' = pos
      BY DEF PopulateOther, scanVars
    <3>4. QED
      BY <3>1, <3>2, <3>3
  <2>3. QED
    BY <2>1, <2>2 DEF PInv
<1>6. FigBlocks \cap created' = FigBlocks \cap created
  BY <1>1, <1>3 DEF FigBlocks
<1>7. created' \ OtherItems = created \ OtherItems
  BY <1>1, <1>2
<1>8. created' \subseteq OtherItems \cup UNION {Blocks(n) : n \in Scanned}
  BY <1>1, <1>2 DEF PInv
<1>9. \A c \in FigBlocks : c \in created' <=> c \in created
  BY <1>6
<1>10. QED
  BY <1>4, <1>5, <1>6, <1>7, <1>8, <1>9 DEF PInv, PopulateOther, scanVars

LEMMA PInvNext == PInv /\ [PopNext]_allVars => PInv'
<1> SUFFICES ASSUME PInv, [PopNext]_allVars PROVE PInv'
  OBVIOUS
<1>1. CASE \E m \in Scanned : Hover(m)
  BY <1>1, PInvHover
<1>2. CASE \E m \in Mains \ Scanned : PopulateOther(m)
  BY <1>2, PInvOther
<1>3. CASE ScanItem
  BY <1>3, PInvScanItem
<1>4. CASE ScanFigure
  BY <1>4, PInvScanFigure
<1>5. CASE ScanSkip
  BY <1>5, PInvScanSkip
<1>6. CASE EndPopulate
  BY <1>6, PInvEnd
<1>7. CASE UNCHANGED allVars
  BY <1>7 DEF PInv, allVars, TypeOK, OtherItems, FigBlocks, ReadUpTo, Prefix,
               WrittenAnchor, Readable, Blocks
<1>8. QED
  BY <1>1, <1>2, <1>3, <1>4, <1>5, <1>6, <1>7 DEF PopNext

\* A loop item is a block of one loop, and one that loop can read.
LEMMA LoopItem ==
  ASSUME PInv, NEW b \in created \ OtherItems
  PROVE  \E m \in Scanned : b \in Blocks(m) /\ Readable(m, b)
<1>1. PICK m \in Scanned : b \in Blocks(m)
  BY DEF PInv
<1>2. b \in created \cap Blocks(m)
  BY <1>1
<1>3. b \in ReadUpTo(m, pos - 1) \/ b \in Scraped[m]
  BY <1>2 DEF PInv
<1>4. Readable(m, b)
  BY <1>3 DEF ReadUpTo
<1>5. QED
  BY <1>1, <1>4

LEMMA PInvItems == PInv => ItemsReachTheirBlocks
<1> SUFFICES ASSUME PInv, NEW b \in created \ UNION {Scraped[m] : m \in Mains \ Scanned}
             PROVE  href[b] # None /\ {c \in Subs : anchor[c] = href[b]} = {b}
  BY DEF ItemsReachTheirBlocks
<1>1. b \in created \ OtherItems /\ b \in Subs /\ href[b] = anchor[b]
  BY DEF OtherItems, PInv, TypeOK
<1>2. PICK m \in Scanned : b \in Blocks(m) /\ Readable(m, b)
  BY <1>1, LoopItem
<1>3. \A c \in Subs \ FigBlocks : anchor[c] \in {c, None}
  BY DEF PInv, WrittenAnchor
<1>4. \A c \in FigBlocks : anchor[c] \in Nat \cup {None}
  BY DEF PInv
<1>5. CASE m = Figures
  <2>1. b \in FigBlocks \cap created /\ anchor[b] \in Nat
    BY <1>1, <1>2, <1>4, <1>5 DEF PInv, FigBlocks
  <2>2. \A c \in Subs \ FigBlocks : anchor[c] # anchor[b]
    BY <1>3, <2>1
  <2>3. \A c \in FigBlocks : anchor[c] = anchor[b] => c = b
    BY <2>1 DEF PInv
  <2>4. QED
    BY <1>1, <2>1, <2>2, <2>3
<1>6. CASE m # Figures
  <2>1. b \notin FigBlocks
    BY <1>2, <1>6, BlocksDisjoint DEF FigBlocks
  <2>2. anchor[b] = b
    BY <1>1, <1>2, <1>6, <2>1 DEF PInv, Readable, WrittenAnchor
  <2>3. \A c \in FigBlocks : anchor[c] # b
    BY <1>1, <1>4
  <2>4. \A c \in Subs \ FigBlocks : anchor[c] = b => c = b
    BY <1>1, <1>3
  <2>5. QED
    BY <1>1, <2>2, <2>3, <2>4
<1>7. QED
  BY <1>5, <1>6

(***************************************************************************)
(* For any page: every menu item the examples, figures and tables loops    *)
(* create has an href, and the anchor it names is on its block and on no   *)
(* other, however the figures' and the other loops' blocks throw.          *)
(***************************************************************************)
THEOREM ItemsReach == PopSpec => []ItemsReachTheirBlocks
<1>1. PopInit => PInv
  BY PInvInit
<1>2. PInv /\ [PopNext]_allVars => PInv'
  BY PInvNext
<1>3. PInv => ItemsReachTheirBlocks
  BY PInvItems
<1>4. QED
  BY <1>1, <1>2, <1>3, PTL DEF PopSpec

-----------------------------------------------------------------------------
\* The items the menu shows, under the refinement mapping.
Shown == created \ ScanItems

LEMMA RefInit == PopInit => Menu!Init
BY DEF PopInit, Init, Menu!Init, ScanItems, Menu!Items, Items

\* A hover starts a loop, which has created nothing yet: the menu stutters.
LEMMA RefHover ==
  ASSUME PInv, NEW m \in Scanned, Hover(m)
  PROVE  UNCHANGED Menu!vars
<1>1. ScanItems = {} /\ ScanItems' = {}
  BY DEF PInv, Hover, ScanItems
<1>2. QED
  BY <1>1 DEF Hover, Menu!vars

\* A block read by the running loop is not shown until the loop ends.
LEMMA RefScan ==
  ASSUME PInv, ScanItem \/ ScanFigure \/ ScanSkip
  PROVE  UNCHANGED Menu!vars
<1>1. Scanning /\ running' = running /\ Block \in Blocks(running)
  BY ScanPlace DEF ScanItem, ScanFigure, ScanSkip
<1>2. created \subseteq created' /\ created' \subseteq created \cup {Block}
  BY DEF ScanItem, ScanFigure, ScanSkip
<1>3. Shown' = Shown
  BY <1>1, <1>2 DEF Shown, ScanItems, Scanning
<1>4. QED
  BY <1>3 DEF ScanItem, ScanFigure, ScanSkip, Shown, Menu!vars

\* The end of a loop's handler is its entry's population.
LEMMA RefEnd ==
  ASSUME PInv, EndPopulate
  PROVE  Menu!Populate(running)
<1>1. /\ running \in Scanned /\ populate[running]
      /\ created \cap Blocks(running) = Scraped[running]
  BY EndCreated DEF EndPopulate
<1>2. Shown = created \ Blocks(running) /\ Shown' = created
  BY DEF EndPopulate, Shown, ScanItems
<1>3. Shown' = Shown \cup Scraped[running]
  BY <1>1, <1>2
<1>4. QED
  BY <1>1, <1>2, <1>3 DEF EndPopulate, Menu!Populate, Menu!Scrape, Menu!Animate,
                          Animate, Shown, Menu!Items, Items

\* populateToc and populateChanges run while no loop does.
LEMMA RefOther ==
  ASSUME PInv, NEW m \in Mains \ Scanned, PopulateOther(m)
  PROVE  Menu!Populate(m)
<1>1. ScanItems = {} /\ ScanItems' = {}
  BY DEF PopulateOther, scanVars, ScanItems
<1>2. QED
  BY <1>1 DEF PopulateOther, Populate, Scrape, Menu!Populate, Menu!Scrape,
              Menu!Animate, Animate, Menu!Items, Items

LEMMA RefNext == PInv /\ [PopNext]_allVars => [Menu!Next]_Menu!vars
<1> SUFFICES ASSUME PInv, [PopNext]_allVars PROVE [Menu!Next]_Menu!vars
  OBVIOUS
<1>1. CASE \E m \in Scanned : Hover(m)
  BY <1>1, RefHover
<1>2. CASE \E m \in Mains \ Scanned : PopulateOther(m)
  BY <1>2, RefOther DEF Menu!Next
<1>3. CASE ScanItem \/ ScanFigure \/ ScanSkip
  BY <1>3, RefScan
<1>4. CASE EndPopulate
  <2>1. running \in Mains
    BY <1>4, EndCreated DEF EndPopulate
  <2>2. QED
    BY <1>4, <2>1, RefEnd DEF Menu!Next
<1>5. CASE UNCHANGED allVars
  BY <1>5 DEF allVars, Menu!vars, ScanItems
<1>6. QED
  BY <1>1, <1>2, <1>3, <1>4, <1>5 DEF PopNext

(***************************************************************************)
(* For any page: the loops of populateExamples, populateFigures and        *)
(* populateTables, taken one block at a time, implement UserGuideMenu's    *)
(* lazy population: the menu sees a loop's items appear at once, when its  *)
(* hover handler ends, as exactly the items populate<m> creates.           *)
(***************************************************************************)
THEOREM PopulateRefines == PopSpec => PopulateRefinesMenu
<1>1. PopSpec => []PInv
  BY PInvInit, PInvNext, PTL DEF PopSpec
<1>2. PopInit => Menu!Init
  BY RefInit
<1>3. PInv /\ [PopNext]_allVars => [Menu!Next]_Menu!vars
  BY RefNext
<1>4. QED
  BY <1>1, <1>2, <1>3, PTL DEF PopSpec, PopulateRefinesMenu, Menu!Spec

-----------------------------------------------------------------------------
\* The block a loop is about to read has no item yet.
LEMMA BlockFresh ==
  ASSUME PInv, Scanning
  PROVE  Block \notin created
<1>1. /\ running \in Scanned /\ pos \in 1..Len(BlocksOf[running])
      /\ Block \in Blocks(running)
      /\ created \cap Blocks(running) = ReadUpTo(running, pos - 1)
  BY ScanPlace
<1>2. Block \notin Prefix(running, pos - 1)
  BY <1>1, BlockNotBefore DEF Block
<1>3. QED
  BY <1>1, <1>2 DEF ReadUpTo

(***************************************************************************)
(* For any page: the examples, figures and tables loops call createItem at *)
(* most once per block, so no block is listed twice in the menu.           *)
(***************************************************************************)
THEOREM CreatedOnce == PopSpec => ItemCreatedOnce
<1>1. PopSpec => []PInv
  BY PInvInit, PInvNext, PTL DEF PopSpec
<1>2. PInv => ((ScanItem \/ ScanFigure) => Block \notin created)
  BY BlockFresh DEF ScanItem, ScanFigure
<1>3. QED
  BY <1>1, <1>2, PTL DEF PopSpec, ItemCreatedOnce

=============================================================================
