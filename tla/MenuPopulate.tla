---------------------------- MODULE MenuPopulate ----------------------------
(***************************************************************************)
(* The lazy population of UserGuideMenu (cli-user-guide.js) with the loops *)
(* of populateExamples, populateFigures and populateTables taken one block *)
(* per step.  Each loop visits its blocks (".example", ".informalfigure",  *)
(* ".table") in document order; a block whose title or anchor cannot be    *)
(* read throws, is logged and skipped.  An example or a table item links   *)
(* to "#" + the name of the block's A; populateFigures numbers the figures *)
(* it can read (i_FigureCount), inserts an A named "Figure_" + the number  *)
(* first in the figure and links the item to it.  The table of contents    *)
(* and the changes are populated in one step here (TocBuilder and          *)
(* ChangesScan take them apart).  The hover handler runs to completion:    *)
(* populate<m>(), reStyle(), populate<m> = null, and no other event is     *)
(* handled meanwhile.  An anchor name "Figure_n" is the number n; a name   *)
(* written in the page is the block itself.                                *)
(***************************************************************************)
EXTENDS UserGuideMenu, Sequences

CONSTANTS
    Scanned,   \* the entries whose loop is taken apart here
    Figures,   \* the figures entry
    BlocksOf,  \* BlocksOf[m]: the blocks m's loop visits, in document order
    Kind,      \* Kind[b]: "ok", "noTitle" (no P to read) or "noAnchor" (no A)
    None       \* no href, no name, no loop running

VARIABLES
    running,   \* the entry whose hover handler is running, or None
    pos,       \* the position of the each() in BlocksOf[running]
    figCount,  \* i_FigureCount
    anchor,    \* anchor[b]: the name of the A found first in block b, or None
    href       \* href[b]: the target of b's menu item, or None

scanVars == <<running, pos, figCount, anchor, href>>

allVars == <<populate, created, hoverCopies, clickCopies, running, pos, figCount, anchor, href>>

\* The blocks of entry m's loop.
Blocks(m) == {BlocksOf[m][i] : i \in DOMAIN BlocksOf[m]}

\* The A a block is written with: examples and tables have a named one.
WrittenAnchor(b) ==
    IF Kind[b] = "noAnchor" \/ b \in Blocks(Figures) THEN None ELSE b

(***************************************************************************)
(* The blocks a loop gives an item: an example or a table needs its P and  *)
(* its A; a figure only needs its P, since its A is inserted.              *)
(***************************************************************************)
Readable(m, b) == IF m = Figures THEN Kind[b] # "noTitle" ELSE Kind[b] = "ok"

(***************************************************************************)
(* The page: each block is visited by one loop, at one position, and is    *)
(* none of the title pages or revision rows the other two entries turn     *)
(* into items; the items populate<m> creates, as UserGuideMenu abstracts   *)
(* them, are the blocks m's loop can read; and no name written in the page *)
(* is one of the "Figure_n" names populateFigures makes.                   *)
(***************************************************************************)
ASSUME PopulateAssumption ==
    /\ Scanned \subseteq Mains /\ Figures \in Scanned
    /\ BlocksOf \in [Scanned -> Seq(Subs)]
    /\ \A m, n \in Scanned : \A i \in DOMAIN BlocksOf[m], j \in DOMAIN BlocksOf[n] :
          BlocksOf[m][i] = BlocksOf[n][j] => m = n /\ i = j
    /\ Kind \in [Subs -> {"ok", "noTitle", "noAnchor"}]
    /\ \A m \in Scanned : Scraped[m] = {b \in Blocks(m) : Readable(m, b)}
    /\ \A m \in Mains \ Scanned, n \in Scanned : Scraped[m] \cap Blocks(n) = {}
    /\ Subs \cap Nat = {}
    /\ None \notin Mains \cup Subs \cup Nat

\* The items of the loop still running, which the menu does not show yet.
ScanItems == IF running = None THEN {} ELSE Blocks(running) \cap created

Menu == INSTANCE UserGuideMenu WITH created <- created \ ScanItems

PopInit ==
    /\ Init
    /\ running = None
    /\ pos = 1
    /\ figCount = 0
    /\ anchor = [b \in Subs |-> WrittenAnchor(b)]
    /\ href = [b \in Subs |-> None]

\* The pointer crosses a main link whose callback is set: the loop starts.
Hover(m) ==
    /\ running = None /\ populate[m]
    /\ running' = m
    /\ pos' = 1
    /\ figCount' = 0
    /\ UNCHANGED <<populate, created, hoverCopies, clickCopies, anchor, href>>

\* populateToc or populateChanges, reStyle and the nulling, in one step.
PopulateOther(m) ==
    /\ running = None
    /\ Populate(m)
    /\ UNCHANGED scanVars

\* The block the each() visits now.
Block == BlocksOf[running][pos]

Scanning == running # None /\ pos <= Len(BlocksOf[running])

\* Example or table: title from the P, anchor from the A's name, createItem.
ScanItem ==
    /\ Scanning /\ running # Figures /\ Readable(running, Block)
    /\ created' = created \cup {Block}
    /\ href' = [href EXCEPT ![Block] = anchor[Block]]
    /\ pos' = pos + 1
    /\ UNCHANGED <<populate, hoverCopies, clickCopies, running, figCount, anchor>>

(***************************************************************************)
(* Figure: the title is read, i_FigureCount++, an A named "Figure_" +      *)
(* i_FigureCount is inserted first in the figure, and the item links to it.*)
(***************************************************************************)
ScanFigure ==
    /\ Scanning /\ running = Figures /\ Readable(running, Block)
    /\ figCount' = figCount + 1
    /\ anchor' = [anchor EXCEPT ![Block] = figCount + 1]
    /\ created' = created \cup {Block}
    /\ href' = [href EXCEPT ![Block] = figCount + 1]
    /\ pos' = pos + 1
    /\ UNCHANGED <<populate, hoverCopies, clickCopies, running>>

\* Seeded fault: the figure's A is inserted before its title is read.
ScanSkipAnchored ==
    /\ Scanning /\ ~Readable(running, Block)
    /\ anchor' = IF running = Figures
                    THEN [anchor EXCEPT ![Block] = figCount + 1] ELSE anchor
    /\ pos' = pos + 1
    /\ UNCHANGED <<populate, created, hoverCopies, clickCopies, running, figCount, href>>

\* A child(...) is null and the next call on it throws: logged, skipped.
ScanSkip ==
    /\ Scanning /\ ~Readable(running, Block)
    /\ pos' = pos + 1
    /\ UNCHANGED <<populate, created, hoverCopies, clickCopies, running, figCount, anchor, href>>

\* Seeded fault: the handler does not null the callback.
EndPopulateKeepsCallback ==
    /\ running # None /\ pos > Len(BlocksOf[running])
    /\ hoverCopies' = Animate(hoverCopies, Mains \cup created)
    /\ clickCopies' = Animate(clickCopies, Mains \cup created)
    /\ running' = None
    /\ UNCHANGED <<populate, created, pos, figCount, anchor, href>>

\* The each() is over: reStyle() and populate<m> = null end the handler.
EndPopulate ==
    /\ running # None /\ pos > Len(BlocksOf[running])
    /\ hoverCopies' = Animate(hoverCopies, Mains \cup created)
    /\ clickCopies' = Animate(clickCopies, Mains \cup created)
    /\ populate' = [populate EXCEPT ![running] = FALSE]
    /\ running' = None
    /\ UNCHANGED <<created, pos, figCount, anchor, href>>

PopNext ==
    \/ \E m \in Scanned : Hover(m)
    \/ \E m \in Mains \ Scanned : PopulateOther(m)
    \/ ScanItem \/ ScanFigure \/ ScanSkip \/ EndPopulate

PopSpec == PopInit /\ [][PopNext]_allVars

-----------------------------------------------------------------------------
(***************************************************************************)
(* Every menu item the loops create leads to its own block: the click      *)
(* handler of dynamic-menu.js scrolls to the first element named by the    *)
(* item's href, and that name is found on the item's block and on no other *)
(* (so a figure that throws must not take a name a later figure gets).     *)
(***************************************************************************)
ItemsReachTheirBlocks ==
    \A b \in created \ UNION {Scraped[m] : m \in Mains \ Scanned} :
        /\ href[b] # None
        /\ {c \in Subs : anchor[c] = href[b]} = {b}

(***************************************************************************)
(* createItem runs at most once per block, so the menu never lists a block *)
(* twice: a loop's each() visits a block only while no item was made for  *)
(* it, because the hover handler nulls populate<m> after the loop and no   *)
(* block belongs to two loops.                                             *)
(***************************************************************************)
ItemCreatedOnce ==
    [][(ScanItem \/ ScanFigure) => Block \notin created]_allVars

(***************************************************************************)
(* The loops implement the lazy population UserGuideMenu describes: the    *)
(* items of a loop appear to the menu all at once, when its handler ends,  *)
(* as exactly the blocks it can read, with reStyle after them.             *)
(***************************************************************************)
PopulateRefinesMenu == Menu!Spec

=============================================================================
