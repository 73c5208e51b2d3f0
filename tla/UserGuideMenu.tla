---------------------------- MODULE UserGuideMenu ----------------------------
(***************************************************************************)
(* UserGuideMenu (cli-user-guide.js): five main entries created at once,   *)
(* each with a hover handler on its link that, while its populate callback *)
(* is set, scrapes the page into sub-items, runs reStyle (applyStyles,     *)
(* menu.animate(), applyMoreStyles) and nulls the callback.  The           *)
(* constructor does not call animate(); each reStyle does, and animate()   *)
(* binds its hover pair on every LI of the menu and its click handler on   *)
(* every link that exists at that moment.  Only the binding is modelled:   *)
(* what the handlers do is MenuHover's subject.                            *)
(***************************************************************************)
EXTENDS Naturals, FiniteSets

CONSTANTS
    Mains,    \* toc, examples, figures, tables, changes
    Subs,     \* the sub-items the page's markup yields
    Scraped   \* Scraped[m]: the sub-items populate* creates under m

ASSUME MenuAssumption ==
    /\ Mains \cap Subs = {}
    /\ Scraped \in [Mains -> SUBSET Subs]
    /\ \A m, n \in Mains : m # n => Scraped[m] \cap Scraped[n] = {}

Items == Mains \cup Subs

VARIABLES
    populate,     \* populate[m]: userGuideMenu.populate<m> is not null
    created,      \* sub-items created so far
    hoverCopies,  \* copies of animate()'s hover pair bound on each LI
    clickCopies   \* copies of animate()'s click handler bound on each link

vars == <<populate, created, hoverCopies, clickCopies>>

TypeOK ==
    /\ populate \in [Mains -> BOOLEAN]
    /\ created \subseteq Subs
    /\ hoverCopies \in [Items -> Nat]
    /\ clickCopies \in [Items -> Nat]

(***************************************************************************)
(* The constructor: create() builds the main items and binds the populate  *)
(* hooks; applyStyles, applyMoreStyles and show() follow; animate() is     *)
(* left for the first population.                                          *)
(***************************************************************************)
Init ==
    /\ populate = [m \in Mains |-> TRUE]
    /\ created = {}
    /\ hoverCopies = [x \in Items |-> 0]
    /\ clickCopies = [x \in Items |-> 0]

(***************************************************************************)
(* populateToc, populateExamples, populateFigures, populateTables and      *)
(* populateChanges: each scans its part of the page and creates one        *)
(* sub-item per block it can read under its main entry (a block that       *)
(* throws is skipped).  TocBuilder and ChangesScan model two of the scans. *)
(***************************************************************************)
Scrape(m) == Scraped[m]

\* animate(): one more copy of each handler on every item that exists.
Animate(copies, existing) ==
    [x \in Items |-> IF x \in existing THEN copies[x] + 1 ELSE copies[x]]

(***************************************************************************)
(* The pointer enters or leaves main entry m's link while its populate     *)
(* callback is set: populate<m>(), reStyle(), populate<m> = null.  With    *)
(* the callback null the handler does nothing.                             *)
(***************************************************************************)
Populate(m) ==
    /\ populate[m]
    /\ created' = created \cup Scrape(m)
    /\ hoverCopies' = Animate(hoverCopies, Mains \cup created')
    /\ clickCopies' = Animate(clickCopies, Mains \cup created')
    /\ populate' = [populate EXCEPT ![m] = FALSE]

Next == \E m \in Mains : Populate(m)

Spec == Init /\ [][Next]_vars

-----------------------------------------------------------------------------
\* Number of populations run so far.
Populations == Cardinality({m \in Mains : ~populate[m]})

(***************************************************************************)
(* Every sub-item the lazy population created reacts to the pointer and to *)
(* clicks: the reStyle that follows its creation binds animate()'s         *)
(* handlers on it, and every later population binds one more copy.         *)
(***************************************************************************)
EveryItemAnimated ==
    /\ \A x \in created : hoverCopies[x] >= 1 /\ clickCopies[x] >= 1
    /\ \A m \in Mains : hoverCopies[m] = Populations

(***************************************************************************)
(* The description of the lazy population: it happens at most once per     *)
(* entry and is idempotent, so the menu's handlers are bound once.         *)
(* Expected to fail: the second population's reStyle binds the hover pair *)
(* and the click handler a second time on every item already animated.     *)
(***************************************************************************)
HandlersBoundOnce ==
    \A x \in Items : hoverCopies[x] <= 1 /\ clickCopies[x] <= 1

=============================================================================
