# Verification of the CLI toolkit web pages

This directory holds TLA+ models of the JavaScript that drives the CLI toolkit's
web pages: `src/zfsd/control/cli/lib/cli-2.7/web/` (`dynamic-menu.js`,
`dynamic-dialog.js`, `cli-toolkit.js`, `xml-node.js`,
`user-guide/cli-user-guide.js`). It contains TLC configurations that
model-check the modules on small instances, and TLAPS proofs of the main
invariants for every instance.

## The system

Everything runs in one browser event loop. Each handler runs to completion, and
the interleavings come from the order in which events and timers are delivered:

* **DynamicMenu** (`dynamic-menu.js`) builds a nested `UL/LI/A` menu.
  * `createItem` appends an item under its parent.
  * Then it walks from the new item up to the root and raises z-indexes. The walk
    stops at the first ancestor that is already above the running counter.
  * `show()` displays the menu and arms a 1 s timer that hides it.
  * `animate()` binds the hover handlers on every `LI`. The 'on' handler cancels
    the hide timer and shows the sub-list. The 'out' handler hides the sub-list
    and re-arms the hide timer.
  * `animate()` also binds a click handler on every `A`, which hides the menu.
  * All timers share one handle, `hHideMenu`.
* **DynamicDialog** (`dynamic-dialog.js`) wraps a jQuery UI modal dialog.
  * The first `open()` runs `createResource`. That binds, on every link of the
    page, a click handler that closes `window.lastDialog`.
  * Every `open()` sets `window.lastDialog` to the dialog it opens.
  * `close()` sets `window.lastDialog` to null.
* **UserGuideMenu / UserGuideInfo** (`cli-user-guide.js`) build the user
  guide's menu.
  * Main items are populated lazily, on the first hover.
  * Each revision-history item opens its dialog through `showDlg`, which defers
    `open()` by 10 ms.
  * Each note/tip callout opens its dialog on click, at once.
  * 100 ms after the page loads, a timer runs `makeInfos` over the notes and
    then the tips. Each callout `DIV` becomes a `UserGuideInfo`: its `H3`
    title is removed, the rest moves into a new `DynamicDialog`, and a `UL/LI`
    is left in the `DIV`. The `LI` shows a preview of the text and opens the
    dialog.
  * The examples, figures and tables entries are filled by loops over the
    page's `.example`, `.informalfigure` and `.table` blocks. A block that
    throws is logged and skipped. `populateFigures` numbers the figures it
    can read and inserts an anchor `Figure_n` in each.
* `cli-toolkit.js` builds the home page menu and calls `animate()` and `show()`.
  `xml-node.js` holds DOM helpers, among them `fullText`, which joins a
  node's texts with the whitespace normalised.

The menu and the dialogs interact in two ways. A click on a link both hides the
menu and closes `window.lastDialog`. The 10 ms deferral of `showDlg` exists so
that the dialog is not hidden by the menu closing on the same click.

## Modules

| Module | Models | State | Actions |
|---|---|---|---|
| `MenuItems` | `DynamicMenuItem`, `DynamicMenu.createItem` (dynamic-menu.js:31-169) | `items`, `parent`; the z-index of each link/LI (`z`) and of each sub-list (`zUl`); `zMain` of the main UL; the loop variables `cur` (`p_Item`) and `iz` (`i_zIndex`) | `CreateItem` (the constructor and the loop's start), `RaiseZIndex` (one loop iteration), `StopRaising` (the `break`). Other calls wait until the loop ends (`Idle`), as they would in a single-threaded page. |
| `MenuHover` | `show`, the hover and click handlers of `animate`, `hide` (dynamic-menu.js:171-180, 300-358, 451-469) | pointer position `ptr`; `menuShown`; `subShown` per item; `timers` (handle → `"show"`/`"out"`/none); `hHideMenu` | `MovePointer(y)`: all the 'out' handlers of the LIs left, innermost first, then all the 'on' handlers of the LIs entered. `HideTimerFires(h)`. `ClickLink`. |
| `UserGuideMenu` | the user guide menu's constructor, its lazy `populate*` hooks and `reStyle` (cli-user-guide.js:27-198, dynamic-menu.js:300-313) | `populate` (which hooks are still set), `created` sub-items, the copies of `animate()`'s hover pair (`hoverCopies`) and click handler (`clickCopies`) bound on each item | `Populate(m)`: the hover handler of main entry `m` while its hook is set: scrape, `reStyle` (which calls `animate()`), null the hook |
| `TocBuilder` | `populateToc`'s walk over `.titlepage` blocks (cli-user-guide.js:105-125) | the document `doc` (heading levels, or `Bad` for a block that throws), the index `i`, `ar` (`ar_TocItems`), `parentOf` (the parent each heading's `createItem` got) | `SkipTitle` (an h1 or a block that throws), `AddTocItem` |
| `ChangesScan` | `populateChanges`'s loop over one revision-history table (cli-user-guide.js:201-255) | `rows` (TD count per row, capped at 2), the index `i`, `changes` (rows that became items, in order), `removed` | `ScanPair` (one iteration), `RemoveTable` (the loop exits; the table is removed) |
| `TabsBuilder` | `onLoad`'s level-2 tabs (cli-toolkit.js:72-103), with `XmlNode.name` and `XmlNode.child` (xml-node.js:36-59) | the div's children `page` (`h5`, `h5NoLink`, `div`, other), the headings still to visit (`todo`) and still in the div (`inDiv`), `count` (`i_TabCount`), the `tabId` of each panel, the `href` of each heading's link, the links in the tab bar `ul` | `MakeTab`, `TabNoDiv` (the sibling walk runs off the end and throws), `TabNoLink` (`child("a")` is null: the id is set and the count taken before the throw) |
| `ChangesOnce` | what `populateChanges` is to the hover handler that calls it (cli-user-guide.js:91-96): one step, since the handler runs to completion | `rows`, `items` (rows whose pair became an item, in menu order), `removed` | `Populate`: the table goes, and the items are the table's pairs in increasing row order |
| `MenuAutoHide` | the specification's promise for hiding (spec: dynamic menu): one pending auto-hide, cancelled by a hover, replaced by a new request | `shown`, `pending` | `Cancel`, `Rearm`, `Expire` (weakly fair), `Dismiss` |
| `InfoSteps` | the `makeInfos` timer and `UserGuideInfo.create` (cli-user-guide.js:301-365, 424-443), with `XmlNode.child` (xml-node.js:50-59); `fullText` is the operator constant `Text` | each callout's children at load (`content`) and now (`kids`), `made`, the dialog's children `dlg`, the LI's `title` (the preview) and `label`, `timer`, the callback's position `at` in `Order` (notes, then tips: a DIV of both classes occurs twice) | `InfoTimer` (the timer fires), `MakeInfo` (one callout, the whole constructor), `MakeInfoFails` (no `H3` child: logged, skipped), `InfoTimerDone` |
| `InfoOnce` | what the info construction promises (spec: an info callout is "a one-time, irreversible transformation", its dialog "created exactly once, at construction"): each callout is shown as its markup or as the info built from it | `content`, `shown` (what the page shows of each callout) | `Build(c)`: an untouched callout with a title becomes its info |
| `UserGuideInfo` | `XmlNode.fullText` (xml-node.js:79-98), given to `InfoSteps` for `Text` by the configuration, and a reference reading of the markup | none of its own | none. Texts are sequences of one-character strings; `FullText` is recursive. |
| `UserGuidePage` | the composition of `DynamicDialog` and `InfoSteps`: the info dialogs are the callouts, and an info LI exists to be clicked only once its callout has been made | both modules' variables | the dialog actions, guarded by `Idle` (no click while the timer callback runs), with `ClickMadeInfo(d)` for the info clicks; `InfoSteps`' actions |
| `MenuPopulate` | `populateExamples`, `populateFigures`, `populateTables` one block per step, inside the hover handlers of `UserGuideMenu.create` (cli-user-guide.js:51-198) | `UserGuideMenu`'s variables, plus the running entry, the loop position `pos`, `figCount` (`i_FigureCount`), the `anchor` name found first in each block, the `href` of each block's item | `Hover(m)`, `ScanItem` (an example or a table), `ScanFigure`, `ScanSkip` (a read that throws), `EndPopulate` (`reStyle`, null the hook); `PopulateOther(m)` is `UserGuideMenu`'s `Populate` for the TOC and the changes |
| `DynamicDialog` | `DynamicDialog` and its two callers (dynamic-dialog.js:32-100, cli-user-guide.js:234-241, 367-379) | `fullyCreated`, `handlers` (link click handlers bound), `isOpen`, `lastDialog`, `pending` showDlg timers | `ClickChangeItem`, `ShowDlgTimer`, `ClickInfo`, `ClickLinkInDialog`, `DismissWidget` (the widget's own close button) |

Data is abstracted:

* items and dialogs are model values;
* texts, URLs and colours are left out;
* `hide()`'s slide animation is modelled as `menuShown := FALSE`.

## Runs

| Run | Checks | Result |
|---|---|---|
| `MC_MenuItems.cfg` | `TypeOK`, `ZIndexIsHeight`, `UlBelowLink`; 5 items, symmetry over items | passes (216 states) |
| `MC_MenuItems_spec8.cfg` | `SpecNonDecreasingToLeaf` | violated (see Findings) |
| `MC_UserGuidePage.cfg` | `InfoMatchesCallout` (the preview checked against `IsPreviewOf`, the cut as `spec.md` words it, not against the model's `Preview`) and `InfosEventuallyMade` (under weak fairness of the timers); `Text <- FullText`; 2 change dialogs, 2 pending timers each, a note of both classes and a tip whose content ranges over 7 callout bodies | passes (61,692 states) |
| `MC_DynamicDialog_tracked.cfg` | `DisplayedIsTracked` | violated |
| `MC_MenuHover.cfg` | `SubmenuOnlyWhenHovered`, `SingleHideTimer`, `AwayMenuHides`, and the refinement `AutoHideSpec` (`MenuAutoHide!Spec` with `shown <- menuShown`, `pending <- HidePending`, meaning some timer is pending); a 7-item tree of depth 3 (one level deeper than the home page's menu, as deep as the user guide's table of contents), 4 timer handles | passes |
| `MC_MenuHover_hover.cfg` | `NoAutoHideUnderPointer`, under `OutsideSpec`: the page loads with the pointer away from the menu, so `show()`'s documented one-second hide cannot be the cause | violated |
| `MC_MenuPopulate.cfg` | `ItemsReachTheirBlocks`; the refinement `PopulateRefinesMenu` (`UserGuideMenu!Spec` with `created <- created \ ScanItems`); five entries, two examples, three figures and two tables, one of each kind failing | passes (976 states) |
| `MC_UserGuideMenu_once.cfg` | `HandlersBoundOnce` | violated |
| `MC_TocBuilder.cfg` | `TocFollowsOutline`; every document of up to 4 blocks with levels 1..4 or `Bad` | passes (3711 states) |
| `MC_ChangesScan.cfg` | `ScanCoversPairs`; every table of up to 6 rows | passes (4238 states) |
| `MC_ChangesScan_order.cfg` | `ScannedFromEnd` | violated |
| `MC_TabsBuilder.cfg` | `TabsMatchPanels`, `TabsSurviveMissingLink`; every div of up to 5 children | passes (4551 states) |

**Bounds.**

* Five items give every tree shape up to depth 4. The loop's early `break`
  needs an ancestor that is already higher than the new branch, which takes
  depth 3.
* Two pending timers per change dialog and two change dialogs are the least
  that exposes the deferred-open race.
* Four timer handles let the show timer, an 'out' timer and a leaked one
  coexist.
* Four headings of four levels include every level jump of two and a return
  to a shallower section after a deeper one; six rows give the header and
  pairs (1, 2), (3, 4) with a trailing odd row. Five children of the tabs div
  allow two headings sharing a panel next to a well-formed heading/panel
  pair.
* The seven callout bodies of `MC_UserGuidePage` each stress one part of
  `create()`: an `H3` first; blank text and double spaces around the `H3`
  and a nested `B`; no `H3` (the constructor throws); a comment and an empty
  `H3`; two `H3`s (only the first is removed); a text of four characters
  with a newline, longer than `PreviewLen = 3` (the cut and the `...`); an
  `H3` nested in a `DIV` (not a child, so it throws). The note and the tip
  range over all of them, so a failing callout comes before and after a
  good one. The note is of both classes, so `Order` is `<<n1, n1, t1>>`:
  its second visit finds the rebuilt DIV. Without it no callout could be
  rebuilt, and a `create()` that left an `H3` in the DIV would go unseen.
  The texts of two to five characters put one exactly at the cut of 3: a
  cut at `>=` instead of `>` (`PreviewAtLimit`) breaks `InfoMatchesCallout`.
* `MC_MenuPopulate` has a good block and a failing one in each loop, and a
  failing figure between two good ones, which is where a figure number
  could be shared.
* `MovePointer` only moves to items whose ancestors' sub-lists are visible, as
  a user can. `CHECK_DEADLOCK FALSE` is used for `MenuItems`, where the
  pool of item identities runs out, and for the three page scans and the lazy
  population, which end once the page is built.

**Fairness.** A browser fires every pending `setTimeout`, so the timer actions
are weakly fair. No fairness is assumed for the user's moves and clicks. The
`makeInfos` callback runs to its end once it starts, so its steps are weakly
fair. That fairness is stated on `CallbackStep`, the callback's steps seen on
`(timer, at)` alone. Stated on `MakeInfo` itself, TLC would evaluate `ENABLED`
of the recursive `FullText`, which it cannot cache, on every state.

## Findings

1. **z-index order** (`dynamic-menu.js:152`). The code gives each item its
   subtree height as z-index, so a parent is drawn above its children. The
   specification says z-index is non-decreasing from root to leaf.
2. **Untracked dialog** (`cli-user-guide.js:239`).
   * Click a revision-history item once, then a note, before the 10 ms timer
     fires. Two modal dialogs are now open, and `window.lastDialog` names only
     the last.
   * A link click then closes the tracked one and leaves the other displayed.
     That contradicts the comment at `dynamic-dialog.js:69`.
3. **Menu hides under the pointer** (`dynamic-menu.js:342`). The page loads
   with the pointer away from the menu. The pointer enters `r1`, moves onto
   its sub-item `a`, then back onto `r1`'s own link. Leaving `a` runs only
   `a`'s 'out' effect, which arms the hide timer; `r1` is still hovered and
   gets no mouseenter to cancel it. The timer fires with the pointer on
   `r1`, although hovering an item is meant to cancel any pending hide.
   (`show()`'s own timer also fires if the page loads under the pointer, but
   that one-second hide is documented at `dynamic-menu.js:175`, so the run
   excludes it.)

4. **Revision order** (`cli-user-guide.js:207`). The comment says the rows are
   scanned from the end to restore chronological order. The loop runs from
   row 1 forwards, so the "Changes" items come in table order. Every
   well-formed pair does become exactly one item.
5. **Preview length** (`cli-user-guide.js:327`). `spec.md` says the preview
   is at most 100 characters in one place and "the first 100 characters
   followed by an ellipsis" in another. The code cuts the text to 100
   characters and appends `...`, so a preview has up to 103.
   `InfoMatchesCallout` states what the code does.
6. **Handlers bound twice** (`cli-user-guide.js:53`). Each lazy population
   ends with `reStyle`, which calls `animate()` again. The second population
   binds another copy of the hover and click handlers on every item already
   animated. After k populations each main entry carries k copies.

**Why two properties have preconditions.**

* `TocFollowsOutline` assumes an outline that never skips a level. A heading
  that follows a section two levels up (an h4 right after an h2) is created
  under `ar_TocItems[2]` (`cli-user-guide.js:120`). That entry is undefined,
  or holds an item of an earlier section, so the heading lands in the menu's
  top level or under the wrong section.
* `TabsMatchPanels` assumes each linked H5 comes right before its own panel.
  The sibling walk (`cli-toolkit.js:88`) does not stop at the next H5, so two
  headings before one panel both name it and the second id overwrites the
  first. A heading without a link takes a count and renames its panel before
  it throws (line 94). `TabsSurviveMissingLink` covers that case: on markup
  where every heading has its own panel, a heading without a link spoils no
  other tab.

## Proofs

* `MenuItems_proofs`:
  * `TypeCorrect`: `Spec => []TypeOK`.
  * `ZIndexCorrect`: `Spec => [](ZIndexIsHeight /\ UlBelowLink)`, for every
    set of items.
  * The inductive invariant `IInv` says that every created item except the
    one the loop is visiting (`cur`) already satisfies the invariants. It also
    says what the loop guarantees about `cur`: every child of `cur` is at most
    `iz` or below `z[cur]`, and some child reaches `iz`.
  * `UlBelowLinkHolds`: `Spec => []UlBelowLink`, as a corollary.
  * The invariant alone is not inductive, because in mid-loop the ancestors of
    the new item are temporarily too low. `IInv` was first checked with TLC.
* `DynamicDialog_proofs`:
  * `TypeCorrect`.
  * `ResourceOnce`: `Spec => []ResourceCreatedOnce`, for any finite set of
    dialogs. No run checks it: it is the `bFullyCreated` guard of `open()`
    (`dynamic-dialog.js:82-85`) carried through every step. The step is by `FS_AddElement`: `open()` adds its dialog to the
    set of created ones and bumps the handler count only when it was new.
  * Both rest on lemmas about the safety part `DialogSafe` alone
    (`Init /\ [][Next]_vars`), which the page composition also satisfies.
* `TocBuilder_proofs`:
  * `TypeCorrect`, and `TocOutline`: `Spec => []TocFollowsOutline` for every
    `MaxLevel` and `MaxHeadings`.
  * `IInv` characterises the loop's table: `ar[l]` is `LatestAt(doc, l + 1, i)`,
    the latest valid heading of level l + 1 before `i`, or the TOC entry for
    level 1, or undefined. Each created heading's parent is the latest heading
    one level up when it was reached. `LatestStep` gives the one-step update
    of `LatestAt`.
  * `OutlineLemma` does the outline reasoning: in a well-nested document the
    latest heading one level up is the nearest earlier heading of a smaller
    level. The proof takes the greatest such heading and shows by
    contradiction that a later, shallower or equal heading would force a skipped
    level. Least elements come from the well-foundedness of `<` on `Nat`.
* `MenuPopulate_proofs` (which also holds the proofs about `UserGuideMenu`):
  `AllAnimated`: `Spec => []EveryItemAnimated` for
  any sets of entries and sub-items. The invariant is strengthened only by
  the finiteness of the set of populated entries. That lets `FS_AddElement`
  show that each population adds exactly one to the count that every main
  entry's hover copies track.
* `ChangesScan_proofs`: `CoversPairs`: `Spec => []ScanCoversPairs` for every
  `MaxRows`. The invariant keeps `i` odd and within the table. It says the
  items made so far are exactly the pairs `Found` among the rows passed, and
  that their number is `Cardinality(Found)`: each `ScanPair` adds the new odd
  row `i`, which is not yet in `Found`. Once the loop test fails, the odd rows
  below `i` are the odd rows up to `NRows - 2`.
* `MenuHover_proofs`: `SingleTimer` (`Spec => []SingleHideTimer`) and
  `SubmenuHovered` (`Spec => []SubmenuOnlyWhenHovered`) for every menu tree
  and set of handles. The two invariants and `TypeOK` are inductive together.
  A move clears the one pending timer before it arms one, and the only timer
  that can fire is the one `hHideMenu` names. What a move leaves and enters
  are differences of hovered sets, so the proofs never look inside the
  recursive `AncOrSelf`.
* `MenuHover_proofs`, `Refines`: `Spec => AutoHide!SafeSpec`. `show()` maps to
  `MenuAutoHide`'s initial state. A move that enters an LI maps to `Cancel`,
  one that enters none to `Rearm`, a timer firing to `Expire`, and a click
  to `Dismiss`. The step proof uses the same invariant: without
  `SingleHideTimer`, an enter would leave an orphaned timer pending and a
  firing timer would leave another one behind.
* `TabsBuilder_proofs`, `TabsCorrect`: `Spec => []TabsMatchPanels` for
  every `MaxChildren`. The invariant says that the headings still to visit
  all come after the ones already visited, so `Current`, the least of them,
  is the each()'s next heading. Every id set so far is below `count`, and
  ids are pairwise distinct. On well-formed markup, the tab bar holds exactly
  the visited headings, `inDiv = todo`, and each link's href equals its
  panel's id. The key lemma, `PanelBeforeNext`, says that a heading's panel
  lies before the next heading. So the panel `MakeTab` names is past the
  panels of all earlier links, and their ids are left alone.
* `TabsBuilder_proofs`, `TabsSurvive`: `Spec => []TabsSurviveMissingLink`
  for every `MaxChildren`. `PanelBeforeNext` is stated for `OwnPanels`
  (every heading followed by its own panel), which `WellFormed` implies. A
  second invariant, `OwnInv`, holds on such markup:
  * the visited headings' panels, and only they, hold ids;
  * every id below `count` is on some panel;
  * the div keeps the headings left plus the visited ones without a link;
  * the bar holds visited headings only, each with its panel's id.
  `OwnCurrent` shows that the next heading's panel lies past every visited
  heading's panel, so it has no id yet. `TabNoLink` and `MakeTab` then give
  it the fresh id `count`.
* `ChangesScan_proofs`, `ScanRefines`: `Spec => ScanRefinesOnce` for every
  `MaxRows` (proved only; TLC's `ScanCoversPairs` already says as much on
  the small instance). The menu sees no item until the table is removed: the hover
  handler runs `populateChanges` to completion. So a `ScanPair` maps to a
  stutter, and `RemoveTable` maps to `ChangesOnce`'s one step. For that step,
  `OInv` adds two facts to the coverage invariant: the items are increasing,
  and all are below `i`. The step appends `i` and moves `i` on by 2. A lemma,
  `LoopDone`, shows that once the loop test fails the pairs passed are all
  the pairs. With that, the items at removal list `ChangePairs(rows)` once
  each, in increasing order.
* `MenuPopulate_proofs`, for any page:
  * `ItemsReach`: `PopSpec => []ItemsReachTheirBlocks`.
  * `PopulateRefines`: `PopSpec => PopulateRefinesMenu`.
  * `CreatedOnce`: `PopSpec => ItemCreatedOnce` (a loop never reads a
    block that already has an item; proved only).
  * All three rest on one inductive invariant, `PInv`, which TLC checked on
    the `MC_MenuPopulate` instance before it was proved:
    * for each loop, the blocks with items are the readable blocks it has
      passed (`ReadUpTo(m, pos - 1)` while it runs). There are none before
      its hover, and after it they are `Scraped[m]`;
    * a figure has a number exactly when its item exists;
    * while the figures loop runs, the numbers are at most `figCount`, and
      no two figures share one;
    * examples and tables keep their written anchor;
    * a loop item's `href` is its block's anchor.
  * `ItemsReach` follows from `PInv`: the numbers of figures and the
    written names are disjoint sets, and both are injective.
  * `CreatedOnce` follows from `BlockNotBefore`: the block at position
    `pos` is none of the blocks before it.
  * The refinement maps each step as follows. `Hover` and the three scan
    steps are stutters: a block read by the running loop is in `ScanItems`.
    `EndPopulate` is `Populate(running)`, since the loop has read exactly
    `Scraped[running]`. `PopulateOther` is `Populate` itself.
  * The proofs use the page assumptions in `PopulateAssumption`, which the
    model relies on and which now say so:
    * a loop's blocks are not TOC title pages or revision rows;
    * no name written in the page is a `Figure_n`.
* `InfoSteps_proofs`, for any callouts, visiting order (a callout may
  occur twice), markup, preview cut and `Text`. The four theorems are about
  `PageSpec`, the spec `MC_UserGuidePage.cfg` checks. Their properties are
  proved, not model-checked: on the instance they follow from
  `InfoMatchesCallout` or from the guard of `open()`.
  * `PageInfosBuilt`: `PageSpec => []InfoBuilt`;
  * `PageNeverRebuilt`: `PageSpec => InfoNeverRebuilt`;
  * `PageRefinesInfo`: `PageSpec => InfoRefinesOnce`;
  * `PageResourceOnce`: `PageSpec => []ResourceCreatedOnce`.
  * First they are proved for the safety part of `InfoSpec`. The inductive
    invariant `IInfo` adds two facts to `InfoBuilt`, and TLC checked it on
    the page run first:
    * the per-callout variables are functions on `Callouts` (the `EXCEPT`s
      need it);
    * a DIV's children are its loaded ones or the info's list.
  * The key lemma is `VisitedUntouched`. A made callout holds only the
    `UL`, and `child("h3")` of that is null (`NoH3InList`). So `MakeInfo`
    only runs on an untouched callout and reads its loaded markup. A second
    visit throws, which `MakeInfoFails` models.
  * The refinement maps `MakeInfo` to `InfoOnce`'s `Build(Visited)`. The
    timer, the other visits and the errors map to stutters.
  * `PageInfoStep` and `PageDialogStep` show that every page step is an
    info step or leaves the info variables alone, and is a dialog step or
    leaves the dialog variables alone. So the page satisfies `InfoSafe`
    and `DialogSafe`, and all four results carry over.
* Only model-checked:
  * liveness (`AwayMenuHides`, `InfosEventuallyMade`,
    and the fairness part of `AutoHideSpec`), since TLAPS does not handle the
    fairness reasoning used here;
  * `InfoMatchesCallout`: its structure is proved as `InfoBuilt`, for any
    `Text`. What is left is that `FullText` equals the reference `RefText`
    on the callouts' markup, and that `Preview` makes the cut `IsPreviewOf`
    states. That is induction over data, and `FullText`,
    `Squeeze` and `TextLeaves` are recursive operators, which TLAPS cannot
    take;
  * the findings, which are TLC counterexamples on the small instances.

## Not modelled, and plan

* Next:
  * a composed model of the menu's hide and the dialogs' link handler on
    one click.
* Not modelled:
  * the geometry reads of `xml-node.js` (`top`, `left`, sizes, the window);
  * the titles of the menu items `populate*` create (no property reads
    them);
  * styling (`applyStyles`, `colorMenu`, `applyMoreStyles`) and `onScroll`,
    which are layout only;
  * `onItemMouseOver`, which scrolls sub-lists by pixel offsets;
  * the anchor scroll of the link click handler (dynamic-menu.js:360-389).
    It is geometry, and it throws on a name-only `A` only after the menu
    change that `ClickLink` models;
  * `mailTo`, which decodes a fixed string into the page.
