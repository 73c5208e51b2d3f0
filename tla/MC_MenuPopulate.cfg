\* The lazy population of all five entries, in every order, with the loops
\* of examples, figures and tables taken one block at a time.
CONSTANTS
    toc = toc
    examples = examples
    figures = figures
    tables = tables
    changes = changes
    e1 = e1
    e2 = e2
    f1 = f1
    f2 = f2
    f3 = f3
    t1 = t1
    t2 = t2
    s1 = s1
    s2 = s2
    None = None
    Mains <- MCMains
    Subs <- MCSubs
    Scanned <- MCScanned
    Figures <- figures
    BlocksOf <- MCBlocksOf
    Kind <- MCKind
    Scraped <- MCScraped
SPECIFICATION PopSpec
INVARIANT ItemsReachTheirBlocks
PROPERTY PopulateRefinesMenu
\* Once every entry has been populated no handler changes the menu.
CHECK_DEADLOCK FALSE
