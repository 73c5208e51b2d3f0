\* Whether the menu handlers are bound once, over every population order.
CONSTANTS
    toc = toc
    examples = examples
    figures = figures
    tables = tables
    changes = changes
    s1 = s1
    s2 = s2
    s3 = s3
    s4 = s4
    Mains <- MCMains
    Subs <- MCSubs
    Scraped <- MCScraped
SPECIFICATION Spec
INVARIANT HandlersBoundOnce
\* Once every entry has been populated no handler changes the menu.
CHECK_DEADLOCK FALSE
