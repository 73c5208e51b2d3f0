--------------------------- MODULE MC_MenuPopulate ---------------------------
(* The five main entries; two examples (the second without its A), three  *)
(* figures (the middle one without its P), two tables (the first without  *)
(* its P); the table of contents and the changes yield one item each.     *)
EXTENDS MenuPopulate, TLC

CONSTANTS toc, examples, figures, tables, changes, e1, e2, f1, f2, f3, t1, t2, s1, s2

MCMains == {toc, examples, figures, tables, changes}
MCSubs == {e1, e2, f1, f2, f3, t1, t2, s1, s2}
MCScanned == {examples, figures, tables}
MCBlocksOf == (examples :> <<e1, e2>>) @@ (figures :> <<f1, f2, f3>>) @@ (tables :> <<t1, t2>>)
MCKind == [b \in MCSubs |-> CASE b = e2 -> "noAnchor"
                              [] b \in {f2, t1} -> "noTitle"
                              [] OTHER -> "ok"]
MCScraped == [m \in MCMains |->
                 CASE m = toc      -> {s1}
                   [] m = examples -> {e1}
                   [] m = figures  -> {f1, f3}
                   [] m = tables   -> {t2}
                   [] m = changes  -> {s2}]
=============================================================================
