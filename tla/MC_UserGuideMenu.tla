--------------------------- MODULE MC_UserGuideMenu ---------------------------
(* The five main entries of the user guide; the table of contents yields  *)
(* two items, examples and changes one each, figures and tables none (a    *)
(* page without figures or tables).                                       *)
EXTENDS UserGuideMenu

CONSTANTS toc, examples, figures, tables, changes, s1, s2, s3, s4

MCMains == {toc, examples, figures, tables, changes}
MCSubs == {s1, s2, s3, s4}
MCScraped == [m \in MCMains |->
                 CASE m = toc      -> {s1, s2}
                   [] m = examples -> {s3}
                   [] m = changes  -> {s4}
                   [] OTHER        -> {}]
=============================================================================
