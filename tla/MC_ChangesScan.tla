---------------------------- MODULE MC_ChangesScan ----------------------------
(* Every table of up to six rows: the header, two title/details pairs and *)
(* a row left over, each row with 0, 1 or 2+ cells.                        *)
EXTENDS ChangesScan

MCMaxRows == 6
=============================================================================
