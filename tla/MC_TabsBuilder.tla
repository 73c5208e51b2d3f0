---------------------------- MODULE MC_TabsBuilder ----------------------------
(* Every div of up to five children: two headings sharing a panel, a      *)
(* heading with no panel after it and a heading without a link all fit.   *)
EXTENDS TabsBuilder

MCMaxChildren == 5
=============================================================================
