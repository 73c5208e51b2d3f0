---------------------------- MODULE MC_MenuItems ----------------------------
(* Model-checking instance of MenuItems: five items, so that every tree    *)
(* shape of height up to five is built, in every creation order.           *)
EXTENDS MenuItems, TLC

\* Items are interchangeable: every property is stated for all of them.
ItemSymmetry == Permutations(Items)
=============================================================================
