---------------------------- MODULE MC_MenuHover ----------------------------
(* Model-checking instance of MenuHover: three top-level items; r1 has    *)
(* sub-items a and b, a has a sub-item c (the user guide's table of        *)
(* contents nests this deep), r2 has one sub-item d, r3 none; and four     *)
(* timer handles (one pending, one stale, two to hand out).               *)
EXTENDS MenuHover

CONSTANTS r1, r2, r3, a, b, c, d

MCItems == {r1, r2, r3, a, b, c, d}

MCParent == [x \in MCItems |-> CASE x \in {a, b} -> r1
                                 [] x = c -> a
                                 [] x = d -> r2
                                 [] OTHER -> Null]

(***************************************************************************)
(* Page loads with the pointer away from the menu: show()'s own timer then *)
(* fires with nothing hovered, or is cancelled by the first mouseenter.   *)
(***************************************************************************)
OutsideInit == Init /\ ptr = Outside

OutsideSpec == OutsideInit /\ [][Next]_vars /\ Fairness
=============================================================================
