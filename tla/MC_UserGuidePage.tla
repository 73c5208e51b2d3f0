--------------------------- MODULE MC_UserGuidePage ---------------------------
(* Model-checking instance of UserGuidePage: the two revision-history      *)
(* dialogs of MC_DynamicDialog, a note (n1, of both classes, visited by   *)
(* both loops) and a tip, fullText for Text, and a preview cut of 3        *)
(* characters so that texts of 2, 3, 4 and 5 characters fall on both      *)
(* sides of it.  The contents mix an H3 first, an H3 after other children, *)
(* two H3s, an H3 nested too deep, none; blank and newline-only text       *)
(* nodes, runs of spaces, nested inline elements and a comment.            *)
EXTENDS UserGuidePage, UserGuideInfo

CONSTANTS n1, t1

\* A text node, an element, a comment.
Tx(s) == [type |-> 3, name |-> "#text", kids |-> << >>, value |-> s]
El(n, ks) == [type |-> 1, name |-> n, kids |-> ks, value |-> << >>]
Comment == [type |-> 8, name |-> "#comment", kids |-> << >>, value |-> <<"a">>]

\* n1 is a DIV of class "note tip": both makeInfos loops visit it.
MCOrder == <<n1, n1, t1>>

MCContents == {
    << El("h3", <<Tx(<<"N">>)>>), El("p", <<Tx(<<"a", "b">>)>>) >>,
    << Tx(<<" ", NL>>), El("h3", <<Tx(<<" ", "T">>)>>), Tx(<<"a", " ", " ", "b">>),
       El("p", <<El("b", <<Tx(<<" ", "a">>)>>)>>) >>,
    << El("p", <<Tx(<<"a", "b">>)>>) >>,
    << El("p", <<Tx(<<"a">>)>>), Comment, El("h3", << >>), Tx(<<"b", NL>>) >>,
    << El("h3", <<Tx(<<"N">>)>>), El("h3", <<Tx(<<"b">>)>>), Tx(<<"a", NL, "b">>) >>,
    << El("h3", << >>), Tx(<<"a", "b", NL, "b">>) >>,
    << El("div", <<El("h3", <<Tx(<<"a">>)>>)>>), Tx(<<"a", "b">>) >> }
=============================================================================
