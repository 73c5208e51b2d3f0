------------------------------ MODULE InfoOnce ------------------------------
(***************************************************************************)
(* What the note and tip transformation of the user guide promises, with   *)
(* no timer, no visiting order and no errors: the page shows each callout  *)
(* either as its markup or as the info built from that markup; a callout  *)
(* with a title is replaced by its info in one step and at most once, and  *)
(* one without a title stays as it is.                                     *)
(***************************************************************************)
CONSTANTS
    Callouts,     \* the callout DIVs
    Contents,     \* the children a callout may hold when the page loads
    Untouched(_), \* how the page shows a callout with these children
    Titled(_),    \* the children hold the callout's title
    Built(_)      \* how the page shows the info built from these children

VARIABLES
    content,  \* the children each callout had when the page loaded
    shown     \* shown[c]: what the page shows of callout c

onceVars == <<content, shown>>

Init ==
    /\ content \in [Callouts -> Contents]
    /\ shown = [c \in Callouts |-> Untouched(content[c])]

\* Callout c, still as it was loaded and titled, becomes its info.
Build(c) ==
    /\ shown[c] = Untouched(content[c])
    /\ Titled(content[c])
    /\ shown' = [shown EXCEPT ![c] = Built(content[c])]
    /\ UNCHANGED content

Next == \E c \in Callouts : Build(c)

Spec == Init /\ [][Next]_onceVars

=============================================================================
