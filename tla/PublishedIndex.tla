--------------------------- MODULE PublishedIndex ---------------------------
(***************************************************************************)
(* What the store promises of the core index of one repository: a single   *)
(* published index, replaced in one step by a complete one of a later      *)
(* generation, and never withdrawn.  Crashes, failed promotions and        *)
(* recoveries do not show.                                                 *)
(***************************************************************************)
EXTENDS Naturals

CONSTANTS
    Publications,  \* records with a field generation
    Leftover       \* what a version without journals may have left: the next
                   \* publication need not be numbered after it

VARIABLES
    published,     \* the publication that openers are to find
    acknowledged   \* publications whose writers were told that they succeeded

Init ==
    /\ published \in Publications
    /\ acknowledged = {}

Publish ==
    /\ published' \in Publications
    /\ published \in Leftover \/ published'.generation > published.generation
    /\ published' \notin Leftover
    /\ UNCHANGED acknowledged

Acknowledge ==
    /\ acknowledged' = acknowledged \cup {published}
    /\ UNCHANGED published

Spec == Init /\ [][Publish \/ Acknowledge]_<<published, acknowledged>>
=============================================================================
