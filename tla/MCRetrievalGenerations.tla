----------------------- MODULE MCRetrievalGenerations -----------------------
(* Instances of RetrievalGenerations for TLC.                              *)
EXTENDS RetrievalGenerations, TLC

CONSTANTS s1, s2, w1, w2, b1, b2, c1, r1

\* Two clean clones, each with a store of its own in the cache root.
TwoClones == s1 :> w1 @@ s2 :> w2

\* One working tree indexed into the default cache and into a --cache-dir.
OneTree == s1 :> w1 @@ s2 :> w1

Homes ==
    [a \in Actors |-> IF a \in {b1, r1} THEN s1 ELSE s2]

=============================================================================
