--------------------------- MODULE MCWeightCache ---------------------------
(***************************************************************************)
(* Small hosts for WeightCache.                                            *)
(***************************************************************************)
EXTENDS WeightCache, TLC

CONSTANTS p1, p2, p3, target, draft

\* Two pods of one model, the first with a separate draft head.
TwoPods == (p1 :> <<target, draft>>) @@ (p2 :> <<target>>)

\* A pod with a draft head, one without, and one that streams its weights
\* from S3 and stages the draft head only.
ThreePods == (p1 :> <<target, draft>>) @@ (p2 :> <<target>>) @@ (p3 :> <<draft>>)
=============================================================================
