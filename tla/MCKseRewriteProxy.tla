------------------------- MODULE MCKseRewriteProxy --------------------------
(* TLC instances of KseRewriteProxy.  Requests are interchangeable, so the *)
(* runs that check no liveness use them as a symmetry set.                 *)
EXTENDS KseRewriteProxy, TLC

RequestSymmetry == Permutations(Requests)

\* Everything the policy can decide: bypass, and GET and HEAD of a profile.
AllArrivals ==
    {[decision |-> "bypass", headOnly |-> FALSE]} \cup
    [decision : {"forced", "html"}, headOnly : BOOLEAN]

\* One HEAD request is enough beside others: a HEAD request takes no permit.
MixedArrivals == AllArrivals \ {[decision |-> "html", headOnly |-> TRUE]}

\* Only requests that need a permit: for the runs about admission.
RewriteArrivals == {[decision |-> "forced", headOnly |-> FALSE]}
=============================================================================
