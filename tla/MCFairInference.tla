---------------------------- MODULE MCFairInference ----------------------------
(* Three cameras, the smallest pool with a camera ahead and one behind, under  *)
(* a live permit with and without preserved frames.                            *)
EXTENDS FairInference, TLC

CONSTANT NoCamera

MCPolicies == {[preserve |-> TRUE, quota |-> NoCamera],
               [preserve |-> FALSE, quota |-> NoCamera],
               [preserve |-> TRUE, quota |-> 2]}
===============================================================================
