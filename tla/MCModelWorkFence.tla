--------------------------- MODULE MCModelWorkFence ---------------------------
(* Two consumers, one of them with two pieces of work, two writers and two     *)
(* inodes: work queues behind work, a second writer follows a lost one and a   *)
(* marker is re-linked under accepted work.                                    *)
EXTENDS ModelWorkFence, TLC

CONSTANTS k1, k2, w1, w2, w3, t1, t2

MCConsumers == {k1, k2}
MCWork == {w1, w2, w3}
MCOwner == (w1 :> k1) @@ (w2 :> k1) @@ (w3 :> k2)
MCTransactions == {t1, t2}
MCSymmetry == Permutations(Writers) \cup Permutations(Inodes) \cup Permutations(MCTransactions)
===============================================================================
