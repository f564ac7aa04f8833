------------------------------- MODULE MCWorker -------------------------------
(* One job of each kind a configuration names, under the policies it names.    *)
EXTENDS Worker, TLC

CONSTANTS deep, summary, caption, caption2, local, index

OpOf == (deep :> "deep") @@ (summary :> "on_demand") @@ (caption :> "caption")
            @@ (caption2 :> "caption") @@ (local :> "local") @@ (index :> "index")
MCOp == [j \in Jobs |-> OpOf[j]]
MCSymmetry == Permutations(Consumers) \cup Permutations(Fps)
===============================================================================
