-------------------------- MODULE MCBrokerAdapters --------------------------
(* Two tasks in different partitions, both of which one worker may have; one of
   them is retried. *)
EXTENDS BrokerAdapters

CONSTANTS t1, t2, w1, w2

TwoPartitions == t1 :> 1 @@ t2 :> 2
OneRetry == t1 :> 2 @@ t2 :> 1
OneOrTwo == {l \in [{w1, w2} -> 1..2] : l[w1] + l[w2] <= 3}
WorkerSymmetry == Permutations({w1, w2})

=============================================================================
