------------------------- MODULE PipelineRefinement -------------------------
(* The delivery pipeline implements the history of attempts. *)
EXTENDS DeliveryPipeline

\* The numbers of the attempts notification n has.
Numbers(n) == {k \in 1 .. MaxNumber : Exists(<<n, k>>)}

\* The attempts of n, in the order of their numbers.
AttemptLog(n) == [k \in 1 .. Cardinality(Numbers(n)) |-> attempt[<<n, k>>]]

History == INSTANCE AttemptHistory
             WITH log <- [n \in Notifications |-> AttemptLog(n)]

\* Whatever the queues, the duplicates and the crashes do, each attempt moves
\* pending -> in_progress -> outcome exactly once and is followed by another
\* only through a retry or a replay (the compare-and-set updates and the
\* Ensure...Attempt transactions of the store).
ImplementsHistory == History!Spec

============================================================================
