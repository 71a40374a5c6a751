------------------------- MODULE MCDeliveryPipeline -------------------------
(* Instances of the delivery pipeline for TLC. *)
EXTENDS PipelineRefinement, PipelineInvariant, TLC

AllWebhook == [n \in Notifications |-> "webhook"]
ServeWebhook == [w \in Workers |-> "webhook"]

\* Publishers, dispatchers and workers are interchangeable.
Processes ==
    Permutations(Publishers) \cup Permutations(Dispatchers) \cup Permutations(Workers)

============================================================================
