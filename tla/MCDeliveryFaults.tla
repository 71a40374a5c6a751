-------------------------- MODULE MCDeliveryFaults --------------------------
(* Instances of DeliveryFaults for TLC. *)
EXTENDS DeliveryFaults, TLC

AllWebhook == [n \in Notifications |-> "webhook"]
ServeWebhook == [w \in Workers |-> "webhook"]

\* Publishers and workers are interchangeable.
Processes == Permutations(Publishers) \cup Permutations(Workers)

============================================================================
