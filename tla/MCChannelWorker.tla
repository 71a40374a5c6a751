-------------------------- MODULE MCChannelWorker --------------------------
(* Instances of ChannelWorker for TLC. *)
EXTENDS ChannelWorker, TLC

CONSTANTS a, b, j1, j2, j3, j4

\* Two tenants with two jobs each, as in TestRunChannelWorkerRespectsConcurrency.
TwoEach == (j1 :> a) @@ (j2 :> a) @@ (j3 :> b) @@ (j4 :> b)

WithOptions(slots, burst, cap) ==
    [concurrency |-> slots, burst |-> burst, maxFlight |-> cap]

\* As in that test.
TestOptions == {WithOptions(2, 1, 1)}

\* A single slot, for which bursts of a tenant keep others waiting, and two.
OneOrTwoSlots == {WithOptions(1, 2, 1), WithOptions(2, 2, 1)}

\* One tenant with most of the jobs.
ThreeAndOne == (j1 :> a) @@ (j2 :> a) @@ (j3 :> a) @@ (j4 :> b)

============================================================================
