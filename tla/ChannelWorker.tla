--------------------------- MODULE ChannelWorker ---------------------------
(***************************************************************************)
(* One channel worker process (internal/worker): the main loop of          *)
(* RunChannelWorker, the tenant-fair scheduler it buffers reserved jobs in,*)
(* the goroutines that process them, and the recovery loop beside it.      *)
(*                                                                         *)
(* The main loop hands out what the scheduler allows and otherwise blocks  *)
(* in ReserveChannel, which returns only with another job: an empty queue  *)
(* makes it wait again.  A goroutine frees its slot (<-sem) before it      *)
(* tells the scheduler (complete).  What processing a job does is left out *)
(* (see DeliveryPipeline).  The lists keep their order here, head first:   *)
(* jobs are pushed and reserved at the tail, and recovery moves them from  *)
(* the tail of the processing list to the head of the queue.               *)
(***************************************************************************)
EXTENDS Integers, FiniteSets, SequencesExt

CONSTANTS
    Tenants,
    Jobs,            \* job payloads that will arrive in the channel queue
    TenantOf,        \* job -> tenant
    OptionChoices,   \* Options the process may be started with; the code raises
                     \* each of them to at least 1
    RecoveryLoop,    \* whether StartRecoveryLoop was called
    MaxFaults        \* bound: failed reservations, and jobs recovered from a busy worker

ASSUME WorkerAssumption ==
    /\ IsFiniteSet(Tenants)
    /\ TenantOf \in [Jobs -> Tenants]
    /\ OptionChoices \subseteq [concurrency : Nat \ {0}, burst : Nat \ {0}, maxFlight : Nat \ {0}]
    /\ RecoveryLoop \in BOOLEAN /\ MaxFaults \in Nat

VARIABLES
    options,       \* Options: Concurrency, TenantBurst, TenantMaxInFlight
    queue,         \* the channel queue
    processing,    \* its processing list
    mainLoop,      \* "schedule": before nextJob; "full": has found all slots taken;
                   \* "reserve": in ReserveChannel
    pending,       \* fairScheduler.pending: tenant -> its buffered jobs
    order,         \* fairScheduler.order: tenants with buffered jobs
    next,          \* fairScheduler.next: index into order, from 0
    inflight,      \* fairScheduler.inflight
    lastTenant,    \* fairScheduler.lastTenant
    currentBurst,  \* fairScheduler.currentBurst
    sem,           \* len(sem)
    running,       \* job -> goroutines that process it
    finished,      \* job -> goroutines that have acknowledged it
    released,      \* tenant -> goroutines that freed their slot, before complete
    arrived,       \* jobs that were pushed to the queue so far
    processed,     \* history: jobs that were processed
    bypassed,      \* history: tenant -> hand-outs to others while it could run, since
                   \* the rotation last got a tenant
    faults         \* how many more faults may happen

schedulerVars == <<pending, order, next, inflight, lastTenant, currentBurst, bypassed>>
goroutineVars == <<sem, running, finished, released, processed>>
queueVars == <<options, queue, processing>>
vars == <<queueVars, mainLoop, schedulerVars, goroutineVars, arrived, faults>>

Concurrency == options.concurrency
Burst == options.burst
MaxFlight == options.maxFlight

NoTenant == "none"    \* the zero value of lastTenant

Copies(j, list) == Cardinality({i \in DOMAIN list : list[i] = j})

TypeOK ==
    /\ options \in OptionChoices
    /\ queue \in Seq(Jobs) /\ processing \in Seq(Jobs)
    /\ mainLoop \in {"schedule", "full", "reserve"}
    /\ pending \in [Tenants -> Seq(Jobs)] /\ order \in Seq(Tenants)
    /\ \A t \in Tenants : \A i \in DOMAIN pending[t] : TenantOf[pending[t][i]] = t
    /\ next \in Nat /\ sem \in 0 .. Concurrency /\ currentBurst \in Nat /\ faults \in Nat
    /\ lastTenant \in Tenants \cup {NoTenant}
    /\ inflight \in [Tenants -> Nat] /\ released \in [Tenants -> Nat]
    /\ bypassed \in [Tenants -> Nat]
    /\ running \in [Jobs -> Nat] /\ finished \in [Jobs -> Nat]
    /\ processed \subseteq arrived /\ arrived \subseteq Jobs

Init ==
    /\ options \in OptionChoices
    /\ queue = <<>> /\ processing = <<>>
    /\ mainLoop = "schedule"
    /\ pending = [t \in Tenants |-> <<>>]
    /\ order = <<>> /\ next = 0 /\ lastTenant = NoTenant /\ currentBurst = 0
    /\ inflight = [t \in Tenants |-> 0]
    /\ sem = 0
    /\ running = [j \in Jobs |-> 0] /\ finished = [j \in Jobs |-> 0]
    /\ released = [t \in Tenants |-> 0]
    /\ arrived = {} /\ processed = {}
    /\ bypassed = [t \in Tenants |-> 0]
    /\ faults = MaxFaults

----------------------------------------------------------------------------
(* The scheduler.                                                          *)

\* The tenant k places after next, round the order.
TenantAt(k) == order[((next + k) % Len(order)) + 1]

HasRoom(t) == pending[t] # <<>> /\ inflight[t] < MaxFlight
BurstSpent(t) == lastTenant = t /\ currentBurst >= Burst /\ Len(order) > 1

\* Plausible defects, for the mutation checks.
EligibleAboveCap(t) == pending[t] # <<>> /\ ~ BurstSpent(t)
BurstForgotten(t) == 1
AddWithoutCheck(j) ==
    LET t == TenantOf[j]
    IN  /\ order' = Append(order, t)
        /\ pending' = [pending EXCEPT ![t] = Append(@, j)]
AddOverBuffered(j) ==
    LET t == TenantOf[j]
    IN  /\ order' = IF pending[t] = <<>> THEN Append(order, t) ELSE order
        /\ pending' = [pending EXCEPT ![t] = <<j>>]

Eligible(t) == HasRoom(t) /\ ~ BurstSpent(t)

\* nextJob finds nothing.
NothingToRun == \A i \in DOMAIN order : ~ Eligible(order[i])

Add(j) ==
    LET t == TenantOf[j]
    IN  /\ order' = IF pending[t] = <<>> THEN Append(order, t) ELSE order
        /\ pending' = [pending EXCEPT ![t] = Append(@, j)]

\* The rotation without t, its other tenants in the order they had.
removeTenant(t) ==
    LET kept     == {i \in DOMAIN order : order[i] # t}
        Place(i) == Cardinality({k \in kept : k <= i})
    IN  [p \in 1 .. Cardinality(kept) |-> order[CHOOSE i \in kept : Place(i) = p]]

\* Hand-outs to t in a row, with the one being made.
BurstWith(t) == IF lastTenant = t THEN currentBurst + 1 ELSE 1

\* nextJob finds its job k places after next.
Take(k) ==
    LET t     == TenantAt(k)
        idx   == (next + k) % Len(order)
        burst == BurstWith(t)
    IN  /\ Eligible(t)
        /\ \A i \in 0 .. k - 1 : ~ Eligible(TenantAt(i))
        /\ pending' = [pending EXCEPT ![t] = Tail(@)]
        /\ inflight' = [inflight EXCEPT ![t] = @ + 1]
        /\ lastTenant' = t
        /\ currentBurst' = burst
        /\ order' = IF Len(pending[t]) = 1 THEN removeTenant(t) ELSE order
        /\ next' = IF order' = <<>> THEN 0
                   ELSE IF Len(pending[t]) = 1 \/ burst < Burst THEN idx % Len(order')
                   ELSE (idx + 1) % Len(order)
        /\ bypassed' = [u \in Tenants |-> IF u # t /\ HasRoom(u) THEN bypassed[u] + 1 ELSE 0]

----------------------------------------------------------------------------
(* The main loop.                                                          *)

HandOut ==
    /\ mainLoop = "schedule"
    /\ sem < Concurrency
    /\ \E k \in 0 .. Len(order) - 1 :
          /\ Take(k)
          /\ running' = [running EXCEPT ![Head(pending[TenantAt(k)])] = @ + 1]
    /\ sem' = sem + 1
    /\ UNCHANGED <<queueVars, mainLoop, finished, released, processed, arrived, faults>>

\* All slots are taken.  One of them may be freed before the loop looks again:
\* then it reserves, without asking the scheduler.
FindFull ==
    /\ mainLoop = "schedule"
    /\ sem = Concurrency
    /\ mainLoop' = "full"
    /\ UNCHANGED <<queueVars, schedulerVars, goroutineVars, arrived, faults>>

LookAgain ==
    /\ mainLoop = "full"
    /\ mainLoop' = IF sem = Concurrency THEN "schedule" ELSE "reserve"
    /\ UNCHANGED <<queueVars, schedulerVars, goroutineVars, arrived, faults>>

\* A free slot and nothing to run.
GoReserve ==
    /\ mainLoop = "schedule"
    /\ sem < Concurrency
    /\ NothingToRun
    /\ mainLoop' = "reserve"
    /\ UNCHANGED <<queueVars, schedulerVars, goroutineVars, arrived, faults>>

\* BRPOPLPUSH
ReserveJob ==
    /\ mainLoop = "reserve"
    /\ queue # <<>>
    /\ queue' = Front(queue)
    /\ processing' = <<Last(queue)>> \o processing
    /\ Add(Last(queue))
    /\ bypassed' = IF order' = order THEN bypassed ELSE [t \in Tenants |-> 0]
    /\ mainLoop' = "schedule"
    /\ UNCHANGED <<options, next, inflight, lastTenant, currentBurst, goroutineVars, arrived, faults>>

\* ReserveChannel returns an error (and has moved nothing).
ReserveFails ==
    /\ mainLoop = "reserve"
    /\ faults > 0 /\ faults' = faults - 1
    /\ mainLoop' = "schedule"
    /\ UNCHANGED <<queueVars, schedulerVars, goroutineVars, arrived>>

----------------------------------------------------------------------------
(* The goroutines.                                                         *)

\* Plausible defect, for the mutation checks: the slot is freed here already.
FinishReleasingSlot(j) ==
    /\ running[j] > 0
    /\ processing' = RemoveFirst(processing, j)
    /\ running' = [running EXCEPT ![j] = @ - 1]
    /\ finished' = [finished EXCEPT ![j] = @ + 1]
    /\ processed' = processed \cup {j}
    /\ sem' = sem - 1
    /\ UNCHANGED <<options, queue, mainLoop, schedulerVars, released, arrived, faults>>

\* The processor returns, and runReserved acknowledges the job (LREM).
Finish(j) ==
    /\ running[j] > 0
    /\ processing' = RemoveFirst(processing, j)
    /\ running' = [running EXCEPT ![j] = @ - 1]
    /\ finished' = [finished EXCEPT ![j] = @ + 1]
    /\ processed' = processed \cup {j}
    /\ UNCHANGED <<options, queue, mainLoop, schedulerVars, sem, released, arrived, faults>>

ReleaseSlot(j) ==
    /\ finished[j] > 0
    /\ finished' = [finished EXCEPT ![j] = @ - 1]
    /\ released' = [released EXCEPT ![TenantOf[j]] = @ + 1]
    /\ sem' = sem - 1
    /\ UNCHANGED <<queueVars, mainLoop, schedulerVars, running, processed, arrived, faults>>

\* Plausible defect, for the mutation checks: the tenant's count stays up.
CompleteForgotten(t) ==
    /\ released[t] > 0
    /\ released' = [released EXCEPT ![t] = @ - 1]
    /\ UNCHANGED <<queueVars, mainLoop, schedulerVars, sem, running, finished, processed,
                   arrived, faults>>

Complete(t) ==
    /\ released[t] > 0
    /\ released' = [released EXCEPT ![t] = @ - 1]
    /\ inflight' = [inflight EXCEPT ![t] = IF @ > 0 THEN @ - 1 ELSE @]
    /\ UNCHANGED <<queueVars, mainLoop, pending, order, next, lastTenant, currentBurst, bypassed,
                   sem, running, finished, processed, arrived, faults>>

----------------------------------------------------------------------------
(* The queue.                                                              *)

Arrive(j) ==
    /\ j \notin arrived
    /\ arrived' = arrived \cup {j}
    /\ queue' = Append(queue, j)
    /\ UNCHANGED <<options, processing, mainLoop, schedulerVars, goroutineVars, faults>>

\* The worker has run out of things to do: it waits for another job.
Quiet == mainLoop = "reserve" /\ queue = <<>> /\ \A t \in Tenants : inflight[t] = 0

\* One RPOPLPUSH of a recovery sweep.  The sweeps' interval (30 s) is longer than
\* it takes to work off the queue here; a sweep that comes before is a fault.
RecoverJob ==
    /\ RecoveryLoop
    /\ processing # <<>>
    /\ queue' = <<Last(processing)>> \o queue
    /\ processing' = Front(processing)
    /\ IF Quiet
         THEN UNCHANGED faults
         ELSE faults > 0 /\ faults' = faults - 1
    /\ UNCHANGED <<options, mainLoop, schedulerVars, goroutineVars, arrived>>

MainLoop == HandOut \/ FindFull \/ LookAgain \/ GoReserve \/ ReserveJob

Next ==
    \/ MainLoop
    \/ ReserveFails
    \/ \E j \in Jobs : Finish(j) \/ ReleaseSlot(j) \/ Arrive(j)
    \/ RecoverJob
    \/ \E t \in Tenants : Complete(t)

Spec == Init /\ [][Next]_vars

\* The Go scheduler runs every goroutine, every processor returns (it has
\* timeouts), and the recovery loop sweeps on its ticker.  Arrivals are free.
FairSpec ==
    /\ Spec
    /\ WF_vars(MainLoop)
    /\ \A j \in Jobs : WF_vars(Finish(j)) /\ WF_vars(ReleaseSlot(j))
    /\ \A t \in Tenants : WF_vars(Complete(t))
    /\ WF_vars(RecoverJob)

----------------------------------------------------------------------------
\* The rotation lists every tenant with buffered jobs once, and no other: a
\* tenant left out would never be served, one listed twice would be favoured
\* (add, and the removal in nextJob).
OrderListsWaiting ==
    /\ \A t \in Tenants : (\E i \in DOMAIN order : order[i] = t) <=> pending[t] # <<>>
    /\ \A i, k \in DOMAIN order : i # k => order[i] # order[k]
    /\ next < Len(order) \/ next = 0

\* The goroutines that hold a slot, and those of them that work for t.
Goroutines == UNION {{j} \X (1 .. running[j] + finished[j]) : j \in Jobs}
GoroutinesOf(t) == Cardinality({g \in Goroutines : TenantOf[g[1]] = t}) + released[t]

\* What the scheduler counts is what runs: no tenant is processed by more than
\* TenantMaxInFlight goroutines, although slots are freed before the scheduler
\* hears of it.
TenantCapHolds ==
    \A t \in Tenants : GoroutinesOf(t) = inflight[t] /\ inflight[t] <= MaxFlight

\* No reserved job is forgotten: each copy in the processing list is buffered
\* or being processed here, however often recovery has put copies back.
ReservedIsHeld ==
    \A j \in Jobs : Copies(j, processing) <= Copies(j, pending[TenantOf[j]]) + running[j]

\* While no tenant joins the rotation, one that could run is passed over for at
\* most Burst hand-outs of each other tenant, wherever next, the current burst
\* and removals leave it (README: "rotates buffered jobs by tenant instead of
\* draining one tenant indefinitely").  A tenant that has run out of jobs and
\* joins again may be served again first, so three tenants have no such bound
\* beyond the next arrival.
BypassIsBounded ==
    \A t \in Tenants : bypassed[t] <= Burst * (Cardinality(Tenants) - 1)

\* Every job that arrives is processed (TestRunChannelWorkerRespectsConcurrency
\* waits until all its jobs were).  It takes the recovery loop: a buffered job
\* that was passed over (its tenant was at its cap, or all slots were taken) is
\* looked at again only when ReserveChannel returns.
EveryJobIsProcessed == \A j \in Jobs : j \in arrived ~> j \in processed

============================================================================
