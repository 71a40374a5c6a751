------------------------- MODULE PipelineInvariant -------------------------
(***************************************************************************)
(* The inductive invariants behind the safety properties of the pipeline.  *)
(*                                                                         *)
(* Why no work is lost: a pending attempt is handed from the outbox to     *)
(* Redis, and inside Redis from one list to the next, and each hand-over   *)
(* leaves a copy behind until the next holder has one.  The parts say so   *)
(* at every point where some process remembers that a hand-over was made.  *)
(*                                                                         *)
(* Why the provider is called once: the compare-and-set of a row picks one *)
(* worker, and a row that it has taken never becomes pending again.        *)
(*                                                                         *)
(* Why attempts form one chain: only the last attempt of a notification is *)
(* scheduled for a retry or has a dead letter that waits for a replay.     *)
(***************************************************************************)
EXTENDS DeliveryPipeline

\* Whatever outbox, dead letters, batches, lists and processes refer to is a
\* row of delivery_attempts.
IntentsHaveRows == \A a \in Attempt : intent[a] # "absent" \/ enqueuedAt[a] => Exists(a)
ReplaysHaveRows == \A d \in Attempt : replayOf[d] # None => Exists(replayOf[d])
BatchesHaveRows == \A p \in Publishers : \A a \in Batch(p) : Exists(a)
JobsHaveRows == \A q \in Queue, j \in Job : Holds(q, j) => Exists(j[1])
DispatchersHaveRows ==
    \A d \in Dispatchers : dispatcher[d] # Idle => Exists(dispatcher[d].job[1])
WorkersHaveRows == \A w \in Workers : worker[w] # Idle => Exists(Target(w))

\* What every transaction on the outbox relies on, also when store calls fail
\* and workers stop: claims and replays are of attempts that exist.
RowInv ==
    /\ TypeOK
    /\ IntentsHaveRows
    /\ ReplaysHaveRows

\* What a publisher is about to mark published is in Redis, or taken up.
PublishedIsInRedis ==
    \A p \in Publishers : \A a \in publisher[p].enqueued :
        attempt[a] = "pending" => HasCopy(a, Queue)

\* What a dispatcher is about to acknowledge is in a channel queue, or taken up.
RoutedIsInChannel ==
    \A d \in Dispatchers : dispatcher[d].at = "routed" =>
        LET a == dispatcher[d].job[1]
        IN  attempt[a] = "pending" => HasCopy(a, Channel)

\* What a worker is about to acknowledge has been taken up.
DoneIsTakenUp ==
    \A w \in Workers : worker[w].at \in {"dead_lettering", "done"} =>
        attempt[Target(w)] # "pending"

\* The conjunction of the parts: what each hand-over of pending work (outbox
\* claim, RPUSH, route, reserve, ack) leaves behind for the next one.
WorkInv ==
    /\ TypeOK
    /\ IntentsHaveRows
    /\ ReplaysHaveRows
    /\ BatchesHaveRows
    /\ JobsHaveRows
    /\ DispatchersHaveRows
    /\ WorkersHaveRows
    /\ PublishedIsInRedis
    /\ RoutedIsInChannel
    /\ DoneIsTakenUp
    /\ NoLostWork

----------------------------------------------------------------------------
\* Between the compare-and-set that activates an attempt and the one that
\* settles it.
AtWork(w) == worker[w].at \in {"active", "delivered", "retryable", "terminal"}

UncalledBeforeActivation ==
    \A a \in Attempt : attempt[a] \in {"absent", "pending"} => calls[a] = 0
WorkedOnIsInProgress == \A w \in Workers : AtWork(w) => attempt[Target(w)] = "in_progress"
ActiveIsUncalled == \A w \in Workers : WorkerAt(w, "active") => calls[Target(w)] = 0
OneWorkerPerAttempt ==
    \A v, w \in Workers : AtWork(v) /\ AtWork(w) /\ Target(v) = Target(w) => v = w

\* The conjunction: what keeps duplicate jobs from a second provider call.
CallInv ==
    /\ TypeOK
    /\ UncalledBeforeActivation
    /\ WorkedOnIsInProgress
    /\ ActiveIsUncalled
    /\ OneWorkerPerAttempt
    /\ OneProviderCallPerAttempt

----------------------------------------------------------------------------
\* The row of a and none of a later attempt of its notification is there.
IsLast(a) == Exists(a) /\ \A b \in Attempt : b[1] = a[1] /\ b[2] > a[2] => ~ Exists(b)

\* A dead letter is of a dead-lettered attempt, and outlives the number of the
\* attempt that replays it.
DeadLettersAreOfDeadLettered ==
    \A d \in Attempt :
        /\ deadLetter[d] # "absent" => attempt[d] = "dead_lettered"
        /\ deadLetter[d] = "absent" => replayOf[d] = None
UnreplayedIsLast ==
    \A d \in Attempt : deadLetter[d] = "open" /\ replayOf[d] = None => IsLast(d)

\* The worker that dead-lettered an attempt is the only one to insert its dead
\* letter, and until then nothing follows the attempt.
DeadLetteringIsLast ==
    \A w \in Workers : WorkerAt(w, "dead_lettering") =>
        /\ attempt[Target(w)] = "dead_lettered" /\ deadLetter[Target(w)] = "absent"
        /\ IsLast(Target(w))
OneWorkerDeadLetters ==
    \A v, w \in Workers : WorkerAt(v, "dead_lettering") /\ WorkerAt(w, "dead_lettering")
                              /\ Target(v) = Target(w) => v = w

\* The conjunction: what keeps retries, replays and stale due lists from
\* branching the chain of attempts (EnsureRetryAttempt, EnsureReplayAttempt).
ChainInv ==
    /\ CallInv
    /\ DeadLettersAreOfDeadLettered
    /\ UnreplayedIsLast
    /\ DeadLetteringIsLast
    /\ OneWorkerDeadLetters
    /\ OneChainOfAttempts

============================================================================
