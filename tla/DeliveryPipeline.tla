-------------------------- MODULE DeliveryPipeline --------------------------
(***************************************************************************)
(* The asynchronous delivery pipeline: how one accepted notification       *)
(* travels from the outbox to a provider call and back into the store.     *)
(*                                                                         *)
(*   API -> Postgres -> outbox publisher -> Redis dispatch queue ->        *)
(*   dispatcher -> Redis channel queue -> channel worker -> Postgres,      *)
(*   and from there the retry worker or a replay creates the next attempt. *)
(*                                                                         *)
(* Every process takes its steps one store transaction, one Redis command  *)
(* or one provider call at a time, so that crashes and the steps of other  *)
(* processes fall between any two of them.  Postgres and Redis keep what   *)
(* they acknowledged.                                                      *)
(***************************************************************************)
EXTENDS DeliveryStore, RedisQueues, FiniteSets

CONSTANTS
    ChannelOf,        \* notification -> the channel of its template
    Budgets,          \* max_attempts values the resolved policy may give
    Dispatchers,      \* dispatcher processes
    Workers,          \* slots (goroutines) of channel worker processes
    Serves,           \* worker slot -> the channel whose queue it consumes
    MaxPublications,  \* bound: RPUSHes to the dispatch queue per attempt
    MaxFaults         \* bound: crashes, Redis errors and premature recoveries

ASSUME PipelineAssumption ==
    /\ ChannelOf \in [Notifications -> Channel]
    /\ Serves \in [Workers -> Channel]
    /\ Budgets \subseteq Nat
    /\ MaxPublications \in Nat
    /\ MaxFaults \in Nat

\* A payload: the attempt it is about, and which publication of it this is.
Job == Attempt \X (1 .. MaxPublications)

VARIABLES
    publisher,   \* the batch a publisher works on
    dispatcher,  \* the job a dispatcher has reserved
    worker,      \* the job a worker slot has reserved
    pubs,        \* history: publications of an attempt so far
    calls,       \* history: provider calls made for an attempt
    faults       \* how many more faults may happen

processVars == <<publisher, dispatcher, worker>>
vars == <<storeVars, queueVars, processVars, pubs, calls, faults>>

Idle == [at |-> "idle"]

DispatcherStep == {"reserved", "routed", "refused"}
WorkerStep == {"reserved", "active", "delivered", "retryable", "terminal",
               "dead_lettering", "done"}

\* The rows a publisher has claimed and not reached yet, and what became of
\* the one it is at: its job was pushed, or the push failed.
PublisherBatch(claimed, enqueued, failed) ==
    [claimed |-> claimed, enqueued |-> enqueued, failed |-> failed]
NoBatch == PublisherBatch({}, {}, {})

TypeOK ==
    /\ StoreTypeOK
    /\ QueuesTypeOK(Job)
    /\ publisher \in [Publishers -> [claimed : SUBSET Attempt,
                                     enqueued : SUBSET Attempt,
                                     failed : SUBSET Attempt]]
    /\ dispatcher \in [Dispatchers -> {Idle} \cup [at : DispatcherStep, job : Job]]
    /\ worker \in [Workers -> {Idle} \cup [at : WorkerStep, job : Job]]
    /\ pubs \in [Attempt -> 0 .. MaxPublications]
    /\ calls \in [Attempt -> Nat]
    /\ faults \in Nat

Init ==
    /\ StoreInit
    /\ QueuesInit(Job)
    /\ publisher = [p \in Publishers |-> NoBatch]
    /\ dispatcher = [d \in Dispatchers |-> Idle]
    /\ worker = [w \in Workers |-> Idle]
    /\ pubs = [a \in Attempt |-> 0]
    /\ calls = [a \in Attempt |-> 0]
    /\ faults = MaxFaults

\* One of the disturbances that MaxFaults bounds.
Fault == faults > 0 /\ faults' = faults - 1

----------------------------------------------------------------------------
(* API and maintenance: one transaction each.                              *)

OnStore == UNCHANGED <<queueVars, processVars, pubs, calls, faults>>

CreateNotification(n) == CreateNotificationWithInitialDispatch(n) /\ OnStore
RepeatCreateNotification(n) == EnsureInitialAttempt(n) /\ OnStore
ReplayDeadLetter(d) == EnsureReplayAttempt(d) /\ OnStore

\* One item of the retry worker's list.  ListDueRetryAttempts and the call it
\* leads to are separate transactions; the list keeps no lock, and any attempt
\* that was ever due may still be in some retry worker's list.
RetryDueAttempt(a) == EnsureRetryAttempt(a) /\ OnStore

Maintenance ==
    /\ \E intents, letters \in SUBSET Attempt :
          /\ intents \cup letters # {}
          /\ RunMaintenance(intents, letters)
    /\ OnStore

----------------------------------------------------------------------------
(* Outbox publisher.                                                       *)

Batch(p) == publisher[p].claimed \cup publisher[p].enqueued \cup publisher[p].failed

\* The publisher that made the claim is still working on it.
ClaimIsLive(a) == intent[a] = "publishing" /\ \E p \in Publishers :
                    claim[a] = p /\ a \in Batch(p)

\* The query takes pending and stale rows, up to a limit, and skips locked
\* rows and paused tenants: any set of them.  A row whose publisher is gone
\* becomes stale after claimTimeout; that a live publisher is slower than
\* claimTimeout is a fault.
ClaimBatch(p) ==
    /\ publisher[p] = NoBatch
    /\ \E rows \in SUBSET Attempt \ {{}} :
          /\ ClaimPendingDispatchIntents(p, rows)
          /\ publisher' = [publisher EXCEPT ![p] = PublisherBatch(rows, {}, {})]
          /\ IF \E a \in rows : ClaimIsLive(a) THEN Fault ELSE UNCHANGED faults
    /\ UNCHANGED <<queueVars, dispatcher, worker, pubs, calls>>

ReadyToPublish(p, a) ==
    /\ a \in publisher[p].claimed
    /\ publisher[p].enqueued = {}
    /\ publisher[p].failed = {}

\* RPUSH of a job with a fresh job id.
RPushDispatch(a) ==
    /\ pubs[a] < MaxPublications
    /\ pubs' = [pubs EXCEPT ![a] = @ + 1]
    /\ Enqueue("dispatch", <<a, pubs[a] + 1>>)

\* Plausible defect, for the mutation checks: a failed push counts as done.
PublishIntentFailsUnnoticed(p, a) ==
    /\ ReadyToPublish(p, a)
    /\ Fault
    /\ publisher' = [publisher EXCEPT ![p] =
                        PublisherBatch(@.claimed \ {a}, {a}, {})]
    /\ UNCHANGED <<storeVars, queueVars, dispatcher, worker, pubs, calls>>

PublishIntent(p, a) ==
    /\ ReadyToPublish(p, a)
    /\ RPushDispatch(a)
    /\ publisher' = [publisher EXCEPT ![p] =
                        PublisherBatch(@.claimed \ {a}, {a}, {})]
    /\ UNCHANGED <<storeVars, dispatcher, worker, calls, faults>>

\* EnqueueDispatch returns an error: Redis refused the job, or took it and
\* the answer was lost.
PublishIntentFails(p, a) ==
    /\ ReadyToPublish(p, a)
    /\ Fault
    /\ RPushDispatch(a) \/ UNCHANGED <<queueVars, pubs>>
    /\ publisher' = [publisher EXCEPT ![p] =
                        PublisherBatch(@.claimed \ {a}, {}, {a})]
    /\ UNCHANGED <<storeVars, dispatcher, worker, calls>>

\* An error ends the run: the rest of the batch is dropped, still claimed.
MarkPublished(p) ==
    /\ \E a \in publisher[p].enqueued :
          /\ MarkDispatchIntentPublished(p, a)
          /\ publisher' = [publisher EXCEPT ![p] =
                              IF MarkPublishedOK(p, a)
                                THEN PublisherBatch(@.claimed, {}, {}) ELSE NoBatch]
    /\ UNCHANGED <<queueVars, dispatcher, worker, pubs, calls, faults>>

\* The result is only logged, and the batch goes on.
RecordPublishError(p) ==
    /\ \E a \in publisher[p].failed :
          /\ RecordDispatchIntentError(p, a)
          /\ publisher' = [publisher EXCEPT ![p] = PublisherBatch(@.claimed, {}, {})]
    /\ UNCHANGED <<queueVars, dispatcher, worker, pubs, calls, faults>>

CrashPublisher(p) ==
    /\ publisher[p] # NoBatch
    /\ Fault
    /\ publisher' = [publisher EXCEPT ![p] = NoBatch]
    /\ UNCHANGED <<storeVars, queueVars, dispatcher, worker, pubs, calls>>

----------------------------------------------------------------------------
(* Dispatcher.                                                             *)

ReserveDispatch(d, j) ==
    /\ dispatcher[d] = Idle
    /\ Reserve("dispatch", j)
    /\ dispatcher' = [dispatcher EXCEPT ![d] = [at |-> "reserved", job |-> j]]
    /\ UNCHANGED <<storeVars, publisher, worker, pubs, calls, faults>>

TargetQueue(j) == ChannelOf[j[1][1]]

RouteJob(d) ==
    /\ dispatcher[d].at = "reserved"
    /\ Enqueue(TargetQueue(dispatcher[d].job), dispatcher[d].job)
    /\ dispatcher' = [dispatcher EXCEPT ![d].at = "routed"]
    /\ UNCHANGED <<storeVars, publisher, worker, pubs, calls, faults>>

\* EnqueueChannel returns an error, with or without having had its effect.
RouteJobFails(d) ==
    /\ dispatcher[d].at = "reserved"
    /\ Fault
    /\ \/ Enqueue(TargetQueue(dispatcher[d].job), dispatcher[d].job)
       \/ UNCHANGED queueVars
    /\ dispatcher' = [dispatcher EXCEPT ![d].at = "refused"]
    /\ UNCHANGED <<storeVars, publisher, worker, pubs, calls>>

\* Whatever RequeueReserved returns, the dispatcher goes on to the next job.
RequeueJob(d) ==
    /\ dispatcher[d].at = "refused"
    /\ \/ RequeueReserved("dispatch", dispatcher[d].job) /\ UNCHANGED faults
       \/ Fault /\ UNCHANGED queueVars
    /\ dispatcher' = [dispatcher EXCEPT ![d] = Idle]
    /\ UNCHANGED <<storeVars, publisher, worker, pubs, calls>>

\* So does an ack that fails; the job then stays in the processing list.
AckDispatch(d) ==
    /\ dispatcher[d].at = "routed"
    /\ \/ AckReserved("dispatch", dispatcher[d].job) /\ UNCHANGED faults
       \/ Fault /\ UNCHANGED queueVars
    /\ dispatcher' = [dispatcher EXCEPT ![d] = Idle]
    /\ UNCHANGED <<storeVars, publisher, worker, pubs, calls>>

CrashDispatcher(d) ==
    /\ dispatcher[d] # Idle
    /\ Fault
    /\ dispatcher' = [dispatcher EXCEPT ![d] = Idle]
    /\ UNCHANGED <<storeVars, queueVars, publisher, worker, pubs, calls>>

----------------------------------------------------------------------------
(* Channel worker: RunChannelWorker, runReserved and delivery.process.     *)

ReserveChannel(w, j) ==
    /\ worker[w] = Idle
    /\ Reserve(Serves[w], j)
    /\ worker' = [worker EXCEPT ![w] = [at |-> "reserved", job |-> j]]
    /\ UNCHANGED <<storeVars, publisher, dispatcher, pubs, calls, faults>>

\* The attempt the worker's job is about.
Target(w) == worker[w].job[1]

WorkerAt(w, step) == worker[w].at = step
WorkerGoes(w, step) == worker' = [worker EXCEPT ![w].at = step]

\* Steps of a worker that touch the store and nothing else outside it.
OnWorker == UNCHANGED <<queueVars, publisher, dispatcher, pubs, faults>>

Activate(w) ==
    /\ WorkerAt(w, "reserved")
    /\ MarkAttemptInProgress(Target(w))
    /\ WorkerGoes(w, "active")
    /\ OnWorker /\ UNCHANGED calls

\* The attempt is in progress or final: nothing to do.  An attempt that does
\* not exist ends the same way.
SuppressDuplicate(w) ==
    /\ WorkerAt(w, "reserved")
    /\ attempt[Target(w)] # "pending"
    /\ WorkerGoes(w, "done")
    /\ OnWorker /\ UNCHANGED <<storeVars, calls>>

\* The provider (and its backup, if failover is enabled) answers.
CallProvider(w) ==
    /\ WorkerAt(w, "active")
    /\ calls' = [calls EXCEPT ![Target(w)] = @ + 1]
    /\ \E answer \in {"delivered", "retryable", "terminal"} : WorkerGoes(w, answer)
    /\ OnWorker /\ UNCHANGED storeVars

SettleSent(w) ==
    /\ WorkerAt(w, "delivered")
    /\ MarkAttemptSent(Target(w))
    /\ WorkerGoes(w, "done")
    /\ OnWorker /\ UNCHANGED calls

SettleFailed(w) ==
    /\ WorkerAt(w, "terminal")
    /\ MarkAttemptFailed(Target(w))
    /\ WorkerGoes(w, "done")
    /\ OnWorker /\ UNCHANGED calls

SettleRetry(w) ==
    /\ WorkerAt(w, "retryable")
    /\ \E maxAttempts \in Budgets : Target(w)[2] < maxAttempts
    /\ ScheduleRetry(Target(w))
    /\ WorkerGoes(w, "done")
    /\ OnWorker /\ UNCHANGED calls

SettleDeadLettered(w) ==
    /\ WorkerAt(w, "retryable")
    /\ \E maxAttempts \in Budgets : Target(w)[2] >= maxAttempts
    /\ MarkAttemptDeadLettered(Target(w))
    /\ WorkerGoes(w, "dead_lettering")
    /\ OnWorker /\ UNCHANGED calls

\* A second, separate write.
RecordDeadLetter(w) ==
    /\ WorkerAt(w, "dead_lettering")
    /\ InsertDeadLetter(Target(w))
    /\ WorkerGoes(w, "done")
    /\ OnWorker /\ UNCHANGED calls

AckChannel(w) ==
    /\ WorkerAt(w, "done")
    /\ \/ AckReserved(Serves[w], worker[w].job) /\ UNCHANGED faults
       \/ Fault /\ UNCHANGED queueVars
    /\ worker' = [worker EXCEPT ![w] = Idle]
    /\ UNCHANGED <<storeVars, publisher, dispatcher, pubs, calls>>

CrashWorker(w) ==
    /\ worker[w] # Idle
    /\ Fault
    /\ worker' = [worker EXCEPT ![w] = Idle]
    /\ UNCHANGED <<storeVars, queueVars, publisher, dispatcher, pubs, calls>>

----------------------------------------------------------------------------
(* Redis, seen from all the processes that use it.                         *)

\* BRPOPLPUSH moved a job, and the process never saw the answer.
ReserveAnswerLost(q, j) ==
    /\ Fault
    /\ Reserve(q, j)
    /\ UNCHANGED <<storeVars, processVars, pubs, calls>>

Holders(q, j) ==
    IF q = "dispatch"
      THEN {d \in Dispatchers : dispatcher[d] # Idle /\ dispatcher[d].job = j}
      ELSE {w \in Workers : Serves[w] = q /\ worker[w] # Idle /\ worker[w].job = j}

\* Every dispatcher and worker drains the processing lists at startup and
\* periodically.  The sweep cannot tell a stranded job from one that is being
\* worked on; to take the latter is counted as a fault.
RecoverJob(q, j) ==
    /\ RecoverProcessingJob(q, j)
    /\ IF processing[q][j] > Cardinality(Holders(q, j)) THEN UNCHANGED faults ELSE Fault
    /\ UNCHANGED <<storeVars, processVars, pubs, calls>>

----------------------------------------------------------------------------
PublisherNext(p) ==
    \/ ClaimBatch(p)
    \/ \E a \in Attempt : PublishIntent(p, a) \/ PublishIntentFails(p, a)
    \/ MarkPublished(p)
    \/ RecordPublishError(p)
    \/ CrashPublisher(p)

DispatcherNext(d) ==
    \/ \E j \in Job : ReserveDispatch(d, j)
    \/ RouteJob(d)
    \/ RouteJobFails(d)
    \/ RequeueJob(d)
    \/ AckDispatch(d)
    \/ CrashDispatcher(d)

WorkerNext(w) ==
    \/ \E j \in Job : ReserveChannel(w, j)
    \/ Activate(w)
    \/ SuppressDuplicate(w)
    \/ CallProvider(w)
    \/ SettleSent(w)
    \/ SettleFailed(w)
    \/ SettleRetry(w)
    \/ SettleDeadLettered(w)
    \/ RecordDeadLetter(w)
    \/ AckChannel(w)
    \/ CrashWorker(w)

RedisNext == \E q \in Queue, j \in Job : ReserveAnswerLost(q, j) \/ RecoverJob(q, j)

StoreNext ==
    \/ \E n \in Notifications : CreateNotification(n) \/ RepeatCreateNotification(n)
    \/ \E a \in Attempt : RetryDueAttempt(a) \/ ReplayDeadLetter(a)
    \/ Maintenance

Next ==
    \/ StoreNext
    \/ \E p \in Publishers : PublisherNext(p)
    \/ \E d \in Dispatchers : DispatcherNext(d)
    \/ \E w \in Workers : WorkerNext(w)
    \/ RedisNext

Spec == Init /\ [][Next]_vars

----------------------------------------------------------------------------
(* Fairness.  A publisher polls on a ticker, a dispatcher and a worker     *)
(* loop, recovery runs on a ticker, and each of them finishes what it has  *)
(* begun unless it crashes.  Nothing is assumed about clients, operators,  *)
(* maintenance or faults.                                                  *)

PublisherProgress(p) ==
    ClaimBatch(p) \/ (\E a \in Attempt : PublishIntent(p, a))
                  \/ MarkPublished(p) \/ RecordPublishError(p)

DispatcherProgress(d) ==
    (\E j \in Job : ReserveDispatch(d, j)) \/ RouteJob(d) \/ RequeueJob(d) \/ AckDispatch(d)

WorkerProgress(w) ==
    \/ \E j \in Job : ReserveChannel(w, j)
    \/ Activate(w) \/ SuppressDuplicate(w) \/ CallProvider(w)
    \/ SettleSent(w) \/ SettleFailed(w) \/ SettleRetry(w) \/ SettleDeadLettered(w)
    \/ RecordDeadLetter(w)
    \/ AckChannel(w)

Recovery == \E q \in Queue, j \in Job : RecoverJob(q, j)
RetryWorker == \E a \in Attempt : attempt[a] = "retry_scheduled" /\ RetryDueAttempt(a)

FairSpec ==
    /\ Spec
    /\ \A p \in Publishers : WF_vars(PublisherProgress(p))
    /\ \A d \in Dispatchers : WF_vars(DispatcherProgress(d))
    /\ \A w \in Workers : WF_vars(WorkerProgress(w))
    /\ WF_vars(Recovery)
    /\ WF_vars(RetryWorker)

----------------------------------------------------------------------------
(* What the pipeline promises.                                             *)

\* Copies of any publication of attempt a, in the lists qs.
HasCopy(a, qs) == \E q \in qs, k \in 1 .. MaxPublications : Holds(q, <<a, k>>)

\* No work is lost: an attempt that waits to be delivered is still to be
\* published from the outbox, or a job about it is in a Redis list, whatever
\* crashed, was recovered twice or was purged in between (outbox claim, RPUSH,
\* mark published; reserve, route, ack).
NoLostWork ==
    \A a \in Attempt : attempt[a] = "pending" =>
        intent[a] \in {"pending", "publishing"} \/ HasCopy(a, Queue)

\* Duplicate jobs and concurrent workers never make the provider be called
\* twice for one attempt (compare-and-set in MarkAttemptInProgress).
OneProviderCallPerAttempt == \A a \in Attempt : calls[a] <= 1

\* The attempts of a notification form one chain: numbers have no gap, and an
\* attempt that is live, sent or failed for good is the last one.  So retries,
\* replays and stale due lists never give a notification two attempts that can
\* both reach the provider, nor an attempt after a delivery.
OneChainOfAttempts ==
    \A a, b \in Attempt : a[1] = b[1] /\ a[2] < b[2] /\ Exists(b) =>
        attempt[a] \in {"failed", "dead_lettered"}

\* An intent is marked published, and a dead letter replayed, only if a job
\* was really pushed for it; dispatch_enqueued_at says the same for good.
PublicationIsReal ==
    \A a \in Attempt :
        /\ intent[a] = "published" \/ enqueuedAt[a] => pubs[a] >= 1
        /\ deadLetter[a] = "replayed" => replayOf[a] # None /\ pubs[replayOf[a]] >= 1

\* What was published once is not published again after its outbox row was
\* purged and an idempotent request, a stale retry or a replay restored it.
NoRepublication ==
    \A a \in Attempt : enqueuedAt[a] => intent[a] \in {"absent", "published"}

\* Only the publisher that holds the current claim, and whose push failed, may
\* release an intent: a slow publisher whose claim was taken over must not
\* disturb its successor (WHERE claimed_at = $3).
ClaimIsFenced ==
    [][\A a \in Attempt : intent[a] = "publishing" /\ intent'[a] = "pending" =>
          \E p \in Publishers : claim[a] = p /\ a \in publisher[p].failed]_vars

\* Every pending attempt is eventually taken up by a worker, when the faults
\* are finitely many.
PendingIsTakenUp ==
    \A a \in Attempt : attempt[a] = "pending" ~> attempt[a] # "pending"

----------------------------------------------------------------------------
(* A promise of the documentation that the code does not keep.             *)

\* Execution is at least once: every attempt reaches the provider eventually
\* (docs/architecture.md: "preserve at-least-once execution while suppressing
\* duplicate work safely").  A worker that dies between the compare-and-set
\* and the call leaves an attempt that every later worker suppresses.
AtLeastOneProviderCall ==
    \A a \in Attempt : attempt[a] = "pending" ~> calls[a] >= 1

============================================================================
