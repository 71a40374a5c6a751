----------------------- MODULE DeliveryPipelineProofs -----------------------
(***************************************************************************)
(* Proof that the delivery pipeline loses no work, for every number of     *)
(* notifications, publishers, dispatchers and workers and for every number *)
(* of faults.                                                              *)
(***************************************************************************)
EXTENDS PipelineInvariant, TLAPS

----------------------------------------------------------------------------
(* What the Redis commands do to the copies of jobs.  Everything below     *)
(* uses these lemmas instead of the counts of the lists.                   *)

\* Which lists hold a copy of which job does not change.
SameCopies == \A q \in Queue, j \in Job : Holds(q, j)' <=> Holds(q, j)

\* RPUSH adds a copy and removes none.
LEMMA EnqueueCopies ==
    ASSUME QueuesTypeOK(Job), NEW q \in Queue, NEW j \in Job, Enqueue(q, j)
    PROVE  /\ QueuesTypeOK(Job)'
           /\ Holds(q, j)'
           /\ \A r \in Queue, i \in Job : Holds(r, i) => Holds(r, i)'
           /\ \A r \in Queue, i \in Job : Holds(r, i)' => Holds(r, i) \/ i = j
BY DEF QueuesTypeOK, Enqueue, Holds

\* BRPOPLPUSH moves a copy to the processing list of the same queue.
LEMMA ReserveCopies ==
    ASSUME QueuesTypeOK(Job), NEW q \in Queue, NEW j \in Job, Reserve(q, j)
    PROVE  QueuesTypeOK(Job)' /\ SameCopies /\ Holds(q, j)
BY DEF QueuesTypeOK, Reserve, Holds, SameCopies

\* RPOPLPUSH moves one back.
LEMMA RecoverCopies ==
    ASSUME QueuesTypeOK(Job), NEW q \in Queue, NEW j \in Job, RecoverProcessingJob(q, j)
    PROVE  QueuesTypeOK(Job)' /\ SameCopies
BY DEF QueuesTypeOK, RecoverProcessingJob, Holds, SameCopies

\* LREM and LPUSH in one transaction leave a copy in the list.
LEMMA RequeueCopies ==
    ASSUME QueuesTypeOK(Job), NEW q \in Queue, NEW j \in Job, RequeueReserved(q, j)
    PROVE  /\ QueuesTypeOK(Job)'
           /\ \A r \in Queue, i \in Job : Holds(r, i) => Holds(r, i)'
           /\ \A r \in Queue, i \in Job : Holds(r, i)' => Holds(r, i) \/ i = j
BY DEF QueuesTypeOK, RequeueReserved, Holds

\* LREM removes copies of the acknowledged job from its own queue only.
LEMMA AckCopies ==
    ASSUME QueuesTypeOK(Job), NEW q \in Queue, NEW j \in Job, AckReserved(q, j)
    PROVE  /\ QueuesTypeOK(Job)'
           /\ \A r \in Queue, i \in Job : Holds(r, i)' => Holds(r, i)
           /\ \A r \in Queue, i \in Job : Holds(r, i) => Holds(r, i)' \/ (r = q /\ i = j)
BY DEF QueuesTypeOK, AckReserved, Holds

----------------------------------------------------------------------------
(* Type correctness.                                                       *)

\* The part of TypeOK that is about the processes and the history variables.
ProcessTypeOK ==
    /\ publisher \in [Publishers -> [claimed : SUBSET Attempt,
                                     enqueued : SUBSET Attempt,
                                     failed : SUBSET Attempt]]
    /\ dispatcher \in [Dispatchers -> {Idle} \cup [at : DispatcherStep, job : Job]]
    /\ worker \in [Workers -> {Idle} \cup [at : WorkerStep, job : Job]]
    /\ pubs \in [Attempt -> 0 .. MaxPublications]
    /\ calls \in [Attempt -> Nat]
    /\ faults \in Nat

LEMMA TypeParts == TypeOK <=> StoreTypeOK /\ QueuesTypeOK(Job) /\ ProcessTypeOK
BY DEF TypeOK, ProcessTypeOK

\* The key of the next attempt of a notification.
LEMMA ChildInAttempt ==
    ASSUME NEW a \in Attempt, a[2] < MaxNumber
    PROVE  Child(a) \in Attempt
BY StoreAssumption DEF Attempt, Child

LEMMA InitialInAttempt ==
    ASSUME NEW n \in Notifications
    PROVE  Initial(n) \in Attempt
BY StoreAssumption DEF Attempt, Initial

LEMMA InsertedIntentType ==
    ASSUME StoreTypeOK, NEW a \in Attempt
    PROVE  InsertedIntent(a) \in {"absent"} \cup IntentStatus
BY DEF StoreTypeOK, InsertedIntent, IntentStatus

\* The transactions of the store keep its rows well typed.
LEMMA CreateType ==
    ASSUME StoreTypeOK, NEW n \in Notifications,
           CreateNotificationWithInitialDispatch(n) \/ EnsureInitialAttempt(n)
    PROVE  StoreTypeOK'
<1>1. InsertedIntent(Initial(n)) \in {"absent"} \cup IntentStatus
  BY InitialInAttempt, InsertedIntentType
<1>2. QED
  BY <1>1, InitialInAttempt
  DEF StoreTypeOK, CreateNotificationWithInitialDispatch, EnsureInitialAttempt,
      AttemptStatus, IntentStatus

LEMMA RetryType ==
    ASSUME StoreTypeOK, NEW a \in Attempt, EnsureRetryAttempt(a)
    PROVE  StoreTypeOK'
<1>1. Child(a) \in Attempt
  BY ChildInAttempt DEF EnsureRetryAttempt
<1>2. InsertedIntent(Child(a)) \in {"absent"} \cup IntentStatus
  BY <1>1, InsertedIntentType
<1>3. QED
  BY <1>1, <1>2 DEF StoreTypeOK, EnsureRetryAttempt, AttemptStatus

LEMMA ReplayType ==
    ASSUME StoreTypeOK, NEW d \in Attempt, EnsureReplayAttempt(d)
    PROVE  StoreTypeOK'
<1>1. CASE replayOf[d] = None
  <2>1. PICK a \in Attempt :
            /\ attempt' = [attempt EXCEPT ![a] = "pending"]
            /\ intent' = [intent EXCEPT ![a] = InsertedIntent(a)]
            /\ replayOf' = [replayOf EXCEPT ![d] = a]
    BY <1>1 DEF EnsureReplayAttempt
  <2>2. InsertedIntent(a) \in {"absent"} \cup IntentStatus
    BY InsertedIntentType
  <2>3. QED
    BY <2>1, <2>2 DEF StoreTypeOK, EnsureReplayAttempt, AttemptStatus
<1>2. CASE replayOf[d] # None
  <2>1. replayOf[d] \in Attempt
    BY <1>2 DEF StoreTypeOK
  <2>2. InsertedIntent(replayOf[d]) \in {"absent"} \cup IntentStatus
    BY <2>1, InsertedIntentType
  <2>3. QED
    BY <1>2, <2>2 DEF StoreTypeOK, EnsureReplayAttempt
<1>3. QED
  BY <1>1, <1>2

LEMMA OutboxType ==
    ASSUME StoreTypeOK, NEW p \in Publishers,
           \/ \E rows \in SUBSET Attempt : ClaimPendingDispatchIntents(p, rows)
           \/ \E a \in Attempt : MarkDispatchIntentPublished(p, a)
           \/ \E a \in Attempt : RecordDispatchIntentError(p, a)
    PROVE  StoreTypeOK'
BY DEF StoreTypeOK, ClaimPendingDispatchIntents, MarkDispatchIntentPublished,
       RecordDispatchIntentError, IntentStatus, storeVars

LEMMA AttemptType ==
    ASSUME StoreTypeOK, NEW a \in Attempt,
           \/ MarkAttemptInProgress(a) \/ MarkAttemptSent(a) \/ MarkAttemptFailed(a)
           \/ ScheduleRetry(a) \/ MarkAttemptDeadLettered(a) \/ InsertDeadLetter(a)
    PROVE  StoreTypeOK'
BY DEF StoreTypeOK, MarkAttemptInProgress, MarkAttemptSent, MarkAttemptFailed,
       ScheduleRetry, MarkAttemptDeadLettered, SettleAttempt, InsertDeadLetter, AttemptStatus

LEMMA MaintenanceType ==
    ASSUME StoreTypeOK, NEW intents \in SUBSET Attempt, NEW letters \in SUBSET Attempt,
           RunMaintenance(intents, letters)
    PROVE  StoreTypeOK'
BY DEF StoreTypeOK, RunMaintenance

\* One process step of each kind keeps the process variables well typed.
LEMMA PublisherType ==
    ASSUME ProcessTypeOK, StoreTypeOK, QueuesTypeOK(Job), NEW p \in Publishers, PublisherNext(p)
    PROVE  StoreTypeOK' /\ QueuesTypeOK(Job)' /\ ProcessTypeOK'
<1> USE DEF ProcessTypeOK, PublisherBatch
<1>1. CASE ClaimBatch(p)
  BY <1>1, OutboxType DEF ClaimBatch, NoBatch, Fault, queueVars, QueuesTypeOK
<1>2. ASSUME NEW a \in Attempt, RPushDispatch(a)
      PROVE  QueuesTypeOK(Job)' /\ pubs' \in [Attempt -> 0 .. MaxPublications]
  <2>1. <<a, pubs[a] + 1>> \in Job /\ "dispatch" \in Queue
    BY <1>2, PipelineAssumption DEF RPushDispatch, Job, Queue
  <2>2. QED
    BY <1>2, <2>1, EnqueueCopies, PipelineAssumption DEF RPushDispatch
<1>3. ASSUME NEW a \in Attempt, PublishIntent(p, a) \/ PublishIntentFails(p, a)
      PROVE  StoreTypeOK' /\ QueuesTypeOK(Job)' /\ ProcessTypeOK'
  <2>1. StoreTypeOK'
    BY <1>3 DEF PublishIntent, PublishIntentFails, storeVars, StoreTypeOK
  <2>2. QueuesTypeOK(Job)' /\ pubs' \in [Attempt -> 0 .. MaxPublications]
    BY <1>2, <1>3 DEF PublishIntent, PublishIntentFails, queueVars, QueuesTypeOK
  <2>3. publisher' \in [Publishers -> [claimed : SUBSET Attempt,
                                       enqueued : SUBSET Attempt,
                                       failed : SUBSET Attempt]]
    BY <1>3 DEF PublishIntent, PublishIntentFails
  <2>4. UNCHANGED <<dispatcher, worker, calls>> /\ faults' \in Nat
    BY <1>3 DEF PublishIntent, PublishIntentFails, Fault
  <2>5. QED
    BY <2>1, <2>2, <2>3, <2>4
<1>4. CASE MarkPublished(p)
  BY <1>4, OutboxType DEF MarkPublished, NoBatch, queueVars, QueuesTypeOK
<1>5. CASE RecordPublishError(p)
  BY <1>5, OutboxType DEF RecordPublishError, queueVars, QueuesTypeOK
<1>6. CASE CrashPublisher(p)
  BY <1>6 DEF CrashPublisher, NoBatch, Fault, storeVars, queueVars, StoreTypeOK, QueuesTypeOK
<1>7. QED
  BY <1>1, <1>3, <1>4, <1>5, <1>6 DEF PublisherNext

LEMMA TargetQueueType ==
    ASSUME NEW j \in Job
    PROVE  TargetQueue(j) \in Channel /\ TargetQueue(j) \in Queue /\ j[1] \in Attempt
BY PipelineAssumption DEF TargetQueue, Job, Attempt, Queue

LEMMA DispatcherType ==
    ASSUME ProcessTypeOK, StoreTypeOK, QueuesTypeOK(Job), NEW d \in Dispatchers, DispatcherNext(d)
    PROVE  StoreTypeOK' /\ QueuesTypeOK(Job)' /\ ProcessTypeOK'
<1> USE DEF ProcessTypeOK
<1>0. StoreTypeOK'
  BY DEF DispatcherNext, ReserveDispatch, RouteJob, RouteJobFails, RequeueJob, AckDispatch,
         CrashDispatcher, storeVars, StoreTypeOK
<1>1. ASSUME NEW j \in Job, ReserveDispatch(d, j)
      PROVE  QueuesTypeOK(Job)' /\ ProcessTypeOK'
  BY <1>1, ReserveCopies DEF ReserveDispatch, DispatcherStep, Queue
<1>2. CASE RouteJob(d) \/ RouteJobFails(d)
  <2>1. dispatcher[d].job \in Job /\ dispatcher[d] \in [at : DispatcherStep, job : Job]
    BY <1>2 DEF RouteJob, RouteJobFails, Idle
  <2>2. QueuesTypeOK(Job)'
    BY <1>2, <2>1, EnqueueCopies, TargetQueueType
    DEF RouteJob, RouteJobFails, queueVars, QueuesTypeOK
  <2>3. QED
    BY <1>0, <1>2, <2>1, <2>2 DEF RouteJob, RouteJobFails, DispatcherStep, Fault
<1>3. CASE RequeueJob(d) \/ AckDispatch(d)
  <2>1. dispatcher[d].job \in Job
    BY <1>3 DEF RequeueJob, AckDispatch, Idle
  <2>2. QueuesTypeOK(Job)'
    BY <1>3, <2>1, RequeueCopies, AckCopies
    DEF RequeueJob, AckDispatch, Queue, queueVars, QueuesTypeOK
  <2>3. QED
    BY <1>0, <1>3, <2>2 DEF RequeueJob, AckDispatch, Fault
<1>4. CASE CrashDispatcher(d)
  BY <1>0, <1>4 DEF CrashDispatcher, Fault, queueVars, QueuesTypeOK
<1>5. QED
  BY <1>0, <1>1, <1>2, <1>3, <1>4 DEF DispatcherNext

\* A worker slot that is not idle has a job, and a job is about an attempt.
LEMMA WorkerHasJob ==
    ASSUME ProcessTypeOK, NEW w \in Workers, worker[w] # Idle
    PROVE  /\ worker[w] \in [at : WorkerStep, job : Job]
           /\ worker[w].job \in Job
           /\ Target(w) \in Attempt
BY DEF ProcessTypeOK, Target, Job

LEMMA WorkerType ==
    ASSUME ProcessTypeOK, StoreTypeOK, QueuesTypeOK(Job), NEW w \in Workers, WorkerNext(w)
    PROVE  StoreTypeOK' /\ QueuesTypeOK(Job)' /\ ProcessTypeOK'
<1>0. Serves[w] \in Queue
  BY PipelineAssumption DEF Queue
<1>1. ASSUME NEW j \in Job, ReserveChannel(w, j)
      PROVE  StoreTypeOK' /\ QueuesTypeOK(Job)' /\ ProcessTypeOK'
  BY <1>0, <1>1, ReserveCopies
  DEF ReserveChannel, WorkerStep, ProcessTypeOK, storeVars, StoreTypeOK
<1>2. CASE \/ Activate(w) \/ SuppressDuplicate(w) \/ CallProvider(w) \/ SettleSent(w)
           \/ SettleFailed(w) \/ SettleRetry(w) \/ SettleDeadLettered(w) \/ RecordDeadLetter(w)
  <2>1. worker[w] # Idle
    BY <1>2 DEF Activate, SuppressDuplicate, CallProvider, SettleSent, SettleFailed,
                SettleRetry, SettleDeadLettered, RecordDeadLetter, WorkerAt, Idle
  <2>2. Target(w) \in Attempt /\ worker[w] \in [at : WorkerStep, job : Job]
    BY <2>1, WorkerHasJob
  <2>3. StoreTypeOK'
    BY <1>2, <2>2, AttemptType
    DEF Activate, SuppressDuplicate, CallProvider, SettleSent, SettleFailed, SettleRetry,
        SettleDeadLettered, RecordDeadLetter, storeVars, StoreTypeOK
  <2>4. QueuesTypeOK(Job)'
    BY <1>2
    DEF Activate, SuppressDuplicate, CallProvider, SettleSent, SettleFailed, SettleRetry,
        SettleDeadLettered, RecordDeadLetter, OnWorker, queueVars, QueuesTypeOK
  <2>5. \E step \in WorkerStep : WorkerGoes(w, step)
    BY <1>2
    DEF Activate, SuppressDuplicate, CallProvider, SettleSent, SettleFailed, SettleRetry,
        SettleDeadLettered, RecordDeadLetter, WorkerStep
  <2>6. worker' \in [Workers -> {Idle} \cup [at : WorkerStep, job : Job]]
    BY <2>2, <2>5 DEF WorkerGoes, ProcessTypeOK
  <2>7. calls' \in [Attempt -> Nat]
    BY <1>2, <2>2
    DEF Activate, SuppressDuplicate, CallProvider, SettleSent, SettleFailed, SettleRetry,
        SettleDeadLettered, RecordDeadLetter, ProcessTypeOK
  <2>8. UNCHANGED <<publisher, dispatcher, pubs, faults>>
    BY <1>2
    DEF Activate, SuppressDuplicate, CallProvider, SettleSent, SettleFailed, SettleRetry,
        SettleDeadLettered, RecordDeadLetter, OnWorker
  <2>9. QED
    BY <2>3, <2>4, <2>6, <2>7, <2>8 DEF ProcessTypeOK
<1>3. CASE AckChannel(w)
  <2>1. worker[w].job \in Job
    BY <1>3, WorkerHasJob DEF AckChannel, WorkerAt, Idle
  <2>2. QueuesTypeOK(Job)'
    BY <1>0, <1>3, <2>1, AckCopies DEF AckChannel, queueVars, QueuesTypeOK
  <2>3. QED
    BY <1>3, <2>2 DEF AckChannel, Fault, storeVars, StoreTypeOK, ProcessTypeOK
<1>4. CASE CrashWorker(w)
  BY <1>4 DEF CrashWorker, Fault, storeVars, queueVars, StoreTypeOK, QueuesTypeOK, ProcessTypeOK
<1>5. QED
  BY <1>1, <1>2, <1>3, <1>4 DEF WorkerNext

LEMMA RedisType ==
    ASSUME ProcessTypeOK, StoreTypeOK, QueuesTypeOK(Job), NEW q \in Queue, NEW j \in Job,
           ReserveAnswerLost(q, j) \/ RecoverJob(q, j)
    PROVE  StoreTypeOK' /\ QueuesTypeOK(Job)' /\ ProcessTypeOK'
<1>1. QueuesTypeOK(Job)'
  BY ReserveCopies, RecoverCopies DEF ReserveAnswerLost, RecoverJob
<1>2. faults' \in Nat
  BY DEF ReserveAnswerLost, RecoverJob, Fault, ProcessTypeOK
<1>3. QED
  BY <1>1, <1>2
  DEF ReserveAnswerLost, RecoverJob, storeVars, processVars, StoreTypeOK, ProcessTypeOK

LEMMA StoreType ==
    ASSUME ProcessTypeOK, StoreTypeOK, QueuesTypeOK(Job), StoreNext
    PROVE  StoreTypeOK' /\ QueuesTypeOK(Job)' /\ ProcessTypeOK'
<1>1. OnStore
  BY DEF StoreNext, CreateNotification, RepeatCreateNotification, RetryDueAttempt,
         ReplayDeadLetter, Maintenance
<1>2. StoreTypeOK'
  BY CreateType, RetryType, ReplayType, MaintenanceType
  DEF StoreNext, CreateNotification, RepeatCreateNotification, RetryDueAttempt,
      ReplayDeadLetter, Maintenance
<1>3. QED
  BY <1>1, <1>2 DEF OnStore, queueVars, processVars, QueuesTypeOK, ProcessTypeOK

LEMMA TypeInit == Init => TypeOK
BY StoreAssumption, PipelineAssumption
DEF Init, TypeOK, StoreTypeOK, StoreInit, QueuesTypeOK, QueuesInit, NoBatch, PublisherBatch

LEMMA TypeNext == TypeOK /\ [Next]_vars => TypeOK'
<1> SUFFICES ASSUME StoreTypeOK, QueuesTypeOK(Job), ProcessTypeOK, [Next]_vars
             PROVE  StoreTypeOK' /\ QueuesTypeOK(Job)' /\ ProcessTypeOK'
  BY DEF TypeOK, ProcessTypeOK
<1>1. CASE StoreNext
  BY <1>1, StoreType
<1>2. ASSUME NEW p \in Publishers, PublisherNext(p)
      PROVE  StoreTypeOK' /\ QueuesTypeOK(Job)' /\ ProcessTypeOK'
  BY <1>2, PublisherType
<1>3. ASSUME NEW d \in Dispatchers, DispatcherNext(d)
      PROVE  StoreTypeOK' /\ QueuesTypeOK(Job)' /\ ProcessTypeOK'
  BY <1>3, DispatcherType
<1>4. ASSUME NEW w \in Workers, WorkerNext(w)
      PROVE  StoreTypeOK' /\ QueuesTypeOK(Job)' /\ ProcessTypeOK'
  BY <1>4, WorkerType
<1>5. CASE RedisNext
  BY <1>5, RedisType DEF RedisNext
<1>6. CASE UNCHANGED vars
  BY <1>6 DEF vars, storeVars, queueVars, processVars, StoreTypeOK, QueuesTypeOK, ProcessTypeOK
<1>7. QED
  BY <1>1, <1>2, <1>3, <1>4, <1>5, <1>6 DEF Next

\* Every row, every list and every process of the pipeline keeps a value of
\* its type, in particular no queue is ever popped below zero copies.
THEOREM TypeCorrect == Spec => []TypeOK
BY TypeInit, TypeNext, PTL DEF Spec

----------------------------------------------------------------------------
(* What a step may do to the rows, the intents and the copies of jobs.     *)

\* Rows of delivery_attempts stay, and none goes back to pending.
RowsKept ==
    \A a \in Attempt : Exists(a) =>
        attempt'[a] # "absent" /\ (attempt'[a] = "pending" => attempt[a] = "pending")

LEMMA StoreRowsKept == TypeOK /\ StoreNext => RowsKept
<1> SUFFICES ASSUME StoreTypeOK, StoreNext PROVE RowsKept
  BY DEF TypeOK
<1>1. ASSUME NEW n \in Notifications, CreateNotification(n) \/ RepeatCreateNotification(n)
      PROVE  RowsKept
  BY <1>1, InitialInAttempt
  DEF CreateNotification, RepeatCreateNotification, CreateNotificationWithInitialDispatch,
      EnsureInitialAttempt, RowsKept, Exists, StoreTypeOK
<1>2. ASSUME NEW a \in Attempt, RetryDueAttempt(a)
      PROVE  RowsKept
  <2>1. Child(a) \in Attempt
    BY <1>2, ChildInAttempt DEF RetryDueAttempt, EnsureRetryAttempt
  <2>2. QED
    BY <1>2, <2>1 DEF RetryDueAttempt, EnsureRetryAttempt, RowsKept, Exists, StoreTypeOK
<1>3. ASSUME NEW d \in Attempt, ReplayDeadLetter(d)
      PROVE  RowsKept
  <2>1. CASE UNCHANGED attempt
    BY <2>1 DEF RowsKept, Exists
  <2>2. CASE \E a \in Attempt : IsNextNumber(a) /\ attempt' = [attempt EXCEPT ![a] = "pending"]
    <3>1. PICK a \in Attempt : IsNextNumber(a) /\ attempt' = [attempt EXCEPT ![a] = "pending"]
      BY <2>2
    <3>2. a[2] >= a[2] /\ a[1] = a[1]
      BY DEF Attempt
    <3>3. ~ Exists(a)
      BY <3>1, <3>2 DEF IsNextNumber
    <3>4. QED
      BY <3>1, <3>3 DEF RowsKept, Exists, StoreTypeOK
  <2>3. QED
    BY <1>3, <2>1, <2>2 DEF ReplayDeadLetter, EnsureReplayAttempt
<1>4. CASE Maintenance
  BY <1>4 DEF Maintenance, RunMaintenance, RowsKept, Exists
<1>5. QED
  BY <1>1, <1>2, <1>3, <1>4 DEF StoreNext

LEMMA WorkerRowsKept ==
    ASSUME TypeOK, NEW w \in Workers, WorkerNext(w)
    PROVE  RowsKept
<1>1. CASE UNCHANGED attempt
  BY <1>1 DEF RowsKept, Exists
<1>2. CASE \E status \in {"in_progress", "sent", "failed", "retry_scheduled", "dead_lettered"} :
              attempt' = [attempt EXCEPT ![Target(w)] = status]
  BY <1>2 DEF RowsKept, Exists, TypeOK, StoreTypeOK
<1>3. QED
  BY <1>1, <1>2
  DEF WorkerNext, ReserveChannel, Activate, SuppressDuplicate, CallProvider, SettleSent,
      SettleFailed, SettleRetry, SettleDeadLettered, RecordDeadLetter, AckChannel, CrashWorker,
      MarkAttemptInProgress, MarkAttemptSent, MarkAttemptFailed, ScheduleRetry,
      MarkAttemptDeadLettered, SettleAttempt, InsertDeadLetter, storeVars

LEMMA RowsKeptNext == TypeOK /\ [Next]_vars => RowsKept
<1> SUFFICES ASSUME TypeOK, [Next]_vars PROVE RowsKept
  OBVIOUS
<1>1. ASSUME NEW p \in Publishers, PublisherNext(p)
      PROVE  UNCHANGED attempt
  BY <1>1
  DEF PublisherNext, ClaimBatch, PublishIntent, PublishIntentFails, MarkPublished,
      RecordPublishError, CrashPublisher, ClaimPendingDispatchIntents,
      MarkDispatchIntentPublished, RecordDispatchIntentError, storeVars
<1>2. ASSUME NEW d \in Dispatchers, DispatcherNext(d)
      PROVE  UNCHANGED attempt
  BY <1>2
  DEF DispatcherNext, ReserveDispatch, RouteJob, RouteJobFails, RequeueJob, AckDispatch,
      CrashDispatcher, storeVars
<1>3. ASSUME RedisNext \/ UNCHANGED vars
      PROVE  UNCHANGED attempt
  BY <1>3 DEF RedisNext, ReserveAnswerLost, RecoverJob, vars, storeVars
<1>4. QED
  BY <1>1, <1>2, <1>3, StoreRowsKept, WorkerRowsKept DEF Next, RowsKept, Exists

\* No command takes the last copy of pending work, neither out of Redis nor
\* out of the channel queues.
CopiesKept ==
    \A a \in Attempt : attempt[a] = "pending" =>
        /\ HasCopy(a, Queue) => HasCopy(a, Queue)'
        /\ HasCopy(a, Channel) => HasCopy(a, Channel)'

\* Jobs appear only for attempts that exist.
JobsFounded == \A q \in Queue, j \in Job : Holds(q, j)' => Holds(q, j) \/ Exists(j[1])

\* A payload of attempt a is a job.
LEMMA PayloadIsJob ==
    ASSUME NEW a \in Attempt, NEW k \in 1 .. MaxPublications
    PROVE  <<a, k>> \in Job
BY DEF Job

LEMMA SameCopiesSuffices == SameCopies => CopiesKept /\ JobsFounded
BY PayloadIsJob DEF SameCopies, CopiesKept, JobsFounded, HasCopy, Queue

LEMMA MoreCopiesSuffices ==
    ASSUME \A r \in Queue, i \in Job : Holds(r, i) => Holds(r, i)'
    PROVE  CopiesKept
BY PayloadIsJob DEF CopiesKept, HasCopy, Queue

LEMMA PublisherCopies ==
    ASSUME WorkInv, NEW p \in Publishers, PublisherNext(p)
    PROVE  CopiesKept /\ JobsFounded
<1> USE DEF WorkInv, TypeOK
<1>1. CASE UNCHANGED queueVars
  BY <1>1, SameCopiesSuffices DEF queueVars, SameCopies, Holds
<1>2. ASSUME NEW a \in Attempt, ReadyToPublish(p, a), RPushDispatch(a)
      PROVE  CopiesKept /\ JobsFounded
  <2>1. <<a, pubs[a] + 1>> \in Job /\ "dispatch" \in Queue
    BY <1>2, PipelineAssumption DEF RPushDispatch, Job, Queue
  <2>2. Exists(a)
    BY <1>2 DEF ReadyToPublish, BatchesHaveRows, Batch
  <2>3. Enqueue("dispatch", <<a, pubs[a] + 1>>)
    BY <1>2 DEF RPushDispatch
  <2>4. /\ \A r \in Queue, i \in Job : Holds(r, i) => Holds(r, i)'
        /\ \A r \in Queue, i \in Job : Holds(r, i)' => Holds(r, i) \/ i = <<a, pubs[a] + 1>>
    BY <2>1, <2>3, EnqueueCopies
  <2>5. QED
    BY <2>2, <2>4, MoreCopiesSuffices DEF JobsFounded
<1>3. QED
  BY <1>1, <1>2
  DEF PublisherNext, ClaimBatch, PublishIntent, PublishIntentFails, MarkPublished,
      RecordPublishError, CrashPublisher

LEMMA DispatcherCopies ==
    ASSUME WorkInv, NEW d \in Dispatchers, DispatcherNext(d)
    PROVE  CopiesKept /\ JobsFounded
<1> USE DEF WorkInv, TypeOK
<1>0. "dispatch" \in Queue /\ "dispatch" \notin Channel /\ Channel \subseteq Queue
  BY DEF Queue, Channel
<1>1. CASE UNCHANGED queueVars
  BY <1>1, SameCopiesSuffices DEF queueVars, SameCopies, Holds
<1>2. ASSUME NEW j \in Job, ReserveDispatch(d, j)
      PROVE  CopiesKept /\ JobsFounded
  BY <1>0, <1>2, ReserveCopies, SameCopiesSuffices DEF ReserveDispatch
<1>3. ASSUME dispatcher[d] # Idle
      PROVE  dispatcher[d].job \in Job /\ Exists(dispatcher[d].job[1])
  BY <1>3 DEF DispatchersHaveRows
<1>4. CASE /\ dispatcher[d] # Idle
           /\ \/ Enqueue(TargetQueue(dispatcher[d].job), dispatcher[d].job)
              \/ RequeueReserved("dispatch", dispatcher[d].job)
  <2>1. dispatcher[d].job \in Job /\ Exists(dispatcher[d].job[1])
    BY <1>3, <1>4
  <2>2. TargetQueue(dispatcher[d].job) \in Queue
    BY <2>1, TargetQueueType
  <2>3. /\ \A r \in Queue, i \in Job : Holds(r, i) => Holds(r, i)'
        /\ \A r \in Queue, i \in Job : Holds(r, i)' => Holds(r, i) \/ i = dispatcher[d].job
    BY <1>0, <1>4, <2>1, <2>2, EnqueueCopies, RequeueCopies
  <2>4. QED
    BY <2>1, <2>3, MoreCopiesSuffices DEF JobsFounded
<1>5. CASE dispatcher[d].at = "routed" /\ AckReserved("dispatch", dispatcher[d].job)
  <2> DEFINE j == dispatcher[d].job
  <2>1. j \in Job
    BY <1>3, <1>5 DEF Idle
  <2>2. /\ \A r \in Queue, i \in Job : Holds(r, i)' => Holds(r, i)
        /\ \A r \in Queue, i \in Job : Holds(r, i) => Holds(r, i)' \/ (r = "dispatch" /\ i = j)
    BY <1>0, <1>5, <2>1, AckCopies
  <2>3. ASSUME NEW a \in Attempt, HasCopy(a, Channel)
        PROVE  HasCopy(a, Channel)' /\ HasCopy(a, Queue)'
    BY <1>0, <2>2, <2>3, PayloadIsJob DEF HasCopy
  <2>4. ASSUME NEW a \in Attempt, attempt[a] = "pending", HasCopy(a, Queue)
        PROVE  HasCopy(a, Queue)'
    <3>1. CASE j[1] = a
      <4>1. HasCopy(a, Channel)
        BY <1>5, <2>4, <3>1 DEF RoutedIsInChannel
      <4>2. QED
        BY <2>3, <4>1
    <3>2. CASE j[1] # a
      <4>1. PICK r \in Queue, k \in 1 .. MaxPublications : Holds(r, <<a, k>>)
        BY <2>4 DEF HasCopy
      <4>2. Holds(r, <<a, k>>)'
        BY <2>2, <3>2, <4>1, PayloadIsJob
      <4>3. QED
        BY <4>2 DEF HasCopy
    <3>3. QED
      BY <3>1, <3>2
  <2>5. QED
    BY <2>2, <2>3, <2>4 DEF CopiesKept, JobsFounded
<1>6. QED
  BY <1>1, <1>2, <1>4, <1>5
  DEF DispatcherNext, RouteJob, RouteJobFails, RequeueJob, AckDispatch, CrashDispatcher, Idle

LEMMA WorkerCopies ==
    ASSUME WorkInv, NEW w \in Workers, WorkerNext(w)
    PROVE  CopiesKept /\ JobsFounded
<1> USE DEF WorkInv, TypeOK
<1>0. Serves[w] \in Queue
  BY PipelineAssumption DEF Queue
<1>1. CASE UNCHANGED queueVars
  BY <1>1, SameCopiesSuffices DEF queueVars, SameCopies, Holds
<1>2. ASSUME NEW j \in Job, ReserveChannel(w, j)
      PROVE  CopiesKept /\ JobsFounded
  BY <1>0, <1>2, ReserveCopies, SameCopiesSuffices DEF ReserveChannel
<1>3. CASE worker[w].at = "done" /\ AckReserved(Serves[w], worker[w].job)
  <2> DEFINE j == worker[w].job
  <2>1. j \in Job
    BY <1>3, WorkerHasJob DEF Idle, ProcessTypeOK
  <2>2. attempt[j[1]] # "pending"
    BY <1>3 DEF DoneIsTakenUp, Target
  <2>3. /\ \A r \in Queue, i \in Job : Holds(r, i)' => Holds(r, i)
        /\ \A r \in Queue, i \in Job : Holds(r, i) => Holds(r, i)' \/ i = j
    BY <1>0, <1>3, <2>1, AckCopies
  <2>4. ASSUME NEW a \in Attempt, attempt[a] = "pending",
               NEW r \in Queue, NEW k \in 1 .. MaxPublications, Holds(r, <<a, k>>)
        PROVE  Holds(r, <<a, k>>)'
    BY <2>2, <2>3, <2>4, PayloadIsJob
  <2>5. QED
    BY <2>3, <2>4 DEF CopiesKept, JobsFounded, HasCopy, Queue
<1>4. QED
  BY <1>1, <1>2, <1>3
  DEF WorkerNext, Activate, SuppressDuplicate, CallProvider, SettleSent, SettleFailed,
      SettleRetry, SettleDeadLettered, RecordDeadLetter, AckChannel, CrashWorker, OnWorker,
      WorkerAt

LEMMA CopiesNext == WorkInv /\ [Next]_vars => CopiesKept /\ JobsFounded
<1> SUFFICES ASSUME WorkInv, [Next]_vars PROVE CopiesKept /\ JobsFounded
  OBVIOUS
<1>1. CASE StoreNext \/ UNCHANGED vars
  <2>1. UNCHANGED queueVars
    BY <1>1 DEF StoreNext, CreateNotification, RepeatCreateNotification, RetryDueAttempt,
                ReplayDeadLetter, Maintenance, OnStore, vars
  <2>2. QED
    BY <2>1, SameCopiesSuffices DEF queueVars, SameCopies, Holds
<1>2. CASE RedisNext
  BY <1>2, ReserveCopies, RecoverCopies, SameCopiesSuffices
  DEF RedisNext, ReserveAnswerLost, RecoverJob, WorkInv, TypeOK
<1>3. QED
  BY <1>1, <1>2, PublisherCopies, DispatcherCopies, WorkerCopies DEF Next

----------------------------------------------------------------------------
(* The invariant: the rows of the store.                                   *)

\* Outbox rows, history and dead letters keep referring to attempts.
LEMMA StoreKeepsRows ==
    ASSUME RowInv, StoreNext
    PROVE  IntentsHaveRows' /\ ReplaysHaveRows'
<1> USE DEF RowInv, TypeOK, IntentsHaveRows, ReplaysHaveRows, Exists
<1>1. ASSUME NEW n \in Notifications, CreateNotification(n) \/ RepeatCreateNotification(n)
      PROVE  IntentsHaveRows' /\ ReplaysHaveRows'
  BY <1>1, InitialInAttempt
  DEF CreateNotification, RepeatCreateNotification, CreateNotificationWithInitialDispatch,
      EnsureInitialAttempt, InsertedIntent, StoreTypeOK
<1>2. ASSUME NEW a \in Attempt, RetryDueAttempt(a)
      PROVE  IntentsHaveRows' /\ ReplaysHaveRows'
  <2>1. Child(a) \in Attempt
    BY <1>2, ChildInAttempt DEF RetryDueAttempt, EnsureRetryAttempt
  <2>2. QED
    BY <1>2, <2>1 DEF RetryDueAttempt, EnsureRetryAttempt, InsertedIntent, StoreTypeOK
<1>3. ASSUME NEW d \in Attempt, ReplayDeadLetter(d)
      PROVE  IntentsHaveRows' /\ ReplaysHaveRows'
  <2>1. CASE replayOf[d] = None
    <3>1. PICK a \in Attempt :
              /\ attempt' = [attempt EXCEPT ![a] = "pending"]
              /\ intent' = [intent EXCEPT ![a] = InsertedIntent(a)]
              /\ replayOf' = [replayOf EXCEPT ![d] = a]
      BY <1>3, <2>1 DEF ReplayDeadLetter, EnsureReplayAttempt
    <3>2. UNCHANGED enqueuedAt
      BY <1>3 DEF ReplayDeadLetter, EnsureReplayAttempt
    <3>3. QED
      BY <3>1, <3>2, StoreAssumption DEF StoreTypeOK
  <2>2. CASE replayOf[d] # None
    <3>1. replayOf[d] \in Attempt /\ Exists(replayOf[d])
      BY <2>2 DEF StoreTypeOK
    <3>2. UNCHANGED <<attempt, enqueuedAt, replayOf>>
      BY <1>3, <2>2 DEF ReplayDeadLetter, EnsureReplayAttempt
    <3>3. intent' = [intent EXCEPT ![replayOf[d]] = InsertedIntent(replayOf[d])]
      BY <1>3, <2>2 DEF ReplayDeadLetter, EnsureReplayAttempt
    <3>4. QED
      BY <3>1, <3>2, <3>3 DEF StoreTypeOK
  <2>3. QED
    BY <2>1, <2>2
<1>4. CASE Maintenance
  BY <1>4 DEF Maintenance, RunMaintenance, StoreTypeOK
<1>5. QED
  BY <1>1, <1>2, <1>3, <1>4 DEF StoreNext

LEMMA PublisherKeepsRows ==
    ASSUME RowInv, NEW p \in Publishers, PublisherNext(p)
    PROVE  IntentsHaveRows' /\ ReplaysHaveRows'
<1> USE DEF RowInv, TypeOK, IntentsHaveRows, ReplaysHaveRows, Exists
<1>1. CASE UNCHANGED storeVars
  BY <1>1 DEF storeVars
<1>2. CASE \E rows \in SUBSET Attempt : ClaimPendingDispatchIntents(p, rows)
  BY <1>2 DEF ClaimPendingDispatchIntents, StoreTypeOK
<1>3. CASE \E a \in publisher[p].enqueued : MarkDispatchIntentPublished(p, a)
  <2>1. PICK a \in publisher[p].enqueued : MarkDispatchIntentPublished(p, a)
    BY <1>3
  <2>2. a \in Attempt /\ (HoldsClaim(p, a) => Exists(a))
    BY <2>1 DEF HoldsClaim
  <2>3. QED
    BY <2>1, <2>2 DEF MarkDispatchIntentPublished, HoldsClaim, StoreTypeOK, storeVars
<1>4. CASE \E a \in Attempt : RecordDispatchIntentError(p, a)
  BY <1>4 DEF RecordDispatchIntentError, HoldsClaim, StoreTypeOK, storeVars
<1>5. QED
  BY <1>1, <1>2, <1>3, <1>4
  DEF PublisherNext, ClaimBatch, PublishIntent, PublishIntentFails, MarkPublished,
      RecordPublishError, CrashPublisher

LEMMA WorkerKeepsRows ==
    ASSUME RowInv, NEW w \in Workers, WorkerNext(w)
    PROVE  IntentsHaveRows' /\ ReplaysHaveRows'
<1>1. UNCHANGED <<intent, enqueuedAt, replayOf>>
  BY DEF WorkerNext, ReserveChannel, Activate, SuppressDuplicate, CallProvider, SettleSent,
      SettleFailed, SettleRetry, SettleDeadLettered, RecordDeadLetter, AckChannel, CrashWorker,
      MarkAttemptInProgress, MarkAttemptSent, MarkAttemptFailed, ScheduleRetry,
      MarkAttemptDeadLettered, SettleAttempt, InsertDeadLetter, storeVars
<1>2. RowsKept
  BY WorkerRowsKept DEF RowInv
<1>3. QED
  BY <1>1, <1>2
  DEF RowInv, TypeOK, StoreTypeOK, IntentsHaveRows, ReplaysHaveRows, RowsKept, Exists

LEMMA RowsNext == RowInv /\ [Next]_vars => IntentsHaveRows' /\ ReplaysHaveRows'
<1>1. ASSUME RowInv, \/ \E d \in Dispatchers : DispatcherNext(d)
                     \/ RedisNext \/ UNCHANGED vars
      PROVE  IntentsHaveRows' /\ ReplaysHaveRows'
  <2>1. UNCHANGED storeVars
    BY <1>1 DEF DispatcherNext, ReserveDispatch, RouteJob, RouteJobFails, RequeueJob,
                AckDispatch, CrashDispatcher, RedisNext, ReserveAnswerLost, RecoverJob, vars
  <2>2. QED
    BY <1>1, <2>1 DEF RowInv, IntentsHaveRows, ReplaysHaveRows, Exists, storeVars
<1>2. QED
  BY <1>1, StoreKeepsRows, PublisherKeepsRows, WorkerKeepsRows DEF Next

----------------------------------------------------------------------------
(* The invariant: lists and processes.                                     *)

LEMMA JobsNext == WorkInv /\ [Next]_vars => JobsHaveRows'
<1> SUFFICES ASSUME WorkInv, [Next]_vars, NEW q \in Queue, NEW j \in Job, Holds(q, j)'
             PROVE  Exists(j[1])'
  BY DEF JobsHaveRows
<1>1. Exists(j[1]) /\ j[1] \in Attempt
  BY CopiesNext DEF JobsFounded, WorkInv, JobsHaveRows, Job
<1>2. QED
  BY <1>1, RowsKeptNext DEF WorkInv, RowsKept, Exists

\* A pushed job is a copy in Redis.
LEMMA PushGivesCopy ==
    ASSUME TypeOK, NEW a \in Attempt, RPushDispatch(a)
    PROVE  HasCopy(a, Queue)'
<1>1. PICK k \in 1 .. MaxPublications : k = pubs[a] + 1
  BY PipelineAssumption DEF TypeOK, RPushDispatch
<1>2. /\ <<a, k>> \in Job /\ "dispatch" \in Queue
      /\ QueuesTypeOK(Job) /\ Enqueue("dispatch", <<a, k>>)
  BY <1>1 DEF Job, Queue, TypeOK, RPushDispatch
<1>3. Holds("dispatch", <<a, k>>)'
  BY <1>2, EnqueueCopies
<1>4. QED
  BY <1>2, <1>3 DEF HasCopy

\* Giving publisher p a new batch keeps the parts about batches, if the batch
\* names attempts only and what it holds as enqueued is in Redis.
LEMMA NewBatchSuffices ==
    ASSUME WorkInv, CopiesKept, UNCHANGED attempt, NEW p \in Publishers,
           NEW claimed \in SUBSET Attempt, NEW enqueued \in SUBSET Attempt,
           NEW failed \in SUBSET Attempt,
           publisher' = [publisher EXCEPT ![p] = PublisherBatch(claimed, enqueued, failed)],
           \A a \in claimed \cup enqueued \cup failed : Exists(a),
           \A a \in enqueued : HasCopy(a, Queue)'
    PROVE  BatchesHaveRows' /\ PublishedIsInRedis'
<1>1. publisher'[p] = PublisherBatch(claimed, enqueued, failed)
  BY DEF WorkInv, TypeOK
<1>2. \A r \in Publishers : r # p => publisher'[r] = publisher[r]
  BY DEF WorkInv, TypeOK
<1>3. ASSUME NEW r \in Publishers, NEW a \in Batch(r)'
      PROVE  Exists(a)'
  <2>1. CASE r = p
    BY <1>1, <1>3, <2>1 DEF Batch, PublisherBatch, Exists
  <2>2. CASE r # p
    <3>1. a \in Batch(r)
      BY <1>2, <1>3, <2>2 DEF Batch
    <3>2. QED
      BY <3>1 DEF WorkInv, BatchesHaveRows, Exists
  <2>3. QED
    BY <2>1, <2>2
<1>4. ASSUME NEW r \in Publishers, NEW a \in publisher'[r].enqueued, attempt'[a] = "pending"
      PROVE  HasCopy(a, Queue)'
  <2>1. CASE r = p
    BY <1>1, <1>4, <2>1 DEF PublisherBatch
  <2>2. CASE r # p
    <3>1. a \in publisher[r].enqueued /\ a \in Attempt
      BY <1>2, <1>4, <2>2 DEF WorkInv, TypeOK
    <3>2. HasCopy(a, Queue)
      BY <1>4, <3>1 DEF WorkInv, PublishedIsInRedis
    <3>3. QED
      BY <1>4, <3>1, <3>2 DEF CopiesKept
  <2>3. QED
    BY <2>1, <2>2
<1>5. QED
  BY <1>3, <1>4 DEF BatchesHaveRows, PublishedIsInRedis

LEMMA PublisherKeepsBatches ==
    ASSUME WorkInv, [Next]_vars, NEW p \in Publishers, PublisherNext(p)
    PROVE  BatchesHaveRows' /\ PublishedIsInRedis'
<1>0. UNCHANGED attempt
  BY DEF PublisherNext, ClaimBatch, PublishIntent, PublishIntentFails, MarkPublished,
      RecordPublishError, CrashPublisher, ClaimPendingDispatchIntents,
      MarkDispatchIntentPublished, RecordDispatchIntentError, storeVars
<1>1. CopiesKept
  BY CopiesNext
<1>2. /\ publisher[p].claimed \in SUBSET Attempt
      /\ \A b \in publisher[p].claimed : Exists(b)
  BY DEF WorkInv, TypeOK, BatchesHaveRows, Batch
<1>3. CASE ClaimBatch(p)
  <2>1. PICK rows \in SUBSET Attempt :
            /\ ClaimPendingDispatchIntents(p, rows)
            /\ publisher' = [publisher EXCEPT ![p] = PublisherBatch(rows, {}, {})]
    BY <1>3 DEF ClaimBatch
  <2>2. \A a \in rows : Exists(a)
    BY <2>1 DEF ClaimPendingDispatchIntents, WorkInv, IntentsHaveRows
  <2>3. QED
    <3>1. /\ {} \in SUBSET Attempt
          /\ \A a \in rows \cup {} \cup {} : Exists(a)
          /\ \A a \in {} : HasCopy(a, Queue)'
      BY <2>2
    <3>2. QED
      BY <1>0, <1>1, <2>1, <3>1, NewBatchSuffices
<1>4. ASSUME NEW a \in Attempt, PublishIntent(p, a)
      PROVE  BatchesHaveRows' /\ PublishedIsInRedis'
  <2>1. publisher' = [publisher EXCEPT ![p] = PublisherBatch(publisher[p].claimed \ {a}, {a}, {})]
    BY <1>4 DEF PublishIntent
  <2>2. HasCopy(a, Queue)'
    BY <1>4, PushGivesCopy DEF PublishIntent, WorkInv
  <2>3. Exists(a)
    BY <1>2, <1>4 DEF PublishIntent, ReadyToPublish
  <2>4. QED
    <3> DEFINE rest == publisher[p].claimed \ {a}
    <3>1. /\ rest \in SUBSET Attempt /\ {a} \in SUBSET Attempt /\ {} \in SUBSET Attempt
          /\ \A b \in rest \cup {a} \cup {} : Exists(b)
          /\ \A b \in {a} : HasCopy(b, Queue)'
      BY <1>2, <2>2, <2>3
    <3>2. publisher' = [publisher EXCEPT ![p] = PublisherBatch(rest, {a}, {})]
      BY <2>1
    <3> HIDE DEF rest
    <3>3. QED
      BY <1>0, <1>1, <3>1, <3>2, NewBatchSuffices
<1>5. ASSUME NEW a \in Attempt, PublishIntentFails(p, a)
      PROVE  BatchesHaveRows' /\ PublishedIsInRedis'
  <2>1. publisher' = [publisher EXCEPT ![p] = PublisherBatch(publisher[p].claimed \ {a}, {}, {a})]
    BY <1>5 DEF PublishIntentFails
  <2>2. Exists(a)
    BY <1>2, <1>5 DEF PublishIntentFails, ReadyToPublish
  <2>3. QED
    <3> DEFINE rest == publisher[p].claimed \ {a}
    <3>1. /\ rest \in SUBSET Attempt /\ {a} \in SUBSET Attempt /\ {} \in SUBSET Attempt
          /\ \A b \in rest \cup {} \cup {a} : Exists(b)
          /\ \A b \in {} : HasCopy(b, Queue)'
      BY <1>2, <2>2
    <3>2. publisher' = [publisher EXCEPT ![p] = PublisherBatch(rest, {}, {a})]
      BY <2>1
    <3> HIDE DEF rest
    <3>3. QED
      BY <1>0, <1>1, <3>1, <3>2, NewBatchSuffices
<1>6. CASE MarkPublished(p) \/ RecordPublishError(p) \/ CrashPublisher(p)
  <2>1. \/ publisher' = [publisher EXCEPT ![p] = PublisherBatch(publisher[p].claimed, {}, {})]
        \/ publisher' = [publisher EXCEPT ![p] = PublisherBatch({}, {}, {})]
    BY <1>6 DEF MarkPublished, RecordPublishError, CrashPublisher, NoBatch
  <2>2. /\ {} \in SUBSET Attempt
        /\ \A b \in publisher[p].claimed \cup {} \cup {} : Exists(b)
        /\ \A b \in {} \cup {} \cup {} : Exists(b)
        /\ \A b \in {} : HasCopy(b, Queue)'
    BY <1>2
  <2>3. QED
    BY <1>0, <1>1, <1>2, <2>1, <2>2, NewBatchSuffices
<1>7. QED
  BY <1>3, <1>4, <1>5, <1>6 DEF PublisherNext

LEMMA BatchesNext == WorkInv /\ [Next]_vars => BatchesHaveRows' /\ PublishedIsInRedis'
<1> SUFFICES ASSUME WorkInv, [Next]_vars PROVE BatchesHaveRows' /\ PublishedIsInRedis'
  OBVIOUS
<1>1. CASE UNCHANGED publisher
  <2>1. ASSUME NEW r \in Publishers, NEW a \in Batch(r)
        PROVE  a \in Attempt /\ Exists(a) /\ Exists(a)'
                /\ (attempt'[a] = "pending" => attempt[a] = "pending")
    BY <2>1, RowsKeptNext DEF WorkInv, TypeOK, BatchesHaveRows, Batch, RowsKept, Exists
  <2>2. BatchesHaveRows'
    BY <1>1, <2>1 DEF BatchesHaveRows, Batch
  <2>3. ASSUME NEW r \in Publishers, NEW a \in publisher[r].enqueued, attempt'[a] = "pending"
        PROVE  HasCopy(a, Queue)'
    <3>1. a \in Attempt /\ attempt[a] = "pending"
      BY <2>1, <2>3 DEF Batch
    <3>2. HasCopy(a, Queue)
      BY <3>1 DEF WorkInv, PublishedIsInRedis
    <3>3. QED
      BY <3>1, <3>2, CopiesNext DEF CopiesKept
  <2>4. QED
    BY <1>1, <2>2, <2>3 DEF PublishedIsInRedis
<1>2. CASE \E p \in Publishers : PublisherNext(p)
  BY <1>2, PublisherKeepsBatches
<1>3. UNCHANGED publisher \/ \E p \in Publishers : PublisherNext(p)
  BY DEF Next, StoreNext, CreateNotification, RepeatCreateNotification, RetryDueAttempt,
      ReplayDeadLetter, Maintenance, OnStore, DispatcherNext, ReserveDispatch, RouteJob,
      RouteJobFails, RequeueJob, AckDispatch, CrashDispatcher, WorkerNext, ReserveChannel,
      Activate, SuppressDuplicate, CallProvider, SettleSent, SettleFailed, SettleRetry,
      SettleDeadLettered, RecordDeadLetter, AckChannel, CrashWorker, OnWorker, RedisNext,
      ReserveAnswerLost, RecoverJob, vars, processVars
<1>4. QED
  BY <1>1, <1>2, <1>3

\* What the parts about dispatchers say of dispatcher e.
DispatcherOK(e) ==
    /\ dispatcher[e] # Idle => Exists(dispatcher[e].job[1])
    /\ dispatcher[e].at = "routed" /\ attempt[dispatcher[e].job[1]] = "pending"
          => HasCopy(dispatcher[e].job[1], Channel)

LEMMA OtherDispatcher ==
    ASSUME WorkInv, [Next]_vars, NEW e \in Dispatchers, dispatcher'[e] = dispatcher[e]
    PROVE  DispatcherOK(e)'
<1>1. CASE dispatcher[e] = Idle
  BY <1>1 DEF DispatcherOK, Idle
<1>2. CASE dispatcher[e] # Idle
  <2>1. PICK a \in Attempt : a = dispatcher[e].job[1]
    BY <1>2 DEF WorkInv, TypeOK, Job
  <2>2. Exists(a) /\ Exists(a)' /\ (attempt'[a] = "pending" => attempt[a] = "pending")
    BY <1>2, <2>1, RowsKeptNext DEF WorkInv, DispatchersHaveRows, RowsKept, Exists
  <2>3. ASSUME dispatcher[e].at = "routed", attempt'[a] = "pending"
        PROVE  HasCopy(a, Channel)'
    <3>1. HasCopy(a, Channel)
      BY <2>1, <2>2, <2>3 DEF WorkInv, RoutedIsInChannel
    <3>2. QED
      BY <2>2, <2>3, <3>1, CopiesNext DEF CopiesKept
  <2>4. dispatcher'[e].job[1] = a
    BY <2>1
  <2>5. QED
    BY <2>2, <2>3, <2>4 DEF DispatcherOK
<1>3. QED
  BY <1>1, <1>2

LEMMA StepOfDispatcher ==
    ASSUME WorkInv, [Next]_vars, NEW d \in Dispatchers, DispatcherNext(d)
    PROVE  DispatcherOK(d)'
<1>0. UNCHANGED attempt
  BY DEF DispatcherNext, ReserveDispatch, RouteJob, RouteJobFails, RequeueJob, AckDispatch,
      CrashDispatcher, storeVars
<1>1. ASSUME NEW j \in Job, ReserveDispatch(d, j)
      PROVE  DispatcherOK(d)'
  <2>1. dispatcher'[d] = [at |-> "reserved", job |-> j]
    BY <1>1 DEF ReserveDispatch, WorkInv, TypeOK
  <2>2. Exists(j[1])
    <3>1. Holds("dispatch", j) /\ "dispatch" \in Queue
      BY <1>1 DEF ReserveDispatch, Reserve, Holds, Queue
    <3>2. QED
      BY <3>1 DEF WorkInv, JobsHaveRows
  <2>3. QED
    BY <1>0, <2>1, <2>2 DEF DispatcherOK, Exists
<1>2. CASE RouteJob(d)
  <2>1. PICK a \in Attempt, k \in 1 .. MaxPublications : dispatcher[d].job = <<a, k>>
    BY <1>2 DEF RouteJob, WorkInv, TypeOK, Idle, Job
  <2>2. dispatcher'[d].job = <<a, k>> /\ Exists(a)
    BY <1>2, <2>1 DEF RouteJob, WorkInv, TypeOK, DispatchersHaveRows, Idle
  <2>3. /\ <<a, k>> \in Job /\ TargetQueue(<<a, k>>) \in Channel
        /\ TargetQueue(<<a, k>>) \in Queue
    BY PayloadIsJob, TargetQueueType
  <2>4. Enqueue(TargetQueue(<<a, k>>), <<a, k>>) /\ QueuesTypeOK(Job)
    BY <1>2, <2>1 DEF RouteJob, WorkInv, TypeOK
  <2>5. Holds(TargetQueue(<<a, k>>), <<a, k>>)'
    BY <2>3, <2>4, EnqueueCopies
  <2>6. HasCopy(a, Channel)'
    BY <2>3, <2>5 DEF HasCopy
  <2>7. QED
    BY <1>0, <2>2, <2>6 DEF DispatcherOK, Exists
<1>3. CASE RouteJobFails(d)
  <2>1. /\ dispatcher[d] # Idle
        /\ dispatcher'[d].job = dispatcher[d].job
        /\ dispatcher'[d].at = "refused"
    BY <1>3 DEF RouteJobFails, WorkInv, TypeOK, Idle
  <2>2. QED
    BY <1>0, <2>1 DEF DispatcherOK, Exists, WorkInv, DispatchersHaveRows
<1>4. CASE RequeueJob(d) \/ AckDispatch(d) \/ CrashDispatcher(d)
  <2>1. dispatcher'[d] = Idle
    BY <1>4 DEF RequeueJob, AckDispatch, CrashDispatcher, WorkInv, TypeOK
  <2>2. QED
    BY <2>1 DEF DispatcherOK, Idle
<1>5. QED
  BY <1>1, <1>2, <1>3, <1>4 DEF DispatcherNext

LEMMA DispatchersNext == WorkInv /\ [Next]_vars => DispatchersHaveRows' /\ RoutedIsInChannel'
<1> SUFFICES ASSUME WorkInv, [Next]_vars, NEW e \in Dispatchers PROVE DispatcherOK(e)'
  BY DEF DispatchersHaveRows, RoutedIsInChannel, DispatcherOK
<1>1. CASE dispatcher'[e] = dispatcher[e]
  BY <1>1, OtherDispatcher
<1>2. CASE DispatcherNext(e)
  BY <1>2, StepOfDispatcher
<1>3. ASSUME NEW d \in Dispatchers, d # e, DispatcherNext(d)
      PROVE  dispatcher'[e] = dispatcher[e]
  BY <1>3 DEF DispatcherNext, ReserveDispatch, RouteJob, RouteJobFails, RequeueJob,
      AckDispatch, CrashDispatcher, WorkInv, TypeOK
<1>4. \/ UNCHANGED dispatcher
      \/ \E d \in Dispatchers : DispatcherNext(d)
  BY DEF Next, StoreNext, CreateNotification, RepeatCreateNotification, RetryDueAttempt,
      ReplayDeadLetter, Maintenance, OnStore, PublisherNext, ClaimBatch, PublishIntent,
      PublishIntentFails, MarkPublished, RecordPublishError, CrashPublisher, WorkerNext,
      ReserveChannel, Activate, SuppressDuplicate, CallProvider, SettleSent, SettleFailed,
      SettleRetry, SettleDeadLettered, RecordDeadLetter, AckChannel, CrashWorker, OnWorker,
      RedisNext, ReserveAnswerLost, RecoverJob, vars, processVars
<1>5. QED
  BY <1>1, <1>2, <1>3, <1>4

\* What the parts about workers say of worker slot v.
WorkerOK(v) ==
    /\ worker[v] # Idle => Exists(Target(v))
    /\ worker[v].at \in {"dead_lettering", "done"} => attempt[Target(v)] # "pending"

LEMMA OtherWorker ==
    ASSUME WorkInv, [Next]_vars, NEW v \in Workers, worker'[v] = worker[v]
    PROVE  WorkerOK(v)'
<1>1. CASE worker[v] = Idle
  BY <1>1 DEF WorkerOK, Idle
<1>2. CASE worker[v] # Idle
  <2>1. PICK a \in Attempt : a = Target(v)
    BY <1>2, WorkerHasJob DEF WorkInv, TypeOK, ProcessTypeOK
  <2>2. Exists(a) /\ Exists(a)' /\ (attempt'[a] = "pending" => attempt[a] = "pending")
    BY <1>2, <2>1, RowsKeptNext DEF WorkInv, WorkersHaveRows, RowsKept, Exists
  <2>3. Target(v)' = a
    BY <2>1 DEF Target
  <2>4. QED
    BY <2>1, <2>2, <2>3 DEF WorkerOK, WorkInv, DoneIsTakenUp
<1>3. QED
  BY <1>1, <1>2

\* A worker that goes on with its job.
LEMMA WorkerGoesOn ==
    ASSUME WorkInv, [Next]_vars, NEW w \in Workers, worker[w] # Idle,
           NEW step \in WorkerStep, WorkerGoes(w, step),
           step \in {"dead_lettering", "done"} => attempt'[Target(w)] # "pending"
    PROVE  WorkerOK(w)'
<1>1. PICK a \in Attempt : a = Target(w)
  BY WorkerHasJob DEF WorkInv, TypeOK, ProcessTypeOK
<1>2. Exists(a)'
  BY <1>1, RowsKeptNext DEF WorkInv, WorkersHaveRows, RowsKept, Exists
<1>3. worker'[w].at = step /\ worker'[w].job = worker[w].job
  BY DEF WorkerGoes, WorkInv, TypeOK, Idle
<1>4. Target(w)' = a
  BY <1>1, <1>3 DEF Target
<1>5. QED
  BY <1>1, <1>2, <1>3, <1>4 DEF WorkerOK

LEMMA StepOfWorker ==
    ASSUME WorkInv, [Next]_vars, NEW w \in Workers, WorkerNext(w)
    PROVE  WorkerOK(w)'
<1>1. ASSUME NEW j \in Job, ReserveChannel(w, j)
      PROVE  WorkerOK(w)'
  <2>1. worker'[w] = [at |-> "reserved", job |-> j] /\ UNCHANGED attempt
    BY <1>1 DEF ReserveChannel, WorkInv, TypeOK, storeVars
  <2>2. Holds(Serves[w], j) /\ Serves[w] \in Queue
    BY <1>1, PipelineAssumption DEF ReserveChannel, Reserve, Holds, Queue
  <2>3. Exists(j[1])
    BY <2>2 DEF WorkInv, JobsHaveRows
  <2>4. QED
    BY <2>1, <2>3 DEF WorkerOK, Target, Exists
<1>2. CASE \/ Activate(w) \/ SuppressDuplicate(w) \/ CallProvider(w) \/ SettleSent(w)
           \/ SettleFailed(w) \/ SettleRetry(w) \/ SettleDeadLettered(w) \/ RecordDeadLetter(w)
  <2>1. worker[w] # Idle
    BY <1>2 DEF Activate, SuppressDuplicate, CallProvider, SettleSent, SettleFailed,
                SettleRetry, SettleDeadLettered, RecordDeadLetter, WorkerAt, Idle
  <2>2. Target(w) \in Attempt /\ attempt \in [Attempt -> {"absent"} \cup AttemptStatus]
    BY <2>1, WorkerHasJob DEF WorkInv, TypeOK, ProcessTypeOK, StoreTypeOK
  <2>3. CASE Activate(w) \/ CallProvider(w)
    <3>1. \E step \in {"active", "delivered", "retryable", "terminal"} : WorkerGoes(w, step)
      BY <2>3 DEF Activate, CallProvider
    <3>2. QED
      BY <2>1, <3>1, WorkerGoesOn DEF WorkerStep
  <2>4. CASE SuppressDuplicate(w) \/ RecordDeadLetter(w)
    <3>1. WorkerGoes(w, "done") /\ UNCHANGED attempt
      BY <2>4 DEF SuppressDuplicate, RecordDeadLetter, InsertDeadLetter, storeVars
    <3>2. attempt[Target(w)] # "pending"
      BY <2>4 DEF SuppressDuplicate, RecordDeadLetter, WorkerAt, WorkInv, DoneIsTakenUp
    <3>3. QED
      BY <2>1, <3>1, <3>2, WorkerGoesOn DEF WorkerStep
  <2>5. CASE SettleSent(w) \/ SettleFailed(w) \/ SettleRetry(w) \/ SettleDeadLettered(w)
    <3>1. \E step \in {"dead_lettering", "done"} : WorkerGoes(w, step)
      BY <2>5 DEF SettleSent, SettleFailed, SettleRetry, SettleDeadLettered
    <3>2. attempt'[Target(w)] # "pending"
      BY <2>2, <2>5
      DEF SettleSent, SettleFailed, SettleRetry, SettleDeadLettered, MarkAttemptSent,
          MarkAttemptFailed, ScheduleRetry, MarkAttemptDeadLettered, SettleAttempt
    <3>3. QED
      BY <2>1, <3>1, <3>2, WorkerGoesOn DEF WorkerStep
  <2>6. QED
    BY <1>2, <2>3, <2>4, <2>5
<1>3. CASE AckChannel(w) \/ CrashWorker(w)
  <2>1. worker'[w] = Idle
    BY <1>3 DEF AckChannel, CrashWorker, WorkInv, TypeOK
  <2>2. QED
    BY <2>1 DEF WorkerOK, Idle
<1>4. QED
  BY <1>1, <1>2, <1>3 DEF WorkerNext

LEMMA WorkersNext == WorkInv /\ [Next]_vars => WorkersHaveRows' /\ DoneIsTakenUp'
<1> SUFFICES ASSUME WorkInv, [Next]_vars, NEW v \in Workers PROVE WorkerOK(v)'
  BY DEF WorkersHaveRows, DoneIsTakenUp, WorkerOK
<1>1. CASE worker'[v] = worker[v]
  BY <1>1, OtherWorker
<1>2. CASE WorkerNext(v)
  BY <1>2, StepOfWorker
<1>3. ASSUME NEW w \in Workers, w # v, WorkerNext(w)
      PROVE  worker'[v] = worker[v]
  BY <1>3 DEF WorkerNext, ReserveChannel, Activate, SuppressDuplicate, CallProvider, SettleSent,
      SettleFailed, SettleRetry, SettleDeadLettered, RecordDeadLetter, AckChannel, CrashWorker,
      WorkerGoes, WorkInv, TypeOK
<1>4. \/ UNCHANGED worker
      \/ \E w \in Workers : WorkerNext(w)
  BY DEF Next, StoreNext, CreateNotification, RepeatCreateNotification, RetryDueAttempt,
      ReplayDeadLetter, Maintenance, OnStore, PublisherNext, ClaimBatch, PublishIntent,
      PublishIntentFails, MarkPublished, RecordPublishError, CrashPublisher, DispatcherNext,
      ReserveDispatch, RouteJob, RouteJobFails, RequeueJob, AckDispatch, CrashDispatcher,
      RedisNext, ReserveAnswerLost, RecoverJob, vars, processVars
<1>5. QED
  BY <1>1, <1>2, <1>3, <1>4

----------------------------------------------------------------------------
(* The invariant: no pending attempt is lost.                              *)

\* The part about attempt a.
NotLost(a) ==
    attempt[a] = "pending" => intent[a] \in {"pending", "publishing"} \/ HasCopy(a, Queue)

\* An attempt that exists stays covered unless a step ends its outbox row.
LEMMA StillNotLost ==
    ASSUME WorkInv, [Next]_vars, NEW a \in Attempt, Exists(a),
           intent[a] \in {"pending", "publishing"} => intent'[a] \in {"pending", "publishing"}
    PROVE  NotLost(a)'
<1> SUFFICES ASSUME attempt'[a] = "pending"
             PROVE  intent'[a] \in {"pending", "publishing"} \/ HasCopy(a, Queue)'
  BY DEF NotLost
<1>1. attempt[a] = "pending"
  BY RowsKeptNext DEF WorkInv, RowsKept
<1>2. intent[a] \in {"pending", "publishing"} \/ HasCopy(a, Queue)
  BY <1>1 DEF WorkInv, NoLostWork
<1>3. HasCopy(a, Queue) => HasCopy(a, Queue)'
  BY <1>1, CopiesNext DEF CopiesKept
<1>4. QED
  BY <1>2, <1>3

\* A new attempt starts with a pending outbox row: none was ever published.
LEMMA NewIntent ==
    ASSUME WorkInv, NEW a \in Attempt, ~ Exists(a)
    PROVE  intent[a] = "absent" /\ InsertedIntent(a) = "pending"
BY DEF WorkInv, IntentsHaveRows, InsertedIntent

\* INSERT ... ON CONFLICT DO NOTHING leaves a row that is there as it is.
LEMMA KeptIntent ==
    ASSUME NEW a, intent[a] \in {"pending", "publishing"}
    PROVE  InsertedIntent(a) = intent[a]
BY DEF InsertedIntent

LEMMA StoreLosesNothing ==
    ASSUME WorkInv, [Next]_vars, StoreNext, NEW a \in Attempt
    PROVE  NotLost(a)'
<1> USE DEF WorkInv, TypeOK, StoreTypeOK
<1>1. ASSUME NEW n \in Notifications, CreateNotification(n)
      PROVE  NotLost(a)'
  <2>1. /\ attempt' = [attempt EXCEPT ![Initial(n)] = "pending"]
        /\ intent' = [intent EXCEPT ![Initial(n)] = "pending"]
    BY <1>1 DEF CreateNotification, CreateNotificationWithInitialDispatch
  <2>2. CASE a = Initial(n)
    BY <2>1, <2>2, InitialInAttempt DEF NotLost
  <2>3. CASE a # Initial(n) /\ Exists(a)
    BY <2>1, <2>3, StillNotLost
  <2>4. CASE a # Initial(n) /\ ~ Exists(a)
    BY <2>1, <2>4 DEF NotLost, Exists
  <2>5. QED
    BY <2>2, <2>3, <2>4
<1>2. ASSUME NEW n \in Notifications, RepeatCreateNotification(n)
      PROVE  NotLost(a)'
  <2>1. /\ UNCHANGED attempt
        /\ intent' = [intent EXCEPT ![Initial(n)] = InsertedIntent(Initial(n))]
    BY <1>2 DEF RepeatCreateNotification, EnsureInitialAttempt
  <2>2. intent[a] \in {"pending", "publishing"} => intent'[a] \in {"pending", "publishing"}
    BY <2>1, KeptIntent
  <2>3. CASE Exists(a)
    BY <2>2, <2>3, StillNotLost
  <2>4. CASE ~ Exists(a)
    BY <2>1, <2>4 DEF NotLost, Exists
  <2>5. QED
    BY <2>3, <2>4
<1>3. ASSUME NEW b \in Attempt, RetryDueAttempt(b)
      PROVE  NotLost(a)'
  <2>1. /\ \/ attempt' = [attempt EXCEPT ![b] = "failed", ![Child(b)] = "pending"]
           \/ UNCHANGED attempt
        /\ intent' = [intent EXCEPT ![Child(b)] = InsertedIntent(Child(b))]
        /\ Child(b) \in Attempt
    BY <1>3, ChildInAttempt DEF RetryDueAttempt, EnsureRetryAttempt
  <2>2. intent[a] \in {"pending", "publishing"} => intent'[a] \in {"pending", "publishing"}
    BY <2>1, KeptIntent
  <2>3. CASE Exists(a)
    BY <2>2, <2>3, StillNotLost
  <2>4. CASE ~ Exists(a) /\ a = Child(b)
    BY <2>1, <2>4, NewIntent DEF NotLost
  <2>5. CASE ~ Exists(a) /\ a # Child(b)
    <3>1. attempt'[a] # "pending"
      BY <2>1, <2>5 DEF Exists
    <3>2. QED
      BY <3>1 DEF NotLost
  <2>6. QED
    BY <2>3, <2>4, <2>5
<1>4. ASSUME NEW d \in Attempt, ReplayDeadLetter(d)
      PROVE  NotLost(a)'
  <2>1. CASE replayOf[d] = None
    <3>1. PICK b \in Attempt :
              /\ attempt' = [attempt EXCEPT ![b] = "pending"]
              /\ intent' = [intent EXCEPT ![b] = InsertedIntent(b)]
      BY <1>4, <2>1 DEF ReplayDeadLetter, EnsureReplayAttempt
    <3>2. intent[a] \in {"pending", "publishing"} => intent'[a] \in {"pending", "publishing"}
      BY <3>1, KeptIntent
    <3>3. CASE Exists(a)
      BY <3>2, <3>3, StillNotLost
    <3>4. CASE ~ Exists(a) /\ a = b
      BY <3>1, <3>4, NewIntent DEF NotLost
    <3>5. CASE ~ Exists(a) /\ a # b
      BY <3>1, <3>5 DEF NotLost, Exists
    <3>6. QED
      BY <3>3, <3>4, <3>5
  <2>2. CASE replayOf[d] # None
    <3>1. /\ UNCHANGED attempt
          /\ intent' = [intent EXCEPT ![replayOf[d]] = InsertedIntent(replayOf[d])]
      BY <1>4, <2>2 DEF ReplayDeadLetter, EnsureReplayAttempt
    <3>2. intent[a] \in {"pending", "publishing"} => intent'[a] \in {"pending", "publishing"}
      BY <3>1, KeptIntent
    <3>3. CASE Exists(a)
      BY <3>2, <3>3, StillNotLost
    <3>4. CASE ~ Exists(a)
      BY <3>1, <3>4 DEF NotLost, Exists
    <3>5. QED
      BY <3>3, <3>4
  <2>3. QED
    BY <2>1, <2>2
<1>5. CASE Maintenance
  <2>1. /\ UNCHANGED attempt
        /\ intent[a] \in {"pending", "publishing"} => intent'[a] \in {"pending", "publishing"}
    BY <1>5 DEF Maintenance, RunMaintenance
  <2>2. CASE Exists(a)
    BY <2>1, <2>2, StillNotLost
  <2>3. CASE ~ Exists(a)
    BY <2>1, <2>3 DEF NotLost, Exists
  <2>4. QED
    BY <2>2, <2>3
<1>6. QED
  BY <1>1, <1>2, <1>3, <1>4, <1>5 DEF StoreNext

LEMMA PublisherLosesNothing ==
    ASSUME WorkInv, [Next]_vars, NEW p \in Publishers, PublisherNext(p), NEW a \in Attempt
    PROVE  NotLost(a)'
<1> USE DEF WorkInv, TypeOK, StoreTypeOK
<1>1. UNCHANGED attempt
  BY DEF PublisherNext, ClaimBatch, PublishIntent, PublishIntentFails, MarkPublished,
      RecordPublishError, CrashPublisher, ClaimPendingDispatchIntents,
      MarkDispatchIntentPublished, RecordDispatchIntentError, storeVars
<1>2. CASE ~ Exists(a)
  BY <1>1, <1>2 DEF NotLost, Exists
<1>3. CASE Exists(a) /\ MarkPublished(p) /\ a \in publisher[p].enqueued
  <2>1. attempt[a] = "pending" => HasCopy(a, Queue)'
    BY <1>3, CopiesNext DEF PublishedIsInRedis, CopiesKept
  <2>2. QED
    BY <1>1, <2>1 DEF NotLost
<1>4. CASE Exists(a) /\ ~ (MarkPublished(p) /\ a \in publisher[p].enqueued)
  <2>1. CASE \E rows \in SUBSET Attempt : ClaimPendingDispatchIntents(p, rows)
    BY <1>4, <2>1, StillNotLost DEF ClaimPendingDispatchIntents
  <2>2. CASE MarkPublished(p)
    <3>1. PICK b \in publisher[p].enqueued : MarkDispatchIntentPublished(p, b)
      BY <2>2 DEF MarkPublished
    <3>2. a # b /\ intent'[a] = intent[a]
      BY <1>4, <2>2, <3>1 DEF MarkDispatchIntentPublished, storeVars
    <3>3. QED
      BY <1>4, <3>2, StillNotLost
  <2>3. CASE RecordPublishError(p)
    <3>1. PICK b \in publisher[p].failed : RecordDispatchIntentError(p, b)
      BY <2>3 DEF RecordPublishError
    <3>2. intent[a] \in {"pending", "publishing"} => intent'[a] \in {"pending", "publishing"}
      BY <3>1 DEF RecordDispatchIntentError, storeVars
    <3>3. QED
      BY <1>4, <3>2, StillNotLost
  <2>4. CASE UNCHANGED storeVars
    BY <1>4, <2>4, StillNotLost DEF storeVars
  <2>5. QED
    BY <2>1, <2>2, <2>3, <2>4
    DEF PublisherNext, ClaimBatch, PublishIntent, PublishIntentFails, CrashPublisher
<1>5. QED
  BY <1>2, <1>3, <1>4

LEMMA NothingLostNext == WorkInv /\ [Next]_vars => NoLostWork'
<1> SUFFICES ASSUME WorkInv, [Next]_vars, NEW a \in Attempt PROVE NotLost(a)'
  BY DEF NoLostWork, NotLost
<1>1. CASE \/ \E d \in Dispatchers : DispatcherNext(d)
           \/ \E w \in Workers : WorkerNext(w)
           \/ RedisNext \/ UNCHANGED vars
  <2>1. UNCHANGED intent
    BY <1>1 DEF DispatcherNext, ReserveDispatch, RouteJob, RouteJobFails, RequeueJob,
        AckDispatch, CrashDispatcher, WorkerNext, ReserveChannel, Activate, SuppressDuplicate,
        CallProvider, SettleSent, SettleFailed, SettleRetry, SettleDeadLettered,
        RecordDeadLetter, AckChannel, CrashWorker, MarkAttemptInProgress, MarkAttemptSent,
        MarkAttemptFailed, ScheduleRetry, MarkAttemptDeadLettered, SettleAttempt,
        InsertDeadLetter, RedisNext, ReserveAnswerLost, RecoverJob, vars, storeVars
  <2>2. attempt'[a] = "pending" => attempt[a] = "pending"
    <3>1. CASE \E w \in Workers : WorkerNext(w)
      <4>1. PICK w \in Workers : WorkerNext(w)
        BY <3>1
      <4>2. \/ UNCHANGED attempt
            \/ \E status \in AttemptStatus \ {"pending"} :
                  worker[w] # Idle /\ attempt' = [attempt EXCEPT ![Target(w)] = status]
        BY <4>1 DEF WorkerNext, ReserveChannel, Activate, SuppressDuplicate, CallProvider,
            SettleSent, SettleFailed, SettleRetry, SettleDeadLettered, RecordDeadLetter,
            AckChannel, CrashWorker, MarkAttemptInProgress, MarkAttemptSent, MarkAttemptFailed,
            ScheduleRetry, MarkAttemptDeadLettered, SettleAttempt, InsertDeadLetter, storeVars,
            AttemptStatus, WorkerAt, Idle
      <4>3. QED
        BY <4>2 DEF WorkInv, TypeOK, StoreTypeOK
    <3>2. CASE \/ \E d \in Dispatchers : DispatcherNext(d)
               \/ RedisNext \/ UNCHANGED vars
      BY <3>2 DEF DispatcherNext, ReserveDispatch, RouteJob, RouteJobFails, RequeueJob,
          AckDispatch, CrashDispatcher, RedisNext, ReserveAnswerLost, RecoverJob, vars, storeVars
    <3>3. QED
      BY <1>1, <3>1, <3>2
  <2>3. CASE Exists(a)
    BY <2>1, <2>3, StillNotLost
  <2>4. CASE ~ Exists(a)
    BY <2>2, <2>4 DEF NotLost, Exists
  <2>5. QED
    BY <2>3, <2>4
<1>2. QED
  BY <1>1, StoreLosesNothing, PublisherLosesNothing DEF Next

LEMMA WorkInit == Init => WorkInv
<1> SUFFICES ASSUME Init PROVE WorkInv
  OBVIOUS
<1>1. TypeOK
  BY TypeInit
<1>2. IntentsHaveRows /\ ReplaysHaveRows /\ NoLostWork
  BY DEF Init, StoreInit, IntentsHaveRows, ReplaysHaveRows, NoLostWork
<1>3. JobsHaveRows
  BY DEF Init, QueuesInit, JobsHaveRows, Holds
<1>4. BatchesHaveRows /\ PublishedIsInRedis
  BY DEF Init, BatchesHaveRows, PublishedIsInRedis, Batch, NoBatch, PublisherBatch
<1>5. DispatchersHaveRows /\ RoutedIsInChannel /\ WorkersHaveRows /\ DoneIsTakenUp
  BY DEF Init, DispatchersHaveRows, RoutedIsInChannel, WorkersHaveRows, DoneIsTakenUp, Idle
<1>6. QED
  BY <1>1, <1>2, <1>3, <1>4, <1>5 DEF WorkInv

\* The whole invariant behind the hand-overs of pending work, from the outbox
\* claim to the acknowledgement of a channel worker, holds in every state.
THEOREM WorkCorrect == Spec => []WorkInv
<1>1. WorkInv /\ [Next]_vars => WorkInv'
  <2>1. TypeOK /\ [Next]_vars => TypeOK'
    BY TypeNext
  <2>2. QED
    BY <2>1, RowsNext, BatchesNext, JobsNext, DispatchersNext, WorkersNext, NothingLostNext
    DEF WorkInv, RowInv
<1>2. QED
  BY WorkInit, <1>1, PTL DEF Spec

\* No interleaving of publishers, dispatchers, workers, recovery sweeps,
\* maintenance and replays, with any number of crashes and Redis errors, loses
\* an attempt that waits to be delivered: its outbox row or a job remains.
THEOREM NothingLost == Spec => []NoLostWork
<1>1. WorkInv => NoLostWork
  BY DEF WorkInv
<1>2. QED
  BY WorkCorrect, <1>1, PTL

============================================================================
