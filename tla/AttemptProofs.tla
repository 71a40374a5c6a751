--------------------------- MODULE AttemptProofs ---------------------------
(***************************************************************************)
(* Proofs about attempts, for every number of notifications, attempts,     *)
(* processes and faults: the provider is called at most once for an        *)
(* attempt, however many jobs about it there are, and the attempts of a    *)
(* notification form one chain.                                            *)
(***************************************************************************)
EXTENDS DeliveryPipelineProofs

----------------------------------------------------------------------------
(* What may happen to the status of an attempt.                            *)

\* The store's own transactions insert rows and close scheduled ones.
StatusMoves ==
    \A a \in Attempt :
        \/ attempt'[a] = attempt[a]
        \/ attempt[a] = "absent" /\ attempt'[a] = "pending"
        \/ attempt[a] = "retry_scheduled" /\ attempt'[a] = "failed"

\* No transaction of API, retry worker, replay or maintenance takes an attempt
\* from a worker or gives it back.
LEMMA StoreMoves == TypeOK /\ StoreNext => StatusMoves
<1> SUFFICES ASSUME StoreTypeOK, StoreNext PROVE StatusMoves
  BY DEF TypeOK
<1>1. ASSUME NEW n \in Notifications, CreateNotification(n) \/ RepeatCreateNotification(n)
      PROVE  StatusMoves
  BY <1>1, InitialInAttempt
  DEF CreateNotification, RepeatCreateNotification, CreateNotificationWithInitialDispatch,
      EnsureInitialAttempt, StatusMoves, Exists, StoreTypeOK
<1>2. ASSUME NEW a \in Attempt, RetryDueAttempt(a)
      PROVE  StatusMoves
  <2>1. Child(a) \in Attempt
    BY <1>2, ChildInAttempt DEF RetryDueAttempt, EnsureRetryAttempt
  <2>2. QED
    BY <1>2, <2>1 DEF RetryDueAttempt, EnsureRetryAttempt, StatusMoves, Exists, StoreTypeOK
<1>3. ASSUME NEW d \in Attempt, ReplayDeadLetter(d)
      PROVE  StatusMoves
  <2>1. CASE UNCHANGED attempt
    BY <2>1 DEF StatusMoves
  <2>2. CASE \E a \in Attempt : IsNextNumber(a) /\ attempt' = [attempt EXCEPT ![a] = "pending"]
    <3>1. PICK a \in Attempt : IsNextNumber(a) /\ attempt' = [attempt EXCEPT ![a] = "pending"]
      BY <2>2
    <3>2. a[2] >= a[2] /\ a[1] = a[1]
      BY DEF Attempt
    <3>3. ~ Exists(a)
      BY <3>1, <3>2 DEF IsNextNumber
    <3>4. QED
      BY <3>1, <3>3 DEF StatusMoves, Exists, StoreTypeOK
  <2>3. QED
    BY <1>3, <2>1, <2>2 DEF ReplayDeadLetter, EnsureReplayAttempt
<1>4. CASE Maintenance
  BY <1>4 DEF Maintenance, RunMaintenance, StatusMoves
<1>5. QED
  BY <1>1, <1>2, <1>3, <1>4 DEF StoreNext

\* Steps of everybody but the workers.
LEMMA OthersMove ==
    ASSUME TypeOK, [Next]_vars, ~ \E w \in Workers : WorkerNext(w)
    PROVE  StatusMoves /\ UNCHANGED <<worker, calls>>
<1>1. CASE StoreNext
  <2>1. UNCHANGED <<worker, calls>>
    BY <1>1 DEF StoreNext, CreateNotification, RepeatCreateNotification, RetryDueAttempt,
      ReplayDeadLetter, Maintenance, OnStore, processVars
  <2>2. QED
    BY <1>1, <2>1, StoreMoves
<1>2. ASSUME NEW p \in Publishers, PublisherNext(p)
      PROVE  UNCHANGED <<attempt, worker, calls>>
  BY <1>2
  DEF PublisherNext, ClaimBatch, PublishIntent, PublishIntentFails, MarkPublished,
      RecordPublishError, CrashPublisher, ClaimPendingDispatchIntents,
      MarkDispatchIntentPublished, RecordDispatchIntentError, storeVars
<1>3. ASSUME NEW d \in Dispatchers, DispatcherNext(d)
      PROVE  UNCHANGED <<attempt, worker, calls>>
  BY <1>3
  DEF DispatcherNext, ReserveDispatch, RouteJob, RouteJobFails, RequeueJob, AckDispatch,
      CrashDispatcher, storeVars
<1>4. ASSUME RedisNext \/ UNCHANGED vars
      PROVE  UNCHANGED <<attempt, worker, calls>>
  BY <1>4 DEF RedisNext, ReserveAnswerLost, RecoverJob, vars, storeVars, processVars
<1>5. QED
  BY <1>1, <1>2, <1>3, <1>4 DEF Next, StatusMoves

\* A step of worker w leaves the other workers where they are.
LEMMA OtherWorkersStay ==
    ASSUME TypeOK, NEW w \in Workers, WorkerNext(w), NEW v \in Workers, v # w
    PROVE  worker'[v] = worker[v]
BY DEF WorkerNext, ReserveChannel, Activate, SuppressDuplicate, CallProvider, SettleSent,
   SettleFailed, SettleRetry, SettleDeadLettered, RecordDeadLetter, AckChannel, CrashWorker,
   WorkerGoes, TypeOK

----------------------------------------------------------------------------
(* The invariant.                                                          *)

\* A worker at work has a job, and with it an attempt.
LEMMA AtWorkHasTarget ==
    ASSUME TypeOK, NEW w \in Workers, AtWork(w)
    PROVE  Target(w) \in Attempt
<1>1. worker[w] # Idle
  BY DEF AtWork, Idle
<1>2. QED
  BY <1>1, WorkerHasJob DEF TypeOK, ProcessTypeOK

\* Where a worker that goes on is, and with which attempt.
LEMMA WorkerGoesTo ==
    ASSUME TypeOK, NEW w \in Workers, worker[w] # Idle, NEW step \in WorkerStep,
           WorkerGoes(w, step)
    PROVE  worker'[w].at = step /\ Target(w)' = Target(w)
<1>1. worker[w] \in [at : WorkerStep, job : Job]
  BY WorkerHasJob DEF TypeOK, ProcessTypeOK
<1>2. worker'[w].at = step /\ worker'[w].job = worker[w].job
  BY <1>1 DEF WorkerGoes, TypeOK
<1>3. QED
  BY <1>2 DEF Target

LEMMA ActivateKeepsCalls ==
    ASSUME CallInv, TypeOK', NEW w \in Workers, Activate(w),
           \A v \in Workers \ {w} : worker'[v] = worker[v]
    PROVE  CallInv'
<1>1. worker[w] # Idle
  BY DEF Activate, WorkerAt, Idle
<1>2. PICK a \in Attempt : a = Target(w)
  BY <1>1, WorkerHasJob DEF CallInv, TypeOK, ProcessTypeOK
<1>3. attempt[a] = "pending" /\ attempt' = [attempt EXCEPT ![a] = "in_progress"]
  BY <1>2 DEF Activate, MarkAttemptInProgress
<1>4. UNCHANGED calls /\ calls[a] = 0
  BY <1>3 DEF Activate, CallInv, UncalledBeforeActivation
<1>5. worker'[w].at = "active" /\ Target(w)' = a
  BY <1>1, <1>2, WorkerGoesTo DEF Activate, CallInv, WorkerStep
<1>6. \A v \in Workers \ {w} : Target(v)' = Target(v) /\ (AtWork(v)' <=> AtWork(v))
  BY DEF Target, AtWork
<1>7. \A v \in Workers \ {w} : AtWork(v) => Target(v) # a /\ Target(v) \in Attempt
  BY <1>3, AtWorkHasTarget DEF CallInv, WorkedOnIsInProgress
<1>8. attempt'[a] = "in_progress" /\ \A b \in Attempt \ {a} : attempt'[b] = attempt[b]
  BY <1>3 DEF CallInv, TypeOK, StoreTypeOK
<1>9. UncalledBeforeActivation'
  BY <1>4, <1>8 DEF CallInv, UncalledBeforeActivation
<1>10. WorkedOnIsInProgress'
  BY <1>5, <1>6, <1>7, <1>8 DEF CallInv, WorkedOnIsInProgress
<1>11. ActiveIsUncalled'
  BY <1>4, <1>5, <1>6 DEF CallInv, ActiveIsUncalled, WorkerAt
<1>12. OneWorkerPerAttempt'
  BY <1>5, <1>6, <1>7 DEF CallInv, OneWorkerPerAttempt
<1>13. OneProviderCallPerAttempt'
  BY <1>4 DEF CallInv, OneProviderCallPerAttempt
<1>14. QED
  BY <1>9, <1>10, <1>11, <1>12, <1>13 DEF CallInv

LEMMA CallKeepsCalls ==
    ASSUME CallInv, TypeOK', NEW w \in Workers, CallProvider(w),
           \A v \in Workers \ {w} : worker'[v] = worker[v]
    PROVE  CallInv'
<1>1. worker[w] # Idle /\ AtWork(w)
  BY DEF CallProvider, WorkerAt, AtWork, Idle
<1>2. PICK a \in Attempt : a = Target(w)
  BY <1>1, AtWorkHasTarget DEF CallInv
<1>3. UNCHANGED attempt /\ attempt[a] = "in_progress"
  BY <1>1, <1>2 DEF CallProvider, storeVars, CallInv, WorkedOnIsInProgress
<1>4. calls[a] = 0 /\ calls' = [calls EXCEPT ![a] = @ + 1]
  BY <1>2 DEF CallProvider, CallInv, ActiveIsUncalled
<1>5. calls'[a] = 1 /\ \A b \in Attempt \ {a} : calls'[b] = calls[b]
  BY <1>4 DEF CallInv, TypeOK
<1>6. PICK answer \in {"delivered", "retryable", "terminal"} : WorkerGoes(w, answer)
  BY DEF CallProvider
<1>7. worker'[w].at = answer /\ Target(w)' = a
  BY <1>1, <1>2, <1>6, WorkerGoesTo DEF CallInv, WorkerStep
<1>8. \A v \in Workers \ {w} : Target(v)' = Target(v) /\ (AtWork(v)' <=> AtWork(v))
  BY DEF Target, AtWork
<1>9. \A v \in Workers \ {w} : AtWork(v) => Target(v) # a /\ Target(v) \in Attempt
  BY <1>1, <1>2, AtWorkHasTarget DEF CallInv, OneWorkerPerAttempt
<1>10. UncalledBeforeActivation'
  BY <1>3, <1>5 DEF CallInv, UncalledBeforeActivation
<1>11. WorkedOnIsInProgress'
  BY <1>3, <1>7, <1>8 DEF CallInv, WorkedOnIsInProgress
<1>12. ActiveIsUncalled'
  <2>1. SUFFICES ASSUME NEW v \in Workers, worker'[v].at = "active"
                 PROVE  calls'[Target(v)'] = 0
    BY DEF ActiveIsUncalled, WorkerAt, Target
  <2>2. v # w
    BY <1>6, <1>7, <2>1
  <2>3. worker[v].at = "active" /\ Target(v)' = Target(v)
    BY <1>8, <2>1, <2>2
  <2>4. Target(v) \in Attempt \ {a}
    BY <1>9, <2>2, <2>3 DEF AtWork
  <2>5. QED
    BY <1>5, <2>3, <2>4 DEF CallInv, ActiveIsUncalled, WorkerAt
<1>13. OneWorkerPerAttempt'
  BY <1>2, <1>7, <1>8, <1>9 DEF CallInv, OneWorkerPerAttempt
<1>14. OneProviderCallPerAttempt'
  BY <1>5 DEF CallInv, OneProviderCallPerAttempt
<1>15. QED
  BY <1>10, <1>11, <1>12, <1>13, <1>14 DEF CallInv

\* A worker that settles its attempt is no longer at work.
LEMMA SettleKeepsCalls ==
    ASSUME CallInv, TypeOK', NEW w \in Workers, AtWork(w), ~ AtWork(w)', UNCHANGED calls,
           NEW status \in {"sent", "failed", "retry_scheduled", "dead_lettered"},
           attempt' = [attempt EXCEPT ![Target(w)] = status],
           \A v \in Workers \ {w} : worker'[v] = worker[v]
    PROVE  CallInv'
<1>1. PICK a \in Attempt : a = Target(w)
  BY AtWorkHasTarget DEF CallInv
<1>2. attempt'[a] = status /\ \A b \in Attempt \ {a} : attempt'[b] = attempt[b]
  BY <1>1 DEF CallInv, TypeOK, StoreTypeOK
<1>3. ~ WorkerAt(w, "active")'
  BY DEF AtWork, WorkerAt
<1>4. \A v \in Workers \ {w} :
         /\ Target(v)' = Target(v) /\ (AtWork(v)' <=> AtWork(v))
         /\ WorkerAt(v, "active")' <=> WorkerAt(v, "active")
  BY DEF Target, AtWork, WorkerAt
<1>5. \A v \in Workers \ {w} : AtWork(v) => Target(v) # a /\ Target(v) \in Attempt
  BY <1>1, AtWorkHasTarget DEF CallInv, OneWorkerPerAttempt
<1>6. UncalledBeforeActivation'
  BY <1>2 DEF CallInv, UncalledBeforeActivation
<1>7. WorkedOnIsInProgress'
  BY <1>2, <1>4, <1>5 DEF CallInv, WorkedOnIsInProgress
<1>8. ActiveIsUncalled'
  BY <1>3, <1>4 DEF CallInv, ActiveIsUncalled
<1>9. OneWorkerPerAttempt'
  BY <1>4 DEF CallInv, OneWorkerPerAttempt
<1>10. OneProviderCallPerAttempt'
  BY DEF CallInv, OneProviderCallPerAttempt
<1>11. QED
  BY <1>6, <1>7, <1>8, <1>9, <1>10 DEF CallInv

\* Neither does any other step of a worker begin work.
LEMMA RestKeepsCalls ==
    ASSUME CallInv, TypeOK', NEW w \in Workers, ~ AtWork(w)', UNCHANGED <<attempt, calls>>,
           \A v \in Workers \ {w} : worker'[v] = worker[v]
    PROVE  CallInv'
<1>1. ~ WorkerAt(w, "active")'
  BY DEF AtWork, WorkerAt
<1>2. \A v \in Workers \ {w} :
         /\ Target(v)' = Target(v) /\ (AtWork(v)' <=> AtWork(v))
         /\ WorkerAt(v, "active")' <=> WorkerAt(v, "active")
  BY DEF Target, AtWork, WorkerAt
<1>3. WorkedOnIsInProgress'
  BY <1>2 DEF CallInv, WorkedOnIsInProgress
<1>4. ActiveIsUncalled'
  BY <1>1, <1>2 DEF CallInv, ActiveIsUncalled
<1>5. OneWorkerPerAttempt'
  BY <1>2 DEF CallInv, OneWorkerPerAttempt
<1>6. QED
  BY <1>3, <1>4, <1>5 DEF CallInv, UncalledBeforeActivation, OneProviderCallPerAttempt

LEMMA WorkerKeepsCalls ==
    ASSUME CallInv, TypeOK', NEW w \in Workers, WorkerNext(w)
    PROVE  CallInv'
<1>0. \A v \in Workers \ {w} : worker'[v] = worker[v]
  BY OtherWorkersStay DEF CallInv
<1>1. CASE Activate(w)
  BY <1>0, <1>1, ActivateKeepsCalls
<1>2. CASE CallProvider(w)
  BY <1>0, <1>2, CallKeepsCalls
<1>3. CASE SettleSent(w) \/ SettleFailed(w) \/ SettleRetry(w) \/ SettleDeadLettered(w)
  <2>1. AtWork(w) /\ worker[w] # Idle
    BY <1>3 DEF SettleSent, SettleFailed, SettleRetry, SettleDeadLettered, WorkerAt, AtWork, Idle
  <2>2. PICK step \in {"dead_lettering", "done"} : WorkerGoes(w, step)
    BY <1>3 DEF SettleSent, SettleFailed, SettleRetry, SettleDeadLettered
  <2>3. ~ AtWork(w)'
    BY <2>1, <2>2, WorkerGoesTo DEF AtWork, CallInv, WorkerStep
  <2>4. \E status \in {"sent", "failed", "retry_scheduled", "dead_lettered"} :
           attempt' = [attempt EXCEPT ![Target(w)] = status]
    BY <1>3
    DEF SettleSent, SettleFailed, SettleRetry, SettleDeadLettered, MarkAttemptSent,
        MarkAttemptFailed, ScheduleRetry, MarkAttemptDeadLettered, SettleAttempt
  <2>5. UNCHANGED calls
    BY <1>3 DEF SettleSent, SettleFailed, SettleRetry, SettleDeadLettered
  <2>6. QED
    BY <1>0, <2>1, <2>3, <2>4, <2>5, SettleKeepsCalls
<1>4. CASE SuppressDuplicate(w) \/ RecordDeadLetter(w)
  <2>1. worker[w] # Idle /\ WorkerGoes(w, "done") /\ UNCHANGED <<attempt, calls>>
    BY <1>4 DEF SuppressDuplicate, RecordDeadLetter, WorkerAt, Idle, InsertDeadLetter, storeVars
  <2>2. ~ AtWork(w)'
    BY <2>1, WorkerGoesTo DEF AtWork, CallInv, WorkerStep
  <2>3. QED
    BY <1>0, <2>1, <2>2, RestKeepsCalls
<1>5. CASE AckChannel(w) \/ CrashWorker(w) \/ \E j \in Job : ReserveChannel(w, j)
  <2>1. UNCHANGED <<attempt, calls>>
    BY <1>5 DEF AckChannel, CrashWorker, ReserveChannel, storeVars
  <2>2. ~ AtWork(w)'
    BY <1>5 DEF AckChannel, CrashWorker, ReserveChannel, AtWork, Idle, CallInv, TypeOK
  <2>3. QED
    BY <1>0, <2>1, <2>2, RestKeepsCalls
<1>6. QED
  BY <1>1, <1>2, <1>3, <1>4, <1>5 DEF WorkerNext

LEMMA OthersKeepCalls ==
    ASSUME CallInv, TypeOK', StatusMoves, UNCHANGED <<worker, calls>>
    PROVE  CallInv'
<1>1. \A w \in Workers : Target(w)' = Target(w) /\ (AtWork(w)' <=> AtWork(w))
                         /\ (WorkerAt(w, "active")' <=> WorkerAt(w, "active"))
  BY DEF Target, AtWork, WorkerAt
<1>2. UncalledBeforeActivation'
  BY DEF CallInv, UncalledBeforeActivation, StatusMoves
<1>3. WorkedOnIsInProgress'
  BY <1>1, AtWorkHasTarget DEF CallInv, WorkedOnIsInProgress, StatusMoves
<1>4. ActiveIsUncalled' /\ OneWorkerPerAttempt'
  BY <1>1 DEF CallInv, ActiveIsUncalled, OneWorkerPerAttempt
<1>5. QED
  BY <1>2, <1>3, <1>4 DEF CallInv, OneProviderCallPerAttempt

LEMMA CallsAtStart == Init => CallInv
<1> SUFFICES ASSUME Init PROVE CallInv
  OBVIOUS
<1>1. TypeOK
  BY TypeInit
<1>2. \A w \in Workers : ~ AtWork(w) /\ ~ WorkerAt(w, "active")
  BY DEF Init, AtWork, WorkerAt, Idle
<1>3. \A a \in Attempt : calls[a] = 0
  BY DEF Init
<1>4. QED
  BY <1>1, <1>2, <1>3
  DEF CallInv, UncalledBeforeActivation, WorkedOnIsInProgress, ActiveIsUncalled,
      OneWorkerPerAttempt, OneProviderCallPerAttempt

LEMMA CallsNext == CallInv /\ [Next]_vars => CallInv'
<1> SUFFICES ASSUME CallInv, [Next]_vars PROVE CallInv'
  OBVIOUS
<1>1. TypeOK'
  BY TypeNext DEF CallInv
<1>2. CASE \E w \in Workers : WorkerNext(w)
  BY <1>1, <1>2, WorkerKeepsCalls
<1>3. CASE ~ \E w \in Workers : WorkerNext(w)
  BY <1>1, <1>3, OthersMove, OthersKeepCalls DEF CallInv
<1>4. QED
  BY <1>2, <1>3

\* The invariant about activation and provider calls (compare-and-set in
\* MarkAttemptInProgress) holds in every state.
THEOREM CallsCorrect == Spec => []CallInv
BY CallsAtStart, CallsNext, PTL DEF Spec

\* Duplicate jobs, recovered jobs and concurrent workers never lead to a second
\* provider call for one attempt.
THEOREM OneCall == Spec => []OneProviderCallPerAttempt
<1>1. CallInv => OneProviderCallPerAttempt
  BY DEF CallInv
<1>2. QED
  BY CallsCorrect, <1>1, PTL


----------------------------------------------------------------------------
(* The order of the attempts of a notification.                            *)

\* A notification has only one last attempt.
LEMMA LastIsUnique ==
    ASSUME NEW a \in Attempt, NEW b \in Attempt, a[1] = b[1], IsLast(a), IsLast(b)
    PROVE  a = b
BY DEF IsLast, Attempt

\* An attempt that is neither failed nor dead-lettered has no successor.
LEMMA LiveIsLast ==
    ASSUME OneChainOfAttempts, NEW a \in Attempt, Exists(a),
           attempt[a] \notin {"failed", "dead_lettered"}
    PROVE  IsLast(a)
BY DEF IsLast, OneChainOfAttempts, Attempt

\* If the first attempt is not there, none is.
LEMMA NoneWithoutInitial ==
    ASSUME OneChainOfAttempts, NEW n \in Notifications, ~ Exists(Initial(n)),
           NEW b \in Attempt, b[1] = n
    PROVE  ~ Exists(b)
<1>1. Initial(n) \in Attempt /\ Initial(n)[1] = n /\ Initial(n)[2] = 1
  BY InitialInAttempt DEF Initial
<1>2. b[2] \in Nat /\ b[2] >= 1 /\ (b[2] = 1 => b = Initial(n))
  BY StoreAssumption DEF Attempt, Initial
<1>3. QED
  BY <1>1, <1>2 DEF OneChainOfAttempts, Exists

\* What follows the last attempt is its child.
LEMMA NextIsChildOfLast ==
    ASSUME NEW d \in Attempt, NEW a \in Attempt, a[1] = d[1], IsLast(d), IsNextNumber(a)
    PROVE  a = Child(d)
<1>1. d[2] < a[2]
  BY DEF IsLast, IsNextNumber, Attempt
<1>2. <<a[1], a[2] - 1>> \in Attempt /\ Exists(<<a[1], a[2] - 1>>)
  <2>1. a[1] \in Notifications /\ a[2] \in 1 .. MaxNumber /\ d[2] \in 1 .. MaxNumber
    BY DEF Attempt
  <2>2. a[2] > 1 /\ a[2] - 1 \in 1 .. MaxNumber
    BY <1>1, <2>1, StoreAssumption
  <2>3. QED
    BY <2>1, <2>2 DEF IsNextNumber, Attempt
<1>3. a[2] - 1 <= d[2]
  BY <1>2 DEF IsLast, Attempt
<1>4. a[2] = d[2] + 1
  BY <1>1, <1>3 DEF Attempt
<1>5. a = <<a[1], a[2]>>
  BY DEF Attempt
<1>6. QED
  BY <1>4, <1>5 DEF Child

----------------------------------------------------------------------------
(* Steps that insert no row.                                               *)

\* Dead letters are replayed, and replayed ones are purged.
LettersMove ==
    \A d \in Attempt :
        \/ deadLetter'[d] = deadLetter[d] /\ replayOf'[d] = replayOf[d]
        \/ deadLetter[d] = "open" /\ deadLetter'[d] = "replayed" /\ replayOf'[d] = replayOf[d]
        \/ deadLetter[d] = "replayed" /\ deadLetter'[d] = "absent" /\ replayOf'[d] = None
        \/ deadLetter[d] = "open" /\ deadLetter'[d] = "open" /\ replayOf'[d] # None

\* A worker at the insertion of a dead letter has an attempt.
LEMMA DeadLetteringHasTarget ==
    ASSUME TypeOK, NEW w \in Workers, WorkerAt(w, "dead_lettering")
    PROVE  Target(w) \in Attempt
<1>1. worker[w] # Idle
  BY DEF WorkerAt, Idle
<1>2. QED
  BY <1>1, WorkerHasJob DEF TypeOK, ProcessTypeOK

\* No new dead-lettering worker, as its own part of each lemma below.
SameDeadLettering ==
    \A v \in Workers : WorkerAt(v, "dead_lettering")' =>
        WorkerAt(v, "dead_lettering") /\ Target(v)' = Target(v)

LEMMA QuietKeepsChain ==
    ASSUME ChainInv, CallInv', UNCHANGED attempt, LettersMove, SameDeadLettering
    PROVE  ChainInv'
<1>1. \A a \in Attempt : IsLast(a)' <=> IsLast(a)
  BY DEF IsLast, Exists
<1>2. DeadLettersAreOfDeadLettered'
  BY DEF ChainInv, DeadLettersAreOfDeadLettered, LettersMove
<1>3. UnreplayedIsLast'
  BY <1>1 DEF ChainInv, UnreplayedIsLast, LettersMove
<1>4. DeadLetteringIsLast'
  <2>1. SUFFICES ASSUME NEW w \in Workers, WorkerAt(w, "dead_lettering")'
                 PROVE  /\ attempt'[Target(w)'] = "dead_lettered"
                        /\ deadLetter'[Target(w)'] = "absent"
                        /\ IsLast(Target(w))'
    BY DEF DeadLetteringIsLast
  <2>2. WorkerAt(w, "dead_lettering") /\ Target(w)' = Target(w)
    BY <2>1 DEF SameDeadLettering
  <2>3. PICK a \in Attempt : a = Target(w)
    BY <2>2, DeadLetteringHasTarget DEF ChainInv, CallInv
  <2>4. attempt[a] = "dead_lettered" /\ deadLetter[a] = "absent" /\ IsLast(a)
    BY <2>2, <2>3 DEF ChainInv, DeadLetteringIsLast
  <2>5. deadLetter'[a] = "absent" /\ IsLast(a)'
    BY <1>1, <2>4 DEF LettersMove
  <2>6. IsLast(Target(w))'
    BY <2>2, <2>3, <2>5 DEF IsLast, Exists
  <2>7. QED
    BY <2>2, <2>3, <2>4, <2>5, <2>6
<1>5. OneWorkerDeadLetters'
  BY DEF ChainInv, OneWorkerDeadLetters, SameDeadLettering
<1>6. OneChainOfAttempts'
  BY DEF ChainInv, OneChainOfAttempts, Exists
<1>7. QED
  BY <1>2, <1>3, <1>4, <1>5, <1>6 DEF ChainInv

\* A worker inserts the dead letter of its attempt.
LEMMA RecordKeepsChain ==
    ASSUME ChainInv, CallInv', NEW w \in Workers, RecordDeadLetter(w), SameDeadLettering,
           ~ WorkerAt(w, "dead_lettering")'
    PROVE  ChainInv'
<1>1. PICK a \in Attempt : a = Target(w)
  BY DeadLetteringHasTarget DEF RecordDeadLetter, ChainInv, CallInv
<1>2. UNCHANGED <<attempt, replayOf>> /\ deadLetter' = [deadLetter EXCEPT ![a] = "open"]
  BY <1>1 DEF RecordDeadLetter, InsertDeadLetter
<1>3. attempt[a] = "dead_lettered" /\ deadLetter[a] = "absent" /\ IsLast(a)
  BY <1>1 DEF RecordDeadLetter, ChainInv, DeadLetteringIsLast
<1>4. deadLetter'[a] = "open" /\ \A d \in Attempt \ {a} : deadLetter'[d] = deadLetter[d]
  BY <1>2 DEF ChainInv, CallInv, TypeOK, StoreTypeOK
<1>5. \A b \in Attempt : IsLast(b)' <=> IsLast(b)
  BY <1>2 DEF IsLast, Exists
<1>6. DeadLettersAreOfDeadLettered'
  BY <1>2, <1>3, <1>4 DEF ChainInv, DeadLettersAreOfDeadLettered
<1>7. UnreplayedIsLast'
  BY <1>2, <1>3, <1>4, <1>5 DEF ChainInv, UnreplayedIsLast
<1>8. DeadLetteringIsLast'
  <2>1. SUFFICES ASSUME NEW v \in Workers, WorkerAt(v, "dead_lettering")'
                 PROVE  /\ attempt'[Target(v)'] = "dead_lettered"
                        /\ deadLetter'[Target(v)'] = "absent"
                        /\ IsLast(Target(v))'
    BY DEF DeadLetteringIsLast
  <2>2. v # w /\ WorkerAt(v, "dead_lettering") /\ Target(v)' = Target(v)
    BY <2>1 DEF SameDeadLettering
  <2>3. Target(v) # a
    BY <1>1, <2>2 DEF RecordDeadLetter, ChainInv, OneWorkerDeadLetters
  <2>4. PICK b \in Attempt : b = Target(v) /\ b # a
    BY <2>2, <2>3, DeadLetteringHasTarget DEF ChainInv, CallInv
  <2>5. attempt[b] = "dead_lettered" /\ deadLetter[b] = "absent" /\ IsLast(b)
    BY <2>2, <2>4 DEF ChainInv, DeadLetteringIsLast
  <2>6. IsLast(Target(v))'
    BY <1>5, <2>2, <2>4, <2>5 DEF IsLast, Exists
  <2>7. QED
    BY <1>2, <1>4, <2>2, <2>4, <2>5, <2>6
<1>9. OneWorkerDeadLetters'
  BY DEF ChainInv, OneWorkerDeadLetters, SameDeadLettering
<1>10. OneChainOfAttempts'
  BY <1>2 DEF ChainInv, OneChainOfAttempts, Exists
<1>11. QED
  BY <1>6, <1>7, <1>8, <1>9, <1>10 DEF ChainInv

\* A worker activates or settles its attempt, which is the last one.
LEMMA MarkKeepsChain ==
    ASSUME ChainInv, CallInv', NEW w \in Workers, NEW a \in Attempt, a = Target(w),
           attempt[a] \in {"pending", "in_progress"},
           NEW status \in AttemptStatus, attempt' = [attempt EXCEPT ![a] = status],
           UNCHANGED <<deadLetter, replayOf>>,
           \A v \in Workers \ {w} : worker'[v] = worker[v],
           WorkerAt(w, "dead_lettering")' => status = "dead_lettered" /\ Target(w)' = a
    PROVE  ChainInv'
<1>1. attempt'[a] = status /\ \A b \in Attempt \ {a} : attempt'[b] = attempt[b]
  BY DEF ChainInv, CallInv, TypeOK, StoreTypeOK
<1>2. \A b \in Attempt : Exists(b)' <=> Exists(b)
  BY <1>1 DEF Exists, AttemptStatus
<1>3. \A b \in Attempt : IsLast(b)' <=> IsLast(b)
  BY <1>2 DEF IsLast
<1>4. IsLast(a)
  BY LiveIsLast DEF ChainInv, Exists
<1>5. deadLetter[a] = "absent"
  BY DEF ChainInv, DeadLettersAreOfDeadLettered
<1>6. DeadLettersAreOfDeadLettered'
  BY <1>1, <1>5 DEF ChainInv, DeadLettersAreOfDeadLettered
<1>7. UnreplayedIsLast'
  BY <1>3 DEF ChainInv, UnreplayedIsLast
<1>8. \A v \in Workers : v # w /\ WorkerAt(v, "dead_lettering")' =>
          /\ WorkerAt(v, "dead_lettering") /\ Target(v)' = Target(v)
          /\ Target(v) \in Attempt \ {a}
  BY DeadLetteringHasTarget DEF WorkerAt, Target, ChainInv, CallInv, DeadLetteringIsLast
<1>9. DeadLetteringIsLast'
  <2>1. SUFFICES ASSUME NEW v \in Workers, WorkerAt(v, "dead_lettering")'
                 PROVE  /\ attempt'[Target(v)'] = "dead_lettered"
                        /\ deadLetter'[Target(v)'] = "absent"
                        /\ IsLast(Target(v))'
    BY DEF DeadLetteringIsLast
  <2>2. CASE v = w
    <3>1. IsLast(Target(v))'
      BY <1>3, <1>4, <2>1, <2>2 DEF IsLast, Exists
    <3>2. QED
      BY <1>1, <1>5, <2>1, <2>2, <3>1
  <2>3. CASE v # w
    <3>1. PICK b \in Attempt : b = Target(v) /\ b # a /\ Target(v)' = b
      BY <1>8, <2>1, <2>3
    <3>2. attempt[b] = "dead_lettered" /\ deadLetter[b] = "absent" /\ IsLast(b)
      BY <1>8, <2>1, <2>3, <3>1 DEF ChainInv, DeadLetteringIsLast
    <3>3. IsLast(Target(v))'
      BY <1>3, <3>1, <3>2 DEF IsLast, Exists
    <3>4. QED
      BY <1>1, <3>1, <3>2, <3>3
  <2>4. QED
    BY <2>2, <2>3
<1>10. OneWorkerDeadLetters'
  <2>1. SUFFICES ASSUME NEW u \in Workers, NEW v \in Workers,
                        WorkerAt(u, "dead_lettering")', WorkerAt(v, "dead_lettering")',
                        Target(u)' = Target(v)'
                 PROVE  u = v
    BY DEF OneWorkerDeadLetters
  <2>2. CASE u # w /\ v # w
    BY <1>8, <2>1, <2>2 DEF ChainInv, OneWorkerDeadLetters
  <2>3. CASE u = w \/ v = w
    BY <1>8, <2>1, <2>3
  <2>4. QED
    BY <2>2, <2>3
<1>11. OneChainOfAttempts'
  <2>1. SUFFICES ASSUME NEW b \in Attempt, NEW c \in Attempt, b[1] = c[1], b[2] < c[2], Exists(c)'
                 PROVE  attempt'[b] \in {"failed", "dead_lettered"}
    BY DEF OneChainOfAttempts
  <2>2. attempt[b] \in {"failed", "dead_lettered"}
    BY <1>2, <2>1 DEF ChainInv, OneChainOfAttempts
  <2>3. QED
    BY <1>1, <2>2
<1>12. QED
  BY <1>6, <1>7, <1>9, <1>10, <1>11 DEF ChainInv

LEMMA WorkerKeepsChain ==
    ASSUME ChainInv, CallInv', NEW w \in Workers, WorkerNext(w)
    PROVE  ChainInv'
<1>0. \A v \in Workers \ {w} : worker'[v] = worker[v]
  BY OtherWorkersStay DEF ChainInv, CallInv
<1>1. CASE Activate(w) \/ SettleSent(w) \/ SettleFailed(w) \/ SettleRetry(w)
           \/ SettleDeadLettered(w)
  <2>1. worker[w] # Idle
    BY <1>1 DEF Activate, SettleSent, SettleFailed, SettleRetry, SettleDeadLettered,
                WorkerAt, Idle
  <2>2. PICK a \in Attempt : a = Target(w)
    BY <2>1, WorkerHasJob DEF ChainInv, CallInv, TypeOK, ProcessTypeOK
  <2>3. PICK step \in {"active", "dead_lettering", "done"} :
            /\ WorkerGoes(w, step)
            /\ step = "dead_lettering" => SettleDeadLettered(w)
    BY <1>1 DEF Activate, SettleSent, SettleFailed, SettleRetry, SettleDeadLettered
  <2>4. worker'[w].at = step /\ Target(w)' = a
    BY <2>1, <2>2, <2>3, WorkerGoesTo DEF ChainInv, CallInv, WorkerStep
  <2>5. PICK status \in AttemptStatus :
            /\ attempt' = [attempt EXCEPT ![a] = status]
            /\ SettleDeadLettered(w) => status = "dead_lettered"
    <3>1. CASE SettleDeadLettered(w)
      BY <2>2, <3>1 DEF SettleDeadLettered, MarkAttemptDeadLettered, SettleAttempt, AttemptStatus
    <3>2. CASE ~ SettleDeadLettered(w)
      BY <1>1, <2>2, <3>2
      DEF Activate, SettleSent, SettleFailed, SettleRetry, MarkAttemptInProgress,
          MarkAttemptSent, MarkAttemptFailed, ScheduleRetry, SettleAttempt, AttemptStatus
    <3>3. QED
      BY <3>1, <3>2
  <2>6. attempt[a] \in {"pending", "in_progress"} /\ UNCHANGED <<deadLetter, replayOf>>
    BY <1>1, <2>2
    DEF Activate, SettleSent, SettleFailed, SettleRetry, SettleDeadLettered,
        MarkAttemptInProgress, MarkAttemptSent, MarkAttemptFailed, ScheduleRetry,
        MarkAttemptDeadLettered, SettleAttempt
  <2>7. WorkerAt(w, "dead_lettering")' => status = "dead_lettered" /\ Target(w)' = a
    BY <2>3, <2>4, <2>5 DEF WorkerAt
  <2>8. QED
    BY <1>0, <2>2, <2>5, <2>6, <2>7, MarkKeepsChain
<1>2. CASE SuppressDuplicate(w) \/ CallProvider(w) \/ RecordDeadLetter(w)
  <2>1. worker[w] # Idle
    BY <1>2 DEF SuppressDuplicate, CallProvider, RecordDeadLetter, WorkerAt, Idle
  <2>2. PICK step \in {"delivered", "retryable", "terminal", "done"} : WorkerGoes(w, step)
    BY <1>2 DEF SuppressDuplicate, CallProvider, RecordDeadLetter
  <2>3. ~ WorkerAt(w, "dead_lettering")'
    BY <2>1, <2>2, WorkerGoesTo DEF WorkerAt, ChainInv, CallInv, WorkerStep
  <2>4. SameDeadLettering
    BY <1>0, <2>3 DEF SameDeadLettering, WorkerAt, Target
  <2>5. CASE RecordDeadLetter(w)
    BY <2>3, <2>4, <2>5, RecordKeepsChain
  <2>6. CASE SuppressDuplicate(w) \/ CallProvider(w)
    <3>1. UNCHANGED attempt /\ LettersMove
      BY <2>6 DEF SuppressDuplicate, CallProvider, storeVars, LettersMove
    <3>2. QED
      BY <2>4, <3>1, QuietKeepsChain
  <2>7. QED
    BY <1>2, <2>5, <2>6
<1>3. CASE AckChannel(w) \/ CrashWorker(w) \/ \E j \in Job : ReserveChannel(w, j)
  <2>1. UNCHANGED attempt /\ LettersMove
    BY <1>3 DEF AckChannel, CrashWorker, ReserveChannel, storeVars, LettersMove
  <2>2. ~ WorkerAt(w, "dead_lettering")'
    BY <1>3 DEF AckChannel, CrashWorker, ReserveChannel, WorkerAt, Idle, ChainInv, CallInv, TypeOK
  <2>3. SameDeadLettering
    BY <1>0, <2>2 DEF SameDeadLettering, WorkerAt, Target
  <2>4. QED
    BY <2>1, <2>3, QuietKeepsChain
<1>4. QED
  BY <1>1, <1>2, <1>3 DEF WorkerNext

----------------------------------------------------------------------------
(* Steps that insert a row.                                                *)

\* A row c is inserted after all rows of its notification, of which none is
\* live and none has a dead letter that waits.
LEMMA NewRowKeepsChain ==
    ASSUME ChainInv, CallInv', NEW c \in Attempt, ~ Exists(c), attempt'[c] = "pending",
           \A b \in Attempt \ {c} :
               \/ attempt'[b] = attempt[b]
               \/ attempt[b] = "retry_scheduled" /\ attempt'[b] = "failed",
           \A b \in Attempt : b[1] = c[1] /\ b[2] > c[2] => ~ Exists(b),
           \A b \in Attempt : b[1] = c[1] /\ b[2] < c[2] =>
               attempt'[b] \in {"failed", "dead_lettered"},
           LettersMove,
           \A d \in Attempt : d[1] = c[1] => ~ (deadLetter'[d] = "open" /\ replayOf'[d] = None),
           UNCHANGED worker,
           \A w \in Workers : WorkerAt(w, "dead_lettering") => Target(w)[1] # c[1]
    PROVE  ChainInv'
<1>1. \A b \in Attempt \ {c} : Exists(b)' <=> Exists(b)
  BY DEF Exists
<1>2. \A b \in Attempt : b[1] # c[1] => (IsLast(b)' <=> IsLast(b))
  BY <1>1 DEF IsLast
<1>3. \A w \in Workers : Target(w)' = Target(w)
                         /\ (WorkerAt(w, "dead_lettering")' <=> WorkerAt(w, "dead_lettering"))
  BY DEF Target, WorkerAt
<1>4. deadLetter[c] = "absent"
  BY DEF ChainInv, DeadLettersAreOfDeadLettered, Exists
<1>5. DeadLettersAreOfDeadLettered'
  BY <1>4 DEF ChainInv, DeadLettersAreOfDeadLettered, LettersMove
<1>6. UnreplayedIsLast'
  BY <1>2 DEF ChainInv, UnreplayedIsLast, LettersMove
<1>7. DeadLetteringIsLast'
  <2>1. SUFFICES ASSUME NEW w \in Workers, WorkerAt(w, "dead_lettering")'
                 PROVE  /\ attempt'[Target(w)'] = "dead_lettered"
                        /\ deadLetter'[Target(w)'] = "absent"
                        /\ IsLast(Target(w))'
    BY DEF DeadLetteringIsLast
  <2>2. WorkerAt(w, "dead_lettering") /\ Target(w)' = Target(w)
    BY <1>3, <2>1
  <2>3. PICK a \in Attempt : a = Target(w)
    BY <2>2, DeadLetteringHasTarget DEF ChainInv, CallInv
  <2>4. attempt[a] = "dead_lettered" /\ deadLetter[a] = "absent" /\ IsLast(a) /\ a[1] # c[1]
    BY <2>2, <2>3 DEF ChainInv, DeadLetteringIsLast
  <2>5. attempt'[a] = "dead_lettered" /\ deadLetter'[a] = "absent" /\ IsLast(a)'
    BY <1>2, <2>4 DEF LettersMove
  <2>6. IsLast(Target(w))'
    BY <2>2, <2>3, <2>5 DEF IsLast, Exists
  <2>7. QED
    BY <2>2, <2>3, <2>5, <2>6
<1>8. OneWorkerDeadLetters'
  BY <1>3 DEF ChainInv, OneWorkerDeadLetters
<1>9. OneChainOfAttempts'
  <2>1. SUFFICES ASSUME NEW a \in Attempt, NEW b \in Attempt, a[1] = b[1], a[2] < b[2], Exists(b)'
                 PROVE  attempt'[a] \in {"failed", "dead_lettered"}
    BY DEF OneChainOfAttempts
  <2>2. CASE b = c
    BY <2>1, <2>2
  <2>3. CASE b # c
    <3>1. Exists(b) /\ a # c
      BY <1>1, <2>1, <2>3
    <3>2. attempt[a] \in {"failed", "dead_lettered"}
      BY <2>1, <3>1 DEF ChainInv, OneChainOfAttempts
    <3>3. QED
      BY <3>1, <3>2
  <2>4. QED
    BY <2>2, <2>3
<1>10. QED
  BY <1>5, <1>6, <1>7, <1>8, <1>9 DEF ChainInv

LEMMA CreateKeepsChain ==
    ASSUME ChainInv, CallInv', NEW n \in Notifications, CreateNotification(n)
    PROVE  ChainInv'
<1>1. PICK c \in Attempt : c = Initial(n) /\ c[1] = n /\ c[2] = 1
  BY InitialInAttempt DEF Initial
<1>2. /\ ~ Exists(c)
      /\ attempt' = [attempt EXCEPT ![c] = "pending"]
      /\ UNCHANGED <<deadLetter, replayOf, worker>>
  BY <1>1 DEF CreateNotification, CreateNotificationWithInitialDispatch, OnStore, processVars
<1>3. \A b \in Attempt : b[1] = c[1] => ~ Exists(b)
  BY <1>1, <1>2, NoneWithoutInitial DEF ChainInv
<1>4. attempt'[c] = "pending" /\ \A b \in Attempt \ {c} : attempt'[b] = attempt[b]
  BY <1>2 DEF ChainInv, CallInv, TypeOK, StoreTypeOK
<1>5. \A b \in Attempt : ~ (b[2] < c[2])
  BY <1>1 DEF Attempt
<1>6. \A d \in Attempt : d[1] = c[1] => deadLetter'[d] = "absent"
  BY <1>2, <1>3 DEF ChainInv, DeadLettersAreOfDeadLettered, Exists
<1>7. \A w \in Workers : WorkerAt(w, "dead_lettering") => Target(w)[1] # c[1]
  BY <1>3, DeadLetteringHasTarget DEF ChainInv, CallInv, DeadLetteringIsLast, IsLast
<1>8. LettersMove
  BY <1>2 DEF LettersMove
<1>9. QED
  <2>1. UNCHANGED worker /\ ~ Exists(c) /\ attempt'[c] = "pending"
    BY <1>2, <1>4
  <2>2. \A b \in Attempt \ {c} :
           attempt'[b] = attempt[b] \/ (attempt[b] = "retry_scheduled" /\ attempt'[b] = "failed")
    BY <1>4
  <2>3. \A b \in Attempt : b[1] = c[1] /\ b[2] > c[2] => ~ Exists(b)
    BY <1>3
  <2>4. \A b \in Attempt : b[1] = c[1] /\ b[2] < c[2] => attempt'[b] \in {"failed", "dead_lettered"}
    BY <1>5
  <2>5. \A d \in Attempt : d[1] = c[1] => ~ (deadLetter'[d] = "open" /\ replayOf'[d] = None)
    BY <1>6
  <2>6. QED
    BY <1>7, <1>8, <2>1, <2>2, <2>3, <2>4, <2>5, NewRowKeepsChain

\* The retried attempt is the last one, and it has no dead letter.
LEMMA RetryKeepsChain ==
    ASSUME ChainInv, CallInv', NEW a \in Attempt, Child(a) \in Attempt,
           attempt[a] = "retry_scheduled", ~ Exists(Child(a)),
           attempt' = [attempt EXCEPT ![a] = "failed", ![Child(a)] = "pending"],
           UNCHANGED <<deadLetter, replayOf, worker>>
    PROVE  ChainInv'
<1>1. PICK c \in Attempt : c = Child(a)
  OBVIOUS
<1>2. c[1] = a[1] /\ c[2] = a[2] + 1 /\ c # a /\ a[2] \in Nat
  BY <1>1 DEF Child, Attempt
<1>3. IsLast(a)
  BY LiveIsLast DEF ChainInv, Exists
<1>4. /\ attempt'[c] = "pending" /\ attempt'[a] = "failed"
      /\ \A b \in Attempt \ {a, c} : attempt'[b] = attempt[b]
  BY <1>1, <1>2 DEF ChainInv, CallInv, TypeOK, StoreTypeOK
<1>5. \A b \in Attempt : b[1] = c[1] /\ b[2] > c[2] => ~ Exists(b)
  BY <1>2, <1>3 DEF IsLast, Attempt
<1>6. \A b \in Attempt : b[1] = c[1] /\ b[2] < c[2] => attempt'[b] \in {"failed", "dead_lettered"}
  <2>1. SUFFICES ASSUME NEW b \in Attempt, b[1] = c[1], b[2] < c[2]
                 PROVE  attempt'[b] \in {"failed", "dead_lettered"}
    OBVIOUS
  <2>2. b = a \/ (b[2] < a[2] /\ b # a /\ b # c)
    BY <1>2, <2>1 DEF Attempt
  <2>3. CASE b # a
    <3>1. attempt[b] \in {"failed", "dead_lettered"}
      BY <1>2, <1>3, <2>1, <2>2, <2>3 DEF ChainInv, OneChainOfAttempts, IsLast
    <3>2. QED
      BY <1>4, <2>2, <2>3, <3>1
  <2>4. QED
    BY <1>4, <2>3
<1>7. \A d \in Attempt : d[1] = c[1] => ~ (deadLetter'[d] = "open" /\ replayOf'[d] = None)
  <2>1. SUFFICES ASSUME NEW d \in Attempt, d[1] = a[1], deadLetter[d] = "open", replayOf[d] = None
                 PROVE  FALSE
    BY <1>2
  <2>2. IsLast(d) /\ attempt[d] = "dead_lettered"
    BY <2>1 DEF ChainInv, UnreplayedIsLast, DeadLettersAreOfDeadLettered
  <2>3. QED
    BY <1>3, <2>1, <2>2, LastIsUnique
<1>8. \A w \in Workers : WorkerAt(w, "dead_lettering") => Target(w)[1] # c[1]
  <2>1. SUFFICES ASSUME NEW w \in Workers, WorkerAt(w, "dead_lettering"), Target(w)[1] = a[1]
                 PROVE  FALSE
    BY <1>2
  <2>2. Target(w) \in Attempt /\ IsLast(Target(w)) /\ attempt[Target(w)] = "dead_lettered"
    BY <2>1, DeadLetteringHasTarget DEF ChainInv, CallInv, DeadLetteringIsLast
  <2>3. QED
    BY <1>3, <2>1, <2>2, LastIsUnique
<1>9. LettersMove
  BY DEF LettersMove
<1>10. ~ Exists(c)
  BY <1>1
<1>11. \A b \in Attempt \ {c} :
          attempt'[b] = attempt[b] \/ (attempt[b] = "retry_scheduled" /\ attempt'[b] = "failed")
  <2>1. TAKE b \in Attempt \ {c}
  <2>2. CASE b = a
    BY <1>4, <2>2
  <2>3. CASE b # a
    BY <1>4, <2>3
  <2>4. QED
    BY <2>2, <2>3
<1>12. QED
  BY <1>4, <1>5, <1>6, <1>7, <1>8, <1>9, <1>10, <1>11, NewRowKeepsChain

\* The dead letter that is replayed is of the last attempt, and it is the only
\* one of the notification that waits.
LEMMA ReplayKeepsChain ==
    ASSUME ChainInv, CallInv', NEW d \in Attempt, NEW c \in Attempt,
           deadLetter[d] = "open", replayOf[d] = None, c[1] = d[1], IsNextNumber(c),
           attempt' = [attempt EXCEPT ![c] = "pending"],
           replayOf' = [replayOf EXCEPT ![d] = c],
           UNCHANGED <<deadLetter, worker>>
    PROVE  ChainInv'
<1>1. IsLast(d) /\ attempt[d] = "dead_lettered"
  BY DEF ChainInv, UnreplayedIsLast, DeadLettersAreOfDeadLettered
<1>2. c = Child(d)
  BY <1>1, NextIsChildOfLast
<1>3. c[2] = d[2] + 1 /\ c # d /\ d[2] \in Nat
  BY <1>2 DEF Child, Attempt
<1>4. ~ Exists(c) /\ \A b \in Attempt : b[1] = c[1] /\ b[2] > c[2] => ~ Exists(b)
  BY DEF IsNextNumber, Attempt
<1>5. attempt'[c] = "pending" /\ \A b \in Attempt \ {c} : attempt'[b] = attempt[b]
  BY DEF ChainInv, CallInv, TypeOK, StoreTypeOK
<1>6. \A b \in Attempt : b[1] = c[1] /\ b[2] < c[2] => attempt'[b] \in {"failed", "dead_lettered"}
  <2>1. SUFFICES ASSUME NEW b \in Attempt, b[1] = c[1], b[2] < c[2]
                 PROVE  attempt'[b] \in {"failed", "dead_lettered"}
    OBVIOUS
  <2>2. b # c /\ (b = d \/ b[2] < d[2])
    BY <1>3, <2>1 DEF Attempt
  <2>3. attempt[b] \in {"failed", "dead_lettered"}
    BY <1>1, <2>1, <2>2 DEF ChainInv, OneChainOfAttempts, IsLast
  <2>4. QED
    BY <1>5, <2>2, <2>3
<1>7. replayOf'[d] # None /\ \A e \in Attempt \ {d} : replayOf'[e] = replayOf[e]
  BY StoreAssumption DEF ChainInv, CallInv, TypeOK, StoreTypeOK
<1>8. \A e \in Attempt : e[1] = c[1] => ~ (deadLetter'[e] = "open" /\ replayOf'[e] = None)
  <2>1. SUFFICES ASSUME NEW e \in Attempt, e[1] = d[1], e # d,
                        deadLetter[e] = "open", replayOf[e] = None
                 PROVE  FALSE
    BY <1>7
  <2>2. IsLast(e)
    BY <2>1 DEF ChainInv, UnreplayedIsLast
  <2>3. QED
    BY <1>1, <2>1, <2>2, LastIsUnique
<1>9. \A w \in Workers : WorkerAt(w, "dead_lettering") => Target(w)[1] # c[1]
  <2>1. SUFFICES ASSUME NEW w \in Workers, WorkerAt(w, "dead_lettering"), Target(w)[1] = d[1]
                 PROVE  FALSE
    OBVIOUS
  <2>2. Target(w) \in Attempt /\ IsLast(Target(w)) /\ deadLetter[Target(w)] = "absent"
    BY <2>1, DeadLetteringHasTarget DEF ChainInv, CallInv, DeadLetteringIsLast
  <2>3. QED
    BY <1>1, <2>1, <2>2, LastIsUnique
<1>10. LettersMove
  BY <1>7 DEF LettersMove
<1>11. \A b \in Attempt \ {c} :
          attempt'[b] = attempt[b] \/ (attempt[b] = "retry_scheduled" /\ attempt'[b] = "failed")
  BY <1>5
<1>12. ~ Exists(c) /\ attempt'[c] = "pending" /\ UNCHANGED worker
  BY <1>4, <1>5
<1>13. \A b \in Attempt : b[1] = c[1] /\ b[2] > c[2] => ~ Exists(b)
  BY <1>4
<1>14. QED
  BY <1>6, <1>8, <1>9, <1>10, <1>11, <1>12, <1>13, NewRowKeepsChain

LEMMA StoreKeepsChain ==
    ASSUME ChainInv, CallInv', StoreNext
    PROVE  ChainInv'
<1>0. UNCHANGED worker
  BY DEF StoreNext, CreateNotification, RepeatCreateNotification, RetryDueAttempt,
     ReplayDeadLetter, Maintenance, OnStore, processVars
<1>1. SameDeadLettering
  BY <1>0 DEF SameDeadLettering, WorkerAt, Target
<1>2. CASE UNCHANGED attempt /\ LettersMove
  BY <1>1, <1>2, QuietKeepsChain
<1>3. ASSUME NEW n \in Notifications, CreateNotification(n) \/ RepeatCreateNotification(n)
      PROVE  ChainInv'
  <2>1. CASE CreateNotification(n)
    BY <2>1, CreateKeepsChain
  <2>2. CASE RepeatCreateNotification(n)
    BY <1>2, <2>2 DEF RepeatCreateNotification, EnsureInitialAttempt, LettersMove
  <2>3. QED
    BY <1>3, <2>1, <2>2
<1>4. ASSUME NEW a \in Attempt, RetryDueAttempt(a)
      PROVE  ChainInv'
  <2>1. Child(a) \in Attempt
    BY <1>4, ChildInAttempt DEF RetryDueAttempt, EnsureRetryAttempt
  <2>2. UNCHANGED <<deadLetter, replayOf>>
    BY <1>4 DEF RetryDueAttempt, EnsureRetryAttempt
  <2>3. CASE UNCHANGED attempt
    BY <1>2, <2>2, <2>3 DEF LettersMove
  <2>4. CASE /\ attempt[a] = "retry_scheduled" /\ ~ Exists(Child(a))
             /\ attempt' = [attempt EXCEPT ![a] = "failed", ![Child(a)] = "pending"]
    BY <1>0, <2>1, <2>2, <2>4, RetryKeepsChain
  <2>5. QED
    BY <1>4, <2>3, <2>4 DEF RetryDueAttempt, EnsureRetryAttempt
<1>5. ASSUME NEW d \in Attempt, ReplayDeadLetter(d)
      PROVE  ChainInv'
  <2>1. deadLetter[d] = "open" /\ UNCHANGED deadLetter
    BY <1>5 DEF ReplayDeadLetter, EnsureReplayAttempt
  <2>2. CASE UNCHANGED <<attempt, replayOf>>
    BY <1>2, <2>1, <2>2 DEF LettersMove
  <2>3. CASE \E c \in Attempt :
               /\ replayOf[d] = None /\ c[1] = d[1] /\ IsNextNumber(c)
               /\ attempt' = [attempt EXCEPT ![c] = "pending"]
               /\ replayOf' = [replayOf EXCEPT ![d] = c]
    BY <1>0, <2>1, <2>3, ReplayKeepsChain
  <2>4. QED
    BY <1>5, <2>2, <2>3 DEF ReplayDeadLetter, EnsureReplayAttempt
<1>6. CASE Maintenance
  BY <1>2, <1>6 DEF Maintenance, RunMaintenance, LettersMove
<1>7. QED
  BY <1>3, <1>4, <1>5, <1>6 DEF StoreNext

\* Publishers mark dead letters replayed; the rest leaves these tables alone.
LEMMA OthersKeepChain ==
    ASSUME ChainInv, CallInv', [Next]_vars, ~ StoreNext, ~ \E w \in Workers : WorkerNext(w)
    PROVE  ChainInv'
<1>1. ASSUME NEW p \in Publishers, PublisherNext(p)
      PROVE  UNCHANGED <<attempt, worker>> /\ LettersMove
  <2>1. UNCHANGED <<attempt, worker, replayOf>>
    BY <1>1
    DEF PublisherNext, ClaimBatch, PublishIntent, PublishIntentFails, MarkPublished,
        RecordPublishError, CrashPublisher, ClaimPendingDispatchIntents,
        MarkDispatchIntentPublished, RecordDispatchIntentError, storeVars
  <2>2. \/ UNCHANGED deadLetter
        \/ \E a \in Attempt : deadLetter' = [d \in Attempt |->
                                IF deadLetter[d] = "open" /\ replayOf[d] = a
                                  THEN "replayed" ELSE deadLetter[d]]
    BY <1>1
    DEF PublisherNext, ClaimBatch, PublishIntent, PublishIntentFails, MarkPublished,
        RecordPublishError, CrashPublisher, ClaimPendingDispatchIntents,
        MarkDispatchIntentPublished, RecordDispatchIntentError, storeVars,
        ChainInv, CallInv, TypeOK
  <2>3. QED
    BY <2>1, <2>2 DEF LettersMove
<1>2. ASSUME NEW d \in Dispatchers, DispatcherNext(d)
      PROVE  UNCHANGED <<attempt, worker>> /\ LettersMove
  BY <1>2
  DEF DispatcherNext, ReserveDispatch, RouteJob, RouteJobFails, RequeueJob, AckDispatch,
      CrashDispatcher, storeVars, LettersMove
<1>3. ASSUME RedisNext \/ UNCHANGED vars
      PROVE  UNCHANGED <<attempt, worker>> /\ LettersMove
  BY <1>3 DEF RedisNext, ReserveAnswerLost, RecoverJob, vars, storeVars, processVars, LettersMove
<1>4. UNCHANGED <<attempt, worker>> /\ LettersMove
  BY <1>1, <1>2, <1>3 DEF Next
<1>5. SameDeadLettering
  BY <1>4 DEF SameDeadLettering, WorkerAt, Target
<1>6. QED
  BY <1>4, <1>5, QuietKeepsChain

LEMMA ChainAtStart == Init => ChainInv
<1> SUFFICES ASSUME Init PROVE ChainInv
  OBVIOUS
<1>1. CallInv
  BY CallsAtStart
<1>2. \A w \in Workers : ~ WorkerAt(w, "dead_lettering")
  BY DEF Init, WorkerAt, Idle
<1>3. \A a \in Attempt : ~ Exists(a) /\ deadLetter[a] = "absent" /\ replayOf[a] = None
  BY DEF Init, StoreInit, Exists
<1>4. QED
  BY <1>1, <1>2, <1>3
  DEF ChainInv, DeadLettersAreOfDeadLettered, UnreplayedIsLast, DeadLetteringIsLast,
      OneWorkerDeadLetters, OneChainOfAttempts

LEMMA ChainNext == ChainInv /\ [Next]_vars => ChainInv'
<1> SUFFICES ASSUME ChainInv, [Next]_vars PROVE ChainInv'
  OBVIOUS
<1>1. CallInv'
  BY CallsNext DEF ChainInv
<1>2. CASE StoreNext
  BY <1>1, <1>2, StoreKeepsChain
<1>3. CASE \E w \in Workers : WorkerNext(w)
  BY <1>1, <1>3, WorkerKeepsChain
<1>4. QED
  BY <1>1, <1>2, <1>3, OthersKeepChain

\* The invariant about the order of attempts and their dead letters
\* (EnsureRetryAttempt, EnsureReplayAttempt, the compare-and-set updates)
\* holds in every state.
THEOREM ChainCorrect == Spec => []ChainInv
BY ChainAtStart, ChainNext, PTL DEF Spec

\* Retries, replays and stale due lists never give a notification two attempts
\* that can both be delivered, nor one after a delivery.
THEOREM OneChain == Spec => []OneChainOfAttempts
<1>1. ChainInv => OneChainOfAttempts
  BY DEF ChainInv
<1>2. QED
  BY ChainCorrect, <1>1, PTL

============================================================================
