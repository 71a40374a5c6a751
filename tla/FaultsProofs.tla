---------------------------- MODULE FaultsProofs ----------------------------
(***************************************************************************)
(* Proofs that failing store calls and stopping workers cost the pipeline  *)
(* none of its safety but NoLostWork, for every number of notifications,   *)
(* attempts, processes and faults.                                         *)
(*                                                                         *)
(* A step of DeliveryFaults is a step of the pipeline, or one of five that *)
(* the pipeline has not.  Of those only StoreCallFails touches a table,    *)
(* and it makes the same compare-and-set updates, so what is to be shown   *)
(* is what they leave behind when their worker does not go on.             *)
(***************************************************************************)
EXTENDS DeliveryFaults, HistoryProofs, PublicationProofs

----------------------------------------------------------------------------
(* The steps.                                                              *)

\* The steps that are not steps of the pipeline.
FaultStep ==
    \/ \E p \in Publishers : RecordPublishErrorFails(p)
    \/ \E w \in Workers : StoreCallFails(w) \/ Stop(w) \/ CancelledCall(w) \/ LeaveBuffered(w)

LEMMA StoppingIsWorking == \A w \in Workers : StoppingNext(w) => WorkerNext(w)
BY DEF StoppingNext, WorkerNext

LEMMA StepsWithFaults == [FaultsNext]_faultVars => [Next]_vars \/ FaultStep
<1> SUFFICES ASSUME [FaultsNext]_faultVars PROVE [Next]_vars \/ FaultStep
  OBVIOUS
<1>1. CASE UNCHANGED faultVars
  BY <1>1 DEF faultVars
<1>2. CASE \E w \in Workers : IF stopping[w] THEN StoppingNext(w) ELSE WorkerNext(w)
  BY <1>2, StoppingIsWorking DEF Next
<1>3. CASE \E w \in Workers : Restart(w)
  BY <1>3 DEF Restart
<1>4. CASE \/ StoreNext \/ RedisNext
           \/ \E p \in Publishers : PublisherNext(p)
           \/ \E d \in Dispatchers : DispatcherNext(d)
  BY <1>4 DEF Next
<1>5. QED
  BY <1>1, <1>2, <1>3, <1>4 DEF FaultsNext, FaultStep

\* A worker that goes to its ack without having settled its attempt.
GivesUp(w) ==
    /\ \A v \in Workers \ {w} : worker'[v] = worker[v]
    /\ worker'[w].at \in {"idle", "done"}

\* What such a worker may leave in the row of attempt a: nothing, an activation
\* whose answer was an error, or a dead-lettering without its dead letter.
LeavesBehind(w, a) ==
    \/ ~ AtWork(w) /\ attempt[a] = "pending"
          /\ attempt' = [attempt EXCEPT ![a] = "in_progress"]
    \/ AtWork(w) /\ attempt[a] = "in_progress"
          /\ attempt' = [attempt EXCEPT ![a] = "dead_lettered"]

\* What a fault step does: a publisher drops the row at hand, or a worker gives up.
LEMMA FaultStepEffects ==
    ASSUME TypeOK, FaultStep
    PROVE  /\ UNCHANGED <<enqueuedAt, intent, claim, deadLetter, replayOf>>
           /\ UNCHANGED <<queueVars, dispatcher, pubs, calls>>
           /\ faults' \in Nat
           /\ \A p \in Publishers :
                 /\ publisher'[p].enqueued \subseteq publisher[p].enqueued
                 /\ publisher'[p].claimed \subseteq publisher[p].claimed
           /\ \/ UNCHANGED <<attempt, worker>>
              \/ \E w \in Workers :
                    /\ GivesUp(w)
                    /\ \/ UNCHANGED attempt
                       \/ \E a \in Attempt : a = Target(w) /\ LeavesBehind(w, a)
<1> USE DEF storeVars
<1>0. ASSUME UNCHANGED publisher
      PROVE  \A p \in Publishers :
                 /\ publisher'[p].enqueued \subseteq publisher[p].enqueued
                 /\ publisher'[p].claimed \subseteq publisher[p].claimed
  BY <1>0
<1>1. ASSUME NEW w \in Workers, worker[w] # Idle, WorkerGoes(w, "done")
      PROVE  GivesUp(w)
  <2>1. worker'[w].at = "done"
    BY <1>1, WorkerGoesTo DEF WorkerStep
  <2>2. QED
    BY <1>1, <2>1 DEF GivesUp, WorkerGoes, TypeOK
<1>2. ASSUME NEW p \in Publishers, RecordPublishErrorFails(p)
      PROVE  /\ UNCHANGED <<attempt, worker, enqueuedAt, intent, claim, deadLetter, replayOf>>
             /\ UNCHANGED <<queueVars, dispatcher, pubs, calls>>
             /\ faults' \in Nat
             /\ \A r \in Publishers :
                   /\ publisher'[r].enqueued \subseteq publisher[r].enqueued
                   /\ publisher'[r].claimed \subseteq publisher[r].claimed
  <2>1. /\ UNCHANGED <<attempt, worker, enqueuedAt, intent, claim, deadLetter, replayOf>>
        /\ UNCHANGED <<queueVars, dispatcher, pubs, calls>>
        /\ faults' \in Nat
    BY <1>2 DEF RecordPublishErrorFails, Fault, TypeOK
  <2>2. publisher' = [publisher EXCEPT ![p] = PublisherBatch(publisher[p].claimed, {}, {})]
    BY <1>2 DEF RecordPublishErrorFails
  <2>3. QED
    BY <2>1, <2>2 DEF TypeOK, PublisherBatch
<1>3. ASSUME NEW w \in Workers, Stop(w)
      PROVE  /\ UNCHANGED <<attempt, worker, enqueuedAt, intent, claim, deadLetter, replayOf>>
             /\ UNCHANGED <<queueVars, dispatcher, pubs, calls, publisher>>
             /\ faults' \in Nat
  BY <1>3 DEF Stop, Fault, TypeOK, processVars
<1>4. ASSUME NEW w \in Workers, CancelledCall(w) \/ LeaveBuffered(w)
      PROVE  /\ UNCHANGED <<attempt, enqueuedAt, intent, claim, deadLetter, replayOf>>
             /\ UNCHANGED <<queueVars, dispatcher, pubs, calls, publisher>>
             /\ faults' \in Nat
             /\ GivesUp(w)
  <2>1. CASE CancelledCall(w)
    <3>1. worker[w] # Idle
      BY <2>1 DEF CancelledCall, Processing, WorkerStep, Idle
    <3>2. GivesUp(w)
      BY <1>1, <2>1, <3>1 DEF CancelledCall
    <3>3. QED
      BY <2>1, <3>2 DEF CancelledCall, OnWorker, TypeOK
  <2>2. CASE LeaveBuffered(w)
    <3>1. GivesUp(w)
      BY <2>2 DEF LeaveBuffered, GivesUp, TypeOK, Idle
    <3>2. QED
      BY <2>2, <3>1 DEF LeaveBuffered, OnWorker, TypeOK
  <2>3. QED
    BY <1>4, <2>1, <2>2
<1>5. ASSUME NEW w \in Workers, StoreCallFails(w)
      PROVE  /\ UNCHANGED <<enqueuedAt, intent, claim, deadLetter, replayOf>>
             /\ UNCHANGED <<queueVars, dispatcher, pubs, calls, publisher>>
             /\ faults' \in Nat
             /\ GivesUp(w)
             /\ UNCHANGED attempt \/ \E a \in Attempt : a = Target(w) /\ LeavesBehind(w, a)
  <2>1. worker[w] # Idle
    BY <1>5 DEF StoreCallFails, Processing, WorkerStep, Idle
  <2>2. GivesUp(w)
    BY <1>1, <1>5, <2>1 DEF StoreCallFails
  <2>3. PICK a \in Attempt : a = Target(w)
    BY <2>1, WorkerHasJob DEF TypeOK, ProcessTypeOK
  <2>4. \/ UNCHANGED storeVars
        \/ WorkerAt(w, "reserved") /\ MarkAttemptInProgress(a)
        \/ WorkerAt(w, "retryable") /\ MarkAttemptDeadLettered(a)
    BY <1>5, <2>3 DEF StoreCallFails
  <2>5. /\ WorkerAt(w, "reserved") => ~ AtWork(w)
        /\ WorkerAt(w, "retryable") => AtWork(w)
    BY DEF WorkerAt, AtWork
  <2>6. /\ UNCHANGED <<enqueuedAt, intent, claim, deadLetter, replayOf>>
        /\ UNCHANGED attempt \/ LeavesBehind(w, a)
    BY <2>4, <2>5 DEF MarkAttemptInProgress, MarkAttemptDeadLettered, SettleAttempt, LeavesBehind
  <2>7. UNCHANGED <<queueVars, dispatcher, pubs, calls, publisher>> /\ faults' \in Nat
    BY <1>5 DEF StoreCallFails, Fault, TypeOK
  <2>8. QED
    BY <2>2, <2>3, <2>6, <2>7
<1>6. QED
  BY <1>0, <1>2, <1>3, <1>4, <1>5 DEF FaultStep

----------------------------------------------------------------------------
(* Types and rows.                                                         *)

LEMMA FaultStepProcesses ==
    ASSUME TypeOK, FaultStep
    PROVE  /\ publisher' \in [Publishers -> [claimed : SUBSET Attempt,
                                             enqueued : SUBSET Attempt,
                                             failed : SUBSET Attempt]]
           /\ worker' \in [Workers -> {Idle} \cup [at : WorkerStep, job : Job]]
<1>1. CASE \E p \in Publishers : RecordPublishErrorFails(p)
  <2>1. PICK p \in Publishers : RecordPublishErrorFails(p)
    BY <1>1
  <2>2. publisher' = [publisher EXCEPT ![p] = PublisherBatch(publisher[p].claimed, {}, {})]
    BY <2>1 DEF RecordPublishErrorFails
  <2>3. publisher[p].claimed \in SUBSET Attempt
    BY DEF TypeOK
  <2>4. PublisherBatch(publisher[p].claimed, {}, {})
          \in [claimed : SUBSET Attempt, enqueued : SUBSET Attempt, failed : SUBSET Attempt]
    BY <2>3 DEF PublisherBatch
  <2>5. UNCHANGED worker
    BY <2>1 DEF RecordPublishErrorFails
  <2>6. QED
    BY <2>2, <2>4, <2>5 DEF TypeOK
<1>2. ASSUME NEW w \in Workers, StoreCallFails(w) \/ CancelledCall(w)
      PROVE  /\ UNCHANGED publisher
             /\ worker' \in [Workers -> {Idle} \cup [at : WorkerStep, job : Job]]
  <2>1. worker[w] # Idle
    BY <1>2 DEF StoreCallFails, CancelledCall, Processing, WorkerStep, Idle
  <2>2. worker[w] \in [at : WorkerStep, job : Job]
    BY <2>1, WorkerHasJob DEF TypeOK, ProcessTypeOK
  <2>3. worker' = [worker EXCEPT ![w].at = "done"] /\ UNCHANGED publisher
    BY <1>2 DEF StoreCallFails, CancelledCall, WorkerGoes, OnWorker
  <2>4. [worker[w] EXCEPT !.at = "done"] \in [at : WorkerStep, job : Job]
    BY <2>2 DEF WorkerStep
  <2>5. QED
    BY <2>3, <2>4 DEF TypeOK
<1>3. ASSUME NEW w \in Workers, Stop(w) \/ LeaveBuffered(w)
      PROVE  /\ UNCHANGED publisher
             /\ worker' \in [Workers -> {Idle} \cup [at : WorkerStep, job : Job]]
  BY <1>3 DEF Stop, LeaveBuffered, OnWorker, processVars, TypeOK
<1>4. QED
  BY <1>1, <1>2, <1>3 DEF FaultStep, TypeOK

LEMMA FaultStepRows ==
    ASSUME TypeOK, FaultStep
    PROVE  /\ attempt' \in [Attempt -> {"absent"} \cup AttemptStatus]
           /\ \A a \in Attempt : Exists(a) => Exists(a)'
<1>1. CASE UNCHANGED attempt
  BY <1>1 DEF TypeOK, StoreTypeOK, Exists
<1>2. CASE \E w \in Workers, a \in Attempt : LeavesBehind(w, a)
  BY <1>2 DEF LeavesBehind, TypeOK, StoreTypeOK, AttemptStatus, Exists
<1>3. QED
  BY <1>1, <1>2, FaultStepEffects

LEMMA FaultStepKeepsRows ==
    ASSUME RowInv, FaultStep
    PROVE  RowInv'
<1>1. TypeOK
  BY DEF RowInv
<1>2. /\ UNCHANGED <<enqueuedAt, intent, claim, deadLetter, replayOf>>
      /\ UNCHANGED <<queueVars, dispatcher, pubs, calls>>
      /\ faults' \in Nat
  BY <1>1, FaultStepEffects
<1>3. StoreTypeOK'
  BY <1>1, <1>2, FaultStepRows DEF TypeOK, StoreTypeOK
<1>4. QueuesTypeOK(Job)'
  BY <1>1, <1>2 DEF TypeOK, QueuesTypeOK, queueVars
<1>5. ProcessTypeOK'
  BY <1>1, <1>2, FaultStepProcesses DEF TypeOK, ProcessTypeOK
<1>6. TypeOK'
  BY <1>3, <1>4, <1>5 DEF TypeOK, ProcessTypeOK
<1>7. IntentsHaveRows'
  BY <1>1, <1>2, FaultStepRows DEF RowInv, IntentsHaveRows
<1>8. ReplaysHaveRows'
  <2>1. \A d \in Attempt : replayOf[d] # None => replayOf[d] \in Attempt
    BY <1>1 DEF TypeOK, StoreTypeOK
  <2>2. QED
    BY <1>1, <1>2, <2>1, FaultStepRows DEF RowInv, ReplaysHaveRows
<1>9. QED
  BY <1>6, <1>7, <1>8 DEF RowInv

LEMMA FaultStepKeepsPublications ==
    ASSUME RowInv, PublicationInv, FaultStep
    PROVE  PublicationInv'
<1>1. TypeOK
  BY DEF RowInv
<1>2. PubsGrow
  BY <1>1, FaultStepEffects DEF TypeOK, PubsGrow
<1>3. QED
  BY <1>1, <1>2, FaultStepEffects, ElsewhereKeepsPublications

----------------------------------------------------------------------------
(* Calls and chains.                                                       *)

\* An activation whose answer was an error: the row is taken, by nobody.
LEMMA LostActivationKeepsCalls ==
    ASSUME CallInv, TypeOK', NEW w \in Workers, NEW a \in Attempt, ~ AtWork(w)',
           attempt[a] = "pending", attempt' = [attempt EXCEPT ![a] = "in_progress"],
           UNCHANGED calls, \A v \in Workers \ {w} : worker'[v] = worker[v]
    PROVE  CallInv'
<1>1. ~ WorkerAt(w, "active")'
  BY DEF AtWork, WorkerAt
<1>2. \A v \in Workers \ {w} :
         /\ Target(v)' = Target(v) /\ (AtWork(v)' <=> AtWork(v))
         /\ WorkerAt(v, "active")' <=> WorkerAt(v, "active")
  BY DEF Target, AtWork, WorkerAt
<1>3. attempt'[a] = "in_progress" /\ \A b \in Attempt \ {a} : attempt'[b] = attempt[b]
  BY DEF CallInv, TypeOK, StoreTypeOK
<1>4. \A v \in Workers : AtWork(v) => Target(v) # a /\ Target(v) \in Attempt
  BY AtWorkHasTarget DEF CallInv, WorkedOnIsInProgress
<1>5. UncalledBeforeActivation'
  BY <1>3 DEF CallInv, UncalledBeforeActivation
<1>6. WorkedOnIsInProgress'
  BY <1>2, <1>3, <1>4 DEF CallInv, WorkedOnIsInProgress
<1>7. ActiveIsUncalled'
  BY <1>1, <1>2 DEF CallInv, ActiveIsUncalled
<1>8. OneWorkerPerAttempt'
  BY <1>2 DEF CallInv, OneWorkerPerAttempt
<1>9. OneProviderCallPerAttempt'
  BY DEF CallInv, OneProviderCallPerAttempt
<1>10. QED
  BY <1>5, <1>6, <1>7, <1>8, <1>9 DEF CallInv

LEMMA GivingUpKeepsCalls ==
    ASSUME CallInv, TypeOK', UNCHANGED calls, NEW w \in Workers, GivesUp(w),
           UNCHANGED attempt \/ \E a \in Attempt : a = Target(w) /\ LeavesBehind(w, a)
    PROVE  CallInv'
<1>1. ~ AtWork(w)' /\ \A v \in Workers \ {w} : worker'[v] = worker[v]
  BY DEF GivesUp, AtWork
<1>2. CASE UNCHANGED attempt
  BY <1>1, <1>2, RestKeepsCalls
<1>3. ASSUME NEW a \in Attempt, a = Target(w), LeavesBehind(w, a)
      PROVE  CallInv'
  <2>1. CASE attempt[a] = "pending" /\ attempt' = [attempt EXCEPT ![a] = "in_progress"]
    BY <1>1, <2>1, LostActivationKeepsCalls
  <2>2. CASE AtWork(w) /\ attempt' = [attempt EXCEPT ![a] = "dead_lettered"]
    BY <1>1, <1>3, <2>2, SettleKeepsCalls
  <2>3. QED
    BY <1>3, <2>1, <2>2 DEF LeavesBehind
<1>4. QED
  BY <1>2, <1>3

LEMMA FaultStepKeepsCalls ==
    ASSUME CallInv, TypeOK', FaultStep
    PROVE  CallInv'
<1>1. TypeOK
  BY DEF CallInv
<1>2. CASE UNCHANGED <<attempt, worker>>
  BY <1>1, <1>2, FaultStepEffects, OthersKeepCalls DEF StatusMoves
<1>3. QED
  BY <1>1, <1>2, FaultStepEffects, GivingUpKeepsCalls

LEMMA FaultStepKeepsChain ==
    ASSUME ChainInv, TypeOK', FaultStep
    PROVE  ChainInv'
<1>1. TypeOK /\ CallInv
  BY DEF ChainInv, CallInv
<1>2. CallInv'
  BY <1>1, FaultStepKeepsCalls
<1>3. UNCHANGED <<deadLetter, replayOf>> /\ LettersMove
  BY <1>1, FaultStepEffects DEF LettersMove
<1>4. CASE UNCHANGED <<attempt, worker>>
  <2>1. SameDeadLettering
    BY <1>4 DEF SameDeadLettering, WorkerAt, Target
  <2>2. QED
    BY <1>2, <1>3, <1>4, <2>1, QuietKeepsChain
<1>5. ASSUME NEW w \in Workers, GivesUp(w),
             UNCHANGED attempt \/ \E a \in Attempt : a = Target(w) /\ LeavesBehind(w, a)
      PROVE  ChainInv'
  <2>1. ~ WorkerAt(w, "dead_lettering")' /\ \A v \in Workers \ {w} : worker'[v] = worker[v]
    BY <1>5 DEF GivesUp, WorkerAt
  <2>2. CASE UNCHANGED attempt
    <3>1. SameDeadLettering
      BY <2>1 DEF SameDeadLettering, WorkerAt, Target
    <3>2. QED
      BY <1>2, <1>3, <2>2, <3>1, QuietKeepsChain
  <2>3. ASSUME NEW a \in Attempt, a = Target(w), LeavesBehind(w, a)
        PROVE  ChainInv'
    <3>1. PICK status \in AttemptStatus : attempt' = [attempt EXCEPT ![a] = status]
      BY <2>3 DEF LeavesBehind, AttemptStatus
    <3>2. attempt[a] \in {"pending", "in_progress"}
      BY <2>3 DEF LeavesBehind
    <3>3. QED
      BY <1>2, <1>3, <2>1, <2>3, <3>1, <3>2, MarkKeepsChain
  <2>4. QED
    BY <1>5, <2>2, <2>3
<1>6. QED
  BY <1>1, <1>4, <1>5, FaultStepEffects

LEMMA FaultStepMovesAttempts ==
    ASSUME ChainInv, FaultStep
    PROVE  AttemptsMove
<1>1. TypeOK
  BY DEF ChainInv, CallInv
<1>2. CASE UNCHANGED attempt
  BY <1>2 DEF AttemptsMove
<1>3. ASSUME NEW w \in Workers, NEW a \in Attempt, LeavesBehind(w, a)
      PROVE  AttemptsMove
  <2>1. IsLast(a)
    BY <1>3, LiveIsLast DEF ChainInv, LeavesBehind, Exists
  <2>2. Moves(a, "pending", "in_progress") \/ Moves(a, "in_progress", "dead_lettered")
    BY <1>3, <2>1 DEF LeavesBehind, Moves
  <2>3. QED
    BY <2>2 DEF AttemptsMove
<1>4. QED
  BY <1>1, <1>2, <1>3, FaultStepEffects

----------------------------------------------------------------------------
(* The theorems.                                                           *)

\* What holds of the tables, the outbox and the attempts, whatever fails.
FaultsInv ==
    /\ stopping \in [Workers -> BOOLEAN]
    /\ RowInv
    /\ PublicationInv
    /\ ChainInv

LEMMA FaultsAtStart == FaultsInit => FaultsInv
<1> SUFFICES ASSUME FaultsInit PROVE FaultsInv
  OBVIOUS
<1>1. Init /\ stopping \in [Workers -> BOOLEAN]
  BY DEF FaultsInit
<1>2. IntentsHaveRows /\ ReplaysHaveRows
  BY <1>1 DEF Init, StoreInit, IntentsHaveRows, ReplaysHaveRows
<1>3. QED
  BY <1>1, <1>2, TypeInit, PublicationAtStart, ChainAtStart DEF FaultsInv, RowInv

LEMMA FaultsKept == FaultsInv /\ [FaultsNext]_faultVars => FaultsInv'
<1> SUFFICES ASSUME FaultsInv, [FaultsNext]_faultVars PROVE FaultsInv'
  OBVIOUS
<1>1. RowInv /\ TypeOK /\ PublicationInv /\ ChainInv
  BY DEF FaultsInv, RowInv
<1>2. stopping' \in [Workers -> BOOLEAN]
  BY DEF FaultsInv, FaultsNext, faultVars, RecordPublishErrorFails, StoreCallFails, Stop,
         CancelledCall, LeaveBuffered, Restart
<1>3. CASE [Next]_vars
  <2>1. RowInv'
    BY <1>1, <1>3, TypeNext, RowsNext DEF RowInv
  <2>2. QED
    BY <1>1, <1>2, <1>3, <2>1, PublicationNext, ChainNext DEF FaultsInv
<1>4. CASE FaultStep
  <2>1. RowInv' /\ TypeOK'
    BY <1>1, <1>4, FaultStepKeepsRows DEF RowInv
  <2>2. QED
    BY <1>1, <1>2, <1>4, <2>1, FaultStepKeepsPublications, FaultStepKeepsChain DEF FaultsInv
<1>5. QED
  BY <1>3, <1>4, StepsWithFaults

LEMMA FaultsHold == FaultsSpec => []FaultsInv
BY FaultsAtStart, FaultsKept, PTL DEF FaultsSpec

\* Store calls that fail before or after their update, and workers that are
\* told to stop between any two steps, leave every variable in its type.
THEOREM FaultsTypeCorrect == FaultsSpec => []FaultsTypeOK
<1>1. FaultsInv => FaultsTypeOK
  BY DEF FaultsInv, RowInv, FaultsTypeOK
<1>2. QED
  BY <1>1, FaultsHold, PTL

\* The provider is called at most once per attempt also when store calls fail
\* and workers stop: an activation whose answer was an error leaves the row
\* in_progress, where no other job is admitted (MarkAttemptInProgress).
THEOREM OneCallWithFaults == FaultsSpec => []OneProviderCallPerAttempt
<1>1. FaultsInv => OneProviderCallPerAttempt
  BY DEF FaultsInv, ChainInv, CallInv
<1>2. QED
  BY <1>1, FaultsHold, PTL

\* So the attempts of a notification stay one chain, although an attempt can
\* be dead_lettered without ever getting its dead letter (service.go,
\* MarkAttemptDeadLettered and then CreateDeadLetter).
THEOREM OneChainWithFaults == FaultsSpec => []OneChainOfAttempts
<1>1. FaultsInv => OneChainOfAttempts
  BY DEF FaultsInv, ChainInv
<1>2. QED
  BY <1>1, FaultsHold, PTL

\* An outbox row is marked published, and a dead letter replayed, only after a
\* push, and a published attempt is not published again, also when the error
\* of a failed push cannot be recorded (RecordDispatchIntentError).
THEOREM PublicationsWithFaults == FaultsSpec => [](PublicationIsReal /\ NoRepublication)
<1>1. FaultsInv => PublicationIsReal /\ NoRepublication
  BY DEF FaultsInv, PublicationInv
<1>2. QED
  BY <1>1, FaultsHold, PTL

\* None of the failures releases the claim of another publisher
\* (WHERE claimed_at = $3).
THEOREM ClaimsAreFencedWithFaults == FaultsSpec => ClaimIsFenced
<1>1. ASSUME FaultsInv, FaultStep
      PROVE  ReleaseIsFenced
  BY <1>1, FaultStepEffects DEF FaultsInv, RowInv, ReleaseIsFenced
<1>2. FaultsInv /\ [FaultsNext]_faultVars => [ReleaseIsFenced]_vars
  BY <1>1, StepsWithFaults, StepIsFenced DEF FaultsInv
<1>3. QED
  BY <1>2, FaultsHold, PTL DEF FaultsSpec, ClaimIsFenced, ReleaseIsFenced

\* The pipeline with failing store calls and stopping workers still implements
\* the history of attempts: what a worker leaves behind when it gives up is an
\* activation or a settlement of the last attempt, or nothing.
THEOREM FaultsImplementHistory == FaultsSpec => ImplementsHistory
<1>1. FaultsInit => History!Init
  BY HistoryAtStart DEF FaultsInit
<1>2. ASSUME FaultsInv, FaultsInv', [FaultsNext]_faultVars
      PROVE  History!Next \/ UNCHANGED Logs
  <2>1. ChainInv /\ ChainInv'
    BY <1>2 DEF FaultsInv
  <2>2. AttemptsMove
    BY <1>2, <2>1, StepsWithFaults, StepMovesAttempts, FaultStepMovesAttempts
  <2>3. QED
    BY <2>1, <2>2, MovesAreHistory
<1>3. FaultsInv /\ FaultsInv' /\ [FaultsNext]_faultVars
        => [History!Next]_([n \in Notifications |-> AttemptLog(n)])
  BY <1>2, LogsAreMapped
<1>4. QED
  BY <1>1, <1>3, FaultsHold, PTL DEF FaultsSpec, ImplementsHistory, History!Spec

============================================================================
