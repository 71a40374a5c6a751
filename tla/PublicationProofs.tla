------------------------- MODULE PublicationProofs -------------------------
(***************************************************************************)
(* Proofs about the outbox: what is marked published was pushed to Redis,  *)
(* is never published again, and only the holder of a claim releases it,   *)
(* for every number of notifications, attempts, publishers and faults.     *)
(***************************************************************************)
EXTENDS DeliveryPipelineProofs

\* What a publisher is about to mark published was pushed.
EnqueuedIsPushed == \A p \in Publishers : \A a \in publisher[p].enqueued : pubs[a] >= 1

\* The invariant behind both: what is marked published was pushed before, and
\* an attempt with dispatch_enqueued_at keeps no row that can be claimed.
PublicationInv ==
    /\ EnqueuedIsPushed
    /\ PublicationIsReal
    /\ NoRepublication

\* No publication is forgotten.
PubsGrow == \A a \in Attempt : pubs[a] \in Nat /\ pubs'[a] \in Nat /\ pubs'[a] >= pubs[a]

\* Steps that touch neither the outbox nor the dead letters, nor take jobs into
\* the state "enqueued".
LEMMA ElsewhereKeepsPublications ==
    ASSUME PublicationInv, TypeOK, UNCHANGED <<intent, enqueuedAt, deadLetter, replayOf>>, PubsGrow,
           \A p \in Publishers : publisher'[p].enqueued \subseteq publisher[p].enqueued
    PROVE  PublicationInv'
<1>1. EnqueuedIsPushed'
  <2> SUFFICES ASSUME NEW p \in Publishers, NEW a \in publisher'[p].enqueued
               PROVE  pubs'[a] >= 1
    BY DEF EnqueuedIsPushed
  <2>1. a \in publisher[p].enqueued /\ a \in Attempt
    BY DEF TypeOK
  <2>2. QED
    BY <2>1 DEF PublicationInv, EnqueuedIsPushed, PubsGrow
<1>2. PublicationIsReal'
  <2> SUFFICES ASSUME NEW a \in Attempt
               PROVE  /\ intent'[a] = "published" \/ enqueuedAt'[a] => pubs'[a] >= 1
                      /\ deadLetter'[a] = "replayed" =>
                            replayOf'[a] # None /\ pubs'[replayOf'[a]] >= 1
    BY DEF PublicationIsReal
  <2>1. intent'[a] = "published" \/ enqueuedAt'[a] => pubs'[a] >= 1
    BY DEF PublicationInv, PublicationIsReal, PubsGrow
  <2>2. deadLetter'[a] = "replayed" => replayOf'[a] # None /\ pubs'[replayOf'[a]] >= 1
    <3>1. replayOf[a] \in Attempt \cup {None}
      BY DEF TypeOK, StoreTypeOK
    <3>2. QED
      BY <3>1 DEF PublicationInv, PublicationIsReal, PubsGrow
  <2>3. QED
    BY <2>1, <2>2
<1>3. NoRepublication'
  BY DEF PublicationInv, NoRepublication
<1>4. QED
  BY <1>1, <1>2, <1>3 DEF PublicationInv

\* An intent that is inserted, or left as it is, with the status that
\* dispatch_enqueued_at asks for (publishedIntentStatus).
LEMMA InsertionKeepsPublications ==
    ASSUME PublicationInv, TypeOK, NEW a \in Attempt,
           intent' = [intent EXCEPT ![a] = InsertedIntent(a)],
           UNCHANGED <<enqueuedAt, deadLetter, pubs, publisher>>,
           \A d \in Attempt : deadLetter[d] = "replayed" => replayOf'[d] = replayOf[d]
    PROVE  PublicationInv'
<1>1. \A b \in Attempt : intent'[b] = IF b = a THEN InsertedIntent(a) ELSE intent[b]
  BY DEF TypeOK, StoreTypeOK
<1>2. \A b \in Attempt :
          /\ intent'[b] = "published" => intent[b] = "published" \/ enqueuedAt[b]
          /\ intent'[b] \notin {"absent", "published"} =>
                intent[b] \notin {"absent", "published"} \/ ~ enqueuedAt[b]
  BY <1>1 DEF InsertedIntent
<1>3. EnqueuedIsPushed'
  BY DEF PublicationInv, EnqueuedIsPushed
<1>4. PublicationIsReal'
  BY <1>2 DEF PublicationInv, PublicationIsReal
<1>5. NoRepublication'
  BY <1>2 DEF PublicationInv, NoRepublication
<1>6. QED
  BY <1>3, <1>4, <1>5 DEF PublicationInv

\* Creation, repetition, retry, replay and maintenance.
LEMMA StoreKeepsPublications ==
    ASSUME PublicationInv, RowInv, StoreNext
    PROVE  PublicationInv'
<1>0. TypeOK /\ UNCHANGED <<pubs, publisher>>
  BY DEF RowInv, StoreNext, CreateNotification, RepeatCreateNotification, RetryDueAttempt,
     ReplayDeadLetter, Maintenance, OnStore, processVars
<1>1. ASSUME NEW n \in Notifications, CreateNotification(n)
      PROVE  PublicationInv'
  <2>1. Initial(n) \in Attempt
    BY InitialInAttempt
  <2>2. InsertedIntent(Initial(n)) = "pending"
    BY <1>1, <2>1 DEF CreateNotification, CreateNotificationWithInitialDispatch, RowInv,
       IntentsHaveRows, InsertedIntent
  <2>3. QED
    BY <1>0, <1>1, <2>1, <2>2, InsertionKeepsPublications
    DEF CreateNotification, CreateNotificationWithInitialDispatch
<1>2. ASSUME NEW n \in Notifications, RepeatCreateNotification(n)
      PROVE  PublicationInv'
  BY <1>0, <1>2, InitialInAttempt, InsertionKeepsPublications
  DEF RepeatCreateNotification, EnsureInitialAttempt
<1>3. ASSUME NEW a \in Attempt, RetryDueAttempt(a)
      PROVE  PublicationInv'
  <2>1. Child(a) \in Attempt
    BY <1>3, ChildInAttempt DEF RetryDueAttempt, EnsureRetryAttempt
  <2>2. QED
    BY <1>0, <1>3, <2>1, InsertionKeepsPublications DEF RetryDueAttempt, EnsureRetryAttempt
<1>4. ASSUME NEW d \in Attempt, ReplayDeadLetter(d)
      PROVE  PublicationInv'
  <2>1. PICK a \in Attempt :
            /\ intent' = [intent EXCEPT ![a] = InsertedIntent(a)]
            /\ UNCHANGED <<enqueuedAt, deadLetter>>
            /\ replayOf' = replayOf \/ replayOf' = [replayOf EXCEPT ![d] = a]
    BY <1>0, <1>4 DEF ReplayDeadLetter, EnsureReplayAttempt, TypeOK, StoreTypeOK
  <2>2. \A e \in Attempt : deadLetter[e] = "replayed" => replayOf'[e] = replayOf[e]
    BY <1>0, <1>4, <2>1 DEF ReplayDeadLetter, EnsureReplayAttempt, TypeOK, StoreTypeOK
  <2>3. QED
    BY <1>0, <2>1, <2>2, InsertionKeepsPublications
<1>5. CASE Maintenance
  <2>1. /\ \A a \in Attempt : intent'[a] \in {intent[a], "absent"}
        /\ \A a \in Attempt : deadLetter'[a] = "replayed" =>
              deadLetter[a] = "replayed" /\ replayOf'[a] = replayOf[a]
        /\ enqueuedAt' = enqueuedAt
    BY <1>5 DEF Maintenance, RunMaintenance
  <2>2. EnqueuedIsPushed'
    BY <1>0 DEF PublicationInv, EnqueuedIsPushed
  <2>3. PublicationIsReal'
    BY <1>0, <2>1 DEF PublicationInv, PublicationIsReal
  <2>4. NoRepublication'
    BY <2>1 DEF PublicationInv, NoRepublication
  <2>5. QED
    BY <2>2, <2>3, <2>4 DEF PublicationInv
<1>6. QED
  BY <1>1, <1>2, <1>3, <1>4, <1>5 DEF StoreNext

\* Claims take no row that was published; marks are made for pushed jobs.
LEMMA PublisherKeepsPublications ==
    ASSUME PublicationInv, TypeOK, NEW p \in Publishers, PublisherNext(p)
    PROVE  PublicationInv'
<1>1. CASE ClaimBatch(p)
  <2>1. PICK rows \in SUBSET Attempt :
            /\ ClaimPendingDispatchIntents(p, rows)
            /\ publisher' = [publisher EXCEPT ![p] = PublisherBatch(rows, {}, {})]
    BY <1>1 DEF ClaimBatch
  <2>2. /\ \A a \in Attempt : intent'[a] = IF a \in rows THEN "publishing" ELSE intent[a]
        /\ \A a \in rows : ~ enqueuedAt[a]
        /\ UNCHANGED <<enqueuedAt, deadLetter, replayOf, pubs>>
    BY <1>1, <2>1 DEF ClaimBatch, ClaimPendingDispatchIntents, PublicationInv, NoRepublication
  <2>3. \A r \in Publishers : publisher'[r].enqueued \subseteq publisher[r].enqueued
    BY <2>1 DEF TypeOK, PublisherBatch
  <2>4. EnqueuedIsPushed'
    BY <2>2, <2>3 DEF PublicationInv, EnqueuedIsPushed
  <2>5. PublicationIsReal'
    BY <2>2 DEF PublicationInv, PublicationIsReal
  <2>6. NoRepublication'
    BY <2>2 DEF PublicationInv, NoRepublication
  <2>7. QED
    BY <2>4, <2>5, <2>6 DEF PublicationInv
<1>2. ASSUME NEW a \in Attempt, PublishIntent(p, a) \/ PublishIntentFails(p, a)
      PROVE  PublicationInv'
  <2>1. PubsGrow /\ (PublishIntent(p, a) => pubs'[a] >= 1)
    BY <1>2 DEF PublishIntent, PublishIntentFails, RPushDispatch, PubsGrow, TypeOK
  <2>2. UNCHANGED <<intent, enqueuedAt, deadLetter, replayOf>>
    BY <1>2 DEF PublishIntent, PublishIntentFails, storeVars
  <2>3. \A r \in Publishers : \A b \in publisher'[r].enqueued :
            b \in publisher[r].enqueued \/ (PublishIntent(p, a) /\ b = a)
    <3>1. PICK pushed \in {{}, {a}} :
              /\ publisher' = [publisher EXCEPT ![p] =
                                 PublisherBatch(publisher[p].claimed \ {a}, pushed, {a} \ pushed)]
              /\ pushed = {a} => PublishIntent(p, a)
      <4>1. CASE PublishIntent(p, a)
        BY <4>1 DEF PublishIntent
      <4>2. CASE PublishIntentFails(p, a)
        BY <4>2 DEF PublishIntentFails
      <4>3. QED
        BY <1>2, <4>1, <4>2
    <3>2. \A r \in Publishers : publisher'[r].enqueued =
              IF r = p THEN pushed ELSE publisher[r].enqueued
      BY <3>1 DEF TypeOK, PublisherBatch
    <3>3. QED
      BY <3>1, <3>2
  <2>4. EnqueuedIsPushed'
    <3> SUFFICES ASSUME NEW r \in Publishers, NEW b \in publisher'[r].enqueued
                 PROVE  pubs'[b] >= 1
      BY DEF EnqueuedIsPushed
    <3>1. CASE b \in publisher[r].enqueued
      <4>1. b \in Attempt /\ pubs[b] >= 1
        BY <3>1 DEF TypeOK, PublicationInv, EnqueuedIsPushed
      <4>2. QED
        BY <2>1, <4>1 DEF PubsGrow
    <3>2. QED
      BY <2>1, <2>3, <3>1
  <2>5. PublicationIsReal' /\ NoRepublication'
    <3> SUFFICES ASSUME NEW b \in Attempt
                 PROVE  /\ intent'[b] = "published" \/ enqueuedAt'[b] => pubs'[b] >= 1
                        /\ deadLetter'[b] = "replayed" =>
                              replayOf'[b] # None /\ pubs'[replayOf'[b]] >= 1
      BY <2>2 DEF PublicationIsReal, PublicationInv, NoRepublication
    <3>1. replayOf[b] \in Attempt \cup {None}
      BY DEF TypeOK, StoreTypeOK
    <3>2. QED
      BY <2>1, <2>2, <3>1 DEF PublicationInv, PublicationIsReal, PubsGrow
  <2>6. QED
    BY <2>4, <2>5 DEF PublicationInv
<1>3. CASE MarkPublished(p)
  <2>1. PICK a \in publisher[p].enqueued :
            /\ MarkDispatchIntentPublished(p, a)
            /\ publisher' = [publisher EXCEPT ![p] =
                                IF MarkPublishedOK(p, a)
                                  THEN PublisherBatch(@.claimed, {}, {}) ELSE NoBatch]
    BY <1>3 DEF MarkPublished
  <2>2. a \in Attempt /\ pubs[a] >= 1 /\ pubs' = pubs
    BY <1>3 DEF MarkPublished, TypeOK, PublicationInv, EnqueuedIsPushed
  <2>3. \A r \in Publishers : publisher'[r].enqueued \subseteq publisher[r].enqueued
    BY <2>1 DEF TypeOK, PublisherBatch, NoBatch
  <2>4. /\ \A b \in Attempt : \/ intent'[b] = intent[b] /\ enqueuedAt'[b] = enqueuedAt[b]
                              \/ b = a /\ intent'[b] = "published"
        /\ \A d \in Attempt : deadLetter'[d] = "replayed" =>
              deadLetter[d] = "replayed" \/ replayOf[d] = a
        /\ replayOf' = replayOf
    BY <2>1 DEF MarkDispatchIntentPublished, TypeOK, StoreTypeOK, storeVars
  <2>5. EnqueuedIsPushed'
    BY <2>2, <2>3 DEF PublicationInv, EnqueuedIsPushed
  <2>6. PublicationIsReal'
    BY <2>2, <2>4, StoreAssumption DEF PublicationInv, PublicationIsReal
  <2>7. NoRepublication'
    BY <2>4 DEF PublicationInv, NoRepublication
  <2>8. QED
    BY <2>5, <2>6, <2>7 DEF PublicationInv
<1>4. CASE RecordPublishError(p)
  <2>1. /\ \A b \in Attempt : \/ intent'[b] = intent[b]
                              \/ intent[b] = "publishing" /\ intent'[b] = "pending"
        /\ UNCHANGED <<enqueuedAt, deadLetter, replayOf, pubs>>
    BY <1>4 DEF RecordPublishError, RecordDispatchIntentError, HoldsClaim, TypeOK, StoreTypeOK,
       storeVars
  <2>2. \A r \in Publishers : publisher'[r].enqueued \subseteq publisher[r].enqueued
    BY <1>4 DEF RecordPublishError, TypeOK, PublisherBatch
  <2>3. EnqueuedIsPushed'
    BY <2>1, <2>2 DEF PublicationInv, EnqueuedIsPushed
  <2>4. PublicationIsReal'
    BY <2>1 DEF PublicationInv, PublicationIsReal
  <2>5. NoRepublication'
    BY <2>1 DEF PublicationInv, NoRepublication
  <2>6. QED
    BY <2>3, <2>4, <2>5 DEF PublicationInv
<1>5. CASE CrashPublisher(p)
  <2>1. PubsGrow
    BY <1>5 DEF CrashPublisher, PubsGrow, TypeOK
  <2>2. \A r \in Publishers : publisher'[r].enqueued \subseteq publisher[r].enqueued
    BY <1>5 DEF CrashPublisher, TypeOK, PublisherBatch, NoBatch
  <2>3. QED
    BY <1>5, <2>1, <2>2, ElsewhereKeepsPublications DEF CrashPublisher, storeVars
<1>6. QED
  BY <1>1, <1>2, <1>3, <1>4, <1>5 DEF PublisherNext

\* Of the rest, only the insertion of a dead letter is about these tables.
LEMMA OthersKeepPublications ==
    ASSUME PublicationInv, TypeOK,
           \/ \E d \in Dispatchers : DispatcherNext(d)
           \/ \E w \in Workers : WorkerNext(w)
           \/ RedisNext
           \/ UNCHANGED vars
    PROVE  PublicationInv'
<1>1. CASE \E w \in Workers : RecordDeadLetter(w)
  <2>1. /\ \A d \in Attempt : deadLetter'[d] = "replayed" => deadLetter[d] = "replayed"
        /\ UNCHANGED <<intent, enqueuedAt, replayOf, pubs, publisher>>
    BY <1>1 DEF RecordDeadLetter, InsertDeadLetter, OnWorker, TypeOK, StoreTypeOK
  <2>2. QED
    BY <2>1 DEF PublicationInv, EnqueuedIsPushed, PublicationIsReal, NoRepublication
<1>2. CASE /\ UNCHANGED <<intent, enqueuedAt, deadLetter, replayOf, pubs>>
           /\ UNCHANGED publisher
  <2>1. PubsGrow
    BY <1>2 DEF PubsGrow, TypeOK
  <2>2. QED
    BY <1>2, <2>1, ElsewhereKeepsPublications
<1>3. ASSUME NEW d \in Dispatchers, DispatcherNext(d)
      PROVE  UNCHANGED <<intent, enqueuedAt, deadLetter, replayOf, pubs, publisher>>
  BY <1>3 DEF DispatcherNext, ReserveDispatch, RouteJob, RouteJobFails, RequeueJob, AckDispatch,
     CrashDispatcher, storeVars
<1>4. ASSUME NEW w \in Workers, WorkerNext(w), ~ RecordDeadLetter(w)
      PROVE  UNCHANGED <<intent, enqueuedAt, deadLetter, replayOf, pubs, publisher>>
  BY <1>4 DEF WorkerNext, ReserveChannel, Activate, SuppressDuplicate, CallProvider, SettleSent,
     SettleFailed, SettleRetry, SettleDeadLettered, AckChannel, CrashWorker, OnWorker, storeVars,
     MarkAttemptInProgress, MarkAttemptSent, MarkAttemptFailed, ScheduleRetry,
     MarkAttemptDeadLettered, SettleAttempt
<1>5. CASE RedisNext \/ UNCHANGED vars
  BY <1>2, <1>5 DEF RedisNext, ReserveAnswerLost, RecoverJob, vars, storeVars, processVars
<1>6. QED
  BY <1>1, <1>2, <1>3, <1>4, <1>5

\* The invariant holds at the start, and every step of the pipeline keeps it.
LEMMA PublicationAtStart == Init => PublicationInv
BY DEF Init, StoreInit, NoBatch, PublisherBatch, PublicationInv, EnqueuedIsPushed,
   PublicationIsReal, NoRepublication

LEMMA PublicationNext ==
    ASSUME RowInv, PublicationInv, [Next]_vars
    PROVE  PublicationInv'
<1>1. TypeOK
  BY DEF RowInv
<1>2. CASE StoreNext
  BY <1>2, StoreKeepsPublications
<1>3. CASE \E p \in Publishers : PublisherNext(p)
  BY <1>1, <1>3, PublisherKeepsPublications
<1>4. QED
  BY <1>1, <1>2, <1>3, OthersKeepPublications DEF Next

LEMMA PublicationHolds == Spec => []PublicationInv
<1>1. WorkInv /\ PublicationInv /\ [Next]_vars => PublicationInv'
  BY PublicationNext DEF WorkInv, RowInv
<1>2. QED
  BY <1>1, PublicationAtStart, WorkCorrect, PTL DEF Spec

\* An intent is marked published, and a dead letter replayed, only if a job
\* was pushed for it (PublishIntent before MarkDispatchIntentPublished).
THEOREM PublicationsAreReal == Spec => []PublicationIsReal
BY PublicationHolds, PTL DEF PublicationInv

\* Purging an outbox row, repeating a request, retrying or replaying never
\* makes a published attempt claimable again (publishedIntentStatus).
THEOREM NothingRepublished == Spec => []NoRepublication
BY PublicationHolds, PTL DEF PublicationInv

----------------------------------------------------------------------------
(* Claims.                                                                 *)

\* A step of p that has claimed the row last, and whose push has failed.
ReleaseIsFenced ==
    \A a \in Attempt : intent[a] = "publishing" /\ intent'[a] = "pending" =>
        \E p \in Publishers : claim[a] = p /\ a \in publisher[p].failed

LEMMA StepIsFenced ==
    ASSUME RowInv, [Next]_vars
    PROVE  ReleaseIsFenced
<1> USE DEF ReleaseIsFenced
<1>0. TypeOK
  BY DEF RowInv
<1>1. CASE StoreNext
  <2>1. ASSUME NEW a \in Attempt, intent[a] = "publishing"
        PROVE  /\ InsertedIntent(a) = "publishing"
               /\ \A n \in Notifications : ~ CreateNotification(n) \/ a # Initial(n)
    BY <2>1 DEF InsertedIntent, RowInv, IntentsHaveRows, CreateNotification,
       CreateNotificationWithInitialDispatch
  <2>2. ASSUME NEW a \in Attempt, intent[a] = "publishing"
        PROVE  intent'[a] # "pending"
    <3>1. ASSUME NEW n \in Notifications, CreateNotification(n) \/ RepeatCreateNotification(n)
          PROVE  intent'[a] # "pending"
      BY <1>0, <2>1, <2>2, <3>1 DEF CreateNotification, CreateNotificationWithInitialDispatch,
         RepeatCreateNotification, EnsureInitialAttempt, TypeOK, StoreTypeOK
    <3>2. ASSUME NEW b \in Attempt, RetryDueAttempt(b)
          PROVE  intent'[a] # "pending"
      BY <1>0, <2>1, <2>2, <3>2 DEF RetryDueAttempt, EnsureRetryAttempt, TypeOK, StoreTypeOK
    <3>3. ASSUME NEW b \in Attempt, ReplayDeadLetter(b)
          PROVE  intent'[a] # "pending"
      BY <1>0, <2>1, <2>2, <3>3 DEF ReplayDeadLetter, EnsureReplayAttempt, TypeOK, StoreTypeOK
    <3>4. CASE Maintenance
      BY <2>2, <3>4 DEF Maintenance, RunMaintenance
    <3>5. QED
      BY <1>1, <3>1, <3>2, <3>3, <3>4 DEF StoreNext
  <2>3. QED
    BY <2>2
<1>2. ASSUME NEW p \in Publishers, PublisherNext(p)
      PROVE  ReleaseIsFenced
  <2>1. CASE ClaimBatch(p)
    BY <2>1 DEF ClaimBatch, ClaimPendingDispatchIntents
  <2>2. CASE MarkPublished(p)
    <3>1. PICK b \in Attempt : MarkDispatchIntentPublished(p, b)
      BY <1>0, <2>2 DEF MarkPublished, TypeOK
    <3>2. \A a \in Attempt : intent'[a] = intent[a] \/ intent'[a] = "published"
      <4>1. intent' = intent \/ intent' = [intent EXCEPT ![b] = "published"]
        BY <3>1 DEF MarkDispatchIntentPublished, storeVars
      <4>2. DOMAIN intent = Attempt
        BY <1>0 DEF TypeOK, StoreTypeOK
      <4>3. QED
        BY <4>1, <4>2
    <3>3. QED
      BY <3>2
  <2>3. CASE RecordPublishError(p)
    BY <1>0, <2>3 DEF RecordPublishError, RecordDispatchIntentError, HoldsClaim, storeVars,
       TypeOK, StoreTypeOK
  <2>4. CASE UNCHANGED intent
    BY <2>4
  <2>5. QED
    BY <1>2, <2>1, <2>2, <2>3, <2>4 DEF PublisherNext, PublishIntent, PublishIntentFails,
       CrashPublisher, storeVars
<1>3. ASSUME \/ \E d \in Dispatchers : DispatcherNext(d)
             \/ \E w \in Workers : WorkerNext(w)
             \/ RedisNext
             \/ UNCHANGED vars
      PROVE  UNCHANGED intent
  <2>1. ASSUME NEW d \in Dispatchers, DispatcherNext(d)
        PROVE  UNCHANGED intent
    BY <2>1 DEF DispatcherNext, ReserveDispatch, RouteJob, RouteJobFails, RequeueJob, AckDispatch,
       CrashDispatcher, storeVars
  <2>2. ASSUME NEW w \in Workers, WorkerNext(w)
        PROVE  UNCHANGED intent
    BY <2>2 DEF WorkerNext, ReserveChannel, Activate, SuppressDuplicate, CallProvider, SettleSent,
       SettleFailed, SettleRetry, SettleDeadLettered, RecordDeadLetter, AckChannel, CrashWorker,
       OnWorker, storeVars, MarkAttemptInProgress, MarkAttemptSent, MarkAttemptFailed,
       ScheduleRetry, MarkAttemptDeadLettered, SettleAttempt, InsertDeadLetter
  <2>3. CASE RedisNext \/ UNCHANGED vars
    BY <2>3 DEF RedisNext, ReserveAnswerLost, RecoverJob, vars, storeVars
  <2>4. QED
    BY <1>3, <2>1, <2>2, <2>3
<1>4. QED
  BY <1>1, <1>2, <1>3 DEF Next

\* A publisher that was slower than claimTimeout, or any other, never releases
\* a row that its successor has claimed (WHERE claimed_at = $3).
THEOREM ClaimsAreFenced == Spec => ClaimIsFenced
<1>1. WorkInv /\ [Next]_vars => [ReleaseIsFenced]_vars
  BY StepIsFenced DEF WorkInv, RowInv
<1>2. QED
  BY <1>1, WorkCorrect, PTL DEF Spec, ClaimIsFenced, ReleaseIsFenced

============================================================================
