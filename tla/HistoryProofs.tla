---------------------------- MODULE HistoryProofs ----------------------------
(***************************************************************************)
(* Proof that the pipeline implements AttemptHistory, for every number of  *)
(* notifications, attempts, processes and faults.                          *)
(***************************************************************************)
EXTENDS AttemptProofs, PipelineRefinement, FiniteSetTheorems, SequenceTheorems

----------------------------------------------------------------------------
(* The log of a notification, as a function of the table of attempts.      *)

Rows == [Attempt -> {"absent"} \cup AttemptStatus]

LogOf(table, n) ==
    [k \in 1 .. Cardinality({i \in 1 .. MaxNumber : table[<<n, i>>] # "absent"}) |->
        table[<<n, k>>]]

\* The attempts of n are those with the numbers 1 to m.
HasUpTo(table, n, m) ==
    \A k \in 1 .. MaxNumber : table[<<n, k>>] # "absent" <=> k <= m

\* Without a gap in the numbers, the log is the rows in their order.
LEMMA LogIsRows ==
    ASSUME NEW table \in Rows, NEW n \in Notifications, NEW m \in 0 .. MaxNumber,
           HasUpTo(table, n, m)
    PROVE  /\ LogOf(table, n) \in Seq(AttemptStatus)
           /\ Len(LogOf(table, n)) = m
           /\ \A k \in 1 .. m : LogOf(table, n)[k] = table[<<n, k>>]
<1>0. m \in Nat /\ MaxNumber \in Nat /\ 1 .. m \subseteq 1 .. MaxNumber
  BY StoreAssumption
<1>1. {i \in 1 .. MaxNumber : table[<<n, i>>] # "absent"} = 1 .. m
  BY <1>0 DEF HasUpTo
<1>2. Cardinality(1 .. m) = m
  BY <1>0, FS_Interval
<1>3. LogOf(table, n) = [k \in 1 .. m |-> table[<<n, k>>]]
  BY <1>1, <1>2 DEF LogOf
<1>4. \A k \in 1 .. m : table[<<n, k>>] \in AttemptStatus
  BY <1>0 DEF HasUpTo, Rows, Attempt
<1>5. LogOf(table, n) \in [1 .. m -> AttemptStatus]
  BY <1>3, <1>4
<1>6. LogOf(table, n) \in Seq(AttemptStatus)
  BY <1>0, <1>5, SeqDef
<1>7. 1 .. Len(LogOf(table, n)) = 1 .. m /\ Len(LogOf(table, n)) \in Nat
  BY <1>5, <1>6, LenProperties
<1>8. QED
  BY <1>0, <1>3, <1>6, <1>7

\* To update the last row is to replace the last entry.
LEMMA UpdateReplaces ==
    ASSUME NEW table \in Rows, NEW n \in Notifications, NEW m \in 1 .. MaxNumber,
           HasUpTo(table, n, m), NEW status \in AttemptStatus
    PROVE  /\ LogOf(table, n) # <<>>
           /\ Len(LogOf(table, n)) = m
           /\ LogOf(table, n)[m] = table[<<n, m>>]
           /\ LogOf([table EXCEPT ![<<n, m>>] = status], n)
                = [LogOf(table, n) EXCEPT ![m] = status]
<1> DEFINE old == LogOf(table, n)
           new == [table EXCEPT ![<<n, m>>] = status]
<1>0. m \in 0 .. MaxNumber /\ m \in Nat /\ 1 .. m \subseteq 1 .. MaxNumber /\ MaxNumber \in Nat
  BY StoreAssumption
<1>1. \A k \in 1 .. MaxNumber : <<n, k>> \in Attempt
  BY DEF Attempt
<1>2. new \in Rows /\ \A k \in 1 .. MaxNumber :
          new[<<n, k>>] = IF k = m THEN status ELSE table[<<n, k>>]
  BY <1>1 DEF Rows
<1>3. HasUpTo(new, n, m)
  BY <1>0, <1>2 DEF HasUpTo, AttemptStatus
<1>4. /\ old \in Seq(AttemptStatus) /\ Len(old) = m
      /\ \A k \in 1 .. m : old[k] = table[<<n, k>>]
  BY <1>0, LogIsRows
<1>5. /\ LogOf(new, n) \in Seq(AttemptStatus) /\ Len(LogOf(new, n)) = m
      /\ \A k \in 1 .. m : LogOf(new, n)[k] = new[<<n, k>>]
  BY <1>0, <1>2, <1>3, LogIsRows
<1> HIDE DEF old, new
<1>6. m \in 1 .. Len(old)
  BY <1>4
<1>7. /\ [old EXCEPT ![m] = status] \in Seq(AttemptStatus)
      /\ Len([old EXCEPT ![m] = status]) = m
      /\ \A k \in 1 .. m : [old EXCEPT ![m] = status][k] = IF k = m THEN status ELSE old[k]
  BY <1>4, <1>6, ExceptSeq
<1>8. \A k \in 1 .. m : LogOf(new, n)[k] = [old EXCEPT ![m] = status][k]
  BY <1>0, <1>2, <1>4, <1>5, <1>7
<1>9. LogOf(new, n) = [old EXCEPT ![m] = status]
  BY <1>5, <1>7, <1>8, SeqEqual
<1>10. old # <<>>
  BY <1>0, <1>4, EmptySeq
<1>11. QED
  BY <1>4, <1>9, <1>10 DEF old, new

\* To insert the next row is to append an entry.
LEMMA InsertAppends ==
    ASSUME NEW table \in Rows, NEW n \in Notifications, NEW m \in 0 .. MaxNumber,
           HasUpTo(table, n, m), m + 1 \in 1 .. MaxNumber, NEW status \in AttemptStatus
    PROVE  LogOf([table EXCEPT ![<<n, m + 1>>] = status], n) = Append(LogOf(table, n), status)
<1> DEFINE old == LogOf(table, n)
           new == [table EXCEPT ![<<n, m + 1>>] = status]
           appended == Append(old, status)
<1>0. m \in Nat /\ MaxNumber \in Nat /\ 1 .. m + 1 \subseteq 1 .. MaxNumber
      /\ m + 1 \in 0 .. MaxNumber
  BY StoreAssumption
<1>1. \A k \in 1 .. MaxNumber : <<n, k>> \in Attempt
  BY DEF Attempt
<1>2. new \in Rows /\ \A k \in 1 .. MaxNumber :
          new[<<n, k>>] = IF k = m + 1 THEN status ELSE table[<<n, k>>]
  BY <1>1 DEF Rows
<1>3. HasUpTo(new, n, m + 1)
  BY <1>0, <1>2 DEF HasUpTo, AttemptStatus
<1>4. /\ old \in Seq(AttemptStatus) /\ Len(old) = m
      /\ \A k \in 1 .. m : old[k] = table[<<n, k>>]
  BY LogIsRows
<1>5. /\ LogOf(new, n) \in Seq(AttemptStatus) /\ Len(LogOf(new, n)) = m + 1
      /\ \A k \in 1 .. m + 1 : LogOf(new, n)[k] = new[<<n, k>>]
  BY <1>0, <1>2, <1>3, LogIsRows
<1> HIDE DEF old, new
<1>6. /\ appended \in Seq(AttemptStatus) /\ Len(appended) = m + 1
      /\ \A k \in 1 .. m : appended[k] = old[k]
      /\ appended[m + 1] = status
  BY <1>4, AppendProperties
<1> HIDE DEF appended
<1>7. \A k \in 1 .. m + 1 : LogOf(new, n)[k] = appended[k]
  <2> SUFFICES ASSUME NEW k \in 1 .. m + 1 PROVE LogOf(new, n)[k] = appended[k]
    OBVIOUS
  <2>1. CASE k = m + 1
    BY <1>0, <1>2, <1>5, <1>6, <2>1
  <2>2. CASE k # m + 1
    <3>1. k \in 1 .. m /\ k \in 1 .. MaxNumber
      BY <1>0, <2>2
    <3>2. QED
      BY <1>2, <1>4, <1>5, <1>6, <2>2, <3>1
  <2>3. QED
    BY <2>1, <2>2
<1>8. LogOf(new, n) = appended
  BY <1>5, <1>6, <1>7, SeqEqual
<1>9. QED
  BY <1>8 DEF old, new, appended

----------------------------------------------------------------------------
(* What a step of the pipeline does to the table of attempts.              *)

\* The attempts of a notification are numbered without gaps.
LEMMA LastHasAllBefore ==
    ASSUME OneChainOfAttempts, NEW a \in Attempt, IsLast(a)
    PROVE  HasUpTo(attempt, a[1], a[2])
<1> SUFFICES ASSUME NEW k \in 1 .. MaxNumber
             PROVE  attempt[<<a[1], k>>] # "absent" <=> k <= a[2]
  BY DEF HasUpTo
<1>1. /\ a = <<a[1], a[2]>> /\ a[2] \in Nat /\ k \in Nat
      /\ <<a[1], k>> \in Attempt
  BY StoreAssumption DEF Attempt
<1>2. CASE k < a[2]
  BY <1>1, <1>2 DEF OneChainOfAttempts, IsLast, Exists
<1>3. CASE k = a[2]
  BY <1>1, <1>3 DEF IsLast, Exists
<1>4. CASE k > a[2]
  BY <1>1, <1>4 DEF IsLast, Exists
<1>5. QED
  BY <1>1, <1>2, <1>3, <1>4

\* The row of a, which is the last of its notification, changes from one
\* status to another.
Moves(a, from, to) ==
    /\ attempt[a] = from
    /\ IsLast(a)
    /\ attempt' = [attempt EXCEPT ![a] = to]

Creates(n) ==
    /\ ~ Exists(Initial(n))
    /\ attempt' = [attempt EXCEPT ![Initial(n)] = "pending"]

Retries(a) ==
    /\ Child(a) \in Attempt
    /\ attempt[a] = "retry_scheduled"
    /\ IsLast(a)
    /\ attempt' = [attempt EXCEPT ![a] = "failed", ![Child(a)] = "pending"]

Replays(d) ==
    /\ Child(d) \in Attempt
    /\ attempt[d] = "dead_lettered"
    /\ IsLast(d)
    /\ attempt' = [attempt EXCEPT ![Child(d)] = "pending"]

AttemptsMove ==
    \/ UNCHANGED attempt
    \/ \E n \in Notifications : Creates(n)
    \/ \E a \in Attempt :
          \/ Moves(a, "pending", "in_progress")
          \/ \E status \in {"sent", "failed", "retry_scheduled", "dead_lettered"} :
                Moves(a, "in_progress", status)
          \/ Retries(a)
          \/ Replays(a)

\* Transactions that insert an attempt insert it behind the last one.
LEMMA StoreMovesAttempts ==
    ASSUME ChainInv, StoreNext
    PROVE  AttemptsMove
<1>1. ASSUME NEW n \in Notifications, CreateNotification(n) \/ RepeatCreateNotification(n)
      PROVE  AttemptsMove
  BY <1>1 DEF CreateNotification, CreateNotificationWithInitialDispatch,
     RepeatCreateNotification, EnsureInitialAttempt, AttemptsMove, Creates
<1>2. ASSUME NEW a \in Attempt, RetryDueAttempt(a)
      PROVE  AttemptsMove
  <2>1. Child(a) \in Attempt
    BY <1>2, ChildInAttempt DEF RetryDueAttempt, EnsureRetryAttempt
  <2>2. attempt[a] = "retry_scheduled" => IsLast(a)
    BY LiveIsLast DEF ChainInv, Exists
  <2>3. QED
    BY <1>2, <2>1, <2>2 DEF RetryDueAttempt, EnsureRetryAttempt, AttemptsMove, Retries
<1>3. ASSUME NEW d \in Attempt, ReplayDeadLetter(d)
      PROVE  AttemptsMove
  <2>1. ASSUME NEW c \in Attempt, deadLetter[d] = "open", replayOf[d] = None, c[1] = d[1],
               IsNextNumber(c), attempt' = [attempt EXCEPT ![c] = "pending"]
        PROVE  Replays(d)
    <3>1. IsLast(d) /\ attempt[d] = "dead_lettered"
      BY <2>1 DEF ChainInv, UnreplayedIsLast, DeadLettersAreOfDeadLettered
    <3>2. c = Child(d)
      BY <2>1, <3>1, NextIsChildOfLast
    <3>3. QED
      BY <2>1, <3>1, <3>2 DEF Replays
  <2>2. QED
    BY <1>3, <2>1 DEF ReplayDeadLetter, EnsureReplayAttempt, AttemptsMove
<1>4. CASE Maintenance
  BY <1>4 DEF Maintenance, RunMaintenance, AttemptsMove
<1>5. QED
  BY <1>1, <1>2, <1>3, <1>4 DEF StoreNext

\* The compare-and-set updates find a live attempt, which is the last one.
LEMMA WorkerMovesAttempts ==
    ASSUME ChainInv, NEW w \in Workers, WorkerNext(w)
    PROVE  AttemptsMove
<1>1. CASE Activate(w) \/ SettleSent(w) \/ SettleFailed(w) \/ SettleRetry(w)
           \/ SettleDeadLettered(w)
  <2>1. worker[w] # Idle
    BY <1>1 DEF Activate, SettleSent, SettleFailed, SettleRetry, SettleDeadLettered,
                WorkerAt, Idle
  <2>2. PICK a \in Attempt : a = Target(w)
    BY <2>1, WorkerHasJob DEF ChainInv, CallInv, TypeOK, ProcessTypeOK
  <2>3. attempt[a] \in {"pending", "in_progress"} => IsLast(a)
    BY LiveIsLast DEF ChainInv, Exists
  <2>4. CASE Activate(w)
    BY <2>2, <2>3, <2>4 DEF Activate, MarkAttemptInProgress, AttemptsMove, Moves
  <2>5. CASE ~ Activate(w)
    <3>1. PICK status \in {"sent", "failed", "retry_scheduled", "dead_lettered"} :
              SettleAttempt(a, status)
      BY <1>1, <2>2, <2>5
      DEF SettleSent, SettleFailed, SettleRetry, SettleDeadLettered, MarkAttemptSent,
          MarkAttemptFailed, ScheduleRetry, MarkAttemptDeadLettered
    <3>2. Moves(a, "in_progress", status)
      BY <2>3, <3>1 DEF SettleAttempt, Moves
    <3>3. QED
      BY <3>2 DEF AttemptsMove
  <2>6. QED
    BY <2>4, <2>5
<1>2. CASE \/ SuppressDuplicate(w) \/ CallProvider(w) \/ RecordDeadLetter(w)
           \/ AckChannel(w) \/ CrashWorker(w) \/ \E j \in Job : ReserveChannel(w, j)
  BY <1>2 DEF SuppressDuplicate, CallProvider, RecordDeadLetter, InsertDeadLetter, AckChannel,
     CrashWorker, ReserveChannel, storeVars, AttemptsMove
<1>3. QED
  BY <1>1, <1>2 DEF WorkerNext

\* Publishers, dispatchers and recovery leave the attempts alone.
LEMMA StepMovesAttempts ==
    ASSUME ChainInv, [Next]_vars
    PROVE  AttemptsMove
<1>1. ASSUME NEW p \in Publishers, PublisherNext(p)
      PROVE  UNCHANGED attempt
  BY <1>1
  DEF PublisherNext, ClaimBatch, PublishIntent, PublishIntentFails, MarkPublished,
      RecordPublishError, CrashPublisher, ClaimPendingDispatchIntents,
      MarkDispatchIntentPublished, RecordDispatchIntentError, storeVars
<1>2. ASSUME NEW d \in Dispatchers, DispatcherNext(d)
      PROVE  UNCHANGED attempt
  BY <1>2 DEF DispatcherNext, ReserveDispatch, RouteJob, RouteJobFails, RequeueJob, AckDispatch,
     CrashDispatcher, storeVars
<1>3. CASE RedisNext \/ UNCHANGED vars
  BY <1>3 DEF RedisNext, ReserveAnswerLost, RecoverJob, vars, storeVars, AttemptsMove
<1>4. QED
  BY <1>1, <1>2, <1>3, StoreMovesAttempts, WorkerMovesAttempts DEF Next, AttemptsMove

----------------------------------------------------------------------------
(* What that does to the logs.                                             *)

Logs == [n \in Notifications |-> LogOf(attempt, n)]

\* The refinement mapping.
LEMMA LogsAreMapped ==
    /\ Logs = [n \in Notifications |-> AttemptLog(n)]
    /\ Logs' = [n \in Notifications |-> AttemptLog(n)']
BY DEF Logs, LogOf, AttemptLog, Numbers, Exists

\* A log depends on the rows of its notification only.
LEMMA SameRowsSameLog ==
    ASSUME NEW table \in Rows, NEW other \in Rows, NEW n \in Notifications,
           \A k \in 1 .. MaxNumber : table[<<n, k>>] = other[<<n, k>>]
    PROVE  LogOf(table, n) = LogOf(other, n)
<1> DEFINE numbers == {i \in 1 .. MaxNumber : table[<<n, i>>] # "absent"}
           size == Cardinality(numbers)
<1>1. numbers = {i \in 1 .. MaxNumber : other[<<n, i>>] # "absent"}
  OBVIOUS
<1>2. IsFiniteSet(1 .. MaxNumber) /\ Cardinality(1 .. MaxNumber) = MaxNumber
  BY StoreAssumption, FS_Interval
<1>3. IsFiniteSet(numbers) /\ size <= MaxNumber
  BY <1>2, FS_Subset
<1>4. size \in Nat
  BY <1>3, FS_CardinalityType
<1> HIDE DEF size
<1>5. 1 .. size \subseteq 1 .. MaxNumber
  BY <1>3, <1>4, StoreAssumption
<1>6. [k \in 1 .. size |-> table[<<n, k>>]] = [k \in 1 .. size |-> other[<<n, k>>]]
  BY <1>5
<1>7. QED
  BY <1>1, <1>6 DEF LogOf, size

\* Only the log of the notification whose rows change changes.
LEMMA OneLogChanges ==
    ASSUME attempt \in Rows, attempt' \in Rows, NEW n \in Notifications,
           \A a \in Attempt : a[1] # n => attempt'[a] = attempt[a]
    PROVE  Logs' = [Logs EXCEPT ![n] = LogOf(attempt', n)]
<1>1. ASSUME NEW m \in Notifications \ {n}
      PROVE  LogOf(attempt', m) = LogOf(attempt, m)
  <2>1. \A k \in 1 .. MaxNumber : attempt'[<<m, k>>] = attempt[<<m, k>>]
    BY DEF Attempt
  <2>2. QED
    BY <2>1, SameRowsSameLog
<1>2. Logs' = [m \in Notifications |-> LogOf(attempt', m)]
  BY DEF Logs, LogOf
<1>3. QED
  BY <1>1, <1>2 DEF Logs

\* A notification without an initial attempt has an empty log.
LEMMA CreationIsAccepted ==
    ASSUME ChainInv, ChainInv', NEW n \in Notifications, Creates(n)
    PROVE  History!Accept(n)
<1>1. attempt \in Rows /\ attempt' \in Rows
  BY DEF ChainInv, CallInv, TypeOK, StoreTypeOK, Rows
<1>2. Initial(n) \in Attempt /\ Initial(n) = <<n, 1>> /\ 1 \in 1 .. MaxNumber
  BY InitialInAttempt, StoreAssumption DEF Initial
<1>3. HasUpTo(attempt, n, 0)
  BY NoneWithoutInitial DEF HasUpTo, ChainInv, Creates, Exists, Attempt
<1>4. /\ LogOf(attempt, n) \in Seq(AttemptStatus)
      /\ Len(LogOf(attempt, n)) = 0
  BY <1>1, <1>3, LogIsRows, StoreAssumption
<1>5. LogOf(attempt, n) = <<>>
  BY <1>4, EmptySeq
<1>6. LogOf(attempt', n) = Append(<<>>, "pending")
  <2>1. attempt' = [attempt EXCEPT ![<<n, 0 + 1>>] = "pending"]
    BY <1>2 DEF Creates
  <2>2. 0 + 1 \in 1 .. MaxNumber /\ 0 \in 0 .. MaxNumber /\ "pending" \in AttemptStatus
    BY StoreAssumption DEF AttemptStatus
  <2>3. LogOf([attempt EXCEPT ![<<n, 0 + 1>>] = "pending"], n)
          = Append(LogOf(attempt, n), "pending")
    BY <1>1, <1>3, <2>2, InsertAppends, Zenon
  <2>4. QED
    BY <1>5, <2>1, <2>3
<1>7. LogOf(attempt', n) = <<"pending">>
  BY <1>6
<1>8. Logs' = [Logs EXCEPT ![n] = <<"pending">>]
  <2>1. \A b \in Attempt : b[1] # n => attempt'[b] = attempt[b]
    BY <1>1, <1>2 DEF Creates, Rows
  <2>2. QED
    BY <1>1, <1>7, <2>1, OneLogChanges
<1>9. Logs[n] = <<>>
  BY <1>5 DEF Logs
<1>10. QED
  BY <1>8, <1>9, LogsAreMapped DEF History!Accept

\* The log before and after the last attempt moves.
LEMMA MoveReplaces ==
    ASSUME ChainInv, ChainInv', NEW a \in Attempt, NEW from \in AttemptStatus,
           NEW to \in AttemptStatus, Moves(a, from, to)
    PROVE  /\ Logs[a[1]] # <<>> /\ Logs[a[1]][Len(Logs[a[1]])] = from
           /\ Logs' = [Logs EXCEPT ![a[1]] = [Logs[a[1]] EXCEPT ![Len(Logs[a[1]])] = to]]
<1> DEFINE n == a[1]
           m == a[2]
<1>1. attempt \in Rows /\ attempt' \in Rows
  BY DEF ChainInv, CallInv, TypeOK, StoreTypeOK, Rows
<1>2. a = <<n, m>> /\ n \in Notifications /\ m \in 1 .. MaxNumber
  BY DEF Attempt
<1>3. HasUpTo(attempt, n, m)
  BY LastHasAllBefore DEF ChainInv, Moves
<1>4. attempt' = [attempt EXCEPT ![<<n, m>>] = to]
  BY <1>2 DEF Moves
<1> HIDE DEF n, m
<1>5. /\ LogOf(attempt, n) # <<>> /\ Len(LogOf(attempt, n)) = m
      /\ LogOf(attempt, n)[m] = attempt[<<n, m>>]
      /\ LogOf(attempt', n) = [LogOf(attempt, n) EXCEPT ![m] = to]
  <2>1. /\ LogOf(attempt, n) # <<>> /\ Len(LogOf(attempt, n)) = m
        /\ LogOf(attempt, n)[m] = attempt[<<n, m>>]
        /\ LogOf([attempt EXCEPT ![<<n, m>>] = to], n) = [LogOf(attempt, n) EXCEPT ![m] = to]
    BY <1>1, <1>2, <1>3, UpdateReplaces
  <2>2. QED
    BY <1>4, <2>1
<1>6. Logs[n] = LogOf(attempt, n)
  BY <1>2 DEF Logs
<1>7. \A b \in Attempt : b[1] # n => attempt'[b] = attempt[b]
  BY <1>2, <1>4
<1>8. Logs' = [Logs EXCEPT ![n] = LogOf(attempt', n)]
  BY <1>1, <1>2, <1>7, OneLogChanges
<1>9. attempt[<<n, m>>] = from
  BY <1>2 DEF Moves
<1>10. QED
  BY <1>5, <1>6, <1>8, <1>9 DEF n

\* A child is appended to the log.
LEMMA ChildAppends ==
    ASSUME ChainInv, ChainInv', NEW a \in Attempt, Child(a) \in Attempt, IsLast(a),
           NEW to \in AttemptStatus,
           attempt' = [attempt EXCEPT ![a] = to, ![Child(a)] = "pending"]
    PROVE  LET n == a[1] IN
           /\ Logs[n] # <<>> /\ Logs[n][Len(Logs[n])] = attempt[a]
           /\ Logs' = [Logs EXCEPT ![n] =
                          Append([Logs[n] EXCEPT ![Len(Logs[n])] = to], "pending")]
<1> DEFINE n == a[1]
           m == a[2]
           middle == [attempt EXCEPT ![a] = to]
<1>1. attempt \in Rows /\ attempt' \in Rows /\ middle \in Rows
  BY DEF ChainInv, CallInv, TypeOK, StoreTypeOK, Rows
<1>2. /\ a = <<n, m>> /\ n \in Notifications /\ m \in 1 .. MaxNumber
      /\ Child(a) = <<n, m + 1>> /\ m + 1 \in 1 .. MaxNumber
  BY DEF Attempt, Child
<1>3. HasUpTo(attempt, n, m)
  BY LastHasAllBefore DEF ChainInv
<1>4. HasUpTo(middle, n, m)
  <2>1. \A k \in 1 .. MaxNumber : <<n, k>> \in Attempt
    BY <1>2 DEF Attempt
  <2>2. \A k \in 1 .. MaxNumber :
            middle[<<n, k>>] = IF k = m THEN to ELSE attempt[<<n, k>>]
    BY <1>1, <1>2, <2>1 DEF Rows
  <2>3. to # "absent" /\ m <= m
    BY <1>2 DEF AttemptStatus
  <2>4. QED
    BY <1>2, <1>3, <2>2, <2>3 DEF HasUpTo
<1>5. /\ attempt' = [middle EXCEPT ![<<n, m + 1>>] = "pending"]
      /\ middle = [attempt EXCEPT ![<<n, m>>] = to]
  BY <1>2
<1> HIDE DEF n, m, middle
<1>6. /\ LogOf(attempt, n) # <<>> /\ Len(LogOf(attempt, n)) = m
      /\ LogOf(attempt, n)[m] = attempt[<<n, m>>]
      /\ LogOf(middle, n) = [LogOf(attempt, n) EXCEPT ![m] = to]
  <2>1. /\ LogOf(attempt, n) # <<>> /\ Len(LogOf(attempt, n)) = m
        /\ LogOf(attempt, n)[m] = attempt[<<n, m>>]
        /\ LogOf([attempt EXCEPT ![<<n, m>>] = to], n)
             = [LogOf(attempt, n) EXCEPT ![m] = to]
    <3>1. attempt \in Rows /\ n \in Notifications /\ m \in 1 .. MaxNumber
          /\ to \in AttemptStatus
      BY <1>1, <1>2
    <3>2. QED
      BY ONLY <1>3, <3>1, UpdateReplaces
  <2>2. QED
    BY <1>5, <2>1
<1>7. LogOf(attempt', n) = Append(LogOf(middle, n), "pending")
  <2>1. m \in 0 .. MaxNumber /\ "pending" \in AttemptStatus
    BY <1>2, StoreAssumption DEF AttemptStatus
  <2>2. LogOf([middle EXCEPT ![<<n, m + 1>>] = "pending"], n) = Append(LogOf(middle, n), "pending")
    BY <1>1, <1>2, <1>4, <2>1, InsertAppends
  <2>3. QED
    BY <1>5, <2>2
<1>8. Logs[n] = LogOf(attempt, n)
  BY <1>2 DEF Logs
<1>9. \A b \in Attempt : b[1] # n => attempt'[b] = attempt[b]
  BY <1>1, <1>2, <1>5 DEF Rows, n
<1>10. Logs' = [Logs EXCEPT ![n] = LogOf(attempt', n)]
  BY <1>1, <1>2, <1>9, OneLogChanges
<1>11. QED
  BY <1>2, <1>6, <1>7, <1>8, <1>10 DEF n

----------------------------------------------------------------------------
(* The refinement.                                                         *)

\* Each way in which the table of attempts changes is a step of AttemptHistory
\* or leaves the logs as they are.
LEMMA MovesAreHistory ==
    ASSUME ChainInv, ChainInv', AttemptsMove
    PROVE  History!Next \/ UNCHANGED Logs
<1>1. CASE UNCHANGED attempt
  BY <1>1 DEF Logs, LogOf
<1>2. ASSUME NEW n \in Notifications, Creates(n)
      PROVE  History!Next
  BY <1>2, CreationIsAccepted DEF History!Next
<1>3. ASSUME NEW a \in Attempt, Moves(a, "pending", "in_progress")
      PROVE  History!Next
  <2>1. /\ Logs[a[1]] # <<>> /\ Logs[a[1]][Len(Logs[a[1]])] = "pending"
        /\ Logs' = [Logs EXCEPT ![a[1]] = [Logs[a[1]] EXCEPT ![Len(Logs[a[1]])] = "in_progress"]]
    BY <1>3, MoveReplaces DEF AttemptStatus
  <2>2. History!Activate(a[1])
    BY <2>1, LogsAreMapped DEF History!Activate, History!LastIs, History!Replace
  <2>3. QED
    BY <2>2 DEF History!Next, Attempt
<1>4. ASSUME NEW a \in Attempt, NEW status \in History!Outcome, Moves(a, "in_progress", status)
      PROVE  History!Next
  <2>1. /\ Logs[a[1]] # <<>> /\ Logs[a[1]][Len(Logs[a[1]])] = "in_progress"
        /\ Logs' = [Logs EXCEPT ![a[1]] = [Logs[a[1]] EXCEPT ![Len(Logs[a[1]])] = status]]
    BY <1>4, MoveReplaces DEF AttemptStatus, History!Outcome
  <2>2. History!Settle(a[1])
    BY <2>1, LogsAreMapped DEF History!Settle, History!LastIs, History!Replace
  <2>3. QED
    BY <2>2 DEF History!Next, Attempt
<1>5. ASSUME NEW a \in Attempt, Retries(a)
      PROVE  History!Next
  <2>1. LET n == a[1] IN
        /\ Logs[n] # <<>> /\ Logs[n][Len(Logs[n])] = "retry_scheduled"
        /\ Logs' = [Logs EXCEPT ![n] =
                       Append([Logs[n] EXCEPT ![Len(Logs[n])] = "failed"], "pending")]
    BY <1>5, ChildAppends DEF Retries, AttemptStatus
  <2>2. History!Retry(a[1])
    BY <2>1, LogsAreMapped DEF History!Retry, History!LastIs, History!Replace
  <2>3. QED
    BY <2>2 DEF History!Next, Attempt
<1>6. ASSUME NEW a \in Attempt, Replays(a)
      PROVE  History!Next
  <2>1. /\ attempt \in Rows /\ a[1] \in Notifications /\ a[2] \in 1 .. MaxNumber
        /\ a = <<a[1], a[2]>>
    BY DEF ChainInv, CallInv, TypeOK, StoreTypeOK, Rows, Attempt
  <2>2. attempt' = [attempt EXCEPT ![a] = "dead_lettered", ![Child(a)] = "pending"]
    <3>1. [attempt EXCEPT ![a] = "dead_lettered"] = attempt
      BY <1>6, <2>1 DEF Replays, Rows
    <3>2. QED
      BY <1>6, <3>1 DEF Replays
  <2>3. LET n == a[1] IN
        /\ Logs[n] # <<>> /\ Logs[n][Len(Logs[n])] = "dead_lettered"
        /\ Logs' = [Logs EXCEPT ![n] =
                       Append([Logs[n] EXCEPT ![Len(Logs[n])] = "dead_lettered"], "pending")]
    BY <1>6, <2>2, ChildAppends DEF Replays, AttemptStatus
  <2>4. [Logs[a[1]] EXCEPT ![Len(Logs[a[1]])] = "dead_lettered"] = Logs[a[1]]
    <3>1. HasUpTo(attempt, a[1], a[2])
      BY <1>6, LastHasAllBefore DEF ChainInv, Replays
    <3>2. Logs[a[1]] \in Seq(AttemptStatus)
      <4>1. a[2] \in 0 .. MaxNumber
        BY <2>1
      <4>2. LogOf(attempt, a[1]) \in Seq(AttemptStatus)
        BY <2>1, <3>1, <4>1, LogIsRows
      <4>3. QED
        BY <2>1, <4>2 DEF Logs
    <3>3. QED
      BY <2>3, <3>2
  <2>5. History!Replay(a[1])
    BY <2>3, <2>4, LogsAreMapped DEF History!Replay, History!LastIs
  <2>6. QED
    BY <2>1, <2>5 DEF History!Next
<1>7. QED
  BY <1>1, <1>2, <1>3, <1>4, <1>5, <1>6 DEF AttemptsMove, History!Outcome

LEMMA StepIsHistory ==
    ASSUME ChainInv, ChainInv', [Next]_vars
    PROVE  History!Next \/ UNCHANGED Logs
BY StepMovesAttempts, MovesAreHistory

LEMMA HistoryAtStart == Init => History!Init
<1> SUFFICES ASSUME Init PROVE History!Init
  OBVIOUS
<1>1. attempt \in Rows
  BY DEF Init, StoreInit, Rows
<1>2. \A n \in Notifications : HasUpTo(attempt, n, 0)
  BY StoreAssumption DEF HasUpTo, Init, StoreInit, Attempt
<1>3. \A n \in Notifications : LogOf(attempt, n) = <<>>
  <2> SUFFICES ASSUME NEW n \in Notifications PROVE LogOf(attempt, n) = <<>>
    OBVIOUS
  <2>1. LogOf(attempt, n) \in Seq(AttemptStatus) /\ Len(LogOf(attempt, n)) = 0
    BY <1>1, <1>2, LogIsRows, StoreAssumption
  <2>2. QED
    BY <2>1, EmptySeq
<1>4. QED
  BY <1>3, LogsAreMapped DEF History!Init, Logs

\* Outbox, queues, duplicates, recoveries and crashes do not show in the
\* history of a notification: its attempts are activated once, settled once,
\* and followed by another only through a retry or a replay.
THEOREM PipelineImplementsHistory == Spec => ImplementsHistory
<1>1. ChainInv /\ ChainInv' /\ [Next]_vars
        => [History!Next]_([n \in Notifications |-> AttemptLog(n)])
  BY StepIsHistory, LogsAreMapped
<1>2. QED
  BY <1>1, HistoryAtStart, ChainCorrect, PTL DEF Spec, ImplementsHistory, History!Spec

============================================================================
