-------------------------- MODULE SchedulingProofs --------------------------
(***************************************************************************)
(* Proofs about scheduled notifications, their reported status and         *)
(* policies, for every number of notifications, policies, scopes, clients, *)
(* attempts and faults: nothing is both promoted and cancelled, the two    *)
(* resolutions of a pause agree where they should, and recalculations that *)
(* run late overwrite no cancellation and invent no outcome.               *)
(***************************************************************************)
EXTENDS Scheduling, SequenceTheorems, TLAPS

----------------------------------------------------------------------------
(* The invariant: what the row locks of a redrive keep.                    *)

\* Cancelled notifications are not promoted.  While a redrive is between its
\* SELECT ... FOR UPDATE and its commit, it is the only one, and neither a
\* cancel request nor the scheduler has changed the row it read.
ControlInv ==
    /\ caller \in [Callers -> CallerState]
    /\ NeverCancelledAndPromoted
    /\ \A c \in Callers, n \in Notifications :
          caller[c] = Redriving(n) => n \notin promoted \cup cancelled
    /\ \A c, d \in Callers, n \in Notifications :
          caller[c] = Redriving(n) /\ caller[d] = Redriving(n) => c = d

\* A redrive that has its locks is told from every other state of a caller.
LEMMA RedrivingIsDistinct ==
    ASSUME NEW n
    PROVE  /\ \A m : Redriving(m) = Redriving(n) => m = n
           /\ Idle # Redriving(n)
           /\ \A m : Delivering(m) # Redriving(n)
           /\ \A todo, then : Committed(todo, then) # Redriving(n)
           /\ \A x : x.at # "redriving" => x # Redriving(n)
<1>1. Redriving(n).at = "redriving" /\ Redriving(n).of = n
  BY DEF Redriving
<1>2. \A m : Redriving(m).of = m
  BY DEF Redriving
<1>3. Idle.at = "idle"
  BY DEF Idle
<1>4. \A m : Delivering(m).at = "delivering"
  BY DEF Delivering
<1>5. \A todo, then : Committed(todo, then).at = "committed"
  BY DEF Committed
<1>6. QED
  BY <1>1, <1>2, <1>3, <1>4, <1>5

\* Steps of callers that do not take or use the locks of a redrive.
LEMMA OtherCallers ==
    ASSUME ControlInv, NEW c \in Callers, NEW x \in CallerState,
           caller' = [caller EXCEPT ![c] = x],
           \A n \in Notifications : x # Redriving(n),
           UNCHANGED <<promoted, cancelled>>
    PROVE  ControlInv'
<1>1. /\ caller' \in [Callers -> CallerState]
      /\ \A d \in Callers : caller'[d] = IF d = c THEN x ELSE caller[d]
  BY DEF ControlInv
<1>2. \A d \in Callers, n \in Notifications :
          caller'[d] = Redriving(n) => caller[d] = Redriving(n)
  BY <1>1
<1>3. QED
  BY <1>1, <1>2 DEF ControlInv, NeverCancelledAndPromoted, Redriving

LEMMA CommittedIsState ==
    \A todo \in SUBSET Notifications, then \in AfterCommit : Committed(todo, then) \in CallerState
BY DEF Committed, CallerState

\* A transaction that changes neither promoted_at nor cancelled_at.
LEMMA CommitsKeepControl ==
    ASSUME ControlInv, NEW c \in Callers, NEW todo \in SUBSET Notifications,
           NEW then \in AfterCommit, Commits(c, todo, then), UNCHANGED <<promoted, cancelled>>
    PROVE  ControlInv'
<1>1. \A n \in Notifications : Committed(todo, then) # Redriving(n)
  BY RedrivingIsDistinct
<1>2. caller' = [caller EXCEPT ![c] = Committed(todo, then)]
  BY DEF Commits
<1>3. Committed(todo, then) \in CallerState
  BY CommittedIsState
<1>4. QED
  BY <1>1, <1>2, <1>3, OtherCallers

\* A call that ends without more to do.
LEMMA EndingKeepsControl ==
    ASSUME ControlInv, NEW c \in Callers, caller' = [caller EXCEPT ![c] = Idle],
           UNCHANGED <<promoted, cancelled>>
    PROVE  ControlInv'
<1>1. \A n \in Notifications : Idle # Redriving(n)
  BY RedrivingIsDistinct
<1>2. Idle \in CallerState
  BY DEF CallerState, AfterCommit
<1>3. QED
  BY <1>1, <1>2, OtherCallers

\* What a caller carries along while it recalculates.
LEMMA StateParts ==
    ASSUME NEW x \in CallerState
    PROVE  /\ x.at \in {"committed", "row read", "attempts read"} =>
                  x.todo \in SUBSET Notifications /\ x.then \in AfterCommit
           /\ x.at \in {"row read", "attempts read"} => x.of \in Notifications
<1>1. x \in AfterCommit \cup {Redriving(n) : n \in Notifications} =>
          x.at \in {"idle", "delivering", "redriving"}
  BY DEF AfterCommit, Idle, Delivering, Redriving
<1>2. QED
  BY <1>1 DEF CallerState

----------------------------------------------------------------------------
(* The actions.                                                            *)

\* The transactions of clients.
LEMMA ClientsKeepControl ==
    ASSUME ControlInv, NEW c \in Clients, ClientNext(c)
    PROVE  ControlInv'
<1> PICK n \in Notifications :
        \/ CreateNotification(c, n)
        \/ EnsureInitialAttempt(c, n)
        \/ SelectForRedrive(c, n)
        \/ RedriveNotification(c, n)
        \/ MarkAttemptInProgress(c, n)
        \/ Settle(c, n)
        \/ InsertAttempt(c, n)
  BY DEF ClientNext
<1> c \in Callers
  BY DEF Callers
<1>0. /\ \A m, todo, then : Committed(todo, then) # Redriving(m)
      /\ {n} \in SUBSET Notifications /\ Idle \in AfterCommit /\ Delivering(n) \in AfterCommit
      /\ Committed({n}, Idle) \in CallerState
  BY RedrivingIsDistinct, CommittedIsState DEF AfterCommit
<1>1. CASE CreateNotification(c, n)
  <2>1. CASE UNCHANGED caller
    BY <1>1, <2>1 DEF CreateNotification, ControlInv, NeverCancelledAndPromoted, Redriving
  <2>2. CASE Commits(c, {n}, Idle)
    BY <1>0, <1>1, <2>2, CommitsKeepControl DEF CreateNotification
  <2>3. QED
    BY <1>1, <2>1, <2>2 DEF CreateNotification
<1>2. CASE EnsureInitialAttempt(c, n)
  BY <1>0, <1>2, CommitsKeepControl DEF EnsureInitialAttempt
<1>3. CASE SelectForRedrive(c, n)
  <2>1. \A d \in Callers : caller'[d] = IF d = c THEN Redriving(n) ELSE caller[d]
    BY <1>3 DEF SelectForRedrive, ControlInv
  <2>2. caller' \in [Callers -> CallerState]
    BY <1>3 DEF SelectForRedrive, ControlInv, CallerState
  <2>3. n \notin promoted \cup cancelled /\ \A d \in Callers : caller[d] # Redriving(n)
    BY <1>3 DEF SelectForRedrive, Locked
  <2>4. UNCHANGED <<promoted, cancelled>>
    BY <1>3 DEF SelectForRedrive, rows
  <2>5. \A m \in Notifications : Redriving(m) = Redriving(n) => m = n
    BY RedrivingIsDistinct
  <2>6. \A d \in Callers, m \in Notifications :
            caller'[d] = Redriving(m) => \/ d = c /\ m = n
                                         \/ d # c /\ m # n /\ caller[d] = Redriving(m)
    BY <2>1, <2>3, <2>5
  <2>7. QED
    BY <2>2, <2>3, <2>4, <2>6 DEF ControlInv, NeverCancelledAndPromoted, Redriving
<1>4. CASE RedriveNotification(c, n)
  <2>1. CASE promoted' = promoted \cup {n} /\ Commits(c, {n}, Idle)
    <3>1. caller[c] = Redriving(n) /\ cancelled' = cancelled
      BY <1>4 DEF RedriveNotification
    <3>2. n \notin cancelled
      BY <3>1 DEF ControlInv
    <3>3. \A d \in Callers : caller'[d] = IF d = c THEN Committed({n}, Idle) ELSE caller[d]
      BY <2>1 DEF Commits, ControlInv
    <3>4. caller' \in [Callers -> CallerState]
      BY <1>0, <2>1 DEF Commits, ControlInv
    <3>5. \A d \in Callers, m \in Notifications :
              caller'[d] = Redriving(m) => d # c /\ caller[d] = Redriving(m)
      BY <1>0, <3>3
    <3>6. \A d \in Callers, m \in Notifications :
              caller'[d] = Redriving(m) => caller[d] = Redriving(m) /\ m # n
      BY <3>1, <3>5 DEF ControlInv
    <3>7. QED
      BY <2>1, <3>1, <3>2, <3>4, <3>6 DEF ControlInv, NeverCancelledAndPromoted, Redriving
  <2>2. CASE caller' = [caller EXCEPT ![c] = Idle] /\ UNCHANGED promoted
    BY <1>4, <2>2, EndingKeepsControl DEF RedriveNotification
  <2>3. QED
    BY <1>4, <2>1, <2>2 DEF RedriveNotification
<1>5. CASE MarkAttemptInProgress(c, n)
  BY <1>0, <1>5, CommitsKeepControl DEF MarkAttemptInProgress
<1>6. CASE Settle(c, n)
  BY <1>0, <1>6, CommitsKeepControl DEF Settle
<1>7. CASE InsertAttempt(c, n)
  BY <1>0, <1>7, CommitsKeepControl DEF InsertAttempt
<1>8. QED
  BY <1>1, <1>2, <1>3, <1>4, <1>5, <1>6, <1>7

\* The scheduler skips rows that a redrive has locked.
LEMMA PromotionKeepsControl ==
    ASSUME ControlInv, PromoteDueScheduledNotifications
    PROVE  ControlInv'
<1> DEFINE ns == {n \in Notifications : Promotable(n) /\ ~ Locked(n)}
<1>1. /\ promoted' = promoted \cup ns
      /\ cancelled' = cancelled
      /\ caller' = [caller EXCEPT ![Scheduler] = Committed(ns, Idle)]
  BY DEF PromoteDueScheduledNotifications, Commits
<1>2. \A n \in ns : n \notin cancelled /\ \A c \in Callers : caller[c] # Redriving(n)
  BY DEF Promotable, Locked
<1>3. Committed(ns, Idle) \in CallerState /\ \A n : Committed(ns, Idle) # Redriving(n)
  BY RedrivingIsDistinct, CommittedIsState DEF AfterCommit
<1> HIDE DEF ns
<1>4. /\ caller' \in [Callers -> CallerState]
      /\ \A c \in Callers : caller'[c] = IF c = Scheduler THEN Committed(ns, Idle) ELSE caller[c]
  BY <1>1, <1>3 DEF ControlInv, Callers
<1>5. \A c \in Callers, n \in Notifications :
          caller'[c] = Redriving(n) => caller[c] = Redriving(n) /\ n \notin ns
  BY <1>2, <1>3, <1>4
<1>6. QED
  BY <1>1, <1>2, <1>4, <1>5 DEF ControlInv, NeverCancelledAndPromoted, Redriving

\* A cancel request waits for the locks and then finds the row promoted.
LEMMA CancellationKeepsControl ==
    ASSUME ControlInv, NEW n \in Notifications, CancelScheduledNotification(n)
    PROVE  ControlInv'
<1>1. /\ n \notin promoted
      /\ \A c \in Callers : caller[c] # Redriving(n)
      /\ cancelled' = cancelled \cup {n}
      /\ UNCHANGED <<promoted, caller>>
  BY DEF CancelScheduledNotification, Locked
<1>2. QED
  BY <1>1 DEF ControlInv, NeverCancelledAndPromoted, Redriving

\* Recalculations and failed calls.
LEMMA RecalculationKeepsControl ==
    ASSUME ControlInv, NEW c \in Callers,
           RecalculateNotificationStatus(c) \/ CallFails(c)
    PROVE  ControlInv'
<1>0. \A x : x.at # "redriving" => \A n \in Notifications : x # Redriving(n)
  BY RedrivingIsDistinct
<1>1. CASE ReadRow(c)
  <2>1. PICK n \in caller[c].todo :
          caller' = [caller EXCEPT ![c] =
                        [at |-> "row read", of |-> n, promoted |-> n \in promoted,
                         cancelled |-> n \in cancelled, todo |-> @.todo \ {n}, then |-> @.then]]
    BY <1>1 DEF ReadRow
  <2> DEFINE p == n \in promoted
             q == n \in cancelled
             x == [at |-> "row read", of |-> n, promoted |-> p, cancelled |-> q,
                   todo |-> caller[c].todo \ {n}, then |-> caller[c].then]
  <2>2. caller[c].todo \in SUBSET Notifications /\ caller[c].then \in AfterCommit
    BY <1>1, StateParts DEF ReadRow, ControlInv
  <2>3. caller' = [caller EXCEPT ![c] = x] /\ UNCHANGED <<promoted, cancelled>>
    BY <1>1, <2>1 DEF ReadRow, rows
  <2>4. p \in BOOLEAN /\ q \in BOOLEAN
    OBVIOUS
  <2> HIDE DEF p, q
  <2>5. x \in CallerState /\ x.at # "redriving"
    BY <2>2, <2>4 DEF CallerState
  <2> HIDE DEF x
  <2>6. QED
    BY <1>0, <2>3, <2>5, OtherCallers
<1>2. CASE ReadAttempts(c)
  <2> DEFINE n == caller[c].of
             new == IF caller[c].cancelled THEN "cancelled"
                    ELSE IF due[n] = "later" /\ ~ caller[c].promoted THEN "scheduled"
                    ELSE deriveNotificationStatus(Attempts(n))
             x == [at |-> "attempts read", of |-> n, status |-> new,
                   todo |-> caller[c].todo, then |-> caller[c].then]
  <2>1. new \in NotificationStatus
    BY DEF deriveNotificationStatus, NotificationStatus, Rollup
  <2>2. caller' = [caller EXCEPT ![c] = x] /\ UNCHANGED <<promoted, cancelled>>
    BY <1>2 DEF ReadAttempts, rows
  <2>3. /\ caller[c].of \in Notifications
        /\ caller[c].todo \in SUBSET Notifications /\ caller[c].then \in AfterCommit
    BY <1>2, StateParts DEF ReadAttempts, ControlInv
  <2> HIDE DEF new
  <2>4. x \in CallerState /\ x.at # "redriving"
    BY <2>1, <2>3 DEF CallerState
  <2> HIDE DEF x
  <2>5. QED
    BY <1>0, <2>2, <2>4, OtherCallers
<1>3. CASE WriteStatus(c)
  <2>1. caller[c].todo \in SUBSET Notifications /\ caller[c].then \in AfterCommit
    BY <1>3, StateParts DEF WriteStatus, ControlInv
  <2> DEFINE x == IF caller[c].todo = {} THEN caller[c].then
                                         ELSE Committed(caller[c].todo, caller[c].then)
  <2>2. caller' = [caller EXCEPT ![c] = x] /\ UNCHANGED <<promoted, cancelled>>
    BY <1>3 DEF WriteStatus
  <2>3. x \in CallerState
    BY <2>1, CommittedIsState DEF CallerState
  <2>4. \A n \in Notifications : x # Redriving(n)
    BY <2>1, RedrivingIsDistinct DEF AfterCommit
  <2> HIDE DEF x
  <2>5. QED
    BY <2>2, <2>3, <2>4, OtherCallers
<1>4. CASE CallFails(c)
  BY <1>4, EndingKeepsControl DEF CallFails, rows
<1>5. QED
  BY <1>1, <1>2, <1>3, <1>4 DEF RecalculateNotificationStatus

LEMMA StepKeepsControl == ControlInv /\ [Next]_vars => ControlInv'
<1> SUFFICES ASSUME ControlInv, [Next]_vars PROVE ControlInv'
  OBVIOUS
<1>1. ASSUME NEW c \in Clients, ClientNext(c) PROVE ControlInv'
  BY <1>1, ClientsKeepControl
<1>2. CASE PromoteDueScheduledNotifications
  BY <1>2, PromotionKeepsControl
<1>3. ASSUME NEW c \in Callers, RecalculateNotificationStatus(c) \/ CallFails(c)
      PROVE  ControlInv'
  BY <1>3, RecalculationKeepsControl
<1>4. ASSUME NEW n \in Notifications, CancelScheduledNotification(n) PROVE ControlInv'
  BY <1>4, CancellationKeepsControl
<1>5. ASSUME UNCHANGED <<promoted, cancelled, caller>> PROVE ControlInv'
  BY <1>5 DEF ControlInv, NeverCancelledAndPromoted, Redriving
<1>6. ASSUME NEW n \in Notifications, PublishIntent(n) \/ Maintenance(n) \/ ComesDue(n)
      PROVE  ControlInv'
  BY <1>5, <1>6 DEF PublishIntent, Maintenance, ComesDue
<1>7. ASSUME NEW p \in Policies, UpsertPolicy(p) \/ SetDeliveryPolicyPaused(p)
      PROVE  ControlInv'
  BY <1>5, <1>7 DEF UpsertPolicy, SetDeliveryPolicyPaused, rows
<1>8. CASE UNCHANGED vars
  BY <1>5, <1>8 DEF vars
<1>9. QED
  BY <1>1, <1>2, <1>3, <1>4, <1>6, <1>7, <1>8 DEF Next

LEMMA ControlAtStart == Init => ControlInv
<1> SUFFICES ASSUME Init PROVE ControlInv
  OBVIOUS
<1>1. \A n : Idle # Redriving(n)
  BY RedrivingIsDistinct
<1>2. Idle \in CallerState
  BY DEF CallerState, AfterCommit
<1>3. QED
  BY <1>1, <1>2 DEF Init, ControlInv, NeverCancelledAndPromoted

\* However cancel requests, redrives and runs of the scheduler interleave and
\* fail, no notification is both promoted and cancelled
\* (CancelScheduledNotification, RedriveNotification,
\* PromoteDueScheduledNotifications).
THEOREM ControlCorrect == Spec => []NeverCancelledAndPromoted
<1>1. ControlInv => NeverCancelledAndPromoted
  BY DEF ControlInv
<1>2. QED
  BY <1>1, ControlAtStart, StepKeepsControl, PTL DEF Spec

----------------------------------------------------------------------------
(* Policies.                                                               *)

\* For all policies: the COALESCE of the claim and the promotion, and the rows
\* that ResolveDeliveryPolicy applies one over the other, give the same pause
\* if each combination of tenant and channel has at most one row.
LEMMA PausesAgree == TypeOK => ResolutionsAgree
<1> SUFFICES ASSUME TypeOK,
                    \A i, j \in DOMAIN policies : policies[i].scope = policies[j].scope => i = j
             PROVE  PausedInQuery <=> PausedByPolicy
  BY DEF ResolutionsAgree
<1> DEFINE latest == {Latest(RowsOf(s)) : s \in {t \in Scopes : RowsOf(t) # {}}}
<1>1. \A i \in DOMAIN policies :
          /\ i \in Nat
          /\ policies[i].scope \in Scopes /\ policies[i].scope \in Nat
  <2> SUFFICES ASSUME NEW i \in DOMAIN policies
               PROVE  i \in Nat /\ policies[i].scope \in Scopes /\ policies[i].scope \in Nat
    OBVIOUS
  <2>1. policies \in Seq(PolicyRow)
    BY DEF TypeOK
  <2>2. i \in 1 .. Len(policies)
    BY <2>1
  <2>3. policies[i] \in PolicyRow
    BY <2>1, <2>2
  <2>4. i \in Nat
    BY <2>1, <2>2
  <2>5. policies[i].scope \in Scopes
    BY <2>3 DEF PolicyRow
  <2>6. QED
    BY <2>4, <2>5, SchedulingAssumption
<1>2. \A i \in DOMAIN policies : RowsOf(policies[i].scope) = {i}
  BY DEF RowsOf
<1>3. \A i \in DOMAIN policies : Latest(RowsOf(policies[i].scope)) = i
  BY <1>1, <1>2 DEF Latest
<1>4. \A s \in Scopes : RowsOf(s) # {} => \E i \in DOMAIN policies : policies[i].scope = s
  BY DEF RowsOf
<1>5. latest = DOMAIN policies
  <2>1. latest \subseteq DOMAIN policies
    BY <1>3, <1>4
  <2>2. ASSUME NEW i \in DOMAIN policies PROVE i \in latest
    BY <1>1, <1>2, <1>3
  <2>3. QED
    BY <2>1, <2>2
<1> DEFINE set == {i \in DOMAIN policies : policies[i].paused # "unset"}
<1>6. PausedInQuery <=> \E i \in set :
          policies[i].paused = "paused" /\ \A j \in set : policies[i].scope <= policies[j].scope
  BY <1>5 DEF PausedInQuery
<1>7. \A i, j \in set :
          policies[i].scope <= policies[j].scope
              <=> \/ policies[i].scope < policies[j].scope
                  \/ policies[i].scope = policies[j].scope /\ j <= i
  BY <1>1
<1>8. QED
  BY <1>6, <1>7 DEF PausedByPolicy

----------------------------------------------------------------------------
(* The reported status of notifications, and cancellations.                *)

\* The types that matter here; TypesCorrect below adds the other ones.
TablesOK ==
    /\ log \in [Notifications -> Seq(AttemptStatus)]
    /\ intent \in [Notifications -> Seq(OutboxRow)]
    /\ \A n \in Notifications : Len(intent[n]) = Len(log[n])
    /\ due \in [Notifications -> {"unset", "later", "now"}]
    /\ status \in [Notifications -> NotificationStatus \cup {"absent"}]
    /\ cancelled \subseteq Notifications
    /\ caller \in [Callers -> CallerState]

----------------------------------------------------------------------------
(* Logs and rows of the outbox.                                            *)

Alive == {"pending", "published", "again"}

\* A cancel request looks for such a row.
HasRows(n) == \E k \in DOMAIN intent[n] : HasRow(n, k)

\* The log of n takes a step of its history.
LogMoves(n) == History!Activate(n) \/ History!Settle(n) \/ History!Retry(n) \/ History!Replay(n)

\* A log keeps its length, or grows by one pending attempt.
LEMMA MovingLog ==
    ASSUME TablesOK, NEW n \in Notifications, LogMoves(n)
    PROVE  /\ log' \in [Notifications -> Seq(AttemptStatus)]
           /\ \A m \in Notifications : m # n => log'[m] = log[m]
           /\ Len(log[n]) \in Nat \ {0}
           /\ History!Activate(n) \/ History!Settle(n) => Len(log'[n]) = Len(log[n])
           /\ History!Retry(n) \/ History!Replay(n) => Len(log'[n]) = Len(log[n]) + 1
<1>1. log[n] \in Seq(AttemptStatus) /\ log[n] # <<>>
  BY DEF TablesOK, LogMoves, History!Activate, History!Settle, History!Retry, History!Replay,
     History!LastIs
<1>2. Len(log[n]) \in Nat \ {0} /\ Len(log[n]) \in 1 .. Len(log[n])
  BY <1>1, EmptySeq
<1>3. ASSUME NEW s \in AttemptStatus
      PROVE  /\ History!Replace(n, s) \in Seq(AttemptStatus)
             /\ Len(History!Replace(n, s)) = Len(log[n])
  BY <1>1, <1>2, ExceptSeq DEF History!Replace
<1>4. CASE History!Activate(n)
  <2>1. /\ log' = [log EXCEPT ![n] = History!Replace(n, "in_progress")]
        /\ "in_progress" \in AttemptStatus
    BY <1>4 DEF History!Activate, AttemptStatus
  <2>2. History!LastIs(n, "pending")
    BY <1>4 DEF History!Activate
  <2>3. ~ History!Retry(n) /\ ~ History!Replay(n)
    BY <2>2 DEF History!Retry, History!Replay, History!LastIs
  <2>4. QED
    BY <1>2, <1>3, <2>1, <2>3 DEF TablesOK
<1>5. CASE History!Settle(n)
  <2>1. PICK s \in AttemptStatus : log' = [log EXCEPT ![n] = History!Replace(n, s)]
    BY <1>5 DEF History!Settle, AttemptStatus
  <2>2. History!LastIs(n, "in_progress")
    BY <1>5 DEF History!Settle
  <2>3. ~ History!Retry(n) /\ ~ History!Replay(n)
    BY <2>2 DEF History!Retry, History!Replay, History!LastIs
  <2>4. QED
    BY <1>2, <1>3, <2>1, <2>3 DEF TablesOK
<1>6. CASE History!Retry(n)
  <2>1. /\ log' = [log EXCEPT ![n] = Append(History!Replace(n, "failed"), "pending")]
        /\ "failed" \in AttemptStatus /\ "pending" \in AttemptStatus
    BY <1>6 DEF History!Retry, AttemptStatus, History!Outcome
  <2>2. History!LastIs(n, "retry_scheduled")
    BY <1>6 DEF History!Retry
  <2>3. ~ History!Activate(n) /\ ~ History!Settle(n)
    BY <2>2 DEF History!Activate, History!Settle, History!LastIs
  <2>4. /\ Append(History!Replace(n, "failed"), "pending") \in Seq(AttemptStatus)
        /\ Len(Append(History!Replace(n, "failed"), "pending")) = Len(log[n]) + 1
    BY <1>3, <2>1, AppendProperties
  <2>5. QED
    BY <1>2, <2>1, <2>3, <2>4 DEF TablesOK
<1>7. CASE History!Replay(n)
  <2>1. /\ log' = [log EXCEPT ![n] = Append(log[n], "pending")]
        /\ "pending" \in AttemptStatus
    BY <1>7 DEF History!Replay, AttemptStatus
  <2>2. History!LastIs(n, "dead_lettered")
    BY <1>7 DEF History!Replay
  <2>3. ~ History!Activate(n) /\ ~ History!Settle(n)
    BY <2>2 DEF History!Activate, History!Settle, History!LastIs
  <2>4. /\ Append(log[n], "pending") \in Seq(AttemptStatus)
        /\ Len(Append(log[n], "pending")) = Len(log[n]) + 1
    BY <1>1, <2>1, AppendProperties
  <2>5. QED
    BY <1>2, <2>1, <2>3, <2>4 DEF TablesOK
<1>8. QED
  BY <1>4, <1>5, <1>6, <1>7 DEF LogMoves

\* One row of the outbox changes.
LEMMA EditedRow ==
    ASSUME TablesOK, NEW n \in Notifications, NEW k \in DOMAIN intent[n], NEW e \in OutboxRow,
           intent' = [intent EXCEPT ![n][k] = e]
    PROVE  /\ intent' \in [Notifications -> Seq(OutboxRow)]
           /\ \A m \in Notifications : Len(intent'[m]) = Len(intent[m])
           /\ e \in Alive => HasRows(n)'
           /\ \A m \in Notifications : m # n => (HasRows(m)' <=> HasRows(m))
           /\ intent[n][k] \notin Alive => \A m \in Notifications : HasRows(m) => HasRows(m)'
           /\ e \in Alive => \A m \in Notifications : HasRows(m) => HasRows(m)'
<1>1. intent[n] \in Seq(OutboxRow) /\ k \in 1 .. Len(intent[n])
  BY DEF TablesOK
<1>2. /\ [intent[n] EXCEPT ![k] = e] \in Seq(OutboxRow)
      /\ Len([intent[n] EXCEPT ![k] = e]) = Len(intent[n])
      /\ \A j \in 1 .. Len(intent[n]) :
            [intent[n] EXCEPT ![k] = e][j] = IF j = k THEN e ELSE intent[n][j]
  BY <1>1, ExceptSeq
<1>3. \A m \in Notifications :
          intent'[m] = IF m = n THEN [intent[n] EXCEPT ![k] = e] ELSE intent[m]
  BY DEF TablesOK
<1>4. intent' \in [Notifications -> Seq(OutboxRow)]
  BY <1>2 DEF TablesOK
<1>5. /\ DOMAIN intent'[n] = 1 .. Len(intent[n])
      /\ \A j \in 1 .. Len(intent[n]) : intent'[n][j] = IF j = k THEN e ELSE intent[n][j]
  BY <1>1, <1>2, <1>3
<1>6. DOMAIN intent[n] = 1 .. Len(intent[n])
  BY <1>1
<1>7. e \in Alive => HasRows(n)'
  BY <1>1, <1>5 DEF HasRows, HasRow, Alive
<1>8. \A m \in Notifications : m # n => (HasRows(m)' <=> HasRows(m))
  BY <1>3 DEF HasRows, HasRow
<1>9. intent[n][k] \notin Alive => (HasRows(n) => HasRows(n)')
  BY <1>5, <1>6 DEF HasRows, HasRow, Alive
<1>10. QED
  BY <1>2, <1>3, <1>4, <1>7, <1>8, <1>9

\* A row is added for a new attempt.
LEMMA AddedRow ==
    ASSUME TablesOK, NEW n \in Notifications, intent' = [intent EXCEPT ![n] = Append(@, "pending")]
    PROVE  /\ intent' \in [Notifications -> Seq(OutboxRow)]
           /\ \A m \in Notifications : Len(intent'[m]) = Len(intent[m]) + (IF m = n THEN 1 ELSE 0)
           /\ HasRows(n)'
           /\ \A m \in Notifications : HasRows(m) => HasRows(m)'
<1>1. intent[n] \in Seq(OutboxRow) /\ "pending" \in OutboxRow /\ Len(intent[n]) \in Nat
      /\ \A m \in Notifications : Len(intent[m]) \in Nat
  BY DEF TablesOK, OutboxRow
<1>2. /\ Append(intent[n], "pending") \in Seq(OutboxRow)
      /\ Len(Append(intent[n], "pending")) = Len(intent[n]) + 1
      /\ Append(intent[n], "pending")[Len(intent[n]) + 1] = "pending"
  BY <1>1, AppendProperties
<1>3. \A m \in Notifications :
          intent'[m] = IF m = n THEN Append(intent[n], "pending") ELSE intent[m]
  BY DEF TablesOK
<1>4. intent' \in [Notifications -> Seq(OutboxRow)]
  BY <1>2 DEF TablesOK
<1>5. HasRows(n)'
  <2>1. DOMAIN intent'[n] = 1 .. Len(intent[n]) + 1
    <3>1. DOMAIN Append(intent[n], "pending") = 1 .. Len(intent[n]) + 1
      BY <1>2, LenProperties
    <3>2. QED
      BY <1>3, <3>1
  <2>2. Len(intent[n]) + 1 \in DOMAIN intent'[n] /\ intent'[n][Len(intent[n]) + 1] = "pending"
    BY <1>1, <1>2, <1>3, <2>1
  <2>3. QED
    BY <2>2 DEF HasRows, HasRow
<1>6. \A m \in Notifications : m # n => (HasRows(m)' <=> HasRows(m))
  BY <1>3 DEF HasRows, HasRow
<1>7. QED
  BY <1>1, <1>2, <1>3, <1>4, <1>5, <1>6

----------------------------------------------------------------------------
(* The invariant: why no recalculation overwrites a cancellation.          *)

\* In state x a caller will still recalculate the status of n.
Owes(x, n) ==
    \/ x = Delivering(n)
    \/ /\ x.at \in {"committed", "row read", "attempts read"}
       /\ n \in x.todo \/ x.then = Delivering(n)
    \/ /\ x.at \in {"row read", "attempts read"}
       /\ x.of = n

\* What it has read of a cancelled n, it read after the cancellation.
SawCancelled(x, n) ==
    /\ x.at = "row read" /\ x.of = n => x.cancelled = TRUE
    /\ x.at = "attempts read" /\ x.of = n => x.status = "cancelled"

CreatedFirst ==
    \A n \in Notifications :
        n \in cancelled \/ due[n] = "later" \/ Locked(n) => Created(n)

\* Whoever is to recalculate n has committed a transaction that found or left
\* a row of the outbox, and maintenance does not purge under a call's feet.
OwedHaveRows == \A c \in Callers, n \in Notifications : Owes(caller[c], n) => HasRows(n)

\* A cancel request finds no such row.  So no recalculation is under way when
\* it commits, and later ones read cancelled_at.
CancelInv ==
    /\ ControlInv
    /\ TablesOK
    /\ CreatedFirst
    /\ OwedHaveRows
    /\ \A c \in Callers : \A n \in cancelled : SawCancelled(caller[c], n)
    /\ CancelledStaysCancelled

LEMMA OwesAfterCommit ==
    /\ \A todo, then, n : Owes(Committed(todo, then), n) => n \in todo \/ then = Delivering(n)
    /\ \A n : ~ Owes(Idle, n)
    /\ \A n, m : ~ Owes(Redriving(m), n)
    /\ \A n, m : Owes(Delivering(m), n) => m = n
    /\ \A n, m : Delivering(m) = Delivering(n) => m = n
    /\ \A n : Idle # Delivering(n)
<1>1. \A n : Delivering(n).at = "delivering" /\ Delivering(n).of = n
  BY DEF Delivering
<1>2. \A todo, then :
          /\ Committed(todo, then).at = "committed"
          /\ Committed(todo, then).todo = todo
          /\ Committed(todo, then).then = then
  BY DEF Committed
<1>3. Idle.at = "idle" /\ \A m : Redriving(m).at = "redriving"
  BY DEF Idle, Redriving
<1>4. \A todo, then, n : Owes(Committed(todo, then), n) => n \in todo \/ then = Delivering(n)
  <2> TAKE todo, then, n
  <2>1. Committed(todo, then) # Delivering(n)
    BY <1>1, <1>2
  <2>2. QED
    BY <1>2, <2>1 DEF Owes
<1>5. \A n : ~ Owes(Idle, n)
  BY <1>1, <1>3 DEF Owes
<1>6. \A n, m : ~ Owes(Redriving(m), n)
  BY <1>1, <1>3 DEF Owes
<1>7. \A n, m : Delivering(m) = Delivering(n) => m = n
  BY <1>1
<1>8. \A n, m : Owes(Delivering(m), n) => m = n
  BY <1>1, <1>7 DEF Owes
<1>9. \A n : Idle # Delivering(n)
  BY <1>1, <1>3
<1>10. QED
  BY <1>4, <1>5, <1>6, <1>7, <1>8, <1>9

\* A step of caller c that only adds rows to the outbox and cancels nothing.
LEMMA CallerStep ==
    ASSUME CancelInv, ControlInv', TablesOK', NEW c \in Callers,
           \A d \in Callers \ {c} : caller'[d] = caller[d],
           \A n \in Notifications : HasRows(n) => HasRows(n)',
           \A n \in Notifications : Created(n) => Created(n)',
           \A n \in Notifications :
               due'[n] = "later" \/ caller'[c] = Redriving(n) =>
                   due[n] = "later" \/ caller[c] = Redriving(n) \/ Created(n)',
           \A n \in Notifications :
               Owes(caller'[c], n) => Owes(caller[c], n) \/ HasRows(n)',
           UNCHANGED cancelled,
           \A n \in cancelled : SawCancelled(caller'[c], n) /\ status'[n] = status[n]
    PROVE  CancelInv'
<1>1. CreatedFirst'
  <2> SUFFICES ASSUME NEW n \in Notifications, n \in cancelled' \/ due'[n] = "later" \/ Locked(n)'
               PROVE  Created(n)'
    BY DEF CreatedFirst
  <2>1. Locked(n)' => Locked(n) \/ caller'[c] = Redriving(n)
    BY DEF Locked
  <2>2. caller[c] = Redriving(n) => Locked(n)
    BY DEF Locked
  <2>3. QED
    BY <2>1, <2>2 DEF CancelInv, CreatedFirst
<1>2. OwedHaveRows'
  BY DEF CancelInv, OwedHaveRows
<1>3. \A d \in Callers : \A n \in cancelled' : SawCancelled(caller'[d], n)
  BY DEF CancelInv
<1>4. CancelledStaysCancelled'
  BY DEF CancelInv, CancelledStaysCancelled
<1>5. QED
  BY <1>1, <1>2, <1>3, <1>4 DEF CancelInv, SawCancelled

\* A caller that commits and owes the recalculation of todo.
LEMMA CommitStep ==
    ASSUME CancelInv, ControlInv', TablesOK', NEW c \in Callers,
           NEW todo \in SUBSET Notifications, NEW then \in AfterCommit, Commits(c, todo, then),
           \A n \in Notifications : HasRows(n) => HasRows(n)',
           \A n \in Notifications : Created(n) => Created(n)',
           \A n \in Notifications : due'[n] = "later" => due[n] = "later" \/ Created(n)',
           \A n \in Notifications : n \in todo \/ then = Delivering(n) => HasRows(n)',
           UNCHANGED cancelled,
           \A n \in cancelled : status'[n] = status[n]
    PROVE  CancelInv'
<1>1. \A d \in Callers : caller'[d] = IF d = c THEN Committed(todo, then) ELSE caller[d]
  BY DEF Commits, CancelInv, TablesOK
<1>2. \A n \in Notifications : Owes(caller'[c], n) => HasRows(n)'
  BY <1>1, OwesAfterCommit
<1>3. \A n \in Notifications : caller'[c] # Redriving(n)
  BY <1>1, RedrivingIsDistinct
<1>4. \A n \in cancelled : SawCancelled(caller'[c], n)
  <2>1. caller'[c].at = "committed"
    BY <1>1 DEF Committed
  <2>2. QED
    BY <2>1 DEF SawCancelled
<1>5. QED
  BY <1>1, <1>2, <1>3, <1>4, CallerStep

\* The row of the initial attempt is there, whatever it says.
LEMMA InitialRow ==
    ASSUME TablesOK, NEW n \in Notifications, Created(n)
    PROVE  1 \in DOMAIN intent[n] /\ intent[n][1] \in OutboxRow
<1>1. log[n] \in Seq(AttemptStatus) /\ intent[n] \in Seq(OutboxRow) /\ Len(intent[n]) = Len(log[n])
  BY DEF TablesOK
<1>2. Len(log[n]) \in Nat \ {0}
  BY <1>1, EmptySeq DEF Created
<1>3. 1 \in 1 .. Len(intent[n])
  BY <1>1, <1>2
<1>4. QED
  BY <1>1, <1>3, ElementOfSeq

----------------------------------------------------------------------------
(* Clients.                                                                *)

\* The outbox row of a new notification is there unless it is for later.
LEMMA CreateKeepsCancel ==
    ASSUME CancelInv, ControlInv', NEW c \in Clients, NEW n \in Notifications,
           CreateNotification(c, n)
    PROVE  CancelInv'
<1> c \in Callers
  BY DEF Callers
<1>1. PICK first \in {"unset", "later", "now"}, second \in {"unset", "later", "now"} :
          /\ due' = [due EXCEPT ![n] = second]
          /\ status' = [status EXCEPT ![n] = IF first = "later" THEN "scheduled" ELSE "accepted"]
          /\ log' = [log EXCEPT ![n] = <<"pending">>]
          /\ intent' = [intent EXCEPT ![n] = <<IF second = "later" THEN "none" ELSE "pending">>]
          /\ IF second = "later" THEN UNCHANGED caller ELSE Commits(c, {n}, Idle)
  BY DEF CreateNotification
<1>2. ~ Created(n) /\ UNCHANGED cancelled
  BY DEF CreateNotification
<1> DEFINE e == IF second = "later" THEN "none" ELSE "pending"
<1>3. /\ e \in OutboxRow /\ (second # "later" => e = "pending")
      /\ "pending" \in AttemptStatus
      /\ (IF first = "later" THEN "scheduled" ELSE "accepted") \in NotificationStatus
  BY DEF OutboxRow, AttemptStatus, NotificationStatus, Rollup
<1>4. /\ \A m \in Notifications : intent'[m] = IF m = n THEN <<e>> ELSE intent[m]
      /\ \A m \in Notifications : log'[m] = IF m = n THEN <<"pending">> ELSE log[m]
  BY <1>1 DEF CancelInv, TablesOK
<1> HIDE DEF e
<1>5. TablesOK'
  <2>1. <<e>> \in Seq(OutboxRow) /\ Len(<<e>>) = 1 /\ <<"pending">> \in Seq(AttemptStatus)
        /\ Len(<<"pending">>) = 1
    BY <1>3
  <2>2. intent' = [intent EXCEPT ![n] = <<e>>]
    BY <1>1 DEF e
  <2>3. /\ intent' \in [Notifications -> Seq(OutboxRow)]
        /\ log' \in [Notifications -> Seq(AttemptStatus)]
    BY <1>1, <2>1, <2>2 DEF CancelInv, TablesOK
  <2>4. due' \in [Notifications -> {"unset", "later", "now"}]
    BY <1>1 DEF CancelInv, TablesOK
  <2>5. status' \in [Notifications -> NotificationStatus \cup {"absent"}]
    BY <1>1, <1>3 DEF CancelInv, TablesOK
  <2>6. \A m \in Notifications : Len(intent'[m]) = Len(log'[m])
    BY <1>4, <2>1 DEF CancelInv, TablesOK
  <2>7. QED
    BY <1>2, <2>3, <2>4, <2>5, <2>6 DEF CancelInv, TablesOK, ControlInv
<1>6. ~ HasRows(n)
  <2>1. intent[n] \in Seq(OutboxRow) /\ Len(intent[n]) = Len(log[n]) /\ log[n] = <<>>
    BY <1>2 DEF CancelInv, TablesOK, Created
  <2>2. DOMAIN intent[n] = {}
    BY <2>1
  <2>3. QED
    BY <2>2 DEF HasRows
<1>7. \A m \in Notifications : m # n => (HasRows(m)' <=> HasRows(m))
  BY <1>4 DEF HasRows, HasRow
<1>8. second # "later" => HasRows(n)'
  <2>1. second # "later" => intent'[n] = <<"pending">>
    BY <1>3, <1>4
  <2>2. intent'[n] = <<"pending">> => 1 \in DOMAIN intent'[n] /\ intent'[n][1] = "pending"
    OBVIOUS
  <2>3. QED
    BY <2>1, <2>2 DEF HasRows, HasRow
<1>9. \A m \in Notifications : Created(m)' <=> Created(m) \/ m = n
  <2>1. <<"pending">> # <<>>
    OBVIOUS
  <2>2. QED
    BY <1>4, <2>1 DEF Created
<1>10. n \notin cancelled /\ \A m \in cancelled : status'[m] = status[m]
  BY <1>1, <1>2 DEF CancelInv, CreatedFirst, TablesOK
<1>11. \A m \in Notifications : due'[m] = "later" => due[m] = "later" \/ Created(m)'
  BY <1>1, <1>9 DEF CancelInv, TablesOK
<1>12. CASE second = "later"
  <2>1. UNCHANGED caller
    BY <1>1, <1>12
  <2>2. QED
    BY <1>2, <1>5, <1>6, <1>7, <1>9, <1>10, <1>11, <2>1, CallerStep DEF CancelInv
<1>13. CASE second # "later"
  <2>1. Commits(c, {n}, Idle) /\ {n} \in SUBSET Notifications /\ Idle \in AfterCommit
    BY <1>1, <1>13 DEF AfterCommit
  <2>2. \A m : Idle # Delivering(m)
    BY OwesAfterCommit
  <2>3. \A m \in Notifications : m \in {n} \/ Idle = Delivering(m) => HasRows(m)'
    BY <1>8, <1>13, <2>2
  <2>4. QED
    BY <1>2, <1>5, <1>6, <1>7, <1>9, <1>10, <1>11, <2>1, <2>3, CommitStep
<1>14. QED
  BY <1>12, <1>13

\* A transaction that leaves a row for the initial attempt.
LEMMA EnsuredRow ==
    ASSUME CancelInv, ControlInv', NEW c \in Callers, NEW n \in Notifications, Created(n),
           NEW e \in Alive, intent' = [intent EXCEPT ![n][1] = e], Commits(c, {n}, Idle),
           UNCHANGED <<log, due, status, cancelled>>
    PROVE  CancelInv'
<1>1. 1 \in DOMAIN intent[n] /\ e \in OutboxRow
  BY InitialRow DEF CancelInv, Alive, OutboxRow
<1>2. /\ intent' \in [Notifications -> Seq(OutboxRow)]
      /\ \A m \in Notifications : Len(intent'[m]) = Len(intent[m])
      /\ HasRows(n)'
      /\ \A m \in Notifications : HasRows(m) => HasRows(m)'
  BY <1>1, EditedRow DEF CancelInv
<1>3. TablesOK'
  BY <1>2 DEF CancelInv, TablesOK, ControlInv
<1>4. {n} \in SUBSET Notifications /\ Idle \in AfterCommit
  BY DEF AfterCommit
<1>5. \A m : Idle # Delivering(m)
  BY OwesAfterCommit
<1>6. \A m \in Notifications : m \in {n} \/ Idle = Delivering(m) => HasRows(m)'
  BY <1>2, <1>5
<1>7. \A m \in Notifications : Created(m) => Created(m)'
  BY DEF Created
<1>8. QED
  BY <1>2, <1>3, <1>4, <1>6, <1>7, CommitStep

\* A step that commits for n and Delivering(n) or Idle, with a row of n there.
LEMMA DeliveryCommits ==
    ASSUME CancelInv, ControlInv', TablesOK', NEW c \in Clients, NEW n \in Notifications,
           NEW then \in {Idle, Delivering(n)}, Commits(c, {n}, then),
           HasRows(n)', \A m \in Notifications : HasRows(m) => HasRows(m)',
           \A m \in Notifications : Created(m) => Created(m)',
           UNCHANGED <<due, status, cancelled>>
    PROVE  CancelInv'
<1>1. c \in Callers /\ {n} \in SUBSET Notifications /\ then \in AfterCommit
  BY DEF Callers, AfterCommit
<1>2. \A m : then = Delivering(m) => m = n
  BY OwesAfterCommit
<1>3. \A m \in Notifications : m \in {n} \/ then = Delivering(m) => HasRows(m)'
  BY <1>2
<1>4. QED
  BY <1>1, <1>3, CommitStep

\* The attempts of n move, and what was created stays so.
LEMMA MovedTables ==
    ASSUME CancelInv, NEW n \in Notifications, LogMoves(n)
    PROVE  /\ log' \in [Notifications -> Seq(AttemptStatus)]
           /\ \A m \in Notifications : Created(m) => Created(m)'
<1>1. /\ log' \in [Notifications -> Seq(AttemptStatus)]
      /\ \A m \in Notifications : m # n => log'[m] = log[m]
      /\ Len(log[n]) \in Nat \ {0}
      /\ Len(log'[n]) \in {Len(log[n]), Len(log[n]) + 1}
  BY MovingLog DEF CancelInv, LogMoves
<1>2. Len(log'[n]) # 0
  BY <1>1
<1>3. log'[n] # <<>>
  BY <1>2, EmptySeq
<1>4. QED
  BY <1>1, <1>3 DEF Created

\* Activation finds the row of the attempt published; retention is longer than
\* the call.  Settling is the same call, and a new attempt has a row of its own.
LEMMA DeliveryKeepsCancel ==
    ASSUME CancelInv, ControlInv', NEW c \in Clients, NEW n \in Notifications,
           MarkAttemptInProgress(c, n) \/ Settle(c, n) \/ InsertAttempt(c, n)
    PROVE  CancelInv'
<1> c \in Callers
  BY DEF Callers
<1>0. LogMoves(n) /\ UNCHANGED <<due, status, cancelled>>
  BY DEF MarkAttemptInProgress, Settle, InsertAttempt, LogMoves
<1>1. /\ log' \in [Notifications -> Seq(AttemptStatus)]
      /\ \A m \in Notifications : Created(m) => Created(m)'
  BY <1>0, MovedTables
<1>2. /\ \A m \in Notifications : m # n => log'[m] = log[m]
      /\ History!Activate(n) \/ History!Settle(n) => Len(log'[n]) = Len(log[n])
      /\ History!Retry(n) \/ History!Replay(n) => Len(log'[n]) = Len(log[n]) + 1
  BY <1>0, MovingLog DEF CancelInv
<1>3. CASE MarkAttemptInProgress(c, n) \/ Settle(c, n)
  <2>1. UNCHANGED intent /\ (History!Activate(n) \/ History!Settle(n))
    BY <1>3 DEF MarkAttemptInProgress, Settle
  <2>2. TablesOK'
    BY <1>0, <1>1, <1>2, <2>1 DEF CancelInv, TablesOK, ControlInv
  <2>3. \A m \in Notifications : HasRows(m) <=> HasRows(m)'
    BY <2>1 DEF HasRows, HasRow
  <2>4. HasRows(n)
    <3>1. CASE MarkAttemptInProgress(c, n)
      <4>1. intent[n] \in Seq(OutboxRow) /\ Len(intent[n]) = Len(log[n])
        BY DEF CancelInv, TablesOK
      <4>2. Len(log[n]) \in Nat \ {0}
        BY <1>0, MovingLog DEF CancelInv
      <4>3. Len(intent[n]) \in DOMAIN intent[n]
        BY <4>1, <4>2
      <4>4. intent[n][Len(intent[n])] = "published"
        BY <3>1 DEF MarkAttemptInProgress
      <4>5. QED
        BY <4>3, <4>4 DEF HasRows, HasRow
    <3>2. CASE Settle(c, n)
      BY <3>2 DEF Settle, CancelInv, OwedHaveRows, Owes
    <3>3. QED
      BY <1>3, <3>1, <3>2
  <2>5. Commits(c, {n}, Idle) \/ Commits(c, {n}, Delivering(n))
    BY <1>3 DEF MarkAttemptInProgress, Settle
  <2>6. QED
    BY <1>0, <1>1, <2>2, <2>3, <2>4, <2>5, DeliveryCommits
<1>4. CASE InsertAttempt(c, n)
  <2>1. /\ intent' = [intent EXCEPT ![n] = Append(@, "pending")]
        /\ History!Retry(n) \/ History!Replay(n)
        /\ Commits(c, {n}, Idle)
    BY <1>4 DEF InsertAttempt
  <2>2. /\ intent' \in [Notifications -> Seq(OutboxRow)]
        /\ \A m \in Notifications : Len(intent'[m]) = Len(intent[m]) + (IF m = n THEN 1 ELSE 0)
        /\ HasRows(n)'
        /\ \A m \in Notifications : HasRows(m) => HasRows(m)'
    BY <2>1, AddedRow DEF CancelInv
  <2>3. \A m \in Notifications : Len(intent'[m]) = Len(log'[m])
    <3>1. \A m \in Notifications : Len(intent[m]) = Len(log[m]) /\ Len(log[m]) \in Nat
      BY DEF CancelInv, TablesOK
    <3>2. QED
      BY <1>2, <2>1, <2>2, <3>1
  <2>4. TablesOK'
    BY <1>0, <1>1, <2>2, <2>3 DEF CancelInv, TablesOK, ControlInv
  <2>5. QED
    BY <1>0, <1>1, <2>1, <2>2, <2>4, DeliveryCommits
<1>5. QED
  BY <1>3, <1>4

\* The first half of a redrive only takes locks; the second half commits, or
\* finds the notification paused.
LEMMA RedriveKeepsCancel ==
    ASSUME CancelInv, ControlInv', NEW c \in Clients, NEW n \in Notifications,
           SelectForRedrive(c, n) \/ RedriveNotification(c, n)
    PROVE  CancelInv'
<1> c \in Callers
  BY DEF Callers
<1>1. ASSUME NEW x \in CallerState, caller' = [caller EXCEPT ![c] = x],
             UNCHANGED <<log, intent, due, status, cancelled>>,
             \A m \in Notifications : ~ Owes(x, m) /\ (x = Redriving(m) => Created(m)),
             x.at \in {"idle", "redriving"}
      PROVE  CancelInv'
  <2>1. TablesOK'
    BY <1>1 DEF CancelInv, TablesOK, ControlInv
  <2>2. \A d \in Callers : caller'[d] = IF d = c THEN x ELSE caller[d]
    BY <1>1 DEF CancelInv, TablesOK
  <2>3. \A m \in Notifications : SawCancelled(x, m)
    BY <1>1 DEF SawCancelled
  <2>4. \A m \in Notifications :
            (HasRows(m) => HasRows(m)') /\ (Created(m) => Created(m)')
    BY <1>1 DEF HasRows, HasRow, Created
  <2>5. \A m \in cancelled : m \in Notifications
    BY DEF CancelInv, TablesOK
  <2>6. QED
    BY <1>1, <2>1, <2>2, <2>3, <2>4, <2>5, CallerStep
<1>2. CASE SelectForRedrive(c, n)
  <2>1. /\ Created(n) /\ caller' = [caller EXCEPT ![c] = Redriving(n)]
        /\ UNCHANGED <<log, intent, due, status, cancelled>>
    BY <1>2 DEF SelectForRedrive, rows
  <2>2. Redriving(n) \in CallerState /\ Redriving(n).at = "redriving"
    BY DEF CallerState, Redriving
  <2>3. \A m \in Notifications :
            ~ Owes(Redriving(n), m) /\ (Redriving(n) = Redriving(m) => Created(m))
    BY <2>1, OwesAfterCommit, RedrivingIsDistinct
  <2>4. QED
    BY <1>1, <2>1, <2>2, <2>3
<1>3. CASE RedriveNotification(c, n)
  <2>1. caller[c] = Redriving(n) /\ UNCHANGED <<log, due, status, cancelled>>
    BY <1>3 DEF RedriveNotification
  <2>2. Created(n)
    BY <2>1 DEF CancelInv, CreatedFirst, Locked
  <2>3. CASE intent' = [intent EXCEPT ![n][1] = InsertIntent(@)] /\ Commits(c, {n}, Idle)
    <3>1. 1 \in DOMAIN intent[n] /\ intent[n][1] \in OutboxRow
      BY <2>2, InitialRow DEF CancelInv
    <3>2. InsertIntent(intent[n][1]) \in Alive
      BY <3>1 DEF InsertIntent, OutboxRow, Alive
    <3>3. intent' = [intent EXCEPT ![n][1] = InsertIntent(intent[n][1])]
      BY <2>3, <3>1 DEF CancelInv, TablesOK
    <3>4. QED
      BY <2>1, <2>2, <2>3, <3>2, <3>3, EnsuredRow
  <2>4. CASE caller' = [caller EXCEPT ![c] = Idle] /\ UNCHANGED intent
    <3>1. Idle \in CallerState /\ Idle.at = "idle" /\ \A m : Idle # Redriving(m) /\ ~ Owes(Idle, m)
      BY OwesAfterCommit, RedrivingIsDistinct DEF CallerState, AfterCommit, Idle
    <3>2. QED
      BY <1>1, <2>1, <2>4, <3>1
  <2>5. QED
    BY <1>3, <2>3, <2>4 DEF RedriveNotification
<1>4. QED
  BY <1>2, <1>3

\* A repeated request leaves the initial row there, whatever it found.
LEMMA EnsureKeepsCancel ==
    ASSUME CancelInv, ControlInv', NEW c \in Clients, NEW n \in Notifications,
           EnsureInitialAttempt(c, n)
    PROVE  CancelInv'
<1>1. /\ Created(n) /\ intent' = [intent EXCEPT ![n][1] = RestoreIntent(@)]
      /\ Commits(c, {n}, Idle) /\ UNCHANGED <<log, due, status, cancelled>>
  BY DEF EnsureInitialAttempt
<1>2. 1 \in DOMAIN intent[n] /\ intent[n][1] \in OutboxRow
  BY <1>1, InitialRow DEF CancelInv
<1>3. RestoreIntent(intent[n][1]) \in Alive
  BY <1>2 DEF RestoreIntent, OutboxRow, Alive
<1>4. intent' = [intent EXCEPT ![n][1] = RestoreIntent(intent[n][1])]
  BY <1>1, <1>2 DEF CancelInv, TablesOK
<1>5. QED
  BY <1>1, <1>3, <1>4, EnsuredRow DEF Callers

LEMMA ClientsKeepCancel ==
    ASSUME CancelInv, ControlInv', NEW c \in Clients, ClientNext(c)
    PROVE  CancelInv'
<1> PICK n \in Notifications :
        \/ CreateNotification(c, n)
        \/ EnsureInitialAttempt(c, n)
        \/ SelectForRedrive(c, n)
        \/ RedriveNotification(c, n)
        \/ MarkAttemptInProgress(c, n)
        \/ Settle(c, n)
        \/ InsertAttempt(c, n)
  BY DEF ClientNext
<1>1. QED
  BY EnsureKeepsCancel, CreateKeepsCancel, RedriveKeepsCancel, DeliveryKeepsCancel

----------------------------------------------------------------------------
(* The scheduler, cancellation, recalculation and the rest.                *)

\* Every promoted notification gets a row.
LEMMA PromotionKeepsCancel ==
    ASSUME CancelInv, ControlInv', PromoteDueScheduledNotifications
    PROVE  CancelInv'
<1> DEFINE ns == {n \in Notifications : Promotable(n) /\ ~ Locked(n)}
<1>1. /\ intent' = [n \in Notifications |->
                        IF n \in ns THEN [intent[n] EXCEPT ![1] = InsertIntent(@)] ELSE intent[n]]
      /\ Commits(Scheduler, ns, Idle) /\ ns \in SUBSET Notifications
      /\ UNCHANGED <<log, due, status, cancelled>>
  BY DEF PromoteDueScheduledNotifications
<1>2. \A n \in ns : Created(n)
  BY DEF Promotable
<1> HIDE DEF ns
<1>3. ASSUME NEW n \in Notifications
      PROVE  /\ intent'[n] \in Seq(OutboxRow) /\ Len(intent'[n]) = Len(intent[n])
             /\ HasRows(n) => HasRows(n)'
             /\ n \in ns => HasRows(n)'
  <2>1. CASE n \notin ns
    BY <1>1, <2>1 DEF HasRows, HasRow, CancelInv, TablesOK
  <2>2. CASE n \in ns
    <3> DEFINE e == InsertIntent(intent[n][1])
    <3>1. 1 \in DOMAIN intent[n] /\ intent[n][1] \in OutboxRow
      BY <1>2, <2>2, InitialRow DEF CancelInv
    <3>2. e \in Alive /\ e \in OutboxRow
      BY <3>1 DEF InsertIntent, OutboxRow, Alive
    <3>3. intent'[n] = [intent[n] EXCEPT ![1] = e]
      BY <1>1, <2>2, <3>1
    <3> HIDE DEF e
    <3>4. intent[n] \in Seq(OutboxRow) /\ 1 \in 1 .. Len(intent[n])
      BY <3>1 DEF CancelInv, TablesOK
    <3>5. /\ intent'[n] \in Seq(OutboxRow) /\ Len(intent'[n]) = Len(intent[n])
          /\ intent'[n][1] = e
      BY <3>2, <3>3, <3>4, ExceptSeq
    <3>6. 1 \in DOMAIN intent'[n]
      BY <3>4, <3>5
    <3>7. HasRows(n)'
      BY <3>2, <3>5, <3>6 DEF HasRows, HasRow, Alive
    <3>8. QED
      BY <3>5, <3>7
  <2>3. QED
    BY <2>1, <2>2
<1>4. TablesOK'
  BY <1>1, <1>3 DEF CancelInv, TablesOK, ControlInv
<1>5. Scheduler \in Callers /\ Idle \in AfterCommit
  BY DEF Callers, AfterCommit
<1>6. \A m : Idle # Delivering(m)
  BY OwesAfterCommit
<1>7. \A m \in Notifications : m \in ns \/ Idle = Delivering(m) => HasRows(m)'
  BY <1>3, <1>6
<1>8. \A m \in Notifications : Created(m) => Created(m)'
  BY <1>1 DEF Created
<1>9. QED
  BY <1>1, <1>3, <1>4, <1>5, <1>7, <1>8, CommitStep

\* A cancel request finds no row, so nobody is to recalculate what it cancels.
LEMMA CancellationKeepsCancel ==
    ASSUME CancelInv, ControlInv', NEW n \in Notifications, CancelScheduledNotification(n)
    PROVE  CancelInv'
<1>1. /\ ~ HasRows(n) /\ due[n] = "later"
      /\ status' = [status EXCEPT ![n] = "cancelled"]
      /\ cancelled' = cancelled \cup {n}
      /\ UNCHANGED <<log, intent, due, caller>>
  BY DEF CancelScheduledNotification, HasRows
<1>2. TablesOK'
  BY <1>1 DEF CancelInv, TablesOK, NotificationStatus
<1>3. CreatedFirst'
  BY <1>1 DEF CancelInv, CreatedFirst, Created, Locked
<1>4. OwedHaveRows'
  BY <1>1 DEF CancelInv, OwedHaveRows, HasRows, HasRow
<1>5. \A c \in Callers : SawCancelled(caller[c], n)
  <2>1. \A c \in Callers : ~ Owes(caller[c], n)
    BY <1>1 DEF CancelInv, OwedHaveRows
  <2>2. QED
    BY <2>1 DEF Owes, SawCancelled
<1>6. \A c \in Callers : \A m \in cancelled' : SawCancelled(caller'[c], m)
  BY <1>1, <1>5 DEF CancelInv
<1>7. CancelledStaysCancelled'
  BY <1>1 DEF CancelInv, CancelledStaysCancelled, TablesOK
<1>8. QED
  BY <1>2, <1>3, <1>4, <1>6, <1>7 DEF CancelInv, SawCancelled

\* A step of a recalculation: the rows stay, and so do cancelled statuses.
LEMMA RecalculationStep ==
    ASSUME CancelInv, ControlInv', NEW c \in Callers, NEW x,
           caller' = [caller EXCEPT ![c] = x],
           UNCHANGED <<log, intent, due, cancelled>>,
           status' \in [Notifications -> NotificationStatus \cup {"absent"}],
           \A n \in Notifications : x # Redriving(n),
           \A n \in Notifications : Owes(x, n) => Owes(caller[c], n),
           \A n \in cancelled : SawCancelled(x, n) /\ status'[n] = status[n]
    PROVE  CancelInv'
<1>1. \A d \in Callers : caller'[d] = IF d = c THEN x ELSE caller[d]
  BY DEF CancelInv, TablesOK
<1>2. TablesOK'
  BY DEF CancelInv, TablesOK, ControlInv
<1>3. \A m \in Notifications : (HasRows(m) => HasRows(m)') /\ (Created(m) => Created(m)')
  BY DEF HasRows, HasRow, Created
<1>4. QED
  BY <1>1, <1>2, <1>3, CallerStep

LEMMA RecalculationKeepsCancel ==
    ASSUME CancelInv, ControlInv', NEW c \in Callers,
           RecalculateNotificationStatus(c) \/ CallFails(c)
    PROVE  CancelInv'
<1>0. /\ caller[c] \in CallerState /\ status \in [Notifications -> NotificationStatus \cup {"absent"}]
      /\ cancelled \subseteq Notifications
      /\ \A x : x.at # "redriving" => \A n \in Notifications : x # Redriving(n)
  BY RedrivingIsDistinct DEF CancelInv, TablesOK
<1>a. /\ Idle.at = "idle"
      /\ \A n : Delivering(n).at = "delivering" /\ Redriving(n).at = "redriving"
      /\ \A todo, then : Committed(todo, then).at = "committed"
  BY DEF Idle, Delivering, Redriving, Committed
<1>1. CASE ReadRow(c)
  <2>1. PICK n \in caller[c].todo :
          caller' = [caller EXCEPT ![c] =
                        [at |-> "row read", of |-> n, promoted |-> n \in promoted,
                         cancelled |-> n \in cancelled, todo |-> @.todo \ {n}, then |-> @.then]]
    BY <1>1 DEF ReadRow
  <2> DEFINE p == n \in promoted
             q == n \in cancelled
             x == [at |-> "row read", of |-> n, promoted |-> p, cancelled |-> q,
                   todo |-> caller[c].todo \ {n}, then |-> caller[c].then]
  <2>2. caller' = [caller EXCEPT ![c] = x] /\ UNCHANGED <<log, intent, due, status, cancelled>>
    BY <1>1, <2>1 DEF ReadRow, rows
  <2>3. n \in cancelled => q = TRUE
    OBVIOUS
  <2> HIDE DEF p, q
  <2>4. /\ x.at = "row read" /\ x.of = n /\ x.todo = caller[c].todo \ {n}
        /\ x.then = caller[c].then /\ x.cancelled = q
    OBVIOUS
  <2> HIDE DEF x
  <2>5. \A m \in Notifications : x # Redriving(m)
    BY <1>0, <2>4
  <2>6. \A m \in Notifications : x # Delivering(m)
    BY <1>a, <2>4
  <2>7. \A m \in Notifications : Owes(x, m) => Owes(caller[c], m)
    BY <1>1, <2>4, <2>6 DEF Owes, ReadRow
  <2>8. \A m \in cancelled : SawCancelled(x, m)
    BY <2>3, <2>4 DEF SawCancelled
  <2>9. QED
    BY <1>0, <2>2, <2>5, <2>7, <2>8, RecalculationStep
<1>2. CASE ReadAttempts(c)
  <2> DEFINE n == caller[c].of
             new == IF caller[c].cancelled THEN "cancelled"
                    ELSE IF due[n] = "later" /\ ~ caller[c].promoted THEN "scheduled"
                    ELSE deriveNotificationStatus(Attempts(n))
             x == [at |-> "attempts read", of |-> n, status |-> new,
                   todo |-> caller[c].todo, then |-> caller[c].then]
  <2>1. caller' = [caller EXCEPT ![c] = x] /\ UNCHANGED <<log, intent, due, status, cancelled>>
    BY <1>2 DEF ReadAttempts, rows
  <2>2. caller[c].cancelled = TRUE => new = "cancelled"
    OBVIOUS
  <2> HIDE DEF new
  <2>3. /\ x.at = "attempts read" /\ x.of = n /\ x.todo = caller[c].todo
        /\ x.then = caller[c].then /\ x.status = new
    OBVIOUS
  <2> HIDE DEF x
  <2>4. \A m \in Notifications : x # Redriving(m)
    BY <1>0, <2>3
  <2>5. \A m \in Notifications : x # Delivering(m)
    BY <1>a, <2>3
  <2>6. \A m \in Notifications : Owes(x, m) => Owes(caller[c], m)
    BY <1>2, <2>3, <2>5 DEF Owes, ReadAttempts
  <2>7. \A m \in cancelled : SawCancelled(x, m)
    BY <1>2, <2>2, <2>3 DEF SawCancelled, ReadAttempts, CancelInv
  <2>8. QED
    BY <1>0, <2>1, <2>4, <2>6, <2>7, RecalculationStep
<1>3. CASE WriteStatus(c)
  <2>1. /\ caller[c].at = "attempts read" /\ caller[c].of \in Notifications
        /\ caller[c].todo \in SUBSET Notifications /\ caller[c].then \in AfterCommit
    BY <1>0, <1>3, StateParts DEF WriteStatus
  <2> DEFINE x == IF caller[c].todo = {} THEN caller[c].then
                                         ELSE Committed(caller[c].todo, caller[c].then)
  <2>2. /\ caller' = [caller EXCEPT ![c] = x] /\ UNCHANGED <<log, intent, due, cancelled>>
        /\ status' = [status EXCEPT ![caller[c].of] = caller[c].status]
    BY <1>3 DEF WriteStatus
  <2>3. \A m \in Notifications : x # Redriving(m)
    BY <2>1, RedrivingIsDistinct DEF AfterCommit
  <2>4. x.at \in {"idle", "delivering", "committed"}
    BY <1>a, <2>1 DEF AfterCommit
  <2>5. \A m \in Notifications : Owes(x, m) => Owes(caller[c], m)
    <3> SUFFICES ASSUME NEW m \in Notifications, Owes(x, m)
                 PROVE  m \in caller[c].todo \/ caller[c].then = Delivering(m)
      BY <2>1 DEF Owes
    <3>1. CASE caller[c].todo = {}
      <4>1. x = caller[c].then
        BY <3>1
      <4>2. caller[c].then # Idle
        BY <4>1, OwesAfterCommit
      <4>3. PICK k \in Notifications : caller[c].then = Delivering(k)
        BY <2>1, <4>2 DEF AfterCommit
      <4>4. QED
        BY <4>1, <4>3, OwesAfterCommit
    <3>2. CASE caller[c].todo # {}
      BY <3>2, OwesAfterCommit
    <3>3. QED
      BY <3>1, <3>2
  <2> HIDE DEF x
  <2>6. \A m \in cancelled : SawCancelled(x, m)
    BY <2>4 DEF SawCancelled
  <2>7. caller[c].status \in NotificationStatus
    <3>1. caller[c] \notin AfterCommit \cup {Redriving(n) : n \in Notifications}
      BY <1>a, <2>1 DEF AfterCommit
    <3>2. QED
      BY <1>0, <2>1, <3>1 DEF CallerState
  <2>8. status' \in [Notifications -> NotificationStatus \cup {"absent"}]
    BY <1>0, <2>1, <2>2, <2>7
  <2>9. \A m \in cancelled : status'[m] = status[m]
    BY <1>0, <2>1, <2>2 DEF CancelInv, SawCancelled, CancelledStaysCancelled
  <2>10. QED
    BY <2>2, <2>3, <2>5, <2>6, <2>8, <2>9, RecalculationStep
<1>4. CASE CallFails(c)
  <2>1. caller' = [caller EXCEPT ![c] = Idle] /\ UNCHANGED <<log, intent, due, status, cancelled>>
    BY <1>4 DEF CallFails, rows
  <2>2. \A m \in Notifications : Idle # Redriving(m) /\ ~ Owes(Idle, m)
    BY OwesAfterCommit, RedrivingIsDistinct
  <2>3. \A m \in cancelled : SawCancelled(Idle, m)
    BY DEF SawCancelled, Idle
  <2>4. QED
    BY <1>0, <2>1, <2>2, <2>3, RecalculationStep
<1>5. QED
  BY <1>1, <1>2, <1>3, <1>4 DEF RecalculateNotificationStatus

\* Steps without a caller.  Maintenance purges when every caller is idle.
LEMMA OthersKeepCancel ==
    ASSUME CancelInv, ControlInv', NEW n \in Notifications,
           PublishIntent(n) \/ Maintenance(n) \/ ComesDue(n)
    PROVE  CancelInv'
<1>0. /\ UNCHANGED <<log, status, cancelled, caller>>
      /\ \A m \in Notifications : due'[m] = "later" => due[m] = "later"
  BY DEF PublishIntent, Maintenance, ComesDue, CancelInv, TablesOK
<1>1. CreatedFirst' /\ CancelledStaysCancelled'
      /\ \A c \in Callers : \A m \in cancelled' : SawCancelled(caller'[c], m)
  BY <1>0 DEF CancelInv, CreatedFirst, CancelledStaysCancelled, Created, Locked
<1>2. due' \in [Notifications -> {"unset", "later", "now"}]
  BY DEF PublishIntent, Maintenance, ComesDue, CancelInv, TablesOK
<1>3. ASSUME intent' \in [Notifications -> Seq(OutboxRow)],
             \A m \in Notifications : Len(intent'[m]) = Len(intent[m]), OwedHaveRows'
      PROVE  CancelInv'
  BY <1>0, <1>1, <1>2, <1>3 DEF CancelInv, TablesOK, SawCancelled
<1>4. CASE ComesDue(n)
  <2>1. UNCHANGED intent
    BY <1>4 DEF ComesDue
  <2>2. OwedHaveRows'
    BY <1>0, <2>1 DEF CancelInv, OwedHaveRows, HasRows, HasRow
  <2>3. QED
    BY <1>3, <2>1, <2>2 DEF CancelInv, TablesOK
<1>5. CASE PublishIntent(n) \/ Maintenance(n)
  <2>1. PICK k \in DOMAIN intent[n], e \in {"published", "purged"} :
            /\ intent' = [intent EXCEPT ![n][k] = e]
            /\ e = "purged" => \A c \in Callers : caller[c] = Idle
    <3>1. CASE PublishIntent(n)
      BY <3>1 DEF PublishIntent
    <3>2. CASE Maintenance(n)
      BY <3>2 DEF Maintenance
    <3>3. QED
      BY <1>5, <3>1, <3>2
  <2>2. e \in OutboxRow /\ (e = "published" => e \in Alive)
    BY DEF OutboxRow, Alive
  <2>3. /\ intent' \in [Notifications -> Seq(OutboxRow)]
        /\ \A m \in Notifications : Len(intent'[m]) = Len(intent[m])
        /\ e = "published" => \A m \in Notifications : HasRows(m) => HasRows(m)'
    BY <2>1, <2>2, EditedRow DEF CancelInv
  <2>4. OwedHaveRows'
    <3>1. CASE e = "published"
      BY <1>0, <2>3, <3>1 DEF CancelInv, OwedHaveRows
    <3>2. CASE e = "purged"
      BY <1>0, <2>1, <3>2, OwesAfterCommit DEF OwedHaveRows
    <3>3. QED
      BY <3>1, <3>2
  <2>5. QED
    BY <1>3, <2>3, <2>4
<1>6. QED
  BY <1>4, <1>5

LEMMA StepKeepsCancel == CancelInv /\ [Next]_vars => CancelInv'
<1> SUFFICES ASSUME CancelInv, [Next]_vars PROVE CancelInv'
  OBVIOUS
<1>0. ControlInv'
  BY StepKeepsControl DEF CancelInv
<1>1. ASSUME NEW c \in Clients, ClientNext(c) PROVE CancelInv'
  BY <1>0, <1>1, ClientsKeepCancel
<1>2. CASE PromoteDueScheduledNotifications
  BY <1>0, <1>2, PromotionKeepsCancel
<1>3. ASSUME NEW c \in Callers, RecalculateNotificationStatus(c) \/ CallFails(c)
      PROVE  CancelInv'
  BY <1>0, <1>3, RecalculationKeepsCancel
<1>4. ASSUME NEW n \in Notifications, CancelScheduledNotification(n) PROVE CancelInv'
  BY <1>0, <1>4, CancellationKeepsCancel
<1>5. ASSUME NEW n \in Notifications, PublishIntent(n) \/ Maintenance(n) \/ ComesDue(n)
      PROVE  CancelInv'
  BY <1>0, <1>5, OthersKeepCancel
<1>6. ASSUME UNCHANGED <<rows, caller>> PROVE CancelInv'
  BY <1>0, <1>6 DEF rows, CancelInv, TablesOK, CreatedFirst, Created, Locked, OwedHaveRows, HasRows,
     HasRow, CancelledStaysCancelled
<1>7. ASSUME NEW p \in Policies, UpsertPolicy(p) \/ SetDeliveryPolicyPaused(p)
      PROVE  CancelInv'
  BY <1>6, <1>7 DEF UpsertPolicy, SetDeliveryPolicyPaused
<1>8. CASE UNCHANGED vars
  BY <1>6, <1>8 DEF vars, rows
<1>9. QED
  BY <1>1, <1>2, <1>3, <1>4, <1>5, <1>7, <1>8 DEF Next

LEMMA CancelAtStart == Init => CancelInv
<1> SUFFICES ASSUME Init PROVE CancelInv
  OBVIOUS
<1>1. ControlInv
  BY ControlAtStart
<1>2. TablesOK
  <2>1. <<>> \in Seq(AttemptStatus) /\ <<>> \in Seq(OutboxRow) /\ Idle \in CallerState
    BY DEF CallerState, AfterCommit
  <2>2. QED
    BY <2>1 DEF Init, TablesOK
<1>3. \A c \in Callers : caller[c] = Idle
  BY DEF Init
<1>4. CreatedFirst
  BY <1>3, RedrivingIsDistinct DEF Init, CreatedFirst, Locked
<1>5. OwedHaveRows
  BY <1>3, OwesAfterCommit DEF OwedHaveRows
<1>6. QED
  BY <1>1, <1>2, <1>4, <1>5 DEF Init, CancelInv, CancelledStaysCancelled

\* A recalculation that is under way when a notification is cancelled, or that
\* starts later, never puts another status in the place of "cancelled"
\* (RecalculateNotificationStatus, CancelScheduledNotification).
THEOREM CancelledForGood == Spec => []CancelledStaysCancelled
<1>1. CancelInv => CancelledStaysCancelled
  BY DEF CancelInv
<1>2. QED
  BY <1>1, CancelAtStart, StepKeepsCancel, PTL DEF Spec

----------------------------------------------------------------------------
(* Final statuses.                                                         *)

\* What a status says about the attempts is so.
TrueOf(s, n) ==
    /\ s \in {"delivered", "partially_delivered"} => "sent" \in Attempts(n)
    /\ s = "failed" => Attempts(n) = {"failed"}

\* It is so of the status a recalculation is about to write, too.
TruthInv ==
    /\ CancelInv
    /\ FinalStatusIsTrue
    /\ \A c \in Callers : caller[c].at = "attempts read" => TrueOf(caller[c].status, caller[c].of)

\* A delivery is not forgotten, and nothing follows a final failure.
LEMMA TruthLasts ==
    ASSUME TablesOK, NEW n \in Notifications, LogMoves(n), NEW m \in Notifications
    PROVE  /\ "sent" \in Attempts(m) => "sent" \in Attempts(m)'
           /\ Attempts(m) = {"failed"} => Attempts(m)' = {"failed"}
<1>1. CASE m # n
  BY <1>1, MovingLog DEF Attempts
<1>2. CASE m = n
  <2> DEFINE last == Len(log[n])
  <2>1. /\ log[n] \in Seq(AttemptStatus) /\ log'[n] \in Seq(AttemptStatus)
        /\ last \in Nat \ {0} /\ Len(log'[n]) \in {last, last + 1}
    BY MovingLog DEF TablesOK, LogMoves
  <2>2. /\ log[n][last] \notin {"sent", "failed"}
        /\ \A k \in 1 .. last : k # last => log'[n][k] = log[n][k]
    <3>1. log[n][last] \notin {"sent", "failed"}
      BY DEF LogMoves, History!Activate, History!Settle, History!Retry, History!Replay,
         History!LastIs
    <3>2. ASSUME NEW s \in AttemptStatus
          PROVE  /\ History!Replace(n, s) \in Seq(AttemptStatus)
                 /\ Len(History!Replace(n, s)) = last
                 /\ \A k \in 1 .. last : k # last => History!Replace(n, s)[k] = log[n][k]
      BY <2>1, ExceptSeq DEF History!Replace
    <3>3. CASE History!Activate(n) \/ History!Settle(n)
      <4>1. PICK s \in AttemptStatus : log' = [log EXCEPT ![n] = History!Replace(n, s)]
        BY <3>3 DEF History!Activate, History!Settle, AttemptStatus
      <4>2. log'[n] = History!Replace(n, s)
        BY <4>1 DEF TablesOK
      <4>3. QED
        BY <3>1, <3>2, <4>2
    <3>4. CASE History!Retry(n)
      <4>1. log'[n] = Append(History!Replace(n, "failed"), "pending")
        BY <3>4 DEF History!Retry, TablesOK
      <4>2. "failed" \in AttemptStatus /\ "pending" \in AttemptStatus
        BY DEF AttemptStatus, History!Outcome
      <4>3. \A k \in 1 .. last : log'[n][k] = History!Replace(n, "failed")[k]
        BY <3>2, <4>1, <4>2, AppendProperties
      <4>4. QED
        BY <3>1, <3>2, <4>2, <4>3
    <3>5. CASE History!Replay(n)
      <4>1. log'[n] = Append(log[n], "pending")
        BY <3>5 DEF History!Replay, TablesOK
      <4>2. "pending" \in AttemptStatus
        BY DEF AttemptStatus
      <4>3. \A k \in 1 .. last : log'[n][k] = log[n][k]
        BY <2>1, <4>1, <4>2, AppendProperties
      <4>4. QED
        BY <3>1, <4>3
    <3>6. QED
      BY <3>3, <3>4, <3>5 DEF LogMoves
  <2>3. DOMAIN log[n] = 1 .. last /\ DOMAIN log'[n] = 1 .. Len(log'[n])
    BY <2>1
  <2> HIDE DEF last
  <2>4. 1 .. last \subseteq DOMAIN log'[n] /\ last \in DOMAIN log[n]
    BY <2>1, <2>3
  <2>5. Attempts(n) # {"failed"}
    BY <2>2, <2>4 DEF Attempts
  <2>6. "sent" \in Attempts(n) => "sent" \in Attempts(n)'
    <3> SUFFICES ASSUME NEW k \in DOMAIN log[n], log[n][k] = "sent"
                 PROVE  \E i \in DOMAIN log'[n] : log'[n][i] = "sent"
      BY DEF Attempts
    <3>1. k # last /\ log'[n][k] = "sent" /\ k \in DOMAIN log'[n]
      BY <2>2, <2>3, <2>4
    <3>2. QED
      BY <3>1
  <2>7. QED
    BY <1>2, <2>5, <2>6
<1>3. QED
  BY <1>1, <1>2

\* Whatever step is taken.
LEMMA StepKeepsTruth ==
    ASSUME CancelInv, [Next]_vars, NEW m \in Notifications
    PROVE  /\ "sent" \in Attempts(m) => "sent" \in Attempts(m)'
           /\ Attempts(m) = {"failed"} => Attempts(m)' = {"failed"}
<1>1. ASSUME NEW c \in Clients, NEW n \in Notifications, CreateNotification(c, n)
      PROVE  UNCHANGED log \/ \E i \in Notifications : LogMoves(i) \/
                 (log[i] = <<>> /\ \A j \in Notifications : j # i => log'[j] = log[j])
  BY <1>1 DEF CreateNotification, Created, CancelInv, TablesOK
<1>2. ASSUME NEW c \in Clients, ClientNext(c)
      PROVE  UNCHANGED log \/ \E i \in Notifications : LogMoves(i) \/
                 (log[i] = <<>> /\ \A j \in Notifications : j # i => log'[j] = log[j])
  BY <1>1, <1>2 DEF ClientNext, EnsureInitialAttempt, SelectForRedrive, RedriveNotification,
     MarkAttemptInProgress, Settle, InsertAttempt, LogMoves, rows
<1>3. CASE UNCHANGED log
  BY <1>3 DEF Attempts
<1>4. ASSUME NEW i \in Notifications, LogMoves(i)
      PROVE  /\ "sent" \in Attempts(m) => "sent" \in Attempts(m)'
             /\ Attempts(m) = {"failed"} => Attempts(m)' = {"failed"}
  BY <1>4, TruthLasts DEF CancelInv
<1>5. ASSUME NEW i \in Notifications, log[i] = <<>>,
             \A j \in Notifications : j # i => log'[j] = log[j]
      PROVE  /\ "sent" \in Attempts(m) => "sent" \in Attempts(m)'
             /\ Attempts(m) = {"failed"} => Attempts(m)' = {"failed"}
  <2>1. CASE m = i
    <3>1. DOMAIN log[m] = {}
      BY <1>5, <2>1
    <3>2. QED
      BY <3>1 DEF Attempts
  <2>2. CASE m # i
    BY <1>5, <2>2 DEF Attempts
  <2>3. QED
    BY <2>1, <2>2
<1>6. UNCHANGED log \/ \E c \in Clients : ClientNext(c)
  BY DEF Next, PromoteDueScheduledNotifications, RecalculateNotificationStatus, ReadRow,
     ReadAttempts, WriteStatus, CallFails, CancelScheduledNotification, PublishIntent, Maintenance,
     ComesDue, UpsertPolicy, SetDeliveryPolicyPaused, rows, vars
<1>7. QED
  BY <1>2, <1>3, <1>4, <1>5, <1>6

\* Only ReadAttempts derives a status.
LEMMA OnlyReadsDerive ==
    ASSUME CancelInv, [Next]_vars, NEW c \in Callers, caller'[c].at = "attempts read"
    PROVE  caller'[c] = caller[c] \/ ReadAttempts(c)
<1>0. /\ Idle.at = "idle"
      /\ \A n : Delivering(n).at = "delivering" /\ Redriving(n).at = "redriving"
      /\ \A todo, then : Committed(todo, then).at = "committed"
  BY DEF Idle, Delivering, Redriving, Committed
<1>1. ASSUME NEW d \in Callers, NEW x, caller' = [caller EXCEPT ![d] = x], x.at # "attempts read"
      PROVE  caller'[c] = caller[c]
  BY <1>1 DEF CancelInv, TablesOK
<1>2. ASSUME NEW d \in Callers, NEW todo, NEW then, Commits(d, todo, then)
      PROVE  caller'[c] = caller[c]
  BY <1>0, <1>1, <1>2 DEF Commits
<1>3. ASSUME NEW d \in Clients, ClientNext(d)
      PROVE  caller'[c] = caller[c]
  <2> d \in Callers
    BY DEF Callers
  <2>1. \/ UNCHANGED caller
        \/ \E todo, then : Commits(d, todo, then)
        \/ \E n \in Notifications : caller' = [caller EXCEPT ![d] = Redriving(n)]
        \/ caller' = [caller EXCEPT ![d] = Idle]
    BY <1>3 DEF ClientNext, CreateNotification, EnsureInitialAttempt, SelectForRedrive,
       RedriveNotification, MarkAttemptInProgress, Settle, InsertAttempt
  <2>2. ASSUME NEW n \in Notifications, caller' = [caller EXCEPT ![d] = Redriving(n)]
        PROVE  caller'[c] = caller[c]
    BY <1>0, <1>1, <2>2
  <2>3. ASSUME caller' = [caller EXCEPT ![d] = Idle]
        PROVE  caller'[c] = caller[c]
    BY <1>0, <1>1, <2>3
  <2>4. QED
    BY <1>2, <2>1, <2>2, <2>3
<1>4. CASE PromoteDueScheduledNotifications
  <2>1. Scheduler \in Callers /\ \E todo, then : Commits(Scheduler, todo, then)
    BY <1>4 DEF PromoteDueScheduledNotifications, Callers
  <2>2. QED
    BY <1>2, <2>1
<1>5. ASSUME NEW d \in Callers, RecalculateNotificationStatus(d) \/ CallFails(d)
      PROVE  caller'[c] = caller[c] \/ ReadAttempts(c)
  <2>1. CASE ReadRow(d)
    <3>1. PICK n \in caller[d].todo :
            caller' = [caller EXCEPT ![d] =
                          [at |-> "row read", of |-> n, promoted |-> n \in promoted,
                           cancelled |-> n \in cancelled, todo |-> @.todo \ {n}, then |-> @.then]]
      BY <2>1 DEF ReadRow
    <3> DEFINE p == n \in promoted
               q == n \in cancelled
               x == [at |-> "row read", of |-> n, promoted |-> p, cancelled |-> q,
                     todo |-> caller[d].todo \ {n}, then |-> caller[d].then]
    <3>2. caller' = [caller EXCEPT ![d] = x]
      BY <3>1
    <3> HIDE DEF p, q
    <3>3. x.at = "row read"
      OBVIOUS
    <3> HIDE DEF x
    <3>4. x.at # "attempts read"
      BY <3>3
    <3>5. QED
      BY <1>1, <3>2, <3>4
  <2>2. CASE ReadAttempts(d)
    <3>1. CASE d = c
      BY <2>2, <3>1
    <3>2. CASE d # c
      BY <2>2, <3>2 DEF ReadAttempts, CancelInv, TablesOK
    <3>3. QED
      BY <3>1, <3>2
  <2>3. CASE WriteStatus(d)
    <3>1. caller[d] \in CallerState /\ caller[d].at = "attempts read"
      BY <2>3 DEF WriteStatus, CancelInv, TablesOK
    <3>2. caller[d].then \in AfterCommit
      BY <3>1, StateParts
    <3>3. caller[d].then.at \in {"idle", "delivering"}
      BY <1>0, <3>2 DEF AfterCommit
    <3>4. \/ caller' = [caller EXCEPT ![d] = caller[d].then]
          \/ caller' = [caller EXCEPT ![d] = Committed(caller[d].todo, caller[d].then)]
      BY <2>3 DEF WriteStatus
    <3>5. CASE caller' = [caller EXCEPT ![d] = caller[d].then]
      <4> DEFINE x == caller[d].then
      <4>1. caller' = [caller EXCEPT ![d] = x] /\ x.at # "attempts read"
        BY <3>3, <3>5
      <4> HIDE DEF x
      <4>2. QED
        BY <1>1, <4>1
    <3>6. CASE caller' = [caller EXCEPT ![d] = Committed(caller[d].todo, caller[d].then)]
      <4> DEFINE x == Committed(caller[d].todo, caller[d].then)
      <4>1. caller' = [caller EXCEPT ![d] = x] /\ x.at # "attempts read"
        BY <1>0, <3>6
      <4> HIDE DEF x
      <4>2. QED
        BY <1>1, <4>1
    <3>7. QED
      BY <3>4, <3>5, <3>6
  <2>4. CASE CallFails(d)
    BY <1>0, <1>1, <2>4 DEF CallFails
  <2>5. QED
    BY <1>5, <2>1, <2>2, <2>3, <2>4 DEF RecalculateNotificationStatus
<1>6. QED
  BY <1>3, <1>4, <1>5
  DEF Next, CancelScheduledNotification, PublishIntent, Maintenance, ComesDue, UpsertPolicy,
      SetDeliveryPolicyPaused, vars

\* Only creation, cancellation and recalculation write the status.
LEMMA StatusWriters ==
    ASSUME CancelInv, [Next]_vars, NEW n \in Notifications
    PROVE  \/ status'[n] = status[n]
           \/ status'[n] \in {"scheduled", "accepted", "cancelled"}
           \/ \E c \in Callers : /\ caller[c].at = "attempts read" /\ caller[c].of = n
                                 /\ status'[n] = caller[c].status
<1>1. ASSUME NEW c \in Clients, ClientNext(c)
      PROVE  status'[n] = status[n] \/ status'[n] \in {"scheduled", "accepted"}
  BY <1>1 DEF ClientNext, CreateNotification, EnsureInitialAttempt, SelectForRedrive, rows,
     RedriveNotification, MarkAttemptInProgress, Settle, InsertAttempt, CancelInv, TablesOK
<1>2. ASSUME NEW m \in Notifications, CancelScheduledNotification(m)
      PROVE  status'[n] = status[n] \/ status'[n] = "cancelled"
  BY <1>2 DEF CancelScheduledNotification, CancelInv, TablesOK
<1>3. ASSUME NEW c \in Callers, RecalculateNotificationStatus(c) \/ CallFails(c)
      PROVE  \/ status'[n] = status[n]
             \/ /\ caller[c].at = "attempts read" /\ caller[c].of = n
                /\ status'[n] = caller[c].status
  BY <1>3 DEF RecalculateNotificationStatus, ReadRow, ReadAttempts, WriteStatus, CallFails, rows,
     CancelInv, TablesOK
<1>4. QED
  BY <1>1, <1>2, <1>3
  DEF Next, PromoteDueScheduledNotifications, PublishIntent, Maintenance, ComesDue, UpsertPolicy,
      SetDeliveryPolicyPaused, rows, vars

\* What ReadAttempts derives is true of the snapshot.
LEMMA DerivedIsTrue ==
    ASSUME NEW statuses
    PROVE  /\ deriveNotificationStatus(statuses) \in {"delivered", "partially_delivered"}
                => "sent" \in statuses
           /\ deriveNotificationStatus(statuses) = "failed" => statuses = {"failed"}
BY DEF deriveNotificationStatus

\* However recalculations are delayed and overtake each other, no notification
\* is reported delivered without a delivery, nor failed unless all its attempts
\* have failed for good (RecalculateNotificationStatus, deriveNotificationStatus).
THEOREM FinalStatusTrue == Spec => []FinalStatusIsTrue
<1>1. Init => TruthInv
  <2> SUFFICES ASSUME Init PROVE TruthInv
    OBVIOUS
  <2>1. \A c \in Callers : caller[c].at # "attempts read"
    BY DEF Init, Idle
  <2>2. QED
    BY <2>1, CancelAtStart DEF Init, TruthInv, FinalStatusIsTrue
<1>2. TruthInv /\ [Next]_vars => TruthInv'
  <2> SUFFICES ASSUME TruthInv, [Next]_vars PROVE TruthInv'
    OBVIOUS
  <2>0. CancelInv /\ CancelInv'
    BY StepKeepsCancel DEF TruthInv
  <2>1. \A m \in Notifications : \A s : TrueOf(s, m) => TrueOf(s, m)'
    BY <2>0, StepKeepsTruth DEF TrueOf
  <2>2. FinalStatusIsTrue'
    <3> SUFFICES ASSUME NEW n \in Notifications
                 PROVE  TrueOf(status[n], n)'
      BY DEF FinalStatusIsTrue, TrueOf
    <3>1. TrueOf(status[n], n)
      BY DEF TruthInv, FinalStatusIsTrue, TrueOf
    <3>2. CASE status'[n] = status[n]
      BY <2>1, <3>1, <3>2 DEF TrueOf
    <3>3. CASE status'[n] \in {"scheduled", "accepted", "cancelled"}
      BY <3>3 DEF TrueOf
    <3>4. ASSUME NEW c \in Callers, caller[c].at = "attempts read", caller[c].of = n,
                 status'[n] = caller[c].status
          PROVE  TrueOf(status[n], n)'
      BY <2>1, <3>4 DEF TrueOf, TruthInv
    <3>5. QED
      BY <2>0, <3>2, <3>3, <3>4, StatusWriters
  <2>3. ASSUME NEW c \in Callers, caller'[c].at = "attempts read"
        PROVE  TrueOf(caller[c].status, caller[c].of)'
    <3>1. caller'[c] \in CallerState
      BY <2>0 DEF CancelInv, TablesOK
    <3>2. caller'[c].of \in Notifications
      BY <2>3, <3>1, StateParts
    <3>3. CASE caller'[c] = caller[c]
      BY <2>1, <2>3, <3>2, <3>3 DEF TruthInv, TrueOf
    <3>4. CASE ReadAttempts(c)
      <4> DEFINE n == caller[c].of
      <4>1. /\ caller'[c].of = n /\ UNCHANGED log
            /\ caller'[c].status \in {"cancelled", "scheduled", deriveNotificationStatus(Attempts(n))}
        BY <2>0, <3>4 DEF ReadAttempts, rows, CancelInv, TablesOK
      <4>2. TrueOf(caller'[c].status, n)
        BY <4>1, DerivedIsTrue DEF TrueOf
      <4>3. QED
        BY <4>1, <4>2 DEF TrueOf, Attempts
    <3>5. QED
      BY <2>0, <2>3, <3>3, <3>4, OnlyReadsDerive
  <2>4. QED
    BY <2>0, <2>2, <2>3 DEF TruthInv
<1>3. TruthInv => FinalStatusIsTrue
  BY DEF TruthInv
<1>4. QED
  BY <1>1, <1>2, <1>3, PTL DEF Spec

----------------------------------------------------------------------------
(* Policies, and the types of all variables.                               *)

PoliciesOK ==
    /\ policies \in Seq(PolicyRow)
    /\ \A i, j \in DOMAIN policies : policies[i].id = policies[j].id => i = j

\* A sequence without its element i.
LEMMA WithoutOne ==
    ASSUME NEW S, NEW s \in Seq(S), NEW i \in 1 .. Len(s)
    PROVE  LET t == SubSeq(s, 1, i - 1) \o SubSeq(s, i + 1, Len(s))
           IN  /\ t \in Seq(S)
               /\ Len(t) = Len(s) - 1
               /\ \A k \in 1 .. Len(t) : t[k] = s[IF k < i THEN k ELSE k + 1]
<1> DEFINE a == SubSeq(s, 1, i - 1)
           b == SubSeq(s, i + 1, Len(s))
<1>1. Len(s) \in Nat /\ i \in Nat /\ 1 <= i /\ i <= Len(s)
  OBVIOUS
<1>2. \A k \in 1 .. Len(s) : s[k] \in S
  OBVIOUS
<1>3. /\ a \in Seq(S) /\ Len(a) = i - 1
      /\ \A k \in 1 .. i - 1 : a[k] = s[k]
  BY <1>1, <1>2, SubSeqProperties
<1>4. /\ b \in Seq(S) /\ Len(b) = Len(s) - i
      /\ \A k \in 1 .. Len(s) - i : b[k] = s[i + k]
  BY <1>1, <1>2, SubSeqProperties
<1> HIDE DEF a, b
<1>5. /\ a \o b \in Seq(S) /\ Len(a \o b) = Len(s) - 1
      /\ \A k \in 1 .. Len(s) - 1 : (a \o b)[k] = IF k <= i - 1 THEN a[k] ELSE b[k - (i - 1)]
  <2>1. /\ a \o b \in Seq(S) /\ Len(a \o b) = Len(a) + Len(b)
        /\ \A k \in 1 .. Len(a) + Len(b) : (a \o b)[k] = IF k <= Len(a) THEN a[k]
                                                                     ELSE b[k - Len(a)]
    BY <1>3, <1>4, ConcatProperties
  <2>2. Len(a) = i - 1 /\ Len(a) + Len(b) = Len(s) - 1
    BY <1>1, <1>3, <1>4
  <2>3. QED
    BY <2>1, <2>2
<1>6. ASSUME NEW k \in 1 .. Len(s) - 1
      PROVE  (a \o b)[k] = s[IF k < i THEN k ELSE k + 1]
  <2>1. CASE k < i
    BY <1>1, <1>3, <1>5, <2>1
  <2>2. CASE ~ (k < i)
    <3>1. k - (i - 1) \in 1 .. Len(s) - i /\ i + (k - (i - 1)) = k + 1
      BY <1>1, <2>2
    <3>2. (a \o b)[k] = b[k - (i - 1)]
      <4>1. ~ (k <= i - 1)
        BY <1>1, <2>2
      <4>2. QED
        BY <1>5, <4>1
    <3>3. QED
      BY <1>4, <2>2, <3>1, <3>2
  <2>3. QED
    BY <2>1, <2>2
<1>7. QED
  BY <1>5, <1>6 DEF a, b

\* Whatever was the order of the rows, each policy keeps a single one.
LEMMA UpdateKeepsPolicies ==
    ASSUME PoliciesOK, NEW p \in Policies, NEW scope \in Scopes, NEW paused \in Pause,
           UpdatedRow(p, scope, paused)
    PROVE  PoliciesOK'
<1> DEFINE row == [id |-> p, scope |-> scope, paused |-> paused]
<1>1. row \in PolicyRow
  BY DEF PolicyRow
<1>2. ASSUME NEW t \in Seq(PolicyRow), policies' = Append(t, row),
             \A i \in 1 .. Len(t) : t[i].id # p,
             \A i, j \in 1 .. Len(t) : t[i].id = t[j].id => i = j
      PROVE  PoliciesOK'
  <2>1. /\ policies' \in Seq(PolicyRow)
        /\ Len(policies') = Len(t) + 1
        /\ \A i \in 1 .. Len(t) : policies'[i] = t[i]
        /\ policies'[Len(t) + 1] = row
    BY <1>1, <1>2, AppendProperties
  <2>2. Len(t) \in Nat /\ DOMAIN policies' = 1 .. Len(t) + 1
    BY <2>1
  <2>3. row.id = p
    OBVIOUS
  <2> HIDE DEF row
  <2>4. ASSUME NEW i \in DOMAIN policies', NEW j \in DOMAIN policies',
               policies'[i].id = policies'[j].id
        PROVE  i = j
    <3>1. CASE i \in 1 .. Len(t) /\ j \in 1 .. Len(t)
      BY <1>2, <2>1, <2>4, <3>1
    <3>2. CASE i = Len(t) + 1
      BY <1>2, <2>1, <2>2, <2>3, <2>4, <3>2
    <3>3. CASE j = Len(t) + 1
      BY <1>2, <2>1, <2>2, <2>3, <2>4, <3>3
    <3>4. QED
      BY <2>2, <3>1, <3>2, <3>3
  <2>5. QED
    BY <2>1, <2>4 DEF PoliciesOK
<1> HIDE DEF row
<1>3. DOMAIN policies = 1 .. Len(policies) /\ policies \in Seq(PolicyRow) /\ Len(policies) \in Nat
  BY DEF PoliciesOK
<1>4. CASE /\ \A i \in DOMAIN policies : policies[i].id # p
           /\ policies' = Append(policies, row)
  BY <1>2, <1>3, <1>4 DEF PoliciesOK
<1>5. ASSUME NEW i \in DOMAIN policies, policies[i].id = p,
             policies' = Append(SubSeq(policies, 1, i - 1)
                                    \o SubSeq(policies, i + 1, Len(policies)), row)
      PROVE  PoliciesOK'
  <2> DEFINE t == SubSeq(policies, 1, i - 1) \o SubSeq(policies, i + 1, Len(policies))
             old(k) == IF k < i THEN k ELSE k + 1
  <2>1. /\ t \in Seq(PolicyRow)
        /\ Len(t) = Len(policies) - 1
        /\ \A k \in 1 .. Len(t) : t[k] = policies[old(k)]
    BY <1>3, WithoutOne
  <2>2. \A k \in 1 .. Len(t) : old(k) \in DOMAIN policies /\ old(k) # i
    BY <1>3, <2>1
  <2>3. ASSUME NEW k \in 1 .. Len(t), NEW l \in 1 .. Len(t), old(k) = old(l)
        PROVE  k = l
    <3>1. k \in Int /\ l \in Int /\ i \in Int
      BY <1>3, <2>1
    <3> HIDE DEF t
    <3>2. QED
      BY <2>3, <3>1
  <2>4. policies' = Append(t, row)
    BY <1>5
  <2> HIDE DEF t, old
  <2>5. \A k \in 1 .. Len(t) : t[k].id # p
    BY <1>5, <2>1, <2>2 DEF PoliciesOK
  <2>6. \A k, l \in 1 .. Len(t) : t[k].id = t[l].id => k = l
    BY <2>1, <2>2, <2>3 DEF PoliciesOK
  <2>7. QED
    BY <1>2, <2>1, <2>4, <2>5, <2>6
<1>6. QED
  BY <1>4, <1>5 DEF UpdatedRow, row

LEMMA StepKeepsPolicies ==
    ASSUME PoliciesOK, [Next]_vars
    PROVE  PoliciesOK'
<1>1. CASE UNCHANGED policies
  BY <1>1 DEF PoliciesOK
<1>2. ASSUME NEW p \in Policies, UpsertPolicy(p) PROVE PoliciesOK'
  BY <1>2, UpdateKeepsPolicies DEF UpsertPolicy
<1>3. ASSUME NEW p \in Policies, SetDeliveryPolicyPaused(p) PROVE PoliciesOK'
  <2>1. PICK i \in DOMAIN policies, paused \in {"paused", "running"} :
            UpdatedRow(p, policies[i].scope, paused)
    BY <1>3 DEF SetDeliveryPolicyPaused
  <2>2. policies[i].scope \in Scopes
    <3>1. policies[i] \in PolicyRow
      BY DEF PoliciesOK
    <3>2. QED
      BY <3>1 DEF PolicyRow
  <2>3. paused \in Pause
    BY DEF Pause
  <2>4. QED
    BY <2>1, <2>2, <2>3, UpdateKeepsPolicies
<1>4. ASSUME NEW c \in Clients, ClientNext(c) PROVE UNCHANGED policies
  BY <1>4 DEF ClientNext, CreateNotification, EnsureInitialAttempt, SelectForRedrive,
     RedriveNotification, MarkAttemptInProgress, Settle, InsertAttempt
<1>5. ASSUME NEW c \in Callers, RecalculateNotificationStatus(c) \/ CallFails(c)
      PROVE  UNCHANGED policies
  BY <1>5 DEF RecalculateNotificationStatus, ReadRow, ReadAttempts, WriteStatus, CallFails
<1>6. CASE PromoteDueScheduledNotifications
  BY <1>1, <1>6 DEF PromoteDueScheduledNotifications
<1>7. ASSUME NEW n \in Notifications,
             CancelScheduledNotification(n) \/ PublishIntent(n) \/ Maintenance(n) \/ ComesDue(n)
      PROVE  UNCHANGED policies
  BY <1>7 DEF CancelScheduledNotification, PublishIntent, Maintenance, ComesDue
<1>8. CASE UNCHANGED vars
  BY <1>1, <1>8 DEF vars
<1>9. QED
  BY <1>1, <1>2, <1>3, <1>4, <1>5, <1>6, <1>7, <1>8 DEF Next

\* Retries and replays stop at the bound.
LogsBounded == \A n \in Notifications : Len(log[n]) <= MaxAttempts

LEMMA StepKeepsBound ==
    ASSUME CancelInv, LogsBounded, [Next]_vars
    PROVE  LogsBounded'
<1>0. TablesOK
  BY DEF CancelInv
<1>1. CASE UNCHANGED log
  BY <1>1 DEF LogsBounded
<1>2. ASSUME NEW c \in Clients, NEW n \in Notifications, CreateNotification(c, n)
      PROVE  LogsBounded'
  <2>1. \A m \in Notifications : log'[m] = IF m = n THEN <<"pending">> ELSE log[m]
    BY <1>0, <1>2 DEF CreateNotification, TablesOK
  <2>2. Len(<<"pending">>) <= MaxAttempts
    BY SchedulingAssumption
  <2>3. QED
    BY <2>1, <2>2 DEF LogsBounded
<1>3. ASSUME NEW n \in Notifications, History!Activate(n) \/ History!Settle(n)
      PROVE  LogsBounded'
  BY <1>0, <1>3, MovingLog DEF LogMoves, LogsBounded
<1>4. ASSUME NEW c \in Clients, NEW n \in Notifications, InsertAttempt(c, n)
      PROVE  LogsBounded'
  <2>1. /\ LogMoves(n) /\ Len(log[n]) < MaxAttempts
        /\ History!Retry(n) \/ History!Replay(n)
    BY <1>4 DEF InsertAttempt, LogMoves
  <2>2. /\ Len(log[n]) \in Nat /\ Len(log'[n]) = Len(log[n]) + 1
        /\ \A m \in Notifications : m # n => log'[m] = log[m]
    BY <1>0, <2>1, MovingLog
  <2>3. Len(log'[n]) <= MaxAttempts
    BY <2>1, <2>2, SchedulingAssumption
  <2>4. QED
    BY <2>2, <2>3 DEF LogsBounded
<1>5. ASSUME NEW c \in Clients, ClientNext(c) PROVE LogsBounded'
  BY <1>1, <1>2, <1>3, <1>4, <1>5 DEF ClientNext, EnsureInitialAttempt, SelectForRedrive,
     RedriveNotification, MarkAttemptInProgress, Settle, rows
<1>6. ASSUME NEW c \in Callers, RecalculateNotificationStatus(c) \/ CallFails(c)
      PROVE  UNCHANGED log
  BY <1>6 DEF RecalculateNotificationStatus, ReadRow, ReadAttempts, WriteStatus, CallFails, rows
<1>7. CASE PromoteDueScheduledNotifications
  BY <1>1, <1>7 DEF PromoteDueScheduledNotifications
<1>8. ASSUME NEW n \in Notifications,
             CancelScheduledNotification(n) \/ PublishIntent(n) \/ Maintenance(n) \/ ComesDue(n)
      PROVE  UNCHANGED log
  BY <1>8 DEF CancelScheduledNotification, PublishIntent, Maintenance, ComesDue
<1>9. ASSUME NEW p \in Policies, UpsertPolicy(p) \/ SetDeliveryPolicyPaused(p)
      PROVE  UNCHANGED log
  BY <1>9 DEF UpsertPolicy, SetDeliveryPolicyPaused, rows
<1>10. CASE UNCHANGED vars
  BY <1>1, <1>10 DEF vars
<1>11. QED
  BY <1>1, <1>5, <1>6, <1>7, <1>8, <1>9, <1>10 DEF Next

\* CancelInv has what TypeOK alone does not keep: a redrive only edits the
\* outbox row of a notification that was created.
TypeInv ==
    /\ CancelInv
    /\ TypeOK

\* Every client, every run of the scheduler and every late recalculation leaves
\* tables the code can read: one outbox row per attempt, one row per policy
\* whatever the order of its updates, and callers that only carry known
\* notifications on.
THEOREM TypesCorrect == Spec => []TypeOK
<1>1. Init => TypeInv
  <2> SUFFICES ASSUME Init PROVE TypeInv
    OBVIOUS
  <2>1. CancelInv
    BY CancelAtStart
  <2>2. policies \in Seq(PolicyRow) /\ DOMAIN policies = {}
    BY DEF Init
  <2>3. /\ promoted \subseteq Notifications
        /\ \A n \in Notifications : Len(log[n]) <= MaxAttempts
        /\ faults \in 0 .. MaxFaults
    BY SchedulingAssumption DEF Init
  <2>4. QED
    BY <2>1, <2>2, <2>3 DEF CancelInv, TablesOK, TypeInv, TypeOK
<1>2. TypeInv /\ [Next]_vars => TypeInv'
  <2> SUFFICES ASSUME TypeInv, [Next]_vars PROVE TypeInv'
    OBVIOUS
  <2>1. CancelInv' /\ TablesOK'
    BY StepKeepsCancel DEF TypeInv, CancelInv
  <2>2. PoliciesOK'
    BY StepKeepsPolicies DEF TypeInv, TypeOK, PoliciesOK
  <2>3. LogsBounded'
    BY StepKeepsBound DEF TypeInv, TypeOK, LogsBounded
  <2>4. promoted' \subseteq Notifications
    <3>1. CASE UNCHANGED promoted
      BY <3>1 DEF TypeInv, TypeOK
    <3>2. ASSUME NEW c \in Clients, ClientNext(c) PROVE promoted' \subseteq Notifications
      BY <3>2 DEF ClientNext, CreateNotification, EnsureInitialAttempt, SelectForRedrive,
         RedriveNotification, MarkAttemptInProgress, Settle, InsertAttempt, rows, TypeInv, TypeOK
    <3>3. CASE PromoteDueScheduledNotifications
      BY <3>3 DEF PromoteDueScheduledNotifications, TypeInv, TypeOK
    <3>4. ASSUME NEW c \in Callers, RecalculateNotificationStatus(c) \/ CallFails(c)
          PROVE  UNCHANGED promoted
      BY <3>4 DEF RecalculateNotificationStatus, ReadRow, ReadAttempts, WriteStatus, CallFails,
         rows
    <3>5. ASSUME NEW n \in Notifications,
                 \/ CancelScheduledNotification(n) \/ PublishIntent(n)
                 \/ Maintenance(n) \/ ComesDue(n)
          PROVE  UNCHANGED promoted
      BY <3>5 DEF CancelScheduledNotification, PublishIntent, Maintenance, ComesDue
    <3>6. ASSUME NEW p \in Policies, UpsertPolicy(p) \/ SetDeliveryPolicyPaused(p)
          PROVE  UNCHANGED promoted
      BY <3>6 DEF UpsertPolicy, SetDeliveryPolicyPaused, rows
    <3>7. QED
      BY <3>1, <3>2, <3>3, <3>4, <3>5, <3>6 DEF Next, vars
  <2>5. faults' \in 0 .. MaxFaults
    <3>1. CASE UNCHANGED faults
      BY <3>1 DEF TypeInv, TypeOK
    <3>2. ASSUME NEW c \in Clients, ClientNext(c) PROVE UNCHANGED faults
      BY <3>2 DEF ClientNext, CreateNotification, EnsureInitialAttempt, SelectForRedrive,
         RedriveNotification, MarkAttemptInProgress, Settle, InsertAttempt
    <3>3. ASSUME NEW c \in Callers, CallFails(c) PROVE faults' \in 0 .. MaxFaults
      BY <3>3, SchedulingAssumption DEF CallFails, TypeInv, TypeOK
    <3>4. ASSUME NEW c \in Callers, RecalculateNotificationStatus(c) PROVE UNCHANGED faults
      BY <3>4 DEF RecalculateNotificationStatus, ReadRow, ReadAttempts, WriteStatus
    <3>5. ASSUME NEW n \in Notifications,
                 \/ CancelScheduledNotification(n) \/ PublishIntent(n)
                 \/ Maintenance(n) \/ ComesDue(n)
          PROVE  UNCHANGED faults
      BY <3>5 DEF CancelScheduledNotification, PublishIntent, Maintenance, ComesDue
    <3>6. ASSUME NEW p \in Policies, UpsertPolicy(p) \/ SetDeliveryPolicyPaused(p)
          PROVE  UNCHANGED faults
      BY <3>6 DEF UpsertPolicy, SetDeliveryPolicyPaused
    <3>7. CASE PromoteDueScheduledNotifications
      BY <3>1, <3>7 DEF PromoteDueScheduledNotifications
    <3>8. QED
      BY <3>1, <3>2, <3>3, <3>4, <3>5, <3>6, <3>7 DEF Next, vars
  <2>6. QED
    BY <2>1, <2>2, <2>3, <2>4, <2>5 DEF TypeInv, TypeOK, TablesOK, PoliciesOK, LogsBounded
<1>3. TypeInv => TypeOK
  BY DEF TypeInv
<1>4. QED
  BY <1>1, <1>2, <1>3, PTL DEF Spec

\* In every state the program can be in, the query of claim and promotion and
\* ResolveDeliveryPolicy agree on what is paused, as long as no scope has two
\* policies.
THEOREM ResolutionsAlwaysAgree == Spec => []ResolutionsAgree
BY TypesCorrect, PausesAgree, PTL

============================================================================
