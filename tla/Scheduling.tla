----------------------------- MODULE Scheduling -----------------------------
(***************************************************************************)
(* Scheduled notifications, their controls and the status they report:     *)
(* creation with a time, promotion, cancellation, redrive, the idempotent  *)
(* POST, pausing by delivery policies, and RecalculateNotificationStatus,  *)
(* which every caller runs after its transaction, statement by statement.  *)
(*                                                                         *)
(* The delivery of the attempts is represented by AttemptHistory, which    *)
(* the pipeline implements.  The policies are those that apply to the one  *)
(* tenant and channel of the notifications here.                           *)
(***************************************************************************)
EXTENDS Integers, Sequences

CONSTANTS
    Notifications,
    Policies,       \* ids of rows of delivery_policies
    Scopes,         \* of policies; the smaller, the more specific
    Clients,        \* of the store: API handlers, worker slots, retry workers
    Scheduler,      \* its client that promotes
    MaxAttempts,    \* bound: attempts of a notification
    MaxFaults       \* bound: failed calls and crashes

ASSUME SchedulingAssumption ==
    /\ Scopes \subseteq Nat
    /\ Scheduler \notin Clients
    /\ MaxAttempts \in Nat \ {0}
    /\ MaxFaults \in Nat

VARIABLES
    log,            \* notification -> statuses of its attempts
    intent,         \* notification -> outbox rows of its attempts
    due,            \* scheduled_for: not set, in the future or past
    status,         \* the status column of notifications
    promoted,       \* notifications with promoted_at
    cancelled,      \* notifications with cancelled_at
    policies,       \* rows of delivery_policies in the order of updated_at
    caller,         \* what each caller is doing
    faults

vars == <<log, intent, due, status, promoted, cancelled, policies, caller, faults>>
rows == <<log, intent, due, status, promoted, cancelled>>

History == INSTANCE AttemptHistory

Callers == Clients \cup {Scheduler}

AttemptStatus == History!Outcome \cup {"pending", "in_progress"}
Rollup == {"accepted", "processing", "delivered", "partially_delivered", "failed",
           "dead_lettered"}
NotificationStatus == Rollup \cup {"scheduled", "cancelled"}

\* No row and never published, to be published, published, deleted by
\* maintenance after that, and to be published another time.
OutboxRow == {"none", "pending", "published", "purged", "again"}

Pause == {"paused", "running", "unset"}
PolicyRow == [id : Policies, scope : Scopes, paused : Pause]

Idle == [at |-> "idle"]
Delivering(n) == [at |-> "delivering", of |-> n]
Redriving(n) == [at |-> "redriving", of |-> n]

\* The transaction of a caller is committed; the status of the notifications in
\* todo is still to be recalculated, and then the caller goes on.
Committed(todo, then) == [at |-> "committed", todo |-> todo, then |-> then]

AfterCommit == {Idle} \cup {Delivering(n) : n \in Notifications}
CallerState ==
    AfterCommit \cup {Redriving(n) : n \in Notifications}
    \cup [at : {"committed"}, todo : SUBSET Notifications, then : AfterCommit]
    \cup [at : {"row read"}, of : Notifications, promoted : BOOLEAN, cancelled : BOOLEAN,
          todo : SUBSET Notifications, then : AfterCommit]
    \cup [at : {"attempts read"}, of : Notifications, status : NotificationStatus,
          todo : SUBSET Notifications, then : AfterCommit]

TypeOK ==
    /\ log \in [Notifications -> Seq(AttemptStatus)]
    /\ intent \in [Notifications -> Seq(OutboxRow)]
    /\ \A n \in Notifications : Len(intent[n]) = Len(log[n]) /\ Len(log[n]) <= MaxAttempts
    /\ due \in [Notifications -> {"unset", "later", "now"}]
    /\ status \in [Notifications -> NotificationStatus \cup {"absent"}]
    /\ promoted \subseteq Notifications
    /\ cancelled \subseteq Notifications
    /\ policies \in Seq(PolicyRow)
    /\ \A i, j \in DOMAIN policies : policies[i].id = policies[j].id => i = j
    /\ caller \in [Callers -> CallerState]
    /\ faults \in 0 .. MaxFaults

Init ==
    /\ log = [n \in Notifications |-> <<>>]
    /\ intent = [n \in Notifications |-> <<>>]
    /\ due = [n \in Notifications |-> "unset"]
    /\ status = [n \in Notifications |-> "absent"]
    /\ promoted = {}
    /\ cancelled = {}
    /\ policies = <<>>
    /\ caller = [c \in Callers |-> Idle]
    /\ faults = 0

----------------------------------------------------------------------------
RowsOf(scope) == {i \in DOMAIN policies : policies[i].scope = scope}
Latest(is) == CHOOSE i \in is : \A j \in is : j <= i

(* Plausible defects of the operators below, for the mutation checks.      *)

\* Without the final false of COALESCE: NULL where no policy is set.
PausedInQueryWithoutDefault ==
    LET latest == {Latest(RowsOf(s)) : s \in {t \in Scopes : RowsOf(t) # {}}}
        set == {i \in latest : policies[i].paused # "unset"}
    IN  set = {} \/ \E i \in set :
            /\ policies[i].paused = "paused"
            /\ \A j \in set : policies[i].scope <= policies[j].scope

\* Redrive without FOR UPDATE.
LockedNever(n) == FALSE

\* Cancellation that does not look for dispatch intents.
CancelWithIntent(n) ==
    /\ due[n] = "later" /\ status[n] = "scheduled"
    /\ n \notin promoted \cup cancelled
    /\ status' = [status EXCEPT ![n] = "cancelled"]
    /\ cancelled' = cancelled \cup {n}
    /\ UNCHANGED <<log, intent, due, promoted, policies, caller, faults>>

\* A failed attempt counts for more than one that is still in work.
deriveStatusFailedFirst(statuses) ==
    CASE statuses = {"sent"} -> "delivered"
      [] "sent" \in statuses /\ statuses # {"sent"} -> "partially_delivered"
      [] "sent" \notin statuses /\ "failed" \in statuses -> "failed"
      [] "dead_lettered" \in statuses /\ statuses \cap {"sent", "failed"} = {} -> "dead_lettered"
      [] OTHER -> "processing"

\* A retry that leaves its dispatch intent to somebody else.
InsertAttemptWithoutIntent(c, n) ==
    /\ caller[c] = Idle
    /\ Len(log[n]) < MaxAttempts
    /\ History!Retry(n) \/ History!Replay(n)
    /\ UNCHANGED <<intent, due, status, promoted, cancelled, policies, caller, faults>>

----------------------------------------------------------------------------
(* Delivery policies.                                                      *)

\* The subqueries of the claim and of the promotion: of each scope the row
\* updated last, of these the first that is not NULL, else false.
PausedInQuery ==
    LET latest == {Latest(RowsOf(s)) : s \in {t \in Scopes : RowsOf(t) # {}}}
        set == {i \in latest : policies[i].paused # "unset"}
    IN  \E i \in set :
            /\ policies[i].paused = "paused"
            /\ \A j \in set : policies[i].scope <= policies[j].scope

\* ResolveDeliveryPolicy: the rows are applied from the least specific and
\* oldest on, each overriding what it sets.
PausedByPolicy ==
    LET set == {i \in DOMAIN policies : policies[i].paused # "unset"}
    IN  \E i \in set :
            /\ policies[i].paused = "paused"
            /\ \A j \in set : \/ policies[i].scope < policies[j].scope
                              \/ policies[i].scope = policies[j].scope /\ j <= i

\* A new row, or an update, which moves the row to the end of the order of
\* updated_at.
UpdatedRow(p, scope, paused) ==
    LET row == [id |-> p, scope |-> scope, paused |-> paused]
        Without(i) == SubSeq(policies, 1, i - 1) \o SubSeq(policies, i + 1, Len(policies))
    IN  \/ /\ \A i \in DOMAIN policies : policies[i].id # p
           /\ policies' = Append(policies, row)
        \/ \E i \in DOMAIN policies :
              /\ policies[i].id = p
              /\ policies' = Append(Without(i), row)

UpsertPolicy(p) ==
    /\ \E scope \in Scopes, paused \in Pause : UpdatedRow(p, scope, paused)
    /\ UNCHANGED <<rows, caller, faults>>

\* PausePolicy and ResumePolicy.
SetDeliveryPolicyPaused(p) ==
    /\ \E i \in DOMAIN policies, paused \in {"paused", "running"} :
          /\ policies[i].id = p
          /\ UpdatedRow(p, policies[i].scope, paused)
    /\ UNCHANGED <<rows, caller, faults>>

----------------------------------------------------------------------------
(* Rows of notifications and their outbox.                                 *)

Created(n) == log[n] # <<>>
HasRow(n, k) == intent[n][k] \in {"pending", "published", "again"}

\* A redrive holds FOR UPDATE locks on the rows of the notification and its
\* initial attempt.  They also block an insertion that refers to these rows.
Locked(n) == \E c \in Callers : caller[c] = Redriving(n)
LastAttemptLocked(n) == Locked(n) /\ Len(log[n]) = 1

\* createDispatchIntentTx with the default status.
InsertIntent(row) == CASE row = "none" -> "pending"
                       [] row = "purged" -> "again"
                       [] OTHER -> row

\* createDispatchIntentTx with the status publishedIntentStatus derives.
RestoreIntent(row) == CASE row = "none" -> "pending"
                        [] row = "purged" -> "published"
                        [] OTHER -> row

\* Caller c has committed and recalculates the status of those in todo.
Commits(c, todo, then) == caller' = [caller EXCEPT ![c] = Committed(todo, then)]

----------------------------------------------------------------------------
(* Transactions of the API and the scheduler.                              *)

\* POST of a new notification.  The clock is read once for the status and once
\* more for the dispatch intent.
CreateNotification(c, n) ==
    /\ caller[c] = Idle
    /\ ~ Created(n)
    /\ \E first, second \in {"unset", "later", "now"} :
          /\ second = first \/ (first = "later" /\ second = "now")
          /\ due' = [due EXCEPT ![n] = second]
          /\ status' = [status EXCEPT ![n] = IF first = "later" THEN "scheduled" ELSE "accepted"]
          /\ log' = [log EXCEPT ![n] = <<"pending">>]
          /\ intent' = [intent EXCEPT ![n] = <<IF second = "later" THEN "none" ELSE "pending">>]
          /\ IF second = "later" THEN UNCHANGED caller ELSE Commits(c, {n}, Idle)
    /\ UNCHANGED <<promoted, cancelled, policies, faults>>

\* Idempotent POST of a known notification.
EnsureInitialAttempt(c, n) ==
    /\ caller[c] = Idle
    /\ Created(n) /\ ~ Locked(n)
    /\ intent' = [intent EXCEPT ![n][1] = RestoreIntent(@)]
    /\ Commits(c, {n}, Idle)
    /\ UNCHANGED <<log, due, status, promoted, cancelled, policies, faults>>

Promotable(n) ==
    /\ Created(n) /\ due[n] = "now"
    /\ n \notin promoted \cup cancelled
    /\ ~ HasRow(n, 1)

\* One run of the scheduler: all due notifications that nobody has locked.
PromoteDueScheduledNotifications ==
    LET ns == {n \in Notifications : Promotable(n) /\ ~ Locked(n)}
    IN  /\ caller[Scheduler] = Idle
        /\ ns # {} /\ ~ PausedInQuery
        /\ intent' = [n \in Notifications |->
                          IF n \in ns THEN [intent[n] EXCEPT ![1] = InsertIntent(@)]
                                      ELSE intent[n]]
        /\ promoted' = promoted \cup ns
        /\ Commits(Scheduler, ns, Idle)
        /\ UNCHANGED <<log, due, status, cancelled, policies, faults>>

CancelScheduledNotification(n) ==
    /\ due[n] = "later" /\ status[n] = "scheduled"
    /\ n \notin promoted \cup cancelled
    /\ \A k \in DOMAIN intent[n] : ~ HasRow(n, k)
    /\ ~ Locked(n)
    /\ status' = [status EXCEPT ![n] = "cancelled"]
    /\ cancelled' = cancelled \cup {n}
    /\ UNCHANGED <<log, intent, due, promoted, policies, caller, faults>>

\* The SELECT ... FOR UPDATE of a redrive; any notification may be redriven.
SelectForRedrive(c, n) ==
    /\ caller[c] = Idle
    /\ Created(n)
    /\ n \notin promoted \cup cancelled
    /\ ~ HasRow(n, 1) /\ ~ Locked(n)
    /\ caller' = [caller EXCEPT ![c] = Redriving(n)]
    /\ UNCHANGED <<rows, policies, faults>>

\* The rest of it: the policy, resolved on another connection, decides.
RedriveNotification(c, n) ==
    /\ caller[c] = Redriving(n)
    /\ \/ /\ ~ PausedByPolicy
          /\ intent' = [intent EXCEPT ![n][1] = InsertIntent(@)]
          /\ promoted' = promoted \cup {n}
          /\ Commits(c, {n}, Idle)
       \/ /\ PausedByPolicy
          /\ caller' = [caller EXCEPT ![c] = Idle]
          /\ UNCHANGED <<intent, promoted>>
    /\ UNCHANGED <<log, due, status, cancelled, policies, faults>>

----------------------------------------------------------------------------
(* RecalculateNotificationStatus.                                          *)

Attempts(n) == {log[n][k] : k \in DOMAIN log[n]}

deriveNotificationStatus(statuses) ==
    LET active == statuses \cap {"pending", "in_progress", "retry_scheduled"}
    IN  CASE statuses = {"sent"} -> "delivered"
          [] "sent" \in statuses /\ statuses # {"sent"} -> "partially_delivered"
          [] "sent" \notin statuses /\ active # {} -> "processing"
          [] statuses \subseteq {"dead_lettered", "failed"} /\ "dead_lettered" \in statuses
                 -> "dead_lettered"
          [] statuses = {"failed"} -> "failed"
          [] OTHER -> "accepted"

ReadRow(c) ==
    /\ caller[c].at = "committed"
    /\ \E n \in caller[c].todo :
          caller' = [caller EXCEPT ![c] =
                        [at |-> "row read", of |-> n, promoted |-> n \in promoted,
                         cancelled |-> n \in cancelled, todo |-> @.todo \ {n}, then |-> @.then]]
    /\ UNCHANGED <<rows, policies, faults>>

\* The attempts are one snapshot; the clock is read after it.
ReadAttempts(c) ==
    /\ caller[c].at = "row read"
    /\ LET n == caller[c].of
           new == IF caller[c].cancelled THEN "cancelled"
                  ELSE IF due[n] = "later" /\ ~ caller[c].promoted THEN "scheduled"
                  ELSE deriveNotificationStatus(Attempts(n))
       IN  caller' = [caller EXCEPT ![c] =
                        [at |-> "attempts read", of |-> n, status |-> new,
                         todo |-> @.todo, then |-> @.then]]
    /\ UNCHANGED <<rows, policies, faults>>

WriteStatus(c) ==
    /\ caller[c].at = "attempts read"
    /\ ~ Locked(caller[c].of)
    /\ status' = [status EXCEPT ![caller[c].of] = caller[c].status]
    /\ caller' = [caller EXCEPT ![c] = IF @.todo = {} THEN @.then ELSE Committed(@.todo, @.then)]
    /\ UNCHANGED <<log, intent, due, promoted, cancelled, policies, faults>>

\* A statement fails or the process dies: an open transaction is rolled back,
\* and what was to follow a committed one is not done.
CallFails(c) ==
    /\ caller[c] # Idle
    /\ faults < MaxFaults
    /\ faults' = faults + 1
    /\ caller' = [caller EXCEPT ![c] = Idle]
    /\ UNCHANGED <<rows, policies>>

----------------------------------------------------------------------------
(* The delivery of attempts.                                               *)

\* From the claim of an outbox row to its mark.
PublishIntent(n) ==
    /\ ~ PausedInQuery
    /\ \E k \in DOMAIN intent[n] :
          /\ intent[n][k] \in {"pending", "again"}
          /\ intent' = [intent EXCEPT ![n][k] = "published"]
    /\ UNCHANGED <<log, due, status, promoted, cancelled, policies, caller, faults>>

\* A job of an attempt may be there once it is published; when its row is
\* purged, the job has been worked off or lost.
MarkAttemptInProgress(c, n) ==
    /\ caller[c] = Idle
    /\ Created(n) /\ intent[n][Len(intent[n])] = "published"
    /\ History!Activate(n) /\ ~ LastAttemptLocked(n)
    /\ Commits(c, {n}, Delivering(n))
    /\ UNCHANGED <<intent, due, status, promoted, cancelled, policies, faults>>

Settle(c, n) ==
    /\ caller[c] = Delivering(n)
    /\ History!Settle(n) /\ ~ LastAttemptLocked(n)
    /\ Commits(c, {n}, Idle)
    /\ UNCHANGED <<intent, due, status, promoted, cancelled, policies, faults>>

\* EnsureRetryAttempt and EnsureReplayAttempt insert the attempt's intent, too.
InsertAttempt(c, n) ==
    /\ caller[c] = Idle
    /\ Len(log[n]) < MaxAttempts
    /\ History!Retry(n) \/ History!Replay(n)
    /\ ~ Locked(n)
    /\ intent' = [intent EXCEPT ![n] = Append(@, "pending")]
    /\ Commits(c, {n}, Idle)
    /\ UNCHANGED <<due, status, promoted, cancelled, policies, faults>>

\* Retention is longer than any call takes and any job waits.
Maintenance(n) ==
    /\ \A c \in Callers : caller[c] = Idle
    /\ \E k \in DOMAIN intent[n] :
          /\ intent[n][k] = "published"
          /\ intent' = [intent EXCEPT ![n][k] = "purged"]
    /\ UNCHANGED <<log, due, status, promoted, cancelled, policies, caller, faults>>

ComesDue(n) ==
    /\ due[n] = "later"
    /\ due' = [due EXCEPT ![n] = "now"]
    /\ UNCHANGED <<log, intent, status, promoted, cancelled, policies, caller, faults>>

----------------------------------------------------------------------------
ClientNext(c) ==
    \E n \in Notifications :
        \/ CreateNotification(c, n)
        \/ EnsureInitialAttempt(c, n)
        \/ SelectForRedrive(c, n)
        \/ RedriveNotification(c, n)
        \/ MarkAttemptInProgress(c, n)
        \/ Settle(c, n)
        \/ InsertAttempt(c, n)

RecalculateNotificationStatus(c) == ReadRow(c) \/ ReadAttempts(c) \/ WriteStatus(c)

Next ==
    \/ \E c \in Clients : ClientNext(c)
    \/ PromoteDueScheduledNotifications
    \/ \E c \in Callers : RecalculateNotificationStatus(c) \/ CallFails(c)
    \/ \E n \in Notifications :
          \/ CancelScheduledNotification(n)
          \/ PublishIntent(n)
          \/ Maintenance(n)
          \/ ComesDue(n)
    \/ \E p \in Policies : UpsertPolicy(p) \/ SetDeliveryPolicyPaused(p)

Spec == Init /\ [][Next]_vars

\* The scheduler and the publisher poll on tickers; a recalculation and a
\* redrive that have begun go on unless they fail.
FairSpec ==
    /\ Spec
    /\ WF_vars(PromoteDueScheduledNotifications)
    /\ \A n \in Notifications : WF_vars(PublishIntent(n))
    /\ \A c \in Callers : WF_vars(RecalculateNotificationStatus(c))
    /\ \A c \in Clients : WF_vars(\E n \in Notifications : RedriveNotification(c, n))

----------------------------------------------------------------------------
\* Cancellation and promotion exclude each other, however cancel requests,
\* redrives and runs of the scheduler interleave (row locks, and the conditions
\* of both updates).
NeverCancelledAndPromoted == promoted \cap cancelled = {}

\* A recalculation that read the notification before it was cancelled never
\* overwrites the status that CancelScheduledNotification wrote.
CancelledStaysCancelled == \A n \in cancelled : status[n] = "cancelled"

\* A stale recalculation may report that a notification is still in work, but
\* none reports a delivery or a final failure that is not there
\* (deriveNotificationStatus, RecalculateNotificationStatus).
FinalStatusIsTrue ==
    \A n \in Notifications :
        /\ status[n] \in {"delivered", "partially_delivered"} => "sent" \in Attempts(n)
        /\ status[n] = "failed" => Attempts(n) = {"failed"}

\* Once no policy pauses any more, whatever is due and not cancelled is
\* published, even if it was redriven, repeated or purged meanwhile
\* (PromoteDueScheduledNotifications, ClaimPendingDispatchIntents).
DueIsPublished ==
    <>[] (\A i \in DOMAIN policies : policies[i].paused # "paused") =>
        \A n \in Notifications :
            Created(n) /\ due[n] = "now" /\ n \notin cancelled
                ~> Created(n) /\ intent[n][1] \in {"published", "purged"}

\* The query of claim and promotion and ResolveDeliveryPolicy, which redrives
\* use, agree on what is paused as long as no scope has two policies.  With two
\* they need not: the query does not look behind a later row that leaves paused
\* NULL.
ResolutionsAgree ==
    (\A i, j \in DOMAIN policies : policies[i].scope = policies[j].scope => i = j)
        => (PausedInQuery <=> PausedByPolicy)

\* docs/runbook.md:78 on cancellation: "Confirm no dispatch intent was
\* published for that notification" (EnsureInitialAttempt does not look at
\* scheduled_for or cancelled_at).
CancelledIsNotPublished ==
    \A n \in cancelled : \A k \in DOMAIN intent[n] : intent[n][k] \in {"none", "pending"}

\* README.md:37: "notification status rollups derived from durable attempt
\* history": with no call under way and none failed, the status is the one of
\* the attempts (RecalculateNotificationStatus).
RollupIsCurrent ==
    (faults = 0 /\ \A c \in Callers : caller[c] = Idle) =>
        \A n \in Notifications :
            status[n] \in Rollup \ {"accepted"} =>
                status[n] = deriveNotificationStatus(Attempts(n))

============================================================================
