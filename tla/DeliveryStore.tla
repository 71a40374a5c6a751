--------------------------- MODULE DeliveryStore ---------------------------
(***************************************************************************)
(* The Postgres tables a delivery moves through (internal/store), and the  *)
(* transactions that change them, one operator per transaction:            *)
(*                                                                         *)
(*   delivery_attempts   attempt, enqueuedAt    one row per <<notification,*)
(*                                              attempt number>>           *)
(*   dispatch_outbox     intent, claim          at most one row per attempt*)
(*   dead_letters        deadLetter, replayOf   one row per dead letter    *)
(*                                                                         *)
(* An operator is the whole transaction: its guard holds the WHERE clause, *)
(* its primed variables are the rows it writes.  A row is "absent" before  *)
(* it is inserted and after maintenance has deleted it.  Timestamps are    *)
(* kept only for what the code decides with them: dispatch_enqueued_at is  *)
(* set or not, and claimed_at, which fences one claim of an intent from a  *)
(* later one, is the publisher that made the claim.                        *)
(***************************************************************************)
EXTENDS Integers

CONSTANTS
    Notifications,  \* notification ids (each has one channel, hence one chain of attempts)
    MaxNumber,      \* bound: the highest attempt number a notification reaches here
    Publishers,     \* processes that claim outbox rows
    None            \* SQL NULL

\* UNIQUE (notification_id, channel, attempt_number): the key names the row.
Attempt == Notifications \X (1 .. MaxNumber)

ASSUME StoreAssumption ==
    /\ MaxNumber \in Nat \ {0}
    /\ None \notin Publishers
    /\ None \notin Attempt

VARIABLES
    attempt,        \* delivery_attempts.status
    enqueuedAt,     \* delivery_attempts.dispatch_enqueued_at IS NOT NULL
    intent,         \* dispatch_outbox.status
    claim,          \* dispatch_outbox.claimed_at, as the publisher that set it
    deadLetter,     \* dead_letters row caused by the attempt: open until replayed_at is set
    replayOf        \* dead_letters.replay_attempt_id

storeVars == <<attempt, enqueuedAt, intent, claim, deadLetter, replayOf>>

AttemptStatus ==
    {"pending", "in_progress", "sent", "failed", "retry_scheduled", "dead_lettered"}
IntentStatus == {"pending", "publishing", "published"}

StoreTypeOK ==
    /\ attempt \in [Attempt -> {"absent"} \cup AttemptStatus]
    /\ enqueuedAt \in [Attempt -> BOOLEAN]
    /\ intent \in [Attempt -> {"absent"} \cup IntentStatus]
    /\ claim \in [Attempt -> Publishers \cup {None}]
    /\ deadLetter \in [Attempt -> {"absent", "open", "replayed"}]
    /\ replayOf \in [Attempt -> Attempt \cup {None}]

StoreInit ==
    /\ attempt = [a \in Attempt |-> "absent"]
    /\ enqueuedAt = [a \in Attempt |-> FALSE]
    /\ intent = [a \in Attempt |-> "absent"]
    /\ claim = [a \in Attempt |-> None]
    /\ deadLetter = [a \in Attempt |-> "absent"]
    /\ replayOf = [a \in Attempt |-> None]

Initial(n) == <<n, 1>>

\* The row EnsureRetryAttempt creates next to a scheduled attempt.
Child(a) == <<a[1], a[2] + 1>>

Exists(a) == attempt[a] # "absent"

\* COALESCE(MAX(attempt_number), 0) + 1 over the rows of one notification.
IsNextNumber(a) ==
    /\ \A b \in Attempt : b[1] = a[1] /\ b[2] >= a[2] => ~ Exists(b)
    /\ a[2] > 1 => Exists(<<a[1], a[2] - 1>>)

----------------------------------------------------------------------------
(* Plausible defects of the operators below, for the mutation checks.      *)

InsertedIntentIgnoringEnqueuedAt(a) ==
    IF intent[a] = "absent" THEN "pending" ELSE intent[a]

HoldsClaimByStatusOnly(p, a) == intent[a] = "publishing"

MarkAttemptInProgressUnlessFinal(a) ==
    /\ attempt[a] \in {"pending", "in_progress"}
    /\ attempt' = [attempt EXCEPT ![a] = "in_progress"]
    /\ UNCHANGED <<enqueuedAt, intent, claim, deadLetter, replayOf>>

\* Without status = 'publishing': no row of a dead publisher is ever reclaimed.
ClaimPendingRowsOnly(p, rows) ==
    /\ \A a \in rows : intent[a] = "pending"
    /\ intent' = [a \in Attempt |-> IF a \in rows THEN "publishing" ELSE intent[a]]
    /\ claim' = [a \in Attempt |-> IF a \in rows THEN p ELSE claim[a]]
    /\ UNCHANGED <<attempt, enqueuedAt, deadLetter, replayOf>>

\* Without id = $1: the update ends every row of the claim.
MarkWholeClaimPublished(p, a) ==
    IF intent[a] = "publishing" /\ claim[a] = p
      THEN /\ intent' = [b \in Attempt |-> IF claim[b] = p THEN "published" ELSE intent[b]]
           /\ claim' = [b \in Attempt |-> IF claim[b] = p THEN None ELSE claim[b]]
           /\ enqueuedAt' = [enqueuedAt EXCEPT ![a] = TRUE]
           /\ UNCHANGED <<attempt, deadLetter, replayOf>>
      ELSE UNCHANGED storeVars

\* The parent keeps its status and stays due.
EnsureRetryAttemptKeepingParent(a) ==
    /\ a[2] < MaxNumber
    /\ attempt[a] = "retry_scheduled" /\ ~ Exists(Child(a))
    /\ attempt' = [attempt EXCEPT ![Child(a)] = "pending"]
    /\ intent' = [intent EXCEPT ![Child(a)] = "pending"]
    /\ UNCHANGED <<enqueuedAt, claim, deadLetter, replayOf>>

\* Without the status check behind FOR UPDATE: a stale due list retries an
\* attempt that has failed for good meanwhile.
EnsureRetryAttemptUnchecked(a) ==
    /\ a[2] < MaxNumber
    /\ attempt[a] \in {"retry_scheduled", "failed"} /\ ~ Exists(Child(a))
    /\ attempt' = [attempt EXCEPT ![a] = "failed", ![Child(a)] = "pending"]
    /\ intent' = [intent EXCEPT ![Child(a)] = "pending"]
    /\ UNCHANGED <<enqueuedAt, claim, deadLetter, replayOf>>

\* A second replay of a dead letter inserts a second attempt.
EnsureReplayAttemptEveryTime(d) ==
    /\ deadLetter[d] = "open"
    /\ \E a \in Attempt :
          /\ a[1] = d[1]
          /\ IsNextNumber(a)
          /\ attempt' = [attempt EXCEPT ![a] = "pending"]
          /\ intent' = [intent EXCEPT ![a] = "pending"]
          /\ replayOf' = [replayOf EXCEPT ![d] = a]
    /\ UNCHANGED <<enqueuedAt, claim, deadLetter>>

----------------------------------------------------------------------------
(* Rows of the outbox.                                                     *)

\* INSERT ... ON CONFLICT (attempt_id) DO NOTHING, with the status that
\* publishedIntentStatus derives from dispatch_enqueued_at.
InsertedIntent(a) ==
    IF intent[a] # "absent" THEN intent[a]
    ELSE IF enqueuedAt[a] THEN "published" ELSE "pending"

\* WHERE status = 'publishing' AND claimed_at = $n
HoldsClaim(p, a) == intent[a] = "publishing" /\ claim[a] = p

ClaimPendingDispatchIntents(p, rows) ==
    /\ \A a \in rows : intent[a] \in {"pending", "publishing"}
    /\ intent' = [a \in Attempt |-> IF a \in rows THEN "publishing" ELSE intent[a]]
    /\ claim' = [a \in Attempt |-> IF a \in rows THEN p ELSE claim[a]]
    /\ UNCHANGED <<attempt, enqueuedAt, deadLetter, replayOf>>

\* What the call returns: nil if the claim was ours or somebody has already
\* published the row, ErrNotFound or ErrInvalidStateTransition otherwise.
MarkPublishedOK(p, a) == HoldsClaim(p, a) \/ intent[a] = "published"

MarkDispatchIntentPublished(p, a) ==
    IF HoldsClaim(p, a)
      THEN /\ intent' = [intent EXCEPT ![a] = "published"]
           /\ claim' = [claim EXCEPT ![a] = None]
           /\ enqueuedAt' = [enqueuedAt EXCEPT ![a] = TRUE]
           /\ deadLetter' = [d \in Attempt |->
                                IF deadLetter[d] = "open" /\ replayOf[d] = a
                                  THEN "replayed" ELSE deadLetter[d]]
           /\ UNCHANGED <<attempt, replayOf>>
      ELSE UNCHANGED storeVars

RecordDispatchIntentError(p, a) ==
    IF HoldsClaim(p, a)
      THEN /\ intent' = [intent EXCEPT ![a] = "pending"]
           /\ claim' = [claim EXCEPT ![a] = None]
           /\ UNCHANGED <<attempt, enqueuedAt, deadLetter, replayOf>>
      ELSE UNCHANGED storeVars

----------------------------------------------------------------------------
(* Transactions that create attempts.                                      *)

CreateNotificationWithInitialDispatch(n) ==
    /\ ~ Exists(Initial(n))
    /\ attempt' = [attempt EXCEPT ![Initial(n)] = "pending"]
    /\ intent' = [intent EXCEPT ![Initial(n)] = "pending"]
    /\ UNCHANGED <<enqueuedAt, claim, deadLetter, replayOf>>

\* Idempotent POST of a known notification.  The attempt row is always there
\* (both rows are inserted by the transaction above); the intent may have been
\* deleted by maintenance.
EnsureInitialAttempt(n) ==
    /\ Exists(Initial(n))
    /\ intent' = [intent EXCEPT ![Initial(n)] = InsertedIntent(Initial(n))]
    /\ UNCHANGED <<attempt, enqueuedAt, claim, deadLetter, replayOf>>

\* The first disjunct creates the child; the second is a caller working from a
\* list it read before somebody else retried the attempt.
EnsureRetryAttempt(a) ==
    /\ a[2] < MaxNumber
    /\ \/ /\ attempt[a] = "retry_scheduled"
          /\ ~ Exists(Child(a))
          /\ attempt' = [attempt EXCEPT ![a] = "failed", ![Child(a)] = "pending"]
       \/ /\ attempt[a] = "failed"
          /\ Exists(Child(a))
          /\ UNCHANGED attempt
    /\ intent' = [intent EXCEPT ![Child(a)] = InsertedIntent(Child(a))]
    /\ UNCHANGED <<enqueuedAt, claim, deadLetter, replayOf>>

\* A dead letter that is already replayed is left alone.
EnsureReplayAttempt(d) ==
    /\ deadLetter[d] = "open"
    /\ \/ \E a \in Attempt :
            /\ replayOf[d] = None
            /\ a[1] = d[1]
            /\ IsNextNumber(a)
            /\ attempt' = [attempt EXCEPT ![a] = "pending"]
            /\ intent' = [intent EXCEPT ![a] = InsertedIntent(a)]
            /\ replayOf' = [replayOf EXCEPT ![d] = a]
       \/ /\ replayOf[d] # None
          /\ intent' = [intent EXCEPT ![replayOf[d]] = InsertedIntent(replayOf[d])]
          /\ UNCHANGED <<attempt, replayOf>>
    /\ UNCHANGED <<enqueuedAt, claim, deadLetter>>

----------------------------------------------------------------------------
(* Compare-and-set updates of one attempt row.                             *)

MarkAttemptInProgress(a) ==
    /\ attempt[a] = "pending"
    /\ attempt' = [attempt EXCEPT ![a] = "in_progress"]
    /\ UNCHANGED <<enqueuedAt, intent, claim, deadLetter, replayOf>>

SettleAttempt(a, status) ==
    /\ attempt[a] = "in_progress"
    /\ attempt' = [attempt EXCEPT ![a] = status]
    /\ UNCHANGED <<enqueuedAt, intent, claim, deadLetter, replayOf>>

MarkAttemptSent(a) == SettleAttempt(a, "sent")
MarkAttemptFailed(a) == SettleAttempt(a, "failed")
ScheduleRetry(a) == SettleAttempt(a, "retry_scheduled")
MarkAttemptDeadLettered(a) == SettleAttempt(a, "dead_lettered")

InsertDeadLetter(a) ==
    /\ deadLetter' = [deadLetter EXCEPT ![a] = "open"]
    /\ UNCHANGED <<attempt, enqueuedAt, intent, claim, replayOf>>

----------------------------------------------------------------------------
\* Retention: some old published intents and replayed dead letters disappear.
RunMaintenance(intents, letters) ==
    /\ \A a \in intents : intent[a] = "published"
    /\ \A d \in letters : deadLetter[d] = "replayed"
    /\ intent' = [a \in Attempt |-> IF a \in intents THEN "absent" ELSE intent[a]]
    /\ deadLetter' = [d \in Attempt |-> IF d \in letters THEN "absent" ELSE deadLetter[d]]
    /\ replayOf' = [d \in Attempt |-> IF d \in letters THEN None ELSE replayOf[d]]
    /\ UNCHANGED <<attempt, enqueuedAt, claim>>

============================================================================
