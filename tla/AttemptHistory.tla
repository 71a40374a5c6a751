--------------------------- MODULE AttemptHistory ---------------------------
(***************************************************************************)
(* What the pipeline promises about one notification, with the outbox, the *)
(* queues and the processes left out: its attempts are a log of statuses   *)
(* of which only the last entry changes.  An attempt is activated once and *)
(* settled once; a new attempt follows a scheduled retry, which is thereby *)
(* closed as failed, or the replay of a dead-lettered attempt.  Nothing    *)
(* ever follows a sent attempt or one that failed for good.                *)
(***************************************************************************)
EXTENDS Integers, Sequences

CONSTANT Notifications

VARIABLE log    \* notification -> statuses of its attempts, oldest first

Outcome == {"sent", "failed", "retry_scheduled", "dead_lettered"}

Init == log = [n \in Notifications |-> <<>>]

LastIs(n, status) == log[n] # <<>> /\ log[n][Len(log[n])] = status

\* The last entry of n becomes status.
Replace(n, status) == [log[n] EXCEPT ![Len(log[n])] = status]

Accept(n) ==
    /\ log[n] = <<>>
    /\ log' = [log EXCEPT ![n] = <<"pending">>]

Activate(n) ==
    /\ LastIs(n, "pending")
    /\ log' = [log EXCEPT ![n] = Replace(n, "in_progress")]

Settle(n) ==
    /\ LastIs(n, "in_progress")
    /\ \E status \in Outcome : log' = [log EXCEPT ![n] = Replace(n, status)]

Retry(n) ==
    /\ LastIs(n, "retry_scheduled")
    /\ log' = [log EXCEPT ![n] = Append(Replace(n, "failed"), "pending")]

Replay(n) ==
    /\ LastIs(n, "dead_lettered")
    /\ log' = [log EXCEPT ![n] = Append(@, "pending")]

Next == \E n \in Notifications :
            Accept(n) \/ Activate(n) \/ Settle(n) \/ Retry(n) \/ Replay(n)

Spec == Init /\ [][Next]_log

============================================================================
