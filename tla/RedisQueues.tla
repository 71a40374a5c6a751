---------------------------- MODULE RedisQueues ----------------------------
(***************************************************************************)
(* The Redis lists of internal/queue: the shared dispatch queue, one queue *)
(* per channel, and the processing list paired with each of them.  A job   *)
(* is the JSON payload of a DispatchJob; its job id is fresh for every     *)
(* publication, so LREM by payload tells publications apart, but a list    *)
(* may hold several copies of one payload.  A list is kept as a bag,       *)
(* payload -> number of copies: every consumer may receive any of them,    *)
(* which covers the order the lists really have (RPUSH then RPOP).         *)
(***************************************************************************)
EXTENDS Integers

VARIABLES
    queue,       \* source lists
    processing   \* reserved jobs, not acknowledged yet

queueVars == <<queue, processing>>

Channel == {"webhook", "email"}
Queue == {"dispatch"} \cup Channel

QueuesTypeOK(jobs) ==
    /\ queue \in [Queue -> [jobs -> Nat]]
    /\ processing \in [Queue -> [jobs -> Nat]]

QueuesInit(jobs) ==
    /\ queue = [q \in Queue |-> [j \in jobs |-> 0]]
    /\ processing = [q \in Queue |-> [j \in jobs |-> 0]]

\* A copy of job j is in list q or in its processing list.
Holds(q, j) == queue[q][j] > 0 \/ processing[q][j] > 0

----------------------------------------------------------------------------
(* Plausible defects, for the mutation checks.                             *)

\* RPOP without a processing list: the reservation is only in memory.
ReserveWithoutProcessingList(q, j) ==
    /\ queue[q][j] > 0
    /\ queue' = [queue EXCEPT ![q][j] = @ - 1]
    /\ UNCHANGED processing

\* An ack that assumes the copy is still in the processing list.
AckReservedUnchecked(q, j) ==
    /\ processing' = [processing EXCEPT ![q][j] = @ - 1]
    /\ UNCHANGED queue

----------------------------------------------------------------------------
\* EnqueueDispatch, EnqueueChannel: RPUSH
Enqueue(q, j) ==
    /\ queue' = [queue EXCEPT ![q][j] = @ + 1]
    /\ UNCHANGED processing

\* ReserveDispatch, ReserveChannel: BRPOPLPUSH
Reserve(q, j) ==
    /\ queue[q][j] > 0
    /\ queue' = [queue EXCEPT ![q][j] = @ - 1]
    /\ processing' = [processing EXCEPT ![q][j] = @ + 1]

\* LREM of one copy.  When a recovery has taken the copy away the call
\* removes nothing (and returns an error, which every caller only logs).
AckReserved(q, j) ==
    /\ processing' = [processing EXCEPT ![q][j] = IF @ > 0 THEN @ - 1 ELSE @]
    /\ UNCHANGED queue

\* MULTI LREM LPUSH EXEC: the LPUSH happens even if LREM removed nothing.
RequeueReserved(q, j) ==
    /\ queue' = [queue EXCEPT ![q][j] = @ + 1]
    /\ processing' = [processing EXCEPT ![q][j] = IF @ > 0 THEN @ - 1 ELSE @]

\* One RPOPLPUSH of the sweep that drains a processing list.
RecoverProcessingJob(q, j) ==
    /\ processing[q][j] > 0
    /\ processing' = [processing EXCEPT ![q][j] = @ - 1]
    /\ queue' = [queue EXCEPT ![q][j] = @ + 1]

----------------------------------------------------------------------------
ListOp == {"enqueue", "reserve", "ack", "requeue", "recover"}

\* The effect each operation has on the lists.
Effect(op, q, j) ==
    \/ op = "enqueue" /\ Enqueue(q, j)
    \/ op = "reserve" /\ Reserve(q, j)
    \/ op = "ack" /\ AckReserved(q, j)
    \/ op = "requeue" /\ RequeueReserved(q, j)
    \/ op = "recover" /\ RecoverProcessingJob(q, j)

============================================================================
