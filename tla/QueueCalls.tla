----------------------------- MODULE QueueCalls -----------------------------
(***************************************************************************)
(* What a caller of RedisQueue may rely on.  A call has its effect on the  *)
(* lists at most once, in one atomic step, between the moment it is made   *)
(* and the moment it returns.  If it returns without error it had the      *)
(* effect; an error leaves that open, and only a sweep of an empty list    *)
(* returns without error or effect.                                        *)
(* This is how the actions of DeliveryPipeline use the queues.             *)
(***************************************************************************)
EXTENDS RedisQueues

CONSTANTS
    Callers,   \* goroutines
    Jobs,      \* payloads
    None       \* no job, no call

VARIABLES
    calling,   \* caller -> the call it waits for
    outcome,   \* caller -> how its last call returned
    held       \* caller -> the job it has reserved and not given back

callVars == <<queueVars, calling, outcome, held>>

Outcome == {"ok", "nil", "error"}

ListCall(op, q, j, applied) == [op |-> op, queue |-> q, job |-> j, applied |-> applied]
Reservation(q, j) == [queue |-> q, job |-> j]

CallsInit ==
    /\ QueuesInit(Jobs)
    /\ calling = [c \in Callers |-> None]
    /\ outcome = [c \in Callers |-> "ok"]
    /\ held = [c \in Callers |-> None]

Calls(c, call) == calling[c] = None /\ calling' = [calling EXCEPT ![c] = call]

\* A caller works on one reserved job at a time, and gives it back once: what
\* an ack or requeue leaves behind is left to recovery.
MakeCall(c, q, j) ==
    /\ \/ Calls(c, ListCall("enqueue", q, j, FALSE)) /\ UNCHANGED held
       \/ Calls(c, ListCall("recover", q, None, FALSE)) /\ UNCHANGED held
       \/ held[c] = None /\ Calls(c, ListCall("reserve", q, None, FALSE)) /\ UNCHANGED held
       \/ /\ held[c] = Reservation(q, j)
          /\ \E op \in {"ack", "requeue"} : Calls(c, ListCall(op, q, j, FALSE))
          /\ held' = [held EXCEPT ![c] = None]
    /\ UNCHANGED <<queueVars, outcome>>

\* A call is given its job when it is made or, if it is to take one, here.
Apply(c, j) ==
    /\ calling[c] # None
    /\ ~ calling[c].applied
    /\ calling[c].job \in {None, j}
    /\ Effect(calling[c].op, calling[c].queue, j)
    /\ calling' = [calling EXCEPT ![c] = ListCall(@.op, @.queue, j, TRUE)]
    /\ UNCHANGED <<outcome, held>>

Return(c) ==
    /\ calling[c] # None
    /\ \/ /\ calling[c].applied
          /\ outcome' = [outcome EXCEPT ![c] = "ok"]
          /\ held' = IF calling[c].op = "reserve"
                       THEN [held EXCEPT ![c] = Reservation(calling[c].queue, calling[c].job)]
                       ELSE held
       \/ /\ ~ calling[c].applied /\ calling[c].op = "recover"
          /\ outcome' = [outcome EXCEPT ![c] = "nil"]
          /\ UNCHANGED held
       \/ outcome' = [outcome EXCEPT ![c] = "error"] /\ UNCHANGED held
    /\ calling' = [calling EXCEPT ![c] = None]
    /\ UNCHANGED queueVars

\* A process ends: its callers forget what they had reserved.
Stop(group) ==
    /\ calling' = [c \in Callers |-> IF c \in group THEN None ELSE calling[c]]
    /\ held' = [c \in Callers |-> IF c \in group THEN None ELSE held[c]]
    /\ UNCHANGED <<queueVars, outcome>>

CallsNext ==
    \/ \E c \in Callers, q \in Queue, j \in Jobs : MakeCall(c, q, j)
    \/ \E c \in Callers, j \in Jobs : Apply(c, j)
    \/ \E c \in Callers : Return(c)
    \/ \E group \in SUBSET Callers : Stop(group)

CallsSpec == CallsInit /\ [][CallsNext]_callVars

============================================================================
