---------------------------- MODULE RedisClient ----------------------------
(***************************************************************************)
(* RedisQueue of internal/queue, down to the single command: a process has *)
(* one connection, guarded by a mutex that a goroutine holds from before   *)
(* its first write until its last read.  Commands carry no deadline and    *)
(* replies no identification, so that what a reply belongs to, and which   *)
(* commands a transaction contains, depends on connections being thrown    *)
(* away whenever a call ends before its last reply.  AllowTenant is here   *)
(* as the sequence of calls that it is.                                    *)
(***************************************************************************)
EXTENDS RedisQueues

CONSTANTS
    Processes,   \* each with its own RedisQueue
    Callers,     \* goroutines
    ProcessOf,   \* caller -> the process it belongs to
    Does,        \* caller -> the operations it calls
    Lists,       \* the queues in use
    Jobs,        \* payloads
    None,        \* no job, no call, no reply
    Limit,       \* requests per window (AllowTenant)
    MaxCopies,   \* bound: copies of a job, when a push is no retry of a failed call
    MaxCount,    \* bound: requests that may be counted
    MaxFaults    \* bound: lost connections, refused dials and commands, cancellations, crashes

\* The operations of the client; "probe" stands for Ping and QueueDepth,
\* which read and change nothing.
Op == ListOp \cup {"incr", "expire", "ttl", "probe"}

VARIABLES
    call,      \* caller -> its call, and the command of it that was sent last
    outcome,   \* caller -> how its last call on the lists returned
    held,      \* caller -> the job it has reserved
    socket,    \* process -> its connection, as the next write or read finds it
    request,   \* process -> the caller whose command the server has not executed
    reply,     \* process -> the reply not read yet
    tx,        \* process -> MULTI and what the server has queued since then
    rate,      \* the tenant's counter, and whether it expires
    setter,    \* history: the caller that has yet to set the expiry of the counter
    faults     \* how many more faults may happen

callerVars == <<call, outcome, held>>
connVars == <<socket, request, reply, tx>>
rateVars == <<rate, setter>>
vars == <<queueVars, callerVars, connVars, rateVars, faults>>

\* The commands of each operation; MULTI to EXEC are one after the other.
First == [enqueue |-> "RPUSH", reserve |-> "BRPOPLPUSH", ack |-> "LREM",
          requeue |-> "MULTI", recover |-> "RPOPLPUSH",
          incr |-> "INCR", expire |-> "EXPIRE", ttl |-> "TTL", probe |-> "PING"]
Following == [MULTI |-> "LREM", LREM |-> "LPUSH", LPUSH |-> "EXEC"]
Command == {First[op] : op \in Op} \cup {"LREM", "LPUSH", "EXEC"}
ReplyKind == {"done", "queued", "nil", "missing", "error"}

\* sent = "none": the caller waits for the mutex.
Call == [op : Op, queue : Queue, job : Jobs \cup {None},
         applied : BOOLEAN, sent : Command \cup {"none"}]
Held == [queue : Queue, job : Jobs]
Reply == [kind : ReplyKind, job : Jobs \cup {None}, count : Nat]

NewCall(op, q, j) == [op |-> op, queue |-> q, job |-> j, applied |-> FALSE, sent |-> "none"]
Reservation(q, j) == [queue |-> q, job |-> j]
Answer(kind, j, n) == [kind |-> kind, job |-> j, count |-> n]

ASSUME ClientAssumption ==
    /\ ProcessOf \in [Callers -> Processes]
    /\ Does \in [Callers -> SUBSET Op]
    /\ Lists \subseteq Queue
    /\ None \notin Jobs \cup Callers
    /\ None \notin Call /\ None \notin Held /\ None \notin Reply
    /\ \A op \in ListOp, q \in Queue, j \in Jobs \cup {None}, b \in BOOLEAN :
          None # [op |-> op, queue |-> q, job |-> j, applied |-> b]
    /\ Limit \in Nat \ {0}
    /\ MaxCopies \in Nat
    /\ MaxCount \in Nat
    /\ MaxFaults \in Nat

TypeOK ==
    /\ QueuesTypeOK(Jobs)
    /\ call \in [Callers -> Call \cup {None}]
    /\ outcome \in [Callers -> {"ok", "nil", "error"}]
    /\ held \in [Callers -> Held \cup {None}]
    /\ socket \in [Processes -> {"none", "open", "closed", "reset"}]
    /\ request \in [Processes -> Callers \cup {None}]
    /\ reply \in [Processes -> Reply \cup {None}]
    /\ tx \in [Processes -> SUBSET Command]
    /\ rate \in [count : Nat, expires : BOOLEAN]
    /\ setter \in Callers \cup {None}
    /\ faults \in Nat

Init ==
    /\ QueuesInit(Jobs)
    /\ call = [c \in Callers |-> None]
    /\ outcome = [c \in Callers |-> "ok"]
    /\ held = [c \in Callers |-> None]
    /\ socket = [p \in Processes |-> "none"]
    /\ request = [p \in Processes |-> None]
    /\ reply = [p \in Processes |-> None]
    /\ tx = [p \in Processes |-> {}]
    /\ rate = [count |-> 0, expires |-> FALSE]
    /\ setter = None
    /\ faults = MaxFaults

Fault == faults > 0 /\ faults' = faults - 1

Waiting(c) == call[c] # None /\ call[c].sent = "none"
HasMutex(c) == call[c] # None /\ call[c].sent # "none"
MutexFree(p) == \A c \in Callers : ProcessOf[c] = p => ~ HasMutex(c)

----------------------------------------------------------------------------
(* Making a call, and returning from it.                                   *)

Copies(q, j) == queue[q][j] + processing[q][j]

Calls(c, op, q, j) ==
    /\ op \in Does[c]
    /\ call[c] = None
    /\ call' = [call EXCEPT ![c] = NewCall(op, q, j)]

\* An ack or requeue gives the reserved job back for good: if it fails, the
\* job is left in the processing list, to be recovered.
MakeCall(c, q, j) ==
    /\ \/ /\ Calls(c, "enqueue", q, j)
          /\ Copies(q, j) < MaxCopies \/ outcome[c] = "error"
          /\ UNCHANGED held
       \/ Calls(c, "recover", q, None) /\ UNCHANGED held
       \/ Calls(c, "reserve", q, None) /\ held[c] = None /\ UNCHANGED held
       \/ /\ held[c] = Reservation(q, j)
          /\ \/ Calls(c, "ack", q, j)
             \/ Calls(c, "requeue", q, j) /\ Copies(q, j) < MaxCopies
          /\ held' = [held EXCEPT ![c] = None]
       \/ Calls(c, "probe", q, None) /\ UNCHANGED held
       \/ Calls(c, "incr", q, None) /\ rate.count < MaxCount /\ UNCHANGED held
    /\ UNCHANGED <<queueVars, outcome, connVars, rateVars, faults>>

Ends(c, result) ==
    outcome' = IF call[c].op \in ListOp THEN [outcome EXCEPT ![c] = result] ELSE outcome

\* The call returns an error; AllowTenant goes no further.
Fails(c) ==
    /\ call' = [call EXCEPT ![c] = None]
    /\ Ends(c, "error")
    /\ setter' = IF setter = c THEN None ELSE setter
    /\ UNCHANGED <<held, rate>>

\* resetConnLocked.  The server forgets a transaction with its connection.
ResetConn(p) ==
    /\ socket' = [socket EXCEPT ![p] = "none"]
    /\ request' = [request EXCEPT ![p] = None]
    /\ reply' = [reply EXCEPT ![p] = None]
    /\ tx' = [tx EXCEPT ![p] = {}]

----------------------------------------------------------------------------
(* Plausible defects, for the mutation checks.                             *)

\* A call that is told of an error keeps the connection.
ReceiveErrorKeepsConn(c) ==
    /\ HasMutex(c)
    /\ reply[ProcessOf[c]] # None /\ reply[ProcessOf[c]].kind = "error"
    /\ reply' = [reply EXCEPT ![ProcessOf[c]] = None]
    /\ Fails(c)
    /\ UNCHANGED <<queueVars, socket, request, tx, faults>>

\* A sweep of a processing list goes on when the list is empty.
VerdictRetriesNil(op, kind) ==
    IF kind = "missing" THEN "error" ELSE IF kind = "nil" THEN "again" ELSE "ok"

\* An allowed request is let go before the expiry is set.
AfterCallAllowsFirst(c, n) ==
    IF call[c].op # "incr" \/ n <= Limit THEN None ELSE NewCall("ttl", call[c].queue, None)

----------------------------------------------------------------------------
(* The client's side of a command.                                         *)

\* Lock, ensureConnLocked (dial, AUTH, SELECT), and the first write.  A write
\* to a connection that the server has closed still succeeds.
Send(c) ==
    LET p == ProcessOf[c] IN
    /\ Waiting(c)
    /\ MutexFree(p)
    /\ socket[p] # "reset"
    /\ socket' = [socket EXCEPT ![p] = IF @ = "none" THEN "open" ELSE @]
    /\ request' = [request EXCEPT ![p] = IF socket[p] = "closed" THEN @ ELSE c]
    /\ call' = [call EXCEPT ![c].sent = First[call[c].op]]
    /\ UNCHANGED <<queueVars, outcome, held, reply, tx, rateVars, faults>>

DialFails(c) ==
    /\ Waiting(c)
    /\ MutexFree(ProcessOf[c])
    /\ socket[ProcessOf[c]] = "none"
    /\ Fault
    /\ Fails(c)
    /\ UNCHANGED <<queueVars, connVars>>

\* ReserveChannel looks at its context before each BRPOPLPUSH.
ReserveCancelled(c) ==
    /\ Waiting(c)
    /\ call[c].op = "reserve"
    /\ Fault
    /\ Fails(c)
    /\ UNCHANGED <<queueVars, connVars>>

\* An error of writeCommandLocked is returned as it is, without a reset.
WriteFails(c) ==
    /\ Waiting(c)
    /\ MutexFree(ProcessOf[c])
    /\ socket[ProcessOf[c]] = "reset"
    /\ Fails(c)
    /\ UNCHANGED <<queueVars, connVars, faults>>

\* readResponseLocked finds the connection closed, or an error reply.
ReadFails(c) ==
    LET p == ProcessOf[c] IN
    /\ HasMutex(c)
    /\ reply[p] = None
    /\ socket[p] \in {"closed", "reset"}
    /\ ResetConn(p)
    /\ Fails(c)
    /\ UNCHANGED <<queueVars, faults>>

ReceiveError(c) ==
    LET p == ProcessOf[c] IN
    /\ HasMutex(c)
    /\ reply[p] # None /\ reply[p].kind = "error"
    /\ ResetConn(p)
    /\ Fails(c)
    /\ UNCHANGED <<queueVars, faults>>

Received(c) ==
    LET p == ProcessOf[c] IN
    HasMutex(c) /\ reply[p] # None /\ reply[p].kind # "error"

InTransaction(c) == call[c].op = "requeue" /\ call[c].sent # "EXEC"

\* RequeueReserved goes on to its next command.
SendNext(c) ==
    LET p == ProcessOf[c] IN
    /\ Received(c)
    /\ InTransaction(c)
    /\ reply' = [reply EXCEPT ![p] = None]
    /\ request' = [request EXCEPT ![p] = IF socket[p] = "closed" THEN @ ELSE c]
    /\ call' = [call EXCEPT ![c].sent = Following[@]]
    /\ UNCHANGED <<queueVars, outcome, held, socket, tx, rateVars, faults>>

NextWriteFails(c) ==
    LET p == ProcessOf[c] IN
    /\ Received(c)
    /\ InTransaction(c)
    /\ Fault
    /\ socket' = [socket EXCEPT ![p] = "reset"]
    /\ reply' = [reply EXCEPT ![p] = None]
    /\ tx' = [tx EXCEPT ![p] = {}]
    /\ Fails(c)
    /\ UNCHANGED <<queueVars, request>>

\* What the operation makes of its last reply: "QUEUED" is no integer, but
\* passes for a payload, and nobody looks at the reply to RPUSH.
Verdict(op, kind) ==
    IF kind = "missing" \/ (kind = "queued" /\ op \notin {"enqueue", "recover", "expire"})
      THEN "error"
      ELSE IF kind = "nil" THEN (IF op = "reserve" THEN "again" ELSE "nil")
      ELSE "ok"

\* AllowTenant: EXPIRE after the first request, TTL for a refused one.
AfterCall(c, n) ==
    IF call[c].op # "incr" THEN None
    ELSE IF n = 1 THEN NewCall("expire", call[c].queue, None)
    ELSE IF n <= Limit THEN None
    ELSE NewCall("ttl", call[c].queue, None)

Complete(c) ==
    LET r == reply[ProcessOf[c]]
        verdict == Verdict(call[c].op, r.kind)
    IN
    /\ Received(c)
    /\ ~ InTransaction(c)
    /\ reply' = [reply EXCEPT ![ProcessOf[c]] = None]
    /\ \/ /\ verdict = "again"
          /\ call' = [call EXCEPT ![c].sent = "none"]
          /\ UNCHANGED <<outcome, held, rateVars>>
       \/ verdict = "error" /\ Fails(c)
       \/ /\ verdict \in {"ok", "nil"}
          /\ call' = [call EXCEPT ![c] = AfterCall(c, r.count)]
          /\ Ends(c, verdict)
          /\ held' = IF call[c].op = "reserve"
                       THEN [held EXCEPT ![c] = Reservation(call[c].queue, r.job)] ELSE held
          /\ UNCHANGED rateVars
    /\ UNCHANGED <<queueVars, socket, request, tx, faults>>

----------------------------------------------------------------------------
(* The server, as far as the client depends on it.                         *)

Asks(c) == request[ProcessOf[c]] = c

Answers(c, kind, j, n) ==
    /\ request' = [request EXCEPT ![ProcessOf[c]] = None]
    /\ reply' = [reply EXCEPT ![ProcessOf[c]] = Answer(kind, j, n)]
    /\ UNCHANGED <<outcome, held, socket>>

\* -OOM, -READONLY, -LOADING: any command may be refused.
Refuse(c) ==
    /\ Asks(c)
    /\ Fault
    /\ Answers(c, "error", None, 0)
    /\ UNCHANGED <<queueVars, call, tx, rateVars>>

OpenTransaction(c) ==
    /\ Asks(c)
    /\ call[c].sent = "MULTI"
    /\ Answers(c, "done", None, 0)
    /\ tx' = [tx EXCEPT ![ProcessOf[c]] = @ \cup {"MULTI"}]
    /\ UNCHANGED <<queueVars, call, rateVars, faults>>

\* Inside a transaction every command is put off, whoever sent it.
QueueCommand(c) ==
    /\ Asks(c)
    /\ tx[ProcessOf[c]] # {}
    /\ call[c].sent \notin {"MULTI", "EXEC"}
    /\ Answers(c, "queued", None, 0)
    /\ tx' = [tx EXCEPT ![ProcessOf[c]] = @ \cup {call[c].sent}]
    /\ UNCHANGED <<queueVars, call, rateVars, faults>>

\* LREM tells how many copies it removed.
Removed(q, j) == IF processing[q][j] > 0 THEN "done" ELSE "missing"

\* EXEC, or a single command on the lists.
ExecuteOnLists(c, j) ==
    LET op == call[c].op
        q == call[c].queue
    IN
    /\ Asks(c)
    /\ \/ op = "requeue" /\ tx[ProcessOf[c]] = {"MULTI", "LREM", "LPUSH"} /\ call[c].sent = "EXEC"
       \/ op \in ListOp \ {"requeue"} /\ tx[ProcessOf[c]] = {}
    /\ call[c].job \in {None, j}
    /\ Effect(op, q, j)
    /\ call' = [call EXCEPT ![c].applied = TRUE, ![c].job = j]
    /\ Answers(c, IF op \in {"ack", "requeue"} THEN Removed(q, j) ELSE "done", j, 0)
    /\ tx' = [tx EXCEPT ![ProcessOf[c]] = {}]
    /\ UNCHANGED <<rateVars, faults>>

\* RPOPLPUSH on an empty list, and BRPOPLPUSH when its timeout is over.
NothingToTake(c) ==
    /\ Asks(c)
    /\ tx[ProcessOf[c]] = {}
    /\ \/ call[c].op = "recover" /\ \A j \in Jobs : processing[call[c].queue][j] = 0
       \/ call[c].op = "reserve" /\ \A j \in Jobs : queue[call[c].queue][j] = 0
    /\ Answers(c, "nil", None, 0)
    /\ UNCHANGED <<queueVars, call, tx, rateVars, faults>>

\* INCR creates a counter that does not expire.
ExecuteIncr(c) ==
    /\ Asks(c)
    /\ call[c].op = "incr"
    /\ tx[ProcessOf[c]] = {}
    /\ Answers(c, "done", None, rate.count + 1)
    /\ rate' = [rate EXCEPT !.count = @ + 1]
    /\ setter' = IF rate.count = 0 THEN c ELSE setter
    /\ UNCHANGED <<queueVars, call, tx, faults>>

ExecuteExpire(c) ==
    /\ Asks(c)
    /\ call[c].op = "expire"
    /\ tx[ProcessOf[c]] = {}
    /\ Answers(c, "done", None, 0)
    /\ rate' = [rate EXCEPT !.expires = (rate.count > 0)]
    /\ setter' = IF setter = c THEN None ELSE setter
    /\ UNCHANGED <<queueVars, call, tx, faults>>

\* TTL, PING, LLEN
ExecuteRead(c) ==
    /\ Asks(c)
    /\ call[c].op \in {"ttl", "probe"}
    /\ tx[ProcessOf[c]] = {}
    /\ Answers(c, "done", None, 0)
    /\ UNCHANGED <<queueVars, call, tx, rateVars, faults>>

Serve(c) ==
    \/ OpenTransaction(c)
    \/ QueueCommand(c)
    \/ \E j \in Jobs : ExecuteOnLists(c, j)
    \/ NothingToTake(c)
    \/ ExecuteIncr(c)
    \/ ExecuteExpire(c)
    \/ ExecuteRead(c)

WindowEnds ==
    /\ rate.expires
    /\ rate' = [count |-> 0, expires |-> FALSE]
    /\ UNCHANGED <<queueVars, callerVars, connVars, setter, faults>>

----------------------------------------------------------------------------
(* Faults.                                                                 *)

\* The connection is lost while the client is not writing.  "closed" (the
\* server ended it) lets the client read what has arrived and write once more;
\* "reset" (aborted, or given up by keepalive) fails the next write or read.
\* A command not executed by now never is.
LoseConnection(p) ==
    /\ socket[p] = "open"
    /\ Fault
    /\ \/ /\ socket' = [socket EXCEPT ![p] = "closed"]
          /\ UNCHANGED reply
       \/ /\ socket' = [socket EXCEPT ![p] = "reset"]
          /\ reply' = [reply EXCEPT ![p] = None]
    /\ request' = [request EXCEPT ![p] = None]
    /\ tx' = [tx EXCEPT ![p] = {}]
    /\ UNCHANGED <<queueVars, callerVars, rateVars>>

\* The process dies and is started again (or ends with Close).
CrashProcess(p) ==
    LET mine == {c \in Callers : ProcessOf[c] = p} IN
    /\ Fault
    /\ ResetConn(p)
    /\ call' = [c \in Callers |-> IF c \in mine THEN None ELSE call[c]]
    /\ held' = [c \in Callers |-> IF c \in mine THEN None ELSE held[c]]
    /\ setter' = IF setter \in mine THEN None ELSE setter
    /\ UNCHANGED <<queueVars, outcome, rate>>

----------------------------------------------------------------------------
CallerNext(c) ==
    \/ \E q \in Lists, j \in Jobs : MakeCall(c, q, j)
    \/ Send(c)
    \/ DialFails(c)
    \/ ReserveCancelled(c)
    \/ WriteFails(c)
    \/ ReadFails(c)
    \/ ReceiveError(c)
    \/ SendNext(c)
    \/ NextWriteFails(c)
    \/ Complete(c)

Next ==
    \/ \E c \in Callers : CallerNext(c) \/ Serve(c) \/ Refuse(c)
    \/ WindowEnds
    \/ \E p \in Processes : LoseConnection(p) \/ CrashProcess(p)

Spec == Init /\ [][Next]_vars

\* The server answers, a goroutine reads what has arrived, and sync.Mutex,
\* which hands over to a goroutine that has waited for a millisecond, lets
\* everyone in.  Only the publisher's loop makes its calls for certain.
Begins(c) == Send(c) \/ WriteFails(c)
Reads(c) == ReadFails(c) \/ ReceiveError(c) \/ SendNext(c) \/ Complete(c)
Publishes(c) == \E q \in Lists, j \in Jobs : Does[c] = {"enqueue"} /\ MakeCall(c, q, j)

FairSpec ==
    /\ Spec
    /\ \A c \in Callers :
          /\ SF_vars(Begins(c))
          /\ WF_vars(Reads(c))
          /\ WF_vars(Serve(c))
          /\ WF_vars(Publishes(c))

----------------------------------------------------------------------------
(* What the client promises.                                               *)

\* A transaction stays with the call that opened it: while the server puts
\* commands of a connection off, the mutex is held by a RequeueReserved that
\* has sent MULTI and not had its answer to EXEC, or the connection is lost.
\* Otherwise another goroutine's RPUSH would be taken for done, and forgotten.
TransactionIsPrivate ==
    \A p \in Processes : tx[p] # {} =>
        \E c \in Callers : ProcessOf[c] = p /\ HasMutex(c) /\ call[c].op = "requeue"

\* The counter of a tenant gets its expiry unless the call that created it
\* fails: AllowTenant is then still on its way from INCR to EXPIRE.
CounterWillExpire ==
    rate.count > 0 /\ ~ rate.expires /\ setter # None =>
        call[setter] # None /\ call[setter].op \in {"incr", "expire"}

\* Every call returns, though all goroutines of a process share a connection
\* that a reservation blocks; only ReserveChannel waits for something to reserve.
CallsReturn ==
    \A c \in Callers : (call[c] # None /\ call[c].op # "reserve") ~> call[c] = None

Waits(c) == IF call[c] # None /\ call[c].op \in ListOp
              THEN [op |-> call[c].op, queue |-> call[c].queue,
                    job |-> call[c].job, applied |-> call[c].applied]
              ELSE None

Abstract == INSTANCE QueueCalls WITH calling <- [c \in Callers |-> Waits(c)]

\* The client is what its callers take it for (QueueCalls): whatever happens
\* to connections, transactions and replies, a call changes the lists at most
\* once and atomically, and has done so if it says so.
ImplementsCalls == Abstract!CallsSpec

----------------------------------------------------------------------------
(* A promise of the documentation that the code does not keep.             *)

\* A publication that failed is retried until it succeeds (README: "if Redis
\* is unavailable at outbox publish time, the intent remains pending in
\* PostgreSQL and is retried later").  A process whose idle connection was
\* reset fails in every later write.
PublisherRecovers ==
    \A c \in Callers : Does[c] = {"enqueue"} => (outcome[c] = "error" ~> outcome[c] = "ok")

============================================================================
