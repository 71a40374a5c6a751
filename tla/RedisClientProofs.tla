------------------------- MODULE RedisClientProofs -------------------------
(***************************************************************************)
(* Proofs about RedisQueue, for every number of processes, goroutines,     *)
(* jobs and faults: a transaction is never shared, the tenant counter gets *)
(* its expiry, and the client implements QueueCalls.                       *)
(***************************************************************************)
EXTENDS RedisClient, TLAPS

----------------------------------------------------------------------------
(* The invariant: what the mutex and the resets keep about a connection.   *)

\* One goroutine of a process is between its first write and its last read.
MutexIsExclusive ==
    \A c, d \in Callers :
        HasMutex(c) /\ HasMutex(d) /\ ProcessOf[c] = ProcessOf[d] => c = d

\* The server is about to execute a command of that goroutine, or an answer
\* waits for it; the command has had no effect before it is executed.
RequestIsCurrent ==
    \A p \in Processes : request[p] # None =>
        /\ reply[p] = None
        /\ ProcessOf[request[p]] = p
        /\ HasMutex(request[p])
        /\ ~ call[request[p]].applied

ReplyIsExpected ==
    \A p \in Processes : reply[p] # None =>
        \E c \in Callers : ProcessOf[c] = p /\ HasMutex(c)

\* A command belongs to the operation, and only the last one has an effect.
CommandsInOrder ==
    \A c \in Callers : call[c] # None =>
        /\ call[c].op # "requeue" => call[c].sent \in {"none", First[call[c].op]}
        /\ call[c].op = "requeue" => call[c].sent \in {"none", "MULTI", "LREM", "LPUSH", "EXEC"}
        /\ call[c].applied =>
              /\ HasMutex(c)
              /\ call[c].op \in ListOp
              /\ call[c].job \in Jobs
              /\ call[c].op = "requeue" => call[c].sent = "EXEC"

\* What the goroutine reads tells it what has happened.
ReplyTells(c, r) ==
    /\ r.kind = "queued" => InTransaction(c)
    /\ r.kind = "nil" => call[c].op \in {"reserve", "recover"} /\ ~ call[c].applied
    /\ r.kind = "done" /\ call[c].op \in ListOp /\ ~ InTransaction(c) =>
          call[c].applied /\ r.job = call[c].job
    /\ r.kind # "error" /\ ~ InTransaction(c) => tx[ProcessOf[c]] = {}

RepliesAreTrue ==
    \A c \in Callers : HasMutex(c) /\ reply[ProcessOf[c]] # None =>
        ReplyTells(c, reply[ProcessOf[c]])

\* The caller that created the counter is on its way to EXPIRE: if INCR has
\* been answered, with 1, and EXPIRE has not been executed.
SetterGoesOn ==
    setter # None =>
        /\ call[setter] # None
        /\ \/ /\ call[setter].op = "incr"
              /\ HasMutex(setter)
              /\ request[ProcessOf[setter]] # setter
              /\ reply[ProcessOf[setter]] # None =>
                    reply[ProcessOf[setter]].kind = "done" /\ reply[ProcessOf[setter]].count = 1
           \/ /\ call[setter].op = "expire"
              /\ HasMutex(setter) /\ reply[ProcessOf[setter]] # None =>
                    reply[ProcessOf[setter]].kind = "error"

ConnectionInv ==
    /\ MutexIsExclusive
    /\ RequestIsCurrent
    /\ ReplyIsExpected
    /\ TransactionIsPrivate
    /\ CommandsInOrder
    /\ RepliesAreTrue

ClientInv == TypeOK /\ ConnectionInv /\ SetterGoesOn

----------------------------------------------------------------------------
(* Steps that leave the mutex alone, or release it.                        *)

\* A call that has not sent anything.
NothingSent(x) == x # None => x.sent = "none" /\ ~ x.applied

\* A caller without the mutex makes or gives up a call.
LEMMA OutsideMutex ==
    ASSUME ClientInv, NEW c \in Callers, ~ HasMutex(c),
           NEW x \in Call \cup {None}, NothingSent(x),
           call' = [call EXCEPT ![c] = x], UNCHANGED connVars
    PROVE  ConnectionInv'
<1>1. /\ call'[c] = x
      /\ \A d \in Callers : d # c => call'[d] = call[d]
      /\ request' = request /\ reply' = reply /\ tx' = tx
  BY DEF ClientInv, TypeOK, connVars
<1>2. /\ ~ HasMutex(c)'
      /\ \A d \in Callers : d # c => (HasMutex(d)' <=> HasMutex(d))
      /\ \A d \in Callers : d # c => (InTransaction(d)' <=> InTransaction(d))
  BY <1>1 DEF HasMutex, InTransaction, NothingSent
<1>3. MutexIsExclusive'
  BY <1>2 DEF ClientInv, ConnectionInv, MutexIsExclusive
<1>4. RequestIsCurrent'
  BY <1>1, <1>2 DEF ClientInv, ConnectionInv, RequestIsCurrent, TypeOK
<1>5. ReplyIsExpected'
  BY <1>1, <1>2 DEF ClientInv, ConnectionInv, ReplyIsExpected
<1>6. TransactionIsPrivate'
  BY <1>1, <1>2 DEF ClientInv, ConnectionInv, TransactionIsPrivate
<1>7. CommandsInOrder'
  BY <1>1, <1>2 DEF ClientInv, ConnectionInv, CommandsInOrder, NothingSent
<1>8. RepliesAreTrue'
  BY <1>1, <1>2 DEF ClientInv, ConnectionInv, RepliesAreTrue, ReplyTells
<1>9. QED
  BY <1>3, <1>4, <1>5, <1>6, <1>7, <1>8 DEF ConnectionInv

\* The goroutine with the mutex ends its call, or a part of it.
LEMMA MutexReleased ==
    ASSUME ClientInv, NEW c \in Callers, HasMutex(c), NEW p \in Processes, p = ProcessOf[c],
           NEW x \in Call \cup {None}, NothingSent(x),
           call' = [call EXCEPT ![c] = x],
           request'[p] = None, reply'[p] = None, tx'[p] = {},
           \A r \in Processes : r # p =>
               request'[r] = request[r] /\ reply'[r] = reply[r] /\ tx'[r] = tx[r]
    PROVE  ConnectionInv'
<1>1. /\ call'[c] = x
      /\ \A d \in Callers : d # c => call'[d] = call[d]
      /\ p \in Processes
      /\ \A d \in Callers : ProcessOf[d] \in Processes
  BY ClientAssumption DEF ClientInv, TypeOK
<1>2. /\ ~ HasMutex(c)'
      /\ \A d \in Callers : d # c => (HasMutex(d)' <=> HasMutex(d))
      /\ \A d \in Callers : d # c => (InTransaction(d)' <=> InTransaction(d))
  BY <1>1 DEF HasMutex, InTransaction, NothingSent
<1>3. MutexIsExclusive'
  BY <1>2 DEF ClientInv, ConnectionInv, MutexIsExclusive
<1>4. RequestIsCurrent'
  BY <1>1, <1>2 DEF ClientInv, ConnectionInv, RequestIsCurrent, TypeOK
<1>5. ReplyIsExpected'
  BY <1>1, <1>2 DEF ClientInv, ConnectionInv, ReplyIsExpected
<1>6. TransactionIsPrivate'
  BY <1>1, <1>2 DEF ClientInv, ConnectionInv, TransactionIsPrivate
<1>7. CommandsInOrder'
  BY <1>1, <1>2 DEF ClientInv, ConnectionInv, CommandsInOrder, NothingSent
<1>8. RepliesAreTrue'
  BY <1>1, <1>2 DEF ClientInv, ConnectionInv, RepliesAreTrue, ReplyTells
<1>9. QED
  BY <1>3, <1>4, <1>5, <1>6, <1>7, <1>8 DEF ConnectionInv

----------------------------------------------------------------------------
(* Commands and answers.                                                   *)

\* The goroutine with the mutex, if there is one, is the only one.
LEMMA OneHolder ==
    ASSUME ClientInv, NEW c \in Callers, HasMutex(c)
    PROVE  /\ ProcessOf[c] \in Processes
           /\ call[c] \in Call
           /\ \A d \in Callers : HasMutex(d) /\ ProcessOf[d] = ProcessOf[c] => d = c
           /\ request[ProcessOf[c]] \in {None, c}
           /\ tx[ProcessOf[c]] # {} => call[c].op = "requeue"
BY ClientAssumption DEF ClientInv, TypeOK, ConnectionInv, MutexIsExclusive, RequestIsCurrent,
    TransactionIsPrivate, HasMutex

\* A process whose mutex is free expects nothing of its connection.
LEMMA FreeConnection ==
    ASSUME ClientInv, NEW p \in Processes, MutexFree(p)
    PROVE  request[p] = None /\ reply[p] = None /\ tx[p] = {}
<1>1. request[p] = None
  BY DEF ClientInv, TypeOK, ConnectionInv, RequestIsCurrent, MutexFree
<1>2. reply[p] = None
  BY DEF ClientInv, ConnectionInv, ReplyIsExpected, MutexFree
<1>3. tx[p] = {}
  BY DEF ClientInv, ConnectionInv, TransactionIsPrivate, MutexFree
<1>4. QED
  BY <1>1, <1>2, <1>3

\* A command is written by the goroutine that has, or takes, the mutex.
LEMMA CommandWritten ==
    ASSUME ClientInv, NEW c \in Callers, call[c] # None, ~ call[c].applied,
           NEW p, p = ProcessOf[c],
           \A d \in Callers : HasMutex(d) /\ ProcessOf[d] = p => d = c,
           request[p] = None,
           NEW s \in Command \ {"none"},
           IF call[c].op = "requeue" THEN s \in {"MULTI", "LREM", "LPUSH", "EXEC"}
                                     ELSE s = First[call[c].op],
           tx[p] # {} => call[c].op = "requeue",
           call' = [call EXCEPT ![c].sent = s],
           request' = [request EXCEPT ![p] = IF socket[p] = "closed" THEN @ ELSE c],
           reply'[p] = None, \A r \in Processes : r # p => reply'[r] = reply[r],
           tx' = tx
    PROVE  ConnectionInv'
<1>1. /\ call'[c] = [call[c] EXCEPT !.sent = s]
      /\ \A d \in Callers : d # c => call'[d] = call[d]
      /\ call[c] \in Call
      /\ p \in Processes
      /\ \A d \in Callers : ProcessOf[d] \in Processes
      /\ request'[p] \in {None, c}
      /\ \A r \in Processes : r # p => request'[r] = request[r]
  BY ClientAssumption DEF ClientInv, TypeOK
<1>2. /\ call'[c] # None
      /\ call'[c].op = call[c].op /\ call'[c].sent = s /\ ~ call'[c].applied
  <2>1. call'[c] \in Call
    BY <1>1 DEF Call
  <2>2. QED
    BY <1>1, <2>1, ClientAssumption DEF Call
<1>3. /\ HasMutex(c)'
      /\ \A d \in Callers : d # c => (HasMutex(d)' <=> HasMutex(d))
      /\ \A d \in Callers : d # c => (InTransaction(d)' <=> InTransaction(d))
  BY <1>1, <1>2 DEF HasMutex, InTransaction
<1>4. MutexIsExclusive'
  BY <1>3 DEF ClientInv, ConnectionInv, MutexIsExclusive
<1>5. RequestIsCurrent'
  BY <1>1, <1>2, <1>3 DEF ClientInv, ConnectionInv, RequestIsCurrent, TypeOK
<1>6. ReplyIsExpected'
  BY <1>1, <1>3 DEF ClientInv, ConnectionInv, ReplyIsExpected
<1>7. TransactionIsPrivate'
  <2> SUFFICES ASSUME NEW r \in Processes, tx'[r] # {}
               PROVE  \E d \in Callers : ProcessOf[d] = r /\ HasMutex(d)' /\ call'[d].op = "requeue"
    BY DEF TransactionIsPrivate
  <2>1. CASE r = p
    BY <2>1, <1>2, <1>3
  <2>2. CASE r # p
    BY <2>2, <1>1, <1>3 DEF ClientInv, ConnectionInv, TransactionIsPrivate
  <2>3. QED
    BY <2>1, <2>2
<1>8. CommandsInOrder'
  <2> SUFFICES ASSUME NEW d \in Callers, call'[d] # None
               PROVE  /\ call'[d].op # "requeue" => call'[d].sent \in {"none", First[call'[d].op]}
                      /\ call'[d].op = "requeue" =>
                            call'[d].sent \in {"none", "MULTI", "LREM", "LPUSH", "EXEC"}
                      /\ call'[d].applied =>
                            /\ HasMutex(d)'
                            /\ call'[d].op \in ListOp
                            /\ call'[d].job \in Jobs
                            /\ call'[d].op = "requeue" => call'[d].sent = "EXEC"
    BY DEF CommandsInOrder
  <2>1. CASE d = c
    BY <2>1, <1>2
  <2>2. CASE d # c
    BY <2>2, <1>1, <1>3 DEF ClientInv, ConnectionInv, CommandsInOrder
  <2>3. QED
    BY <2>1, <2>2
<1>9. RepliesAreTrue'
  BY <1>1, <1>3 DEF ClientInv, ConnectionInv, RepliesAreTrue, ReplyTells
<1>10. QED
  BY <1>4, <1>5, <1>6, <1>7, <1>8, <1>9 DEF ConnectionInv

\* The server answers the goroutine that asked it.
LEMMA CommandAnswered ==
    ASSUME ClientInv, NEW c \in Callers, NEW p, p = ProcessOf[c], Asks(c),
           NEW x \in Call, x.op = call[c].op, x.sent = call[c].sent,
           x.applied => x.op \in ListOp /\ x.job \in Jobs
                        /\ (x.op = "requeue" => x.sent = "EXEC"),
           call' = [call EXCEPT ![c] = x],
           NEW a \in Reply,
           request' = [request EXCEPT ![p] = None],
           reply' = [reply EXCEPT ![p] = a],
           NEW t, tx' = [tx EXCEPT ![p] = t],
           t # {} => call[c].op = "requeue",
           ReplyTells(c, a)'
    PROVE  ConnectionInv'
<1>1. HasMutex(c) /\ call[c] # None /\ p \in Processes
  BY ClientAssumption DEF ClientInv, ConnectionInv, RequestIsCurrent, Asks, HasMutex
<1>2. /\ call'[c] = x
      /\ \A d \in Callers : d # c => call'[d] = call[d]
      /\ \A d \in Callers : ProcessOf[d] \in Processes
      /\ request'[p] = None /\ reply'[p] = a /\ tx'[p] = t
      /\ \A r \in Processes : r # p =>
             request'[r] = request[r] /\ reply'[r] = reply[r] /\ tx'[r] = tx[r]
      /\ x # None
  BY <1>1, ClientAssumption DEF ClientInv, TypeOK
<1>3. /\ \A d \in Callers : HasMutex(d)' <=> HasMutex(d)
      /\ \A d \in Callers : InTransaction(d)' <=> InTransaction(d)
      /\ \A d \in Callers : HasMutex(d) /\ ProcessOf[d] = p => d = c
  BY <1>1, <1>2, OneHolder DEF HasMutex, InTransaction
<1>4. MutexIsExclusive'
  BY <1>3 DEF ClientInv, ConnectionInv, MutexIsExclusive
<1>5. RequestIsCurrent'
  BY <1>2, <1>3 DEF ClientInv, ConnectionInv, RequestIsCurrent, TypeOK
<1>6. ReplyIsExpected'
  BY <1>1, <1>2, <1>3 DEF ClientInv, ConnectionInv, ReplyIsExpected
<1>7. TransactionIsPrivate'
  BY <1>1, <1>2, <1>3 DEF ClientInv, ConnectionInv, TransactionIsPrivate
<1>8. CommandsInOrder'
  BY <1>1, <1>2, <1>3 DEF ClientInv, ConnectionInv, CommandsInOrder
<1>9. RepliesAreTrue'
  <2> SUFFICES ASSUME NEW d \in Callers, HasMutex(d)', reply'[ProcessOf[d]] # None
               PROVE  ReplyTells(d, reply[ProcessOf[d]])'
    BY DEF RepliesAreTrue
  <2>1. CASE d = c
    BY <2>1, <1>2
  <2>2. CASE d # c
    <3>1. ProcessOf[d] # p
      BY <2>2, <1>3
    <3>2. QED
      BY <2>2, <3>1, <1>2, <1>3 DEF ClientInv, ConnectionInv, RepliesAreTrue, ReplyTells
  <2>3. QED
    BY <2>1, <2>2
<1>10. QED
  BY <1>4, <1>5, <1>6, <1>7, <1>8, <1>9 DEF ConnectionInv

----------------------------------------------------------------------------
(* Lost connections and crashes.                                           *)

LEMMA ConnectionLost ==
    ASSUME ClientInv, NEW p \in Processes, call' = call,
           request' = [request EXCEPT ![p] = None],
           reply' = reply \/ reply' = [reply EXCEPT ![p] = None],
           tx' = [tx EXCEPT ![p] = {}]
    PROVE  ConnectionInv'
<1>1. /\ request'[p] = None /\ reply'[p] \in {None, reply[p]} /\ tx'[p] = {}
      /\ \A r \in Processes : r # p =>
             request'[r] = request[r] /\ reply'[r] = reply[r] /\ tx'[r] = tx[r]
      /\ \A d \in Callers : ProcessOf[d] \in Processes
  BY ClientAssumption DEF ClientInv, TypeOK
<1>2. \A d \in Callers : (HasMutex(d)' <=> HasMutex(d)) /\ (InTransaction(d)' <=> InTransaction(d))
  BY DEF HasMutex, InTransaction
<1>3. MutexIsExclusive'
  BY <1>2 DEF ClientInv, ConnectionInv, MutexIsExclusive
<1>4. RequestIsCurrent'
  BY <1>1, <1>2 DEF ClientInv, ConnectionInv, RequestIsCurrent, TypeOK
<1>5. ReplyIsExpected'
  BY <1>1, <1>2 DEF ClientInv, ConnectionInv, ReplyIsExpected
<1>6. TransactionIsPrivate'
  BY <1>1, <1>2 DEF ClientInv, ConnectionInv, TransactionIsPrivate
<1>7. CommandsInOrder'
  BY <1>1, <1>2 DEF ClientInv, ConnectionInv, CommandsInOrder
<1>8. RepliesAreTrue'
  BY <1>1, <1>2 DEF ClientInv, ConnectionInv, RepliesAreTrue, ReplyTells
<1>9. QED
  BY <1>3, <1>4, <1>5, <1>6, <1>7, <1>8 DEF ConnectionInv

LEMMA ProcessCrashed ==
    ASSUME ClientInv, NEW p \in Processes, CrashProcess(p)
    PROVE  ConnectionInv'
<1>1. /\ \A d \in Callers : call'[d] = IF ProcessOf[d] = p THEN None ELSE call[d]
      /\ request'[p] = None /\ reply'[p] = None /\ tx'[p] = {}
      /\ \A r \in Processes : r # p =>
             request'[r] = request[r] /\ reply'[r] = reply[r] /\ tx'[r] = tx[r]
      /\ \A d \in Callers : ProcessOf[d] \in Processes
  BY ClientAssumption DEF ClientInv, TypeOK, CrashProcess, ResetConn
<1>2. /\ \A d \in Callers : HasMutex(d)' <=> HasMutex(d) /\ ProcessOf[d] # p
      /\ \A d \in Callers : ProcessOf[d] # p => (InTransaction(d)' <=> InTransaction(d))
  BY <1>1 DEF HasMutex, InTransaction
<1>3. MutexIsExclusive'
  BY <1>2 DEF ClientInv, ConnectionInv, MutexIsExclusive
<1>4. RequestIsCurrent'
  BY <1>1, <1>2 DEF ClientInv, ConnectionInv, RequestIsCurrent, TypeOK
<1>5. ReplyIsExpected'
  BY <1>1, <1>2 DEF ClientInv, ConnectionInv, ReplyIsExpected
<1>6. TransactionIsPrivate'
  BY <1>1, <1>2 DEF ClientInv, ConnectionInv, TransactionIsPrivate
<1>7. CommandsInOrder'
  BY <1>1, <1>2 DEF ClientInv, ConnectionInv, CommandsInOrder
<1>8. RepliesAreTrue'
  BY <1>1, <1>2 DEF ClientInv, ConnectionInv, RepliesAreTrue, ReplyTells
<1>9. QED
  BY <1>3, <1>4, <1>5, <1>6, <1>7, <1>8 DEF ConnectionInv

----------------------------------------------------------------------------
(* The actions, one by one.                                                *)

LEMMA NewCallType ==
    ASSUME NEW op \in Op, NEW q \in Queue, NEW j \in Jobs \cup {None}
    PROVE  NewCall(op, q, j) \in Call /\ NothingSent(NewCall(op, q, j))
BY DEF NewCall, Call, NothingSent

\* Whoever has yet to set the expiry is not touched by the step.
LEMMA SetterUntouched ==
    ASSUME ClientInv,
           setter' # None =>
              /\ setter' = setter
              /\ call'[setter] = call[setter]
              /\ HasMutex(setter) =>
                    /\ request'[ProcessOf[setter]] \in {None, request[ProcessOf[setter]]}
                    /\ reply'[ProcessOf[setter]] \in {None, reply[ProcessOf[setter]]}
    PROVE  SetterGoesOn'
BY ClientAssumption DEF ClientInv, TypeOK, SetterGoesOn, HasMutex

\* A goroutine outside the mutex, or with the mutex of its process, touches no
\* other goroutine's call, request or answer.
LEMMA SetterElsewhere ==
    ASSUME ClientInv, NEW c \in Callers, NEW p, p = ProcessOf[c],
           setter' # None => setter' = setter /\ setter # c,
           \A d \in Callers : d # c => call'[d] = call[d],
           \A r \in Processes : r # p => request'[r] = request[r] /\ reply'[r] = reply[r],
           \A d \in Callers : HasMutex(d) /\ ProcessOf[d] = p => d = c
    PROVE  SetterGoesOn'
<1>1. \A d \in Callers : ProcessOf[d] \in Processes
  BY ClientAssumption
<1>2. setter \in Callers \cup {None}
  BY DEF ClientInv, TypeOK
<1>3. QED
  BY <1>1, <1>2, SetterUntouched

\* A call that fails outside the mutex.
LEMMA FailsOutside ==
    ASSUME ClientInv, NEW c \in Callers, Waiting(c), Fails(c), UNCHANGED <<queueVars, connVars>>,
           faults' \in Nat
    PROVE  ClientInv'
<1>1. TypeOK'
  <2>1. call' \in [Callers -> Call \cup {None}] /\ outcome' \in [Callers -> {"ok", "nil", "error"}]
    BY DEF ClientInv, TypeOK, Fails, Ends
  <2>2. setter' \in Callers \cup {None}
    BY DEF ClientInv, TypeOK, Fails
  <2>3. QED
    BY <2>1, <2>2 DEF ClientInv, TypeOK, QueuesTypeOK, Fails, queueVars, connVars
<1>2. ConnectionInv'
  BY OutsideMutex DEF Waiting, HasMutex, Fails, NothingSent
<1>3. SetterGoesOn'
  <2>1. /\ setter' # None => setter' = setter /\ setter # c
        /\ \A d \in Callers : d # c => call'[d] = call[d]
    BY DEF ClientInv, TypeOK, Fails
  <2>2. QED
    BY <2>1, SetterUntouched, ClientAssumption DEF ClientInv, TypeOK, connVars
<1>4. QED
  BY <1>1, <1>2, <1>3 DEF ClientInv

\* A call that fails and lets the connection go, or has used it up.
LEMMA FailsInside ==
    ASSUME ClientInv, NEW c \in Callers, HasMutex(c), Fails(c), UNCHANGED queueVars,
           NEW p, p = ProcessOf[c],
           request' = [request EXCEPT ![p] = None],
           reply' = [reply EXCEPT ![p] = None],
           tx' = [tx EXCEPT ![p] = {}],
           socket' \in [Processes -> {"none", "open", "closed", "reset"}], faults' \in Nat
    PROVE  ClientInv'
<1>1. TypeOK'
  <2>1. call' \in [Callers -> Call \cup {None}] /\ outcome' \in [Callers -> {"ok", "nil", "error"}]
    BY DEF ClientInv, TypeOK, Fails, Ends
  <2>2. setter' \in Callers \cup {None}
    BY DEF ClientInv, TypeOK, Fails
  <2>3. request' \in [Processes -> Callers \cup {None}] /\ reply' \in [Processes -> Reply \cup {None}]
    BY DEF ClientInv, TypeOK
  <2>4. tx' \in [Processes -> SUBSET Command]
    BY DEF ClientInv, TypeOK
  <2>5. QED
    BY <2>1, <2>2, <2>3, <2>4 DEF ClientInv, TypeOK, QueuesTypeOK, Fails, queueVars
<1>2. /\ p \in Processes
      /\ request'[p] = None /\ reply'[p] = None /\ tx'[p] = {}
      /\ \A r \in Processes : r # p =>
             request'[r] = request[r] /\ reply'[r] = reply[r] /\ tx'[r] = tx[r]
  BY ClientAssumption DEF ClientInv, TypeOK
<1>3. ConnectionInv'
  <2>1. None \in Call \cup {None} /\ NothingSent(None) /\ call' = [call EXCEPT ![c] = None]
    BY DEF NothingSent, Fails
  <2>2. ASSUME NEW x \in Call \cup {None}, NothingSent(x), call' = [call EXCEPT ![c] = x]
        PROVE  ConnectionInv'
    BY <2>2, <1>2, MutexReleased
  <2>3. QED
    BY <2>1, <2>2
<1>4. SetterGoesOn'
  <2>1. /\ setter' # None => setter' = setter /\ setter # c
        /\ \A d \in Callers : d # c => call'[d] = call[d]
    BY DEF ClientInv, TypeOK, Fails
  <2>2. QED
    BY <2>1, <1>2, OneHolder, SetterElsewhere
<1>5. QED
  BY <1>1, <1>3, <1>4 DEF ClientInv

LEMMA FaultsStayNat ==
    ASSUME ClientInv, Fault
    PROVE  faults' \in Nat
BY DEF ClientInv, TypeOK, Fault

LEMMA CallMade ==
    ASSUME ClientInv, NEW c \in Callers, NEW q \in Lists, NEW j \in Jobs, MakeCall(c, q, j)
    PROVE  ClientInv'
<1>1. PICK op \in Op, k \in Jobs \cup {None} :
          call[c] = None /\ call' = [call EXCEPT ![c] = NewCall(op, q, k)]
  BY DEF MakeCall, Calls, Op, ListOp
<1>2. q \in Queue /\ NewCall(op, q, k) \in Call /\ NothingSent(NewCall(op, q, k))
  BY NewCallType, ClientAssumption
<1>3. TypeOK'
  <2>1. call' \in [Callers -> Call \cup {None}]
    BY <1>1, <1>2 DEF ClientInv, TypeOK
  <2>2. held' \in [Callers -> Held \cup {None}]
    BY DEF ClientInv, TypeOK, MakeCall
  <2>3. QED
    BY <2>1, <2>2 DEF ClientInv, TypeOK, QueuesTypeOK, MakeCall, queueVars, connVars, rateVars
<1>4. ConnectionInv'
  <2>1. ~ HasMutex(c) /\ UNCHANGED connVars
    BY <1>1 DEF HasMutex, MakeCall
  <2>2. QED
    BY <1>1, <1>2, <2>1, OutsideMutex
<1>5. SetterGoesOn'
  <2>1. setter' = setter /\ (setter # None => setter # c)
    BY <1>1 DEF ClientInv, SetterGoesOn, MakeCall, rateVars
  <2>2. \A d \in Callers : d # c => call'[d] = call[d]
    BY <1>1 DEF ClientInv, TypeOK
  <2>3. QED
    BY <2>1, <2>2, SetterUntouched, ClientAssumption DEF ClientInv, TypeOK, MakeCall, connVars
<1>6. QED
  BY <1>3, <1>4, <1>5 DEF ClientInv

\* The command that is sent next.
LEMMA CommandChosen ==
    ASSUME ClientInv, NEW c \in Callers, Send(c) \/ SendNext(c)
    PROVE  \E k \in Command \ {"none"} :
               /\ call' = [call EXCEPT ![c].sent = k]
               /\ IF call[c].op = "requeue" THEN k \in {"MULTI", "LREM", "LPUSH", "EXEC"}
                                             ELSE k = First[call[c].op]
<1>0. call[c] \in Call /\ call[c] # None
  BY DEF ClientInv, TypeOK, Send, SendNext, Waiting, Received, HasMutex
<1>1. CASE Send(c)
  <2>1. call' = [call EXCEPT ![c].sent = First[call[c].op]]
    BY <1>1 DEF Send
  <2>2. First[call[c].op] \in Command
    BY <1>0 DEF Command, Call
  <2>3. First[call[c].op] # "none" /\ (call[c].op = "requeue" => First[call[c].op] = "MULTI")
    BY <1>0 DEF First, Op, ListOp, Call
  <2>4. QED
    BY <2>1, <2>2, <2>3
<1>2. CASE SendNext(c)
  <2>1. call' = [call EXCEPT ![c].sent = Following[call[c].sent]]
    BY <1>2, <1>0 DEF SendNext, ClientInv, TypeOK
  <2>2. call[c].op = "requeue" /\ call[c].sent \in {"MULTI", "LREM", "LPUSH"}
    BY <1>2 DEF SendNext, InTransaction, Received, HasMutex, ClientInv, ConnectionInv, CommandsInOrder
  <2>3. Following[call[c].sent] \in {"LREM", "LPUSH", "EXEC"}
    BY <2>2 DEF Following
  <2>4. QED
    BY <2>1, <2>2, <2>3 DEF Command
<1>3. QED
  BY <1>1, <1>2

LEMMA CommandSent ==
    ASSUME ClientInv, NEW c \in Callers, Send(c) \/ SendNext(c)
    PROVE  ClientInv'
<1> DEFINE p == ProcessOf[c]
           s == call'[c].sent
<1>1. /\ p \in Processes /\ call[c] \in Call /\ call[c] # None
      /\ \A d \in Callers : ProcessOf[d] \in Processes
  BY ClientAssumption DEF ClientInv, TypeOK, Send, SendNext, Waiting, Received, HasMutex
<1>2. /\ \A d \in Callers : HasMutex(d) /\ ProcessOf[d] = p => d = c
      /\ request[p] = None
      /\ tx[p] # {} => call[c].op = "requeue"
  <2>1. CASE Send(c)
    <3>1. MutexFree(p)
      BY <2>1 DEF Send
    <3>2. QED
      BY <3>1, <1>1, FreeConnection DEF MutexFree
  <2>2. CASE SendNext(c)
    <3>1. HasMutex(c) /\ reply[p] # None
      BY <2>2 DEF SendNext, Received
    <3>2. request[p] = None
      BY <3>1, <1>1 DEF ClientInv, ConnectionInv, RequestIsCurrent
    <3>3. QED
      BY <3>1, <3>2, OneHolder
  <2>3. QED
    BY <2>1, <2>2
<1>3. ~ call[c].applied
  <2>1. CASE Send(c)
    BY <2>1, <1>1 DEF Send, Waiting, HasMutex, ClientInv, ConnectionInv, CommandsInOrder
  <2>2. CASE SendNext(c)
    BY <2>2, <1>1 DEF SendNext, InTransaction, ClientInv, ConnectionInv, CommandsInOrder
  <2>3. QED
    BY <2>1, <2>2
<1>4. PICK k \in Command \ {"none"} :
          /\ call' = [call EXCEPT ![c].sent = k]
          /\ IF call[c].op = "requeue" THEN k \in {"MULTI", "LREM", "LPUSH", "EXEC"}
                                        ELSE k = First[call[c].op]
  BY CommandChosen
<1>5. /\ request' = [request EXCEPT ![p] = IF socket[p] = "closed" THEN @ ELSE c]
      /\ reply'[p] = None
      /\ \A r \in Processes : r # p => reply'[r] = reply[r]
      /\ reply' \in [Processes -> Reply \cup {None}]
      /\ tx' = tx
      /\ UNCHANGED <<queueVars, outcome, held, rateVars, faults>>
  <2>1. CASE Send(c)
    BY <2>1, <1>1, FreeConnection DEF Send, ClientInv, TypeOK
  <2>2. CASE SendNext(c)
    BY <2>2, <1>1 DEF SendNext, ClientInv, TypeOK
  <2>3. QED
    BY <2>1, <2>2
<1>6. TypeOK'
  <2>1. call' \in [Callers -> Call \cup {None}]
    BY <1>1, <1>4 DEF ClientInv, TypeOK, Call
  <2>2. request' \in [Processes -> Callers \cup {None}]
    BY <1>5 DEF ClientInv, TypeOK
  <2>3. socket' \in [Processes -> {"none", "open", "closed", "reset"}]
    BY DEF ClientInv, TypeOK, Send, SendNext
  <2>4. QED
    BY <2>1, <2>2, <2>3, <1>5 DEF ClientInv, TypeOK, QueuesTypeOK, queueVars, rateVars
<1>7. ConnectionInv'
  BY <1>1, <1>2, <1>3, <1>4, <1>5, CommandWritten
<1>8. SetterGoesOn'
  <2>1. /\ \A d \in Callers : d # c => call'[d] = call[d]
        /\ call'[c].op = call[c].op /\ call'[c] # None
        /\ \A r \in Processes : r # p => request'[r] = request[r] /\ reply'[r] = reply[r]
    <3>1. call'[c] \in Call /\ call'[c].op = call[c].op
      BY <1>1, <1>4 DEF ClientInv, TypeOK, Call
    <3>2. QED
      BY <3>1, <1>1, <1>4, <1>5, ClientAssumption DEF ClientInv, TypeOK
  <2>2. setter' = setter
    BY <1>5 DEF rateVars
  <2>3. CASE setter = c
    <3>1. call[c].op = "expire"
      <4>1. CASE Send(c)
        BY <4>1, <2>3, ClientAssumption DEF Send, Waiting, HasMutex, ClientInv, SetterGoesOn
      <4>2. CASE SendNext(c)
        BY <4>2, <2>3, ClientAssumption DEF SendNext, InTransaction, ClientInv, SetterGoesOn
      <4>3. QED
        BY <4>1, <4>2
    <3>2. QED
      BY <2>1, <2>2, <2>3, <3>1, <1>5 DEF SetterGoesOn
  <2>4. CASE setter # c
    BY <2>1, <2>2, <2>4, <1>2, SetterElsewhere
  <2>5. QED
    BY <2>3, <2>4
<1>9. QED
  BY <1>6, <1>7, <1>8 DEF ClientInv

LEMMA CallFailed ==
    ASSUME ClientInv, NEW c \in Callers,
           \/ DialFails(c) \/ ReserveCancelled(c) \/ WriteFails(c)
           \/ ReadFails(c) \/ ReceiveError(c) \/ NextWriteFails(c)
    PROVE  ClientInv'
<1>1. CASE DialFails(c) \/ ReserveCancelled(c) \/ WriteFails(c)
  <2>1. Waiting(c) /\ Fails(c) /\ UNCHANGED <<queueVars, connVars>>
    BY <1>1 DEF DialFails, ReserveCancelled, WriteFails
  <2>2. faults' \in Nat
    BY <1>1, FaultsStayNat DEF DialFails, ReserveCancelled, WriteFails, ClientInv, TypeOK
  <2>3. QED
    BY <2>1, <2>2, FailsOutside
<1>2. CASE ReadFails(c) \/ ReceiveError(c) \/ NextWriteFails(c)
  <2> DEFINE p == ProcessOf[c]
  <2>1. HasMutex(c) /\ Fails(c) /\ UNCHANGED queueVars
    BY <1>2 DEF ReadFails, ReceiveError, NextWriteFails, Received
  <2>2. faults' \in Nat
    BY <1>2, FaultsStayNat DEF ReadFails, ReceiveError, NextWriteFails, ClientInv, TypeOK
  <2>3. /\ request' = [request EXCEPT ![p] = None]
        /\ reply' = [reply EXCEPT ![p] = None]
        /\ tx' = [tx EXCEPT ![p] = {}]
    <3>1. CASE ReadFails(c) \/ ReceiveError(c)
      BY <3>1 DEF ReadFails, ReceiveError, ResetConn
    <3>2. CASE NextWriteFails(c)
      <4>1. request[p] = None
        BY <3>2, <2>1, OneHolder DEF NextWriteFails, Received, ClientInv, ConnectionInv, RequestIsCurrent
      <4>2. request' = request /\ request \in [Processes -> Callers \cup {None}]
        BY <3>2 DEF NextWriteFails, ClientInv, TypeOK
      <4>3. QED
        BY <3>2, <4>1, <4>2 DEF NextWriteFails
    <3>3. QED
      BY <1>2, <3>1, <3>2
  <2>4. socket' \in [Processes -> {"none", "open", "closed", "reset"}]
    BY <1>2 DEF ReadFails, ReceiveError, NextWriteFails, ResetConn, ClientInv, TypeOK
  <2>5. QED
    BY <2>1, <2>2, <2>3, <2>4, FailsInside
<1>3. QED
  BY <1>1, <1>2

\* What the last answer of a call says about the call.
LEMMA LastAnswer ==
    ASSUME ClientInv, NEW c \in Callers, Received(c), ~ InTransaction(c),
           NEW r, r = reply[ProcessOf[c]],
           NEW v, v = Verdict(call[c].op, r.kind)
    PROVE  /\ ProcessOf[c] \in Processes /\ call[c] \in Call /\ r \in Reply
           /\ request[ProcessOf[c]] = None /\ tx[ProcessOf[c]] = {}
           /\ v = "again" => call[c].op = "reserve" /\ ~ call[c].applied
           /\ v = "nil" => call[c].op = "recover" /\ ~ call[c].applied
           /\ v = "ok" => r.kind = "done"
           /\ v = "ok" /\ call[c].op \in ListOp =>
                 call[c].applied /\ r.job = call[c].job /\ r.job \in Jobs
<1>1. /\ HasMutex(c) /\ ProcessOf[c] \in Processes /\ call[c] \in Call
      /\ r # None /\ r.kind # "error"
  BY OneHolder DEF Received
<1>2. r \in Reply
  BY <1>1 DEF ClientInv, TypeOK
<1>3. request[ProcessOf[c]] = None
  BY <1>1 DEF ClientInv, ConnectionInv, RequestIsCurrent
<1>4. ReplyTells(c, r)
  BY <1>1 DEF ClientInv, ConnectionInv, RepliesAreTrue
<1>5. r.kind \in {"done", "nil", "missing"}
  BY <1>1, <1>2, <1>4 DEF ReplyTells, Reply, ReplyKind
<1>6. /\ v = "again" => r.kind = "nil" /\ call[c].op = "reserve"
      /\ v = "nil" => r.kind = "nil" /\ call[c].op # "reserve"
      /\ v = "ok" => r.kind = "done"
  BY <1>5 DEF Verdict
<1>7. call[c].applied => call[c].job \in Jobs
  BY <1>1 DEF HasMutex, ClientInv, ConnectionInv, CommandsInOrder
<1>8. QED
  BY <1>1, <1>2, <1>3, <1>4, <1>6, <1>7 DEF ReplyTells

LEMMA CallCompleted ==
    ASSUME ClientInv, NEW c \in Callers, Complete(c)
    PROVE  ClientInv'
<1> DEFINE p == ProcessOf[c]
           r == reply[p]
           v == Verdict(call[c].op, r.kind)
<1>1. /\ Received(c) /\ ~ InTransaction(c) /\ HasMutex(c) /\ call[c] # None
      /\ reply' = [reply EXCEPT ![p] = None]
      /\ UNCHANGED <<queueVars, socket, request, tx, faults>>
  BY DEF Complete, Received, HasMutex
<1>2. /\ p \in Processes /\ call[c] \in Call /\ r \in Reply
      /\ request[p] = None /\ tx[p] = {}
      /\ v = "again" => call[c].op = "reserve" /\ ~ call[c].applied
      /\ v = "nil" => call[c].op = "recover" /\ ~ call[c].applied
      /\ v = "ok" => r.kind = "done"
      /\ v = "ok" /\ call[c].op \in ListOp =>
            call[c].applied /\ r.job = call[c].job /\ r.job \in Jobs
  BY <1>1, LastAnswer
<1>3. /\ request' = [request EXCEPT ![p] = None]
      /\ tx' = [tx EXCEPT ![p] = {}]
      /\ socket' \in [Processes -> {"none", "open", "closed", "reset"}]
      /\ faults' \in Nat
  BY <1>1, <1>2 DEF ClientInv, TypeOK
<1>4. CASE v = "error"
  <2>1. Fails(c)
    BY <1>4 DEF Complete
  <2>2. QED
    BY <2>1, <1>1, <1>3, FailsInside
<1>5. CASE v \in {"again", "ok", "nil"}
  <2>1. PICK x \in Call \cup {None} :
            /\ NothingSent(x) /\ call' = [call EXCEPT ![c] = x]
            /\ setter = c => x # None /\ x.op = "expire" /\ x.sent = "none"
    <3>1. CASE v = "again"
      <4> DEFINE x == [call[c] EXCEPT !.sent = "none"]
      <4>1. call' = [call EXCEPT ![c] = x]
        BY <3>1, <1>2 DEF Complete, ClientInv, TypeOK
      <4>2. x \in Call /\ NothingSent(x)
        BY <3>1, <1>2 DEF Call, NothingSent
      <4>3. setter # c
        BY <3>1, <1>2, ClientAssumption DEF ClientInv, SetterGoesOn
      <4>4. QED
        BY <4>1, <4>2, <4>3
    <3>2. CASE v \in {"ok", "nil"}
      <4> DEFINE x == AfterCall(c, r.count)
      <4>1. call' = [call EXCEPT ![c] = x]
        BY <3>2 DEF Complete
      <4>2. x \in Call \cup {None} /\ NothingSent(x)
        BY <1>2, NewCallType DEF AfterCall, Call, Op, NothingSent
      <4>3. setter = c => x # None /\ x.op = "expire" /\ x.sent = "none"
        <5> SUFFICES ASSUME setter = c
                     PROVE  x # None /\ x.op = "expire" /\ x.sent = "none"
          OBVIOUS
        <5>1. call[c].op = "incr" /\ r.count = 1
          BY <1>1, ClientAssumption DEF Received, ClientInv, SetterGoesOn
        <5>2. x = NewCall("expire", call[c].queue, None)
          BY <5>1 DEF AfterCall
        <5>3. x \in Call
          BY <5>2, <1>2, NewCallType DEF Call, Op
        <5>4. x # None
          BY <5>3, ClientAssumption
        <5>5. x.op = "expire" /\ x.sent = "none"
          BY <5>2 DEF NewCall
        <5>6. QED
          BY <5>4, <5>5
      <4>4. QED
        BY <4>1, <4>2, <4>3
    <3>3. QED
      BY <1>5, <3>1, <3>2
  <2>2. /\ setter' = setter /\ rate' = rate
        /\ outcome' \in [Callers -> {"ok", "nil", "error"}]
        /\ held' \in [Callers -> Held \cup {None}]
    <3>1. CASE v = "again"
      BY <3>1 DEF Complete, rateVars, ClientInv, TypeOK
    <3>2. CASE v \in {"ok", "nil"}
      <4>1. setter' = setter /\ rate' = rate /\ Ends(c, v)
        BY <3>2 DEF Complete, rateVars
      <4>2. outcome' \in [Callers -> {"ok", "nil", "error"}]
        BY <3>2, <4>1 DEF Ends, ClientInv, TypeOK
      <4>3. held' = IF call[c].op = "reserve"
                      THEN [held EXCEPT ![c] = Reservation(call[c].queue, r.job)] ELSE held
        BY <3>2 DEF Complete
      <4>4. call[c].op = "reserve" => Reservation(call[c].queue, r.job) \in Held
        BY <3>2, <1>2 DEF Reservation, Held, Call, ListOp
      <4>5. held' \in [Callers -> Held \cup {None}]
        BY <4>3, <4>4 DEF ClientInv, TypeOK
      <4>6. QED
        BY <4>1, <4>2, <4>5
    <3>3. QED
      BY <1>5, <3>1, <3>2
  <2>3. TypeOK'
    <3>1. call' \in [Callers -> Call \cup {None}] /\ reply' \in [Processes -> Reply \cup {None}]
      BY <2>1, <1>1 DEF ClientInv, TypeOK
    <3>2. QED
      BY <3>1, <2>2, <1>1 DEF ClientInv, TypeOK, QueuesTypeOK, queueVars
  <2>4. /\ request'[p] = None /\ reply'[p] = None /\ tx'[p] = {}
        /\ \A q \in Processes : q # p =>
               request'[q] = request[q] /\ reply'[q] = reply[q] /\ tx'[q] = tx[q]
    BY <1>1, <1>2 DEF ClientInv, TypeOK
  <2>5. ConnectionInv'
    BY <2>1, <2>4, <1>1, <1>2, MutexReleased
  <2>6. SetterGoesOn'
    <3>1. \A d \in Callers : d # c => call'[d] = call[d]
      BY <2>1 DEF ClientInv, TypeOK
    <3>2. CASE setter = c
      <4>1. call'[c] # None /\ call'[c].op = "expire" /\ call'[c].sent = "none"
        BY <3>2, <2>1 DEF ClientInv, TypeOK
      <4>2. QED
        BY <3>2, <4>1, <2>2 DEF SetterGoesOn, HasMutex
    <3>3. CASE setter # c
      BY <3>1, <3>3, <2>2, <2>4, <1>1, OneHolder, SetterElsewhere
    <3>4. QED
      BY <3>2, <3>3
  <2>7. QED
    BY <2>3, <2>5, <2>6 DEF ClientInv
<1>6. v \in {"error", "again", "ok", "nil"}
  BY DEF Verdict
<1>7. QED
  BY <1>4, <1>5, <1>6

\* The lists keep their type.
LEMMA EffectType ==
    ASSUME QueuesTypeOK(Jobs), NEW op, NEW q \in Queue, NEW j \in Jobs, Effect(op, q, j)
    PROVE  QueuesTypeOK(Jobs)'
<1>1. CASE Enqueue(q, j)
  BY <1>1 DEF Enqueue, QueuesTypeOK
<1>2. CASE Reserve(q, j)
  BY <1>2 DEF Reserve, QueuesTypeOK
<1>3. CASE AckReserved(q, j)
  BY <1>3 DEF AckReserved, QueuesTypeOK
<1>4. CASE RequeueReserved(q, j)
  BY <1>4 DEF RequeueReserved, QueuesTypeOK
<1>5. CASE RecoverProcessingJob(q, j)
  BY <1>5 DEF RecoverProcessingJob, QueuesTypeOK
<1>6. QED
  BY <1>1, <1>2, <1>3, <1>4, <1>5 DEF Effect

\* The goroutine whose command is executed.
LEMMA Asking ==
    ASSUME ClientInv, NEW c \in Callers, Asks(c)
    PROVE  /\ ProcessOf[c] \in Processes /\ call[c] \in Call /\ HasMutex(c)
           /\ ~ call[c].applied
           /\ tx[ProcessOf[c]] # {} => call[c].op = "requeue"
           /\ call[c].op # "requeue" => call[c].sent = First[call[c].op]
           /\ call[c].op = "requeue" => call[c].sent \in {"MULTI", "LREM", "LPUSH", "EXEC"}
           /\ setter = c => call[c].op = "expire"
<1>1. ProcessOf[c] \in Processes /\ request[ProcessOf[c]] = c /\ c # None
  BY ClientAssumption DEF Asks
<1>2. HasMutex(c) /\ ~ call[c].applied
  BY <1>1 DEF ClientInv, ConnectionInv, RequestIsCurrent
<1>3. call[c] \in Call /\ (tx[ProcessOf[c]] # {} => call[c].op = "requeue")
  BY <1>2, OneHolder
<1>4. /\ call[c].op # "requeue" => call[c].sent = First[call[c].op]
      /\ call[c].op = "requeue" => call[c].sent \in {"MULTI", "LREM", "LPUSH", "EXEC"}
  BY <1>2 DEF HasMutex, ClientInv, ConnectionInv, CommandsInOrder
<1>5. setter = c => call[c].op = "expire"
  BY <1>1 DEF ClientInv, SetterGoesOn
<1>6. QED
  BY <1>1, <1>2, <1>3, <1>4, <1>5

\* An answer to a command that has not changed the lists.
AnswerFits(c, a, t) ==
    /\ a.kind = "queued" => InTransaction(c)
    /\ a.kind = "nil" => call[c].op \in {"reserve", "recover"}
    /\ a.kind = "done" /\ call[c].op \in ListOp => InTransaction(c)
    /\ a.kind # "error" /\ ~ InTransaction(c) => t = {}

\* Command of c answered with a, the transaction being t then; the call, its
\* lists and whatever c does not have to do with stay as they are.
AnsweredWith(c, a, t) ==
    /\ Asks(c)
    /\ Answers(c, a.kind, a.job, a.count)
    /\ UNCHANGED <<queueVars, call>>
    /\ tx' = [tx EXCEPT ![ProcessOf[c]] = t]
    /\ t # {} => call[c].op = "requeue"
    /\ AnswerFits(c, a, t)
    /\ rate' \in [count : Nat, expires : BOOLEAN]
    /\ faults' \in Nat
    /\ \/ setter' = setter
       \/ setter' = None
       \/ setter' = c /\ call[c].op = "incr" /\ a.kind = "done" /\ a.count = 1
    /\ setter = c /\ setter' = c => a.kind = "error"

LEMMA ServedWithoutEffect ==
    ASSUME ClientInv, NEW c \in Callers, NEW a \in Reply, NEW t \in SUBSET Command,
           AnsweredWith(c, a, t)
    PROVE  ClientInv'
<1> USE DEF AnsweredWith
<1> DEFINE p == ProcessOf[c]
<1>1. /\ p \in Processes /\ call[c] \in Call /\ HasMutex(c) /\ ~ call[c].applied
      /\ setter = c => call[c].op = "expire"
  BY Asking
<1>2. /\ a = Answer(a.kind, a.job, a.count)
      /\ request' = [request EXCEPT ![p] = None]
      /\ reply' = [reply EXCEPT ![p] = a]
      /\ UNCHANGED <<outcome, held, socket>>
  BY DEF Answers, Answer, Reply
<1>3. TypeOK'
  <2>1. request' \in [Processes -> Callers \cup {None}] /\ reply' \in [Processes -> Reply \cup {None}]
    BY <1>1, <1>2 DEF ClientInv, TypeOK
  <2>2. tx' \in [Processes -> SUBSET Command] /\ setter' \in Callers \cup {None}
    BY DEF ClientInv, TypeOK
  <2>3. QED
    BY <2>1, <2>2, <1>2 DEF ClientInv, TypeOK, QueuesTypeOK, queueVars
<1>4. ConnectionInv'
  <2>1. call' = [call EXCEPT ![c] = call[c]] /\ tx'[p] = t
    BY <1>1 DEF ClientInv, TypeOK
  <2>2. ReplyTells(c, a)'
    BY <2>1, <1>1 DEF ReplyTells, AnswerFits, InTransaction
  <2>3. QED
    BY <2>1, <2>2, <1>1, <1>2, CommandAnswered
<1>5. SetterGoesOn'
  <2>1. /\ \A d \in Callers : HasMutex(d)' <=> HasMutex(d)
        /\ request'[p] = None /\ reply'[p] = a
    BY <1>1, <1>2 DEF HasMutex, ClientInv, TypeOK
  <2>2. CASE setter' = c
    BY <2>1, <2>2, <1>1, ClientAssumption DEF SetterGoesOn, HasMutex
  <2>3. CASE setter' # c
    <3>1. setter' # None => setter' = setter /\ setter # c
      BY <2>3
    <3>2. \A r \in Processes : r # p => request'[r] = request[r] /\ reply'[r] = reply[r]
      BY <1>2 DEF ClientInv, TypeOK
    <3>3. QED
      BY <3>1, <3>2, <1>1, OneHolder, SetterElsewhere
  <2>4. QED
    BY <2>2, <2>3
<1>6. QED
  BY <1>3, <1>4, <1>5 DEF ClientInv

LEMMA AnswerType ==
    ASSUME NEW kind \in ReplyKind, NEW j \in Jobs \cup {None}, NEW n \in Nat
    PROVE  /\ Answer(kind, j, n) \in Reply
           /\ Answer(kind, j, n).kind = kind
           /\ Answer(kind, j, n).job = j
           /\ Answer(kind, j, n).count = n
BY DEF Answer, Reply

\* A refused command.
LEMMA CommandRefused ==
    ASSUME ClientInv, NEW c \in Callers, Refuse(c)
    PROVE  ClientInv'
<1>1. Asks(c) /\ UNCHANGED <<queueVars, call, tx, rateVars>>
  BY DEF Refuse
<1>2. PICK a \in Reply : a.kind = "error" /\ Answers(c, a.kind, a.job, a.count)
  BY AnswerType DEF Refuse, ReplyKind
<1> DEFINE t == tx[ProcessOf[c]]
<1>3. /\ t \in SUBSET Command /\ tx' = [tx EXCEPT ![ProcessOf[c]] = t]
      /\ t # {} => call[c].op = "requeue"
  BY <1>1, Asking DEF ClientInv, TypeOK
<1>4. AnswerFits(c, a, t)
  BY <1>2 DEF AnswerFits
<1>5. rate' \in [count : Nat, expires : BOOLEAN] /\ faults' \in Nat /\ setter' = setter
  BY <1>1, FaultsStayNat DEF Refuse, rateVars, ClientInv, TypeOK
<1>6. AnsweredWith(c, a, t)
  BY <1>1, <1>2, <1>3, <1>4, <1>5 DEF AnsweredWith
<1>7. QED
  BY <1>2, <1>3, <1>6, ServedWithoutEffect

\* MULTI, and what is put off until EXEC.
LEMMA TransactionServed ==
    ASSUME ClientInv, NEW c \in Callers, OpenTransaction(c) \/ QueueCommand(c)
    PROVE  ClientInv'
<1>1. /\ Asks(c) /\ UNCHANGED <<queueVars, call, rateVars, faults>>
      /\ ProcessOf[c] \in Processes /\ call[c] \in Call
  BY Asking DEF OpenTransaction, QueueCommand
<1>2. call[c].op = "requeue" /\ call[c].sent \in {"MULTI", "LREM", "LPUSH"}
  <2>1. CASE OpenTransaction(c)
    <3>1. call[c].op # "requeue" => call[c].sent = First[call[c].op]
      BY <1>1, Asking
    <3>2. call[c].op # "requeue" => First[call[c].op] # "MULTI"
      BY <1>1 DEF First, Op, ListOp, Call
    <3>3. QED
      BY <2>1, <3>1, <3>2 DEF OpenTransaction
  <2>2. CASE QueueCommand(c)
    BY <2>2, <1>1, Asking DEF QueueCommand
  <2>3. QED
    BY <2>1, <2>2
<1>3. PICK a \in Reply, t \in SUBSET Command :
          /\ a.kind \in {"done", "queued"} /\ Answers(c, a.kind, a.job, a.count)
          /\ tx' = [tx EXCEPT ![ProcessOf[c]] = t]
  <2>1. CASE OpenTransaction(c)
    <3> DEFINE a == Answer("done", None, 0)
               t == tx[ProcessOf[c]] \cup {"MULTI"}
    <3>1. a \in Reply /\ a.kind = "done" /\ a.job = None /\ a.count = 0
      BY AnswerType DEF ReplyKind
    <3>2. t \in SUBSET Command
      BY <2>1, <1>1 DEF OpenTransaction, ClientInv, TypeOK, Call, Command, First, Op
    <3>3. QED
      BY <2>1, <3>1, <3>2 DEF OpenTransaction
  <2>2. CASE QueueCommand(c)
    <3> DEFINE a == Answer("queued", None, 0)
               t == tx[ProcessOf[c]] \cup {call[c].sent}
    <3>1. a \in Reply /\ a.kind = "queued" /\ a.job = None /\ a.count = 0
      BY DEF Answer, Reply, ReplyKind
    <3>2. t \in SUBSET Command
      BY <2>2, <1>1, <1>2 DEF QueueCommand, ClientInv, TypeOK, Command
    <3>3. QED
      BY <2>2, <3>1, <3>2 DEF QueueCommand
  <2>3. QED
    BY <2>1, <2>2
<1>4. AnswerFits(c, a, t)
  BY <1>1, <1>2, <1>3 DEF AnswerFits, InTransaction
<1>5. /\ rate' \in [count : Nat, expires : BOOLEAN] /\ faults' \in Nat
      /\ setter' = setter /\ setter # c
  BY <1>1, <1>2, Asking DEF rateVars, ClientInv, TypeOK
<1>6. AnsweredWith(c, a, t)
  BY <1>1, <1>2, <1>3, <1>4, <1>5 DEF AnsweredWith
<1>7. QED
  BY <1>3, <1>6, ServedWithoutEffect

\* Commands that find nothing, or are not about the lists.
LEMMA OtherServed ==
    ASSUME ClientInv, NEW c \in Callers,
           NothingToTake(c) \/ ExecuteIncr(c) \/ ExecuteExpire(c) \/ ExecuteRead(c)
    PROVE  ClientInv'
<1>1. /\ Asks(c) /\ UNCHANGED <<queueVars, call, tx, faults>>
      /\ tx[ProcessOf[c]] = {} /\ ProcessOf[c] \in Processes
      /\ ~ call[c].applied /\ (setter = c => call[c].op = "expire")
  BY Asking DEF NothingToTake, ExecuteIncr, ExecuteExpire, ExecuteRead
<1>2. tx' = [tx EXCEPT ![ProcessOf[c]] = {}]
  BY <1>1 DEF ClientInv, TypeOK
<1>3. rate \in [count : Nat, expires : BOOLEAN] /\ faults' \in Nat /\ rate.count \in Nat
  BY <1>1 DEF ClientInv, TypeOK
<1>4. CASE NothingToTake(c)
  <2>1. PICK a \in Reply : a.kind = "nil" /\ Answers(c, a.kind, a.job, a.count)
    BY <1>4, AnswerType DEF NothingToTake, ReplyKind
  <2>2. call[c].op \in {"reserve", "recover"} /\ setter' = setter /\ rate' = rate
    BY <1>4 DEF NothingToTake, rateVars
  <2>3. AnswerFits(c, a, {})
    BY <2>1, <2>2 DEF AnswerFits
  <2>4. AnsweredWith(c, a, {})
    BY <1>1, <1>2, <1>3, <2>1, <2>2, <2>3 DEF AnsweredWith
  <2>5. QED
    BY <2>1, <2>4, ServedWithoutEffect
<1>5. CASE ExecuteIncr(c)
  <2>1. PICK a \in Reply :
            a.kind = "done" /\ a.count = rate.count + 1 /\ Answers(c, a.kind, a.job, a.count)
    <3>1. rate.count + 1 \in Nat /\ "done" \in ReplyKind
      BY <1>3 DEF ReplyKind
    <3>2. Answers(c, "done", None, rate.count + 1)
      BY <1>5 DEF ExecuteIncr
    <3>3. QED
      BY <3>1, <3>2, AnswerType
  <2>2. /\ call[c].op = "incr" /\ setter # c
        /\ setter' = IF rate.count = 0 THEN c ELSE setter
    BY <1>5, <1>1 DEF ExecuteIncr
  <2>3. rate' \in [count : Nat, expires : BOOLEAN]
    <3>1. rate' = [rate EXCEPT !.count = rate.count + 1]
      BY <1>5 DEF ExecuteIncr
    <3>2. rate.count + 1 \in Nat
      BY <1>3
    <3>3. QED
      BY <3>1, <3>2, <1>3
  <2>4. AnswerFits(c, a, {})
    BY <2>1, <2>2 DEF AnswerFits, ListOp
  <2>5. rate.count = 0 => a.count = 1
    BY <2>1
  <2>6. AnsweredWith(c, a, {})
    BY <1>1, <1>2, <1>3, <2>1, <2>2, <2>3, <2>4, <2>5 DEF AnsweredWith
  <2>7. QED
    BY <2>1, <2>6, ServedWithoutEffect
<1>6. CASE ExecuteExpire(c) \/ ExecuteRead(c)
  <2>1. PICK a \in Reply : a.kind = "done" /\ Answers(c, a.kind, a.job, a.count)
    BY <1>6, AnswerType DEF ExecuteExpire, ExecuteRead, ReplyKind
  <2>2. /\ call[c].op \in {"expire", "ttl", "probe"}
        /\ setter' = setter \/ setter' = None
        /\ setter = c => setter' = None
    BY <1>6, <1>1, ClientAssumption DEF ExecuteExpire, ExecuteRead, rateVars
  <2>3. rate' \in [count : Nat, expires : BOOLEAN]
    <3>1. CASE ExecuteExpire(c)
      <4>1. rate' = [rate EXCEPT !.expires = (rate.count > 0)]
        BY <3>1 DEF ExecuteExpire
      <4>2. (rate.count > 0) \in BOOLEAN
        OBVIOUS
      <4>3. QED
        BY <4>1, <4>2, <1>3
    <3>2. CASE ExecuteRead(c)
      BY <3>2, <1>3 DEF ExecuteRead, rateVars
    <3>3. QED
      BY <1>6, <3>1, <3>2
  <2>4. AnswerFits(c, a, {})
    BY <2>1, <2>2 DEF AnswerFits, ListOp
  <2>5. ~ (setter = c /\ setter' = c)
    BY <2>2, ClientAssumption
  <2>6. AnsweredWith(c, a, {})
    BY <1>1, <1>2, <1>3, <2>1, <2>2, <2>3, <2>4, <2>5 DEF AnsweredWith
  <2>7. QED
    BY <2>1, <2>6, ServedWithoutEffect
<1>7. QED
  BY <1>4, <1>5, <1>6

\* The commands that change the lists.
LEMMA ListsChanged ==
    ASSUME ClientInv, NEW c \in Callers, NEW j \in Jobs, ExecuteOnLists(c, j)
    PROVE  ClientInv'
<1> DEFINE p == ProcessOf[c]
           op == call[c].op
           q == call[c].queue
<1>1. /\ Asks(c) /\ p \in Processes /\ call[c] \in Call /\ HasMutex(c)
      /\ op \in ListOp /\ (op = "requeue" => call[c].sent = "EXEC")
      /\ setter # c
  BY Asking DEF ExecuteOnLists, ListOp
<1>2. PICK x \in Call :
          /\ x.op = op /\ x.sent = call[c].sent /\ x.job = j /\ x.applied
          /\ call' = [call EXCEPT ![c] = x]
  <2> DEFINE x == [call[c] EXCEPT !.applied = TRUE, !.job = j]
  <2>1. x \in Call /\ x.op = op /\ x.sent = call[c].sent /\ x.job = j /\ x.applied
    BY <1>1 DEF Call
  <2>2. call' = [call EXCEPT ![c] = x]
    BY <1>1 DEF ExecuteOnLists, ClientInv, TypeOK
  <2>3. QED
    BY <2>1, <2>2
<1>3. PICK a \in Reply :
          a.kind \in {"done", "missing"} /\ a.job = j /\ Answers(c, a.kind, a.job, a.count)
  <2>1. PICK kind \in {"done", "missing"} : Answers(c, kind, j, 0)
    BY DEF ExecuteOnLists, Removed
  <2>2. QED
    BY <2>1, AnswerType DEF ReplyKind
<1>4. /\ request' = [request EXCEPT ![p] = None] /\ reply' = [reply EXCEPT ![p] = a]
      /\ tx' = [tx EXCEPT ![p] = {}]
      /\ UNCHANGED <<outcome, held, socket, rateVars, faults>>
  <2>1. a = Answer(a.kind, a.job, a.count)
    BY DEF Answer, Reply
  <2>2. QED
    BY <1>3, <2>1 DEF ExecuteOnLists, Answers
<1>5. TypeOK'
  <2>1. QueuesTypeOK(Jobs)'
    BY <1>1, EffectType DEF ExecuteOnLists, Call, ClientInv, TypeOK
  <2>2. /\ call' \in [Callers -> Call \cup {None}]
        /\ request' \in [Processes -> Callers \cup {None}]
        /\ reply' \in [Processes -> Reply \cup {None}]
        /\ tx' \in [Processes -> SUBSET Command]
    BY <1>2, <1>3, <1>4 DEF ClientInv, TypeOK
  <2>3. QED
    BY <2>1, <2>2, <1>4 DEF ClientInv, TypeOK, rateVars
<1>6. ConnectionInv'
  <2>1. call'[c] = x /\ tx'[p] = {}
    BY <1>1, <1>2, <1>4 DEF ClientInv, TypeOK
  <2>2. ReplyTells(c, a)'
    BY <2>1, <1>1, <1>2, <1>3 DEF ReplyTells, InTransaction
  <2>3. QED
    BY <2>2, <1>1, <1>2, <1>3, <1>4, CommandAnswered
<1>7. SetterGoesOn'
  <2>1. setter' = setter /\ \A d \in Callers : d # c => call'[d] = call[d]
    BY <1>2, <1>4 DEF rateVars, ClientInv, TypeOK
  <2>2. \A r \in Processes : r # p => request'[r] = request[r] /\ reply'[r] = reply[r]
    BY <1>4 DEF ClientInv, TypeOK
  <2>3. QED
    BY <2>1, <2>2, <1>1, OneHolder, SetterElsewhere
<1>8. QED
  BY <1>5, <1>6, <1>7 DEF ClientInv

----------------------------------------------------------------------------
(* Steps without a caller, and the invariant.                              *)

LEMMA WindowEnded ==
    ASSUME ClientInv, WindowEnds
    PROVE  ClientInv'
<1>1. UNCHANGED <<queueVars, callerVars, connVars, setter, faults>>
  BY DEF WindowEnds
<1>2. rate' \in [count : Nat, expires : BOOLEAN]
  BY DEF WindowEnds
<1>3. TypeOK'
  BY <1>1, <1>2 DEF ClientInv, TypeOK, QueuesTypeOK, queueVars, callerVars, connVars
<1>4. ConnectionInv'
  BY <1>1 DEF callerVars, connVars, ClientInv, ConnectionInv, MutexIsExclusive, RequestIsCurrent,
     ReplyIsExpected, TransactionIsPrivate, CommandsInOrder, RepliesAreTrue, ReplyTells,
     HasMutex, InTransaction
<1>5. SetterGoesOn'
  BY <1>1 DEF callerVars, connVars, ClientInv, SetterGoesOn, HasMutex
<1>6. QED
  BY <1>3, <1>4, <1>5 DEF ClientInv

LEMMA ConnectionDropped ==
    ASSUME ClientInv, NEW p \in Processes, LoseConnection(p)
    PROVE  ClientInv'
<1>1. /\ UNCHANGED <<queueVars, callerVars, rateVars>> /\ call' = call /\ setter' = setter
      /\ request' = [request EXCEPT ![p] = None]
      /\ reply' = reply \/ reply' = [reply EXCEPT ![p] = None]
      /\ tx' = [tx EXCEPT ![p] = {}]
  BY DEF LoseConnection, callerVars, rateVars
<1>2. TypeOK'
  <2>1. /\ request' \in [Processes -> Callers \cup {None}]
        /\ reply' \in [Processes -> Reply \cup {None}]
        /\ tx' \in [Processes -> SUBSET Command]
    BY <1>1 DEF ClientInv, TypeOK
  <2>2. socket' \in [Processes -> {"none", "open", "closed", "reset"}] /\ faults' \in Nat
    BY FaultsStayNat DEF LoseConnection, ClientInv, TypeOK
  <2>3. QED
    BY <1>1, <2>1, <2>2 DEF ClientInv, TypeOK, QueuesTypeOK, queueVars, callerVars, rateVars
<1>3. ConnectionInv'
  BY <1>1, ConnectionLost
<1>4. SetterGoesOn'
  <2>1. \A r \in Processes : request'[r] \in {None, request[r]} /\ reply'[r] \in {None, reply[r]}
    BY <1>1 DEF ClientInv, TypeOK
  <2>2. setter \in Callers \cup {None} /\ \A d \in Callers : ProcessOf[d] \in Processes
    BY ClientAssumption DEF ClientInv, TypeOK
  <2>3. QED
    BY <1>1, <2>1, <2>2, SetterUntouched
<1>5. QED
  BY <1>2, <1>3, <1>4 DEF ClientInv

LEMMA ProcessRestarted ==
    ASSUME ClientInv, NEW p \in Processes, CrashProcess(p)
    PROVE  ClientInv'
<1>1. \A d \in Callers : ProcessOf[d] \in Processes
  BY ClientAssumption
<1>2. TypeOK'
  <2>1. call' \in [Callers -> Call \cup {None}] /\ held' \in [Callers -> Held \cup {None}]
    BY DEF CrashProcess, ClientInv, TypeOK
  <2>2. /\ socket' \in [Processes -> {"none", "open", "closed", "reset"}]
        /\ request' \in [Processes -> Callers \cup {None}]
        /\ reply' \in [Processes -> Reply \cup {None}]
        /\ tx' \in [Processes -> SUBSET Command]
    BY DEF CrashProcess, ResetConn, ClientInv, TypeOK
  <2>3. setter' \in Callers \cup {None} /\ faults' \in Nat
    BY FaultsStayNat DEF CrashProcess, ClientInv, TypeOK
  <2>4. QED
    BY <2>1, <2>2, <2>3 DEF CrashProcess, ClientInv, TypeOK, QueuesTypeOK, queueVars
<1>3. ConnectionInv'
  BY ProcessCrashed
<1>4. SetterGoesOn'
  <2>1. setter' # None => setter' = setter /\ ProcessOf[setter] # p /\ setter \in Callers
    BY DEF CrashProcess, ClientInv, TypeOK
  <2>2. \A d \in Callers : ProcessOf[d] # p => call'[d] = call[d]
    BY DEF CrashProcess
  <2>3. \A r \in Processes : r # p => request'[r] = request[r] /\ reply'[r] = reply[r]
    BY DEF CrashProcess, ResetConn, ClientInv, TypeOK
  <2>4. QED
    BY <1>1, <2>1, <2>2, <2>3, SetterUntouched
<1>5. QED
  BY <1>2, <1>3, <1>4 DEF ClientInv

LEMMA InvariantHoldsFirst ==
    ASSUME Init
    PROVE  ClientInv
<1>1. TypeOK
  BY ClientAssumption DEF Init, TypeOK, QueuesInit, QueuesTypeOK
<1>2. \A c \in Callers : ~ HasMutex(c)
  BY DEF Init, HasMutex
<1>3. ConnectionInv
  BY <1>2, ClientAssumption DEF Init, ConnectionInv, MutexIsExclusive, RequestIsCurrent,
     ReplyIsExpected, TransactionIsPrivate, CommandsInOrder, RepliesAreTrue
<1>4. SetterGoesOn
  BY DEF Init, SetterGoesOn
<1>5. QED
  BY <1>1, <1>3, <1>4 DEF ClientInv

\* A stuttering step.
LEMMA InvariantStutters ==
    ASSUME ClientInv, UNCHANGED vars
    PROVE  ClientInv'
<1>1. TypeOK'
  BY DEF vars, queueVars, callerVars, connVars, rateVars, ClientInv, TypeOK, QueuesTypeOK
<1>2. ConnectionInv'
  BY DEF vars, callerVars, connVars, ClientInv, ConnectionInv, MutexIsExclusive, RequestIsCurrent,
     ReplyIsExpected, TransactionIsPrivate, CommandsInOrder, RepliesAreTrue, ReplyTells,
     HasMutex, InTransaction
<1>3. SetterGoesOn'
  BY DEF vars, callerVars, connVars, rateVars, ClientInv, SetterGoesOn, HasMutex
<1>4. QED
  BY <1>1, <1>2, <1>3 DEF ClientInv

LEMMA InvariantIsKept ==
    ASSUME ClientInv, [Next]_vars
    PROVE  ClientInv'
<1>1. ASSUME NEW c \in Callers, CallerNext(c)
      PROVE  ClientInv'
  BY <1>1, CallMade, CommandSent, CallFailed, CallCompleted DEF CallerNext
<1>2. ASSUME NEW c \in Callers, Serve(c)
      PROVE  ClientInv'
  BY <1>2, TransactionServed, ListsChanged, OtherServed DEF Serve
<1>3. ASSUME NEW c \in Callers, Refuse(c)
      PROVE  ClientInv'
  BY <1>3, CommandRefused
<1>4. CASE WindowEnds
  BY <1>4, WindowEnded
<1>5. ASSUME NEW p \in Processes, LoseConnection(p) \/ CrashProcess(p)
      PROVE  ClientInv'
  BY <1>5, ConnectionDropped, ProcessRestarted
<1>6. CASE UNCHANGED vars
  BY <1>6, InvariantStutters
<1>7. QED
  BY <1>1, <1>2, <1>3, <1>4, <1>5, <1>6 DEF Next

----------------------------------------------------------------------------
(* What always holds.                                                      *)

LEMMA InvariantHolds == Spec => []ClientInv
<1>1. Init => ClientInv
  BY InvariantHoldsFirst
<1>2. ClientInv /\ [Next]_vars => ClientInv'
  BY InvariantIsKept
<1>3. QED
  BY <1>1, <1>2, PTL DEF Spec

\* Every variable of the client and the server keeps its type.
THEOREM TypeCorrect == Spec => []TypeOK
BY InvariantHolds, PTL DEF ClientInv

\* While the server puts off the commands of a connection, the goroutine with
\* the mutex is the one that opened the transaction: no command of another
\* call (RPUSH, LREM, INCR) is ever queued in it and taken for done.
THEOREM TransactionPrivate == Spec => []TransactionIsPrivate
BY InvariantHolds, PTL DEF ClientInv, ConnectionInv

\* Between the INCR that created the counter and its EXPIRE, AllowTenant is
\* always under way, unless its call has failed.
THEOREM CounterExpires == Spec => []CounterWillExpire
<1>1. ClientInv => CounterWillExpire
  BY DEF ClientInv, SetterGoesOn, CounterWillExpire
<1>2. QED
  BY <1>1, InvariantHolds, PTL

----------------------------------------------------------------------------
(* The client implements QueueCalls.                                       *)

\* What the abstract specification sees of the callers.
Calling == [c \in Callers |-> Waits(c)]
CallsVars == <<queue, processing, Calling, outcome, held>>

\* A call on the lists, as the abstract specification sees it.
LEMMA WaitsForLists ==
    ASSUME NEW c \in Callers, call[c] \in Call, call[c].op \in ListOp
    PROVE  /\ Waits(c) # None
           /\ Waits(c).op = call[c].op /\ Waits(c).queue = call[c].queue
           /\ Waits(c).job = call[c].job /\ Waits(c).applied = call[c].applied
BY ClientAssumption DEF Waits, Call

LEMMA CallingChanges ==
    ASSUME NEW c \in Callers, \A d \in Callers : d # c => call'[d] = call[d]
    PROVE  Calling' = [Calling EXCEPT ![c] = Waits(c)']
BY DEF Calling, Waits

\* Steps the abstract specification does not see.
LEMMA CallingStays ==
    ASSUME ClientInv, NEW c \in Callers, \A d \in Callers : d # c => call'[d] = call[d],
           Waits(c)' = Waits(c), UNCHANGED <<queueVars, outcome, held>>
    PROVE  UNCHANGED CallsVars
BY CallingChanges DEF CallsVars, Calling, queueVars

LEMMA AbstractReturn ==
    ASSUME NEW c \in Callers, call[c] \in Call, call[c].op \in ListOp,
           Calling' = [Calling EXCEPT ![c] = None], UNCHANGED queueVars,
           \/ /\ call[c].applied
              /\ outcome' = [outcome EXCEPT ![c] = "ok"]
              /\ held' = IF call[c].op = "reserve"
                           THEN [held EXCEPT ![c] = Reservation(call[c].queue, call[c].job)]
                           ELSE held
           \/ /\ ~ call[c].applied /\ call[c].op = "recover"
              /\ outcome' = [outcome EXCEPT ![c] = "nil"]
              /\ UNCHANGED held
           \/ outcome' = [outcome EXCEPT ![c] = "error"] /\ UNCHANGED held
    PROVE  Abstract!Return(c)
<1>1. Calling[c] = Waits(c)
  BY DEF Calling
<1>2. QED
  BY <1>1, WaitsForLists DEF Abstract!Return, Abstract!Reservation, Reservation, Calling,
     Abstract!queueVars, queueVars

LEMMA FailureMaps ==
    ASSUME ClientInv, NEW c \in Callers, call[c] # None, Fails(c), UNCHANGED queueVars
    PROVE  Abstract!Return(c) \/ UNCHANGED CallsVars
<1>1. /\ call[c] \in Call /\ call' = [call EXCEPT ![c] = None] /\ UNCHANGED held
      /\ call'[c] = None /\ \A d \in Callers : d # c => call'[d] = call[d]
  BY DEF Fails, ClientInv, TypeOK
<1>2. Waits(c)' = None
  BY <1>1 DEF Waits
<1>3. CASE call[c].op \in ListOp
  <2>1. outcome' = [outcome EXCEPT ![c] = "error"]
    BY <1>3 DEF Fails, Ends
  <2>2. Calling' = [Calling EXCEPT ![c] = None]
    BY <1>1, <1>2, CallingChanges
  <2>3. QED
    BY <1>1, <1>3, <2>1, <2>2, AbstractReturn
<1>4. CASE call[c].op \notin ListOp
  <2>1. outcome' = outcome /\ Waits(c) = None
    BY <1>4 DEF Fails, Ends, Waits
  <2>2. QED
    BY <1>1, <1>2, <2>1, CallingStays
<1>5. QED
  BY <1>3, <1>4

LEMMA MakingMaps ==
    ASSUME ClientInv, NEW c \in Callers, NEW q \in Lists, NEW j \in Jobs, MakeCall(c, q, j)
    PROVE  (q \in Abstract!Queue /\ Abstract!MakeCall(c, q, j)) \/ UNCHANGED CallsVars
<1>1. PICK op \in Op, k \in Jobs \cup {None} :
          /\ call[c] = None /\ call' = [call EXCEPT ![c] = NewCall(op, q, k)]
          /\ \/ op = "enqueue" /\ k = j /\ UNCHANGED held
             \/ op = "recover" /\ k = None /\ UNCHANGED held
             \/ op = "reserve" /\ k = None /\ held[c] = None /\ UNCHANGED held
             \/ /\ op \in {"ack", "requeue"} /\ k = j
                /\ held[c] = Reservation(q, j) /\ held' = [held EXCEPT ![c] = None]
             \/ op \in {"probe", "incr"} /\ UNCHANGED held
  BY DEF MakeCall, Calls, Op, ListOp
<1>2. /\ q \in Queue /\ q \in Abstract!Queue
      /\ UNCHANGED <<queueVars, outcome>>
      /\ call'[c] = NewCall(op, q, k) /\ NewCall(op, q, k) \in Call
      /\ \A d \in Callers : d # c => call'[d] = call[d]
      /\ Calling[c] = None /\ Waits(c) = None
  BY <1>1, NewCallType, ClientAssumption
     DEF MakeCall, ClientInv, TypeOK, Queue, Channel, Abstract!Queue, Abstract!Channel, Calling, Waits
<1>3. CASE op \in ListOp
  <2>1. Waits(c)' = Abstract!ListCall(op, q, k, FALSE)
    <3>1. call'[c] # None
      BY <1>2, ClientAssumption
    <3>2. /\ call'[c].op = op /\ call'[c].queue = q /\ call'[c].job = k
          /\ call'[c].applied = FALSE
      BY <1>2 DEF NewCall
    <3>3. QED
      BY <3>1, <3>2, <1>3 DEF Waits, Abstract!ListCall
  <2>2. Calling' = [Calling EXCEPT ![c] = Abstract!ListCall(op, q, k, FALSE)]
    BY <1>2, <2>1, CallingChanges
  <2>3. Abstract!Calls(c, Abstract!ListCall(op, q, k, FALSE))
    BY <1>2, <2>2 DEF Abstract!Calls, Calling
  <2>4. op \notin {"probe", "incr"}
    BY <1>3 DEF ListOp
  <2>5. QED
    BY <1>1, <1>2, <2>3, <2>4 DEF Abstract!MakeCall, Abstract!Reservation, Reservation,
       Abstract!queueVars, queueVars
<1>4. CASE op \notin ListOp
  <2>1. Waits(c)' = None
    BY <1>2, <1>4 DEF Waits, NewCall
  <2>2. UNCHANGED held
    BY <1>1, <1>4 DEF ListOp
  <2>3. QED
    BY <1>2, <2>1, <2>2, CallingStays
<1>5. QED
  BY <1>3, <1>4

\* Sending a command only changes which command was sent last.
LEMMA SendingMaps ==
    ASSUME ClientInv, NEW c \in Callers, Send(c) \/ SendNext(c)
    PROVE  UNCHANGED CallsVars
<1>1. /\ call[c] \in Call /\ call[c] # None
      /\ UNCHANGED <<queueVars, outcome, held>>
  BY DEF Send, SendNext, Waiting, Received, HasMutex, ClientInv, TypeOK
<1>2. PICK s \in Command : call' = [call EXCEPT ![c].sent = s]
  BY CommandChosen
<1>3. call'[c] = [call[c] EXCEPT !.sent = s] /\ \A d \in Callers : d # c => call'[d] = call[d]
  BY <1>2 DEF ClientInv, TypeOK
<1>4. call'[c] # None
  BY <1>1, <1>3, ClientAssumption DEF Call
<1>5. Waits(c)' = Waits(c)
  BY <1>1, <1>3, <1>4 DEF Waits, Call
<1>6. QED
  BY <1>1, <1>3, <1>5, CallingStays

LEMMA CompletionMaps ==
    ASSUME ClientInv, NEW c \in Callers, Complete(c)
    PROVE  Abstract!Return(c) \/ UNCHANGED CallsVars
<1> DEFINE r == reply[ProcessOf[c]]
           v == Verdict(call[c].op, r.kind)
<1>1. /\ Received(c) /\ ~ InTransaction(c) /\ HasMutex(c) /\ call[c] # None
      /\ UNCHANGED queueVars
  BY DEF Complete, Received, HasMutex
<1>2. /\ call[c] \in Call
      /\ v = "again" => call[c].op = "reserve"
      /\ v = "nil" => call[c].op = "recover" /\ ~ call[c].applied
      /\ v = "ok" /\ call[c].op \in ListOp => call[c].applied /\ r.job = call[c].job
  BY <1>1, LastAnswer
<1>3. CASE v = "again"
  <2>1. call' = [call EXCEPT ![c].sent = "none"] /\ UNCHANGED <<outcome, held>>
    BY <1>3 DEF Complete
  <2>2. /\ call'[c] = [call[c] EXCEPT !.sent = "none"]
        /\ \A d \in Callers : d # c => call'[d] = call[d]
    BY <2>1 DEF ClientInv, TypeOK
  <2>3. call'[c] # None
    BY <1>2, <2>2, ClientAssumption DEF Call
  <2>4. Waits(c)' = Waits(c)
    BY <1>1, <1>2, <2>2, <2>3 DEF Waits, Call
  <2>5. QED
    BY <1>1, <2>1, <2>2, <2>4, CallingStays
<1>4. CASE v = "error"
  <2>1. Fails(c)
    BY <1>4 DEF Complete
  <2>2. QED
    BY <1>1, <2>1, FailureMaps
<1>5. CASE v \in {"ok", "nil"}
  <2>1. /\ call' = [call EXCEPT ![c] = AfterCall(c, r.count)] /\ Ends(c, v)
        /\ held' = IF call[c].op = "reserve"
                     THEN [held EXCEPT ![c] = Reservation(call[c].queue, r.job)] ELSE held
    BY <1>5 DEF Complete
  <2>2. /\ call'[c] = AfterCall(c, r.count)
        /\ \A d \in Callers : d # c => call'[d] = call[d]
    BY <2>1 DEF ClientInv, TypeOK
  <2>3. Waits(c)' = None
    <3>1. call'[c] = None \/ call'[c].op \in {"expire", "ttl"}
      BY <2>2 DEF AfterCall, NewCall
    <3>2. QED
      BY <3>1 DEF Waits, ListOp
  <2>4. CASE call[c].op \in ListOp
    <3>1. Calling' = [Calling EXCEPT ![c] = None]
      BY <2>2, <2>3, CallingChanges
    <3>2. outcome' = [outcome EXCEPT ![c] = v]
      BY <2>1, <2>4 DEF Ends
    <3>3. CASE v = "ok"
      BY <1>1, <1>2, <2>1, <2>4, <3>1, <3>2, <3>3, AbstractReturn
    <3>4. CASE v = "nil"
      BY <1>1, <1>2, <2>1, <2>4, <3>1, <3>2, <3>4, AbstractReturn
    <3>5. QED
      BY <1>5, <3>3, <3>4
  <2>5. CASE call[c].op \notin ListOp
    <3>1. Waits(c) = None /\ UNCHANGED <<outcome, held>>
      BY <2>1, <2>5 DEF Waits, Ends, ListOp
    <3>2. QED
      BY <1>1, <2>2, <2>3, <3>1, CallingStays
  <2>6. QED
    BY <2>4, <2>5
<1>6. v \in {"error", "again", "ok", "nil"}
  BY DEF Verdict
<1>7. QED
  BY <1>3, <1>4, <1>5, <1>6

\* The effect of a call comes before its return, and once.
LEMMA ExecutionMaps ==
    ASSUME ClientInv, NEW c \in Callers, NEW j \in Jobs, ExecuteOnLists(c, j)
    PROVE  Abstract!Apply(c, j)
<1> DEFINE op == call[c].op
           q == call[c].queue
<1>1. call[c] \in Call /\ ~ call[c].applied /\ op \in ListOp
  BY Asking DEF ExecuteOnLists, ListOp
<1>2. /\ call' = [call EXCEPT ![c].applied = TRUE, ![c].job = j]
      /\ call[c].job \in {None, j} /\ Effect(op, q, j) /\ UNCHANGED <<outcome, held>>
  BY DEF ExecuteOnLists, Answers
<1>3. /\ call'[c] = [call[c] EXCEPT !.applied = TRUE, !.job = j]
      /\ \A d \in Callers : d # c => call'[d] = call[d]
  BY <1>2 DEF ClientInv, TypeOK
<1>4. Calling[c] = Waits(c) /\ Calling[c] # None
  BY <1>1, WaitsForLists DEF Calling
<1>5. Waits(c)' = Abstract!ListCall(op, q, j, TRUE)
  <2>1. call'[c] \in Call
    BY <1>1, <1>3 DEF Call
  <2>2. /\ call'[c].op = op /\ call'[c].queue = q /\ call'[c].job = j
        /\ call'[c].applied = TRUE
    BY <1>1, <1>3 DEF Call
  <2>3. QED
    BY <1>1, <2>1, <2>2, ClientAssumption DEF Waits, Abstract!ListCall
<1>6. Calling' = [Calling EXCEPT ![c] = Abstract!ListCall(Calling[c].op, Calling[c].queue, j, TRUE)]
  BY <1>1, <1>3, <1>4, <1>5, CallingChanges, WaitsForLists
<1>7. Abstract!Effect(Calling[c].op, Calling[c].queue, j)
  BY <1>1, <1>2, <1>4, WaitsForLists
     DEF Effect, Enqueue, Reserve, AckReserved, RequeueReserved, RecoverProcessingJob,
         Abstract!Effect, Abstract!Enqueue, Abstract!Reserve, Abstract!AckReserved,
         Abstract!RequeueReserved, Abstract!RecoverProcessingJob
<1>8. ~ Calling[c].applied /\ Calling[c].job \in {None, j}
  BY <1>1, <1>2, <1>4, WaitsForLists
<1>9. QED
  BY <1>2, <1>4, <1>6, <1>7, <1>8 DEF Abstract!Apply, Calling

\* Everything else the server does leaves the lists and the calls alone.
LEMMA ServingMaps ==
    ASSUME ClientInv, NEW c \in Callers,
           \/ Refuse(c) \/ OpenTransaction(c) \/ QueueCommand(c)
           \/ NothingToTake(c) \/ ExecuteIncr(c) \/ ExecuteExpire(c) \/ ExecuteRead(c)
    PROVE  UNCHANGED CallsVars
<1>1. UNCHANGED <<queueVars, call, outcome, held>>
  BY DEF Refuse, OpenTransaction, QueueCommand, NothingToTake, ExecuteIncr, ExecuteExpire,
     ExecuteRead, Answers
<1>2. QED
  BY <1>1 DEF CallsVars, Calling, Waits, queueVars

\* A process that dies is a Stop of its goroutines.
LEMMA CrashMaps ==
    ASSUME ClientInv, NEW p \in Processes, CrashProcess(p)
    PROVE  \E group \in SUBSET Callers : Abstract!Stop(group)
<1> DEFINE mine == {c \in Callers : ProcessOf[c] = p}
<1>1. Calling' = [c \in Callers |-> IF c \in mine THEN None ELSE Calling[c]]
  BY DEF CrashProcess, Calling, Waits
<1>2. Abstract!Stop(mine)
  BY <1>1 DEF CrashProcess, Abstract!Stop, Calling, Abstract!queueVars, queueVars
<1>3. QED
  BY <1>2

LEMMA StepMaps ==
    ASSUME ClientInv, [Next]_vars
    PROVE  Abstract!CallsNext \/ UNCHANGED CallsVars
<1>1. ASSUME NEW c \in Callers, CallerNext(c)
      PROVE  Abstract!CallsNext \/ UNCHANGED CallsVars
  <2>1. CASE \E q \in Lists, j \in Jobs : MakeCall(c, q, j)
    BY <2>1, MakingMaps DEF Abstract!CallsNext
  <2>2. CASE Send(c) \/ SendNext(c)
    BY <2>2, SendingMaps
  <2>3. CASE \/ DialFails(c) \/ ReserveCancelled(c) \/ WriteFails(c)
             \/ ReadFails(c) \/ ReceiveError(c) \/ NextWriteFails(c)
    <3>1. call[c] # None /\ Fails(c) /\ UNCHANGED queueVars
      BY <2>3 DEF DialFails, ReserveCancelled, WriteFails, ReadFails, ReceiveError, NextWriteFails,
         Waiting, Received, HasMutex
    <3>2. QED
      BY <3>1, FailureMaps DEF Abstract!CallsNext
  <2>4. CASE Complete(c)
    BY <2>4, CompletionMaps DEF Abstract!CallsNext
  <2>5. QED
    BY <1>1, <2>1, <2>2, <2>3, <2>4 DEF CallerNext
<1>2. ASSUME NEW c \in Callers, Serve(c) \/ Refuse(c)
      PROVE  Abstract!CallsNext \/ UNCHANGED CallsVars
  <2>1. CASE \E j \in Jobs : ExecuteOnLists(c, j)
    BY <2>1, ExecutionMaps DEF Abstract!CallsNext
  <2>2. CASE \/ Refuse(c) \/ OpenTransaction(c) \/ QueueCommand(c)
             \/ NothingToTake(c) \/ ExecuteIncr(c) \/ ExecuteExpire(c) \/ ExecuteRead(c)
    BY <2>2, ServingMaps
  <2>3. QED
    BY <1>2, <2>1, <2>2 DEF Serve
<1>3. CASE WindowEnds \/ UNCHANGED vars
  BY <1>3 DEF WindowEnds, vars, callerVars, queueVars, CallsVars, Calling, Waits
<1>4. ASSUME NEW p \in Processes, LoseConnection(p)
      PROVE  UNCHANGED CallsVars
  BY <1>4 DEF LoseConnection, callerVars, queueVars, CallsVars, Calling, Waits
<1>5. ASSUME NEW p \in Processes, CrashProcess(p)
      PROVE  Abstract!CallsNext
  BY <1>5, CrashMaps DEF Abstract!CallsNext
<1>6. QED
  BY <1>1, <1>2, <1>3, <1>4, <1>5 DEF Next

\* Whatever happens to connections, commands, replies and processes, a caller
\* of RedisQueue sees a call that changes the lists at most once, atomically,
\* and that has changed them if it returns without error.
THEOREM ClientRefinesCalls == Spec => ImplementsCalls
<1>1. Init => Abstract!CallsInit
  BY DEF Init, Waits, QueuesInit, Queue, Channel, Abstract!CallsInit, Abstract!QueuesInit,
     Abstract!Queue, Abstract!Channel
<1>2. ClientInv /\ [Next]_vars => [Abstract!CallsNext]_(Abstract!callVars)
  BY StepMaps DEF CallsVars, Calling, Abstract!callVars, Abstract!queueVars
<1>3. QED
  BY <1>1, <1>2, InvariantHolds, PTL DEF Spec, ImplementsCalls, Abstract!CallsSpec

============================================================================
