--------------------------- MODULE DeliveryFaults ---------------------------
(***************************************************************************)
(* The delivery pipeline when Postgres calls fail and workers are asked to *)
(* stop.  Both end in the same branch of runReserved: whatever error the   *)
(* processor returns, the job is acknowledged.  The ack itself goes through*)
(* an open Redis connection and does not look at the cancelled context.    *)
(***************************************************************************)
EXTENDS PipelineRefinement

VARIABLE stopping    \* worker slot -> its process was told to stop (ctx cancelled)

faultVars == <<vars, stopping>>

\* A worker slot between ReserveChannel and the end of process.
Processing(w) == worker[w].at \in WorkerStep \ {"done"}

FaultsTypeOK == TypeOK /\ stopping \in [Workers -> BOOLEAN]

FaultsInit == Init /\ stopping = [w \in Workers |-> FALSE]

----------------------------------------------------------------------------
(* Plausible defect, for the mutation checks: the job is put back and the  *)
(* attempt reset, so that another worker can take it.                      *)

StoreCallFailsAndResets(w) ==
    /\ ~ stopping[w]
    /\ WorkerAt(w, "active") \/ WorkerAt(w, "delivered")
    /\ Fault
    /\ attempt' = [attempt EXCEPT ![Target(w)] = "pending"]
    /\ RequeueReserved(Serves[w], worker[w].job)
    /\ worker' = [worker EXCEPT ![w] = Idle]
    /\ UNCHANGED <<enqueuedAt, intent, claim, deadLetter, replayOf>>
    /\ UNCHANGED <<publisher, dispatcher, pubs, calls, stopping>>

----------------------------------------------------------------------------
\* A store call of process returns an error.  The row update may have been
\* made before it: the Mark... functions also read the notification and
\* recalculate its status, and return any error of that.
StoreCallFails(w) ==
    /\ ~ stopping[w]
    /\ Processing(w)
    /\ Fault
    /\ \/ UNCHANGED storeVars
       \/ WorkerAt(w, "reserved") /\ MarkAttemptInProgress(Target(w))
       \/ /\ WorkerAt(w, "retryable")
          /\ \E maxAttempts \in Budgets : Target(w)[2] >= maxAttempts
          /\ MarkAttemptDeadLettered(Target(w))
    /\ WorkerGoes(w, "done")
    /\ UNCHANGED <<queueVars, publisher, dispatcher, pubs, calls, stopping>>

\* RecordDispatchIntentError fails: the error is logged, the claim stays.
\* (MarkDispatchIntentPublished failing drops the batch, as CrashPublisher.)
RecordPublishErrorFails(p) ==
    /\ publisher[p].failed # {}
    /\ Fault
    /\ publisher' = [publisher EXCEPT ![p] = PublisherBatch(@.claimed, {}, {})]
    /\ UNCHANGED <<storeVars, queueVars, dispatcher, worker, pubs, calls, stopping>>

\* SIGTERM cancels the context all processors of the worker were given.
Stop(w) ==
    /\ ~ stopping[w]
    /\ Fault
    /\ stopping' = [stopping EXCEPT ![w] = TRUE]
    /\ UNCHANGED <<storeVars, queueVars, processVars, pubs, calls>>

\* Every store call with a cancelled context fails at once, and with it
\* process.  The jobs nextJob still hands out after the signal go this way too.
CancelledCall(w) ==
    /\ stopping[w]
    /\ Processing(w)
    /\ WorkerGoes(w, "done")
    /\ OnWorker /\ UNCHANGED <<storeVars, calls, stopping>>

\* A reserved job the scheduler never handed out is left behind.
LeaveBuffered(w) ==
    /\ stopping[w]
    /\ WorkerAt(w, "reserved")
    /\ worker' = [worker EXCEPT ![w] = Idle]
    /\ OnWorker /\ UNCHANGED <<storeVars, calls, stopping>>

\* The process exits, and is started again.
Restart(w) ==
    /\ stopping[w]
    /\ worker[w] = Idle
    /\ stopping' = [stopping EXCEPT ![w] = FALSE]
    /\ UNCHANGED vars

\* What a stopping worker may still complete: a reservation blocked in Redis,
\* a provider call in flight, and the ack.
StoppingNext(w) ==
    (\E j \in Job : ReserveChannel(w, j)) \/ CallProvider(w) \/ AckChannel(w) \/ CrashWorker(w)

FaultsNext ==
    \/ /\ \/ StoreNext
          \/ \E p \in Publishers : PublisherNext(p)
          \/ \E d \in Dispatchers : DispatcherNext(d)
          \/ \E w \in Workers : IF stopping[w] THEN StoppingNext(w) ELSE WorkerNext(w)
          \/ RedisNext
       /\ UNCHANGED stopping
    \/ \E p \in Publishers : RecordPublishErrorFails(p)
    \/ \E w \in Workers :
          StoreCallFails(w) \/ Stop(w) \/ CancelledCall(w) \/ LeaveBuffered(w) \/ Restart(w)

FaultsSpec == FaultsInit /\ [][FaultsNext]_faultVars

----------------------------------------------------------------------------
\* Stopping a worker abandons no work: when a stopping worker acknowledges a
\* job, its attempt is settled, or another worker is busy with it (README:
\* "Worker shutdown drains in-flight jobs before exit so process shutdown does
\* not abandon reserved work mid-attempt").
ShutdownAbandonsNoWork ==
    \A w \in Workers : stopping[w] /\ WorkerAt(w, "done") =>
        \/ attempt[Target(w)] \notin {"pending", "in_progress"}
        \/ \E v \in Workers \ {w} : Processing(v) /\ Target(v) = Target(w)

============================================================================
