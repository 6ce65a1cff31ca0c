------------------------------- MODULE Outbox -------------------------------
(***************************************************************************)
(* The transactional outbox of libs/database-postgres/src/outbox, which    *)
(* carries the domain events of message-store, conversation-service,       *)
(* friendship-service and call-service from PostgreSQL to Kafka.           *)
(*                                                                         *)
(* A business transaction inserts a PENDING row next to its own writes.    *)
(* Every instance of a service runs an OutboxProcessor: on a timer, or     *)
(* when it is woken up, it requeues stuck rows, re-opens failed rows,      *)
(* claims a batch and publishes it row by row.  Each statement of          *)
(* OutboxRepository is autocommitted, so each one is a step of its own;    *)
(* the claim is three statements.                                          *)
(*                                                                         *)
(* An event is its position in created_at order.                           *)
(***************************************************************************)
EXTENDS Integers, FiniteSets

CONSTANTS
  Events,       \* the outbox rows that business transactions may insert
  Procs,        \* the service instances, one OutboxProcessor each
  NoProc,       \* locked_by IS NULL
  NoEvent,      \* the processor works on no row
  MaxRetries,   \* OutboxProcessorConfig.maxRetries
  BatchSize,    \* OutboxProcessorConfig.batchSize
  MaxFaults     \* bound: crashes, failing statements, overrunning batches

ASSUME OutboxAssumption ==
  /\ Events \subseteq Nat
  /\ NoProc \notin Procs
  /\ NoEvent \notin Events
  /\ MaxRetries \in Nat
  /\ BatchSize \in Nat \ {0}
  /\ MaxFaults \in Nat

VARIABLES
  status,     \* status column; "absent" before the insert commits
  lockedBy,   \* locked_by column
  retryCount, \* retry_count column, saturating one above MaxRetries
  aged,       \* locked_at is before the cutoff, or next_retry_at has passed
  delivered,  \* copies of the event in Kafka: none, one, more
  pc,         \* where each processor is in processOutboxEvents
  ids,        \* claimPendingEvents: the ids its SELECT returned
  batch,      \* the fetched entities the loop has still to process
  cur,        \* the entity processEvent is working on
  memRetry,   \* retryCount of the fetched entities, as they were fetched
  faults      \* faults so far, at most MaxFaults

rowVars  == <<status, lockedBy, retryCount, aged>>
procVars == <<pc, ids, batch, cur, memRetry>>
vars     == <<rowVars, delivered, procVars, faults>>

Statuses == {"absent", "PENDING", "PROCESSING", "COMPLETED", "FAILED"}
Labels   == {"idle", "retry", "select", "update", "fetch", "loop",
             "publish", "mark", "markFailed", "down"}
RetryCap == MaxRetries + 1
Retries  == 0 .. RetryCap

TypeOK ==
  /\ status \in [Events -> Statuses]
  /\ lockedBy \in [Events -> Procs \cup {NoProc}]
  /\ retryCount \in [Events -> Retries]
  /\ aged \in [Events -> BOOLEAN]
  /\ delivered \in [Events -> 0 .. 2]
  /\ pc \in [Procs -> Labels]
  /\ ids \in [Procs -> SUBSET Events]
  /\ batch \in [Procs -> SUBSET Events]
  /\ cur \in [Procs -> Events \cup {NoEvent}]
  /\ memRetry \in [Procs -> [Events -> Retries]]
  /\ faults \in 0 .. MaxFaults

Init ==
  /\ status = [e \in Events |-> "absent"]
  /\ lockedBy = [e \in Events |-> NoProc]
  /\ retryCount = [e \in Events |-> 0]
  /\ aged = [e \in Events |-> FALSE]
  /\ delivered = [e \in Events |-> 0]
  /\ pc = [p \in Procs |-> "idle"]
  /\ ids = [p \in Procs |-> {}]
  /\ batch = [p \in Procs |-> {}]
  /\ cur = [p \in Procs |-> NoEvent]
  /\ memRetry = [p \in Procs |-> [e \in Events |-> 0]]
  /\ faults = 0

-----------------------------------------------------------------------------
\* Mutants of the definitions below are named for the bug they put in.
PendingAnyStatus == {e \in Events : status[e] # "absent"}
Pending == {e \in Events : status[e] = "PENDING"}

NoRetryLimit(e)  == status[e] = "FAILED" /\ aged[e]
Retriable(e) ==
  status[e] = "FAILED" /\ aged[e] /\ retryCount[e] < MaxRetries

\* ORDER BY created_at ASC LIMIT BatchSize
OldestPending ==
  {e \in Pending : Cardinality({f \in Pending : f < e}) < BatchSize}

\* WHERE status = 'PROCESSING' AND locked_by = the instance
Owns(p, e) == status[e] = "PROCESSING" /\ lockedBy[e] = p

\* The retryCount column of the entities claimPendingEvents returns.
NotHydrated(p) == [e \in Events |-> 0]
Hydrated(p)    == [e \in Events |-> IF e \in ids[p] THEN retryCount[e] ELSE 0]

\* (event.retryCount ?? 0) + 1
Attempt(p, e) ==
  IF memRetry[p][e] < RetryCap THEN memRetry[p][e] + 1 ELSE RetryCap

\* The processor has a claim on the row in its memory.
Holds(p, e) == e \in ids[p] \cup batch[p] \cup {cur[p]}

Goto(p, label) == pc' = [pc EXCEPT ![p] = label]

\* isProcessing = false: the pass is over and its memory with it.
EndPass(p, label) ==
  /\ Goto(p, label)
  /\ ids' = [ids EXCEPT ![p] = {}]
  /\ batch' = [batch EXCEPT ![p] = {}]
  /\ cur' = [cur EXCEPT ![p] = NoEvent]
  /\ memRetry' = [memRetry EXCEPT ![p] = [e \in Events |-> 0]]

\* A published copy reaches the topic.
Deliver(e) ==
  delivered' = [delivered EXCEPT ![e] = IF @ = 0 THEN 1 ELSE 2]

Fault == faults < MaxFaults /\ faults' = faults + 1

-----------------------------------------------------------------------------
(* The business transaction commits: the row is PENDING. A transaction     *)
(* retried with the same idempotency key adds no second row.               *)
Create(e) ==
  /\ status[e] = "absent"
  /\ status' = [status EXCEPT ![e] = "PENDING"]
  /\ UNCHANGED <<lockedBy, retryCount, aged, delivered, procVars, faults>>

(* processOutboxEvents starts (never while the instance still processes)   *)
(* and requeueStuckProcessing runs.                                        *)
RequeueStuck(p) ==
  /\ pc[p] = "idle"
  /\ LET stuck == {e \in Events : status[e] = "PROCESSING" /\ aged[e]} IN
       /\ status' = [e \in Events |-> IF e \in stuck THEN "PENDING" ELSE status[e]]
       /\ lockedBy' = [e \in Events |-> IF e \in stuck THEN NoProc ELSE lockedBy[e]]
       /\ aged' = [e \in Events |-> aged[e] /\ e \notin stuck]
  /\ Goto(p, "retry")
  /\ UNCHANGED <<retryCount, delivered, ids, batch, cur, memRetry, faults>>

(* retryFailedEvents *)
RetryFailedFromZero(p) ==
  /\ pc[p] = "retry"
  /\ LET due == {e \in Events : Retriable(e)} IN
       /\ status' = [e \in Events |-> IF e \in due THEN "PENDING" ELSE status[e]]
       /\ lockedBy' = [e \in Events |-> IF e \in due THEN NoProc ELSE lockedBy[e]]
       /\ aged' = [e \in Events |-> aged[e] /\ e \notin due]
       /\ retryCount' = [e \in Events |-> IF e \in due THEN 0 ELSE retryCount[e]]
  /\ Goto(p, "select")
  /\ UNCHANGED <<delivered, ids, batch, cur, memRetry, faults>>

RetryFailed(p) ==
  /\ pc[p] = "retry"
  /\ LET due == {e \in Events : Retriable(e)} IN
       /\ status' = [e \in Events |-> IF e \in due THEN "PENDING" ELSE status[e]]
       /\ lockedBy' = [e \in Events |-> IF e \in due THEN NoProc ELSE lockedBy[e]]
       /\ aged' = [e \in Events |-> aged[e] /\ e \notin due]
  /\ Goto(p, "select")
  /\ UNCHANGED <<retryCount, delivered, ids, batch, cur, memRetry, faults>>

(* claimPendingEvents, 1st statement: SELECT ... FOR UPDATE SKIP LOCKED.   *)
(* It is autocommitted: its row locks are gone when it returns.            *)
SelectPending(p) ==
  /\ pc[p] = "select"
  /\ IF OldestPending = {}
       THEN /\ Goto(p, "idle")
            /\ UNCHANGED ids
       ELSE /\ Goto(p, "update")
            /\ ids' = [ids EXCEPT ![p] = OldestPending]
  /\ UNCHANGED <<rowVars, delivered, batch, cur, memRetry, faults>>

(* claimPendingEvents, 2nd statement: UPDATE ... whereInIds, whatever the  *)
(* status of the rows has become.                                          *)
ClaimRows(p) ==
  /\ pc[p] = "update"
  /\ status' = [e \in Events |-> IF e \in ids[p] THEN "PROCESSING" ELSE status[e]]
  /\ lockedBy' = [e \in Events |-> IF e \in ids[p] THEN p ELSE lockedBy[e]]
  /\ aged' = [e \in Events |-> aged[e] /\ e \notin ids[p]]
  /\ Goto(p, "fetch")
  /\ UNCHANGED <<retryCount, delivered, ids, batch, cur, memRetry, faults>>

(* claimPendingEvents, 3rd statement: the entities by id, in any order     *)
(* and whoever holds them now.                                             *)
FetchRows(p) ==
  /\ pc[p] = "fetch"
  /\ batch' = [batch EXCEPT ![p] = ids[p]]
  /\ memRetry' = [memRetry EXCEPT ![p] = Hydrated(p)]
  /\ ids' = [ids EXCEPT ![p] = {}]
  /\ Goto(p, "loop")
  /\ UNCHANGED <<rowVars, delivered, cur, faults>>

(* for (const event of events) await processEvent(event) *)
NextEvent(p) ==
  /\ pc[p] = "loop"
  /\ \E e \in batch[p] :
       /\ cur' = [cur EXCEPT ![p] = e]
       /\ batch' = [batch EXCEPT ![p] = @ \ {e}]
  /\ Goto(p, "publish")
  /\ UNCHANGED <<rowVars, delivered, ids, memRetry, faults>>

BatchDone(p) ==
  /\ pc[p] = "loop"
  /\ batch[p] = {}
  /\ EndPass(p, "idle")
  /\ UNCHANGED <<rowVars, delivered, faults>>

(* publishEvent: the broker acknowledges. *)
PublishOk(p) ==
  /\ pc[p] = "publish"
  /\ Deliver(cur[p])
  /\ Goto(p, "mark")
  /\ UNCHANGED <<rowVars, ids, batch, cur, memRetry, faults>>

SwallowedError(p) ==
  /\ pc[p] = "publish"
  /\ Goto(p, "mark")
  /\ UNCHANGED <<rowVars, delivered, ids, batch, cur, memRetry, faults>>

(* publishEvent throws: the broker never had the record, or wrote it and   *)
(* the acknowledgement was lost.                                           *)
PublishFails(p) ==
  /\ pc[p] = "publish"
  /\ Deliver(cur[p]) \/ UNCHANGED delivered
  /\ Goto(p, "markFailed")
  /\ UNCHANGED <<rowVars, ids, batch, cur, memRetry, faults>>

(* markAsCompleted: the update matches the row only if this instance owns  *)
(* it; otherwise the processor logs and goes on.                           *)
MarkCompleted(p) ==
  /\ pc[p] = "mark"
  /\ LET e == cur[p] IN
       IF Owns(p, e)
         THEN /\ status' = [status EXCEPT ![e] = "COMPLETED"]
              /\ lockedBy' = [lockedBy EXCEPT ![e] = NoProc]
              /\ aged' = [aged EXCEPT ![e] = FALSE]
         ELSE UNCHANGED <<status, lockedBy, aged>>
  /\ cur' = [cur EXCEPT ![p] = NoEvent]
  /\ Goto(p, "loop")
  /\ UNCHANGED <<retryCount, delivered, ids, batch, memRetry, faults>>

(* markAsCompleted throws after the publish: the same catch block handles  *)
(* it as a failed publish.                                                 *)
MarkCompletedFails(p) ==
  /\ pc[p] = "mark"
  /\ Fault
  /\ Goto(p, "markFailed")
  /\ UNCHANGED <<rowVars, delivered, ids, batch, cur, memRetry>>

(* markAsFailed, with the retry count of the entity in memory plus one.    *)
MarkFailed(p) ==
  /\ pc[p] = "markFailed"
  /\ LET e == cur[p] IN
       IF Owns(p, e)
         THEN /\ status' = [status EXCEPT ![e] = "FAILED"]
              /\ lockedBy' = [lockedBy EXCEPT ![e] = NoProc]
              /\ aged' = [aged EXCEPT ![e] = FALSE]
              /\ retryCount' = [retryCount EXCEPT ![e] = Attempt(p, e)]
         ELSE UNCHANGED rowVars
  /\ cur' = [cur EXCEPT ![p] = NoEvent]
  /\ Goto(p, "loop")
  /\ UNCHANGED <<delivered, ids, batch, memRetry, faults>>

(* Any other statement throws: the catch of processOutboxEvents drops the  *)
(* rest of the pass; its rows stay PROCESSING.                             *)
PassFails(p) ==
  /\ pc[p] \in {"retry", "select", "update", "fetch", "markFailed"}
  /\ Fault
  /\ EndPass(p, "idle")
  /\ UNCHANGED <<rowVars, delivered>>

(* The instance dies between two steps, and comes back. *)
Crash(p) ==
  /\ pc[p] # "down"
  /\ Fault
  /\ EndPass(p, "down")
  /\ UNCHANGED <<rowVars, delivered>>

Restart(p) ==
  /\ pc[p] = "down"
  /\ Goto(p, "idle")
  /\ UNCHANGED <<rowVars, delivered, ids, batch, cur, memRetry, faults>>

-----------------------------------------------------------------------------
(* Time.  The backoff of a FAILED row runs out; the lock of a row that     *)
(* nobody works on grows older than processingTimeoutMs.                   *)
Orphaned(e) ==
  /\ status[e] = "PROCESSING"
  /\ ~ \E p \in Procs : lockedBy[e] = p /\ Holds(p, e)

Age(e) ==
  /\ status[e] = "FAILED" \/ Orphaned(e)
  /\ ~ aged[e]
  /\ aged' = [aged EXCEPT ![e] = TRUE]
  /\ UNCHANGED <<status, lockedBy, retryCount, delivered, procVars, faults>>

(* A live processor holds the row for longer than the timeout: a batch of  *)
(* slow publishes.  Counted as a fault.                                    *)
Overrun(e) ==
  /\ status[e] = "PROCESSING" /\ ~ Orphaned(e)
  /\ ~ aged[e]
  /\ Fault
  /\ aged' = [aged EXCEPT ![e] = TRUE]
  /\ UNCHANGED <<status, lockedBy, retryCount, delivered, procVars>>

-----------------------------------------------------------------------------
Work(p) ==
  \/ RequeueStuck(p) \/ RetryFailed(p)
  \/ SelectPending(p) \/ ClaimRows(p) \/ FetchRows(p)
  \/ NextEvent(p) \/ BatchDone(p)
  \/ PublishOk(p) \/ PublishFails(p)
  \/ MarkCompleted(p) \/ MarkFailed(p)

Break(p) == MarkCompletedFails(p) \/ PassFails(p) \/ Crash(p)

Next ==
  \/ \E e \in Events : Create(e) \/ Age(e) \/ Overrun(e)
  \/ \E p \in Procs : Work(p) \/ Break(p) \/ Restart(p)

(* The timers of a live process fire, its statements return, a crashed     *)
(* instance is restarted and time passes.  Nothing makes a publish succeed.*)
Fairness ==
  /\ \A p \in Procs : WF_vars(Work(p)) /\ WF_vars(Restart(p))
  /\ \A e \in Events : WF_vars(Age(e))

Spec == Init /\ [][Next]_vars
FairSpec == Spec /\ Fairness

-----------------------------------------------------------------------------
(* A row is COMPLETED only if Kafka has the event, although the processor  *)
(* that published it, the one that lost the row to a requeue and the one   *)
(* that completes it may be three (processEvent, markAsCompleted).         *)
CompletedWasDelivered ==
  \A e \in Events : status[e] = "COMPLETED" => delivered[e] > 0

(* An instance that still owns a row has the row's current retry count in  *)
(* memory: the ownership check of markAsFailed is enough to keep a stale   *)
(* copy from overwriting it.                                               *)
OwnedCopyIsFresh ==
  \A p \in Procs, e \in Events :
    /\ status[e] = "PROCESSING" /\ lockedBy[e] = p
    /\ e \in batch[p] \cup {cur[p]}
    => memRetry[p][e] = retryCount[e]

(* Hence no failure report, however late, takes an attempt off the count.  *)
RetryCountNeverFalls ==
  [][\A e \in Events : retryCount'[e] >= retryCount[e]]_vars

(* With one instance and no faults a consumer sees an event twice only if  *)
(* a publish of it failed with its acknowledgement lost.                   *)
DuplicateOnlyAfterFailure ==
  faults = 0 => \A e \in Events : delivered[e] = 2 =>
    \/ retryCount[e] > 0
    \/ \E p \in Procs : pc[p] = "markFailed" /\ cur[p] = e

(* Every committed event ends up completed, or failed with its retries     *)
(* used up, for good: no interleaving of requeues, late claims and failure *)
(* reports keeps a row going round for ever (retryFailedEvents,            *)
(* requeueStuckProcessing, claimPendingEvents).                            *)
Settled(e) ==
  \/ status[e] = "COMPLETED"
  \/ status[e] = "FAILED" /\ retryCount[e] >= MaxRetries

EventuallySettled ==
  \A e \in Events : status[e] # "absent" ~> []Settled(e)

(* The outbox implements its contract.                                     *)
Contract == INSTANCE OutboxContract WITH
  written <- {e \in Events : status[e] # "absent"},
  sent    <- {e \in Events : delivered[e] > 0},
  done    <- {e \in Events : status[e] = "COMPLETED"}

ImplementsContract == Contract!Spec
=============================================================================
