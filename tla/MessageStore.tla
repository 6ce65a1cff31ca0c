---------------------------- MODULE MessageStore ----------------------------
(***************************************************************************)
(* How message-store turns Kafka records into stored messages of one       *)
(* conversation: the consumer registry of libs/kafka, which runs a handler *)
(* with retries and a dead-letter topic; MessageAcceptedConsumer and       *)
(* SystemMessageConsumer, two consumer groups that number messages with    *)
(* the same Redis counter; and OffsetSyncJob of conversation-service,      *)
(* which writes the counter back to conversations.max_offset.              *)
(*                                                                         *)
(* The steps of a handler are its calls to Redis, to PostgreSQL, to        *)
(* conversation-service and to Kafka.  Binding media and refreshing the    *)
(* member set, both best-effort, are left to other modules.                *)
(***************************************************************************)
EXTENDS Integers, Sequences, FiniteSets, SequencesExt

CONSTANTS
  Instances,    \* replicas of message-store
  Partitions,   \* the partitions that carry records of the conversation
  System,       \* those of them that SystemMessageConsumer reads
  Log,          \* the records of each partition, in order
  Poison,       \* messages PostgreSQL always refuses
  Jobs,         \* runs of OffsetSyncJob that may overlap
  MaxAttempts,  \* DLQ_MAX_RETRIES + 1
  MaxFaults,    \* bound: failing calls, crashes and rebalances
  MaxLosses     \* bound: restarts of Redis that lose its keys

Messages == UNION {Range(Log[p]) : p \in Partitions}
Accepted == UNION {Range(Log[p]) : p \in Partitions \ System}
Handlers == Instances \X Partitions

ASSUME MessageStoreAssumption ==
  /\ System \subseteq Partitions
  /\ Instances # {}
  /\ \A p \in Partitions : Log[p] \in Seq(Messages) /\ IsInjective(Log[p])
  /\ \A p, q \in Partitions : p # q => Range(Log[p]) \cap Range(Log[q]) = {}
  /\ MaxAttempts \in Nat \ {0}
  /\ MaxFaults \in Nat /\ MaxLosses \in Nat

VARIABLES
  owner,      \* the instance each partition is assigned to
  next,       \* index of the next record its consumer delivers
  committed,  \* index a new consumer of the partition starts from
  pc, rec, attempt, offset, fromRedis,   \* the handlers: step, record, locals
  counter,    \* chat:conv:{id}:max_offset in Redis, 0 when the key is absent
  dirty,      \* the conversation is in chat:conv:dirty_offsets
  dbMax,      \* conversations.max_offset
  stored,     \* offset of each message in the messages table, 0 for none
  enqueued,   \* messages with a MESSAGE_SAVED row in the outbox
  saved,      \* MESSAGE_SAVED events in Kafka: <<message, offset>>
  copies,     \* how often MESSAGE_SAVED was written for a message: 0, 1, more
  dlq,        \* messages in the dead-letter topic
  dropped,    \* messages whose dead-letter record could not be written
  overtaken,  \* history: messages still to be stored by a handler when the
              \* broker moved its partition
  jobPc, jobVal,   \* OffsetSyncJob: step, counter value it read
  faults, losses

consumerVars == <<owner, next, committed, overtaken>>
handlerVars  == <<pc, rec, attempt, offset, fromRedis>>
redisVars    == <<counter, dirty>>
messageVars  == <<stored, enqueued, saved, copies>>
failVars     == <<dlq, dropped>>
jobVars      == <<jobPc, jobVal>>
vars == <<consumerVars, handlerVars, redisVars, dbMax, messageVars, failVars,
          jobVars, faults, losses>>

Labels == {"idle", "check", "incr", "tcp", "seed", "lookup", "insert",
           "update", "dirty", "publish", "throw", "done"}

TypeOK ==
  /\ owner \in [Partitions -> Instances]
  /\ next \in [Partitions -> Nat] /\ committed \in [Partitions -> Nat]
  /\ \A p \in Partitions : next[p] \in 1 .. Len(Log[p]) + 1 /\ committed[p] \in 1 .. next[p]
  /\ pc \in [Handlers -> Labels]
  /\ rec \in [Handlers -> Nat]
  /\ \A h \in Handlers : rec[h] \in 0 .. Len(Log[h[2]])
  /\ attempt \in [Handlers -> 0 .. MaxAttempts]
  /\ offset \in [Handlers -> Nat]
  /\ fromRedis \in [Handlers -> BOOLEAN]
  /\ counter \in Nat /\ dirty \in BOOLEAN /\ dbMax \in Nat
  /\ stored \in [Messages -> Nat]
  /\ enqueued \subseteq Messages \ Accepted
  /\ saved \subseteq Messages \X (Nat \ {0})
  /\ copies \in [Messages -> 0 .. 2]
  /\ dlq \subseteq Messages /\ dropped \subseteq Messages
  /\ overtaken \subseteq Messages
  /\ jobPc \in [Jobs -> {"idle", "get", "sync", "srem"}]
  /\ jobVal \in [Jobs -> Nat]
  /\ faults \in 0 .. MaxFaults /\ losses \in 0 .. MaxLosses

Init ==
  /\ owner \in [Partitions -> Instances]
  /\ next = [p \in Partitions |-> 1]
  /\ committed = [p \in Partitions |-> 1]
  /\ pc = [h \in Handlers |-> "idle"]
  /\ rec = [h \in Handlers |-> 0]
  /\ attempt = [h \in Handlers |-> 0]
  /\ offset = [h \in Handlers |-> 0]
  /\ fromRedis = [h \in Handlers |-> FALSE]
  /\ counter = 0 /\ dirty = FALSE /\ dbMax = 0
  /\ stored = [m \in Messages |-> 0]
  /\ enqueued = {} /\ saved = {}
  /\ copies = [m \in Messages |-> 0]
  /\ dlq = {} /\ dropped = {} /\ overtaken = {}
  /\ jobPc = [j \in Jobs |-> "idle"]
  /\ jobVal = [j \in Jobs |-> 0]
  /\ faults = 0 /\ losses = 0

-----------------------------------------------------------------------------
Part(h)     == h[2]
Msg(h)      == Log[Part(h)][rec[h]]
IsSystem(h) == Part(h) \in System

Fault == faults < MaxFaults /\ faults' = faults + 1

Goto(h, label) == pc' = [pc EXCEPT ![h] = label]

\* MESSAGE_SAVED for message m is written to Kafka.
Announce(m, n) ==
  /\ saved' = saved \cup {<<m, n>>}
  /\ copies' = [copies EXCEPT ![m] = IF @ = 0 THEN 1 ELSE 2]

-----------------------------------------------------------------------------
(* The consumer registry.                                                  *)

(* eachMessage: the owner of a partition delivers its next record; one     *)
(* record of a partition at a time.                                        *)
DeliverAnyRecord(h) ==
  /\ pc[h] = "idle"
  /\ owner[Part(h)] = h[1]
  /\ \E i \in next[Part(h)] .. Len(Log[Part(h)]) : rec' = [rec EXCEPT ![h] = i]
  /\ attempt' = [attempt EXCEPT ![h] = 1]
  /\ Goto(h, "check")
  /\ UNCHANGED <<consumerVars, offset, fromRedis, redisVars, dbMax, messageVars,
                 failVars, jobVars, faults, losses>>

Deliver(h) ==
  /\ pc[h] = "idle"
  /\ owner[Part(h)] = h[1]
  /\ next[Part(h)] <= Len(Log[Part(h)])
  /\ rec' = [rec EXCEPT ![h] = next[Part(h)]]
  /\ attempt' = [attempt EXCEPT ![h] = 1]
  /\ Goto(h, "check")
  /\ UNCHANGED <<consumerVars, offset, fromRedis, redisVars, dbMax, messageVars,
                 failVars, jobVars, faults, losses>>

(* executeWithDlq: the handler threw. It is run again, or the record goes  *)
(* to the dead-letter topic; if even that fails it is only logged.         *)
MayRetry(h) == attempt[h] < MaxAttempts

Retry(h) ==
  /\ pc[h] = "throw" /\ MayRetry(h)
  /\ attempt' = [attempt EXCEPT ![h] = IF @ < MaxAttempts THEN @ + 1 ELSE @]
  /\ Goto(h, "check")
  /\ UNCHANGED <<consumerVars, rec, offset, fromRedis, redisVars, dbMax,
                 messageVars, failVars, jobVars, faults, losses>>

SkipDlq(h) ==
  /\ pc[h] = "throw" /\ ~ MayRetry(h)
  /\ Goto(h, "done")
  /\ UNCHANGED <<consumerVars, rec, attempt, offset, fromRedis, redisVars, dbMax,
                 messageVars, failVars, jobVars, faults, losses>>

StopConsumer(h) == pc[h] = "throw" /\ ~ MayRetry(h) /\ UNCHANGED vars

RouteToDlq(h) ==
  /\ pc[h] = "throw" /\ ~ MayRetry(h)
  /\ Goto(h, "done")
  /\ \/ /\ dlq' = dlq \cup {Msg(h)}
        /\ UNCHANGED <<dropped, faults>>
     \/ /\ Fault
        /\ dropped' = dropped \cup {Msg(h)}
        /\ UNCHANGED dlq
  /\ UNCHANGED <<consumerVars, rec, attempt, offset, fromRedis, redisVars, dbMax,
                 messageVars, jobVars, losses>>

(* The record is resolved: its consumer moves on, unless the partition was *)
(* taken away meanwhile.                                                   *)
Advance(h) ==
  IF owner[Part(h)] = h[1] /\ next[Part(h)] = rec[h]
    THEN rec[h] + 1 ELSE next[Part(h)]

Resolve(h) ==
  /\ pc[h] = "done"
  /\ next' = [next EXCEPT ![Part(h)] = Advance(h)]
  /\ Goto(h, "idle")
  /\ rec' = [rec EXCEPT ![h] = 0]
  /\ attempt' = [attempt EXCEPT ![h] = 0]
  /\ offset' = [offset EXCEPT ![h] = 0]
  /\ fromRedis' = [fromRedis EXCEPT ![h] = FALSE]
  /\ UNCHANGED <<owner, committed, overtaken, redisVars, dbMax, messageVars,
                 failVars, jobVars, faults, losses>>

(* Resolved offsets are committed at the end of a fetched batch.           *)
Commit(p) ==
  /\ committed[p] < next[p]
  /\ committed' = [committed EXCEPT ![p] = next[p]]
  /\ UNCHANGED <<owner, next, overtaken, handlerVars, redisVars, dbMax, messageVars,
                 failVars, jobVars, faults, losses>>

(* The broker moves the partition: the new owner starts at the committed   *)
(* offset; a handler of the old one runs on.                               *)
Working(h) == pc[h] \notin {"idle", "done"}

Rebalance(p, c) ==
  /\ owner[p] # c
  /\ Fault
  /\ owner' = [owner EXCEPT ![p] = c]
  /\ next' = [next EXCEPT ![p] = committed[p]]
  /\ overtaken' = overtaken \cup
       {Msg(h) : h \in {g \in Handlers : Part(g) = p /\ Working(g) /\ stored[Msg(g)] = 0}}
  /\ UNCHANGED <<committed, handlerVars, redisVars, dbMax, messageVars, failVars,
                 jobVars, losses>>

(* An instance dies and is restarted: its handlers are gone.               *)
Crash(c) ==
  /\ Fault
  /\ next' = [p \in Partitions |-> IF owner[p] = c THEN committed[p] ELSE next[p]]
  /\ pc' = [h \in Handlers |-> IF h[1] = c THEN "idle" ELSE pc[h]]
  /\ rec' = [h \in Handlers |-> IF h[1] = c THEN 0 ELSE rec[h]]
  /\ attempt' = [h \in Handlers |-> IF h[1] = c THEN 0 ELSE attempt[h]]
  /\ offset' = [h \in Handlers |-> IF h[1] = c THEN 0 ELSE offset[h]]
  /\ fromRedis' = [h \in Handlers |-> h[1] # c /\ fromRedis[h]]
  /\ UNCHANGED <<owner, committed, overtaken, redisVars, dbMax, messageVars, failVars,
                 jobVars, losses>>

-----------------------------------------------------------------------------
(* The handlers: handleMessageAccepted and createSystemMessage.            *)

\* Any call of the handler may throw, before or after it took effect.
Throws(h) == Fault /\ Goto(h, "throw")

\* The message exists: handleMessageAccepted returns; createSystemMessage marks
\* the conversation dirty first, if the counter is cached.
NumberAgain(h) == Goto(h, "incr") /\ UNCHANGED dirty
AnnounceAgain(h) ==
  /\ IF IsSystem(h) THEN Goto(h, "done") ELSE Goto(h, "publish")
  /\ UNCHANGED dirty
Exists(h) ==
  /\ Goto(h, "done")
  /\ dirty' = (dirty \/ (IsSystem(h) /\ counter # 0))

Check(h) ==
  /\ pc[h] = "check"
  /\ IF stored[Msg(h)] # 0
       THEN Exists(h)
       ELSE Goto(h, "incr") /\ UNCHANGED dirty
  /\ UNCHANGED <<consumerVars, rec, attempt, offset, fromRedis, counter, dbMax,
                 messageVars, failVars, jobVars, faults, losses>>

\* The message has its offset. create() of the message repository is save() of
\* TypeORM, which looks for the row first; createSystemMessage inserts.
Numbered(h) == Goto(h, IF IsSystem(h) THEN "insert" ELSE "lookup")

(* The Lua script: INCR if the key exists, else -1. *)
Incr(h) ==
  /\ pc[h] = "incr"
  /\ IF counter = 0
       THEN /\ Goto(h, "tcp")
            /\ UNCHANGED <<counter, offset, fromRedis>>
       ELSE /\ counter' = counter + 1
            /\ offset' = [offset EXCEPT ![h] = counter + 1]
            /\ fromRedis' = [fromRedis EXCEPT ![h] = TRUE]
            /\ Numbered(h)
  /\ UNCHANGED <<consumerVars, rec, attempt, dirty, dbMax, messageVars, failVars,
                 jobVars, faults, losses>>

(* INCREMENT_MAX_OFFSET at conversation-service: one UPDATE ... RETURNING. *)
TcpIncrement(h) ==
  /\ pc[h] = "tcp"
  /\ dbMax' = dbMax + 1
  /\ offset' = [offset EXCEPT ![h] = dbMax + 1]
  /\ Goto(h, "seed")
  /\ UNCHANGED <<consumerVars, rec, attempt, fromRedis, redisVars, messageVars,
                 failVars, jobVars, faults, losses>>

(* SET NX *)
SeedBehind(n) == IF counter = 0 THEN n - 1 ELSE counter
Seed(n)       == IF counter = 0 THEN n ELSE counter

SeedCounter(h) ==
  /\ pc[h] = "seed"
  /\ counter' = Seed(offset[h])
  /\ fromRedis' = [fromRedis EXCEPT ![h] = FALSE]
  /\ Numbered(h)
  /\ UNCHANGED <<consumerVars, rec, attempt, offset, dirty, dbMax, messageVars,
                 failVars, jobVars, faults, losses>>

(* save(): an INSERT if the SELECT finds no row, else an UPDATE, which      *)
(* gives the message the offset of this handler.                           *)
LookUp(h) ==
  /\ pc[h] = "lookup"
  /\ Goto(h, IF stored[Msg(h)] = 0 THEN "insert" ELSE "update")
  /\ UNCHANGED <<consumerVars, rec, attempt, offset, fromRedis, redisVars, dbMax,
                 messageVars, failVars, jobVars, faults, losses>>

\* A row that appeared in between violates the key: handleMessageAccepted
\* returns, createSystemMessage throws.
Duplicate(h) == IF IsSystem(h) THEN Goto(h, "throw") ELSE Goto(h, "done")

\* A system message is inserted together with its outbox row.
Insert(h) ==
  /\ stored' = [stored EXCEPT ![Msg(h)] = offset[h]]
  /\ enqueued' = IF IsSystem(h) THEN enqueued \cup {Msg(h)} ELSE enqueued

Store(h) ==
  /\ pc[h] = "insert"
  /\ \/ /\ Msg(h) \in Poison
        /\ Goto(h, "throw")
        /\ UNCHANGED <<stored, enqueued>>
     \/ /\ Msg(h) \notin Poison /\ stored[Msg(h)] = 0
        /\ Insert(h)
        /\ Goto(h, "dirty")
     \/ /\ Msg(h) \notin Poison /\ stored[Msg(h)] # 0
        /\ Duplicate(h)
        /\ UNCHANGED <<stored, enqueued>>
  /\ UNCHANGED <<consumerVars, rec, attempt, offset, fromRedis, redisVars, dbMax,
                 saved, copies, failVars, jobVars, faults, losses>>

Overwrite(h) ==
  /\ pc[h] = "update"
  /\ stored' = [stored EXCEPT ![Msg(h)] = offset[h]]
  /\ Goto(h, "dirty")
  /\ UNCHANGED <<consumerVars, rec, attempt, offset, fromRedis, redisVars, dbMax,
                 enqueued, saved, copies, failVars, jobVars, faults, losses>>

(* SADD dirty_offsets if the offset came from Redis; not awaited, and its  *)
(* error is ignored.                                                       *)
AfterStore(h) == IF IsSystem(h) THEN Goto(h, "done") ELSE Goto(h, "publish")

MarkDirty(h) ==
  /\ pc[h] = "dirty"
  /\ \/ dirty' = (dirty \/ fromRedis[h]) /\ UNCHANGED faults
     \/ fromRedis[h] /\ Fault /\ UNCHANGED dirty
  /\ AfterStore(h)
  /\ UNCHANGED <<consumerVars, rec, attempt, offset, fromRedis, counter, dbMax,
                 messageVars, failVars, jobVars, losses>>

(* publish(MESSAGE_SAVED), straight to Kafka *)
Publish(h) ==
  /\ pc[h] = "publish"
  /\ Announce(Msg(h), offset[h])
  /\ Goto(h, "done")
  /\ UNCHANGED <<consumerVars, rec, attempt, offset, fromRedis, redisVars, dbMax,
                 stored, enqueued, failVars, jobVars, faults, losses>>

(* A call that throws. Increment, insert, update and publish may have been *)
(* performed although their answer was lost.                               *)
CallFails(h) ==
  /\ Throws(h)
  /\ \/ /\ pc[h] \in {"check", "incr", "tcp", "seed", "lookup", "insert", "update", "publish"}
        /\ UNCHANGED <<counter, dbMax, messageVars>>
     \/ /\ pc[h] = "incr" /\ counter # 0
        /\ counter' = counter + 1
        /\ UNCHANGED <<dbMax, messageVars>>
     \/ /\ pc[h] = "tcp"
        /\ dbMax' = dbMax + 1
        /\ UNCHANGED <<counter, messageVars>>
     \/ /\ pc[h] = "insert" /\ Msg(h) \notin Poison /\ stored[Msg(h)] = 0
        /\ Insert(h)
        /\ UNCHANGED <<counter, dbMax, saved, copies>>
     \/ /\ pc[h] = "update"
        /\ stored' = [stored EXCEPT ![Msg(h)] = offset[h]]
        /\ UNCHANGED <<counter, dbMax, enqueued, saved, copies>>
     \/ /\ pc[h] = "publish"
        /\ Announce(Msg(h), offset[h])
        /\ UNCHANGED <<counter, dbMax, stored, enqueued>>
  /\ UNCHANGED <<consumerVars, rec, attempt, offset, fromRedis, dirty, failVars,
                 jobVars, losses>>

(* MessageStoreOutboxProcessor publishes the outbox row of a system        *)
(* message, at least once (module Outbox).                                 *)
OutboxPublish(m) ==
  /\ m \in enqueued
  /\ Announce(m, stored[m])
  /\ UNCHANGED <<consumerVars, handlerVars, redisVars, dbMax, stored, enqueued,
                 failVars, jobVars, faults, losses>>

-----------------------------------------------------------------------------
(* OffsetSyncJob.syncOffsets, every 5 s, without a leader lock.            *)
JobMembers(j) ==
  /\ jobPc[j] = "idle" /\ dirty
  /\ jobPc' = [jobPc EXCEPT ![j] = "get"]
  /\ UNCHANGED <<consumerVars, handlerVars, redisVars, dbMax, messageVars, failVars,
                 jobVal, faults, losses>>

(* The pipelined GET; without a counter the conversation is skipped and    *)
(* stays dirty.                                                            *)
JobGet(j) ==
  /\ jobPc[j] = "get"
  /\ jobVal' = [jobVal EXCEPT ![j] = counter]
  /\ jobPc' = [jobPc EXCEPT ![j] = IF counter = 0 THEN "idle" ELSE "sync"]
  /\ UNCHANGED <<consumerVars, handlerVars, redisVars, dbMax, messageVars, failVars,
                 faults, losses>>

(* syncMaxOffset: SET max_offset = $2 WHERE max_offset < $2 *)
SyncMaxOffset(n) == IF dbMax < n THEN n ELSE dbMax

JobSync(j) ==
  /\ jobPc[j] = "sync"
  /\ dbMax' = SyncMaxOffset(jobVal[j])
  /\ jobPc' = [jobPc EXCEPT ![j] = "srem"]
  /\ UNCHANGED <<consumerVars, handlerVars, redisVars, messageVars, failVars, jobVal,
                 faults, losses>>

JobSrem(j) ==
  /\ jobPc[j] = "srem"
  /\ dirty' = FALSE
  /\ jobPc' = [jobPc EXCEPT ![j] = "idle"]
  /\ jobVal' = [jobVal EXCEPT ![j] = 0]
  /\ UNCHANGED <<consumerVars, handlerVars, counter, dbMax, messageVars, failVars,
                 faults, losses>>

(* A call of the job fails, or its instance dies: the dirty mark stays.    *)
JobFails(j) ==
  /\ jobPc[j] # "idle"
  /\ Fault
  /\ jobPc' = [jobPc EXCEPT ![j] = "idle"]
  /\ jobVal' = [jobVal EXCEPT ![j] = 0]
  /\ UNCHANGED <<consumerVars, handlerVars, redisVars, dbMax, messageVars, failVars,
                 losses>>

(* Redis restarts without its keys. *)
RedisLost ==
  /\ losses < MaxLosses
  /\ losses' = losses + 1
  /\ counter' = 0 /\ dirty' = FALSE
  /\ UNCHANGED <<consumerVars, handlerVars, dbMax, messageVars, failVars, jobVars,
                 faults>>

-----------------------------------------------------------------------------
Work(h) ==
  \/ Deliver(h) \/ Retry(h) \/ RouteToDlq(h) \/ Resolve(h)
  \/ Check(h) \/ Incr(h) \/ TcpIncrement(h) \/ SeedCounter(h)
  \/ LookUp(h) \/ Store(h) \/ Overwrite(h) \/ MarkDirty(h) \/ Publish(h)

Job(j) == JobMembers(j) \/ JobGet(j) \/ JobSync(j) \/ JobSrem(j)

Next ==
  \/ \E h \in Handlers : Work(h) \/ CallFails(h)
  \/ \E p \in Partitions : Commit(p) \/ \E c \in Instances : Rebalance(p, c)
  \/ \E c \in Instances : Crash(c)
  \/ \E m \in Messages : OutboxPublish(m)
  \/ \E j \in Jobs : Job(j) \/ JobFails(j)
  \/ RedisLost

(* Handlers run, batches are committed and the cron job fires. *)
Fairness ==
  /\ \A h \in Handlers : WF_vars(Work(h))
  /\ \A p \in Partitions : WF_vars(Commit(p))
  /\ \A j \in Jobs : WF_vars(Job(j))

Spec == Init /\ [][Next]_vars
FairSpec == Spec /\ Fairness

-----------------------------------------------------------------------------
(* Whatever is announced is stored, at the announced offset, through       *)
(* crashes, retries, lost answers and redeliveries of the record (the      *)
(* check and the save of handleMessageAccepted, the insert of              *)
(* createSystemMessage).  The exception: an accepted message whose         *)
(* partition the broker moved before its handler had stored it.  Its next  *)
(* handler passes the check too, and the later save() overwrites the       *)
(* offset the other one announces.                                         *)
AnnouncedIsStored ==
  \A e \in saved : /\ stored[e[1]] # 0
                   /\ stored[e[1]] = e[2] \/ e[1] \in Accepted \cap overtaken

(* An accepted message is announced at most once by all deliveries of its  *)
(* record together, a partition moved after the save included; with the    *)
(* same exception, for then both handlers publish.                         *)
AnnouncedAtMostOnce ==
  \A m \in Accepted \ overtaken : copies[m] <= 1

(* A record its consumer group has passed is stored, together with its     *)
(* outbox row if it is a system message, or it is in the dead-letter topic *)
(* or was logged as lost (executeWithDlq, routeToDlq), through rebalances, *)
(* redeliveries and handlers that run on for a partition they lost.        *)
PassedIsAccountedFor ==
  \A p \in Partitions : \A i \in 1 .. next[p] - 1 :
    LET m == Log[p][i]
    IN  \/ stored[m] # 0 /\ (p \in System => m \in enqueued)
        \/ m \in dlq \cup dropped

(* With one consumer, one partition and a Redis that keeps its keys,       *)
(* messages are numbered in the order of their records, crashes and        *)
(* retries included, except those that once went to the dead-letter topic. *)
OffsetsFollowLog ==
  losses = 0 => \A p \in Partitions : \A i, j \in DOMAIN Log[p] :
    (/\ i < j /\ Log[p][i] \notin dlq \cup dropped
     /\ stored[Log[p][i]] # 0 /\ stored[Log[p][j]] # 0)
      => stored[Log[p][i]] < stored[Log[p][j]]

(* and the cached counter never lags behind the database.                  *)
CounterCoversDb == losses = 0 /\ counter # 0 => counter >= dbMax

(* A record PostgreSQL always refuses does not block the records behind    *)
(* it: every partition is read to its end.                                 *)
EveryRecordPassed ==
  <>[](\A p \in Partitions : committed[p] = Len(Log[p]) + 1)
=============================================================================
