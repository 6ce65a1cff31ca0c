------------------------- MODULE MessageStoreProofs --------------------------
(***************************************************************************)
(* Proofs about storing messages, for any number of replicas, partitions,  *)
(* records, faults and losses of Redis.                                    *)
(***************************************************************************)
EXTENDS MessageStore, TLAPS

Numbering(h)  == pc[h] \in {"incr", "tcp", "seed", "lookup", "insert"}
Announcing(h) == pc[h] \in {"dirty", "publish"}

\* An accepted message that a rebalance may have left to two handlers.
Contested(m) == m \in Accepted \cap overtaken

\* A handler that is not idle has a record, and an offset once it has asked.
HandlersHaveRecords ==
  \A h \in Handlers :
    /\ pc[h] # "idle" => rec[h] # 0
    /\ pc[h] \in {"seed", "lookup", "insert", "update", "dirty", "publish"} => offset[h] # 0

\* Who works for a partition it lost, on a message not stored yet, is known.
LostAreOvertaken ==
  \A h \in Handlers :
    Working(h) /\ owner[Part(h)] # h[1] /\ stored[Msg(h)] = 0 => Msg(h) \in overtaken

\* So the only handler of an accepted message finds it missing until it stores it...
NumberingIsMissing ==
  \A h \in Handlers :
    /\ Numbering(h) /\ Msg(h) \in Accepted => stored[Msg(h)] = 0 \/ Contested(Msg(h))
    /\ pc[h] \in {"lookup", "update", "publish"} => Msg(h) \in Accepted
    /\ pc[h] = "update" => stored[Msg(h)] # 0 /\ Contested(Msg(h))

\* ...at the offset it announces...
AnnouncerHasStored ==
  \A h \in Handlers : Announcing(h) =>
    /\ stored[Msg(h)] # 0
    /\ stored[Msg(h)] = offset[h] \/ Contested(Msg(h))

\* ...and nobody else announces it, or has.
AnnouncerIsAlone ==
  /\ \A g, h \in Handlers :
       Announcing(g) /\ Announcing(h) /\ Msg(g) = Msg(h) => g = h \/ Contested(Msg(h))
  /\ \A h \in Handlers :
       Announcing(h) /\ Msg(h) \in Accepted => copies[Msg(h)] = 0 \/ Contested(Msg(h))

CopiesAreOfStored == \A m \in Messages : copies[m] # 0 => stored[m] # 0

\* The row and its outbox row are written in one transaction.
StoredWithOutboxRow ==
  /\ \A m \in enqueued : stored[m] # 0
  /\ \A p \in System : \A m \in Range(Log[p]) : stored[m] # 0 => m \in enqueued

Accounted(p, i) ==
  \/ stored[Log[p][i]] # 0 /\ (p \in System => Log[p][i] \in enqueued)
  \/ Log[p][i] \in dlq \cup dropped

DoneIsAccounted ==
  \A h \in Handlers : pc[h] = "done" => Accounted(Part(h), rec[h])

StoreInv ==
  /\ TypeOK /\ HandlersHaveRecords
  /\ LostAreOvertaken /\ NumberingIsMissing
  /\ AnnouncerHasStored /\ AnnouncerIsAlone /\ CopiesAreOfStored
  /\ StoredWithOutboxRow /\ DoneIsAccounted
  /\ AnnouncedIsStored /\ AnnouncedAtMostOnce /\ PassedIsAccountedFor

-----------------------------------------------------------------------------
(* Records and messages.                                                   *)

LEMMA LogIsSequence ==
  \A p \in Partitions :
    /\ Log[p] \in Seq(Messages) /\ Len(Log[p]) \in Nat /\ DOMAIN Log[p] = 1 .. Len(Log[p])
    /\ \A i \in 1 .. Len(Log[p]) : Log[p][i] \in Messages /\ Log[p][i] \in Range(Log[p])
BY MessageStoreAssumption DEF Range

LEMMA AcceptedAreNotSystem ==
  ASSUME NEW p \in Partitions, NEW m \in Range(Log[p])
  PROVE  m \in Messages /\ (m \in Accepted <=> p \notin System)
BY MessageStoreAssumption DEF Accepted, Messages

LEMMA HandlerMessage ==
  ASSUME TypeOK, HandlersHaveRecords, NEW h \in Handlers, pc[h] # "idle"
  PROVE  /\ Part(h) \in Partitions
         /\ rec[h] \in 1 .. Len(Log[Part(h)])
         /\ Msg(h) \in Messages /\ Msg(h) \in Range(Log[Part(h)])
         /\ Msg(h) \in Accepted <=> ~ IsSystem(h)
<1>1. Part(h) \in Partitions
  BY DEF Handlers, Part
<1>2. rec[h] \in 1 .. Len(Log[Part(h)])
  BY <1>1, LogIsSequence DEF TypeOK, HandlersHaveRecords, Part
<1>3. Msg(h) \in Messages /\ Msg(h) \in Range(Log[Part(h)])
  BY <1>1, <1>2, LogIsSequence DEF Msg
<1>4. QED
  BY <1>1, <1>2, <1>3, AcceptedAreNotSystem DEF IsSystem

LEMMA StoreInitial == Init => StoreInv
<1> SUFFICES ASSUME Init PROVE StoreInv
  OBVIOUS
<1>1. TypeOK
  <2>1. /\ owner \in [Partitions -> Instances]
        /\ next \in [Partitions -> Nat] /\ committed \in [Partitions -> Nat]
        /\ \A p \in Partitions : next[p] \in 1 .. Len(Log[p]) + 1 /\ committed[p] \in 1 .. next[p]
    BY LogIsSequence DEF Init
  <2>2. /\ pc \in [Handlers -> Labels] /\ attempt \in [Handlers -> 0 .. MaxAttempts]
        /\ offset \in [Handlers -> Nat] /\ fromRedis \in [Handlers -> BOOLEAN]
    BY MessageStoreAssumption DEF Init, Labels
  <2>3. rec \in [Handlers -> Nat] /\ \A h \in Handlers : rec[h] \in 0 .. Len(Log[h[2]])
    BY LogIsSequence DEF Init, Handlers
  <2>7. dirty \in BOOLEAN
    BY DEF Init
  <2>4. /\ counter \in Nat /\ dbMax \in Nat
        /\ stored \in [Messages -> Nat] /\ enqueued \subseteq Messages \ Accepted
        /\ saved \subseteq Messages \X (Nat \ {0}) /\ copies \in [Messages -> 0 .. 2]
        /\ dlq \subseteq Messages /\ dropped \subseteq Messages /\ overtaken \subseteq Messages
    BY DEF Init
  <2>5. /\ jobPc \in [Jobs -> {"idle", "get", "sync", "srem"}] /\ jobVal \in [Jobs -> Nat]
        /\ faults \in 0 .. MaxFaults /\ losses \in 0 .. MaxLosses
    BY MessageStoreAssumption DEF Init
  <2>6. QED
    BY <2>1, <2>2, <2>3, <2>4, <2>5, <2>7 DEF TypeOK
<1>2. /\ HandlersHaveRecords /\ LostAreOvertaken /\ NumberingIsMissing
      /\ AnnouncerHasStored /\ AnnouncerIsAlone /\ DoneIsAccounted
  BY DEF Init, HandlersHaveRecords, LostAreOvertaken, NumberingIsMissing, AnnouncerHasStored,
         AnnouncerIsAlone, DoneIsAccounted, Working, Numbering, Announcing
<1>3. CopiesAreOfStored
  BY DEF Init, CopiesAreOfStored
<1>4. StoredWithOutboxRow
  <2>1. \A p \in System : \A m \in Range(Log[p]) : stored[m] = 0
    BY MessageStoreAssumption, AcceptedAreNotSystem DEF Init
  <2>2. QED
    BY <2>1 DEF Init, StoredWithOutboxRow
<1>5. AnnouncedIsStored /\ AnnouncedAtMostOnce
  BY DEF Init, AnnouncedIsStored, AnnouncedAtMostOnce, Accepted, Messages
<1>6. PassedIsAccountedFor
  BY DEF Init, PassedIsAccountedFor
<1>7. QED
  BY <1>1, <1>2, <1>3, <1>4, <1>5, <1>6 DEF StoreInv

-----------------------------------------------------------------------------
(* Types.                                                                  *)

ConsumerTypeOK ==
  /\ owner \in [Partitions -> Instances]
  /\ next \in [Partitions -> Nat] /\ committed \in [Partitions -> Nat]
  /\ \A p \in Partitions : next[p] \in 1 .. Len(Log[p]) + 1 /\ committed[p] \in 1 .. next[p]

HandlerTypeOK ==
  /\ pc \in [Handlers -> Labels] /\ attempt \in [Handlers -> 0 .. MaxAttempts]
  /\ offset \in [Handlers -> Nat] /\ rec \in [Handlers -> Nat]
  /\ \A h \in Handlers : rec[h] \in 0 .. Len(Log[h[2]])

MessageTypeOK ==
  /\ stored \in [Messages -> Nat] /\ enqueued \subseteq Messages \ Accepted
  /\ saved \subseteq Messages \X (Nat \ {0}) /\ copies \in [Messages -> 0 .. 2]
  /\ dlq \subseteq Messages /\ dropped \subseteq Messages

MarksTypeOK == dirty \in BOOLEAN /\ fromRedis \in [Handlers -> BOOLEAN]

OvertakenTypeOK == overtaken \subseteq Messages

CounterTypeOK ==
  /\ counter \in Nat /\ dbMax \in Nat
  /\ jobPc \in [Jobs -> {"idle", "get", "sync", "srem"}] /\ jobVal \in [Jobs -> Nat]

FaultTypeOK == faults \in 0 .. MaxFaults /\ losses \in 0 .. MaxLosses

LEMMA TypeParts ==
  TypeOK <=> /\ ConsumerTypeOK /\ HandlerTypeOK /\ MessageTypeOK
             /\ MarksTypeOK /\ CounterTypeOK /\ FaultTypeOK /\ OvertakenTypeOK
BY Zenon DEF TypeOK, ConsumerTypeOK, HandlerTypeOK, MessageTypeOK, MarksTypeOK, CounterTypeOK,
             FaultTypeOK, OvertakenTypeOK

\* The steps that move a handler.
Answers(h) == Check(h) \/ Incr(h) \/ TcpIncrement(h) \/ SeedCounter(h) \/ LookUp(h)
Writes(h)  == Store(h) \/ Overwrite(h) \/ MarkDirty(h) \/ Publish(h)
Consumes(h) == Deliver(h) \/ Retry(h) \/ RouteToDlq(h) \/ Resolve(h)

LEMMA ConsumerTypeStep == TypeOK /\ [Next]_vars => ConsumerTypeOK'
<1> SUFFICES ASSUME TypeOK, [Next]_vars PROVE ConsumerTypeOK'
  OBVIOUS
<1> USE DEF TypeOK, ConsumerTypeOK
<1>1. CASE \E h \in Handlers : Resolve(h)
  <2>1. PICK h \in Handlers : Resolve(h)
    BY <1>1
  <2>2. Part(h) \in Partitions /\ rec[h] \in 0 .. Len(Log[Part(h)])
    BY DEF Handlers, Part
  <2>3. Advance(h) \in next[Part(h)] .. Len(Log[Part(h)]) + 1
    BY <2>2, LogIsSequence DEF Advance
  <2>4. /\ next' = [next EXCEPT ![Part(h)] = Advance(h)]
        /\ UNCHANGED <<owner, committed>>
    BY <2>1 DEF Resolve
  <2>5. Advance(h) \in Nat /\ Advance(h) >= next[Part(h)] /\ Advance(h) <= Len(Log[Part(h)]) + 1
    BY <2>2, <2>3, LogIsSequence
  <2>6. next' \in [Partitions -> Nat]
    BY <2>2, <2>4, <2>5
  <2>7. \A p \in Partitions :
          /\ next[p] \in 1 .. Len(Log[p]) + 1 /\ committed[p] \in 1 .. next[p]
          /\ Len(Log[p]) \in Nat
    BY LogIsSequence
  <2>8. \A p \in Partitions : next'[p] = IF p = Part(h) THEN Advance(h) ELSE next[p]
    BY <2>2, <2>4
  <2>9. \A p \in Partitions : next'[p] \in 1 .. Len(Log[p]) + 1 /\ committed[p] \in 1 .. next'[p]
    BY <2>2, <2>5, <2>7, <2>8
  <2>10. QED
    BY <2>4, <2>6, <2>9
<1>2. CASE \E p \in Partitions : Commit(p) \/ \E c \in Instances : Rebalance(p, c)
  <2>1. PICK p \in Partitions : Commit(p) \/ \E c \in Instances : Rebalance(p, c)
    BY <1>2
  <2>2. CASE Commit(p)
    BY <2>2, LogIsSequence DEF Commit
  <2>3. CASE \E c \in Instances : Rebalance(p, c)
    BY <2>3, LogIsSequence DEF Rebalance
  <2>4. QED
    BY <2>1, <2>2, <2>3
<1>3. CASE \E c \in Instances : Crash(c)
  BY <1>3, LogIsSequence DEF Crash
<1>4. CASE \E h \in Handlers : Deliver(h) \/ Retry(h) \/ RouteToDlq(h)
  BY <1>4 DEF Deliver, Retry, RouteToDlq, consumerVars
<1>5. CASE \E h \in Handlers : Answers(h) \/ Writes(h) \/ CallFails(h)
  BY <1>5 DEF Answers, Writes, Check, Incr, TcpIncrement, SeedCounter, LookUp, Store, Overwrite,
              MarkDirty,
              Publish, CallFails, consumerVars
<1>6. CASE \/ \E m \in Messages : OutboxPublish(m)
           \/ \E j \in Jobs : Job(j) \/ JobFails(j)
           \/ RedisLost \/ UNCHANGED vars
  BY <1>6 DEF OutboxPublish, Job, JobMembers, JobGet, JobSync, JobSrem, JobFails, RedisLost,
              vars, consumerVars
<1>7. QED
  BY <1>1, <1>2, <1>3, <1>4, <1>5, <1>6 DEF Next, Work, Answers, Writes

LEMMA HandlerTypeStep ==
  TypeOK /\ HandlersHaveRecords /\ [Next]_vars => HandlerTypeOK' /\ HandlersHaveRecords'
<1> SUFFICES ASSUME TypeOK, HandlersHaveRecords, [Next]_vars
             PROVE  HandlerTypeOK' /\ HandlersHaveRecords'
  OBVIOUS
<1> USE DEF TypeOK, HandlerTypeOK, HandlersHaveRecords
<1>1. CASE \E h \in Handlers : Deliver(h)
  <2>1. PICK h \in Handlers : Deliver(h)
    BY <1>1
  <2>2. Part(h) \in Partitions /\ Part(h) = h[2]
    BY DEF Handlers, Part
  <2>3. next[Part(h)] \in 1 .. Len(Log[h[2]])
    BY <2>1, <2>2, LogIsSequence DEF Deliver
  <2>4. QED
    BY <2>1, <2>3, MessageStoreAssumption DEF Deliver, Goto, Labels
<1>2. CASE \E h \in Handlers : Retry(h) \/ RouteToDlq(h)
  <2>1. PICK h \in Handlers : Retry(h) \/ RouteToDlq(h)
    BY <1>2
  <2>2. CASE Retry(h)
    <3>1. attempt' \in [Handlers -> 0 .. MaxAttempts]
      BY <2>2, MessageStoreAssumption DEF Retry, MayRetry
    <3>2. QED
      BY <2>2, <3>1 DEF Retry, Goto, Labels
  <2>3. CASE RouteToDlq(h)
    BY <2>3 DEF RouteToDlq, Goto, Labels
  <2>4. QED
    BY <2>1, <2>2, <2>3
<1>3. CASE \E h \in Handlers : Resolve(h)
  <2>1. \A h \in Handlers : 0 \in 0 .. Len(Log[h[2]])
    BY LogIsSequence DEF Handlers
  <2>2. QED
    BY <1>3, <2>1, MessageStoreAssumption DEF Resolve, Goto, Labels
<1>4. CASE \E h \in Handlers : Answers(h)
  <2>1. PICK h \in Handlers : Answers(h)
    BY <1>4
  <2>2. CASE Check(h)
    BY <2>2 DEF Check, Exists, Goto, Labels
  <2>3. CASE Incr(h)
    <3>1. CASE counter = 0
      BY <2>3, <3>1 DEF Incr, Goto, Labels
    <3>2. CASE counter # 0
      <4>1. /\ counter + 1 \in Nat \ {0} /\ offset' = [offset EXCEPT ![h] = counter + 1]
            /\ \E l \in {"lookup", "insert"} : pc' = [pc EXCEPT ![h] = l]
            /\ pc[h] = "incr" /\ UNCHANGED <<rec, attempt>>
        BY <2>3, <3>2 DEF Incr, Numbered, Goto
      <4>2. QED
        BY <4>1 DEF Labels
    <3>3. QED
      BY <3>1, <3>2
  <2>5. CASE TcpIncrement(h)
    BY <2>5 DEF TcpIncrement, Goto, Labels
  <2>4. CASE SeedCounter(h)
    BY <2>4 DEF SeedCounter, Numbered, Goto, Labels
  <2>7. CASE LookUp(h)
    BY <2>7 DEF LookUp, Goto, Labels
  <2>6. QED
    BY <2>1, <2>2, <2>3, <2>4, <2>5, <2>7 DEF Answers
<1>5. CASE \E h \in Handlers : Writes(h) \/ CallFails(h)
  <2>1. PICK h \in Handlers : Writes(h) \/ CallFails(h)
    BY <1>5
  <2>2. CASE Store(h) \/ Overwrite(h)
    BY <2>2 DEF Store, Overwrite, Duplicate, Goto, Labels
  <2>3. CASE MarkDirty(h)
    BY <2>3 DEF MarkDirty, AfterStore, Goto, Labels
  <2>4. CASE Publish(h) \/ CallFails(h)
    BY <2>4 DEF Publish, CallFails, Throws, Goto, Labels
  <2>5. QED
    BY <2>1, <2>2, <2>3, <2>4 DEF Writes
<1>6. CASE \E c \in Instances : Crash(c)
  <2>1. \A h \in Handlers : 0 \in 0 .. Len(Log[h[2]])
    BY LogIsSequence DEF Handlers
  <2>2. QED
    BY <1>6, <2>1, MessageStoreAssumption DEF Crash, Labels
<1>7. CASE \/ \E p \in Partitions : Commit(p) \/ \E c \in Instances : Rebalance(p, c)
           \/ \E m \in Messages : OutboxPublish(m)
           \/ \E j \in Jobs : Job(j) \/ JobFails(j)
           \/ RedisLost \/ UNCHANGED vars
  BY <1>7 DEF Commit, Rebalance, OutboxPublish, Job, JobMembers, JobGet, JobSync, JobSrem,
              JobFails, RedisLost, vars, handlerVars
<1>8. QED
  BY <1>1, <1>2, <1>3, <1>4, <1>5, <1>6, <1>7 DEF Next, Work, Answers, Writes

LEMMA AnnounceType ==
  ASSUME TypeOK, NEW m \in Messages, NEW n \in Nat \ {0}, Announce(m, n)
  PROVE  saved' \subseteq Messages \X (Nat \ {0}) /\ copies' \in [Messages -> 0 .. 2]
BY DEF TypeOK, Announce

LEMMA MessageTypeStep ==
  TypeOK /\ HandlersHaveRecords /\ StoredWithOutboxRow /\ [Next]_vars => MessageTypeOK'
<1> SUFFICES ASSUME TypeOK, HandlersHaveRecords, StoredWithOutboxRow, [Next]_vars
             PROVE  MessageTypeOK'
  OBVIOUS
<1> USE DEF MessageTypeOK
<1>1. ASSUME NEW h \in Handlers, pc[h] # "idle"
      PROVE  Msg(h) \in Messages /\ (IsSystem(h) => Msg(h) \notin Accepted)
  BY <1>1, HandlerMessage
<1>2. CASE \E h \in Handlers : RouteToDlq(h)
  BY <1>1, <1>2 DEF RouteToDlq, TypeOK, messageVars
<1>3. CASE \E h \in Handlers : Store(h) \/ Overwrite(h)
  BY <1>1, <1>3 DEF Store, Overwrite, Insert, TypeOK, failVars
<1>4. CASE \E h \in Handlers : Publish(h)
  <2>1. PICK h \in Handlers : Publish(h)
    BY <1>4
  <2>2. Announce(Msg(h), offset[h]) /\ Msg(h) \in Messages /\ offset[h] \in Nat \ {0}
    BY <1>1, <2>1 DEF Publish, TypeOK, HandlersHaveRecords
  <2>3. QED
    BY <2>1, <2>2, AnnounceType DEF Publish, TypeOK, failVars
<1>5. CASE \E h \in Handlers : CallFails(h)
  <2>1. PICK h \in Handlers : CallFails(h)
    BY <1>5
  <2>2. CASE UNCHANGED messageVars
    BY <2>1, <2>2 DEF CallFails, TypeOK, failVars, messageVars
  <2>3. CASE pc[h] = "insert" /\ Insert(h) /\ UNCHANGED <<saved, copies>>
    BY <1>1, <2>1, <2>3 DEF CallFails, Insert, TypeOK, failVars
  <2>6. CASE /\ pc[h] = "update" /\ stored' = [stored EXCEPT ![Msg(h)] = offset[h]]
             /\ UNCHANGED <<enqueued, saved, copies>>
    BY <1>1, <2>1, <2>6 DEF CallFails, TypeOK, failVars
  <2>4. CASE pc[h] = "publish" /\ Announce(Msg(h), offset[h]) /\ UNCHANGED <<stored, enqueued>>
    <3>1. Msg(h) \in Messages /\ offset[h] \in Nat \ {0}
      BY <1>1, <2>4 DEF TypeOK, HandlersHaveRecords
    <3>2. QED
      BY <2>1, <2>4, <3>1, AnnounceType DEF CallFails, TypeOK, failVars
  <2>5. QED
    BY <2>1, <2>2, <2>3, <2>4, <2>6 DEF CallFails
<1>6. CASE \E m \in Messages : OutboxPublish(m)
  <2>1. PICK m \in Messages : OutboxPublish(m)
    BY <1>6
  <2>2. Announce(m, stored[m]) /\ stored[m] \in Nat \ {0}
    BY <2>1 DEF OutboxPublish, TypeOK, StoredWithOutboxRow
  <2>3. QED
    BY <2>1, <2>2, AnnounceType DEF OutboxPublish, TypeOK, failVars
<1>7. CASE \E h \in Handlers : Deliver(h) \/ Retry(h) \/ Resolve(h) \/ Answers(h) \/ MarkDirty(h)
  BY <1>7 DEF Deliver, Retry, Resolve, Answers, Check, Incr, TcpIncrement, SeedCounter, LookUp,
              MarkDirty, TypeOK, messageVars, failVars
<1>8. CASE \/ \E p \in Partitions : Commit(p) \/ \E c \in Instances : Rebalance(p, c)
           \/ \E c \in Instances : Crash(c)
           \/ \E j \in Jobs : Job(j) \/ JobFails(j)
           \/ RedisLost \/ UNCHANGED vars
  BY <1>8 DEF Commit, Rebalance, Crash, Job, JobMembers, JobGet, JobSync, JobSrem,
              JobFails, RedisLost, vars, TypeOK, messageVars, failVars
<1>9. QED
  BY <1>2, <1>3, <1>4, <1>5, <1>6, <1>7, <1>8 DEF Next, Work, Answers

LEMMA CounterTypeStep ==
  ASSUME CounterTypeOK, HandlerTypeOK, [Next]_vars
  PROVE  CounterTypeOK'
<1> USE DEF CounterTypeOK, HandlerTypeOK
<1>1. CASE \E h \in Handlers : Consumes(h)
  BY <1>1 DEF Consumes, Deliver, Retry, RouteToDlq, Resolve, redisVars, jobVars
<1>2. CASE \E h \in Handlers : Answers(h)
  BY <1>2 DEF Answers, Check, Exists, Incr, TcpIncrement, SeedCounter, LookUp, Seed, redisVars,
              jobVars
<1>3. CASE \E h \in Handlers : Writes(h)
  BY <1>3 DEF Writes, Store, Overwrite, MarkDirty, Publish, redisVars, jobVars
<1>4. CASE \E h \in Handlers : CallFails(h)
  BY <1>4 DEF CallFails, jobVars
<1>5. CASE \E j \in Jobs : Job(j)
  <2>1. PICK j \in Jobs : Job(j)
    BY <1>5
  <2>2. CASE JobMembers(j) \/ JobGet(j)
    BY <2>2 DEF JobMembers, JobGet, redisVars
  <2>3. CASE JobSync(j)
    BY <2>3 DEF JobSync, SyncMaxOffset, redisVars
  <2>4. CASE JobSrem(j)
    BY <2>4 DEF JobSrem
  <2>5. QED
    BY <2>1, <2>2, <2>3, <2>4 DEF Job
<1>6. CASE \/ \E p \in Partitions : Commit(p) \/ \E c \in Instances : Rebalance(p, c)
           \/ \E c \in Instances : Crash(c)
           \/ \E m \in Messages : OutboxPublish(m)
  BY <1>6 DEF Commit, Rebalance, Crash, OutboxPublish, redisVars, jobVars
<1>7. CASE \E j \in Jobs : JobFails(j)
  BY <1>7 DEF JobFails, redisVars
<1>9. CASE RedisLost \/ UNCHANGED vars
  BY <1>9 DEF RedisLost, vars, redisVars, jobVars
<1>8. QED
  BY <1>1, <1>2, <1>3, <1>4, <1>5, <1>6, <1>7, <1>9 DEF Next, Work, Consumes, Answers, Writes

LEMMA FaultTypeStep == ASSUME FaultTypeOK, [Next]_vars PROVE FaultTypeOK'
<1> USE MessageStoreAssumption DEF FaultTypeOK
<1>1. ASSUME NEW h \in Handlers, Work(h) PROVE FaultTypeOK'
  BY <1>1 DEF Work, Deliver, Retry, RouteToDlq, Resolve, Check, Incr, TcpIncrement, SeedCounter,
              LookUp, Store, Overwrite, MarkDirty, Publish, Fault
<1>2. ASSUME NEW h \in Handlers, CallFails(h) PROVE FaultTypeOK'
  BY <1>2 DEF CallFails, Throws, Fault
<1>3. ASSUME NEW j \in Jobs, Job(j) \/ JobFails(j) PROVE FaultTypeOK'
  BY <1>3 DEF Job, JobMembers, JobGet, JobSync, JobSrem, JobFails, Fault
<1>4. CASE \/ \E p \in Partitions : Commit(p) \/ \E c \in Instances : Rebalance(p, c)
           \/ \E c \in Instances : Crash(c)
           \/ \E m \in Messages : OutboxPublish(m)
           \/ RedisLost \/ UNCHANGED vars
  BY <1>4 DEF Commit, Rebalance, Crash, OutboxPublish, RedisLost, Fault, vars
<1>5. QED
  BY <1>1, <1>2, <1>3, <1>4 DEF Next

LEMMA MarksTypeStep == ASSUME MarksTypeOK, [Next]_vars PROVE MarksTypeOK'
<1> USE DEF MarksTypeOK
<1>1. dirty' \in BOOLEAN
  <2>1. CASE \E h \in Handlers : Consumes(h)
    BY <2>1 DEF Consumes, Deliver, Retry, RouteToDlq, Resolve, redisVars
  <2>2. CASE \E h \in Handlers : Answers(h)
    BY <2>2 DEF Answers, Check, Exists, Incr, TcpIncrement, SeedCounter, LookUp, redisVars
  <2>3. CASE \E h \in Handlers : Writes(h) \/ CallFails(h)
    BY <2>3 DEF Writes, Store, Overwrite, MarkDirty, Publish, CallFails, redisVars
  <2>4. CASE \E j \in Jobs : Job(j) \/ JobFails(j)
    BY <2>4 DEF Job, JobMembers, JobGet, JobSync, JobSrem, JobFails, redisVars
  <2>5. CASE \/ \E p \in Partitions : Commit(p) \/ \E c \in Instances : Rebalance(p, c)
             \/ \E c \in Instances : Crash(c)
             \/ \E m \in Messages : OutboxPublish(m)
             \/ RedisLost \/ UNCHANGED vars
    BY <2>5 DEF Commit, Rebalance, Crash, OutboxPublish, RedisLost, vars, redisVars
  <2>6. QED
    BY <2>1, <2>2, <2>3, <2>4, <2>5 DEF Next, Work, Consumes, Answers, Writes
<1>2. fromRedis' \in [Handlers -> BOOLEAN]
  <2>1. CASE \E h \in Handlers : Consumes(h)
    BY <2>1 DEF Consumes, Deliver, Retry, RouteToDlq, Resolve
  <2>2. CASE \E h \in Handlers : Answers(h)
    BY <2>2 DEF Answers, Check, Incr, TcpIncrement, SeedCounter, LookUp
  <2>3. CASE \E h \in Handlers : Writes(h) \/ CallFails(h)
    BY <2>3 DEF Writes, Store, Overwrite, MarkDirty, Publish, CallFails
  <2>4. CASE \E c \in Instances : Crash(c)
    BY <2>4 DEF Crash
  <2>5. CASE \/ \E p \in Partitions : Commit(p) \/ \E c \in Instances : Rebalance(p, c)
             \/ \E m \in Messages : OutboxPublish(m)
             \/ \E j \in Jobs : Job(j) \/ JobFails(j)
             \/ RedisLost \/ UNCHANGED vars
    BY <2>5 DEF Commit, Rebalance, OutboxPublish, Job, JobMembers, JobGet, JobSync, JobSrem,
                JobFails, RedisLost, vars, handlerVars
  <2>6. QED
    BY <2>1, <2>2, <2>3, <2>4, <2>5 DEF Next, Work, Consumes, Answers, Writes
<1>3. QED
  BY <1>1, <1>2

\* Only a rebalance leaves a message to two handlers.
LEMMA OvertakenGrows ==
  ASSUME [Next]_vars
  PROVE  UNCHANGED overtaken \/ \E p \in Partitions, c \in Instances : Rebalance(p, c)
<1>1. CASE \E h \in Handlers : Consumes(h)
  BY <1>1 DEF Consumes, Deliver, Retry, RouteToDlq, Resolve, consumerVars
<1>2. CASE \E h \in Handlers : Answers(h) \/ Writes(h) \/ CallFails(h)
  BY <1>2 DEF Answers, Writes, Check, Incr, TcpIncrement, SeedCounter, LookUp, Store, Overwrite,
              MarkDirty, Publish, CallFails, consumerVars
<1>3. CASE \/ \E p \in Partitions : Commit(p)
           \/ \E c \in Instances : Crash(c)
           \/ \E m \in Messages : OutboxPublish(m)
           \/ \E j \in Jobs : Job(j) \/ JobFails(j)
           \/ RedisLost \/ UNCHANGED vars
  BY <1>3 DEF Commit, Crash, OutboxPublish, Job, JobMembers, JobGet, JobSync, JobSrem, JobFails,
              RedisLost, vars, consumerVars
<1>4. QED
  BY <1>1, <1>2, <1>3 DEF Next, Work, Consumes, Answers, Writes

LEMMA OvertakenTypeStep ==
  ASSUME TypeOK, HandlersHaveRecords, [Next]_vars PROVE OvertakenTypeOK'
<1>1. \A h \in Handlers : Working(h) => Msg(h) \in Messages
  BY HandlerMessage DEF Working
<1>2. ASSUME NEW p \in Partitions, NEW c \in Instances, Rebalance(p, c) PROVE OvertakenTypeOK'
  BY <1>1, <1>2 DEF Rebalance, OvertakenTypeOK, TypeOK
<1>3. QED
  BY <1>2, OvertakenGrows DEF OvertakenTypeOK, TypeOK

LEMMA TypeStep ==
  TypeOK /\ HandlersHaveRecords /\ StoredWithOutboxRow /\ [Next]_vars
    => TypeOK' /\ HandlersHaveRecords'
<1> SUFFICES ASSUME TypeOK, HandlersHaveRecords, StoredWithOutboxRow, [Next]_vars
             PROVE  TypeOK' /\ HandlersHaveRecords'
  OBVIOUS
<1>1. ConsumerTypeOK' /\ HandlerTypeOK' /\ MessageTypeOK' /\ HandlersHaveRecords'
  BY ConsumerTypeStep, HandlerTypeStep, MessageTypeStep
<1>2. MarksTypeOK' /\ CounterTypeOK' /\ FaultTypeOK' /\ OvertakenTypeOK'
  BY TypeParts, MarksTypeStep, CounterTypeStep, FaultTypeStep, OvertakenTypeStep
<1>3. TypeOK'
  BY <1>1, <1>2, Zenon DEF TypeOK, ConsumerTypeOK, HandlerTypeOK, MessageTypeOK, MarksTypeOK,
                           CounterTypeOK, FaultTypeOK, OvertakenTypeOK
<1>4. QED
  BY <1>1, <1>3

-----------------------------------------------------------------------------
(* Messages.                                                               *)

\* What is stored or put aside stays so.
LEMMA NothingVanishes ==
  ASSUME TypeOK, HandlersHaveRecords, [Next]_vars
  PROVE  /\ \A m \in Messages : stored[m] # 0 => stored'[m] # 0
         /\ enqueued \subseteq enqueued' /\ dlq \cup dropped \subseteq dlq' \cup dropped'
<1>1. ASSUME NEW h \in Handlers, pc[h] \in {"insert", "update"},
             stored' = [stored EXCEPT ![Msg(h)] = offset[h]]
      PROVE  \A m \in Messages : stored[m] # 0 => stored'[m] # 0
  BY <1>1 DEF TypeOK, HandlersHaveRecords
<1>2. CASE \E h \in Handlers : Store(h) \/ Overwrite(h)
  BY <1>1, <1>2 DEF Store, Overwrite, Insert, failVars
<1>3. CASE \E h \in Handlers : CallFails(h)
  BY <1>1, <1>3 DEF CallFails, Insert, failVars, messageVars
<1>4. CASE \E h \in Handlers : Consumes(h)
  BY <1>4 DEF Consumes, Deliver, Retry, RouteToDlq, Resolve, messageVars, failVars
<1>5. CASE \E h \in Handlers : Answers(h) \/ MarkDirty(h) \/ Publish(h)
  BY <1>5 DEF Answers, Check, Incr, TcpIncrement, SeedCounter, LookUp, MarkDirty, Publish,
              messageVars, failVars
<1>6. CASE \/ \E p \in Partitions : Commit(p) \/ \E c \in Instances : Rebalance(p, c)
           \/ \E c \in Instances : Crash(c)
           \/ \E m \in Messages : OutboxPublish(m)
  BY <1>6 DEF Commit, Rebalance, Crash, OutboxPublish, messageVars, failVars
<1>7. CASE (\E j \in Jobs : Job(j) \/ JobFails(j)) \/ RedisLost \/ UNCHANGED vars
  BY <1>7 DEF Job, JobMembers, JobGet, JobSync, JobSrem, JobFails, RedisLost, vars, messageVars,
              failVars
<1>8. QED
  BY <1>2, <1>3, <1>4, <1>5, <1>6, <1>7 DEF Next, Work, Consumes, Answers

MessageInv ==
  /\ LostAreOvertaken /\ NumberingIsMissing
  /\ AnnouncerHasStored /\ AnnouncerIsAlone /\ CopiesAreOfStored
  /\ StoredWithOutboxRow /\ AnnouncedIsStored /\ AnnouncedAtMostOnce

\* The same without LostAreOvertaken, which has a lemma of its own.
RowInv ==
  /\ NumberingIsMissing
  /\ AnnouncerHasStored /\ AnnouncerIsAlone /\ CopiesAreOfStored
  /\ StoredWithOutboxRow /\ AnnouncedIsStored /\ AnnouncedAtMostOnce

LEMMA LostStep ==
  ASSUME TypeOK, HandlersHaveRecords, LostAreOvertaken, [Next]_vars
  PROVE  LostAreOvertaken'
<1>1. \A h \in Handlers : Working(h) => Msg(h) \in Messages /\ Part(h) \in Partitions
  BY HandlerMessage DEF Working
<1>2. \A m \in Messages : stored'[m] = 0 => stored[m] = 0
  BY NothingVanishes
<1>3. ASSUME UNCHANGED <<owner, overtaken>>,
             \A h \in Handlers : Working(h)' => Working(h) /\ rec'[h] = rec[h]
      PROVE  LostAreOvertaken'
  BY <1>1, <1>2, <1>3 DEF LostAreOvertaken, Msg, Part
<1>4. CASE \E h \in Handlers : Deliver(h)
  <2>1. PICK h \in Handlers : Deliver(h)
    BY <1>4
  <2>2. /\ UNCHANGED <<owner, overtaken, stored>> /\ owner[Part(h)] = h[1]
        /\ \A g \in Handlers \ {h} : pc'[g] = pc[g] /\ rec'[g] = rec[g]
    BY <2>1 DEF Deliver, Goto, TypeOK, consumerVars, messageVars
  <2>3. QED
    BY <1>1, <2>2 DEF LostAreOvertaken, Working, Msg, Part
<1>5. CASE \E h \in Handlers : Retry(h) \/ RouteToDlq(h) \/ Resolve(h)
  <2>1. PICK h \in Handlers : Retry(h) \/ RouteToDlq(h) \/ Resolve(h)
    BY <1>5
  <2>2. UNCHANGED <<owner, overtaken>>
    BY <2>1 DEF Retry, RouteToDlq, Resolve, consumerVars
  <2>3. \A g \in Handlers : Working(g)' => Working(g) /\ rec'[g] = rec[g]
    BY <2>1 DEF Retry, RouteToDlq, Resolve, Goto, Working, TypeOK
  <2>4. QED
    BY <1>3, <2>2, <2>3
<1>6. CASE \E h \in Handlers : Answers(h) \/ Writes(h) \/ CallFails(h)
  <2>1. PICK h \in Handlers : Answers(h) \/ Writes(h) \/ CallFails(h)
    BY <1>6
  <2>2. UNCHANGED <<owner, overtaken, rec>> /\ Working(h)
    BY <2>1 DEF Answers, Writes, Check, Incr, TcpIncrement, SeedCounter, LookUp, Store, Overwrite,
                MarkDirty, Publish, CallFails, consumerVars, Working
  <2>3. \A g \in Handlers \ {h} : pc'[g] = pc[g]
    <3>1. \E l \in Labels : pc' = [pc EXCEPT ![h] = l]
      BY <2>1 DEF Answers, Writes, Check, Exists, Incr, Numbered, TcpIncrement, SeedCounter, LookUp,
                  Store, Duplicate, Overwrite, MarkDirty, AfterStore, Publish, CallFails, Throws,
                  Goto, Labels
    <3>2. QED
      BY <3>1 DEF TypeOK
  <2>4. QED
    BY <1>3, <2>2, <2>3 DEF Working
<1>7. CASE \E c \in Instances : Crash(c)
  <2>1. PICK c \in Instances : Crash(c)
    BY <1>7
  <2>2. \A h \in Handlers : Working(h)' => Working(h) /\ rec'[h] = rec[h]
    BY <2>1 DEF Crash, Working
  <2>3. QED
    BY <1>3, <2>1, <2>2 DEF Crash
<1>8. CASE \E p \in Partitions, c \in Instances : Rebalance(p, c)
  <2>1. PICK p \in Partitions, c \in Instances : Rebalance(p, c)
    BY <1>8
  <2>2. /\ owner' = [owner EXCEPT ![p] = c] /\ UNCHANGED <<pc, rec, stored>>
        /\ overtaken' = overtaken \cup
             {Msg(h) : h \in {g \in Handlers : Part(g) = p /\ Working(g) /\ stored[Msg(g)] = 0}}
    BY <2>1 DEF Rebalance, handlerVars, messageVars
  <2>3. \A h \in Handlers : Part(h) # p => owner'[Part(h)] = owner[Part(h)]
    BY <2>2 DEF TypeOK, Handlers, Part
  <2>4. \A h \in Handlers : Msg(h)' = Msg(h) /\ (Working(h)' <=> Working(h))
    BY <2>2 DEF Msg, Part, Working
  <2>5. QED
    BY <2>2, <2>3, <2>4 DEF LostAreOvertaken, Part
<1>9. CASE \/ \E p \in Partitions : Commit(p)
           \/ \E m \in Messages : OutboxPublish(m)
           \/ \E j \in Jobs : Job(j) \/ JobFails(j)
           \/ RedisLost \/ UNCHANGED vars
  <2>1. UNCHANGED <<owner, overtaken, pc, rec>>
    BY <1>9 DEF Commit, OutboxPublish, Job, JobMembers, JobGet, JobSync, JobSrem, JobFails,
                RedisLost, vars, consumerVars, handlerVars
  <2>2. QED
    BY <1>3, <2>1 DEF Working
<1>10. QED
  BY <1>4, <1>5, <1>6, <1>7, <1>8, <1>9 DEF Next, Work, Answers, Writes

\* Two handlers at work on a message not stored yet: it is contested.
LEMMA SoleHandler ==
  ASSUME TypeOK, HandlersHaveRecords, LostAreOvertaken,
         NEW g \in Handlers, NEW h \in Handlers, Working(g), Working(h), Msg(g) = Msg(h),
         stored[Msg(h)] = 0, Msg(h) \in Accepted, ~ Contested(Msg(h))
  PROVE  g = h
<1>1. /\ Part(g) \in Partitions /\ Msg(g) \in Range(Log[Part(g)])
      /\ Part(h) \in Partitions /\ Msg(h) \in Range(Log[Part(h)])
  BY HandlerMessage DEF Working
<1>2. Part(g) = Part(h)
  BY <1>1, MessageStoreAssumption
<1>3. owner[Part(g)] = g[1] /\ owner[Part(h)] = h[1]
  BY DEF LostAreOvertaken, Contested
<1>4. QED
  BY <1>2, <1>3 DEF Handlers, Part

\* Nobody begins to announce, and who begins to number saw the message missing.
Calm ==
  \A h \in Handlers :
    /\ Announcing(h)' => Announcing(h) /\ rec'[h] = rec[h] /\ offset'[h] = offset[h]
    /\ Numbering(h)' => rec'[h] = rec[h] /\ (Numbering(h) \/ stored[Msg(h)] = 0)
    /\ pc'[h] = "lookup" => pc[h] = "lookup" \/ (Numbering(h) /\ ~ IsSystem(h))
    /\ pc'[h] = "publish" => pc[h] = "publish" \/ (pc[h] = "dirty" /\ ~ IsSystem(h))
    /\ pc'[h] = "update" => /\ rec'[h] = rec[h]
                            /\ pc[h] = "update" \/ (pc[h] = "lookup" /\ stored[Msg(h)] # 0)

LEMMA CalmStep ==
  ASSUME TypeOK, HandlersHaveRecords, RowInv, Calm, UNCHANGED messageVars,
         overtaken \subseteq overtaken'
  PROVE  RowInv'
<1> USE DEF messageVars
<1>1. \A h \in Handlers : Announcing(h)' => Announcing(h) /\ Msg(h)' = Msg(h)
  BY DEF Calm, Msg, Part
<1>2. \A m : Contested(m) => Contested(m)'
  BY DEF Contested
<1>3. NumberingIsMissing'
  <2>1. \A h \in Handlers :
          Numbering(h)' => Msg(h)' = Msg(h) /\ (Numbering(h) \/ stored[Msg(h)] = 0)
    BY DEF Calm, Msg, Part
  <2>2. \A h \in Handlers :
          Numbering(h)' /\ Msg(h)' \in Accepted => stored'[Msg(h)'] = 0 \/ Contested(Msg(h))'
    BY <1>2, <2>1 DEF RowInv, NumberingIsMissing, Contested
  <2>3. \A h \in Handlers : pc'[h] = "lookup" => Msg(h)' \in Accepted
    BY <2>1, HandlerMessage DEF Calm, Numbering, RowInv, NumberingIsMissing
  <2>4. \A h \in Handlers : pc'[h] = "publish" => Msg(h)' \in Accepted
    BY <1>1, HandlerMessage DEF Calm, Announcing, RowInv, NumberingIsMissing
  <2>5. \A h \in Handlers : pc'[h] = "update" =>
          Msg(h)' \in Accepted /\ stored'[Msg(h)'] # 0 /\ Contested(Msg(h))'
    <3>1. \A h \in Handlers : pc'[h] = "update" => Msg(h)' = Msg(h)
      BY DEF Calm, Msg, Part
    <3>2. \A h \in Handlers : pc'[h] = "update" =>
            Msg(h) \in Accepted /\ stored[Msg(h)] # 0 /\ Contested(Msg(h))
      BY DEF Calm, RowInv, NumberingIsMissing, Numbering
    <3>3. QED
      BY <1>2, <3>1, <3>2 DEF Contested
  <2>6. QED
    BY <2>2, <2>3, <2>4, <2>5 DEF NumberingIsMissing, Contested
<1>4. AnnouncerHasStored'
  BY <1>1, <1>2 DEF RowInv, AnnouncerHasStored, Calm, Contested
<1>5. AnnouncerIsAlone'
  BY <1>1, <1>2 DEF RowInv, AnnouncerIsAlone, Contested
<1>6. CopiesAreOfStored' /\ StoredWithOutboxRow' /\ AnnouncedIsStored' /\ AnnouncedAtMostOnce'
  BY DEF RowInv, CopiesAreOfStored, StoredWithOutboxRow, AnnouncedIsStored, AnnouncedAtMostOnce
<1>7. QED
  BY <1>3, <1>4, <1>5, <1>6 DEF RowInv

(* The row of a new message is inserted. *)
LEMMA InsertStep ==
  ASSUME TypeOK, HandlersHaveRecords, MessageInv, NEW h \in Handlers,
         pc[h] = "insert", stored[Msg(h)] = 0, Insert(h),
         pc' \in {[pc EXCEPT ![h] = "dirty"], [pc EXCEPT ![h] = "throw"]},
         UNCHANGED <<rec, offset, saved, copies, overtaken>>
  PROVE  RowInv'
<1>1. /\ Msg(h) \in Messages /\ Msg(h) \in Range(Log[Part(h)]) /\ Part(h) \in Partitions
      /\ Msg(h) \in Accepted <=> ~ IsSystem(h)
  BY HandlerMessage
<1>2. offset[h] \in Nat /\ offset[h] # 0
  BY DEF TypeOK, HandlersHaveRecords
<1>3. /\ stored \in [Messages -> Nat] /\ stored' = [stored EXCEPT ![Msg(h)] = offset[h]]
      /\ enqueued' = IF IsSystem(h) THEN enqueued \cup {Msg(h)} ELSE enqueued
  BY DEF TypeOK, Insert
<1>4. \A g \in Handlers : /\ Msg(g)' = Msg(g)
                          /\ Announcing(g)' => g = h \/ Announcing(g)
                          /\ ~ Announcing(h)
                          /\ Numbering(g)' => g # h /\ Numbering(g)
                          /\ pc'[g] \in {"lookup", "update", "publish"} => pc'[g] = pc[g]
  BY DEF TypeOK, Msg, Part, Announcing, Numbering
<1>13. \A m : Contested(m)' <=> Contested(m)
  BY DEF Contested
<1>5. \A g \in Handlers : Announcing(g) => Msg(g) \in Messages /\ Msg(g) # Msg(h)
  <2>1. ASSUME NEW g \in Handlers, Announcing(g)
        PROVE  Msg(g) \in Messages /\ Msg(g) # Msg(h)
    <3>1. Msg(g) \in Messages
      BY <2>1, HandlerMessage DEF Announcing
    <3>2. stored[Msg(g)] # 0
      BY <2>1 DEF MessageInv, AnnouncerHasStored
    <3>3. QED
      BY <3>1, <3>2
  <2>2. QED
    BY <2>1
<1>6. copies[Msg(h)] = 0
  BY <1>1 DEF MessageInv, CopiesAreOfStored
<1>14. NumberingIsMissing'
  <2>1. ASSUME NEW g \in Handlers, Numbering(g), g # h, Msg(g) \in Accepted
        PROVE  stored'[Msg(g)] = 0 \/ Contested(Msg(g))
    <3>1. Msg(g) \in Messages /\ Working(g) /\ Working(h)
      BY <2>1, HandlerMessage DEF Numbering, Working
    <3>2. CASE Msg(g) = Msg(h)
      BY <2>1, <3>1, <3>2, SoleHandler DEF MessageInv
    <3>3. CASE Msg(g) # Msg(h)
      BY <1>1, <1>3, <2>1, <3>1, <3>3 DEF MessageInv, NumberingIsMissing
    <3>4. QED
      BY <3>2, <3>3
  <2>2. \A g \in Handlers : pc[g] = "update" => stored'[Msg(g)] # 0
    <3>1. \A g \in Handlers : pc[g] = "update" => Msg(g) \in Messages /\ stored[Msg(g)] # 0
      BY HandlerMessage DEF MessageInv, NumberingIsMissing
    <3>2. QED
      BY <1>1, <1>3, <3>1
  <2>3. QED
    BY <1>4, <1>13, <2>1, <2>2 DEF MessageInv, NumberingIsMissing
<1>7. AnnouncerHasStored'
  BY <1>1, <1>2, <1>3, <1>4, <1>5, <1>13 DEF MessageInv, AnnouncerHasStored
<1>8. AnnouncerIsAlone'
  BY <1>4, <1>5, <1>6, <1>13 DEF MessageInv, AnnouncerIsAlone
<1>9. CopiesAreOfStored'
  BY <1>1, <1>2, <1>3 DEF MessageInv, CopiesAreOfStored
<1>10. StoredWithOutboxRow'
  <2>1. \A m \in enqueued' : stored'[m] # 0
    BY <1>1, <1>2, <1>3 DEF MessageInv, StoredWithOutboxRow, TypeOK
  <2>2. ASSUME NEW p \in System, NEW m \in Range(Log[p]), stored'[m] # 0
        PROVE  m \in enqueued'
    <3>1. m \in Messages /\ m \notin Accepted
      BY MessageStoreAssumption, AcceptedAreNotSystem
    <3>2. CASE m = Msg(h)
      BY <1>1, <1>3, <3>1, <3>2
    <3>3. CASE m # Msg(h)
      BY <1>3, <2>2, <3>1, <3>3 DEF MessageInv, StoredWithOutboxRow
    <3>4. QED
      BY <3>2, <3>3
  <2>3. QED
    BY <2>1, <2>2 DEF StoredWithOutboxRow
<1>11. AnnouncedIsStored'
  <2>1. \A e \in saved : e[1] \in Messages /\ e[1] # Msg(h)
    BY DEF MessageInv, AnnouncedIsStored, TypeOK
  <2>2. QED
    BY <1>3, <2>1 DEF MessageInv, AnnouncedIsStored
<1>12. QED
  BY <1>7, <1>8, <1>9, <1>10, <1>11, <1>14 DEF RowInv, MessageInv, AnnouncedAtMostOnce

(* save() finds the row and updates it: the message is contested. *)
LEMMA OverwriteStep ==
  ASSUME TypeOK, HandlersHaveRecords, RowInv, NEW h \in Handlers,
         pc[h] = "update", stored' = [stored EXCEPT ![Msg(h)] = offset[h]],
         pc' \in {[pc EXCEPT ![h] = "dirty"], [pc EXCEPT ![h] = "throw"]},
         UNCHANGED <<rec, offset, enqueued, saved, copies, overtaken>>
  PROVE  RowInv'
<1>1. Msg(h) \in Messages /\ Contested(Msg(h)) /\ offset[h] \in Nat \ {0}
  BY HandlerMessage DEF RowInv, NumberingIsMissing, TypeOK, HandlersHaveRecords
<1>2. \A m \in Messages : stored'[m] = IF m = Msg(h) THEN offset[h] ELSE stored[m]
  BY DEF TypeOK
<1>3. \A g \in Handlers : /\ Msg(g)' = Msg(g)
                          /\ Announcing(g)' => g = h \/ Announcing(g)
                          /\ Numbering(g)' => Numbering(g)
                          /\ pc'[g] \in {"lookup", "update", "publish"} => pc'[g] = pc[g]
  BY DEF TypeOK, Msg, Part, Announcing, Numbering
<1>4. \A m : Contested(m)' <=> Contested(m)
  BY DEF Contested
<1>5. \A g \in Handlers : pc[g] # "idle" => Msg(g) \in Messages
  BY HandlerMessage
<1>6. NumberingIsMissing'
  BY <1>1, <1>2, <1>3, <1>4, <1>5 DEF RowInv, NumberingIsMissing, Numbering
<1>7. AnnouncerHasStored' /\ AnnouncerIsAlone'
  BY <1>1, <1>2, <1>3, <1>4, <1>5 DEF RowInv, AnnouncerHasStored, AnnouncerIsAlone, Announcing
<1>8. CopiesAreOfStored'
  BY <1>1, <1>2 DEF RowInv, CopiesAreOfStored
<1>9. StoredWithOutboxRow'
  <2>1. \A p \in System : \A m \in Range(Log[p]) : m \in Messages /\ m # Msg(h)
    BY <1>1, MessageStoreAssumption, AcceptedAreNotSystem DEF Contested
  <2>2. \A m \in enqueued : m \in Messages
    BY DEF TypeOK
  <2>3. QED
    BY <1>1, <1>2, <2>1, <2>2 DEF RowInv, StoredWithOutboxRow
<1>10. AnnouncedIsStored'
  <2>1. \A e \in saved : e[1] \in Messages
    BY DEF TypeOK
  <2>2. QED
    BY <1>1, <1>2, <2>1 DEF RowInv, AnnouncedIsStored, Contested
<1>11. QED
  BY <1>6, <1>7, <1>8, <1>9, <1>10 DEF RowInv, AnnouncedAtMostOnce

(* A handler that stored a message announces it. *)
LEMMA PublishStep ==
  ASSUME TypeOK, HandlersHaveRecords, RowInv, NEW h \in Handlers,
         pc[h] = "publish", Announce(Msg(h), offset[h]),
         pc' \in {[pc EXCEPT ![h] = "done"], [pc EXCEPT ![h] = "throw"]},
         UNCHANGED <<rec, offset, stored, enqueued, overtaken>>
  PROVE  RowInv'
<1>1. Msg(h) \in Messages
  BY HandlerMessage
<1>2. \A g \in Handlers : /\ Msg(g)' = Msg(g)
                          /\ Announcing(g)' => g # h /\ Announcing(g)
                          /\ Numbering(g)' => Numbering(g)
                          /\ pc'[g] \in {"lookup", "update", "publish"} => pc'[g] = pc[g]
  BY DEF TypeOK, Msg, Part, Announcing, Numbering
<1>12. \A m : Contested(m)' <=> Contested(m)
  BY DEF Contested
<1>3. /\ Announcing(h) /\ stored[Msg(h)] # 0
      /\ stored[Msg(h)] = offset[h] \/ Contested(Msg(h))
  BY DEF RowInv, AnnouncerHasStored, Announcing
<1>4. /\ copies \in [Messages -> 0 .. 2]
      /\ copies' = [copies EXCEPT ![Msg(h)] = IF @ = 0 THEN 1 ELSE 2]
  BY DEF TypeOK, Announce
<1>5. Msg(h) \in Accepted => copies[Msg(h)] = 0 \/ Contested(Msg(h))
  BY <1>3 DEF RowInv, AnnouncerIsAlone
<1>13. NumberingIsMissing'
  BY <1>2, <1>12 DEF RowInv, NumberingIsMissing
<1>6. AnnouncerHasStored'
  BY <1>2, <1>12 DEF RowInv, AnnouncerHasStored
<1>7. AnnouncerIsAlone'
  <2>1. ASSUME NEW g \in Handlers, Announcing(g)', Msg(g)' \in Accepted
        PROVE  copies'[Msg(g)'] = 0 \/ Contested(Msg(g))
    <3>1. Announcing(g) /\ g # h /\ Msg(g)' = Msg(g)
      BY <1>2, <2>1
    <3>4. CASE Contested(Msg(g))
      BY <3>4
    <3>5. CASE ~ Contested(Msg(g))
      <4>1. Msg(g) # Msg(h) /\ copies[Msg(g)] = 0 /\ Msg(g) \in Messages
        BY <1>3, <2>1, <3>1, <3>5, HandlerMessage DEF RowInv, AnnouncerIsAlone, Announcing
      <4>2. QED
        BY <1>4, <3>1, <4>1
    <3>3. QED
      BY <3>4, <3>5
  <2>2. \A f, g \in Handlers :
          Announcing(f)' /\ Announcing(g)' /\ Msg(f)' = Msg(g)' => f = g \/ Contested(Msg(g))
    BY <1>2 DEF RowInv, AnnouncerIsAlone
  <2>3. QED
    BY <1>2, <1>12, <2>1, <2>2 DEF AnnouncerIsAlone
<1>8. CopiesAreOfStored'
  BY <1>1, <1>3, <1>4 DEF RowInv, CopiesAreOfStored
<1>9. AnnouncedIsStored'
  BY <1>3 DEF RowInv, AnnouncedIsStored, Announce, Contested
<1>10. AnnouncedAtMostOnce'
  BY <1>1, <1>4, <1>5 DEF RowInv, AnnouncedAtMostOnce, Accepted, Messages, Contested
<1>11. QED
  BY <1>6, <1>7, <1>8, <1>9, <1>10, <1>13 DEF RowInv, StoredWithOutboxRow

LEMMA OutboxPublishStep ==
  ASSUME TypeOK, HandlersHaveRecords, RowInv, NEW m \in Messages, OutboxPublish(m)
  PROVE  RowInv'
<1>1. m \in enqueued /\ m \notin Accepted /\ stored[m] # 0 /\ Announce(m, stored[m])
  BY DEF OutboxPublish, TypeOK, RowInv, StoredWithOutboxRow
<1>2. UNCHANGED <<pc, rec, offset, stored, enqueued, overtaken>>
  BY DEF OutboxPublish, handlerVars, consumerVars
<1>3. /\ \A h \in Handlers : /\ Msg(h)' = Msg(h) /\ (Announcing(h)' <=> Announcing(h))
                             /\ Numbering(h)' <=> Numbering(h)
      /\ \A n : Contested(n)' <=> Contested(n)
  BY <1>2 DEF Msg, Part, Announcing, Numbering, Contested
<1>4. /\ copies \in [Messages -> 0 .. 2]
      /\ copies' = [copies EXCEPT ![m] = IF @ = 0 THEN 1 ELSE 2]
  BY <1>1 DEF TypeOK, Announce
<1>5. \A n \in Accepted : copies'[n] = copies[n]
  BY <1>1, <1>4 DEF Accepted, Messages
<1>6. NumberingIsMissing' /\ AnnouncerHasStored'
  BY <1>2, <1>3 DEF RowInv, NumberingIsMissing, AnnouncerHasStored
<1>10. AnnouncerIsAlone'
  BY <1>3, <1>5 DEF RowInv, AnnouncerIsAlone
<1>7. CopiesAreOfStored'
  BY <1>1, <1>2, <1>4 DEF RowInv, CopiesAreOfStored
<1>8. AnnouncedIsStored' /\ AnnouncedAtMostOnce'
  BY <1>1, <1>2, <1>5 DEF RowInv, AnnouncedIsStored, AnnouncedAtMostOnce, Announce
<1>9. QED
  BY <1>2, <1>6, <1>7, <1>8, <1>10 DEF RowInv, StoredWithOutboxRow

LEMMA RowStep ==
  ASSUME TypeOK, HandlersHaveRecords, MessageInv, [Next]_vars
  PROVE  RowInv'
<1>0. RowInv
  BY DEF MessageInv, RowInv
<1>12. overtaken \subseteq overtaken'
  BY OvertakenGrows DEF Rebalance
<1>1. CASE \E h \in Handlers : Consumes(h)
  <2>1. PICK h \in Handlers : Consumes(h)
    BY <1>1
  <2>2. UNCHANGED messageVars
    BY <2>1 DEF Consumes, Deliver, Retry, RouteToDlq, Resolve
  <2>3. Calm
    BY <2>1 DEF Consumes, Deliver, Retry, RouteToDlq, Resolve, Goto, Calm, Announcing, Numbering,
                TypeOK
  <2>4. QED
    BY <1>0, <1>12, <2>2, <2>3, CalmStep
<1>2. CASE \E h \in Handlers : Answers(h)
  <2>1. PICK h \in Handlers : Answers(h)
    BY <1>2
  <2>2. UNCHANGED messageVars
    BY <2>1 DEF Answers, Check, Incr, TcpIncrement, SeedCounter, LookUp
  <2>3. Calm
    <3> USE DEF Goto, Calm, Announcing, Numbering, TypeOK
    <3>1. CASE Check(h)
      BY <3>1 DEF Check, Exists
    <3>2. CASE Incr(h)
      <4>1. /\ pc[h] = "incr" /\ UNCHANGED rec
            /\ \A g \in Handlers \ {h} : pc'[g] = pc[g] /\ offset'[g] = offset[g]
        BY <3>2 DEF Incr, Numbered
      <4>2. /\ pc'[h] \in {"tcp", "lookup", "insert"} /\ (pc'[h] = "lookup" => ~ IsSystem(h))
        BY <3>2 DEF Incr, Numbered
      <4>3. QED
        BY <4>1, <4>2
    <3>3. CASE TcpIncrement(h) \/ LookUp(h)
      BY <3>3 DEF TcpIncrement, LookUp
    <3>4. CASE SeedCounter(h)
      BY <3>4 DEF SeedCounter, Numbered
    <3>5. QED
      BY <2>1, <3>1, <3>2, <3>3, <3>4 DEF Answers
  <2>4. QED
    BY <1>0, <1>12, <2>2, <2>3, CalmStep
<1>3. CASE \E h \in Handlers : Store(h)
  <2>1. PICK h \in Handlers : Store(h)
    BY <1>3
  <2>2. CASE stored[Msg(h)] = 0 /\ Insert(h) /\ Goto(h, "dirty")
    BY <2>1, <2>2, InsertStep DEF Store, Goto, consumerVars
  <2>3. CASE UNCHANGED <<stored, enqueued>> /\ (Goto(h, "throw") \/ Goto(h, "done"))
    <3>1. UNCHANGED messageVars /\ UNCHANGED <<rec, offset>>
      BY <2>1, <2>3 DEF Store, messageVars
    <3>2. Calm
      BY <2>3, <3>1 DEF Goto, Calm, Announcing, Numbering, TypeOK
    <3>3. QED
      BY <1>0, <1>12, <3>1, <3>2, CalmStep
  <2>4. QED
    BY <2>1, <2>2, <2>3 DEF Store, Duplicate
<1>11. CASE \E h \in Handlers : Overwrite(h)
  BY <1>0, <1>11, OverwriteStep DEF Overwrite, Goto, consumerVars
<1>4. CASE \E h \in Handlers : MarkDirty(h)
  <2>1. PICK h \in Handlers : MarkDirty(h)
    BY <1>4
  <2>2. UNCHANGED messageVars
    BY <2>1 DEF MarkDirty
  <2>3. Calm
    BY <2>1 DEF MarkDirty, AfterStore, Goto, Calm, Announcing, Numbering, TypeOK
  <2>4. QED
    BY <1>0, <1>12, <2>2, <2>3, CalmStep
<1>5. CASE \E h \in Handlers : Publish(h)
  BY <1>0, <1>5, PublishStep DEF Publish, Goto, consumerVars
<1>6. CASE \E h \in Handlers : CallFails(h)
  <2>1. PICK h \in Handlers : CallFails(h)
    BY <1>6
  <2>2. pc' = [pc EXCEPT ![h] = "throw"] /\ UNCHANGED <<rec, offset, overtaken>>
    BY <2>1 DEF CallFails, Throws, Goto, consumerVars
  <2>3. CASE UNCHANGED messageVars
    <3>1. Calm
      BY <2>2 DEF Calm, Announcing, Numbering, TypeOK
    <3>2. QED
      BY <1>0, <1>12, <2>3, <3>1, CalmStep
  <2>4. CASE pc[h] = "insert" /\ stored[Msg(h)] = 0 /\ Insert(h) /\ UNCHANGED <<saved, copies>>
    BY <2>2, <2>4, InsertStep
  <2>7. CASE /\ pc[h] = "update" /\ stored' = [stored EXCEPT ![Msg(h)] = offset[h]]
             /\ UNCHANGED <<enqueued, saved, copies>>
    BY <1>0, <2>2, <2>7, OverwriteStep
  <2>5. CASE pc[h] = "publish" /\ Announce(Msg(h), offset[h]) /\ UNCHANGED <<stored, enqueued>>
    BY <1>0, <2>2, <2>5, PublishStep
  <2>6. QED
    BY <2>1, <2>3, <2>4, <2>5, <2>7 DEF CallFails
<1>7. CASE \E m \in Messages : OutboxPublish(m)
  BY <1>0, <1>7, OutboxPublishStep
<1>8. CASE \E c \in Instances : Crash(c)
  <2>1. Calm
    BY <1>8 DEF Crash, Calm, Announcing, Numbering
  <2>2. QED
    BY <1>0, <1>8, <1>12, <2>1, CalmStep DEF Crash
<1>9. CASE \/ \E p \in Partitions : Commit(p) \/ \E c \in Instances : Rebalance(p, c)
           \/ \E j \in Jobs : Job(j) \/ JobFails(j)
           \/ RedisLost \/ UNCHANGED vars
  <2>1. UNCHANGED messageVars /\ UNCHANGED handlerVars
    BY <1>9 DEF Commit, Rebalance, Job, JobMembers, JobGet, JobSync, JobSrem, JobFails,
                RedisLost, vars
  <2>2. Calm
    <3>1. \A h \in Handlers : pc[h] = "update" => stored[Msg(h)] # 0
      BY <1>0 DEF RowInv, NumberingIsMissing
    <3>2. QED
      BY <2>1, <3>1 DEF Calm, Announcing, Numbering, handlerVars
  <2>3. QED
    BY <1>0, <1>12, <2>1, <2>2, CalmStep
<1>10. QED
  BY <1>1, <1>2, <1>3, <1>4, <1>5, <1>6, <1>7, <1>8, <1>9, <1>11
     DEF Next, Work, Consumes, Answers

LEMMA MessageStep ==
  TypeOK /\ HandlersHaveRecords /\ MessageInv /\ [Next]_vars => MessageInv'
BY RowStep, LostStep DEF MessageInv, RowInv

-----------------------------------------------------------------------------
(* Records.                                                                *)

LEMMA AccountedStays ==
  ASSUME TypeOK, HandlersHaveRecords, MessageInv, [Next]_vars,
         NEW p \in Partitions, NEW i \in 1 .. Len(Log[p]), Accounted(p, i)
  PROVE  Accounted(p, i)'
BY LogIsSequence, NothingVanishes DEF Accounted

\* A stored message needs nothing more.
LEMMA StoredIsAccounted ==
  ASSUME TypeOK, HandlersHaveRecords, MessageInv, NEW h \in Handlers, pc[h] # "idle",
         stored[Msg(h)] # 0
  PROVE  Accounted(Part(h), rec[h])
BY HandlerMessage DEF Accounted, Msg, MessageInv, StoredWithOutboxRow

LEMMA RoutedIsAccounted ==
  ASSUME NEW h \in Handlers, RouteToDlq(h)
  PROVE  Accounted(Part(h), rec[h])'
BY DEF RouteToDlq, Accounted, Msg, Part

\* A handler comes to its end with its record accounted for.
LEMMA FinishedStep ==
  ASSUME TypeOK, HandlersHaveRecords, MessageInv, [Next]_vars,
         NEW h \in Handlers, pc[h] # "done", pc'[h] = "done"
  PROVE  Accounted(Part(h), rec[h])' /\ rec'[h] = rec[h]
<1>1. ASSUME NEW g \in Handlers, Deliver(g) \/ Retry(g) \/ Resolve(g) PROVE FALSE
  BY <1>1 DEF Deliver, Retry, Resolve, Goto, TypeOK
<1>2. ASSUME NEW g \in Handlers,
             \/ Incr(g) \/ TcpIncrement(g) \/ SeedCounter(g) \/ LookUp(g) \/ Overwrite(g)
             \/ CallFails(g)
      PROVE  FALSE
  <2>1. \E l \in Labels \ {"done"} : pc' = [pc EXCEPT ![g] = l]
    BY <1>2 DEF Incr, Numbered, TcpIncrement, SeedCounter, LookUp, Overwrite, CallFails, Throws,
                Goto, Labels
  <2>2. QED
    BY <2>1 DEF TypeOK
<1>3. ASSUME NEW g \in Handlers, RouteToDlq(g)
      PROVE  Accounted(Part(h), rec[h])' /\ rec'[h] = rec[h]
  <2>1. g = h /\ UNCHANGED rec
    BY <1>3 DEF RouteToDlq, Goto, TypeOK
  <2>2. QED
    BY <1>3, <2>1, RoutedIsAccounted
<1>4. ASSUME NEW g \in Handlers, Check(g) \/ Store(g) \/ MarkDirty(g) \/ Publish(g)
      PROVE  Accounted(Part(h), rec[h])' /\ rec'[h] = rec[h]
  <2>1. g = h /\ UNCHANGED rec /\ pc[h] # "idle"
    BY <1>4 DEF Check, Exists, Store, Duplicate, MarkDirty, AfterStore, Publish, Goto, TypeOK
  <2>2. stored[Msg(h)] # 0
    <3>1. CASE Check(h) \/ Store(h)
      BY <3>1 DEF Check, Exists, Store, Duplicate, Goto, TypeOK
    <3>2. CASE MarkDirty(h) \/ Publish(h)
      BY <3>2 DEF MarkDirty, Publish, MessageInv, AnnouncerHasStored, Announcing
    <3>3. QED
      BY <1>4, <2>1, <3>1, <3>2
  <2>3. /\ Part(h) \in Partitions /\ rec[h] \in 1 .. Len(Log[Part(h)])
        /\ Accounted(Part(h), rec[h])
    BY <2>1, <2>2, HandlerMessage, StoredIsAccounted
  <2>4. Accounted(Part(h), rec[h])'
    <3>1. Accounted(Part(h), rec[h])' <=> \E i \in {rec[h]} : Accounted(Part(h), i)'
      BY <2>1 DEF Accounted, Part
    <3>2. QED
      BY <2>3, <3>1, AccountedStays
  <2>5. QED
    BY <2>1, <2>4
<1>5. ASSUME NEW c \in Instances, Crash(c) PROVE FALSE
  BY <1>5 DEF Crash, TypeOK
<1>6. ASSUME UNCHANGED handlerVars PROVE FALSE
  BY <1>6 DEF handlerVars
<1>7. CASE \E p \in Partitions : Commit(p) \/ \E c \in Instances : Rebalance(p, c)
  BY <1>6, <1>7 DEF Commit, Rebalance
<1>8. CASE \/ \E m \in Messages : OutboxPublish(m)
           \/ \E j \in Jobs : Job(j) \/ JobFails(j)
           \/ RedisLost \/ UNCHANGED vars
  BY <1>6, <1>8 DEF OutboxPublish, Job, JobMembers, JobGet, JobSync, JobSrem, JobFails,
                    RedisLost, vars
<1>9. QED
  BY <1>1, <1>2, <1>3, <1>4, <1>5, <1>7, <1>8 DEF Next, Work

\* A handler that is done leaves its record only for another label.
LEMMA DoneKeepsRecord ==
  ASSUME TypeOK, [Next]_vars, NEW h \in Handlers, pc[h] = "done", pc'[h] = "done"
  PROVE  rec'[h] = rec[h]
<1>1. CASE \E g \in Handlers : Consumes(g)
  BY <1>1 DEF Consumes, Deliver, Retry, RouteToDlq, Resolve, Goto, TypeOK
<1>2. CASE \E g \in Handlers : Answers(g) \/ Writes(g) \/ CallFails(g)
  BY <1>2 DEF Answers, Writes, Check, Incr, TcpIncrement, SeedCounter, LookUp, Store, Overwrite,
              MarkDirty, Publish, CallFails
<1>3. CASE \E c \in Instances : Crash(c)
  BY <1>3 DEF Crash
<1>4. CASE \/ \E p \in Partitions : Commit(p) \/ \E c \in Instances : Rebalance(p, c)
           \/ \E m \in Messages : OutboxPublish(m)
           \/ \E j \in Jobs : Job(j) \/ JobFails(j)
           \/ RedisLost \/ UNCHANGED vars
  BY <1>4 DEF Commit, Rebalance, OutboxPublish, Job, JobMembers, JobGet, JobSync, JobSrem,
              JobFails, RedisLost, vars, handlerVars
<1>5. QED
  BY <1>1, <1>2, <1>3, <1>4 DEF Next, Work, Consumes, Answers, Writes

LEMMA DoneStep ==
  ASSUME TypeOK, HandlersHaveRecords, MessageInv, DoneIsAccounted, [Next]_vars
  PROVE  DoneIsAccounted'
<1> SUFFICES ASSUME NEW h \in Handlers, pc'[h] = "done" PROVE Accounted(Part(h), rec[h])'
  BY DEF DoneIsAccounted
<1>1. CASE pc[h] # "done"
  BY <1>1, FinishedStep
<1>2. CASE pc[h] = "done"
  <2>1. rec'[h] = rec[h]
    BY <1>2, DoneKeepsRecord
  <2>2. Part(h) \in Partitions /\ rec[h] \in 1 .. Len(Log[Part(h)])
    BY <1>2, HandlerMessage
  <2>3. Accounted(Part(h), rec[h])
    BY <1>2 DEF DoneIsAccounted
  <2>4. Accounted(Part(h), rec[h])' <=> \E i \in {rec[h]} : Accounted(Part(h), i)'
    BY <2>1 DEF Accounted, Part
  <2>5. QED
    BY <2>2, <2>3, <2>4, AccountedStays
<1>3. QED
  BY <1>1, <1>2

\* A consumer moves on only past the record of a handler that is done.
LEMMA NextMoves ==
  ASSUME TypeOK, [Next]_vars, NEW p \in Partitions
  PROVE  \/ next'[p] <= next[p]
         \/ \E h \in Handlers : /\ pc[h] = "done" /\ Part(h) = p /\ rec[h] = next[p]
                                /\ next'[p] = next[p] + 1
<1>1. next[p] \in Nat /\ committed[p] \in Nat /\ committed[p] <= next[p]
  BY LogIsSequence DEF TypeOK
<1>2. CASE \E h \in Handlers : Resolve(h)
  BY <1>1, <1>2 DEF Resolve, Advance, TypeOK
<1>3. CASE \E q \in Partitions, c \in Instances : Rebalance(q, c)
  BY <1>1, <1>3 DEF Rebalance, TypeOK
<1>4. CASE \E c \in Instances : Crash(c)
  BY <1>1, <1>4 DEF Crash
<1>5. CASE \E h \in Handlers : Deliver(h) \/ Retry(h) \/ RouteToDlq(h)
  BY <1>1, <1>5 DEF Deliver, Retry, RouteToDlq, consumerVars
<1>6. CASE \E h \in Handlers : Answers(h) \/ Writes(h) \/ CallFails(h)
  BY <1>1, <1>6 DEF Answers, Writes, Check, Incr, TcpIncrement, SeedCounter, LookUp, Store, Overwrite,
                    MarkDirty,
                    Publish, CallFails, consumerVars
<1>7. CASE \/ \E q \in Partitions : Commit(q)
           \/ \E m \in Messages : OutboxPublish(m)
           \/ \E j \in Jobs : Job(j) \/ JobFails(j)
           \/ RedisLost \/ UNCHANGED vars
  BY <1>1, <1>7 DEF Commit, OutboxPublish, Job, JobMembers, JobGet, JobSync, JobSrem, JobFails,
                    RedisLost, vars, consumerVars
<1>8. QED
  BY <1>2, <1>3, <1>4, <1>5, <1>6, <1>7 DEF Next, Work, Answers, Writes

LEMMA PassedAreAccounted ==
  PassedIsAccountedFor <=> \A p \in Partitions : \A i \in 1 .. next[p] - 1 : Accounted(p, i)
BY DEF PassedIsAccountedFor, Accounted

LEMMA PassedStep ==
  ASSUME TypeOK, HandlersHaveRecords, MessageInv, DoneIsAccounted, PassedIsAccountedFor,
         [Next]_vars
  PROVE  PassedIsAccountedFor'
<1>1. SUFFICES ASSUME NEW p \in Partitions, NEW i \in 1 .. next'[p] - 1
               PROVE  Accounted(p, i)'
  BY DEF PassedIsAccountedFor, Accounted
<1>2. next[p] \in 1 .. Len(Log[p]) + 1 /\ Len(Log[p]) \in Nat /\ next'[p] \in Nat
  BY ConsumerTypeStep, LogIsSequence DEF TypeOK, ConsumerTypeOK
<1>3. CASE i < next[p]
  <2>1. Accounted(p, i) /\ i \in 1 .. Len(Log[p])
    BY <1>2, <1>3, PassedAreAccounted
  <2>2. QED
    BY <2>1, AccountedStays
<1>4. CASE i >= next[p]
  <2>1. PICK h \in Handlers : pc[h] = "done" /\ Part(h) = p /\ rec[h] = next[p] /\ i = next[p]
    BY <1>2, <1>4, NextMoves
  <2>2. Accounted(p, i) /\ i \in 1 .. Len(Log[p])
    BY <2>1, HandlerMessage DEF DoneIsAccounted
  <2>3. QED
    BY <2>2, AccountedStays
<1>5. QED
  BY <1>2, <1>3, <1>4

-----------------------------------------------------------------------------
LEMMA StoreInvariant == Spec => []StoreInv
<1>1. StoreInv /\ [Next]_vars => StoreInv'
  <2> SUFFICES ASSUME StoreInv, [Next]_vars PROVE StoreInv'
    OBVIOUS
  <2>1. MessageInv
    BY DEF StoreInv, MessageInv
  <2>2. TypeOK' /\ HandlersHaveRecords'
    BY TypeStep DEF StoreInv
  <2>3. MessageInv'
    BY <2>1, MessageStep DEF StoreInv
  <2>4. DoneIsAccounted' /\ PassedIsAccountedFor'
    BY <2>1, DoneStep, PassedStep DEF StoreInv
  <2>5. QED
    BY <2>2, <2>3, <2>4 DEF StoreInv, MessageInv
<1>2. QED
  BY StoreInitial, <1>1, PTL DEF Spec

(* The types of the store of messages: owners, positions, handlers, rows,  *)
(* events and the sync job stay within what the code can hold.             *)
THEOREM StoreTypeCorrect == Spec => []TypeOK
<1>1. StoreInv => TypeOK
  BY DEF StoreInv
<1>2. QED
  BY <1>1, StoreInvariant, PTL

(* Whatever is announced is stored at the announced offset, for any number *)
(* of replicas, crashes, retries and redeliveries, except an accepted      *)
(* message whose partition was moved before it was stored                  *)
(* (handleMessageAccepted, createSystemMessage).                           *)
THEOREM StoreAnnouncedIsStored == Spec => []AnnouncedIsStored
<1>1. StoreInv => AnnouncedIsStored
  BY DEF StoreInv
<1>2. QED
  BY <1>1, StoreInvariant, PTL

(* All deliveries of an accepted message together announce it at most      *)
(* once, with the same exception: a handler that finds the message stored  *)
(* leaves it alone, and otherwise it is the only one at work on it.        *)
THEOREM StoreAnnouncedAtMostOnce == Spec => []AnnouncedAtMostOnce
<1>1. StoreInv => AnnouncedAtMostOnce
  BY DEF StoreInv
<1>2. QED
  BY <1>1, StoreInvariant, PTL

(* No record is passed without a trace: it is stored, in the dead-letter   *)
(* topic or logged (executeWithDlq, routeToDlq).                           *)
THEOREM StorePassedIsAccountedFor == Spec => []PassedIsAccountedFor
<1>1. StoreInv => PassedIsAccountedFor
  BY DEF StoreInv
<1>2. QED
  BY <1>1, StoreInvariant, PTL
-----------------------------------------------------------------------------
(* One replica reads the only partition, and Redis keeps its keys.         *)

OneConsumer ==
  /\ \A c, d \in Instances : c = d
  /\ \A p, q \in Partitions : p = q

\* The record a handler works on is the next of its partition...
RecordIsNext == \A h \in Handlers : pc[h] # "idle" => rec[h] = next[Part(h)]

\* ...so that what is stored has all records before it stored or put aside.
StoredAfterAccounted ==
  \A p \in Partitions : \A i, j \in DOMAIN Log[p] :
    i < j /\ stored[Log[p][j]] # 0
      => stored[Log[p][i]] # 0 \/ Log[p][i] \in dlq \cup dropped

\* The counter, once it is cached, is the greatest number there is; a handler
\* that asks conversation-service does so because there is none.
CounterIsGreatest ==
  /\ CounterCoversDb
  /\ \A h \in Handlers : /\ pc[h] \in {"tcp", "seed"} => counter = 0
                         /\ pc[h] = "seed" => offset[h] = dbMax
  /\ \A j \in Jobs : jobVal[j] <= counter
  /\ \A m \in Messages : stored[m] <= counter

\* A handler about to insert has a number above all that are stored.
NumberIsNew ==
  \A h \in Handlers : pc[h] \in {"lookup", "insert"} =>
    offset[h] <= counter /\ \A m \in Messages : stored[m] < offset[h]

RedisKept == losses = 0 => CounterIsGreatest /\ NumberIsNew

NothingOvertaken == overtaken = {}

SoleInv ==
  RecordIsNext /\ NothingOvertaken /\ StoredAfterAccounted /\ RedisKept /\ OffsetsFollowLog

LEMMA OneHandler ==
  ASSUME OneConsumer
  PROVE  \A g, h \in Handlers : g = h /\ g[1] \in Instances /\ Part(g) \in Partitions
BY DEF OneConsumer, Handlers, Part

LEMMA RecordIsNextStep ==
  ASSUME OneConsumer, TypeOK, RecordIsNext, [Next]_vars
  PROVE  RecordIsNext'
<1> USE OneHandler DEF TypeOK, RecordIsNext
<1>1. CASE \E h \in Handlers : Deliver(h) \/ Retry(h) \/ RouteToDlq(h)
  BY <1>1 DEF Deliver, Retry, RouteToDlq, Goto, consumerVars
<1>2. CASE \E h \in Handlers : Resolve(h)
  BY <1>2 DEF Resolve, Goto
<1>3. CASE \E h \in Handlers : Answers(h) \/ Writes(h)
  BY <1>3 DEF Answers, Writes, Check, Exists, Incr, Numbered, TcpIncrement, SeedCounter, LookUp,
              Store, Duplicate, Overwrite, MarkDirty, AfterStore, Publish, Goto, consumerVars
<1>4. CASE \E h \in Handlers : CallFails(h)
  BY <1>4 DEF CallFails, Throws, Goto, consumerVars
<1>5. CASE \E c \in Instances : Crash(c)
  BY <1>5 DEF Crash, OneConsumer
<1>6. CASE \E p \in Partitions : Commit(p) \/ \E c \in Instances : Rebalance(p, c)
  BY <1>6 DEF Commit, Rebalance, OneConsumer, handlerVars
<1>7. CASE \/ \E m \in Messages : OutboxPublish(m)
           \/ \E j \in Jobs : Job(j) \/ JobFails(j)
           \/ RedisLost \/ UNCHANGED vars
  BY <1>7 DEF OutboxPublish, Job, JobMembers, JobGet, JobSync, JobSrem, JobFails, RedisLost,
              vars, consumerVars, handlerVars
<1>8. QED
  BY <1>1, <1>2, <1>3, <1>4, <1>5, <1>6, <1>7 DEF Next, Work, Answers, Writes

\* No partition moves.
LEMMA NothingOvertakenStep ==
  ASSUME OneConsumer, TypeOK, NothingOvertaken, [Next]_vars PROVE NothingOvertaken'
BY OvertakenGrows DEF OneConsumer, TypeOK, NothingOvertaken, Rebalance

\* A row appears by the insert of a handler, with the number it was given.
LEMMA RowsAppear ==
  ASSUME TypeOK, NumberingIsMissing, NothingOvertaken, [Next]_vars
  PROVE  \/ UNCHANGED stored
         \/ \E h \in Handlers :
              /\ pc[h] = "insert" /\ stored[Msg(h)] = 0
              /\ stored' = [stored EXCEPT ![Msg(h)] = offset[h]]
<1>0. \A h \in Handlers : pc[h] # "update"
  BY DEF NumberingIsMissing, NothingOvertaken, Contested
<1>1. CASE \E h \in Handlers : Store(h) \/ Overwrite(h)
  BY <1>0, <1>1 DEF Store, Overwrite, Insert
<1>2. CASE \E h \in Handlers : CallFails(h)
  BY <1>0, <1>2 DEF CallFails, Insert, messageVars
<1>3. CASE \E h \in Handlers : Consumes(h) \/ Answers(h) \/ MarkDirty(h) \/ Publish(h)
  BY <1>3 DEF Consumes, Deliver, Retry, RouteToDlq, Resolve, Answers, Check, Incr, TcpIncrement,
              SeedCounter, LookUp, MarkDirty, Publish, messageVars
<1>4. CASE \/ \E p \in Partitions : Commit(p) \/ \E c \in Instances : Rebalance(p, c)
           \/ \E c \in Instances : Crash(c)
           \/ \E m \in Messages : OutboxPublish(m)
  BY <1>4 DEF Commit, Rebalance, Crash, OutboxPublish, messageVars
<1>5. CASE (\E j \in Jobs : Job(j) \/ JobFails(j)) \/ RedisLost \/ UNCHANGED vars
  BY <1>5 DEF Job, JobMembers, JobGet, JobSync, JobSrem, JobFails, RedisLost, vars, messageVars
<1>6. QED
  BY <1>1, <1>2, <1>3, <1>4, <1>5 DEF Next, Work, Consumes, Answers

\* The record of the handler that inserts is the only one with its message.
LEMMA RecordOfMessage ==
  ASSUME OneConsumer, TypeOK, HandlersHaveRecords, RecordIsNext,
         NEW h \in Handlers, pc[h] # "idle",
         NEW p \in Partitions, NEW i \in DOMAIN Log[p], Log[p][i] = Msg(h)
  PROVE  i = next[p]
<1>1. Part(h) = p
  BY OneHandler DEF OneConsumer
<1>2. rec[h] \in DOMAIN Log[p] /\ Msg(h) = Log[p][rec[h]]
  BY <1>1, HandlerMessage, LogIsSequence DEF Msg
<1>3. i = rec[h]
  BY <1>2, MessageStoreAssumption DEF IsInjective
<1>4. QED
  BY <1>1, <1>3 DEF RecordIsNext

LEMMA StoredAfterAccountedStep ==
  ASSUME OneConsumer, StoreInv, RecordIsNext, NothingOvertaken, StoredAfterAccounted, [Next]_vars
  PROVE  StoredAfterAccounted'
<1> SUFFICES ASSUME NEW p \in Partitions, NEW i \in DOMAIN Log[p], NEW j \in DOMAIN Log[p],
                    i < j, stored'[Log[p][j]] # 0
             PROVE  stored'[Log[p][i]] # 0 \/ Log[p][i] \in dlq' \cup dropped'
  BY DEF StoredAfterAccounted
<1>1. MessageInv /\ Log[p][i] \in Messages /\ Log[p][j] \in Messages
  BY LogIsSequence DEF StoreInv, MessageInv
<1>2. CASE stored[Log[p][j]] # 0
  BY <1>1, <1>2, NothingVanishes DEF StoreInv, StoredAfterAccounted
<1>3. CASE stored[Log[p][j]] = 0
  <2>1. PICK h \in Handlers : pc[h] = "insert" /\ Msg(h) = Log[p][j]
    BY <1>1, <1>3, RowsAppear DEF StoreInv, TypeOK
  <2>2. j = next[p]
    BY <2>1, RecordOfMessage DEF StoreInv
  <2>3. i \in 1 .. next[p] - 1
    BY <2>2, LogIsSequence
  <2>4. stored[Log[p][i]] # 0 \/ Log[p][i] \in dlq \cup dropped
    BY <2>3 DEF StoreInv, PassedIsAccountedFor
  <2>5. QED
    BY <1>1, <2>4, NothingVanishes DEF StoreInv
<1>4. QED
  BY <1>2, <1>3

\* A Redis that has lost its keys is counted.
LEMMA LossesGrow ==
  ASSUME TypeOK, [Next]_vars, losses' = 0
  PROVE  losses = 0 /\ ~ RedisLost
<1>1. ~ RedisLost
  BY DEF RedisLost, TypeOK
<1>2. CASE \E h \in Handlers : Work(h)
  BY <1>1, <1>2 DEF Work, Deliver, Retry, RouteToDlq, Resolve, Check, Incr, TcpIncrement,
              SeedCounter, LookUp, Store, Overwrite, MarkDirty, Publish
<1>3. CASE (\E h \in Handlers : CallFails(h)) \/ UNCHANGED vars
  BY <1>1, <1>3 DEF CallFails, vars
<1>4. CASE \/ \E p \in Partitions : Commit(p) \/ \E c \in Instances : Rebalance(p, c)
           \/ \E c \in Instances : Crash(c)
           \/ \E m \in Messages : OutboxPublish(m)
           \/ \E j \in Jobs : Job(j) \/ JobFails(j)
  BY <1>1, <1>4 DEF Commit, Rebalance, Crash, OutboxPublish, Job, JobMembers, JobGet, JobSync,
              JobSrem, JobFails
<1>5. QED
  BY <1>1, <1>2, <1>3, <1>4 DEF Next

LEMMA OrderStep ==
  ASSUME OneConsumer, StoreInv, SoleInv, [Next]_vars
  PROVE  OffsetsFollowLog'
<1> SUFFICES ASSUME losses' = 0,
                    NEW p \in Partitions, NEW i \in DOMAIN Log[p], NEW j \in DOMAIN Log[p],
                    i < j, Log[p][i] \notin dlq' \cup dropped',
                    stored'[Log[p][i]] # 0, stored'[Log[p][j]] # 0
             PROVE  stored'[Log[p][i]] < stored'[Log[p][j]]
  BY DEF OffsetsFollowLog
<1>1. /\ MessageInv /\ Log[p][i] \in Messages /\ Log[p][j] \in Messages
      /\ Log[p][i] # Log[p][j]
  BY LogIsSequence, MessageStoreAssumption DEF StoreInv, MessageInv, IsInjective
<1>2. losses = 0
  BY LossesGrow DEF StoreInv
<1>3. Log[p][i] \notin dlq \cup dropped
  BY <1>1, NothingVanishes DEF StoreInv
<1>4. CASE UNCHANGED stored
  BY <1>2, <1>3, <1>4 DEF SoleInv, OffsetsFollowLog
<1>5. ASSUME NEW h \in Handlers, pc[h] = "insert", stored[Msg(h)] = 0,
             stored' = [stored EXCEPT ![Msg(h)] = offset[h]]
      PROVE  stored'[Log[p][i]] < stored'[Log[p][j]]
  <2>1. \A m \in Messages : stored'[m] = IF m = Msg(h) THEN offset[h] ELSE stored[m]
    BY <1>5 DEF StoreInv, TypeOK
  <2>2. CASE Msg(h) = Log[p][i]
    BY <1>1, <1>3, <1>5, <2>1, <2>2 DEF SoleInv, StoredAfterAccounted
  <2>3. CASE Msg(h) = Log[p][j]
    BY <1>1, <1>2, <1>5, <2>1, <2>3 DEF SoleInv, RedisKept, NumberIsNew
  <2>4. CASE Msg(h) \notin {Log[p][i], Log[p][j]}
    BY <1>1, <1>2, <1>3, <2>1, <2>4 DEF SoleInv, OffsetsFollowLog
  <2>5. QED
    BY <2>2, <2>3, <2>4
<1>6. QED
  BY <1>4, <1>5, RowsAppear DEF StoreInv, SoleInv

LEMMA RedisKeptStep ==
  ASSUME OneConsumer, StoreInv, NothingOvertaken, RedisKept, [Next]_vars
  PROVE  RedisKept'
<1> SUFFICES ASSUME losses' = 0 PROVE CounterIsGreatest' /\ NumberIsNew'
  BY DEF RedisKept
<1>1. losses = 0 /\ ~ RedisLost /\ CounterIsGreatest /\ NumberIsNew
  BY LossesGrow DEF StoreInv, RedisKept
<1>2. /\ counter \in Nat /\ dbMax \in Nat /\ stored \in [Messages -> Nat]
      /\ offset \in [Handlers -> Nat] /\ jobVal \in [Jobs -> Nat]
      /\ pc \in [Handlers -> Labels] /\ jobPc \in [Jobs -> {"idle", "get", "sync", "srem"}]
      /\ \A h \in Handlers : pc[h] \in {"seed", "lookup", "insert"} => offset[h] # 0
      /\ \A h \in Handlers : pc[h] # "idle" => Msg(h) \in Messages
  BY HandlerMessage DEF StoreInv, TypeOK, HandlersHaveRecords
<1>3. /\ \A g, h \in Handlers : g = h
      /\ \A h \in Handlers : pc[h] # "update"
  BY OneHandler DEF StoreInv, NumberingIsMissing, NothingOvertaken, Contested
<1> USE <1>1, <1>2, <1>3 DEF CounterIsGreatest, NumberIsNew, CounterCoversDb, Goto
\* Steps that leave the numbers alone and lead to no label that speaks of them.
<1>4. ASSUME UNCHANGED <<counter, dbMax, stored, jobVal>>,
             \A h \in Handlers : \/ pc'[h] \notin {"tcp", "seed", "lookup", "insert"}
                                 \/ pc'[h] = pc[h] /\ offset'[h] = offset[h]
      PROVE  CounterIsGreatest' /\ NumberIsNew'
  BY <1>4
<1>5. CASE \E h \in Handlers : Consumes(h)
  BY <1>4, <1>5 DEF Consumes, Deliver, Retry, RouteToDlq, Resolve, redisVars, messageVars, jobVars
<1>6. CASE \E h \in Handlers : Check(h) \/ MarkDirty(h) \/ Publish(h)
  BY <1>4, <1>6 DEF Check, Exists, MarkDirty, AfterStore, Publish, redisVars, messageVars, jobVars
<1>7. ASSUME NEW h \in Handlers, Incr(h) PROVE CounterIsGreatest' /\ NumberIsNew'
  <2>1. CASE counter = 0
    BY <1>7, <2>1 DEF Incr, messageVars, jobVars
  <2>2. CASE counter # 0
    <3>1. /\ counter' = counter + 1 /\ offset'[h] = counter + 1
          /\ pc'[h] \in {"lookup", "insert"} /\ UNCHANGED <<dbMax, stored, jobVal>>
      BY <1>7, <2>2 DEF Incr, Numbered, messageVars, jobVars
    <3>2. QED
      BY <2>2, <3>1
  <2>3. QED
    BY <2>1, <2>2
<1>8. ASSUME NEW h \in Handlers, TcpIncrement(h) PROVE CounterIsGreatest' /\ NumberIsNew'
  BY <1>8 DEF TcpIncrement, redisVars, messageVars, jobVars
<1>9. ASSUME NEW h \in Handlers, SeedCounter(h) PROVE CounterIsGreatest' /\ NumberIsNew'
  <2>1. pc[h] = "seed" /\ pc'[h] \in {"lookup", "insert"}
    BY <1>9 DEF SeedCounter, Numbered
  <2>2. counter' = Seed(offset[h]) /\ UNCHANGED <<offset, dbMax, stored, jobVal>>
    BY <1>9 DEF SeedCounter, messageVars, jobVars
  <2>3. QED
    BY <2>1, <2>2 DEF Seed
<1>17. ASSUME NEW h \in Handlers, LookUp(h) PROVE CounterIsGreatest' /\ NumberIsNew'
  BY <1>17 DEF LookUp, redisVars, messageVars, jobVars
<1>10. ASSUME NEW h \in Handlers, pc[h] = "insert", stored' = [stored EXCEPT ![Msg(h)] = offset[h]],
              pc'[h] \notin {"tcp", "seed", "lookup", "insert"}, UNCHANGED <<counter, dbMax, jobVal>>
       PROVE  CounterIsGreatest' /\ NumberIsNew'
  BY <1>10
<1>11. ASSUME NEW h \in Handlers, Store(h) \/ Overwrite(h)
       PROVE  CounterIsGreatest' /\ NumberIsNew'
  BY <1>4, <1>10, <1>11 DEF Store, Overwrite, Insert, Duplicate, redisVars, jobVars
<1>12. ASSUME NEW h \in Handlers, CallFails(h) PROVE CounterIsGreatest' /\ NumberIsNew'
  <2>1. pc'[h] = "throw" /\ UNCHANGED jobVal
    BY <1>12 DEF CallFails, Throws, jobVars
  <2>2. CASE UNCHANGED <<counter, dbMax, stored>>
    BY <1>4, <2>1, <2>2
  <2>3. CASE pc[h] = "incr" /\ counter # 0 /\ counter' = counter + 1 /\ UNCHANGED <<dbMax, stored>>
    BY <2>1, <2>3
  <2>4. CASE pc[h] = "tcp" /\ dbMax' = dbMax + 1 /\ UNCHANGED <<counter, stored>>
    BY <2>1, <2>4
  <2>5. CASE pc[h] = "insert" /\ Insert(h) /\ UNCHANGED <<counter, dbMax>>
    BY <1>10, <2>1, <2>5 DEF Insert
  <2>6. QED
    BY <1>12, <2>2, <2>3, <2>4, <2>5 DEF CallFails, messageVars
<1>13. CASE \E c \in Instances : Crash(c)
  BY <1>4, <1>13 DEF Crash, redisVars, messageVars, jobVars
<1>14. CASE \/ \E p \in Partitions : Commit(p) \/ \E c \in Instances : Rebalance(p, c)
            \/ \E m \in Messages : OutboxPublish(m)
            \/ UNCHANGED vars
  BY <1>4, <1>14 DEF Commit, Rebalance, OutboxPublish, vars, handlerVars, redisVars, messageVars,
                     jobVars
<1>15. ASSUME NEW j \in Jobs, Job(j) \/ JobFails(j) PROVE CounterIsGreatest' /\ NumberIsNew'
  <2>1. UNCHANGED <<counter, stored, pc, offset>>
    BY <1>15 DEF Job, JobMembers, JobGet, JobSync, JobSrem, JobFails, redisVars, messageVars,
                 handlerVars
  <2>2. CASE JobSync(j)
    <3>1. dbMax' = SyncMaxOffset(jobVal[j]) /\ UNCHANGED jobVal
      BY <2>2 DEF JobSync
    <3>2. jobVal[j] <= counter
      OBVIOUS
    <3>3. counter # 0 => counter >= dbMax'
      BY <3>1, <3>2 DEF SyncMaxOffset
    <3>4. counter = 0 => dbMax' = dbMax
      BY <3>1, <3>2 DEF SyncMaxOffset
    <3>5. QED
      BY <2>1, <3>1, <3>3, <3>4
  <2>3. CASE UNCHANGED dbMax /\ \A k \in Jobs : jobVal'[k] \in {jobVal[k], counter, 0}
    BY <2>1, <2>3
  <2>4. QED
    BY <1>15, <2>2, <2>3 DEF Job, JobMembers, JobGet, JobSrem, JobFails
<1>16. QED
  BY <1>5, <1>6, <1>7, <1>8, <1>9, <1>11, <1>12, <1>13, <1>14, <1>15, <1>17
     DEF Next, Work, Consumes

LEMMA SoleInvariant == ASSUME OneConsumer PROVE Spec => []SoleInv
<1>1. Init => SoleInv
  <2> SUFFICES ASSUME Init PROVE SoleInv
    OBVIOUS
  <2>1. \A p \in Partitions : \A i \in DOMAIN Log[p] : stored[Log[p][i]] = 0
    BY LogIsSequence DEF Init
  <2>2. RecordIsNext /\ NothingOvertaken /\ RedisKept
    BY DEF Init, RecordIsNext, NothingOvertaken, RedisKept, CounterIsGreatest, CounterCoversDb, NumberIsNew
  <2>3. QED
    BY <2>1, <2>2 DEF SoleInv, StoredAfterAccounted, OffsetsFollowLog
<1>2. StoreInv /\ SoleInv /\ [Next]_vars => SoleInv'
  <2> SUFFICES ASSUME StoreInv, SoleInv, [Next]_vars PROVE SoleInv'
    OBVIOUS
  <2>1. TypeOK /\ RecordIsNext /\ NothingOvertaken /\ StoredAfterAccounted /\ RedisKept
    BY DEF StoreInv, SoleInv
  <2>2. QED
    BY <2>1, RecordIsNextStep, NothingOvertakenStep, StoredAfterAccountedStep, RedisKeptStep,
       OrderStep DEF SoleInv
<1>3. QED
  BY <1>1, <1>2, StoreInvariant, PTL DEF Spec

(* One replica that reads one partition numbers messages in the order of   *)
(* their records, crashes, retries and lost answers included, as long as   *)
(* Redis keeps its keys.                                                   *)
THEOREM StoreOffsetsFollowLog ==
  ASSUME OneConsumer PROVE Spec => []OffsetsFollowLog
<1>1. SoleInv => OffsetsFollowLog
  BY DEF SoleInv
<1>2. QED
  BY <1>1, SoleInvariant, PTL

(* There, the counter in Redis is never behind conversations.max_offset,   *)
(* whatever answers of conversation-service are lost and however many runs *)
(* of the sync job overlap.                                                *)
THEOREM StoreCounterCoversDb ==
  ASSUME OneConsumer PROVE Spec => []CounterCoversDb
<1>1. SoleInv => CounterCoversDb
  BY DEF SoleInv, RedisKept, CounterIsGreatest, CounterCoversDb
<1>2. QED
  BY <1>1, SoleInvariant, PTL
=============================================================================
