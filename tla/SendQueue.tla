----------------------------- MODULE SendQueue -----------------------------
(***************************************************************************)
(* Sending a message through chat-core: ChatCoreService.sendMessage with   *)
(* its idempotency key, MessageSendOrchestrator.execute, the Redis list    *)
(* chat:kafka:outbox it pushes to, and the timer of every instance that    *)
(* pops the list and publishes to Kafka.                                   *)
(*                                                                         *)
(* The messages of one conversation, which is one Kafka partition.  The    *)
(* messageId is the client's, a UUID, so a retry sends the same message.   *)
(***************************************************************************)
EXTENDS Naturals, FiniteSets, SequencesExt

CONSTANTS
  Messages,     \* messages clients send
  Instances,    \* instances of chat-core
  NoMessage,
  MaxPerTick,   \* how many messages one LPOP takes
  MaxRequests,  \* bound of the model: requests of the clients
  MaxFaults     \* bound of the model: crashes, lost commands and answers

ASSUME SendQueueAssumption ==
  /\ NoMessage \notin Messages
  /\ MaxPerTick \in Nat \ {0}
  /\ MaxRequests \in Nat /\ MaxFaults \in Nat

VARIABLES
  request,    \* request[i]: the request an instance handles, and where it is
  requests,   \* requests so far
  processed,  \* messages whose idempotency key is set
  acked,      \* messages whose sender was told "created", in that order
  queue,      \* the Redis list, head first
  batch,      \* batch[i]: what the running tick of an instance has popped
  pending,    \* pending[i]: indices of the batch whose publish is under way
  failed,     \* failed[i]: indices of the batch whose publish was rejected
  kafka,      \* the partition of message.accepted
  lost,       \* history: messages that a crash, an LPOP whose answer never
              \* came or a requeue Redis refused took with it
  faults

requestVars == <<request, requests, processed, acked>>
tickVars == <<batch, pending, failed>>
sendVars == <<requestVars, queue, tickVars, kafka, lost, faults>>

NoRequest == [pc |-> "idle", msg |-> NoMessage]

SendInit ==
  /\ request = [i \in Instances |-> NoRequest]
  /\ requests = 0
  /\ processed = {} /\ acked = <<>>
  /\ queue = <<>>
  /\ batch = [i \in Instances |-> <<>>]
  /\ pending = [i \in Instances |-> {}]
  /\ failed = [i \in Instances |-> {}]
  /\ kafka = <<>>
  /\ lost = {}
  /\ faults = 0

Fault == faults < MaxFaults /\ faults' = faults + 1

-----------------------------------------------------------------------------
(* A request.                                                              *)

At(i, label) == request[i].pc = label
Proceed(i, label) == request' = [request EXCEPT ![i].pc = label]
Answered(m) == IF m \in ToSet(acked) THEN acked ELSE Append(acked, m)
Finish(i) == request' = [request EXCEPT ![i] = NoRequest]

\* A client sends a message, or sends it again for want of an answer.
Receive(i, m) ==
  /\ At(i, "idle") /\ m \notin ToSet(acked)
  /\ requests < MaxRequests /\ requests' = requests + 1
  /\ request' = [request EXCEPT ![i] = [pc |-> "guard", msg |-> m]]
  /\ UNCHANGED <<processed, acked, queue, tickVars, kafka, lost, faults>>

\* The idempotency guard; a Redis that fails or is slow counts as "new".
Guard(i) ==
  /\ At(i, "guard")
  /\ \/ /\ request[i].msg \in processed
        /\ acked' = Answered(request[i].msg)
        /\ Finish(i)
        /\ UNCHANGED faults
     \/ /\ request[i].msg \notin processed
        /\ Proceed(i, "validate")
        /\ UNCHANGED <<acked, faults>>
     \/ /\ Fault
        /\ Proceed(i, "validate")
        /\ UNCHANGED acked
  /\ UNCHANGED <<requests, processed, queue, tickVars, kafka, lost>>

\* Rate limit, content and interaction policy; any of them may refuse.
Validate(i) ==
  /\ At(i, "validate")
  /\ Proceed(i, "enqueue") \/ Finish(i)
  /\ UNCHANGED <<requests, processed, acked, queue, tickVars, kafka,
                 lost, faults>>

\* LPUSH.  It may fail, or succeed after the deadline of the request.
Enqueue(i) ==
  /\ At(i, "enqueue")
  /\ \/ /\ queue' = <<request[i].msg>> \o queue
        /\ Proceed(i, "reply")
        /\ UNCHANGED faults
     \/ /\ Fault
        /\ queue' \in {queue, <<request[i].msg>> \o queue}
        /\ Finish(i)
  /\ UNCHANGED <<requests, processed, acked, tickVars, kafka, lost>>

\* The idempotency key is set without waiting, and the client is answered.
ReplyCreated(i) ==
  /\ At(i, "reply")
  /\ acked' = Answered(request[i].msg)
  /\ \/ processed' = processed \cup {request[i].msg} /\ UNCHANGED faults
     \/ Fault /\ UNCHANGED processed
  /\ Finish(i)
  /\ UNCHANGED <<requests, queue, tickVars, kafka, lost>>

Handle(i) == Guard(i) \/ Validate(i) \/ Enqueue(i) \/ ReplyCreated(i)

-----------------------------------------------------------------------------
(* The timer of processKafkaOutbox; isOutboxProcessing keeps it from       *)
(* starting while a batch is being published.                              *)

Smaller(a, b) == IF a <= b THEN a ELSE b

\* LPOP with a count takes from the head.
Popped == SubSeq(queue, 1, Smaller(MaxPerTick, Len(queue)))
LeftOver == SubSeq(queue, Len(Popped) + 1, Len(queue))

Pop(i) ==
  /\ batch[i] = <<>> /\ queue # <<>>
  /\ batch' = [batch EXCEPT ![i] = Popped]
  /\ pending' = [pending EXCEPT ![i] = DOMAIN Popped]
  /\ queue' = LeftOver
  /\ UNCHANGED <<requestVars, failed, kafka, lost, faults>>

\* Redis executes the LPOP and its answer is lost: the tick returns from its
\* catch, and nobody has the messages.
PopUnanswered(i) ==
  /\ batch[i] = <<>> /\ queue # <<>> /\ Fault
  /\ queue' = LeftOver
  /\ lost' = lost \cup ToSet(Popped)
  /\ UNCHANGED <<requestVars, tickVars, kafka>>

\* The batch is published concurrently.
PublishOk(i, k) ==
  /\ k \in pending[i]
  /\ kafka' = Append(kafka, batch[i][k])
  /\ pending' = [pending EXCEPT ![i] = @ \ {k}]
  /\ UNCHANGED <<requestVars, queue, batch, failed, lost, faults>>

\* The producer is not idempotent: Kafka may have the message all the same.
PublishRejected(i, k) ==
  /\ k \in pending[i] /\ Fault
  /\ kafka' \in {kafka, Append(kafka, batch[i][k])}
  /\ pending' = [pending EXCEPT ![i] = @ \ {k}]
  /\ failed' = [failed EXCEPT ![i] = @ \cup {k}]
  /\ UNCHANGED <<requestVars, queue, batch, lost>>

\* What is at some places of a batch, in the order of the batch.
ItemsAt(i, places) ==
  [n \in 1 .. Cardinality(places) |->
     batch[i][CHOOSE k \in places : Cardinality({j \in places : j <= k}) = n]]

\* Mutant: the items that were published are put back, not the others.
PublishedItems(i) == ItemsAt(i, DOMAIN batch[i] \ failed[i])

FailedItems(i) == ItemsAt(i, failed[i])

\* LPUSH of several values leaves the last of them at the head.  A failing
\* LPUSH is ignored.
EndTick(i) ==
  /\ batch[i] # <<>> /\ pending[i] = {}
  /\ \/ /\ queue' = Reverse(FailedItems(i)) \o queue
        /\ UNCHANGED <<lost, faults>>
     \/ /\ FailedItems(i) # <<>> /\ Fault
        /\ lost' = lost \cup ToSet(FailedItems(i))
        /\ UNCHANGED queue
  /\ batch' = [batch EXCEPT ![i] = <<>>]
  /\ failed' = [failed EXCEPT ![i] = {}]
  /\ UNCHANGED <<requestVars, pending, kafka>>

Tick(i) == Pop(i) \/ EndTick(i) \/ \E k \in pending[i] : PublishOk(i, k)

\* The instance dies and starts again: its request and batch are gone.
Crash(i) ==
  /\ Fault
  /\ request[i] # NoRequest \/ batch[i] # <<>>
  /\ Finish(i)
  /\ batch' = [batch EXCEPT ![i] = <<>>]
  /\ pending' = [pending EXCEPT ![i] = {}]
  /\ failed' = [failed EXCEPT ![i] = {}]
  /\ lost' = lost \cup {batch[i][k] : k \in pending[i] \cup failed[i]}
  /\ UNCHANGED <<requests, processed, acked, queue, kafka>>

SendNext ==
  \E i \in Instances :
    \/ \E m \in Messages : Receive(i, m)
    \/ Handle(i)
    \/ Tick(i)
    \/ PopUnanswered(i)
    \/ \E k \in pending[i] : PublishRejected(i, k)
    \/ Crash(i)

SendSpec == SendInit /\ [][SendNext]_sendVars

-----------------------------------------------------------------------------
InBatch(i, m) == \E k \in pending[i] \cup failed[i] : batch[i][k] = m

\* A message whose sender was told "created" is in the list, in the hands of
\* a tick, or in Kafka, through concurrent ticks, rejected publishes, requeues
\* and retried requests; only a crash between LPOP and the publish, an LPOP
\* whose answer is lost or a requeue Redis refuses can take it away.
AckedIsKept ==
  \A m \in ToSet(acked) \ lost :
    \/ m \in ToSet(queue) \cup ToSet(kafka)
    \/ \E i \in Instances : InBatch(i, m)
=============================================================================
