------------------------------ MODULE Delivery ------------------------------
(***************************************************************************)
(* The way of a message from the sender's request to the other members of  *)
(* the conversation: SendQueue, then message-store, then the realtime      *)
(* gateway, which buffers one notification per conversation in Redis for   *)
(* 80 ms and lets the first of its timers take it (MessageSavedConsumer).  *)
(*                                                                         *)
(* Of message-store only what module MessageStore says of it is kept: one  *)
(* partition is read in order, a message is stored and numbered once, and  *)
(* announced at most once, as long as the partition is not moved.          *)
(***************************************************************************)
EXTENDS SendQueue

CONSTANTS
  Users,      \* the members of the conversation
  Sender,     \* the member who sends each message
  Gateways    \* instances of realtime-gateway

ASSUME DeliveryAssumption == Sender \in [Messages -> Users]

VARIABLES
  next,       \* how much of the partition message-store has read
  stored,     \* stored messages; a message's place is its offset
  saved,      \* the partition of message.saved: offsets
  handled,    \* how much of it the gateways' consumer group has read
  buffer,     \* notify:buffer: the newest offset, 0 when there is no key
  timers,     \* timers[g]: callbacks an instance has scheduled
  emitting,   \* emitting[g]: offsets taken from the buffer, not emitted yet
  told,       \* told[u]: offsets of the message:notify events sent to a user
  confirmed,  \* offsets confirmed to their sender (message:saved)
  dropped     \* history: offsets a failure kept from being announced

storeVars == <<next, stored, saved>>
notifyVars == <<handled, buffer, timers, emitting, told, confirmed>>
deliveryVars == <<sendVars, storeVars, notifyVars, dropped>>

Init ==
  /\ SendInit
  /\ next = 0 /\ stored = <<>> /\ saved = <<>> /\ handled = 0
  /\ buffer = 0
  /\ timers = [g \in Gateways |-> 0]
  /\ emitting = [g \in Gateways |-> {}]
  /\ told = [u \in Users |-> {}]
  /\ confirmed = {} /\ dropped = {}

Sending(A) == A /\ UNCHANGED <<storeVars, notifyVars, dropped>>

sendRest == <<requestVars, queue, tickVars, kafka, lost>>

\* handleMessageAccepted: a known message is skipped, and a publish that
\* fails after the insert is never made up for.
Store ==
  /\ next < Len(kafka) /\ next' = next + 1
  /\ IF kafka[next + 1] \in ToSet(stored)
     THEN UNCHANGED <<stored, saved, dropped, faults>>
     ELSE /\ stored' = Append(stored, kafka[next + 1])
          /\ \/ saved' = Append(saved, Len(stored')) /\ UNCHANGED <<dropped, faults>>
             \/ Fault /\ dropped' = dropped \cup {Len(stored')} /\ UNCHANGED saved
  /\ UNCHANGED <<sendRest, notifyVars>>

-----------------------------------------------------------------------------
SentBy(offset) == Sender[stored[offset]]

\* handleMessageSaved: confirm to the sender, overwrite the buffer, schedule
\* a callback.  The SET is not awaited and may fail.
\* Mutant: SET NX, the buffer keeps the first message of a burst.
BufferFirst(offset) == buffer' = IF buffer = 0 THEN offset ELSE buffer

BufferNewest(offset) == buffer' = offset

HandleSaved(g) ==
  /\ handled < Len(saved) /\ handled' = handled + 1
  /\ confirmed' = confirmed \cup {saved[handled + 1]}
  /\ \/ BufferNewest(saved[handled + 1]) /\ UNCHANGED <<dropped, faults>>
     \/ /\ Fault
        /\ dropped' = dropped \cup {saved[handled + 1]}
        /\ UNCHANGED buffer
  /\ timers' = [timers EXCEPT ![g] = @ + 1]
  /\ UNCHANGED <<sendRest, storeVars, emitting, told>>

\* The callback: GETDEL, and whoever finds nothing does nothing.
TimerFires(g) ==
  /\ timers[g] > 0
  /\ timers' = [timers EXCEPT ![g] = @ - 1]
  /\ emitting' = [emitting EXCEPT ![g] = @ \cup ({buffer} \ {0})]
  /\ buffer' = 0
  /\ UNCHANGED <<sendVars, storeVars, handled, told, confirmed, dropped>>

\* emitNotification: everybody but the sender of the newest message.
Recipients(offset) == Users \ {SentBy(offset)}

Emit(g, offset) ==
  /\ offset \in emitting[g]
  /\ emitting' = [emitting EXCEPT ![g] = @ \ {offset}]
  /\ told' = [u \in Users |-> IF u \in Recipients(offset)
                              THEN told[u] \cup {offset} ELSE told[u]]
  /\ UNCHANGED <<sendVars, storeVars, handled, buffer, timers, confirmed, dropped>>

Lose(offsets) == dropped' = dropped \cup UNION {1 .. o : o \in offsets}

\* The key lives 20 ms longer than its timer waits: it expires when the timer
\* has died, or, a fault, when the event loop is late.
NoTimer == \A g \in Gateways : timers[g] = 0

Expire ==
  /\ buffer # 0
  /\ IF NoTimer THEN UNCHANGED faults ELSE Fault
  /\ buffer' = 0
  /\ Lose({buffer})
  /\ UNCHANGED <<sendRest, storeVars, handled, timers, emitting, told, confirmed>>

\* The instance dies.  Its last record is delivered again if its offset was
\* not committed.
GatewayCrash(g) ==
  /\ Fault
  /\ timers[g] > 0 \/ emitting[g] # {}
  /\ timers' = [timers EXCEPT ![g] = 0]
  /\ emitting' = [emitting EXCEPT ![g] = {}]
  /\ handled' \in {handled - 1, handled} \cap Nat
  /\ Lose(emitting[g])
  /\ UNCHANGED <<sendRest, storeVars, buffer, told, confirmed>>

Notify(g) == HandleSaved(g) \/ TimerFires(g) \/ \E o \in emitting[g] : Emit(g, o)

Next ==
  \/ Sending(SendNext) \/ Store
  \/ \E g \in Gateways : Notify(g) \/ GatewayCrash(g)
  \/ Expire

\* Timers and handlers run and Redis expires keys.  No step that fails is fair.
Fairness ==
  /\ \A i \in Instances : /\ WF_deliveryVars(Sending(Handle(i)))
                          /\ WF_deliveryVars(Sending(Tick(i)))
  /\ WF_deliveryVars(Store)
  /\ \A g \in Gateways : WF_deliveryVars(Notify(g))
  /\ WF_deliveryVars(NoTimer /\ Expire)

Spec == Init /\ [][Next]_deliveryVars
FairSpec == Spec /\ Fairness

-----------------------------------------------------------------------------
\* A member is told of an offset that is at least the message's, or has sent a
\* later message in the same window, which excludes the member from the
\* notification; or the announcement was lost with a failure.
Told(o, u) ==
  \/ o \in dropped
  \/ \E p \in told[u] : p >= o
  \/ \E p \in o .. Len(stored) : SentBy(p) = u

Known(m, u) == \E o \in DOMAIN stored : stored[o] = m /\ Told(o, u)

\* It is waiting for message-store, or for a gateway, to take it up.
ToBeStored(m) ==
  \/ m \in ToSet(queue) \/ \E i \in Instances : InBatch(i, m)
  \/ \E n \in next + 1 .. Len(kafka) : kafka[n] = m

ToBeAnnounced(o) ==
  \/ \E n \in handled + 1 .. Len(saved) : saved[n] = o
  \/ buffer >= o
  \/ \E g \in Gateways : \E p \in emitting[g] : p >= o

\* An acknowledged message that a member does not know of yet is somewhere it
\* goes on from: no overwritten buffer, timer that finds nothing, redelivery or
\* concurrent tick leaves it behind.  The exceptions are messages lost with a
\* crash of chat-core and announcements lost with a failure.
AckedIsOnItsWay ==
  \A m \in ToSet(acked) \ lost : \A u \in Users \ {Sender[m]} :
    \/ Known(m, u) \/ ToBeStored(m)
    \/ \E o \in DOMAIN stored : stored[o] = m /\ ToBeAnnounced(o)

\* And it becomes known to every other member.
AckedBecomesKnown ==
  \A m \in Messages : \A u \in Users \ {Sender[m]} :
    m \in ToSet(acked) ~> m \in lost \/ Known(m, u)
=============================================================================
