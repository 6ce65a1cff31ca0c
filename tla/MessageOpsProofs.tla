-------------------------- MODULE MessageOpsProofs --------------------------
(***************************************************************************)
(* Proofs about the operations on stored messages, for any set of          *)
(* messages, reactors and replicas and any bounds.  No theorem needs a     *)
(* bound on failures: redeliveries, retries, dead-lettered events and      *)
(* handlers that outlive a rebalance are all in the step.                  *)
(***************************************************************************)
EXTENDS MessageOps, FiniteSetTheorems, TLAPS

Requests == [op : Ops, msg : Messages, old : Nat, new : Nat, meta : BOOLEAN]

Steps == {"existing", "count", "apply", "evict", "announce"}

Handlers == [op : Ops, event : Requests, pc : Steps, zombie : BOOLEAN]

\* No type of the columns and keys that the theorems do not read.
OpsTypeOK ==
  /\ requests \in Nat
  /\ text \in [Messages -> Nat]
  /\ past \in [Messages -> SUBSET Nat]
  /\ IsFiniteSet(pinned)
  /\ asked \subseteq Requests
  /\ topic \in [Ops -> Seq(Requests)]
  /\ next \in [Ops -> Nat \ {0}]
  /\ running \subseteq Handlers
  /\ list \in [known : BOOLEAN, pins : SUBSET Messages]
  /\ reader \in [pc : {"idle", "fill"}, pins : SUBSET Messages, overtaken : BOOLEAN]
  /\ pinned \subseteq Messages

\* What chat-core had read is the original, or the original has been kept.
KeptBy(e) == e.old = 0 \/ 0 \in past[e.msg]

OriginalInv ==
  /\ OriginalKept
  /\ \A e \in asked : KeptBy(e)
  /\ \A op \in Ops : \A n \in 1 .. Len(topic[op]) : KeptBy(topic[op][n])
  /\ \A h \in running : KeptBy(h.event)

\* The one handler of a pin, and what it has counted.
PinAlone ==
  \A h \in running : h.op = "pin" =>
    /\ ~h.zombie
    /\ \A k \in running : k.op = "pin" => k = h

PinInv ==
  "pin" \notin overlapped =>
    /\ PinAlone
    /\ Cardinality(pinned) <= MaxPins
    /\ \A h \in running : At(h, "pin", "apply") => Cardinality(pinned) < MaxPins

Evicting == \E h \in running : h.pc = "evict"

ListInv ==
  /\ PinnedListFresh
  /\ ~listUnsafe /\ reader # NoReader /\ ~reader.overtaken => reader.pins = pinned \/ Evicting

OpsInv == OpsTypeOK /\ OriginalInv /\ PinInv /\ ListInv

-----------------------------------------------------------------------------
(* Types.                                                                  *)

LEMMA OpsInitial == Init => OpsInv
<1> SUFFICES ASSUME Init
             PROVE  OpsInv
  OBVIOUS
<1>1. IsFiniteSet(pinned) /\ Cardinality(pinned) = 0
  BY FS_EmptySet DEF Init
<1>2. OpsTypeOK
  BY <1>1 DEF Init, ReactionsInit, OpsTypeOK, NoList, NoReader
<1>3. OriginalInv
  BY DEF Init, OriginalInv, OriginalKept
<1>4. PinInv
  BY <1>1, MaxPinsAssumption DEF Init, PinInv, PinAlone
<1>5. ListInv
  BY DEF Init, ListInv, PinnedListFresh, NoList
<1>6. QED
  BY <1>2, <1>3, <1>4, <1>5 DEF OpsInv

\* A handler moves to a step of Steps, or is done.
LEMMA MoveTypes ==
  ASSUME OpsTypeOK, NEW h \in running, NEW label \in Steps, Move(h, label) \/ Done(h)
  PROVE  running' \subseteq Handlers /\ next' \in [Ops -> Nat \ {0}]
<1>1. h \in Handlers
  BY DEF OpsTypeOK
<1>2. CASE Move(h, label)
  BY <1>1, <1>2 DEF OpsTypeOK, Move, Handlers
<1>3. CASE Done(h)
  BY <1>1, <1>3 DEF OpsTypeOK, Done, Handlers
<1>4. QED
  BY <1>2, <1>3

\* The steps of handlers, as far as types go.
LEMMA HandleTypes ==
  ASSUME OpsTypeOK, NEW h \in running, Handle(h) \/ Throw(h)
  PROVE  OpsTypeOK'
<1>t. /\ h \in Handlers /\ h.event \in Requests /\ h.event.msg \in Messages
      /\ h.op \in Ops /\ h.event.new \in Nat /\ h.event.old \in Nat
  BY DEF OpsTypeOK, Handlers, Requests
<1>1. \E label \in Steps : Move(h, label) \/ Done(h)
  BY DEF Handle, Throw, ApplyEdit, ApplyFlag, PinExisting, PinCount, ApplyPin, ApplyUnpin,
     EvictList, Announce, FirstStep, Steps
<1>2. running' \subseteq Handlers /\ next' \in [Ops -> Nat \ {0}]
  BY <1>1, MoveTypes
<1>3. requests' = requests /\ asked' = asked /\ topic' = topic
  BY DEF Handle, Throw, ApplyEdit, ApplyFlag, PinExisting, PinCount, ApplyPin, ApplyUnpin,
     EvictList, Announce, pinRest, budget
<1>4. text' \in [Messages -> Nat] /\ past' \in [Messages -> SUBSET Nat]
  <2>1. CASE ApplyEdit(h)
    BY <1>t, <2>1 DEF ApplyEdit, PreviousContent, OpsTypeOK
  <2>2. CASE ~ApplyEdit(h)
    BY <2>2 DEF Handle, Throw, ApplyFlag, PinExisting, PinCount, ApplyPin, ApplyUnpin,
       EvictList, Announce, pinRest, rowVars, OpsTypeOK
  <2>3. QED
    BY <2>1, <2>2
<1>5. IsFiniteSet(pinned') /\ pinned' \subseteq Messages
  <2>1. CASE ApplyPin(h)
    BY <1>t, <2>1, FS_AddElement DEF ApplyPin, OpsTypeOK
  <2>2. CASE ApplyUnpin(h)
    BY <1>t, <2>2, FS_RemoveElement DEF ApplyUnpin, OpsTypeOK
  <2>3. CASE ~ApplyPin(h) /\ ~ApplyUnpin(h)
    BY <2>3 DEF Handle, Throw, ApplyEdit, ApplyFlag, PinExisting, PinCount, EvictList,
       Announce, rowVars, OpsTypeOK
  <2>4. QED
    BY <2>1, <2>2, <2>3
<1>6. /\ list' \in [known : BOOLEAN, pins : SUBSET Messages]
      /\ reader' \in [pc : {"idle", "fill"}, pins : SUBSET Messages, overtaken : BOOLEAN]
  <2>1. CASE EvictList(h)
    <3>1. NoList \in [known : BOOLEAN, pins : SUBSET Messages]
      BY DEF NoList
    <3>2. [reader EXCEPT !.overtaken = reader # NoReader]
            \in [pc : {"idle", "fill"}, pins : SUBSET Messages, overtaken : BOOLEAN]
      BY Zenon DEF OpsTypeOK
    <3>3. QED
      BY <2>1, <3>1, <3>2 DEF EvictList, OpsTypeOK
  <2>2. CASE ~EvictList(h)
    BY <2>2 DEF Handle, Throw, ApplyEdit, ApplyFlag, PinExisting, PinCount, ApplyPin,
       ApplyUnpin, Announce, pinRest, listVars, OpsTypeOK
  <2>3. QED
    BY <2>1, <2>2
<1>7. QED
  BY <1>2, <1>3, <1>4, <1>5, <1>6 DEF OpsTypeOK

LEMMA ReadTypes ==
  ASSUME OpsTypeOK, NEW op \in Ops, NEW m \in Messages, NEW b \in BOOLEAN, Read(op, m, b)
  PROVE  OpsTypeOK'
<1>1. requests' \in Nat
  BY DEF OpsTypeOK, Read, Request
<1>2. text[m] \in Nat
  BY DEF OpsTypeOK
<1>3. [op |-> op, msg |-> m, old |-> text[m], new |-> requests', meta |-> b] \in Requests
  BY <1>1, <1>2, Zenon DEF Requests
<1>4. asked' \subseteq Requests
  BY <1>3, Zenon DEF OpsTypeOK, Read
<1>5. QED
  BY <1>1, <1>4 DEF OpsTypeOK, Read, rowVars, eventVars, listVars

LEMMA DeliverTypes ==
  ASSUME OpsTypeOK, NEW op \in Ops, Deliver(op)
  PROVE  OpsTypeOK'
<1>1. topic[op][next[op]] \in Requests
  BY DEF OpsTypeOK, Deliver
<1>2. FirstStep(op) \in Steps
  BY DEF FirstStep, Steps
<1>3. [op |-> op, event |-> topic[op][next[op]], pc |-> FirstStep(op), zombie |-> FALSE]
        \in Handlers
  BY <1>1, <1>2, Zenon DEF Handlers
<1>4. running' \subseteq Handlers
  BY <1>3, Zenon DEF OpsTypeOK, Deliver
<1>5. QED
  BY <1>4 DEF OpsTypeOK, Deliver, budget, rowVars, listVars

LEMMA RedeliverTypes ==
  ASSUME OpsTypeOK, NEW op \in Ops, Redeliver(op)
  PROVE  OpsTypeOK'
<1>1. next' \in [Ops -> Nat \ {0}]
  BY DEF OpsTypeOK, Redeliver
<1>2. running' \subseteq Handlers
  <2>1. CASE running' = {h \in running : h.op # op}
    BY <2>1 DEF OpsTypeOK
  <2>2. CASE running' = {[h EXCEPT !.zombie = h.zombie \/ h.op = op] : h \in running}
    <3>1. ASSUME NEW h \in running
          PROVE  [h EXCEPT !.zombie = h.zombie \/ h.op = op] \in Handlers
      BY Zenon DEF OpsTypeOK, Handlers
    <3>2. QED
      BY <2>2, <3>1, Zenon
  <2>3. QED
    BY <2>1, <2>2 DEF Redeliver
<1>3. QED
  BY <1>1, <1>2 DEF OpsTypeOK, Redeliver, rowVars

LEMMA TypesStep == OpsTypeOK /\ [Next]_vars => OpsTypeOK'
<1> SUFFICES ASSUME OpsTypeOK, [Next]_vars
             PROVE  OpsTypeOK'
  OBVIOUS
<1>1. ASSUME NEW op \in Ops, NEW m \in Messages, NEW b \in BOOLEAN, Read(op, m, b)
      PROVE  OpsTypeOK'
  BY <1>1, ReadTypes
<1>2. ASSUME NEW a \in asked, Refuse(a) \/ Publish(a)
      PROVE  OpsTypeOK'
  <2>1. a \in Requests /\ a.op \in Ops
    BY DEF OpsTypeOK, Requests
  <2>2. topic' \in [Ops -> Seq(Requests)]
    <3>1. CASE Publish(a)
      <4>1. Append(topic[a.op], a) \in Seq(Requests)
        BY <2>1 DEF OpsTypeOK
      <4>2. topic' = [topic EXCEPT ![a.op] = Append(topic[a.op], a)]
        BY <3>1 DEF Publish
      <4>3. QED
        BY <2>1, <4>1, <4>2 DEF OpsTypeOK
    <3>2. CASE Refuse(a)
      BY <3>2 DEF Refuse, eventVars, OpsTypeOK
    <3>3. QED
      BY <1>2, <3>1, <3>2
  <2>3. asked' \subseteq Requests /\ UNCHANGED <<requests, next, running, rowVars, listVars>>
    BY <1>2 DEF OpsTypeOK, Refuse, Publish, budget, eventVars
  <2>4. QED
    BY <2>2, <2>3 DEF OpsTypeOK, rowVars, listVars
<1>3. ASSUME NEW op \in Ops, Deliver(op) \/ Redeliver(op)
      PROVE  OpsTypeOK'
  BY <1>3, DeliverTypes, RedeliverTypes
<1>4. ASSUME NEW h \in running, Handle(h) \/ Throw(h)
      PROVE  OpsTypeOK'
  BY <1>4, HandleTypes
<1>5. CASE ReadPins
  <2>1. [NoReader EXCEPT !.pc = "fill", !.pins = pinned]
          \in [pc : {"idle", "fill"}, pins : SUBSET Messages, overtaken : BOOLEAN]
    BY Zenon DEF NoReader, OpsTypeOK
  <2>2. QED
    BY <1>5, <2>1 DEF ReadPins, OpsTypeOK, budget, rowVars, eventVars
<1>6. CASE FillList
  <2>1. /\ [known |-> TRUE, pins |-> reader.pins] \in [known : BOOLEAN, pins : SUBSET Messages]
        /\ NoReader \in [pc : {"idle", "fill"}, pins : SUBSET Messages, overtaken : BOOLEAN]
    BY DEF NoReader, OpsTypeOK
  <2>2. QED
    <3>1. reader' = NoReader /\ (list' = [known |-> TRUE, pins |-> reader.pins] \/ list' = list)
      BY <1>6, Zenon DEF FillList
    <3>2. UNCHANGED <<requests, text, past, pinned, asked, topic, next, running>>
      BY <1>6 DEF FillList, budget, rowVars, eventVars
    <3>3. list' \in [known : BOOLEAN, pins : SUBSET Messages]
      BY <2>1, <3>1, Zenon DEF OpsTypeOK
    <3>4. reader' \in [pc : {"idle", "fill"}, pins : SUBSET Messages, overtaken : BOOLEAN]
      BY <2>1, <3>1, Zenon
    <3>5. QED
      BY <3>2, <3>3, <3>4 DEF OpsTypeOK
<1>7. CASE Reaction
  <2>1. requests' \in Nat
    <3>1. ASSUME NEW m \in Messages, NEW u \in Reactors, React(m, u)
          PROVE  requests' \in Nat
      BY <3>1 DEF React, Request, OpsTypeOK
    <3>2. ASSUME NEW r \in reacting, MarkDirty(r) \/ MarkFails(r)
          PROVE  requests' \in Nat
      BY <3>2 DEF MarkDirty, MarkFails, budget, OpsTypeOK
    <3>3. ASSUME NEW j \in Jobs, BeginFlush(j) \/ EndFlush(j) \/ JobCrashes(j)
          PROVE  requests' \in Nat
      BY <3>3 DEF BeginFlush, EndFlush, JobCrashes, budget, OpsTypeOK
    <3>4. ASSUME NEW j \in Jobs, NEW m \in Messages, ReadHash(j, m) \/ UpdateRow(j, m)
          PROVE  requests' \in Nat
      BY <3>4 DEF ReadHash, UpdateRow, budget, OpsTypeOK
    <3>5. CASE LockExpires
      BY <3>5 DEF LockExpires, budget, OpsTypeOK
    <3>6. QED
      BY <1>7, <3>1, <3>2, <3>3, <3>4, <3>5, Zenon DEF Reaction, ReactionsNext
  <2>2. QED
    BY <1>7, <2>1 DEF Reaction, OpsTypeOK, rowVars, eventVars, listVars
<1>8. CASE UNCHANGED vars
  BY <1>8 DEF vars, OpsTypeOK, budget, rowVars, eventVars, listVars
<1>9. QED
  BY <1>1, <1>2, <1>3, <1>4, <1>5, <1>6, <1>7, <1>8 DEF Next

-----------------------------------------------------------------------------
(* The original content.                                                   *)

\* Histories only grow, so what was kept stays kept.
LEMMA HistoriesGrow ==
  ASSUME OpsTypeOK, [Next]_vars
  PROVE  \A m \in Messages : past[m] \subseteq past'[m]
<1>1. ASSUME NEW h \in running, ApplyEdit(h)
      PROVE  \A m \in Messages : past[m] \subseteq past'[m]
  BY <1>1 DEF ApplyEdit, OpsTypeOK
<1>2. CASE \A h \in running : ~ApplyEdit(h)
  BY <1>2 DEF Next, Read, Refuse, Publish, Deliver, Redeliver, Handle, Throw, ApplyFlag,
     PinExisting, PinCount, ApplyPin, ApplyUnpin, EvictList, Announce, ReadPins, FillList,
     Reaction, pinRest, rowVars, vars
<1>3. QED
  BY <1>1, <1>2

\* A handler of the next state handles an event of a handler or of the topic.
LEMMA EventsHandled ==
  ASSUME OpsTypeOK, [Next]_vars, NEW h \in running'
  PROVE  \/ \E k \in running : h.event = k.event
         \/ \E op \in Ops : \E n \in 1 .. Len(topic[op]) : h.event = topic[op][n]
<1>t. \A k \in running : k \in Handlers
  BY DEF OpsTypeOK
<1>1. CASE h \in running
  BY <1>1
<1>2. ASSUME NEW op \in Ops, Deliver(op), h \notin running
      PROVE  \E n \in 1 .. Len(topic[op]) : h.event = topic[op][n]
  <2>1. next[op] \in 1 .. Len(topic[op])
    BY <1>2 DEF Deliver, OpsTypeOK
  <2>2. h.event = topic[op][next[op]]
    BY <1>2 DEF Deliver
  <2>3. QED
    BY <2>1, <2>2
<1>3. ASSUME NEW op \in Ops, Redeliver(op), h \notin running
      PROVE  \E k \in running : h.event = k.event
  <2>1. running' = {[k EXCEPT !.zombie = k.zombie \/ k.op = op] : k \in running}
    BY <1>3 DEF Redeliver
  <2>2. PICK k \in running : h = [k EXCEPT !.zombie = k.zombie \/ k.op = op]
    BY <2>1, Zenon
  <2>3. h.event = k.event
    BY <1>t, <2>2, Zenon DEF Handlers
  <2>4. QED
    BY <2>3
<1>4. ASSUME NEW k \in running, Handle(k) \/ Throw(k), h \notin running
      PROVE  h.event = k.event
  <2>1. \E label \in Steps : Move(k, label) \/ Done(k)
    BY <1>4 DEF Handle, Throw, ApplyEdit, ApplyFlag, PinExisting, PinCount, ApplyPin,
       ApplyUnpin, EvictList, Announce, FirstStep, Steps
  <2>2. QED
    BY <1>4, <1>t, <2>1 DEF Move, Done, Handlers
<1>5. CASE /\ \A op \in Ops : ~Deliver(op) /\ ~Redeliver(op)
           /\ \A k \in running : ~Handle(k) /\ ~Throw(k)
  BY <1>5 DEF Next, Read, Refuse, Publish, ReadPins, FillList, Reaction, eventVars, vars
<1>6. QED
  BY <1>1, <1>2, <1>3, <1>4, <1>5

LEMMA OriginalStep ==
  ASSUME OpsTypeOK, OriginalInv, [Next]_vars
  PROVE  OriginalInv'
<1> DEFINE StillKeptBy(e) == e.old = 0 \/ 0 \in past'[e.msg]
<1>1. \A e \in Requests : KeptBy(e) => StillKeptBy(e)
  <2>1. \A m \in Messages : 0 \in past[m] => 0 \in past'[m]
    BY HistoriesGrow
  <2>2. QED
    BY <2>1 DEF KeptBy, Requests
<1>2. OriginalKept'
  <2>1. ASSUME NEW h \in running, ApplyEdit(h)
        PROVE  OriginalKept'
    <3>1. h.event.msg \in Messages /\ h.event.old \in Nat /\ KeptBy(h.event)
      BY DEF OpsTypeOK, Handlers, Requests, OriginalInv
    <3>2. 0 \in past'[h.event.msg]
      BY <2>1, <3>1 DEF ApplyEdit, PreviousContent, KeptBy, OpsTypeOK
    <3>3. \A m \in Messages \ {h.event.msg} : text'[m] = text[m] /\ past'[m] = past[m]
      BY <2>1, <3>1 DEF ApplyEdit, OpsTypeOK
    <3>4. QED
      BY <3>2, <3>3 DEF OriginalKept, OriginalInv
  <2>2. CASE \A h \in running : ~ApplyEdit(h)
    <3>1. text' = text /\ past' = past
      BY <2>2 DEF Next, Read, Refuse, Publish, Deliver, Redeliver, Handle, Throw, ApplyFlag,
         PinExisting, PinCount, ApplyPin, ApplyUnpin, EvictList, Announce, ReadPins,
         FillList, Reaction, pinRest, rowVars, vars
    <3>2. QED
      BY <3>1 DEF OriginalKept, OriginalInv
  <2>3. QED
    BY <2>1, <2>2
<1>3. \A e \in asked' : StillKeptBy(e)
  <2>1. ASSUME NEW op \in Ops, NEW m \in Messages, NEW b \in BOOLEAN, Read(op, m, b)
        PROVE  \A e \in asked' : StillKeptBy(e)
    <3>1. past' = past
      BY <2>1 DEF Read, rowVars
    <3> DEFINE r == [op |-> op, msg |-> m, old |-> text[m], new |-> requests', meta |-> b]
    <3>2. asked' = asked \cup {r}
      BY <2>1, Zenon DEF Read
    <3>3. r.msg = m /\ r.old = text[m]
      BY Zenon
    <3>4. text[m] = 0 \/ 0 \in past[m]
      BY DEF OriginalInv, OriginalKept
    <3> HIDE DEF r
    <3>5. KeptBy(r)
      BY <3>3, <3>4 DEF KeptBy
    <3>6. \A e \in asked' : KeptBy(e)
      BY <3>2, <3>5, Zenon DEF OriginalInv
    <3>7. QED
      BY <3>1, <3>6 DEF KeptBy
  <2>2. CASE \A op \in Ops, m \in Messages, b \in BOOLEAN : ~Read(op, m, b)
    <3>1. asked' \subseteq asked
      BY <2>2 DEF Next, Refuse, Publish, Deliver, Redeliver, Handle, Throw, ApplyEdit,
         ApplyFlag, PinExisting, PinCount, ApplyPin, ApplyUnpin, EvictList, Announce,
         ReadPins, FillList, Reaction, pinRest, vars
    <3>2. QED
      BY <1>1, <3>1 DEF OriginalInv, OpsTypeOK
  <2>3. QED
    BY <2>1, <2>2
<1>4. \A op \in Ops : \A n \in 1 .. Len(topic'[op]) : StillKeptBy(topic'[op][n])
  <2>1. \A op \in Ops : \A n \in 1 .. Len(topic[op]) : StillKeptBy(topic[op][n])
    BY <1>1 DEF OpsTypeOK, OriginalInv
  <2>2. ASSUME NEW a \in asked, Publish(a)
        PROVE  \A op \in Ops : \A n \in 1 .. Len(topic'[op]) : StillKeptBy(topic'[op][n])
    <3>1. a \in Requests /\ a.op \in Ops /\ StillKeptBy(a)
      BY <1>1 DEF OpsTypeOK, Requests, OriginalInv
    <3>2. \A op \in Ops : \A n \in 1 .. Len(topic'[op]) :
            \/ topic'[op][n] = a
            \/ n \in 1 .. Len(topic[op]) /\ topic'[op][n] = topic[op][n]
      BY <2>2, <3>1 DEF Publish, OpsTypeOK
    <3>3. QED
      BY <2>1, <3>1, <3>2 DEF KeptBy
  <2>3. CASE \A a \in asked : ~Publish(a)
    <3>1. topic' = topic
      BY <2>3 DEF Next, Read, Refuse, Deliver, Redeliver, Handle, Throw, ApplyEdit,
         ApplyFlag, PinExisting, PinCount, ApplyPin, ApplyUnpin, EvictList, Announce,
         ReadPins, FillList, Reaction, pinRest, eventVars, vars
    <3>2. QED
      BY <2>1, <3>1 DEF KeptBy
  <2>4. QED
    BY <2>2, <2>3
<1>5. \A h \in running' : StillKeptBy(h.event)
  <2> TAKE h \in running'
  <2>1. CASE \E k \in running : h.event = k.event
    BY <1>1, <2>1 DEF OpsTypeOK, Handlers, OriginalInv, KeptBy
  <2>2. CASE \E op \in Ops : \E n \in 1 .. Len(topic[op]) : h.event = topic[op][n]
    BY <1>1, <2>2 DEF OpsTypeOK, OriginalInv, KeptBy
  <2>3. QED
    BY <2>1, <2>2, EventsHandled
<1>6. QED
  BY <1>2, <1>3, <1>4, <1>5 DEF OriginalInv, KeptBy

-----------------------------------------------------------------------------
(* The pin limit.                                                          *)

\* Who handles a pin afterwards handled it before, or is the first to.
LEMMA PinsHandled ==
  ASSUME OpsTypeOK, PinInv, [Next]_vars, "pin" \notin overlapped'
  PROVE  /\ "pin" \notin overlapped
         /\ PinAlone'
<1>t. \A k \in running : k \in Handlers
  BY DEF OpsTypeOK
<1>1. "pin" \notin overlapped /\ PinAlone
  <2>1. overlapped \subseteq overlapped'
    BY DEF Next, Read, Refuse, Publish, Deliver, Redeliver, Handle, Throw, ApplyEdit,
       ApplyFlag, PinExisting, PinCount, ApplyPin, ApplyUnpin, EvictList, Announce,
       ReadPins, FillList, Reaction, pinRest, eventVars, vars
  <2>2. QED
    BY <2>1 DEF PinInv
<1>2. ASSUME NEW op \in Ops, Deliver(op)
      PROVE  PinAlone'
  <2> DEFINE r == [op |-> op, event |-> topic[op][next[op]], pc |-> FirstStep(op),
                   zombie |-> FALSE]
  <2>1. running' = running \cup {r} /\ r.op = op /\ ~r.zombie
    BY <1>2, Zenon DEF Deliver
  <2>2. op = "pin" => \A h \in running : h.op # "pin"
    BY <1>1, <1>2 DEF Deliver, Live, PinAlone
  <2> HIDE DEF r
  <2>3. QED
    BY <1>1, <2>1, <2>2 DEF PinAlone
<1>3. ASSUME NEW op \in Ops, Redeliver(op)
      PROVE  PinAlone'
  <2>1. CASE running' = {h \in running : h.op # op}
    BY <1>1, <2>1 DEF PinAlone
  <2>2. CASE /\ running' = {[h EXCEPT !.zombie = h.zombie \/ h.op = op] : h \in running}
             /\ op # "pin"
    <3>1. ASSUME NEW h \in running
          PROVE  LET z == [h EXCEPT !.zombie = h.zombie \/ h.op = op]
                 IN  z.op = h.op /\ (z.zombie <=> h.zombie \/ h.op = op)
      BY <1>t, Zenon DEF Handlers
    <3>2. ASSUME NEW h \in running', h.op = "pin"
          PROVE  ~h.zombie /\ \A k \in running' : k.op = "pin" => k = h
      <4>1. PICK g \in running : h = [g EXCEPT !.zombie = g.zombie \/ g.op = op]
        BY <2>2, Zenon
      <4>2. g.op = "pin" /\ ~h.zombie
        BY <1>1, <2>2, <3>1, <3>2, <4>1, Zenon DEF PinAlone
      <4>3. ASSUME NEW k \in running', k.op = "pin"
            PROVE  k = h
        <5>1. PICK f \in running : k = [f EXCEPT !.zombie = f.zombie \/ f.op = op]
          BY <2>2, Zenon
        <5>2. f.op = "pin"
          BY <3>1, <4>3, <5>1, Zenon
        <5>3. f = g
          BY <1>1, <4>2, <5>2, Zenon DEF PinAlone
        <5>4. QED
          BY <4>1, <5>1, <5>3, Zenon
      <4>4. QED
        BY <4>2, <4>3, Zenon
    <3>3. QED
      BY <3>2, Zenon DEF PinAlone
  <2>3. QED
    BY <1>3, <2>1, <2>2 DEF Redeliver
<1>4. ASSUME NEW h \in running, Handle(h) \/ Throw(h)
      PROVE  PinAlone'
  <2>1. PICK label \in Steps : Move(h, label) \/ Done(h)
    BY <1>4 DEF Handle, Throw, ApplyEdit, ApplyFlag, PinExisting, PinCount, ApplyPin,
       ApplyUnpin, EvictList, Announce, FirstStep, Steps
  <2>2. CASE Done(h)
    BY <1>1, <2>2 DEF Done, PinAlone
  <2>3. CASE Move(h, label)
    <3> DEFINE r == [h EXCEPT !.pc = label]
    <3>1. r.op = h.op /\ (r.zombie <=> h.zombie)
      BY <1>t DEF Handlers
    <3>2. running' = (running \ {h}) \cup {r}
      BY <2>3 DEF Move
    <3> HIDE DEF r
    <3>3. QED
      BY <1>1, <3>1, <3>2 DEF PinAlone
  <2>4. QED
    BY <2>1, <2>2, <2>3
<1>5. CASE /\ \A op \in Ops : ~Deliver(op) /\ ~Redeliver(op)
           /\ \A k \in running : ~Handle(k) /\ ~Throw(k)
  <2>1. running' = running
    BY <1>5 DEF Next, Read, Refuse, Publish, ReadPins, FillList, Reaction, eventVars, vars
  <2>2. QED
    BY <1>1, <2>1 DEF PinAlone
<1>6. QED
  BY <1>1, <1>2, <1>3, <1>4, <1>5

LEMMA PinStep ==
  ASSUME OpsTypeOK, PinInv, [Next]_vars, "pin" \notin overlapped'
  PROVE  PinInv'
<1>t. \A k \in running : k \in Handlers
  BY DEF OpsTypeOK
<1>a. /\ PinAlone /\ PinAlone' /\ Cardinality(pinned) <= MaxPins
      /\ \A h \in running : At(h, "pin", "apply") => Cardinality(pinned) < MaxPins
  BY PinsHandled DEF PinInv
<1>n. Cardinality(pinned) \in Nat /\ MaxPins \in Nat /\ IsFiniteSet(pinned)
  BY FS_CardinalityType, MaxPinsAssumption DEF OpsTypeOK
<1> DEFINE Room == \A h \in running' : h.op = "pin" /\ h.pc = "apply"
                                         => Cardinality(pinned') < MaxPins
<1>1. ASSUME NEW h \in running, ApplyPin(h)
      PROVE  Cardinality(pinned') <= MaxPins /\ Room
  <2>1. Cardinality(pinned') <= Cardinality(pinned) + 1 /\ Cardinality(pinned) < MaxPins
    <3>1. pinned' = pinned \cup {h.event.msg} /\ At(h, "pin", "apply")
      BY <1>1 DEF ApplyPin
    <3>2. \/ Cardinality(pinned') = Cardinality(pinned)
          \/ Cardinality(pinned') = Cardinality(pinned) + 1
      BY <1>n, <3>1, FS_AddElement
    <3>3. QED
      BY <1>a, <1>n, <3>1, <3>2
  <2>2. \A k \in running' : ~(k.op = "pin" /\ k.pc = "apply")
    <3>1. PICK label \in {"existing", "evict"} : Move(h, label)
      BY <1>1 DEF ApplyPin
    <3> DEFINE r == [h EXCEPT !.pc = label]
    <3>2. r.pc # "apply" /\ running' = (running \ {h}) \cup {r}
      BY <1>t, <3>1 DEF Move, Handlers
    <3> HIDE DEF r
    <3>3. \A k \in running \ {h} : k.op # "pin"
      BY <1>1, <1>a DEF ApplyPin, At, PinAlone
    <3>4. QED
      BY <3>2, <3>3
  <2>3. Cardinality(pinned') \in Nat
    BY <1>1, <1>n, FS_AddElement, FS_CardinalityType DEF ApplyPin
  <2>4. QED
    BY <1>n, <2>1, <2>2, <2>3
<1>2. ASSUME \A h \in running : ~ApplyPin(h)
      PROVE  Cardinality(pinned') <= Cardinality(pinned) /\ Cardinality(pinned') \in Nat
  <2>1. pinned' \subseteq pinned
    BY <1>2 DEF Next, Read, Refuse, Publish, Deliver, Redeliver, Handle, Throw, ApplyEdit,
       ApplyFlag, PinExisting, PinCount, ApplyUnpin, EvictList, Announce, ReadPins,
       FillList, Reaction, pinRest, rowVars, vars
  <2>2. QED
    BY <1>n, <2>1, FS_Subset, FS_CardinalityType
<1>3. ASSUME NEW h \in running, PinCount(h)
      PROVE  Room
  <2>1. CASE Full
    <3>1. \A k \in running' : k.op # "pin"
      BY <1>3, <1>a, <2>1 DEF PinCount, Done, At, PinAlone
    <3>2. QED
      BY <3>1
  <2>2. CASE ~Full
    <3>1. Cardinality(pinned) < MaxPins /\ pinned' = pinned
      BY <1>3, <1>n, <2>2 DEF PinCount, Full
    <3>2. QED
      BY <3>1
  <2>3. QED
    BY <2>1, <2>2
<1>4. ASSUME \A h \in running : ~PinCount(h) /\ ~ApplyPin(h)
      PROVE  Room
  <2>1. ASSUME NEW k \in running', k.op = "pin", k.pc = "apply"
        PROVE  \E h \in running : At(h, "pin", "apply")
    <3>0. CASE k \in running
      BY <2>1, <3>0 DEF At
    <3>1. ASSUME NEW op \in Ops, Deliver(op), k \notin running
          PROVE  FALSE
      <4> DEFINE r == [op |-> op, event |-> topic[op][next[op]], pc |-> FirstStep(op),
                       zombie |-> FALSE]
      <4>1. k = r
        BY <3>1, Zenon DEF Deliver
      <4>2. k.op = op /\ k.pc = FirstStep(op)
        BY <4>1, Zenon
      <4>3. QED
        BY <2>1, <4>2 DEF FirstStep
    <3>2. ASSUME NEW op \in Ops, Redeliver(op), k \notin running
          PROVE  \E h \in running : At(h, "pin", "apply")
      <4>1. running' = {[h EXCEPT !.zombie = h.zombie \/ h.op = op] : h \in running}
        BY <3>2 DEF Redeliver
      <4>2. PICK h \in running : k = [h EXCEPT !.zombie = h.zombie \/ h.op = op]
        BY <4>1, Zenon
      <4>3. h.op = k.op /\ h.pc = k.pc
        BY <1>t, <4>2, Zenon DEF Handlers
      <4>4. QED
        BY <2>1, <4>3 DEF At
    <3>3. ASSUME NEW h \in running, Handle(h) \/ Throw(h), k \notin running
          PROVE  FALSE
      <4>1. k.op = h.op
        <5>1. PICK label \in Steps : Move(h, label) \/ Done(h)
          BY <3>3 DEF Handle, Throw, ApplyEdit, ApplyFlag, PinExisting, PinCount, ApplyPin,
             ApplyUnpin, EvictList, Announce, FirstStep, Steps
        <5>2. QED
          BY <1>t, <3>3, <5>1 DEF Move, Done, Handlers
      <4>2. PICK label \in Steps \ {"apply"} : Move(h, label) \/ Done(h)
        BY <1>4, <2>1, <3>3, <4>1 DEF Handle, Throw, ApplyEdit, ApplyFlag, PinExisting,
           EvictList, Announce, ApplyUnpin, At, Flags, FirstStep, Steps
      <4>3. QED
        BY <1>t, <2>1, <3>3, <4>2 DEF Move, Done, Handlers
    <3>4. CASE /\ \A op \in Ops : ~Deliver(op) /\ ~Redeliver(op)
               /\ \A h \in running : ~Handle(h) /\ ~Throw(h)
      <4>1. running' = running
        BY <3>4 DEF Next, Read, Refuse, Publish, ReadPins, FillList, Reaction, eventVars,
           vars
      <4>2. QED
        BY <2>1, <4>1 DEF At
    <3>5. QED
      BY <3>0, <3>1, <3>2, <3>3, <3>4
  <2>2. QED
    BY <1>2, <1>4, <1>a, <1>n, <2>1
<1>5. Cardinality(pinned') <= MaxPins /\ Room
  BY <1>1, <1>2, <1>3, <1>4, <1>a, <1>n
<1>6. QED
  BY <1>a, <1>5 DEF PinInv, At

-----------------------------------------------------------------------------
(* The cached list.                                                        *)

\* Whoever is about to evict the list still is, or has, or could not.
LEMMA EvictionsStay ==
  ASSUME OpsTypeOK, [Next]_vars, Evicting, \A h \in running : ~EvictList(h), ~listUnsafe'
  PROVE  Evicting'
<1>t. \A k \in running : k \in Handlers
  BY DEF OpsTypeOK
<1>1. PICK g \in running : g.pc = "evict"
  BY DEF Evicting
<1>2. ASSUME NEW op \in Ops, Redeliver(op)
      PROVE  Evicting'
  <2>1. CASE /\ running' = {h \in running : h.op # op}
             /\ listUnsafe' = (listUnsafe \/ \E h \in running : At(h, op, "evict"))
    <3>1. g.op # op
      BY <1>1, <2>1 DEF At
    <3>2. QED
      BY <1>1, <2>1, <3>1 DEF Evicting
  <2>2. CASE running' = {[h EXCEPT !.zombie = h.zombie \/ h.op = op] : h \in running}
    <3> DEFINE z == [g EXCEPT !.zombie = g.zombie \/ g.op = op]
    <3>1. z \in running' /\ z.pc = "evict"
      BY <1>1, <1>t, <2>2, Zenon DEF Handlers
    <3> HIDE DEF z
    <3>2. QED
      BY <3>1 DEF Evicting
  <2>3. QED
    BY <1>2, <2>1, <2>2 DEF Redeliver
<1>3. ASSUME NEW h \in running, Handle(h) \/ Throw(h)
      PROVE  Evicting'
  <2>1. h.pc # "evict" \/ running' = running
    BY <1>3 DEF Handle, Throw, ApplyEdit, ApplyFlag, PinExisting, PinCount, ApplyPin,
       ApplyUnpin, Announce, At
  <2>2. running \ {h} \subseteq running'
    BY <1>3 DEF Handle, Throw, ApplyEdit, ApplyFlag, PinExisting, PinCount, ApplyPin,
       ApplyUnpin, EvictList, Announce, Move, Done
  <2>3. QED
    BY <1>1, <2>1, <2>2 DEF Evicting
<1>4. CASE /\ \A op \in Ops : ~Redeliver(op)
           /\ \A k \in running : ~Handle(k) /\ ~Throw(k)
  <2>1. running \subseteq running'
    BY <1>4 DEF Next, Read, Refuse, Publish, Deliver, ReadPins, FillList, Reaction,
       eventVars, vars
  <2>2. QED
    BY <1>1, <2>1 DEF Evicting
<1>5. QED
  BY <1>2, <1>3, <1>4

\* Whoever changes the table evicts the list next.
LEMMA PinsEvict ==
  ASSUME OpsTypeOK, [Next]_vars, pinned' # pinned
  PROVE  Evicting'
<1>1. PICK h \in running : ApplyPin(h) \/ ApplyUnpin(h)
  BY DEF Next, Read, Refuse, Publish, Deliver, Redeliver, Handle, Throw, ApplyEdit,
     ApplyFlag, PinExisting, PinCount, EvictList, Announce, ReadPins, FillList, Reaction,
     pinRest, rowVars, vars
<1>2. h \in Handlers
  BY DEF OpsTypeOK
<1>3. Move(h, "evict")
  BY <1>1 DEF ApplyPin, ApplyUnpin
<1>4. [h EXCEPT !.pc = "evict"].pc = "evict"
  BY <1>2 DEF Handlers
<1>5. QED
  BY <1>3, <1>4 DEF Move, Evicting

LEMMA ListStep ==
  ASSUME OpsTypeOK, ListInv, [Next]_vars
  PROVE  ListInv'
<1> SUFFICES ASSUME ~listUnsafe'
             PROVE  ListInv'
  BY DEF ListInv, PinnedListFresh
<1>u. ~listUnsafe
  BY DEF Next, Read, Refuse, Publish, Deliver, Redeliver, Handle, Throw, ApplyEdit,
     ApplyFlag, PinExisting, PinCount, ApplyPin, ApplyUnpin, EvictList, Announce, ReadPins,
     FillList, Reaction, pinRest, listVars, vars
<1>i. /\ list.known => list.pins = pinned \/ Evicting
      /\ reader # NoReader /\ ~reader.overtaken => reader.pins = pinned \/ Evicting
  BY <1>u DEF ListInv, PinnedListFresh, Evicting
<1> DEFINE Fresh == /\ list'.known => list'.pins = pinned' \/ Evicting'
                    /\ reader' # NoReader /\ ~reader'.overtaken
                         => reader'.pins = pinned' \/ Evicting'
<1>1. ASSUME NEW h \in running, EvictList(h)
      PROVE  Fresh
  <2>1. list' = NoList /\ reader' = [reader EXCEPT !.overtaken = reader # NoReader]
    BY <1>1 DEF EvictList
  <2>2. ~list'.known
    BY <2>1 DEF NoList
  <2>3. ASSUME reader = NoReader
        PROVE  reader' = NoReader
    BY <2>1, <2>3, Zenon DEF NoReader
  <2>4. ASSUME reader # NoReader
        PROVE  reader'.overtaken
    BY <2>1, <2>4, Zenon DEF OpsTypeOK
  <2>5. QED
    BY <2>2, <2>3, <2>4
<1>2. ASSUME ReadPins
      PROVE  Fresh
  <2>1. /\ reader' = [NoReader EXCEPT !.pc = "fill", !.pins = pinned]
        /\ pinned' = pinned /\ list' = list /\ running' = running
    BY <1>2 DEF ReadPins, rowVars, eventVars
  <2>2. reader'.pins = pinned
    BY <2>1 DEF NoReader
  <2>3. QED
    BY <1>i, <2>1, <2>2 DEF Evicting
<1>3. ASSUME FillList
      PROVE  Fresh
  <2>1. reader' = NoReader /\ pinned' = pinned /\ running' = running /\ reader # NoReader
    BY <1>3 DEF FillList, rowVars, eventVars
  <2>2. CASE list' = [known |-> TRUE, pins |-> reader.pins] /\ ~reader.overtaken
    <3>1. list'.pins = reader.pins
      BY <2>2
    <3>2. QED
      BY <1>i, <2>1, <2>2, <3>1 DEF Evicting
  <2>3. CASE list' = list
    BY <1>i, <2>1, <2>3 DEF Evicting
  <2>4. QED
    BY <1>3, <2>2, <2>3 DEF FillList
<1>4. ASSUME ~ReadPins, ~FillList, \A h \in running : ~EvictList(h)
      PROVE  Fresh
  <2>1. list' = list /\ reader' = reader
    BY <1>4 DEF Next, Read, Refuse, Publish, Deliver, Redeliver, Handle, Throw, ApplyEdit,
       ApplyFlag, PinExisting, PinCount, ApplyPin, ApplyUnpin, Announce, Reaction, pinRest,
       listVars, vars
  <2>2. CASE pinned' # pinned
    BY <2>2, PinsEvict
  <2>3. CASE pinned' = pinned
    <3>1. Evicting => Evicting'
      BY <1>4, EvictionsStay
    <3>2. QED
      BY <1>i, <2>1, <2>3, <3>1
  <2>4. QED
    BY <2>2, <2>3
<1>5. Fresh
  BY <1>1, <1>2, <1>3, <1>4
<1>6. QED
  BY <1>5 DEF ListInv, PinnedListFresh, Evicting

-----------------------------------------------------------------------------
(* Reactions.                                                              *)

Flushes == [pc : {"idle", "run"}, todo : SUBSET Messages, at : SUBSET Messages,
            seen : SUBSET Reactors, done : SUBSET Messages]

ReactTypeOK ==
  /\ hash \in [Messages -> SUBSET Reactors]
  /\ synced \in [Messages -> SUBSET Reactors]
  /\ dirty \subseteq Messages
  /\ reacting \subseteq [id : Nat, msg : Messages]
  /\ flush \in [Jobs -> Flushes]

Marking(m) == \E r \in reacting : r.msg = m

\* Of a message nobody is about to mark: what a flush has read is what there
\* is, what it has written too, and otherwise the message is marked.
InSync(m) ==
  /\ \A j \in Jobs : m \in flush[j].at => flush[j].seen = hash[m]
  /\ \A j \in Jobs : m \in flush[j].done => synced[m] = hash[m]
  /\ synced[m] # hash[m] => m \in dirty

ReactInv == \A m \in Messages : m \notin unsafe /\ ~Marking(m) => InSync(m)

\* Of the operations only an edit that brings metadata touches reactions.
ReplacesMetadata(m) ==
  /\ synced' = [synced EXCEPT ![m] = {}]
  /\ unsafe' = unsafe \cup {m}
  /\ UNCHANGED <<hash, dirty, reacting, flush>>

LEMMA ReactionsTouched ==
  ASSUME OpsTypeOK, [Next]_vars
  PROVE  \/ ReactionsNext
         \/ \E m \in Messages : ReplacesMetadata(m)
         \/ UNCHANGED reactionVars
<1>1. ASSUME NEW h \in running, ApplyEdit(h)
      PROVE  \/ \E m \in Messages : ReplacesMetadata(m)
             \/ UNCHANGED reactionVars
  <2>1. h.event.msg \in Messages
    BY DEF OpsTypeOK, Handlers, Requests
  <2>2. CASE h.event.meta
    BY <1>1, <2>1, <2>2 DEF ApplyEdit, ReplacesMetadata
  <2>3. CASE ~h.event.meta
    BY <1>1, <2>3 DEF ApplyEdit, reactionVars
  <2>4. QED
    BY <2>2, <2>3
<1>2. ASSUME NEW h \in running, Handle(h) \/ Throw(h), ~ApplyEdit(h)
      PROVE  UNCHANGED reactionVars
  BY <1>2 DEF Handle, Throw, ApplyFlag, PinExisting, PinCount, ApplyPin, ApplyUnpin,
     EvictList, Announce, pinRest
<1>3. CASE Reaction
  BY <1>3 DEF Reaction
<1>4. CASE \/ \E op \in Ops, m \in Messages, b \in BOOLEAN : Read(op, m, b)
           \/ \E a \in asked : Refuse(a) \/ Publish(a)
           \/ \E op \in Ops : Deliver(op) \/ Redeliver(op)
           \/ ReadPins \/ FillList \/ UNCHANGED vars
  BY <1>4 DEF Read, Refuse, Publish, Deliver, Redeliver, ReadPins, FillList, vars
<1>5. QED
  BY <1>1, <1>2, <1>3, <1>4 DEF Next

LEMMA NoFlushType == NoFlush \in Flushes /\ NoFlush.at = {} /\ NoFlush.done = {}
BY DEF NoFlush, Flushes

LEMMA BeginFlushType ==
  ASSUME ReactTypeOK
  PROVE  LET f == [NoFlush EXCEPT !.pc = "run", !.todo = dirty]
         IN  f \in Flushes /\ f.at = {} /\ f.done = {}
BY DEF ReactTypeOK, NoFlush, Flushes

\* What an update of a row makes of the state of a flush.
LEMMA WrittenType ==
  ASSUME NEW f \in Flushes, NEW m \in Messages
  PROVE  LET g == [f EXCEPT !.at = {}, !.seen = {}, !.done = @ \cup {m}]
         IN  g \in Flushes /\ g.at = {} /\ g.done = f.done \cup {m}
BY DEF Flushes

LEMMA UnwrittenType ==
  ASSUME NEW f \in Flushes
  PROVE  LET g == [f EXCEPT !.at = {}, !.seen = {}]
         IN  g \in Flushes /\ g.at = {} /\ g.done = f.done
BY DEF Flushes

\* A step of a flush: of job j, to the state f.
LEMMA FlushStep ==
  ASSUME ReactTypeOK, ReactInv, NEW j \in Jobs, NEW f \in Flushes, Set(j, f),
         UNCHANGED <<hash, reacting, unsafe>>,
         synced' \in [Messages -> SUBSET Reactors], dirty' \subseteq Messages,
         \A m \in f.at : (m \in flush[j].at /\ f.seen = flush[j].seen) \/ f.seen = hash[m],
         \A m \in Messages : InSync(m) =>
           /\ m \in f.done => m \in flush[j].done \/ synced'[m] = hash[m]
           /\ synced'[m] \in {synced[m], hash[m]}
           /\ synced'[m] # hash[m] => m \in dirty'
  PROVE  ReactTypeOK' /\ ReactInv'
<1>1. ReactTypeOK'
  BY DEF ReactTypeOK, Set
<1>2. \A k \in Jobs : flush'[k] = IF k = j THEN f ELSE flush[k]
  BY DEF ReactTypeOK, Set
<1>3. ASSUME NEW m \in Messages, InSync(m)
      PROVE  InSync(m)'
  BY <1>2, <1>3 DEF InSync
<1>4. QED
  BY <1>1, <1>3 DEF ReactInv, Marking

LEMMA ReactStep ==
  ASSUME OpsTypeOK, ReactTypeOK, ReactInv, [Next]_vars
  PROVE  ReactTypeOK' /\ ReactInv'
<1>1. ASSUME NEW m \in Messages, NEW u \in Reactors, React(m, u)
      PROVE  ReactTypeOK' /\ ReactInv'
  <2> DEFINE r == [id |-> requests, msg |-> m]
  <2>1. r \in [id : Nat, msg : Messages] /\ r.msg = m
    BY DEF OpsTypeOK
  <2>2. reacting' = reacting \cup {r} /\ UNCHANGED <<dirty, synced, flush, unsafe>>
    BY <1>1, Zenon DEF React
  <2> HIDE DEF r
  <2>3. hash' = [hash EXCEPT ![m] = (@ \ {u}) \cup ({u} \ @)]
    BY <1>1 DEF React
  <2>4. ReactTypeOK'
    <3>1. hash' \in [Messages -> SUBSET Reactors]
      BY <2>3 DEF ReactTypeOK
    <3>2. QED
      BY <2>1, <2>2, <3>1 DEF ReactTypeOK
  <2>5. ASSUME NEW n \in Messages, n \notin unsafe', ~Marking(n)'
        PROVE  InSync(n)'
    <3>1. n # m /\ ~Marking(n)
      BY <2>1, <2>2, <2>5 DEF Marking
    <3>2. hash'[n] = hash[n] /\ InSync(n)
      BY <2>2, <2>3, <2>5, <3>1 DEF ReactTypeOK, ReactInv
    <3>3. QED
      BY <2>2, <3>2 DEF InSync
  <2>6. QED
    BY <2>4, <2>5 DEF ReactInv
<1>2. ASSUME NEW r \in reacting, MarkDirty(r)
      PROVE  ReactTypeOK' /\ ReactInv'
  <2>1. r.msg \in Messages
    BY DEF ReactTypeOK
  <2>2. /\ dirty' = dirty \cup {r.msg} /\ reacting' = reacting \ {r}
        /\ unsafe' = IF HeldByFlush(r.msg) THEN unsafe \cup {r.msg} ELSE unsafe
        /\ UNCHANGED <<hash, synced, flush>>
    BY <1>2 DEF MarkDirty
  <2>3. ReactTypeOK'
    BY <2>1, <2>2 DEF ReactTypeOK
  <2>4. ASSUME NEW n \in Messages, n \notin unsafe', ~Marking(n)'
        PROVE  InSync(n)'
    <3>1. CASE n = r.msg
      <4>1. ~HeldByFlush(n)
        BY <2>2, <2>4, <3>1
      <4>2. QED
        BY <2>2, <3>1, <4>1 DEF HeldByFlush, InSync
    <3>2. CASE n # r.msg
      <4>1. InSync(n)
        BY <2>2, <2>4, <3>2 DEF ReactInv, Marking
      <4>2. QED
        BY <2>2, <4>1 DEF InSync
    <3>3. QED
      BY <3>1, <3>2
  <2>5. QED
    BY <2>3, <2>4 DEF ReactInv
<1>3. ASSUME NEW r \in reacting, MarkFails(r)
      PROVE  ReactTypeOK' /\ ReactInv'
  <2>1. /\ reacting' = reacting \ {r} /\ unsafe' = unsafe \cup {r.msg}
        /\ UNCHANGED <<hash, dirty, synced, flush>>
    BY <1>3 DEF MarkFails
  <2>2. QED
    BY <2>1 DEF ReactTypeOK, ReactInv, InSync, Marking
<1>4. ASSUME NEW j \in Jobs, BeginFlush(j)
      PROVE  ReactTypeOK' /\ ReactInv'
  <2> DEFINE f == [NoFlush EXCEPT !.pc = "run", !.todo = dirty]
  <2>1. Set(j, f) /\ f \in Flushes /\ f.at = {} /\ f.done = {}
    BY <1>4, BeginFlushType DEF BeginFlush
  <2> HIDE DEF f
  <2>2. UNCHANGED <<hash, reacting, unsafe, synced, dirty>>
    BY <1>4 DEF BeginFlush
  <2>3. QED
    BY <2>1, <2>2, FlushStep DEF ReactTypeOK, InSync
<1>5. ASSUME NEW j \in Jobs, EndFlush(j)
      PROVE  ReactTypeOK' /\ ReactInv'
  <2>1. Set(j, NoFlush) /\ UNCHANGED <<hash, reacting, unsafe, synced>>
    BY <1>5 DEF EndFlush
  <2>2. dirty' = dirty \ flush[j].done
    BY <1>5 DEF EndFlush, Synced
  <2>3. QED
    BY <2>1, <2>2, NoFlushType, FlushStep DEF ReactTypeOK, InSync
<1>6. ASSUME NEW j \in Jobs, JobCrashes(j)
      PROVE  ReactTypeOK' /\ ReactInv'
  <2>1. Set(j, NoFlush) /\ UNCHANGED <<hash, reacting, unsafe, synced, dirty>>
    BY <1>6 DEF JobCrashes
  <2>2. QED
    BY <2>1, NoFlushType, FlushStep DEF ReactTypeOK, InSync
<1>7. ASSUME NEW j \in Jobs, NEW m \in Messages, ReadHash(j, m)
      PROVE  ReactTypeOK' /\ ReactInv'
  <2>1. flush[j] \in Flushes /\ hash[m] \in SUBSET Reactors
    BY DEF ReactTypeOK
  <2> DEFINE f == [flush[j] EXCEPT !.todo = @ \ {m}, !.at = {m}, !.seen = hash[m]]
  <2>2. f \in Flushes /\ f.at = {m} /\ f.seen = hash[m] /\ f.done = flush[j].done
    BY <2>1 DEF Flushes
  <2>3. Set(j, f) /\ UNCHANGED <<hash, reacting, unsafe, synced, dirty>>
    BY <1>7 DEF ReadHash
  <2> HIDE DEF f
  <2>4. QED
    BY <2>2, <2>3, FlushStep DEF ReactTypeOK, InSync
<1>8. ASSUME NEW j \in Jobs, NEW m \in Messages, UpdateRow(j, m)
      PROVE  ReactTypeOK' /\ ReactInv'
  <2>1. /\ flush[j] \in Flushes /\ flush[j].seen \in SUBSET Reactors
        /\ m \in flush[j].at
    BY <1>8 DEF ReactTypeOK, Flushes, UpdateRow
  <2>2. UNCHANGED <<hash, reacting, unsafe, dirty>>
    BY <1>8 DEF UpdateRow
  <2>3. CASE /\ synced' = [synced EXCEPT ![m] = flush[j].seen]
             /\ Set(j, [flush[j] EXCEPT !.at = {}, !.seen = {}, !.done = @ \cup {m}])
    <3> DEFINE f == [flush[j] EXCEPT !.at = {}, !.seen = {}, !.done = @ \cup {m}]
    <3>1. f \in Flushes /\ f.at = {} /\ f.done = flush[j].done \cup {m} /\ Set(j, f)
      BY <2>1, <2>3, WrittenType
    <3> HIDE DEF f
    <3>2. \A n \in Messages : synced'[n] = IF n = m THEN flush[j].seen ELSE synced[n]
      BY <2>3 DEF ReactTypeOK
    <3>3. synced' \in [Messages -> SUBSET Reactors]
      BY <2>1, <2>3 DEF ReactTypeOK
    <3>4. \A n \in Messages : InSync(n) =>
            /\ n \in f.done => n \in flush[j].done \/ synced'[n] = hash[n]
            /\ synced'[n] \in {synced[n], hash[n]}
            /\ synced'[n] # hash[n] => n \in dirty'
      BY <2>1, <2>2, <3>1, <3>2 DEF InSync
    <3>5. QED
      BY <2>2, <3>1, <3>3, <3>4, FlushStep DEF ReactTypeOK
  <2>4. CASE Set(j, [flush[j] EXCEPT !.at = {}, !.seen = {}]) /\ UNCHANGED synced
    <3> DEFINE f == [flush[j] EXCEPT !.at = {}, !.seen = {}]
    <3>1. f \in Flushes /\ f.at = {} /\ f.done = flush[j].done /\ Set(j, f)
      BY <2>1, <2>4, UnwrittenType
    <3> HIDE DEF f
    <3>2. QED
      BY <2>2, <2>4, <3>1, FlushStep DEF ReactTypeOK, InSync
  <2>5. QED
    BY <1>8, <2>3, <2>4 DEF UpdateRow
<1>9. CASE LockExpires \/ UNCHANGED reactionVars
  BY <1>9 DEF LockExpires, reactionVars, ReactTypeOK, ReactInv, InSync, Marking
<1>10. ASSUME NEW m \in Messages, ReplacesMetadata(m)
       PROVE  ReactTypeOK' /\ ReactInv'
  <2>1. ReactTypeOK'
    BY <1>10 DEF ReplacesMetadata, ReactTypeOK
  <2>2. \A n \in Messages \ {m} : synced'[n] = synced[n]
    BY <1>10 DEF ReplacesMetadata, ReactTypeOK
  <2>3. QED
    BY <1>10, <2>1, <2>2 DEF ReplacesMetadata, ReactInv, InSync, Marking
<1>11. QED
  BY <1>1, <1>2, <1>3, <1>4, <1>5, <1>6, <1>7, <1>8, <1>9, <1>10, ReactionsTouched, Zenon
     DEF ReactionsNext

LEMMA ReactInitial == Init => ReactTypeOK /\ ReactInv
<1> SUFFICES ASSUME Init PROVE ReactTypeOK /\ ReactInv
  OBVIOUS
<1>1. /\ hash = [m \in Messages |-> {}] /\ synced = hash /\ dirty = {} /\ reacting = {}
      /\ flush = [j \in Jobs |-> NoFlush]
  BY DEF Init, ReactionsInit
<1>2. ReactTypeOK
  BY <1>1, NoFlushType DEF ReactTypeOK
<1>3. QED
  BY <1>1, <1>2, NoFlushType DEF ReactInv, InSync

-----------------------------------------------------------------------------
(* What clients are shown.                                                 *)

Exempt(op) == op \in overlapped \cup gaveUp

Of(op) == {h \in running : h.op = op}

\* One handler at a time, of the next event.
Serial(op) ==
  /\ next[op] <= Len(topic[op]) + 1
  /\ \A h \in Of(op) :
       /\ Of(op) = {h} /\ ~h.zombie
       /\ next[op] <= Len(topic[op]) /\ h.event = topic[op][next[op]]

SerialInv == \A op \in Ops : op \notin overlapped => Serial(op)

Labelled ==
  \A h \in running : h.op \in Flags \cup {"edit"} => h.pc \in {"apply", "announce"}

\* A content of m that no edit handled so far has to replace.
IsLatest(c, m) ==
  LET edits == topic["edit"]
      handled == {n \in DOMAIN edits : n < next["edit"] /\ edits[n].msg = m}
  IN  \/ c = 0 /\ handled = {}
      \/ \E k \in DOMAIN edits :
           edits[k].msg = m /\ edits[k].new = c /\ \A n \in handled : n <= k

EditInv ==
  ~Exempt("edit") =>
    /\ \A m \in Messages : IsLatest(text[m], m) /\ IsLatest(shown.text[m], m)
    /\ \A h \in Of("edit") : h.pc = "announce" => text[h.event.msg] = h.event.new

\* A withdrawal is shown if it is in the table, and what is handled is shown.
FlagInv(op) ==
  ~Exempt(op) =>
    /\ \A m \in Messages :
         /\ op \in shown.flags[m] => op \in flags[m]
         /\ op \in flags[m] => \E n \in DOMAIN topic[op] : topic[op][n].msg = m
    /\ \A h \in Of(op) : h.pc = "announce" => op \in flags[h.event.msg]
    /\ \A n \in DOMAIN topic[op] : n < next[op] => op \in shown.flags[topic[op][n].msg]

ShownTypeOK ==
  /\ flags \in [Messages -> SUBSET Flags]
  /\ shown \in [text : [Messages -> Nat], flags : [Messages -> SUBSET Flags],
                pins : SUBSET Messages]

CatchUpInv ==
  /\ ShownTypeOK /\ Labelled /\ SerialInv
  /\ EditInv /\ FlagInv("delete") /\ FlagInv("revoke")

\* How a step looks to the events of one topic: a publish or nothing at all...
Stays(op) ==
  /\ topic'[op] = topic[op] \/ \E a \in Requests : topic'[op] = Append(topic[op], a)
  /\ next'[op] = next[op] /\ Of(op)' = Of(op)

\* ...the delivery of the next event...
Starts(op) ==
  /\ topic'[op] = topic[op] /\ next'[op] = next[op] /\ next[op] <= Len(topic[op])
  /\ \E h \in Handlers : /\ Of(op)' = {h} /\ h.event = topic[op][next[op]]
                         /\ ~h.zombie /\ h.pc = FirstStep(op)

\* ...a redelivery...
Rewinds(op) ==
  /\ topic'[op] = topic[op] /\ next'[op] \in 1 .. next[op] /\ Of(op)' = {}

\* ...or a step of the one handler, which may be its last.
Moves(op) ==
  /\ topic'[op] = topic[op] /\ next'[op] = next[op]
  /\ \E h \in Of(op) : \E label \in Steps :
       /\ Handle(h) \/ Throw(h)
       /\ Move(h, label) /\ Of(op)' = {[h EXCEPT !.pc = label]}

Ends(op) ==
  /\ topic'[op] = topic[op] /\ next'[op] = next[op] + 1 /\ Of(op)' = {}
  /\ \E h \in Of(op) : (Handle(h) \/ Throw(h)) /\ Done(h)

LEMMA RecordKept ==
  ASSUME NEW h \in Handlers, NEW q \in Ops, h.op # q
  PROVE  [h EXCEPT !.zombie = h.zombie \/ h.op = q] = h
BY Zenon DEF Handlers

LEMMA HandlerView ==
  ASSUME OpsTypeOK, NEW op \in Ops, Serial(op),
         NEW h \in running, Handle(h) \/ Throw(h)
  PROVE  Stays(op) \/ Moves(op) \/ Ends(op)
<1>1. h \in Handlers /\ topic' = topic
  BY DEF Handle, Throw, ApplyEdit, ApplyFlag, PinExisting, PinCount, ApplyPin, ApplyUnpin,
     EvictList, Announce, pinRest, OpsTypeOK
<1>2. PICK label \in Steps : Move(h, label) \/ Done(h)
  BY DEF Handle, Throw, ApplyEdit, ApplyFlag, PinExisting, PinCount, ApplyPin,
     ApplyUnpin, EvictList, Announce, FirstStep, Steps
<1> DEFINE r == [h EXCEPT !.pc = label]
<1>3. r.op = h.op
  BY <1>1 DEF Handlers
<1>4. CASE h.op # op
  <2>1. next'[op] = next[op]
    BY <1>2, <1>4 DEF Move, Done, OpsTypeOK
  <2>2. running' = (running \ {h}) \cup {r} \/ running' = running \ {h}
    BY <1>2 DEF Move, Done
  <2> HIDE DEF r
  <2>3. Of(op)' = Of(op)
    BY <1>3, <1>4, <2>2 DEF Of
  <2>4. QED
    BY <1>1, <2>1, <2>3 DEF Stays
<1>5. CASE h.op = op
  <2>1. h \in Of(op) /\ Of(op) = {h} /\ ~h.zombie
    BY <1>5 DEF Of, Serial
  <2>2. CASE Move(h, label)
    <3>1. running' = (running \ {h}) \cup {r} /\ next' = next
      BY <2>2 DEF Move
    <3>2. Of(op)' = {r}
      <4> HIDE DEF r
      <4>1. QED
        BY <1>3, <1>5, <2>1, <3>1 DEF Of
    <3>3. QED
      BY <1>1, <2>1, <2>2, <3>1, <3>2 DEF Moves
  <2>3. CASE Done(h)
    <3>1. next'[op] = next[op] + 1 /\ running' = running \ {h}
      BY <1>5, <2>1, <2>3 DEF Done, OpsTypeOK
    <3>2. Of(op)' = {}
      BY <2>1, <3>1 DEF Of
    <3>3. QED
      BY <1>1, <2>1, <2>3, <3>1, <3>2 DEF Ends
  <2>4. QED
    BY <1>2, <2>2, <2>3
<1>6. QED
  BY <1>4, <1>5

LEMMA TopicView ==
  ASSUME OpsTypeOK, NEW op \in Ops, Serial(op), [Next]_vars, op \notin overlapped'
  PROVE  Stays(op) \/ Starts(op) \/ Rewinds(op) \/ Moves(op) \/ Ends(op)
<1>1. ASSUME NEW a \in asked, Publish(a)
      PROVE  Stays(op)
  <2>1. a \in Requests /\ a.op \in Ops
    BY DEF OpsTypeOK, Requests
  <2>2. topic' = [topic EXCEPT ![a.op] = Append(@, a)] /\ UNCHANGED <<next, running>>
    BY <1>1 DEF Publish
  <2>3. QED
    BY <2>1, <2>2 DEF Stays, Of, OpsTypeOK
<1>2. ASSUME NEW q \in Ops, Deliver(q)
      PROVE  Stays(op) \/ Starts(op)
  <2> DEFINE r == [op |-> q, event |-> topic[q][next[q]], pc |-> FirstStep(q),
                   zombie |-> FALSE]
  <2>1. topic[q][next[q]] \in Requests /\ FirstStep(q) \in Steps
    BY <1>2 DEF OpsTypeOK, Deliver, FirstStep, Steps
  <2>2. /\ r \in Handlers /\ r.op = q /\ r.event = topic[q][next[q]] /\ ~r.zombie
        /\ r.pc = FirstStep(q)
    BY <2>1, Zenon DEF Handlers
  <2>3. running' = running \cup {r} /\ UNCHANGED <<topic, next>>
    BY <1>2, Zenon DEF Deliver
  <2>4. next[q] <= Len(topic[q]) /\ Live(q) = {}
    BY <1>2 DEF Deliver
  <2> HIDE DEF r
  <2>5. CASE q = op
    <3>1. Of(op) = {}
      BY <2>4, <2>5 DEF Live, Of, Serial
    <3>2. Of(op)' = {r}
      BY <2>2, <2>3, <2>5, <3>1 DEF Of
    <3>3. QED
      BY <2>2, <2>3, <2>4, <2>5, <3>2 DEF Starts
  <2>6. CASE q # op
    <3>1. Of(op)' = Of(op)
      BY <2>2, <2>3, <2>6 DEF Of
    <3>2. QED
      BY <2>3, <3>1 DEF Stays
  <2>7. QED
    BY <2>5, <2>6
<1>3. ASSUME NEW q \in Ops, Redeliver(q)
      PROVE  Stays(op) \/ Rewinds(op)
  <2>1. topic' = topic
    BY <1>3 DEF Redeliver
  <2>2. CASE q = op
    <3>1. running' = {h \in running : h.op # op}
      BY <1>3, <2>2 DEF Redeliver
    <3>2. next'[op] \in 1 .. next[op] /\ Of(op)' = {}
      BY <1>3, <2>2, <3>1 DEF Redeliver, Of, OpsTypeOK
    <3>3. QED
      BY <2>1, <3>2 DEF Rewinds
  <2>3. CASE q # op
    <3>1. next'[op] = next[op]
      BY <1>3, <2>3 DEF Redeliver, OpsTypeOK
    <3>2. Of(op)' = Of(op)
      <4>1. CASE running' = {h \in running : h.op # q}
        BY <2>3, <4>1 DEF Of
      <4>2. CASE running' = {[h EXCEPT !.zombie = h.zombie \/ h.op = q] : h \in running}
        <5> DEFINE z(h) == [h EXCEPT !.zombie = h.zombie \/ h.op = q]
        <5>1. \A h \in running : z(h).op = h.op
          BY DEF OpsTypeOK, Handlers
        <5>2. \A h \in running : h.op = op => z(h) = h
          BY <2>3, RecordKept DEF OpsTypeOK
        <5>3. running' = {z(h) : h \in running}
          BY <4>2
        <5> HIDE DEF z
        <5>4. QED
          BY <5>1, <5>2, <5>3 DEF Of
      <4>3. QED
        BY <1>3, <4>1, <4>2 DEF Redeliver
    <3>3. QED
      BY <2>1, <3>1, <3>2 DEF Stays
  <2>4. QED
    BY <2>2, <2>3
<1>4. ASSUME NEW h \in running, Handle(h) \/ Throw(h)
      PROVE  Stays(op) \/ Moves(op) \/ Ends(op)
  BY <1>4, HandlerView
<1>5. CASE \/ \E q \in Ops, m \in Messages, b \in BOOLEAN : Read(q, m, b)
           \/ \E a \in asked : Refuse(a)
           \/ ReadPins \/ FillList \/ Reaction \/ UNCHANGED vars
  <2>1. UNCHANGED <<topic, next, running>>
    BY <1>5 DEF Read, Refuse, ReadPins, FillList, Reaction, eventVars, vars
  <2>2. QED
    BY <2>1 DEF Stays, Of
<1>6. QED
  BY <1>1, <1>2, <1>3, <1>4, <1>5 DEF Next

\* Exemptions last.
LEMMA ExemptStays ==
  ASSUME OpsTypeOK, [Next]_vars
  PROVE  overlapped \subseteq overlapped' /\ gaveUp \subseteq gaveUp'
<1>1. ASSUME NEW h \in running, Handle(h) \/ Throw(h)
      PROVE  overlapped \subseteq overlapped' /\ gaveUp \subseteq gaveUp'
  BY <1>1 DEF Handle, Throw, ApplyEdit, ApplyFlag, PinExisting, PinCount, ApplyPin,
     ApplyUnpin, EvictList, Announce, pinRest
<1>2. CASE \A h \in running : ~Handle(h) /\ ~Throw(h)
  BY <1>2 DEF Next, Read, Refuse, Publish, Deliver, Redeliver, ReadPins, FillList, Reaction,
     eventVars, vars
<1>3. QED
  BY <1>1, <1>2

LEMMA SerialStep ==
  ASSUME OpsTypeOK, SerialInv, [Next]_vars
  PROVE  SerialInv'
<1> SUFFICES ASSUME NEW op \in Ops, op \notin overlapped' PROVE Serial(op)'
  BY DEF SerialInv
<1>1. Serial(op)
  BY ExemptStays DEF SerialInv
<1>2. topic[op] \in Seq(Requests) /\ next[op] \in Nat \ {0} /\ next'[op] \in Nat \ {0}
  BY TypesStep DEF OpsTypeOK
<1>3. CASE Stays(op)
  <2>1. CASE topic'[op] = topic[op]
    BY <1>1, <1>3, <2>1 DEF Stays, Serial
  <2>2. ASSUME NEW a \in Requests, topic'[op] = Append(topic[op], a)
        PROVE  Serial(op)'
    <3>1. /\ Len(topic'[op]) = Len(topic[op]) + 1
          /\ \A n \in 1 .. Len(topic[op]) : topic'[op][n] = topic[op][n]
      BY <1>2, <2>2
    <3>2. QED
      BY <1>1, <1>2, <1>3, <3>1 DEF Stays, Serial
  <2>3. QED
    BY <1>3, <2>1, <2>2 DEF Stays
<1>4. CASE Starts(op)
  BY <1>1, <1>2, <1>4 DEF Starts, Serial
<1>5. CASE Rewinds(op)
  BY <1>1, <1>2, <1>5 DEF Rewinds, Serial
<1>6. CASE Moves(op)
  <2>1. PICK h \in Of(op), label \in Steps : Of(op)' = {[h EXCEPT !.pc = label]}
    BY <1>6 DEF Moves
  <2> DEFINE r == [h EXCEPT !.pc = label]
  <2>2. r.event = h.event /\ (r.zombie <=> h.zombie)
    BY Zenon DEF OpsTypeOK, Of, Handlers
  <2> HIDE DEF r
  <2>3. QED
    BY <1>1, <1>6, <2>1, <2>2 DEF Moves, Serial
<1>7. CASE Ends(op)
  BY <1>1, <1>2, <1>7 DEF Ends, Serial
<1>8. QED
  BY <1>1, <1>3, <1>4, <1>5, <1>6, <1>7, TopicView

Patches == [text : [Messages -> Nat], flags : [Messages -> SUBSET Flags],
            pins : SUBSET Messages]

\* What a patch changes of what clients show.
LEMMA PatchedShape ==
  ASSUME ShownTypeOK, NEW op \in Ops, NEW e \in Requests
  PROVE  /\ Patched(op, e) \in Patches
         /\ \A m \in Messages :
              /\ Patched(op, e).text[m]
                   = IF op = "edit" /\ m = e.msg THEN e.new ELSE shown.text[m]
              /\ Patched(op, e).flags[m]
                   = IF op \in Flags /\ m = e.msg THEN shown.flags[m] \cup {op}
                                                ELSE shown.flags[m]
<1>1. shown \in Patches /\ e.msg \in Messages /\ e.new \in Nat
  BY DEF ShownTypeOK, Patches, Requests
<1>2. CASE op = "edit"
  <2>1. Patched(op, e) = [shown EXCEPT !.text[e.msg] = e.new]
    BY <1>2 DEF Patched, Flags
  <2>2. QED
    BY <1>1, <1>2, <2>1 DEF Patches, Flags
<1>3. CASE op \in Flags
  <2>1. Patched(op, e) = [shown EXCEPT !.flags[e.msg] = @ \cup {op}]
    BY <1>3 DEF Patched, Flags
  <2>2. Patched(op, e).text = shown.text /\ Patched(op, e).pins = shown.pins
    BY <1>1, <2>1 DEF Patches
  <2>3. Patched(op, e).flags = [shown.flags EXCEPT ![e.msg] = @ \cup {op}]
    BY <1>1, <2>1 DEF Patches
  <2>4. Patched(op, e) \in Patches
    BY <1>1, <1>3, <2>1 DEF Patches
  <2>5. op # "edit"
    BY <1>3 DEF Flags
  <2>6. shown.flags \in [Messages -> SUBSET Flags]
    BY <1>1 DEF Patches
  <2>7. QED
    BY <1>1, <1>3, <2>2, <2>3, <2>4, <2>5, <2>6
<1>4. CASE op = "pin"
  <2>1. Patched(op, e) = [shown EXCEPT !.pins = @ \cup {e.msg}]
    BY <1>4 DEF Patched, Flags
  <2>2. QED
    BY <1>1, <1>4, <2>1 DEF Patches, Flags
<1>5. CASE op = "unpin"
  <2>1. Patched(op, e) = [shown EXCEPT !.pins = @ \ {e.msg}]
    BY <1>5 DEF Patched, Flags
  <2>2. QED
    BY <1>1, <1>5, <2>1 DEF Patches, Flags
<1>6. QED
  BY <1>2, <1>3, <1>4, <1>5 DEF Ops

\* Rows and patches change by three steps only.
LEMMA OnlyHandlersChange ==
  ASSUME OpsTypeOK, [Next]_vars
  PROVE  /\ UNCHANGED text \/ \E h \in running : ApplyEdit(h)
         /\ UNCHANGED flags \/ \E h \in running : ApplyFlag(h)
         /\ UNCHANGED shown \/ \E h \in running : Announce(h)
<1>1. ASSUME NEW h \in running, Handle(h) \/ Throw(h)
      PROVE  /\ UNCHANGED text \/ ApplyEdit(h)
             /\ UNCHANGED flags \/ ApplyFlag(h)
             /\ UNCHANGED shown \/ Announce(h)
  BY <1>1 DEF Handle, Throw, ApplyEdit, ApplyFlag, PinExisting, PinCount, ApplyPin,
     ApplyUnpin, EvictList, Announce, pinRest, rowVars
<1>2. CASE \A h \in running : ~Handle(h) /\ ~Throw(h)
  BY <1>2 DEF Next, Read, Refuse, Publish, Deliver, Redeliver, ReadPins, FillList, Reaction,
     rowVars, vars
<1>3. QED
  BY <1>1, <1>2

LEMMA ShownTypeStep ==
  ASSUME OpsTypeOK, ShownTypeOK, [Next]_vars
  PROVE  ShownTypeOK'
<1>1. \A h \in running : h \in Handlers /\ h.op \in Ops /\ h.event \in Requests
                       /\ h.event.msg \in Messages
  BY DEF OpsTypeOK, Handlers, Requests
<1>2. flags' \in [Messages -> SUBSET Flags]
  <2>1. ASSUME NEW h \in running, ApplyFlag(h)
        PROVE  flags' \in [Messages -> SUBSET Flags]
    BY <1>1, <2>1 DEF ApplyFlag, ShownTypeOK
  <2>2. QED
    BY <2>1, OnlyHandlersChange DEF ShownTypeOK
<1>3. shown' \in Patches
  <2>1. ASSUME NEW h \in running, Announce(h)
        PROVE  shown' \in Patches
    BY <1>1, <2>1, PatchedShape DEF Announce
  <2>2. QED
    BY <2>1, OnlyHandlersChange DEF ShownTypeOK, Patches
<1>4. QED
  BY <1>2, <1>3 DEF ShownTypeOK, Patches

LEMMA LabelledStep ==
  ASSUME OpsTypeOK, Labelled, [Next]_vars
  PROVE  Labelled'
<1> SUFFICES ASSUME NEW k \in running', k.op \in Flags \cup {"edit"}
             PROVE  k.pc \in {"apply", "announce"}
  BY DEF Labelled
<1>t. \A h \in running : h \in Handlers
  BY DEF OpsTypeOK
<1>1. CASE k \in running
  BY <1>1 DEF Labelled
<1>2. ASSUME NEW q \in Ops, Deliver(q), k \notin running
      PROVE  k.pc = "apply"
  <2> DEFINE r == [op |-> q, event |-> topic[q][next[q]], pc |-> FirstStep(q),
                   zombie |-> FALSE]
  <2>1. k = r /\ r.op = q /\ r.pc = FirstStep(q)
    BY <1>2, Zenon DEF Deliver
  <2> HIDE DEF r
  <2>2. QED
    BY <2>1 DEF FirstStep, Flags
<1>3. ASSUME NEW q \in Ops, Redeliver(q), k \notin running
      PROVE  k.pc \in {"apply", "announce"}
  <2>1. running' = {[h EXCEPT !.zombie = h.zombie \/ h.op = q] : h \in running}
    BY <1>3 DEF Redeliver
  <2>2. PICK h \in running : k = [h EXCEPT !.zombie = h.zombie \/ h.op = q]
    BY <2>1, Zenon
  <2>3. h.op = k.op /\ h.pc = k.pc
    BY <1>t, <2>2, Zenon DEF Handlers
  <2>4. QED
    BY <2>3 DEF Labelled
<1>4. ASSUME NEW h \in running, Handle(h) \/ Throw(h), k \notin running
      PROVE  k.pc \in {"apply", "announce"}
  <2>1. PICK label \in Steps : Move(h, label) \/ Done(h)
    BY <1>4 DEF Handle, Throw, ApplyEdit, ApplyFlag, PinExisting, PinCount, ApplyPin,
       ApplyUnpin, EvictList, Announce, FirstStep, Steps
  <2>2. k.op = h.op
    BY <1>t, <1>4, <2>1 DEF Move, Done, Handlers
  <2>3. h.op \in Flags \cup {"edit"} /\ h.pc \in {"apply", "announce"}
    BY <2>2 DEF Labelled
  <2>4. PICK l \in {"apply", "announce"} : Move(h, l) \/ Done(h)
    BY <1>4, <2>3 DEF Handle, Throw, ApplyEdit, ApplyFlag, PinExisting, PinCount, ApplyPin,
       ApplyUnpin, EvictList, Announce, At, FirstStep, Flags
  <2>5. QED
    BY <1>t, <1>4, <2>4 DEF Move, Done, Handlers
<1>5. CASE /\ \A q \in Ops : ~Deliver(q) /\ ~Redeliver(q)
           /\ \A h \in running : ~Handle(h) /\ ~Throw(h)
  <2>1. running' = running
    BY <1>5 DEF Next, Read, Refuse, Publish, ReadPins, FillList, Reaction, eventVars, vars
  <2>2. QED
    BY <1>1, <2>1
<1>6. QED
  BY <1>1, <1>2, <1>3, <1>4, <1>5

\* A step that neither applies nor announces an event of the topic: its next
\* event is no later than before, its handlers announce only what they did.
LEMMA QuietView ==
  ASSUME OpsTypeOK, Labelled, SerialInv, [Next]_vars,
         NEW op \in Flags \cup {"edit"}, ~Exempt(op)', op # "hide",
         \A h \in running : h.op = op => ~ApplyEdit(h) /\ ~ApplyFlag(h) /\ ~Announce(h)
  PROVE  /\ topic'[op] = topic[op] \/ \E a \in Requests : topic'[op] = Append(topic[op], a)
         /\ next'[op] <= next[op]
         /\ \A k \in Of(op)' : k.pc = "announce" =>
              \E h \in Of(op) : h.pc = "announce" /\ h.event = k.event
<1>1. op \in Ops /\ Serial(op) /\ next[op] \in Nat \ {0}
  BY ExemptStays DEF OpsTypeOK, SerialInv, Ops, Exempt
<1>2. CASE Stays(op)
  BY <1>1, <1>2 DEF Stays
<1>3. CASE Starts(op)
  BY <1>1, <1>3 DEF Starts, FirstStep, Flags
<1>4. CASE Rewinds(op)
  BY <1>1, <1>4 DEF Rewinds
<1>5. ASSUME NEW h \in Of(op), Handle(h) \/ Throw(h)
      PROVE  h.op = op /\ h.pc \in {"apply", "announce"} /\ Throw(h)
  <2>1. h.op = op /\ h.pc \in {"apply", "announce"} /\ h \in running
    BY DEF Of, Labelled
  <2>2. ~Handle(h)
    BY <2>1 DEF Handle, PinExisting, PinCount, ApplyPin, ApplyUnpin, EvictList, At, Flags
  <2>3. QED
    BY <1>5, <2>1, <2>2
<1>6. CASE Moves(op)
  <2>1. PICK h \in Of(op), label \in Steps :
          Throw(h) /\ Move(h, label) /\ Of(op)' = {[h EXCEPT !.pc = label]}
    BY <1>5, <1>6 DEF Moves
  <2>2. h \in Handlers /\ h.op = op /\ h \in running
    BY DEF Of, OpsTypeOK
  <2> DEFINE r == [h EXCEPT !.pc = label]
  <2>3. r.event = h.event /\ r.pc = label
    BY <2>2 DEF Handlers
  <2>4. CASE Move(h, FirstStep(op))
    <3> DEFINE q == [h EXCEPT !.pc = FirstStep(op)]
    <3>1. q.pc = "apply" /\ q \in running' /\ q.op = op
      BY <2>2, <2>4 DEF Handlers, Move, FirstStep, Flags
    <3> HIDE DEF q
    <3>2. Of(op)' = {q}
      BY <2>1, <3>1 DEF Of
    <3>3. topic'[op] = topic[op] /\ next'[op] = next[op]
      BY <1>6 DEF Moves
    <3>4. QED
      BY <1>1, <3>1, <3>2, <3>3
  <2>5. CASE gaveUp' = gaveUp \cup {op}
    BY <2>5 DEF Exempt
  <2>6. QED
    BY <2>1, <2>2, <2>4, <2>5 DEF Throw
<1>7. CASE Ends(op)
  <2>1. PICK h \in Of(op) : Throw(h) /\ Of(op)' = {} /\ h.op = op /\ h \in Handlers
    BY <1>5, <1>7 DEF Ends, Of, OpsTypeOK
  <2>2. CASE Move(h, FirstStep(op))
    <3> DEFINE q == [h EXCEPT !.pc = FirstStep(op)]
    <3>1. q \in running' /\ q.op = op
      BY <2>1, <2>2 DEF Handlers, Move
    <3>2. QED
      BY <2>1, <3>1 DEF Of
  <2>3. CASE gaveUp' = gaveUp \cup {op}
    BY <2>3 DEF Exempt
  <2>4. QED
    BY <2>1, <2>2, <2>3 DEF Throw
<1>8. QED
  BY <1>1, <1>2, <1>3, <1>4, <1>6, <1>7, TopicView DEF Exempt

\* A content that nothing handled replaces stays one when a handler ends
\* without effect, events are published or delivered again.
LEMMA LatestKept ==
  ASSUME OpsTypeOK, Serial("edit"), NEW c, NEW m \in Messages, IsLatest(c, m),
         \/ topic'["edit"] = topic["edit"]
         \/ \E a \in Requests : topic'["edit"] = Append(topic["edit"], a),
         next'["edit"] <= next["edit"], next'["edit"] \in Nat
  PROVE  IsLatest(c, m)'
<1>1. /\ topic["edit"] \in Seq(Requests) /\ next["edit"] \in Nat
      /\ next["edit"] <= Len(topic["edit"]) + 1
  BY DEF OpsTypeOK, Serial, Ops
<1>2. /\ DOMAIN topic["edit"] \subseteq DOMAIN topic'["edit"]
      /\ \A n \in DOMAIN topic["edit"] : topic'["edit"][n] = topic["edit"][n]
      /\ \A n \in DOMAIN topic'["edit"] :
           n < next["edit"] => n \in DOMAIN topic["edit"]
  <2>1. CASE topic'["edit"] = topic["edit"]
    BY <2>1
  <2>2. ASSUME NEW a \in Requests, topic'["edit"] = Append(topic["edit"], a)
        PROVE  /\ DOMAIN topic["edit"] \subseteq DOMAIN topic'["edit"]
               /\ \A n \in DOMAIN topic["edit"] : topic'["edit"][n] = topic["edit"][n]
               /\ \A n \in DOMAIN topic'["edit"] :
                    n < next["edit"] => n \in DOMAIN topic["edit"]
    BY <1>1, <2>2
  <2>3. QED
    BY <2>1, <2>2
<1>3. \A n \in DOMAIN topic'["edit"] : n < next'["edit"] => n < next["edit"]
  BY <1>1, <1>2, TypesStep DEF OpsTypeOK
<1>4. {n \in DOMAIN topic'["edit"] : n < next'["edit"] /\ topic'["edit"][n].msg = m}
        \subseteq {n \in DOMAIN topic["edit"] :
                     n < next["edit"] /\ topic["edit"][n].msg = m}
  BY <1>2, <1>3
<1>5. QED
  BY <1>2, <1>4 DEF IsLatest

LEMMA EditStep ==
  ASSUME OpsTypeOK, CatchUpInv, [Next]_vars
  PROVE  EditInv'
<1> SUFFICES ASSUME ~Exempt("edit")'
             PROVE  /\ \A m \in Messages : IsLatest(text[m], m)' /\ IsLatest(shown.text[m], m)'
                    /\ \A h \in Of("edit")' : h.pc = "announce" => text'[h.event.msg] = h.event.new
  BY DEF EditInv
<1>1. /\ Serial("edit") /\ ~Exempt("edit") /\ EditInv /\ ShownTypeOK /\ Labelled /\ SerialInv
      /\ next["edit"] \in Nat \ {0} /\ next'["edit"] \in Nat \ {0}
      /\ topic["edit"] \in Seq(Requests)
  BY ExemptStays, TypesStep DEF CatchUpInv, SerialInv, Exempt, OpsTypeOK, Ops
<1>2. /\ \A m \in Messages : IsLatest(text[m], m) /\ IsLatest(shown.text[m], m)
      /\ \A h \in Of("edit") : h.pc = "announce" => text[h.event.msg] = h.event.new
  BY <1>1 DEF EditInv
<1>3. ASSUME NEW h \in running, h.op = "edit"
      PROVE  /\ Of("edit") = {h} /\ h \in Handlers /\ ~h.zombie /\ h.event.msg \in Messages
             /\ next["edit"] \in DOMAIN topic["edit"] /\ h.event = topic["edit"][next["edit"]]
             /\ h.event \in Requests
  BY <1>1, <1>3 DEF Serial, Of, OpsTypeOK, Handlers, Requests
<1>4. ASSUME NEW h \in running, ApplyEdit(h)
      PROVE  /\ \A m \in Messages : IsLatest(text[m], m)' /\ IsLatest(shown.text[m], m)'
             /\ \A k \in Of("edit")' : k.pc = "announce" => text'[k.event.msg] = k.event.new
  <2>1. h.op = "edit" /\ topic' = topic /\ next' = next /\ shown' = shown
    BY <1>4 DEF ApplyEdit, At, Move
  <2>2. /\ text' = [text EXCEPT ![h.event.msg] = h.event.new] /\ text \in [Messages -> Nat]
    BY <1>4 DEF ApplyEdit, OpsTypeOK
  <2>3. \A m \in Messages : IsLatest(shown.text[m], m)'
    BY <1>2, <2>1 DEF IsLatest
  <2>4. ASSUME NEW m \in Messages
        PROVE  IsLatest(text[m], m)'
    <3>1. CASE m = h.event.msg
      <4>1. text'[m] = h.event.new
        BY <1>3, <2>1, <2>2, <3>1
      <4>2. topic'["edit"][next["edit"]].msg = m /\ topic'["edit"][next["edit"]].new = text'[m]
        BY <1>3, <2>1, <3>1, <4>1
      <4>3. \A n \in DOMAIN topic'["edit"] : n < next'["edit"] => n <= next["edit"]
        BY <1>1, <2>1
      <4>4. next["edit"] \in DOMAIN topic'["edit"]
        BY <1>3, <2>1
      <4>5. QED
        BY <4>2, <4>3, <4>4 DEF IsLatest
    <3>2. CASE m # h.event.msg
      <4>1. text'[m] = text[m]
        BY <2>2, <3>2
      <4>2. QED
        BY <1>2, <2>1, <4>1 DEF IsLatest
    <3>3. QED
      BY <3>1, <3>2
  <2>5. ASSUME NEW k \in Of("edit")'
        PROVE  text'[k.event.msg] = k.event.new
    <3> DEFINE r == [h EXCEPT !.pc = "announce"]
    <3>1. running' = (running \ {h}) \cup {r} /\ r.event = h.event
      BY <1>3, <1>4, <2>1 DEF ApplyEdit, Move, Handlers
    <3> HIDE DEF r
    <3>2. k = r
      BY <1>3, <2>1, <3>1 DEF Of
    <3>3. QED
      BY <1>3, <2>1, <2>2, <3>1, <3>2
  <2>6. QED
    BY <2>3, <2>4, <2>5
<1>5. ASSUME NEW h \in running, h.op = "edit", Announce(h)
      PROVE  /\ \A m \in Messages : IsLatest(text[m], m)' /\ IsLatest(shown.text[m], m)'
             /\ \A k \in Of("edit")' : k.pc = "announce" => text'[k.event.msg] = k.event.new
  <2>1. /\ topic' = topic /\ next'["edit"] = next["edit"] + 1 /\ text' = text
        /\ running' = running \ {h} /\ text[h.event.msg] = h.event.new
    BY <1>2, <1>3, <1>5 DEF Announce, Done, rowVars, OpsTypeOK, Of, Ops
  <2>2. /\ \A m \in Messages : m # h.event.msg => shown'.text[m] = shown.text[m]
        /\ shown'.text[h.event.msg] = h.event.new
    BY <1>1, <1>3, <1>5, PatchedShape DEF Announce, Ops
  <2>3. \A n \in DOMAIN topic'["edit"] : n < next'["edit"] => n <= next["edit"]
    BY <1>1, <2>1
  <2>4. ASSUME NEW c, NEW m \in Messages, IF m = h.event.msg THEN c = h.event.new
                                                             ELSE IsLatest(c, m)
        PROVE  IsLatest(c, m)'
    <3>1. CASE m = h.event.msg
      <4>1. /\ next["edit"] \in DOMAIN topic'["edit"]
            /\ topic'["edit"][next["edit"]].msg = m /\ topic'["edit"][next["edit"]].new = c
        BY <1>3, <1>5, <2>1, <2>4, <3>1
      <4>2. QED
        BY <2>3, <4>1 DEF IsLatest
    <3>2. CASE m # h.event.msg
      <4>1. topic["edit"][next["edit"]].msg # m
        BY <1>3, <1>5, <3>2
      <4>2. \A n \in DOMAIN topic["edit"] :
              n < next'["edit"] /\ topic["edit"][n].msg = m => n < next["edit"]
        BY <1>1, <2>1, <4>1
      <4>3. {n \in DOMAIN topic'["edit"] : n < next'["edit"] /\ topic'["edit"][n].msg = m}
              \subseteq {n \in DOMAIN topic["edit"] :
                           n < next["edit"] /\ topic["edit"][n].msg = m}
        BY <2>1, <4>2
      <4>4. QED
        BY <2>1, <2>4, <3>2, <4>3 DEF IsLatest
    <3>3. QED
      BY <3>1, <3>2
  <2>5. \A m \in Messages : IsLatest(text[m], m)' /\ IsLatest(shown.text[m], m)'
    <3> SUFFICES ASSUME NEW m \in Messages
                 PROVE  IsLatest(text[m], m)' /\ IsLatest(shown.text[m], m)'
      OBVIOUS
    <3>1. CASE m = h.event.msg
      BY <2>1, <2>2, <2>4, <3>1 DEF IsLatest
    <3>2. CASE m # h.event.msg
      <4>1. PICK c, d : c = text[m] /\ d = shown.text[m]
        OBVIOUS
      <4>2. IsLatest(c, m) /\ IsLatest(d, m)
        BY <1>2, <4>1 DEF IsLatest
      <4>3. IsLatest(c, m)' /\ IsLatest(d, m)'
        BY <2>4, <3>2, <4>2
      <4>4. c = text'[m] /\ d = shown'.text[m]
        BY <2>1, <2>2, <3>2, <4>1
      <4>5. QED
        BY <4>3, <4>4 DEF IsLatest
    <3>3. QED
      BY <3>1, <3>2
  <2>6. Of("edit")' = {}
    BY <1>3, <1>5, <2>1 DEF Of
  <2>7. QED
    BY <2>5, <2>6
<1>6. CASE \A h \in running : h.op = "edit" => ~ApplyEdit(h) /\ ~Announce(h)
  <2>1. \A h \in running : h.op = "edit" => ~ApplyEdit(h) /\ ~ApplyFlag(h) /\ ~Announce(h)
    BY <1>6 DEF ApplyFlag, Flags
  <2>2. /\ \/ topic'["edit"] = topic["edit"]
           \/ \E a \in Requests : topic'["edit"] = Append(topic["edit"], a)
        /\ next'["edit"] <= next["edit"]
        /\ \A k \in Of("edit")' : k.pc = "announce" =>
             \E h \in Of("edit") : h.pc = "announce" /\ h.event = k.event
    BY <1>1, <2>1, QuietView
  <2>3. text' = text
    BY <2>1, OnlyHandlersChange DEF ApplyEdit, At
  <2>4. \A m \in Messages : shown'.text[m] = shown.text[m]
    <3>1. ASSUME NEW h \in running, Announce(h)
          PROVE  \A m \in Messages : shown'.text[m] = shown.text[m]
      <4>1. h.op # "edit" /\ h.op \in Ops /\ h.event \in Requests
        BY <2>1, <3>1 DEF OpsTypeOK, Handlers
      <4>2. QED
        BY <1>1, <3>1, <4>1, PatchedShape DEF Announce
    <3>2. QED
      BY <3>1, OnlyHandlersChange
  <2>5. ASSUME NEW c, NEW m \in Messages, IsLatest(c, m)
        PROVE  IsLatest(c, m)'
    BY <1>1, <2>2, <2>5, LatestKept
  <2>6. \A m \in Messages : IsLatest(text[m], m)' /\ IsLatest(shown.text[m], m)'
    <3> SUFFICES ASSUME NEW m \in Messages
                 PROVE  IsLatest(text[m], m)' /\ IsLatest(shown.text[m], m)'
      OBVIOUS
    <3>1. PICK c, d : c = text[m] /\ d = shown.text[m]
      OBVIOUS
    <3>2. IsLatest(c, m) /\ IsLatest(d, m)
      BY <1>2, <3>1 DEF IsLatest
    <3>3. IsLatest(c, m)' /\ IsLatest(d, m)'
      BY <2>5, <3>2
    <3>4. c = text'[m] /\ d = shown'.text[m]
      BY <2>3, <2>4, <3>1
    <3>5. QED
      BY <3>3, <3>4 DEF IsLatest
  <2>7. QED
    BY <1>2, <2>2, <2>3, <2>6
<1>7. QED
  BY <1>4, <1>5, <1>6 DEF ApplyEdit, At

LEMMA FlagStep ==
  ASSUME OpsTypeOK, CatchUpInv, [Next]_vars, NEW op \in {"delete", "revoke"}
  PROVE  FlagInv(op)'
<1> DEFINE Asked(m) == \E n \in DOMAIN topic[op] : topic[op][n].msg = m
<1> SUFFICES ASSUME ~Exempt(op)'
             PROVE  /\ \A m \in Messages : /\ op \in shown'.flags[m] => op \in flags'[m]
                                           /\ op \in flags'[m] => Asked(m)'
                    /\ \A h \in Of(op)' : h.pc = "announce" => op \in flags'[h.event.msg]
                    /\ \A n \in DOMAIN topic'[op] :
                         n < next'[op] => op \in shown'.flags[topic'[op][n].msg]
  BY DEF FlagInv
<1>1. /\ Serial(op) /\ ~Exempt(op) /\ FlagInv(op) /\ ShownTypeOK /\ Labelled /\ SerialInv
      /\ next[op] \in Nat \ {0} /\ next'[op] \in Nat \ {0} /\ topic[op] \in Seq(Requests)
      /\ op \in Ops /\ op \in Flags
  BY ExemptStays, TypesStep DEF CatchUpInv, SerialInv, Exempt, OpsTypeOK, Ops, Flags
<1>2. /\ \A m \in Messages : /\ op \in shown.flags[m] => op \in flags[m]
                             /\ op \in flags[m] => Asked(m)
      /\ \A h \in Of(op) : h.pc = "announce" => op \in flags[h.event.msg]
      /\ \A n \in DOMAIN topic[op] : n < next[op] => op \in shown.flags[topic[op][n].msg]
  BY <1>1 DEF FlagInv
<1>3. ASSUME NEW h \in running, h.op = op
      PROVE  /\ Of(op) = {h} /\ h \in Handlers /\ ~h.zombie /\ h.event.msg \in Messages
             /\ next[op] \in DOMAIN topic[op] /\ h.event = topic[op][next[op]]
             /\ h.event \in Requests
  BY <1>1, <1>3 DEF Serial, Of, OpsTypeOK, Handlers, Requests
<1>4. ASSUME NEW h \in running, ApplyFlag(h), h.op = op
      PROVE  /\ \A m \in Messages : /\ op \in shown'.flags[m] => op \in flags'[m]
                                    /\ op \in flags'[m] => Asked(m)'
             /\ \A k \in Of(op)' : k.pc = "announce" => op \in flags'[k.event.msg]
             /\ \A n \in DOMAIN topic'[op] :
                  n < next'[op] => op \in shown'.flags[topic'[op][n].msg]
  <2>1. /\ topic' = topic /\ next' = next /\ shown' = shown
        /\ running' = (running \ {h}) \cup {[h EXCEPT !.pc = "announce"]}
        /\ flags' = [flags EXCEPT ![h.event.msg] = @ \cup {op}]
    BY <1>4 DEF ApplyFlag, Move
  <2>2. \A m \in Messages : flags'[m] = IF m = h.event.msg THEN flags[m] \cup {op} ELSE flags[m]
    BY <2>1 DEF CatchUpInv, ShownTypeOK
  <2>3. Asked(h.event.msg)
    BY <1>3, <1>4
  <2>4. ASSUME NEW k \in Of(op)'
        PROVE  op \in flags'[k.event.msg]
    <3> DEFINE r == [h EXCEPT !.pc = "announce"]
    <3>1. running' = (running \ {h}) \cup {r} /\ r.event = h.event
      BY <1>3, <1>4, <2>1 DEF Handlers
    <3> HIDE DEF r
    <3>2. k = r
      BY <1>3, <1>4, <3>1 DEF Of
    <3>3. QED
      BY <1>3, <1>4, <2>2, <3>1, <3>2
  <2>5. QED
    BY <1>2, <2>1, <2>2, <2>3, <2>4
<1>5. ASSUME NEW h \in running, Announce(h), h.op = op
      PROVE  /\ \A m \in Messages : /\ op \in shown'.flags[m] => op \in flags'[m]
                                    /\ op \in flags'[m] => Asked(m)'
             /\ \A k \in Of(op)' : k.pc = "announce" => op \in flags'[k.event.msg]
             /\ \A n \in DOMAIN topic'[op] :
                  n < next'[op] => op \in shown'.flags[topic'[op][n].msg]
  <2>1. /\ topic' = topic /\ next'[op] = next[op] + 1 /\ flags' = flags
        /\ running' = running \ {h} /\ op \in flags[h.event.msg]
    <3>1. h.pc = "announce" /\ h \in Of(op) /\ ~h.zombie
      BY <1>3, <1>5 DEF Announce
    <3>2. QED
      BY <1>1, <1>2, <1>5, <3>1 DEF Announce, Done, rowVars, OpsTypeOK
  <2>2. \A m \in Messages :
          shown'.flags[m] = IF m = h.event.msg THEN shown.flags[m] \cup {op} ELSE shown.flags[m]
    <3>1. shown' = Patched(op, h.event) /\ h.event \in Requests
      BY <1>3, <1>5 DEF Announce
    <3>2. \A m \in Messages : Patched(op, h.event).flags[m] =
            IF op \in Flags /\ m = h.event.msg THEN shown.flags[m] \cup {op}
                                               ELSE shown.flags[m]
      BY <1>1, <3>1, PatchedShape
    <3>3. QED
      BY <1>1, <3>1, <3>2
  <2>3. Of(op)' = {}
    BY <1>3, <1>5, <2>1 DEF Of
  <2>4. ASSUME NEW n \in DOMAIN topic'[op], n < next'[op]
        PROVE  op \in shown'.flags[topic'[op][n].msg]
    <3>1. n \in DOMAIN topic[op] /\ topic[op][n].msg \in Messages /\ n <= next[op]
      <4>1. n \in DOMAIN topic[op] /\ n \in Nat /\ n <= next[op]
        BY <1>1, <2>1, <2>4
      <4>2. topic[op][n] \in Requests
        BY <1>1, <4>1
      <4>3. QED
        BY <4>1, <4>2 DEF Requests
    <3>2. CASE n = next[op]
      BY <1>3, <1>5, <2>1, <2>2, <3>2
    <3>3. CASE n # next[op]
      <4>1. n < next[op]
        BY <1>1, <3>1, <3>3
      <4>2. QED
        BY <1>2, <2>1, <2>2, <3>1, <4>1
    <3>4. QED
      BY <3>2, <3>3
  <2>5. QED
    BY <1>2, <2>1, <2>2, <2>3, <2>4
<1>6. CASE \A h \in running : h.op = op => ~ApplyFlag(h) /\ ~Announce(h)
  <2>1. \A h \in running : h.op = op => ~ApplyEdit(h) /\ ~ApplyFlag(h) /\ ~Announce(h)
    BY <1>6 DEF ApplyEdit, At
  <2>2. /\ topic'[op] = topic[op] \/ \E a \in Requests : topic'[op] = Append(topic[op], a)
        /\ next'[op] <= next[op]
        /\ \A k \in Of(op)' : k.pc = "announce" =>
             \E h \in Of(op) : h.pc = "announce" /\ h.event = k.event
    BY <1>1, <2>1, QuietView
  <2>3. /\ DOMAIN topic[op] \subseteq DOMAIN topic'[op]
        /\ \A n \in DOMAIN topic[op] : topic'[op][n] = topic[op][n]
        /\ \A n \in DOMAIN topic'[op] : n < next'[op] => n \in DOMAIN topic[op] /\ n < next[op]
    <3>1. next[op] <= Len(topic[op]) + 1
      BY <1>1 DEF Serial
    <3>2. CASE topic'[op] = topic[op]
      BY <1>1, <2>2, <3>1, <3>2
    <3>3. ASSUME NEW a \in Requests, topic'[op] = Append(topic[op], a)
          PROVE  /\ DOMAIN topic[op] \subseteq DOMAIN topic'[op]
                 /\ \A n \in DOMAIN topic[op] : topic'[op][n] = topic[op][n]
                 /\ \A n \in DOMAIN topic'[op] :
                      n < next'[op] => n \in DOMAIN topic[op] /\ n < next[op]
      BY <1>1, <2>2, <3>1, <3>3
    <3>4. QED
      BY <2>2, <3>2, <3>3
  <2>4. \A m \in Messages : op \in flags'[m] <=> op \in flags[m]
    <3>1. ASSUME NEW h \in running, ApplyFlag(h)
          PROVE  \A m \in Messages : op \in flags'[m] <=> op \in flags[m]
      <4>1. h.op # op /\ flags' = [flags EXCEPT ![h.event.msg] = @ \cup {h.op}]
        BY <2>1, <3>1 DEF ApplyFlag
      <4>2. QED
        BY <1>1, <4>1 DEF ShownTypeOK
    <3>2. QED
      BY <3>1, OnlyHandlersChange
  <2>5. \A m \in Messages : op \in shown'.flags[m] <=> op \in shown.flags[m]
    <3>1. ASSUME NEW h \in running, Announce(h)
          PROVE  \A m \in Messages : op \in shown'.flags[m] <=> op \in shown.flags[m]
      <4>1. h.op # op /\ h.op \in Ops /\ h.event \in Requests
        BY <2>1, <3>1 DEF OpsTypeOK, Handlers
      <4>2. QED
        <5>1. shown' = Patched(h.op, h.event)
          BY <3>1 DEF Announce
        <5>2. \A m \in Messages : Patched(h.op, h.event).flags[m] =
                IF h.op \in Flags /\ m = h.event.msg THEN shown.flags[m] \cup {h.op}
                                                     ELSE shown.flags[m]
          BY <1>1, <4>1, PatchedShape
        <5>3. QED
          BY <4>1, <5>1, <5>2
    <3>2. QED
      BY <3>1, OnlyHandlersChange
  <2>6. \A m \in Messages : Asked(m) => Asked(m)'
    BY <2>3
  <2>7. ASSUME NEW k \in Of(op)', k.pc = "announce"
        PROVE  op \in flags'[k.event.msg]
    <3>1. PICK h \in Of(op) : h.pc = "announce" /\ h.event = k.event
      BY <2>2, <2>7
    <3>2. h \in running /\ h.op = op
      BY DEF Of
    <3>3. QED
      BY <1>2, <1>3, <2>4, <3>1, <3>2
  <2>8. ASSUME NEW n \in DOMAIN topic'[op], n < next'[op]
        PROVE  op \in shown'.flags[topic'[op][n].msg]
    <3>1. n \in DOMAIN topic[op] /\ n < next[op] /\ topic'[op][n] = topic[op][n]
      BY <2>3, <2>8
    <3>2. topic[op][n].msg \in Messages
      <4>1. topic[op][n] \in Requests
        BY <1>1, <3>1
      <4>2. QED
        BY <4>1 DEF Requests
    <3>3. QED
      BY <1>2, <2>5, <3>1, <3>2
  <2>9. QED
    BY <1>2, <2>4, <2>5, <2>6, <2>7, <2>8
<1>7. QED
  BY <1>4, <1>5, <1>6

LEMMA CatchUpInitial == Init => CatchUpInv
<1> SUFFICES ASSUME Init
             PROVE  CatchUpInv
  OBVIOUS
<1>1. ShownTypeOK /\ Labelled
  BY DEF Init, ShownTypeOK, Labelled
<1>2. SerialInv
  BY DEF Init, SerialInv, Serial, Of
<1>3. EditInv
  BY DEF Init, EditInv, IsLatest, Of, Ops
<1>4. FlagInv("delete") /\ FlagInv("revoke")
  BY DEF Init, FlagInv, Of, Ops, Flags
<1>5. QED
  BY <1>1, <1>2, <1>3, <1>4 DEF CatchUpInv

\* What a settled topic leaves is the latest content.
LEMMA SettledIsLast ==
  ASSUME OpsTypeOK, Settled("edit"), NEW c, NEW m \in Messages, IsLatest(c, m)
  PROVE  c = LastEdit(m)
<1> DEFINE edits == {n \in DOMAIN topic["edit"] : topic["edit"][n].msg = m}
           last == CHOOSE n \in edits : \A k \in edits : k <= n
<1>1. /\ topic["edit"] \in Seq(Requests) /\ next["edit"] \in Nat
      /\ next["edit"] > Len(topic["edit"])
  BY DEF OpsTypeOK, Ops, Settled
<1>2. edits = {n \in DOMAIN topic["edit"] : n < next["edit"] /\ topic["edit"][n].msg = m}
  BY <1>1
<1>3. CASE edits = {}
  BY <1>2, <1>3 DEF IsLatest, LastEdit
<1>4. CASE edits # {}
  <2>1. PICK k \in edits : topic["edit"][k].new = c /\ \A n \in edits : n <= k
    BY <1>2, <1>4 DEF IsLatest
  <2>2. last \in edits /\ \A n \in edits : n <= last
    BY <2>1
  <2>3. edits \subseteq Nat
    BY <1>1
  <2>4. last = k
    <3> HIDE DEF edits, last
    <3>1. QED
      BY <2>1, <2>2, <2>3
  <2>5. QED
    <3>1. LastEdit(m) = topic["edit"][last].new
      BY <1>4 DEF LastEdit
    <3>2. QED
      BY <2>1, <2>4, <3>1
<1>5. QED
  BY <1>3, <1>4

-----------------------------------------------------------------------------
LEMMA OpsInvariant == Spec => []OpsInv
<1>1. OpsInv /\ [Next]_vars => OpsInv'
  <2> SUFFICES ASSUME OpsInv, [Next]_vars
               PROVE  OpsInv'
    OBVIOUS
  <2>1. OpsTypeOK /\ OriginalInv /\ PinInv /\ ListInv
    BY DEF OpsInv
  <2>2. PinInv'
    <3>1. CASE "pin" \notin overlapped'
      BY <2>1, <3>1, PinStep
    <3>2. CASE "pin" \in overlapped'
      BY <3>2 DEF PinInv
    <3>3. QED
      BY <3>1, <3>2
  <2>3. QED
    BY <2>1, <2>2, TypesStep, OriginalStep, ListStep DEF OpsInv
<1>2. QED
  BY <1>1, OpsInitial, PTL DEF Spec

(* An edited message's first content is in its history, whatever the order *)
(* in which edits are read, applied, redelivered, repeated or given up.    *)
THEOREM OpsOriginalKept == Spec => []OriginalKept
<1>1. OpsInv => OriginalKept
  BY DEF OpsInv, OriginalInv
<1>2. QED
  BY OpsInvariant, <1>1, PTL

(* The pin limit, counted and used in separate statements, holds as long   *)
(* as no handler of a pin outlived a rebalance.                            *)
THEOREM OpsPinLimitKept == Spec => []PinLimitKept
<1>1. OpsInv => PinLimitKept
  BY DEF OpsInv, PinInv, PinLimitKept
<1>2. QED
  BY OpsInvariant, <1>1, PTL

(* The cached list of pins is the table's, or about to be evicted, unless  *)
(* an eviction was missed.                                                 *)
THEOREM OpsPinnedListFresh == Spec => []PinnedListFresh
<1>1. OpsInv => PinnedListFresh
  BY DEF OpsInv, ListInv
<1>2. QED
  BY OpsInvariant, <1>1, PTL

(* Reactions that differ between Redis and PostgreSQL are marked or about  *)
(* to be, whichever flushes overlap, fail or crash on the way.             *)
THEOREM OpsUnsyncedIsDirty == Spec => []UnsyncedIsDirty
<1>1. OpsInv /\ ReactTypeOK /\ ReactInv /\ [Next]_vars => ReactTypeOK' /\ ReactInv'
  BY ReactStep DEF OpsInv
<1>2. ReactInv => UnsyncedIsDirty
  BY DEF ReactInv, InSync, Marking, UnsyncedIsDirty
<1>3. QED
  BY <1>1, <1>2, ReactInitial, OpsInvariant, PTL DEF Spec

(* When the events of a topic are handled, clients and database agree and  *)
(* the last edit has won, unless an event went to the dead-letter topic or *)
(* a handler outlived a rebalance.                                         *)
THEOREM OpsClientsCatchUp == Spec => []ClientsCatchUp
<1>1. OpsInv /\ CatchUpInv /\ [Next]_vars => CatchUpInv'
  <2> SUFFICES ASSUME OpsInv, CatchUpInv, [Next]_vars
               PROVE  CatchUpInv'
    OBVIOUS
  <2>1. OpsTypeOK /\ ShownTypeOK /\ Labelled /\ SerialInv
    BY DEF OpsInv, CatchUpInv
  <2>2. FlagInv("delete")' /\ FlagInv("revoke")'
    BY <2>1, FlagStep
  <2>3. QED
    BY <2>1, <2>2, ShownTypeStep, LabelledStep, SerialStep, EditStep DEF CatchUpInv
<1>2. OpsInv /\ CatchUpInv => ClientsCatchUp
  <2> SUFFICES ASSUME OpsInv, CatchUpInv, NEW m \in Messages
               PROVE  /\ Settled("edit") => text[m] = LastEdit(m) /\ shown.text[m] = text[m]
                      /\ \A op \in Flags \ {"hide"} :
                           Settled(op) => (op \in flags[m] <=> op \in shown.flags[m])
    BY DEF ClientsCatchUp
  <2>1. OpsTypeOK
    BY DEF OpsInv
  <2>2. ASSUME Settled("edit")
        PROVE  text[m] = LastEdit(m) /\ shown.text[m] = text[m]
    <3>1. IsLatest(text[m], m) /\ IsLatest(shown.text[m], m)
      BY <2>2 DEF CatchUpInv, EditInv, Settled, Exempt
    <3>2. PICK c, d : c = text[m] /\ d = shown.text[m]
      OBVIOUS
    <3>3. IsLatest(c, m) /\ IsLatest(d, m)
      BY <3>1, <3>2 DEF IsLatest
    <3>4. QED
      BY <2>1, <2>2, <3>2, <3>3, SettledIsLast
  <2>3. ASSUME NEW op \in {"delete", "revoke"}, Settled(op)
        PROVE  op \in flags[m] <=> op \in shown.flags[m]
    <3>1. FlagInv(op) /\ ~Exempt(op)
      BY <2>3 DEF CatchUpInv, Settled, Exempt
    <3>2. topic[op] \in Seq(Requests) /\ next[op] \in Nat /\ next[op] > Len(topic[op])
      BY <2>1, <2>3 DEF OpsTypeOK, Ops, Flags, Settled
    <3>3. \A n \in DOMAIN topic[op] : n < next[op]
      BY <3>2
    <3>4. QED
      BY <3>1, <3>3 DEF FlagInv
  <2>4. QED
    BY <2>2, <2>3 DEF Flags
<1>3. QED
  BY <1>1, <1>2, CatchUpInitial, OpsInvariant, PTL DEF Spec
=============================================================================
