----------------------------- MODULE MessageOps -----------------------------
(***************************************************************************)
(* Operations on stored messages of one conversation: edit, delete,        *)
(* revoke, hide for oneself, pin and unpin.  chat-core reads the message,  *)
(* validates, and publishes an event; MessageOperationConsumer of          *)
(* message-store applies it and publishes MESSAGE_UPDATED, which the       *)
(* realtime gateway passes on.  Every operation has a topic of its own:    *)
(* its events are handled in order, those of two topics are not.           *)
(*                                                                         *)
(* Also the cached list of pins, which has no TTL, and module Reactions,   *)
(* whose column an edit may overwrite.                                     *)
(***************************************************************************)
EXTENDS Reactions, Sequences

CONSTANT MaxPins     \* MESSAGE_LIMITS.MAX_PINNED_MESSAGES

ASSUME MaxPinsAssumption == MaxPins \in Nat \ {0}

Flags == {"delete", "revoke", "hide"}
Ops == Flags \cup {"edit", "pin", "unpin"}

VARIABLES
  text,        \* content of a message: 0, or the request that wrote it
  past,        \* contents in its edit history
  flags,       \* is_deleted, is_revoked, a row in message_user_deletions
  pinned,      \* pinned_messages
  asked,       \* requests chat-core has read the message for
  topic, next, \* events of each topic, and the next one to deliver
  running,     \* handlers of events
  list,        \* the cached list of pins, or NoList
  reader,      \* a getPinnedMessages between its query and its SET
  shown,       \* what the patches so far make clients show
  overlapped,  \* history: topics whose handlers ran concurrently
  gaveUp,      \* history: topics with an event in the dead-letter topic
  listUnsafe   \* history: the list missed an eviction

rowVars == <<text, past, flags, pinned>>
eventVars == <<topic, next, running, overlapped, gaveUp>>
listVars == <<list, reader, listUnsafe>>
vars == <<reactionVars, budget, rowVars, asked, eventVars, listVars, shown>>

NoList == [known |-> FALSE, pins |-> {}]
NoReader == [pc |-> "idle", pins |-> {}, overtaken |-> FALSE]

Init ==
  /\ ReactionsInit
  /\ text = [m \in Messages |-> 0]
  /\ past = [m \in Messages |-> {}]
  /\ flags = [m \in Messages |-> {}]
  /\ pinned = {}
  /\ asked = {}
  /\ topic = [op \in Ops |-> <<>>]
  /\ next = [op \in Ops |-> 1]
  /\ running = {}
  /\ list = NoList /\ reader = NoReader
  /\ shown = [text |-> text, flags |-> flags, pins |-> {}]
  /\ overlapped = {} /\ gaveUp = {} /\ listUnsafe = FALSE

-----------------------------------------------------------------------------
(* chat-core.                                                              *)

\* getMessage.  Only a revocation looks at the state of the message.  An edit
\* takes the previous content from this read; it may carry metadata.
Read(op, m, withMetadata) ==
  /\ Request
  /\ op = "revoke" => "revoke" \notin flags[m]
  /\ withMetadata => op = "edit"
  /\ asked' = asked \cup {[op |-> op, msg |-> m, old |-> text[m],
                           new |-> requests', meta |-> withMetadata]}
  /\ UNCHANGED <<reactionVars, faults, rowVars, eventVars, listVars, shown>>

\* Validation refuses, or the event is published.
Refuse(a) ==
  /\ asked' = asked \ {a}
  /\ UNCHANGED <<reactionVars, budget, rowVars, eventVars, listVars, shown>>

Publish(a) ==
  /\ asked' = asked \ {a}
  /\ topic' = [topic EXCEPT ![a.op] = Append(@, a)]
  /\ UNCHANGED <<reactionVars, budget, rowVars, next, running, overlapped,
                 gaveUp, listVars, shown>>

-----------------------------------------------------------------------------
(* The consumer.                                                           *)

FirstStep(op) == IF op = "pin" THEN "existing" ELSE "apply"

\* Mutant: an event is taken up while another one of its topic is handled.
Unserialized(op) == {}

Live(op) == {h \in running : h.op = op /\ ~h.zombie}

Deliver(op) ==
  /\ Live(op) = {} /\ next[op] <= Len(topic[op])
  /\ running' = running \cup {[op |-> op, event |-> topic[op][next[op]],
                               pc |-> FirstStep(op), zombie |-> FALSE]}
  /\ UNCHANGED <<reactionVars, budget, rowVars, asked, topic, next, overlapped,
                 gaveUp, listVars, shown>>

Move(h, label) ==
  /\ running' = (running \ {h}) \cup {[h EXCEPT !.pc = label]}
  /\ UNCHANGED next

Done(h) ==
  /\ running' = running \ {h}
  /\ next' = IF h.zombie THEN next ELSE [next EXCEPT ![h.op] = @ + 1]

At(h, op, label) == h \in running /\ h.op = op /\ h.pc = label

\* Mutant: the history gets the new content.
NewContent(e) == e.new

\* The content the history keeps: the one chat-core had read.
PreviousContent(e) == e.old

\* One transaction: the history row and the message.  Metadata that comes with
\* the edit replaces the column, the reactions in it included.
ApplyEdit(h) ==
  LET m == h.event.msg IN
  /\ At(h, "edit", "apply")
  /\ text' = [text EXCEPT ![m] = h.event.new]
  /\ past' = [past EXCEPT ![m] = @ \cup {PreviousContent(h.event)}]
  /\ IF h.event.meta
     THEN /\ synced' = [synced EXCEPT ![m] = {}]
          /\ unsafe' = unsafe \cup {m}
     ELSE UNCHANGED <<synced, unsafe>>
  /\ Move(h, "announce")
  /\ UNCHANGED <<hash, dirty, reacting, flush, leader, budget, flags, pinned, asked,
                 topic, overlapped, gaveUp, listVars, shown>>

\* Nothing is announced of a message hidden for one user.
ApplyFlag(h) ==
  /\ h \in running /\ h.op \in Flags /\ h.pc = "apply"
  /\ flags' = [flags EXCEPT ![h.event.msg] = @ \cup {h.op}]
  /\ IF h.op = "hide" THEN Done(h) ELSE Move(h, "announce")
  /\ UNCHANGED <<reactionVars, budget, text, past, pinned, asked, topic, overlapped,
                 gaveUp, listVars, shown>>

pinRest == <<reactionVars, budget, text, past, flags, asked, topic, overlapped,
             gaveUp, listVars, shown>>

PinExisting(h) ==
  /\ At(h, "pin", "existing")
  /\ IF h.event.msg \in pinned THEN Done(h) ELSE Move(h, "count")
  /\ UNCHANGED <<pinRest, pinned>>

\* Mutant: one pin too many.
FullBeyond == Cardinality(pinned) > MaxPins

\* At the limit the event is dropped.
Full == Cardinality(pinned) >= MaxPins

PinCount(h) ==
  /\ At(h, "pin", "count")
  /\ IF Full THEN Done(h) ELSE Move(h, "apply")
  /\ UNCHANGED <<pinRest, pinned>>

\* The insert; the unique index makes the handler start again.
ApplyPin(h) ==
  /\ At(h, "pin", "apply")
  /\ pinned' = pinned \cup {h.event.msg}
  /\ Move(h, IF h.event.msg \in pinned THEN "existing" ELSE "evict")
  /\ UNCHANGED pinRest

\* Mutant: an unpin leaves the cached list alone.
ApplyUnpinKeepsList(h) ==
  /\ At(h, "unpin", "apply")
  /\ pinned' = pinned \ {h.event.msg}
  /\ IF h.event.msg \in pinned THEN Move(h, "announce") ELSE Done(h)
  /\ UNCHANGED pinRest

ApplyUnpin(h) ==
  /\ At(h, "unpin", "apply")
  /\ pinned' = pinned \ {h.event.msg}
  /\ IF h.event.msg \in pinned THEN Move(h, "evict") ELSE Done(h)
  /\ UNCHANGED pinRest

\* DEL of the cached list, whose failure is ignored.
EvictList(h) ==
  /\ h \in running /\ h.pc = "evict"
  /\ \/ /\ list' = NoList
        /\ reader' = [reader EXCEPT !.overtaken = reader # NoReader]
        /\ UNCHANGED <<faults, listUnsafe>>
     \/ /\ Fault
        /\ listUnsafe' = TRUE
        /\ UNCHANGED <<list, reader>>
  /\ Move(h, "announce")
  /\ UNCHANGED <<reactionVars, requests, rowVars, asked, topic, overlapped, gaveUp,
                 shown>>

\* MESSAGE_UPDATED: one partition, so clients get the patches in this order.
Patched(op, e) ==
  CASE op = "edit" -> [shown EXCEPT !.text[e.msg] = e.new]
    [] op \in Flags -> [shown EXCEPT !.flags[e.msg] = @ \cup {op}]
    [] op = "pin" -> [shown EXCEPT !.pins = @ \cup {e.msg}]
    [] op = "unpin" -> [shown EXCEPT !.pins = @ \ {e.msg}]

Announce(h) ==
  /\ h \in running /\ h.pc = "announce"
  /\ shown' = Patched(h.op, h.event)
  /\ Done(h)
  /\ UNCHANGED <<reactionVars, budget, rowVars, asked, topic, overlapped, gaveUp,
                 listVars>>

Handle(h) ==
  \/ ApplyEdit(h) \/ ApplyFlag(h)
  \/ PinExisting(h) \/ PinCount(h) \/ ApplyPin(h) \/ ApplyUnpin(h)
  \/ EvictList(h) \/ Announce(h)

-----------------------------------------------------------------------------
(* Failures.                                                               *)

\* A call throws: the registry runs the handler again from its start, or has
\* run it often enough and sends the event to the dead-letter topic.
Throw(h) ==
  /\ h \in running /\ h.pc # "evict" /\ Fault
  /\ \/ Move(h, FirstStep(h.op)) /\ UNCHANGED gaveUp
     \/ Done(h) /\ gaveUp' = gaveUp \cup {h.op}
  /\ UNCHANGED <<reactionVars, requests, rowVars, asked, topic, overlapped,
                 listVars, shown>>

\* A crash or a rebalance: events are delivered again from the committed
\* offset; after a rebalance a handler of the former owner runs on.
Redeliver(op) ==
  /\ Fault
  /\ \E n \in 1 .. next[op] : next' = [next EXCEPT ![op] = n]
  /\ \/ /\ running' = {h \in running : h.op # op}
        /\ listUnsafe' = (listUnsafe \/ \E h \in running : At(h, op, "evict"))
        /\ UNCHANGED overlapped
     \/ /\ Live(op) # {}
        /\ running' = {[h EXCEPT !.zombie = h.zombie \/ h.op = op] : h \in running}
        /\ overlapped' = overlapped \cup {op}
        /\ UNCHANGED listUnsafe
  /\ UNCHANGED <<reactionVars, requests, rowVars, asked, topic, gaveUp, list, reader,
                 shown>>

-----------------------------------------------------------------------------
(* getPinnedMessages.                                                      *)

ReadPins ==
  /\ ~list.known /\ reader = NoReader
  /\ reader' = [NoReader EXCEPT !.pc = "fill", !.pins = pinned]
  /\ UNCHANGED <<reactionVars, budget, rowVars, asked, eventVars, list, listUnsafe,
                 shown>>

\* The SET is not awaited; it may fail.
FillList ==
  /\ reader # NoReader
  /\ \/ /\ list' = [known |-> TRUE, pins |-> reader.pins]
        /\ listUnsafe' = (listUnsafe \/ reader.overtaken)
     \/ UNCHANGED <<list, listUnsafe>>
  /\ reader' = NoReader
  /\ UNCHANGED <<reactionVars, budget, rowVars, asked, eventVars, shown>>

Reaction == ReactionsNext /\ UNCHANGED <<rowVars, asked, eventVars, listVars, shown>>

Next ==
  \/ \E op \in Ops, m \in Messages, b \in BOOLEAN : Read(op, m, b)
  \/ \E a \in asked : Refuse(a) \/ Publish(a)
  \/ \E op \in Ops : Deliver(op) \/ Redeliver(op)
  \/ \E h \in running : Handle(h) \/ Throw(h)
  \/ ReadPins \/ FillList
  \/ Reaction

Spec == Init /\ [][Next]_vars

-----------------------------------------------------------------------------
\* The original content of an edited message is in its history: whatever
\* edits were read before one another's effect, redelivered, run twice or
\* given up, the first one to be applied has kept it.
OriginalKept == \A m \in Messages : text[m] # 0 => 0 \in past[m]

\* At most MaxPins messages are pinned, although the limit is counted and
\* the pin inserted in separate statements: the topic's one handler at a time
\* is what protects it, so a handler that outlives a rebalance is excepted.
PinLimitKept == "pin" \notin overlapped => Cardinality(pinned) <= MaxPins

\* The cached list of pins is the table's, or about to be evicted.  As it has
\* no TTL, whatever breaks this lasts: a DEL that fails or dies with its
\* handler, and a reader whose SET comes after the DEL.
PinnedListFresh ==
  list.known /\ ~listUnsafe
    => list.pins = pinned \/ \E h \in running : h.pc = "evict"

\* When every event of a topic is handled, the database and the clients agree
\* on contents and withdrawals, and the last edit in the topic has won,
\* through retries and redeliveries; dead-lettered events and handlers that
\* outlive a rebalance are excepted.
Settled(op) == /\ next[op] > Len(topic[op]) /\ op \notin overlapped \cup gaveUp
               /\ \A h \in running : h.op # op

LastEdit(m) ==
  LET edits == {n \in DOMAIN topic["edit"] : topic["edit"][n].msg = m}
  IN  IF edits = {} THEN 0
      ELSE topic["edit"][CHOOSE n \in edits : \A k \in edits : k <= n].new

ClientsCatchUp ==
  \A m \in Messages :
    /\ Settled("edit") => text[m] = LastEdit(m) /\ shown.text[m] = text[m]
    /\ \A op \in Flags \ {"hide"} :
         Settled(op) => (op \in flags[m] <=> op \in shown.flags[m])
=============================================================================
