--------------------------- MODULE OutboxContract ---------------------------
(***************************************************************************)
(* What the transactional outbox promises the service that writes to it,   *)
(* whatever its processors do: Kafka only ever sees events that were       *)
(* committed, an event may be sent again, and an event is reported as done *)
(* only once Kafka has it.  "done" may be taken back.                      *)
(***************************************************************************)
CONSTANT Events

VARIABLES
  written,  \* events whose transaction committed
  sent,     \* events Kafka has at least one copy of
  done      \* events the outbox reports as completed

contractVars == <<written, sent, done>>

Init == written = {} /\ sent = {} /\ done = {}

Write(e) ==
  /\ e \notin written
  /\ written' = written \cup {e}
  /\ UNCHANGED <<sent, done>>

Send(e) ==
  /\ e \in written
  /\ sent' = sent \cup {e}
  /\ UNCHANGED <<written, done>>

Report ==
  /\ done' \subseteq sent
  /\ UNCHANGED <<written, sent>>

Next == (\E e \in Events : Write(e) \/ Send(e)) \/ Report

Spec == Init /\ [][Next]_contractVars
=============================================================================
