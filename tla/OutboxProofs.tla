---------------------------- MODULE OutboxProofs ----------------------------
(***************************************************************************)
(* Proofs about the outbox, for any number of events and instances, any    *)
(* batch size, retry limit and number of faults.                           *)
(***************************************************************************)
EXTENDS Outbox, TLAPS

(* The memory of a processor is empty outside the loop, and it has a       *)
(* current event exactly while it publishes or marks one.                  *)
MemoryFollowsLabel ==
  \A p \in Procs :
    /\ pc[p] \in {"idle", "retry", "select", "update", "fetch", "down"}
         => batch[p] = {}
    /\ pc[p] \in {"publish", "mark", "markFailed"} => cur[p] \in Events
    /\ pc[p] \notin {"publish", "mark", "markFailed"} => cur[p] = NoEvent

(* A processor about to report completion has published. *)
MarkedWasDelivered ==
  \A p \in Procs : pc[p] = "mark" => delivered[cur[p]] > 0

(* Processors only ever hold rows that were committed. *)
HeldIsWritten ==
  \A p \in Procs, e \in Events : Holds(p, e) => status[e] # "absent"

OutboxInv ==
  /\ TypeOK
  /\ MemoryFollowsLabel
  /\ HeldIsWritten
  /\ MarkedWasDelivered
  /\ CompletedWasDelivered
  /\ OwnedCopyIsFresh

LEMMA DeliverType ==
  ASSUME delivered \in [Events -> 0 .. 2], NEW e, Deliver(e)
  PROVE  delivered' \in [Events -> 0 .. 2]
<1>1. (IF delivered[e] = 0 THEN 1 ELSE 2) \in 0 .. 2
  OBVIOUS
<1>2. QED
  BY <1>1 DEF Deliver

LEMMA OutboxTypeStep == TypeOK /\ [Next]_vars => TypeOK'
<1> SUFFICES ASSUME TypeOK, [Next]_vars
             PROVE  TypeOK'
  OBVIOUS
<1> USE OutboxAssumption DEF TypeOK, Statuses, Labels, Retries, RetryCap
<1>1. CASE UNCHANGED vars
  BY <1>1 DEF vars, rowVars, procVars
<1>2. ASSUME NEW e \in Events, Create(e) PROVE TypeOK'
  BY <1>2 DEF Create, procVars
<1>3. ASSUME NEW e \in Events, Age(e) PROVE TypeOK'
  BY <1>3 DEF Age, procVars
<1>4. ASSUME NEW e \in Events, Overrun(e) PROVE TypeOK'
  BY <1>4 DEF Overrun, procVars, Fault
<1>5. ASSUME NEW p \in Procs, RequeueStuck(p) PROVE TypeOK'
  BY <1>5 DEF RequeueStuck, Goto
<1>6. ASSUME NEW p \in Procs, RetryFailed(p) PROVE TypeOK'
  BY <1>6 DEF RetryFailed, Goto
<1>7. ASSUME NEW p \in Procs, SelectPending(p) PROVE TypeOK'
  <2>1. OldestPending \in SUBSET Events
    BY DEF OldestPending, Pending
  <2>2. pc' \in [Procs -> Labels]
    BY <1>7 DEF SelectPending, Goto
  <2>3. ids' \in [Procs -> SUBSET Events]
    BY <1>7, <2>1 DEF SelectPending
  <2>4. QED
    BY <1>7, <2>2, <2>3 DEF SelectPending, rowVars
<1>8. ASSUME NEW p \in Procs, ClaimRows(p) PROVE TypeOK'
  BY <1>8 DEF ClaimRows, Goto
<1>9. ASSUME NEW p \in Procs, FetchRows(p) PROVE TypeOK'
  <2>1. Hydrated(p) \in [Events -> Retries]
    BY DEF Hydrated
  <2>2. QED
    BY <1>9, <2>1 DEF FetchRows, Goto, rowVars
<1>10. ASSUME NEW p \in Procs, NextEvent(p) PROVE TypeOK'
  BY <1>10 DEF NextEvent, Goto, rowVars
<1>11. ASSUME NEW p \in Procs, BatchDone(p) PROVE TypeOK'
  BY <1>11 DEF BatchDone, EndPass, Goto, rowVars
<1>12. ASSUME NEW p \in Procs, PublishOk(p) PROVE TypeOK'
  <2>1. delivered' \in [Events -> 0 .. 2]
    BY <1>12, DeliverType DEF PublishOk
  <2>2. QED
    BY <1>12, <2>1 DEF PublishOk, Goto, rowVars
<1>13. ASSUME NEW p \in Procs, PublishFails(p) PROVE TypeOK'
  <2>1. delivered' \in [Events -> 0 .. 2]
    BY <1>13, DeliverType DEF PublishFails
  <2>2. QED
    BY <1>13, <2>1 DEF PublishFails, Goto, rowVars
<1>14. ASSUME NEW p \in Procs, MarkCompleted(p) PROVE TypeOK'
  BY <1>14 DEF MarkCompleted, Goto
<1>15. ASSUME NEW p \in Procs, MarkFailed(p) PROVE TypeOK'
  <2>1. CASE Owns(p, cur[p])
    <3>1. cur[p] \in Events => Attempt(p, cur[p]) \in Retries
      <4>1. memRetry[p] \in [Events -> Retries]
        OBVIOUS
      <4>2. cur[p] \in Events => memRetry[p][cur[p]] \in 0 .. MaxRetries + 1
        BY <4>1
      <4>3. QED
        BY <4>2 DEF Attempt
    <3>2. retryCount' = [retryCount EXCEPT ![cur[p]] = Attempt(p, cur[p])]
      BY <1>15, <2>1 DEF MarkFailed
    <3>3. retryCount' \in [Events -> Retries]
      BY <3>1, <3>2
    <3>4. status' \in [Events -> Statuses]
      BY <1>15, <2>1 DEF MarkFailed
    <3>5. QED
      BY <1>15, <2>1, <3>3, <3>4 DEF MarkFailed, Goto
  <2>2. CASE ~ Owns(p, cur[p])
    BY <1>15, <2>2 DEF MarkFailed, Goto, rowVars
  <2>3. QED
    BY <2>1, <2>2
<1>16. ASSUME NEW p \in Procs, MarkCompletedFails(p) PROVE TypeOK'
  BY <1>16 DEF MarkCompletedFails, Goto, Fault, rowVars
<1>17. ASSUME NEW p \in Procs, PassFails(p) PROVE TypeOK'
  BY <1>17 DEF PassFails, EndPass, Goto, Fault, rowVars
<1>18. ASSUME NEW p \in Procs, Crash(p) PROVE TypeOK'
  BY <1>18 DEF Crash, EndPass, Goto, Fault, rowVars
<1>19. ASSUME NEW p \in Procs, Restart(p) PROVE TypeOK'
  BY <1>19 DEF Restart, Goto, rowVars
<1>20. QED
  BY <1>1, <1>2, <1>3, <1>4, <1>5, <1>6, <1>7, <1>8, <1>9, <1>10, <1>11,
     <1>12, <1>13, <1>14, <1>15, <1>16, <1>17, <1>18, <1>19
     DEF Next, Work, Break

(* The type invariant, for every value of the constants. *)
THEOREM OutboxTypeCorrect == Spec => []TypeOK
<1>1. Init => TypeOK
  BY OutboxAssumption DEF Init, TypeOK, Statuses, Labels, Retries, RetryCap
<1>2. QED
  BY <1>1, OutboxTypeStep, PTL DEF Spec

-----------------------------------------------------------------------------
(* One lemma for each part of the invariant that steps disturb. *)
LEMMA MemoryStep ==
  TypeOK /\ MemoryFollowsLabel /\ [Next]_vars => MemoryFollowsLabel'
<1> SUFFICES ASSUME TypeOK, MemoryFollowsLabel, [Next]_vars
             PROVE  MemoryFollowsLabel'
  OBVIOUS
<1> USE OutboxAssumption DEF TypeOK, Labels, MemoryFollowsLabel, Goto
<1>1. CASE UNCHANGED vars
  BY <1>1 DEF vars, procVars
<1>2. CASE \E e \in Events : Create(e) \/ Age(e) \/ Overrun(e)
  BY <1>2 DEF Create, Age, Overrun, procVars
<1>3. ASSUME NEW p \in Procs,
             RequeueStuck(p) \/ RetryFailed(p) \/ SelectPending(p) \/ ClaimRows(p)
      PROVE  MemoryFollowsLabel'
  BY <1>3 DEF RequeueStuck, RetryFailed, SelectPending, ClaimRows
<1>4. ASSUME NEW p \in Procs, FetchRows(p) \/ NextEvent(p)
      PROVE  MemoryFollowsLabel'
  BY <1>4 DEF FetchRows, NextEvent
<1>5. ASSUME NEW p \in Procs, PublishOk(p) \/ PublishFails(p)
      PROVE  MemoryFollowsLabel'
  BY <1>5 DEF PublishOk, PublishFails
<1>6. ASSUME NEW p \in Procs, MarkCompleted(p) \/ MarkFailed(p)
      PROVE  MemoryFollowsLabel'
  BY <1>6 DEF MarkCompleted, MarkFailed
<1>7. ASSUME NEW p \in Procs, MarkCompletedFails(p) \/ Restart(p)
      PROVE  MemoryFollowsLabel'
  BY <1>7 DEF MarkCompletedFails, Restart
<1>8. ASSUME NEW p \in Procs, BatchDone(p) \/ PassFails(p) \/ Crash(p)
      PROVE  MemoryFollowsLabel'
  BY <1>8 DEF BatchDone, PassFails, Crash, EndPass
<1>9. QED
  BY <1>1, <1>2, <1>3, <1>4, <1>5, <1>6, <1>7, <1>8 DEF Next, Work, Break

(* Copies in Kafka never disappear. *)
LEMMA DeliveredGrows ==
  TypeOK /\ MemoryFollowsLabel /\ [Next]_vars
    => \A e \in Events : delivered[e] > 0 => delivered'[e] > 0
<1> SUFFICES ASSUME TypeOK, MemoryFollowsLabel, [Next]_vars, NEW e \in Events,
                    delivered[e] > 0
             PROVE  delivered'[e] > 0
  OBVIOUS
<1> USE DEF TypeOK, MemoryFollowsLabel
<1>1. CASE UNCHANGED delivered
  BY <1>1
<1>2. ASSUME NEW p \in Procs, PublishOk(p) \/ PublishFails(p)
      PROVE  delivered'[e] > 0
  BY <1>1, <1>2 DEF PublishOk, PublishFails, Deliver
<1>3. QED
  BY <1>1, <1>2 DEF Next, Work, Break, vars, Create, Age, Overrun, RequeueStuck,
     RetryFailed, SelectPending, ClaimRows, FetchRows, NextEvent, BatchDone,
     MarkCompleted, MarkFailed, MarkCompletedFails, PassFails, Crash, Restart

(* A committed row stays: no step makes it absent. *)
LEMMA WrittenStays ==
  ASSUME TypeOK, [Next]_vars, NEW e \in Events, status[e] # "absent"
  PROVE  status'[e] # "absent"
<1> USE DEF TypeOK
<1>1. CASE UNCHANGED status
  BY <1>1
<1>2. CASE \E f \in Events : Create(f)
  BY <1>2 DEF Create
<1>3. ASSUME NEW p \in Procs,
             RequeueStuck(p) \/ RetryFailed(p) \/ ClaimRows(p)
      PROVE  status'[e] # "absent"
  BY <1>3 DEF RequeueStuck, RetryFailed, ClaimRows
<1>4. ASSUME NEW p \in Procs, MarkCompleted(p) \/ MarkFailed(p)
      PROVE  status'[e] # "absent"
  BY <1>1, <1>4 DEF MarkCompleted, MarkFailed, rowVars
<1>5. ASSUME NEW p \in Procs,
             \/ SelectPending(p) \/ FetchRows(p) \/ NextEvent(p) \/ BatchDone(p)
             \/ PublishOk(p) \/ PublishFails(p) \/ Break(p) \/ Restart(p)
      PROVE  UNCHANGED status
  BY <1>5 DEF SelectPending, FetchRows, NextEvent, BatchDone, PublishOk,
     PublishFails, Break, MarkCompletedFails, PassFails, Crash, Restart, rowVars
<1>6. CASE \E f \in Events : Age(f) \/ Overrun(f)
  BY <1>1, <1>6 DEF Age, Overrun
<1>7. QED
  BY <1>1, <1>2, <1>3, <1>4, <1>5, <1>6 DEF Next, Work, vars, rowVars

LEMMA HeldStep == TypeOK /\ HeldIsWritten /\ [Next]_vars => HeldIsWritten'
<1> SUFFICES ASSUME TypeOK, HeldIsWritten, [Next]_vars,
                    NEW p \in Procs, NEW e \in Events, Holds(p, e)'
             PROVE  status'[e] # "absent"
  BY DEF HeldIsWritten
<1> USE OutboxAssumption DEF TypeOK
<1>1. CASE Holds(p, e)
  BY <1>1, WrittenStays DEF HeldIsWritten
<1>2. CASE UNCHANGED <<ids, batch, cur>>
  BY <1>1, <1>2 DEF Holds
<1>3. ASSUME NEW q \in Procs, SelectPending(q)
      PROVE  Holds(p, e) \/ status'[e] # "absent"
  <2>1. OldestPending \subseteq Pending
    BY DEF OldestPending
  <2>2. CASE e \in OldestPending
    BY <1>3, <2>1, <2>2 DEF SelectPending, Pending, rowVars
  <2>3. CASE e \notin OldestPending
    BY <1>3, <2>3 DEF SelectPending, Holds
  <2>4. QED
    BY <2>2, <2>3
<1>4. ASSUME NEW q \in Procs, FetchRows(q) \/ NextEvent(q)
      PROVE  Holds(p, e)
  BY <1>4 DEF FetchRows, NextEvent, Holds
<1>5. ASSUME NEW q \in Procs, MarkCompleted(q) \/ MarkFailed(q)
      PROVE  Holds(p, e)
  BY <1>5 DEF MarkCompleted, MarkFailed, Holds
<1>6. ASSUME NEW q \in Procs, BatchDone(q) \/ PassFails(q) \/ Crash(q)
      PROVE  Holds(p, e)
  BY <1>6 DEF BatchDone, PassFails, Crash, EndPass, Holds
<1>7. ASSUME NEW q \in Procs,
             \/ RequeueStuck(q) \/ RetryFailed(q) \/ ClaimRows(q) \/ PublishOk(q)
             \/ PublishFails(q) \/ MarkCompletedFails(q) \/ Restart(q)
      PROVE  UNCHANGED <<ids, batch, cur>>
  BY <1>7 DEF RequeueStuck, RetryFailed, ClaimRows, PublishOk, PublishFails,
     MarkCompletedFails, Restart
<1>8. CASE \E f \in Events : Create(f) \/ Age(f) \/ Overrun(f)
  BY <1>2, <1>8 DEF Create, Age, Overrun, procVars
<1>9. QED
  BY <1>1, <1>2, <1>3, <1>4, <1>5, <1>6, <1>7, <1>8
     DEF Next, Work, Break, vars, procVars

(* What the proofs of the three remaining parts start from. *)
OutboxHyp ==
  /\ TypeOK /\ MemoryFollowsLabel
  /\ MarkedWasDelivered /\ CompletedWasDelivered /\ OwnedCopyIsFresh
  /\ \A e \in Events : delivered[e] > 0 => delivered'[e] > 0
  /\ TypeOK' /\ MemoryFollowsLabel'

LEMMA MarkedStep == OutboxHyp /\ [Next]_vars => MarkedWasDelivered'
<1> SUFFICES ASSUME OutboxHyp, [Next]_vars
             PROVE  MarkedWasDelivered'
  OBVIOUS
<1> USE DEF OutboxHyp, TypeOK, MemoryFollowsLabel, MarkedWasDelivered
<1>1. CASE UNCHANGED <<pc, cur>>
  BY <1>1
<1>2. ASSUME NEW p \in Procs, NEW l \in Labels \ {"mark"}, Goto(p, l),
             \A q \in Procs \ {p} : cur'[q] = cur[q]
      PROVE  MarkedWasDelivered'
  <2> SUFFICES ASSUME NEW q \in Procs, pc'[q] = "mark"
               PROVE  delivered'[cur'[q]] > 0
    OBVIOUS
  <2>1. q # p /\ pc[q] = "mark" /\ cur'[q] = cur[q] /\ cur[q] \in Events
    BY <1>2 DEF Goto
  <2>2. QED
    BY <2>1
<1>3. ASSUME NEW p \in Procs, PublishOk(p)
      PROVE  MarkedWasDelivered'
  <2> SUFFICES ASSUME NEW q \in Procs, pc'[q] = "mark"
               PROVE  delivered'[cur'[q]] > 0
    OBVIOUS
  <2>1. cur' = cur /\ cur[q] \in Events
    BY <1>3 DEF PublishOk
  <2>2. CASE q = p
    BY <1>3, <2>1, <2>2 DEF PublishOk, Deliver
  <2>3. CASE q # p
    BY <1>3, <2>1, <2>3 DEF PublishOk, Goto
  <2>4. QED
    BY <2>2, <2>3
<1>4. ASSUME NEW p \in Procs, Work(p) \/ Break(p) \/ Restart(p), ~ PublishOk(p)
      PROVE  \E l \in Labels \ {"mark"} :
               Goto(p, l) /\ \A q \in Procs \ {p} : cur'[q] = cur[q]
  <2> USE DEF Labels
  <2>1. CASE RequeueStuck(p) \/ RetryFailed(p) \/ ClaimRows(p)
    BY <2>1 DEF RequeueStuck, RetryFailed, ClaimRows
  <2>2. CASE SelectPending(p) \/ FetchRows(p) \/ NextEvent(p)
    BY <2>2 DEF SelectPending, FetchRows, NextEvent
  <2>3. CASE PublishFails(p) \/ MarkCompleted(p) \/ MarkFailed(p)
    BY <2>3 DEF PublishFails, MarkCompleted, MarkFailed
  <2>4. CASE MarkCompletedFails(p) \/ Restart(p)
    BY <2>4 DEF MarkCompletedFails, Restart
  <2>5. CASE BatchDone(p) \/ PassFails(p) \/ Crash(p)
    BY <2>5 DEF BatchDone, PassFails, Crash, EndPass
  <2>6. QED
    BY <1>4, <2>1, <2>2, <2>3, <2>4, <2>5 DEF Work, Break
<1>5. CASE \E e \in Events : Create(e) \/ Age(e) \/ Overrun(e)
  BY <1>1, <1>5 DEF Create, Age, Overrun, procVars
<1>6. QED
  BY <1>1, <1>2, <1>3, <1>4, <1>5 DEF Next, vars, procVars

LEMMA CompletedStep == OutboxHyp /\ [Next]_vars => CompletedWasDelivered'
<1> SUFFICES ASSUME OutboxHyp, [Next]_vars, NEW e \in Events,
                    status'[e] = "COMPLETED"
             PROVE  delivered'[e] > 0
  BY DEF CompletedWasDelivered
<1> USE DEF OutboxHyp, TypeOK, CompletedWasDelivered
<1>1. CASE status[e] = "COMPLETED"
  BY <1>1
<1>2. ASSUME NEW p \in Procs, MarkCompleted(p), status[e] # "COMPLETED"
      PROVE  delivered'[e] > 0
  <2>1. pc[p] = "mark" /\ cur[p] = e
    BY <1>2 DEF MarkCompleted
  <2>2. QED
    BY <2>1 DEF MarkedWasDelivered
<1>3. ASSUME NEW p \in Procs, Work(p) \/ Break(p) \/ Restart(p), ~ MarkCompleted(p)
      PROVE  status[e] = "COMPLETED"
  <2>1. CASE RequeueStuck(p) \/ RetryFailed(p) \/ ClaimRows(p)
    BY <2>1 DEF RequeueStuck, RetryFailed, ClaimRows
  <2>2. CASE MarkFailed(p)
    BY <2>2 DEF MarkFailed, rowVars
  <2>3. CASE SelectPending(p) \/ FetchRows(p) \/ NextEvent(p) \/ BatchDone(p)
    BY <2>3 DEF SelectPending, FetchRows, NextEvent, BatchDone, rowVars
  <2>4. CASE PublishOk(p) \/ PublishFails(p) \/ Restart(p)
    BY <2>4 DEF PublishOk, PublishFails, Restart, rowVars
  <2>5. CASE Break(p)
    BY <2>5 DEF Break, MarkCompletedFails, PassFails, Crash, rowVars
  <2>6. QED
    BY <1>3, <2>1, <2>2, <2>3, <2>4, <2>5 DEF Work
<1>4. CASE \E f \in Events : Create(f) \/ Age(f) \/ Overrun(f)
  BY <1>1, <1>4 DEF Create, Age, Overrun
<1>5. QED
  BY <1>1, <1>2, <1>3, <1>4 DEF Next, vars, rowVars

LEMMA FreshStep == OutboxHyp /\ [Next]_vars => OwnedCopyIsFresh'
<1> SUFFICES ASSUME OutboxHyp, [Next]_vars, NEW p \in Procs, NEW e \in Events,
                    Owns(p, e)', e \in batch'[p] \cup {cur'[p]}
             PROVE  memRetry'[p][e] = retryCount'[e]
  BY DEF OwnedCopyIsFresh, Owns
<1> DEFINE Kept == e \in batch[p] \cup {cur[p]} /\ memRetry'[p][e] = memRetry[p][e]
           Row  == Owns(p, e) /\ retryCount'[e] = retryCount[e]
<1> USE OutboxAssumption DEF OutboxHyp, TypeOK, MemoryFollowsLabel, Owns
<1>1. CASE Kept /\ Row
  BY <1>1 DEF OwnedCopyIsFresh
<1>2. CASE UNCHANGED <<rowVars, batch, cur, memRetry>>
  BY <1>1, <1>2 DEF rowVars
<1>3. CASE \E f \in Events : Create(f) \/ Age(f) \/ Overrun(f)
  BY <1>1, <1>3 DEF Create, Age, Overrun, procVars
<1>4. ASSUME NEW q \in Procs, RequeueStuck(q) \/ RetryFailed(q)
      PROVE  Kept /\ Row
  BY <1>4 DEF RequeueStuck, RetryFailed
<1>5. ASSUME NEW q \in Procs, ClaimRows(q)
      PROVE  Kept /\ Row
  <2>1. q # p
    BY <1>5 DEF ClaimRows, Goto
  <2>2. QED
    BY <1>5, <2>1 DEF ClaimRows
<1>6. ASSUME NEW q \in Procs, FetchRows(q)
      PROVE  memRetry'[p][e] = retryCount'[e]
  <2>1. CASE q = p
    <3>1. e \in ids[p]
      <4>1. batch'[p] = ids[p] /\ cur'[p] = NoEvent
        BY <1>6, <2>1 DEF FetchRows
      <4>2. QED
        BY <4>1
    <3>2. memRetry'[p] = [f \in Events |-> IF f \in ids[p] THEN retryCount[f] ELSE 0]
      BY <1>6, <2>1 DEF FetchRows, Hydrated
    <3>3. QED
      BY <1>6, <3>1, <3>2 DEF FetchRows, rowVars
  <2>2. CASE q # p
    <3>1. Kept
      BY <1>6, <2>2 DEF FetchRows
    <3>2. Row
      BY <1>6 DEF FetchRows, rowVars
    <3>3. QED
      BY <1>1, <3>1, <3>2
  <2>3. QED
    BY <2>1, <2>2
<1>7. ASSUME NEW q \in Procs, NextEvent(q)
      PROVE  Kept /\ Row
  BY <1>7 DEF NextEvent, rowVars
<1>8. ASSUME NEW q \in Procs, MarkCompleted(q)
      PROVE  Kept /\ Row
  BY <1>8 DEF MarkCompleted
<1>9. ASSUME NEW q \in Procs, MarkFailed(q)
      PROVE  Kept /\ Row
  <2>1. Kept
    BY <1>9 DEF MarkFailed
  <2>2. CASE Owns(q, cur[q])
    <3>1. cur[q] # e
      BY <1>9, <2>2 DEF MarkFailed
    <3>2. QED
      BY <1>9, <2>1, <2>2, <3>1 DEF MarkFailed
  <2>3. CASE ~ Owns(q, cur[q])
    BY <1>9, <2>1, <2>3 DEF MarkFailed, rowVars
  <2>4. QED
    BY <2>2, <2>3
<1>10. ASSUME NEW q \in Procs, BatchDone(q) \/ PassFails(q) \/ Crash(q)
       PROVE  Kept /\ Row
  <2>1. q # p
    BY <1>10 DEF BatchDone, PassFails, Crash, EndPass
  <2>2. QED
    BY <1>10, <2>1 DEF BatchDone, PassFails, Crash, EndPass, rowVars
<1>11. ASSUME NEW q \in Procs,
              SelectPending(q) \/ PublishOk(q) \/ PublishFails(q)
                \/ MarkCompletedFails(q) \/ Restart(q)
       PROVE  UNCHANGED <<rowVars, batch, cur, memRetry>>
  BY <1>11 DEF SelectPending, PublishOk, PublishFails, MarkCompletedFails, Restart
<1> HIDE DEF Kept, Row
<1>12. QED
  BY <1>1, <1>2, <1>3, <1>4, <1>5, <1>6, <1>7, <1>8, <1>9, <1>10, <1>11
     DEF Next, Work, Break, vars, procVars

LEMMA OutboxInvStep == OutboxInv /\ [Next]_vars => OutboxInv'
<1> SUFFICES ASSUME OutboxInv, [Next]_vars
             PROVE  OutboxInv'
  OBVIOUS
<1>1. OutboxHyp
  BY OutboxTypeStep, MemoryStep, DeliveredGrows DEF OutboxInv, OutboxHyp
<1>2. QED
  BY <1>1, HeldStep, MarkedStep, CompletedStep, FreshStep DEF OutboxInv, OutboxHyp

LEMMA OutboxInvariant == Spec => []OutboxInv
<1>1. Init => OutboxInv
  BY OutboxAssumption DEF Init, OutboxInv, TypeOK, Statuses, Labels, Retries, RetryCap,
     MemoryFollowsLabel, MarkedWasDelivered, CompletedWasDelivered, OwnedCopyIsFresh, Owns, HeldIsWritten, Holds
<1>2. QED
  BY <1>1, OutboxInvStep, PTL DEF Spec

-----------------------------------------------------------------------------
(* No event is reported COMPLETED before Kafka has it. *)
THEOREM OutboxCompletedWasDelivered == Spec => []CompletedWasDelivered
<1>1. OutboxInv => CompletedWasDelivered
  BY DEF OutboxInv
<1>2. QED
  BY <1>1, OutboxInvariant, PTL

(* An instance that owns a row has its current retry count. *)
THEOREM OutboxOwnedCopyIsFresh == Spec => []OwnedCopyIsFresh
<1>1. OutboxInv => OwnedCopyIsFresh
  BY DEF OutboxInv
<1>2. QED
  BY <1>1, OutboxInvariant, PTL

(* A late failure report never takes an attempt off a row's count. *)
THEOREM OutboxRetryCountNeverFalls == Spec => RetryCountNeverFalls
<1>1. OutboxInv /\ [Next]_vars
        => [\A e \in Events : retryCount'[e] >= retryCount[e]]_vars
  <2> SUFFICES ASSUME OutboxInv, [Next]_vars, NEW e \in Events
               PROVE  retryCount'[e] >= retryCount[e]
    OBVIOUS
  <2>1. retryCount[e] \in Int
    BY OutboxAssumption DEF OutboxInv, TypeOK, Retries, RetryCap
  <2>2. CASE UNCHANGED retryCount
    BY <2>1, <2>2
  <2>3. ASSUME NEW p \in Procs, MarkFailed(p)
        PROVE  retryCount'[e] >= retryCount[e]
    <3>1. CASE cur[p] = e /\ Owns(p, e)
      <4>1. memRetry[p][e] = retryCount[e]
        BY <3>1 DEF OutboxInv, OwnedCopyIsFresh, Owns
      <4>2. retryCount'[e] = IF retryCount[e] < RetryCap
                               THEN retryCount[e] + 1 ELSE RetryCap
        BY <2>3, <3>1, <4>1 DEF MarkFailed, Attempt, OutboxInv, TypeOK
      <4>3. retryCount[e] \in 0 .. RetryCap /\ RetryCap \in Int
        BY OutboxAssumption DEF OutboxInv, TypeOK, Retries, RetryCap
      <4>4. QED
        BY <4>2, <4>3
    <3>2. CASE ~ (cur[p] = e /\ Owns(p, e))
      BY <2>1, <2>3, <3>2 DEF MarkFailed, OutboxInv, TypeOK, rowVars
    <3>3. QED
      BY <3>1, <3>2
  <2>4. QED
    BY <2>2, <2>3 DEF Next, Work, Break, vars, rowVars, Create, Age, Overrun,
       RequeueStuck, RetryFailed, SelectPending, ClaimRows, FetchRows, NextEvent,
       BatchDone, PublishOk, PublishFails, MarkCompleted, MarkCompletedFails,
       PassFails, Crash, Restart
<1>2. QED
  BY <1>1, OutboxInvariant, PTL DEF Spec, RetryCountNeverFalls

-----------------------------------------------------------------------------
(* The outbox implements its contract: only committed events are sent, and *)
(* only sent events are reported as done.                                  *)
THEOREM OutboxImplementsContract == Spec => ImplementsContract
<1> DEFINE Written == {e \in Events : status[e] # "absent"}
           Sent    == {e \in Events : delivered[e] > 0}
           Done    == {e \in Events : status[e] = "COMPLETED"}
<1> USE DEF Contract!Next, Contract!Write, Contract!Send, Contract!Report,
            Contract!contractVars
<1>1. Init => Contract!Init
  BY DEF Init, Contract!Init
<1>2. OutboxInv /\ OutboxInv' /\ [Next]_vars
        => [Contract!Next]_(Contract!contractVars)
  <2> SUFFICES ASSUME OutboxInv, OutboxInv', [Next]_vars
               PROVE  Contract!Next \/ UNCHANGED Contract!contractVars
    OBVIOUS
  <2> USE DEF OutboxInv, TypeOK
  <2>1. Done' \subseteq Sent'
    BY DEF CompletedWasDelivered
  <2>2. CASE UNCHANGED <<Written, Sent>>
    BY <2>1, <2>2
  <2>3. ASSUME NEW e \in Events, Create(e)
        PROVE  Contract!Write(e)
    <3>1. e \notin Written /\ Written' = Written \cup {e}
      BY <2>3 DEF Create
    <3>2. UNCHANGED <<Sent, Done>>
      BY <2>3 DEF Create
    <3>3. QED
      BY <3>1, <3>2
  <2>4. ASSUME NEW p \in Procs, PublishOk(p) \/ PublishFails(p)
        PROVE  Contract!Next \/ UNCHANGED <<Written, Sent>>
    <3>1. UNCHANGED <<Written, Done>>
      BY <2>4 DEF PublishOk, PublishFails, rowVars
    <3>2. cur[p] \in Written
      BY <2>4 DEF PublishOk, PublishFails, MemoryFollowsLabel, HeldIsWritten, Holds
    <3>3. CASE UNCHANGED delivered
      BY <3>1, <3>3
    <3>4. CASE Deliver(cur[p])
      <4>1. Sent' = Sent \cup {cur[p]}
        BY <3>2, <3>4 DEF Deliver
      <4>2. QED
        BY <3>1, <3>2, <4>1
    <3>5. QED
      BY <2>4, <3>3, <3>4 DEF PublishOk, PublishFails
  <2>5. ASSUME NEW p \in Procs, Work(p) \/ Break(p) \/ Restart(p),
               ~ PublishOk(p), ~ PublishFails(p)
        PROVE  UNCHANGED <<Written, Sent>>
    <3>1. UNCHANGED delivered
      BY <2>5 DEF Work, Break, RequeueStuck, RetryFailed, SelectPending, ClaimRows,
         FetchRows, NextEvent, BatchDone, MarkCompleted, MarkFailed,
         MarkCompletedFails, PassFails, Crash, Restart
    <3>2. Written \subseteq Written'
      BY WrittenStays
    <3>3. ASSUME NEW e \in Events, status[e] = "absent"
          PROVE  status'[e] = "absent"
      <4>1. CASE ClaimRows(p)
        <5>1. e \notin ids[p]
          BY <3>3 DEF HeldIsWritten, Holds
        <5>2. QED
          BY <3>3, <4>1, <5>1 DEF ClaimRows
      <4>2. CASE RequeueStuck(p) \/ RetryFailed(p)
        BY <3>3, <4>2 DEF RequeueStuck, RetryFailed, Retriable
      <4>3. CASE MarkCompleted(p) \/ MarkFailed(p)
        BY <3>3, <4>3 DEF MarkCompleted, MarkFailed, Owns, rowVars
      <4>4. CASE UNCHANGED status
        BY <3>3, <4>4
      <4>5. QED
        BY <2>5, <4>1, <4>2, <4>3, <4>4 DEF Work, Break, SelectPending, FetchRows,
           NextEvent, BatchDone, MarkCompletedFails, PassFails, Crash, Restart, rowVars
    <3>4. QED
      BY <3>1, <3>2, <3>3
  <2>6. CASE UNCHANGED vars \/ \E e \in Events : Age(e) \/ Overrun(e)
    BY <2>6 DEF vars, rowVars, Age, Overrun
  <2> HIDE DEF Contract!Write
  <2>7. QED
    BY <2>2, <2>3, <2>4, <2>5, <2>6 DEF Next
<1>3. QED
  BY <1>1, <1>2, OutboxInvariant, PTL DEF Spec, ImplementsContract, Contract!Spec
-----------------------------------------------------------------------------
(* One instance without faults: every row in its hands is its own, and     *)
(* every PROCESSING row is in its hands, so that none grows old.           *)
RowsInHand(p) ==
  /\ pc[p] # "down"
  /\ pc[p] \notin {"update", "fetch"} => ids[p] = {}
  /\ pc[p] = "update" => \A e \in ids[p] : status[e] = "PENDING"
  /\ pc[p] # "update" => \A e \in Events : Holds(p, e) => Owns(p, e)
  /\ \A e \in Events : status[e] = "PROCESSING" => Holds(p, e) /\ ~ aged[e]
  /\ cur[p] \notin batch[p]

(* An event with a copy in Kafka is completed or about to be, or a publish *)
(* of it has failed.                                                       *)
CopyAccounted(p, e) ==
  \/ delivered[e] = 0
  \/ retryCount[e] > 0
  \/ pc[p] = "markFailed" /\ cur[p] = e
  \/ delivered[e] = 1 /\ status[e] = "COMPLETED"
  \/ delivered[e] = 1 /\ pc[p] = "mark" /\ cur[p] = e

SoleInv(p) ==
  faults = 0 => RowsInHand(p) /\ \A e \in Events : CopyAccounted(p, e)

LEMMA RowsInHandStep ==
  ASSUME NEW p \in Procs, Procs = {p}, OutboxInv, RowsInHand(p),
         \/ Work(p)
         \/ \E e \in Events : Create(e) \/ Age(e)
  PROVE  RowsInHand(p)'
<1> USE OutboxAssumption DEF OutboxInv, TypeOK, MemoryFollowsLabel, RowsInHand, Holds,
        Owns, Goto
<1>1. ASSUME NEW e \in Events, Create(e) PROVE RowsInHand(p)'
  BY <1>1 DEF Create, procVars, HeldIsWritten
<1>2. ASSUME NEW e \in Events, Age(e) PROVE RowsInHand(p)'
  BY <1>2 DEF Age, Orphaned, procVars
<1>3. CASE RequeueStuck(p)
  BY <1>3 DEF RequeueStuck
<1>4. CASE RetryFailed(p)
  BY <1>4 DEF RetryFailed, Retriable
<1>5. CASE SelectPending(p)
  <2>1. \A e \in OldestPending : status[e] = "PENDING"
    BY DEF OldestPending, Pending
  <2>2. CASE OldestPending = {}
    BY <1>5, <2>2 DEF SelectPending, rowVars
  <2>3. CASE OldestPending # {}
    <3>1. pc'[p] = "update" /\ ids'[p] = OldestPending
      BY <1>5, <2>3 DEF SelectPending
    <3>2. UNCHANGED <<rowVars, batch, cur>>
      BY <1>5 DEF SelectPending
    <3>3. QED
      BY <1>5, <2>1, <3>1, <3>2 DEF SelectPending, rowVars
  <2>4. QED
    BY <2>2, <2>3
<1>6. CASE ClaimRows(p)
  BY <1>6 DEF ClaimRows
<1>7. CASE FetchRows(p)
  BY <1>7 DEF FetchRows, rowVars
<1>8. CASE NextEvent(p)
  BY <1>8 DEF NextEvent, rowVars
<1>9. CASE BatchDone(p)
  BY <1>9 DEF BatchDone, EndPass, rowVars
<1>10. CASE PublishOk(p) \/ PublishFails(p)
  BY <1>10 DEF PublishOk, PublishFails, rowVars
<1>11. CASE MarkCompleted(p)
  <2>1. Owns(p, cur[p])
    BY <1>11 DEF MarkCompleted
  <2>2. QED
    BY <1>11, <2>1 DEF MarkCompleted
<1>12. CASE MarkFailed(p)
  <2>1. Owns(p, cur[p])
    BY <1>12 DEF MarkFailed
  <2>2. QED
    BY <1>12, <2>1 DEF MarkFailed
<1>13. QED
  BY <1>1, <1>2, <1>3, <1>4, <1>5, <1>6, <1>7, <1>8, <1>9, <1>10, <1>11, <1>12
     DEF Work

LEMMA CopyAccountedStep ==
  ASSUME NEW p \in Procs, Procs = {p}, OutboxInv, RowsInHand(p),
         NEW e \in Events, CopyAccounted(p, e),
         \/ Work(p)
         \/ \E f \in Events : Create(f) \/ Age(f)
  PROVE  CopyAccounted(p, e)'
<1> USE OutboxAssumption DEF OutboxInv, TypeOK, MemoryFollowsLabel, RowsInHand, Holds,
        Owns, Goto, CopyAccounted
<1>1. ASSUME NEW f \in Events, Create(f) \/ Age(f) PROVE CopyAccounted(p, e)'
  BY <1>1 DEF Create, Age, procVars, CompletedWasDelivered
<1>2. CASE RequeueStuck(p) \/ RetryFailed(p)
  BY <1>2 DEF RequeueStuck, RetryFailed, Retriable
<1>3. CASE SelectPending(p) \/ FetchRows(p) \/ NextEvent(p) \/ BatchDone(p)
  BY <1>3 DEF SelectPending, FetchRows, NextEvent, BatchDone, EndPass, rowVars
<1>4. CASE ClaimRows(p)
  BY <1>4 DEF ClaimRows
<1>5. CASE PublishOk(p) \/ PublishFails(p)
  <2>1. status[cur[p]] = "PROCESSING"
    BY <1>5 DEF PublishOk, PublishFails
  <2>2. CASE cur[p] = e
    BY <1>5, <2>1, <2>2 DEF PublishOk, PublishFails, Deliver, rowVars
  <2>3. CASE cur[p] # e
    BY <1>5, <2>3 DEF PublishOk, PublishFails, Deliver, rowVars
  <2>4. QED
    BY <2>2, <2>3
<1>6. CASE MarkCompleted(p)
  <2>1. Owns(p, cur[p])
    BY <1>6 DEF MarkCompleted
  <2>2. QED
    BY <1>6, <2>1 DEF MarkCompleted
<1>7. CASE MarkFailed(p)
  <2>1. Owns(p, cur[p])
    BY <1>7 DEF MarkFailed
  <2>2. CASE cur[p] = e
    <3>1. Attempt(p, e) > 0
      <4>1. memRetry[p][e] \in 0 .. MaxRetries + 1
        BY DEF Retries, RetryCap
      <4>2. QED
        BY <4>1 DEF Attempt, RetryCap
    <3>2. retryCount'[e] = Attempt(p, e)
      BY <1>7, <2>1, <2>2 DEF MarkFailed
    <3>3. QED
      BY <3>1, <3>2
  <2>3. CASE cur[p] # e
    BY <1>7, <2>1, <2>3 DEF MarkFailed
  <2>4. QED
    BY <2>2, <2>3
<1>8. QED
  BY <1>1, <1>2, <1>3, <1>4, <1>5, <1>6, <1>7 DEF Work

LEMMA SoleStep ==
  ASSUME NEW p \in Procs, Procs = {p}, OutboxInv, SoleInv(p), [Next]_vars
  PROVE  SoleInv(p)'
<1> SUFFICES ASSUME faults' = 0
             PROVE  RowsInHand(p)' /\ \A e \in Events : CopyAccounted(p, e)'
  BY DEF SoleInv
<1>1. ~ Fault
  BY DEF Fault, OutboxInv, TypeOK
<1>2. faults = 0
  BY <1>1 DEF Next, Work, Break, vars, Create, Age, Overrun, RequeueStuck,
     RetryFailed, SelectPending, ClaimRows, FetchRows, NextEvent, BatchDone,
     PublishOk, PublishFails, MarkCompleted, MarkFailed, MarkCompletedFails,
     PassFails, Crash, Restart
<1>3. RowsInHand(p) /\ \A e \in Events : CopyAccounted(p, e)
  BY <1>2 DEF SoleInv
<1>4. CASE UNCHANGED vars
  BY <1>3, <1>4 DEF vars, rowVars, procVars, RowsInHand, CopyAccounted, Holds, Owns
<1>5. CASE Next
  <2>1. Work(p) \/ \E e \in Events : Create(e) \/ Age(e)
    BY <1>1, <1>3, <1>5 DEF Next, Break, Overrun, MarkCompletedFails, PassFails,
       Crash, Restart, RowsInHand
  <2>2. QED
    BY <1>3, <2>1, RowsInHandStep, CopyAccountedStep
<1>6. QED
  BY <1>4, <1>5

(* With a single instance, and as long as nothing crashes, fails between   *)
(* two statements or overruns the lock, a consumer sees an event twice     *)
(* only if a publish of it was reported as failed.                         *)
THEOREM OutboxDuplicateOnlyAfterFailure ==
  ASSUME NEW p, Procs = {p}
  PROVE  Spec => []DuplicateOnlyAfterFailure
<1>1. Init => SoleInv(p)
  BY OutboxAssumption DEF Init, SoleInv, RowsInHand, CopyAccounted, Holds, Owns
<1>2. OutboxInv /\ SoleInv(p) /\ [Next]_vars => SoleInv(p)'
  BY SoleStep
<1>3. OutboxInv /\ SoleInv(p) => DuplicateOnlyAfterFailure
  <2> SUFFICES ASSUME OutboxInv, SoleInv(p), faults = 0,
                      NEW e \in Events, delivered[e] = 2
               PROVE  \/ retryCount[e] > 0
                      \/ pc[p] = "markFailed" /\ cur[p] = e
    BY DEF DuplicateOnlyAfterFailure
  <2>1. CopyAccounted(p, e)
    BY DEF SoleInv
  <2>2. QED
    BY <2>1 DEF CopyAccounted
<1>4. QED
  BY <1>1, <1>2, <1>3, OutboxInvariant, PTL DEF Spec
=============================================================================
