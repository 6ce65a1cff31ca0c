-------------------------- MODULE DirectChatProofs --------------------------
(***************************************************************************)
(* Proofs about the rows of a pair of users under any number of concurrent *)
(* handlers and of requests, and about direct chats: with consumers,       *)
(* gateway and chat-core around the service friends still have agreed, a   *)
(* standing block stops messages, and strangers stay out, for any number   *)
(* of messages and failing calls.                                          *)
(***************************************************************************)
EXTENDS DirectChat, TLAPS

-----------------------------------------------------------------------------
(* The service alone (module Friendship).                                  *)

(* What a handler's job says: whose request it is, that an accept has seen *)
(* a row of somebody who asked, whatever has become of the row in the      *)
(* meantime, and which transactions write which statuses.                  *)
JobOK(j) ==
  /\ j.pc \notin {"idle", "answer"} => j.user \in Users
  /\ j.pc = "accept" => Other(j.user) \in willing
  /\ j.op = "accept" => j.pc \in {"idle", "check", "accept", "answer"}
  /\ \A x \in Users :
       /\ j.own["friendships"][x] = "pending_in" => j.pc = "send" /\ x = Other(j.user)
       /\ j.own["friendships"][x] = "friend" => j.pc = "accept"

HandlersOK == \A w \in Workers : JobOK(job[w])

(* The other side of a request that came in has asked for it. *)
AskedIsWilling ==
  \A u \in Users : row[u] = "pending_in" => Other(u) \in willing

FriendshipInv ==
  /\ FriendshipTypeOK /\ HandlersOK
  /\ AskedIsWilling /\ FriendsAreWilling

-----------------------------------------------------------------------------
LEMMA OtherUser ==
  ASSUME NEW u \in Users
  PROVE  Other(u) \in Users /\ Other(u) # u /\ Users = {u, Other(u)}
<1>1. \E x \in Users : x # u
  BY PairAssumption
<1>2. Other(u) \in Users /\ Other(u) # u
  BY <1>1 DEF Other
<1>3. QED
  BY <1>2, PairAssumption

(* Which values the statements of the transactions write. *)
StatementOK(s, tx, u) ==
  /\ s.table \in Tables /\ s.users \subseteq Users
  /\ s.value \in Statuses \cup {"sent"}
  /\ s.value = "pending_in" => tx = "send" /\ s.users = {Other(u)}
  /\ s.value = "friend" => tx = "accept"

LEMMA ScriptFacts ==
  ASSUME NEW u \in Users, NEW tx \in Transactions,
         NEW i \in Nat \ {0}, i <= Len(Script(tx, u))
  PROVE  StatementOK(Script(tx, u)[i], tx, u)
<1> USE DEF Script, Statement, StatementOK, Statuses, Tables, Insert, Update, Delete, Seek
<1>0. Other(u) \in Users
  BY OtherUser
<1>1. CASE tx = "send"
  BY <1>0, <1>1 DEF SendScript
<1>2. CASE tx = "accept"
  BY <1>0, <1>2 DEF AcceptScript
<1>3. CASE tx = "reject"
  BY <1>0, <1>3 DEF RejectScript, Unlink
<1>4. CASE tx = "cancel"
  BY <1>0, <1>4 DEF CancelScript, Unlink
<1>5. CASE tx = "unfriend"
  BY <1>0, <1>5 DEF Unlink
<1>6. CASE tx = "block"
  BY <1>0, <1>6 DEF BlockScript, Unlink
<1>7. CASE tx = "unblock"
  BY <1>0, <1>7 DEF UnblockScript
<1>8. QED
  BY <1>1, <1>2, <1>3, <1>4, <1>5, <1>6, <1>7 DEF Transactions, Ops

(* The steps of one worker, action by action. *)
StepOf(w) ==
  \/ \E u \in Users, op \in Ops : Begin(w, u, op)
  \/ Check(w)
  \/ InsertRow(w) \/ ChangeRows(w) \/ SeekRow(w) \/ Commit(w) \/ Abort(w)
  \/ Answer(w)

LEMMA NextIsStep == Next <=> \E w \in Workers : StepOf(w)
BY DEF Next, Serve, Write, StepOf

(* What a step of w does to the handlers: w's own job changes, and another *)
(* may have missed its row.                                                *)
JobsStep(w) ==
  /\ job'[w] \in Jobs
  /\ \A v \in Workers \ {w} :
       job'[v] = job[v] \/ job'[v] = [job[v] EXCEPT !.at = @ + 1]
  /\ DOMAIN job' = Workers /\ job' = [v \in Workers |-> job'[v]]
  /\ JobOK(job[w])'

LEMMA IdleJob == Idle \in Jobs
<1>1. Untouched \in [Tables -> [Users -> Statuses \cup {"sent", "keep"}]]
  BY DEF Untouched
<1>2. QED
  BY <1>1 DEF Idle, Jobs, Labels, Ops

LEMMA AnsweredJob ==
  ASSUME NEW w \in Workers, NEW b \in BOOLEAN
  PROVE  /\ Answered(w, b) \in Jobs /\ Answered(w, b).pc = "answer"
         /\ Answered(w, b).op = "send"
         /\ Answered(w, b).accepted = (b /\ job[w].op = "accept")
         /\ \A x \in Users : Answered(w, b).own["friendships"][x] = "keep"
<1>1. PICK c \in BOOLEAN : c = (b /\ job[w].op = "accept")
  OBVIOUS
<1> DEFINE a == [op |-> "send", user |-> NoUser, pc |-> "answer", at |-> 1,
                 own |-> Untouched, accepted |-> c]
<1>2. Answered(w, b) = [Idle EXCEPT !.pc = "answer", !.accepted = c]
  BY <1>1 DEF Answered
<1>3. Answered(w, b) = a
  BY <1>2 DEF Idle
<1>4. Untouched \in [Tables -> [Users -> Statuses \cup {"sent", "keep"}]]
  BY DEF Untouched
<1>5. \A x \in Users : Untouched["friendships"][x] = "keep"
  BY DEF Untouched, Tables
<1>6. a \in Jobs
  BY <1>4 DEF Jobs, Labels, Ops
<1>7. QED
  BY <1>1, <1>3, <1>5, <1>6

LEMMA ReplyStep ==
  ASSUME job \in [Workers -> Jobs], NEW w \in Workers, NEW b \in BOOLEAN, Reply(w, b)
  PROVE  JobsStep(w) /\ job'[w] = Answered(w, b)
<1> DEFINE a == Answered(w, b)
<1>1. /\ a \in Jobs /\ a.pc = "answer" /\ a.op = "send"
      /\ \A x \in Users : a.own["friendships"][x] = "keep"
  BY AnsweredJob
<1>2. job' = [job EXCEPT ![w] = a]
  BY DEF Reply
<1> HIDE DEF a
<1>3. job'[w] = a /\ \A v \in Workers \ {w} : job'[v] = job[v]
  BY <1>2
<1>4. JobOK(job[w])'
  BY <1>1, <1>3 DEF JobOK
<1>5. DOMAIN job' = Workers /\ job' = [v \in Workers |-> job'[v]]
  BY <1>2
<1>6. JobsStep(w)
  BY <1>1, <1>3, <1>4, <1>5 DEF JobsStep
<1>7. QED
  BY <1>3, <1>6 DEF a

LEMMA GoToStep ==
  ASSUME job \in [Workers -> Jobs], NEW w \in Workers, NEW l \in Labels, GoTo(w, l),
         JobOK(job[w]), job[w].pc \notin {"idle", "answer", "send", "accept"},
         willing' = willing,
         l = "accept" => Other(job[w].user) \in willing,
         job[w].op = "accept" => l = "accept"
  PROVE  JobsStep(w) /\ job'[w].accepted = job[w].accepted
<1> DEFINE j == [job[w] EXCEPT !.pc = l]
<1>1. /\ j \in Jobs /\ j.pc = l /\ j.op = job[w].op /\ j.user = job[w].user
      /\ j.own = job[w].own /\ j.accepted = job[w].accepted
  BY DEF Jobs
<1>2. job' = [job EXCEPT ![w] = j]
  BY DEF GoTo
<1> HIDE DEF j
<1>3. job'[w] = j /\ \A v \in Workers \ {w} : job'[v] = job[v]
  BY <1>2
<1>4. JobOK(job[w])'
  BY <1>1, <1>3 DEF JobOK
<1>5. DOMAIN job' = Workers /\ job' = [v \in Workers |-> job'[v]]
  BY <1>2
<1>6. QED
  BY <1>1, <1>3, <1>4, <1>5 DEF JobsStep

LEMMA BeginStep ==
  ASSUME job \in [Workers -> Jobs], NEW w \in Workers, NEW u \in Users, NEW op \in Ops,
         Begin(w, u, op)
  PROVE  JobsStep(w) /\ ~job'[w].accepted
<1> DEFINE j == [Idle EXCEPT !.op = op, !.user = u, !.pc = FirstLabel(op)]
<1>1. /\ FirstLabel(op) \in Labels \ {"accept"}
      /\ op = "accept" => FirstLabel(op) = "check"
  BY DEF FirstLabel, Labels, Transactions, Ops
<1>2. /\ Untouched \in [Tables -> [Users -> Statuses \cup {"sent", "keep"}]]
      /\ \A x \in Users : Untouched["friendships"][x] = "keep"
  BY DEF Untouched, Tables
<1>3. j \in Jobs
  BY <1>1, IdleJob DEF Jobs
<1>4. /\ j.op = op /\ j.user = u /\ j.pc = FirstLabel(op) /\ ~j.accepted
      /\ j.own = Untouched
  BY DEF Idle
<1>5. job' = [job EXCEPT ![w] = j]
  BY DEF Begin
<1> HIDE DEF j
<1>6. job'[w] = j /\ \A v \in Workers \ {w} : job'[v] = job[v]
  BY <1>5
<1>7. DOMAIN job' = Workers /\ job' = [v \in Workers |-> job'[v]]
  BY <1>5
<1>8. JobOK(job[w])'
  BY <1>1, <1>2, <1>4, <1>6 DEF JobOK
<1>9. QED
  BY <1>3, <1>4, <1>6, <1>7, <1>8 DEF JobsStep

LEMMA CheckStep ==
  ASSUME FriendshipInv, NEW w \in Workers, Check(w)
  PROVE  JobsStep(w) /\ (job'[w].accepted => job[w].accepted)
<1> USE DEF FriendshipInv, HandlersOK
<1>1. job \in [Workers -> Jobs] /\ JobOK(job[w])
  BY DEF FriendshipTypeOK
<1>2. /\ job[w].pc \notin {"idle", "answer", "send", "accept"}
      /\ willing' = willing
  BY DEF Check, SendBlockedBy, SendStatus, SendBlocking, SendReverse, AcceptCheck,
     RejectCheck, UnfriendCheck, UnblockCheck, At
<1>r. ASSUME NEW b \in BOOLEAN, Reply(w, b), ~b \/ job[w].op # "accept"
      PROVE  JobsStep(w) /\ ~job'[w].accepted
  BY <1>1, <1>r, ReplyStep, AnsweredJob
<1>g. ASSUME NEW l \in Labels \ {"accept"}, GoTo(w, l), job[w].op # "accept"
      PROVE  JobsStep(w) /\ job'[w].accepted = job[w].accepted
  BY <1>1, <1>2, <1>g, GoToStep
<1> USE DEF Labels, Transactions, Ops
<1>3. CASE SendBlockedBy(w) \/ SendStatus(w) \/ SendBlocking(w) \/ SendReverse(w)
  <2>1. job[w].op = "send"
    BY <1>3 DEF SendBlockedBy, SendStatus, SendBlocking, SendReverse, At
  <2>2. \/ \E b \in BOOLEAN : Reply(w, b)
        \/ \E l \in Labels \ {"accept"} : GoTo(w, l)
    BY <1>3 DEF SendBlockedBy, SendStatus, SendBlocking, SendReverse
  <2>3. QED
    BY <1>r, <1>g, <2>1, <2>2
<1>4. CASE AcceptCheck(w)
  <2>1. CASE row[job[w].user] = "pending_in"
    <3>1. Other(job[w].user) \in willing
      BY <1>1, <1>2, <2>1 DEF AskedIsWilling, JobOK
    <3>2. GoTo(w, "accept")
      BY <1>4, <2>1 DEF AcceptCheck
    <3>3. QED
      BY <1>1, <1>2, <3>1, <3>2, GoToStep
  <2>2. CASE row[job[w].user] # "pending_in"
    BY <1>4, <1>r, <2>2 DEF AcceptCheck
  <2>3. QED
    BY <2>1, <2>2
<1>5. CASE RejectCheck(w) \/ UnfriendCheck(w) \/ UnblockCheck(w)
  <2>1. job[w].op # "accept"
    BY <1>5 DEF RejectCheck, UnfriendCheck, UnblockCheck, At
  <2>2. \/ Reply(w, FALSE)
        \/ \E l \in Labels \ {"accept"} : GoTo(w, l)
    BY <1>5 DEF RejectCheck, UnfriendCheck, UnblockCheck
  <2>3. QED
    BY <1>r, <1>g, <2>1, <2>2
<1>6. QED
  BY <1>3, <1>4, <1>5 DEF Check

LEMMA AdvanceStep ==
  ASSUME FriendshipInv, NEW w \in Workers, AtStatement(w), willing' = willing,
         NEW users \in SUBSET Current(w).users, Advance(w, users)
  PROVE  JobsStep(w) /\ job'[w].accepted = job[w].accepted
<1> DEFINE s == Current(w)  old == job[w].own
           new == [x \in Users |-> IF x \in users THEN s.value ELSE old[s.table][x]]
           own == [old EXCEPT ![s.table] = new]
           j == [job[w] EXCEPT !.at = job[w].at + 1, !.own = own]
<1>1. job[w] \in Jobs /\ JobOK(job[w]) /\ job \in [Workers -> Jobs]
  BY DEF FriendshipInv, FriendshipTypeOK, HandlersOK
<1>2. job[w].pc \in Transactions /\ job[w].user \in Users
  BY <1>1 DEF AtStatement, InTransaction, JobOK, Transactions, Ops
<1>3. StatementOK(s, job[w].pc, job[w].user)
  BY <1>1, <1>2, ScriptFacts DEF AtStatement, ScriptOf, Current, Jobs
<1>4. new \in [Users -> Statuses \cup {"sent", "keep"}]
  BY <1>1, <1>3 DEF StatementOK, Jobs
<1>5. own \in [Tables -> [Users -> Statuses \cup {"sent", "keep"}]]
  BY <1>1, <1>4 DEF Jobs
<1>6. j \in Jobs
  <2> HIDE DEF own
  <2>1. job[w].at + 1 \in Nat \ {0}
    BY <1>1 DEF Jobs
  <2>2. QED
    BY <1>1, <1>5, <2>1 DEF Jobs
<1>7. job' = [job EXCEPT ![w] = j]
  BY <1>1 DEF Advance, Jobs
<1>8. /\ j.pc = job[w].pc /\ j.user = job[w].user /\ j.op = job[w].op
      /\ j.own = own /\ j.accepted = job[w].accepted
  BY <1>1 DEF Jobs
<1>9. ASSUME NEW x \in Users, NEW v \in {"pending_in", "friend"},
             own["friendships"][x] = v
      PROVE  old["friendships"][x] = v \/ (x \in s.users /\ s.value = v)
  BY <1>1, <1>3, <1>9 DEF StatementOK, Jobs, Tables
<1>10. JobOK(j)
  <2>1. ASSUME NEW x \in Users
        PROVE  /\ own["friendships"][x] = "pending_in" =>
                    job[w].pc = "send" /\ x = Other(job[w].user)
               /\ own["friendships"][x] = "friend" => job[w].pc = "accept"
    BY <1>1, <1>3, <1>9 DEF StatementOK, JobOK
  <2> HIDE DEF own, j
  <2>2. QED
    BY <1>1, <1>8, <2>1 DEF JobOK
<1> HIDE DEF j
<1>11. job'[w] = j /\ \A v \in Workers \ {w} : job'[v] = job[v]
  BY <1>1, <1>7
<1>12. DOMAIN job' = Workers /\ job' = [v \in Workers |-> job'[v]]
  BY <1>1, <1>7
<1>13. JobOK(job[w])'
  BY <1>10, <1>11 DEF JobOK
<1>14. QED
  BY <1>6, <1>8, <1>11, <1>12, <1>13 DEF JobsStep

LEMMA SeekStep ==
  ASSUME FriendshipInv, NEW w \in Workers, SeekRow(w)
  PROVE  JobsStep(w) /\ job'[w].accepted = job[w].accepted
<1> DEFINE n == job[w].at + (IF Found(w) = {} THEN 1 ELSE 2)
           j == [job[w] EXCEPT !.at = n]
<1>1. job[w] \in Jobs /\ JobOK(job[w]) /\ job \in [Workers -> Jobs]
  BY DEF FriendshipInv, FriendshipTypeOK, HandlersOK
<1>2. n \in Nat \ {0}
  BY <1>1 DEF Jobs
<1>3. job' = [job EXCEPT ![w] = j] /\ willing' = willing
  BY DEF SeekRow
<1> HIDE DEF n
<1>4. /\ j \in Jobs /\ j.pc = job[w].pc /\ j.user = job[w].user /\ j.op = job[w].op
      /\ j.own = job[w].own /\ j.accepted = job[w].accepted
  BY <1>1, <1>2 DEF Jobs
<1> HIDE DEF j
<1>5. job'[w] = j /\ \A v \in Workers \ {w} : job'[v] = job[v]
  BY <1>1, <1>3
<1>6. DOMAIN job' = Workers /\ job' = [v \in Workers |-> job'[v]]
  BY <1>1, <1>3
<1>7. JobOK(job[w])'
  BY <1>1, <1>3, <1>4, <1>5 DEF JobOK
<1>8. QED
  BY <1>4, <1>5, <1>6, <1>7 DEF JobsStep

LEMMA CommitStep ==
  ASSUME FriendshipInv, NEW w \in Workers, Commit(w)
  PROVE  JobsStep(w) /\ (job'[w].accepted => job[w].pc = "accept")
<1>1. job[w] \in Jobs /\ JobOK(job[w]) /\ job \in [Workers -> Jobs]
  BY DEF FriendshipInv, FriendshipTypeOK, HandlersOK
<1>2. PICK late \in SUBSET {v \in Workers \ {w} : Misses(v, w)} :
        job' = [v \in Workers |->
                  IF v \in late THEN [job[v] EXCEPT !.at = @ + 1]
                  ELSE IF v = w THEN Answered(w, TRUE) ELSE job[v]]
  BY DEF Commit
<1>3. /\ job'[w] = Answered(w, TRUE)
      /\ \A v \in Workers \ {w} :
           job'[v] = job[v] \/ job'[v] = [job[v] EXCEPT !.at = @ + 1]
      /\ DOMAIN job' = Workers /\ job' = [v \in Workers |-> job'[v]]
  BY <1>2
<1>4. /\ Answered(w, TRUE) \in Jobs /\ Answered(w, TRUE).pc = "answer"
      /\ Answered(w, TRUE).op = "send"
      /\ Answered(w, TRUE).accepted = (job[w].op = "accept")
      /\ \A x \in Users : Answered(w, TRUE).own["friendships"][x] = "keep"
  BY AnsweredJob
<1>5. JobOK(job[w])'
  BY <1>3, <1>4 DEF JobOK
<1>6. job[w].op = "accept" => job[w].pc = "accept"
  BY <1>1 DEF JobOK, Commit, InTransaction, Transactions, Ops
<1>7. QED
  BY <1>3, <1>4, <1>5, <1>6 DEF JobsStep

LEMMA AnswerStep ==
  ASSUME job \in [Workers -> Jobs], NEW w \in Workers, Answer(w)
  PROVE  JobsStep(w) /\ ~job'[w].accepted
<1>1. Idle.pc = "idle" /\ Idle.op = "send" /\ ~Idle.accepted
      /\ \A x \in Users : Idle.own["friendships"][x] = "keep"
  BY DEF Idle, Untouched, Tables
<1>2. job' = [job EXCEPT ![w] = Idle]
  BY DEF Answer
<1>3. job'[w] = Idle /\ \A v \in Workers \ {w} : job'[v] = job[v]
  BY <1>2
<1>4. DOMAIN job' = Workers /\ job' = [v \in Workers |-> job'[v]]
  BY <1>2
<1>5. JobOK(job[w])'
  BY <1>1, <1>3 DEF JobOK
<1>6. QED
  BY <1>1, <1>3, <1>4, <1>5, IdleJob DEF JobsStep

(* What a step of w does, put together. *)
LEMMA WorkerStep ==
  ASSUME FriendshipInv, NEW w \in Workers, StepOf(w)
  PROVE  /\ JobsStep(w)
         /\ Commit(w) \/ UNCHANGED <<db, inflight, willing>>
         /\ job'[w].accepted => job[w].accepted \/ (Commit(w) /\ job[w].pc = "accept")
<1>t. job \in [Workers -> Jobs]
  BY DEF FriendshipInv, FriendshipTypeOK
<1>1. CASE \E u \in Users, op \in Ops : Begin(w, u, op)
  BY <1>t, <1>1, BeginStep DEF Begin
<1>2. CASE Check(w)
  <2>1. UNCHANGED <<db, inflight, willing>>
    BY <1>2 DEF Check, SendBlockedBy, SendStatus, SendBlocking, SendReverse, AcceptCheck,
       RejectCheck, UnfriendCheck, UnblockCheck
  <2>2. QED
    BY <1>2, <2>1, CheckStep
<1>a. ASSUME Reply(w, FALSE)
      PROVE  JobsStep(w) /\ ~job'[w].accepted
  BY <1>t, <1>a, ReplyStep, AnsweredJob
<1>3. CASE InsertRow(w)
  <2>1. UNCHANGED <<db, inflight, willing>> /\ AtStatement(w)
    BY <1>3 DEF InsertRow
  <2>2. Advance(w, Current(w).users) \/ Reply(w, FALSE)
    BY <1>3 DEF InsertRow
  <2>3. QED
    BY <1>a, <2>1, <2>2, AdvanceStep
<1>4. CASE ChangeRows(w)
  <2>1. UNCHANGED <<db, inflight, willing>> /\ AtStatement(w) /\ Advance(w, Found(w))
    BY <1>4 DEF ChangeRows
  <2>2. Found(w) \in SUBSET Current(w).users
    BY DEF Found
  <2>3. QED
    BY <2>1, <2>2, AdvanceStep
<1>5. CASE SeekRow(w)
  BY <1>5, SeekStep DEF SeekRow
<1>6. CASE Commit(w)
  BY <1>6, CommitStep
<1>7. CASE Abort(w)
  BY <1>7, <1>a DEF Abort
<1>8. CASE Answer(w)
  BY <1>t, <1>8, AnswerStep DEF Answer
<1>9. QED
  BY <1>1, <1>2, <1>3, <1>4, <1>5, <1>6, <1>7, <1>8 DEF StepOf

(* A commit makes friends and incoming requests only with those who asked. *)
LEMMA CommitRows ==
  ASSUME FriendshipInv, NEW w \in Workers, Commit(w)
  PROVE  /\ db' \in [Tables -> [Users -> Statuses \cup {"sent"}]]
         /\ inflight' \in [CachedTopics -> [Users -> Nat]]
         /\ willing \subseteq willing' /\ willing' \subseteq Users
         /\ AskedIsWilling' /\ FriendsAreWilling'
         /\ \A u \in Users : row'[u] = "friend" => row[u] = "friend" \/ job[w].pc = "accept"
         /\ job[w].pc = "accept" => inflight'["accepted"] # inflight["accepted"]
<1> DEFINE tx == job[w].pc  u == job[w].user
<1>1. /\ job[w] \in Jobs /\ JobOK(job[w]) /\ willing \subseteq Users
      /\ db \in [Tables -> [Users -> Statuses \cup {"sent"}]]
      /\ inflight \in [CachedTopics -> [Users -> Nat]]
  BY DEF FriendshipInv, FriendshipTypeOK, HandlersOK
<1>2. tx \in Transactions /\ u \in Users
  BY <1>1 DEF Commit, InTransaction, JobOK, Transactions, Ops
<1>3. db' = [t \in Tables |-> [x \in Users |-> Visible(w, t, x)]]
  BY DEF Commit
<1>4. \A t \in Tables, x \in Users : Visible(w, t, x) \in Statuses \cup {"sent"}
  BY <1>1 DEF Visible, Jobs
<1>5. db' \in [Tables -> [Users -> Statuses \cup {"sent"}]]
  BY <1>3, <1>4
<1>6. willing' = willing \cup {x \in {u} : tx \in {"send", "accept"}}
  BY DEF Commit
<1>7. willing \subseteq willing' /\ willing' \subseteq Users
  BY <1>1, <1>2, <1>6
<1>8. \A x \in Users : row'[x] = row[x] \/ row'[x] = job[w].own["friendships"][x]
  BY <1>3 DEF row, Visible, Tables
<1>9. AskedIsWilling'
  <2>1. ASSUME NEW x \in Users, row'[x] = "pending_in"
        PROVE  Other(x) \in willing'
    <3>1. CASE row[x] = "pending_in"
      BY <1>7, <3>1 DEF FriendshipInv, AskedIsWilling
    <3>2. CASE job[w].own["friendships"][x] = "pending_in"
      <4>1. tx = "send" /\ x = Other(u)
        BY <1>1, <3>2 DEF JobOK
      <4>2. Other(x) = u
        BY <1>2, <4>1, OtherUser
      <4>3. QED
        BY <1>6, <4>1, <4>2
    <3>3. QED
      BY <1>8, <2>1, <3>1, <3>2
  <2>2. QED
    BY <2>1 DEF AskedIsWilling
<1>10. \A x \in Users : row'[x] = "friend" => row[x] = "friend" \/ tx = "accept"
  BY <1>1, <1>8 DEF JobOK
<1>11. FriendsAreWilling'
  <2>1. CASE tx = "accept"
    <3>1. Other(u) \in willing
      BY <1>1, <2>1 DEF JobOK
    <3>2. willing' = Users
      BY <1>2, <1>6, <1>7, <2>1, <3>1, OtherUser
    <3>3. QED
      BY <3>2 DEF FriendsAreWilling
  <2>2. CASE tx # "accept"
    BY <1>7, <1>10, <2>2 DEF FriendshipInv, FriendsAreWilling
  <2>3. QED
    BY <2>1, <2>2
<1>12. inflight' = inflight \/
       \E t \in CachedTopics : inflight' = [inflight EXCEPT ![t][u] = inflight[t][u] + 1]
  <2>1. \A x \in DOMAIN Topic : Topic[x] \in CachedTopics
    BY DEF Topic, CachedTopics
  <2>2. Emit(tx, u)
    BY DEF Commit
  <2>3. CASE tx \in DOMAIN Topic
    <3>1. inflight' = [inflight EXCEPT ![Topic[tx]][u] = inflight[Topic[tx]][u] + 1]
      BY <2>2, <2>3 DEF Emit
    <3>2. QED
      BY <2>1, <2>3, <3>1
  <2>4. QED
    BY <2>2, <2>3 DEF Emit
<1>13. inflight' \in [CachedTopics -> [Users -> Nat]]
  BY <1>1, <1>2, <1>12
<1>14. ASSUME tx = "accept"
       PROVE  inflight'["accepted"] # inflight["accepted"]
  <2> DEFINE n == inflight["accepted"][u]
  <2>1. inflight' = [inflight EXCEPT !["accepted"][u] = n + 1]
    BY <1>14 DEF Commit, Emit, Topic
  <2>2. inflight'["accepted"][u] = n + 1 /\ n \in Nat
    BY <1>1, <1>2, <2>1 DEF CachedTopics
  <2>3. QED
    BY <2>2
<1>15. QED
  BY <1>5, <1>7, <1>9, <1>10, <1>11, <1>13, <1>14

LEMMA FriendshipStep ==
  ASSUME FriendshipInv, [Next]_vars
  PROVE  FriendshipInv'
<1>1. CASE UNCHANGED vars
  BY <1>1 DEF vars, FriendshipInv, FriendshipTypeOK, HandlersOK, JobOK, AskedIsWilling,
     FriendsAreWilling, row
<1> SUFFICES ASSUME NEW w \in Workers, StepOf(w)
             PROVE  FriendshipInv'
  BY <1>1, NextIsStep
<1>2. /\ job \in [Workers -> Jobs] /\ willing \subseteq Users
      /\ db \in [Tables -> [Users -> Statuses \cup {"sent"}]]
      /\ inflight \in [CachedTopics -> [Users -> Nat]]
  BY DEF FriendshipInv, FriendshipTypeOK
<1>3. JobsStep(w)
  BY WorkerStep
<1>4. /\ db' \in [Tables -> [Users -> Statuses \cup {"sent"}]]
      /\ inflight' \in [CachedTopics -> [Users -> Nat]]
      /\ willing \subseteq willing' /\ willing' \subseteq Users
      /\ AskedIsWilling' /\ FriendsAreWilling'
  <2>1. CASE Commit(w)
    BY <2>1, CommitRows
  <2>2. CASE UNCHANGED <<db, inflight, willing>>
    BY <1>2, <2>2 DEF FriendshipInv, AskedIsWilling, FriendsAreWilling, row
  <2>3. QED
    BY <2>1, <2>2, WorkerStep
<1>5. ASSUME NEW v \in Workers
      PROVE  job'[v] \in Jobs /\ JobOK(job[v])'
  <2>1. CASE v = w
    BY <1>3, <2>1 DEF JobsStep
  <2>2. CASE v # w
    <3>1. job[v] \in Jobs /\ JobOK(job[v])
      BY <1>2 DEF FriendshipInv, HandlersOK
    <3>2. /\ job'[v] \in Jobs
          /\ job'[v].pc = job[v].pc /\ job'[v].user = job[v].user
          /\ job'[v].op = job[v].op /\ job'[v].own = job[v].own
      BY <1>3, <2>2, <3>1 DEF JobsStep, Jobs
    <3>3. QED
      BY <1>4, <3>1, <3>2 DEF JobOK
  <2>3. QED
    BY <2>1, <2>2
<1>6. job' \in [Workers -> Jobs] /\ HandlersOK'
  BY <1>3, <1>5 DEF JobsStep, HandlersOK
<1>7. jobs' \in Nat
  <2>1. jobs' = jobs \/ jobs' = jobs + 1
    BY DEF StepOf, Begin, Check, SendBlockedBy, SendStatus, SendBlocking, SendReverse,
       AcceptCheck, RejectCheck, UnfriendCheck, UnblockCheck, InsertRow, ChangeRows,
       SeekRow, Commit, Abort, Answer
  <2>2. QED
    BY <2>1 DEF FriendshipInv, FriendshipTypeOK
<1>8. QED
  BY <1>4, <1>6, <1>7 DEF FriendshipInv, FriendshipTypeOK

-----------------------------------------------------------------------------
LEMMA FriendshipInitial == Init => FriendshipInv
<1> SUFFICES ASSUME Init
             PROVE  FriendshipInv
  OBVIOUS
<1>1. \A w \in Workers : job[w] = Idle
  BY DEF Init
<1>2. /\ Idle.pc = "idle" /\ Idle.op = "send"
      /\ \A x \in Users : Idle.own["friendships"][x] = "keep"
  BY DEF Idle, Untouched, Tables
<1>3. HandlersOK
  BY <1>1, <1>2 DEF HandlersOK, JobOK
<1>4. ASSUME NEW f \in [Users -> Statuses], NEW a
      PROVE  /\ Stored(f, a) \in [Tables -> [Users -> Statuses \cup {"sent"}]]
             /\ Stored(f, a)["friendships"] = f
  BY <1>4 DEF Stored, Tables, Statuses
<1>5. /\ db \in [Tables -> [Users -> Statuses \cup {"sent"}]]
      /\ \/ \E s \in {"none", "friend"} : row = [u \in Users |-> s]
         \/ \E u \in Users : row = Asked(u)
  <2>1. \A s \in {"none", "friend"} : [u \in Users |-> s] \in [Users -> Statuses]
    BY DEF Statuses
  <2>2. \A u \in Users : Asked(u) \in [Users -> Statuses]
    BY DEF Statuses, Asked
  <2>3. QED
    BY <1>4, <2>1, <2>2 DEF Init, row
<1>6. FriendshipTypeOK
  BY <1>1, <1>5, IdleJob DEF Init, FriendshipTypeOK
<1>7. willing = {u \in Users : row[u] \in {"friend", "pending_out"}}
  BY DEF Init
<1>8. ASSUME NEW s \in {"none", "friend"}, row = [u \in Users |-> s]
      PROVE  AskedIsWilling /\ FriendsAreWilling
  BY <1>7, <1>8 DEF AskedIsWilling, FriendsAreWilling
<1>9. ASSUME NEW u \in Users, row = Asked(u)
      PROVE  AskedIsWilling /\ FriendsAreWilling
  <2>1. \A x \in Users : x # u => Other(x) = u
    BY OtherUser
  <2>2. QED
    BY <1>7, <1>9, <2>1 DEF Asked, AskedIsWilling, FriendsAreWilling
<1>10. QED
  BY <1>3, <1>5, <1>6, <1>8, <1>9 DEF FriendshipInv

LEMMA FriendshipInvariant == Spec => []FriendshipInv
<1>1. FriendshipInv /\ [Next]_vars => FriendshipInv'
  BY FriendshipStep
<1>2. QED
  BY FriendshipInitial, <1>1, PTL DEF Spec

(* Every variable of the service keeps its type. *)
THEOREM FriendshipTypeCorrect == Spec => []FriendshipTypeOK
<1>1. FriendshipInv => FriendshipTypeOK
  BY DEF FriendshipInv
<1>2. QED
  BY FriendshipInvariant, <1>1, PTL

(* A friendship needs both users to have asked or accepted at some time. *)
THEOREM FriendshipFriendsAreWilling == Spec => []FriendsAreWilling
<1>1. FriendshipInv => FriendsAreWilling
  BY DEF FriendshipInv
<1>2. QED
  BY FriendshipInvariant, <1>1, PTL

-----------------------------------------------------------------------------
(* The service among its clients (module DirectChat).                      *)

Chats == [pc : {"idle", "mget", "blocks", "privacy", "friendship", "metadata", "admitted"},
          user : Users \cup {NoUser}, ask : SUBSET Users, friends : BOOLEAN,
          misread : BOOLEAN, stood : SUBSET Users]

ChatTypeOK ==
  /\ chat \in Chats
  /\ chat.pc # "idle" => chat.user \in Writers
  /\ privacyCache \in [Receivers -> {"none", "open", "closed"}]

(* The blocks that have stood all along stand, and each of those that were *)
(* asked for has ended since, or the answer was wrong.                     *)
StoodStand == chat.stood \subseteq blocks

AskedHaveEnded ==
  /\ chat.pc = "mget" => chat.ask = Users
  /\ chat.pc = "blocks" => chat.misread \/ chat.stood \subseteq chat.ask
  /\ chat.pc \in {"privacy", "friendship", "metadata", "admitted"}
       => chat.stood = {} \/ chat.misread

BlockInv == StoodStand /\ AskedHaveEnded

(* Whatever says "friends" or "open to strangers" goes back to somebody who *)
(* has said so.                                                            *)
NobodyFriends ==
  /\ \A u \in Users : row[u] # "friend" /\ inflight["accepted"][u] = 0
  /\ \A w \in Workers : ~job[w].accepted
  /\ friendsKey # "friends" /\ ~proof /\ ~chat.friends
  /\ relationCache # "friend"

FriendsGoBack == wasFriends \/ NobodyFriends

OpenGoesBack ==
  /\ open \subseteq wasOpen
  /\ \A u \in Receivers : privacyCache[u] = "open" => u \in wasOpen

AdmittedGoesBack ==
  chat.pc \in {"metadata", "admitted"} => Receiver \in wasOpen \/ wasFriends

DirectChatInv ==
  /\ FriendshipInv /\ ChatTypeOK
  /\ BlockInv
  /\ FriendsGoBack /\ OpenGoesBack /\ AdmittedGoesBack

-----------------------------------------------------------------------------
(* The steps of the pair's rows under DNext. *)
LEMMA FriendshipUnderChat ==
  ASSUME FriendshipInv, [DNext]_dvars
  PROVE  FriendshipInv'
<1>1. ASSUME [Next]_vars PROVE FriendshipInv'
  BY <1>1, FriendshipStep
<1>2. CASE ServiceStep \/ GatewayAnswer
  BY <1>1, <1>2 DEF ServiceStep, GatewayAnswer, Next
<1>3. ASSUME NEW t \in CachedTopics, NEW u \in Users, Consumed(t, u)
      PROVE  FriendshipInv'
  <2>1. UNCHANGED <<db, job, jobs, willing>>
    BY <1>3 DEF Consumed
  <2>2. inflight' \in [CachedTopics -> [Users -> Nat]]
    <3> DEFINE n == inflight[t][u]
    <3>1. n \in Nat /\ n > 0
      BY <1>3 DEF Consumed, FriendshipInv, FriendshipTypeOK
    <3>2. n - 1 \in Nat
      BY <3>1
    <3>3. inflight' = [inflight EXCEPT ![t][u] = n - 1]
      BY <1>3 DEF Consumed
    <3>4. QED
      BY <3>2, <3>3 DEF FriendshipInv, FriendshipTypeOK
  <2>3. QED
    BY <2>1, <2>2 DEF FriendshipInv, FriendshipTypeOK, HandlersOK, JobOK,
       AskedIsWilling, FriendsAreWilling, row
<1>4. CASE Consume
  BY <1>3, <1>4 DEF Consume, ConsumeAccepted, ConsumeRemoved, ConsumeBlocked,
     ConsumeUnblocked, CachedTopics
<1>5. CASE GatewayFallback \/ Expire \/ (\E u \in Receivers : SetPrivacy(u)) \/ Validate
           \/ UNCHANGED dvars
  <2>1. UNCHANGED vars
    BY <1>5 DEF GatewayFallback, Expire, SetPrivacy, Validate, BeginChat, AskBlock,
       ReadKeys, FetchPrivacy, ReadPrivacy, FetchStatus, CheckFriendship, Metadata,
       EndChat, dvars
  <2>2. QED
    BY <1>1, <2>1
<1>6. QED
  BY <1>2, <1>4, <1>5 DEF DNext

LEMMA ChatTypeStep ==
  ASSUME ChatTypeOK, [DNext]_dvars
  PROVE  ChatTypeOK'
<1> USE DirectChatAssumption
<1>1. chat.user \in Writers => Receiver \in Receivers
  BY DEF Receiver, Receivers
<1>2. CASE ServiceStep
  <2>1. chat' = [chat EXCEPT !.stood = chat.stood \cap blocks'] /\ blocks' \subseteq Users
    BY <1>2 DEF ServiceStep, blocks
  <2>2. privacyCache' = privacyCache
    BY <1>2 DEF ServiceStep, caches
  <2>3. QED
    BY <2>1, <2>2 DEF ChatTypeOK, Chats
<1>3. CASE GatewayAnswer \/ GatewayFallback \/ Consume \/ UNCHANGED dvars
  <2>1. chat' = chat /\ privacyCache' = privacyCache
    BY <1>3 DEF GatewayAnswer, GatewayFallback, Consume, ConsumeAccepted, ConsumeRemoved,
       ConsumeBlocked, ConsumeUnblocked, Consumed, caches, progress, dvars
  <2>2. QED
    BY <2>1 DEF ChatTypeOK
<1>4. CASE Expire \/ \E u \in Receivers : SetPrivacy(u)
  <2>1. chat' = chat /\ privacyCache' \in [Receivers -> {"none", "open", "closed"}]
    BY <1>4 DEF Expire, SetPrivacy, caches, progress, ChatTypeOK
  <2>2. QED
    BY <2>1 DEF ChatTypeOK
<1>5. ASSUME NEW u \in Writers, BeginChat(u) PROVE ChatTypeOK'
  <2>1. chat' = [pc |-> "mget", user |-> u, ask |-> Users, friends |-> FALSE,
                 misread |-> FALSE, stood |-> blocks]
    BY <1>5 DEF BeginChat, NoChat
  <2>2. u \in Users /\ blocks \subseteq Users
    BY DEF blocks
  <2>3. chat' \in Chats /\ chat'.user = u
    BY <2>1, <2>2 DEF Chats
  <2>4. privacyCache' = privacyCache
    BY <1>5 DEF BeginChat, caches
  <2>5. QED
    BY <2>3, <2>4 DEF ChatTypeOK
<1>6. NoChat \in Chats /\ NoChat.pc = "idle"
  BY DEF NoChat, Chats
<1>r. ASSUME Refuse, privacyCache' = privacyCache PROVE ChatTypeOK'
  BY <1>r, <1>6 DEF Refuse, ChatTypeOK
<1>p. ASSUME NEW l \in {"privacy", "friendship", "metadata", "admitted", "blocks"},
             Proceed(l), privacyCache' = privacyCache, chat.pc # "idle"
      PROVE  ChatTypeOK'
  BY <1>p DEF Proceed, ChatTypeOK, Chats
<1>7. CASE ReadKeys
  <2>1. privacyCache' = privacyCache /\ chat.pc # "idle"
    BY <1>7 DEF ReadKeys, caches
  <2>2. CASE chat' = [chat EXCEPT !.pc = "blocks", !.friends = KnownFriends]
    <3>1. KnownFriends \in BOOLEAN
      BY DEF KnownFriends
    <3>2. QED
      BY <2>1, <2>2, <3>1 DEF ChatTypeOK, Chats
  <2>3. QED
    BY <1>7, <1>r, <1>p, <2>1, <2>2 DEF ReadKeys
<1>8. ASSUME NEW u \in Users, AskBlock(u) PROVE ChatTypeOK'
  <2> DEFINE asked == [chat EXCEPT !.ask = chat.ask \ {u},
                                   !.pc = IF chat.ask = {u} THEN "privacy" ELSE chat.pc]
  <2>1. privacyCache' = privacyCache /\ chat.pc # "idle"
    BY <1>8 DEF AskBlock, caches
  <2>2. asked \in Chats /\ asked.user = chat.user /\ [asked EXCEPT !.misread = TRUE] \in Chats
    BY <2>1 DEF ChatTypeOK, Chats
  <2>3. chat' = asked \/ chat' = [asked EXCEPT !.misread = TRUE] \/ Refuse
    BY <1>8 DEF AskBlock, Refuse
  <2>4. QED
    BY <1>r, <2>1, <2>2, <2>3 DEF ChatTypeOK, Chats
<1>9. CASE FetchPrivacy
  <2>1. CASE Refuse /\ privacyCache' = privacyCache
    BY <1>r, <2>1
  <2>2. CASE chat' = chat /\ privacyCache' = [privacyCache EXCEPT ![Receiver] = Setting(Receiver)]
    BY <2>2 DEF ChatTypeOK, Setting
  <2>3. QED
    BY <1>9, <2>1, <2>2 DEF FetchPrivacy
<1>10. CASE ReadPrivacy \/ CheckFriendship
  BY <1>10, <1>p, <1>r DEF ReadPrivacy, CheckFriendship, caches
<1>11. CASE FetchStatus
  BY <1>11, <1>r DEF FetchStatus, ChatTypeOK
<1>12. CASE Metadata
  BY <1>12, <1>p, <1>r DEF Metadata
<1>13. CASE EndChat
  BY <1>13, <1>6 DEF EndChat, ChatTypeOK, caches
<1>14. QED
  BY <1>2, <1>3, <1>4, <1>5, <1>7, <1>8, <1>9, <1>10, <1>11, <1>12, <1>13
     DEF DNext, Validate

-----------------------------------------------------------------------------
LEMMA BlockStep ==
  ASSUME ChatTypeOK, BlockInv, [DNext]_dvars
  PROVE  BlockInv'
<1> USE DEF BlockInv, StoodStand, AskedHaveEnded
<1>t. chat \in Chats
  BY DEF ChatTypeOK
<1>1. CASE ServiceStep
  <2>1. /\ chat'.stood = chat.stood \cap blocks' /\ chat'.pc = chat.pc
        /\ chat'.misread = chat.misread /\ chat'.ask = chat.ask
    BY <1>1, <1>t DEF ServiceStep, Chats
  <2>2. QED
    BY <2>1
<1>2. CASE \/ GatewayAnswer \/ GatewayFallback \/ Consume \/ Expire
           \/ (\E u \in Receivers : SetPrivacy(u)) \/ UNCHANGED dvars
  <2>1. chat' = chat /\ blocks' = blocks
    BY <1>2 DEF GatewayAnswer, Answer, GatewayFallback, Consume, ConsumeAccepted,
       ConsumeRemoved, ConsumeBlocked, ConsumeUnblocked, Consumed, Expire, SetPrivacy,
       progress, dvars, vars, blocks
  <2>2. QED
    BY <2>1
<1>v. CASE Validate
  <2>1. blocks' = blocks
    BY <1>v DEF Validate, BeginChat, AskBlock, ReadKeys, FetchPrivacy, ReadPrivacy,
       FetchStatus, CheckFriendship, Metadata, EndChat, vars, blocks
  <2>2. NoChat.pc = "idle" /\ NoChat.stood = {}
    BY DEF NoChat
  <2>r. ASSUME Refuse PROVE BlockInv'
    BY <2>2, <2>r DEF Refuse
  <2>p. ASSUME NEW l \in {"privacy", "friendship", "metadata", "admitted"}, Proceed(l),
               chat.pc \in {"privacy", "friendship", "metadata", "admitted"}
        PROVE  BlockInv'
    <3>1. chat'.stood = chat.stood /\ chat'.misread = chat.misread /\ chat'.pc = l
      BY <1>t, <2>p DEF Proceed, Chats
    <3>2. QED
      BY <2>1, <2>p, <3>1
  <2>3. ASSUME NEW u \in Writers, BeginChat(u) PROVE BlockInv'
    <3>1. chat'.stood = blocks /\ chat'.pc = "mget" /\ chat'.ask = Users
      BY <2>3 DEF BeginChat, NoChat
    <3>2. QED
      BY <2>1, <3>1
  <2>4. CASE ReadKeys
    <3>1. CASE chat'.stood = chat.stood /\ chat'.ask = chat.ask /\ chat'.pc = "blocks"
      BY <1>t, <2>1, <2>4, <3>1 DEF ReadKeys, Chats
    <3>2. QED
      BY <1>t, <2>4, <2>r, <3>1 DEF ReadKeys, Proceed, Chats
  <2>5. ASSUME NEW u \in Users, AskBlock(u) PROVE BlockInv'
    <3> DEFINE asked == [chat EXCEPT !.ask = chat.ask \ {u},
                                     !.pc = IF chat.ask = {u} THEN "privacy" ELSE chat.pc]
    <3>1. /\ asked.stood = chat.stood /\ asked.ask = chat.ask \ {u}
          /\ asked.pc = IF chat.ask = {u} THEN "privacy" ELSE "blocks"
          /\ asked.misread = chat.misread
          /\ [asked EXCEPT !.misread = TRUE].stood = chat.stood
          /\ [asked EXCEPT !.misread = TRUE].misread
          /\ [asked EXCEPT !.misread = TRUE].pc = asked.pc
      BY <1>t, <2>5 DEF AskBlock, Chats
    <3>2. \/ Refuse
          \/ u \notin blocks /\ chat' = asked
          \/ chat' = [asked EXCEPT !.misread = TRUE]
      BY <2>5 DEF AskBlock, Refuse
    <3> HIDE DEF asked
    <3>3. CASE u \notin blocks /\ chat' = asked
      <4>1. u \notin chat.stood /\ chat.pc = "blocks"
        BY <2>5, <3>3 DEF AskBlock
      <4>2. QED
        BY <2>1, <3>1, <3>3, <4>1
    <3>4. CASE chat' = [asked EXCEPT !.misread = TRUE]
      BY <2>1, <3>1, <3>4
    <3>5. QED
      BY <2>r, <3>2, <3>3, <3>4
  <2>6. CASE FetchPrivacy \/ FetchStatus
    BY <2>1, <2>6, <2>r DEF FetchPrivacy, FetchStatus
  <2>7. CASE ReadPrivacy \/ CheckFriendship \/ Metadata
    BY <2>7, <2>p, <2>r DEF ReadPrivacy, CheckFriendship, Metadata
  <2>8. CASE EndChat
    BY <2>2, <2>8 DEF EndChat
  <2>9. QED
    BY <1>v, <2>3, <2>4, <2>5, <2>6, <2>7, <2>8 DEF Validate
<1>3. QED
  BY <1>1, <1>2, <1>v DEF DNext
-----------------------------------------------------------------------------
(* A step of a handler makes friends of nobody unless it announces an accept. *)
LEMMA ServiceMakesNoFriends ==
  ASSUME FriendshipInv, NEW w \in Workers, StepOf(w), ~job[w].accepted,
         inflight'["accepted"] = inflight["accepted"]
  PROVE  /\ \A u \in Users : row'[u] = "friend" => row[u] = "friend"
         /\ ~job'[w].accepted
<1>1. CASE Commit(w)
  <2>1. job[w].pc # "accept"
    BY <1>1, CommitRows
  <2>2. QED
    BY <1>1, <2>1, CommitRows, WorkerStep
<1>2. CASE ~Commit(w)
  BY <1>2, WorkerStep DEF row
<1>3. QED
  BY <1>1, <1>2

LEMMA FriendsGoBackStep ==
  ASSUME FriendshipInv, ChatTypeOK, FriendsGoBack, [DNext]_dvars
  PROVE  FriendsGoBack' /\ (wasFriends => wasFriends')
<1>t. chat \in Chats /\ inflight \in [CachedTopics -> [Users -> Nat]]
  BY DEF ChatTypeOK, FriendshipInv, FriendshipTypeOK
<1>1. wasFriends => wasFriends'
  BY DEF DNext, ServiceStep, GatewayAnswer, GatewayFallback, Consume, ConsumeAccepted,
     ConsumeRemoved, ConsumeBlocked, ConsumeUnblocked, Consumed, Expire, SetPrivacy,
     Validate, BeginChat, AskBlock, ReadKeys, FetchPrivacy, ReadPrivacy, FetchStatus,
     CheckFriendship, Metadata, EndChat, history, dvars
<1> SUFFICES ASSUME NobodyFriends, ~wasFriends'
             PROVE  NobodyFriends'
  BY <1>1 DEF FriendsGoBack
<1> USE DEF NobodyFriends
<1>2. CASE ServiceStep
  <2>1. PICK w \in Workers : Serve(w)
    BY <1>2 DEF ServiceStep
  <2>2. StepOf(w)
    BY <2>1 DEF StepOf, Serve, Write
  <2>3. /\ inflight'["accepted"] = inflight["accepted"]
        /\ UNCHANGED <<friendsKey, proof, relationCache>>
        /\ chat'.friends = chat.friends
    BY <1>2, <1>t DEF ServiceStep, keys, caches, Chats
  <2>4. ASSUME NEW v \in Workers \ {w}
        PROVE  ~job'[v].accepted
    <3>1. job[v] \in Jobs
      BY DEF FriendshipInv, FriendshipTypeOK
    <3>2. JobsStep(w)
      BY <2>2, WorkerStep
    <3>3. job'[v].accepted = job[v].accepted
      BY <3>1, <3>2 DEF JobsStep, Jobs
    <3>4. QED
      BY <3>3
  <2>5. /\ \A u \in Users : row'[u] # "friend"
        /\ ~job'[w].accepted
    BY <2>2, <2>3, ServiceMakesNoFriends
  <2>6. QED
    BY <2>3, <2>4, <2>5
<1>3. CASE GatewayAnswer
  <2>1. PICK w \in Workers : /\ Answer(w)
                             /\ proof' = (proof \/ job[w].accepted)
    BY <1>3 DEF GatewayAnswer
  <2>2. /\ ~proof' /\ row' = row /\ inflight' = inflight
        /\ job' = [job EXCEPT ![w] = Idle]
    BY <2>1 DEF Answer, row
  <2>3. UNCHANGED <<friendsKey, relationCache, chat>>
    BY <1>3 DEF GatewayAnswer, caches, progress
  <2>4. job \in [Workers -> Jobs] /\ ~Idle.accepted
    BY DEF Idle, FriendshipInv, FriendshipTypeOK
  <2>5. QED
    BY <2>2, <2>3, <2>4
<1>4. CASE GatewayFallback
  BY <1>4 DEF GatewayFallback
<1>5. ASSUME NEW t \in CachedTopics, NEW u \in Users, Consumed(t, u),
             friendsKey' = "friends" => t = "accepted"
      PROVE  NobodyFriends'
  <2>1. t # "accepted"
    BY <1>5, <1>t DEF Consumed, CachedTopics
  <2>2. inflight'["accepted"] = inflight["accepted"]
    BY <1>5, <1>t, <2>1 DEF Consumed, CachedTopics
  <2>3. QED
    BY <1>5, <2>1, <2>2 DEF Consumed, row, caches, progress
<1>6. CASE Consume
  <2>1. PICK u \in Users : \/ ConsumeAccepted(u) \/ ConsumeRemoved(u)
                           \/ ConsumeBlocked(u) \/ ConsumeUnblocked(u)
    BY <1>6 DEF Consume
  <2>2. CASE ConsumeAccepted(u)
    BY <1>5, <2>2 DEF ConsumeAccepted, CachedTopics
  <2>3. CASE ConsumeRemoved(u)
    BY <1>5, <2>3 DEF ConsumeRemoved, CachedTopics, Stamp
  <2>4. CASE ConsumeBlocked(u)
    BY <1>5, <2>4 DEF ConsumeBlocked, CachedTopics
  <2>5. CASE ConsumeUnblocked(u)
    BY <1>5, <2>5 DEF ConsumeUnblocked, CachedTopics
  <2>6. QED
    BY <2>1, <2>2, <2>3, <2>4, <2>5
<1>7. CASE Expire
  <2>1. /\ UNCHANGED <<row, inflight, job, chat>>
        /\ friendsKey' \in {friendsKey, "none"}
        /\ (proof' => proof) /\ relationCache' \in {relationCache, "none"}
    BY <1>7 DEF Expire, vars, row, caches, progress
  <2>2. QED
    BY <2>1
<1>8. CASE (\E u \in Receivers : SetPrivacy(u)) \/ UNCHANGED dvars
  BY <1>8 DEF SetPrivacy, vars, row, keys, caches, progress, dvars
<1>v. CASE Validate
  <2>1. UNCHANGED <<row, inflight, job, friendsKey, proof>>
    BY <1>v DEF Validate, BeginChat, AskBlock, ReadKeys, FetchPrivacy, ReadPrivacy,
       FetchStatus, CheckFriendship, Metadata, EndChat, vars, row, keys
  <2>2. NoChat.friends = FALSE /\ KnownFriends = FALSE
    BY DEF NoChat, KnownFriends
  <2>f. chat.friends = FALSE
    BY <1>t DEF Chats
  <2>3. \A u \in Users : Status(u) # "friend"
    BY DEF Status
  <2>4. chat.pc # "idle" => chat.user \in Users
    BY DirectChatAssumption DEF ChatTypeOK
  <2>5. relationCache' # "friend"
    BY <1>v, <2>3, <2>4 DEF Validate, BeginChat, AskBlock, ReadKeys, FetchPrivacy,
       ReadPrivacy, FetchStatus, CheckFriendship, Metadata, EndChat, caches
  <2>r. ASSUME Refuse PROVE chat'.friends = FALSE
    BY <2>2, <2>r DEF Refuse
  <2>p. ASSUME NEW l, Proceed(l) PROVE chat'.friends = FALSE
    BY <1>t, <2>f, <2>p DEF Proceed, Chats
  <2>6. ASSUME NEW u \in Writers, BeginChat(u) PROVE chat'.friends = FALSE
    BY <2>6 DEF BeginChat, NoChat
  <2>7. ASSUME NEW u \in Users, AskBlock(u) PROVE chat'.friends = FALSE
    BY <1>t, <2>f, <2>7, <2>r DEF AskBlock, Refuse, Chats
  <2>8. ASSUME ReadKeys PROVE chat'.friends = FALSE
    BY <1>t, <2>f, <2>2, <2>8, <2>p, <2>r DEF ReadKeys, Chats
  <2>9. ASSUME FetchPrivacy \/ FetchStatus PROVE chat'.friends = FALSE
    BY <2>9, <2>f, <2>r DEF FetchPrivacy, FetchStatus
  <2>10. ASSUME ReadPrivacy \/ CheckFriendship \/ Metadata PROVE chat'.friends = FALSE
    BY <2>10, <2>p, <2>r DEF ReadPrivacy, CheckFriendship, Metadata
  <2>11. ASSUME EndChat PROVE chat'.friends = FALSE
    BY <2>2, <2>11 DEF EndChat
  <2>12. chat'.friends = FALSE
    BY <1>v, <2>6, <2>7, <2>8, <2>9, <2>10, <2>11 DEF Validate
  <2>13. QED
    BY <2>1, <2>5, <2>12
<1>9. QED
  BY <1>2, <1>3, <1>4, <1>6, <1>7, <1>8, <1>v DEF DNext
LEMMA OpenGoesBackStep ==
  ASSUME ChatTypeOK, OpenGoesBack, [DNext]_dvars
  PROVE  OpenGoesBack' /\ wasOpen \subseteq wasOpen'
<1> USE DEF OpenGoesBack
<1>1. CASE \/ ServiceStep \/ GatewayAnswer \/ GatewayFallback \/ Consume
           \/ UNCHANGED dvars
  <2>1. UNCHANGED <<open, wasOpen, privacyCache>>
    BY <1>1 DEF ServiceStep, GatewayAnswer, GatewayFallback, Consume, ConsumeAccepted,
       ConsumeRemoved, ConsumeBlocked, ConsumeUnblocked, Consumed, caches, history, dvars
  <2>2. QED
    BY <2>1
<1>2. CASE Expire
  <2>1. UNCHANGED <<open, wasOpen>>
    BY <1>2 DEF Expire, history
  <2>2. \A u \in Receivers : privacyCache'[u] \in {privacyCache[u], "none"}
    BY <1>2 DEF Expire, caches, ChatTypeOK
  <2>3. QED
    BY <2>1, <2>2
<1>3. ASSUME NEW u \in Receivers, SetPrivacy(u)
      PROVE  OpenGoesBack' /\ wasOpen \subseteq wasOpen'
  BY <1>3 DEF SetPrivacy, caches
<1>4. CASE Validate
  <2>1. UNCHANGED <<open, wasOpen>>
    BY <1>4 DEF Validate, BeginChat, AskBlock, ReadKeys, FetchPrivacy, ReadPrivacy,
       FetchStatus, CheckFriendship, Metadata, EndChat, history
  <2>2. \A u \in Receivers : privacyCache'[u] \in {privacyCache[u], Setting(u)}
    <3>1. CASE FetchPrivacy
      BY <3>1 DEF FetchPrivacy, ChatTypeOK
    <3>2. CASE ~FetchPrivacy
      BY <1>4, <3>2 DEF Validate, BeginChat, AskBlock, ReadKeys, ReadPrivacy,
         FetchStatus, CheckFriendship, Metadata, EndChat, caches
    <3>3. QED
      BY <3>1, <3>2
  <2>3. QED
    BY <2>1, <2>2 DEF Setting
<1>5. QED
  BY <1>1, <1>2, <1>3, <1>4 DEF DNext

LEMMA AdmittedStep ==
  ASSUME DirectChatInv, [DNext]_dvars
  PROVE  AdmittedGoesBack'
<1> USE DEF AdmittedGoesBack
<1>t. chat \in Chats /\ (chat.pc # "idle" => Receiver \in Receivers)
  BY DEF DirectChatInv, ChatTypeOK, Receiver, Receivers
<1>1. wasOpen \subseteq wasOpen' /\ (wasFriends => wasFriends')
  BY OpenGoesBackStep, FriendsGoBackStep DEF DirectChatInv
<1>k. ASSUME chat'.pc = chat.pc, chat'.user = chat.user PROVE AdmittedGoesBack'
  BY <1>1, <1>k DEF DirectChatInv, Receiver
<1>2. CASE ServiceStep
  <2>1. chat'.pc = chat.pc /\ chat'.user = chat.user
    BY <1>2, <1>t DEF ServiceStep, Chats
  <2>2. QED
    BY <1>k, <2>1
<1>3. CASE \/ GatewayAnswer \/ GatewayFallback \/ Consume \/ Expire
           \/ (\E u \in Receivers : SetPrivacy(u)) \/ UNCHANGED dvars
  <2>1. chat' = chat
    BY <1>3 DEF GatewayAnswer, GatewayFallback, Consume, ConsumeAccepted, ConsumeRemoved,
       ConsumeBlocked, ConsumeUnblocked, Consumed, Expire, SetPrivacy, progress, dvars
  <2>2. QED
    BY <1>k, <2>1
<1>e. ASSUME chat'.pc \notin {"metadata", "admitted"} PROVE AdmittedGoesBack'
  BY <1>e
<1>r. ASSUME Refuse PROVE AdmittedGoesBack'
  BY <1>e, <1>r DEF Refuse, NoChat
<1>p. ASSUME NEW l, Proceed(l), Receiver \in wasOpen \/ wasFriends PROVE AdmittedGoesBack'
  <2>1. chat'.user = chat.user
    BY <1>p, <1>t DEF Proceed, Chats
  <2>2. QED
    BY <1>1, <1>p, <2>1 DEF Receiver
<1>4. ASSUME NEW u \in Writers, BeginChat(u) PROVE AdmittedGoesBack'
  BY <1>4, <1>e DEF BeginChat, NoChat
<1>5. ASSUME NEW u \in Users, AskBlock(u) PROVE AdmittedGoesBack'
  <2>1. Refuse \/ chat'.pc \in {"blocks", "privacy"}
    BY <1>5, <1>t DEF AskBlock, Refuse, Chats
  <2>2. QED
    BY <1>e, <1>r, <2>1
<1>6. CASE ReadKeys
  <2>1. Refuse \/ chat'.pc = "blocks"
    BY <1>6, <1>t DEF ReadKeys, Proceed, Chats
  <2>2. QED
    BY <1>e, <1>r, <2>1
<1>7. CASE FetchPrivacy \/ FetchStatus
  <2>1. Refuse \/ chat' = chat
    BY <1>7 DEF FetchPrivacy, FetchStatus
  <2>2. QED
    BY <1>k, <1>r, <2>1
<1>8. CASE ReadPrivacy
  <2>1. chat.pc = "privacy"
    BY <1>8 DEF ReadPrivacy
  <2>2. CASE privacyCache[Receiver] = "open" \/ chat.friends
    <3>1. Receiver \in wasOpen \/ wasFriends
      BY <1>t, <2>1, <2>2 DEF DirectChatInv, OpenGoesBack, FriendsGoBack, NobodyFriends
    <3>2. QED
      BY <1>8, <1>p, <2>2, <3>1 DEF ReadPrivacy
  <2>3. CASE ~(privacyCache[Receiver] = "open" \/ chat.friends)
    <3>1. chat'.pc = "friendship"
      BY <1>8, <1>t, <2>3 DEF ReadPrivacy, Proceed, Chats
    <3>2. QED
      BY <1>e, <3>1
  <2>4. QED
    BY <2>2, <2>3
<1>9. CASE CheckFriendship
  <2>1. CASE relationCache = "friend"
    <3>1. wasFriends
      BY <2>1 DEF DirectChatInv, FriendsGoBack, NobodyFriends
    <3>2. QED
      BY <1>9, <1>p, <2>1, <3>1 DEF CheckFriendship
  <2>2. QED
    BY <1>9, <1>r, <2>1 DEF CheckFriendship
<1>10. CASE Metadata
  <2>1. Receiver \in wasOpen \/ wasFriends
    BY <1>10 DEF Metadata, DirectChatInv
  <2>2. QED
    BY <1>10, <1>p, <1>r, <2>1 DEF Metadata
<1>11. CASE EndChat
  BY <1>11, <1>e DEF EndChat, NoChat
<1>12. QED
  BY <1>2, <1>3, <1>4, <1>5, <1>6, <1>7, <1>8, <1>9, <1>10, <1>11 DEF DNext, Validate

-----------------------------------------------------------------------------
LEMMA DirectChatInitial == DInit => DirectChatInv
<1> SUFFICES ASSUME DInit
             PROVE  DirectChatInv
  OBVIOUS
<1>1. FriendshipInv
  BY FriendshipInitial DEF DInit
<1>2. /\ chat.pc = "idle" /\ chat.stood = {} /\ chat.friends = FALSE
      /\ chat \in Chats
  BY DEF DInit, NoChat, Chats
<1>3. ChatTypeOK /\ BlockInv /\ OpenGoesBack /\ AdmittedGoesBack
  BY <1>2 DEF DInit, ChatTypeOK, BlockInv, StoodStand, AskedHaveEnded, OpenGoesBack,
     AdmittedGoesBack
<1>4. willing = Users \/ \A u \in Users : row[u] # "friend"
  BY <1>1 DEF FriendshipInv, FriendsAreWilling
<1>5. /\ \A u \in Users : inflight["accepted"][u] = 0
      /\ \A w \in Workers : ~job[w].accepted
  BY DEF DInit, Init, CachedTopics, Idle
<1>6. FriendsGoBack
  BY <1>2, <1>4, <1>5 DEF DInit, FriendsGoBack, NobodyFriends
<1>7. QED
  BY <1>1, <1>3, <1>6 DEF DirectChatInv

LEMMA DirectChatInvariant == DSpec => []DirectChatInv
<1>1. ASSUME DirectChatInv, [DNext]_dvars
      PROVE  DirectChatInv'
  <2> USE <1>1 DEF DirectChatInv
  <2>1. FriendshipInv'
    BY FriendshipUnderChat
  <2>2. ChatTypeOK'
    BY ChatTypeStep
  <2>3. BlockInv'
    BY BlockStep
  <2>4. FriendsGoBack' /\ OpenGoesBack' /\ AdmittedGoesBack'
    BY FriendsGoBackStep, OpenGoesBackStep, AdmittedStep
  <2>5. QED
    BY <2>1, <2>2, <2>3, <2>4
<1>2. QED
  BY DirectChatInitial, <1>1, PTL DEF DSpec

(* With everybody around the service at work, friends have still both asked *)
(* or accepted.                                                            *)
THEOREM DirectChatFriendsAreWilling == DSpec => []FriendsAreWilling
<1>1. DirectChatInv => FriendsAreWilling
  BY DEF DirectChatInv, FriendshipInv
<1>2. QED
  BY DirectChatInvariant, <1>1, PTL

(* A block that has stood since the validation began admits no message,    *)
(* unless a call for the block status failed with an answer taken for "no". *)
THEOREM DirectChatBlockStopsMessages == DSpec => []BlockStopsMessages
<1>1. DirectChatInv => BlockStopsMessages
  BY DEF DirectChatInv, BlockInv, AskedHaveEnded, BlockStopsMessages
<1>2. QED
  BY DirectChatInvariant, <1>1, PTL

(* The caches admit no stranger to a receiver who never let strangers write. *)
THEOREM DirectChatStrangersKeptOut == DSpec => []StrangersKeptOut
<1>1. DirectChatInv => StrangersKeptOut
  BY DEF DirectChatInv, AdmittedGoesBack, StrangersKeptOut
<1>2. QED
  BY DirectChatInvariant, <1>1, PTL
=============================================================================
