----------------------------- MODULE Friendship -----------------------------
(***************************************************************************)
(* friendship-service for one pair of users: two friendships rows (one per *)
(* direction), the friend_requests rows and the blocks rows.  A handler    *)
(* checks in autocommitted statements and then writes in a transaction,    *)
(* statement by statement, as PostgreSQL runs it under READ COMMITTED:     *)
(*   - a statement sees what is committed and what its transaction has     *)
(*     written itself;                                                     *)
(*   - a written row stays locked until the transaction ends; an UPDATE or *)
(*     DELETE that matches no row locks nothing and waits for nobody;      *)
(*   - an INSERT waits for whoever has deleted or inserted a row of its    *)
(*     key, and rolls its transaction back when the key is taken.          *)
(***************************************************************************)
EXTENDS Naturals, Sequences, FiniteSets

CONSTANTS
  Users,      \* the two users of the pair
  NoUser,     \* of a worker without a request
  Workers,    \* concurrent handlers of all instances of the service
  MaxJobs     \* bound of the model: requests ever taken up

ASSUME PairAssumption ==
  /\ \E x, y \in Users : x # y /\ Users = {x, y}
  /\ NoUser \notin Users
ASSUME MaxJobsAssumption == MaxJobs \in Nat

VARIABLES
  db,         \* db[t][u]: the committed row of u against the other in table t
  job,        \* job[w]: the request a worker is at, where, and its writes
  jobs,       \* requests taken up so far
  inflight,   \* inflight[t][u]: committed events of topic t not consumed yet
  willing     \* history: who has ever sent a request or accepted one

vars == <<db, job, jobs, inflight, willing>>

Statuses == {"none", "pending_out", "pending_in", "friend", "blocked"}
Tables == {"friendships", "requests", "blocks"}

row == db["friendships"]
blocks == {u \in Users : db["blocks"][u] # "none"}

Ops == {"send", "accept", "reject", "unfriend", "block", "unblock"}
Transactions == Ops \cup {"cancel"}
Labels == {"idle", "blockedBy", "status", "blocking", "reverse", "check", "answer"}
            \cup Transactions
CachedTopics == {"accepted", "removed", "blocked", "unblocked"}

Other(u) == CHOOSE x \in Users : x # u

\* job[w].own holds what the open transaction has written.
Untouched == [t \in Tables |-> [x \in Users |-> "keep"]]

Idle == [op |-> "send", user |-> NoUser, pc |-> "idle", at |-> 1,
         own |-> Untouched, accepted |-> FALSE]

Asked(u) == [x \in Users |-> IF x = u THEN "pending_out" ELSE "pending_in"]

Stored(friendships, asker) ==
  [friendships |-> friendships,
   requests |-> [x \in Users |-> IF x = asker THEN "sent" ELSE "none"],
   blocks |-> [x \in Users |-> "none"]]

\* The pair starts as strangers, as friends, or with a request of one of them.
Init ==
  /\ \/ \E s \in {"none", "friend"} : db = Stored([u \in Users |-> s], NoUser)
     \/ \E u \in Users : db = Stored(Asked(u), u)
  /\ job = [w \in Workers |-> Idle]
  /\ jobs = 0
  /\ inflight = [t \in CachedTopics |-> [u \in Users |-> 0]]
  /\ willing = {u \in Users : row[u] \in {"friend", "pending_out"}}

-----------------------------------------------------------------------------
\* The checks of the handlers.

At(w, op, label) == job[w].op = op /\ job[w].pc = label
GoTo(w, label) == job' = [job EXCEPT ![w].pc = label]

\* Of an answer the gateway asks only whether an accept succeeded.
Answered(w, success) ==
  [Idle EXCEPT !.pc = "answer", !.accepted = success /\ job[w].op = "accept"]

Reply(w, success) == job' = [job EXCEPT ![w] = Answered(w, success)]

FirstLabel(op) ==
  CASE op = "send" -> "blockedBy" [] op = "block" -> "block" [] OTHER -> "check"

Begin(w, u, op) ==
  /\ job[w].pc = "idle" /\ jobs < MaxJobs
  /\ jobs' = jobs + 1
  /\ job' = [job EXCEPT ![w] = [Idle EXCEPT !.op = op, !.user = u, !.pc = FirstLabel(op)]]
  /\ UNCHANGED <<db, inflight, willing>>

\* The reads of sendFriendRequest, in the order of the code.
SendBlockedBy(w) ==
  /\ At(w, "send", "blockedBy")
  /\ IF Other(job[w].user) \in blocks THEN Reply(w, FALSE) ELSE GoTo(w, "status")
  /\ UNCHANGED <<db, jobs, inflight, willing>>

SendStatus(w) ==
  /\ At(w, "send", "status")
  /\ CASE row[job[w].user] = "friend" -> Reply(w, FALSE)
       [] row[job[w].user] = "pending_out" -> Reply(w, TRUE)
       [] OTHER -> GoTo(w, "blocking")
  /\ UNCHANGED <<db, jobs, inflight, willing>>

SendBlocking(w) ==
  /\ At(w, "send", "blocking")
  /\ IF job[w].user \in blocks THEN Reply(w, FALSE) ELSE GoTo(w, "reverse")
  /\ UNCHANGED <<db, jobs, inflight, willing>>

\* A pending request of the other side is accepted: acceptFriendRequest runs.
SendReverse(w) ==
  /\ At(w, "send", "reverse")
  /\ GoTo(w, IF row[Other(job[w].user)] = "pending_out" THEN "check" ELSE "send")
  /\ UNCHANGED <<db, jobs, inflight, willing>>

\* Mutant: any row will do, also that of a request the user sent.
AcceptAnyRow(w) ==
  /\ job[w].op \in {"accept", "send"} /\ job[w].pc = "check"
  /\ IF row[job[w].user] # "none" THEN GoTo(w, "accept") ELSE Reply(w, FALSE)
  /\ UNCHANGED <<db, jobs, inflight, willing>>

AcceptCheck(w) ==
  /\ job[w].op \in {"accept", "send"} /\ job[w].pc = "check"
  /\ IF row[job[w].user] = "pending_in" THEN GoTo(w, "accept") ELSE Reply(w, FALSE)
  /\ UNCHANGED <<db, jobs, inflight, willing>>

RejectCheck(w) ==
  /\ At(w, "reject", "check")
  /\ CASE row[job[w].user] = "pending_in" -> GoTo(w, "reject")
       [] row[job[w].user] = "pending_out" -> GoTo(w, "cancel")
       [] OTHER -> Reply(w, FALSE)
  /\ UNCHANGED <<db, jobs, inflight, willing>>

UnfriendCheck(w) ==
  /\ At(w, "unfriend", "check")
  /\ IF row[job[w].user] = "friend" THEN GoTo(w, "unfriend") ELSE Reply(w, FALSE)
  /\ UNCHANGED <<db, jobs, inflight, willing>>

UnblockCheck(w) ==
  /\ At(w, "unblock", "check")
  /\ IF job[w].user \in blocks THEN GoTo(w, "unblock") ELSE Reply(w, FALSE)
  /\ UNCHANGED <<db, jobs, inflight, willing>>

-----------------------------------------------------------------------------
\* The statements of the transactions.  A Seek is the SELECT of a save() of
\* an entity whose primary key is set; the next statement is its INSERT.

Statement(kind, t, users, value) ==
  [kind |-> kind, table |-> t, users |-> users, value |-> value]

Insert(t, u, value) == Statement("insert", t, {u}, value)
Update(t, u, value) == Statement("update", t, {u}, value)
Delete(t, users) == Statement("delete", t, users, "none")
Seek(t, u) == Statement("seek", t, {u}, "none")

Unlink(u) == <<Delete("friendships", {u}), Delete("friendships", {Other(u)})>>

SendScript(u) == <<Insert("requests", u, "sent"),
                   Insert("friendships", u, "pending_out"),
                   Insert("friendships", Other(u), "pending_in")>>
AcceptScript(u) == <<Update("friendships", u, "friend"),
                     Update("friendships", Other(u), "friend"),
                     Delete("requests", {Other(u)})>>
RejectScript(u) == Append(Unlink(u), Delete("requests", {Other(u)}))
CancelScript(u) == Append(Unlink(u), Delete("requests", {u}))
BlockScript(u) == Unlink(u) \o <<Delete("requests", Users),
                                 Seek("blocks", u),
                                 Insert("blocks", u, "blocked"),
                                 Insert("friendships", u, "blocked")>>
UnblockScript(u) == <<Delete("blocks", {u}), Delete("friendships", {u})>>

Script(tx, u) == CASE tx = "send" -> SendScript(u)
                   [] tx = "accept" -> AcceptScript(u)
                   [] tx = "reject" -> RejectScript(u)
                   [] tx = "cancel" -> CancelScript(u)
                   [] tx = "unfriend" -> Unlink(u)
                   [] tx = "block" -> BlockScript(u)
                   [] tx = "unblock" -> UnblockScript(u)

ScriptOf(w) == Script(job[w].pc, job[w].user)
InTransaction(w) == job[w].pc \in Transactions
AtStatement(w) == InTransaction(w) /\ job[w].at <= Len(ScriptOf(w))
Current(w) == ScriptOf(w)[job[w].at]

Visible(w, t, x) == IF job[w].own[t][x] # "keep" THEN job[w].own[t][x] ELSE db[t][x]
Found(w) == {x \in Current(w).users : Visible(w, Current(w).table, x) # "none"}
Locked(w, users) ==
  \E v \in Workers \ {w}, x \in users : job[v].own[Current(w).table][x] # "keep"

Advance(w, users) ==
  job' = [job EXCEPT
    ![w].at = @ + 1,
    ![w].own[Current(w).table] =
      [x \in Users |-> IF x \in users THEN Current(w).value ELSE @[x]]]

InsertRow(w) ==
  /\ AtStatement(w) /\ Current(w).kind = "insert" /\ ~Locked(w, Current(w).users)
  /\ IF Found(w) = {} THEN Advance(w, Current(w).users) ELSE Reply(w, FALSE)
  /\ UNCHANGED <<db, jobs, inflight, willing>>

\* By user and target, whatever the rows are now, if they are.
ChangeRows(w) ==
  /\ AtStatement(w) /\ Current(w).kind \in {"update", "delete"}
  /\ ~Locked(w, Found(w))
  /\ Advance(w, Found(w))
  /\ UNCHANGED <<db, jobs, inflight, willing>>

SeekRow(w) ==
  /\ AtStatement(w) /\ Current(w).kind = "seek"
  /\ job' = [job EXCEPT ![w].at = @ + (IF Found(w) = {} THEN 1 ELSE 2)]
  /\ UNCHANGED <<db, jobs, inflight, willing>>

\* A deadlock, a timeout or a lost connection.
Abort(w) ==
  /\ InTransaction(w)
  /\ Reply(w, FALSE)
  /\ UNCHANGED <<db, jobs, inflight, willing>>

\* Whoever has begun to wait for a row that is deleted and inserted anew
\* finds neither of the two.
Misses(v, w) ==
  /\ AtStatement(v) /\ Current(v).kind \in {"update", "delete"}
  /\ Current(v).table = "friendships" /\ Current(v).users = {job[w].user}
  /\ job[w].pc = "block" /\ row[job[w].user] # "none"

\* The outbox row of a transaction; Outbox says what becomes of it.  The
\* topics of sent, rejected and canceled requests only notify.
Topic == [accept |-> "accepted", unfriend |-> "removed",
          block |-> "blocked", unblock |-> "unblocked"]

Emit(tx, u) ==
  inflight' = IF tx \in DOMAIN Topic THEN [inflight EXCEPT ![Topic[tx]][u] = @ + 1]
                                     ELSE inflight

Commit(w) ==
  /\ InTransaction(w) /\ job[w].at > Len(ScriptOf(w))
  /\ db' = [t \in Tables |-> [x \in Users |-> Visible(w, t, x)]]
  /\ Emit(job[w].pc, job[w].user)
  /\ willing' = willing \cup {u \in {job[w].user} : job[w].pc \in {"send", "accept"}}
  /\ \E late \in SUBSET {v \in Workers \ {w} : Misses(v, w)} :
       job' = [v \in Workers |->
         IF v \in late THEN [job[v] EXCEPT !.at = @ + 1]
         ELSE IF v = w THEN Answered(w, TRUE)
         ELSE job[v]]
  /\ UNCHANGED jobs

Answer(w) ==
  /\ job[w].pc = "answer"
  /\ job' = [job EXCEPT ![w] = Idle]
  /\ UNCHANGED <<db, jobs, inflight, willing>>

Check(w) == \/ SendBlockedBy(w) \/ SendStatus(w) \/ SendBlocking(w) \/ SendReverse(w)
            \/ AcceptCheck(w) \/ RejectCheck(w) \/ UnfriendCheck(w) \/ UnblockCheck(w)

Write(w) == InsertRow(w) \/ ChangeRows(w) \/ SeekRow(w) \/ Commit(w) \/ Abort(w)

Serve(w) ==
  \/ \E u \in Users, op \in Ops : Begin(w, u, op)
  \/ Check(w) \/ Write(w)

Next == \E w \in Workers : Serve(w) \/ Answer(w)
Spec == Init /\ [][Next]_vars

-----------------------------------------------------------------------------
Jobs == [op : Ops, user : Users \cup {NoUser}, pc : Labels, at : Nat \ {0},
         own : [Tables -> [Users -> Statuses \cup {"sent", "keep"}]], accepted : BOOLEAN]

\* Type invariant of the tables and the handlers.
FriendshipTypeOK ==
  /\ db \in [Tables -> [Users -> Statuses \cup {"sent"}]]
  /\ job \in [Workers -> Jobs]
  /\ jobs \in Nat
  /\ inflight \in [CachedTopics -> [Users -> Nat]]
  /\ willing \subseteq Users

\* Nobody is anybody's friend who has never asked or accepted, although an
\* accept updates the rows it finds and not the ones it checked.
FriendsAreWilling ==
  (\E u \in Users : row[u] = "friend") => willing = Users
=============================================================================
