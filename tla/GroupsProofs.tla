---------------------------- MODULE GroupsProofs -----------------------------
(***************************************************************************)
(* Proofs about groups: the count of the members, rejected requests, and   *)
(* the cached members, for any number of users, handlers and calls.        *)
(***************************************************************************)
EXTENDS GroupCache, FiniteSetTheorems, TLAPS

Requests == [status : {"none", "pending", "approved", "rejected"}, id : Nat]
Puts == [Users -> Roles \cup {"none", "keep"}]
Calls == [op : Ops, user : Users \cup {NoUser}, heir : Users \cup {NoUser},
          role : Roles \cup {"none"}, pc : {"idle", "write", "commit", "cache"},
          seen : Requests, put : Puts, count : Nat, alone : BOOLEAN]

GroupTypeOK ==
  /\ role \in [Users -> Roles \cup {"none"}]
  /\ request \in [Users -> Requests]
  /\ job \in [Workers -> Calls]

(* All calls but a disbanding are about a user; a rejection has read a     *)
(* request that was pending, and a change of role has a role to give.      *)
CallOK(j) ==
  /\ j.pc # "idle" /\ j.op # "disband" => j.user \in Users
  /\ j.op = "reject" /\ j.pc = "write" => j.seen.status = "pending"
  /\ j.op = "role" /\ j.pc = "write" => j.role \in Roles

CallsOK == \A w \in Workers : CallOK(job[w])

(* What a transaction may write: a new row only for the user it adds, and  *)
(* it deletes the row only of the user it removes.                         *)
Fits(op, user, put) ==
  \A u \in Users :
    /\ put[u] \notin {"keep", "none"} => role[u] # "none" \/ (op \in Adders /\ u = user)
    /\ put[u] = "none" => op \notin Adders \cup {"role"} /\ (op \in Removers => u = user)

PutsFit == \A w \in Workers : Open(w) => Fits(job[w].op, job[w].user, job[w].put)

(* Row locks: no two open transactions write the same row. *)
LocksExclude ==
  \A v, w \in Workers, u \in Users :
    v # w /\ Open(v) /\ Open(w) /\ job[v].put[u] # "keep" => job[w].put[u] = "keep"

(* What a transaction that is alone has counted is what it will leave. *)
AloneCounts ==
  \A w \in Workers : Open(w) /\ job[w].alone =>
    /\ \A v \in Workers : Open(v) => v = w
    /\ job[w].count = CountBy(job[w].op, job[w].put)

(* Neither a pending nor a rejected request is that of a member. *)
AskersAreOut ==
  \A u \in Users : request[u].status \in {"pending", "rejected"} /\ u \notin raced
                     => role[u] = "none"

GroupInv ==
  /\ GroupTypeOK /\ CallsOK
  /\ PutsFit /\ LocksExclude
  /\ AloneCounts /\ CountSettles
  /\ AskersAreOut

-----------------------------------------------------------------------------
LEMMA CountedType ==
  ASSUME NEW put
  PROVE  Counted(put) \in Nat
<1>1. {u \in Users : After(put)[u] # "none"} \subseteq Users
  OBVIOUS
<1>2. QED
  BY <1>1, GroupsAssumption, FS_Subset, FS_CardinalityType DEF Counted

LEMMA CountByType ==
  ASSUME NEW op, NEW put
  PROVE  CountBy(op, put) \in Nat /\ (op # "approve" => CountBy(op, put) = Counted(put))
<1>1. Counted(put) \in Nat /\ Conversations \in Nat
  BY CountedType, GroupsAssumption
<1>2. \A m, n \in Nat : m * n \in Nat
  OBVIOUS
<1>3. QED
  BY <1>1, <1>2 DEF CountBy

LEMMA KeepIsPut == Keep \in Puts /\ \A u \in Users : Keep[u] = "keep"
BY DEF Keep, Puts

LEMMA IdleIsCall == Idle \in Calls /\ Idle.pc = "idle" /\ Idle.put = Keep
BY KeepIsPut DEF Idle, Calls, Ops, Requests, NoRequest

LEMMA OneMoves ==
  ASSUME job \in [Workers -> Calls], NEW w \in Workers, NEW j, job' = [job EXCEPT ![w] = j]
  PROVE  job'[w] = j /\ \A v \in Workers : v # w => job'[v] = job[v]
OBVIOUS

(* The reads take up one call and nothing else. *)
Started(w) ==
  \E j \in Calls : /\ job[w].pc = "idle" /\ job' = [job EXCEPT ![w] = j]
                   /\ j.pc \in {"write", "cache"} /\ CallOK(j) /\ j.put = Keep
                   /\ j.pc = "cache" => j.op = "join" /\ role[j.user] # "none"
                   /\ UNCHANGED <<rows, histories>>

LEMMA StartStarts ==
  ASSUME NEW w \in Workers,
         NEW op \in Ops, NEW u \in Users \cup {NoUser}, NEW l \in {"write", "cache"},
         NEW h \in Users \cup {NoUser}, NEW r \in Roles \cup {"none"},
         NEW seen \in Requests, Start(w, op, u, l, h, r, seen),
         op # "disband" => u \in Users,
         op = "reject" => seen.status = "pending", op = "role" => r \in Roles,
         l = "cache" => op = "join" /\ role[u] # "none"
  PROVE  Started(w)
<1> DEFINE j == [Idle EXCEPT !.op = op, !.user = u, !.pc = l, !.heir = h,
                             !.role = r, !.seen = seen]
<1>1. /\ j \in Calls /\ j.pc = l /\ j.op = op /\ j.user = u /\ j.seen = seen
     /\ j.role = r /\ j.put = Keep
  BY KeepIsPut DEF Idle, Calls
<1>2. job' = [job EXCEPT ![w] = j] /\ job[w].pc = "idle" /\ UNCHANGED <<rows, histories>>
  BY DEF Start
<1> HIDE DEF j
<1>3. CallOK(j) /\ (j.pc = "cache" => j.op = "join" /\ role[j.user] # "none")
  BY <1>1 DEF CallOK
<1>4. QED
  BY <1>1, <1>2, <1>3 DEF Started

LEMMA ReadsStart ==
  ASSUME GroupTypeOK, NEW w \in Workers, Reads(w)
  PROVE  Started(w)
<1>n. NoRequest \in Requests
  BY DEF NoRequest, Requests
<1>r. \A u \in Users : request[u] \in Requests /\ role[u] \in Roles \cup {"none"}
  BY DEF GroupTypeOK
<1>c. ASSUME NEW u \in Users, NEW op \in {"add", "remove", "kick"}, Call(w, op, u)
      PROVE  Started(w)
  BY <1>c, <1>n, StartStarts DEF Call, Ops
<1>1. ASSUME NEW u \in Users, AddReads(w, u) PROVE Started(w)
  BY <1>1, <1>c, <1>r, StartStarts DEF AddReads, Ops, Adders
<1>2. ASSUME NEW u \in Users, JoinReads(w, u) PROVE Started(w)
  BY <1>2, <1>n, StartStarts DEF JoinReads, Ops
<1>3. ASSUME NEW u \in Users, RequestReads(w, u) PROVE Started(w)
  BY <1>3, <1>r, StartStarts DEF RequestReads, Ops, Adders
<1>4. ASSUME NEW u \in Users, NEW op \in {"approve", "reject"}, ReviewReads(w, u, op)
      PROVE  Started(w)
  BY <1>4, <1>r, StartStarts DEF ReviewReads, Reviewable, Ops
<1>5. ASSUME NEW u \in Users, RemoveReads(w, u) \/ KickReads(w, u) PROVE Started(w)
  BY <1>5, <1>c DEF RemoveReads, KickReads
<1>6. ASSUME NEW u \in Users, LeaveReads(w, u) PROVE Started(w)
  BY <1>6, <1>n, <1>r, StartStarts DEF LeaveReads, Members, Ops, Roles
<1>7. ASSUME NEW u \in Users, RoleReads(w, u) PROVE Started(w)
  BY <1>7, <1>n, StartStarts DEF RoleReads, Ops
<1>8. CASE DisbandReads(w)
  BY <1>8, <1>n, StartStarts DEF DisbandReads, Call, Ops
<1>9. QED
  BY <1>1, <1>2, <1>3, <1>4, <1>5, <1>6, <1>7, <1>8 DEF Reads

(* The user is a member, or will be by the commit. *)
WillBeIn(u, put) == role[u] # "none" \/ put[u] \notin {"keep", "none"}

(* Whoever opens a transaction writes what fits its call. *)
Opened(w) ==
  \E put \in Puts : /\ job[w].pc = "write" /\ Write(w, put)
                    /\ Fits(job[w].op, job[w].user, put)
                    /\ job[w].op \in Adders => WillBeIn(job[w].user, put)

Transactions(w) == \/ InsertMember(w) \/ ApproveInsert(w) \/ DeleteMember(w)
                   \/ LeaveWrites(w) \/ UpdateRole(w) \/ DeleteAll(w)

LEMMA TransactionsOpen ==
  ASSUME GroupTypeOK, CallsOK, NEW w \in Workers, Transactions(w)
  PROVE  Opened(w)
<1>t. /\ job[w] \in Calls /\ role \in [Users -> Roles \cup {"none"}]
      /\ job[w].pc # "idle" /\ job[w].op # "disband" => job[w].user \in Users
  BY DEF GroupTypeOK, CallsOK, CallOK
<1> DEFINE u == job[w].user
<1>1. CASE InsertMember(w) \/ ApproveInsert(w)
  <2>1. Write(w, InsertRow(u)) /\ At(w, {"add", "join", "approve"})
    BY <1>1 DEF InsertMember, ApproveInsert, At
  <2>2. InsertRow(u) \in Puts /\ Fits(job[w].op, u, InsertRow(u)) /\ WillBeIn(u, InsertRow(u))
    BY <1>t, <2>1, KeepIsPut DEF InsertRow, Puts, Roles, Fits, Adders, At, WillBeIn
  <2>3. QED
    BY <2>1, <2>2 DEF Opened, At
<1>2. CASE DeleteMember(w)
  <2>1. Write(w, DeleteRow(u)) /\ At(w, {"remove", "kick"})
    BY <1>2 DEF DeleteMember, At
  <2>2. DeleteRow(u) \in Puts /\ Fits(job[w].op, u, DeleteRow(u))
    BY <1>t, <2>1, KeepIsPut DEF DeleteRow, Puts, Roles, Fits, Adders, Removers, At
  <2>3. QED
    BY <2>1, <2>2 DEF Opened, At, Adders
<1>3. CASE LeaveWrites(w)
  <2> DEFINE h == job[w].heir
             put == IF h \in Users THEN [UpdateRow(h, "owner") EXCEPT ![u] = DeleteRow(u)[u]]
                    ELSE DeleteRow(u)
  <2>1. Write(w, put) /\ At(w, {"leave"}) /\ u \in Users
    BY <1>3, <1>t DEF LeaveWrites, At
  <2>2. DeleteRow(u) \in Puts /\ Fits("leave", u, DeleteRow(u))
    BY <1>t, <2>1, KeepIsPut DEF DeleteRow, Puts, Roles, Fits, Adders, Removers
  <2>3. ASSUME h \in Users
        PROVE  UpdateRow(h, "owner") \in Puts /\ Fits("leave", u, UpdateRow(h, "owner"))
    BY <1>t, <2>3, KeepIsPut DEF UpdateRow, Puts, Roles, Fits
  <2>4. put \in Puts /\ Fits("leave", u, put)
    BY <2>1, <2>2, <2>3 DEF Puts, Fits
  <2>5. QED
    BY <2>1, <2>4 DEF Opened, At, Adders
<1>4. CASE UpdateRole(w)
  <2> DEFINE put == UpdateRow(u, job[w].role)
  <2>1. Write(w, put) /\ At(w, {"role"})
    BY <1>4 DEF UpdateRole
  <2>2. put \in Puts /\ Fits("role", u, put)
    <3>1. job[w].role \in Roles
      BY <2>1 DEF At, CallsOK, CallOK
    <3>2. "none" \notin Roles
      BY DEF Roles
    <3>3. QED
      BY <1>t, <3>1, <3>2, KeepIsPut DEF UpdateRow, Puts, Fits
  <2>3. QED
    BY <2>1, <2>2 DEF Opened, At, Adders
<1>5. CASE DeleteAll(w)
  <2> DEFINE put == [x \in Users |-> IF x \in Members THEN "none" ELSE "keep"]
  <2>1. Write(w, put) /\ At(w, {"disband"})
    BY <1>5 DEF DeleteAll
  <2>2. put \in Puts /\ Fits("disband", u, put)
    BY DEF Puts, Fits, Adders, Removers
  <2>3. QED
    BY <2>1, <2>2 DEF Opened, At, Adders
<1>6. QED
  BY <1>1, <1>2, <1>3, <1>4, <1>5 DEF Transactions
-----------------------------------------------------------------------------
(* A step of a handler outside of transactions. *)
TransactionsOK == PutsFit /\ LocksExclude /\ AloneCounts /\ CountSettles

LEMMA OutsideStep ==
  ASSUME GroupInv, NEW w \in Workers, NEW j \in Calls, job' = [job EXCEPT ![w] = j],
         ~Open(w), j.pc # "commit", CallOK(j), UNCHANGED <<role, count, countOk>>
  PROVE  job' \in [Workers -> Calls] /\ CallsOK' /\ TransactionsOK'
<1>t. job \in [Workers -> Calls]
  BY DEF GroupInv, GroupTypeOK
<1>1. /\ \A v \in Workers : v # w => job'[v] = job[v]
      /\ job'[w] = j /\ job' \in [Workers -> Calls]
  BY <1>t
<1>2. CallsOK'
  BY <1>1 DEF GroupInv, CallsOK, CallOK
<1>3. \A v \in Workers : Open(v)' => Open(v) /\ job'[v] = job[v] /\ v # w
  BY <1>1 DEF Open
<1>4. \A op, put : CountBy(op, put)' = CountBy(op, put)
  BY DEF CountBy, Counted, After
<1>5. PutsFit'
  BY <1>3 DEF GroupInv, PutsFit, Fits
<1>6. LocksExclude'
  BY <1>3 DEF GroupInv, LocksExclude
<1>7. AloneCounts'
  BY <1>3, <1>4 DEF GroupInv, AloneCounts
<1>8. CountSettles'
  BY DEF GroupInv, CountSettles, Members
<1>9. QED
  BY <1>1, <1>2, <1>5, <1>6, <1>7, <1>8 DEF TransactionsOK

LEMMA StartedStep ==
  ASSUME GroupInv, NEW w \in Workers, Started(w)
  PROVE  GroupInv'
<1>1. PICK j \in Calls : /\ job[w].pc = "idle" /\ job' = [job EXCEPT ![w] = j]
                         /\ j.pc \in {"write", "cache"} /\ CallOK(j)
                         /\ UNCHANGED <<rows, histories>>
  BY DEF Started
<1>2. job' \in [Workers -> Calls] /\ CallsOK' /\ TransactionsOK'
  BY <1>1, OutsideStep DEF Open, rows, histories
<1>3. AskersAreOut'
  BY <1>1 DEF GroupInv, AskersAreOut, rows, histories
<1>4. QED
  BY <1>1, <1>2, <1>3 DEF GroupInv, GroupTypeOK, TransactionsOK, rows

LEMMA AnswerStep ==
  ASSUME GroupInv, NEW w \in Workers, Answer(w)
  PROVE  GroupInv'
<1>1. /\ job[w].pc = "cache" /\ job' = [job EXCEPT ![w] = Idle]
      /\ UNCHANGED <<rows, histories>>
  BY DEF Answer
<1>2. job' \in [Workers -> Calls] /\ CallsOK' /\ TransactionsOK'
  BY <1>1, IdleIsCall, OutsideStep DEF Open, rows, histories, CallOK
<1>3. AskersAreOut'
  BY <1>1 DEF GroupInv, AskersAreOut, rows, histories
<1>4. QED
  BY <1>1, <1>2, <1>3 DEF GroupInv, GroupTypeOK, TransactionsOK, rows

LEMMA PutRequestStep ==
  ASSUME GroupInv, NEW w \in Workers, PutRequest(w)
  PROVE  GroupInv'
<1> DEFINE u == job[w].user
           new == [status |-> "pending", id |-> request[u].id + 1]
<1>1. /\ job[w].pc = "write" /\ job' = [job EXCEPT ![w] = Idle]
      /\ UNCHANGED <<role, count, countOk>>
      /\ job[w].op \in {"request", "invite"}
  BY DEF PutRequest, At
<1>2. job' \in [Workers -> Calls] /\ CallsOK' /\ TransactionsOK'
  BY <1>1, IdleIsCall, OutsideStep DEF Open, CallOK
<1>3. u \in Users /\ request \in [Users -> Requests]
  BY <1>1 DEF GroupInv, GroupTypeOK, CallsOK, CallOK
<1>4. new \in Requests
  BY <1>3 DEF Requests
<1>5. CASE UNCHANGED <<request, raced>>
  BY <1>1, <1>2, <1>5 DEF GroupInv, GroupTypeOK, TransactionsOK, AskersAreOut
<1>6. CASE /\ request' = [request EXCEPT ![u] = new]
           /\ raced \subseteq raced' /\ (role[u] # "none" => u \in raced')
  <2>1. request' \in [Users -> Requests]
    BY <1>3, <1>4, <1>6
  <2>2. AskersAreOut'
    BY <1>1, <1>3, <1>6 DEF GroupInv, AskersAreOut
  <2>3. QED
    BY <1>1, <1>2, <2>1, <2>2 DEF GroupInv, GroupTypeOK, TransactionsOK
<1>7. QED
  BY <1>5, <1>6 DEF PutRequest

(* Decide leaves AskersAreOut in place, with the status it gives. *)
LEMMA DecideDecides ==
  ASSUME GroupTypeOK, NEW u \in Users, NEW seen,
         NEW s \in {"approved", "rejected"}, Decide(u, seen, s)
  PROVE  /\ request' \in [Users -> Requests] /\ raced \subseteq raced'
         /\ \A x \in Users : x # u => request'[x] = request[x]
         /\ u \notin raced' => request[u] = seen /\ request'[u].status = s
<1>1. request \in [Users -> Requests] /\ request[u] \in Requests
  BY DEF GroupTypeOK
<1> DEFINE new == [request[u] EXCEPT !.status = s]
<1>2. new \in Requests /\ new.status = s
  BY <1>1 DEF Requests
<1>3. request' = IF request[u].id = seen.id THEN [request EXCEPT ![u] = new] ELSE request
  BY DEF Decide
<1> HIDE DEF new
<1>4. raced' = IF request[u] # seen THEN raced \cup {u} ELSE raced
  BY DEF Decide
<1>5. QED
  BY <1>1, <1>2, <1>3, <1>4

LEMMA RejectStep ==
  ASSUME GroupInv, NEW w \in Workers, RejectWrite(w)
  PROVE  GroupInv'
<1> DEFINE u == job[w].user
<1>1. /\ job[w].pc = "write" /\ job[w].op = "reject" /\ job' = [job EXCEPT ![w] = Idle]
      /\ UNCHANGED <<role, count, countOk>> /\ Decide(u, job[w].seen, "rejected")
  BY DEF RejectWrite, At
<1>2. job' \in [Workers -> Calls] /\ CallsOK' /\ TransactionsOK'
  BY <1>1, IdleIsCall, OutsideStep DEF Open, CallOK
<1>3. u \in Users /\ job[w].seen.status = "pending"
  BY <1>1 DEF GroupInv, CallsOK, CallOK
<1>4. /\ request' \in [Users -> Requests] /\ raced \subseteq raced'
      /\ \A x \in Users : x # u => request'[x] = request[x]
      /\ u \notin raced' => request[u] = job[w].seen
  BY <1>1, <1>3, DecideDecides DEF GroupInv
<1>5. AskersAreOut'
  BY <1>1, <1>3, <1>4 DEF GroupInv, AskersAreOut
<1>6. QED
  BY <1>1, <1>2, <1>4, <1>5 DEF GroupInv, GroupTypeOK, TransactionsOK

LEMMA OpenedStep ==
  ASSUME GroupInv, NEW w \in Workers, Opened(w)
  PROVE  GroupInv'
<1>1. PICK put \in Puts : /\ job[w].pc = "write" /\ Write(w, put)
                          /\ Fits(job[w].op, job[w].user, put)
  BY DEF Opened
<1> DEFINE j == [job[w] EXCEPT !.pc = "commit", !.put = put,
                               !.count = CountBy(job[w].op, put),
                               !.alone = \A x \in Workers : ~Open(x)]
           k(v) == [job[v] EXCEPT !.alone = job[v].alone /\ ~Open(v)]
<1>t. job \in [Workers -> Calls] /\ CountBy(job[w].op, put) \in Nat
  BY CountByType DEF GroupInv, GroupTypeOK
<1>2. /\ j \in Calls /\ j.pc = "commit" /\ j.put = put /\ j.count = CountBy(j.op, put)
      /\ j.alone = (\A x \in Workers : ~Open(x))
      /\ j.op = job[w].op /\ j.user = job[w].user
  BY <1>t DEF Calls
<1>3. \A v \in Workers : /\ k(v) \in Calls /\ k(v).alone = (job[v].alone /\ ~Open(v))
                         /\ k(v).op = job[v].op /\ k(v).user = job[v].user
                         /\ k(v).pc = job[v].pc /\ k(v).put = job[v].put
                         /\ k(v).seen = job[v].seen /\ k(v).role = job[v].role
  BY <1>t DEF Calls
<1>4. job' = [v \in Workers |-> IF v = w THEN j ELSE k(v)] /\ UNCHANGED <<rows, histories>>
  BY <1>1, <1>t DEF Write, Calls
<1>u. \A u \in Users : put[u] # "keep" => ~Locked(u)
  BY <1>1 DEF Write
<1> HIDE DEF j, k
<1>5. job' \in [Workers -> Calls]
  BY <1>2, <1>3, <1>4
<1>6. CallsOK'
  BY <1>1, <1>2, <1>3, <1>4 DEF GroupInv, CallsOK, CallOK
<1>7. PutsFit'
  BY <1>1, <1>2, <1>3, <1>4 DEF GroupInv, PutsFit, Fits, Open, rows
<1>8. LocksExclude'
  BY <1>2, <1>3, <1>4, <1>u DEF GroupInv, LocksExclude, Locked, Open
<1>9. AloneCounts'
  <2>2. ASSUME NEW v \in Workers, Open(v)', job'[v].alone
        PROVE  v = w /\ \A x \in Workers : ~Open(x)
    BY <1>2, <1>3, <1>4, <2>2 DEF Open
  <2>3. ASSUME \A x \in Workers : ~Open(x), NEW x \in Workers, Open(x)'
        PROVE  x = w
    BY <1>3, <1>4, <2>3 DEF Open
  <2>4. (job[w].count = CountBy(job[w].op, job[w].put))'
    BY <1>2, <1>4 DEF CountBy, Counted, After, rows
  <2>5. QED
    BY <2>2, <2>3, <2>4 DEF AloneCounts
<1>10. CountSettles' /\ AskersAreOut'
  BY <1>4 DEF GroupInv, CountSettles, Members, AskersAreOut, rows, histories
<1>11. QED
  BY <1>4, <1>5, <1>6, <1>7, <1>8, <1>9, <1>10 DEF GroupInv, GroupTypeOK, rows

LEMMA CommitStep ==
  ASSUME GroupInv, NEW w \in Workers, Commit(w)
  PROVE  GroupInv'
<1> DEFINE j == job[w]
           next == [j EXCEPT !.pc = "cache", !.put = Keep, !.count = 0]
<1>t. /\ job \in [Workers -> Calls] /\ j \in Calls /\ j.put \in Puts
      /\ role \in [Users -> Roles \cup {"none"}]
  BY DEF GroupInv, GroupTypeOK, Calls
<1>1. next \in Calls /\ next.pc = "cache" /\ next.op = j.op /\ next.user = j.user
  BY <1>t, KeepIsPut DEF Calls
<1>2. /\ j.pc = "commit" /\ role' = After(j.put)
      /\ job' = [job EXCEPT ![w] = IF j.op \in Caching THEN next ELSE Idle]
  BY DEF Commit, Open
<1> HIDE DEF next
<1>3. /\ \A v \in Workers : v # w => job'[v] = job[v]
      /\ job'[w] \in Calls /\ job'[w].pc \in {"cache", "idle"}
      /\ job' \in [Workers -> Calls]
      /\ job'[w].pc = "cache" => job'[w] = next
  BY <1>t, <1>1, <1>2, IdleIsCall
<1>4. CallsOK'
  BY <1>1, <1>2, <1>3 DEF GroupInv, CallsOK, CallOK
<1>5. /\ role' \in [Users -> Roles \cup {"none"}]
      /\ \A u \in Users : role'[u] = IF j.put[u] = "keep" THEN role[u] ELSE j.put[u]
  BY <1>2, <1>t DEF After, Puts
<1>6. \A v \in Workers : Open(v)' => Open(v) /\ job'[v] = job[v] /\ v # w
  BY <1>3 DEF Open
<1>7. PutsFit'
  <2>1. ASSUME NEW v \in Workers, Open(v)', NEW u \in Users, job[v].put[u] # "keep"
        PROVE  role'[u] = role[u]
    BY <1>2, <1>5, <1>6, <2>1 DEF GroupInv, LocksExclude, Open
  <2>2. "keep" # "none"
    OBVIOUS
  <2>3. QED
    BY <1>6, <2>1, <2>2 DEF GroupInv, PutsFit, Fits
<1>8. LocksExclude'
  BY <1>6 DEF GroupInv, LocksExclude
<1>9. AloneCounts'
  BY <1>2, <1>6 DEF GroupInv, AloneCounts, Open
<1>10. CountSettles'
  <2>1. CASE j.op = "role"
    <3>1. \A u \in Users : role'[u] = "none" <=> role[u] = "none"
      BY <1>2, <1>5, <2>1 DEF GroupInv, PutsFit, Fits, Open, Adders
    <3>2. UNCHANGED <<count, countOk>>
      BY <2>1 DEF Commit
    <3>3. Members' = Members
      BY <3>1 DEF Members
    <3>4. QED
      BY <3>2, <3>3 DEF GroupInv, CountSettles
  <2>2. CASE j.op # "role"
    <3>1. count' = j.count /\ countOk' = (j.alone /\ j.op # "approve")
      BY <2>2 DEF Commit
    <3>2. j.alone /\ j.op # "approve" => count' = Counted(j.put)
      BY <1>2, <3>1, CountByType DEF GroupInv, AloneCounts, Open
    <3>3. Cardinality(Members)' = Counted(j.put)
      BY <1>2 DEF Members, Counted
    <3>4. QED
      BY <3>1, <3>2, <3>3 DEF CountSettles
  <2>3. QED
    BY <2>1, <2>2
<1>11. request' \in [Users -> Requests] /\ AskersAreOut'
  <2>1. \A u \in Users : role[u] = "none" /\ role'[u] # "none" => j.op \in Adders /\ u = j.user
    BY <1>2, <1>5 DEF GroupInv, PutsFit, Fits, Open
  <2>2. CASE j.op = "approve"
    <3>1. Decide(j.user, j.seen, "approved") /\ j.user \in Users
      BY <1>2, <2>2 DEF Commit, GroupInv, CallsOK, CallOK
    <3>2. /\ request' \in [Users -> Requests] /\ raced \subseteq raced'
          /\ \A x \in Users : x # j.user => request'[x] = request[x]
          /\ j.user \notin raced' => request'[j.user].status = "approved"
      BY <3>1, DecideDecides DEF GroupInv
    <3>3. QED
      BY <2>1, <3>2 DEF GroupInv, AskersAreOut
  <2>3. CASE j.op \in {"add", "join"}
    <3>1. request' = request /\ raced' = raced \cup {j.user}
      BY <2>3 DEF Commit
    <3>2. QED
      BY <2>1, <3>1 DEF GroupInv, GroupTypeOK, AskersAreOut
  <2>4. CASE j.op \notin {"approve", "add", "join"}
    <3>1. request' = request /\ raced' = raced
      BY <2>4 DEF Commit
    <3>2. QED
      BY <2>1, <2>4, <3>1 DEF GroupInv, GroupTypeOK, AskersAreOut, Adders
  <2>5. QED
    BY <2>2, <2>3, <2>4
<1>12. QED
  BY <1>3, <1>4, <1>5, <1>7, <1>8, <1>9, <1>10, <1>11 DEF GroupInv, GroupTypeOK
LEMMA GroupStep ==
  ASSUME GroupInv, [Next]_vars
  PROVE  GroupInv'
<1>1. CASE SwitchApproval \/ UNCHANGED vars
  <2>1. UNCHANGED <<role, request, job, count, countOk, raced>>
    BY <1>1 DEF SwitchApproval, vars, rows, histories
  <2>2. \A w \in Workers : Open(w)' = Open(w) /\ CountBy(job[w].op, job[w].put)' = CountBy(job[w].op, job[w].put)
    BY <2>1 DEF Open, CountBy, Counted, After
  <2>3. GroupTypeOK' /\ CallsOK'
    BY <2>1 DEF GroupInv, GroupTypeOK, CallsOK, CallOK
  <2>4. PutsFit' /\ LocksExclude'
    BY <2>1, <2>2 DEF GroupInv, PutsFit, Fits, LocksExclude
  <2>5. AloneCounts' /\ CountSettles' /\ AskersAreOut'
    BY <2>1, <2>2 DEF GroupInv, AloneCounts, CountSettles, Members, AskersAreOut
  <2>6. QED
    BY <2>3, <2>4, <2>5 DEF GroupInv
<1>3. ASSUME NEW w \in Workers, Reads(w) PROVE GroupInv'
  BY <1>3, ReadsStart, StartedStep DEF GroupInv
<1>4. ASSUME NEW w \in Workers, Writes(w) PROVE GroupInv'
  <2>1. CASE Transactions(w)
    BY <2>1, TransactionsOpen, OpenedStep DEF GroupInv
  <2>2. QED
    BY <1>4, <2>1, PutRequestStep, RejectStep DEF Writes, Transactions
<1>5. QED
  BY <1>1, <1>3, <1>4, CommitStep, AnswerStep DEF Next

LEMMA GroupInitial == Init => GroupInv
<1> SUFFICES ASSUME Init
             PROVE  GroupInv
  OBVIOUS
<1>1. GroupTypeOK
  <2>1. role \in [Users -> Roles \cup {"none"}]
    BY DEF Init, Roles
  <2>2. NoRequest \in Requests
    BY DEF NoRequest, Requests
  <2>3. QED
    BY <2>1, <2>2, IdleIsCall DEF Init, GroupTypeOK
<1>2. \A w \in Workers : job[w].pc = "idle"
  BY IdleIsCall DEF Init
<1>3. CallsOK /\ PutsFit /\ LocksExclude /\ AloneCounts
  BY <1>2 DEF CallsOK, CallOK, PutsFit, LocksExclude, AloneCounts, Open
<1>4. CountSettles /\ AskersAreOut
  BY DEF Init, CountSettles, AskersAreOut, NoRequest
<1>5. QED
  BY <1>1, <1>3, <1>4 DEF GroupInv
-----------------------------------------------------------------------------
(* The cache.  Every cached user who is no member is a ghost or about to be *)
(* removed.                                                                *)
CacheTypeOK ==
  /\ inflight \subseteq [kind : {"added", "removed"}, user : Users, stale : BOOLEAN]
  /\ cache \subseteq Users
  /\ reader.users \subseteq Users
  /\ \A w \in Workers : job[w].pc = "cache" => job[w].op \in Caching /\ job[w].put = Keep

CachedExplained == \A u \in cache : role[u] # "none" \/ u \in ghosts \/ Coming(u)

(* Whoever is about to add somebody that has been removed knows: *)
AddersKnow ==
  \A w \in Workers : Adding(w) /\ w \notin late => WillBeIn(job[w].user, job[w].put)

EventsKnow ==
  \A e \in inflight : e.kind = "added" /\ ~e.stale => role[e.user] # "none"

ReaderKnows == \A u \in reader.users \ reader.stale : role[u] # "none"

CacheInv == CacheTypeOK /\ CachedExplained /\ AddersKnow /\ EventsKnow /\ ReaderKnows

(* A step that leaves the cache, the table and the coming removals. *)
LEMMA TableStep ==
  ASSUME GroupInv, CacheInv, NEW w \in Workers, Table(w)
  PROVE  CacheInv'
<1> USE DEF CacheInv
<1>t. job \in [Workers -> Calls] /\ role' = role
  <2>1. role' = role
    BY ReadsStart DEF Table, GroupInv, Started, rows, Writes, InsertMember, ApproveInsert,
       DeleteMember, LeaveWrites, UpdateRole, DeleteAll, Write, PutRequest, RejectWrite
  <2>2. QED
    BY <2>1 DEF GroupInv, GroupTypeOK
<1>1. UNCHANGED cacheVars
  BY DEF Table
<1>q. ASSUME \A v \in Workers : v # w =>
               /\ job'[v].op = job[v].op /\ job'[v].user = job[v].user
               /\ job'[v].pc = job[v].pc /\ job'[v].put = job[v].put,
             job[w].pc \in {"idle", "write"},
             job'[w].pc = "cache" => job'[w].op \in Caching /\ job'[w].put = Keep,
             job'[w].op \in Adders /\ job'[w].pc \in {"commit", "cache"}
               => WillBeIn(job'[w].user, job'[w].put)
      PROVE  CacheInv'
  <2>1. CacheTypeOK'
    BY <1>1, <1>q DEF CacheTypeOK, cacheVars
  <2>2. \A u : Coming(u) => Coming(u)'
    BY <1>1, <1>q DEF Coming, cacheVars
  <2>3. CachedExplained'
    BY <1>1, <1>t, <2>2 DEF CachedExplained, cacheVars
  <2>4. AddersKnow'
    BY <1>1, <1>t, <1>q DEF AddersKnow, Adding, WillBeIn, cacheVars
  <2>5. EventsKnow' /\ ReaderKnows'
    BY <1>1, <1>t DEF EventsKnow, ReaderKnows, cacheVars
  <2>6. QED
    BY <2>1, <2>3, <2>4, <2>5
<1>2. CASE Reads(w)
  <2>1. PICK j \in Calls : /\ job[w].pc = "idle" /\ job' = [job EXCEPT ![w] = j]
                           /\ j.pc \in {"write", "cache"} /\ j.put = Keep
                           /\ j.pc = "cache" => j.op = "join" /\ role[j.user] # "none"
    BY <1>2, ReadsStart DEF Started, GroupInv
  <2>2. job'[w] = j /\ \A v \in Workers : v # w => job'[v] = job[v]
    BY <1>t, <2>1, OneMoves
  <2>3. j.op \in Adders /\ j.pc \in {"commit", "cache"} => WillBeIn(j.user, j.put)
    BY <2>1 DEF WillBeIn
  <2>4. j.pc = "cache" => j.op \in Caching /\ j.put = Keep
    BY <2>1 DEF Caching
  <2>5. QED
    BY <1>q, <2>1, <2>2, <2>3, <2>4
<1>3. CASE Transactions(w)
  <2>1. PICK put \in Puts : /\ job[w].pc = "write" /\ Write(w, put)
                            /\ job[w].op \in Adders => WillBeIn(job[w].user, put)
    BY <1>3, TransactionsOpen DEF GroupInv, Opened
  <2> DEFINE j == [job[w] EXCEPT !.pc = "commit", !.put = put,
                               !.count = CountBy(job[w].op, put),
                                 !.alone = \A x \in Workers : ~Open(x)]
             k(v) == [job[v] EXCEPT !.alone = job[v].alone /\ ~Open(v)]
  <2>2. /\ j.pc = "commit" /\ j.put = put /\ j.op = job[w].op /\ j.user = job[w].user
        /\ \A v \in Workers : /\ k(v).op = job[v].op /\ k(v).user = job[v].user
                              /\ k(v).pc = job[v].pc /\ k(v).put = job[v].put
    BY <1>t DEF Calls
  <2>3. job' = [v \in Workers |-> IF v = w THEN j ELSE k(v)]
    <3>1. \A v \in Workers : job[v] \in Calls
      BY <1>t
    <3>2. QED
      BY <2>1, <3>1 DEF Write, Calls
  <2> HIDE DEF j, k
  <2>4. job'[w] = j /\ \A v \in Workers : v # w => job'[v] = k(v)
    BY <2>3
  <2>5. QED
    BY <1>q, <2>1, <2>2, <2>4
<1>4. CASE PutRequest(w) \/ RejectWrite(w)
  <2>1. job[w].pc = "write" /\ job' = [job EXCEPT ![w] = Idle]
    BY <1>4 DEF PutRequest, RejectWrite, At
  <2>2. job'[w] = Idle /\ \A v \in Workers : v # w => job'[v] = job[v]
    BY <1>t, <2>1, OneMoves
  <2>3. QED
    BY <1>q, <2>1, <2>2, IdleIsCall
<1>5. QED
  BY <1>2, <1>3, <1>4 DEF Table, Writes, Transactions

LEMMA CommitCacheStep ==
  ASSUME GroupInv, CacheInv, NEW w \in Workers, CommitAndAnnounce(w)
  PROVE  CacheInv'
<1> USE DEF CacheInv
<1> DEFINE j == job[w]
           gone == Deleted(w)
           next == [j EXCEPT !.pc = "cache", !.put = Keep, !.count = 0]
           aged(e) == [e EXCEPT !.stale = e.stale \/ (e.kind = "added" /\ e.user \in gone)]
<1>t. /\ job \in [Workers -> Calls] /\ j \in Calls /\ j.put \in Puts
      /\ role \in [Users -> Roles \cup {"none"}]
      /\ j.op # "disband" => j.user \in Users
      /\ j.pc = "commit"
  BY DEF GroupInv, GroupTypeOK, Calls, CallsOK, CallOK, CommitAndAnnounce, Commit, Open
<1>1. /\ Keep \in Puts /\ next.put = Keep
      /\ next.pc = "cache" /\ next.op = j.op /\ next.user = j.user
  BY <1>t, KeepIsPut DEF Calls
<1>2. /\ role' = After(j.put)
      /\ job' = [job EXCEPT ![w] = IF j.op \in Caching THEN next ELSE Idle]
  BY DEF CommitAndAnnounce, Commit
<1>a. /\ inflight' = {aged(e) : e \in inflight} \cup Announced(w)
      /\ late' = (late \ (IF j.op = "approve" THEN {w} ELSE {}))
                 \cup {v \in Workers : Adding(v) /\ job[v].user \in gone}
      /\ reader' = [reader EXCEPT !.stale = reader.stale \cup (reader.users \cap gone)]
      /\ ghosts' = IF j.op \in Removers THEN ghosts ELSE ghosts \cup (cache \cap gone)
      /\ cache' = cache
  BY DEF CommitAndAnnounce
<1>e. \A e \in inflight : /\ aged(e).kind = e.kind /\ aged(e).user = e.user
                          /\ aged(e).stale = (e.stale \/ (e.kind = "added" /\ e.user \in gone))
                          /\ aged(e) \in [kind : {"added", "removed"}, user : Users,
                                          stale : BOOLEAN]
  BY DEF CacheTypeOK
<1>g. \A u \in Users : u \in gone <=> j.put[u] = "none"
  BY DEF Deleted
<1> HIDE DEF next, aged, gone
<1>3. /\ \A v \in Workers : v # w => job'[v] = job[v]
      /\ \/ job'[w] = next /\ j.op \in Caching
         \/ job'[w] = Idle /\ j.op \notin Caching
  BY <1>t, <1>2, OneMoves
<1>4. \A u \in Users : role[u] # "none" /\ u \notin gone => role'[u] # "none"
  BY <1>t, <1>2, <1>g DEF After, Puts
<1>5. \A u \in Users : j.put[u] \notin {"keep", "none"} => role'[u] # "none"
  BY <1>t, <1>2 DEF After, Puts
<1>6. j.op \in Adders => \A u \in Users : u \notin gone
  BY <1>t, <1>g DEF GroupInv, PutsFit, Fits, Open
<1>7. j.op \in Adders /\ w \notin late => role'[j.user] # "none"
  <2>1. ASSUME j.op \in Adders, w \notin late
        PROVE  WillBeIn(j.user, j.put) /\ j.user \in Users
    BY <1>t, <2>1 DEF AddersKnow, Adding, Adders
  <2>2. QED
    BY <1>4, <1>5, <1>6, <2>1 DEF WillBeIn
<1>8. CacheTypeOK'
  <2>1. Announced(w) \subseteq [kind : {"added", "removed"}, user : Users, stale : BOOLEAN]
    <3>1. j.op \in Adders \cup Removers => j.user \in Users
      BY <1>t DEF Adders, Removers
    <3>2. ASSUME NEW u \in Users, NEW b \in BOOLEAN
          PROVE  /\ Event("added", u, b) \in [kind : {"added", "removed"}, user : Users,
                                              stale : BOOLEAN]
                 /\ Event("removed", u, b) \in [kind : {"added", "removed"}, user : Users,
                                                stale : BOOLEAN]
      BY DEF Event
    <3>b. (w \in late) \in BOOLEAN /\ FALSE \in BOOLEAN
      OBVIOUS
    <3> DEFINE added == Event("added", j.user, w \in late)
               removed == Event("removed", j.user, FALSE)
    <3>3. j.op \in Adders \cup Removers
            => {added, removed} \subseteq [kind : {"added", "removed"}, user : Users,
                                         stale : BOOLEAN]
      BY <3>1, <3>2, <3>b, Zenon
    <3> HIDE DEF added, removed
    <3>4. Announced(w) = IF j.op \in Adders THEN {added}
                         ELSE IF j.op \in Removers THEN {removed} ELSE {}
      BY DEF Announced, added, removed
    <3>5. QED
      BY <3>3, <3>4
  <2>2. inflight' \subseteq [kind : {"added", "removed"}, user : Users, stale : BOOLEAN]
    BY <1>a, <1>e, <2>1
  <2>3. reader'.users \subseteq Users
    BY <1>a DEF CacheTypeOK
  <2>4. \A v \in Workers : job'[v].pc = "cache" => job'[v].op \in Caching /\ job'[v].put = Keep
    BY <1>1, <1>3, IdleIsCall DEF CacheTypeOK
  <2>5. QED
    BY <1>a, <2>2, <2>3, <2>4 DEF CacheTypeOK
<1>9. \A u \in Users : Coming(u) => Coming(u)'
  <2>1. ASSUME NEW u \in Users, NEW e \in inflight, e.kind = "removed", e.user = u
        PROVE  Coming(u)'
    BY <1>a, <1>e, <2>1 DEF Coming
  <2>2. ASSUME NEW u \in Users, NEW v \in Workers, job[v].pc \in {"commit", "cache"},
               job[v].op \in Removers, job[v].user = u
        PROVE  Coming(u)'
    BY <1>1, <1>3, <2>2 DEF Coming, Removers, Caching
  <2>3. QED
    BY <2>1, <2>2 DEF Coming
<1>10. CachedExplained'
  <2> SUFFICES ASSUME NEW u \in cache, role'[u] = "none", u \notin ghosts'
               PROVE  Coming(u)'
    BY <1>a DEF CachedExplained
  <2>1. u \in Users /\ (role[u] # "none" \/ u \in ghosts \/ Coming(u))
    BY DEF CacheTypeOK, CachedExplained
  <2>2. CASE role[u] # "none"
    <3>1. u \in gone /\ j.op \in Removers
      BY <1>4, <1>a, <2>1, <2>2
    <3>2. u = j.user
      BY <1>g, <1>t, <2>1, <3>1 DEF GroupInv, PutsFit, Fits, Open
    <3>3. Event("removed", u, FALSE) \in inflight'
      BY <1>a, <3>1, <3>2 DEF Announced, Removers, Adders
    <3>4. QED
      BY <3>3 DEF Coming, Event
  <2>3. QED
    BY <1>9, <1>a, <2>1, <2>2
<1>11. AddersKnow'
  <2> SUFFICES ASSUME NEW v \in Workers, Adding(v)', v \notin late'
               PROVE  WillBeIn(job[v].user, job[v].put)'
    BY DEF AddersKnow
  <2>1. CASE v = w
    <3>1. job'[w] = next /\ j.op \in {"add", "join"} /\ job'[w].user = j.user
      BY <1>1, <1>3, <2>1, IdleIsCall DEF Adding, Adders, Caching
    <3>2. w \notin late
      BY <1>a, <2>1, <3>1
    <3>3. QED
      BY <1>7, <2>1, <3>1, <3>2 DEF WillBeIn, Adders
  <2>2. CASE v # w
    <3>1. Adding(v) /\ v \notin late /\ job[v].user \notin gone /\ job'[v] = job[v]
      BY <1>3, <1>a, <2>2 DEF Adding
    <3>2. job[v].user \in Users
      BY <3>1 DEF Adding, Adders, GroupInv, CallsOK, CallOK
    <3>3. QED
      BY <1>4, <3>1, <3>2 DEF AddersKnow, WillBeIn
  <2>3. QED
    BY <2>1, <2>2
<1>12. EventsKnow'
  <2> SUFFICES ASSUME NEW f \in inflight', f.kind = "added", ~f.stale
               PROVE  role'[f.user] # "none"
    BY DEF EventsKnow
  <2>1. CASE f \in Announced(w)
    <3>1. j.op \in Adders /\ f = [kind |-> "added", user |-> j.user, stale |-> w \in late]
      BY <2>1 DEF Announced, Event
    <3>3. f.user = j.user /\ w \notin late
      BY <3>1
    <3>2. QED
      BY <1>7, <3>1, <3>3
  <2>2. ASSUME NEW e \in inflight, f = aged(e) PROVE role'[f.user] # "none"
    <3>1. e.kind = "added" /\ ~e.stale /\ e.user \notin gone /\ e.user \in Users
      BY <1>e, <2>2 DEF CacheTypeOK
    <3>2. QED
      BY <1>4, <1>e, <2>2, <3>1 DEF EventsKnow
  <2>3. QED
    BY <1>a, <2>1, <2>2
<1>13. ReaderKnows'
  <2>1. \A u \in reader'.users \ reader'.stale : u \in reader.users \ reader.stale /\ u \notin gone
    BY <1>a DEF CacheTypeOK
  <2>2. QED
    BY <1>4, <2>1 DEF ReaderKnows, CacheTypeOK
<1>14. QED
  BY <1>8, <1>10, <1>11, <1>12, <1>13
(* An addition to the SET and a removal from it, before the events and the *)
(* handlers change.                                                        *)
LEMMA AddExplained ==
  ASSUME CacheTypeOK, CachedExplained, NEW u \in Users, NEW stale \in BOOLEAN,
         Add(u, stale), stale \/ role[u] # "none"
  PROVE  /\ cache' \subseteq Users
         /\ \A x \in cache' : role[x] # "none" \/ x \in ghosts' \/ Coming(x)
BY DEF Add, CacheTypeOK, CachedExplained

LEMMA RemoveExplained ==
  ASSUME CacheTypeOK, CachedExplained, NEW u \in Users,
         Remove(u) \/ RemoveFails(u)
  PROVE  /\ cache' \subseteq Users
         /\ \A x \in cache' : role[x] # "none" \/ x \in ghosts' \/ (x # u /\ Coming(x))
BY DEF Remove, RemoveFails, CacheTypeOK, CachedExplained

LEMMA WriteThroughStep ==
  ASSUME GroupInv, CacheInv, NEW w \in Workers, WriteThrough(w)
  PROVE  CacheInv'
<1> USE DEF CacheInv
<1> DEFINE u == job[w].user
<1>t. /\ job \in [Workers -> Calls] /\ job[w].pc = "cache" /\ job' = [job EXCEPT ![w] = Idle]
      /\ UNCHANGED <<role, inflight, reader>> /\ late' = late \ {w}
  BY DEF WriteThrough, Answer, GroupInv, GroupTypeOK, rows
<1>1. job'[w] = Idle /\ \A v \in Workers : v # w => job'[v] = job[v]
  BY <1>t, OneMoves
<1>2. job[w].op \in Caching /\ u \in Users
  BY <1>t DEF CacheTypeOK, Caching, GroupInv, CallsOK, CallOK
<1>3. \A x \in Users : Coming(x) /\ (x # u \/ job[w].op \notin Removers) => Coming(x)'
  BY <1>t, <1>1 DEF Coming
<1>4. cache' \subseteq Users /\ CachedExplained'
  <2>1. CASE job[w].op \in Removers
    <3>1. Remove(u) \/ RemoveFails(u)
      BY <2>1 DEF WriteThrough
    <3>2. /\ cache' \subseteq Users
          /\ \A x \in cache' : role[x] # "none" \/ x \in ghosts' \/ (x # u /\ Coming(x))
      BY <1>2, <3>1, RemoveExplained
    <3>3. QED
      BY <1>3, <1>t, <3>2 DEF CachedExplained
  <2>2. CASE job[w].op \notin Removers
    <3>1. job[w].op \in Adders
      BY <1>2, <2>2 DEF Caching, Removers, Adders
    <3>2. Add(u, w \in late) \/ AddFails
      BY <2>2 DEF WriteThrough
    <3>3. w \in late \/ role[u] # "none"
      <4>1. job[w].put[u] = "keep"
        BY <1>2, <1>t, KeepIsPut DEF CacheTypeOK
      <4>2. QED
        BY <1>t, <3>1, <4>1 DEF AddersKnow, Adding, WillBeIn
    <3>4. CASE AddFails
      BY <1>3, <1>t, <2>2, <3>4 DEF AddFails, CacheTypeOK, CachedExplained
    <3>5. ASSUME Add(u, w \in late)
          PROVE  /\ cache' \subseteq Users
                 /\ \A x \in cache' : role[x] # "none" \/ x \in ghosts' \/ Coming(x)
      <4>1. (w \in late) \in BOOLEAN
        OBVIOUS
      <4>2. QED
        BY <1>2, <3>3, <3>5, <4>1, AddExplained, Zenon
    <3>6. CASE Add(u, w \in late)
      BY <1>3, <1>t, <2>2, <3>5, <3>6 DEF CachedExplained
    <3>7. QED
      BY <3>2, <3>4, <3>6
  <2>3. QED
    BY <2>1, <2>2
<1>5. CacheTypeOK'
  BY <1>1, <1>4, <1>t, IdleIsCall DEF CacheTypeOK
<1>6. AddersKnow'
  BY <1>1, <1>t, IdleIsCall DEF AddersKnow, Adding, WillBeIn
<1>7. EventsKnow' /\ ReaderKnows'
  BY <1>t DEF EventsKnow, ReaderKnows
<1>8. QED
  BY <1>4, <1>5, <1>6, <1>7

LEMMA ConsumeStep ==
  ASSUME CacheInv, NEW e \in inflight, ConsumeAdded(e) \/ ConsumeRemoved(e)
  PROVE  CacheInv'
<1> USE DEF CacheInv
<1>t. /\ e.user \in Users /\ e.stale \in BOOLEAN
      /\ UNCHANGED <<role, job, reader, late>>
      /\ inflight' \in {inflight, inflight \ {e}}
  BY DEF CacheTypeOK, ConsumeAdded, ConsumeRemoved, vars, rows
<1>1. cache' \subseteq Users /\ CachedExplained'
  <2>1. CASE ConsumeAdded(e)
    <3>1. \A x : Coming(x) => Coming(x)'
      BY <1>t, <2>1 DEF ConsumeAdded, Coming
    <3>2. e.stale \/ role[e.user] # "none"
      BY <2>1 DEF ConsumeAdded, EventsKnow
    <3>3. CASE AddFails
      BY <1>t, <3>1, <3>3 DEF AddFails, CacheTypeOK, CachedExplained
    <3>4. CASE Add(e.user, e.stale)
      <4>1. /\ cache' \subseteq Users
            /\ \A x \in cache' : role[x] # "none" \/ x \in ghosts' \/ Coming(x)
        BY <1>t, <3>2, <3>4, AddExplained
      <4>2. QED
        BY <1>t, <3>1, <4>1 DEF CachedExplained
    <3>5. QED
      BY <2>1, <3>3, <3>4 DEF ConsumeAdded
  <2>2. CASE ConsumeRemoved(e)
    <3>1. \A x : x # e.user /\ Coming(x) => Coming(x)'
      BY <1>t DEF Coming
    <3>2. Remove(e.user) \/ RemoveFails(e.user)
      BY <2>2 DEF ConsumeRemoved
    <3>3. /\ cache' \subseteq Users
          /\ \A x \in cache' : \/ role[x] # "none" \/ x \in ghosts'
                               \/ x # e.user /\ Coming(x)
      BY <1>t, <3>2, RemoveExplained
    <3>4. QED
      BY <1>t, <3>1, <3>3 DEF CachedExplained
  <2>3. QED
    BY <2>1, <2>2
<1>2. CacheTypeOK'
  BY <1>1, <1>t DEF CacheTypeOK
<1>3. AddersKnow' /\ EventsKnow' /\ ReaderKnows'
  BY <1>t DEF AddersKnow, Adding, WillBeIn, EventsKnow, ReaderKnows
<1>4. QED
  BY <1>1, <1>2, <1>3

LEMMA ReaderStep ==
  ASSUME CacheInv, \/ FetchAll \/ LookUp
                   \/ Replace \/ Warm \/ WriteFails \/ Expire
  PROVE  CacheInv'
<1> USE DEF CacheInv
<1>t. UNCHANGED <<role, job, inflight, late>>
  BY DEF FetchAll, LookUp, FetchMembers, Replace, Warm, WriteFails, Expire, vars, rows
<1>c. \A u : Coming(u)' = Coming(u)
  BY <1>t DEF Coming
<1>1. AddersKnow' /\ EventsKnow'
  BY <1>t DEF AddersKnow, Adding, WillBeIn, EventsKnow
<1>2. reader'.users \subseteq Users /\ ReaderKnows'
  <2>1. CASE FetchAll \/ LookUp
    BY <1>t, <2>1 DEF FetchAll, LookUp, FetchMembers, Reader, Members, ReaderKnows
  <2>2. CASE Replace \/ Warm \/ WriteFails
    BY <2>2 DEF Replace, Warm, WriteFails, NoReader, ReaderKnows
  <2>3. CASE Expire
    BY <1>t, <2>3 DEF Expire, CacheTypeOK, ReaderKnows
  <2>4. QED
    BY <2>1, <2>2, <2>3
<1>3. cache' \subseteq Users /\ CachedExplained'
  <2>1. CASE FetchAll \/ LookUp \/ WriteFails
    BY <1>t, <1>c, <2>1 DEF FetchAll, LookUp, FetchMembers, WriteFails, CacheTypeOK,
       CachedExplained
  <2>r. \A u \in reader.users : role[u] # "none" \/ u \in Left \/ Coming(u)
    BY DEF ReaderKnows, Left
  <2>2. CASE Replace
    BY <1>t, <1>c, <2>r, <2>2 DEF Replace, CacheTypeOK, CachedExplained
  <2>3. CASE Warm
    BY <1>t, <1>c, <2>r, <2>3 DEF Warm, CacheTypeOK, CachedExplained
  <2>4. CASE Expire
    BY <2>4 DEF Expire, CachedExplained
  <2>5. QED
    BY <2>1, <2>2, <2>3, <2>4
<1>4. CacheTypeOK'
  BY <1>2, <1>3, <1>t DEF CacheTypeOK
<1>5. QED
  BY <1>1, <1>2, <1>3, <1>4

-----------------------------------------------------------------------------
LEMMA GroupCacheInvariant == GSpec => [](GroupInv /\ CacheInv)
<1>1. GInit => GroupInv /\ CacheInv
  <2> SUFFICES ASSUME GInit
               PROVE  GroupInv /\ CacheInv
    OBVIOUS
  <2>1. GroupInv
    BY GroupInitial DEF GInit
  <2>2. \A w \in Workers : job[w].pc = "idle"
    BY IdleIsCall DEF GInit, Init
  <2>3. /\ cache \subseteq Members /\ inflight = {}
        /\ reader.users \subseteq Members /\ reader.stale = {}
    BY DEF GInit, NoReader, Reader
  <2>4. CacheInv
    BY <2>2, <2>3 DEF CacheInv, CacheTypeOK, CachedExplained, AddersKnow, Adding,
       EventsKnow, ReaderKnows, NoReader, Members
  <2>5. QED
    BY <2>1, <2>4
<1>2. ASSUME GroupInv, CacheInv, [GNext]_gvars
      PROVE  GroupInv' /\ CacheInv'
  <2>1. [Next]_vars
    BY <1>2 DEF GNext, Next, Table, CommitAndAnnounce, WriteThrough, ConsumeAdded,
       ConsumeRemoved, FetchAll, LookUp, FetchMembers, Replace, Warm, WriteFails, Expire,
       gvars
  <2>2. GroupInv'
    BY <1>2, <2>1, GroupStep
  <2>3. ASSUME (SwitchApproval /\ UNCHANGED cacheVars) \/ UNCHANGED gvars
        PROVE  CacheInv'
    <3>1. UNCHANGED <<role, job, cache, inflight, reader, late, ghosts>>
      BY <2>3 DEF SwitchApproval, cacheVars, gvars, vars, rows
    <3>2. \A u : Coming(u)' = Coming(u)
      BY <3>1 DEF Coming
    <3>3. CacheTypeOK' /\ CachedExplained'
      BY <1>2, <3>1, <3>2 DEF CacheInv, CacheTypeOK, CachedExplained
    <3>4. AddersKnow'
      <4>1. \A w : Adding(w)' = Adding(w)
        BY <3>1 DEF Adding
      <4>2. \A w : WillBeIn(job[w].user, job[w].put)' = WillBeIn(job[w].user, job[w].put)
        BY <3>1 DEF WillBeIn
      <4>3. QED
        BY <1>2, <3>1, <4>1, <4>2 DEF CacheInv, AddersKnow
    <3>5. EventsKnow'
      BY <1>2, <3>1 DEF CacheInv, EventsKnow
    <3>6. ReaderKnows'
      BY <1>2, <3>1 DEF CacheInv, ReaderKnows
    <3>7. QED
      BY <3>3, <3>4, <3>5, <3>6 DEF CacheInv
  <2>4. CacheInv'
    BY <1>2, <2>3, TableStep, CommitCacheStep, WriteThroughStep, ConsumeStep, ReaderStep
       DEF GNext
  <2>5. QED
    BY <2>2, <2>4
<1>3. QED
  BY <1>1, <1>2, PTL DEF GSpec

(* member_count is right whenever the last transaction that wrote it was   *)
(* alone and no approval, whatever the calls had read before.              *)
THEOREM GroupCountSettles == GSpec => []CountSettles
<1>1. GroupInv => CountSettles
  BY DEF GroupInv
<1>2. QED
  BY GroupCacheInvariant, <1>1, PTL

(* A rejected user is no member, but for the races the property names.     *)
THEOREM GroupRejectedStaysOut == GSpec => []RejectedStaysOut
<1>1. GroupInv => RejectedStaysOut
  BY DEF GroupInv, AskersAreOut, RejectedStaysOut
<1>2. QED
  BY GroupCacheInvariant, <1>1, PTL

(* At rest, the cached users who are no members are the ones that were     *)
(* kicked, disbanded, added late or not removed by Redis.                  *)
THEOREM GroupCachedAreMembers == GSpec => []CachedAreMembers
<1>1. ASSUME CacheInv, Quiet
      PROVE  cache \subseteq Members \cup ghosts
  <2>1. \A u : ~Coming(u)
    BY <1>1 DEF Quiet, Coming
  <2>2. QED
    BY <1>1, <2>1 DEF CacheInv, CacheTypeOK, CachedExplained, Members
<1>2. CacheInv => CachedAreMembers
  BY <1>1 DEF CachedAreMembers
<1>3. QED
  BY GroupCacheInvariant, <1>2, PTL
=============================================================================
