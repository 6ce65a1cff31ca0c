-------------------------------- MODULE Groups --------------------------------
(***************************************************************************)
(* The members of one group conversation and the requests to join it:      *)
(* ConversationService, GroupMemberService and GroupJoinRequestService.    *)
(* A handler reads, then writes in a READ COMMITTED transaction.  Its      *)
(* steps: the reads; the writes, which lock their rows and end with a      *)
(* count of the rows the transaction can see; the commit.                  *)
(*                                                                         *)
(* A call has one target; the code takes lists and treats each alike.  Who *)
(* may call is kept where a handler checks it.                             *)
(***************************************************************************)
EXTENDS Naturals, FiniteSets

CONSTANTS
  Users,
  NoUser,     \* of a worker without a call
  Workers,    \* concurrent handlers of all instances of the service
  Conversations,  \* how many conversations there are, this one included
  MaxJobs     \* bound of the model: calls ever taken up

ASSUME GroupsAssumption ==
  /\ IsFiniteSet(Users) /\ NoUser \notin Users
  /\ Conversations \in Nat \ {0} /\ MaxJobs \in Nat

Roles == {"member", "admin", "owner"}
Ops == {"add", "join", "invite", "request", "approve", "reject",
        "remove", "kick", "leave", "role", "disband"}

VARIABLES
  role,       \* conversation_members: the role of a user, "none" without row
  count,      \* conversations.member_count
  approval,   \* conversations.joinApprovalRequired
  request,    \* group_join_requests: the row of a user, or NoRequest
  job,        \* job[w]: the call a worker is at, and where
  jobs,       \* calls so far
  countOk,    \* history: the last transaction to write the count was alone,
              \* and no approval
  raced       \* history: see RejectedStaysOut

rows == <<role, count, approval, request>>
histories == <<countOk, raced>>
vars == <<rows, job, jobs, histories>>

NoRequest == [status |-> "none", id |-> 0]
Keep == [u \in Users |-> "keep"]
Idle == [op |-> "add", user |-> NoUser, heir |-> NoUser, role |-> "none",
         pc |-> "idle", seen |-> NoRequest, put |-> Keep, count |-> 0, alone |-> TRUE]

Members == {u \in Users : role[u] # "none"}
Admins == {u \in Users : role[u] \in {"admin", "owner"}}

\* createConversation: the creator owns the group.
Init ==
  /\ \E owner \in Users, others \in SUBSET Users :
       role = [u \in Users |-> CASE u = owner -> "owner"
                                 [] u \in others -> "member"
                                 [] OTHER -> "none"]
  /\ count = Cardinality(Members)
  /\ approval \in BOOLEAN
  /\ request = [u \in Users |-> NoRequest]
  /\ job = [w \in Workers |-> Idle]
  /\ jobs = 0
  /\ countOk = TRUE /\ raced = {}

-----------------------------------------------------------------------------
(* The reads.  A call they refuse changes nothing and is left out.         *)

Start(w, op, u, label, heir, newRole, seen) ==
  /\ job[w].pc = "idle" /\ jobs < MaxJobs
  /\ jobs' = jobs + 1
  /\ job' = [job EXCEPT ![w] = [Idle EXCEPT !.op = op, !.user = u, !.pc = label,
                                            !.heir = heir, !.role = newRole, !.seen = seen]]
  /\ UNCHANGED <<rows, histories>>

Call(w, op, u) == Start(w, op, u, "write", NoUser, "none", NoRequest)

\* addMembers by some member: with approval an invitation, else a new row.
AddReads(w, u) ==
  /\ Members # {}
  /\ IF ~approval THEN Call(w, "add", u)
     ELSE /\ role[u] = "none" /\ request[u].status # "pending"
          /\ Start(w, "invite", u, "write", NoUser, "none", request[u])

\* joinViaToken without approval, selfJoin: a member gets no second row, but
\* the cache is written all the same.
JoinReads(w, u) ==
  /\ ~approval
  /\ Start(w, "join", u, IF role[u] = "none" THEN "write" ELSE "cache",
           NoUser, "none", NoRequest)

\* requestJoin, directly or by joinViaToken.
RequestReads(w, u) ==
  /\ role[u] = "none" /\ request[u].status # "pending"
  /\ Start(w, "request", u, "write", NoUser, "none", request[u])

\* Mutant: a request may be reviewed again.
ReviewableAgain(u) == request[u].status # "none"

Reviewable(u) == request[u].status = "pending"

\* reviewJoinRequest, by an owner or admin; the request is known by its id.
ReviewReads(w, u, op) ==
  /\ Reviewable(u) /\ Admins # {}
  /\ Start(w, op, u, "write", NoUser, "none", request[u])

RemoveReads(w, u) == Admins # {} /\ Call(w, "remove", u)

KickReads(w, u) == role[u] \notin {"none", "owner"} /\ Call(w, "kick", u)

\* leaveConversation: an owner names another member as the next one.
LeaveReads(w, u) ==
  /\ role[u] # "none"
  /\ IF role[u] = "owner"
     THEN \E v \in Members \ {u} : Start(w, "leave", u, "write", v, "owner", NoRequest)
     ELSE Start(w, "leave", u, "write", NoUser, role[u], NoRequest)

\* setMemberRole by some member.
RoleReads(w, u) ==
  /\ role[u] # "none"
  /\ \E r \in Roles : Start(w, "role", u, "write", NoUser, r, NoRequest)

DisbandReads(w) == Call(w, "disband", NoUser)

Reads(w) ==
  \/ \E u \in Users :
       \/ AddReads(w, u) \/ JoinReads(w, u) \/ RequestReads(w, u)
       \/ \E op \in {"approve", "reject"} : ReviewReads(w, u, op)
       \/ RemoveReads(w, u) \/ KickReads(w, u) \/ LeaveReads(w, u) \/ RoleReads(w, u)
  \/ DisbandReads(w)

-----------------------------------------------------------------------------
(* The writes.                                                             *)

Open(w) == job[w].pc = "commit"
Locked(u) == \E v \in Workers : Open(v) /\ job[v].put[u] # "keep"
Reviewing(u) == \E v \in Workers : Open(v) /\ job[v].op = "approve" /\ job[v].user = u

At(w, ops) == job[w].op \in ops /\ job[w].pc = "write"

\* INSERT ... ON CONFLICT DO NOTHING waits for whoever has the row locked.
InsertRow(u) == IF role[u] = "none" THEN [Keep EXCEPT ![u] = "member"] ELSE Keep
DeleteRow(u) == IF role[u] = "none" THEN Keep ELSE [Keep EXCEPT ![u] = "none"]
UpdateRow(u, r) == IF role[u] = "none" THEN Keep ELSE [Keep EXCEPT ![u] = r]

After(put) == [u \in Users |-> IF put[u] = "keep" THEN role[u] ELSE put[u]]

\* Mutant: the rows are counted before they are written.
CountedBefore(put) == Cardinality(Members)

\* The count of a transaction sees its own writes and what is committed.
Counted(put) == Cardinality({u \in Users : After(put)[u] # "none"})

\* The query of an approval starts from the repository of conversations and is
\* given conversation_members besides: it counts the pairs of the two tables.
CountBy(op, put) ==
  IF op = "approve" THEN Conversations * Counted(put) ELSE Counted(put)

Write(w, put) ==
  /\ \A u \in Users : put[u] # "keep" => ~Locked(u)
  /\ job' = [v \in Workers |->
       IF v = w
       THEN [job[w] EXCEPT !.pc = "commit", !.put = put,
                           !.count = CountBy(job[w].op, put),
                           !.alone = \A x \in Workers : ~Open(x)]
       ELSE [job[v] EXCEPT !.alone = @ /\ ~Open(v)]]
  /\ UNCHANGED <<rows, jobs, histories>>

InsertMember(w) ==
  /\ At(w, {"add", "join"}) /\ ~Locked(job[w].user)
  /\ Write(w, InsertRow(job[w].user))

\* The request's row is updated first; its new status is part of Commit.
ApproveInsert(w) ==
  /\ At(w, {"approve"}) /\ ~Locked(job[w].user) /\ ~Reviewing(job[w].user)
  /\ Write(w, InsertRow(job[w].user))

DeleteMember(w) == At(w, {"remove", "kick"}) /\ Write(w, DeleteRow(job[w].user))

\* An heir who is no longer there is not noticed.
LeaveWrites(w) ==
  LET u == job[w].user
      h == job[w].heir
      put == IF h \in Users
             THEN [UpdateRow(h, "owner") EXCEPT ![u] = DeleteRow(u)[u]]
             ELSE DeleteRow(u)
  IN  At(w, {"leave"}) /\ Write(w, put)

UpdateRole(w) == At(w, {"role"}) /\ Write(w, UpdateRow(job[w].user, job[w].role))

DeleteAll(w) ==
  /\ At(w, {"disband"})
  /\ Write(w, [u \in Users |-> IF u \in Members THEN "none" ELSE "keep"])

\* These have nothing to count: they write and commit at once.

\* requestJoin deletes the row, whatever it is now, and inserts; an invitation
\* that had seen no row fails on the unique key of one that has come.
PutRequest(w) ==
  LET u == job[w].user
      blocked == job[w].op = "invite" /\ job[w].seen = NoRequest /\ request[u] # NoRequest
  IN
  /\ At(w, {"request", "invite"}) /\ ~Reviewing(u)
  /\ IF blocked
     THEN UNCHANGED <<request, raced>>
     ELSE /\ request' = [request EXCEPT ![u] = [status |-> "pending", id |-> @.id + 1]]
          /\ raced' = IF request[u] # job[w].seen \/ role[u] # "none"
                      THEN raced \cup {u} ELSE raced
  /\ job' = [job EXCEPT ![w] = Idle]
  /\ UNCHANGED <<role, count, approval, jobs, countOk>>

\* UPDATE by the id of the request, whatever its status is now.
Decide(u, seen, status) ==
  /\ request' = IF request[u].id = seen.id
                THEN [request EXCEPT ![u].status = status] ELSE request
  /\ raced' = IF request[u] # seen THEN raced \cup {u} ELSE raced

RejectWrite(w) ==
  /\ At(w, {"reject"}) /\ ~Reviewing(job[w].user)
  /\ Decide(job[w].user, job[w].seen, "rejected")
  /\ job' = [job EXCEPT ![w] = Idle]
  /\ UNCHANGED <<role, count, approval, jobs, countOk>>

\* updateGroupSettings.
SwitchApproval ==
  /\ jobs < MaxJobs /\ jobs' = jobs + 1
  /\ approval' = ~approval
  /\ UNCHANGED <<role, count, request, job, histories>>

Writes(w) ==
  \/ InsertMember(w) \/ ApproveInsert(w) \/ DeleteMember(w) \/ LeaveWrites(w)
  \/ UpdateRole(w) \/ DeleteAll(w) \/ PutRequest(w) \/ RejectWrite(w)

-----------------------------------------------------------------------------
\* Handlers that write the Redis SET after their transaction.
Caching == {"add", "join", "remove", "leave"}

\* UPDATE conversations, the outbox rows, COMMIT.
Commit(w) ==
  LET j == job[w] IN
  /\ Open(w)
  /\ role' = After(j.put)
  /\ IF j.op = "role" THEN UNCHANGED <<count, countOk>>
     ELSE count' = j.count /\ countOk' = (j.alone /\ j.op # "approve")
  /\ CASE j.op = "approve" -> Decide(j.user, j.seen, "approved")
       [] j.op \in {"add", "join"} -> raced' = raced \cup {j.user} /\ UNCHANGED request
       [] OTHER -> UNCHANGED <<request, raced>>
  /\ job' = [job EXCEPT ![w] = IF j.op \in Caching
                               THEN [j EXCEPT !.pc = "cache", !.put = Keep, !.count = 0]
                               ELSE Idle]
  /\ UNCHANGED <<approval, jobs>>

\* The pipeline on the cached members, see GroupCache.
Answer(w) ==
  /\ job[w].pc = "cache"
  /\ job' = [job EXCEPT ![w] = Idle]
  /\ UNCHANGED <<rows, jobs, histories>>

Next ==
  \/ \E w \in Workers : Reads(w) \/ Writes(w) \/ Commit(w) \/ Answer(w)
  \/ SwitchApproval

Spec == Init /\ [][Next]_vars

-----------------------------------------------------------------------------
\* member_count is the number of members, whatever the calls had read before
\* and however wrong it was, as soon as a membership transaction commits that
\* no other one overlapped.  Two that overlap do not see each other's row when
\* they count, and an approval counts every member once per conversation of
\* the service: both leave a wrong number, until the next one.
CountSettles == countOk => count = Cardinality(Members)

\* A user whose request was rejected is not a member, through concurrent
\* requests, invitations, reviews and removals.  The exceptions (raced): a
\* second review or a new request took effect although the row was no longer
\* what its handler had read, or the user was added directly.
RejectedStaysOut ==
  \A u \in Users : request[u].status = "rejected" /\ u \notin raced
                     => role[u] = "none"
===============================================================================
