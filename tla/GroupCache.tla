------------------------------ MODULE GroupCache ------------------------------
(***************************************************************************)
(* The Redis SET chat:conv:members of the group of module Groups, and all  *)
(* who write it: the handlers after their commit, the consumers of         *)
(* member.added and member.removed in conversation-service and             *)
(* call-service, createConversation after its commit, message-store after  *)
(* each stored message, and those who add whom they looked up: the         *)
(* validators of chat-core and call-service and the gateway, when a user   *)
(* opens the conversation.  The role keys beside the SET are left out.     *)
(*                                                                         *)
(* The two topics are consumed independently, and Outbox may publish an    *)
(* event twice and out of order: an event in flight is taken at any time.  *)
(***************************************************************************)
EXTENDS Groups

CONSTANT MaxFaults    \* bound of the model: failing removals

ASSUME MaxFaultsAssumption == MaxFaults \in Nat

VARIABLES
  cache,      \* the SET; empty is the same as no key
  inflight,   \* events: "removed", "added", and whether a removal came after
  reader,     \* someone who has read the members and is about to write
  late,       \* workers whose added user has been removed since
  ghosts,     \* history: cached users nobody is going to remove
  faults

cacheVars == <<cache, inflight, reader, late, ghosts, faults>>
gvars == <<vars, cacheVars>>

NoReader == [pc |-> "idle", users |-> {}, stale |-> {}]
Reader(next, users) == [pc |-> next, users |-> users, stale |-> {}]

\* The group has just been created, and its members are yet to be cached; or it
\* is older, and they are cached or expired.
GInit ==
  /\ Init
  /\ \/ cache \in {{}, Members} /\ reader = NoReader
     \/ cache = {} /\ reader = Reader("warm", Members)
  /\ inflight = {} /\ late = {}
  /\ ghosts = {} /\ faults = 0

-----------------------------------------------------------------------------
Adders == {"add", "join", "approve"}
Removers == {"remove", "leave"}

Event(kind, u, stale) == [kind |-> kind, user |-> u, stale |-> stale]

\* A removal of u from the SET is still to come.
Coming(u) ==
  \/ \E e \in inflight : e.kind = "removed" /\ e.user = u
  \/ \E w \in Workers : /\ job[w].pc \in {"commit", "cache"}
                        /\ job[w].op \in Removers /\ job[w].user = u

\* The users whose row is deleted by a commit; whoever is about to add one of
\* them to the SET is late.
Deleted(w) == {u \in Users : job[w].put[u] = "none"}
Adding(w) == job[w].op \in Adders /\ job[w].pc \in {"commit", "cache"}

Announced(w) ==
  IF job[w].op \in Adders THEN {Event("added", job[w].user, w \in late)}
  ELSE IF job[w].op \in Removers THEN {Event("removed", job[w].user, FALSE)} ELSE {}

\* member.added and member.removed; a kick and a disbanded group emit neither
\* and leave the SET alone.
CommitAndAnnounce(w) ==
  LET gone == Deleted(w) IN
  /\ Commit(w)
  /\ inflight' = {[e EXCEPT !.stale = @ \/ (e.kind = "added" /\ e.user \in gone)] : e \in inflight}
                 \cup Announced(w)
  /\ late' = (late \ (IF job[w].op = "approve" THEN {w} ELSE {}))
             \cup {v \in Workers : Adding(v) /\ job[v].user \in gone}
  /\ reader' = [reader EXCEPT !.stale = @ \cup (reader.users \cap gone)]
  /\ ghosts' = IF job[w].op \in Removers THEN ghosts ELSE ghosts \cup (cache \cap gone)
  /\ UNCHANGED <<cache, faults>>

\* SADD, by whoever does it; one that comes after the removal stays.
Add(u, stale) ==
  /\ cache' = cache \cup {u}
  /\ ghosts' = IF stale /\ ~Coming(u) THEN ghosts \cup {u} ELSE ghosts

Remove(u) == cache' = cache \ {u} /\ ghosts' = ghosts \ {u}

\* A command that fails is only logged.
AddFails == UNCHANGED <<cache, ghosts>>
RemoveFails(u) ==
  /\ faults < MaxFaults /\ faults' = faults + 1
  /\ ghosts' = ghosts \cup (cache \cap {u})
  /\ UNCHANGED cache

WriteThrough(w) ==
  LET u == job[w].user IN
  /\ Answer(w)
  /\ IF job[w].op \in Removers
     THEN (Remove(u) /\ UNCHANGED faults) \/ RemoveFails(u)
     ELSE (Add(u, w \in late) \/ AddFails) /\ UNCHANGED faults
  /\ late' = late \ {w}
  /\ UNCHANGED <<inflight, reader>>

\* MembershipCacheConsumer and MembershipEventsConsumer; they swallow errors.
ConsumeAdded(e) ==
  /\ e \in inflight /\ e.kind = "added"
  /\ Add(e.user, e.stale) \/ AddFails
  /\ inflight' \in {inflight, inflight \ {e}}
  /\ UNCHANGED <<vars, reader, late, faults>>

ConsumeRemoved(e) ==
  /\ e \in inflight /\ e.kind = "removed"
  /\ (Remove(e.user) /\ UNCHANGED faults) \/ RemoveFails(e.user)
  /\ inflight' \in {inflight, inflight \ {e}}
  /\ UNCHANGED <<vars, reader, late>>

\* message-store fetches all members to replace the SET.  The validators of
\* chat-core and call-service and the gateway look up one user, in the SET
\* already or not, or all of them, to add to it.
FetchMembers(users, next) ==
  /\ reader = NoReader /\ users # {}
  /\ reader' = Reader(next, users)
  /\ UNCHANGED <<vars, cache, inflight, late, ghosts, faults>>

FetchAll == FetchMembers(Members, "replace")
LookUp == \E users \in {Members} \cup {{u} : u \in Members} : FetchMembers(users, "warm")

\* DEL, SADD of all members; or SADD of the one; or neither, if Redis fails.
\* One reader at a time is enough: each writes what it has read.
Left == {u \in reader.stale : ~Coming(u)}

\* Mutant: the members are added to what the SET holds.
ReplaceWithoutDel ==
  /\ reader.pc = "replace"
  /\ cache' = cache \cup reader.users
  /\ ghosts' = Left
  /\ reader' = NoReader
  /\ UNCHANGED <<vars, inflight, late, faults>>

Replace ==
  /\ reader.pc = "replace"
  /\ cache' = reader.users
  /\ ghosts' = Left
  /\ reader' = NoReader
  /\ UNCHANGED <<vars, inflight, late, faults>>

Warm ==
  /\ reader.pc = "warm"
  /\ cache' = cache \cup reader.users
  /\ ghosts' = ghosts \cup Left
  /\ reader' = NoReader
  /\ UNCHANGED <<vars, inflight, late, faults>>

WriteFails ==
  /\ reader # NoReader /\ reader' = NoReader
  /\ UNCHANGED <<vars, cache, inflight, late, ghosts, faults>>

Expire ==
  /\ cache # {} /\ cache' = {} /\ ghosts' = {}
  /\ UNCHANGED <<vars, inflight, reader, late, faults>>

Table(w) == (Reads(w) \/ Writes(w)) /\ UNCHANGED cacheVars

GNext ==
  \/ \E w \in Workers : Table(w) \/ CommitAndAnnounce(w) \/ WriteThrough(w)
  \/ SwitchApproval /\ UNCHANGED cacheVars
  \/ \E e \in inflight : ConsumeAdded(e) \/ ConsumeRemoved(e)
  \/ FetchAll \/ LookUp
  \/ Replace \/ Warm \/ WriteFails \/ Expire

GSpec == GInit /\ [][GNext]_gvars

-----------------------------------------------------------------------------
Quiet == /\ \A w \in Workers : job[w].pc = "idle"
         /\ inflight = {} /\ reader = NoReader

\* When every event is consumed and nobody is about to write, the SET holds
\* members only.  The exceptions (ghosts) stay until the next stored message,
\* removal or the end of the key: users who were kicked or whose group was
\* disbanded, a SADD that came after the last removal, a removal Redis did
\* not take.
CachedAreMembers == Quiet => cache \subseteq Members \cup ghosts
===============================================================================
