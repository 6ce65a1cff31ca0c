------------------------------ MODULE Reactions ------------------------------
(***************************************************************************)
(* Reactions to messages: reactToMessage writes a Redis hash per message   *)
(* and marks the message dirty; ReactionSyncJob of every replica writes    *)
(* the hashes of dirty messages back to messages.metadata.reactions, one   *)
(* replica at a time as long as the flush is shorter than the lock.        *)
(*                                                                         *)
(* One emoji: the hash of a message is the set of users who reacted.       *)
(***************************************************************************)
EXTENDS Naturals, FiniteSets

CONSTANTS
  Messages,
  Reactors,     \* users who react
  Jobs,         \* replicas of message-store
  Nobody,
  MaxRequests,  \* bound of the model: requests of clients
  MaxFaults     \* bound of the model: failing calls, crashes, rebalances

ASSUME ReactionsAssumption ==
  /\ Nobody \notin Jobs
  /\ MaxRequests \in Nat /\ MaxFaults \in Nat

VARIABLES
  hash,       \* msg:reaction:{id}
  dirty,      \* msg:reaction:dirty
  synced,     \* messages.metadata.reactions
  reacting,   \* calls of reactToMessage that have written, but not marked
  flush,      \* flush[j]: the ids a run got, and what it has read of them
  leader,     \* who holds the lock
  requests,
  faults,
  unsafe      \* history: messages with a write that nothing will pick up

reactionVars == <<hash, dirty, synced, reacting, flush, leader, unsafe>>
budget == <<requests, faults>>

NoFlush == [pc |-> "idle", todo |-> {}, at |-> {}, seen |-> {}, done |-> {}]

ReactionsInit ==
  /\ hash = [m \in Messages |-> {}] /\ synced = hash
  /\ dirty = {} /\ reacting = {}
  /\ flush = [j \in Jobs |-> NoFlush]
  /\ leader = Nobody
  /\ requests = 0 /\ faults = 0
  /\ unsafe = {}

Request == requests < MaxRequests /\ requests' = requests + 1
Fault == faults < MaxFaults /\ faults' = faults + 1

-----------------------------------------------------------------------------
\* HSET or HDEL.  findById before it only refuses unknown messages; what is
\* returned and published afterwards is left out.
React(m, u) ==
  /\ Request
  /\ hash' = [hash EXCEPT ![m] = (@ \ {u}) \cup ({u} \ @)]
  /\ reacting' = reacting \cup {[id |-> requests, msg |-> m]}
  /\ UNCHANGED <<dirty, synced, flush, leader, faults, unsafe>>

\* A flush has read the hash of m and will remove its mark.
HeldByFlush(m) == \E j \in Jobs : m \in flush[j].at \cup flush[j].done

\* SADD.
MarkDirty(r) ==
  /\ r \in reacting
  /\ dirty' = dirty \cup {r.msg}
  /\ reacting' = reacting \ {r}
  /\ unsafe' = IF HeldByFlush(r.msg) THEN unsafe \cup {r.msg} ELSE unsafe
  /\ UNCHANGED <<hash, synced, flush, leader, budget>>

\* The call dies after HSET.
MarkFails(r) ==
  /\ r \in reacting /\ Fault
  /\ reacting' = reacting \ {r}
  /\ unsafe' = unsafe \cup {r.msg}
  /\ UNCHANGED <<hash, dirty, synced, flush, leader, requests>>

-----------------------------------------------------------------------------
Set(j, state) == flush' = [flush EXCEPT ![j] = state]

\* tryLeaderLock and SMEMBERS.  Without ids the run ends and unlocks.
BeginFlush(j) ==
  /\ flush[j].pc = "idle" /\ leader = Nobody /\ dirty # {}
  /\ leader' = j
  /\ Set(j, [NoFlush EXCEPT !.pc = "run", !.todo = dirty])
  /\ UNCHANGED <<hash, dirty, synced, reacting, budget, unsafe>>

\* HGETALL of the next id.
ReadHash(j, m) ==
  /\ flush[j].pc = "run" /\ flush[j].at = {} /\ m \in flush[j].todo
  /\ Set(j, [flush[j] EXCEPT !.todo = @ \ {m}, !.at = {m}, !.seen = hash[m]])
  /\ UNCHANGED <<hash, dirty, synced, reacting, leader, budget, unsafe>>

\* UPDATE messages; an id whose update fails stays in the set.
UpdateRow(j, m) ==
  /\ m \in flush[j].at
  /\ \/ /\ synced' = [synced EXCEPT ![m] = flush[j].seen]
        /\ Set(j, [flush[j] EXCEPT !.at = {}, !.seen = {}, !.done = @ \cup {m}])
        /\ UNCHANGED faults
     \/ /\ Fault
        /\ Set(j, [flush[j] EXCEPT !.at = {}, !.seen = {}])
        /\ UNCHANGED synced
  /\ UNCHANGED <<hash, dirty, reacting, leader, requests, unsafe>>

\* Mutant: the set of marks is deleted after a flush.
AllMarked(j) == dirty

\* SREM of the ids that were written, and the release of the lock, if it is
\* still the own one.
Synced(j) == flush[j].done

EndFlush(j) ==
  /\ flush[j].pc = "run" /\ flush[j].todo = {} /\ flush[j].at = {}
  /\ dirty' = dirty \ Synced(j)
  /\ leader' = IF leader = j THEN Nobody ELSE leader
  /\ Set(j, NoFlush)
  /\ UNCHANGED <<hash, synced, reacting, budget, unsafe>>

\* The lock lives 4.5 seconds, however long the flush takes.
LockExpires ==
  /\ leader # Nobody /\ leader' = Nobody
  /\ UNCHANGED <<hash, dirty, synced, reacting, flush, budget, unsafe>>

JobCrashes(j) ==
  /\ flush[j].pc = "run" /\ Fault
  /\ Set(j, NoFlush)
  /\ UNCHANGED <<hash, dirty, synced, reacting, leader, requests, unsafe>>

ReactionsNext ==
  \/ \E m \in Messages, u \in Reactors : React(m, u)
  \/ \E r \in reacting : MarkDirty(r) \/ MarkFails(r)
  \/ \E j \in Jobs : \/ BeginFlush(j) \/ EndFlush(j) \/ JobCrashes(j)
                     \/ \E m \in Messages : ReadHash(j, m) \/ UpdateRow(j, m)
  \/ LockExpires

-----------------------------------------------------------------------------
\* A message whose reactions in PostgreSQL are not those in Redis is marked,
\* or about to be marked, for the next flush: nothing is forgotten through
\* overlapping flushes, failing updates and crashes of the job.  The
\* exceptions: a mark set while a flush holds the message (its SREM removes
\* the new mark too), a call that dies before its mark, and an edit that
\* replaces the metadata.
UnsyncedIsDirty ==
  \A m \in Messages :
    synced[m] # hash[m] /\ m \notin unsafe
      => m \in dirty \/ \E r \in reacting : r.msg = m
=============================================================================
