-------------------------------- MODULE Call --------------------------------
(***************************************************************************)
(* Calls of call-service: starting, accepting, declining and ending a      *)
(* call, the end forced by a lost membership, and the cleanup that expires *)
(* calls nobody answered or left (CallOrchestrationService,                *)
(* CallCleanupService, CallRepository), under the Redis locks of           *)
(* CallLockService.                                                        *)
(*                                                                         *)
(* Every handler runs in steps: each acquisition of a lock, each read of   *)
(* the database, each transaction and each published signal is one.  Calls *)
(* are numbered in the order of their startedAt.                           *)
(***************************************************************************)
EXTENDS Integers, FiniteSets

CONSTANTS
  Convs,        \* conversations
  Starts,       \* calls that may be started: [conv, caller, callees, direct];
                \* the callees are the client's, and nothing compares them
                \* with the members of the conversation
  Calls,        \* identifiers of calls, consecutive numbers
  Handlers,     \* requests and Kafka records handled at a time
  Cleaners,     \* instances, each with its cleanup timer
  NoCall, NoUser, NoStart,
  MaxFaults,    \* bound: failing transactions, lost signals, crashes
  MaxExpiries   \* bound: locks that expire under a handler still running

Users   == UNION {{s.caller} \cup s.callees : s \in Starts}
Workers == Handlers \cup Cleaners
Keys    == ({"call"} \X Calls) \cup ({"conv"} \X Convs) \cup {<<"job", "cleanup">>}
Leader  == <<"job", "cleanup">>

ASSUME CallAssumption ==
  /\ IsFiniteSet(Calls) /\ Calls # {} /\ Calls = 1 .. Cardinality(Calls)
  /\ Starts \subseteq [conv : Convs, caller : Users, callees : SUBSET Users, direct : BOOLEAN]
  /\ IsFiniteSet(Workers) /\ Handlers \cap Cleaners = {}
  /\ "free" \notin Workers /\ "dead" \notin Workers
  /\ NoCall \notin Calls /\ NoUser \notin Users /\ NoStart \notin Starts
  /\ MaxFaults \in Nat /\ MaxExpiries \in Nat

VARIABLES
  status,   \* calls.status, "absent" before the insert
  about,    \* conversation, caller and callees of a call; is the
            \* conversation one of two users
  left,     \* participants whose left_at is set
  age,      \* 0, 1 past the ringing timeout, 2 past the longest duration
  history,  \* chat messages about the call written to the outbox
  shown,    \* the last signal published for the call
  lock,     \* Redis locks: "free", a worker, or "dead" for a crashed one
  pc, job, act, call, who, seen,   \* the workers: step, operation, locals
  ring, todo, ready,               \* startCall: request, callees to check, ready
  list,                            \* cleanup: calls still to be looked at
  faults, expiries

callVars   == <<status, about, left, age, history, shown>>
workVars   == <<pc, job, act, call, who, seen>>
startVars  == <<ring, todo, ready>>
vars == <<callVars, lock, workVars, startVars, list, faults, expiries>>

Live     == {"RINGING", "ACTIVE"}
Terminal == {"REJECTED", "MISSED", "ENDED"}

Init ==
  /\ status = [c \in Calls |-> "absent"]
  /\ about = [c \in Calls |-> NoStart]
  /\ left = [c \in Calls |-> {}]
  /\ age = [c \in Calls |-> 0]
  /\ history = [c \in Calls |-> {}]
  /\ shown = [c \in Calls |-> "nothing"]
  /\ lock = [k \in Keys |-> "free"]
  /\ pc = [w \in Workers |-> "idle"]
  /\ job = [w \in Workers |-> "none"]
  /\ act = [w \in Workers |-> "none"]
  /\ call = [w \in Workers |-> NoCall]
  /\ who = [w \in Workers |-> NoUser]
  /\ seen = [w \in Workers |-> "absent"]
  /\ ring = [w \in Workers |-> NoStart]
  /\ todo = [w \in Workers |-> {}] /\ ready = [w \in Workers |-> {}]
  /\ list = [w \in Workers |-> {}]
  /\ faults = 0 /\ expiries = 0

-----------------------------------------------------------------------------
Participants(c) == {about[c].caller} \cup about[c].callees
IsGroup(c)      == Cardinality(about[c].callees) > 1
Unused          == {c \in Calls : status[c] = "absent"}
LiveIn(c, u)    == status[c] \in Live /\ u \in Participants(c) \ left[c]

\* findLiveCallByUserId: the calls a user is in, of which it takes the latest
LiveCallsOf(u) == {c \in Calls : LiveIn(c, u)}
Latest(S) == CHOOSE c \in S : \A d \in S : d <= c

RingingExpired(c) == status[c] = "RINGING" /\ age[c] >= 1
\* isActiveStaleOrGhost
DbGhost(c) ==
  status[c] = "ACTIVE" /\ (Participants(c) \subseteq left[c] \/ age[c] = 2)

Goto(w, label) == pc' = [pc EXCEPT ![w] = label]
Fault == faults < MaxFaults /\ faults' = faults + 1

\* SET NX PX: true when the worker gets the lock
Unlocked(k)  == TRUE
LockFree(k)  == lock[k] = "free"
Acquire(w, k) == LockFree(k) /\ lock' = [lock EXCEPT ![k] = w]
\* compare the token, then DEL
Release(w, k) == lock' = [lock EXCEPT ![k] = IF @ = w THEN "free" ELSE @]

\* Redis Pub/Sub after the commit; a failing publish is logged, no more.
Publish(c, signal) ==
  \/ shown' = [shown EXCEPT ![c] = signal] /\ UNCHANGED faults
  \/ Fault /\ UNCHANGED shown

\* What the worker returns to when it has left a call's lock.
Resume(w) ==
  CASE job[w] = "start" -> IF act[w] = "none" THEN "unlockConv" ELSE "recheck"
    [] job[w] = "cleanup" -> IF act[w] = "expire" THEN "sweepRinging" ELSE "sweepActive"
    [] OTHER -> "idle"

Leave(w) ==
  /\ Goto(w, Resume(w))
  /\ job' = [job EXCEPT ![w] = IF @ = "request" THEN "none" ELSE @]
  /\ act' = [act EXCEPT ![w] = "none"]
  /\ call' = [call EXCEPT ![w] = NoCall]
  /\ who' = [who EXCEPT ![w] = IF job[w] = "start" THEN @ ELSE NoUser]
  /\ seen' = [seen EXCEPT ![w] = "absent"]

\* The worker turns to operation a on call c, in the name of user u.
Turn(w, a, c, u) ==
  /\ act' = [act EXCEPT ![w] = a]
  /\ call' = [call EXCEPT ![w] = c]
  /\ who' = [who EXCEPT ![w] = u]
  /\ Goto(w, "lock")

\* updateStatus, markAllParticipantsLeft, upsertSummary and the chat message,
\* in one transaction.
KeepParticipants(c, s, messages) ==
  /\ status' = [status EXCEPT ![c] = s]
  /\ history' = [history EXCEPT ![c] = @ \cup messages]
  /\ UNCHANGED left
Finish(c, s, messages) ==
  /\ status' = [status EXCEPT ![c] = s]
  /\ history' = [history EXCEPT ![c] = @ \cup messages]
  /\ left' = [left EXCEPT ![c] = Participants(c)]

-----------------------------------------------------------------------------
(* startCall                                                               *)
InStart == {w \in Workers : job[w] = "start"}

(* The access check has passed; withConversationLock begins to wait. A     *)
(* start is only taken up when an identifier is left for its call.         *)
BeginStart(w, s) ==
  /\ pc[w] = "idle" /\ w \in Handlers
  /\ Cardinality(InStart) < Cardinality(Unused)
  /\ job' = [job EXCEPT ![w] = "start"]
  /\ ring' = [ring EXCEPT ![w] = s]
  /\ todo' = [todo EXCEPT ![w] = s.callees]
  /\ ready' = [ready EXCEPT ![w] = {}]
  /\ Goto(w, "lockConv")
  /\ UNCHANGED <<callVars, lock, act, call, who, seen, list, faults, expiries>>

EndStart(w) ==
  /\ Goto(w, "idle")
  /\ job' = [job EXCEPT ![w] = "none"]
  /\ ring' = [ring EXCEPT ![w] = NoStart]
  /\ todo' = [todo EXCEPT ![w] = {}] /\ ready' = [ready EXCEPT ![w] = {}]
  /\ who' = [who EXCEPT ![w] = NoUser]

LockConv(w) ==
  /\ pc[w] = "lockConv"
  /\ \/ Acquire(w, <<"conv", ring[w].conv>>) /\ Goto(w, "look")
        /\ UNCHANGED <<job, who, startVars>>
     \/ ~ LockFree(<<"conv", ring[w].conv>>) /\ EndStart(w) /\ UNCHANGED lock
  /\ UNCHANGED <<callVars, act, call, seen, list, faults, expiries>>

\* isUserBusy has answered for a callee, and at last for the caller.
Answered(w, u, busy) ==
  IF todo[w] = {}
    THEN /\ Goto(w, IF busy THEN "unlockConv" ELSE "create")
         /\ UNCHANGED <<todo, ready>>
    ELSE LET free == IF busy THEN ready[w] ELSE ready[w] \cup {u}
             rest == todo[w] \ {u}
         IN  /\ todo' = [todo EXCEPT ![w] = rest]
             /\ ready' = [ready EXCEPT ![w] = free]
             /\ Goto(w, IF busy /\ Cardinality(ring[w].callees) = 1 THEN "busyMissed"
                        ELSE IF rest = {} /\ free = {} THEN "unlockConv" ELSE "look")

(* isUserBusy for the next callee, or for the caller when all callees have *)
(* been looked at: a live call that is stale is expired on the way.        *)
NextUser(w) == IF todo[w] = {} THEN {ring[w].caller} ELSE todo[w]

Look(w) ==
  /\ pc[w] = "look"
  /\ \E u \in NextUser(w) :
       \/ /\ LiveCallsOf(u) = {}
          /\ Answered(w, u, FALSE)
          /\ UNCHANGED <<act, call, who>>
       \/ /\ LiveCallsOf(u) # {}
          /\ LET c == Latest(LiveCallsOf(u)) IN
               \/ /\ RingingExpired(c)
                  /\ Turn(w, "expire", c, u)
                  /\ UNCHANGED <<todo, ready>>
               \/ /\ status[c] = "ACTIVE"     \* stale, or an empty LiveKit room
                  /\ Turn(w, "ghost", c, u)
                  /\ UNCHANGED <<todo, ready>>
               \/ /\ ~ RingingExpired(c) /\ ~ DbGhost(c)
                  /\ Answered(w, u, TRUE)
                  /\ UNCHANGED <<act, call, who>>
  /\ UNCHANGED <<callVars, lock, job, seen, ring, list, faults, expiries>>

Recheck(w) ==
  /\ pc[w] = "recheck"
  /\ Answered(w, who[w], LiveCallsOf(who[w]) # {})
  /\ who' = [who EXCEPT ![w] = NoUser]
  /\ UNCHANGED <<callVars, lock, job, act, call, seen, ring, list, faults, expiries>>

\* createCall: the row and its participants
Insert(c, s, st) ==
  /\ status' = [status EXCEPT ![c] = st]
  /\ about' = [about EXCEPT ![c] = s]

NextCall == CHOOSE c \in Unused : \A d \in Unused : c <= d

(* persistBusyMissedCallAndSystemMessage: one transaction *)
BusyMissed(w) ==
  /\ pc[w] = "busyMissed"
  /\ Insert(NextCall, ring[w], "MISSED")
  /\ left' = [left EXCEPT ![NextCall] = {ring[w].caller} \cup ring[w].callees]
  /\ history' = [history EXCEPT ![NextCall] = {"busy"}]
  /\ Goto(w, "unlockConv")
  /\ UNCHANGED <<age, shown, lock, job, act, call, who, seen, startVars, list, faults,
                 expiries>>

Create(w) ==
  /\ pc[w] = "create"
  /\ Insert(NextCall, [ring[w] EXCEPT !.callees = ready[w]], "RINGING")
  /\ call' = [call EXCEPT ![w] = NextCall]
  /\ Goto(w, "ringing")
  /\ UNCHANGED <<left, age, history, shown, lock, job, act, who, seen, startVars, list,
                 faults, expiries>>

PublishRinging(w) ==
  /\ pc[w] = "ringing"
  /\ Publish(call[w], "ringing")
  /\ call' = [call EXCEPT ![w] = NoCall]
  /\ Goto(w, "unlockConv")
  /\ UNCHANGED <<status, about, left, age, history, lock, job, act, who, seen, startVars,
                 list, expiries>>

UnlockConv(w) ==
  /\ pc[w] = "unlockConv"
  /\ Release(w, <<"conv", ring[w].conv>>)
  /\ EndStart(w)
  /\ UNCHANGED <<callVars, act, call, seen, list, faults, expiries>>

-----------------------------------------------------------------------------
(* acceptCall, declineCall, endCall and handleMembershipRevoked.  Only the *)
(* first asks whether the user has a part in the call.                     *)
BeginRequest(w, a, c, u) ==
  /\ pc[w] = "idle" /\ w \in Handlers
  /\ status[c] # "absent"
  /\ a \in {"accept", "decline", "end"}
  /\ Turn(w, a, c, u)
  /\ job' = [job EXCEPT ![w] = "request"]
  /\ UNCHANGED <<callVars, lock, seen, startVars, list, faults, expiries>>

\* the ringing call of the conversation, else its active one
InConv(v, st) == {c \in Calls : status[c] = st /\ about[c].conv = v}

BeginRevoke(w, v, u) ==
  /\ pc[w] = "idle" /\ w \in Handlers
  /\ job' = [job EXCEPT ![w] = "request"]
  /\ IF InConv(v, "RINGING") # {}
       THEN /\ \E c \in InConv(v, "RINGING") : Turn(w, "end", c, u)
            /\ UNCHANGED ring
       ELSE /\ Goto(w, "revokeActive")
            /\ who' = [who EXCEPT ![w] = u]
            /\ ring' = [ring EXCEPT ![w] = CHOOSE s \in Starts : s.conv = v]
            /\ UNCHANGED <<act, call>>
  /\ UNCHANGED <<callVars, lock, seen, todo, ready, list, faults, expiries>>

RevokeActive(w) ==
  /\ pc[w] = "revokeActive"
  /\ ring' = [ring EXCEPT ![w] = NoStart]
  /\ IF InConv(ring[w].conv, "ACTIVE") # {}
       THEN /\ \E c \in InConv(ring[w].conv, "ACTIVE") : Turn(w, "end", c, who[w])
            /\ UNCHANGED <<job, seen>>
       ELSE Leave(w)
  /\ UNCHANGED <<callVars, lock, todo, ready, list, faults, expiries>>

(* withCallLock: the lock is taken, or the wait for it times out.          *)
LockCall(w) ==
  /\ pc[w] = "lock"
  /\ Acquire(w, <<"call", call[w]>>)
  /\ Goto(w, "read")
  /\ UNCHANGED <<callVars, job, act, call, who, seen, startVars, list, faults, expiries>>

LockTimeout(w) ==
  /\ pc[w] = "lock"
  /\ ~ LockFree(<<"call", call[w]>>)
  /\ Leave(w)
  /\ UNCHANGED <<callVars, lock, startVars, list, faults, expiries>>

\* The checks each handler makes on the row it has read.
EndAnything(w, c) ==
  CASE act[w] = "end" -> TRUE
    [] act[w] = "accept" -> /\ who[w] \in about[c].callees
                            /\ \/ status[c] = "RINGING"
                               \/ IsGroup(c) /\ status[c] = "ACTIVE"
    [] act[w] \in {"decline", "expire"} -> status[c] = "RINGING"
    [] act[w] = "ghost" -> status[c] = "ACTIVE"
    [] OTHER -> FALSE
Allowed(w, c) ==
  CASE act[w] = "end" -> status[c] \notin Terminal
    [] act[w] = "accept" -> /\ who[w] \in about[c].callees
                            /\ \/ status[c] = "RINGING"
                               \/ IsGroup(c) /\ status[c] = "ACTIVE"
    [] act[w] \in {"decline", "expire"} -> status[c] = "RINGING"
    [] act[w] = "ghost" -> status[c] = "ACTIVE"
    [] OTHER -> FALSE

(* findById under the lock. An active call is only cleaned up if the       *)
(* database says it is over, or LiveKit that its room is empty.            *)
Read(w) ==
  /\ pc[w] = "read"
  /\ seen' = [seen EXCEPT ![w] = status[call[w]]]
  /\ \/ Allowed(w, call[w]) /\ Goto(w, "write")
     \/ ~ Allowed(w, call[w]) /\ Goto(w, "unlock")
     \/ act[w] = "ghost" /\ ~ DbGhost(call[w]) /\ Goto(w, "unlock")
  /\ UNCHANGED <<callVars, lock, job, act, call, who, startVars, list, faults, expiries>>

(* The transaction of each handler.                                        *)
Accept(w, c) ==
  /\ act[w] = "accept"
  /\ status' = [status EXCEPT ![c] = IF seen[w] = "RINGING" THEN "ACTIVE" ELSE @]
  /\ left' = [left EXCEPT ![c] = @ \ {who[w]}]
  /\ Goto(w, "signal")
  /\ UNCHANGED history

\* countPendingCallees, once the callee is marked as having left
PendingOthers(c, u) == Participants(c) \ (left[c] \cup {u})
Pending(c, u)       == about[c].callees \ (left[c] \cup {u})

Decline(w, c) ==
  /\ act[w] = "decline"
  /\ \/ /\ IsGroup(c)
        /\ left' = [left EXCEPT ![c] = @ \cup ({who[w]} \cap Participants(c))]
        /\ Goto(w, IF Pending(c, who[w]) = {} THEN "finalize" ELSE "signal")
        /\ UNCHANGED <<status, history>>
     \/ /\ ~ IsGroup(c)
        /\ Finish(c, "REJECTED", {"rejected"})
        /\ Goto(w, "signal")

End(w, c) ==
  /\ act[w] = "end"
  /\ IF seen[w] = "RINGING" /\ who[w] = about[c].caller
       THEN Finish(c, "MISSED", {"missed"})
       ELSE Finish(c, "ENDED", {"ended"})
  /\ Goto(w, "signal")

(* In a direct conversation the chat message is left out when the two      *)
(* users may no longer interact.                                           *)
CleanUp(w, c) ==
  /\ act[w] \in {"expire", "ghost"}
  /\ \E interact \in IF about[c].direct THEN BOOLEAN ELSE {TRUE} :
       IF act[w] = "expire"
         THEN Finish(c, "MISSED", IF interact THEN {"missed"} ELSE {})
         ELSE Finish(c, "ENDED", IF interact THEN {"ended"} ELSE {})
  /\ Goto(w, "signal")

\* The lock outlives the transaction, up to the finally of withLock.
UnlockAtCommit(w) == Release(w, <<"call", call[w]>>)
KeepLock(w)       == UNCHANGED lock

Write(w) ==
  /\ pc[w] = "write"
  /\ \/ Accept(w, call[w])
     \/ Decline(w, call[w])
     \/ End(w, call[w])
     \/ CleanUp(w, call[w])
  /\ KeepLock(w)
  /\ UNCHANGED <<about, age, shown, job, act, call, who, seen, startVars, list, faults,
                 expiries>>

(* The second transaction of a group call its last callee declined.        *)
Finalize(w) ==
  /\ pc[w] = "finalize"
  /\ Finish(call[w], "REJECTED", {"rejected"})
  /\ Goto(w, "signal")
  /\ UNCHANGED <<about, age, shown, lock, job, act, call, who, seen, startVars, list,
                 faults, expiries>>

Signal(w) ==
  /\ pc[w] = "signal"
  /\ Publish(call[w], CASE act[w] = "accept" -> "accepted"
                        [] act[w] = "decline" -> "declined"
                        [] OTHER -> "ended")
  /\ Goto(w, "unlock")
  /\ UNCHANGED <<status, about, left, age, history, lock, job, act, call, who, seen,
                 startVars, list, expiries>>

Unlock(w) ==
  /\ pc[w] = "unlock"
  /\ Release(w, <<"call", call[w]>>)
  /\ Leave(w)
  /\ UNCHANGED <<callVars, startVars, list, faults, expiries>>

-----------------------------------------------------------------------------
(* runCleanupCycle, by whoever gets the leader lock.                       *)
SweepStart(w) ==
  /\ pc[w] = "idle" /\ w \in Cleaners
  /\ Acquire(w, Leader)
  /\ job' = [job EXCEPT ![w] = "cleanup"]
  /\ Goto(w, "listRinging")
  /\ UNCHANGED <<callVars, act, call, who, seen, startVars, list, faults, expiries>>

(* listCallsByStatus, of which those past the timeout are expired.         *)
ListRinging(w) ==
  /\ pc[w] = "listRinging"
  /\ list' = [list EXCEPT ![w] = {c \in Calls : RingingExpired(c)}]
  /\ Goto(w, "sweepRinging")
  /\ UNCHANGED <<callVars, lock, job, act, call, who, seen, startVars, faults, expiries>>

SweepRinging(w) ==
  /\ pc[w] = "sweepRinging"
  /\ IF list[w] = {}
       THEN Goto(w, "listActive") /\ UNCHANGED <<act, call, who, list>>
       ELSE \E c \in list[w] :
              /\ Turn(w, "expire", c, NoUser)
              /\ list' = [list EXCEPT ![w] = @ \ {c}]
  /\ UNCHANGED <<callVars, lock, job, seen, startVars, faults, expiries>>

(* Active calls that are over for the database, or whose room LiveKit says *)
(* is empty.                                                               *)
ListActive(w) ==
  /\ pc[w] = "listActive"
  /\ \E L \in SUBSET {c \in Calls : status[c] = "ACTIVE"} :
       /\ \A c \in Calls : DbGhost(c) => c \in L
       /\ list' = [list EXCEPT ![w] = L]
  /\ Goto(w, "sweepActive")
  /\ UNCHANGED <<callVars, lock, job, act, call, who, seen, startVars, faults, expiries>>

SweepActive(w) ==
  /\ pc[w] = "sweepActive"
  /\ \/ /\ list[w] = {}
        /\ Release(w, Leader)
        /\ Goto(w, "idle")
        /\ job' = [job EXCEPT ![w] = "none"]
        /\ UNCHANGED <<act, call, who, list>>
     \/ \E c \in list[w] :
          /\ Turn(w, "ghost", c, NoUser)
          /\ list' = [list EXCEPT ![w] = @ \ {c}]
          /\ UNCHANGED <<lock, job>>
  /\ UNCHANGED <<callVars, seen, startVars, faults, expiries>>

-----------------------------------------------------------------------------
(* Failures and time.                                                      *)

(* A transaction is rolled back: the handler throws and gives its locks    *)
(* back; only the cleanup goes on, with the next call.                     *)
WriteFails(w) ==
  /\ pc[w] \in {"write", "finalize"}
  /\ Fault
  /\ Goto(w, "unlock")
  /\ act' = [act EXCEPT ![w] = IF job[w] = "start" THEN "none" ELSE @]
  /\ UNCHANGED <<callVars, lock, job, call, who, seen, startVars, list, expiries>>

CreateFails(w) ==
  /\ pc[w] \in {"busyMissed", "create"}
  /\ Fault
  /\ Goto(w, "unlockConv")
  /\ UNCHANGED <<callVars, lock, job, act, call, who, seen, startVars, list, expiries>>

(* The instance dies in the middle of the operation; its locks stay.       *)
Crash(w) ==
  /\ pc[w] # "idle"
  /\ Fault
  /\ lock' = [k \in Keys |-> IF lock[k] = w THEN "dead" ELSE lock[k]]
  /\ Goto(w, "idle")
  /\ job' = [job EXCEPT ![w] = "none"]
  /\ act' = [act EXCEPT ![w] = "none"]
  /\ call' = [call EXCEPT ![w] = NoCall]
  /\ who' = [who EXCEPT ![w] = NoUser]
  /\ seen' = [seen EXCEPT ![w] = "absent"]
  /\ ring' = [ring EXCEPT ![w] = NoStart]
  /\ todo' = [todo EXCEPT ![w] = {}] /\ ready' = [ready EXCEPT ![w] = {}]
  /\ list' = [list EXCEPT ![w] = {}]
  /\ UNCHANGED <<callVars, expiries>>

(* The time to live of a lock runs out.                                    *)
NoTimeToLive(k) == UNCHANGED vars
LockExpires(k) ==
  /\ lock[k] # "free"
  /\ IF lock[k] = "dead" THEN UNCHANGED expiries
       ELSE expiries < MaxExpiries /\ expiries' = expiries + 1
  /\ lock' = [lock EXCEPT ![k] = "free"]
  /\ UNCHANGED <<callVars, workVars, startVars, list, faults>>

GrowsOld(c) ==
  /\ status[c] \in Live /\ age[c] < 2
  /\ age' = [age EXCEPT ![c] = @ + 1]
  /\ UNCHANGED <<status, about, left, history, shown, lock, workVars, startVars, list,
                 faults, expiries>>

-----------------------------------------------------------------------------
StartStep(w) ==
  \/ LockConv(w) \/ Look(w) \/ Recheck(w) \/ BusyMissed(w) \/ Create(w)
  \/ PublishRinging(w) \/ UnlockConv(w)

CallStep(w) ==
  \/ RevokeActive(w) \/ LockCall(w) \/ LockTimeout(w) \/ Read(w) \/ Write(w)
  \/ Finalize(w) \/ Signal(w) \/ Unlock(w)

SweepStep(w) ==
  \/ SweepStart(w) \/ ListRinging(w) \/ SweepRinging(w)
  \/ ListActive(w) \/ SweepActive(w)

Next ==
  \/ \E w \in Workers : \/ StartStep(w) \/ CallStep(w) \/ SweepStep(w)
                        \/ WriteFails(w) \/ CreateFails(w) \/ Crash(w)
  \/ \E w \in Workers, s \in Starts : BeginStart(w, s)
  \/ \E w \in Workers, c \in Calls, u \in Users :
       \E a \in {"accept", "decline", "end"} : BeginRequest(w, a, c, u)
  \/ \E w \in Workers, v \in Convs, u \in Users : BeginRevoke(w, v, u)
  \/ \E k \in Keys : LockExpires(k)
  \/ \E c \in Calls : GrowsOld(c)

(* Handlers run to their end, cleanup timers fire, time passes, the locks  *)
(* of dead holders expire.  Whoever finds the lock of a call free again    *)
(* and again gets it once.                                                 *)
Fairness ==
  /\ \A w \in Workers : /\ WF_vars(StartStep(w))
                        /\ WF_vars(CallStep(w))
                        /\ WF_vars(SweepStep(w))
                        /\ SF_vars(LockCall(w))
  /\ \A k \in Keys : WF_vars(lock[k] = "dead" /\ LockExpires(k))
  /\ \A c \in Calls : WF_vars(GrowsOld(c))

Spec == Init /\ [][Next]_vars
FairSpec == Spec /\ Fairness

-----------------------------------------------------------------------------
(* A call that is over stays over, whatever handlers had begun before      *)
(* (updateStatus writes without a guard; only the lock and the check of    *)
(* the fresh row stand before it).                                         *)
TerminalIsFinal ==
  [][\A c \in Calls : status[c] \in Terminal => status'[c] = status[c]]_vars

(* The chat history gets one entry about a call, and only once it is over  *)
(* (enqueueRejected, enqueueEnded, enqueueMissed, enqueueBusyMissed).      *)
OneHistoryEntry ==
  \A c \in Calls : /\ Cardinality(history[c]) <= 1
                   /\ history[c] # {} => status[c] \in Terminal

(* Nobody is left in a call that is over: its users are not busy.          *)
OverMeansLeft ==
  \A c \in Calls : status[c] \in Terminal => Participants(c) \subseteq left[c]

(* A call that has callees goes on ringing only while one is left to       *)
(* answer it, except when the second transaction of declineCall was lost.  *)
RingsForSomebody ==
  \A c \in Calls :
    (/\ faults = 0 /\ status[c] = "RINGING" /\ about[c].callees # {}
     /\ lock[<<"call", c>>] = "free")
      => about[c].callees \ left[c] # {}

(* The last signal about a call that is over is not that it was accepted:  *)
(* clients that saw the signals in order do not stay in it.                *)
EndIsShown ==
  \A c \in Calls :
    (faults = 0 /\ status[c] \in Terminal /\ lock[<<"call", c>>] = "free")
      => shown[c] # "accepted"

(* No call rings for ever: it is answered, refused, given up, or expired   *)
(* by the cleanup, crashes of its handlers included.  The cleanup skips a  *)
(* call whose lock it cannot get in time: the wait must not always fail.   *)
RingingEnds ==
  (\A w \in Cleaners : <>[][~ LockTimeout(w)]_vars) =>
    \A c \in Calls : status[c] = "RINGING" ~> status[c] # "RINGING"

(* Two live calls of a conversation with one callee each have nobody in    *)
(* common, whatever lists of callees the clients send: the lock of the     *)
(* conversation keeps the busy checks, the callee's first and the caller's *)
(* last, and the insert together, and nobody is out of such a call while   *)
(* it is live.                                                             *)
NobodyInTwoCalls ==
  \A c, d \in Calls :
    (/\ c # d /\ status[c] \in Live /\ status[d] \in Live
     /\ about[c].conv = about[d].conv /\ ~ IsGroup(c) /\ ~ IsGroup(d))
      => Participants(c) \cap Participants(d) = {}
=============================================================================
