----------------------------- MODULE CallProofs -----------------------------
(***************************************************************************)
(* Proofs about calls, for any number of calls, conversations, handlers    *)
(* and cleanup timers, any faults and crashes.  No lock expires under a    *)
(* handler that is still running.                                          *)
(***************************************************************************)
EXTENDS Call, FiniteSetTheorems, TLAPS

Working(w) == pc[w] \in {"lock", "read", "write", "finalize", "signal", "unlock"}
Holding(w) == pc[w] \in {"read", "write", "finalize", "signal", "unlock"}

\* A start that has not inserted its call yet.
Early == {"lockConv", "look", "recheck", "busyMissed", "create"}
Inserting == {w \in Workers : job[w] = "start" /\ (pc[w] \in Early \/ Working(w))}

Domains ==
  /\ DOMAIN status = Calls /\ DOMAIN about = Calls /\ DOMAIN left = Calls
  /\ DOMAIN history = Calls /\ DOMAIN shown = Calls
  /\ DOMAIN lock = Keys
  /\ DOMAIN pc = Workers /\ DOMAIN job = Workers /\ DOMAIN act = Workers
  /\ DOMAIN call = Workers /\ DOMAIN who = Workers /\ DOMAIN seen = Workers
  /\ DOMAIN ring = Workers /\ DOMAIN todo = Workers /\ DOMAIN ready = Workers
  /\ DOMAIN list = Workers
  /\ faults \in Nat /\ expiries = 0

\* Handlers work on calls that exist.
CallsNamed ==
  \A w \in Workers :
    /\ Working(w) \/ pc[w] = "ringing" => call[w] \in Calls \ Unused
    /\ list[w] \subseteq Calls \ Unused

\* They hold the lock of the call from their read on...
CallsLocked ==
  \A w \in Workers : Holding(w) => lock[<<"call", call[w]>>] = w

\* ...so the row is what they have read.
RowsFresh ==
  \A w \in Workers :
    /\ pc[w] = "write" => seen[w] = status[call[w]] /\ Allowed(w, call[w])
    /\ pc[w] = "finalize" => status[call[w]] = "RINGING" /\ act[w] = "decline"
    /\ pc[w] = "signal" /\ act[w] = "accept" => status[call[w]] = "ACTIVE"

\* A start works under the lock of its conversation...
StartsLocked ==
  \A w \in Workers :
    /\ pc[w] \in Early \cup {"ringing", "unlockConv"} => job[w] = "start"
    /\ job[w] = "start" =>
         /\ ring[w] \in Starts
         /\ pc[w] \in Early \cup {"ringing", "unlockConv"} \/ Working(w)
         /\ pc[w] # "lockConv" => lock[<<"conv", ring[w].conv>>] = w

\* ...and there is an identifier for its call.
RoomForStarts == Cardinality(Inserting) <= Cardinality(Unused)

\* The callees it has looked at, and the user it looks at.
CalleesKnown ==
  \A w \in Inserting :
    /\ todo[w] \subseteq ring[w].callees /\ ready[w] \subseteq ring[w].callees
    /\ pc[w] # "busyMissed" /\ ring[w].callees # {} => todo[w] # {} \/ ready[w] # {}
    /\ pc[w] = "recheck" \/ Working(w) => who[w] \in NextUser(w)
    /\ pc[w] = "create" => todo[w] = {}

FreshRows ==
  \A c \in Unused : left[c] = {} /\ history[c] = {} /\ shown[c] = "nothing"

HistoryOnce ==
  \A c \in Calls : history[c] # {} =>
    status[c] \in Terminal /\ \E m \in history[c] : history[c] = {m}

\* Nobody is out of a live call of two...
PairsComplete ==
  \A c \in Calls : status[c] \in Live /\ ~ IsGroup(c) => left[c] = {}

LiveAt(c, v) == status[c] \in Live /\ about[c].conv = v

\* ...so whoever is not busy has no part in one.
FreeIn(u, v) ==
  \A c \in Calls : LiveAt(c, v) /\ ~ IsGroup(c) => u \notin Participants(c)

\* Those a start has found not busy stay out of the live calls of two of its
\* conversation up to the insert.
FoundFree ==
  \A w \in Inserting :
    /\ pc[w] = "lockConv" => ready[w] = {}
    /\ \A u \in ready[w] : FreeIn(u, ring[w].conv)
    /\ pc[w] = "create" => FreeIn(ring[w].caller, ring[w].conv)

\* A call nobody can answer any more is about to be given up.
RingingOpen ==
  \A c \in Calls : faults = 0 /\ status[c] = "RINGING" /\ about[c].callees # {} =>
    \/ about[c].callees \ left[c] # {}
    \/ \E w \in Workers : pc[w] = "finalize" /\ call[w] = c

\* The end of a call is about to be signalled.
EndComing ==
  \A c \in Calls : faults = 0 /\ status[c] \in Terminal /\ shown[c] = "accepted" =>
    \E w \in Workers : pc[w] = "signal" /\ call[w] = c /\ act[w] # "accept"

LockInv ==
  /\ Domains /\ CallsNamed /\ CallsLocked /\ RowsFresh
  /\ StartsLocked /\ RoomForStarts /\ FreshRows

CallInv ==
  /\ LockInv /\ CalleesKnown
  /\ HistoryOnce /\ OverMeansLeft
  /\ PairsComplete /\ FoundFree /\ NobodyInTwoCalls
  /\ RingingOpen /\ EndComing

-----------------------------------------------------------------------------
(* The numbers of calls.                                                   *)

LEMMA LeastNumber ==
  ASSUME NEW S \in SUBSET Nat, S # {}
  PROVE  \E m \in S : \A n \in S : m <= n
<1> DEFINE Less == OpToRel(<, Nat)
<1>1. \A m, n \in Nat : n < m => <<n, m>> \in Less
  BY DEF OpToRel
<1>2. IsWellFoundedOn(Less, Nat)
  BY NatLessThanWellFounded
<1> HIDE DEF Less
<1>3. PICK m \in S : \A n \in S : ~ (<<n, m>> \in Less)
  BY <1>2, WFMin
<1>4. ASSUME NEW n \in S PROVE m <= n
  <2>1. m \in Nat /\ n \in Nat /\ ~ (<<n, m>> \in Less)
    BY <1>3
  <2>2. ~ (n < m)
    BY <1>1, <2>1
  <2>3. QED
    BY <2>1, <2>2
<1>5. QED
  BY <1>4

LEMMA CallsAreNumbers ==
  \E n \in Nat : Calls = 1 .. n /\ IsFiniteSet(Calls)
<1>1. Cardinality(Calls) \in Nat
  BY CallAssumption, FS_CardinalityType
<1>2. QED
  BY <1>1, CallAssumption

LEMMA LeastIsUnused ==
  ASSUME Unused # {}
  PROVE  NextCall \in Unused
<1>1. Unused # {} /\ Unused \subseteq Nat
  BY CallsAreNumbers DEF Unused
<1>2. \E c \in Unused : \A d \in Unused : c <= d
  BY <1>1, LeastNumber
<1>3. QED
  BY <1>2 DEF NextCall

LEMMA LatestIsOne ==
  ASSUME NEW S \in SUBSET Calls, S # {}
  PROVE  Latest(S) \in S
<1>1. PICK n \in Nat : Calls = 1 .. n
  BY CallsAreNumbers
<1> DEFINE Gaps == {n - c : c \in S}
<1>a. \A c \in S : c \in Nat /\ n - c \in Nat
  BY <1>1
<1>2. Gaps \subseteq Nat /\ Gaps # {}
  BY <1>a
<1>3. PICK g \in Gaps : \A h \in Gaps : g <= h
  BY <1>2, LeastNumber
<1>4. PICK c \in S : g = n - c
  BY <1>3
<1>5. ASSUME NEW d \in S PROVE d <= c
  <2>1. n - d \in Gaps
    OBVIOUS
  <2>2. n - c <= n - d
    BY <1>3, <1>4, <2>1
  <2>3. QED
    BY <1>a, <2>2
<1>6. QED
  BY <1>5 DEF Latest

-----------------------------------------------------------------------------
(* The steps of one worker.                                                *)

Begins(w) ==
  \/ \E s \in Starts : BeginStart(w, s)
  \/ \E c \in Calls, u \in Users, a \in {"accept", "decline", "end"} : BeginRequest(w, a, c, u)
  \/ \E v \in Convs, u \in Users : BeginRevoke(w, v, u)

StepOf(w) ==
  \/ Begins(w) \/ StartStep(w) \/ CallStep(w) \/ SweepStep(w)
  \/ WriteFails(w) \/ CreateFails(w) \/ Crash(w)

LEMMA NextIsStep ==
  Next => \/ \E w \in Workers : StepOf(w)
          \/ \E k \in Keys : LockExpires(k)
          \/ \E c \in Calls : GrowsOld(c)
BY DEF Next, StepOf, Begins

(* The variables of another worker, and the locks it has. *)
Stays(v) ==
  /\ pc'[v] = pc[v] /\ job'[v] = job[v] /\ act'[v] = act[v] /\ call'[v] = call[v]
  /\ who'[v] = who[v] /\ seen'[v] = seen[v] /\ ring'[v] = ring[v]
  /\ todo'[v] = todo[v] /\ ready'[v] = ready[v] /\ list'[v] = list[v]
  /\ \A k \in Keys : lock[k] = v => lock'[k] = v

LEMMA OthersStay ==
  ASSUME Domains, NEW w \in Workers, StepOf(w)
  PROVE  Domains' /\ \A v \in Workers \ {w} : Stays(v)
<1> USE DEF Domains, Stays, Goto, Fault, callVars, workVars, startVars
<1>1. CASE Begins(w)
  BY <1>1 DEF Begins, BeginStart, BeginRequest, BeginRevoke, Turn
<1>2. CASE StartStep(w)
  <2>1. CASE LockConv(w)
    BY <2>1, CallAssumption DEF LockConv, Acquire, LockFree, EndStart
  <2>2. CASE Look(w)
    BY <2>2 DEF Look, Answered, Turn
  <2>3. CASE Recheck(w)
    BY <2>3 DEF Recheck, Answered
  <2>4. CASE BusyMissed(w)
    BY <2>4 DEF BusyMissed, Insert
  <2>5. CASE Create(w)
    BY <2>5 DEF Create, Insert
  <2>6. CASE PublishRinging(w)
    BY <2>6 DEF PublishRinging, Publish
  <2>7. CASE UnlockConv(w)
    BY <2>7 DEF UnlockConv, Release, EndStart
  <2>8. QED
    BY <1>2, <2>1, <2>2, <2>3, <2>4, <2>5, <2>6, <2>7 DEF StartStep
<1>3. CASE CallStep(w)
  <2>1. CASE RevokeActive(w)
    BY <2>1 DEF RevokeActive, Turn, Leave
  <2>2. CASE LockCall(w)
    BY <2>2, CallAssumption DEF LockCall, Acquire, LockFree
  <2>3. CASE LockTimeout(w)
    BY <2>3 DEF LockTimeout, Leave
  <2>4. CASE Read(w)
    BY <2>4 DEF Read
  <2>5. CASE Write(w)
    BY <2>5 DEF Write, Accept, Decline, End, CleanUp, Finish, KeepLock
  <2>6. CASE Finalize(w)
    BY <2>6 DEF Finalize, Finish
  <2>7. CASE Signal(w)
    BY <2>7 DEF Signal, Publish
  <2>8. CASE Unlock(w)
    BY <2>8 DEF Unlock, Release, Leave
  <2>9. QED
    BY <1>3, <2>1, <2>2, <2>3, <2>4, <2>5, <2>6, <2>7, <2>8 DEF CallStep
<1>4. CASE SweepStep(w)
  <2>1. CASE SweepStart(w)
    BY <2>1, CallAssumption DEF SweepStart, Acquire, LockFree
  <2>2. CASE ListRinging(w) \/ ListActive(w)
    BY <2>2 DEF ListRinging, ListActive
  <2>3. CASE SweepRinging(w) \/ SweepActive(w)
    BY <2>3 DEF SweepRinging, SweepActive, Turn, Release
  <2>4. QED
    BY <1>4, <2>1, <2>2, <2>3 DEF SweepStep
<1>5. CASE WriteFails(w) \/ CreateFails(w)
  BY <1>5 DEF WriteFails, CreateFails
<1>6. CASE Crash(w)
  BY <1>6 DEF Crash
<1>7. QED
  BY <1>1, <1>2, <1>3, <1>4, <1>5, <1>6 DEF StepOf

-----------------------------------------------------------------------------
(* Rows.  Whoever writes one holds its lock, or inserts it.                *)

Rows == <<status, about, left, history, shown>>

Writers(w) ==
  \/ BusyMissed(w) \/ Create(w) \/ PublishRinging(w)
  \/ Write(w) \/ Finalize(w) \/ Signal(w)

LEMMA ReadersKeepRows ==
  ASSUME NEW w \in Workers, StepOf(w), ~ Writers(w)
  PROVE  UNCHANGED Rows
<1> USE DEF Rows, callVars
<1>1. CASE Begins(w)
  BY <1>1 DEF Begins, BeginStart, BeginRequest, BeginRevoke
<1>2. CASE StartStep(w)
  BY <1>2 DEF Writers, StartStep, LockConv, Look, Recheck, UnlockConv
<1>3. CASE CallStep(w)
  BY <1>3 DEF Writers, CallStep, RevokeActive, LockCall, LockTimeout, Read, Unlock
<1>4. CASE SweepStep(w)
  BY <1>4 DEF SweepStep, SweepStart, ListRinging, ListActive, SweepRinging, SweepActive
<1>5. CASE WriteFails(w) \/ CreateFails(w) \/ Crash(w)
  BY <1>5 DEF WriteFails, CreateFails, Crash
<1>6. QED
  BY <1>1, <1>2, <1>3, <1>4, <1>5 DEF StepOf

(* There is a call left for whoever inserts one. *)
LEMMA InsertsUnused ==
  ASSUME LockInv, NEW w \in Inserting
  PROVE  NextCall \in Unused
<1>1. IsFiniteSet(Inserting) /\ IsFiniteSet(Unused)
  <2>1. Inserting \subseteq Workers /\ Unused \subseteq Calls
    BY DEF Inserting, Unused
  <2>2. QED
    BY <2>1, CallAssumption, FS_Subset
<1>2. Cardinality(Inserting) # 0
  BY <1>1, FS_EmptySet
<1>3. Cardinality(Inserting) \in Nat /\ Cardinality(Unused) \in Nat
  BY <1>1, FS_CardinalityType
<1>4. Cardinality(Unused) # 0
  BY <1>2, <1>3 DEF LockInv, RoomForStarts
<1>5. QED
  BY <1>1, <1>4, FS_EmptySet, LeastIsUnused

(* What becomes of a call when another worker than its holder moves. *)
KeptRow(c) ==
  /\ status'[c] = status[c] /\ left'[c] = left[c] /\ history'[c] = history[c]
  /\ shown'[c] \in {shown[c], "ringing"}

LEMMA OnlyHolderWrites ==
  ASSUME LockInv, NEW w \in Workers, StepOf(w), NEW c \in Calls \ Unused
  PROVE  /\ about'[c] = about[c] /\ c \notin Unused'
         /\ ~ Holding(w) \/ call[w] # c => KeptRow(c)
<1> USE DEF Unused, KeptRow
<1>1. Domains /\ StartsLocked /\ CallsNamed
  BY DEF LockInv
<1>2. CASE ~ Writers(w)
  <2>1. UNCHANGED Rows
    BY <1>2, ReadersKeepRows
  <2>2. QED
    BY <2>1 DEF Rows
<1>3. CASE BusyMissed(w) \/ Create(w)
  <2>1. w \in Inserting
    BY <1>1, <1>3 DEF BusyMissed, Create, StartsLocked, Inserting, Early
  <2>2. NextCall \in Unused
    BY <2>1, InsertsUnused
  <2>3. QED
    BY <1>1, <1>3, <2>2 DEF BusyMissed, Create, Insert, Domains
<1>4. CASE PublishRinging(w)
  BY <1>1, <1>4 DEF PublishRinging, Publish, Domains
<1>5. CASE Write(w)
  <2> USE DEF Write, Finish, Holding, Domains
  <2>1. about' = about /\ shown' = shown /\ Holding(w)
    BY <1>5
  <2>2. CASE Accept(w, call[w])
    BY <1>1, <1>5, <2>1, <2>2 DEF Accept
  <2>3. CASE Decline(w, call[w])
    BY <1>1, <1>5, <2>1, <2>3 DEF Decline
  <2>4. CASE End(w, call[w])
    BY <1>1, <1>5, <2>1, <2>4 DEF End
  <2>5. CASE CleanUp(w, call[w])
    BY <1>1, <1>5, <2>1, <2>5 DEF CleanUp
  <2>6. QED
    BY <1>5, <2>2, <2>3, <2>4, <2>5
<1>6. CASE Finalize(w)
  BY <1>1, <1>6 DEF Finalize, Finish, Holding, Domains
<1>7. CASE Signal(w)
  BY <1>1, <1>7 DEF Signal, Publish, Holding, Domains
<1>8. QED
  BY <1>2, <1>3, <1>4, <1>5, <1>6, <1>7 DEF Writers

LEMMA HoldersDiffer ==
  ASSUME CallsLocked, NEW v \in Workers, NEW w \in Workers, v # w,
         Holding(v), Holding(w)
  PROVE  call[v] # call[w]
BY DEF CallsLocked

-----------------------------------------------------------------------------
(* Locks and what is read under them.                                      *)

LEMMA LiveExists == \A c \in Calls : status[c] # "absent" <=> c \notin Unused
BY DEF Unused

LEMMA LeaveEnds ==
  ASSUME Domains, NEW w \in Workers, Leave(w)
  PROVE  /\ pc'[w] \in {"idle", "unlockConv", "recheck", "sweepRinging", "sweepActive"}
         /\ pc'[w] \in {"unlockConv", "recheck"} <=> job[w] = "start"
         /\ job'[w] = "start" <=> job[w] = "start"
BY DEF Domains, Leave, Goto, Resume

NamedBy(w) ==
  /\ Working(w) \/ pc[w] = "ringing" => call[w] \in Calls \ Unused
  /\ list[w] \subseteq Calls \ Unused

LEMMA NamedStep ==
  ASSUME LockInv, NEW w \in Workers, StepOf(w)
  PROVE  CallsNamed'
<1>1. Domains /\ CallsNamed /\ StartsLocked
  BY DEF LockInv
<1>2. \A c \in Calls \ Unused : c \in Calls \ Unused'
  BY OnlyHolderWrites
<1>3. \A v \in Workers \ {w} : Stays(v)
  BY <1>1, OthersStay
<1>4. NamedBy(w)'
  <2> USE <1>1, <1>2 DEF NamedBy, Working, Goto, callVars, startVars
  <2>0. NamedBy(w)
    BY DEF CallsNamed
  <2> USE <2>0 DEF Domains
  <2>1. CASE Begins(w)
    <3>1. CASE \E s \in Starts : BeginStart(w, s)
      BY <3>1 DEF BeginStart
    <3>2. CASE \E c \in Calls, u \in Users, a \in {"accept", "decline", "end"} :
                 BeginRequest(w, a, c, u)
      BY <3>2, LiveExists DEF BeginRequest, Turn
    <3>3. CASE \E v \in Convs, u \in Users : BeginRevoke(w, v, u)
      BY <3>3, LiveExists DEF BeginRevoke, Turn, InConv
    <3>4. QED
      BY <2>1, <3>1, <3>2, <3>3 DEF Begins
  <2>2. CASE StartStep(w)
    <3>1. CASE LockConv(w)
      BY <3>1 DEF LockConv, EndStart
    <3>2. CASE Look(w)
      <4>1. PICK u \in NextUser(w) :
              \/ LiveCallsOf(u) = {} /\ Answered(w, u, FALSE) /\ UNCHANGED <<act, call, who>>
              \/ /\ LiveCallsOf(u) # {}
                 /\ \/ Turn(w, "expire", Latest(LiveCallsOf(u)), u)
                    \/ Turn(w, "ghost", Latest(LiveCallsOf(u)), u)
                    \/ Answered(w, u, TRUE) /\ UNCHANGED <<act, call, who>>
        BY <3>2 DEF Look
      <4>2. LiveCallsOf(u) \subseteq Calls \ Unused
        BY DEF LiveCallsOf, LiveIn, Live, Unused
      <4>3. LiveCallsOf(u) # {} => Latest(LiveCallsOf(u)) \in Calls \ Unused
        BY <4>2, LatestIsOne
      <4>4. UNCHANGED <<callVars, list>>
        BY <3>2 DEF Look
      <4>5. QED
        BY <4>1, <4>3, <4>4 DEF Answered, Turn
    <3>3. CASE Recheck(w)
      BY <3>3 DEF Recheck, Answered
    <3>4. CASE BusyMissed(w)
      BY <3>4 DEF BusyMissed
    <3>5. CASE Create(w)
      <4>1. NextCall \in Unused
        BY <3>5, InsertsUnused DEF Create, StartsLocked, Inserting, Early
      <4>2. QED
        BY <3>5, <4>1 DEF Create, Insert, Unused
    <3>6. CASE PublishRinging(w) \/ UnlockConv(w)
      BY <3>6 DEF PublishRinging, UnlockConv, EndStart
    <3>7. QED
      BY <2>2, <3>1, <3>2, <3>3, <3>4, <3>5, <3>6 DEF StartStep
  <2>3. CASE CallStep(w)
    <3>1. CASE RevokeActive(w)
      BY <3>1, LiveExists, LeaveEnds DEF RevokeActive, Turn, InConv
    <3>2. CASE LockTimeout(w) \/ Unlock(w)
      BY <3>2, LeaveEnds DEF LockTimeout, Unlock
    <3>3. CASE LockCall(w) \/ Read(w) \/ Finalize(w) \/ Signal(w)
      BY <3>3 DEF LockCall, Read, Finalize, Signal
    <3>4. CASE Write(w)
      BY <3>4 DEF Write
    <3>5. QED
      BY <2>3, <3>1, <3>2, <3>3, <3>4 DEF CallStep
  <2>4. CASE SweepStep(w)
    <3>1. CASE SweepStart(w)
      BY <3>1 DEF SweepStart
    <3>2. CASE ListRinging(w)
      BY <3>2, LiveExists DEF ListRinging, RingingExpired
    <3>3. CASE ListActive(w)
      BY <3>3, LiveExists DEF ListActive
    <3>4. CASE SweepRinging(w)
      BY <3>4 DEF SweepRinging, Turn
    <3>5. CASE SweepActive(w)
      BY <3>5 DEF SweepActive, Turn
    <3>6. QED
      BY <2>4, <3>1, <3>2, <3>3, <3>4, <3>5 DEF SweepStep
  <2>5. CASE WriteFails(w) \/ CreateFails(w)
    BY <2>5 DEF WriteFails, CreateFails
  <2>6. CASE Crash(w)
    BY <2>6 DEF Crash
  <2>7. QED
    BY <2>1, <2>2, <2>3, <2>4, <2>5, <2>6 DEF StepOf
<1>5. QED
  BY <1>1, <1>2, <1>3, <1>4 DEF CallsNamed, NamedBy, Stays, Working

LEMMA LockedStep ==
  ASSUME LockInv, NEW w \in Workers, StepOf(w)
  PROVE  CallsLocked'
<1>1. Domains /\ CallsNamed /\ CallsLocked
  BY DEF LockInv
<1>2. \A v \in Workers \ {w} : Stays(v)
  BY <1>1, OthersStay
<1>3. ASSUME Holding(w)' PROVE lock'[<<"call", call'[w]>>] = w
  <2> USE <1>1, <1>3 DEF Holding, Goto, Domains
  <2>1. Holding(w) => lock[<<"call", call[w]>>] = w
    BY DEF CallsLocked
  <2>2. Working(w) => <<"call", call[w]>> \in Keys
    BY DEF CallsNamed, Keys
  <2>3. ~ Begins(w) /\ ~ SweepStep(w) /\ ~ Crash(w)
    BY DEF Begins, BeginStart, BeginRequest, BeginRevoke, Turn, SweepStep, SweepStart,
           ListRinging, ListActive, SweepRinging, SweepActive, Crash
  <2>4. ~ StartStep(w) /\ ~ CreateFails(w)
    BY DEF StartStep, LockConv, EndStart, Look, Turn, Recheck, Answered, BusyMissed,
           Create, PublishRinging, UnlockConv, CreateFails
  <2>5. CASE LockCall(w)
    BY <2>2, <2>5 DEF LockCall, Acquire, Working
  <2>6. CASE Read(w) \/ Finalize(w) \/ Signal(w) \/ WriteFails(w)
    BY <2>1, <2>6 DEF Read, Finalize, Signal, WriteFails
  <2>7. CASE Write(w)
    BY <2>1, <2>7 DEF Write, KeepLock
  <2>8. CASE RevokeActive(w) \/ LockTimeout(w) \/ Unlock(w)
    BY <2>8, LeaveEnds DEF RevokeActive, LockTimeout, Unlock, Turn
  <2>9. QED
    BY <2>3, <2>4, <2>5, <2>6, <2>7, <2>8 DEF StepOf, CallStep
<1>4. ASSUME NEW v \in Workers \ {w}, Holding(v)' PROVE lock'[<<"call", call'[v]>>] = v
  <2>1. Holding(v) /\ Stays(v) /\ <<"call", call[v]>> \in Keys
    BY <1>1, <1>2, <1>4 DEF Stays, Holding, CallsNamed, Working, Keys
  <2>2. QED
    BY <1>1, <2>1 DEF CallsLocked, Stays
<1>5. QED
  BY <1>3, <1>4 DEF CallsLocked

FreshBy(w) ==
  /\ pc[w] = "write" => seen[w] = status[call[w]] /\ Allowed(w, call[w])
  /\ pc[w] = "finalize" => status[call[w]] = "RINGING" /\ act[w] = "decline"
  /\ pc[w] = "signal" /\ act[w] = "accept" => status[call[w]] = "ACTIVE"

LEMMA FreshStep ==
  ASSUME LockInv, NEW w \in Workers, StepOf(w)
  PROVE  RowsFresh'
<1>1. Domains /\ CallsNamed /\ CallsLocked /\ RowsFresh
  BY DEF LockInv
<1>2. \A v \in Workers \ {w} : Stays(v)
  BY <1>1, OthersStay
<1>3. FreshBy(w)'
  <2> USE <1>1 DEF FreshBy, Goto, Domains
  <2>0. FreshBy(w) /\ (Working(w) => call[w] \in Calls)
    BY DEF RowsFresh, CallsNamed
  <2>1. ~ Read(w) /\ ~ Write(w) /\ ~ Finalize(w)
          => pc'[w] \notin {"write", "finalize", "signal"}
    <3>1. CASE Begins(w) \/ SweepStep(w) \/ Crash(w)
      BY <3>1 DEF Begins, BeginStart, BeginRequest, BeginRevoke, Turn, SweepStep,
                  SweepStart, ListRinging, ListActive, SweepRinging, SweepActive, Crash
    <3>2. CASE StartStep(w) \/ CreateFails(w)
      BY <3>2 DEF StartStep, LockConv, EndStart, Look, Turn, Recheck, Answered,
                  BusyMissed, Create, PublishRinging, UnlockConv, CreateFails
    <3>3. CASE LockCall(w) \/ Signal(w) \/ WriteFails(w)
      BY <3>3 DEF LockCall, Signal, WriteFails
    <3>4. CASE RevokeActive(w) \/ LockTimeout(w) \/ Unlock(w)
      BY <3>4, LeaveEnds DEF RevokeActive, LockTimeout, Unlock, Turn
    <3>5. QED
      BY <3>1, <3>2, <3>3, <3>4 DEF StepOf, CallStep
  <2>2. CASE Read(w)
    BY <2>0, <2>2 DEF Read, callVars, Allowed, IsGroup
  <2>3. CASE Write(w)
    <3>1. CASE Accept(w, call[w])
      BY <2>0, <2>3, <3>1 DEF Write, Accept, Allowed, Working
    <3>2. CASE Decline(w, call[w])
      BY <2>0, <2>3, <3>2 DEF Write, Decline, Allowed
    <3>3. CASE End(w, call[w]) \/ CleanUp(w, call[w])
      BY <2>0, <2>3, <3>3 DEF Write, End, CleanUp
    <3>4. QED
      BY <2>3, <3>1, <3>2, <3>3 DEF Write
  <2>4. CASE Finalize(w)
    BY <2>0, <2>4 DEF Finalize
  <2>5. QED
    BY <2>1, <2>2, <2>3, <2>4
<1>4. ASSUME NEW v \in Workers \ {w} PROVE FreshBy(v)'
  <2>1. FreshBy(v) /\ Stays(v)
    BY <1>1, <1>2 DEF RowsFresh, FreshBy
  <2>2. CASE ~ Holding(v)
    BY <2>1, <2>2 DEF FreshBy, Stays, Holding
  <2>3. CASE Holding(v)
    <3>1. call[v] \in Calls \ Unused
      BY <1>1, <2>3 DEF CallsNamed, Working, Holding
    <3>2. Holding(w) => call[w] # call[v]
      BY <1>1, <2>3, HoldersDiffer
    <3>3. about'[call[v]] = about[call[v]] /\ KeptRow(call[v])
      BY <3>1, <3>2, OnlyHolderWrites
    <3>4. QED
      BY <2>1, <3>3 DEF FreshBy, Stays, KeptRow, Allowed, IsGroup
  <2>4. QED
    BY <2>2, <2>3
<1>5. QED
  BY <1>3, <1>4 DEF RowsFresh, FreshBy

-----------------------------------------------------------------------------
(* Starts.                                                                 *)

StartBy(w) ==
  /\ pc[w] \in Early \cup {"ringing", "unlockConv"} => job[w] = "start"
  /\ job[w] = "start" =>
       /\ ring[w] \in Starts
       /\ pc[w] \in Early \cup {"ringing", "unlockConv"} \/ Working(w)
       /\ pc[w] # "lockConv" => lock[<<"conv", ring[w].conv>>] = w

LEMMA StartedStep ==
  ASSUME LockInv, NEW w \in Workers, StepOf(w)
  PROVE  StartsLocked'
<1>1. Domains /\ StartsLocked
  BY DEF LockInv
<1>2. \A v \in Workers \ {w} : Stays(v)
  BY <1>1, OthersStay
<1>0. \A s \in Starts : <<"conv", s.conv>> \in Keys
  BY CallAssumption DEF Keys
<1>3. StartBy(w)'
  <2> USE <1>1 DEF StartBy, Working, Early, Goto, Domains
  <2>0. StartBy(w)
    BY DEF StartsLocked
  <2>1. CASE Begins(w)
    BY <2>0, <2>1 DEF Begins, BeginStart, BeginRequest, BeginRevoke, Turn
  <2>2. CASE StartStep(w)
    <3>1. CASE LockConv(w)
      BY <1>0, <2>0, <3>1 DEF LockConv, Acquire, EndStart, startVars
    <3>2. CASE Look(w) \/ Recheck(w)
      BY <2>0, <3>2 DEF Look, Turn, Recheck, Answered
    <3>3. CASE BusyMissed(w) \/ Create(w) \/ PublishRinging(w)
      BY <2>0, <3>3 DEF BusyMissed, Create, PublishRinging, startVars
    <3>4. CASE UnlockConv(w)
      BY <3>4 DEF UnlockConv, EndStart
    <3>5. QED
      BY <2>2, <3>1, <3>2, <3>3, <3>4 DEF StartStep
  <2>3. CASE CallStep(w)
    <3>1. CASE RevokeActive(w)
      BY <2>0, <3>1, LeaveEnds DEF RevokeActive, Turn
    <3>2. CASE LockCall(w)
      BY <1>0, <2>0, <3>2 DEF LockCall, Acquire, LockFree, startVars
    <3>3. CASE LockTimeout(w)
      BY <2>0, <3>3, LeaveEnds DEF LockTimeout, startVars
    <3>4. CASE Unlock(w)
      BY <1>0, <2>0, <3>4, LeaveEnds DEF Unlock, Release, startVars
    <3>5. CASE Read(w) \/ Write(w) \/ Finalize(w) \/ Signal(w)
      BY <2>0, <3>5
      DEF Read, Write, Accept, Decline, End, CleanUp, KeepLock, Finalize, Signal, startVars
    <3>6. QED
      BY <2>3, <3>1, <3>2, <3>3, <3>4, <3>5 DEF CallStep
  <2>4. CASE SweepStep(w)
    BY <2>0, <2>4 DEF SweepStep, SweepStart, ListRinging, ListActive, SweepRinging,
                      SweepActive, Turn, startVars
  <2>5. CASE WriteFails(w) \/ CreateFails(w)
    BY <2>0, <2>5 DEF WriteFails, CreateFails, startVars
  <2>6. CASE Crash(w)
    BY <2>6 DEF Crash
  <2>7. QED
    BY <2>1, <2>2, <2>3, <2>4, <2>5, <2>6 DEF StepOf
<1>4. ASSUME NEW v \in Workers \ {w} PROVE StartBy(v)'
  BY <1>0, <1>1, <1>2 DEF StartsLocked, StartBy, Stays, Working
<1>5. QED
  BY <1>3, <1>4 DEF StartsLocked, StartBy

\* A worker is inserting at most if it was, or begins to.
LEMMA InsertingShrinks ==
  ASSUME LockInv, NEW w \in Workers, StepOf(w)
  PROVE  /\ ~ Begins(w) => Inserting' \subseteq Inserting
         /\ Inserting' \subseteq Inserting \cup {w}
         /\ BusyMissed(w) \/ Create(w) => Inserting' \subseteq Inserting \ {w}
<1>1. Domains /\ StartsLocked
  BY DEF LockInv
<1>2. \A v \in Workers \ {w} : v \in Inserting' <=> v \in Inserting
  BY <1>1, OthersStay DEF Inserting, Stays, Working
<1>3. Inserting' \subseteq Workers
  BY DEF Inserting
<1>4. ASSUME ~ Begins(w), w \in Inserting' PROVE w \in Inserting
  <2> USE <1>1 DEF Working, Early, Goto, Domains
  <2>1. job'[w] = "start" /\ (pc'[w] \in Early \/ Working(w)')
    BY <1>4 DEF Inserting
  <2>2. CASE StartStep(w)
    BY <2>1, <2>2 DEF StartStep, StartsLocked, Inserting, LockConv, EndStart, Look, Recheck,
                      BusyMissed, Create, PublishRinging, UnlockConv
  <2>3. CASE LockCall(w) \/ Read(w) \/ Write(w) \/ Finalize(w) \/ Signal(w)
    BY <2>1, <2>3 DEF Inserting, LockCall, Read, Write, Finalize, Signal
  <2>4. CASE RevokeActive(w)
    BY <2>1, <2>4, LeaveEnds DEF StartsLocked, RevokeActive, Turn
  <2>5. CASE LockTimeout(w) \/ Unlock(w)
    BY <2>1, <2>5, LeaveEnds DEF Inserting, LockTimeout, Unlock
  <2>6. CASE SweepStep(w)
    <3>1. pc[w] \in {"idle", "listRinging", "sweepRinging", "listActive", "sweepActive"}
      BY <2>6 DEF SweepStep, SweepStart, ListRinging, ListActive, SweepRinging, SweepActive
    <3>2. job[w] # "start"
      BY <3>1 DEF StartsLocked
    <3>3. job'[w] # "start"
      BY <2>6, <3>2 DEF SweepStep, SweepStart, ListRinging, ListActive, SweepRinging,
                        SweepActive
    <3>4. QED
      BY <2>1, <3>3
  <2>7. CASE WriteFails(w) \/ CreateFails(w) \/ Crash(w)
    BY <2>1, <2>7 DEF Inserting, WriteFails, CreateFails, Crash
  <2>8. QED
    BY <1>4, <2>2, <2>3, <2>4, <2>5, <2>6, <2>7 DEF StepOf, CallStep
<1>5. ASSUME BusyMissed(w) \/ Create(w) PROVE w \notin Inserting'
  BY <1>1, <1>5 DEF Domains, BusyMissed, Create, Goto, Inserting, Early, Working
<1>6. BusyMissed(w) \/ Create(w) => ~ Begins(w)
  BY DEF BusyMissed, Create, Begins, BeginStart, BeginRequest, BeginRevoke
<1>7. QED
  BY <1>2, <1>3, <1>4, <1>5, <1>6

LEMMA RoomStep ==
  ASSUME LockInv, NEW w \in Workers, StepOf(w)
  PROVE  RoomForStarts'
<1>1. Domains /\ StartsLocked /\ RoomForStarts
  BY DEF LockInv
<1>2. /\ IsFiniteSet(Inserting) /\ IsFiniteSet(Inserting')
      /\ IsFiniteSet(Unused) /\ IsFiniteSet(Unused') /\ IsFiniteSet(InStart)
  <2>1. /\ Inserting \subseteq Workers /\ Inserting' \subseteq Workers
        /\ Unused \subseteq Calls /\ Unused' \subseteq Calls /\ InStart \subseteq Workers
    BY DEF Inserting, Unused, InStart
  <2>2. QED
    BY <2>1, CallAssumption, FS_Subset
<1>3. /\ Cardinality(Inserting) \in Nat /\ Cardinality(Inserting') \in Nat
      /\ Cardinality(Unused) \in Nat /\ Cardinality(Unused') \in Nat
      /\ Cardinality(InStart) \in Nat
  BY <1>2, FS_CardinalityType
<1>4. CASE BusyMissed(w) \/ Create(w)
  <2>1. w \in Inserting
    BY <1>1, <1>4 DEF BusyMissed, Create, StartsLocked, Inserting, Early
  <2>2. Unused \ {NextCall} \subseteq Unused'
    BY <1>1, <1>4 DEF BusyMissed, Create, Insert, Unused, Domains
  <2>3. Inserting' \subseteq Inserting \ {w}
    BY <1>4, InsertingShrinks
  <2>4. /\ Cardinality(Inserting') <= Cardinality(Inserting \ {w})
        /\ Cardinality(Inserting \ {w}) = Cardinality(Inserting) - 1
    BY <1>2, <2>1, <2>3, FS_Subset, FS_RemoveElement
  <2>5. /\ Cardinality(Unused \ {NextCall}) <= Cardinality(Unused')
        /\ Cardinality(Unused \ {NextCall}) >= Cardinality(Unused) - 1
    BY <1>2, <1>3, <2>2, FS_Subset, FS_RemoveElement
  <2>6. Cardinality(Inserting \ {w}) \in Nat /\ Cardinality(Unused \ {NextCall}) \in Nat
    BY <1>2, FS_RemoveElement, FS_CardinalityType
  <2>7. QED
    BY <1>1, <1>3, <2>4, <2>5, <2>6 DEF RoomForStarts
<1>5. CASE ~ (BusyMissed(w) \/ Create(w))
  <2>1. Unused \subseteq Unused'
    <3>1. CASE ~ Writers(w)
      BY <3>1, ReadersKeepRows DEF Rows, Unused
    <3>2. CASE Write(w)
      <4>1. status[call[w]] # "absent" /\ (\A c \in Calls : c # call[w] => status'[c] = status[c])
        BY <1>1, <3>2 DEF LockInv, CallsNamed, Working, Unused, Write, Domains, Accept, Decline,
                          End, CleanUp, Finish
      <4>2. QED
        BY <4>1 DEF Unused
    <3>3. CASE Finalize(w)
      <4>1. status[call[w]] # "absent" /\ (\A c \in Calls : c # call[w] => status'[c] = status[c])
        BY <1>1, <3>3 DEF LockInv, CallsNamed, Working, Unused, Finalize, Domains, Finish
      <4>2. QED
        BY <4>1 DEF Unused
    <3>4. CASE PublishRinging(w) \/ Signal(w)
      BY <3>4 DEF PublishRinging, Signal, Unused
    <3>5. QED
      BY <1>5, <3>1, <3>2, <3>3, <3>4 DEF Writers
  <2>2. Cardinality(Unused) <= Cardinality(Unused')
    BY <1>2, <2>1, FS_Subset
  <2>3. CASE ~ Begins(w)
    <3>1. Cardinality(Inserting') <= Cardinality(Inserting)
      BY <1>2, <2>3, InsertingShrinks, FS_Subset
    <3>2. QED
      BY <1>1, <1>3, <2>2, <3>1 DEF RoomForStarts
  <2>4. CASE \E s \in Starts : BeginStart(w, s)
    <3>1. Cardinality(InStart) < Cardinality(Unused) /\ pc[w] = "idle"
      BY <2>4 DEF BeginStart
    <3>2. Inserting \subseteq InStart /\ w \notin Inserting
      BY <3>1 DEF Inserting, InStart, Early, Working
    <3>3. Cardinality(Inserting) <= Cardinality(InStart)
      BY <1>2, <3>2, FS_Subset
    <3>4. /\ Cardinality(Inserting') <= Cardinality(Inserting \cup {w})
          /\ Cardinality(Inserting \cup {w}) = Cardinality(Inserting) + 1
      <4>1. Inserting' \subseteq Inserting \cup {w}
        BY InsertingShrinks
      <4>2. QED
        BY <1>2, <3>2, <4>1, FS_AddElement, FS_Subset
    <3>5. QED
      BY <1>3, <2>2, <3>1, <3>3, <3>4 DEF RoomForStarts
  <2>5. CASE Begins(w) /\ ~ \E s \in Starts : BeginStart(w, s)
    <3>1. job'[w] = "request"
      BY <1>1, <2>5 DEF Begins, BeginRequest, BeginRevoke, Domains
    <3>2. w \notin Inserting'
      BY <3>1 DEF Inserting
    <3>3. Inserting' \subseteq Inserting
      BY <3>2, InsertingShrinks
    <3>4. Cardinality(Inserting') <= Cardinality(Inserting)
      BY <1>2, <3>3, FS_Subset
    <3>5. QED
      BY <1>1, <1>3, <2>2, <3>4 DEF RoomForStarts
  <2>6. QED
    BY <2>3, <2>4, <2>5 DEF Begins
<1>6. QED
  BY <1>4, <1>5

-----------------------------------------------------------------------------
(* What a write does to its row.                                           *)

LEMMA WrittenIsLive ==
  ASSUME LockInv, NEW w \in Workers, pc[w] \in {"write", "finalize"}
  PROVE  /\ call[w] \in Calls \ Unused /\ status[call[w]] \notin Terminal
         /\ pc[w] = "write" /\ act[w] = "accept" => status[call[w]] \in Live
         /\ pc[w] = "write" /\ act[w] = "decline" => status[call[w]] = "RINGING"
         /\ pc[w] = "write" => seen[w] = status[call[w]]
<1>1. CallsNamed /\ RowsFresh
  BY DEF LockInv
<1>2. call[w] \in Calls \ Unused
  BY <1>1 DEF CallsNamed, Working
<1>3. CASE pc[w] = "write"
  BY <1>1, <1>2, <1>3 DEF RowsFresh, Allowed, Terminal, Live
<1>4. CASE pc[w] = "finalize"
  BY <1>1, <1>2, <1>4 DEF RowsFresh, Terminal
<1>5. QED
  BY <1>3, <1>4

(* The transactions, by their effect. *)
Over(w, s, messages) ==
  /\ status' = [status EXCEPT ![call[w]] = s] /\ s \in Terminal
  /\ history' = [history EXCEPT ![call[w]] = @ \cup messages]
  /\ left' = [left EXCEPT ![call[w]] = Participants(call[w])]
  /\ about' = about /\ shown' = shown

Joined(w) ==
  /\ status' = [status EXCEPT ![call[w]] = "ACTIVE"]
  /\ left' = [left EXCEPT ![call[w]] = @ \ {who[w]}]
  /\ history' = history /\ about' = about /\ shown' = shown
  /\ status[call[w]] \in Live

Declined(w) ==
  /\ IsGroup(call[w]) /\ status[call[w]] = "RINGING"
  /\ left' = [left EXCEPT ![call[w]] = @ \cup ({who[w]} \cap Participants(call[w]))]
  /\ status' = status /\ history' = history /\ about' = about /\ shown' = shown

LEMMA TransactionEffect ==
  ASSUME LockInv, NEW w \in Workers, Write(w) \/ Finalize(w)
  PROVE  /\ call[w] \in Calls \ Unused /\ status[call[w]] \notin Terminal
         /\ \/ Joined(w) \/ Declined(w)
            \/ \E s \in Terminal : Over(w, s, {})
            \/ \E s \in Terminal, m \in {"rejected", "missed", "ended"} : Over(w, s, {m})
<1>0. Domains
  BY DEF LockInv
<1>1. pc[w] \in {"write", "finalize"}
  BY DEF Write, Finalize
<1>2. call[w] \in Calls \ Unused /\ status[call[w]] \notin Terminal
  BY <1>1, WrittenIsLive
<1> USE DEF Terminal, Finish, Over
<1>3. CASE Finalize(w)
  BY <1>2, <1>3 DEF Finalize
<1>4. CASE Write(w)
  <2>0. pc[w] = "write" /\ about' = about /\ shown' = shown /\ seen[w] = status[call[w]]
    BY <1>4, WrittenIsLive DEF Write
  <2>1. CASE Accept(w, call[w])
    <3>1. status[call[w]] \in Live
      BY <2>0, <2>1, WrittenIsLive DEF Accept
    <3>2. status' = [status EXCEPT ![call[w]] = "ACTIVE"]
      BY <1>0, <1>2, <2>0, <2>1, <3>1 DEF Accept, Live, Domains
    <3>3. QED
      BY <1>2, <2>0, <2>1, <3>1, <3>2 DEF Accept, Joined
  <2>2. CASE Decline(w, call[w])
    BY <1>2, <2>0, <2>2, WrittenIsLive DEF Decline, Declined
  <2>3. CASE End(w, call[w])
    BY <1>2, <2>0, <2>3 DEF End
  <2>4. CASE CleanUp(w, call[w])
    BY <1>2, <2>0, <2>4 DEF CleanUp
  <2>5. QED
    BY <1>4, <2>1, <2>2, <2>3, <2>4 DEF Write
<1>5. QED
  BY <1>3, <1>4

(* The insert of a call. *)
LEMMA InsertEffect ==
  ASSUME LockInv, NEW w \in Workers, BusyMissed(w) \/ Create(w)
  PROVE  /\ NextCall \in Unused /\ w \in Inserting /\ ring[w] \in Starts
         /\ \A c \in Calls \ {NextCall} :
              /\ status'[c] = status[c] /\ about'[c] = about[c] /\ left'[c] = left[c]
              /\ history'[c] = history[c] /\ shown'[c] = shown[c]
         /\ shown'[NextCall] = "nothing"
         /\ \/ /\ BusyMissed(w) /\ status'[NextCall] = "MISSED" /\ about'[NextCall] = ring[w]
               /\ left'[NextCall] = {ring[w].caller} \cup ring[w].callees
               /\ history'[NextCall] = {"busy"}
            \/ /\ Create(w) /\ status'[NextCall] = "RINGING"
               /\ about'[NextCall] = [ring[w] EXCEPT !.callees = ready[w]]
               /\ left'[NextCall] = {} /\ history'[NextCall] = {}
<1>1. Domains /\ StartsLocked /\ FreshRows
  BY DEF LockInv
<1>2. w \in Inserting /\ ring[w] \in Starts
  BY <1>1 DEF BusyMissed, Create, StartsLocked, Inserting, Early
<1>3. NextCall \in Unused /\ NextCall \in Calls
  BY <1>2, InsertsUnused DEF Unused
<1>4. left[NextCall] = {} /\ history[NextCall] = {} /\ shown[NextCall] = "nothing"
  BY <1>1, <1>3 DEF FreshRows
<1>5. CASE BusyMissed(w)
  BY <1>1, <1>2, <1>3, <1>4, <1>5 DEF BusyMissed, Insert, Domains
<1>6. CASE Create(w)
  BY <1>1, <1>2, <1>3, <1>4, <1>6 DEF Create, Insert, Domains
<1>7. QED
  BY <1>5, <1>6

LEMMA FreshRowsStep ==
  ASSUME LockInv, NEW w \in Workers, StepOf(w)
  PROVE  FreshRows'
<1>1. Domains /\ CallsNamed /\ FreshRows
  BY DEF LockInv
<1>2. SUFFICES ASSUME NEW c \in Unused'
               PROVE  left'[c] = {} /\ history'[c] = {} /\ shown'[c] = "nothing"
  BY DEF FreshRows
<1>3. c \in Unused /\ c \in Calls
  BY OnlyHolderWrites DEF Unused
<1>4. left[c] = {} /\ history[c] = {} /\ shown[c] = "nothing"
  BY <1>1, <1>3 DEF FreshRows
<1>5. CASE ~ Writers(w)
  BY <1>4, <1>5, ReadersKeepRows DEF Rows
<1>6. CASE BusyMissed(w) \/ Create(w)
  <2>1. status'[c] = "absent"
    BY <1>2 DEF Unused
  <2>2. c # NextCall
    BY <1>6, <2>1, InsertEffect
  <2>3. QED
    BY <1>3, <1>4, <1>6, <2>2, InsertEffect
<1>7. CASE Write(w) \/ Finalize(w)
  <2>1. c # call[w]
    BY <1>3, <1>7, TransactionEffect
  <2>2. QED
    BY <1>1, <1>3, <1>4, <1>7, <2>1, TransactionEffect DEF Joined, Declined, Over, Domains
<1>8. CASE PublishRinging(w) \/ Signal(w)
  <2>1. c # call[w]
    BY <1>1, <1>3, <1>8 DEF PublishRinging, Signal, CallsNamed, Working
  <2>2. QED
    BY <1>1, <1>3, <1>4, <1>8, <2>1 DEF PublishRinging, Signal, Publish, Domains
<1>9. QED
  BY <1>5, <1>6, <1>7, <1>8 DEF Writers

LEMMA LockStep ==
  ASSUME LockInv, [Next]_vars, MaxExpiries = 0
  PROVE  LockInv'
<1>1. CASE \E w \in Workers : StepOf(w)
  BY <1>1, OthersStay, NamedStep, LockedStep, FreshStep, StartedStep, RoomStep, FreshRowsStep
  DEF LockInv
<1>2. CASE \E k \in Keys : LockExpires(k)
  <2>1. PICK k \in Keys : LockExpires(k)
    BY <1>2
  <2>2. lock[k] = "dead" /\ expiries' = expiries
    BY <2>1 DEF LockExpires, LockInv, Domains
  <2>3. \A v \in Workers, i \in Keys : lock[i] = v => lock'[i] = v
    BY <2>1, <2>2, CallAssumption DEF LockExpires, LockInv, Domains
  <2>4. UNCHANGED <<callVars, workVars, startVars, list, faults>>
    BY <2>1 DEF LockExpires
  <2>5. Domains'
    BY <2>1, <2>2, <2>4 DEF LockExpires, LockInv, Domains, callVars, workVars, startVars
  <2>6. CallsLocked' /\ StartsLocked'
    <3>1. \A w \in Workers : Working(w) => <<"call", call[w]>> \in Keys
      BY DEF LockInv, CallsNamed, Keys
    <3>2. \A s \in Starts : <<"conv", s.conv>> \in Keys
      BY CallAssumption DEF Keys
    <3>3. QED
      BY <2>3, <2>4, <3>1, <3>2
      DEF LockInv, CallsLocked, StartsLocked, Holding, Working, Early, workVars, startVars
  <2>7. CallsNamed' /\ RowsFresh' /\ FreshRows'
    BY <2>4 DEF LockInv, CallsNamed, RowsFresh, FreshRows, Working, Unused, Allowed,
                IsGroup, callVars, workVars
  <2>8. RoomForStarts'
    BY <2>4 DEF LockInv, RoomForStarts, Inserting, Working, Unused, callVars, workVars
  <2>9. QED
    BY <2>5, <2>6, <2>7, <2>8 DEF LockInv
<1>3. CASE (\E c \in Calls : GrowsOld(c)) \/ UNCHANGED vars
  <2>1. UNCHANGED <<status, about, left, history, shown, lock, workVars, startVars, list,
                    faults, expiries>>
    BY <1>3 DEF GrowsOld, vars, callVars
  <2>2. QED
    BY <2>1 DEF LockInv, Domains, CallsNamed, CallsLocked, RowsFresh, StartsLocked,
                RoomForStarts, FreshRows, Working, Holding, Inserting, Unused, Allowed,
                IsGroup, workVars, startVars
<1>4. QED
  BY <1>1, <1>2, <1>3, NextIsStep

-----------------------------------------------------------------------------
(* A start knows its callees.                                              *)

CalleesBy(w) ==
  /\ todo[w] \subseteq ring[w].callees /\ ready[w] \subseteq ring[w].callees
  /\ pc[w] # "busyMissed" /\ ring[w].callees # {} => todo[w] # {} \/ ready[w] # {}
  /\ pc[w] = "recheck" \/ Working(w) => who[w] \in NextUser(w)
  /\ pc[w] = "create" => todo[w] = {}

LEMMA AnsweredKnows ==
  ASSUME LockInv, NEW w \in Workers, w \in Inserting, CalleesBy(w), pc[w] # "busyMissed",
         NEW u \in NextUser(w), NEW busy \in BOOLEAN, Answered(w, u, busy),
         ring' = ring, w \in Inserting'
  PROVE  /\ CalleesBy(w)'
         /\ pc'[w] = "create" => u = ring[w].caller /\ ~ busy
         /\ ready'[w] \subseteq IF busy THEN ready[w] ELSE ready[w] \cup {u}
<1>1. Domains /\ ring[w] \in Starts
  BY DEF LockInv, StartsLocked, Inserting
<1>2. CASE todo[w] = {}
  <2>1. u = ring[w].caller
    BY <1>2 DEF NextUser
  <2>2. pc'[w] \in {"unlockConv", "create"} /\ todo' = todo /\ ready' = ready
        /\ (pc'[w] = "create" => ~ busy)
    BY <1>1, <1>2 DEF Answered, Goto, Domains
  <2>3. QED
    BY <1>2, <2>1, <2>2 DEF CalleesBy, Working
<1>3. CASE todo[w] # {}
  <2>1. u \in todo[w]
    BY <1>3 DEF NextUser
  <2>2. /\ todo'[w] = todo[w] \ {u}
        /\ ready'[w] = IF busy THEN ready[w] ELSE ready[w] \cup {u}
        /\ pc'[w] = IF busy /\ Cardinality(ring[w].callees) = 1 THEN "busyMissed"
                    ELSE IF todo'[w] = {} /\ ready'[w] = {} THEN "unlockConv" ELSE "look"
    BY <1>1, <1>3 DEF Answered, Goto, Domains
  <2>3. pc'[w] # "unlockConv"
    BY DEF Inserting, Early, Working
  <2>4. QED
    BY <2>1, <2>2, <2>3 DEF CalleesBy, Working
<1>4. QED
  BY <1>2, <1>3

LEMMA CalleesStep ==
  ASSUME LockInv, CalleesKnown, NEW w \in Workers, StepOf(w)
  PROVE  CalleesKnown'
<1>1. Domains /\ StartsLocked
  BY DEF LockInv
<1>2. \A v \in Workers \ {w} : Stays(v)
  BY <1>1, OthersStay
<1>3. ASSUME w \in Inserting' PROVE CalleesBy(w)'
  <2>1. CASE Begins(w)
    <3>1. PICK s \in Starts : BeginStart(w, s)
      <4>1. job'[w] = "start" /\ job[w] # "start"
        BY <1>1, <1>3, <2>1
        DEF Inserting, StartsLocked, Early, Working, Begins, BeginStart, BeginRequest, BeginRevoke
      <4>2. QED
        BY <1>1, <2>1, <4>1 DEF Begins, BeginRequest, BeginRevoke, Domains
    <3>2. QED
      BY <1>1, <3>1, CallAssumption
      DEF BeginStart, Goto, CalleesBy, Working, Domains
  <2>2. CASE ~ Begins(w)
    <3>1. w \in Inserting /\ CalleesBy(w) /\ job[w] = "start" /\ ring[w] \in Starts
      BY <1>1, <1>3, <2>2, InsertingShrinks
      DEF CalleesKnown, CalleesBy, Inserting, StartsLocked
    <3> USE <3>1 DEF Goto, Domains
    <3>2. CASE Look(w)
      <4>1. PICK u \in NextUser(w) :
              \/ Turn(w, "expire", Latest(LiveCallsOf(u)), u) /\ UNCHANGED <<todo, ready>>
              \/ Turn(w, "ghost", Latest(LiveCallsOf(u)), u) /\ UNCHANGED <<todo, ready>>
              \/ Answered(w, u, TRUE) \/ Answered(w, u, FALSE)
        BY <3>2 DEF Look
      <4>2. pc[w] # "busyMissed" /\ ring' = ring
        BY <3>2 DEF Look
      <4>3. CASE Answered(w, u, TRUE) \/ Answered(w, u, FALSE)
        BY <1>3, <4>2, <4>3, AnsweredKnows
      <4>4. CASE /\ todo' = todo /\ ready' = ready
                 /\ \/ Turn(w, "expire", Latest(LiveCallsOf(u)), u)
                    \/ Turn(w, "ghost", Latest(LiveCallsOf(u)), u)
        BY <1>1, <4>2, <4>4 DEF Turn, CalleesBy, NextUser, Working
      <4>5. QED
        BY <4>1, <4>3, <4>4
    <3>3. CASE Recheck(w)
      <4>1. who[w] \in NextUser(w)
        BY <3>3 DEF Recheck, CalleesBy
      <4>2. QED
        BY <1>3, <3>3, <4>1, AnsweredKnows DEF Recheck
    <3>4. CASE LockConv(w)
      BY <1>1, <1>3, <3>4 DEF LockConv, EndStart, Inserting, CalleesBy, Working, startVars
    <3>5. CASE BusyMissed(w) \/ Create(w) \/ PublishRinging(w) \/ UnlockConv(w)
      BY <1>1, <1>3, <3>5 DEF Inserting, Early, Working, BusyMissed, Create, PublishRinging,
                              UnlockConv, EndStart
    <3>6. CASE LockTimeout(w) \/ Unlock(w)
      <4>1. Working(w) /\ Leave(w) /\ UNCHANGED startVars
        BY <3>6 DEF LockTimeout, Unlock, Working
      <4>2. pc'[w] \in {"recheck", "unlockConv"} /\ who'[w] = who[w]
        BY <1>1, <4>1 DEF Leave, Resume
      <4>3. QED
        BY <1>3, <4>1, <4>2 DEF CalleesBy, NextUser, Inserting, Early, Working, startVars
    <3>7. CASE LockCall(w) \/ Read(w) \/ Finalize(w) \/ Signal(w) \/ WriteFails(w)
      <4>1. Working(w) /\ Working(w)' /\ pc'[w] # "busyMissed" /\ pc'[w] # "create"
        BY <1>1, <3>7 DEF LockCall, Read, Finalize, Signal, WriteFails, Working
      <4>2. UNCHANGED <<startVars, who>>
        BY <3>7 DEF LockCall, Read, Finalize, Signal, WriteFails
      <4>3. QED
        BY <4>1, <4>2 DEF CalleesBy, NextUser, startVars, Working
    <3>8. CASE Write(w)
      <4>1. Working(w) /\ Working(w)' /\ pc'[w] # "busyMissed" /\ pc'[w] # "create"
        BY <1>1, <3>8 DEF Write, Accept, Decline, End, CleanUp, Working
      <4>2. UNCHANGED <<startVars, who>>
        BY <3>8 DEF Write
      <4>3. QED
        BY <4>1, <4>2 DEF CalleesBy, NextUser, startVars, Working
    <3>9. ~ RevokeActive(w) /\ ~ SweepStep(w)
      BY <1>1 DEF StartsLocked, Early, Working, RevokeActive, SweepStep, SweepStart,
                  ListRinging, ListActive, SweepRinging, SweepActive
    <3>10. ~ CreateFails(w) /\ ~ Crash(w)
      BY <1>1, <1>3 DEF Inserting, Early, Working, CreateFails, Crash
    <3>11. QED
      BY <2>2, <3>2, <3>3, <3>4, <3>5, <3>6, <3>7, <3>8, <3>9, <3>10
      DEF StepOf, StartStep, CallStep
  <2>3. QED
    BY <2>1, <2>2
<1>4. ASSUME NEW v \in Workers \ {w}, v \in Inserting' PROVE CalleesBy(v)'
  <2>1. v \in Inserting /\ Stays(v)
    BY <1>2, <1>4, InsertingShrinks
  <2>2. CalleesBy(v)
    BY <2>1 DEF CalleesKnown, CalleesBy
  <2>3. QED
    BY <2>1, <2>2 DEF Stays, CalleesBy, NextUser, Working
<1>5. QED
  BY <1>3, <1>4 DEF CalleesKnown, CalleesBy, Inserting

-----------------------------------------------------------------------------
(* Rows that are over.                                                     *)

LEMMA HistoryStep ==
  ASSUME LockInv, HistoryOnce, NEW w \in Workers, StepOf(w)
  PROVE  HistoryOnce'
<1>1. Domains
  BY DEF LockInv
<1>2. SUFFICES ASSUME NEW c \in Calls, history'[c] # {}
               PROVE  status'[c] \in Terminal /\ \E m \in history'[c] : history'[c] = {m}
  BY DEF HistoryOnce
<1>3. history'[c] = history[c] /\ status'[c] = status[c]
        => status'[c] \in Terminal /\ \E m \in history'[c] : history'[c] = {m}
  BY <1>2 DEF HistoryOnce
<1>4. CASE ~ Writers(w)
  BY <1>3, <1>4, ReadersKeepRows DEF Rows
<1>5. CASE BusyMissed(w) \/ Create(w)
  BY <1>2, <1>3, <1>5, InsertEffect DEF Terminal
<1>6. CASE Write(w) \/ Finalize(w)
  <2>1. CASE c # call[w]
    BY <1>1, <1>3, <1>6, <2>1, TransactionEffect DEF Joined, Declined, Over, Domains
  <2>2. CASE c = call[w]
    <3>1. history[c] = {}
      BY <1>6, <2>2, TransactionEffect DEF HistoryOnce
    <3>2. QED
      BY <1>1, <1>2, <1>6, <2>2, <3>1, TransactionEffect DEF Joined, Declined, Over, Domains
  <2>3. QED
    BY <2>1, <2>2
<1>7. CASE PublishRinging(w) \/ Signal(w)
  BY <1>3, <1>7 DEF PublishRinging, Signal
<1>8. QED
  BY <1>4, <1>5, <1>6, <1>7 DEF Writers

LEMMA OverStep ==
  ASSUME LockInv, OverMeansLeft, NEW w \in Workers, StepOf(w)
  PROVE  OverMeansLeft'
<1>1. Domains
  BY DEF LockInv
<1>2. SUFFICES ASSUME NEW c \in Calls, status'[c] \in Terminal
               PROVE  Participants(c)' \subseteq left'[c]
  BY DEF OverMeansLeft
<1>3. status'[c] = status[c] /\ about'[c] = about[c] /\ left'[c] = left[c]
        => Participants(c)' \subseteq left'[c]
  BY <1>2 DEF OverMeansLeft, Participants
<1>4. CASE ~ Writers(w)
  BY <1>3, <1>4, ReadersKeepRows DEF Rows
<1>5. CASE BusyMissed(w) \/ Create(w)
  BY <1>2, <1>3, <1>5, InsertEffect DEF Participants, Terminal
<1>6. CASE Write(w) \/ Finalize(w)
  BY <1>1, <1>2, <1>3, <1>6, TransactionEffect
  DEF Joined, Declined, Over, Participants, Domains, Terminal
<1>7. CASE PublishRinging(w) \/ Signal(w)
  BY <1>3, <1>7 DEF PublishRinging, Signal
<1>8. QED
  BY <1>4, <1>5, <1>6, <1>7 DEF Writers

LEMMA FinalStep ==
  ASSUME LockInv, NEW w \in Workers, StepOf(w), NEW c \in Calls, status[c] \in Terminal
  PROVE  status'[c] = status[c]
<1>1. Domains /\ c \notin Unused
  BY DEF LockInv, Unused, Terminal
<1>2. CASE ~ Writers(w)
  BY <1>2, ReadersKeepRows DEF Rows
<1>3. CASE BusyMissed(w) \/ Create(w)
  BY <1>1, <1>3, InsertEffect
<1>4. CASE Write(w) \/ Finalize(w)
  BY <1>1, <1>4, TransactionEffect DEF Joined, Declined, Over, Domains
<1>5. CASE PublishRinging(w) \/ Signal(w)
  BY <1>5 DEF PublishRinging, Signal
<1>6. QED
  BY <1>2, <1>3, <1>4, <1>5 DEF Writers

-----------------------------------------------------------------------------
(* Calls of two.                                                           *)

LEMMA PairsStep ==
  ASSUME LockInv, PairsComplete, NEW w \in Workers, StepOf(w)
  PROVE  PairsComplete'
<1>1. Domains
  BY DEF LockInv
<1>2. SUFFICES ASSUME NEW c \in Calls, status'[c] \in Live, ~ IsGroup(c)'
               PROVE  left'[c] = {}
  BY DEF PairsComplete
<1>3. ASSUME status[c] \in Live, about'[c] = about[c]
      PROVE  left[c] = {} /\ ~ IsGroup(c)
  BY <1>2, <1>3 DEF PairsComplete, IsGroup
<1>4. status'[c] = status[c] /\ about'[c] = about[c] /\ left'[c] = left[c]
        => left'[c] = {}
  BY <1>2, <1>3
<1>5. CASE ~ Writers(w)
  BY <1>4, <1>5, ReadersKeepRows DEF Rows
<1>6. CASE BusyMissed(w) \/ Create(w)
  BY <1>2, <1>4, <1>6, InsertEffect DEF Live
<1>7. CASE Write(w) \/ Finalize(w)
  <2>1. CASE c # call[w]
    BY <1>1, <1>4, <1>7, <2>1, TransactionEffect DEF Joined, Declined, Over, Domains
  <2>2. CASE c = call[w] /\ Joined(w)
    <3>1. left'[c] = left[c] \ {who[w]} /\ about' = about /\ status[c] \in Live
      BY <1>1, <1>7, <2>2, TransactionEffect DEF Joined, Domains
    <3>2. QED
      BY <1>3, <3>1
  <2>3. CASE c = call[w] /\ Declined(w)
    BY <1>2, <2>3 DEF Declined, IsGroup
  <2>4. QED
    BY <1>1, <1>2, <1>7, <2>1, <2>2, <2>3, TransactionEffect DEF Over, Domains, Live, Terminal
<1>8. CASE PublishRinging(w) \/ Signal(w)
  BY <1>4, <1>8 DEF PublishRinging, Signal
<1>9. QED
  BY <1>5, <1>6, <1>7, <1>8 DEF Writers

(* A live call was live before, or has just been inserted. *)
LEMMA LiveBefore ==
  ASSUME LockInv, NEW w \in Workers, StepOf(w), NEW c \in Calls, status'[c] \in Live
  PROVE  \/ status[c] \in Live /\ about'[c] = about[c]
         \/ /\ Create(w) /\ c = NextCall /\ ring[w] \in Starts
            /\ about'[c].conv = ring[w].conv
<1>1. Domains
  BY DEF LockInv
<1>2. CASE ~ Writers(w)
  BY <1>2, ReadersKeepRows DEF Rows
<1>3. CASE BusyMissed(w)
  BY <1>3, InsertEffect DEF Live, BusyMissed, Create
<1>4. CASE Create(w) /\ c # NextCall
  BY <1>4, InsertEffect
<1>5. CASE Create(w) /\ c = NextCall
  <2>1. ring[w] \in Starts /\ about'[c] = [ring[w] EXCEPT !.callees = ready[w]]
    BY <1>5, InsertEffect DEF BusyMissed, Create
  <2>2. about'[c].conv = ring[w].conv
    BY <2>1, CallAssumption
  <2>3. QED
    BY <1>5, <2>1, <2>2
<1>6. CASE Write(w) \/ Finalize(w)
  <2>1. about' = about
    BY <1>6, TransactionEffect DEF Joined, Declined, Over
  <2>2. status[c] \in Live
    BY <1>1, <1>6, TransactionEffect DEF Joined, Declined, Over, Domains, Live, Terminal
  <2>3. QED
    BY <2>1, <2>2
<1>7. CASE PublishRinging(w) \/ Signal(w)
  BY <1>7 DEF PublishRinging, Signal
<1>8. QED
  BY <1>2, <1>3, <1>4, <1>5, <1>6, <1>7 DEF Writers

(* Who is in no live call has no part in a live call of two. *)
LEMMA NotBusyIsFree ==
  ASSUME PairsComplete, NEW u, LiveCallsOf(u) = {}, NEW v
  PROVE  FreeIn(u, v)
<1>1. SUFFICES ASSUME NEW c \in Calls, LiveAt(c, v), ~ IsGroup(c), u \in Participants(c)
               PROVE  FALSE
  BY DEF FreeIn
<1>2. status[c] \in Live /\ left[c] = {}
  BY <1>1 DEF LiveAt, PairsComplete
<1>3. QED
  BY <1>1, <1>2 DEF LiveCallsOf, LiveIn

(* Only a start of the same conversation ends that. *)
LEMMA FreeStays ==
  ASSUME LockInv, NEW w \in Workers, StepOf(w), NEW u, NEW v, FreeIn(u, v),
         Create(w) => ring[w].conv # v
  PROVE  FreeIn(u, v)'
<1>1. SUFFICES ASSUME NEW c \in Calls, LiveAt(c, v)', ~ IsGroup(c)'
               PROVE  u \notin Participants(c)'
  BY DEF FreeIn
<1>2. status[c] \in Live /\ about'[c] = about[c]
  BY <1>1, LiveBefore DEF LiveAt
<1>3. LiveAt(c, v) /\ ~ IsGroup(c) /\ Participants(c)' = Participants(c)
  BY <1>1, <1>2 DEF LiveAt, IsGroup, Participants
<1>4. QED
  BY <1>3 DEF FreeIn

LEMMA FoundFreeStep ==
  ASSUME LockInv, LockInv', CalleesKnown, PairsComplete, FoundFree,
         NEW w \in Workers, StepOf(w)
  PROVE  FoundFree'
<1>1. Domains /\ StartsLocked
  BY DEF LockInv
<1>2. ASSUME NEW v \in Workers \ {w}, v \in Inserting'
      PROVE  /\ pc'[v] = "lockConv" => ready'[v] = {}
             /\ \A u \in ready'[v] : FreeIn(u, ring[v].conv)'
             /\ pc'[v] = "create" => FreeIn(ring[v].caller, ring[v].conv)'
  <2>1. v \in Inserting /\ Stays(v)
    BY <1>1, <1>2, InsertingShrinks, OthersStay
  <2>2. pc[v] # "lockConv" /\ Create(w) => ring[w].conv # ring[v].conv
    BY <1>1, <2>1 DEF StartsLocked, Inserting, Create, Early
  <2>3. ASSUME NEW u, NEW k, k = ring[v].conv, FreeIn(u, k), pc[v] # "lockConv"
        PROVE  FreeIn(u, k)'
    BY <2>2, <2>3, FreeStays
  <2>4. QED
    BY <2>1, <2>3 DEF FoundFree, Stays, FreeIn, LiveAt
<1>3. ASSUME w \in Inserting'
      PROVE  /\ pc'[w] = "lockConv" => ready'[w] = {}
             /\ \A u \in ready'[w] : FreeIn(u, ring[w].conv)'
             /\ pc'[w] = "create" => FreeIn(ring[w].caller, ring[w].conv)'
  <2>1. CASE Begins(w)
    <3>1. PICK s \in Starts : BeginStart(w, s)
      <4>1. job'[w] = "start" /\ job[w] # "start"
        BY <1>1, <1>3, <2>1
        DEF Inserting, StartsLocked, Early, Working, Begins, BeginStart, BeginRequest, BeginRevoke
      <4>2. QED
        BY <1>1, <2>1, <4>1 DEF Begins, BeginRequest, BeginRevoke, Domains
    <3>2. pc'[w] = "lockConv" /\ ready'[w] = {}
      BY <1>1, <3>1 DEF BeginStart, Goto, Domains
    <3>3. QED
      BY <3>2
  <2>2. CASE Look(w) \/ Recheck(w)
    <3>1. /\ UNCHANGED <<callVars, ring>> /\ w \in Inserting
          /\ pc[w] # "busyMissed" /\ pc[w] # "create"
      BY <1>1, <2>2 DEF Look, Recheck, StartsLocked, Inserting, Early
    <3>2. \A u, v : FreeIn(u, v)' <=> FreeIn(u, v)
      BY <3>1 DEF FreeIn, LiveAt, IsGroup, Participants, callVars
    <3>3. CASE \E u \in NextUser(w) : \E busy \in BOOLEAN :
                 Answered(w, u, busy) /\ (busy \/ LiveCallsOf(u) = {})
      <4>1. PICK u \in NextUser(w), busy \in BOOLEAN :
              Answered(w, u, busy) /\ (busy \/ LiveCallsOf(u) = {})
        BY <3>3
      <4>2. CalleesBy(w)
        BY <3>1 DEF CalleesKnown, CalleesBy
      <4>3. /\ pc'[w] = "create" => u = ring[w].caller /\ ~ busy
            /\ ready'[w] \subseteq IF busy THEN ready[w] ELSE ready[w] \cup {u}
        BY <1>3, <3>1, <4>1, <4>2, AnsweredKnows
      <4>4. ~ busy => FreeIn(u, ring[w].conv)
        BY <4>1, NotBusyIsFree
      <4>5. pc'[w] # "lockConv"
        BY <1>1, <4>1 DEF Answered, Goto, Domains
      <4>6. \A x \in ready[w] : FreeIn(x, ring[w].conv)
        BY <3>1 DEF FoundFree
      <4>7. QED
        BY <3>1, <3>2, <4>3, <4>4, <4>5, <4>6 DEF FreeIn, LiveAt
    <3>4. CASE ready' = ready /\ pc'[w] = "lock"
      BY <3>1, <3>2, <3>4 DEF FoundFree, FreeIn, LiveAt
    <3>5. CASE Recheck(w)
      <4>1. who[w] \in NextUser(w)
        BY <3>1, <3>5 DEF Recheck, CalleesKnown
      <4>2. QED
        BY <3>3, <3>5, <4>1 DEF Recheck
    <3>6. CASE Look(w)
      BY <1>1, <3>3, <3>4, <3>6 DEF Look, Turn, Goto, Domains
    <3>7. QED
      BY <2>2, <3>5, <3>6
  <2>3. CASE ~ Begins(w) /\ ~ Look(w) /\ ~ Recheck(w)
    <3>1. w \in Inserting
      BY <1>3, <2>3, InsertingShrinks
    <3>2. job[w] = "start"
      BY <3>1 DEF Inserting
    <3>3. ~ BusyMissed(w) /\ ~ Create(w) /\ ~ PublishRinging(w) /\ ~ UnlockConv(w)
      BY <1>1, <1>3, <3>2 DEF Inserting, Early, Working, BusyMissed, Create, PublishRinging,
                              UnlockConv, EndStart, Goto, Domains
    <3>4. ~ RevokeActive(w) /\ ~ SweepStep(w)
      BY <1>1, <3>2 DEF StartsLocked, Early, Working, RevokeActive, SweepStep, SweepStart,
                        ListRinging, ListActive, SweepRinging, SweepActive
    <3>5. ~ CreateFails(w) /\ ~ Crash(w)
      BY <1>1, <1>3 DEF Inserting, Early, Working, CreateFails, Crash, Goto, Domains
    <3>6. ring'[w] = ring[w] /\ ready'[w] = ready[w]
          /\ pc'[w] # "lockConv" /\ pc'[w] # "create"
      <4>1. CASE LockConv(w)
        BY <1>1, <1>3, <4>1 DEF LockConv, EndStart, Goto, Inserting, Early, Working, Domains,
                                startVars
      <4>2. CASE LockTimeout(w) \/ Unlock(w)
        BY <1>1, <3>2, <4>2 DEF LockTimeout, Unlock, Leave, Resume, Goto, Domains, startVars
      <4>3. CASE LockCall(w) \/ Read(w) \/ Finalize(w) \/ Signal(w) \/ WriteFails(w)
        BY <1>1, <4>3 DEF LockCall, Read, Finalize, Signal, WriteFails, Goto, Domains, startVars
      <4>4. CASE Write(w)
        BY <1>1, <4>4 DEF Write, Accept, Decline, End, CleanUp, Goto, Domains, startVars
      <4>5. QED
        BY <2>3, <3>3, <3>4, <3>5, <4>1, <4>2, <4>3, <4>4 DEF StepOf, StartStep, CallStep
    <3>7. ASSUME NEW u, NEW k, FreeIn(u, k)
          PROVE  FreeIn(u, k)'
      BY <3>3, <3>7, FreeStays
    <3>8. QED
      BY <3>1, <3>6, <3>7 DEF FoundFree, FreeIn, LiveAt
  <2>4. QED
    BY <2>1, <2>2, <2>3
<1>4. QED
  BY <1>2, <1>3 DEF FoundFree, Inserting, FreeIn, LiveAt

LEMMA NobodyTwiceStep ==
  ASSUME LockInv, FoundFree, NobodyInTwoCalls, NEW w \in Workers, StepOf(w)
  PROVE  NobodyInTwoCalls'
<1> DEFINE Old(e) == status[e] \in Live /\ about'[e] = about[e]
           New(e) == Create(w) /\ e = NextCall
<1>1. \A e \in Calls : status'[e] \in Live => Old(e) \/ New(e)
  BY LiveBefore
<1>2. ASSUME NEW c \in Calls, NEW d \in Calls, New(c), Old(d),
             about'[c].conv = about'[d].conv, ~ IsGroup(d)'
      PROVE  Participants(c)' \cap Participants(d)' = {}
  <2>1. /\ w \in Inserting /\ ring[w] \in Starts /\ pc[w] = "create"
        /\ about'[c] = [ring[w] EXCEPT !.callees = ready[w]]
    BY <1>2, InsertEffect DEF BusyMissed, Create
  <2>2. /\ about'[c].conv = ring[w].conv /\ about'[c].caller = ring[w].caller
        /\ about'[c].callees = ready[w]
    BY <2>1, CallAssumption
  <2>3. \A u \in {ring[w].caller} \cup ready[w] : FreeIn(u, ring[w].conv)
    BY <2>1 DEF FoundFree
  <2>4. LiveAt(d, ring[w].conv) /\ ~ IsGroup(d) /\ Participants(d)' = Participants(d)
    BY <1>2, <2>2 DEF LiveAt, IsGroup, Participants
  <2>5. Participants(c)' = {ring[w].caller} \cup ready[w]
    BY <2>2 DEF Participants
  <2>6. QED
    BY <2>3, <2>4, <2>5 DEF FreeIn
<1>3. ASSUME NEW c \in Calls, NEW d \in Calls, c # d, Old(c), Old(d),
             about'[c].conv = about'[d].conv, ~ IsGroup(c)', ~ IsGroup(d)'
      PROVE  Participants(c)' \cap Participants(d)' = {}
  <2>1. /\ ~ IsGroup(c) /\ ~ IsGroup(d) /\ about[c].conv = about[d].conv
        /\ Participants(c)' = Participants(c) /\ Participants(d)' = Participants(d)
    BY <1>3 DEF IsGroup, Participants
  <2>2. QED
    BY <1>3, <2>1 DEF NobodyInTwoCalls
<1> HIDE DEF Old, New
<1>4. SUFFICES ASSUME NEW c \in Calls, NEW d \in Calls, c # d,
                      status'[c] \in Live, status'[d] \in Live,
                      about'[c].conv = about'[d].conv, ~ IsGroup(c)', ~ IsGroup(d)'
               PROVE  Participants(c)' \cap Participants(d)' = {}
  BY DEF NobodyInTwoCalls
<1>5. ~ (New(c) /\ New(d))
  BY <1>4 DEF New
<1>6. CASE New(c) /\ Old(d)
  BY <1>2, <1>4, <1>6
<1>7. CASE Old(c) /\ New(d)
  <2>1. Participants(d)' \cap Participants(c)' = {}
    BY <1>2, <1>4, <1>7
  <2>2. QED
    BY <2>1
<1>8. QED
  BY <1>1, <1>3, <1>4, <1>5, <1>6, <1>7

-----------------------------------------------------------------------------
(* Without a fault, a handler that has a row in an intermediate state goes *)
(* on to settle it.                                                        *)

LEMMA NoFaultSteps ==
  ASSUME LockInv, NEW w \in Workers, StepOf(w), faults' = 0
  PROVE  /\ faults = 0
         /\ pc[w] = "finalize" => Finalize(w)
         /\ pc[w] = "signal" => Signal(w)
         /\ pc[w] = "write" => Write(w)
<1>1. faults \in Nat /\ expiries = 0
  BY DEF LockInv, Domains
<1>2. ~ WriteFails(w) /\ ~ CreateFails(w) /\ ~ Crash(w)
  BY <1>1 DEF WriteFails, CreateFails, Crash, Fault
<1>3. faults = 0
  <2>1. CASE Begins(w) \/ SweepStep(w)
    BY <2>1 DEF Begins, BeginStart, BeginRequest, BeginRevoke, SweepStep, SweepStart,
                ListRinging, ListActive, SweepRinging, SweepActive
  <2>2. CASE StartStep(w)
    <3>1. CASE PublishRinging(w)
      BY <1>1, <3>1 DEF PublishRinging, Publish, Fault
    <3>2. CASE Recheck(w) \/ BusyMissed(w) \/ Create(w)
      BY <1>2, <3>2 DEF Recheck, BusyMissed, Create
    <3>3. CASE LockConv(w) \/ Look(w) \/ UnlockConv(w)
      BY <1>2, <3>3 DEF LockConv, Look, UnlockConv
    <3>4. QED
      BY <1>2, <2>2, <3>1, <3>2, <3>3 DEF StartStep
  <2>3. CASE CallStep(w)
    BY <1>1, <2>3 DEF CallStep, RevokeActive, LockCall, LockTimeout, Read, Write, Finalize,
                      Signal, Publish, Fault, Unlock
  <2>4. QED
    BY <1>2, <2>1, <2>2, <2>3 DEF StepOf
<1>4. ASSUME pc[w] \in {"write", "finalize", "signal"}
      PROVE  Write(w) \/ Finalize(w) \/ Signal(w)
  <2>1. ~ Begins(w) /\ ~ StartStep(w) /\ ~ SweepStep(w)
    BY <1>4 DEF Begins, BeginStart, BeginRequest, BeginRevoke, StartStep, LockConv, Look,
                Recheck, BusyMissed, Create, PublishRinging, UnlockConv, SweepStep,
                SweepStart, ListRinging, ListActive, SweepRinging, SweepActive
  <2>2. CallStep(w)
    BY <1>2, <2>1 DEF StepOf
  <2>3. QED
    BY <1>4, <2>2 DEF CallStep, RevokeActive, LockCall, LockTimeout, Read, Unlock
<1>5. QED
  BY <1>3, <1>4 DEF Write, Finalize, Signal

RingingRow(c) ==
  \/ about[c].callees \ left[c] # {}
  \/ \E w \in Workers : pc[w] = "finalize" /\ call[w] = c

LEMMA RingingStep ==
  ASSUME LockInv, CalleesKnown, RingingOpen, NEW w \in Workers, StepOf(w)
  PROVE  RingingOpen'
<1>1. Domains /\ StartsLocked
  BY DEF LockInv
<1>2. \A v \in Workers \ {w} : Stays(v)
  BY <1>1, OthersStay
<1>3. SUFFICES ASSUME NEW c \in Calls, faults' = 0, status'[c] = "RINGING",
                      about'[c].callees # {}
               PROVE  RingingRow(c)'
  BY DEF RingingOpen, RingingRow
<1>4. faults = 0
  BY <1>3, NoFaultSteps
<1>5. ASSUME status'[c] = status[c], about'[c] = about[c], left'[c] = left[c],
             pc[w] = "finalize" => call[w] # c
      PROVE  RingingRow(c)'
  <2>1. RingingRow(c)
    BY <1>3, <1>4, <1>5 DEF RingingOpen, RingingRow
  <2>2. QED
    BY <1>2, <1>5, <2>1 DEF RingingRow, Stays
<1>6. CASE ~ Writers(w)
  <2>1. pc[w] # "finalize"
    BY <1>3, <1>6, NoFaultSteps DEF Writers
  <2>2. QED
    BY <1>5, <1>6, <2>1, ReadersKeepRows DEF Rows
<1>7. CASE BusyMissed(w) \/ Create(w)
  <2>1. pc[w] # "finalize"
    BY <1>7 DEF BusyMissed, Create
  <2>2. CASE c # NextCall
    BY <1>5, <1>7, <2>1, <2>2, InsertEffect
  <2>3. CASE c = NextCall
    <3>1. /\ pc[w] = "create" /\ w \in Inserting /\ left'[c] = {} /\ ring[w] \in Starts
          /\ about'[c] = [ring[w] EXCEPT !.callees = ready[w]]
      BY <1>3, <1>7, <2>3, InsertEffect DEF Create, BusyMissed
    <3>2. QED
      BY <1>3, <3>1 DEF RingingRow
  <2>4. QED
    BY <2>2, <2>3
<1>8. CASE Write(w) \/ Finalize(w)
  <2>1. CASE c # call[w]
    BY <1>1, <1>5, <1>8, <2>1, TransactionEffect DEF Joined, Declined, Over, Domains
  <2>2. CASE c = call[w]
    <3>1. Declined(w) /\ status[c] = "RINGING"
      BY <1>1, <1>3, <1>8, <2>2, TransactionEffect DEF Joined, Declined, Over, Domains, Terminal
    <3>2. Write(w) /\ Decline(w, c)
      <4>1. status'[c] = "RINGING" /\ ~ Finalize(w)
        BY <1>1, <1>3, <2>2 DEF Finalize, Finish, Domains
      <4>2. ~ Accept(w, c) /\ ~ End(w, c) /\ ~ CleanUp(w, c)
        <5>1. Accept(w, c) => seen[w] = status[c]
          BY <1>8, <2>2, <4>1, WrittenIsLive DEF Write
        <5>2. QED
          BY <1>1, <3>1, <4>1, <5>1 DEF Accept, End, CleanUp, Finish, Domains
      <4>3. QED
        BY <1>8, <2>2, <4>1, <4>2 DEF Write
    <3>3. Pending(c, who[w]) = {} => pc'[w] = "finalize" /\ call'[w] = c
      BY <1>1, <2>2, <3>1, <3>2 DEF Write, Decline, Declined, Goto, Domains
    <3>4. Pending(c, who[w]) # {} => about'[c].callees \ left'[c] # {}
      BY <1>1, <2>2, <3>1 DEF Declined, Pending, Domains
    <3>5. QED
      BY <3>3, <3>4 DEF RingingRow
  <2>3. QED
    BY <2>1, <2>2
<1>9. CASE PublishRinging(w) \/ Signal(w)
  BY <1>5, <1>9 DEF PublishRinging, Signal
<1>10. QED
  BY <1>6, <1>7, <1>8, <1>9 DEF Writers

EndingRow(c) == \E w \in Workers : pc[w] = "signal" /\ call[w] = c /\ act[w] # "accept"

LEMMA EndingStep ==
  ASSUME LockInv, EndComing, NEW w \in Workers, StepOf(w)
  PROVE  EndComing'
<1>1. Domains /\ RowsFresh
  BY DEF LockInv
<1>2. \A v \in Workers \ {w} : Stays(v)
  BY <1>1, OthersStay
<1>3. SUFFICES ASSUME NEW c \in Calls, faults' = 0, status'[c] \in Terminal,
                      shown'[c] = "accepted"
               PROVE  EndingRow(c)'
  BY DEF EndComing, EndingRow
<1>4. faults = 0
  BY <1>3, NoFaultSteps
<1>5. ASSUME status'[c] = status[c], shown'[c] = shown[c], pc[w] = "signal" => call[w] # c
      PROVE  EndingRow(c)'
  <2>1. EndingRow(c)
    BY <1>3, <1>4, <1>5 DEF EndComing, EndingRow
  <2>2. QED
    BY <1>2, <1>5, <2>1 DEF EndingRow, Stays
<1>6. CASE ~ Writers(w)
  <2>1. pc[w] # "signal"
    BY <1>3, <1>6, NoFaultSteps DEF Writers
  <2>2. QED
    BY <1>5, <1>6, <2>1, ReadersKeepRows DEF Rows
<1>7. CASE BusyMissed(w) \/ Create(w)
  <2>1. pc[w] # "signal"
    BY <1>7 DEF BusyMissed, Create
  <2>2. c # NextCall
    BY <1>3, <1>7, InsertEffect
  <2>3. QED
    BY <1>5, <1>7, <2>1, <2>2, InsertEffect
<1>8. CASE Write(w) \/ Finalize(w)
  <2>1. pc[w] # "signal"
    BY <1>8 DEF Write, Finalize
  <2>2. CASE c # call[w]
    BY <1>1, <1>5, <1>8, <2>1, <2>2, TransactionEffect DEF Joined, Declined, Over, Domains
  <2>3. CASE c = call[w]
    <3>1. status[c] \notin Terminal
      BY <1>8, <2>3, TransactionEffect
    <3>2. CASE Finalize(w)
      BY <1>1, <2>3, <3>2 DEF RowsFresh, Finalize, Goto, EndingRow, Domains
    <3>3. CASE Write(w)
      <4>1. ~ Accept(w, c)
        <5>1. Accept(w, c) => seen[w] = status[c] /\ status[c] \in Live
          BY <2>3, <3>3, WrittenIsLive DEF Write, Accept
        <5>2. QED
          BY <1>1, <1>3, <5>1 DEF Accept, Live, Terminal, Domains
      <4>2. pc'[w] = "signal"
        <5>1. CASE Decline(w, c)
          BY <1>1, <1>3, <3>1, <5>1 DEF Decline, Goto, Domains
        <5>2. CASE End(w, c) \/ CleanUp(w, c)
          BY <1>1, <5>2 DEF End, CleanUp, Goto, Domains
        <5>3. QED
          BY <2>3, <3>3, <4>1, <5>1, <5>2 DEF Write
      <4>3. act[w] # "accept" /\ act' = act /\ call' = call
        BY <2>3, <3>3, <4>1 DEF Write, Decline, End, CleanUp
      <4>4. QED
        BY <2>3, <4>2, <4>3 DEF EndingRow
    <3>4. QED
      BY <1>8, <3>2, <3>3
  <2>4. QED
    BY <2>2, <2>3
<1>9. CASE PublishRinging(w)
  <2>1. pc[w] # "signal" /\ status' = status
    BY <1>9 DEF PublishRinging
  <2>2. shown'[c] = shown[c]
    BY <1>1, <1>3, <1>9 DEF PublishRinging, Publish, Domains
  <2>3. QED
    BY <1>5, <2>1, <2>2
<1>10. CASE Signal(w)
  <2>1. status' = status /\ pc[w] = "signal"
    BY <1>10 DEF Signal
  <2>2. shown' = [shown EXCEPT ![call[w]] =
                    CASE act[w] = "accept" -> "accepted"
                      [] act[w] = "decline" -> "declined"
                      [] OTHER -> "ended"]
    BY <1>1, <1>3, <1>10 DEF Signal, Publish, Fault, Domains
  <2>3. c # call[w]
    BY <1>1, <1>3, <2>1, <2>2 DEF RowsFresh, Terminal, Domains
  <2>4. QED
    BY <1>1, <1>5, <2>1, <2>2, <2>3 DEF Domains
<1>11. QED
  BY <1>6, <1>7, <1>8, <1>9, <1>10 DEF Writers

-----------------------------------------------------------------------------
LEMMA CallInitial == Init => CallInv
<1> SUFFICES ASSUME Init PROVE CallInv
  OBVIOUS
<1>1. Inserting = {} /\ Unused = Calls
  BY DEF Init, Inserting, Unused, Early, Working
<1>2. RoomForStarts
  BY <1>1, CallAssumption, FS_EmptySet, FS_CardinalityType DEF RoomForStarts
<1>3. Domains /\ CallsNamed /\ CallsLocked /\ RowsFresh /\ StartsLocked /\ FreshRows
  BY DEF Init, Domains, CallsNamed, CallsLocked, RowsFresh, StartsLocked, FreshRows,
         Working, Holding, Early, Unused
<1>4. CalleesKnown /\ FoundFree
  BY <1>1 DEF Init, CalleesKnown, FoundFree
<1>5. HistoryOnce /\ OverMeansLeft /\ PairsComplete /\ NobodyInTwoCalls
  BY <1>1 DEF Init, HistoryOnce, OverMeansLeft, PairsComplete, NobodyInTwoCalls, Live, Terminal
<1>6. RingingOpen /\ EndComing
  BY DEF Init, RingingOpen, EndComing, Terminal
<1>7. QED
  BY <1>2, <1>3, <1>4, <1>5, <1>6 DEF CallInv, LockInv

LEMMA CallStepKeepsInv ==
  ASSUME CallInv, [Next]_vars, MaxExpiries = 0
  PROVE  CallInv'
<1>1. LockInv /\ LockInv'
  BY LockStep DEF CallInv
<1>2. CASE \E w \in Workers : StepOf(w)
  <2>1. PICK w \in Workers : StepOf(w)
    BY <1>2
  <2>2. CalleesKnown' /\ HistoryOnce' /\ OverMeansLeft' /\ RingingOpen' /\ EndComing'
    BY <2>1, CalleesStep, HistoryStep, OverStep, RingingStep, EndingStep DEF CallInv
  <2>3. PairsComplete' /\ FoundFree'
    BY <1>1, <2>1, PairsStep, FoundFreeStep DEF CallInv
  <2>4. NobodyInTwoCalls'
    BY <2>1, NobodyTwiceStep DEF CallInv
  <2>5. QED
    BY <1>1, <2>2, <2>3, <2>4 DEF CallInv
<1>3. CASE \/ \E k \in Keys : LockExpires(k)
           \/ \E c \in Calls : GrowsOld(c)
           \/ UNCHANGED vars
  <2>1. UNCHANGED <<Rows, workVars, startVars, faults>>
    BY <1>3 DEF LockExpires, GrowsOld, vars, callVars, Rows
  <2>2. CalleesKnown' /\ PairsComplete' /\ FoundFree'
    BY <2>1 DEF CallInv, CalleesKnown, Inserting, Working, NextUser, PairsComplete, FoundFree,
                FreeIn, LiveAt, IsGroup, Participants, Rows, workVars, startVars
  <2>3. HistoryOnce' /\ OverMeansLeft' /\ NobodyInTwoCalls' /\ RingingOpen' /\ EndComing'
    BY <2>1 DEF CallInv, HistoryOnce, OverMeansLeft, Participants, NobodyInTwoCalls, IsGroup,
                RingingOpen, EndComing, Rows, workVars
  <2>4. QED
    BY <1>1, <2>2, <2>3 DEF CallInv
<1>4. QED
  BY <1>2, <1>3, NextIsStep

LEMMA CallInvariant == ASSUME MaxExpiries = 0 PROVE Spec => []CallInv
<1>1. CallInv /\ [Next]_vars => CallInv'
  BY CallStepKeepsInv
<1>2. QED
  BY <1>1, CallInitial, PTL DEF Spec

-----------------------------------------------------------------------------
(* A call that is over stays over: no handler that began before it ended   *)
(* writes its row, although updateStatus has no guard.                     *)
THEOREM CallTerminalIsFinal == ASSUME MaxExpiries = 0 PROVE Spec => TerminalIsFinal
<1>1. CallInv /\ [Next]_vars
        => [\A c \in Calls : status[c] \in Terminal => status'[c] = status[c]]_vars
  <2> SUFFICES ASSUME CallInv, [Next]_vars, NEW c \in Calls, status[c] \in Terminal
               PROVE  status'[c] = status[c]
    OBVIOUS
  <2>1. CASE \E w \in Workers : StepOf(w)
    BY <2>1, FinalStep DEF CallInv
  <2>2. CASE \/ \E k \in Keys : LockExpires(k)
             \/ \E d \in Calls : GrowsOld(d)
             \/ UNCHANGED vars
    BY <2>2 DEF LockExpires, GrowsOld, vars, callVars
  <2>3. QED
    BY <2>1, <2>2, NextIsStep
<1>2. QED
  BY <1>1, CallInvariant, PTL DEF Spec, TerminalIsFinal

(* The chat gets one entry about a call, and only once it is over          *)
(* (enqueueRejected, enqueueEnded, enqueueMissed, enqueueBusyMissed).      *)
THEOREM CallOneHistoryEntry == ASSUME MaxExpiries = 0 PROVE Spec => []OneHistoryEntry
<1>1. CallInv => OneHistoryEntry
  <2> SUFFICES ASSUME CallInv, NEW c \in Calls
               PROVE  /\ Cardinality(history[c]) <= 1
                      /\ history[c] # {} => status[c] \in Terminal
    BY DEF OneHistoryEntry
  <2>1. CASE history[c] = {}
    BY <2>1, FS_EmptySet
  <2>2. CASE history[c] # {}
    <3>1. status[c] \in Terminal
      BY <2>2 DEF CallInv, HistoryOnce
    <3>2. PICK m \in history[c] : history[c] = {m}
      BY <2>2 DEF CallInv, HistoryOnce
    <3>3. Cardinality(history[c]) = 1
      BY <3>2, FS_Singleton
    <3>4. QED
      BY <3>1, <3>3
  <2>3. QED
    BY <2>1, <2>2
<1>2. QED
  BY <1>1, CallInvariant, PTL

(* Nobody is left in a call that is over (markAllParticipantsLeft).        *)
THEOREM CallOverMeansLeft == ASSUME MaxExpiries = 0 PROVE Spec => []OverMeansLeft
<1>1. CallInv => OverMeansLeft
  BY DEF CallInv
<1>2. QED
  BY <1>1, CallInvariant, PTL

(* Live calls of two in one conversation have nobody in common: startCall  *)
(* checks its callee and its caller and inserts under the lock of the      *)
(* conversation.                                                           *)
THEOREM CallNobodyInTwoCalls == ASSUME MaxExpiries = 0 PROVE Spec => []NobodyInTwoCalls
<1>1. CallInv => NobodyInTwoCalls
  BY DEF CallInv
<1>2. QED
  BY <1>1, CallInvariant, PTL

(* Without faults, a call with callees whose lock is free rings only while *)
(* a callee is left to answer (declineCall).                               *)
THEOREM CallRingsForSomebody == ASSUME MaxExpiries = 0 PROVE Spec => []RingsForSomebody
<1>1. CallInv => RingsForSomebody
  <2> SUFFICES ASSUME CallInv, NEW c \in Calls, faults = 0, status[c] = "RINGING",
                      about[c].callees # {}, lock[<<"call", c>>] = "free"
               PROVE  about[c].callees \ left[c] # {}
    BY DEF RingsForSomebody
  <2>1. \A w \in Workers : ~ (pc[w] = "finalize" /\ call[w] = c)
    BY CallAssumption DEF CallInv, LockInv, CallsLocked, Holding
  <2>2. QED
    BY <2>1 DEF CallInv, RingingOpen
<1>2. QED
  BY <1>1, CallInvariant, PTL

(* Without faults, the last signal about a call that is over and whose     *)
(* lock is free is not that it was accepted.                               *)
THEOREM CallEndIsShown == ASSUME MaxExpiries = 0 PROVE Spec => []EndIsShown
<1>1. CallInv => EndIsShown
  <2> SUFFICES ASSUME CallInv, NEW c \in Calls, faults = 0, status[c] \in Terminal,
                      lock[<<"call", c>>] = "free"
               PROVE  shown[c] # "accepted"
    BY DEF EndIsShown
  <2>1. \A w \in Workers : ~ (pc[w] = "signal" /\ call[w] = c)
    BY CallAssumption DEF CallInv, LockInv, CallsLocked, Holding
  <2>2. QED
    BY <2>1 DEF CallInv, EndComing
<1>2. QED
  BY <1>1, CallInvariant, PTL
=============================================================================
