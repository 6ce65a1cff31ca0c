---------------------------- MODULE GatewayProofs ----------------------------
(***************************************************************************)
(* Proofs about what the clients of realtime-gateway and chat-core rely    *)
(* on: friends are shown who is online, a login keeps one socket for each  *)
(* platform, and a message whose sender was told "created" is kept and     *)
(* goes on to the other members; for any number of sockets, instances,     *)
(* messages, requests and failures.                                        *)
(***************************************************************************)
EXTENDS Delivery, Presence, FiniteSetTheorems, TLAPS

-----------------------------------------------------------------------------
(* The sockets of one user.                                                *)

Labels == {"open", "register", "limit", "evict", "kick", "online", "set", "broadcast",
           "started", "done", "failed"}

Leavers == [sock : Sockets, by : {"disconnect", "dead", "revoked"},
            pc : {"unregister", "kick", "check", "schedule", "arm"}]

Timers == [known : BOOLEAN, lost : Nat]

\* Most steps leave both keys alone.
USE DEF keyVars, Forget

PresenceTypeOK ==
  /\ up \subseteq Sockets /\ registered \subseteq Sockets /\ described \subseteq Sockets
  /\ auth \in [Sockets -> Labels]
  /\ victim \in [Sockets -> Sockets \cup {NoSocket}]
  /\ leaving \subseteq Leavers
  /\ offline \in [Pods -> Timers]
  /\ announcing \in [Pods -> Nat]
  /\ seenAs \in {"online", "offline"}

\* The status tells friends the truth, or is about to...
StatusShown ==
  "presence" \notin excuses /\ status /\ ~goodbye
    => seenAs = "online" \/ \E s \in Sockets : auth[s] = "broadcast"

\* ...and outlives no socket that has set it.
StatusKept ==
  "presence" \notin excuses =>
    \A s \in up \cap registered :
      auth[s] \in {"broadcast", "started", "done"} =>
        status /\ ~goodbye /\ \A p \in Pods : announcing[p] = 0

\* Whoever is registered will be unregistered, by its own disconnect handler.
RegisteredLeave ==
  "gone" \notin excuses =>
    \A s \in registered : s \in up \/ Leaver(s, "disconnect") \in leaving

\* What still leads to an offline broadcast: a socket, a handler or a timer.
Parting ==
  \/ \E s \in up : auth[s] # "open"
  \/ \E l \in leaving : \/ l.pc \in {"check", "schedule", "arm"}
                        \/ l.pc = "unregister" /\ l.by # "revoked"
  \/ \E p \in Pods : offline[p].known \/ offline[p].lost > 0 \/ announcing[p] > 0

PartingAhead == "gone" \notin excuses /\ seenAs = "online" => Parting

\* The tabs of a session that nobody is about to evict, and the handlers that
\* will still evict one.
Left(s) == {t \in described : SameSession(s, t) /\ \A u \in Sockets : victim[u] # t}

Evictors(s) == {t \in Sockets : SameSession(s, t) /\ auth[t] = "limit"}

\* Handlers only go forward: nobody registers twice.
Begun(s) == auth[s] \notin {"open", "register"}

TabsInOrder ==
  /\ \A s \in registered \cup described : Begun(s)
  /\ \A s \in Sockets : victim[s] # NoSocket =>
       auth[s] \in {"evict", "kick"} /\ Begun(victim[s])
  /\ IsFiniteSet(described) /\ \A s \in Sockets : IsFiniteSet(Evictors(s))

\* Every tab too many has a handler that will evict one.
TabsCounted ==
  "tabs" \notin excuses =>
    \A s \in Sockets :
      /\ auth[s] = "kick" => victim[s] \notin described
      /\ Cardinality(Left(s)) <= 1 + Cardinality(Evictors(s))

PresenceInv ==
  /\ PresenceTypeOK /\ StatusShown /\ StatusKept
  /\ RegisteredLeave /\ PartingAhead
  /\ TabsInOrder /\ TabsCounted

-----------------------------------------------------------------------------
(* Handlers.                                                               *)

LEMMA Disconnects ==
  ASSUME NEW s, NEW others, Disconnect(s, others)
  PROVE  /\ up' = up \ {s} /\ others \subseteq leaving'
         /\ leaving' \subseteq others \cup {Leaver(s, "disconnect")}
         /\ s \in up /\ auth[s] # "open" => Leaver(s, "disconnect") \in leaving'
BY DEF Disconnect, Authenticated

LEMMA LeaverFields ==
  ASSUME NEW s \in Sockets, NEW by \in {"disconnect", "dead", "revoked"}
  PROVE  /\ Leaver(s, by) \in Leavers
         /\ Leaver(s, by).sock = s /\ Leaver(s, by).by = by /\ Leaver(s, by).pc = "unregister"
BY DEF Leaver, Leavers

LEMMA HandlerMoves ==
  ASSUME NEW l \in Leavers, NEW label \in {"kick", "check", "schedule", "arm"}, To(l, label)
  PROVE  \E r \in Leavers : /\ leaving' = (leaving \ {l}) \cup {r}
                            /\ r.sock = l.sock /\ r.by = l.by /\ r.pc = label
<1> DEFINE r == [l EXCEPT !.pc = label]
<1>1. r \in Leavers /\ r.sock = l.sock /\ r.by = l.by /\ r.pc = label
  BY DEF Leavers
<1>2. leaving' = (leaving \ {l}) \cup {r}
  BY DEF To
<1>3. QED
  BY <1>1, <1>2

\* What a timer becomes.
LEMMA TimersKept ==
  ASSUME NEW clock \in Timers, NEW b \in BOOLEAN
  PROVE  /\ [clock EXCEPT !.known = b] \in Timers
         /\ [clock EXCEPT !.known = b].lost = clock.lost
         /\ [clock EXCEPT !.known = b].known = b
         /\ Forgotten(clock) \in Timers
         /\ clock.known \/ clock.lost > 0 => Forgotten(clock).lost > 0
<1>1. /\ [clock EXCEPT !.known = b] \in Timers
      /\ [clock EXCEPT !.known = b].lost = clock.lost
      /\ [clock EXCEPT !.known = b].known = b
  BY DEF Timers
<1>2. clock.lost \in Nat /\ clock.known \in BOOLEAN
  BY DEF Timers
<1>3. CASE clock.known
  <2>1. Forgotten(clock) = [known |-> FALSE, lost |-> clock.lost + 1]
    BY <1>3 DEF Forgotten
  <2>2. Forgotten(clock) \in Timers /\ Forgotten(clock).lost > 0
    BY <1>2, <2>1 DEF Timers
  <2>3. QED
    BY <1>1, <1>3, <2>2
<1>4. CASE ~clock.known
  BY <1>1, <1>4 DEF Forgotten
<1>5. QED
  BY <1>3, <1>4

LEMMA TimersFire ==
  ASSUME NEW clock \in Timers, NEW which \in {"known", "lost"},
         which = "lost" => clock.lost > 0
  PROVE  Fired(clock, which) \in Timers
<1>1. CASE which = "known"
  BY <1>1 DEF Timers, Fired
<1>2. CASE which = "lost"
  <2>1. clock.lost \in Nat /\ clock.lost > 0
    BY <1>2 DEF Timers
  <2>2. Fired(clock, which) = [clock EXCEPT !.lost = clock.lost - 1]
    BY <1>2 DEF Fired
  <2>3. QED
    BY <2>1, <2>2 DEF Timers
<1>3. QED
  BY <1>1, <1>2

LEMMA PresenceTypesStep == PresenceTypeOK /\ [PresenceNext]_presenceVars => PresenceTypeOK'
<1> SUFFICES ASSUME PresenceTypeOK, [PresenceNext]_presenceVars
             PROVE  PresenceTypeOK'
  OBVIOUS
<1>t. \A l \in leaving : l \in Leavers /\ l.sock \in Sockets
  BY DEF PresenceTypeOK, Leavers
<1>w. \A s \in Sockets : Where[s] \in Pods
  BY PresenceAssumption
<1>1. ASSUME NEW s \in Sockets, ValidateToken(s) \/ Register(s) \/ Evict(s) \/ SetOnline(s)
                                \/ Started(s)
      PROVE  PresenceTypeOK'
  BY <1>1 DEF ValidateToken, Register, Evict, SetOnline, Started, Step, timerVars, statusVars,
     PresenceTypeOK, Labels
<1>2. ASSUME NEW s \in Sockets, Limit(s)
      PROVE  PresenceTypeOK'
  <2>1. victim' \in [Sockets -> Sockets \cup {NoSocket}]
    BY <1>2 DEF Limit, Tabs, PresenceTypeOK
  <2>2. auth' \in [Sockets -> Labels]
    BY <1>2 DEF Limit, Step, PresenceTypeOK, Labels
  <2>3. QED
    BY <1>2, <2>1, <2>2 DEF Limit, timerVars, PresenceTypeOK
<1>3. ASSUME NEW s \in Sockets, Online(s)
      PROVE  PresenceTypeOK'
  <2>1. offline' = [offline EXCEPT ![Where[s]] = [@ EXCEPT !.known = FALSE]]
    BY <1>3 DEF Online
  <2>2. offline' \in [Pods -> Timers]
    BY <1>w, <2>1, TimersKept DEF PresenceTypeOK
  <2>3. QED
    BY <1>3, <2>2 DEF Online, Step, PresenceTypeOK, Labels
<1>4. ASSUME NEW s \in Sockets, Kick(s) \/ AuthFails(s) \/ Drop(s)
      PROVE  PresenceTypeOK'
  <2>1. PICK t \in Sockets \cup {NoSocket} : Disconnect(t, leaving)
    BY <1>4 DEF Kick, AuthFails, Drop, PresenceTypeOK
  <2>2. leaving' \subseteq Leavers /\ up' \subseteq Sockets
    <3>1. CASE t \in Sockets
      BY <2>1, <3>1, Disconnects, LeaverFields DEF PresenceTypeOK
    <3>2. CASE t = NoSocket
      BY <2>1, <3>2, PresenceAssumption DEF Disconnect, PresenceTypeOK
    <3>3. QED
      BY <3>1, <3>2
  <2>3. QED
    BY <1>4, <2>2 DEF Kick, AuthFails, Drop, Step, timerVars, PresenceTypeOK, Labels
<1>5. ASSUME NEW s \in Sockets, HeartbeatTimeout(s) \/ Revoke(s)
      PROVE  PresenceTypeOK'
  BY <1>5, LeaverFields DEF HeartbeatTimeout, Revoke, timerVars, PresenceTypeOK
<1>6. ASSUME NEW l \in leaving, Unregister(l) \/ Check(l) \/ Schedule(l)
      PROVE  PresenceTypeOK'
  <2>1. leaving' \subseteq Leavers
    <3>1. (\E label \in {"kick", "check", "schedule", "arm"} : To(l, label))
            \/ leaving' = leaving \ {l}
      BY <1>6 DEF Unregister, Check, Schedule
    <3>2. QED
      BY <1>t, <3>1, HandlerMoves DEF PresenceTypeOK
  <2>2. QED
    BY <1>6, <2>1 DEF Unregister, Check, Schedule, timerVars, PresenceTypeOK
<1>7. ASSUME NEW l \in leaving, KickRevoked(l) \/ LeaveFails(l)
      PROVE  PresenceTypeOK'
  BY <1>t, <1>7, Disconnects, LeaverFields DEF KickRevoked, LeaveFails, timerVars, PresenceTypeOK
<1>8. ASSUME NEW l \in leaving, Arm(l)
      PROVE  PresenceTypeOK'
  <2>1. offline' = [offline EXCEPT ![Where[l.sock]] = [@ EXCEPT !.known = TRUE]]
    BY <1>8 DEF Arm
  <2>2. offline' \in [Pods -> Timers]
    BY <1>t, <1>w, <2>1, TimersKept DEF PresenceTypeOK
  <2>3. QED
    BY <1>8, <2>2 DEF Arm, PresenceTypeOK
<1>9. ASSUME NEW p \in Pods, NEW which \in {"known", "lost"}, Fire(p, which)
      PROVE  PresenceTypeOK'
  <2>1. Fired(offline[p], which) \in Timers
    BY <1>9, TimersFire DEF Fire, PresenceTypeOK
  <2>2. \/ offline' = [offline EXCEPT ![p] = Fired(offline[p], which)]
        \/ offline' = [offline EXCEPT ![p] = Forgotten(Fired(offline[p], which))]
    BY <1>9 DEF Fire
  <2>3. offline' \in [Pods -> Timers]
    BY <2>1, <2>2, TimersKept DEF PresenceTypeOK
  <2>4. QED
    BY <1>9, <2>3 DEF Fire, socketVars, PresenceTypeOK
<1>10. ASSUME NEW p \in Pods, AnnounceOffline(p)
       PROVE  PresenceTypeOK'
  <2>1. offline' = [offline EXCEPT ![p] = Forgotten(offline[p])]
    BY <1>10 DEF AnnounceOffline
  <2>2. offline' \in [Pods -> Timers]
    BY <2>1, TimersKept DEF PresenceTypeOK
  <2>3. QED
    BY <1>10, <2>2 DEF AnnounceOffline, socketVars, PresenceTypeOK
<1>11. ASSUME NEW p \in Pods, PodDies(p)
       PROVE  PresenceTypeOK'
  BY <1>11 DEF PodDies, NoTimers, Timers, PresenceTypeOK, Labels
<1>12. CASE Goodbye \/ StatusExpires \/ (\E s \in Sockets : InfoExpires(s)) \/ UNCHANGED presenceVars
  BY <1>12 DEF Goodbye, StatusExpires, InfoExpires, presenceVars, socketVars, timerVars,
     PresenceTypeOK
<1>13. QED
  BY <1>1, <1>2, <1>3, <1>4, <1>5, <1>6, <1>7, <1>8, <1>9, <1>10, <1>11, <1>12
     DEF PresenceNext, Authenticate, Leave

-----------------------------------------------------------------------------
(* The status and what friends are told.                                   *)

LEMMA StatusStep ==
  ASSUME PresenceTypeOK, StatusShown, StatusKept, [PresenceNext]_presenceVars
  PROVE  StatusShown' /\ StatusKept'
<1>1. ASSUME NEW s \in Sockets,
             \/ ValidateToken(s) \/ Limit(s) \/ Evict(s) \/ Kick(s) \/ Online(s)
             \/ Drop(s) \/ HeartbeatTimeout(s) \/ Revoke(s)
      PROVE  StatusShown' /\ StatusKept'
  BY <1>1 DEF ValidateToken, Limit, Evict, Kick, Online, Drop, HeartbeatTimeout, Revoke,
     Step, Disconnect, Outlive, Excuse, timerVars, statusVars, PresenceTypeOK, StatusShown,
     StatusKept
<1>2. ASSUME NEW s \in Sockets, Register(s) \/ SetOnline(s) \/ Started(s) \/ AuthFails(s)
      PROVE  StatusShown' /\ StatusKept'
  BY <1>2 DEF Register, SetOnline, Started, AuthFails, Step, Disconnect, Outlive, Excuse,
     timerVars, statusVars, PresenceTypeOK, StatusShown, StatusKept
<1>3. ASSUME NEW l \in leaving, Leave(l) \/ LeaveFails(l)
      PROVE  StatusShown' /\ StatusKept'
  BY <1>3 DEF Leave, Unregister, KickRevoked, Check, Schedule, Arm, LeaveFails, Disconnect,
     Excuse, timerVars, statusVars, StatusShown, StatusKept
<1>4. ASSUME NEW p \in Pods, NEW which \in {"known", "lost"}, Fire(p, which)
      PROVE  StatusShown' /\ StatusKept'
  BY <1>4 DEF Fire, socketVars, statusVars, StatusShown, StatusKept
<1>5. ASSUME NEW p \in Pods, AnnounceOffline(p)
      PROVE  StatusShown' /\ StatusKept'
  BY <1>5 DEF AnnounceOffline, Excuse, socketVars, PresenceTypeOK, StatusShown, StatusKept
<1>6. ASSUME NEW p \in Pods, PodDies(p)
      PROVE  StatusShown' /\ StatusKept'
  BY <1>6 DEF PodDies, statusVars, PresenceTypeOK, StatusShown, StatusKept
<1>7. CASE Goodbye
  BY <1>7 DEF Goodbye, socketVars, timerVars, StatusShown, StatusKept
<1>8. CASE StatusExpires
  BY <1>8 DEF StatusExpires, socketVars, timerVars, StatusShown, StatusKept
<1>9. CASE (\E s \in Sockets : InfoExpires(s)) \/ UNCHANGED presenceVars
  BY <1>9 DEF InfoExpires, presenceVars, socketVars, timerVars, statusVars, StatusShown,
     StatusKept
<1>10. QED
  BY <1>1, <1>2, <1>3, <1>4, <1>5, <1>6, <1>7, <1>8, <1>9 DEF PresenceNext, Authenticate

-----------------------------------------------------------------------------
(* The way out.                                                            *)

LEMMA RegisteredLeaveStep ==
  ASSUME PresenceTypeOK, RegisteredLeave, TabsInOrder,
         [PresenceNext]_presenceVars
  PROVE  RegisteredLeave'
<1> SUFFICES ASSUME "gone" \notin excuses', NEW t \in registered'
             PROVE  t \in up' \/ Leaver(t, "disconnect") \in leaving'
  BY DEF RegisteredLeave
<1>t. /\ \A l \in leaving : l \in Leavers /\ l.sock \in Sockets
      /\ \A s \in Sockets : /\ Leaver(s, "disconnect").pc = "unregister"
                            /\ Leaver(s, "disconnect").by = "disconnect"
                            /\ Leaver(s, "disconnect").sock = s
  BY LeaverFields DEF PresenceTypeOK, Leavers
<1>k. ASSUME t \in registered, "gone" \notin excuses
      PROVE  /\ t \in up \/ Leaver(t, "disconnect") \in leaving
             /\ auth[t] # "open" /\ t \in Sockets
  BY <1>k DEF RegisteredLeave, TabsInOrder, Begun, PresenceTypeOK
<1>1. ASSUME NEW s \in Sockets, Register(s)
      PROVE  t \in up' \/ Leaver(t, "disconnect") \in leaving'
  BY <1>k, <1>1 DEF Register, Outlive, Excuse
<1>2. ASSUME NEW s \in Sockets,
             ValidateToken(s) \/ HeartbeatTimeout(s) \/ Revoke(s) \/ Evict(s) \/ Limit(s)
             \/ Online(s) \/ SetOnline(s) \/ Started(s)
      PROVE  t \in up' \/ Leaver(t, "disconnect") \in leaving'
  BY <1>k, <1>2 DEF ValidateToken, HeartbeatTimeout, Revoke, Evict, Limit, Online, SetOnline,
     Started, Outlive, Excuse
<1>3. ASSUME NEW s \in Sockets, Kick(s) \/ AuthFails(s) \/ Drop(s)
      PROVE  t \in up' \/ Leaver(t, "disconnect") \in leaving'
  <2>1. /\ t \in registered /\ "gone" \notin excuses
        /\ \E u : Disconnect(u, leaving)
    BY <1>3 DEF Kick, AuthFails, Drop
  <2>2. QED
    BY <1>k, <2>1, Disconnects
<1>4. ASSUME NEW l \in leaving, Unregister(l)
      PROVE  t \in up' \/ Leaver(t, "disconnect") \in leaving'
  <2>1. t \in registered /\ t # l.sock /\ "gone" \notin excuses /\ up' = up
    BY <1>4 DEF Unregister, Excuse
  <2>2. leaving \ {l} \subseteq leaving'
    BY <1>4 DEF Unregister, To
  <2>3. QED
    BY <1>t, <1>k, <2>1, <2>2
<1>5. ASSUME NEW l \in leaving, KickRevoked(l)
      PROVE  t \in up' \/ Leaver(t, "disconnect") \in leaving'
  <2>1. /\ t \in registered /\ "gone" \notin excuses /\ l.pc = "kick"
        /\ Disconnect(l.sock, leaving \ {l})
    BY <1>5 DEF KickRevoked
  <2>2. QED
    BY <1>t, <1>k, <2>1, Disconnects
<1>6. ASSUME NEW l \in leaving, Check(l) \/ Schedule(l) \/ Arm(l) \/ LeaveFails(l)
      PROVE  t \in up' \/ Leaver(t, "disconnect") \in leaving'
  <2>1. /\ t \in registered /\ "gone" \notin excuses /\ l.pc # "unregister" /\ up' = up
        /\ leaving \ {l} \subseteq leaving'
    BY <1>6 DEF Check, Schedule, Arm, LeaveFails, To, Excuse
  <2>2. QED
    BY <1>t, <1>k, <2>1
<1>7. ASSUME NEW p \in Pods, \/ \E which \in {"known", "lost"} : Fire(p, which)
                             \/ AnnounceOffline(p) \/ PodDies(p)
      PROVE  t \in up' \/ Leaver(t, "disconnect") \in leaving'
  BY <1>k, <1>7 DEF Fire, AnnounceOffline, PodDies, Excuse, socketVars
<1>8. CASE Goodbye \/ StatusExpires \/ (\E s \in Sockets : InfoExpires(s)) \/ UNCHANGED presenceVars
  BY <1>k, <1>8 DEF Goodbye, StatusExpires, InfoExpires, presenceVars, socketVars
<1>9. QED
  BY <1>1, <1>2, <1>3, <1>4, <1>5, <1>6, <1>7, <1>8 DEF PresenceNext, Authenticate, Leave

\* A socket that goes leaves a handler behind.
LEMMA PartingGoesOn ==
  ASSUME PresenceTypeOK, Parting, NEW s, NEW others \in SUBSET leaving, Disconnect(s, others),
         \A l \in leaving \ others : l.pc = "kick",
         \A t \in Sockets : auth[t] # "open" => auth'[t] # "open",
         UNCHANGED <<offline, announcing>>
  PROVE  Parting'
<1>1. CASE \E t \in up : auth[t] # "open"
  <2>1. PICK t \in up : auth[t] # "open"
    BY <1>1
  <2>2. t \in Sockets
    BY DEF PresenceTypeOK
  <2>3. CASE t = s
    BY <2>1, <2>2, <2>3, Disconnects, LeaverFields DEF Parting
  <2>4. CASE t # s
    BY <2>1, <2>2, <2>4, Disconnects DEF Parting
  <2>5. QED
    BY <2>3, <2>4
<1>2. CASE \E l \in leaving : \/ l.pc \in {"check", "schedule", "arm"}
                              \/ l.pc = "unregister" /\ l.by # "revoked"
  BY <1>2, Disconnects DEF Parting
<1>3. CASE \E p \in Pods : offline[p].known \/ offline[p].lost > 0 \/ announcing[p] > 0
  BY <1>3 DEF Parting
<1>4. QED
  BY <1>1, <1>2, <1>3 DEF Parting

\* Whoever is registered will part.
LEMMA RegisteredParts ==
  ASSUME PresenceTypeOK, RegisteredLeave, TabsInOrder, "gone" \notin excuses,
         registered # {}
  PROVE  \/ \E s \in up : auth[s] # "open"
         \/ \E l \in leaving : l.pc = "unregister" /\ l.by = "disconnect"
<1>1. PICK s \in registered : s \in up \/ Leaver(s, "disconnect") \in leaving
  BY DEF RegisteredLeave
<1>2. s \in Sockets /\ auth[s] # "open"
  BY DEF PresenceTypeOK, TabsInOrder, Begun
<1>3. QED
  BY <1>1, <1>2, LeaverFields

LEMMA PartingAheadStep ==
  ASSUME PresenceTypeOK, RegisteredLeave, TabsInOrder, PartingAhead,
         [PresenceNext]_presenceVars
  PROVE  PartingAhead'
<1> SUFFICES ASSUME "gone" \notin excuses', seenAs' = "online"
             PROVE  Parting'
  BY DEF PartingAhead
<1>t. \A l \in leaving : l \in Leavers /\ l.sock \in Sockets
  BY DEF PresenceTypeOK, Leavers
<1>k. ASSUME "gone" \notin excuses, seenAs = "online"
      PROVE  Parting
  BY <1>k DEF PartingAhead
<1>1. ASSUME NEW s \in Sockets,
             \/ ValidateToken(s) \/ HeartbeatTimeout(s) \/ Revoke(s) \/ Evict(s) \/ Limit(s)
             \/ Register(s) \/ SetOnline(s)
      PROVE  Parting'
  <2>1. /\ Parting /\ leaving \subseteq leaving' /\ UNCHANGED timerVars
        /\ \A t \in up : auth[t] # "open" => t \in up' /\ auth'[t] # "open"
    BY <1>k, <1>1 DEF ValidateToken, HeartbeatTimeout, Revoke, Evict, Limit, Register,
       SetOnline, Step, Outlive, Excuse, PresenceTypeOK
  <2>2. QED
    BY <2>1 DEF Parting, timerVars
\* The timer of its instance is cancelled, but the socket is there.
<1>2. ASSUME NEW s \in Sockets, Online(s) \/ Started(s)
      PROVE  Parting'
  <2>1. s \in up' /\ auth'[s] # "open"
    BY <1>2 DEF Online, Started, Step, Outlive, Excuse, PresenceTypeOK
  <2>2. QED
    BY <2>1 DEF Parting
<1>3. ASSUME NEW s \in Sockets, Kick(s) \/ AuthFails(s) \/ Drop(s)
      PROVE  Parting'
  <2>1. /\ Parting /\ UNCHANGED timerVars /\ \E u : Disconnect(u, leaving)
        /\ \A t \in Sockets : auth[t] # "open" => auth'[t] # "open"
    BY <1>k, <1>3 DEF Kick, AuthFails, Drop, Step, PresenceTypeOK
  <2>2. QED
    BY <2>1, PartingGoesOn DEF timerVars
<1>4. ASSUME NEW l \in leaving, KickRevoked(l)
      PROVE  Parting'
  <2>1. Parting /\ UNCHANGED <<auth, timerVars>> /\ Disconnect(l.sock, leaving \ {l})
    BY <1>k, <1>4 DEF KickRevoked
  <2>2. QED
    BY <1>4, <2>1, PartingGoesOn DEF KickRevoked, timerVars
<1>5. ASSUME NEW l \in leaving, Unregister(l)
      PROVE  Parting'
  <2>1. Parting /\ UNCHANGED <<up, auth, timerVars>> /\ l.pc = "unregister"
    BY <1>k, <1>5 DEF Unregister, Excuse
  <2>2. PICK r \in Leavers : /\ leaving' = (leaving \ {l}) \cup {r}
                             /\ r.pc = IF l.by = "revoked" THEN "kick" ELSE "check"
    BY <1>t, <1>5, HandlerMoves DEF Unregister
  <2>3. CASE l.by = "revoked"
    BY <2>1, <2>2, <2>3 DEF Parting, timerVars
  <2>4. CASE l.by # "revoked"
    BY <2>2, <2>4 DEF Parting
  <2>5. QED
    BY <2>3, <2>4
<1>6. ASSUME NEW l \in leaving, Check(l)
      PROVE  Parting'
  <2>1. "gone" \notin excuses /\ UNCHANGED <<up, auth>> /\ l.pc = "check"
    BY <1>6 DEF Check
  <2>2. CASE registered = {}
    <3>1. \E r \in leaving' : r.pc = "schedule"
      BY <1>t, <1>6, <2>2, HandlerMoves DEF Check
    <3>2. QED
      BY <3>1 DEF Parting
  <2>3. CASE registered # {}
    <3>1. leaving' = leaving \ {l}
      BY <1>6, <2>3 DEF Check
    <3>2. QED
      BY <2>1, <2>3, <3>1, RegisteredParts DEF Parting
  <2>4. QED
    BY <2>2, <2>3
<1>7. ASSUME NEW l \in leaving, Schedule(l)
      PROVE  Parting'
  <2>1. \E r \in leaving' : r.pc = "arm"
    BY <1>t, <1>7, HandlerMoves DEF Schedule
  <2>2. QED
    BY <2>1 DEF Parting
<1>8. ASSUME NEW l \in leaving, Arm(l)
      PROVE  Parting'
  <2>1. Where[l.sock] \in Pods
    BY <1>t, PresenceAssumption
  <2>2. offline' = [offline EXCEPT ![Where[l.sock]] = [@ EXCEPT !.known = TRUE]]
    BY <1>8 DEF Arm
  <2>3. offline'[Where[l.sock]].known
    BY <2>1, <2>2, TimersKept DEF PresenceTypeOK
  <2>4. QED
    BY <2>1, <2>3 DEF Parting
\* A timer announces, or a registered socket will part.
<1>9. ASSUME NEW p \in Pods, NEW which \in {"known", "lost"}, Fire(p, which)
      PROVE  Parting'
  <2>1. "gone" \notin excuses /\ UNCHANGED <<up, auth, leaving>>
    BY <1>9 DEF Fire, socketVars
  <2>2. CASE registered = {}
    <3>1. announcing[p] \in Nat /\ announcing'[p] = announcing[p] + 1
      BY <1>9, <2>2 DEF Fire, PresenceTypeOK
    <3>2. QED
      BY <3>1 DEF Parting
  <2>3. CASE registered # {}
    BY <2>1, <2>3, RegisteredParts DEF Parting
  <2>4. QED
    BY <2>2, <2>3
<1>10. CASE \/ \E l \in leaving : LeaveFails(l)
            \/ \E p \in Pods : AnnounceOffline(p) \/ PodDies(p)
  BY <1>10 DEF LeaveFails, AnnounceOffline, PodDies, Excuse
<1>11. CASE Goodbye \/ StatusExpires \/ (\E s \in Sockets : InfoExpires(s)) \/ UNCHANGED presenceVars
  <2>1. Parting /\ UNCHANGED <<up, auth, leaving, timerVars>>
    BY <1>k, <1>11 DEF Goodbye, StatusExpires, InfoExpires, presenceVars, socketVars
  <2>2. QED
    BY <2>1 DEF Parting, timerVars
<1>12. QED
  BY <1>1, <1>2, <1>3, <1>4, <1>5, <1>6, <1>7, <1>8, <1>9, <1>10, <1>11
     DEF PresenceNext, Authenticate, Leave

-----------------------------------------------------------------------------
(* Tabs.                                                                   *)

LEMMA SessionsApart ==
  ASSUME NEW s, NEW t, NEW u, SameSession(s, t)
  PROVE  SameSession(t, s) /\ (SameSession(s, u) <=> SameSession(t, u))
BY DEF SameSession, SamePlatform

\* The steps that count, and the others.
QuietTabs ==
  /\ registered' \subseteq registered /\ described' \subseteq described /\ victim' = victim
  /\ \A t \in Sockets :
       /\ auth[t] \in {"limit", "evict", "kick"} => auth'[t] = auth[t]
       /\ auth'[t] \in {"limit", "evict", "kick"} => auth'[t] = auth[t]

LEMMA TabsView ==
  ASSUME PresenceTypeOK, [PresenceNext]_presenceVars
  PROVE  \/ \E s \in Sockets : \/ Register(s) \/ Limit(s) \/ Evict(s)
                               \/ Kick(s) \/ AuthFails(s)
         \/ \E p \in Pods : PodDies(p)
         \/ QuietTabs
<1>1. ASSUME NEW s \in Sockets,
             \/ ValidateToken(s) \/ Online(s) \/ SetOnline(s) \/ Started(s) \/ Drop(s)
             \/ HeartbeatTimeout(s) \/ Revoke(s)
      PROVE  QuietTabs
  BY <1>1 DEF ValidateToken, Online, SetOnline, Started, Drop, HeartbeatTimeout, Revoke, Step,
     PresenceTypeOK, QuietTabs
<1>2. ASSUME NEW l \in leaving, Leave(l) \/ LeaveFails(l)
      PROVE  QuietTabs
  BY <1>2 DEF Leave, Unregister, KickRevoked, Check, Schedule, Arm, LeaveFails, QuietTabs
<1>3. CASE \/ \E p \in Pods : \/ \E which \in {"known", "lost"} : Fire(p, which)
                              \/ AnnounceOffline(p)
           \/ Goodbye \/ StatusExpires \/ (\E s \in Sockets : InfoExpires(s))
           \/ UNCHANGED presenceVars
  BY <1>3 DEF Fire, AnnounceOffline, Goodbye, StatusExpires, InfoExpires,
     presenceVars, socketVars, QuietTabs
<1>4. QED
  BY <1>1, <1>2, <1>3 DEF PresenceNext, Authenticate

LEMMA BegunStays ==
  ASSUME PresenceTypeOK, NEW s \in Sockets, Begun(s), [PresenceNext]_presenceVars
  PROVE  Begun(s)'
<1>1. CASE \E t \in Sockets : \/ Register(t) \/ Limit(t) \/ Evict(t)
                              \/ Kick(t) \/ AuthFails(t) \/ ValidateToken(t)
                              \/ Online(t) \/ SetOnline(t) \/ Started(t)
  BY <1>1 DEF Register, Limit, Evict, Kick, AuthFails, ValidateToken, Online, SetOnline, Started,
     Step, Begun, PresenceTypeOK
<1>2. CASE \E p \in Pods : PodDies(p)
  BY <1>2 DEF PodDies, Begun
<1>3. CASE UNCHANGED auth
  BY <1>3 DEF Begun
<1>4. QED
  BY <1>1, <1>2, <1>3 DEF PresenceNext, Authenticate, Drop, HeartbeatTimeout, Revoke, Leave,
     Unregister, KickRevoked, Check, Schedule, Arm, LeaveFails, Fire, AnnounceOffline, Goodbye,
     StatusExpires, InfoExpires, socketVars, presenceVars

LEMMA TabsInOrderStep ==
  ASSUME PresenceTypeOK, TabsInOrder, [PresenceNext]_presenceVars
  PROVE  TabsInOrder'
<1>k. /\ \A s \in registered \cup described : s \in Sockets /\ Begun(s)
      /\ \A s \in Sockets : victim[s] # NoSocket =>
           auth[s] \in {"evict", "kick"} /\ Begun(victim[s]) /\ victim[s] \in Sockets
      /\ IsFiniteSet(described) /\ \A s \in Sockets : IsFiniteSet(Evictors(s))
  BY DEF TabsInOrder, PresenceTypeOK
<1>1. ASSUME NEW x \in Sockets, Register(x)
      PROVE  TabsInOrder'
  <2>1. /\ registered' = registered \cup {x} /\ described' = described \cup {x}
        /\ victim' = victim
        /\ auth[x] = "register" /\ auth' = [auth EXCEPT ![x] = "limit"] /\ Begun(x)'
    BY <1>1 DEF Register, Step, Begun, PresenceTypeOK
  <2>2. IsFiniteSet(described')
    BY <1>k, <2>1, FS_AddElement
  <2>3. ASSUME NEW s \in Sockets
        PROVE  IsFiniteSet(Evictors(s)')
    <3>1. Evictors(s)' \subseteq Evictors(s) \cup {x}
      BY <2>1 DEF Evictors, SameSession, PresenceTypeOK
    <3>2. QED
      BY <1>k, <3>1, FS_AddElement, FS_Subset
  <2>4. ASSUME NEW s \in Sockets, victim'[s] # NoSocket
        PROVE  auth'[s] \in {"evict", "kick"} /\ Begun(victim[s])'
    <3>1. auth[s] \in {"evict", "kick"} /\ Begun(victim[s]) /\ victim[s] \in Sockets
      BY <1>k, <2>1, <2>4
    <3>2. QED
      BY <2>1, <3>1, BegunStays DEF PresenceTypeOK, Begun
  <2>5. QED
    BY <1>k, <2>1, <2>2, <2>3, <2>4, BegunStays DEF TabsInOrder
<1>2. ASSUME \A x \in Sockets : ~Register(x)
      PROVE  TabsInOrder'
  <2>1. /\ registered' \subseteq registered /\ described' \subseteq described
        /\ \A t \in Sockets : auth'[t] = "limit" => auth[t] = "limit"
    <3>1. ASSUME NEW x \in Sockets, Limit(x) \/ Evict(x) \/ Kick(x) \/ AuthFails(x)
          PROVE  /\ registered' \subseteq registered /\ described' \subseteq described
                 /\ \A t \in Sockets : auth'[t] = "limit" => auth[t] = "limit"
      BY <3>1 DEF Limit, Evict, Kick, AuthFails, Step, PresenceTypeOK
    <3>2. ASSUME NEW p \in Pods, PodDies(p)
          PROVE  /\ registered' \subseteq registered /\ described' \subseteq described
                 /\ \A t \in Sockets : auth'[t] = "limit" => auth[t] = "limit"
      BY <3>2 DEF PodDies
    <3>3. QED
      BY <1>2, <3>1, <3>2, TabsView DEF QuietTabs
  <2>2. IsFiniteSet(described') /\ \A s \in Sockets : IsFiniteSet(Evictors(s)')
    <3>1. ASSUME NEW s \in Sockets
          PROVE  IsFiniteSet(Evictors(s)')
      <4>1. Evictors(s)' \subseteq Evictors(s)
        BY <2>1 DEF Evictors, SameSession
      <4>2. QED
        BY <1>k, <4>1, FS_Subset
    <3>2. QED
      BY <1>k, <2>1, <3>1, FS_Subset
  <2>3. ASSUME NEW s \in Sockets, victim'[s] # NoSocket
        PROVE  auth'[s] \in {"evict", "kick"} /\ Begun(victim[s])'
    <3>1. ASSUME NEW x \in Sockets, Limit(x)
          PROVE  auth'[s] \in {"evict", "kick"} /\ \E v \in Sockets : victim'[s] = v /\ Begun(v)
      <4>1. CASE victim'[s] = victim[s] /\ auth'[s] = auth[s]
        BY <1>k, <2>3, <4>1
      <4>2. CASE ~(victim'[s] = victim[s] /\ auth'[s] = auth[s])
        <5>1. s = x
          BY <3>1, <4>2 DEF Limit, Step, PresenceTypeOK
        <5>2. CASE UNCHANGED victim
          BY <1>k, <2>3, <3>1, <5>1, <5>2 DEF Limit
        <5>3. ASSUME NEW oldest \in Tabs(x), victim' = [victim EXCEPT ![x] = oldest],
                     Step(x, "evict")
              PROVE  /\ auth'[s] \in {"evict", "kick"}
                     /\ \E v \in Sockets : victim'[s] = v /\ Begun(v)
          BY <1>k, <5>1, <5>3 DEF Step, Tabs, PresenceTypeOK
        <5>4. QED
          BY <3>1, <5>2, <5>3 DEF Limit
      <4>3. QED
        BY <4>1, <4>2
    <3>2. ASSUME NEW x \in Sockets, Evict(x) \/ Kick(x) \/ AuthFails(x)
          PROVE  auth'[s] \in {"evict", "kick"} /\ \E v \in Sockets : victim'[s] = v /\ Begun(v)
      BY <1>k, <2>3, <3>2 DEF Evict, Kick, AuthFails, Step, PresenceTypeOK
    <3>3. ASSUME NEW p \in Pods, PodDies(p)
          PROVE  auth'[s] \in {"evict", "kick"} /\ \E v \in Sockets : victim'[s] = v /\ Begun(v)
      BY <1>k, <2>3, <3>3 DEF PodDies
    <3>4. ASSUME QuietTabs
          PROVE  auth'[s] \in {"evict", "kick"} /\ \E v \in Sockets : victim'[s] = v /\ Begun(v)
      <4>1. victim' = victim /\ victim[s] # NoSocket
        BY <2>3, <3>4 DEF QuietTabs
      <4>2. auth[s] \in {"evict", "kick"} /\ victim[s] \in Sockets /\ Begun(victim[s])
        BY <1>k, <4>1
      <4>3. auth'[s] = auth[s]
        BY <3>4, <4>2 DEF QuietTabs
      <4>4. QED
        BY <4>1, <4>2, <4>3
    <3>5. auth'[s] \in {"evict", "kick"} /\ \E v \in Sockets : victim'[s] = v /\ Begun(v)
      <4>1. \/ \E x \in Sockets : Limit(x) \/ Evict(x) \/ Kick(x) \/ AuthFails(x)
            \/ \E p \in Pods : PodDies(p)
            \/ QuietTabs
        BY <1>2, TabsView
      <4>2. QED
        BY <3>1, <3>2, <3>3, <3>4, <4>1
    <3>6. PICK v \in Sockets : victim'[s] = v /\ Begun(v)
      BY <3>5
    <3>7. Begun(v)'
      BY <3>6, BegunStays
    <3>8. QED
      BY <3>5, <3>6, <3>7 DEF Begun
  <2>4. QED
    BY <1>k, <2>1, <2>2, <2>3, BegunStays DEF TabsInOrder
<1>3. QED
  BY <1>1, <1>2

\* What Left and Evictors count, for one session.
LEMMA TabsCountedStep ==
  ASSUME PresenceTypeOK, TabsInOrder, TabsCounted, [PresenceNext]_presenceVars
  PROVE  TabsCounted'
<1> SUFFICES ASSUME "tabs" \notin excuses', NEW s \in Sockets
             PROVE  /\ auth'[s] = "kick" => victim'[s] \notin described'
                    /\ Cardinality(Left(s)') <= 1 + Cardinality(Evictors(s)')
  BY DEF TabsCounted
<1>k. /\ \A t \in described : t \in Sockets /\ Begun(t)
      /\ \A t \in Sockets : victim[t] # NoSocket =>
           auth[t] \in {"evict", "kick"} /\ Begun(victim[t]) /\ victim[t] \in Sockets
      /\ IsFiniteSet(Left(s)) /\ IsFiniteSet(Evictors(s))
      /\ Cardinality(Left(s)) \in Nat /\ Cardinality(Evictors(s)) \in Nat
      /\ NoSocket \notin Sockets
  <2>1. IsFiniteSet(described) /\ Left(s) \subseteq described /\ IsFiniteSet(Evictors(s))
    BY DEF TabsInOrder, Left
  <2>2. IsFiniteSet(Left(s))
    BY <2>1, FS_Subset
  <2>3. QED
    BY <2>1, <2>2, FS_CardinalityType, PresenceAssumption DEF TabsInOrder, PresenceTypeOK
<1>i. ASSUME "tabs" \notin excuses
      PROVE  /\ \A t \in Sockets : auth[t] = "kick" => victim[t] \notin described
             /\ Cardinality(Left(s)) <= 1 + Cardinality(Evictors(s))
  BY <1>i DEF TabsCounted
\* A step after which no more tabs are left, and as many evictors.
<1>q. ASSUME "tabs" \notin excuses, Left(s)' \subseteq Left(s), Evictors(s)' = Evictors(s)
      PROVE  Cardinality(Left(s)') <= 1 + Cardinality(Evictors(s)')
  <2>1. Cardinality(Left(s)') <= Cardinality(Left(s)) /\ Cardinality(Left(s)') \in Nat
    BY <1>k, <1>q, FS_Subset, FS_CardinalityType
  <2>2. QED
    BY <1>i, <1>k, <1>q, <2>1
\* A tab more, and a handler that will evict one.
<1>1. ASSUME NEW x \in Sockets, Register(x)
      PROVE  /\ auth'[s] = "kick" => victim'[s] \notin described'
             /\ Cardinality(Left(s)') <= 1 + Cardinality(Evictors(s)')
  <2>1. /\ described' = described \cup {x} /\ victim' = victim /\ "tabs" \notin excuses
        /\ auth[x] = "register" /\ auth' = [auth EXCEPT ![x] = "limit"]
    BY <1>1 DEF Register, Step, Outlive, Excuse
  <2>2. \A t \in Sockets : auth'[t] = IF t = x THEN "limit" ELSE auth[t]
    BY <2>1 DEF PresenceTypeOK
  <2>3. auth'[s] = "kick" => victim'[s] \notin described'
    <3>1. ASSUME auth[s] = "kick", victim[s] = x
          PROVE  FALSE
      BY <1>k, <2>1, <3>1 DEF Begun
    <3>2. QED
      BY <1>i, <2>1, <2>2, <3>1
  <2>4. x \notin described /\ \A u \in Sockets : victim[u] # x
    BY <1>k, <2>1 DEF Begun
  <2>5. CASE SameSession(s, x)
    <3>1. Left(s)' = Left(s) \cup {x} /\ x \notin Left(s)
      BY <2>1, <2>4, <2>5 DEF Left, SameSession
    <3>2. Evictors(s)' = Evictors(s) \cup {x} /\ x \notin Evictors(s)
      BY <2>1, <2>2, <2>5 DEF Evictors, SameSession
    <3>3. /\ Cardinality(Left(s)') = Cardinality(Left(s)) + 1
          /\ Cardinality(Evictors(s)') = Cardinality(Evictors(s)) + 1
      BY <1>k, <3>1, <3>2, FS_AddElement
    <3>4. QED
      BY <1>i, <1>k, <2>1, <2>3, <3>3
  <2>6. CASE ~SameSession(s, x)
    <3>1. Left(s)' = Left(s) /\ Evictors(s)' = Evictors(s)
      BY <2>1, <2>2, <2>6 DEF Left, Evictors, SameSession
    <3>2. QED
      BY <1>i, <2>1, <2>3, <3>1
  <2>7. QED
    BY <2>5, <2>6
\* A handler less, and a tab that it will evict, or none.
<1>2. ASSUME NEW x \in Sockets, Limit(x)
      PROVE  /\ auth'[s] = "kick" => victim'[s] \notin described'
             /\ Cardinality(Left(s)') <= 1 + Cardinality(Evictors(s)')
  <2>1. /\ described' = described /\ auth[x] = "limit" /\ victim[x] = NoSocket
        /\ "tabs" \notin excuses
    BY <1>k, <1>2 DEF Limit, Excuse
  <2>2. PICK label \in {"online", "evict"} : auth' = [auth EXCEPT ![x] = label]
    BY <1>2 DEF Limit, Step
  <2>3. \A t \in Sockets : auth'[t] = IF t = x THEN label ELSE auth[t]
    BY <2>2 DEF PresenceTypeOK
  <2>4. Evictors(s)' = Evictors(s) \ {x}
    BY <2>3 DEF Evictors, SameSession
  <2>5. x \in Evictors(s) <=> SameSession(s, x)
    BY <2>1 DEF Evictors
  <2>6. CASE (Tabs(x) = {} \/ Login[x] = NoLogin) /\ victim' = victim
    <3>1. auth'[s] = "kick" => victim'[s] \notin described'
      BY <1>i, <2>1, <2>3, <2>6
    <3>2. Left(s)' = Left(s)
      BY <2>1, <2>6 DEF Left, SameSession
    <3>3. CASE SameSession(s, x)
      <4>1. Left(s) \subseteq {x}
        <5>1. Tabs(x) = {}
          BY <2>6, <3>3, SessionsApart DEF SameSession
        <5>2. QED
          BY <1>k, <3>3, <5>1, SessionsApart DEF Left, Tabs
      <4>2. Cardinality(Left(s)) <= 1
        <5>1. IsFiniteSet({x}) /\ Cardinality({x}) = 1
          BY FS_Singleton
        <5>2. QED
          BY <4>1, <5>1, FS_Subset
      <4>3. Cardinality(Evictors(s)') \in Nat
        BY <1>k, <2>4, FS_RemoveElement, FS_CardinalityType
      <4>4. QED
        BY <1>k, <3>1, <3>2, <4>2, <4>3
    <3>4. CASE ~SameSession(s, x)
      <4>1. Evictors(s)' = Evictors(s)
        BY <2>4, <2>5, <3>4
      <4>2. QED
        BY <1>i, <2>1, <3>1, <3>2, <4>1
    <3>5. QED
      BY <3>3, <3>4
  <2>7. ASSUME NEW oldest \in Tabs(x), victim' = [victim EXCEPT ![x] = oldest]
        PROVE  /\ auth'[s] = "kick" => victim'[s] \notin described'
               /\ Cardinality(Left(s)') <= 1 + Cardinality(Evictors(s)')
    <3>1. /\ oldest \in described /\ oldest \in Sockets
          /\ SameSession(x, oldest) \/ Login[x] = NoLogin
          /\ \A t \in Sockets : victim'[t] = IF t = x THEN oldest ELSE victim[t]
      BY <1>k, <2>7 DEF Tabs, PresenceTypeOK
    <3>2. \A t \in Sockets : victim[t] # oldest
      <4>1. ASSUME NEW t \in Sockets, victim[t] = oldest
            PROVE  FALSE
        <5>1. PICK o \in Tabs(x) : /\ victim' = [victim EXCEPT ![x] = o]
                                   /\ \A u \in Sockets : victim[u] # o
          <6>1. victim' # victim
            BY <1>k, <2>1, <3>1
          <6>2. QED
            BY <1>2, <6>1 DEF Limit, Excuse
        <5>2. o = oldest
          BY <3>1, <5>1 DEF PresenceTypeOK
        <5>3. QED
          BY <4>1, <5>1, <5>2
      <4>2. QED
        BY <4>1
    <3>3. auth'[s] = "kick" => victim'[s] \notin described'
      BY <1>i, <2>1, <2>3, <3>1
    <3>4. Left(s)' = Left(s) \ {oldest}
      BY <1>k, <2>1, <3>1 DEF Left, SameSession
    <3>5. CASE SameSession(s, x)
      <4>1. oldest \in Left(s) /\ x \in Evictors(s)
        <5>1. SameSession(x, oldest)
          BY <3>1, <3>5, SessionsApart DEF SameSession
        <5>2. QED
          BY <2>5, <3>1, <3>2, <3>5, <5>1, SessionsApart DEF Left
      <4>2. /\ Cardinality(Left(s)') = Cardinality(Left(s)) - 1
            /\ Cardinality(Evictors(s)') = Cardinality(Evictors(s)) - 1
        BY <1>k, <2>4, <3>4, <4>1, FS_RemoveElement
      <4>3. QED
        BY <1>i, <1>k, <2>1, <3>3, <4>2
    <3>6. CASE ~SameSession(s, x)
      <4>1. Left(s)' \subseteq Left(s) /\ Evictors(s)' = Evictors(s)
        BY <2>4, <2>5, <3>4, <3>6
      <4>2. QED
        BY <1>q, <2>1, <3>3, <4>1
    <3>7. QED
      BY <3>5, <3>6
  <2>8. QED
    BY <1>2, <2>6, <2>7 DEF Limit
<1>3. ASSUME NEW x \in Sockets, Evict(x)
      PROVE  /\ auth'[s] = "kick" => victim'[s] \notin described'
             /\ Cardinality(Left(s)') <= 1 + Cardinality(Evictors(s)')
  <2>1. /\ described' = described \ {victim[x]} /\ victim' = victim /\ "tabs" \notin excuses
        /\ auth[x] = "evict" /\ \A t \in Sockets : auth'[t] = IF t = x THEN "kick" ELSE auth[t]
    BY <1>3 DEF Evict, Step, Excuse, PresenceTypeOK
  <2>2. Left(s)' \subseteq Left(s) /\ Evictors(s)' = Evictors(s)
    BY <2>1 DEF Left, Evictors, SameSession
  <2>3. QED
    BY <1>i, <1>q, <2>1, <2>2
<1>4. ASSUME NEW x \in Sockets, Kick(x) \/ AuthFails(x)
      PROVE  /\ auth'[s] = "kick" => victim'[s] \notin described'
             /\ Cardinality(Left(s)') <= 1 + Cardinality(Evictors(s)')
  <2>1. /\ described' = described /\ "tabs" \notin excuses
        /\ auth[x] \notin {"limit", "evict"}
        /\ \A t \in Sockets : victim'[t] = IF t = x THEN NoSocket ELSE victim[t]
    BY <1>4 DEF Kick, AuthFails, PresenceTypeOK
  <2>2. \A t \in Sockets : t # x => auth'[t] = auth[t]
    BY <1>4 DEF Kick, AuthFails, Step, PresenceTypeOK
  <2>3. auth'[x] \in {"online", "failed"}
    BY <1>4 DEF Kick, AuthFails, Step, PresenceTypeOK
  <2>4. Left(s)' \subseteq Left(s)
    <3>1. victim[x] \notin described
      BY <1>i, <1>k, <2>1
    <3>2. QED
      BY <2>1, <3>1 DEF Left, SameSession
  <2>5. Evictors(s)' = Evictors(s)
    BY <2>1, <2>2, <2>3 DEF Evictors, SameSession
  <2>6. QED
    BY <1>i, <1>q, <2>1, <2>2, <2>3, <2>4, <2>5
<1>5. ASSUME NEW p \in Pods, PodDies(p)
      PROVE  /\ auth'[s] = "kick" => victim'[s] \notin described'
             /\ Cardinality(Left(s)') <= 1 + Cardinality(Evictors(s)')
  <2>1. /\ described' = described /\ "tabs" \notin excuses
        /\ \A t \in Sockets :
             \/ victim'[t] = victim[t] /\ auth'[t] = auth[t]
             \/ victim'[t] = NoSocket /\ auth'[t] = "failed" /\ auth[t] \notin {"limit", "evict"}
    BY <1>5 DEF PodDies
  <2>2. Left(s)' \subseteq Left(s)
    <3>1. ASSUME NEW t \in described, NEW u \in Sockets, victim[u] = t
          PROVE  victim'[u] = t
      BY <1>i, <1>k, <2>1, <3>1
    <3>2. QED
      BY <2>1, <3>1 DEF Left, SameSession
  <2>3. Evictors(s)' = Evictors(s)
    BY <2>1 DEF Evictors, SameSession
  <2>4. QED
    BY <1>i, <1>q, <2>1, <2>2, <2>3
<1>6. CASE QuietTabs
  <2>1. Left(s)' \subseteq Left(s) /\ Evictors(s)' = Evictors(s)
    BY <1>6 DEF QuietTabs, Left, Evictors, SameSession
  <2>2. "tabs" \notin excuses
    BY DEF PresenceNext, ValidateToken, Authenticate, Register, Limit, Evict, Kick, Online,
       SetOnline, Started, AuthFails, Drop, HeartbeatTimeout, Revoke, Leave, Unregister,
       KickRevoked, Check, Schedule, Arm, LeaveFails, Fire, AnnounceOffline, PodDies, Goodbye,
       StatusExpires, InfoExpires, Outlive, Excuse, presenceVars
  <2>3. QED
    BY <1>6, <1>i, <1>q, <2>1, <2>2 DEF QuietTabs
<1>7. QED
  BY <1>1, <1>2, <1>3, <1>4, <1>5, <1>6, TabsView

-----------------------------------------------------------------------------
LEMMA PresenceInvariant == PresenceSpec => []PresenceInv
<1>1. PresenceInit => PresenceInv
  <2> SUFFICES ASSUME PresenceInit
               PROVE  PresenceInv
    OBVIOUS
  <2>1. PresenceTypeOK
    BY DEF PresenceInit, PresenceTypeOK, Labels, Timers, NoTimers
  <2>2. StatusShown /\ StatusKept /\ RegisteredLeave /\ PartingAhead
    BY DEF PresenceInit, StatusShown, StatusKept, RegisteredLeave, PartingAhead
  <2>3. registered = {} /\ described = {} /\ \A s \in Sockets : auth[s] = "open" /\ victim[s] = NoSocket
    BY DEF PresenceInit
  <2>4. \A s \in Sockets : Left(s) = {} /\ Evictors(s) = {}
    BY <2>3 DEF Left, Evictors
  <2>5. TabsInOrder /\ TabsCounted
    BY <2>3, <2>4, FS_EmptySet DEF TabsInOrder, TabsCounted
  <2>6. QED
    BY <2>1, <2>2, <2>5 DEF PresenceInv
<1>2. PresenceInv /\ [PresenceNext]_presenceVars => PresenceInv'
  BY PresenceTypesStep, StatusStep, RegisteredLeaveStep, PartingAheadStep, TabsInOrderStep,
     TabsCountedStep DEF PresenceInv
<1>3. QED
  BY <1>1, <1>2, PTL DEF PresenceSpec

(* When no handler runs, a connected user is online to friends and in      *)
(* presence-service, whatever the number of sockets and instances.         *)
THEOREM PresenceConnectedIsKnown == PresenceSpec => []ConnectedIsKnown
<1>1. PresenceInv => ConnectedIsKnown
  <2> SUFFICES ASSUME PresenceInv, Quiet, NEW s \in Connected, "presence" \notin excuses
               PROVE  seenAs = "online" /\ status
    BY DEF ConnectedIsKnown
  <2>1. status /\ ~goodbye
    BY DEF PresenceInv, StatusKept, Connected
  <2>2. \A t \in Sockets : auth[t] # "broadcast"
    BY DEF Quiet
  <2>3. QED
    BY <2>1, <2>2 DEF PresenceInv, StatusShown
<1>2. QED
  BY <1>1, PresenceInvariant, PTL

(* One tab for each login and platform: every tab too many has a handler   *)
(* that will evict one, so none is left when no handler runs.              *)
THEOREM PresenceOneTab == PresenceSpec => []OneTab
<1>1. PresenceInv => OneTab
  <2> SUFFICES ASSUME PresenceInv, Quiet, "tabs" \notin excuses,
                      NEW s \in Connected \cap described, NEW t \in Connected \cap described, SameSession(s, t), s # t
               PROVE  FALSE
    BY DEF OneTab
  <2>1. /\ s \in described /\ t \in described /\ s \in Sockets /\ t \in Sockets
        /\ SameSession(s, s)
    BY DEF PresenceInv, PresenceTypeOK, SameSession, SamePlatform
  <2>2. \A u \in Sockets : auth[u] \notin {"limit", "evict", "kick"}
    BY DEF Quiet
  <2>3. {s, t} \subseteq Left(s)
    <3>1. \A u \in Sockets : victim[u] = NoSocket
      BY <2>2 DEF PresenceInv, TabsInOrder
    <3>2. QED
      BY <2>1, <3>1, PresenceAssumption DEF Left
  <2>4. Evictors(s) = {}
    BY <2>2 DEF Evictors
  <2>5. Cardinality(Left(s)) <= 1 + Cardinality(Evictors(s)) /\ IsFiniteSet(described)
    BY <2>1 DEF PresenceInv, TabsCounted, TabsInOrder
  <2>6. IsFiniteSet(Left(s)) /\ Cardinality(Left(s)) \in Nat
    <3>1. Left(s) \subseteq described
      BY DEF Left
    <3>2. QED
      BY <2>5, <3>1, FS_Subset, FS_CardinalityType
  <2>7. Cardinality({s, t}) = 2 /\ IsFiniteSet({s, t})
    <3>1. IsFiniteSet({s}) /\ Cardinality({s}) = 1
      BY FS_Singleton
    <3>2. {s, t} = {s} \cup {t} /\ t \notin {s}
      OBVIOUS
    <3>3. QED
      BY <3>1, <3>2, FS_AddElement
  <2>8. Cardinality({s, t}) <= Cardinality(Left(s))
    BY <2>3, <2>6, FS_Subset
  <2>9. QED
    BY <2>4, <2>5, <2>6, <2>7, <2>8, FS_EmptySet
<1>2. QED
  BY <1>1, PresenceInvariant, PTL

(* A user who has gone for good is shown as offline: as long as friends    *)
(* see the user online, a socket, a handler or a timer will change that.   *)
THEOREM PresenceGoneIsShown == PresenceSpec => []GoneIsShown
<1>1. PresenceInv => GoneIsShown
  <2> SUFFICES ASSUME PresenceInv, Quiet, up = {}, \A p \in Pods : offline[p] = NoTimers,
                      "gone" \notin excuses, seenAs # "offline"
               PROVE  FALSE
    BY DEF GoneIsShown
  <2>1. Parting
    BY DEF PresenceInv, PresenceTypeOK, PartingAhead
  <2>2. \A p \in Pods : ~offline[p].known /\ ~(offline[p].lost > 0)
    BY DEF NoTimers
  <2>3. QED
    BY <2>1, <2>2 DEF Parting, Quiet
<1>2. QED
  BY <1>1, PresenceInvariant, PTL

-----------------------------------------------------------------------------
(* Messages on their way to Kafka.                                         *)

Requests == [pc : {"idle", "guard", "validate", "enqueue", "reply"},
             msg : Messages \cup {NoMessage}]

SendTypeOK ==
  /\ request \in [Instances -> Requests]
  /\ \A i \in Instances : request[i].pc # "idle" => request[i].msg \in Messages
  /\ processed \subseteq Messages
  /\ acked \in Seq(Messages) /\ queue \in Seq(Messages) /\ kafka \in Seq(Messages)
  /\ batch \in [Instances -> Seq(Messages)]
  /\ pending \in [Instances -> SUBSET Nat] /\ failed \in [Instances -> SUBSET Nat]
  /\ \A i \in Instances : pending[i] \cup failed[i] \subseteq 1 .. Len(batch[i])

Kept(m) ==
  \/ m \in lost \/ m \in ToSet(queue) \/ m \in ToSet(kafka)
  \/ \E i \in Instances : InBatch(i, m)

\* Whatever a client was told of, or may be told of, is kept.
KeptInv ==
  \A m \in Messages :
    \/ m \in ToSet(acked) \cup processed
    \/ \E i \in Instances : request[i].pc = "reply" /\ request[i].msg = m
    => Kept(m)

SendInv == SendTypeOK /\ KeptInv

LEMMA SequenceSets ==
  ASSUME NEW S, NEW s \in Seq(S)
  PROVE  /\ Reverse(s) \in Seq(S) /\ ToSet(Reverse(s)) = ToSet(s) /\ ToSet(s) \subseteq S
         /\ \A e \in S : Append(s, e) \in Seq(S) /\ ToSet(Append(s, e)) = ToSet(s) \cup {e}
<1>1. Reverse(s) \in Seq(S) /\ Len(Reverse(s)) = Len(s)
  BY DEF Reverse
<1>2. ToSet(Reverse(s)) = ToSet(s)
  <2>1. ASSUME NEW k \in 1 .. Len(s)
        PROVE  s[k] \in ToSet(Reverse(s)) /\ Reverse(s)[k] \in ToSet(s)
    <3>1. (Len(s) - k) + 1 \in 1 .. Len(s) /\ (Len(s) - ((Len(s) - k) + 1)) + 1 = k
      OBVIOUS
    <3>2. /\ Reverse(s)[k] = s[(Len(s) - k) + 1]
          /\ Reverse(s)[(Len(s) - k) + 1] = s[k]
      BY <3>1 DEF Reverse
    <3>3. DOMAIN Reverse(s) = 1 .. Len(s) /\ DOMAIN s = 1 .. Len(s)
      BY <1>1
    <3>4. QED
      BY <3>1, <3>2, <3>3 DEF ToSet
  <2>2. QED
    BY <1>1, <2>1 DEF ToSet
<1>3. ToSet(s) \subseteq S
  BY DEF ToSet
<1>4. ASSUME NEW e \in S
      PROVE  Append(s, e) \in Seq(S) /\ ToSet(Append(s, e)) = ToSet(s) \cup {e}
  <2>1. /\ Append(s, e) \in Seq(S) /\ DOMAIN Append(s, e) = (DOMAIN s) \cup {Len(s) + 1}
        /\ \A k \in DOMAIN s : Append(s, e)[k] = s[k]
        /\ Append(s, e)[Len(s) + 1] = e
    OBVIOUS
  <2>2. QED
    BY <2>1 DEF ToSet
<1>5. QED
  BY <1>1, <1>2, <1>3, <1>4

LEMMA MessagesJoined ==
  ASSUME NEW s \in Seq(Messages), NEW t \in Seq(Messages)
  PROVE  s \o t \in Seq(Messages) /\ ToSet(s \o t) = ToSet(s) \cup ToSet(t)
<1>1. /\ s \o t \in Seq(Messages) /\ Len(s \o t) = Len(s) + Len(t)
      /\ \A k \in 1 .. Len(s) : (s \o t)[k] = s[k]
      /\ \A k \in 1 .. Len(t) : (s \o t)[Len(s) + k] = t[k]
  OBVIOUS
<1>2. ToSet(s \o t) \subseteq ToSet(s) \cup ToSet(t)
  <2>1. ASSUME NEW k \in 1 .. Len(s) + Len(t)
        PROVE  (s \o t)[k] \in ToSet(s) \cup ToSet(t)
    <3>1. CASE k <= Len(s)
      BY <1>1, <3>1 DEF ToSet
    <3>2. CASE k > Len(s)
      <4>1. k - Len(s) \in 1 .. Len(t) /\ Len(s) + (k - Len(s)) = k
        BY <3>2
      <4>2. QED
        BY <1>1, <4>1 DEF ToSet
    <3>3. QED
      BY <3>1, <3>2
  <2>2. DOMAIN (s \o t) = 1 .. Len(s) + Len(t)
    BY <1>1
  <2>3. QED
    BY <2>1, <2>2 DEF ToSet
<1>3. ToSet(s) \cup ToSet(t) \subseteq ToSet(s \o t)
  <2>1. ASSUME NEW k \in 1 .. Len(s)
        PROVE  s[k] \in ToSet(s \o t)
    BY <1>1 DEF ToSet
  <2>2. ASSUME NEW k \in 1 .. Len(t)
        PROVE  t[k] \in ToSet(s \o t)
    <3>1. Len(s) + k \in 1 .. Len(s \o t)
      BY <1>1
    <3>2. QED
      BY <1>1, <3>1 DEF ToSet
  <2>3. DOMAIN s = 1 .. Len(s) /\ DOMAIN t = 1 .. Len(t)
    OBVIOUS
  <2>4. QED
    BY <2>1, <2>2, <2>3 DEF ToSet
<1>4. QED
  BY <1>1, <1>2, <1>3

\* The head of a sequence and what follows.
LEMMA SequenceParts ==
  ASSUME NEW S, NEW s \in Seq(S), NEW n \in 1 .. Len(s)
  PROVE  /\ SubSeq(s, 1, n) \in Seq(S) /\ Len(SubSeq(s, 1, n)) = n
         /\ \A k \in 1 .. n : SubSeq(s, 1, n)[k] = s[k]
         /\ SubSeq(s, n + 1, Len(s)) \in Seq(S)
         /\ \A k \in n + 1 .. Len(s) : s[k] \in ToSet(SubSeq(s, n + 1, Len(s)))
<1>1. /\ SubSeq(s, 1, n) \in Seq(S) /\ Len(SubSeq(s, 1, n)) = n
      /\ \A k \in 1 .. n : SubSeq(s, 1, n)[k] = s[k]
  OBVIOUS
<1>2. /\ SubSeq(s, n + 1, Len(s)) \in Seq(S)
      /\ Len(SubSeq(s, n + 1, Len(s))) = Len(s) - n
  OBVIOUS
<1>3. ASSUME NEW k \in n + 1 .. Len(s)
      PROVE  s[k] \in ToSet(SubSeq(s, n + 1, Len(s)))
  <2>1. k - n \in 1 .. Len(s) - n /\ SubSeq(s, n + 1, Len(s))[k - n] = s[k]
    OBVIOUS
  <2>2. DOMAIN SubSeq(s, n + 1, Len(s)) = 1 .. Len(s) - n
    BY <1>2
  <2>3. QED
    BY <2>1, <2>2 DEF ToSet
<1>4. QED
  BY <1>1, <1>2, <1>3

\* The n-th of some places is the one that n of them do not exceed.
LEMMA ItemsAtPlaces ==
  ASSUME SendTypeOK, NEW i \in Instances, NEW places \in SUBSET (1 .. Len(batch[i]))
  PROVE  /\ ItemsAt(i, places) \in Seq(Messages)
         /\ ToSet(ItemsAt(i, places)) = {batch[i][k] : k \in places}
<1> DEFINE upTo(k) == {j \in places : j <= k}
           rank(k) == Cardinality(upTo(k))
           size == Cardinality(places)
           place(n) == CHOOSE k \in places : rank(k) = n
           f == [k \in places |-> rank(k)]
<1>1. batch[i] \in Seq(Messages) /\ places \subseteq Nat /\ IsFiniteSet(places) /\ size \in Nat
  <2>1. batch[i] \in Seq(Messages) /\ Len(batch[i]) \in Nat
    BY DEF SendTypeOK
  <2>2. IsFiniteSet(1 .. Len(batch[i]))
    BY <2>1, FS_Interval
  <2>3. IsFiniteSet(places)
    BY <2>2, FS_Subset
  <2>4. QED
    BY <2>1, <2>3, FS_CardinalityType
<1>2. ASSUME NEW k \in places
      PROVE  rank(k) \in 1 .. size
  <2>1. upTo(k) \subseteq places /\ k \in upTo(k)
    BY <1>1
  <2>2. IsFiniteSet(upTo(k)) /\ rank(k) <= size /\ rank(k) \in Nat
    BY <1>1, <2>1, FS_Subset, FS_CardinalityType
  <2>3. rank(k) # 0
    BY <2>1, <2>2, FS_EmptySet
  <2>4. QED
    BY <1>1, <2>2, <2>3
<1>3. ASSUME NEW j \in places, NEW k \in places, j < k
      PROVE  rank(j) # rank(k)
  <2>1. upTo(j) \subseteq upTo(k) /\ k \in upTo(k) /\ k \notin upTo(j)
    <3>1. \A n \in places : n \in Nat /\ (n <= j => n <= k)
      BY <1>1, <1>3
    <3>2. k <= k /\ ~(k <= j)
      BY <1>1, <1>3
    <3>3. upTo(j) \subseteq upTo(k)
      BY <3>1
    <3>4. QED
      BY <3>2, <3>3
  <2>2. IsFiniteSet(upTo(k))
    BY <1>1, FS_Subset
  <2>3. QED
    BY <2>1, <2>2, FS_Subset
<1>4. \A j, k \in places : rank(j) = rank(k) => j = k
  <2> SUFFICES ASSUME NEW j \in places, NEW k \in places, rank(j) = rank(k)
               PROVE  j = k
    OBVIOUS
  <2>1. j \in Nat /\ k \in Nat
    BY <1>1
  <2>2. ~(j < k) /\ ~(k < j)
    BY <1>3
  <2>3. QED
    BY <2>1, <2>2
<1> HIDE DEF rank, size
<1>5. \A n \in 1 .. size : \E k \in places : rank(k) = n
  <2>1. f \in Injection(places, 1 .. size)
    BY <1>2, <1>4 DEF Injection, IsInjective
  <2>2. IsFiniteSet(1 .. size) /\ Cardinality(1 .. size) = Cardinality(places)
    BY <1>1, FS_Interval DEF size
  <2>3. f \in Surjection(places, 1 .. size)
    BY <2>1, <2>2, FS_Injection
  <2>4. QED
    BY <2>3 DEF Surjection
<1>6. \A n \in 1 .. size : place(n) \in places /\ rank(place(n)) = n
  BY <1>5
<1>7. \A k \in places : place(rank(k)) = k
  BY <1>2, <1>4, <1>6
<1>8. ItemsAt(i, places) = [n \in 1 .. size |-> batch[i][place(n)]]
  BY DEF ItemsAt, rank, size
<1> HIDE DEF place
<1>9. \A n \in 1 .. size : batch[i][place(n)] \in Messages
  <2>1. \A k \in 1 .. Len(batch[i]) : batch[i][k] \in Messages
    BY <1>1
  <2>2. QED
    BY <1>6, <2>1
<1>10. ItemsAt(i, places) \in Seq(Messages)
  BY <1>1, <1>8, <1>9
<1>11. ToSet(ItemsAt(i, places)) = {batch[i][place(n)] : n \in 1 .. size}
  BY <1>8 DEF ToSet
<1>12. QED
  BY <1>2, <1>6, <1>7, <1>10, <1>11

LEMMA SendInitiallyKept ==
  ASSUME SendInit
  PROVE  SendInv
<1>1. SendTypeOK
  BY DEF SendInit, SendTypeOK, NoRequest, Requests
<1>2. KeptInv
  BY DEF SendInit, KeptInv, NoRequest, ToSet
<1>3. QED
  BY <1>1, <1>2 DEF SendInv

LEMMA RequestMoves ==
  ASSUME SendTypeOK, NEW i \in Instances, request[i].msg \in Messages,
         NEW label \in {"idle", "guard", "validate", "enqueue", "reply"},
         Proceed(i, label) \/ Finish(i)
  PROVE  /\ request' \in [Instances -> Requests]
         /\ \A j \in Instances : request'[j].pc # "idle" => request'[j].msg \in Messages
<1>1. CASE Proceed(i, label)
  <2>1. request'[i] = [pc |-> label, msg |-> request[i].msg]
    BY <1>1 DEF Proceed, SendTypeOK, Requests
  <2>2. request'[i] \in Requests /\ request'[i].msg \in Messages
    BY <2>1 DEF Requests
  <2>3. /\ \A j \in Instances \ {i} : request'[j] = request[j]
        /\ request' = [j \in Instances |-> request'[j]]
    BY <1>1 DEF Proceed, SendTypeOK
  <2>4. QED
    BY <2>2, <2>3 DEF SendTypeOK
<1>2. CASE Finish(i)
  BY <1>2 DEF Finish, NoRequest, Requests, SendTypeOK
<1>3. QED
  BY <1>1, <1>2

\* The steps of a request.
Asking(i) == Handle(i) \/ \E m \in Messages : Receive(i, m)

LEMMA AskingKeepsType ==
  ASSUME SendTypeOK, NEW i \in Instances, Asking(i)
  PROVE  SendTypeOK'
<1> USE DEF SendTypeOK, requestVars, tickVars
<1>1. \A m \in Messages : Answered(m) \in Seq(Messages)
  BY DEF Answered
<1>2. CASE \E m \in Messages : Receive(i, m)
  BY <1>2 DEF Receive, Requests
<1>3. CASE Guard(i)
  <2>1. request[i].msg \in Messages
    BY <1>3 DEF Guard, At
  <2>2. acked' \in Seq(Messages)
    BY <1>1, <1>3, <2>1 DEF Guard
  <2>3. request' \in [Instances -> Requests]
        /\ \A j \in Instances : request'[j].pc # "idle" => request'[j].msg \in Messages
    <3>1. Proceed(i, "validate") \/ Finish(i)
      BY <1>3 DEF Guard
    <3>2. QED
      BY <2>1, <3>1, RequestMoves
  <2>4. QED
    BY <1>3, <2>2, <2>3 DEF Guard
<1>4. CASE Validate(i)
  <2>1. request[i].msg \in Messages /\ (Proceed(i, "enqueue") \/ Finish(i))
    BY <1>4 DEF Validate, At
  <2>2. request' \in [Instances -> Requests]
        /\ \A j \in Instances : request'[j].pc # "idle" => request'[j].msg \in Messages
    BY <2>1, RequestMoves
  <2>3. QED
    BY <1>4, <2>2 DEF Validate
<1>5. CASE Enqueue(i)
  <2>1. request[i].msg \in Messages
    BY <1>5 DEF Enqueue, At
  <2>2. <<request[i].msg>> \in Seq(Messages)
    BY <2>1
  <2>3. <<request[i].msg>> \o queue \in Seq(Messages)
    BY <2>2, SequenceSets
  <2>4. request' \in [Instances -> Requests]
        /\ \A j \in Instances : request'[j].pc # "idle" => request'[j].msg \in Messages
    <3>1. Proceed(i, "reply") \/ Finish(i)
      BY <1>5 DEF Enqueue
    <3>2. QED
      BY <2>1, <3>1, RequestMoves
  <2>5. QED
    BY <1>5, <2>3, <2>4 DEF Enqueue
<1>6. CASE ReplyCreated(i)
  <2>1. request[i].msg \in Messages
    BY <1>6 DEF ReplyCreated, At
  <2>2. acked' \in Seq(Messages)
    BY <1>1, <1>6, <2>1 DEF ReplyCreated
  <2>3. request' \in [Instances -> Requests]
        /\ \A j \in Instances : request'[j].pc # "idle" => request'[j].msg \in Messages
    BY <1>6, <2>1 DEF ReplyCreated, Finish, NoRequest, Requests
  <2>4. QED
    BY <1>6, <2>1, <2>2, <2>3 DEF ReplyCreated
<1>7. QED
  BY <1>2, <1>3, <1>4, <1>5, <1>6 DEF Asking, Handle

\* The steps of a tick, and of an instance that dies.
Publishing(i) ==
  \/ Tick(i) \/ PopUnanswered(i) \/ Crash(i)
  \/ \E k \in pending[i] : PublishRejected(i, k)

Held(i) == {batch[i][k] : k \in pending[i] \cup failed[i]}

\* Whatever a step takes from the batch of its instance or from the list is
\* in the list, the batch, Kafka or among the lost afterwards.
Handed(i) ==
  /\ ToSet(kafka) \subseteq ToSet(kafka)' /\ lost \subseteq lost'
  /\ ToSet(queue) \cup Held(i)
       \subseteq ToSet(queue)' \cup ToSet(kafka)' \cup lost' \cup Held(i)'
  /\ \A j \in Instances \ {i} : Held(j)' = Held(j)

\* What LPOP takes and what it leaves make up the list.
LEMMA PoppedAndLeft ==
  ASSUME SendTypeOK, SendQueueAssumption, queue # <<>>
  PROVE  /\ Popped \in Seq(Messages) /\ LeftOver \in Seq(Messages)
         /\ DOMAIN Popped = 1 .. Len(Popped)
         /\ ToSet(queue) \subseteq ToSet(Popped) \cup ToSet(LeftOver)
<1> DEFINE n == Smaller(MaxPerTick, Len(queue))
<1>1. queue \in Seq(Messages) /\ n \in 1 .. Len(queue)
  BY DEF Smaller, SendTypeOK, SendQueueAssumption
<1>2. Popped = SubSeq(queue, 1, n)
  BY DEF Popped
<1> HIDE DEF n
<1>3. /\ SubSeq(queue, 1, n) \in Seq(Messages) /\ Len(SubSeq(queue, 1, n)) = n
      /\ \A k \in 1 .. n : SubSeq(queue, 1, n)[k] = queue[k]
      /\ SubSeq(queue, n + 1, Len(queue)) \in Seq(Messages)
      /\ \A k \in n + 1 .. Len(queue) :
           queue[k] \in ToSet(SubSeq(queue, n + 1, Len(queue)))
  BY <1>1, SequenceParts
<1>4. LeftOver = SubSeq(queue, n + 1, Len(queue))
  BY <1>2, <1>3 DEF LeftOver
<1>5. Popped \in Seq(Messages) /\ DOMAIN Popped = 1 .. Len(Popped) /\ Len(Popped) = n
  BY <1>2, <1>3
<1>6. ASSUME NEW k \in 1 .. Len(queue)
      PROVE  queue[k] \in ToSet(Popped) \cup ToSet(LeftOver)
  <2>1. CASE k \in 1 .. n
    BY <1>2, <1>3, <1>5, <2>1 DEF ToSet
  <2>2. CASE k \in n + 1 .. Len(queue)
    BY <1>3, <1>4, <2>2
  <2>3. QED
    BY <1>1, <2>1, <2>2
<1>7. DOMAIN queue = 1 .. Len(queue)
  BY <1>1
<1>8. ToSet(queue) \subseteq ToSet(Popped) \cup ToSet(LeftOver)
  BY <1>6, <1>7 DEF ToSet
<1>9. QED
  BY <1>3, <1>4, <1>5, <1>8

LEMMA PopHands ==
  ASSUME SendTypeOK, SendQueueAssumption, NEW i \in Instances, Pop(i)
  PROVE  SendTypeOK' /\ Handed(i)
<1>1. /\ batch[i] = <<>> /\ queue # <<>>
      /\ batch' = [batch EXCEPT ![i] = Popped]
      /\ pending' = [pending EXCEPT ![i] = DOMAIN Popped]
      /\ queue' = LeftOver
      /\ UNCHANGED <<requestVars, failed, kafka, lost>>
  BY DEF Pop
<1>2. pending[i] = {} /\ failed[i] = {}
  BY <1>1 DEF SendTypeOK
<1>3. /\ Popped \in Seq(Messages) /\ LeftOver \in Seq(Messages)
      /\ DOMAIN Popped = 1 .. Len(Popped)
      /\ ToSet(queue) \subseteq ToSet(Popped) \cup ToSet(LeftOver)
  BY <1>1, PoppedAndLeft
<1>4. /\ batch'[i] = Popped /\ pending'[i] = DOMAIN Popped /\ failed'[i] = {}
      /\ \A j \in Instances \ {i} : /\ batch'[j] = batch[j] /\ pending'[j] = pending[j]
                                    /\ failed'[j] = failed[j]
  BY <1>1, <1>2 DEF SendTypeOK
<1>5. SendTypeOK'
  <2>1. batch' \in [Instances -> Seq(Messages)] /\ pending' \in [Instances -> SUBSET Nat]
    BY <1>1, <1>3 DEF SendTypeOK
  <2>2. \A j \in Instances : pending'[j] \cup failed'[j] \subseteq 1 .. Len(batch'[j])
    BY <1>3, <1>4 DEF SendTypeOK
  <2>3. QED
    BY <1>1, <1>3, <2>1, <2>2 DEF SendTypeOK, requestVars
<1>6. ToSet(queue) \subseteq ToSet(queue)' \cup Held(i)'
  <2>1. ToSet(Popped) = Held(i)'
    BY <1>4 DEF Held, ToSet
  <2>2. QED
    BY <1>1, <1>3, <2>1
<1>7. Held(i) = {} /\ \A j \in Instances \ {i} : Held(j)' = Held(j)
  BY <1>2, <1>4 DEF Held
<1>8. kafka' = kafka /\ lost' = lost
  BY <1>1
<1>9. QED
  BY <1>5, <1>6, <1>7, <1>8 DEF Handed

LEMMA PopUnansweredHands ==
  ASSUME SendTypeOK, SendQueueAssumption, NEW i \in Instances, PopUnanswered(i)
  PROVE  SendTypeOK' /\ Handed(i)
<1>1. /\ queue # <<>> /\ queue' = LeftOver /\ lost' = lost \cup ToSet(Popped)
      /\ UNCHANGED <<requestVars, tickVars, kafka>>
  BY DEF PopUnanswered
<1>2. LeftOver \in Seq(Messages) /\ ToSet(queue) \subseteq ToSet(Popped) \cup ToSet(LeftOver)
  BY <1>1, PoppedAndLeft
<1>3. SendTypeOK'
  BY <1>1, <1>2 DEF SendTypeOK, requestVars, tickVars
<1>4. \A j \in Instances : Held(j)' = Held(j)
  BY <1>1 DEF Held, tickVars
<1>5. ToSet(queue) \subseteq ToSet(queue') \cup lost' /\ lost \subseteq lost' /\ kafka' = kafka
  BY <1>1, <1>2
<1>6. QED
  BY <1>3, <1>4, <1>5 DEF Handed

LEMMA PublishHands ==
  ASSUME SendTypeOK, NEW i \in Instances, NEW k \in pending[i],
         PublishOk(i, k) \/ PublishRejected(i, k)
  PROVE  SendTypeOK' /\ Handed(i)
<1>1. batch[i][k] \in Messages /\ kafka \in Seq(Messages)
  BY DEF SendTypeOK
<1>2. /\ Append(kafka, batch[i][k]) \in Seq(Messages)
      /\ ToSet(Append(kafka, batch[i][k])) = ToSet(kafka) \cup {batch[i][k]}
  <2>1. \A e \in Messages : /\ Append(kafka, e) \in Seq(Messages)
                            /\ ToSet(Append(kafka, e)) = ToSet(kafka) \cup {e}
    BY <1>1, SequenceSets
  <2>2. QED
    BY <1>1, <2>1
<1>3. /\ pending' = [pending EXCEPT ![i] = @ \ {k}]
      /\ UNCHANGED <<requestVars, queue, batch, lost>>
      /\ \/ kafka' = Append(kafka, batch[i][k]) /\ UNCHANGED failed
         \/ /\ kafka' \in {kafka, Append(kafka, batch[i][k])}
            /\ failed' = [failed EXCEPT ![i] = @ \cup {k}]
  BY DEF PublishOk, PublishRejected
<1>4. SendTypeOK'
  <2>1. kafka' \in Seq(Messages)
    BY <1>1, <1>2, <1>3
  <2>2. /\ pending' \in [Instances -> SUBSET Nat] /\ failed' \in [Instances -> SUBSET Nat]
        /\ \A j \in Instances : pending'[j] \cup failed'[j] \subseteq pending[j] \cup failed[j]
    BY <1>3 DEF SendTypeOK
  <2>3. QED
    BY <1>3, <2>1, <2>2 DEF SendTypeOK, requestVars
<1>5. ToSet(kafka) \subseteq ToSet(kafka')
  BY <1>2, <1>3
<1>6. Held(i) \subseteq ToSet(kafka') \cup Held(i)'
  <2>1. ASSUME NEW p \in pending[i] \cup failed[i]
        PROVE  batch[i][p] \in ToSet(kafka') \/ p \in pending'[i] \cup failed'[i]
    BY <1>2, <1>3 DEF SendTypeOK
  <2>2. QED
    BY <1>3, <2>1 DEF Held
<1>7. \A j \in Instances \ {i} : pending'[j] = pending[j] /\ failed'[j] = failed[j]
  BY <1>3 DEF SendTypeOK
<1>8. QED
  BY <1>3, <1>4, <1>5, <1>6, <1>7 DEF Handed, Held

LEMMA EndTickHands ==
  ASSUME SendTypeOK, NEW i \in Instances, EndTick(i)
  PROVE  SendTypeOK' /\ Handed(i)
<1> DEFINE items == FailedItems(i)
<1>1. items \in Seq(Messages) /\ ToSet(items) = {batch[i][k] : k \in failed[i]}
  <2>1. failed[i] \in SUBSET (1 .. Len(batch[i]))
    BY DEF SendTypeOK
  <2>2. QED
    BY <2>1, ItemsAtPlaces DEF FailedItems
<1> HIDE DEF items
<1>2. /\ pending[i] = {}
      /\ \/ queue' = Reverse(items) \o queue /\ UNCHANGED lost
         \/ lost' = lost \cup ToSet(items) /\ UNCHANGED queue
      /\ batch' = [batch EXCEPT ![i] = <<>>]
      /\ failed' = [failed EXCEPT ![i] = {}]
      /\ UNCHANGED <<requestVars, pending, kafka>>
  BY DEF EndTick, items
<1>3. Held(i) = ToSet(items)
  BY <1>1, <1>2 DEF Held
<1>4. queue \in Seq(Messages)
  BY DEF SendTypeOK
<1>5. /\ Reverse(items) \o queue \in Seq(Messages)
      /\ ToSet(Reverse(items) \o queue) = ToSet(items) \cup ToSet(queue)
  <2>1. Reverse(items) \in Seq(Messages) /\ ToSet(Reverse(items)) = ToSet(items)
    BY <1>1, SequenceSets
  <2>2. QED
    BY <1>4, <2>1, MessagesJoined
<1>6. /\ batch' \in [Instances -> Seq(Messages)] /\ failed' \in [Instances -> SUBSET Nat]
      /\ pending'[i] = {} /\ failed'[i] = {}
      /\ \A j \in Instances \ {i} : /\ batch'[j] = batch[j] /\ pending'[j] = pending[j]
                                    /\ failed'[j] = failed[j]
  BY <1>2 DEF SendTypeOK
<1>7. SendTypeOK'
  <2>1. queue' \in Seq(Messages)
    BY <1>2, <1>4, <1>5
  <2>2. \A j \in Instances : pending'[j] \cup failed'[j] \subseteq 1 .. Len(batch'[j])
    BY <1>6 DEF SendTypeOK
  <2>3. QED
    BY <1>2, <1>6, <2>1, <2>2 DEF SendTypeOK, requestVars
<1>8. ToSet(queue) \cup Held(i) \subseteq ToSet(queue') \cup lost'
  BY <1>2, <1>3, <1>5
<1>9. \A j \in Instances \ {i} : Held(j)' = Held(j)
  BY <1>6 DEF Held
<1>10. kafka' = kafka /\ lost \subseteq lost'
  BY <1>2
<1>11. QED
  BY <1>7, <1>8, <1>9, <1>10 DEF Handed

LEMMA CrashHands ==
  ASSUME SendTypeOK, NEW i \in Instances, Crash(i)
  PROVE  SendTypeOK' /\ Handed(i)
<1>1. /\ Finish(i)
      /\ batch' = [batch EXCEPT ![i] = <<>>]
      /\ pending' = [pending EXCEPT ![i] = {}]
      /\ failed' = [failed EXCEPT ![i] = {}]
      /\ lost' = lost \cup Held(i)
      /\ UNCHANGED <<processed, acked, queue, kafka>>
  BY DEF Crash, Held
<1>2. /\ batch' \in [Instances -> Seq(Messages)]
      /\ pending' \in [Instances -> SUBSET Nat] /\ failed' \in [Instances -> SUBSET Nat]
      /\ pending'[i] = {} /\ failed'[i] = {}
      /\ \A j \in Instances \ {i} : /\ batch'[j] = batch[j] /\ pending'[j] = pending[j]
                                    /\ failed'[j] = failed[j]
  BY <1>1 DEF SendTypeOK
<1>3. SendTypeOK'
  <2>1. /\ request' \in [Instances -> Requests]
        /\ \A j \in Instances : request'[j].pc # "idle" => request'[j].msg \in Messages
    BY <1>1 DEF Finish, NoRequest, Requests, SendTypeOK
  <2>2. \A j \in Instances : pending'[j] \cup failed'[j] \subseteq 1 .. Len(batch'[j])
    BY <1>2 DEF SendTypeOK
  <2>3. QED
    BY <1>1, <1>2, <2>1, <2>2 DEF SendTypeOK
<1>4. \A j \in Instances \ {i} : Held(j)' = Held(j)
  BY <1>2 DEF Held
<1>5. QED
  BY <1>1, <1>3, <1>4 DEF Handed

LEMMA PublishingHands ==
  ASSUME SendTypeOK, SendQueueAssumption, NEW i \in Instances, Publishing(i)
  PROVE  SendTypeOK' /\ Handed(i) /\ UNCHANGED <<processed, acked>>
         /\ (UNCHANGED request \/ Finish(i))
<1>1. CASE Pop(i)
  BY <1>1, PopHands DEF Pop, requestVars
<1>2. CASE EndTick(i)
  BY <1>2, EndTickHands DEF EndTick, requestVars
<1>3. CASE \E k \in pending[i] : PublishOk(i, k) \/ PublishRejected(i, k)
  <2>1. PICK k \in pending[i] : PublishOk(i, k) \/ PublishRejected(i, k)
    BY <1>3
  <2>2. UNCHANGED requestVars
    BY <2>1 DEF PublishOk, PublishRejected
  <2>3. QED
    BY <2>1, <2>2, PublishHands DEF requestVars
<1>4. CASE Crash(i)
  BY <1>4, CrashHands DEF Crash
<1>5. CASE PopUnanswered(i)
  BY <1>5, PopUnansweredHands DEF PopUnanswered, requestVars
<1>6. QED
  BY <1>1, <1>2, <1>3, <1>4, <1>5 DEF Publishing, Tick

\* A message that is kept once is kept for good.
LEMMA PublishingKeeps ==
  ASSUME SendInv, SendQueueAssumption, NEW i \in Instances, Publishing(i)
  PROVE  SendInv'
<1>1. SendTypeOK' /\ Handed(i) /\ UNCHANGED <<processed, acked>>
  BY PublishingHands DEF SendInv
<1>2. UNCHANGED request \/ Finish(i)
  BY PublishingHands DEF SendInv
<1>3. ASSUME NEW m \in Messages, Kept(m)
      PROVE  Kept(m)'
  <2>1. CASE m \in lost \/ m \in ToSet(kafka)
    BY <1>1, <2>1 DEF Handed, Kept
  <2>2. CASE m \in ToSet(queue) \/ m \in Held(i)
    <3>1. m \in lost' \/ m \in ToSet(queue)' \/ m \in ToSet(kafka)' \/ m \in Held(i)'
      BY <1>1, <2>2 DEF Handed
    <3>2. QED
      BY <3>1 DEF Kept, InBatch, Held
  <2>3. CASE \E j \in Instances \ {i} : m \in Held(j)
    <3>1. \E j \in Instances : m \in Held(j)'
      BY <1>1, <2>3 DEF Handed
    <3>2. QED
      BY <3>1 DEF Kept, InBatch, Held
  <2>4. QED
    BY <1>3, <2>1, <2>2, <2>3 DEF Kept, InBatch, Held
<1>4. ASSUME NEW j \in Instances, request'[j].pc = "reply"
      PROVE  request'[j] = request[j]
  BY <1>2, <1>4 DEF Finish, NoRequest, SendInv, SendTypeOK
<1>5. KeptInv'
  <2> SUFFICES ASSUME NEW m \in Messages,
                      \/ m \in ToSet(acked)' \cup processed'
                      \/ \E j \in Instances : request'[j].pc = "reply" /\ request'[j].msg = m
               PROVE  Kept(m)'
    BY DEF KeptInv
  <2>1. \/ m \in ToSet(acked) \cup processed
        \/ \E j \in Instances : request[j].pc = "reply" /\ request[j].msg = m
    BY <1>1, <1>4
  <2>2. QED
    BY <1>3, <2>1 DEF SendInv, KeptInv
<1>6. QED
  BY <1>1, <1>5 DEF SendInv

\* A step of a request only adds to what is kept, and nobody is told of a
\* message that is not.
LEMMA AskingKeeps ==
  ASSUME SendInv, NEW i \in Instances, Asking(i)
  PROVE  SendInv'
<1>1. SendTypeOK /\ KeptInv /\ SendTypeOK'
  BY AskingKeepsType DEF SendInv
<1>2. /\ UNCHANGED <<tickVars, kafka, lost>>
      /\ \/ UNCHANGED queue
         \/ At(i, "enqueue") /\ queue' = <<request[i].msg>> \o queue
  BY DEF Asking, Handle, Guard, Validate, Enqueue, ReplyCreated, Receive
<1>3. /\ ToSet(queue) \subseteq ToSet(queue')
      /\ UNCHANGED queue \/ request[i].msg \in ToSet(queue')
  <2>1. CASE At(i, "enqueue") /\ queue' = <<request[i].msg>> \o queue
    <3>1. request[i].msg \in Messages /\ queue \in Seq(Messages)
      BY <1>1, <2>1 DEF At, SendTypeOK
    <3>2. <<request[i].msg>> \in Seq(Messages) /\ ToSet(<<request[i].msg>>) = {request[i].msg}
      BY <3>1 DEF ToSet
    <3>3. ToSet(<<request[i].msg>> \o queue) = {request[i].msg} \cup ToSet(queue)
      BY <3>1, <3>2, MessagesJoined
    <3>4. QED
      BY <2>1, <3>1, <3>3
  <2>2. QED
    BY <1>2, <2>1
<1>4. ASSUME NEW m \in Messages, Kept(m)
      PROVE  Kept(m)'
  BY <1>2, <1>3, <1>4 DEF Kept, InBatch, tickVars
<1>5. ASSUME NEW m \in Messages,
             \/ m \in ToSet(acked') \cup processed'
             \/ \E j \in Instances : request'[j].pc = "reply" /\ request'[j].msg = m
      PROVE  \/ m \in ToSet(acked) \cup processed
             \/ \E j \in Instances : request[j].pc = "reply" /\ request[j].msg = m
             \/ m \in ToSet(queue')
  <2>1. acked \in Seq(Messages)
    BY <1>1 DEF SendTypeOK
  <2>2. ASSUME NEW a \in Messages, acked' = Answered(a)
        PROVE  ToSet(acked') = ToSet(acked) \cup {a}
    <3>1. \A e \in Messages : ToSet(Append(acked, e)) = ToSet(acked) \cup {e}
      BY <2>1, SequenceSets
    <3>2. QED
      BY <2>2, <3>1 DEF Answered
  <2>3. CASE \E a \in Messages : Receive(i, a)
    <3>1. UNCHANGED <<acked, processed>> /\ \A j \in Instances : request'[j] = request[j] \/ request'[j].pc = "guard"
      BY <1>1, <2>3 DEF Receive, SendTypeOK
    <3>2. QED
      BY <1>5, <3>1
  <2>4. CASE Guard(i)
    <3>1. request[i].msg \in Messages /\ UNCHANGED processed
      BY <1>1, <2>4 DEF Guard, At, SendTypeOK
    <3>2. \A j \in Instances : request'[j] = request[j] \/ request'[j].pc # "reply"
      <4>1. Proceed(i, "validate") \/ Finish(i)
        BY <2>4 DEF Guard
      <4>2. request'[i].pc # "reply" /\ \A j \in Instances \ {i} : request'[j] = request[j]
        BY <1>1, <4>1 DEF Proceed, Finish, NoRequest, SendTypeOK, Requests
      <4>3. QED
        BY <4>2
    <3>3. UNCHANGED acked \/ (request[i].msg \in processed /\ acked' = Answered(request[i].msg))
      BY <2>4 DEF Guard
    <3>4. ToSet(acked') \subseteq ToSet(acked) \cup processed
      BY <2>2, <3>1, <3>3
    <3>5. QED
      BY <1>5, <3>1, <3>2, <3>4
  <2>5. CASE Validate(i)
    <3>1. Proceed(i, "enqueue") \/ Finish(i)
      BY <2>5 DEF Validate
    <3>2. request'[i].pc # "reply" /\ \A j \in Instances \ {i} : request'[j] = request[j]
      BY <1>1, <3>1 DEF Proceed, Finish, NoRequest, SendTypeOK, Requests
    <3>3. UNCHANGED <<acked, processed>>
      BY <2>5 DEF Validate
    <3>4. QED
      BY <1>5, <3>2, <3>3
  <2>6. CASE Enqueue(i)
    <3>1. UNCHANGED <<acked, processed>>
      BY <2>6 DEF Enqueue
    <3>2. \/ Proceed(i, "reply") /\ request[i].msg \in ToSet(queue')
          \/ Finish(i)
      <4>1. CASE Finish(i)
        BY <4>1
      <4>2. CASE queue' = <<request[i].msg>> \o queue /\ Proceed(i, "reply")
        <5>1. request[i].msg \in Messages /\ queue \in Seq(Messages)
          BY <1>1, <2>6 DEF Enqueue, At, SendTypeOK
        <5>2. queue' # queue
          <6>1. Len(queue') = Len(queue) + 1
            BY <4>2, <5>1
          <6>2. QED
            BY <5>1, <6>1
        <5>3. QED
          BY <1>3, <4>2, <5>2
      <4>3. QED
        BY <2>6, <4>1, <4>2 DEF Enqueue
    <3>3. \/ request'[i].pc # "reply"
          \/ request'[i].msg = request[i].msg /\ request[i].msg \in ToSet(queue')
      BY <1>1, <3>2 DEF Proceed, Finish, NoRequest, SendTypeOK, Requests
    <3>4. \A j \in Instances \ {i} : request'[j] = request[j]
      BY <1>1, <3>2 DEF Proceed, Finish, SendTypeOK
    <3>5. QED
      BY <1>5, <3>1, <3>3, <3>4
  <2>7. CASE ReplyCreated(i)
    <3>1. /\ request[i].pc = "reply" /\ request[i].msg \in Messages
          /\ acked' = Answered(request[i].msg)
          /\ processed' \subseteq processed \cup {request[i].msg}
      BY <1>1, <2>7 DEF ReplyCreated, At, SendTypeOK
    <3>2. request'[i].pc # "reply" /\ \A j \in Instances \ {i} : request'[j] = request[j]
      BY <1>1, <2>7 DEF ReplyCreated, Finish, NoRequest, SendTypeOK
    <3>3. ToSet(acked') = ToSet(acked) \cup {request[i].msg}
      BY <2>2, <3>1
    <3>4. QED
      BY <1>5, <3>1, <3>2, <3>3
  <2>8. QED
    BY <2>3, <2>4, <2>5, <2>6, <2>7 DEF Asking, Handle
<1>6. KeptInv'
  <2>1. ASSUME NEW m \in Messages,
               \/ m \in ToSet(acked') \cup processed'
               \/ \E j \in Instances : request'[j].pc = "reply" /\ request'[j].msg = m
        PROVE  Kept(m)'
    <3>1. Kept(m) \/ m \in ToSet(queue')
      BY <1>1, <1>5, <2>1 DEF KeptInv
    <3>2. QED
      BY <1>4, <3>1 DEF Kept
  <2>2. QED
    BY <2>1 DEF KeptInv
<1>7. QED
  BY <1>1, <1>6 DEF SendInv

LEMMA SendStep ==
  ASSUME SendInv, SendQueueAssumption, [SendNext]_sendVars
  PROVE  SendInv'
<1>1. CASE SendNext
  <2>1. PICK i \in Instances : Asking(i) \/ Publishing(i)
    BY <1>1 DEF SendNext, Asking, Publishing
  <2>2. QED
    BY <2>1, AskingKeeps, PublishingKeeps
<1>2. CASE UNCHANGED sendVars
  BY <1>2 DEF SendInv, SendTypeOK, KeptInv, Kept, InBatch, sendVars, requestVars, tickVars
<1>3. QED
  BY <1>1, <1>2

\* The rest of the pipeline only reads the partition.
LEMMA DeliveryStep ==
  ASSUME SendInv, SendQueueAssumption, [Next]_deliveryVars
  PROVE  SendInv'
<1>1. CASE Sending(SendNext)
  BY <1>1, SendStep DEF Sending
<1>2. CASE UNCHANGED sendRest
  BY <1>2 DEF SendInv, SendTypeOK, KeptInv, Kept, InBatch, sendRest, requestVars, tickVars
<1>3. CASE Store \/ Expire
  BY <1>2, <1>3 DEF Store, Expire
<1>4. CASE \E g \in Gateways : Notify(g) \/ GatewayCrash(g)
  BY <1>2, <1>4
  DEF Notify, GatewayCrash, HandleSaved, TimerFires, Emit, sendVars, sendRest
<1>5. CASE UNCHANGED deliveryVars
  BY <1>2, <1>5 DEF deliveryVars, sendVars, sendRest
<1>6. QED
  BY <1>1, <1>3, <1>4, <1>5 DEF Next

\* What the sender of a message was told "created" of is in the list, in a
\* batch or in Kafka, unless a crash or a refused requeue took it
\* (processKafkaOutbox), however many instances, messages and faults there are.
THEOREM SendAckedIsKept == Spec => []AckedIsKept
<1>1. Init => SendInv
  BY SendInitiallyKept DEF Init
<1>2. SendInv /\ [Next]_deliveryVars => SendInv'
  BY SendQueueAssumption, DeliveryStep
<1>3. SendInv => AckedIsKept
  <2>1. ASSUME SendInv
        PROVE  ToSet(acked) \subseteq Messages
    BY <2>1, SequenceSets DEF SendInv, SendTypeOK
  <2>2. QED
    BY <2>1 DEF SendInv, KeptInv, Kept, AckedIsKept
<1>4. QED
  BY <1>1, <1>2, <1>3, PTL DEF Spec

-----------------------------------------------------------------------------
(* From Kafka to the other members.                                        *)

DeliveryTypeOK ==
  /\ next \in 0 .. Len(kafka) /\ handled \in 0 .. Len(saved)
  /\ stored \in Seq(Messages) /\ saved \in Seq(Nat)
  /\ buffer \in 0 .. Len(stored)
  /\ emitting \in [Gateways -> SUBSET (1 .. Len(stored))]
  /\ told \in [Users -> SUBSET Nat]

\* message.saved has the offsets in order, all but those that were not published.
SavedInOrder ==
  /\ \A n \in DOMAIN saved : saved[n] \in 1 .. Len(stored)
  /\ \A j, n \in DOMAIN saved : j < n => saved[j] < saved[n]

StoredIsSaved ==
  \A o \in DOMAIN stored : o \in dropped \/ \E n \in DOMAIN saved : saved[n] = o

ReadIsStored == \A n \in 1 .. next : kafka[n] \in ToSet(stored)

\* Whoever does not know of an offset will be told of it or of a later one.
StoredIsAnnounced ==
  \A o \in DOMAIN stored : \A u \in Users : Told(o, u) \/ ToBeAnnounced(o)

DeliveryInv ==
  /\ DeliveryTypeOK /\ SavedInOrder /\ StoredIsSaved
  /\ ReadIsStored /\ StoredIsAnnounced

LEMMA MessagesAppended ==
  ASSUME NEW S, NEW s \in Seq(S), NEW e \in S
  PROVE  /\ Append(s, e) \in Seq(S) /\ Len(Append(s, e)) = Len(s) + 1
         /\ \A n \in 1 .. Len(s) : Append(s, e)[n] = s[n]
         /\ Append(s, e)[Len(s) + 1] = e
         /\ DOMAIN s = 1 .. Len(s) /\ DOMAIN Append(s, e) = 1 .. Len(s) + 1
OBVIOUS

\* chat-core only appends to the partition.
LEMMA KafkaGrows ==
  ASSUME SendTypeOK, SendNext
  PROVE  /\ Len(kafka) <= Len(kafka')
         /\ \A n \in 1 .. Len(kafka) : kafka'[n] = kafka[n]
<1>1. kafka \in Seq(Messages)
  BY DEF SendTypeOK
<1>2. UNCHANGED kafka \/ \E e \in Messages : kafka' = Append(kafka, e)
  <2>1. PICK i \in Instances : Asking(i) \/ Publishing(i)
    BY DEF SendNext, Asking, Publishing
  <2>2. CASE Asking(i)
    BY <2>2 DEF Asking, Handle, Receive, Guard, Validate, Enqueue, ReplyCreated
  <2>3. CASE \E k \in pending[i] : PublishOk(i, k) \/ PublishRejected(i, k)
    <3>1. PICK k \in pending[i] : PublishOk(i, k) \/ PublishRejected(i, k)
      BY <2>3
    <3>2. batch[i][k] \in Messages
      BY DEF SendTypeOK
    <3>3. QED
      BY <3>1, <3>2 DEF PublishOk, PublishRejected
  <2>4. CASE Pop(i) \/ PopUnanswered(i) \/ EndTick(i) \/ Crash(i)
    BY <2>4 DEF Pop, PopUnanswered, EndTick, Crash
  <2>5. QED
    BY <2>1, <2>2, <2>3, <2>4 DEF Publishing, Tick
<1>3. ASSUME NEW e \in Messages, kafka' = Append(kafka, e)
      PROVE  /\ Len(kafka) <= Len(kafka')
             /\ \A n \in 1 .. Len(kafka) : kafka'[n] = kafka[n]
  BY <1>1, <1>3
<1>4. QED
  BY <1>1, <1>2, <1>3

\* What has been told, lost or stored stays so.
Grows ==
  /\ dropped \subseteq dropped' /\ Len(stored) <= Len(stored')
  /\ \A u \in Users : told[u] \subseteq told'[u]
  /\ \A n \in DOMAIN stored : stored'[n] = stored[n]

LEMMA ToldStays ==
  ASSUME DeliveryTypeOK, Grows, NEW o \in DOMAIN stored, NEW u \in Users, Told(o, u)
  PROVE  Told(o, u)'
<1>1. CASE o \in dropped \/ \E p \in told[u] : p >= o
  BY <1>1 DEF Grows, Told
<1>2. CASE \E p \in o .. Len(stored) : SentBy(p) = u
  <2>1. PICK p \in o .. Len(stored) : SentBy(p) = u
    BY <1>2
  <2>2. Len(stored) \in Nat /\ o \in 1 .. Len(stored) /\ DOMAIN stored = 1 .. Len(stored)
    BY DEF DeliveryTypeOK
  <2>3. Len(stored') \in Nat \/ Len(stored') \notin Nat
    OBVIOUS
  <2>4. p \in DOMAIN stored
    BY <2>2
  <2>5. SentBy(p)' = u
    BY <2>1, <2>4 DEF Grows, SentBy
  <2>6. p \in o .. Len(stored')
    BY <2>2 DEF Grows
  <2>7. QED
    BY <2>5, <2>6 DEF Told
<1>3. QED
  BY <1>1, <1>2 DEF Told

LEMMA SendingDelivers ==
  ASSUME SendTypeOK, DeliveryInv, SendNext, UNCHANGED <<storeVars, notifyVars, dropped>>
  PROVE  DeliveryInv'
<1>1. /\ UNCHANGED <<next, stored, saved, handled, buffer, emitting, told, dropped>>
      /\ Len(kafka) \in Nat /\ next \in 0 .. Len(kafka)
  BY DEF storeVars, notifyVars, DeliveryInv, DeliveryTypeOK, SendTypeOK
<1>2. next' \in 0 .. Len(kafka') /\ \A n \in 1 .. next : kafka'[n] = kafka[n]
  <2>1. Len(kafka') \in Nat
    <3>1. kafka' \in Seq(Messages)
      <4>1. PICK i \in Instances : Asking(i) \/ Publishing(i)
        BY DEF SendNext, Asking, Publishing
      <4>2. SendTypeOK'
        BY <4>1, AskingKeepsType, PublishingHands, SendQueueAssumption
      <4>3. QED
        BY <4>2 DEF SendTypeOK
    <3>2. QED
      BY <3>1
  <2>2. QED
    BY <1>1, <2>1, KafkaGrows
<1>3. DeliveryTypeOK' /\ SavedInOrder' /\ StoredIsSaved'
  BY <1>1, <1>2 DEF DeliveryInv, DeliveryTypeOK, SavedInOrder, StoredIsSaved
<1>4. ReadIsStored'
  BY <1>1, <1>2 DEF DeliveryInv, ReadIsStored
<1>5. StoredIsAnnounced'
  BY <1>1 DEF DeliveryInv, StoredIsAnnounced, Told, ToBeAnnounced, SentBy
<1>6. QED
  BY <1>3, <1>4, <1>5 DEF DeliveryInv

LEMMA StoreDelivers ==
  ASSUME SendTypeOK, DeliveryInv, Store
  PROVE  DeliveryInv'
<1>1. /\ kafka \in Seq(Messages) /\ next \in 0 .. Len(kafka) /\ handled \in 0 .. Len(saved)
      /\ stored \in Seq(Messages) /\ saved \in Seq(Nat) /\ buffer \in 0 .. Len(stored)
      /\ emitting \in [Gateways -> SUBSET (1 .. Len(stored))]
      /\ told \in [Users -> SUBSET Nat]
      /\ SavedInOrder /\ StoredIsSaved /\ ReadIsStored /\ StoredIsAnnounced
  BY DEF SendTypeOK, DeliveryInv, DeliveryTypeOK
<1>2. /\ next < Len(kafka) /\ next' = next + 1
      /\ UNCHANGED <<kafka, handled, buffer, emitting, told>>
  BY DEF Store, sendRest, notifyVars
<1>3. next + 1 \in 1 .. Len(kafka) /\ next' \in 0 .. Len(kafka') /\ kafka[next + 1] \in Messages
  BY <1>1, <1>2
<1>4. CASE kafka[next + 1] \in ToSet(stored) /\ UNCHANGED <<stored, saved, dropped>>
  <2>1. DeliveryTypeOK' /\ SavedInOrder' /\ StoredIsSaved'
    BY <1>1, <1>2, <1>3, <1>4 DEF DeliveryTypeOK, SavedInOrder, StoredIsSaved
  <2>2. \A n \in 1 .. next' : n \in 1 .. next \/ n = next + 1
    BY <1>1, <1>2
  <2>3. ReadIsStored'
    BY <1>1, <1>2, <1>4, <2>2 DEF ReadIsStored
  <2>4. StoredIsAnnounced'
    BY <1>1, <1>2, <1>4 DEF StoredIsAnnounced, Told, ToBeAnnounced, SentBy
  <2>5. QED
    BY <2>1, <2>3, <2>4 DEF DeliveryInv
<1>5. ASSUME stored' = Append(stored, kafka[next + 1]),
             \/ saved' = Append(saved, Len(stored')) /\ UNCHANGED dropped
             \/ dropped' = dropped \cup {Len(stored')} /\ UNCHANGED saved
      PROVE  DeliveryInv'
  <2>o. PICK o \in Nat : o = Len(stored) + 1
    BY <1>1
  <2>1. /\ stored' \in Seq(Messages) /\ Len(stored') = o /\ stored'[o] = kafka[next + 1]
        /\ \A n \in 1 .. Len(stored) : stored'[n] = stored[n]
        /\ DOMAIN stored = 1 .. Len(stored) /\ DOMAIN stored' = 1 .. o
    BY <1>1, <1>3, <1>5, <2>o, MessagesAppended
  <2>2. Len(stored) \in Nat /\ Len(saved) \in Nat /\ DOMAIN saved = 1 .. Len(saved)
    BY <1>1
  <2>3. /\ saved' \in Seq(Nat) /\ DOMAIN saved' = 1 .. Len(saved')
        /\ \A n \in 1 .. Len(saved) : saved'[n] = saved[n]
    <3>1. CASE saved' = Append(saved, o)
      <4>1. /\ saved' \in Seq(Nat) /\ Len(saved') = Len(saved) + 1
            /\ \A n \in 1 .. Len(saved) : saved'[n] = saved[n]
            /\ DOMAIN saved' = 1 .. Len(saved) + 1
        BY <1>1, <2>o, <3>1, MessagesAppended
      <4>2. QED
        BY <4>1
    <3>2. CASE saved' = saved
      BY <1>1, <2>2, <3>2
    <3>3. QED
      BY <1>5, <2>1, <3>1, <3>2
  <2>a. \/ Len(saved') = Len(saved) + 1 /\ saved'[Len(saved) + 1] = o
        \/ Len(saved') = Len(saved) /\ o \in dropped'
    <3>1. CASE saved' = Append(saved, o)
      <4>1. Len(saved') = Len(saved) + 1 /\ saved'[Len(saved) + 1] = o
        BY <1>1, <2>o, <3>1, MessagesAppended
      <4>2. QED
        BY <4>1
    <3>2. CASE saved' = saved /\ o \in dropped'
      BY <3>2
    <3>3. QED
      BY <1>5, <2>1, <3>1, <3>2
  <2>b. Len(saved') \in Nat /\ Len(saved) <= Len(saved')
    BY <2>2, <2>a
  <2>c. \A n \in 1 .. Len(saved') : n \in 1 .. Len(saved) \/ (n = Len(saved) + 1 /\ saved'[n] = o)
    BY <2>2, <2>a
  <2>4. dropped \subseteq dropped'
    BY <1>5
  <2>5. \A n \in 1 .. o : n \in 1 .. Len(stored) \/ n = o
    BY <2>2, <2>o
  <2>6. Len(stored) < o /\ o \in 1 .. o /\ 1 .. Len(stored) \subseteq 1 .. o
    BY <2>2, <2>o
  <2>7. DeliveryTypeOK'
    <3>1. handled' \in 0 .. Len(saved')
      <4>1. handled \in 0 .. Len(saved) /\ handled' = handled
        BY <1>1, <1>2
      <4>2. QED
        BY <2>2, <2>b, <4>1
    <3>2. buffer' \in 0 .. Len(stored')
      BY <1>1, <1>2, <2>1, <2>2, <2>6
    <3>3. emitting' \in [Gateways -> SUBSET (1 .. Len(stored'))]
      BY <1>1, <1>2, <2>1, <2>6
    <3>4. QED
      BY <1>1, <1>2, <1>3, <2>1, <2>3, <3>1, <3>2, <3>3 DEF DeliveryTypeOK
  <2>8. SavedInOrder'
    <3>1. \A n \in 1 .. Len(saved) : saved[n] \in 1 .. Len(stored)
      BY <1>1, <2>2 DEF SavedInOrder
    <3>2. ASSUME NEW n \in 1 .. Len(saved')
          PROVE  saved'[n] \in 1 .. Len(stored')
      BY <2>1, <2>3, <2>6, <2>c, <3>1
    <3>3. ASSUME NEW j \in 1 .. Len(saved'), NEW n \in 1 .. Len(saved'), j < n
          PROVE  saved'[j] < saved'[n]
      <4>1. CASE n \in 1 .. Len(saved)
        <5>1. j \in 1 .. Len(saved)
          BY <2>2, <3>3, <4>1
        <5>2. QED
          BY <1>1, <2>2, <2>3, <3>3, <4>1, <5>1 DEF SavedInOrder
      <4>2. CASE n = Len(saved) + 1 /\ saved'[n] = o
        <5>1. j \in 1 .. Len(saved)
          BY <2>2, <3>3, <4>2
        <5>2. QED
          BY <2>o, <2>2, <2>3, <2>6, <3>1, <4>2, <5>1
      <4>3. QED
        BY <2>c, <4>1, <4>2
    <3>4. QED
      BY <2>3, <3>2, <3>3 DEF SavedInOrder
  <2>9. StoredIsSaved'
    <3>1. ASSUME NEW k \in 1 .. Len(stored)
          PROVE  k \in dropped' \/ \E n \in DOMAIN saved' : saved'[n] = k
      <4>1. k \in dropped \/ \E n \in 1 .. Len(saved) : saved[n] = k
        BY <1>1, <2>1, <2>2 DEF StoredIsSaved
      <4>2. QED
        <5>1. 1 .. Len(saved) \subseteq DOMAIN saved'
          BY <2>2, <2>3, <2>b
        <5>2. QED
          BY <2>3, <2>4, <4>1, <5>1
    <3>2. o \in dropped' \/ \E n \in DOMAIN saved' : saved'[n] = o
      <4>1. Len(saved) + 1 \in 1 .. Len(saved) + 1
        BY <2>2
      <4>2. QED
        BY <2>3, <2>a, <4>1
    <3>3. QED
      BY <2>1, <2>5, <3>1, <3>2 DEF StoredIsSaved
  <2>10. ReadIsStored'
    <3>1. \A n \in 1 .. next' : n \in 1 .. next \/ n = next + 1
      BY <1>1, <1>2
    <3>2. ToSet(stored) \subseteq ToSet(stored') /\ kafka[next + 1] \in ToSet(stored')
      BY <2>1, <2>6 DEF ToSet
    <3>3. QED
      BY <1>1, <1>2, <3>1, <3>2 DEF ReadIsStored
  <2>11. StoredIsAnnounced'
    <3>1. Grows
      BY <1>2, <2>1, <2>2, <2>4, <2>6 DEF Grows
    <3>2. ASSUME NEW k \in 1 .. Len(stored), NEW u \in Users
          PROVE  Told(k, u)' \/ ToBeAnnounced(k)'
      <4>1. Told(k, u) \/ ToBeAnnounced(k)
        BY <1>1, <2>1 DEF StoredIsAnnounced
      <4>2. CASE Told(k, u)
        BY <2>1, <3>1, <4>2, ToldStays DEF DeliveryInv
      <4>3. CASE \E n \in handled + 1 .. Len(saved) : saved[n] = k
        <5>1. PICK n \in handled + 1 .. Len(saved) : saved[n] = k
          BY <4>3
        <5>2. n \in handled' + 1 .. Len(saved') /\ saved'[n] = k
          <6>1. n \in 1 .. Len(saved) /\ n \in handled + 1 .. Len(saved') /\ handled' = handled
            BY <1>1, <1>2, <2>2, <2>b, <5>1
          <6>2. QED
            BY <2>3, <5>1, <6>1
        <5>3. QED
          BY <5>2 DEF ToBeAnnounced
      <4>4. CASE buffer >= k \/ \E g \in Gateways : \E p \in emitting[g] : p >= k
        BY <1>2, <4>4 DEF ToBeAnnounced
      <4>5. QED
        BY <4>1, <4>2, <4>3, <4>4 DEF ToBeAnnounced
    <3>3. ASSUME NEW u \in Users
          PROVE  Told(o, u)' \/ ToBeAnnounced(o)'
      <4>1. CASE o \in dropped'
        BY <4>1 DEF Told
      <4>2. CASE Len(saved') = Len(saved) + 1 /\ saved'[Len(saved) + 1] = o
        <5>1. Len(saved) + 1 \in handled' + 1 .. Len(saved')
          BY <1>1, <1>2, <2>2, <4>2
        <5>2. QED
          BY <4>2, <5>1 DEF ToBeAnnounced
      <4>3. QED
        BY <2>a, <4>1, <4>2
    <3>4. QED
      BY <2>1, <2>5, <3>2, <3>3 DEF StoredIsAnnounced
  <2>12. QED
    BY <2>7, <2>8, <2>9, <2>10, <2>11 DEF DeliveryInv
<1>6. QED
  BY <1>4, <1>5 DEF Store

\* The steps of the gateways leave the partitions alone.
LEMMA NotifyDelivers ==
  ASSUME SendTypeOK, DeliveryInv,
         UNCHANGED <<next, stored, saved, kafka>>,
         handled' \in 0 .. Len(saved), buffer' \in 0 .. Len(stored),
         emitting' \in [Gateways -> SUBSET (1 .. Len(stored))],
         told' \in [Users -> SUBSET Nat],
         dropped \subseteq dropped', \A u \in Users : told[u] \subseteq told'[u],
         \A o \in DOMAIN stored : \A u \in Users :
           ToBeAnnounced(o) => Told(o, u)' \/ ToBeAnnounced(o)'
  PROVE  DeliveryInv'
<1>1. Grows
  BY DEF Grows, DeliveryInv, DeliveryTypeOK
<1>2. DeliveryTypeOK' /\ SavedInOrder' /\ StoredIsSaved' /\ ReadIsStored'
  BY DEF DeliveryInv, DeliveryTypeOK, SavedInOrder, StoredIsSaved, ReadIsStored
<1>3. StoredIsAnnounced'
  <2> SUFFICES ASSUME NEW o \in DOMAIN stored, NEW u \in Users
               PROVE  Told(o, u)' \/ ToBeAnnounced(o)'
    BY DEF StoredIsAnnounced
  <2>1. Told(o, u) \/ ToBeAnnounced(o)
    BY DEF DeliveryInv, StoredIsAnnounced
  <2>2. QED
    BY <1>1, <2>1, ToldStays DEF DeliveryInv
<1>4. QED
  BY <1>2, <1>3 DEF DeliveryInv

LEMMA HandleSavedDelivers ==
  ASSUME SendTypeOK, DeliveryInv, NEW g \in Gateways, HandleSaved(g)
  PROVE  DeliveryInv'
<1> DEFINE k == handled + 1
<1>1. /\ handled \in 0 .. Len(saved) /\ saved \in Seq(Nat) /\ stored \in Seq(Messages)
      /\ buffer \in 0 .. Len(stored) /\ SavedInOrder /\ StoredIsSaved
      /\ emitting \in [Gateways -> SUBSET (1 .. Len(stored))]
      /\ told \in [Users -> SUBSET Nat]
  BY DEF DeliveryInv, DeliveryTypeOK
<1>2. /\ handled < Len(saved) /\ handled' = k
      /\ \/ buffer' = saved[k] /\ UNCHANGED dropped
         \/ dropped' = dropped \cup {saved[k]} /\ UNCHANGED buffer
      /\ UNCHANGED <<next, stored, saved, kafka, emitting, told>>
  BY DEF HandleSaved, BufferNewest, sendRest, storeVars
<1>3. /\ k \in 1 .. Len(saved) /\ k \in Nat /\ Len(saved) \in Nat /\ Len(stored) \in Nat
      /\ DOMAIN saved = 1 .. Len(saved) /\ DOMAIN stored = 1 .. Len(stored)
  BY <1>1, <1>2
<1> HIDE DEF k
<1>4. \A n \in 1 .. Len(saved) : saved[n] \in 1 .. Len(stored)
  BY <1>1, <1>3 DEF SavedInOrder
<1>5. handled' \in 0 .. Len(saved) /\ buffer' \in 0 .. Len(stored)
  BY <1>1, <1>2, <1>3, <1>4
<1>6. dropped \subseteq dropped'
  BY <1>2
<1>7. ASSUME NEW o \in DOMAIN stored, NEW u \in Users, ToBeAnnounced(o)
      PROVE  Told(o, u)' \/ ToBeAnnounced(o)'
  <2>1. CASE o \in dropped'
    BY <2>1 DEF Told
  <2>2. CASE \E n \in 1 .. Len(saved) : n > k /\ saved[n] = o
    <3>1. PICK n \in 1 .. Len(saved) : n > k /\ saved[n] = o
      BY <2>2
    <3>2. n \in handled' + 1 .. Len(saved') /\ saved'[n] = o
      BY <1>2, <1>3, <3>1
    <3>3. QED
      BY <3>2 DEF ToBeAnnounced
  <2>3. CASE o \notin dropped' /\ \A n \in 1 .. Len(saved) : n > k => saved[n] # o
    <3>1. CASE UNCHANGED buffer /\ o # saved[k]
      <4>1. \/ buffer >= o
            \/ \E h \in Gateways : \E p \in emitting[h] : p >= o
        <5>1. ASSUME NEW n \in handled + 1 .. Len(saved)
              PROVE  saved[n] # o
          <6>1. n \in 1 .. Len(saved) /\ (n > k \/ n = k)
            BY <1>1, <1>3 DEF k
          <6>2. QED
            BY <2>3, <3>1, <6>1
        <5>2. QED
          BY <1>7, <5>1 DEF ToBeAnnounced
      <4>2. QED
        BY <1>2, <3>1, <4>1 DEF ToBeAnnounced
    <3>2. CASE buffer' = saved[k]
      <4>1. PICK n \in 1 .. Len(saved) : saved[n] = o
        BY <1>1, <1>3, <1>6, <2>3 DEF StoredIsSaved
      <4>2. n = k \/ n < k
        BY <1>3, <2>3, <4>1
      <4>3. saved[n] <= saved[k]
        <5>1. CASE n = k
          BY <1>3, <1>4, <5>1
        <5>2. CASE n < k
          <6>1. saved[n] < saved[k] /\ saved[n] \in Nat /\ saved[k] \in Nat
            <7>1. \A i, j \in 1 .. Len(saved) : i < j => saved[i] < saved[j]
              BY <1>1, <1>3 DEF SavedInOrder
            <7>2. saved[n] \in Nat /\ saved[k] \in Nat
              BY <1>3, <1>4
            <7>3. QED
              BY <1>3, <5>2, <7>1, <7>2
          <6>2. QED
            BY <6>1
        <5>3. QED
          BY <4>2, <5>1, <5>2
      <4>4. buffer' >= o
        BY <1>4, <1>3, <3>2, <4>1, <4>3
      <4>5. QED
        BY <4>4 DEF ToBeAnnounced
    <3>3. QED
      BY <1>2, <2>3, <3>1, <3>2
  <2>4. QED
    BY <2>1, <2>2, <2>3
<1>8. QED
  BY <1>1, <1>2, <1>5, <1>6, <1>7, NotifyDelivers

LEMMA TimerFiresDelivers ==
  ASSUME SendTypeOK, DeliveryInv, NEW g \in Gateways, TimerFires(g)
  PROVE  DeliveryInv'
<1>1. /\ handled \in 0 .. Len(saved) /\ stored \in Seq(Messages)
      /\ buffer \in 0 .. Len(stored) /\ Len(stored) \in Nat
      /\ emitting \in [Gateways -> SUBSET (1 .. Len(stored))]
      /\ told \in [Users -> SUBSET Nat]
  BY DEF DeliveryInv, DeliveryTypeOK
<1>2. /\ emitting' = [emitting EXCEPT ![g] = @ \cup ({buffer} \ {0})]
      /\ buffer' = 0
      /\ UNCHANGED <<next, stored, saved, kafka, handled, told, dropped>>
  BY DEF TimerFires, sendVars, storeVars
<1>3. /\ emitting'[g] = emitting[g] \cup ({buffer} \ {0})
      /\ \A h \in Gateways : emitting[h] \subseteq emitting'[h]
  BY <1>1, <1>2
<1>4. /\ buffer' \in 0 .. Len(stored)
      /\ emitting' \in [Gateways -> SUBSET (1 .. Len(stored))]
  BY <1>1, <1>2
<1>5. ASSUME NEW o \in DOMAIN stored, NEW u \in Users, ToBeAnnounced(o)
      PROVE  Told(o, u)' \/ ToBeAnnounced(o)'
  <2>1. CASE \E n \in handled + 1 .. Len(saved) : saved[n] = o
    BY <1>2, <2>1 DEF ToBeAnnounced
  <2>2. CASE buffer >= o
    <3>1. buffer \in emitting'[g]
      BY <1>1, <1>3, <2>2
    <3>2. QED
      BY <2>2, <3>1 DEF ToBeAnnounced
  <2>3. CASE \E h \in Gateways : \E p \in emitting[h] : p >= o
    BY <1>3, <2>3 DEF ToBeAnnounced
  <2>4. QED
    BY <1>5, <2>1, <2>2, <2>3 DEF ToBeAnnounced
<1>6. QED
  BY <1>1, <1>2, <1>4, <1>5, NotifyDelivers

LEMMA EmitDelivers ==
  ASSUME SendTypeOK, DeliveryInv, NEW g \in Gateways, NEW p \in emitting[g], Emit(g, p)
  PROVE  DeliveryInv'
<1>1. /\ handled \in 0 .. Len(saved) /\ stored \in Seq(Messages)
      /\ buffer \in 0 .. Len(stored) /\ Len(stored) \in Nat
      /\ emitting \in [Gateways -> SUBSET (1 .. Len(stored))]
      /\ told \in [Users -> SUBSET Nat] /\ DOMAIN stored = 1 .. Len(stored)
  BY DEF DeliveryInv, DeliveryTypeOK
<1>2. /\ emitting' = [emitting EXCEPT ![g] = @ \ {p}]
      /\ told' = [u \in Users |-> IF u \in Recipients(p) THEN told[u] \cup {p} ELSE told[u]]
      /\ UNCHANGED <<next, stored, saved, kafka, handled, buffer, dropped>>
  BY DEF Emit, sendVars, storeVars
<1>3. /\ emitting' \in [Gateways -> SUBSET (1 .. Len(stored))]
      /\ \A h \in Gateways : \A q \in emitting[h] : q = p \/ q \in emitting'[h]
  BY <1>1, <1>2
<1>4. /\ told' \in [Users -> SUBSET Nat]
      /\ \A u \in Users : told[u] \subseteq told'[u] /\ (u \in Recipients(p) => p \in told'[u])
  BY <1>1, <1>2
<1>5. ASSUME NEW o \in DOMAIN stored, NEW u \in Users, ToBeAnnounced(o)
      PROVE  Told(o, u)' \/ ToBeAnnounced(o)'
  <2>1. CASE \/ \E n \in handled + 1 .. Len(saved) : saved[n] = o
             \/ buffer >= o
    BY <1>2, <2>1 DEF ToBeAnnounced
  <2>2. CASE \E h \in Gateways : \E q \in emitting'[h] : q >= o
    BY <2>2 DEF ToBeAnnounced
  <2>3. CASE p >= o
    <3>1. CASE u \in Recipients(p)
      BY <1>4, <2>3, <3>1 DEF Told
    <3>2. CASE u \notin Recipients(p)
      <4>1. SentBy(p)' = u
        BY <1>2, <3>2 DEF Recipients, SentBy
      <4>2. p \in o .. Len(stored')
        BY <1>1, <1>2, <2>3
      <4>3. QED
        BY <4>1, <4>2 DEF Told
    <3>3. QED
      BY <3>1, <3>2
  <2>4. QED
    BY <1>3, <1>5, <2>1, <2>2, <2>3 DEF ToBeAnnounced
<1>6. QED
  BY <1>1, <1>2, <1>3, <1>4, <1>5, NotifyDelivers

LEMMA LossDelivers ==
  ASSUME SendTypeOK, DeliveryInv,
         Expire \/ \E g \in Gateways : GatewayCrash(g)
  PROVE  DeliveryInv'
<1>1. /\ handled \in 0 .. Len(saved) /\ stored \in Seq(Messages) /\ saved \in Seq(Nat)
      /\ buffer \in 0 .. Len(stored) /\ Len(stored) \in Nat /\ Len(saved) \in Nat
      /\ emitting \in [Gateways -> SUBSET (1 .. Len(stored))]
      /\ told \in [Users -> SUBSET Nat] /\ DOMAIN stored = 1 .. Len(stored)
  BY DEF DeliveryInv, DeliveryTypeOK
<1>2. CASE Expire
  <2>1. /\ buffer' = 0 /\ dropped' = dropped \cup (1 .. buffer)
        /\ UNCHANGED <<next, stored, saved, kafka, handled, emitting, told>>
    BY <1>2 DEF Expire, Lose, sendRest, storeVars
  <2>2. ASSUME NEW o \in DOMAIN stored, NEW u \in Users, ToBeAnnounced(o)
        PROVE  Told(o, u)' \/ ToBeAnnounced(o)'
    <3>1. CASE buffer >= o
      <4>1. o \in dropped'
        BY <1>1, <2>1, <3>1
      <4>2. QED
        BY <4>1 DEF Told
    <3>2. CASE ~(buffer >= o)
      BY <2>1, <2>2, <3>2 DEF ToBeAnnounced
    <3>3. QED
      BY <3>1, <3>2
  <2>3. buffer' \in 0 .. Len(stored) /\ dropped \subseteq dropped'
    BY <1>1, <2>1
  <2>4. QED
    BY <1>1, <2>1, <2>2, <2>3, NotifyDelivers
<1>3. ASSUME NEW g \in Gateways, GatewayCrash(g)
      PROVE  DeliveryInv'
  <2>1. /\ emitting' = [emitting EXCEPT ![g] = {}]
        /\ handled' \in {handled - 1, handled} \cap Nat
        /\ dropped' = dropped \cup UNION {1 .. o : o \in emitting[g]}
        /\ UNCHANGED <<next, stored, saved, kafka, buffer, told>>
    BY <1>3 DEF GatewayCrash, Lose, sendRest, storeVars
  <2>2. /\ handled' \in 0 .. Len(saved) /\ handled' <= handled
        /\ emitting' \in [Gateways -> SUBSET (1 .. Len(stored))]
        /\ \A h \in Gateways \ {g} : emitting'[h] = emitting[h]
    BY <1>1, <2>1
  <2>3. ASSUME NEW o \in DOMAIN stored, NEW u \in Users, ToBeAnnounced(o)
        PROVE  Told(o, u)' \/ ToBeAnnounced(o)'
    <3>1. CASE \E n \in handled + 1 .. Len(saved) : saved[n] = o
      <4>1. PICK n \in handled + 1 .. Len(saved) : saved[n] = o
        BY <3>1
      <4>2. n \in handled' + 1 .. Len(saved') /\ saved'[n] = o
        BY <1>1, <2>1, <2>2, <4>1
      <4>3. QED
        BY <4>2 DEF ToBeAnnounced
    <3>2. CASE buffer >= o
      BY <2>1, <3>2 DEF ToBeAnnounced
    <3>3. CASE \E p \in emitting[g] : p >= o
      <4>1. PICK p \in emitting[g] : p >= o
        BY <3>3
      <4>2. o \in 1 .. p
        BY <1>1, <4>1
      <4>3. o \in dropped'
        BY <2>1, <4>2
      <4>4. QED
        BY <4>3 DEF Told
    <3>4. CASE \E h \in Gateways \ {g} : \E p \in emitting[h] : p >= o
      BY <2>2, <3>4 DEF ToBeAnnounced
    <3>5. QED
      BY <2>3, <3>1, <3>2, <3>3, <3>4 DEF ToBeAnnounced
  <2>4. dropped \subseteq dropped' /\ buffer' \in 0 .. Len(stored)
    BY <1>1, <2>1
  <2>5. QED
    BY <1>1, <2>1, <2>2, <2>3, <2>4, NotifyDelivers
<1>4. QED
  BY <1>2, <1>3

LEMMA DeliveryInvariant == Spec => [](SendInv /\ DeliveryInv)
<1>1. Init => SendInv /\ DeliveryInv
  <2> SUFFICES ASSUME Init PROVE DeliveryInv
    BY SendInitiallyKept DEF Init
  <2>1. /\ kafka = <<>> /\ next = 0 /\ stored = <<>> /\ saved = <<>> /\ handled = 0
        /\ buffer = 0 /\ emitting = [g \in Gateways |-> {}] /\ told = [u \in Users |-> {}]
    BY DEF Init, SendInit
  <2>2. QED
    BY <2>1 DEF DeliveryInv, DeliveryTypeOK, SavedInOrder, StoredIsSaved, ReadIsStored,
                StoredIsAnnounced
<1>2. SendInv /\ DeliveryInv /\ [Next]_deliveryVars => SendInv' /\ DeliveryInv'
  <2> SUFFICES ASSUME SendInv, DeliveryInv, [Next]_deliveryVars
               PROVE  SendInv' /\ DeliveryInv'
    OBVIOUS
  <2>1. SendInv' /\ SendTypeOK
    BY SendQueueAssumption, DeliveryStep DEF SendInv
  <2>2. CASE Sending(SendNext)
    BY <2>1, <2>2, SendingDelivers DEF Sending
  <2>3. CASE Store
    BY <2>1, <2>3, StoreDelivers
  <2>4. CASE \E g \in Gateways : Notify(g)
    BY <2>1, <2>4, HandleSavedDelivers, TimerFiresDelivers, EmitDelivers DEF Notify
  <2>5. CASE Expire \/ \E g \in Gateways : GatewayCrash(g)
    BY <2>1, <2>5, LossDelivers
  <2>6. CASE UNCHANGED deliveryVars
    <3>1. UNCHANGED <<queue, kafka, lost, next, stored, saved, handled, buffer, emitting, told,
                      dropped>>
      BY <2>6 DEF deliveryVars, sendVars, storeVars, notifyVars
    <3>2. DeliveryTypeOK' /\ SavedInOrder' /\ StoredIsSaved' /\ ReadIsStored'
      BY <3>1 DEF DeliveryInv, DeliveryTypeOK, SavedInOrder, StoredIsSaved, ReadIsStored
    <3>3. StoredIsAnnounced'
      BY <3>1 DEF DeliveryInv, StoredIsAnnounced, Told, ToBeAnnounced, SentBy
    <3>4. QED
      BY <2>1, <3>2, <3>3 DEF DeliveryInv
  <2>7. QED
    BY <2>1, <2>2, <2>3, <2>4, <2>5, <2>6 DEF Next
<1>3. QED
  BY <1>1, <1>2, PTL DEF Spec

\* An acknowledged message a member does not know of yet is somewhere it goes
\* on from, for any number of messages, instances of both services, members and
\* faults: no overwritten buffer and no redelivery leaves one behind.
THEOREM DeliveryAckedIsOnItsWay == Spec => []AckedIsOnItsWay
<1>1. SendInv /\ DeliveryInv => AckedIsOnItsWay
  <2> SUFFICES ASSUME SendInv, DeliveryInv,
                      NEW m \in ToSet(acked) \ lost, NEW u \in Users \ {Sender[m]},
                      ~ ToBeStored(m)
               PROVE  \/ Known(m, u)
                      \/ \E o \in DOMAIN stored : stored[o] = m /\ ToBeAnnounced(o)
    BY DEF AckedIsOnItsWay
  <2>1. acked \in Seq(Messages) /\ kafka \in Seq(Messages) /\ Len(kafka) \in Nat
        /\ next \in 0 .. Len(kafka)
    BY DEF SendInv, SendTypeOK, DeliveryInv, DeliveryTypeOK
  <2>2. m \in Messages
    BY <2>1, SequenceSets
  <2>3. m \in ToSet(kafka)
    BY <2>2 DEF SendInv, KeptInv, Kept, ToBeStored
  <2>4. PICK n \in 1 .. Len(kafka) : kafka[n] = m
    BY <2>1, <2>3 DEF ToSet
  <2>5. n \in 1 .. next
    BY <2>1, <2>4 DEF ToBeStored
  <2>6. m \in ToSet(stored)
    BY <2>4, <2>5 DEF DeliveryInv, ReadIsStored
  <2>7. PICK o \in DOMAIN stored : stored[o] = m
    BY <2>6 DEF ToSet
  <2>8. QED
    BY <2>7 DEF DeliveryInv, StoredIsAnnounced, Known
<1>2. QED
  BY <1>1, DeliveryInvariant, PTL
=============================================================================
