------------------------------ MODULE Presence ------------------------------
(***************************************************************************)
(* The sockets of one user on the instances of realtime-gateway, and what  *)
(* friends and presence-service are told of them.  Every socket has an     *)
(* `authenticate' handler and, once it is gone, a disconnect handler; both *)
(* go from one Redis or TCP call to the next and may run at the same time. *)
(* Timers live in the memory of an instance: the offline broadcast of a    *)
(* user, and the dead-detection of a mobile socket.                        *)
(*                                                                         *)
(* Durations are not compared: a timer that is set may fire at any time.   *)
(***************************************************************************)
EXTENDS Naturals

CONSTANTS
  Sockets,
  Pods,         \* instances of realtime-gateway
  Where,        \* the instance of a socket
  Login,        \* keycloakSid of its token,
  NoLogin,      \* or NoLogin: the token has none
  Mobile,       \* the sockets that say they are mobile
  NoSocket,
  MaxMishaps    \* bound of the model: failing calls, crashes, late heartbeats, revocations

ASSUME PresenceAssumption ==
  /\ Where \in [Sockets -> Pods] /\ DOMAIN Login = Sockets
  /\ Mobile \subseteq Sockets /\ NoSocket \notin Sockets
  /\ MaxMishaps \in Nat

VARIABLES
  up,          \* the sockets that are connected; at first all of them
  auth,        \* auth[s]: the next call of handleAuthenticate
  victim,      \* victim[s]: the socket it is about to evict
  leaving,     \* handlers of disconnects, dead sockets and revocations
  registered,  \* ws:user:{id}:sockets, which heartbeats keep alive
  described,   \* the sockets whose socket-info hash exists
  offline,     \* offline[p]: broadcast timers, in the map or no longer in it
  announcing,  \* announcing[p]: timers that found nobody connected
  status,      \* whether presence:user:{id}:status exists
  goodbye,     \* whether a DEL of it is on its way
  seenAs,       \* what friends were told last
  mishaps,
  excuses      \* history: the properties below that no longer can hold

socketVars == <<up, auth, victim, leaving>>
keyVars == <<registered, described>>
timerVars == <<offline, announcing>>
statusVars == <<status, goodbye>>
presenceVars == <<socketVars, keyVars, timerVars, statusVars, seenAs, mishaps, excuses>>

NoTimers == [known |-> FALSE, lost |-> 0]

PresenceInit ==
  /\ up = Sockets /\ auth = [s \in Sockets |-> "open"]
  /\ victim = [s \in Sockets |-> NoSocket]
  /\ leaving = {} /\ registered = {} /\ described = {}
  /\ offline = [p \in Pods |-> NoTimers] /\ announcing = [p \in Pods |-> 0]
  /\ status = FALSE /\ goodbye = FALSE
  /\ seenAs = "offline" /\ mishaps = 0 /\ excuses = {}

Mishap == mishaps < MaxMishaps /\ mishaps' = mishaps + 1
Excuse(e) == excuses' = excuses \cup {e}

Authenticated(s) == auth[s] # "open"
Step(s, label) == auth' = [auth EXCEPT ![s] = label]

Leaver(s, by) == [sock |-> s, by |-> by, pc |-> "unregister"]

\* Mutant: handleDisconnect passes over sockets that are unregistered already.
DisconnectRegistered(s, others) ==
  /\ up' = up \ {s}
  /\ leaving' = others \cup (IF s \in up \cap registered
                             THEN {Leaver(s, "disconnect")} ELSE {})

\* A socket is disconnected, by whomever; handleDisconnect does nothing for
\* one that is not authenticated yet.
Disconnect(s, others) ==
  /\ up' = up \ {s}
  /\ leaving' = others \cup (IF s \in up /\ Authenticated(s)
                             THEN {Leaver(s, "disconnect")} ELSE {})

-----------------------------------------------------------------------------
(* handleAuthenticate.                                                     *)

\* validateToken; the socket may be gone when it answers.
ValidateToken(s) ==
  /\ auth[s] = "open"
  /\ \/ Step(s, "register") /\ UNCHANGED up
     \/ Step(s, "failed") /\ up' = up \ {s}
  /\ UNCHANGED <<victim, leaving, keyVars, timerVars, statusVars, seenAs, mishaps,
                 excuses>>

\* The handler goes on although its socket is gone.
Outlive(s) == IF s \in up THEN UNCHANGED excuses ELSE Excuse("gone")

Register(s) ==
  /\ auth[s] = "register" /\ Step(s, "limit")
  /\ registered' = registered \cup {s} /\ described' = described \cup {s}
  /\ Outlive(s)
  /\ UNCHANGED <<up, victim, leaving, timerVars, statusVars, seenAs, mishaps>>

SamePlatform(s, t) == s \in Mobile <=> t \in Mobile
SameSession(s, t) == Login[s] # NoLogin /\ Login[s] = Login[t] /\ SamePlatform(s, t)

\* Mutant: only sockets of this instance are looked at.
TabsHere(s) ==
  {t \in described : t # s /\ SameSession(s, t) /\ Where[t] = Where[s]}

\* Login and connectedAt are in the hash; one who has no login is compared with
\* every socket of the platform.
Tabs(s) ==
  {t \in described \ {s} : \/ SameSession(s, t)
                           \/ Login[s] = NoLogin /\ SamePlatform(s, t)}

\* enforcePlatformLimit chooses the oldest tab of the session, by connectedAt,
\* which each instance takes from its own clock: any of them.  Without a login
\* the platform's sockets are counted first, and this one may be gone already.
Limit(s) ==
  /\ auth[s] = "limit"
  /\ \/ /\ Tabs(s) = {} \/ (Login[s] = NoLogin /\ s \notin described)
        /\ Step(s, "online")
        /\ UNCHANGED <<victim, excuses>>
     \/ \E oldest \in Tabs(s) :
          /\ Step(s, "evict") /\ victim' = [victim EXCEPT ![s] = oldest]
          /\ IF \E t \in Sockets : victim[t] = oldest
             THEN Excuse("tabs") ELSE UNCHANGED excuses
  /\ UNCHANGED <<up, leaving, keyVars, timerVars, statusVars, seenAs, mishaps>>

\* unregisterConnection; it swallows errors.
Forget(s) == registered' = registered \ {s} /\ described' = described \ {s}

Evict(s) ==
  /\ auth[s] = "evict" /\ Step(s, "kick")
  /\ \/ Forget(victim[s]) /\ UNCHANGED <<mishaps, excuses>>
     \/ Mishap /\ Excuse("tabs") /\ UNCHANGED keyVars
  /\ UNCHANGED <<up, victim, leaving, timerVars, statusVars, seenAs>>

Kick(s) ==
  /\ auth[s] = "kick" /\ Step(s, "online")
  /\ Disconnect(victim[s], leaving)
  /\ victim' = [victim EXCEPT ![s] = NoSocket]
  /\ UNCHANGED <<keyVars, timerVars, statusVars, seenAs, mishaps, excuses>>

\* handleUserOnline: it cancels the broadcast timer the map knows.
Online(s) ==
  /\ auth[s] = "online" /\ Step(s, "set")
  /\ offline' = [offline EXCEPT ![Where[s]].known = FALSE]
  /\ Outlive(s)
  /\ UNCHANGED <<up, victim, leaving, keyVars, announcing, statusVars, seenAs,
                 mishaps>>

\* setOnline of presence-service, its EXISTS and its SETEX in one step.
SetOnline(s) ==
  /\ auth[s] = "set"
  /\ Step(s, IF status THEN "started" ELSE "broadcast")
  /\ status' = TRUE
  /\ IF goodbye \/ \E p \in Pods : announcing[p] > 0
     THEN Excuse("presence") ELSE UNCHANGED excuses
  /\ UNCHANGED <<up, victim, leaving, keyVars, timerVars, goodbye, seenAs,
                 mishaps>>

\* The broadcast, if the user was offline, and the timer of a mobile socket.
Started(s) ==
  /\ auth[s] \in {"broadcast", "started"} /\ Step(s, "done")
  /\ seenAs' = IF auth[s] = "broadcast" THEN "online" ELSE seenAs
  /\ Outlive(s)
  /\ UNCHANGED <<up, victim, leaving, keyVars, timerVars, statusVars, mishaps>>

\* A call throws (at "online", the joining of rooms before it): the socket is
\* disconnected.
AuthFails(s) ==
  /\ auth[s] \in {"register", "limit", "kick", "online", "set", "broadcast"}
  /\ Mishap /\ Step(s, "failed")
  /\ Disconnect(s, leaving)
  /\ victim' = [victim EXCEPT ![s] = NoSocket]
  /\ excuses' = excuses \cup (IF auth[s] = "broadcast" THEN {"presence"} ELSE {})
                        \cup (IF auth[s] = "limit" THEN {"tabs"} ELSE {})
                        \cup (IF s \in up THEN {} ELSE {"gone"})
  /\ UNCHANGED <<keyVars, timerVars, statusVars, seenAs>>

Authenticate(s) ==
  \/ Register(s) \/ Limit(s) \/ Evict(s) \/ Kick(s)
  \/ Online(s) \/ SetOnline(s) \/ Started(s)

-----------------------------------------------------------------------------
(* Connected sockets.                                                      *)

Drop(s) ==
  /\ s \in up
  /\ Disconnect(s, leaving)
  /\ UNCHANGED <<auth, victim, keyVars, timerVars, statusVars, seenAs, mishaps,
                 excuses>>

\* No heartbeat of a mobile socket in time: it counts as gone, and may not be.
\* Disconnect handlers stop the timer, after they have unregistered the socket.
HeartbeatTimeout(s) ==
  /\ Mishap /\ s \in Mobile /\ auth[s] = "done" /\ s \in up \cup registered
  /\ leaving' = leaving \cup {Leaver(s, "dead")}
  /\ UNCHANGED <<up, auth, victim, keyVars, timerVars, statusVars, seenAs, excuses>>

\* handleRevocation, when a login elsewhere or a logout is published.
Revoke(s) ==
  /\ Mishap /\ s \in up /\ Authenticated(s) /\ \A l \in leaving : l.sock # s
  /\ leaving' = leaving \cup {Leaver(s, "revoked")}
  /\ UNCHANGED <<up, auth, victim, keyVars, timerVars, statusVars, seenAs,
                 excuses>>

\* Heartbeats refresh ws:user:{id}:sockets; nothing refreshes the hash, which
\* is gone a day after the registration.
InfoExpires(s) ==
  /\ s \in described /\ described' = described \ {s}
  /\ UNCHANGED <<socketVars, registered, timerVars, statusVars, seenAs, mishaps, excuses>>

-----------------------------------------------------------------------------
(* handleDisconnect and handleUserDisconnect.                              *)

To(l, label) == leaving' = (leaving \ {l}) \cup {[l EXCEPT !.pc = label]}

Unregister(l) ==
  /\ l.pc = "unregister"
  /\ To(l, IF l.by = "revoked" THEN "kick" ELSE "check")
  /\ \/ Forget(l.sock) /\ UNCHANGED <<mishaps, excuses>>
     \/ Mishap /\ Excuse("gone") /\ UNCHANGED keyVars
  /\ UNCHANGED <<up, auth, victim, timerVars, statusVars, seenAs>>

KickRevoked(l) ==
  /\ l.pc = "kick"
  /\ Disconnect(l.sock, leaving \ {l})
  /\ UNCHANGED <<auth, victim, keyVars, timerVars, statusVars, seenAs, mishaps,
                 excuses>>

Check(l) ==
  /\ l.pc = "check"
  /\ IF registered = {} THEN To(l, "schedule") ELSE leaving' = leaving \ {l}
  /\ UNCHANGED <<up, auth, victim, keyVars, timerVars, statusVars, seenAs,
                 mishaps, excuses>>

\* scheduleOffline of presence-service: the status gets the time to live of
\* the grace period (StatusExpires).
Schedule(l) ==
  /\ l.pc = "schedule" /\ To(l, "arm")
  /\ IF registered = {} THEN UNCHANGED excuses ELSE Excuse("presence")
  /\ UNCHANGED <<up, auth, victim, keyVars, timerVars, statusVars, seenAs, mishaps>>

Arm(l) ==
  /\ l.pc = "arm" /\ leaving' = leaving \ {l}
  /\ offline' = [offline EXCEPT ![Where[l.sock]].known = TRUE]
  /\ UNCHANGED <<up, auth, victim, keyVars, announcing, statusVars, seenAs,
                 mishaps, excuses>>

LeaveFails(l) ==
  /\ l.pc \in {"check", "schedule"} /\ leaving' = leaving \ {l}
  /\ Mishap /\ Excuse("gone")
  /\ UNCHANGED <<up, auth, victim, keyVars, timerVars, statusVars, seenAs>>

Leave(l) == Unregister(l) \/ KickRevoked(l) \/ Check(l) \/ Schedule(l) \/ Arm(l)

-----------------------------------------------------------------------------
(* The callback of a broadcast timer.  Its `finally' deletes the map's     *)
(* entry, even if that is a newer timer, which nobody can cancel then.     *)

Forgotten(timers) ==
  IF timers.known THEN [known |-> FALSE, lost |-> timers.lost + 1] ELSE timers

Fired(timers, which) ==
  IF which = "known" THEN [timers EXCEPT !.known = FALSE] ELSE [timers EXCEPT !.lost = @ - 1]

\* Mutant: the callback does not look whether the user is back.
FireUnchecked(p, which) ==
  /\ IF which = "known" THEN offline[p].known ELSE offline[p].lost > 0
  /\ announcing' = [announcing EXCEPT ![p] = @ + 1]
  /\ offline' = [offline EXCEPT ![p] = Fired(offline[p], which)]
  /\ UNCHANGED <<socketVars, keyVars, statusVars, seenAs, mishaps, excuses>>

Fire(p, which) ==
  LET rest == Fired(offline[p], which) IN
  /\ IF which = "known" THEN offline[p].known ELSE offline[p].lost > 0
  /\ IF registered = {}
     THEN /\ announcing' = [announcing EXCEPT ![p] = @ + 1]
          /\ offline' = [offline EXCEPT ![p] = rest]
     ELSE /\ offline' = [offline EXCEPT ![p] = Forgotten(rest)]
          /\ UNCHANGED announcing
  /\ UNCHANGED <<socketVars, keyVars, statusVars, seenAs, mishaps, excuses>>

AnnounceOffline(p) ==
  /\ announcing[p] > 0
  /\ announcing' = [announcing EXCEPT ![p] = @ - 1]
  /\ offline' = [offline EXCEPT ![p] = Forgotten(@)]
  /\ \/ seenAs' = "offline" /\ goodbye' = TRUE /\ UNCHANGED <<mishaps, excuses>>
     \/ Mishap /\ Excuse("gone") /\ UNCHANGED <<seenAs, goodbye>>
  /\ UNCHANGED <<socketVars, keyVars, status>>

-----------------------------------------------------------------------------
(* presence-service.                                                       *)

\* Two DELs may be on their way.
Goodbye ==
  /\ goodbye /\ goodbye' \in BOOLEAN
  /\ status' = FALSE
  /\ UNCHANGED <<socketVars, keyVars, timerVars, seenAs, mishaps, excuses>>

\* The status lives on while a socket that set it sends heartbeats.  When it
\* ends with the grace period, the timer set with it finds no key, and DELs.
StatusExpires ==
  /\ status /\ ~\E s \in up : auth[s] \in {"broadcast", "started", "done"}
  /\ status' = FALSE /\ goodbye' \in {goodbye, TRUE}
  /\ UNCHANGED <<socketVars, keyVars, timerVars, seenAs, mishaps, excuses>>

\* An instance dies with its sockets, handlers and timers.
PodDies(p) ==
  LET here == {s \in Sockets : Where[s] = p} IN
  /\ Mishap
  /\ excuses' = excuses \cup {"gone"} \cup
       (IF \E s \in here : auth[s] = "broadcast" THEN {"presence"} ELSE {}) \cup
       (IF \E s \in here : auth[s] \in {"limit", "evict"} THEN {"tabs"} ELSE {})
  /\ up' = up \ here
  /\ auth' = [s \in Sockets |-> IF s \in here THEN "failed" ELSE auth[s]]
  /\ victim' = [s \in Sockets |-> IF s \in here THEN NoSocket ELSE victim[s]]
  /\ leaving' = {l \in leaving : l.sock \notin here}
  /\ offline' = [offline EXCEPT ![p] = NoTimers]
  /\ announcing' = [announcing EXCEPT ![p] = 0]
  /\ UNCHANGED <<keyVars, statusVars, seenAs>>

PresenceNext ==
  \/ \E s \in Sockets : \/ ValidateToken(s) \/ Authenticate(s) \/ AuthFails(s)
                        \/ Drop(s) \/ HeartbeatTimeout(s) \/ Revoke(s)
                        \/ InfoExpires(s)
  \/ \E l \in leaving : Leave(l) \/ LeaveFails(l)
  \/ \E p \in Pods : \/ \E which \in {"known", "lost"} : Fire(p, which)
                     \/ AnnounceOffline(p) \/ PodDies(p)
  \/ Goodbye \/ StatusExpires

PresenceSpec == PresenceInit /\ [][PresenceNext]_presenceVars

-----------------------------------------------------------------------------
Quiet ==
  /\ \A s \in Sockets : auth[s] \in {"open", "done", "failed"}
  /\ leaving = {} /\ ~goodbye /\ \A p \in Pods : announcing[p] = 0

Connected == {s \in up : auth[s] = "done" /\ s \in registered}

\* When no handler runs, a connected user is online to friends and in
\* presence-service, however sockets, instances and timers raced.  The
\* exceptions: an authentication that overtook a broadcast or a DEL of the
\* status that was on its way; a SCHEDULE_OFFLINE decided on before the user
\* came back; a failing call or a crash.
ConnectedIsKnown ==
  Quiet /\ Connected # {} /\ "presence" \notin excuses
    => seenAs = "online" /\ status

\* One tab for each login and platform, whichever instances they are on and in
\* whatever order they authenticate and leave, among the tabs that opened within
\* the last day: the hash of an older one is gone, and nobody evicts it again.  The
\* exceptions: two handlers chose the same victim, or one failed before it had
\* unregistered its own.
OneTab ==
  Quiet /\ "tabs" \notin excuses
    => \A s, t \in Connected \cap described : SameSession(s, t) => s = t

\* A user who has gone for good is shown as offline in the end, whichever
\* instances the sockets were on and whoever cancelled whose timer.  The
\* exceptions: an authenticate handler that outlived its socket, a failing
\* call, a crash.
GoneIsShown ==
  Quiet /\ up = {} /\ (\A p \in Pods : offline[p] = NoTimers)
    => seenAs = "offline" \/ "gone" \in excuses
=============================================================================
