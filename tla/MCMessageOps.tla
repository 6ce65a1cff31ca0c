---------------------------- MODULE MCMessageOps ----------------------------
(* What the clients of realtime-gateway are shown: changed messages, and   *)
(* who is online.  Messages are alike, and so are the replicas that flush  *)
(* reactions; two mobile sockets of one login are on two instances.  The   *)
(* two protocols share no state, so a behaviour only ever moves one.       *)
EXTENDS MessageOps, Presence, TLC

CONSTANTS s1, s2

TwoPods == (s1 :> "pod1") @@ (s2 :> "pod2")
OneLogin == [s \in {s1, s2} |-> "login"]

Symmetric == Permutations(Messages) \cup Permutations(Jobs)

ClientsInit == Init /\ PresenceInit

ClientsNext ==
  \/ PresenceInit /\ Next /\ UNCHANGED presenceVars
  \/ Init /\ PresenceNext /\ UNCHANGED vars

ClientsSpec == ClientsInit /\ [][ClientsNext]_<<vars, presenceVars>>
=============================================================================
