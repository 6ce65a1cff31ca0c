----------------------------- MODULE DirectChat -----------------------------
(***************************************************************************)
(* May a user write to the other of a DIRECT conversation?  The gateway's  *)
(* accept and its proof key, chat-core's two consumers of friendship       *)
(* events, the Redis keys they keep, and InteractionValidatorService,      *)
(* together with the service of module Friendship.                         *)
(*                                                                         *)
(* Any key may expire at any time.  Events of different topics reach the   *)
(* consumers in any order; those of one topic are alike, and so is an      *)
(* event that is delivered again before it is counted as consumed.  The    *)
(* model runs within one calendar year, which is all that parseInt leaves  *)
(* of the ISO timestamp of an event.                                       *)
(***************************************************************************)
EXTENDS Friendship

CONSTANTS
  Writers,       \* the users who write to the other
  MaxChats,      \* bound of the model: messages ever sent
  MaxFaults      \* bound of the model: failing calls

ASSUME DirectChatAssumption ==
  /\ Writers \subseteq Users
  /\ MaxChats \in Nat
  /\ MaxFaults \in Nat

VARIABLES
  friendsKey,    \* "friends" (a positive stamp), "removed" (negative), "none"
  blockKey,      \* the users whose block of the other is cached
  proof,         \* the proof key of the pair is there
  open,          \* the users who let strangers write to them
  privacyCache,  \* in-process: receiver -> "none", "open", "closed"
  relationCache, \* in-process, of the pair: "none" or a computed status
  chat,          \* the message being validated
  chats,         \* messages so far
  faults,        \* failures so far
  wasOpen,       \* history: who has ever been open
  wasFriends     \* history: an accept was announced or taken for granted

\* Only the privacy setting of somebody who is written to is ever read.
Receivers == {Other(u) : u \in Writers}

keys == <<friendsKey, blockKey, proof>>
caches == <<privacyCache, relationCache>>
progress == <<chat, chats, faults>>
history == <<wasOpen, wasFriends>>
dvars == <<vars, keys, open, caches, progress, history>>

\* chat.stood is a history: the blocks that stood all through the validation.
NoChat == [pc |-> "idle", user |-> NoUser, ask |-> {},
           friends |-> FALSE, misread |-> FALSE, stood |-> {}]

DInit ==
  /\ Init
  /\ friendsKey \in {"none", "friends"} /\ blockKey = {} /\ proof = FALSE
  /\ friendsKey = "friends" => willing = Users
  /\ open \in SUBSET Receivers
  /\ privacyCache = [u \in Receivers |-> "none"]
  /\ relationCache = "none"
  /\ chat = NoChat /\ chats = 0 /\ faults = 0
  /\ wasOpen = open /\ wasFriends = (willing = Users)

-----------------------------------------------------------------------------
\* The service's steps, and what the histories see of them.
ServiceStep ==
  /\ \E w \in Workers : Serve(w)
  /\ wasFriends' = (wasFriends \/ inflight'["accepted"] # inflight["accepted"])
  /\ chat' = [chat EXCEPT !.stood = @ \cap blocks']
  /\ UNCHANGED <<keys, open, caches, chats, faults, wasOpen>>

\* The gateway gets the answer; after an accept it writes the proof key.
GatewayAnswer ==
  \E w \in Workers :
    /\ Answer(w)
    /\ proof' = (proof \/ job[w].accepted)
    /\ UNCHANGED <<friendsKey, blockKey, open, caches, progress, history>>

\* The service cannot be reached: the circuit breaker's fallback looks like
\* an answer, and the gateway writes the proof key as well.
GatewayFallback ==
  /\ faults < MaxFaults /\ faults' = faults + 1
  /\ proof' = TRUE
  /\ wasFriends' = TRUE
  /\ UNCHANGED <<vars, friendsKey, blockKey, open, caches, chat, chats,
                 wasOpen>>

Consumed(topic, u) ==
  /\ inflight[topic][u] > 0
  /\ inflight' = [inflight EXCEPT ![topic][u] = @ - 1]
  /\ UNCHANGED <<db, job, jobs, willing, proof, open, caches,
                 progress, history>>

\* The Lua scripts write only a larger stamp than the stored one, and the
\* stamps of a year are equal.
Stamp(value) == friendsKey' = IF friendsKey = "none" THEN value ELSE friendsKey

ConsumeAccepted(u) ==
  Consumed("accepted", u) /\ Stamp("friends") /\ UNCHANGED blockKey

ConsumeRemoved(u) ==
  Consumed("removed", u) /\ Stamp("removed") /\ UNCHANGED blockKey

ConsumeBlocked(u) ==
  /\ Consumed("blocked", u)
  /\ blockKey' = blockKey \cup {u}
  /\ UNCHANGED friendsKey

ConsumeUnblocked(u) ==
  /\ Consumed("unblocked", u)
  /\ blockKey' = blockKey \ {u}
  /\ UNCHANGED friendsKey

Consume == \E u \in Users : \/ ConsumeAccepted(u) \/ ConsumeRemoved(u)
                            \/ ConsumeBlocked(u) \/ ConsumeUnblocked(u)

Expire ==
  /\ \/ friendsKey # "none" /\ friendsKey' = "none" /\ UNCHANGED <<blockKey, proof, caches>>
     \/ proof /\ proof' = FALSE /\ UNCHANGED <<friendsKey, blockKey, caches>>
     \/ \E u \in blockKey : /\ blockKey' = blockKey \ {u}
                            /\ UNCHANGED <<friendsKey, proof, caches>>
     \/ \E u \in Receivers : /\ privacyCache[u] # "none"
                         /\ privacyCache' = [privacyCache EXCEPT ![u] = "none"]
                         /\ UNCHANGED <<friendsKey, blockKey, proof, relationCache>>
     \/ relationCache # "none" /\ relationCache' = "none"
        /\ UNCHANGED <<friendsKey, blockKey, proof, privacyCache>>
  /\ UNCHANGED <<vars, open, progress, history>>

\* A user changes the privacy setting (users service).
SetPrivacy(u) ==
  /\ open' = (open \ {u}) \cup ({u} \ open)
  /\ wasOpen' = wasOpen \cup open'
  /\ UNCHANGED <<vars, keys, caches, progress, wasFriends>>

-----------------------------------------------------------------------------
(* validateInteractionOrThrow of a message in a DIRECT conversation whose  *)
(* members are both users.                                                 *)

Receiver == Other(chat.user)
Refuse == chat' = NoChat
Proceed(label) == chat' = [chat EXCEPT !.pc = label]

\* A call may fail with an answer the adapter takes for "no", or with one
\* that makes the validator throw.
Fail == faults < MaxFaults /\ faults' = faults + 1

BeginChat(u) ==
  /\ chat.pc = "idle" /\ chats < MaxChats
  /\ chats' = chats + 1
  /\ chat' = [NoChat EXCEPT !.pc = "mget", !.user = u, !.ask = Users,
                            !.stood = blocks]
  /\ UNCHANGED <<vars, keys, open, caches, faults, wasOpen, wasFriends>>

\* mgetRelationship: four keys at once, or four nulls after 200 ms.
KnownFriends == friendsKey = "friends" \/ proof

ReadKeys ==
  /\ chat.pc = "mget"
  /\ \/ /\ IF blockKey # {} THEN Refuse
           ELSE chat' = [chat EXCEPT !.pc = "blocks", !.friends = KnownFriends]
        /\ UNCHANGED faults
     \/ Fail /\ Proceed("blocks")
  /\ UNCHANGED <<vars, keys, open, caches, chats, history>>

\* Mutant: the answer is not looked at, the cached keys are enough.
AskBlockInVain(u) ==
  /\ chat.pc = "blocks" /\ u \in chat.ask
  /\ chat' = [chat EXCEPT !.ask = @ \ {u},
                          !.pc = IF chat.ask = {u} THEN "privacy" ELSE @]
  /\ UNCHANGED <<vars, keys, open, caches, chats, faults, history>>

\* resolveAuthoritativeBlockStatus: one call for each direction, unordered.
\* The adapter answers FALSE for every error but unavailability.
AskBlock(u) ==
  /\ chat.pc = "blocks" /\ u \in chat.ask
  /\ LET asked == [chat EXCEPT !.ask = @ \ {u},
                               !.pc = IF chat.ask = {u} THEN "privacy" ELSE @]
     IN \/ /\ IF u \in blocks THEN Refuse ELSE chat' = asked
           /\ UNCHANGED faults
        \/ Fail /\ chat' = [asked EXCEPT !.misread = TRUE]
        \/ Fail /\ Refuse
  /\ UNCHANGED <<vars, keys, open, caches, chats, history>>

Setting(u) == IF u \in open THEN "open" ELSE "closed"

\* getReceiverPrivacy.
FetchPrivacy ==
  /\ chat.pc = "privacy" /\ privacyCache[Receiver] = "none"
  /\ \/ /\ privacyCache' = [privacyCache EXCEPT ![Receiver] = Setting(Receiver)]
        /\ UNCHANGED <<chat, faults>>
     \/ Fail /\ Refuse /\ UNCHANGED privacyCache
  /\ UNCHANGED <<vars, keys, open, relationCache, chats, history>>

ReadPrivacy ==
  /\ chat.pc = "privacy" /\ privacyCache[Receiver] # "none"
  /\ Proceed(IF privacyCache[Receiver] = "open" \/ chat.friends
             THEN "metadata" ELSE "friendship")
  /\ UNCHANGED <<vars, keys, open, caches, chats, faults, history>>

\* getFriendStatus: the blocks first, then the actor's row.
Status(u) == CASE blocks # {} -> "blocked"
               [] row[u] = "friend" -> "friend"
               [] OTHER -> "stranger"

\* resolveFriendshipForPrivacy, when neither key said friends.  An error
\* that is not unavailability reads as status NONE.
FetchStatus ==
  /\ chat.pc = "friendship" /\ relationCache = "none"
  /\ \/ relationCache' = Status(chat.user) /\ UNCHANGED <<chat, faults>>
     \/ Fail /\ relationCache' = "stranger" /\ UNCHANGED chat
     \/ Fail /\ Refuse /\ UNCHANGED relationCache
  /\ UNCHANGED <<vars, keys, open, privacyCache, chats, history>>

\* Mutant: only a block keeps a stranger out.
CheckBlocked ==
  /\ chat.pc = "friendship" /\ relationCache # "none"
  /\ IF relationCache # "blocked" THEN Proceed("metadata") ELSE Refuse
  /\ UNCHANGED <<vars, keys, open, caches, chats, faults, history>>

CheckFriendship ==
  /\ chat.pc = "friendship" /\ relationCache # "none"
  /\ IF relationCache = "friend" THEN Proceed("metadata") ELSE Refuse
  /\ UNCHANGED <<vars, keys, open, caches, chats, faults, history>>

\* buildRelationshipMetadata: a cached block still refuses, and a miss warms
\* the cache in the background.
Metadata ==
  /\ chat.pc = "metadata"
  /\ IF ~chat.friends /\ relationCache = "blocked"
     THEN Refuse /\ UNCHANGED relationCache
     ELSE /\ Proceed("admitted")
          /\ relationCache' \in IF chat.friends \/ relationCache # "none"
                                THEN {relationCache}
                                ELSE {"none", Status(chat.user)}
  /\ UNCHANGED <<vars, keys, open, privacyCache, chats, faults, history>>

\* The message goes on its way (module SendQueue).
EndChat ==
  /\ chat.pc = "admitted" /\ chat' = NoChat
  /\ UNCHANGED <<vars, keys, open, caches, chats, faults, history>>

Validate ==
  \/ \E u \in Writers : BeginChat(u)
  \/ \E u \in Users : AskBlock(u)
  \/ ReadKeys \/ FetchPrivacy \/ ReadPrivacy
  \/ FetchStatus \/ CheckFriendship \/ Metadata \/ EndChat

DNext ==
  \/ ServiceStep \/ GatewayAnswer \/ GatewayFallback
  \/ Consume \/ Expire
  \/ \E u \in Receivers : SetPrivacy(u)
  \/ Validate

DSpec == DInit /\ [][DNext]_dvars

-----------------------------------------------------------------------------
\* A message is never admitted while a block of either side has stood since
\* its validation began, although the events are late, keys
\* expire and Redis does not answer - unless a call for the block status
\* itself failed in a way the adapter takes for "not blocked".
BlockStopsMessages ==
  chat.pc = "admitted" => chat.stood = {} \/ chat.misread

\* A receiver who never let strangers write gets no message from a user
\* whose friendship was never announced and never taken for granted by the
\* gateway, whatever the caches say.
StrangersKeptOut ==
  chat.pc = "admitted" => Receiver \in wasOpen \/ wasFriends

\* The comment of FriendshipFriendsConsumer calls the tombstone of a removal the
\* primary eviction of the key.  So when every event is consumed and nothing is
\* under way, a key that says friends is about two users who are friends.
RemovalEvicts ==
  (/\ \A w \in Workers : job[w].pc = "idle"
   /\ \A t \in CachedTopics, u \in Users : inflight[t][u] = 0
   /\ blocks = {})
  => (friendsKey = "friends" => \E u \in Users : row[u] = "friend")
=============================================================================
