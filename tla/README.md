# Formal verification of the nest-zolo-backend

TLA+ models of the parts of this chat backend in which several processes work
on shared state, the TLC runs that check them, and theorems about them that the
TLA+ proof system checks. Paths are relative to the repository. `PROJECT.json`
maps every definition to the lines it models.

To check a model: `tlc -config MCOutbox.cfg MCOutbox.tla`. To check the proofs:
`tlapm OutboxProofs.tla`, and the same for `MessageStoreProofs`, `CallProofs`,
`DirectChatProofs`, `GatewayProofs`, `MessageOpsProofs`, `GroupsProofs` and
`MediaProofs`.

## 1. The system

NestJS services behind an HTTP gateway. They talk over TCP (request and reply),
Kafka (events), and Redis (caches, locks, counters, Pub/Sub). Each service has
a PostgreSQL database and may run as several instances.

| component | state it keeps | operations | talks to |
|---|---|---|---|
| `libs/database-postgres` outbox | `outbox_events` rows: status, owner, retry count, next retry | create in the writer's transaction; poll: requeue stuck, retry failed, claim, publish, mark | every service that emits events; Kafka |
| `libs/kafka` consumer registry | position in each partition | deliver, retry, route to the dead-letter topic, resolve, commit | every consumer |
| `message-store` | messages with offsets, edit history, pins; Redis reactions | store accepted and system messages; edit, delete, pin, react; queries | Kafka in and out, `conversation-service` over TCP |
| `conversation-service` | conversations with `max_offset`, members with cursors, groups, polls, appointments | offsets, cursors, membership, roles, join requests; offset sync job | Redis counters and caches, outbox |
| `call-service` | calls, participants, summaries | start, accept, decline, end, membership revoked, cleanup sweep | Redis locks and Pub/Sub, outbox, LiveKit |
| `chat-core` | a Redis list of messages to publish; rate limits | send, edit, delete, pin after validation; drain the list | Kafka |
| `friendship-service` | friendships (two rows a pair), requests, blocks | request, accept, reject, unfriend, block, unblock | outbox, cache |
| `realtime-gateway` | sockets, rooms, notification buffer in Redis | fan out saved messages and call signals | Kafka, Redis Pub/Sub |
| `presence-service` | online keys with a time to live, offline timers | online, schedule offline, activity | Redis |
| `notification-service`, `media-service`, `media-worker`, `users`, `gateway` | job queues, media rows, profiles, sessions | push, upload, transcode, profiles, HTTP | providers, MinIO, Keycloak |

A message goes: gateway -> `chat-core` (validate, `LPUSH`) -> drain -> Kafka
`message.accepted` -> `message-store` (number, store, `message.saved`) ->
`realtime-gateway` and `notification-service`. Calls, friendships and
conversations write their events into the outbox in the transaction that makes
the change, and a call's chat entry takes the same road into `message-store`.

**Hard behaviours.** Redis and PostgreSQL are updated one after the other and
either may fail; handlers read, check and write in separate statements; locks
have a time to live; Kafka delivers again after a crash or a rebalance; two
consumer groups share one counter; timers run in every instance; topics that
change one object are consumed in any order; caches without a time to live are
filled by readers that may be late. The 40 places where this bites are the
`hazards` of `PROJECT.json`.

**What makes each part correct.**

- outbox: only committed events are sent; `COMPLETED` implies sent; retries are
  bounded and counted; every row settles.
- storing messages: offsets unique and in order; announced at most once, and
  only if stored, unless two handlers were at work on it; no record lost without a trace; `max_offset` never falls and
  catches up.
- calls: over is over; one chat entry; nobody busy in a call that is over;
  nobody in two live calls of two in one conversation; no call rings for ever,
  or for callees who have all refused.
- sending: an acknowledged message is kept until it is published, and every
  other member of the conversation comes to know of it.
- friendships: friends have both agreed. Direct chats: a standing block stops messages, strangers stay out.
- operations on messages: the original content is kept, the pin limit holds,
  clients and database agree, the cached list of pins is not stale for ever.
- groups: the member count recovers, a rejected user stays out, the cached
  members are members.
- presence: whoever is connected is online, one tab a login among those of a day,
  who has gone is shown as gone.
- media: READY is complete, DELETED leaves no original, what FAILED is tried
  again once the recovery job gets to it, and PROCESSING ends unless a crash or a
  lost write has left it to nobody.

## 2. Modules

| module | models |
|---|---|
| `OutboxContract` | what an outbox promises: `written`, `sent`, `done` |
| `Outbox` | `OutboxRepository`, `OutboxProcessor`, statement by statement |
| `OutboxProofs` | the theorems about `Outbox` |
| `MessageStore` | consumer registry, both storing consumers, offset counter, `OffsetSyncJob` |
| `MessageStoreProofs` | the theorems about `MessageStore` |
| `Call` | `CallOrchestrationService`, `CallCleanupService`, `CallRepository`, `CallLockService` |
| `CallProofs` | the theorems about `Call` |
| `Friendship` | `FriendshipService` for one pair of users |
| `DirectChat` | EXTENDS `Friendship`: the consumers that cache its events in chat-core, and `InteractionValidatorService` for a direct chat |
| `DirectChatProofs` | the theorems about `Friendship` and `DirectChat` |
| `SendQueue` | `ChatCoreService.sendMessage`, `MessageSendOrchestrator`, the Redis list and its drain |
| `Delivery` | EXTENDS `SendQueue`: message-store's part in a step, and `MessageSavedConsumer` of the gateway |
| `Reactions` | `reactToMessage`, `ReactionSyncJob` |
| `MessageOps` | EXTENDS `Reactions`: the orchestrators of chat-core, `MessageOperationConsumer`, pins and their cached list, `MessageUpdatedConsumer` |
| `MessageOpsProofs` | the theorems about `MessageOps` |
| `Groups` | members, roles, count and join requests of a group: `ConversationService`, `GroupMemberService`, `GroupJoinRequestService` |
| `GroupCache` | EXTENDS `Groups`: everybody who writes the Redis set of members |
| `GroupsProofs` | the theorems about `Groups` and `GroupCache` |
| `Media` | `MediaService`, `MediaEventsConsumer`, `ProcessingJobService`, `MediaProcessorService`, `MediaRecoveryService` |
| `MediaProofs` | the theorems about `Media` |
| `Presence` | the sockets of a user: `ChatGateway`, `WsSessionService`, `SoftLimitService`, `PresenceManager`, and `presence-service` |
| `GatewayProofs` | the theorems about `Presence`, `SendQueue` and `Delivery` |
| `MC...` | constants for TLC; `MCMessageOps` composes `MessageOps` and `Presence` |

**Outbox.** `status`, `lockedBy`, `retryCount` are the row; `aged` says that the
time of `next_retry_at` (of a `FAILED` row) or `processingTimeoutMs` (of a
`PROCESSING` one) has passed; `batch`, `cur` and `memRetry` are what a processor
has in memory. A pass is the sequence of `processOutboxEvents`: `RequeueStuck`,
`RetryFailed`, then the claim as the code really makes it, an autocommitted
`SELECT ... FOR UPDATE SKIP LOCKED` (`SelectPending`), an `UPDATE` by id
(`ClaimRows`) and a fetch (`FetchRows`), then one publish and one mark for each
event. Publishing may fail before or after Kafka took the event. `delivered`
counts copies in Kafka: none, one, more.

**MessageStore.** One conversation. A handler's steps are its calls: existence
check, Lua `INCR` if the key exists, TCP `incrementMaxOffset`, `SET NX`, save,
dirty mark, publish. For an accepted message the save is TypeORM's `save()` of an
entity that has its id (`abstract.repository.ts:18`): a `SELECT` (`LookUp`), then
an `INSERT` (`Store`) or an `UPDATE` (`Overwrite`). A system message is inserted
together with its outbox row. Every call may throw; the registry retries and then
routes to the dead-letter topic, or only logs if that fails too. A rebalance or
crash redelivers from the committed offset while the old handler runs on; Redis
may lose its keys. `overtaken` is history: the messages a handler had still to
store when its partition was moved.

**Call.** A worker is a request, a Kafka record or a cleanup timer. Its steps
are: taking a lock, reading the row, the transaction, the published signal,
giving the lock back. `Allowed` holds the check each operation makes on the row
it reads, and `Finish` the common transaction. `startCall` looks at each callee
and then the caller (`Look`), expires what is stale on the way, and inserts
(`Create`, `BusyMissed`) under the lock of the conversation. The sweep lists and
then works call by call. Whether a LiveKit room is empty is a free choice. `age`
is the ringing timeout and the longest duration, in that order. A dead worker's
locks stay until `LockExpires`.

Requests come from anybody: the handlers of `declineCall` and `endCall` do not
look at who asks. The callees of a start are any users: the list is the
client's, and the access check looks at the caller only. A list that names a
user twice is taken as naming the user once. Calls are numbered by `startedAt`.
The list of `expireStuckRingingCalls` is filtered when it is read.

**Friendship, DirectChat.** A worker is a handler of friendship-service; its
steps are the autocommitted checks (`...Check`, `Send...`) and the statements of a
transaction (`...Script`), as PostgreSQL runs them under READ COMMITTED.
`job[w].own` is what the transaction has written and keeps locked until `Commit`
or `Abort`. A `DELETE` or `UPDATE` (`ChangeRows`) waits for the rows it finds and
takes no lock where it finds none; an `INSERT` (`InsertRow`) waits for whoever has
a row of its key under way and fails when the key is taken; `save()` of a block
looks first (`SeekRow`). `Misses` is the statement that waits for a row which is
deleted and inserted anew, and finds neither. `inflight` counts the committed outbox events of a pair, which the
consumers take in any order and possibly again. `DirectChat` adds the gateway's
proof key, the friend and block keys in Redis, the privacy settings with their
in-process cache, and one message a user tries to send: its checks are the
steps of `validateInteractionOrThrow`, each with its cache, its call and what
the code does when the call fails. `getFriendStatus`, three reads in a row, is
one step.

**SendQueue, Delivery.** A request passes the idempotency guard, the validators
(one step that may refuse), `LPUSH` and the answer. Every instance's timer pops
a batch, publishes its messages concurrently and puts back what was rejected.
`lost` and `dropped` are history: what a crash or an unanswered Redis command
took. `Delivery` keeps of message-store what `MessageStore` says of it (stored
and numbered once, announced at most once, as it is while the partition stays where
it is), and models the buffer of
`MessageSavedConsumer`: one key per conversation, overwritten by each message,
taken with `GETDEL` by whichever timer comes first.

**Reactions, MessageOps.** Each operation has a topic, whose events are handled
one at a time and in order, and independently of other topics. `asked` holds
what an orchestrator has read and not yet published. A handler's steps are its
statements; a call that throws makes the registry start it again or route the
event to the dead-letter topic; a rebalance leaves the old handler running
(`zombie`). `reader` is a `getPinnedMessages` between its query and its `SET`.
`shown` is the state of a client that has applied all patches.

**Groups, GroupCache.** A call has one target. Its steps are the reads, the
writes of its transaction together with the count, and the commit; row locks
make others wait (`Locked`, `Reviewing`). `CountBy` is the query each operation
counts with. `GroupCache` adds the set of members: written by handlers after
their commit, by `createConversation` (a write under way in `GInit`), by the
consumers of `member.added` and `member.removed`, by message-store after each
message (`Replace`), and by those who looked members up, one or all, whether the
set is there or not (`LookUp`, `Warm`): the validators, and the gateway when a
user joins a conversation's room. The role keys are left out.

**Media.** One object. `call` holds what a handler of media-service does next,
`run` what a job's run does next, `job` and `entry` the objects in a worker's
memory, `recovery` the cron job. No write of the row is conditional, and the
model writes what the handler decided on earlier. The cron job's query takes
fifty rows in no order; other objects are not modelled, so a scan simply need not
find this one, and `FailedIsRetried` is about behaviours in which it does in the
end (`ScanFindsIt`). `stray` says how an original may be left behind, `stranded`
that nobody is left who would end PROCESSING.

**Presence.** The sockets of one user on several instances. `auth` is the next
call of `handleAuthenticate` of a socket, `leaving` the handlers of sockets that
disconnected, missed their heartbeat or were revoked. `registered` is the Redis
set of connections, which heartbeats keep alive, and `described` says whose
`socket-info` hash exists, by which other tabs are found; which tab is the oldest is a free choice, because
`connectedAt` is the clock of each socket's own instance. `offline` holds the broadcast
timers of an instance: the one its map knows, and those it has forgotten, which
nobody can cancel; `announcing` are callbacks that have found nobody connected
and are about to say so. `status` is the key of presence-service, `goodbye` a
`DEL` of it that is under way. A timer that is set may fire at any time, so that
no two durations are compared; the heartbeat timer of a mobile socket may fire
while the socket is connected or registered.

## 3. Runs

| run | bounds | shows |
|---|---|---|
| `outbox_two_instances` | 2 rows, 2 processors, 1 retry, 1 fault, batches of 1 | `CompletedWasDelivered`, `OwnedCopyIsFresh`, `ImplementsContract`, `EventuallySettled` |
| `outbox_single` | 3 rows, 1 processor, 2 retries, 2 faults, batches of 2 | `DuplicateOnlyAfterFailure`, `RetryCountNeverFalls` |
| `store_replicas` | 2 replicas, one partition of 2 records, 3 faults, a Redis loss | `AnnouncedIsStored`, `AnnouncedAtMostOnce`, `PassedIsAccountedFor` |
| `store_system` | 1 replica, 3 system events, one poisoned, the sync job, 1 fault, a Redis loss | `OffsetsFollowLog`, `CounterCoversDb`, `EveryRecordPassed` |
| `call_direct` | 2 calls of a conversation, from alice to bob or from bob to carol, 2 handlers, no fault | `OneHistoryEntry`, `OverMeansLeft`, `NobodyInTwoCalls`, `TerminalIsFinal` |
| `call_group` | 1 group call of three, 1 handler, 1 cleanup timer, 1 fault | `RingsForSomebody`, `EndIsShown`, `RingingEnds`, `TerminalIsFinal` |
| `direct_chat` | 2 handlers, 2 requests of the pair, or 1 and a failing call, 1 message | `FriendsAreWilling`, `BlockStopsMessages`, `StrangersKeptOut` |
| `friend_eviction` | 1 handler, 1 request | `RemovalEvicts` **violated** |
| `delivery` | 2 messages of 2 members, a third who reads, 2 instances each of chat-core and gateway, 2 requests, 1 fault | `AckedIsOnItsWay`, `AckedBecomesKnown` |
| `message_ops` | 2 messages, 2 requests, 1 pin, 2 replicas with the job, 2 faults; 2 mobile sockets of one login on 2 gateways, 1 mishap | `OriginalKept`, `PinLimitKept`, `PinnedListFresh`, `ClientsCatchUp`, `UnsyncedIsDirty`; `ConnectedIsKnown`, `OneTab`, `GoneIsShown` |
| `groups` | 2 users, 2 handlers, 3 calls, 2 conversations in the count of an approval, 1 failing removal | `CountSettles`, `RejectedStaysOut`, `CachedAreMembers` |
| `media` | 1 object, 2 requests, 1 worker with 2 jobs in memory, 2 attempts, 1 fault | `ReadyIsComplete`, `DeletedLeavesNoOriginal`, `FailedIsRetried`, `ProcessingEnds` |

*Why these bounds.* The races need two actors and one object; the second object
is there where an operation works on a batch, takes the oldest, or where one
object must not be blocked by another. One fault is one lost step anywhere; two
or more are taken where retries are counted. `BatchSize`, `MaxRetries`,
`MaxAttempts`, `MaxPerTick`, `MaxPins` are parameters of the code at small
values; `MaxFaults`, `MaxLosses`, `MaxExpiries`, `MaxMishaps`, `MaxJobs`, `MaxRequests` and
`MaxCalls` are bounds of the model only. `Calls` of `Call` bounds how many calls
are ever started: a start is only taken up while one is left. Two requests of a
pair start from strangers, friends or a pending request, so the second meets
every state the first can leave behind, with each of its checks before and after
each statement of the other; three calls on a group are an addition, a removal and
a review. The symmetry used permutes handlers or replicas and only in runs
without liveness.

`message_ops` checks two of the protocols that decide what clients are shown,
the changes of a message and the presence of a user. They share no state, so its
next-state relation moves one of them and leaves the other at its start: the
product would only multiply the states. Two sockets are enough for a disconnect
to meet an authentication, on one instance or two, with each of the timers; for
two tabs that choose the same victim a third would be needed, and `OneTab`
excludes that case by name. It holds for any number of sockets (section 5).

Deadlock is checked for `Outbox` and `Call`; the other models stop when their
requests are used up, so their configurations switch the check off.

Properties name their exceptions. Each is a history variable or a condition that
only an action listed in its comment sets (`lost`, `dropped`, `raced`, `ghosts`,
`unsafe`, `listUnsafe`, `overlapped`, `gaveUp`, `stray`, `stranded`, `countOk`, `excuses`): what remains
is what the code does ensure, and the exceptions are what it does not. The
observations below say what they mean.

### What the violated run says

`friend_eviction`: the compare-and-set of `friendship-friends.consumer.ts`
should order events by the broker's append time (`:24`), but the registry hands
handlers the parsed payload, whose `timestamp` is an ISO date; `parseInt` leaves
the year. All stamps of a year are equal, equal stamps do not win, and after an
unfriend the cache says "friends" until its 30 days are over. The models take
the stamp as the code computes it; `StrangersKeptOut` therefore counts such a
key among the ways a stranger is let in.

### Observations without a run

Sending and storing:

- The claim of the outbox is not exclusive: its row locks end with its `SELECT`,
  so "prevents duplicate processing by multiple instances"
  (`outbox.repository.ts:172`) does not hold. A late `UPDATE` of a claim even
  reopens a completed row, and a row may be tried more than `max_retries` times.
- A row at `max_retries` stays `FAILED`, although
  `docs/services/friendship-service.md:252` promises at-least-once delivery; a
  retried event follows younger ones of its key, although `README.md:228` speaks
  of FIFO.
- Two cold starts in the two consumer groups of message-store leave the counter
  behind the second offset, which is then given out again
  (`message.entity.ts:43`: "Unique within each conversation").
- Two handlers of one message, after a rebalance that finds it not stored yet,
  both pass the existence check, both save and both publish `message.saved`, with
  different offsets. The later `save()` is an `UPDATE`: the announced offset of
  the first is no longer the stored one, and an edit made in between is undone.
  "Skipping duplicate (race condition)" (`message-accepted.consumer.ts:228`) is
  reached only if the row appears between the `SELECT` and the `INSERT`.
- A publish of `message.saved` that fails after the insert is not made up for:
  the retry returns at the existence check (`message-accepted.consumer.ts:119`).
- `SREM` after `GET` and `UPDATE` in the offset sync job loses the mark of a
  message numbered in between; the same shape is in the reaction job.
- A Redis restart before the sync job ran seeds the counter below used offsets;
  `OffsetsFollowLog` and `CounterCoversDb` are stated for runs without a loss.
- The send queue is a stack: `LPUSH` and `LPOP`, while
  `docs/services/chat-core.md:140` says `RPUSH`/`LPOP`; the producer is created
  with `idempotent: false`, while the comment at
  `message-send.orchestrator.ts:508` relies on the opposite.
- Members who wrote within the window of a burst are not notified of what others
  wrote before them in it.

Calls:

- The caller's busy check runs under the lock of the conversation only;
  `withUserLock` exists and is not called. Two starts of one user in two
  conversations both insert.
- The callees come from the client (`call.controller.ts:40`) and are compared
  with nothing (`call-access.service.ts:52`): a direct conversation can have two
  live calls at once, of different pairs, a call can name users who are not
  members, and one started with an empty list rings for nobody until the
  cleanup. `NobodyInTwoCalls` therefore speaks of users, and
  `RingsForSomebody` of calls that have callees.
- `acceptCall` does not ask whether the user is busy: who has declined a group
  call, and is in another call now, can join the first after all.
- `declineCall` and then `acceptCall` of the same callee succeeds; the comment
  at `call-orchestration.service.ts:196` says it is checked,
  `call.repository.ts:171` that it is safe.
- A lost membership ends a ringing call of the conversation and returns; an
  active one goes on.
- The ringing signal may follow the end of the call, and an accepted call nobody
  has joined yet may be ended as a ghost.
- With an expiring lock (`MaxExpiries = 1`) `NobodyInTwoCalls` fails: locks are
  neither renewed nor fenced. The default time to live is two minutes.

Friendships, groups, messages, media:

- Statements that match no row do not wait for each other, so the tables of a
  pair can part. An accept passes its check; a cancellation of the other side
  commits; the accept's two `UPDATE`s match nothing; a new request is sent; the
  accept's `DELETE` (`friendship.service.ts:202`) takes its `friend_requests` row.
  A request is then pending that its receiver does not find in the table the
  entity calls "SOURCE OF TRUTH for pending friend requests"
  (`friend-request.entity.ts:18`). Three requests are needed, one more than the
  run has; the checked and proved `FriendsAreWilling` does not depend on it.
- An accept whose row was meanwhile blocked turns the `BLOCKED` row into a
  one-sided friendship while the `blocks` row stays; an unfriend that comes late
  deletes the `BLOCKED` row; a block that overlaps an unblock of the same user
  leaves the `BLOCKED` row without a `blocks` row. Only `blocks` is asked.
- The topics of blocking and unblocking are consumed independently; reversed,
  the cached block stays until it expires. Calls ask only that cache.
- Approving a join request counts a cross join: `reviewJoinRequest` adds a
  `.from()` to the query builder of another repository
  (`group-join-request.service.ts:196`), so the count is that of the members times
  the number of conversations. `CountSettles` therefore leaves an approval out,
  as it does transactions that overlap; the next addition or removal that is
  alone counts right.
- Overlapping transactions on a group leave a wrong `member_count` until the
  next one. A kick and a disbanded group leave the Redis set alone. A set that a
  look-up has created holds one member, and call-service refuses the others.
- A revoke publishes the `conversationId` of the request
  (`message-revoke.orchestrator.ts:56`, `:139`), not the one of the message it has
  fetched: with another id the patch reaches the members of that conversation
  instead. The model takes requests that name the message's conversation.
- Pin and unpin are two topics: the later request may lose. Edits with metadata
  erase reactions. The list of pins has no time to live.
- media-worker does not look at `DELETED`: a job queued before a deletion makes
  the media READY again, against "Terminal States"
  (`media-service/src/domain/constants/media.constants.ts`). `media.failed` is
  published on every attempt, not once.
- The same comment says "FAILED: No automatic recovery" (`:61`) and forbids
  transitions from FAILED (`:65`); `findStuckMedia` asks for FAILED rows ("These
  items need to be retried") and the recovery job puts them to work again, every
  time it comes round and for ever. Its query has `.limit(50)` and no order
  (`media.repository.ts:82`): fifty objects that fail for ever starve the rest.
- Media left in PROCESSING by a crash is found and enqueued at every scan, and
  skipped every time: the new job's first attempt takes PROCESSING for another
  worker's (`media-processor.service.ts:68`) and completes. `ProcessingEnds`
  names this case (`stranded`).
- `abortMultipartUpload` looks neither at the media's status nor at the session,
  which stays open: an abort after the completion writes DELETED and leaves the
  file, unless MinIO refuses it. `DeletedLeavesNoOriginal` names it (`stray`).
- The variants of an image are never deleted (`thumbKey` is never set).

Presence:

- The `socket-info` hash and the set of a platform's sockets live 24 hours, and
  nothing refreshes them (`connection.manager.ts:45`, `:56`; heartbeats refresh
  `ws:user:{id}:sockets` only, `:457`), while a session of
  `keycloak-realm-config.json` lasts 72 hours and a connected socket is not
  validated again. A second tab opened after a day finds no victim, and both stay:
  `OneTab` is about the tabs whose hash exists. A token without `sid` is compared
  with every socket of the platform, of other logins too.
- `enforcePlatformLimit` runs after the registration, so two tabs of a login
  that authenticate at once each find and evict the other.
- A mobile socket whose heartbeat is late is unregistered but not disconnected,
  and never registered again: the user may chat while shown as offline. The
  callback of that timer has no `catch`.
- An authenticate handler that outlives its socket registers it; nothing removes
  the entry, and the user is never announced as offline.
- A `SET_ONLINE` that overtakes an offline broadcast or a `DEL` of the status
  leaves a connected user offline.
- `forceDisconnectUser` (`chat.gateway.ts`) disconnects every socket in the room
  `user:{id}`, which friends of the user also join.

## 4. Fairness

- `Outbox`: a live process's timers fire and its statements return
  (`setInterval` in `onModuleInit`), a crashed instance is restarted (the
  orchestrator), time passes. Nothing makes a publish succeed: a row may settle
  as `FAILED`.
- `MessageStore`: handlers and the job run on, the consumer commits. Faults are
  finite.
- `Call`: handlers run to their end, cleanup timers fire (`onModuleInit`), time
  passes, a dead holder's lock expires. Getting the lock of a call is strongly
  fair: the waiter polls every 100 ms, so it meets a lock that is free again
  and again. `RingingEnds` assumes besides that a sweep's wait does not time out
  for ever; with requests hammering one call the code cannot promise more.

- `Delivery`: handlers, timers of both services and message-store run on, and
  Redis expires a key whose timers are all dead. No failing step is fair.
- `Media`: the runs of a job and the recovery job go on (each call returns or
  throws), the poll and the retry timers fire. A retry is strongly fair, because
  the `p-queue` it waits in is first in, first out. Nothing is owed by the client,
  media-service or Kafka. That the cron job (`@Cron` in
  `media-recovery.service.ts`) gets to the object is the premise of
  `FailedIsRetried`. No call that may fail owes an outcome: `ProcessingEnds` lets
  the job end as `FAILED`.
- `Presence` has safety properties only: `GoneIsShown` and `ConnectedIsKnown`
  speak of states in which no handler runs, which is where all handlers end.

No fairness is assumed for users, for faults, or for the choice LiveKit makes.

## 5. Proofs

Every theorem is for arbitrary sets of objects and actors, infinite ones
included where the module does not assume otherwise, and arbitrary bounds; the
assumptions are those stated beside the constants of each module. The safety
properties of a module are reached from an inductive invariant, looked at with
TLC on a small instance and then proved step by step: one lemma for each part of
the invariant, one step in it for each action that can disturb the part.

**`OutboxProofs`.**

| theorem | statement |
|---|---|
| `OutboxTypeCorrect` | `Spec => []TypeOK` |
| `OutboxCompletedWasDelivered` | `Spec => []CompletedWasDelivered` |
| `OutboxOwnedCopyIsFresh` | `Spec => []OwnedCopyIsFresh` |
| `OutboxRetryCountNeverFalls` | `Spec => RetryCountNeverFalls` |
| `OutboxImplementsContract` | `Spec => ImplementsContract` |
| `OutboxDuplicateOnlyAfterFailure` | `Spec => []DuplicateOnlyAfterFailure`, if there is one processor |

`CompletedWasDelivered` is not inductive: the step that completes a row is taken
by a processor that has published it *earlier*, possibly before it lost the row.
So `OutboxInv` says of every processor about to mark an event completed that
Kafka has it (`MarkedWasDelivered`), and, for the contract, that whatever a
processor holds has been written (`HeldIsWritten`); both need to know what its
memory holds at each label (`MemoryFollowsLabel`). `OwnedCopyIsFresh` is
inductive with the type: the retry count of a row changes only in `MarkFailed`
by its owner, which gives the row up in the same statement, and an owner that
loses the row regains it only by a claim of its own.

`DuplicateOnlyAfterFailure` is about a single instance (`Procs = {p}`, as in its
run); two publish the same event without any failure. `SoleInv` says that
without a fault the rows in `PROCESSING` are those the processor holds
(`RowsInHand`), so that none is requeued, and it accounts for the first copy of
an event in Kafka (`CopyAccounted`): the row is completed, about to be, or has
seen a failure.

**`MessageStoreProofs`.**

| theorem | statement |
|---|---|
| `StoreTypeCorrect` | `Spec => []TypeOK` |
| `StoreAnnouncedIsStored` | `Spec => []AnnouncedIsStored` |
| `StoreAnnouncedAtMostOnce` | `Spec => []AnnouncedAtMostOnce` |
| `StorePassedIsAccountedFor` | `Spec => []PassedIsAccountedFor` |
| `StoreOffsetsFollowLog` | `Spec => []OffsetsFollowLog`, if `OneConsumer` |
| `StoreCounterCoversDb` | `Spec => []CounterCoversDb`, if `OneConsumer` |

None of the first three properties is inductive: which handler announces was decided
by a save several calls earlier, and a record is passed in a later step than
the one that stored it. `StoreInv` says that a handler at work on a message not
stored yet owns its partition, or the message is among the `overtaken`
(`LostAreOvertaken`), so that there is one such handler (`SoleHandler`). Unless
the message is contested in this way, who is about to number or insert it finds
it missing (`NumberingIsMissing`), who goes on to announce it has stored it at
its offset (`AnnouncerHasStored`), and there is one announcer and nothing
announced yet (`AnnouncerIsAlone`). It says further that a system message and its
outbox row appear together (`StoredWithOutboxRow`), and that a handler that is
done leaves its record accounted for (`DoneIsAccounted`). What is stored or put aside stays so (`NothingVanishes`), and
a consumer moves on only past the record of a handler that is done
(`NextMoves`): a rebalance only moves it back.

The last two hold for one replica that reads one partition (`OneConsumer`) and
while Redis keeps its keys; with two consumer groups they are false (section 3).
`SoleInv`: the record under way is the next of its partition (`RecordIsNext`),
so what is stored has all records before it stored or put aside
(`StoredAfterAccounted`); the counter, once cached, is the greatest number in
the system, what the sync job has read included (`CounterIsGreatest`); and a
handler about to insert has a number above all that are stored (`NumberIsNew`).

**`CallProofs`.** Each theorem assumes `MaxExpiries = 0`: no lock expires under
a handler that still runs. The locks of dead handlers do expire.

| theorem | statement |
|---|---|
| `CallTerminalIsFinal` | `Spec => TerminalIsFinal` |
| `CallOneHistoryEntry` | `Spec => []OneHistoryEntry` |
| `CallOverMeansLeft` | `Spec => []OverMeansLeft` |
| `CallNobodyInTwoCalls` | `Spec => []NobodyInTwoCalls` |
| `CallRingsForSomebody` | `Spec => []RingsForSomebody` |
| `CallEndIsShown` | `Spec => []EndIsShown` |

Everything rests on `LockInv`: from its read on, a handler holds the lock of its
call (`CallsLocked`), so the row is still what it has read (`RowsFresh`); a start
holds the lock of its conversation (`StartsLocked`), and there is an identifier
left for every start under way (`RoomForStarts`, a fact of the bound `Calls`).
`TerminalIsFinal`, `OneHistoryEntry` and `OverMeansLeft` follow step by step.
For `NobodyInTwoCalls`, nobody is out of a call of two while it is live
(`PairsComplete`), so whoever is found not busy has no part in one, and that
remains true in the conversation whose lock the start holds, up to the insert
(`FoundFree`, `FreeStays`). For `RingsForSomebody` and `EndIsShown`, an
intermediate state has a handler about to settle it (`RingingOpen`,
`EndComing`), which without a fault it does. The assumptions are finite sets of
calls and workers; nothing is assumed of who calls whom.

**`DirectChatProofs`.**

| theorem | statement |
|---|---|
| `FriendshipTypeCorrect` | `Spec => []FriendshipTypeOK` |
| `FriendshipFriendsAreWilling` | `Spec => []FriendsAreWilling` |
| `DirectChatFriendsAreWilling` | `DSpec => []FriendsAreWilling` |
| `DirectChatBlockStopsMessages` | `DSpec => []BlockStopsMessages` |
| `DirectChatStrangersKeptOut` | `DSpec => []StrangersKeptOut` |

`FriendshipInv` adds to the properties that whoever has asked was willing
(`AskedIsWilling`), and of each handler (`JobOK`) that its accept was of a request
and that only a send writes an incoming request, and an accept a friend
(`ScriptFacts` says so of each statement of each transaction). `DirectChat` shares the rows with `Friendship`; its steps are
shown to be steps of `Friendship` or to leave the rows alone, so the invariant
carries over. For `BlockStopsMessages`, the blocks that stood when a message's
checks began still stand (`StoodStand`), because `stood` loses what is
unblocked, and a check that has been passed saw no such block
(`AskedHaveEnded`). For `StrangersKeptOut`, every cached key, event under way
and step of a validation that speaks of friends goes back to a friendship that
was announced or presumed (`FriendsGoBack`), every "open" setting to one the
receiver once had (`OpenGoesBack`), and every admission to one of the two
(`AdmittedGoesBack`).

**`GatewayProofs`.**

| theorem | statement |
|---|---|
| `PresenceConnectedIsKnown` | `PresenceSpec => []ConnectedIsKnown` |
| `PresenceOneTab` | `PresenceSpec => []OneTab` |
| `PresenceGoneIsShown` | `PresenceSpec => []GoneIsShown` |
| `SendAckedIsKept` | `Spec => []AckedIsKept` |
| `DeliveryAckedIsOnItsWay` | `Spec => []AckedIsOnItsWay` |

The properties of `Presence` speak of states in which no handler runs; its
invariant says what the handlers that do run still owe. `ConnectedIsKnown`: as
long as the status exists, friends have been told or are about to be
(`StatusShown`), and no timer or `DEL` outlives a socket that has set it
(`StatusKept`). `GoneIsShown`: while friends see the user online there is a
socket, a handler or a timer that leads to an offline broadcast
(`PartingAhead`), since whoever is registered will be unregistered
(`RegisteredLeave`). `OneTab`: of the tabs of a session that nobody is about to
evict, there is at most one more than handlers that will still evict one
(`TabsCounted`); that handlers only go forward and nobody evicts a socket that
has not registered is `TabsInOrder`. The proof of `OneTab` failed at first, and
three sockets showed TLC why: a handler that fails after its registration and
before it has unregistered its victim leaves two tabs. This exception is now in
the property's `excuses` beside the common victim. The hash of a tab that expires
(`InfoExpires`) only makes fewer tabs, so the count stays right for those left.

`AckedIsKept` is a part of `KeptInv`: besides what a client was told of, every
message whose idempotency key is set, and every message about to be answered,
is in the list, in a batch, in Kafka or among the `lost`. No step of a request
takes anything away (`AskingKeeps`), and whatever a step of a tick takes from
the list or its batch it hands on (`Handed`, with one lemma a step: `PopHands`,
`PopUnansweredHands`, `PublishHands`, `EndTickHands`, `CrashHands`). What a requeue puts back is the
set of what failed (`ItemsAtPlaces`, from facts on cardinalities;
`SequenceSets`, `MessagesJoined` and `SequenceParts` are about what sequences
contain). The theorem is about `Delivery`, whose other steps only read the
partition (`DeliveryStep`).

`AckedIsOnItsWay` follows the message on to the other members; it is what
`AckedBecomesKnown` promises, without the fairness that moves it.
`StoredIsAnnounced` says of every offset and member that the member has been
told, or that the offset waits in `message.saved`, or it or a later one in the
buffer or in a callback. The step that could break it is the one that overwrites
the buffer: it is sound because `message.saved` has the offsets in order
(`SavedInOrder`) and all of them but the dropped ones (`StoredIsSaved`), so what
was in the buffer is smaller than the new offset or still to be read again. It
may be read again because several crashes take the group's position back more
than one record; the run has one fault, the theorem any number. `ReadIsStored`
joins the two halves.

**`MediaProofs`.**

| theorem | statement |
|---|---|
| `MediaTypeCorrect` | `Spec => []MediaTypeOK` |
| `MediaReadyIsComplete` | `FairSpec => []ReadyIsComplete` |
| `MediaDeletedLeavesNoOriginal` | `FairSpec => []DeletedLeavesNoOriginal` |

A run that saves READY has uploaded the variants before (`SavedAfterUpload`),
whichever other runs of the job there are. A deletion erases the object in an
earlier step than the one that writes the row, so the invariant follows the
handler: an abort knows of the file it leaves, and no upload follows it
(`AbortedIsOver`), and between the erasing and the row's write nothing came back
but what the client put there late (`ErasedIsGone`).

**`GroupsProofs`.**

| theorem | statement |
|---|---|
| `GroupCountSettles` | `GSpec => []CountSettles` |
| `GroupRejectedStaysOut` | `GSpec => []RejectedStaysOut` |
| `GroupCachedAreMembers` | `GSpec => []CachedAreMembers` |

`GroupInv`: the rows a transaction will write fit its operation (`PutsFit`),
row locks exclude each other (`LocksExclude`), a transaction that is alone has
counted right (`AloneCounts`), and a user with a pending or rejected request has
no membership except where the property says so (`AskersAreOut`). `CacheInv`:
whoever is in the Redis set is a member, a named exception, or will be taken
out by an event that is coming (`CachedExplained`); it is kept by three facts
about the writers' memory: who is about to be added is a member (`AddersKnow`),
what the events say (`EventsKnow`), and what a reader has read and nobody changed
since (`ReaderKnows`).

**`MessageOpsProofs`.**

| theorem | statement |
|---|---|
| `OpsOriginalKept` | `Spec => []OriginalKept` |
| `OpsPinLimitKept` | `Spec => []PinLimitKept` |
| `OpsPinnedListFresh` | `Spec => []PinnedListFresh` |
| `OpsUnsyncedIsDirty` | `Spec => []UnsyncedIsDirty` |
| `OpsClientsCatchUp` | `Spec => []ClientsCatchUp` |

`OriginalInv`: a message's history, once begun, begins with its first content,
and a handler past its read has what the row had. `PinInv`: without a zombie
there is one handler of a pin (`PinAlone`), so the number it counted still holds
when it inserts. `ListInv`: a cached list that differs from the table has an
eviction coming, and a reader's copy is the table's or marked. `ReactInv`:
reactions in the hash are those in the table, unless the message is about to be
marked or is one of the named races.

`ClientsCatchUp` is about states in which a topic is settled, and `CatchUpInv`
follows it there: unless a rebalance has overlapped them, the handlers of a
topic are one after the other (`SerialInv`), so the text in PostgreSQL and the
text clients show are no older than that of any edit passed (`EditInv`), and a
flag that is set was asked for and has been shown once its event is passed
(`FlagInv`). `LatestKept` is the step from one event to the next, `TopicView`
what every other step leaves alone.

**Model-checked only**: liveness (`EventuallySettled`, `EveryRecordPassed`,
`RingingEnds`, `AckedBecomesKnown`, `FailedIsRetried`, `ProcessingEnds`), since
the prover has neither fairness nor `ENABLED`. Every safety property that a
passing run checks has a theorem. None of the modules uses a recursive operator.

## 6. Not modelled, and the plan

Each component's status and reason is in `PROJECT.json`. In this order:

1. An abstract queue, at least once and without order, that `SendQueue`
   implements.
2. Forwarding, the role keys and `changeMemberRole`, the windows of the rate
   limiter, polls and appointments, login sessions.

Out of reach or without a decision of their own: `users` and
`notification-service` (rows of their own, a queue whose logic is a library's),
the HTTP facade, queries, DTOs, configuration, and pure I/O (push, transcoding,
storage, Keycloak).
