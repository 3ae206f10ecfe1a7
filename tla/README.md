# Formal model of Directus' shared state

TLA+ modules, TLC configurations and TLAPS proofs for the parts of this
repository where several processes and many unfinished asynchronous handlers
share state. The repository is a data platform (a Node API in `api/`, a Vue
studio in `app/`, an SDK in `sdk/`, libraries in `packages/`). Most of it turns
requests into SQL; the control that is hard to get right is in a few places:
real-time collaboration, `api/src/websocket/collab/`, the OAuth server for MCP clients,
the refresh of sessions, the schema cache, and the login of WebSocket connections.

Paths below are relative to the repository.

## 1. Inventory

| Component | State | Operations | What is hard |
|---|---|---|---|
| Rooms, `collab/room.ts` | per room in Redis: metadata keys, `changes`, `clients`, `focuses`; per process: `RoomManager.rooms`, `initialChanges`, the `roomDefaults` object | `createRoom`, `getRoom`, `join`, `leave`, `update`, `unset`, `discard`, `focus`, `close`, `cleanupRooms`, item event handlers | every handler is a chain of short locked transactions with awaits in between, on several nodes; local objects outlive the room in Redis |
| Handlers and jobs, `collab/collab.ts` | event queue, the two jobs | `onJoin` ... `onDiscard`, bus handler, cron job, interval job | one client's messages are not serialized; `onLeave` of a lost connection races its own `onJoin` |
| Registry, `collab/messenger.ts` | `instances` in Redis; `clients` and `roomListeners` per process | register, `addClient`, `removeClient`, `registerRoom`, `unregisterRoom`, `pruneDeadInstances`, ping and pong | crashes, time-outs, transactions nobody awaits |
| Store, `utils/store.ts`, `packages/memory` | Redis keys and a lock per namespace | `store(callback)` | atomic, but not in order; reads fall back to shared objects |
| Permission cache, `collab/permissions-cache.ts`, `collab/verify-permissions.ts` | LRU map, tags, timers, counter of invalidations | `get`, `set`, `handleInvalidation`, expiry, `verifyPermissions` | an answer computed across awaits is cached while what it depends on changes |
| MCP OAuth, `services/mcp-oauth/index.ts` | codes, grants, sessions, clients in the database | decision, code exchange, refresh with rotation, reuse detection, revocation, cleanup | concurrent transactions with row locks, deadlocks and restarts; a job that deletes between them |
| Sessions, `services/authentication.ts`, `sdk/src/auth/composable.ts` | sessions with `next_token`, the SDK's tokens and timer | refresh, logout | concurrent refreshes, the grace period, a crash between update and insert |
| Schema cache, `utils/get-schema.ts`, `cache.ts` | a counter as a lock, a cache per process | `getSchema`, clear | electing one reader, waiting for its result, clearing during a read |
| Scheduling, `utils/schedule.ts`, `synchronization.ts` | a clock key in Redis | `scheduleSynchronizedJob` | at most one instance per tick |
| WebSocket controllers, `websocket/controllers/base.ts` | per connection: login, its timer; per process: the set of connections | upgrade, auth message, token timer, check of all tokens, close | timers against auth messages that are answered late |
| WebSocket handlers, `websocket/handlers` | subscriptions, one heartbeat timer | subscribe, dispatch, heartbeat | subscribing while the connection closes |

Flows, extensions, items service, permissions, GraphQL, versions, uploads,
license, migrations, storage drivers, CLI, telemetry, the studio and the packages
are listed in `PROJECT.json` with the reason why they are not modelled.

How the modelled parts interact: a websocket message reaches one handler of
`CollabHandler`, which gets a `Room` from the `RoomManager` (local memory first, then
Redis) and runs transactions on it. Item events of all API processes arrive on the bus
`websocket.event`; each process queues them and applies them to its local rooms, and its
permission cache drops the answers they affect. Processes tell each other that a room is
closed through `Messenger.sendRoom`. Two jobs repair what is left behind: a cron job asks
all registered instances for a sign of life and cleans up after the silent ones, and an
interval job on every instance removes unregistered clients and closes empty rooms.
A client of a room is a WebSocket connection whose login may end at any time
(`WsConnection`); for the room only its close matters. Sessions of OAuth clients lie in the
same table as those of logins, which `AuthenticationService` purges of expired rows and from which
`UsersService` deletes all those of a user whose password, email or status changes.

## 2. Modules

| Module | Models |
|---|---|
| `RoomStore` | the shared state of one room and each store transaction of `room.ts` as an operator |
| `EditingRoom` | abstract: what the clients of a room rely on: one holder per focus, the last one out takes the changes, a room is closed when it is empty or its item is deleted; and, for careful clients, edits by members and holders only |
| `CollabRoom` (extends `RoomStore`) | rooms, handlers, close messages, item events and the cleanup, on several nodes; implements `EditingRoom` |
| `CollabCluster` | registry, connections, crashes, prune and sweep |
| `PermissionCache` | the cache, `verifyPermissions`, changes and their events |
| `OAuthGrant` | abstract: what an authorization server with rotating refresh tokens promises |
| `McpOAuth` | codes, grants and sessions; the transactions of the token endpoints and the cleanup job; implements `OAuthGrant` |
| `SessionRefresh` | the sessions of one login, refreshed, used and ended by several requests |
| `SchemaCache` | election of a reader, waiting for its message, invalidation |
| `WsConnection` | auth messages, token timer and time-outs of one connection |
| `MCCollabRoom`, `MCCollabCluster`, `MCPermissionCache`, `MCMcpOAuth`, `MCSchemaCache` | instances for TLC |
| `RoomStore_proofs`, `CollabRoom_proofs`, `PermissionCache_proofs`, `McpOAuth_proofs`, `CollabCluster_proofs`, `SessionRefresh_proofs`, `SchemaCache_proofs`, `WsConnection_proofs` | the theorems |

### RoomStore and CollabRoom

One room in Redis is the record `store[r]`: which keys exist, and the values of `changes`
(per field), `clients` (how often a uid occurs in the array) and `focuses` (per client).
The metadata keys are set and deleted together and are one key here. `useStore` returns
`roomDefaults[key]` for a missing key - the object itself, which some callbacks then
modify. `dflt[n]` is that object of node `n`, and a transaction returns it with the store.

A handler is a request in a slot. Its `pc` names the await it resumes from, and an action
is the code up to the next await, so that TLC interleaves handlers exactly where the code
can be interleaved. A transaction is one action, because the lock of the room is held
during its callback. What the handlers do before they know the room (parsing, permission
checks) is one nondeterministic `Reject`. What is sent to clients is left out, and with it
the last, reading, transaction of `Room.join`.

`rooms`, `seed` and `listeners` are what a node remembers of a room: the local object, its
`initialChanges` and the room listener. `mail` counts close messages on their way to a
node. `queue` and `ev` are the queue of item events and the one being processed. `conn` is
a connection and, once it is lost, the progress of its `onLeave`. An item event concerns
one room here (several rooms of one event are handled independently in the code), and
payload values are abstract.

`EditingRoom` is a room as its clients see it, where opening, entering, leaving, focusing,
editing, clearing and closing are one step each. `Editing` maps the store to it: a room is open when
its metadata is there; its members, focuses and changes are those of the store while it is open, and
none before and after. `Bulk` is whether clients send `updateAll`, which writes fields without a focus.
`Careful` is the condition `Serial` (clients wait for each answer, and nothing closes rooms): then only
members act, a field is written by the holder of its focus only, and rooms are not closed. Otherwise a
room may have changed behind a handler, and one of a client that has left may still focus and write
there. `Deletes` is whether items are deleted, which closes rooms that have members.

### CollabCluster

An instance is one run of a process, with its random uid; a restart is another instance,
hence `Late`. A room is only the set of its clients. `pending[n]` holds the registry
transactions of `Messenger` that nobody awaits. `prune[n]` and `sweep[n]` are the two jobs
with their local variables; every await of them is a step of its own, except that the
sweep reads the clients of all local rooms at once, which is exact for the one room of the
runs, and that `hasClient` and `leave` of the cron job are one step. A crash clears
everything but what is in Redis.

### PermissionCache

An answer is represented by the versions of what it was computed from, so that it can be
compared with the truth. `value` and `recent` are the LRU map: the entries, and the order of
their keys as the relation "used more recently than". `Newest` is the key that `keys()` gives
first and `Oldest` the one that is evicted, as in mnemonist 0.40.3 (a library, modelled from
its documentation). The maps `tags` and
`keyTags` are always inverse to each other and are one variable; the early return of
`handleInvalidation` for collections nobody watches saves work only. The counter of invalidations does not wrap.
A change is committed first and its event delivered later, in any order.
`verifyPermissions` is three reads and decisions with an await in between: is the item
there, what do the rules allow, may it be cached. The catch around the first takes any error for
a missing item and caches that (`FailToReadItem`); an error elsewhere is no answer (`Throw`).

### OAuthGrant and McpOAuth

`OAuthGrant` has the codes that give no token any more, the tokens given out, and per party
(a client and a user) the token that is valid. A code is exchanged, a valid token is
replaced, or something is withdrawn; there is no step that makes an old token valid again.

`McpOAuth` is the code with one action per database statement. `code`, `grant` and
`sessions` are the three tables as committed; a token is the number of its session hash, and
the id of a grant is the token it was created with. `req[r]` is a request: its `pc` is the
statement it is about to run, `seen` the grant it read before its transaction, `found` the
one read in it, `locks` the rows it has changed. All statements of a transaction but the
last burn a code or delete a row, so `locks` is also its undo log, and the last statement
commits. A statement waits while another request has locked its row; circles of waiting
requests are ended by `Victim`, which restarts one of them as `transaction.ts` does. Isolation
is READ COMMITTED: a statement sees what is committed when it gets its row. `ConsumeSession`
and the code after it look at the number of rows, as the handlers do. Checks that only refuse
a request (redirect URI, PKCE, resource, scope) are left out. The job is a sequence of
statements without a transaction, with the lists it keeps between them. Two other services delete
sessions under the grants: `PurgeSessions` those that have expired, and `ClearUserSessions` those of
a user but for one, which leaves grants without a session. Both wait for rows that are locked.

In `Promise` a token is valid as long as the grant points to it and its session is there.

### SessionRefresh

`row[t]` is the session of token `t` in `directus_sessions`: its `next_token` and whether it
expires far ahead, within the grace period, or has expired. A request carries the token that
the client had when it sent it; each statement of `refresh`, `updateStatefulSession` and
`logout` is an action. `jar` is the cookie, or the token in the SDK, which the answers set in
the order they arrive (`Arrive`). `LinkAs` is the conditional update, of the rows `free`
for the given values; `Returning` is whether the database returns the rows of an update, or (MySQL)
their number, whose `length` is never 0 (authentication.ts:532). A fault is a lost answer or a process
that ends. `past` is a history of what may cost the client its token, for the properties only.

### SchemaCache

`counter` is `schemaCache--preparing`, `memory[p]` the schema of process `p`, `mail[p]` the bus
messages on their way to it. A call of `getSchema` is `call[c]`; `left` are the processes that
still have the listener of a call that timed out, which is never removed before the next
message. A version of the schema is a number; `state` is a history mark of how it
may have become old: raced (the database had a newer one when it was put into the cache or sent) or
overtaken. Messages are handled in any order in which only schemas are late: these may be large and
are decompressed asynchronously, while `schemaChanged` is small (`Handle`, `Overtake`). A change is the commit, the clearing of the own cache and
the message as three steps. A crash empties the process and leaves the counter.

### WsConnection

Time is a number, and timers that are due are handled before it advances. `login` is when the
token of the connection ends (or that there is none), `timer` is `auth_timer` (it stays there
after it went off, as in the code), `waits` the time-outs of the pending `waitForMessageType`,
`auth[r]` an auth message between its arrival and its answer. `Init` is a connection
right after `createClient`, at any moment of the interval of `checkClientTokens`.

## 3. Runs

| Run | Instance | Checks | Distinct states |
|---|---|---|---|
| `room_serial` | 2 nodes, 2 clients, 2 fields, every message, each client waits for its answers, nothing closes rooms | `FocusExclusive`, `NoDuplicateMember`, `MembersHaveRoom`, `UpdateByHolder`, `IsEditingRoom` (careful), no deadlock | 531 000 |
| `room_full` | 1 node, 3 pipelined messages, cleanup, lost connections | `MemberUndisturbed`, `FocusUndisturbed`, `IsEditingRoom` | 556 000 |
| `room_events` | 2 nodes, 2 pipelined messages, save, deletion, close messages | `TypeOK`, `MemberUndisturbed` | 290 000 |
| `cluster_crash` | 2 instances with a client each, one crashes, one starts late, prunes and sweeps; registry transactions in any order | `TypeOK`, `StaysRegistered`, `NoLastingGhost`, `AbandonedIsClosed` | 205 000 |
| `cluster_drop` | 1 instance, 2 clients, one disconnects at any point | `NoLastingGhost`, `AbandonedIsClosed` | 123 000 |
| `perm_fresh` | 2 keys (one depends on a collection, one on an item), 2 calls whose reads may fail, 2 changes, an ignored collection | `TypeOK`, `AnswersFreshOrDoomed` | 565 000 |
| `oauth_requests` | 1 confidential client with 2 codes, 2 requests of all kinds, 4 tokens, 1 restart | `TypeOK`, `PreviousIsSpent`, `ReplayEndsSuccessor`, `IsPromise`, `Answered` | 206 000 |
| `oauth_cleanup` | 2 clients with a code each, 2 requests, everything may expire, sessions of the user are cleared, the cleanup job | `ValidGrantLasts`, `IsPromise` | 1 533 000 |
| `session_refresh` | 3 requests, both modes, 4 tokens, lost answers and crashes | `TypeOK`, `JarLives`, `AnswerLives`, `SameAnswer`, `OneHead`, `SupersededIsShort` | 621 000 |
| `schema_cache` | 2 processes with a call each, 1 change, 1 failed read or crash, late schema messages | `TypeOK`, `StaleIsRaced`, `OneReader`, `SchemaReturns` | 1 081 000 |
| `ws_connection` | 2 auth messages under way, interval and time-out of 2, 6 units of time | `TypeOK`, `ExpiryIsCaught`, `Attended`, `OwnTokenEnded` | 2 780 000 |

One run finds a violation of what a comment says: `perm_missing`, `MissingFreshOrDoomed`.
"Prevent caching stale permissions" (verify-permissions.ts:39) is what the counter of
invalidations is for; the answer `null` for an item that is not there is cached without
looking at it.

### What the properties mean and under which conditions they hold

`FocusExclusive`, `MemberUndisturbed`, `FocusUndisturbed` and `IsEditingRoom` hold for all
interleavings. `IsEditingRoom` says that each transaction of a handler or a job, acting on what was
read some awaits before, still is a step a client can make sense of: a leave takes the focus along
and, if it is the last, the changes; a focus that was taken meanwhile is refused; a closing finds the
room empty or deleted. For careful clients it says more, which `room_serial` checks: only members act.
That run has `updateAll`, so that `Edit` is not bound to a focus there; `UpdateByHolder` says of
`update` that it is.

`NoDuplicateMember`, `MembersHaveRoom` and `UpdateByHolder` need clients that wait for each answer
(and no cleanup, deletion or lost connection). This is a real condition, which the server does not
enforce and the studio does not keep: with pipelined messages TLC finds each of them violated. What
happens then is listed under Known deviations.
`MembersHaveRoom` makes one exception, for the time until the join that created the `Room`
object has written the metadata: a second client of the same process may be in the room
before (Known deviations). The two clients of `room_serial` are on two nodes and never meet it.

`StaysRegistered`: a connected client is in the registry or on its way into it. It names the two ways
out that the code has. One needs `~Ordered`: the transactions of an instance are not awaited and redlock
retries without a queue, so that the registration of the instance may be committed behind an `add` and
replaces the entry (`cluster_crash` commits in any order). The other needs `~Timely`: a live instance
whose answer takes longer than `WEBSOCKETS_COLLAB_INSTANCE_TIMEOUT` is pruned and its clients are never
registered again; the runs have `Timely = TRUE`, and the theorem (section 4) is about both.
`NoLastingGhost` holds in any order in `cluster_crash`. `cluster_drop` needs `Ordered`: a remove may
overtake its add, and then the client stays registered and in its room. It excludes clients whose
connection closed during their own `onJoin` (see Known deviations). Two mechanisms work for it, the
cron job on the rooms of the dead and the sweep on all unregistered clients, and in most
behaviours either is enough.

`AnswersFreshOrDoomed` holds while nothing is evicted and no rule depends on an ignored
collection, and `AnswersStayFresh` (section 4) proves that these two conditions are enough. The
second is a decision of the code (`IRRELEVANT_COLLECTIONS`), the first hides a deviation below.

`IsPromise`: every behaviour of `McpOAuth` is one of `OAuthGrant`, whatever requests, restarts
and the job do between each other's statements. `PreviousIsSpent` and `ReplayEndsSuccessor`
are what reuse detection rests on: the token before the current one is dead, and
presenting it kills the current one, unless the request is ended as the victim of a deadlock
too often. Only the direct successor is meant: the code keeps one previous token.
`ValidGrantLasts` lists the reasons for which a grant that is valid (its session there, its token not
expired) may stop being so: its token expires, its own client ends it by revoking it or by presenting its
code or its previous token again, the sessions of its user are cleared, its client is removed, or the
job takes it for the expired grant it was when the job looked (Known deviations). Where the property
says `Ended`, a request of that client ends in the same step. Grants without a session are expected
(mcp-oauth/index.ts:1193-1196, 1401) and are what `FindOrphan` and the fourth step of the job are for.

`JarLives`, `AnswerLives`, `SameAnswer` and `OneHead`: several tabs refresh one cookie and agree on
what they get. `JarLives` has two halves: a token the client has works or is about to be inserted, and
a client that has none has logged out or used a token early (`"early"`, Known deviations).
Five constants are the conditions. `Returning`: the database returns the rows of an update (PostgreSQL,
SQLite and others, not MySQL). `Overlapping = {"session"}`:
with overlapping refreshes of the other modes the second one hands out a token no row has.
`Timely`: the grace period (10 s) is longer than a request; otherwise the old session is purged
between two statements of a slow refresh. `Paced`: a token is refreshed, or its session ended, only when no request
with another token is under way; without it a refresh that is one token late gives a
superseded session its full life back (`SupersededIsShort`) and an answer of an old round
replaces a newer cookie. Crashes and lost answers are allowed, and `JarLives` and
`AnswerLives` say which of them they exclude. A process that ends between the update and the insert
leaves a token without a session, which `AnswerLives` does not cover.

`StaleIsRaced` allows two old schemas, by their mark: one that was read or still to be sent when it
changed, which the code accepts (bypassCache exists for callers who cannot), and one that
`schemaChanged` has overtaken while it was decompressed. Every other old schema has the message that
takes it back on its way, whatever crashes. `OneReader` ends when the counter is deleted because
`CACHE_SCHEMA_MAX_ITERATIONS` calls wait.

`ExpiryIsCaught`, `Attended` and `OwnTokenEnded` hold for all interleavings of timers and auth
messages; `Attended` excludes connections one of whose messages was dropped by the rate limiter
or the license check after it had ended the waiting.

### Known deviations

What the models show to go wrong: a comment promises it (quoted), or a reader would take it for
granted. TLC found a counterexample to a property stating each of them; but for the first they are
not kept as runs. The properties of section 3 name each of these as their exception or condition.

- "Prevent caching stale permissions if invalidation occurs during async steps"
  (verify-permissions.ts:39): the run `perm_missing`.
- "to prevent orphaned metadata" (permissions-cache.ts:192): at capacity, the metadata of
  `keys().next()` is cleaned up, which is the newest key, while the map evicts the oldest. The
  newest one has lost its tags and its timer, so that no event invalidates it.
- "unsubscribe when a connection drops" (collab.ts:236): `onJoin` overtaken by the close re-adds
  the client to registry and room, for ever.
- "Remove clients and close rooms hosted by nodes that are now dead" (collab.ts:245): a room
  that was joined before it was registered is missed by the cron job (a sweep gets it later).
- "Ensures that foundational room state (metadata) exists" (room.ts:308): after a deletion the
  node keeps its `Room` object, and the next join enters a room without metadata.
- The same comment: `createRoom` puts the `Room` object into local memory before
  `ensureInitialized` has run (room.ts:48-62), so that a second join on the same process takes
  it and may store its client first. `ensureInitialized` then writes `clients = []`, and the
  second client, which has been told that it joined, is in no room.
- "if the client hasn't entered the room already" (room.ts:361): two joins of one client that both find
  it missing add it twice. The two transactions of `Room.join` are not one.
- Handlers of one client overlap, as nothing serializes its messages and the studio sends without
  waiting. A focus or an update that finishes after the leave, or after the connection was lost, leaves a
  focus without a member; an update that finishes after the last leave leaves changes for the next
  session; and a blur between the second read of the focus and the write lets `onUpdate` write a field
  that another client has taken since.
- "Remove clients ... hosted by nodes that are now dead" (collab.ts:245): an instance that answers the
  ping too late is taken for dead, and nothing registers its clients again. So does the registration of
  an instance that is committed behind the first `add` (messenger.ts:49, 100): it sets the entry anew,
  and the next sweep evicts the client.
- "The room will not be persisted in local memory" (room.ts:76): `getRoom` does so in line 94.
- "Delete grant + session atomically" (mcp-oauth/index.ts:1336): the revocation deletes the
  session of the token it was given. A refresh that moves the grant between lookup and deletion
  leaves its new session behind, whose access token works until it expires. It cannot be refreshed.
- "Delete expired grants along with their sessions" (mcp-oauth/index.ts:1384): the job deletes by the ids it
  has read. A refresh that was let in before the token expired moves the grant to a new token between the
  two, and the job deletes the grant, which is valid for another period, and leaves its new session.
- "no active sessions/grants" (mcp-oauth/index.ts:1418): a client is selected as unused and removed in a later
  statement, with the grant that a code exchange has given it in between.
- "clear the session token if ended up in an invalid state" (authenticate.ts:52-55): the token of a
  session can be handed out before its row is inserted (authentication.ts:532-540 returns the
  `next_token` another request has just set). A use of it is refused (verify-session-jwt.ts:25) and
  the browser drops a cookie that would have worked a moment later.
- "we already have a "next_token" reference" (authentication.ts:533): the number of rows of the update is
  taken from the length of what it returns. With a driver that returns a number (MySQL) the second of
  two refreshes inserts a session of its own, and the login has two that can be refreshed. With
  `Returning = FALSE` TLC finds `OneHead` and `SameAnswer` violated, and the other properties hold.
- A schema message above 1000 bytes is decompressed asynchronously (packages/memory, redis.ts:87-103) and may be
  overtaken by `schemaChanged`: the process then keeps the old schema until the next change.
- Any error of the read of an item, not only that it is missing, is cached as its absence
  (verify-permissions.ts:81-84), until something invalidates the key.

### Bounds

Two clients and two nodes suffice for all pairwise races; three slots let a third handler
or job run between two steps of another (`room_full`), a slot is used once where messages
are pipelined (`Reusable = FALSE`). One value per field: the properties of focuses and
members do not depend on values, and those of changes only tell a change from no change.
`MaxMail` and `MaxEvents` are 1: a second message of the same kind only repeats the effect
of the first. One room, as rooms share nothing but the defaults and the registry. Versions
0 and 1 in the cache let an item come, go and come back, and two changes are enough for
one before and one during a call.

Two OAuth requests make every pair of handlers meet, two codes of one party let a second
exchange replace what the first one stored, and `MaxAttempts` of 1 and 0 reach both ends of a
deadlock (restart and refusal). Four tokens are enough for a token, its successor and a replay of
both; an action that begins a request needs a token in reserve (`TokensLeft`), so that the
bound never stops a transaction. Three refreshes with four tokens let one request be late by a
whole round. One schema change and one fault (a failed read or a crash) meet two calls at every
statement; `MaxIterations` of 3 and `MaxAttempts` of 2 reach both limits of the waiting. Interval
and time-out of 2 within 6 units of time let two rounds of the timer and of a login overlap.
`CHECK_DEADLOCK FALSE` stands in the configurations whose
messages are limited in number.

### Fairness

`CollabCluster`: weak fairness of the steps of `onJoin`, `onLeave`, the committed registry
transactions, both jobs and the answers to pings: the event loop of a running process gets
to each of them, and cron and `setInterval` start the jobs again and again. No fairness for
clients, starts and crashes. A lock that is never obtained is not modelled.

`McpOAuth`: strong fairness of each request's statements, because a row lock that is released
and taken again and again is given to those who wait for it in turn, and weak fairness of
`Victim`, because the database ends every deadlock. No fairness for users, clients, time and
the cleanup job.

`SchemaCache`: weak fairness of `GetSchema` (requests keep coming to a running process), of the
steps of a call, of the delivery of bus messages and of the rest of a change that has begun
(clearing the cache, announcing it). No fairness for changes, failed reads and crashes.

## 4. Proofs

`CollabRoom_proofs` proves, for all sets of nodes, clients, rooms, fields, values and slots
and all bounds (the ASSUMEs of `RoomStore` and `CollabRoom` are the only assumptions):

- `TypeCorrect`: `Spec => []TypeOK`.
- `FocusIsExclusive`: `Spec => []FocusExclusive`. The invariant has to include the shared
  default objects: a transaction that reads a missing key starts from them, and a Redis room
  that is exclusive says nothing about what the callback reads then. Each transaction of
  `RoomStore` is shown to keep exclusiveness of both (`FocusKeepsExclusive`,
  `LeaveKeepsExclusive`, `OthersKeepExclusive`).
- `MembersAreUndisturbed`, `FocusesAreUndisturbed`: the two action properties. They need
  `RoomsComplete`, that a room with metadata has all its keys; without it a read could fall
  back to the defaults and the write replace the members of the room. It is proved as an
  invariant of its own (`CompleteInvariant`).
- `RoomsAreEditingRooms`: `Spec => IsEditingRoom`, the refinement of `EditingRoom`.

The refinement. Each transaction is described by what it makes of every field of the store
(`SetBecomes`, `TransactionsBecome`), whichever object it starts from, and by the rooms it leaves closed
(`SetStaysClosed`, `TransactionsStayClosed`). An action changes the store of
one room, so that it is enough to compare that room before and after: with a step of `EditingRoom`
(`ViewStep`), or with itself (`ViewStutters`). `InitTxn` is `Open`, of a room that nobody is in yet,
whoever was pushed into its defaults before; a push is `Enter`; a focus that was taken meanwhile is
refused and is nothing; a leave is `Leave`, with the changes if it was the last; discarding and saving
are `Clear`; and whatever a handler writes to a room that is not open is nothing. `CloseTxn` is `Close`:
without force it has found the room empty, and force needs a deletion (`NoDeletion`, an invariant
where items are not deleted).

Where `Serial` holds - clients wait (`~Pipelined`) and no job but the save of an item
(`Jobs \subseteq {"save"}`) - `Careful` has to be shown of each step as well, and that is what two more
layers of the invariant are for, on any placement of any number of clients:

- `Orderly`: a client has one request at most, a request is at a program counter of its kind, and
  nothing that closes a room is under way.
- `Consistent`: a handler that is about to push has not been added meanwhile, and one that
  is about to write still holds its focus (`SlotFits`), because all that changes the entries of
  a client is its own request; a room without metadata is empty and without changes unless its
  creator is about to write it (`RoomFits`); and the default objects of a process name
  at most clients of its own (`DefaultsFit`): a join before `ensureInitialized` pushes onto the
  array of the defaults, which a later reader of a missing key takes for members.

The attempt to prove `MembersHaveRoom` without its exception is how the lost join of the
Known deviations was found.

`RoomStore_proofs` holds the lemmas about the transactions.

`PermissionCache_proofs`, for all keys, items, collections, rules, calls and bounds:

- `TypeCorrect`, with an LRU map of any capacity.
- `AnswersStayFresh`: `Spec => []AnswersFreshOrDoomed`, assuming `FitsInCache` (all keys fit in
  the map, so that nothing is evicted) and `NoneIgnored` (no rule looks at an item of an
  ignored collection).

The property speaks of entries only. The inductive invariant also speaks of the calls of
`verifyPermissions`: whatever a call would still cache (its counter of invalidations is the
current one) differs from the database only in sources whose event is on its way (`Honest`,
`Reported`), and an entry carries all the tags by which these events find it. Reading keeps this
because the answer is the truth, a change because it publishes its event, a delivery because
it removes the entries it concerns and moves the counter under all the calls.

`McpOAuth_proofs`, for all clients, parties, codes, requests and bounds, with every kind of
operation and event:

- `TypeCorrect` and `TokensAreSingleUse` (`Spec => []PreviousIsSpent`).
- `ImplementsPromise`: `Spec => Promise!Spec`, the refinement of `OAuthGrant`. The two statements
  that store a token are `Exchange` and `Rotate`; everything else shrinks the tables (`Shrinks`)
  and is a `Withdraw`.

The inductive invariant `IInv` says what a request in a transaction can rely on (`Holds`: a code
it has burned is still unused for the others, a session it has deleted is still there for them),
that no row is locked twice (`Exclusive`), and that a token belongs to one party, whether a
grant, a session or a request remembers it (`Owned`). The last one is why a request that deletes
the session it found cannot take the token of another party.

Also in `McpOAuth_proofs`, with the same assumptions:

- `ValidGrantsLast`: `Spec => ValidGrantLasts`.
- `ReplayIsDetected`: `Spec => ReplayEndsSuccessor`.

Every handler acts on a grant it read some statements ago. `RInv` says why this is safe: as long as a
grant has the token it was remembered with it is still the same grant (`Matches`), because token
numbers are not used twice; a session that a request is about to delete belongs to no grant that
stays (`Fits`); and a refresh that will end without a token has found all grants rotated from its
token, to which none can be added because the session of the token is gone (`Replays`, `Lineage`).
`VInv` says of each deletion still to come that it has seen a reason: a request about to delete a grant
found it by its own client and by a code or token it still has (`Aims`); what the job has selected has
expired, or has no session and cannot get one (`JobAims`). Nothing says that a grant has a
session, as it may have lost it to `ClearUserSessions`.

`SessionRefresh_proofs`: `TypeCorrect`; and, assuming `Returning` (a database that returns the rows of an
update; without it the login does multiply), `LoginDoesNotMultiply` (`OneHead`) and `RefreshesAgree`
(`SameAnswer`), which also assumes `"stateless" \notin Overlapping`, as the modes that hand out a
token without a conditional update need clients that wait. `IInv` says that rows and answers
only hold tokens that were handed out, that the link from a row to its successor is set once
(`Agree`), and that requests of the modes without the conditional update are alone (`OneByOne`).

Three more assume `Returning` and `InTurn`, that refreshes and logouts take turns by token (`Paced`, or no
client has several requests under way): `SupersededSessionsEnd` (`SupersededIsShort`), `AnswersHaveSessions`
(`AnswerLives`, which also assumes `"stateless" \notin Overlapping`) and `ClientsStayLoggedIn`
(`JarLives`, which also assumes `Timely`). The argument goes by rounds (`InRounds`): all refreshes
and logouts under way have one token; what has a successor is at most that token, and at most
the token of the client (`LinksBehind`), because tokens grow from round to round. So a token ahead of
the round has no successor, its full life, and no request that could end it, and its session stays
(`SuccessorsThere`). A session whose time ends has a successor, and if it is the client's, a
request is about to bring that one (`LinkedIsAnswered`). An answer that clears the cookie has refused a
token that was not there: its session was ended by a logout, or was still to be inserted. It follows that
`AnswerLives` does not need the grace period, only `JarLives` does, and that `Extend` never meets a
session that has a successor.

`CollabCluster_proofs`, for all numbers of instances, clients and rooms and all bounds: `TypeCorrect`,
which includes that a job in the middle of a loop has something left to do there; and
`ConnectedStayRegistered` (`Spec => StaysRegistered`), for both values of `Ordered` and `Timely`. A step
that takes a connected client out of the entry and the queue is shown to be one of the two that the
property names (`Stays`). What this needs of the past is `RegistryInv`: only running instances have clients,
handlers and transactions (`Living`); no removal of a connected client is in the queue, and with `Ordered` a
registration is the first in it, of an entry without clients (`Waiting`); and with `Timely` the instances that
a job is about to delete have crashed, and do not come back under their uid (`Dead`).

`SchemaCache_proofs`: `TypeCorrect` and `ReaderIsElected` (`OneReader`), from the value of the counter and the
number of calls that have incremented it. `OldSchemasAreDropped` proves `StaleIsRaced`, which says nothing of
the schemas still under way, so the invariant does: unless a change is pending (`Pending`), an old schema
in the memory of a process that is not marked is followed by a `schemaChanged` in its mail, and so is each such
schema in the mail itself (`MailFits`), by one further back. If the message is handled first, it marks those
it overtakes, which is what keeps the invariant.

`WsConnection_proofs`: `TypeCorrect`, `LoginEndsWithToken` (`ExpiryIsCaught`), `NeverUnattended`
(`Attended`) and the action property `LoginIsKept` (`OwnTokenEnded`).

Only model-checked: the temporal properties (liveness under fairness is out of the prover's reach), and
what `room_serial` checks besides `IsEditingRoom` and `FocusExclusive` (`NoDuplicateMember`,
`MembersHaveRoom`, `UpdateByHolder`): each is about clients that wait, and of them the theorem about
`EditingRoom` already says that only members act and, without `updateAll`, that a field is
written by its holder.

## 5. Not modelled

`RoomManager.terminateAll` and the setting that disables collaboration; messages to clients
and their order numbers; failing Redis calls, and with them half a leave: `clients`, `focuses` and `changes`
are awaited one after the other under the lock (room.ts:456-466), so that a crash or an error of Redis in
between leaves a focus or changes without a client; colours; the permission and payload rules themselves. The sweep can also evict a client that registers and joins between its two
reads (collab.ts:269-271); the step is in the model, no property forbids it. An instance
that is told of a closed room keeps it in its registry entry; it does no harm, as pruning
finds the room closed.

OAuth: the checks that only refuse a request, registration and the consent page, and deleting a user
(users.ts:400), which takes all that is the user's. Sessions: the
login providers, suspended users and shares, and the SDK's timer. Schema: the other caches that are
flushed with it and the upgrade of the cache's format. Connections: subscriptions, the heartbeat
and the limit on connections. The remaining components of section 1 are not modelled: most are
single-request code over one database transaction, where a test reaches what a model would.

## 6. Plan

Done: rooms with their abstract specification, registry, permission cache, OAuth server with its abstract specification, session
refresh, schema cache, connections, and the theorems of section 4. Left:

1. Models of heartbeat and subscriptions, and of the lockers of resumable uploads.
2. Redis calls that fail or are cut off in the middle of a transaction (`RoomStore` with its writes one
   by one), for half a leave and for registry transactions that are only logged when they fail.
