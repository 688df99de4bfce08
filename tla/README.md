# sentinal-chat in TLA+

A verification project for sentinal-chat, a chat backend in Go: an HTTP and
WebSocket API, PostgreSQL, Redis, a transactional outbox and end-to-end
encrypted messages. The modules are translated from `src/`; comments in them
name the functions, `PROJECT.json` maps each definition to its lines.

    tlc -config outbox.cfg OutboxLedger.tla     model-check a run
    tlc -config services.cfg Services.tla       the largest run, two minutes
    tlapm OutboxProofs.tla                      check the proofs of a module

## 1. Inventory of the system

`src/cmd/api/main.go` builds one process of the API: a database pool, a Redis
client, repositories, services, an event bus, one outbox worker, one WebSocket
hub, and the HTTP server; before that it applies the migrations. Several such
processes may share the database and Redis; nothing in the code elects one of
them. `src/cmd/migrate` is a second program on the same database.

| Component | State | Operations | Talks to |
|---|---|---|---|
| Event publisher (`services/event_publisher.go`) | none | `Publish*`: build a payload, insert an outbox row in the caller's transaction | outbox table |
| Outbox worker (`services/outbox_worker.go`) | ticker, `stopChan`; in the table: status, retry_count, created_at | fetch a batch; per row claim, unmarshal, publish, complete / retry / fail | outbox table, event bus |
| Event bus (`events/redis_bus.go`) | `running`, handlers | `Publish`, `Subscribe`, `Start`, `Stop`, dispatch | Redis Pub/Sub, hub |
| Hub and clients (`server/hub.go`, `client.go`) | map user → connections, three channels, per connection a send channel, two goroutines, ping tokens | register (with eviction), unregister, broadcast, ping/pong, Stop | users.is_online, event bus |
| Connection limiter (`hub.go`) | times of connections per user | `AllowConnection`, `cleanup` | hub |
| Redis rate limiter (`redis/ratelimit.go`) | one counter key with an expiry | `checkLimit` (a Lua script) | HTTP middleware |
| Sending messages (`services/message_service.go`) | `messageRepo`, a field shared by all requests; rows of messages, ciphertexts, sequences, outbox | `SendMessage` | repositories, event publisher |
| Receipts (`message_service.go`, `message_repository.go`) | message_receipts | mark delivered / read, one or many, mark played | event publisher |
| Messages, reactions, stars, votes, mentions (same files) | messages.deleted_at, seq_id; a table each | delete, add, remove; page through the history | - |
| Commands (`services/command_executor.go`, `commands/`) | command_logs | execute (send, delete, edit, archive), undo | built by main, reached by no route (see 6) |
| Authentication and sessions (`services/auth_service.go`) | user_sessions (refresh hash, is_revoked), users.password_hash | register, login, refresh, logout, revoke all, reset password | users, devices |
| Users, contacts, devices (`user_service.go`, `user_repository.go`) | users, user_settings, devices, user_contacts | single statements and whole-row updates | hub (is_online) |
| Conversations (`conversation_service.go`) | `repo`, a field shared by all requests; conversations, participants, conversation_sequences | create, update, invite link, add, remove, role, flags, read mark, increment | the trigger that numbers messages |
| Calls and signalling (`call_service.go`, `redis/signaling.go`) | calls, call_participants, metrics, Redis keys | create, connect, end, participants, metrics; offer, answer, ICE (not routed) | event publisher, Redis |
| Encryption keys (`encryption_service.go`) | identity keys, signed prekeys, one-time prekeys, bundles | upload, deactivate, rotate, consume | devices |
| Uploads (`upload_s3_service.go`, `storage/s3_client.go`) | upload_sessions | presign, progress, complete, fail, rename, delete, clean up | S3 |
| Broadcast lists (`broadcast_service.go`) | broadcast_lists, broadcast_recipients | create, update, delete, add and remove recipients, in bulk | - |
| Migrations and seeds (`cmd/migrate`, `pkg/database`) | the schema, the seeded rows | up, down, reset, truncate, seed, seed-dev | every process that starts |
| Presence and cache stores, handlers, DTOs, middleware, configuration | keys, none | - | - |

What is hard in it, in order of weight:

* **The outbox.** Rows are claimed by an UPDATE of their own before the
  publication; every statement can fail and the process can die between any
  two of them. Its correctness: a recorded event is announced at most once per
  process, only if its transaction committed; COMPLETED implies announced;
  a claimed row is never forgotten without a cause; order follows causality.
* **The shared repositories.** `executeSendMessage` and the creation of a
  conversation install a transaction-bound repository in a field of the service,
  which other requests read. Correctness: a message, its ciphertexts and its
  event commit together, once per client_message_id; a conversation is there
  with its participants or not at all; the field ends up on the pool.
* **The hub.** Eviction, unregistration, broadcasting, pongs and Stop close and
  write the same channels. Correctness: no double close, no send on a closed
  channel, the connection limit, presence that follows the map, goroutines that
  end.
* **Limiters.** Windows, expiry and rounding.
* **Everything read in one statement and written in a later one.** Sessions,
  users and settings, conversations, sequence numbers, calls, receipts,
  prekeys, uploads and lists are read, changed in Go and written, often whole, autocommitted or at READ COMMITTED; a request may stop in
  between. Correctness: what was answered stays, unless two requests overlapped
  in a way the code admits; which overlap it takes is what the properties pin
  down.
* **Transactions of several statements.** Bulk receipts and recipients, key
  rotation: what a failed one leaves behind, and what its answer says of it.
* **Migrations and seeds.** Run at every start, by any number of processes,
  recorded nowhere, killed anywhere.

`PROJECT.json` lists under `hazards` the places where these things bite, each at
its line, with the properties that watch it.

## 2. Modules

| Module | Models |
|---|---|
| `Outbox` | rows and transactions of events, the worker of every process, the running flag of its bus, start, shutdown and kill |
| `EventLedger` | abstract: an event is recorded, then announced once or abandoned |
| `OutboxLedger` | `Outbox` with one process, and the refinement mapping to `EventLedger` |
| `MCOutbox` | instances of `Outbox` with several processes |
| `Hub`, `MCHub` | the hub loop, both goroutines of each connection, the event handler, Stop, is_online |
| `RateLimits` | the connection limiter with its cleanup and the Lua script, on one clock |
| `SlidingWindow` | abstract: an exact sliding window limit |
| `MessageSend`, `MCMessageSend` | `SendMessage` statement by statement on a READ COMMITTED database |
| `Handlers` | what all requests share: arrival, the next statement, stopping; history of overlaps and failures |
| `Accounts` | registration, login, refresh, logout, password reset, device deactivation over devices and user_sessions |
| `Profiles` | profile, password, settings, is_online, deletion of the user, contacts and blocks |
| `Calls` | creation, connection and end of a call over calls, its Redis state and its event; participants and metrics |
| `Receipts` | marks on two messages, one by one, in bulk and played, each with its event and transaction |
| `ConversationCreate` | creations in the repository that every other request of the service uses |
| `Conversations` | updates, invite link, deletion, a participant, its flags and read mark, sequence numbers |
| `Messages` | deletion, reactions, stars, votes and mentions; a client that reads the history page by page |
| `Keys` | identity keys, signed and one-time prekeys, bundles |
| `Uploads` | one upload session from its presigned URL to its completion, failure or clean-up |
| `Broadcasts` | one list and its recipients, one by one and in bulk |
| `Setup` | migrations and the commands that drop, truncate and seed |
| `Services` | composes `Accounts` to `Setup` over one set of requests |
| `OutboxProofs`, `LedgerProofs` | theorems about `Outbox`, and that it implements `EventLedger` |
| `HubProofs`, `LimitsProofs`, `SendProofs` | theorems about `Hub`, `RateLimits` and `MessageSend` |
| `ServiceProofs` | what all requests share; theorems about profiles, keys, uploads, broadcast lists, migrations and seeds |
| `AccountProofs` | theorems about accounts and calls |
| `ChatProofs` | theorems about creations, conversations, messages and receipts; the types of all services |

Operators whose comment begins with "Slip:" are not part of any specification:
each is a plausible mistake in the definition that follows it, kept to confirm
that the property named in `PROJECT.json` notices it.

A few properties are conjunctions of named parts, one per run and component
(`CountersHold`, `MapIsSound`, `StoredAsAnswered`, `ProfilesHold`, `MarksHold`,
`ConversationsHold`, `MessagesHold`, `KeysHold`); each part is stated, with its
comment, just above.

### Outbox

One step per SQL statement and bus call, because every UPDATE of the worker is
autocommitted. `tx[e]` is the request that records event `e`: "changed" is a
change committed in a transaction of its own before the outbox transaction
(`SplitTx`: `CallService.EndCall`, the signalling calls), "open" an uncommitted
outbox row. `stamp` is created_at, `time.Now()` of the process that serves the
request (`Home`), taken when the row is built and not when it commits, so rows can
become visible out of order. `clock` has a time for each process, and `Ticks` is
what may pass on it from one row to the next: the times of one process grow, as
those of one host's clock do while nobody sets it back, and those of two processes
have nothing to do with each other. Hence `CausalOrder` is about the events of one
process (`prior`): across processes the stamps promise nothing.
`Fetch` returns what `GetPending` may: the oldest PENDING rows, at most
`BatchSize`. `seen` is the RetryCount the worker read with the batch, since
`processEvent` tests that copy. `batch`/`cur` are the rest of the loop of
`processBatch` and the event in hand. `Crash` loses them and keeps the table.
`Publish` returns nil on a running bus whatever Redis said; `BusMayFail` admits
any other EventBus. The history variables `sent`, `faulted`, `cut` (the events
that were in a worker's hand when its process was killed), `prior` and `crashes`
are read by properties only (`crashes` also by its bound).

### Hub

`register`, `unregister` and `broadcast` are bounded queues; the select of `Run`
is the disjunction `Loop`. Handlers that hold `Hub.mu` are one step. A send
channel is `open` or not and has a length. The reader of a connection goes
reading → pinging → reading, or leaving → done; the writer waiting → writing →
waiting, or done. A full batch is taken at once as `writePump` drains
`len(c.send)` messages into one frame. `phase = "panicked"` is the end of the
process: a close of a closed channel or a send on one. Go picks the entry of a
map iteration at random, so `MakeRoom` evicts any one connection.

### MessageSend

A repository is the transaction it is bound to, or `Pool`. `repo[p]` is the
shared field, `prev[r]` the local that remembers it. `row`, `cipher` and `event`
say in which transaction each insert ran; `SeenBy` is what a READ COMMITTED
statement sees. A failed statement aborts its transaction (`Fails`), a check of
the service only returns (`GivesUp`). The trigger that numbers messages locks
the conversation's sequence row until its transaction ends. `Cancel` is the
rollback database/sql makes when the client's context ends. A request may be a
retry: another request with the same `ClientMsg`, on any process. Nothing keeps
requests of a process apart: the server starts one when it comes. `met` (history)
are the requests that were active together with another of their process, and
the vocabulary in which the properties say what an overlap may take away.

### RateLimits

Time counts half seconds because Redis rounds TTL to seconds. The script is one
step, as Redis runs it. `Cleanup` may run at any time.

### Handlers and Services

`pc[r]` is the next statement of request `r`, `op[r]` what it asks for. Each
action is one statement with the Go code up to the next; a request that arrives
has passed the middleware and its checks, and in some modules its first read is
part of the arrival (`Login`, `Refresh`, `MarkConnected`). `Stops` is a failed
statement, a client that left or a killed process: all three end the request
between two statements, and roll its transaction back if it has one open.
`FailsOnTo` is an error the code drops. `met[r]` is the set of requests that were
active together with `r`, the vocabulary in which the properties say "only if
two overlapped". Values that requests set are named after them; `Earlier` stands
for a request that ended before the behaviour, such as the login of the session
that three requests then share. A transaction whose statements nobody can see
between, or whose rows are locked from its first statement on, is one step.

A behaviour is of one service, `service`, chosen when it begins: the tables, or
the columns, that one service writes and another reads do not meet in a property.
`metrics` and `hanging` are parts of calls and messages that never touch the rest
and have behaviours of their own. What one service's deletion of a conversation,
or a command that drops the tables, does to requests of another is not modelled. A
kill while a conversation is created is not modelled either: it would take the
other requests of the process, and the field, with it. A client that leaves is
(`Abandon`).

A request that stops does so between two statements: that a statement, or a
COMMIT, took effect and its answer was lost is modelled for sends (`Finish` of
`MessageSend`) and not in `Services`. The parts of `ConversationsHold`,
`MessagesHold` and `MarksHold` that count answers against rows speak of answers
that were given; after a lost one a client may find done what it was told had
failed.

* `Accounts` has one user and one device because rows of different users, or
  devices of one user, never meet in a statement. A session, a refresh token and
  a password are named after the request that made them; `known` holds the pairs
  of session and token clients were answered, so that a lost answer is a client
  with an older token. `Rotate` writes the struct that `Refresh` read, is_revoked
  included.
* `Profiles` keeps the columns of users and user_settings apart: `read` is the
  struct each request holds, `last` (history) who set each column last.
  `UpdateUser` writes the struct, password_hash and is_online included, over what
  a reset, a login or the hub wrote meanwhile.
* `Calls`: connected_at, ended_at and duration_seconds are three columns in the
  row and three in the model, since a connection and an end overwrite them
  separately. The call may have been created earlier, its state in Redis still
  there or lost.
* `Receipts`: `todo[r]` is the rest of the list a request marks, so that two
  bulk marks in different orders can wait for each other (`Deadlock` is
  PostgreSQL's choice of a victim). An UPDATE waits for the transaction that
  updated the row but does not see an insert that is not committed, while an
  INSERT waits for it and then violates the primary key.
* `ConversationCreate`: `repo` is the service's field, `saved` the local that
  remembers it; `written` has for each row the transaction it was written in. Any
  other request is one statement on a row of its own, which is all the field can
  do to it.
* `Conversations` has the creations left out, one conversation of the seed and
  one participant. `IncrementSequence` is two steps, the trigger one.
* `Messages`: seeded messages with their numbers (`SeededCount`), room for sends
  (`MessageCount`), pages of the history (`PageSize`). A send is one step and
  leaves seq_id NULL, as `Update` in `SendMessage` does. `walk[r]` is what a
  reader of the history was shown so far.
* `Keys`: rows that a request uploads all have the nil id (field `nil`).
  `GetOneTimePreKey` selects and `ConsumeOneTimePreKey` marks by the id alone.
* `Uploads`: a completion and a rename read the row and write all of it.
* `Broadcasts`: `BulkInsert` is one round of the loop; `aborted` is the state
  PostgreSQL puts the transaction in at a unique violation, over which the loop
  goes on.
* `Setup`: a request is a process. A migration file is sent as one string, so it
  is one transaction. The eight users of the seed are one, who stands for all.

## 3. Runs

| Run | Question | Result |
|---|---|---|
| `outbox` | does the outbox of one process keep the ledger, causal order and every row, through a kill, failing statements, a failing bus, an undecodable row? | holds |
| `outbox_stuck_after_crash` | does every recorded event end COMPLETED or FAILED? | violated |
| `outbox_two_workers` | is an event published by one process only? | violated |
| `hub` | do pings wait, what can panic, do connections and goroutines end? | holds |
| `hub_presence` | map, limit, presence with login, failing statements and Stop | holds |
| `hub_events` | does an event reach the connections of its conversation? | violated |
| `rate_limits` | exactness, expiry and slack of both limiters | holds |
| `send` | what sends that overlap keep: atomicity of those that met no other, one message for all retries, an event for each answer, an end of the waiting | holds |
| `send_overlap` | atomicity of sends that overlap in one process | violated |
| `send_metadata` | is a valid send that meets no failure stored? | violated |
| `services` | which overlap or stop does it take to lose, revive, double or leave behind what a request was answered? | holds |
| `registration` | is a registration for a free name accepted? | violated |

**What `services` shows.** Each property names the overlap, or the stop, without
which nothing goes wrong, and the run shows that nothing less will do:

* accounts: a revoked session lives again only through a refresh that overlapped
  the revocation (`RevivedOnlyByOverlap`); a client loses its session for an old
  token only if a token was presented twice (`MismatchMeansReuse`); a reset
  leaves no older session alive (`ResetClosesSessions`);
* profiles: a name, setting, password or status is lost only to an overlapping
  whole-row update; a block that was answered holds (`ProfilesHold`);
* calls: `DurationMatchesTimes`, `EndAnnounced`, `StateEndsWithCall`;
* receipts: what was answered is there with its event, what was not left nothing
  on any message of its list, and a refusal is a race (`MarksHold`);
* creation: one that met no other is whole or not at all, and while none overlap
  the field is the pool's between them (`CreatedAsOne`); a change that was answered is lost
  only to a creation it met (`ChangeLostOnlyToCreation`);
* conversations: columns, and numbers given out twice, need an overlap; the
  answers to additions, removals and deletions agree with the rows
  (`ConversationsHold`);
* messages: a reader who pages to the end sees each numbered message that stays,
  once, whatever is sent and deleted meanwhile; reactions, stars and votes are
  what their answers say (`MessagesHold`);
* keys: a one-time prekey goes to two clients only by overlap, and no rotation
  leaves a device without a signed prekey (`KeysHold`);
* uploads: a completion stays, unless deleted, reported failed or overwritten by
  an overlapping update (`CompletionIsKept`);
* broadcast lists: a bulk addition adds all or nobody (`BulkAddsAsOne`);
* setup: migrations that ended well left the whole schema (`SchemaComplete`), a
  seed that ended well is complete, whatever was killed before (`SeedWhole`).

**Bounds.** `outbox`: three events (one split, one undecodable) with a batch of
two, so that a batch is smaller than the backlog and causality has a chain; a
retry limit of two, so that the limit is tested with a value reached and one
not; one kill; one tick a row, since only the order of the stamps of one process
is ever looked at. The two violations need one event and one or two processes.
`hub`: two connections of a user that may hold one is the smallest eviction;
a send channel of two with one ping token keeps the ratio of the code, where
`2 * MaxPingMessages <= cap(send)` (the assumption `TwoRefillsFit`: `writeWait`
is shorter than the refill period). `hub_presence`: three connections of a user
that may hold two, so that a user can keep one connection while another is
evicted or leaves. `rate_limits`: two requests per window of four half seconds
and a clock of two windows, the least in which a counter ends and the next one
begins. `send`: a send, its retry on another process, and another send of
the first process to an unknown device, which overlap or not; one kill.
`services`: three
requests, interchangeable, each of any kind its service has, on rows that exist
already where that takes a request off the list (a session, a call, seeded keys
and messages): every loss above takes two that overlap, and the third is free to
disturb them, to come after them or to make what they fight for.
`MaxCreations` allows two creations, the least that overlap; that a third is
whole after two that overlapped have left the field on a finished transaction
needs three, and is left to the theorem (`CreationsAreWhole`). `SeededCount` is three,
`MessageCount` five and `PageSize` two, so that a walk has a full page, a last
one, and two sends that come in between; deletions may be of any seeded message. Sessions do not expire and Redis does not forget a call within a
behaviour: the terms are days and minutes, a request takes milliseconds.
`registration`: one request.

**Fairness.** `Outbox`: each worker is a goroutine woken by a ticker, so
a step it can always take is taken; a stopping process runs its deferred calls.
Requests, starts and crashes are not fair. `Hub`: weak fairness on each kind of
receive of the select (Go picks among ready cases at random) and on each
goroutine; strong fairness only on a failing read, since a dead connection has
finitely many frames left. `MessageSend`: weak fairness on each request, strong
fairness on `Create`, whose row lock PostgreSQL hands out in order of arrival.
`Services` has safety properties only and no fairness.

**Deadlock** is checked for the outbox and the limiters. The hub may really
stop (after a panic, or after Stop when every goroutine has returned), and
so may the models of sends and of the services when every request is answered.

## 4. Disagreements between code and documents

The runs that are violated show these:

* A process that dies after `MarkProcessing` leaves its event PROCESSING; nothing
  ever looks at such rows again (README.md:10 promises reliable publishing).
* Two API processes that fetched the same rows publish both
  (`outbox_worker.go:76`, "Prevent duplicate processing").
* `WebSocketEventHandler.Handle` sends neither a conversation nor users with a
  message, so the hub delivers bus events to nobody (README.md:25).
* Overlapping sends share one repository field: statements run in a foreign
  transaction and message and event commit separately (README.md:23). TLC also
  finds, with failures, a request that waits on the pool for the sequence row
  its own transaction locked through another request; PostgreSQL sees no cycle
  there, so nobody is aborted.
* `Create` inserts the message before its metadata is set, and the JSONB column
  refuses the empty string: today every send fails. The other runs assume a
  database that accepts it (`EmptyJson`), to look at what lies behind.
* `Register` never sets User.Role, and the INSERT binds the empty string to the
  enum user_role, which has no such value: every registration is refused
  (API_DOCUMENTATION.md:26). The users of the other modules are those of the
  seed, which sets the role.

Seen while modelling, part of the modules as the code has it, and not stated as
a property of its own:

*Outbox and bus.* A failed publication is never retried (the row stays
PROCESSING, only retry_count grows, and the limit of ten is unreachable).
`RedisEventBus.Publish` drops the errors of Redis, so an event may be COMPLETED
and lost. A row on which `MarkProcessing` keeps failing stays oldest and fills
every batch.

*Hub and limiters.* A pong on a channel that eviction or Stop has closed panics
and ends the process (`OnlyPongPanics` says it is the only such path). A
registration still queued when Stop has emptied the map may be accepted
afterwards and is never closed. is_online stays TRUE after a crash and after
Stop, and two processes clear it for each other. The window of the Redis limiter
is fixed although `ratelimit.go:78` calls it sliding (`AtMostTwiceTheLimit`, a
part of `CountersHold`, gives its true slack).

*Messages.* `Update` writes seq_id NULL over the number the trigger assigned;
NULL sorts first in the history, and a page of unnumbered messages only cannot be
paged past. idempotency_key is stored and never looked up. As many concurrent
sends as the pool has connections wait for each other's second connection. Two
first receipts that meet refuse one client; a DELIVERED that comes after a READ
takes the status back. `fn_mark_view_once` is the function of no trigger.
`VotePoll` looks at neither closes_at nor allows_multiple.

*Commands.* command_status is created twice and keeps its first definition
(`000001_init_extensions.up.sql:95`), without EXECUTING; command_logs takes one
row with the nil id. So one command would be logged, ever, and stop at its second
statement (`command_executor.go:72`), if a route reached the executor.

*Accounts and users.* A refresh that overlaps a logout revives the session, a
profile update that overlaps a password reset restores the old password. A device
that was deactivated can never be named in a login again, since it is not found
and cannot be added. `DELETE /users/me` (API_DOCUMENTATION.md:255) is always
refused, since user_settings refers to the user and does not cascade.

*Conversations.* Two overlapping creations can leave the service's repository
bound to a finished transaction for good: every later request of the process
fails. `GET /conversations` without `page`, and the list of completed uploads,
compute a negative OFFSET, which PostgreSQL refuses. The read mark may go back.

*Calls.* Connecting a call that is over moves its connected_at and is answered
with an error. `AddParticipant` counts participants with the status 'JOINED', as
API_DOCUMENTATION.md:1079 and `redis/signaling.go:38` do, but the enum
participant_call_status has no such value, so nobody can ever be added, and
`GetActiveCalls` fails for the same reason. A quality metric has the nil id, so
there is one.

*Keys and lists.* Identity keys, signed and one-time prekeys and broadcast lists
are inserted with the nil id, so that each of these tables takes one such row in
all: an upload of more than one one-time prekey fails, and so does a rotation
when any device has uploaded a signed key before. `BulkAddRecipients` goes on after
a unique violation, but the transaction is aborted and its COMMIT an error: a list
with one known recipient adds none.

*Uploads.* `DeleteStale` takes the age from its caller and zero if there is none:
any upload in progress then goes.

*Setup.* Two processes that start at once may collide in the catalogue, and the
loser exits (`log.Fatalf`). `migrate down` (`cmd/migrate/main.go:21`, "Rollback
all SQL migrations") drops the triggers and stops at a syntax error in
`000003_indexes.down.sql`, after which messages get no number until the next
start. `truncate` always fails, since two of its tables do not exist. `reset`
keeps types and functions. A second `seed-dev` adds the conversations, messages
and lists again, replaces identity and signed keys and keeps one-time keys.

## 5. Proofs

Every invariant, action property and refinement that a passing run checks is
proved for all values of the constants; what is left to TLC is liveness (see the
end of this section). The proofs assume what the modules assume of their
constants, no more, and no theorem has another hypothesis. Few of the properties
are inductive, so each module begins with the invariant that is.

### The outbox: `OutboxProofs`, `LedgerProofs`

For any events, processes, batch size and retry limit (`OutboxAssumption`), with
or without crashes and failures, and for any set of split or undecodable events:
`TypeCorrect`, `AtMostOnce`, `Completed`, `OnlyCommitted`, `BusOutlives`,
`OrphansHaveCause` and `Causal`, each `Spec => []P`.

`IInv` strengthens them: `WorkerInv` ties `pc` to `batch`, `cur`, `running` and
`phase` (a worker out of its loop holds nothing, and a worker runs only on a
running bus of a live process); `RowInv` says that only committed rows are
visible and that an unclaimed row was neither retried nor published; `ClaimInv`
is the heart of "at most once": what a worker still has to publish (the batch,
the event in hand) it has not published, and the event in hand is claimed. A kill
preserves it because a claim is never undone: no statement writes PENDING over a
committed row. Two processes that fetch one row both satisfy `ClaimInv`, which is
why the theorem is per process and the stronger property is refuted.
`OrphanHasCause` is proved from `IInv` in a second induction: an event that is
PROCESSING and in nobody's hand was in the hand of a worker that was killed
(`cut`), or met a failed publication or a failed statement of its own.

`CausalOrder` is proved in a third induction, from `OrderInv`, for processes whose
clocks are independent: `PriorInv` says that the events an event could know of in
its own process are committed and carry smaller stamps, and
`BatchInv` that each of them is claimed already, or failed on, or in the same
batch ahead of it. The order of `GetPending` is used in one place, the step of
`Fetch`: a batch is closed downwards in stamps among the rows it could see.

With one process (`SingleProcess`), `HoldInv` adds that no other worker touches
what this one holds and that a row given up was never announced. From it follow
the action property `SettledIsFinal` (`SettledFinal`), and, step by step, that
`Outbox` implements `EventLedger` under the mapping of `OutboxLedger`
(`ImplementsLedger`): a commit records, a publication announces, `MarkFailed`
abandons, everything else stutters.

### The hub: `HubProofs`

For any users, connections, limits and channel capacities (`HubAssumption`).
`QueueInv` (a connection waits in the register channel once, and is until then
neither in the map nor closed) and `MapInv` give `MapIsSound`; `BroadcastInv`
(the event handler queues messages for nobody) is why a broadcast puts nothing in
a channel. `PongInv` counts: what is in a send channel was paid for with ping
tokens, of which there was at most one refill since the channel was last
emptied; with `TwoRefillsFit` a reader never waits for room (`NeverWaits`). This
is the one theorem that uses that assumption. `OnlyPong` is the action property
that nothing but a pong to a closed channel panics. `PresenceMatches` is an
induction of its own beside these.

### Limiters: `LimitsProofs`

For any limits, window and clock (`RateLimitsAssumption`, whose `Keep >= Window`
is the ten minutes of the clean-up against the minute of the window).
`ImplementsWindow`: `AllowConnection` with the lazy and the periodic pruning
implements `SlidingWindow`. `WindowInv` says that the times kept are the newest of
all that were accepted and that those dropped are older than the window; the
lemmas above it are about sequences of times that grow. `CountersBounded`: the
Lua script lets through at most twice its limit less one in any window.
`CounterInv` dates the life of a counter by its first request: it ends a window
later, and a tick for each further request at most, because Redis rounds the TTL
that the script reads and sets again.

### Sending: `SendProofs`

For any processes and requests (`MessageSendAssumption`), with or without
failures and crashes. The run `send_overlap` refutes atomicity; the theorems say
what an overlap can take away and what it cannot.

*Whatever overlaps.* `SendTypes`. `AnsweredIsAnnounced`: the event of an answered
send is in the outbox, since it goes through the request's own transaction and
never through the shared field (`EventInv`); what an overlap loses is the
message, which clients then hear of and do not find. `StoresOnce`: of a send and
its retries one row at most is stored, in whatever transactions their rows end
up. `OnceInv`: one transaction at a time holds the sequence row (`OneHolder`), an
insert that waited for it sees what it has stored, and so of two rows with one
client_message_id one is never committed (`LiveOnce`).

*Alone.* `WholeWhenAlone`: a send that is at no time active together with another
of its process is stored whole or not at all, and stored if answered, whatever
the other sends do among themselves and in other processes. `MetInv` says that
two requests of a process are never active together without having met;
`OwnInv(r)` puts message and ciphertexts into the transaction of the request that
sends them. It does not ask for the field to be on the pool when the request
begins, since a field that is bound to a finished transaction is overwritten like
any other.

*The field.* `FieldInv` ties the field of a process whose sends have not met to
the one request at work there, and a row in somebody's transaction to that
somebody, if it has met no other: of others nothing is inserted into its
transaction. It gives `Answered` its last part, that such a process is left on the
pool, and `HoldersRun`: a request that met no other and whose transaction has the
sequence row is past its own wait for it, and the row is its own. So whoever waits
for it waits for one that goes on. With overlaps this fails, and a send may wait
for its own transaction (see 4); `EverySendAnswered` therefore asks for an end
unless sends met.

### Services: `ServiceProofs`, `AccountProofs`, `ChatProofs`

For any set of requests (`HandlersAssumption`), whatever each asks for and
wherever it stops. `HandlersInv` is the ground of all of them: requests that are
active at the same time have met, meeting is mutual, who has not arrived has met
nobody, and a request asks only for what belongs to the service of the behaviour.
The argument is then the same for every service: the invariant says of each value
that one request has read and will write later that it is still the one in the
row, or that whoever changed it was active meanwhile, and hence has met the
reader. For each service there is a lemma on what kinds of step there are (`...Kinds`),
one that the invariant survives each kind (`...Step`), and a theorem.

| Theorem | Proves | Invariant, and the point of it |
|---|---|---|
| `ProfilesLose` | `ProfilesHold` | `ProfilesInv`: a column as read equals the last answered one, or met its writer; `ContactInv` |
| `KeysAreKept` | `KeysHold` | `PreKeysInv`: who selected a one-time key that is given away has met the taker; `SignedInv` |
| `CompletionsStay` | `CompletionIsKept` | `UploadsInv`: an update holds every completion answered before it read, or met it |
| `BulkIsWhole` | `BulkAddsAsOne` | `BroadcastsInv`: recipients are added in an open transaction that an aborted one cannot commit |
| `MigrationsComplete` | `SchemaComplete` | `SchemaInv`: a migration has applied the files before its statement, or somebody drops |
| `SeedsComplete` | `SeedWhole` | `SeedInv`: rows by rows, what a seed has passed is there; `KeyPairInv` |
| `RevivalNeedsOverlap` | `RevivedOnlyByOverlap` | `RevivalInv`: a refresh about to write has met all who revoked since it read |
| `MismatchNeedsReuse` | `MismatchMeansReuse` | `ReuseInv`: the tokens of a session form a chain, each but the last presented for the next |
| `ResetsClose` | `ResetClosesSessions` | `ResetInv`: while no reset is between its two statements, sessions were opened with the password in force |
| `EndsAnnounced` | `EndAnnounced` | `AnnounceInv`: who ended the call is on the way to tell its duration, or has |
| `DurationsMatch` | `DurationMatchesTimes` | `DurationInv`: the time an end has read is the one in the row, or a connection came late |
| `StatesEnd` | `StateEndsWithCall` | `StateInv`: who will still write the state has met the end of the call |
| `CreationsAreWhole` | `CreatedAsOne` | `CreationInv`: a creation that meets no other has the field to itself and its rows in one transaction, whatever it found in the field; while none overlap it found the pool |
| `LossNeedsCreation` | `ChangeLostOnlyToCreation` | `ChangesInv`: what did not go to the pool went to a creation that is active |
| `ConversationsKept` | `ConversationsHold` | `ColumnsInv`, `NumbersInv` as above; `MembersInv` counts answers against rows |
| `MessagesKept` | `MessagesHold` | `ListInv`: a message in the list is where its number says; `WalkInv`: all numbered messages above the cursor were shown or touched |
| `ServicesTyped` | `TypeOK` | each conjunct from the invariant of its service, or as the whole step of the service keeps it |
| `MarksAreWhole` | `MarksHold` | `ReceiptsInv`: what a transaction holds is its mark on the committed row, and a list that is left still owes message 1 or holds it |

`MessagesKept` holds for any numbers of messages and any length of a page
(`MessagesAssumption`): the proof follows a page through the definition of
`Candidates` to the message with the least sequence number on it, the next cursor
(`LeastNumber`).
`CreationsAreWhole` does not depend on `MaxCreations`.

`ServicesTyped` is kept step by step, from the invariants above and, for the rows
that a request writes back, from their types when it read them (`Known`,
`OwnTypes`). Its conjunct on `Keys` counts: the tables of identity keys and of
signed prekeys hold one row of the nil id at most. `OneNil` says so without a
cardinality, and the steps keep it because PostgreSQL refuses a second such row
(`NilFree`).

Two proofs count: `MembersInv` and `HangingInv` relate the numbers of additions
and removals that were answered to what is in the table, by `AnsweredStep` (a step
adds at most one request to the answered ones of a kind) and the library's facts
on cardinality.

### What is only model-checked

* Liveness: `NoEventStarves`, `DeadConnectionLeaves`, `PumpsReturn` and
  `EverySendAnswered`. Fairness and ENABLED are out of the provers' reach.
* The properties of the runs that are violated: they are false.

No module declares a RECURSIVE operator, so that each can be proved about.

## 6. Not modelled

* Encoding, payloads, formatting, validation of requests, and all requests that
  only read, but for the history of a conversation, which is paged while it
  changes.
* Redis itself, beyond a key with an expiry: the Pub/Sub between the bus of one
  process and the handlers of all of them loses what is published while a
  subscriber is away.
* The connection pool (`pkg/database/postgres.go:46`, 100 connections): requests
  hold as many connections as they need. The hazard at
  `message_service.go:469` needs it.
* The command executor: no route reaches it, and each command would end at its
  second statement (see 4), so that what it does to messages and conversations
  never happens.
* An answer of the database that is lost although the statement took effect, but
  for the COMMIT of a send; a clock that is set back.
* That a failed publication is never tried again, beyond what `OrphanHasCause`
  says of the row: the code promises nothing that a property could state.
* Two hubs of two processes over one is_online.
* Of messages: attachments, link previews, the creation of polls and the deletion
  of expired messages, which is called by nothing.
* Push tokens; the offers, answers and candidates of calls; `CleanExpiredSessions`
  and `DeleteConsumedPreKeys`: no route reaches them.
* The presence and cache stores, which no handler uses (`server.go:84`);
  `Consume`, `GetStatus` and `Reset` of the rate limiter; `CreateAdminUser` and its
  neighbours in `postgres.go`, called by nothing.
* Configuration and logging, which keep no state of their own.
* Requests of one service that meet a deletion by another, and requests that run
  while a command drops the tables.

## 7. State and plan

Every component that keeps a state of its own and is reached by the program is
modelled and checked; the safety properties and types of every module are proved.
What could follow:

1. The connection pool as a resource that sends, creations and the other services
   share, for the hazard at `message_service.go:469`.
2. Requests of one service that meet a deletion by another, which would join
   modules that `Services` keeps apart.
3. Two processes over one is_online, and the Pub/Sub between them.
