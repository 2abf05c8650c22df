# Verification of cpp-mirror-leech-bot

The bot takes links from Telegram chats, has aria2 or qBittorrent download them, and
uploads the result to Google Drive, an rclone remote or back to the chat. It is one
process: a Boost.Asio thread pool runs every command, transfer and upload as a C++
coroutine; tasks are rows of an SQLite table; the downloaders are separate daemons
reached over RPC.

What is hard to get right is not in any one function. A transfer is a coroutine that is
suspended most of the time, while detached uploads, user commands, the daemons and other
transfers change what it last saw. This project models those interleavings in TLA+,
checks them with TLC on small instances and proves the safety properties with TLAPS for
every value of the constants: any number of tasks, files, commands, RPCs, reconnects,
requests, workers, feeds, migrations and renders, and every pool size.

## 1. The system

| Part | State | Operations | Talks to |
|---|---|---|---|
| Task aggregate (`domain/task.cpp`) | lifecycle state, error, downloader binding | `start_download`, `begin_processing`, `begin_upload`, `mark_*`, `attach_downloader` | held by value by use cases and commands |
| `MirrorUrl`, `LeechUrl` (`application/`) | the coroutine frame: aggregate, `PipelineState`, last `DownloadStatus` | `execute` | downloader, uploader, task repository, registry, messenger, renderer |
| `CancelTask`, `PauseTask`, `ResumeTask` | a copy of the row | `execute`, `cancel_all` | repository, registry, downloader, messenger |
| `ActiveTaskRegistry` | map from task id to cancellation flag | `register_task`, `unregister`, `cancel` | use cases (RAII guard), `CancelTask` |
| Task repository (`persistence/`) | the `tasks` table | `save` (INSERT OR REPLACE), `find`, `incomplete` | connection pool |
| Connection pool, migrator, settings and feed repositories | SQLite handles, schema version, rows | `acquire`/release, `migrate`, get/save | SQLite |
| aria2 adapter | WebSocket, table of pending RPCs | `add_*`, `status`, `pause`, `resume`, `remove` | aria2c |
| HTTP client | idle keep-alive sockets per endpoint | `request` (redirects) | the network |
| qBittorrent adapter | session cookie | the same over HTTP, login, `setPreferences` | qBittorrent, HTTP client |
| Drive, rclone and Telegram uploaders | token cache, service-account index, resumable session, child process | `upload_file`, `upload_directory` | HTTP client, subprocess runner, gateway |
| RSS poller and subscriptions | rows of `rss_feeds`: last GUID, time of the last check | `run`, poll of a feed, `add`, `remove` | HTTP client, feed repository, `MirrorUrl` |
| Progress renderer | per chat: message id, content hash, time of the last edit | `render` | messenger |
| Telegram gateway, router, authentication | pending queries, update queue, login state | `send`, `run`, handlers | TDLib |
| Dispatchers, authority | handler tables | `dispatch` | use cases |
| Process (`main.cpp`, executor, signal handler) | threads, shutdown signal | start, shutdown | everything |

What is hard, and where:

* **Interleavings inside one task.** Uploads are detached coroutines on other threads
  that share `PipelineState` with the poll loop; the loop checks the pool, awaits a save
  and only then spawns.
* **Two owners of one row.** A use case saves its own aggregate, a command saves the copy
  it loaded, and `save` replaces the whole row.
* **Two owners of one teardown.** `/cancel` signals a registered coroutine or tears the
  task down itself; which of the two is decided on a lookup that is not atomic with
  anything else.
* **Fan-out inside an upload.** The Drive uploader spawns detached workers that share an
  index, an error slot, a token and a timer on which the spawning coroutine waits.
* **Shared connections.** Sockets outlive requests; one that is returned in the wrong
  state gives the next request the wrong reply.
* **Crashes.** Nothing is resumed at start; rows and downloads outlive the process; the
  schema may be migrated by two processes, one of which is killed.
* **Threads beside coroutines.** TDLib's receive thread and the thread that attends to a
  child process meet coroutines on a strand, or on none, over timers, slots and pids.
* **Load, change, save.** Settings and the status message of a chat are read before an
  await and written after it.
* **Termination.** The poll loop, the drain loop and the acknowledgement "Graceful
  shutdown signal sent." promise things that must eventually happen.

What makes the parts correct: the pool is bounded and counted exactly; no upload outlives
its task; nothing is sent twice; Completed means nothing failed; the row tells the truth;
a command never deletes files under a live coroutine nor reaches into another chat; a
cancelled task releases its download; tasks end; an upload that reports success has had
everything it planned taken over; a request reads its own reply, and its credentials stay
with the origin they were meant for; a request to Telegram gets its own answer, or an
error; a chat has one status message; a login step is taken once, a database connection
lent once; the schema is what its version says; settings keep what was saved; an update is
answered; no child process is left behind and no part of a file is lost or sent twice.

`PROJECT.json` lists every part with its sources, every hazard at its line, and the map
from definitions to code.

## 2. Modules

| Module | Models |
|---|---|
| `TaskState` | the transitions of the `Task` class as operators on states |
| `TaskLifecycle` | the abstract specification: a task moves along those transitions, terminal states are final |
| `TransferPipeline` | `MirrorUrl::execute`/`LeechUrl::execute`, the upload coroutines, the registry guard, the row and the download at the backend |
| `TaskCommands` | `CancelTask`, `cancel_all`, `PauseTask`, `ResumeTask`, a crash; composes them with any number of transfers; `Spec`, fairness |
| `TaskProperties` | what the composition is checked against |
| `TaskInvariants` | the inductive invariants |
| `MCTaskCommands` | values of constants, symmetry |
| `TaskProofs` | their proofs |
| `Aria2Rpc`, `MCAria2Rpc` | the WebSocket RPC channel of the aria2 adapter: calls, table of pending calls, reader, reconnects, deadlines |
| `Aria2RpcProofs` | its inductive invariant and proofs |
| `DriveUploader`, `MCDriveUploader` | `GoogleDriveUploader`: `upload_file` with its chunk workers, `upload_directory` with its file workers, the shared token, the resumable session |
| `DriveUploaderProofs` | its inductive invariant and proofs |
| `HttpClient`, `MCHttpClient` | `BeastHttpClient::request` and its pool of sockets |
| `HttpClientProofs` | its inductive invariant and proofs |
| `RssPoller`, `MCRssPoller` | the RSS poller, the subscription commands, publishers, restarts |
| `RssPollerProofs` | its inductive invariant and proofs |
| `TelegramGateway` | `TelegramGateway`: `await_send`, the strand and its table of pending requests, the receive thread, the sweep, stop and drain |
| `AuthenticationFlow` | the login: the listener, its detached requests, `authenticate` |
| `ProgressRenderer` | `render` and `force_refresh` of the status message of a chat |
| `TelegramBot`, `MCTelegramBot` | composes the three with the main thread, a handler of updates, TDLib and users |
| `TelegramBotProofs` | the inductive invariants of the gateway, the login and the status message, and proofs |
| `ConnectionPool` | `SqliteConnectionPool`: slots, waiters, handles |
| `SchemaMigrator` | `migrate` in the bot and in `cmlb --migrate-only` |
| `Settings` | the settings repositories, `UpdateUserSettings`, `UpdateBotSettings`, the seeding by `main` |
| `Dispatcher` | parser, authority, `CommandDispatcher`, `CallbackDispatcher`, `ShowStatus`, `ShowStats` |
| `BotFront`, `MCBotFront` | composes these four: start, seeding, updates, kills |
| `BotFrontProofs` | one inductive invariant for each of the four, and proofs |
| `Subprocess` | `Subprocess::run` and the POSIX `spawn_sync`: coroutine, worker thread, child, canceller |
| `RcloneUploader` | the probe and the copy, on `Subprocess` |
| `TelegramUploader` | splitting, the pool of part workers, the pool of file workers |
| `Uploads`, `MCUploads` | the two uploaders with their fairness |
| `UploadsProofs` | one inductive invariant for each uploader, and proofs |

### How state and actions correspond to the code

`pc[t]` is the await at which the coroutine of task `t` is suspended. An action is the
code from one `co_await` to the next, so everything else in the process can run between
two actions of a task, as it can on the thread pool. Code between two awaits is one step:
what it shares with other threads is guarded by `PipelineState::mu` or by the registry's
mutex, and each critical section is either its own action (`PipelineSpawn`, the upload
results) or the only shared access of its action. Saves, renders and edits are awaits;
renders and edits change nothing the model has.

| Variables | Code |
|---|---|
| `mem`, `bound` | the coroutine's own `Task`: `state_`, whether `attach_downloader` ran |
| `dlDone`, `trans`, `seen`, `idx` | `download_complete`, `transitioned_to_uploading`, `final_status.files`, the position in the loop over them |
| `upload`, `inFlight`, `completed`, `failed` | the upload coroutine of each file, and the three counters of `PipelineState`; `queued` is "not `none`" |
| `sent` | how often a file reached its destination (ghost) |
| `rowState`, `rowBound` | the row in `tasks`: `state`, whether `downloader_id` is set |
| `registry`, `flag` | `ActiveTaskRegistry::map_` and its atomic flags |
| `dl`, `listed`, `landed` | the download in the daemon: its state, whether its files are known, which are complete (external) |
| `cpc`, `ctask`, `cstate`, `cbound`, ... | a command: where it is suspended and the copy of the row it loaded |
| `told` | what chats were told (ghost, for the statements about replies) |

The two use cases are one machine. They differ where an `upload_directory` that found
nothing completes a mirror and fails a leech; `kind[t]` selects. Failures are
nondeterministic and grouped by collaborator in the constant `Faults`, so that a property
that needs, say, successful saves can state it and a run can switch it on or off.

Data is abstracted: a task id, a chat and a command are model values, a file is its
position in the list, a save writes only the columns some decision reads. Messages, byte
counts, timestamps and settings are left out.

### The aria2 channel

`cpc[c]` is the await of call `c`: the post to the strand (`posted`), the post in
`send_text` (`send`), the write (`writing`), the wait on the wake-up timer (`waiting`),
the last post (`woken`). What runs on the strand between two awaits is one step. The
completion of a write is not on the strand, so it is not ordered with what the reader
does. `id` is the request id of a call, twelve random characters in the code, of which the
model supposes no more than that they do not repeat (`NewId`). `pending` are the calls
that have an entry in `pending_`; it is looked up, extended and erased by id (`Find`,
`Emplace`, `Erase`), and an answer bears nothing else: were ids used again, `OwnAnswer`
would fail on an entry, a request or an answer that a deadline left behind. `response` and
`failure` are the two optionals of a slot. `with_timeout` runs the operation and a timer as
a parallel group; when the timer wins, the operation is cancelled and throws at its next
await. During or right before the write that is inside the `try` of `send_text`, so every
other call is failed and the connection closed; in the wait it is outside, and `Timeout`
leaves the entry in the table. Two
writes at a time are outside Beast's contract; `WriteStalls` is the outcome in which the
handler of the second is dropped. Connection `n` starts a call named `n`, the push of the
global options. Left out: the growth of the reconnect delay, the TLS handshake, contents
of messages.

### The RSS poller

`pp` is the await of the poller. A GUID is its rank in the order of strings, a document a
set of GUIDs that publishers change at any time, `last` and `due` the columns `last_guid`
and `last_checked_at` (old enough or not). The poller works on `copy`, the rows of
`list_enabled`, while `Add`, `RemoveFind` and `RemoveRow` change the table. `handled`
counts handler calls (ghost). The filters are the constant `Wanted`.

### The Drive uploader

`pc[p]` is the await of worker `p` or of `Main`, the coroutine that runs `upload_file` or
`upload_directory`; `next`, `live`, `abort` and `fileId` are the members of `Shared`, and
`listed` is the length of the plan. A worker's turn is split wherever it touches `Shared`
or suspends: the look at `abort`, `fetch_add`, `acquire_bearer` (two critical sections with
the exchange between them), the PUT, the verdict on its reply, the exit guard. Google
(`stored`, `session`, `minted`, `revoked`) takes chunks in any order, may store a chunk and
lose the reply, and may refuse tokens it has issued. `cancelled` reaches `Main` only: the
workers have no cancellation slot. `Exit` wakes `Main` only if `Main` waits by then, which
is what cancelling a timer does. In a directory, one `upload_file` is one step, since it
shares nothing with its siblings but the token; it need not come, since it has a join of
its own. The body of a worker may throw (`WorkerThrows`, with the ghost `threw`): the
exception is dropped with the detached coroutine, the exit guard counts the worker out, and
no error is recorded.

### The HTTP client

`pc[r]` is the await of coroutine `r`, which makes one request after the other. A socket is
what tells it from a new one: the requests whose replies are due on it, and whether it
idled longer than `kIdleEviction`. `idle` is the deque per key, taken from the back and
pruned at the front; `known` the keys of the maps. `SocketsAge` is the clock: the front of
a deque is older than its back. `EndpointKey` and `same_origin` both compare scheme, host
and port, so one endpoint stands for both; hosts that differ in case are one origin and two
keys, which only costs a connection. `got` and `sentAuth` are ghosts.

### The Telegram side

`pc[c]` is where coroutine `c` is in `await_send`: posted to the strand (`hop`), sent,
waiting on its timer, woken. `strand` is the queue of what other threads have posted:
registrations, answers, authorization states, updates. A coroutine that was spawned on the
strand of a chat goes on there and not on the gateway's (`OffSend`, `OffWait`), so it
registers and starts to wait in two steps between which its answer may arrive. `late`
marks a request that was registered after the drain, which nothing answers. TDLib
(`asked`, `tdAuth`, `authOut`, `shown`) processes requests in any order, may carry out what
it reports as failed, and is external, as are the users who delete messages.
`acted`, `failures` and `unsure` are ghosts that say what a property excuses. There is no
clock: the sweep may come at any time after registration, and any render may fall into the
throttle.

### The front of the bot

`stage` is how far `main` is; `Killed` drops everything but the tables (`rows`, `schema`,
`user`, `bot`). `free`, `queue` and `held` are the channel of the pool, its waiters and the
handles. A migration is `Begin`, `RunSql`, `Record`, `Commit`, each of which may fail or be
the last thing the process did; `Once` are the migrations whose SQL cannot run twice.
`call[c]` is a repository call in its use case: load, change, save, with a connection
borrowed for each. `at[h]` is what the handler of an update awaits. The use cases that
other modules model are one step of `RunUseCase` here, with a result. `want` is the ghost
of `ChangesKept`: the changes applied one by one, except where a save was overtaken
(`stale`). Update texts are records of a name, an argument, a sender and a chat.

### Processes and the other uploads

`rp` is `run()`, `wp` its worker thread, `child` the process, `pid` and `flag` the members
of `CancelHandle`, and `aim` a canceller between its read of the pid and `kill`. SIGTERM
makes a child exit or does not, so it is part of `ChildExits`. A cancelled coroutine throws
at its next `co_await`, and `run()` then destroys a joinable `std::thread` (`Unwinds`):
`RunTerminates` ends the process (`down`). An exception on the worker thread after the fork
is caught and made an error, with the child left running and its pid published
(`DrainThrows`). `readiness` is the cached verdict on rclone.
In `TelegramUploader`, `next`, `abort`, `live` and `filled` are the members of
`SharedState` (or `DirShared`), `disk` the parts in the file system, and `fired` whether
the timer that the last worker cancelled had a waiter. In a directory, one `upload_file` is
one step, which need not come: it waits for workers of its own. `accepted` counts the
messages that TDLib has accepted for an item, `held` what a directory holds, of which
`total` is what the walk has listed; a worker that throws (`Throws`, `threw`) leaves without
an error.

## 3. Runs

| Run | Instance | Shows |
|---|---|---|
| `Transfer` | one task of either kind on any backend, 3 files, pool of 2, every fault but failing saves, one crash | `SlotAccounting`, `NoUploadOutlivesTask`, `SentAtMostOnce`, `CompletedIsClean`; the aggregate implements `TaskLifecycle` (`InMemoryLifecycle`) |
| `Cancel` | one task, two commands of any kind from two chats, one crash | `TeardownOwnership`, `RowAgrees`, `BackendReleased`, `ChatIsolation` |
| `Ends` | one leech, 2 files, pool of 1, one /cancel or /pause, a seeding limit, failing saves and removes, uploads that fail or throw | liveness: `CancelHonoured`, `SignalledTaskEnds`, `TransferEnds` |
| `Drive` | two workers, two chunks or files, one retry, one revocation, workers that throw, cancellation at any point | `NoSilentGap`, `OkMeansWhole`, `SessionOutlivesPuts`; liveness: `JoinEnds` |
| `Http` | three coroutines, a host over TLS and in the clear, two redirects, two idle sockets per endpoint | `OwnReply`, `NoOldSocket`, `AuthConfined` |
| `Rss` | two feeds, one of them with three entries of which one is filtered out, one restart or failed database call | `HandledOnce`, `NothingPassedOver`; liveness: `FeedPolled` |
| `Aria2` | one call and the option calls of two connections | `OwnAnswer`, `NotStranded`; liveness: `CallEnds` |
| `Telegram` | a login with one option; or a handler whose upload can be cancelled; or two tasks that render a chat twice; a stop at any point | `CallsAnswered`, `LoginStepOnce`, `StatusMessage`; liveness: `CallEnds` |
| `Front` | three migrations, two configurations, one connection, two handlers with a choice of commands and taps, a second migrating process, kills | `PoolConserved`, `SchemaMatchesVersion`, `ChangesKept`, `Answered`, `QueryAcked`, `OwnerKnown`; liveness: `UpdateHandled` |
| `Uploads` | two rclone uploads, or a Telegram upload of up to three parts or files by two workers that may throw, with cancellation | `OkMeansAccepted`, `NothingLeft`; `LateCancelHarmless` over every step; liveness: `UploadEnds` |

`Transfer`, `Cancel` and `Ends` use `MCTaskCommands`; the others the `MC` module of the
specification they are named for. `CallsAnswered`, `StatusMessage`, `OkMeansAccepted` and
`NothingLeft` are conjunctions whose parts have names of their own. What the proofs of
section 4 establish beyond the runs (types, `PoolBounded`, `PendingTable`,
`NeverAbandoned`) is not checked a second time; the `TypeOK` of the modules without proofs
says what their variables hold.

Bounds. The interesting events of the pool need more files than slots and at least two
slots (a slot freed while another upload runs), which 3 files and a pool of 2 give. Tasks
share nothing but the registry's map and the table, each under its own key, so one task
is enough for everything but commands that span tasks, and `ChatIsolation` is also proved
for any set of tasks. Two commands are what it takes for a command to act on a row that
another command wrote; one crash separates a task from its coroutine for good. The proofs
drop all of these bounds. `Commands` run once each, so behaviours are finite apart from
polling. For the poller, two feeds are what it takes for one to hold up the other and for
a URL to be removed and subscribed again; three entries allow one behind and one ahead of
a filtered one. For the channel, two connections separate a call from the connection it
registered on, and three calls in all overlap in every place. For the Drive uploader, two
workers with two items have a first and a last to leave and one whose error the other
meets anywhere; one retry and two tokens let a refused request be repeated. `MaxTokens`
names the last token, which stands for all later ones. For the HTTP client, three requests
fill a deque of two and find it full, two redirects allow leaving the origin and coming
back, and the requests are symmetric. For Telegram, the status message needs two renders
that overlap, and the login, the handler and the renders share only the strand and the
table, so `Init` lets a behaviour begin before the login or after it with one of the others
to come. For the front, one connection is what makes handlers wait for each other, and two
handlers are a load and a save that interleave; updates are not received while the second
process migrates, which happens before the bot serves or not at all. For rclone, two
uploads probe at the same time; for the Telegram uploader, three items are one more than
there are workers.

`Transfer` and `Ends` allow uploads that throw, whose drain never ends; they therefore do
not check deadlock; in `Aria2` and `Telegram` all calls may be over after a shutdown, and
the uploads of `Drive` and `Uploads` are made once. The other runs check it.

Fairness (`FairSpec`): weak fairness of each coroutine, outside the one-shot upload, and
of each command. RPCs have timeouts, timers expire, SQLite calls return, and the executor
runs every ready handler. Nothing is assumed of users, crashes, downloads or uploads; the
properties that need them say so in their hypotheses: `DownloadsProgress` (of
`TransferEnds`) and `UploadsEnd` (of all three), since an uploader whose join has missed
its wake-up never returns. The three properties except a task one of whose uploads threw
(`UploadThrew`), which the code leaves in `in_flight` for ever, and `TransferEnds` a
download that is paused, or halted at its seeding limit, before the poll loop saw it
complete (`PausedUnseen`); both happen in the run. `Aria2Rpc` assumes weak fairness of
each call, whose deadline always runs, and nothing of aria2c and the network; `RssPoller`
of the poller's own awaits, but not of the handler, which is a transfer: `FeedPolled` has
it as a hypothesis. `DriveUploader` assumes weak fairness of `Main` and of each worker,
but not of the `upload_file` of one file of a directory, which `JoinEnds` has as a
hypothesis: backoff timers expire and the HTTP client sets a deadline on connecting,
writing and reading (name resolution and the TLS shutdown, which have none, are taken to
return). `HttpClient` is checked for safety only. `TelegramBot` assumes weak fairness of
the strand, the receive thread, the sweep and the login's coroutines until the bot is
stopped, and nothing of TDLib, so that it is the sweep that ends a call; `CallEnds` leaves
out the coroutines on a chat's strand, which may be woken before they wait. `BotFront`
assumes it of repository calls and handlers: SQLite has a busy timeout, and calls to
Telegram end (`CallEnds`); but not of the use case that a command runs, which may be a
whole mirror. `UpdateHandled` therefore supposes that the use cases of a handler end, of
this handler only: one that is stuck must not hold up the others. `Uploads` assumes it of
coroutines and worker threads, whose deadlines come, but not of the child, which need not
exit, nor of the `upload_file` of a file of a directory, which `UploadEnds` has as a
hypothesis; it is about behaviours in which no `run()` is unwound, and excuses the wake-up
that comes before the wait.

### Statements the code does not meet

Each of these runs states what a document or a comment of the repository says and ends
with a counterexample; "findings" in `PROJECT.json` quotes the line.

| Run | Counterexample |
|---|---|
| `EveryFileSent` | files that find the pool full at the poll that reports Complete are never sent; the task is Completed |
| `CompletedStays` | /cancel with an old copy of the row overwrites Completed with Cancelled |

More behaviours of the same kind are in the models; the properties around them name the
case they leave out:

* an upload that throws, as a cancelled one does, keeps its slot in `in_flight`, and `drain_uploads`
  (`mirror_url.cpp:311`: "Block the use-case coroutine until every spawned upload has
  finished") polls for ever, and so does the poll loop (`UploadThrows`, `UploadThrew`);
* four coroutines wait on a timer that another cancels to wake them, and wait in vain when
  the cancel comes first: an aria2 call, which then sleeps until its deadline
  (`aria2_downloader.cpp:397`), the joins of the Drive and the Telegram uploader, which
  never end (`google_drive_uploader.cpp:539`: "the last to finish cancels the join timer so
  the main coroutine wakes"), a call to Telegram from a chat's strand, and `authenticate`;
* `telegram_gateway.cpp:180` says "All accesses to `pending` happen on `strand`", but a
  coroutine of another strand and the drain of `run()` are not on it (`OffSend`, `Drain`);
  a request that is registered after the drain is never answered (`late`);
* a send that timed out may have happened, so a chat may get a second status message;
* cancelling an rclone upload while its child runs ends the process (`RunTerminates`),
  where `subprocess.hpp:79` and CHANGELOG.md:103 have the child terminated and `run()`
  return; an exception on the thread after the fork leaves a child that nobody reaps
  (`DrainThrows`, `subprocess.cpp:655`); between the reaping of a child
  and the withdrawal of its pid, or with a canceller that has read the pid, SIGTERM may go
  to a stranger (`KillNow`);
* the verdict of a failed probe of rclone is kept until the bot is restarted
  (`ProbeReturns`), and the default deadline of a child, five minutes, is that of an upload
  (`Deadline`);
* a cancelled Telegram upload removes parts under the workers that send them (`Joined`),
  and a split that fails leaves its parts on disk (`Splits`);
* a tap that is overtaken between its load and its save undoes the other's change, and
  /settings, which only shows, saves as well (`StoreUser`, `stale`);
* the configured owner, sudo users and chats count at the first start only
  (`StartSeed`; docs/command_reference.md:17 names `telegram.sudo_users`), and a seeding
  that fails leaves a bot whose owner is nobody (`OwnerKnown`);
* a command whose database call fails is not answered (`CommandHas`);
* aria2's status lists unfinished files, and the pipeline uploads what is on disk
  (`StatusFiles`; CHANGELOG.md:71 says "as soon as the downloader reports each file
  `complete on disk`");
* the qBittorrent adapter reports no files, so the one-shot path fails every finished
  torrent (`StatusFiles`);
* GUIDs are compared as strings, so an entry that sorts before an older one is never
  handled; `NothingPassedOver` assumes publishers that number them upwards (`Ordered`);
* a torrent paused at its seeding limit between two polls is reported Paused and polled
  for ever (`DownloadHalts`, `PausedUnseen`);
* a worker of a Drive or Telegram directory upload that throws, as `meta.dump()` does on a
  name that is not UTF-8, is counted out by its exit guard and recorded nowhere: the upload
  reports success without that file (`WorkerThrows`, `Throws`); a file in chunks or parts
  misses its id or a result and reports an error;
* TDLib answers `sendMessage` with a message that is still pending, and the update that
  says that it failed is ignored (`telegram_gateway.cpp:268`): Telegram's success means
  accepted, not delivered, and the parts are removed by then (`SendsWhole`, `Sends`);
* a deadline during the write of an aria2 call, or right before it, fails every other call
  and closes the connection (`Timeout`);
* a /cancel between the first save and the registration stops nothing (`SaveQueued`,
  `TakeOver`), and a signal after the last look at the flag is ignored;
* cancelling a Drive upload ends the wait for its workers, not the workers, and the session
  is not aborted (`Interrupted`);
* a directory whose walk fails half-way is uploaded in part and reported as uploaded, by
  Drive and by Telegram, since a failed increment ends the loop that would look at its error
  (`Walk`, `DirectoryBegins`);
* the pool of the HTTP client never refuses an endpoint, because `take_*` has inserted its
  key (`TakeSocket`).

## 4. Proofs

Every safety property that a passing run checks is also a theorem, for all values of the
constants under the assumptions of the modules. A theorem is about `Spec`, without
fairness, which the fair specification of the run implies. Each proof has the same shape:
an inductive invariant, found by strengthening the property until TLC and then the prover
agreed that it is preserved; one lemma per action, or per kind of step where many actions
do the same to the part of the state in question; and a temporal step that combines them.

**Transfers** (`TaskProofs`). Assumptions: `ConstantsAssumption` and `CommandsAssumption`,
that is, positive numbers of files and slots, known backends, kinds, faults and operations,
and a chat for every task. Types are not inductive on their own:
an upload that ends decrements `inFlight`, and that stays a natural number only because
`inFlight` counts the uploads that have not reported. The inductive invariant is
`SystemTypeOK /\ TransferInv`, where `TransferInv` holds for every task

* `MemoryInv`: the aggregate's state at each await, so that no transition is refused;
* `PoolInv`: the exact count, its bound, that the slot seen by `can_spawn_more` is still
  free two awaits later (only this coroutine takes slots), and that no upload runs outside
  the loop;
* `SendInv`: what was sent was sent by a pooled upload that ended well, or by the one-shot
  path, which can only run if no pooled upload was ever spawned.

From it follow `TypeCorrect`, `SlotAccountingHolds`, `PoolBoundedHolds`,
`NoUploadOutlivesTaskHolds`, `SentAtMostOnceHolds`, `CompletedIsCleanHolds`, and
`InMemoryLifecycleHolds`: every step of the system is a step of `TaskLifecycle` on `mem`,
or leaves it alone.

**Commands** (`TaskProofs`). `CommandInv` adds

* `OwnershipInv`: the registry is the set of guarded coroutines, and a downloader id, in a
  row or in the copy a command holds, exists only once the use case is past
  `attach_downloader`. So a command that wants to remove a download and finds no guard is
  late, never early, which is `TeardownOwnership`;
* `RowInv`: a use case about to return has written its verdict;
* `ReleaseInv`: whoever writes a bound Cancelled row has removed the download;
* `ChatInv`: a command past its checks is a cancel of the owning chat.

It gives `TeardownOwnershipHolds`, `RowAgreesHolds`, `BackendReleasedHolds` and
`ChatIsolationHolds`.

**The aria2 channel** (`Aria2RpcProofs`). Assumption: `Aria2Assumption`. `NotStranded`
needs to know what happens to a call before it waits: `SameConnection` says that a
registered call with an empty slot has seen one connection only, because whoever takes a
connection down fails all of `pending_`, and `PendingTable` and `Unregistered` say that
the call is in there. `IdInv` says that an id belongs to one call, on the wire and in the
table as much as in a call that runs, so that looking up by id is by call (`ById`);
`SlotInv` that a slot holds the call's own response, whichever entry a late answer finds,
and that a woken call's slot is full. `OptionCalls` keeps the calls of future connections idle. From
`Aria2Inv`, their conjunction with the types, follow `ChannelTypeCorrect`,
`OwnAnswerHolds`, `NotStrandedHolds`, `PendingTableHolds` and `NeverAbandonedHolds`.

**The HTTP client** (`HttpClientProofs`). Assumption: `HttpAssumption`. `HttpInv` adds to
the types and `OwnReply`

* `SocketInv`: on the socket of a request its own reply is due, and only while it reads;
* `IdleInv`: in the pool nothing is due, a deque is within its limit, and its old sockets
  are at its front, which is why pruning the front is enough (`PruneKeepsFresh`);
* `AuthInv`: past the head of the loop a request with its header is at its origin. At the
  head it need not be, so `AuthConfined` is not inductive on its own.

It gives `HttpTypes`, `HttpOwnReply`, `HttpNoOldSocket`, `HttpPoolBounded` and
`HttpAuthConfined`.

**The front of the bot** (`BotFrontProofs`). Assumptions: `PoolAssumption` (a positive pool,
finitely many coroutines), `MigratorAssumption`, `ConfigAssumption` (a configuration names
an owner, which `Configuration::load` sees to), `DispatcherAssumption`, `FrontAssumption`.
The four parts share few variables, so each has an invariant of its own:

* `PoolInv`: whoever waits holds nothing and waits once, and no slot is in two places. That
  nobody waits while a slot is free is part of `PoolConserved` and is why releasing to the
  first waiter is enough;
* `MigrateInv`: `VersionInv`, the recorded versions are an initial segment and the schema is
  what they say, and `TransactionInv`, a process in a transaction is the only writer and has
  done its own migration and no more. The second is needed because both processes decide
  what to run on versions they read before they have the lock;
* `SettingsInv`: a save that nobody overtook writes the stored record changed by its own
  mutator (`CallInv`), and at each stage of the start only `main` calls, and what
  (`StageInv`). `OwnerKnown` follows from the order seeding, authority, serving;
* `HandlerInv`: what was said and done so far, at each place of a command or a tap.

They give `ConnectionsConserved`, `SchemaIsItsVersion`, `SettingsKept`, `OwnerIsKnown`,
`CommandsAnswered`, `TapsAcked` and `FrontTypes`.

**Processes and the other uploads** (`UploadsProofs`). Assumption: `TelegramAssumption`. For
rclone, `RcloneInv` says which states of the child go with which place of the worker thread
(`ThreadOf`) and of the upload (`UploadOf`); a published pid is that of a child that the
thread has still to withdraw. For Telegram, `CountInv` is the exact count
`live = Cardinality(Active)`, without which the last worker could not be told; `ItemInv`
says that an item below `next_index` has a result or is in the hands of one worker, who
has not sent it, unless the upload was aborted or a worker threw, and that a result means
accepted, which is all that a file in parts needs; `MainInv` that the uploading coroutine
outlives its workers unless it was cancelled. They give `SuccessIsAcceptance`,
`NothingIsLeft`, the action property `LateCancelIsHarmless`, and `UploadTypes`.

**The RSS poller** (`RssPollerProofs`). Assumption: `RssAssumption`. `RowInv` says that the
copies of a round are of rows that have not changed since; `CountInv` that what was handed
on beyond `last_guid` is put down to a mishap (a restart or a failed `update_state`) before
the feed is processed again; `OrderInv`, for publishers that number GUIDs upwards, that
every wanted entry of the document is still to be looked at, handled, or beyond whatever
the round will reach; the last is for an entry that is published while its feed is being
processed. They give
`EntriesHandledOnce`, `NothingIsPassedOver` and `RssTypes`.

**The Drive uploader** (`DriveUploaderProofs`). Assumption: `DriveAssumption`. `PoolInv`
counts the workers that have left (`live + Cardinality(Gone)` is the parallelism, the
workers still to be spawned included); `CoverInv` says that what was claimed is stored or
in a worker's hands unless there is an error or a worker threw; `SentInv` that the file id
comes only when all chunks are stored, so that a file is whole even then; `FinalInv` that once all chunks are stored
the file id has arrived or a worker will still have it; `MainInv` that the session is
deleted only with the pool empty, which a cancelled coroutine that overtakes its workers
never reaches. They give `NothingIsLeftOut`, `SuccessIsWhole`, `SessionIsKept` and
`DriveTypes`.

**The Telegram side** (`TelegramBotProofs`). Assumptions: `GatewayAssumption` and
`BotAssumption` (the coroutines of login, handlers and renders are different callers,
finitely many handlers, a text is not 0). Most actions do one of a few things to a caller
of `await_send`, so they are sorted once (`CallerStep`: spawn, call, register, move on, be
cancelled, return, resume, clear, receive) and each invariant is proved over the kinds; the
login has kinds of its own (`LoginKind`). `strand` is a sequence, of which the proofs use
only what is on it (`OnStrand`) and what is before what (`Before`).

* `GatewayInv`: an id is given out once, so whatever carries it in the table, at TDLib or on
  the strand belongs to one caller (`IdInv`); a stored result is the caller's own
  (`SlotInv`); once the drain has begun, who has no answer came too late (`DrainInv`); a
  caller is queued on the strand once and only while it waits for it (`SendInv`). This gives
  `CallersAnswered`.
* `LoginInv`: the client is brought up once (`BringInv`); the authorisation states on their
  way, in TDLib's queue and then on the strand, are in order and beyond the last one told
  (`OrderInv`); before the listener is installed none was acted on (`ActInv`). This gives
  `LoginStepsOnce`.
* `TokenInv` and `PhaseInv`: one render holds the token, and a render is in `await_send`
  exactly while it awaits Telegram. `AskInv`: a request that TDLib has not processed is its
  caller's last or nobody's, and neither answered nor on its way to be.
* `StatusInv`: a render awaits the request for its draft (`DraftInv`); an unprocessed edit
  is the awaited one or was reported failed (`EditInv`); a good answer is true of the chat,
  before it is heard and after (`OkInv`); the message shows the cached text or what a render
  is making of it (`TruthInv`); and `Ledger`, the sum behind `OneStatusMessage`: messages
  shown besides the cached one, plus abandoned sends that TDLib may still carry out, plus
  one if a send is about to replace a message, are at most the failures, plus one if the
  send under way has been carried out. The sum is needed because a timeout is reported
  before TDLib acts: the second message comes later than the failure that pays for it.
  This gives `StatusMessageTrue`, and with the rest `BotTypes`.

Only model-checked: the liveness properties (`CancelHonoured`, `SignalledTaskEnds`,
`TransferEnds`, `JoinEnds`, `UpdateHandled`, `FeedPolled`, `UploadEnds` and `CallEnds` of the
aria2 channel and of the gateway), since temporal reasoning about fairness and `ENABLED` is
out of the prover's reach; and the two statements that the code does not meet.

## 5. Plan

Done: the task lifecycle, the transfer pipeline, the commands on it, crashes; the aria2 RPC
channel and the HTTP client; the RSS poller; all three uploaders and the runner of child
processes; the Telegram gateway, login and status message; the start of the bot, its
database and its dispatchers; and the proofs of all their safety properties.

Next for the proofs: action properties that go with the invariants (a stored answer is not
replaced, `last_guid` never falls while a feed lives, a recorded version stays), and the
refinement of an abstract upload by the three uploaders.

Still open in the model: Drive `copy`, `count` and `remove`, which walk a remote tree with
one token; concurrent adds to qBittorrent and the comparison of snapshots, its login; a
module that says "a file is delivered or an error reported", which the uploaders implement.

## 6. Not modelled

Formatting and HTML, configuration parsing, logging, metrics, ffmpeg and 7z command lines
(no use case calls them), the contents of reports (`/status`, `/stats`), the Drive walks
behind count, clone and delete, the Win32 half of the process runner, and what a child
writes. Memory itself: a data race on `asio::cancellation_signal`, on the channel of the
connection pool or on the gateway's table is modelled by the order of the accesses, not as
corruption. An exception that leaves `execute` itself, as one of the one-shot upload
would, is not modelled; one of a pooled upload is. The three coroutines that share one
cancellation slot at shutdown (`main.cpp:516`) are dropped with the executor in every
model.
