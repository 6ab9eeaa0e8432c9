# Intuigram: verification project

TLA+ models of [Intuigram](../src/README.md), a terminal client for Telegram,
checked with TLC and, in every invariant and action property, proved with TLAPS.  Paths
below are relative to the repository; `app/`, `store/`, `lib/`, `telegram/` abbreviate
`crates/intuigram-app/src/`, `crates/intuigram-store/src/account/`,
`crates/intuigram-lib/src/` and `crates/intuigram-telegram/src/`.

## The system

Intuigram is a single-writer reducer surrounded by cooperating tasks.  The main
thread polls the terminal, the events of the account session and the futures of
running effects; the reducer turns an intent or an event into a view and at most
one effect.  The *account session* is an actor on a worker thread of its own
(Telegram client, event driver, media dispatcher).  All durable state of an
account is in an encrypted SQLite database behind one worker thread that executes
commands first in, first out.

| Component | State it keeps | Operations | What must be right |
|---|---|---|---|
| Durable outbox (`store/outbox`) | table `outbox`: operation, state, admission, retry and expiry time | admit, claim, defer, fail, conflict, complete, cancel, dismiss, retry, resolve, expire, recover, rebuild | one active row; first in, first out; no identity reused; an interrupted mutation is not replayed |
| Outbox coordinator and execution (`app/actor_session/outbox`, `app/outbox/execution`) | pending future, `poll_requested`, the item in hand | claim, start, complete, read back, decide, report | nothing lost, nothing applied twice, cancellation and outcome never contradict each other, the queue keeps moving |
| User decisions (`app/outbox/resolution.rs`, `lib/app/outbox`) | Outbox entries of the view | cancel, retry, resolve, dismiss | the view is the durable state; every state that waits for the user offers a way out |
| Event driver and update committer (`app/runtime/adapters.rs`, `update_ordering.rs`, `app/sync`, `app/types/submission.rs`, `app/actor_session/driver.rs`) | cursors, deferred updates, gap timer, commit in flight, events to send, submission and its barrier, bounded channel | take, defer, retry, commit, expose, submit, acknowledge, stop | durable before shown; no gap stepped over; nothing twice; acknowledgement only when delivered; shutdown ends |
| Account store: cache (`store/sync_write.rs`, `message_write.rs`, `saved_dialog`, `topic_write.rs`) | messages, chats, folders, drafts, cursors | atomic sync batch, page writes, reads | records and cursor change together; pages never erase newer state |
| Account store: worker, migration, recovery (`store/worker.rs`, `migration.rs`, `security.rs`, `database.rs`, `intuigram-store/src/{recovery,global,lifecycle.rs}`) | command queue, schema version, account registry | open, migrate, recover, rebuild, remove | a crash between two steps leaves something that opens |
| Application runtime (`app/runtime`) | pending and active effects, lanes, rotating poll, requested exit | admit, coalesce, start, finish, requeue on reconnection, drain | order within a lane, bounds, fairness, every accepted effect finishes |
| Actor session (`app/actor_session`) | cancellation groups, retained attachments, media queue | execute, cancel, dispatch media, reconnect, shut down | cancelled work does not come back; limits per data centre |
| Account lifecycle (`app/startup.rs`, `login`, `local_lock.rs`, `maintenance`, `authorization.rs`, `cached_session.rs`) | unlock state, session, chosen account | log in, unlock, resume, rebuild, log out | no step leaves an account half removed or locked out |
| Reducer (`lib/app`, `lib/protocol`, `lib/domain`) | history windows, optimistic messages, selection, composer, view | one transition per intent or event | windows stay contiguous; answers of superseded requests are ignored; a message under way is shown until it is resolved |
| MTProto client (`compio-mtproto/src/driver`, `sender.rs`) | queue, in-flight requests, retries, update buffer | invoke, abandon, acknowledge, retry, stop | every invocation completes once; bounded concurrency |
| Key exchange, proxies, transport (`compio-mtproto/src/{key_exchange,proxy,abridged}`) | handshake step, proxy list | connect, fall back | byte formats and cryptography; fallback order |
| Telegram adapter (`crates/intuigram-telegram`) | peer directory, channel pts | normalise, classify errors | conversions |
| Media (`telegram/media`, `intuigram-media`, `app/offline_media.rs`) | sessions per data centre, file cache, policy per chat | download, assemble, store, read, evict, keep, release | what is kept stays; the limit holds; no entry is left cut |
| Terminal UI, configuration, CLI, graphics, clipboard, test harness | – | rendering, parsing, OS calls | no protocol |

**How they interact.**  The reducer's effects reach an ordered local lane, which
writes the outbox table, or the actor's mailbox.  The coordinator claims rows and
asks the actor to execute them; a successful answer often carries the update it
caused, which the actor's handler *submits* to the event driver and awaits.  The
driver commits live and submitted updates through the database worker and sends
the events over a bounded channel to the main loop.  When that channel reports a
connection failure the loop closes the session, keeps the database worker and
opens a new one.

**What is hard.**  The coordinator and the lane interleave at every database
answer; a request may take effect although its answer is lost; the process may
stop between any two commands; updates are reordered, repeated and lost; the
driver, the handler, the channel and the shutdown wait on each other; several
clocks and times of whole seconds decide about order and retries; requests are
cancelled, superseded, returned and resent while their answers are on the way;
files are replaced by several renames, and keys, records and files of an account
are in three stores with no common transaction; effects share a directory without
a lock.  `PROJECT.json`
lists these hazards at their lines, each with the property that covers it or the
reason why none does.

## Modules

```
OutboxPromise        abstract single-server FIFO queue
   ^ refined by
OutboxStore          the outbox table, one action per command
   ^ EXTENDS
OutboxExecution      the coordinator, the lane and the session around it
   ^ EXTENDS
OutboxExecutionProofs                           (TLAPS, for both)

UpdateDelivery       envelopes, driver, database worker, application
   ^ EXTENDS
UpdateDeliveryProofs                            (TLAPS)

SessionRuntime       the loop, its lanes, the actor's mailbox, reconnection
   ^ EXTENDS
SessionRuntimeProofs                            (TLAPS)

RpcPromise           abstract remote procedure calls
   ^ refined by
ConnectionDriver     the MTProto driver and its callers
   ^ EXTENDS
ConnectionDriverProofs                          (TLAPS)

Positions            entries of a sequence taken by their positions
   ^ EXTENDS
OptimisticSends      one chat: what is sent, shown, stored and on Telegram
HistoryLoads         the reducer's requests and answers over the control lane
   ^ EXTENDS
ReducerProofs                                   (TLAPS, for both)

AccountFiles         the files of one account, one action per file operation
   ^ EXTENDS
AccountFilesProofs                              (TLAPS)
AccountLifecycle     all accounts: registry, databases, keys, login, logout
   ^ EXTENDS
AccountLifecycleProofs                          (TLAPS)
MediaCache           the cache directory and the effects that share it
   ^ EXTENDS
MediaCacheProofs                                (TLAPS)
*MC                  instances for TLC
```

`SessionRuntime` and `OutboxExecution` model the same loop from two sides: the first
takes an effect as a unit and follows the queue, the second follows one durable item
through its own lane and coordinator.  `UpdateDelivery` is the third party of that
loop, the stream of events.  `HistoryLoads` puts the reducer in front of the control
lane that `SessionRuntime` describes in general.  `OptimisticSends` follows one send
through reducer, stored messages and Telegram, with the outbox reduced to what the
transcript shows of it.  `AccountFiles` and `AccountLifecycle` both have the
threads that load an account: the first with every file of one account, its copies and
the rebuild, the second with the conversion alone, of all accounts, beside logins,
switches and removals.

### OutboxPromise and OutboxStore

`OutboxStore` is the table: `outbox` maps identities to rows or `NoRow`, `nextId`
is SQLite's AUTOINCREMENT counter.  Each command of `AccountStore` is one action,
because each runs in one transaction; its guard is the list of states that
`transition::apply` admits.  A claim includes the expiry sweep it makes.  The
clock is an argument, so that every action may see any time, also an earlier one
than the action before it.  `Recover` is the recovery every open of the database
makes, `Rebuild` the copy into a new database (identities kept, counter restarted
above the largest of them) followed by it.

`OutboxPromise` has no columns: an item is absent, queued, active or held.
`KeepsPromise` maps the table's states onto it (`PhaseOf`, `KeyOf`).

### OutboxExecution

Extends the table by the parties that use it: the coordinator (`coord`, one `pc`
per await of its future), the ordered local lane (`lane`), the session (`link`),
what the user is shown (`view`) and Telegram (`wire`, `applied`).  The actions of
`OutboxStore` are used as they are, so every step is a command or leaves the table
alone (`StoreSpec` is checked as a property of `OutboxExecution`).

* A database command takes effect when it is issued and its reply is observed by a
  later action of the same party.  The worker is a queue, so no other order of
  effects exists; a crash before the worker has reached a command is a crash
  before it was issued.
* The lane's future shares the backend's `FuturesUnordered` with every other effect,
  and one completion is taken per poll (`app/runtime/wake_poll.rs:95`,
  `app/runtime/mod.rs:60`).  So the coordinator may run any number of steps while the
  reply the lane awaits is ready: the two interleave freely.  `LanePanics` is what the
  expectation of `app/actor_session/mod.rs:248` does if the admitted row is gone by
  then.
* A mutation is one request and, for a vote or a to-do item, a second one that reads
  the message again (`reading`).  Any error of the second is taken for one of the
  mutation (`Misread`: refused or not to be decoded), also one that says it never left
  because the queue was full (`NotRead`); `unread` is a history variable, the items to
  which that happened.  A pin has Telegram's answer *submitted* to the event driver
  instead (`submitting`); which of the ways an operation takes is left open.
* A submission the driver has taken (`popped`) holds the actor's handler until the
  driver acknowledges it (`app/actor_session/outbox/actor.rs:48`), whatever is
  cancelled.  Closing the session and exiting ask the actor, so they wait behind it
  (`ActorAnswers`); a crash does not.
* A send consists of `SendParts` messages.  A request that was on the wire when the
  connection was lost may be applied later, once, or never.  A message sent again
  with its random identity has no second effect (`once`); a mutation has.
* Left out because no reachable state takes them: the `Busy` delay of
  `step::claim` and the missing row in `step::failed` (`CoordinatorOwnsActive`
  excludes both).  The application admits with `OutboxExpiry::Never` only, so
  expiry appears in `OutboxStore` alone.

### UpdateDelivery

Telegram issues the envelopes of `History` in order; `Content` gives each one's
cursor components (pts and count per scope, date, sequence range), whether it
announces a gap, and its number of events.  `buffer` is MTProto's update queue.
One iteration of `poll_worker_event` is one action of `DriverNext`; the guards
(`Settled`, `ReadsLive`, `BarrierReached`) give the order in which an iteration
tries its sources.  `commit` is the request to the database worker, `ready` the
events still to be sent, `out` the batch for which the channel has no room yet.
`rpc` is the coordinator's request from its answer until the handler returns, with
the place of its `SubmissionCompletion`: still in the queue (`submitted`), popped
(`queued`), being committed (`owed`), waiting with the last batch (`carried`), or
dropped without a result (`lost`).  `Checkpoint` and `Bootstrap` are the two
points of `resume_account` at which Telegram's state is read; updates issued in
between are in the buffer, in the snapshot, or in both.

The MTProto driver buffers the update of an own request before it completes the
request (`Answer`), so the copy is among the envelopes a submission waits for.  The
submission then usually commits nothing new and carries no events of its own.

`stored`, `snapshot`, `baseline` and `seen` are history variables for the
properties: which envelopes' records are durable, what the last bootstrap of a
scope included, the pts at which an unknown scope was first met, and the events
in the order the application received them.  `qts` behaves like a scope of its
own without counts and is left out.  A database that refuses the enqueued batch
at once is treated like one that fails it.

### SessionRuntime

`run_application_state` is a loop; `turn` is its position.  `admit` queues the effect
of the last transition (coalescing by `Group`, refusal at `Capacity`, cancellation of
what a navigation supersedes), `start` starts what its lane admits (`Starts`, in the
order of `Priority`), `wait` takes one wake: a completion, an exit, the end of the
connection.  A remote effect goes through `mail` (bounded mailbox), `handling` (one
request at a time) and, for transfers, `tasks`; `answer` is what its future returns.
`mode` is the part of `cached_session.rs` around the loop: `connecting`, `offline`,
`running`, `cleanup`, and the three ends.  When the connection is lost (`down`) the loop drains what is
active, returns it to the front of `pending`, and the next session starts with it
(`Carried`).  The retained-task bound of the dispatcher is folded into the limits of
the lanes.

The coordinator of the outbox uses the same actor: `CoordinatorCalls` puts a call in the
same mailbox, and its handler ends at once (`Finish`) or awaits the receipt of an update
it submitted (`delivering`, from `Submit` to `Receipt`).  What is behind it in the mailbox
waits, an effect's cancellation does not end it, and the shutdown of the session joins the
actor (`Leave` needs `~delivering`).

### RpcPromise and ConnectionDriver

`ConnectionDriver` is one connection of `compio-mtproto`.  `at` is the position of a
poll of the driver (`prepare`, `send`, `receive`, or `parked`); callers, the network
and the timer act only while it is parked, because everything runs on one thread.
`requests`, `pending`, `retries` and `inFlight` are the four places a request can be;
`status` and `result` are its caller's half of `Response`.  `Telegram` may answer a
message once, twice or late, ask for a flood wait, reject the salt or the sequence
number, or fail the connection.  Acknowledgements, which no call waits for, are left
out.  `armed` and `awake` are the waker protocol: whoever enqueues, stops or drops
must wake the driver if it is parked.

`RpcPromise` knows only calls: idle, waiting or settled, an open or closed connection,
and a capacity.  `KeepsRpcPromise` maps the driver onto it.

### AccountFiles

One account's directory: the database, retained copies `*.db.N.bak`, the temporary
files of a conversion in either direction and the workspace of a rebuild.  Each
`rename`, export, check and removal of `security.rs`, `rebuild.rs`, `database.rs` and
`lifecycle.rs` is one action, and `Stop` may come before any of them.  A file is
abstracted to what later steps decide by: which generation of unique records it holds,
all of them or not, sound or damaged, of the current schema or older, locked or plain.
An account is loaded on a thread of the blocking pool (`app/account_loading.rs:41`).
Leaving the loading screen drops the future and not the thread, which runs on with
nobody to report to while a second load starts beside it; `loader` has a place for each
thread.  `raced` is a history variable: a rebuild began while a thread nobody waits for
was still at work on the account's files.

### AccountLifecycle

The registry, the databases of the accounts and of a login in progress, the key
material by name, and the program as a `pc` whose steps are the awaits of
`startup.rs`, `authorization.rs`, `local_lock.rs`, `cached_session.rs` and
`maintenance/`.  A key is a number; a passphrase is typed correctly, so a salt stands
for the key it leads to.  A crash is a `Stop`, which may come at any step.

An account is loaded by a thread (`loader`, one place per thread), which converts its
database file by file before it opens it: `encrypted` and `aside` are the two temporary
files, and `List`, `Check`, `Export`, `MoveAside`, `Install`, `DropPlaintext` and the
opening are its steps.  `awaited` is the thread whose result the interface waits for.
Leaving a load, removing an account and logging in as another stop no thread: it goes on
to its renames, and nobody looks at its result (`Unseen`).  A removal deletes the database
and leaves the temporary files (`intuigram-store/src/lifecycle.rs:65`).

Two history variables.  `unfinished`: the accounts whose login or removal began and did
not end.  `outlived`: the accounts that a removal or a login changed while a thread was
loading them.  About those the code promises nothing (see the divergences below), so the
properties leave them out, and the run is not followed beyond the step that makes
`outlived` non-empty (`Followed`); what other accounts may rely on from there is proved.

### HistoryLoads

`app` is the part of the reducer that decides about requests: the cached histories and
which were refreshed, the active, queued and background loads with the baseline of the
active one, deferred reads, small media, offline downloads and topics.  One input is
one action; an operator of the reducer maps `app` to a `Step`, a next state with at most one effect, as
`App::transition` does.  `control` is the control lane (one effect runs, superseded
navigation is dropped, equal requests coalesce), `updates` the updates on their way,
`remote` the messages that exist.  `due`, `displaced` and `outlived` are history variables:
what each cached history was told to hold, whether the active load's request or its
completion was displaced by another effect of the same input, and the histories whose load
was still on the lane when a restored connection made the reducer forget it.

### OptimisticSends

One chat whose whole history is its root history and fits in one page, with the
account's own messages; "settled" stands for Sent and Read.  `history` is what the
reducer shows and `board` its Outbox, `disk` the stored messages, `server` and `wire`
Telegram.  A send has a text, a negative local identity and the state of its outbox row
(none, ready, in flight, failed, completed, dismissed).  `Send`, `Admit`, `Retry`,
`Dismiss` are the user's way through the lane; `Claim`, `Lands`, `Complete`, `Refuse` and
`CoordinatorReports` the coordinator's; `CommitUpdate` and `ShowUpdate` a live update,
durable first and then shown.  An update that was not durable when its session ended
stays in `live`, because the difference the next session asks for brings it again; that
a difference has its own order is not told apart.  `AskHistory` to `ShowHistory` is a
page that may be older than both; `Disconnect`, `Stop`, `Launch` and `Reconnect` (with
the chat first in Telegram's directory, or not) replace the history as a whole.  Decisions are taken while the lane is
free: the races of lane and coordinator are `OutboxExecution`'s.

Two history variables name what the properties except: `clashed`, a local identity was
given out while it was in use (shown, stored, under way, or named by a report), and
`misread`, the sends a read receipt marked before they were sent.  `UnderwayShown` also supposes that no two messages say the same
(`AllDiffer`), because the reducer recognises its own message by its text.

### MediaCache

The cache is a directory: `files`, those of them that are `cut` (bytes are missing), and
the kept directories that exist. Each `job` is an effect on its thread, and each file
operation of `read_path`, `write_path`, `enforce_limit` and `release` is one action, so
two effects interleave at every operation. `Read`, `Touch`, `Refill` are a hit, which
rewrites the entry to move its time, and writes back exactly what it read (`Writes`):
what was read of a cut entry makes no entry whole. `MakeDirectory`, `CreatePartial`,
`WritePartial`, `Install` are a store; `Scan`, `Evict`, `Evicted` an eviction;
`ListKept`, `LookKept`, `LookOrdinary`, `MoveKept`, then `ClearKept`, `UnlinkKept`,
`RemoveKept` a release, each with the failures of its operation. A worker that has a
file open follows it through a rename, as a file descriptor does. `damaged` are the cut
files that nobody is bound to complete: last truncated by an effect that had read them
cut, or cut when the process stopped, which it may do any number of times. A release
that fails stores the policy again; the originals it has moved do not come back, and
`lost` are the promised ones among them. `kept` is the stored policy of a chat,
`keeping` the reducer's copy, `reported` the messages for which `MediaCachedOffline` was
reported. Entries have one size, and eviction takes any order: the modification times by
which the code sorts are left out, so the run covers more orders than the code has.
`ended` is the error of the cache that ends the application; `loose` records what may
excuse a cache over its limit (a failed eviction, a stop, an entry written back). A
saved download, the command that clears a cache from another process, and a refusal of
the database to store the policy are left out.

## Runs

| Run | Question | Bounds |
|---|---|---|
| `outbox_store` | Is the table a single-server FIFO queue under every sequence of commands and clocks? | 2 identities, 3 times |
| `outbox_execution` | Do coordinator, lane, session and Telegram together keep the row invariants, do table and Telegram agree about what was applied, and does the queue always move on? | 2 items (a mutation, a send of 2 parts), 1 fault, 1 decision, clock to 2 |
| `update_delivery` | Is everything durable before it is shown, shown once and in order, and acknowledged only when delivered, and does every deferred update get resolved? | 4 envelopes of 2 scopes in each of two worlds, 1 fault, channel of 1 |
| `session_runtime` | Is no accepted effect lost, doubled, overtaken or brought back, across navigation, errors and reconnection, and does the queue drain? | 8 effects of 3 lanes, 3 asked for, capacity 3, mailbox 2, 1 call of the coordinator, 1 fault |
| `connection_driver` | Does the driver implement remote procedure calls, with exact accounting, bounded resends, and no call left waiting? | 3 calls, 2 places, 4 messages, 2 answers, 1 ping |
| `account_files` | Does a stop between two file operations ever lose the records, or leave them readable under Local Lock? | 1 copy, 2 generations, 2 loading threads |
| `account_lifecycle` | Do registry, files and keys agree, and can every account be opened, wherever the program stops and whichever load goes on behind it? | 2 users, 2 keys, 2 loading threads |
| `history_loads` | Do live messages survive the pages that cross them, and does every load the reducer waits for have a request? | 2 chats, 2 messages, a thread, a picture, lane of 2, 1 live update, 1 rare event (deletion, pin, reconnection, offline choice); proved without these bounds |
| `media_cache` | Do kept originals stay with their bytes, is no entry left cut without its reason, and does the cache stay within its limit, when two effects work on one directory? | 2 effects at once, 1 avatar, 1 message, limit of 1 entry, any number of stops |
| `optimistic_sends` | Is an unresolved message stored and shown, once, wherever its acknowledgement, update, page, reconnection or restart comes? | 2 sends, 2 texts, 2 rare events |
| `foreground_served` | Checks a statement of ADR 0004 that the code does not keep. | the instance of `history_loads` |
| `stays_pending` | Checks a statement of `CONTEXT.md` that the code does not keep. | the instance of `optimistic_sends` |

Why the bounds are enough. Two items give an order, a tie and a wrong head; three would
repeat the same comparisons, and `OutboxExecutionProofs` removes the bound for the
table. One fault and one decision are enough for an ambiguous outcome and the decision
that meets it; that no number of them breaks the properties about applied, removed and
cancelled items is proved. The clock needs one value before a retry time, the time
itself and one after. Of the two worlds of `update_delivery`, one has an own request, an
update before it, one after it and one in another scope; the other an unknown channel, a
read mark without a count and an explicit gap. A channel of capacity one is full after
one event, as the real one is after 64. Three effects fill the queue, and any two of
them can share a lane, a group or a chain; the third is what they meet. One call of the
coordinator is one handler all the others may be behind. Two places for three calls make
one of them meet a full driver, and four messages let a call be resent and answered
under both identities. A second generation of a database is the rebuild, two threads are
the load somebody waits for and the one that was left; two copies, and three threads
without a rebuild, pass as well, and `AccountFilesProofs` removes these bounds. Two
users are the one who logs in and the one who is there, two loading threads again the
awaited one and the one that was left. Two sends are the message and what is
acknowledged, matched or numbered in its place, two rare events a cause and what meets
its consequence. In the cache, two effects are every pair of operations, one kept and
two ordinary files are more than a limit of one.
`CHECK_DEADLOCK` is off where a bound on faults, answers or effects lets a behaviour
end; `account_files`, `account_lifecycle` and `outbox_store` check it.

### Findings

`foreground_served` (`app/runtime/types.rs:212`): ADR 0004 says that "after each
completion, the latest foreground request gets priority".  Opening a list of topics
supersedes the running `LoadChat` on the control lane; a cancelled effect gives no
event, so the reducer's active load never completes and the request queued behind it
is not started until a reconnection.

`stays_pending` (`lib/app/chat_reconciliation.rs:146`): `CONTEXT.md:85` says that an
outbox item stays visibly pending until Telegram resolves it.  A receipt of the
other side marks every message up to its identity as read, and local identities are
negative, so the messages that wait to be sent are shown as read; the store does the same
to the stored ones (`store/sync_write.rs:203`).

### Divergences without a run of their own

Each of these was found by a run that checks one property; the property is still
stated in its module.  Put its name in place of the properties of a cfg of that
module (as `PROPERTIES` if it is an action or temporal formula; the temporal ones need
the fair specification of the module) to see the behaviour again; where a row says
"without", drop that exception first, and for `outlived` the constraint of the cfg as well.

| Property (module) | Where | What happens |
|---|---|---|
| `CancelledMeansUnsent` (OutboxExecution) | `store/outbox/cancellation.rs:8` | An item whose first attempt ended with a lost connection is ready again; cancelling it says `cancelled`, although Telegram may have applied it. |
| `DecisionsNeverStopTheApp` (OutboxExecution) | `app/actor_session/outbox/step.rs:126` | A cancellation between "read the failed row" and "store the decision" makes the decision an invalid transition, which quits the application. |
| `HeldWorkShown` (OutboxExecution) | `app/authorization.rs:43` | Restoring the connection replaces the shown Outbox with an empty one; items that wait for the user disappear. |
| `HeldWorkResolvable` (OutboxExecution) | `app/outbox/admission/mutation.rs:161` | Actions are offered on the Message an item sends; a mutation has none, so one that was interrupted waits for a decision nobody can make. |
| `ShownIsCurrent` (OutboxExecution) | `app/outbox/resolution.rs:49` | A report read before the coordinator removed the item is applied after the removal. |
| `FloodWaitRespected` (OutboxExecution) | `app/actor_session/outbox/mod.rs:158` | The requested delay counts from the start of the attempt, not from its refusal.  Needs a clock to 3. |
| `OnlyTheHeadDelays` (OutboxExecution) | `app/actor_session/outbox/mod.rs:183` | After the deferred head is cancelled the coordinator sleeps on until that item's retry time. |
| `AdmittedRowFound` (OutboxExecution) | `app/actor_session/mod.rs:248` | The coordinator may claim, execute and remove the admitted row before the lane is polled again: the `expect` that the admission's own load finds the row panics. |
| `MutationAppliedOnce` without `unread` (OutboxExecution) | `app/outbox/execution/policy.rs:52` | A vote or a to-do change that was applied is deferred and sent again when the request that reads its message finds the queue full; `AppendTodo` then adds the item twice.  `UnsentMutationsUnsent` without it fails with the same run. |
| `PendingSettles` without its excuse (OutboxExecution), `HandlerReturns` (SessionRuntime) | `app/actor_session/outbox/actor.rs:48` | A handler whose submission the driver took before it ended waits for ever: the item stays in flight, what is behind it in the mailbox is not served, and neither quitting nor reconnecting ends. |
| `WaitersWoken` (UpdateDelivery) | `app/runtime/adapters.rs:199` | A submission the driver has popped is dropped unanswered when the driver ends: its handler waits for ever. |
| `BarrierNotExtended` (UpdateDelivery) | `app/runtime/adapters.rs:210` | Later traffic that is deferred holds back a submission whose own prefix is durable. |
| `ShutdownCompletes` (UpdateDelivery) | `app/actor_session/driver.rs:106` | With the event channel full at shutdown, driver, handler and `pre_stop` wait for each other. |
| `FirstDeliveryApplied` (UpdateDelivery) | `app/sync/mod.rs:134` | Of two updates that carry only the same date, the second is committed without its events. |
| `ExitIsFinal` (SessionRuntime) | `app/runtime/mod.rs:318` | Effects cancelled by a lost connection return to the queue an exit has cleared; the queue is not empty, so the loop reconnects and the exit, or the error behind it, is forgotten. |
| `InstalledAtomically` (AccountFiles) | `store/security.rs:198` | ADR 0008 says the converted database is installed atomically; between its two renames there is no database under the account's name, and no later start finishes the second. |
| `GenerationsKept` without `~raced` (AccountFiles) | `store/security.rs:201` | A load nobody waits for, stalled after it has found its database in plaintext, converts the empty database it then opens; its rename puts that over the one a rebuild has installed in the meantime. |
| `LockedInSession` without "no loader running" (AccountFiles) | `store/security.rs:205` | With three loads at once, two of them left: one has installed the encrypted database, the failed rename of another is taken back and puts the plaintext there while the third's session is open (`README.md:162`).  Needs three loading threads. |
| `RegistryMatchesFiles` without `outlived` (AccountLifecycle) | `store/security.rs:201` | A load that was left goes on behind a removal and renames the converted database back into place: a database without a record (`app/account_loading.rs:112`, `intuigram-store/src/lifecycle.rs:65`). |
| `RegistryMatchesFiles` without `unfinished` (AccountLifecycle) | `app/authorization.rs:193` | A login stopped between the rename and the registration leaves a database that is not listed, a removal stopped before its files likewise. |
| `LoginNeverOverwrites`, `KeysKept` without `outlived` (AccountLifecycle) | `store/security.rs:205` | The same thread, when the account was removed and logged in again, renames the old database over the new one, under a key that the removal deleted. |
| `EntriesStayWhole` (MediaCache) | `intuigram-media/src/cache/mod.rs:244` | Of two hits on one entry, the second reads it while the first has it truncated, and writes the nothing it read: the entry stays empty, an original that was to be kept too. |
| `KeptThere` without `lost` (MediaCache) | `app/actor_session/local_effect/storage.rs:84` | A release that fails half-way stores the policy again, and the chat is shown as kept with some of its originals moved to where eviction takes them. |
| `IdentitiesReserved` (OptimisticSends) | `lib/app/bootstrap.rs:313` | The next local identity is computed from the new histories before the old ones are merged into them: after a reconnection the identity of a message still under way is given out again.  `lib/src/tests/messaging.rs:56` tests restored messages only. |
| `UnlockOpens` (AccountLifecycle) | `app/local_lock.rs:184` | While an interrupted login has left a pending salt, an account with the legacy salt is opened with the wrong key and ends in recovery. |
| `LogoutRevoked` (AccountLifecycle) | `app/cached_session.rs:55` | `CONTEXT.md:77` says Logout succeeds only after the revocation; confirmed after the connection is lost it removes the account without asking Telegram. |

Seen while modelling, and stated by no property:

* *Reducer* (HistoryLoads).  An offline effect that an input also yields displaces the
  completion of a history load (`lib/app/input.rs:180`, `:209`).  An avatar or an
  offline download that ends during a load replaces the queued foreground request
  (`lib/app/avatar_loads.rs:106`, `lib/app/offline_media.rs:132`).  A background load
  cancels `LoadTopics`, and `topics_loading` stays set.  `chat_loading` stays set after
  moving to a chat that is not refreshed and back.  A notification that is coalesced
  with a waiting one gives no acceptance (`app/runtime/types.rs:230`).  A page answered
  before a deletion or an edit brings the old message back (`lib/history.rs:69`);
  `LiveKept` therefore speaks of messages that still exist.  A restored connection forgets
  the load under way (`lib/app/history/loading.rs:55`) while the runtime asks its request
  again (`app/runtime/mod.rs:324`); only an input that also yields a history load drops it
  from the lane, and an offline download comes first (`lib/app/input.rs:24`).  When the
  same history is loaded once more before that answer comes, the late page is compared
  with the later baseline, and a message that was shown in between vanishes until the next
  refresh, against "prevents state that appears one time and then disappears"
  (`docs/adr/0001-local-first-sync.md:3`).  Two rare events are needed, so the run of
  `history_loads` does not meet it; the attempt to prove `LiveKept` did, and the property
  now excepts such histories (`outlived`).  A draft for one saved peer
  replaces the waiting draft of another (`app/runtime/types.rs:194`).
* *Optimistic messages* (OptimisticSends).  An acknowledgement renames its message although
  the update has already added Telegram's copy: the message is there twice.  A message that says the
  same as one under way takes its place (`lib/src/tests/messaging_edges.rs:69` tests one
  order).  A reconnection empties the shown Outbox, and a completion whose report was lost
  with the session leaves its message pending until the history is loaded again.  A page
  answered before a message arrived deletes that message from the stored history
  (`store/message_write.rs:99`).  A dismissed item's message stays stored as pending and
  is shown as such after a restart.
* *Accounts* (AccountLifecycle).  A passphrase login of an account that is known keeps
  its old salt (`app/local_lock.rs:261`).  The pending key is shared: a second login
  loses the first one's key, and a promotion deletes a key that a newer pending database
  uses.  After `AccountAlreadyExists` the pending database stays and blocks the next
  login.  A login interrupted before Local Lock is enabled leaves a plaintext pending
  database.  A maintenance command converts with a pending or legacy key without
  promoting it.  A crash during a removal leaves an account without its key, or a
  database without its record.
* *Cache* (MediaCache). Two evictions choose the same entry, or two stores of one key
  share its `.partial` file; the second one's error ends the application
  (`intuigram-media/src/cache/mod.rs:278`, `:267`), although the cache only holds what can
  be downloaded again. A stop while a hit rewrites a kept original leaves it cut, and a
  cut original may be taken for a whole one (`app/offline_media.rs:63`). The release of a
  chat fails when a store puts a file into the directory it is removing, or renames a
  `.partial` file it is moving (`intuigram-media/src/cache/mod.rs:191`, `:201`). A report
  of an original whose keeping a release overtook is taken for none. A hit that races an
  eviction makes the entry again, over the limit. A release moves `.partial` files where
  nothing removes them. A download of an original that overlaps the release of its chat
  leaves files nobody will release. Kept thumbnails are written and never read. `cache
  clear` by another process makes the running one fail.

## Fairness

`FairExecSpec` assumes that the loop polls every source whose future is ready in the end
(the rotating poll, `app/runtime/wake_poll.rs:57`), that a request on a working
connection is eventually applied and acknowledged, that the driver of a live session
commits what it was handed (`Delivered`), that a session whose actor answers is ended and
reopened (`~HandlerWaits /\ SessionStep`), and that the clock moves.  Nothing is assumed
of a session that ends while its handler waits for the driver, because the code does not
end that wait; `PendingSettles` excuses the items of that state and says what happens in
all others.  Failures, the user and admissions are not fair, and failures are bounded, so
it is a claim about runs in which failures end.  `FairDeliverySpec` assumes that the worker's executor runs the
driver and the handler, that the database worker takes its queue, that the loop
reads the channel while the session lives, and that opening a session ends.  The
network is not fair: an envelope may never arrive, and the gap timer then ends the
wait.

`RuntimeSpec` assumes that the loop turns, that the actor handles its mail when no handler
runs, that requests, transfers and local effects end (local ones while no handler waits,
since some ask the actor), and that a connection attempt ends.  A receipt is assumed only
while the driver's events are taken (`DriverServed`): not when the loop drains a lost
connection, after an error, or in the shutdown.  `AcceptedFinished` and `DrainsWhenDown`
therefore hold under `HandlerReturns`, which the code does not ensure.  What the user asks
for, the coordinator's calls and faults are not fair.  `DriverSpec` has fairness for the polls of a driver that is awake, for a transport that
writes what it was given, and for the answer to a request for salts.  Telegram need not
answer a call, so `CallsMoveOn` claims that calls are sent or told of a stop.  The
other modules make no liveness claim.

## Proofs

`OutboxExecutionProofs` proves of the table, for every set of identities and timestamps that
satisfies `IdsAssumption`, `TimesAssumption` and `NoRowAssumption`:

| Theorem | Statement |
|---|---|
| `StoreTypeCorrect` | `StoreSpec => []StoreTypeOK` |
| `SingleActiveHolds` | at most one active row |
| `DeferredIffTimedHolds` | a retry time exactly on deferred rows |
| `IdentitiesFreshHolds` | every stored identity lies below the counter |
| `StoreKeepsPromise` | `StoreSpec` implements `OutboxPromise` |
| `InterruptedMutationsHeldAlways` | no step makes an active mutation ready |
| `WithdrawnStaysWithdrawnAlways` | cancelled and expired rows stay so until they leave |

The inductive invariant is `StoreInv`, the conjunction of the first four.  None of
them is inductive without the others: an insertion overwrites no active row only
because its identity is fresh, a claim keeps `SingleActive` because it looks at
all rows first, and the type of a retry time follows from the state it belongs to.
The lemmas go from operators to commands: what a sweep and a recovery return for a
row (`SweptRows`, `RecoveredRow`), what any transition does to the table
(`TransitionRow`, `RemoveRow`), which edges of the state diagram each command takes
(`UserEdge`, `OutcomeEdge`), one lemma per command for the invariant and one for
the refinement, and `StoreInvStep` and `PromiseStep` that collect them.

and of what runs around it, for any admitted operations, number
of parts, delays and bounds that satisfy `ExecutionAssumption`, and any value of
`NoRow` that is no row and no entry of the view (`ViewAssumption`):

| Theorem | Statement |
|---|---|
| `ExecTypeCorrect` | `ExecSpec => []ExecTypeOK` |
| `ExecutionImplementsStore` | `ExecSpec => StoreSpec`: every theorem about the table holds of the application |
| `ExecutionKeepsPromise` | `ExecSpec` implements `OutboxPromise` |
| `CoordinatorOwnsActiveAlways` | the active row is the coordinator's while the session is up |
| `MutationAppliedOnceAlways` | a mutation takes effect at most once, unless the request that reads its message again found no room (`unread`) |
| `UnsentMutationsUnsentAlways` | a mutation that will be sent, or is stated to have failed, has not taken effect and will not, with the same exception |
| `RemovedOnlyWhenAppliedAlways` | an item leaves only applied in every part, or dismissed |
| `CancellationNotReplayedAlways` | a recorded cancellation is never turned back into work |

*Types and the table.*  `ExecInv` adds to the types what makes them inductive
(`Held`): who is past a claim has an identity, a part on its way is one of the
send, a retry that may be stored lies on the clock.  With it each action is one
command of the table (`ExecStepStores`), and `StoreInv` is carried along by the
table's own lemma instead of being proved again.

*Ownership.*  `Owned` adds to `CoordinatorOwnsActive` that the coordinator is idle
whenever the session is neither up nor closing: a
reopening finds no future that still holds a row, and recovery leaves none active.

*Mutations.*  Two more invariants.  `Tracked`: whatever is shown, held or on the
wire names an item that was admitted, with the operation it was admitted with.
Identities are not reused, so this survives the item; hence the user decides about
sends only, and the coordinator decides about a mutation as about a mutation.
`Faithful`: a mutation has at most one request that can still land, and only if
none has; and while its row is ready, deferred or failed, or while the coordinator is
before its request or after an answer that says it was not applied (a flood wait, no
room, a corrupt command), it has none at all.  A conflict is in neither list: the
mutation may have been applied, and the error be that of reading its message again.
A new request is made only of an owned row that is unsent, a lost answer leads to
`outcome_unknown` only, and from there only a decision leads back, which for a
mutation nobody is offered.  The one step that breaks this, no room for the second
request, puts the item into `unread`, and both theorems leave it out from there.  That nobody is offered it is the divergence `HeldWorkResolvable`: the
theorem rests on it, and a user interface that offered the decision would have to
weaken the property to "at most once for each decision".

*Removal.*  `Landed`: the parts before the one in hand have landed, the one in hand
is on the wire or has landed, and success means all of them.

`ConnectionDriverProofs`, for any set of calls, capacity and bounds that satisfy
`DriverAssumption`:

| Theorem | Statement |
|---|---|
| `DriverTypeCorrect` | `DriverSpec => []DriverTypeOK` |
| `DriverInvariant` | `[](DriverTypeOK /\ Counted)`: the pending count is the number of calls that wait |
| `DriverKeepsRpcPromise` | `DriverSpec` implements `RpcPromise` |
| `CallsHeldAndCountedAlways` | every call that waits is in exactly one of the four places, and no place holds one that the count forgot |
| `SendsBoundedAlways` | no call is sent more often than its retries allow |

Every action is first shown to do one of a few things to the calls (`StepOfCalls`: admit
one, reject one, settle some, drop one, stop, or leave them); the count and the
refinement are then proved of these alone.  `Counted` is what makes the refinement go
through: the driver compares a number with its capacity, the promise the size of a set.
For the places every action is in the same way shown to do one of a few things to
queue, unanswered and delayed requests (`StepOfPlaces`: one enters, is taken, is
sent, is settled or is to be sent again, all are given up, or nothing moves).  `HeldInv`
is kept by each of these: a call is in at most one place and once (`Single`), a waiting one
in some place, one that knows its outcome in none (`Kept`), message identifiers are given
out in order (`Numbered`), and a call was sent once for each retry and once more unless it
is to be sent (`SentFor`).  The bound on sends needs the places: a call in two of them
would be sent from both.

`AccountLifecycleProofs`, for any set of accounts, any number of keys and of loading
threads that satisfy `LifecycleAssumption`:

| Theorem | Statement |
|---|---|
| `LifecycleTypeCorrect` | `LifecycleSpec => []LifecycleTypeOK` |
| `RegistryMatchesFilesAlways` | registry and files agree about every account that is neither `unfinished` nor `outlived` |
| `LoginNeverOverwritesEver` | nothing replaces a database that is there, but a failed conversion that puts back what it moved aside |
| `KeysKeptAlways` | no step loses the key of a registered account |

In the last two accounts that are `outlived` are excepted, in the last also those
`unfinished` and a second account that took the pending key.  The steps of a thread are
taken apart as the code takes them, so an abandoned conversion runs on into whatever comes
next; that it does no harm to the accounts which were not removed or added under it is what
the theorems say.

`LifecycleInv` is the types and `RegistryMatchesFiles` with seven parts.  `ProcessInv`,
`LoginInv` and `RemovalInv` are about the interface: what it knows at each step, what a
login has found out before it renames its database (the name is free), and what a removal
has already deleted.  `LoadInv` says where the key of a load comes from, and `KeyInv` that
every thread of an account that converts, awaited or not, has that account's stored key,
or finds the database locked for good (`Settled`).  `PhaseInv` says how far a conversion is
at each step of its thread (`Before`, `Between` its renames, `After`), and that no two
threads are past the export of one database; `AsideInv`, that what is moved aside is
plaintext.  Together they give that only one thread replaces a database, and by the same
records under a key that is stored.

`AccountFilesProofs`, for any number of copies, generations and loading threads that
satisfy `FilesAssumption` and `AbsentAssumption`:

| Theorem | Statement |
|---|---|
| `FilesTypeCorrect` | `FilesSpec => []FilesTypeOK` |
| `GenerationsKeptAlways` | wherever the program stops, a registered account's records of every generation are in some file (unless `raced`) |
| `LockedInSessionAlways` | a session under Local Lock that no thread still loads has no database or copy in plaintext |

`AccountInv` is the types and, while the account is registered and not raced, three
parts.  `FilesInv` relates the files: two workspaces of a database hold the same (`Pair`),
and a plaintext workspace that is alone duplicates the converted file (`Chain`), so the
removal of either loses nothing.  `ThreadsInv` says what a thread may rely on at its step
(`StepKnows`), and that no two threads have the same database in hand (`Exclusive`).
`RebuildInv`: a rebuild works alone and on the database it read; it moves the database
away, so no plaintext workspace may count on it, which is why a load that has passed a
database leaves none behind unless another thread is about to remove it (`Tended`).  No
step then shrinks the set of generations held
whole; the frame lemmas (`OneDatabase`, `OneThread`, `TendedFrame`) reduce an operation
on one file by one thread to that file and that thread.

`LockInv` adds what the lock needs.  The load in the foreground leaves behind what it has
passed (`Beyond`), but a stray thread may still make such a database readable: it takes back
a converted file that another thread has installed for it, or opens one that is gone.
`Cared` says that a database readable behind the foreground has no plaintext workspace and
a thread at the very step that converts it, so it cannot give up; `Watched`, that whoever
installed another thread's file checks the database again.  With no thread left, nothing
is readable.

`UpdateDeliveryProofs`, for any scopes, histories, own requests, capacity and bounds
that satisfy `DeliveryAssumption` and `NumberingAssumption`:

| Theorem | Statement |
|---|---|
| `DeliveryTypeCorrect` | `DeliverySpec => []DeliveryTypeOK` |
| `DurableBeforeExposedAlways` | what is on its way to the application, or there, was durable first |
| `CursorBackedByRecordsAlways` | a durable cursor is past a counted change only if its records are stored or in a snapshot |
| `BarrierKeepsPrefixAlways` | a submission is committed after everything that preceded it in its scopes |
| `AcknowledgedWhenDeliveredAlways` | a submission is acknowledged only when its events are in the channel |
| `ChangesInOrderOnceAlways` | the application sees the counted changes of a scope in order, each of their events once |

`NumberingAssumption` is the one thing asked of Telegram: it issues an envelope once, and
a counted change of a scope has a pts at least its count above what was issued before.
`apply_cursor_delta` expects just that of the next update (`sync/cursor.rs:42-47`), and
takes what does not follow for a gap.  Without it two changes could share a pts, and a
cursor past the one would be past the other.

For the cursors: the committer's and the durable ones differ by the commit under way
(`Synced`), and both lie below every counted change yet to be issued (`Ahead`), so a
counted change that a cursor moves past is the one being stored.  For the submissions:
what preceded one is durable, under commit, deferred, or in the part of the buffer the
barrier waits for (`BarrierAhead`).  The acknowledgement is the longest argument.  An
envelope without records that the cursors have passed is never stored later
(`NothingNew`), so a submission whose envelope is stored is one whose events were made;
they stand in the queues in front of its completion (`OnTheirWay`), and the channel is
first in, first out.

The order needs a second invariant, `OrderInv`.  The durable cursor never goes back, also
when a session opens (`Bounds`), and it is in every component past whatever was exposed
(`Shown`).  So `Exposes` shows an envelope that was shown or overtaken only for a component
that lies beyond that cursor, and `Fresh` says that the commit under way follows all that
is exposed; the four queues keep that order (`Queues`).  `ChangesInOrderOnce` names what it
leaves out, because `commit_or_defer` keeps all events of an envelope for any one newer
component (`app/sync/mod.rs:120-137`):

- an envelope of several scopes is shown again when one of its other scopes is at exactly
  its pts and has no count;
- of two changes of a channel that were issued between reading the account's cursor and
  reading the dialogs, the later is shown first if it arrives first, and the earlier after
  it if its sequence number or date is higher than the later one's.

TLC finds both when the conditions `Alone` and `KeepsPace` are dropped and a world has such
envelopes.  The account's own scope needs no such condition on dates: its pts, date and
sequence number are read together, and the commit that follows a known cursor passes no
other change (`AccountAbreast`).

`SessionRuntimeProofs`, for any effects, lanes, limits, capacities and faults that
satisfy `RuntimeAssumption` and `CoalescingAssumption`:

| Theorem | Statement |
|---|---|
| `RuntimeTypeCorrect` | `RuntimeSpec => []RuntimeTypeOK` |
| `HeldOnceWithinCapacityAlways` | an effect is held once, what is held fits the capacity and the limits of the lanes, and one navigation is live |
| `LaneOrderKeptAlways` | effects of a serial lane never overtake each other, also when they return to the queue |
| `NothingForgottenAlways` | an accepted effect leaves the session only with a result, superseded, cancelled, or at the session's end |

The queue is rewritten in four ways: an effect enters behind what it does not
replace, one starts, one returns to the front, or all leave.  `QueuedIs`, `RemoveIs`,
`AppendIs`, `FrontIs` and `KeptIs` say of each that the members stay apart and in order.
`RuntimeInv` adds to the bounds (`Fits`, `LanesCounted`) and `OneNavigation` that nothing
is active outside a running loop (`AtRest`), and that what asks to enter was asked for and
is not held yet (`WishTaken`, `WishIsNew`, `AskedBefore`).  None of the theorems is
inductive without the last three: an effect that entered twice would stand in front of
itself.  `Fits` counts queue and lanes together, which is why what a lost connection
returns finds room.
`CoalescingAssumption` states what the constructors of the effects give: navigations
replace each other (`runtime/types.rs:212-232`), a follow-up asks for media, which
replace nothing (`app/input.rs:370-374`), and the effects of a serial lane have one
priority (`runtime/effect_route.rs:74-81`).  `Kept`, what coalescing leaves of a queue,
is a recursive function over numbers; what holds of it at every length is shown by the
least number at which it fails (`UpTo`), as the induction theorems of the library
are out of the provers' reach.

`ReducerProofs` proves two models.  Of `OptimisticSends`, for any texts and any number of sends and rare events that
satisfy `SendsAssumption`:

| Theorem | Statement |
|---|---|
| `SendsTypeCorrect` | `SendsSpec => []SendsTyped`: local identities are negative and no lower than the number of sends |
| `OptimisticKeptAlways` | an unresolved message stays stored with its text, unless an identity was given out twice |
| `ServerEntriesTrueAlways` | an entry with an identity of Telegram says what Telegram's message says, with the same exception |
| `UnderwayShownAlways` | a message under way is shown, as itself or as Telegram's copy, with the exceptions the property names |

`KeptInv` adds types of what is sent, stored and on Telegram, and that sends under way go
by different local identities (`LocalsDiffer`).  A completion
removes by local identity and a page by Telegram's; the two never meet because their signs
differ.  That the least local identity exists, from which the next one is computed, needs
that the stored ones are finitely many: they are bounded by the number of sends.

The other two theorems need three layers on top of it.  `WorldInv` says what Telegram, the
wire, the lane, the reports and the updates say of the sends: Telegram has each at most
once and unchanged, the lane holds what was not admitted, an acknowledgement names a
completed send and Telegram's copy of it, and a session that is gone left nothing.  No
step takes any of that back (`Carried`).  `TrueInv` gives `ServerEntriesTrue`: every entry
shown or stored says what its identity stands for, Telegram's message or the send the
process still has to do with (`Used`: under way, or in a report), and those sends differ in
their identities.  `ShownInv` gives `UnderwayShown`.  Beyond being shown, a message under
way that is shown as settled must have reached Telegram and be on the page under way, or a
refresh would drop it (`SettledLanded`); and what was shown when the page was asked for is
no newer than the page, or a refresh would drop Telegram's copy (`BaselineKnown`).  The
lemmas go from operators (`AddedEntries`, `RefreshedEntries`, `MergedEntries`,
`WithOutboxEntries`: what each leaves of a history and brings to it) to steps, each layer
using the ones below.

The attempt found `ServerEntriesTrue` false beyond the bounds of its run as long as
`clashed` left out the stored identities.  A message that was dismissed and marked as read
leaves the reducer's history with a reconnection and stays stored; a later send takes its
identity; a second reconnection, from the stored messages, shows the first message under
it, and the acknowledgement of the second renames that.
`InUse` now counts what is stored.

Of `HistoryLoads`, for any directory, messages, pictures, page size, lane and number of rare
events that satisfy `HistoryAssumption`:

| Theorem | Statement |
|---|---|
| `LiveKeptAlways` | a message a history was told of stays in it while it exists, unless the history's load outlived its connection |
| `LoadHasRequestAlways` | the load the reducer waits for has its request on the control lane, with the two exceptions the property names |

The reducer is a composition of operators that each yield a next state and at most one
effect, and an action runs up to five of them.  So the proof gives each operator one
contract (`Asks`): it leaves the cached histories alone, and either it asks for a history,
which it does only when none was waited for, taking what is cached as the baseline, or it
goes on waiting for what it waited for.  Contracts compose (`AsksThen`), and three lemmas
carry any step that keeps one through the runtime: `TransitionKeeps` for an input,
`PopKeeps` for one that takes the first effect off the lane, and `InputKeeps` for those
that leave the histories alone.  `HistoryInv` adds to the two properties that the lane
holds at most one load of this connection, the one waited for, and that a page which came
for it covers what exists of the baseline (`LaneGood`): each message of the baseline is on
the page or older than all of it.  That makes the decision of `reconcile_refresh` right: what
is not in the baseline stays, what is and lies before the page stays, and what the page
could have shown and did not is gone at Telegram.  `RecentPageCovers` proves it of the
newest page of any size.  Messages are told apart from what is cached by being issued
(`Known`, `DueKnown`), so a message that comes after the answer is in no baseline.

`MediaCacheProofs`, for any pictures, messages and effects at once and any limit that
satisfy `CacheAssumption` and `NoFileAssumption` (`Nothing` is no file):

| Theorem | Statement |
|---|---|
| `CacheTypeCorrect` | `CacheSpec => []CacheTypeOK`: every kept file has its directory |
| `NothingLeftCutAlways` | an entry that lacks bytes is open to an effect that will write all of them, or was `damaged` by an overlapping read or a stop |
| `KeptThereAlways` | while a chat is kept, a message reported as kept has its original on disk, with its bytes unless they are `damaged`, and unless a failed release had moved it (`lost`) |
| `BoundedWhenQuietAlways` | when no effect runs, what can be evicted is within the limit, with the exceptions the property names |

The operations of the effects interleave on files that no lock guards, so the proof
first says what each of the file operations does to the files, to the jobs and to what
is cut (`CreateDone`, `FillDone`, `UnlinkDone`, `RenameDone`), and that a step of one
effect changes nothing of another but the file it has open (`Kin`, `Sound`). Three
invariants stand on that. `CutInv` has `Covered`: a cut file, also a partial one, is
damaged, or whoever truncated it still has it open, wherever it was renamed to, and is
about to write all of it. `PromiseInv`: an effect that keeps an original has it on disk
once it was written or is being written back (`HeldFor`), unless a release overtook it;
while a release runs the policy is off, no other runs, and every such effect is
overtaken (`ReleaseAlone`, `PolicyInv`); and what was promised and not lost is on disk
(`OnDisk`). `BoundInv`: since the last listing the cache is within its limit, or some
effect owes an eviction: it is about to list the entries, or it has listed all that are
whole (`Obliged`). An effect that stores an entry owes one from then on, and an eviction
that listed all and stops has at most the limit left, because it counts what it listed
(`EvictedWithin`). That a second eviction begins meanwhile, or removes what the first
one listed, does no harm: entries only leave.

The type invariants of `OutboxStore`, `OutboxExecution`, `UpdateDelivery`,
`SessionRuntime`, `ConnectionDriver`, `AccountFiles`, `AccountLifecycle` and `MediaCache`,
and the types of `OptimisticSends`, are proved and for that reason in no run; of that of
`HistoryLoads` the proof needs the part that decides about requests (`IsApp`, `LaneGood`),
and the whole can be checked by adding its name to the cfg.

Model-checked only: all liveness, which this prover does not do.  Every invariant a passing
run checks is a theorem.

## Plan

Done: the outbox with its proofs; the delivery of updates; the runtime with
reconnection; the MTProto driver with its refinement proof; the files and the lifecycle
of accounts; the reducer's history requests; optimistic messages; the media cache; proofs
for all of them.

Left, in this order:

1. `CacheWrites`: older pages, edits, deletions and drafts against the cached history,
   over the batch that `UpdateDelivery` treats as a whole; `OptimisticSends` has the newest
   page, additions and receipts.
2. `HistoryWindow`: the reducer's window and paging with stale answers, older pages and
   search, which `HistoryLoads` reduces to the newest page.
3. The proxy fallback order and the media sessions of each data center.

## Not modelled

Rendering, layout and key decoding; parsing of configuration and arguments;
cryptography and byte formats; conversion of Telegram's values (their outcome is
the constant `Content`); graphics and clipboard; the test harness.  These keep no state
that another component's correctness depends on.  Of the reducer, the composer, drafts, folders, search,
selection, polls and scheduled messages are not modelled.  Of the store, the SQL of the
migrations and of the cached history.  Of the Telegram adapter, the login conversation and the
transfer of media in parts.  Database errors other than a refused transition (outbox),
a failed batch (updates) and a failed file operation (accounts, cache) are not
modelled; an endless stream of live updates, which would postpone the gap timer, is not
either: the supply of envelopes is finite.

## Running

```
tlc -workers 2 -config OutboxStore.cfg OutboxStoreMC        # and so on: X.cfg with XMC
tlc -workers 2 -config ForegroundServed.cfg HistoryLoadsMC
tlc -workers 2 -config StaysPending.cfg OptimisticSendsMC
tlapm MediaCacheProofs.tla           # likewise the other seven *Proofs modules
```
