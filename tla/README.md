# nostrherd in TLA+

nostrherd is a host process that watches channels on a Nostr relay for trigger
messages ("@bot do this"), asks an AI occupant through Kelpie (a local message
broker), and publishes the occupant's answer back to the channel under the
operator's key. This directory models what can go wrong in it in ways a test hardly
reaches: the turn table, publishing, retries, restarts, the dispatch queue, the
Kelpie inbox, the relay's replay cursor, progress posts, watches, what an
occupant is given and how it is kept alive, how a host comes up; and, as
operators checked and proved against what they promise, the pure parts: reading
events, filters, mentions, names, files, receipts.

Paths below are relative to the repository (`src/`); the crate is
`src/crates/nostrherd/src/`, the pure types are `src/crates/domain/src/`.

## Inventory

| Part | Where | State it keeps | Operations | What makes it correct |
| --- | --- | --- | --- | --- |
| Turns table | `sqlite.rs`, `domain/lib.rs` | `turns`, `processed_events` | enqueue, open next, set state, claim / release, cancel / replace unclaimed, dispatch failure | one open turn per session, one live turn per trigger, oldest first, only legal transitions |
| Outbox | `outbox.rs` | `outbound_attempts` | take a final or a tell, save, claim, prepare, send, accept, post, fail, retry, abandon | one event per answer however often it is sent; recorded before sent; never acknowledged before settled |
| Dispatcher | `actor.rs` | nothing of its own; the tables | trigger, edit, delete, ask, open, cancel, resume, failure notice | a turn opens only on an ask that stands; the queue never stops; a failed request is told once |
| Serving host | `main.rs` | the position of one task in a `select!` loop | restart, tick, resume timer, inbox branch, relay branch | any crash or failed commit is recovered by redelivery, retry or resume |
| Inbox thread | `inbox.rs` | connection, `pending`, two channels to the task | claim, read, forward, acknowledge, reconnect | nothing Kelpie holds is skipped; what is answered is settled |
| Relay ingest | `relay.rs`, `sqlite.rs`, `main.rs` | `relay_events`, `pending_ingest_events`, the replay cursor they imply, the live filters | index, mark processed, fetch stored, resubscribe | no event is lost between two restarts; mutations reach their target |
| Progress posts | `progress.rs` | `progress_posts`; the command queue, active set and completions of a background worker | record, hold, create, edit at an interval up to a cap, delete | one post per ask, showing the newest body, deleted on cancel, never edited after the answer |
| Watches | `watch.rs`, `sqlite.rs` | `watches`, `watch_fires` | declare, match, cooldown, expire, wake | a fire wakes once, within its limits |
| Kelpie client | `lib.rs` | none | ask, cancel, tell, adopt, bind, start, restart, waiter | a receipt is taken as what it says and no more; no doubtful ask is guessed |
| Occupant recovery | `actor.rs`, `lib.rs`, `herdr.rs` | `sessions.renew_id`; obligations in Kelpie, panes in Herdr | ask through the name, reclaim, start, arm, cancel, retire | one identity behind a name; no working occupant closed; the queue reaches one that knows of its ask |
| Asks | `ask_body.rs`, `snapshot.rs`, `actor.rs` | the ask cursor of a session, its place file, `startup.md` | render, cap, refresh, deliver, open, save | what the cursor passed was told; the place file has the rest; hand-written text stays |
| Reading and writing events | `relay.rs`, `domain/`, `outbox.rs` | none | author, trigger, edit, deletion, thread, stamp | a request is its author's; nothing the host writes asks; an answer stays in its thread |
| Filters | `relay.rs`, `main.rs` | the live subscriptions | fetch, subscribe, refresh | no request, edit or deletion goes unfetched |
| Mentions and audiences | `relay.rs`, `outbox.rs`, `main.rs`, `actor.rs` | an audience for each actor and channel | mask, name, notify, refresh, route | those meant are notified; private only by roster; whoever handles an answer knows its audience |
| Places and names | `domain/lib.rs`, `relay.rs`, `actor.rs` | session names | display, slug, candidates, grant | names are apart and name files |
| Lookup | `lookup.rs`, `main.rs` | a socket | query, resolve, answer | "No results" means that the relay was searched |
| Configuration and setup | `config.rs`, `init.rs`, `paths.rs`, `main.rs`, `sqlite.rs` | the registry, corpora, the schema and its stamp, the waiter key | init, load, migrate, stamp, register | no bot is lost; no older build serves; one waiter |

**How they interact.** One tokio task runs `serve`. Its `select!` takes, in
random order, a delivery from the inbox thread (an mpsc channel; the task sends
acknowledgements back on another), a live notification of the relay, a
one-second tick (`poll_relay`, `retry_outbound` and `flush_progress`), and a thirty-second timer (`resume_queued`). Every handler
runs to its end before the next branch is taken, so handlers do not interleave;
what interleaves with a handler is a crash, a failed commit, and the outside:
Kelpie, the occupants, the relay and the operator's edits between handlers. The
one other task of the process that matters is the worker that sends the edits
and deletions of progress posts; it shares a command queue, a set of active
operations and a completion channel with the tick. All
durable state is one SQLite database, and every repository call is one
transaction. Calls to Kelpie and to the relay are not part of any transaction.

**What is hard.** A send that timed out may have been stored; a crash may come
between recording, sending and marking; Kelpie redelivers what was not
acknowledged; edits and deletions race with the retries of an answer; three
paths drain one queue; an ask may be delivered though its receipt is lost; the
replay cursor is derived from what was indexed, which says nothing of what was
fetched; the relay replays fifteen minutes of events every second; the
retry cap, the dispatch bound and the failure notice are each several commits;
an ask sent again under its key keeps the body it had; a runtime may come up
after its start was reported as failed; a migration may stop half-way; and an
audience, a subscription or a pane listing may be older than what it is used for.
`PROJECT.json` lists each hazard at its line, with the property that covers it.

## Modules

| Module | Models | Code |
| --- | --- | --- |
| `TurnTable` | one operator for each SQLite transaction on `turns` | `sqlite.rs` 740-1130, 1600-1633 |
| `HostState` | all variables of the host, and the position `at` of its task | the rows and structs of `outbox.rs`, `main.rs` |
| `Outbox` | deliveries, the publish path, the tick | `outbox.rs` 590-1450, `actor.rs` 690-758 |
| `Dispatch` | triggers, edits, deletions, the queue, dispatch failure | `actor.rs` 364-1505 |
| `Host` | the composition, with crashes, restarts, failed commits, Kelpie's redelivery; the properties | `main.rs` 842-1038 |
| `AnswerLedger` | the abstract promise: each request waits, is worked on alone and in order, and ends answered or closed, with at most one answer shown | |
| `HostLedger` | the refinement mapping of `Host` to `AnswerLedger` | |
| `Inbox` | the inbox thread, the socket and Kelpie at its other end | `inbox.rs` 136-377 |
| `Ingest` | the poll, its cursor, the live subscription, pending and processed marks | `main.rs` 549-840, `relay.rs` 475-880, `sqlite.rs` 625-772, 1090-1161, `actor.rs` 963-1105 |
| `Progress` | the progress post of one ask, the tick and the background worker | `progress.rs`, `domain/progress.rs`, `outbox.rs` 526-550, 822-858 |
| `Watches` | watch commands, fires and wakes of one session | `watch.rs`, `sqlite.rs` 1163-1323, `actor.rs` 429-505, `main.rs` 549-607 |
| `Asks` | the queue, the ask cursor, the place file and the commits of an ask in one session | `ask_body.rs`, `snapshot.rs` 67-176, `actor.rs` 1119-1351, 1536-1561 |
| `Occupants` | the seat of one session: asking, recovering, reclaiming, starting, arming | `actor.rs` 821-915, 1190-1534, `lib.rs` 377-950, `herdr.rs` 86-174, `sqlite.rs` 428-450, 858-871 |
| `Startup` | `init`, the registry, loading, migration, stamp, waiter | `main.rs` 308-398, 1056-1226, `init.rs`, `config.rs`, `sqlite.rs` 20-576 |
| `Reading` | authors, triggers, edits, deletions, threads, stamps, markers | `relay.rs` 475-727, 1004-1070, `domain/` |
| `Filters` | filters, the poll's subscriptions and their refresh | `relay.rs` 745-880, 1071-1157, `main.rs` 608-799 |
| `Mentions` | code masking, aliases, notified keys, audiences | `relay.rs` 57-276, 928-1002, `outbox.rs` 565-581 |
| `Routing` | actors, deliveries and audiences of a host with several bots | `main.rs` 414-457, 507-590, 842-912, `actor.rs` 301-316, 581-692 |
| `Places` | displays, bot ids, session names, file names | `domain/lib.rs` 15-351, `relay.rs` 892-926, 1199-1236, `main.rs` 472-505, `actor.rs` 392-396, 1604-1608 |
| `StartupFile` | the host's blocks in `startup.md` | `snapshot.rs` 34-43, 187-310 |
| `Lookup` | one search, from the pane to the relay and back | `lookup.rs`, `main.rs` 1258-1272 |
| `Receipts` | what each Kelpie and Herdr command's outcome is taken for | `lib.rs` 132-990, `herdr.rs` 86-248, `actor.rs` 1389-1505 |
| `Subsequences` | what one pass keeps of a sequence, given by the set of its places | `domain/lib.rs` 24-49, `relay.rs` 57-77, `outbox.rs` 565-581 |
| `Texts` | the modules from `Reading` on side by side, one input or one history of inputs in a state, and what they promise | |
| `HostSafety` | proofs about `Host`: types, publishing, the queue, answers, and that it implements `AnswerLedger` | |
| `IntakeSafety` | proofs about `Inbox` and `Texts`: what the host takes in, from the socket and in a text | |
| `IngestSafety`, `ProgressSafety`, `WatchesSafety`, `AsksSafety`, `OccupantsSafety`, `StartupSafety` | proofs about the module each is named for | |
| `MCHost`, `MCInbox`, ... | instances for TLC, one for each specification | |

### How state and actions correspond to the code

`state`, `trigger`, `claimed`, `opened`, `failedAt`, `lastSeq` are the columns
`state`, `event_id`, `publish_claimed`, `ask_id`, `dispatch_failed_at` and the
autoincrement of `turns`. `attempt` is `outbound_attempts`, keyed by turn (its
ask id), by tell message, or by trigger for the failure notice. `relay` is what
the relay stored. `ask`, `held`, `settled` are Kelpie's. `at`, `cur`, `msg`,
`todo` are the host task: which commit or call comes next in the running
handler, the row it is about, the delivery being handled (`NoMsg` on the tick)
and the sessions `resume_queued` has still to visit. `"idle"` is the task
between two `select!` branches, `"down"` the stopped process.

An action is one commit or one external call of a handler, so a crash can come
between any two of them and nowhere else. `TakeFinal ... Ack` is the whole of
`handle_host_delivery`; `RetryAttempt ... ` is one iteration of
`retry_outbound`; `HandleTrigger`, `HandleEdit`, `HandleDelete` and the `ask`,
`cancelAsk`, `openTurn` steps are `handle_ingest`; the `resume*` steps are
`resume_queued`.

In `Ingest`, `indexed`, `processed`, `pending` are the tables `relay_events`,
`processed_events`, `pending_ingest_events`; `since`, `scope`, `batch` are the
locals of `poll_relay` and `live` the filters it last subscribed with. `Observe`
is `RelayIngest::ingest` (one commit), and the steps from `"handle"` to
`"observe"` are the rest of `observe_event`. In `Watches`, `watch` is a row of
`watches` and `fired` is `watch_fires`; `wakes` counts the turns queued for each
fire. In `Progress`, `row` is a row of `progress_posts`, `queue`, `active` and
`done` are the three parts of `BackgroundProgressRelay`, `drained` the
completions a tick has taken and not applied, and `posts`, `deleted`, `shown`
are the relay.

In `Asks`, `cursor` is the pair `ask_context_created_at`, `ask_context_event_id`
of `sessions`, `draft` the `RenderedAsk` in memory, `letters` what Kelpie holds
under an idempotency key; `told` and `excused` are ghosts. In `Occupants`,
`row` and `renew` are `sessions.renew_id` and the handler's copy of it, `ready`
is what `whoami` sees, `holder` the pane Herdr lists under the name. In `Startup`,
`columns` is the schema as the set of columns, `stamp` is `host_version`,
`targets` and `wakes` the column `publish_reply_to_event_id` of old turns and of
wakes. `Reading` to `Receipts` have no variables: an operator for each function.
A state of `Texts` is one `input` of them; three kinds of input go on. Asks of one
host fill its set of `sessions`; polls of one connection move its filters through
refreshes that fail at any request; a day takes a host with several bots through
triggers, edits, answers, ticks and restarts with another registry.

### Abstractions

- **One bot.** `BotActor`s share no rows: every query filters by bot. `Channels`
  are the sessions of one bot. Legacy rows without a `bot_id` are skipped.
- **An event id** is the stamped body and the timestamp it is built from. The
  thread root and the mentions are fixed by the turn. Stamping is an injection.
- **Kelpie and the relay** are external. An ask is keyed by event and sequence,
  so asking again gives the ask it gave before. An acknowledgement is atomic
  with Kelpie's answer in `Host`; `Inbox` models the wait.
- **`Arrives` and `Reconnect` are taken between handlers** (`Unseen`): the task
  reads its channel only there, so what arrives during a handler is seen at its
  end or lost with it.
- **`retry_outbound`** is split into single attempts, with the resume it runs at
  the end taken after each attempt that ended a turn. The resume is idempotent.
- **The clock** appears as `Times` an event may be prepared at, as the pacing of
  retries (any due attempt may be taken), and as `PastBound`: the first failure
  is an hour old. `LongOutage` says whether an instance lets that happen.
- **Occupant recovery** is one of the outcomes of `AskFails` in `Host`: the ask
  does not exist, was delivered, or was cancelled. `Occupants` has its steps.
- **Upgrades.** `UpgradedDatabase` is a database whose turn was being answered by
  a version that did not record the prepared id (`NoEvent` on the relay). It is
  the only way to a row that is dispatched with no prepared id, which the code
  handles in three places.
- **Declined edits** (no change of trigger text that matters) leave the tables
  alone and have no action.
- **`Ingest`.** `TurnMoves` stands for all that the dispatcher and the outbox
  do to a turn between two events; `Host` has it in full. The authors' clocks
  are right (`created` is the clock when the event is stored) and two events may
  share a second. The order inside each part of an answer is left free, since
  the code sorts nothing. `Deletes` also stands for edits that leave no request:
  both end in `abandon_unclaimed`. A refresh of the live filters that fails
  keeps the old ones and lets the poll go on, except before the first one.
  `Fanned` names the events the relay also sends live: the code says that some
  are only stored (`main.rs:785`). An event in both `Edits` and `Deletes` is an
  edit whose author may lose admission before it is observed: it may be applied
  either way.
- **`Watches`.** `rank` is the order `(created_at, event_id)` the code compares.
  A stored event may be observed again at any time: the newest event always lies
  in the overlap the tick fetches. `Matches` stands for authors, channel and kind.
  Whether the command's own turn is answered is `Host`'s business.
- **`Progress`.** One ask. Operator notices are left out, with the two columns
  that pace them. A command is queued in the step of the commit before it, as no
  other step of the task comes between and a crash loses the queue.
  `CancelTurn` does not look at the publish claim, which only forbids some of
  its steps. The output guard's verdict on a body and the operator's key stay
  as they are while a create is prepared. An event that timed out lands before the answer or never; a landing
  later is left out.
- **Reactions.** The in-flight marker is in `Reading`, as the events that set and
  remove it; that it is set and removed at all is best effort and not checked.
- **`Asks`.** One session; the lines of a Context are sizes, and "a character lies
  across the cut" is the constant `Split`. An event counts as `excused` when a
  cursor may pass it unsaid: it came late, was capped (the body says so), precedes
  the first ask, was in a body that was replaced by the one Kelpie had, or woke
  the occupant. An edit leaves the queue as `Closes` or `Decline` do.
- **`Occupants`.** One session. Runtimes are numbered by their starts; a start
  reported as failed may come up `late`. A runtime that ends is found out by
  Kelpie some time later (`Notice`). What a command prints is in `Receipts`; a
  refusal, an unavailable recipient or a doubtful delivery comes with a receipt that
  names the ask, or the host looks the ask up among what Kelpie has pending toward
  it, and goes on with the only one there is, whosever it is, or gives up (`Receipt`,
  `NoReceipt`). An ask recorded for any other turn cannot be recorded again
  (`OpenFails`).
- **`Routing`.** Each step says which audience indexes and which actors' scopes
  cannot be read in it. `missed` is no state of the code: it remembers the actors
  whose last attempt to read for a channel since the restart failed. A lookup at the
  relay that fails sets a shared audience and is in `Mentions`.
- **`Startup`.** One person runs one `init` at a time, and starts one host at a
  time; `init` and a host that starts interleave. A file write is a truncation
  and a write. A partial write leaves the registry empty, not half a line. `--print-only`,
  paths, environment and the escaping of names are left out.
- **`Texts`.** Names are short sequences of characters, bodies and answers sequences
  of tokens, tags records. A token of an answer is a name, a sign, a run of
  backticks or tildes with its length, the end of a line or the indent of one: what
  `mask_markdown_code` and `mentioned_pubkeys` tell apart. The words around a name
  delimit it. A `startup.md` is a sequence of markers, bodies, ends of lines and
  texts by hand. What the code does in one pass over a sequence (filter, dedup,
  cut at a cap) is said by the places it keeps, and a scan with a state (fences,
  spans) is a recursive function of the place. Lengths (`MaxName`,
  `MaxMentions`, `FenceLength`, the suffix's first length and step) are constants.
  The library attributes relay-signed events to the author they name; `RelayKey`
  is that relay, though the host passes none (`main.rs:964`). A thread with a root marker and no reply marker is not among the
  inputs: no client writes one. A `--session` argument is trusted (D72).

## Runs

Bounds: `MaxTurns` rows of `turns`, `RetryCap` for the code's 30, `Times`
clock readings, `MaxCrashes`, `MaxErrors` (failed commits), `LongOutage`,
`MaxDrops` (lost connections), `MaxTime` (clock readings), `MaxFailures`
(handlers, commands or commits that fail), `MaxHeard` (progress deliveries), `MaxAsks`
(different asks of one host in `texts`; days and polls have no bound but their sets),
`MaxDeaths` (runtimes that end), `MaxOpens` (builds run), `MaxRetired` (waiters
retired by an operator).

| Run | Instance | States | Shows |
| --- | --- | --- | --- |
| `finals` | 1 turn and 1 tell, two bodies (an answer, one the relay refuses) and the blank one, cap 1, 2 clock readings, 1 crash, 1 failed commit | 3.6M | types; one event per answer; recorded before sent, posted only if on the relay (`RelayIsKnown`); nothing acknowledged too early; what was given up is never sent |
| `edits` | 2 turns of one trigger, 1 body, cap 1, 2 clock readings, dispatch bound reached, 1 crash, 1 failed commit | 2.0M | an answer shown is never disowned; one posted turn per trigger; cancelled turns are silent; the notice goes only to a request that failed in the queue; the host implements `AnswerLedger` |
| `queue` | 3 triggers in 2 sessions, 3 turns, one revocable requester, 1 crash | 1.35M | the unique indexes are never violated, oldest first (`QueueIsOrdered`); open only on an ask that stands |
| `liveness` | 1 turn, cap 2, one revocable requester, dispatch bound reached, 1 crash | 18k | every recorded answer ends its turn and every attempt is accepted or given up (`AnswersSettle`); the head of an idle queue leaves it |
| `inbox` | 3 messages, one never answered, 2 lost connections | 11k | nothing is skipped; what is answered is settled unless a delivery overtakes a reply |
| `ingest` | 1 trigger, 1 note that is also live, 1 edit that may turn out to take its request away, overlap 1 of 2 seconds, 1 crash, 1 failed handler | 0.28M | the floor of the cursor, and that a processed event is never pending (`ReplayIsSound`); triggers are acted on unless the cursor passed them; edits reach their turn while it lasts and what was begun is finished (`MutationsAreApplied`) |
| `watches` | 2 watches, one expiring, 1 cancellation, 2 messages, limit 2, cooldown 1, 1 crash, 1 failed commit | 2.1M | counts, limits, cooldowns (`LedgerIsSound`); a fire wakes once unless it was cut off; closed watches stay closed and a processed declaration has its row |
| `progress` | 4 bodies of 2, hold 1, interval 1, cap 2, 4 seconds, refused creates and deletes, 1 crash | 0.58M | one post that shows the newest body when quiet and is not edited after its delete (`PostIsSound`); spacing, cap and relaying of what is due (`PostKeepsPace`); a cancelled post is deleted |
| `asks` | 2 triggers, 1 note that wakes the occupant and whose line panics when it stands alone, 1 progress post, 1 message of another channel, lines 1 of 2 bytes, 2 seconds, 1 crash, 1 failure | 0.56M | what the cursor passed the occupant was told, or may miss for a named reason; the place file has the whole window; the head is asked |
| `occupants` | 2 turns, 2 failed or doubtful commands, 1 death, 1 crash | 107k | one identity and one Ready runtime; obligations match the turns; no working occupant closed; the queue drains to an occupant that knows of its ask |
| `startup` | 4 inits (two share an id, two a directory, one fails in git), builds 9 and 10, 3 starts, 1 crash, 1 retired waiter; the database new or the oldest one | 1.9M | the registry keeps its bots, refused inits leave nothing; a stamped database is whole, no older build serves, one waiter is live |
| `texts` | every post, edit, thread, body, text, roster, naming, file, search, poll, adoption, restart, ask and day of small sets | 0.36M | requests are their authors'; nothing goes unfetched; threads, notified keys and audiences; names; `startup.md`; receipts and lookups |

A property named `...IsSound`, or one of `texts`, is a conjunction: its parts have
names and comments of their own in the module.

**Why the bounds are enough.** In `finals` one body can be sent and one is
refused for good, so a row is resent, replaced by its next body, or given up; the
tell shares the tick with it. Two clock readings distinguish a rebuilt event from
a new one. Two turns of one trigger give an edit of an edit its replacement; three
turns in two sessions give a queue with a tail and a neighbour. A cap of 1 has the
first failure at the cap; the cap of 2 in `liveness` has a retry below it, one at
it, and one that crashes after the count is stored. One crash is enough for every
pair of commits, since a restart leaves no memory but the tables. In `Ingest` the
clock outruns an overlap of one second by one, which is all "passed by the cursor"
needs; in `Progress` four seconds hold a create, the edits up to the cap and one
body past it; in `Watches` one second ends a cooldown and a lifetime. In `Asks`
two seconds have an event before, in and after the cursor's second, one line of
Context makes every second event a capped one, and a window of no seconds has
events fall out of it. In `Occupants` two turns let one be asked while the other's
obligation stands, and two failures, a death and a crash give four runtimes to
reclaim one after the other. In `Startup` builds 9 and 10 are those text order gets wrong; three
starts have an older one between two newer ones. In `Texts` a set of inputs has
each shape the code tells apart, two of most kinds and three where two must differ
from a third; what is longer only repeats a shape. The safety theorems below need
none of these bounds.

### Fairness

`FairSpec` assumes that a handler once started goes on (`PublishStep`,
`DispatchStep`: straight-line code with timeouts on each call) and that the
process is restarted (it runs under a supervisor). `select!` picks among ready
branches at random, the tick is due every second and the resume timer every
thirty, so each offered message, each due attempt and the timer is taken
infinitely often if it is ready infinitely often: strong fairness, since other
handlers make the branch unavailable in between. `PastBound` is the clock: a
turn that fails for ever is at some point an hour past its first failure.
Nothing is assumed of the relay, of Kelpie's asks or of the occupants, and
`Arrives`, `Reconnect`, `Crash`, `StorageError` are unfair. In `Inbox` the
thread, Kelpie and the host keep running; connections may drop.

In `Ingest` the tick is due every second and the relay answers a fetch again and
again, so polls and both fetches are strongly fair; live notifications, failures
and `TurnMoves` are unfair. In `Progress` the tick comes, the worker runs, and a
relay that is asked again and again accepts at some point; a refusal is not
assumed to come or to stay away. In `Asks` the host is restarted, its handler goes
on, and an open turn closes some day; failures are bounded. In `Occupants` the tick
dispatches again and again and Kelpie finds out about runtimes that ended; nothing
makes an occupant answer, a late start come up or a command succeed but the bound on
failures. `Watches`, `Startup` and `Texts` state safety only.

## Where the code parts from its documents

TLC refutes these statements of the code's own documents and comments. Each is a
definition of its module; put it in the run's `.cfg` in place of the properties (and
a fair specification for the temporal ones) to see the behaviour.

1. **A second final** (`OneFinalPerTrigger`, run `edits`). A send that timed out
   after it landed releases the publish claim (`outbox.rs:1242`). An edit in that
   window finds the turn unclaimed and replaces it; the replacement is answered, and
   the channel shows two finals for the trigger. `docs/decision-log.md:165` says
   "at most one final `[bot]:` for that triggering event".
   `OnePostedPerTrigger` holds: the table never says so.
2. **An overtaken reply** (`PendingEmpties`, run `inbox`). `ack_inner` puts a
   delivery that arrives before the reply to an acknowledgement on `pending`, and
   `read_json` (`inbox.rs:355`) pops `pending` before it reads the socket: the
   delivery is read back for ever. `docs/testing.md:832` expects that "pending
   empties after inbox.ack on reconnect".
3. **A lost trigger** (`TriggersProcessed`, run `ingest` with two notes). The cursor
   is the newest indexed event less the overlap (`sqlite.rs:724`), and a batch is
   indexed one event at a time in the order of the answer. After a long outage, a
   crash between a new message and an older trigger of one batch moves the cursor
   past the trigger. `lib.rs:1674` promises "a safe inclusive relay replay cursor".
   A live message indexed while the fetches fail moves it the same way.
4. **A stale edit** (`LatestEditWins`, run `ingest` with two edits). `handle_edit`
   (`actor.rs:1028`) applies whatever edit is observed; two edits of one answer may
   be applied newest first. `docs/decision-log.md:165` (D14) promises the latest body.
5. **A stranger's renew schedule** (`RenewIsItsOwn`, run `occupants`). The renew id
   is cleared in memory (`actor.rs:1438`) and saved only at the end; a crash or a
   failed arming leaves the row with the schedule of the runtime before. The comment
   at `actor.rs:1437` says "A new runtime never inherits the old one's renew schedule."
6. **Another turn's ask** (`AskIsItsOwn`, run `occupants`). After a doubtful delivery
   `pending_ask_id` (`lib.rs:898`) takes the only obligation there is toward the host.
   If the host stops between an ask and the commit that opens its turn, and an edit
   then withdraws the turn, its ask was recorded nowhere and is not cancelled: the next
   turn may open on it. An ask that was recorded is refused by the unique column
   (`sqlite.rs:432`). The comment at `lib.rs:715` has it "reconcile the attempt".
7. **A stamp without its data** (`StampedIsFilled`, run `startup`). A crash between
   the `ALTER TABLE` and the `UPDATE` of `sqlite.rs:160-165` leaves the column there
   and its old rows without a target; the next start finds the column, skips both
   and stamps the database. `docs/decision-log.md:1376` (D64) says that the stamp
   names "the build that last fully shaped it".

### Exceptions the properties name

More places where the code does less than its documents say, or than a reader may
expect; the property that holds states the exception.

| Where | What the code does | Document | Property |
| --- | --- | --- | --- |
| `actor.rs:928` | the failed state and the requester's notice are two commits; a crash in between loses the notice | `docs/invariants.md:32` (I26) | `NoticeOnlyForFailed` says who may be notified, not that he is |
| `actor.rs:1098` | a failed Kelpie cancel returns before the event is marked processed, and its turn is no longer active: its pending row holds the cursor | `docs/decision-log.md:322` (D24) | `BegunIsFinished` (in `MutationsAreApplied`) ends with the turn |
| `main.rs:590` | a fire and its turn are two commits; a replay finds the fire recorded and does not wake | `SPEC.md:338` | `FiresWakeUnlessCut` (in `WakesFollowFires`) |
| `sqlite.rs:1260` | a message inside the cooldown leaves no row, is observed again, and fires when the cooldown ends | `SPEC.md:340` | `FiresAreApart` (in `WakesFollowFires`) bounds the spacing only |
| `sqlite.rs:1206` | `cancel_watches` closes the rows there are; an older declaration observed later becomes active | `docs/decision-log.md:824` (D46) | `CancelledByNewer` (in `DeclarationsStand`) is about closed rows |
| `progress.rs:712` | the final's attempt is looked for when an edit is queued, not when it is sent | | `NoEditAfterDelete` (in `PostIsSound`) orders edits with the delete only |
| `actor.rs:1096` | a crash between cancelling the turn and ending its progress row leaves the post up | `SPEC.md:323` | `CancelledPostIsDeleted`, unless cut |
| `ask_body.rs:154` | the cursor goes back when an older queued trigger is asked after a newer event was told; what lies between is told again | D5 | `PassedIsTold` says nothing of telling twice |
| `sqlite.rs:640` | an event indexed late, with a time before the cursor, is in no Context | D5 | `PassedIsTold` excuses it; the place file has it while its window lasts |
| `actor.rs:1262` | the message a watch fired for is left out of its own wake's Context, and the wake's body has only its author, kind and channel | D46 | `PassedIsTold` excuses it |
| `actor.rs:1307` | an ask sent again under its key is replayed with the body Kelpie has, and the cursor of the body rendered now is saved | | `PassedIsTold` excuses what only the second body had |
| `ask_body.rs:145` | `String::truncate` panics when the cap falls inside a character, again after each restart | | `HeadIsAskedUnlessSplit` |
| `main.rs:512` | an index that cannot be read keeps the audience looked up before, or none | | `PrivateByRosterOnly` names the case; where there is none, the channel counts as shared |
| `main.rs:536` | an actor whose scope cannot be read is passed over by a refresh, the one after a restart included | | `DeliveriesMeetTheirAudience` excepts who failed the last time |
| `main.rs:885` | a tell goes to the first actor whichever bot's occupant sent it | | `DeliveriesMeetTheirAudience` asks only that it has the audience, or failed to get it, once all were refreshed |
| `main.rs:585` | the edit of a trigger whose bot was removed is marked processed unseen, and the bot's outbound rows are retried by nobody | | `DeliveriesMeetTheirAudience`, configured bots |
| `relay.rs:208` | a code span found after fences were taken out may reach across paragraphs | | `NotifiesThoseItMeans` speaks of text that is plainly code or plainly not |
| `relay.rs:754` | a refresh that fails half-way leaves some new filters live and some old | | `LiveIsWholeOrRefreshed` |
| `main.rs:1189` | the registry is truncated before it is written: a crash between loses its bots | | `DoneIsRegistered`, unless cut |
| `main.rs:335` | `--check` of a newer build migrates and stamps the database an older one serves | | `NoOlderServes` is about starts |

## Proofs

`tlapm` checks every theorem for all values of the constants under the modules'
assumptions: triggers, sessions, messages, bodies, times and names arbitrary, the
bounds (`MaxTurns`, `RetryCap`, crashes, failures, lost connections) any number.
Every state invariant and action property a run checks is proved here. Of the state
machines none is inductive alone; each proof goes through an inductive
invariant, which TLC checked before, one lemma for each group of actions. What the
operators of `Texts` compute is proved from what they read, for any input.

### The host (`HostSafety`)

- **Types.** `HostTypeOK` is not inductive: an action that updates `attempt[cur]`
  keeps its type only if `cur` is a key, and a retry stays below the cap only if it
  was. `TypeInv` adds where the task is: a publishing step has a key, a dispatching
  step a turn, an acknowledging one a delivery. `TypeCorrect`, `HostTypeCorrect`.
- **Publishing.** `SafetyInv` is what is known of the relay. `RelayKnown`: every
  event there is the prepared event of a recorded row (or the upgraded one, whose row
  can never be prepared again), so resending rebuilds it. `CursorKnown`: at `send` the
  row is recorded, prepared and dispatched; at `accept` and `post` its event is on the
  relay. `AcceptedKnown`: an accepted row or a posted turn has its event. `ClaimKnown`:
  at `prepare` and `send` the turn is open and claimed, and only an opened turn has an
  attempt. `OneEventPerKey`, `RecordedBeforeSent` and `PostedIsOnRelay` are not
  inductive: a step that sends needs to know what `prepare` wrote, and a retry that the
  recorded id is the one on the relay. `RelayIsKnown`, `SpeaksOnlyOpen` and
  `AbandonedIsSilent` follow.
- **The queue.** `QueueInv` is a `TableInv` that only speaks of rows, and what the
  running handler knows. The indexes are on live turns, but an edit queues another row
  for its trigger beside those that ended: `OneCurrentRow` says that all rows of a
  trigger but one were cancelled, so none was posted. `HeadKnown`: `open_next_turn`
  opens the row it picks itself, and the one that was asked is still that row. From it
  `QueueIsOrdered`, `OpenTurnWasAsked`, `OnePostedPerTrigger`, `NoticeOnlyForFailed`.
- **Answers.** `AnswerInv`: `NotYetAccepted`, a row that a handler may still give up,
  release or fail is not accepted, since the claim keeps every other step off it
  (`CursorOpened`, `AnswersKept`); `AckKnown`, at the acknowledgement nothing is left to
  do, and what is done stays done. From it `ShownTurnKeepsItsAnswer`, `AckedIsSettled`.
- **Refinement.** `ImplementsLedgerHolds`: the initial states map to initial states;
  inserting a row is `Accept` (a replacement closes the old request in the same step),
  opening it `Begin`, ending it `Close` or `Answer`, a send `Show` if the event is new
  and a stutter if it is resent. The ledger's guards are `QueueInv` (one at work, in order) and
  `SafetyInv` (one event of a key, sent only while open).

### The other modules

- **`IntakeSafety`, of the inbox.** A message is skipped if a reply is taken for a delivery or a
  delivery for a reply. `ReplyAwaited`: at most one line on the socket is a reply, and
  only while the thread waits and Kelpie has nothing more to read; `DeliveriesPending`:
  what was put aside is a delivery. A new claim offers a finite set line by line
  (`LinesOfSet`, by counting). `InboxIsSound`.
- **`IngestSafety`.** `ReplayIsSound` needs that what is pending is indexed.
  `PollKnown` adds that between the start of a poll and its fetches nothing becomes
  pending and no turn moves, so cursor and scope still fit: `PendingIsFetched`, the
  safety half of `BegunIsFinished`, which no run states.
- **`WatchesSafety`.** The count of a watch is the cardinality of its fires, which a
  fire enlarges by one. `LastIsNewest` ties the cooldown, kept in one column, to the
  ledger; `FiresToWake` says which fires the running handler still has to wake for;
  `Declared` that nothing fires before its declaration was stored. `LedgerIsSound`,
  `WakesFollowFires`, `DeclarationsStand`.
- **`ProgressSafety`.** The row, the worker's queue, its running operation, the
  completions and the drained ones all speak of one post. `WorkerKnown`: of each kind
  there is one operation from its queueing to the commit of its completion. `PostKnown`,
  `NewestKnown` and `EditKnown` (with `Timely`) say what the operation under way, once
  committed, will make true of the relay; `DeleteKnown` that no edit is left when a
  delete is sent. `PostIsSound`, and `CountedEditsAreSpaced` of `PostKeepsPace`.
- **`AsksSafety`.** `PassedIsTold` is broken by the save of a cursor, three steps after
  the ask was rendered: `NextIsCovered` states it of the cursor about to be saved, from
  the delivery on; `DraftKnown` that the draft still has all that is after the cursor;
  `LettersTold` what a replayed ask told when it was first taken. That a last key exists
  to save is by the well-foundedness of finite subsets (`LastKey`). `ContextIsSound`,
  `PlaceTellsTheRest`.
- **`OccupantsSafety`.** `SeatKnown`: what is alive is in the pane that holds the name
  and is Ready or late, and before a start nothing is alive; `StartsCounted`: each start
  but the last was reported as failed or its runtime ended. So one identity and one
  Ready runtime (`SeatIsSound`), no working one closed (`LiveSeatIsKept`), and the bound
  on runtimes never stands in a start's way (`StartsAreUnbounded`). `OneOpen` has
  that no ask is recorded twice; `FailedIsHandled` that short of failures only the ask
  being handled and that of the open turn are held. With what each step knows of the
  ask they give `ObligationsMatchTurns`: after failures an open turn may wait for an
  ask that was another's, but for one that stands and that no other turn recorded.
- **`StartupSafety`.** `ComingUp` has for each step of a migration the columns still to
  add and to drop; a build between its stamp and its registration is the one stamped; a
  live waiter is the one in the key file. `FilledByOne`: what is in a corpus an `init` put there that was not refused.
  `SetUpIsKept` and `DatabaseKeepsItsHost`.

### What the host takes in (`IntakeSafety`, of `Texts`)

An input that does not go on is a member of one of the constants (`TakenFrom`), of
which the assumptions of `Texts` speak; what the operators make of it is then
proved of any such member. Induction over data is out of reach as such, so what a
scan computes is proved by the least place at which it could go wrong
(`LeastMember`, from the well-foundedness of the numbers): before it all is well,
and one step keeps it so. The parts of a sequence are counted (`NthIs`, `PickedIs`,
`PickedRange`): what is kept is what stood at the places kept, in its order, each
element once (`OnceIs`).

- **Requests** (`RequestsAreTheirAuthors`). `SameAction`: what a post asks depends on
  its author, the keys it mentions, its body and its place in a thread only. A tag
  put before or after the others moves no other tag's order (`tags`), so the relay's
  word on the author reads as his own signature. An edit's request is found by the
  rule that finds a new post's. What the host sends carries its stamp before any call.
- **Filters, polls and days** (`NothingGoesUnheard`). A filter is found for each case
  of `Action`; that acting implies being fetched needs no induction. `PollsInv`: a
  connection that announced itself had its filters subscribed, and without an error
  since, what is live has the shape of what was wanted last. `DaysInv`: every
  configured bot holds the audience of its own sessions or failed the last time it
  tried since the restart, and so do all actors for all sessions but the ones opened
  since the last refresh (`Known`; a failing read moves a seat from one set of it to
  the other, `TriedFields`). Neither property is inductive:
  a refresh that fails half-way, and a restart with other bots, need these.
- **Threads, mentions** (`AnswersReachThoseTheyMean`). `ThreadIsKept`: the answer's
  own tags are two, and read back as trigger and root. For mentions, `FencesOf` and
  `SpansOf` say what the two scans of the mask know at each place. A fence on the
  first line that nothing closes stays open up to the sign (`OpenFenceIsMasked`); up
  to the first opener no span has begun, and the span it begins ends at the next run
  as long (`FirstSpanIsMasked`); where no run has a partner no span begins
  (`PlainSignIsLeft`). A name whose sign was left was left too
  (`NamesStayWithTheirSign`), since a fence takes whole lines and a span ends at a
  run, so the longest alias after the mask is the longest before (`NamedIsMeant`,
  `MeantIsNamed`). `ResolvedAre` has the requester first, nobody twice and the cap.
- **Names** (`NamesAreApart`). What a session is named after is the place's display, or
  the channel's id where there is none (`Display`); `EnsureSession` grants the first
  candidate that is taken by nobody and fits; a suffix that is refused is one some session's name ends
  with. The set of asks grows with the sessions, so the property is kept by each ask.
- **`startup.md`** (`HandTextStays`). `Edited` says what one upsert makes of a file: the
  text before and after a region stays, moved by a number of places, and the region
  becomes one whole copy of the block. It is proved of both ways, replacing a block
  and adding one, then composed for the two blocks, a second pointing and another
  version. `UpsertAgain`: over a whole block only its body changes, so pointing back
  gives the very file.
- **Words** (`WordsAreTakenAsSaid`). By cases of what a command printed; a member list
  that names the operator alone is one whose `Once` has one element (`OnceOfOne`).

**What is assumed**, and why the code or its surroundings justify it. TLC evaluates
each assumption on the instance of run `texts`.

| Assumption | Says | Because |
| --- | --- | --- |
| `ReadingAssumption` | the operator has a key; the registry is a list | `serve` derives it from the operator's keys (`main.rs:916`) |
| `EventsAssumption` | nobody signs a post as the relay, and no trigger's author is the relay; edits name their channel | keys are secret, and a relay signs messages only for the people it names in them; `buzz.rs` writes the channel first, as Buzz clients do |
| `ThreadsAssumption` | the tags of a trigger name its root in one of the ways NIP-10 clients write | what clients write; a root marker alone is not written by any |
| `AnswersAssumption` | texts are tokens, a cap is positive, names are no signs, each member has a profile (one that cannot be read has no alias) | the cap is 50 (`outbox.rs:579`); the tokens are this model's own |
| `FilesAssumption` | a file is lines by hand, markers and bodies older builds left | these are the only pieces the code tells apart |
| `RostersAssumption` | member lists are lists | tags of an event |
| `PlacesAssumption` | names and ids are texts; a channel's compact id and the word for a place without letters are letters or digits; a hyphen is neither | `compact_uuid` or a hash in hex; `slugify` |
| `BindsAssumption` | an adoption that succeeded, or was refused as adopted before, names the holder | Kelpie's answer, which the host cannot check |
| `RestartsAssumption` | a pane Herdr allocates is not one it listed before | Herdr's pane ids |
| `AsksAssumption` | a receipt of success names an obligation of the asked agent toward the host; a listing has what is owed | Kelpie's answer (`lib.rs:768`) |
| `DaysAssumption` | a registry has a bot; a step names its session | an empty registry is refused before `serve` (`main.rs:1062`) |

Nothing is assumed of what an occupant writes, of how long texts, names, files and
histories are, nor of which call fails.

**Only model-checked**: the liveness properties (`AnswersSettle`, `HeadLeavesQueue`,
`SettledUnlessOvertaken`, `TriggersProcessedUnlessPassed`, `MutationsAreApplied`,
`DueIsRelayed` of `PostKeepsPace`, `CancelledPostIsDeleted`, `HeadIsAskedUnlessSplit`,
`TurnsMoveOn`). They need fairness and ENABLED, which the prover does not handle.

## Plan

Done: `TurnTable`, `HostState`, `Outbox`, `Dispatch`, `Host`, `AnswerLedger` and
`HostLedger`, `Inbox`, `Ingest`, `Watches`, `Progress`; `Occupants`, `Startup`, `Asks`,
and `Texts` with the modules under it; the safety of all of them proved, and the
refinement.

Left: the composition of `Ingest` with `Host` in place of `TurnMoves`, for edits that
race with publishing; of `Asks` with `Occupants`, for asks a recovery repeats.

## Not modelled

- When the in-flight marker is set and removed (best effort in the code), and the
  wording of bodies, files and logs.
- The network client of the relay (`nostr-sdk`): a fetch that runs into its timeout
  may return part of an answer as a whole one; `FetchMessages` takes a whole answer.
- Membership and canvas events; channel discovery beyond what `Filters` fetches.
- TOML syntax, paths, environment variables, `init --print-only`, escaping of ids
  and paths in generated files (`init.rs:97`).
- `bind_agent`, `adopt_occupant` and `occupant_ids` are called by no path of the
  host; `Receipts` has them as the library offers them.
- Tests and examples, which exercise the components.
