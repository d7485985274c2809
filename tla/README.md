# Verification of the WhatsApp adapter for AstrBot

This directory holds TLA+ models of `astrbot_plugin_whatsapp_adapter`, the TLC configurations that
model-check them and the theorems about them that TLAPS checks. `PROJECT.json` lists the components,
runs, mutants, hazards, findings and theorems, and maps every definition to the lines it stands for.
All paths below are relative to the repository (`src/` in `PROJECT.json`).

Parse a module with `tlasany M.tla`, check one with `tlc -workers 2 -config X.cfg M`, prove one with
`tlapm M.tla`.

## 1. Inventory

The program has two halves. A *Node Gateway* (`gateway/whatsapp-gateway.mjs`, one process per account)
owns the connection to WhatsApp through Baileys and serves HTTP and an event stream on a local port.
A *Python plugin* runs inside AstrBot: one adapter per account starts its Gateway, reads its events and
sends through it; the plugin class serves the management page and updates the plugin itself.

    AstrBot PlatformManager -- run / reload / terminate --> adapter (one per account)
         |                                                    |  leases a port, starts a child
         |                                                    v
    plugin (main.py) -- page Gateway, update transaction    Gateway process -- Baileys --> WhatsApp
         |                                                    ^      |
         +-- swaps PLUGIN_DIR, reloads, stops accounts        | HTTP | SSE events

| Component | State | Operations | What is hard | What makes it correct |
|---|---|---|---|---|
| Gateway session (`gateway/whatsapp-gateway-impl.mjs`) | socket, `socketGeneration`, `connectionStatus`, `socketTransition` chain, credential save queue, session pointer, reconnect timer, pairing lease | start, restart, reset, logout, pair code, socket events, shutdown | each operation is suspended at awaits; saves of the old socket race the next load; crashes | one transport; credentials never stale; no silent stall; late clicks harmless |
| Gateway inbound (same file, `gateway/runtime-identity.mjs`) | seen cache, album buffers with timers, LID mappings, policy | upsert, debounce timer, admission, download, broadcast | handlers interleave at awaits; the socket is replaced under them; one sender has two addresses | at most one broadcast, only for the current socket; albums are bursts; nothing is lost |
| Account runtime (`whatsapp_adapter.py`, `whatsapp_client.py`, `whatsapp_multi_instance.py`, `gateway_security.py`) | run task, health task, lifecycle lock, child process, client URL and token, port leases | run, monitor, reload, terminate, hot reload | four tasks restart one child; ports are shared between accounts and with other programs | one child; exclusive leases; stable endpoint; recovery; no cross-talk |
| Update transaction (`main.py`, `plugin_updater.py`, `update_lifecycle.py`) | directories, lock file, state file, loaded instance, running accounts | check, install, commit, rollback, restore, recover | threads cannot be cancelled; the process may die between two renames; the code replaces itself | no version lost; lock covers every step; reported outcome is the real one |
| Adapter inbound (`whatsapp_adapter.py`: `convert_message`, `handle_msg`) | the message that is handled, the identity cache | convert, admit, wake, acknowledge, record a reaction | a sender has several identities and some are learnt by questions that may not be answered; mentions that show one word | admitted exactly if listed; woken exactly by a call; the chain holds the message |
| Public identities (`whatsapp_identity.py`) | links, projections with their orders, the file they are saved to | project, remember, load, merge, save | links learnt late; refused writes; two adapters with caches of their own | the first public ID stays; one person, one ID |
| Outgoing chain (`whatsapp_event.py`: `send`; `_whatsapp_helpers_impl.py`) | pending text, mentions, caption, quote | accumulate, flush, attach, send | captions, nesting, missing files, refused calls | sent in order, once; one quote; mentions reach |
| Rendering and chunking (`_whatsapp_helpers_impl.py`, `whatsapp_chunking.py`) | none | render Markdown, cut at the limit | spans, code, URLs and mentions at a cut | every chunk stands alone and fits |
| Streaming replies, presence leases (`whatsapp_event.py`, `whatsapp_streaming_concurrency.py`) | per-reply text, sent chunks, failure flags; leases per chat | append, edit, fall back, finish | an edit fails half-way; replies of one chat overlap | the text is visible once and whole; nobody pauses under another |
| Reaction journal (`whatsapp_reaction_journal.py`) | bounded expiring log | record, query | expiry, removal and capacity | answers what was observed |
| Runtime identities, message cache (`gateway/runtime-identity.mjs`, `gateway/message-cache.mjs`) | maps and mapping file | remember, alias, evict, persist | remapping, eviction, file order | lookups under every alias agree |
| Media, security, proxy, dependencies, stability (`gateway/security-runtime.mjs`, `gateway/proxy-compat.mjs`, `gateway_dependencies.py`, `gateway_stability.py`) | files | download, install, prune | I/O | outside the models |
| Pages, commands, tools, migration, scripts | none or browser state | request and answer | formatting | outside the models |

`PROJECT.json` lists these parts one by one with the reason for each that is not modelled, and the
hazards at the lines where they bite.

## 2. Modules and plan

| Module | Contents |
|---|---|
| `GatewaySession` / `GatewaySessionMC` | socket transitions and credentials of one Gateway |
| `GatewaySessionProofs` | its type invariant, transport safety, credential safety, no silent stall, no linked session given up |
| `GatewayInbound` / `GatewayInboundMC` | from `messages.upsert` to the broadcast |
| `GatewayInboundProofs` | its type invariant, no broadcast for a replaced socket, albums are bursts, nothing is broadcast twice |
| `AccountRuntime` / `AccountRuntimeMC` | adapters, children and leases of several accounts |
| `AccountRuntimeProofs` | exclusive leases, one child, nothing left behind |
| `UpdateTransaction` / `UpdateTransactionMC` | the updater |
| `UpdateTransactionProofs` | all safety properties of the updater, from one invariant |
| `PublicIds` | the identity cache and its file as operators, with no state of its own |
| `IdentityProjection` / `IdentityProjectionMC` | adapters that load, use and save such caches |
| `IdentityProjectionProofs` | one public ID per person, no committed projection moved back, the first ID stays |
| `ReactionJournal` | the journal as operators, and the promise it is checked against |
| `AdapterInbound` / `AdapterInboundMC` | one event of the Gateway in the adapter; composes `PublicIds` and `ReactionJournal` |
| `AdapterInboundProofs` | who is let in is who the list names; the journal answers what stands; who calls the bot wakes it; the chain holds the whole message |
| `TextFormat` | rendering and cutting of text, as operators |
| `OutgoingChain` / `OutgoingChainMC` | one call of `send`; uses `TextFormat` |
| `OutgoingChainProofs` | the renderer and the chunker keep every letter, a chain is sent in order, one quote |
| `StreamingReply` / `StreamingReplyMC` | one call of `send_streaming`, beside another reply of the chat; uses `TextFormat` |
| `StreamingReplyProofs` | its type invariant, that it implements `VisibleReply` and loses nothing, that it shows its text once and in order, and that nobody pauses under another reply |
| `VisibleReply` | what a streamed reply promises; `StreamingReply` implements it |

The order of work followed the cost of a failure: a session that is lost or corrupted cannot be recovered
without the operator's phone, an update can destroy the installation, a crossed account sends to the
wrong people, a message that is lost or let in wrongly is a lost message or a stranger's, an identity that
changes separates a person from their history. What is left of the plan: the message cache and the mapping
file of the Gateway, blocks and links in `TextFormat`, and the event stream between Gateway and adapter.

## 3. How the models follow the code

Node and asyncio both run one callback at a time. In every module *one action is the code between two
awaits*, with its guards from the conditions and early returns of that code. Where a task is suspended
is a program counter named after the await. A wall-clock deadline is an action that may win or lose its
race. Payloads are model values or counters.

### GatewaySession

The variables carry the names of the module-level state of `whatsapp-gateway-impl.mjs`
(`gen` = `socketGeneration`, `timer` = `reconnectTimer`, `queue` = the promise chain
`socketTransition`, and so on). A transition runs from `Run*` through `barrier`, `retry`, `load` or
`activate`; `BeginReset` is `invalidateCurrentSocket`, `Load` the hand-over in `startSocket`. Credentials
are a version and a linked flag: `saver` is what the socket has in memory, `disk` what `creds.json`
holds, `high` the newest version the Gateway accepted for its session. `Respawn` is a process crash followed by a
start; it may happen at any point, and everything in memory is lost. What the dead process accepted stays owed
(`high`) if every save it began had ended and the last one well (`Saved`); otherwise the update died with the process,
since the code writes nothing ahead, and only what `disk` has is owed. `raced` tells how an update that is accepted during a
barrier fares: it is `"late"` until the auth directory is read, then `"no"` again if its save was done by that time, and
`"yes"`, the one case `NewestCredentials` excepts, if that save was still running or had failed (`ReadAuth`).

Abstractions. Saves of the local queue of each socket run in order; those of a retry are put on the same
queue, which permits every order the code has. A failing `initializeAuthSession` is not modelled: the
process exits and is started again. A graceful shutdown is followed by `Respawn`.

### GatewayInbound

Each listener call and each timer callback is a task in one of `MaxTasks` slots; a task is at `route`,
`schedule`, `handle` or `send` while its code runs (then no other task moves) and at `refresh`, `lookup`,
`media` or `group` while it waits. `then` is the continuation of `flushAlbumBuffer`: go on, handle the
text that triggered the flush, or put the picture that triggered it in a new buffer (`Ends`). A sender
has a phone number and a LID; a copy of a message comes under one of the two, and its key may name both
(`alt`). The seen cache stores the canonical address known at that time, as `rememberRuntimeScope` does.

The histories `routed` and `due` say how many broadcasts of one message nobody can avoid: a copy under
an address that no mapping connects with an earlier copy since the last reset is a new message to the
Gateway. `overwritten` names the pictures lost when `scheduleAlbumItem` replaces a buffer made while
it waited (line 1613); `EveryMessageSettles` excepts exactly these, and the loss is listed as a hazard.

Abstractions. One adapter always listens, no cache is bounded, the handlers throw nothing, and the
policy is one allowlist; own messages, reactions and edits are left out. A phone-number copy whose key
also names the LID teaches the same mapping as a LID copy that names the number, and is not enumerated.

A message without a timestamp has `at = 0`. As in the code, a gap is only seen between two timestamps: a buffer keeps the
last one it was given (`last`), a picture without one joins whatever album of its sender and chat is pending, and the next picture
that has one is compared with the last one before it that has. `AlbumIsBurst` says so of every pair of pictures in an album.

### AccountRuntime

`acc` maps every account to a record of its adapter: leased port, client URL, token binding, child
processes, the task states (`run`, `old` for a loop superseded by a hot reload, `mon`, `reload`, `term`),
and the FIFO of the asyncio lifecycle lock (`lock`). Operators over that record (`Shutting`, `Failed`,
`BindRace`, ...) are the synchronous pieces of the handlers; actions join them at awaits.

Abstractions and assumptions. Accounts are in bundled mode; `external` endpoints are not modelled.
A task whose stop completed goes on before a request, timer or process start *of the same account*
completes (`Calm`): these are promptly scheduled callbacks against network and process delays. The
monitor's cancellation is atomic. A foreign program answers with an error that is not 401 unless a fault
says so. `TakeOver = FALSE` restricts hot reloads to adapters whose loop a hot reload started; the configuration
`AccountRuntimeTakeOver.cfg` lifts it. An account has at most one superseded loop. Ports do not run out. The
owner registry (`whatsapp_adapter.py` 2704-2743) never matches another object, since its key holds the
leased port, and is left out. That `terminate` gives up on the loop after five seconds and cancels its
cleanup is a fault.

### UpdateTransaction

A version stands for a plugin directory and 0 for none, so a rename moves a number between `cur`,
`staged`, `backup` and `failed`. `pc` is the await of `_perform_update` or `_commit_update`; `worker` is
the filesystem thread, which goes on whatever happens to the task that waits for it; `cancel` is the
cancellation that `await_update_operation` defers. `live` is the loaded plugin instance: a reload makes a
new one while the old instance still runs the transaction. A crash (`Respawn`) keeps directories, lock file
and state file and loses the rest.

Abstractions. The asyncio lock of the plugin is covered by the guard `Active`. Cancellation while the
task is only queued is not modelled. Manual hot reloads happen outside the cutover. A page request may
start a page Gateway even where an adapter's Gateway already serves the URL. The health check of an
account may fail at any time (a fault). Clean-up of the work directory is one step. That an account is enabled is read in the step that resumes it
(`ResumeAccount`); the code reads it just before it awaits the reload.

### PublicIds, IdentityProjection

Identities are numbers, those of phone numbers below those of LIDs, as the strings of their public IDs
sort. A cache is a record of the links it knows (`known`), what each identity is projected to (`proj`, with
the order that decides which of two is earlier), the next order and the dirty flag. `Bind`, `SetProjection`,
`Project`, `Load`, `Merged` and `Save` are the methods of `IdentityMappingCache` and the functions that load,
merge and write the file. `IdentityProjection` gives each adapter a cache: `Start` loads it, `Message`,
`ListMember` and the answers to `Ask` project persons and save. A write may be refused, which leaves the
cache dirty. The ghost `place` numbers the public IDs in the order in which they were first given out *and*
saved; what a restart forgets was never durable (`Forget`).

Abstractions. A link is true and does not change (a person keeps the number); hosted domains and device
suffixes count as the plain identity; legacy files are read for their links only.
The file can always be read: a save that takes it for empty because the read failed (`whatsapp_identity.py` 646-651) is not
modelled.

### AdapterInbound, ReactionJournal

A message is a record of the sides of its sender and chat (LID and number, 0 where the event does not tell),
words, mentions, quote, media and the form of its call. `Take` is `convert_message` up to its first await;
`AskSender`, `AskChat` and `AskAdmit` are the answers, or time-outs, of the three questions for a number, and
`Acknowledge` is the reaction; between them other tasks may list a group (`GroupListed`), reload the
configuration, break the stream or cancel the task. A word may show a mention: the digits of an identity, the text of its
public ID, or a name that several persons share. `Reload` leaves the cache as it is, because what it would
read again is what the cache has saved. `ReactionJournal` keeps a set of
entries `[chat, message, sender, emoji, at, turn]`, where the turn stands for the place in the dictionary;
`Answers` compares it with the log of all reactions ever observed.

What the events of the stream are like is said by two assumptions that TLC evaluates. `AccountAssumption`: the Gateway
sends an own message with both sides of the account (`senderIdentityFromKey`, `identity-compat.mjs:66`), any other private
chat is with the one who writes, and the account has the LID that the Gateway tells and no other. Before the Gateway knows
the LID of its account, a mention of that LID is not recognised; this state is outside the model. `TextsAssumption`:
no display name and no text `lid-N` is the number of a person.

Abstractions. Messages are handled one after the other, as `run` does. Not modelled: the summary text shown to the
model (`message_str`, QQ-style summaries), the OneBot projection, legacy command stripping beyond the fact
that such a command is a call, sender tags and album captions, hosted domains, a second auth session.

### TextFormat, OutgoingChain

A character is `[c, n, s]`: a kind (letter, upper-case letter of a URL, space, star, underscore, tilde,
backtick, full stop, the two parts of a mention), its place in the input, and whether it is an opening or closing mark of the
output. `Render` is the inline renderer for one paragraph: delimiter runs and their flanking, code spans,
bare URLs, unmatched tails while streaming, and boundaries at which WhatsApp would not see a mark. `SplitRendered` is
`split_whatsapp_text`: atoms, paired delimiters, closing and reopening at a cut, and
`FitToLimit`, which gives up a pair that a chunk cannot hold. A mention is an atom only if its address is known: the chunker gets
the names of those (`atomic_texts`, here `names`), and the visible name of a stranger is text that may be cut. A loop of the code is `Rounds` of its body (`PieceAt`,
`AdvanceAt`, `SpanAt`, `UnitAt`, `CodeAt`, `StyleAt`, `ChunkAt`); one that advances by more than a character passes over those it has read
(`next`). `OutgoingChain` walks a chain as `process_message_chain` does;
every transport call may fail and ends the call.

Abstractions. Blocks and line breaks, links, escapes, brackets, the lower clamp of the limit (16) and fenced
blocks are left out. A mention whose visible text stands beside a letter or inside italics loses its
address, as in the code; `MentionsReach` exempts exactly these (`Blurred`). It speaks of mentions whose address is known;
the run also cuts the names of strangers. No two users of a chain show the same name.

### StreamingReply, VisibleReply

The variables are those of `_StreamingTextState` (`seg`), of the chat (`screen`), and the place of the
coroutine; each action ends at an await. `Published` decides, as `publish` does, between an edit, a return and
one of the fallbacks, from the text rendered as a whole. A call that is refused, an id that is missing and a generator that raises
are faults. Every mention of a stream is of a user whose address is known. The other reply of the chat takes, uses and releases its lease in three actions. `VisibleReply` is the promise in
terms of places of text: what was said, what is seen, whether the framework recorded it; `KeepsPromise` is the
refinement.

`Halfway = FALSE` is the bound under which the promise holds: with the realtime fallback a publish
is refused only at its first call, and an id is missing only on the last chunk. Without it text is
lost, which is what `streaming_lost` shows.

## 4. Runs

| Run | Shows | Bounds |
|---|---|---|
| `session_core` | transports never overlap, a socket works with the newest credentials, across crashes too once they were saved, no silent stall, linked sessions kept, recovery | 5 environment events: request, socket event, fault, shutdown or crash |
| `update_transaction` | no version lost, lock, no resurrection, honest outcome, termination | 2 accounts, 2 versions, 4 events, 3 faults |
| `account_runtime` | one child, nothing left behind, operations return, recovery | 1 secondary (a primary's wait for its port is not exercised here), 4 ports, 2 events, 1 fault |
| `account_leases` | exclusive leases | primary and secondary, 4 ports, 2 events, 1 fault |
| `account_reload` (violated) | a reload ends the run loop | 1 event |
| `gateway_inbound` | no duplicate, nothing for a replaced socket, albums are bursts, every message settles | 2 or 3 messages (a direct picture and a text, direct pictures of which one has no timestamp, or a group burst), 2 concurrent handlers, batches of 2, 1 repetition, 1 outside event |
| `identity` | the first public ID stays, one person has one, no save moves a projection back | a person with two LIDs, two adapters, 3 starts, 1 refused write; either they overlap or a write is refused (`OverlapBound`) |
| `identity_overlap` (violated) | a stale cache replaces a committed projection | same, 2 starts |
| `adapter_inbound` | who is let in, what wakes the bot, what the chain holds, what the journal answers | three families of streams (`AdapterInboundMC`); 1 break, 1 reload, a time to live of 1, 2 entries, time up to 2 |
| `outgoing_chain` | in order and once, one quote, mentions reach, chunks stand alone and fit | every text of 5 characters, nested spans, every chain of 2 or 3 parts; limit 5 |
| `streaming_reply` | the promise of `VisibleReply`, exactness without faults, nobody pauses under another | streams of up to 3 pieces and some longer, limit 5, 2 faults |
| `streaming_lost` (violated) | a publish that breaks off half-way loses text | same, 1 fault |

Why these bounds are enough to be worth checking. In the session model a behaviour that violates a
mutant needs at most four environment events (for instance: update, close, update during the barrier,
timer); five leaves one to spare, and a crash may come at any of them. Two accounts and three faults let
an update fail in its cutover, in its rollback and once more in its restore, with one account disabled
meanwhile. One account runs all five tasks of the runtime against each other, and two share the
registry; its safety properties were also checked once with five events and two faults (2.6 million states). Two handlers and two addresses are the smallest instance in which an album is flushed by
one task, extended by another and repeated under the other address. Every property is also checked against a mutant of the code
(`PROJECT.json`, "mutants"), which it must refute.

Two LIDs of one number are the smallest case in which a third identity joins two that were projected
apart; three starts let a cache be lost after a refused write and a third one see the file. In
`AdapterInboundMC` the family *Admission* sends two messages of one person under every form of their
identity against every list that may name them, so that the first may teach what the second needs; *Talk* sends
every text of up to two words with every pair of mentions; *Arbitration* puts four reactions around an
acknowledgement. `Timely` lets the clock move only once something was observed: before that, time
changes nothing. A limit of five characters is below the marks of two nested spans around one letter, so every
way of giving up a pair occurs; words of the texts straddle it at every offset.

`CHECK_DEADLOCK FALSE` is set everywhere because each bound on events lets a system become quiet: a
Gateway that is closed, a finished update, an account that is stopped, a mailbox that is empty, a reply that is over.

### Fairness

* Session: weak fairness of the running transition, the reconnect timer, deferred starts and the
  completion of saves. The event loop runs what is ready, each `startSocket` barrier has a deadline, and
  the file system answers. WhatsApp and the operator owe nothing.
* Update: weak fairness of the task and of its worker thread. Every await of the task has a timeout or is
  a local file operation.
* Runtime: weak fairness, per account, of each task without new faults, and of a started child binding
  its port. Requests have timeouts, `stop` kills after a grace period.
* Inbound: weak fairness of "some task or timer moves". Downloads, lookups and metadata have
  deadlines; no fairness is assumed of WhatsApp.
* The other models have no liveness property: a reply and a conversion are single coroutines whose every call has a
  deadline, so their termination would only repeat their shape.

## 5. Proofs

`GatewaySessionProofs` proves for every `MaxEvents`, that is, for behaviours of any length:

* `TypeCorrect`: `Spec => []TypeOK`. Inductive as it stands; one lemma per group of actions.
* `TransportSafety`: `Spec => []OneTransport`. `OneTransport` alone is not inductive: `Load` opens a
  transport without closing one. `TransportInv` adds `LoadAfterHandOver`: a transition suspended at
  `load` has already handed the old socket over, and the generation is not 0.
* `CredentialsNeverStale`: `Spec => []NewestCredentials`. The strengthening `CredsInv` joins memory and
  storage: a socket or what is left to be written holds the newest accepted version (`InMemory`); while `creds.json` is behind,
  the last save outstanding will write the newest, or a save has failed (`OnItsWay`), whence a process that dies with
  all saves done leaves the newest behind (`SavedIsOnDisk`); saves run in the order of their sessions, so that none
  overwrites a newer session's (`SessionsGrow`). While no update slipped into a barrier, the barrier waits for every
  outstanding save, and a start that gets past it finds none and no failure (`Durable`); after one did, `ReadAuth` decides by
  the saves that are left when the directory is read.
* `NeverForgotten`: `Spec => []NoSilentStall`. That something is queued or armed is not enough, for a repeated
  click or a late reset may do nothing. `Progress` counts only transitions that start a socket whenever
  they run (`Brings`); `NothingStale` says that the timer and the socket are of this generation.

`LinkedNeverLost` (`Spec => LinkedSocketKept`) rests on these. A reset is decided on what was read
earlier; `KeptInv` says that none of it goes stale: `session_invalid` is shown only while the session is the
refused one, a reset that a refusal queued finds that session or a newer one, and the linked flag in memory is
not behind storage or what is left to be written.

TLC checks the properties on the instance of
`session_core`; the proofs remove the bound. They assume only `GatewayAssumption` (`MaxEvents \in Nat`).

`GatewayInboundProofs` proves for any set of senders and messages, any debounce time above zero and any number of
concurrent handlers, under `InboundAssumption`:

* `TypeCorrect`: `Spec => []TypeOK`, which includes that one task runs at a time and that a buffer key
  has one buffer.
* `NoStaleBroadcast`: `Spec => []OnlyCurrent`. A task that runs is alone, and a socket is replaced only
  when none runs; so a task at `send` still has the generation it was checked against.
* `AlbumsAreBursts`: `Spec => []AlbumIsBurst`. Inductive only with what the buffers and the waiting tasks
  hold: `BufferOK` (the pictures of a buffer are a burst, all from the sender and chat of its key, and the time it
  keeps is that of the last picture that has one, `LastTimed`) and `TaskOK` (the items a task carries are a burst, wherever
  it waits). Without `LastTimed` a picture without a timestamp could hide a gap between its neighbours.

The three are parts of one inductive invariant, `InboundInv`; each action has a lemma, and the
actions that call `Ends` (what follows `handleIncomingMessage`) share one, `EndsOK`.

* `NothingTwice`: `Spec => []NoDuplicate`, by counting. A copy of a message that passed the duplicate filter is in
  exactly one place: an item of a task, the head of a batch that waits for its flush or its timer, or a
  buffer. What was sent of a message and the places that still hold it are never more than the copies that
  were due, and a message counts as routed only once the filter has it (`Remembered`).

`UpdateTransactionProofs` proves every safety property of the updater, for any accounts and versions and
any number of events and faults, under `UpdateAssumption`. The properties are not inductive one by
one; `UpdateInv` joins what carries them:

* `LockInv`: at which stage of the transaction each await is reached (`StagesOK`), which thread works for
  which await (`WorkersOK`), and that the lock names this transaction and this process.
* `PlaceInv`: where the good version is while the task waits at each await and while the thread is between
  two renames: in the plugin directory (`InCurrent`), in the backup (`InBackup`), staged after an exchange,
  or set aside by an earlier transaction (`kept`). `GoodVersionKept` alone says only that it is somewhere,
  and the next rename could overwrite that place.
* `LoadedOK`: behind the gate the loaded version is the one on disk and every enabled account that was
  visited runs it. Without it a report could claim what is not loaded.
* `ResumeInv`: an instance that could not be loaded starts nothing, and an account the recovery loop passed
  runs, is disabled or has an error. Without it a recovery could report success for an account it skipped.

From it follow `TypeCorrect`, `LockAlwaysHeld`, `DisabledStaysOff`, `GoodVersionNeverLost` and the two action properties
`ClaimsAreReal` (`OutcomeIsReal`) and `RecoveryClaimsAreHonest` (`RecoveryIsHonest`).

`IdentityProjectionProofs` proves for any identities, links and adapters and any loss of caches: `OneIdAtATime`
(`[]OnePersonOneId`), `NothingMovedBack` (`CommittedFirst`, no save takes back what was committed) and
`IdOfLinked` (two linked identities that were projected show one public ID, in any cache that satisfies
the invariant). The invariant `IdentityInv` asks of each cache (`CacheOK`) that a number is always projected to the earliest
projection of the identities linked to it; `Project`, `Load`, `Merged` and `Save` have a lemma
each.

`FirstStays` (`[]FirstIdStays`) is about what all caches and the file say of each other. While adapters never
overlapped, `FirstInv` holds: one adapter is up at most, and a stopped one has saved what it held or lost it; the IDs
given out have distinct places, and those not saved yet come last (`Places`); everyone given an ID holds it
or an earlier one; the orders in the cache and in the file agree with the places (`InOrder`); and the cache
holds what the file holds, and nothing later (`CacheFirst`, `FileFirst`). Three facts carry it: `BindAll`
draws each projection from what its person held (`DrawnKeeps`), a save numbers what is new to the file in
the order of the cache and after all that the file has (`MergedInOrder`, `MergedNew`), and a new ID comes after all
others (`NewFirst`). `identity_overlap` shows that the hypothesis is needed.

`AdapterInboundProofs` proves the four properties of `AdapterInbound`, under `StreamAssumption` (an event names at least one
side of its sender, and two sides of one person if two), `JournalAssumption` and, for the last two, `AccountAssumption`
and `TextsAssumption`:

* `AdmissionRight`: `Spec => []AdmittedIffListed`. The comparison by strings and links of the code is first
  characterised for one item and one identity (`ReachesKey`), then for the list (`ListedIsMeant`). `AdmitInv` then says what is
  known at each question: the message that waits for the last one is not let in by what was known, and the one
  that waits for its acknowledgement is. That the cache only ever links LIDs goes through all that a
  message shows; `Seen` is a recursive function, and the proof takes the least place at which it would go wrong.
* `JournalRight`: `Spec => []JournalAnswers`. `JournalInv` says that the last observation of a slot that stands is in
  the journal, unless `Capacity` other slots were observed after it. What falls off the front was overtaken by
  that many entries, and these are distinct slots of later observations (`FallenOff`).
* `WokenRight`: `Spec => []WokenByCall`. The code looks for the account by its public ID in the text and by string
  comparison in the mentions; both are right only because a cache that has seen a message projects every identity to
  an ID of its person, and the account to its number (`IdsInv`), with its two sides linked (`AccountLinked`). The
  account's LID alone must therefore never be projected first: `NumberTold` carries that from the event to the place
  where the message is looked at, across the questions (`AddressedIds`, `SeenIds`).
* `ChainWhole`: `Spec => []ChainKeepsMessage`, for texts and mentions of any length. What is used up after n words
  is what one of them took (`UsedByWords`), so each mention is in a word's place or is left over; a word took a mention it
  names (`TokenShows`, `TokenNames`) and a free one if there was one (`TakenIs`). `LookInv` carries both from the look at a
  message to its commit, over the awaits of `AskAdmit` and `Acknowledge`.

`ChainKeepsMessage` had to be restated for the proof: that a name shown twice is two persons while another of that name is
left over is false when one person is mentioned twice, under both identities. TLC confirms it on the stream *Talk*, which now
holds such messages; the clause is about persons that are mentioned once (`Once`). The property also says now that what
replaces a word is a person it names, and where the other parts are.

`StreamingReplyProofs` proves for any jobs, any limit and any number of faults:

* `LastOnePauses` (`PauseWaits`): the leases are counted (`LeasesCount`), and a publish never gives one back.
* `ReplyTyped`: `Spec => []TypeOK`, half-way failures included. `SaidInv` adds what the text and the publish
  are: the text is an end of what was spoken (`TextOk`), the plan of an edit covers exactly the text,
  what is queued is a part of it (`TaskInv`), and every message shows only what was said (`SentInv`).
* `PromiseKept`: `Spec => KeepsPromise`, the refinement of `VisibleReply`, under `~Halfway`. Every pull is `Say` or
  nothing, every message and every edit `Show`, an exception `Abort`, the return of the last publish `Finish`. Only the last
  needs more than `SaidInv`: `ShownInv` says where the text is that is not seen yet. While a text can be edited its
  messages mirror its chunks (`Mirrors`); what was said is in messages that no text owns any more, in
  the text, or in the part that comes next; what a text counts as visible is seen or queued. A publish
  decides between eight ways to go on; what each takes from where it begins (`Visibly`) to where it leaves off
  (`Revealing`) is one lemma each, and the actions only cite `PublishDecided`.
* `AllArrives`: `Spec => []NothingLost`, under `~Halfway`. `streaming_lost` shows that the condition is needed.
* `ExactlyOnce`: `Spec => []ExactWhenCalm`, half-way failures included. `ExactWhenCalm` speaks of the end only; the
  invariant `CalmInv` says of every state that what was said is what the messages before the current text show, then the
  text, then a component that was taken and waits for the text (`Told`); that the text is in the last messages of
  the chat, one for each chunk, and their ids are consecutive (`Recent`), so that no edit touches an older message; that an
  edit works towards all of the text, and that a forced publish that returns has shown it (`UpToDate`). Two facts
  carry the steps: chunks with the same glyphs show the same places (`SameLooks`), so a chunk that is skipped as
  unchanged is right, and a publish that neither edits nor gives up has nothing left to show (`CalmPublish`).

`ReplyAssumption` says that rendering and cutting any part of what a job says shows its visible characters, each once
and in order, in both states of a stream. It is what `ChunksKeepLetters` of `OutgoingChainProofs` proves of every text, mode and
limit; it stands as an assumption here because the two modules have different state and cannot share a theorem.
TLC evaluates it for every job of `StreamingReplyMC`, and `ShortTextsAreShown` there for every text of up to four
characters. That what was spoken is a sequence of characters (`TypedShape`), and that every text a publish renders is such
a part (`SaidIsShowable`), is proved.

`OutgoingChainProofs` proves, for any chain of components and texts of any length, any limit and any failure:

* `ChunksKeepLetters`: the messages that `VisibleChunks` makes of a text show its letters (`Places`), each once and
  in order, in both modes of the renderer. Every loop of `TextFormat` is `Rounds`, a recursive function: a property that
  each round carries on holds after all of them (`RoundsKeep`, by the least round at which it would fail), and
  one function collects the rounds (`RoundsRun`). What the rounds carry on is, for the renderer, that the pieces
  read so far and what is left of a run show the letters up to the next character, and that the stack holds markers
  (`Read`, `Held`): a pair may be decided, an odd tilde cut off or a code span escaped without touching a letter.
  `PiecesKeep` is the scan, `RenderedKeeps` and `RemainingKeeps` the output: what is dropped, unsafe or replaced is a
  marker. For the chunker, the units are adjacent and cover the text (`UnitsAre`), a unit that is neither a span nor a
  letter shows nothing, the roles are on such units only (`CodePairsIn`, `StylePairsIn`, `RolesFit`), and the chunks so far
  with the current one show the units so far (`ChunksTo`): what is cut, closed, opened again or ignored is marks.
* `SentInOrder`: `Spec => []DeliveredInOrder`. The inductive invariant `Ordered` says that what was sent and what is owed, the
  messages that wait, the caption and the text not yet flushed, are together exactly what the components taken so
  far say (`Delivered \o Owed = Due(Taken)`), where the components of a nested chain count one by one (`InStep`), and what
  waits at each stage (`Staged`). `DeliveredInOrder` alone says nothing of what is owed, and a caption that kept
  only the last chunk would pass until it is sent. Each action has a lemma.
* `QuotedOnce`: `Spec => []QuoteOnFirst`. A quote is used up exactly when something was sent (`QuoteKept`).

They assume `ChainsAssumption`: a component is one that `process_message_chain` tells apart, and a nested chain holds no other
nested chain.

`AccountRuntimeProofs` proves, for any accounts, ports and processes and any number of events and faults:

* `LeasesExclusive`: `Spec => []LeaseExclusive`. Every handler leaves its adapter the lease it had, none, or a candidate
  of the registry (`Lawful`); there is one lemma per piece of a handler and one per handler.
* `OneChildEver` and `NothingLeftEver`, under `~TakeOver` (with it, `OneChild` is false). The invariant `ChildInv` asks of every
  adapter where each task may be (`Roles`), that whoever restarts the child holds the lifecycle lock (`LockOK`), that
  a running child is the current one, that nobody is then about to start another, and that whoever stops a process
  stops this one (`ChildOK`), that a loop on its way out has no monitor (`OrderOK`), and what is left of a stopped
  account (`OffOK`). `terminate` does not take the lock: the proof needs `Calm` exactly where a process is
  started while a termination waits. The pieces of the handlers move some tasks and keep the rest (`Moved`), and
  the handlers are composed from them as in the model.

Only model-checked: `TypeOK`, `OperationsReturn` and `Recovers` of the runtime, and everything about its hot reloads
with `TakeOver` (its `TypeOK` says besides that `MaxProcs` and `MaxPort` are large enough for `Fresh` and `Acquire` to
find something, a fact about a run's bounds rather than about the code); `Recovers` of the session; `Settles` of the updater; `EveryMessageSettles` of the inbound path; mentions, marks and limit of `OutgoingChain`. Liveness under fairness (`Settles`, `Recovers`, `OperationsReturn`, `EveryMessageSettles`) and `ENABLED` are
outside the prover. What a recursive *function* keeps can be proved by taking the least place where it would fail
(`SeenShape`, `TypedShape`, `RoundsKeep`). So is that no letter is lost; that the marks around each letter balance
(`ChunksStandAlone`), that a chunk fits (`LimitKept`) and that no mention is cut (`MentionsReach`) would need, besides, what the
chunker reads again to agree with what the renderer wrote, and stay with TLC, which evaluates them over every bounded input.

## 6. What the checks found

Three places where the code departs from what its comments, tests or documents say are kept as
runs that must be violated, each quoted in `PROJECT.json` "findings":

* `account_reload`: a configuration reload ends the run loop (`whatsapp_adapter.py:1259`).
* `streaming_lost`: a publish that breaks off half-way loses text (`whatsapp_event.py:612`).
* `identity_overlap`: an adapter with a stale cache replaces a projection that another one committed
  (`whatsapp_identity.py:810`).

Six more configurations are kept without a run. Each states one thing the repository says, and TLC refutes it:

| Configuration | Property | What happens |
|---|---|---|
| `GatewaySessionBarrier.cfg` | `BarrierComplete` | a credential update that arrives while a start waits at its barrier is not waited for (`gateway/whatsapp-gateway-impl.mjs:2197`, against the comment at 2194) |
| `GatewaySessionStopping.cfg` | `StoppingFailsHealth` | a socket event overwrites the status `stopping` during a shutdown (line 3244) |
| `UpdateTransactionRestore.cfg` | `StoppedBeforeRestore` | the page Gateway survives a restore (`main.py:1098`, against `docs/update-recovery.md:15`) |
| `AccountRuntimeCrossTalk.cfg` | `NoCrossTalk` | after a reload a client is bound to another account's port (`whatsapp_adapter.py:1285`, against `CHANGELOG.md:125`) |
| `AccountRuntimeTakeOver.cfg` | `OneChild` | a hot reload of a loop that the platform manager started leaves two loops (`main.py:1515`) |
| `GatewayInboundOvertake.cfg` | `AlbumNeverOvertakes` | a text overtakes the album it should follow (`gateway/whatsapp-gateway-impl.mjs:1580`, against the comment at 1656-1659) |

Other behaviour worth knowing, met while modelling:

* `LinkedSocketKept` has an exception: a manual reset that finds no socket because a start could not read
  storage replaces the session of a linked account (line 2165), though `docs/en/troubleshooting.md` says a stale
  page cannot.
* When an edit fails without the realtime fallback, the final fallback sends the whole text again,
  so the reader sees the first part twice (`docs/en/messaging.md:63` promises only what is missing).
* A link that another task learns while the question for admission is open does not help: the code looks again only when
  the question is answered, so a listed person whose question times out is turned away.
* If two replies of one chat each see two leases when they finish, neither sends `paused`; `PauseWaits` says only
  that nobody pauses too early. It speaks of the moment `paused` is requested: a reply that starts while the request
  is on its way is not covered.

## 7. Not modelled

* Network and file I/O: media downloads and streams, npm and artifact verification, proxies. Their outcomes are
  faults or times in the models; their bytes are not.
* HTTP request validation, and authentication beyond which Gateway accepts which token.
* The event stream between a Gateway and its adapter: a broadcast without a listener is lost (listed as a
  hazard); each side is modelled up to it.
* The message cache and the mapping file of the Gateway, and lookups of group names and member tags.
* Blocks, links, escapes and fenced code in `TextFormat`; the OneBot projection and summaries of inbound
  messages.
* Migration of old sessions and configuration, the browser pages, commands, tools, diagnostics, release scripts, and
  everything that only formats, parses or logs.
