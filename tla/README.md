# zucchini-spawner in TLA+

`zucchini-spawner` runs on a user's machine. It follows a PowerSync stream of
chats, projects, memberships and messages, starts a coding agent (claude,
codex, gemini, cursor, hermes, pi) for each user message, and writes what the
agent says back to the backend. This directory models it in TLA+: modules, TLC
configurations that check them on small instances, and TLAPS proofs for every
value of the constants. Paths below are relative to the repository.

## 1. Inventory

One process, tokio, one *main loop* (`main.rs`, a `select!` over channels and
timers) and many tasks around it. Only the main loop owns the supervisor's map
and the mirror; tasks talk to it over bounded channels, and share three small
tables with it under mutexes (mailboxes, published sessions, parked prunes).

| Component (source) | State | Operations | What is hard | What makes it correct |
|---|---|---|---|---|
| Supervisor and agent tasks (`agent.rs`) | map chat -> process, published sessions, mailboxes, one task per process with its session FSM and cancellation token | spawn, abort, remove, read a line, observe the token, report Done | responses name the chat and not the process; an abort gives up after 10 s; a task blocked on the response channel does not see its token | one tracked process per chat and nothing orphans one unnoticed; no deadlock between the main loop and a task |
| Main loop (`main.rs`) | park table of prunes, last written `agent_running` | response arms, user message, `/stop`, prune application | an await in the middle of a handler; a queued response about a process that is gone | `agent_running` is true while an agent works and false once it is gone |
| Writer (`writer.rs`) | channel of 1024, deque of encoded operations, `pending` counter | enqueue, batch of 32, POST, retry with backoff, `is_idle` | lost answers, requests applied after a timeout, a counter and a channel read apart | nothing lost, at least once, in order; `is_idle` can be trusted |
| Sync stream (`powersync.rs`) | cursor per bucket in memory | connect, data frame, checkpoint, reconnect, watchdogs | the memory cursor runs ahead of the persisted one | each row reaches the main loop at least once per boot |
| Mirror and staging (`state.rs`, `main.rs`) | chats (not persisted), projects, members, cursor | stage rows, apply at a checkpoint, save | a row update arrives as PUT, REMOVE, PUT; crash between apply and save; replayed messages | a chat is never evicted in the middle of a turn; a message is not answered twice, and an unanswered one is answered |
| Control socket (`control.rs`) | mailboxes, park table, sessions (shared) | attach-file, prune-context, status | checks made before an await and used after it | a call is judged by, and applied to, the live session |
| Prune (`prune.rs`, the pruners of `adapters/*`) | transcript files | match, park, rewrite on the cue | park and cue in either order, several copies of one output, batches | an output goes only on request, in all its copies, and between two processes |
| Key store, membership (`crypto.rs`, `x25519.rs`, `envelope.rs`, `main.rs`) | key files, cache with negative entries | seal, open, put, revoke, reconcile | cache and disk change apart, row applied unstaged | cache and disk agree; no revoked key survives |
| Adapters (`adapters/*`, `adapter.rs`) | per turn: unflushed text, awaited results, rendered items, last reading | a line becomes events; command of a turn; import | six dialects, lines too long to parse, parallel calls, a resumed session | what is shown, signalled and measured is what the agent did, once |
| History import (`main.rs`, `adapters/*`, `adapters/import_shared.rs`) | percentage, status, one task | start, progress, finish, abort, rows | one bar over several kinds, transcripts that repeat themselves, an abort | a finished import has every session as a faithful chat; the sheet closes |
| Hermes socket, trampoline, plugin (`hermes_support/*`, `hermes_plugin/*`) | one plugin slot, one trampoline per chat, bounded queues, turns in flight | connect, route a turn, envelopes, end, timeout | connections replace each other, full queues drop frames, each side dies alone | a turn's frames go to its trampoline; a turn ends |
| Updater, uninstall, process lifecycle (`updater.rs`, `uninstall.rs`, `main.rs`) | pending update, heartbeat, shutdown | check, drain, replace, cleanup | drain times out, producers go on, failure half way | nothing is lost by an update; one that fails can be tried again |
| Authentication (`auth.rs`) | token, revocation | refresh, revoked | a revoked machine must stop | - |
| Blobs, atomic write (`blobs.rs`, `atomic.rs`) | files | download unless the path exists, upload, replace | a crash leaves a truncated file that is trusted | - |
| Power, shell, scripts | - | wake notification; release, installation | platform calls | - |

`PROJECT.json` has every component with its status, and under `hazards` the
lines where these difficulties bite.

## 2. Modules

| Module | Models | Used by |
|---|---|---|
| `Supervisor` (`MCSupervisor`) | processes, main loop, response channel, prune calls and mailboxes of a chat | `Supervisor_proofs` |
| `OrderedDelivery` | abstract: what an accepted event may expect of the writer | `Writer` implements it |
| `Writer` | `writer.rs` and an unreliable backend | `Writer_proofs` |
| `SyncCheckpoint` | stream, staging, mirror, save, restart, for one bucket | `SyncCheckpoint_proofs` |
| `Transcript` | session transcripts and the five pruners, as operators | `PruneContext` |
| `PruneLog` | abstract: what prune-context promises of a session | `PruneContext` implements it |
| `PruneContext` (`MCPruneContext`) | agent, control task and main loop around one transcript | `PruneContext_proofs` |
| `KeyFiles` | membership rows, key files, key cache, state file, crash | `KeyFiles_proofs` |
| `Dialects` | `handle_line` and `prepare_command` of the six adapters, as operators | `AdapterStream` |
| `AdapterStream` (`MCAdapterStream`) | an agent's lines against what an adapter makes of them | `AdapterStream_proofs` |
| `Histories` | the five importers as functions from a history to frames | `HistoryImport` |
| `HistoryImport` | request, task, abort, channel, backend rows | `HistoryImport_proofs` |
| `Hermes` | trampolines, router, plugin links, plugin | `Hermes_proofs` |

Components that share data but not timing are modelled apart: the main loop
appears in `Supervisor` with its agents, in `SyncCheckpoint` with its rows, in
`KeyFiles` with its members, in `HistoryImport` with its import task. What one
module leaves to another is a choice there: `Supervisor` chooses whether the
gates of a message let it pass, `AdapterStream` checks what its `Frame`,
`Result` and task steps abstract from a line.

A theorem that could follow: `FinishedIsFaithful`, which says what the importers
compute of a history (section 10).

## 3. Supervisor

Source: `agent.rs`, the response arms, `handle_message_put` and
`apply_prune_group` of `main.rs`, `prune_context` of `control.rs`.

State. `proc[p]` is one agent process with the task that drives it: where the
task is (`live` in the read loop, `killing` after the token, `ending` after EOF,
`reaped` once Done is sent, `finished`), the session FSM (`turn`, `tasks`),
what it last emitted, what is left to send of the current line, its token.
`agents`, `pending`, `live_sessions`, `pending_prunes` are the four maps,
`responses` the channel, `agent_running` the column as last handed to the
writer, `main` whether the loop selects, waits inside `abort_agent`, or waits for
the attachments of a message with `was_running` as it was read before.
`resident` says which kind each chat has. `from` in a response and `spoiled` are
history: no guard reads them. `working` is the agent program itself, external.

Actions. Tasks: `Frame`, `Result`, `TaskStarted`, `TaskFinished`, `ReadOneShot`,
`Send`, `ObserveCancel`, `Exit`, `SendDone`, `Finish`. The control task:
`PruneContext`. The main loop: `HandleMessage`, `HandleStop`, one action for
each response kind; `EndAbort`, which is what follows `await_agent_exit`
(`AfterAbort`, and `RespawnPruned` for a prune); and `EndFetch`, what follows the
wait for `blobs.fetch_all`. A message is thus up to three steps: `HandleMessage`,
the end of the abort, the end of the fetch, which spawns over whatever the chat
has by then. A handler is one step up to its await and one step after it, because
tasks run only at awaits that really wait; sends to the writer are not such waits
here.

Simplifications. Gates of `handle_message_put` that return before the abort
change nothing and are left out; those after it are the choice in `EndFetch`.
The content of lines, among them the interrupted line a Done may add, is left
out. A prune call is one step, which may land until the caller's task ends,
because the check and the park are apart in the code. One chat is enough:
chats share the channel and the main loop only, and a second chat adds waiting
that `Capacity` and `main.at = "abort"` already cause.

Properties.
- `ExclusiveSession` (action property): only three steps make a process that may
  still work untracked: an abort that times out; the spawn for a message that
  found the chat's resident idle when it came, whatever the resident does by now;
  and a Done of another process.
- `OneShotColumn`: what `main.rs` relies on when it leaves the column alone on a
  respawn. `IdleWhenQuiet`: no perpetual spinner, with the exceptions it names.
- `LiveSessionsTracked`, `MailboxOwnerRuns`: the shared tables never speak of a
  dead session.
- `IdleEdgeMeansIdle`: a queued idle edge is of a process with nothing in flight.
- `EndingFinishes` (liveness): an aborted agent is gone in the end.

## 4. Writer

Source: `writer.rs`. `channel`, `hand` (an event between `recv` and the counter),
`pending`, `counter`, `phase` are the task; `late`, `applied`, `column` are the
backend, external: a request is one transaction, its answer may be lost, and a
request the client timed out on may arrive later, after newer ones. Events are
numbered; `column` stands for one column that each event writes. `dropped` are
the events `encode_event` turns down (no key, no UUID). Closing of the channel
is left out: its senders live as long as the process.

`OrderedDelivery` is what the rest of the program is promised: each event is
applied at least once, for the first time no earlier than its predecessors.
`Writer` implements it (`ImplementsOrderedDelivery`). `OnlyLateTurnsBack` says
when the backend's value may still get older, `NothingLost` where an event is,
`IdleOverlooksOne` how far `is_idle` can be trusted, `Delivered` that every
event arrives or is dropped.

## 5. SyncCheckpoint

Source: `powersync.rs`, `state.rs`, `atomic.rs`, and in `main.rs` the sync arms,
`apply_chat` and `handle_message_put` up to the point where it acts.

State. `log` is the bucket's operation log, external: the server appends whole
transactions to it and announces checkpoints at its end. A row is named by the
position of the operation that carried it, so `mirror.chats[c] = 0` is "not in
the map" and otherwise the position says which version of the row is there.
`target`, `due`, `conn` are the server's side of the stream; `cursor` is the map
the task sends with a request, `sent` and `frame` its place in the data frame it
hands to the channel row by row; `main` whether the loop selects, is at the
deferred messages of a window, or saves; `staging`, `mirror` and `disk` are
`SyncStaging`, `Mirror` and `state.json`. `startOvers` bounds how often the bucket
is streamed anew. History: `served` (this boot), `again` (whether the bucket was
started over in this boot), `answered` (ever), `skipped`, `lost`.

Actions. Backend: a new chat with its first message, a further message (every
update of the chat's row moves its slot, a REMOVE and then a PUT), deletion, move
of a project, a membership row, a line of an agent, a session id. Sync task:
`Connect`, `Disconnect`, `CheckpointDiff`, `DataFrame`, `SendRow`, `SendComplete`;
a send waits for a slot, and the cursor moves when the whole frame is through. A
checkpoint names the bucket: under the name the task knows its cursor is kept
(`Retained`), under a new one, as after a change of the sync rules, it is streamed
from its beginning (`StartedOver`), also within a boot. Main loop: `StageRow`,
`ApplyCheckpoint`, one of `LoseMessage`, `SkipMessage`, `ServeMessage` for each
deferred message, `FinishCheckpoint`, `Save`, `Harvest`. `Restart` is a crash or a
shutdown and the next start, at any point, possibly with a state file that cannot
be read.

Simplifications. One bucket (the code keeps a map of cursors); that it has the
same operations under its new name is an assumption about the server. A project
belongs to one chat. An agent's own messages are not in the log, because the stage
arm ignores them; their effect on `chats.last_seq` is. Key, envelope, membership
and attachment gates of `handle_message_put` are one choice in `ServeMessage`;
they return after the replay guard and change nothing of this state. A membership
row only decides whether the mirror is saved. MOVE and CLEAR operations, and
frames that do not parse, are left out.

Properties.
- `CursorCovers`: the saved cursor is past no message that was not looked at.
- `MirrorIsPrefix`, `SavedIsPrefix`: the mirror and the file are what a prefix of
  the bucket leaves, the one their cursor names, although windows are cut
  anywhere and membership rows save in the middle of one.
- `ServedInOrder`: between two boots the messages of a chat are acted on in order
  and none twice, though a connection opened again sends rows again; but once
  the bucket was started over, the message acted on last is acted on again if
  nothing newer is in its chat, because the replay guard (`main.rs:650`) asks for
  a smaller number than the chat's newest, and this one has it.
- `AnsweredNotRepeated` (action property): after a restart a message is acted on
  again only if it was still the newest of its chat at the checkpoint.
- `NoOrphanMessage`: a message that finds no chat or no project belongs to a
  deleted chat, also after a restart, which forgets all chats.
- `NeverEvicted`, `SessionKept` (action properties): the REMOVE of a moved row
  evicts no chat; a stale row erases no session id.
- `EveryMessageHandled` (liveness): every message is looked at in the end.

## 6. Prune

Source: `prune.rs`, the pruner of each adapter, `prune_context` of `control.rs`,
`apply_prune_group` and the arms that cue it in `main.rs`.

`Transcript` has the pure part, as operators over a transcript: a sequence of
lines, each a sequence of nodes (a call, a copy of its output, claude's
expansion of a skill), in the order of the file. For each of the five dialects
it says which calls a needle matches, which count as pruned already, and what
blanking does to a node; then `ChooseBatch` and `BlankPass` are the two passes of
the batch driver, `PruneCursor` is cursor's rewrite of its blob store, and
`LeakedGemini` gemini's own check. A needle is the set of arguments it hits; the
text of an output is "full", "tiny" (no longer than the placeholder) or "pruned".

`PruneContext` puts an agent around one transcript (its calls, answers, gemini's
snapshots, background tasks, exits), the control task (`PruneRpc`, one
`ScanItem` for each item, `Reply`) and the main loop (`HandleCue`, `HandleIdle`,
`HandleDone`; `Apply`, `Aborted`, `Rewrite`, `Respawn`; `Stop`, `Message`). The
table of parked requests is keyed by the chat, so what one process parked may be
applied to the next. `await_agent_exit` gives up after ten seconds, and a resident
that waits for room on the response channel does not see its token before; so
`Abort` may leave a `ghost`, as may a message that takes an idle resident's place,
and it goes on to call tools, to get answers and to send prune commands until
`GhostEnds`. (A one-shot's sends are cut by its token, `agent.rs:860-887`.) The
rewrite is two steps, the reading (`Aborted`, into `seen`) and the replacing
(`Rewrite`), between which a ghost may write. `made` counts calls for their bound,
because a call may be lost in between.

`PruneLog` is the promise: an output disappears only because a request asked for
it, each request costs one output at most, the latest that is left, and nothing
comes back. `PruneContext` implements it (`ImplementsPruneLog`), with the
transcript read as a sequence of calls. The one step besides is a rewrite beside
a ghost that wrote after the reading (`RewrittenAsRead`): what it wrote is lost,
and the promise (`Forgets`) is kept for what was read.

- `NoCopyLeaks`: once one copy of an output is gone, no copy can be read in full.
- `BatchIsSequential`: a batch does what its targets do one after the other. It
  needs every call to have an output worth pruning (`Settled`); section 11 has
  the case where it does not.
- `ReportIsTrue`: what a batch reports as blanked is gone from the file, except
  what gemini keeps because it is too small.
- `RewrittenOnlyAlone` (action property): the transcript of the tracked agent is
  only appended to while it runs, and no rewrite loses what was written after the
  reading, unless a ghost wrote it.

## 7. KeyFiles

Source: `crypto.rs` (`KeyStore`), `x25519.rs` (`persist_user_key`), and in
`main.rs` the `machine_users` and `machines` rows, `revoke_local_access` and
`reconcile_key_files`.

State. `log` is the bucket, external: a key for each membership, an update a
REMOVE and a PUT. `pos` is how far the main loop is; `known`, `members`,
`buckets` are the mirror, `disk` is state.json, `file` the key files, `legacy`
the single file of old installations, `cache` the cache with its misses,
`getter` a lookup that holds the mutex, `main` where the main loop is between two
awaits. `torn`, `kept`, `lost` are history: the reasons for which a member's
files may differ from the mirror.

Actions. `GetRead`, `GetCache`, `GetFails` are a lookup; `TakeMachine`,
`PutPlain`, `PutCleared`, `PutKey`, `PutRefused`, `TakeRemove` a row, by what
becomes of it; `Forget` waits for the mutex; `Checkpoint`, `Save`, `Sweep`;
`Crash` is a stop at any point and the next boot, from state.json or without it;
`Compacted` an operation the server never sends because a later one overrides it.

- `CacheMirrorsDisk`: a cached key is the one on disk, except between the removal
  of a file and its forget.
- `OpenedBlobHasFile`: a member whose blob counts as opened has the key file,
  unless a crash brought an older state.json back.
- `GoneMeansNoKey`: between two rows, once files were swept and the mirror's cursor is
  at the end of the bucket, who is no member of it has neither a key file nor a
  cached key, with the exceptions history names.

## 8. Adapters and import

Source: `adapter.rs`, the six `adapters/*.rs`, `adapters/import_shared.rs`, and
`start_history_import`, `run_history_import` in `main.rs`.

`Dialects` translates `handle_line` of the six adapters, with the bookkeeping
each keeps between lines: gemini's unflushed text, codex's rendered items,
cursor's model calls, claude's tasks and compactions, the cues for prune calls,
`LastTokensDedup`; and `prepare_command` as far as it says which session and
which directory a turn starts in. A line is a record of what the properties tell
apart: its type, its call, whether it is longer than MAX_STREAM_FRAME_BYTES,
whether a subagent wrote it, its usage, its content as blocks. claude and cursor
classify a line by looking for a type field anywhere in its raw text. Within a
string the quotes are escaped, but the arguments of a tool call are JSON of their
own, and `holds` has the types of the fields in them: `HasType` is what the
search finds.

`AdapterStream` runs an agent program against them. The program is external: it
writes lines in the order such a program does. `said` and `due` record what a
reader should see and which signals the supervisor should get, whatever the
adapter does, and `got` what the adapter made of it: what is shown, the signals,
the last reading and the id by which the chat can be resumed. `QuotingCalls` and
`QuotingAnswers` are calls whose arguments quote a type. `Gauge` is between what
the reading should be, in the agent's own terms. claude and pi tell their context
with each line, claude also what a compaction left of it. cursor and gemini tell
only the sum over the turn's model calls (`Bill`), which the adapter divides by
the calls it counted. cursor's quotient is the mean. gemini's divisor is the
number of tool calls and one more: the mean if there was one call at a time, less
if the model made several at once, which the code calls a slight under-count
(`gemini.rs:613`).

- `ChatIsFaithful`: all the agent says is shown, once, in order, however long the
  line, and nothing else; what is missing is text gemini's adapter still gathers.
  Not claimed of a call that quotes the type of a hidden line.
- `SignalsAreTrue`: the end of a turn and whose turn it was, tasks, compactions,
  and a cue for the agent's own prune call only. A call of claude that quotes the
  type of a result signals an end more.
- `GaugeIsTrue`: the last reading is the size of the agent's own context, or what
  a compaction left of it, not a subagent's nor a sum over the turn. cursor's is
  among those of the turn's model calls; gemini's is not above them, and not below
  if it made one tool call at a time. Not claimed after a line of claude or cursor
  that is too long to read the size from, or taken for another, nor while claude's
  context after a compaction is just what it was last before, which
  `LastTokensDedup` passes over.
- `SessionResumes`: the next turn resumes a session that exists and runs in a
  directory that does.

`Histories` has the five importers (hermes has none) as functions from a history
on disk to the frames they emit, and the histories themselves: sessions of
messages, calls, noise, repeated records, sessions that cannot be read, that
belong to no project or to a worktree, and sessions that go on in a second file.
A session that claude resumed has a file, and an id, of its own, in which the
entries of the first come again; the importer sorts the files of a project by
name (`claude.rs:852`), and the names are random, so either may come first. gemini
goes on in a file with the same session id (`gemini.rs:1183`), after a snapshot and
perhaps the records again, and both files end in one chat. `HistoryImport` composes
them with the rest of an import: the status column and its stream, the request
and the abort, the task that sends with back-pressure, the writer's channel, the
rows of the backend with their unique ids.

- `FinishedIsFaithful`: when the app says the import is finished, every session
  is a chat of its project and no other is; a chat shows what its files say, file
  after file and in order. Of two sessions of claude that hold the same entry the
  one whose file comes first has it, because a row's id is that of its entry: if
  that is the resumed one, it shows everything and the original is left an empty
  chat. Records that a second file of gemini repeats are shown twice.
- `NoHungSheet`: no import stops silently. It is an invariant about states in
  which nothing can move, and so needs no fairness.
- `EveryFrameIsARow` fails: section 11.

## 9. Hermes

Source: `hermes_support/socket_server.rs`, `trampoline.rs`,
`hermes_plugin/adapter.py`.

A turn is its trampoline process. `conn[t]` and `queue[t]` are its connection in
the router and what the router queued for it; `table` maps a chat to its newest
trampoline, `slot` is the one plugin connection. `links`, `down`, `wire` are the
plugin's connections, old ones included, with what is on its way in either
direction; `inFlight` is the plugin's table of turns. Trampolines end by a
result, a timeout or SIGTERM; the plugin loses its link or its gateway exits;
a full queue drops a frame.

- `RelayIsExact`: as long as no turn of the chat was cut short and no queue was
  full, a trampoline prints exactly what the router had of its own turn, over
  connections that come, go and replace each other.
- `EveryTurnEnds` (liveness): every trampoline ends, by its idle timeout if
  nothing else.
- `EndsWithItsOwn` fails: section 11.

## 10. Runs, bounds, fairness and proofs

| Run | Shows |
|---|---|
| `supervisor` | the invariants and `ExclusiveSession`, either kind |
| `supervisor_live` | `EndingFinishes` for residents |
| `writer` | safety, refinement and liveness of the writer |
| `sync` | safety and liveness of the stream, the mirror and the file |
| `prune` | the pruners of five dialects and the refinement of `PruneLog` |
| `keys` | cache, files and members, over failing files and a crash |
| `adapters` | two turns of each of the six dialects |
| `import` | two requests and an abort, over the histories of five kinds |
| `hermes` | two turns over two links |
| `import_rows`, `stored_key`, `hermes_own_turn` | three findings, section 11 |

Bounds, all of them named in the modules.

- `supervisor`: `Proc` = 2, an old and a new process of a chat; identities are
  reused (`Unused`) as soon as nothing refers to them, so behaviours are
  unbounded. One background task; `Capacity` = 2 (1 for liveness), so the channel
  fills and a response can be behind another.
- `writer`: channel and batch of 2, five events, two requests in flight after a
  timeout: a batch fills, a retry is topped up, a late batch overtakes a newer.
- `sync`: one chat, six operations, one restart, one start-over, a channel of one
  slot. A new chat with its first message is three operations, and a second
  message, an update of the row or the deletion has room behind it, so that a log
  may have an answered and an unanswered message; a slot of one makes the stream
  wait in the middle of every frame, and a longer channel only hides the same
  cuts. One start-over meets one restart in either order. Chats share nothing but
  the order of the log. The proofs cover any number of all of these.
- `prune`: two calls of earlier turns and two new ones, two needles (one hits
  every call with arguments, one those without), commands of two items, two
  processes, one queued response. Two calls that match give "the latest" a
  meaning, two items make a batch, two processes let one's request meet the
  other's transcript, and the first may outlive its abort beside the second. A
  call counts (`made`) though a rewrite may lose it.
- `keys`: an owner and one invitee, six operations, one crash, one failing file
  operation: two memberships from beginning to end, or one that is updated and
  cleared. Members share only the sweep and the legacy file; the proofs cover any
  number of them.
- `adapters`: two turns of a session line and four more for claude, six for
  cursor, five for the others (`MCLines`): a call, a call beside it, their results,
  an end; for cursor also the words of a third model call, the least that tells a
  mean from a sum divided by too little. Two sizes of a context, of which one is
  the other's double. The adapters forget at the end of a turn, or of a process,
  so the third turn is like the second.
- `import`: one kind with a history (all five in turn), a first session of two
  shapes and at most a second one, another kind absent or unreadable, two
  requests, a channel of two. A session that goes on in a second file has one
  shape of entries, and one entry is added.
- `hermes`: two chats, one of them unknown to the mirror, two turns, two links,
  one line before the result, a queue of one, one cron delivery.
  `hermes_own_turn` has no cron delivery, which its property does not speak of.

Where a history or a budget ends (every run but the supervisor's) the cfg says
`CHECK_DEADLOCK FALSE`.

Fairness. Tokio polls every ready task and `select!` chooses among ready arms at
random; channel senders queue in order. Hence strong fairness for reading the
response channel, for a task's sends and for the cancel arm; weak fairness for the
end of an abort, which a timer forces (`AGENT_EXIT_TIMEOUT`), and of a fetch,
which the client's timeout of 60 s does (`blobs.rs:162`). Agents and users are not
fair: an agent may say nothing for ever. Writer: weak fairness of the task and of
a request's end (it has a timeout), strong fairness of a 2xx answer: the backend
is not down for ever and rejects no batch for ever. The code keeps a batch that is
rejected (its comment says so), so without that assumption nothing behind it would
arrive. SyncCheckpoint: weak fairness of the main loop, of opening a lost
connection again (the backoff is bounded) and of handing on a row; strong fairness
of the next frame: not every connection is lost before it. Hermes: weak fairness
of a running trampoline, which reads its socket and its clock, and of the router's
tasks; none of the plugin or the gateway.

Proofs. Checked by TLAPS for every value of the constants, from the ASSUMEs
named in the modules (`None` is no process, capacities are positive).

- `Supervisor_proofs`: `TypeCorrect`, `OneShotShown`, `SessionsTracked`,
  `MailboxesOwned`, `SessionsExclusive`, `IdleEdgeTrue` and `QuietIsIdle`. The
  first five are by the inductive invariant `IInv`. Its parts beyond the
  properties: a finished task has nothing to send and any other has a chat
  (`OwnerInv`); the chat being aborted, or aborted for the message in hand, has no
  entry (`AbortInv`); a queued Done is of a process that is reaped (`DoneInv`),
  without which handling a Done could orphan its own process; while a message
  waits for its attachments a one-shot that was found finished stays so
  (`IdleInv`), so it is a resident if anything is orphaned then; a mailbox and a
  published session are under their owner's chat (`MailboxInv`, `SessionInv`); the
  column is set for the chat whose one-shot is being replaced (`ColumnInv`), which
  is `OneShotColumn` during an abort and the fetch after it. `IdleEdgeTrue` adds
  `EdgeInv`: an idle edge, be it queued or still to be sent, is of a process that
  has nothing in flight, which stays so because a message is written to such a
  process only by way of the main loop. `QuietIsIdle` adds `TrackInv` (a tracked
  process is of its chat and healthy, or its Done is queued) and `ShownInv` (a
  chat that is shown as running has a process, or an abort or a fetch under way
  that will say otherwise).
- `Writer_proofs`: all the safety of the writer, `Refinement` included, by
  `ChannelInv` (the channel is the tail of the accepted numbers), `HandInv` (the
  counter is the length of the deque), `CoverInv` (every event taken is in hand,
  pending, applied or dropped), `LateInv` (whatever a late request would apply,
  its predecessors are covered), `LastInv` (the last pending operation is the
  newest ever sent, from which `OnlyLateTurnsBack` follows).
- `SyncCheckpoint_proofs`: `TypeCorrect`, `MessagesCovered`, `MirrorConsistent`,
  `SavedConsistent` and `SessionsKept`, for any set of chats and any number of
  operations, disconnections, restarts and start-overs. The properties speak of
  the cursor that was applied or saved, but operations are in the frame, in the
  channel, in staging; so the invariant speaks of `Received`, the last operation
  the main loop has taken, and of m, the furthest it has taken since the boot;
  they differ only while a bucket that was started over is read again. The channel
  continues at `Received`, but where the stream begins again (`ChannelInv`); every
  message up to there is disposed of or queued (`CoverInv`); and for each row that
  no operation between the two touches (`Settled`) the mirror with the staged rows
  applied is what the bucket leaves up to m (`NetInv`). A checkpoint is never
  behind m, because the server announces the end of its log. While a window's
  messages are handled nothing else is staged and the snapshot is m (`WindowInv`),
  so `FinishCheckpoint` may advance the mirror's cursor to it (`PrefixInv`). The
  key lemma is `NewestNext`: one more operation decides the row it touches and no
  other. The second half of the module has `InOrder`, `NoneOrphaned`, `ChatsStay`
  and `NotRepeated`, which depend on where transactions end. Frames, lost
  connections and windows cut the log anywhere, but the server announces
  checkpoints at its end, so the invariant carries `Closed(k)`: in the first k
  operations every message is followed by its chat's row, at least as recent, a
  chat has its project, and a chat without a row is deleted for good. It is proved
  of every transaction and kept by every later one (`EndIsClosed`, `ClosedKept`),
  and holds of the targets of the stream, of the checkpoints in the channel and of
  the window in hand. The rest of `OInv` is the line of messages, acted on and
  then waiting, in the order of the log until a start-over (`LineInv`), after
  which the replay guard alone lets only the newest through again, and `SureInv`:
  although a restarted spawner knows no chats, it knows the newest row of a chat
  as soon as a row of it is staged or a message of it that a row has followed is
  waiting. From there `MessageFinds` says what each deferred message finds, and
  each of the theorems is a short step.
- `KeyFiles_proofs`: `TypeCorrect`, `CacheAgrees`, `OpenedIsStored` and
  `GoneHaveNoKey`, for any members and any number of operations, crashes and
  failing files. `GetterInv` says that the key a lookup has read is that of the
  file as though it were cached already, and that a miss it has read is not: a key
  may arrive in between. `RowInv` and `BlobInv` say that a key is its
  membership's, so a file that is not rewritten has the key of the blob.
  `GoneHaveNoKey` adds `GInv`. A crash replays the bucket over a mirror whose rows
  may be newer than its cursor, so "the rows are what a prefix leaves" is no
  invariant. What is one is `Claim` (in `RowsInv`): a recorded row is the member's
  at the cursor, or is still to come. At the end of the bucket nothing is to come,
  so only members have a row; and after a sweep whoever has no row has no file
  (`FileInv`). `GoodLog` is what the server keeps to: a row is one user's and is
  removed before the next is put.
- `Hermes_proofs`: `TypeCorrect`, `Exact` and `CleanTurnsEndWithTheirOwn`, for any
  number of chats, turns, links and cron deliveries and any capacity of the
  queues. A turn is clean when all earlier turns of its chat ended with a result.
  `WireInv` says that an envelope marked last is the last of its turn, on any
  wire, and that the turn is then no longer in flight; so once the router has had
  it nothing of the turn is left (`Absent`), whatever comes for a clean chat is of
  the turn that runs, and its connection has the chat's place in the table
  (`CleanInv`). `CleanTurnsEndWithTheirOwn` is an action property no run checks:
  it says that the disagreement of `hermes_own_turn` needs a turn that was cut
  short.
- `HistoryImport_proofs`: `SheetCloses`, for any histories, requests and aborts and
  any capacity of the channel. `ChainInv`: the values of the column on their way to
  the spawner are consecutive moves from the one it saw to the one there is.
  `HandleInv`: a request it has seen is the latest run, not aborted. `RunInv`: a
  run that is over went through all kinds, and `ok` is zero only if none could be
  read. `PromiseInv`: while the column shows an open import, the run behind it has
  its "finished" ahead or in the channel, after the "running" without which the
  column would not take it.
- `PruneContext_proofs`: `NoLeaks`, `ReportTrue` and `OnlyAlone`, for any needles,
  calls, commands and processes and all five dialects. The invariant is `LogInv`:
  the transcript's lines are such as the dialect writes them (`Line`: only gemini
  has a text beside a call, a line of pi has the outputs of one call), and no
  output of which a copy is gone has a full one (`Leakless`, which asks for less
  than `Pruned` does and so is stronger than `NoCopyLeaks`); and `AloneInv`, that
  no agent but a ghost runs between abort and restart, and without one the
  transcript is still what was read. What was read (`seen`) keeps what the
  transcript keeps. Growth keeps it because an answer comes once, to a call that
  has none, and gemini's snapshot only repeats nodes; a rewrite keeps it whatever
  set of ids was chosen (`AfterNode`, `RewriteLog`), so for these three the choice
  of the batch is never unfolded. `Implements` (the refinement of `PruneLog`) and
  `Sequential` (`BatchIsSequential`) are about that choice. Their invariant is
  `Counted`. A transcript is `Orderly`: its n calls are numbered in the order they
  were made (`Rising`: only gemini writes a call again), all copies of a call have
  its argument, and no output of gemini is tiny in one copy and full in another.
  And the calls made leave room for so many commands' items, so no batch has more
  than `MaxBatch` of them (`Fitting`): what is being scanned, what is parked and
  what is applied add up. In an orderly transcript the latest eligible place is
  that of the greatest eligible number (`LatestStands`), which gives the choice of
  one target (`ChoiceIs`) and of a batch (`ChooseRuns`), and the same run of
  choices is what `PruneLog` takes (`TakenRuns`). `RewriteCalls` says what becomes
  of each call, `PromiseCall`, `PromiseAnswer` and `PromisePrune` that the steps
  are those of `PruneLog`, `SnapshotInOrder` that a snapshot is a stutter. For
  `Sequential`: blanking some calls and then others is blanking all of them
  (`RewrittenTwice`, which for gemini needs outputs worth pruning: that is what
  `Settled` is for), and what earlier targets took is just what the next one no
  longer finds (`PreyLeft`).
- `AdapterStream_proofs`: `ShowsAll`, `SignalsAll`, `MeasuresOwn`, `Resumes` and
  `TypeCorrect`, for all six dialects and any number of turns and lines. The
  argument has three layers. `Received` folds a line's events into what became of
  them, and `Yields` says what that is: so much text, these signals, this reading,
  this id, whatever was had before; it adds up over a concatenation of events
  (`YieldsBoth`), which is how the pieces of a handler are put together. A lemma
  for each dialect and line then says what `handle_line` leaves the adapter and
  what its events yield (`Leaves`). Last, for each of the agent's steps, `Goes`:
  the events add to what was shown just what should be shown, and `TurnInv` holds
  again. Its parts relate the adapter's bookkeeping to the agent's side of the
  turn. `TextKept`: gemini's gathered text is what is missing and is empty at the
  end of a turn, codex has rendered just those of the open calls that were shown.
  `CuesKept`: the results awaited are those of the agent's own open prune calls.
  `GaugeKept`: the last reading is within the agent's `Gauge`, and the one the
  adapter remembers is the last the agent told it; without that a reading that is
  not repeated could hide one that is missing. `CallsKept`: cursor's adapter has
  met all model calls of the turn so far, so the unnamed last one makes the divisor
  right. `BillKept`: the sum of so many calls is between so many times the least
  and the greatest of them, and gemini has made a tool call in each but the last.
  For lines that quote a type the lemmas say which of `holds` makes `handle_line`
  take them for another. Then `SessionInv`: a session was made
  only if its id is known, and its worktree was made before it. `SignalsAll`
  assumes that hermes ends no turn with an oversize line, as the run does: its
  adapter forwards such a line unread, and the end of the turn with it.
- Induction: the library's induction theorems need an operator for a parameter, but
  `LeastNat` (a non-empty set of numbers has a least member, by WFMin) does not.
  With it, what each step of `FoldLeft` or `FlattenSeq` keeps, the whole keeps
  (`FoldValue`, `FlattenInSet`), a fold over one element more takes one step more,
  and two folds whose steps agree have one value (`RunOfFold`, `RunsAgree`).

Model-checked only: liveness, and `FinishedIsFaithful` of HistoryImport, which says
what the folds over the histories of each dialect compute. They select with
`SelectSeq`, of which the prover knows no definition.
Liveness and ENABLED are out of this prover's reach. The type invariants of
Supervisor, Writer and SyncCheckpoint are checked and proved, those of KeyFiles,
Hermes and AdapterStream are proved; `TypeOK` of the other modules documents the
types.

## 11. Where the code and its comments disagree

With a run that shows it:

- `import_rows` (`cursor.rs:1901`): a bubble with text and a call becomes two
  frames under one row id, and the backend ignores the second.
- `stored_key` (`crypto.rs:173`): a lookup before a member's key arrives caches a
  miss, which the arrival does not remove.
- `hermes_own_turn` (`agent.rs:1331`): the plugin's turn outlives an abort, the
  plugin refuses the chat's next turn, and the old turn's result ends it.

Met while modelling, without a run. Those of Supervisor, SyncCheckpoint and
PruneContext and the first two of the adapters are behaviours of the models, which
is why the properties there have exceptions:

- `was_running` is read before the wait for the attachments. A resident idle at that
  time may have begun a turn of its own when the spawn takes its place without an
  abort (`main.rs:828`), although the comment there (824-826) says that any turn in
  flight was aborted above.
- The abort gives up after ten seconds (`agent.rs:1303`) and the rewrite of a prune,
  which "needs exclusive access" (`main.rs:925-926`), follows all the same: what a
  living process writes between the reading and the replacing is lost.
- A tool call whose arguments have the type field of a hidden line is skipped
  (`claude.rs:412`). The comment (406-409) says that only structural types match;
  that is so of strings, and arguments are no string. cursor's prefilter
  (`cursor.rs:267-285`) has the same gap.
- The arguments of a call may have the type field of a result, which is signalled
  as the end of the turn while the call is running (`claude.rs:484`, against 485-491,
  "structural", and `adapter.rs:323`).
- The idle edge that tears a resident down is queued; a message handled before
  it respawns the chat, and the edge aborts the new turn (`main.rs:2634`, against
  the comment at 2626-2632).
- The race the code avoids for aborted residents exists for those that exit by
  themselves: their Done removes the new process's entry (`main.rs:532`, against
  `agent.rs:1130-1137`).
- The gates after the abort of a running one-shot leave `agent_running` true
  (`main.rs:781`, against 706-710).
- When the bucket is streamed anew, as after a change of the sync rules, the newest
  user message, if it is still the newest of its chat, is acted on again
  (`main.rs:650`, against 645-649, which has replayed prompts skipped).
- Between the channel and the counter `is_idle` overlooks an event
  (`writer.rs:480`, against 191-192).
- The replay guard compares with the `last_seq` at the end of the window, so it
  also skips messages nothing acted on (`main.rs:650`, against 645-649).
- A stop leaves a parked prune for the next session's cue, and the Done of an old
  process drops what a new session parked (`main.rs:2641-2645`).
- A scan that fails in the middle of a command leaves its earlier items parked,
  though the command is answered with an error (`control.rs:414`).
- A batch differs from its targets one by one when a chosen call has no output
  yet (`prune.rs:413-437` says exact); gemini counts a tiny output as pruned and
  does not write it (`gemini.rs:1620`).
- Text gemini's adapter still gathers is lost when a turn is cut.
- An oversize `result` of hermes is shown but does not signal the end of the turn
  (`hermes.rs:197`, against 171-186).
- A compaction is told to the gauge directly, so a reading that equals the last
  one before it is not sent, and the gauge keeps what the compaction said.
- An import of a claude session that was resumed leaves the original chat empty if
  the resumed one's file sorts first (`claude.rs:852`).
- After an oversize `tool_call.completed` cursor's gauge is off until the next
  reading.
- `run_history_import` is said to use `try_send` (`main.rs:1446`) and waits for
  room. Imports are said to reconverge when repeated (`codex.rs:768-771`,
  `gemini.rs:733`); rows without an id are inserted again after an abort. An empty
  cursor history sends no progress. claude's `decode_project_dir` guesses where a
  dash was a separator (`claude.rs:889-897`).
- A key file whose removal is lost in a crash stays until a sweep of a later boot
  (`main.rs:1284-1288`); the single key of old goes to whoever is looked up first.
- The plugin's `_standalone_send` (`adapter.py:1298-1358`) sends no hello, so the
  router closes the connection as unrecognised while the caller sees success.
  The socket server's doc (60-68) speaks of refusing where the code replaces; the
  trampoline's of exit status 1 on an error, where it exits with 0; the plugin's
  of a retry by the spawner, which waits for its timeout.
- The drain before an update overlooks producers that go on (`main.rs:1590-1593`);
  a failed update is not tried again until the version changes
  (`updater.rs:165`), and leaves the heartbeat cancelled (`main.rs:2680`).
- A guard that removes a mailbox by its chat may remove its successor's
  (`agent.rs:672`, against 644-651).

## 12. Not modelled

- The updater, uninstall and the lifecycle of the process: downloads, file
  replacement and restarts by launchd or systemd. What remains is flags of the
  main loop, listed as hazards.
- Authentication (one flag that ends the process), blobs (each upload and
  download on its own), power management, scripts and release.
- Of the control socket attach-file, schedule-message and status: each looks up a
  chat and sends one message, or only reads. The attachments in a mailbox.
- Of the sync stream several buckets, MOVE and CLEAR, frames that do not parse.
- Of KeyFiles the window between the check and the write in `persist_user_key`,
  a member's columns the keys do not depend on, and two lookups that rename the
  single key of old at once.
- Of Hermes hello and ping frames that take a place in a queue, the stop frame,
  which nothing sends; the registration of a trampoline and the forwarding of its
  turn are one step. Of the plugin the pause between writing a result and the
  clean-up of its turn, and that a turn cancelled by a disconnection cleans up late
  (`adapter.py:1107-1109`), by when the chat may have another.
- Of the adapters calls of pi made beside each other in one message; codex items
  without an id; a call of claude whose arguments quote type and subtype of an init
  line (the id taken from its line is the session's own). The gauge after a
  compaction is what the adapter reports; the baseline the backend adds to it
  (`writer.rs:71`) is left out. After a result claude's model may go on whether or
  not a background task woke it, which allows more than the program does.
- Of gemini's import a second file whose first line has an id of its own: the
  importer reads the first line only, so it is a session like any other.
- Ciphers, file formats and command lines of the agent programs, titles of
  imported chats, model lists, platform calls.
