# ThreadCove: TLA+ models, checks and proofs

ThreadCove is a research assistant: an Electron (or headless) server that keeps
sessions in files, runs them on a language model backend, and serves a workbench
UI over a WebSocket RPC. This directory holds TLA+ models of its stateful parts,
the TLC configurations that check them on small instances, and TLAPS proofs of
theorems about them. Paths below are relative to the repository; `S` stands for
`packages/shared/src`.

Every definition was translated from the source; `PROJECT.json` maps it to its
lines. Definitions introduced as "Variant with a fault" are not part of any
specification: each is a plausible bug that the checks are known to catch.

## 1. Inventory

| part | state | operations | hard behaviour | module |
|---|---|---|---|---|
| SessionManager (`apps/electron/src/server/session-manager.ts`), handlers (`handlers.ts`), `runtime.ts` | `active`, `submissions`, `locks`, `processing`, `abortRequested`, `task` | submit, cancel, waitForIdle, withIdleSession, shutdown, recovery; SEND_MESSAGE, CANCEL, DELETE, SET_MODEL | handlers interleave at their awaits; retries; failed saves; crashes | SessionRun |
| RunTranscript (`run-transcript.ts`) | map of messages, open segment, dirty flag, time of the last checkpoint | consume, flush | checkpoints that fail in the middle of a run; texts, snapshots and tools in any order | saves in SessionRun, texts in ModelTurns and Workbench |
| Session storage (`S/sessions/storage.ts`) | `mutations`, `deleting`, the files | mutateSession and its callers, deleteSession(Safely), createSession, lists | read-modify-write against each other and against deletion; a folder that moves | SessionStore, WorkspaceFolder |
| Persistence queue (`S/sessions/persistence-queue.ts`) | `pending`, `inFlight`, `errors`, `signatures` | enqueue, flush, flushAll, cancel, waitForWrites | debounce timer, chained writes, partial failure, edits by other programs, crash | SnapshotQueue, DebouncedSaves |
| Session file format (`S/sessions/jsonl.ts`) | – | parse, format, resilient read, portable paths | headers longer than 8192 bytes, damaged lines | WorkspaceFolder |
| Event queue (`S/agent/backend/event-queue.ts`) | `queue`, `resolvers`, `done` | enqueue, complete, reset, drain | lost wakeups | EventQueue |
| BaseAgent and factory (`S/agent/backend/`) | `_processing`, model | chat, abort, forceAbort, restoreTextHistory | abort during chat | PiHost, TextHistory |
| Pi host and child (`S/agent/pi-agent.ts`, `packages/pi-agent-server`) | active prompt, tools in flight, subprocess; the child's session and abort controllers | ensureSubprocess, chat, abort, tool calls, destroy | lines between two processes; late events of an aborted prompt; tool timeouts; child death | PiHost |
| Claude and DeepSeek backends, event adapters (`S/agent/`) | history, partial text, pending text | chat, abort, restoreHistory | what is remembered against what is stored, after an abort or error at any event; a history cut to 48,000 characters, again and again | ModelTurns, Remembering, TextHistory |
| Research tools (`S/research/tools.ts`, `web.ts`) | slots, per-run budgets, artifacts | execute, runChild, recoverSession, fetchPublicPage | slots and timeouts racing with cancels; artifacts that cannot be written | ResearchTools, PublicPage |
| MCP pool (`S/mcp/mcp-pool.ts`) | clients, names of tools | connect, disconnect, callTool | overlapping connects, names that collide by sanitizing or by concatenation | McpPool |
| RPC server and client (`apps/electron/src/transport/server.ts`, `S/client/client.ts`) | connections, pending requests, timers, connection state | handshake, request, event, reconnect, close, stop, start | lost answers, reconnects, a close during a validation | RpcLink |
| Routed client, bootstrap, channel tables, codec (`S/client/`, `S/protocol/`) | – | routeFor, withLifecycle, encode, decode, validate | values that look like encoded ones | Routes, Envelopes |
| Workbench (`packages/ui/src/useWorkbench.ts`, `streamBatcher.ts`) | sessions, messages, batches, loads, pending send | load, event, send, retry, select | loads and events out of order | Workbench |
| Credential storage (`S/credentials/secure-storage.ts`) | cache, key, file | load, save, set, delete | unreadable file, stale cache, crash in a write | CredentialVault |
| Configuration (workspaces, sources, skills, models) | files and tables | provider, model and key of a session; servers and requests of sources; making and loading a workspace | an environment that has changed | Providers, SourceServers, WorkspaceFolder |
| Session helpers (`S/sessions/preview.ts`, `slug-generator.ts`, `file-path.ts`, `validation.ts`) | – | preview, unique id, paths of files | cuts inside a character, ids that are taken | TextPreview, WorkspaceFolder, SessionFiles |
| Process entry points | – | start and stop the runtime | – | no |

How they interact: an RPC request enters through `transport/server.ts`, a handler
calls SessionManager, which reads and writes the session through `storage.ts` (and
so through the persistence queue) and consumes the backend's events in a for-await
loop; the Pi backend's loop drains an event queue that the child's output lines
feed. Events go to every subscribed client and into the transcript; the UI folds
them into its own copy of the messages.

What makes each part correct: a request id runs the model once and its answers
agree; turns exclude each other, deletion and model changes; what was accepted or
announced is in the file; a session file behaves as one atomic object and stays
deleted; a stream of events is complete, ordered and ends; the window shows what
the file holds; everything that waits is answered.

## 2. Modules

```
SessionRun  <---- SessionSafetyProofs
    (likewise PiHostProofs, RpcLinkProofs, WorkbenchProofs)
    |  (takes a save for one atomic action that succeeds or fails: SessionFile)
SessionFile <==refines== SessionStore <---- SessionStoreProofs
                             | INSTANCE (Body <- sequences of appends)
                         SnapshotQueue ----EXTENDS----> DebouncedSaves
EventStream <==refines== EventQueue
    ^==uses== PiHost
RemoteCalls <==refines== RpcLink
Workbench (the server as far as a window sees it, over one connection at a time)
MCQueues = DebouncedSaves, EventQueue, ResearchTools, one of them at a time
MCParts  = CredentialVault, McpPool, ModelTurns, WorkspaceFolder, one at a time,
           and the algorithms TextPreview, Envelopes, TextHistory, PublicPage,
           SessionFiles, Providers, SourceServers, Routes, on one input at a time
ModelTurns ----EXTENDS----> Remembering (the cut of TextHistory, applied to texts)
EventQueue, DebouncedSaves, ResearchTools   <---- QueueProofs
SessionStore, WorkspaceFolder, ModelTurns (what is kept in files)  <---- SessionStoreProofs
CredentialVault, McpPool, the functions and MCParts                <---- PartsProofs
Picks (what filters and maps make of a sequence), Remembering   <---- PicksProofs, with
                      the lemmas on sequences and on cut histories that the others share
```

Parts that share no state are checked side by side: the first state says which one
moves, or which function is asked about and what its input is. The conjuncts of a
property that belong to the other parts then speak of their initial states only.

**SessionRun** is one session of the server. All state of SessionManager is keyed
by `workspace:session`, so one session is enough, except for shutdown, which
visits sessions one after the other: the time it spends on the others appears as
the delay between its steps. JavaScript runs a block between two awaits
without interruption, so such a block is one action.

| variable | code |
|---|---|
| `disk` | the session file: header (`model`, `lastRun`), messages with their request ids, and how many of a run's events its transcript has saved |
| `entry`, `active` | ActiveSession objects and the map `active`; an old object lives on in the closures of its runs |
| `run` | the closures of `submitMessage`; `pc` says at which await one is; `submissions` is the set of those that are `Live` |
| `locked` | `locks` |
| `call` | DELETE and SET_MODEL handlers at their awaits, with the promises `waitForIdle` collected |
| `phase`, `shut` | `close()` in `runtime.ts` and `shutdown()`, the end of the process and the restart with `recoverWorkspace` |
| `accepted`, `chats` | history: accepting answers, calls of `backend.chat` |

The backend is nondeterministic: any events, an error event, a throw, an end with
or without `complete`. Texts and events are counted, not stored.

**SnapshotQueue** is the persistence queue for one file, its operators without a
specification of its own: calls (`EnqueueSnapshot`, `Flush`, `Save`, `Cancel`, `Delete`)
and the file system calls of `writeSnapshot` one at a time (`DirectoryMade`, which
also compares the header, `TempWritten`, `Renamed`, `Unlinked` and the failures).
A write in flight keeps the set of callers that await its promise. A deletion
removes the temporary file with the directory, so a write caught there fails.

**DebouncedSaves** uses the queue through its whole API, with numbered snapshots.
`owed` and `target` are history variables: the snapshot the queue has to store,
and the one a caller's flush was about.

**SessionStore** puts `mutateSession` and `deleteSessionSafely` on top of the
queue: `chain` is the chain of promises in `mutations`, `removal` the deletion.
Another program may edit the header (`Edit`), and the process may end (`Crash`).

**SessionFile** is the abstract specification of SessionStore: an atomic file on
which mutations take effect one at a time in the order of their calls, "done"
means it took effect, "failed" that it did not, and a deletion waits for all of
them. In the refinement mapping a mutation takes effect at the rename, which is
before its promise settles: `FileState` calls it "effective" from then on. This
refinement is what lets SessionRun take a save for one action.

**EventQueue** is the queue and its generator `drain`, which is suspended at
`waitForEvent` or at a `yield`. One generator runs at a time, as in
`pi-agent.ts`, where `chat` resets the queue and drains it.

**EventStream** is what the queue promises both sides, without promises and
resumptions: a stream that is re-armed only when nobody reads it. EventQueue
implements it; PiHost works on it and is checked to use it as such a stream, so
that the two modules compose.

**PiHost** is one Pi agent with its child process. The host's variables are the
fields of PiAgent (`active` is `activePromptId`, `tools` is `inFlightTools`,
`aborted` the turn's `toolController`, `child` whether `subprocess` is set, `ready`
the state of `readyPromise`), with `pc` the await at which `chatImpl` is. `toHost`
and `toChild` are the lines of the two pipes. `kid` is the child: `serial` its
chain of prompts, `cancelled` the aborted ids, `requests` the tools it waits for,
`interrupted` whether the provider's loop was aborted. Aborts and tool answers are
handled as they are read, prompts when the chain comes to them. A child that the
host gives up takes its lines with it, except that a write that never succeeded may
still call back (`LateWriteFails`). The Pi SDK is outside the repository: a prompt
produces texts and tool calls, then `agent_end` or an exception, or nothing for
ever.

**RpcLink** is one `WsRpcClient`, one `WsRpcServer` and up to `MaxConns` connections
that exist at a time. Each end of a connection has a state of its own (`near`,
`far`), `up` and `down` are the messages on their way, and `cut` says that they may
be lost. `state`, `attempts`, `retry`, `shake`, `fatal`, `disposed`, `pending` are
the client's fields and timers, `greeting` and `clients` the server's handshakes and
registered clients, `job` the connection that a running handler will answer.
Validation of a token is asynchronous in the code, so `Refuse`, `Deny` and
`Register` come some time after `ReadHandshake`, when the connection may be gone.

**RemoteCalls** is what `invoke` promises its caller: a request runs at most once,
a success is the result of that run, a failure promises nothing about the run, and
every call settles. RpcLink implements it; SessionRun makes repeated calls harmless.

**Workbench** is the hook with its server. `stored`, `transcript`, `segment`,
`process` and `unsent` are the server's files, transcripts, runs and the event it is
about to broadcast; `asks` and `wire` the requests and what comes back over the one
connection, answers and events in one order. In the window `selected` is React's
state and `sel` the ref that the effect sets later, `shown` the messages, `batch`
the pending deltas, `load` the load whose answer still counts (`loadSequence`),
`moved` whether `revision` has changed since it was asked, `slot` the request id
kept for a repetition. Answers to older loads have no
effect in the hook, so the model takes them off the wire. Left out are the texts
of errors, activity, permissions, files, sources, settings and `createTask`.

**ResearchTools** has one action for the synchronous stretch of `execute` in which
all subtasks of a call ask for their slots (in any order: each has written its
artifact first), one for each end of a subtask, and abort handlers inside `CancelRun`
and `Expire`, where `AbortSignal` runs them. A subtask granted a slot while it is
being cancelled keeps it until its finally block. `Recover` is `recoverSession` at a
start: it is called for the sessions whose header is listed (session-manager.ts:74), any
of them in the model, and a rewrite that fails is passed over (tools.ts:73-74) and
may leave a torn file.

**CredentialVault** has one action per call, for the code has no await. Of the
bytes of the file it keeps what `load` and `ensureKey` tell apart: whether they
reach the end of the salt, of the header, of the payload. `asked` and `atRisk` are
the history that says which values a reader may get.

**McpPool** interleaves `connect`, `disconnect` and `callTool` at their awaits.
A proxy name is one sequence of characters, `mcp__{slug}__{tool}` as the code
concatenates it, and what sanitizing leaves of the slugs and of the tools' names is part
of the initial state. Two names can therefore be equal because sanitizing made their
parts equal, or because `__` occurs in a part: slug `a` with tool `b__c` and slug `a__b`
with tool `c`.

**ModelTurns** follows the words of a model through a provider's events, the
adapter, `chatImpl` with its partial text and history, the loop of `submitMessage`
and the transcript into the file, for the three backends. `context` is what the agent
remembers, `memory` what it was given to remember since it was made, a history variable
that is never cut. Claude cuts its history at the end of every turn
(claude-agent.ts:113), DeepSeek only when a session is reopened
(deepseek-agent.ts:208-221), both to `MaxMemory`, which stands for 48,000 characters; a
word or the result of a tool counts as one.

**Remembering** applies the two loops of TextHistory, which speak of lengths, to
messages with texts, and defines the newest part of a conversation (`IsNewestOf`)
without a loop.

**WorkspaceFolder** is the directory of a workspace: creation of sessions under free
ids, lists, recovery at a start, headers that are too long or damaged, damaged
lines, and the folder moved while the server is down.

**TextPreview, Envelopes, TextHistory, PublicPage, SessionFiles, Providers,
SourceServers, Routes** are pure: each defines the function as the code computes it
and a property that compares it with what it is for. None is a RECURSIVE operator:
loops are functions on the numbers of their turns, and the values in Envelopes, like
the directories in SessionFiles, are functions from paths to what is there, so that
encoding and decoding concern each path by itself. In SourceServers, `normalizeMcpUrl`
throws for a URL that `new URL()` does not accept, and nothing in `buildAllMcpServers`
catches it.

## 3. Runs

| run | question | result |
|---|---|---|
| session_run | Does a request id run once and get one answer, is what was accepted stored, do turns exclude each other, is what a run announces the truth about the file, does a cancel stick, with retries, failures, cancels, shutdown, crashes? | holds |
| session_calls | Do DELETE and SET_MODEL keep off a run in progress, does the opened backend have the stored model, and does everything that waits get an answer? | holds |
| session_close | Does close() leave no run in progress? | **violated** |
| queues | Is a flushed snapshot stored, a loss on record, order kept, does the queue settle; is the event queue an EventStream whose streams end; do the slots and budgets of subtasks hold, are their reports true, does every delegation end? | holds |
| session_store | Does the store implement one atomic file, does a deleted session stay deleted, are edits kept that the comparison can see, does every mutation and deletion end? | holds |
| store_archive | Is an acknowledged change of a header field in the file? | **violated** |
| pi_host | Do turns keep apart, does a cancel in the child's chain stay, is a complete turn complete, do tools end with their turn, does every turn end? | holds |
| rpc_link | Do the calls of a client implement RemoteCalls, do both sides agree on who is connected, do events come in order, does the client settle? | holds |
| workbench | Does the window show the selected session and nothing else, does it end up with the stored messages and the right sessions busy, does it come to rest? | holds |
| workbench_retry | Is a text run once however often its sending is tried again? | **violated** |
| parts | Are the vault, the pool, the words of the models and the folder what their users rely on; are conversions exact; do configurations fit together? | holds |
| workspace_moved | Do the sessions of a moved folder keep what is appended to them? | **violated** |

**The violated runs.**
*session_close*: `shutdown()` cancels the entries that are active when it starts
and waits for each one once, but the server serves until `close()` stops it. A
message accepted after its session was visited is neither cancelled nor flushed,
though docs/IMPLEMENTATION-REVIEW.md says that checkpoints are flushed on close.
*store_archive*: `writeSnapshot` protects edits of the header by another program by
copying all six metadata fields from the disk, when the disk's header is not the
one this process last wrote. That also overwrites the field that the mutation has
just changed: after such an edit `archiveSession` returns true and the session is
not archived. The limits of the protection are stated positively in
`ComparedEditsAreKept`: an append keeps an edit made before the comparison, if this
process had written the file before and the edit differs from what it wrote. An
edit made between the comparison and the rename, or before this process's first
write, can be lost.
*workbench_retry*: `send()` awaits `refresh()` in the same try block. When the
connection is lost after the server has accepted the message, the catch block puts
the accepted text back as a draft, and its request id is gone: sending it again
runs the model again, though the design says that a retry does not.
*workspace_moved*: a session's header keeps the absolute path of the workspace of
the day it was created, and every save goes there. After a move, messages are
accepted and written to the old directory, though jsonl.ts says that session folders
survive moves.

`TypeOK` of `RpcLink` and of `Workbench` documents their variables. It holds on the
instances of `rpc_link` and `workbench` and is left out of their configurations:
to repeat that, add it to the INVARIANTS; for all instances it is proved (`TypeCorrect`,
`WindowIsTyped`).

What the properties that hold do not promise, because the code does not:
`VaultIsTrue` excepts values at risk since the file was damaged, moved or rewritten
by another instance, and files cut off within their salt, after which every new
instance derives another key; `PoolIsExact` excepts sources whose calls overlapped,
names that a tool of another source has too, and clients whose server failed to list its
tools, which stay open. Such a name can come from two slugs that differ after sanitizing
(mcp-pool.ts:36-37 concatenates, and line 101 skips the second tool), and a call by the
name that one source offers then reaches the other, though the comment above that line
calls the name safe. An agent remembers only the newest 48,000 characters of what it was
given (`WordsAreKept`). A report may go on saying queued or running after a start: the
recovery passes over sessions that are not listed and rewrites that fail, so
`ReportsAreTrue` speaks only of reports that say how a subtask ended and of what an
answered call reports. A malformed URL of one enabled source makes `buildAllMcpServers`
throw, so that none gets a server or an error (`BuildIsSound`), though the comment on the
method says that failed builds are collected in `errors` (server-builder.ts:149-151);
only tests call it. A `close()` whose `flushAll` rejects leaves the server up with an
empty session map (runtime.ts:46): `CallsReturn` takes the rejection as the end of
`close()`, and nothing in the repository promises more. Further, a list leaves out sessions whose header is too long
(`FolderIsTrue`); a workspace whose configuration was cut off by a crash cannot be
opened again (`StartCut`); the list of a session's files shows names that cannot be
read. Some channels have no handler: `createSource`, `deleteSource`,
`setSourceCredential`, `getSourceTools` and `retryLast` of the channel map, and
those for dialogs and the system (`openFileDialog`, `openExternal`), which
handlers.ts:6-8 expects on the local server and nothing registers: `Unanswered` of Routes.

**Bounds.** `session_run`: two request ids and two texts, so that an id can be
repeated with the same or another text and another id can come between; two runs of
up to two events, so that a checkpoint can fail after one was saved, a repeated run
has an id to take, and the second run can overwrite `lastRun`. `session_calls`: two
calls that meet each other, two models, one run; events are left out there, and the
exclusion is proved for any number of runs. In both two entries, so that a session
can be deleted or cleared while a closure still holds its old entry; restarts and
saves are unbounded. `queues`: three snapshots, so that one can be on the disk, one
in flight and one pending; two turns of three events, so that what a turn leaves
behind could reach the next one; two calls with three subtasks of two runs for one
slot, so that a subtask waits behind another of its own and of another run, and a
third exceeds the budget of two. `session_store`: two mutations, so that one can
fail before another, and two edits, so that the header can return to an earlier
value. `pi_host`: two prompts, so that lines and writes of one can reach the next;
two children, so that the second turn can find the first one's dead; one tool and
one text of a turn; a cancel when nothing else is under way to the child, or what it
follows has been read (`MaxLines`). `rpc_link`: two connections at a time, so that
the old one is still closing while the new one opens; one request, since ids
are never used twice and calls meet only when all fail together; two events, two
attempts and two faults. `workbench`: two sessions with a run each at most and a
text of one or two chunks; one lost connection; two clicks; two messages on the wire.
`workbench_retry`: one session and two runs. `parts`: two accounts, values and
machines; two sources with two tools, three users, and names `a` and `a__b` of sources with `c` and
`b__c` of tools, which meet when they are joined; two turns of two words and a tool
with a failed save, and a memory of two words, less than a turn may have, so that messages are
cut off and cut short, more than once for Claude; two directories, two ids of a base, two messages; all inputs of
the functions up to the sizes given in MCParts.
Symmetry is used only in runs without liveness properties.

**Deadlock** is not checked: every system here may stop, with all request ids
used, the process down, or nothing left to send.

**Fairness.** Weak fairness of the continuations only: a settled file system call
resumes its code, a resolved promise its awaiting function, a timer fires, and a
backend's stream ends (by the end of the turn, by abort or by the timer of the
run). No fairness makes a client call, a save succeed, or a crash happen. In
`session_calls` a continuation may be a failure each time. In `pi_host` the host's
continuations run, its timers fire and an aborted tool returns; nothing at all is
assumed of the child. That every turn ends therefore needs the time budget, which
the server configures for sessions with research tools and for their subtasks;
other sessions have none, and a child that hangs holds their turn until the user
stops it. In `queues` a subtask's time limit passes and a stopped subtask ends;
nothing is assumed of one that answers. In `rpc_link` the platform reports opens and
closes, timers fire, both sides read and the validator answers; handlers may run for
ever and a stopped server may stay stopped. In `workbench` runs end, the server
answers, the window reads and its timers fire; a connection need not come back, and
`WindowSettles` speaks of windows that stay connected.

## 4. Proofs

Checked by TLAPS for every value of the constants, under the assumptions named
below, which TLC evaluates in the runs: `ConstantsAssumption`, `StoreAssumption`,
`EventQueueAssumption`, `PiHostAssumption`, `RpcLinkAssumption`, `WorkbenchAssumption`,
`VaultAssumption`, `PoolAssumption`, `TurnsAssumption` and `LimitsAssumption`
(non-empty sets, finite sets of tools, bounds that are naturals, a memory of at least
one character, null values outside their sets, a preview that is not cut to more than its limit, no file called `..`), and, as hypotheses of
the theorems about DebouncedSaves and ResearchTools, `SavesAssumption`
(snapshots are numbered from 1 to `MaxSaves`) and `ResearchAssumption` (a finite set of
subtasks, limits that are naturals), which `QueuesAssumption` of MCQueues asserts.

| theorem | statement | argument |
|---|---|---|
| `SessionSafetyProofs!TypeCorrect` | `Spec => []TypeOK` | one lemma per group of actions |
| `...!RequestsRunOnce` | `Spec => []ChatAtMostOnce` | invariant `Ledger` |
| `...!AnswersAgree`, `...!AnswersAreStored` | `[]AcceptedIsStable`, `[]AcceptedIsStored` | invariant `Ledger` |
| `...!TurnsExclude`, `...!LockExcludes` | `[]OneTurnAtATime`, `[]IdleUnderLock` | invariant `Turns` |
| `...!FileTellsTheTruth` | `[]FileIsTruthful` | invariant `Records`, with `Ledger` and `Turns` |
| `...!CancelsStick` | `CancelSticks` | each step of the run and of others, under `Turns` |
| `...!ModelsAgree` | `[]ModelInStep` | `ModelStored`, with the lock of `Turns` |
| `SessionStoreProofs!StoreTypeCorrect` | `Spec => []TypeOK` | invariant `Inv` |
| `SessionStoreProofs!DeletedStaysDeleted` | `Spec => NeverRevived` | a write in flight implies that the file exists |
| `...!EditedHeaderKept` | `Spec => ComparedEditsAreKept` | invariants `HeaderKept`, `Underway` |
| `...!StoreIsOneFile` | SessionStore implements SessionFile (`ActsAsOneFile`) | step by step, under `Chained`, `Underway`, `Faithful` |
| `QueueProofs!FlushesTellTheTruth` | `[]FlushesAreTruthful` | invariants `SavesInOrder`, `Owes`, `Awaits` |
| `...!NoOlderSnapshot` | `NewestStays` | invariant `SavesInOrder` |
| `...!QueueIsStream` | EventQueue implements EventStream | step by step, under `Inv` |
| `...!WakeupsReach`, `!OrderKept`, `!StreamsEndComplete` | `[]NoLostWakeup`, `[]InOrder`, `[]EndsComplete` | invariant `Inv` |
| `PiHostProofs!TurnsAreIsolated`, `!CancelInTheChain` | `[]OwnEvents`, `[]QueuedCancelStays` | invariant `Journey` |
| `...!ToolsEnd` | `[]ToolsEndWithTurn` | invariant `ToolsOfTurn` |
| `...!CompleteIsComplete` | `[]CompleteIsTrue` | invariant `Texts`, with `Journey` |
| `...!UsesAStream` | `Spec => UsesStream` | step by step |
| `RpcLinkProofs!BothAgree` | `[]ViewsAgree` | invariants `Ends`, `Greeted` |
| `...!EventsAreInOrder` | `[]EventsInOrder` | invariant `Ordered`, with `Greeted` |
| `...!CallsAreSafe` | RpcLink implements `RemoteCalls!Safety` | step by step, under `Mail` and `PendingIsOpen` |
| `QueueProofs!LimitsAreKept` | `[]LimitsHold` | invariants `Owners`, `Queue`, `Budget` |
| `...!ReportsTellTheTruth` | `[]ReportsAreTrue` | invariant `Reports` |
| `SessionStoreProofs!FolderStaysTrue` | `FolderSpec => []FolderIsTrue` | invariant `FolderInv`, with `FromOne` |
| `...!WordsStay` | `TurnsSpec => []WordsAreKept` | invariants `TurnsInv` and `MindInv`, one lemma per action |
| `PartsProofs!CredentialsAreKept` | `VaultSpec => []VaultIsTrue` | invariant `VaultInv` |
| `...!NamesReachTheirSource` | `PoolSpec => []PoolIsExact` | invariant `PoolInv` |
| `...!RoutesExact`, `!KeysExact`, `!ServersExact`, `!RequestsExact` | every mode, environment, source and call | cases |
| `...!PagesExact`, `!SearchesExact` | every web, addresses, limits; answers of any length | `Follows`, turn by turn |
| `...!FilesExact` | trees of any depth, any names | `ResolveIs`: when a path is good |
| `...!PreviewExact` | texts of any length, any limits | `CutWithin`: a cut within a character |
| `...!HistoryExact` | histories of any length, any limit | `Fits`, and `Alike` for the second run |
| `...!EnvelopesExact` | values of any depth | `Carried`, `Clean`, path by path |
| `...!ConfigurationsAreFit`, `!ConversionsStayExact` | MCParts: `Spec => []ConfigurationsFit`, `[]ConversionsAreExact` | the ten before, and `ChoiceOK` |
| `WorkbenchProofs!ShownIsOfTheSession` | `Spec => []ShowsTheSession` | invariants `Apart`, `LinkOK`, `SelectionOK`, `ViewOK` |
| `...!WindowIsTyped` | `Spec => []TypeOK` | the same |
| `...!QuietTellsTheTruth` | `Spec => []QuietIsTrue` | invariant `Follows`, with those |

PiHost, RpcLink and DebouncedSaves also have their type invariants proved
(`TypeCorrect`, `SavesTypeCorrect`). `FolderInv` and `PoolInv` begin with theirs. Each invariant was checked with TLC on the
instance of its run before it was proved.

*SessionRun.* `ChatAtMostOnce` is not inductive: a second `chat` for a request id
starts from a submission whose first save is still under way. `Ledger` therefore
says where the binding of a request id to a run is written (the file, the answers
given, a run whose acceptance is saved and not yet answered), that these agree, and
that a submission still being saved has an id that is bound nowhere, which is what
the lookups of `submissions` and of the stored messages establish in one synchronous
block. `IdleUnderLock` and `OneTurnAtATime` rest on `Turns`: a live submission
keeps its entry `processing`, each entry has one, it is the active one until
shutdown clears the map, and the lock has one holder. `FileIsTruthful` speaks of the
last run only; `Records` says of every run, at each of its awaits, what the file
holds of it, so that a run whose record was overtaken by a later one is covered.

*SessionStore.* That the store acts as one atomic file rests on the chain of promises:
only the first mutation of the chain has begun, and it returns before the next one
reads (`Chained`), so that there is one write in flight at most, and it is that
mutation's (`Underway`). What is renamed over the file is then the file as it is at
that moment with the mutation applied (`Faithful`), although it was read several steps
before; an edit of the header in between is the one thing that can differ, and
SessionFile allows it. The rename is the step in which the mutation takes effect;
loading, the temporary file and the unlink are not seen, and a failure at any of them
is answered "failed" with the file as it was.

*DebouncedSaves.* What a caller was told stays true only because what is on the
disk, in flight and pending is ever newer (`SavesInOrder`) and because a failure that
nobody has seen is on record or belongs to somebody's write (`Owes`, `Awaits`).

*PiHost.* `Journey` follows each prompt through the two processes: it is unsent, on
the pipe, in the chain, begun or dropped, in one of them at a time, and its abort
never overtakes it. `Texts` counts the texts of an undisturbed turn over the child,
the pipe, the queue and the reader, and puts the `agent_end` behind them.

*RpcLink.* The two ends of a connection may disagree while a close or a handshake
is on its way; `Ends` and `Greeted` enumerate how. `Mail` says that a request is on
its way at most once and only before its handler, an answer only after it. Events
carry numbers in the model's history; that they arrive in order is a statement about
what was seen, what is under way and what was pushed (`Ordered`).

*ResearchTools.* `LimitsHold` needs that a subtask belongs to one call (`Owners`),
since the run that cancels it is found through its call, that the queue holds each
waiting subtask exactly once (`Queue`), since the one at its head gets a slot and
those behind it keep waiting, and that `scope` is the size of a union of disjoint
sets (`Budget`). `Without` is proved to keep the order's members once each
(`WithoutIs`), `Orders` to name each subtask once (`Granting`).

*CredentialVault.* What a reader may get depends on what the file holds, whether this
machine can open it, and what the instance has cached. `VaultInv` says that the cache
and a whole file hold only values their accounts may have, that nothing is promised
(`Missing`) where there is neither, and that a whole file this machine cannot open was
carried here or has a salt that was cut.

*McpPool.* A source without overlapping calls has at most one under way, and that one
meets the entry it expects (`SoleCall`); the client of an entry that another call
replaces or removes was therefore brought by a source whose calls overlapped
(`Brought`). A client that is still connecting is known to its own call alone
(`Fresh`). That the first tool of a name exists is the well-foundedness of the naturals.

*WorkspaceFolder.* `FolderIsTrue` speaks of sessions whose root is the place of the
folder, and a move changes which ones these are: a session can leave its place and
come back with the folder. `FolderInv` therefore follows each session that is
anchored, whose root is this place or a directory in which no folder is left
(`Anchored`): as long as no save has gone there, its file has what was sent less what
was damaged, and it says truly whether a run goes on. The first save that goes
elsewhere puts a folder there, and the session is never anchored again, since a folder
is not moved to where one is. The file and the history are compared as sets of
numbers (`Held`, `Due`); that their orders agree too follows from both being rising
(`Numbered`): two rising sequences with the same elements are equal (`RisingSame`).

*ModelTurns.* Nothing is lost between the model and the file because, while the run
goes on, the texts of the transcript and of the events under way are together what
was said (`Flows`). The end of a message replaces the open segment by its whole text,
and that these are equal is a statement about everything under way at once: from the
open segment each event leads to a next draft, the last of which is the message the
model is in (`Drafts`, `Runs`), so that a tool never finds an open segment. DeepSeek
keeps what it said apart until it is complete, and `MindOfDeepSeek` says that it is
remembered once, by `complete` or by the `finally` block; Claude remembers message by
message, and what it remembers with its partial text is what the transcript has
(`MindOfClaude`), or more when a cancel came before the loop took it. A new backend
leaves out what has no text (`RecalledTexts`), by the well-foundedness of the
naturals. That an agent remembers the newest of what it was given, however often it was
cut, is `MindInv`: a cut keeps an end (`CutIsNewest`, from `Fits`), an end of an end is
an end of the whole (`NewestAgain`), and what is appended to both keeps it so
(`NewestGrows`). `PicksProofs` has these facts and those about sequences laid one after
the other (`FlatJoin`, `ThroughJoin`, `ThroughPrefix`) on which this rests.

*The functions.* For each function a theorem says that its property holds for every
input of its kind, of any size, and not only for those that MCParts tries; the two
properties of the run follow (`ChoiceStays`: an input stays what it was chosen to be).
Where the code loops, the proof follows the turns with a predicate on how far the loop
has come: `Follows` that a fetch after n turns is where n redirects lead, or has ended
on the way; `Fits` that what is kept of a history is the newest of it and that its
characters and the space left are together the maximum. `SearchesExact` compares the
loop over the payloads with the position of the first that tells something, which the
loop does not mention. The induction over the turns is
over an interval of numbers (`FromZero`, by the well-foundedness of the naturals).
Restoring what was restored changes nothing because the second run keeps one message
for each that the first kept, in step with it (`Alike`). That a preview ends between
two characters is a statement about the four bytes that the loop looks at: a cut in a
character leaves its lead, followed by fewer continuations than it asks for
(`CutWithin`); a cut at the end of one leaves as many (`CutAtEnd`). For messages,
`Carried` says path by path that encoding and decoding give back what JSON leaves of a
value, since what is tagged after encoding was bytes before, unless it looked like them
(`TagsAre`); that a message has the fields its type asks for (`Complete`) is about the
labels right under its root, which are not below any bytes (`TopArrives`).

*Workbench.* What is shown was merged from answers and events that left the server at
different times, so the invariant says of everything under way what the window may
take it for (`Sound`): a text or a user message is in the file or the transcript of
its session (and stays there: no session loses a message, `Grow`), and an answer to a
load names each message once and is of the session that is selected. `Apart` keeps the
ids of a file and a transcript apart, which the merges of both ends need. The lemmas
about those merges (`MergedIs`, `AppliedIs`, `AccumulatedIs`) rest on what a selection
of positions makes of a sequence (`PicksProofs!PickedIs`), by the well-foundedness of
the naturals.

That a window at rest is right (`QuietIsTrue`) is a statement about what is still
under way, read in its order (`Follows`). Of each session the last packet that says
anything about it says whether it has a run (`Ends`), unless a list was asked for that
will; the end of a run is behind everything that was sent of it (`Order`), so that a
batch, a run shown as running and an event that is still unread each have a status
event to come (`BatchEnds`, `FeedbackEnds`); and when no status event of the selected
session and no answer to a new connection is to come (`Calm`), every load under way
and the one that was shown carry what the file holds (`ShownFollows`). Reading drops
answers to loads from the middle of the wire; what that keeps of the order is `Kept`.

`NoLostWakeup`, `InOrder` and `EndsComplete` of EventQueue are no properties of a
run: they are proved, and `ActsAsStream` checks on the instance what follows from
them. `RemoteCalls!Safety` is RemoteCalls without its fairness; the run checks
`ActsAsCalls`, which includes it.

Only model-checked: all liveness properties, and with them the fairness in
`ActsAsCalls`, for fairness and ENABLED are outside the prover's reach. Every other
property of a run that holds is stated by a theorem for every value of the constants.
The inputs that a theorem takes are those of the models: a byte of a text is its
part in UTF-8, a message of a history its type and length, a file its name.

## 5. Not modelled, and what could follow

Inside the modelled parts: the legacy `sendMessage`, which nothing calls; file reads
that fail for a moment (`loadSession` answers null for such a file as for one that is
gone, storage.ts:148, and the check for a known request id is then skipped); a
second generator on one event queue; `invokeClient`, messages that cannot be parsed
and origins in RpcLink; the budget of network calls and the resolver's addresses in
the research tools; two processes that write one session. Of PiHost: steering,
hand-over, mini completions and `postInit`, which nothing in the application calls,
and the model and history sent with a prompt. Of the event adapters: ids of turns
and the extraction of texts from blocks. Of the window: what is listed under
Workbench above.

Not at all: the process entry points, which only start and stop the runtime; the
React components, which render; the reads and writes of sources, skills and
settings, which are synchronous and meet nothing.

Two windows of the Pi backend that PiHost shows and no property forbids: an abort
that the child reads between taking a prompt and calling the SDK, while it sets the
model, stops nothing, and the prompt runs on unseen; and the write callback of an
earlier child, which is not compared with the present one (pi-agent.ts:323), can
fail the next turn.

What could follow: the parts named above; and, of what is proved, that SessionRun runs
on SessionStore itself and not on the atomic file that SessionStore implements.
