# A verification development of wolli

wolli runs AI agents as background daemons.  This directory holds TLA+ models of
the parts of wolli in which the order of events matters, the TLC runs that check
them on small instances, and proofs of their main invariants for every instance.
All source paths are relative to the repository's root.

Contents: [the system](#the-system), [the modules](#the-modules),
[runs](#runs), [bounds](#bounds), [fairness](#fairness), [proofs](#proofs),
[disagreements found](#disagreements-found),
[what is not modelled](#what-is-not-modelled), [plan](#plan).

## The system

A daemon (one per agent) holds an `AgentRuntime`.  The runtime keeps a map of
resident `AgentSession`s; each has an `AgentHarness`, which drives the agent loop
(provider request, tool calls, next request) and writes the conversation to a
JSONL file through a `Session`.  Clients attach over HTTP: commands are POST
requests, events come back as a server-sent stream.  Workflows, hooks and
integrations run in the daemon too and call the same session methods as the
clients.  Everything in a daemon is one JavaScript event loop: code between two
awaits is atomic, and at an await anything else may run.  Files are shared with
other processes (the CLI, other daemons).

| component (source) | state | operations | what makes it hard | what makes it correct |
|---|---|---|---|---|
| agent harness (`packages/agent/src/harness/agent-harness.ts`) | phase, three message queues, pending session writes, run promise, abort controller, overflow latch | prompt, skill, promptFromTemplate, steer, followUp, nextTurn, clearQueue, the setters, abort, compact, navigateTree | every listener, hook, storage call and provider request is awaited, and all operations can be called meanwhile; any of them may throw | no queued message or write is lost, duplicated or reordered; abort waits; the phase returns to idle; recovery from overflow happens once |
| agent loop (`packages/agent/src/agent-loop.ts`) | the messages of the pass | runAgentLoop, runLoop | asks for queued messages at three points; ends early on errors and aborts | the save points lie between turns |
| session storage (`packages/agent/src/harness/session/`) | the file; per object a list of entries, an id map, the leaf | open, create, append*, moveTo, getPathToRoot | id and parent are fixed before the awaited write; crash within a line; two objects over one file | links resolve, paths end, what was acknowledged survives |
| file mutation queue, write and edit tools (`packages/wolli/src/core/tools/`) | a chain of registrations, a promise chain per file | withFileMutationQueue and the operations of the two tools | tool calls run in parallel and are aborted; a path may be a link; a file may not exist yet | one call at a time per file, no lost edit, nothing leaks, nobody waits for ever |
| session event stream (`packages/wolli/src/server.ts`) | per session a sequence number, a replay ring, the set of clients | broadcastToSession, attach, replay, detach | one awaiting loop per event, slow clients, lost connections | each client sees each event once, in order, across reconnects |
| session registry and dialogs (`agent-runtime.ts`, `server.ts`) | resident map, parked dialogs, login controllers | openSession, closeSession, deleteSession, dialogs, login | check, await, set; the last client leaves during a turn | one writer per session file; no turn is killed; every dialog settles |
| locked stores (`auth-storage.ts`, `approval/approval-storage.ts`, `integration-account-storage.ts`) | a file, its lock, copies in memory | reload, set, remove, refresh, allow | several processes, a lock held across an await | no process's change is lost |
| workflow runner and journal (`core/workflows/`) | active runs, the log of each run | dispatch, run, step, stop | reload while runs are starting | every run is recorded and ends; stop reaches every run |
| integration runner (`core/integrations/runner.ts`) | per service a controller, a promise, a disposer | start, stop, emit | a producer that ends late or fails | one producer polls with an account |
| reload and shutdown (`agent-runtime.ts`) | the current integration and workflow runner | reload, buildSharedResources, cleanup | the old runner is captured, replaced and stopped at three places with awaits between, each of which may fail; a second reload or the shutdown may come meanwhile | nothing of an old generation goes on unnoticed; a reload ends |

How they interact: the harness calls `Session` for every message and every
pending write; the tools run inside the harness's loop and go through the file
mutation queue; the harness's events reach `broadcastToSession`; the server and the
workflows call the harness.  The first three components of the table are composed by
these calls alone: the harness model has the session as its `branch` (the path from
the root to the leaf), which `SessionStorage` shows to be what a storage object
keeps when one call follows the other, and the loop's tools as one step that
returns, which `CallsSettle` of `FileMutationQueue` justifies.  `Residency` decides which
session object the others speak of: its `turn` is a run of `AgentHarness` from `prompt()` to its end,
which `RunsSettle` justifies, and its `clients` are the set that `SessionEvents` iterates.
`Generations` composes the reload of the runtime with both runners.

The hazards list of `PROJECT.json` names each place where these behaviours bite and
the properties that watch it.

## The modules

### AgentHarness, MessageDelivery

`AgentHarness` has one action for each piece of code between two awaits.  `run[r].pc`
names the await at which the call `r` of `prompt()`/`skill()` is suspended; the rest
of `run[r]` is what its closures hold there: the messages taken from a queue and not
yet persisted, the array they came from, the write a flush is appending, how the
context ends.  `abort`, `write` and `struct` do the same for the calls of
`abort()`, of the setters and of `compact()`/`navigateTree()`.

| in the model | in the code |
|---|---|
| `phase`, `latch`, `runPromise`, `runAbort`, `lastAssistant` | `phase`, `_overflowRecoveryAttempted`, `runPromise`, `runAbortController`, `_lastAssistantMessage` |
| `steerQueue`, `followUpQueue`, `nextTurnQueue`, `queueGen` | the three arrays; `queueGen` counts how often `abort()` or `clearQueue()` put fresh arrays in place, because a drain that fails puts its messages back into the array it took them from |
| `pending`, `branch` | `pendingSessionWrites`, the session's path from root to leaf |
| `Prompt` ... `OuterFault` | `prompt`, `executeTurn` outside the loop |
| `InjectMessage` ... `ReportFailure` | `runLoop` with `handleAgentEvent`, `drainQueuedMessages`, `flushPendingSessionWrites`, `emitRunFailure` |
| `PostRun` ... `AutoCompactThrew` | `_handlePostAgentRun`, `_checkCompaction`, `_runAutoCompaction` |
| `Steer` ... `NavigateCancelled` | the operations of callers |

Any listener, hook or storage call may throw (`OuterFault`, `LoopFault`,
`EmitDrainFault`, ...), each time to where its catch clauses lead.  How a response
ends, whether a tool batch terminates, token counts and the compaction threshold are
choices.  An overflow that the post-run check leaves as it is, because auto-compaction is disabled or the model was replaced, is `PostRunLeft`; the run then goes
on only for queued messages.  `CallersWait` says whether callers start a run only when the last promise
has settled, or as soon as `isIdle` is true, which the code allows a little earlier.

`MessageDelivery` is the abstract specification of the queues: three channels that
deliver in order of acceptance; a message leaves by delivery, by being handed back, or
lost with a failing run.  `DeliversInOrder` is the refinement: a channel is what a run has taken
from the front of the array and not yet persisted (`Held`), then the array (`Waiting`).  The text of the run
itself, which follows the messages of the next-turn queue in its hands, is in no channel.

### SessionStorage

The file, the storage objects opened over it, and the calls of `Session`.  An append
reads the leaf and takes an id (`AppendEntry`, `MoveTo`), its line reaches the file
(`WriteLine`), the promise resolves and memory follows (`Acknowledge`); between these
steps other calls, a failed write (`WriteFails`) and a crash of the process (`Crash`)
may come.  A crash of the machine is not modelled: the append (`nodejs.ts:425-434`) is not fsynced, and lines that were acknowledged may then be missing.  A write cut short leaves nothing, a partial line, or a line without its newline,
and the next line is fused with either of the latter.  `generateEntryId()` takes the first eight
hexadecimal digits of a UUIDv7, which is time and therefore constant for 65 s, so `NewId` is a function of
the period and of the ids the object knows.

### FileMutationQueue, KeyedLock

`withFileMutationQueue()`: registrations are answered one at a time (`Register`), each
call waits for the call that registered under the same key before it (`behind`), works and
lets go (`Settle`).  The tools' operations on the file are single steps that may
fail, and a write truncates before it fills.  The key of a path is its real path if the
file exists then, else the path itself.  Keys are resolved and files are kept on the host; with `WOLLI_SANDBOX=docker` (`environments/container.ts:204`) the tools work inside the container while
the key still comes from the host (`file-mutation-queue.ts:23`), so a link that exists only there is not resolved.  No property speaks of that.  `KeyedLock` is the abstract lock, one line of callers per key;
`FirstComeFirstServed` is the refinement.

### SessionEvents

`Emit` gives an event its number, puts it in the ring and starts the loop that writes
it to the clients; `BroadcastStep` is the continuation of that loop after an awaited write.
The iteration over the live `Set` is `NextClient`: after those visited come the others in order of
insertion, also those added since.  `Attach`, `ReplayStep` and `Detach` are the route
`GET /sessions/:id/events`.  The network (`Accept`, and how much of what was
taken has arrived when a connection is lost) is external, as is Hono's stream, of which the model assumes
that writes settle in order, and at once when the stream is aborted.  `got[r]` is the frames that the reader
`r` has received over its past connections, `conn[r].out` those on the present one; the last event among the former is
what it names when it attaches again (`LastReceived`).  `raced` records that an event overlapped a replay, or that the ring had forgotten what was missed.

### Residency

One stored session and the daemon: `openSession()`, `closeSession()`, `deleteSession()` of `agent-runtime.ts`, against the
requests of `server.ts` that attach to the session, prompt it, answer its dialogs and go away.  A session object is a
number that is used again when nothing refers to it any more.

| in the model | in the code |
|---|---|
| `resident` | `_sessions.get(id)` |
| `clients`, `listening` | `sessionClients.get(id)`, the object behind the closure in `sessionUnsub` |
| `busy` | sessions with `isStreaming`, that is, a harness that is not idle |
| `dialog` | the parked dialogs of the session, those of the approval gate (a turn awaits them, they time out) and those of a workflow (neither) |
| `file`, `deleting` | the JSONL file, and how far `deleteSession()` is between its two awaits |
| `request[r]` | the stream or prompt `r`: which await it is at and the object it holds there |
| `AskToOpen`, `ReadFile`, `Build`, `Opened` | `openSession()`: look at the map, list and read the files, look again, build, put into the map |
| `Detach` | the abort listener of a stream: the last one to leave cancels the dialogs, unsubscribes and evicts an idle session |
| `DropEarly` | a stream that is lost while its open is awaited: nobody listens to the abort yet, so it joins all the same |

The history `loose` holds the objects that a second open displaced, that left the map while a
request held them, or that were opened during a deletion.  What happens to those is a hazard of the list and excused in the properties.

### CredentialStore, AtomicMap

`auth.json` and the processes that share it, each with an `AuthStorage`.  Loading, `set()` and `remove()` take the lock synchronously
(`StartChange`, `LockChange`, `Write`: the process does nothing else meanwhile, the others do); a refresh (`LockRefresh`, `Respond`) keeps it across its request
to the provider.  `approval-storage.ts` and `integration-account-storage.ts` have the synchronous part of it.

The lock is `proper-lockfile` and external.  `lock` is the lock file, `entry` the table each process keeps of the locks it has taken, `released` the lock objects marked as released in there.  The lock file counts as stale after 10 s for the synchronous calls; a refresh touches its own every 15 s, so
that a synchronous call may take the lock from a refresh that lives (`Acquirable`, `Robbed`).  The refresh learns of it later (`Notice`, which is
`onCompromised`), and until then its release removes the lock file of whoever has it now (`Release`, `Breaks`), so that a third operation gets in beside the second.  `Release` follows the library's `unlock()`:
it does nothing without an entry in the table or for a lock object already released, and does not look whose file it removes.  Taking over a stale lock is one step, as is a release: two processes that find the same stale lock
at once are not modelled.  Nor is an `auth.json` that is a symbolic link, for which `lock()` (line 147) and `lockSync()` with `realpath: false` (line 92) lock different files.  The file is looked for and created before the lock is taken (`EnsureFile`, `Create`).
A process that dies in the middle of a write leaves the file as it was, not JSON (`Torn`), or truncated, which is read like a file without entries.

`AtomicMap` is the abstract specification: a map that changes in one key at a time, and, once it cannot be read, is left for its owner to repair.
Its promise ends with `broken`: a file created over another one, a refresh that wrote after the loss of its lock before it noticed, or removed the lock file of its successor, or a file left truncated.

### Generations

`reload()`, `buildSharedResources()` and `cleanup()` of `agent-runtime.ts` with the producers of `integrations/runner.ts` and the runs of
`workflows/runner.ts`.  Each reload builds two runners, named by it; `pc` says which await it is at.  It captures the old integration runner (`Capture`), replaces
the runners one after the other (`Loaded`, `SwapWorkflows`), stops the captured one after further awaits (`StopPrevious`) and starts its own (`Start`).
`LoadFails`, `SwapFails` and `BindFails` are the throws between; `SwapFails` stands for all between the swap of the integrations and the stop (lines 1077, 1128, 1136).  There is one integration, so a runner has at most one `producer`; it is `running` until `run(ctx)`
has returned, then `live`.  `Tell` is the first half of `stop()` (abort, disposer), `StopEnds` the second (it has ended, or the grace period has).  `gen[r]` is the workflow
runner that executes the run `r`; a dispatch goes on to its next binding on the runner it has begun with (`NextBinding`).
Three histories say where the code promises nothing: `overlapped` (builds that met another one or the shutdown), `forgotten` (runners whose stop a failed
or overtaken build left out), `late` (runs that began after `stop()`).

## Runs

Every property of a passing run is known to fail when a plausible bug is put into
the code's model; those variants are in the modules, marked as mutants, and listed in
`PROJECT.json`.

| run | what it shows |
|---|---|
| HarnessQueues | one run, two queued messages, an abort, a clearQueue, one error at any await.  `Conservation`: each accepted message is in exactly one place and persisted at most once.  `DeliversInOrder`: the queues implement `MessageDelivery`.  `NoMessageStranded`: what was accepted while the run was winding down is delivered by it.  `AbortWaits`, `AbortsSettle`: abort returns, and only after the run it found |
| HarnessSession | a setter and an `appendMessage()`, whose entry is part of the context, compact and navigateTree around a run whose responses fail, overflow or call tools.  `WritesAccounted`, `QueuedWritesBetweenTurns`, `NoWriteLeftBehind`: pending writes are persisted once, at the flush points only, before the run ends.  `PhaseRestored`: whatever path is taken the harness accepts the next call.  `RecoversOnce`, `RetryContext`: overflow recovery |
| HarnessOverlap | a second run is accepted while the first is winding down, with one error at any await: messages are still conserved and every `prompt()` settles |
| SessionTree | two appends and a move, overlapping or not, two storage objects, a failed write, a crash.  `LinksResolve` and `PathsEnd` hold whatever overlaps; `AcknowledgedIsDurable` unless a write was cut short; `ReopensAtLeaf` and `IdsUnique` for calls made one after the other |
| FileMutation | a write and two edits over a file, a link to it and a missing file.  `FileExclusion`, `EditsAreAtomic`, `QueuesRemoved`, `CallsSettle`, and `FirstComeFirstServed`: the promise chains implement `KeyedLock` |
| SessionEvents | three readers and four events.  `LiveInOrder`: what a connection gets live is gapless and ordered.  `ReplayContinues`: so is what a reader has received over all its connections, those it replays on included, unless a live event overlapped a replay or the ring had forgotten |
| Residency | two clients, two prompts, a dialog and a deletion.  `TurnsKeepTheirSession`: neither the last client that leaves nor a deletion takes the session or the file from under a turn.  `ClientsHearTheSession`: whoever is connected gets the events of the resident session.  `DialogsHaveClients`: a dialog that was shown is cancelled by the last client that leaves.  `PromptsEnd`: a prompt ends though everybody left and nobody answers |
| CredentialStore | two processes, each with a refresh, a login and a logout; one may die.  `FileIsAtomicMap`: the file implements `AtomicMap` until the lock is broken.  `RefreshesOnce`: one refresh exchanges an expired token.  `LockIsLetGo`: on no path does a live process keep the lock |
| Generations | the start, two reloads that fail or overlap, producers that take their time, runs, a shutdown at any time.  `OneProducer`: a reload stops the old producer before it starts one.  `OldRunsAborted`: a run of a replaced generation is aborted.  `ReloadsEnd` |
| SessionFork, DoubleDelivery, TwoProducers | see [disagreements found](#disagreements-found) |

Only the last three state something the code does not do.

## Bounds

- Harness: one or two runs, two messages, two writes, one abort, one structural
  call, two responses that do not end the run (tool calls, overflows), one or two errors.  Two
  messages are needed for an order and for a rollback next to a later arrival; two responses for an overflow
  whose retry overflows again; two writes for a flush that goes on while the queue grows.
  One error reaches every catch clause around the queues; HarnessSession has two, so that reporting a failed run
  (`emitRunFailure`) can fail as well and the call rejects.  HarnessOverlap has one, so that a run dies beside another.
- Session: three calls and two objects allow every overlap of two writes with a third call that
  reads what they left, two periods of ids, one crash and one failure, before and after one another.
- Files: three calls, so that one can wait behind one that waits; three paths, two of them one file.
- Events: a ring of two and four events, so that the ring wraps around during a connection;
  three connections over three readers, so that a client can leave before, and arrive behind, a stalled one.

- Residency: two prompts over two opens make the double open; a second client joins while the first leaves.  Three objects may be in use at
  a time (`MaxObjects`; with four and five, of which four are used, the properties hold as well).  The invariants also hold with three clients and one prompt.
- CredentialStore: two refreshes for the race to exchange the token, a change of another provider and one of the same, one crash.  Three operations over two processes suffice for
  every take-over of the lock: one that holds it, one that takes it, one that comes after.
- Generations: two reloads beside the start, so that one may begin in, after a failure of, or after the other; one run at a time, as the runs do not see one another
  (with two at a time the invariants hold as well).

Calls of one kind are symmetric, and the runs without liveness use that.

## Fairness

`AgentHarness!Fairness`: every suspended call goes on, which says that
providers, tools, hooks, listeners and the storage return or throw.  Nothing in the code bounds how
long they take; without this assumption nothing can be said of settling.  No caller is
forced to call anything, to abort, or to fail.  `FileMutationQueue!Fairness`: an
operation on a file answers or fails.  `Residency!FairSpec`: file system and hooks answer, a turn ends when its dialogs have, the timer of the
gate fires; clients need not leave, answer or prompt.  `CredentialStore!FairSpec`: a process goes on until it dies, and a request to a provider is answered or fails;
nobody need notice the loss of a lock.  `Generations!FairSpec`: awaits settle and workflow handlers return; producers need neither return nor end.  The fairness of a build
is strong because the events it announces before and after are finitely many, one per session, while `Announce` may interrupt it without limit.
`SessionStorage` and `SessionEvents` have no fairness and check safety only.

## Proofs

TLC checks small instances; TLAPS proves the following for all values of the
constants, from the `ASSUME`s of the modules alone (which TLC evaluates in every run).

`AgentHarness_proofs`: `TypeCorrect`, the type invariant, for any number of calls, messages and writes.
It is not inductive alone, because an action that takes the first of the held messages needs one to be there.  `TypeInv` adds what
a suspended call holds (`Holds`): messages where the loop is about to persist one, the next-turn messages in front of its own text, the
messages of one queue while a drain is reported, the write that is being flushed.  One lemma per action, one step per conjunct.
`MessagesConserved`, `Conservation` also for calls that overlap: by `MessagesInv` the places of an accepted message are one place (`Placed`), each queue and each run
holds it once (`Once`), and a run has messages in its hands at five awaits only (`Carries`), so it drops none when it takes some.  Every action either leaves all
messages where they are (`Stay`) or moves a set of them to one place (`ToContainer`, `ToRun`); whether they were elsewhere before follows from `Placed`.  The constants
enter through one assumption, that a queued message is not the text of a run.

`HarnessCalls_proofs` speaks of callers that wait for one structural call to settle before they make the next
(`CallersWait`; for others some of it is false, see the first of the [further disagreements](#disagreements-found)).  `AbortsWaitForVictims` and `PhaseIsRestored` rest on `CallsInv`:

- `OneAtATime`: at most one run or structural call is in progress, and `runPromise` is that of the run;
- `IdleAfterEnd`: the phase is idle from `agent_end` until the next pass, and an auto-compaction will restore idle;
- `IdleWhenQuiet`: with nothing in progress the phase is idle, unless a listener of `compaction_start` threw;
- `AbortAwaits`: a victim of an abort that has not settled is in progress, and is the run the abort waits for.

Each action of a run is first shown to be a step that `RunAdvances` describes (the run goes on under its promise, or settles and
leaves the phase idle); the invariant is then kept by that description.

`RunsRecoverOnce` and `QueuedMessagesAttended` add `CourseInv`, which says of the run in progress (`Sound`) that it has recovered since its last fitting response only while
the latch is set (`OverflowOnce`), and that without a fault it is either before the response of its pass or knows that response (`Answering`).  The second is what the post-run
check needs: it looks at the queues only if it has seen a response.  A message can be queued only in a phase that is not idle, and then by `IdleWhenQuiet` a run is there to look.

`MessagesDeliveredInOrder` is the refinement of `MessageDelivery`, from `MessagesInv` and `CallsInv`.  Only the run in progress holds messages (`OneHolder`), so the start of a channel is
what that run has in its hands.  A drain and its rollback move messages between the two parts of a channel and leave the channel as it is; persisting a message takes the head of its channel, since what is held is ordered as it was queued;
a failing run loses what it holds, and `clearQueue()` and `abort()` hand back what waits.  Everything else leaves all channels alone.

`QueuedWritesAccounted` and `RunsLeaveNoWrite` add `WritesPart`: the queue holds a write once,
the one flush under way appends its head, and no write is pending once the last flush of a run has ended.  This needs `OneAtATime`: with two flushes the
head that one of them appends may have been shifted away by the other.

`WritesBetweenTurns` and `RetriesDropOverflow` add `TailInv`, which says what the branch ends on at each await of the run in progress (`Tidy`).  Where writes are flushed it does not end on a
response that calls tools.  While the latch is not set only the response just given may be an overflow (`BranchRight`): before the next request comes a
message, tool results, or the recovery that sets the latch.  So what precedes an overflow that sets the latch is none, and dropping that one response is enough (`RetryRight`); a second overflow finds the latch set and is not retried.
A response whose overflow no error reports clears the latch; both properties of the recovery exclude it (`silent`).

`SessionStorage_proofs`: `SessionTypeCorrect`, `LinksAlwaysResolve` and `AcknowledgedStays` for calls that overlap in any way, `IdsStayUnique` and `ReopeningFindsLeaf` for calls that follow one another.  `LinkInv` says that
what an object in use has in memory is linked (`ObjectKnows`) and in the file, as long as that can be opened; that a call under way goes through an object in use and links
to what that knows (`CallLinks`), and stays so because an object only learns entries; that the file is linked (`FileLinked`); and that only a write that was cut short
leaves it without a newline (`FileEnds`), so that no other write can damage a line (`AddedLine`).
`SerialInv` adds, for calls that neither overlap nor use a stale object, that what an object knows is the file up to some line, the whole file when a call begins (so the id it takes is in no line), and the
file but for the last line once the write has ended (`CallFits`); and that the only object in use knows the file or is about to learn its last line (`AloneKnows`).
`PathsAlwaysEnd` says that the walk to the root ends, for calls that overlap in any way and although an id may then be given to two entries.  An id is taken above all ids
its object knows in the order of period and number, and the parent is one of these, so parents descend (`RankInv`, which also says that whoever knows the full id of a period knows its short one, after which no short one is made).  A walk of more rounds than there are entries would meet an id twice, below itself.
Where an induction over the rounds would be used, the proof takes the least round that fails (`LeastNumber`).
`SerialAppendsDoNotFork` is the other half of the run SessionFork: as long as no call met another or used a stale object, each append goes below the leaf of its object (`OnLeaf`).

`FileMutationQueue_proofs`: the inductive invariant `QueueInv` and from it `QueueTypeCorrect`, `QueuesAreRemoved`, `CallsExclude`, `EditsStayAtomic` and `FirstCome`.
Mutual exclusion is not inductive alone: the next caller may start because its predecessor has let go, so one must know that
everybody before that one has, too.  `QueueInv` says

- `Known`, `TicketsDiffer`: calls under a key carry different tickets in the order of registration;
- `Chained`: a call waits for the one with the greatest ticket below its own under its key, and nobody comes between;
- `Turns`: a call that works has nobody before it that has not let go;
- `Tails`, `Entries`: the map names the last call of a key until that has settled, and then nothing.

Two calls that work under one key would each be before the other.  `CallsExclude` then
needs that two paths of one file have one key.  That holds if a path through a link leads
to a file that existed from the start (`AliasesExist`); without it it is false: two names of a file that does not exist yet have two keys.
`EditsStayAtomic` follows from it, because nobody else works on the file between the read and the write of an edit.  `FirstCome` is the refinement of `KeyedLock`: the line of a key is its calls that hold a place, by ticket.
Registering takes the greatest ticket and so appends to the line; `Turns` makes the call that starts, or settles, its head; every other step leaves all lines alone.  Places in the line are counted with `FS_Injection`, without induction.

`Residency_proofs`: `SpecTurnsKeepTheirSession`, `SpecClientsHearTheSession` and `SpecDialogsHaveClients` for any number of clients, prompts and dialogs.  A turn starts on the object that
a request has held across awaits, so one must know of those: `HeldKnown` says that it is resident or loose, because what leaves the map while it is held becomes loose.
`FileBacked` says that once a deletion has begun only loose objects are in the map; `Listens` and `Joined` relate the broadcaster to the clients.

`CredentialStore_proofs`: `SpecFileIsAtomicMap` is the refinement, for any number of processes, calls, providers and crashes.  Every step is a step of `AtomicMap`
or a stutter because of `CopiesCurrent`: unless something is broken, a live operation that is about to write has the lock and its copy is the file.  Whoever takes the lock over takes it
from a dead process or robs a refresh, which is then no longer a `Writer`.  That a release leaves the lock file of another live operation alone is not
given but proved: who still has the lock removes its own (`CopiesCurrent`), a refresh that has noticed removes none, and when one that has not noticed removes that of another, `broken` is set (`ReleaseKeeps`).  `SpecRefreshesOnce` adds that an exchanged token is in the file until a change replaces it by one that is not expired.

`Generations_proofs`: `SpecOneProducer` and `SpecOldRunsAborted` for any number of reloads and runs.  `Overlaps`: of two builds under way both count as overlapped.  `Current`: a build that is
not has the current runner, and before the swap the runner it has captured is current.  `Watched`: a producer that was not told to stop is current, or captured by a build that will stop it.
For the runs, `RunsHeard` and `RunnersServed`: a runner that is no longer current was stopped, and the active runs of a stopped one were aborted or began late.

The type invariants of these three are part of their inductive invariants, and proved rather than run.

`SessionEvents_proofs`: `EventsTypeCorrect`, `LiveEventsInOrder` and `ReplayResumesTheStream`, for any number of readers, connections and events and a ring of any size.
That a connection gets events in order is not inductive: the loops of several events are suspended at different clients, and one must know that none overtakes another.  `LiveInv` says

- `ClientsOn`, `LoopsKnown`: the clients are the connections that are on, each once, and a loop has visited connections that there were;
- `Prefix`: a loop has visited the clients up to the one it writes to, and none behind it;
- `Ordered`: the later of two loops has visited nobody that the earlier one has not, and stops where the earlier one is;
- `GoneFirst`: when a client leaves, the loops that write to it go on before all others, so that a loop which has lost its place with that client is not passed;
- `SentByLoops`: a connection was sent an event after its watermark exactly if the loop of that event has visited it or has ended.

`Ordered` needs that a client arrives at the end of the set and leaves only when every settled write has been dealt with.
`ResumeInv`, for the replay, says that the ring is the last events without a gap (`RingIsTail`), that a connection has named the last event its reader received (`Named`), and that
while nothing has raced, its frames go on after that event: the replayed ones as far as the index into the ring has come, then the live ones (`Resumes`).  A connection may lose its end at any frame, and what is left still goes on (`JoinedInOrder`).
`DisjointUnlessRaced` is the other half of the run DoubleDelivery: while nothing has raced no connection gets an event twice.

Only model-checked: the liveness properties, that is `AbortsSettle`, `RunsSettle`, `CallsSettle`, `PromptsEnd`, `LockIsLetGo` and `ReloadsEnd`.  Liveness under fairness is beyond
the prover.  All invariants, refinements and other action properties of the passing runs are proved, those of the harness that speak of one call at a time under `CallersWait`.

## Disagreements found

Three are runs that TLC ends with a counterexample.

- **SessionFork** (`agent-runtime.ts:1836`).  Names, labels, tags and custom entries are appended without waiting; an append that overlaps another
  takes the same parent, so the entry acknowledged first is no longer on the branch.  The comment at `agent-runtime.ts:1673` says "no tree fork".
- **DoubleDelivery** (`server.ts:521`).  A client that attaches while an event is being written to another one gets it live and by replay.
  The comment at `server.ts:819-820` says "no double-delivery".
- **TwoProducers** (`agent-runtime.ts:1029`, `1062`, `1145`).  A reload that begins while another one is between the swap and the stop captures the new runner, which has nothing to stop yet; then both start a producer.
  `packages/wolli/docs/integrations.md:100`:
  "A reload stops the old producer before starting the new one, which is what keeps a single poller on the token."  What the trace does not show: a reload that threw between the swap and the stop, for instance in the constructor
  of the workflow runner for a workflow whose trigger is undefined, leaves the old producer running as well (`forgotten`).

The models reach the following as well.  The properties name each as an exception, and no run of its own is kept for it.

- Two runs that overlap (`agent-harness.ts:507`).  The phase is idle from `agent_end` on, before the run's last flush.  A second
  run accepted there flushes at the same time; both append the same write, then shift twice, and the second shift drops a write that
  was not persisted.  `packages/agent/docs/agent-harness.md:305` says writes "are not dropped".  The end of the first run also clears the field `runPromise` (line 349), which
  by then holds the promise of the second: an `abort()` that comes next finds no run to wait for and returns while the second goes on.
- An overflow that is left as it is, with auto-compaction disabled or the model replaced, and a queue that is cleared before the next poll: the run goes on with the overflow
  in its context, and if it is answered by another overflow that is recovered, the retry drops the second response only (`agent-harness.ts:637`) and its context ends in the first.  `RecoversOnce` and `RetryContext` exclude it, as they do overflows
  that no error reports (`silent`).
- An abort that is not heard (`agent-harness.ts:1355`).  Before a pass has its controller, `abort()` has nothing to abort; it waits while
  the run goes on to call the provider.  `agent-harness.md:200` says it aborts the run.
- A torn last line (`jsonl-storage.ts:154`).  After a crash within a line the loader rejects the whole file.
  `packages/wolli/docs/introduction.md:72`: "every conversation survives".
- Two names of one file (`file-mutation-queue.ts:25`).  If it does not exist yet they have two queues.
- A double open (`agent-runtime.ts:897`).  Two requests that find the session not resident both build an object; the second displaces the first, whose
  turn and listeners stay behind.
- A prompt in its input hook (`agent-runtime.ts:1514`).  It does not stream yet, so the session can be evicted or deleted under it; the turn then runs on an
  object that is not in the map, and its first append creates a file without a header.
- A dialog that nobody was shown (`server.ts:620`).  One that is parked while nobody is attached is not sent to the client that attaches later.
- The lock of the credentials.  The file is created outside the lock (`auth-storage.ts:80`) and may replace one that was written meanwhile; a synchronous call may take the lock from a
  refresh that lives, as above, and that refresh may then remove the lock file of its successor (`auth-storage.ts:172-180`): a third operation gets in, and a login may be lost without anybody noticing.  Without the conjunct
  `Breaks` of `broken` TLC finds this as a violation of `FileIsAtomicMap`.  A truncated file is read like an empty one, and the next change writes that back.
- A producer that connects for longer than the grace period (`integrations/runner.ts:379`).  The disposer it returns afterwards is never called, though `integrations.md:100` says of abort
  and disposer that "both fire on every stop".

## What is not modelled

Contents of messages, models, tokens, tool arguments; the text matching of an edit; keepalives and unnumbered frames of the event stream.  Of components that are
modelled in part:

- registry: the dialogs of a login; what an open does to the environments of a session.
- stores: the fallback tier of credentials and values from the environment; the text of approval rules (a pure function of the rules); the key-value files of integrations.
- workflow runner: callables, actions, and the steps of a run with its journal.  The journal is a list and a chain of appends whose failures are swallowed; nothing reads it back, so no
  property of the system depends on it.
- integration runner: more than one integration (they share nothing but the loop over them), validation, actions.
- agent loop: tool calls of one batch, which are one step of the harness; the tools with a shared state are in `FileMutationQueue`.

The parts of the system that are left out, with the reason for each, are the components marked `not_modelled` in `PROJECT.json`:
rendering (terminal client, apps), pure I/O (services, plugins, environments), tables (models, settings), pure functions without a state
(the compaction cut, approval rules), the driver the daemon does not use (`agent.ts`), and `packages/coding-agent`, the package the harness was derived from.
The last and the terminal client are most of the repository's lines.

An event emitted while no client is attached gets no number (`server.ts:513`), so "gapless" in `SessionEvents` speaks of numbered
events.  `broadcastToSession` is modelled for a resident session: the awaited `openSession()` before an attach is in `Residency`.

## Plan

What is left, in order of importance:

1. Login dialogs in `Residency`, with the controller that a second login replaces (`server.ts:281`).
2. The cut of `compaction.ts` and the fork of `jsonl-repo.ts` as pure functions against reference definitions.
