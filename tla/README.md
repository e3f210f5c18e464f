# A verification of openclio

openclio is a personal AI agent in one Go process: a gateway (REST, server-sent
events, WebSocket) and chat channels bring messages in, an agent loop turns each
into calls of a model and of tools, SQLite keeps sessions and messages, and
background goroutines run scheduled jobs, supervise channels and tool servers and
rotate the log. This directory holds TLA+ models of the parts whose behaviour
depends on the order in which goroutines, database statements, external processes
and crashes take their turns, the TLC runs that check them, and proofs that hold
for every size. `PROJECT.json` maps every definition to the lines it stands for.

1. [The system](#1-the-system)
2. [Modules and how they correspond to the code](#2-modules-and-how-they-correspond-to-the-code)
3. [Runs: what each checks and shows](#3-runs-what-each-checks-and-shows)
4. [Bounds](#4-bounds)
5. [Fairness](#5-fairness)
6. [Proofs](#6-proofs)
7. [What was found](#7-what-was-found)
8. [Not modelled](#8-not-modelled)
9. [Plan](#9-plan)

## 1. The system

### Inventory

| Component (source) | State it keeps | Operations | What makes it hard | What makes it correct |
|---|---|---|---|---|
| **Cron scheduler** (`internal/cron`, `storage/cron_jobs.go`) | rows of `cron_jobs`; registry of jobs; a timer per job (entry of the cron library or trigger goroutine); marks of running jobs | create, update, delete, enable, disable, run now, fire, start, stop | table and registry change in separate steps; a job can be started by three kinds of goroutine; stop and crash at any moment | timers follow the registry, the registry follows the table, one run per job, one shared session, stop ends |
| **Channel adapter manager** (`internal/plugin/plugin.go`, adapters, connect handlers in `cmd/openclio/main.go`) | adapters by name, channels, status; restart counter and delay per supervisor | register, run, restart with backoff, health check, connect, disconnect, stop | several instances of one name; unserialised handlers; a lock held while waiting | one owner per channel, true status, backoff schedule, ended means ended, stop ends |
| **MCP client and supervisor** (`internal/mcp`, `main.go` 1719-2046, 2347-) | connection, request counter, exit channel; failures, delay, restart in flight, disabled | call, start, stop, watch exit, health check, restart | a server process that answers late, never, out of order, or dies; three actors that restart it | own answer to each request, one process, one restart at a time, every crash dealt with |
| **Conversation turns** (`gateway/handlers.go`, `ws.go`, `plugin/router.go`, `storage/messages.go`, `sessions.go`, compaction in `agent/agent.go`) | sessions, messages, compacted marks; active runs; session cache; compactions in flight | chat, receive, inject, abort, compact, delete | turns of one session run at once; time stamps and ids in different orders; crash in a compaction | every run can be aborted, no message is lost from the history unsummarised |
| **Rolling log** (`internal/logger/rotate.go`) | file, its size as remembered, backups | write, rotate, clean up, reopen | cleanups without the lock; half-failed rotation | the limit holds, exactly the newest backups stay |
| **Agent loop, model calls, providers** (`internal/agent`) | messages of a call, turn and retry counters, the channel and the goroutine of a stream | run, stream, sub-task, retry, fail over, run a tool | retries around failover around vendors with different forms; a stream that is cut or abandoned | each tool call gets its result once and in order, a turn fails only when all providers have, a cancelled call ends |
| **Delegation** (`agent/delegation.go`) | goroutines behind a semaphore, results, a timeout | delegate, report, synthesise | the timeout races permits and late answers | every sub-task is accounted for, permits come back |
| **Provider switch and configuration** (`main.go` 441-, `internal/config`, `gateway/handlers.go`) | `Config`, presets, `config.yaml`, `.env`, running provider | switch, roll back, set up, update, save, start | two locks over one `Config`, one temporary file | what runs is what was chosen last, across failures and restarts |
| **Context engine** (`internal/context`) | none of its own; reads messages and embeddings | allocate budget, assemble | rounding; the session changes between two reads | the parts make up the whole, what is assembled fits, nothing twice |
| **Sender allowlist** (`plugin/allowlist.go`, `openclio allow` and `deny`) | approved senders in memory, in a file | approve, revoke, load, save | overlapping saves through one temporary file; the command line as a second process | approvals survive restarts |
| **WhatsApp adapter** (`plugin/adapters/whatsapp`, `tools/message_send.go`) | device session on disk, client, pairing, handlers | connect, pair, restart, check, reset, send | pairing, health and restarts overlap; sends are retried | what is reported sent was taken, a text is heard once |
| **Sign-in with a vendor** (`gateway/oauth_*.go`) | pending states, token file | start, callback, refresh, sign out, `auth login` | refresh overlaps sign-out and callbacks; a file written in place | a verifier is used once, who signed out stays out |
| **Message delivery** (`plugin/plugin.go`, `router.go`, adapters) | the inbox, a queue of replies per adapter | hear, handle, send, deliver | a goroutine per message; queues outlive their readers | a queued reply leaves, and in its turn |
| **Migrations** (`storage/migrations.go`) | schema, recorded versions | migrate | every command migrates; several at once, of several releases | each migration is applied once |
| **Action log and undo, patches** (`tools/write_file.go`, `edit_file.go`, `apply_patch_impl.go`, `storage/action_log.go`, `main.go` 1059-) | files, log of before-images, backups and manifest of a patch | write, edit, patch, roll back, revert, undo | a change and its record are two steps; agents overlap | undo and revert go back to what was there |
| **Commands and background processes** (`tools/exec.go`, `process_impl.go`) | process, pipe, copy, deadline | run, spawn, copy, wait, kill | descendants hold the pipe; the wait overtakes the copy | all output is kept, `exec` returns |
| **Workspace** (`internal/workspace`) | texts of the prompt and their checksums; skill files | refresh, take, rename; install, toggle, delete, seed a skill | the owner's editor; two files per skill and no lock | the prompt is fresh, a skill is as it was left |
| **Agent profiles** (`storage/agent_profiles.go`) | profiles, the active one, bindings of sessions | create, update, activate, delete, bind | several transactions per request | the active profile is the one last chosen |
| **Knowledge graph and memory** (`storage/knowledge_graph.go`, `tools/kg_impl.go`, `main.go` 914-) | nodes, edges | ingest, add, delete, `memory edit` | the owner's edit is a second process, row by row | one node per name, corrections stand, no dangling edges |
| Gateway server, rate limiter (`internal/gateway`) | a window per client, under one lock | allow, clean up | | see [8](#8-not-modelled) |
| Everything else | | | | I/O, formats, prompts: see [8](#8-not-modelled) |

### How the parts interact

* The gateway and the channel router call the agent; both store messages first and
  the answer afterwards. Nothing but SQLite orders two turns of one session.
* Gateway handlers call into the scheduler and the adapter manager while these run
  and while they stop: `runServe` stops them before the process ends, not before the
  last request. Hence calls are allowed in every phase in `CronScheduler`, and a
  connect can come in during shutdown in `AdapterManager`.
* Adapters put messages on one inbound channel and take answers from a channel the
  manager made for their name; the name is the only link.
* The scheduler runs jobs through the agent, in sessions of the same tables.
* Tool calls reach MCP servers through `Server.mu`, which a request holds until its
  answer is read. Supervisor, watcher and operator need the same lock.
* One run of the agent is a chain of modules: `Conversation` stores the question,
  `ContextBudget` and `Persona` make the prompt, `ToolLoop` asks the model and calls
  tools, which are `FileActions`, `Commands`, `McpServer`, `KnowledgeGraph` or
  `Delegation` (whose sub-tasks are `ToolLoop` again, in mode `sub`), and `Delivery`
  brings the answer back to a channel.
* Files and tables are shared with other processes: the owner's editor (`Persona`),
  `openclio allow` and `deny` (`SenderGate`), `undo` (`FileActions`), `auth login`
  (`SignIn`), `memory edit` (`KnowledgeGraph`), and any command's start
  (`Migrations`, the seeding in `Skills`).
* A crash loses everything but the database, the log files and the configuration.
  Start-up rebuilds the rest, configuration first.

## 2. Modules and how they correspond to the code

Common conventions. A step is the longest piece of code between two points where
another goroutine can be seen: one database statement, one critical section, one
event of an external process. A goroutine's place in a handler is a `step` field,
named for what comes next, with the local variables that are still needed. Bounding
constants are marked "(a bound)" where they are declared; the others come from the
code. A definition whose comment begins "Mutant of" is the same operation with a
plausible mistake. The specification does not use it; it is there to show that the
properties notice the mistake.

| Module | Extends | Role |
|---|---|---|
| `CronScheduler` | | scheduler, table, runs, shutdown, crash |
| `MCCronScheduler` | `CronScheduler` | values and symmetry for TLC |
| `CronSchedulerProofs` | `CronScheduler` | typing, mutual exclusion, one shared session; timers, registry, table and configuration agree |
| `AdapterManager` | | supervisors, health loop, handlers, shutdown |
| `MCAdapterManager` | `AdapterManager` | values for TLC |
| `AdapterManagerProofs` | `AdapterManager` | typing, restart schedule, quiet after stop, own channels |
| `McpServer` | | one server process, client, supervisor, start-up |
| `Conversation` | | turns, active runs, messages, compaction, deletion |
| `MCConversation` | `Conversation` | symmetry for TLC |
| `ConversationProofs` | `Conversation` | typing, runs can be aborted, marks, what compaction does to a history |
| `MCByHand` | `MCConversation`, `FileActions` | checks what is asked for by hand: `/compact`, undo and reverts |
| `RollingLog` | | the log file and its backups |
| `McpServerProofs` | `McpServer` | typing, one restart, one process, own answers, true status |
| `ToolDialogue` | | what a vendor is promised: the abstract specification of a call |
| `ToolLoop` | instance of `ToolDialogue` | turns, tools, retries, failover, streams |
| `Delegation` | | the fan-out of sub-tasks |
| `ProviderSwitch` | | provider, configuration and its file |
| `FileActions` | | tools that change files, undo, patches |
| `Commands` | | `exec` and `process_spawn` |
| `SenderGate` | | the allowlist and its file |
| `WhatsApp` | | session, pairing, adapter, sends |
| `SignIn` | | OAuth states and the token file |
| `ContextBudget` | | the budget and the assembly of a context |
| `Persona` | | workspace files in the prompt |
| `Skills` | | the two files of a skill |
| `Profiles` | | agent profiles and bindings |
| `Delivery` | | inbox, handlers, queues of replies |
| `KnowledgeGraph` | | nodes, edges, `memory edit` |
| `Migrations` | | start of commands over one database |
| `MCServices` | `RollingLog` and the fourteen modules from `ToolLoop` to `Migrations`, without `FileActions` | checks them in one run |
| `RequestProofs` | `MCServices` | budget and context; calls of tools, streams, the dialogue |
| `FilesProofs` | `MCServices`, `FileActions` | files that tools change; the rolling log |
| `ChoicesProofs` | `MCServices` | provider, sign-in, senders, skills, profiles, memory |
| `AnswersProofs` | `MCServices` and the three above | commands, WhatsApp, delivery, sub-tasks, workspace, schema; the types of all fifteen parts |

### CronScheduler

`db` is the table, and survives `Crash`. `jobs`, `entryIDs`, `triggerCancel`,
`started` and `running` are the fields of `Scheduler`. `timers` holds what exists
outside them: entries of the cron library and goroutines of `runTriggerLoop`, each
with the copy of the job it captured, which is what it runs, whatever the registry
says by then. A cancelled loop keeps existing until it notices, and may fire once
more, since `select` picks at random among ready cases.

A call of the API goes through `CreateCheck`, `CreateInsert`, `CreateRegister`,
`CreateRollback`; `CheckReadOnly`, `UpdateRead`, `UpdateWrite`, `Replace`;
`SetEnabledWrite`, `SetEnabledReread`, `Replace`; `DeleteErase`, `DeleteUnregister`:
one action per statement or critical section of `CreatePersistent`,
`UpdatePersistent`, `SetPersistentEnabled` and `DeletePersistent`. `Register` and
`Unregister` are the critical sections of `addOrReplaceJob` and `removeJob`.
`runJob` is `Mark`, `SelectSession`, `CreateSession`, `AgentReturns`, `Clear`, with
`SessionFails` for its early return. Start-up is `AddConfigJobs`,
`LoadPersistedJobs` (or `LoadFails`), `Start`, in the order of `runServe`; a row
that is not valid is skipped.

A run of the agent may come to a tool that does not look at its context
(`ToolHangs`): nothing then makes it return (`ToolReturns` is a step that need never
come), and the properties say what such a run holds up.

The ghost `dirty` collects the names on which two calls overlapped or a failing
statement cut a call short. On these the code really does diverge, which is what
`DeletedJobsAreUnregistered` shows; `QuietJobsAgree` says that nothing else does.

### AdapterManager

`sup[i]` is the goroutine `runWithRestart` of an instance: `Top`, `Count`, `Backoff`,
`Mark`, then `Start` of the adapter (`Connected`, `StartFails`, `StartReturns`), then
`Failed` or `Clean`. `health` is `healthCheckLoop`. `calls` are the connect and
disconnect handlers of `runServe`, one action per call they make on the manager.
`Manager.mu` is not a variable: every critical section is one step, except that
`Stop` keeps a read lock until `wg.Wait` returns. `LockFree` is the guard of every
step that takes the lock for writing, and false exactly then.

What distinguishes one adapter from another here is whether its `Start` looks at
the channel its `Stop` closes (`IgnoresStop`: telegram's does not) and whether
connecting may take so long that a failure counts as a long life (`SlowConnect`).

### McpServer

One server over stdio. `proc` is the process of each launch (a *generation*), with
`asked` the requests it has not been seen to answer; `cmd`, `exitCh`, `nextID` are
fields of `Server`; `mu` is its lock, held across steps only by a request that waits
for its answer. Actors are the main goroutine (start-up, afterwards the health
ticker), the exit watcher, callers of tools and the operator. `act[a]` says what an
actor is in the middle of and for which purpose, so one set of actions (`Write`,
`Read`, `Spawn`, `Install`, `StopBegins`, ...) serves all callers of `callLocked`,
`Start` and `Stop`, and `AfterAnswer` / `AfterError` say where each goes on. `sup` is
`mcpRuntimeState`; `HandleFailure`, `RestartFailed`, `RestartSucceeds`,
`MarkHealthy` are its critical sections.

The process is the environment: it answers what it was asked in any order (`Read`
takes any member of `asked`), says things nobody asked for (id 0), and exits at any
time. A context that expires is noticed only between two reads, as in the code.

### Conversation

A turn is a chat request, a message of the channel, or an injected message. `Chat`,
`Receive` and `Inject` find or make a session; `Stamp` reads the clock and `Insert`
runs the statement, two steps since that is what lets concurrent inserts overtake
each other; then `Register` (API turns only), `Assemble`, `Answer`, `Stamp`,
`InsertAnswer`, `Clear`. `Abort` and `CancelAborted` are `abortActiveRun`, which takes the
run out of the registry under the lock and cancels it afterwards. `Trigger` is
`maybeTriggerCompaction`, `ForceCompaction` the command `/compact`, which neither looks
at the mark of the session nor sets it, and `CompactRead`, `CompactAsk`, `CompactInsert`,
`CompactArchive` are the statements of `runCompaction`: old messages are chosen by
`created_at` and archived by `id`. `Delete` removes a session and, on a connection
that enforces foreign keys, its messages.

Ghosts: `summarised` and `twice` are the ids that one and that two summaries cover,
`cut` the sessions whose compaction ended between its summary and its archiving, and
`contested` the ids that a compaction by hand had in hand together with another.

### RollingLog

`Write` and `RotateAndWrite` are `Write` with and without a call of `rotate`, each
under the lock from start to end. A rotation may fail before the rename, after it,
or not at all. `List` and `RemoveSurplus` are `cleanup`, which holds no lock. `size` is the
field of the writer, which is not the length of the file: that is the point of the
proof (see "Seen while reading" in [7](#7-what-was-found)). Backups are numbered in the order of the time stamps in
their names.

### ToolLoop and ToolDialogue

One call of the agent. `mode` says which of its three loops: `Run`, `RunStream`,
`runSubTask`. `StartCall` to `LastTurn` is a turn with `ProviderFails`, `Again`,
`NextProvider` and `BackoffEnds` for `retry.go` around `failover.go`; `RunTool` is one
tool of the turn, `ToolHangs` one that ignores the context, which may never return
(`ToolReturns`); `NextIteration` the loop. For streams, `producer` is the goroutine
that reads the vendor (`ReadText`, `ReadBlock`, `ReadLast`, `ReadEnd`, `ReadFails`),
`chunks` its channel, and `TakeChunk`, `ChannelClosed` the loop's `for range`.
A message is its role and the tool calls it makes or answers. `OpenAIMessage`,
`AnthropicMessage`, `GeminiMessage`, `OllamaChatMessage`, ... say what each vendor's
form keeps of these, and `OpenAICalls`, ... which identities its answers carry: a
conversion here is what it drops.

`ToolDialogue` states what the vendor is promised: a turn that calls tools is followed
by one result for each call, in their order, before the model is asked again, and it is
asked a bounded number of times. `ImplementsDialogue` is the refinement: the mapping
takes `speaker` from `step`, the calls still `owed` from the messages themselves (those
of the last turn whose results are not yet there, in order), and counts `turns` in them.
`ResultsFollow` and `SameIdentities` say what a request must look like, message by
message; `Orders` are the ways of putting the blocks of Anthropic's stream in order, as
a map of Go does.

### Delegation

`sub[t]` is the goroutine of a task: it queues for a permit (`AcquirePermit`,
`GiveUpWaiting` when the context is done), reports, releases, and tells the wait group.
`Expire` is the timeout or the caller's departure; `Gather` is `wg.Wait`. `SubHangs` is a
sub-task inside a tool that ignores the context: it holds its permit until it returns,
if it does.

### ProviderSwitch

`config`, `presets` and `running` are in memory, `saved`, `temp` and `keys` on disk.
The operations are the tool's switch, the dashboard's setup and any of its updates,
which hold different locks or none; each goes through `SetModel`, `BuildProvider`,
`Publish` and the steps of `Config.Save` (`Marshal`, `OpenTemp`, `FillTemp`,
`RenameTemp`, `SaveFails`). A file descriptor follows the file that was renamed under it
(`Moved`), since two saves share one temporary name. `RestartProgram` is a crash at any
point and the start that reads the file.

### FileActions

`disk` is what each file holds; `actions` the table. `write_file` reads the file for its
record, writes, and then records (`ReadBefore`, `WriteText`, `RecordWriteFile`);
`edit_file` writes without a record; `apply_patch` plans (`PlanPatch`), backs up and
writes item by item (`BackUpItem`, `WriteItem`), then writes its manifest
(`WriteManifest`). A patch that fails and a caller who asks for it (`RevertPatch`) come
to the same loop, one file at a time (`RevertItem`, `RevertEnds`), which ends at the
first file that it cannot restore: the patch is then "stopped" half way, which a patch
that failed tells nobody. Every write, removal and copy may fail, those of `Undo`
included. The ghosts `past`, `undoable` and `tainted` say what undo
ought to bring back, and of which files nobody can say.

### Commands

A shell, a pipe, the goroutine that copies it, perhaps a descendant that keeps it open,
and the deadline. `LimitedWrite` is what the limited buffer answers the copy: a short
count, which ends it. `Reap` and `RecordExit` are `Wait`, which closes the pipe.

### SenderGate

A change is the critical section of `ApproveOrRevoke`, the snapshot, and the three steps
of the write; `RunAllowCmd` is the same in a process that has read the file on its own.
The ghost `decided` is the owner's last word, `raced` and `aside` mark where two changes
met or the command line passed the server by.

### WhatsApp

`device` is the session file; `adapter` its life under the manager; `qrEvent` what the
pairing last said; `handlers` how many event handlers the client has. whatsmeow is
external: the socket changes freely (`SocketChanges`), a pairing ends with any outcome
(`PairingEnds`), an attempt of a send with any, taken by WhatsApp or not (`Attempt`).

### SignIn

A state is consumed under its lock (`CallbackBegins`, `Consumed`), its code exchanged,
the token file opened (which empties it) and filled, in steps that may fail; `refresh` is
a provider being built, `login` the command with its own server. The ghosts count
exchanges per verifier, keep the sign-ins whose token was written (`tokenKept`), and
note whether the owner is `signed` out and who was getting a token at that time (`late`).

### ContextBudget

`AllocateBudget` is `Allocate` with its integer divisions. `LoadRecent`, `Retrieve` and
`AddKnowledge` are the statements of `Assemble`; between them messages are inserted,
embedded and archived by other turns. At the end the question is appended (`asked`),
which its caller has stored and `LoadRecent` may have read back. Texts are their token counts; which messages are
similar is any choice.

### Persona and Skills

`Persona`: a run looks for changed files (`LookForChanges`), reloads under the lock
(`LoadIdentity`, `LoadDisplay`, `AssignFields`) and takes the fields without it
(`TakeField`). `window[r][f]` collects what a file held while run `r` looked; `emptied`
are the files that were blank or gone since their checksum was taken. An `identity.md`
that cannot be read ("sealed") counts as an empty one and keeps `SOUL.md` out.
`Skills`: the enabled and the disabled file of one skill, and requests that look, write,
rename and remove in steps, each of which may fail, the removal of the stale form
without anybody's notice; `settled` is how the last request that nothing overlapped left
them.

### Profiles, KnowledgeGraph, Migrations

Tables. `Profiles` has one action per transaction of a request; `second` is the clock of
`datetime('now')`, so that two updates may carry the same time. `KnowledgeGraph` has one
action per transaction of ingestion, tool and dashboard, and one per row of `memory
edit`; whether a deletion cascades depends on the connection it gets. `Migrations` has a
step for reading the version and one for each migration of each process; `Accepted`
says when the database takes it, which depends on what other processes have applied
since and on whether its statements may be repeated.

### Delivery

`inbox` is the shared channel, `handling[m]` the goroutine of a message, `outbox[l]` the
queue made for the adapter registered as the `l`-th, and `hands[l]` the goroutines that
its `Start`s have left to deliver. It has of `AdapterManager` what replies can tell:
registration, starts, failures, stops and replacement.

### MCByHand

`Conversation` and `FileActions` share no variable either, and what they have in common
is who asks: the owner at the command line. The run chooses at the start which of the
two moves.

### MCServices

The fifteen small modules share no variable, so no step of one enables or disturbs a
step of another. The run chooses at the start which of them moves: the state space is
the sum of theirs, and every property is checked as if the module were run alone. The
conjunctions `CallsAreAnswered`, `CallsEnd`, `ChoicesSurvive` and `AnswersAreTrue` group the modules' properties by what a user would call them.

## 3. Runs: what each checks and shows

| Run | Module | Checks | Result |
|---|---|---|---|
| `cron_api` | `MCCronScheduler` | `TypeOK`, `TimersMatchRegistry`, `EnabledJobsAreArmed`, `ConfigKeepsPrecedence`, `QuietJobsAgree` | hold |
| `cron_runs` | `MCCronScheduler` | `OneRunPerJob`, `SharedRunsShareOneSession`, `RunningIsReleased`, `StopIsFinite`, `LoopsEndAfterStop` | hold |
| `cron_delete` | `MCCronScheduler` | `DeletedJobsAreUnregistered` | violated |
| `adapters` | `MCAdapterManager` | `TypeOK`, `BackoffSchedule`, `StatusIsTrue`, `OwnChannel`, `StoppedMeansQuiet`, `DisconnectedStops` | hold |
| `adapters_stop` | `MCAdapterManager` | `StopEnds` | violated |
| `mcp` | `McpServer` | `TypeOK`, `OneRestart`, `OneLiveProcess`, `AnswersMatch`, `OfflineMeansDisabled` | hold |
| `mcp_recovery` | `McpServer` | `RestartEnds`, `CrashIsNoticed` | hold |
| `mcp_startup` | `McpServer` | `StartupFailsFast` | violated |
| `chat` | `MCConversation` | `TypeOK`, `RunsCanBeAborted`, `ArchivedAreSummarised`, `SummarisedOnce`, `MarksMatchCompactions` | hold |
| `chat_delete` | `Conversation` | `MessagesGoWithSession` | violated |
| `by_hand` | `MCByHand` | `SummarisedOnce`, `UndoGoesBack`, `PatchGoesBack` | hold |
| `services` | `MCServices` | `ServicesTypeOK`, `FileWithinLimit`, `BackupsKept`, `CallsAreAnswered`, `ChoicesSurvive`, `AnswersAreTrue`, `ContextFits`, `ImplementsDialogue`, `CallsEnd` | hold |

What the passing runs show:

* **`cron_api`**: two clients interleave creates, updates, toggles and deletes of one
  job, statement by statement, with failing statements, crashes, restarts and a
  config job of the same name. A timer that may fire by right always belongs to the
  job as registered and is the one the registry can cancel; an enabled job always has
  one; a config job never changes; and wherever no two calls overlapped, table and
  registry agree as soon as the call is over, a crash in its middle included.
* **`cron_runs`**: a schedule, trigger loops (cancelled ones too) and an operator
  start the same job, through stop, crash and restart. One run at a time, one shared
  session ever although look-up and creation are two statements, every mark is given
  back, `Stop` returns although calls go on, and every trigger loop ends after it. A
  run that hangs in a tool is the exception to the last three, and the only one: it
  keeps its own mark, its own loop, and `Stop` if the library started it.
* **`adapters`**: one channel whose adapter may crash, be restarted, fail its health
  check, be disconnected and connected again. The counter and the delay, changed in
  different places of the loop, keep the documented schedule. The status the connect
  handler decides from is true of a first instance. Every instance serves the channel
  made for it. After `Stop` nothing runs, late connects included. Whoever was told to
  end ends, a pending restart included, and so does who failed one health check.
* **`mcp`**: start-up, ticker, watcher, a tool call and an operator's restart over a
  server that misbehaves in every way listed above. Restarts exclude each other and
  leave one process; every request gets its own answer and keeps its connection.
* **`mcp_recovery`**: with a server that answers or exits, a dead one is restarted or
  given up, and every restart ends and allows the next.
* **`chat`**: two turns and an injected message in one session, with aborts, two
  compactions, a deletion and a crash. However runs replace each other, the one
  nobody has cancelled is the one an abort reaches. A message leaves the history only
  into a summary, and into one, with exceptions the properties name exactly: inserts
  that overtook each other, and compactions cut short.
* **`by_hand`**: `/compact` beside the turns and the background compaction of a session,
  and undo and reverts beside two agents that change two files.
  * A compaction by hand has no mark, so that it and a background one may both
    summarise what both have read. That is all they repeat (`SummarisedOnce`): one that
    overlaps no other repeats nothing. That it leaves the marks of others alone and
    loses nothing is proved (`MarksMatchCompactions`, `ArchivedAreSummarised`, for any
    number by hand).
  * Files: from the newest entry on, undo goes back through everything a file held,
    whichever writes failed (`UndoGoesBack`). A patch that reports itself reverted, and
    the part of a stopped revert that it has been through, have left no trace
    (`PatchGoesBack`); the rest of a stopped one is as the patch left it, against the
    promise of `docs/tools.md` that a failed patch is taken back.
* **`services`**: fifteen modules, each with its failures, overlaps, crashes and
  restarts.
  * The log: a write that fits never breaks the limit, whatever a failed rotation or a
    restart has left behind; cleanups that overlap never remove one of the newest
    backups, and leave no more than these.
  * Calls of the model (`CallsArriveWhole`, `ResultsFindTheirCalls`,
    `FailuresAreExhausted`, `CancelEnds`, `ImplementsDialogue`): with every vendor as
    the first and as the fallback, streamed or not, tool calls reach the loop whole,
    results stand with their calls, a call whose error `IsRetryable` accepts fails only
    after all attempts (of the others it makes one round), and a cancelled one ends with
    its goroutine unless it is inside a tool that ignores the context. The exceptions
    the properties name are real: Gemini and Ollama pair results by name or by number.
  * Delegation (`EveryTaskReports`, `DelegationEnds`): no result, permit or goroutine is
    lost, timeout or not; a sub-task stuck in a tool is waited for.
  * Provider, senders, sign-in, skills, profiles, memory (`ChoiceSurvives`,
    `ApprovalsLast`, `SignInIsOnce`, `SkillsStand`, `ActiveIsLastChosen`,
    `CorrectionsStand`, `GraphIsWhole`): what the owner decided last holds, across
    failures in the middle (of token writes and of removals of skill files too), restarts
    and commands in other processes. Ghosts mark the overlaps for which the code makes no such promise, and the properties say what holds
    again after them.
  * Answers (`OutputIsKept`, `CommandEnds`, `SentIsTaken`, `HeardOnce`,
    `AnswersInTurn`, `RepliesLeave`, `PersonaIsFresh`, `SchemaIsWhole`): what the agent
    or the owner is told of commands, messages, files and the schema is what happened.
  * The context (`ContextFits`): the budget adds up, the room for the answer is left and
    no stored message is sent twice but the question, whatever changes between two
    reads of the session. The question, stored by the caller and read back, is sent once
    more at the end, and never a third time.

The four violated properties are each a statement the repository makes about itself,
and are described in [7](#7-what-was-found).

`CHECK_DEADLOCK FALSE` appears where the system may really stop: a manager that was
stopped, a server that has been given up, bounds on turns or writes used up. The
cron runs have it on: from every state the process can crash or start.

## 4. Bounds

| Run | Instance | Why it is enough |
|---|---|---|
| `cron_api` | 1 job, 2 clients, a schedule and a trigger, 2 prompts, 2 coexisting timers per job, no runs | calls on different jobs share nothing but the lock; two overlapping calls of every pair of kinds; two timers are the old and the new one of a replacement |
| `cron_runs` | 1 job, 1 client, 1 library goroutine, 2 timers, at most 2 runs inside `runJob` | two runs are what a race needs; the proofs lift both this and the number of goroutines |
| `cron_delete` | as `cron_api`, one prompt, no failing statements | the counterexample needs two overlapping calls |
| `adapters` | 1 name of the kind that looks at its stop channel, 2 instances, 1 client, 1 restart | two instances of a name are the old and the new; the give-up branch and the backoff are both reached with one restart |
| `adapters_stop` | telegram alone | one adapter on its way out and the health loop are enough to block `Stop` |
| `mcp` | 3 launches, 3 requests each, 1 tool caller, 1 operator restart, 2 failures, delay capped at 3 | launches: the first, its replacement, and one more; the cap of 3 is reached in the middle of a doubling, as 120 s is |
| `mcp_recovery` | 2 launches, no tool caller | liveness needs the actors that restart; the safety run has the callers |
| `mcp_startup` | 1 launch | start-up launches once |
| `chat` | 2 chats or a chat and a channel message, 1 injection, 1 session, 2 compactions, 2 recent messages kept, 1 deletion, 1 crash | five to seven messages, enough for a second compaction over the remains of a first, and for two inserts to overtake each other around it |
| `by_hand`, compactions | 1 chat, 1 channel message, 1 background compaction and 1 by hand, 1 recent message kept | the two overlap in every way, and one follows the other over what it has left |
| `by_hand`, files | 2 files, 2 texts, 2 agents, 3 calls, patches of 2 | overlapping calls on one file; a patch that fails at its second item, or names a file twice; a revert that stops at its second file, and a call after it |
| `chat_delete` | 1 chat, 1 channel message | both ways of leaving a message behind |
| `services`, log | limit 3, entries of 1 and 4, 1 backup kept, 4 writes, 1 restart | an entry longer than the limit, rotations at every write, several cleanups at once |
| calls | 2 turns, 2 attempts, 2 providers, 2 tool calls a turn, a channel of 1 | the first and the last of each; two calls can be swapped, dropped or doubled; a channel of one is full when it matters. All vendors, all pairs of them, all three modes |
| delegation | 3 tasks, 2 permits | one task has to queue |
| provider | 2 providers, one of them without a key, 2 operations | a choice and one that fails or is cut short by a restart; overlaps of two |
| commands | limit 2, 4 bytes | below, at and beyond the limit |
| senders | 2 senders, 1 request beside the command line, 3 changes | two savers of one file; a change, a change back, and one more |
| WhatsApp | 2 adapters of 2 starts, 1 text, 2 rounds of 2 tries | a reset, a restart, a retry within a round and over rounds |
| sign-in | 1 flow beside the command's, 2 callbacks, 2 tokens | a callback twice, a refresh over a sign-out |
| context | a budget of 60, prompts of 5 and 30, texts of 2 and 12, a window of 2, 3 messages, 2 nodes | within and beyond the caps, a message in both parts, one that leaves the window |
| workspace | 1 text besides the blank one, 2 runs, 1 change of a file and a rename | a change during each step of a run; two runs that reload at once |
| skills | 2 texts, 2 requests at a time, 3 in all | an overlap and one request after it |
| profiles | 2 names, 2 profiles, 2 requests at a time, 3 in all, 2 seconds | two activations in one second, a deletion of the active one |
| delivery | 2 messages, an inbox of 1, queues of 2, 2 adapters of 2 starts | a full inbox, two goroutines on one queue, a replaced adapter |
| memory | 2 names, 3 rows, 3 changes beside 1 edit, 2 rows listed | swapped names, a row beyond the list, a node deleted under the edit |
| schema | releases 1 and 3, one repeatable version, 2 processes, 3 starts | an old and a new program, a process killed between two versions |

Where a bound ends a path early (`MaxRequests`, `Gens`) the guard stops the
environment or a caller, never a step in the middle of a handler. An exhausted
`Gens` leaves only the launch that fails, which is a path of the code.

Symmetry is used in `cron_api`, `cron_delete`, `chat` and `by_hand`, for sets whose members the
module never tells apart, and only in runs without temporal properties.

## 5. Fairness

Invariants need none. The liveness properties assume what the Go runtime and the
operating system give, and nothing of users or peers:

Nothing is assumed of a tool that ignores its context. `Registry.Execute` sets no
deadline, an MCP call waits in `ReadBytes` whatever its context says, and `exec` waits for
the end of an output that a descendant of its shell may hold. Such a call is a state of
its own in `CronScheduler`, `ToolLoop`, `Delegation` and `Commands`, which no fairness
ends.

* **`CronScheduler!Fairness`**: a goroutine inside `runJob` goes on (the agent's run
  ends by its timeout) unless it hangs in a tool; `Stop` goes on when the library's goroutines are done; a
  cancelled trigger loop leaves in the end, by strong fairness, since it keeps coming
  back to a `select` that picks at random. Nobody has to call, fire or stop.
* **`AdapterManager!Fairness`**: supervisors, health loop, handlers and `Stop` go on;
  a delay passes; connecting succeeds or fails; an adapter that keeps looking at a
  closed channel sees it (strong fairness, again a random `select`). `Start` need not
  fail and nobody need connect.
* **`McpServer!ProgramFairness`**: every goroutine goes on, and `sync.Mutex` starves
  nobody (its starvation mode), so strong fairness of each actor's steps; a process
  that is dead is reaped; retry times come. `ServerFairness` adds that a server that
  has read a request answers it or exits some day. `mcp_recovery` needs it;
  `mcp_startup` deliberately leaves it out, since start-up is promised to *fail* fast
  with servers that do not do so.
* **`ToolLoop!ToolFairness`**: once the context is done, requests, timers and reads
  return, since `net/http` closes the connection, and so do tools that look at the
  context; goroutines of the program go on. A tool that hangs need not return
  (`CancelEnds` excepts `hangs`). No vendor has to answer anything otherwise.
* **`Delegation!DelegationFairness`**: goroutines go on, and sub-tasks return that are not
  stuck in a tool, as `CancelEnds` shows they do at the latest when the timeout comes.
  `DelegationEnds` excepts a delegation with one that is.
* **`Commands!CommandFairness`**: the goroutines of `os/exec` and the kill at the
  deadline. A command need not end, nor write, nor let go of its output; `CommandEnds`
  excepts one whose shell is gone while a descendant holds the output.
* **`Delivery!DeliveryFairness`**: calls of the vendors' libraries return and an adapter
  that is to start does. Nobody has to write, and a server may end at any time.
* The other modules have no liveness property and no fairness.

## 6. Proofs

Checked by TLAPS for every value of the constants that satisfies the named assumption
of each module (absent values differ from present ones, identities of different kinds of
goroutine differ, bounds are numbers, launches are numbered, there is a last release).
TLC evaluates the same assumptions in the runs. Of the theorems about the modules of
`services` most are stated of `ServicesSpec`, the specification that the run checks:
each module is a part of it (`LogAsPart`, `LoopAsPart`, ...). Those of `FileActions` are
stated of `FileSpec`.

| Theorem | Says | By |
|---|---|---|
| `CronSchedulerProofs!TypeCorrect` | `Spec => []TypeOK` | inductive as it stands; lemmas for start-up and shutdown, for calls and for runs |
| `CronSchedulerProofs!MutualExclusion` | `Spec => []OneRunPerJob` | `RunInv` |
| `CronSchedulerProofs!OneSharedSession` | `Spec => []SharedRunsShareOneSession` | `RunInv` |
| `CronSchedulerProofs!TimersFollowRegistry` | `Spec => []TimersMatchRegistry` | `RegistryInv` |
| `CronSchedulerProofs!EnabledJobsStayArmed` | `Spec => []EnabledJobsAreArmed` | `RegistryInv` |
| `CronSchedulerProofs!ConfigComesFirst` | `Spec => []ConfigKeepsPrecedence` | `ConfigInv` |
| `CronSchedulerProofs!RegistryFollowsTable` | `Spec => []QuietJobsAgree` | `AgreeInv`, over `RegistryInv` and `ConfigInv` |
| `McpServerProofs!McpTypes` | `Spec => []TypeOK` | `McpInv` |
| `McpServerProofs!RestartsAreExclusive` | `Spec => []OneRestart` | `McpInv` |
| `McpServerProofs!ProcessesAreSingle` | `Spec => []OneLiveProcess` | `McpInv` |
| `McpServerProofs!AnswersAreOwn` | `Spec => []AnswersMatch` | `McpInv` |
| `McpServerProofs!OfflineIsTrue` | `Spec => []OfflineMeansDisabled` | `McpInv` |
| `AdapterManagerProofs!AdapterTypes` | `Spec => []TypeOK` | `ManagerInv` |
| `AdapterManagerProofs!RestartsOnSchedule` | `Spec => []BackoffSchedule` | `ManagerInv` |
| `AdapterManagerProofs!StopMeansQuiet` | `Spec => []StoppedMeansQuiet` | `QuietInv` |
| `AdapterManagerProofs!ChannelsAreOwn` | `Spec => []OwnChannel` | `OwnInv` |
| `AdapterManagerProofs!StatusStaysTrue` | `Spec => []StatusIsTrue` | `TraceInv`, and `Truth` over it |
| `ConversationProofs!ConversationTypes` | `Spec => []TypeOK` | `StoreInv`, over `RunInv` and `MarkInv` |
| `ConversationProofs!AbortReachesRuns` | `Spec => []RunsCanBeAborted` | its own `RunInv` |
| `ConversationProofs!MarksAreExact` | `Spec => []MarksMatchCompactions` | `MarkInv`, over `RunInv` |
| `ConversationProofs!ArchivedHaveSummary` | `Spec => []ArchivedAreSummarised` | `HistoryInv` and `RowInv`, over the three above |
| `ConversationProofs!RepeatedOnlyIfExcused` | `Spec => []SummarisedOnce`, with any number of compactions by hand | the same |
| `FilesProofs!FilesTypeCorrect` | `FileSpec => []FileTypeOK` | `FileInv` |
| `FilesProofs!FilesComeBack` | `FileSpec => [](UndoGoesBack /\ PatchGoesBack)` | `FileInv` |
| `FilesProofs!LogTypeCorrect` | `LogSpec => []LogTypeOK` | inductive as it stands |
| `FilesProofs!WithinLimit` | `LogSpec => []FileWithinLimit` | `LimitInv` |
| `FilesProofs!BackupsStay` | `LogSpec => []BackupsKept` | `DueInv`, over `KeptInv` |
| `RequestProofs!AllocationIsExact` | the parts of any allocation make up the budget, none negative | arithmetic of the shares |
| `RequestProofs!EveryBudgetAddsUp` | `ContextSpec => []AllocationAddsUp` | `SessionInv` |
| `RequestProofs!PromptFits` | `ServicesSpec => []ContextFits` | `ContextInv`, over `SessionInv`; `SessionAllocates` |
| `RequestProofs!CallsStayAnswered` | `ServicesSpec => []CallsAreAnswered` | `LoopInv`, `StreamInv` |
| `RequestProofs!LoopKeepsDialogue` | `ServicesSpec => ImplementsDialogue` | a step for each action, over `LoopInv` |
| `ChoicesProofs!ChoicesLast` | `ServicesSpec => []ChoicesSurvive` | `ProviderInv`, `SignInv`, `SenderInv`, `SkillInv`, `ProfileInv`, `KnowledgeInv` |
| `AnswersProofs!AnswersStayTrue` | `ServicesSpec => []AnswersAreTrue` | `CommandInv`, `WhatsAppInv`, `DeliveryInv`, `DelegationInv`, `PersonaInv`, `SchemaInv` |
| `AnswersProofs!SchemaStaysWhole` | `MigrationSpec => []SchemaIsWhole` | `SchemaInv` |
| `AnswersProofs!ServicesTypes` | `ServicesSpec => []ServicesTypeOK` | the invariants of the fifteen parts |

The inductive invariants, and why the properties are not inductive alone:

* **Runs of a job.** `OneRunPerJob` says nothing of a goroutine that is about to mark
  the job. `MarkHeld` (whoever is past its mark has the job in `running`) closes the
  gap. For the session, `LookupFresh` says that a shared run on its way to create a
  session still has no session to find: it looked while it held the mark, and others
  create only while they hold it. `SessionCounted` ties the count to what a look-up
  sees. All of it survives crashes, since `running` and the runs vanish together
  while the sessions stay.
* **Timers and registry.** `TimersMatchRegistry` is kept by every critical section, but
  `Start` arms the trigger loops of all jobs at once and must find none: `BootState` says
  that nothing is started, cancelled or called before. `JobsAreArmed` strengthens
  `EnabledJobsAreArmed` by the entries a schedule has already before `Start`.
* **Configuration first.** What a call has read or checked may be old by the time it
  writes. `ConfigCalls` says that no call on a name of the configuration is past its
  check; the names are fixed before the first call.
* **Registry and table.** `QuietJobsAgree` speaks of names with no call under way.
  `AloneOnName` says that a name that is not `dirty` has at most one call, and `Prepared`,
  for each place a call can be in, what the registry still has to be given for the two to
  agree: this is where a crash between two statements, and the reload after it, meet.
* **One MCP server.** `OneRestart` and `OneLiveProcess` hold together or not at all. A
  restart may launch a process only because its `Stop` saw the old one reaped: `Live`
  says that from the end of a `Stop` to the launch no process is alive, that a live
  process is the connected one or the one about to be installed, and that a `Stop` under
  way waits for it. That nobody else launches meanwhile is `OneRestarter`; that the
  supervisor's flag tells is `FlightIsRestart`; that start-up, which has no flag, is alone
  is `AtStart`. `AnswersMatch` is inductive since whoever reads holds `Server.mu`, which
  `Install` and the reaping need. For the status, `SupInv` says that a server that was
  given up is never being restarted, so a failing restart counts from fewer than
  `MaxFailures` failures, or was asked for by the operator.
* **Restart schedule.** The counter goes up when an adapter fails and the delay
  doubles after it has passed. `Scheduled` (in `ManagerInv`) says at every point of
  the loop which of the two is ahead; the type of the counter depends on it too, since
  only the give-up branch keeps it from growing.
* **Quiet after stop.** `QuietInv` adds that the context is cancelled before `Stop`
  begins. A supervisor that a late connect starts then finds it so at the top of its
  loop, and ends.
* **Own channels.** `OwnInv` follows a caller that is alone on a name: the name is
  free from `Create` until it registers, and its channel is the one it made from there
  until `RunOne` reads it. `BootUntouched` says the same of the instances of the start,
  as long as nobody can call. The run has one caller; the theorem has any number, and
  leaves out the names on which two of them met.
* **True status.** The status goes by name, so a new instance could find what another
  has left. `StatusTraced` takes every `TRUE` back to an instance of the name that has
  been started, and `Fresh` says that one on its way to its registration has not been:
  if it is the only one, it registers under a status of `FALSE`. `HoldersApart` (no two
  callers carry one instance) keeps `Fresh` through `RunOne`.
* **Active runs.** `RunsCanBeAborted` needs that a run in progress has a session and
  that `Register` cancels exactly the run it replaces. The step that matters is
  `Clear`: a run that was replaced must not remove its successor.
* **Marks of compactions.** `MarkInv` says the same without counting, of the compactions
  in the background: whoever compacts has a marked session, no two have the same, and
  every mark has somebody. Those by hand have no part in it. A compaction
  gives its mark back on each of its early returns (`FinishMarks`), and one that starts
  has found none (`TriggerMarks`).
* **Types of a conversation.** Stamps and ids are below the clock and the last id, which
  grow, so `TypesGrow` lifts what is stored to the new bounds. `StampsAreTaken`: whoever
  is about to insert has read the clock.
* **History.** A compaction chooses by time and archives by id, in different steps.
  `OldAreOld`: what it has read is still active until it archives it. `RestIsNewer`:
  what it has not read and will archive all the same came in under an earlier id with a
  later stamp, which is the exception of the property. `SummaryIsStored`: the summary is
  there before anything is archived. `SummarisedLeave`: a message that is in a summary
  and still active is about to be archived, or is one of the exceptions. That no message
  goes into two summaries then follows, in the background, from there being one
  compaction of a session at a time (`MarkInv`), and from ids and stamps being one
  message's (`RowInv`). With one by hand it does not follow: `SharedAreContested` says
  that what two compactions have in hand together is `contested`, and `OldAreNew` that
  what one has in hand alone is in no summary yet, or excused.
* **Files.** `LogOf` is about one file that the log answers for: at most one call has it,
  what that call has read is what the file holds until it writes and the newest past
  text afterwards, and entry by entry the table says what the file held before. For a
  patch, `ItemsKept` says of each place it can be in which items have a copy of what
  they found, that the copies stay until the end, and that the items a revert has been
  through are as they were found; it needs that the items differ.
* **The owner's choices.** Each invariant says what an operation under way carries to
  its last step. Provider: where an operation has not touched the agent, or the file,
  yet, and what it knows if it is alone. Sign-in: a token that is to be written was
  issued, a verifier whose state is still there was not used, and after a sign-out with
  nothing under way there is nothing. Senders: without a race one change is under way,
  and its list is the last decision, in memory, in the temporary file and in the file.
  Skills: how far a request that nothing overlaps has come. Profiles: a row that is
  there has a name, and ids are given in order, so that a new one is nobody's. Memory:
  what the edit has seen is as it should be, but for what others
  have changed, and rows are updated before any is deleted.
* **Answers.** Commands: nothing is lost between the shell, the pipe and the copy, and
  who has come to the end has no writer left. WhatsApp: an adapter that was started once
  has one handler, and the number of copies is bounded by tries and rounds. Delivery:
  what waits, is carried or has left is in the order in which it was heard, for those of
  which one was heard after the other was queued. Sub-tasks: where the goroutines may be
  while `Delegate` is where it is. Workspace: what a run loads, every run under way has
  in its window, and what is loaded is the text of a checksum or nothing.
* **Limit of the log.** `FileWithinLimit` needs `SizeCoversFile`: the remembered size
  is never less than the file's length. It is often *more* ("Seen while
  reading", [7](#7-what-was-found)), and that direction is harmless to the limit.
* **Newest backups.** `NewestKept` needs `RemovingIsOld`: whatever a cleanup has
  settled on was beyond the newest `MaxFiles` when it listed the directory, and
  rotations since only made it older. That rests on `SurplusIsOld`, a fact about
  cardinalities of sets of numbers.
* **Bounded backups.** `OldIsDue` says of every backup beyond the newest `MaxFiles` that
  a cleanup has settled on it or has yet to read the directory, which will then list it
  (`OldIsSurplus`, from `NewestKept`). With nothing under way none is left, and the
  rest lie in an interval of `MaxFiles` numbers.
* **Budget.** Each part is a share of what is left, so its bound needs the bounds of the
  parts before it (`Shares`, `LeastBounds`). `SessionInv` says that the question is a
  message of the session with a size, also when others are archived.
* **Context.** `ContextInv` says of every stage of `Assemble` what is in its hands: the
  recent messages and those the search found are messages of the session, each once and
  no message in both (so that only the question appended at the end can come again), and each tier costs no more than its part (`Within`). No step of
  another turn changes the size of a stored message (`SizesKept`), so what was within
  its part stays so (`OthersHarmless`). Sums and the loop over what the search found are
  recursive functions; that they exist, and what they keep, is shown for each length in
  turn from the well-foundedness of the numbers (`UpTo`, `SumExists`, `RoundsExist`).
* **Calls of tools.** `TurnsCount` says how the messages are made up: turns that call
  tools, each followed by the results of its calls in their order, of which only the last
  turn may lack some, as many as the loop has still to run. `RoundsCount` gives, from the
  place of the loop, how often each provider has been tried. Of a stream,
  `ChunksInOrder` says that only its last chunk has calls and that a channel closed
  without one was cut; `TakenWhole` that the loop has taken the chunk whole.
* **Dialogue.** What is owed is computed from the messages, so the proof is about what
  appending a message does to it: a turn makes its calls owed, a result takes the first
  of them away. Every other action leaves the dialogue as it is, or ends it.
* **Schema.** `SchemaInv` says of every process half way that the version it has read is
  no more than what the schema has by now: its next migration is then the next of the
  schema, or is recorded and refused.

Two proofs changed the model. `PersonaIsFresh` was not invariant: once files that were
blank are back with the texts of their checksums nothing tells a run that they have
changed, so that what was loaded meanwhile stays (TLC shows it on an instance larger than
the run's). The property names that exception now, and `emptied` marks it. And
`ResultsFindTheirCalls` says by its number where each result stands, which is what the
invariant is about.

Only model-checked: the liveness properties `RunningIsReleased`, `StopIsFinite`,
`LoopsEndAfterStop`, `DisconnectedStops`, `RestartEnds`, `CrashIsNoticed` and `CallsEnd`,
which rest on fairness and `ENABLED`, and these the prover does not handle. Every
invariant that a run checks, and the refinement, is proved. The assumptions that the
proofs make about the constants are the ones named above, and nothing is proved of what
a recursive definition computes beyond the bounds that the properties need: that
`Tokens` of a context is the sum a reader expects is by its definition.

## 7. What was found

1. **A deleted cron job can stay registered** (`cron_delete`;
   `internal/cron/cron.go:326`). Delete erases the row and unregisters the job in two
   steps. A create, update or enable that is between its own statement and its
   registration registers the job again afterwards. Both calls report success, and a
   job without a row fires until the process restarts.
2. **Stopping the adapter manager can block for ever** (`adapters_stop`;
   `internal/plugin/plugin.go:293`). `Stop` keeps the read lock while it waits for
   goroutines that need the write lock to end. One failed health check is enough to start
   this: it stops the adapter for good, where `docs/plugins.md:179` says that unhealthy
   adapters are logged.
3. **Start-up does not fail fast with a silent MCP server** (`mcp_startup`;
   `internal/mcp/client.go:347`, against `docs/tools.md:108`). The deadline is looked
   at between two blocking reads only.
4. **Messages can outlive their session** (`chat_delete`;
   `internal/storage/db.go:38`, against the comment on `SessionStore.Delete`). The
   pragma that makes the cascade work is set on one connection of the pool.

The exceptions in `QuietJobsAgree`, `StatusIsTrue`, `OwnChannel`,
`ArchivedAreSummarised` and `SummarisedOnce` mark where the code makes no promise and
a counterexample exists without the exception: overlapping calls on one name,
several instances of one adapter name, inserts that overtake each other, a compaction by
hand beside another. `RunningIsReleased`, `StopIsFinite`, `LoopsEndAfterStop` and
`CallsEnd` except what a tool that ignores its context holds up, `DisconnectedStops` the
adapters whose `Start` does not look at their `Stop`, and `PatchGoesBack` the files that a
stopped revert did not come to. They are
listed as hazards with their lines in `PROJECT.json`. The ghosts of the modules in
`services` and of `FileActions` (`mixed`, `tainted`, `raced`, `aside`, `overtaken`, `retried`, `late`, `torn`,
`settled`, `touched`, `uncascaded`) mark the same.

### Seen while reading

Not runs of their own; each is in the model as the code has it, or noted beside the
definition it concerns.

* **Calls of the model.** `RetryableError` is built in tests only, so an HTTP 5xx is
  neither tried again nor failed over (`agent/retry.go:55`), against "automatic retry on
  transient errors (timeouts, 429, 5xx)" (`agent/agent.go:306`). A stream that is cut
  counts as a complete answer; OpenAI's stream drops calls whose finish is `stop`;
  Anthropic's emits calls in the order of a map. Ollama's plain chat drops the calls of
  earlier turns, and Gemini after a failover gets call ids for names. A delegation whose
  timeout comes at the very end throws its results away.
* **Context.** `Assemble` keeps the oldest of the last ten messages that fit and drops
  the newest (`README.md:106`); `system` messages never reach Anthropic and Gemini;
  memory facts (`README.md:84`) are in no prompt, since every caller passes nil; prompt
  and tools are sent in full although their shares are capped (`README.md:71`);
  embeddings are searched within the session only (`README.md:110`). The question is in
  the prompt twice: the caller stores it, it is read back, and `Assemble` appends it
  (`context.go:307`).
* **Configuration.** "in-memory only and will reset on restart" (`handlers.go:1478`)
  holds until a later setup or switch saves the whole `Config`; an update with one field
  zeroes the other integers of its group (`handlers.go:1357`, `1462`); overlapping saves
  share `config.yaml.tmp` (`config.go:337`), although `Save` "writes the config to disk
  atomically" (`config.go:317`).
* **Files.** A patch that fails is taken back file by file, ends at the first file that it
  cannot restore and tells nobody (`apply_patch_impl.go:129-151`, `213-229`), against
  `docs/tools.md:169`. A path that is twice in one patch overwrites its own backup; a
  crash in a patch leaves no manifest.
* **Log.** The size of the old file is kept for the new one (`logger/rotate.go:47`), so
  that after the first rotation every entry rotates again, against the comment on
  `RollingWriter`, and the backups hold one entry each.
* **Adapters.** Telegram's `Start` does not look at the channel that its `Stop` closes
  (`telegram.go:109`), against `docs/plugins.md:48-49`.
* **Commands.** The limited buffer's short count makes a command that succeeds over the
  limit lose all its output; a descendant keeps `exec` waiting beyond its limit
  (`docs/configuration.md:172`); entries of `process_spawn` are never removed.
* **Senders.** `openclio allow` says "They can now interact with the agent." while a
  running server does not read the list again, and its next change overwrites it; two
  saves share one temporary file (`allowlist.go:120`).
* **WhatsApp.** After a failed pairing `Start` still sets `connected`; each restart adds
  an event handler, which doubles the messages; a health check in a gap of the socket
  stops the adapter for good.
* **Delivery.** `Send` succeeds into the queue of an adapter that the health check has
  stopped: replies vanish until it is full, and then each waits five seconds. Slack's
  failed `Start` leaves its goroutine, so replies may swap.
* **Sign-in.** A refresh or callback under way lets the token come back after a sign-out;
  a refresh drops a rotated refresh token; a stray callback ends `auth login`.
* **Workspace.** A deleted file is not noticed; a prompt may take fields half assigned.
  Two overlapping skill installations can remove both files and both succeed, and a stale
  form that cannot be removed stays without notice (`skills.go:126`); a deleted
  bundled skill is back after the next command.
* **Profiles.** Two are active between an insertion and its activation, for good if that
  fails; the dashboard and the binding then choose differently. The profile's prompt and
  model enter no run.
* **Memory.** `memory edit` that swaps two names ends half way, its temporary file left
  behind; the dashboard's deletions on most connections leave edges behind, hidden by a
  join.
* **Database.** A second command that starts during an upgrade ends with "migration
  failed", though the database is sound; retention runs at the start of every command.

## 8. Not modelled

* **In modelled components.** Cron: the `cron_history` log, polling for changed files,
  delivery of a job's answer, `openclio cron run` as a second process with a map of
  running jobs of its own. MCP: several servers at start-up, shutdown, `captureStderr`,
  payloads. Conversation: the background goroutines after a turn. Log: `Close` during
  use, a failing start. Agent: the sums of the daily budget, the decision to delegate,
  the router's choice of a model (they read configuration and wording). Providers:
  images, usage, HTTP. Configuration: one field stands for those the gateway edits.
  Context: arithmetic of similarities (any subset may be found). WhatsApp: whatsmeow.
  Database: retention, retries of a busy statement. Files: hunks of a patch, the size
  beyond which no snapshot is kept. Commands: namespaces, `process_read`. Workspace:
  templates and parsing.
* **Gateway server, middleware, rate limiter** (`gateway.go`, `middleware.go`): routing
  and headers; the limiter is a counter and a time under one lock, with no step in
  between.
* **Web chat adapter**: its handler is mounted on no mux, so it never has a client; what
  `Start` and `Stop` do is in `AdapterManager`.
* **Tool registry, other tools, plugin RPC**: a map under a lock, calls of the operating
  system and the network that keep nothing, generated code and plumbing.
* **Embedding errors, cost and privacy reports, logging and scrubbing, command line,
  editions**: rows and sums, regular expressions, prompts and output, build tags.

The modelled parts take from all of these only that a call ends with an answer or an
error.

## 9. Plan

**Done**: every component whose correctness depends on order, overlap or failure has a
module; every invariant of the runs is proved, in eight modules, and so is that the loop
of the agent implements its dialogue with the vendor.

**Worth doing next**, the most useful first:

* `openclio cron run` over `CronScheduler`'s table: two processes with separate maps of
  running jobs can run one job at once. It needs a second copy of `running`.
* Runs for the disagreements that are only noted so far ("Seen while reading"): each is in
  the model as the code has it, and needs the documentation's sentence as a property of
  its own. The log's rotation, the retries and the rollback of a patch come first.
* Abstract specifications of a durable set for `SenderGate` and of a durable job table
  for `CronScheduler`, on names without overlapping changes.
* A composition of `Delivery` with `AdapterManager`'s supervisors instead of its own
  abstraction of them, and of `Conversation` with `ToolLoop` through an answer that is
  cancelled while it is stored.
