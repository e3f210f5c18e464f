---------------------------- MODULE CronScheduler ----------------------------
(***************************************************************************)
(* The cron scheduler of internal/cron/cron.go over the cron_jobs table of *)
(* internal/storage/cron_jobs.go.                                          *)
(*                                                                         *)
(* A job lives in two places: a row of cron_jobs (db) and an entry of the  *)
(* scheduler's registry (jobs), whose timer is either an entry of the      *)
(* robfig cron library or a trigger-loop goroutine.  Every API call        *)
(* touches the two places in separate steps; a step here is one database   *)
(* statement or one critical section of Scheduler.mu, the points between   *)
(* which other calls, timers and crashes come in.                          *)
(*                                                                         *)
(* Abstracted: the wording of a definition (channel and timeout_seconds    *)
(* travel exactly as the prompt does), wall-clock time (a timer that is    *)
(* armed may fire at any moment), the text of a conversation and the       *)
(* cron_history log, which nothing in the scheduler reads to decide.       *)
(***************************************************************************)
EXTENDS Naturals, FiniteSets

CONSTANTS
  Names,        \* job names
  ConfigNames,  \* the names config.yaml may define
  Schedules,    \* cron expressions
  Triggers,     \* "every ..." and "file_changed ..." triggers
  Prompts,      \* what a job asks the agent
  Modes,        \* session modes in use, of "isolated" and "shared"
  Patches,      \* the changes callers of UpdatePersistent ask for
  ConfigDef,    \* the definition config.yaml gives its jobs
  Clients,      \* concurrent callers of the scheduler API
  Slots,        \* goroutines the cron library has for fired entries (a bound)
  Gens,         \* timers of one name that exist at the same time (a bound)
  MaxRuns,      \* goroutines inside runJob at the same time (a bound)
  MaxSessions,  \* sessions created by shared runs of one job (a bound)
  DbMayFail,    \* whether a statement of an API call may return an error
  None          \* absence of a value

Def == [when: Schedules \cup Triggers, prompt: Prompts, mode: Modes]

\* An update names the fields to change.
Patch == [when: Schedules \cup Triggers \cup {None},
          prompt: Prompts \cup {None}, mode: Modes \cup {None}]

ASSUME CronAssumption ==
  /\ ConfigNames \subseteq Names
  /\ Modes \subseteq {"isolated", "shared"}
  /\ Schedules \cap Triggers = {}
  /\ ConfigDef \in Def
  /\ Patches \subseteq Patch
  /\ None \notin Names
  /\ None \notin Schedules \cup Triggers \cup Prompts \cup Modes
  /\ None \notin Gens
  /\ None \notin [def: Def, enabled: BOOLEAN]
  /\ None \notin [def: Def, enabled: BOOLEAN, source: {"config", "db"}]
  /\ Clients \cap Slots = {}
  /\ (Clients \cup Slots) \cap (Names \X Gens) = {}
  /\ MaxRuns \in Nat
  /\ MaxSessions \in Nat
  /\ DbMayFail \in BOOLEAN

Row == [def: Def, enabled: BOOLEAN]
Job == [def: Def, enabled: BOOLEAN, source: {"config", "db"}]
Loops == Names \X Gens
Executors == Clients \cup Slots \cup Loops

NoTimer == [kind |-> "free", job |-> None, live |-> FALSE]
Timer == {NoTimer} \cup [kind: {"entry", "loop"}, job: Job, live: BOOLEAN]

NoCall == [op |-> "none", step |-> "idle", name |-> None, job |-> None]
\* What a call holds at each step: a create its job, an update the patch and
\* then the merged job, a toggle the row it has read back.
Toggles == {"enable", "disable"}
Call ==
  {NoCall}
  \cup [op: {"create"}, step: {"check", "insert", "register", "rollback"},
        name: Names, job: Job]
  \cup [op: {"update"}, step: {"check", "read"}, name: Names, job: Patch]
  \cup [op: {"update"}, step: {"write", "register"}, name: Names, job: Job]
  \cup [op: {"delete"}, step: {"check", "erase", "unregister"},
        name: Names, job: {None}]
  \cup [op: Toggles, step: {"check", "write", "reread"},
        name: Names, job: {None}]
  \cup [op: Toggles, step: {"register"}, name: Names, job: Job]

Idle == [step |-> "idle", name |-> None, job |-> None]
RunSteps == {"fired", "select", "create", "agent", "stuck", "clear"}
Run == {Idle} \cup [step: RunSteps, name: Names, job: Job]

VARIABLES
  db,            \* [Names -> Row or None]: table cron_jobs (survives a crash)
  sessions,      \* per job: any session of its channel, how many a shared run made
  phase,         \* the life of the process
  config,        \* the names config.yaml defines in this process
  jobs,          \* [Names -> Job or None]: Scheduler.jobs
  entryIDs,      \* [Names -> Gens or None]: Scheduler.entryIDs
  triggerCancel, \* [Names -> Gens or None]: Scheduler.triggerCancel
  timers,        \* library entries and trigger goroutines that exist
  started,       \* Scheduler.started
  cronOn,        \* the cron library fires its entries
  running,       \* Scheduler.running
  run,           \* progress of runJob in every goroutine that can execute it
  calls,         \* progress of each client's API call
  dirty          \* ghost: names where two API calls overlapped, or one was cut short

runtime == <<jobs, entryIDs, triggerCancel, timers>>
life == <<phase, config, started, cronOn>>
vars == <<db, sessions, life, runtime, running, run, calls, dirty>>

-----------------------------------------------------------------------------
IsTrigger(job) == job.def.when \in Triggers

Cancelled(timer) == [kind |-> timer.kind, job |-> timer.job, live |-> FALSE]

\* Mutant of Disarmed: the replaced job's library entry is not removed.
DisarmedLoopOnly(n) ==
  [g \in Gens |-> IF g = triggerCancel[n]
                  THEN Cancelled(timers[n][g]) ELSE timers[n][g]]

(***************************************************************************)
(* The critical sections of addOrReplaceJob and removeJob, as the new      *)
(* value of each per-name piece of the registry.                           *)
(***************************************************************************)
Disarmed(n) ==
  [g \in Gens |->
     IF g = entryIDs[n] THEN NoTimer
     ELSE IF g = triggerCancel[n] THEN Cancelled(timers[n][g])
     ELSE timers[n][g]]

FreeGens(n) == {g \in Gens : Disarmed(n)[g] = NoTimer}

EntryTimer(job) == [kind |-> "entry", job |-> job, live |-> TRUE]
LoopTimer(job) == [kind |-> "loop", job |-> job, live |-> TRUE]

\* Mutant of Register: a replaced job gets its new timer before the old one
\* of that name is removed, which removes both.
RegisterThenDisarm(n, job, g) ==
  /\ jobs' = [jobs EXCEPT ![n] = job]
  /\ entryIDs' = [entryIDs EXCEPT ![n] = None]
  /\ triggerCancel' = [triggerCancel EXCEPT ![n] = None]
  /\ timers' = [timers EXCEPT ![n] = Disarmed(n)]

\* addOrReplaceJob after its duplicate check, with g the new timer's place.
Register(n, job, g) ==
  /\ jobs' = [jobs EXCEPT ![n] = job]
  /\ entryIDs' = [entryIDs EXCEPT
       ![n] = IF job.enabled /\ ~IsTrigger(job) THEN g ELSE None]
  /\ triggerCancel' = [triggerCancel EXCEPT
       ![n] = IF job.enabled /\ IsTrigger(job) /\ started THEN g ELSE None]
  /\ timers' = [timers EXCEPT ![n] =
       IF job.enabled /\ ~IsTrigger(job)
       THEN [Disarmed(n) EXCEPT ![g] = EntryTimer(job)]
       ELSE IF job.enabled /\ started
       THEN [Disarmed(n) EXCEPT ![g] = LoopTimer(job)]
       ELSE Disarmed(n)]

Unregister(n) ==
  /\ jobs' = [jobs EXCEPT ![n] = None]
  /\ entryIDs' = [entryIDs EXCEPT ![n] = None]
  /\ triggerCancel' = [triggerCancel EXCEPT ![n] = None]
  /\ timers' = [timers EXCEPT ![n] = Disarmed(n)]

-----------------------------------------------------------------------------
(***************************************************************************)
(* Start-up, in the order runServe calls it, before the gateway listens.   *)
(***************************************************************************)
Nowhere == [n \in Names |-> None]
NoTimers == [n \in Names |-> [g \in Gens |-> NoTimer]]
AllIdle == [x \in Executors |-> Idle]
NoCalls == [c \in Clients |-> NoCall]

Init ==
  /\ db = Nowhere
  /\ sessions = [n \in Names |-> [any |-> FALSE, shared |-> 0]]
  /\ phase = "down" /\ config = {} /\ started = FALSE /\ cronOn = FALSE
  /\ jobs = Nowhere /\ entryIDs = Nowhere /\ triggerCancel = Nowhere
  /\ timers = NoTimers
  /\ running = {} /\ run = AllIdle /\ calls = NoCalls /\ dirty = {}

\* A registered job of a scheduler that has not started: a schedule has its
\* library entry at once, a trigger loop waits for Start.
BootEntry(n, job, g) ==
  [h \in Gens |-> IF h = g /\ job.enabled /\ ~IsTrigger(job)
                  THEN EntryTimer(job) ELSE timers[n][h]]

BootRegister(new, S) ==
  \E g \in Gens :
    /\ jobs' = [n \in Names |-> IF n \in S THEN new[n] ELSE jobs[n]]
    /\ timers' = [n \in Names |->
         IF n \in S THEN BootEntry(n, new[n], g) ELSE timers[n]]
    /\ entryIDs' = [n \in Names |->
         IF n \in S /\ new[n].enabled /\ ~IsTrigger(new[n]) THEN g
         ELSE entryIDs[n]]

\* Scheduler.Add for every job of config.yaml, whose content may have been
\* edited since the last start.
AddConfigJobs ==
  /\ phase = "down"
  /\ \E S \in SUBSET ConfigNames :
       /\ config' = S
       /\ BootRegister([n \in Names |-> [def |-> ConfigDef, enabled |-> TRUE,
                                         source |-> "config"]], S)
  /\ phase' = "configured"
  /\ UNCHANGED <<db, sessions, triggerCancel, started, cronOn, running, run,
                 calls, dirty>>

\* LoadPersistedJobs: rows whose name is taken by a config job are skipped, and
\* so is, with a warning, a row addOrReplaceJob finds invalid (the agent's tool
\* cron_create writes to the table without checking).
LoadPersistedJobs ==
  /\ phase = "configured"
  /\ LET fromDb(n) == [def |-> db[n].def, enabled |-> db[n].enabled,
                       source |-> "db"]
         rows == {n \in Names : db[n] # None /\ jobs[n] = None}
     IN \E skipped \in SUBSET rows :
          /\ BootRegister([n \in Names |->
                            IF db[n] = None THEN None ELSE fromDb(n)],
                          rows \ skipped)
          /\ dirty' = skipped
  /\ phase' = "loaded"
  /\ UNCHANGED <<db, sessions, config, triggerCancel, started, cronOn, running,
                 run, calls>>

\* The List statement of LoadPersistedJobs fails: runServe logs a warning and
\* goes on without the database jobs.
LoadFails ==
  /\ DbMayFail
  /\ phase = "configured"
  /\ phase' = "loaded"
  /\ dirty' = {n \in Names : db[n] # None}
  /\ UNCHANGED <<db, sessions, config, started, cronOn, runtime, running, run,
                 calls>>

\* Scheduler.Start: a loop goroutine for every enabled trigger job, then the
\* cron library starts firing its entries.
Start ==
  /\ phase = "loaded"
  /\ LET loops == {n \in Names : jobs[n] # None /\ jobs[n].enabled
                                 /\ IsTrigger(jobs[n])}
     IN \E g \in Gens :
          /\ triggerCancel' = [n \in Names |->
               IF n \in loops THEN g ELSE triggerCancel[n]]
          /\ timers' = [n \in Names |->
               IF n \in loops
               THEN [timers[n] EXCEPT ![g] = LoopTimer(jobs[n])]
               ELSE timers[n]]
  /\ started' = TRUE
  /\ cronOn' = TRUE
  /\ phase' = "serving"
  /\ UNCHANGED <<db, sessions, config, jobs, entryIDs, running, run, calls, dirty>>

-----------------------------------------------------------------------------
(***************************************************************************)
(* The API.  A client has one call in progress; the gateway serves calls   *)
(* until the process is gone, also while Stop is waiting.                  *)
(***************************************************************************)
Up == phase \in {"serving", "stopping", "stopped"}

At(c, op, step) == calls[c].op \in op /\ calls[c].step = step

GotoWith(c, step, job) ==
  calls' = [calls EXCEPT ![c] =
              [op |-> calls[c].op, step |-> step, name |-> calls[c].name,
               job |-> job]]
Goto(c, step) == GotoWith(c, step, calls[c].job)
\* Mutant of Return: the call's name and job stay behind.
ReturnKeepsJob(c) == Goto(c, "idle")

Return(c) == calls' = [calls EXCEPT ![c] = NoCall]

CallersOn(n) == {c \in Clients : calls[c].name = n}

\* A call arrives with valid arguments (a rejected one changes nothing).
Arrive(c, op, n, arg) ==
  /\ Up
  /\ calls[c] = NoCall
  /\ calls' = [calls EXCEPT ![c] =
                 [op |-> op, step |-> "check", name |-> n, job |-> arg]]
  /\ dirty' = IF CallersOn(n) = {} THEN dirty ELSE dirty \cup {n}
  /\ UNCHANGED <<db, sessions, life, runtime, running, run>>

CallCreate(c) ==
  \E n \in Names, d \in Def, on \in BOOLEAN :
    Arrive(c, "create", n, [def |-> d, enabled |-> on, source |-> "db"])

CallUpdate(c) ==
  \E n \in Names, p \in Patches : Arrive(c, "update", n, p)

CallOther(c) ==
  \E n \in Names, op \in {"delete"} \cup Toggles :
    Arrive(c, op, n, None)

\* The database refuses a statement: the call reports the error and is over.
\* Only SetPersistentEnabled has then changed the row and not the registry.
DbError(c) ==
  /\ DbMayFail
  /\ calls[c].step \in {"insert", "read", "write", "reread", "erase", "rollback"}
  /\ Return(c)
  /\ dirty' = IF calls[c].step = "reread" THEN dirty \cup {calls[c].name} ELSE dirty
  /\ UNCHANGED <<db, sessions, life, runtime, running, run>>

\* CreatePersistent: HasJob.
CreateCheck(c) ==
  LET n == calls[c].name IN
  /\ At(c, {"create"}, "check")
  /\ IF jobs[n] # None THEN Return(c) ELSE Goto(c, "insert")
  /\ UNCHANGED <<db, sessions, life, runtime, running, run, dirty>>

\* cronStore.Create: the name is UNIQUE in cron_jobs.
CreateInsert(c) ==
  LET n == calls[c].name
      job == calls[c].job
  IN
  /\ At(c, {"create"}, "insert")
  /\ IF db[n] # None
     THEN Return(c) /\ UNCHANGED db
     ELSE /\ db' = [db EXCEPT ![n] = [def |-> job.def, enabled |-> job.enabled]]
          /\ Goto(c, "register")
  /\ UNCHANGED <<sessions, life, runtime, running, run, dirty>>

\* addOrReplaceJob(job, false) fails on a name registered meanwhile, and the
\* row is then deleted again.
CreateRegister(c) ==
  LET n == calls[c].name IN
  /\ At(c, {"create"}, "register")
  /\ IF jobs[n] # None
     THEN Goto(c, "rollback") /\ UNCHANGED runtime
     ELSE \E g \in FreeGens(n) : Register(n, calls[c].job, g) /\ Return(c)
  /\ UNCHANGED <<db, sessions, life, running, run, dirty>>

CreateRollback(c) ==
  /\ At(c, {"create"}, "rollback")
  /\ db' = [db EXCEPT ![calls[c].name] = None]
  /\ Return(c)
  /\ UNCHANGED <<sessions, life, runtime, running, run, dirty>>

\* Mutant of ReadOnly: the source of the registered job is not looked at.
ReadOnlyNever(n) == FALSE

ReadOnly(n) == jobs[n] # None /\ jobs[n].source = "config"

\* The first check of UpdatePersistent, DeletePersistent and
\* SetPersistentEnabled: a config job is read-only.
CheckReadOnly(c) ==
  LET n == calls[c].name
      next == CASE calls[c].op = "update" -> "read"
                [] calls[c].op = "delete" -> "erase"
                [] OTHER -> "write"
  IN
  /\ At(c, {"update", "delete"} \cup Toggles, "check")
  /\ IF ReadOnly(n) THEN Return(c) ELSE Goto(c, next)
  /\ UNCHANGED <<db, sessions, life, runtime, running, run, dirty>>

\* The merge of UpdatePersistent: an absent field keeps the stored value, and
\* a new schedule replaces a trigger and the other way round.
MergeDef(def, p) ==
  [when |-> IF p.when = None THEN def.when ELSE p.when,
   prompt |-> IF p.prompt = None THEN def.prompt ELSE p.prompt,
   mode |-> IF p.mode = None THEN def.mode ELSE p.mode]

\* Mutant of Merge: the stored "enabled" is not carried over.
MergeEnabled(row, p) ==
  [def |-> MergeDef(row.def, p), enabled |-> TRUE, source |-> "db"]

Merge(row, p) ==
  [def |-> MergeDef(row.def, p), enabled |-> row.enabled, source |-> "db"]

UpdateRead(c) ==
  LET row == db[calls[c].name] IN
  /\ At(c, {"update"}, "read")
  /\ IF row = None THEN Return(c)
     ELSE GotoWith(c, "write", Merge(row, calls[c].job))
  /\ UNCHANGED <<db, sessions, life, runtime, running, run, dirty>>

\* UpdateByName writes the definition and leaves "enabled" alone.
UpdateWrite(c) ==
  LET n == calls[c].name IN
  /\ At(c, {"update"}, "write")
  /\ IF db[n] = None THEN Return(c) /\ UNCHANGED db
     ELSE /\ db' = [db EXCEPT ![n] = [def |-> calls[c].job.def, enabled |-> db[n].enabled]]
          /\ Goto(c, "register")
  /\ UNCHANGED <<sessions, life, runtime, running, run, dirty>>

SetEnabledWrite(c) ==
  LET n == calls[c].name IN
  /\ At(c, Toggles, "write")
  /\ IF db[n] = None THEN Return(c) /\ UNCHANGED db
     ELSE /\ db' = [db EXCEPT ![n] = [def |-> db[n].def,
                                enabled |-> calls[c].op = "enable"]]
          /\ Goto(c, "reread")
  /\ UNCHANGED <<sessions, life, runtime, running, run, dirty>>

SetEnabledReread(c) ==
  LET row == db[calls[c].name] IN
  /\ At(c, Toggles, "reread")
  /\ IF row = None THEN Return(c)
     ELSE GotoWith(c, "register", [def |-> row.def, enabled |-> row.enabled,
                                   source |-> "db"])
  /\ UNCHANGED <<db, sessions, life, runtime, running, run, dirty>>

\* addOrReplaceJob(job, true): the end of an update and of a toggle.
Replace(c) ==
  LET n == calls[c].name IN
  /\ At(c, {"update"} \cup Toggles, "register")
  /\ \E g \in FreeGens(n) : Register(n, calls[c].job, g)
  /\ Return(c)
  /\ UNCHANGED <<db, sessions, life, running, run, dirty>>

DeleteErase(c) ==
  LET n == calls[c].name IN
  /\ At(c, {"delete"}, "erase")
  /\ IF db[n] = None THEN Return(c) /\ UNCHANGED db
     ELSE db' = [db EXCEPT ![n] = None] /\ Goto(c, "unregister")
  /\ UNCHANGED <<sessions, life, runtime, running, run, dirty>>

DeleteUnregister(c) ==
  LET n == calls[c].name IN
  /\ At(c, {"delete"}, "unregister")
  /\ IF jobs[n] = None THEN UNCHANGED runtime ELSE Unregister(n)
  /\ Return(c)
  /\ UNCHANGED <<db, sessions, life, running, run, dirty>>

-----------------------------------------------------------------------------
(***************************************************************************)
(* Firing, and runJob in the goroutine that executes it.                   *)
(***************************************************************************)
Fire(x, n, job) ==
  /\ run[x] = Idle
  /\ Cardinality({y \in Executors : run[y] # Idle}) < MaxRuns
  /\ run' = [run EXCEPT ![x] = [step |-> "fired", name |-> n, job |-> job]]
  /\ UNCHANGED <<db, sessions, life, runtime, running, calls, dirty>>

\* The cron library starts a goroutine with the job its entry captured.
EntryFires(x, n, g) ==
  /\ cronOn
  /\ timers[n][g].kind = "entry"
  /\ Fire(x, n, timers[n][g].job)

\* A tick of runTriggerLoop.  When the tick and the cancellation are both
\* ready Go's select takes either, so a cancelled loop may fire once more.
LoopFires(n, g) ==
  /\ timers[n][g].kind = "loop"
  /\ Fire(<<n, g>>, n, timers[n][g].job)

LoopExits(n, g) ==
  /\ timers[n][g].kind = "loop"
  /\ ~timers[n][g].live
  /\ run[<<n, g>>] = Idle
  /\ timers' = [timers EXCEPT ![n][g] = NoTimer]
  /\ UNCHANGED <<db, sessions, life, jobs, entryIDs, triggerCancel, running,
                 run, calls, dirty>>

\* RunNow executes the registered job in the caller's goroutine.
RunNow(c, n) ==
  /\ Up
  /\ jobs[n] # None
  /\ Fire(c, n, jobs[n])

RunAt(x, step) == run[x].step = step
RunGoto(x, step) ==
  run' = [run EXCEPT ![x] = [step |-> step, name |-> run[x].name,
                             job |-> run[x].job]]
\* Mutant of RunReturn: the captured job stays behind.
RunReturnKeepsJob(x) == RunGoto(x, "idle")

RunReturn(x) == run' = [run EXCEPT ![x] = Idle]

\* Mutant of AlreadyRunning: no check.
NeverRunning(n) == FALSE

AlreadyRunning(n) == n \in running

\* Mutant of Skip: the deferred clear is in place before the check, so the run
\* that is skipped clears the mark of the other.
SkipClears(x) == RunReturn(x) /\ running' = running \ {run[x].name}

Skip(x) == RunReturn(x) /\ UNCHANGED running

\* markJobRunning; a job that is already running is skipped.
Mark(x) ==
  /\ RunAt(x, "fired")
  /\ IF AlreadyRunning(run[x].name)
     THEN Skip(x)
     ELSE running' = running \cup {run[x].name} /\ RunGoto(x, "select")
  /\ UNCHANGED <<db, sessions, life, runtime, calls, dirty>>

\* selectSession: a shared job looks for a session of its channel.
SelectSession(x) ==
  /\ RunAt(x, "select")
  /\ IF run[x].job.def.mode = "shared" /\ sessions[run[x].name].any
     THEN RunGoto(x, "agent") ELSE RunGoto(x, "create")
  /\ UNCHANGED <<db, sessions, life, runtime, running, calls, dirty>>

CreateSession(x) ==
  LET n == run[x].name
      made == IF run[x].job.def.mode = "shared" THEN 1 ELSE 0
  IN
  /\ RunAt(x, "create")
  /\ sessions[n].shared + made <= MaxSessions
  /\ sessions' = [sessions EXCEPT
       ![n] = [any |-> TRUE, shared |-> sessions[n].shared + made]]
  /\ RunGoto(x, "agent")
  /\ UNCHANGED <<db, life, runtime, running, calls, dirty>>

\* Mutant of SessionFails: the early return skips clearJobRunning.
SessionFailsUncleared(x) ==
  /\ RunAt(x, "create")
  /\ RunReturn(x)
  /\ UNCHANGED <<db, sessions, life, runtime, running, calls, dirty>>

\* sessions.Create fails: runJob returns early.
SessionFails(x) ==
  /\ RunAt(x, "create")
  /\ RunGoto(x, "clear")
  /\ UNCHANGED <<db, sessions, life, runtime, running, calls, dirty>>

\* agent.Run ends, with an answer, an error or by its timeout.
AgentReturns(x) ==
  /\ RunAt(x, "agent")
  /\ RunGoto(x, "clear")
  /\ UNCHANGED <<db, sessions, life, runtime, running, calls, dirty>>

\* The job's timeout ends the context of the run and nothing else: a tool that
\* does not look at it (an MCP server that keeps silent, a command whose
\* descendant holds its output) keeps the run for as long as it likes.
ToolHangs(x) ==
  /\ RunAt(x, "agent")
  /\ RunGoto(x, "stuck")
  /\ UNCHANGED <<db, sessions, life, runtime, running, calls, dirty>>

ToolReturns(x) ==
  /\ RunAt(x, "stuck")
  /\ RunGoto(x, "clear")
  /\ UNCHANGED <<db, sessions, life, runtime, running, calls, dirty>>

\* The deferred clearJobRunning.
Clear(x) ==
  /\ RunAt(x, "clear")
  /\ running' = running \ {run[x].name}
  /\ RunReturn(x)
  /\ UNCHANGED <<db, sessions, life, runtime, calls, dirty>>

RunStep(x) ==
  Mark(x) \/ SelectSession(x) \/ CreateSession(x) \/ AgentReturns(x) \/ Clear(x)

-----------------------------------------------------------------------------
(***************************************************************************)
(* Shutdown and crash.                                                     *)
(***************************************************************************)
\* Mutant of LoopsCancelled: triggerCancel is emptied, no loop is cancelled.
LoopsForgotten == timers

LoopsCancelled ==
  [n \in Names |-> [g \in Gens |->
     IF timers[n][g].kind = "loop"
     THEN Cancelled(timers[n][g]) ELSE timers[n][g]]]

\* The critical section of Stop, then cron.Stop.
Stop ==
  /\ phase = "serving"
  /\ phase' = "stopping"
  /\ started' = FALSE
  /\ cronOn' = FALSE
  /\ triggerCancel' = Nowhere
  /\ timers' = LoopsCancelled
  /\ UNCHANGED <<db, sessions, config, jobs, entryIDs, running, run, calls, dirty>>

\* Mutant of LibraryIdle: callers of RunNow and trigger loops are waited for.
EverybodyIdle == \A x \in Executors : run[x] = Idle

LibraryIdle == \A x \in Slots : run[x] = Idle

\* Stop waits for the goroutines of the cron library, and for no others.
StopReturns ==
  /\ phase = "stopping"
  /\ LibraryIdle
  /\ phase' = "stopped"
  /\ UNCHANGED <<db, sessions, config, started, cronOn, runtime, running, run,
                 calls, dirty>>

\* The process exits or dies, at any point of any call or run.
Crash ==
  /\ phase # "down"
  /\ phase' = "down" /\ config' = {} /\ started' = FALSE /\ cronOn' = FALSE
  /\ jobs' = Nowhere /\ entryIDs' = Nowhere /\ triggerCancel' = Nowhere
  /\ timers' = NoTimers
  /\ running' = {} /\ run' = AllIdle /\ calls' = NoCalls /\ dirty' = {}
  /\ UNCHANGED <<db, sessions>>

CallStep(c) ==
  \/ CreateCheck(c) \/ CreateInsert(c) \/ CreateRegister(c) \/ CreateRollback(c)
  \/ CheckReadOnly(c) \/ UpdateRead(c) \/ UpdateWrite(c)
  \/ SetEnabledWrite(c) \/ SetEnabledReread(c) \/ Replace(c)
  \/ DeleteErase(c) \/ DeleteUnregister(c)

Next ==
  \/ AddConfigJobs \/ LoadPersistedJobs \/ LoadFails \/ Start
  \/ Stop \/ StopReturns \/ Crash
  \/ \E c \in Clients :
       CallCreate(c) \/ CallUpdate(c) \/ CallOther(c) \/ CallStep(c) \/ DbError(c)
  \/ \E x \in Slots, n \in Names, g \in Gens : EntryFires(x, n, g)
  \/ \E n \in Names, g \in Gens : LoopFires(n, g) \/ LoopExits(n, g)
  \/ \E c \in Clients, n \in Names : RunNow(c, n)
  \/ \E x \in Executors :
       RunStep(x) \/ SessionFails(x) \/ ToolHangs(x) \/ ToolReturns(x)

Spec == Init /\ [][Next]_vars

\* A goroutine that is runnable runs; agent.Run ends by its timeout unless a
\* tool ignores its context, and nothing makes such a tool return (ToolReturns
\* is not fair); select chooses at random between a tick and a cancellation, so
\* a cancelled loop that comes back to it for ever leaves in the end.  Nobody
\* has to call, fire, stop or crash, and no property needs a call to finish.
Fairness ==
  /\ \A x \in Executors : WF_vars(RunStep(x))
  /\ \A n \in Names, g \in Gens : SF_vars(LoopExits(n, g))
  /\ WF_vars(StopReturns)

FairSpec == Spec /\ Fairness

-----------------------------------------------------------------------------
TypeOK ==
  /\ db \in [Names -> Row \cup {None}]
  /\ sessions \in [Names -> [any : BOOLEAN, shared : 0..MaxSessions]]
  /\ phase \in {"down", "configured", "loaded", "serving", "stopping", "stopped"}
  /\ config \in SUBSET ConfigNames
  /\ jobs \in [Names -> Job \cup {None}]
  /\ entryIDs \in [Names -> Gens \cup {None}]
  /\ triggerCancel \in [Names -> Gens \cup {None}]
  /\ timers \in [Names -> [Gens -> Timer]]
  /\ started \in BOOLEAN
  /\ cronOn \in BOOLEAN
  /\ running \in SUBSET Names
  /\ run \in [Executors -> Run]
  /\ calls \in [Clients -> Call]
  /\ dirty \in SUBSET Names

\* At most one goroutine is inside runJob past its mark for any one job,
\* whichever of schedule, trigger loops (a cancelled one included) and RunNow
\* callers started them: two runs would interleave their messages in one
\* shared session (cron.go markJobRunning and clearJobRunning).
InProgress(x) == run[x].step \in RunSteps \ {"fired"}

OneRunPerJob ==
  \A x, y \in Executors :
    InProgress(x) /\ InProgress(y) /\ run[x].name = run[y].name => x = y

\* Every timer that can still fire by right belongs to the job as it is
\* registered now, and is the one the registry can cancel: no update, toggle
\* or delete leaves a timer behind that fires an earlier definition
\* (addOrReplaceJob, removeJob, Stop).
TimersMatchRegistry ==
  \A n \in Names, g \in Gens :
    timers[n][g].live =>
      /\ timers[n][g].job = jobs[n]
      /\ jobs[n].enabled
      /\ IF IsTrigger(jobs[n])
         THEN timers[n][g].kind = "loop" /\ triggerCancel[n] = g
         ELSE timers[n][g].kind = "entry" /\ entryIDs[n] = g

\* While the scheduler is started an enabled job has its timer, so no order
\* of calls loses a schedule silently (addOrReplaceJob, Start).
EnabledJobsAreArmed ==
  started => \A n \in Names :
    jobs[n] # None /\ jobs[n].enabled => \E g \in Gens : timers[n][g].live

\* A job of config.yaml keeps its definition whatever the API is asked and
\* whatever row of the same name an earlier process left in cron_jobs (the
\* read-only checks and LoadPersistedJobs).
ConfigKeepsPrecedence ==
  \A n \in config : jobs[n] = [def |-> ConfigDef, enabled |-> TRUE,
                               source |-> "config"]

\* Registry and table agree on every database job no call is working on,
\* unless two calls on that name overlapped or a failed statement (the load at
\* start-up, the re-read of a toggle) cut one short since the process started.
\* A crash anywhere in a call is repaired by the next start.
Agrees(n) ==
  IF db[n] = None THEN jobs[n] = None
  ELSE jobs[n] = [def |-> db[n].def, enabled |-> db[n].enabled, source |-> "db"]

QuietJobsAgree ==
  phase \notin {"down", "configured"} =>
    \A n \in Names \ (config \cup dirty) : CallersOn(n) = {} => Agrees(n)

\* Runs of a job in shared mode use one session, however they are started
\* and however often the process restarts: the look-up and the creation of
\* selectSession are two statements, kept apart only by the running mark.
SharedRunsShareOneSession == \A n \in Names : sessions[n].shared <= 1

\* The run in x waits for a tool that ignores its context.
Hung(x) == run[x].step = "stuck"

\* A job that is running is released, on the early returns too: otherwise it
\* is skipped as "already running" until the process restarts.  Only a tool
\* that hangs holds the mark for ever (runJob, clearJobRunning).
RunningIsReleased ==
  \A n \in Names :
    n \in running ~>
      (n \notin running \/ \E x \in Executors : Hung(x) /\ run[x].name = n)

\* Stop returns, unless a run of the cron library hangs in a tool: no
\* goroutine of the library waits for anything Stop, a client or a hanging run
\* of another kind holds.
StopIsFinite ==
  phase = "stopping" ~>
    (phase \in {"stopped", "down"} \/ \E x \in Slots : Hung(x))

\* After Stop every trigger loop ends that is not inside a run that hangs,
\* those of jobs that are replaced while the gateway still serves calls
\* included.
LoopsEndAfterStop ==
  phase \in {"stopping", "stopped"} ~>
    (phase = "down" \/ \A n \in Names, g \in Gens :
                         timers[n][g].kind = "loop" => Hung(<<n, g>>))

-----------------------------------------------------------------------------
\* "DeletePersistent deletes one DB-backed cron job and unregisters it from
\* runtime" (the comment on DeletePersistent): once its calls have returned,
\* a job without a row is not registered.
DeletedJobsAreUnregistered ==
  \A n \in Names : CallersOn(n) = {} /\ db[n] = None /\ jobs[n] # None
                      => jobs[n].source = "config"
=============================================================================
