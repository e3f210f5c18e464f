------------------------------- MODULE McpServer -------------------------------
(***************************************************************************)
(* One MCP stdio server: the client of internal/mcp/client.go, the health  *)
(* supervisor of cmd/openclio/main.go and the start-up in registerMCPTools.*)
(*                                                                         *)
(* The actors are the main goroutine (start-up, then the periodic health   *)
(* check), the exit watcher, callers of the server's tools and an operator *)
(* who asks for a restart.  They share Server.mu, which a request keeps    *)
(* from the write until its answer is read, and the supervisor's state.    *)
(* The server process is the environment: it answers in any order, late or *)
(* never, and may exit at any time; each process is a generation.          *)
(*                                                                         *)
(* Abstracted: time (a retry time passes and a context expires at any      *)
(* moment), payloads, the pages of tools/list, what the process writes to  *)
(* stderr, and the status fields that are only displayed.                  *)
(***************************************************************************)
EXTENDS Naturals, FiniteSets

CONSTANTS
  Callers,     \* goroutines that call tools of this server
  Gens,        \* processes that are launched (a bound)
  MaxRequests, \* requests to one process (a bound)
  MaxOps,      \* restarts the operator asks for (a bound)
  MaxFailures, \* maxFailures (8 in the code)
  MaxBackoff,  \* maxBackoff in units of initialBackoff (120)
  None         \* absence of a value

ASSUME McpAssumption ==
  /\ Gens = 1..Cardinality(Gens)
  /\ {MaxRequests, MaxOps} \subseteq Nat
  /\ {MaxFailures, MaxBackoff} \subseteq Nat \ {0}
  /\ None \notin Gens
  /\ None \notin Callers \cup {"main", "watch", "operator"}
  /\ Callers \cap {"main", "watch", "operator"} = {}

Actors == Callers \cup {"main", "watch", "operator"}

VARIABLES
  proc,    \* [Gens -> ...]: the process: not launched, alive, dead, reaped
  asked,   \* [Gens -> set of ids]: requests whose answer nobody has read
  closed,  \* generations whose stdin Stop has closed
  mu,      \* the actor that holds Server.mu across steps
  cmd,     \* Server.cmd, stdin and stdout: the generation, or None
  exitCh,  \* Server.exitCh: the generation whose exit it reports
  nextID,  \* Server.nextID
  act,     \* progress of each actor
  sup,     \* mcpRuntimeState
  phase,   \* start-up of the program
  seen,    \* watchExit's observed: the last exit channel it waited for
  ops      \* restarts the operator has asked for

server == <<proc, asked, closed>>
client == <<mu, cmd, exitCh, nextID>>
vars == <<server, client, act, sup, phase, seen, ops>>

Steps == {"idle", "call", "read", "answered", "stop", "stopping", "killed",
          "spawn", "install", "notify", "started", "listed", "dead", "mark", "wait",
          "fail"}
\* What an actor is doing when it is inside a request, a Stop or a Start.
Todos == {"none", "tool", "first", "check", "init", "restart", "abort"}
Resting == [step |-> "idle", todo |-> "none", gen |-> None, id |-> 0, got |-> 0]

Fresh == [inFlight |-> FALSE, disabled |-> FALSE, status |-> "healthy",
          failures |-> 0, backoff |-> 0, waiting |-> FALSE]

Init ==
  /\ proc = [g \in Gens |-> "none"]
  /\ asked = [g \in Gens |-> {}]
  /\ closed = {}
  /\ mu = None /\ cmd = None /\ exitCh = None /\ nextID = 0
  /\ act = [a \in Actors |-> IF a = "main" THEN [Resting EXCEPT !.step = "spawn"]
                             ELSE Resting]
  /\ sup = Fresh
  /\ phase = "starting"
  /\ seen = None
  /\ ops = 0

-----------------------------------------------------------------------------
At(a, step) == act[a].step = step
Become(a, step, todo, g) == act' = [act EXCEPT ![a] =
  [step |-> step, todo |-> todo, gen |-> g, id |-> 0, got |-> 0]]
Goto(a, step) == Become(a, step, act[a].todo, act[a].gen)
Rest(a) == act' = [act EXCEPT ![a] = Resting]

\* Where an actor goes on when its request has an answer, or an error.
AfterAnswer(todo) ==
  CASE todo = "tool" -> "idle" [] todo = "first" -> "listed"
    [] todo = "check" -> "mark" [] todo = "init" -> "notify"
AfterError(todo) ==
  CASE todo = "tool" -> "idle" [] todo = "check" -> "fail"
    [] todo \in {"first", "init"} -> "stop"
ErrorTodo(todo) == IF todo \in {"first", "init"} THEN "abort" ELSE "none"

CallFails(a) == Become(a, AfterError(act[a].todo), ErrorTodo(act[a].todo), None)
CallSucceeds(a) == Become(a, AfterAnswer(act[a].todo), "none", None)

(***************************************************************************)
(* callLocked.                                                             *)
(***************************************************************************)
\* The request is written, unless there is nothing to write to.  The context is
\* looked at before every read, never during one.
Write(a) ==
  /\ At(a, "call") /\ mu = None
  /\ IF cmd = None \/ proc[cmd] # "alive" \/ cmd \in closed
     THEN CallFails(a) /\ UNCHANGED <<server, client>>
     ELSE /\ nextID' = nextID + 1
          /\ asked' = [asked EXCEPT ![cmd] = asked[cmd] \cup {nextID + 1}]
          /\ \/ CallFails(a) /\ UNCHANGED mu
             \/ /\ mu' = a
                /\ act' = [act EXCEPT ![a] = [step |-> "read", todo |-> act[a].todo,
                             gen |-> cmd, id |-> nextID + 1, got |-> 0]]
          /\ UNCHANGED <<proc, closed, cmd, exitCh>>
  /\ UNCHANGED <<sup, phase, seen, ops>>

\* Mutant of Mine: the first line that parses is taken for the answer.
MineAny(a, id) == id # 0

Mine(a, id) == id = act[a].id

\* The next line is an answer the process owes, in any order, or one that answers
\* nothing (0: a notification, a log line).  What is not asked for is skipped.
Read(a, id) ==
  LET g == act[a].gen IN
  /\ At(a, "read")
  /\ id \in asked[g] \cup {0}
  /\ asked' = [asked EXCEPT ![g] = asked[g] \ {id}]
  /\ IF Mine(a, id)
     THEN /\ act' = [act EXCEPT ![a].step = "answered", ![a].got = id]
          /\ UNCHANGED mu
     ELSE \/ UNCHANGED <<act, mu>>
          \/ CallFails(a) /\ mu' = None
  /\ UNCHANGED <<proc, closed, cmd, exitCh, nextID, sup, phase, seen, ops>>

\* The end of the stream: the process is gone.
ReadFails(a) ==
  /\ At(a, "read")
  /\ proc[act[a].gen] # "alive"
  /\ CallFails(a)
  /\ mu' = None
  /\ UNCHANGED <<server, cmd, exitCh, nextID, sup, phase, seen, ops>>

Answered(a) ==
  /\ At(a, "answered")
  /\ mu' = None
  /\ CallSucceeds(a)
  /\ UNCHANGED <<server, cmd, exitCh, nextID, sup, phase, seen, ops>>

-----------------------------------------------------------------------------
(***************************************************************************)
(* Start, Stop and watchProcess.                                           *)
(***************************************************************************)
Unused == {g \in Gens : proc[g] = "none"}

\* exec: the process is launched, or cannot be.
Spawn(a) ==
  /\ At(a, "spawn")
  /\ \/ Become(a, "dead", "none", None) /\ UNCHANGED proc
     \/ \E g \in Unused :
          /\ \A h \in Unused : g <= h
          /\ proc' = [proc EXCEPT ![g] = "alive"]
          /\ Become(a, "install", "none", g)
  /\ UNCHANGED <<asked, closed, client, sup, phase, seen, ops>>

Install(a) ==
  /\ At(a, "install") /\ mu = None
  /\ cmd' = act[a].gen
  /\ exitCh' = act[a].gen
  /\ nextID' = 1
  /\ Become(a, "call", "init", None)
  /\ UNCHANGED <<server, mu, sup, phase, seen, ops>>

\* notifications/initialized, whose error nobody looks at.
Notify(a) ==
  /\ At(a, "notify") /\ mu = None
  /\ Become(a, "started", "none", None)
  /\ UNCHANGED <<server, client, sup, phase, seen, ops>>

\* Stop takes what there is under the lock and closes stdin.
StopBegins(a) ==
  /\ At(a, "stop") /\ mu = None
  /\ closed' = IF cmd = None THEN closed ELSE closed \cup {cmd}
  /\ IF cmd = None THEN Goto(a, "killed")
     ELSE Become(a, "stopping", act[a].todo, cmd)
  /\ UNCHANGED <<proc, asked, client, sup, phase, seen, ops>>

\* Mutant of StopWaits: Stop returns when two seconds have passed.
StopGivesUp(a) ==
  /\ At(a, "stopping")
  /\ Become(a, "killed", act[a].todo, None)
  /\ UNCHANGED <<server, client, sup, phase, seen, ops>>

\* The exit channel is closed by watchProcess; after two seconds the process
\* is killed and then waited for.
StopWaits(a) ==
  LET g == act[a].gen IN
  /\ At(a, "stopping")
  /\ IF proc[g] = "reaped"
     THEN Become(a, "killed", act[a].todo, None) /\ UNCHANGED proc
     ELSE /\ proc[g] = "alive"
          /\ proc' = [proc EXCEPT ![g] = "dead"]
          /\ UNCHANGED act
  /\ UNCHANGED <<asked, closed, client, sup, phase, seen, ops>>

\* The end of Stop: the restart goes on, or a start is given up.
Stopped(a) ==
  /\ At(a, "killed")
  /\ IF act[a].todo = "restart" THEN Become(a, "spawn", "none", None)
     ELSE Become(a, "dead", "none", None)
  /\ UNCHANGED <<server, client, sup, phase, seen, ops>>

\* watchProcess: the process is waited for, and its connection cleared if it
\* is still the server's.  Nobody asks it anything any more.
Reap(g) ==
  /\ proc[g] = "dead" /\ mu = None
  /\ proc' = [proc EXCEPT ![g] = "reaped"]
  /\ asked' = [asked EXCEPT ![g] = {}]
  /\ closed' = closed \ {g}
  /\ cmd' = IF cmd = g THEN None ELSE cmd
  /\ UNCHANGED <<mu, exitCh, nextID, act, sup, phase, seen, ops>>

(***************************************************************************)
(* The server process may exit at any time.                                *)
(***************************************************************************)
Exit(g) ==
  /\ proc[g] = "alive"
  /\ proc' = [proc EXCEPT ![g] = "dead"]
  /\ UNCHANGED <<asked, closed, client, act, sup, phase, seen, ops>>

-----------------------------------------------------------------------------
(***************************************************************************)
(* Start-up: registerMCPTools, whose error ends the program, then the      *)
(* baseline check of the supervisor.                                       *)
(***************************************************************************)
sameServer == <<server, client, seen, ops>>

Startup ==
  /\ phase = "starting"
  /\ \/ At("main", "started") /\ Become("main", "call", "first", None) /\ UNCHANGED phase
     \/ At("main", "listed") /\ Become("main", "call", "check", None) /\ phase' = "baseline"
     \/ At("main", "dead") /\ Rest("main") /\ phase' = "failed"
  /\ UNCHANGED <<sameServer, sup>>

\* The baseline check is over: the watcher and the ticker start, then the rest.
Serve ==
  /\ phase = "baseline" /\ At("main", "idle")
  /\ phase' = "up"
  /\ UNCHANGED <<sameServer, act, sup>>

-----------------------------------------------------------------------------
(***************************************************************************)
(* The supervisor.                                                         *)
(***************************************************************************)
Supervised == phase \in {"baseline", "up"}

\* Mutant of Busy: the restart of somebody else is not looked at.
BusyWaiting == sup.waiting

Busy == sup.inFlight \/ sup.waiting

\* handleFailure up to the restart: nothing is done for a server that was given
\* up, is being restarted or has to wait for its retry time.
HandleFailure(a) ==
  /\ At(a, "fail")
  /\ IF sup.disabled \/ Busy
     THEN /\ sup' = [sup EXCEPT !.status = IF sup.disabled THEN "offline"
                       ELSE IF sup.inFlight THEN "degraded" ELSE "retrying"]
          /\ Rest(a)
     ELSE /\ sup' = [sup EXCEPT !.inFlight = TRUE, !.status = "restarting"]
          /\ Become(a, "stop", "restart", None)
  /\ UNCHANGED <<sameServer, phase>>

\* Mutant of NextBackoff: the delay is not capped.
NextBackoffUncapped(b) == IF b = 0 THEN 1 ELSE 2 * b

NextBackoff(b) ==
  IF b = 0 THEN 1 ELSE IF 2 * b > MaxBackoff THEN MaxBackoff ELSE 2 * b

\* Mutant of RestartFailed: an early return leaves RestartInFlight set.
RestartFailedStuck(a) ==
  /\ At(a, "dead") /\ Supervised
  /\ sup' = [sup EXCEPT !.status = "retrying", !.waiting = TRUE]
  /\ Rest(a)
  /\ UNCHANGED <<sameServer, phase>>

\* A restart by the supervisor fails: one more failure, then a longer delay or
\* the end.  One the operator asked for leaves counter and delay alone.
RestartFailed(a) ==
  /\ At(a, "dead") /\ Supervised
  /\ IF a = "operator"
     THEN sup' = [sup EXCEPT !.inFlight = FALSE, !.status = "degraded"]
     ELSE LET last == sup.failures + 1 >= MaxFailures IN
          sup' = [inFlight |-> FALSE, failures |-> sup.failures + 1,
                  backoff |-> NextBackoff(sup.backoff), waiting |-> TRUE,
                  disabled |-> last, status |-> IF last THEN "offline" ELSE "retrying"]
  /\ Rest(a)
  /\ UNCHANGED <<sameServer, phase>>

RestartSucceeds(a) ==
  /\ At(a, "started") /\ Supervised
  /\ sup' = [inFlight |-> FALSE, failures |-> 0, backoff |-> 1, waiting |-> FALSE,
             disabled |-> IF a = "operator" THEN sup.disabled ELSE FALSE,
             status |-> "healthy"]
  /\ Rest(a)
  /\ UNCHANGED <<sameServer, phase>>

\* Mutant of MarkHealthy: a server given up meanwhile stays given up.
MarkHealthyOnly(a) ==
  /\ At(a, "mark")
  /\ sup' = IF sup.inFlight THEN sup
            ELSE [sup EXCEPT !.failures = 0, !.waiting = FALSE, !.status = "healthy"]
  /\ Rest(a)
  /\ UNCHANGED <<sameServer, phase>>

MarkHealthy(a) ==
  /\ At(a, "mark")
  /\ sup' = IF sup.inFlight THEN sup
            ELSE [inFlight |-> FALSE, failures |-> 0, waiting |-> FALSE,
                  backoff |-> IF sup.backoff = 0 THEN 1 ELSE sup.backoff,
                  disabled |-> FALSE, status |-> "healthy"]
  /\ Rest(a)
  /\ UNCHANGED <<sameServer, phase>>

RetryTimeComes ==
  /\ sup.waiting
  /\ sup' = [sup EXCEPT !.waiting = FALSE]
  /\ UNCHANGED <<sameServer, act, phase>>

\* New requests keep to the bound.
MayAsk == cmd = None \/ nextID < MaxRequests

\* The ticker of the health loop.
Tick ==
  /\ phase = "up" /\ At("main", "idle") /\ MayAsk
  /\ Become("main", "call", "check", None)
  /\ UNCHANGED <<sameServer, sup, phase>>

\* watchExit polls for an exit channel it has not waited for yet.
Watch ==
  /\ phase = "up" /\ At("watch", "idle") /\ mu = None
  /\ exitCh \notin {None, seen}
  /\ seen' = exitCh
  /\ Become("watch", "wait", "none", exitCh)
  /\ UNCHANGED <<server, client, sup, phase, ops>>

\* The channel is closed; LastExit takes the lock.
WatchedExit ==
  /\ At("watch", "wait") /\ mu = None
  /\ proc[seen] = "reaped"
  /\ Become("watch", "fail", "none", None)
  /\ UNCHANGED <<sameServer, sup, phase>>

\* RestartMCPServer.
Operate ==
  /\ phase = "up" /\ At("operator", "idle")
  /\ ops < MaxOps
  /\ ops' = ops + 1
  /\ IF sup.inFlight THEN UNCHANGED <<sup, act>>
     ELSE /\ sup' = [sup EXCEPT !.inFlight = TRUE, !.status = "restarting",
                                !.disabled = FALSE, !.waiting = FALSE]
          /\ Become("operator", "stop", "restart", None)
  /\ UNCHANGED <<server, client, phase, seen>>

\* An agent run executes one of the server's tools.
CallTool(a) ==
  /\ phase = "up" /\ At(a, "idle") /\ MayAsk
  /\ Become(a, "call", "tool", None)
  /\ UNCHANGED <<sameServer, sup, phase>>

-----------------------------------------------------------------------------
Main == Startup \/ Serve \/ Tick
Watcher == Watch \/ WatchedExit

\* A goroutine goes on by itself.
Turn(a) ==
  \/ Write(a) \/ ReadFails(a) \/ Answered(a)
  \/ Spawn(a) \/ Install(a) \/ Notify(a) \/ StopBegins(a) \/ StopWaits(a) \/ Stopped(a)
  \/ HandleFailure(a) \/ RestartFailed(a) \/ RestartSucceeds(a) \/ MarkHealthy(a)
  \/ a = "main" /\ Main
  \/ a = "watch" /\ Watcher

Next ==
  \/ \E a \in Actors : Turn(a) \/ \E id \in 0..nextID : Read(a, id)
  \/ \E a \in Callers : CallTool(a)
  \/ \E g \in Gens : Reap(g) \/ Exit(g)
  \/ RetryTimeComes \/ Operate

Spec == Init /\ [][Next]_vars

\* Every goroutine goes on, the mutex starves nobody, timers fire.
ProgramFairness ==
  /\ \A a \in Actors : SF_vars(Turn(a))
  /\ SF_vars(\E g \in Gens : Reap(g))
  /\ WF_vars(RetryTimeComes)

\* A server that has read a request answers it some day, or exits.  (Who reads
\* holds Server.mu: there is one reader at a time.)
ServerFairness ==
  SF_vars(\E a \in Actors : At(a, "read") /\ (Read(a, act[a].id) \/ Exit(act[a].gen)))

ProgramSpec == Spec /\ ProgramFairness
FairSpec == ProgramSpec /\ ServerFairness

-----------------------------------------------------------------------------
TypeOK ==
  /\ proc \in [Gens -> {"none", "alive", "dead", "reaped"}]
  /\ asked \in [Gens -> SUBSET (Nat \ {0})]
  /\ closed \subseteq Gens
  /\ mu \in Actors \cup {None}
  /\ {cmd, exitCh, seen} \subseteq Gens \cup {None}
  /\ nextID \in Nat
  /\ act \in [Actors -> [step : Steps, todo : Todos, gen : Gens \cup {None},
                         id : Nat, got : Nat]]
  /\ sup \in [inFlight : BOOLEAN, disabled : BOOLEAN, waiting : BOOLEAN,
              status : {"healthy", "degraded", "retrying", "restarting", "offline"},
              failures : 0..(MaxFailures + MaxOps), backoff : 0..MaxBackoff]
  /\ phase \in {"starting", "baseline", "up", "failed"}
  /\ ops \in 0..MaxOps

InRestart(a) ==
  \/ act[a].step \in {"stop", "stopping", "killed", "spawn", "install", "notify",
                      "started", "dead"}
  \/ act[a].todo = "init"

\* Once the supervisor runs, RestartInFlight is set exactly while one actor, and
\* no more than one, is between the Stop and the end of the Start of a restart
\* (handleFailure and RestartMCPServer).
OneRestart ==
  Supervised =>
    /\ sup.inFlight <=> \E a \in Actors : InRestart(a)
    /\ \A a, b \in Actors : InRestart(a) /\ InRestart(b) => a = b

\* Stop returns only after the process is gone: there are never two live
\* processes of one server (Stop, restartServer).
OneLiveProcess == \A g, h \in Gens : proc[g] = "alive" /\ proc[h] = "alive" => g = h

\* A request gets its own answer, never a notification or the late answer to a
\* request that was abandoned, and the connection is not replaced under it
\* (callLocked).
AnswersMatch ==
  \A a \in Actors :
    /\ At(a, "answered") => act[a].got = act[a].id
    /\ act[a].step \in {"read", "answered"} => mu = a /\ act[a].gen = cmd

\* A server is shown offline exactly when the supervisor has given it up, also
\* when a late health check or the operator brings it back (mcpRuntimeState).
OfflineMeansDisabled == sup.status = "offline" <=> sup.disabled

\* A restart that has begun ends, and lets the next one begin (RestartInFlight).
RestartEnds == sup.inFlight ~> ~sup.inFlight

\* A server whose process is gone is restarted, or is given up in the end
\* (watchExit, runHealthChecks and handleFailure).
CrashIsNoticed == (phase = "up" /\ cmd = None) ~> (cmd # None \/ sup.disabled)

\* docs/tools.md: "Startup fails fast if a configured MCP server cannot
\* initialize."  The program comes up or ends (registerMCPTools, callLocked).
StartupFailsFast == (phase = "starting") ~> (phase # "starting")
=============================================================================
