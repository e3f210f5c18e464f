---------------------------- MODULE AdapterManager ----------------------------
(***************************************************************************)
(* The channel adapter manager of internal/plugin/plugin.go, and the       *)
(* connect and disconnect handlers of runServe (cmd/openclio/main.go) that *)
(* add and remove adapters while it runs.                                  *)
(*                                                                         *)
(* Every adapter instance has a supervisor goroutine (runWithRestart); one *)
(* more goroutine polls their health; callers of the API connect and       *)
(* disconnect.  A step is one critical section of Manager.mu or one event  *)
(* of an adapter.  Only Manager.Stop holds the lock across steps (for      *)
(* reading, while it waits), so a step that takes the lock for writing is  *)
(* blocked exactly while Stop waits.                                       *)
(*                                                                         *)
(* Abstracted: time (a delay may pass at any moment; whether an adapter    *)
(* has lived for 60 seconds is a choice), message content, what Health     *)
(* looks at, the status fields that nothing reads to decide, and the QR    *)
(* pairing and forced reconnection of WhatsApp.                            *)
(***************************************************************************)
EXTENDS Naturals, FiniteSets

CONSTANTS
  Names,        \* adapter names
  Instances,    \* adapter instances that exist in one process (a bound)
  NameOf,       \* [Instances -> Names]: what Name() returns
  Boot,         \* the instances runServe registers before manager.Start
  IgnoresStop,  \* names whose Start does not return on Stop (telegram)
  SlowConnect,  \* names whose failed connection may take a minute (telegram)
  Clients,      \* concurrent callers of connect and disconnect
  MaxRestarts,  \* maxRestarts (5 in the code)
  None          \* absence of a value

ASSUME AdapterAssumption ==
  /\ NameOf \in [Instances -> Names]
  /\ Boot \subseteq Instances
  /\ \A i, j \in Boot : NameOf[i] = NameOf[j] => i = j
  /\ IgnoresStop \subseteq Names
  /\ MaxRestarts \in Nat
  /\ None \notin Names \cup Instances

VARIABLES
  adapters, \* [Names -> Instances or None]: Manager.adapters, names are unique
  outbound, \* [Names -> Instances or None]: whose Register made the channel
  status,   \* Manager.stats: Running, by name
  made,     \* instances created so far
  done,     \* instances whose Stop has been called
  sup,      \* the runWithRestart goroutine of each instance
  health,   \* the health check loop
  calls,    \* progress of each connect or disconnect
  contended,\* ghost: names on which two calls have overlapped
  cancelled,\* the root context
  stopping  \* progress of Manager.Stop

vars == <<adapters, outbound, status, made, done, sup, health, calls, contended,
          cancelled, stopping>>

registry == <<adapters, outbound>>
environment == <<cancelled, stopping>>

SupSteps == {"none", "top", "count", "backoff", "mark", "connecting", "running",
             "failed", "clean", "gone"}
NoSup == [step |-> "none", restarts |-> 0, backoff |-> 1, chan |-> None]

NoCall == [step |-> "idle", op |-> "none", name |-> None, inst |-> None]
HealthOff == [step |-> "off", left |-> {}, inst |-> None, bad |-> FALSE]

Init ==
  /\ adapters = [n \in Names |->
       IF \E i \in Boot : NameOf[i] = n THEN CHOOSE i \in Boot : NameOf[i] = n
       ELSE None]
  /\ outbound = adapters
  /\ status = [n \in Names |-> FALSE]
  /\ made = Boot
  /\ done = {}
  /\ sup = [i \in Instances |-> NoSup]
  /\ health = HealthOff
  /\ calls = [c \in Clients |-> NoCall]
  /\ contended = {}
  /\ cancelled = FALSE
  /\ stopping = "no"

\* Manager.Start: the health loop and a supervisor for every adapter.
Start ==
  /\ health.step = "off" /\ stopping = "no"
  /\ health' = [HealthOff EXCEPT !.step = "wait"]
  /\ sup' = [i \in Instances |->
       IF i \in Boot
       THEN [step |-> "top", restarts |-> 0, backoff |-> 1, chan |-> outbound[NameOf[i]]]
       ELSE sup[i]]
  /\ UNCHANGED <<registry, status, made, done, calls, contended, environment>>

Serving == health.step # "off"

\* No reader holds Manager.mu across steps but a Stop that waits.
LockFree == stopping # "waiting"

-----------------------------------------------------------------------------
(***************************************************************************)
(* runWithRestart.                                                         *)
(***************************************************************************)
SupAt(i, step) == sup[i].step = step
SupGoto(i, step) == sup' = [sup EXCEPT ![i] =
  [step |-> step, restarts |-> sup[i].restarts, backoff |-> sup[i].backoff,
   chan |-> sup[i].chan]]
SetRunning(i, b) == status' = [status EXCEPT ![NameOf[i]] = b]

untouchedBySup == <<registry, made, done, health, calls, contended, environment>>

Top(i) ==
  /\ SupAt(i, "top")
  /\ SupGoto(i, IF cancelled THEN "gone"
                ELSE IF sup[i].restarts > 0 THEN "count" ELSE "mark")
  /\ UNCHANGED <<status, untouchedBySup>>

\* updateStatus(RestartCount++) before the delay.
Count(i) ==
  /\ SupAt(i, "count")
  /\ LockFree
  /\ SupGoto(i, "backoff")
  /\ UNCHANGED <<status, untouchedBySup>>

NextBackoff(b) == IF b < 16 THEN 2 * b ELSE b

\* The select between ctx.Done and the delay.
Backoff(i) ==
  /\ SupAt(i, "backoff")
  /\ \/ cancelled /\ SupGoto(i, "gone")
     \/ sup' = [sup EXCEPT ![i] = [step |-> "mark", restarts |-> sup[i].restarts,
          backoff |-> NextBackoff(sup[i].backoff), chan |-> sup[i].chan]]
  /\ UNCHANGED <<status, untouchedBySup>>

\* updateStatus(Running = true), then adapter.Start is entered.
Mark(i) ==
  /\ SupAt(i, "mark")
  /\ LockFree
  /\ SetRunning(i, TRUE)
  /\ SupGoto(i, "connecting")
  /\ UNCHANGED untouchedBySup

\* Start has its connection, and from here on selects on its context.
Connected(i) ==
  /\ SupAt(i, "connecting")
  /\ SupGoto(i, "running")
  /\ UNCHANGED <<status, untouchedBySup>>

\* Mutant of Failure: a long life resets the counter and not the delay.
FailureKeepsBackoff(i, long) ==
  [step |-> "failed", restarts |-> IF long THEN 1 ELSE sup[i].restarts + 1,
   backoff |-> sup[i].backoff, chan |-> sup[i].chan]

Failure(i, long) ==
  [step |-> "failed", restarts |-> IF long THEN 1 ELSE sup[i].restarts + 1,
   backoff |-> IF long THEN 1 ELSE sup[i].backoff, chan |-> sup[i].chan]

MayBeLong(i) ==
  IF sup[i].step = "connecting" /\ NameOf[i] \notin SlowConnect
  THEN {FALSE} ELSE BOOLEAN

\* Start returns an error, after a life of more than 60 seconds or less; under
\* a cancelled context that is a normal exit.
StartFails(i) ==
  /\ sup[i].step \in {"connecting", "running"}
  /\ IF cancelled THEN SupGoto(i, "gone")
     ELSE \E long \in MayBeLong(i) : sup' = [sup EXCEPT ![i] = Failure(i, long)]
  /\ UNCHANGED <<status, untouchedBySup>>

\* Mutant of ReturnsOn: the adapter looks at the context and not at Stop.
ReturnsOnCancel(i) == cancelled

ReturnsOn(i) == cancelled \/ (i \in done /\ NameOf[i] \notin IgnoresStop)

\* Start returns nil: its select saw ctx.Done, or done closed by Stop.
StartReturns(i) ==
  /\ SupAt(i, "running")
  /\ ReturnsOn(i)
  /\ SupGoto(i, IF cancelled THEN "gone" ELSE "clean")
  /\ UNCHANGED <<status, untouchedBySup>>

\* Mutant of GivesUp: one restart too many.
GivesUpLate(i) == sup[i].restarts > MaxRestarts + 1

GivesUp(i) == sup[i].restarts > MaxRestarts

\* updateStatus after an error, then another attempt or none.
Failed(i) ==
  /\ SupAt(i, "failed")
  /\ LockFree
  /\ SetRunning(i, FALSE)
  /\ SupGoto(i, IF GivesUp(i) THEN "gone" ELSE "top")
  /\ UNCHANGED untouchedBySup

\* Mutant of Clean: the status is not updated on a clean exit.
CleanUnseen(i) ==
  /\ SupAt(i, "clean")
  /\ SupGoto(i, "gone")
  /\ UNCHANGED <<status, untouchedBySup>>

\* updateStatus after a clean exit; the adapter is not restarted.
Clean(i) ==
  /\ SupAt(i, "clean")
  /\ LockFree
  /\ SetRunning(i, FALSE)
  /\ SupGoto(i, "gone")
  /\ UNCHANGED untouchedBySup

SupStep(i) ==
  Top(i) \/ Count(i) \/ Backoff(i) \/ Mark(i) \/ Failed(i) \/ Clean(i)

-----------------------------------------------------------------------------
(***************************************************************************)
(* healthCheckLoop: an unhealthy adapter is stopped.                       *)
(***************************************************************************)
untouchedByHealth == <<registry, made, sup, calls, contended, environment>>

Tick ==
  /\ health.step = "wait"
  /\ health' = IF cancelled THEN [HealthOff EXCEPT !.step = "gone"]
               ELSE [step |-> "probe", left |-> {adapters[n] : n \in Names} \ {None},
                     inst |-> None, bad |-> FALSE]
  /\ UNCHANGED <<status, done, untouchedByHealth>>

Probe ==
  /\ health.step = "probe"
  /\ IF health.left = {} THEN health' = [HealthOff EXCEPT !.step = "wait"]
     ELSE \E i \in health.left, bad \in BOOLEAN :
            health' = [step |-> "update", left |-> health.left \ {i},
                       inst |-> i, bad |-> bad]
  /\ UNCHANGED <<status, done, untouchedByHealth>>

\* updateStatus with the result, then Stop of an unhealthy adapter.
Report ==
  /\ health.step = "update"
  /\ LockFree
  /\ done' = IF health.bad THEN done \cup {health.inst} ELSE done
  /\ health' = [step |-> "probe", left |-> health.left, inst |-> None, bad |-> FALSE]
  /\ UNCHANGED <<status, untouchedByHealth>>

-----------------------------------------------------------------------------
(***************************************************************************)
(* The connect and disconnect handlers, which nothing serialises.          *)
(***************************************************************************)
CallAt(c, step) == calls[c].step = step
CallGoto(c, step, i) == calls' = [calls EXCEPT ![c] =
  [step |-> step, op |-> calls[c].op, name |-> calls[c].name, inst |-> i]]
CallReturn(c) == calls' = [calls EXCEPT ![c] = NoCall]

untouchedByCall == <<health, environment>>

CallersOn(n) == {c \in Clients : calls[c].name = n}

\* AdapterByName: a connect looks at the status of what is there.
Connect(c, n) ==
  /\ Serving
  /\ CallAt(c, "idle")
  /\ contended' = IF CallersOn(n) = {} THEN contended ELSE contended \cup {n}
  /\ calls' = [calls EXCEPT ![c] =
       [step |-> IF adapters[n] = None THEN "create" ELSE "status",
        op |-> "connect", name |-> n, inst |-> None]]
  /\ UNCHANGED <<registry, status, made, done, sup, untouchedByCall>>

Disconnect(c, n) ==
  /\ Serving
  /\ CallAt(c, "idle")
  /\ contended' = IF CallersOn(n) = {} THEN contended ELSE contended \cup {n}
  /\ calls' = [calls EXCEPT ![c] = [step |-> "lookup", op |-> "disconnect",
                                    name |-> n, inst |-> None]]
  /\ UNCHANGED <<registry, status, made, done, sup, untouchedByCall>>

\* Mutant of ConnectStatus: what is there is not disconnected first.
ConnectOver(c) ==
  /\ CallAt(c, "status")
  /\ IF status[calls[c].name] THEN CallReturn(c) ELSE CallGoto(c, "create", None)
  /\ UNCHANGED <<registry, status, made, done, sup, contended, untouchedByCall>>

\* A channel whose status is running is already connected.
ConnectStatus(c) ==
  /\ CallAt(c, "status")
  /\ IF status[calls[c].name] THEN CallReturn(c) ELSE CallGoto(c, "lookup", None)
  /\ UNCHANGED <<registry, status, made, done, sup, contended, untouchedByCall>>

\* disconnectRuntimeChannel, step by step.
Lookup(c) ==
  LET i == adapters[calls[c].name] IN
  /\ CallAt(c, "lookup")
  /\ IF i = None THEN CallReturn(c) ELSE CallGoto(c, "stop", i)
  /\ UNCHANGED <<registry, status, made, done, sup, contended, untouchedByCall>>

StopAdapter(c) ==
  /\ CallAt(c, "stop")
  /\ done' = done \cup {calls[c].inst}
  /\ CallGoto(c, "unregister", None)
  /\ UNCHANGED <<registry, status, made, sup, contended, untouchedByCall>>

\* Unregister goes by name, whichever instance has it by now.
Unregister(c) ==
  LET n == calls[c].name IN
  /\ CallAt(c, "unregister")
  /\ LockFree
  /\ adapters' = [adapters EXCEPT ![n] = None]
  /\ outbound' = [outbound EXCEPT ![n] = None]
  /\ status' = [status EXCEPT ![n] = FALSE]
  /\ IF calls[c].op = "connect" THEN CallGoto(c, "create", None) ELSE CallReturn(c)
  /\ UNCHANGED <<made, done, sup, contended, untouchedByCall>>

\* The adapter's constructor, which may fail.
Create(c) ==
  /\ CallAt(c, "create")
  /\ \/ CallReturn(c) /\ UNCHANGED made
     \/ \E i \in Instances \ made :
          /\ NameOf[i] = calls[c].name
          /\ made' = made \cup {i}
          /\ CallGoto(c, "register", i)
  /\ UNCHANGED <<registry, status, done, sup, contended, untouchedByCall>>

\* Register skips a name that is taken and does not say so.
Register(c) ==
  LET n == calls[c].name
      i == calls[c].inst
  IN
  /\ CallAt(c, "register")
  /\ LockFree
  /\ IF adapters[n] # None THEN UNCHANGED registry
     ELSE /\ adapters' = [adapters EXCEPT ![n] = i]
          /\ outbound' = [outbound EXCEPT ![n] = i]
  /\ CallGoto(c, "run", i)
  /\ UNCHANGED <<status, made, done, sup, contended, untouchedByCall>>

\* RunOne: the supervisor reads the channel its name has at this moment.
RunOne(c) ==
  LET ch == outbound[calls[c].name] IN
  /\ CallAt(c, "run")
  /\ sup' = IF ch = None THEN sup
            ELSE [sup EXCEPT ![calls[c].inst] =
                    [step |-> "top", restarts |-> 0, backoff |-> 1, chan |-> ch]]
  /\ CallReturn(c)
  /\ UNCHANGED <<registry, status, made, done, contended, untouchedByCall>>

CallStep(c) ==
  ConnectStatus(c) \/ Lookup(c) \/ StopAdapter(c) \/ Unregister(c) \/ Create(c)
  \/ Register(c) \/ RunOne(c)

-----------------------------------------------------------------------------
(***************************************************************************)
(* Shutdown: cancel(), then manager.Stop().                                *)
(***************************************************************************)
untouchedByStop == <<registry, status, made, sup, health, calls, contended>>

Cancel ==
  /\ Serving /\ ~cancelled
  /\ cancelled' = TRUE
  /\ UNCHANGED <<done, stopping, untouchedByStop>>

\* Stop takes the lock for reading and calls every adapter's Stop.
Stop ==
  /\ cancelled /\ stopping = "no"
  /\ stopping' = "waiting"
  /\ done' = done \cup ({adapters[n] : n \in Names} \ {None})
  /\ UNCHANGED <<cancelled, untouchedByStop>>

\* Mutant of Joined: the supervisors started by RunOne are not counted.
JoinedBoot == \A i \in Boot : sup[i].step \in {"none", "gone"}

\* wg.Wait: every supervisor and the health loop have returned.
Joined ==
  /\ \A i \in Instances : sup[i].step \in {"none", "gone"}
  /\ health.step = "gone"

StopReturns ==
  /\ stopping = "waiting"
  /\ Joined
  /\ stopping' = "returned"
  /\ UNCHANGED <<done, cancelled, untouchedByStop>>

Next ==
  \/ Start \/ Cancel \/ Stop \/ StopReturns
  \/ Tick \/ Probe \/ Report
  \/ \E i \in Instances :
       \/ SupStep(i) \/ Connected(i) \/ StartFails(i) \/ StartReturns(i)
  \/ \E c \in Clients :
       \/ CallStep(c)
       \/ \E n \in Names : Connect(c, n) \/ Disconnect(c, n)

Spec == Init /\ [][Next]_vars

\* A goroutine that can run runs and a delay passes.  An adapter's select
\* chooses at random among what is ready, so a Start that keeps coming back to
\* a closed done channel or context returns.  A connection attempt ends; a
\* Start that is connected need not fail, and nobody has to call.
Fairness ==
  /\ \A i \in Instances :
       /\ WF_vars(SupStep(i))
       /\ WF_vars(Connected(i) \/ (SupAt(i, "connecting") /\ StartFails(i)))
       /\ SF_vars(StartReturns(i))
  /\ \A c \in Clients : WF_vars(CallStep(c))
  /\ WF_vars(Tick) /\ WF_vars(Probe) /\ WF_vars(Report)
  /\ WF_vars(Stop) /\ WF_vars(StopReturns)

FairSpec == Spec /\ Fairness

-----------------------------------------------------------------------------
TypeOK ==
  /\ adapters \in [Names -> Instances \cup {None}]
  /\ outbound \in [Names -> Instances \cup {None}]
  /\ status \in [Names -> BOOLEAN]
  /\ made \subseteq Instances
  /\ done \subseteq Instances
  /\ sup \in [Instances -> [step : SupSteps, restarts : 0..(MaxRestarts + 1),
                            backoff : {1, 2, 4, 8, 16},
                            chan : Instances \cup {None}]]
  /\ health \in [step : {"off", "wait", "probe", "update", "gone"},
                 left : SUBSET Instances, inst : Instances \cup {None},
                 bad : BOOLEAN]
  /\ calls \in [Clients ->
       [step : {"idle", "status", "lookup", "stop", "unregister", "create",
                "register", "run"},
        op : {"none", "connect", "disconnect"},
        name : Names \cup {None}, inst : Instances \cup {None}]]
  /\ contended \subseteq Names
  /\ cancelled \in BOOLEAN
  /\ stopping \in {"no", "waiting", "returned"}

\* An adapter that keeps crashing is restarted at most five times, after 1, 2,
\* 4, 8 and 16 seconds, and a life of a minute starts the count over: the
\* counter and the delay, which the code changes in different places of the
\* loop, stay in step (runWithRestart and docs/plugins.md, "Auto-restart").
Delay == <<1, 2, 4, 8, 16>>

BackoffSchedule ==
  \A i \in Instances :
    sup[i].step \in {"count", "backoff"} =>
      /\ sup[i].restarts \in 1..MaxRestarts
      /\ sup[i].restarts <= 5 => sup[i].backoff = Delay[sup[i].restarts]

\* What the connect handler reads before it decides that a channel is
\* connected: Running says whether the registered instance is inside Start,
\* as long as it is the only one its name has had.
StatusIsTrue ==
  \A i \in Instances :
    LET n == NameOf[i] IN
    ~cancelled /\ adapters[n] = i /\ {j \in made : NameOf[j] = n} = {i} =>
      status[n] = (sup[i].step \in {"connecting", "running", "failed", "clean"})

\* Every supervised instance reads the channel its own Register made, so no
\* two instances take each other's messages, on a name whose connects and
\* disconnects have not overlapped (Register skips a taken name silently and
\* RunOne looks the channel up by name).
OwnChannel ==
  \A i \in Instances :
    NameOf[i] \notin contended => sup[i].chan \in {None, i}

\* When Stop has returned no instance is inside Start, nor will one be, even
\* if a connect comes in late (the context is cancelled before Stop, and the
\* supervisor looks at it before anything else).
StoppedMeansQuiet ==
  stopping = "returned" =>
    \A i \in Instances : sup[i].step \in {"none", "top", "gone"}

\* An adapter whose Stop was called, by a disconnect or by the health loop, ends
\* for good, a restart that was pending included (runWithRestart after Stop).
\* The docs promise something else twice (docs/plugins.md).  "Unhealthy adapters
\* are logged at ERROR level": the code ends them, on the first failed check.  And
\* "Stop(): Signal Start() to return": names in IgnoresStop, telegram's kind, break
\* this contract and are excepted here.
DisconnectedStops ==
  \A i \in Instances :
    i \in done /\ NameOf[i] \notin IgnoresStop
      ~> [](sup[i].step \notin {"connecting", "running"})

\* "Stop signals all adapters to shut down and waits for them to finish" (its
\* comment): the wait ends.
StopEnds == stopping = "waiting" ~> stopping = "returned"
=============================================================================
