-------------------------- MODULE McpServerProofs --------------------------
(***************************************************************************)
(* Proofs about McpServer, for any number of callers, processes, requests  *)
(* and restarts: typing, one restart at a time, one process, the right     *)
(* answers, and what the status shows.                                     *)
(***************************************************************************)
EXTENDS McpServer, TLAPS

-----------------------------------------------------------------------------
(***************************************************************************)
(* The inductive invariant.                                                *)
(***************************************************************************)
InCall(a) == act[a].step \in {"call", "read", "answered"}

\* The purpose of a request goes with the request, and Stop and Start know
\* their process.
Shape ==
  \A a \in Actors :
    /\ InCall(a) => act[a].todo \in {"tool", "first", "check", "init"}
    /\ act[a].todo \in {"tool", "first", "check", "init"} => InCall(a)
    /\ act[a].step \in {"stopping", "install"} => act[a].gen \in Gens
    /\ act[a].todo = "first" \/ act[a].step = "listed" => phase = "starting"

\* Until the supervisor runs, the main goroutine is alone.
AtStart ==
  ~Supervised =>
    /\ sup = Fresh
    /\ \A a \in Actors \ {"main"} : act[a] = Resting
    /\ act["main"].step \notin {"fail", "mark", "wait"}
    /\ act["main"].todo \notin {"check", "tool"}
    /\ phase = "failed" => act["main"] = Resting

OneRestarter == \A a, b \in Actors : InRestart(a) /\ InRestart(b) => a = b

FlightIsRestart == Supervised => (sup.inFlight <=> \E a \in Actors : InRestart(a))

\* A server that was given up is not being restarted, and only the operator
\* gives one that was given up another chance to fail.
SupInv ==
  /\ sup.inFlight => ~sup.disabled
  /\ OfflineMeansDisabled
  /\ sup.failures <= MaxFailures + ops
  /\ ~sup.disabled => sup.failures < MaxFailures + ops

\* Whoever has stopped the server finds no process alive until it launches one,
\* and a process is the server's from then on.
Live ==
  \A g \in Gens : proc[g] = "alive" =>
    /\ cmd = g \/ \E a \in Actors : At(a, "install") /\ act[a].gen = g
    /\ \A a \in Actors :
         /\ act[a].step \notin {"killed", "spawn"}
         /\ act[a].step \in {"stopping", "install"} => act[a].gen = g

McpInv ==
  /\ TypeOK /\ Shape /\ AtStart /\ OneRestarter /\ FlightIsRestart
  /\ SupInv /\ AnswersMatch /\ Live

LEMMA McpInvInit == Init => McpInv
<1> SUFFICES ASSUME Init PROVE McpInv
  OBVIOUS
<1>1. TypeOK
  <2>1. act \in [Actors -> [step : Steps, todo : Todos, gen : Gens \cup {None},
                            id : Nat, got : Nat]]
    BY DEF Init, Resting, Steps, Todos
  <2>2. sup \in [inFlight : BOOLEAN, disabled : BOOLEAN, waiting : BOOLEAN,
              status : {"healthy", "degraded", "retrying", "restarting", "offline"},
              failures : 0..(MaxFailures + MaxOps), backoff : 0..MaxBackoff]
    BY McpAssumption DEF Init, Fresh
  <2> QED
    BY <2>1, <2>2, McpAssumption DEF Init, TypeOK
<1>2. Shape /\ AtStart /\ OneRestarter /\ FlightIsRestart
  <2>1. /\ "main" \in Actors /\ \A a \in Actors \ {"main"} : act[a] = Resting
        /\ act["main"].step = "spawn" /\ act["main"].todo = "none"
        /\ ~Supervised /\ sup = Fresh /\ phase = "starting"
    BY DEF Init, Actors, Supervised, Resting
  <2>2. /\ Resting.step = "idle" /\ Resting.todo = "none"
    BY DEF Resting
  <2> QED
    BY <2>1, <2>2 DEF Shape, AtStart, OneRestarter, FlightIsRestart, InCall, InRestart
<1>3. SupInv
  BY McpAssumption DEF Init, SupInv, OfflineMeansDisabled, Fresh
<1>4. AnswersMatch /\ Live
  BY DEF Init, AnswersMatch, Live, At, Resting
<1> QED
  BY <1>1, <1>2, <1>3, <1>4 DEF McpInv

-----------------------------------------------------------------------------
(***************************************************************************)
(* What the steps of an actor do to its place.                             *)
(***************************************************************************)
Place(step, todo, g) == [step |-> step, todo |-> todo, gen |-> g, id |-> 0, got |-> 0]

LEMMA Becomes ==
  ASSUME TypeOK, NEW a \in Actors, NEW step, NEW todo, NEW g, Become(a, step, todo, g)
  PROVE  /\ act'[a] = Place(step, todo, g)
         /\ \A b \in Actors \ {a} : act'[b] = act[b]
         /\ step \in Steps /\ todo \in Todos /\ g \in Gens \cup {None} =>
              act' \in [Actors -> [step : Steps, todo : Todos, gen : Gens \cup {None},
                                   id : Nat, got : Nat]]
  BY DEF TypeOK, Become, Place

LEMMA BecomesAt ==
  ASSUME TypeOK, NEW a \in Actors, NEW step, NEW todo, NEW g, Become(a, step, todo, g)
  PROVE  /\ act'[a].step = step /\ act'[a].gen = g
         /\ \A b \in Actors \ {a} : act'[b] = act[b]
<1>1. act'[a] = Place(step, todo, g) /\ \A b \in Actors \ {a} : act'[b] = act[b]
  BY Becomes
<1> QED
  BY <1>1 DEF Place

\* A request that ends with an error: a tool's caller rests, a health check is
\* a failure, a start is given up.
LEMMA CallFailsTo ==
  ASSUME TypeOK, Shape, NEW a \in Actors, InCall(a), CallFails(a)
  PROVE  /\ \A b \in Actors \ {a} : act'[b] = act[b]
         /\ act' \in [Actors -> [step : Steps, todo : Todos, gen : Gens \cup {None},
                                 id : Nat, got : Nat]]
         /\ act[a].todo = "tool" => act'[a] = Place("idle", "none", None)
         /\ act[a].todo = "check" => act'[a] = Place("fail", "none", None)
         /\ act[a].todo \in {"first", "init"} => act'[a] = Place("stop", "abort", None)
<1>1. act[a].todo \in {"tool", "first", "check", "init"}
  BY DEF Shape
<1>2. /\ AfterError("tool") = "idle" /\ ErrorTodo("tool") = "none"
      /\ AfterError("check") = "fail" /\ ErrorTodo("check") = "none"
      /\ AfterError("first") = "stop" /\ ErrorTodo("first") = "abort"
      /\ AfterError("init") = "stop" /\ ErrorTodo("init") = "abort"
  BY DEF AfterError, ErrorTodo
<1>3. Become(a, AfterError(act[a].todo), ErrorTodo(act[a].todo), None)
  BY DEF CallFails
<1>4. /\ AfterError(act[a].todo) \in Steps
      /\ ErrorTodo(act[a].todo) \in Todos
  BY <1>1, <1>2 DEF Steps, Todos
<1>5. /\ act'[a] = Place(AfterError(act[a].todo), ErrorTodo(act[a].todo), None)
      /\ \A b \in Actors \ {a} : act'[b] = act[b]
      /\ act' \in [Actors -> [step : Steps, todo : Todos, gen : Gens \cup {None},
                              id : Nat, got : Nat]]
  BY <1>3, <1>4, Becomes
<1> QED
  BY <1>1, <1>2, <1>5

LEMMA CallSucceedsTo ==
  ASSUME TypeOK, Shape, NEW a \in Actors, InCall(a), CallSucceeds(a)
  PROVE  /\ \A b \in Actors \ {a} : act'[b] = act[b]
         /\ act' \in [Actors -> [step : Steps, todo : Todos, gen : Gens \cup {None},
                                 id : Nat, got : Nat]]
         /\ act[a].todo = "tool" => act'[a] = Place("idle", "none", None)
         /\ act[a].todo = "check" => act'[a] = Place("mark", "none", None)
         /\ act[a].todo = "first" => act'[a] = Place("listed", "none", None)
         /\ act[a].todo = "init" => act'[a] = Place("notify", "none", None)
<1>1. act[a].todo \in {"tool", "first", "check", "init"}
  BY DEF Shape
<1>2. /\ AfterAnswer("tool") = "idle" /\ AfterAnswer("check") = "mark"
      /\ AfterAnswer("first") = "listed" /\ AfterAnswer("init") = "notify"
  BY DEF AfterAnswer
<1>3. AfterAnswer(act[a].todo) \in Steps /\ "none" \in Todos
  BY <1>1, <1>2 DEF Steps, Todos
<1>4. /\ act'[a] = Place(AfterAnswer(act[a].todo), "none", None)
      /\ \A b \in Actors \ {a} : act'[b] = act[b]
      /\ act' \in [Actors -> [step : Steps, todo : Todos, gen : Gens \cup {None},
                              id : Nat, got : Nat]]
  BY <1>3, Becomes DEF CallSucceeds
<1> QED
  BY <1>1, <1>2, <1>4

-----------------------------------------------------------------------------
(***************************************************************************)
(* Who is restarting.                                                      *)
(***************************************************************************)
ShapeOf(a) ==
  /\ InCall(a) => act[a].todo \in {"tool", "first", "check", "init"}
  /\ act[a].todo \in {"tool", "first", "check", "init"} => InCall(a)
  /\ act[a].step \in {"stopping", "install"} => act[a].gen \in Gens
  /\ act[a].todo = "first" \/ act[a].step = "listed" => phase = "starting"

Courses == Shape /\ AtStart /\ OneRestarter /\ FlightIsRestart

\* An actor that goes on, and neither enters nor leaves a restart once the
\* supervisor runs.
LEMMA GoesOn ==
  ASSUME Courses, NEW a \in Actors, act[a].step # "idle" \/ Supervised, UNCHANGED phase,
         \A b \in Actors \ {a} : act'[b] = act[b],
         ShapeOf(a)',
         Supervised => (InRestart(a)' <=> InRestart(a)) /\ sup'.inFlight = sup.inFlight,
         ~Supervised => /\ UNCHANGED sup
                        /\ act'[a].step \notin {"fail", "mark", "wait"}
                        /\ act'[a].todo \notin {"check", "tool"}
  PROVE  Courses'
<1>1. ~Supervised => a = "main" /\ phase # "failed"
  BY DEF Courses, AtStart, Resting
<1>2. \A b \in Actors \ {a} : ShapeOf(b)' /\ (InRestart(b)' <=> InRestart(b))
  BY DEF Courses, Shape, ShapeOf, InCall, InRestart
<1>3. Supervised' <=> Supervised
  BY DEF Supervised
<1>4. Shape'
  BY <1>2 DEF Shape, ShapeOf
<1>5. AtStart'
  BY <1>1, <1>3 DEF Courses, AtStart
<1>6. CASE Supervised
  BY <1>2, <1>3, <1>4, <1>5, <1>6 DEF Courses, OneRestarter, FlightIsRestart
<1>7. CASE ~Supervised
  <2>1. \A b \in Actors \ {a} : ~InRestart(b)
    BY <1>1, <1>7 DEF Courses, AtStart, Resting, InRestart
  <2> QED
    BY <1>2, <1>3, <1>4, <1>5, <1>7, <2>1 DEF Courses, OneRestarter, FlightIsRestart
<1> QED
  BY <1>6, <1>7

LEMMA FailureGoesOn ==
  ASSUME TypeOK, Courses, NEW a \in Actors, InCall(a), CallFails(a), UNCHANGED <<sup, phase>>
  PROVE  Courses'
<1>1. /\ \A b \in Actors \ {a} : act'[b] = act[b]
      /\ act[a].todo = "tool" => act'[a] = Place("idle", "none", None)
      /\ act[a].todo = "check" => act'[a] = Place("fail", "none", None)
      /\ act[a].todo \in {"first", "init"} => act'[a] = Place("stop", "abort", None)
  BY CallFailsTo DEF Courses
<1>2. act[a].todo \in {"tool", "first", "check", "init"}
  BY DEF Courses, Shape
<1>3. ~Supervised => act[a].todo \in {"first", "init"}
  BY <1>2 DEF Courses, AtStart, Resting, InCall
<1>4. Supervised => act[a].todo # "first"
  BY DEF Courses, Shape, Supervised
<1>5. ShapeOf(a)'
  BY <1>1, <1>2 DEF ShapeOf, Place, InCall
<1>6. Supervised => (InRestart(a)' <=> InRestart(a))
  BY <1>1, <1>2, <1>4 DEF InRestart, Place, InCall
<1>7. ~Supervised => /\ act'[a].step \notin {"fail", "mark", "wait"}
                     /\ act'[a].todo \notin {"check", "tool"}
  BY <1>1, <1>3 DEF Place
<1> QED
  BY <1>1, <1>5, <1>6, <1>7, GoesOn DEF InCall

LEMMA SuccessGoesOn ==
  ASSUME TypeOK, Courses, NEW a \in Actors, InCall(a), CallSucceeds(a), UNCHANGED <<sup, phase>>
  PROVE  Courses'
<1>1. /\ \A b \in Actors \ {a} : act'[b] = act[b]
      /\ act[a].todo = "tool" => act'[a] = Place("idle", "none", None)
      /\ act[a].todo = "check" => act'[a] = Place("mark", "none", None)
      /\ act[a].todo = "first" => act'[a] = Place("listed", "none", None)
      /\ act[a].todo = "init" => act'[a] = Place("notify", "none", None)
  BY CallSucceedsTo DEF Courses
<1>2. act[a].todo \in {"tool", "first", "check", "init"}
  BY DEF Courses, Shape
<1>3. ~Supervised => act[a].todo \in {"first", "init"}
  BY <1>2 DEF Courses, AtStart, Resting, InCall
<1>4. act[a].todo = "first" => phase = "starting"
  BY DEF Courses, Shape
<1>5. ShapeOf(a)'
  BY <1>1, <1>2, <1>4 DEF ShapeOf, Place, InCall
<1>6. Supervised => (InRestart(a)' <=> InRestart(a))
  BY <1>1, <1>2, <1>4 DEF InRestart, Place, InCall, Supervised
<1>7. ~Supervised => /\ act'[a].step \notin {"fail", "mark", "wait"}
                     /\ act'[a].todo \notin {"check", "tool"}
  BY <1>1, <1>3 DEF Place
<1> QED
  BY <1>1, <1>5, <1>6, <1>7, GoesOn DEF InCall

\* Requests: callLocked.
LEMMA CoursesOfCalls ==
  ASSUME TypeOK, Courses, NEW a \in Actors,
         Write(a) \/ ReadFails(a) \/ Answered(a) \/ \E id \in 0..nextID : Read(a, id)
  PROVE  Courses'
<1>1. InCall(a) /\ UNCHANGED <<sup, phase>>
  BY DEF Write, ReadFails, Answered, Read, At, InCall
<1>2. CASE CallFails(a)
  BY <1>1, <1>2, FailureGoesOn
<1>3. CASE CallSucceeds(a)
  BY <1>1, <1>3, SuccessGoesOn
<1>4. ASSUME NEW r, act' = [act EXCEPT ![a] = r], r.step \in {"read", "answered"},
             r.todo = act[a].todo
      PROVE  Courses'
  <2>1. act'[a] = r /\ \A b \in Actors \ {a} : act'[b] = act[b]
    BY <1>4 DEF TypeOK
  <2>2. act[a].todo \in {"tool", "first", "check", "init"}
        /\ (act[a].todo = "first" => phase = "starting")
    BY <1>1 DEF Courses, Shape
  <2>3. ShapeOf(a)' /\ (InRestart(a)' <=> InRestart(a))
    BY <1>1, <1>4, <2>1, <2>2 DEF ShapeOf, InCall, InRestart
  <2>4. ~Supervised => act'[a].todo \notin {"check", "tool"}
    BY <1>1, <1>4, <2>1 DEF Courses, AtStart, Resting, InCall
  <2> QED
    BY <1>1, <1>4, <2>1, <2>3, <2>4, GoesOn DEF InCall
<1>5. CASE UNCHANGED act
  BY <1>1, <1>5 DEF Courses, Shape, AtStart, OneRestarter, FlightIsRestart, Supervised,
                    InCall, InRestart
<1>6. CASE Write(a) /\ ~CallFails(a)
  <2>1. act' = [act EXCEPT ![a] = [step |-> "read", todo |-> act[a].todo,
                             gen |-> cmd, id |-> nextID + 1, got |-> 0]]
    BY <1>6 DEF Write
  <2> QED
    BY <1>4, <2>1
<1>7. ASSUME NEW id \in 0..nextID, Read(a, id), ~CallFails(a), act' # act
      PROVE  Courses'
  <2>1. act' = [act EXCEPT ![a].step = "answered", ![a].got = id]
    BY <1>7 DEF Read
  <2>2. act[a] \in [step : Steps, todo : Todos, gen : Gens \cup {None}, id : Nat, got : Nat]
    BY DEF TypeOK
  <2>3. /\ [act[a] EXCEPT !.step = "answered", !.got = id].step = "answered"
        /\ [act[a] EXCEPT !.step = "answered", !.got = id].todo = act[a].todo
    BY <2>2
  <2>4. act' = [act EXCEPT ![a] = [act[a] EXCEPT !.step = "answered", !.got = id]]
    BY <2>1, <2>2 DEF TypeOK
  <2> QED
    BY <1>4, <2>3, <2>4
<1> QED
  BY <1>2, <1>3, <1>5, <1>6, <1>7 DEF ReadFails, Answered

\* A restart begins where there is none, and ends where there was one.
LEMMA RestartBegins ==
  ASSUME Courses, NEW a \in Actors, Supervised, UNCHANGED phase,
         \A b \in Actors \ {a} : act'[b] = act[b],
         ~sup.inFlight, sup'.inFlight = TRUE, ShapeOf(a)', InRestart(a)'
  PROVE  Courses'
<1>1. \A b \in Actors \ {a} : ShapeOf(b)' /\ ~InRestart(b)'
  BY DEF Courses, Shape, FlightIsRestart, ShapeOf, InCall, InRestart
<1>2. Supervised'
  BY DEF Supervised
<1> QED
  BY <1>1, <1>2 DEF Courses, Shape, ShapeOf, AtStart, OneRestarter, FlightIsRestart

LEMMA RestartIsOver ==
  ASSUME Courses, NEW a \in Actors, Supervised, UNCHANGED phase,
         \A b \in Actors \ {a} : act'[b] = act[b],
         InRestart(a), sup'.inFlight = FALSE, act'[a] = Resting
  PROVE  Courses'
<1>1. \A b \in Actors \ {a} : ShapeOf(b)' /\ ~InRestart(b)'
  BY DEF Courses, Shape, OneRestarter, ShapeOf, InCall, InRestart
<1>2. Supervised'
  BY DEF Supervised
<1>3. ShapeOf(a)' /\ ~InRestart(a)'
  BY DEF Resting, ShapeOf, InCall, InRestart
<1> QED
  BY <1>1, <1>2, <1>3 DEF Courses, Shape, ShapeOf, AtStart, OneRestarter, FlightIsRestart

\* A step from one place to the next.
LEMMA MovesOn ==
  ASSUME TypeOK, Courses, NEW a \in Actors, NEW step, NEW todo, NEW g,
         Become(a, step, todo, g), UNCHANGED <<sup, phase>>, act[a].step # "idle" \/ Supervised,
         todo \in {"tool", "first", "check", "init"} <=> step \in {"call", "read", "answered"},
         step \in {"stopping", "install"} => g \in Gens,
         todo = "first" \/ step = "listed" => phase = "starting",
         Supervised => (InRestart(a) <=>
           step \in {"stop", "stopping", "killed", "spawn", "install", "notify",
                     "started", "dead"} \/ todo = "init"),
         ~Supervised => step \notin {"fail", "mark", "wait"} /\ todo \notin {"check", "tool"}
  PROVE  Courses'
<1>1. act'[a] = Place(step, todo, g) /\ \A b \in Actors \ {a} : act'[b] = act[b]
  BY Becomes
<1>2. ShapeOf(a)'
  BY <1>1 DEF Place, ShapeOf, InCall
<1>3. Supervised => (InRestart(a)' <=> InRestart(a))
  BY <1>1 DEF Place, InRestart
<1>4. act'[a].step = step /\ act'[a].todo = todo
  BY <1>1 DEF Place
<1> QED
  BY <1>1, <1>2, <1>3, <1>4, GoesOn

LEMMA RestIsPlace == \A a : Rest(a) <=> Become(a, "idle", "none", None)
  BY DEF Rest, Become, Resting

LEMMA CoursesOfRestarts ==
  ASSUME TypeOK, Courses, NEW a \in Actors,
         \/ Spawn(a) \/ Install(a) \/ Notify(a) \/ StopBegins(a) \/ StopWaits(a) \/ Stopped(a)
         \/ HandleFailure(a) \/ RestartFailed(a) \/ RestartSucceeds(a) \/ MarkHealthy(a)
  PROVE  Courses'
<1>1. act[a].step # "idle" /\ UNCHANGED phase /\ (~InCall(a) => act[a].todo # "init")
  BY DEF Courses, Shape, Spawn, Install, Notify, StopBegins, StopWaits, Stopped, HandleFailure,
         RestartFailed, RestartSucceeds, MarkHealthy, At
<1>2. CASE Spawn(a)
  <2>1. CASE Become(a, "dead", "none", None)
    BY <1>1, <1>2, <2>1, MovesOn DEF Spawn, At, InRestart
  <2>2. CASE \E g \in Unused : Become(a, "install", "none", g)
    BY <1>1, <1>2, <2>2, MovesOn DEF Spawn, At, InRestart, Unused
  <2> QED
    BY <1>2, <2>1, <2>2 DEF Spawn
<1>3. CASE Install(a)
  BY <1>1, <1>3, MovesOn DEF Install, At, InRestart
<1>4. CASE Notify(a)
  BY <1>1, <1>4, MovesOn DEF Notify, At, InRestart
<1>5. CASE StopBegins(a)
  <2>1. act[a].todo \notin {"tool", "first", "check", "init"}
    BY <1>5 DEF StopBegins, At, Courses, Shape, InCall
  <2>2. CASE cmd = None
    <3>1. Become(a, "killed", act[a].todo, act[a].gen)
      BY <1>5, <2>2 DEF StopBegins, Goto
    <3> QED
      BY <1>1, <1>5, <2>1, <3>1, MovesOn DEF StopBegins, At, InRestart
  <2>3. CASE cmd # None
    <3>1. cmd \in Gens /\ Become(a, "stopping", act[a].todo, cmd)
      BY <1>5, <2>3 DEF StopBegins, TypeOK
    <3> QED
      BY <1>1, <1>5, <2>1, <3>1, MovesOn DEF StopBegins, At, InRestart
  <2> QED
    BY <2>2, <2>3
<1>6. CASE StopWaits(a)
  <2>1. act[a].todo \notin {"tool", "first", "check", "init"}
    BY <1>6 DEF StopWaits, At, Courses, Shape, InCall
  <2>2. CASE UNCHANGED act
    BY <1>6, <2>2 DEF StopWaits, Courses, Shape, AtStart, OneRestarter, FlightIsRestart,
                      Supervised, InCall, InRestart
  <2>3. CASE Become(a, "killed", act[a].todo, None)
    BY <1>1, <1>6, <2>1, <2>3, MovesOn DEF StopWaits, At, InRestart
  <2> QED
    BY <1>6, <2>2, <2>3 DEF StopWaits
<1>7. CASE Stopped(a)
  BY <1>1, <1>7, MovesOn DEF Stopped, At, InRestart
<1>8. ASSUME At(a, "fail") \/ At(a, "mark") PROVE Supervised
  BY <1>8 DEF At, Courses, AtStart, Resting
<1>9. CASE HandleFailure(a)
  <2>1. Supervised /\ ~InRestart(a)
    BY <1>8, <1>9 DEF HandleFailure, At, InRestart, Courses, Shape, InCall
  <2>2. CASE sup.disabled \/ Busy
    <3>1. Become(a, "idle", "none", None) /\ sup'.inFlight = sup.inFlight
      BY <1>9, <2>2, RestIsPlace DEF HandleFailure, TypeOK
    <3>2. act'[a] = Place("idle", "none", None) /\ \A b \in Actors \ {a} : act'[b] = act[b]
      BY <3>1, Becomes
    <3>3. ShapeOf(a)' /\ ~InRestart(a)'
      BY <3>2 DEF Place, ShapeOf, InCall, InRestart
    <3> QED
      BY <1>1, <2>1, <3>1, <3>2, <3>3, GoesOn
  <2>3. CASE ~(sup.disabled \/ Busy)
    <3>1. Become(a, "stop", "restart", None) /\ ~sup.inFlight /\ sup'.inFlight = TRUE
      BY <1>9, <2>3 DEF HandleFailure, Busy, TypeOK
    <3>2. act'[a] = Place("stop", "restart", None) /\ \A b \in Actors \ {a} : act'[b] = act[b]
      BY <3>1, Becomes
    <3>3. ShapeOf(a)' /\ InRestart(a)'
      BY <3>2 DEF Place, ShapeOf, InCall, InRestart
    <3> QED
      BY <1>1, <2>1, <3>1, <3>2, <3>3, RestartBegins
  <2> QED
    BY <2>2, <2>3
<1>10. CASE RestartFailed(a) \/ RestartSucceeds(a)
  <2>1. Supervised /\ InRestart(a) /\ Rest(a)
    BY <1>10 DEF RestartFailed, RestartSucceeds, At, InRestart
  <2>2. sup'.inFlight = FALSE
    <3>1. CASE RestartSucceeds(a)
      BY <3>1 DEF RestartSucceeds
    <3>2. CASE RestartFailed(a) /\ a = "operator"
      BY <3>2 DEF RestartFailed, TypeOK
    <3>3. CASE RestartFailed(a) /\ a # "operator"
      BY <3>3 DEF RestartFailed
    <3> QED
      BY <1>10, <3>1, <3>2, <3>3
  <2>3. act'[a] = Resting /\ \A b \in Actors \ {a} : act'[b] = act[b]
    BY <2>1 DEF Rest, TypeOK
  <2> QED
    BY <1>1, <2>1, <2>2, <2>3, RestartIsOver
<1>11. CASE MarkHealthy(a)
  <2>1. Supervised /\ ~InRestart(a)
    BY <1>8, <1>11 DEF MarkHealthy, At, InRestart, Courses, Shape, InCall
  <2>2. Become(a, "idle", "none", None) /\ sup'.inFlight = sup.inFlight
    BY <1>11, RestIsPlace DEF MarkHealthy, TypeOK
  <2>3. act'[a] = Place("idle", "none", None) /\ \A b \in Actors \ {a} : act'[b] = act[b]
    BY <2>2, Becomes
  <2>4. ShapeOf(a)' /\ ~InRestart(a)'
    BY <2>3 DEF Place, ShapeOf, InCall, InRestart
  <2> QED
    BY <1>1, <2>1, <2>2, <2>3, <2>4, GoesOn
<1> QED
  BY <1>2, <1>3, <1>4, <1>5, <1>6, <1>7, <1>9, <1>10, <1>11

\* The main goroutine, the watcher, the operator and callers of tools.
LEMMA CoursesOfMain ==
  ASSUME TypeOK, Courses, "main" \in Actors, Main
  PROVE  Courses'
<1>1. CASE Startup /\ At("main", "started")
  <2>1. Become("main", "call", "first", None) /\ UNCHANGED <<sup, phase>> /\ phase = "starting"
    BY <1>1 DEF Startup, At
  <2> QED
    BY <1>1, <2>1, MovesOn DEF At, Supervised
<1>2. CASE Startup /\ At("main", "listed")
  <2>1. /\ Become("main", "call", "check", None) /\ phase' = "baseline" /\ phase = "starting"
        /\ UNCHANGED sup
    BY <1>2 DEF Startup, At
  <2>2. /\ act'["main"] = Place("call", "check", None)
        /\ \A b \in Actors \ {"main"} : act'[b] = act[b]
    BY <2>1, Becomes
  <2>3. sup' = Fresh /\ \A b \in Actors \ {"main"} : act'[b] = Resting
    BY <2>1, <2>2 DEF Courses, AtStart, Supervised
  <2>4. Supervised' /\ \A b \in Actors : ShapeOf(b)' /\ ~InRestart(b)'
    BY <2>1, <2>2, <2>3 DEF Supervised, ShapeOf, Place, Resting, InCall, InRestart
  <2> QED
    BY <2>3, <2>4 DEF Courses, Shape, ShapeOf, AtStart, OneRestarter, FlightIsRestart, Fresh
<1>3. CASE Startup /\ At("main", "dead")
  <2>1. /\ Rest("main") /\ phase' = "failed" /\ phase = "starting" /\ UNCHANGED sup
    BY <1>3 DEF Startup, At
  <2>2. \A b \in Actors : act'[b] = Resting
    BY <2>1 DEF Rest, Courses, AtStart, Supervised, TypeOK
  <2>3. ~Supervised' /\ sup' = Fresh /\ \A b \in Actors : ShapeOf(b)' /\ ~InRestart(b)'
    BY <2>1, <2>2 DEF Supervised, ShapeOf, Resting, InCall, InRestart, Courses, AtStart
  <2> QED
    BY <2>2, <2>3 DEF Courses, Shape, ShapeOf, AtStart, OneRestarter, FlightIsRestart, Resting
<1>4. CASE Serve
  <2>1. UNCHANGED <<act, sup>> /\ Supervised /\ Supervised' /\ phase = "baseline"
    BY <1>4 DEF Serve, Supervised
  <2> QED
    BY <2>1 DEF Courses, Shape, AtStart, OneRestarter, FlightIsRestart, InCall, InRestart
<1>5. CASE Tick
  <2>1. Supervised /\ ~InRestart("main") /\ UNCHANGED <<sup, phase>>
    BY <1>5 DEF Tick, At, Supervised, InRestart, Courses, Shape, InCall
  <2> QED
    BY <1>5, <2>1, MovesOn DEF Tick
<1> QED
  BY <1>1, <1>2, <1>3, <1>4, <1>5 DEF Main, Startup

LEMMA CoursesOfOthers ==
  ASSUME TypeOK, Courses, {"watch", "operator"} \cup Callers \subseteq Actors,
         Watcher \/ Operate \/ \E a \in Callers : CallTool(a)
  PROVE  Courses'
<1>1. CASE Watch
  <2>1. /\ Supervised /\ ~InRestart("watch") /\ UNCHANGED <<sup, phase>>
        /\ Become("watch", "wait", "none", exitCh)
    BY <1>1 DEF Watch, At, Supervised, InRestart, Courses, Shape, InCall
  <2> QED
    BY <2>1, MovesOn
<1>2. CASE WatchedExit
  <2>1. /\ Supervised /\ ~InRestart("watch") /\ UNCHANGED <<sup, phase>>
        /\ Become("watch", "fail", "none", None)
    BY <1>2 DEF WatchedExit, At, InRestart, Courses, AtStart, Shape, InCall, Resting
  <2> QED
    BY <2>1, MovesOn
<1>3. CASE Operate /\ sup.inFlight
  BY <1>3 DEF Operate, Courses, Shape, AtStart, OneRestarter, FlightIsRestart, Supervised,
              InCall, InRestart
<1>4. CASE Operate /\ ~sup.inFlight
  <2>1. /\ Supervised /\ UNCHANGED phase /\ sup'.inFlight = TRUE
        /\ Become("operator", "stop", "restart", None)
    BY <1>4 DEF Operate, Supervised, TypeOK
  <2>2. /\ act'["operator"] = Place("stop", "restart", None)
        /\ \A b \in Actors \ {"operator"} : act'[b] = act[b]
    BY <2>1, Becomes
  <2>3. ShapeOf("operator")' /\ InRestart("operator")'
    BY <2>2 DEF Place, ShapeOf, InCall, InRestart
  <2> QED
    BY <1>4, <2>1, <2>2, <2>3, RestartBegins
<1>5. ASSUME NEW a \in Callers, CallTool(a) PROVE Courses'
  <2>1. /\ Supervised /\ ~InRestart(a) /\ UNCHANGED <<sup, phase>>
        /\ Become(a, "call", "tool", None)
    BY <1>5 DEF CallTool, At, Supervised, InRestart, Courses, Shape, InCall
  <2> QED
    BY <2>1, MovesOn
<1> QED
  BY <1>1, <1>2, <1>3, <1>4, <1>5 DEF Watcher

LEMMA CoursesOfTheRest ==
  ASSUME TypeOK, Courses,
         UNCHANGED vars \/ (\E g \in Gens : Reap(g) \/ Exit(g)) \/ RetryTimeComes
  PROVE  Courses'
<1>1. UNCHANGED <<act, phase>> /\ sup'.inFlight = sup.inFlight
      /\ (~Supervised => sup' = sup)
  BY DEF vars, Reap, Exit, RetryTimeComes, TypeOK, Courses, AtStart, Fresh
<1> QED
  BY <1>1 DEF Courses, Shape, AtStart, OneRestarter, FlightIsRestart, Supervised,
              InCall, InRestart

LEMMA CoursesNext == TypeOK /\ Courses /\ [Next]_vars => Courses'
<1> SUFFICES ASSUME TypeOK, Courses, [Next]_vars PROVE Courses'
  OBVIOUS
<1>1. {"main", "watch", "operator"} \cup Callers \subseteq Actors
  BY DEF Actors
<1>2. ASSUME NEW a \in Actors, Turn(a) \/ \E id \in 0..nextID : Read(a, id)
      PROVE  Courses'
  BY <1>1, <1>2, CoursesOfCalls, CoursesOfRestarts, CoursesOfMain, CoursesOfOthers DEF Turn
<1> QED
  BY <1>1, <1>2, CoursesOfOthers, CoursesOfTheRest DEF Next

-----------------------------------------------------------------------------
(***************************************************************************)
(* What the supervisor remembers.  A server that was given up is never     *)
(* being restarted, so the end of a restart finds it in use.               *)
(***************************************************************************)
SupType == [inFlight : BOOLEAN, disabled : BOOLEAN, waiting : BOOLEAN,
            status : {"healthy", "degraded", "retrying", "restarting", "offline"},
            failures : 0..(MaxFailures + MaxOps), backoff : 0..MaxBackoff]

LEMMA SupUnchanged ==
  ASSUME TypeOK, SupInv, UNCHANGED <<sup, ops>>
  PROVE  sup' \in SupType /\ ops' \in 0..MaxOps /\ SupInv'
  BY DEF TypeOK, SupType, SupInv, OfflineMeansDisabled

LEMMA SupActors ==
  ASSUME TypeOK, FlightIsRestart, SupInv, NEW a \in Actors,
         HandleFailure(a) \/ RestartFailed(a) \/ RestartSucceeds(a) \/ MarkHealthy(a)
  PROVE  sup' \in SupType /\ ops' \in 0..MaxOps /\ SupInv'
<1>1. sup \in SupType /\ ops \in 0..MaxOps /\ ops' = ops
  BY DEF TypeOK, SupType, HandleFailure, RestartFailed, RestartSucceeds, MarkHealthy, sameServer
<1>2. MaxFailures \in Nat \ {0} /\ MaxBackoff \in Nat \ {0} /\ MaxOps \in Nat
  BY McpAssumption
<1>3. ASSUME At(a, "dead") \/ At(a, "started"), Supervised
      PROVE  sup.inFlight /\ ~sup.disabled /\ sup.status # "offline"
             /\ sup.failures < MaxFailures + ops
  BY <1>3 DEF At, InRestart, FlightIsRestart, SupInv, OfflineMeansDisabled
<1> USE DEF SupType, SupInv, OfflineMeansDisabled
<1>4. CASE HandleFailure(a)
  BY <1>1, <1>4 DEF HandleFailure, Busy
<1>5. CASE RestartFailed(a) /\ a = "operator"
  BY <1>1, <1>3, <1>5 DEF RestartFailed
<1>6. CASE RestartFailed(a) /\ a # "operator"
  <2>1. NextBackoff(sup.backoff) \in 0..MaxBackoff
    BY <1>1, <1>2 DEF NextBackoff
  <2>2. sup.failures + 1 <= MaxFailures + ops /\ sup.failures + 1 \in 0..(MaxFailures + MaxOps)
    BY <1>1, <1>2, <1>3, <1>6 DEF RestartFailed
  <2> DEFINE last == sup.failures + 1 >= MaxFailures
  <2>3. sup' = [inFlight |-> FALSE, failures |-> sup.failures + 1,
                backoff |-> NextBackoff(sup.backoff), waiting |-> TRUE,
                disabled |-> last, status |-> IF last THEN "offline" ELSE "retrying"]
    BY <1>6 DEF RestartFailed
  <2>4. ~last => sup.failures + 1 < MaxFailures + ops
    BY <1>1, <1>2, <2>2
  <2>5. last \in BOOLEAN
    OBVIOUS
  <2> HIDE DEF last
  <2>6. sup' \in SupType
    BY <2>1, <2>2, <2>3, <2>5
  <2> QED
    BY <1>1, <2>2, <2>3, <2>4, <2>5, <2>6
<1>7. CASE RestartSucceeds(a)
  <2> DEFINE given == IF a = "operator" THEN sup.disabled ELSE FALSE
  <2>1. sup' = [inFlight |-> FALSE, failures |-> 0, backoff |-> 1, waiting |-> FALSE,
                disabled |-> given, status |-> "healthy"]
    BY <1>7 DEF RestartSucceeds
  <2>2. given = FALSE
    BY <1>1, <1>3, <1>7 DEF RestartSucceeds
  <2>3. 0 < MaxFailures + ops /\ 0 <= MaxFailures + ops /\ 1 \in 0..MaxBackoff
        /\ 0 \in 0..(MaxFailures + MaxOps)
    BY <1>1, <1>2
  <2> HIDE DEF given
  <2>4. sup' \in SupType
    BY <2>1, <2>2, <2>3
  <2>5. sup'.failures = 0 /\ sup'.disabled = FALSE /\ ~sup'.inFlight /\ sup'.status = "healthy"
    BY <2>1, <2>2
  <2> QED
    BY <1>1, <2>3, <2>4, <2>5
<1>8. CASE MarkHealthy(a) /\ sup.inFlight
  BY <1>1, <1>8 DEF MarkHealthy
<1>9. CASE MarkHealthy(a) /\ ~sup.inFlight
  <2>1. (IF sup.backoff = 0 THEN 1 ELSE sup.backoff) \in 0..MaxBackoff
    BY <1>1, <1>2
  <2>2. sup' = [inFlight |-> FALSE, failures |-> 0, waiting |-> FALSE,
                backoff |-> IF sup.backoff = 0 THEN 1 ELSE sup.backoff,
                disabled |-> FALSE, status |-> "healthy"]
    BY <1>9 DEF MarkHealthy
  <2> QED
    BY <1>1, <1>2, <2>1, <2>2
<1> QED
  BY <1>4, <1>5, <1>6, <1>7, <1>8, <1>9

LEMMA SupOthers ==
  ASSUME TypeOK, SupInv, RetryTimeComes \/ Operate
  PROVE  sup' \in SupType /\ ops' \in 0..MaxOps /\ SupInv'
<1>1. sup \in SupType /\ ops \in 0..MaxOps
  BY DEF TypeOK, SupType
<1>2. MaxFailures \in Nat \ {0} /\ MaxOps \in Nat
  BY McpAssumption
<1> USE DEF SupType, SupInv, OfflineMeansDisabled
<1>3. CASE RetryTimeComes
  BY <1>1, <1>3 DEF RetryTimeComes, sameServer
<1>4. CASE Operate /\ sup.inFlight
  BY <1>1, <1>2, <1>4 DEF Operate
<1>5. CASE Operate /\ ~sup.inFlight
  <2>1. /\ ops' = ops + 1 /\ ops' \in 0..MaxOps
        /\ sup' = [sup EXCEPT !.inFlight = TRUE, !.status = "restarting",
                              !.disabled = FALSE, !.waiting = FALSE]
    BY <1>1, <1>2, <1>5 DEF Operate
  <2>2. sup' \in SupType /\ sup'.failures = sup.failures /\ ~sup'.disabled
        /\ sup'.status = "restarting"
    BY <1>1, <2>1
  <2>3. sup.failures < MaxFailures + (ops + 1) /\ sup.failures <= MaxFailures + (ops + 1)
    BY <1>1, <1>2
  <2> QED
    BY <2>1, <2>2, <2>3
<1> QED
  BY <1>3, <1>4, <1>5

LEMMA SupNext ==
  TypeOK /\ FlightIsRestart /\ SupInv /\ [Next]_vars =>
    sup' \in SupType /\ ops' \in 0..MaxOps /\ SupInv'
<1> SUFFICES ASSUME TypeOK, FlightIsRestart, SupInv, [Next]_vars
             PROVE  sup' \in SupType /\ ops' \in 0..MaxOps /\ SupInv'
  OBVIOUS
<1>1. ASSUME NEW a \in Actors, Turn(a) \/ (\E id \in 0..nextID : Read(a, id)),
             ~(HandleFailure(a) \/ RestartFailed(a) \/ RestartSucceeds(a) \/ MarkHealthy(a))
      PROVE  UNCHANGED <<sup, ops>>
  BY <1>1 DEF Turn, Write, Read, ReadFails, Answered, Spawn, Install, Notify, StopBegins,
              StopWaits, Stopped, Main, Startup, Serve, Tick, Watcher, Watch, WatchedExit,
              sameServer
<1>2. ASSUME UNCHANGED vars \/ (\E a \in Callers : CallTool(a))
             \/ \E g \in Gens : Reap(g) \/ Exit(g)
      PROVE  UNCHANGED <<sup, ops>>
  BY <1>2 DEF vars, CallTool, Reap, Exit, sameServer
<1> QED
  BY <1>1, <1>2, SupUnchanged, SupActors, SupOthers DEF Next, Turn

-----------------------------------------------------------------------------
(***************************************************************************)
(* Typing.                                                                 *)
(***************************************************************************)
ActType == [Actors -> [step : Steps, todo : Todos, gen : Gens \cup {None}, id : Nat, got : Nat]]

ClientType ==
  /\ proc \in [Gens -> {"none", "alive", "dead", "reaped"}]
  /\ asked \in [Gens -> SUBSET (Nat \ {0})]
  /\ closed \subseteq Gens
  /\ mu \in Actors \cup {None}
  /\ {cmd, exitCh, seen} \subseteq Gens \cup {None}
  /\ nextID \in Nat
  /\ phase \in {"starting", "baseline", "up", "failed"}

LEMMA TypeParts ==
  TypeOK <=> ClientType /\ act \in ActType /\ sup \in SupType /\ ops \in 0..MaxOps
  BY DEF TypeOK, ClientType, ActType, SupType

LEMMA ActorsAre == {"main", "watch", "operator"} \cup Callers = Actors /\ None \notin Actors
  BY McpAssumption DEF Actors

LEMMA TypeOfCalls ==
  ASSUME TypeOK, Shape, NEW a \in Actors,
         Write(a) \/ ReadFails(a) \/ Answered(a) \/ \E id \in 0..nextID : Read(a, id)
  PROVE  act' \in ActType /\ ClientType'
<1>1. InCall(a) /\ act \in ActType /\ ClientType
  BY TypeParts DEF Write, ReadFails, Answered, Read, At, InCall
<1>2. CallFails(a) \/ CallSucceeds(a) => act' \in ActType
  BY <1>1, CallFailsTo, CallSucceedsTo DEF ActType
<1>3. CASE Write(a)
  <2>1. CASE cmd = None \/ proc[cmd] # "alive" \/ cmd \in closed
    BY <1>1, <1>2, <1>3, <2>1 DEF Write, server, client, ClientType
  <2>2. CASE ~(cmd = None \/ proc[cmd] # "alive" \/ cmd \in closed)
    <3>1. /\ cmd \in Gens /\ nextID' = nextID + 1
          /\ asked' = [asked EXCEPT ![cmd] = asked[cmd] \cup {nextID + 1}]
          /\ mu' = a \/ mu' = mu
          /\ UNCHANGED <<proc, closed, cmd, exitCh, seen, phase>>
      BY <1>1, <1>3, <2>2 DEF Write, ClientType
    <3>2. nextID + 1 \in Nat \ {0}
      BY <1>1 DEF ClientType
    <3>3. ClientType'
      BY <1>1, <3>1, <3>2 DEF ClientType
    <3>4. ASSUME act' = [act EXCEPT ![a] = [step |-> "read", todo |-> act[a].todo,
                             gen |-> cmd, id |-> nextID + 1, got |-> 0]]
          PROVE  act' \in ActType
      BY <1>1, <3>1, <3>2, <3>4 DEF ActType, Steps
    <3> QED
      BY <1>2, <1>3, <2>2, <3>3, <3>4 DEF Write
  <2> QED
    BY <2>1, <2>2
<1>4. ASSUME NEW id \in 0..nextID, Read(a, id) PROVE act' \in ActType /\ ClientType'
  <2>1. ASSUME act' = [act EXCEPT ![a].step = "answered", ![a].got = id]
        PROVE  act' \in ActType
    <3>1. id \in Nat /\ "answered" \in Steps
      BY <1>1 DEF Steps, ClientType
    <3>2. [act[a] EXCEPT !.step = "answered", !.got = id]
            \in [step : Steps, todo : Todos, gen : Gens \cup {None}, id : Nat, got : Nat]
      BY <1>1, <3>1 DEF ActType
    <3>3. act' = [act EXCEPT ![a] = [act[a] EXCEPT !.step = "answered", !.got = id]]
      BY <1>1, <2>1 DEF ActType
    <3> QED
      BY <1>1, <3>2, <3>3 DEF ActType
  <2>2. act' \in ActType
    BY <1>1, <1>2, <1>4, <2>1 DEF Read
  <2>3. /\ asked' = [asked EXCEPT ![act[a].gen] = asked[act[a].gen] \ {id}]
        /\ mu' = mu \/ mu' = None
        /\ UNCHANGED <<proc, closed, cmd, exitCh, nextID, seen, phase>>
    BY <1>4 DEF Read
  <2>4. asked' \in [Gens -> SUBSET (Nat \ {0})]
    BY <1>1, <2>3 DEF ClientType
  <2> QED
    BY <1>1, <2>2, <2>3, <2>4 DEF ClientType
<1>5. CASE ReadFails(a) \/ Answered(a)
  BY <1>1, <1>2, <1>5 DEF ReadFails, Answered, server, ClientType
<1> QED
  BY <1>3, <1>4, <1>5

LEMMA TypeOfRestarts ==
  ASSUME TypeOK, Shape, NEW a \in Actors,
         \/ Spawn(a) \/ Install(a) \/ Notify(a) \/ StopBegins(a) \/ StopWaits(a) \/ Stopped(a)
         \/ HandleFailure(a) \/ RestartFailed(a) \/ RestartSucceeds(a) \/ MarkHealthy(a)
  PROVE  act' \in ActType /\ ClientType'
<1>1. /\ act \in ActType /\ ClientType /\ act[a].todo \in Todos /\ act[a].gen \in Gens \cup {None}
  BY TypeParts DEF ActType
<1>2. ASSUME NEW step \in Steps, NEW todo \in Todos, NEW g \in Gens \cup {None},
             Become(a, step, todo, g)
      PROVE  act' \in ActType
  BY <1>2, Becomes DEF ActType
<1>3. Rest(a) => act' \in ActType
  BY <1>2, RestIsPlace DEF Steps, Todos
<1>4. act[a].step \in {"stopping", "install"} => act[a].gen \in Gens
  BY DEF Shape
<1>5. CASE Spawn(a)
  <2>1. act' \in ActType
    BY <1>2, <1>5 DEF Spawn, Steps, Todos, Unused
  <2> QED
    BY <1>1, <1>5, <2>1 DEF Spawn, ClientType, client, Unused
<1>6. CASE Install(a)
  <2>1. act' \in ActType
    BY <1>2, <1>6 DEF Install, Steps, Todos
  <2> QED
    BY <1>1, <1>4, <1>6, <2>1 DEF Install, At, ClientType, server
<1>7. CASE Notify(a)
  <2>1. act' \in ActType
    BY <1>2, <1>7 DEF Notify, Steps, Todos
  <2> QED
    BY <1>1, <1>7, <2>1 DEF Notify, ClientType, server, client
<1>8. CASE StopBegins(a)
  <2>1. act' \in ActType
    BY <1>1, <1>2, <1>8 DEF StopBegins, Goto, Steps, ClientType
  <2> QED
    BY <1>1, <1>8, <2>1 DEF StopBegins, ClientType, client
<1>9. CASE StopWaits(a)
  <2>1. act' \in ActType
    BY <1>1, <1>2, <1>9 DEF StopWaits, Steps
  <2> QED
    BY <1>1, <1>4, <1>9, <2>1 DEF StopWaits, At, ClientType, client
<1>10. CASE Stopped(a)
  <2>1. act' \in ActType
    BY <1>2, <1>10 DEF Stopped, Steps, Todos
  <2> QED
    BY <1>1, <1>10, <2>1 DEF Stopped, ClientType, server, client
<1>11. CASE HandleFailure(a) \/ RestartFailed(a) \/ RestartSucceeds(a) \/ MarkHealthy(a)
  <2>1. Rest(a) \/ Become(a, "stop", "restart", None)
    BY <1>11 DEF HandleFailure, RestartFailed, RestartSucceeds, MarkHealthy
  <2>2. act' \in ActType
    BY <1>2, <1>3, <2>1 DEF Steps, Todos
  <2> QED
    BY <1>1, <1>11, <2>2 DEF HandleFailure, RestartFailed, RestartSucceeds, MarkHealthy,
                             sameServer, server, client, ClientType
<1> QED
  BY <1>5, <1>6, <1>7, <1>8, <1>9, <1>10, <1>11

LEMMA TypeOfOthers ==
  ASSUME TypeOK,
         \/ Main \/ Watcher \/ Operate \/ RetryTimeComes \/ UNCHANGED vars
         \/ \E a \in Callers : CallTool(a)
         \/ \E g \in Gens : Reap(g) \/ Exit(g)
  PROVE  act' \in ActType /\ ClientType'
<1>1. act \in ActType /\ ClientType
  BY TypeParts
<1>2. ASSUME NEW a \in Actors, NEW step \in Steps, NEW todo \in Todos,
             NEW g \in Gens \cup {None}, Become(a, step, todo, g)
      PROVE  act' \in ActType
  BY <1>2, Becomes DEF ActType
<1>3. CASE Main
  <2>1. act' \in ActType
    BY <1>1, <1>2, <1>3, ActorsAre, RestIsPlace DEF Main, Startup, Serve, Tick, Steps, Todos
  <2> QED
    BY <1>1, <1>3, <2>1 DEF Main, Startup, Serve, Tick, sameServer, server, client, ClientType
<1>4. CASE Watcher
  <2>1. act' \in ActType
    BY <1>1, <1>2, <1>4, ActorsAre DEF Watcher, Watch, WatchedExit, Steps, Todos, ClientType
  <2> QED
    BY <1>1, <1>4, <2>1 DEF Watcher, Watch, WatchedExit, sameServer, server, client, ClientType
<1>5. CASE Operate
  <2>1. act' \in ActType
    BY <1>1, <1>2, <1>5, ActorsAre DEF Operate, Steps, Todos
  <2> QED
    BY <1>1, <1>5, <2>1 DEF Operate, server, client, ClientType
<1>6. CASE RetryTimeComes \/ UNCHANGED vars
  BY <1>1, <1>6 DEF RetryTimeComes, vars, sameServer, server, client, ClientType
<1>7. ASSUME NEW a \in Callers, CallTool(a) PROVE act' \in ActType /\ ClientType'
  <2>1. act' \in ActType
    BY <1>1, <1>2, <1>7, ActorsAre DEF CallTool, Steps, Todos
  <2> QED
    BY <1>1, <1>7, <2>1 DEF CallTool, sameServer, server, client, ClientType
<1>8. ASSUME NEW g \in Gens, Reap(g) \/ Exit(g) PROVE act' \in ActType /\ ClientType'
  BY <1>1, <1>8 DEF Reap, Exit, client, ClientType
<1> QED
  BY <1>3, <1>4, <1>5, <1>6, <1>7, <1>8

LEMMA TypeNext == TypeOK /\ Shape /\ FlightIsRestart /\ SupInv /\ [Next]_vars => TypeOK'
<1> SUFFICES ASSUME TypeOK, Shape, FlightIsRestart, SupInv, [Next]_vars PROVE TypeOK'
  OBVIOUS
<1>1. act' \in ActType /\ ClientType'
  BY TypeOfCalls, TypeOfRestarts, TypeOfOthers DEF Next, Turn
<1>2. sup' \in SupType /\ ops' \in 0..MaxOps
  BY SupNext
<1>3. (ClientType /\ act \in ActType /\ sup \in SupType /\ ops \in 0..MaxOps)'
  BY <1>1, <1>2 DEF ClientType, ActType, SupType
<1> QED
  BY <1>3 DEF TypeOK, ClientType, ActType, SupType

-----------------------------------------------------------------------------
(***************************************************************************)
(* Answers and processes.  Who reads holds the lock, so nobody replaces    *)
(* the connection meanwhile; who restarts is alone, so nobody launches a   *)
(* process meanwhile.                                                      *)
(***************************************************************************)
Paired == AnswersMatch /\ Live

LEMMA NothingNew ==
  ASSUME Paired, UNCHANGED <<act, mu, cmd>>,
         \A g \in Gens : proc'[g] = "alive" => proc[g] = "alive"
  PROVE  Paired'
  BY DEF Paired, AnswersMatch, Live, At

\* An actor that goes on elsewhere leaves what the others read.
LEMMA OthersRead ==
  ASSUME AnswersMatch, NEW a \in Actors, None \notin Actors,
         \A b \in Actors \ {a} : act'[b] = act[b],
         act'[a].step = "answered" => act'[a].got = act'[a].id,
         act'[a].step \in {"read", "answered"} => mu' = a /\ act'[a].gen = cmd',
         UNCHANGED <<mu, cmd>> \/ mu \in {None, a}
  PROVE  AnswersMatch'
<1>1. \A b \in Actors \ {a} :
        /\ At(b, "answered")' => act'[b].got = act'[b].id
        /\ act'[b].step \in {"read", "answered"} => mu' = b /\ act'[b].gen = cmd'
  BY DEF AnswersMatch, At
<1> QED
  BY <1>1 DEF AnswersMatch, At

LEMMA Aside ==
  ASSUME Paired, NEW a \in Actors, None \notin Actors,
         \A b \in Actors \ {a} : act'[b] = act[b],
         act[a].step # "install",
         act'[a].step \notin {"stopping", "killed", "spawn", "install"},
         act'[a].step = "answered" => act'[a].got = act'[a].id,
         act'[a].step \in {"read", "answered"} => mu' = a /\ act'[a].gen = cmd',
         UNCHANGED cmd, UNCHANGED mu \/ mu \in {None, a},
         \A g \in Gens : proc'[g] = "alive" => proc[g] = "alive"
  PROVE  Paired'
<1>1. AnswersMatch'
  BY OthersRead DEF Paired
<1>2. Live'
  BY DEF Paired, Live, At
<1> QED
  BY <1>1, <1>2 DEF Paired

LEMMA GoesAside ==
  ASSUME TypeOK, Paired, NEW a \in Actors, NEW step, NEW todo, NEW g,
         Become(a, step, todo, g), act[a].step # "install",
         step \notin {"read", "answered", "stopping", "killed", "spawn", "install"},
         UNCHANGED <<proc, cmd>>, UNCHANGED mu \/ mu \in {None, a}
  PROVE  Paired'
<1>1. act'[a] = Place(step, todo, g) /\ \A b \in Actors \ {a} : act'[b] = act[b]
  BY Becomes
<1>2. act'[a].step = step
  BY <1>1 DEF Place
<1> QED
  BY <1>1, <1>2, Aside, ActorsAre

LEMMA PairedCalls ==
  ASSUME TypeOK, Shape, Paired, NEW a \in Actors,
         Write(a) \/ ReadFails(a) \/ Answered(a) \/ \E id \in 0..nextID : Read(a, id)
  PROVE  Paired'
<1>1. InCall(a) /\ UNCHANGED <<proc, cmd>> /\ mu \in {None, a} /\ act[a].step # "install"
  BY DEF Write, ReadFails, Answered, Read, At, InCall, server, client, Paired, AnswersMatch
<1>2. act[a].todo \in {"tool", "first", "check", "init"}
  BY <1>1 DEF Shape
<1>3. CASE CallFails(a)
  <2>1. AfterError(act[a].todo) \in {"idle", "fail", "stop"}
    BY <1>2 DEF AfterError
  <2> QED
    BY <1>1, <1>3, <2>1, GoesAside DEF CallFails
<1>4. CASE CallSucceeds(a)
  <2>1. AfterAnswer(act[a].todo) \in {"idle", "listed", "mark", "notify"}
    BY <1>2 DEF AfterAnswer
  <2> QED
    BY <1>1, <1>4, <2>1, GoesAside DEF CallSucceeds
<1>5. CASE Write(a) /\ ~CallFails(a)
  <2>1. /\ mu' = a
        /\ act' = [act EXCEPT ![a] = [step |-> "read", todo |-> act[a].todo,
                             gen |-> cmd, id |-> nextID + 1, got |-> 0]]
    BY <1>5 DEF Write
  <2>2. /\ act'[a].step = "read" /\ act'[a].gen = cmd
        /\ \A b \in Actors \ {a} : act'[b] = act[b]
    BY <2>1 DEF TypeOK
  <2> QED
    BY <1>1, <2>1, <2>2, Aside, ActorsAre
<1>6. ASSUME NEW id \in 0..nextID, Read(a, id), ~CallFails(a)
      PROVE  Paired'
  <2>1. UNCHANGED mu /\ mu = a /\ act[a].gen = cmd
    BY <1>6 DEF Read, At, Paired, AnswersMatch
  <2>2. CASE UNCHANGED act
    BY <1>1, <2>1, <2>2, NothingNew
  <2>3. CASE act' # act
    <3>1. act' = [act EXCEPT ![a].step = "answered", ![a].got = id] /\ id = act[a].id
      BY <1>6, <2>3 DEF Read, Mine
    <3>2. act[a] \in [step : Steps, todo : Todos, gen : Gens \cup {None}, id : Nat, got : Nat]
      BY DEF TypeOK
    <3>3. act' = [act EXCEPT ![a] = [act[a] EXCEPT !.step = "answered", !.got = id]]
      BY <3>1, <3>2 DEF TypeOK
    <3>4. /\ act'[a] = [act[a] EXCEPT !.step = "answered", !.got = id]
          /\ \A b \in Actors \ {a} : act'[b] = act[b]
      BY <3>3 DEF TypeOK
    <3>5. /\ [act[a] EXCEPT !.step = "answered", !.got = id].step = "answered"
          /\ [act[a] EXCEPT !.step = "answered", !.got = id].got = id
          /\ [act[a] EXCEPT !.step = "answered", !.got = id].id = act[a].id
          /\ [act[a] EXCEPT !.step = "answered", !.got = id].gen = act[a].gen
      BY <3>2
    <3>6. /\ act'[a].step = "answered" /\ act'[a].got = id /\ act'[a].id = id
          /\ act'[a].gen = cmd
      BY <2>1, <3>1, <3>4, <3>5
    <3> QED
      BY <1>1, <2>1, <3>4, <3>6, Aside, ActorsAre
  <2> QED
    BY <2>2, <2>3
<1> QED
  BY <1>3, <1>4, <1>5, <1>6 DEF ReadFails, Answered

\* While an actor is between the end of its Stop and the launch nobody is alive.
LEMMA PairedSpawn ==
  ASSUME TypeOK, OneRestarter, Paired, NEW a \in Actors, Spawn(a)
  PROVE  Paired'
<1>1. UNCHANGED <<mu, cmd>> /\ act[a].step = "spawn" /\ InRestart(a)
  BY DEF Spawn, At, client, InRestart
<1>2. CASE UNCHANGED proc /\ Become(a, "dead", "none", None)
  BY <1>1, <1>2, GoesAside
<1>3. ASSUME NEW g \in Unused, proc' = [proc EXCEPT ![g] = "alive"],
             Become(a, "install", "none", g)
      PROVE  Paired'
  <2>1. /\ act'[a].step = "install" /\ act'[a].gen = g
        /\ \A b \in Actors \ {a} : act'[b] = act[b]
    BY <1>3, BecomesAt
  <2>2. \A h \in Gens : proc'[h] = "alive" => h = g
    BY <1>1, <1>3 DEF Paired, Live, TypeOK
  <2>3. \A b \in Actors \ {a} : act'[b].step \notin {"stopping", "killed", "spawn", "install"}
    BY <1>1, <2>1 DEF OneRestarter, InRestart
  <2>4. AnswersMatch'
    BY <1>1, <2>1, OthersRead, ActorsAre DEF Paired
  <2>5. Live'
    BY <2>1, <2>2, <2>3 DEF Live, At
  <2> QED
    BY <2>4, <2>5 DEF Paired
<1> QED
  BY <1>2, <1>3 DEF Spawn

LEMMA PairedInstall ==
  ASSUME TypeOK, OneRestarter, Paired, NEW a \in Actors, Install(a)
  PROVE  Paired'
<1>1. /\ mu = None /\ act[a].step = "install" /\ InRestart(a) /\ cmd' = act[a].gen
      /\ UNCHANGED <<proc, mu>>
  BY DEF Install, At, server, InRestart
<1>2. /\ act'[a].step = "call"
      /\ \A b \in Actors \ {a} : act'[b] = act[b]
  BY BecomesAt DEF Install
<1>3. \A b \in Actors \ {a} : act'[b].step \notin {"stopping", "killed", "spawn", "install"}
  BY <1>1, <1>2 DEF OneRestarter, InRestart
<1>4. AnswersMatch'
  BY <1>1, <1>2, OthersRead, ActorsAre DEF Paired
<1>5. Live'
  BY <1>1, <1>2, <1>3 DEF Paired, Live, At
<1> QED
  BY <1>4, <1>5 DEF Paired

LEMMA PairedStop ==
  ASSUME TypeOK, OneRestarter, Paired, NEW a \in Actors,
         StopBegins(a) \/ StopWaits(a) \/ Stopped(a)
  PROVE  Paired'
<1>1. InRestart(a) /\ UNCHANGED <<mu, cmd>> /\ act[a].step \in {"stop", "stopping", "killed"}
  BY DEF StopBegins, StopWaits, Stopped, At, client, InRestart
<1>2. \A b \in Actors \ {a} : act[b].step \notin {"stopping", "killed", "spawn", "install"}
  BY <1>1 DEF OneRestarter, InRestart
<1>3. ASSUME NEW step, NEW todo, NEW g, Become(a, step, todo, g), UNCHANGED proc,
             step \in {"stopping", "killed", "spawn"},
             \A h \in Gens : proc[h] = "alive" => step = "stopping" /\ h = g /\ cmd = g
      PROVE  Paired'
  <2>1. act'[a].step = step /\ act'[a].gen = g /\ \A b \in Actors \ {a} : act'[b] = act[b]
    BY <1>3, BecomesAt
  <2>2. AnswersMatch'
    BY <1>1, <1>3, <2>1, OthersRead, ActorsAre DEF Paired
  <2>3. Live'
    BY <1>1, <1>2, <1>3, <2>1 DEF Live, At
  <2> QED
    BY <2>2, <2>3 DEF Paired
<1>4. act[a].step = "stop" => \A g \in Gens : proc[g] = "alive" => cmd = g
  BY <1>2 DEF Paired, Live, At
<1>5. CASE StopBegins(a)
  <2>1. act[a].step = "stop" /\ UNCHANGED proc
    BY <1>5 DEF StopBegins, At
  <2>2. CASE cmd = None
    <3>1. \A g \in Gens : proc[g] # "alive"
      BY <1>4, <2>1, <2>2, McpAssumption
    <3>2. Become(a, "killed", act[a].todo, act[a].gen)
      BY <1>5, <2>2 DEF StopBegins, Goto
    <3> QED
      BY <1>3, <2>1, <3>1, <3>2
  <2>3. CASE cmd # None
    <3>1. Become(a, "stopping", act[a].todo, cmd)
      BY <1>5, <2>3 DEF StopBegins
    <3> QED
      BY <1>3, <1>4, <2>1, <3>1
  <2> QED
    BY <2>2, <2>3
<1>6. CASE StopWaits(a)
  <2>1. act[a].step = "stopping"
    BY <1>6 DEF StopWaits, At
  <2>2. CASE proc[act[a].gen] = "reaped"
    <3>1. \A g \in Gens : proc[g] # "alive"
      BY <2>1, <2>2 DEF Paired, Live
    <3>2. Become(a, "killed", act[a].todo, None) /\ UNCHANGED proc
      BY <1>6, <2>2 DEF StopWaits
    <3> QED
      BY <1>3, <3>1, <3>2
  <2>3. CASE proc[act[a].gen] # "reaped"
    BY <1>1, <1>6, <2>3, NothingNew DEF StopWaits, TypeOK
  <2> QED
    BY <2>2, <2>3
<1>7. CASE Stopped(a)
  <2>1. act[a].step = "killed" /\ UNCHANGED proc
    BY <1>7 DEF Stopped, At, server
  <2>2. CASE Become(a, "spawn", "none", None)
    <3>1. \A g \in Gens : proc[g] # "alive"
      BY <2>1 DEF Paired, Live
    <3> QED
      BY <1>3, <2>1, <2>2, <3>1
  <2>3. CASE Become(a, "dead", "none", None)
    BY <1>1, <2>1, <2>3, GoesAside
  <2> QED
    BY <1>7, <2>2, <2>3 DEF Stopped
<1> QED
  BY <1>5, <1>6, <1>7

LEMMA PairedElsewhere ==
  ASSUME TypeOK, Paired, NEW a \in Actors,
         \/ Notify(a) \/ HandleFailure(a) \/ RestartFailed(a) \/ RestartSucceeds(a)
         \/ MarkHealthy(a) \/ (a = "main" /\ Main) \/ (a = "watch" /\ Watcher)
  PROVE  Paired'
<1>1. UNCHANGED <<proc, mu, cmd>>
  BY DEF Notify, HandleFailure, RestartFailed, RestartSucceeds, MarkHealthy, Main, Startup,
         Serve, Tick, Watcher, Watch, WatchedExit, sameServer, server, client
<1>2. CASE UNCHANGED act
  BY <1>1, <1>2, NothingNew
<1>3. ASSUME NEW step \in {"idle", "stop", "call", "started", "wait", "fail"}, NEW todo, NEW g,
             Become(a, step, todo, g), act[a].step # "install"
      PROVE  Paired'
  BY <1>1, <1>3, GoesAside
<1>4. CASE \/ Notify(a) \/ HandleFailure(a) \/ RestartFailed(a) \/ RestartSucceeds(a)
           \/ MarkHealthy(a)
  BY <1>3, <1>4, RestIsPlace DEF Notify, HandleFailure, RestartFailed, RestartSucceeds,
                                 MarkHealthy, At
<1>5. CASE a = "main" /\ Main
  BY <1>2, <1>3, <1>5, RestIsPlace DEF Main, Startup, Serve, Tick, At
<1>6. CASE a = "watch" /\ Watcher
  BY <1>3, <1>6 DEF Watcher, Watch, WatchedExit, At
<1> QED
  BY <1>4, <1>5, <1>6

LEMMA PairedAsked ==
  ASSUME TypeOK, Paired, Operate \/ \E a \in Callers : CallTool(a)
  PROVE  Paired'
<1>1. UNCHANGED <<proc, mu, cmd>>
  BY DEF Operate, CallTool, sameServer, server, client
<1>2. ASSUME NEW a \in Actors, NEW step \in {"stop", "call"}, NEW todo, NEW g,
             Become(a, step, todo, g), act[a].step # "install"
      PROVE  Paired'
  BY <1>1, <1>2, GoesAside
<1>3. CASE Operate
  BY <1>1, <1>2, <1>3, NothingNew, ActorsAre DEF Operate, At
<1>4. ASSUME NEW a \in Callers, CallTool(a) PROVE Paired'
  BY <1>2, <1>4, ActorsAre DEF CallTool, At
<1> QED
  BY <1>3, <1>4

LEMMA PairedOthers ==
  ASSUME TypeOK, Paired,
         UNCHANGED vars \/ RetryTimeComes \/ \E g \in Gens : Reap(g) \/ Exit(g)
  PROVE  Paired'
<1>1. CASE UNCHANGED vars \/ RetryTimeComes \/ \E g \in Gens : Exit(g)
  BY <1>1, NothingNew DEF vars, server, client, RetryTimeComes, sameServer, Exit, TypeOK
<1>2. ASSUME NEW g \in Gens, Reap(g) PROVE Paired'
  <2>1. /\ mu = None /\ UNCHANGED <<act, mu>> /\ proc[g] = "dead"
        /\ proc' = [proc EXCEPT ![g] = "reaped"] /\ cmd' = IF cmd = g THEN None ELSE cmd
    BY <1>2 DEF Reap
  <2>2. AnswersMatch'
    BY <2>1, ActorsAre DEF Paired, AnswersMatch, At
  <2>3. Live'
    BY <2>1 DEF Paired, Live, At, TypeOK
  <2> QED
    BY <2>2, <2>3 DEF Paired
<1> QED
  BY <1>1, <1>2

LEMMA PairedNext == TypeOK /\ Shape /\ OneRestarter /\ Paired /\ [Next]_vars => Paired'
<1> SUFFICES ASSUME TypeOK, Shape, OneRestarter, Paired, [Next]_vars PROVE Paired'
  OBVIOUS
<1>1. ASSUME NEW a \in Actors, \E id \in 0..nextID : Read(a, id) PROVE Paired'
  BY <1>1, PairedCalls
<1>2. ASSUME NEW a \in Actors, Turn(a) PROVE Paired'
  <2>1. CASE Write(a) \/ ReadFails(a) \/ Answered(a)
    BY <2>1, PairedCalls
  <2>2. CASE Spawn(a)
    BY <2>2, PairedSpawn
  <2>3. CASE Install(a)
    BY <2>3, PairedInstall
  <2>4. CASE StopBegins(a) \/ StopWaits(a) \/ Stopped(a)
    BY <2>4, PairedStop
  <2>5. CASE \/ Notify(a) \/ HandleFailure(a) \/ RestartFailed(a) \/ RestartSucceeds(a)
             \/ MarkHealthy(a) \/ (a = "main" /\ Main) \/ (a = "watch" /\ Watcher)
    BY <2>5, PairedElsewhere
  <2> QED
    BY <1>2, <2>1, <2>2, <2>3, <2>4, <2>5 DEF Turn
<1>3. CASE Operate \/ \E a \in Callers : CallTool(a)
  BY <1>3, PairedAsked
<1> QED
  BY <1>1, <1>2, <1>3, PairedOthers DEF Next

-----------------------------------------------------------------------------
(***************************************************************************)
(* The theorems.                                                           *)
(***************************************************************************)
LEMMA McpInvNext == McpInv /\ [Next]_vars => McpInv'
  BY TypeNext, CoursesNext, SupNext, PairedNext DEF McpInv, Courses, Paired

LEMMA McpInvariant == Spec => []McpInv
  BY McpInvInit, McpInvNext, PTL DEF Spec

\* In every state the client, its actors and the supervisor are what the code's
\* types say, the failure counter and the delay within their bounds
\* (mcpRuntimeState, handleFailure).
THEOREM McpTypes == Spec => []TypeOK
<1>1. McpInv => TypeOK
  BY DEF McpInv
<1> QED
  BY <1>1, McpInvariant, PTL

\* Exit watcher, health check and operator never restart the server at the same
\* time, and RestartInFlight says whether one of them does (handleFailure,
\* RestartMCPServer).
THEOREM RestartsAreExclusive == Spec => []OneRestart
<1>1. McpInv => OneRestart
  BY DEF McpInv, OneRestarter, FlightIsRestart, OneRestart
<1> QED
  BY <1>1, McpInvariant, PTL

\* However starts, stops and crashes interleave, a second process of a server is
\* launched only when the first one is gone (Stop, Start, watchProcess).
THEOREM ProcessesAreSingle == Spec => []OneLiveProcess
<1>1. McpInv => OneLiveProcess
  BY DEF McpInv, OneRestarter, Live, OneLiveProcess, InRestart, At
<1> QED
  BY <1>1, McpInvariant, PTL

\* Every request that returns an answer returns its own, and reads it from the
\* process it was written to (callLocked).
THEOREM AnswersAreOwn == Spec => []AnswersMatch
<1>1. McpInv => AnswersMatch
  BY DEF McpInv
<1> QED
  BY <1>1, McpInvariant, PTL

\* The status never shows a server as offline that is still restarted, nor one
\* that was given up as anything else (handleFailure, markHealthy).
THEOREM OfflineIsTrue == Spec => []OfflineMeansDisabled
<1>1. McpInv => OfflineMeansDisabled
  BY DEF McpInv, SupInv
<1> QED
  BY <1>1, McpInvariant, PTL
=============================================================================
