------------------------ MODULE CronSchedulerProofs ------------------------
(***************************************************************************)
(* Proofs about CronScheduler, for any number of jobs, callers, library    *)
(* goroutines and coexisting timers: of the runs, that a job runs once at  *)
(* a time; and of the three records of a job, that they agree: timers      *)
(* follow the registry, and the registry follows config.yaml and the       *)
(* table, over crashes.                                                    *)
(***************************************************************************)
EXTENDS CronScheduler, TLAPS

-----------------------------------------------------------------------------
(***************************************************************************)
(* Typing.                                                                 *)
(***************************************************************************)
\* Removing a name's timers leaves well-formed timers (the first half of
\* addOrReplaceJob's critical section and all of removeJob's).
LEMMA DisarmedType ==
  ASSUME TypeOK, NEW n \in Names
  PROVE  Disarmed(n) \in [Gens -> Timer]
<1>1. ASSUME NEW t \in Timer
      PROVE  Cancelled(t) \in Timer
  <2>1. CASE t = NoTimer
    BY <2>1 DEF NoTimer, Timer, Cancelled
  <2>2. CASE t \in [kind: {"entry", "loop"}, job: Job, live: BOOLEAN]
    BY <2>2 DEF Timer, Cancelled
  <2> QED
    BY <2>1, <2>2 DEF Timer
<1>2. NoTimer \in Timer
  BY DEF Timer
<1>3. \A g \in Gens : timers[n][g] \in Timer
  BY DEF TypeOK
<1> QED
  BY <1>1, <1>2, <1>3 DEF Disarmed

\* The critical section of addOrReplaceJob keeps the registry well-formed.
LEMMA RegisterType ==
  ASSUME TypeOK, NEW n \in Names, NEW job \in Job, NEW g \in Gens,
         Register(n, job, g)
  PROVE  /\ jobs' \in [Names -> Job \cup {None}]
         /\ entryIDs' \in [Names -> Gens \cup {None}]
         /\ triggerCancel' \in [Names -> Gens \cup {None}]
         /\ timers' \in [Names -> [Gens -> Timer]]
<1>1. EntryTimer(job) \in Timer /\ LoopTimer(job) \in Timer
  BY DEF EntryTimer, LoopTimer, Timer
<1>2. Disarmed(n) \in [Gens -> Timer]
  BY DisarmedType
<1>3. timers' \in [Names -> [Gens -> Timer]]
  BY <1>1, <1>2 DEF Register, TypeOK
<1> QED
  BY <1>3 DEF Register, TypeOK

LEMMA BootRegisterType ==
  ASSUME TypeOK, NEW S \in SUBSET Names, NEW new, \A n \in S : new[n] \in Job,
         BootRegister(new, S)
  PROVE  /\ jobs' \in [Names -> Job \cup {None}]
         /\ entryIDs' \in [Names -> Gens \cup {None}]
         /\ timers' \in [Names -> [Gens -> Timer]]
<1> PICK g \in Gens :
    /\ jobs' = [n \in Names |-> IF n \in S THEN new[n] ELSE jobs[n]]
    /\ timers' = [n \in Names |->
         IF n \in S THEN BootEntry(n, new[n], g) ELSE timers[n]]
    /\ entryIDs' = [n \in Names |->
         IF n \in S /\ new[n].enabled /\ ~IsTrigger(new[n]) THEN g
         ELSE entryIDs[n]]
  BY DEF BootRegister
<1>1. ASSUME NEW n \in S
      PROVE  BootEntry(n, new[n], g) \in [Gens -> Timer]
  BY <1>1 DEF BootEntry, EntryTimer, Timer, TypeOK
<1> QED
  BY <1>1 DEF TypeOK

LEMMA CallType ==
  ASSUME NEW k \in Call, k # NoCall
  PROVE  /\ k.name \in Names
         /\ k.op = "create" => k.job \in Job
         /\ k.step = "register" => k.job \in Job
         /\ k.op = "update" /\ k.step = "write" => k.job \in Job
         /\ k.op = "update" /\ k.step \in {"check", "read"} => k.job \in Patch
         /\ k.op \in Toggles /\ k.step # "register" => k.job = None
         /\ k.op = "delete" => k.job = None
  BY DEF Call, Toggles

\* The record of a call at a later step.
Moved(k, step, job) == [op |-> k.op, step |-> step, name |-> k.name, job |-> job]

\* The moves a call can make keep it well-formed.
LEMMA CallMoves ==
  ASSUME NEW k \in Call, NEW j \in Job
  PROVE  /\ k.op = "create" =>
              \A s \in {"insert", "register", "rollback"} : Moved(k, s, k.job) \in Call
         /\ k.op = "update" /\ k.step \in {"check", "read"} => Moved(k, "read", k.job) \in Call
         /\ k.op = "update" /\ k.step \in {"write", "register"} =>
              Moved(k, "register", k.job) \in Call
         /\ k.op = "update" => Moved(k, "write", j) \in Call
         /\ k.op = "delete" => \A s \in {"erase", "unregister"} : Moved(k, s, k.job) \in Call
         /\ k.op \in Toggles /\ k.step # "register" =>
              \A s \in {"write", "reread"} : Moved(k, s, k.job) \in Call
         /\ k.op \in Toggles => Moved(k, "register", j) \in Call
<1>1. CASE k = NoCall
  BY <1>1 DEF NoCall, Toggles
<1>2. CASE k \in [op: {"create"}, step: {"check", "insert", "register", "rollback"},
                  name: Names, job: Job]
  BY <1>2 DEF Call, Moved, Toggles
<1>3. CASE k \in [op: {"update"}, step: {"check", "read"}, name: Names, job: Patch]
  BY <1>3 DEF Call, Moved, Toggles
<1>4. CASE k \in [op: {"update"}, step: {"write", "register"}, name: Names, job: Job]
  BY <1>4 DEF Call, Moved, Toggles
<1>5. CASE k \in [op: {"delete"}, step: {"check", "erase", "unregister"},
                  name: Names, job: {None}]
  BY <1>5 DEF Call, Moved, Toggles
<1>6. CASE k \in [op: Toggles, step: {"check", "write", "reread"},
                  name: Names, job: {None}]
  BY <1>6 DEF Call, Moved, Toggles
<1>7. CASE k \in [op: Toggles, step: {"register"}, name: Names, job: Job]
  BY <1>7 DEF Call, Moved, Toggles
<1> QED
  BY <1>1, <1>2, <1>3, <1>4, <1>5, <1>6, <1>7 DEF Call

LEMMA TypeInit == Init => TypeOK
<1> SUFFICES ASSUME Init PROVE TypeOK
  OBVIOUS
<1>1. sessions \in [Names -> [any : BOOLEAN, shared : 0..MaxSessions]]
  <2>1. [any |-> FALSE, shared |-> 0] \in [any : BOOLEAN, shared : 0..MaxSessions]
    BY CronAssumption
  <2> QED
    BY <2>1 DEF Init
<1>2. timers \in [Names -> [Gens -> Timer]]
  BY DEF Init, NoTimers, Timer
<1>3. run \in [Executors -> Run] /\ calls \in [Clients -> Call]
  BY DEF Init, AllIdle, NoCalls, Run, Call
<1> QED
  BY <1>1, <1>2, <1>3 DEF Init, TypeOK, Nowhere

\* The life cycle of the process keeps every variable well-formed.
LEMMA TypeLife ==
  ASSUME TypeOK,
         \/ AddConfigJobs \/ LoadPersistedJobs \/ LoadFails \/ Start
         \/ Stop \/ StopReturns \/ Crash
  PROVE  TypeOK'
<1>1. CASE AddConfigJobs
  <2> PICK S \in SUBSET ConfigNames :
        /\ config' = S
        /\ BootRegister([n \in Names |-> [def |-> ConfigDef, enabled |-> TRUE,
                                          source |-> "config"]], S)
    BY <1>1 DEF AddConfigJobs
  <2> DEFINE new == [n \in Names |-> [def |-> ConfigDef, enabled |-> TRUE,
                                      source |-> "config"]]
  <2>1. S \in SUBSET Names /\ \A n \in S : new[n] \in Job
    BY CronAssumption DEF Job
  <2>2. /\ jobs' \in [Names -> Job \cup {None}]
        /\ entryIDs' \in [Names -> Gens \cup {None}]
        /\ timers' \in [Names -> [Gens -> Timer]]
    BY <2>1, BootRegisterType
  <2> QED
    BY <1>1, <2>2 DEF AddConfigJobs, TypeOK
<1>2. CASE LoadPersistedJobs
  <2> DEFINE fromDb(n) == [def |-> db[n].def, enabled |-> db[n].enabled,
                           source |-> "db"]
             new == [n \in Names |-> IF db[n] = None THEN None ELSE fromDb(n)]
             rows == {n \in Names : db[n] # None /\ jobs[n] = None}
  <2> PICK skipped \in SUBSET rows :
        BootRegister(new, rows \ skipped) /\ dirty' = skipped
    BY <1>2 DEF LoadPersistedJobs
  <2> DEFINE S == rows \ skipped
  <2>1. S \in SUBSET Names /\ \A n \in S : new[n] \in Job
    BY DEF TypeOK, Row, Job
  <2>2. BootRegister(new, S) /\ dirty' \in SUBSET Names
    OBVIOUS
  <2>3. /\ jobs' \in [Names -> Job \cup {None}]
        /\ entryIDs' \in [Names -> Gens \cup {None}]
        /\ timers' \in [Names -> [Gens -> Timer]]
    <3> HIDE DEF new, S
    <3> QED
      BY <2>1, <2>2, BootRegisterType
  <2> QED
    BY <1>2, <2>2, <2>3 DEF LoadPersistedJobs, TypeOK
<1>3. CASE Start
  <2> DEFINE loops == {n \in Names : jobs[n] # None /\ jobs[n].enabled
                                    /\ IsTrigger(jobs[n])}
  <2> PICK g \in Gens :
        /\ triggerCancel' = [n \in Names |->
             IF n \in loops THEN g ELSE triggerCancel[n]]
        /\ timers' = [n \in Names |->
             IF n \in loops
             THEN [timers[n] EXCEPT ![g] = LoopTimer(jobs[n])]
             ELSE timers[n]]
    BY <1>3 DEF Start
  <2>1. \A n \in loops : LoopTimer(jobs[n]) \in Timer
    BY DEF LoopTimer, Timer, TypeOK
  <2>2. timers' \in [Names -> [Gens -> Timer]]
    BY <2>1 DEF TypeOK
  <2> QED
    BY <1>3, <2>2 DEF Start, TypeOK
<1>4. CASE Stop
  <2>1. \A t \in Timer : t.kind = "loop" => Cancelled(t) \in Timer
    BY DEF Timer, NoTimer, Cancelled
  <2>2. LoopsCancelled \in [Names -> [Gens -> Timer]]
    BY <2>1 DEF LoopsCancelled, TypeOK
  <2> QED
    BY <1>4, <2>2 DEF Stop, TypeOK, Nowhere
<1>5. CASE StopReturns
  BY <1>5 DEF StopReturns, TypeOK, runtime
<1>7. CASE LoadFails
  BY <1>7 DEF LoadFails, TypeOK, runtime
<1>6. CASE Crash
  BY <1>6 DEF Crash, TypeOK, Nowhere, NoTimers, AllIdle, NoCalls, Timer, Run, Call
<1> QED
  BY <1>1, <1>2, <1>3, <1>4, <1>5, <1>6, <1>7

\* So does every step of an API call.
LEMMA TypeCalls ==
  ASSUME TypeOK, NEW c \in Clients,
         \/ CallCreate(c) \/ CallUpdate(c) \/ CallOther(c)
         \/ CallStep(c) \/ DbError(c)
  PROVE  TypeOK'
<1> DEFINE n == calls[c].name
           k == calls[c]
<1> USE DEF life, runtime
<1>1. k \in Call /\ (k # NoCall => n \in Names)
  BY CallType DEF TypeOK
<1>2. NoCall \in Call
  BY DEF Call
<1>3. ASSUME NEW op, NEW m \in Names, NEW arg, Arrive(c, op, m, arg),
             [op |-> op, step |-> "check", name |-> m, job |-> arg] \in Call
      PROVE  TypeOK'
  BY <1>3 DEF Arrive, TypeOK
<1>4. CASE CallCreate(c)
  <2>1. PICK m \in Names, d \in Def, on \in BOOLEAN :
          Arrive(c, "create", m, [def |-> d, enabled |-> on, source |-> "db"])
    BY <1>4 DEF CallCreate
  <2>2. [op |-> "create", step |-> "check", name |-> m,
         job |-> [def |-> d, enabled |-> on, source |-> "db"]] \in Call
    BY DEF Call, Job
  <2> QED
    BY <1>3, <2>1, <2>2
<1>5. CASE CallUpdate(c)
  <2>1. PICK m \in Names, p \in Patch : Arrive(c, "update", m, p)
    BY <1>5, CronAssumption DEF CallUpdate
  <2>2. [op |-> "update", step |-> "check", name |-> m, job |-> p] \in Call
    BY DEF Call
  <2> QED
    BY <1>3, <2>1, <2>2
<1>6. CASE CallOther(c)
  <2>1. PICK m \in Names, op \in {"delete"} \cup Toggles : Arrive(c, op, m, None)
    BY <1>6 DEF CallOther
  <2>2. [op |-> op, step |-> "check", name |-> m, job |-> None] \in Call
    BY DEF Call
  <2> QED
    BY <1>3, <2>1, <2>2
<1>7. CASE DbError(c)
  <2>1. n \in Names
    BY <1>1, <1>7 DEF DbError, NoCall
  <2> QED
    BY <1>2, <1>7, <2>1 DEF DbError, Return, TypeOK
<1>8. CASE CreateCheck(c)
  <2>1. Moved(k, "insert", k.job) \in Call
    BY <1>1, <1>8, CallMoves, CallType DEF CreateCheck, At, NoCall
  <2> QED
    BY <1>2, <1>8, <2>1 DEF CreateCheck, Return, Goto, GotoWith, Moved, TypeOK
<1>9. CASE CreateInsert(c)
  <2>1. k.job \in Job /\ n \in Names
    BY <1>1, <1>9, CallType DEF CreateInsert, At, NoCall
  <2>2. Moved(k, "register", k.job) \in Call
    BY <1>1, <1>9, <2>1, CallMoves DEF CreateInsert, At
  <2>3. [def |-> k.job.def, enabled |-> k.job.enabled] \in Row
    BY <2>1 DEF Job, Row
  <2> QED
    BY <1>2, <1>9, <2>1, <2>2, <2>3 DEF CreateInsert, Return, Goto, GotoWith, Moved, TypeOK
<1>10. CASE CreateRegister(c)
  <2>1. k.job \in Job /\ n \in Names
    BY <1>1, <1>10, CallType DEF CreateRegister, At, NoCall
  <2>2. Moved(k, "rollback", k.job) \in Call
    BY <1>1, <1>10, <2>1, CallMoves DEF CreateRegister, At
  <2>3. CASE jobs[n] # None
    BY <1>10, <2>2, <2>3 DEF CreateRegister, Goto, GotoWith, Moved, TypeOK
  <2>4. CASE jobs[n] = None
    <3>1. PICK g \in Gens : Register(n, k.job, g) /\ Return(c)
      BY <1>10, <2>4 DEF CreateRegister, FreeGens
    <3> QED
      BY <1>2, <1>10, <2>1, <3>1, RegisterType DEF CreateRegister, Return, TypeOK
  <2> QED
    BY <2>3, <2>4
<1>11. CASE CreateRollback(c)
  <2>1. n \in Names
    BY <1>1, <1>11 DEF CreateRollback, At, NoCall
  <2> QED
    BY <1>2, <1>11, <2>1 DEF CreateRollback, Return, TypeOK
<1>12. CASE CheckReadOnly(c)
  <2>1. PICK s \in {"read", "erase", "write"} :
          /\ Return(c) \/ Goto(c, s)
          /\ Moved(k, s, k.job) \in Call
    <3>1. CASE k.op = "update"
      <4>1. Moved(k, "read", k.job) \in Call
        BY <1>1, <1>12, <3>1 DEF Call, CheckReadOnly, At, Moved, NoCall, Toggles
      <4> QED
        BY <1>12, <3>1, <4>1 DEF CheckReadOnly
    <3>2. CASE k.op = "delete"
      <4>1. Moved(k, "erase", k.job) \in Call
        BY <1>1, <3>2 DEF Call, Moved, NoCall, Toggles
      <4> QED
        BY <1>12, <3>2, <4>1 DEF CheckReadOnly
    <3>3. CASE k.op \in Toggles
      <4>1. Moved(k, "write", k.job) \in Call
        BY <1>1, <1>12, <3>3 DEF Call, CheckReadOnly, At, Moved, NoCall, Toggles
      <4> QED
        BY <1>12, <3>3, <4>1 DEF CheckReadOnly, Toggles
    <3> QED
      BY <1>12, <3>1, <3>2, <3>3 DEF CheckReadOnly, At
  <2> QED
    BY <1>2, <1>12, <2>1 DEF CheckReadOnly, Return, Goto, GotoWith, Moved, TypeOK
<1>13. CASE UpdateRead(c)
  <2>1. n \in Names /\ k.job \in Patch
    BY <1>1, <1>13, CallType DEF UpdateRead, At, NoCall
  <2>2. ASSUME NEW row \in Row PROVE Merge(row, k.job) \in Job
    BY <2>1, CronAssumption DEF Merge, MergeDef, Row, Job, Def, Patch
  <2>3. CASE db[n] = None
    BY <1>2, <1>13, <2>3 DEF UpdateRead, Return, TypeOK
  <2>4. CASE db[n] # None
    <3>1. Merge(db[n], k.job) \in Job
      BY <2>1, <2>2, <2>4 DEF TypeOK
    <3>2. Moved(k, "write", Merge(db[n], k.job)) \in Call
      BY <1>1, <1>13, <3>1, CallMoves DEF UpdateRead, At
    <3> QED
      BY <1>13, <2>4, <3>2 DEF UpdateRead, GotoWith, Moved, TypeOK
  <2> QED
    BY <2>3, <2>4
<1>14. CASE UpdateWrite(c)
  <2>1. n \in Names /\ k.job \in Job
    BY <1>1, <1>14, CallType DEF UpdateWrite, At, NoCall
  <2>2. Moved(k, "register", k.job) \in Call
    BY <1>1, <1>14, <2>1, CallMoves DEF UpdateWrite, At
  <2>3. db[n] # None => [def |-> k.job.def, enabled |-> db[n].enabled] \in Row
    BY <2>1 DEF Job, Row, TypeOK
  <2> QED
    BY <1>2, <1>14, <2>1, <2>2, <2>3 DEF UpdateWrite, Return, Goto, GotoWith, Moved, TypeOK
<1>15. CASE SetEnabledWrite(c)
  <2>1. n \in Names /\ k.op \in Toggles /\ k.step = "write"
    BY <1>1, <1>15 DEF SetEnabledWrite, At, NoCall
  <2>2. Moved(k, "reread", k.job) \in Call
    BY <1>1, <2>1 DEF Call, Moved, NoCall, Toggles
  <2>3. db[n] # None => [def |-> db[n].def, enabled |-> k.op = "enable"] \in Row
    BY <2>1 DEF Row, TypeOK
  <2> QED
    BY <1>2, <1>15, <2>1, <2>2, <2>3
       DEF SetEnabledWrite, Return, Goto, GotoWith, Moved, TypeOK
<1>16. CASE SetEnabledReread(c)
  <2>1. n \in Names /\ k.op \in Toggles
    BY <1>1, <1>16 DEF SetEnabledReread, At, NoCall
  <2>2. CASE db[n] = None
    BY <1>2, <1>16, <2>2 DEF SetEnabledReread, Return, TypeOK
  <2>3. CASE db[n] # None
    <3> DEFINE j == [def |-> db[n].def, enabled |-> db[n].enabled, source |-> "db"]
    <3>1. j \in Job
      BY <2>1, <2>3 DEF TypeOK, Row, Job
    <3>2. Moved(k, "register", j) \in Call
      <4> HIDE DEF j
      <4> QED
        BY <1>1, <2>1, <3>1, CallMoves
    <3> QED
      BY <1>16, <2>3, <3>2 DEF SetEnabledReread, GotoWith, Moved, TypeOK
  <2> QED
    BY <2>2, <2>3
<1>17. CASE Replace(c)
  <2>1. n \in Names /\ k.job \in Job
    BY <1>1, <1>17, CallType DEF Replace, At, NoCall
  <2>2. PICK g \in Gens : Register(n, k.job, g)
    BY <1>17 DEF Replace, FreeGens
  <2> QED
    BY <1>2, <1>17, <2>1, <2>2, RegisterType DEF Replace, Return, TypeOK
<1>18. CASE DeleteErase(c)
  <2>1. n \in Names /\ k.op = "delete"
    BY <1>1, <1>18 DEF DeleteErase, At, NoCall
  <2>2. Moved(k, "unregister", k.job) \in Call
    BY <1>1, <2>1 DEF Call, Moved, NoCall, Toggles
  <2> QED
    BY <1>2, <1>18, <2>1, <2>2 DEF DeleteErase, Return, Goto, GotoWith, Moved, TypeOK
<1>19. CASE DeleteUnregister(c)
  <2>1. n \in Names
    BY <1>1, <1>19 DEF DeleteUnregister, At, NoCall
  <2> QED
    BY <1>2, <1>19, <2>1, DisarmedType DEF DeleteUnregister, Unregister, Return, TypeOK
<1> QED
  BY <1>4, <1>5, <1>6, <1>7, <1>8, <1>9, <1>10, <1>11, <1>12, <1>13, <1>14,
     <1>15, <1>16, <1>17, <1>18, <1>19 DEF CallStep

\* So do firing a timer and every step of runJob.
LEMMA TypeRuns ==
  ASSUME TypeOK,
         \/ \E x \in Slots, n \in Names, g \in Gens : EntryFires(x, n, g)
         \/ \E n \in Names, g \in Gens : LoopFires(n, g) \/ LoopExits(n, g)
         \/ \E c \in Clients, n \in Names : RunNow(c, n)
         \/ \E x \in Executors : RunStep(x) \/ SessionFails(x) \/ ToolHangs(x) \/ ToolReturns(x)
  PROVE  TypeOK'
<1> USE DEF life, runtime
<1>1. ASSUME NEW x \in Executors, NEW n \in Names, NEW job \in Job, Fire(x, n, job)
      PROVE  TypeOK'
  BY <1>1 DEF Fire, TypeOK, Run, RunSteps
<1>2. ASSUME NEW n \in Names, NEW g \in Gens, timers[n][g].kind \in {"entry", "loop"}
      PROVE  timers[n][g].job \in Job
  BY <1>2 DEF TypeOK, Timer, NoTimer
<1>3. ASSUME NEW x \in Slots, NEW n \in Names, NEW g \in Gens, EntryFires(x, n, g)
      PROVE  TypeOK'
  BY <1>1, <1>2, <1>3 DEF EntryFires, Executors
<1>4. ASSUME NEW n \in Names, NEW g \in Gens, LoopFires(n, g)
      PROVE  TypeOK'
  BY <1>1, <1>2, <1>4 DEF LoopFires, Executors, Loops
<1>5. ASSUME NEW n \in Names, NEW g \in Gens, LoopExits(n, g)
      PROVE  TypeOK'
  BY <1>5 DEF LoopExits, TypeOK, Timer
<1>6. ASSUME NEW c \in Clients, NEW n \in Names, RunNow(c, n)
      PROVE  TypeOK'
  BY <1>1, <1>6 DEF RunNow, Executors, TypeOK
<1>7. ASSUME NEW x \in Executors, RunStep(x) \/ SessionFails(x) \/ ToolHangs(x) \/ ToolReturns(x)
      PROVE  TypeOK'
  <2>1. run[x].step \in RunSteps => run[x] \in [step: RunSteps, name: Names, job: Job]
    BY DEF TypeOK, Run, RunSteps, Idle
  <2>2. ASSUME NEW s \in RunSteps, run[x].step \in RunSteps
        PROVE  [step |-> s, name |-> run[x].name, job |-> run[x].job] \in Run
    BY <2>1, <2>2 DEF Run
  <2>3. Idle \in Run
    BY DEF Run
  <2>4. {"fired", "select", "create", "agent", "stuck", "clear"} \subseteq RunSteps
    BY DEF RunSteps
  <2>5. CASE Mark(x)
    BY <2>1, <2>2, <2>3, <2>4, <2>5
       DEF Mark, Skip, RunAt, RunReturn, RunGoto, AlreadyRunning, TypeOK
  <2>6. CASE SelectSession(x)
    BY <2>2, <2>4, <2>6 DEF SelectSession, RunAt, RunGoto, TypeOK
  <2>7. CASE CreateSession(x)
    <3>1. run[x].name \in Names
      BY <2>1, <2>4, <2>7 DEF CreateSession, RunAt
    <3>2. sessions' \in [Names -> [any : BOOLEAN, shared : 0..MaxSessions]]
      BY <2>7, <3>1, CronAssumption DEF CreateSession, TypeOK
    <3> QED
      BY <2>2, <2>4, <2>7, <3>2 DEF CreateSession, RunAt, RunGoto, TypeOK
  <2>8. CASE AgentReturns(x)
    BY <2>2, <2>4, <2>8 DEF AgentReturns, RunAt, RunGoto, TypeOK
  <2>9. CASE Clear(x)
    BY <2>3, <2>9 DEF Clear, RunAt, RunReturn, TypeOK
  <2>10. CASE SessionFails(x)
    BY <2>2, <2>4, <2>10 DEF SessionFails, RunAt, RunGoto, TypeOK
  <2>11. CASE ToolHangs(x)
    BY <2>2, <2>4, <2>11 DEF ToolHangs, RunAt, RunGoto, TypeOK
  <2>12. CASE ToolReturns(x)
    BY <2>2, <2>4, <2>12 DEF ToolReturns, RunAt, RunGoto, TypeOK
  <2> QED
    BY <1>7, <2>5, <2>6, <2>7, <2>8, <2>9, <2>10, <2>11, <2>12 DEF RunStep
<1> QED
  BY <1>3, <1>4, <1>5, <1>6, <1>7

\* Every variable keeps its type (all of cron.go's state).
THEOREM TypeCorrect == Spec => []TypeOK
<1>1. TypeOK /\ [Next]_vars => TypeOK'
  <2> SUFFICES ASSUME TypeOK, [Next]_vars PROVE TypeOK'
    OBVIOUS
  <2>1. CASE UNCHANGED vars
    BY <2>1 DEF vars, life, runtime, TypeOK
  <2>2. CASE Next
    BY <2>2, TypeLife, TypeCalls, TypeRuns DEF Next
  <2> QED
    BY <2>1, <2>2
<1> QED
  BY <1>1, TypeInit, PTL DEF Spec

-----------------------------------------------------------------------------
(***************************************************************************)
(* Runs.  OneRunPerJob is not inductive alone: it needs that a run in      *)
(* progress holds its mark.  On top of it, a shared run about to create a  *)
(* session has looked while it held the mark, so nobody else can have      *)
(* created one in between.                                                 *)
(***************************************************************************)
MarkHeld == \A x \in Executors : InProgress(x) => run[x].name \in running

LookupFresh ==
  \A x \in Executors :
    run[x].step = "create" /\ run[x].job.def.mode = "shared" =>
      ~sessions[run[x].name].any

SessionCounted ==
  \A n \in Names : sessions[n].shared <= 1
                   /\ (sessions[n].shared > 0 => sessions[n].any)

RunInv == MarkHeld /\ OneRunPerJob /\ LookupFresh /\ SessionCounted

LEMMA RunInvInit == Init => RunInv
  BY DEF Init, AllIdle, Idle, RunInv, MarkHeld, OneRunPerJob, LookupFresh,
         SessionCounted, InProgress, RunSteps

LEMMA RunInvUnchanged ==
  ASSUME RunInv, UNCHANGED <<run, running, sessions>>
  PROVE  RunInv'
  BY DEF RunInv, MarkHeld, OneRunPerJob, LookupFresh, SessionCounted, InProgress

\* API calls and the life of a running process leave the runs alone.
LEMMA RunsUntouched ==
  ASSUME \/ AddConfigJobs \/ LoadPersistedJobs \/ LoadFails \/ Start
         \/ Stop \/ StopReturns
         \/ \E c \in Clients : CallCreate(c) \/ CallUpdate(c) \/ CallOther(c)
                               \/ CallStep(c) \/ DbError(c)
         \/ \E n \in Names, g \in Gens : LoopExits(n, g)
  PROVE  UNCHANGED <<run, running, sessions>>
<1>1. ASSUME NEW c \in Clients, CallCreate(c) \/ CallUpdate(c) \/ CallOther(c)
      PROVE  UNCHANGED <<run, running, sessions>>
  BY <1>1 DEF CallCreate, CallUpdate, CallOther, Arrive
<1>2. ASSUME NEW c \in Clients, CallStep(c) \/ DbError(c)
      PROVE  UNCHANGED <<run, running, sessions>>
  BY <1>2 DEF CallStep, DbError, CreateCheck, CreateInsert, CreateRegister,
              CreateRollback, CheckReadOnly, UpdateRead, UpdateWrite,
              SetEnabledWrite, SetEnabledReread, Replace, DeleteErase,
              DeleteUnregister
<1> QED
  BY <1>1, <1>2 DEF AddConfigJobs, LoadPersistedJobs, LoadFails, Start,
                       Stop, StopReturns, LoopExits

\* A timer that fires starts a goroutine which holds nothing yet.
LEMMA RunInvFire ==
  ASSUME TypeOK, RunInv, NEW x \in Executors, NEW n, NEW job, Fire(x, n, job)
  PROVE  RunInv'
<1>1. run' = [run EXCEPT ![x] = [step |-> "fired", name |-> n, job |-> job]]
      /\ UNCHANGED <<running, sessions>>
  BY DEF Fire
<1>2. ~InProgress(x)' /\ run'[x].step = "fired"
  BY <1>1 DEF InProgress, TypeOK
<1>3. \A y \in Executors \ {x} : run'[y] = run[y]
  BY <1>1 DEF TypeOK
<1> QED
  BY <1>1, <1>2, <1>3
     DEF RunInv, MarkHeld, OneRunPerJob, LookupFresh, SessionCounted, InProgress

LEMMA RunInvStep ==
  ASSUME TypeOK, RunInv, NEW x \in Executors, RunStep(x) \/ SessionFails(x) \/ ToolHangs(x) \/ ToolReturns(x)
  PROVE  RunInv'
<1> USE DEF RunInv, MarkHeld, OneRunPerJob, LookupFresh, SessionCounted, InProgress
<1>1. run \in [Executors -> Run] /\ sessions \in [Names -> [any : BOOLEAN, shared : 0..MaxSessions]]
  BY DEF TypeOK
<1>2. CASE Mark(x)
  <2>1. CASE run[x].name \in running
    BY <1>1, <1>2, <2>1 DEF Mark, AlreadyRunning, Skip, RunAt, RunReturn, Idle, RunSteps
  <2>2. CASE run[x].name \notin running
    BY <1>1, <1>2, <2>2 DEF Mark, AlreadyRunning, RunAt, RunGoto, RunSteps
  <2> QED
    BY <2>1, <2>2
<1>3. CASE SelectSession(x)
  BY <1>1, <1>3 DEF SelectSession, RunAt, RunGoto, RunSteps
<1>4. CASE CreateSession(x)
  <2> DEFINE n == run[x].name
             made == IF run[x].job.def.mode = "shared" THEN 1 ELSE 0
  <2>1. n \in Names
    BY <1>1, <1>4 DEF CreateSession, RunAt, Run, Idle
  <2>2. /\ sessions' = [sessions EXCEPT ![n] = [any |-> TRUE, shared |-> sessions[n].shared + made]]
        /\ run' = [run EXCEPT ![x] = [step |-> "agent", name |-> n, job |-> run[x].job]]
        /\ run[x].step = "create"
        /\ UNCHANGED running
    BY <1>4 DEF CreateSession, RunAt, RunGoto
  <2>3. made = 1 => ~sessions[n].any
    BY <2>2
  <2>4. sessions[n].shared + made <= 1 /\ sessions[n].shared \in Nat
    BY <1>1, <2>1, <2>3, CronAssumption
  <2>5. SessionCounted'
    BY <1>1, <2>1, <2>2, <2>4
  <2>6. \A y \in Executors \ {x} : InProgress(y) => run[y].name # n
    BY <2>2 DEF RunSteps
  <2>7. LookupFresh'
    BY <1>1, <2>1, <2>2, <2>6 DEF RunSteps
  <2>8. MarkHeld' /\ OneRunPerJob'
    BY <1>1, <2>2 DEF RunSteps
  <2> QED
    BY <2>5, <2>7, <2>8
<1>5. CASE AgentReturns(x) \/ SessionFails(x) \/ ToolHangs(x) \/ ToolReturns(x)
  BY <1>1, <1>5 DEF AgentReturns, SessionFails, ToolHangs, ToolReturns, RunAt, RunGoto, RunSteps
<1>6. CASE Clear(x)
  BY <1>1, <1>6 DEF Clear, RunAt, RunReturn, Idle, RunSteps
<1> QED
  BY <1>2, <1>3, <1>4, <1>5, <1>6 DEF RunStep

LEMMA RunInvNext == TypeOK /\ RunInv /\ [Next]_vars => RunInv'
<1> SUFFICES ASSUME TypeOK, RunInv, [Next]_vars PROVE RunInv'
  OBVIOUS
<1>1. CASE UNCHANGED <<run, running, sessions>>
  BY <1>1, RunInvUnchanged
<1>2. CASE Crash
  BY <1>2 DEF Crash, AllIdle, Idle, RunInv, MarkHeld, OneRunPerJob, LookupFresh,
              SessionCounted, InProgress, RunSteps
<1>3. ASSUME NEW x \in Slots, NEW n \in Names, NEW g \in Gens, EntryFires(x, n, g)
      PROVE  RunInv'
  BY <1>3, RunInvFire DEF EntryFires, Executors
<1>4. ASSUME NEW n \in Names, NEW g \in Gens, LoopFires(n, g)
      PROVE  RunInv'
  BY <1>4, RunInvFire DEF LoopFires, Executors, Loops
<1>5. ASSUME NEW c \in Clients, NEW n \in Names, RunNow(c, n)
      PROVE  RunInv'
  BY <1>5, RunInvFire DEF RunNow, Executors
<1>6. ASSUME NEW x \in Executors, RunStep(x) \/ SessionFails(x) \/ ToolHangs(x) \/ ToolReturns(x)
      PROVE  RunInv'
  BY <1>6, RunInvStep
<1>7. CASE UNCHANGED vars
  BY <1>1, <1>7 DEF vars
<1> QED
  BY <1>1, <1>2, <1>3, <1>4, <1>5, <1>6, <1>7, RunsUntouched DEF Next

LEMMA RunInvariant == Spec => []RunInv
  BY RunInvInit, RunInvNext, TypeCorrect, PTL DEF Spec

\* No two goroutines are ever inside runJob for one job, however many
\* timers, cancelled loops and RunNow callers there are.
THEOREM MutualExclusion == Spec => []OneRunPerJob
<1>1. RunInv => OneRunPerJob
  BY DEF RunInv
<1> QED
  BY <1>1, RunInvariant, PTL

\* All runs of a job in shared mode use one session, over any number of
\* crashes and restarts.
THEOREM OneSharedSession == Spec => []SharedRunsShareOneSession
<1>1. RunInv => SharedRunsShareOneSession
  BY DEF RunInv, SessionCounted, SharedRunsShareOneSession
<1> QED
  BY <1>1, RunInvariant, PTL

-----------------------------------------------------------------------------
(***************************************************************************)
(* Timers and the registry.  TimersMatchRegistry needs to know that        *)
(* nothing is armed before the scheduler starts but library entries, and   *)
(* that nobody calls by then.  That a trigger job has its loop is true     *)
(* while the scheduler is started only, that a schedule has its entry is   *)
(* true from its registration on (JobsAreArmed).                           *)
(***************************************************************************)
BootState ==
  /\ phase \in {"down", "configured", "loaded"} =>
       ~started /\ triggerCancel = Nowhere /\ calls = NoCalls
  /\ phase = "down" => config = {} /\ jobs = Nowhere /\ timers = NoTimers

JobIsArmed(n) ==
  jobs[n] # None /\ jobs[n].enabled /\ (started \/ ~IsTrigger(jobs[n])) =>
    \E g \in Gens : timers[n][g].live

JobsAreArmed == \A n \in Names : JobIsArmed(n)

TimerFits(n, g) ==
  timers[n][g].live =>
    /\ timers[n][g].job = jobs[n]
    /\ jobs[n].enabled
    /\ IF IsTrigger(jobs[n])
       THEN timers[n][g].kind = "loop" /\ triggerCancel[n] = g
       ELSE timers[n][g].kind = "entry" /\ entryIDs[n] = g

RegistryInv == BootState /\ TimersMatchRegistry /\ JobsAreArmed

LEMMA FitsIsMatch == TimersMatchRegistry <=> \A n \in Names, g \in Gens : TimerFits(n, g)
  BY DEF TimersMatchRegistry, TimerFits

LEMMA RegistryInvInit == Init => RegistryInv
  BY CronAssumption
     DEF Init, RegistryInv, BootState, TimersMatchRegistry, JobsAreArmed, JobIsArmed,
         Nowhere, NoTimers, NoTimer, NoCalls

\* A timer that may fire by right belongs to a registered job.
LEMMA LiveIsRegistered ==
  ASSUME TypeOK, TimersMatchRegistry, NEW n \in Names, NEW g \in Gens, timers[n][g].live
  PROVE  jobs[n] \in Job
<1>1. timers[n][g] \in Timer /\ timers[n][g] # NoTimer
  BY DEF TypeOK, NoTimer
<1>2. timers[n][g].job \in Job
  BY <1>1 DEF Timer
<1> QED
  BY <1>2 DEF TimersMatchRegistry

\* The first half of addOrReplaceJob's critical section finds every timer that
\* may still fire.
LEMMA DisarmedIsDead ==
  ASSUME TypeOK, TimersMatchRegistry, NEW n \in Names, NEW g \in Gens
  PROVE  ~Disarmed(n)[g].live
<1>1. Disarmed(n)[g] = IF g = entryIDs[n] THEN NoTimer
                       ELSE IF g = triggerCancel[n] THEN Cancelled(timers[n][g])
                       ELSE timers[n][g]
  BY DEF Disarmed
<1>2. timers[n][g].live => g = entryIDs[n] \/ g = triggerCancel[n]
  BY DEF TimersMatchRegistry
<1> QED
  BY <1>1, <1>2 DEF NoTimer, Cancelled

\* addOrReplaceJob leaves the timer of the new job and no other.
LEMMA RegisterArms ==
  ASSUME TypeOK, TimersMatchRegistry, JobsAreArmed,
         NEW n \in Names, NEW job \in Job, NEW g \in Gens,
         Register(n, job, g), UNCHANGED started
  PROVE  TimersMatchRegistry' /\ JobsAreArmed'
<1>1. \A m \in Names \ {n} : /\ timers'[m] = timers[m] /\ jobs'[m] = jobs[m]
                             /\ entryIDs'[m] = entryIDs[m]
                             /\ triggerCancel'[m] = triggerCancel[m]
  BY DEF Register, TypeOK
<1>2. /\ jobs'[n] = job
      /\ entryIDs'[n] = IF job.enabled /\ ~IsTrigger(job) THEN g ELSE None
      /\ triggerCancel'[n] = IF job.enabled /\ IsTrigger(job) /\ started THEN g ELSE None
      /\ timers'[n] = IF job.enabled /\ ~IsTrigger(job)
                      THEN [Disarmed(n) EXCEPT ![g] = EntryTimer(job)]
                      ELSE IF job.enabled /\ started
                      THEN [Disarmed(n) EXCEPT ![g] = LoopTimer(job)]
                      ELSE Disarmed(n)
  BY DEF Register, TypeOK
<1>3. Disarmed(n) \in [Gens -> Timer] /\ \A h \in Gens : ~Disarmed(n)[h].live
  BY DisarmedType, DisarmedIsDead
<1>4. \A h \in Gens : TimerFits(n, h)'
  BY <1>2, <1>3 DEF TimerFits, EntryTimer, LoopTimer, IsTrigger
<1>5. JobIsArmed(n)'
  BY <1>2, <1>3 DEF JobIsArmed, EntryTimer, LoopTimer, IsTrigger
<1>6. ASSUME NEW m \in Names \ {n} PROVE JobIsArmed(m)' /\ \A h \in Gens : TimerFits(m, h)'
  BY <1>1, FitsIsMatch DEF JobsAreArmed, JobIsArmed, TimerFits, IsTrigger
<1>7. \A m \in Names, h \in Gens : TimerFits(m, h)'
  BY <1>4, <1>6
<1>8. TimersMatchRegistry'
  BY <1>7 DEF TimersMatchRegistry, TimerFits
<1> QED
  BY <1>5, <1>6, <1>8 DEF JobsAreArmed

\* removeJob leaves no timer of the job.
LEMMA UnregisterDisarms ==
  ASSUME TypeOK, TimersMatchRegistry, JobsAreArmed, NEW n \in Names,
         Unregister(n), UNCHANGED started
  PROVE  TimersMatchRegistry' /\ JobsAreArmed'
<1>1. \A m \in Names \ {n} : /\ timers'[m] = timers[m] /\ jobs'[m] = jobs[m]
                             /\ entryIDs'[m] = entryIDs[m]
                             /\ triggerCancel'[m] = triggerCancel[m]
  BY DEF Unregister, TypeOK
<1>2. jobs'[n] = None /\ timers'[n] = Disarmed(n)
  BY DEF Unregister, TypeOK
<1>3. \A h \in Gens : ~Disarmed(n)[h].live
  BY DisarmedIsDead
<1>4. JobIsArmed(n)' /\ \A h \in Gens : TimerFits(n, h)'
  BY <1>2, <1>3 DEF JobIsArmed, TimerFits
<1>5. ASSUME NEW m \in Names \ {n} PROVE JobIsArmed(m)' /\ \A h \in Gens : TimerFits(m, h)'
  BY <1>1, FitsIsMatch DEF JobsAreArmed, JobIsArmed, TimerFits, IsTrigger
<1>6. \A m \in Names, h \in Gens : TimerFits(m, h)'
  BY <1>4, <1>5
<1>7. TimersMatchRegistry'
  BY <1>6 DEF TimersMatchRegistry, TimerFits
<1> QED
  BY <1>4, <1>5, <1>7 DEF JobsAreArmed

\* So does the registration of jobs before the start, where none was registered.
LEMMA BootRegisterArms ==
  ASSUME TypeOK, TimersMatchRegistry, JobsAreArmed, ~started, UNCHANGED started,
         triggerCancel' = triggerCancel, NEW S \in SUBSET Names, NEW new,
         \A n \in S : jobs[n] = None /\ new[n] \in Job,
         BootRegister(new, S)
  PROVE  TimersMatchRegistry' /\ JobsAreArmed'
<1> PICK g \in Gens :
    /\ jobs' = [n \in Names |-> IF n \in S THEN new[n] ELSE jobs[n]]
    /\ timers' = [n \in Names |->
         IF n \in S THEN BootEntry(n, new[n], g) ELSE timers[n]]
    /\ entryIDs' = [n \in Names |->
         IF n \in S /\ new[n].enabled /\ ~IsTrigger(new[n]) THEN g
         ELSE entryIDs[n]]
  BY DEF BootRegister
<1>1. ASSUME NEW n \in S, NEW h \in Gens
      PROVE  /\ ~timers[n][h].live
             /\ timers'[n][h] = IF h = g /\ new[n].enabled /\ ~IsTrigger(new[n])
                                THEN EntryTimer(new[n]) ELSE timers[n][h]
  BY LiveIsRegistered, CronAssumption DEF BootEntry, Job
<1>2. ASSUME NEW n \in S PROVE JobIsArmed(n)' /\ \A h \in Gens : TimerFits(n, h)'
  <2>1. jobs'[n] = new[n] /\ (new[n].enabled /\ ~IsTrigger(new[n]) => entryIDs'[n] = g)
    OBVIOUS
  <2>2. \A h \in Gens : ~timers[n][h].live
    BY <1>1
  <2>3. CASE new[n].enabled /\ ~IsTrigger(new[n])
    <3>1. timers'[n][g] = EntryTimer(new[n]) /\ \A h \in Gens \ {g} : ~timers'[n][h].live
      BY <1>1, <2>2, <2>3
    <3> QED
      BY <2>1, <2>3, <3>1 DEF JobIsArmed, TimerFits, EntryTimer, IsTrigger
  <2>4. CASE ~(new[n].enabled /\ ~IsTrigger(new[n]))
    <3>1. \A h \in Gens : ~timers'[n][h].live
      BY <1>1, <2>2, <2>4
    <3>2. ~started'
      OBVIOUS
    <3> QED
      BY <2>1, <2>4, <3>1, <3>2 DEF JobIsArmed, TimerFits, IsTrigger
  <2> QED
    BY <2>3, <2>4
<1>3. ASSUME NEW n \in Names \ S PROVE JobIsArmed(n)' /\ \A h \in Gens : TimerFits(n, h)'
  BY FitsIsMatch DEF JobsAreArmed, JobIsArmed, TimerFits, IsTrigger
<1>4. \A n \in Names, h \in Gens : TimerFits(n, h)'
  BY <1>2, <1>3
<1>5. TimersMatchRegistry'
  BY <1>4 DEF TimersMatchRegistry, TimerFits
<1> QED
  BY <1>2, <1>3, <1>5 DEF JobsAreArmed

LEMMA RegistryUnchanged ==
  ASSUME RegistryInv, UNCHANGED <<started, jobs, entryIDs, triggerCancel, timers>>,
         UNCHANGED <<phase, config, calls>> \/ phase' \notin {"down", "configured", "loaded"}
  PROVE  RegistryInv'
<1>1. BootState'
  BY DEF RegistryInv, BootState
<1>2. TimersMatchRegistry' /\ JobsAreArmed'
  BY DEF RegistryInv, TimersMatchRegistry, JobsAreArmed, JobIsArmed, IsTrigger
<1> QED
  BY <1>1, <1>2 DEF RegistryInv

\* Start-up, shutdown and crash.
LEMMA RegistryLife ==
  ASSUME TypeOK, RegistryInv,
         \/ AddConfigJobs \/ LoadPersistedJobs \/ LoadFails \/ Start
         \/ Stop \/ StopReturns \/ Crash
  PROVE  RegistryInv'
<1> USE DEF RegistryInv
<1>1. CASE AddConfigJobs
  <2> DEFINE new == [n \in Names |-> [def |-> ConfigDef, enabled |-> TRUE,
                                      source |-> "config"]]
  <2>1. PICK S \in SUBSET ConfigNames : config' = S /\ BootRegister(new, S)
    BY <1>1 DEF AddConfigJobs
  <2>2. S \in SUBSET Names /\ \A n \in S : jobs[n] = None /\ new[n] \in Job
    BY <1>1, CronAssumption DEF AddConfigJobs, BootState, Nowhere, Job
  <2>3. ~started /\ UNCHANGED started /\ triggerCancel' = triggerCancel
    BY <1>1 DEF AddConfigJobs, BootState
  <2>4. TimersMatchRegistry' /\ JobsAreArmed'
    <3> HIDE DEF new
    <3> QED
      BY <2>1, <2>2, <2>3, BootRegisterArms
  <2>5. BootState'
    BY <1>1 DEF AddConfigJobs, BootState
  <2> QED
    BY <2>4, <2>5
<1>2. CASE LoadPersistedJobs
  <2> DEFINE fromDb(n) == [def |-> db[n].def, enabled |-> db[n].enabled,
                           source |-> "db"]
             new == [n \in Names |-> IF db[n] = None THEN None ELSE fromDb(n)]
             rows == {n \in Names : db[n] # None /\ jobs[n] = None}
  <2> PICK skipped \in SUBSET rows :
        BootRegister(new, rows \ skipped) /\ dirty' = skipped
    BY <1>2 DEF LoadPersistedJobs
  <2> DEFINE S == rows \ skipped
  <2>1. BootRegister(new, S)
    OBVIOUS
  <2>2. S \in SUBSET Names /\ \A n \in S : jobs[n] = None /\ new[n] \in Job
    BY DEF TypeOK, Row, Job
  <2>3. ~started /\ UNCHANGED started /\ triggerCancel' = triggerCancel
    BY <1>2 DEF LoadPersistedJobs, BootState
  <2>4. TimersMatchRegistry' /\ JobsAreArmed'
    <3> HIDE DEF new, S
    <3> QED
      BY <2>1, <2>2, <2>3, BootRegisterArms
  <2>5. BootState'
    BY <1>2 DEF LoadPersistedJobs, BootState
  <2> QED
    BY <2>4, <2>5
<1>3. CASE Start
  <2> DEFINE loops == {n \in Names : jobs[n] # None /\ jobs[n].enabled
                                    /\ IsTrigger(jobs[n])}
  <2>1. PICK g \in Gens :
        /\ triggerCancel' = [n \in Names |->
             IF n \in loops THEN g ELSE triggerCancel[n]]
        /\ timers' = [n \in Names |->
             IF n \in loops
             THEN [timers[n] EXCEPT ![g] = LoopTimer(jobs[n])]
             ELSE timers[n]]
    BY <1>3 DEF Start
  <2>2. UNCHANGED <<jobs, entryIDs>> /\ triggerCancel = Nowhere
    BY <1>3 DEF Start, BootState
  <2>3. ASSUME NEW n \in loops, NEW h \in Gens
        PROVE  ~timers[n][h].live
    BY <2>2, CronAssumption DEF TimersMatchRegistry, Nowhere
  <2>4. ASSUME NEW n \in loops PROVE JobIsArmed(n)' /\ \A h \in Gens : TimerFits(n, h)'
    <3>1. timers'[n] = [timers[n] EXCEPT ![g] = LoopTimer(jobs[n])]
          /\ triggerCancel'[n] = g
      BY <2>1
    <3>2. timers[n] \in [Gens -> Timer] /\ jobs'[n] = jobs[n]
      BY <2>2 DEF TypeOK
    <3>3. timers'[n][g] = LoopTimer(jobs[n])
          /\ \A h \in Gens \ {g} : ~timers'[n][h].live
      BY <2>3, <3>1, <3>2
    <3> QED
      BY <3>1, <3>2, <3>3 DEF JobIsArmed, TimerFits, LoopTimer, IsTrigger
  <2>5. ASSUME NEW n \in Names \ loops
        PROVE  JobIsArmed(n)' /\ \A h \in Gens : TimerFits(n, h)'
    BY <2>1, <2>2, FitsIsMatch DEF JobsAreArmed, JobIsArmed, TimerFits, IsTrigger
  <2>6. \A n \in Names : JobIsArmed(n)' /\ \A h \in Gens : TimerFits(n, h)'
    BY <2>4, <2>5
  <2>7. TimersMatchRegistry' /\ JobsAreArmed'
    BY <2>6 DEF TimersMatchRegistry, TimerFits, JobsAreArmed
  <2>8. BootState'
    BY <1>3 DEF Start, BootState
  <2> QED
    BY <2>7, <2>8
<1>4. CASE Stop
  <2>1. \A n \in Names, g \in Gens :
          timers'[n][g].live => timers'[n][g] = timers[n][g] /\ timers[n][g].kind # "loop"
    BY <1>4 DEF Stop, LoopsCancelled, Cancelled
  <2>2. UNCHANGED <<jobs, entryIDs>> /\ ~started'
    BY <1>4 DEF Stop
  <2>3. TimersMatchRegistry'
    BY <2>1, <2>2 DEF TimersMatchRegistry, IsTrigger
  <2>4. ASSUME NEW n \in Names PROVE JobIsArmed(n)'
    <3>1. ASSUME NEW g \in Gens, timers[n][g].live, ~IsTrigger(jobs[n])
          PROVE  timers'[n][g] = timers[n][g]
      BY <1>4, <3>1 DEF Stop, LoopsCancelled, TimersMatchRegistry
    <3> QED
      BY <2>2, <3>1 DEF JobsAreArmed, JobIsArmed, IsTrigger
  <2>5. BootState'
    BY <1>4 DEF Stop, BootState
  <2> QED
    BY <2>3, <2>4, <2>5 DEF JobsAreArmed
<1>5. CASE StopReturns
  BY <1>5, RegistryUnchanged DEF StopReturns, runtime
<1>6. CASE LoadFails
  <2>1. BootState'
    BY <1>6 DEF LoadFails, BootState, runtime
  <2>2. TimersMatchRegistry' /\ JobsAreArmed'
    BY <1>6 DEF LoadFails, runtime, TimersMatchRegistry, JobsAreArmed, JobIsArmed, IsTrigger
  <2> QED
    BY <2>1, <2>2
<1>7. CASE Crash
  BY <1>7 DEF Crash, BootState, TimersMatchRegistry, JobsAreArmed, JobIsArmed,
              Nowhere, NoTimers, NoTimer, NoCalls
<1> QED
  BY <1>1, <1>2, <1>3, <1>4, <1>5, <1>6, <1>7

\* A call is under way only while the gateway serves calls.
LEMMA CallersAreServed ==
  ASSUME RegistryInv, NEW c \in Clients, calls[c] # NoCall
  PROVE  phase \notin {"down", "configured", "loaded"}
  BY DEF RegistryInv, BootState, NoCalls

LEMMA RegistryCalls ==
  ASSUME TypeOK, RegistryInv, NEW c \in Clients,
         \/ CallCreate(c) \/ CallUpdate(c) \/ CallOther(c)
         \/ CallStep(c) \/ DbError(c)
  PROVE  RegistryInv'
<1> DEFINE n == calls[c].name
           k == calls[c]
<1>1. CASE CallCreate(c) \/ CallUpdate(c) \/ CallOther(c)
  <2>1. Up /\ UNCHANGED <<life, runtime>>
    BY <1>1 DEF CallCreate, CallUpdate, CallOther, Arrive
  <2> QED
    BY <2>1, RegistryUnchanged DEF Up, life, runtime
<1>2. ASSUME CallStep(c) \/ DbError(c)
      PROVE  k # NoCall /\ UNCHANGED life
  BY <1>2 DEF CallStep, DbError, CreateCheck, CreateInsert, CreateRegister,
              CreateRollback, CheckReadOnly, UpdateRead, UpdateWrite,
              SetEnabledWrite, SetEnabledReread, Replace, DeleteErase,
              DeleteUnregister, At, NoCall, Toggles
<1>3. CASE /\ CallStep(c) \/ DbError(c)
           /\ UNCHANGED runtime
  <2>1. phase' \notin {"down", "configured", "loaded"}
    BY <1>2, <1>3, CallersAreServed DEF life
  <2> QED
    BY <1>2, <1>3, <2>1, RegistryUnchanged DEF life, runtime
<1>4. ASSUME CallStep(c), ~UNCHANGED runtime
      PROVE  /\ n \in Names
             /\ \/ k.job \in Job /\ \E g \in Gens : Register(n, k.job, g)
                \/ Unregister(n)
  <2>1. k \in Call /\ k # NoCall
    BY <1>2, <1>4 DEF TypeOK
  <2>2. CASE CreateRegister(c)
    BY <2>1, <2>2, <1>4, CallType DEF CreateRegister, At, FreeGens
  <2>3. CASE Replace(c)
    BY <2>1, <2>3, CallType DEF Replace, At, FreeGens
  <2>4. CASE DeleteUnregister(c)
    BY <1>4, <2>1, <2>4, CallType DEF DeleteUnregister
  <2> QED
    BY <1>4, <2>2, <2>3, <2>4
       DEF CallStep, CreateCheck, CreateInsert, CreateRollback, CheckReadOnly, UpdateRead,
           UpdateWrite, SetEnabledWrite, SetEnabledReread, DeleteErase
<1>5. CASE CallStep(c) /\ ~UNCHANGED runtime
  <2>1. TimersMatchRegistry' /\ JobsAreArmed'
    BY <1>2, <1>4, <1>5, RegisterArms, UnregisterDisarms DEF RegistryInv, life
  <2>2. BootState'
    BY <1>2, <1>5, CallersAreServed DEF BootState, life
  <2> QED
    BY <2>1, <2>2 DEF RegistryInv
<1>6. DbError(c) => UNCHANGED runtime
  BY DEF DbError
<1> QED
  BY <1>1, <1>3, <1>5, <1>6

LEMMA RegistryInvNext == TypeOK /\ RegistryInv /\ [Next]_vars => RegistryInv'
<1> SUFFICES ASSUME TypeOK, RegistryInv, [Next]_vars PROVE RegistryInv'
  OBVIOUS
<1>1. ASSUME NEW n \in Names, NEW g \in Gens, LoopExits(n, g)
      PROVE  RegistryInv'
  <2>1. /\ UNCHANGED <<phase, config, calls, started, jobs, entryIDs, triggerCancel>>
        /\ ~timers[n][g].live
        /\ timers' = [timers EXCEPT ![n][g] = NoTimer]
    BY <1>1 DEF LoopExits, life
  <2>2. ASSUME NEW m \in Names, NEW h \in Gens
        PROVE  /\ timers[m][h].live => timers'[m][h] = timers[m][h]
               /\ timers'[m][h].live => timers'[m][h] = timers[m][h]
    BY <2>1 DEF TypeOK, NoTimer
  <2>3. TimersMatchRegistry' /\ JobsAreArmed'
    BY <2>1, <2>2 DEF RegistryInv, TimersMatchRegistry, JobsAreArmed, JobIsArmed, IsTrigger
  <2>4. phase = "down" => timers' = NoTimers
    BY <1>1 DEF LoopExits, RegistryInv, BootState, NoTimers, NoTimer
  <2>5. BootState'
    BY <2>1, <2>4 DEF RegistryInv, BootState
  <2> QED
    BY <2>3, <2>5 DEF RegistryInv
<1>2. CASE UNCHANGED <<life, runtime, calls>>
  BY <1>2, RegistryUnchanged DEF life, runtime
<1>3. CASE \E x \in Executors : RunStep(x) \/ SessionFails(x) \/ ToolHangs(x) \/ ToolReturns(x)
  BY <1>2, <1>3 DEF RunStep, Mark, SelectSession, CreateSession, AgentReturns, Clear,
                    SessionFails, ToolHangs, ToolReturns
<1>4. CASE \/ \E x \in Slots, n \in Names, g \in Gens : EntryFires(x, n, g)
           \/ \E n \in Names, g \in Gens : LoopFires(n, g)
           \/ \E c \in Clients, n \in Names : RunNow(c, n)
  BY <1>2, <1>4 DEF EntryFires, LoopFires, RunNow, Fire
<1>5. CASE UNCHANGED vars
  BY <1>2, <1>5 DEF vars
<1> QED
  BY <1>1, <1>3, <1>4, <1>5, RegistryLife, RegistryCalls DEF Next

LEMMA RegistryInvariant == Spec => []RegistryInv
  BY RegistryInvInit, RegistryInvNext, TypeCorrect, PTL DEF Spec

\* No update, toggle or delete leaves a timer behind that fires an earlier
\* definition, whatever calls and crashes come between (addOrReplaceJob,
\* removeJob, Start and Stop of cron.go).
THEOREM TimersFollowRegistry == Spec => []TimersMatchRegistry
<1>1. RegistryInv => TimersMatchRegistry
  BY DEF RegistryInv
<1> QED
  BY <1>1, RegistryInvariant, PTL

\* No order of calls loses the timer of an enabled job while the scheduler is
\* started (addOrReplaceJob and Start of cron.go).
THEOREM EnabledJobsStayArmed == Spec => []EnabledJobsAreArmed
<1>1. RegistryInv => EnabledJobsAreArmed
  BY DEF RegistryInv, JobsAreArmed, JobIsArmed, EnabledJobsAreArmed
<1> QED
  BY <1>1, RegistryInvariant, PTL

-----------------------------------------------------------------------------
(***************************************************************************)
(* The registry and config.yaml.  A job of config.yaml is safe because no  *)
(* call on its name gets past its first check: the registration at the end *)
(* of an update or a toggle does not look at the source again.             *)
(***************************************************************************)
ConfigCalls ==
  \A c \in Clients :
    calls[c] # NoCall /\ calls[c].name \in config => calls[c].step = "check"

ConfigInv == ConfigKeepsPrecedence /\ ConfigCalls

LEMMA ConfigIsRegistered ==
  ASSUME TypeOK, ConfigKeepsPrecedence, NEW n \in config
  PROVE  n \in Names /\ jobs[n] # None /\ jobs[n].source = "config"
<1>1. [def |-> ConfigDef, enabled |-> TRUE, source |-> "config"] \in Job
  BY CronAssumption DEF Job
<1>2. jobs[n] \in Job /\ jobs[n].source = "config"
  BY <1>1 DEF ConfigKeepsPrecedence
<1>3. None \notin Job
  BY CronAssumption DEF Job
<1> QED
  BY <1>2, <1>3, CronAssumption DEF TypeOK

LEMMA ConfigInvInit == Init => ConfigInv
  BY DEF Init, ConfigInv, ConfigKeepsPrecedence, ConfigCalls

LEMMA ConfigUnchanged ==
  ASSUME ConfigInv, UNCHANGED <<config, jobs, calls>>
  PROVE  ConfigInv'
  BY DEF ConfigInv, ConfigKeepsPrecedence, ConfigCalls

\* What a step of a call may touch: its own place, and the job it names.
LEMMA CallReach ==
  ASSUME TypeOK, NEW c \in Clients, CallStep(c) \/ DbError(c)
  PROVE  /\ calls[c] # NoCall /\ calls[c] \in Call /\ calls[c].name \in Names
         /\ UNCHANGED life
         /\ \A d \in Clients \ {c} : calls'[d] = calls[d]
         /\ calls'[c] = NoCall \/ calls'[c].name = calls[c].name
         /\ \A m \in Names \ {calls[c].name} : db'[m] = db[m] /\ jobs'[m] = jobs[m]
         /\ dirty \subseteq dirty'
<1>1. calls[c] # NoCall /\ UNCHANGED life /\ dirty \subseteq dirty'
  BY DEF CallStep, DbError, CreateCheck, CreateInsert, CreateRegister,
         CreateRollback, CheckReadOnly, UpdateRead, UpdateWrite,
         SetEnabledWrite, SetEnabledReread, Replace, DeleteErase,
         DeleteUnregister, At, NoCall, Toggles
<1>2. calls[c] \in Call /\ calls[c].name \in Names
  BY <1>1, CallType DEF TypeOK
<1>3. \E k : calls' = [calls EXCEPT ![c] = k] /\ (k = NoCall \/ k.name = calls[c].name)
  BY DEF CallStep, DbError, CreateCheck, CreateInsert, CreateRegister,
         CreateRollback, CheckReadOnly, UpdateRead, UpdateWrite,
         SetEnabledWrite, SetEnabledReread, Replace, DeleteErase,
         DeleteUnregister, Return, Goto, GotoWith
<1>4. (\A d \in Clients \ {c} : calls'[d] = calls[d])
      /\ (calls'[c] = NoCall \/ calls'[c].name = calls[c].name)
  BY <1>3 DEF TypeOK
<1>5. \A m \in Names \ {calls[c].name} : db'[m] = db[m]
  BY DEF CallStep, DbError, CreateCheck, CreateInsert, CreateRegister,
         CreateRollback, CheckReadOnly, UpdateRead, UpdateWrite,
         SetEnabledWrite, SetEnabledReread, Replace, DeleteErase,
         DeleteUnregister, TypeOK
<1>6. \A m \in Names \ {calls[c].name} : jobs'[m] = jobs[m]
  BY DEF CallStep, DbError, CreateCheck, CreateInsert, CreateRegister,
         CreateRollback, CheckReadOnly, UpdateRead, UpdateWrite,
         SetEnabledWrite, SetEnabledReread, Replace, DeleteErase,
         DeleteUnregister, Register, Unregister, runtime, TypeOK
<1> QED
  BY <1>1, <1>2, <1>4, <1>5, <1>6

LEMMA ConfigInvCalls ==
  ASSUME TypeOK, ConfigInv, NEW c \in Clients, CallStep(c) \/ DbError(c)
  PROVE  ConfigInv'
<1> DEFINE n == calls[c].name
<1>1. CASE n \in config
  <2>1. calls[c].step = "check" /\ jobs[n] # None /\ jobs[n].source = "config"
    BY <1>1, CallReach, ConfigIsRegistered DEF ConfigInv, ConfigCalls
  <2>2. CreateCheck(c) \/ CheckReadOnly(c)
    BY <2>1 DEF CallStep, DbError, CreateInsert, CreateRegister, CreateRollback, UpdateRead,
                UpdateWrite, SetEnabledWrite, SetEnabledReread, Replace, DeleteErase,
                DeleteUnregister, At
  <2>3. Return(c) /\ UNCHANGED <<config, jobs>>
    BY <2>1, <2>2 DEF CreateCheck, CheckReadOnly, ReadOnly, life, runtime
  <2> QED
    BY <2>3, CallReach DEF ConfigInv, ConfigKeepsPrecedence, ConfigCalls, Return, TypeOK
<1>2. CASE n \notin config
  <2>1. config' = config /\ config \subseteq Names
    BY CallReach, CronAssumption DEF life, TypeOK
  <2>2. \A m \in config : jobs'[m] = jobs[m]
    BY <1>2, <2>1, CallReach
  <2>3. ConfigCalls'
    BY <1>2, <2>1, CallReach DEF ConfigInv, ConfigCalls
  <2> QED
    BY <2>1, <2>2, <2>3 DEF ConfigInv, ConfigKeepsPrecedence
<1> QED
  BY <1>1, <1>2

LEMMA ConfigInvLife ==
  ASSUME TypeOK, BootState, ConfigInv,
         \/ AddConfigJobs \/ LoadPersistedJobs \/ LoadFails \/ Start
         \/ Stop \/ StopReturns \/ Crash
  PROVE  ConfigInv'
<1>1. CASE AddConfigJobs
  <2> DEFINE new == [n \in Names |-> [def |-> ConfigDef, enabled |-> TRUE,
                                      source |-> "config"]]
  <2>1. PICK S \in SUBSET ConfigNames : config' = S /\ BootRegister(new, S)
    BY <1>1 DEF AddConfigJobs
  <2>2. \A n \in S : jobs'[n] = new[n] /\ n \in Names
    <3> HIDE DEF new
    <3> QED
      BY <2>1, CronAssumption DEF BootRegister
  <2>3. calls' = NoCalls
    BY <1>1 DEF AddConfigJobs, BootState
  <2> QED
    BY <2>1, <2>2, <2>3 DEF ConfigInv, ConfigKeepsPrecedence, ConfigCalls, NoCalls
<1>2. CASE LoadPersistedJobs
  <2>1. ASSUME NEW n \in config
        PROVE  jobs'[n] = jobs[n]
    <3>1. n \in Names /\ jobs[n] # None
      BY ConfigIsRegistered DEF ConfigInv
    <3> QED
      BY <1>2, <3>1 DEF LoadPersistedJobs, BootRegister
  <2> QED
    BY <1>2, <2>1 DEF LoadPersistedJobs, ConfigInv, ConfigKeepsPrecedence, ConfigCalls
<1>3. CASE Crash
  BY <1>3 DEF Crash, ConfigInv, ConfigKeepsPrecedence, ConfigCalls
<1>4. CASE LoadFails \/ Start \/ Stop \/ StopReturns
  BY <1>4, ConfigUnchanged DEF LoadFails, Start, Stop, StopReturns, runtime
<1> QED
  BY <1>1, <1>2, <1>3, <1>4

LEMMA ConfigInvNext == TypeOK /\ RegistryInv /\ ConfigInv /\ [Next]_vars => ConfigInv'
<1> SUFFICES ASSUME TypeOK, RegistryInv, ConfigInv, [Next]_vars PROVE ConfigInv'
  OBVIOUS
<1>1. ASSUME NEW c \in Clients, CallCreate(c) \/ CallUpdate(c) \/ CallOther(c)
      PROVE  ConfigInv'
  <2>1. \E k : k.step = "check" /\ calls' = [calls EXCEPT ![c] = k]
    BY <1>1 DEF CallCreate, CallUpdate, CallOther, Arrive
  <2>2. UNCHANGED <<config, jobs>>
    BY <1>1 DEF CallCreate, CallUpdate, CallOther, Arrive, life, runtime
  <2> QED
    BY <2>1, <2>2 DEF ConfigInv, ConfigKeepsPrecedence, ConfigCalls, TypeOK
<1>2. CASE \/ \E x \in Slots, n \in Names, g \in Gens : EntryFires(x, n, g)
           \/ \E n \in Names, g \in Gens : LoopFires(n, g) \/ LoopExits(n, g)
           \/ \E c \in Clients, n \in Names : RunNow(c, n)
           \/ \E x \in Executors : RunStep(x) \/ SessionFails(x) \/ ToolHangs(x) \/ ToolReturns(x)
           \/ UNCHANGED vars
  <2>1. UNCHANGED <<config, jobs, calls>>
    BY <1>2 DEF EntryFires, LoopFires, RunNow, Fire, LoopExits, RunStep, Mark, SelectSession,
                CreateSession, AgentReturns, Clear, SessionFails, ToolHangs, ToolReturns, vars, life, runtime
  <2> QED
    BY <2>1, ConfigUnchanged
<1> QED
  BY <1>1, <1>2, ConfigInvLife, ConfigInvCalls DEF Next, RegistryInv

LEMMA ConfigInvariant == Spec => []ConfigInv
  BY ConfigInvInit, ConfigInvNext, TypeCorrect, RegistryInvariant, PTL DEF Spec

\* Jobs of config.yaml stay as they are written there, whatever the API is
\* asked and whatever rows a name has (UpdatePersistent, DeletePersistent,
\* SetPersistentEnabled, LoadPersistedJobs of cron.go).
THEOREM ConfigComesFirst == Spec => []ConfigKeepsPrecedence
<1>1. ConfigInv => ConfigKeepsPrecedence
  BY DEF ConfigInv
<1> QED
  BY <1>1, ConfigInvariant, PTL

-----------------------------------------------------------------------------
(***************************************************************************)
(* The registry and the table.  A call that is alone on its name carries   *)
(* from one statement to the next what makes the two agree at its end:     *)
(* Prepared says what, at each step.  Nothing can be said of names on      *)
(* which calls overlapped, and there the code does diverge.                *)
(***************************************************************************)
Loaded == phase \notin {"down", "configured"}

Stored(n) == [def |-> db[n].def, enabled |-> db[n].enabled, source |-> "db"]

Prepared(c, n) ==
  /\ calls[c].step # "rollback"
  /\ calls[c].step \in {"check", "insert", "read", "erase", "write"} => Agrees(n)
  /\ calls[c].op = "create" => calls[c].job.source = "db"
  /\ calls[c].op = "create" /\ calls[c].step \in {"insert", "register"} => jobs[n] = None
  /\ calls[c].op = "update" /\ calls[c].step = "write" =>
       /\ db[n] # None
       /\ calls[c].job.source = "db"
       /\ calls[c].job.enabled = db[n].enabled
  /\ calls[c].step = "reread" => db[n] # None
  /\ calls[c].step = "register" => db[n] # None /\ calls[c].job = Stored(n)
  /\ calls[c].step = "unregister" => db[n] = None

AloneOnName == \A n \in Names \ dirty : \A c, d \in CallersOn(n) : c = d

CallsPrepared ==
  Loaded => \A n \in Names \ (config \cup dirty) : \A c \in CallersOn(n) : Prepared(c, n)

OnlyConfigAtFirst == phase = "configured" => \A n \in Names \ config : jobs[n] = None

AgreeInv == AloneOnName /\ CallsPrepared /\ OnlyConfigAtFirst /\ QuietJobsAgree

LEMMA AgreeInvInit == Init => AgreeInv
<1>1. Init => \A n \in Names : CallersOn(n) = {}
  BY CronAssumption DEF Init, NoCalls, NoCall, CallersOn
<1> QED
  BY <1>1 DEF Init, AgreeInv, AloneOnName, CallsPrepared, OnlyConfigAtFirst, QuietJobsAgree,
              Loaded

\* A caller that is alone on a name, and a step of it that touches no other.
LEMMA AgreeAlone ==
  ASSUME TypeOK, AgreeInv, NEW c \in Clients, NEW n \in Names,
         UNCHANGED <<phase, config>>, Loaded, dirty \subseteq dirty',
         calls[c] = NoCall \/ calls[c].name = n,
         calls'[c] = NoCall \/ calls'[c].name = n,
         \A d \in Clients \ {c} : calls'[d] = calls[d],
         \A m \in Names \ {n} : db'[m] = db[m] /\ jobs'[m] = jobs[m],
         n \notin dirty' => \A d \in CallersOn(n) : d = c,
         n \notin config \cup dirty' /\ calls'[c] = NoCall => Agrees(n)',
         n \notin config \cup dirty' /\ calls'[c] # NoCall => Prepared(c, n)'
  PROVE  AgreeInv'
<1>1. None \notin Names /\ NoCall.name = None
  BY CronAssumption DEF NoCall
<1>2. \A m \in Names \ {n} : CallersOn(m)' = CallersOn(m) /\ c \notin CallersOn(m)
  BY <1>1 DEF CallersOn
<1>3. n \notin dirty' => CallersOn(n)' = IF calls'[c] = NoCall THEN {} ELSE {c}
  BY <1>1 DEF CallersOn
<1>4. AloneOnName'
  BY <1>2, <1>3 DEF AgreeInv, AloneOnName
<1>5. ASSUME NEW m \in Names \ {n} PROVE Agrees(m)' <=> Agrees(m)
  BY DEF Agrees
<1>6. ASSUME NEW m \in Names \ {n}, NEW d \in CallersOn(m)
      PROVE  Prepared(d, m)' <=> Prepared(d, m)
  <2>1. calls'[d] = calls[d] /\ db'[m] = db[m] /\ jobs'[m] = jobs[m]
    BY <1>2 DEF CallersOn
  <2> QED
    BY <2>1 DEF Prepared, Agrees, Stored
<1>7. CallsPrepared'
  <2>1. ASSUME NEW m \in Names \ (config \cup dirty'), NEW d \in CallersOn(m)'
        PROVE  Prepared(d, m)'
    <3>1. CASE m = n
      BY <1>3, <2>1, <3>1
    <3>2. CASE m # n
      BY <1>2, <1>6, <3>2 DEF AgreeInv, CallsPrepared
    <3> QED
      BY <3>1, <3>2
  <2> QED
    BY <2>1 DEF CallsPrepared
<1>8. QuietJobsAgree'
  BY <1>2, <1>3, <1>5 DEF AgreeInv, QuietJobsAgree, Loaded
<1> QED
  BY <1>4, <1>7, <1>8 DEF AgreeInv, OnlyConfigAtFirst, Loaded

LEMMA AgreeUnchanged ==
  ASSUME AgreeInv, UNCHANGED <<phase, config, db, jobs, calls, dirty>>
  PROVE  AgreeInv'
<1>1. \A n : CallersOn(n)' = CallersOn(n)
  BY DEF CallersOn
<1>2. \A n : Agrees(n)' <=> Agrees(n)
  BY DEF Agrees
<1>3. \A c, n : Prepared(c, n)' <=> Prepared(c, n)
  BY <1>2 DEF Prepared, Stored
<1> QED
  BY <1>1, <1>2, <1>3 DEF AgreeInv, AloneOnName, CallsPrepared, OnlyConfigAtFirst,
                          QuietJobsAgree, Loaded

\* A call arrives: if another is under way on its name, the name is given up.
LEMMA AgreeArrives ==
  ASSUME TypeOK, RegistryInv, AgreeInv, NEW c \in Clients,
         CallCreate(c) \/ CallUpdate(c) \/ CallOther(c)
  PROVE  AgreeInv'
<1>1. ASSUME NEW op, NEW n \in Names, NEW arg, Arrive(c, op, n, arg),
             op = "create" => arg.source = "db"
      PROVE  AgreeInv'
  <2>1. /\ calls[c] = NoCall
        /\ calls'[c] = [op |-> op, step |-> "check", name |-> n, job |-> arg]
        /\ \A d \in Clients \ {c} : calls'[d] = calls[d]
        /\ UNCHANGED <<phase, config, db, jobs>>
        /\ phase \in {"serving", "stopping", "stopped"}
        /\ dirty' = IF CallersOn(n) = {} THEN dirty ELSE dirty \cup {n}
    BY <1>1 DEF Arrive, Up, life, runtime, TypeOK
  <2>2. n \notin dirty' => CallersOn(n) = {}
    BY <2>1
  <2>3. n \notin config \cup dirty' => Agrees(n)'
    BY <2>1, <2>2 DEF AgreeInv, QuietJobsAgree, Agrees
  <2>4. n \notin config \cup dirty' => Prepared(c, n)'
    BY <1>1, <2>1, <2>3 DEF Prepared
  <2>5. calls'[c].name = n /\ dirty \subseteq dirty' /\ Loaded
    BY <2>1 DEF Loaded
  <2> QED
    BY <2>1, <2>2, <2>3, <2>4, <2>5, AgreeAlone
<1>2. ASSUME NEW op \in {"delete"} \cup Toggles PROVE op # "create"
  BY DEF Toggles
<1> QED
  BY <1>1, <1>2 DEF CallCreate, CallUpdate, CallOther

\* A statement fails: what the call has done so far left the two in agreement,
\* except between the statements of a toggle, where the name is given up.
LEMMA AgreeDbError ==
  ASSUME TypeOK, AgreeInv, NEW c \in Clients, DbError(c),
         NEW n \in Names, calls[c].name = n, Loaded,
         n \notin config \cup dirty', Prepared(c, n)
  PROVE  calls'[c] = NoCall /\ Agrees(n)'
<1>1. calls'[c] = NoCall /\ UNCHANGED <<db, jobs>>
  BY DEF DbError, Return, runtime, TypeOK
<1>2. calls[c].step \in {"insert", "read", "write", "erase"}
  BY DEF DbError, Prepared
<1>3. Agrees(n)
  BY <1>2 DEF Prepared
<1> QED
  BY <1>1, <1>3 DEF Agrees

\* Each step of a call that is alone on its name prepares the next one, and
\* the last leaves agreement.
LEMMA AgreeCreates ==
  ASSUME TypeOK, NEW c \in Clients, NEW n \in Names, calls[c].name = n,
         calls[c] \in Call, Prepared(c, n),
         CreateCheck(c) \/ CreateInsert(c) \/ CreateRegister(c) \/ CreateRollback(c)
  PROVE  /\ calls'[c] = NoCall => Agrees(n)'
         /\ calls'[c] # NoCall => Prepared(c, n)'
<1> USE DEF At, NoCall
<1>1. CASE CreateCheck(c)
  <2>1. UNCHANGED <<db, jobs>> /\ Agrees(n)
    BY <1>1 DEF CreateCheck, runtime, Prepared
  <2>2. Agrees(n)'
    BY <2>1 DEF Agrees
  <2>3. calls'[c] = NoCall \/ (calls'[c] = Moved(calls[c], "insert", calls[c].job) /\ jobs[n] = None)
    BY <1>1 DEF CreateCheck, Return, Goto, GotoWith, Moved, TypeOK
  <2> QED
    BY <1>1, <2>1, <2>2, <2>3 DEF CreateCheck, Prepared, Moved
<1>2. CASE CreateInsert(c)
  <2>1. UNCHANGED jobs /\ Agrees(n) /\ jobs[n] = None /\ calls[c].job.source = "db"
    BY <1>2 DEF CreateInsert, runtime, Prepared
  <2>2. calls[c].job \in Job
    BY <1>2, CallType DEF CreateInsert
  <2>3. CASE db[n] # None
    BY <1>2, <2>1, <2>3 DEF CreateInsert, Return, TypeOK, Agrees
  <2>4. CASE db[n] = None
    <3>1. /\ db'[n] = [def |-> calls[c].job.def, enabled |-> calls[c].job.enabled]
          /\ calls'[c] = Moved(calls[c], "register", calls[c].job)
      BY <1>2, <2>4 DEF CreateInsert, Goto, GotoWith, Moved, TypeOK
    <3>2. calls[c].job = Stored(n)'
      BY <2>1, <2>2, <3>1 DEF Job, Stored
    <3>3. db'[n] # None
      BY <2>2, <3>1, CronAssumption DEF Job
    <3> QED
      BY <1>2, <2>1, <3>1, <3>2, <3>3 DEF CreateInsert, Prepared, Moved
  <2> QED
    BY <2>3, <2>4
<1>3. CASE CreateRegister(c)
  <2>1. jobs[n] = None /\ db[n] # None /\ calls[c].job = Stored(n)
    BY <1>3 DEF CreateRegister, Prepared
  <2>2. calls'[c] = NoCall /\ jobs'[n] = calls[c].job /\ UNCHANGED db
    BY <1>3, <2>1 DEF CreateRegister, Register, Return, TypeOK
  <2> QED
    BY <2>1, <2>2 DEF Agrees, Stored
<1>4. CASE CreateRollback(c)
  BY <1>4 DEF CreateRollback, Prepared
<1> QED
  BY <1>1, <1>2, <1>3, <1>4

LEMMA AgreeChanges ==
  ASSUME TypeOK, NEW c \in Clients, NEW n \in Names, calls[c].name = n,
         calls[c] \in Call, Prepared(c, n),
         \/ UpdateRead(c) \/ UpdateWrite(c)
         \/ SetEnabledWrite(c) \/ SetEnabledReread(c) \/ Replace(c)
  PROVE  /\ calls'[c] = NoCall => Agrees(n)'
         /\ calls'[c] # NoCall => Prepared(c, n)'
<1> USE DEF At, NoCall, Toggles
<1>1. CASE UpdateRead(c)
  <2>1. UNCHANGED <<db, jobs>> /\ Agrees(n)
    BY <1>1 DEF UpdateRead, runtime, Prepared
  <2>2. Agrees(n)'
    BY <2>1 DEF Agrees
  <2>3. \/ calls'[c] = NoCall
        \/ db[n] # None /\ calls'[c] = Moved(calls[c], "write", Merge(db[n], calls[c].job))
    BY <1>1 DEF UpdateRead, Return, GotoWith, Moved, TypeOK
  <2> QED
    BY <1>1, <2>1, <2>2, <2>3 DEF UpdateRead, Prepared, Moved, Merge
<1>2. CASE UpdateWrite(c)
  <2>1. /\ UNCHANGED jobs /\ Agrees(n) /\ db[n] # None
        /\ calls[c].job.source = "db" /\ calls[c].job.enabled = db[n].enabled
    BY <1>2 DEF UpdateWrite, runtime, Prepared
  <2>2. calls[c].job \in Job
    BY <1>2, CallType DEF UpdateWrite
  <2>3. /\ db'[n] = [def |-> calls[c].job.def, enabled |-> db[n].enabled]
        /\ calls'[c] = Moved(calls[c], "register", calls[c].job)
    BY <1>2, <2>1 DEF UpdateWrite, Goto, GotoWith, Moved, TypeOK
  <2>4. calls[c].job = Stored(n)'
    BY <2>1, <2>2, <2>3 DEF Job, Stored
  <2>5. db'[n] # None
    BY <2>1, <2>2, <2>3, CronAssumption DEF Job
  <2> QED
    BY <1>2, <2>3, <2>4, <2>5 DEF UpdateWrite, Prepared, Moved
<1>3. CASE SetEnabledWrite(c)
  <2>1. UNCHANGED jobs /\ Agrees(n)
    BY <1>3 DEF SetEnabledWrite, runtime, Prepared
  <2>2. CASE db[n] = None
    BY <1>3, <2>1, <2>2 DEF SetEnabledWrite, Return, TypeOK, Agrees
  <2>3. CASE db[n] # None
    <3>1. /\ db'[n] = [def |-> db[n].def, enabled |-> calls[c].op = "enable"]
          /\ calls'[c] = Moved(calls[c], "reread", calls[c].job)
      BY <1>3, <2>3 DEF SetEnabledWrite, Goto, GotoWith, Moved, TypeOK
    <3>2. db'[n] \in Row
      <4>1. db[n] \in Row
        BY <2>3 DEF TypeOK
      <4>2. ASSUME NEW b \in BOOLEAN PROVE [def |-> db[n].def, enabled |-> b] \in Row
        BY <4>1 DEF Row
      <4> QED
        BY <3>1, <4>2
    <3>3. db'[n] # None
      BY <3>2, CronAssumption DEF Row
    <3> QED
      BY <1>3, <3>1, <3>3 DEF SetEnabledWrite, Prepared, Moved
  <2> QED
    BY <2>2, <2>3
<1>4. CASE SetEnabledReread(c)
  <2>1. UNCHANGED <<db, jobs>> /\ db[n] # None
    BY <1>4 DEF SetEnabledReread, runtime, Prepared
  <2>2. calls'[c] = Moved(calls[c], "register", Stored(n))
    BY <1>4, <2>1 DEF SetEnabledReread, GotoWith, Moved, Stored, TypeOK
  <2>3. Stored(n)' = Stored(n)
    BY <2>1 DEF Stored
  <2> QED
    BY <1>4, <2>1, <2>2, <2>3 DEF SetEnabledReread, Prepared, Moved
<1>5. CASE Replace(c)
  <2>1. db[n] # None /\ calls[c].job = Stored(n)
    BY <1>5 DEF Replace, Prepared
  <2>2. calls'[c] = NoCall /\ jobs'[n] = calls[c].job /\ UNCHANGED db
    BY <1>5 DEF Replace, Register, Return, TypeOK
  <2> QED
    BY <2>1, <2>2 DEF Agrees, Stored
<1> QED
  BY <1>1, <1>2, <1>3, <1>4, <1>5

LEMMA AgreeChecksAndDeletes ==
  ASSUME TypeOK, NEW c \in Clients, NEW n \in Names, calls[c].name = n,
         calls[c] \in Call, Prepared(c, n),
         CheckReadOnly(c) \/ DeleteErase(c) \/ DeleteUnregister(c)
  PROVE  /\ calls'[c] = NoCall => Agrees(n)'
         /\ calls'[c] # NoCall => Prepared(c, n)'
<1> USE DEF At, NoCall, Toggles
<1>1. CASE CheckReadOnly(c)
  <2>1. UNCHANGED <<db, jobs>> /\ Agrees(n)
    BY <1>1 DEF CheckReadOnly, runtime, Prepared
  <2>2. Agrees(n)'
    BY <2>1 DEF Agrees
  <2>3. ReadOnly(n) => calls'[c] = NoCall
    BY <1>1 DEF CheckReadOnly, Return, TypeOK
  <2>4. CASE calls[c].op = "update" /\ ~ReadOnly(n)
    <3>1. calls'[c] = Moved(calls[c], "read", calls[c].job)
      BY <1>1, <2>4 DEF CheckReadOnly, Goto, GotoWith, Moved, TypeOK
    <3> QED
      BY <2>2, <2>4, <3>1 DEF Prepared, Moved
  <2>5. CASE calls[c].op = "delete" /\ ~ReadOnly(n)
    <3>1. calls'[c] = Moved(calls[c], "erase", calls[c].job)
      BY <1>1, <2>5 DEF CheckReadOnly, Goto, GotoWith, Moved, TypeOK
    <3> QED
      BY <2>2, <2>5, <3>1 DEF Prepared, Moved
  <2>6. CASE calls[c].op \in Toggles /\ ~ReadOnly(n)
    <3>1. calls'[c] = Moved(calls[c], "write", calls[c].job)
      BY <1>1, <2>6 DEF CheckReadOnly, Goto, GotoWith, Moved, TypeOK
    <3> QED
      BY <2>2, <2>6, <3>1 DEF Prepared, Moved
  <2> QED
    BY <1>1, <2>2, <2>3, <2>4, <2>5, <2>6 DEF CheckReadOnly
<1>2. CASE DeleteErase(c)
  <2>1. UNCHANGED jobs /\ Agrees(n)
    BY <1>2 DEF DeleteErase, runtime, Prepared
  <2>2. CASE db[n] = None
    BY <1>2, <2>1, <2>2 DEF DeleteErase, Return, TypeOK, Agrees
  <2>3. CASE db[n] # None
    <3>1. db'[n] = None /\ calls'[c] = Moved(calls[c], "unregister", calls[c].job)
      BY <1>2, <2>3 DEF DeleteErase, Goto, GotoWith, Moved, TypeOK
    <3> QED
      BY <1>2, <3>1 DEF DeleteErase, Prepared, Moved
  <2> QED
    BY <2>2, <2>3
<1>3. CASE DeleteUnregister(c)
  <2>1. db[n] = None
    BY <1>3 DEF DeleteUnregister, Prepared
  <2>2. calls'[c] = NoCall /\ jobs'[n] = None /\ UNCHANGED db
    BY <1>3 DEF DeleteUnregister, Unregister, Return, runtime, TypeOK
  <2> QED
    BY <2>1, <2>2 DEF Agrees
<1> QED
  BY <1>1, <1>2, <1>3

LEMMA AgreeCalls ==
  ASSUME TypeOK, RegistryInv, AgreeInv, NEW c \in Clients, CallStep(c) \/ DbError(c)
  PROVE  AgreeInv'
<1> PICK n \in Names : n = calls[c].name
  BY CallReach
<1>1. /\ calls[c] # NoCall /\ calls[c] \in Call /\ calls[c].name = n
      /\ UNCHANGED <<phase, config>>
      /\ \A d \in Clients \ {c} : calls'[d] = calls[d]
      /\ calls'[c] = NoCall \/ calls'[c].name = n
      /\ \A m \in Names \ {n} : db'[m] = db[m] /\ jobs'[m] = jobs[m]
      /\ dirty \subseteq dirty'
  BY CallReach DEF life
<1>2. Loaded
  BY <1>1, CallersAreServed DEF Loaded
<1>3. n \notin dirty' => \A d \in CallersOn(n) : d = c
  BY <1>1 DEF AgreeInv, AloneOnName, CallersOn
<1>4. n \notin config \cup dirty' => Prepared(c, n)
  BY <1>1, <1>2 DEF AgreeInv, CallsPrepared, CallersOn
<1>5. ASSUME n \notin config \cup dirty'
      PROVE  /\ calls'[c] = NoCall => Agrees(n)'
             /\ calls'[c] # NoCall => Prepared(c, n)'
  <2>1. Prepared(c, n)
    BY <1>4, <1>5
  <2>2. CASE DbError(c)
    BY <1>1, <1>2, <1>5, <2>1, <2>2, AgreeDbError
  <2>3. CASE CallStep(c)
    BY <1>1, <2>1, <2>3, AgreeCreates, AgreeChanges, AgreeChecksAndDeletes DEF CallStep
  <2> QED
    BY <2>2, <2>3
<1> QED
  BY <1>1, <1>2, <1>3, <1>5, AgreeAlone

\* Start-up brings the two together, whatever calls a crash has cut short.
LEMMA AgreeLife ==
  ASSUME TypeOK, RegistryInv, ConfigInv, AgreeInv,
         \/ AddConfigJobs \/ LoadPersistedJobs \/ LoadFails \/ Start
         \/ Stop \/ StopReturns \/ Crash
  PROVE  AgreeInv'
<1>1. ASSUME calls' = NoCalls PROVE \A n \in Names : CallersOn(n)' = {}
  BY <1>1, CronAssumption DEF NoCalls, NoCall, CallersOn
<1>2. CASE AddConfigJobs
  <2> DEFINE new == [n \in Names |-> [def |-> ConfigDef, enabled |-> TRUE,
                                      source |-> "config"]]
  <2>1. PICK S \in SUBSET ConfigNames : config' = S /\ BootRegister(new, S)
    BY <1>2 DEF AddConfigJobs
  <2>2. \A n \in Names \ S : jobs'[n] = None
    <3>1. jobs = Nowhere
      BY <1>2 DEF AddConfigJobs, RegistryInv, BootState
    <3> HIDE DEF new
    <3> QED
      BY <2>1, <3>1 DEF BootRegister, Nowhere
  <2>3. calls' = NoCalls /\ phase' = "configured"
    BY <1>2 DEF AddConfigJobs, RegistryInv, BootState
  <2> QED
    BY <1>1, <2>1, <2>2, <2>3 DEF AgreeInv, AloneOnName, CallsPrepared, OnlyConfigAtFirst,
                                  QuietJobsAgree, Loaded
<1>3. CASE LoadPersistedJobs
  <2>1. /\ calls' = NoCalls /\ phase' = "loaded" /\ UNCHANGED <<config, db>>
        /\ \A n \in Names \ config : jobs[n] = None
    BY <1>3 DEF LoadPersistedJobs, RegistryInv, BootState, AgreeInv, OnlyConfigAtFirst
  <2>2. ASSUME NEW n \in Names \ (config \cup dirty') PROVE Agrees(n)'
    BY <1>3, <2>1, <2>2 DEF LoadPersistedJobs, BootRegister, Agrees
  <2> QED
    BY <1>1, <2>1, <2>2 DEF AgreeInv, AloneOnName, CallsPrepared, OnlyConfigAtFirst,
                            QuietJobsAgree, Loaded
<1>4. CASE LoadFails
  <2>1. /\ calls' = NoCalls /\ phase' = "loaded" /\ UNCHANGED <<config, db, jobs>>
        /\ \A n \in Names \ config : jobs[n] = None
        /\ dirty' = {n \in Names : db[n] # None}
    BY <1>4 DEF LoadFails, runtime, RegistryInv, BootState, AgreeInv, OnlyConfigAtFirst
  <2>2. ASSUME NEW n \in Names \ (config \cup dirty') PROVE Agrees(n)'
    BY <2>1 DEF Agrees
  <2> QED
    BY <1>1, <2>1, <2>2 DEF AgreeInv, AloneOnName, CallsPrepared, OnlyConfigAtFirst,
                            QuietJobsAgree, Loaded
<1>5. CASE Start \/ Stop \/ StopReturns
  <2>1. /\ UNCHANGED <<config, db, jobs, calls, dirty>>
        /\ Loaded /\ phase' \notin {"down", "configured"}
    BY <1>5 DEF Start, Stop, StopReturns, runtime, Loaded
  <2>2. \A n : CallersOn(n)' = CallersOn(n)
    BY <2>1 DEF CallersOn
  <2>3. \A n : Agrees(n)' <=> Agrees(n)
    BY <2>1 DEF Agrees
  <2>4. \A c, n : Prepared(c, n)' <=> Prepared(c, n)
    BY <2>1, <2>3 DEF Prepared, Stored
  <2> QED
    BY <2>1, <2>2, <2>3, <2>4 DEF AgreeInv, AloneOnName, CallsPrepared, OnlyConfigAtFirst,
                                  QuietJobsAgree, Loaded
<1>6. CASE Crash
  <2>1. calls' = NoCalls /\ phase' = "down"
    BY <1>6 DEF Crash
  <2> QED
    BY <1>1, <2>1 DEF AgreeInv, AloneOnName, CallsPrepared, OnlyConfigAtFirst,
                      QuietJobsAgree, Loaded
<1> QED
  BY <1>2, <1>3, <1>4, <1>5, <1>6

LEMMA AgreeInvNext ==
  TypeOK /\ RegistryInv /\ ConfigInv /\ AgreeInv /\ [Next]_vars => AgreeInv'
<1> SUFFICES ASSUME TypeOK, RegistryInv, ConfigInv, AgreeInv, [Next]_vars PROVE AgreeInv'
  OBVIOUS
<1>1. CASE \/ \E x \in Slots, n \in Names, g \in Gens : EntryFires(x, n, g)
           \/ \E n \in Names, g \in Gens : LoopFires(n, g) \/ LoopExits(n, g)
           \/ \E c \in Clients, n \in Names : RunNow(c, n)
           \/ \E x \in Executors : RunStep(x) \/ SessionFails(x) \/ ToolHangs(x) \/ ToolReturns(x)
           \/ UNCHANGED vars
  <2>1. UNCHANGED <<phase, config, db, jobs, calls, dirty>>
    BY <1>1 DEF EntryFires, LoopFires, RunNow, Fire, LoopExits, RunStep, Mark, SelectSession,
                CreateSession, AgentReturns, Clear, SessionFails, ToolHangs, ToolReturns, vars, life, runtime
  <2> QED
    BY <2>1, AgreeUnchanged
<1> QED
  BY <1>1, AgreeLife, AgreeArrives, AgreeCalls DEF Next

LEMMA AgreeInvariant == Spec => []AgreeInv
  BY AgreeInvInit, AgreeInvNext, TypeCorrect, RegistryInvariant, ConfigInvariant, PTL DEF Spec

\* Where calls do not overlap, the registry and the table agree as soon as no
\* call is under way, a crash between any two statements included (the
\* persistent operations and LoadPersistedJobs of cron.go).
THEOREM RegistryFollowsTable == Spec => []QuietJobsAgree
<1>1. AgreeInv => QuietJobsAgree
  BY DEF AgreeInv
<1> QED
  BY <1>1, AgreeInvariant, PTL
=============================================================================
