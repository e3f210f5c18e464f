------------------------- MODULE AdapterManagerProofs -------------------------
(***************************************************************************)
(* Proofs about the adapter manager: typing, the restart schedule, that    *)
(* nothing runs once Stop has returned, that channels are not shared, and  *)
(* that the status tells the truth about an instance alone on its name.    *)
(*                                                                         *)
(* The schedule needs to know the delay that is to come at every point of  *)
(* the restart loop, since the counter goes up in one place and the delay  *)
(* in another (Scheduled).  Typing needs that a call holds an instance     *)
(* where it uses one (Held).                                               *)
(***************************************************************************)
EXTENDS AdapterManager, TLAPS

Sup == [step : SupSteps, restarts : 0..(MaxRestarts + 1),
        backoff : {1, 2, 4, 8, 16}, chan : Instances \cup {None}]

HealthState == [step : {"off", "wait", "probe", "update", "gone"},
                left : SUBSET Instances, inst : Instances \cup {None},
                bad : BOOLEAN]

CallState == [step : {"idle", "status", "lookup", "stop", "unregister", "create",
                      "register", "run"},
              op : {"none", "connect", "disconnect"},
              name : Names \cup {None}, inst : Instances \cup {None}]

\* The delay that follows failure number r.
DelayIs(r, b) ==
  /\ r = 1 => b = 1
  /\ r = 2 => b = 2
  /\ r = 3 => b = 4
  /\ r = 4 => b = 8
  /\ r = 5 => b = 16

\* Before the delay the counter is ahead of it, after the delay they are level.
Scheduled(s) ==
  /\ s.step = "top" /\ s.restarts = 0 => s.backoff = 1
  /\ s.step \in {"failed", "top", "count", "backoff"} => DelayIs(s.restarts, s.backoff)
  /\ s.step \in {"mark", "connecting", "running"} => DelayIs(s.restarts + 1, s.backoff)
  /\ s.step \in {"failed", "count", "backoff"} => s.restarts >= 1
  /\ s.step \in {"top", "count", "backoff", "mark", "connecting", "running"}
       => s.restarts <= MaxRestarts

SupInv == sup \in [Instances -> Sup] /\ \A i \in Instances : Scheduled(sup[i])

Held(k) ==
  /\ k.step # "idle" => k.name \in Names
  /\ k.step \in {"stop", "register", "run"} => k.inst \in Instances

CallInv == calls \in [Clients -> CallState] /\ \A c \in Clients : Held(calls[c])

HealthInv == health \in HealthState /\ (health.step = "update" => health.inst \in Instances)

RegistryInv ==
  /\ adapters \in [Names -> Instances \cup {None}]
  /\ outbound \in [Names -> Instances \cup {None}]
  /\ made \subseteq Instances
  /\ done \subseteq Instances
  /\ contended \subseteq Names

FlagInv ==
  /\ status \in [Names -> BOOLEAN]
  /\ cancelled \in BOOLEAN
  /\ stopping \in {"no", "waiting", "returned"}

ManagerInv == SupInv /\ CallInv /\ HealthInv /\ RegistryInv /\ FlagInv

LEMMA Known ==
  /\ NameOf \in [Instances -> Names]
  /\ Boot \subseteq Instances
  /\ MaxRestarts \in Nat
  /\ None \notin Names /\ None \notin Instances
BY AdapterAssumption

USE Known

-----------------------------------------------------------------------------
(***************************************************************************)
(* The beginning.                                                          *)
(***************************************************************************)
LEMMA ManagerInit == Init => ManagerInv
<1> SUFFICES ASSUME Init PROVE ManagerInv
  OBVIOUS
<1>1. SupInv
  BY DEF Init, NoSup, SupInv, Sup, SupSteps, Scheduled, DelayIs
<1>2. CallInv
  BY DEF Init, NoCall, CallInv, CallState, Held
<1>3. HealthInv
  <2>1. health.bad \in BOOLEAN
    BY DEF Init, HealthOff
  <2> QED
    BY <2>1, Zenon DEF Init, HealthOff, HealthInv, HealthState
<1>4. RegistryInv
  <2>1. adapters \in [Names -> Instances \cup {None}]
    <3> SUFFICES ASSUME NEW n \in Names
                 PROVE (IF \E i \in Boot : NameOf[i] = n
                        THEN CHOOSE i \in Boot : NameOf[i] = n ELSE None)
                       \in Instances \cup {None}
      BY DEF Init
    <3> QED
      OBVIOUS
  <2> QED
    BY <2>1 DEF Init, RegistryInv
<1>5. FlagInv
  BY Zenon DEF Init, FlagInv
<1> QED
  BY <1>1, <1>2, <1>3, <1>4, <1>5 DEF ManagerInv

-----------------------------------------------------------------------------
(***************************************************************************)
(* The supervisors.                                                        *)
(***************************************************************************)
LEMMA SupMoves ==
  ASSUME SupInv, NEW i \in Instances, NEW s \in Sup, Scheduled(s),
         sup' = [sup EXCEPT ![i] = s]
  PROVE  SupInv'
<1>1. sup' \in [Instances -> Sup]
  BY DEF SupInv
<1>2. ASSUME NEW j \in Instances PROVE Scheduled(sup'[j])
  <2>1. CASE j = i
    <3>1. sup'[j] = s
      BY <2>1 DEF SupInv
    <3> QED
      BY <3>1
  <2>2. CASE j # i
    <3>1. sup'[j] = sup[j]
      BY <2>2 DEF SupInv
    <3> QED
      BY <3>1 DEF SupInv
  <2> QED
    BY <2>1, <2>2
<1> QED
  BY <1>1, <1>2 DEF SupInv

\* A step that leaves counter and delay alone.
LEMMA SupGoes ==
  ASSUME SupInv, NEW i \in Instances, NEW step \in SupSteps, SupGoto(i, step),
         Scheduled([step |-> step, restarts |-> sup[i].restarts,
                    backoff |-> sup[i].backoff, chan |-> sup[i].chan])
  PROVE  SupInv'
<1> DEFINE s == [step |-> step, restarts |-> sup[i].restarts,
                 backoff |-> sup[i].backoff, chan |-> sup[i].chan]
<1>1. s \in Sup
  BY DEF SupInv, Sup
<1>2. sup' = [sup EXCEPT ![i] = s]
  BY DEF SupGoto
<1>3. Scheduled(s)
  OBVIOUS
<1> HIDE DEF s
<1> QED
  BY <1>1, <1>2, <1>3, SupMoves

LEMMA SupPreserves ==
  ASSUME SupInv, NEW i \in Instances,
         SupStep(i) \/ Connected(i) \/ StartFails(i) \/ StartReturns(i)
  PROVE  SupInv'
<1> USE DEF SupAt
<1>0. sup[i] \in Sup /\ Scheduled(sup[i])
  BY DEF SupInv
<1>1. CASE Top(i)
  <2>1. CASE SupGoto(i, "gone")
    BY <1>1, <1>0, <2>1, SupGoes DEF SupSteps, Scheduled
  <2>2. CASE SupGoto(i, "count") /\ sup[i].restarts > 0
    BY <1>1, <1>0, <2>2, SupGoes DEF Top, SupSteps, Scheduled, Sup
  <2>3. CASE SupGoto(i, "mark") /\ ~(sup[i].restarts > 0)
    <3>1. sup[i].restarts = 0 /\ sup[i].backoff = 1
      BY <1>1, <1>0, <2>3 DEF Top, Scheduled, Sup
    <3> QED
      BY <1>1, <1>0, <2>3, <3>1, SupGoes DEF SupSteps, Scheduled, DelayIs
  <2> QED
    BY <1>1, <2>1, <2>2, <2>3 DEF Top
<1>2. CASE Count(i)
  BY <1>2, <1>0, SupGoes DEF Count, SupSteps, Scheduled
<1>3. CASE Backoff(i)
  <2>1. CASE SupGoto(i, "gone")
    BY <1>0, <2>1, SupGoes DEF SupSteps, Scheduled
  <2>2. CASE sup' = [sup EXCEPT ![i] = [step |-> "mark", restarts |-> sup[i].restarts,
                       backoff |-> NextBackoff(sup[i].backoff), chan |-> sup[i].chan]]
    <3> DEFINE s == [step |-> "mark", restarts |-> sup[i].restarts,
                     backoff |-> NextBackoff(sup[i].backoff), chan |-> sup[i].chan]
    <3>1. s \in Sup
      BY <1>0 DEF Sup, SupSteps, NextBackoff
    <3>2. Scheduled(s)
      BY <1>3, <1>0 DEF Backoff, Sup, Scheduled, DelayIs, NextBackoff
    <3>3. sup' = [sup EXCEPT ![i] = s]
      BY <2>2
    <3> HIDE DEF s
    <3> QED
      BY <3>1, <3>2, <3>3, SupMoves
  <2> QED
    BY <1>3, <2>1, <2>2 DEF Backoff
<1>4. CASE Mark(i)
  BY <1>4, <1>0, SupGoes DEF Mark, SupSteps, Scheduled
<1>5. CASE Failed(i)
  <2>1. CASE SupGoto(i, "gone")
    BY <1>0, <2>1, SupGoes DEF SupSteps, Scheduled
  <2>2. CASE SupGoto(i, "top") /\ ~GivesUp(i)
    BY <1>5, <1>0, <2>2, SupGoes DEF Failed, GivesUp, SupSteps, Scheduled, Sup
  <2> QED
    BY <1>5, <2>1, <2>2 DEF Failed
<1>6. CASE Clean(i)
  BY <1>6, <1>0, SupGoes DEF Clean, SupSteps, Scheduled
<1>7. CASE Connected(i)
  BY <1>7, <1>0, SupGoes DEF Connected, SupSteps, Scheduled
<1>8. CASE StartFails(i)
  <2>1. CASE SupGoto(i, "gone")
    BY <1>0, <2>1, SupGoes DEF SupSteps, Scheduled
  <2>2. ASSUME NEW long \in BOOLEAN, sup' = [sup EXCEPT ![i] = Failure(i, long)]
        PROVE  SupInv'
    <3>1. Failure(i, long) \in Sup
      BY <1>8, <1>0 DEF StartFails, Failure, Sup, SupSteps, Scheduled
    <3>2. Scheduled(Failure(i, long))
      BY <1>8, <1>0 DEF StartFails, Failure, Sup, Scheduled, DelayIs
    <3> QED
      BY <2>2, <3>1, <3>2, SupMoves
  <2>3. MayBeLong(i) \subseteq BOOLEAN
    BY DEF MayBeLong
  <2> QED
    BY <1>8, <2>1, <2>2, <2>3 DEF StartFails
<1>9. CASE StartReturns(i)
  <2>1. CASE SupGoto(i, "gone")
    BY <1>0, <2>1, SupGoes DEF SupSteps, Scheduled
  <2>2. CASE SupGoto(i, "clean")
    BY <1>0, <2>2, SupGoes DEF SupSteps, Scheduled
  <2> QED
    BY <1>9, <2>1, <2>2 DEF StartReturns
<1> QED
  BY <1>1, <1>2, <1>3, <1>4, <1>5, <1>6, <1>7, <1>8, <1>9 DEF SupStep

-----------------------------------------------------------------------------
(***************************************************************************)
(* The other variables, action by action.                                  *)
(***************************************************************************)
LEMMA CallMoves ==
  ASSUME CallInv, NEW c \in Clients, NEW k \in CallState, Held(k),
         calls' = [calls EXCEPT ![c] = k]
  PROVE  CallInv'
<1>1. calls' \in [Clients -> CallState]
  BY DEF CallInv
<1>2. ASSUME NEW d \in Clients PROVE Held(calls'[d])
  <2>1. CASE d = c
    BY <2>1 DEF CallInv
  <2>2. CASE d # c
    <3>1. calls'[d] = calls[d]
      BY <2>2 DEF CallInv
    <3> QED
      BY <3>1 DEF CallInv
  <2> QED
    BY <2>1, <2>2
<1> QED
  BY <1>1, <1>2 DEF CallInv

LEMMA CallReturns ==
  ASSUME CallInv, NEW c \in Clients, CallReturn(c)
  PROVE  CallInv'
<1>1. NoCall \in CallState /\ Held(NoCall)
  BY DEF NoCall, CallState, Held
<1> HIDE DEF NoCall
<1> QED
  BY <1>1, CallMoves DEF CallReturn

LEMMA CallGoes ==
  ASSUME CallInv, NEW c \in Clients, calls[c].step # "idle",
         NEW step \in {"status", "lookup", "stop", "unregister", "create",
                       "register", "run"},
         NEW i \in Instances \cup {None},
         step \in {"stop", "register", "run"} => i \in Instances,
         CallGoto(c, step, i)
  PROVE  CallInv'
<1> DEFINE k == [step |-> step, op |-> calls[c].op, name |-> calls[c].name, inst |-> i]
<1>1. calls[c] \in CallState /\ Held(calls[c])
  BY DEF CallInv
<1>2. k \in CallState /\ Held(k)
  BY <1>1 DEF CallState, Held
<1>3. calls' = [calls EXCEPT ![c] = k]
  BY DEF CallGoto
<1> HIDE DEF k
<1> QED
  BY <1>2, <1>3, CallMoves

LEMMA CallsPreserve ==
  ASSUME ManagerInv, NEW c \in Clients,
         CallStep(c) \/ \E n \in Names : Connect(c, n) \/ Disconnect(c, n)
  PROVE  CallInv'
<1> USE DEF CallAt
<1>0. CallInv /\ RegistryInv /\ calls[c] \in CallState /\ Held(calls[c])
  BY DEF ManagerInv, CallInv
<1>1. CASE ConnectStatus(c)
  BY <1>0, <1>1, CallReturns, CallGoes DEF ConnectStatus
<1>2. CASE Lookup(c)
  <2>1. adapters[calls[c].name] \in Instances \cup {None}
    BY <1>0, <1>2 DEF Lookup, Held, RegistryInv
  <2> QED
    BY <1>0, <1>2, <2>1, CallReturns, CallGoes DEF Lookup
<1>3. CASE StopAdapter(c)
  BY <1>0, <1>3, CallGoes DEF StopAdapter
<1>4. CASE Unregister(c)
  BY <1>0, <1>4, CallReturns, CallGoes DEF Unregister
<1>5. CASE Create(c)
  BY <1>0, <1>5, CallReturns, CallGoes DEF Create
<1>6. CASE Register(c)
  <2>1. calls[c].inst \in Instances
    BY <1>0, <1>6 DEF Register, Held
  <2> QED
    BY <1>0, <1>6, <2>1, CallGoes DEF Register
<1>7. CASE RunOne(c)
  BY <1>0, <1>7, CallReturns DEF RunOne
<1>8. ASSUME NEW n \in Names, Connect(c, n) PROVE CallInv'
  <2> DEFINE k == [step |-> IF adapters[n] = None THEN "create" ELSE "status",
                   op |-> "connect", name |-> n, inst |-> None]
  <2>1. k \in CallState /\ Held(k)
    BY DEF CallState, Held
  <2>2. calls' = [calls EXCEPT ![c] = k]
    BY <1>8 DEF Connect
  <2> HIDE DEF k
  <2> QED
    BY <1>0, <2>1, <2>2, CallMoves
<1>9. ASSUME NEW n \in Names, Disconnect(c, n) PROVE CallInv'
  <2> DEFINE k == [step |-> "lookup", op |-> "disconnect", name |-> n, inst |-> None]
  <2>1. k \in CallState /\ Held(k)
    BY DEF CallState, Held
  <2>2. calls' = [calls EXCEPT ![c] = k]
    BY <1>9 DEF Disconnect
  <2> HIDE DEF k
  <2> QED
    BY <1>0, <2>1, <2>2, CallMoves
<1> QED
  BY <1>1, <1>2, <1>3, <1>4, <1>5, <1>6, <1>7, <1>8, <1>9 DEF CallStep

\* RunOne and Start put supervisors at the top of their loop.
LEMMA FirstIsScheduled ==
  ASSUME NEW ch \in Instances \cup {None}
  PROVE  LET s == [step |-> "top", restarts |-> 0, backoff |-> 1, chan |-> ch]
         IN s \in Sup /\ Scheduled(s)
BY DEF Sup, SupSteps, Scheduled, DelayIs

LEMMA RunOneStarts ==
  ASSUME ManagerInv, NEW c \in Clients, RunOne(c)
  PROVE  SupInv'
<1> DEFINE ch == outbound[calls[c].name]
           s == [step |-> "top", restarts |-> 0, backoff |-> 1, chan |-> ch]
<1>1. calls[c].name \in Names /\ calls[c].inst \in Instances
  BY DEF ManagerInv, CallInv, Held, RunOne, CallAt
<1>2. ch \in Instances \cup {None}
  BY <1>1 DEF ManagerInv, RegistryInv
<1>3. s \in Sup /\ Scheduled(s)
  BY <1>2, FirstIsScheduled
<1>4. sup' = sup \/ sup' = [sup EXCEPT ![calls[c].inst] = s]
  BY DEF RunOne
<1>5. SupInv
  BY DEF ManagerInv
<1> HIDE DEF s
<1>6. CASE sup' = sup
  BY <1>5, <1>6 DEF SupInv
<1> QED
  BY <1>1, <1>3, <1>4, <1>5, <1>6, SupMoves

LEMMA StartStarts ==
  ASSUME ManagerInv, Start
  PROVE  SupInv'
<1> DEFINE s(i) == [step |-> "top", restarts |-> 0, backoff |-> 1,
                    chan |-> outbound[NameOf[i]]]
<1>1. ASSUME NEW i \in Instances PROVE s(i) \in Sup /\ Scheduled(s(i))
  <2>1. outbound[NameOf[i]] \in Instances \cup {None}
    BY DEF ManagerInv, RegistryInv
  <2> QED
    BY <2>1, FirstIsScheduled
<1>2. sup' = [i \in Instances |-> IF i \in Boot THEN s(i) ELSE sup[i]]
  BY DEF Start
<1>3. SupInv
  BY DEF ManagerInv
<1> HIDE DEF s
<1>4. sup' \in [Instances -> Sup]
  BY <1>1, <1>2, <1>3 DEF SupInv
<1>5. ASSUME NEW i \in Instances PROVE Scheduled(sup'[i])
  <2>1. sup'[i] = s(i) \/ sup'[i] = sup[i]
    BY <1>2
  <2>2. CASE sup'[i] = s(i)
    BY <2>2, <1>1
  <2>3. CASE sup'[i] = sup[i]
    BY <2>3, <1>3 DEF SupInv
  <2> QED
    BY <2>1, <2>2, <2>3
<1> QED
  BY <1>4, <1>5 DEF SupInv

\* A state of the health loop, its Boolean apart.
LEMMA HealthMoves ==
  ASSUME NEW step \in {"off", "wait", "probe", "update", "gone"},
         NEW left \in SUBSET Instances, NEW i \in Instances \cup {None},
         NEW bad \in BOOLEAN, step = "update" => i \in Instances,
         health' = [step |-> step, left |-> left, inst |-> i, bad |-> bad]
  PROVE  HealthInv'
<1>1. health' \in HealthState
  BY Zenon DEF HealthState
<1>2. health'.step = step /\ health'.inst = i
  BY Zenon
<1> QED
  BY <1>1, <1>2, Zenon DEF HealthInv

LEMMA HealthPreserves ==
  ASSUME ManagerInv, Tick \/ Probe \/ Report \/ Start
  PROVE  HealthInv'
<1>0. health.left \subseteq Instances
  BY DEF ManagerInv, HealthInv, HealthState
<1>1. health' = [step |-> "gone", left |-> {}, inst |-> None, bad |-> FALSE] => HealthInv'
  BY HealthMoves
<1>2. health' = [step |-> "wait", left |-> {}, inst |-> None, bad |-> FALSE] => HealthInv'
  BY HealthMoves
<1>3. ASSUME NEW left \in SUBSET Instances,
             health' = [step |-> "probe", left |-> left, inst |-> None, bad |-> FALSE]
      PROVE  HealthInv'
  BY <1>3, HealthMoves
<1>4. CASE Tick
  <2>1. {adapters[n] : n \in Names} \ {None} \in SUBSET Instances
    BY DEF ManagerInv, RegistryInv
  <2> QED
    BY <1>1, <1>3, <1>4, <2>1, Zenon DEF Tick, HealthOff
<1>5. CASE Probe
  <2>1. CASE health' = [HealthOff EXCEPT !.step = "wait"]
    BY <1>2, <2>1, Zenon DEF HealthOff
  <2>2. ASSUME NEW i \in health.left, NEW bad \in BOOLEAN,
               health' = [step |-> "update", left |-> health.left \ {i},
                          inst |-> i, bad |-> bad]
        PROVE  HealthInv'
    <3>1. i \in Instances /\ health.left \ {i} \in SUBSET Instances
      BY <1>0
    <3> QED
      BY <2>2, <3>1, HealthMoves
  <2> QED
    BY <1>5, <2>1, <2>2, Zenon DEF Probe
<1>6. CASE Report
  BY <1>0, <1>3, <1>6, Zenon DEF Report
<1>7. CASE Start
  BY <1>2, <1>7, Zenon DEF Start, HealthOff
<1> QED
  BY <1>4, <1>5, <1>6, <1>7

LEMMA RegistryPreserves == ManagerInv /\ [Next]_vars => RegistryInv'
<1> SUFFICES ASSUME ManagerInv, [Next]_vars PROVE RegistryInv'
  OBVIOUS
<1>0. RegistryInv
  BY DEF ManagerInv
<1>1. CASE UNCHANGED <<registry, made, done, contended>>
  BY <1>0, <1>1 DEF registry, RegistryInv
<1>2. CASE Report
  <2>1. health.inst \in Instances
    BY <1>2 DEF ManagerInv, HealthInv, Report
  <2> QED
    BY <1>0, <1>2, <2>1 DEF Report, untouchedByHealth, registry, RegistryInv
<1>3. CASE Stop
  BY <1>0, <1>3 DEF Stop, untouchedByStop, registry, RegistryInv
<1>4. ASSUME NEW c \in Clients, CallStep(c) PROVE RegistryInv'
  <2> USE DEF RegistryInv, registry, CallAt
  <2>0. Held(calls[c])
    BY DEF ManagerInv, CallInv
  <2>1. CASE StopAdapter(c)
    BY <1>0, <2>0, <2>1 DEF StopAdapter, Held
  <2>2. CASE Unregister(c)
    BY <1>0, <2>2 DEF Unregister
  <2>3. CASE Create(c)
    BY <1>0, <2>3 DEF Create
  <2>4. CASE Register(c)
    BY <1>0, <2>0, <2>4 DEF Register, Held
  <2>5. CASE ConnectStatus(c) \/ Lookup(c) \/ RunOne(c)
    BY <1>0, <2>5 DEF ConnectStatus, Lookup, RunOne
  <2> QED
    BY <1>4, <2>1, <2>2, <2>3, <2>4, <2>5 DEF CallStep
<1>5. ASSUME NEW c \in Clients, NEW n \in Names, Connect(c, n) \/ Disconnect(c, n)
      PROVE  RegistryInv'
  BY <1>0, <1>5 DEF Connect, Disconnect, registry, RegistryInv
<1>6. ASSUME NEW i \in Instances,
             SupStep(i) \/ Connected(i) \/ StartFails(i) \/ StartReturns(i)
      PROVE  RegistryInv'
  BY <1>1, <1>6 DEF SupStep, Top, Count, Backoff, Mark, Failed, Clean, Connected,
     StartFails, StartReturns, untouchedBySup
<1>7. CASE Start \/ Cancel \/ StopReturns \/ Tick \/ Probe
  BY <1>1, <1>7 DEF Start, Cancel, StopReturns, Tick, Probe, untouchedByStop,
     untouchedByHealth
<1>8. CASE UNCHANGED vars
  BY <1>1, <1>8 DEF vars, registry
<1> QED
  BY <1>2, <1>3, <1>4, <1>5, <1>6, <1>7, <1>8 DEF Next

\* Everything a step may do to status.
LEMMA StatusMoves ==
  ASSUME FlagInv, NEW n, NEW b \in BOOLEAN, status' = [status EXCEPT ![n] = b]
  PROVE  status' \in [Names -> BOOLEAN]
<1>1. status \in [Names -> BOOLEAN]
  BY Zenon DEF FlagInv
<1> HIDE DEF FlagInv
<1> QED
  BY <1>1

LEMMA FlagsPreserve == ManagerInv /\ [Next]_vars => FlagInv'
<1> SUFFICES ASSUME ManagerInv, [Next]_vars PROVE FlagInv'
  OBVIOUS
<1>0. FlagInv
  BY DEF ManagerInv
<1>1. CASE UNCHANGED <<status, cancelled, stopping>>
  <2>1. status' = status /\ cancelled' = cancelled /\ stopping' = stopping
    BY <1>1
  <2> QED
    BY <1>0, <2>1, Zenon DEF FlagInv
<1>2. ASSUME NEW n, NEW b \in BOOLEAN, status' = [status EXCEPT ![n] = b],
             UNCHANGED environment
      PROVE  FlagInv'
  <2>1. cancelled' = cancelled /\ stopping' = stopping
    BY <1>2 DEF environment
  <2> QED
    BY <1>0, <1>2, <2>1, StatusMoves, Zenon DEF FlagInv
<1>3. CASE Cancel
  <2>1. cancelled' = TRUE /\ status' = status /\ stopping' = stopping
    BY <1>3, Zenon DEF Cancel, untouchedByStop
  <2> QED
    BY <1>0, <2>1, Zenon DEF FlagInv
<1>4. CASE Stop \/ StopReturns
  <2>1. cancelled' = cancelled /\ status' = status /\ stopping' \in {"waiting", "returned"}
    BY <1>4, Zenon DEF Stop, StopReturns, untouchedByStop
  <2> QED
    BY <1>0, <2>1, Zenon DEF FlagInv
<1>5. ASSUME NEW c \in Clients, CallStep(c) PROVE FlagInv'
  <2>1. CASE Unregister(c)
    BY <1>2, <2>1, Zenon DEF Unregister, untouchedByCall
  <2>2. CASE ~Unregister(c)
    BY <1>1, <1>5, <2>2, Zenon DEF CallStep, ConnectStatus, Lookup, StopAdapter, Create,
       Register, RunOne, untouchedByCall, environment
  <2> QED
    BY <2>1, <2>2
<1>6. ASSUME NEW c \in Clients, NEW n \in Names, Connect(c, n) \/ Disconnect(c, n)
      PROVE  FlagInv'
  BY <1>1, <1>6, Zenon DEF Connect, Disconnect, untouchedByCall, environment
<1>7. ASSUME NEW i \in Instances,
             SupStep(i) \/ Connected(i) \/ StartFails(i) \/ StartReturns(i)
      PROVE  FlagInv'
  <2>1. CASE Mark(i) \/ Failed(i) \/ Clean(i)
    BY <1>2, <2>1, Zenon DEF Mark, Failed, Clean, SetRunning, untouchedBySup
  <2>2. CASE Top(i) \/ Count(i) \/ Backoff(i) \/ Connected(i) \/ StartFails(i)
             \/ StartReturns(i)
    BY <1>1, <2>2, Zenon DEF Top, Count, Backoff, Connected, StartFails, StartReturns,
       untouchedBySup, environment
  <2> QED
    BY <1>7, <2>1, <2>2 DEF SupStep
<1>8. CASE Start \/ Tick \/ Probe \/ Report
  BY <1>1, <1>8, Zenon DEF Start, Tick, Probe, Report, untouchedByHealth, environment
<1>9. CASE UNCHANGED vars
  BY <1>1, <1>9, Zenon DEF vars
<1> QED
  BY <1>3, <1>4, <1>5, <1>6, <1>7, <1>8, <1>9 DEF Next

-----------------------------------------------------------------------------
(***************************************************************************)
(* Together.                                                               *)
(***************************************************************************)
LEMMA ManagerStep == ManagerInv /\ [Next]_vars => ManagerInv'
<1> SUFFICES ASSUME ManagerInv, [Next]_vars PROVE ManagerInv'
  OBVIOUS
<1>0. SupInv /\ CallInv /\ HealthInv
  BY DEF ManagerInv
<1>a. ASSUME UNCHANGED sup PROVE SupInv'
  BY <1>0, <1>a DEF SupInv
<1>b. ASSUME UNCHANGED calls PROVE CallInv'
  BY <1>0, <1>b DEF CallInv
<1>c. ASSUME UNCHANGED health PROVE HealthInv'
  <2>1. health' = health
    BY <1>c
  <2> QED
    BY <1>0, <2>1, Zenon DEF HealthInv
<1>1. SupInv' /\ CallInv' /\ HealthInv'
  <2>1. CASE Start
    BY <1>b, <2>1, StartStarts, HealthPreserves DEF Start
  <2>2. CASE Cancel \/ Stop \/ StopReturns
    BY <1>a, <1>b, <1>c, <2>2 DEF Cancel, Stop, StopReturns, untouchedByStop
  <2>3. CASE Tick \/ Probe \/ Report
    BY <1>a, <1>b, <2>3, HealthPreserves DEF Tick, Probe, Report, untouchedByHealth
  <2>4. ASSUME NEW i \in Instances,
               SupStep(i) \/ Connected(i) \/ StartFails(i) \/ StartReturns(i)
        PROVE  SupInv' /\ CallInv' /\ HealthInv'
    <3>1. SupInv'
      BY <1>0, <2>4, SupPreserves
    <3>2. UNCHANGED <<calls, health>>
      BY <2>4 DEF SupStep, Top, Count, Backoff, Mark, Failed, Clean, Connected,
         StartFails, StartReturns, untouchedBySup
    <3> QED
      BY <1>b, <1>c, <3>1, <3>2
  <2>5. ASSUME NEW c \in Clients,
               CallStep(c) \/ \E n \in Names : Connect(c, n) \/ Disconnect(c, n)
        PROVE  SupInv' /\ CallInv' /\ HealthInv'
    <3>1. CallInv'
      BY <2>5, CallsPreserve
    <3>2. UNCHANGED health
      BY <2>5 DEF CallStep, ConnectStatus, Lookup, StopAdapter, Unregister, Create,
         Register, RunOne, Connect, Disconnect, untouchedByCall
    <3>3. CASE RunOne(c)
      BY <1>c, <3>1, <3>2, <3>3, RunOneStarts
    <3>4. CASE ~RunOne(c)
      <4>1. UNCHANGED sup
        BY <2>5, <3>4 DEF CallStep, ConnectStatus, Lookup, StopAdapter, Unregister,
           Create, Register, Connect, Disconnect
      <4> QED
        BY <1>a, <1>c, <3>1, <3>2, <4>1
    <3> QED
      BY <3>3, <3>4
  <2>6. CASE UNCHANGED vars
    BY <1>a, <1>b, <1>c, <2>6 DEF vars
  <2> QED
    BY <2>1, <2>2, <2>3, <2>4, <2>5, <2>6 DEF Next
<1> QED
  BY <1>1, RegistryPreserves, FlagsPreserve DEF ManagerInv

LEMMA ManagerInvariant == Spec => []ManagerInv
BY ManagerInit, ManagerStep, PTL DEF Spec

\* Every variable of the manager keeps its type, for any names, instances and
\* callers (plugin.go: Manager and the locals of runWithRestart).
THEOREM AdapterTypes == Spec => []TypeOK
<1>1. ManagerInv => TypeOK
  <2> SUFFICES ASSUME ManagerInv PROVE TypeOK
    OBVIOUS
  <2>1. health \in HealthState
    BY Zenon DEF ManagerInv, HealthInv
  <2>2. calls \in [Clients -> CallState]
    BY Zenon DEF ManagerInv, CallInv
  <2>3. sup \in [Instances -> Sup]
    BY Zenon DEF ManagerInv, SupInv
  <2>4. RegistryInv /\ FlagInv
    BY Zenon DEF ManagerInv
  <2> QED
    BY <2>1, <2>2, <2>3, <2>4, Zenon DEF TypeOK, HealthState, CallState, Sup,
       RegistryInv, FlagInv
<1> QED
  BY <1>1, ManagerInvariant, PTL

\* The restart loop follows the documented schedule, for any bound on restarts
\* and any number of adapters (runWithRestart).
THEOREM RestartsOnSchedule == Spec => []BackoffSchedule
<1>1. ManagerInv => BackoffSchedule
  <2> SUFFICES ASSUME ManagerInv, NEW i \in Instances,
                      sup[i].step \in {"count", "backoff"}
               PROVE  /\ sup[i].restarts \in 1..MaxRestarts
                      /\ sup[i].restarts <= 5 => sup[i].backoff = Delay[sup[i].restarts]
    BY DEF BackoffSchedule
  <2>1. sup[i] \in Sup /\ Scheduled(sup[i])
    BY DEF ManagerInv, SupInv
  <2>2. sup[i].restarts \in 1..MaxRestarts /\ DelayIs(sup[i].restarts, sup[i].backoff)
    BY <2>1 DEF Sup, Scheduled
  <2> QED
    BY <2>2 DEF DelayIs, Delay
<1> QED
  BY <1>1, ManagerInvariant, PTL

-----------------------------------------------------------------------------
(***************************************************************************)
(* After Stop.  The context is cancelled before Stop begins, so a late     *)
(* supervisor, from a connect that was still on its way, can only end.     *)
(***************************************************************************)
StoppedIsCancelled == stopping # "no" => cancelled

QuietInv == StoppedIsCancelled /\ StoppedMeansQuiet

LEMMA QuietStep == ManagerInv /\ QuietInv /\ [Next]_vars => QuietInv'
<1> SUFFICES ASSUME ManagerInv, QuietInv, [Next]_vars PROVE QuietInv'
  OBVIOUS
<1>0. SupInv /\ sup \in [Instances -> Sup]
  BY DEF ManagerInv, SupInv
<1>1. StoppedIsCancelled'
  <2>1. CASE UNCHANGED environment
    <3>1. cancelled' = cancelled /\ stopping' = stopping
      BY <2>1 DEF environment
    <3> QED
      BY <3>1, Zenon DEF QuietInv, StoppedIsCancelled
  <2>2. CASE Cancel
    BY <2>2, Zenon DEF Cancel, StoppedIsCancelled
  <2>3. CASE Stop
    <3>1. cancelled /\ cancelled' = cancelled
      BY <2>3, Zenon DEF Stop
    <3> QED
      BY <3>1, Zenon DEF StoppedIsCancelled
  <2>4. CASE StopReturns
    <3>1. stopping # "no" /\ cancelled' = cancelled
      BY <2>4, Zenon DEF StopReturns
    <3> QED
      BY <3>1, Zenon DEF QuietInv, StoppedIsCancelled
  <2> QED
    BY <2>1, <2>2, <2>3, <2>4, Zenon DEF Next, Start, Tick, Probe, Report, untouchedByHealth,
       SupStep, Top, Count, Backoff, Mark, Failed, Clean, Connected, StartFails,
       StartReturns, untouchedBySup, CallStep, ConnectStatus, Lookup, StopAdapter,
       Unregister, Create, Register, RunOne, Connect, Disconnect, untouchedByCall,
       environment, vars
<1>2. ASSUME stopping # "returned" PROVE StoppedMeansQuiet'
  <2>1. CASE StopReturns
    BY <2>1 DEF StopReturns, Joined, untouchedByStop, StoppedMeansQuiet
  <2>2. CASE ~StopReturns
    <3>1. stopping' # "returned"
      <4>1. CASE Cancel \/ Stop
        BY <1>2, <4>1 DEF Cancel, Stop
      <4>2. CASE stopping' = stopping
        BY <1>2, <4>2
      <4> QED
        BY <2>2, <4>1, <4>2, Zenon DEF Next, Start, Tick, Probe, Report, untouchedByHealth,
           SupStep, Top, Count, Backoff, Mark, Failed, Clean, Connected, StartFails,
           StartReturns, untouchedBySup, CallStep, ConnectStatus, Lookup, StopAdapter,
           Unregister, Create, Register, RunOne, Connect, Disconnect, untouchedByCall,
           environment, vars
    <3> QED
      BY <3>1 DEF StoppedMeansQuiet
  <2> QED
    BY <2>1, <2>2
<1>3. ASSUME stopping = "returned" PROVE StoppedMeansQuiet'
  <2>0. cancelled /\ \A i \in Instances : sup[i].step \in {"none", "top", "gone"}
    BY <1>3 DEF QuietInv, StoppedIsCancelled, StoppedMeansQuiet
  <2> SUFFICES ASSUME NEW j \in Instances
               PROVE  sup'[j].step \in {"none", "top", "gone"}
    BY DEF StoppedMeansQuiet
  <2>1. CASE sup' = sup
    BY <2>0, <2>1
  <2>2. ASSUME NEW i \in Instances,
               SupStep(i) \/ Connected(i) \/ StartFails(i) \/ StartReturns(i)
        PROVE  sup'[j].step \in {"none", "top", "gone"}
    <3>1. Top(i)
      BY <2>0, <2>2 DEF SupStep, Count, Backoff, Mark, Failed, Clean, Connected,
         StartFails, StartReturns, SupAt
    <3>2. SupGoto(i, "gone")
      BY <2>0, <3>1 DEF Top
    <3> QED
      BY <1>0, <2>0, <3>2 DEF SupGoto
  <2>3. ASSUME NEW c \in Clients, RunOne(c)
        PROVE  sup'[j].step \in {"none", "top", "gone"}
    <3>1. sup'[j] = sup[j] \/ sup'[j].step = "top"
      BY <1>0, <2>3 DEF RunOne
    <3> QED
      BY <2>0, <3>1
  <2>4. CASE Start
    BY <1>3, <2>4 DEF Start
  <2> QED
    BY <2>1, <2>2, <2>3, <2>4 DEF Next, Cancel, Stop, StopReturns, untouchedByStop,
       Tick, Probe, Report, untouchedByHealth, CallStep, ConnectStatus, Lookup,
       StopAdapter, Unregister, Create, Register, Connect, Disconnect, vars
<1> QED
  BY <1>1, <1>2, <1>3 DEF QuietInv

\* Nothing runs after Stop has returned, connects that were still on their way
\* included, for any number of adapters and callers (Manager.Stop, RunOne).
THEOREM StopMeansQuiet == Spec => []StoppedMeansQuiet
<1>1. Init => QuietInv
  BY DEF Init, QuietInv, StoppedIsCancelled, StoppedMeansQuiet
<1>2. QuietInv => StoppedMeansQuiet
  BY DEF QuietInv
<1> QED
  BY <1>1, <1>2, QuietStep, ManagerInvariant, PTL DEF Spec

-----------------------------------------------------------------------------
(***************************************************************************)
(* Channels.  Who is alone on a name finds it free until it registers, and *)
(* its own channel there afterwards; instances of the start find theirs    *)
(* before anybody can call.                                                *)
(***************************************************************************)
Owner(k) ==
  /\ k.step \in {"register", "run"} => NameOf[k.inst] = k.name
  /\ k.name \notin contended =>
       /\ k.step \in {"create", "register"} => adapters[k.name] = None
       /\ k.step = "run" => outbound[k.name] = k.inst

Owners == \A c \in Clients : calls[c].step # "idle" => Owner(calls[c])

Alone ==
  \A c, d \in Clients :
    calls[c].step # "idle" /\ calls[d].step # "idle" /\ calls[c].name = calls[d].name
      => c = d \/ calls[c].name \in contended

BootUntouched ==
  health.step = "off" =>
    /\ \A c \in Clients : calls[c].step = "idle"
    /\ \A i \in Boot : outbound[NameOf[i]] = i

OwnInv == Owners /\ Alone /\ BootUntouched /\ OwnChannel

LEMMA OwnInit == Init => OwnInv
<1> SUFFICES ASSUME Init PROVE OwnInv
  OBVIOUS
<1>1. \A c \in Clients : calls[c].step = "idle"
  BY DEF Init, NoCall
<1>2. \A i \in Instances : sup[i].chan = None
  BY DEF Init, NoSup
<1>3. ASSUME NEW i \in Boot PROVE outbound[NameOf[i]] = i
  <2>1. outbound[NameOf[i]] = CHOOSE j \in Boot : NameOf[j] = NameOf[i]
    BY DEF Init
  <2>2. \E j \in Boot : NameOf[j] = NameOf[i]
    OBVIOUS
  <2>3. (CHOOSE j \in Boot : NameOf[j] = NameOf[i]) = i
    BY <2>2, AdapterAssumption DEF AdapterAssumption
  <2> QED
    BY <2>1, <2>3
<1> QED
  BY <1>1, <1>2, <1>3 DEF OwnInv, Owners, Alone, BootUntouched, OwnChannel

\* Steps of supervisors leave the channels alone.
LEMMA ChannelsKept ==
  ASSUME SupInv, NEW i \in Instances,
         SupStep(i) \/ Connected(i) \/ StartFails(i) \/ StartReturns(i)
  PROVE  \A j \in Instances : sup'[j].chan = sup[j].chan
<1> SUFFICES ASSUME NEW j \in Instances PROVE sup'[j].chan = sup[j].chan
  OBVIOUS
<1>0. sup \in [Instances -> Sup]
  BY DEF SupInv
<1>1. ASSUME NEW step, SupGoto(i, step) PROVE sup'[j].chan = sup[j].chan
  BY <1>0, <1>1 DEF SupGoto
<1>2. CASE Backoff(i)
  BY <1>0, <1>1, <1>2 DEF Backoff
<1>3. CASE StartFails(i)
  BY <1>0, <1>1, <1>3 DEF StartFails, Failure
<1>4. CASE Top(i) \/ Count(i) \/ Mark(i) \/ Failed(i) \/ Clean(i) \/ Connected(i)
           \/ StartReturns(i)
  BY <1>1, <1>4 DEF Top, Count, Mark, Failed, Clean, Connected, StartReturns
<1> QED
  BY <1>2, <1>3, <1>4 DEF SupStep

\* What the invariant needs of a step that is not a call's.
LEMMA OwnKept ==
  ASSUME OwnInv, UNCHANGED <<registry, calls, contended>>,
         health'.step = "off" => health.step = "off",
         \A j \in Instances : sup'[j].chan = sup[j].chan
  PROVE  OwnInv'
BY DEF OwnInv, Owners, Owner, Alone, BootUntouched, OwnChannel, registry

\* What it needs of a call that is on its way: the caller c changes its own place,
\* and the registry for its own name only.
LEMMA OwnCall ==
  ASSUME ManagerInv, OwnInv, NEW c \in Clients, calls[c].step # "idle",
         NEW k, calls' = [calls EXCEPT ![c] = k],
         k.step = "idle" \/ k.name = calls[c].name,
         k.step # "idle" => Owner(k)',
         \A n \in Names : n # calls[c].name =>
           adapters'[n] = adapters[n] /\ outbound'[n] = outbound[n],
         UNCHANGED <<contended, health>>
  PROVE  Owners' /\ Alone' /\ BootUntouched'
<1>0. calls \in [Clients -> CallState] /\ \A d \in Clients : Held(calls[d])
  BY DEF ManagerInv, CallInv
<1>1. Owners'
  <2> SUFFICES ASSUME NEW d \in Clients, calls'[d].step # "idle" PROVE Owner(calls[d])'
    BY DEF Owners
  <2>1. CASE d = c
    <3>1. calls'[d] = k
      BY <1>0, <2>1
    <3> QED
      BY <3>1 DEF Owner
  <2>2. CASE d # c
    <3>1. calls'[d] = calls[d] /\ calls[d].step # "idle"
      BY <1>0, <2>2
    <3>2. calls[d].name \in Names /\ Owner(calls[d])
      BY <1>0, <3>1 DEF Held, OwnInv, Owners
    <3>3. calls[d].name \in contended \/ calls[d].name # calls[c].name
      BY <2>2, <3>1 DEF OwnInv, Alone
    <3> QED
      BY <3>1, <3>2, <3>3 DEF Owner
  <2> QED
    BY <2>1, <2>2
<1>2. Alone'
  <2>1. ASSUME NEW d \in Clients, calls'[d].step # "idle"
        PROVE  calls[d].step # "idle" /\ calls'[d].name = calls[d].name
    <3>1. CASE d = c
      <4>1. calls'[d] = k
        BY <1>0, <3>1
      <4> QED
        BY <2>1, <3>1, <4>1
    <3>2. CASE d # c
      BY <1>0, <2>1, <3>2
    <3> QED
      BY <3>1, <3>2
  <2> QED
    BY <2>1 DEF OwnInv, Alone
<1>3. BootUntouched'
  BY DEF OwnInv, BootUntouched
<1> QED
  BY <1>1, <1>2, <1>3

\* A new call.
LEMMA OwnArrival ==
  ASSUME ManagerInv, OwnInv, NEW c \in Clients, NEW n \in Names,
         Connect(c, n) \/ Disconnect(c, n)
  PROVE  OwnInv'
<1> DEFINE k == calls'[c]
<1>0. calls \in [Clients -> CallState] /\ \A d \in Clients : Held(calls[d])
  BY DEF ManagerInv, CallInv
<1>1. /\ calls[c].step = "idle" /\ k.name = n
      /\ k.step \in {"create", "status", "lookup"}
      /\ k.step = "create" => adapters[n] = None
      /\ \A d \in Clients : d # c => calls'[d] = calls[d]
  BY <1>0 DEF Connect, Disconnect, CallAt
<1>2. /\ contended' = IF CallersOn(n) = {} THEN contended ELSE contended \cup {n}
      /\ UNCHANGED <<registry, sup, health>>
  BY DEF Connect, Disconnect, untouchedByCall
<1>3. \A d \in Clients : calls[d].name = n => n \in contended'
  BY <1>2 DEF CallersOn
<1> HIDE DEF k
<1>4. Owners'
  <2> SUFFICES ASSUME NEW d \in Clients, calls'[d].step # "idle" PROVE Owner(calls[d])'
    BY DEF Owners
  <2>1. CASE d = c
    BY <1>1, <1>2, <2>1 DEF Owner, registry, k
  <2>2. CASE d # c
    BY <1>1, <1>2, <2>2 DEF Owner, registry, OwnInv, Owners
  <2> QED
    BY <2>1, <2>2
<1>5. Alone'
  <2> SUFFICES ASSUME NEW d \in Clients, NEW e \in Clients,
                      calls'[d].step # "idle", calls'[e].step # "idle",
                      calls'[d].name = calls'[e].name, d # e
               PROVE  calls'[d].name \in contended'
    BY DEF Alone
  <2>1. CASE d = c \/ e = c
    BY <1>1, <1>3, <2>1 DEF k
  <2>2. CASE d # c /\ e # c
    BY <1>1, <1>2, <2>2 DEF OwnInv, Alone
  <2> QED
    BY <2>1, <2>2
<1>6. BootUntouched' /\ OwnChannel'
  <2>1. health.step # "off"
    BY DEF Connect, Disconnect, Serving
  <2>2. OwnChannel'
    BY <1>2 DEF OwnInv, OwnChannel
  <2> QED
    BY <1>2, <2>1, <2>2 DEF BootUntouched
<1> QED
  BY <1>4, <1>5, <1>6 DEF OwnInv

LEMMA OwnCallStep ==
  ASSUME ManagerInv, OwnInv, NEW c \in Clients, CallStep(c)
  PROVE  OwnInv'
<1> USE DEF CallAt
<1> DEFINE n == calls[c].name
<1>0. /\ calls[c].step # "idle" /\ n \in Names
      /\ Owner(calls[c]) /\ Held(calls[c])
      /\ UNCHANGED <<contended, health>>
  <2>1. calls[c].step # "idle" /\ UNCHANGED <<contended, health>>
    BY DEF CallStep, ConnectStatus, Lookup, StopAdapter, Unregister, Create, Register,
       RunOne, untouchedByCall
  <2> QED
    BY <2>1 DEF ManagerInv, CallInv, Held, OwnInv, Owners
<1> DEFINE Elsewhere == \A m \in Names : m # n =>
                          adapters'[m] = adapters[m] /\ outbound'[m] = outbound[m]
           Placed == Owners' /\ Alone' /\ BootUntouched'
<1>1. ASSUME UNCHANGED sup PROVE OwnChannel'
  BY <1>0, <1>1 DEF OwnInv, OwnChannel
<1>2. ASSUME CallReturn(c), Elsewhere PROVE Placed
  <2>1. NoCall.step = "idle"
    BY DEF NoCall
  <2>2. calls' = [calls EXCEPT ![c] = NoCall]
    BY <1>2 DEF CallReturn
  <2> HIDE DEF NoCall
  <2> QED
    BY <1>0, <1>2, <2>1, <2>2, OwnCall
<1>3. ASSUME NEW step, NEW i, CallGoto(c, step, i), Elsewhere,
             step \in {"register", "run"} => NameOf[i] = n,
             n \notin contended =>
               /\ step \in {"create", "register"} => adapters'[n] = None
               /\ step = "run" => outbound'[n] = i
      PROVE  Placed
  <2> PICK op, m : op = calls[c].op /\ m = n
    OBVIOUS
  <2> DEFINE k == [step |-> step, op |-> op, name |-> m, inst |-> i]
  <2>1. calls' = [calls EXCEPT ![c] = k]
    BY <1>3 DEF CallGoto
  <2>2. Owner(k)'
    BY <1>0, <1>3 DEF Owner
  <2>3. k.name = calls[c].name
    OBVIOUS
  <2>4. \A p \in Names : p # calls[c].name =>
          adapters'[p] = adapters[p] /\ outbound'[p] = outbound[p]
    BY <1>3
  <2> HIDE DEF k
  <2> QED
    BY <1>0, <2>1, <2>2, <2>3, <2>4, OwnCall
<1>4. ASSUME UNCHANGED registry PROVE Elsewhere
  BY <1>4 DEF registry
<1> HIDE DEF Elsewhere, Placed
<1>5. CASE ConnectStatus(c)
  <2>1. UNCHANGED registry /\ UNCHANGED sup
    BY <1>5 DEF ConnectStatus
  <2>2. Placed
    BY <1>2, <1>3, <1>4, <1>5, <2>1 DEF ConnectStatus
  <2> QED
    BY <1>1, <2>1, <2>2 DEF Placed, OwnInv
<1>6. CASE Lookup(c)
  <2>1. UNCHANGED registry /\ UNCHANGED sup
    BY <1>6 DEF Lookup
  <2>2. Placed
    BY <1>2, <1>3, <1>4, <1>6, <2>1 DEF Lookup
  <2> QED
    BY <1>1, <2>1, <2>2 DEF Placed, OwnInv
<1>7. CASE StopAdapter(c)
  <2>1. UNCHANGED registry /\ UNCHANGED sup
    BY <1>7 DEF StopAdapter
  <2>2. Placed
    BY <1>3, <1>4, <1>7, <2>1 DEF StopAdapter
  <2> QED
    BY <1>1, <2>1, <2>2 DEF Placed, OwnInv
<1>8. CASE Unregister(c)
  <2>1. Elsewhere /\ adapters'[n] = None /\ UNCHANGED sup
    BY <1>0, <1>8 DEF Unregister, Elsewhere, ManagerInv, RegistryInv
  <2>2. Placed
    BY <1>2, <1>3, <1>8, <2>1 DEF Unregister
  <2> QED
    BY <1>1, <2>1, <2>2 DEF Placed, OwnInv
<1>9. CASE Create(c)
  <2>1. UNCHANGED registry /\ UNCHANGED sup
    BY <1>9 DEF Create
  <2>2. n \notin contended => adapters'[n] = None
    BY <1>0, <1>9, <2>1 DEF Create, Owner, registry
  <2>3. Placed
    BY <1>2, <1>3, <1>4, <1>9, <2>1, <2>2 DEF Create
  <2> QED
    BY <1>1, <2>1, <2>3 DEF Placed, OwnInv
<1>10. CASE Register(c)
  <2> DEFINE i == calls[c].inst
  <2>1. Elsewhere /\ UNCHANGED sup
    BY <1>0, <1>10 DEF Register, Elsewhere, registry, ManagerInv, RegistryInv
  <2>2. NameOf[i] = n /\ (n \notin contended => adapters[n] = None)
    BY <1>0, <1>10 DEF Register, Owner
  <2>3. n \notin contended => outbound'[n] = i
    BY <1>0, <1>10, <2>2 DEF Register, ManagerInv, RegistryInv
  <2>4. CallGoto(c, "run", i)
    BY <1>10 DEF Register
  <2>5. Placed
    BY <1>3, <2>1, <2>2, <2>3, <2>4
  <2> QED
    BY <1>1, <2>1, <2>5 DEF Placed, OwnInv
<1>11. CASE RunOne(c)
  <2> DEFINE i == calls[c].inst
  <2>1. UNCHANGED registry /\ CallReturn(c)
    BY <1>11 DEF RunOne
  <2>2. Placed
    BY <1>2, <1>4, <2>1
  <2>3. i \in Instances /\ NameOf[i] = n /\ (n \notin contended => outbound[n] = i)
    BY <1>0, <1>11 DEF RunOne, Owner, Held
  <2>4. sup \in [Instances -> Sup]
    BY DEF ManagerInv, SupInv
  <2>5. \A j \in Instances :
          sup'[j].chan = sup[j].chan \/ (j = i /\ sup'[j].chan = outbound[n])
    BY <1>11, <2>3, <2>4 DEF RunOne
  <2>6. OwnChannel'
    BY <1>0, <2>3, <2>5 DEF OwnInv, OwnChannel
  <2> QED
    BY <2>2, <2>6 DEF Placed, OwnInv
<1> QED
  BY <1>5, <1>6, <1>7, <1>8, <1>9, <1>10, <1>11 DEF CallStep

LEMMA OwnStep == ManagerInv /\ OwnInv /\ [Next]_vars => OwnInv'
<1> SUFFICES ASSUME ManagerInv, OwnInv, [Next]_vars PROVE OwnInv'
  OBVIOUS
<1>1. ASSUME NEW i \in Instances,
             SupStep(i) \/ Connected(i) \/ StartFails(i) \/ StartReturns(i)
      PROVE  OwnInv'
  <2>1. UNCHANGED <<registry, calls, contended, health>>
    BY <1>1 DEF SupStep, Top, Count, Backoff, Mark, Failed, Clean, Connected,
       StartFails, StartReturns, untouchedBySup
  <2>2. \A j \in Instances : sup'[j].chan = sup[j].chan
    BY <1>1, ChannelsKept DEF ManagerInv
  <2> QED
    BY <2>1, <2>2, OwnKept
<1>2. CASE Cancel \/ Stop \/ StopReturns
  BY <1>2, OwnKept DEF Cancel, Stop, StopReturns, untouchedByStop
<1>3. CASE Tick \/ Probe \/ Report
  <2>1. health.step # "off" /\ UNCHANGED <<registry, calls, contended, sup>>
    BY <1>3 DEF Tick, Probe, Report, untouchedByHealth
  <2>2. health'.step = "off" => health.step = "off"
    BY <1>3 DEF Tick, Probe, Report, HealthOff
  <2> QED
    BY <2>1, <2>2, OwnKept
<1>4. CASE Start
  <2>1. /\ \A i \in Boot : outbound[NameOf[i]] = i
        /\ health'.step # "off" /\ UNCHANGED <<registry, calls, contended>>
    BY <1>4 DEF Start, HealthOff, OwnInv, BootUntouched
  <2>2. \A j \in Instances :
          sup'[j].chan = sup[j].chan \/ (j \in Boot /\ sup'[j].chan = outbound[NameOf[j]])
    BY <1>4 DEF Start
  <2>3. OwnChannel'
    BY <2>1, <2>2 DEF OwnInv, OwnChannel
  <2> QED
    BY <2>1, <2>3 DEF OwnInv, Owners, Owner, Alone, BootUntouched, registry
<1>5. CASE UNCHANGED vars
  BY <1>5, OwnKept DEF vars, registry
<1> QED
  BY <1>1, <1>2, <1>3, <1>4, <1>5, OwnCallStep, OwnArrival DEF Next

\* No two instances take each other's messages: one that serves a channel serves
\* the one its own registration made, on every name whose connects and disconnects
\* have not overlapped, for any number of names, instances and callers.
THEOREM ChannelsAreOwn == Spec => []OwnChannel
<1>1. OwnInv => OwnChannel
  BY DEF OwnInv
<1> QED
  BY <1>1, OwnInit, OwnStep, ManagerInvariant, PTL DEF Spec

-----------------------------------------------------------------------------
(***************************************************************************)
(* The status.  It goes by name, so an instance that is to be registered   *)
(* must not find a status another has left: every TRUE goes back to some   *)
(* instance of the name that has been started, and one that is on its way  *)
(* to its registration has not.                                            *)
(***************************************************************************)
Holding(c) == calls[c].step \in {"register", "run"}

Started(i) == sup[i].step # "none"

Fresh(c) ==
  /\ calls[c].inst \in made
  /\ NameOf[calls[c].inst] = calls[c].name
  /\ ~Started(calls[c].inst)
  /\ calls[c].step = "register" => adapters[calls[c].name] # calls[c].inst

HoldersApart ==
  \A c, d \in Clients :
    Holding(c) /\ Holding(d) /\ calls[c].inst = calls[d].inst => c = d

StartedAreMade == \A i \in Instances : Started(i) => i \in made

ListedAreMade ==
  \A n \in Names :
    adapters[n] # None => adapters[n] \in made /\ NameOf[adapters[n]] = n

StatusTraced ==
  \A n \in Names :
    status[n] => \E j \in Instances : NameOf[j] = n /\ Started(j)

NothingBeforeStart ==
  /\ Boot \subseteq made
  /\ health.step = "off" =>
       /\ \A i \in Instances : ~Started(i)
       /\ \A c \in Clients : calls[c].step = "idle"

TraceInv ==
  /\ \A c \in Clients : Holding(c) => Fresh(c)
  /\ HoldersApart /\ StartedAreMade /\ ListedAreMade /\ StatusTraced
  /\ NothingBeforeStart

LEMMA TraceInit == Init => TraceInv
<1> SUFFICES ASSUME Init PROVE TraceInv
  OBVIOUS
<1>1. (\A i \in Instances : ~Started(i)) /\ (\A c \in Clients : calls[c].step = "idle")
  BY DEF Init, NoSup, NoCall, Started
<1>2. ASSUME NEW n \in Names, adapters[n] # None
      PROVE  adapters[n] \in made /\ NameOf[adapters[n]] = n
  <2>1. PICK i \in Boot : NameOf[i] = n
    BY <1>2 DEF Init
  <2>2. adapters[n] = CHOOSE j \in Boot : NameOf[j] = n
    BY <2>1 DEF Init
  <2>3. adapters[n] \in Boot /\ NameOf[adapters[n]] = n
    BY <2>1, <2>2
  <2> QED
    BY <2>3 DEF Init
<1>3. made = Boot
  BY DEF Init
<1>4. \A n \in Names : ~status[n]
  BY Zenon DEF Init
<1> QED
  BY <1>1, <1>2, <1>3, <1>4
  DEF TraceInv, HoldersApart, StartedAreMade, ListedAreMade, StatusTraced,
      NothingBeforeStart, Holding

\* A supervisor's step is one of a supervisor that has been started, and of no other.
LEMMA SupStaysStarted ==
  ASSUME SupInv, NEW i \in Instances,
         SupStep(i) \/ Connected(i) \/ StartFails(i) \/ StartReturns(i)
  PROVE  /\ Started(i) /\ sup'[i].step # "none"
         /\ \A j \in Instances : j # i => sup'[j] = sup[j]
<1> USE DEF SupAt, Started
<1>0. sup \in [Instances -> Sup]
  BY DEF SupInv
<1>1. ASSUME NEW step \in SupSteps \ {"none"}, SupGoto(i, step)
      PROVE  sup'[i].step # "none" /\ \A j \in Instances : j # i => sup'[j] = sup[j]
  BY <1>0, <1>1 DEF SupGoto
<1>2. CASE Backoff(i)
  BY <1>0, <1>1, <1>2 DEF Backoff, SupSteps
<1>3. CASE StartFails(i)
  BY <1>0, <1>1, <1>3 DEF StartFails, Failure, SupSteps
<1>4. CASE Top(i) \/ Count(i) \/ Mark(i) \/ Failed(i) \/ Clean(i) \/ Connected(i)
           \/ StartReturns(i)
  BY <1>1, <1>4 DEF Top, Count, Mark, Failed, Clean, Connected, StartReturns, SupSteps
<1> QED
  BY <1>2, <1>3, <1>4 DEF SupStep

LEMMA TraceSup ==
  ASSUME ManagerInv, TraceInv, NEW i \in Instances,
         SupStep(i) \/ Connected(i) \/ StartFails(i) \/ StartReturns(i)
  PROVE  TraceInv'
<1>1. UNCHANGED <<adapters, made, calls, health>>
  BY DEF SupStep, Top, Count, Backoff, Mark, Failed, Clean, Connected, StartFails,
     StartReturns, untouchedBySup, registry
<1>2. Started(i) /\ \A j \in Instances : Started(j)' <=> Started(j)
  BY SupStaysStarted DEF ManagerInv, Started
<1>3. \A n \in Names : status'[n] => status[n] \/ n = NameOf[i]
  <2>1. status \in [Names -> BOOLEAN]
    BY DEF ManagerInv, FlagInv
  <2>2. UNCHANGED status \/ \E b \in BOOLEAN : SetRunning(i, b)
    BY DEF SupStep, Top, Count, Backoff, Mark, Failed, Clean, Connected, StartFails,
       StartReturns
  <2> QED
    BY <2>1, <2>2 DEF SetRunning
<1>4. StatusTraced'
  BY <1>2, <1>3 DEF TraceInv, StatusTraced
<1>5. calls \in [Clients -> CallState] /\ \A c \in Clients : Held(calls[c])
  BY DEF ManagerInv, CallInv
<1>6. \A c \in Clients : Holding(c) => calls[c].inst \in Instances
  BY <1>5 DEF Holding, Held
<1>7. \A c \in Clients : Holding(c)' => Fresh(c)'
  BY <1>1, <1>2, <1>6 DEF TraceInv, Fresh, Holding
<1>8. HoldersApart' /\ StartedAreMade' /\ ListedAreMade' /\ NothingBeforeStart'
  BY <1>1, <1>2
  DEF TraceInv, HoldersApart, StartedAreMade, ListedAreMade, NothingBeforeStart, Holding
<1> QED
  BY <1>4, <1>7, <1>8 DEF TraceInv

\* The parts of the invariant, for a step of a call that starts no supervisor.
LEMMA TraceArrival ==
  ASSUME ManagerInv, TraceInv, NEW c \in Clients, NEW n \in Names,
         Connect(c, n) \/ Disconnect(c, n)
  PROVE  TraceInv'
<1>0. calls \in [Clients -> CallState]
  BY DEF ManagerInv, CallInv
<1>1. /\ UNCHANGED <<adapters, made, status, sup>> /\ health' = health
      /\ ~Holding(c)' /\ \A d \in Clients : d # c => calls'[d] = calls[d]
      /\ health.step # "off"
  BY <1>0 DEF Connect, Disconnect, Holding, registry, untouchedByCall, Serving
<1> QED
  BY <1>1 DEF TraceInv, Fresh, HoldersApart, StartedAreMade, ListedAreMade, StatusTraced,
     NothingBeforeStart, Holding, Started

\* A caller lets go of what it holds, or holds nothing.
LEMMA TraceLetsGo ==
  ASSUME ManagerInv, TraceInv, NEW c \in Clients, NEW k,
         calls' = [calls EXCEPT ![c] = k], k.step \notin {"register", "run"},
         health.step # "off", UNCHANGED <<adapters, made, status, sup, health>>
  PROVE  TraceInv'
<1>0. calls \in [Clients -> CallState]
  BY DEF ManagerInv, CallInv
<1>1. ~Holding(c)' /\ \A d \in Clients : d # c => calls'[d] = calls[d]
  BY <1>0 DEF Holding
<1> QED
  BY <1>1 DEF TraceInv, Fresh, HoldersApart, StartedAreMade, ListedAreMade, StatusTraced,
     NothingBeforeStart, Holding, Started

LEMMA TraceCall ==
  ASSUME ManagerInv, TraceInv, NEW c \in Clients, CallStep(c)
  PROVE  TraceInv'
<1> USE DEF CallAt
<1> DEFINE n == calls[c].name
           i == calls[c].inst
<1>0. /\ calls \in [Clients -> CallState] /\ \A d \in Clients : Held(calls[d])
      /\ adapters \in [Names -> Instances \cup {None}] /\ made \subseteq Instances
      /\ sup \in [Instances -> Sup] /\ status \in [Names -> BOOLEAN]
  BY DEF ManagerInv, CallInv, RegistryInv, SupInv, FlagInv
<1>1. n \in Names /\ health' = health /\ health.step # "off"
  <2>1. calls[c].step # "idle" /\ health' = health
    BY DEF CallStep, ConnectStatus, Lookup, StopAdapter, Unregister, Create, Register,
       RunOne, untouchedByCall
  <2> QED
    BY <1>0, <2>1 DEF Held, TraceInv, NothingBeforeStart
<1>2. ASSUME CallReturn(c), UNCHANGED <<adapters, made, status, sup>> PROVE TraceInv'
  <2>1. calls' = [calls EXCEPT ![c] = NoCall] /\ NoCall.step \notin {"register", "run"}
    BY <1>2 DEF CallReturn, NoCall
  <2> HIDE DEF NoCall
  <2> QED
    BY <1>1, <1>2, <2>1, TraceLetsGo
<1>3. ASSUME NEW step \in {"lookup", "stop", "unregister", "create"}, NEW j,
             CallGoto(c, step, j), UNCHANGED <<adapters, made, status, sup>>
      PROVE  TraceInv'
  <2> PICK op, m : op = calls[c].op /\ m = n
    OBVIOUS
  <2> DEFINE k == [step |-> step, op |-> op, name |-> m, inst |-> j]
  <2>1. calls' = [calls EXCEPT ![c] = k] /\ k.step \notin {"register", "run"}
    BY <1>3 DEF CallGoto
  <2> HIDE DEF k
  <2> QED
    BY <1>1, <1>3, <2>1, TraceLetsGo
<1>4. CASE ConnectStatus(c) \/ Lookup(c) \/ StopAdapter(c)
  <2>1. UNCHANGED <<adapters, made, status, sup>>
    BY <1>4 DEF ConnectStatus, Lookup, StopAdapter, registry
  <2>2. \/ CallReturn(c)
        \/ \E step \in {"lookup", "stop", "unregister", "create"} : \E j :
             CallGoto(c, step, j)
    BY <1>4 DEF ConnectStatus, Lookup, StopAdapter
  <2> QED
    BY <1>2, <1>3, <2>1, <2>2
<1>5. CASE Unregister(c)
  <2>1. /\ adapters' = [adapters EXCEPT ![n] = None]
        /\ status' = [status EXCEPT ![n] = FALSE]
        /\ UNCHANGED <<made, sup>>
    BY <1>5 DEF Unregister
  <2>2. CallReturn(c) \/ CallGoto(c, "create", None)
    BY <1>5 DEF Unregister
  <2>3. ~Holding(c)' /\ \A d \in Clients : d # c => calls'[d] = calls[d]
    BY <1>0, <2>2 DEF CallReturn, CallGoto, NoCall, Holding
  <2>4. \A m \in Names : /\ adapters'[m] = adapters[m] \/ adapters'[m] = None
                         /\ status'[m] => status[m]
    BY <1>0, <1>1, <2>1
  <2>5. ASSUME NEW d \in Clients, Holding(d)' PROVE Fresh(d)'
    <3>1. Holding(d) /\ Fresh(d) /\ calls'[d] = calls[d]
      BY <2>3, <2>5 DEF TraceInv, Holding
    <3>2. calls[d].name \in Names /\ calls[d].inst \in Instances
      BY <1>0, <3>1 DEF Held, Holding
    <3> QED
      BY <2>1, <2>4, <3>1, <3>2 DEF Fresh, Started
  <2>6. HoldersApart' /\ NothingBeforeStart'
    BY <1>1, <2>1, <2>3 DEF TraceInv, HoldersApart, NothingBeforeStart, Holding, Started
  <2>7. StartedAreMade' /\ ListedAreMade' /\ StatusTraced'
    BY <2>1, <2>4 DEF TraceInv, StartedAreMade, ListedAreMade, StatusTraced, Started
  <2> QED
    BY <2>5, <2>6, <2>7 DEF TraceInv
<1>6. CASE Create(c)
  <2>1. UNCHANGED <<adapters, status, sup>>
    BY <1>6 DEF Create, registry
  <2>2. CASE CallReturn(c) /\ UNCHANGED made
    BY <1>2, <2>1, <2>2
  <2>3. ASSUME NEW j \in Instances \ made, NameOf[j] = n, made' = made \cup {j},
               CallGoto(c, "register", j)
        PROVE  TraceInv'
    <3>1. /\ calls'[c].step = "register" /\ calls'[c].name = n /\ calls'[c].inst = j
          /\ \A d \in Clients : d # c => calls'[d] = calls[d]
      BY <1>0, <2>3 DEF CallGoto
    <3>2. ~Started(j) /\ adapters[n] # j
      BY <1>1, <2>3 DEF TraceInv, StartedAreMade, ListedAreMade
    <3>3. \A d \in Clients : d # c /\ Holding(d) => calls[d].inst # j
      BY <2>3 DEF TraceInv, Fresh
    <3>4. \A d \in Clients : Holding(d)' => Fresh(d)'
      BY <2>1, <2>3, <3>1, <3>2 DEF TraceInv, Fresh, Holding, Started
    <3>5. HoldersApart'
      BY <3>1, <3>3 DEF TraceInv, HoldersApart, Holding
    <3> QED
      BY <1>1, <2>1, <2>3, <3>4, <3>5
      DEF TraceInv, StartedAreMade, ListedAreMade, StatusTraced, NothingBeforeStart, Started
  <2> QED
    BY <1>6, <2>2, <2>3 DEF Create
<1>7. CASE Register(c)
  <2>1. /\ UNCHANGED <<made, status, sup>> /\ Holding(c) /\ Fresh(c) /\ i \in Instances
        /\ CallGoto(c, "run", i)
    BY <1>0, <1>7 DEF Register, Holding, Held, TraceInv
  <2>2. /\ calls'[c].step = "run" /\ calls'[c].name = n /\ calls'[c].inst = i
        /\ \A d \in Clients : d # c => calls'[d] = calls[d]
    BY <1>0, <2>1 DEF CallGoto
  <2>3. \A m \in Names : adapters'[m] = adapters[m] \/ (m = n /\ adapters'[m] = i)
    BY <1>0, <1>1, <1>7 DEF Register, registry
  <2>4. ASSUME NEW d \in Clients, Holding(d)' PROVE Fresh(d)'
    <3>1. CASE d = c
      BY <2>1, <2>2, <3>1 DEF Fresh, Started
    <3>2. CASE d # c
      <4>1. Holding(d) /\ Fresh(d) /\ calls'[d] = calls[d]
        BY <2>2, <2>4, <3>2 DEF TraceInv, Holding
      <4>2. calls[d].inst # i /\ calls[d].name \in Names
        BY <1>0, <2>1, <3>2, <4>1 DEF TraceInv, HoldersApart, Held, Holding
      <4> QED
        BY <2>1, <2>3, <4>1, <4>2 DEF Fresh, Started
    <3> QED
      BY <3>1, <3>2
  <2>5. HoldersApart' /\ NothingBeforeStart'
    BY <1>1, <2>1, <2>2 DEF TraceInv, HoldersApart, NothingBeforeStart, Holding, Started
  <2>6. StartedAreMade' /\ ListedAreMade' /\ StatusTraced'
    BY <2>1, <2>3
    DEF TraceInv, StartedAreMade, ListedAreMade, StatusTraced, Started, Fresh
  <2> QED
    BY <2>4, <2>5, <2>6 DEF TraceInv
<1>8. CASE RunOne(c)
  <2>1. /\ UNCHANGED <<adapters, made, status>> /\ Holding(c) /\ Fresh(c) /\ i \in Instances
        /\ CallReturn(c)
    BY <1>0, <1>8 DEF RunOne, registry, Holding, Held, TraceInv
  <2>2. ~Holding(c)' /\ \A d \in Clients : d # c => calls'[d] = calls[d]
    BY <1>0, <2>1 DEF CallReturn, NoCall, Holding
  <2>3. \A j \in Instances : /\ Started(j) => Started(j)'
                             /\ Started(j)' => Started(j) \/ j = i
    BY <1>0, <1>8, <2>1 DEF RunOne, Started
  <2>4. \A d \in Clients : Holding(d)' =>
          calls[d].inst \in Instances /\ calls[d].inst # i /\ Fresh(d) /\ Holding(d)
    BY <1>0, <2>1, <2>2 DEF TraceInv, HoldersApart, Holding, Held
  <2>5. \A d \in Clients : Holding(d)' => Fresh(d)'
    BY <2>1, <2>2, <2>3, <2>4 DEF Fresh
  <2>6. HoldersApart'
    BY <2>2, <2>4 DEF TraceInv, HoldersApart, Holding
  <2>7. StartedAreMade' /\ ListedAreMade' /\ StatusTraced'
    BY <2>1, <2>3 DEF TraceInv, StartedAreMade, ListedAreMade, StatusTraced, Fresh
  <2> QED
    BY <1>1, <2>1, <2>5, <2>6, <2>7 DEF TraceInv, NothingBeforeStart
<1> QED
  BY <1>4, <1>5, <1>6, <1>7, <1>8 DEF CallStep

LEMMA TraceStep == ManagerInv /\ TraceInv /\ [Next]_vars => TraceInv'
<1> SUFFICES ASSUME ManagerInv, TraceInv, [Next]_vars PROVE TraceInv'
  OBVIOUS
<1>1. ASSUME UNCHANGED <<adapters, made, status, sup, calls>>,
             health'.step = "off" => health.step = "off"
      PROVE  TraceInv'
  BY <1>1 DEF TraceInv, Fresh, HoldersApart, StartedAreMade, ListedAreMade, StatusTraced,
     NothingBeforeStart, Holding, Started
<1>2. CASE Cancel \/ Stop \/ StopReturns
  BY <1>1, <1>2 DEF Cancel, Stop, StopReturns, untouchedByStop, registry
<1>3. CASE Tick \/ Probe \/ Report
  <2>1. health'.step = "off" => health.step = "off"
    BY <1>3 DEF Tick, Probe, Report, HealthOff
  <2>2. UNCHANGED <<adapters, made, status, sup, calls>>
    BY <1>3 DEF Tick, Probe, Report, untouchedByHealth, registry
  <2> QED
    BY <1>1, <2>1, <2>2
<1>4. CASE Start
  <2>1. /\ UNCHANGED <<adapters, made, status, calls>>
        /\ health.step = "off" /\ health'.step = "wait"
    BY <1>4 DEF Start, HealthOff, registry
  <2>2. \A j \in Instances : ~Started(j) /\ (Started(j)' => j \in made)
    BY <1>4, <2>1 DEF Start, TraceInv, NothingBeforeStart, Started
  <2>3. \A c \in Clients : ~Holding(c)'
    BY <2>1 DEF TraceInv, NothingBeforeStart, Holding
  <2> QED
    BY <2>1, <2>2, <2>3
    DEF TraceInv, HoldersApart, StartedAreMade, ListedAreMade, StatusTraced,
        NothingBeforeStart
<1>5. CASE UNCHANGED vars
  BY <1>1, <1>5 DEF vars, registry
<1> QED
  BY <1>2, <1>3, <1>4, <1>5, TraceSup, TraceCall, TraceArrival DEF Next

-----------------------------------------------------------------------------
Inside(i) == sup[i].step \in {"connecting", "running", "failed", "clean"}

\* An instance that is registered and the only one made for its name.
Sole(i) ==
  /\ ~cancelled /\ adapters[NameOf[i]] = i /\ i \in made
  /\ \A j \in made : NameOf[j] = NameOf[i] => j = i

Truth == \A i \in Instances : Sole(i) => (status[NameOf[i]] <=> Inside(i))

LEMMA EqualOrEquivalent ==
  ASSUME NEW p \in BOOLEAN, NEW q \in BOOLEAN
  PROVE  (p <=> q) <=> (p = q)
OBVIOUS

LEMMA TruthIsStatus == ManagerInv => (StatusIsTrue <=> Truth)
<1> SUFFICES ASSUME ManagerInv PROVE StatusIsTrue <=> Truth
  OBVIOUS
<1>1. made \subseteq Instances /\ status \in [Names -> BOOLEAN]
  BY DEF ManagerInv, RegistryInv, FlagInv
<1>2. ASSUME NEW i \in Instances
      PROVE  Sole(i) <=> /\ ~cancelled /\ adapters[NameOf[i]] = i
                         /\ {j \in made : NameOf[j] = NameOf[i]} = {i}
  BY <1>1 DEF Sole
<1>3. ASSUME NEW i \in Instances
      PROVE  (status[NameOf[i]] <=> Inside(i)) <=>
             (status[NameOf[i]] =
                (sup[i].step \in {"connecting", "running", "failed", "clean"}))
  <2>1. status[NameOf[i]] \in BOOLEAN
    BY <1>1
  <2>2. (sup[i].step \in {"connecting", "running", "failed", "clean"}) \in BOOLEAN
    OBVIOUS
  <2> QED
    BY <2>1, <2>2, EqualOrEquivalent DEF Inside
<1> QED
  BY <1>2, <1>3, Zenon DEF StatusIsTrue, Truth

\* A step of a supervisor: the only one of its name, or of another name.
LEMMA TruthSup ==
  ASSUME ManagerInv, TraceInv, Truth, NEW i \in Instances,
         SupStep(i) \/ Connected(i) \/ StartFails(i) \/ StartReturns(i)
  PROVE  Truth'
<1> USE DEF SupAt
<1>0. /\ sup \in [Instances -> Sup] /\ status \in [Names -> BOOLEAN]
      /\ UNCHANGED <<adapters, made, cancelled>>
  BY DEF ManagerInv, SupInv, FlagInv, SupStep, Top, Count, Backoff, Mark, Failed, Clean,
     Connected, StartFails, StartReturns, untouchedBySup, registry, environment
<1>1. Started(i) /\ i \in made /\ \A j \in Instances : j # i => sup'[j] = sup[j]
  BY SupStaysStarted DEF ManagerInv, TraceInv, StartedAreMade
<1> SUFFICES ASSUME NEW j \in Instances, Sole(j)
             PROVE  status'[NameOf[j]] <=> Inside(j)'
  BY <1>0 DEF Truth, Sole
<1>2. status[NameOf[j]] <=> Inside(j)
  BY DEF Truth
<1>3. CASE i = j
  <2>0. ~cancelled
    BY DEF Sole
  <2>1. ASSUME NEW step \in SupSteps, SupGoto(i, step) PROVE sup'[i].step = step
    BY <1>0, <2>1 DEF SupGoto
  <2>2. ASSUME NEW b \in BOOLEAN, SetRunning(i, b) PROVE status'[NameOf[i]] = b
    BY <1>0, <2>2 DEF SetRunning
  <2>3. CASE Mark(i)
    BY <1>3, <2>1, <2>2, <2>3 DEF Mark, Inside, SupSteps
  <2>4. CASE Failed(i) \/ Clean(i)
    BY <1>3, <2>1, <2>2, <2>4 DEF Failed, Clean, Inside, SupSteps
  <2>5. CASE Top(i) \/ Count(i) \/ Connected(i) \/ StartReturns(i)
    BY <1>2, <1>3, <2>0, <2>1, <2>5
    DEF Top, Count, Connected, StartReturns, Inside, SupSteps
  <2>6. CASE Backoff(i)
    BY <1>0, <1>2, <1>3, <2>0, <2>6 DEF Backoff, Inside
  <2>7. CASE StartFails(i)
    BY <1>0, <1>2, <1>3, <2>0, <2>7 DEF StartFails, Failure, Inside
  <2> QED
    BY <2>3, <2>4, <2>5, <2>6, <2>7 DEF SupStep
<1>4. CASE i # j
  <2>1. NameOf[i] # NameOf[j]
    BY <1>1, <1>4 DEF Sole
  <2>2. UNCHANGED status \/ \E b \in BOOLEAN : SetRunning(i, b)
    BY DEF SupStep, Top, Count, Backoff, Mark, Failed, Clean, Connected, StartFails,
       StartReturns
  <2>3. status'[NameOf[j]] = status[NameOf[j]]
    BY <1>0, <2>1, <2>2 DEF SetRunning
  <2> QED
    BY <1>1, <1>2, <1>4, <2>3 DEF Inside
<1> QED
  BY <1>3, <1>4

\* A step of a call.  What it registers has not been started, and so has nobody of
\* its name.
LEMMA TruthCall ==
  ASSUME ManagerInv, TraceInv, Truth, NEW c \in Clients, CallStep(c)
  PROVE  Truth'
<1> USE DEF CallAt
<1> DEFINE n == calls[c].name
           i == calls[c].inst
<1>0. /\ \A d \in Clients : Held(calls[d])
      /\ adapters \in [Names -> Instances \cup {None}] /\ made \subseteq Instances
      /\ sup \in [Instances -> Sup] /\ status \in [Names -> BOOLEAN]
  BY DEF ManagerInv, CallInv, RegistryInv, SupInv, FlagInv
<1>1. n \in Names /\ UNCHANGED cancelled
  BY <1>0 DEF CallStep, ConnectStatus, Lookup, StopAdapter, Unregister, Create, Register,
     RunOne, untouchedByCall, environment, Held
<1> SUFFICES ASSUME NEW j \in Instances, Sole(j)'
             PROVE  status'[NameOf[j]] <=> Inside(j)'
  BY DEF Truth
<1>2. ASSUME UNCHANGED <<adapters, made, status, sup>>
      PROVE  status'[NameOf[j]] <=> Inside(j)'
  BY <1>1, <1>2 DEF Truth, Sole, Inside
<1>3. CASE ConnectStatus(c) \/ Lookup(c) \/ StopAdapter(c)
  BY <1>2, <1>3 DEF ConnectStatus, Lookup, StopAdapter, registry
<1>4. CASE Unregister(c)
  <2>1. /\ adapters' = [adapters EXCEPT ![n] = None]
        /\ status' = [status EXCEPT ![n] = FALSE] /\ UNCHANGED <<made, sup>>
    BY <1>4 DEF Unregister
  <2>2. NameOf[j] # n
    BY <1>0, <1>1, <2>1 DEF Sole
  <2>3. adapters'[NameOf[j]] = adapters[NameOf[j]] /\ status'[NameOf[j]] = status[NameOf[j]]
    BY <1>0, <2>1, <2>2
  <2> QED
    BY <1>1, <2>1, <2>3 DEF Truth, Sole, Inside
<1>5. CASE Create(c)
  <2>1. UNCHANGED <<adapters, status, sup>> /\ made \subseteq made'
    BY <1>5 DEF Create, registry
  <2>2. j \in made
    BY <1>0, <2>1 DEF Sole, TraceInv, ListedAreMade
  <2> QED
    BY <1>1, <2>1, <2>2 DEF Truth, Sole, Inside
<1>6. CASE Register(c)
  <2>1. /\ UNCHANGED <<made, status, sup>> /\ Fresh(c) /\ i \in Instances
    BY <1>0, <1>6 DEF Register, Holding, Held, TraceInv
  <2>2. \A m \in Names : adapters'[m] = adapters[m] \/ (m = n /\ adapters'[m] = i)
    BY <1>0, <1>1, <1>6 DEF Register, registry
  <2>3. CASE adapters'[NameOf[j]] = adapters[NameOf[j]]
    BY <1>1, <2>1, <2>3 DEF Truth, Sole, Inside
  <2>4. CASE NameOf[j] = n /\ j = i
    <3>1. ~Started(j)
      BY <2>1, <2>4 DEF Fresh
    <3>2. \A k \in Instances : NameOf[k] = NameOf[j] => ~Started(k)
      BY <2>1, <3>1 DEF Sole, TraceInv, StartedAreMade
    <3>3. ~status[NameOf[j]]
      BY <3>2 DEF TraceInv, StatusTraced
    <3> QED
      BY <2>1, <3>1, <3>3 DEF Inside, Started
  <2> QED
    BY <2>2, <2>3, <2>4 DEF Sole
<1>7. CASE RunOne(c)
  <2>1. /\ UNCHANGED <<adapters, made, status>> /\ Fresh(c) /\ i \in Instances
    BY <1>0, <1>7 DEF RunOne, registry, Holding, Held, TraceInv
  <2>2. Sole(j) /\ (status[NameOf[j]] <=> Inside(j))
    BY <1>1, <2>1 DEF Truth, Sole
  <2>3. ~Inside(i)
    BY <2>1 DEF Fresh, Started, Inside
  <2>4. sup'[j] = sup[j] \/ (j = i /\ sup'[j].step = "top")
    BY <1>0, <1>7, <2>1 DEF RunOne
  <2> QED
    BY <2>1, <2>2, <2>3, <2>4 DEF Inside
<1> QED
  BY <1>3, <1>4, <1>5, <1>6, <1>7 DEF CallStep

LEMMA TruthStep == ManagerInv /\ TraceInv /\ Truth /\ [Next]_vars => Truth'
<1> SUFFICES ASSUME ManagerInv, TraceInv, Truth, [Next]_vars PROVE Truth'
  OBVIOUS
<1>1. ASSUME UNCHANGED <<adapters, made, status, sup>>, cancelled => cancelled'
      PROVE  Truth'
  BY <1>1 DEF Truth, Sole, Inside
<1>2. CASE Cancel \/ Stop \/ StopReturns
  BY <1>1, <1>2 DEF Cancel, Stop, StopReturns, untouchedByStop, registry
<1>3. CASE Tick \/ Probe \/ Report
  BY <1>1, <1>3 DEF Tick, Probe, Report, untouchedByHealth, registry, environment
<1>4. ASSUME NEW c \in Clients, NEW n \in Names, Connect(c, n) \/ Disconnect(c, n)
      PROVE  Truth'
  BY <1>1, <1>4 DEF Connect, Disconnect, untouchedByCall, registry, environment
<1>5. CASE Start
  <2>1. /\ UNCHANGED <<adapters, made, status, cancelled>> /\ health.step = "off"
    BY <1>5 DEF Start, registry, environment
  <2>2. \A j \in Instances : ~Started(j)
    BY <2>1 DEF TraceInv, NothingBeforeStart
  <2>3. \A m \in Names : ~status[m]
    BY <2>2 DEF TraceInv, StatusTraced
  <2>4. \A j \in Instances : ~Inside(j)'
    BY <1>5, <2>2 DEF Start, Started, Inside
  <2> QED
    BY <2>1, <2>3, <2>4 DEF Truth
<1>6. CASE UNCHANGED vars
  BY <1>1, <1>6 DEF vars, registry, environment
<1> QED
  BY <1>2, <1>3, <1>4, <1>5, <1>6, TruthSup, TruthCall DEF Next

\* The status that a connect decides by says whether the registered instance of the
\* name is inside Start, as long as its name has had no other, for any number of
\* names, instances and callers (updateStatus, Unregister, runWithRestart).
THEOREM StatusStaysTrue == Spec => []StatusIsTrue
<1>1. Init => TraceInv /\ Truth
  <2> SUFFICES ASSUME Init PROVE Truth
    BY TraceInit
  <2> QED
    BY DEF Init, NoSup, Truth, Inside
<1>2. ManagerInv /\ TraceInv /\ Truth /\ [Next]_vars => (TraceInv /\ Truth)'
  BY TraceStep, TruthStep
<1>3. ManagerInv /\ Truth => StatusIsTrue
  BY TruthIsStatus
<1> QED
  BY <1>1, <1>2, <1>3, ManagerInvariant, PTL DEF Spec
=============================================================================
