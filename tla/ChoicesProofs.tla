------------------------------ MODULE ChoicesProofs ------------------------------
(***************************************************************************)
(* Proofs that what the owner has decided stays decided: the provider      *)
(* (ProviderSwitch), being signed in or out (SignIn), the senders that are *)
(* allowed (SenderGate), the skills (Skills), the active profile           *)
(* (Profiles) and the agent's memory (KnowledgeGraph).                     *)
(*                                                                         *)
(* None of these is inductive by itself.  Each is, together with what an   *)
(* operation in progress carries between its steps: what it has read, what *)
(* of that it will write, and to which file.                               *)
(***************************************************************************)
EXTENDS MCServices, FiniteSetTheorems, SequenceTheorems, TLAPS

-----------------------------------------------------------------------------
(* The provider and the model.                                             *)

PresetMaps == [Providers -> Models \union {Nothing.model}]
OpRecords ==
  [step : {"idle", "provider", "model", "build", "publish", "marshal", "open", "fill", "rename"},
   to : ModelConfig, prev : ModelConfig, built : ModelConfig, text : ConfigText,
   fd : {"closed", "temp", "file", "gone"}]
ConfigFiles == [is : {"whole", "empty", "mangled", "absent"}, text : ConfigText]

ProviderTypes ==
  /\ config \in ModelConfig /\ presets \in PresetMaps
  /\ saved \in ConfigFiles /\ temp \in ConfigFiles
  /\ keys \subseteq Providers /\ override \in Providers \union {"none"}
  /\ running \in ModelConfig /\ chosen \in ModelConfig
  /\ op \in [Ops -> OpRecords] /\ opsLeft \in 0..MaxOps

ProviderFlags == setupRequired \in BOOLEAN /\ mixed \in BOOLEAN /\ updated \in BOOLEAN

AfterBuild == {"publish", "marshal", "open", "fill", "rename"}

\* What was built names a provider; only a running agent switches.
OpsAreSane ==
  /\ op["update"].step \in {"idle", "model"}
  /\ op["switch"].step # "idle" => running # Nothing
  /\ \A o \in Ops : op[o].step \in AfterBuild => op[o].built.provider # "none"

SetupIsAsked == setupRequired = (running = Nothing)

\* Where an operation has not touched the agent, or the file, yet.
NotYet(o) ==
  \/ op[o].step \in {"provider", "model", "build"}
  \/ o = "switch" /\ op[o].step = "publish"
  \/ o = "setup" /\ op[o].step \in {"marshal", "open", "fill", "rename"}

\* What an operation that is alone knows.
ChoiceOf(o) ==
  /\ op[o].step \in AfterBuild => config = op[o].built
  /\ op[o].step \in {"open", "fill", "rename"} => op[o].text.model = op[o].built
  /\ op[o].step = "fill" => op[o].fd = "temp" /\ temp.is = "empty"
  /\ op[o].step = "rename" => temp = Whole(op[o].text)
  /\ o = "switch" /\ op[o].step \in {"marshal", "open", "fill", "rename"} =>
       running = op[o].built
  /\ o = "setup" /\ op[o].step = "publish" => chosen = op[o].built
  /\ NotYet(o) /\ running # Nothing => running = chosen
  /\ o # "update" /\ op[o].step \in {"model", "build"} /\ running # Nothing /\ ~updated =>
       op[o].prev = running
  /\ op[o].step = "provider" /\ running # Nothing /\ ~updated => config = running
  /\ o = "update" /\ op[o].step = "model" => updated

\* What holds while no operation is under way.
RestsOnChoice ==
  running # Nothing => running = chosen /\ (~updated => config = running)

OneOperation == \A o, q \in Ops : op[o].step # "idle" /\ op[q].step # "idle" => o = q

FileIsChoice == saved.is = "whole" /\ (override = "none" => saved.text.model = chosen)

LastIsKept ==
  ~mixed => /\ OneOperation /\ FileIsChoice /\ \A o \in Ops : ChoiceOf(o)
            /\ Quiet => RestsOnChoice

ProviderInv == ProviderTypes /\ ProviderFlags /\ OpsAreSane /\ SetupIsAsked /\ LastIsKept

LEMMA ProviderValues ==
  /\ MaxOps \in Nat /\ Ops = {"switch", "setup", "update"}
  /\ Nothing \in ModelConfig /\ Nothing.provider = "none"
  /\ NoText \in ConfigText /\ NoText.model = Nothing /\ NoText.presets = NoPresets
  /\ NoPresets \in PresetMaps
  /\ NoOp \in OpRecords /\ NoOp.step = "idle" /\ NoOp.fd = "closed" /\ NoOp.prev = Nothing
  /\ \A is \in {"whole", "empty", "mangled", "absent"} :
       File(is) \in ConfigFiles /\ File(is).is = is
  /\ \A t \in ConfigText :
       Whole(t) \in ConfigFiles /\ Whole(t).is = "whole" /\ Whole(t).text = t
<1>1. MaxOps \in Nat /\ Ops = {"switch", "setup", "update"}
  BY ProviderAssumption DEF Ops
<1>2. Nothing.provider = "none" /\ Nothing \in ModelConfig
  BY DEF Nothing, ModelConfig
<1>3. NoPresets \in PresetMaps
  BY DEF NoPresets, PresetMaps
<1>4. NoText \in ConfigText /\ NoText.model = Nothing /\ NoText.presets = NoPresets
  BY <1>2, <1>3 DEF NoText, ConfigText, PresetMaps
<1>5. NoOp \in OpRecords /\ NoOp.step = "idle" /\ NoOp.fd = "closed" /\ NoOp.prev = Nothing
  BY <1>2, <1>4 DEF NoOp, OpRecords
<1>6. \A is \in {"whole", "empty", "mangled", "absent"} :
       File(is) \in ConfigFiles /\ File(is).is = is
  BY <1>4 DEF File, ConfigFiles
<1>7. \A t \in ConfigText :
       Whole(t) \in ConfigFiles /\ Whole(t).is = "whole" /\ Whole(t).text = t
  BY DEF Whole, ConfigFiles
<1> QED
  BY <1>1, <1>2, <1>3, <1>4, <1>5, <1>6, <1>7

\* Parts of a Config that are set.
LEMMA ConfigSet ==
  ASSUME NEW c \in ModelConfig, NEW p \in Providers \union {"none"},
         NEW m \in Models \union {Nothing.model}
  PROVE  /\ [c EXCEPT !.provider = p] \in ModelConfig
         /\ [c EXCEPT !.model = m] \in ModelConfig
         /\ [provider |-> p, model |-> m] \in ModelConfig
         /\ c.provider \in Providers \union {"none"} /\ c.model \in Models \union {Nothing.model}
BY DEF ModelConfig

LEMMA TextSet ==
  ASSUME NEW t \in ConfigText, NEW p \in Providers \union {"none"}
  PROVE  /\ [t EXCEPT !.model.provider = p] \in ConfigText
         /\ t.model \in ModelConfig /\ t.presets \in PresetMaps
         /\ \A c \in ModelConfig, ps \in PresetMaps : [model |-> c, presets |-> ps] \in ConfigText
<1>1. t.model \in ModelConfig /\ t.presets \in PresetMaps
  BY DEF ConfigText, PresetMaps
<1>2. [t.model EXCEPT !.provider = p] \in ModelConfig
  BY <1>1 DEF ModelConfig
<1>3. [t EXCEPT !.model.provider = p] = [t EXCEPT !.model = [t.model EXCEPT !.provider = p]]
  BY DEF ConfigText
<1>4. \A c \in ModelConfig : [t EXCEPT !.model = c] \in ConfigText
  BY DEF ConfigText
<1>5. \A c \in ModelConfig, ps \in PresetMaps : [model |-> c, presets |-> ps] \in ConfigText
  BY DEF ConfigText, PresetMaps
<1> QED
  BY <1>1, <1>2, <1>3, <1>4, <1>5

\* The presets that a change of the provider leaves.
LEMMA PresetsSet ==
  ASSUME ProviderTypes
  PROVE  WithCurrent \in PresetMaps
<1>1. config.provider \in Providers \union {"none"}
      /\ config.model \in Models \union {Nothing.model}
  BY ConfigSet DEF ProviderTypes
<1> QED
  BY <1>1 DEF WithCurrent, PresetMaps, ProviderTypes

LEMMA ProviderStarts == ProviderInit => ProviderInv
<1> SUFFICES ASSUME ProviderInit PROVE ProviderInv
  OBVIOUS
<1> USE ProviderValues
<1>1. /\ override \in Providers \union {"none"}
      /\ config = [Nothing EXCEPT !.provider = override]
      /\ running = (IF override \in Keyless THEN config ELSE Nothing)
      /\ chosen = running /\ presets = NoPresets
      /\ saved = Whole(NoText) /\ temp = File("absent") /\ keys = {}
      /\ op = [o \in Ops |-> NoOp] /\ opsLeft = MaxOps
  BY DEF ProviderInit
<1>2. setupRequired = (running = Nothing) /\ mixed = FALSE /\ updated = FALSE
  BY DEF ProviderInit
<1>3. Nothing.model \in Models \union {Nothing.model}
  OBVIOUS
<1>4. config \in ModelConfig /\ running \in ModelConfig
  BY <1>1, <1>3, ConfigSet
<1>5. op \in [Ops -> OpRecords] /\ \A o \in Ops : op[o] = NoOp
  BY <1>1
<1>6. ProviderTypes
  BY <1>1, <1>4, <1>5 DEF ProviderTypes
<1>7. ProviderFlags
  BY <1>2, Zenon DEF ProviderFlags
<1>8. OpsAreSane
  BY <1>5 DEF OpsAreSane, AfterBuild
<1>9. override = "none" => running = Nothing
  <2>1. "none" \notin Keyless
    BY ProviderAssumption
  <2> QED
    BY <1>1, <2>1
<1>10. FileIsChoice
  BY <1>1, <1>9 DEF FileIsChoice
<1>11. RestsOnChoice
  BY <1>1 DEF RestsOnChoice
<1>12. OneOperation /\ \A o \in Ops : ChoiceOf(o)
  BY <1>5 DEF OneOperation, ChoiceOf, NotYet, AfterBuild
<1> QED
  BY <1>2, <1>6, <1>7, <1>8, <1>10, <1>11, <1>12, Zenon
  DEF ProviderInv, SetupIsAsked, LastIsKept

\* An operation takes a step, its last one or not; the others do not.
LEMMA OperationMoves ==
  ASSUME ProviderInv, NEW o \in Ops, ProviderTypes', ProviderFlags', SetupIsAsked',
         \A q \in Ops \ {o} : op'[q].step = op[q].step /\ op'[q].built = op[q].built,
         op'[o].step \in AfterBuild => op'[o].built.provider # "none",
         o = "update" => op'[o].step \in {"idle", "model"},
         o = "switch" /\ op'[o].step # "idle" => running' # Nothing,
         running # Nothing => running' # Nothing,
         ~mixed' => ~mixed /\ (op[o].step = "idle" => Quiet),
         ~mixed' => FileIsChoice' /\ ChoiceOf(o)',
         ~mixed' /\ op'[o].step = "idle" => RestsOnChoice'
  PROVE  ProviderInv'
<1> USE ProviderValues DEF ProviderInv
<1>1. OpsAreSane'
  BY DEF OpsAreSane
<1>2. ASSUME ~mixed' PROVE OneOperation' /\ (\A q \in Ops : ChoiceOf(q)') /\ (Quiet' => RestsOnChoice')
  <2>1. \A q \in Ops \ {o} : op[q].step = "idle"
    BY <1>2 DEF LastIsKept, OneOperation, Quiet
  <2>2. \A q \in Ops \ {o} : op'[q].step = "idle"
    BY <2>1
  <2>3. OneOperation'
    BY <2>2 DEF OneOperation
  <2>4. \A q \in Ops \ {o} : ChoiceOf(q)'
    BY <2>2 DEF ChoiceOf, NotYet, AfterBuild
  <2>5. Quiet' => op'[o].step = "idle"
    BY DEF Quiet
  <2> QED
    BY <1>2, <2>3, <2>4, <2>5
<1>3. LastIsKept'
  BY <1>2, Zenon DEF LastIsKept
<1> QED
  BY <1>1, <1>3

\* The start of an operation, from rest if it is alone.
LEMMA BeginsAlone ==
  ASSUME ProviderInv, NEW o \in Ops, NEW next, NEW p, NEW m, Begin(o, next, p, m),
         next \in {"provider", "model"}, p \in Providers, m \in Models \union {Nothing.model}
  PROVE  /\ op' \in [Ops -> OpRecords] /\ opsLeft' \in 0..MaxOps
         /\ op'[o].step = next /\ op'[o].prev = config
         /\ \A q \in Ops \ {o} : op'[q] = op[q]
         /\ mixed' \in BOOLEAN
         /\ ~mixed' => ~mixed /\ Quiet /\ RestsOnChoice /\ FileIsChoice
<1> USE ProviderValues DEF ProviderInv
<1> DEFINE old == op[o]
           new == [[[old EXCEPT !.step = next] EXCEPT !.to = [provider |-> p, model |-> m]]
                     EXCEPT !.prev = config]
<1>1. old \in OpRecords
  BY DEF ProviderTypes
<1>2. [provider |-> p, model |-> m] \in ModelConfig /\ config \in ModelConfig
  BY ConfigSet DEF ProviderTypes
<1>3. op' = [op EXCEPT ![o] = new]
  BY DEF Begin, ProviderTypes
<1> HIDE DEF old
<1>4. new \in OpRecords /\ new.step = next /\ new.prev = config
  BY <1>1, <1>2 DEF OpRecords
<1> HIDE DEF new
<1>5. /\ op' \in [Ops -> OpRecords] /\ op'[o] = new
      /\ \A q \in Ops \ {o} : op'[q] = op[q]
  BY <1>3, <1>4 DEF ProviderTypes
<1>6. opsLeft' \in 0..MaxOps
  BY DEF Begin, ProviderTypes
<1>7. mixed' = (mixed \/ ~Quiet)
  BY DEF Begin
<1>8. mixed' \in BOOLEAN /\ (~mixed' => ~mixed /\ Quiet)
  BY <1>7, Zenon DEF ProviderFlags, Quiet
<1> QED
  BY <1>4, <1>5, <1>6, <1>8, Zenon DEF LastIsKept

LEMMA SwitchBeginsKeeps ==
  ASSUME ProviderInv, NEW p \in Providers, NEW m \in Models, SwitchBegins(p, m)
  PROVE  ProviderInv'
<1> USE ProviderValues DEF ProviderInv
<1>1. /\ running # Nothing /\ Begin("switch", "model", p, m)
      /\ presets' = WithCurrent /\ config' = [config EXCEPT !.provider = p]
      /\ UNCHANGED <<saved, temp, keys, override, running, chosen>>
  BY DEF SwitchBegins, Executes, fileVars, agentVars
<1>2. setupRequired' = setupRequired /\ updated' = updated
  BY DEF SwitchBegins, agentVars
<1>3. /\ op' \in [Ops -> OpRecords] /\ opsLeft' \in 0..MaxOps
      /\ op'["switch"].step = "model" /\ op'["switch"].prev = config
      /\ \A q \in Ops \ {"switch"} : op'[q] = op[q]
      /\ mixed' \in BOOLEAN
      /\ ~mixed' => ~mixed /\ Quiet /\ RestsOnChoice /\ FileIsChoice
  BY <1>1, BeginsAlone
<1>4. config' \in ModelConfig /\ presets' \in PresetMaps
  BY <1>1, ConfigSet, PresetsSet DEF ProviderTypes
<1>5. ProviderTypes'
  BY <1>1, <1>3, <1>4 DEF ProviderTypes
<1>6. ProviderFlags' /\ SetupIsAsked'
  BY <1>1, <1>2, <1>3, Zenon DEF ProviderFlags, SetupIsAsked
<1>7. ~mixed' => FileIsChoice'
  BY <1>1, <1>3 DEF FileIsChoice
<1>8. ~mixed' => ChoiceOf("switch")'
  BY <1>1, <1>2, <1>3 DEF ChoiceOf, NotYet, AfterBuild, RestsOnChoice
<1> QED
  BY <1>1, <1>3, <1>5, <1>6, <1>7, <1>8, OperationMoves DEF AfterBuild

LEMMA SetupBeginsKeeps ==
  ASSUME ProviderInv, NEW p \in Providers, NEW m \in Models, SetupBegins(p, m)
  PROVE  ProviderInv'
<1> USE ProviderValues DEF ProviderInv
<1>1. /\ Begin("setup", "provider", p, m) /\ keys' = WithKey(p)
      /\ UNCHANGED <<config, presets, saved, temp, override, running, chosen>>
  BY DEF SetupBegins, configVars, fileVars, agentVars
<1>2. setupRequired' = setupRequired /\ updated' = updated
  BY DEF SetupBegins, agentVars
<1>3. /\ op' \in [Ops -> OpRecords] /\ opsLeft' \in 0..MaxOps
      /\ op'["setup"].step = "provider"
      /\ \A q \in Ops \ {"setup"} : op'[q] = op[q]
      /\ mixed' \in BOOLEAN
      /\ ~mixed' => ~mixed /\ Quiet /\ RestsOnChoice /\ FileIsChoice
  BY <1>1, BeginsAlone
<1>4. keys' \subseteq Providers
  BY <1>1 DEF WithKey, ProviderTypes
<1>5. ProviderTypes'
  BY <1>1, <1>3, <1>4 DEF ProviderTypes
<1>6. ProviderFlags' /\ SetupIsAsked'
  BY <1>1, <1>2, <1>3, Zenon DEF ProviderFlags, SetupIsAsked
<1>7. ~mixed' => FileIsChoice'
  BY <1>1, <1>3 DEF FileIsChoice
<1>8. ~mixed' => ChoiceOf("setup")'
  BY <1>1, <1>2, <1>3 DEF ChoiceOf, NotYet, AfterBuild, RestsOnChoice
<1> QED
  BY <1>1, <1>3, <1>5, <1>6, <1>7, <1>8, OperationMoves DEF AfterBuild

LEMMA UpdateBeginsKeeps ==
  ASSUME ProviderInv, NEW p \in Providers, UpdateBegins(p)
  PROVE  ProviderInv'
<1> USE ProviderValues DEF ProviderInv
<1>1. /\ Begin("update", "model", p, Remembered(WithCurrent, p))
      /\ presets' = WithCurrent /\ config' = [config EXCEPT !.provider = p]
      /\ UNCHANGED <<saved, temp, keys, override, running, chosen>>
  BY DEF UpdateBegins, fileVars, agentVars
<1>2. setupRequired' = setupRequired /\ updated' = TRUE
  BY DEF UpdateBegins, agentVars
<1>a. Remembered(WithCurrent, p) \in Models \union {Nothing.model}
  <2>1. WithCurrent \in PresetMaps
    BY PresetsSet
  <2>2. Default(p) \in Models
    BY DEF Default, Models
  <2> QED
    BY <2>1, <2>2 DEF PresetMaps, Remembered
<1>3. /\ op' \in [Ops -> OpRecords] /\ opsLeft' \in 0..MaxOps
      /\ op'["update"].step = "model"
      /\ \A q \in Ops \ {"update"} : op'[q] = op[q]
      /\ mixed' \in BOOLEAN
      /\ ~mixed' => ~mixed /\ Quiet /\ RestsOnChoice /\ FileIsChoice
  BY <1>1, <1>a, BeginsAlone
<1>4. config' \in ModelConfig /\ presets' \in PresetMaps
  BY <1>1, ConfigSet, PresetsSet DEF ProviderTypes
<1>5. ProviderTypes'
  BY <1>1, <1>3, <1>4 DEF ProviderTypes
<1>6. ProviderFlags' /\ SetupIsAsked'
  BY <1>1, <1>2, <1>3, Zenon DEF ProviderFlags, SetupIsAsked
<1>7. ~mixed' => FileIsChoice'
  BY <1>1, <1>3 DEF FileIsChoice
<1>8. ~mixed' => ChoiceOf("update")'
  BY <1>1, <1>2, <1>3 DEF ChoiceOf, NotYet, AfterBuild, RestsOnChoice
<1> QED
  BY <1>1, <1>3, <1>5, <1>6, <1>7, <1>8, OperationMoves DEF AfterBuild

\* An operation under way, and its next record.
LEMMA OperationAt ==
  ASSUME ProviderInv, NEW o \in Ops, NEW new \in OpRecords, op' = [op EXCEPT ![o] = new]
  PROVE  /\ op' \in [Ops -> OpRecords] /\ op'[o] = new
         /\ \A q \in Ops \ {o} : op'[q].step = op[q].step /\ op'[q].built = op[q].built
         /\ op[o] \in OpRecords
BY DEF ProviderInv, ProviderTypes

LEMMA OperationKnows ==
  ASSUME ProviderInv, NEW o \in Ops
  PROVE  /\ op[o] \in OpRecords
         /\ ~mixed => ChoiceOf(o) /\ FileIsChoice
BY DEF ProviderInv, ProviderTypes, LastIsKept

\* The next record of an operation, when only its step, or a part more, changes.
LEMMA RecordSet ==
  ASSUME NEW r \in OpRecords,
         NEW s \in {"idle", "provider", "model", "build", "publish", "marshal", "open", "fill",
                    "rename"},
         NEW c \in ModelConfig, NEW t \in ConfigText, NEW d \in {"closed", "temp", "file", "gone"}
  PROVE  /\ [r EXCEPT !.step = s] \in OpRecords
         /\ [r EXCEPT !.prev = c] \in OpRecords /\ [r EXCEPT !.built = c] \in OpRecords
         /\ [r EXCEPT !.text = t] \in OpRecords /\ [r EXCEPT !.fd = d] \in OpRecords
         /\ [r EXCEPT !.step = s] =
              [step |-> s, to |-> r.to, prev |-> r.prev, built |-> r.built, text |-> r.text,
               fd |-> r.fd]
         /\ [r EXCEPT !.prev = c] =
              [step |-> r.step, to |-> r.to, prev |-> c, built |-> r.built, text |-> r.text,
               fd |-> r.fd]
         /\ [r EXCEPT !.built = c] =
              [step |-> r.step, to |-> r.to, prev |-> r.prev, built |-> c, text |-> r.text,
               fd |-> r.fd]
         /\ [r EXCEPT !.text = t] =
              [step |-> r.step, to |-> r.to, prev |-> r.prev, built |-> r.built, text |-> t,
               fd |-> r.fd]
         /\ [r EXCEPT !.fd = d] =
              [step |-> r.step, to |-> r.to, prev |-> r.prev, built |-> r.built,
               text |-> r.text, fd |-> d]
BY DEF OpRecords

\* A step of an operation that leaves the presets, the files and the choice alone.
LEMMA SetupProviderKeeps == ProviderInv /\ SetupProvider => ProviderInv'
<1> SUFFICES ASSUME ProviderInv, SetupProvider PROVE ProviderInv'
  OBVIOUS
<1> USE ProviderValues DEF ProviderInv
<1> DEFINE new == [[op["setup"] EXCEPT !.step = "model"] EXCEPT !.prev = config]
<1>1. /\ op["setup"].step = "provider" /\ op["setup"] \in OpRecords
      /\ op["setup"].to \in ModelConfig
      /\ op' = [op EXCEPT !["setup"] = new]
      /\ config' = [config EXCEPT !.provider = op["setup"].to.provider]
      /\ UNCHANGED <<presets, saved, temp, keys, override, running, opsLeft, chosen>>
  BY DEF SetupProvider, ProviderTypes, OpRecords, fileVars, agentVars, choiceVars
<1>2. setupRequired' = setupRequired /\ mixed' = mixed /\ updated' = updated
  BY DEF SetupProvider, agentVars, choiceVars
<1>3. config \in ModelConfig
  BY DEF ProviderTypes
<1>4. new \in OpRecords /\ new.step = "model" /\ new.prev = config
  BY <1>1, <1>3 DEF OpRecords
<1> HIDE DEF new
<1>5. /\ op' \in [Ops -> OpRecords] /\ op'["setup"] = new
      /\ \A q \in Ops \ {"setup"} : op'[q].step = op[q].step /\ op'[q].built = op[q].built
  BY <1>1, <1>4, OperationAt
<1>6. op["setup"].to.provider \in Providers \union {"none"}
  BY <1>1, <1>3, Nothing \in ModelConfig, Nothing.model \in Models \union {Nothing.model},
     ConfigSet
<1>7. config' \in ModelConfig
  BY <1>1, <1>3, <1>6, Nothing.model \in Models \union {Nothing.model}, ConfigSet
<1>8. ProviderTypes'
  BY <1>1, <1>5, <1>7 DEF ProviderTypes
<1>9. ProviderFlags' /\ SetupIsAsked'
  BY <1>1, <1>2, Zenon DEF ProviderFlags, SetupIsAsked
<1>10. ~mixed => ChoiceOf("setup") /\ FileIsChoice
  BY OperationKnows
<1>11. ~mixed' => FileIsChoice'
  BY <1>1, <1>2, <1>10 DEF FileIsChoice
<1>12. ~mixed' => ChoiceOf("setup")'
  BY <1>1, <1>2, <1>4, <1>5, <1>10 DEF ChoiceOf, NotYet, AfterBuild
<1> QED
  BY <1>1, <1>2, <1>4, <1>5, <1>8, <1>9, <1>11, <1>12, OperationMoves DEF AfterBuild

LEMMA SetModelKeeps ==
  ASSUME ProviderInv, NEW o \in Ops, SetModel(o)  PROVE ProviderInv'
<1> USE ProviderValues DEF ProviderInv
<1> DEFINE new == IF o = "update" THEN NoOp ELSE [op[o] EXCEPT !.step = "build"]
<1>1. /\ op[o].step = "model" /\ op[o] \in OpRecords /\ op[o].to \in ModelConfig
      /\ config' = [config EXCEPT !.model = op[o].to.model]
      /\ UNCHANGED <<presets, saved, temp, keys, override, running, opsLeft, chosen>>
  BY DEF SetModel, ProviderTypes, OpRecords, fileVars, agentVars, choiceVars
<1>2. op' = [op EXCEPT ![o] = new]
  BY DEF SetModel, Done, Go, ProviderTypes
<1>3. setupRequired' = setupRequired /\ mixed' = mixed /\ updated' = updated
  BY DEF SetModel, agentVars, choiceVars
<1>4. /\ new \in OpRecords
      /\ o = "update" => new.step = "idle"
      /\ o # "update" => new.step = "build" /\ new.prev = op[o].prev
  BY <1>1 DEF OpRecords
<1> HIDE DEF new
<1>5. /\ op' \in [Ops -> OpRecords] /\ op'[o] = new
      /\ \A q \in Ops \ {o} : op'[q].step = op[q].step /\ op'[q].built = op[q].built
  BY <1>2, <1>4, OperationAt
<1>6. "none" \in Providers \union {"none"} /\ config \in ModelConfig
  BY DEF ProviderTypes
<1>7. op[o].to.model \in Models \union {Nothing.model}
  BY <1>1, <1>6, Nothing.model \in Models \union {Nothing.model}, ConfigSet
<1>8. config' \in ModelConfig
  BY <1>1, <1>6, <1>7, ConfigSet
<1>9. ProviderTypes'
  BY <1>1, <1>5, <1>8 DEF ProviderTypes
<1>10. ProviderFlags' /\ SetupIsAsked'
  BY <1>1, <1>3, Zenon DEF ProviderFlags, SetupIsAsked
<1>11. ~mixed => ChoiceOf(o) /\ FileIsChoice
  BY OperationKnows
<1>12. ~mixed' => FileIsChoice'
  BY <1>1, <1>3, <1>11 DEF FileIsChoice
<1>13. ~mixed' => ChoiceOf(o)'
  BY <1>1, <1>3, <1>4, <1>5, <1>11 DEF ChoiceOf, NotYet, AfterBuild
<1>14. ~mixed' /\ op'[o].step = "idle" => RestsOnChoice'
  BY <1>1, <1>3, <1>4, <1>5, <1>11 DEF ChoiceOf, NotYet, RestsOnChoice
<1>15. op[o].step = "model" => running = running'
  BY <1>1
<1>16. o = "switch" => running # Nothing
  BY <1>1 DEF OpsAreSane
<1> QED
  BY <1>1, <1>3, <1>4, <1>5, <1>9, <1>10, <1>12, <1>13, <1>14, <1>16, OperationMoves
  DEF AfterBuild

LEMMA BuildProviderKeeps ==
  ASSUME ProviderInv, NEW o \in Ops, BuildProvider(o)  PROVE ProviderInv'
<1> USE ProviderValues DEF ProviderInv
<1>1. /\ op[o].step = "build" /\ op[o] \in OpRecords
      /\ UNCHANGED <<presets, saved, temp, keys, override, running, opsLeft, chosen>>
  BY DEF BuildProvider, ProviderTypes, fileVars, agentVars, choiceVars
<1>2. setupRequired' = setupRequired /\ mixed' = mixed /\ updated' = updated
  BY DEF BuildProvider, agentVars, choiceVars
<1>3. o # "update" /\ (o = "switch" => running # Nothing)
  BY <1>1 DEF OpsAreSane
<1>4. ~mixed => ChoiceOf(o) /\ FileIsChoice
  BY OperationKnows
<1>5. ProviderFlags' /\ SetupIsAsked'
  BY <1>1, <1>2, Zenon DEF ProviderFlags, SetupIsAsked
<1>6. ~mixed' => FileIsChoice'
  BY <1>1, <1>2, <1>4 DEF FileIsChoice
<1>7. config \in ModelConfig /\ op[o].prev \in ModelConfig
  BY <1>1 DEF ProviderTypes, OpRecords
<1>8. CASE config.provider # "none" /\ Usable(config.provider)
  <2> DEFINE next == IF o = "switch" THEN "publish" ELSE "marshal"
             new == [[op[o] EXCEPT !.built = config] EXCEPT !.step = next]
  <2>1. op' = [op EXCEPT ![o] = new] /\ UNCHANGED config
    BY <1>8 DEF BuildProvider, ProviderTypes
  <2>2. new \in OpRecords /\ new.step = next /\ new.built = config /\ new.prev = op[o].prev
    BY <1>1, <1>7 DEF OpRecords
  <2> HIDE DEF new
  <2>3. /\ op' \in [Ops -> OpRecords] /\ op'[o] = new
        /\ \A q \in Ops \ {o} : op'[q].step = op[q].step /\ op'[q].built = op[q].built
    BY <2>1, <2>2, OperationAt
  <2>4. ProviderTypes'
    BY <1>1, <2>1, <2>3 DEF ProviderTypes
  <2>5. ~mixed' => ChoiceOf(o)'
    BY <1>1, <1>2, <1>3, <1>4, <2>1, <2>2, <2>3 DEF ChoiceOf, NotYet, AfterBuild
  <2> QED
    BY <1>1, <1>2, <1>3, <1>5, <1>6, <1>8, <2>2, <2>3, <2>4, <2>5, OperationMoves
    DEF AfterBuild
<1>9. CASE ~(config.provider # "none" /\ Usable(config.provider))
  <2>1. op' = [op EXCEPT ![o] = NoOp] /\ config' = op[o].prev
    BY <1>9 DEF BuildProvider, RolledBack, Done
  <2>2. /\ op' \in [Ops -> OpRecords] /\ op'[o] = NoOp
        /\ \A q \in Ops \ {o} : op'[q].step = op[q].step /\ op'[q].built = op[q].built
    BY <2>1, OperationAt
  <2>3. ProviderTypes'
    BY <1>1, <1>7, <2>1, <2>2 DEF ProviderTypes
  <2>4. ~mixed' => ChoiceOf(o)'
    BY <2>2 DEF ChoiceOf, NotYet, AfterBuild
  <2>5. ~mixed' => RestsOnChoice'
    BY <1>1, <1>2, <1>3, <1>4, <2>1 DEF ChoiceOf, NotYet, RestsOnChoice
  <2> QED
    BY <1>1, <1>2, <1>3, <1>5, <1>6, <2>2, <2>3, <2>4, <2>5, OperationMoves DEF AfterBuild
<1> QED
  BY <1>8, <1>9

LEMMA PublishKeeps ==
  ASSUME ProviderInv, NEW o \in Ops, Publish(o)  PROVE ProviderInv'
<1> USE ProviderValues DEF ProviderInv
<1> DEFINE new == IF o = "switch" THEN [op[o] EXCEPT !.step = "marshal"] ELSE NoOp
<1>1. /\ op[o].step = "publish" /\ op[o] \in OpRecords /\ running' = op[o].built
      /\ UNCHANGED <<config, presets, saved, temp, keys, override, opsLeft, chosen>>
  BY DEF Publish, ProviderTypes, configVars, fileVars, choiceVars
<1>2. /\ mixed' = mixed /\ updated' = updated
      /\ setupRequired' = IF o = "switch" THEN setupRequired ELSE FALSE
  BY DEF Publish, choiceVars
<1>3. op' = [op EXCEPT ![o] = new]
  BY DEF Publish, Go, Done, ProviderTypes
<1>4. /\ new \in OpRecords
      /\ o = "switch" => new.step = "marshal" /\ new.built = op[o].built
      /\ o # "switch" => new.step = "idle"
  BY <1>1 DEF OpRecords
<1> HIDE DEF new
<1>5. /\ op' \in [Ops -> OpRecords] /\ op'[o] = new
      /\ \A q \in Ops \ {o} : op'[q].step = op[q].step /\ op'[q].built = op[q].built
  BY <1>3, <1>4, OperationAt
<1>6. running' \in ModelConfig /\ op[o].built.provider # "none" /\ running' # Nothing
  BY <1>1 DEF OpsAreSane, OpRecords, AfterBuild
<1>7. o # "update" /\ (o = "switch" => running # Nothing)
  BY <1>1 DEF OpsAreSane
<1>8. ProviderTypes'
  BY <1>1, <1>5, <1>6 DEF ProviderTypes
<1>9. SetupIsAsked'
  <2>1. CASE o = "switch"
    <3>1. setupRequired' = setupRequired
      BY <1>2, <2>1
    <3> QED
      BY <1>6, <1>7, <2>1, <3>1, Zenon DEF SetupIsAsked
  <2>2. CASE o # "switch"
    <3>1. setupRequired' = FALSE
      BY <1>2, <2>2
    <3> QED
      BY <1>6, <3>1, Zenon DEF SetupIsAsked
  <2> QED
    BY <2>1, <2>2
<1>10. ProviderFlags'
  BY <1>2, <1>9, Zenon DEF ProviderFlags, SetupIsAsked
<1>11. ~mixed => ChoiceOf(o) /\ FileIsChoice
  BY OperationKnows
<1>12. ~mixed' => FileIsChoice'
  BY <1>1, <1>2, <1>11 DEF FileIsChoice
<1>13. ~mixed' => ChoiceOf(o)'
  BY <1>1, <1>2, <1>4, <1>5, <1>7, <1>11 DEF ChoiceOf, NotYet, AfterBuild
<1>14. ~mixed' /\ op'[o].step = "idle" => RestsOnChoice'
  BY <1>1, <1>2, <1>4, <1>5, <1>7, <1>11 DEF ChoiceOf, NotYet, RestsOnChoice, AfterBuild
<1> QED
  BY <1>1, <1>2, <1>4, <1>5, <1>6, <1>7, <1>8, <1>9, <1>10, <1>12, <1>13, <1>14,
     OperationMoves DEF AfterBuild

LEMMA MarshalKeeps ==
  ASSUME ProviderInv, NEW o \in Ops, Marshal(o)  PROVE ProviderInv'
<1> USE ProviderValues DEF ProviderInv
<1> DEFINE text == [model |-> config, presets |-> presets']
           new == [[op[o] EXCEPT !.step = "open"] EXCEPT !.text = text]
<1>1. /\ op[o].step = "marshal" /\ op[o] \in OpRecords
      /\ op' = [op EXCEPT ![o] = new]
      /\ UNCHANGED <<config, saved, temp, keys, override, running, opsLeft, chosen>>
  BY DEF Marshal, Text, ProviderTypes, fileVars, agentVars, choiceVars
<1>2. setupRequired' = setupRequired /\ mixed' = mixed /\ updated' = updated
  BY DEF Marshal, agentVars, choiceVars
<1>3. presets' \in PresetMaps
  BY PresetsSet DEF Marshal, ProviderTypes
<1>4. text \in ConfigText /\ text.model = config
  BY <1>3 DEF ConfigText, PresetMaps, ProviderTypes
<1> HIDE DEF text
<1>5. /\ new \in OpRecords /\ new.step = "open" /\ new.text = text
      /\ new.built = op[o].built
  BY <1>1, <1>4 DEF OpRecords
<1> HIDE DEF new
<1>6. /\ op' \in [Ops -> OpRecords] /\ op'[o] = new
      /\ \A q \in Ops \ {o} : op'[q].step = op[q].step /\ op'[q].built = op[q].built
  BY <1>1, <1>5, OperationAt
<1>7. ProviderTypes'
  BY <1>1, <1>3, <1>6 DEF ProviderTypes
<1>8. ProviderFlags' /\ SetupIsAsked'
  BY <1>1, <1>2, Zenon DEF ProviderFlags, SetupIsAsked
<1>9. ~mixed => ChoiceOf(o) /\ FileIsChoice
  BY OperationKnows
<1>10. ~mixed' => FileIsChoice'
  BY <1>1, <1>2, <1>9 DEF FileIsChoice
<1>11. o # "update" /\ (o = "switch" => running # Nothing) /\ op[o].built.provider # "none"
  BY <1>1 DEF OpsAreSane, AfterBuild
<1>12. ~mixed' => ChoiceOf(o)'
  BY <1>1, <1>2, <1>4, <1>5, <1>6, <1>9, <1>11 DEF ChoiceOf, NotYet, AfterBuild
<1> QED
  BY <1>1, <1>2, <1>5, <1>6, <1>7, <1>8, <1>10, <1>11, <1>12, OperationMoves DEF AfterBuild

LEMMA OpenTempKeeps ==
  ASSUME ProviderInv, NEW o \in Ops, OpenTemp(o)  PROVE ProviderInv'
<1> USE ProviderValues DEF ProviderInv
<1> DEFINE new == [[op[o] EXCEPT !.step = "fill"] EXCEPT !.fd = "temp"]
<1>1. /\ op[o].step = "open" /\ op[o] \in OpRecords
      /\ op' = [op EXCEPT ![o] = new] /\ temp' = File("empty")
      /\ UNCHANGED <<config, presets, saved, keys, override, running, opsLeft, chosen>>
  BY DEF OpenTemp, ProviderTypes, configVars, agentVars, choiceVars
<1>2. setupRequired' = setupRequired /\ mixed' = mixed /\ updated' = updated
  BY DEF OpenTemp, agentVars, choiceVars
<1>3. /\ new \in OpRecords /\ new.step = "fill" /\ new.fd = "temp"
      /\ new.built = op[o].built /\ new.text = op[o].text
  BY <1>1 DEF OpRecords
<1> HIDE DEF new
<1>4. /\ op' \in [Ops -> OpRecords] /\ op'[o] = new
      /\ \A q \in Ops \ {o} : op'[q].step = op[q].step /\ op'[q].built = op[q].built
  BY <1>1, <1>3, OperationAt
<1>5. ProviderTypes'
  BY <1>1, <1>4 DEF ProviderTypes
<1>6. ProviderFlags' /\ SetupIsAsked'
  BY <1>1, <1>2, Zenon DEF ProviderFlags, SetupIsAsked
<1>7. ~mixed => ChoiceOf(o) /\ FileIsChoice
  BY OperationKnows
<1>8. ~mixed' => FileIsChoice'
  BY <1>1, <1>2, <1>7 DEF FileIsChoice
<1>9. o # "update" /\ (o = "switch" => running # Nothing) /\ op[o].built.provider # "none"
  BY <1>1 DEF OpsAreSane, AfterBuild
<1>10. ~mixed' => ChoiceOf(o)'
  BY <1>1, <1>2, <1>3, <1>4, <1>7, <1>9 DEF ChoiceOf, NotYet, AfterBuild
<1> QED
  BY <1>1, <1>2, <1>3, <1>4, <1>5, <1>6, <1>8, <1>9, <1>10, OperationMoves DEF AfterBuild

LEMMA FillTempKeeps ==
  ASSUME ProviderInv, NEW o \in Ops, FillTemp(o)  PROVE ProviderInv'
<1> USE ProviderValues DEF ProviderInv
<1> DEFINE new == [[op[o] EXCEPT !.step = "rename"] EXCEPT !.fd = "closed"]
<1>1. /\ op[o].step = "fill" /\ op[o] \in OpRecords
      /\ op' = [op EXCEPT ![o] = new]
      /\ UNCHANGED <<config, presets, keys, override, running, opsLeft, chosen>>
  BY DEF FillTemp, ProviderTypes, configVars, agentVars, choiceVars
<1>2. setupRequired' = setupRequired /\ mixed' = mixed /\ updated' = updated
  BY DEF FillTemp, agentVars, choiceVars
<1>3. /\ new \in OpRecords /\ new.step = "rename"
      /\ new.built = op[o].built /\ new.text = op[o].text
  BY <1>1 DEF OpRecords
<1> HIDE DEF new
<1>4. /\ op' \in [Ops -> OpRecords] /\ op'[o] = new
      /\ \A q \in Ops \ {o} : op'[q].step = op[q].step /\ op'[q].built = op[q].built
  BY <1>1, <1>3, OperationAt
<1>5. op[o].text \in ConfigText
  BY <1>1 DEF OpRecords
<1>6. \A old \in ConfigFiles : Over(old, op[o].text) \subseteq ConfigFiles
  BY <1>5 DEF Over
<1>7. saved' \in ConfigFiles /\ temp' \in ConfigFiles
  BY <1>6 DEF FillTemp, ProviderTypes, fileVars
<1>8. ProviderTypes'
  BY <1>1, <1>4, <1>7 DEF ProviderTypes
<1>9. ProviderFlags' /\ SetupIsAsked'
  BY <1>1, <1>2, Zenon DEF ProviderFlags, SetupIsAsked
<1>10. ~mixed => ChoiceOf(o) /\ FileIsChoice
  BY OperationKnows
<1>11. ~mixed => op[o].fd = "temp" /\ temp.is = "empty"
  BY <1>1, <1>10 DEF ChoiceOf
<1>12. ~mixed => saved' = saved /\ temp' = Whole(op[o].text)
  BY <1>11 DEF FillTemp, Over
<1>13. ~mixed' => FileIsChoice'
  BY <1>1, <1>2, <1>10, <1>12 DEF FileIsChoice
<1>14. o # "update" /\ (o = "switch" => running # Nothing) /\ op[o].built.provider # "none"
  BY <1>1 DEF OpsAreSane, AfterBuild
<1>15. ~mixed' => ChoiceOf(o)'
  BY <1>1, <1>2, <1>3, <1>4, <1>10, <1>12, <1>14 DEF ChoiceOf, NotYet, AfterBuild
<1> QED
  BY <1>1, <1>2, <1>3, <1>4, <1>8, <1>9, <1>13, <1>14, <1>15, OperationMoves DEF AfterBuild

LEMMA RenameTempKeeps ==
  ASSUME ProviderInv, NEW o \in Ops, RenameTemp(o)  PROVE ProviderInv'
<1> USE ProviderValues DEF ProviderInv
<1>1. /\ op[o].step = "rename" /\ op[o] \in OpRecords
      /\ saved' = temp /\ temp' = File("absent") /\ chosen' = op[o].built
      /\ UNCHANGED <<config, presets, keys, override, running, opsLeft>>
  BY DEF RenameTemp, ProviderTypes, configVars, agentVars
<1>2. setupRequired' = setupRequired /\ mixed' = mixed /\ updated' = FALSE
  BY DEF RenameTemp, agentVars
<1>3. \A q \in Ops \ {o} :
        /\ op'[q] \in OpRecords
        /\ op'[q].step = op[q].step /\ op'[q].built = op[q].built
  <2> SUFFICES ASSUME NEW q \in Ops \ {o}
               PROVE  /\ op'[q] \in OpRecords
                      /\ op'[q].step = op[q].step /\ op'[q].built = op[q].built
    OBVIOUS
  <2> DEFINE d == Moved(op[q].fd)
  <2>1. op[q] \in OpRecords /\ op'[q] = [op[q] EXCEPT !.fd = d]
    BY DEF RenameTemp, ProviderTypes
  <2>2. d \in {"closed", "temp", "file", "gone"}
    BY <2>1 DEF Moved, OpRecords
  <2> HIDE DEF d
  <2> QED
    BY <2>1, <2>2 DEF OpRecords
<1>4. o # "update" /\ (o = "switch" => running # Nothing) /\ op[o].built.provider # "none"
  BY <1>1 DEF OpsAreSane, AfterBuild
<1>5. /\ op'[o] \in OpRecords
      /\ o = "setup" => op'[o].step = "publish" /\ op'[o].built = op[o].built
      /\ o # "setup" => op'[o].step = "idle"
  <2>1. op'[o] = IF o = "setup" THEN [op[o] EXCEPT !.step = "publish"] ELSE NoOp
    BY DEF RenameTemp
  <2> QED
    BY <1>1, <2>1 DEF OpRecords
<1>6. op' \in [Ops -> OpRecords]
  <2>1. op' = [q \in Ops |-> op'[q]]
    BY DEF RenameTemp
  <2>2. \A q \in Ops : op'[q] \in OpRecords
    BY <1>3, <1>5
  <2> QED
    BY <2>1, <2>2
<1>7. ProviderTypes'
  BY <1>1, <1>6 DEF ProviderTypes, OpRecords
<1>8. ProviderFlags' /\ SetupIsAsked'
  BY <1>1, <1>2, Zenon DEF ProviderFlags, SetupIsAsked
<1>9. ~mixed => ChoiceOf(o) /\ FileIsChoice
  BY OperationKnows
<1>10. op[o].text \in ConfigText
  BY <1>1 DEF OpRecords
<1>11. ~mixed' => FileIsChoice'
  BY <1>1, <1>2, <1>9, <1>10 DEF FileIsChoice, ChoiceOf
<1>12. ~mixed' => ChoiceOf(o)'
  BY <1>1, <1>2, <1>4, <1>5, <1>9 DEF ChoiceOf, NotYet, AfterBuild
<1>13. ~mixed' /\ op'[o].step = "idle" => RestsOnChoice'
  BY <1>1, <1>2, <1>4, <1>5, <1>9 DEF ChoiceOf, NotYet, RestsOnChoice, AfterBuild
<1> QED
  BY <1>1, <1>2, <1>3, <1>4, <1>5, <1>7, <1>8, <1>11, <1>12, <1>13, OperationMoves
  DEF AfterBuild

LEMMA SaveFailsKeeps ==
  ASSUME ProviderInv, NEW o \in Ops, SaveFails(o)  PROVE ProviderInv'
<1> USE ProviderValues DEF ProviderInv
<1>1. /\ op[o] \in OpRecords /\ op[o].step # "idle" /\ op' = [op EXCEPT ![o] = NoOp]
      /\ config' \in {config, op[o].prev}
      /\ UNCHANGED <<presets, saved, temp, keys, override, running, opsLeft, chosen>>
  BY DEF SaveFails, RolledBack, Done, ProviderTypes, fileVars, agentVars
<1>2. setupRequired' = setupRequired /\ mixed' = TRUE /\ updated' = updated
  BY DEF SaveFails, agentVars
<1>3. /\ op' \in [Ops -> OpRecords] /\ op'[o] = NoOp
      /\ \A q \in Ops \ {o} : op'[q].step = op[q].step /\ op'[q].built = op[q].built
  BY <1>1, OperationAt
<1>4. config' \in ModelConfig
  BY <1>1 DEF ProviderTypes, OpRecords
<1>5. ProviderTypes'
  BY <1>1, <1>3, <1>4 DEF ProviderTypes
<1>6. ProviderFlags' /\ SetupIsAsked'
  BY <1>1, <1>2, Zenon DEF ProviderFlags, SetupIsAsked
<1> QED
  BY <1>1, <1>2, <1>3, <1>5, <1>6, OperationMoves DEF AfterBuild

\* What a start makes of the file.
LEMMA RestartProgramKeeps == ProviderInv /\ RestartProgram => ProviderInv'
<1> SUFFICES ASSUME ProviderInv, RestartProgram PROVE ProviderInv'
  OBVIOUS
<1> USE ProviderValues DEF ProviderInv
<1>1. /\ config' = Loaded.model /\ presets' = Loaded.presets
      /\ op' = [o \in Ops |-> NoOp]
      /\ UNCHANGED <<saved, temp, keys, override, opsLeft>>
      /\ running' = config' \/ running' = Nothing
      /\ chosen' = IF override = "none" THEN chosen ELSE running'
  BY DEF RestartProgram, fileVars
<1>2. mixed' = mixed /\ updated' = FALSE /\ setupRequired' = (running' = Nothing)
  <2>1. CASE config'.provider # "none" /\ Usable(config'.provider)
    <3>1. running' = config' /\ setupRequired' = FALSE /\ mixed' = mixed /\ updated' = FALSE
      BY <2>1 DEF RestartProgram, Usable, fileVars
    <3>2. running' # Nothing
      BY <2>1, <3>1
    <3> QED
      BY <3>1, <3>2
  <2>2. CASE ~(config'.provider # "none" /\ Usable(config'.provider))
    <3>1. running' = Nothing /\ setupRequired' = TRUE /\ mixed' = mixed /\ updated' = FALSE
      BY <2>2 DEF RestartProgram, Usable, fileVars
    <3> QED
      BY <3>1
  <2> QED
    BY <2>1, <2>2
<1>3. saved.text \in ConfigText
  BY DEF ProviderTypes, ConfigFiles
<1>4. Loaded \in ConfigText
  BY <1>3, TextSet DEF Loaded, ProviderTypes
<1>5. config' \in ModelConfig /\ presets' \in PresetMaps
  BY <1>1, <1>4, "none" \in Providers \union {"none"}, TextSet
<1>6. op' \in [Ops -> OpRecords] /\ \A o \in Ops : op'[o] = NoOp
  BY <1>1
<1>7. ProviderTypes'
  BY <1>1, <1>5, <1>6 DEF ProviderTypes
<1>8. ProviderFlags' /\ SetupIsAsked'
  BY <1>2, Zenon DEF ProviderFlags, SetupIsAsked
<1>9. OpsAreSane'
  BY <1>6 DEF OpsAreSane, AfterBuild
<1>10. ~mixed => FileIsChoice
  BY DEF LastIsKept
<1>11. ~mixed => FileIsChoice'
  BY <1>1, <1>10 DEF FileIsChoice
<1>12. ~mixed => RestsOnChoice'
  <2>1. override = "none" => config' = saved.text.model
    BY <1>1 DEF Loaded
  <2> QED
    BY <1>1, <1>2, <1>10, <2>1 DEF FileIsChoice, RestsOnChoice
<1>13. OneOperation' /\ \A o \in Ops : ChoiceOf(o)'
  BY <1>6 DEF OneOperation, ChoiceOf, NotYet, AfterBuild
<1>14. LastIsKept'
  BY <1>2, <1>11, <1>12, <1>13, Zenon DEF LastIsKept
<1> QED
  BY <1>7, <1>8, <1>9, <1>14

LEMMA ProviderRests == ProviderInv /\ UNCHANGED providerVars => ProviderInv'
<1> SUFFICES ASSUME ProviderInv, UNCHANGED providerVars PROVE ProviderInv'
  OBVIOUS
<1>1. UNCHANGED <<config, presets, saved, temp, keys, override, running, opsLeft, chosen, op,
                  setupRequired, mixed, updated>>
  BY DEF providerVars, configVars, fileVars, agentVars, choiceVars
<1>2. ProviderTypes'
  BY <1>1 DEF ProviderInv, ProviderTypes
<1>3. ProviderFlags' /\ SetupIsAsked'
  BY <1>1, Zenon DEF ProviderInv, ProviderFlags, SetupIsAsked
<1>4. OpsAreSane' /\ FileIsChoice' = FileIsChoice /\ RestsOnChoice' = RestsOnChoice
      /\ OneOperation' = OneOperation
  BY <1>1 DEF ProviderInv, OpsAreSane, FileIsChoice, RestsOnChoice, OneOperation
<1>5. \A o \in Ops : ChoiceOf(o) => ChoiceOf(o)'
  BY <1>1 DEF ChoiceOf, NotYet
<1>6. LastIsKept'
  BY <1>1, <1>4, <1>5, Zenon DEF ProviderInv, LastIsKept, Quiet
<1> QED
  BY <1>2, <1>3, <1>4, <1>6 DEF ProviderInv

LEMMA ProviderStep == ProviderInv /\ [ProviderNext]_providerVars => ProviderInv'
<1> SUFFICES ASSUME ProviderInv, [ProviderNext]_providerVars PROVE ProviderInv'
  OBVIOUS
<1>1. CASE \E p \in Providers, m \in Models : SwitchBegins(p, m) \/ SetupBegins(p, m)
  BY <1>1, SwitchBeginsKeeps, SetupBeginsKeeps
<1>2. CASE \E p \in Providers : UpdateBegins(p)
  BY <1>2, UpdateBeginsKeeps
<1>3. CASE \E o \in Ops :
             \/ SetModel(o)
             \/ BuildProvider(o)
             \/ Publish(o)
             \/ Marshal(o)
             \/ OpenTemp(o)
             \/ FillTemp(o)
             \/ RenameTemp(o)
             \/ SaveFails(o)
  BY <1>3, SetModelKeeps, BuildProviderKeeps, PublishKeeps, MarshalKeeps, OpenTempKeeps,
     FillTempKeeps, RenameTempKeeps, SaveFailsKeeps
<1>4. CASE SetupProvider \/ RestartProgram \/ UNCHANGED providerVars
  BY <1>4, SetupProviderKeeps, RestartProgramKeeps, ProviderRests
<1> QED
  BY <1>1, <1>2, <1>3, <1>4, Zenon DEF ProviderNext

LEMMA ProviderHolds == ProviderInv => ChoiceSurvives /\ ProviderTypeOK
<1> SUFFICES ASSUME ProviderInv PROVE ChoiceSurvives /\ ProviderTypeOK
  OBVIOUS
<1> USE DEF ProviderInv
<1>1. ~setupRequired => running # Nothing
  BY Zenon DEF SetupIsAsked
<1>2. ChoiceSurvives
  BY <1>1, Zenon DEF ChoiceSurvives, LastIsKept, FileIsChoice, RestsOnChoice, SetupIsAsked
<1>3. \A o \in Ops :
       /\ op[o].step \in {"idle", "provider", "model", "build", "publish",
                          "marshal", "open", "fill", "rename"}
       /\ {op[o].to, op[o].prev, op[o].built} \subseteq ModelConfig
       /\ op[o].fd \in {"closed", "temp", "file", "gone"}
  BY DEF ProviderTypes, OpRecords
<1>4. \A file \in {saved, temp} :
       file.is \in {"whole", "empty", "mangled", "absent"} /\ file.text \in ConfigText
  BY DEF ProviderTypes, ConfigFiles
<1>5. ProviderTypeOK
  BY <1>3, <1>4, Zenon DEF ProviderTypes, ProviderFlags, ProviderTypeOK, PresetMaps
<1> QED
  BY <1>2, <1>5

-----------------------------------------------------------------------------
(* Signing in.                                                             *)

CallbackRecords ==
  [step : {"idle", "exchange", "open", "fill"}, flow : AllFlows, token : 0..issued]
RefreshRecords == [step : {"idle", "ask", "open", "fill"}, token : 0..issued]
TokenFiles == [is : {"absent", "empty", "whole"}, token : 0..issued]

SignTypes ==
  /\ states \in [AllFlows -> {"none", "fresh", "stale"}]
  /\ callback \in [Callbacks -> CallbackRecords]
  /\ login \in {"none", "waits", "success", "failure"}
  /\ tokenFile \in TokenFiles /\ refresh \in RefreshRecords
  /\ issued \in 0..MaxTokens /\ held \in 0..issued /\ outdated \subseteq 1..issued
  /\ exchanged \in [AllFlows -> {0, 1}]
  /\ tokenKept \subseteq AllFlows /\ late \subseteq Callbacks \cup {"refresh"}

SignFlags == signed \in {"in", "out"}

\* A token that is to be written, or stands in the file, was issued.
TokensAreReal ==
  /\ tokenFile.is = "whole" => tokenFile.token \in 1..issued
  /\ refresh.step \in {"open", "fill"} => refresh.token \in 1..issued
  /\ \A c \in Callbacks : callback[c].step \in {"open", "fill"} => callback[c].token \in 1..issued

\* A state is there, fresh or stale, only while its verifier was not used; and what
\* a callback does, it does for a verifier that was.
VerifiersAreUsed ==
  /\ \A f \in AllFlows : states[f] # "none" => exchanged[f] = 0
  /\ \A c \in Callbacks : callback[c].step # "idle" => exchanged[callback[c].flow] = 1
  /\ login = "success" => exchanged[Login] = 1 /\ Login \in tokenKept

\* After a sign-out only those are under way that were then, until someone signs in.
OnlyLate ==
  /\ refresh.step # "idle" => "refresh" \in late
  /\ \A c \in Callbacks : callback[c].step # "idle" => c \in late
OutIsOut == signed = "out" => tokenFile.is = "absent" /\ OnlyLate

SignInv == SignTypes /\ SignFlags /\ TokensAreReal /\ VerifiersAreUsed /\ OutIsOut

LEMMA SignNumbers ==
  /\ MaxTokens \in Nat /\ Login \in AllFlows
  /\ NoCallback.step = "idle" /\ NoCallback.flow = Login /\ NoRefresh.step = "idle"
BY SignInAssumption DEF AllFlows, NoCallback, NoRefresh

\* The records at rest belong to every number of tokens.
LEMMA AtRestRecords ==
  ASSUME NEW n \in Nat
  PROVE  /\ 0 \in 0..n
         /\ NoCallback \in [step : {"idle", "exchange", "open", "fill"}, flow : AllFlows,
                            token : 0..n]
         /\ NoRefresh \in [step : {"idle", "ask", "open", "fill"}, token : 0..n]
         /\ TokenFile("absent", 0) \in [is : {"absent", "empty", "whole"}, token : 0..n]
         /\ TokenFile("empty", 0) \in [is : {"absent", "empty", "whole"}, token : 0..n]
BY SignNumbers DEF NoCallback, NoRefresh, TokenFile

LEMMA SignStarts == SignInit => SignInv
<1> SUFFICES ASSUME SignInit PROVE SignInv
  OBVIOUS
<1> USE SignNumbers
<1>1. issued = 0 /\ outdated = {} /\ held = 0 /\ 0..0 = {0}
  BY DEF SignInit
<1>2. /\ callback \in [Callbacks -> CallbackRecords]
      /\ tokenFile \in TokenFiles /\ refresh \in RefreshRecords
  BY <1>1, AtRestRecords DEF SignInit, CallbackRecords, TokenFiles, RefreshRecords
<1>3. SignTypes
  BY <1>1, <1>2 DEF SignInit, SignTypes
<1>4. SignFlags
  BY Zenon DEF SignInit, SignFlags
<1>5. /\ tokenFile.is = "absent" /\ refresh.step = "idle"
      /\ \A c \in Callbacks : callback[c].step = "idle"
  BY DEF SignInit, TokenFile
<1>6. TokensAreReal /\ VerifiersAreUsed /\ OnlyLate
  BY <1>5 DEF SignInit, TokensAreReal, VerifiersAreUsed, OnlyLate
<1> QED
  BY <1>3, <1>4, <1>5, <1>6 DEF SignInv, OutIsOut

\* A step that issues no token and uses no verifier.
LEMMA NoTokenIssued ==
  ASSUME SignInv, UNCHANGED <<issued, exchanged, late>>,
         tokenKept \subseteq tokenKept', tokenKept' \subseteq AllFlows,
         states' \in [AllFlows -> {"none", "fresh", "stale"}],
         callback' \in [Callbacks -> CallbackRecords],
         login' \in {"none", "waits", "success", "failure"},
         tokenFile' \in TokenFiles, refresh' \in RefreshRecords,
         held' \in 0..issued, outdated' \subseteq 1..issued,
         TokensAreReal',
         \A f \in AllFlows : states'[f] # "none" => exchanged[f] = 0,
         \A c \in Callbacks : callback'[c].step # "idle" => exchanged[callback'[c].flow] = 1,
         login' = "success" => exchanged[Login] = 1 /\ Login \in tokenKept',
         \/ signed' = "in"
         \/ /\ signed' = signed
            /\ tokenFile.is = "absent" /\ OnlyLate => tokenFile'.is = "absent" /\ OnlyLate'
  PROVE  SignInv'
<1> USE DEF SignInv
<1>1. CallbackRecords' = CallbackRecords /\ TokenFiles' = TokenFiles
      /\ RefreshRecords' = RefreshRecords
  BY DEF CallbackRecords, TokenFiles, RefreshRecords
<1>2. SignTypes'
  BY <1>1 DEF SignTypes
<1>3. SignFlags' /\ OutIsOut'
  <2>1. CASE signed' = "in"
    BY <2>1, Zenon DEF SignFlags, OutIsOut
  <2>2. CASE /\ signed' = signed
             /\ tokenFile.is = "absent" /\ OnlyLate => tokenFile'.is = "absent" /\ OnlyLate'
    BY <2>2, Zenon DEF SignFlags, OutIsOut
  <2> QED
    BY <2>1, <2>2
<1>4. VerifiersAreUsed'
  BY DEF VerifiersAreUsed
<1> QED
  BY <1>2, <1>3, <1>4

\* A step of the flows, which leaves the token alone.
LEMMA FlowsStep ==
  ASSUME SignInv, UNCHANGED <<callback, tokenVars, refresh, held, signGhosts>>,
         states' \in [AllFlows -> {"none", "fresh", "stale"}],
         login' \in {"none", "waits", "success", "failure"},
         \A f \in AllFlows : states'[f] # "none" => exchanged[f] = 0,
         login' = "success" => login = "success"
  PROVE  SignInv'
<1> USE DEF SignInv
<1>1. TokensAreReal'
  BY DEF TokensAreReal, tokenVars
<1>2. OnlyLate => OnlyLate'
  BY DEF OnlyLate, signGhosts
<1>3. \A c \in Callbacks : callback'[c].step # "idle" => exchanged[callback'[c].flow] = 1
  BY DEF VerifiersAreUsed
<1>4. login' = "success" => exchanged[Login] = 1 /\ Login \in tokenKept'
  BY DEF VerifiersAreUsed, signGhosts
<1> QED
  BY <1>1, <1>2, <1>3, <1>4, NoTokenIssued DEF SignTypes, tokenVars, signGhosts

LEMMA StartFlowKeeps ==
  ASSUME SignInv, NEW f \in AllFlows, StartFlow(f)  PROVE SignInv'
<1> USE SignNumbers DEF SignInv
<1>1. /\ states[f] = "none" /\ exchanged[f] = 0 /\ states' = [states EXCEPT ![f] = "fresh"]
      /\ UNCHANGED <<callback, tokenVars, refresh, held, signGhosts>>
      /\ login' \in {login, "waits"}
  BY DEF StartFlow
<1>2. states' \in [AllFlows -> {"none", "fresh", "stale"}]
      /\ \A g \in AllFlows : states'[g] # "none" => exchanged[g] = 0
  BY <1>1 DEF SignTypes, VerifiersAreUsed
<1>3. login' \in {"none", "waits", "success", "failure"}
      /\ (login' = "success" => login = "success")
  BY <1>1 DEF SignTypes
<1> QED
  BY <1>1, <1>2, <1>3, FlowsStep

LEMMA StateAgesKeeps ==
  ASSUME SignInv, NEW f \in AllFlows, StateAges(f)  PROVE SignInv'
<1> USE SignNumbers DEF SignInv
<1>1. /\ states[f] # "none"
      /\ states' = [states EXCEPT ![f] = "stale"] \/ states' = [states EXCEPT ![f] = "none"]
      /\ UNCHANGED <<callback, login, tokenVars, refresh, held, signGhosts>>
  BY DEF StateAges
<1>2. states' \in [AllFlows -> {"none", "fresh", "stale"}]
      /\ \A g \in AllFlows : states'[g] # "none" => exchanged[g] = 0
  BY <1>1 DEF SignTypes, VerifiersAreUsed
<1> QED
  BY <1>1, <1>2, FlowsStep DEF SignTypes

LEMMA LoginFailsKeeps ==
  ASSUME SignInv, CallbackStray \/ LoginTimesOut  PROVE SignInv'
<1> USE SignNumbers DEF SignInv
<1>1. /\ states' = states \/ states' = [states EXCEPT ![Login] = "none"]
      /\ UNCHANGED <<callback, tokenVars, refresh, held, signGhosts>>
      /\ login' = "failure"
  BY DEF CallbackStray, LoginTimesOut
<1>2. states' \in [AllFlows -> {"none", "fresh", "stale"}]
      /\ \A g \in AllFlows : states'[g] # "none" => exchanged[g] = 0
  BY <1>1 DEF SignTypes, VerifiersAreUsed
<1> QED
  BY <1>1, <1>2, FlowsStep

\* A callback ends, one of the command's too, or is forgotten with its process.
LEMMA CallbacksEnd ==
  ASSUME SignInv, UNCHANGED <<login, signGhosts, issued, outdated, tokenFile>>,
         callback' \in [Callbacks -> CallbackRecords],
         \A c \in Callbacks : callback'[c] \in {callback[c], NoCallback},
         states' \in [AllFlows -> {"none", "fresh", "stale"}],
         \A f \in AllFlows : states'[f] \in {states[f], "none"},
         refresh' \in {refresh, NoRefresh}, held' \in {held, 0}
  PROVE  SignInv'
<1> USE SignNumbers DEF SignInv
<1>1. issued \in Nat /\ NoRefresh \in RefreshRecords
  BY AtRestRecords DEF SignTypes, RefreshRecords
<1>2. refresh' \in RefreshRecords /\ held' \in 0..issued
  BY <1>1 DEF SignTypes
<1>3. TokensAreReal'
  BY DEF TokensAreReal
<1>4. OnlyLate => OnlyLate'
  BY DEF OnlyLate, signGhosts
<1>5. \A c \in Callbacks : callback'[c].step # "idle" => exchanged[callback'[c].flow] = 1
  BY DEF VerifiersAreUsed
<1>6. \A f \in AllFlows : states'[f] # "none" => exchanged[f] = 0
  BY DEF VerifiersAreUsed
<1>7. login' = "success" => exchanged[Login] = 1 /\ Login \in tokenKept'
  BY DEF VerifiersAreUsed, signGhosts
<1> QED
  BY <1>2, <1>3, <1>4, <1>5, <1>6, <1>7, NoTokenIssued DEF SignTypes, signGhosts

LEMMA EndsKeep ==
  ASSUME SignInv, LoginEnds \/ SignInCrash  PROVE SignInv'
<1> USE SignNumbers DEF SignInv
<1>1. issued \in Nat /\ NoCallback \in CallbackRecords
  BY AtRestRecords DEF SignTypes, CallbackRecords
<1>2. /\ UNCHANGED <<login, signGhosts, issued, outdated, tokenFile>>
      /\ refresh' \in {refresh, NoRefresh} /\ held' \in {held, 0}
  BY DEF LoginEnds, SignInCrash, tokenVars
<1>3. /\ callback' \in [Callbacks -> CallbackRecords]
      /\ \A c \in Callbacks : callback'[c] \in {callback[c], NoCallback}
  BY <1>1 DEF LoginEnds, SignInCrash, SignTypes
<1>4. /\ states' \in [AllFlows -> {"none", "fresh", "stale"}]
      /\ \A f \in AllFlows : states'[f] \in {states[f], "none"}
  BY DEF LoginEnds, SignInCrash, SignTypes
<1> QED
  BY <1>2, <1>3, <1>4, CallbacksEnd

LEMMA CallbackBeginsKeeps ==
  ASSUME SignInv, NEW c \in Callbacks, NEW f \in AllFlows, CallbackBegins(c, f)
  PROVE  SignInv'
<1> USE SignNumbers DEF SignInv
<1>1. /\ callback[c].step = "idle" /\ states' = [states EXCEPT ![f] = "none"]
      /\ UNCHANGED <<tokenVars, refresh, held>>
  BY DEF CallbackBegins, Consumed
<1>2. /\ states' \in [AllFlows -> {"none", "fresh", "stale"}]
      /\ \A g \in AllFlows : states'[g] # "none" => g # f /\ exchanged[g] = 0
  BY <1>1 DEF SignTypes, VerifiersAreUsed
<1>3. CASE states[f] # "fresh"
  <2>1. /\ login' \in {login, "failure"}
        /\ UNCHANGED <<callback, signGhosts>>
    BY <1>3 DEF CallbackBegins, LoginResult
  <2>2. login' \in {"none", "waits", "success", "failure"}
        /\ (login' = "success" => login = "success")
    BY <2>1 DEF SignTypes
  <2> QED
    BY <1>1, <1>2, <2>1, <2>2, FlowsStep
<1>4. CASE states[f] = "fresh"
  <2> DEFINE new == [step |-> "exchange", flow |-> f, token |-> 0]
  <2>1. /\ callback' = [callback EXCEPT ![c] = new]
        /\ exchanged' = [exchanged EXCEPT ![f] = @ + 1] /\ UNCHANGED login
        /\ exchanged[f] = 0
    BY <1>4 DEF CallbackBegins, VerifiersAreUsed
  <2>2. signed' = "in" /\ late' = late /\ tokenKept' = tokenKept
    BY <1>4 DEF CallbackBegins
  <2>3. issued \in Nat /\ new \in CallbackRecords
    BY DEF SignTypes, CallbackRecords
  <2>4. /\ exchanged' \in [AllFlows -> {0, 1}] /\ exchanged'[f] = 1
        /\ \A g \in AllFlows \ {f} : exchanged'[g] = exchanged[g]
    BY <2>1 DEF SignTypes
  <2>5. /\ callback' \in [Callbacks -> CallbackRecords] /\ callback'[c] = new
        /\ \A d \in Callbacks \ {c} : callback'[d] = callback[d]
    BY <2>1, <2>3 DEF SignTypes
  <2>6. CallbackRecords' = CallbackRecords /\ TokenFiles' = TokenFiles
        /\ RefreshRecords' = RefreshRecords
    BY <1>1 DEF CallbackRecords, TokenFiles, RefreshRecords, tokenVars
  <2>7. SignTypes'
    BY <1>1, <1>2, <2>1, <2>2, <2>4, <2>5, <2>6 DEF SignTypes, tokenVars
  <2>8. SignFlags'
    BY <2>2, Zenon DEF SignFlags
  <2>9. OutIsOut'
    BY <2>2, Zenon DEF OutIsOut
  <2>10. TokensAreReal'
    BY <1>1, <2>5 DEF TokensAreReal, tokenVars
  <2>11. \A d \in Callbacks : callback'[d].step # "idle" => exchanged'[callback'[d].flow] = 1
    <3> SUFFICES ASSUME NEW d \in Callbacks, callback'[d].step # "idle"
                 PROVE  exchanged'[callback'[d].flow] = 1
      OBVIOUS
    <3>1. CASE d = c
      BY <2>4, <2>5, <3>1
    <3>2. CASE d # c
      <4>1. callback'[d] = callback[d] /\ callback[d].flow \in AllFlows
        BY <2>5, <3>2 DEF SignTypes, CallbackRecords
      <4> QED
        BY <2>4, <4>1 DEF VerifiersAreUsed
    <3> QED
      BY <3>1, <3>2
  <2>12. VerifiersAreUsed'
    BY <1>2, <2>1, <2>2, <2>4, <2>11 DEF VerifiersAreUsed
  <2> QED
    BY <2>7, <2>8, <2>9, <2>10, <2>12
<1> QED
  BY <1>3, <1>4

\* One more token.
LEMMA TokenIssued ==
  ASSUME SignInv, issued < MaxTokens, issued' = issued + 1,
         UNCHANGED <<states, login, tokenFile, outdated, held, signGhosts>>,
         \/ /\ refresh' = refresh
            /\ \E c \in Callbacks :
                 /\ callback[c].step = "exchange"
                 /\ callback' = [callback EXCEPT ![c].step = "open", ![c].token = issued']
         \/ /\ callback' = callback /\ refresh.step = "ask"
            /\ refresh' = [step |-> "open", token |-> issued']
  PROVE  SignInv'
<1> USE SignNumbers DEF SignInv
<1>1. /\ issued' \in 1..MaxTokens /\ issued \in Nat /\ issued' \in 1..issued'
      /\ \A n \in 0..issued : n \in 0..issued' /\ \A m \in 1..issued : m \in 1..issued'
  BY DEF SignTypes
<1>2. /\ CallbackRecords \subseteq CallbackRecords' /\ TokenFiles \subseteq TokenFiles'
      /\ RefreshRecords \subseteq RefreshRecords'
  BY <1>1 DEF CallbackRecords, TokenFiles, RefreshRecords
<1>3. /\ callback' \in [Callbacks -> CallbackRecords'] /\ refresh' \in RefreshRecords'
      /\ \A c \in Callbacks :
           /\ callback'[c].flow = callback[c].flow
           /\ callback'[c].step # "idle" => callback[c].step # "idle"
           /\ callback'[c].step \in {"open", "fill"} =>
                callback'[c].token \in {callback[c].token, issued'}
                /\ (callback[c].step \notin {"open", "fill"} => callback'[c].token = issued')
      /\ refresh'.step # "idle" => refresh.step # "idle"
      /\ refresh'.step \in {"open", "fill"} =>
           (refresh.step \in {"open", "fill"} /\ refresh' = refresh) \/ refresh'.token = issued'
  <2>1. CASE /\ refresh' = refresh
             /\ \E c \in Callbacks :
                  /\ callback[c].step = "exchange"
                  /\ callback' = [callback EXCEPT ![c].step = "open", ![c].token = issued']
    <3>1. PICK c \in Callbacks :
            /\ callback[c].step = "exchange"
            /\ callback' = [callback EXCEPT ![c].step = "open", ![c].token = issued']
      BY <2>1
    <3> DEFINE new == [[callback[c] EXCEPT !.step = "open"] EXCEPT !.token = issued']
    <3>2. callback[c] \in CallbackRecords
      BY DEF SignTypes
    <3>a. issued' \in 0..issued' /\ callback[c].flow \in AllFlows
      BY <1>1, <3>2 DEF CallbackRecords
    <3>b. /\ new.flow = callback[c].flow /\ new.token = issued' /\ new.step = "open"
          /\ new \in [step : {"open"}, flow : AllFlows, token : {issued'}]
      BY <3>2 DEF CallbackRecords
    <3>c. [step : {"open"}, flow : AllFlows, token : {issued'}] \subseteq CallbackRecords'
      BY <3>a DEF CallbackRecords
    <3>3. /\ new \in CallbackRecords' /\ new.flow = callback[c].flow
          /\ new.token = issued' /\ new.step = "open"
      BY <3>a, <3>b, <3>c
    <3>4. callback' = [callback EXCEPT ![c] = new]
      BY <3>1 DEF SignTypes
    <3> HIDE DEF new
    <3>5. /\ callback' \in [Callbacks -> CallbackRecords'] /\ callback'[c] = new
          /\ \A d \in Callbacks \ {c} : callback'[d] = callback[d]
      BY <1>2, <3>3, <3>4 DEF SignTypes
    <3>6. \A d \in Callbacks :
           /\ callback'[d].flow = callback[d].flow
           /\ callback'[d].step # "idle" => callback[d].step # "idle"
           /\ callback'[d].step \in {"open", "fill"} =>
                callback'[d].token \in {callback[d].token, issued'}
                /\ (callback[d].step \notin {"open", "fill"} => callback'[d].token = issued')
      BY <3>1, <3>3, <3>5
    <3> QED
      BY <1>2, <2>1, <3>5, <3>6 DEF SignTypes
  <2>2. CASE /\ callback' = callback /\ refresh.step = "ask"
             /\ refresh' = [step |-> "open", token |-> issued']
    <3>1. refresh' \in RefreshRecords' /\ refresh'.token = issued'
      BY <1>1, <2>2 DEF RefreshRecords
    <3>2. callback' \in [Callbacks -> CallbackRecords']
      BY <1>2, <2>2 DEF SignTypes
    <3> QED
      BY <2>2, <3>1, <3>2
  <2> QED
    BY <2>1, <2>2
<1>4. held' \in 0..issued' /\ outdated' \subseteq 1..issued'
  BY <1>1 DEF SignTypes
<1>5. SignTypes'
  BY <1>1, <1>2, <1>3, <1>4 DEF SignTypes, signGhosts
<1>6. SignFlags'
  BY Zenon DEF SignFlags, signGhosts
<1>7. TokensAreReal'
  <2>1. tokenFile'.is = "whole" => tokenFile'.token \in 1..issued'
    BY <1>1 DEF TokensAreReal
  <2>2. refresh'.step \in {"open", "fill"} => refresh'.token \in 1..issued'
    BY <1>1, <1>3 DEF TokensAreReal
  <2>3. \A c \in Callbacks :
          callback'[c].step \in {"open", "fill"} => callback'[c].token \in 1..issued'
    BY <1>1, <1>3 DEF TokensAreReal
  <2> QED
    BY <2>1, <2>2, <2>3 DEF TokensAreReal
<1>8. VerifiersAreUsed'
  BY <1>3 DEF VerifiersAreUsed, signGhosts
<1>9. OnlyLate => OnlyLate'
  BY <1>3 DEF OnlyLate, signGhosts
<1>10. OutIsOut'
  BY <1>9, Zenon DEF OutIsOut, signGhosts
<1> QED
  BY <1>5, <1>6, <1>7, <1>8, <1>10

LEMMA ExchangeKeeps ==
  ASSUME SignInv, NEW c \in Callbacks, Exchange(c)  PROVE SignInv'
<1> USE SignNumbers DEF SignInv
<1>1. CASE /\ issued < MaxTokens /\ issued' = issued + 1
           /\ callback' = [callback EXCEPT ![c].step = "open", ![c].token = issued']
           /\ UNCHANGED login
  BY <1>1, TokenIssued DEF Exchange
<1>2. CASE /\ callback' = [callback EXCEPT ![c] = NoCallback]
           /\ login' = LoginResult(callback[c].flow, "failure") /\ UNCHANGED issued
  <2>1. issued \in Nat /\ NoCallback \in CallbackRecords
    BY AtRestRecords DEF SignTypes, CallbackRecords
  <2>2. /\ callback' \in [Callbacks -> CallbackRecords]
        /\ \A d \in Callbacks : callback'[d] \in {callback[d], NoCallback}
    BY <1>2, <2>1 DEF SignTypes
  <2>3. login' \in {login, "failure"}
    BY <1>2 DEF LoginResult
  <2>4. UNCHANGED <<states, tokenFile, outdated, refresh, held, exchanged, tokenKept, signed, late>>
    BY DEF Exchange, signGhosts
  <2>5. TokensAreReal'
    BY <1>2, <2>2, <2>4 DEF TokensAreReal
  <2>6. OnlyLate => OnlyLate'
    BY <2>2, <2>4, SignNumbers DEF OnlyLate
  <2>7. \A d \in Callbacks : callback'[d].step # "idle" => exchanged[callback'[d].flow] = 1
    BY <2>2 DEF VerifiersAreUsed
  <2>8. login' = "success" => exchanged[Login] = 1 /\ Login \in tokenKept'
    BY <2>3, <2>4 DEF VerifiersAreUsed
  <2>9. login' \in {"none", "waits", "success", "failure"}
    BY <2>3 DEF SignTypes
  <2>10. \A f \in AllFlows : states'[f] # "none" => exchanged[f] = 0
    BY <2>4 DEF VerifiersAreUsed
  <2> QED
    BY <1>2, <2>2, <2>4, <2>5, <2>6, <2>7, <2>8, <2>9, <2>10, NoTokenIssued DEF SignTypes
<1> QED
  BY <1>1, <1>2 DEF Exchange

\* One that writes the token: a callback or a provider.
LEMMA CallbackWrites ==
  ASSUME SignInv, NEW c \in Callbacks, callback[c].step # "idle",
         NEW new \in CallbackRecords, callback' = [callback EXCEPT ![c] = new],
         new.step \in {"idle", "fill"},
         new.step = "fill" => new.flow = callback[c].flow /\ new.token \in 1..issued,
         tokenFile' \in TokenFiles, tokenFile'.is = "whole" => tokenFile'.token \in 1..issued,
         UNCHANGED <<states, issued, outdated, refresh, held, exchanged, late>>,
         tokenKept' \in {tokenKept, tokenKept \cup {callback[c].flow}},
         login' \in {"none", "waits", "success", "failure"},
         login' = "success" => login = "success" \/ (callback[c].flow = Login /\ Login \in tokenKept'),
         \/ signed' = "in"
         \/ signed' = signed /\ (tokenFile.is = "absent" => tokenFile'.is = "absent")
  PROVE  SignInv'
<1> USE SignNumbers DEF SignInv
<1>1. /\ callback' \in [Callbacks -> CallbackRecords] /\ callback'[c] = new
      /\ \A d \in Callbacks \ {c} : callback'[d] = callback[d]
  BY DEF SignTypes
<1>2. TokensAreReal'
  BY <1>1 DEF TokensAreReal
<1>3. OnlyLate => OnlyLate'
  BY <1>1 DEF OnlyLate
<1>4. \A d \in Callbacks : callback'[d].step # "idle" => exchanged[callback'[d].flow] = 1
  BY <1>1 DEF VerifiersAreUsed
<1>5. login' = "success" => exchanged[Login] = 1 /\ Login \in tokenKept'
  BY DEF VerifiersAreUsed
<1>6. \A f \in AllFlows : states'[f] # "none" => exchanged[f] = 0
  BY DEF VerifiersAreUsed
<1>7. tokenKept \subseteq tokenKept' /\ tokenKept' \subseteq AllFlows
  BY DEF SignTypes, CallbackRecords
<1> QED
  BY <1>1, <1>2, <1>3, <1>4, <1>5, <1>6, <1>7, NoTokenIssued DEF SignTypes

LEMMA FilledTypes ==
  ASSUME SignInv, NEW n \in 1..issued, NEW file \in Filled(n) \cup HalfFilled(n)
  PROVE  /\ file \in TokenFiles
         /\ file.is = "whole" => file.token \in 1..issued
         /\ tokenFile.is = "absent" => file.is = "absent"
<1>1. n \in 0..issued /\ 0 \in 0..issued /\ tokenFile \in TokenFiles
      /\ (tokenFile.is = "whole" => tokenFile.token \in 1..issued)
  BY SignNumbers DEF SignInv, SignTypes, TokensAreReal
<1>2. /\ TokenFile("whole", n) \in TokenFiles /\ TokenFile("whole", n).token = n
      /\ TokenFile("empty", 0) \in TokenFiles /\ TokenFile("empty", 0).is = "empty"
  BY <1>1 DEF TokenFile, TokenFiles
<1>3. file = tokenFile \/ (tokenFile.is # "absent" /\ file \in {TokenFile("whole", n), TokenFile("empty", 0)})
  BY DEF Filled, HalfFilled
<1> QED
  BY <1>1, <1>2, <1>3

LEMMA CallbackOpensKeeps ==
  ASSUME SignInv, NEW c \in Callbacks, CallbackOpens(c)  PROVE SignInv'
<1> USE SignNumbers DEF SignInv
<1> DEFINE new == [callback[c] EXCEPT !.step = "fill"]
<1>1. callback[c] \in CallbackRecords /\ callback[c].step = "open"
  BY DEF SignTypes, CallbackOpens
<1>2. /\ new \in CallbackRecords /\ new.step = "fill" /\ new.flow = callback[c].flow
      /\ new.token = callback[c].token
  BY <1>1 DEF CallbackRecords
<1>3. callback[c].token \in 1..issued
  BY <1>1 DEF TokensAreReal
<1>4. /\ UNCHANGED <<states, issued, outdated, refresh, held, exchanged, tokenKept, late>>
      /\ \/ /\ tokenFile' = TokenFile("empty", 0) /\ callback' = [callback EXCEPT ![c].step = "fill"]
            /\ signed' = (IF c \in late THEN "in" ELSE signed) /\ login' = login
         \/ /\ callback' = [callback EXCEPT ![c] = NoCallback]
            /\ login' = LoginResult(callback[c].flow, "failure")
            /\ UNCHANGED <<tokenFile, signed>>
  BY DEF CallbackOpens
<1> HIDE DEF new
<1>5. CASE /\ tokenFile' = TokenFile("empty", 0) /\ callback' = [callback EXCEPT ![c].step = "fill"]
           /\ signed' = (IF c \in late THEN "in" ELSE signed) /\ login' = login
  <2>1. tokenFile' \in TokenFiles /\ tokenFile'.is = "empty"
    BY <1>5, AtRestRecords DEF TokenFile, TokenFiles, SignTypes
  <2>2. signed = "out" => c \in late
    BY <1>1 DEF OutIsOut, OnlyLate
  <2>3. signed' = "in"
    BY <1>5, <2>2 DEF SignFlags
  <2>4. callback' = [callback EXCEPT ![c] = new]
    BY <1>5 DEF SignTypes, new
  <2>5. UNCHANGED <<states, issued, outdated, refresh, held, exchanged, tokenKept, late, login>>
    BY <1>4, <1>5
  <2>6. /\ callback[c].step # "idle" /\ new.token \in 1..issued
        /\ tokenFile'.is = "whole" => tokenFile'.token \in 1..issued
        /\ login' \in {"none", "waits", "success", "failure"}
    BY <1>1, <1>2, <1>3, <2>1, <2>5 DEF SignTypes
  <2> QED
    BY <1>2, <2>1, <2>3, <2>4, <2>5, <2>6, CallbackWrites
<1>6. CASE /\ callback' = [callback EXCEPT ![c] = NoCallback]
           /\ login' = LoginResult(callback[c].flow, "failure")
           /\ UNCHANGED <<tokenFile, signed>>
  <2>1. issued \in Nat /\ NoCallback \in CallbackRecords
    BY AtRestRecords DEF SignTypes, CallbackRecords
  <2>2. login' \in {login, "failure"}
    BY <1>6 DEF LoginResult
  <2>3. tokenFile' \in TokenFiles /\ (tokenFile'.is = "whole" => tokenFile'.token \in 1..issued)
    BY <1>6 DEF SignTypes, TokensAreReal
  <2> QED
    BY <1>1, <1>4, <1>6, <2>1, <2>2, <2>3, CallbackWrites DEF SignTypes
<1> QED
  BY <1>4, <1>5, <1>6

LEMMA CallbackFillsKeeps ==
  ASSUME SignInv, NEW c \in Callbacks, CallbackFills(c)  PROVE SignInv'
<1> USE SignNumbers DEF SignInv
<1>1. issued \in Nat /\ NoCallback \in CallbackRecords
  BY AtRestRecords DEF SignTypes, CallbackRecords
<1>2. callback[c].step = "fill" /\ callback[c].token \in 1..issued
  BY DEF CallbackFills, TokensAreReal
<1>3. /\ tokenFile' \in TokenFiles
      /\ tokenFile'.is = "whole" => tokenFile'.token \in 1..issued
      /\ tokenFile.is = "absent" => tokenFile'.is = "absent"
  <2>1. tokenFile' \in Filled(callback[c].token) \cup HalfFilled(callback[c].token)
    BY DEF CallbackFills
  <2> QED
    BY <1>2, <2>1, FilledTypes
<1>4. /\ login' \in {"none", "waits", "success", "failure"}
      /\ tokenKept' \in {tokenKept, tokenKept \cup {callback[c].flow}}
      /\ login' = "success" => login = "success" \/ (callback[c].flow = Login /\ Login \in tokenKept')
  BY DEF CallbackFills, LoginResult, SignTypes
<1>5. /\ UNCHANGED <<states, issued, outdated, refresh, held, exchanged, signed, late>>
      /\ callback' = [callback EXCEPT ![c] = NoCallback]
  BY DEF CallbackFills
<1> QED
  BY <1>1, <1>2, <1>3, <1>4, <1>5, CallbackWrites

LEMMA SignOutKeeps ==
  ASSUME SignInv, SignOut  PROVE SignInv'
<1> USE SignNumbers DEF SignInv
<1>1. /\ UNCHANGED <<states, callback, login, issued, outdated, refresh, held, exchanged, tokenKept>>
      /\ tokenFile' = TokenFile("absent", 0)
  BY DEF SignOut
<1>2. tokenFile' \in TokenFiles /\ tokenFile'.is = "absent"
  BY <1>1, AtRestRecords DEF TokenFile, TokenFiles, SignTypes
<1>3. CallbackRecords' = CallbackRecords /\ TokenFiles' = TokenFiles
      /\ RefreshRecords' = RefreshRecords
  BY <1>1 DEF CallbackRecords, TokenFiles, RefreshRecords
<1>4. late' = UnderWay /\ UnderWay \subseteq Callbacks \cup {"refresh"}
  BY DEF SignOut, UnderWay
<1>5. SignTypes'
  BY <1>1, <1>2, <1>3, <1>4 DEF SignTypes
<1>6. TokensAreReal' /\ VerifiersAreUsed'
  BY <1>1, <1>2 DEF TokensAreReal, VerifiersAreUsed
<1>7. OnlyLate'
  BY <1>1, <1>4 DEF UnderWay, OnlyLate
<1>8. signed' = "out"
  BY DEF SignOut
<1>9. OutIsOut' /\ SignFlags'
  BY <1>2, <1>7, <1>8, Zenon DEF OutIsOut, SignFlags
<1> QED
  BY <1>5, <1>6, <1>9

\* A step of the token, with the callbacks and the flows as they are.
LEMMA TokenStep ==
  ASSUME SignInv, UNCHANGED <<states, callback, login, issued, exchanged, tokenKept, late>>,
         tokenFile' \in TokenFiles, tokenFile'.is = "whole" => tokenFile'.token \in 1..issued,
         refresh' \in RefreshRecords,
         refresh'.step \in {"open", "fill"} => refresh'.token \in 1..issued,
         held' \in 0..issued, outdated' \subseteq 1..issued,
         \/ signed' = "in"
         \/ /\ signed' = signed
            /\ tokenFile.is = "absent" => tokenFile'.is = "absent"
            /\ tokenFile.is = "absent" /\ refresh'.step # "idle" => refresh.step # "idle"
  PROVE  SignInv'
<1> USE SignNumbers DEF SignInv
<1>1. TokensAreReal'
  BY DEF TokensAreReal
<1>2. \/ signed' = "in"
      \/ /\ signed' = signed
         /\ tokenFile.is = "absent" /\ OnlyLate => tokenFile'.is = "absent" /\ OnlyLate'
  BY DEF OnlyLate
<1>3. /\ \A d \in Callbacks : callback'[d].step # "idle" => exchanged[callback'[d].flow] = 1
      /\ login' = "success" => exchanged[Login] = 1 /\ Login \in tokenKept'
      /\ \A f \in AllFlows : states'[f] # "none" => exchanged[f] = 0
  BY DEF VerifiersAreUsed
<1> QED
  BY <1>1, <1>2, <1>3, NoTokenIssued DEF SignTypes

LEMMA TokenStepsKeep ==
  ASSUME SignInv, TokenExpires \/ ReadToken \/ RefreshOpens \/ RefreshFills
  PROVE  SignInv'
<1> USE SignNumbers DEF SignInv
<1>0. /\ issued \in Nat /\ refresh \in RefreshRecords /\ tokenFile \in TokenFiles
      /\ held \in 0..issued /\ outdated \subseteq 1..issued
      /\ NoRefresh \in RefreshRecords /\ 0 \in 0..issued
      /\ TokenFile("empty", 0) \in TokenFiles /\ TokenFile("empty", 0).is = "empty"
  BY AtRestRecords DEF SignTypes, RefreshRecords, TokenFiles, TokenFile
<1>1. CASE TokenExpires
  <2>1. outdated' \subseteq 1..issued
    BY <1>1, <1>0 DEF TokenExpires, TokensAreReal
  <2> QED
    BY <1>0, <1>1, <2>1, TokenStep DEF TokenExpires, TokensAreReal, signGhosts
<1>2. CASE ReadToken
  <2>1. /\ UNCHANGED <<states, callback, login, tokenVars, signGhosts>>
        /\ refresh.step = "idle" /\ held' \in {held, 0, tokenFile.token}
        /\ \/ UNCHANGED refresh
           \/ /\ tokenFile.is = "whole"
              /\ refresh' = [step |-> "ask", token |-> tokenFile.token]
    BY <1>2 DEF ReadToken
  <2>2. refresh' \in RefreshRecords /\ refresh'.step \in {"idle", "ask"}
    BY <1>0, <2>1 DEF RefreshRecords, TokenFiles
  <2>3. held' \in 0..issued
    BY <1>0, <2>1 DEF TokenFiles
  <2> QED
    BY <1>0, <2>1, <2>2, <2>3, TokenStep DEF tokenVars, TokensAreReal, signGhosts
<1>3. CASE RefreshOpens
  <2>1. /\ UNCHANGED <<states, callback, login, issued, outdated, exchanged, tokenKept, late>>
        /\ refresh.step = "open" /\ refresh.token \in 1..issued
    BY <1>3 DEF RefreshOpens, TokensAreReal
  <2>2. CASE /\ tokenFile' = TokenFile("empty", 0) /\ refresh' = [refresh EXCEPT !.step = "fill"]
             /\ signed' = (IF "refresh" \in late THEN "in" ELSE signed) /\ held' = held
    <3>1. refresh' \in RefreshRecords /\ refresh'.token = refresh.token
      BY <1>0, <2>2 DEF RefreshRecords
    <3>2. signed = "out" => "refresh" \in late
      BY <2>1 DEF OutIsOut, OnlyLate
    <3>3. signed' = "in"
      BY <2>2, <3>2 DEF SignFlags
    <3> QED
      BY <1>0, <2>1, <2>2, <3>1, <3>3, TokenStep
  <2>3. CASE /\ held' = refresh.token /\ refresh' = NoRefresh
             /\ UNCHANGED <<tokenFile, signed>>
    <3>1. held' \in 0..issued
      BY <1>0, <2>1, <2>3
    <3> QED
      BY <1>0, <2>1, <2>3, <3>1, TokenStep DEF TokensAreReal
  <2> QED
    BY <1>3, <2>2, <2>3 DEF RefreshOpens
<1>4. CASE RefreshFills
  <2>1. /\ UNCHANGED <<states, callback, login, issued, outdated, signGhosts>>
        /\ refresh.step = "fill"
        /\ tokenFile' \in Filled(refresh.token) \cup HalfFilled(refresh.token)
        /\ refresh' = NoRefresh /\ held' = refresh.token
    BY <1>4 DEF RefreshFills
  <2>2. refresh.token \in 1..issued
    BY <2>1 DEF TokensAreReal
  <2>3. /\ tokenFile' \in TokenFiles
        /\ tokenFile'.is = "whole" => tokenFile'.token \in 1..issued
        /\ tokenFile.is = "absent" => tokenFile'.is = "absent"
    BY <2>1, <2>2, FilledTypes
  <2>4. held' \in 0..issued /\ refresh' \in RefreshRecords /\ refresh'.step = "idle"
    BY <1>0, <2>1, <2>2
  <2>5. outdated' \subseteq 1..issued
    BY <1>0, <2>1
  <2> QED
    BY <2>1, <2>3, <2>4, <2>5, TokenStep DEF signGhosts
<1> QED
  BY <1>1, <1>2, <1>3, <1>4

LEMMA AskRefreshKeeps ==
  ASSUME SignInv, AskRefresh  PROVE SignInv'
<1> USE SignNumbers DEF SignInv
<1>1. CASE /\ issued < MaxTokens /\ issued' = issued + 1
           /\ refresh' = [step |-> "open", token |-> issued'] /\ UNCHANGED held
  BY <1>1, TokenIssued DEF AskRefresh
<1>2. CASE held' = refresh.token /\ refresh' = NoRefresh /\ UNCHANGED issued
  <2>1. issued \in Nat /\ NoRefresh \in RefreshRecords
    BY AtRestRecords DEF SignTypes, RefreshRecords
  <2>2. held' \in 0..issued
    BY <1>2 DEF SignTypes, RefreshRecords
  <2> QED
    BY <1>2, <2>1, <2>2, TokenStep DEF AskRefresh, SignTypes, TokensAreReal, signGhosts
<1> QED
  BY <1>1, <1>2 DEF AskRefresh

LEMMA SigningRests ==
  ASSUME SignInv, UNCHANGED signVars  PROVE SignInv'
<1> USE DEF SignInv
<1>1. UNCHANGED <<callback, tokenVars, refresh, held, signGhosts, states, login>>
  BY DEF signVars
<1>2. \A f \in AllFlows : states'[f] # "none" => exchanged[f] = 0
  BY <1>1 DEF VerifiersAreUsed
<1> QED
  BY <1>1, <1>2, FlowsStep DEF SignTypes

LEMMA SignStep == SignInv /\ [SignNext]_signVars => SignInv'
<1> SUFFICES ASSUME SignInv, [SignNext]_signVars PROVE SignInv'
  OBVIOUS
<1>1. CASE \E f \in AllFlows : StartFlow(f) \/ StateAges(f)
  BY <1>1, StartFlowKeeps, StateAgesKeeps
<1>2. CASE \E c \in Callbacks :
             \/ \E f \in AllFlows : CallbackBegins(c, f)
             \/ Exchange(c)
             \/ CallbackOpens(c)
             \/ CallbackFills(c)
  BY <1>2, CallbackBeginsKeeps, ExchangeKeeps, CallbackOpensKeeps, CallbackFillsKeeps
<1>3. CASE CallbackStray \/ LoginTimesOut
  BY <1>3, LoginFailsKeeps
<1>4. CASE LoginEnds \/ SignInCrash
  BY <1>4, EndsKeep
<1>5. CASE SignOut
  BY <1>5, SignOutKeeps
<1>6. CASE TokenExpires \/ ReadToken \/ RefreshOpens \/ RefreshFills
  BY <1>6, TokenStepsKeep
<1>7. CASE AskRefresh
  BY <1>7, AskRefreshKeeps
<1>8. CASE UNCHANGED signVars
  BY <1>8, SigningRests
<1> QED
  BY <1>1, <1>2, <1>3, <1>4, <1>5, <1>6, <1>7, <1>8, Zenon DEF SignNext

LEMMA SignHolds == SignInv => SignInIsOnce /\ SignTypeOK
<1> SUFFICES ASSUME SignInv PROVE SignInIsOnce /\ SignTypeOK
  OBVIOUS
<1> USE DEF SignInv
<1>1. \A f \in AllFlows : exchanged[f] <= 1
  BY DEF SignTypes
<1>2. SignInIsOnce
  BY <1>1, Zenon DEF SignInIsOnce, OutIsOut, VerifiersAreUsed
<1>3. signed \in {"in", "out"}
  BY Zenon DEF SignFlags
<1>4. \A c \in Callbacks :
       /\ callback[c].step \in {"idle", "exchange", "open", "fill"}
       /\ callback[c].flow \in AllFlows /\ callback[c].token \in 0..issued
  BY DEF SignTypes, CallbackRecords
<1>5. /\ tokenFile.is \in {"absent", "empty", "whole"} /\ tokenFile.token \in 0..issued
      /\ refresh.step \in {"idle", "ask", "open", "fill"} /\ refresh.token \in 0..issued
  BY DEF SignTypes, TokenFiles, RefreshRecords
<1>6. SignTypeOK
  BY <1>3, <1>4, <1>5 DEF SignTypes, SignTypeOK
<1> QED
  BY <1>2, <1>6

-----------------------------------------------------------------------------
(* The allowlist.                                                          *)

EditorRecords ==
  [step : {"idle", "snapshot", "open", "fill", "rename"}, senders : SUBSET Senders,
   fd : {"closed", "temp", "file", "gone"}]

ListFiles == [is : {"absent", "empty", "whole", "mixed"}, senders : SUBSET Senders]

SenderTypes ==
  /\ allowed \subseteq Senders /\ decided \subseteq Senders
  /\ allowAll \in BOOLEAN /\ aside \in BOOLEAN /\ raced \in BOOLEAN
  /\ listFile \in ListFiles /\ listTemp \in ListFiles
  /\ editor \in [Everyone -> EditorRecords] /\ decisions \in 0..MaxDecisions

\* Without a race one change is under way at most.  It is the last decision, and so is
\* what it saves, in memory, in the temporary file and at last in the file.
OneChange == \A e, f \in Everyone : editor[e].step # "idle" /\ editor[f].step # "idle" => e = f

ChangeOf(e) ==
  /\ editor[e].step \in {"open", "fill", "rename"} => editor[e].senders = decided
  /\ editor[e].step = "fill" => editor[e].fd = "temp" /\ listTemp.is = "empty"
  /\ editor[e].step = "rename" => listTemp.senders = decided
  /\ editor[e].step # "idle" /\ e \in Editors => ~aside
  /\ editor[e].step = "snapshot" => e \in Editors

ListIsDecided ==
  ~raced =>
    /\ OneChange /\ \A e \in Everyone : ChangeOf(e)
    /\ ~aside => allowed = decided
    /\ NoEdits => listFile.senders = decided

SenderInv == SenderTypes /\ ListIsDecided

LEMMA SenderNumbers ==
  /\ MaxDecisions \in Nat /\ CLI \notin Editors /\ CLI \in Everyone
  /\ AtRest \in EditorRecords /\ AtRest.step = "idle"
  /\ Editors = Everyone \ {CLI}
BY SenderAssumption DEF Everyone, AtRest, EditorRecords

LEMMA SenderStarts == SenderInit => SenderInv
<1> SUFFICES ASSUME SenderInit PROVE SenderInv
  OBVIOUS
<1>1. allowAll \in BOOLEAN /\ aside \in BOOLEAN /\ raced \in BOOLEAN
  BY Zenon DEF SenderInit
<1>2. SenderTypes
  BY <1>1, SenderNumbers DEF SenderInit, SenderTypes, ListFile, ListFiles
<1>3. ListIsDecided
  BY SenderNumbers DEF SenderInit, ListIsDecided, OneChange, ChangeOf, NoEdits, ListFile
<1> QED
  BY <1>2, <1>3 DEF SenderInv

\* An editor that starts a change.
LEMMA DecisionKeeps ==
  ASSUME SenderInv, NEW e \in Everyone, NEW s \in Senders, NEW approve \in BOOLEAN,
         Decide(e, s, approve), NEW new \in EditorRecords,
         editor' = [editor EXCEPT ![e] = new],
         raced' \in BOOLEAN, ~raced' => ~raced /\ NoEdits,
         aside' \in BOOLEAN,
         \/ /\ e \in Editors /\ new.step = "snapshot" /\ (~raced' => ~aside')
            /\ allowed' = WithDecision(allowed, s, approve) /\ aside' = aside
         \/ /\ e = CLI /\ new.step = "open" /\ aside' /\ UNCHANGED allowed
            /\ new.senders = WithDecision(listFile.senders, s, approve)
  PROVE  SenderInv'
<1> USE DEF SenderInv
<1>1. /\ decisions' \in 0..MaxDecisions /\ decided' = WithDecision(decided, s, approve)
      /\ UNCHANGED <<allowAll, listFile, listTemp>>
  BY SenderNumbers DEF Decide, SenderTypes
<1>2. /\ editor' \in [Everyone -> EditorRecords] /\ editor'[e] = new
      /\ \A f \in Everyone \ {e} : editor'[f] = editor[f]
  BY DEF SenderTypes
<1>3. decided' \subseteq Senders /\ allowed' \subseteq Senders
  BY <1>1 DEF WithDecision, SenderTypes
<1>4. SenderTypes'
  BY <1>1, <1>2, <1>3 DEF SenderTypes
<1>5. ASSUME ~raced'
      PROVE  /\ OneChange' /\ \A f \in Everyone : ChangeOf(f)'
             /\ ~aside' => allowed' = decided'
             /\ NoEdits' => listFile'.senders = decided'
  <2>0. ~raced /\ NoEdits /\ new.step \in {"snapshot", "open"}
    BY <1>5
  <2>1. /\ \A f \in Everyone \ {e} : editor'[f].step = "idle"
        /\ editor'[e].step # "idle"
    BY <1>2, <2>0 DEF NoEdits
  <2>2. OneChange' /\ ~NoEdits'
    BY <2>1 DEF OneChange, NoEdits
  <2>3. \A f \in Everyone \ {e} : ChangeOf(f)'
    BY <2>1 DEF ChangeOf
  <2>4. listFile.senders = decided /\ (~aside => allowed = decided)
    BY <1>5 DEF ListIsDecided
  <2>5. ChangeOf(e)' /\ (~aside' => allowed' = decided')
    <3>1. CASE e \in Editors /\ new.step = "snapshot"
      <4>1. ~aside /\ ~aside' /\ allowed' = WithDecision(allowed, s, approve)
        BY <1>5, <3>1, SenderNumbers
      <4> QED
        BY <1>1, <1>2, <2>4, <3>1, <4>1 DEF ChangeOf
    <3>2. CASE e = CLI /\ new.step = "open"
      <4>1. aside' /\ new.senders = WithDecision(listFile.senders, s, approve)
        BY <3>2, SenderNumbers
      <4> QED
        BY <1>1, <1>2, <2>4, <3>2, <4>1, SenderNumbers DEF ChangeOf
    <3> QED
      BY <3>1, <3>2
  <2> QED
    BY <2>2, <2>3, <2>5
<1> QED
  BY <1>4, <1>5 DEF ListIsDecided

\* A change takes its next step.
LEMMA ChangeGoesOn ==
  ASSUME SenderInv, NEW e \in Everyone, NEW new \in EditorRecords,
         editor' = [editor EXCEPT ![e] = new],
         editor[e].step # "idle", new.step # "idle",
         UNCHANGED <<allowed, allowAll, decisions, decided, aside, raced>>,
         listFile' \in ListFiles, listTemp' \in ListFiles,
         ~raced => ChangeOf(e)'
  PROVE  SenderInv'
<1> USE DEF SenderInv
<1>1. /\ editor' \in [Everyone -> EditorRecords] /\ editor'[e] = new
      /\ \A f \in Everyone \ {e} : editor'[f] = editor[f]
  BY DEF SenderTypes
<1>2. SenderTypes'
  BY <1>1 DEF SenderTypes
<1>3. ASSUME ~raced
      PROVE  /\ OneChange' /\ \A f \in Everyone : ChangeOf(f)'
             /\ ~aside => allowed = decided
             /\ ~NoEdits'
  <2>1. \A f \in Everyone \ {e} : editor[f].step = "idle"
    BY <1>3 DEF ListIsDecided, OneChange
  <2>2. OneChange' /\ ~NoEdits'
    BY <1>1, <2>1 DEF OneChange, NoEdits
  <2>3. \A f \in Everyone \ {e} : ChangeOf(f)'
    BY <1>1, <2>1 DEF ChangeOf
  <2> QED
    BY <1>3, <2>2, <2>3 DEF ListIsDecided
<1> QED
  BY <1>2, <1>3 DEF ListIsDecided

LEMMA ApproveKeeps ==
  ASSUME SenderInv, NEW e \in Editors, NEW s \in Senders, NEW approve \in BOOLEAN,
         ApproveOrRevoke(e, s, approve)
  PROVE  SenderInv'
<1> DEFINE new == [editor[e] EXCEPT !.step = "snapshot"]
<1>1. e \in Everyone /\ editor[e] \in EditorRecords
  BY SenderNumbers DEF SenderInv, SenderTypes
<1>2. new \in EditorRecords /\ new.step = "snapshot"
  BY <1>1 DEF EditorRecords
<1>3. /\ Decide(e, s, approve) /\ editor' = [editor EXCEPT ![e] = new]
      /\ allowed' = WithDecision(allowed, s, approve) /\ aside' = aside
      /\ raced' = (raced \/ ~NoEdits \/ aside)
  BY DEF ApproveOrRevoke
<1>4. /\ raced' \in BOOLEAN /\ aside' \in BOOLEAN
      /\ ~raced' => ~raced /\ NoEdits /\ ~aside'
  BY <1>3, Zenon DEF SenderInv, SenderTypes
<1> HIDE DEF new
<1> QED
  BY <1>1, <1>2, <1>3, <1>4, DecisionKeeps

LEMMA AllowCmdKeeps ==
  ASSUME SenderInv, NEW s \in Senders, NEW approve \in BOOLEAN, RunAllowCmd(s, approve)
  PROVE  SenderInv'
<1> DEFINE to == WithDecision(listFile.senders, s, approve)
           new == [editor[CLI] EXCEPT !.step = "open", !.senders = to]
<1>1. CLI \in Everyone /\ editor[CLI] \in EditorRecords
  BY SenderNumbers DEF SenderInv, SenderTypes
<1>2. to \subseteq Senders
  BY DEF WithDecision, SenderInv, SenderTypes, ListFiles
<1>3. new \in EditorRecords /\ new.step = "open" /\ new.senders = to
  BY <1>1, <1>2 DEF EditorRecords
<1>4. /\ Decide(CLI, s, approve) /\ editor' = [editor EXCEPT ![CLI] = new]
      /\ UNCHANGED allowed /\ aside' = TRUE /\ raced' = (raced \/ ~NoEdits)
  BY DEF RunAllowCmd
<1>5. raced' \in BOOLEAN /\ aside' \in BOOLEAN /\ aside' /\ (~raced' => ~raced /\ NoEdits)
  BY <1>4, Zenon DEF SenderInv, SenderTypes
<1> HIDE DEF new
<1> QED
  BY <1>1, <1>3, <1>4, <1>5, DecisionKeeps

LEMMA SnapshotKeeps ==
  ASSUME SenderInv, NEW e \in Everyone, TakeSnapshot(e)
  PROVE  SenderInv'
<1> DEFINE new == [editor[e] EXCEPT !.step = "open", !.senders = allowed]
<1>1. /\ editor[e].step = "snapshot" /\ editor' = [editor EXCEPT ![e] = new]
      /\ UNCHANGED <<allowed, allowAll, listFile, listTemp, decisions, decided, aside, raced>>
      /\ editor[e] \in EditorRecords
  BY DEF TakeSnapshot, SenderInv, SenderTypes
<1>2. new \in EditorRecords /\ new.step = "open" /\ new.senders = allowed
  BY <1>1 DEF EditorRecords, SenderInv, SenderTypes
<1> HIDE DEF new
<1>3. editor'[e] = new
  BY <1>1, <1>2 DEF SenderInv, SenderTypes
<1>4. ~raced => ChangeOf(e)'
  BY <1>1, <1>2, <1>3 DEF SenderInv, ListIsDecided, ChangeOf
<1> QED
  BY <1>1, <1>2, <1>4, ChangeGoesOn DEF SenderInv, SenderTypes

LEMMA OpenKeeps ==
  ASSUME SenderInv, NEW e \in Everyone, OpenListTemp(e)
  PROVE  SenderInv'
<1> DEFINE new == [editor[e] EXCEPT !.step = "fill", !.fd = "temp"]
<1>1. /\ editor[e].step = "open" /\ editor' = [editor EXCEPT ![e] = new]
      /\ UNCHANGED <<allowed, allowAll, listFile, decisions, decided, aside, raced>>
      /\ editor[e] \in EditorRecords /\ listTemp' = ListFile("empty", {})
  BY DEF OpenListTemp, SenderInv, SenderTypes
<1>2. /\ new \in EditorRecords /\ new.step = "fill" /\ new.fd = "temp"
      /\ new.senders = editor[e].senders
  BY <1>1 DEF EditorRecords
<1> HIDE DEF new
<1>3. editor'[e] = new
  BY <1>1, <1>2 DEF SenderInv, SenderTypes
<1>4. listTemp' \in ListFiles /\ listTemp'.is = "empty"
  BY <1>1 DEF ListFile, ListFiles
<1>5. ~raced => ChangeOf(e)'
  BY <1>1, <1>2, <1>3, <1>4 DEF SenderInv, ListIsDecided, ChangeOf
<1> QED
  BY <1>1, <1>2, <1>4, <1>5, ChangeGoesOn DEF SenderInv, SenderTypes

LEMMA FillKeeps ==
  ASSUME SenderInv, NEW e \in Everyone, FillListTemp(e)
  PROVE  SenderInv'
<1> DEFINE new == [editor[e] EXCEPT !.step = "rename", !.fd = "closed"]
<1>1. /\ editor[e].step = "fill" /\ editor' = [editor EXCEPT ![e] = new]
      /\ UNCHANGED <<allowed, allowAll, decisions, decided, aside, raced>>
      /\ editor[e] \in EditorRecords
      /\ \/ /\ editor[e].fd = "temp" /\ UNCHANGED listFile
            /\ listTemp' \in Overwritten(listTemp, editor[e].senders)
         \/ /\ editor[e].fd = "file" /\ UNCHANGED listTemp
            /\ listFile' \in Overwritten(listFile, editor[e].senders)
         \/ editor[e].fd # "temp" /\ UNCHANGED <<listFile, listTemp>>
  BY DEF FillListTemp, SenderInv, SenderTypes
<1>2. /\ new \in EditorRecords /\ new.step = "rename"
      /\ new.senders = editor[e].senders /\ new.senders \subseteq Senders
  BY <1>1 DEF EditorRecords
<1> HIDE DEF new
<1>3. editor'[e] = new
  BY <1>1, <1>2 DEF SenderInv, SenderTypes
<1>4. listTemp' \in ListFiles /\ listFile' \in ListFiles
  BY <1>1, <1>2 DEF Overwritten, ListFile, ListFiles, SenderInv, SenderTypes
<1>5. ASSUME ~raced PROVE ChangeOf(e)'
  <2>1. /\ editor[e].fd = "temp" /\ listTemp.is = "empty" /\ editor[e].senders = decided
        /\ e \in Editors => ~aside
    BY <1>1, <1>5 DEF SenderInv, ListIsDecided, ChangeOf
  <2>2. listTemp'.senders = decided
    BY <1>1, <2>1 DEF Overwritten, ListFile
  <2> QED
    BY <1>1, <1>2, <1>3, <2>1, <2>2 DEF ChangeOf
<1> QED
  BY <1>1, <1>2, <1>4, <1>5, ChangeGoesOn

LEMMA RenameKeeps ==
  ASSUME SenderInv, NEW e \in Everyone, RenameListTemp(e)
  PROVE  SenderInv'
<1> USE DEF SenderInv
<1>1. /\ editor[e].step = "rename" /\ listFile' = listTemp
      /\ listTemp' = ListFile("absent", {})
      /\ editor' = [f \in Everyone |->
           IF f = e THEN AtRest
           ELSE [editor[f] EXCEPT !.fd = CASE @ = "temp" -> "file" [] @ = "file" -> "gone"
                                           [] OTHER -> @]]
      /\ UNCHANGED <<allowed, allowAll, decisions, decided, aside, raced>>
  BY DEF RenameListTemp
<1>2. /\ editor' \in [Everyone -> EditorRecords] /\ editor'[e] = AtRest
      /\ \A f \in Everyone \ {e} : editor'[f].step = editor[f].step
  BY <1>1, SenderNumbers DEF SenderTypes, EditorRecords
<1>3. SenderTypes'
  BY <1>1, <1>2 DEF SenderTypes, ListFile, ListFiles
<1>4. ASSUME ~raced
      PROVE  /\ OneChange' /\ \A f \in Everyone : ChangeOf(f)'
             /\ ~aside => allowed = decided
             /\ listFile'.senders = decided
  <2>1. \A f \in Everyone : editor'[f].step = "idle"
    BY <1>1, <1>2, <1>4, SenderNumbers DEF ListIsDecided, OneChange
  <2>2. listTemp.senders = decided /\ (~aside => allowed = decided)
    BY <1>1, <1>4 DEF ListIsDecided, ChangeOf
  <2> QED
    BY <1>1, <2>1, <2>2 DEF OneChange, ChangeOf
<1> QED
  BY <1>1, <1>3, <1>4 DEF ListIsDecided

LEMMA ListSaveFailsKeeps ==
  ASSUME SenderInv, NEW e \in Everyone, SaveListFails(e)
  PROVE  SenderInv'
<1>1. editor' \in [Everyone -> EditorRecords] /\ raced' = TRUE
  BY SenderNumbers DEF SaveListFails, SenderInv, SenderTypes
<1>2. UNCHANGED <<allowed, allowAll, listFile, listTemp, decisions, decided, aside>>
  BY DEF SaveListFails
<1>3. SenderTypes'
  BY <1>1, <1>2 DEF SenderInv, SenderTypes
<1>4. ListIsDecided'
  BY <1>1 DEF ListIsDecided
<1> QED
  BY <1>3, <1>4 DEF SenderInv

LEMMA RestartGateKeeps ==
  ASSUME SenderInv, NEW all \in BOOLEAN, RestartGate(all)
  PROVE  SenderInv'
<1> USE DEF SenderInv
<1>1. /\ UNCHANGED <<listFile, listTemp, decisions, decided>> /\ allowAll' = all
      /\ allowed' = listFile.senders
      /\ editor' = [e \in Everyone |-> IF e = CLI THEN editor[e] ELSE AtRest]
      /\ raced' \in BOOLEAN /\ aside' \in BOOLEAN
      /\ ~raced' => ~raced /\ \A e \in Editors : editor[e].step = "idle"
      /\ aside' <=> editor[CLI].step # "idle"
  <2>1. /\ raced' = (raced \/ \E e \in Editors : editor[e].step # "idle")
        /\ aside' = (editor[CLI].step # "idle")
    BY DEF RestartGate
  <2>2. /\ raced' \in BOOLEAN /\ aside' \in BOOLEAN
        /\ ~raced' => ~raced /\ \A e \in Editors : editor[e].step = "idle"
        /\ aside' <=> editor[CLI].step # "idle"
    BY <2>1, Zenon DEF SenderTypes
  <2> QED
    BY <2>2 DEF RestartGate
<1>2. /\ editor' \in [Everyone -> EditorRecords] /\ editor'[CLI] = editor[CLI]
      /\ \A e \in Editors : editor'[e] = AtRest
  BY <1>1, SenderNumbers DEF SenderTypes
<1>3. SenderTypes'
  BY <1>1, <1>2 DEF SenderTypes, ListFiles
<1>4. ASSUME ~raced'
      PROVE  /\ OneChange' /\ \A e \in Everyone : ChangeOf(e)'
             /\ ~aside' => allowed' = decided'
             /\ NoEdits' => listFile'.senders = decided'
  <2>1. ListIsDecided /\ ~raced /\ \A e \in Editors : editor[e].step = "idle"
    BY <1>1, <1>4
  <2>2. OneChange'
    BY <1>2, SenderNumbers DEF OneChange
  <2>3. ChangeOf(CLI)'
    BY <1>1, <1>2, <2>1, SenderNumbers DEF ListIsDecided, ChangeOf
  <2>4. \A e \in Editors : ChangeOf(e)'
    BY <1>2, SenderNumbers DEF ChangeOf
  <2>5. editor[CLI].step = "idle" => listFile.senders = decided
    BY <2>1, SenderNumbers DEF ListIsDecided, NoEdits
  <2> QED
    BY <1>1, <1>2, <2>2, <2>3, <2>4, <2>5, SenderNumbers DEF NoEdits
<1> QED
  BY <1>3, <1>4 DEF ListIsDecided

LEMMA SenderStep == SenderInv /\ [SenderNext]_senderVars => SenderInv'
<1> SUFFICES ASSUME SenderInv, [SenderNext]_senderVars PROVE SenderInv'
  OBVIOUS
<1>1. CASE UNCHANGED senderVars
  BY <1>1 DEF senderVars, SenderInv, SenderTypes, ListIsDecided, OneChange, ChangeOf, NoEdits
<1>2. ASSUME NEW all \in BOOLEAN, SetAllowAll(all) PROVE SenderInv'
  BY <1>2 DEF SetAllowAll, SenderInv, SenderTypes, ListIsDecided, OneChange, ChangeOf, NoEdits
<1> QED
  BY <1>1, <1>2, ApproveKeeps, AllowCmdKeeps, SnapshotKeeps, OpenKeeps, FillKeeps,
     RenameKeeps, ListSaveFailsKeeps, RestartGateKeeps, Zenon DEF SenderNext

LEMMA SenderHolds == SenderInv => ApprovalsLast /\ SenderTypeOK
<1> SUFFICES ASSUME SenderInv PROVE ApprovalsLast /\ SenderTypeOK
  OBVIOUS
<1>1. ApprovalsLast
  BY DEF SenderInv, ListIsDecided, ApprovalsLast, IsAllowed
<1>2. SenderTypeOK
  <2>1. {allowAll, aside, raced} \subseteq BOOLEAN
    BY Zenon DEF SenderInv, SenderTypes
  <2> QED
    BY <2>1 DEF SenderInv, SenderTypes, ListFiles, EditorRecords, SenderTypeOK
<1> QED
  BY <1>1, <1>2

-----------------------------------------------------------------------------
(* The skills.                                                             *)

EditRecords ==
  [op : {"none", "install", "toggle", "delete", "seed"},
   at : {"idle", "open", "write", "stale", "target", "source", "rename",
         "enabled", "disabled", "look", "lookOff"},
   form : Forms, text : SkillTexts \cup {"absent"},
   file : Forms \cup {"none"}, alone : BOOLEAN]

SkillFiles == [Forms -> SkillTexts \cup {"absent", "cut"}]
Outcomes == [Forms -> SkillTexts \cup {"absent", "unknown"}]
Places == [Forms \cup {"none"} -> Forms \cup {"none"}]

\* Of two forms that are known, at most one is there.
Known2(s) ==
  (\A f \in Forms : s[f] # "unknown") => \E f \in Forms : s[f] = "absent"

Matched(f) == settled[f] # "unknown" => forms[f] = settled[f]
Matches == \A f \in Forms : Matched(f)

\* How far a request that nothing overlaps has come.
Progress(t) ==
  /\ edit[t].at \notin {"write", "stale", "disabled"} => Matches
  /\ edit[t].at = "write" => edit[t].file = edit[t].form /\ Matched(Other(edit[t].form))
  /\ edit[t].at = "stale" => forms[edit[t].form] = edit[t].text
  /\ edit[t].at = "disabled" => forms["enabled"] = "absent" /\ Matched("disabled")

AloneIs(t) ==
  edit[t].op # "none" /\ edit[t].alone => EditsUnderWay = {t} /\ Progress(t)

SkillInv ==
  /\ SkillTypeOK /\ Known2(settled)
  /\ \A t \in Tabs : edit[t].op = "none" => edit[t].at = "idle"
  /\ EditsUnderWay = {} => Matches
  /\ \A t \in Tabs : AloneIs(t)

LEMMA SkillNames ==
  /\ Forms = {"enabled", "disabled"} /\ \A f \in Forms : Other(f) \in Forms /\ Other(f) # f
  /\ Other("enabled") = "disabled" /\ Other("disabled") = "enabled"
  /\ "absent" \notin SkillTexts /\ "cut" \notin SkillTexts /\ "unknown" \notin SkillTexts
  /\ BundledTexts \subseteq SkillTexts /\ MaxSkillEdits \in Nat
  /\ NoSkill \in SkillFiles /\ NoSkill \in Outcomes /\ Unsettled \in Outcomes
  /\ Known2(NoSkill) /\ Known2(Unsettled) /\ \A f \in Forms : Unsettled[f] = "unknown"
BY SkillsAssumption
DEF Forms, Other, NoSkill, SkillFiles, Outcomes, Unsettled, Known2

LEMMA NoEditIsEdit ==
  /\ NoEdit \in EditRecords /\ NoEdit.op = "none" /\ NoEdit.at = "idle"
BY DEF NoEdit, EditRecords, Forms

LEMMA SkillTypes ==
  SkillTypeOK <=> /\ forms \in SkillFiles /\ edit \in [Tabs -> EditRecords]
                  /\ skillEdits \in 0..MaxSkillEdits /\ settled \in Outcomes
BY DEF SkillTypeOK, SkillFiles, Outcomes, EditRecords

LEMMA SkillStarts == SkillInit => SkillInv
<1> SUFFICES ASSUME SkillInit PROVE SkillInv
  OBVIOUS
<1>1. \A t \in Tabs : edit[t] = NoEdit
  BY DEF SkillInit
<1>2. EditsUnderWay = {}
  BY <1>1, NoEditIsEdit DEF EditsUnderWay
<1>3. SkillTypeOK
  BY SkillTypes, SkillNames, NoEditIsEdit DEF SkillInit
<1> QED
  BY <1>1, <1>2, <1>3, SkillNames, NoEditIsEdit
  DEF SkillInv, SkillInit, Matches, Matched, AloneIs

\* Files that are written to move with what they hold.
LEMMA WritersFollow ==
  ASSUME SkillInv, NEW where \in Places
  PROVE  /\ Followed(where) \in [Tabs -> EditRecords]
         /\ \A u \in Tabs : LET e == Followed(where)[u] IN
              /\ e.op = edit[u].op /\ e.at = edit[u].at /\ e.form = edit[u].form
              /\ e.text = edit[u].text /\ e.alone = edit[u].alone
              /\ e.file = where[edit[u].file]
<1>1. edit \in [Tabs -> EditRecords]
  BY SkillTypes DEF SkillInv
<1>2. ASSUME NEW u \in Tabs
      PROVE  LET e == [edit[u] EXCEPT !.file = where[@]] IN
              /\ e \in EditRecords
              /\ e.op = edit[u].op /\ e.at = edit[u].at /\ e.form = edit[u].form
              /\ e.text = edit[u].text /\ e.alone = edit[u].alone
              /\ e.file = where[edit[u].file]
  <2>1. edit[u] \in EditRecords /\ where[edit[u].file] \in Forms \cup {"none"}
    BY <1>1 DEF EditRecords, Places
  <2> QED
    BY <2>1 DEF EditRecords
<1> QED
  BY <1>2, Zenon DEF Followed

LEMMA WhereFilesGo ==
  /\ Stay \in Places /\ \A f \in Forms \cup {"none"} : Stay[f] = f
  /\ \A form \in Forms : AfterRemove(form) \in Places /\ AfterRename(form) \in Places
BY SkillNames DEF Stay, AfterRemove, AfterRename, Places

\* A request that is under way goes on.
LEMMA GoesOn ==
  ASSUME SkillInv, NEW t \in Tabs, edit[t].op # "none", forms' \in SkillFiles,
         edit' \in [Tabs -> EditRecords], UNCHANGED <<skillEdits, settled>>,
         \A u \in Tabs : edit'[u].op = edit[u].op /\ edit'[u].alone = edit[u].alone,
         \A u \in Tabs \ {t} : edit'[u].at = edit[u].at,
         edit[t].alone => Progress(t)'
  PROVE  SkillInv'
<1> USE DEF SkillInv
<1>1. SkillTypeOK'
  BY SkillTypes DEF SkillTypeOK, SkillFiles, EditRecords
<1>2. EditsUnderWay' = EditsUnderWay /\ t \in EditsUnderWay
  BY DEF EditsUnderWay
<1>3. \A u \in Tabs : AloneIs(u)'
  <2> SUFFICES ASSUME NEW u \in Tabs, edit'[u].op # "none", edit'[u].alone
               PROVE  EditsUnderWay' = {u} /\ Progress(u)'
    BY DEF AloneIs
  <2>1. edit[u].op # "none" /\ edit[u].alone
    BY Zenon
  <2>2. EditsUnderWay = {u} /\ u = t
    BY <1>2, <2>1 DEF AloneIs
  <2> QED
    BY <1>2, <2>1, <2>2
<1>4. \A u \in Tabs : edit'[u].op = "none" => edit'[u].at = "idle"
  OBVIOUS
<1> QED
  BY <1>1, <1>2, <1>3, <1>4

\* A request is over.
LEMMA IsOver ==
  ASSUME SkillInv, NEW t \in Tabs, edit[t].op # "none", forms' \in SkillFiles,
         NEW where \in Places, NEW known \in Outcomes, EditOver(t, where, known),
         edit[t].alone => /\ Known2(known)
                          /\ \A f \in Forms : known[f] # "unknown" => forms'[f] = known[f]
  PROVE  SkillInv'
<1> USE DEF SkillInv
<1> DEFINE moved == Followed(where)
<1>1. /\ moved \in [Tabs -> EditRecords]
      /\ \A u \in Tabs : moved[u].op = edit[u].op /\ moved[u].at = edit[u].at
                         /\ moved[u].alone = edit[u].alone
  BY WritersFollow
<1>2. /\ edit' = [moved EXCEPT ![t] = NoEdit] /\ skillEdits' = skillEdits
      /\ settled' = IF edit[t].alone THEN known ELSE Unsettled
  BY DEF EditOver, Unsettled
<1> HIDE DEF moved
<1>3. /\ edit' \in [Tabs -> EditRecords] /\ edit'[t] = NoEdit
      /\ \A u \in Tabs \ {t} : edit'[u] = moved[u]
  BY <1>1, <1>2, NoEditIsEdit
<1>4. EditsUnderWay' = EditsUnderWay \ {t} /\ t \in EditsUnderWay
  BY <1>1, <1>3, NoEditIsEdit DEF EditsUnderWay
<1>5. settled' \in Outcomes /\ Known2(settled')
  BY <1>2, SkillNames
<1>6. SkillTypeOK'
  BY <1>2, <1>3, <1>5, SkillTypes DEF SkillTypeOK, SkillFiles, EditRecords, Outcomes
<1>7. Matches'
  BY <1>2, SkillNames DEF Matches, Matched
<1>8. \A u \in Tabs : ~(edit'[u].op # "none" /\ edit'[u].alone)
  <2> SUFFICES ASSUME NEW u \in Tabs, edit'[u].op # "none", edit'[u].alone PROVE FALSE
    OBVIOUS
  <2>1. u # t
    BY <1>3, NoEditIsEdit
  <2>2. edit[u].op # "none" /\ edit[u].alone
    BY <1>1, <1>3, <2>1, Zenon
  <2>3. EditsUnderWay = {u}
    BY <2>2 DEF AloneIs
  <2> QED
    BY <1>4, <2>1, <2>3
<1>9. \A u \in Tabs : edit'[u].op = "none" => edit'[u].at = "idle"
  BY <1>1, <1>3, NoEditIsEdit
<1> QED
  BY <1>5, <1>6, <1>7, <1>8, <1>9 DEF AloneIs

\* One begins, and those it overlaps are no longer alone.
LEMMA Begins ==
  ASSUME SkillInv, NEW t \in Tabs, NEW form \in Forms, NEW text \in SkillTexts \cup {"absent"},
         NEW what \in {"install", "toggle", "delete", "seed"},
         NEW place \in {"open", "target", "enabled", "look"},
         StartSkillEdit(t, what, place, form, text)
  PROVE  SkillInv'
<1> USE DEF SkillInv
<1> DEFINE first == EditsUnderWay = {}
           new == [op |-> what, at |-> place, form |-> form, text |-> text,
                   file |-> "none", alone |-> first]
           met(u) == [edit[u] EXCEPT !.alone = edit[u].alone /\ edit[u].op = "none"]
<1>1. /\ edit[t].op = "none" /\ skillEdits' \in 0..MaxSkillEdits
      /\ UNCHANGED <<forms, settled>> /\ edit \in [Tabs -> EditRecords]
      /\ edit' = [u \in Tabs |-> IF u = t THEN new ELSE met(u)]
  BY SkillTypes, SkillNames DEF StartSkillEdit
<1>2. /\ new \in EditRecords /\ new.op = what /\ new.at = place
      /\ new.alone = first
  <2>1. first \in BOOLEAN
    OBVIOUS
  <2> HIDE DEF first
  <2> QED
    BY <2>1 DEF EditRecords
<1>3. ASSUME NEW u \in Tabs
      PROVE  /\ met(u) \in EditRecords /\ met(u).op = edit[u].op /\ met(u).at = edit[u].at
             /\ met(u).alone => edit[u].op = "none"
  <2> DEFINE still == edit[u].alone /\ edit[u].op = "none"
  <2>1. edit[u] \in EditRecords
    BY <1>1
  <2>2. still \in BOOLEAN /\ (still => edit[u].op = "none")
    BY <2>1, Zenon DEF EditRecords
  <2>3. met(u) = [edit[u] EXCEPT !.alone = still]
    OBVIOUS
  <2> HIDE DEF still, met
  <2>4. /\ met(u) \in EditRecords /\ met(u).op = edit[u].op /\ met(u).at = edit[u].at
        /\ met(u).alone = still
    BY <2>1, <2>2, <2>3 DEF EditRecords
  <2> QED
    BY <2>2, <2>4, Zenon
<1> HIDE DEF new, met
<1>4. /\ edit' \in [Tabs -> EditRecords] /\ edit'[t] = new
      /\ \A u \in Tabs \ {t} : edit'[u] = met(u)
  BY <1>1, <1>2, <1>3
<1>5. SkillTypeOK'
  BY <1>1, <1>4, SkillTypes DEF SkillTypeOK, SkillFiles, EditRecords, Outcomes
<1>6. EditsUnderWay' = EditsUnderWay \cup {t}
  BY <1>2, <1>3, <1>4 DEF EditsUnderWay
<1>7. \A u \in Tabs : edit'[u].op = "none" => edit'[u].at = "idle"
  BY <1>2, <1>3, <1>4
<1>8. \A u \in Tabs \ {t} : ~(edit'[u].op # "none" /\ edit'[u].alone)
  BY <1>3, <1>4, Zenon
<1>9. AloneIs(t)'
  <2> SUFFICES ASSUME edit'[t].alone PROVE EditsUnderWay' = {t} /\ Progress(t)'
    BY DEF AloneIs
  <2>1. EditsUnderWay = {}
    BY <1>2, <1>4, Zenon
  <2>2. Matches'
    BY <1>1, <2>1 DEF Matches, Matched
  <2>3. edit'[t].at \in {"open", "target", "enabled", "look"}
    BY <1>2, <1>4
  <2> QED
    BY <1>6, <2>1, <2>2, <2>3 DEF Progress
<1>10. \A u \in Tabs \ {t} : AloneIs(u)'
  BY <1>8 DEF AloneIs
<1> QED
  BY <1>1, <1>5, <1>6, <1>7, <1>9, <1>10

\* What GoOn does.
LEMMA GoOnMoves ==
  ASSUME SkillInv, NEW t \in Tabs, NEW where \in Places,
         NEW place \in {"open", "write", "stale", "source", "rename", "disabled", "lookOff"},
         GoOn(t, where, place)
  PROVE  /\ edit' \in [Tabs -> EditRecords] /\ UNCHANGED <<skillEdits, settled>>
         /\ \A u \in Tabs : edit'[u].op = edit[u].op /\ edit'[u].alone = edit[u].alone
         /\ \A u \in Tabs \ {t} : edit'[u].at = edit[u].at
         /\ edit'[t].at = place /\ edit'[t].form = edit[t].form /\ edit'[t].text = edit[t].text
<1> DEFINE moved == Followed(where)
           new == [moved[t] EXCEPT !.at = place]
<1>1. /\ moved \in [Tabs -> EditRecords]
      /\ \A u \in Tabs : /\ moved[u].op = edit[u].op /\ moved[u].at = edit[u].at
                         /\ moved[u].form = edit[u].form /\ moved[u].text = edit[u].text
                         /\ moved[u].alone = edit[u].alone
  BY WritersFollow
<1>2. edit' = [moved EXCEPT ![t] = new] /\ UNCHANGED <<skillEdits, settled>>
  BY DEF GoOn
<1> HIDE DEF moved
<1>3. /\ new \in EditRecords /\ new.op = moved[t].op /\ new.at = place
      /\ new.form = moved[t].form /\ new.text = moved[t].text /\ new.alone = moved[t].alone
  <2>1. moved[t] \in EditRecords
    BY <1>1
  <2> QED
    BY <2>1 DEF EditRecords
<1> HIDE DEF new
<1>4. /\ edit' \in [Tabs -> EditRecords] /\ edit'[t] = new
      /\ \A u \in Tabs \ {t} : edit'[u] = moved[u]
  BY <1>1, <1>2, <1>3
<1> QED
  BY <1>1, <1>2, <1>3, <1>4

\* A request that is somewhere is under way, and alone it has come so far.
LEMMA UnderWayIs ==
  ASSUME SkillInv, NEW t \in Tabs, edit[t].at # "idle"
  PROVE  /\ edit[t].op # "none" /\ edit[t] \in EditRecords /\ edit[t].form \in Forms
         /\ edit[t].text \in SkillTexts \cup {"absent"}
         /\ forms \in SkillFiles /\ settled \in Outcomes /\ Known2(settled)
         /\ edit[t].alone => Progress(t)
<1>1. edit[t].op # "none" /\ forms \in SkillFiles /\ settled \in Outcomes /\ Known2(settled)
      /\ edit[t] \in EditRecords
  BY SkillTypes DEF SkillInv
<1>2. edit[t].alone => Progress(t)
  BY <1>1 DEF SkillInv, AloneIs
<1> QED
  BY <1>1, <1>2 DEF EditRecords

LEMMA OpenSkillKeeps ==
  ASSUME SkillInv, NEW t \in Tabs, OpenSkill(t)
  PROVE  SkillInv'
<1> DEFINE form == edit[t].form
           new == [edit[t] EXCEPT !.at = "write", !.file = form]
<1>1. edit[t].at = "open" /\ edit[t].at # "idle"
  BY DEF OpenSkill
<1>2. CASE UNCHANGED forms /\ EditOver(t, Stay, settled)
  BY <1>1, <1>2, UnderWayIs, WhereFilesGo, IsOver DEF Progress, Matches, Matched
<1>3. CASE /\ forms' = [forms EXCEPT ![form] = "cut"] /\ edit' = [edit EXCEPT ![t] = new]
           /\ UNCHANGED <<skillEdits, settled>>
  <2>1. forms' \in SkillFiles
    BY <1>1, <1>3, UnderWayIs DEF SkillFiles
  <2>2. /\ new \in EditRecords /\ new.op = edit[t].op /\ new.at = "write"
        /\ new.alone = edit[t].alone /\ new.file = form /\ new.form = form
    BY <1>1, UnderWayIs DEF EditRecords
  <2> HIDE DEF new
  <2>3. /\ edit' \in [Tabs -> EditRecords] /\ edit'[t] = new
        /\ \A u \in Tabs \ {t} : edit'[u] = edit[u]
    BY <1>3, <2>2, SkillTypes DEF SkillInv
  <2>4. edit[t].alone => Progress(t)'
    <3> SUFFICES ASSUME edit[t].alone PROVE Progress(t)'
      OBVIOUS
    <3>1. form \in Forms /\ Other(form) \in Forms /\ Other(form) # form
      BY <1>1, UnderWayIs, SkillNames
    <3>2. forms'[Other(form)] = forms[Other(form)] /\ settled' = settled
      BY <1>1, <1>3, <3>1, UnderWayIs DEF SkillFiles
    <3>3. Matched(Other(form))
      BY <1>1, <3>1, UnderWayIs DEF Progress, Matches
    <3>4. /\ edit'[t].at = "write" /\ edit'[t].form = form /\ edit'[t].file = form
      BY <2>2, <2>3
    <3>5. settled'[Other(form)] # "unknown" => forms'[Other(form)] = settled'[Other(form)]
      BY <3>2, <3>3 DEF Matched
    <3> HIDE DEF form
    <3> QED
      BY <3>4, <3>5 DEF Progress, Matched
  <2> QED
    BY <1>1, <1>3, <2>1, <2>2, <2>3, <2>4, UnderWayIs, GoesOn
<1> QED
  BY <1>2, <1>3 DEF OpenSkill

LEMMA WriteSkillKeeps ==
  ASSUME SkillInv, NEW t \in Tabs, WriteSkill(t)
  PROVE  SkillInv'
<1> DEFINE form == edit[t].form
           known == [settled EXCEPT ![form] = "unknown"]
<1>1. edit[t].at = "write" /\ edit[t].at # "idle"
  BY DEF WriteSkill
<1>2. form \in Forms /\ Other(form) \in Forms /\ Other(form) # form
      /\ \A f \in Forms : f = form \/ f = Other(form)
  BY <1>1, UnderWayIs, SkillNames
<1>3. CASE UNCHANGED forms /\ EditOver(t, Stay, known)
  <2>1. /\ known \in Outcomes /\ known[form] = "unknown"
        /\ known[Other(form)] = settled[Other(form)]
    BY <1>1, <1>2, UnderWayIs, SkillNames DEF Outcomes
  <2> HIDE DEF known, form
  <2>2. edit[t].alone => \A f \in Forms : known[f] # "unknown" => forms'[f] = known[f]
    BY <1>1, <1>2, <1>3, <2>1, UnderWayIs DEF Progress, Matched, form
  <2>3. Known2(known)
    BY <1>2, <2>1 DEF Known2
  <2> QED
    BY <1>1, <1>3, <2>1, <2>2, <2>3, UnderWayIs, WhereFilesGo, IsOver
<1>4. CASE /\ \E text \in {edit[t].text, "cut"} :
                /\ edit[t].alone => text = edit[t].text
                /\ forms' = [f \in Forms |-> IF f = edit[t].file THEN text ELSE forms[f]]
           /\ GoOn(t, Stay, "stale")
  <2>1. /\ edit' \in [Tabs -> EditRecords] /\ UNCHANGED <<skillEdits, settled>>
        /\ \A u \in Tabs : edit'[u].op = edit[u].op /\ edit'[u].alone = edit[u].alone
        /\ \A u \in Tabs \ {t} : edit'[u].at = edit[u].at
        /\ edit'[t].at = "stale" /\ edit'[t].form = edit[t].form
        /\ edit'[t].text = edit[t].text
    BY <1>4, GoOnMoves, WhereFilesGo
  <2>2. forms' \in SkillFiles
    BY <1>1, <1>4, UnderWayIs DEF SkillFiles
  <2>3. edit[t].alone => Progress(t)'
    BY <1>1, <1>2, <1>4, <2>1, UnderWayIs DEF Progress
  <2> QED
    BY <1>1, <2>1, <2>2, <2>3, UnderWayIs, GoesOn
<1> QED
  BY <1>3, <1>4 DEF WriteSkill

LEMMA RemoveStaleKeeps ==
  ASSUME SkillInv, NEW t \in Tabs, RemoveStale(t)
  PROVE  SkillInv'
<1> DEFINE form == edit[t].form
           stale == Other(form)
           asked == Asked(t)
           half == [asked EXCEPT ![stale] = "unknown"]
<1>1. /\ edit[t].at = "stale" /\ edit[t].at # "idle"
      /\ \/ /\ forms' = [forms EXCEPT ![stale] = "absent"]
            /\ EditOver(t, AfterRemove(stale), asked)
         \/ UNCHANGED forms /\ EditOver(t, Stay, half)
  BY DEF RemoveStale
<1>2. /\ form \in Forms /\ stale \in Forms /\ stale # form
      /\ edit[t].text \in SkillTexts \cup {"absent"}
      /\ \A f \in Forms : f = form \/ f = stale
  BY <1>1, UnderWayIs, SkillNames
<1>3. /\ asked \in Outcomes /\ asked[form] = edit[t].text /\ asked[stale] = "absent"
  BY <1>2, SkillNames DEF Asked, NoSkill, Outcomes
<1>4. /\ half \in Outcomes /\ half[form] = edit[t].text /\ half[stale] = "unknown"
  BY <1>2, <1>3 DEF Outcomes
<1>5. forms' \in SkillFiles
  BY <1>1, <1>2, UnderWayIs DEF SkillFiles
<1>6. edit[t].alone => forms[form] = edit[t].text
  BY <1>1, UnderWayIs DEF Progress
<1> HIDE DEF asked, half
<1>7. Known2(asked) /\ Known2(half)
  BY <1>2, <1>3, <1>4, SkillNames DEF Known2
<1>8. CASE UNCHANGED forms /\ EditOver(t, Stay, half)
  <2>1. edit[t].alone => \A f \in Forms : half[f] # "unknown" => forms'[f] = half[f]
    BY <1>2, <1>4, <1>6, <1>8
  <2> QED
    BY <1>1, <1>4, <1>5, <1>7, <1>8, <2>1, UnderWayIs, WhereFilesGo, IsOver
<1>9. CASE /\ forms' = [forms EXCEPT ![stale] = "absent"]
           /\ EditOver(t, AfterRemove(stale), asked)
  <2>1. forms'[form] = forms[form] /\ forms'[stale] = "absent"
    BY <1>1, <1>2, <1>9, UnderWayIs DEF SkillFiles
  <2>2. edit[t].alone => \A f \in Forms : asked[f] # "unknown" => forms'[f] = asked[f]
    BY <1>2, <1>3, <1>6, <2>1
  <2> QED
    BY <1>1, <1>2, <1>3, <1>5, <1>7, <1>9, <2>2, UnderWayIs, WhereFilesGo, IsOver
<1> QED
  BY <1>1, <1>8, <1>9

\* The steps that look, and find the work done or go on.
LEMMA LooksKeep ==
  ASSUME SkillInv, NEW t \in Tabs,
         LookAtTarget(t) \/ LookAtSource(t) \/ LookForSkill(t)
  PROVE  SkillInv'
<1>1. PICK place \in {"open", "source", "rename", "lookOff"} :
        /\ edit[t].at \in {"target", "source", "look", "lookOff"} /\ UNCHANGED forms
        /\ EditOver(t, Stay, settled) \/ GoOn(t, Stay, place)
  BY Zenon DEF LookAtTarget, LookAtSource, LookForSkill
<1>2. CASE EditOver(t, Stay, settled)
  BY <1>1, <1>2, UnderWayIs, WhereFilesGo, IsOver DEF Progress, Matches, Matched
<1>3. CASE GoOn(t, Stay, place)
  <2>1. /\ edit' \in [Tabs -> EditRecords] /\ UNCHANGED <<skillEdits, settled>>
        /\ \A u \in Tabs : edit'[u].op = edit[u].op /\ edit'[u].alone = edit[u].alone
        /\ \A u \in Tabs \ {t} : edit'[u].at = edit[u].at
        /\ edit'[t].at = place
    BY <1>3, GoOnMoves, WhereFilesGo
  <2>2. edit[t].alone => Progress(t)'
    BY <1>1, <2>1, UnderWayIs DEF Progress, Matches, Matched
  <2> QED
    BY <1>1, <2>1, <2>2, UnderWayIs, GoesOn
<1> QED
  BY <1>1, <1>2, <1>3

LEMMA RenameSkillKeeps ==
  ASSUME SkillInv, NEW t \in Tabs, RenameSkill(t)
  PROVE  SkillInv'
<1> DEFINE into == edit[t].form
           source == Other(into)
           moved == [NoSkill EXCEPT ![into] = settled[source]]
<1>1. edit[t].at = "rename" /\ edit[t].at # "idle"
  BY DEF RenameSkill
<1>2. /\ into \in Forms /\ source \in Forms /\ source # into
      /\ \A f \in Forms : f = into \/ f = source
  BY <1>1, UnderWayIs, SkillNames
<1>3. edit[t].alone => \A f \in Forms : settled[f] # "unknown" => forms[f] = settled[f]
  BY <1>1, UnderWayIs DEF Progress, Matches, Matched
<1>4. CASE UNCHANGED forms /\ EditOver(t, Stay, settled)
  BY <1>1, <1>3, <1>4, UnderWayIs, WhereFilesGo, IsOver
<1>5. CASE /\ forms' = [forms EXCEPT ![into] = forms[source], ![source] = "absent"]
           /\ EditOver(t, AfterRename(source), moved)
  <2>1. forms' \in SkillFiles /\ forms'[into] = forms[source] /\ forms'[source] = "absent"
    BY <1>1, <1>2, <1>5, UnderWayIs DEF SkillFiles
  <2>2. /\ moved \in Outcomes /\ moved[into] = settled[source] /\ moved[source] = "absent"
    BY <1>1, <1>2, UnderWayIs, SkillNames DEF Outcomes, NoSkill
  <2> HIDE DEF moved
  <2>3. Known2(moved)
    BY <1>2, <2>2 DEF Known2
  <2>4. edit[t].alone => \A f \in Forms : moved[f] # "unknown" => forms'[f] = moved[f]
    BY <1>2, <1>3, <2>1, <2>2
  <2> QED
    BY <1>1, <1>2, <1>5, <2>1, <2>2, <2>3, <2>4, UnderWayIs, WhereFilesGo, IsOver
<1> QED
  BY <1>4, <1>5 DEF RenameSkill

LEMMA DeleteSkillKeeps ==
  ASSUME SkillInv, NEW t \in Tabs, DeleteEnabled(t) \/ DeleteDisabled(t)
  PROVE  SkillInv'
<1>0. /\ "enabled" \in Forms /\ "disabled" \in Forms /\ "enabled" # "disabled"
      /\ \A f \in Forms : f = "enabled" \/ f = "disabled"
  BY SkillNames
<1>1. CASE edit[t].at = "enabled" /\ UNCHANGED forms /\ EditOver(t, Stay, settled)
  <2>1. edit[t].at # "idle"
    BY <1>1
  <2> QED
    BY <1>1, <2>1, UnderWayIs, WhereFilesGo, IsOver DEF Progress, Matches, Matched
<1>2. CASE /\ edit[t].at = "enabled" /\ forms' = [forms EXCEPT !["enabled"] = "absent"]
           /\ GoOn(t, AfterRemove("enabled"), "disabled")
  <2>1. edit[t].at # "idle"
    BY <1>2
  <2>2. /\ edit' \in [Tabs -> EditRecords] /\ UNCHANGED <<skillEdits, settled>>
        /\ \A u \in Tabs : edit'[u].op = edit[u].op /\ edit'[u].alone = edit[u].alone
        /\ \A u \in Tabs \ {t} : edit'[u].at = edit[u].at
        /\ edit'[t].at = "disabled"
    BY <1>0, <1>2, GoOnMoves, WhereFilesGo
  <2>3. forms' \in SkillFiles /\ forms'["enabled"] = "absent" /\ forms'["disabled"] = forms["disabled"]
    BY <1>0, <1>2, <2>1, UnderWayIs DEF SkillFiles
  <2>4. edit[t].alone => Progress(t)'
    BY <1>0, <1>2, <2>1, <2>2, <2>3, UnderWayIs DEF Progress, Matches, Matched
  <2> QED
    BY <2>1, <2>2, <2>3, <2>4, UnderWayIs, GoesOn
<1>3. CASE /\ edit[t].at = "disabled" /\ forms' = [forms EXCEPT !["disabled"] = "absent"]
           /\ EditOver(t, AfterRemove("disabled"), NoSkill)
  <2>1. edit[t].at # "idle"
    BY <1>3
  <2>2. forms' \in SkillFiles /\ forms'["disabled"] = "absent" /\ forms'["enabled"] = forms["enabled"]
    BY <1>0, <1>3, <2>1, UnderWayIs DEF SkillFiles
  <2>3. edit[t].alone => \A f \in Forms : forms'[f] = NoSkill[f]
    BY <1>0, <1>3, <2>1, <2>2, UnderWayIs, SkillNames DEF Progress, NoSkill
  <2> QED
    BY <1>0, <1>3, <2>1, <2>2, <2>3, UnderWayIs, WhereFilesGo, IsOver, SkillNames
<1>4. CASE /\ edit[t].at = "disabled" /\ UNCHANGED forms
           /\ EditOver(t, Stay, [settled EXCEPT !["enabled"] = "absent"])
  <2> DEFINE known == [settled EXCEPT !["enabled"] = "absent"]
  <2>1. edit[t].at # "idle"
    BY <1>4
  <2>2. /\ known \in Outcomes /\ known["enabled"] = "absent"
        /\ known["disabled"] = settled["disabled"]
    BY <1>0, <2>1, UnderWayIs DEF Outcomes
  <2> HIDE DEF known
  <2>3. Known2(known)
    BY <1>0, <2>2 DEF Known2
  <2>4. edit[t].alone => \A f \in Forms : known[f] # "unknown" => forms'[f] = known[f]
    BY <1>0, <1>4, <2>1, <2>2, UnderWayIs DEF Progress, Matched
  <2> QED
    BY <1>4, <2>1, <2>2, <2>3, <2>4, UnderWayIs, WhereFilesGo, IsOver DEF known
<1> QED
  BY <1>1, <1>2, <1>3, <1>4 DEF DeleteEnabled, DeleteDisabled, RemovalFails

LEMMA SkillsCrashKeeps ==
  ASSUME SkillInv, SkillsCrash
  PROVE  SkillInv'
<1> USE DEF SkillInv
<1> PICK gone \in {{t \in EditsUnderWay : edit[t].op # "seed"}}
                  \cup {{t} : t \in {u \in Tabs : edit[u].op = "seed"}} :
      /\ gone # {}
      /\ edit' = [t \in Tabs |-> IF t \in gone THEN NoEdit ELSE edit[t]]
      /\ settled' = Unsettled
      /\ UNCHANGED <<forms, skillEdits>>
  BY DEF SkillsCrash
<1>1. /\ edit' \in [Tabs -> EditRecords] /\ \A t \in Tabs \cap gone : edit'[t] = NoEdit
      /\ \A t \in Tabs \ gone : edit'[t] = edit[t]
  BY SkillTypes, NoEditIsEdit
<1>2. SkillTypeOK'
  BY <1>1, SkillTypes, SkillNames DEF SkillTypeOK, SkillFiles, EditRecords, Outcomes
<1>3. gone \subseteq EditsUnderWay
  BY DEF EditsUnderWay
<1>4. \A t \in Tabs : ~(edit'[t].op # "none" /\ edit'[t].alone)
  <2> SUFFICES ASSUME NEW t \in Tabs, edit'[t].op # "none", edit'[t].alone PROVE FALSE
    OBVIOUS
  <2>1. t \notin gone /\ edit[t].op # "none"
    BY <1>1, NoEditIsEdit
  <2>2. edit[t].alone
    BY <1>1, <2>1, Zenon
  <2>3. EditsUnderWay = {t}
    BY <2>1, <2>2 DEF AloneIs
  <2> QED
    BY <1>3, <2>1, <2>3
<1>5. \A t \in Tabs : edit'[t].op = "none" => edit'[t].at = "idle"
  BY <1>1, NoEditIsEdit
<1> QED
  BY <1>2, <1>4, <1>5, SkillNames DEF AloneIs, Matches, Matched

LEMMA SkillStep == SkillInv /\ [SkillNext]_skillVars => SkillInv'
<1> SUFFICES ASSUME SkillInv, [SkillNext]_skillVars PROVE SkillInv'
  OBVIOUS
<1>1. CASE UNCHANGED skillVars
  BY <1>1
  DEF skillVars, SkillInv, SkillTypeOK, AloneIs, Progress, EditsUnderWay, Matches, Matched
<1>2. ASSUME NEW t \in Tabs,
             SkillInstall(t) \/ SkillSetEnabled(t) \/ SkillDelete(t) \/ SeedDefaultSkills(t)
      PROVE  SkillInv'
  <2>1. CASE SkillInstall(t)
    BY <2>1, Begins DEF SkillInstall
  <2>2. CASE SkillSetEnabled(t)
    BY <2>2, Begins DEF SkillSetEnabled
  <2>3. CASE SkillDelete(t)
    BY <2>3, Begins, SkillNames DEF SkillDelete
  <2>4. CASE SeedDefaultSkills(t)
    BY <2>4, Begins, SkillNames DEF SeedDefaultSkills
  <2> QED
    BY <1>2, <2>1, <2>2, <2>3, <2>4
<1> QED
  BY <1>1, <1>2, OpenSkillKeeps, WriteSkillKeeps, RemoveStaleKeeps, LooksKeep,
     RenameSkillKeeps, DeleteSkillKeeps, SkillsCrashKeeps, Zenon DEF SkillNext

LEMMA SkillHolds == SkillInv => SkillsStand /\ SkillTypeOK
<1> SUFFICES ASSUME SkillInv PROVE SkillsStand /\ SkillTypeOK
  OBVIOUS
<1>1. SkillTypeOK
  BY DEF SkillInv
<1>2. SkillsStand
  <2>1. EditsUnderWay = {} => \A f \in Forms : settled[f] # "unknown" => forms[f] = settled[f]
    BY DEF SkillInv, Matches, Matched
  <2>2. Known2(settled)
    BY DEF SkillInv
  <2> QED
    BY <2>1, <2>2, SkillNames DEF Known2, SkillsStand
<1> QED
  BY <1>1, <1>2

-----------------------------------------------------------------------------
(* Agent profiles.                                                         *)

RequestRecords ==
  [at : {"idle", "activate", "update", "bind"}, id : 0..MaxProfiles, row : Rows,
   session : Conversations \cup {"none"}, activate : BOOLEAN]

\* A row that is there has a name, and so has one that a request is about to write.
NamesAreGiven ==
  /\ \A i \in ProfileIds : profiles[i] # NoProfile => profiles[i].name \in ProfileNames
  /\ \A r \in Requests : request[r].at = "update" =>
       request[r].id \in ProfileIds /\ request[r].row.name \in ProfileNames

\* Ids are given in order.
IdsAreFresh == \A i \in ProfileIds : i > profilesMade => profiles[i] = NoProfile

LastIsActive == activatedLast # Unsure => ActiveProfiles = {activatedLast} \ {0}

ProfileInv == ProfileTypeOK /\ NamesAreGiven /\ IdsAreFresh /\ LastIsActive

LEMMA ProfileNumbers ==
  /\ MaxProfiles \in Nat /\ MaxRequests \in Nat /\ MaxSeconds \in Nat
  /\ "none" \notin ProfileNames /\ Unsure \notin ProfileIds /\ 0 \notin ProfileIds
  /\ Unsure # 0 /\ NoProfile \in Rows /\ NoRequest \in RequestRecords
BY ProfileAssumption DEF ProfileIds, Unsure, NoProfile, NoRequest, Rows, RequestRecords

LEMMA Doubled == ASSUME NEW n \in Nat, NEW s \in 0..n PROVE 2 * s \in 0..(2 * n + 1)
OBVIOUS

\* What ProfileTypeOK says of the requests.
LEMMA ProfileTypes ==
  ProfileTypeOK <=>
    /\ profiles \in [ProfileIds -> Rows] /\ profilesMade \in 0..MaxProfiles
    /\ bound \in [Conversations -> 0..MaxProfiles]
    /\ request \in [Requests -> RequestRecords]
    /\ requests \in 0..MaxRequests /\ second \in 0..MaxSeconds
    /\ activatedLast \in 0..Unsure
BY DEF ProfileTypeOK, RequestRecords

LEMMA ProfileStarts == ProfileInit => ProfileInv
<1> SUFFICES ASSUME ProfileInit PROVE ProfileInv
  OBVIOUS
<1>1. ProfileTypeOK
  BY ProfileNumbers, ProfileTypes DEF ProfileInit, Unsure
<1>2. NamesAreGiven
  BY DEF ProfileInit, NamesAreGiven, NoRequest
<1>3. LastIsActive /\ IdsAreFresh
  BY DEF ProfileInit, LastIsActive, ActiveProfiles, Present, IdsAreFresh
<1> QED
  BY <1>1, <1>2, <1>3 DEF ProfileInv

\* The rows and the activation as they were, and requests that are not an update.
LEMMA ProfilesStand ==
  ASSUME ProfileInv, UNCHANGED <<profiles, profilesMade, activatedLast>>,
         request' \in [Requests -> RequestRecords],
         \A r \in Requests : request'[r].at = "update" =>
           request'[r].id \in ProfileIds /\ request'[r].row.name \in ProfileNames
  PROVE  NamesAreGiven' /\ IdsAreFresh' /\ LastIsActive'
BY DEF ProfileInv, NamesAreGiven, IdsAreFresh, LastIsActive, ActiveProfiles, Present

LEMMA RequestIsOver ==
  ASSUME ProfileInv, NEW r \in Requests, RequestEnds(r)
  PROVE  /\ request' \in [Requests -> RequestRecords]
         /\ \A q \in Requests : request'[q].at = "update" =>
              request'[q].id \in ProfileIds /\ request'[q].row.name \in ProfileNames
BY ProfileNumbers, ProfileTypes DEF ProfileInv, RequestEnds, NamesAreGiven, NoRequest

LEMMA RequestIsTheSame ==
  ASSUME ProfileInv, UNCHANGED request
  PROVE  /\ request' \in [Requests -> RequestRecords]
         /\ \A q \in Requests : request'[q].at = "update" =>
              request'[q].id \in ProfileIds /\ request'[q].row.name \in ProfileNames
BY ProfileTypes DEF ProfileInv, NamesAreGiven

LEMMA RequestIsNew ==
  ASSUME ProfileInv, NEW r \in Requests, NEW q \in RequestRecords,
         q.at = "update" => q.id \in ProfileIds /\ q.row.name \in ProfileNames,
         request' = [request EXCEPT ![r] = q]
  PROVE  /\ request' \in [Requests -> RequestRecords]
         /\ \A x \in Requests : request'[x].at = "update" =>
              request'[x].id \in ProfileIds /\ request'[x].row.name \in ProfileNames
BY ProfileTypes DEF ProfileInv, NamesAreGiven

\* An activation, whatever becomes of the request.
LEMMA ActivateKeeps ==
  ASSUME ProfileInv, NEW id, Activate(id),
         request' \in [Requests -> RequestRecords],
         \A q \in Requests : request'[q].at = "update" =>
           request'[q].id \in ProfileIds /\ request'[q].row.name \in ProfileNames,
         requests' \in 0..MaxRequests
  PROVE  ProfileInv'
<1> USE DEF ProfileInv
<1>1. /\ second' \in 0..MaxSeconds /\ second' \in Nat /\ UNCHANGED <<profilesMade, bound>>
      /\ profiles \in [ProfileIds -> Rows]
  BY ProfileTypes, ProfileNumbers DEF Activate, Later
<1>2. CASE id \notin Present
  <2>1. UNCHANGED <<profiles, activatedLast>>
    BY <1>2 DEF Activate
  <2> QED
    BY <1>1, <2>1, ProfilesStand DEF ProfileTypeOK, RequestRecords
<1>3. CASE id \in Present
  <2>1. /\ id \in ProfileIds /\ activatedLast' = id /\ profiles' = ActivatedRows(id)
        /\ profiles[id] # NoProfile
    BY <1>3 DEF Activate, Present
  <2> DEFINE now(i) == [profiles[i] EXCEPT !.active = TRUE, !.stamp = Now]
             rest(i) == [profiles[i] EXCEPT !.active = FALSE, !.stamp = Now]
  <2>2. Now \in 0..(2 * MaxSeconds + 1)
    <3>1. second' \in 0..MaxSeconds /\ MaxSeconds \in Nat
      BY <1>1, ProfileNumbers
    <3> QED
      BY <3>1, Doubled DEF Now
  <2>3. ASSUME NEW i \in ProfileIds
        PROVE  /\ now(i) \in Rows /\ now(i).name = profiles[i].name /\ now(i).active = TRUE
               /\ rest(i) \in Rows /\ rest(i).name = profiles[i].name
               /\ rest(i).active = FALSE
    BY <1>1, <2>2 DEF Rows
  <2>4. /\ profiles' \in [ProfileIds -> Rows]
        /\ profiles'[id] = now(id)
        /\ \A i \in ProfileIds \ {id} :
             profiles'[i] = IF i \in ActiveProfiles THEN rest(i) ELSE profiles[i]
    <3>1. profiles' = [i \in ProfileIds |-> IF i = id THEN now(i)
                         ELSE IF i \in ActiveProfiles THEN rest(i) ELSE profiles[i]]
      BY <2>1 DEF ActivatedRows
    <3> HIDE DEF now, rest
    <3> QED
      BY <1>1, <2>1, <2>3, <3>1
  <2> HIDE DEF now, rest
  <2>5. /\ \A i \in ProfileIds : profiles'[i].name = profiles[i].name
        /\ \A i \in ProfileIds : profiles'[i] # NoProfile => profiles[i] # NoProfile
        /\ profiles'[id] # NoProfile /\ profiles'[id].active
    <3>1. \A i \in ActiveProfiles : profiles[i] # NoProfile
      BY DEF ActiveProfiles, Present
    <3>2. profiles[id].name # "none"
      BY <2>1, ProfileNumbers DEF NamesAreGiven
    <3>3. \A i \in ProfileIds : profiles'[i].name = profiles[i].name
      BY <2>1, <2>3, <2>4
    <3>4. \A i \in ProfileIds : profiles'[i] # NoProfile => profiles[i] # NoProfile
      BY <2>1, <2>4, <3>1, Zenon
    <3>5. profiles'[id] # NoProfile
      BY <2>1, <3>2, <3>3 DEF NoProfile
    <3>6. profiles'[id].active
      BY <2>1, <2>3, <2>4, Zenon
    <3> QED
      BY <3>3, <3>4, <3>5, <3>6
  <2>6. NamesAreGiven' /\ IdsAreFresh'
    BY <1>1, <2>5 DEF NamesAreGiven, IdsAreFresh
  <2>7. ActiveProfiles' = {id}
    <3>1. ASSUME NEW i \in ProfileIds, i # id PROVE i \notin ActiveProfiles'
      <4>1. CASE i \in ActiveProfiles
        BY <2>3, <2>4, <3>1, <4>1 DEF ActiveProfiles
      <4>2. CASE i \notin ActiveProfiles
        BY <2>4, <3>1, <4>2 DEF ActiveProfiles, Present
      <4> QED
        BY <4>1, <4>2
    <3>2. id \in ActiveProfiles'
      BY <2>1, <2>5 DEF ActiveProfiles, Present
    <3>3. ActiveProfiles' \subseteq ProfileIds
      BY DEF ActiveProfiles, Present
    <3> QED
      BY <3>1, <3>2, <3>3
  <2>8. LastIsActive'
    BY <2>1, <2>7, ProfileNumbers DEF LastIsActive
  <2>9. ProfileTypeOK'
    BY <1>1, <2>1, <2>4, ProfileNumbers DEF ProfileIds, Unsure, ProfileTypeOK, RequestRecords
  <2> QED
    BY <2>6, <2>8, <2>9
<1> QED
  BY <1>2, <1>3

LEMMA CreateKeeps ==
  ASSUME ProfileInv, NEW r \in Requests, Create(r)
  PROVE  ProfileInv'
<1> USE DEF ProfileInv
<1> PICK name \in ProfileNames, text \in ProfileTexts, active \in BOOLEAN :
      /\ Later /\ profilesMade' = profilesMade + 1
      /\ profiles' = [profiles EXCEPT ![profilesMade'] =
           [name |-> name, text |-> text, active |-> active, stamp |-> NowInCreate]]
      /\ IF active
         THEN /\ activatedLast' = Unsure
              /\ request' = [request EXCEPT ![r] =
                   [NoRequest EXCEPT !.at = "activate", !.id = profilesMade']]
         ELSE UNCHANGED <<activatedLast, request>>
  BY Zenon DEF Create
<1> DEFINE id == profilesMade'
           row == [name |-> name, text |-> text, active |-> active, stamp |-> NowInCreate]
           new == [NoRequest EXCEPT !.at = "activate", !.id = id]
<1>1. /\ profilesMade < MaxProfiles /\ requests < MaxRequests /\ requests' = requests + 1
      /\ UNCHANGED bound /\ second' \in 0..MaxSeconds
  BY ProfileTypes, ProfileNumbers DEF Create, NewRequest, Later
<1>2. id \in ProfileIds /\ id \in 0..MaxProfiles /\ requests' \in 0..MaxRequests
  BY <1>1, ProfileTypes, ProfileNumbers DEF ProfileIds
<1>3. row \in Rows /\ row.name = name /\ row.active = active
  <2>1. NowInCreate \in 0..(2 * MaxSeconds + 1)
    BY <1>1, ProfileNumbers DEF NowInCreate
  <2> QED
    BY <2>1 DEF Rows
<1>4. new \in RequestRecords /\ new.at = "activate"
  BY <1>2, ProfileNumbers DEF NoRequest, RequestRecords
<1> HIDE DEF row, new
<1>5. /\ profiles' \in [ProfileIds -> Rows] /\ profiles'[id] = row
      /\ \A i \in ProfileIds \ {id} : profiles'[i] = profiles[i]
  BY <1>2, <1>3, ProfileTypes DEF row
<1>6. /\ request' \in [Requests -> RequestRecords]
      /\ \A q \in Requests : request'[q].at = "update" =>
           request'[q].id \in ProfileIds /\ request'[q].row.name \in ProfileNames
  <2>1. CASE active
    BY <1>4, <2>1, RequestIsNew DEF new
  <2>2. CASE ~active
    BY <2>2, RequestIsTheSame
  <2> QED
    BY <2>1, <2>2
<1>7. activatedLast' \in 0..Unsure
  BY ProfileTypes, ProfileNumbers DEF Unsure
<1>8. ProfileTypeOK'
  BY <1>1, <1>2, <1>5, <1>6, <1>7 DEF ProfileTypeOK, RequestRecords, ProfileIds
<1>9. NamesAreGiven' /\ IdsAreFresh'
  BY <1>1, <1>2, <1>3, <1>5, <1>6, ProfileTypes, ProfileNumbers
  DEF NamesAreGiven, IdsAreFresh, ProfileIds
<1>10. LastIsActive'
  <2>1. CASE active
    BY <2>1 DEF LastIsActive, Unsure
  <2>2. CASE ~active
    <3>1. ~profiles'[id].active
      BY <1>3, <1>5, <2>2
    <3>2. id \notin ActiveProfiles /\ id \notin ActiveProfiles'
      BY <1>1, <1>2, <3>1, ProfileTypes, ProfileNumbers
      DEF IdsAreFresh, ActiveProfiles, Present, ProfileIds
    <3>3. ActiveProfiles' = ActiveProfiles
      BY <1>5, <3>2 DEF ActiveProfiles, Present
    <3> QED
      BY <2>2, <3>3 DEF LastIsActive, Unsure
  <2> QED
    BY <2>1, <2>2
<1> QED
  BY <1>8, <1>9, <1>10


LEMMA UpdateKeeps ==
  ASSUME ProfileInv, NEW r \in Requests, Update(r)
  PROVE  ProfileInv'
<1> USE DEF ProfileInv
<1> DEFINE id == request[r].id
           row == request[r].row
<1>0. request[r] \in RequestRecords
  BY ProfileTypes
<1>1. /\ request[r].at = "update" /\ id \in ProfileIds /\ row.name \in ProfileNames
      /\ requests' = requests /\ row \in Rows
  BY <1>0 DEF Update, NamesAreGiven, RequestRecords
<1>2. CASE Failed /\ RequestEnds(r)
  <2>1. /\ request' \in [Requests -> RequestRecords]
        /\ \A q \in Requests : request'[q].at = "update" =>
             request'[q].id \in ProfileIds /\ request'[q].row.name \in ProfileNames
    BY <1>2, RequestIsOver
  <2> QED
    BY <1>1, <1>2, <2>1, ProfilesStand DEF Failed, ProfileTypeOK, RequestRecords
<1>3. CASE /\ id \in Present /\ Later
           /\ profiles' = [profiles EXCEPT ![id].name = row.name, ![id].text = row.text,
                                           ![id].stamp = Now]
           /\ IF request[r].activate
              THEN request' = [request EXCEPT ![r].at = "activate"]
              ELSE RequestEnds(r)
           /\ UNCHANGED <<profilesMade, bound, activatedLast>>
  <2> DEFINE new == [profiles[id] EXCEPT !.name = row.name, !.text = row.text, !.stamp = Now]
             asked == [request[r] EXCEPT !.at = "activate"]
  <2>1. second' \in 0..MaxSeconds /\ Now \in 0..(2 * MaxSeconds + 1)
    BY <1>3, ProfileTypes, ProfileNumbers DEF Later, Now
  <2>2. profiles \in [ProfileIds -> Rows] /\ profiles[id] # NoProfile
    BY <1>3, ProfileTypes DEF Present
  <2>3. /\ new \in Rows /\ new.name = row.name
        /\ new.active = profiles[id].active
    BY <1>1, <2>1, <2>2 DEF Rows
  <2>4. profiles' = [profiles EXCEPT ![id] = new]
    BY <1>3
  <2>5. asked \in RequestRecords /\ asked.at = "activate"
    BY <1>0 DEF RequestRecords
  <2>6. request[r].activate => request' = [request EXCEPT ![r] = asked]
    BY <1>3
  <2> HIDE DEF new, asked
  <2>7. /\ profiles' \in [ProfileIds -> Rows] /\ profiles'[id] = new
        /\ \A i \in ProfileIds \ {id} : profiles'[i] = profiles[i]
    BY <1>1, <2>2, <2>3, <2>4
  <2>8. /\ request' \in [Requests -> RequestRecords]
        /\ \A q \in Requests : request'[q].at = "update" =>
             request'[q].id \in ProfileIds /\ request'[q].row.name \in ProfileNames
    <3>1. CASE request[r].activate
      BY <2>5, <2>6, <3>1, RequestIsNew
    <3>2. CASE ~request[r].activate
      BY <1>3, <3>2, RequestIsOver
    <3> QED
      BY <3>1, <3>2
  <2>9. ProfileTypeOK'
    BY <1>1, <1>3, <2>1, <2>7, <2>8 DEF ProfileTypeOK, RequestRecords, Unsure
  <2>10. NamesAreGiven' /\ IdsAreFresh'
    BY <1>1, <1>3, <2>2, <2>3, <2>7, <2>8 DEF NamesAreGiven, IdsAreFresh
  <2>11. ActiveProfiles' = ActiveProfiles
    <3>1. new # NoProfile
      BY <1>1, <2>3, ProfileNumbers DEF NoProfile
    <3>2. \A i \in ProfileIds : profiles'[i] # NoProfile <=> profiles[i] # NoProfile
      BY <2>2, <2>7, <3>1
    <3>3. \A i \in ProfileIds : profiles'[i].active = profiles[i].active
      BY <2>3, <2>7
    <3> QED
      BY <3>2, <3>3, Zenon DEF ActiveProfiles, Present
  <2> QED
    BY <1>3, <2>9, <2>10, <2>11 DEF LastIsActive, Unsure
<1> QED
  BY <1>2, <1>3, Zenon DEF Update

LEMMA DeleteKeeps ==
  ASSUME ProfileInv, NEW r \in Requests, AgentProfileDelete(r)
  PROVE  ProfileInv'
<1> USE DEF ProfileInv
<1> PICK id \in Present :
      /\ profiles' = [profiles EXCEPT ![id] = NoProfile]
      /\ activatedLast' = IF activatedLast = id THEN 0 ELSE activatedLast
  BY Zenon DEF AgentProfileDelete
<1>1. /\ UNCHANGED <<profilesMade, bound, request, second>>
      /\ requests < MaxRequests /\ requests' = requests + 1
      /\ id \in ProfileIds /\ profiles \in [ProfileIds -> Rows]
  BY ProfileTypes DEF AgentProfileDelete, NewRequest, Present
<1>2. /\ profiles' \in [ProfileIds -> Rows] /\ profiles'[id] = NoProfile
      /\ \A i \in ProfileIds \ {id} : profiles'[i] = profiles[i]
  BY <1>1, ProfileNumbers
<1>3. ProfileTypeOK'
  BY <1>1, <1>2, ProfileTypes, ProfileNumbers DEF ProfileTypeOK, RequestRecords, Unsure
<1>4. NamesAreGiven' /\ IdsAreFresh'
  BY <1>1, <1>2 DEF NamesAreGiven, IdsAreFresh
<1>5. ActiveProfiles' = ActiveProfiles \ {id}
  BY <1>1, <1>2 DEF ActiveProfiles, Present
<1>6. LastIsActive'
  BY <1>1, <1>5, ProfileNumbers DEF LastIsActive, Unsure
<1> QED
  BY <1>3, <1>4, <1>6

\* The actions that change neither profiles nor their activation.
LEMMA OtherRequestsKeep ==
  ASSUME ProfileInv, NEW r \in Requests,
         \/ AgentProfileUpdate(r) \/ BindSessionToActiveProfile(r)
         \/ UpdateSessionAgentProfile(r) \/ BindAgentProfile(r)
  PROVE  ProfileInv'
<1> USE DEF ProfileInv
<1>1. /\ UNCHANGED <<profiles, profilesMade, second, activatedLast>>
      /\ requests' \in 0..MaxRequests
  <2>1. /\ UNCHANGED <<profiles, profilesMade, second, activatedLast>>
        /\ (requests < MaxRequests /\ requests' = requests + 1) \/ requests' = requests
    BY Zenon DEF AgentProfileUpdate, BindSessionToActiveProfile, UpdateSessionAgentProfile,
                 BindAgentProfile, Failed, NewRequest
  <2> QED
    BY <2>1, ProfileTypes, ProfileNumbers
<1>2. SUFFICES
        /\ request' \in [Requests -> RequestRecords]
        /\ \A q \in Requests : request'[q].at = "update" =>
             request'[q].id \in ProfileIds /\ request'[q].row.name \in ProfileNames
        /\ bound' \in [Conversations -> 0..MaxProfiles]
  BY <1>1, ProfilesStand DEF ProfileTypeOK, RequestRecords, Unsure
<1>3. CASE AgentProfileUpdate(r)
  <2> PICK id \in Present, name \in ProfileNames, text \in ProfileTexts, activate \in BOOLEAN :
        \E row \in {[profiles[id] EXCEPT !.name = name], [profiles[id] EXCEPT !.text = text]} :
          request' = [request EXCEPT ![r] =
            [NoRequest EXCEPT !.at = "update", !.id = id, !.row = row, !.activate = activate]]
    BY <1>3, Zenon DEF AgentProfileUpdate
  <2> PICK row \in {[profiles[id] EXCEPT !.name = name], [profiles[id] EXCEPT !.text = text]} :
        request' = [request EXCEPT ![r] =
          [NoRequest EXCEPT !.at = "update", !.id = id, !.row = row, !.activate = activate]]
    OBVIOUS
  <2>1. id \in ProfileIds /\ profiles[id] \in Rows /\ profiles[id].name \in ProfileNames
    BY ProfileTypes DEF Present, NamesAreGiven
  <2>2. row \in Rows /\ row.name \in ProfileNames
    BY <2>1 DEF Rows
  <2> DEFINE q == [NoRequest EXCEPT !.at = "update", !.id = id, !.row = row,
                                    !.activate = activate]
  <2>3. q \in RequestRecords /\ q.id \in ProfileIds /\ q.row.name \in ProfileNames
    <3>1. id \in 0..MaxProfiles
      BY <2>1, ProfileNumbers DEF ProfileIds
    <3>2. CASE activate = TRUE
      BY <2>1, <2>2, <3>1, <3>2, ProfileNumbers DEF RequestRecords
    <3>3. CASE activate = FALSE
      BY <2>1, <2>2, <3>1, <3>3, ProfileNumbers DEF RequestRecords
    <3> QED
      BY <3>2, <3>3
  <2>4. UNCHANGED bound
    BY <1>3 DEF AgentProfileUpdate, Failed
  <2> HIDE DEF q
  <2>5. request' = [request EXCEPT ![r] = q]
    BY DEF q
  <2> QED
    BY <2>3, <2>4, <2>5, RequestIsNew, ProfileTypes
<1>4. CASE BindSessionToActiveProfile(r) \/ UpdateSessionAgentProfile(r)
  <2> PICK id \in Present \cup {0}, c \in Conversations :
        request' = [request EXCEPT ![r] =
          [NoRequest EXCEPT !.at = "bind", !.id = id, !.session = c]]
    BY <1>4 DEF BindSessionToActiveProfile, UpdateSessionAgentProfile, GetActive, ActiveProfiles
  <2> DEFINE q == [NoRequest EXCEPT !.at = "bind", !.id = id, !.session = c]
  <2>1. q \in RequestRecords /\ q.at = "bind"
    <3>1. id \in 0..MaxProfiles
      BY ProfileNumbers DEF Present, ProfileIds
    <3> QED
      BY <3>1, ProfileNumbers DEF RequestRecords
  <2>2. UNCHANGED bound
    BY <1>4 DEF BindSessionToActiveProfile, UpdateSessionAgentProfile, Failed
  <2> HIDE DEF q
  <2>3. request' = [request EXCEPT ![r] = q]
    BY DEF q
  <2> QED
    BY <2>1, <2>2, <2>3, RequestIsNew, ProfileTypes
<1>5. CASE BindAgentProfile(r)
  <2>1. request[r] \in RequestRecords
    BY ProfileTypes
  <2>2. /\ RequestEnds(r)
        /\ \/ bound' = [bound EXCEPT ![request[r].session] = request[r].id]
           \/ UNCHANGED bound
    BY <1>5 DEF BindAgentProfile, Failed
  <2>3. bound' \in [Conversations -> 0..MaxProfiles]
    BY <2>1, <2>2, ProfileTypes DEF RequestRecords
  <2> QED
    BY <2>2, <2>3, RequestIsOver
<1> QED
  BY <1>3, <1>4, <1>5

LEMMA ProfileStep == ProfileInv /\ [ProfileNext]_profileVars => ProfileInv'
<1> SUFFICES ASSUME ProfileInv, [ProfileNext]_profileVars PROVE ProfileInv'
  OBVIOUS
<1> USE DEF ProfileInv
<1>1. CASE UNCHANGED profileVars
  <2>1. UNCHANGED <<profiles, profilesMade, bound, request, requests, second, activatedLast>>
    BY <1>1 DEF profileVars
  <2> QED
    BY <2>1, RequestIsTheSame, ProfilesStand DEF ProfileTypeOK, Unsure
<1>2. ASSUME NEW r \in Requests, AgentProfileActivate(r) PROVE ProfileInv'
  <2> PICK id \in 1..profilesMade : Activate(id)
    BY <1>2, Zenon DEF AgentProfileActivate
  <2>1. UNCHANGED request /\ requests' \in 0..MaxRequests
    BY <1>2, ProfileTypes, ProfileNumbers DEF AgentProfileActivate, NewRequest
  <2> QED
    BY <2>1, RequestIsTheSame, ActivateKeeps
<1>3. ASSUME NEW r \in Requests, AlsoActivate(r) PROVE ProfileInv'
  <2>1. RequestEnds(r) /\ UNCHANGED requests /\ (Activate(request[r].id) \/ Failed)
    BY <1>3 DEF AlsoActivate
  <2>2. /\ request' \in [Requests -> RequestRecords]
        /\ \A q \in Requests : request'[q].at = "update" =>
             request'[q].id \in ProfileIds /\ request'[q].row.name \in ProfileNames
    BY <2>1, RequestIsOver
  <2>3. CASE Activate(request[r].id)
    BY <2>1, <2>2, <2>3, ActivateKeeps, ProfileTypes
  <2>4. CASE Failed
    BY <2>1, <2>2, <2>4, ProfilesStand DEF Failed, ProfileTypeOK, RequestRecords, Unsure
  <2> QED
    BY <2>1, <2>3, <2>4
<1>4. ASSUME ProfilesCrash PROVE ProfileInv'
  <2>1. /\ request' \in [Requests -> RequestRecords]
        /\ \A q \in Requests : request'[q].at = "update" =>
             request'[q].id \in ProfileIds /\ request'[q].row.name \in ProfileNames
    BY <1>4, ProfileNumbers DEF ProfilesCrash, NoRequest
  <2> QED
    BY <1>4, <2>1, ProfilesStand
    DEF ProfilesCrash, Failed, ProfileTypeOK, RequestRecords, Unsure
<1> QED
  BY <1>1, <1>2, <1>3, <1>4, CreateKeeps, UpdateKeeps, DeleteKeeps, OtherRequestsKeep, Zenon
  DEF ProfileNext

LEMMA ProfileInvChosen == ProfileInv => ActiveIsLastChosen
<1> SUFFICES ASSUME ProfileInv, activatedLast # Unsure
             PROVE  ActiveProfiles = {activatedLast} \ {0} /\ GetActive = ActiveProfiles
  BY DEF ActiveIsLastChosen
<1>1. ActiveProfiles = {activatedLast} \ {0}
  BY DEF ProfileInv, LastIsActive
<1>2. \A i \in ActiveProfiles : profiles[i].stamp \in Nat
  BY ProfileTypes, ProfileNumbers DEF ProfileInv, ActiveProfiles, Present, Rows
<1> QED
  BY <1>1, <1>2 DEF GetActive

-----------------------------------------------------------------------------
(* The knowledge graph.                                                    *)

MemoryRecords ==
  [step : {"none", "update", "failed", "done"}, listed : SUBSET RowIds, seen : SUBSET RowIds,
   wanted : [RowIds -> KnowledgeRows \cup {NoRow}]]

GraphTypes ==
  /\ rows \in [RowIds -> KnowledgeRows \cup {NoRow}] /\ rowsMade \in 0..MaxRows
  /\ edges \subseteq RowIds \X RowIds
  /\ lessons \in 0..MaxLessons /\ memoryEdits \in 0..MaxEdits
  /\ memory \in MemoryRecords /\ memory.seen \subseteq memory.listed
  /\ touched \subseteq RowIds /\ uncascaded \subseteq RowIds

\* Ids are given in order, and a name is one row's.
RowsAreOwn ==
  /\ \A i \in RowIds : i > rowsMade => rows[i] = NoRow
  /\ \A i, j \in Known : rows[i].name = rows[j].name => i = j

EdgesHaveEnds == \A e \in edges : {e[1], e[2]} \subseteq Known \cup uncascaded

\* What the edit has seen is as it should be, but for what others have changed; the rows
\* that stay come first, and until they are through every row is still there.
SeenIsWanted ==
  /\ memory.step # "none" => \A i \in memory.seen \ touched : rows[i] = memory.wanted[i]
  /\ memory.step = "done" => memory.seen = memory.listed
  /\ memory.step \in {"update", "failed"} /\ ToKeep \ memory.seen # {} =>
       memory.listed \ touched \subseteq Known

KnowledgeInv == GraphTypes /\ RowsAreOwn /\ EdgesHaveEnds /\ SeenIsWanted

LEMMA KnowledgeNumbers ==
  /\ MaxRows \in Nat /\ MaxLessons \in Nat /\ MaxEdits \in Nat
  /\ "none" \notin EntityNames /\ RowIds = 1..MaxRows
  /\ NoRow.name = "none" /\ NoRow \notin KnowledgeRows
BY KnowledgeAssumption DEF RowIds, NoRow, KnowledgeRows

LEMMA KnowledgeStarts == KnowledgeInit => KnowledgeInv
<1> SUFFICES ASSUME KnowledgeInit PROVE KnowledgeInv
  OBVIOUS
<1>1. NoMemoryEdit \in MemoryRecords
  BY DEF NoMemoryEdit, MemoryRecords
<1>2. GraphTypes
  BY <1>1, KnowledgeNumbers DEF KnowledgeInit, GraphTypes, NoMemoryEdit
<1>3. RowsAreOwn /\ EdgesHaveEnds /\ SeenIsWanted
  BY DEF KnowledgeInit, RowsAreOwn, EdgesHaveEnds, SeenIsWanted, Known, NoMemoryEdit
<1> QED
  BY <1>2, <1>3 DEF KnowledgeInv

\* The row that a name has or gets.
LEMMA RowOfName ==
  ASSUME KnowledgeInv, NEW name \in EntityNames, NEW kind \in Kinds, NEW sure \in BOOLEAN,
         Learn(name, kind, sure)
  PROVE  LET id == IdOf(name) IN
         /\ id \in RowIds /\ rows' \in [RowIds -> KnowledgeRows \cup {NoRow}]
         /\ rows'[id] # NoRow /\ rows'[id].name = name
         /\ \A i \in RowIds \ {id} : rows'[i] = rows[i]
         /\ rowsMade' \in 0..MaxRows /\ touched' = touched \cup {id}
         /\ RowsAreOwn' /\ Known' = Known \cup {id}
<1> USE DEF KnowledgeInv
<1> DEFINE id == IdOf(name)
           both == sure \/ (rows[id] # NoRow /\ rows[id].sure)
           row == [name |-> name, kind |-> kind, sure |-> both]
<1>1. /\ id \in RowIds /\ touched' = touched \cup {id}
      /\ rowsMade' = (IF Named(name) = {} THEN rowsMade + 1 ELSE rowsMade)
      /\ rows' = [rows EXCEPT ![id] = row]
      /\ rows \in [RowIds -> KnowledgeRows \cup {NoRow}] /\ rowsMade \in 0..MaxRows
  <2> DEFINE given == [name |-> name, kind |-> kind, sure |-> sure]
  <2>1. [given EXCEPT !.sure = both] = row
    OBVIOUS
  <2>2. rows' = [rows EXCEPT ![id] = [given EXCEPT !.sure = given.sure
                                         \/ (rows[id] # NoRow /\ rows[id].sure)]]
    BY DEF Learn, Upsert
  <2>3. given.sure = sure
    OBVIOUS
  <2> HIDE DEF given, row
  <2>4. rows' = [rows EXCEPT ![id] = row]
    BY <2>1, <2>2, <2>3
  <2> QED
    BY <2>4 DEF Learn, GraphTypes
<1>2. /\ Named(name) # {} => id \in Named(name)
      /\ Named(name) = {} => id = rowsMade + 1
  BY DEF IdOf
<1> HIDE DEF id
<1>3. both \in BOOLEAN
  <2>1. rows[id] # NoRow => rows[id].sure \in BOOLEAN
    BY <1>1, Zenon DEF KnowledgeRows
  <2> QED
    BY <2>1, Zenon
<1> HIDE DEF both
<1>4. row \in KnowledgeRows /\ row.name = name
  BY <1>3 DEF KnowledgeRows
<1> HIDE DEF row
<1>5. /\ rows' \in [RowIds -> KnowledgeRows \cup {NoRow}] /\ rows'[id] = row
      /\ \A i \in RowIds \ {id} : rows'[i] = rows[i]
  BY <1>1, <1>4
<1>6. row # NoRow
  BY <1>4, KnowledgeNumbers
<1>7. rowsMade' \in 0..MaxRows
  BY <1>1, <1>2, KnowledgeNumbers
<1>8. Known' = Known \cup {id}
  BY <1>1, <1>5, <1>6 DEF Known
<1>9. RowsAreOwn'
  <2>1. \A i \in RowIds : i > rowsMade' => rows'[i] = NoRow
    <3> SUFFICES ASSUME NEW i \in RowIds, i > rowsMade' PROVE rows'[i] = NoRow
      OBVIOUS
    <3>1. i > rowsMade /\ i # id
      <4>1. CASE Named(name) = {}
        BY <1>1, <1>2, <4>1, KnowledgeNumbers
      <4>2. CASE Named(name) # {}
        <5>1. rows[id] # NoRow
          BY <1>2, <4>2 DEF Named, Known
        <5> QED
          BY <1>1, <4>2, <5>1 DEF RowsAreOwn
      <4> QED
        BY <4>1, <4>2
    <3> QED
      BY <1>5, <3>1 DEF RowsAreOwn
  <2>2. ASSUME NEW i \in Known \ {id} PROVE rows[i].name # name
    <3>1. CASE Named(name) = {}
      BY <3>1 DEF Named
    <3>2. CASE Named(name) # {}
      BY <1>2, <3>2 DEF Named, RowsAreOwn
    <3> QED
      BY <3>1, <3>2
  <2>3. \A i, j \in Known' : rows'[i].name = rows'[j].name => i = j
    BY <1>4, <1>5, <1>8, <2>2 DEF RowsAreOwn, Known
  <2> QED
    BY <2>1, <2>3 DEF RowsAreOwn
<1> QED
  BY <1>1, <1>4, <1>5, <1>6, <1>7, <1>8, <1>9 DEF id

\* Others do not disturb an edit, as what they change is no longer its own.
LEMMA EditIsUndisturbed ==
  ASSUME KnowledgeInv, KeepMemory, touched \subseteq touched',
         \A i \in RowIds \ touched' : rows'[i] = rows[i]
  PROVE  SeenIsWanted' /\ UNCHANGED <<memory, memoryEdits>>
<1>1. /\ memory' = memory /\ memoryEdits' = memoryEdits
      /\ memory.seen \subseteq RowIds /\ memory.listed \subseteq RowIds
  BY DEF KeepMemory, KnowledgeInv, GraphTypes, MemoryRecords
<1>2. \A i \in memory.listed \ touched' : i \in Known => i \in Known'
  BY <1>1 DEF Known
<1>3. ToKeep' = ToKeep
  BY <1>1 DEF ToKeep
<1> QED
  BY <1>1, <1>2, <1>3 DEF KnowledgeInv, SeenIsWanted

LEMMA LessonCounts ==
  ASSUME KnowledgeInv, Lesson
  PROVE  lessons' \in 0..MaxLessons
BY KnowledgeNumbers DEF KnowledgeInv, GraphTypes, Lesson

\* Something is learnt, and with it perhaps an edge between rows that are there.
LEMMA LearningKeeps ==
  ASSUME KnowledgeInv, NEW name \in EntityNames, NEW kind \in Kinds, NEW sure \in BOOLEAN,
         Lesson, Learn(name, kind, sure), UNCHANGED uncascaded, KeepMemory,
         NEW more, edges' = edges \cup more,
         more = {} \/ \E other \in Known :
           \E edge \in {<<IdOf(name), other>>, <<other, IdOf(name)>>} : more = {edge}
  PROVE  KnowledgeInv'
<1>1. /\ IdOf(name) \in RowIds /\ rows' \in [RowIds -> KnowledgeRows \cup {NoRow}]
      /\ \A i \in RowIds \ {IdOf(name)} : rows'[i] = rows[i]
      /\ rowsMade' \in 0..MaxRows /\ touched' = touched \cup {IdOf(name)}
      /\ RowsAreOwn' /\ Known' = Known \cup {IdOf(name)}
  BY RowOfName
<1>2. lessons' \in 0..MaxLessons
  BY LessonCounts
<1>3. SeenIsWanted' /\ UNCHANGED <<memory, memoryEdits>>
  BY <1>1, EditIsUndisturbed
<1>4. \A e \in more : e \in RowIds \X RowIds /\ {e[1], e[2]} \subseteq Known'
  BY <1>1 DEF Known
<1>5. GraphTypes'
  BY <1>1, <1>2, <1>3, <1>4 DEF KnowledgeInv, GraphTypes
<1>6. EdgesHaveEnds'
  BY <1>1, <1>4 DEF KnowledgeInv, EdgesHaveEnds
<1> QED
  BY <1>1, <1>3, <1>5, <1>6 DEF KnowledgeInv

\* A row goes.
LEMMA RowIsGone ==
  ASSUME KnowledgeInv, NEW id \in RowIds, NEW cascades \in BOOLEAN, DeleteKnown(id, cascades),
         UNCHANGED rowsMade
  PROVE  /\ id \in Known /\ rows' \in [RowIds -> KnowledgeRows \cup {NoRow}]
         /\ rows'[id] = NoRow /\ \A i \in RowIds \ {id} : rows'[i] = rows[i]
         /\ Known' = Known \ {id} /\ RowsAreOwn' /\ EdgesHaveEnds'
         /\ edges' \subseteq edges /\ uncascaded' \subseteq RowIds
<1> USE DEF KnowledgeInv
<1>1. /\ id \in Known /\ rows' = [rows EXCEPT ![id] = NoRow]
      /\ edges' = IF cascades THEN Cascaded(id) ELSE edges
      /\ uncascaded' = IF cascades THEN uncascaded ELSE uncascaded \cup {id}
      /\ rows \in [RowIds -> KnowledgeRows \cup {NoRow}]
  BY DEF DeleteKnown, GraphTypes
<1>2. /\ rows' \in [RowIds -> KnowledgeRows \cup {NoRow}]
      /\ rows'[id] = NoRow /\ \A i \in RowIds \ {id} : rows'[i] = rows[i]
  BY <1>1
<1>3. Known' = Known \ {id}
  BY <1>2 DEF Known
<1>4. RowsAreOwn'
  BY <1>2, <1>3 DEF RowsAreOwn, Known
<1>5. edges' \subseteq edges /\ uncascaded' \subseteq RowIds
  BY <1>1 DEF Cascaded, GraphTypes
<1>6. EdgesHaveEnds'
  BY <1>1, <1>3 DEF EdgesHaveEnds, Cascaded
<1> QED
  BY <1>1, <1>2, <1>3, <1>4, <1>5, <1>6

LEMMA ForgettingKeeps ==
  ASSUME KnowledgeInv, NEW id \in RowIds, NEW cascades \in BOOLEAN,
         Lesson, DeleteKnown(id, cascades), touched' = touched \cup {id},
         UNCHANGED rowsMade, KeepMemory
  PROVE  KnowledgeInv'
<1>1. /\ rows' \in [RowIds -> KnowledgeRows \cup {NoRow}]
      /\ \A i \in RowIds \ {id} : rows'[i] = rows[i]
      /\ RowsAreOwn' /\ EdgesHaveEnds'
      /\ edges' \subseteq edges /\ uncascaded' \subseteq RowIds
  BY RowIsGone
<1>2. SeenIsWanted' /\ UNCHANGED <<memory, memoryEdits>>
  BY <1>1, EditIsUndisturbed
<1>3. lessons' \in 0..MaxLessons
  BY LessonCounts
<1>4. GraphTypes'
  BY <1>1, <1>2, <1>3 DEF KnowledgeInv, GraphTypes
<1> QED
  BY <1>1, <1>2, <1>4 DEF KnowledgeInv

LEMMA AddEdgeKeeps ==
  ASSUME KnowledgeInv, NEW from \in 1..rowsMade, NEW to \in 1..rowsMade, AddEdge(from, to)
  PROVE  KnowledgeInv'
<1> USE DEF KnowledgeInv
<1>1. /\ UNCHANGED <<rows, rowsMade, touched, uncascaded>> /\ KeepMemory /\ Lesson
      /\ edges' = edges \cup (IF {from, to} \subseteq Known THEN {<<from, to>>} ELSE {})
  BY DEF AddEdge
<1>2. SeenIsWanted' /\ UNCHANGED <<memory, memoryEdits>>
  BY <1>1, EditIsUndisturbed
<1>3. Known' = Known /\ lessons' \in 0..MaxLessons
  BY <1>1, LessonCounts DEF Known
<1>4. edges' \subseteq RowIds \X RowIds /\ EdgesHaveEnds'
  BY <1>1, <1>3 DEF EdgesHaveEnds, GraphTypes, Known
<1> QED
  BY <1>1, <1>2, <1>3, <1>4 DEF GraphTypes, RowsAreOwn

-----------------------------------------------------------------------------
LEMMA ListMemoryKeeps ==
  ASSUME KnowledgeInv, ListMemory
  PROVE  KnowledgeInv'
<1> USE DEF KnowledgeInv
<1> PICK listed \in SUBSET Known :
      \E mine \in SUBSET listed \ {{}} : \E wanted \in [mine -> KnowledgeRows] :
        memory' = [step |-> "update", listed |-> listed, seen |-> {},
                   wanted |-> [i \in RowIds |-> IF i \in mine THEN wanted[i] ELSE NoRow]]
  BY DEF ListMemory
<1> PICK mine \in SUBSET listed \ {{}} : \E wanted \in [mine -> KnowledgeRows] :
      memory' = [step |-> "update", listed |-> listed, seen |-> {},
                 wanted |-> [i \in RowIds |-> IF i \in mine THEN wanted[i] ELSE NoRow]]
  OBVIOUS
<1> PICK wanted \in [mine -> KnowledgeRows] :
      memory' = [step |-> "update", listed |-> listed, seen |-> {},
                 wanted |-> [i \in RowIds |-> IF i \in mine THEN wanted[i] ELSE NoRow]]
  OBVIOUS
<1>1. /\ UNCHANGED <<rows, rowsMade, edges, lessons, uncascaded>> /\ touched' = {}
      /\ memoryEdits < MaxEdits /\ memoryEdits' = memoryEdits + 1
  BY DEF ListMemory
<1>2. /\ memory' \in MemoryRecords /\ memory'.seen = {} /\ memory'.listed \subseteq Known
      /\ memory'.step = "update"
  <2>1. [i \in RowIds |-> IF i \in mine THEN wanted[i] ELSE NoRow]
          \in [RowIds -> KnowledgeRows \cup {NoRow}]
    OBVIOUS
  <2> QED
    BY <2>1 DEF MemoryRecords, Known
<1>3. Known' = Known
  BY <1>1 DEF Known
<1>4. GraphTypes'
  BY <1>1, <1>2, KnowledgeNumbers DEF GraphTypes
<1>5. RowsAreOwn' /\ EdgesHaveEnds'
  BY <1>1, <1>3 DEF RowsAreOwn, EdgesHaveEnds
<1>6. SeenIsWanted'
  BY <1>2, <1>3 DEF SeenIsWanted
<1> QED
  BY <1>4, <1>5, <1>6

LEMMA UpdateNodeKeeps ==
  ASSUME KnowledgeInv, NEW id \in RowIds, UpdateNode(id)
  PROVE  KnowledgeInv'
<1> USE DEF KnowledgeInv
<1>1. /\ UNCHANGED <<rowsMade, edges, lessons, memoryEdits, touched, uncascaded>>
      /\ memory.step = "update" /\ id \in ToKeep \ memory.seen
      /\ memory \in MemoryRecords
  BY DEF UpdateNode, GraphTypes
<1> DEFINE row == memory.wanted[id]
<1>2. id \in memory.listed /\ row \in KnowledgeRows /\ row # NoRow
  BY <1>1, KnowledgeNumbers DEF ToKeep, MemoryRecords
<1>3. CASE ~(id \in Known /\ Named(row.name) \subseteq {id})
  <2>1. rows' = rows /\ memory' = [memory EXCEPT !.step = "failed"]
    BY <1>3 DEF UpdateNode
  <2>2. /\ memory' \in MemoryRecords /\ memory'.seen = memory.seen /\ memory'.step = "failed"
        /\ memory'.listed = memory.listed /\ memory'.wanted = memory.wanted
    BY <1>1, <2>1 DEF MemoryRecords
  <2>3. ToKeep' = ToKeep /\ Known' = Known
    BY <2>1, <2>2 DEF ToKeep, Known
  <2> QED
    BY <1>1, <2>1, <2>2, <2>3 DEF GraphTypes, RowsAreOwn, EdgesHaveEnds, SeenIsWanted
<1>4. CASE id \in Known /\ Named(row.name) \subseteq {id}
  <2>1. /\ rows' = [rows EXCEPT ![id] = row]
        /\ memory' = [memory EXCEPT !.seen = @ \cup {id}]
    BY <1>4 DEF UpdateNode
  <2>2. /\ memory' \in MemoryRecords /\ memory'.seen = memory.seen \cup {id}
        /\ memory'.step = memory.step
        /\ memory'.listed = memory.listed /\ memory'.wanted = memory.wanted
    BY <1>1, <2>1 DEF MemoryRecords
  <2> HIDE DEF row
  <2>3. /\ rows' \in [RowIds -> KnowledgeRows \cup {NoRow}] /\ rows'[id] = row
        /\ \A i \in RowIds \ {id} : rows'[i] = rows[i]
    BY <1>2, <2>1 DEF GraphTypes
  <2>4. ToKeep' = ToKeep /\ Known' = Known
    BY <1>2, <1>4, <2>2, <2>3 DEF ToKeep, Known
  <2>5. GraphTypes'
    BY <1>1, <1>2, <2>2, <2>3 DEF GraphTypes
  <2>6. \A i \in Known \ {id} : rows[i].name # row.name
    BY <1>4 DEF Named
  <2>7. RowsAreOwn'
    BY <1>1, <1>4, <2>3, <2>4, <2>6 DEF RowsAreOwn, Known
  <2>8. SeenIsWanted'
    <3>1. \A i \in memory'.seen \ touched' : rows'[i] = memory'.wanted[i]
      BY <1>1, <2>2, <2>3 DEF SeenIsWanted, MemoryRecords, row, GraphTypes
    <3> QED
      BY <1>1, <2>2, <2>4, <3>1 DEF SeenIsWanted
  <2> QED
    BY <1>1, <2>4, <2>5, <2>7, <2>8 DEF EdgesHaveEnds
<1> QED
  BY <1>3, <1>4

LEMMA DeleteNodeKeeps ==
  ASSUME KnowledgeInv, NEW id \in RowIds, DeleteNode(id)
  PROVE  KnowledgeInv'
<1> USE DEF KnowledgeInv
<1>1. /\ UNCHANGED <<rowsMade, lessons, memoryEdits, touched>>
      /\ memory.step = "update" /\ ToKeep \subseteq memory.seen
      /\ id \in memory.listed \ (ToKeep \cup memory.seen)
      /\ memory' = [memory EXCEPT !.seen = @ \cup {id}] /\ memory \in MemoryRecords
  BY DEF DeleteNode, MayDelete, GraphTypes
<1>2. /\ memory' \in MemoryRecords /\ memory'.seen = memory.seen \cup {id}
      /\ memory'.step = memory.step
      /\ memory'.listed = memory.listed /\ memory'.wanted = memory.wanted
  BY <1>1 DEF MemoryRecords
<1>3. memory.wanted[id] = NoRow
  BY <1>1 DEF ToKeep
<1>4. /\ rows' \in [RowIds -> KnowledgeRows \cup {NoRow}] /\ rows'[id] = NoRow
      /\ \A i \in RowIds \ {id} : rows'[i] = rows[i]
      /\ RowsAreOwn' /\ EdgesHaveEnds'
      /\ edges' \subseteq edges /\ uncascaded' \subseteq RowIds
  <2>1. CASE DeleteKnown(id, TRUE)
    BY <1>1, <2>1, RowIsGone
  <2>2. CASE id \notin Known /\ UNCHANGED <<rows, edges, uncascaded>>
    <3>1. Known' = Known
      BY <2>2 DEF Known
    <3> QED
      BY <1>1, <2>2, <3>1 DEF GraphTypes, RowsAreOwn, EdgesHaveEnds, Known
  <2> QED
    BY <2>1, <2>2 DEF DeleteNode
<1>5. ToKeep' = ToKeep
  BY <1>2 DEF ToKeep
<1>6. SeenIsWanted'
  <2>1. \A i \in memory'.seen \ touched' : rows'[i] = memory'.wanted[i]
    BY <1>1, <1>2, <1>3, <1>4 DEF SeenIsWanted, MemoryRecords, GraphTypes
  <2> QED
    BY <1>1, <1>2, <1>5, <2>1 DEF SeenIsWanted
<1>7. GraphTypes'
  BY <1>1, <1>2, <1>4 DEF GraphTypes
<1> QED
  BY <1>4, <1>6, <1>7

\* The edit is refused, or done.
LEMMA EditEndsKeeps ==
  ASSUME KnowledgeInv, RefuseEdit \/ EditIsDone
  PROVE  KnowledgeInv'
<1> USE DEF KnowledgeInv
<1>1. /\ UNCHANGED <<rows, rowsMade, edges, lessons, memoryEdits, touched, uncascaded>>
      /\ memory \in MemoryRecords /\ memory.step = "update"
      /\ \/ memory' = [memory EXCEPT !.step = "failed"]
         \/ memory' = [memory EXCEPT !.step = "done"] /\ memory.seen = memory.listed
  BY DEF RefuseEdit, EditIsDone, GraphTypes
<1>2. /\ memory' \in MemoryRecords /\ memory'.seen = memory.seen
      /\ memory'.listed = memory.listed /\ memory'.wanted = memory.wanted
      /\ \/ memory'.step = "failed"
         \/ memory'.step = "done" /\ memory.seen = memory.listed
  BY <1>1 DEF MemoryRecords
<1>3. ToKeep' = ToKeep /\ Known' = Known
  BY <1>1, <1>2 DEF ToKeep, Known
<1>4. GraphTypes' /\ RowsAreOwn' /\ EdgesHaveEnds'
  BY <1>1, <1>2, <1>3 DEF GraphTypes, RowsAreOwn, EdgesHaveEnds
<1>5. SeenIsWanted'
  BY <1>1, <1>2, <1>3 DEF SeenIsWanted
<1> QED
  BY <1>4, <1>5

LEMMA KnowledgeStep == KnowledgeInv /\ [KnowledgeNext]_knowledgeVars => KnowledgeInv'
<1> SUFFICES ASSUME KnowledgeInv, [KnowledgeNext]_knowledgeVars PROVE KnowledgeInv'
  OBVIOUS
<1>1. CASE UNCHANGED knowledgeVars
  BY <1>1 DEF knowledgeVars, KnowledgeInv, GraphTypes, RowsAreOwn, EdgesHaveEnds,
              SeenIsWanted, Known, ToKeep
<1>2. ASSUME NEW name \in EntityNames, NEW kind \in Kinds, NEW sure \in BOOLEAN,
             IngestEntity(name, kind, sure) \/ AddNode(name, kind, sure)
      PROVE  KnowledgeInv'
  <2>1. /\ Lesson /\ Learn(name, kind, sure) /\ UNCHANGED uncascaded /\ KeepMemory
        /\ edges' = edges \cup {}
    BY <1>2 DEF IngestEntity, AddNode
  <2> QED
    BY <2>1, LearningKeeps
<1>3. ASSUME NEW name \in EntityNames, NEW other \in RowIds, IngestRelation(name, other)
      PROVE  KnowledgeInv'
  <2>1. /\ Lesson /\ Learn(name, "entity", FALSE) /\ UNCHANGED uncascaded /\ KeepMemory
        /\ other \in Known /\ "entity" \in Kinds
    BY <1>3, KnowledgeAssumption DEF IngestRelation
  <2>2. PICK edge \in {<<IdOf(name), other>>, <<other, IdOf(name)>>} :
          edges' = edges \cup {edge}
    BY <1>3 DEF IngestRelation
  <2> QED
    BY <2>1, <2>2, LearningKeeps
<1>4. ASSUME NEW id \in RowIds,
             ForgetByTool(id) \/ \E cascades \in BOOLEAN : DeleteMemoryNode(id, cascades)
      PROVE  KnowledgeInv'
  BY <1>4, ForgettingKeeps DEF ForgetByTool, DeleteMemoryNode
<1> QED
  BY <1>1, <1>2, <1>3, <1>4, AddEdgeKeeps, ListMemoryKeeps, UpdateNodeKeeps, DeleteNodeKeeps,
     EditEndsKeeps, Zenon DEF KnowledgeNext

LEMMA KnowledgeHolds ==
  KnowledgeInv => GraphIsWhole /\ CorrectionsStand /\ KnowledgeTypeOK
<1> SUFFICES ASSUME KnowledgeInv PROVE GraphIsWhole /\ CorrectionsStand /\ KnowledgeTypeOK
  OBVIOUS
<1>1. GraphIsWhole
  BY DEF KnowledgeInv, RowsAreOwn, EdgesHaveEnds, GraphIsWhole
<1>2. CorrectionsStand
  BY DEF KnowledgeInv, SeenIsWanted, CorrectionsStand
<1>3. KnowledgeTypeOK
  BY DEF KnowledgeInv, GraphTypes, MemoryRecords, KnowledgeTypeOK
<1> QED
  BY <1>1, <1>2, <1>3

-----------------------------------------------------------------------------
(* The parts in the program.                                               *)

LEMMA ProviderAsPart == ServicesSpec => ProviderSpec
<1>1. ServicesInit => ProviderInit
  BY DEF ServicesInit
<1>2. [ServicesNext]_servicesVars => [ProviderNext]_providerVars
  BY DEF ServicesNext, Others, servicesVars
<1> QED
  BY <1>1, <1>2, PTL DEF ServicesSpec, ProviderSpec

LEMMA SignInAsPart == ServicesSpec => SignSpec
<1>1. ServicesInit => SignInit
  BY DEF ServicesInit
<1>2. [ServicesNext]_servicesVars => [SignNext]_signVars
  BY DEF ServicesNext, Others, servicesVars
<1> QED
  BY <1>1, <1>2, PTL DEF ServicesSpec, SignSpec

LEMMA SendersAsPart == ServicesSpec => SenderSpec
<1>1. ServicesInit => SenderInit
  BY DEF ServicesInit
<1>2. [ServicesNext]_servicesVars => [SenderNext]_senderVars
  BY DEF ServicesNext, Others, servicesVars
<1> QED
  BY <1>1, <1>2, PTL DEF ServicesSpec, SenderSpec

LEMMA SkillsAsPart == ServicesSpec => SkillSpec
<1>1. ServicesInit => SkillInit
  BY DEF ServicesInit
<1>2. [ServicesNext]_servicesVars => [SkillNext]_skillVars
  BY DEF ServicesNext, Others, servicesVars
<1> QED
  BY <1>1, <1>2, PTL DEF ServicesSpec, SkillSpec

LEMMA ProfilesAsPart == ServicesSpec => ProfileSpec
<1>1. ServicesInit => ProfileInit
  BY DEF ServicesInit
<1>2. [ServicesNext]_servicesVars => [ProfileNext]_profileVars
  BY DEF ServicesNext, Others, servicesVars
<1> QED
  BY <1>1, <1>2, PTL DEF ServicesSpec, ProfileSpec

LEMMA KnowledgeAsPart == ServicesSpec => KnowledgeSpec
<1>1. ServicesInit => KnowledgeInit
  BY DEF ServicesInit
<1>2. [ServicesNext]_servicesVars => [KnowledgeNext]_knowledgeVars
  BY DEF ServicesNext, Others, servicesVars
<1> QED
  BY <1>1, <1>2, PTL DEF ServicesSpec, KnowledgeSpec

\* The decisions of the owner last, whatever operations, failures and restarts come
\* between, for any number of providers, senders, skills, profiles and relations.
THEOREM ChoicesLast == ServicesSpec => []ChoicesSurvive
<1>1. ProviderSpec => []ChoiceSurvives
  BY ProviderStarts, ProviderStep, ProviderHolds, PTL DEF ProviderSpec
<1>2. SignSpec => []SignInIsOnce
  BY SignStarts, SignStep, SignHolds, PTL DEF SignSpec
<1>3. SenderSpec => []ApprovalsLast
  BY SenderStarts, SenderStep, SenderHolds, PTL DEF SenderSpec
<1>4. SkillSpec => []SkillsStand
  BY SkillStarts, SkillStep, SkillHolds, PTL DEF SkillSpec
<1>5. ProfileSpec => []ActiveIsLastChosen
  BY ProfileStarts, ProfileStep, ProfileInvChosen, PTL DEF ProfileSpec
<1>6. KnowledgeSpec => [](CorrectionsStand /\ GraphIsWhole)
  <2>1. KnowledgeInv => CorrectionsStand /\ GraphIsWhole
    BY KnowledgeHolds
  <2> QED
    BY <2>1, KnowledgeStarts, KnowledgeStep, PTL DEF KnowledgeSpec
<1>7. /\ ChoiceSurvives /\ SignInIsOnce /\ ApprovalsLast /\ SkillsStand
      /\ ActiveIsLastChosen /\ CorrectionsStand /\ GraphIsWhole
      => ChoicesSurvive
  BY DEF ChoicesSurvive
<1> QED
  BY <1>1, <1>2, <1>3, <1>4, <1>5, <1>6, <1>7, ProviderAsPart, SignInAsPart, SendersAsPart,
     SkillsAsPart, ProfilesAsPart, KnowledgeAsPart, PTL

\* The choices keep their types.
LEMMA ChoicesTyped ==
  ServicesSpec => [](/\ ProviderTypeOK /\ SignTypeOK /\ SenderTypeOK /\ SkillTypeOK
                     /\ ProfileTypeOK /\ KnowledgeTypeOK)
<1>1. ProviderSpec => []ProviderTypeOK
  BY ProviderStarts, ProviderStep, ProviderHolds, PTL DEF ProviderSpec
<1>2. SignSpec => []SignTypeOK
  BY SignStarts, SignStep, SignHolds, PTL DEF SignSpec
<1>3. SenderSpec => []SenderTypeOK
  BY SenderStarts, SenderStep, SenderHolds, PTL DEF SenderSpec
<1>4. SkillSpec => []SkillTypeOK
  BY SkillStarts, SkillStep, SkillHolds, PTL DEF SkillSpec
<1>5. ProfileSpec => []ProfileTypeOK
  <2>1. ProfileInv => ProfileTypeOK
    BY DEF ProfileInv
  <2> QED
    BY <2>1, ProfileStarts, ProfileStep, PTL DEF ProfileSpec
<1>6. KnowledgeSpec => []KnowledgeTypeOK
  BY KnowledgeStarts, KnowledgeStep, KnowledgeHolds, PTL DEF KnowledgeSpec
<1> QED
  BY <1>1, <1>2, <1>3, <1>4, <1>5, <1>6, ProviderAsPart, SignInAsPart, SendersAsPart,
     SkillsAsPart, ProfilesAsPart, KnowledgeAsPart, PTL
=============================================================================
