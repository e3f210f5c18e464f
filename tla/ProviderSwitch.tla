---------------------------- MODULE ProviderSwitch ----------------------------
(***************************************************************************)
(* Which provider and model the agent runs with: the switch_model tool     *)
(* (cmd/openclio/main.go), the dashboard's setup and its changes of the    *)
(* configuration (gateway/handlers.go), the configuration file             *)
(* (internal/config), and start-up.                                        *)
(*                                                                         *)
(* The switch has a lock of its own, the gateway has none: all of them     *)
(* read and write one Config, and save it through one temporary file.      *)
(***************************************************************************)
EXTENDS Naturals, FiniteSets

CONSTANTS
  Providers,    \* the names of providers
  Switchable,   \* those that the tool knows
  Keyless,      \* those that need no key
  MaxOps        \* operations started (a bound)

ASSUME ProviderAssumption ==
  /\ Switchable \subseteq Providers /\ Keyless \subseteq Providers
  /\ MaxOps \in Nat /\ {"none"} \cap Providers = {}

Ops == {"switch", "setup", "update"}

\* A model is named for the provider it belongs to.
Default(p) == <<p, "default">>
Models == Providers \X {"default", "other"}
Nothing == [provider |-> "none", model |-> <<"none", "default">>]

VARIABLES
  config,        \* cfg.Model
  presets,       \* cfg.ProviderPresets
  saved, temp,   \* what config.yaml and config.yaml.tmp hold
  keys,          \* providers whose key is in .env and in the environment
  override,      \* AGENT_MODEL_PROVIDER
  running,       \* the agent's provider
  setupRequired,
  op,            \* by operation: where it is, and its local variables
  opsLeft,
  chosen,        \* ghost: the last choice that was saved
  mixed,         \* ghost: operations have overlapped, or a save has failed
  updated        \* ghost: config has been updated since the last choice

configVars == <<config, presets>>
fileVars == <<saved, temp>>
agentVars == <<running, setupRequired>>
choiceVars == <<chosen, mixed, updated>>
providerVars == <<configVars, fileVars, keys, override, agentVars, op, opsLeft, choiceVars>>

NoPresets == [p \in Providers |-> Nothing.model]
\* What yaml.Marshal makes of the Config, and of one with the defaults.
Text(ps) == [model |-> config, presets |-> ps]
NoText == [model |-> Nothing, presets |-> NoPresets]

\* A file holds a whole text, or else it is "absent", "empty" or "mangled".
Whole(text) == [is |-> "whole", text |-> text]
File(is) == [is |-> is, text |-> NoText]

NoOp == [step |-> "idle", to |-> Nothing, prev |-> Nothing, built |-> Nothing,
         text |-> NoText, fd |-> "closed"]

Usable(p) == p \in keys \union Keyless

\* The start of a program that was installed and never set up.
ProviderInit ==
  /\ override \in Providers \union {"none"}
  /\ config = [Nothing EXCEPT !.provider = override]
  /\ presets = NoPresets
  /\ saved = Whole(NoText) /\ temp = File("absent") /\ keys = {}
  /\ running = IF override \in Keyless THEN config ELSE Nothing
  /\ setupRequired = (running = Nothing)
  /\ op = [o \in Ops |-> NoOp] /\ opsLeft = MaxOps
  /\ chosen = running /\ mixed = FALSE /\ updated = FALSE

Quiet == \A o \in Ops : op[o].step = "idle"

Go(o, next) == op' = [op EXCEPT ![o].step = next]
Done(o) == op' = [op EXCEPT ![o] = NoOp]

\* An operation begins: the tool's handler has the lock, the gateway's do not care.
Begin(o, next, p, m) ==
  /\ op[o].step = "idle" /\ opsLeft > 0 /\ opsLeft' = opsLeft - 1
  /\ op' = [op EXCEPT ![o].step = next, ![o].to = [provider |-> p, model |-> m],
                      ![o].prev = config]
  /\ mixed' = (mixed \/ ~Quiet)

\* SaveCurrentToPreset.
WithCurrent == IF config.provider = "none" THEN presets
               ELSE [presets EXCEPT ![config.provider] = config.model]
\* The preset's model, or the provider's own.
Remembered(ps, p) == IF ps[p] = Nothing.model THEN Default(p) ELSE ps[p]

\* Only a running agent calls the tool, which knows some providers.
Executes(p, m) == running # Nothing /\ p \in Switchable /\ m[1] = p

SwitchBegins(p, m) ==
  /\ Executes(p, m)
  /\ Begin("switch", "model", p, m)
  /\ presets' = WithCurrent /\ config' = [config EXCEPT !.provider = p]
  /\ UNCHANGED <<fileVars, keys, override, agentVars, chosen, updated>>

\* UpsertDotEnvKey, with the environment set as well.
WithKey(p) == IF p \in Keyless THEN keys ELSE keys \union {p}

\* Setup stores the key first, and leaves it there whatever comes after.
SetupBegins(p, m) ==
  /\ m[1] = p
  /\ Begin("setup", "provider", p, m)
  /\ keys' = WithKey(p)
  /\ UNCHANGED <<configVars, fileVars, override, agentVars, chosen, updated>>

SetupProvider ==
  /\ op["setup"].step = "provider"
  /\ op' = [op EXCEPT !["setup"].step = "model", !["setup"].prev = config]
  /\ config' = [config EXCEPT !.provider = op["setup"].to.provider]
  /\ UNCHANGED <<presets, fileVars, keys, override, agentVars, opsLeft, choiceVars>>

\* UpdateConfig with a provider.  The running one stays, and nothing is saved.
UpdateBegins(p) ==
  /\ Begin("update", "model", p, Remembered(WithCurrent, p))
  /\ presets' = WithCurrent /\ config' = [config EXCEPT !.provider = p]
  /\ updated' = TRUE
  /\ UNCHANGED <<fileVars, keys, override, agentVars, chosen>>

SetModel(o) ==
  /\ op[o].step = "model"
  /\ config' = [config EXCEPT !.model = op[o].to.model]
  /\ IF o = "update" THEN Done(o) ELSE Go(o, "build")
  /\ UNCHANGED <<presets, fileVars, keys, override, agentVars, opsLeft, choiceVars>>

\* Mutant of RolledBack: a failed operation leaves its provider in the Config.
NotRolledBack(o) == config' = config

RolledBack(o) == config' = op[o].prev

\* buildProviderStack(FromConfig) with the Config as it is now.
BuildProvider(o) ==
  /\ op[o].step = "build"
  /\ IF config.provider # "none" /\ Usable(config.provider)
     THEN /\ op' = [op EXCEPT ![o].built = config,
                              ![o].step = IF o = "switch" THEN "publish" ELSE "marshal"]
          /\ UNCHANGED config
     ELSE RolledBack(o) /\ Done(o)
  /\ UNCHANGED <<presets, fileVars, keys, override, agentVars, opsLeft, choiceVars>>

\* SetProvider.  The switch saves afterwards, Setup before.
Publish(o) ==
  /\ op[o].step = "publish"
  /\ running' = op[o].built
  /\ IF o = "switch" THEN Go(o, "marshal") /\ UNCHANGED setupRequired
     ELSE Done(o) /\ setupRequired' = FALSE
  /\ UNCHANGED <<configVars, fileVars, keys, override, opsLeft, choiceVars>>

-----------------------------------------------------------------------------
(* config.Save: marshal, write the temporary file, rename it.              *)

Marshal(o) ==
  /\ op[o].step = "marshal"
  /\ presets' = IF o = "setup" THEN WithCurrent ELSE presets
  /\ op' = [op EXCEPT ![o].step = "open", ![o].text = Text(presets')]
  /\ UNCHANGED <<config, fileVars, keys, override, agentVars, opsLeft, choiceVars>>

OpenTemp(o) ==
  /\ op[o].step = "open"
  /\ temp' = File("empty")
  /\ op' = [op EXCEPT ![o].step = "fill", ![o].fd = "temp"]
  /\ UNCHANGED <<configVars, saved, keys, override, agentVars, opsLeft, choiceVars>>

\* Two texts over each other are neither, unless the second covers the first.
Over(old, text) == {Whole(text)} \union (IF old.is = "empty" THEN {} ELSE {File("mangled")})

FillTemp(o) ==
  /\ op[o].step = "fill"
  /\ \/ op[o].fd = "temp" /\ temp' \in Over(temp, op[o].text) /\ UNCHANGED saved
     \/ op[o].fd = "file" /\ saved' \in Over(saved, op[o].text) /\ UNCHANGED temp
     \/ op[o].fd = "gone" /\ UNCHANGED fileVars
  /\ op' = [op EXCEPT ![o].step = "rename", ![o].fd = "closed"]
  /\ UNCHANGED <<configVars, keys, override, agentVars, opsLeft, choiceVars>>

\* What other operations have open moves with the names.
Moved(fd) == CASE fd = "temp" -> "file" [] fd = "file" -> "gone" [] OTHER -> fd

RenameTemp(o) ==
  /\ op[o].step = "rename" /\ temp.is # "absent"
  /\ saved' = temp /\ temp' = File("absent")
  /\ op' = [q \in Ops |->
       IF q # o THEN [op[q] EXCEPT !.fd = Moved(@)]
       ELSE IF o = "setup" THEN [op[o] EXCEPT !.step = "publish"] ELSE NoOp]
  /\ chosen' = op[o].built /\ updated' = FALSE
  /\ UNCHANGED <<configVars, keys, override, agentVars, opsLeft, mixed>>

\* The switch logs it; Setup goes back.
SaveFails(o) ==
  /\ op[o].step \in {"open", "fill"} \/ (op[o].step = "rename" /\ temp.is = "absent")
  /\ IF o = "setup" THEN RolledBack(o) ELSE UNCHANGED config
  /\ Done(o)
  /\ mixed' = TRUE
  /\ UNCHANGED <<presets, fileVars, keys, override, agentVars, opsLeft, chosen, updated>>

-----------------------------------------------------------------------------
\* config.Load: an empty file leaves the defaults.
Loaded ==
  IF override = "none" THEN saved.text ELSE [saved.text EXCEPT !.model.provider = override]

\* A crash and a start.  Without a key the gateway starts in setup mode; with a
\* mangled file nothing starts.
RestartProgram ==
  /\ saved.is # "mangled"
  /\ config' = Loaded.model /\ presets' = Loaded.presets
  /\ op' = [o \in Ops |-> NoOp]
  /\ IF config'.provider # "none" /\ Usable(config'.provider)
     THEN running' = config' /\ setupRequired' = FALSE
     ELSE running' = Nothing /\ setupRequired' = TRUE
  /\ chosen' = IF override = "none" THEN chosen ELSE running'
  /\ updated' = FALSE
  /\ UNCHANGED <<fileVars, keys, override, opsLeft, mixed>>

ProviderNext ==
  \/ \E p \in Providers, m \in Models : SwitchBegins(p, m) \/ SetupBegins(p, m)
  \/ \E p \in Providers : UpdateBegins(p)
  \/ SetupProvider
  \/ \E o \in Ops :
       \/ SetModel(o)
       \/ BuildProvider(o)
       \/ Publish(o)
       \/ Marshal(o)
       \/ OpenTemp(o)
       \/ FillTemp(o)
       \/ RenameTemp(o)
       \/ SaveFails(o)
  \/ RestartProgram

ProviderSpec == ProviderInit /\ [][ProviderNext]_providerVars

-----------------------------------------------------------------------------
ModelConfig == [provider : Providers \union {"none"}, model : Models \union {Nothing.model}]
ConfigText == [model : ModelConfig, presets : [Providers -> Models \union {Nothing.model}]]

ProviderTypeOK ==
  /\ config \in ModelConfig
  /\ presets \in [Providers -> Models \union {Nothing.model}]
  /\ \A file \in {saved, temp} :
       file.is \in {"whole", "empty", "mangled", "absent"} /\ file.text \in ConfigText
  /\ keys \subseteq Providers /\ override \in Providers \union {"none"}
  /\ running \in ModelConfig /\ setupRequired \in BOOLEAN
  /\ DOMAIN op = Ops /\ opsLeft \in 0..MaxOps
  /\ \A o \in Ops :
       /\ op[o].step \in {"idle", "provider", "model", "build", "publish",
                          "marshal", "open", "fill", "rename"}
       /\ {op[o].to, op[o].prev, op[o].built} \subseteq ModelConfig
       /\ op[o].fd \in {"closed", "temp", "file", "gone"}
  /\ chosen \in ModelConfig /\ mixed \in BOOLEAN /\ updated \in BOOLEAN

\* As long as operations have not overlapped and saves have worked: the agent runs
\* with the last provider and model that an operation has saved, across failed
\* switches, updates, crashes in the middle of an operation and restarts; the
\* Config says so too, unless it was updated; and the file is a whole Config, which is
\* less than "Save writes the config to disk atomically" (config.go): saves that overlap
\* share one temporary file, and one can put the other's empty file in place.
\* Whatever overlaps, a setup is asked for exactly while nothing runs.
ChoiceSurvives ==
  /\ ~mixed =>
       /\ saved.is = "whole"
       /\ Quiet /\ ~setupRequired =>
            /\ running = chosen
            /\ ~updated => config = running
  /\ setupRequired = (running = Nothing)
=============================================================================
