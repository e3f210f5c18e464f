----------------------------- MODULE MCServices -----------------------------
(***************************************************************************)
(* The parts of the program that keep their state to themselves, each      *)
(* explored by itself: they share no variable, so that a step of one       *)
(* neither enables nor disturbs a step of another, and the part that is    *)
(* explored is chosen at the start while the others rest as the program    *)
(* starts them.  Fairness is that of the parts that state one.             *)
(***************************************************************************)
EXTENDS RollingLog, ToolLoop, Delegation, ProviderSwitch, Commands,
        SenderGate, WhatsApp, SignIn, ContextBudget, Persona, Skills, Profiles, Delivery,
        KnowledgeGraph, Migrations

VARIABLE service  \* the part that is explored

Services == {"log", "tools", "delegation", "provider", "commands",
             "senders", "whatsapp", "signin", "context", "workspace", "skills",
             "profiles", "delivery", "knowledge", "schema"}

servicesVars == <<service, logVars, toolVars, delegationVars, providerVars, commandVars,
                  senderVars, whatsAppVars, signVars, contextVars, personaVars,
                  skillVars, profileVars, deliveryVars, knowledgeVars, migrationVars>>

\* One start for each part that is not explored.
AtRestUnless(s, start) == service = s \/ start

ServicesInit ==
  /\ service \in Services
  /\ AtRestUnless("provider", override = "none")
  /\ AtRestUnless("senders", allowAll = FALSE)
  /\ AtRestUnless("whatsapp", device = "unlinked")
  /\ AtRestUnless("context", limit = CHOOSE n \in Limits : TRUE)
  /\ AtRestUnless("context", prompt = CHOOSE n \in PromptSizes : TRUE)
  /\ AtRestUnless("schema", schema = <<>>)
  /\ AtRestUnless("workspace", notes = [f \in PersonaFiles |-> "absent"])
  /\ LogInit /\ ToolInit /\ DelegationInit /\ ProviderInit /\ CommandInit
  /\ SenderInit /\ WhatsAppInit /\ SignInit /\ ContextInit /\ PersonaInit
  /\ SkillInit /\ ProfileInit /\ DeliveryInit /\ KnowledgeInit /\ MigrationInit

\* What the others keep.
Others(s) ==
  /\ service = s /\ UNCHANGED service
  /\ s # "log" => UNCHANGED logVars
  /\ s # "tools" => UNCHANGED toolVars
  /\ s # "delegation" => UNCHANGED delegationVars
  /\ s # "provider" => UNCHANGED providerVars
  /\ s # "commands" => UNCHANGED commandVars
  /\ s # "senders" => UNCHANGED senderVars
  /\ s # "whatsapp" => UNCHANGED whatsAppVars
  /\ s # "signin" => UNCHANGED signVars
  /\ s # "context" => UNCHANGED contextVars
  /\ s # "workspace" => UNCHANGED personaVars
  /\ s # "skills" => UNCHANGED skillVars
  /\ s # "profiles" => UNCHANGED profileVars
  /\ s # "delivery" => UNCHANGED deliveryVars
  /\ s # "knowledge" => UNCHANGED knowledgeVars
  /\ s # "schema" => UNCHANGED migrationVars

ServicesNext ==
  \/ Others("log") /\ LogNext
  \/ Others("tools") /\ ToolNext
  \/ Others("delegation") /\ DelegationNext
  \/ Others("provider") /\ ProviderNext
  \/ Others("commands") /\ CommandNext
  \/ Others("senders") /\ SenderNext
  \/ Others("whatsapp") /\ WhatsAppNext
  \/ Others("signin") /\ SignNext
  \/ Others("context") /\ ContextNext
  \/ Others("workspace") /\ PersonaNext
  \/ Others("skills") /\ SkillNext
  \/ Others("profiles") /\ ProfileNext
  \/ Others("delivery") /\ DeliveryNext
  \/ Others("knowledge") /\ KnowledgeNext
  \/ Others("schema") /\ MigrationNext

ServicesSpec ==
  /\ ServicesInit /\ [][ServicesNext]_servicesVars
  /\ ToolFairness /\ DelegationFairness /\ CommandFairness /\ DeliveryFairness

-----------------------------------------------------------------------------
ServicesTypeOK ==
  /\ service \in Services
  /\ LogTypeOK /\ ToolTypeOK /\ DelegationTypeOK /\ ProviderTypeOK
  /\ CommandTypeOK /\ SenderTypeOK /\ WhatsAppTypeOK /\ SignTypeOK /\ ContextTypeOK
  /\ PersonaTypeOK /\ SkillTypeOK /\ ProfileTypeOK /\ DeliveryTypeOK
  /\ KnowledgeTypeOK /\ MigrationTypeOK

\* Calls of tools and their results: what the vendor streams or sends reaches the loop
\* as a whole, in the next request each result stands with its call, and a turn fails
\* only when every provider has (ToolLoop).
CallsAreAnswered == CallsArriveWhole /\ ResultsFindTheirCalls /\ FailuresAreExhausted

\* What is started ends: a cancelled call with the goroutine that reads for it, a
\* delegation, a command whose time is up, and the wait of a reply that is queued.
CallsEnd == CancelEnds /\ DelegationEnds /\ CommandEnds /\ RepliesLeave

\* What the owner has decided stays decided: the provider, the senders that are
\* allowed, being signed in or out, the skills, the active profile
\* and what the owner has corrected of the agent's memory.
ChoicesSurvive ==
  /\ ChoiceSurvives /\ ApprovalsLast /\ SignInIsOnce
  /\ SkillsStand /\ ActiveIsLastChosen /\ CorrectionsStand /\ GraphIsWhole

\* What the caller is told is what happened, once and in its turn: of commands,
\* messages, sub-tasks and workspace files; and a program that started has its schema.
AnswersAreTrue ==
  /\ OutputIsKept /\ SentIsTaken /\ HeardOnce /\ AnswersInTurn
  /\ EveryTaskReports /\ PersonaIsFresh /\ SchemaIsWhole
=============================================================================
