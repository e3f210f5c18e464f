----------------------------- MODULE ToolDialogue -----------------------------
(***************************************************************************)
(* What a model's vendor is promised of the conversation it is sent: a     *)
(* turn of the model that calls tools is followed by one result for each   *)
(* call, in the order of the calls, before the model is asked again; and   *)
(* it is asked a bounded number of times.                                  *)
(***************************************************************************)
EXTENDS Naturals, Sequences

CONSTANTS
  CallIds,    \* identities of tool calls
  MaxTurns    \* turns of the model that call tools

VARIABLES
  speaker,  \* "nobody" yet, the "model", the "tools", or "nobodyMore"
  owed,     \* the calls that have no result yet
  turns     \* turns that called tools

dialogueVars == <<speaker, owed, turns>>

DialogueInit == speaker = "nobody" /\ owed = <<>> /\ turns = 0

Open ==
  /\ speaker = "nobody" /\ speaker' = "model"
  /\ UNCHANGED <<owed, turns>>

\* The model calls tools,
CallTools ==
  /\ speaker = "model" /\ speaker' = "tools"
  /\ turns < MaxTurns /\ turns' = turns + 1
  /\ owed' \in Seq(CallIds) \ {<<>>}

\* the calls are answered one after the other,
AnswerCall ==
  /\ speaker = "tools" /\ owed # <<>>
  /\ owed' = Tail(owed)
  /\ UNCHANGED <<speaker, turns>>

\* and only then the model speaks again.
BackToModel ==
  /\ speaker = "tools" /\ owed = <<>>
  /\ speaker' = "model"
  /\ UNCHANGED <<owed, turns>>

\* It may be over at any time.
Close ==
  /\ speaker' = "nobodyMore" /\ owed' = <<>>
  /\ UNCHANGED turns

DialogueNext == Open \/ CallTools \/ AnswerCall \/ BackToModel \/ Close

DialogueSpec == DialogueInit /\ [][DialogueNext]_dialogueVars
=============================================================================
