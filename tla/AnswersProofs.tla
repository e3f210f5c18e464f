----------------------------- MODULE AnswersProofs -----------------------------
(***************************************************************************)
(* Proofs that what the caller is told is what happened: the output of     *)
(* commands (Commands), messages sent and heard (WhatsApp), replies in     *)
(* their turn (Delivery), sub-tasks (Delegation), the workspace's files in *)
(* the prompt (Persona), and the schema of the database (Migrations).      *)
(*                                                                         *)
(* The invariants say what is on its way: how much of an output is in the  *)
(* pipe, how often a message may have been tried, which replies wait       *)
(* behind which, what a run has loaded but not published yet.              *)
(*                                                                         *)
(* At the end the four modules about the parts that run by themselves are  *)
(* put together: all of them keep their types.                             *)
(***************************************************************************)
EXTENDS FilesProofs, ChoicesProofs, RequestProofs, MCServices, FiniteSetTheorems,
        SequenceTheorems, TLAPS

-----------------------------------------------------------------------------
(* Commands.                                                               *)

CommandFlags == reaped \in BOOLEAN /\ heir \in BOOLEAN /\ overtaken \in BOOLEAN /\ signalled \in BOOLEAN

CommandTypes ==
  /\ tool \in {"none", "exec", "spawn"}
  /\ shell \in {"none", "runs", "exit0", "exit1", "signalled"}
  /\ exitCode \in {"none", "exit0", "exit1", "signalled"}
  /\ pipe \in Nat /\ kept \in Nat /\ produced \in 0..MaxProduced
  /\ copier \in {"none", "copying", "short", "ended"}
  /\ deadline \in {"open", "timeout", "cancel"}
  /\ reply \in {"none", "refused", "started", "text", "expired", "lost"}
  /\ recorded \in {0, 1}
  /\ tool = "none" => shell = "none" /\ recorded = 0
  /\ reaped => shell \notin {"none", "runs"}
  /\ overtaken => reaped

\* Nobody writes any more.
WritersGone == shell # "runs" /\ ~heir

\* Nothing is lost on the way, up to the limit of exec and until the copy is stopped;
\* a copy that has come to its end has no writer left.
CopyKeeps ==
  /\ kept + pipe <= produced
  /\ copier = "none" => WritersGone /\ produced = 0
  /\ tool = "exec" =>
       /\ kept <= MaxOutputSize
       /\ copier = "copying" /\ kept < MaxOutputSize => kept + pipe = produced
       /\ copier = "short" => kept = MaxOutputSize /\ produced > MaxOutputSize
       /\ copier = "ended" => WritersGone /\ (kept < MaxOutputSize => kept = produced)
  /\ tool = "spawn" =>
       /\ copier # "short"
       /\ copier = "copying" => kept + pipe = produced
       /\ copier = "ended" /\ ~overtaken => WritersGone /\ kept = produced

\* An answer of exec comes after the copy.
AnswerFollows ==
  /\ reply \in {"text", "expired", "lost"} => tool = "exec" /\ copier \in {"short", "ended"}
  /\ reply = "lost" => copier = "short" \/ deadline = "cancel"
  /\ signalled => deadline # "open"
  /\ tool = "none" => copier = "none" /\ reply = "none"
  /\ tool # "none" /\ reply # "refused" => copier # "none"
  /\ reply = "refused" => shell = "none"

CommandInv == CommandFlags /\ CommandTypes /\ CopyKeeps /\ AnswerFollows

LEMMA CommandNumbers == MaxOutputSize \in Nat /\ MaxOutputSize > 0 /\ MaxProduced \in Nat
BY CommandsAssumption

LEMMA CommandStarts == CommandInit => CommandInv
<1> SUFFICES ASSUME CommandInit PROVE CommandInv
  OBVIOUS
<1> USE CommandNumbers
<1>1. CommandFlags
  BY Zenon DEF CommandInit, CommandFlags
<1>2. CommandTypes
  BY DEF CommandInit, CommandTypes
<1>3. CopyKeeps /\ AnswerFollows
  BY DEF CommandInit, CopyKeeps, WritersGone, AnswerFollows
<1> QED
  BY <1>1, <1>2, <1>3 DEF CommandInv

LEMMA CommandStepTypes == CommandInv /\ [CommandNext]_commandVars => CommandFlags'
<1> SUFFICES ASSUME CommandInv, [CommandNext]_commandVars PROVE CommandFlags'
  OBVIOUS
<1>1. reaped \in BOOLEAN /\ heir \in BOOLEAN /\ overtaken \in BOOLEAN /\ signalled \in BOOLEAN
  BY DEF CommandInv, CommandFlags
<1>2. (Reader /\ (pipe > 0 \/ heir)) \in BOOLEAN
  OBVIOUS
<1> QED
  BY <1>1, <1>2, Zenon DEF CommandFlags, CommandNext, WaitSteps, commandVars, processVars,
     copyVars, replyVars, clockVars, RefuseCommand, StartExec, StartSpawn, StartShell,
     Output, Fork, HeirEnds, ShellExits, ContextDone, KillShell, CopyEnds, Reap,
     ExecReturns, RecordExit, Copy, KillTool

LEMMA CommandBegins ==
  ASSUME CommandInv, RefuseCommand \/ StartExec \/ StartSpawn
  PROVE CommandTypes' /\ CopyKeeps' /\ AnswerFollows'
<1> USE CommandNumbers DEF CommandInv
<1>1. tool = "none" /\ UNCHANGED <<exitCode, reaped, heir, pipe, produced, kept, overtaken, deadline,
                                   signalled>>
  BY DEF RefuseCommand, StartExec, StartSpawn, StartShell, processVars, copyVars, replyVars,
         clockVars
<1>2. \/ /\ tool' \in {"exec", "spawn"} /\ shell' = shell /\ copier' = copier
         /\ reply' = "refused" /\ recorded' \in {0, 1}
      \/ /\ tool' = "exec" /\ shell' = "runs" /\ copier' = "copying" /\ reply' = reply
         /\ recorded' = recorded
      \/ /\ tool' = "spawn" /\ shell' = "runs" /\ copier' = "copying" /\ reply' = "started"
         /\ recorded' = recorded
  BY DEF RefuseCommand, StartExec, StartSpawn, StartShell, processVars, copyVars,
     CommandTypes
<1>3. /\ copier = "none" /\ shell = "none" /\ WritersGone /\ produced = 0
      /\ kept = 0 /\ pipe = 0 /\ ~reaped
  BY <1>1 DEF AnswerFollows, CommandTypes, CopyKeeps
<1>4. CommandTypes'
  BY <1>1, <1>2, <1>3 DEF CommandTypes
<1>5. CopyKeeps'
  BY <1>1, <1>2, <1>3 DEF CopyKeeps, WritersGone
<1>6. AnswerFollows'
  BY <1>1, <1>2, <1>3 DEF AnswerFollows, CommandTypes
<1> QED
  BY <1>4, <1>5, <1>6

LEMMA OutputKeeps ==
  ASSUME CommandInv, NEW n \in 1..2, Output(n)
  PROVE CommandTypes' /\ CopyKeeps' /\ AnswerFollows'
<1> USE CommandNumbers DEF CommandInv
<1>1. /\ UNCHANGED <<tool, reply, exitCode, recorded, copier, kept, overtaken, deadline, signalled,
                   reaped>>
      /\ produced' = produced + n /\ produced' \in 0..MaxProduced /\ n \in 1..2
  BY DEF Output, CommandTypes, copyVars, replyVars, clockVars
<1>2. shell = "runs" \/ heir
  BY DEF Output
<1>3. \/ copier = "copying" /\ pipe' = pipe + n /\ shell' = shell
      \/ copier # "copying" /\ shell = "runs" /\ shell' = "signalled" /\ pipe' = pipe
      \/ copier # "copying" /\ heir /\ shell' = shell /\ pipe' = pipe
  BY DEF Output, Reader
<1>4. ~WritersGone
  BY <1>2 DEF WritersGone
<1>5. copier # "none" /\ (copier = "ended" => tool = "spawn" /\ overtaken)
  BY <1>4 DEF CopyKeeps, CommandTypes, AnswerFollows
<1>6. CommandTypes'
  BY <1>1, <1>3 DEF CommandTypes
<1>7. CopyKeeps'
  BY <1>1, <1>3, <1>5 DEF CopyKeeps, CommandTypes
<1>8. AnswerFollows'
  BY <1>1, <1>3, <1>5 DEF AnswerFollows, CommandTypes
<1> QED
  BY <1>6, <1>7, <1>8

\* A step of the processes, which leaves the copy alone.
LEMMA ProcessesKeep ==
  ASSUME CommandInv, NEW status \in {"exit0", "exit1"},
         Fork \/ HeirEnds \/ ShellExits(status) \/ KillTool
  PROVE CommandTypes' /\ CopyKeeps' /\ AnswerFollows'
<1> USE CommandNumbers DEF CommandInv
<1>1. UNCHANGED <<tool, reply, exitCode, recorded, copier, kept, overtaken, deadline, signalled,
                  pipe, produced, reaped>>
  BY DEF Fork, HeirEnds, ShellExits, KillTool, copyVars, replyVars, clockVars
<1>2. \/ shell' = shell
      \/ shell = "runs" /\ shell' \in {"exit0", "exit1", "signalled"}
  BY DEF Fork, HeirEnds, ShellExits, KillTool
<1>3. WritersGone => WritersGone'
  BY DEF Fork, HeirEnds, ShellExits, KillTool, WritersGone
<1>4. CommandTypes'
  BY <1>1, <1>2 DEF CommandTypes
<1>5. CopyKeeps'
  BY <1>1, <1>3 DEF CopyKeeps
<1>6. AnswerFollows'
  BY <1>1, <1>2 DEF AnswerFollows
<1> QED
  BY <1>4, <1>5, <1>6

LEMMA CopyStepKeeps ==
  ASSUME CommandInv, NEW n \in 1..MaxProduced, Copy(n)
  PROVE CommandTypes' /\ CopyKeeps' /\ AnswerFollows'
<1> USE CommandNumbers DEF CommandInv
<1>1. /\ UNCHANGED <<shell, heir, reaped, tool, reply, exitCode, recorded, overtaken, deadline, signalled,
                     produced>>
      /\ copier = "copying" /\ n <= pipe /\ n \in Nat
  BY DEF Copy, Reader, replyVars, clockVars
<1>2. tool \in {"exec", "spawn"}
  BY <1>1 DEF AnswerFollows, CommandTypes
<1>3. /\ copier' \in {"copying", "short"}
      /\ copier' = "copying" => pipe' = pipe - n
      /\ copier' = "short" => pipe' = 0 /\ tool = "exec"
      /\ tool = "spawn" => kept' = kept + n /\ copier' = "copying"
      /\ tool = "exec" =>
           \/ kept = MaxOutputSize /\ kept' = kept /\ copier' = "copying"
           \/ kept + n > MaxOutputSize /\ kept' = MaxOutputSize /\ copier' = "short"
           \/ kept + n <= MaxOutputSize /\ kept' = kept + n /\ copier' = "copying"
  <2>1. CASE tool = "spawn"
    BY <1>1, <2>1 DEF Copy
  <2>2. CASE tool = "exec"
    <3>1. kept <= MaxOutputSize /\ kept \in Nat
      BY <2>2 DEF CopyKeeps, CommandTypes
    <3>2. CASE kept = MaxOutputSize
      <4>1. LimitedWrite(n) = [kept |-> kept, whole |-> TRUE]
        BY <3>2 DEF LimitedWrite
      <4> QED
        BY <1>1, <2>2, <3>2, <4>1 DEF Copy
    <3>3. CASE kept < MaxOutputSize /\ kept + n > MaxOutputSize
      <4>1. LimitedWrite(n) = [kept |-> MaxOutputSize, whole |-> FALSE]
        BY <1>1, <3>1, <3>3 DEF LimitedWrite
      <4> QED
        BY <1>1, <2>2, <3>3, <4>1 DEF Copy
    <3>4. CASE kept < MaxOutputSize /\ kept + n <= MaxOutputSize
      <4>1. LimitedWrite(n) = [kept |-> kept + n, whole |-> TRUE]
        BY <1>1, <3>1, <3>4 DEF LimitedWrite
      <4> QED
        BY <1>1, <2>2, <3>4, <4>1 DEF Copy
    <3> QED
      BY <1>1, <3>1, <3>2, <3>3, <3>4
  <2> QED
    BY <1>2, <2>1, <2>2
<1>4. pipe \in Nat /\ kept \in Nat /\ produced \in Nat
  BY DEF CommandTypes
<1>5. CommandTypes'
  BY <1>1, <1>2, <1>3, <1>4 DEF CommandTypes
<1>6. CopyKeeps'
  BY <1>1, <1>2, <1>3, <1>4 DEF CopyKeeps
<1>7. AnswerFollows'
  BY <1>1, <1>2, <1>3 DEF AnswerFollows
<1> QED
  BY <1>5, <1>6, <1>7

\* The context's end, the kill that follows it, and the status that is kept.
LEMMA ClockKeeps ==
  ASSUME CommandInv, NEW why \in {"timeout", "cancel"},
         ContextDone(why) \/ KillShell \/ RecordExit
  PROVE CommandTypes' /\ CopyKeeps' /\ AnswerFollows'
<1> USE CommandNumbers DEF CommandInv
<1>1. UNCHANGED <<tool, reply, recorded, copier, kept, overtaken, pipe, produced, heir,
                  reaped>>
  BY DEF ContextDone, KillShell, RecordExit, copyVars, replyVars, clockVars, processVars
<1>2. /\ shell' = shell \/ (shell = "runs" /\ shell' = "signalled")
      /\ deadline' = deadline \/ (deadline = "open" /\ deadline' = why)
      /\ exitCode' = exitCode
           \/ (exitCode' = shell /\ tool = "spawn" /\ exitCode = "none" /\ reaped)
      /\ signalled' = signalled \/ (deadline # "open" /\ deadline' = deadline)
  BY DEF ContextDone, KillShell, RecordExit, copyVars, replyVars, clockVars, processVars
<1>3. WritersGone => WritersGone'
  BY <1>1, <1>2 DEF WritersGone
<1>4. CommandTypes'
  BY <1>1, <1>2 DEF CommandTypes
<1>5. CopyKeeps'
  BY <1>1, <1>3 DEF CopyKeeps
<1>6. AnswerFollows'
  BY <1>1, <1>2 DEF AnswerFollows
<1> QED
  BY <1>4, <1>5, <1>6

LEMMA CopyEndsKeeps ==
  ASSUME CommandInv, CopyEnds
  PROVE CommandTypes' /\ CopyKeeps' /\ AnswerFollows'
<1> USE CommandNumbers DEF CommandInv
<1>1. /\ UNCHANGED <<shell, reaped, heir, pipe, produced, kept, overtaken, tool, reply, exitCode, recorded,
                     deadline, signalled>>
      /\ copier = "copying" /\ WritersGone /\ pipe = 0 /\ copier' = "ended"
  BY DEF CopyEnds, Reader, WritersGone, processVars, replyVars, clockVars
<1>2. WritersGone'
  BY <1>1 DEF WritersGone
<1>3. CommandTypes'
  BY <1>1 DEF CommandTypes
<1>4. CopyKeeps'
  BY <1>1, <1>2 DEF CopyKeeps, CommandTypes
<1>5. AnswerFollows'
  BY <1>1 DEF AnswerFollows
<1> QED
  BY <1>3, <1>4, <1>5

LEMMA ReapKeeps ==
  ASSUME CommandInv, Reap
  PROVE CommandTypes' /\ CopyKeeps' /\ AnswerFollows'
<1> USE CommandNumbers DEF CommandInv
<1>1. /\ UNCHANGED <<shell, heir, produced, kept, tool, reply, exitCode, recorded, deadline,
                     signalled>>
      /\ shell \notin {"none", "runs"} /\ ~reaped /\ reaped'
  BY DEF Reap, copyVars, replyVars, clockVars
<1>2. CASE tool = "exec"
  <2>1. UNCHANGED <<pipe, copier, overtaken>>
    BY <1>2 DEF Reap, copyVars
  <2>2. WritersGone' = WritersGone
    BY <1>1 DEF WritersGone
  <2>3. CommandTypes' /\ AnswerFollows'
    BY <1>1, <2>1 DEF CommandTypes, AnswerFollows
  <2> QED
    BY <1>1, <1>2, <2>1, <2>2, <2>3 DEF CopyKeeps
<1>3. CASE tool = "spawn"
  <2>1. /\ pipe' = 0 /\ copier' = "ended"
        /\ ~overtaken' => copier # "copying" \/ (pipe = 0 /\ ~heir)
    <3>1. pipe' = 0 /\ copier' = "ended" /\ overtaken' = (Reader /\ (pipe > 0 \/ heir))
      BY <1>3 DEF Reap
    <3>2. ~overtaken' => ~Reader \/ (~(pipe > 0) /\ ~heir)
      BY <3>1, Zenon
    <3>3. pipe \in Nat
      BY DEF CommandTypes
    <3> QED
      BY <3>1, <3>2, <3>3 DEF Reader
  <2>2. pipe \in Nat /\ kept \in Nat /\ produced \in Nat
    BY DEF CommandTypes
  <2>3. CommandTypes' /\ AnswerFollows'
    BY <1>1, <1>3, <2>1 DEF CommandTypes, AnswerFollows
  <2>a. copier \in {"copying", "ended"}
    BY <1>1, <1>3 DEF CommandTypes, AnswerFollows, CopyKeeps
  <2>4. ASSUME ~overtaken' PROVE WritersGone' /\ kept' = produced'
    <3>1. CASE copier = "copying"
      <4>1. pipe = 0 /\ ~heir /\ kept + pipe = produced
        BY <1>3, <2>1, <2>4, <3>1 DEF CopyKeeps
      <4> QED
        BY <1>1, <2>2, <4>1 DEF WritersGone
    <3>2. CASE copier = "ended"
      <4>1. ~overtaken
        BY <1>1 DEF CommandTypes
      <4> QED
        BY <1>1, <1>3, <3>2, <4>1 DEF CopyKeeps, WritersGone
    <3> QED
      BY <2>a, <3>1, <3>2
  <2>5. CopyKeeps'
    BY <1>1, <1>3, <2>1, <2>2, <2>4 DEF CopyKeeps
  <2> QED
    BY <2>3, <2>5
<1> QED
  BY <1>2, <1>3 DEF Reap

LEMMA ExecReturnsKeeps ==
  ASSUME CommandInv, ExecReturns
  PROVE CommandTypes' /\ CopyKeeps' /\ AnswerFollows'
<1> USE CommandNumbers DEF CommandInv
<1>1. /\ UNCHANGED <<shell, reaped, heir, pipe, produced, copier, kept, overtaken, tool, exitCode,
                     deadline, signalled>>
      /\ tool = "exec" /\ copier # "copying" /\ recorded' = 1 /\ reply = "none"
      /\ reply' = ReplyOfRun
  BY DEF ExecReturns, Reader, processVars, copyVars, clockVars
<1>2. /\ reply' \in {"text", "expired", "lost"}
      /\ reply' = "lost" => (copier = "short" \/ signalled) /\ deadline # "timeout"
  BY <1>1 DEF ReplyOfRun, RunError
<1>3. copier \in {"short", "ended"}
  BY <1>1 DEF AnswerFollows, CommandTypes
<1>4. WritersGone' = WritersGone
  BY <1>1 DEF WritersGone
<1>5. CommandTypes'
  BY <1>1, <1>2 DEF CommandTypes
<1>6. CopyKeeps'
  BY <1>1, <1>4 DEF CopyKeeps
<1>7. AnswerFollows'
  BY <1>1, <1>2, <1>3 DEF AnswerFollows, CommandTypes
<1> QED
  BY <1>5, <1>6, <1>7

LEMMA CommandsRest ==
  ASSUME CommandInv, UNCHANGED commandVars
  PROVE CommandTypes' /\ CopyKeeps' /\ AnswerFollows'
<1>1. UNCHANGED <<shell, reaped, heir, pipe, produced, copier, kept, overtaken, tool, exitCode, recorded,
                  deadline, signalled, reply>>
  BY DEF commandVars, processVars, copyVars, replyVars, clockVars
<1>2. WritersGone' = WritersGone
  BY <1>1 DEF WritersGone
<1> QED
  BY <1>1, <1>2 DEF CommandInv, CommandTypes, CopyKeeps, AnswerFollows

LEMMA CommandStep == CommandInv /\ [CommandNext]_commandVars => CommandInv'
<1> SUFFICES ASSUME CommandInv, [CommandNext]_commandVars PROVE CommandInv'
  OBVIOUS
<1>1. CASE RefuseCommand \/ StartExec \/ StartSpawn
  BY <1>1, CommandBegins, CommandStepTypes DEF CommandInv
<1>2. CASE \E n \in 1..2 : Output(n)
  BY <1>2, OutputKeeps, CommandStepTypes DEF CommandInv
<1>3. CASE (\E status \in {"exit0", "exit1"} : ShellExits(status)) \/ Fork \/ HeirEnds \/ KillTool
  BY <1>3, ProcessesKeep, CommandStepTypes DEF CommandInv
<1>4. CASE \E n \in 1..MaxProduced : Copy(n)
  BY <1>4, CopyStepKeeps, CommandStepTypes DEF CommandInv
<1>5. CASE (\E why \in {"timeout", "cancel"} : ContextDone(why)) \/ KillShell \/ RecordExit
  BY <1>5, ClockKeeps, CommandStepTypes DEF CommandInv
<1>6. CASE CopyEnds \/ Reap \/ ExecReturns
  BY <1>6, CopyEndsKeeps, ReapKeeps, ExecReturnsKeeps, CommandStepTypes DEF CommandInv
<1>7. CASE UNCHANGED commandVars
  BY <1>7, CommandsRest, CommandStepTypes DEF CommandInv
<1> QED
  BY <1>1, <1>2, <1>3, <1>4, <1>5, <1>6, <1>7, Zenon DEF CommandNext, WaitSteps

LEMMA CommandHolds == CommandInv => OutputIsKept /\ CommandTypeOK
<1> SUFFICES ASSUME CommandInv PROVE OutputIsKept /\ CommandTypeOK
  OBVIOUS
<1> USE CommandNumbers DEF CommandInv
<1>1. pipe \in Nat /\ kept \in Nat /\ produced \in Nat /\ kept + pipe <= produced
  BY DEF CommandTypes, CopyKeeps
<1>2. /\ reply \in {"text", "expired"} =>
           kept = IF produced > MaxOutputSize THEN MaxOutputSize ELSE produced
      /\ reply = "lost" => produced > MaxOutputSize \/ deadline = "cancel"
    BY <1>1 DEF AnswerFollows, CopyKeeps
<1>3. OutputIsKept
  BY <1>2 DEF OutputIsKept, CopyKeeps
<1>4. {reaped, heir, overtaken, signalled} \subseteq BOOLEAN
  BY Zenon DEF CommandFlags
<1>5. {pipe, produced, kept} \subseteq 0..MaxProduced
  BY <1>1 DEF CommandTypes
<1>6. CommandTypeOK
  BY <1>4, <1>5 DEF CommandTypes, CommandTypeOK
<1> QED
  BY <1>3, <1>6

-----------------------------------------------------------------------------
(* WhatsApp.                                                               *)

SendRecords ==
  [step : {"idle", "send", "try", "pause"}, via : 0..MaxAdapters, auto : BOOLEAN,
   round : 1..SendRounds, try : 1..SendTries]
QrEvents == {"none", "waiting_for_qr", "code", "timeout", "connected", "connect_error",
             "reconnect_error", "stopped"}

LinkTypes ==
  /\ device \in {"unlinked", "linked", "unreadable"}
  /\ adapter \in {"none", "made", "pairing", "serving", "failed", "ended"}
  /\ qrEvent \in QrEvents /\ made \in 0..MaxAdapters /\ handlers \in 0..MaxStarts

LinkFlags == halted \in BOOLEAN /\ socket \in BOOLEAN /\ retried \in BOOLEAN

\* An adapter that was started once has one handler, and one that was not has none.
OneHandler ==
  /\ texts \in 0..MaxTexts /\ queued \in Nat
  /\ ~retried => /\ queued = texts
                 /\ adapter = "made" => handlers = 0
                 /\ adapter \in {"pairing", "serving"} => handlers = 1

\* A message is tried SendTries times at most in each round, and counted with each.
TriesOf(rounds) == rounds * SendTries
CopiesAreCounted ==
  /\ sending \in SendRecords /\ copies \in 0..TriesOf(SendRounds)
  /\ sendReply \in {"none", "sent", "failed"}
  /\ sending.step # "idle" => sendReply = "none"
  /\ sending.step = "idle" /\ sendReply = "none" => copies = 0
  /\ sending.step = "send" => copies <= TriesOf(sending.round - 1)
  /\ sending.step = "try" => copies < TriesOf(sending.round - 1) + sending.try
  /\ sending.step = "pause" => sending.round < SendRounds /\ copies <= TriesOf(sending.round)
  /\ sendReply = "sent" => copies > 0

WhatsAppInv == LinkTypes /\ LinkFlags /\ OneHandler /\ CopiesAreCounted

LEMMA WhatsAppNumbers ==
  /\ SendTries \in Nat /\ SendTries > 0 /\ SendRounds \in Nat /\ SendRounds > 0
  /\ MaxAdapters \in Nat /\ MaxStarts \in Nat /\ MaxTexts \in Nat
BY WhatsAppAssumption

LEMMA RoundsAdd ==
  ASSUME NEW r \in 1..SendRounds
  PROVE  /\ TriesOf(r - 1) \in Nat /\ TriesOf(r) = TriesOf(r - 1) + SendTries
         /\ TriesOf(r) <= TriesOf(SendRounds)
<1>1. r - 1 \in Nat /\ SendRounds - r \in Nat /\ SendTries \in Nat
  BY WhatsAppNumbers
<1>2. \A a, b \in Nat : a * b \in Nat
  OBVIOUS
<1>3. TriesOf(SendRounds) = TriesOf(r) + (SendRounds - r) * SendTries
  BY <1>1, WhatsAppNumbers DEF TriesOf
<1>4. TriesOf(r) = TriesOf(r - 1) + SendTries
  BY <1>1, WhatsAppNumbers DEF TriesOf
<1>5. TriesOf(r - 1) \in Nat /\ (SendRounds - r) * SendTries \in Nat
  BY <1>1, <1>2 DEF TriesOf
<1> QED
  BY <1>1, <1>3, <1>4, <1>5

LEMMA StepSet ==
  ASSUME NEW r \in SendRecords, NEW s \in {"idle", "send", "try", "pause"}
  PROVE  /\ [r EXCEPT !.step = s] \in SendRecords
         /\ [r EXCEPT !.step = s].step = s /\ [r EXCEPT !.step = s].round = r.round
         /\ [r EXCEPT !.step = s].try = r.try
BY DEF SendRecords

LEMMA TrySet ==
  ASSUME NEW r \in SendRecords, NEW n \in 1..SendTries
  PROVE  /\ [r EXCEPT !.try = n] \in SendRecords
         /\ [r EXCEPT !.try = n].step = r.step /\ [r EXCEPT !.try = n].round = r.round
         /\ [r EXCEPT !.try = n].try = n
BY DEF SendRecords

LEMMA RoundSet ==
  ASSUME NEW r \in SendRecords, NEW m \in 1..SendRounds
  PROVE  /\ [r EXCEPT !.round = m] \in SendRecords
         /\ [r EXCEPT !.round = m].step = r.step /\ [r EXCEPT !.round = m].round = m
BY DEF SendRecords

LEMMA ViaSet ==
  ASSUME NEW r \in SendRecords, NEW a \in 0..MaxAdapters
  PROVE  /\ [r EXCEPT !.via = a] \in SendRecords
         /\ [r EXCEPT !.via = a].step = r.step /\ [r EXCEPT !.via = a].round = r.round
BY DEF SendRecords

LEMMA AutoSet ==
  ASSUME NEW r \in SendRecords
  PROVE  /\ [r EXCEPT !.auto = TRUE] \in SendRecords
         /\ [r EXCEPT !.auto = TRUE].step = r.step
         /\ [r EXCEPT !.auto = TRUE].round = r.round
BY DEF SendRecords

LEMMA NotSendingIs == NotSending \in SendRecords /\ NotSending.step = "idle" /\ NotSending.round = 1
BY WhatsAppNumbers DEF NotSending, SendRecords

LEMMA WhatsAppStarts == WhatsAppInit => WhatsAppInv
<1> SUFFICES ASSUME WhatsAppInit PROVE WhatsAppInv
  OBVIOUS
<1> USE WhatsAppNumbers
<1>1. LinkTypes
  BY DEF WhatsAppInit, LinkTypes, QrEvents
<1>2. LinkFlags
  BY Zenon DEF WhatsAppInit, LinkFlags
<1>3. OneHandler
  BY DEF WhatsAppInit, OneHandler
<1>4. TriesOf(SendRounds) \in Nat
  BY RoundsAdd
<1>5. CopiesAreCounted
  BY <1>4, NotSendingIs DEF WhatsAppInit, CopiesAreCounted
<1> QED
  BY <1>1, <1>2, <1>3, <1>5 DEF WhatsAppInv

\* The link: the sends are left alone, and a text is heard or none is.
LEMMA FlagsKeep == LinkFlags /\ [WhatsAppNext]_whatsAppVars => LinkFlags'
<1> SUFFICES ASSUME LinkFlags, [WhatsAppNext]_whatsAppVars PROVE LinkFlags'
  OBVIOUS
<1>1. (retried \/ adapter = "failed") \in BOOLEAN
  OBVIOUS
<1> QED
  BY <1>1, Zenon
  DEF LinkFlags, WhatsAppNext, whatsAppVars, linkVars, sendVars, ConnectWhatsApp,
      MakeAdapter,
      DisconnectWhatsApp, StartWhatsApp, ShowCode, PairingEnds, PairingCloses, StartReturns,
      SocketChanges, HealthCheck, Hear, SendBegins, SendUnconnected, SendAccepted, Attempt,
      SendPauses

LEMMA SendsRest == CopiesAreCounted /\ UNCHANGED sendVars => CopiesAreCounted'
BY DEF sendVars, CopiesAreCounted

LEMMA MakesAdapter ==
  ASSUME WhatsAppInv, NEW session \in {"unlinked", "linked", "unreadable"},
         MakeAdapter(session), UNCHANGED <<texts, queued, retried>>
  PROVE  LinkTypes' /\ OneHandler' /\ made' \in 0..MaxAdapters
BY WhatsAppNumbers DEF WhatsAppInv, MakeAdapter, LinkTypes, OneHandler, QrEvents

LEMMA SessionIs ==
  ASSUME WhatsAppInv
  PROVE  /\ Renewed \in {"unlinked", "linked", "unreadable"}
         /\ Unlinked \in {"unlinked", "linked", "unreadable"}
BY DEF WhatsAppInv, LinkTypes, Renewed, Unlinked

LEMMA LinkMakes ==
  ASSUME WhatsAppInv, NEW force \in BOOLEAN, ConnectWhatsApp(force)
  PROVE  LinkTypes' /\ OneHandler' /\ CopiesAreCounted'
<1> DEFINE session == IF force THEN "unlinked" ELSE Renewed
<1>1. session \in {"unlinked", "linked", "unreadable"}
  BY SessionIs
<1>2. MakeAdapter(session) /\ UNCHANGED <<texts, queued, retried>> /\ UNCHANGED sendVars
  BY DEF ConnectWhatsApp
<1> HIDE DEF session
<1> QED
  BY <1>1, <1>2, MakesAdapter, SendsRest DEF WhatsAppInv

LEMMA LinkStarts ==
  ASSUME WhatsAppInv, StartWhatsApp
  PROVE  LinkTypes' /\ OneHandler' /\ CopiesAreCounted'
<1> USE WhatsAppNumbers DEF WhatsAppInv
<1>1. /\ adapter \in {"made", "failed"} /\ handlers < MaxStarts /\ handlers' = handlers + 1
      /\ adapter' \in {"failed", "serving", "pairing"}
      /\ qrEvent' \in QrEvents
      /\ UNCHANGED <<device, made, texts, queued>> /\ UNCHANGED sendVars
  BY DEF StartWhatsApp, Handled, QrEvents
<1>2. retried' = (retried \/ adapter = "failed")
  BY DEF StartWhatsApp
<1>3. ~retried' => ~retried /\ adapter # "failed"
  BY <1>2, Zenon
<1>4. LinkTypes'
  BY <1>1 DEF LinkTypes
<1>5. OneHandler'
  BY <1>1, <1>3 DEF OneHandler
<1> QED
  BY <1>1, <1>4, <1>5, SendsRest

LEMMA LinkChanges ==
  ASSUME WhatsAppInv,
         \/ DisconnectWhatsApp \/ ShowCode \/ PairingEnds \/ PairingCloses \/ StartReturns
         \/ SocketChanges \/ HealthCheck
  PROVE  LinkTypes' /\ OneHandler' /\ CopiesAreCounted'
<1> USE WhatsAppNumbers DEF WhatsAppInv
<1>1. UNCHANGED <<made, handlers, texts, queued, retried>> /\ UNCHANGED sendVars
  BY DEF DisconnectWhatsApp, ShowCode, PairingEnds, PairingCloses, StartReturns,
     SocketChanges,
         HealthCheck
<1>2. /\ adapter' \in {adapter, "none", "ended"} \/ (adapter = "pairing" /\ adapter' = "serving")
      /\ device' \in {"unlinked", "linked", "unreadable"} /\ qrEvent' \in QrEvents
  BY SessionIs DEF DisconnectWhatsApp, ShowCode, PairingEnds, PairingCloses, StartReturns,
         SocketChanges, HealthCheck, LinkTypes, QrEvents
<1>3. LinkTypes'
  BY <1>1, <1>2 DEF LinkTypes
<1>4. OneHandler'
  BY <1>1, <1>2 DEF OneHandler
<1> QED
  BY <1>1, <1>3, <1>4, SendsRest

LEMMA LinkHears ==
  ASSUME WhatsAppInv, Hear
  PROVE  LinkTypes' /\ OneHandler' /\ CopiesAreCounted'
<1> USE WhatsAppNumbers DEF WhatsAppInv
<1>1. /\ UNCHANGED <<device, adapter, made, qrEvent, handlers, retried>> /\ UNCHANGED sendVars
      /\ adapter = "serving" /\ texts < MaxTexts /\ texts' = texts + 1
      /\ queued' = queued + handlers
  BY DEF Hear, linkVars
<1>2. LinkTypes'
  BY <1>1 DEF LinkTypes
<1>3. OneHandler'
  BY <1>1 DEF OneHandler, LinkTypes
<1> QED
  BY <1>1, <1>2, <1>3, SendsRest

\* The sends leave the link alone, but for the first.
LEMMA LinkRests ==
  ASSUME WhatsAppInv, UNCHANGED linkVars, UNCHANGED <<texts, queued, retried>>
  PROVE  LinkTypes' /\ OneHandler'
BY DEF WhatsAppInv, linkVars, LinkTypes, OneHandler

LEMMA SendBeginsKeeps ==
  ASSUME WhatsAppInv, SendBegins
  PROVE  LinkTypes' /\ OneHandler' /\ CopiesAreCounted'
<1> USE WhatsAppNumbers DEF WhatsAppInv
<1>1. /\ sending.step = "idle" /\ sendReply = "none" /\ copies = 0 /\ copies' = 0
      /\ UNCHANGED <<texts, queued, retried>>
  BY DEF SendBegins, CopiesAreCounted
<1>2. TriesOf(0) = 0 /\ TriesOf(SendRounds) \in Nat
  BY RoundsAdd DEF TriesOf
<1>3. ASSUME sending' \in SendRecords, sending'.step = "send", sending'.round = 1,
             UNCHANGED sendReply
      PROVE  CopiesAreCounted'
  BY <1>1, <1>2, <1>3 DEF CopiesAreCounted
<1>4. CASE /\ adapter # "none" /\ UNCHANGED linkVars
           /\ sending' = [NotSending EXCEPT !.step = "send", !.via = made]
           /\ UNCHANGED sendReply
  <2> DEFINE first == [NotSending EXCEPT !.step = "send"]
  <2>1. first \in SendRecords /\ first.step = "send" /\ first.round = 1
    BY NotSendingIs, StepSet
  <2>2. sending' = [first EXCEPT !.via = made] /\ made \in 0..MaxAdapters
    BY <1>4 DEF LinkTypes
  <2> HIDE DEF first
  <2>3. sending' \in SendRecords /\ sending'.step = "send" /\ sending'.round = 1
    BY <2>1, <2>2, ViaSet
  <2> QED
    BY <1>1, <1>3, <1>4, <2>3, LinkRests
<1>5. CASE /\ adapter = "none" /\ MakeAdapter(Renewed)
           /\ sending' = [NotSending EXCEPT !.step = "send", !.via = made', !.auto = TRUE]
           /\ UNCHANGED sendReply
  <2> DEFINE first == [NotSending EXCEPT !.step = "send"]
             follower == [first EXCEPT !.via = made']
  <2>1. LinkTypes' /\ OneHandler' /\ made' \in 0..MaxAdapters
    BY <1>1, <1>5, SessionIs, MakesAdapter
  <2>2. first \in SendRecords /\ first.step = "send" /\ first.round = 1
    BY NotSendingIs, StepSet
  <2>3. sending' = [follower EXCEPT !.auto = TRUE]
    BY <1>5
  <2> HIDE DEF first
  <2>4. follower \in SendRecords /\ follower.step = "send" /\ follower.round = 1
    BY <2>1, <2>2, ViaSet
  <2> HIDE DEF follower
  <2>5. sending' \in SendRecords /\ sending'.step = "send" /\ sending'.round = 1
    BY <2>1, <2>3, <2>4, AutoSet
  <2> QED
    BY <1>1, <1>3, <1>5, <2>1, <2>5
<1>6. CASE sendReply' = "failed" /\ UNCHANGED linkVars /\ sending' = sending
  <2>1. CopiesAreCounted'
    BY <1>1, <1>2, <1>6 DEF CopiesAreCounted
  <2> QED
    BY <1>1, <1>6, <2>1, LinkRests
<1> QED
  BY <1>4, <1>5, <1>6 DEF SendBegins

\* What the steps of a send do to its counters.
LEMMA SendGoesOn ==
  ASSUME WhatsAppInv, UNCHANGED linkVars, UNCHANGED <<texts, queued, retried>>,
         copies' \in 0..TriesOf(SendRounds),
         \/ /\ sendReply' = "sent" /\ copies' > 0 /\ sending' = [sending EXCEPT !.step = "idle"]
         \/ /\ sendReply' = "failed" /\ sending' = [sending EXCEPT !.step = "idle"]
         \/ /\ sendReply' = "none" /\ sending.round < SendRounds
            /\ sending' = [sending EXCEPT !.step = "pause"] /\ copies' <= TriesOf(sending.round)
         \/ /\ sendReply' = "none" /\ sending.step = "try" /\ sending.try < SendTries
            /\ sending' = [sending EXCEPT !.try = sending.try + 1]
            /\ copies' < TriesOf(sending.round - 1) + sending.try + 1
  PROVE  LinkTypes' /\ OneHandler' /\ CopiesAreCounted'
<1> USE WhatsAppNumbers DEF WhatsAppInv
<1>1. /\ sending \in SendRecords /\ sending.round \in 1..SendRounds
      /\ sending.try \in 1..SendTries
  BY DEF CopiesAreCounted, SendRecords
<1>2. CASE sendReply' \in {"sent", "failed"} /\ sending' = [sending EXCEPT !.step = "idle"]
           /\ (sendReply' = "sent" => copies' > 0)
  <2>1. sending' \in SendRecords /\ sending'.step = "idle"
    BY <1>1, <1>2, StepSet
  <2> QED
    BY <1>2, <2>1, LinkRests DEF CopiesAreCounted
<1>3. CASE /\ sendReply' = "none" /\ sending.round < SendRounds
           /\ sending' = [sending EXCEPT !.step = "pause"] /\ copies' <= TriesOf(sending.round)
  <2>1. sending' \in SendRecords /\ sending'.step = "pause" /\ sending'.round = sending.round
    BY <1>1, <1>3, StepSet
  <2> QED
    BY <1>3, <2>1, LinkRests DEF CopiesAreCounted
<1>4. CASE /\ sendReply' = "none" /\ sending.step = "try" /\ sending.try < SendTries
           /\ sending' = [sending EXCEPT !.try = sending.try + 1]
           /\ copies' < TriesOf(sending.round - 1) + sending.try + 1
  <2>0. sending.try + 1 \in 1..SendTries
    BY <1>1, <1>4
  <2>1. /\ sending' \in SendRecords /\ sending'.step = "try" /\ sending'.round = sending.round
        /\ sending'.try = sending.try + 1
    BY <1>1, <1>4, <2>0, TrySet
  <2>2. TriesOf(sending.round - 1) \in Nat
    BY <1>1, RoundsAdd
  <2>3. copies' < TriesOf(sending'.round - 1) + sending'.try
    BY <1>1, <1>4, <2>1, <2>2
  <2> QED
    BY <1>4, <2>1, <2>3, LinkRests DEF CopiesAreCounted
<1> QED
  BY <1>2, <1>3, <1>4

LEMMA SendUnconnectedKeeps ==
  ASSUME WhatsAppInv, SendUnconnected
  PROVE  LinkTypes' /\ OneHandler' /\ CopiesAreCounted'
<1> USE WhatsAppNumbers DEF WhatsAppInv
<1>1. /\ UNCHANGED linkVars /\ UNCHANGED <<texts, queued, retried>> /\ UNCHANGED copies
      /\ sending.step = "send" /\ sendReply = "none" /\ copies <= TriesOf(sending.round - 1)
      /\ copies \in 0..TriesOf(SendRounds) /\ sending.round \in 1..SendRounds
  BY DEF SendUnconnected, CopiesAreCounted, SendRecords
<1>2. copies <= TriesOf(sending.round)
  <2>1. TriesOf(sending.round) = TriesOf(sending.round - 1) + SendTries /\ TriesOf(sending.round - 1) \in Nat
    BY <1>1, RoundsAdd
  <2> QED
    BY <1>1, <2>1
<1>3. \/ /\ sending.round < SendRounds /\ sendReply' = "none"
         /\ sending' = [sending EXCEPT !.step = "pause"]
      \/ sendReply' = "failed" /\ sending' = [sending EXCEPT !.step = "idle"]
  BY <1>1 DEF SendUnconnected, SendEnds
<1> QED
  BY <1>1, <1>2, <1>3, SendGoesOn

LEMMA SendAcceptedKeeps ==
  ASSUME WhatsAppInv, SendAccepted
  PROVE  LinkTypes' /\ OneHandler' /\ CopiesAreCounted'
<1> USE WhatsAppNumbers DEF WhatsAppInv
<1> DEFINE next == [sending EXCEPT !.step = "try"]
<1>1. /\ UNCHANGED linkVars /\ UNCHANGED <<texts, queued, retried>> /\ UNCHANGED <<copies, sendReply>>
      /\ sending' = [next EXCEPT !.try = 1]
      /\ sending.step = "send" /\ sendReply = "none" /\ copies <= TriesOf(sending.round - 1)
      /\ copies \in 0..TriesOf(SendRounds) /\ sending \in SendRecords
      /\ sending.round \in 1..SendRounds
  BY DEF SendAccepted, CopiesAreCounted, SendRecords
<1>2. next \in SendRecords /\ next.step = "try" /\ next.round = sending.round
  BY <1>1, StepSet
<1> HIDE DEF next
<1>6. 1 \in 1..SendTries
  OBVIOUS
<1>3. /\ sending' \in SendRecords /\ sending'.step = "try" /\ sending'.round = sending.round
      /\ sending'.try = 1
  BY <1>1, <1>2, <1>6, TrySet
<1>4. TriesOf(sending.round - 1) \in Nat
  BY <1>1, RoundsAdd
<1>5. copies' < TriesOf(sending'.round - 1) + sending'.try
  BY <1>1, <1>3, <1>4
<1> QED
  BY <1>1, <1>3, <1>5, LinkRests DEF CopiesAreCounted

LEMMA AttemptKeeps ==
  ASSUME WhatsAppInv, NEW answer \in {"taken", "partly", "refused", "unanswered"},
         NEW taken \in BOOLEAN, NEW worthwhile \in BOOLEAN, Attempt(answer, taken, worthwhile)
  PROVE  LinkTypes' /\ OneHandler' /\ CopiesAreCounted'
<1> USE WhatsAppNumbers DEF WhatsAppInv
<1>1. /\ UNCHANGED linkVars /\ UNCHANGED <<texts, queued, retried>>
      /\ sending.step = "try" /\ sendReply = "none"
      /\ copies < TriesOf(sending.round - 1) + sending.try /\ copies \in Nat
      /\ sending.round \in 1..SendRounds /\ sending.try \in 1..SendTries
      /\ copies' \in {copies, copies + 1}
  BY DEF Attempt, CopiesAreCounted, SendRecords
<1>2. /\ TriesOf(sending.round - 1) \in Nat /\ TriesOf(sending.round) = TriesOf(sending.round - 1) + SendTries
      /\ TriesOf(sending.round) <= TriesOf(SendRounds) /\ TriesOf(SendRounds) \in Nat
  BY <1>1, RoundsAdd
<1>3. /\ copies' \in 0..TriesOf(SendRounds) /\ copies' <= TriesOf(sending.round)
      /\ copies' < TriesOf(sending.round - 1) + sending.try + 1
  BY <1>1, <1>2
<1>4. CASE AttemptSent(answer)
  <2>1. taken /\ copies' = copies + 1
    BY <1>4 DEF Attempt, AttemptSent
  <2>2. sendReply' = "sent" /\ sending' = [sending EXCEPT !.step = "idle"]
    BY <1>4 DEF Attempt, SendEnds
  <2>3. copies' > 0
    BY <1>1, <2>1
  <2> QED
    BY <1>1, <1>3, <2>2, <2>3, SendGoesOn
<1>5. CASE ~AttemptSent(answer)
  <2>1. \/ /\ sending.try < SendTries /\ sendReply' = "none"
           /\ sending' = [sending EXCEPT !.try = sending.try + 1]
        \/ /\ sending.round < SendRounds /\ sendReply' = "none"
           /\ sending' = [sending EXCEPT !.step = "pause"]
        \/ sendReply' = "failed" /\ sending' = [sending EXCEPT !.step = "idle"]
    BY <1>1, <1>5, Zenon DEF Attempt, SendEnds
  <2> QED
    BY <1>1, <1>3, <2>1, SendGoesOn
<1> QED
  BY <1>4, <1>5

LEMMA SendPausesKeeps ==
  ASSUME WhatsAppInv, SendPauses
  PROVE  LinkTypes' /\ OneHandler' /\ CopiesAreCounted'
<1> USE WhatsAppNumbers DEF WhatsAppInv
<1>1. /\ UNCHANGED linkVars /\ UNCHANGED <<texts, queued, retried>> /\ UNCHANGED copies
      /\ sending.step = "pause" /\ sendReply = "none" /\ copies <= TriesOf(sending.round)
      /\ copies \in 0..TriesOf(SendRounds) /\ sending.round \in 1..SendRounds
      /\ sending.round < SendRounds /\ sending \in SendRecords
  BY DEF SendPauses, CopiesAreCounted, SendRecords
<1>2. CASE sendReply' = "failed" /\ sending' = [sending EXCEPT !.step = "idle"]
  BY <1>1, <1>2, SendGoesOn
<1>3. CASE /\ UNCHANGED sendReply
           /\ sending' = [sending EXCEPT !.step = "send", !.round = sending.round + 1]
  <2> DEFINE next == [sending EXCEPT !.step = "send"]
  <2>0. sending.round + 1 \in 1..SendRounds
    BY <1>1
  <2>1. next \in SendRecords /\ next.step = "send"
    BY <1>1, StepSet
  <2>2. sending' = [next EXCEPT !.round = sending.round + 1]
    BY <1>3
  <2> HIDE DEF next
  <2>3. sending' \in SendRecords /\ sending'.step = "send" /\ sending'.round = sending.round + 1
    BY <2>0, <2>1, <2>2, RoundSet
  <2>4. sending'.round - 1 = sending.round
    BY <1>1, <2>3
  <2> QED
    BY <1>1, <1>3, <2>3, <2>4, LinkRests DEF CopiesAreCounted
<1> QED
  BY <1>2, <1>3 DEF SendPauses, SendEnds

LEMMA WhatsAppStep == WhatsAppInv /\ [WhatsAppNext]_whatsAppVars => WhatsAppInv'
<1> SUFFICES ASSUME WhatsAppInv, [WhatsAppNext]_whatsAppVars PROVE WhatsAppInv'
  OBVIOUS
<1> SUFFICES LinkTypes' /\ OneHandler' /\ CopiesAreCounted'
  BY FlagsKeep DEF WhatsAppInv
<1>1. CASE \E force \in BOOLEAN : ConnectWhatsApp(force)
  BY <1>1, LinkMakes, Zenon
<1>2. CASE StartWhatsApp
  BY <1>2, LinkStarts
<1>3. CASE \/ DisconnectWhatsApp \/ ShowCode \/ PairingEnds \/ PairingCloses \/ StartReturns
           \/ SocketChanges \/ HealthCheck
  BY <1>3, LinkChanges
<1>4. CASE Hear
  BY <1>4, LinkHears
<1>5. CASE SendBegins \/ SendUnconnected \/ SendAccepted \/ SendPauses
  BY <1>5, SendBeginsKeeps, SendUnconnectedKeeps, SendAcceptedKeeps, SendPausesKeeps
<1>6. CASE \E answer \in {"taken", "partly", "refused", "unanswered"},
             taken, worthwhile \in BOOLEAN : Attempt(answer, taken, worthwhile)
  BY <1>6, AttemptKeeps, Zenon
<1>7. CASE UNCHANGED whatsAppVars
  BY <1>7, LinkRests, SendsRest DEF whatsAppVars, WhatsAppInv
<1> QED
  BY <1>1, <1>2, <1>3, <1>4, <1>5, <1>6, <1>7, Zenon DEF WhatsAppNext

LEMMA WhatsAppHolds == WhatsAppInv => SentIsTaken /\ HeardOnce /\ WhatsAppTypeOK
<1> SUFFICES ASSUME WhatsAppInv PROVE SentIsTaken /\ HeardOnce /\ WhatsAppTypeOK
  OBVIOUS
<1> USE DEF WhatsAppInv
<1>1. SentIsTaken /\ HeardOnce
  BY DEF SentIsTaken, HeardOnce, OneHandler, CopiesAreCounted
<1>2. {halted, socket, retried} \subseteq BOOLEAN
  BY Zenon DEF LinkFlags
<1>3. SendTries * SendRounds = TriesOf(SendRounds)
  BY WhatsAppNumbers DEF TriesOf
<1>4. copies \in 0..(SendTries * SendRounds)
  BY <1>3 DEF CopiesAreCounted
<1>5. WhatsAppTypeOK
  BY <1>2, <1>4, Zenon
  DEF WhatsAppTypeOK, LinkTypes, OneHandler, CopiesAreCounted, QrEvents, SendRecords
<1> QED
  BY <1>1, <1>5

-----------------------------------------------------------------------------
(* Delivery.                                                               *)

Delivered == 0..MaxMessages

DeliveryTypes ==
  /\ inbox \in Seq(Heard) /\ Len(inbox) <= InboxSize
  /\ handling \in [Heard -> {"unheard", "inbox", "handled", "sending", "queued", "dropped"}]
  /\ target \in [Heard -> 0..MaxLinks] /\ earlier \in [Heard -> SUBSET Heard]
  /\ outbox \in [Links -> Seq(Heard)] /\ \A l \in Links : Len(outbox[l]) <= OutboxSize
  /\ hands \in [Links -> Seq(Delivered)] /\ left \in Seq(Heard)

LinkedFlag == linked \in BOOLEAN

\* An adapter that may start has starts left; one that was not made has none behind it.
StagesCount ==
  /\ links \in 0..MaxLinks /\ (linked => links > 0)
  /\ stage \in [Links -> {"none", "starting", "runs", "stopped", "over"}]
  /\ runs \in [Links -> 0..MaxRuns]
  /\ \A l \in Links :
       /\ l > links => stage[l] = "none"
       /\ stage[l] = "none" => runs[l] = 0
       /\ stage[l] = "starting" => runs[l] < MaxRuns

\* What waits for the router waits there once.
InboxPlaced ==
  /\ \A i \in 1..Len(inbox) : handling[inbox[i]] = "inbox"
  /\ \A i, j \in 1..Len(inbox) : i # j => inbox[i] # inbox[j]

Of(m, l) == handling[m] = "queued" /\ target[m] = l

\* What a queue, a goroutine or a vendor has was queued for that adapter.
RepliesPlaced ==
  /\ \A m \in Heard : handling[m] \in {"sending", "queued"} => target[m] \in Links
  /\ \A l \in Links : \A i \in 1..Len(outbox[l]) : Of(outbox[l][i], l)
  /\ \A l \in Links : \A w \in 1..Len(hands[l]) : hands[l][w] # 0 => Of(hands[l][w], l)
  /\ \A i \in 1..Len(left) :
       handling[left[i]] = "queued" /\ Len(hands[target[left[i]]]) > 0

EarlierQueued ==
  \A m \in Heard : \A k \in earlier[m] : handling[k] = "queued"

\* Of two replies that wait, or that a goroutine has, or that have left, the one whose
\* message was heard after the other was queued comes later.
After(m, k) == k \notin earlier[m]
QueueInOrder ==
  \A l \in Links : \A i, j \in 1..Len(outbox[l]) : i < j => After(outbox[l][i], outbox[l][j])
HandInOrder ==
  \A l \in Links : Len(hands[l]) = 1 =>
    \A j \in 1..Len(outbox[l]) : hands[l][1] # 0 => After(hands[l][1], outbox[l][j])
LeftInOrder ==
  \A i \in 1..Len(left) : \A l \in Links :
    target[left[i]] = l /\ Len(hands[l]) = 1 =>
      /\ \A j \in 1..Len(outbox[l]) : After(left[i], outbox[l][j])
      /\ After(left[i], hands[l][1])
      /\ \A j \in 1..Len(left) : i < j /\ target[left[j]] = l => After(left[i], left[j])

RepliesInOrder == QueueInOrder /\ HandInOrder /\ LeftInOrder

DeliveryInv ==
  /\ DeliveryTypes /\ LinkedFlag /\ StagesCount /\ InboxPlaced /\ RepliesPlaced
  /\ EarlierQueued /\ RepliesInOrder

LEMMA DeliveryNumbers ==
  /\ MaxMessages \in Nat /\ MaxMessages > 0 /\ InboxSize \in Nat /\ InboxSize > 0
  /\ OutboxSize \in Nat /\ OutboxSize > 0 /\ MaxLinks \in Nat /\ MaxRuns \in Nat /\ MaxRuns > 0
BY DeliveryAssumption

LEMMA DeliveryStarts == DeliveryInit => DeliveryInv
<1> SUFFICES ASSUME DeliveryInit PROVE DeliveryInv
  OBVIOUS
<1> USE DeliveryNumbers
<1>1. DeliveryTypes
  BY DEF DeliveryInit, DeliveryTypes, Heard, Links
<1>2. LinkedFlag
  BY Zenon DEF DeliveryInit, LinkedFlag
<1>3. StagesCount
  BY DEF DeliveryInit, StagesCount, Links
<1>4. InboxPlaced /\ EarlierQueued
  BY DEF DeliveryInit, InboxPlaced, EarlierQueued, Heard
<1>5. RepliesPlaced
  BY DEF DeliveryInit, RepliesPlaced, Heard, Links
<1>6. RepliesInOrder
  BY DEF DeliveryInit, RepliesInOrder, QueueInOrder, HandInOrder, LeftInOrder, Links
<1> QED
  BY <1>1, <1>2, <1>3, <1>4, <1>5, <1>6 DEF DeliveryInv

LEMMA LinkedStays ==
  ASSUME LinkedFlag, [DeliveryNext]_deliveryVars
  PROVE  LinkedFlag'
BY Zenon
DEF LinkedFlag, DeliveryNext, deliveryVars, Register, Unregister, TakeMessage,
    AdapterBreaks,
    StopAdapter, HearMessage, HandleMessage, SendReply, SendTimesOut, TakeOut, Deliver,
    StartAdapter

\* Where the replies are.
Replies == <<outbox, hands, left>>

\* A step of a message that is not queued, before or after.
LEMMA RepliesStay ==
  ASSUME DeliveryInv, UNCHANGED Replies,
         \A k \in Heard : handling'[k] \in {"sending", "queued"} => target'[k] \in Links,
         \A k \in Heard : handling[k] = "queued" =>
           handling'[k] = "queued" /\ target'[k] = target[k] /\ earlier'[k] = earlier[k]
  PROVE  RepliesPlaced' /\ RepliesInOrder'
<1> USE DEF Replies, DeliveryInv
<1>1. \A l \in Links : \A i \in 1..Len(outbox[l]) : outbox[l][i] \in Heard /\ Of(outbox[l][i], l)
  BY ElementOfSeq DEF DeliveryTypes, RepliesPlaced
<1>2. \A l \in Links : \A w \in 1..Len(hands[l]) :
        hands[l][w] # 0 => hands[l][w] \in Heard /\ Of(hands[l][w], l)
  <2> SUFFICES ASSUME NEW l \in Links, NEW w \in 1..Len(hands[l]), hands[l][w] # 0
               PROVE  hands[l][w] \in Heard /\ Of(hands[l][w], l)
    OBVIOUS
  <2>1. hands[l] \in Seq(Delivered)
    BY DEF DeliveryTypes
  <2>2. hands[l][w] \in Delivered
    BY <2>1, ElementOfSeq
  <2>3. hands[l][w] \in Heard
    BY <2>2, DeliveryNumbers DEF Delivered, Heard
  <2> QED
    BY <2>3 DEF RepliesPlaced
<1>3. \A i \in 1..Len(left) : left[i] \in Heard /\ handling[left[i]] = "queued"
  BY ElementOfSeq DEF DeliveryTypes, RepliesPlaced
<1>4. RepliesPlaced'
  BY <1>1, <1>2, <1>3 DEF RepliesPlaced, Of
<1>5. QueueInOrder'
  BY <1>1 DEF RepliesInOrder, QueueInOrder, Of, After
<1>6. HandInOrder'
  <2> SUFFICES ASSUME NEW l \in Links, Len(hands[l]) = 1, NEW j \in 1..Len(outbox[l]),
                      hands[l][1] # 0
               PROVE  After(hands[l][1], outbox[l][j])'
    BY DEF HandInOrder
  <2>1. 1 \in 1..Len(hands[l])
    OBVIOUS
  <2>2. hands[l][1] \in Heard /\ Of(hands[l][1], l)
    BY <1>2, <2>1
  <2>3. After(hands[l][1], outbox[l][j])
    BY DEF RepliesInOrder, HandInOrder
  <2> QED
    BY <2>2, <2>3 DEF After, Of
<1>7. LeftInOrder'
  BY <1>3 DEF RepliesInOrder, LeftInOrder, After
<1> QED
  BY <1>4, <1>5, <1>6, <1>7 DEF RepliesInOrder

LEMMA MessagesStay ==
  ASSUME DeliveryInv, UNCHANGED <<inbox, handling, target, earlier, outbox, hands, left>>
  PROVE  DeliveryTypes' /\ InboxPlaced' /\ RepliesPlaced' /\ EarlierQueued' /\ RepliesInOrder'
<1> USE DEF DeliveryInv
<1>1. DeliveryTypes' /\ InboxPlaced' /\ EarlierQueued'
  BY DEF DeliveryTypes, InboxPlaced, EarlierQueued
<1>2. RepliesPlaced' /\ RepliesInOrder'
  BY RepliesStay DEF Replies, RepliesPlaced
<1> QED
  BY <1>1, <1>2

LEMMA AdapterSteps ==
  ASSUME DeliveryInv,
         Register \/ Unregister \/ \E l \in Links : AdapterBreaks(l) \/ StopAdapter(l)
  PROVE  /\ DeliveryTypes' /\ InboxPlaced' /\ RepliesPlaced' /\ EarlierQueued' /\ RepliesInOrder'
         /\ StagesCount'
<1> USE DeliveryNumbers DEF DeliveryInv
<1>1. UNCHANGED <<inbox, handling, target, earlier, outbox, hands, left>>
  BY DEF Register, Unregister, AdapterBreaks, StopAdapter
<1>2. ASSUME Register PROVE StagesCount'
  BY <1>2 DEF Register, StagesCount, Links
<1>3. ASSUME Unregister PROVE StagesCount'
  BY <1>3 DEF Unregister, StagesCount, Links
<1>4. ASSUME NEW l \in Links, AdapterBreaks(l) \/ StopAdapter(l) PROVE StagesCount'
  BY <1>4 DEF AdapterBreaks, StopAdapter, StagesCount, Links
<1> QED
  BY <1>1, <1>2, <1>3, <1>4, MessagesStay

\* A Start that leaves a goroutine: with another there may be no order, and before the
\* first nothing has left.
LEMMA StartSteps ==
  ASSUME DeliveryInv, NEW l \in Links, StartAdapter(l)
  PROVE  /\ DeliveryTypes' /\ InboxPlaced' /\ RepliesPlaced' /\ EarlierQueued' /\ RepliesInOrder'
         /\ StagesCount'
<1> USE DeliveryNumbers DEF DeliveryInv
<1>1. /\ UNCHANGED <<inbox, handling, target, links, linked, outbox, left, earlier>>
      /\ stage[l] = "starting" /\ runs' = [runs EXCEPT ![l] = @ + 1]
      /\ \/ stage' = [stage EXCEPT ![l] = "runs"] /\ hands' = [hands EXCEPT ![l] = Append(@, 0)]
         \/ /\ stage' = [stage EXCEPT ![l] = IF runs'[l] < MaxRuns THEN "starting" ELSE "over"]
            /\ UNCHANGED hands
  BY DEF StartAdapter
<1>2. StagesCount'
  BY <1>1 DEF StagesCount, Links
<1>3. CASE UNCHANGED hands
  BY <1>1, <1>2, <1>3, MessagesStay
<1>4. CASE hands' = [hands EXCEPT ![l] = Append(@, 0)]
  <2>1. hands[l] \in Seq(Delivered) /\ 0 \in Delivered
    BY DEF DeliveryTypes, Delivered
  <2>2. /\ Append(hands[l], 0) \in Seq(Delivered) /\ Len(hands[l]) \in Nat
        /\ Len(Append(hands[l], 0)) = Len(hands[l]) + 1
        /\ \A w \in 1..Len(hands[l]) : Append(hands[l], 0)[w] = hands[l][w]
        /\ Append(hands[l], 0)[Len(hands[l]) + 1] = 0
    BY <2>1, AppendProperties, LenProperties
  <2>3. /\ hands'[l] = Append(hands[l], 0)
        /\ \A k \in Links : k # l => hands'[k] = hands[k]
        /\ hands' \in [Links -> Seq(Delivered)]
    BY <1>4, <2>2 DEF DeliveryTypes
  <2>4. DeliveryTypes' /\ InboxPlaced' /\ EarlierQueued'
    BY <1>1, <2>3 DEF DeliveryTypes, InboxPlaced, EarlierQueued
  <2>5. \A k \in Links : \A w \in 1..Len(hands'[k]) : hands'[k][w] # 0 => Of(hands'[k][w], k)
    <3> SUFFICES ASSUME NEW k \in Links, NEW w \in 1..Len(hands'[k]), hands'[k][w] # 0
                 PROVE  Of(hands'[k][w], k)
      OBVIOUS
    <3>1. w \in 1..Len(hands[k]) /\ hands'[k][w] = hands[k][w]
      BY <2>2, <2>3
    <3> QED
      BY <3>1 DEF RepliesPlaced
  <2>6. \A i \in 1..Len(left) : Len(hands'[target[left[i]]]) > 0
    <3> SUFFICES ASSUME NEW i \in 1..Len(left) PROVE Len(hands'[target[left[i]]]) > 0
      OBVIOUS
    <3>1. Len(hands[target[left[i]]]) > 0
      BY DEF RepliesPlaced
    <3>2. left[i] \in Heard /\ handling[left[i]] = "queued"
      BY ElementOfSeq DEF DeliveryTypes, RepliesPlaced
    <3>3. target[left[i]] \in Links
      BY <3>2 DEF RepliesPlaced
    <3> HIDE DEF DeliveryInv
    <3> DEFINE k == target[left[i]]
    <3>4. k \in Links /\ Len(hands[k]) > 0
      BY <3>1, <3>3
    <3> HIDE DEF k
    <3>5. Len(hands'[k]) > 0
      BY <2>2, <2>3, <3>4
    <3> QED
      BY <3>5 DEF k
  <2>7. RepliesPlaced'
    BY <1>1, <2>5, <2>6 DEF RepliesPlaced, Of
  <2>8. \A k \in Links : Len(hands'[k]) = 1 =>
          (hands'[k] = hands[k] \/ (hands'[k][1] = 0 /\ Len(hands[k]) = 0))
    BY <2>2, <2>3
  <2>9. QueueInOrder' /\ HandInOrder'
    BY <1>1, <2>8 DEF RepliesInOrder, QueueInOrder, HandInOrder, After
  <2>10. LeftInOrder'
    <3> SUFFICES ASSUME NEW i \in 1..Len(left), NEW k \in Links, target[left[i]] = k,
                        Len(hands'[k]) = 1
                 PROVE  /\ \A j \in 1..Len(outbox[k]) : After(left[i], outbox[k][j])
                        /\ After(left[i], hands'[k][1])
                        /\ \A j \in 1..Len(left) :
                             i < j /\ target[left[j]] = k => After(left[i], left[j])
      BY <1>1 DEF LeftInOrder, After
    <3>1. Len(hands[k]) > 0
      BY DEF RepliesPlaced
    <3>2. hands'[k] = hands[k]
      BY <2>8, <3>1
    <3> QED
      BY <3>2 DEF RepliesInOrder, LeftInOrder
  <2> QED
    BY <1>2, <2>4, <2>7, <2>9, <2>10 DEF RepliesInOrder
<1> QED
  BY <1>1, <1>3, <1>4

\* Messages on their way to a queue.
LEMMA HearSteps ==
  ASSUME DeliveryInv, NEW m \in Heard, HearMessage(m)
  PROVE  /\ DeliveryTypes' /\ InboxPlaced' /\ RepliesPlaced' /\ EarlierQueued' /\ RepliesInOrder'
         /\ StagesCount'
<1> USE DeliveryNumbers DEF DeliveryInv
<1>1. /\ UNCHANGED <<target, links, linked, stage, runs, outbox, hands, left>>
      /\ handling[m] = "unheard" /\ Len(inbox) < InboxSize /\ inbox' = Append(inbox, m)
      /\ handling' = [handling EXCEPT ![m] = "inbox"]
      /\ earlier' = [earlier EXCEPT ![m] = {k \in Heard : handling[k] = "queued"}]
  BY DEF HearMessage, NextHeard
<1>2. StagesCount'
  BY <1>1 DEF StagesCount
<1>3. RepliesPlaced' /\ RepliesInOrder'
  BY <1>1, RepliesStay DEF Replies, RepliesPlaced, DeliveryTypes
<1>4. EarlierQueued'
  BY <1>1 DEF EarlierQueued, DeliveryTypes
<1>5. inbox \in Seq(Heard)
  BY DEF DeliveryTypes
<1>6. /\ Append(inbox, m) \in Seq(Heard) /\ Len(inbox) \in Nat
      /\ Len(Append(inbox, m)) = Len(inbox) + 1
      /\ \A i \in 1..Len(inbox) : Append(inbox, m)[i] = inbox[i]
      /\ Append(inbox, m)[Len(inbox) + 1] = m
  BY <1>5, AppendProperties, LenProperties
<1>7. DeliveryTypes'
  BY <1>1, <1>6 DEF DeliveryTypes
<1>8. \A i \in 1..Len(inbox) : inbox[i] \in Heard /\ inbox[i] # m /\ handling[inbox[i]] = "inbox"
  BY <1>1, <1>5, ElementOfSeq DEF InboxPlaced
<1>9. \A i \in 1..Len(inbox') : inbox'[i] \in Heard /\ handling'[inbox'[i]] = "inbox"
  BY <1>1, <1>6, <1>8 DEF DeliveryTypes
<1>10. \A i, j \in 1..Len(inbox') : i # j => inbox'[i] # inbox'[j]
  BY <1>1, <1>6, <1>8 DEF InboxPlaced
<1>11. InboxPlaced'
  BY <1>9, <1>10 DEF InboxPlaced
<1> QED
  BY <1>2, <1>3, <1>4, <1>7, <1>11

LEMMA TakeSteps ==
  ASSUME DeliveryInv, TakeMessage
  PROVE  /\ DeliveryTypes' /\ InboxPlaced' /\ RepliesPlaced' /\ EarlierQueued' /\ RepliesInOrder'
         /\ StagesCount'
<1> USE DeliveryNumbers DEF DeliveryInv
<1> DEFINE m == inbox[1]
<1>1. /\ UNCHANGED <<target, links, linked, stage, runs, outbox, hands, left, earlier>>
      /\ inbox # <<>> /\ inbox' = Tail(inbox)
      /\ handling' = [handling EXCEPT ![m] = "handled"]
  BY DEF TakeMessage
<1>2. StagesCount'
  BY <1>1 DEF StagesCount
<1>3. inbox \in Seq(Heard)
  BY DEF DeliveryTypes
<1>4. /\ Tail(inbox) \in Seq(Heard) /\ Len(inbox) \in Nat
      /\ Len(Tail(inbox)) = Len(inbox) - 1
      /\ \A i \in 1..(Len(inbox) - 1) : Tail(inbox)[i] = inbox[i + 1]
  BY <1>1, <1>3, HeadTailProperties, LenProperties
<1>5. 1 \in 1..Len(inbox)
  BY <1>1, <1>3, <1>4
<1>6. m \in Heard /\ handling[m] = "inbox"
  BY <1>3, <1>5, ElementOfSeq DEF InboxPlaced
<1>7. \A i \in 2..Len(inbox) : inbox[i] \in Heard /\ inbox[i] # m /\ handling[inbox[i]] = "inbox"
  BY <1>3, <1>4, <1>5, ElementOfSeq DEF InboxPlaced
<1>8. \A i \in 1..Len(inbox') : i + 1 \in 2..Len(inbox) /\ inbox'[i] = inbox[i + 1]
  BY <1>1, <1>4
<1>11. \A i, j \in 1..Len(inbox') : i # j => inbox'[i] # inbox'[j]
  <2> SUFFICES ASSUME NEW i \in 1..Len(inbox'), NEW j \in 1..Len(inbox'), i # j
               PROVE  inbox'[i] # inbox'[j]
    OBVIOUS
  <2>1. i + 1 \in 1..Len(inbox) /\ j + 1 \in 1..Len(inbox) /\ i + 1 # j + 1
    BY <1>4, <1>8
  <2> QED
    BY <1>8, <2>1 DEF InboxPlaced
<1> HIDE DEF m
<1>9. RepliesPlaced' /\ RepliesInOrder'
  BY <1>1, <1>6, RepliesStay DEF Replies, RepliesPlaced, DeliveryTypes
<1>10. EarlierQueued'
  BY <1>1, <1>6 DEF EarlierQueued, DeliveryTypes
<1>12. DeliveryTypes'
  <2>1. Len(inbox') <= InboxSize
    BY <1>1, <1>4 DEF DeliveryTypes
  <2> QED
    BY <1>1, <1>4, <2>1 DEF DeliveryTypes
<1>13. \A i \in 1..Len(inbox') : handling'[inbox'[i]] = "inbox"
  BY <1>1, <1>7, <1>8 DEF DeliveryTypes
<1>14. InboxPlaced'
  BY <1>11, <1>13 DEF InboxPlaced
<1> QED
  BY <1>2, <1>9, <1>10, <1>12, <1>14

LEMMA HandleSteps ==
  ASSUME DeliveryInv, NEW m \in Heard, HandleMessage(m) \/ SendTimesOut(m)
  PROVE  /\ DeliveryTypes' /\ InboxPlaced' /\ RepliesPlaced' /\ EarlierQueued' /\ RepliesInOrder'
         /\ StagesCount'
<1> USE DeliveryNumbers DEF DeliveryInv
<1>1. /\ UNCHANGED <<inbox, links, linked, stage, runs, outbox, hands, left, earlier>>
      /\ handling[m] \in {"handled", "sending"}
      /\ \/ handling' = [handling EXCEPT ![m] = "dropped"] /\ UNCHANGED target
         \/ /\ handling' = [handling EXCEPT ![m] = "sending"] /\ linked
            /\ target' = [target EXCEPT ![m] = links]
  BY DEF HandleMessage, SendTimesOut
<1>2. StagesCount'
  BY <1>1 DEF StagesCount
<1>3. linked => links \in Links
  BY DEF StagesCount, Links
<1>4. \A k \in Heard : handling'[k] \in {"sending", "queued"} => target'[k] \in Links
  BY <1>1, <1>3 DEF RepliesPlaced, DeliveryTypes
<1>5. \A k \in Heard : k # m =>
        handling'[k] = handling[k] /\ target'[k] = target[k] /\ earlier'[k] = earlier[k]
  BY <1>1 DEF DeliveryTypes
<1>6. RepliesPlaced' /\ RepliesInOrder'
  BY <1>1, <1>4, <1>5, RepliesStay DEF Replies
<1>7. EarlierQueued'
  BY <1>1, <1>5 DEF EarlierQueued, DeliveryTypes
<1>8. DeliveryTypes'
  BY <1>1 DEF DeliveryTypes, StagesCount
<1>9. InboxPlaced'
  <2>1. \A i \in 1..Len(inbox) : inbox[i] \in Heard /\ inbox[i] # m
    BY <1>1, ElementOfSeq DEF InboxPlaced, DeliveryTypes
  <2> QED
    BY <1>1, <1>5, <2>1 DEF InboxPlaced
<1> QED
  BY <1>2, <1>6, <1>7, <1>8, <1>9

\* A reply is put at the end of its queue: no message was heard after it was queued.
LEMMA QueueSteps ==
  ASSUME DeliveryInv, NEW m \in Heard, SendReply(m)
  PROVE  /\ DeliveryTypes' /\ InboxPlaced' /\ RepliesPlaced' /\ EarlierQueued' /\ RepliesInOrder'
         /\ StagesCount'
<1> USE DeliveryNumbers DEF DeliveryInv
<1> DEFINE l == target[m]
           q == outbox[l]
<1>1. /\ UNCHANGED <<inbox, target, links, linked, stage, runs, hands, left, earlier>>
      /\ handling[m] = "sending" /\ Len(q) < OutboxSize
      /\ outbox' = [outbox EXCEPT ![l] = Append(q, m)]
      /\ handling' = [handling EXCEPT ![m] = "queued"]
  BY DEF SendReply
<1>2. l \in Links
  BY <1>1 DEF RepliesPlaced
<1>3. q \in Seq(Heard)
  BY <1>2 DEF DeliveryTypes
<1>4. /\ Append(q, m) \in Seq(Heard) /\ Len(q) \in Nat
      /\ Len(Append(q, m)) = Len(q) + 1
      /\ \A i \in 1..Len(q) : Append(q, m)[i] = q[i]
      /\ Append(q, m)[Len(q) + 1] = m
  BY <1>3, AppendProperties, LenProperties
<1>5. target[m] = l
  OBVIOUS
<1>6. \A k \in Links : \A i \in 1..Len(outbox[k]) : Of(outbox[k][i], k)
  BY DEF RepliesPlaced
<1> HIDE DEF l
<1>7. /\ outbox'[l] = Append(q, m) /\ \A k \in Links : k # l => outbox'[k] = outbox[k]
      /\ handling'[m] = "queued" /\ \A k \in Heard : k # m => handling'[k] = handling[k]
  BY <1>1, <1>2 DEF DeliveryTypes
<1>8. \A k \in Links : \A i \in 1..Len(outbox'[k]) :
        \/ i \in 1..Len(outbox[k]) /\ outbox'[k][i] = outbox[k][i]
        \/ k = l /\ i = Len(q) + 1 /\ outbox'[k][i] = m
  BY <1>4, <1>7
<1>9. StagesCount'
  BY <1>1 DEF StagesCount
<1>10. InboxPlaced'
  <2>1. \A i \in 1..Len(inbox) : inbox[i] \in Heard /\ inbox[i] # m
    BY <1>1, ElementOfSeq DEF InboxPlaced, DeliveryTypes
  <2> QED
    BY <1>1, <1>7, <2>1 DEF InboxPlaced
<1>11. EarlierQueued'
  BY <1>1, <1>7 DEF EarlierQueued, DeliveryTypes
<1>12. DeliveryTypes'
  <2>1. \A k \in Links : outbox'[k] \in Seq(Heard) /\ Len(outbox'[k]) <= OutboxSize
    BY <1>1, <1>4, <1>7 DEF DeliveryTypes
  <2>2. outbox' \in [Links -> Seq(Heard)]
    BY <1>1, <2>1 DEF DeliveryTypes
  <2> QED
    BY <1>1, <2>1, <2>2 DEF DeliveryTypes
<1>13. \A k : handling[k] = "queued" => handling'[k] = "queued"
  BY <1>1
<1>14. RepliesPlaced'
  <2>1. \A k \in Heard : handling'[k] \in {"sending", "queued"} => target'[k] \in Links
    BY <1>1, <1>2, <1>5, <1>7 DEF RepliesPlaced
  <2>2. \A k \in Links : \A i \in 1..Len(outbox'[k]) :
          handling'[outbox'[k][i]] = "queued" /\ target[outbox'[k][i]] = k
    BY <1>1, <1>5, <1>6, <1>7, <1>8, <1>13 DEF Of
  <2>3. \A k \in Links : \A w \in 1..Len(hands[k]) :
          hands[k][w] # 0 => handling'[hands[k][w]] = "queued" /\ target[hands[k][w]] = k
    BY <1>1, <1>13 DEF RepliesPlaced, Of
  <2>4. \A i \in 1..Len(left) :
          handling'[left[i]] = "queued" /\ Len(hands[target[left[i]]]) > 0
    BY <1>13 DEF RepliesPlaced
  <2> QED
    BY <1>1, <2>1, <2>2, <2>3, <2>4 DEF RepliesPlaced, Of
<1>15. \A k \in Heard : After(k, m)
  BY <1>1 DEF EarlierQueued, After
<1>16. \A k \in Links : \A i \in 1..Len(outbox[k]) : outbox[k][i] \in Heard
  BY ElementOfSeq DEF DeliveryTypes
<1>17. QueueInOrder'
  <2> SUFFICES ASSUME NEW k \in Links, NEW i \in 1..Len(outbox'[k]), NEW j \in 1..Len(outbox'[k]),
                      i < j
               PROVE  After(outbox'[k][i], outbox'[k][j])
    BY <1>1 DEF QueueInOrder, After
  <2>0. i \in 1..Len(outbox[k]) /\ outbox'[k][i] = outbox[k][i]
    BY <1>4, <1>7, <1>8
  <2>1. CASE j \in 1..Len(outbox[k]) /\ outbox'[k][j] = outbox[k][j]
    BY <2>0, <2>1 DEF RepliesInOrder, QueueInOrder
  <2>2. CASE outbox'[k][j] = m
    BY <2>0, <2>2, <1>15, <1>16
  <2> QED
    BY <1>8, <2>1, <2>2
<1>18. HandInOrder'
  <2> SUFFICES ASSUME NEW k \in Links, Len(hands[k]) = 1, NEW j \in 1..Len(outbox'[k]),
                      hands[k][1] # 0
               PROVE  After(hands[k][1], outbox'[k][j])
    BY <1>1 DEF HandInOrder, After
  <2>1. 1 \in 1..Len(hands[k]) /\ hands[k] \in Seq(Delivered)
    BY DEF DeliveryTypes
  <2>2. hands[k][1] \in Delivered
    BY <2>1, ElementOfSeq
  <2>3. hands[k][1] \in Heard
    BY <2>2 DEF Delivered, Heard
  <2> QED
    BY <1>8, <1>15, <2>3 DEF RepliesInOrder, HandInOrder
<1>19. LeftInOrder'
  <2> SUFFICES ASSUME NEW i \in 1..Len(left), NEW k \in Links, target[left[i]] = k,
                      Len(hands[k]) = 1
               PROVE  /\ \A j \in 1..Len(outbox'[k]) : After(left[i], outbox'[k][j])
                      /\ After(left[i], hands[k][1])
                      /\ \A j \in 1..Len(left) :
                           i < j /\ target[left[j]] = k => After(left[i], left[j])
    BY <1>1 DEF LeftInOrder, After
  <2>1. left[i] \in Heard
    BY ElementOfSeq DEF DeliveryTypes
  <2> QED
    BY <1>8, <1>15, <2>1 DEF RepliesInOrder, LeftInOrder
<1> QED
  BY <1>9, <1>10, <1>11, <1>12, <1>14, <1>17, <1>18, <1>19 DEF RepliesInOrder

\* A goroutine takes the first reply of its queue.
LEMMA TakeOutSteps ==
  ASSUME DeliveryInv, NEW l \in Links, NEW w \in 1..MaxRuns, TakeOut(l, w)
  PROVE  /\ DeliveryTypes' /\ InboxPlaced' /\ RepliesPlaced' /\ EarlierQueued' /\ RepliesInOrder'
         /\ StagesCount'
<1> USE DeliveryNumbers DEF DeliveryInv
<1> DEFINE q == outbox[l]
           h == hands[l]
           m == q[1]
           g == [h EXCEPT ![w] = m]
<1>1. /\ UNCHANGED <<inbox, handling, target, links, linked, stage, runs, left, earlier>>
      /\ q # <<>> /\ w \in DOMAIN h /\ h[w] = 0
      /\ hands' = [hands EXCEPT ![l] = g] /\ outbox' = [outbox EXCEPT ![l] = Tail(q)]
  BY DEF TakeOut, Free, TakeReply
<1>2. q \in Seq(Heard) /\ h \in Seq(Delivered)
  BY DEF DeliveryTypes
<1>3. /\ Tail(q) \in Seq(Heard) /\ Len(q) \in Nat /\ Len(Tail(q)) = Len(q) - 1
      /\ \A i \in 1..(Len(q) - 1) : Tail(q)[i] = q[i + 1]
      /\ w \in 1..Len(h) /\ Len(h) \in Nat
  BY <1>1, <1>2, HeadTailProperties, LenProperties
<1>4. 1 \in 1..Len(q)
  BY <1>1, <1>2, <1>3
<1>5. m \in Heard /\ m \in Delivered /\ Of(m, l)
  BY <1>2, <1>4, ElementOfSeq DEF Heard, Delivered, RepliesPlaced
<1>6. \A i \in 1..Len(q) : i # 1 => After(m, q[i])
  BY <1>3, <1>4 DEF RepliesInOrder, QueueInOrder
<1> HIDE DEF m
<1>7. g \in Seq(Delivered) /\ Len(g) = Len(h) /\ g[w] = m
      /\ \A v \in 1..Len(h) : v # w => g[v] = h[v]
  BY <1>2, <1>3, <1>5, ExceptSeq
<1> HIDE DEF g
<1>8. /\ outbox'[l] = Tail(q) /\ \A k \in Links : k # l => outbox'[k] = outbox[k]
      /\ hands'[l] = g /\ \A k \in Links : k # l => hands'[k] = hands[k]
  BY <1>1 DEF DeliveryTypes
<1>9. \A k \in Links : Len(hands'[k]) = Len(hands[k])
  BY <1>7, <1>8
<1>10. StagesCount' /\ InboxPlaced' /\ EarlierQueued'
  BY <1>1 DEF StagesCount, InboxPlaced, EarlierQueued
<1>11. DeliveryTypes'
  <2>1. \A k \in Links : outbox'[k] \in Seq(Heard) /\ Len(outbox'[k]) <= OutboxSize
    <3> SUFFICES ASSUME NEW k \in Links
                 PROVE  outbox'[k] \in Seq(Heard) /\ Len(outbox'[k]) <= OutboxSize
      OBVIOUS
    <3>1. CASE k = l
      <4>1. Len(q) <= OutboxSize
        BY DEF DeliveryTypes
      <4>2. Len(Tail(q)) <= OutboxSize
        BY <1>3, <4>1
      <4>3. outbox'[k] = Tail(q)
        BY <1>8, <3>1
      <4> QED
        BY <1>3, <4>2, <4>3, Zenon
    <3>2. CASE k # l
      BY <1>8, <3>2 DEF DeliveryTypes
    <3> QED
      BY <3>1, <3>2
  <2>2. outbox' \in [Links -> Seq(Heard)] /\ hands' \in [Links -> Seq(Delivered)]
    BY <1>1, <1>3, <1>7 DEF DeliveryTypes
  <2> QED
    BY <1>1, <2>1, <2>2 DEF DeliveryTypes
\* Where a reply of a queue was before.
<1>12. \A k \in Links : \A i \in 1..Len(outbox'[k]) :
         \/ k = l /\ i + 1 \in 1..Len(outbox[k]) /\ outbox'[k][i] = outbox[k][i + 1]
         \/ k # l /\ i \in 1..Len(outbox[k]) /\ outbox'[k][i] = outbox[k][i]
  <2>1. \A i \in 1..Len(Tail(q)) : i + 1 \in 1..Len(q) /\ Tail(q)[i] = q[i + 1]
    BY <1>3
  <2> QED
    BY <1>8, <2>1, Zenon
<1>13. RepliesPlaced'
  <2>1. \A k \in Links : \A i \in 1..Len(outbox'[k]) : Of(outbox'[k][i], k)
    BY <1>12 DEF RepliesPlaced
  <2>2. \A k \in Links : \A v \in 1..Len(hands'[k]) : hands'[k][v] # 0 => Of(hands'[k][v], k)
    <3> SUFFICES ASSUME NEW k \in Links, NEW v \in 1..Len(hands'[k]), hands'[k][v] # 0
                 PROVE  Of(hands'[k][v], k)
      OBVIOUS
    <3>1. v \in 1..Len(hands[k])
      BY <1>9
    <3>2. CASE k = l /\ v = w
      BY <1>5, <1>7, <1>8, <3>2
    <3>3. CASE ~(k = l /\ v = w)
      <4>1. hands'[k][v] = hands[k][v]
        BY <1>7, <1>8, <3>1, <3>3
      <4> QED
        BY <3>1, <4>1 DEF RepliesPlaced
    <3> QED
      BY <3>2, <3>3
  <2>3. \A i \in 1..Len(left) : left[i] \in Heard /\ handling[left[i]] = "queued"
    BY ElementOfSeq DEF DeliveryTypes, RepliesPlaced
  <2>4. \A i \in 1..Len(left) : Len(hands'[target[left[i]]]) > 0
    <3> SUFFICES ASSUME NEW i \in 1..Len(left) PROVE Len(hands'[target[left[i]]]) > 0
      OBVIOUS
    <3>1. target[left[i]] \in Links /\ Len(hands[target[left[i]]]) > 0
      BY <2>3 DEF RepliesPlaced
    <3> QED
      BY <1>9, <3>1
  <2> QED
    BY <1>1, <2>1, <2>2, <2>3, <2>4 DEF RepliesPlaced, Of
<1>14. QueueInOrder'
  <2> SUFFICES ASSUME NEW k \in Links, NEW i \in 1..Len(outbox'[k]), NEW j \in 1..Len(outbox'[k]),
                      i < j
               PROVE  After(outbox'[k][i], outbox'[k][j])
    BY <1>1 DEF QueueInOrder, After
  <2>1. CASE k = l
    <3>1. i + 1 \in 1..Len(outbox[k]) /\ j + 1 \in 1..Len(outbox[k]) /\ i + 1 < j + 1
      BY <1>12, <2>1
    <3> QED
      BY <1>12, <2>1, <3>1 DEF RepliesInOrder, QueueInOrder
  <2>2. CASE k # l
    BY <1>12, <2>2 DEF RepliesInOrder, QueueInOrder
  <2> QED
    BY <2>1, <2>2
<1>15. HandInOrder'
  <2> SUFFICES ASSUME NEW k \in Links, Len(hands'[k]) = 1, NEW j \in 1..Len(outbox'[k]),
                      hands'[k][1] # 0
               PROVE  After(hands'[k][1], outbox'[k][j])
    BY <1>1 DEF HandInOrder, After
  <2>1. CASE k = l
    <3>1. w = 1 /\ hands'[k][1] = m
      BY <1>3, <1>7, <1>8, <2>1
    <3>2. j + 1 \in 1..Len(q) /\ j + 1 # 1 /\ outbox'[k][j] = q[j + 1]
      BY <1>12, <2>1
    <3> QED
      BY <1>6, <3>1, <3>2
  <2>2. CASE k # l
    BY <1>8, <2>2 DEF RepliesInOrder, HandInOrder
  <2> QED
    BY <2>1, <2>2
<1>16. LeftInOrder'
  <2> SUFFICES ASSUME NEW i \in 1..Len(left), NEW k \in Links, target[left[i]] = k,
                      Len(hands'[k]) = 1
               PROVE  /\ \A j \in 1..Len(outbox'[k]) : After(left[i], outbox'[k][j])
                      /\ After(left[i], hands'[k][1])
                      /\ \A j \in 1..Len(left) :
                           i < j /\ target[left[j]] = k => After(left[i], left[j])
    BY <1>1 DEF LeftInOrder, After
  <2>1. /\ \A j \in 1..Len(outbox[k]) : After(left[i], outbox[k][j])
        /\ After(left[i], hands[k][1])
        /\ \A j \in 1..Len(left) : i < j /\ target[left[j]] = k => After(left[i], left[j])
    BY <1>9 DEF RepliesInOrder, LeftInOrder
  <2>2. \A j \in 1..Len(outbox'[k]) : After(left[i], outbox'[k][j])
    BY <1>12, <2>1
  <2>3. After(left[i], hands'[k][1])
    <3>1. CASE k = l
      <4>1. w = 1 /\ hands'[k][1] = m
        BY <1>3, <1>7, <1>8, <1>9, <3>1
      <4>2. After(left[i], q[1])
        BY <1>4, <2>1, <3>1
      <4> QED
        BY <4>1, <4>2 DEF m
    <3>2. CASE k # l
      BY <1>8, <2>1, <3>2
    <3> QED
      BY <3>1, <3>2
  <2> QED
    BY <2>1, <2>2, <2>3
<1> QED
  BY <1>10, <1>11, <1>13, <1>14, <1>15, <1>16 DEF RepliesInOrder

\* The vendor takes it.
LEMMA DeliverSteps ==
  ASSUME DeliveryInv, NEW l \in Links, NEW w \in 1..MaxRuns, Deliver(l, w)
  PROVE  /\ DeliveryTypes' /\ InboxPlaced' /\ RepliesPlaced' /\ EarlierQueued' /\ RepliesInOrder'
         /\ StagesCount'
<1> USE DeliveryNumbers DEF DeliveryInv
<1> DEFINE h == hands[l]
           m == h[w]
           g == [h EXCEPT ![w] = 0]
<1>1. /\ UNCHANGED <<inbox, handling, target, links, linked, stage, runs, outbox, earlier>>
      /\ w \in DOMAIN h /\ m \in Heard
      /\ hands' = [hands EXCEPT ![l] = g] /\ left' = Append(left, m)
  BY DEF Deliver
<1>2. h \in Seq(Delivered) /\ left \in Seq(Heard) /\ 0 \in Delivered
  BY DEF DeliveryTypes, Delivered
<1>3. w \in 1..Len(h) /\ Len(h) \in Nat /\ Len(left) \in Nat
  BY <1>1, <1>2, LenProperties
<1>4. m # 0 /\ Of(m, l)
  BY <1>1, <1>3 DEF Heard, RepliesPlaced
<1>5. g \in Seq(Delivered) /\ Len(g) = Len(h) /\ g[w] = 0
      /\ \A v \in 1..Len(h) : v # w => g[v] = h[v]
  BY <1>2, <1>3, ExceptSeq
<1> HIDE DEF g
<1>6. Len(h) = 1 => w = 1 /\ g[1] = 0
  BY <1>3, <1>5
<1>7. Len(h) = 1 => \A j \in 1..Len(outbox[l]) : After(m, outbox[l][j])
  BY <1>4, <1>6 DEF RepliesInOrder, HandInOrder
<1>8. Len(h) = 1 => \A i \in 1..Len(left) : target[left[i]] = l => After(left[i], m)
  BY <1>6 DEF RepliesInOrder, LeftInOrder
<1> HIDE DEF m
<1>9. /\ Append(left, m) \in Seq(Heard) /\ Len(Append(left, m)) = Len(left) + 1
      /\ \A i \in 1..Len(left) : Append(left, m)[i] = left[i]
      /\ Append(left, m)[Len(left) + 1] = m
  BY <1>1, <1>2, AppendProperties
<1>10. hands'[l] = g /\ \A k \in Links : k # l => hands'[k] = hands[k]
  BY <1>1 DEF DeliveryTypes
<1>11. \A k \in Links : Len(hands'[k]) = Len(hands[k])
  BY <1>5, <1>10
<1>12. StagesCount' /\ InboxPlaced' /\ EarlierQueued'
  BY <1>1 DEF StagesCount, InboxPlaced, EarlierQueued
<1>13. DeliveryTypes'
  <2>1. hands' \in [Links -> Seq(Delivered)]
    BY <1>1, <1>5 DEF DeliveryTypes
  <2> QED
    BY <1>1, <1>9, <2>1 DEF DeliveryTypes
<1>14. \A i \in 1..Len(left') :
         \/ i \in 1..Len(left) /\ left'[i] = left[i]
         \/ i = Len(left) + 1 /\ left'[i] = m
  BY <1>1, <1>3, <1>9
<1>15. RepliesPlaced'
  <2>1. \A k \in Links : \A v \in 1..Len(hands'[k]) : hands'[k][v] # 0 => Of(hands'[k][v], k)
    <3> SUFFICES ASSUME NEW k \in Links, NEW v \in 1..Len(hands'[k]), hands'[k][v] # 0
                 PROVE  Of(hands'[k][v], k)
      OBVIOUS
    <3>1. v \in 1..Len(hands[k])
      BY <1>11
    <3>2. ~(k = l /\ v = w)
      BY <1>5, <1>10
    <3>3. hands'[k][v] = hands[k][v]
      BY <1>5, <1>10, <3>1, <3>2
    <3> QED
      BY <3>1, <3>3 DEF RepliesPlaced
  <2>2. \A i \in 1..Len(left') : left'[i] \in Heard /\ handling[left'[i]] = "queued"
    <3>1. \A i \in 1..Len(left) : left[i] \in Heard /\ handling[left[i]] = "queued"
      BY <1>2, ElementOfSeq DEF RepliesPlaced
    <3> QED
      BY <1>1, <1>4, <1>14, <3>1 DEF Of
  <2>3. \A i \in 1..Len(left') : Len(hands[target[left'[i]]]) > 0
    <3>1. Len(hands[target[m]]) > 0
      BY <1>3, <1>4 DEF Of
    <3> QED
      BY <1>14, <3>1 DEF RepliesPlaced
  <2>4. \A i \in 1..Len(left') : Len(hands'[target[left'[i]]]) > 0
    <3> SUFFICES ASSUME NEW i \in 1..Len(left') PROVE Len(hands'[target[left'[i]]]) > 0
      OBVIOUS
    <3>1. target[left'[i]] \in Links /\ Len(hands[target[left'[i]]]) > 0
      BY <2>2, <2>3 DEF RepliesPlaced
    <3> QED
      BY <1>11, <3>1
  <2> QED
    BY <1>1, <2>1, <2>2, <2>4 DEF RepliesPlaced, Of
<1>16. QueueInOrder'
  BY <1>1 DEF RepliesInOrder, QueueInOrder, After
<1>17. HandInOrder'
  <2> SUFFICES ASSUME NEW k \in Links, Len(hands'[k]) = 1, NEW j \in 1..Len(outbox[k]),
                      hands'[k][1] # 0
               PROVE  After(hands'[k][1], outbox[k][j])
    BY <1>1 DEF HandInOrder, After
  <2>1. k # l
    BY <1>6, <1>10, <1>11
  <2> QED
    BY <1>10, <2>1 DEF RepliesInOrder, HandInOrder
<1>18. LeftInOrder'
  <2> SUFFICES ASSUME NEW i \in 1..Len(left'), NEW k \in Links, target[left'[i]] = k,
                      Len(hands'[k]) = 1
               PROVE  /\ \A j \in 1..Len(outbox[k]) : After(left'[i], outbox[k][j])
                      /\ After(left'[i], hands'[k][1])
                      /\ \A j \in 1..Len(left') :
                           i < j /\ target[left'[j]] = k => After(left'[i], left'[j])
    BY <1>1 DEF LeftInOrder, After
  <2>1. Len(hands[k]) = 1 /\ left'[i] \in Heard
    BY <1>1, <1>2, <1>11, <1>14, ElementOfSeq
  <2>2. After(left'[i], 0)
    BY <2>1 DEF DeliveryTypes, After, Heard
  <2>3. CASE i \in 1..Len(left) /\ left'[i] = left[i]
    <3>1. /\ \A j \in 1..Len(outbox[k]) : After(left[i], outbox[k][j])
          /\ After(left[i], hands[k][1])
          /\ \A j \in 1..Len(left) : i < j /\ target[left[j]] = k => After(left[i], left[j])
      BY <2>1, <2>3 DEF RepliesInOrder, LeftInOrder
    <3>2. After(left[i], hands'[k][1])
      BY <1>6, <1>10, <2>1, <2>2, <2>3, <3>1
    <3>3. \A j \in 1..Len(left') : i < j /\ target[left'[j]] = k => After(left[i], left'[j])
      <4> SUFFICES ASSUME NEW j \in 1..Len(left'), i < j, target[left'[j]] = k
                   PROVE  After(left[i], left'[j])
        OBVIOUS
      <4>1. CASE j \in 1..Len(left) /\ left'[j] = left[j]
        BY <3>1, <4>1
      <4>2. CASE left'[j] = m
        <5>1. k = l
          BY <1>4, <4>2 DEF Of
        <5> QED
          BY <1>8, <2>1, <2>3, <4>2, <5>1
      <4> QED
        BY <1>14, <4>1, <4>2
    <3> QED
      BY <2>3, <3>1, <3>2, <3>3
  <2>4. CASE i = Len(left) + 1 /\ left'[i] = m
    <3>1. k = l
      BY <1>4, <2>4 DEF Of
    <3>2. \A j \in 1..Len(left') : ~(i < j)
      BY <1>3, <1>14, <2>4
    <3> QED
      BY <1>6, <1>7, <1>10, <2>1, <2>2, <2>4, <3>1, <3>2
  <2> QED
    BY <1>14, <2>3, <2>4
<1> QED
  BY <1>12, <1>13, <1>15, <1>16, <1>17, <1>18 DEF RepliesInOrder

LEMMA DeliveryStep == DeliveryInv /\ [DeliveryNext]_deliveryVars => DeliveryInv'
<1> SUFFICES ASSUME DeliveryInv, [DeliveryNext]_deliveryVars PROVE DeliveryInv'
  OBVIOUS
<1> SUFFICES /\ DeliveryTypes' /\ InboxPlaced' /\ RepliesPlaced' /\ EarlierQueued'
             /\ RepliesInOrder' /\ StagesCount'
  BY LinkedStays DEF DeliveryInv
<1>1. CASE Register \/ Unregister \/ \E l \in Links : AdapterBreaks(l) \/ StopAdapter(l)
  BY <1>1, AdapterSteps
<1>2. CASE \E m \in Heard : HearMessage(m)
  BY <1>2, HearSteps, Zenon
<1>3. CASE TakeMessage
  BY <1>3, TakeSteps
<1>4. CASE \E m \in Heard : HandleMessage(m) \/ SendTimesOut(m)
  BY <1>4, HandleSteps, Zenon
<1>5. CASE \E m \in Heard : SendReply(m)
  BY <1>5, QueueSteps, Zenon
<1>6. CASE \E l \in Links, w \in 1..MaxRuns : TakeOut(l, w)
  BY <1>6, TakeOutSteps, Zenon
<1>7. CASE \E l \in Links, w \in 1..MaxRuns : Deliver(l, w)
  BY <1>7, DeliverSteps, Zenon
<1>8. CASE \E l \in Links : StartAdapter(l)
  BY <1>8, StartSteps, Zenon
<1>9. CASE UNCHANGED deliveryVars
  <2>1. UNCHANGED <<inbox, handling, target, earlier, outbox, hands, left>>
    BY <1>9 DEF deliveryVars
  <2>2. StagesCount'
    BY <1>9 DEF deliveryVars, DeliveryInv, StagesCount
  <2> QED
    BY <2>1, <2>2, MessagesStay
<1> QED
  BY <1>1, <1>2, <1>3, <1>4, <1>5, <1>6, <1>7, <1>8, <1>9, Zenon DEF DeliveryNext

LEMMA DeliveryHolds == DeliveryInv => AnswersInTurn /\ DeliveryTypeOK
<1> SUFFICES ASSUME DeliveryInv PROVE AnswersInTurn /\ DeliveryTypeOK
  OBVIOUS
<1> USE DEF DeliveryInv
<1>1. DOMAIN left = 1..Len(left)
  BY LenProperties DEF DeliveryTypes
<1>2. AnswersInTurn
  <2> SUFFICES ASSUME NEW i \in 1..Len(left), NEW j \in 1..Len(left), i < j,
                      target[left[i]] = target[left[j]], Len(hands[target[left[i]]]) = 1
               PROVE  left[j] \notin earlier[left[i]]
    BY <1>1 DEF AnswersInTurn
  <2>1. left[i] \in Heard
    BY ElementOfSeq DEF DeliveryTypes
  <2>2. target[left[i]] \in Links
    BY <2>1 DEF RepliesPlaced
  <2> QED
    BY <2>2 DEF RepliesInOrder, LeftInOrder, After
<1>3. DeliveryTypeOK
  <2> USE DEF DeliveryTypes, StagesCount, LinkedFlag, Delivered
  <2>1. linked \in BOOLEAN
    BY Zenon
  <2>2. links \in 0..MaxLinks
    BY Zenon
  <2> QED
    BY <2>1, <2>2, Zenon DEF DeliveryTypeOK
<1> QED
  BY <1>2, <1>3

-----------------------------------------------------------------------------
(* Delegation.                                                             *)

Holding == {t \in SubTasks : sub[t] \in {"running", "stuck", "reported"}}

DelegationTypes ==
  /\ phase \in {"idle", "spawning", "waiting", "synthesis", "over"}
  /\ sub \in [SubTasks -> {"new", "queued", "running", "stuck", "reported", "released", "done"}]
  /\ result \in [SubTasks -> {"none", "answer", "error"}]
  /\ verdict \in {"none", "answer", "error"}

PermitsAreHeld == inUse = Cardinality(Holding) /\ inUse \in 0..MaxParallel

\* Where the goroutines may be while Delegate is where it is.
PhasesMatch ==
  /\ phase = "idle" => \A t \in SubTasks : sub[t] = "new"
  /\ phase = "waiting" => \A t \in SubTasks : sub[t] # "new"
  /\ phase = "synthesis" => \A t \in SubTasks : sub[t] = "done"
  /\ phase = "over" => \/ \A t \in SubTasks : sub[t] = "new"
                       \/ \A t \in SubTasks : sub[t] = "done"

ResultsMatch ==
  /\ \A t \in SubTasks : sub[t] \in {"reported", "released", "done"} => result[t] # "none"
  /\ phase = "synthesis" => \E t \in SubTasks : result[t] = "answer"
  /\ verdict = "answer" => phase = "over" /\ \E t \in SubTasks : result[t] = "answer"

ExpiredFlag == expired \in BOOLEAN

DelegationInv ==
  DelegationTypes /\ PermitsAreHeld /\ PhasesMatch /\ ResultsMatch /\ ExpiredFlag

LEMMA DelegationNumbers ==
  /\ NumSubTasks \in Nat /\ NumSubTasks > 0 /\ MaxParallel \in Nat /\ MaxParallel > 0
BY DelegationAssumption

LEMMA SubTasksFinite == IsFiniteSet(SubTasks)
<1>1. NumSubTasks \in Int /\ 1 \in Int
  BY DelegationNumbers
<1> QED
  BY <1>1, FS_Interval DEF SubTasks

LEMMA HoldersFinite == IsFiniteSet(Holding) /\ IsFiniteSet(Holding')
<1>1. Holding \subseteq SubTasks /\ Holding' \subseteq SubTasks
  BY DEF Holding
<1> QED
  BY <1>1, SubTasksFinite, FS_Subset

LEMMA DelegationStarts == DelegationInit => DelegationInv
<1> SUFFICES ASSUME DelegationInit PROVE DelegationInv
  OBVIOUS
<1>1. Holding = {}
  BY DEF DelegationInit, Holding
<1>2. PermitsAreHeld
  BY <1>1, FS_EmptySet, DelegationNumbers DEF DelegationInit, PermitsAreHeld
<1>3. ExpiredFlag
  BY Zenon DEF DelegationInit, ExpiredFlag
<1>4. DelegationTypes /\ PhasesMatch /\ ResultsMatch
  BY DEF DelegationInit, DelegationTypes, PhasesMatch, ResultsMatch
<1> QED
  BY <1>2, <1>3, <1>4 DEF DelegationInv

LEMMA ExpiredStays ==
  ASSUME ExpiredFlag, [DelegationNext]_delegationVars
  PROVE  ExpiredFlag'
BY Zenon
DEF ExpiredFlag, DelegationNext, delegationVars, Delegate, SubNext, SpawnSub, AcquirePermit,
    GiveUpWaiting, SubEnds, SubHangs, SubReturns, ReleasePermit, SubDone, Expire, Gather,
    Synthesise, Return

\* Permits.
LEMMA PermitsRest ==
  ASSUME PermitsAreHeld, UNCHANGED <<inUse, sub>>
  PROVE  PermitsAreHeld'
BY DEF PermitsAreHeld, Holding

LEMMA PermitsStay ==
  ASSUME DelegationInv, NEW t \in SubTasks,
         NEW s \in {"queued", "stuck", "reported", "released", "done"},
         sub' = [sub EXCEPT ![t] = s], UNCHANGED inUse,
         sub[t] \in {"running", "stuck", "reported"} <=> s \in {"stuck", "reported"}
  PROVE  PermitsAreHeld'
<1>1. Holding' = Holding
  BY DEF DelegationInv, DelegationTypes, Holding
<1> QED
  BY <1>1 DEF DelegationInv, PermitsAreHeld

LEMMA PermitTaken ==
  ASSUME DelegationInv, NEW t \in SubTasks, AcquirePermit(t)
  PROVE  PermitsAreHeld'
<1>1. Holding' = Holding \cup {t} /\ t \notin Holding
  BY DEF AcquirePermit, DelegationInv, DelegationTypes, Holding
<1>2. Cardinality(Holding') = Cardinality(Holding) + 1
  BY <1>1, HoldersFinite, FS_AddElement
<1> QED
  BY <1>2, DelegationNumbers DEF DelegationInv, PermitsAreHeld, AcquirePermit

LEMMA PermitGivenBack ==
  ASSUME DelegationInv, NEW t \in SubTasks, ReleasePermit(t)
  PROVE  PermitsAreHeld'
<1>1. Holding' = Holding \ {t} /\ t \in Holding
  BY DEF ReleasePermit, DelegationInv, DelegationTypes, Holding
<1>2. /\ Cardinality(Holding') = Cardinality(Holding) - 1
      /\ Cardinality(Holding') \in Nat
  BY <1>1, HoldersFinite, FS_RemoveElement, FS_CardinalityType
<1> QED
  BY <1>2, DelegationNumbers DEF DelegationInv, PermitsAreHeld, ReleasePermit

\* A goroutine that moves on, with a result once it has reported.
LEMMA SubMoves ==
  ASSUME DelegationInv, NEW t \in SubTasks,
         NEW s \in {"running", "stuck", "reported", "released", "done"},
         sub' = [sub EXCEPT ![t] = s], UNCHANGED <<phase, verdict>>,
         sub[t] \notin {"new", "done"},
         \/ UNCHANGED result /\ (s \in {"running", "stuck"} \/ sub[t] \in {"reported", "released"})
         \/ \E r \in {"answer", "error"} : result' = [result EXCEPT ![t] = r]
  PROVE  DelegationTypes' /\ PhasesMatch' /\ ResultsMatch'
<1> USE DEF DelegationInv, DelegationTypes
<1>1. DelegationTypes'
  OBVIOUS
<1>2. phase \in {"spawning", "waiting"}
  BY DEF PhasesMatch
<1>3. PhasesMatch'
  BY <1>2 DEF PhasesMatch
<1>4. ResultsMatch'
  BY <1>2 DEF ResultsMatch
<1> QED
  BY <1>1, <1>3, <1>4

LEMMA SubSteps ==
  ASSUME DelegationInv, NEW t \in SubTasks,
         \/ SubNext(t) \/ SubHangs(t)
         \/ \E r \in {"answer", "error"} : SubReturns(t, r)
  PROVE  DelegationTypes' /\ PermitsAreHeld' /\ PhasesMatch' /\ ResultsMatch'
<1>1. CASE SpawnSub(t)
  <2> USE <1>1 DEF SpawnSub
  <2>1. PermitsAreHeld'
    BY PermitsStay
  <2>2. DelegationTypes'
    BY DEF DelegationInv, DelegationTypes
  <2>3. PhasesMatch'
    <3>1. CASE \A u \in SubTasks : u <= t
      <4>1. \A u \in SubTasks : u = t \/ u < t
        BY <3>1 DEF SubTasks
      <4> QED
        BY <3>1, <4>1 DEF DelegationInv, DelegationTypes, PhasesMatch
    <3>2. CASE ~\A u \in SubTasks : u <= t
      BY <3>2 DEF PhasesMatch
    <3> QED
      BY <3>1, <3>2
  <2>4. ResultsMatch'
    BY DEF DelegationInv, DelegationTypes, ResultsMatch
  <2> QED
    BY <2>1, <2>2, <2>3, <2>4
<1>2. CASE AcquirePermit(t)
  BY <1>2, PermitTaken, SubMoves DEF AcquirePermit
<1>3. CASE GiveUpWaiting(t)
  BY <1>3, PermitsStay, SubMoves DEF GiveUpWaiting
<1>4. CASE \E r \in {"answer", "error"} : SubEnds(t, r)
  BY <1>4, PermitsStay, SubMoves DEF SubEnds, Reported
<1>5. CASE ReleasePermit(t)
  BY <1>5, PermitGivenBack, SubMoves DEF ReleasePermit
<1>6. CASE SubDone(t)
  BY <1>6, PermitsStay, SubMoves DEF SubDone
<1>7. CASE SubHangs(t)
  BY <1>7, PermitsStay, SubMoves DEF SubHangs
<1>8. CASE \E r \in {"answer", "error"} : SubReturns(t, r)
  BY <1>8, PermitsStay, SubMoves DEF SubReturns, Reported
<1> QED
  BY <1>1, <1>2, <1>3, <1>4, <1>5, <1>6, <1>7, <1>8, Zenon DEF SubNext

LEMMA DelegateSteps ==
  ASSUME DelegationInv, Delegate \/ Expire \/ Gather \/ Synthesise
  PROVE  DelegationTypes' /\ PermitsAreHeld' /\ PhasesMatch' /\ ResultsMatch'
<1>1. UNCHANGED <<sub, result, inUse>>
  BY DEF Delegate, Expire, Gather, Synthesise
<1>2. PermitsAreHeld'
  BY <1>1, PermitsRest DEF DelegationInv
<1> USE <1>1 DEF DelegationInv, DelegationTypes, PhasesMatch, ResultsMatch
<1>3. CASE Delegate
  BY <1>2, <1>3 DEF Delegate, Return
<1>4. CASE Expire
  BY <1>2, <1>4 DEF Expire
<1>5. CASE Gather
  BY <1>2, <1>5 DEF Gather, Return
<1>6. CASE Synthesise
  BY <1>2, <1>6 DEF Synthesise, Return
<1> QED
  BY <1>3, <1>4, <1>5, <1>6

LEMMA DelegationStep == DelegationInv /\ [DelegationNext]_delegationVars => DelegationInv'
<1> SUFFICES ASSUME DelegationInv, [DelegationNext]_delegationVars PROVE DelegationInv'
  OBVIOUS
<1>1. ExpiredFlag'
  BY ExpiredStays DEF DelegationInv
<1>2. ASSUME NEW t \in SubTasks,
             \/ SubNext(t) \/ SubHangs(t)
             \/ \E r \in {"answer", "error"} : SubReturns(t, r)
      PROVE  DelegationInv'
  BY <1>1, <1>2, SubSteps DEF DelegationInv
<1>3. CASE Delegate \/ Expire \/ Gather \/ Synthesise
  BY <1>1, <1>3, DelegateSteps DEF DelegationInv
<1>4. CASE UNCHANGED delegationVars
  <2>1. UNCHANGED <<phase, sub, result, inUse, verdict>>
    BY <1>4 DEF delegationVars
  <2>2. DelegationTypes' /\ PhasesMatch' /\ ResultsMatch'
    BY <2>1 DEF DelegationInv, DelegationTypes, PhasesMatch, ResultsMatch
  <2> QED
    BY <1>1, <2>1, <2>2, PermitsRest DEF DelegationInv
<1> QED
  BY <1>2, <1>3, <1>4, Zenon DEF DelegationNext

LEMMA DelegationHolds == DelegationInv => EveryTaskReports /\ DelegationTypeOK
<1> SUFFICES ASSUME DelegationInv PROVE EveryTaskReports /\ DelegationTypeOK
  OBVIOUS
<1>1. 1 \in SubTasks
  BY DelegationNumbers DEF SubTasks
<1>2. ASSUME phase \in {"synthesis", "over"}, sub[1] # "new"
      PROVE  \A t \in SubTasks : sub[t] = "done" /\ result[t] # "none"
  BY <1>1, <1>2 DEF DelegationInv, PhasesMatch, ResultsMatch
<1>3. inUse = Cardinality({t \in SubTasks : sub[t] \in {"running", "stuck", "reported"}})
  BY DEF DelegationInv, PermitsAreHeld, Holding
<1>4. verdict = "answer" => \E t \in SubTasks : result[t] = "answer"
  BY DEF DelegationInv, ResultsMatch
<1>5. EveryTaskReports
  BY <1>2, <1>3, <1>4, Zenon DEF EveryTaskReports
<1>6. DelegationTypeOK
  BY Zenon DEF DelegationInv, DelegationTypes, PermitsAreHeld, ExpiredFlag, DelegationTypeOK
<1> QED
  BY <1>5, <1>6

-----------------------------------------------------------------------------
(* Persona.                                                                *)

PromptSteps == {"idle", "done", "identity", "name", "assign", "takeIdentity", "takeName"}
PromptTexts == Contents \cup {"none", "garbled"}
Taken == [Fields -> PromptTexts]
PromptRecords == [step : PromptSteps, next : Taken, took : Taken]
RenameRecords == [step : {"idle", "display", "identity", "empty", "fill"}, text : Contents]
Windows == [PersonaFiles -> SUBSET Contents]

NoteTypes ==
  /\ notes \in [PersonaFiles -> Contents] /\ sums \in [PersonaFiles -> Notes \cup {"none"}]
  /\ sums[Display] = "none" /\ loaded \in [Fields -> Contents] /\ edits \in 0..MaxNotes
  /\ renaming \in RenameRecords /\ emptied \subseteq Tracked /\ torn \subseteq Prompters
RunTypes ==
  /\ prompter \in [Prompters -> PromptRecords] /\ window \in [Prompters -> Windows]

At(r) == prompter[r].step
OneLoads == \A q, r \in Prompters : At(q) \in Loading /\ At(r) \in Loading => q = r

\* What a text is read as; the texts of files that are in a window.
Read(text) == IF text \in Gone THEN "blank" ELSE text
SeesName(w, text) == \E t \in w[Display] : text = Read(t)
SeesIdentity(w, text) == \E file \in Tracked : \E t \in w[file] : text = Read(t)
FreshName(w, text) == SeesName(w, text) \/ w[Display] \cap Gone # {}
FreshIdentity(w, text) ==
  \/ SeesIdentity(w, text)
  \/ w[Display] \cap Gone # {} /\ \E file \in Tracked : w[file] \cap Gone # {}

WindowsHold ==
  \A r \in Prompters : At(r) # "idle" => \A f \in PersonaFiles : notes[f] \in window[r][f]

\* What a run loads, it and every other run that is under way have in their windows.
LoadsAreSeen ==
  \A q, r \in Prompters : At(r) # "idle" =>
    /\ At(q) \in {"name", "assign"} => SeesIdentity(window[r], prompter[q].next["identity"])
    /\ At(q) = "assign" => SeesName(window[r], prompter[q].next["name"])

TakesFresh ==
  \A r \in Prompters :
    /\ At(r) = "takeIdentity" => FreshIdentity(window[r], loaded["identity"])
    /\ At(r) \in {"takeIdentity", "takeName"} => FreshName(window[r], loaded["name"])
    /\ At(r) \in {"takeName", "done"} /\ r \notin torn =>
         FreshIdentity(window[r], prompter[r].took["identity"])
    /\ At(r) = "done" /\ r \notin torn => FreshName(window[r], prompter[r].took["name"])

EmptiedSince == \A f \in Tracked : sums[f] # "none" /\ ~Says(f) => f \in emptied

\* The identity that is loaded is the text of a checksum; or nothing, and then no file
\* said anything when it was loaded.
KnownIn(s, e, text) ==
  \/ \E f \in Tracked : text = s[f]
  \/ text = "blank" /\ \A f \in Tracked : s[f] = "none" \/ f \in e
KnownText(text) == KnownIn(sums, emptied, text)
LoadedKnown ==
  /\ (\A q \in Prompters : At(q) \notin {"name", "assign"}) => KnownText(loaded["identity"])
  /\ \A q \in Prompters : At(q) \in {"name", "assign"} => KnownText(prompter[q].next["identity"])

PersonaInv ==
  /\ NoteTypes /\ RunTypes /\ OneLoads /\ WindowsHold /\ LoadsAreSeen /\ TakesFresh
  /\ EmptiedSince /\ LoadedKnown

LEMMA PersonaNames ==
  /\ Tracked \subseteq PersonaFiles /\ Display \in PersonaFiles /\ Display \notin Tracked
  /\ PersonaFiles = Tracked \cup {Display}
  /\ "identity.md" \in Tracked /\ "SOUL.md" \in Tracked /\ "identity" \in Fields /\ "name" \in Fields
  /\ \A f \in Tracked : f = "identity.md" \/ f = "SOUL.md"
BY DEF Tracked, PersonaFiles, Display, Fields

LEMMA TextsDiffer ==
  /\ "absent" \notin Notes /\ "sealed" \notin Notes /\ "blank" \notin Notes /\ "none" \notin Notes /\ "garbled" \notin Notes
  /\ Gone \subseteq Contents /\ "blank" \in Contents /\ "none" \notin Contents
  /\ "garbled" \notin Contents /\ MaxNotes \in Nat
  /\ "absent" \in Gone /\ "sealed" \in Gone /\ "blank" \notin Gone /\ Gone \cap Notes = {}
BY PersonaAssumption DEF Contents, Gone

LEMMA NotPromptingIs ==
  /\ NotPrompting \in PromptRecords /\ NotPrompting.step = "idle"
  /\ NoFields \in Taken
BY DEF NotPrompting, NoFields, PromptRecords, Taken, PromptSteps, PromptTexts

LEMMA SeenGrow ==
  ASSUME NEW w, NEW v, \A f \in PersonaFiles : w[f] \subseteq v[f], NEW text
  PROVE  /\ SeesName(w, text) => SeesName(v, text)
         /\ SeesIdentity(w, text) => SeesIdentity(v, text)
         /\ FreshName(w, text) => FreshName(v, text)
         /\ FreshIdentity(w, text) => FreshIdentity(v, text)
<1> USE PersonaNames
<1>1. SeesName(w, text) => SeesName(v, text)
  BY DEF SeesName
<1>2. SeesIdentity(w, text) => SeesIdentity(v, text)
  BY DEF SeesIdentity
<1>3. FreshName(w, text) => FreshName(v, text)
  BY <1>1 DEF FreshName
<1>4. FreshIdentity(w, text) => FreshIdentity(v, text)
  BY <1>2 DEF FreshIdentity
<1> QED
  BY <1>1, <1>2, <1>3, <1>4

LEMMA ReadsContents ==
  ASSUME NEW w \in Windows, NEW text
  PROVE  /\ SeesName(w, text) => text \in Contents
         /\ SeesIdentity(w, text) => text \in Contents
BY PersonaNames, TextsDiffer DEF Windows, SeesName, SeesIdentity, Read

LEMMA SaidIs ==
  ASSUME NoteTypes, NEW f \in PersonaFiles
  PROVE  /\ Said(f) = Read(notes[f]) /\ Said(f) \in Contents
         /\ Says(f) => notes[f] \in Notes /\ Said(f) = notes[f]
         /\ ~Says(f) => Said(f) = "blank" /\ notes[f] \in Gone \cup {"blank"}
BY TextsDiffer DEF NoteTypes, Said, Says, Read, Contents

LEMMA PersonaStarts == PersonaInit => PersonaInv
<1> SUFFICES ASSUME PersonaInit PROVE PersonaInv
  OBVIOUS
<1> USE PersonaNames, TextsDiffer
<1>1. notes \in [PersonaFiles -> Contents]
  BY DEF PersonaInit, Contents
<1>2. \A f \in PersonaFiles :
        /\ Said(f) \in Contents /\ (Says(f) => notes[f] \in Notes /\ Said(f) = notes[f])
        /\ ~Says(f) => Said(f) = "blank"
  BY <1>1 DEF Said, Says, Contents
<1>3. \A f \in PersonaFiles : sums[f] =
        IF f # Display /\ Says(f) /\ (f = "SOUL.md" => ~Says("identity.md"))
        THEN notes[f] ELSE "none"
  BY DEF PersonaInit
<1>4. sums \in [PersonaFiles -> Notes \cup {"none"}] /\ sums[Display] = "none"
  <2>1. \A f \in PersonaFiles : sums[f] \in Notes \cup {"none"}
    BY <1>2, <1>3
  <2> QED
    BY <1>3, <2>1 DEF PersonaInit
<1>5. /\ loaded \in [Fields -> Contents]
      /\ loaded["identity"] = IF Says("identity.md") THEN Said("identity.md") ELSE Said("SOUL.md")
  BY <1>2 DEF PersonaInit, Fields
<1>6. NoteTypes
  BY <1>1, <1>4, <1>5 DEF PersonaInit, NoteTypes, RenameRecords
<1>7. RunTypes
  <2>1. prompter \in [Prompters -> PromptRecords]
    BY NotPromptingIs DEF PersonaInit
  <2>2. [f \in PersonaFiles |-> {}] \in Windows
    BY DEF Windows
  <2> QED
    BY <2>1, <2>2 DEF PersonaInit, RunTypes
<1>8. \A r \in Prompters : At(r) = "idle"
  BY NotPromptingIs DEF PersonaInit, At
<1>9. OneLoads /\ WindowsHold /\ LoadsAreSeen /\ TakesFresh
  BY <1>8 DEF OneLoads, WindowsHold, LoadsAreSeen, TakesFresh, Loading
<1>10. EmptiedSince
  BY <1>3 DEF EmptiedSince
<1>11. KnownText(loaded["identity"])
  <2>1. CASE Says("identity.md")
    BY <1>2, <1>3, <1>5, <2>1 DEF KnownText, KnownIn, Display
  <2>2. CASE ~Says("identity.md") /\ Says("SOUL.md")
    BY <1>2, <1>3, <1>5, <2>2 DEF KnownText, KnownIn, Display
  <2>3. CASE ~Says("identity.md") /\ ~Says("SOUL.md")
    BY <1>2, <1>3, <1>5, <2>3 DEF KnownText, KnownIn
  <2> QED
    BY <2>1, <2>2, <2>3
<1>12. LoadedKnown
  BY <1>8, <1>11 DEF LoadedKnown
<1> QED
  BY <1>6, <1>7, <1>9, <1>10, <1>12 DEF PersonaInv

\* The files change: what runs have seen they have still.
LEMMA HoldKeeps ==
  ASSUME PersonaInv, NEW file \in PersonaFiles, NEW text \in Contents, Hold(file, text),
         UNCHANGED <<sums, loaded, prompter, torn>>, edits' \in 0..MaxNotes,
         renaming' \in RenameRecords
  PROVE  PersonaInv'
<1> USE PersonaNames, TextsDiffer DEF PersonaInv
<1>1. /\ notes' = [notes EXCEPT ![file] = text]
      /\ window' = [r \in Prompters |->
           IF prompter[r].step = "idle" THEN window[r]
           ELSE [window[r] EXCEPT ![file] = @ \cup {text}]]
      /\ emptied \subseteq emptied' /\ emptied' \subseteq emptied \cup ({file} \cap Tracked)
      /\ text \in Gone \cup {"blank"} => emptied' = emptied \cup ({file} \cap Tracked)
  BY DEF Hold
<1>2. notes' \in [PersonaFiles -> Contents]
  BY <1>1 DEF NoteTypes
<1>3. NoteTypes'
  BY <1>1, <1>2 DEF NoteTypes
<1>4. \A r \in Prompters : window[r] \in Windows
  BY DEF RunTypes
<1>5. \A r \in Prompters : /\ window'[r] \in Windows
                           /\ \A f \in PersonaFiles : window[r][f] \subseteq window'[r][f]
  BY <1>1, <1>4 DEF Windows
<1>6. RunTypes'
  BY <1>1, <1>5 DEF RunTypes
<1>7. OneLoads'
  BY DEF OneLoads, At
<1>8. WindowsHold'
  <2> SUFFICES ASSUME NEW r \in Prompters, prompter[r].step # "idle", NEW f \in PersonaFiles
               PROVE  notes'[f] \in window'[r][f]
    BY DEF WindowsHold, At
  <2>1. CASE f = file
    BY <1>1, <1>4, <2>1 DEF NoteTypes, Windows
  <2>2. CASE f # file
    BY <1>1, <1>5, <2>2 DEF NoteTypes, WindowsHold, At
  <2> QED
    BY <2>1, <2>2
<1>9. LoadsAreSeen'
  <2> SUFFICES ASSUME NEW q \in Prompters, NEW r \in Prompters, At(r) # "idle"
               PROVE
    /\ At(q) \in {"name", "assign"} => SeesIdentity(window'[r], prompter[q].next["identity"])
    /\ At(q) = "assign" => SeesName(window'[r], prompter[q].next["name"])
    BY DEF LoadsAreSeen, At
  <2>1. /\ At(q) \in {"name", "assign"} => SeesIdentity(window[r], prompter[q].next["identity"])
        /\ At(q) = "assign" => SeesName(window[r], prompter[q].next["name"])
    BY DEF LoadsAreSeen
  <2> QED
    BY <1>5, <2>1, SeenGrow
<1>10. TakesFresh'
  BY <1>5, SeenGrow DEF TakesFresh, At
<1>11. EmptiedSince'
  <2> SUFFICES ASSUME NEW f \in Tracked, sums[f] # "none", ~Says(f)' PROVE f \in emptied'
    BY DEF EmptiedSince
  <2>1. CASE f = file
    <3>1. notes'[f] = text
      BY <1>1, <2>1 DEF NoteTypes
    <3>2. text \in Gone \cup {"blank"}
      BY <3>1 DEF Says, Said
    <3> QED
      BY <1>1, <2>1, <3>2
  <2>2. CASE f # file
    <3>1. notes'[f] = notes[f]
      BY <1>1, <2>2 DEF NoteTypes
    <3>2. ~Says(f)
      BY <3>1 DEF Says, Said
    <3> QED
      BY <1>1, <3>2 DEF EmptiedSince
  <2> QED
    BY <2>1, <2>2
<1>12. LoadedKnown'
  BY <1>1 DEF LoadedKnown, KnownText, KnownIn, At
<1> QED
  BY <1>3, <1>6, <1>7, <1>8, <1>9, <1>10, <1>11, <1>12

LEMMA RenameRests ==
  ASSUME PersonaInv, UNCHANGED <<notes, sums, loaded, prompter, edits, window, emptied, torn>>,
         renaming' \in RenameRecords
  PROVE  PersonaInv'
BY DEF PersonaInv, NoteTypes, RunTypes, OneLoads, WindowsHold, LoadsAreSeen, TakesFresh,
       EmptiedSince, LoadedKnown, KnownText, KnownIn, At, Says, Said

LEMMA FileSteps ==
  ASSUME PersonaInv,
         \/ \E f \in PersonaFiles, text \in Contents : EditNote(f, text)
         \/ RenameBegins
         \/ \E text \in Notes : DisplaySaved(text)
         \/ ReadIdentityFile
         \/ WriteIdentityFile
  PROVE  PersonaInv'
<1> USE PersonaNames, TextsDiffer
<1>0. /\ renaming \in RenameRecords /\ renaming.text \in Contents /\ edits \in 0..MaxNotes
      /\ \A f \in PersonaFiles : notes[f] \in Contents
  BY DEF PersonaInv, NoteTypes, RenameRecords
<1>1. ASSUME NEW f \in PersonaFiles, NEW text \in Contents, EditNote(f, text)
      PROVE  PersonaInv'
  BY <1>0, <1>1, HoldKeeps DEF EditNote
<1>2. CASE RenameBegins
  <2>1. renaming' \in RenameRecords
    BY <1>0, <1>2 DEF RenameBegins, RenameRecords
  <2> QED
    BY <1>0, <1>2, <2>1, HoldKeeps DEF RenameBegins
<1>3. ASSUME NEW text \in Notes, DisplaySaved(text) PROVE PersonaInv'
  <2>1. renaming' \in RenameRecords
    BY <1>0, <1>3 DEF DisplaySaved, RenameRecords
  <2>2. text \in Contents
    BY DEF Contents
  <2> QED
    BY <1>0, <1>3, <2>1, <2>2, HoldKeeps DEF DisplaySaved
<1>4. CASE ReadIdentityFile
  <2>1. renaming' \in RenameRecords
    BY <1>0, <1>4 DEF ReadIdentityFile, RenameRecords
  <2> QED
    BY <1>4, <2>1, RenameRests DEF ReadIdentityFile
<1>5. CASE WriteIdentityFile
  <2>1. renaming' \in RenameRecords
    BY <1>0, <1>5 DEF WriteIdentityFile, RenameRecords
  <2>2. PICK text \in Contents : Hold("identity.md", text)
    BY <1>0, <1>5 DEF WriteIdentityFile
  <2> QED
    BY <1>0, <1>5, <2>1, <2>2, HoldKeeps DEF WriteIdentityFile
<1> QED
  BY <1>1, <1>2, <1>3, <1>4, <1>5

-----------------------------------------------------------------------------
(* A run: it moves to another step, and the others stay where they are.    *)

LEMMA StepMoves ==
  ASSUME RunTypes, NEW r \in Prompters, NEW place \in PromptSteps,
         prompter' = [prompter EXCEPT ![r].step = place]
  PROVE  /\ prompter' \in [Prompters -> PromptRecords] /\ At(r)' = place
         /\ prompter'[r].next = prompter[r].next /\ prompter'[r].took = prompter[r].took
         /\ \A q \in Prompters : q # r => prompter'[q] = prompter[q]
BY DEF RunTypes, PromptRecords, At

LEMMA LookKeeps ==
  ASSUME PersonaInv, NEW r \in Prompters, LookForChanges(r)
  PROVE  PersonaInv'
<1> USE PersonaNames, TextsDiffer DEF PersonaInv
<1> DEFINE changed == \E f \in PersonaFiles : Changed(f)
           missed == {text \in {"blank"} : Tracked \subseteq emptied /\ ~changed}
           next == IF changed THEN "identity" ELSE "takeIdentity"
           seen == [f \in PersonaFiles |->
                      {notes[f]} \cup (IF f \in Tracked THEN missed ELSE {})]
<1>1. /\ UNCHANGED <<notes, sums, loaded, renaming, edits, emptied, torn>>
      /\ At(r) = "idle" /\ \A q \in Prompters : At(q) \notin Loading
      /\ prompter' = [prompter EXCEPT ![r].step = next] /\ window' = [window EXCEPT ![r] = seen]
  BY DEF LookForChanges, Locked, Goes, At
<1>2. next \in PromptSteps /\ (next = "identity" <=> changed) /\ next \in {"identity", "takeIdentity"}
  BY DEF PromptSteps
<1>3. seen \in Windows /\ \A f \in PersonaFiles : notes[f] \in seen[f]
  BY DEF NoteTypes, Windows
<1>4. ~changed => FreshName(seen, loaded["name"])
  <2> SUFFICES ASSUME ~changed PROVE seen[Display] \cap Gone # {}
    BY DEF FreshName
  <2>1. notes[Display] \in Gone
    BY DEF Changed, NoteTypes
  <2> QED
    BY <1>3, <2>1
<1>5. ~changed => FreshIdentity(seen, loaded["identity"])
  <2> SUFFICES ASSUME ~changed PROVE FreshIdentity(seen, loaded["identity"])
    OBVIOUS
  <2>1. notes[Display] \in Gone
    BY DEF Changed, NoteTypes
  <2>2. CASE \E f \in Tracked : notes[f] \in Gone
    BY <1>3, <2>1, <2>2 DEF FreshIdentity
  <2>3. CASE \A f \in Tracked : notes[f] \notin Gone
    <3>1. \A f \in Tracked : notes[f] = sums[f] /\ sums[f] \in Notes
      BY <2>3 DEF Changed, NoteTypes
    <3>2. KnownText(loaded["identity"])
      BY <1>1 DEF LoadedKnown, Loading
    <3>3. CASE \E f \in Tracked : loaded["identity"] = sums[f]
      <4>1. PICK f \in Tracked : loaded["identity"] = notes[f] /\ notes[f] \notin Gone
        BY <3>1, <3>3
      <4>2. notes[f] \in seen[f] /\ loaded["identity"] = Read(notes[f])
        BY <1>3, <4>1 DEF Read
      <4> QED
        BY <4>2 DEF FreshIdentity, SeesIdentity
    <3>4. CASE loaded["identity"] = "blank" /\ Tracked \subseteq emptied
      <4>1. "blank" \in seen["identity.md"]
        BY <3>4
      <4>2. loaded["identity"] = Read("blank")
        BY <3>4 DEF Read
      <4> QED
        BY <4>1, <4>2 DEF FreshIdentity, SeesIdentity
    <3> QED
      BY <3>1, <3>2, <3>3, <3>4 DEF KnownText, KnownIn
  <2> QED
    BY <2>2, <2>3
<1> HIDE DEF changed, missed, next, seen
<1>6. /\ prompter' \in [Prompters -> PromptRecords] /\ At(r)' = next
      /\ prompter'[r].next = prompter[r].next /\ prompter'[r].took = prompter[r].took
      /\ \A q \in Prompters : q # r => prompter'[q] = prompter[q]
  BY <1>1, <1>2, StepMoves
<1>7. window'[r] = seen /\ \A q \in Prompters : q # r => window'[q] = window[q]
  BY <1>1 DEF RunTypes
<1>8. NoteTypes' /\ EmptiedSince'
  BY <1>1 DEF NoteTypes, EmptiedSince, Says, Said
<1>9. RunTypes'
  BY <1>1, <1>3, <1>6 DEF RunTypes
<1>10. \A q \in Prompters : q # r => At(q)' = At(q)
  BY <1>6 DEF At
<1>11. OneLoads'
  BY <1>1, <1>10 DEF OneLoads
<1>12. WindowsHold'
  BY <1>1, <1>3, <1>7, <1>10 DEF WindowsHold
<1>13. \A q \in Prompters : At(q)' \notin {"name", "assign"}
  BY <1>1, <1>2, <1>6, <1>10 DEF Loading
<1>14. LoadsAreSeen'
  BY <1>13 DEF LoadsAreSeen
<1>15. LoadedKnown'
  BY <1>1, <1>13 DEF LoadedKnown, KnownText, Loading
<1>16. TakesFresh'
  <2> SUFFICES ASSUME NEW q \in Prompters
               PROVE
    /\ At(q)' = "takeIdentity" => FreshIdentity(window'[q], loaded["identity"])
    /\ At(q)' \in {"takeIdentity", "takeName"} => FreshName(window'[q], loaded["name"])
    /\ At(q)' \in {"takeName", "done"} /\ q \notin torn =>
         FreshIdentity(window'[q], prompter'[q].took["identity"])
    /\ At(q)' = "done" /\ q \notin torn => FreshName(window'[q], prompter'[q].took["name"])
    BY <1>1 DEF TakesFresh
  <2>1. CASE q = r
    BY <1>2, <1>4, <1>5, <1>6, <1>7, <2>1
  <2>2. CASE q # r
    BY <1>6, <1>7, <1>10, <2>2 DEF TakesFresh
  <2> QED
    BY <2>1, <2>2
<1> QED
  BY <1>8, <1>9, <1>11, <1>12, <1>14, <1>15, <1>16

LEMMA LoadMoves ==
  ASSUME RunTypes, NEW r \in Prompters, NEW place \in PromptSteps, NEW field \in Fields,
         NEW text \in PromptTexts, LoadField(r, field, text, place)
  PROVE  /\ prompter' \in [Prompters -> PromptRecords] /\ At(r)' = place
         /\ prompter'[r].next[field] = text /\ prompter'[r].took = prompter[r].took
         /\ \A f \in Fields : f # field => prompter'[r].next[f] = prompter[r].next[f]
         /\ \A q \in Prompters : q # r => prompter'[q] = prompter[q]
<1> DEFINE old == prompter[r]
           loads == [old.next EXCEPT ![field] = text]
           first == [old EXCEPT !.step = place]
           new == [first EXCEPT !.next = loads]
<1>1. old \in PromptRecords /\ prompter' = [prompter EXCEPT ![r] = new]
  BY DEF RunTypes, LoadField
<1>2. /\ loads \in Taken /\ loads[field] = text
      /\ \A f \in Fields : f # field => loads[f] = old.next[f]
  BY <1>1 DEF PromptRecords, Taken
<1> HIDE DEF loads
<1>3. first \in PromptRecords /\ first.step = place /\ first.took = old.took
  BY <1>1 DEF PromptRecords
<1> HIDE DEF first
<1>4. new \in PromptRecords /\ new.step = place /\ new.took = old.took /\ new.next = loads
  BY <1>2, <1>3 DEF PromptRecords
<1> HIDE DEF new
<1> QED
  BY <1>1, <1>2, <1>4 DEF RunTypes, At

\* The run that holds the lock is the only one that loads.
LEMMA LoaderAlone ==
  ASSUME PersonaInv, NEW r \in Prompters, At(r) \in Loading
  PROVE  \A q \in Prompters : q # r => At(q) \notin Loading
BY DEF PersonaInv, OneLoads

\* What is said of runs that are not loading, of one that loads on.
LEMMA OthersRest ==
  ASSUME PersonaInv, NEW r \in Prompters, At(r) \in Loading, At(r)' \in Loading,
         UNCHANGED <<notes, loaded, window, torn>>,
         \A q \in Prompters : q # r => prompter'[q] = prompter[q]
  PROVE  OneLoads' /\ WindowsHold' /\ TakesFresh'
<1> USE DEF PersonaInv
<1>1. \A q \in Prompters : q # r => At(q)' = At(q) /\ At(q) \notin Loading
  BY LoaderAlone DEF At
<1>2. At(r) # "idle" /\ At(r)' \notin {"idle", "takeIdentity", "takeName", "done"}
  BY DEF Loading
<1>3. OneLoads'
  BY <1>1 DEF OneLoads
<1>4. WindowsHold'
  BY <1>1, <1>2 DEF WindowsHold
<1>5. TakesFresh'
  <2> SUFFICES ASSUME NEW q \in Prompters
               PROVE
    /\ At(q)' = "takeIdentity" => FreshIdentity(window[q], loaded["identity"])
    /\ At(q)' \in {"takeIdentity", "takeName"} => FreshName(window[q], loaded["name"])
    /\ At(q)' \in {"takeName", "done"} /\ q \notin torn =>
         FreshIdentity(window[q], prompter'[q].took["identity"])
    /\ At(q)' = "done" /\ q \notin torn => FreshName(window[q], prompter'[q].took["name"])
    BY DEF TakesFresh
  <2>1. CASE q = r
    BY <1>2, <2>1
  <2>2. CASE q # r
    BY <1>1, <2>2 DEF TakesFresh
  <2> QED
    BY <2>1, <2>2
<1> QED
  BY <1>3, <1>4, <1>5

LEMMA LoadIdentityKeeps ==
  ASSUME PersonaInv, NEW r \in Prompters, LoadIdentity(r)
  PROVE  PersonaInv'
<1> USE PersonaNames, TextsDiffer DEF PersonaInv
<1> DEFINE sealed == notes["identity.md"] = "sealed"
           file == IF sealed \/ Says("identity.md") THEN "identity.md" ELSE "SOUL.md"
           text == Said(file)
<1>0. sealed => Said("identity.md") = "blank" /\ ~Says("identity.md")
  BY DEF Said, Says
<1>1. /\ UNCHANGED <<notes, loaded, renaming, edits, window, torn>> /\ At(r) = "identity"
      /\ LoadField(r, "identity", text, "name")
      /\ sums' = IF Says(file) THEN [sums EXCEPT ![file] = notes[file]] ELSE sums
      /\ emptied' = IF sealed THEN Tracked ELSE IF Says(file) THEN emptied \ {file} ELSE emptied
  BY <1>0 DEF LoadIdentity, Sum, At
<1>2. /\ file \in Tracked
      /\ sealed => ~Says(file)
      /\ ~sealed /\ ~Says(file) => \A f \in Tracked : ~Says(f)
  BY <1>0
<1> HIDE DEF file
<1>3. /\ text = Read(notes[file]) /\ text \in Contents /\ notes[file] \in Contents
      /\ Says(file) => notes[file] \in Notes /\ text = notes[file]
      /\ ~Says(file) => text = "blank"
  BY <1>2, SaidIs DEF NoteTypes
<1> HIDE DEF text, sealed
<1>4. /\ prompter' \in [Prompters -> PromptRecords] /\ At(r)' = "name"
      /\ prompter'[r].next["identity"] = text
      /\ \A q \in Prompters : q # r => prompter'[q] = prompter[q]
  <2>1. text \in PromptTexts /\ "name" \in PromptSteps
    BY <1>3 DEF PromptTexts, PromptSteps
  <2> QED
    BY <1>1, <2>1, LoadMoves
<1>5. At(r) \in Loading /\ At(r)' \in Loading
  BY <1>1, <1>4 DEF Loading
<1>6. \A q \in Prompters : q # r => At(q)' = At(q) /\ At(q) \notin Loading
  BY <1>4, <1>5, LoaderAlone DEF At
<1>7. OneLoads' /\ WindowsHold' /\ TakesFresh'
  BY <1>1, <1>4, <1>5, OthersRest
<1>8. NoteTypes' /\ RunTypes'
  BY <1>1, <1>2, <1>3, <1>4 DEF NoteTypes, RunTypes
<1>9. EmptiedSince'
  <2>1. \A f \in Tracked : Says(f)' <=> Says(f)
    BY <1>1 DEF Says, Said
  <2> QED
    BY <1>1, <1>2, <2>1 DEF EmptiedSince, NoteTypes
<1>10. LoadsAreSeen'
  <2> SUFFICES ASSUME NEW q \in Prompters, NEW p \in Prompters, At(p)' # "idle"
               PROVE
    /\ At(q)' \in {"name", "assign"} => SeesIdentity(window[p], prompter'[q].next["identity"])
    /\ At(q)' = "assign" => SeesName(window[p], prompter'[q].next["name"])
    BY <1>1 DEF LoadsAreSeen
  <2>1. CASE q = r
    <3>1. At(p) # "idle"
      BY <1>1, <1>6
    <3>2. notes[file] \in window[p][file]
      BY <1>2, <3>1 DEF WindowsHold
    <3>3. SeesIdentity(window[p], text)
      BY <1>2, <1>3, <3>2 DEF SeesIdentity
    <3> QED
      BY <1>4, <2>1, <3>3
  <2>2. CASE q # r
    BY <1>6, <2>2 DEF Loading
  <2> QED
    BY <2>1, <2>2
<1>11. KnownIn(sums', emptied', text)
  <2>1. CASE Says(file)
    <3>1. sums'[file] = text
      BY <1>1, <1>2, <1>3, <2>1 DEF NoteTypes
    <3> QED
      BY <1>2, <3>1 DEF KnownIn
  <2>2. CASE ~Says(file)
    <3>1. \A f \in Tracked : sums[f] = "none" \/ f \in emptied'
      BY <1>1, <1>2, <2>2 DEF EmptiedSince
    <3> QED
      BY <1>1, <1>3, <2>2, <3>1 DEF KnownIn
  <2> QED
    BY <2>1, <2>2
<1>12. LoadedKnown'
  <2>1. \A q \in Prompters : At(q)' \in {"name", "assign"} => q = r
    BY <1>6 DEF Loading
  <2>2. KnownIn(sums', emptied', prompter'[r].next["identity"])
    BY <1>4, <1>11
  <2> QED
    BY <1>4, <2>1, <2>2 DEF LoadedKnown, KnownText
<1> QED
  BY <1>7, <1>8, <1>9, <1>10, <1>12

LEMMA LoadDisplayKeeps ==
  ASSUME PersonaInv, NEW r \in Prompters, LoadDisplay(r)
  PROVE  PersonaInv'
<1> USE PersonaNames, TextsDiffer DEF PersonaInv
<1> DEFINE text == Said(Display)
<1>1. /\ UNCHANGED <<notes, sums, loaded, renaming, edits, window, emptied, torn>>
      /\ At(r) = "name" /\ LoadField(r, "name", text, "assign")
  BY DEF LoadDisplay, At
<1>2. text = Read(notes[Display]) /\ text \in Contents
  BY SaidIs
<1> HIDE DEF text
<1>3. /\ prompter' \in [Prompters -> PromptRecords] /\ At(r)' = "assign"
      /\ prompter'[r].next["identity"] = prompter[r].next["identity"]
      /\ prompter'[r].next["name"] = text
      /\ \A q \in Prompters : q # r => prompter'[q] = prompter[q]
  <2>1. text \in PromptTexts /\ "assign" \in PromptSteps /\ "identity" # "name"
    BY <1>2 DEF PromptTexts, PromptSteps
  <2> QED
    BY <1>1, <2>1, LoadMoves
<1>4. At(r) \in Loading /\ At(r)' \in Loading
  BY <1>1, <1>3 DEF Loading
<1>5. \A q \in Prompters : q # r => At(q)' = At(q) /\ At(q) \notin Loading
  BY <1>3, <1>4, LoaderAlone DEF At
<1>6. OneLoads' /\ WindowsHold' /\ TakesFresh'
  BY <1>1, <1>3, <1>4, OthersRest
<1>7. NoteTypes' /\ RunTypes' /\ EmptiedSince'
  BY <1>1, <1>3 DEF NoteTypes, RunTypes, EmptiedSince, Says, Said
<1>8. LoadsAreSeen'
  <2> SUFFICES ASSUME NEW q \in Prompters, NEW p \in Prompters, At(p)' # "idle"
               PROVE
    /\ At(q)' \in {"name", "assign"} => SeesIdentity(window[p], prompter'[q].next["identity"])
    /\ At(q)' = "assign" => SeesName(window[p], prompter'[q].next["name"])
    BY <1>1 DEF LoadsAreSeen
  <2>1. CASE q = r
    <3>1. At(p) # "idle"
      BY <1>1, <1>5
    <3>2. SeesIdentity(window[p], prompter[r].next["identity"])
      BY <1>1, <3>1 DEF LoadsAreSeen
    <3>3. notes[Display] \in window[p][Display]
      BY <3>1 DEF WindowsHold
    <3>4. SeesName(window[p], text)
      BY <1>2, <3>3 DEF SeesName
    <3> QED
      BY <1>3, <2>1, <3>2, <3>4
  <2>2. CASE q # r
    BY <1>5, <2>2 DEF Loading
  <2> QED
    BY <2>1, <2>2
<1>9. LoadedKnown'
  <2>1. \A q \in Prompters : At(q)' \in {"name", "assign"} => q = r
    BY <1>5 DEF Loading
  <2>2. KnownText(prompter[r].next["identity"])
    BY <1>1 DEF LoadedKnown
  <2> QED
    BY <1>1, <1>3, <2>1, <2>2 DEF LoadedKnown, KnownText
<1> QED
  BY <1>6, <1>7, <1>8, <1>9

LEMMA AssignKeeps ==
  ASSUME PersonaInv, NEW r \in Prompters, AssignFields(r)
  PROVE  PersonaInv'
<1> USE PersonaNames, TextsDiffer DEF PersonaInv
<1> DEFINE old == prompter[r]
           first == [old EXCEPT !.step = "takeIdentity"]
           new == [first EXCEPT !.next = NoFields]
<1>1. /\ UNCHANGED <<notes, sums, renaming, edits, window, emptied, torn>>
      /\ At(r) = "assign" /\ loaded' = old.next /\ prompter' = [prompter EXCEPT ![r] = new]
  BY DEF AssignFields, At
<1>2. old \in PromptRecords
  BY DEF RunTypes
<1>3. first \in PromptRecords /\ first.step = "takeIdentity" /\ first.took = old.took
  BY <1>2 DEF PromptRecords, PromptSteps
<1>4. /\ SeesIdentity(window[r], old.next["identity"]) /\ SeesName(window[r], old.next["name"])
      /\ KnownText(old.next["identity"])
  BY <1>1 DEF LoadsAreSeen, LoadedKnown
<1>5. \A p \in Prompters : At(p) # "idle" =>
        SeesIdentity(window[p], old.next["identity"]) /\ SeesName(window[p], old.next["name"])
  BY <1>1 DEF LoadsAreSeen
<1>6. loaded' \in [Fields -> Contents]
  <2>1. old.next["identity"] \in Contents /\ old.next["name"] \in Contents
    BY <1>4, ReadsContents DEF RunTypes
  <2> QED
    BY <1>1, <1>2, <2>1 DEF PromptRecords, Taken, Fields
<1> HIDE DEF first
<1>7. new \in PromptRecords /\ new.step = "takeIdentity" /\ new.took = old.took
  BY <1>3, NotPromptingIs DEF PromptRecords
<1> HIDE DEF new
<1>8. /\ prompter' \in [Prompters -> PromptRecords] /\ At(r)' = "takeIdentity"
      /\ prompter'[r].took = old.took /\ \A q \in Prompters : q # r => prompter'[q] = prompter[q]
  BY <1>1, <1>7 DEF RunTypes, At
<1>9. \A q \in Prompters : q # r => At(q)' = At(q) /\ At(q) \notin Loading
  BY <1>1, <1>8, LoaderAlone DEF At, Loading
<1>10. \A q \in Prompters : At(q)' \notin Loading /\ (At(q)' # "idle" => At(q) # "idle")
  BY <1>1, <1>8, <1>9 DEF Loading
<1>11. NoteTypes' /\ RunTypes' /\ EmptiedSince'
  BY <1>1, <1>6, <1>8 DEF NoteTypes, RunTypes, EmptiedSince, Says, Said
<1>12. OneLoads' /\ LoadsAreSeen'
  BY <1>10 DEF OneLoads, LoadsAreSeen, Loading
<1>13. WindowsHold'
  BY <1>1, <1>10 DEF WindowsHold
<1>14. LoadedKnown'
  BY <1>1, <1>4, <1>10 DEF LoadedKnown, KnownText, Loading
<1>15. TakesFresh'
  <2> SUFFICES ASSUME NEW q \in Prompters
               PROVE
    /\ At(q)' = "takeIdentity" => FreshIdentity(window[q], loaded'["identity"])
    /\ At(q)' \in {"takeIdentity", "takeName"} => FreshName(window[q], loaded'["name"])
    /\ At(q)' \in {"takeName", "done"} /\ q \notin torn =>
         FreshIdentity(window[q], prompter'[q].took["identity"])
    /\ At(q)' = "done" /\ q \notin torn => FreshName(window[q], prompter'[q].took["name"])
    BY <1>1 DEF TakesFresh
  <2>1. At(q)' # "idle" =>
          FreshIdentity(window[q], loaded'["identity"]) /\ FreshName(window[q], loaded'["name"])
    BY <1>1, <1>5, <1>10 DEF FreshIdentity, FreshName
  <2>2. CASE q = r
    BY <1>8, <2>1, <2>2
  <2>3. CASE q # r
    BY <1>8, <1>9, <2>1, <2>3 DEF TakesFresh
  <2> QED
    BY <2>2, <2>3
<1> QED
  BY <1>11, <1>12, <1>13, <1>14, <1>15

\* A run takes a field, or ends: nothing is loaded, and the others stay where they are.
LEMMA TakerRests ==
  ASSUME PersonaInv, NEW r \in Prompters, At(r) \notin Loading, At(r) # "idle", At(r)' \notin Loading,
         UNCHANGED <<notes, sums, loaded, renaming, edits, emptied>>, torn' \subseteq Prompters,
         prompter' \in [Prompters -> PromptRecords], window' \in [Prompters -> Windows],
         At(r)' = "idle" \/ window'[r] = window[r],
         \A q \in Prompters : q # r => prompter'[q] = prompter[q] /\ window'[q] = window[q]
  PROVE  /\ NoteTypes' /\ RunTypes' /\ OneLoads' /\ WindowsHold' /\ LoadsAreSeen' /\ EmptiedSince'
         /\ LoadedKnown'
<1> USE DEF PersonaInv
<1>1. \A q \in Prompters : q # r => At(q)' = At(q)
  BY DEF At
<1>2. NoteTypes' /\ RunTypes' /\ EmptiedSince'
  BY DEF NoteTypes, RunTypes, EmptiedSince, Says, Said
<1>3. OneLoads'
  BY <1>1 DEF OneLoads
<1>4. \A q \in Prompters : At(q)' # "idle" => At(q) # "idle" /\ window'[q] = window[q]
  BY <1>1
<1>5. WindowsHold'
  BY <1>4 DEF WindowsHold
<1>6. \A q \in Prompters : At(q)' \in {"name", "assign"} \/ At(q) \in {"name", "assign"} =>
        q # r /\ At(q)' = At(q) /\ prompter'[q] = prompter[q]
  BY <1>1 DEF Loading
<1>7. LoadsAreSeen'
  <2> SUFFICES ASSUME NEW q \in Prompters, NEW p \in Prompters, At(p)' # "idle",
                      At(q)' \in {"name", "assign"}
               PROVE  /\ SeesIdentity(window'[p], prompter'[q].next["identity"])
                      /\ At(q)' = "assign" => SeesName(window'[p], prompter'[q].next["name"])
    BY DEF LoadsAreSeen
  <2> QED
    BY <1>4, <1>6 DEF LoadsAreSeen
<1>8. LoadedKnown'
  <2>1. ASSUME \A q \in Prompters : At(q)' \notin {"name", "assign"} PROVE KnownText(loaded["identity"])
    BY <1>6, <2>1 DEF LoadedKnown
  <2>2. ASSUME NEW q \in Prompters, At(q)' \in {"name", "assign"}
        PROVE  KnownText(prompter'[q].next["identity"])
    BY <1>6, <2>2 DEF LoadedKnown
  <2> QED
    BY <2>1, <2>2 DEF LoadedKnown, KnownText
<1> QED
  BY <1>2, <1>3, <1>5, <1>7, <1>8

LEMMA TakeMoves ==
  ASSUME PersonaInv, NEW r \in Prompters, NEW here \in {"takeIdentity", "takeName"},
         NEW field \in Fields, NEW next \in {"takeName", "done"}, TakeField(r, here, field, next)
  PROVE  /\ At(r) = here /\ At(r)' = next /\ prompter' \in [Prompters -> PromptRecords]
         /\ \A q \in Prompters : q # r => prompter'[q] = prompter[q]
         /\ \A f \in Fields : f # field => prompter'[r].took[f] = prompter[r].took[f]
         /\ torn \subseteq torn' /\ torn' \subseteq torn \cup {r}
         /\ r \notin torn' => r \notin torn /\ prompter'[r].took[field] = loaded[field]
         /\ UNCHANGED <<notes, sums, loaded, renaming, edits, window, emptied>>
<1> USE PersonaNames, TextsDiffer DEF PersonaInv
<1> DEFINE racing == {q \in Prompters \ {r} : prompter[q].step = "assign"}
           new == {prompter[q].next[field] : q \in racing}
           torn2 == {text \in {"garbled"} : new \ {loaded[field]} # {}}
<1>1. /\ UNCHANGED <<notes, sums, loaded, renaming, edits, window, emptied>> /\ At(r) = here
      /\ torn' = IF racing = {} THEN torn ELSE torn \cup {r}
  BY DEF TakeField, At
<1>2. PICK text \in {loaded[field]} \cup new \cup torn2 :
        prompter' = [prompter EXCEPT ![r].step = next, ![r].took[field] = text]
  BY DEF TakeField
<1>3. racing = {} => text = loaded[field]
  OBVIOUS
<1>4. text \in PromptTexts
  <2>1. \A q \in racing : prompter[q].next[field] \in PromptTexts
    BY DEF RunTypes, PromptRecords, Taken
  <2>2. loaded[field] \in PromptTexts /\ "garbled" \in PromptTexts
    BY DEF NoteTypes, PromptTexts
  <2> QED
    BY <2>1, <2>2
<1>5. r \notin torn' => r \notin torn /\ text = loaded[field]
  BY <1>1, <1>3
<1>6. torn \subseteq torn' /\ torn' \subseteq torn \cup {r}
  BY <1>1
<1> DEFINE old == prompter[r]
           takes == [old.took EXCEPT ![field] = text]
           first == [old EXCEPT !.step = next]
           last == [first EXCEPT !.took = takes]
<1> HIDE DEF racing, new, torn2
<1>7. old \in PromptRecords /\ prompter' = [prompter EXCEPT ![r] = last]
  BY <1>2 DEF RunTypes
<1>8. /\ takes \in Taken /\ takes[field] = text
      /\ \A f \in Fields : f # field => takes[f] = old.took[f]
  BY <1>4, <1>7 DEF PromptRecords, Taken
<1> HIDE DEF takes
<1>9. first \in PromptRecords /\ first.step = next
  BY <1>7 DEF PromptRecords, PromptSteps
<1> HIDE DEF first
<1>10. last \in PromptRecords /\ last.step = next /\ last.took = takes
  BY <1>8, <1>9 DEF PromptRecords
<1> HIDE DEF last
<1>11. /\ prompter' \in [Prompters -> PromptRecords] /\ At(r)' = next /\ prompter'[r].took = takes
       /\ \A q \in Prompters : q # r => prompter'[q] = prompter[q]
  BY <1>7, <1>10 DEF RunTypes, At
<1> QED
  BY <1>1, <1>5, <1>6, <1>8, <1>11

LEMMA TakeKeeps ==
  ASSUME PersonaInv, NEW r \in Prompters,
         \/ TakeField(r, "takeIdentity", "identity", "takeName")
         \/ TakeField(r, "takeName", "name", "done")
  PROVE  PersonaInv'
<1> USE PersonaNames DEF PersonaInv
<1> DEFINE Takes(here, field, next) ==
      /\ At(r) = here /\ At(r)' = next /\ prompter' \in [Prompters -> PromptRecords]
      /\ \A q \in Prompters : q # r => prompter'[q] = prompter[q]
      /\ \A f \in Fields : f # field => prompter'[r].took[f] = prompter[r].took[f]
      /\ torn \subseteq torn' /\ torn' \subseteq torn \cup {r}
      /\ r \notin torn' => r \notin torn /\ prompter'[r].took[field] = loaded[field]
      /\ UNCHANGED <<notes, sums, loaded, renaming, edits, window, emptied>>
<1>1. \/ Takes("takeIdentity", "identity", "takeName")
      \/ Takes("takeName", "name", "done")
  BY TakeMoves
<1>2. torn' \subseteq Prompters /\ window \in [Prompters -> Windows]
  BY <1>1 DEF NoteTypes, RunTypes
<1>3. At(r) \notin Loading /\ At(r) # "idle" /\ At(r)' \notin Loading
  BY <1>1 DEF Loading
<1>4. /\ NoteTypes' /\ RunTypes' /\ OneLoads' /\ WindowsHold' /\ LoadsAreSeen' /\ EmptiedSince'
      /\ LoadedKnown'
  BY <1>1, <1>2, <1>3, TakerRests
<1>5. TakesFresh'
  <2> SUFFICES ASSUME NEW q \in Prompters
               PROVE
    /\ At(q)' = "takeIdentity" => FreshIdentity(window[q], loaded["identity"])
    /\ At(q)' \in {"takeIdentity", "takeName"} => FreshName(window[q], loaded["name"])
    /\ At(q)' \in {"takeName", "done"} /\ q \notin torn' =>
         FreshIdentity(window[q], prompter'[q].took["identity"])
    /\ At(q)' = "done" /\ q \notin torn' => FreshName(window[q], prompter'[q].took["name"])
    BY <1>1 DEF TakesFresh
  <2>1. CASE q # r
    <3>1. prompter'[q] = prompter[q] /\ At(q)' = At(q) /\ (q \notin torn' => q \notin torn)
      BY <1>1, <2>1 DEF At
    <3> QED
      BY <3>1 DEF TakesFresh
  <2>2. CASE q = r /\ Takes("takeIdentity", "identity", "takeName")
    <3>1. FreshIdentity(window[r], loaded["identity"]) /\ FreshName(window[r], loaded["name"])
      BY <2>2 DEF TakesFresh
    <3> QED
      BY <2>2, <3>1
  <2>3. CASE q = r /\ Takes("takeName", "name", "done")
    <3>1. /\ FreshName(window[r], loaded["name"])
          /\ r \notin torn => FreshIdentity(window[r], prompter[r].took["identity"])
      BY <2>3 DEF TakesFresh
    <3>2. prompter'[r].took["identity"] = prompter[r].took["identity"]
      BY <2>3
    <3> QED
      BY <2>3, <3>1, <3>2
  <2> QED
    BY <1>1, <2>1, <2>2, <2>3
<1> QED
  BY <1>4, <1>5

LEMMA PromptedKeeps ==
  ASSUME PersonaInv, NEW r \in Prompters, Prompted(r)
  PROVE  PersonaInv'
<1> USE PersonaNames DEF PersonaInv
<1>1. /\ UNCHANGED <<notes, sums, loaded, renaming, edits, emptied>> /\ At(r) = "done"
      /\ prompter' = [prompter EXCEPT ![r] = NotPrompting] /\ torn' = torn \ {r}
      /\ window' = [window EXCEPT ![r] = [f \in PersonaFiles |-> {}]]
  BY DEF Prompted, At
<1>2. [f \in PersonaFiles |-> {}] \in Windows
  BY DEF Windows
<1>3. /\ prompter' \in [Prompters -> PromptRecords] /\ At(r)' = "idle"
      /\ window' \in [Prompters -> Windows] /\ torn' \subseteq Prompters
      /\ \A q \in Prompters : q # r => prompter'[q] = prompter[q] /\ window'[q] = window[q]
  BY <1>1, <1>2, NotPromptingIs DEF RunTypes, NoteTypes, At
<1>4. At(r) \notin Loading /\ At(r) # "idle" /\ At(r)' \notin Loading
  BY <1>1, <1>3 DEF Loading
<1>5. /\ NoteTypes' /\ RunTypes' /\ OneLoads' /\ WindowsHold' /\ LoadsAreSeen' /\ EmptiedSince'
      /\ LoadedKnown'
  BY <1>1, <1>3, <1>4, TakerRests
<1>6. TakesFresh'
  <2> SUFFICES ASSUME NEW q \in Prompters, q # r
               PROVE
    /\ At(q)' = "takeIdentity" => FreshIdentity(window'[q], loaded["identity"])
    /\ At(q)' \in {"takeIdentity", "takeName"} => FreshName(window'[q], loaded["name"])
    /\ At(q)' \in {"takeName", "done"} /\ q \notin torn' =>
         FreshIdentity(window'[q], prompter'[q].took["identity"])
    /\ At(q)' = "done" /\ q \notin torn' => FreshName(window'[q], prompter'[q].took["name"])
    BY <1>1, <1>3 DEF TakesFresh
  <2>1. /\ prompter'[q] = prompter[q] /\ window'[q] = window[q] /\ At(q)' = At(q)
        /\ q \notin torn' => q \notin torn
    BY <1>1, <1>3 DEF At
  <2> QED
    BY <2>1 DEF TakesFresh
<1> QED
  BY <1>5, <1>6

LEMMA PersonaStep == PersonaInv /\ [PersonaNext]_personaVars => PersonaInv'
<1> SUFFICES ASSUME PersonaInv, [PersonaNext]_personaVars PROVE PersonaInv'
  OBVIOUS
<1>1. CASE \/ \E f \in PersonaFiles, text \in Contents : EditNote(f, text)
           \/ RenameBegins
           \/ \E text \in Notes : DisplaySaved(text)
           \/ ReadIdentityFile
           \/ WriteIdentityFile
  BY <1>1, FileSteps
<1>2. CASE \E r \in Prompters : LookForChanges(r) \/ LoadIdentity(r) \/ LoadDisplay(r)
  BY <1>2, LookKeeps, LoadIdentityKeeps, LoadDisplayKeeps, Zenon
<1>3. CASE \E r \in Prompters :
             \/ AssignFields(r) \/ Prompted(r)
             \/ TakeField(r, "takeIdentity", "identity", "takeName")
             \/ TakeField(r, "takeName", "name", "done")
  BY <1>3, AssignKeeps, PromptedKeeps, TakeKeeps, Zenon
<1>4. CASE UNCHANGED personaVars
  BY <1>4 DEF personaVars, PersonaInv, NoteTypes, RunTypes, OneLoads, WindowsHold,
     LoadsAreSeen,
              TakesFresh, EmptiedSince, LoadedKnown, KnownText, KnownIn, At, Says, Said
<1> QED
  BY <1>1, <1>2, <1>3, <1>4, Zenon DEF PersonaNext

LEMMA PersonaHolds == PersonaInv => PersonaIsFresh /\ PersonaTypeOK
<1> SUFFICES ASSUME PersonaInv PROVE PersonaIsFresh /\ PersonaTypeOK
  OBVIOUS
<1> USE DEF PersonaInv
<1>1. PersonaIsFresh
  <2> SUFFICES ASSUME NEW r \in Prompters, prompter[r].step = "done", r \notin torn
               PROVE  /\ \/ prompter[r].took["name"] \in Seen(r, Display)
                         \/ window[r][Display] \cap Gone # {}
                      /\ \/ prompter[r].took["identity"] \in UNION {Seen(r, f) : f \in Tracked}
                         \/ /\ window[r][Display] \cap Gone # {}
                            /\ \E f \in Tracked : window[r][f] \cap Gone # {}
    BY DEF PersonaIsFresh
  <2>1. /\ FreshName(window[r], prompter[r].took["name"])
        /\ FreshIdentity(window[r], prompter[r].took["identity"])
    BY DEF TakesFresh, At
  <2>2. \A text : SeesName(window[r], text) => text \in Seen(r, Display)
    BY DEF SeesName, Seen, Read
  <2>3. \A text : SeesIdentity(window[r], text) => text \in UNION {Seen(r, f) : f \in Tracked}
    BY DEF SeesIdentity, Seen, Read
  <2> QED
    BY <2>1, <2>2, <2>3 DEF FreshName, FreshIdentity
<1>2. PersonaTypeOK
  <2>1. \A r \in Prompters : prompter[r] \in PromptRecords
    BY DEF RunTypes
  <2>2. \A r \in Prompters :
          /\ prompter[r].step \in {"idle", "done"} \cup Loading \cup {"takeIdentity", "takeName"}
          /\ prompter[r].took \in [Fields -> Contents \cup {"none", "garbled"}]
    BY <2>1 DEF PromptRecords, PromptSteps, Taken, PromptTexts, Loading
  <2>3. renaming.step \in {"idle", "display", "identity", "empty", "fill"}
    BY DEF NoteTypes, RenameRecords
  <2> QED
    BY <2>2, <2>3 DEF PersonaTypeOK, NoteTypes
<1> QED
  BY <1>1, <1>2

-----------------------------------------------------------------------------
(* Migrations.  SchemaIsWhole says nothing of the processes that are half  *)
(* way: what each has read is a version that the schema has by now, so     *)
(* that the next one either is recorded, and refused, or is the next of    *)
(* the schema.                                                             *)

SchemaInv ==
  /\ schema \in Seq(Nat) /\ \A i \in DOMAIN schema : schema[i] = i
  /\ inTable = 1..Len(schema)
  /\ launch \in [Launchers -> [at : {"off", "version", "apply", "on"},
                              release : Nat, version : Nat]]
  /\ \A c \in Launchers :
       /\ launch[c].at = "apply" => launch[c].version <= Len(schema)
       /\ launch[c].at = "on" => launch[c].release <= Len(schema)

\* What ReadVersion reads is how far the schema is.
LEMMA Highest ==
  ASSUME SchemaInv
  PROVE  HighestRecorded = Len(schema)
<1> DEFINE n == Len(schema)
<1>1. n \in Nat /\ inTable = 1..n
  BY DEF SchemaInv
<1>2. CASE n = 0
  BY <1>1, <1>2 DEF HighestRecorded
<1>3. CASE n # 0
  <2>1. n \in inTable /\ \A m \in inTable : m <= n
    BY <1>1, <1>3
  <2>2. \A k \in inTable : (\A m \in inTable : m <= k) => k = n
    BY <2>1, <1>1
  <2>3. (CHOOSE k \in inTable : \A m \in inTable : m <= k) = n
    BY <2>1, <2>2
  <2> QED
    BY <2>1, <2>3 DEF HighestRecorded
<1> QED
  BY <1>2, <1>3

LEMMA SchemaStarts == MigrationInit => SchemaInv
<1> SUFFICES ASSUME MigrationInit PROVE SchemaInv
  OBVIOUS
<1>1. PICK n \in {0} \cup Releases : schema = [v \in 1..n |-> v] /\ inTable = 1..n
  BY DEF MigrationInit
<1>2. n \in Nat
  BY MigrationAssumption DEF MigrationAssumption
<1>3. schema \in Seq(Nat) /\ Len(schema) = n /\ DOMAIN schema = 1..n
  BY <1>1, <1>2
<1> QED
  BY <1>1, <1>2, <1>3 DEF MigrationInit, SchemaInv, NotLaunched

\* A step of one process.
LEMMA SchemaStep == SchemaInv /\ [MigrationNext]_migrationVars => SchemaInv'
<1> SUFFICES ASSUME SchemaInv, [MigrationNext]_migrationVars PROVE SchemaInv'
  OBVIOUS
<1> USE DEF SchemaInv
<1>1. ASSUME NEW c \in Launchers, LaunchCommand(c) PROVE SchemaInv'
  BY <1>1, MigrationAssumption DEF LaunchCommand, MigrationAssumption
<1>2. ASSUME NEW c \in Launchers, ReadVersion(c) PROVE SchemaInv'
  <2>1. HighestRecorded = Len(schema) /\ Len(schema) \in Nat
    BY Highest
  <2>2. UNCHANGED <<schema, inTable>> /\ launch[c].at = "version"
    BY <1>2 DEF ReadVersion
  <2>3. launch' = [launch EXCEPT ![c].at = "apply", ![c].version = Len(schema)]
    BY <1>2, <2>1 DEF ReadVersion
  <2>4. launch' \in [Launchers -> [at : {"off", "version", "apply", "on"},
                                  release : Nat, version : Nat]]
    BY <2>1, <2>3
  <2>5. ASSUME NEW d \in Launchers
        PROVE  /\ launch'[d].at = "apply" => launch'[d].version <= Len(schema)
               /\ launch'[d].at = "on" => launch'[d].release <= Len(schema)
    BY <2>1, <2>3
  <2> QED
    BY <2>2, <2>4, <2>5
<1>3. ASSUME NEW c \in Launchers, ApplyMigration(c) PROVE SchemaInv'
  <2> DEFINE v == launch[c].version + 1
  <2>1. CASE UNCHANGED <<schema, inTable>> /\ launch' = [launch EXCEPT ![c] = NotLaunched]
    BY <2>1 DEF NotLaunched
  <2>2. CASE /\ Accepted(v)
             /\ schema' = Append(schema, v) /\ inTable' = inTable \cup {v}
             /\ launch' = [launch EXCEPT ![c].version = v]
    <3>1. launch[c].at = "apply" /\ v \in Nat /\ v <= Len(schema) + 1
      BY <1>3 DEF ApplyMigration
    <3>2. v = Len(schema) + 1
      BY <2>2, <3>1 DEF Accepted
    <3>3. /\ schema' \in Seq(Nat) /\ Len(schema') = Len(schema) + 1
          /\ \A i \in DOMAIN schema' : schema'[i] = i
      BY <2>2, <3>1, <3>2
    <3>4. inTable' = 1..Len(schema')
      BY <2>2, <3>2, <3>3
    <3>5. launch' \in [Launchers -> [at : {"off", "version", "apply", "on"},
                                    release : Nat, version : Nat]]
      BY <2>2, <3>1
    <3>6. ASSUME NEW d \in Launchers
          PROVE  /\ launch'[d].at = "apply" => launch'[d].version <= Len(schema')
                 /\ launch'[d].at = "on" => launch'[d].release <= Len(schema')
      BY <2>2, <3>1, <3>2, <3>3
    <3> QED
      BY <3>3, <3>4, <3>5, <3>6
  <2> QED
    BY <1>3, <2>1, <2>2 DEF ApplyMigration
<1>4. ASSUME NEW c \in Launchers, Migrated(c) PROVE SchemaInv'
  BY <1>4 DEF Migrated
<1>5. ASSUME NEW c \in Launchers, LeaveCommand(c) PROVE SchemaInv'
  BY <1>5 DEF LeaveCommand, NotLaunched
<1>6. CASE UNCHANGED migrationVars
  BY <1>6 DEF migrationVars
<1> QED
  BY <1>1, <1>2, <1>3, <1>4, <1>5, <1>6 DEF MigrationNext

LEMMA SchemaHolds == SchemaInv => SchemaIsWhole
<1> SUFFICES ASSUME SchemaInv PROVE SchemaIsWhole
  OBVIOUS
<1>1. DOMAIN schema = 1..Len(schema) /\ inTable = DOMAIN schema
  BY DEF SchemaInv
<1>2. ASSUME NEW c \in Launchers, launch[c].at = "on"
      PROVE  1..launch[c].release \subseteq inTable
  BY <1>2 DEF SchemaInv
<1> QED
  BY <1>1, <1>2 DEF SchemaInv, SchemaIsWhole

\* There is a last release, whose version no other goes beyond.
LEMMA LastReleaseIs == LastRelease \in Nat /\ \A n \in Releases : n \in Nat /\ n <= LastRelease
<1>1. Releases \subseteq Nat /\ \E n \in Releases : \A m \in Releases : m <= n
  BY MigrationAssumption DEF MigrationAssumption
<1>2. LastRelease \in Releases /\ \A m \in Releases : m <= LastRelease
  BY <1>1 DEF LastRelease
<1> QED
  BY <1>1, <1>2

LEMMA SchemaTypeInit == MigrationInit => MigrationTypeOK
<1> SUFFICES ASSUME MigrationInit PROVE MigrationTypeOK
  OBVIOUS
<1>1. PICK n \in {0} \cup Releases : schema = [v \in 1..n |-> v] /\ inTable = 1..n
  BY DEF MigrationInit
<1>2. n \in Nat /\ n <= LastRelease /\ LastRelease \in Nat
  BY LastReleaseIs
<1>3. schema \in Seq(Versions) /\ inTable \subseteq Versions
  <2>1. schema \in [1..n -> Versions]
    BY <1>1, <1>2 DEF Versions
  <2> QED
    BY <1>1, <1>2, <2>1 DEF Versions
<1>4. NotLaunched \in [at : {"off", "version", "apply", "on"},
                      release : {0} \cup Releases, version : 0..LastRelease]
  BY <1>2 DEF NotLaunched
<1>5. launches \in 0..MaxLaunches
  BY MigrationAssumption DEF MigrationInit, MigrationAssumption
<1> QED
  BY <1>3, <1>4, <1>5 DEF MigrationInit, MigrationTypeOK

LEMMA SchemaTypeStep ==
  SchemaInv /\ MigrationTypeOK /\ [MigrationNext]_migrationVars => MigrationTypeOK'
<1> SUFFICES ASSUME SchemaInv, MigrationTypeOK, [MigrationNext]_migrationVars
             PROVE  MigrationTypeOK'
  OBVIOUS
<1> DEFINE Launch == [at : {"off", "version", "apply", "on"},
                      release : {0} \cup Releases, version : 0..LastRelease]
<1> USE DEF MigrationTypeOK
<1>1. LastRelease \in Nat /\ MaxLaunches \in Nat /\ NotLaunched \in Launch
  BY LastReleaseIs, MigrationAssumption DEF MigrationAssumption, NotLaunched
<1>2. ASSUME NEW c \in Launchers, launch' = [launch EXCEPT ![c] = NotLaunched]
      PROVE  launch' \in [Launchers -> Launch]
  BY <1>1, <1>2
<1>3. ASSUME NEW c \in Launchers, LaunchCommand(c) PROVE MigrationTypeOK'
  <2>1. PICK n \in Releases :
          launch' = [launch EXCEPT ![c] = [at |-> "version", release |-> n, version |-> 0]]
    BY <1>3 DEF LaunchCommand
  <2>2. [at |-> "version", release |-> n, version |-> 0] \in Launch
    BY <1>1
  <2>3. launch' \in [Launchers -> Launch]
    BY <2>1, <2>2
  <2>4. launches' \in 0..MaxLaunches
    BY <1>1, <1>3 DEF LaunchCommand
  <2> QED
    BY <1>3, <2>3, <2>4 DEF LaunchCommand
<1>4. ASSUME NEW c \in Launchers, ReadVersion(c) PROVE MigrationTypeOK'
  <2>1. HighestRecorded \in 0..LastRelease
    <3>1. HighestRecorded = Len(schema) /\ Len(schema) \in Nat /\ inTable = 1..Len(schema)
      BY Highest DEF SchemaInv
    <3>2. Len(schema) # 0 => Len(schema) \in inTable
      BY <3>1
    <3> QED
      BY <1>1, <3>1, <3>2 DEF Versions
  <2>2. launch' = [launch EXCEPT ![c].at = "apply", ![c].version = HighestRecorded]
    BY <1>4 DEF ReadVersion
  <2>3. launch' \in [Launchers -> Launch]
    BY <2>1, <2>2
  <2> QED
    BY <1>4, <2>3 DEF ReadVersion
<1>5. ASSUME NEW c \in Launchers, ApplyMigration(c) PROVE MigrationTypeOK'
  <2> DEFINE v == launch[c].version + 1
  <2>1. launch[c] \in Launch /\ v <= launch[c].release /\ UNCHANGED launches
    BY <1>5 DEF ApplyMigration
  <2>2. v \in Versions /\ v \in 0..LastRelease
    <3>1. launch[c].release <= LastRelease /\ launch[c].release \in Nat
      BY <1>1, <2>1, LastReleaseIs
    <3> QED
      BY <1>1, <2>1, <3>1 DEF Versions
  <2> HIDE DEF v
  <2>3. CASE UNCHANGED <<schema, inTable>> /\ launch' = [launch EXCEPT ![c] = NotLaunched]
    BY <1>2, <2>1, <2>3
  <2>4. CASE /\ schema' = Append(schema, v) /\ inTable' = inTable \cup {v}
             /\ launch' = [launch EXCEPT ![c].version = v]
    <3>1. schema' \in Seq(Versions) /\ inTable' \subseteq Versions
      BY <2>2, <2>4
    <3>2. launch' \in [Launchers -> Launch]
      BY <2>2, <2>4
    <3> QED
      BY <2>1, <3>1, <3>2
  <2> QED
    BY <1>5, <2>3, <2>4 DEF ApplyMigration, v
<1>6. ASSUME NEW c \in Launchers, Migrated(c) PROVE MigrationTypeOK'
  BY <1>6 DEF Migrated
<1>7. ASSUME NEW c \in Launchers, LeaveCommand(c) PROVE MigrationTypeOK'
  BY <1>2, <1>7 DEF LeaveCommand
<1>8. CASE UNCHANGED migrationVars
  BY <1>8 DEF migrationVars
<1> QED
  BY <1>3, <1>4, <1>5, <1>6, <1>7, <1>8 DEF MigrationNext

-----------------------------------------------------------------------------
(* The parts in the program.                                               *)

LEMMA CommandsAsPart == ServicesSpec => CommandSpec
<1>1. ServicesInit => CommandInit
  BY DEF ServicesInit
<1>2. [ServicesNext]_servicesVars => [CommandNext]_commandVars
  BY DEF ServicesNext, Others, servicesVars
<1> QED
  BY <1>1, <1>2, PTL DEF ServicesSpec, CommandSpec

LEMMA WhatsAppAsPart == ServicesSpec => WhatsAppSpec
<1>1. ServicesInit => WhatsAppInit
  BY DEF ServicesInit
<1>2. [ServicesNext]_servicesVars => [WhatsAppNext]_whatsAppVars
  BY DEF ServicesNext, Others, servicesVars
<1> QED
  BY <1>1, <1>2, PTL DEF ServicesSpec, WhatsAppSpec

LEMMA DeliveryAsPart == ServicesSpec => DeliverySpec
<1>1. ServicesInit => DeliveryInit
  BY DEF ServicesInit
<1>2. [ServicesNext]_servicesVars => [DeliveryNext]_deliveryVars
  BY DEF ServicesNext, Others, servicesVars
<1> QED
  BY <1>1, <1>2, PTL DEF ServicesSpec, DeliverySpec

LEMMA DelegationAsPart == ServicesSpec => DelegationSpec
<1>1. ServicesInit => DelegationInit
  BY DEF ServicesInit
<1>2. [ServicesNext]_servicesVars => [DelegationNext]_delegationVars
  BY DEF ServicesNext, Others, servicesVars
<1> QED
  BY <1>1, <1>2, PTL DEF ServicesSpec, DelegationSpec

LEMMA PersonaAsPart == ServicesSpec => PersonaSpec
<1>1. ServicesInit => PersonaInit
  BY DEF ServicesInit
<1>2. [ServicesNext]_servicesVars => [PersonaNext]_personaVars
  BY DEF ServicesNext, Others, servicesVars
<1> QED
  BY <1>1, <1>2, PTL DEF ServicesSpec, PersonaSpec

LEMMA SchemaAsPart == ServicesSpec => MigrationSpec
<1>1. ServicesInit => MigrationInit
  BY DEF ServicesInit
<1>2. [ServicesNext]_servicesVars => [MigrationNext]_migrationVars
  BY DEF ServicesNext, Others, servicesVars
<1> QED
  BY <1>1, <1>2, PTL DEF ServicesSpec, MigrationSpec

\* Every migration is applied once and in order and recorded with it, and a command
\* that goes on has the schema of its release (Migrate), for any number of processes
\* and releases.
THEOREM SchemaStaysWhole == MigrationSpec => []SchemaIsWhole
BY SchemaStarts, SchemaStep, SchemaHolds, PTL DEF MigrationSpec

\* What a caller is told is what happened, whatever comes between, for any number of
\* messages, tries, adapters, sub-tasks, runs and changes of files.
THEOREM AnswersStayTrue == ServicesSpec => []AnswersAreTrue
<1>1. CommandSpec => []OutputIsKept
  BY CommandStarts, CommandStep, CommandHolds, PTL DEF CommandSpec
<1>2. WhatsAppSpec => [](SentIsTaken /\ HeardOnce)
  <2>1. WhatsAppInv => SentIsTaken /\ HeardOnce
    BY WhatsAppHolds
  <2> QED
    BY <2>1, WhatsAppStarts, WhatsAppStep, PTL DEF WhatsAppSpec
<1>3. DeliverySpec => []AnswersInTurn
  BY DeliveryStarts, DeliveryStep, DeliveryHolds, PTL DEF DeliverySpec
<1>4. DelegationSpec => []EveryTaskReports
  BY DelegationStarts, DelegationStep, DelegationHolds, PTL DEF DelegationSpec
<1>5. PersonaSpec => []PersonaIsFresh
  BY PersonaStarts, PersonaStep, PersonaHolds, PTL DEF PersonaSpec
<1>6. /\ OutputIsKept /\ SentIsTaken /\ HeardOnce /\ AnswersInTurn /\ EveryTaskReports
      /\ PersonaIsFresh /\ SchemaIsWhole
      => AnswersAreTrue
  BY DEF AnswersAreTrue
<1> QED
  BY <1>1, <1>2, <1>3, <1>4, <1>5, <1>6, SchemaStaysWhole, CommandsAsPart, WhatsAppAsPart,
     DeliveryAsPart, DelegationAsPart, PersonaAsPart, SchemaAsPart, PTL

\* What callers are told keeps its types.
LEMMA AnswersTyped ==
  ServicesSpec => [](/\ CommandTypeOK /\ WhatsAppTypeOK /\ DeliveryTypeOK /\ DelegationTypeOK
                     /\ PersonaTypeOK /\ MigrationTypeOK)
<1>1. CommandSpec => []CommandTypeOK
  BY CommandStarts, CommandStep, CommandHolds, PTL DEF CommandSpec
<1>2. WhatsAppSpec => []WhatsAppTypeOK
  <2>1. WhatsAppInv => WhatsAppTypeOK
    BY WhatsAppHolds
  <2> QED
    BY <2>1, WhatsAppStarts, WhatsAppStep, PTL DEF WhatsAppSpec
<1>3. DeliverySpec => []DeliveryTypeOK
  BY DeliveryStarts, DeliveryStep, DeliveryHolds, PTL DEF DeliverySpec
<1>4. DelegationSpec => []DelegationTypeOK
  BY DelegationStarts, DelegationStep, DelegationHolds, PTL DEF DelegationSpec
<1>5. PersonaSpec => []PersonaTypeOK
  BY PersonaStarts, PersonaStep, PersonaHolds, PTL DEF PersonaSpec
<1>6. MigrationSpec => []MigrationTypeOK
  BY SchemaStarts, SchemaStep, SchemaTypeInit, SchemaTypeStep, PTL DEF MigrationSpec
<1> QED
  BY <1>1, <1>2, <1>3, <1>4, <1>5, <1>6, CommandsAsPart, WhatsAppAsPart, DeliveryAsPart,
     DelegationAsPart, PersonaAsPart, SchemaAsPart, PTL

-----------------------------------------------------------------------------
\* Every variable of the parts that run by themselves keeps its type: with those of the
\* files, the choices and the requests.
THEOREM ServicesTypes == ServicesSpec => []ServicesTypeOK
<1>1. ServicesSpec => [](service \in Services)
  <2>1. ServicesInit => service \in Services
    BY DEF ServicesInit
  <2>2. service \in Services /\ [ServicesNext]_servicesVars => (service \in Services)'
    BY DEF ServicesNext, Others, servicesVars
  <2> QED
    BY <2>1, <2>2, PTL DEF ServicesSpec
<1>2. /\ service \in Services
      /\ LogTypeOK
      /\ ProviderTypeOK /\ SignTypeOK /\ SenderTypeOK /\ SkillTypeOK /\ ProfileTypeOK
      /\ KnowledgeTypeOK
      /\ ToolTypeOK /\ ContextTypeOK
      /\ CommandTypeOK /\ WhatsAppTypeOK /\ DeliveryTypeOK /\ DelegationTypeOK
      /\ PersonaTypeOK /\ MigrationTypeOK
      => ServicesTypeOK
  BY DEF ServicesTypeOK
<1> QED
  BY <1>1, <1>2, FilesTyped, ChoicesTyped, RequestsTyped, AnswersTyped, PTL
=============================================================================
