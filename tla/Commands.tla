------------------------------ MODULE Commands ------------------------------
(***************************************************************************)
(* Commands of the agent: exec (internal/tools/exec.go), which waits for   *)
(* its command, and process_spawn with process_kill                        *)
(* (internal/tools/process_impl.go), which does not.                       *)
(*                                                                         *)
(* A command is a shell, perhaps with a descendant that has its output     *)
(* open, a pipe, and a goroutine that copies the pipe to a buffer (exec)   *)
(* or a file (process_spawn).  Output is a number of bytes; one of the two *)
(* streams is modelled, the other is alike.  A full pipe, and a write to   *)
(* the file that fails, are left out.                                      *)
(***************************************************************************)
EXTENDS Naturals

CONSTANTS
  MaxOutputSize,  \* ExecTool.maxOutputSize
  MaxProduced     \* bytes that a command writes (a bound)

ASSUME CommandsAssumption ==
  MaxOutputSize \in Nat \ {0} /\ MaxProduced \in Nat \ {0}

VARIABLES
  tool,      \* "exec" or "spawn"
  shell,     \* the process: "none", "runs", "exit0", "exit1", "signalled"
  reaped,    \* Wait has the status of the process
  heir,      \* a descendant has the output open
  pipe,      \* bytes in the pipe
  produced,  \* bytes that the command has written
  copier,    \* "none", "copying", "short" (stopped by a short write), "ended"
  kept,      \* bytes in the buffer or file
  deadline,  \* the context of exec: "open", "timeout", "cancel"
  signalled, \* it has killed the shell
  reply,     \* what the caller got
  exitCode,  \* procEntry.ExitCode
  overtaken, \* ghost: Wait has closed a pipe with output in it
  recorded   \* rows of the action log

processVars == <<shell, reaped, heir, pipe, produced>>
copyVars == <<copier, kept, overtaken>>
replyVars == <<tool, reply, exitCode, recorded>>
clockVars == <<deadline, signalled>>
commandVars == <<processVars, copyVars, replyVars, clockVars>>

CommandInit ==
  /\ tool = "none" /\ reply = "none" /\ exitCode = "none" /\ recorded = 0
  /\ shell = "none" /\ reaped = FALSE /\ heir = FALSE /\ pipe = 0 /\ produced = 0
  /\ copier = "none" /\ kept = 0 /\ overtaken = FALSE
  /\ deadline = "open" /\ signalled = FALSE

\* A blocked pattern, no confirmation, a directory outside the roots, an unknown
\* sandbox, a shell that does not start.  exec records all of these but a sandbox
\* that cannot be set up and parameters that cannot be read.
RefuseCommand ==
  /\ tool = "none"
  /\ \/ tool' = "exec" /\ recorded' \in {0, 1}
     \/ tool' = "spawn" /\ UNCHANGED recorded
  /\ reply' = "refused"
  /\ UNCHANGED <<exitCode, processVars, copyVars, clockVars>>

\* The shell starts with a copy of its output.
StartShell(t) ==
  /\ tool = "none"
  /\ tool' = t /\ shell' = "runs" /\ copier' = "copying"
  /\ UNCHANGED <<exitCode, recorded, reaped, heir, pipe, produced, kept, overtaken, clockVars>>

\* In a sandbox or not, under the timeout.
StartExec == StartShell("exec") /\ UNCHANGED reply

\* process_spawn answers at once.
StartSpawn == StartShell("spawn") /\ reply' = "started"

-----------------------------------------------------------------------------
(* The command.                                                            *)

Reader == copier = "copying"

\* A write; when nobody reads any more, it ends its writer.
Output(n) ==
  /\ shell = "runs" \/ heir
  /\ produced + n <= MaxProduced /\ produced' = produced + n
  /\ \/ Reader /\ pipe' = pipe + n /\ UNCHANGED <<shell, heir>>
     \/ ~Reader /\ shell = "runs" /\ shell' = "signalled" /\ UNCHANGED <<pipe, heir>>
     \/ ~Reader /\ heir /\ heir' = FALSE /\ UNCHANGED <<pipe, shell>>
  /\ UNCHANGED <<reaped, copyVars, replyVars, clockVars>>

Fork ==
  /\ shell = "runs" /\ ~heir /\ heir' = TRUE
  /\ UNCHANGED <<shell, reaped, pipe, produced, copyVars, replyVars, clockVars>>

HeirEnds ==
  /\ heir /\ heir' = FALSE
  /\ UNCHANGED <<shell, reaped, pipe, produced, copyVars, replyVars, clockVars>>

ShellExits(status) ==
  /\ shell = "runs" /\ shell' = status
  /\ UNCHANGED <<reaped, heir, pipe, produced, copyVars, replyVars, clockVars>>

-----------------------------------------------------------------------------
(* The copy.                                                               *)

\* Mutant of LimitedWrite: a write that does not fit is dropped.
LimitedWriteAll(n) ==
  IF kept + n > MaxOutputSize THEN [kept |-> kept, whole |-> TRUE]
  ELSE [kept |-> kept + n, whole |-> TRUE]

\* limitedWriter.Write: the write that crosses the limit is cut, and the count it
\* returns says so; those after the limit are dropped and count as written.
LimitedWrite(n) ==
  LET remaining == MaxOutputSize - kept
  IN IF remaining = 0 THEN [kept |-> kept, whole |-> TRUE]
     ELSE IF n > remaining THEN [kept |-> MaxOutputSize, whole |-> FALSE]
     ELSE [kept |-> kept + n, whole |-> TRUE]

\* A read and its write.  io.Copy stops at a short write, and os/exec closes the
\* pipe.
Copy(n) ==
  LET written == IF tool = "exec" THEN LimitedWrite(n) ELSE [kept |-> kept + n, whole |-> TRUE]
  IN /\ Reader /\ n <= pipe
     /\ kept' = written.kept
     /\ copier' = IF written.whole THEN copier ELSE "short"
     /\ pipe' = IF written.whole THEN pipe - n ELSE 0
     /\ UNCHANGED <<shell, reaped, heir, produced, overtaken, replyVars, clockVars>>

\* The end of the output, when nobody has the pipe open for writing.
CopyEnds ==
  /\ Reader /\ shell # "runs" /\ ~heir /\ pipe = 0
  /\ copier' = "ended"
  /\ UNCHANGED <<processVars, kept, overtaken, replyVars, clockVars>>

-----------------------------------------------------------------------------
(* Waiting.                                                                *)

\* The timeout of exec, or its caller's context.
ContextDone(why) ==
  /\ tool = "exec" /\ reply = "none" /\ deadline = "open"
  /\ deadline' = why
  /\ UNCHANGED <<signalled, processVars, copyVars, replyVars>>

\* Mutant of KillShell: a timer kills, not the caller's context.
KillShellAtTimeout ==
  /\ deadline = "timeout" /\ ~signalled /\ ~reaped
  /\ signalled' = TRUE
  /\ shell' = IF shell = "runs" THEN "signalled" ELSE shell
  /\ UNCHANGED <<deadline, reaped, heir, pipe, produced, copyVars, replyVars>>

\* exec.CommandContext kills the shell, and it alone.  One that has exited keeps
\* its status, waited for or not.
KillShell ==
  /\ deadline # "open" /\ ~signalled /\ ~reaped
  /\ signalled' = TRUE
  /\ shell' = IF shell = "runs" THEN "signalled" ELSE shell
  /\ UNCHANGED <<deadline, reaped, heir, pipe, produced, copyVars, replyVars>>

\* Wait has the status.  For process_spawn it then closes the pipes, whether or not
\* the copies have read them.
Reap ==
  /\ shell \notin {"none", "runs"} /\ ~reaped /\ reaped' = TRUE
  /\ \/ tool = "exec" /\ UNCHANGED <<pipe, copyVars>>
     \/ /\ tool = "spawn" /\ pipe' = 0
        /\ copier' = "ended" /\ UNCHANGED kept
        /\ overtaken' = (Reader /\ (pipe > 0 \/ heir))
  /\ UNCHANGED <<shell, heir, produced, replyVars, clockVars>>

\* What Run returns: a bad status, else the context's error if the kill was sent,
\* else that of the copy.
RunError ==
  IF shell # "exit0" THEN "status"
  ELSE IF signalled THEN "context" ELSE IF copier = "short" THEN "copy" ELSE "none"

\* runCommand: the output, with or without a status, or nothing but an error.
ReplyOfRun ==
  IF RunError \in {"none", "status"} THEN "text"
  ELSE IF deadline = "timeout" THEN "expired" ELSE "lost"

\* Run waits for the process and for the copies.
ExecReturns ==
  /\ tool = "exec" /\ reply = "none" /\ reaped /\ ~Reader
  /\ reply' = ReplyOfRun /\ recorded' = 1
  /\ UNCHANGED <<tool, exitCode, processVars, copyVars, clockVars>>

\* The goroutine of process_spawn keeps the status.
RecordExit ==
  /\ tool = "spawn" /\ reaped /\ exitCode = "none"
  /\ exitCode' = shell
  /\ UNCHANGED <<tool, reply, recorded, processVars, copyVars, clockVars>>

\* process_kill.  A process that was waited for is an error.
KillTool ==
  /\ tool = "spawn" /\ shell = "runs" /\ shell' = "signalled"
  /\ UNCHANGED <<reaped, heir, pipe, produced, copyVars, replyVars, clockVars>>

WaitSteps == KillShell \/ CopyEnds \/ Reap \/ ExecReturns \/ RecordExit \/ \E n \in 1..MaxProduced : Copy(n)

CommandNext ==
  \/ RefuseCommand
  \/ StartExec
  \/ StartSpawn
  \/ \E n \in 1..2 : Output(n)
  \/ Fork
  \/ HeirEnds
  \/ \E status \in {"exit0", "exit1"} : ShellExits(status)
  \/ \E why \in {"timeout", "cancel"} : ContextDone(why)
  \/ WaitSteps
  \/ KillTool

\* The goroutines of os/exec and of process_spawn go on; a command need not end.
CommandFairness == WF_commandVars(WaitSteps)

CommandSpec == CommandInit /\ [][CommandNext]_commandVars /\ CommandFairness

-----------------------------------------------------------------------------
CommandTypeOK ==
  /\ tool \in {"none", "exec", "spawn"}
  /\ shell \in {"none", "runs", "exit0", "exit1", "signalled"}
  /\ exitCode \in {"none", "exit0", "exit1", "signalled"}
  /\ {reaped, heir, overtaken, signalled} \subseteq BOOLEAN
  /\ {pipe, produced, kept} \subseteq 0..MaxProduced
  /\ copier \in {"none", "copying", "short", "ended"}
  /\ deadline \in {"open", "timeout", "cancel"}
  /\ reply \in {"none", "refused", "started", "text", "expired", "lost"}
  /\ recorded \in {0, 1}

\* What a command wrote is in the answer of exec, up to the limit, however it ended;
\* an answer without any output means that there was more than the limit, or that the
\* caller had gone.  The file of process_spawn has everything unless the wait for the
\* process overtook the copy.
OutputIsKept ==
  /\ reply \in {"text", "expired"} =>
       kept = IF produced > MaxOutputSize THEN MaxOutputSize ELSE produced
  /\ reply = "lost" => produced > MaxOutputSize \/ deadline = "cancel"
  /\ tool = "spawn" /\ copier = "ended" /\ ~overtaken => kept = produced

\* exec returns once its context is done, unless a descendant of the shell, which
\* nobody kills, has the output open: "Wall-clock limit per command" (timeout in
\* docs/configuration.md) is a limit on the shell alone.
CommandEnds ==
  (tool = "exec" /\ deadline # "open") ~> (reply # "none" \/ (heir /\ shell # "runs"))
=============================================================================
