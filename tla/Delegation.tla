------------------------------ MODULE Delegation ------------------------------
(***************************************************************************)
(* Agent.Delegate (internal/agent/delegation.go): sub-tasks in goroutines  *)
(* behind a semaphore, a timeout over all of them, and the synthesis of    *)
(* their results.                                                          *)
(*                                                                         *)
(* What a sub-task does in its loop is ToolLoop's business (mode "sub"):   *)
(* here it ends with an answer or with an error.                           *)
(***************************************************************************)
EXTENDS Naturals, FiniteSets

CONSTANTS
  NumSubTasks,  \* tasks that are not blank
  MaxParallel   \* capacity of the semaphore

ASSUME DelegationAssumption == {NumSubTasks, MaxParallel} \subseteq Nat \ {0}

SubTasks == 1..NumSubTasks

VARIABLES
  phase,     \* of Delegate: "idle", "spawning", "waiting", "synthesis", "over"
  sub,       \* where each goroutine is
  result,    \* the results, "none" until written
  inUse,     \* permits taken from the semaphore
  expired,   \* runCtx is done: the timeout, or the caller has gone
  verdict    \* what Delegate returned

delegationVars == <<phase, sub, result, inUse, expired, verdict>>

DelegationInit ==
  /\ phase = "idle" /\ verdict = "none"
  /\ sub = [t \in SubTasks |-> "new"] /\ result = [t \in SubTasks |-> "none"]
  /\ inUse = 0 /\ expired = FALSE

Return(v) == phase' = "over" /\ verdict' = v

\* Without a provider, an objective or a task nothing is started.
Delegate ==
  /\ phase = "idle"
  /\ \/ phase' = "spawning" /\ UNCHANGED verdict
     \/ Return("error")
  /\ UNCHANGED <<sub, result, inUse, expired>>

\* The loop starts the goroutines in order; the first may be done before the last
\* is started.
SpawnSub(t) ==
  /\ phase = "spawning" /\ sub[t] = "new"
  /\ \A u \in SubTasks : u < t => sub[u] # "new"
  /\ sub' = [sub EXCEPT ![t] = "queued"]
  /\ phase' = IF \A u \in SubTasks : u <= t THEN "waiting" ELSE phase
  /\ UNCHANGED <<result, inUse, expired, verdict>>

AcquirePermit(t) ==
  /\ sub[t] = "queued" /\ inUse < MaxParallel
  /\ inUse' = inUse + 1
  /\ sub' = [sub EXCEPT ![t] = "running"]
  /\ UNCHANGED <<phase, result, expired, verdict>>

\* A goroutine that never got its permit has none to give back.
GiveUpWaiting(t) ==
  /\ sub[t] = "queued" /\ expired
  /\ result' = [result EXCEPT ![t] = "error"]
  /\ sub' = [sub EXCEPT ![t] = "released"]
  /\ UNCHANGED <<phase, inUse, expired, verdict>>

\* Mutant of Reported: a failure leaves before its result is written.
ReportedAnswers(t, r) == IF r = "answer" THEN [result EXCEPT ![t] = r] ELSE result

Reported(t, r) == [result EXCEPT ![t] = r]

SubEnds(t, r) ==
  /\ sub[t] = "running"
  /\ result' = Reported(t, r)
  /\ sub' = [sub EXCEPT ![t] = "reported"]
  /\ UNCHANGED <<phase, inUse, expired, verdict>>

\* The timeout ends runCtx and nothing else: a tool that does not look at it (an MCP
\* server that keeps silent) keeps its sub-task for as long as it likes.
SubHangs(t) ==
  /\ sub[t] = "running"
  /\ sub' = [sub EXCEPT ![t] = "stuck"]
  /\ UNCHANGED <<phase, result, inUse, expired, verdict>>

SubReturns(t, r) ==
  /\ sub[t] = "stuck"
  /\ result' = Reported(t, r)
  /\ sub' = [sub EXCEPT ![t] = "reported"]
  /\ UNCHANGED <<phase, inUse, expired, verdict>>

\* The deferred calls, last first: the permit,
ReleasePermit(t) ==
  /\ sub[t] = "reported"
  /\ inUse' = inUse - 1
  /\ sub' = [sub EXCEPT ![t] = "released"]
  /\ UNCHANGED <<phase, result, expired, verdict>>

\* then the wait group.
SubDone(t) ==
  /\ sub[t] = "released"
  /\ sub' = [sub EXCEPT ![t] = "done"]
  /\ UNCHANGED <<phase, result, inUse, expired, verdict>>

Expire ==
  /\ phase \notin {"idle", "over"} /\ ~expired
  /\ expired' = TRUE
  /\ UNCHANGED <<phase, sub, result, inUse, verdict>>

\* wg.Wait returns.  What is there is thrown away if the timeout has come.
Gather ==
  /\ phase = "waiting" /\ \A t \in SubTasks : sub[t] = "done"
  /\ IF ~expired /\ \E t \in SubTasks : result[t] = "answer"
     THEN phase' = "synthesis" /\ UNCHANGED verdict
     ELSE Return("error")
  /\ UNCHANGED <<sub, result, inUse, expired>>

Synthesise ==
  /\ phase = "synthesis"
  /\ Return("error") \/ Return("answer")
  /\ UNCHANGED <<sub, result, inUse, expired>>

SubNext(t) ==
  \/ SpawnSub(t)
  \/ AcquirePermit(t)
  \/ GiveUpWaiting(t)
  \/ \E r \in {"answer", "error"} : SubEnds(t, r)
  \/ ReleasePermit(t)
  \/ SubDone(t)

DelegationNext ==
  \/ Delegate
  \/ \E t \in SubTasks : SubNext(t) \/ SubHangs(t)
  \/ \E t \in SubTasks, r \in {"answer", "error"} : SubReturns(t, r)
  \/ Expire
  \/ Gather
  \/ Synthesise

\* Goroutines go on; the synthesis returns, and so do sub-tasks that are not inside a
\* tool that ignores the context (ToolLoop: for certain when the context is done, which
\* the timeout sees to).  Nothing makes one that is return (SubReturns).
DelegationFairness ==
  /\ \A t \in SubTasks : WF_delegationVars(SubNext(t))
  /\ WF_delegationVars(Gather \/ Synthesise)

DelegationSpec == DelegationInit /\ [][DelegationNext]_delegationVars /\ DelegationFairness

-----------------------------------------------------------------------------
DelegationTypeOK ==
  /\ phase \in {"idle", "spawning", "waiting", "synthesis", "over"}
  /\ sub \in [SubTasks -> {"new", "queued", "running", "stuck", "reported", "released", "done"}]
  /\ result \in [SubTasks -> {"none", "answer", "error"}]
  /\ inUse \in 0..MaxParallel /\ expired \in BOOLEAN
  /\ verdict \in {"none", "answer", "error"}

\* "A failed sub-task is reported as an error in the aggregated results rather than
\* blocking the whole delegation": the synthesis sees a result of every task, and
\* no permit or goroutine is left when Delegate returns, timeout or not.
EveryTaskReports ==
  /\ inUse = Cardinality({t \in SubTasks : sub[t] \in {"running", "stuck", "reported"}})
  /\ phase \in {"synthesis", "over"} /\ sub[1] # "new" =>
       \A t \in SubTasks : sub[t] = "done" /\ result[t] # "none"
  /\ verdict = "answer" => \E t \in SubTasks : result[t] = "answer"

\* A delegation ends without the help of its timeout, however many tasks queue for
\* the semaphore, unless a tool that ignores the context holds one of them.
DelegationEnds ==
  (phase = "spawning") ~> (phase = "over" \/ \E t \in SubTasks : sub[t] = "stuck")
=============================================================================
