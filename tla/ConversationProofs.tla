-------------------------- MODULE ConversationProofs --------------------------
(***************************************************************************)
(* The proofs about conversations.  First, that every run of a chat can be *)
(* aborted until it ends: it needs little of the types, only that what is  *)
(* registered is a turn and a turn that has begun has a session.  Then,    *)
(* that the mark of a session stands for exactly one compaction of it.     *)
(* On top of both the types of the whole state, and what compactions do to *)
(* the history of a session.                                               *)
(***************************************************************************)
EXTENDS Conversation, FiniteSetTheorems, WellFoundedInduction, TLAPS

Turn == [step : TurnSteps, session : Sessions \cup {None}, stamp : Nat]

RunTypes ==
  /\ turn \in [Turns -> Turn]
  /\ activeRuns \in [Sessions -> Turns \cup {None}] /\ aborting \subseteq Turns
  /\ cached \in Sessions \cup {None}
  /\ live \subseteq Sessions
  /\ clock \in Nat

Begun(t) == turn[t].step \notin {"ready", "done"}

BegunHasSession == \A t \in Turns : Begun(t) => turn[t].session \in Sessions

RunInv == RunTypes /\ BegunHasSession /\ RunsCanBeAborted

LEMMA NoneIsNoTurn == None \notin Turns /\ None \notin Sessions /\ Chats \subseteq Turns
BY ConversationAssumption DEF Turns

\* What moving one turn does: the others stay where they are, and the turn keeps
\* its session.
Moved(t, step) ==
  /\ turn' \in [Turns -> Turn]
  /\ \A u \in Turns \ {t} : turn'[u] = turn[u]
  /\ turn'[t].step = step
  /\ step # "done" => turn'[t].session = turn[t].session

LEMMA GotoMoves ==
  ASSUME RunTypes, NEW t \in Turns, NEW step \in TurnSteps, NEW stamp \in Nat,
         Goto(t, step, stamp)
  PROVE  Moved(t, step)
<1> DEFINE new == [step |-> step, session |-> turn[t].session, stamp |-> stamp]
<1>1. turn' = [turn EXCEPT ![t] = new]
  BY DEF Goto
<1>2. turn \in [Turns -> Turn] /\ turn[t] \in Turn
  BY DEF RunTypes
<1>3. new \in Turn /\ new.step = step /\ new.session = turn[t].session
  BY <1>2 DEF Turn
<1> HIDE DEF new
<1> QED
  BY <1>1, <1>2, <1>3 DEF Moved

LEMMA OverMoves ==
  ASSUME RunTypes, NEW t \in Turns, Over(t)
  PROVE  Moved(t, "done")
<1>1. turn' = [turn EXCEPT ![t] = Done]
  BY DEF Over
<1>2. turn \in [Turns -> Turn] /\ Done \in Turn /\ Done.step = "done"
  BY DEF RunTypes, Done, Turn, TurnSteps
<1> HIDE DEF Done
<1> QED
  BY <1>1, <1>2 DEF Moved

LEMMA CloseMoves ==
  ASSUME RunTypes, NEW t \in Turns, Close(t)
  PROVE  Moved(t, "clear") \/ Moved(t, "done")
BY GotoMoves, OverMoves DEF Close, TurnSteps

\* A turn that begins is not registered yet.
LEMMA BeginBegins ==
  ASSUME RunTypes, NEW t \in Turns, NEW s \in Sessions, Begin(t, s)
  PROVE  /\ turn' \in [Turns -> Turn]
         /\ \A u \in Turns \ {t} : turn'[u] = turn[u]
         /\ turn'[t].step = "stamp" /\ turn'[t].session = s
<1> DEFINE new == [step |-> "stamp", session |-> s, stamp |-> 0]
<1>1. turn' = [turn EXCEPT ![t] = new]
  BY DEF Begin
<1>2. turn \in [Turns -> Turn] /\ new \in Turn /\ new.step = "stamp" /\ new.session = s
  BY DEF RunTypes, Turn, TurnSteps
<1> HIDE DEF new
<1> QED
  BY <1>1, <1>2

\* A step that leaves the registry alone and takes one turn from one place to
\* another, unless it takes a chat among the registered ones.
LEMMA MovePreserves ==
  ASSUME RunInv, NEW t \in Turns, NEW step, Moved(t, step),
         UNCHANGED runs,
         cached' \in Sessions \cup {None}, live' \subseteq Sessions, clock' \in Nat,
         step # "done" => Begun(t),
         t \in Chats /\ Registered(t)' => Registered(t)
  PROVE  RunInv'
<1>1. RunTypes'
  BY DEF RunInv, RunTypes, Moved, runs
<1>2. BegunHasSession'
  <2> SUFFICES ASSUME NEW u \in Turns, Begun(u)' PROVE turn'[u].session \in Sessions
    BY DEF BegunHasSession
  <2> QED
    BY DEF RunInv, BegunHasSession, Begun, Moved
<1>3. RunsCanBeAborted'
  <2> SUFFICES ASSUME NEW u \in Chats, Registered(u)'
               PROVE  u \in cancelled \cup aborting \/ activeRuns[turn'[u].session] = u
    BY DEF RunsCanBeAborted, runs
  <2>1. u \in Turns
    BY NoneIsNoTurn
  <2>2. Registered(u) /\ turn'[u].session = turn[u].session
    BY <2>1 DEF Registered, Moved
  <2> QED
    BY <2>2 DEF RunInv, RunsCanBeAborted
<1> QED
  BY <1>1, <1>2, <1>3 DEF RunInv

LEMMA BeginPreserves ==
  ASSUME RunInv, NEW t \in Turns, NEW s \in Sessions, Begin(t, s),
         UNCHANGED <<runs, clock>>,
         cached' \in Sessions \cup {None}, live' \subseteq Sessions
  PROVE  RunInv'
<1>1. /\ turn' \in [Turns -> Turn]
      /\ \A u \in Turns \ {t} : turn'[u] = turn[u]
      /\ turn'[t].step = "stamp" /\ turn'[t].session = s
  BY BeginBegins DEF RunInv
<1> QED
  BY <1>1, NoneIsNoTurn
  DEF RunInv, RunTypes, BegunHasSession, Begun, RunsCanBeAborted, Registered, runs

\* A step that touches neither the turns nor the registry.
LEMMA ElsewherePreserves ==
  ASSUME RunInv, UNCHANGED <<turn, runs>>,
         cached' \in Sessions \cup {None}, live' \subseteq Sessions, clock' \in Nat
  PROVE  RunInv'
BY DEF RunInv, RunTypes, BegunHasSession, Begun, RunsCanBeAborted, Registered, runs

-----------------------------------------------------------------------------
\* Entering the registry: the run that was there is cancelled.
LEMMA RegisterPreserves ==
  ASSUME RunInv, NEW t \in Turns, Register(t)
  PROVE  RunInv'
<1> DEFINE s == turn[t].session
<1>1. Moved(t, "assemble") /\ s \in Sessions /\ UNCHANGED <<cached, live, clock, aborting>>
  BY GotoMoves
  DEF RunInv, Register, At, BegunHasSession, Begun, TurnSteps, database
<1>2. /\ activeRuns' = [activeRuns EXCEPT ![s] = t]
      /\ cancelled' = IF activeRuns[s] = None THEN cancelled
                      ELSE cancelled \cup {activeRuns[s]}
      /\ turn[t].step = "register"
  BY DEF Register, At
<1>3. activeRuns \in [Sessions -> Turns \cup {None}]
  BY DEF RunInv, RunTypes
<1>4. RunTypes'
  BY <1>1, <1>2, <1>3 DEF RunInv, RunTypes, Moved
<1>5. BegunHasSession'
  BY <1>1 DEF RunInv, BegunHasSession, Begun, Moved
<1>6. RunsCanBeAborted'
  <2> SUFFICES ASSUME NEW u \in Chats, Registered(u)'
               PROVE  u \in cancelled' \cup aborting' \/ activeRuns'[turn'[u].session] = u
    BY DEF RunsCanBeAborted
  <2>1. CASE u = t
    BY <1>1, <1>2, <1>3, <2>1 DEF Moved
  <2>2. CASE u # t
    <3>1. u \in Turns /\ u # None /\ turn'[u] = turn[u] /\ Registered(u)
      BY <1>1, <2>2, NoneIsNoTurn DEF Moved, Registered
    <3>2. u \in cancelled \cup aborting \/ activeRuns[turn[u].session] = u
      BY <3>1 DEF RunInv, RunsCanBeAborted
    <3>3. turn[u].session \in Sessions
      BY <3>1 DEF RunInv, BegunHasSession, Begun, Registered
    <3>4. CASE u \in cancelled \cup aborting
      BY <1>1, <1>2, <3>4
    <3>5. CASE activeRuns[turn[u].session] = u /\ turn[u].session = s
      BY <1>2, <3>1, <3>5
    <3>6. CASE activeRuns[turn[u].session] = u /\ turn[u].session # s
      BY <1>2, <1>3, <3>1, <3>3, <3>6
    <3> QED
      BY <3>2, <3>4, <3>5, <3>6
  <2> QED
    BY <2>1, <2>2
<1> QED
  BY <1>4, <1>5, <1>6 DEF RunInv

\* Leaving it: only the turn's own entry goes.
LEMMA ClearPreserves ==
  ASSUME RunInv, NEW t \in Turns, Clear(t)
  PROVE  RunInv'
<1>1. Moved(t, "done") /\ UNCHANGED <<cached, live, clock, aborting>>
  BY OverMoves DEF RunInv, Clear, database
<1>2. /\ activeRuns' = [s \in Sessions |-> IF activeRuns[s] = t THEN None ELSE activeRuns[s]]
      /\ cancelled' = cancelled \ {t}
  BY DEF Clear, Cleared
<1>3. RunTypes'
  BY <1>1, <1>2 DEF RunInv, RunTypes, Moved
<1>4. BegunHasSession'
  BY <1>1 DEF RunInv, BegunHasSession, Begun, Moved
<1>5. RunsCanBeAborted'
  <2> SUFFICES ASSUME NEW u \in Chats, Registered(u)'
               PROVE  u \in cancelled' \cup aborting' \/ activeRuns'[turn'[u].session] = u
    BY DEF RunsCanBeAborted
  <2>1. u # t /\ u \in Turns /\ turn'[u] = turn[u] /\ Registered(u)
    BY <1>1, NoneIsNoTurn DEF Moved, Registered
  <2>2. turn[u].session \in Sessions
    BY <2>1 DEF RunInv, BegunHasSession, Begun, Registered
  <2>3. u \in cancelled \cup aborting \/ activeRuns[turn[u].session] = u
    BY <2>1 DEF RunInv, RunsCanBeAborted
  <2> QED
    BY <1>1, <1>2, <2>1, <2>2, <2>3
<1> QED
  BY <1>3, <1>4, <1>5 DEF RunInv

LEMMA AbortPreserves ==
  ASSUME RunInv, NEW s \in Sessions, Abort(s)
  PROVE  RunInv'
<1>1. /\ activeRuns' = [activeRuns EXCEPT ![s] = None]
      /\ aborting' = aborting \cup {activeRuns[s]} /\ activeRuns[s] # None
      /\ UNCHANGED <<turn, cancelled, cached, live, clock>>
  BY DEF Abort, database
<1>2. RunTypes' /\ BegunHasSession'
  BY <1>1 DEF RunInv, RunTypes, BegunHasSession, Begun
<1>3. RunsCanBeAborted'
  <2> SUFFICES ASSUME NEW u \in Chats, Registered(u)
               PROVE  u \in cancelled \cup aborting' \/ activeRuns'[turn[u].session] = u
    BY <1>1 DEF RunsCanBeAborted, Registered
  <2>1. u \in cancelled \cup aborting \/ activeRuns[turn[u].session] = u
    BY DEF RunInv, RunsCanBeAborted
  <2>2. turn[u].session \in Sessions /\ activeRuns \in [Sessions -> Turns \cup {None}]
    BY NoneIsNoTurn DEF RunInv, RunTypes, BegunHasSession, Begun, Registered
  <2> QED
    BY <1>1, <2>1, <2>2
<1> QED
  BY <1>2, <1>3 DEF RunInv

\* Who was about to be cancelled is, unless it is over.
LEMMA CancelPreserves ==
  ASSUME RunInv, NEW t \in Turns, CancelAborted(t)
  PROVE  RunInv'
<1>1. /\ aborting' = aborting \ {t}
      /\ cancelled' = IF turn[t].step = "done" THEN cancelled ELSE cancelled \cup {t}
      /\ UNCHANGED <<turn, activeRuns, cached, live, clock>>
  BY DEF CancelAborted, At, database
<1>2. RunTypes' /\ BegunHasSession'
  BY <1>1 DEF RunInv, RunTypes, BegunHasSession, Begun
<1>3. RunsCanBeAborted'
  BY <1>1 DEF RunInv, RunsCanBeAborted, Registered
<1> QED
  BY <1>2, <1>3 DEF RunInv

LEMMA CrashPreserves ==
  ASSUME RunInv, Crash
  PROVE  RunInv'
<1>1. /\ turn' = [t \in Turns |-> IF At(t, "ready") THEN Ready ELSE Done]
      /\ activeRuns' = [s \in Sessions |-> None] /\ aborting' = {}
      /\ cached' = None /\ UNCHANGED <<live, clock>>
  BY DEF Crash, database
<1>2. /\ Ready \in Turn /\ Ready.step = "ready"
      /\ Done \in Turn /\ Done.step = "done"
  BY DEF Ready, Done, Turn, TurnSteps
<1>3. \A t \in Turns : turn'[t] \in Turn /\ turn'[t].step \in {"ready", "done"}
  BY <1>1, <1>2
<1>4. RunTypes'
  BY <1>1, <1>2 DEF RunInv, RunTypes
<1>5. BegunHasSession' /\ RunsCanBeAborted'
  BY <1>3, NoneIsNoTurn DEF BegunHasSession, Begun, RunsCanBeAborted, Registered
<1> QED
  BY <1>4, <1>5 DEF RunInv

-----------------------------------------------------------------------------
LEMMA BeginningPreserves ==
  ASSUME RunInv, NEW t \in Turns, Chat(t) \/ Receive(t) \/ Inject(t)
  PROVE  RunInv'
<1>1. CASE Chat(t)
  <2>1. PICK s \in Sessions : /\ UNCHANGED <<live, created>> \/ NewSession(s)
                              /\ Begin(t, s)
    BY <1>1 DEF Chat
  <2>2. live' \subseteq Sessions
    BY <2>1 DEF NewSession, RunInv, RunTypes
  <2> QED
    BY <1>1, <2>1, <2>2, BeginPreserves DEF Chat, RunInv, RunTypes
<1>2. CASE Receive(t)
  <2>1. CASE cached # None /\ Begin(t, cached) /\ UNCHANGED <<live, created, cached>>
    BY <1>2, <2>1, BeginPreserves DEF Receive, RunInv, RunTypes
  <2>2. ASSUME NEW s \in Sessions, NewSession(s), cached' = s, Begin(t, s)
        PROVE  RunInv'
    <3>1. live' \subseteq Sessions
      BY <2>2 DEF NewSession, RunInv, RunTypes
    <3> QED
      BY <1>2, <2>2, <3>1, BeginPreserves DEF Receive
  <2> QED
    BY <1>2, <2>1, <2>2 DEF Receive
<1>3. CASE Inject(t)
  BY <1>3, BeginPreserves DEF Inject, RunInv, RunTypes, database
<1> QED
  BY <1>1, <1>2, <1>3

LEMMA TurnStepPreserves ==
  ASSUME RunInv, NEW t \in Turns, TurnStep(t)
  PROVE  RunInv'
<1> USE DEF RunInv, At
<1>0. RunTypes /\ clock \in Nat
  BY DEF RunTypes
<1>1. CASE Stamp(t)
  <2>1. /\ clock' = clock + 1 /\ UNCHANGED <<runs, cached, live>>
        /\ turn[t].step \in {"stamp", "stampAnswer"}
        /\ Goto(t, IF At(t, "stamp") THEN "insert" ELSE "insertAnswer", clock + 1)
    BY <1>1 DEF Stamp, database
  <2>2. CASE turn[t].step = "stamp"
    <3>1. Moved(t, "insert")
      BY <1>0, <2>1, <2>2, GotoMoves DEF TurnSteps
    <3> QED
      BY <1>0, <2>1, <2>2, <3>1, MovePreserves DEF RunTypes, Begun, Registered, Moved
  <2>3. CASE turn[t].step = "stampAnswer"
    <3>1. Moved(t, "insertAnswer")
      BY <1>0, <2>1, <2>3, GotoMoves DEF TurnSteps
    <3> QED
      BY <1>0, <2>1, <2>3, <3>1, MovePreserves DEF RunTypes, Begun, Registered, Moved
  <2> QED
    BY <2>1, <2>2, <2>3
<1>2. CASE Insert(t)
  <2>1. /\ UNCHANGED <<runs, cached, live, clock>>
        /\ turn[t].step = "insert"
    BY <1>2 DEF Insert
  <2>2. \/ Over(t)
        \/ Goto(t, IF t \in Chats THEN "register" ELSE "assemble", 0)
    BY <1>2, Zenon DEF Insert
  <2>3. \/ Moved(t, "done")
        \/ t \in Chats /\ Moved(t, "register")
        \/ t \notin Chats /\ Moved(t, "assemble")
    BY <1>0, <2>2, GotoMoves, OverMoves DEF TurnSteps
  <2> QED
    BY <1>0, <2>1, <2>3, MovePreserves DEF RunTypes, Begun, Registered, Moved
<1>3. CASE InsertAnswer(t)
  <2>1. /\ UNCHANGED <<runs, cached, live, clock>>
        /\ turn[t].step = "insertAnswer"
        /\ Moved(t, "clear") \/ Moved(t, "done")
    BY <1>0, <1>3, CloseMoves DEF InsertAnswer
  <2> QED
    BY <1>0, <2>1, MovePreserves DEF RunTypes, Begun, Registered, Moved
<1>4. CASE Register(t)
  BY <1>4, RegisterPreserves
<1>5. CASE Clear(t)
  BY <1>5, ClearPreserves
<1>6. CASE Assemble(t)
  <2>1. /\ UNCHANGED <<runs, cached, live, clock>>
        /\ turn[t].step = "assemble"
        /\ Close(t) \/ Goto(t, "stampAnswer", 0) \/ Goto(t, "ask", 0)
    BY <1>6 DEF Assemble, database
  <2>2. \/ Moved(t, "clear") \/ Moved(t, "done")
        \/ Moved(t, "stampAnswer") \/ Moved(t, "ask")
    BY <1>0, <2>1, CloseMoves, GotoMoves DEF TurnSteps
  <2> QED
    BY <1>0, <2>1, <2>2, MovePreserves DEF RunTypes, Begun, Registered, Moved
<1>7. CASE Answer(t)
  <2>1. /\ UNCHANGED <<runs, cached, live, clock>>
        /\ turn[t].step = "ask"
        /\ Close(t) \/ Goto(t, "stampAnswer", 0)
    BY <1>7 DEF Answer, database
  <2>2. Moved(t, "clear") \/ Moved(t, "done") \/ Moved(t, "stampAnswer")
    BY <1>0, <2>1, CloseMoves, GotoMoves DEF TurnSteps
  <2> QED
    BY <1>0, <2>1, <2>2, MovePreserves DEF RunTypes, Begun, Registered, Moved
<1> QED
  BY <1>1, <1>2, <1>3, <1>4, <1>5, <1>6, <1>7 DEF TurnStep

LEMMA OtherStepsPreserve ==
  ASSUME RunInv,
         \/ \E k \in Compactors : CompactStep(k)
         \/ \E k \in ByHand, s \in Sessions : ForceCompaction(k, s)
         \/ \E s \in Sessions : Delete(s)
         \/ UNCHANGED vars
  PROVE  RunInv'
<1>1. cached \in Sessions \cup {None} /\ live \subseteq Sessions /\ clock \in Nat
  BY DEF RunInv, RunTypes
<1>2. ASSUME NEW k \in Compactors, CompactStep(k)
      PROVE  /\ UNCHANGED <<turn, runs, cached, live>>
             /\ clock' = clock \/ clock' = clock + 1
  BY <1>2
  DEF CompactStep, CompactRead, CompactAsk, CompactInsert, CompactArchive,
      untouchedByCompaction
<1>3. ASSUME NEW s \in Sessions, Delete(s)
      PROVE  /\ UNCHANGED <<turn, runs, cached, clock>>
             /\ live' \subseteq live
  BY <1>3 DEF Delete
<1>5. ASSUME NEW k \in ByHand, NEW s \in Sessions, ForceCompaction(k, s)
      PROVE  UNCHANGED <<turn, runs, cached, live, clock>>
  BY <1>5 DEF ForceCompaction, database
<1>4. CASE UNCHANGED vars
  BY <1>1, <1>4, ElsewherePreserves DEF vars, database
<1> QED
  BY <1>1, <1>2, <1>3, <1>4, <1>5, ElsewherePreserves

LEMMA RunInit == Init => RunInv
<1> SUFFICES ASSUME Init PROVE RunInv
  OBVIOUS
<1>1. turn = [t \in Turns |-> Ready] /\ Ready \in Turn /\ Ready.step = "ready"
  BY DEF Init, Ready, Turn, TurnSteps
<1>2. RunTypes
  BY <1>1 DEF Init, RunTypes
<1> QED
  BY <1>1, <1>2, NoneIsNoTurn
  DEF RunInv, BegunHasSession, Begun, RunsCanBeAborted, Registered

LEMMA RunStep == RunInv /\ [Next]_vars => RunInv'
<1> SUFFICES ASSUME RunInv, [Next]_vars PROVE RunInv'
  OBVIOUS
<1>1. ASSUME NEW t \in Turns, Chat(t) \/ Receive(t) \/ Inject(t) PROVE RunInv'
  BY <1>1, BeginningPreserves
<1>2. ASSUME NEW t \in Turns, TurnStep(t) PROVE RunInv'
  BY <1>2, TurnStepPreserves
<1>3. ASSUME NEW s \in Sessions, Abort(s) PROVE RunInv'
  BY <1>3, AbortPreserves
<1>4. CASE Crash
  BY <1>4, CrashPreserves
<1>5. ASSUME NEW t \in Turns, CancelAborted(t) PROVE RunInv'
  BY <1>5, CancelPreserves
<1> QED
  BY <1>1, <1>2, <1>3, <1>4, <1>5, OtherStepsPreserve DEF Next, Turns

\* Whatever requests of a session come, replace each other, are aborted and end:
\* a run in progress that no abort has taken and nobody has cancelled is the one
\* an abort reaches
\* (registerActiveRun, clearActiveRun, abortActiveRun).
THEOREM AbortReachesRuns == Spec => []RunsCanBeAborted
<1>1. RunInv => RunsCanBeAborted
  BY DEF RunInv
<1> QED
  BY <1>1, RunInit, RunStep, PTL DEF Spec

-----------------------------------------------------------------------------
(***************************************************************************)
(* The marks of compactions.                                               *)
(***************************************************************************)
Compacting(k) == comp[k].session # None

\* A compaction is off or has a session; those that turns have set off have a marked
\* session each, and every mark one of them.
MarkInv ==
  /\ DOMAIN comp = Compactors
  /\ inFlight \subseteq Sessions
  /\ \A k \in Compactors : Compacting(k) => comp[k].session \in Sessions
  /\ \A k \in Compactors : Compacting(k) <=> comp[k].step # "off"
  /\ \A k \in Background : Compacting(k) => comp[k].session \in inFlight
  /\ \A j, k \in Background :
       Compacting(j) /\ comp[j].session = comp[k].session => j = k
  /\ \A s \in inFlight : \E k \in Background : comp[k].session = s

LEMMA BackgroundCompacts == Background \subseteq Compactors /\ ByHand \subseteq Compactors
BY ConversationAssumption DEF Background

LEMMA MarkInvCounts == MarkInv => MarksMatchCompactions
<1> SUFFICES ASSUME MarkInv, NEW s \in Sessions
             PROVE  Cardinality({k \in Background : comp[k].session = s})
                      = IF s \in inFlight THEN 1 ELSE 0
  BY DEF MarksMatchCompactions
<1> DEFINE of == {k \in Background : comp[k].session = s}
<1>0. s # None
  BY NoneIsNoTurn
<1>1. CASE s \in inFlight
  <2>1. PICK k \in Background : comp[k].session = s
    BY <1>1 DEF MarkInv
  <2>2. of = {k}
    BY <1>0, <2>1 DEF MarkInv, Compacting
  <2> QED
    BY <1>1, <2>2, FS_Singleton
<1>2. CASE s \notin inFlight
  <2>1. of = {}
    BY <1>0, <1>2 DEF MarkInv, Compacting
  <2> QED
    BY <1>2, <2>1, FS_EmptySet
<1> QED
  BY <1>1, <1>2

\* What starts a compaction,
LEMMA StartsOff ==
  ASSUME MarkInv, NEW k \in Compactors, NEW s \in Sessions, StartCompaction(k, s)
  PROVE  /\ ~Compacting(k)
         /\ DOMAIN comp' = Compactors
         /\ comp'[k].session = s /\ comp'[k].step = "read"
         /\ \A j \in Compactors \ {k} : comp'[j] = comp[j]
         /\ \A j \in Compactors :
              /\ comp'[j].session # None => comp'[j].session \in Sessions
              /\ comp'[j].session # None <=> comp'[j].step # "off"
<1> DEFINE new == [step |-> "read", session |-> s, old |-> {}, last |-> 0, stamp |-> 0]
<1>1. comp[k] = Off /\ comp' = [comp EXCEPT ![k] = new]
  BY Zenon DEF StartCompaction
<1>2. ~Compacting(k) /\ s # None /\ new.session = s /\ new.step = "read"
  BY <1>1, NoneIsNoTurn DEF Off, Compacting
<1> HIDE DEF new
<1>3. /\ DOMAIN comp' = Compactors /\ comp'[k] = new
      /\ \A j \in Compactors \ {k} : comp'[j] = comp[j]
  BY <1>1 DEF MarkInv
<1> QED
  BY <1>2, <1>3 DEF MarkInv, Compacting

LEMMA TriggerMarks ==
  ASSUME MarkInv, NEW s \in Sessions, Trigger(s)
  PROVE  MarkInv'
<1>1. CASE s \in inFlight
  BY <1>1 DEF Trigger, InFlight, MarkInv, Compacting
<1>2. CASE s \notin inFlight
  <2>1. PICK k \in Background : StartCompaction(k, s) /\ inFlight' = inFlight \cup {s}
    BY <1>2 DEF Trigger, InFlight
  <2>2. k \in Compactors /\ Background \subseteq Compactors /\ s # None
    BY BackgroundCompacts, NoneIsNoTurn
  <2>3. /\ ~Compacting(k)
        /\ DOMAIN comp' = Compactors
        /\ comp'[k].session = s /\ comp'[k].step = "read"
        /\ \A j \in Compactors \ {k} : comp'[j] = comp[j]
        /\ \A j \in Compactors :
             /\ comp'[j].session # None => comp'[j].session \in Sessions
             /\ comp'[j].session # None <=> comp'[j].step # "off"
    BY <2>1, <2>2, StartsOff
  <2>4. \A j \in Background : comp[j].session # s
    BY <1>2, <2>2 DEF MarkInv, Compacting
  <2>5. inFlight' \subseteq Sessions
    BY <2>1 DEF MarkInv
  <2>6. \A j \in Background : comp'[j].session # None => comp'[j].session \in inFlight'
    BY <2>1, <2>2, <2>3 DEF MarkInv, Compacting
  <2>7. \A i, j \in Background :
          comp'[i].session # None /\ comp'[i].session = comp'[j].session => i = j
    BY <2>2, <2>3, <2>4 DEF MarkInv, Compacting
  <2>8. ASSUME NEW u \in inFlight' PROVE \E j \in Background : comp'[j].session = u
    <3>1. CASE u = s
      BY <2>3, <3>1
    <3>2. CASE u # s
      <4>1. PICK j \in Background : comp[j].session = u
        BY <2>1, <3>2 DEF MarkInv
      <4>2. j # k
        BY <2>1, <2>3, <2>8, <3>2, <4>1, NoneIsNoTurn DEF MarkInv, Compacting
      <4> QED
        BY <2>2, <2>3, <4>1, <4>2
    <3> QED
      BY <3>1, <3>2
  <2> QED
    BY <2>3, <2>5, <2>6, <2>7, <2>8 DEF MarkInv, Compacting
<1> QED
  BY <1>1, <1>2

LEMMA ForceMarks ==
  ASSUME MarkInv, NEW k \in ByHand, NEW s \in Sessions, ForceCompaction(k, s)
  PROVE  MarkInv'
<1>1. StartCompaction(k, s) /\ UNCHANGED inFlight
  BY DEF ForceCompaction
<1>2. k \in Compactors /\ \A j \in Background : j \in Compactors /\ j # k
  BY BackgroundCompacts DEF Background
<1>3. /\ DOMAIN comp' = Compactors
      /\ \A j \in Compactors \ {k} : comp'[j] = comp[j]
      /\ \A j \in Compactors :
           /\ comp'[j].session # None => comp'[j].session \in Sessions
           /\ comp'[j].session # None <=> comp'[j].step # "off"
  BY <1>1, <1>2, StartsOff
<1>4. \A j \in Background : comp'[j] = comp[j]
  BY <1>2, <1>3
<1> QED
  BY <1>1, <1>3, <1>4 DEF MarkInv, Compacting

\* takes it a step further,
LEMMA AdvanceMarks ==
  ASSUME MarkInv, NEW k \in Compactors, Compacting(k),
         NEW new, new.session = comp[k].session, new.step # "off",
         comp' = [comp EXCEPT ![k] = new], UNCHANGED inFlight
  PROVE  MarkInv'
<1>1. /\ DOMAIN comp' = Compactors /\ comp'[k] = new
      /\ \A j \in Compactors \ {k} : comp'[j] = comp[j]
  BY DEF MarkInv
<1>2. \A j \in Compactors : comp'[j].session = comp[j].session
  BY <1>1
<1> QED
  BY <1>1, <1>2, BackgroundCompacts DEF MarkInv, Compacting

\* and ends it.
LEMMA FinishMarks ==
  ASSUME MarkInv, NEW k \in Compactors, Compacting(k), Finished(k)
  PROVE  MarkInv'
<1>1. /\ DOMAIN comp' = Compactors /\ comp'[k] = Off
      /\ \A j \in Compactors \ {k} : comp'[j] = comp[j]
      /\ inFlight' = IF k \in ByHand THEN inFlight ELSE inFlight \ {comp[k].session}
  BY DEF MarkInv, Finished
<1>2. Off.session = None /\ Off.step = "off" /\ None \notin Sessions
  BY NoneIsNoTurn DEF Off
<1>3. \A j \in Compactors : /\ comp'[j].session # None => comp'[j].session \in Sessions
                            /\ comp'[j].session # None <=> comp'[j].step # "off"
  BY <1>1, <1>2 DEF MarkInv, Compacting
<1>4. inFlight' \subseteq inFlight /\ inFlight' \subseteq Sessions /\ None \notin inFlight
  BY <1>1, <1>2 DEF MarkInv
<1>5. CASE k \in ByHand
  <2>1. \A j \in Background : comp'[j] = comp[j]
    BY <1>1, <1>5 DEF Background
  <2> QED
    BY <1>1, <1>3, <1>4, <1>5, <2>1 DEF MarkInv, Compacting
<1>6. CASE k \notin ByHand
  <2>0. k \in Background /\ Background \subseteq Compactors
    BY <1>6, BackgroundCompacts DEF Background
  <2>1. \A j \in Background \ {k} : comp[j].session # comp[k].session
    BY <2>0 DEF MarkInv
  <2>2. \A j \in Background : comp'[j].session # None => comp'[j].session \in inFlight'
    BY <1>1, <1>2, <1>6, <2>0, <2>1 DEF MarkInv, Compacting
  <2>3. \A s \in inFlight' : \E j \in Background : comp'[j].session = s
    <3> SUFFICES ASSUME NEW s \in inFlight' PROVE \E j \in Background : comp'[j].session = s
      OBVIOUS
    <3>1. s \in inFlight /\ s # comp[k].session
      BY <1>1, <1>6
    <3>2. PICK j \in Background : comp[j].session = s
      BY <3>1 DEF MarkInv
    <3> QED
      BY <1>1, <2>0, <3>1, <3>2
  <2>4. \A i, j \in Background :
          comp'[i].session # None /\ comp'[i].session = comp'[j].session => i = j
    BY <1>1, <1>2, <2>0 DEF MarkInv, Compacting
  <2> QED
    BY <1>1, <1>3, <1>4, <2>2, <2>3, <2>4 DEF MarkInv, Compacting
<1> QED
  BY <1>5, <1>6

LEMMA CompactStepMarks ==
  ASSUME MarkInv, NEW k \in Compactors, CompactStep(k)
  PROVE  MarkInv'
<1>0. comp[k].step # "off" => Compacting(k)
  BY DEF MarkInv
<1>1. CASE CompactRead(k)
  <2> DEFINE s == comp[k].session
             old == OldMessages(s)
             new == [step |-> "ask", session |-> s, old |-> {m.id : m \in old},
                     last |-> Latest(old).id, stamp |-> 0]
  <2>1. \/ Finished(k)
        \/ comp' = [comp EXCEPT ![k] = new] /\ UNCHANGED inFlight
    BY <1>1, Zenon DEF CompactRead
  <2>2. new.session = comp[k].session /\ new.step # "off"
    OBVIOUS
  <2> HIDE DEF new
  <2> QED
    BY <1>0, <1>1, <2>1, <2>2, FinishMarks, AdvanceMarks DEF CompactRead
<1>2. CASE CompactAsk(k)
  <2> DEFINE new == [step |-> "insert", session |-> comp[k].session, old |-> comp[k].old,
                     last |-> comp[k].last, stamp |-> clock + 1]
  <2>1. \/ Finished(k)
        \/ comp' = [comp EXCEPT ![k] = new] /\ UNCHANGED inFlight
    BY <1>2, Zenon DEF CompactAsk
  <2>2. new.session = comp[k].session /\ new.step # "off"
    OBVIOUS
  <2> HIDE DEF new
  <2> QED
    BY <1>0, <1>2, <2>1, <2>2, FinishMarks, AdvanceMarks DEF CompactAsk
<1>3. CASE CompactInsert(k)
  <2> DEFINE new == [step |-> "archive", session |-> comp[k].session, old |-> comp[k].old,
                     last |-> comp[k].last, stamp |-> 0]
  <2>1. \/ Finished(k)
        \/ comp' = [comp EXCEPT ![k] = new] /\ UNCHANGED inFlight
    BY <1>3, Zenon DEF CompactInsert
  <2>2. new.session = comp[k].session /\ new.step # "off"
    OBVIOUS
  <2> HIDE DEF new
  <2> QED
    BY <1>0, <1>3, <2>1, <2>2, FinishMarks, AdvanceMarks DEF CompactInsert
<1>4. CASE CompactArchive(k)
  BY <1>0, <1>4, FinishMarks DEF CompactArchive
<1> QED
  BY <1>1, <1>2, <1>3, <1>4 DEF CompactStep

LEMMA MarkStep == RunInv /\ MarkInv /\ [Next]_vars => MarkInv'
<1> SUFFICES ASSUME RunInv, MarkInv, [Next]_vars PROVE MarkInv'
  OBVIOUS
<1>0. ASSUME UNCHANGED <<inFlight, comp>> PROVE MarkInv'
  BY <1>0 DEF MarkInv, Compacting
<1>1. ASSUME NEW t \in Turns, Chat(t) \/ Receive(t) \/ Inject(t) PROVE MarkInv'
  BY <1>0, <1>1 DEF Chat, Receive, Inject
<1>2. ASSUME NEW t \in Turns, TurnStep(t) PROVE MarkInv'
  <2>1. CASE Assemble(t)
    <3>1. turn[t].session \in Sessions
      BY <2>1 DEF RunInv, BegunHasSession, Begun, Assemble, At
    <3>2. UNCHANGED <<inFlight, comp>> \/ Trigger(turn[t].session)
      BY <2>1, Zenon DEF Assemble
    <3> QED
      BY <1>0, <3>1, <3>2, TriggerMarks
  <2>2. CASE ~Assemble(t)
    BY <1>0, <1>2, <2>2 DEF TurnStep, Stamp, Insert, InsertAnswer, Register, Clear, Answer
  <2> QED
    BY <2>1, <2>2
<1>3. ASSUME NEW k \in Compactors, CompactStep(k) PROVE MarkInv'
  BY <1>3, CompactStepMarks
<1>4. ASSUME NEW s \in Sessions, Abort(s) \/ Delete(s) PROVE MarkInv'
  BY <1>0, <1>4 DEF Abort, Delete
<1>7. ASSUME NEW t \in Turns, CancelAborted(t) PROVE MarkInv'
  BY <1>0, <1>7 DEF CancelAborted
<1>8. ASSUME NEW k \in ByHand, NEW s \in Sessions, ForceCompaction(k, s) PROVE MarkInv'
  BY <1>8, ForceMarks
<1>5. CASE Crash
  <2>1. inFlight' = {} /\ comp' = [k \in Compactors |-> Off]
    BY <1>5 DEF Crash
  <2> QED
    BY <2>1, BackgroundCompacts DEF MarkInv, Compacting, Off
<1>6. CASE UNCHANGED vars
  BY <1>0, <1>6 DEF vars
<1> QED
  BY <1>1, <1>2, <1>3, <1>4, <1>5, <1>6, <1>7, <1>8 DEF Next, Turns

\* At any moment, crashes and compactions by hand included, the mark of a session
\* stands for exactly one compaction of it that a turn has set off, and a session
\* without a mark has none (maybeTriggerCompaction
\* and the deferred compactionInFlight.Delete).
THEOREM MarksAreExact == Spec => []MarksMatchCompactions
<1>1. Init => RunInv /\ MarkInv
  BY RunInit, BackgroundCompacts DEF Init, MarkInv, Compacting, Off
<1>2. RunInv /\ MarkInv /\ [Next]_vars => (RunInv /\ MarkInv)'
  BY RunStep, MarkStep
<1> QED
  BY <1>1, <1>2, MarkInvCounts, PTL DEF Spec

-----------------------------------------------------------------------------
(***************************************************************************)
(* The types of the whole state.                                           *)
(***************************************************************************)
MessageType(l, c) == [id : 1..l, session : Sessions, stamp : 1..c]
TurnType(c) == [step : TurnSteps, session : Sessions \cup {None}, stamp : 0..c]
CompType(l, c) ==
  [step : {"off", "read", "ask", "insert", "archive"}, session : Sessions \cup {None},
   old : SUBSET (1..l), last : 0..l, stamp : 0..c]

\* Who is about to insert has read the clock.
StampsAreTaken ==
  /\ \A t \in Turns : turn[t].step \in {"insert", "insertAnswer"} => turn[t].stamp # 0
  /\ \A k \in Compactors : comp[k].step = "insert" => comp[k].stamp # 0

StoreInv == TypeOK /\ IsFiniteSet(messages) /\ StampsAreTaken

LEMMA TypesGrow ==
  ASSUME TypeOK, NEW l \in Nat, lastId <= l, NEW c \in Nat, clock <= c
  PROVE  /\ messages \subseteq MessageType(l, c)
         /\ turn \in [Turns -> TurnType(c)]
         /\ comp \in [Compactors -> CompType(l, c)]
         /\ archived \subseteq 1..l /\ summarised \subseteq 1..l /\ contested \subseteq 1..l
<1>1. 1..lastId \subseteq 1..l /\ 0..lastId \subseteq 0..l
      /\ 1..clock \subseteq 1..c /\ 0..clock \subseteq 0..c
  BY DEF TypeOK
<1>2. MessageType(lastId, clock) \subseteq MessageType(l, c)
  BY <1>1 DEF MessageType
<1>3. TurnType(clock) \subseteq TurnType(c)
  BY <1>1 DEF TurnType
<1>4. CompType(lastId, clock) \subseteq CompType(l, c)
  BY <1>1 DEF CompType
<1>5. /\ messages \subseteq MessageType(lastId, clock)
      /\ turn \in [Turns -> TurnType(clock)]
      /\ comp \in [Compactors -> CompType(lastId, clock)]
      /\ archived \subseteq 1..lastId /\ summarised \subseteq 1..lastId
      /\ contested \subseteq 1..lastId
  BY DEF TypeOK, MessageType, TurnType, CompType
<1> QED
  BY <1>1, <1>2, <1>3, <1>4, <1>5

\* The part of the types the history of a session has to do with, and the rest.
HistoryTypes ==
  /\ messages \subseteq MessageType(lastId, clock)
  /\ archived \subseteq 1..lastId
  /\ lastId \in Nat /\ clock \in Nat
  /\ turn \in [Turns -> TurnType(clock)]
  /\ comp \in [Compactors -> CompType(lastId, clock)]
  /\ summarised \subseteq 1..lastId /\ twice \subseteq summarised
  /\ contested \subseteq 1..lastId

OtherTypes ==
  /\ live \subseteq created /\ created \subseteq Sessions
  /\ cached \in Sessions \cup {None}
  /\ cancelled \subseteq Turns /\ aborting \subseteq Turns
  /\ activeRuns \in [Sessions -> Turns \cup {None}]
  /\ inFlight \subseteq Sessions /\ cut \subseteq Sessions
  /\ forced \in 0..MaxForced /\ deletes \in 0..MaxDeletes /\ crashes \in 0..MaxCrashes

LEMMA TypesSplit == (TypeOK <=> HistoryTypes /\ OtherTypes)
                    /\ (TypeOK' <=> HistoryTypes' /\ OtherTypes')
BY DEF TypeOK, HistoryTypes, OtherTypes, MessageType, TurnType, CompType

\* What moving a turn does to the stamps.
Inserting(t) == turn[t].step \in {"insert", "insertAnswer"}

TurnMoves(t, stamp) ==
  /\ turn' \in [Turns -> TurnType(clock')]
  /\ \A u \in Turns \ {t} : turn'[u] = turn[u]
  /\ turn'[t].stamp = stamp

\* A turn moves: its stamp is the one it is given.
LEMMA GotoTypes ==
  ASSUME clock' \in Nat, turn \in [Turns -> TurnType(clock')], NEW t \in Turns,
         NEW step \in TurnSteps, NEW stamp \in 0..clock', Goto(t, step, stamp)
  PROVE  TurnMoves(t, stamp) /\ turn'[t].step = step
<1> DEFINE new == [step |-> step, session |-> turn[t].session, stamp |-> stamp]
<1>1. turn' = [turn EXCEPT ![t] = new]
  BY DEF Goto
<1>2. new \in TurnType(clock') /\ new.step = step /\ new.stamp = stamp
  BY DEF TurnType
<1> HIDE DEF new
<1> QED
  BY <1>1, <1>2 DEF TurnMoves

LEMMA OverTypes ==
  ASSUME clock' \in Nat, turn \in [Turns -> TurnType(clock')], NEW t \in Turns, Over(t)
  PROVE  TurnMoves(t, 0) /\ turn'[t].step = "done"
<1>1. turn' = [turn EXCEPT ![t] = Done]
  BY DEF Over
<1>2. Done \in TurnType(clock') /\ Done.step = "done" /\ Done.stamp = 0
  BY DEF Done, TurnType, TurnSteps
<1> HIDE DEF Done
<1> QED
  BY <1>1, <1>2 DEF TurnMoves

LEMMA BeginTypes ==
  ASSUME clock' \in Nat, turn \in [Turns -> TurnType(clock')], NEW t \in Turns,
         NEW s \in Sessions, Begin(t, s)
  PROVE  TurnMoves(t, 0) /\ turn'[t].step = "stamp"
<1> DEFINE new == [step |-> "stamp", session |-> s, stamp |-> 0]
<1>1. turn' = [turn EXCEPT ![t] = new]
  BY DEF Begin
<1>2. new \in TurnType(clock') /\ new.step = "stamp" /\ new.stamp = 0
  BY DEF TurnType, TurnSteps
<1> HIDE DEF new
<1> QED
  BY <1>1, <1>2 DEF TurnMoves

\* What the step of a turn does to the history: nothing, it reads the clock, or it
\* stores a row under the stamp it has taken.
sameHistory == <<archived, summarised, twice, cut, contested>>

Moves(t) ==
  /\ TurnMoves(t, 0) /\ ~Inserting(t)'
  /\ UNCHANGED <<messages, lastId, clock>>

Reads(t) ==
  /\ clock' = clock + 1 /\ TurnMoves(t, clock + 1)
  /\ UNCHANGED <<messages, lastId, comp>>

Stores(t) ==
  /\ TurnMoves(t, 0) /\ ~Inserting(t)'
  /\ Inserting(t) /\ Store(turn[t].session, turn[t].stamp)
  /\ UNCHANGED <<clock, comp>>

LEMMA TurnEffects ==
  ASSUME TypeOK, NEW t \in Turns, Chat(t) \/ Receive(t) \/ Inject(t) \/ TurnStep(t)
  PROVE  Moves(t) \/ Reads(t) \/ Stores(t)
<1>1. turn \in [Turns -> TurnType(clock)] /\ clock \in Nat
  BY DEF TypeOK, TurnType
<1>2. CASE Chat(t) \/ Receive(t) \/ Inject(t)
  <2>1. UNCHANGED <<messages, lastId, clock>>
    BY <1>2 DEF Chat, Receive, Inject, database
  <2>2. \E s \in Sessions : Begin(t, s)
    BY <1>2 DEF Chat, Receive, Inject, TypeOK
  <2> QED
    BY <1>1, <2>1, <2>2, BeginTypes DEF Moves, Inserting
<1>3. ASSUME UNCHANGED clock
      PROVE  /\ Close(t) => TurnMoves(t, 0) /\ ~Inserting(t)'
             /\ Over(t) => TurnMoves(t, 0) /\ ~Inserting(t)'
             /\ \A step \in TurnSteps \ {"insert", "insertAnswer"} :
                  Goto(t, step, 0) => TurnMoves(t, 0) /\ ~Inserting(t)'
  <2>1. Over(t) => TurnMoves(t, 0) /\ ~Inserting(t)'
    BY <1>1, <1>3, OverTypes DEF Inserting
  <2>2. \A step \in TurnSteps \ {"insert", "insertAnswer"} :
                  Goto(t, step, 0) => TurnMoves(t, 0) /\ ~Inserting(t)'
    BY <1>1, <1>3, GotoTypes DEF Inserting
  <2>3. Close(t) => Goto(t, "clear", 0) \/ Over(t)
    BY DEF Close
  <2> QED
    BY <2>1, <2>2, <2>3 DEF TurnSteps
<1>4. CASE Stamp(t)
  <2>1. clock' = clock + 1 /\ UNCHANGED <<messages, lastId, comp>>
    BY <1>4 DEF Stamp, database
  <2>2. turn \in [Turns -> TurnType(clock')]
    BY <2>1, <1>1, TypesGrow DEF TypeOK
  <2>3. \E step \in TurnSteps : Goto(t, step, clock + 1)
    BY <1>4 DEF Stamp, TurnSteps
  <2> QED
    BY <1>1, <2>1, <2>2, <2>3, GotoTypes DEF Reads
<1>5. CASE Insert(t)
  <2>1. UNCHANGED <<clock, comp>> /\ Inserting(t)
    BY <1>5 DEF Insert, At, Inserting
  <2>2. Over(t) \/ Goto(t, "register", 0) \/ Goto(t, "assemble", 0)
    BY <1>5 DEF Insert
  <2>3. Store(turn[t].session, turn[t].stamp) \/ UNCHANGED <<messages, lastId>>
    BY <1>5 DEF Insert
  <2> QED
    BY <1>3, <2>1, <2>2, <2>3 DEF Moves, Stores, TurnSteps
<1>6. CASE InsertAnswer(t)
  <2>1. UNCHANGED <<clock, comp>> /\ Inserting(t) /\ Close(t)
    BY <1>6 DEF InsertAnswer, At, Inserting
  <2>3. Store(turn[t].session, turn[t].stamp) \/ UNCHANGED <<messages, lastId>>
    BY <1>6 DEF InsertAnswer
  <2> QED
    BY <1>3, <2>1, <2>3 DEF Moves, Stores
<1>7. CASE Register(t) \/ Clear(t) \/ Assemble(t) \/ Answer(t)
  <2>1. UNCHANGED <<messages, lastId, clock>>
    BY <1>7 DEF Register, Clear, Assemble, Answer, database
  <2>2. \/ Close(t) \/ Over(t)
        \/ Goto(t, "assemble", 0) \/ Goto(t, "ask", 0) \/ Goto(t, "stampAnswer", 0)
    BY <1>7 DEF Register, Clear, Assemble, Answer
  <2> QED
    BY <1>3, <2>1, <2>2 DEF Moves, TurnSteps
<1> QED
  BY <1>2, <1>4, <1>5, <1>6, <1>7 DEF TurnStep

\* An old message was read from the table: the latest of some messages is there.
LEMMA LatestIsLatest ==
  ASSUME NEW c \in Nat, NEW S, S # {}, \A m \in S : m.stamp \in 1..c
  PROVE  Latest(S) \in S /\ \A n \in S : n.stamp <= Latest(S).stamp
<1> DEFINE T == {c - m.stamp : m \in S}
           less == OpToRel(<, Nat)
<1>1. T \subseteq Nat /\ T # {}
  OBVIOUS
<1>2. IsWellFoundedOn(less, Nat)
  BY NatLessThanWellFounded
<1>3. \A i, j \in Nat : i < j => <<i, j>> \in less
  BY DEF OpToRel
<1> HIDE DEF less
<1> PICK x \in T : \A y \in T : ~(<<y, x>> \in less)
  BY <1>1, <1>2, WFMin
<1>4. PICK m \in S : x = c - m.stamp
  OBVIOUS
<1>5. \A n \in S : n.stamp <= m.stamp
  <2> SUFFICES ASSUME NEW n \in S PROVE n.stamp <= m.stamp
    OBVIOUS
  <2>1. c - n.stamp \in T
    OBVIOUS
  <2>2. ~(c - n.stamp < x)
    BY <1>1, <1>3, <2>1
  <2> QED
    BY <2>2, <1>4
<1> QED
  BY <1>5 DEF Latest

LEMMA StoreTypes ==
  ASSUME TypeOK, clock' = clock, NEW s \in Sessions, NEW stamp \in 1..clock, Store(s, stamp)
  PROVE  /\ messages' \subseteq MessageType(lastId', clock')
         /\ lastId' = lastId + 1
         /\ IsFiniteSet(messages) => IsFiniteSet(messages')
<1> DEFINE new == [id |-> NextId, session |-> s, stamp |-> stamp]
<1>1. messages' = messages \cup {new} /\ lastId' = lastId + 1 /\ lastId \in Nat /\ clock \in Nat
  BY DEF Store, NextId, TypeOK
<1>2. messages \subseteq MessageType(lastId', clock')
  BY <1>1, TypesGrow
<1>3. new \in MessageType(lastId', clock')
  BY <1>1 DEF MessageType, NextId
<1> HIDE DEF new
<1> QED
  BY <1>1, <1>2, <1>3, FS_AddElement

\* Where the history is: of the rest, the types are plain.
LEMMA OtherTypesStep ==
  ASSUME TypeOK, RunInv, MarkInv, [Next]_vars
  PROVE  OtherTypes'
<1> USE DEF OtherTypes, TypeOK
<1>1. ASSUME NEW t \in Turns, Chat(t) \/ Receive(t) \/ Inject(t) PROVE OtherTypes'
  BY <1>1 DEF Chat, Receive, Inject, NewSession, database, bounds, ghosts, runs
<1>2. ASSUME NEW t \in Turns, TurnStep(t) PROVE OtherTypes'
  <2>1. CASE Stamp(t) \/ Insert(t) \/ InsertAnswer(t) \/ Answer(t)
    BY <2>1 DEF Stamp, Insert, InsertAnswer, Answer, database, bounds, ghosts, runs
  <2>2. CASE Register(t)
    <3>1. /\ UNCHANGED <<live, created, cached, aborting, inFlight, cut, forced, deletes, crashes>>
          /\ activeRuns' = [activeRuns EXCEPT ![turn[t].session] = t]
          /\ cancelled' = IF activeRuns[turn[t].session] = None THEN cancelled
                          ELSE cancelled \cup {activeRuns[turn[t].session]}
      BY <2>2 DEF Register, database, bounds, ghosts, runs
    <3>2. turn[t].session \in Sessions
      BY <2>2 DEF RunInv, BegunHasSession, Begun, Register, At
    <3> QED
      BY <3>1, <3>2
  <2>3. CASE Clear(t)
    BY <2>3 DEF Clear, Cleared, database, bounds, ghosts, runs
  <2>4. CASE Assemble(t)
    <3>1. turn[t].session \in Sessions
      BY <2>4 DEF RunInv, BegunHasSession, Begun, Assemble, At
    <3>2. inFlight' = inFlight \/ inFlight' = inFlight \cup {turn[t].session}
      BY <2>4 DEF Assemble, Trigger
    <3>3. UNCHANGED <<live, created, cached, cancelled, activeRuns, aborting, cut, forced,
                     deletes, crashes>>
      BY <2>4 DEF Assemble, database, bounds, ghosts, runs
    <3> QED
      BY <3>1, <3>2, <3>3
  <2> QED
    BY <1>2, <2>1, <2>2, <2>3, <2>4 DEF TurnStep
<1>3. ASSUME NEW k \in Compactors, CompactStep(k) PROVE OtherTypes'
  <2>1. UNCHANGED untouchedByCompaction
    BY <1>3 DEF CompactStep, CompactRead, CompactAsk, CompactInsert, CompactArchive
  <2>2. inFlight' \subseteq inFlight
    BY <1>3 DEF CompactStep, CompactRead, CompactAsk, CompactInsert, CompactArchive, Finished
  <2>3. \/ cut' = cut
        \/ cut' = cut \cup {comp[k].session} /\ comp[k].step = "archive"
    <3>1. CASE CompactRead(k) \/ CompactAsk(k) \/ CompactInsert(k)
      BY <3>1 DEF CompactRead, CompactAsk, CompactInsert, ghosts
    <3>2. CASE CompactArchive(k)
      BY <3>2 DEF CompactArchive
    <3> QED
      BY <1>3, <3>1, <3>2 DEF CompactStep
  <2>4. comp[k].step = "archive" => comp[k].session \in Sessions
    BY DEF MarkInv, Compacting
  <2> QED
    BY <2>1, <2>2, <2>3, <2>4 DEF untouchedByCompaction, bounds, runs
<1>4. ASSUME NEW s \in Sessions, Abort(s) PROVE OtherTypes'
  BY <1>4 DEF Abort, database, bounds, ghosts, runs
<1>5. ASSUME NEW s \in Sessions, Delete(s) PROVE OtherTypes'
  <2>1. deletes' \in 0..MaxDeletes
    BY <1>5, ConversationAssumption DEF Delete
  <2> QED
    BY <1>5, <2>1 DEF Delete, bounds, ghosts, runs
<1>6. CASE Crash
  <2>1. crashes' \in 0..MaxCrashes
    BY <1>6, ConversationAssumption DEF Crash
  <2>2. cut' \subseteq Sessions
    <3>1. \A k \in Compactors : comp[k].step = "archive" => comp[k].session \in Sessions
      BY DEF MarkInv, Compacting
    <3> QED
      BY <1>6, <3>1 DEF Crash
  <2> QED
    BY <1>6, <2>1, <2>2 DEF Crash, database
<1>7. CASE UNCHANGED vars
  BY <1>7 DEF vars, database, bounds, ghosts, runs
<1>8. ASSUME NEW t \in Turns, CancelAborted(t) PROVE OtherTypes'
  BY <1>8 DEF CancelAborted, database, bounds, ghosts
<1>9. ASSUME NEW k \in ByHand, NEW s \in Sessions, ForceCompaction(k, s) PROVE OtherTypes'
  <2>1. forced' \in 0..MaxForced
    BY <1>9, ConversationAssumption DEF ForceCompaction
  <2> QED
    BY <1>9, <2>1 DEF ForceCompaction, database, ghosts, runs
<1> QED
  BY <1>1, <1>2, <1>3, <1>4, <1>5, <1>6, <1>7, <1>8, <1>9 DEF Next, Turns

-----------------------------------------------------------------------------
LEMMA StartTypes ==
  ASSUME TypeOK, NEW k \in Compactors, NEW s \in Sessions, StartCompaction(k, s)
  PROVE  /\ comp' \in [Compactors -> CompType(lastId, clock)]
         /\ comp[k].step = "off"
         /\ \A j \in Compactors :
              IF j = k THEN comp'[j].step = "read" /\ comp'[j].stamp = 0
                       ELSE comp'[j] = comp[j]
<1> DEFINE new == [step |-> "read", session |-> s, old |-> {}, last |-> 0, stamp |-> 0]
<1>1. comp \in [Compactors -> CompType(lastId, clock)] /\ lastId \in Nat /\ clock \in Nat
  BY DEF TypeOK, CompType
<1>2. comp[k] = Off /\ comp' = [comp EXCEPT ![k] = new]
  BY Zenon DEF StartCompaction
<1>3. new \in CompType(lastId, clock) /\ new.step = "read" /\ new.stamp = 0
  BY <1>1 DEF CompType
<1>4. Off.step = "off"
  BY DEF Off
<1> HIDE DEF new, Off
<1> QED
  BY <1>1, <1>2, <1>3, <1>4

\* A compaction is started, from a turn or by hand, or none is.
LEMMA Starting ==
  ASSUME TypeOK,
         \/ UNCHANGED comp
         \/ \E s \in Sessions : Trigger(s)
         \/ \E k \in ByHand, s \in Sessions : ForceCompaction(k, s)
  PROVE  /\ comp' \in [Compactors -> CompType(lastId, clock)]
         /\ \A k \in Compactors :
              \/ comp'[k] = comp[k]
              \/ comp[k].step = "off" /\ comp'[k].step = "read" /\ comp'[k].stamp = 0
<1>1. comp \in [Compactors -> CompType(lastId, clock)]
  BY DEF TypeOK, CompType
<1>2. UNCHANGED comp \/ \E k \in Compactors, s \in Sessions : StartCompaction(k, s)
  BY BackgroundCompacts DEF Trigger, ForceCompaction
<1> QED
  BY <1>1, <1>2, StartTypes

LEMMA OffTypes ==
  ASSUME TypeOK
  PROVE  Off \in CompType(lastId, clock) /\ Off.step = "off" /\ Off.stamp = 0
BY DEF TypeOK, CompType, Off

\* A step of a turn starts a compaction at the most, and archives nothing.
LEMMA TurnElsewhere ==
  ASSUME RunInv, NEW t \in Turns, Chat(t) \/ Receive(t) \/ Inject(t) \/ TurnStep(t)
  PROVE  /\ UNCHANGED sameHistory
         /\ UNCHANGED <<inFlight, comp>> \/ \E s \in Sessions : Trigger(s)
<1>1. CASE Chat(t) \/ Receive(t) \/ Inject(t)
  BY <1>1 DEF Chat, Receive, Inject, database, ghosts, sameHistory
<1>2. CASE Assemble(t)
  <2>1. turn[t].session \in Sessions
    BY <1>2 DEF RunInv, BegunHasSession, Begun, Assemble, At
  <2>2. UNCHANGED <<inFlight, comp>> \/ Trigger(turn[t].session)
    BY <1>2, Zenon DEF Assemble
  <2>3. UNCHANGED sameHistory
    BY <1>2 DEF Assemble, database, ghosts, sameHistory
  <2> QED
    BY <2>1, <2>2, <2>3
<1>3. CASE Stamp(t) \/ Insert(t) \/ InsertAnswer(t) \/ Register(t) \/ Clear(t) \/ Answer(t)
  BY <1>3
  DEF Stamp, Insert, InsertAnswer, Register, Clear, Answer, database, ghosts, sameHistory
<1> QED
  BY <1>1, <1>2, <1>3 DEF TurnStep

LEMMA TurnKeepsStore ==
  ASSUME StoreInv, RunInv, NEW t \in Turns,
         Chat(t) \/ Receive(t) \/ Inject(t) \/ TurnStep(t)
  PROVE  HistoryTypes' /\ IsFiniteSet(messages') /\ StampsAreTaken'
<1>0. TypeOK /\ HistoryTypes /\ IsFiniteSet(messages) /\ StampsAreTaken
  BY TypesSplit DEF StoreInv
<1>1. UNCHANGED sameHistory
  BY TurnElsewhere
<1>2. /\ comp' \in [Compactors -> CompType(lastId, clock)]
      /\ \A k \in Compactors :
           \/ comp'[k] = comp[k]
           \/ comp'[k].step = "read" /\ comp'[k].stamp = 0
  <2>1. UNCHANGED comp \/ \E s \in Sessions : Trigger(s)
    BY TurnElsewhere
  <2> QED
    BY <1>0, <2>1, Starting
<1>3. \A k \in Compactors : comp'[k].step = "insert" => comp'[k].stamp # 0
  BY <1>0, <1>2 DEF StampsAreTaken
<1>4. ASSUME clock' = clock
      PROVE  /\ archived' \subseteq 1..lastId /\ summarised' \subseteq 1..lastId
             /\ twice' \subseteq summarised' /\ contested' \subseteq 1..lastId
             /\ \A m \in Nat : lastId <= m => CompType(lastId, clock) \subseteq CompType(m, clock)
  <2>1. \A m \in Nat : lastId <= m => 1..lastId \subseteq 1..m /\ 0..lastId \subseteq 0..m
    BY <1>0 DEF HistoryTypes
  <2>2. \A m \in Nat : lastId <= m => CompType(lastId, clock) \subseteq CompType(m, clock)
    BY <2>1 DEF CompType
  <2> QED
    BY <1>0, <1>1, <2>2 DEF HistoryTypes, sameHistory
<1>5. CASE Moves(t)
  <2>1. HistoryTypes'
    BY <1>0, <1>2, <1>4, <1>5 DEF HistoryTypes, Moves, TurnMoves
  <2>2. StampsAreTaken'
    BY <1>0, <1>3, <1>5 DEF StampsAreTaken, Moves, TurnMoves, Inserting
  <2> QED
    BY <1>0, <1>5, <2>1, <2>2 DEF Moves
<1>6. CASE Reads(t)
  <2>1. clock' \in Nat /\ clock <= clock' /\ UNCHANGED <<messages, lastId, comp>>
    BY <1>0, <1>6 DEF HistoryTypes, Reads
  <2>2. /\ messages \subseteq MessageType(lastId, clock')
        /\ comp \in [Compactors -> CompType(lastId, clock')]
    BY <1>0, <2>1, TypesGrow DEF HistoryTypes
  <2>3. HistoryTypes'
    BY <1>0, <1>1, <1>6, <2>1, <2>2 DEF HistoryTypes, Reads, TurnMoves, sameHistory
  <2>4. StampsAreTaken'
    BY <1>0, <1>6 DEF StampsAreTaken, Reads, TurnMoves, HistoryTypes
  <2> QED
    BY <1>0, <1>6, <2>3, <2>4 DEF Reads
<1>7. CASE Stores(t)
  <2>1. turn[t].stamp \in 1..clock
    BY <1>0, <1>7 DEF StampsAreTaken, Stores, Inserting, HistoryTypes, TurnType
  <2>2. turn[t].session \in Sessions
    BY <1>7 DEF RunInv, BegunHasSession, Begun, Stores, Inserting
  <2>3. /\ messages' \subseteq MessageType(lastId', clock')
        /\ lastId' = lastId + 1 /\ IsFiniteSet(messages')
    BY <1>0, <1>7, <2>1, <2>2, StoreTypes DEF Stores
  <2>4. lastId' \in Nat /\ lastId <= lastId' /\ clock' = clock /\ comp' = comp
    BY <1>0, <1>7, <2>3 DEF HistoryTypes, Stores
  <2>5. /\ comp \in [Compactors -> CompType(lastId', clock)]
        /\ archived \subseteq 1..lastId' /\ summarised \subseteq 1..lastId'
        /\ contested \subseteq 1..lastId'
    BY <1>0, <2>4, TypesGrow DEF HistoryTypes
  <2>6. HistoryTypes'
    BY <1>0, <1>1, <1>7, <2>3, <2>4, <2>5 DEF HistoryTypes, Stores, TurnMoves, sameHistory
  <2>7. StampsAreTaken'
    BY <1>0, <1>3, <1>7 DEF StampsAreTaken, Stores, TurnMoves, Inserting
  <2> QED
    BY <2>3, <2>6, <2>7
<1> QED
  BY <1>0, <1>5, <1>6, <1>7, TurnEffects

-----------------------------------------------------------------------------
\* What a compaction has read and where it stands; the rest of the steps of one.
Ends(k) ==
  /\ comp[k].step \in {"read", "ask", "insert"}
  /\ comp' = [comp EXCEPT ![k] = Off]
  /\ UNCHANGED <<messages, lastId, clock, sameHistory>>

ReadsOld(k) ==
  LET s == comp[k].session
      old == OldMessages(s)
      ids == {m.id : m \in old}
  IN
  /\ comp[k].step = "read" /\ old # {}
  /\ comp' = [comp EXCEPT ![k] =
       [step |-> "ask", session |-> s, old |-> ids, last |-> Latest(old).id, stamp |-> 0]]
  /\ contested' = contested \cup (ids \cap Shared(k))
  /\ UNCHANGED <<messages, lastId, clock, archived, summarised, twice, cut>>

Asks(k) ==
  /\ comp[k].step = "ask" /\ clock' = clock + 1
  /\ comp' = [comp EXCEPT ![k] =
       [step |-> "insert", session |-> comp[k].session, old |-> comp[k].old,
        last |-> comp[k].last, stamp |-> clock + 1]]
  /\ UNCHANGED <<messages, lastId, sameHistory>>

Summarises(k) ==
  /\ comp[k].step = "insert" /\ Store(comp[k].session, comp[k].stamp)
  /\ summarised' = summarised \cup comp[k].old
  /\ twice' = twice \cup (summarised \cap comp[k].old)
  /\ comp' = [comp EXCEPT ![k] =
       [step |-> "archive", session |-> comp[k].session, old |-> comp[k].old,
        last |-> comp[k].last, stamp |-> 0]]
  /\ UNCHANGED <<clock, archived, cut, contested>>

Archives(k) ==
  /\ comp[k].step = "archive"
  /\ comp' = [comp EXCEPT ![k] = Off]
  /\ \/ archived' = archived \cup Archive(comp[k].session, comp[k].last) /\ UNCHANGED cut
     \/ cut' = cut \cup {comp[k].session} /\ UNCHANGED archived
  /\ UNCHANGED <<messages, lastId, clock, summarised, twice, contested>>

LEMMA CompactEffects ==
  ASSUME NEW k \in Compactors, CompactStep(k)
  PROVE  /\ UNCHANGED turn
         /\ Ends(k) \/ ReadsOld(k) \/ Asks(k) \/ Summarises(k) \/ Archives(k)
<1>1. UNCHANGED turn
  BY DEF CompactStep, CompactRead, CompactAsk, CompactInsert, CompactArchive,
         untouchedByCompaction
<1>2. CompactRead(k) => Ends(k) \/ ReadsOld(k)
  BY DEF CompactRead, Ends, ReadsOld, Finished, sameHistory
<1>3. CompactAsk(k) => Ends(k) \/ Asks(k)
  BY DEF CompactAsk, Ends, Asks, Finished, ghosts, sameHistory
<1>4. ASSUME CompactInsert(k) PROVE Ends(k) \/ Summarises(k)
  <2>1. comp[k].step = "insert" /\ UNCHANGED <<archived, clock>>
    BY <1>4 DEF CompactInsert
  <2>2. CASE Finished(k) /\ UNCHANGED <<messages, lastId, ghosts>>
    BY <2>1, <2>2 DEF Ends, Finished, ghosts, sameHistory
  <2>3. CASE ~(Finished(k) /\ UNCHANGED <<messages, lastId, ghosts>>)
    <3>1. /\ Store(comp[k].session, comp[k].stamp)
          /\ summarised' = summarised \cup comp[k].old
          /\ twice' = twice \cup (summarised \cap comp[k].old)
          /\ comp' = [comp EXCEPT ![k] =
               [step |-> "archive", session |-> comp[k].session, old |-> comp[k].old,
                last |-> comp[k].last, stamp |-> 0]]
          /\ UNCHANGED <<cut, contested, inFlight>>
      BY <1>4, <2>3, Zenon DEF CompactInsert
    <3> QED
      BY <2>1, <3>1 DEF Summarises
  <2> QED
    BY <2>2, <2>3
<1>5. ASSUME CompactArchive(k) PROVE Archives(k)
  <2>1. /\ comp[k].step = "archive" /\ comp' = [comp EXCEPT ![k] = Off]
        /\ UNCHANGED <<messages, lastId, clock, summarised, twice, contested>>
    BY <1>5 DEF CompactArchive, Finished
  <2>2. \/ archived' = archived \cup Archive(comp[k].session, comp[k].last) /\ UNCHANGED cut
        \/ cut' = cut \cup {comp[k].session} /\ UNCHANGED archived
    BY <1>5 DEF CompactArchive
  <2> QED
    BY <2>1, <2>2 DEF Archives
<1> QED
  BY <1>1, <1>2, <1>3, <1>4, <1>5 DEF CompactStep

\* A compaction goes on, or ends.
LEMMA CompMoves ==
  ASSUME StampsAreTaken, UNCHANGED turn, NEW T, comp \in [Compactors -> T],
         NEW k \in Compactors, NEW new \in T, comp' = [comp EXCEPT ![k] = new],
         new.step = "insert" => new.stamp # 0
  PROVE  comp' \in [Compactors -> T] /\ StampsAreTaken'
<1>1. \A j \in Compactors : comp'[j] = IF j = k THEN new ELSE comp[j]
  OBVIOUS
<1> QED
  BY <1>1 DEF StampsAreTaken

LEMMA OldTypes ==
  ASSUME HistoryTypes, NEW s, OldMessages(s) # {}
  PROVE  /\ OldMessages(s) \subseteq Active(s) /\ Active(s) \subseteq messages
         /\ Latest(OldMessages(s)) \in OldMessages(s)
         /\ \A m \in OldMessages(s) : m.stamp <= Latest(OldMessages(s)).stamp
<1>1. OldMessages(s) \subseteq Active(s) /\ Active(s) \subseteq messages
  BY DEF OldMessages, Active
<1>2. clock \in Nat /\ \A m \in OldMessages(s) : m.stamp \in 1..clock
  BY <1>1 DEF HistoryTypes, MessageType
<1> QED
  BY <1>1, <1>2, LatestIsLatest

LEMMA CompactKeepsStore ==
  ASSUME StoreInv, MarkInv, NEW k \in Compactors, CompactStep(k)
  PROVE  HistoryTypes' /\ IsFiniteSet(messages') /\ StampsAreTaken'
<1>0. /\ TypeOK /\ HistoryTypes /\ IsFiniteSet(messages) /\ StampsAreTaken
      /\ lastId \in Nat /\ clock \in Nat /\ UNCHANGED turn
      /\ comp \in [Compactors -> CompType(lastId, clock)]
      /\ comp[k] \in CompType(lastId, clock)
  BY TypesSplit, CompactEffects DEF StoreInv, HistoryTypes
<1>2. CASE Ends(k)
  <2>1. comp' \in [Compactors -> CompType(lastId, clock)] /\ StampsAreTaken'
    BY <1>0, <1>2, OffTypes, CompMoves DEF Ends
  <2> QED
    BY <1>0, <1>2, <2>1 DEF HistoryTypes, Ends, sameHistory
<1>3. CASE ReadsOld(k)
  <2> DEFINE old == OldMessages(comp[k].session)
             new == [step |-> "ask", session |-> comp[k].session,
                     old |-> {m.id : m \in old}, last |-> Latest(old).id, stamp |-> 0]
  <2>1. old \subseteq messages /\ Latest(old) \in old
    BY <1>0, <1>3, OldTypes DEF ReadsOld
  <2>2. \A m \in old : m.id \in 1..lastId
    BY <1>0, <2>1 DEF HistoryTypes, MessageType
  <2>3. comp[k].session \in Sessions \cup {None}
    BY <1>0 DEF CompType
  <2> HIDE DEF old
  <2>4. new \in CompType(lastId, clock) /\ new.step = "ask"
    BY <1>0, <2>1, <2>2, <2>3 DEF CompType
  <2>5. comp' = [comp EXCEPT ![k] = new]
    BY <1>3 DEF ReadsOld, old
  <2> HIDE DEF new
  <2>6. comp' \in [Compactors -> CompType(lastId, clock)] /\ StampsAreTaken'
    BY <1>0, <2>4, <2>5, CompMoves
  <2>7. contested' \subseteq 1..lastId
    <3>1. contested' \subseteq contested \cup {m.id : m \in old}
      BY <1>3 DEF ReadsOld, old
    <3> QED
      BY <1>0, <2>2, <3>1 DEF HistoryTypes
  <2> QED
    BY <1>0, <1>3, <2>6, <2>7 DEF HistoryTypes, ReadsOld
<1>4. CASE Asks(k)
  <2> DEFINE new == [step |-> "insert", session |-> comp[k].session, old |-> comp[k].old,
                     last |-> comp[k].last, stamp |-> clock + 1]
  <2>1. new \in CompType(lastId, clock + 1) /\ new.stamp # 0
    BY <1>0 DEF CompType
  <2>2. comp' = [comp EXCEPT ![k] = new] /\ clock' = clock + 1
    BY <1>4 DEF Asks
  <2> HIDE DEF new
  <2>3. /\ messages \subseteq MessageType(lastId, clock')
        /\ turn \in [Turns -> TurnType(clock')]
        /\ comp \in [Compactors -> CompType(lastId, clock')]
    BY <1>0, <2>2, TypesGrow
  <2>4. comp' \in [Compactors -> CompType(lastId, clock')] /\ StampsAreTaken'
    BY <1>0, <2>1, <2>2, <2>3, CompMoves
  <2> QED
    BY <1>0, <1>4, <2>2, <2>3, <2>4 DEF HistoryTypes, Asks, sameHistory
<1>5. CASE Summarises(k)
  <2> DEFINE new == [step |-> "archive", session |-> comp[k].session, old |-> comp[k].old,
                     last |-> comp[k].last, stamp |-> 0]
  <2>1. comp[k].stamp \in 1..clock /\ comp[k].session \in Sessions
    BY <1>0, <1>5 DEF Summarises, StampsAreTaken, CompType, MarkInv, Compacting
  <2>2. /\ messages' \subseteq MessageType(lastId', clock')
        /\ lastId' = lastId + 1 /\ IsFiniteSet(messages') /\ clock' = clock
    BY <1>0, <1>5, <2>1, StoreTypes DEF Summarises
  <2>3. comp[k].old \subseteq 1..lastId /\ 1..lastId \subseteq 1..lastId'
        /\ comp[k].last \in 0..lastId /\ 0..lastId \subseteq 0..lastId'
    BY <1>0, <2>2 DEF CompType
  <2>4. new \in CompType(lastId', clock) /\ new.step = "archive"
    BY <1>0, <2>1, <2>3 DEF CompType
  <2>5. comp' = [comp EXCEPT ![k] = new]
    BY <1>5 DEF Summarises
  <2> HIDE DEF new
  <2>6. comp' \in [Compactors -> CompType(lastId', clock')] /\ StampsAreTaken'
    <3>1. comp \in [Compactors -> CompType(lastId', clock')]
      BY <1>0, <2>2, TypesGrow
    <3> QED
      BY <1>0, <2>2, <2>4, <2>5, <3>1, CompMoves
  <2>7. archived' \subseteq 1..lastId' /\ summarised' \subseteq 1..lastId'
        /\ twice' \subseteq summarised' /\ contested' \subseteq 1..lastId'
    BY <1>0, <1>5, <2>3 DEF Summarises, HistoryTypes
  <2> QED
    BY <1>0, <2>2, <2>6, <2>7 DEF HistoryTypes
<1>6. CASE Archives(k)
  <2>1. comp' \in [Compactors -> CompType(lastId, clock)] /\ StampsAreTaken'
    BY <1>0, <1>6, OffTypes, CompMoves DEF Archives
  <2>2. archived' \subseteq 1..lastId
    <3>1. Archive(comp[k].session, comp[k].last) \subseteq 1..lastId
      BY <1>0 DEF Archive, Active, HistoryTypes, MessageType
    <3> QED
      BY <1>0, <1>6, <3>1 DEF Archives, HistoryTypes
  <2> QED
    BY <1>0, <1>6, <2>1, <2>2 DEF HistoryTypes, Archives
<1> QED
  BY <1>2, <1>3, <1>4, <1>5, <1>6, CompactEffects

LEMMA OthersKeepStore ==
  ASSUME StoreInv,
         \/ \E s \in Sessions : Abort(s) \/ Delete(s)
         \/ \E t \in Turns : CancelAborted(t)
         \/ \E k \in ByHand, s \in Sessions : ForceCompaction(k, s)
         \/ Crash \/ UNCHANGED vars
  PROVE  HistoryTypes' /\ IsFiniteSet(messages') /\ StampsAreTaken'
<1>0. TypeOK /\ HistoryTypes /\ IsFiniteSet(messages) /\ StampsAreTaken
  BY TypesSplit DEF StoreInv
<1>1. CASE Crash
  <2>1. /\ turn' = [t \in Turns |-> IF At(t, "ready") THEN Ready ELSE Done]
        /\ comp' = [k \in Compactors |-> Off]
        /\ UNCHANGED <<messages, archived, lastId, clock, summarised, twice, contested>>
    BY <1>1 DEF Crash, database
  <2>2. /\ Ready \in TurnType(clock) /\ Ready.step = "ready"
        /\ Done \in TurnType(clock) /\ Done.step = "done"
    BY <1>0 DEF HistoryTypes, Ready, Done, TurnType, TurnSteps
  <2>3. HistoryTypes'
    BY <1>0, <2>1, <2>2, OffTypes DEF HistoryTypes
  <2>4. StampsAreTaken'
    BY <1>0, <2>1, <2>2, OffTypes DEF StampsAreTaken
  <2> QED
    BY <1>0, <2>1, <2>3, <2>4
<1>2. ASSUME (\E s \in Sessions : Abort(s) \/ Delete(s)) \/ \E t \in Turns : CancelAborted(t)
      PROVE  HistoryTypes' /\ IsFiniteSet(messages') /\ StampsAreTaken'
  <2>1. /\ messages' \subseteq messages
        /\ UNCHANGED <<lastId, clock, turn, comp, sameHistory>>
    BY <1>2 DEF Abort, Delete, CancelAborted, database, ghosts, sameHistory
  <2>2. IsFiniteSet(messages')
    BY <1>0, <2>1, FS_Subset
  <2> QED
    BY <1>0, <2>1, <2>2 DEF HistoryTypes, StampsAreTaken, sameHistory
<1>3. CASE UNCHANGED vars
  BY <1>0, <1>3 DEF vars, database, ghosts, HistoryTypes, StampsAreTaken
<1>4. ASSUME NEW k \in ByHand, NEW s \in Sessions, ForceCompaction(k, s)
      PROVE  HistoryTypes' /\ IsFiniteSet(messages') /\ StampsAreTaken'
  <2>1. UNCHANGED <<messages, lastId, clock, turn, sameHistory>>
    BY <1>4 DEF ForceCompaction, database, ghosts, sameHistory
  <2>2. /\ comp' \in [Compactors -> CompType(lastId, clock)]
        /\ \A j \in Compactors : comp'[j] = comp[j] \/ comp'[j].step = "read"
    BY <1>0, <1>4, Starting
  <2> QED
    BY <1>0, <2>1, <2>2 DEF HistoryTypes, StampsAreTaken, sameHistory
<1> QED
  BY <1>1, <1>2, <1>3, <1>4

LEMMA StoreInit == Init => StoreInv
<1> SUFFICES ASSUME Init PROVE StoreInv
  OBVIOUS
<1>1. /\ Ready \in TurnType(0) /\ Ready.step = "ready"
      /\ Off \in CompType(0, 0) /\ Off.step = "off"
  BY DEF Ready, Off, TurnType, CompType, TurnSteps
<1>2. HistoryTypes
  BY <1>1 DEF Init, HistoryTypes
<1>3. OtherTypes
  BY ConversationAssumption DEF Init, OtherTypes
<1>4. StampsAreTaken /\ IsFiniteSet(messages)
  BY <1>1, FS_EmptySet DEF Init, StampsAreTaken
<1> QED
  BY <1>2, <1>3, <1>4, TypesSplit DEF StoreInv

LEMMA StoreStep == RunInv /\ MarkInv /\ StoreInv /\ [Next]_vars => StoreInv'
<1> SUFFICES ASSUME RunInv, MarkInv, StoreInv, [Next]_vars PROVE StoreInv'
  OBVIOUS
<1>1. OtherTypes'
  BY OtherTypesStep DEF StoreInv
<1>2. HistoryTypes' /\ IsFiniteSet(messages') /\ StampsAreTaken'
  BY TurnKeepsStore, CompactKeepsStore, OthersKeepStore DEF Next, Turns
<1> QED
  BY <1>1, <1>2, TypesSplit DEF StoreInv

ConversationInv == RunInv /\ MarkInv /\ StoreInv

LEMMA ConversationInit == Init => ConversationInv
<1>1. Init => MarkInv
  BY BackgroundCompacts DEF Init, MarkInv, Compacting, Off
<1> QED
  BY <1>1, RunInit, StoreInit DEF ConversationInv

LEMMA ConversationStep == ConversationInv /\ [Next]_vars => ConversationInv'
BY RunStep, MarkStep, StoreStep DEF ConversationInv

\* Every variable keeps its type: stamps are readings of the clock that has been
\* read, ids those that have been given, and a running compaction refers to rows
\* that were in the table.
THEOREM ConversationTypes == Spec => []TypeOK
<1>1. ConversationInv => TypeOK
  BY DEF ConversationInv, StoreInv
<1> QED
  BY <1>1, ConversationInit, ConversationStep, PTL DEF Spec

-----------------------------------------------------------------------------
(***************************************************************************)
(* The history of a session: what is archived and what summarised.         *)
(***************************************************************************)
UniqueIds == \A m, n \in messages : m.id = n.id => m = n

\* No reading of the clock is given to two rows.
UniqueStamps ==
  /\ \A m, n \in messages : m.stamp = n.stamp => m = n
  /\ \A t \in Turns : turn[t].stamp # 0 =>
       /\ \A m \in messages : m.stamp # turn[t].stamp
       /\ \A u \in Turns : turn[u].stamp = turn[t].stamp => u = t
       /\ \A k \in Compactors : comp[k].stamp # turn[t].stamp
  /\ \A k \in Compactors : comp[k].stamp # 0 =>
       /\ \A m \in messages : m.stamp # comp[k].stamp
       /\ \A j \in Compactors : comp[j].stamp = comp[k].stamp => j = k

HasRead(k) == comp[k].step \in {"ask", "insert", "archive"}

\* What a compaction has read is of its session, and the last of it still there: a
\* session goes as a whole.
OldAreOld ==
  \A k \in Compactors : HasRead(k) => \A m \in messages : m.id \in comp[k].old =>
    /\ m.session = comp[k].session
    /\ \E n \in messages :
         n.session = m.session /\ n.id = comp[k].last /\ n.stamp >= m.stamp

\* What it has not read, and will yet archive, came in under an earlier id with a
\* later stamp.
RestIsNewer ==
  \A k \in Compactors : HasRead(k) => \A m \in messages :
    m.session = comp[k].session /\ m.id <= comp[k].last /\ m.id \notin archived
      => m.id \in comp[k].old \/ Overtook(m)

SummaryIsStored ==
  \A k \in Compactors : comp[k].step = "archive" => comp[k].old \subseteq summarised

\* A row that is summarised and still active is about to be archived, or will not
\* be by the compaction that has summarised it, or is contested.
SummarisedLeave ==
  \A m \in messages : m.id \in summarised /\ m.id \notin archived =>
    \/ Excused(m)
    \/ \E k \in Compactors :
         comp[k].step = "archive" /\ comp[k].session = m.session /\ m.id \in comp[k].old

\* What two compactions have in hand is contested.
SharedAreContested ==
  \A j, k \in Compactors : j # k /\ HasRead(j) /\ HasRead(k) =>
    \A m \in messages : m.id \in comp[j].old \cap comp[k].old => m.id \in contested

\* What a compaction is yet to summarise has not been.
OldAreNew ==
  \A k \in Compactors : comp[k].step \in {"ask", "insert"} =>
    \A m \in messages : m.id \in comp[k].old \cap summarised => Excused(m)

HistoryInv ==
  /\ OldAreOld /\ RestIsNewer /\ SummaryIsStored /\ SummarisedLeave
  /\ SharedAreContested /\ OldAreNew
  /\ SummarisedOnce /\ ArchivedAreSummarised

RowInv == UniqueIds /\ UniqueStamps

\* What the types say of numbers.
LEMMA Numbers ==
  ASSUME HistoryTypes
  PROVE  /\ lastId \in Nat /\ clock \in Nat
         /\ \A m \in messages : m.id \in 1..lastId /\ m.stamp \in 1..clock
         /\ \A t \in Turns : turn[t].stamp \in 0..clock
         /\ \A k \in Compactors : /\ comp[k].stamp \in 0..clock /\ comp[k].last \in 0..lastId
                                  /\ comp[k].old \subseteq 1..lastId
<1>1. \A t \in Turns : turn[t] \in TurnType(clock)
  BY DEF HistoryTypes
<1>2. \A k \in Compactors : comp[k] \in CompType(lastId, clock)
  BY DEF HistoryTypes
<1> QED
  BY <1>1, <1>2 DEF HistoryTypes, MessageType, TurnType, CompType

\* Stamps change hands: given to one who holds them until a row has them.
LEMMA NoNewStamp ==
  ASSUME RowInv, messages' \subseteq messages,
         \A t \in Turns : turn'[t].stamp \in {0, turn[t].stamp},
         \A k \in Compactors : comp'[k].stamp \in {0, comp[k].stamp}
  PROVE  RowInv'
BY DEF RowInv, UniqueIds, UniqueStamps

LEMMA TurnTakesStamp ==
  ASSUME HistoryTypes, RowInv, NEW t \in Turns, Reads(t)
  PROVE  RowInv'
<1>1. /\ turn'[t].stamp = clock + 1 /\ UNCHANGED <<messages, comp>>
      /\ \A u \in Turns \ {t} : turn'[u] = turn[u]
  BY DEF Reads, TurnMoves
<1> QED
  BY <1>1, Numbers DEF RowInv, UniqueIds, UniqueStamps

LEMMA CompactionTakesStamp ==
  ASSUME HistoryTypes, RowInv, NEW k \in Compactors, Asks(k), UNCHANGED turn
  PROVE  RowInv'
<1>1. /\ comp'[k].stamp = clock + 1 /\ UNCHANGED messages
      /\ \A j \in Compactors \ {k} : comp'[j] = comp[j]
  BY DEF Asks, HistoryTypes
<1> QED
  BY <1>1, Numbers DEF RowInv, UniqueIds, UniqueStamps

LEMMA RowTakesStamp ==
  ASSUME HistoryTypes, RowInv, NEW s, NEW stamp \in 1..clock, Store(s, stamp),
         \A m \in messages : m.stamp # stamp,
         \A t \in Turns : turn'[t].stamp \in {0, turn[t].stamp} /\ turn'[t].stamp # stamp,
         \A k \in Compactors : comp'[k].stamp \in {0, comp[k].stamp} /\ comp'[k].stamp # stamp
  PROVE  RowInv'
<1> DEFINE new == [id |-> lastId + 1, session |-> s, stamp |-> stamp]
<1>1. messages' = messages \cup {new} /\ new.id = lastId + 1 /\ new.stamp = stamp
  BY DEF Store, NextId
<1> HIDE DEF new
<1>2. UniqueIds'
  BY <1>1, Numbers DEF RowInv, UniqueIds
<1>3. UniqueStamps'
  BY <1>1, Numbers DEF RowInv, UniqueStamps
<1> QED
  BY <1>2, <1>3 DEF RowInv

LEMMA RowStep == ConversationInv /\ RowInv /\ [Next]_vars => RowInv'
<1> SUFFICES ASSUME ConversationInv, RowInv, [Next]_vars PROVE RowInv'
  OBVIOUS
<1>0. HistoryTypes /\ TypeOK /\ RunInv /\ MarkInv /\ StampsAreTaken
  BY TypesSplit DEF ConversationInv, StoreInv
<1>1. ASSUME NEW t \in Turns, Chat(t) \/ Receive(t) \/ Inject(t) \/ TurnStep(t) PROVE RowInv'
  <2>1. \A k \in Compactors : comp'[k].stamp \in {0, comp[k].stamp}
    <3>1. UNCHANGED comp \/ \E s \in Sessions : Trigger(s)
      BY <1>0, <1>1, TurnElsewhere
    <3> QED
      BY <1>0, <3>1, Starting
  <2>2. CASE Moves(t)
    BY <2>1, <2>2, NoNewStamp DEF Moves, TurnMoves
  <2>3. CASE Reads(t)
    BY <1>0, <2>3, TurnTakesStamp
  <2>4. CASE Stores(t)
    <3> DEFINE stamp == turn[t].stamp
    <3>1. stamp \in 1..clock
      BY <1>0, <2>4, Numbers DEF StampsAreTaken, Stores, Inserting
    <3>2. /\ Store(turn[t].session, stamp) /\ UNCHANGED comp
          /\ \A u \in Turns : turn'[u].stamp = IF u = t THEN 0 ELSE turn[u].stamp
      BY <2>4 DEF Stores, TurnMoves
    <3>3. /\ \A m \in messages : m.stamp # stamp
          /\ \A u \in Turns : u # t => turn[u].stamp # stamp
          /\ \A k \in Compactors : comp[k].stamp # stamp
      BY <3>1 DEF RowInv, UniqueStamps
    <3> HIDE DEF stamp
    <3> QED
      BY <1>0, <3>1, <3>2, <3>3, RowTakesStamp
  <2> QED
    BY <1>0, <1>1, <2>2, <2>3, <2>4, TurnEffects
<1>2. ASSUME NEW k \in Compactors, CompactStep(k) PROVE RowInv'
  <2>0. UNCHANGED turn /\ DOMAIN comp = Compactors
    BY <1>2, CompactEffects, <1>0 DEF MarkInv
  <2>1. CASE Ends(k) \/ ReadsOld(k) \/ Archives(k)
    <3>1. /\ UNCHANGED messages
          /\ \A j \in Compactors : comp'[j].stamp = IF j = k THEN 0 ELSE comp[j].stamp
      BY <2>0, <2>1 DEF Ends, ReadsOld, Archives, Off
    <3> QED
      BY <2>0, <3>1, NoNewStamp
  <2>2. CASE Asks(k)
    BY <1>0, <2>0, <2>2, CompactionTakesStamp
  <2>3. CASE Summarises(k)
    <3> DEFINE stamp == comp[k].stamp
    <3>1. stamp \in 1..clock
      BY <1>0, <2>3, Numbers DEF StampsAreTaken, Summarises
    <3>2. /\ Store(comp[k].session, stamp)
          /\ \A j \in Compactors : comp'[j].stamp = IF j = k THEN 0 ELSE comp[j].stamp
      BY <2>0, <2>3 DEF Summarises
    <3>3. /\ \A m \in messages : m.stamp # stamp
          /\ \A u \in Turns : turn[u].stamp # stamp
          /\ \A j \in Compactors : j # k => comp[j].stamp # stamp
      BY <3>1 DEF RowInv, UniqueStamps
    <3> HIDE DEF stamp
    <3> QED
      BY <1>0, <2>0, <3>1, <3>2, <3>3, RowTakesStamp
  <2> QED
    BY <1>2, <2>1, <2>2, <2>3, CompactEffects
<1>3. ASSUME (\E s \in Sessions : Abort(s) \/ Delete(s)) \/ \E t \in Turns : CancelAborted(t)
      PROVE  RowInv'
  <2>1. messages' \subseteq messages /\ UNCHANGED <<turn, comp>>
    BY <1>3 DEF Abort, Delete, CancelAborted, database
  <2> QED
    BY <2>1, NoNewStamp
<1>4. CASE Crash
  <2>1. /\ messages' = messages
        /\ turn' = [t \in Turns |-> IF At(t, "ready") THEN Ready ELSE Done]
        /\ comp' = [k \in Compactors |-> Off]
    BY <1>4 DEF Crash, database
  <2> QED
    BY <2>1, NoNewStamp DEF Ready, Done, Off
<1>5. CASE UNCHANGED vars
  BY <1>5 DEF vars, database, RowInv, UniqueIds, UniqueStamps
<1>6. ASSUME NEW k \in ByHand, NEW s \in Sessions, ForceCompaction(k, s) PROVE RowInv'
  <2>1. UNCHANGED <<messages, turn>>
    BY <1>6 DEF ForceCompaction, database
  <2>2. \A j \in Compactors : comp'[j].stamp \in {0, comp[j].stamp}
    BY <1>0, <1>6, Starting
  <2> QED
    BY <2>1, <2>2, NoNewStamp
<1> QED
  BY <1>1, <1>2, <1>3, <1>4, <1>5, <1>6 DEF Next, Turns

\* Steps that leave what is summarised and archived alone: rows are added under new
\* ids, and go with all of their session; compactions stay where they were or end
\* before they have stored a summary.
LEMMA HistoryKept ==
  ASSUME HistoryTypes, HistoryInv, UNCHANGED sameHistory,
         \A m \in messages' : m \in messages \/ (m.id \in Nat /\ m.id > lastId),
         \A m, n \in messages : m \in messages' /\ n.session = m.session => n \in messages',
         \A k \in Compactors : HasRead(k)' =>
           /\ HasRead(k) /\ comp'[k].session = comp[k].session
           /\ comp'[k].old = comp[k].old /\ comp'[k].last = comp[k].last
           /\ comp'[k].step = "archive" => comp[k].step = "archive",
         \A k \in Compactors : comp[k].step = "archive" => comp'[k] = comp[k]
  PROVE  HistoryInv'
<1>1. UNCHANGED <<archived, summarised, twice, cut, contested>>
  BY DEF sameHistory
<1>2. ASSUME NEW m \in messages', m \in messages
      PROVE  /\ Overtook(m) => Overtook(m)'
             /\ Excused(m) => Excused(m)'
  BY <1>1, <1>2 DEF Overtook, Overtaken, Excused
<1>3. \A i \in Nat : i > lastId => /\ i \notin archived /\ i \notin summarised /\ i \notin twice
                                   /\ \A k \in Compactors : i \notin comp[k].old
                                                            /\ ~(i <= comp[k].last)
  BY Numbers DEF HistoryTypes
<1>4. OldAreOld'
  <2> SUFFICES ASSUME NEW k \in Compactors, HasRead(k)',
                      NEW m \in messages', m.id \in comp'[k].old
               PROVE  /\ m.session = comp'[k].session
                      /\ \E n \in messages' : /\ n.session = m.session /\ n.id = comp'[k].last
                                              /\ n.stamp >= m.stamp
    BY <1>1 DEF OldAreOld
  <2>1. HasRead(k) /\ comp'[k].session = comp[k].session
        /\ comp'[k].old = comp[k].old /\ comp'[k].last = comp[k].last
    OBVIOUS
  <2>2. m \in messages
    BY <1>3, <2>1
  <2>3. m.session = comp[k].session
    BY <2>1, <2>2 DEF HistoryInv, OldAreOld
  <2>4. PICK n \in messages : /\ n.session = m.session /\ n.id = comp[k].last
                              /\ n.stamp >= m.stamp
    BY <2>1, <2>2 DEF HistoryInv, OldAreOld
  <2>5. n \in messages'
    BY <2>2, <2>4
  <2> QED
    BY <2>1, <2>3, <2>4, <2>5
<1>5. RestIsNewer'
  <2> SUFFICES ASSUME NEW k \in Compactors, HasRead(k)', NEW m \in messages',
                      m.session = comp'[k].session, m.id <= comp'[k].last,
                      m.id \notin archived, m.id \notin comp'[k].old
               PROVE  Overtook(m)'
    BY <1>1 DEF RestIsNewer
  <2>1. HasRead(k) /\ comp'[k].session = comp[k].session
        /\ comp'[k].old = comp[k].old /\ comp'[k].last = comp[k].last
    OBVIOUS
  <2>2. m \in messages
    BY <1>3, <2>1
  <2>3. Overtook(m)
    BY <2>1, <2>2 DEF HistoryInv, RestIsNewer
  <2> QED
    BY <1>2, <2>2, <2>3
<1>6. SummaryIsStored'
  BY <1>1 DEF HistoryInv, SummaryIsStored, HasRead
<1>7. SummarisedLeave'
  <2> SUFFICES ASSUME NEW m \in messages', m.id \in summarised, m.id \notin archived,
                      ~Excused(m)'
               PROVE  \E k \in Compactors : /\ comp'[k].step = "archive"
                                            /\ comp'[k].session = m.session
                                            /\ m.id \in comp'[k].old
    BY <1>1 DEF SummarisedLeave
  <2>1. m \in messages
    BY <1>3
  <2>2. ~Excused(m)
    BY <1>2, <2>1
  <2>3. PICK k \in Compactors : /\ comp[k].step = "archive" /\ comp[k].session = m.session
                                /\ m.id \in comp[k].old
    BY <2>1, <2>2 DEF HistoryInv, SummarisedLeave
  <2>4. comp'[k] = comp[k]
    BY <2>3
  <2> QED
    BY <2>3, <2>4
<1>8. SummarisedOnce'
  <2> SUFFICES ASSUME NEW m \in messages', m.id \in twice PROVE Excused(m)'
    BY <1>1 DEF SummarisedOnce
  <2>1. m \in messages
    BY <1>3
  <2> QED
    BY <1>2, <2>1 DEF HistoryInv, SummarisedOnce
<1>10. SharedAreContested'
  <2> SUFFICES ASSUME NEW j \in Compactors, NEW k \in Compactors, j # k,
                      HasRead(j)', HasRead(k)', NEW m \in messages',
                      m.id \in comp'[j].old \cap comp'[k].old
               PROVE  m.id \in contested
    BY <1>1 DEF SharedAreContested
  <2>1. /\ HasRead(j) /\ HasRead(k)
        /\ comp'[j].old = comp[j].old /\ comp'[k].old = comp[k].old
    OBVIOUS
  <2>2. m \in messages
    BY <1>3, <2>1
  <2> QED
    BY <2>1, <2>2 DEF HistoryInv, SharedAreContested
<1>11. OldAreNew'
  <2> SUFFICES ASSUME NEW k \in Compactors, comp'[k].step \in {"ask", "insert"},
                      NEW m \in messages', m.id \in comp'[k].old \cap summarised
               PROVE  Excused(m)'
    BY <1>1 DEF OldAreNew
  <2>1. HasRead(k)'
    BY DEF HasRead
  <2>2. HasRead(k) /\ comp'[k].old = comp[k].old /\ comp[k].step \in {"ask", "insert"}
    <3>1. HasRead(k) /\ comp'[k].old = comp[k].old
      BY <2>1
    <3>2. comp[k].step # "archive"
      OBVIOUS
    <3> QED
      BY <3>1, <3>2 DEF HasRead
  <2>3. m \in messages
    BY <1>3, <2>2
  <2> QED
    BY <1>2, <2>2, <2>3 DEF HistoryInv, OldAreNew
<1>9. ArchivedAreSummarised'
  <2> SUFFICES ASSUME NEW m \in messages', m.id \in archived, m.id \notin summarised
               PROVE  Overtook(m)'
    BY <1>1 DEF ArchivedAreSummarised
  <2>1. m \in messages
    BY <1>3
  <2> QED
    BY <1>2, <2>1 DEF HistoryInv, ArchivedAreSummarised
<1> QED
  BY <1>4, <1>5, <1>6, <1>7, <1>8, <1>9, <1>10, <1>11 DEF HistoryInv

\* Reading the old messages.
LEMMA RestIsLater ==
  ASSUME HistoryTypes, IsFiniteSet(messages), RowInv, NEW s, OldMessages(s) # {},
         NEW m \in Active(s), m \notin OldMessages(s), m.id <= Latest(OldMessages(s)).id
  PROVE  Overtook(m)
<1> DEFINE old == OldMessages(s)
           last == Latest(old)
           later(i) == {n \in Active(s) : n.stamp > i.stamp}
<1>1. /\ last \in old /\ old \subseteq Active(s) /\ Active(s) \subseteq messages
      /\ last.session = s /\ m.session = s
  BY OldTypes DEF Active
<1>2. /\ last.stamp \in Nat /\ m.stamp \in Nat /\ last.id \in Nat /\ m.id \in Nat
      /\ \A n \in Active(s) : n.stamp \in Nat
  BY <1>1, Numbers
<1>3. m # last
  BY <1>1
<1>4. last.stamp < m.stamp
  <2> SUFFICES ASSUME m.stamp <= last.stamp PROVE FALSE
    BY <1>2
  <2>1. later(last) \subseteq later(m)
    BY <1>2
  <2>2. IsFiniteSet(later(m))
    BY <1>1, FS_Subset
  <2>3. /\ Cardinality(later(last)) <= Cardinality(later(m))
        /\ Cardinality(later(last)) \in Nat /\ Cardinality(later(m)) \in Nat
    BY <2>1, <2>2, FS_Subset, FS_CardinalityType
  <2>4. Cardinality(later(last)) >= Keep
    BY <1>1 DEF OldMessages
  <2>5. Cardinality(later(m)) >= Keep
    BY <2>3, <2>4, ConversationAssumption
  <2> QED
    BY <2>5 DEF OldMessages
<1>5. m.id < last.id
  BY <1>1, <1>2, <1>3 DEF RowInv, UniqueIds
<1> HIDE DEF last
<1> QED
  BY <1>1, <1>2, <1>4, <1>5 DEF Overtook

LEMMA ReadingKeeps ==
  ASSUME ConversationInv, RowInv, HistoryInv, NEW k \in Compactors, ReadsOld(k)
  PROVE  HistoryInv'
<1> DEFINE s == comp[k].session
           old == OldMessages(s)
           last == Latest(old)
<1>0. HistoryTypes /\ MarkInv /\ IsFiniteSet(messages) /\ DOMAIN comp = Compactors
  BY TypesSplit DEF ConversationInv, StoreInv, MarkInv
<1>1. UNCHANGED <<messages, archived, summarised, twice, cut>> /\ comp[k].step = "read"
  BY DEF ReadsOld
<1>2. /\ comp'[k].step = "ask" /\ comp'[k].session = s
      /\ comp'[k].old = {m.id : m \in old} /\ comp'[k].last = last.id
      /\ contested' = contested \cup (comp'[k].old \cap Shared(k))
      /\ \A j \in Compactors \ {k} : comp'[j] = comp[j]
  BY <1>0 DEF ReadsOld
<1>3. /\ old # {} /\ last \in old /\ old \subseteq Active(s) /\ Active(s) \subseteq messages
      /\ \A m \in old : m.stamp <= last.stamp
  BY <1>0, OldTypes DEF ReadsOld
<1>4. OldAreOld'
  <2> SUFFICES ASSUME NEW m \in messages, m.id \in comp'[k].old
               PROVE  /\ m.session = s
                      /\ \E n \in messages : /\ n.session = m.session /\ n.id = last.id
                                             /\ n.stamp >= m.stamp
    BY <1>1, <1>2 DEF HistoryInv, OldAreOld, HasRead
  <2>1. m \in old
    BY <1>2, <1>3 DEF RowInv, UniqueIds
  <2>2. m.session = s /\ m.id \notin archived /\ last.session = s
    BY <1>3, <2>1 DEF Active
  <2>3. last.stamp >= m.stamp
    BY <1>0, <1>3, <2>1, Numbers
  <2> QED
    BY <1>3, <2>2, <2>3
<1>5. RestIsNewer'
  <2>1. ASSUME NEW m \in messages, m.session = s, m.id <= last.id,
               m.id \notin archived, m.id \notin comp'[k].old
        PROVE  Overtook(m)
    <3>1. m \in Active(s) /\ m \notin old
      BY <1>2, <2>1 DEF Active
    <3> QED
      BY <1>0, <1>3, <2>1, <3>1, RestIsLater
  <2> QED
    BY <1>1, <1>2, <2>1 DEF HistoryInv, RestIsNewer, HasRead, Overtook
<1>6. \A m \in messages : Excused(m) => Excused(m)'
  BY <1>1, <1>2 DEF Excused, Overtaken
<1>7. SummaryIsStored' /\ SummarisedLeave'
  <2>1. \A j \in Compactors : comp[j].step = "archive" => comp'[j] = comp[j]
    BY <1>1, <1>2
  <2>2. \A j \in Compactors : comp'[j].step = "archive" => comp'[j] = comp[j]
    BY <1>2
  <2> QED
    BY <1>1, <1>6, <2>1, <2>2 DEF HistoryInv, SummaryIsStored, SummarisedLeave
<1>8. SummarisedOnce' /\ ArchivedAreSummarised'
  BY <1>1, <1>6 DEF HistoryInv, SummarisedOnce, ArchivedAreSummarised, Overtook
<1>9. ASSUME NEW j \in Compactors, j # k, HasRead(j), NEW m \in messages,
             m.id \in comp[j].old, m.id \in comp'[k].old
      PROVE  m.id \in contested'
  <2>1. m.session = s /\ m.session = comp[j].session
    <3>1. m \in old
      BY <1>2, <1>3, <1>9 DEF RowInv, UniqueIds
    <3> QED
      BY <1>3, <1>9, <3>1 DEF Active, HistoryInv, OldAreOld
  <2>2. j \in ByHand \/ k \in ByHand
    BY <1>0, <1>1, <1>9, <2>1 DEF MarkInv, Compacting, Background
  <2>3. comp[j].old \subseteq Shared(k)
    BY <1>9, <2>2 DEF Shared
  <2> QED
    BY <1>2, <1>9, <2>3
<1>10. SharedAreContested'
  <2> SUFFICES ASSUME NEW i \in Compactors, NEW j \in Compactors, i # j,
                      HasRead(i)', HasRead(j)', NEW m \in messages,
                      m.id \in comp'[i].old \cap comp'[j].old
               PROVE  m.id \in contested'
    BY <1>1 DEF SharedAreContested
  <2>1. CASE i = k \/ j = k
    BY <1>2, <1>9, <2>1 DEF HasRead
  <2>2. CASE i # k /\ j # k
    BY <1>2, <2>2 DEF HistoryInv, SharedAreContested, HasRead
  <2> QED
    BY <2>1, <2>2
<1>11. OldAreNew'
  <2> SUFFICES ASSUME NEW j \in Compactors, comp'[j].step \in {"ask", "insert"},
                      NEW m \in messages, m.id \in comp'[j].old \cap summarised
               PROVE  Excused(m)'
    BY <1>1 DEF OldAreNew
  <2>1. CASE j = k
    <3>1. m \in old
      BY <1>2, <1>3, <2>1 DEF RowInv, UniqueIds
    <3>2. m.id \notin archived
      BY <1>3, <3>1 DEF Active
    <3>3. CASE Excused(m)
      BY <1>6, <3>3
    <3>4. ASSUME NEW i \in Compactors, comp[i].step = "archive", m.id \in comp[i].old
          PROVE  Excused(m)'
      <4>1. i # k /\ HasRead(i)
        BY <1>1, <3>4 DEF HasRead
      <4> QED
        BY <1>9, <2>1, <3>4, <4>1 DEF Excused
    <3> QED
      BY <3>2, <3>3, <3>4 DEF HistoryInv, SummarisedLeave
  <2>2. CASE j # k
    BY <1>2, <1>6, <2>2 DEF HistoryInv, OldAreNew
  <2> QED
    BY <2>1, <2>2
<1> QED
  BY <1>4, <1>5, <1>7, <1>8, <1>10, <1>11 DEF HistoryInv

\* Storing the summary: who has summarised one of the old messages before has been
\* cut short, has left it out, or had it in hand at the same time.
LEMMA SummarisingKeeps ==
  ASSUME ConversationInv, RowInv, HistoryInv, NEW k \in Compactors, Summarises(k)
  PROVE  HistoryInv'
<1> DEFINE s == comp[k].session
           new == [id |-> lastId + 1, session |-> s, stamp |-> comp[k].stamp]
<1>0. HistoryTypes /\ MarkInv
  BY TypesSplit DEF ConversationInv, StoreInv
<1>1. /\ messages' = messages \cup {new} /\ new.id = lastId + 1
      /\ summarised' = summarised \cup comp[k].old
      /\ twice' = twice \cup (summarised \cap comp[k].old)
      /\ UNCHANGED <<archived, cut, contested>> /\ comp[k].step = "insert"
  BY DEF Summarises, Store, NextId
<1>2. /\ comp'[k].step = "archive" /\ comp'[k].session = s
      /\ comp'[k].old = comp[k].old /\ comp'[k].last = comp[k].last
      /\ \A j \in Compactors \ {k} : comp'[j] = comp[j]
  BY <1>0 DEF Summarises, MarkInv
<1> HIDE DEF new
<1>3. new.id \notin archived' /\ new.id \notin summarised' /\ new.id \notin twice'
      /\ \A j \in Compactors : new.id \notin comp[j].old /\ ~(new.id <= comp[j].last)
  BY <1>0, <1>1, Numbers DEF HistoryTypes
<1>4. \A m \in messages : /\ Overtook(m) => Overtook(m)'
                          /\ Excused(m) => Excused(m)'
  BY <1>1 DEF Overtook, Overtaken, Excused
<1>5. \A j \in Compactors : HasRead(j)' =>
        /\ HasRead(j) /\ comp'[j].session = comp[j].session
        /\ comp'[j].old = comp[j].old /\ comp'[j].last = comp[j].last
  BY <1>1, <1>2 DEF HasRead
<1>6. OldAreOld'
  <2> SUFFICES ASSUME NEW j \in Compactors, HasRead(j)', NEW m \in messages',
                      m.id \in comp'[j].old
               PROVE  /\ m.session = comp'[j].session
                      /\ \E n \in messages' : /\ n.session = m.session /\ n.id = comp'[j].last
                                              /\ n.stamp >= m.stamp
    BY <1>1 DEF OldAreOld
  <2>1. m \in messages /\ HasRead(j) /\ m.id \in comp[j].old
    BY <1>1, <1>3, <1>5
  <2> QED
    BY <1>1, <1>5, <2>1 DEF HistoryInv, OldAreOld
<1>7. RestIsNewer'
  <2> SUFFICES ASSUME NEW j \in Compactors, HasRead(j)', NEW m \in messages',
                      m.session = comp'[j].session, m.id <= comp'[j].last,
                      m.id \notin archived, m.id \notin comp'[j].old
               PROVE  Overtook(m)'
    BY <1>1 DEF RestIsNewer
  <2>1. m \in messages /\ HasRead(j)
    BY <1>1, <1>3, <1>5
  <2> QED
    BY <1>4, <1>5, <2>1 DEF HistoryInv, RestIsNewer
<1>8. SummaryIsStored'
  BY <1>1, <1>2 DEF HistoryInv, SummaryIsStored
<1>9. SummarisedLeave'
  <2> SUFFICES ASSUME NEW m \in messages', m.id \in summarised', m.id \notin archived,
                      ~Excused(m)'
               PROVE  \E j \in Compactors : /\ comp'[j].step = "archive"
                                            /\ comp'[j].session = m.session
                                            /\ m.id \in comp'[j].old
    BY <1>1 DEF SummarisedLeave
  <2>1. m \in messages
    BY <1>1, <1>3
  <2>2. CASE m.id \in comp[k].old
    <3>1. m.session = s
      BY <1>1, <2>1, <2>2 DEF HistoryInv, OldAreOld, HasRead
    <3> QED
      BY <1>2, <2>2, <3>1
  <2>3. CASE m.id \in summarised
    <3>1. PICK j \in Compactors : /\ comp[j].step = "archive" /\ comp[j].session = m.session
                                  /\ m.id \in comp[j].old
      BY <1>4, <2>1, <2>3 DEF HistoryInv, SummarisedLeave
    <3>2. j # k /\ comp'[j] = comp[j]
      BY <1>1, <1>2, <3>1
    <3> QED
      BY <3>1, <3>2
  <2> QED
    BY <1>1, <2>2, <2>3
<1>10. SummarisedOnce'
  <2> SUFFICES ASSUME NEW m \in messages', m.id \in twice' PROVE Excused(m)'
    BY <1>1 DEF SummarisedOnce
  <2>1. m \in messages
    BY <1>1, <1>3
  <2>2. CASE m.id \in twice
    BY <1>4, <2>1, <2>2 DEF HistoryInv, SummarisedOnce
  <2>3. CASE m.id \in summarised /\ m.id \in comp[k].old
    BY <1>1, <1>4, <2>1, <2>3 DEF HistoryInv, OldAreNew
  <2> QED
    BY <1>1, <2>2, <2>3
<1>11. ArchivedAreSummarised'
  BY <1>1, <1>3, <1>4 DEF HistoryInv, ArchivedAreSummarised
<1>12. SharedAreContested'
  <2> SUFFICES ASSUME NEW i \in Compactors, NEW j \in Compactors, i # j,
                      HasRead(i)', HasRead(j)', NEW m \in messages',
                      m.id \in comp'[i].old \cap comp'[j].old
               PROVE  m.id \in contested
    BY <1>1 DEF SharedAreContested
  <2>1. m \in messages
    BY <1>1, <1>3, <1>5
  <2> QED
    BY <1>5, <2>1 DEF HistoryInv, SharedAreContested
<1>13. OldAreNew'
  <2> SUFFICES ASSUME NEW j \in Compactors, comp'[j].step \in {"ask", "insert"},
                      NEW m \in messages', m.id \in comp'[j].old, m.id \in summarised'
               PROVE  Excused(m)'
    BY DEF OldAreNew
  <2>1. j # k /\ comp'[j] = comp[j] /\ m \in messages
    BY <1>1, <1>2, <1>3
  <2>2. CASE m.id \in summarised
    BY <1>4, <2>1, <2>2 DEF HistoryInv, OldAreNew
  <2>3. CASE m.id \in comp[k].old
    <3>1. m.id \in contested
      BY <1>1, <2>1, <2>3 DEF HistoryInv, SharedAreContested, HasRead
    <3> QED
      BY <1>1, <3>1 DEF Excused
  <2> QED
    BY <1>1, <2>2, <2>3
<1> QED
  BY <1>6, <1>7, <1>8, <1>9, <1>10, <1>11, <1>12, <1>13 DEF HistoryInv

\* Archiving: of what the compaction has summarised it leaves out the messages with
\* later ids, and what it takes besides has come in late.
LEMMA ArchivingKeeps ==
  ASSUME ConversationInv, RowInv, HistoryInv, NEW k \in Compactors, Archives(k)
  PROVE  HistoryInv'
<1> DEFINE s == comp[k].session
           gone == Archive(s, comp[k].last)
<1>0. HistoryTypes /\ MarkInv
  BY TypesSplit DEF ConversationInv, StoreInv
<1>1. UNCHANGED <<messages, summarised, twice, contested>> /\ comp[k].step = "archive" /\ s # None
  BY <1>0 DEF Archives, MarkInv, Compacting
<1>2. /\ comp'[k].step = "off" /\ comp'[k].session = None
      /\ \A j \in Compactors \ {k} : comp'[j] = comp[j]
  BY <1>0 DEF Archives, MarkInv, Off
<1>3. \/ archived' = archived \cup gone /\ cut' = cut
      \/ cut' = cut \cup {s} /\ archived' = archived
  BY DEF Archives
<1>4. \A m \in messages : m.id \in gone <=> m \in Active(s) /\ m.id <= comp[k].last
  BY DEF Archive, Active, RowInv, UniqueIds
<1>5. \A j \in Compactors : HasRead(j)' => HasRead(j) /\ comp'[j] = comp[j]
  BY <1>2 DEF HasRead
<1>6. \A m \in messages : m.id \notin archived' => m.id \notin archived
  BY <1>3
<1>7. \A m \in messages : Excused(m) => Excused(m)'
  BY <1>1, <1>3 DEF Excused, Overtaken
<1>8. OldAreOld'
  BY <1>1, <1>5 DEF HistoryInv, OldAreOld
<1>9. RestIsNewer'
  BY <1>1, <1>5, <1>6 DEF HistoryInv, RestIsNewer, Overtook
<1>10. SummaryIsStored'
  BY <1>1, <1>5 DEF HistoryInv, SummaryIsStored, HasRead
<1>11. SummarisedLeave'
  <2> SUFFICES ASSUME NEW m \in messages, m.id \in summarised, m.id \notin archived',
                      ~Excused(m)'
               PROVE  \E j \in Compactors : /\ comp'[j].step = "archive"
                                            /\ comp'[j].session = m.session
                                            /\ m.id \in comp'[j].old
    BY <1>1 DEF SummarisedLeave
  <2>1. PICK j \in Compactors : /\ comp[j].step = "archive" /\ comp[j].session = m.session
                                /\ m.id \in comp[j].old
    BY <1>6, <1>7 DEF HistoryInv, SummarisedLeave
  <2>2. CASE j = k
    <3>1. m.session = s /\ archived' = archived \cup gone
      BY <1>3, <2>1, <2>2 DEF Excused
    <3>2. ~(m.id <= comp[k].last)
      BY <1>4, <1>6, <3>1 DEF Active
    <3>3. PICK n \in messages : /\ n.session = m.session /\ n.id = comp[k].last
                                /\ n.stamp >= m.stamp
      BY <1>1, <2>1, <2>2 DEF HistoryInv, OldAreOld, HasRead
    <3>4. n.id < m.id /\ n # m
      BY <1>0, <3>2, <3>3, Numbers
    <3>5. n.stamp > m.stamp
      BY <1>0, <3>3, <3>4, Numbers DEF RowInv, UniqueStamps
    <3> QED
      BY <1>1, <3>3, <3>4, <3>5 DEF Excused, Overtaken
  <2>3. CASE j # k
    BY <1>2, <2>1, <2>3
  <2> QED
    BY <2>2, <2>3
<1>12. SummarisedOnce' /\ SharedAreContested' /\ OldAreNew'
  <2>1. SummarisedOnce'
    BY <1>1, <1>7 DEF HistoryInv, SummarisedOnce
  <2>2. SharedAreContested'
    BY <1>1, <1>5 DEF HistoryInv, SharedAreContested
  <2>3. OldAreNew'
    BY <1>1, <1>2, <1>7 DEF HistoryInv, OldAreNew
  <2> QED
    BY <2>1, <2>2, <2>3
<1>13. ArchivedAreSummarised'
  <2> SUFFICES ASSUME NEW m \in messages, m.id \in archived', m.id \notin summarised
               PROVE  Overtook(m)
    BY <1>1 DEF ArchivedAreSummarised, Overtook
  <2>1. CASE m.id \in archived
    BY <2>1 DEF HistoryInv, ArchivedAreSummarised
  <2>2. CASE m.id \notin archived
    <3>1. m.session = s /\ m.id <= comp[k].last
      BY <1>3, <1>4, <2>2 DEF Active
    <3>2. m.id \notin comp[k].old
      BY <1>1 DEF HistoryInv, SummaryIsStored
    <3> QED
      BY <1>1, <2>2, <3>1, <3>2 DEF HistoryInv, RestIsNewer, HasRead
  <2> QED
    BY <2>1, <2>2
<1> QED
  BY <1>8, <1>9, <1>10, <1>11, <1>12, <1>13 DEF HistoryInv

LEMMA CrashKeepsHistory ==
  ASSUME ConversationInv, HistoryInv, Crash
  PROVE  HistoryInv'
<1>1. /\ UNCHANGED <<messages, archived, summarised, twice, contested>>
      /\ comp' = [k \in Compactors |-> Off]
      /\ cut' = cut \cup {comp[k].session : k \in {j \in Compactors : comp[j].step = "archive"}}
  BY DEF Crash, database
<1>2. \A k \in Compactors : comp'[k].step = "off"
  BY <1>1 DEF Off
<1>3. OldAreOld' /\ RestIsNewer' /\ SummaryIsStored' /\ SharedAreContested' /\ OldAreNew'
  BY <1>2 DEF OldAreOld, RestIsNewer, SummaryIsStored, SharedAreContested, OldAreNew, HasRead
<1>4. \A m \in messages : Excused(m) => Excused(m)'
  BY <1>1 DEF Excused, Overtaken
<1>5. SummarisedLeave'
  BY <1>1, <1>4 DEF HistoryInv, SummarisedLeave, Excused
<1>6. SummarisedOnce' /\ ArchivedAreSummarised'
  BY <1>1, <1>4 DEF HistoryInv, SummarisedOnce, ArchivedAreSummarised, Overtook
<1> QED
  BY <1>3, <1>5, <1>6 DEF HistoryInv

LEMMA HistoryStep == ConversationInv /\ RowInv /\ HistoryInv /\ [Next]_vars => HistoryInv'
<1> SUFFICES ASSUME ConversationInv, RowInv, HistoryInv, [Next]_vars PROVE HistoryInv'
  OBVIOUS
<1>0. HistoryTypes /\ TypeOK /\ RunInv /\ MarkInv
  BY TypesSplit DEF ConversationInv, StoreInv
<1>1. ASSUME NEW t \in Turns, Chat(t) \/ Receive(t) \/ Inject(t) \/ TurnStep(t)
      PROVE  HistoryInv'
  <2>1. UNCHANGED sameHistory
    BY <1>0, <1>1, TurnElsewhere
  <2>2. messages' = messages \/ \E m : messages' = messages \cup {m} /\ m.id = lastId + 1
    BY <1>0, <1>1, TurnEffects DEF Moves, Reads, Stores, Store, NextId
  <2>3. \A k \in Compactors : comp'[k] = comp[k] \/ comp'[k].step = "read"
    <3>1. UNCHANGED comp \/ \E s \in Sessions : Trigger(s)
      BY <1>0, <1>1, TurnElsewhere
    <3> QED
      BY <1>0, <3>1, Starting
  <2>4. \A k \in Compactors : comp[k].step = "archive" => comp'[k] = comp[k]
    <3>1. UNCHANGED comp \/ \E s \in Sessions : Trigger(s)
      BY <1>0, <1>1, TurnElsewhere
    <3> QED
      BY <1>0, <3>1, Starting
  <2> QED
    BY <1>0, <2>1, <2>2, <2>3, <2>4, HistoryKept DEF HasRead, HistoryTypes
<1>2. ASSUME NEW k \in Compactors, CompactStep(k) PROVE HistoryInv'
  <2>1. CASE Ends(k)
    <3>1. UNCHANGED <<messages, sameHistory>>
      BY <2>1 DEF Ends, sameHistory
    <3>2. \A j \in Compactors : comp'[j] = IF j = k THEN Off ELSE comp[j]
      BY <1>0, <2>1 DEF Ends, MarkInv
    <3>3. Off.step = "off" /\ comp[k].step # "archive"
      BY <2>1 DEF Ends, Off
    <3> HIDE DEF Off
    <3> QED
      BY <1>0, <3>1, <3>2, <3>3, HistoryKept DEF HasRead
  <2>2. CASE ReadsOld(k)
    BY <2>2, ReadingKeeps
  <2>3. CASE Asks(k)
    <3>1. UNCHANGED <<messages, sameHistory>> /\ comp[k].step = "ask"
      BY <2>3 DEF Asks, sameHistory
    <3>2. /\ \A j \in Compactors \ {k} : comp'[j] = comp[j]
          /\ comp'[k].step = "insert" /\ comp'[k].session = comp[k].session
          /\ comp'[k].old = comp[k].old /\ comp'[k].last = comp[k].last
      BY <1>0, <2>3 DEF Asks, MarkInv
    <3> QED
      BY <1>0, <3>1, <3>2, HistoryKept DEF HasRead
  <2>4. CASE Summarises(k)
    BY <2>4, SummarisingKeeps
  <2>5. CASE Archives(k)
    BY <2>5, ArchivingKeeps
  <2> QED
    BY <1>2, <2>1, <2>2, <2>3, <2>4, <2>5, CompactEffects
<1>3. ASSUME (\E s \in Sessions : Abort(s) \/ Delete(s)) \/ \E t \in Turns : CancelAborted(t)
      PROVE  HistoryInv'
  <2>1. /\ UNCHANGED <<comp, sameHistory>>
        /\ messages' = messages \/ \E s : messages' = {m \in messages : m.session # s}
    BY <1>3 DEF Abort, Delete, CancelAborted, database, ghosts, sameHistory
  <2> QED
    BY <1>0, <2>1, HistoryKept DEF HasRead
<1>4. CASE Crash
  BY <1>4, CrashKeepsHistory
<1>5. CASE UNCHANGED vars
  <2>1. UNCHANGED <<messages, comp, sameHistory>>
    BY <1>5 DEF vars, database, ghosts, sameHistory
  <2> QED
    BY <1>0, <2>1, HistoryKept DEF HasRead
<1>6. ASSUME NEW k \in ByHand, NEW s \in Sessions, ForceCompaction(k, s) PROVE HistoryInv'
  <2>1. UNCHANGED <<messages, sameHistory>>
    BY <1>6 DEF ForceCompaction, database, ghosts, sameHistory
  <2>2. \A j \in Compactors :
          comp'[j] = comp[j] \/ (comp[j].step = "off" /\ comp'[j].step = "read")
    BY <1>0, <1>6, Starting
  <2> QED
    BY <1>0, <2>1, <2>2, HistoryKept DEF HasRead
<1> QED
  BY <1>1, <1>2, <1>3, <1>4, <1>5, <1>6 DEF Next, Turns

LEMMA HistoryInit == Init => RowInv /\ HistoryInv
BY DEF Init, RowInv, UniqueIds, UniqueStamps, Ready, Off, HistoryInv, OldAreOld, RestIsNewer,
       SummaryIsStored, SummarisedLeave, SharedAreContested, OldAreNew, SummarisedOnce,
       ArchivedAreSummarised, HasRead

LEMMA HistoryAlways == Spec => [](ConversationInv /\ RowInv /\ HistoryInv)
BY ConversationInit, ConversationStep, HistoryInit, RowStep, HistoryStep, PTL DEF Spec

\* Whatever turns and compactions overlap, and whenever the process dies or a session
\* is deleted: what leaves the active history is in a summary, unless it came in
\* under an earlier id with a later stamp (runCompaction).
THEOREM ArchivedHaveSummary == Spec => []ArchivedAreSummarised
<1>1. HistoryInv => ArchivedAreSummarised
  BY DEF HistoryInv
<1> QED
  BY <1>1, HistoryAlways, PTL

\* And a message is summarised twice only when a compaction was cut short after it
\* had stored its summary, when the message was one that overtook, or when a
\* compaction by hand had it in hand together with another: compactions that turns
\* set off repeat nothing whatever they overlap (runCompaction,
\* maybeTriggerCompaction, ForceCompaction).
THEOREM RepeatedOnlyIfExcused == Spec => []SummarisedOnce
<1>1. HistoryInv => SummarisedOnce
  BY DEF HistoryInv
<1> QED
  BY <1>1, HistoryAlways, PTL
=============================================================================
