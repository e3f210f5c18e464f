----------------------------- MODULE Conversation -----------------------------
(***************************************************************************)
(* What a message from a user sets off: the chat endpoints of the gateway  *)
(* (internal/gateway/handlers.go, ws.go), the channel router               *)
(* (internal/plugin/router.go), the tables sessions and messages           *)
(* (internal/storage) and the compaction of a long history                 *)
(* (internal/agent/agent.go).                                              *)
(*                                                                         *)
(* A turn is one request.  Turns of one session run concurrently: nothing  *)
(* in the code makes one wait for another.  A step is one database         *)
(* statement or one critical section; an insert takes two, the reading of  *)
(* the clock that becomes created_at and the statement that gives the id.  *)
(*                                                                         *)
(* Abstracted: the text of messages, the tool loop inside the agent's run, *)
(* how full the context is (whether compaction is due is a choice), one    *)
(* channel chat only, and embeddings.  The chat at the terminal            *)
(* (internal/cli) keeps its sessions and its agent to its own process: a   *)
(* turn there is like one from the channel, its marks like the ones here.  *)
(***************************************************************************)
EXTENDS Naturals, FiniteSets

CONSTANTS
  Chats,       \* chat requests to the gateway (a bound)
  Received,    \* messages on the channel (a bound)
  Injections,  \* messages put into a session by hand (a bound)
  MaxTurns,    \* chats and channel messages that are dealt with (a bound)
  Sessions,    \* session ids that get used (a bound)
  Compactors,  \* compactions that run at the same time (a bound)
  ByHand,      \* those of them that are asked for with /compact
  MaxForced,   \* compactions asked for (a bound)
  Keep,        \* 2 * compaction_keep_recent messages stay as they are
  MaxDeletes,  \* sessions users delete (a bound)
  MaxCrashes,  \* crashes (a bound)
  None         \* absence of a value

ASSUME ConversationAssumption ==
  /\ {Keep, MaxTurns, MaxForced, MaxDeletes, MaxCrashes} \subseteq Nat
  /\ ByHand \subseteq Compactors
  /\ None \notin Chats \cup Received \cup Injections \cup Sessions
  /\ Chats \cap Received = {} /\ (Chats \cup Received) \cap Injections = {}

Turns == Chats \cup Received \cup Injections

Background == Compactors \ ByHand

VARIABLES
  live,       \* rows of sessions
  created,    \* sessions that have ever had a row
  messages,   \* rows of messages: id, session, created_at
  archived,   \* ids whose compacted column is 1
  lastId,     \* the highest id AUTOINCREMENT has given
  clock,      \* clock readings so far
  cached,     \* router.go sessionCache, for the one chat
  turn,       \* progress of each turn
  cancelled,  \* turns in progress whose context is cancelled
  activeRuns, \* Handlers.activeRuns
  aborting,   \* runs taken from the registry whose cancel is yet to be called
  inFlight,   \* Agent.compactionInFlight
  comp,       \* progress of each compaction
  summarised, \* ghost: ids some summary covers
  twice,      \* ghost: ids two summaries cover
  cut,        \* ghost: sessions whose compaction ended before its archiving
  contested,  \* ghost: ids a compaction by hand and another had in hand together
  forced, deletes, crashes

database == <<live, created, messages, archived, lastId>>
ghosts == <<summarised, twice, cut, contested>>
bounds == <<forced, deletes, crashes>>
runs == <<cancelled, activeRuns, aborting>>
vars == <<database, clock, cached, turn, runs, inFlight, comp, ghosts, bounds>>

Ready == [step |-> "ready", session |-> None, stamp |-> 0]
Done == [step |-> "done", session |-> None, stamp |-> 0]
Off == [step |-> "off", session |-> None, old |-> {}, last |-> 0, stamp |-> 0]

Init ==
  /\ live = {} /\ created = {} /\ messages = {} /\ archived = {} /\ lastId = 0
  /\ clock = 0
  /\ cached = None
  /\ turn = [t \in Turns |-> Ready]
  /\ cancelled = {}
  /\ activeRuns = [s \in Sessions |-> None] /\ aborting = {}
  /\ inFlight = {}
  /\ comp = [k \in Compactors |-> Off]
  /\ summarised = {} /\ twice = {} /\ cut = {} /\ contested = {}
  /\ forced = 0 /\ deletes = 0 /\ crashes = 0

-----------------------------------------------------------------------------
At(t, step) == turn[t].step = step
Goto(t, step, stamp) == turn' = [turn EXCEPT ![t] =
  [step |-> step, session |-> turn[t].session, stamp |-> stamp]]
Begin(t, s) == turn' = [turn EXCEPT ![t] =
  [step |-> "stamp", session |-> s, stamp |-> 0]]

Over(t) == turn' = [turn EXCEPT ![t] = Done]

\* An API turn has a registered run to clear; a channel turn is over.
Close(t) == IF t \in Chats THEN Goto(t, "clear", 0) ELSE Over(t)

Room == Cardinality({t \in Chats \cup Received : ~At(t, "ready")}) < MaxTurns

NewSession(s) ==
  /\ s \notin created
  /\ created' = created \cup {s}
  /\ live' = live \cup {s}

\* Chat and handleWSChat: with a session id the client has, or with a new one.
\* An id whose session was deleted is not noticed here.
Chat(t) ==
  /\ At(t, "ready") /\ Room
  /\ \E s \in Sessions :
       /\ (s \in created /\ UNCHANGED <<live, created>>) \/ NewSession(s)
       /\ Begin(t, s)
  /\ UNCHANGED <<messages, archived, clock, cached, runs, inFlight, comp, ghosts,
                 bounds, lastId>>

\* getOrCreateSessionID, under the lock of sessionCache, for an allowed sender;
\* an entry may have expired.
Receive(t) ==
  /\ At(t, "ready") /\ Room
  /\ \/ /\ cached # None
        /\ Begin(t, cached)
        /\ UNCHANGED <<live, created, cached>>
     \/ \E s \in Sessions :
          NewSession(s) /\ cached' = s /\ Begin(t, s)
  /\ UNCHANGED <<messages, archived, lastId, clock, runs, inFlight, comp, ghosts,
                 bounds>>

\* ChatInject and handleWSInject: one message for a session that is there.
Inject(t) ==
  /\ At(t, "ready")
  /\ \E s \in live : Begin(t, s)
  /\ UNCHANGED <<database, clock, cached, runs, inFlight, comp, ghosts, bounds>>

(***************************************************************************)
(* MessageStore.Insert.                                                    *)
(***************************************************************************)
\* The pragma foreign_keys holds for one connection of the pool: the row of a
\* session that is gone is refused there and stored by any other connection.
\* AUTOINCREMENT gives no id twice.

\* Mutant of NextId: the next id is the highest in use plus one.
NextIdInUse ==
  IF messages = {} THEN 1
  ELSE 1 + CHOOSE i \in {m.id : m \in messages} : \A m \in messages : m.id <= i

NextId == lastId + 1

Store(s, stamp) ==
  /\ messages' = messages \cup {[id |-> NextId, session |-> s, stamp |-> stamp]}
  /\ lastId' = NextId

Stamp(t) ==
  /\ turn[t].step \in {"stamp", "stampAnswer"}
  /\ clock' = clock + 1
  /\ Goto(t, IF At(t, "stamp") THEN "insert" ELSE "insertAnswer", clock + 1)
  /\ UNCHANGED <<database, cached, runs, inFlight, comp, ghosts, bounds>>

\* The user's message.  An API turn ends when it cannot be stored, a channel turn
\* goes on without; an injected message is all of its turn.
Insert(t) ==
  LET goOn == Goto(t, IF t \in Chats THEN "register" ELSE "assemble", 0) IN
  /\ At(t, "insert")
  /\ \/ /\ Store(turn[t].session, turn[t].stamp)
        /\ IF t \in Injections THEN Over(t) ELSE goOn
     \/ /\ IF t \in Received THEN goOn ELSE Over(t)
        /\ UNCHANGED <<messages, lastId>>
  /\ UNCHANGED <<live, created, archived, clock, cached, runs, inFlight, comp, ghosts,
                 bounds>>

InsertAnswer(t) ==
  /\ At(t, "insertAnswer")
  /\ \/ Store(turn[t].session, turn[t].stamp)
     \/ UNCHANGED <<messages, lastId>>
  /\ Close(t)
  /\ UNCHANGED <<live, created, archived, clock, cached, runs, inFlight, comp, ghosts,
                 bounds>>

-----------------------------------------------------------------------------
(***************************************************************************)
(* The registry of runs that can be aborted.                               *)
(***************************************************************************)
\* registerActiveRun cancels the run that was there.
Register(t) ==
  LET s == turn[t].session IN
  /\ At(t, "register")
  /\ cancelled' = IF activeRuns[s] = None THEN cancelled
                  ELSE cancelled \cup {activeRuns[s]}
  /\ activeRuns' = [activeRuns EXCEPT ![s] = t]
  /\ Goto(t, "assemble", 0)
  /\ UNCHANGED <<database, clock, cached, aborting, inFlight, comp, ghosts, bounds>>

\* Mutant of Cleared: whichever run is registered is removed.
ClearedAny(t) == [activeRuns EXCEPT ![turn[t].session] = None]

\* clearActiveRun removes a run that is still the registered one.
Cleared(t) == [s \in Sessions |-> IF activeRuns[s] = t THEN None ELSE activeRuns[s]]

Clear(t) ==
  /\ At(t, "clear")
  /\ activeRuns' = Cleared(t)
  /\ cancelled' = cancelled \ {t}
  /\ Over(t)
  /\ UNCHANGED <<database, clock, cached, aborting, inFlight, comp, ghosts, bounds>>

\* abortActiveRun (POST /chat/abort, or "abort" on the WebSocket): the run is taken
\* out under the lock
Abort(s) ==
  /\ activeRuns[s] # None
  /\ aborting' = aborting \cup {activeRuns[s]}
  /\ activeRuns' = [activeRuns EXCEPT ![s] = None]
  /\ UNCHANGED <<database, clock, cached, turn, cancelled, inFlight, comp, ghosts, bounds>>

\* and cancelled without it; by then it may be over.
CancelAborted(t) ==
  /\ t \in aborting
  /\ aborting' = aborting \ {t}
  /\ cancelled' = IF At(t, "done") THEN cancelled ELSE cancelled \cup {t}
  /\ UNCHANGED <<database, clock, cached, turn, activeRuns, inFlight, comp, ghosts, bounds>>

-----------------------------------------------------------------------------
(***************************************************************************)
(* Agent.Run.                                                              *)
(***************************************************************************)
\* Mutant of InFlight: two compactions of a session may run.
NeverInFlight(s) == FALSE

InFlight(s) == s \in inFlight

StartCompaction(k, s) ==
  /\ comp[k] = Off
  /\ comp' = [comp EXCEPT ![k] =
       [step |-> "read", session |-> s, old |-> {}, last |-> 0, stamp |-> 0]]

\* maybeTriggerCompaction, when the context is full enough.
Trigger(s) ==
  IF InFlight(s) THEN UNCHANGED <<inFlight, comp>>
  ELSE \E k \in Background : StartCompaction(k, s) /\ inFlight' = inFlight \cup {s}

\* ForceCompaction (cmdCompact): nobody looks at the mark, and none is set.  The
\* prompt waits until it is through.
ForceCompaction(k, s) ==
  /\ s \in live
  /\ forced < MaxForced /\ forced' = forced + 1
  /\ \A j \in ByHand : comp[j].session # s
  /\ StartCompaction(k, s)
  /\ UNCHANGED <<database, clock, cached, turn, runs, inFlight, ghosts, deletes, crashes>>

\* The context is assembled.  A run over its token budget answers at once.
Assemble(t) ==
  /\ At(t, "assemble")
  /\ \/ Close(t) /\ UNCHANGED <<inFlight, comp>>
     \/ Goto(t, "stampAnswer", 0) /\ UNCHANGED <<inFlight, comp>>
     \/ /\ Goto(t, "ask", 0)
        /\ Trigger(turn[t].session) \/ UNCHANGED <<inFlight, comp>>
  /\ UNCHANGED <<database, clock, cached, runs, ghosts, bounds>>

\* The model answers, or the run ends in an error; one that is cancelled may
\* still come in with its answer.
Answer(t) ==
  /\ At(t, "ask")
  /\ Goto(t, "stampAnswer", 0) \/ Close(t)
  /\ UNCHANGED <<database, clock, cached, runs, inFlight, comp, ghosts, bounds>>

-----------------------------------------------------------------------------
(***************************************************************************)
(* runCompaction.                                                          *)
(***************************************************************************)
Active(s) == {m \in messages : m.session = s /\ m.id \notin archived}

\* GetOldMessages: all but the latest Keep by created_at.
OldMessages(s) ==
  {m \in Active(s) :
     Cardinality({n \in Active(s) : n.stamp > m.stamp}) >= Keep}

Latest(S) == CHOOSE m \in S : \A n \in S : n.stamp <= m.stamp

\* Mutant of Finished: the mark of the session stays.
FinishedMarked(k) == comp' = [comp EXCEPT ![k] = Off] /\ UNCHANGED inFlight

Finished(k) ==
  /\ comp' = [comp EXCEPT ![k] = Off]
  /\ inFlight' = IF k \in ByHand THEN inFlight ELSE inFlight \ {comp[k].session}

untouchedByCompaction == <<live, created, cached, turn, runs, bounds>>

\* What other compactions have in hand beside k, when one of the two is by hand.
Shared(k) ==
  UNION {comp[j].old : j \in {i \in Compactors \ {k} : i \in ByHand \/ k \in ByHand}}

CompactRead(k) ==
  LET s == comp[k].session
      old == OldMessages(s)
      ids == {m.id : m \in old}
  IN
  /\ comp[k].step = "read"
  /\ IF old = {} THEN Finished(k) /\ UNCHANGED contested
     ELSE /\ comp' = [comp EXCEPT ![k] =
               [step |-> "ask", session |-> s, old |-> ids,
                last |-> Latest(old).id, stamp |-> 0]]
          /\ contested' = contested \cup (ids \cap Shared(k))
          /\ UNCHANGED inFlight
  /\ UNCHANGED <<messages, archived, lastId, clock, summarised, twice, cut,
                 untouchedByCompaction>>

\* The model is asked for a summary, or refuses; then created_at is taken.
CompactAsk(k) ==
  /\ comp[k].step = "ask"
  /\ \/ Finished(k) /\ UNCHANGED clock
     \/ /\ clock' = clock + 1
        /\ comp' = [comp EXCEPT ![k] =
             [step |-> "insert", session |-> comp[k].session, old |-> comp[k].old,
              last |-> comp[k].last, stamp |-> clock + 1]]
        /\ UNCHANGED inFlight
  /\ UNCHANGED <<messages, archived, lastId, ghosts, untouchedByCompaction>>

CompactInsert(k) ==
  LET c == comp[k] IN
  /\ c.step = "insert"
  /\ \/ Finished(k) /\ UNCHANGED <<messages, lastId, ghosts>>
     \/ /\ Store(c.session, c.stamp)
        /\ summarised' = summarised \cup c.old
        /\ twice' = twice \cup (summarised \cap c.old)
        /\ comp' = [comp EXCEPT ![k] =
             [step |-> "archive", session |-> c.session, old |-> c.old,
              last |-> c.last, stamp |-> 0]]
        /\ UNCHANGED <<cut, contested, inFlight>>
  /\ UNCHANGED <<archived, clock, untouchedByCompaction>>

\* Mutant of Archive: everything there is by now is archived.
ArchiveAll(s, last) == {m.id : m \in Active(s)}

\* Mutant of Archive: all but the last of what was summarised.
ArchiveBefore(s, last) == {m.id : m \in {n \in Active(s) : n.id < last}}

\* ArchiveMessages goes by id.
Archive(s, last) == {m.id : m \in {n \in Active(s) : n.id <= last}}

CompactArchive(k) ==
  /\ comp[k].step = "archive"
  /\ \/ /\ archived' = archived \cup Archive(comp[k].session, comp[k].last)
        /\ UNCHANGED cut
     \/ /\ cut' = cut \cup {comp[k].session}
        /\ UNCHANGED archived
  /\ Finished(k)
  /\ UNCHANGED <<messages, lastId, clock, summarised, twice, contested,
                 untouchedByCompaction>>

CompactStep(k) == CompactRead(k) \/ CompactAsk(k) \/ CompactInsert(k) \/ CompactArchive(k)

-----------------------------------------------------------------------------
\* SessionStore.Delete.  Its messages go with it if the connection enforces foreign
\* keys; nobody tells the router's cache or a run in progress.
Delete(s) ==
  /\ s \in live
  /\ deletes < MaxDeletes
  /\ deletes' = deletes + 1
  /\ live' = live \ {s}
  /\ \/ messages' = {m \in messages : m.session # s}
     \/ UNCHANGED messages
  /\ UNCHANGED <<created, archived, lastId, clock, cached, turn, runs, inFlight, comp,
                 ghosts, forced, crashes>>

\* The process dies and is started again; the clients' requests are lost.
Crash ==
  /\ crashes < MaxCrashes
  /\ crashes' = crashes + 1
  /\ cached' = None
  /\ turn' = [t \in Turns |-> IF At(t, "ready") THEN Ready ELSE Done]
  /\ cancelled' = {}
  /\ activeRuns' = [s \in Sessions |-> None] /\ aborting' = {}
  /\ inFlight' = {}
  /\ comp' = [k \in Compactors |-> Off]
  /\ cut' = cut \cup {comp[k].session : k \in {j \in Compactors : comp[j].step = "archive"}}
  /\ UNCHANGED <<database, clock, summarised, twice, contested, forced, deletes>>

TurnStep(t) ==
  Stamp(t) \/ Insert(t) \/ InsertAnswer(t) \/ Register(t) \/ Clear(t)
  \/ Assemble(t) \/ Answer(t)

Next ==
  \/ \E t \in Chats : Chat(t)
  \/ \E t \in Received : Receive(t)
  \/ \E t \in Injections : Inject(t)
  \/ \E t \in Turns : TurnStep(t) \/ CancelAborted(t)
  \/ \E k \in ByHand, s \in Sessions : ForceCompaction(k, s)
  \/ \E k \in Compactors : CompactStep(k)
  \/ \E s \in Sessions : Abort(s) \/ Delete(s)
  \/ Crash

Spec == Init /\ [][Next]_vars

-----------------------------------------------------------------------------
TurnSteps == {"ready", "stamp", "insert", "register", "assemble", "ask",
              "stampAnswer", "insertAnswer", "clear", "done"}

TypeOK ==
  /\ live \subseteq created /\ created \subseteq Sessions
  /\ messages \subseteq [id : 1..lastId, session : Sessions, stamp : 1..clock]
  /\ archived \subseteq 1..lastId
  /\ lastId \in Nat /\ clock \in Nat
  /\ cached \in Sessions \cup {None}
  /\ turn \in [Turns -> [step : TurnSteps, session : Sessions \cup {None}, stamp : 0..clock]]
  /\ cancelled \subseteq Turns /\ aborting \subseteq Turns
  /\ activeRuns \in [Sessions -> Turns \cup {None}]
  /\ inFlight \subseteq Sessions
  /\ comp \in [Compactors -> [step : {"off", "read", "ask", "insert", "archive"},
                              session : Sessions \cup {None}, old : SUBSET (1..lastId),
                              last : 0..lastId, stamp : 0..clock]]
  /\ summarised \subseteq 1..lastId /\ twice \subseteq summarised
  /\ cut \subseteq Sessions /\ contested \subseteq 1..lastId
  /\ forced \in 0..MaxForced /\ deletes \in 0..MaxDeletes /\ crashes \in 0..MaxCrashes

\* A run the API started is the one an abort of its session reaches, until it is
\* cancelled or an abort that has taken it is about to: however runs of the session
\* replace each other and end (registerActiveRun, clearActiveRun, abortActiveRun).
Registered(t) == turn[t].step \in {"assemble", "ask", "stampAnswer", "insertAnswer", "clear"}

RunsCanBeAborted ==
  \A t \in Chats : Registered(t) =>
    t \in cancelled \cup aborting \/ activeRuns[turn[t].session] = t

\* A message leaves the active history only into a summary.  The exception is one
\* whose created_at lies after that of a message with a higher id: the old
\* messages are chosen by created_at and archived by id, and inserts of
\* concurrent turns may overtake each other (runCompaction, Insert).
Overtook(m) ==
  \E n \in messages : n.session = m.session /\ n.id > m.id /\ n.stamp < m.stamp

ArchivedAreSummarised ==
  \A m \in messages : m.id \in archived => m.id \in summarised \/ Overtook(m)

\* A message whose created_at lies before that of one with a lower id: the
\* archiving may leave it out.
Overtaken(m) ==
  \E n \in messages : n.session = m.session /\ n.id < m.id /\ n.stamp > m.stamp

\* How a message comes to be summarised twice: the compaction that had summarised it
\* was cut short or left it out, or one asked for by hand had it in hand together
\* with another.
Excused(m) == m.session \in cut \/ Overtaken(m) \/ m.id \in contested

\* Only so: the compactions a session's turns set off exclude each other, one
\* archives what it has summarised, and one by hand that overlaps none of them
\* repeats nothing (maybeTriggerCompaction, ForceCompaction, runCompaction).
SummarisedOnce == \A m \in messages : m.id \in twice => Excused(m)

\* The mark of a session stands for exactly one compaction of it that its turns have
\* set off, which gives it back on all its early returns: a mark that stayed would
\* end the compacting of that session for good, and a compaction by hand must not
\* take the mark of another (the deferred compactionInFlight.Delete).
MarksMatchCompactions ==
  \A s \in Sessions :
    Cardinality({k \in Background : comp[k].session = s}) = IF s \in inFlight THEN 1 ELSE 0

\* "Delete removes a session and all its messages (cascade)" (its comment): no
\* message outlives its session.
MessagesGoWithSession == \A m \in messages : m.session \in live
=============================================================================
