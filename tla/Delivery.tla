------------------------------- MODULE Delivery -------------------------------
(***************************************************************************)
(* The way of a channel message through the program (internal/plugin): the *)
(* inbox all adapters share, the goroutine the router starts for each      *)
(* message, the queue of replies of the adapter, and the goroutines that   *)
(* each Start of an adapter leaves to deliver them.                        *)
(*                                                                         *)
(* One channel name is modelled, with the adapters that are registered     *)
(* under it one after the other: names do not share queues.  Supervision   *)
(* is that of AdapterManager, as far as replies tell; what a message says  *)
(* in its session is Conversation's.  A server that closes, like a         *)
(* goroutine that has seen its adapter stopped, just takes no more steps.  *)
(***************************************************************************)
EXTENDS Naturals, Sequences

CONSTANTS
  MaxMessages,   \* messages heard (a bound)
  InboxSize,     \* capacity of Manager.inbound (64 in the code)
  OutboxSize,    \* capacity of an outbound queue (32 in the code)
  MaxLinks,      \* adapters registered one after the other (a bound)
  MaxRuns        \* Starts of an adapter (maxRestarts + 1 in the code)

ASSUME DeliveryAssumption ==
  {MaxMessages, InboxSize, OutboxSize, MaxLinks, MaxRuns} \subseteq Nat \ {0}

VARIABLES
  inbox,     \* messages that wait for the router
  handling,  \* where the handling of each message is
  target,    \* the adapter whose queue its reply goes to
  links,     \* adapters made so far: the last is the one that is registered,
  linked,    \* if any is
  stage,     \* what each adapter does
  runs,      \* how often it was started
  outbox,    \* the replies that wait for each adapter
  hands,     \* what the goroutines of each stage's Starts deliver, 0 for nothing
  left,      \* replies in the order they have left
  earlier    \* ghost: the replies that were queued before each message was heard

deliveryVars == <<inbox, handling, target, links, linked, stage, runs, outbox, hands, left,
                  earlier>>

Heard == 1..MaxMessages
Links == 1..MaxLinks
In(q, m) == \E i \in DOMAIN q : q[i] = m

DeliveryInit ==
  /\ inbox = <<>> /\ left = <<>>
  /\ handling = [m \in Heard |-> "unheard"] /\ target = [m \in Heard |-> 0]
  /\ earlier = [m \in Heard |-> {}]
  /\ links = 0 /\ linked = FALSE
  /\ stage = [l \in Links |-> "none"] /\ runs = [l \in Links |-> 0]
  /\ outbox = [l \in Links |-> <<>>]
  /\ hands = [l \in Links |-> <<>>]

-----------------------------------------------------------------------------
(* Adapters.                                                               *)

\* Register makes a queue of its own for an adapter of a name that is free.
Register ==
  /\ ~linked /\ links < MaxLinks
  /\ links' = links + 1 /\ linked' = TRUE
  /\ stage' = [stage EXCEPT ![links'] = "starting"]
  /\ UNCHANGED <<inbox, handling, target, runs, outbox, hands, left, earlier>>

\* Start returns an error before it has a goroutine for the replies, or it has one.
StartAdapter(l) ==
  /\ stage[l] = "starting"
  /\ runs' = [runs EXCEPT ![l] = @ + 1]
  /\ \/ /\ stage' = [stage EXCEPT ![l] = "runs"]
        /\ hands' = [hands EXCEPT ![l] = Append(@, 0)]
     \/ /\ stage' = [stage EXCEPT ![l] = IF runs'[l] < MaxRuns THEN "starting" ELSE "over"]
        /\ UNCHANGED hands
  /\ UNCHANGED <<inbox, handling, target, links, linked, outbox, left, earlier>>

\* Slack's Start returns an error and leaves its goroutine where it is.
AdapterBreaks(l) ==
  /\ stage[l] = "runs"
  /\ stage' = [stage EXCEPT ![l] = IF runs[l] < MaxRuns THEN "starting" ELSE "over"]
  /\ UNCHANGED <<inbox, handling, target, links, linked, runs, outbox, hands, left, earlier>>

\* An adapter that a failed health check stops is registered on.
StopAdapter(l) ==
  /\ stage[l] \in {"starting", "runs"}
  /\ stage' = [stage EXCEPT ![l] = "stopped"]
  /\ UNCHANGED <<inbox, handling, target, links, linked, runs, outbox, hands, left, earlier>>

Unregister ==
  /\ linked /\ stage[links] \in {"stopped", "over"}
  /\ linked' = FALSE
  /\ UNCHANGED <<inbox, handling, target, links, stage, runs, outbox, hands, left, earlier>>

-----------------------------------------------------------------------------
(* Messages.                                                               *)

NextHeard == {m \in Heard : handling[m] = "unheard" /\ \A k \in 1..(m - 1) : handling[k] # "unheard"}

\* The callback of an adapter waits for room in the inbox.
HearMessage(m) ==
  /\ m \in NextHeard /\ Len(inbox) < InboxSize
  /\ \E l \in Links : stage[l] = "runs"
  /\ inbox' = Append(inbox, m)
  /\ handling' = [handling EXCEPT ![m] = "inbox"]
  /\ earlier' = [earlier EXCEPT ![m] = {k \in Heard : handling[k] = "queued"}]
  /\ UNCHANGED <<target, links, linked, stage, runs, outbox, hands, left>>

\* Router.Run: a goroutine per message.
TakeMessage ==
  /\ inbox # <<>>
  /\ inbox' = Tail(inbox)
  /\ handling' = [handling EXCEPT ![Head(inbox)] = "handled"]
  /\ UNCHANGED <<target, links, linked, stage, runs, outbox, hands, left, earlier>>

\* A message without a session gets no reply; others an answer, an error or the
\* words for an unknown sender.
HandleMessage(m) ==
  /\ handling[m] = "handled"
  /\ \/ linked /\ target' = [target EXCEPT ![m] = links] /\ handling' = [handling EXCEPT ![m] = "sending"]
     \/ ~linked /\ UNCHANGED target /\ handling' = [handling EXCEPT ![m] = "dropped"]
     \/ UNCHANGED target /\ handling' = [handling EXCEPT ![m] = "dropped"]
  /\ UNCHANGED <<inbox, links, linked, stage, runs, outbox, hands, left, earlier>>

\* Send has looked the queue up, and puts the reply in it when there is room, even
\* when the adapter is gone,
SendReply(m) ==
  LET l == target[m]
  IN /\ handling[m] = "sending" /\ Len(outbox[l]) < OutboxSize
     /\ outbox' = [outbox EXCEPT ![l] = Append(@, m)]
     /\ handling' = [handling EXCEPT ![m] = "queued"]
     /\ UNCHANGED <<inbox, target, links, linked, stage, runs, hands, left, earlier>>

\* or gives up after five seconds.
SendTimesOut(m) ==
  /\ handling[m] = "sending"
  /\ handling' = [handling EXCEPT ![m] = "dropped"]
  /\ UNCHANGED <<inbox, target, links, linked, stage, runs, outbox, hands, left, earlier>>

\* Mutant of TakeReply: the last reply goes first.
TakeReplyLast(l, w) ==
  LET q == outbox[l]
  IN hands' = [hands EXCEPT ![l][w] = q[Len(q)]] /\ outbox' = [outbox EXCEPT ![l] = SubSeq(q, 1, Len(q) - 1)]

TakeReply(l, w) ==
  hands' = [hands EXCEPT ![l][w] = Head(outbox[l])] /\ outbox' = [outbox EXCEPT ![l] = Tail(@)]

Free(l, w) == w \in DOMAIN hands[l] /\ hands[l][w] = 0

\* A goroutine takes a reply; after Stop it may, until it looks at done.
TakeOut(l, w) ==
  /\ Free(l, w) /\ outbox[l] # <<>>
  /\ TakeReply(l, w)
  /\ UNCHANGED <<inbox, handling, target, links, linked, stage, runs, left, earlier>>

\* The vendor takes it, or it is logged.
Deliver(l, w) ==
  /\ w \in DOMAIN hands[l] /\ hands[l][w] \in Heard
  /\ left' = Append(left, hands[l][w])
  /\ hands' = [hands EXCEPT ![l][w] = 0]
  /\ UNCHANGED <<inbox, handling, target, links, linked, stage, runs, outbox, earlier>>

ReplySteps ==
  \E l \in Links :
    \/ StartAdapter(l)
    \/ stage[l] # "stopped" /\ \E w \in 1..MaxRuns : TakeOut(l, w) \/ Deliver(l, w)

DeliveryNext ==
  \/ Register \/ Unregister \/ TakeMessage
  \/ \E l \in Links : AdapterBreaks(l) \/ StopAdapter(l)
  \/ \E m \in Heard : HearMessage(m) \/ HandleMessage(m) \/ SendReply(m) \/ SendTimesOut(m)
  \/ \E l \in Links, w \in 1..MaxRuns : TakeOut(l, w) \/ Deliver(l, w)
  \/ \E l \in Links : StartAdapter(l)

\* While the server goes on, the calls of the vendors' libraries return, and adapters
\* that are to start do.
DeliveryFairness == WF_deliveryVars(ReplySteps)

DeliverySpec == DeliveryInit /\ [][DeliveryNext]_deliveryVars /\ DeliveryFairness

-----------------------------------------------------------------------------
DeliveryTypeOK ==
  /\ inbox \in Seq(Heard) /\ Len(inbox) <= InboxSize
  /\ handling \in [Heard -> {"unheard", "inbox", "handled", "sending", "queued", "dropped"}]
  /\ target \in [Heard -> 0..MaxLinks] /\ earlier \in [Heard -> SUBSET Heard]
  /\ links \in 0..MaxLinks /\ linked \in BOOLEAN
  /\ stage \in [Links -> {"none", "starting", "runs", "stopped", "over"}]
  /\ runs \in [Links -> 0..MaxRuns]
  /\ outbox \in [Links -> Seq(Heard)] /\ \A l \in Links : Len(outbox[l]) <= OutboxSize
  /\ hands \in [Links -> Seq(0..MaxMessages)] /\ left \in Seq(Heard)

\* Messages are handled at the same time, and replied to in any order; but the reply
\* to a message that was heard after another had its reply queued leaves after it,
\* as long as the adapter was started once and not replaced.
AnswersInTurn ==
  \A i, j \in DOMAIN left :
    i < j /\ target[left[i]] = target[left[j]] /\ Len(hands[target[left[i]]]) = 1 =>
      left[j] \notin earlier[left[i]]

\* A reply in a queue that an adapter still serves, or one that a goroutine has.
ReplyWaits ==
  \E m \in Heard : handling[m] = "queued" /\ ~In(left, m) /\ stage[target[m]] \notin {"stopped", "over"}

\* A reply that Send has put in the queue leaves, however often the adapter fails in
\* between, unless the adapter is stopped or given up: Send's success does not tell,
\* for such a queue takes replies until it is full.
RepliesLeave == ReplyWaits ~> ~ReplyWaits
=============================================================================
