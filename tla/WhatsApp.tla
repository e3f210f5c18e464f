------------------------------ MODULE WhatsApp ------------------------------
(***************************************************************************)
(* The WhatsApp channel (internal/plugin/adapters/whatsapp): the session   *)
(* that is kept on disk, the pairing by QR code, the adapter's start under *)
(* the manager's restarts and health checks, the dashboard's and the       *)
(* connect_channel tool's requests, and the message_send tool, which sends *)
(* through the adapter without its queue.                                  *)
(*                                                                         *)
(* whatsmeow, the client library, is modelled from how it is used: it      *)
(* reconnects by itself and reports the outcome of a pairing on a channel. *)
(***************************************************************************)
EXTENDS Naturals

CONSTANTS
  SendTries,    \* attempts of sendMessage (3 in the code)
  SendRounds,   \* rounds of message_send after it has connected (21 in the code)
  MaxStarts,    \* starts of one adapter (a bound; the manager makes at most 6)
  MaxAdapters,  \* adapters made (a bound)
  MaxTexts      \* messages from the phone (a bound)

ASSUME WhatsAppAssumption ==
  {SendTries, SendRounds, MaxStarts, MaxAdapters, MaxTexts} \subseteq Nat \ {0}

VARIABLES
  device,    \* whatsapp.db: "unlinked", "linked", "unreadable"
  adapter,   \* "none", "made", "pairing", "serving", "failed" (to be restarted), "ended"
  made,      \* adapters so far
  halted,    \* Adapter.done is closed
  socket,    \* the client is connected
  qrEvent,   \* Adapter.qrState, "none" before the first event
  handlers,  \* event handlers that the client has, one for each start
  texts,     \* messages that came while the adapter listened
  queued,    \* what it has put on the inbound queue for them
  retried,   \* ghost: an adapter was started again
  sending,   \* message_send: where it is, its adapter, and its counters
  copies,    \* times that WhatsApp took its message for all of the devices
  sendReply  \* what it told the agent

linkVars == <<device, adapter, made, halted, socket, qrEvent, handlers>>
sendVars == <<sending, copies, sendReply>>
whatsAppVars == <<linkVars, texts, queued, retried, sendVars>>

NotSending == [step |-> "idle", via |-> 0, auto |-> FALSE, round |-> 1, try |-> 1]

WhatsAppInit ==
  /\ device \in {"unlinked", "linked", "unreadable"} /\ adapter = "none" /\ made = 0
  /\ halted = FALSE /\ socket = FALSE /\ qrEvent = "none" /\ handlers = 0
  /\ texts = 0 /\ queued = 0 /\ retried = FALSE
  /\ sending = NotSending /\ copies = 0 /\ sendReply = "none"

-----------------------------------------------------------------------------
(* Connect, disconnect, restart.                                           *)

Running == adapter \in {"made", "pairing", "serving"}

\* New: a session that cannot be read is reset and read again, for some errors.
Renewed == IF device = "unreadable" THEN "unlinked" ELSE device

MakeAdapter(session) ==
  /\ made < MaxAdapters /\ made' = made + 1
  /\ device' = session
  /\ adapter' = "made" /\ halted' = FALSE /\ socket' = FALSE /\ qrEvent' = "none" /\ handlers' = 0

\* ResetSession: a logout, or what removes the session without one.
Unlinked == IF device = "linked" THEN "unlinked" ELSE device

\* The connect of the dashboard, of connect_channel, and of message_send.  What is
\* there is refused while it pairs or runs, and otherwise replaced.
ConnectWhatsApp(force) ==
  /\ \/ adapter = "none"
     \/ force
     \/ ~Running /\ qrEvent \notin {"connected", "waiting_for_qr", "code"}
  /\ MakeAdapter(IF force THEN "unlinked" ELSE Renewed)
  /\ UNCHANGED <<texts, queued, retried, sendVars>>

\* "disconnect" resets the session; "restart" is this and a forced connect.
DisconnectWhatsApp ==
  /\ adapter # "none"
  /\ adapter' = "none" /\ halted' = TRUE /\ socket' = FALSE /\ qrEvent' = "stopped"
  /\ device' = Unlinked
  /\ UNCHANGED <<made, handlers, texts, queued, retried, sendVars>>

-----------------------------------------------------------------------------
(* Start, and what WhatsApp does.                                          *)

\* AddEventHandler adds one for each start.
Handled == handlers + 1

\* A start with a session connects, one without waits for the QR code to be scanned.
StartWhatsApp ==
  /\ adapter \in {"made", "failed"} /\ ~halted /\ handlers < MaxStarts
  /\ handlers' = Handled /\ retried' = (retried \/ adapter = "failed")
  /\ \/ /\ adapter' = "failed" /\ UNCHANGED socket
        /\ qrEvent' = IF device = "linked" THEN "reconnect_error" ELSE "connect_error"
     \/ /\ device = "linked" /\ socket' = TRUE
        /\ adapter' = "serving" /\ qrEvent' = "connected"
     \/ /\ device # "linked" /\ socket' = TRUE
        /\ adapter' = "pairing" /\ qrEvent' = "waiting_for_qr"
  /\ UNCHANGED <<device, made, halted, texts, queued, sendVars>>

ShowCode ==
  /\ adapter = "pairing" /\ socket /\ device # "linked"
  /\ qrEvent \in {"waiting_for_qr", "code"} /\ qrEvent' = "code"
  /\ UNCHANGED <<device, adapter, made, halted, socket, handlers, texts, queued, retried, sendVars>>

\* The phone has scanned the code, or the pairing has failed or timed out.
PairingEnds ==
  /\ adapter = "pairing" /\ qrEvent \in {"waiting_for_qr", "code"}
  /\ \/ socket /\ device' = "linked" /\ qrEvent' = "connected" /\ UNCHANGED socket
     \/ qrEvent' = "timeout" /\ socket' = FALSE /\ UNCHANGED device
  /\ UNCHANGED <<adapter, made, halted, handlers, texts, queued, retried, sendVars>>

\* The channel is closed.  Whatever came of the pairing, the adapter says
\* "connected" and serves.
PairingCloses ==
  /\ adapter = "pairing"
  /\ qrEvent \notin {"waiting_for_qr", "code"} \/ halted
  /\ adapter' = "serving" /\ qrEvent' = "connected"
  /\ UNCHANGED <<device, made, halted, socket, handlers, texts, queued, retried, sendVars>>

\* Start returns when Stop was called; the manager does not start it again.
StartReturns ==
  /\ adapter = "serving" /\ halted
  /\ adapter' = "ended" /\ socket' = FALSE
  /\ UNCHANGED <<device, made, halted, qrEvent, handlers, texts, queued, retried, sendVars>>

\* The connection goes and comes; the phone may unlink the device.
SocketChanges ==
  /\ adapter \in {"pairing", "serving"} /\ ~halted
  /\ \/ socket' = FALSE /\ UNCHANGED device
     \/ socket' = TRUE /\ adapter = "serving" /\ device = "linked" /\ UNCHANGED device
     \/ socket /\ device = "linked" /\ adapter = "serving"
        /\ socket' = FALSE /\ device' = "unlinked"
  /\ UNCHANGED <<adapter, made, halted, qrEvent, handlers, texts, queued, retried, sendVars>>

\* Health, which waits for a scan; an adapter that is not connected is stopped.
HealthCheck ==
  /\ adapter # "none" /\ ~halted
  /\ qrEvent \notin {"waiting_for_qr", "code"} /\ ~socket
  /\ halted' = TRUE /\ qrEvent' = "stopped" /\ socket' = FALSE
  /\ UNCHANGED <<device, adapter, made, handlers, texts, queued, retried, sendVars>>

\* A text from the phone goes to every handler; own and empty ones are skipped.
Hear ==
  /\ adapter = "serving" /\ socket /\ device = "linked" /\ ~halted /\ texts < MaxTexts
  /\ texts' = texts + 1 /\ queued' = queued + handlers
  /\ UNCHANGED <<linkVars, retried, sendVars>>

-----------------------------------------------------------------------------
(* message_send.                                                           *)

\* Without an adapter it connects one, and keeps on trying while that one is not
\* connected.  A connect that fails, and missing parameters, end it.
SendBegins ==
  /\ sending.step = "idle" /\ sendReply = "none"
  /\ \/ /\ adapter # "none" /\ UNCHANGED linkVars
        /\ sending' = [NotSending EXCEPT !.step = "send", !.via = made]
        /\ UNCHANGED sendReply
     \/ /\ adapter = "none" /\ MakeAdapter(Renewed)
        /\ sending' = [NotSending EXCEPT !.step = "send", !.via = made', !.auto = TRUE]
        /\ UNCHANGED sendReply
     \/ sendReply' = "failed" /\ UNCHANGED <<linkVars, sending>>
  /\ UNCHANGED <<texts, queued, retried, copies>>

\* The adapter that was looked up, even if it has been replaced since.
Connected == sending.via = made /\ adapter # "none" /\ socket

SendEnds(reply) ==
  /\ sendReply' = reply
  /\ sending' = [sending EXCEPT !.step = "idle"]

\* An adapter that is not connected is asked again only if it was made for this.
SendUnconnected ==
  /\ sending.step = "send" /\ ~Connected
  /\ IF sending.auto /\ sending.round < SendRounds
     THEN sending' = [sending EXCEPT !.step = "pause"] /\ UNCHANGED sendReply
     ELSE SendEnds("failed")
  /\ UNCHANGED <<linkVars, texts, queued, retried, copies>>

SendAccepted ==
  /\ sending.step = "send" /\ Connected
  /\ sending' = [sending EXCEPT !.step = "try", !.try = 1]
  /\ UNCHANGED <<linkVars, texts, queued, retried, copies, sendReply>>

\* Mutant of AttemptSent: a message that could not be encrypted counts as sent.
AttemptSentAnyhow(outcome) == outcome \in {"taken", "partly"}

\* Without an error and without an encryption failure that the library has logged.
AttemptSent(outcome) == outcome = "taken"

\* One attempt, with an identity of its own: taken for all devices of the receiver,
\* for some of them, refused, or without an answer.  Some failures are worth another.
Attempt(outcome, taken, worthwhile) ==
  /\ sending.step = "try"
  /\ outcome = "taken" => taken
  /\ outcome \in {"partly", "refused"} => ~taken /\ Connected
  /\ ~Connected => ~taken
  /\ copies' = IF taken THEN copies + 1 ELSE copies
  /\ IF AttemptSent(outcome) THEN SendEnds("sent")
     ELSE IF worthwhile /\ sending.try < SendTries
     THEN sending' = [sending EXCEPT !.try = @ + 1] /\ UNCHANGED sendReply
     ELSE IF sending.auto /\ ~Connected /\ sending.round < SendRounds
     THEN sending' = [sending EXCEPT !.step = "pause"] /\ UNCHANGED sendReply
     ELSE SendEnds("failed")
  /\ UNCHANGED <<linkVars, texts, queued, retried>>

SendPauses ==
  /\ sending.step = "pause"
  /\ \/ sending' = [sending EXCEPT !.step = "send", !.round = @ + 1] /\ UNCHANGED sendReply
     \/ SendEnds("failed")
  /\ UNCHANGED <<linkVars, texts, queued, retried, copies>>

WhatsAppNext ==
  \/ \E force \in BOOLEAN : ConnectWhatsApp(force)
  \/ DisconnectWhatsApp
  \/ StartWhatsApp
  \/ ShowCode
  \/ PairingEnds
  \/ PairingCloses
  \/ StartReturns
  \/ SocketChanges
  \/ HealthCheck
  \/ Hear
  \/ SendBegins
  \/ SendUnconnected
  \/ SendAccepted
  \/ \E outcome \in {"taken", "partly", "refused", "unanswered"}, taken, worthwhile \in BOOLEAN :
       Attempt(outcome, taken, worthwhile)
  \/ SendPauses

WhatsAppSpec == WhatsAppInit /\ [][WhatsAppNext]_whatsAppVars

-----------------------------------------------------------------------------
WhatsAppTypeOK ==
  /\ device \in {"unlinked", "linked", "unreadable"}
  /\ adapter \in {"none", "made", "pairing", "serving", "failed", "ended"}
  /\ qrEvent \in {"none", "waiting_for_qr", "code", "timeout", "connected", "connect_error",
                  "reconnect_error", "stopped"}
  /\ {halted, socket, retried} \subseteq BOOLEAN
  /\ made \in 0..MaxAdapters /\ handlers \in 0..MaxStarts
  /\ texts \in 0..MaxTexts /\ queued \in Nat
  /\ sending \in [step : {"idle", "send", "try", "pause"}, via : 0..MaxAdapters,
                  auto : BOOLEAN, round : 1..SendRounds, try : 1..SendTries]
  /\ copies \in 0..(SendTries * SendRounds)
  /\ sendReply \in {"none", "sent", "failed"}

\* "WhatsApp sends are executed synchronously when supported so users get real
\* delivery-acceptance errors" (message_send.go): what was "sent" is with WhatsApp,
\* however the pairing, the connection, the restarts and the retries went.
SentIsTaken ==
  sendReply = "sent" => copies > 0

\* A text from the phone is queued once, across reconnections and new adapters,
\* unless an adapter was started again (its client then has one more handler).
HeardOnce == ~retried => queued = texts
=============================================================================
