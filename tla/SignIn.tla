------------------------------- MODULE SignIn -------------------------------
(***************************************************************************)
(* Signing in with OpenAI: the dashboard's start, callback, status and     *)
(* sign-out, `openclio auth login` with its own little server, and the     *)
(* refresh of the token while a provider is built                          *)
(* (internal/gateway/oauth_openai.go, oauth_cli.go, handlers.go).          *)
(*                                                                         *)
(* The vendor hands out numbered tokens.  The token file is written in     *)
(* place, without a lock: it is opened, which empties it, and then filled; *)
(* either may fail.                                                        *)
(***************************************************************************)
EXTENDS Naturals

CONSTANTS
  Flows,      \* sign-ins that are started in the dashboard
  Login,      \* the sign-in of the command line, another process
  Callbacks,  \* callbacks of the browser at a time
  MaxTokens   \* tokens issued (a bound)

ASSUME SignInAssumption ==
  Login \notin Flows /\ "refresh" \notin Callbacks /\ MaxTokens \in Nat

VARIABLES
  states,     \* oauthStates, by flow: "none", "fresh", "stale" (beyond the TTL)
  callback,   \* by callback: where it is, its flow and its token
  login,      \* the command: "none", "waits", "success", "failure"
  tokenFile,  \* openai_oauth_token.json: "empty" is any text that cannot be read
  refresh,    \* a provider that is being built: where it is, and its token
  held,       \* the token that the built provider works with, 0 for an API key
  issued,     \* tokens issued so far
  outdated,   \* tokens at the end of their time
  exchanged,  \* ghost: by flow, how often its verifier was used
  tokenKept,  \* ghost: sign-ins whose token was written, as far as their callback knows
  signed,     \* ghost: "out" while nothing may have signed in since the last sign-out
  late        \* ghost: who was getting a token at that sign-out

tokenVars == <<tokenFile, issued, outdated>>
signGhosts == <<exchanged, tokenKept, signed, late>>
signVars == <<states, callback, login, tokenVars, refresh, held, signGhosts>>

AllFlows == Flows \cup {Login}
TokenFile(is, token) == [is |-> is, token |-> token]
NoCallback == [step |-> "idle", flow |-> Login, token |-> 0]
NoRefresh == [step |-> "idle", token |-> 0]

SignInit ==
  /\ states = [f \in AllFlows |-> "none"] /\ login = "none"
  /\ callback = [c \in Callbacks |-> NoCallback]
  /\ tokenFile = TokenFile("absent", 0)
  /\ refresh = NoRefresh /\ held = 0
  /\ issued = 0 /\ outdated = {}
  /\ exchanged = [f \in AllFlows |-> 0] /\ tokenKept = {}
  /\ signed = "out" /\ late = {}

-----------------------------------------------------------------------------
(* Starting, and the callback.                                             *)

\* OpenAIOAuthStart and RunOpenAIOAuthLogin make a state and store it.
StartFlow(f) ==
  /\ states[f] = "none" /\ exchanged[f] = 0
  /\ states' = [states EXCEPT ![f] = "fresh"]
  /\ f = Login => login = "none"
  /\ login' = IF f = Login THEN "waits" ELSE login
  /\ UNCHANGED <<callback, tokenVars, refresh, held, signGhosts>>

\* Ten minutes pass; the sweep of every other minute removes the state after that.
StateAges(f) ==
  /\ \/ states[f] = "fresh" /\ states' = [states EXCEPT ![f] = "stale"]
     \/ states[f] = "stale" /\ states' = [states EXCEPT ![f] = "none"]
  /\ UNCHANGED <<callback, login, tokenVars, refresh, held, signGhosts>>

\* Mutant of Consumed: a state that was used stays until it is swept.
ConsumedLater(f) == states

\* ConsumeOAuthState removes the state, fresh or stale.
Consumed(f) == [states EXCEPT ![f] = "none"]

\* The first result of a callback is the command's.
LoginResult(f, result) == IF f = Login /\ login = "waits" THEN result ELSE login

\* A callback for a state.  Any callback, a stray one too, ends the command's wait.
CallbackBegins(c, f) ==
  /\ callback[c].step = "idle"
  /\ f = Login => login = "waits"
  /\ states' = Consumed(f)
  /\ IF states[f] = "fresh"
     THEN /\ callback' = [callback EXCEPT ![c] = [step |-> "exchange", flow |-> f, token |-> 0]]
          /\ exchanged' = [exchanged EXCEPT ![f] = @ + 1]
          /\ signed' = "in"
          /\ UNCHANGED <<login, tokenKept, late>>
     ELSE /\ login' = LoginResult(f, "failure")
          /\ UNCHANGED <<callback, signGhosts>>
  /\ UNCHANGED <<tokenVars, refresh, held>>

\* One without a code, or without a state.
CallbackStray ==
  /\ login = "waits" /\ login' = "failure"
  /\ UNCHANGED <<states, callback, tokenVars, refresh, held, signGhosts>>

\* ExchangeOpenAIOAuthCode.
Exchange(c) ==
  /\ callback[c].step = "exchange"
  /\ \/ /\ issued < MaxTokens /\ issued' = issued + 1
        /\ callback' = [callback EXCEPT ![c].step = "open", ![c].token = issued']
        /\ UNCHANGED login
     \/ /\ callback' = [callback EXCEPT ![c] = NoCallback]
        /\ login' = LoginResult(callback[c].flow, "failure")
        /\ UNCHANGED issued
  /\ UNCHANGED <<states, tokenFile, outdated, refresh, held, signGhosts>>

\* WriteOpenAIOAuthToken, for a callback: the file may not open, or not be filled,
\* and then the sign-in has failed.  One that was under way at the sign-out signs
\* in again as it opens the file.
CallbackOpens(c) ==
  /\ callback[c].step = "open"
  /\ \/ /\ tokenFile' = TokenFile("empty", 0)
        /\ callback' = [callback EXCEPT ![c].step = "fill"]
        /\ signed' = IF c \in late THEN "in" ELSE signed
        /\ UNCHANGED login
     \/ /\ callback' = [callback EXCEPT ![c] = NoCallback]
        /\ login' = LoginResult(callback[c].flow, "failure")
        /\ UNCHANGED <<tokenFile, signed>>
  /\ UNCHANGED <<states, issued, outdated, refresh, held, exchanged, tokenKept, late>>

\* A file that was removed in between takes the text with it, and one that another
\* has filled in between may hold the end of the other's text.
Filled(token) ==
  IF tokenFile.is = "absent" THEN {tokenFile}
  ELSE {TokenFile("whole", token)}
       \cup (IF tokenFile.is = "whole" THEN {TokenFile("empty", 0)} ELSE {})

\* What a write that failed has left.
HalfFilled(token) ==
  IF tokenFile.is = "absent" THEN {tokenFile}
  ELSE {tokenFile, TokenFile("empty", 0), TokenFile("whole", token)}

CallbackFills(c) ==
  /\ callback[c].step = "fill"
  /\ \/ /\ tokenFile' \in Filled(callback[c].token)
        /\ login' = LoginResult(callback[c].flow, "success")
        /\ tokenKept' = tokenKept \cup {callback[c].flow}
     \/ /\ tokenFile' \in HalfFilled(callback[c].token)
        /\ login' = LoginResult(callback[c].flow, "failure")
        /\ UNCHANGED tokenKept
  /\ callback' = [callback EXCEPT ![c] = NoCallback]
  /\ UNCHANGED <<states, issued, outdated, refresh, held, exchanged, signed, late>>

\* Five minutes without a callback; the process ends and with it its states.
LoginTimesOut ==
  /\ login = "waits" /\ login' = "failure"
  /\ states' = [states EXCEPT ![Login] = "none"]
  /\ UNCHANGED <<callback, tokenVars, refresh, held, signGhosts>>

\* The command has its answer: what is still under way has two seconds.
LoginEnds ==
  /\ login \in {"success", "failure"}
  /\ callback' = [c \in Callbacks |-> IF callback[c].flow = Login THEN NoCallback ELSE callback[c]]
  /\ states' = [states EXCEPT ![Login] = "none"]
  /\ UNCHANGED <<login, tokenVars, refresh, held, signGhosts>>

-----------------------------------------------------------------------------
(* The token.                                                              *)

UnderWay ==
  {c \in Callbacks : callback[c].step # "idle"}
  \cup (IF refresh.step # "idle" THEN {"refresh"} ELSE {})

\* OpenAIOAuthSignOut removes the file, and that is all; one that fails does nothing.
SignOut ==
  /\ tokenFile' = TokenFile("absent", 0)
  /\ signed' = "out" /\ late' = UnderWay
  /\ UNCHANGED <<states, callback, login, issued, outdated, refresh, held, exchanged, tokenKept>>

TokenExpires ==
  /\ tokenFile.is = "whole" /\ outdated' = outdated \cup {tokenFile.token}
  /\ UNCHANGED <<states, callback, login, tokenFile, issued, refresh, held, signGhosts>>

\* GetValidOpenAIOAuthAccessToken while a provider is built: a token that has time
\* left is taken, one that has not is refreshed, and without one, or with a file
\* that cannot be read, the provider needs an API key.
ReadToken ==
  /\ refresh.step = "idle"
  /\ IF tokenFile.is # "whole" THEN held' = 0 /\ UNCHANGED refresh
     ELSE IF tokenFile.token \notin outdated THEN held' = tokenFile.token /\ UNCHANGED refresh
     ELSE \/ refresh' = [step |-> "ask", token |-> tokenFile.token] /\ UNCHANGED held
          \/ held' = 0 /\ UNCHANGED refresh
  /\ UNCHANGED <<states, callback, login, tokenVars, signGhosts>>

\* A refresh that fails leaves the provider with the token that has expired.
AskRefresh ==
  /\ refresh.step = "ask"
  /\ \/ issued < MaxTokens /\ issued' = issued + 1
        /\ refresh' = [step |-> "open", token |-> issued'] /\ UNCHANGED held
     \/ held' = refresh.token /\ refresh' = NoRefresh /\ UNCHANGED issued
  /\ UNCHANGED <<states, callback, login, tokenFile, outdated, signGhosts>>

\* The new token is written as a callback's is; that it failed is ignored.
RefreshOpens ==
  /\ refresh.step = "open"
  /\ \/ /\ tokenFile' = TokenFile("empty", 0)
        /\ refresh' = [refresh EXCEPT !.step = "fill"]
        /\ signed' = IF "refresh" \in late THEN "in" ELSE signed
        /\ UNCHANGED held
     \/ /\ held' = refresh.token /\ refresh' = NoRefresh
        /\ UNCHANGED <<tokenFile, signed>>
  /\ UNCHANGED <<states, callback, login, issued, outdated, exchanged, tokenKept, late>>

RefreshFills ==
  /\ refresh.step = "fill"
  /\ tokenFile' \in Filled(refresh.token) \cup HalfFilled(refresh.token)
  /\ held' = refresh.token /\ refresh' = NoRefresh
  /\ UNCHANGED <<states, callback, login, issued, outdated, signGhosts>>

\* The server ends, its states and its requests with it; the command goes on.
SignInCrash ==
  /\ states' = [f \in AllFlows |-> IF f = Login THEN states[f] ELSE "none"]
  /\ callback' = [c \in Callbacks |-> IF callback[c].flow = Login THEN callback[c] ELSE NoCallback]
  /\ refresh' = NoRefresh /\ held' = 0
  /\ UNCHANGED <<login, tokenVars, signGhosts>>

SignNext ==
  \/ \E f \in AllFlows : StartFlow(f) \/ StateAges(f)
  \/ \E c \in Callbacks :
       \/ \E f \in AllFlows : CallbackBegins(c, f)
       \/ Exchange(c)
       \/ CallbackOpens(c)
       \/ CallbackFills(c)
  \/ CallbackStray
  \/ LoginTimesOut
  \/ LoginEnds
  \/ SignOut
  \/ TokenExpires
  \/ ReadToken
  \/ AskRefresh
  \/ RefreshOpens
  \/ RefreshFills
  \/ SignInCrash

SignSpec == SignInit /\ [][SignNext]_signVars

-----------------------------------------------------------------------------
SignTypeOK ==
  /\ \A f \in AllFlows : states[f] \in {"none", "fresh", "stale"}
  /\ \A c \in Callbacks :
       /\ callback[c].step \in {"idle", "exchange", "open", "fill"}
       /\ callback[c].flow \in AllFlows /\ callback[c].token \in 0..issued
  /\ login \in {"none", "waits", "success", "failure"}
  /\ tokenFile.is \in {"absent", "empty", "whole"} /\ tokenFile.token \in 0..issued
  /\ refresh.step \in {"idle", "ask", "open", "fill"} /\ refresh.token \in 0..issued
  /\ held \in 0..issued /\ issued \in 0..MaxTokens /\ outdated \subseteq 1..issued
  /\ tokenKept \subseteq AllFlows /\ signed \in {"in", "out"}
  /\ late \subseteq Callbacks \cup {"refresh"}

\* "ConsumeOAuthState returns the code_verifier for state and removes it": a verifier
\* is used once, however many callbacks come for its state and whenever they do; who
\* has signed out stays out until someone signs in again, or one who was getting a
\* token at the time opens the file; and the command says "Signed in" only if its
\* verifier was used and its token was written without an error.
SignInIsOnce ==
  /\ \A f \in AllFlows : exchanged[f] <= 1
  /\ signed = "out" => tokenFile.is = "absent"
  /\ login = "success" => exchanged[Login] = 1 /\ Login \in tokenKept
=============================================================================
