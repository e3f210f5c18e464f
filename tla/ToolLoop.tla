------------------------------- MODULE ToolLoop -------------------------------
(***************************************************************************)
(* One call of the agent (internal/agent): the loop of model turns and     *)
(* tool calls in Run, RunStream and runSubTask, with the retries of        *)
(* retry.go around the failover of failover.go for whole answers, and the  *)
(* producer goroutine, its channel and its consumer for streamed ones.     *)
(*                                                                         *)
(* Texts, prompts, tokens and costs are left out.  A message is its role   *)
(* and the tool calls it makes or answers.                                 *)
(***************************************************************************)
EXTENDS Naturals, Sequences, SequencesExt

CONSTANTS
  MaxIterations,  \* Agent.maxIterations
  MaxAttempts,    \* DefaultRetryConfig.MaxAttempts
  MaxProviders,   \* a primary and its fallbacks
  MaxCalls,       \* tool calls in one turn of the model (a bound)
  ChunkBuffer     \* capacity of a stream's channel (64 in the code)

ASSUME ToolLoopAssumption ==
  {MaxIterations, MaxAttempts, MaxProviders, MaxCalls, ChunkBuffer} \subseteq Nat \ {0}

VARIABLES
  mode,       \* "run", "stream", or "sub" (a delegated sub-task)
  vendor,     \* of the primary provider
  spare,      \* of its fallbacks
  chain,      \* providers: the primary and chain - 1 fallbacks
  step,       \* where the loop is
  messages,   \* what the next request will carry
  iteration, attempt, at,  \* loop counters: turn, retry, provider
  tried,      \* calls to each provider in this turn
  todo,       \* position in the tool calls of the last turn
  chunks,     \* the stream's channel
  pending,    \* the chunk that the producer is sending, if any
  producer,   \* "none", "reading", "ended" (its channel is closed)
  blocks,     \* tool calls that the producer has read
  collected,  \* tool calls that the consumer has taken
  ending,     \* ghost: how the stream ended
  cancelled,  \* the context is done
  hangs,      \* the loop is in a tool that does not look at the context
  outcome     \* what the caller got

callVars == <<mode, vendor, spare, chain>>
loopVars == <<step, messages, iteration, attempt, at, tried, todo, outcome>>
streamVars == <<chunks, pending, producer, blocks, collected, ending>>
waitVars == <<cancelled, hangs>>
toolVars == <<callVars, loopVars, streamVars, waitVars>>

Modes == {"run", "stream", "sub"}
Streamers == {"openai", "anthropic", "gemini", "ollama"}
Vendors == Streamers \cup {"cohere"}
Tools == {"known", "unknown"}
HasTool(t) == t = "known"

\* The identity of a call: OpenAI, Anthropic and Cohere give one that is unique,
\* Gemini's calls go by the name of the tool, and Ollama's by their place in the turn.
Unique(i, t) == <<iteration, i, "call">>
Name(t) == <<0, 0, t>>
Place(i) == <<0, i, "ollama">>

Call(v, i, t) ==
  [id |-> CASE v = "gemini" -> Name(t) [] v = "ollama" -> Place(i) [] OTHER -> Unique(i, t),
   tool |-> t]
Turns == UNION {[1..n -> Tools] : n \in 0..MaxCalls}
VendorAt(p) == IF p = 1 THEN vendor ELSE spare

Message(role, calls) == [role |-> role, calls |-> calls]
Untried == [p \in 1..MaxProviders |-> 0]

ToolInit ==
  /\ mode = "run" /\ vendor = "openai" /\ spare = "openai" /\ chain = 1
  /\ step = "idle" /\ messages = <<>> /\ todo = 0
  /\ iteration = 1 /\ attempt = 1 /\ at = 1 /\ tried = Untried
  /\ chunks = <<>> /\ pending = <<>> /\ producer = "none"
  /\ blocks = <<>> /\ collected = <<>> /\ ending = "none"
  /\ cancelled = FALSE /\ hangs = FALSE /\ outcome = "none"

End(result) == step' = "ended" /\ outcome' = result

Asking == IF mode' = "stream" THEN "open" ELSE "call"

\* A failover provider is no Streamer, and neither is Cohere's: RunStream falls back
\* to Run.
StartCall(m, v, w, n) ==
  /\ step = "idle"
  /\ m = "stream" => n = 1 /\ v \in Streamers
  /\ n = 1 => w = v
  /\ mode' = m /\ vendor' = v /\ spare' = w /\ chain' = n
  /\ messages' = <<Message("user", <<>>)>>
  /\ step' = Asking
  /\ UNCHANGED <<iteration, attempt, at, tried, todo, outcome, streamVars, waitVars>>

\* No provider, a budget used up, a context that cannot be assembled, a dry run.
RefuseCall ==
  /\ step = "idle"
  /\ End("refused")
  /\ UNCHANGED <<callVars, messages, iteration, attempt, at, tried, todo, streamVars, waitVars>>

CancelCall ==
  /\ step \notin {"idle", "ended"} /\ ~cancelled
  /\ cancelled' = TRUE
  /\ UNCHANGED <<callVars, loopVars, streamVars, hangs>>

-----------------------------------------------------------------------------
(* Requests: a message as a vendor gets it, by the identities of the calls *)
(* that it makes and of the calls that it answers (ToolCallID).            *)

Carries(calls, results) == [calls |-> calls, results |-> results]
Ids(m) == [i \in DOMAIN m.calls |-> m.calls[i].id]
Names(m) == [i \in DOMAIN m.calls |-> Name(m.calls[i].tool)]
Made(m, refs) == IF m.role = "tool" THEN <<>> ELSE refs
Answered(m, refs) == IF m.role = "tool" THEN refs ELSE <<>>

\* Mutant of OpenAIMessage: ToolCallID is not sent.
OpenAIMessageAnonymous(m) == Carries(Made(m, Ids(m)), Answered(m, <<Name("none")>>))

OpenAIMessage(m) == Carries(Made(m, Ids(m)), Answered(m, Ids(m)))

\* tool_use blocks, and a user message with a tool_result block for each result.
AnthropicMessage(m) == Carries(Made(m, Ids(m)), Answered(m, Ids(m)))

CohereMessage(m) == Carries(IF m.role = "assistant" THEN Ids(m) ELSE <<>>, Answered(m, Ids(m)))

\* Calls go by the name of the tool, and results by the identity of the call.
GeminiMessage(m) == Carries(Made(m, Names(m)), Answered(m, Ids(m)))

\* Results have no identity, and a whole answer is asked for without the calls.
Nameless(m) == Answered(m, <<Name("none")>>)
OllamaChatMessage(m) == Carries(<<>>, Nameless(m))
OllamaStreamMessage(m) == Carries(Made(m, Names(m)), Nameless(m))

\* The conversions of streamed requests repeat those of whole ones, but Ollama's.
OpenAIStreamMessage(m) == OpenAIMessage(m)
AnthropicStreamMessage(m) == AnthropicMessage(m)
GeminiStreamMessage(m) == GeminiMessage(m)

Request(v) == [i \in DOMAIN messages |->
  CASE v = "openai" -> IF step = "open" THEN OpenAIStreamMessage(messages[i])
                       ELSE OpenAIMessage(messages[i])
    [] v = "anthropic" -> IF step = "open" THEN AnthropicStreamMessage(messages[i])
                          ELSE AnthropicMessage(messages[i])
    [] v = "gemini" -> IF step = "open" THEN GeminiStreamMessage(messages[i])
                       ELSE GeminiMessage(messages[i])
    [] v = "ollama" -> IF step = "open" THEN OllamaStreamMessage(messages[i])
                       ELSE OllamaChatMessage(messages[i])
    [] v = "cohere" -> CohereMessage(messages[i])]

-----------------------------------------------------------------------------
(* Whole answers.                                                          *)

\* The calls in the answer of each vendor's Chat.
OpenAICalls(ts) == [i \in DOMAIN ts |-> Call("openai", i, ts[i])]
AnthropicCalls(ts) == [i \in DOMAIN ts |-> Call("anthropic", i, ts[i])]
GeminiCalls(ts) == [i \in DOMAIN ts |-> Call("gemini", i, ts[i])]
OllamaCalls(ts) == [i \in DOMAIN ts |-> Call("ollama", i, ts[i])]
CohereCalls(ts) == [i \in DOMAIN ts |-> Call("cohere", i, ts[i])]

CallsOf(v, ts) ==
  CASE v = "openai" -> OpenAICalls(ts)
    [] v = "anthropic" -> AnthropicCalls(ts)
    [] v = "gemini" -> GeminiCalls(ts)
    [] v = "ollama" -> OllamaCalls(ts)
    [] v = "cohere" -> CohereCalls(ts)

\* IsRetryable.  A provider reports an HTTP status in the text of an error only,
\* and of these the text of 429 is the one that is recognised: a status of 5xx is
\* as permanent as one of 4xx.
Failures == {"transient", "5xx", "4xx", "cancelled"}
Retryable(failure) == failure = "transient"

\* FailoverProvider.Chat goes on to the next provider,
NextProvider(failure) == ~cancelled /\ at < chain /\ (at > 1 \/ Retryable(failure))

\* Mutant of Again: one attempt too few.
AgainLess(failure) ==
  /\ mode = "run" /\ Retryable(failure) /\ attempt + 1 < MaxAttempts
  /\ ~(chain > 1 /\ cancelled)

\* and RetryWithBackoff starts again with the first.  Sub-tasks do not retry.
Again(failure) ==
  /\ mode = "run" /\ Retryable(failure) /\ attempt < MaxAttempts
  /\ ~(chain > 1 /\ cancelled)

ProviderFails(failure) ==
  /\ step = "call"
  /\ failure = "cancelled" => cancelled
  /\ tried' = [tried EXCEPT ![at] = @ + 1]
  /\ \/ NextProvider(failure) /\ at' = at + 1 /\ UNCHANGED <<step, outcome>>
     \/ ~NextProvider(failure) /\ at' = 1
        /\ IF Again(failure) THEN step' = "wait" /\ UNCHANGED outcome
           ELSE End(IF cancelled THEN "cancelled"
                    ELSE IF Retryable(failure) THEN "exhausted"
                    ELSE IF failure = "5xx" THEN "unavailable" ELSE "failed")
  /\ UNCHANGED <<callVars, messages, iteration, attempt, todo, streamVars, waitVars>>

BackoffEnds ==
  /\ step = "wait"
  /\ \/ cancelled /\ End("cancelled") /\ UNCHANGED attempt
     \/ step' = "call" /\ attempt' = attempt + 1 /\ UNCHANGED outcome
  /\ UNCHANGED <<callVars, messages, iteration, at, tried, todo, streamVars, waitVars>>

\* A turn without calls is the answer; otherwise its calls join the messages.
TakeTurn(calls) ==
  IF calls = <<>>
  THEN End("answer") /\ UNCHANGED <<messages, todo>>
  ELSE /\ messages' = Append(messages, Message("assistant", calls))
       /\ step' = "tools" /\ todo' = 1 /\ UNCHANGED outcome

ProviderAnswers(ts) ==
  /\ step = "call"
  /\ tried' = [tried EXCEPT ![at] = @ + 1]
  /\ TakeTurn(CallsOf(VendorAt(at), ts))
  /\ UNCHANGED <<callVars, iteration, attempt, at, streamVars, waitVars>>

-----------------------------------------------------------------------------
(* Tools.                                                                  *)

LastTurn == CHOOSE i \in DOMAIN messages :
  /\ messages[i].role = "assistant"
  /\ \A j \in DOMAIN messages : messages[j].role = "assistant" => j <= i
Calls == messages[LastTurn].calls

\* Before an unknown tool only a sub-task looks at the context.
NoticesCancel(call) == cancelled /\ (mode = "sub" \/ HasTool(call.tool))

\* Mutant of ToolResult: a call of an unknown tool gets no result.
ToolResultKnown(call) ==
  messages' = IF HasTool(call.tool) THEN Append(messages, Message("tool", <<call>>)) ELSE messages

\* A result, or an error as the text of a result.
ToolResult(call) == messages' = Append(messages, Message("tool", <<call>>))

RunTool ==
  /\ step = "tools" /\ todo <= Len(Calls) /\ ~hangs
  /\ IF NoticesCancel(Calls[todo])
     THEN End("cancelled") /\ UNCHANGED <<messages, todo>>
     ELSE /\ ToolResult(Calls[todo])
          /\ todo' = todo + 1 /\ UNCHANGED <<step, outcome>>
  /\ UNCHANGED <<callVars, iteration, attempt, at, tried, streamVars, waitVars>>

\* Registry.Execute passes the context on and enforces nothing: the call of a tool
\* that does not look at it (an MCP server that keeps silent, exec with a descendant
\* that holds the output) ends when the tool likes.
ToolHangs ==
  /\ step = "tools" /\ todo <= Len(Calls) /\ ~hangs
  /\ HasTool(Calls[todo].tool) /\ ~cancelled
  /\ hangs' = TRUE
  /\ UNCHANGED <<callVars, loopVars, streamVars, cancelled>>

ToolReturns ==
  /\ step = "tools" /\ todo <= Len(Calls) /\ hangs
  /\ ToolResult(Calls[todo])
  /\ todo' = todo + 1 /\ hangs' = FALSE
  /\ UNCHANGED <<callVars, step, outcome, iteration, attempt, at, tried, streamVars, cancelled>>

NextIteration ==
  /\ step = "tools" /\ todo > Len(Calls)
  /\ IF iteration < MaxIterations
     THEN /\ iteration' = iteration + 1 /\ UNCHANGED outcome
          /\ step' = IF mode = "stream" THEN "open" ELSE "call"
     ELSE End("limit") /\ UNCHANGED iteration
  /\ attempt' = 1 /\ at' = 1 /\ tried' = Untried
  /\ UNCHANGED <<callVars, messages, todo, streamVars, waitVars>>

-----------------------------------------------------------------------------
(* Streamed answers: the consumer.                                         *)

\* Stream sends the request.  A failure is not retried.
OpenStream ==
  /\ step = "open"
  /\ \/ /\ step' = "stream" /\ producer' = "reading"
        /\ chunks' = <<>> /\ pending' = <<>> /\ blocks' = <<>> /\ collected' = <<>>
        /\ ending' = "none"
        /\ UNCHANGED outcome
     \/ End("failed") /\ UNCHANGED streamVars
  /\ UNCHANGED <<callVars, messages, iteration, attempt, at, tried, todo, waitVars>>

TakeChunk ==
  /\ step = "stream" /\ chunks # <<>>
  /\ chunks' = Tail(chunks)
  /\ collected' = collected \o Head(chunks).calls
  /\ IF Head(chunks).err THEN End("failed") /\ UNCHANGED <<messages, todo>>
     ELSE IF Head(chunks).done THEN TakeTurn(collected')
     ELSE UNCHANGED <<step, outcome, messages, todo>>
  /\ UNCHANGED <<callVars, iteration, attempt, at, tried, pending, producer, blocks, ending, waitVars>>

\* A channel that was closed without a last chunk counts as a complete answer.
ChannelClosed ==
  /\ step = "stream" /\ chunks = <<>> /\ producer = "ended"
  /\ TakeTurn(collected)
  /\ UNCHANGED <<callVars, iteration, attempt, at, tried, streamVars, waitVars>>

-----------------------------------------------------------------------------
(* Streamed answers: the producer goroutine of a provider_*_stream.go.     *)

\* Mutant of AllBlocks: the last call is left behind.
AllBlocksButOne == {SubSeq(blocks, 1, Len(blocks) - 1)}

\* The orders in which a sequence can be gone through.
Orders(s) == Bijection(DOMAIN s, DOMAIN s)

\* The order of Anthropic's calls is that of a range over a map.
AllBlocks ==
  IF vendor = "anthropic"
  THEN {[i \in DOMAIN blocks |-> blocks[f[i]]] : f \in Orders(blocks)}
  ELSE {blocks}

Reading == producer = "reading" /\ pending = <<>>

\* The producer turns to its channel; unless forced, it gives up when the context
\* is done.
Sends(calls, err, done, forced) ==
  pending' = <<[calls |-> calls, err |-> err, done |-> done, forced |-> forced]>>

ReadText ==
  /\ Reading
  /\ Sends(<<>>, FALSE, FALSE, FALSE)
  /\ UNCHANGED <<callVars, loopVars, chunks, producer, blocks, collected, ending, waitVars>>

ReadBlock(t) ==
  /\ Reading /\ Len(blocks) < MaxCalls
  /\ blocks' = Append(blocks, Call(vendor, Len(blocks) + 1, t))
  /\ UNCHANGED <<callVars, loopVars, chunks, pending, producer, collected, ending, waitVars>>

\* The last event of each vendor's stream.
Ends(how, calls, err) == ending' = how /\ Sends(calls, err, TRUE, FALSE)

\* It may give a reason other than the calls, which are then dropped.
OpenAILast ==
  \/ \E calls \in AllBlocks : Ends("complete", calls, FALSE)
  \/ Ends("stop", <<>>, FALSE)

AnthropicLast ==
  \/ \E calls \in AllBlocks : Ends("complete", calls, FALSE)
  \/ Ends("error", <<>>, TRUE)

GeminiLast ==
  \/ \E calls \in AllBlocks : Ends("complete", calls, FALSE)
  \/ Ends("error", <<>>, TRUE)

\* Ollama's calls come with the last event.
OllamaLast ==
  \/ \E calls \in AllBlocks : Ends("complete", calls, FALSE)
  \/ Ends("error", <<>>, TRUE)

ReadLast ==
  /\ Reading
  /\ \/ vendor = "openai" /\ OpenAILast
     \/ vendor = "anthropic" /\ AnthropicLast
     \/ vendor = "gemini" /\ GeminiLast
     \/ vendor = "ollama" /\ OllamaLast
  /\ UNCHANGED <<callVars, loopVars, chunks, producer, blocks, collected, waitVars>>

\* The connection ends before: these two chunks are sent without looking at the
\* context.  Only Gemini's producer gives the calls it has.
ReadEnd ==
  /\ Reading /\ ending' = "cut"
  /\ Sends(IF vendor = "gemini" THEN blocks ELSE <<>>, FALSE, TRUE, TRUE)
  /\ UNCHANGED <<callVars, loopVars, chunks, producer, blocks, collected, waitVars>>

ReadFails ==
  /\ Reading /\ ending' = "error"
  /\ Sends(<<>>, TRUE, TRUE, TRUE)
  /\ UNCHANGED <<callVars, loopVars, chunks, producer, blocks, collected, waitVars>>

\* Mutant of ProducerEnds: the channel stays open.
ProducerEndsOpen == producer' = "left"

\* close(ch) and the end of the goroutine.
ProducerEnds == producer' = "ended"

SendChunk ==
  /\ pending # <<>> /\ Len(chunks) < ChunkBuffer
  /\ chunks' = Append(chunks, Head(pending)) /\ pending' = <<>>
  /\ IF Head(pending).done THEN ProducerEnds ELSE UNCHANGED producer
  /\ UNCHANGED <<callVars, loopVars, blocks, collected, ending, waitVars>>

DropChunk ==
  /\ pending # <<>> /\ cancelled /\ ~Head(pending).forced
  /\ ProducerEnds /\ pending' = <<>> /\ ending' = "cut"
  /\ UNCHANGED <<callVars, loopVars, chunks, blocks, collected, waitVars>>

-----------------------------------------------------------------------------
CallSteps ==
  \/ \E f \in Failures : ProviderFails(f)
  \/ BackoffEnds
  \/ \E ts \in Turns : ProviderAnswers(ts)
  \/ RunTool
  \/ NextIteration
  \/ OpenStream

StreamSteps ==
  \/ TakeChunk
  \/ ChannelClosed
  \/ SendChunk
  \/ DropChunk

ToolNext ==
  \/ \E m \in Modes, v, w \in Vendors, n \in 1..MaxProviders : StartCall(m, v, w, n)
  \/ RefuseCall
  \/ CancelCall
  \/ CallSteps
  \/ ToolHangs
  \/ ToolReturns
  \/ StreamSteps
  \/ ReadText
  \/ \E t \in Tools : ReadBlock(t)
  \/ ReadLast
  \/ ReadEnd
  \/ ReadFails

\* Once the context is done, requests, timers and reads return (net/http closes the
\* connection), the tools that look at it return, and the goroutines go on.  Nothing
\* makes a tool return that does not look at it (ToolReturns).
ToolFairness ==
  /\ WF_toolVars(cancelled /\ CallSteps)
  /\ WF_toolVars(StreamSteps)
  /\ SF_toolVars(cancelled /\ ReadFails)

ToolSpec == ToolInit /\ [][ToolNext]_toolVars /\ ToolFairness

-----------------------------------------------------------------------------
AllCalls == [id : (0..MaxIterations) \X (0..MaxCalls) \X (Tools \cup {"call", "ollama"}), tool : Tools]
Chunk == [calls : Seq(AllCalls), err : BOOLEAN, done : BOOLEAN, forced : BOOLEAN]

ToolTypeOK ==
  /\ mode \in Modes /\ {vendor, spare} \subseteq Vendors /\ chain \in 1..MaxProviders
  /\ step \in {"idle", "call", "wait", "open", "stream", "tools", "ended"}
  /\ messages \in Seq([role : {"user", "assistant", "tool"}, calls : Seq(AllCalls)])
  /\ iteration \in 1..MaxIterations /\ attempt \in 1..MaxAttempts /\ at \in 1..chain
  /\ tried \in [1..MaxProviders -> 0..MaxAttempts]
  /\ todo \in 0..(MaxCalls + 1)
  /\ chunks \in Seq(Chunk) /\ Len(chunks) <= ChunkBuffer
  /\ pending \in Seq(Chunk) /\ Len(pending) <= 1
  /\ producer \in {"none", "reading", "ended"}
  /\ blocks \in Seq(AllCalls) /\ collected \in Seq(AllCalls)
  /\ ending \in {"none", "complete", "stop", "error", "cut"}
  /\ cancelled \in BOOLEAN /\ hangs \in BOOLEAN
  /\ outcome \in {"none", "refused", "answer", "limit", "exhausted", "unavailable", "failed",
                  "cancelled"}

\* The calls of the last turn that have no result with their identity, in order.
Unanswered ==
  LET turns == {i \in DOMAIN messages : messages[i].role = "assistant"}
      results == SubSeq(messages, LastTurn + 1, Len(messages))
      inOrder == {n \in 0..Len(results) : n <= Len(Calls) /\
                    \A i \in 1..n : results[i].calls = <<Calls[i]>>}
  IN IF turns = {} THEN <<>>
     ELSE SubSeq(Calls, 1 + (CHOOSE n \in inOrder : \A k \in inOrder : k <= n), Len(Calls))

\* The loop implements the promise to the vendor, whatever fails or is cancelled,
\* in its three versions: Run, RunStream and runSubTask.
Dialogue == INSTANCE ToolDialogue WITH
  CallIds <- AllCalls,
  MaxTurns <- MaxIterations,
  speaker <- CASE step = "idle" -> "nobody" [] step = "ended" -> "nobodyMore"
               [] step = "tools" -> "tools" [] OTHER -> "model",
  owed <- IF step = "ended" THEN <<>> ELSE Unanswered,
  turns <- Cardinality({i \in DOMAIN messages : messages[i].role = "assistant"})

ImplementsDialogue == Dialogue!DialogueSpec

\* A call of Run that nobody cancelled fails with an error that IsRetryable accepts only
\* after MaxAttempts rounds, each of which went through all the providers
\* (RetryWithBackoff around FailoverProvider.Chat).  That is less than the comment in
\* Run says, "automatic retry on transient errors (timeouts, 429, 5xx)": IsRetryable
\* accepts no 5xx, and a call that ends with one is "unavailable" after a single round.
FailuresAreExhausted ==
  outcome = "exhausted" /\ mode = "run" => \A p \in 1..chain : tried[p] = MaxAttempts

\* The tool calls that a stream has delivered are run, all of them and in their
\* order (Anthropic's: in some order), unless the stream was cut or its vendor said
\* that it stopped for another reason.
CallsArriveWhole ==
  /\ mode = "stream" /\ step = "tools" =>
       /\ \E f \in Orders(blocks) : Calls = [i \in DOMAIN blocks |-> blocks[f[i]]]
       /\ vendor # "anthropic" => Calls = blocks
  /\ mode = "stream" /\ outcome = "answer" /\ blocks # <<>> => ending \in {"stop", "cut"}

\* The calls of a request are followed by their results, one for each, and there are
\* no other results.
ResultsFollow(request) ==
  /\ \A i \in DOMAIN request : \A k \in DOMAIN request[i].calls :
       i + k \in DOMAIN request /\ Len(request[i + k].results) = 1
  /\ \A j \in DOMAIN request : request[j].results # <<>> =>
       \E i \in DOMAIN request : \E k \in DOMAIN request[i].calls : j = i + k

\* A result has the identity of its call.
SameIdentities(request) ==
  \A i \in DOMAIN request : \A k \in DOMAIN request[i].calls :
    request[i + k].results = <<request[i].calls[k]>>

\* A request pairs results with calls, in order: what OpenAI, Anthropic and Cohere
\* require of every request, also after a failover to another vendor.  Gemini's
\* names pair only when all the calls are its own, and Ollama's results only by
\* their number, and only in streamed requests.
ResultsFindTheirCalls ==
  LET v == VendorAt(at)
  IN step \in {"call", "open"} =>
       /\ v # "ollama" \/ step = "open" => ResultsFollow(Request(v))
       /\ v \in {"openai", "anthropic", "cohere"} \/ (v = "gemini" /\ spare = vendor)
            => SameIdentities(Request(v))

\* An aborted or disconnected call ends, its stream's goroutine included, whatever
\* the channel holds at the time (the last chunk of a broken stream is sent without
\* looking at the context), unless it is inside a tool that ignores the context.
CancelEnds == cancelled ~> (hangs \/ (step = "ended" /\ producer # "reading"))
=============================================================================
