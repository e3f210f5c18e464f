---------------------------- MODULE ContextBudget ----------------------------
(***************************************************************************)
(* The context of a question (internal/context): the division of a token   *)
(* budget, and the assembly of recent messages, of similar ones found by   *)
(* their embeddings and of knowledge nodes within it, while other turns of *)
(* the session go on and embeddings are made in the background.            *)
(*                                                                         *)
(* Texts are token counts.  Which messages are similar and which nodes     *)
(* match is the question's: any choice.  Memory facts (tier 3) are left    *)
(* out: no caller of Run or RunStream passes a MemoryProvider.             *)
(***************************************************************************)
EXTENDS Integers, Sequences, FiniteSets

CONSTANTS
  Limits,        \* context.max_tokens_per_call
  PromptSizes,   \* tokens of the system prompt
  ToolTokens,    \* tokens of the tool definitions
  TextSizes,     \* tokens of a message
  NodeSizes,     \* tokens of a knowledge line
  Window,        \* recent messages asked for (10 in the code)
  RetrievalK,    \* context.history_retrieval_k
  MaxStored,     \* messages of the session (a bound)
  MaxNodes       \* knowledge nodes that match (a bound)

ASSUME ContextAssumption ==
  /\ Limits \cup PromptSizes \cup TextSizes \cup NodeSizes \subseteq Nat
  /\ {ToolTokens, Window, RetrievalK, MaxStored, MaxNodes} \subseteq Nat

VARIABLES
  limit, prompt,  \* Engine.maxTokens, and the tokens of the system prompt
  stored,         \* the session's messages, in order
  question,       \* index of the message that is being answered, 0 if none
  building,       \* how far Assemble is: "no", "recent", "knowledge", "done"
  context         \* what Assemble has put together

contextVars == <<limit, prompt, stored, question, building, context>>

RoleOverhead == 4
HeaderTokens == 3  \* EstimateTokens("[Knowledge graph]\n")

Least(a, b) == IF a < b THEN a ELSE b

\* AllocateBudget: each part is a share of what the parts before it have left.
AllocateBudget(total, system, user, tools) ==
  LET systemPart == Least(system, total \div 4)
      userPart == Least(user, total - systemPart)
      afterUser == total - systemPart - userPart
      reservedPart == (afterUser * 30) \div 100
      afterReserved == afterUser - reservedPart
      recentPart == (afterReserved * 35) \div 100
      afterRecent == afterReserved - recentPart
      toolPart == Least(tools, (afterRecent * 15) \div 100)
      afterTools == afterRecent - toolPart
      retrievedPart == (afterTools * 60) \div 100
  IN [system |-> systemPart, user |-> userPart, reserved |-> reservedPart,
      recent |-> recentPart, tools |-> toolPart, retrieved |-> retrievedPart,
      semantic |-> afterTools - retrievedPart]

EmptyContext == [recent |-> <<>>, retrieved |-> <<>>, nodes |-> <<>>, asked |-> 0]

ContextInit ==
  /\ limit \in Limits /\ prompt \in PromptSizes
  /\ stored = <<>> /\ question = 0 /\ building = "no" /\ context = EmptyContext

StoredMessage(role, size) == [role |-> role, size |-> size, indexed |-> FALSE, active |-> TRUE]

-----------------------------------------------------------------------------
(* The session.                                                            *)

\* A question is stored before its context is assembled.
Ask(size) ==
  /\ question = 0 /\ Len(stored) < MaxStored
  /\ stored' = Append(stored, StoredMessage("user", size))
  /\ question' = Len(stored')
  /\ building' = "recent"
  /\ UNCHANGED <<limit, prompt, context>>

\* Another turn of the session, or an injected message.
Insert(role, size) ==
  /\ Len(stored) < MaxStored
  /\ stored' = Append(stored, StoredMessage(role, size))
  /\ UNCHANGED <<limit, prompt, question, building, context>>

\* embedMessageAsync, of a message that is no tool result.
Embed(i) ==
  /\ i \in DOMAIN stored /\ stored[i].role # "tool" /\ ~stored[i].indexed
  /\ stored' = [stored EXCEPT ![i].indexed = TRUE]
  /\ UNCHANGED <<limit, prompt, question, building, context>>

\* A compaction, of this run or another: Conversation has its steps.
Archive(n, size) ==
  /\ Len(stored) < MaxStored /\ \E i \in 1..n : stored[i].active
  /\ stored' = Append([i \in DOMAIN stored |->
                         [stored[i] EXCEPT !.active = @ /\ i > n]], StoredMessage("system", size))
  /\ UNCHANGED <<limit, prompt, question, building, context>>

\* The run is over: its answer is an Insert, if there is one.
PromptSent ==
  /\ building = "done"
  /\ question' = 0 /\ building' = "no" /\ context' = EmptyContext
  /\ UNCHANGED <<limit, prompt, stored>>

-----------------------------------------------------------------------------
(* Assemble.                                                               *)

Allocation == AllocateBudget(limit, prompt, stored[question].size, ToolTokens)

Active == {i \in DOMAIN stored : stored[i].active}

\* The sum of the first k sizes of a sequence of messages or nodes.
Tokens(sizes) ==
  LET sum[k \in 0..Len(sizes)] == IF k = 0 THEN 0 ELSE sum[k - 1] + sizes[k]
  IN sum[Len(sizes)]

Costs(indices) == [k \in DOMAIN indices |-> stored[indices[k]].size + RoleOverhead]

\* The longest beginning of a sequence whose sizes fit: the loops of Assemble break
\* at the first that does not.
Fitting(sizes, room) ==
  CHOOSE k \in 0..Len(sizes) :
    /\ Tokens(SubSeq(sizes, 1, k)) <= room
    /\ k < Len(sizes) => Tokens(SubSeq(sizes, 1, k + 1)) > room

\* GetRecent: the last Window active messages, in their order.
GetRecent ==
  LET among == {i \in Active : Cardinality({j \in Active : j > i}) < Window}
  IN CHOOSE s \in [1..Cardinality(among) -> among] :
       \A a, b \in 1..Cardinality(among) : a < b => s[a] < s[b]

\* Tier 1.  The recent messages are tried from the oldest on.
LoadRecent ==
  /\ building = "recent"
  /\ context' = [context EXCEPT !.recent =
       SubSeq(GetRecent, 1, Fitting(Costs(GetRecent), Allocation.recent))]
  /\ building' = "similar"
  /\ UNCHANGED <<limit, prompt, stored, question>>

\* GetStoredEmbeddings and SearchSimilar: the scores may order the embedded, active
\* messages in any way; those below the threshold are passed over.
Searches ==
  LET found == {i \in Active : stored[i].indexed}
  IN UNION {{s \in [1..n -> found] : \A a, b \in 1..n : a # b => s[a] # s[b]} :
              n \in 0..Least(RetrievalK, Cardinality(found))}

Holds(indices, i) == \E k \in DOMAIN indices : indices[k] = i

\* Mutant of Fresh: what is among the recent messages already is taken again.
FreshAlways(i) == TRUE

Fresh(i) == ~Holds(context.recent, i)

\* The room is looked at before the duplicate is: a duplicate for which there is
\* no room ends the loop as well.
Retrieved(similar) ==
  LET step[k \in 0..Len(similar)] ==
        IF k = 0 THEN [taken |-> <<>>, open |-> TRUE]
        ELSE LET last == step[k - 1]
                 cost == Tokens(Costs(Append(last.taken, similar[k])))
             IN IF ~last.open THEN last
                ELSE IF cost > Allocation.retrieved THEN [last EXCEPT !.open = FALSE]
                ELSE IF Fresh(similar[k]) THEN [last EXCEPT !.taken = Append(@, similar[k])]
                ELSE last
  IN step[Len(similar)].taken

\* Tier 2, after the embedding of the question, which may take its time.  Without an
\* embedder, or when it fails, nothing is retrieved.
Retrieve ==
  /\ building = "similar"
  /\ \/ \E similar \in Searches :
          context' = [context EXCEPT !.retrieved = Retrieved(similar)]
     \/ UNCHANGED context
  /\ building' = "knowledge"
  /\ UNCHANGED <<limit, prompt, stored, question>>

\* Tier 4: lines for the nodes that match the question's terms, each node once.  The
\* question closes the context, also when the recent messages hold it already: it was
\* stored before they were read.
AddKnowledge(nodes) ==
  /\ building = "knowledge"
  /\ context' = [context EXCEPT
       !.nodes = IF Allocation.semantic <= HeaderTokens THEN <<>>
                 ELSE SubSeq(nodes, 1, Fitting(nodes, Allocation.semantic - HeaderTokens)),
       !.asked = question]
  /\ building' = "done"
  /\ UNCHANGED <<limit, prompt, stored, question>>

NodeLists == UNION {[1..n -> NodeSizes] : n \in 0..MaxNodes}

ContextNext ==
  \/ \E size \in TextSizes : Ask(size)
  \/ \E role \in {"user", "assistant", "tool"}, size \in TextSizes : Insert(role, size)
  \/ \E i \in 1..MaxStored : Embed(i)
  \/ \E n \in 1..Len(stored), size \in TextSizes : Archive(n, size)
  \/ PromptSent
  \/ LoadRecent
  \/ Retrieve
  \/ \E nodes \in NodeLists : AddKnowledge(nodes)

ContextSpec == ContextInit /\ [][ContextNext]_contextVars

-----------------------------------------------------------------------------
ContextTypeOK ==
  /\ limit \in Limits /\ prompt \in PromptSizes
  /\ stored \in Seq([role : {"user", "assistant", "system", "tool"}, size : TextSizes,
                     indexed : BOOLEAN, active : BOOLEAN])
  /\ question \in 0..Len(stored)
  /\ building \in {"no", "recent", "similar", "knowledge", "done"}
  /\ context \in [recent : Seq(Nat), retrieved : Seq(Nat), nodes : Seq(Nat), asked : Nat]

\* "The allocator guarantees: total allocations <= totalBudget": the parts of an
\* allocation make up the budget and none is negative, also where the fixed parts are
\* larger than their caps or leave nothing.
AddsUp(a, total) ==
  /\ a.system + a.user + a.reserved + a.recent + a.tools + a.retrieved + a.semantic = total
  /\ \A p \in {a.system, a.user, a.reserved, a.recent, a.tools, a.retrieved, a.semantic} : p >= 0

AllocationAddsUp == question # 0 => AddsUp(Allocation, limit)

KnowledgeTokens == IF context.nodes = <<>> THEN 0 ELSE HeaderTokens + Tokens(context.nodes)

\* The messages of the prompt, in their order.
Sent == Append(context.recent \o context.retrieved, context.asked)

\* An assembled context leaves the room for the answer whenever the parts that are
\* always sent in full (prompt, question and tools) are within their caps, whatever was
\* inserted, archived or embedded between the loading of the recent messages and the
\* search.  It ends with the question, and holds no stored message twice but the
\* question: read back with the recent messages or found by the search, it is sent a
\* second time at the end, and never a third.
AssembledFits ==
  building = "done" =>
    /\ LET a == Allocation
           fixed == prompt + stored[question].size + ToolTokens
       IN fixed <= a.system + a.user + a.tools =>
            fixed + Tokens(Costs(context.recent)) + Tokens(Costs(context.retrieved))
              + KnowledgeTokens + a.reserved <= limit
    /\ Sent[Len(Sent)] = question
    /\ \A i, j \in DOMAIN Sent :
         i < j /\ Sent[i] = Sent[j] => Sent[i] = question /\ j = Len(Sent)

\* The budget of a question adds up as soon as it is allocated, and what is assembled
\* under it fits.
ContextFits == AllocationAddsUp /\ AssembledFits
=============================================================================
