----------------------------- MODULE RequestProofs -----------------------------
(***************************************************************************)
(* Proofs about the requests that the agent makes of a model: what is in   *)
(* them (ContextBudget) and the calls of tools that are asked and answered *)
(* in them (ToolLoop).                                                     *)
(*                                                                         *)
(* That the parts of an allocation make up the budget is arithmetic, of    *)
(* every budget and of every prompt, question and list of tools; that      *)
(* every question is answered with such an allocation needs the session's  *)
(* messages to keep their types, and the question to be one of them,       *)
(* whatever turns and compactions run beside it.  What the loops of        *)
(* Assemble take is summed over sequences: the sum is a function that the  *)
(* definition describes, and that there is one such function is shown for  *)
(* each length in turn, as is that the loop over what a search found keeps *)
(* within its room.                                                        *)
(*                                                                         *)
(* The invariant of the loop says how often each provider has been tried   *)
(* and how the messages are made up: turns that call tools, each followed  *)
(* by the results of its calls, of which only the last turn may still lack *)
(* some.  That of the stream says that calls come in the last chunk only,  *)
(* and that a channel without one was cut.                                 *)
(***************************************************************************)
EXTENDS MCServices, FiniteSetTheorems, SequenceTheorems, WellFoundedInduction, TLAPS

-----------------------------------------------------------------------------
(* The context budget.                                                     *)

LEMMA ContextBounds ==
  /\ Limits \subseteq Nat /\ PromptSizes \subseteq Nat
  /\ TextSizes \subseteq Nat /\ NodeSizes \subseteq Nat
  /\ ToolTokens \in Nat /\ Window \in Nat /\ RetrievalK \in Nat
  /\ MaxStored \in Nat /\ MaxNodes \in Nat
BY ContextAssumption

\* A share of an amount is no more than the amount: the percentages of budget.go.
LEMMA Shares ==
  ASSUME NEW n \in Nat
  PROVE  /\ n \div 4 \in 0..n
         /\ (n * 30) \div 100 \in 0..n
         /\ (n * 35) \div 100 \in 0..n
         /\ (n * 15) \div 100 \in 0..n
         /\ (n * 60) \div 100 \in 0..n
OBVIOUS

LEMMA LeastBounds ==
  ASSUME NEW a \in Nat, NEW b \in Nat
  PROVE  Least(a, b) \in Nat /\ Least(a, b) <= a /\ Least(a, b) <= b
BY DEF Least

Parts == [system : Nat, user : Nat, reserved : Nat, recent : Nat, tools : Nat,
          retrieved : Nat, semantic : Nat]

Together(a) == a.system + a.user + a.reserved + a.recent + a.tools + a.retrieved + a.semantic

\* Each part of an allocation is an amount, and together they make up the budget.
LEMMA AllocationParts ==
  ASSUME NEW total \in Nat, NEW system \in Nat, NEW user \in Nat, NEW tools \in Nat
  PROVE  /\ AllocateBudget(total, system, user, tools) \in Parts
         /\ Together(AllocateBudget(total, system, user, tools)) = total
<1> DEFINE systemPart == Least(system, total \div 4)
           userPart == Least(user, total - systemPart)
           afterUser == total - systemPart - userPart
           reservedPart == (afterUser * 30) \div 100
           afterReserved == afterUser - reservedPart
           recentPart == (afterReserved * 35) \div 100
           afterRecent == afterReserved - recentPart
           toolPart == Least(tools, (afterRecent * 15) \div 100)
           afterTools == afterRecent - toolPart
           retrievedPart == (afterTools * 60) \div 100
<1>1. systemPart \in Nat /\ total - systemPart \in Nat
  <2>1. total \div 4 \in 0..total
    BY Shares
  <2>2. total \div 4 \in Nat
    BY <2>1
  <2>3. systemPart \in Nat /\ systemPart <= total \div 4
    BY <2>2, LeastBounds
  <2> QED
    BY <2>1, <2>3
<1> HIDE DEF systemPart
<1>2. userPart \in Nat /\ afterUser \in Nat
  <2>1. userPart \in Nat /\ userPart <= total - systemPart
    BY <1>1, LeastBounds
  <2> QED
    BY <1>1, <2>1
<1> HIDE DEF userPart, afterUser
<1>3. reservedPart \in Nat /\ afterReserved \in Nat
  <2>1. reservedPart \in 0..afterUser
    BY <1>2, Shares
  <2> QED
    BY <1>2, <2>1
<1> HIDE DEF reservedPart, afterReserved
<1>4. recentPart \in Nat /\ afterRecent \in Nat
  <2>1. recentPart \in 0..afterReserved
    BY <1>3, Shares
  <2> QED
    BY <1>3, <2>1
<1> HIDE DEF recentPart, afterRecent
<1>5. toolPart \in Nat /\ afterTools \in Nat
  <2>1. (afterRecent * 15) \div 100 \in 0..afterRecent
    BY <1>4, Shares
  <2>2. (afterRecent * 15) \div 100 \in Nat
    BY <1>4, <2>1
  <2>3. toolPart \in Nat /\ toolPart <= (afterRecent * 15) \div 100
    BY <2>2, LeastBounds
  <2> QED
    BY <1>4, <2>1, <2>3
<1> HIDE DEF toolPart, afterTools
<1>6. retrievedPart \in Nat /\ afterTools - retrievedPart \in Nat
  <2>1. retrievedPart \in 0..afterTools
    BY <1>5, Shares
  <2> QED
    BY <1>5, <2>1
<1> HIDE DEF retrievedPart
<1>7. AllocateBudget(total, system, user, tools) =
        [system |-> systemPart, user |-> userPart, reserved |-> reservedPart,
         recent |-> recentPart, tools |-> toolPart, retrieved |-> retrievedPart,
         semantic |-> afterTools - retrievedPart]
  BY Zenon DEF AllocateBudget, systemPart, userPart, afterUser, reservedPart, afterReserved,
        recentPart, afterRecent, toolPart, afterTools, retrievedPart
<1>8. systemPart + userPart + reservedPart + recentPart + toolPart + retrievedPart
        + (afterTools - retrievedPart) = total
  BY <1>1, <1>2, <1>3, <1>4, <1>5, <1>6 DEF afterUser, afterReserved, afterRecent, afterTools
<1> QED
  BY <1>1, <1>2, <1>3, <1>4, <1>5, <1>6, <1>7, <1>8 DEF Parts, Together

\* "The allocator guarantees: total allocations <= totalBudget" (budget.go:26), with
\* equality, for any budget and any sizes.
THEOREM AllocationIsExact ==
  ASSUME NEW total \in Nat, NEW system \in Nat, NEW user \in Nat, NEW tools \in Nat
  PROVE  AddsUp(AllocateBudget(total, system, user, tools), total)
<1> DEFINE a == AllocateBudget(total, system, user, tools)
<1>1. a \in Parts /\ Together(a) = total
  BY AllocationParts
<1> HIDE DEF a
<1>2. AddsUp(a, total)
  BY <1>1 DEF Parts, Together, AddsUp
<1> QED
  BY <1>2 DEF a

-----------------------------------------------------------------------------
\* What of the session's state an allocation looks at.
Messages == [role : {"user", "assistant", "system", "tool"}, size : TextSizes,
             indexed : BOOLEAN, active : BOOLEAN]

SessionInv ==
  /\ limit \in Limits /\ prompt \in PromptSizes
  /\ stored \in Seq(Messages)
  /\ question \in 0..Len(stored)

LEMMA SessionInit == ContextInit => SessionInv
BY DEF ContextInit, SessionInv

LEMMA NewMessage ==
  ASSUME NEW role \in {"user", "assistant", "system", "tool"}, NEW length \in TextSizes
  PROVE  StoredMessage(role, length) \in Messages
BY DEF StoredMessage, Messages

\* The session only grows, and its messages keep their roles and sizes.
LEMMA SessionStep == SessionInv /\ [ContextNext]_contextVars => SessionInv'
<1> SUFFICES ASSUME SessionInv, [ContextNext]_contextVars PROVE SessionInv'
  OBVIOUS
<1> USE DEF SessionInv
<1>1. ASSUME NEW length \in TextSizes, Ask(length) PROVE SessionInv'
  <2>1. stored' = Append(stored, StoredMessage("user", length)) /\ question' = Len(stored')
    BY <1>1 DEF Ask
  <2>2. StoredMessage("user", length) \in Messages
    BY NewMessage
  <2>3. stored' \in Seq(Messages)
    BY <2>1, <2>2
  <2>4. question' \in 0..Len(stored')
    BY <2>1, <2>3
  <2> QED
    BY <1>1, <2>3, <2>4 DEF Ask
<1>2. ASSUME NEW role \in {"user", "assistant", "tool"}, NEW length \in TextSizes,
             Insert(role, length)
      PROVE SessionInv'
  <2>1. stored' = Append(stored, StoredMessage(role, length)) /\ UNCHANGED question
    BY <1>2 DEF Insert
  <2>2. StoredMessage(role, length) \in Messages
    BY NewMessage
  <2>3. stored' \in Seq(Messages) /\ Len(stored') = Len(stored) + 1
    BY <2>1, <2>2
  <2> QED
    BY <1>2, <2>1, <2>3 DEF Insert
<1>3. ASSUME NEW i \in 1..MaxStored, Embed(i) PROVE SessionInv'
  <2>1. i \in DOMAIN stored /\ stored' = [stored EXCEPT ![i].indexed = TRUE]
    BY <1>3 DEF Embed
  <2>2. [stored[i] EXCEPT !.indexed = TRUE] \in Messages
    <3>1. stored[i] \in Messages
      BY <2>1
    <3> QED
      BY <3>1 DEF Messages
  <2>3. stored' \in Seq(Messages) /\ Len(stored') = Len(stored)
    BY <2>1, <2>2
  <2> QED
    BY <1>3, <2>3 DEF Embed
<1>4. ASSUME NEW n \in 1..Len(stored), NEW length \in TextSizes, Archive(n, length)
      PROVE  SessionInv'
  <2> DEFINE after == [i \in DOMAIN stored |-> [stored[i] EXCEPT !.active = @ /\ i > n]]
  <2>1. stored' = Append(after, StoredMessage("system", length)) /\ UNCHANGED question
    BY <1>4 DEF Archive
  <2>2. ASSUME NEW i \in DOMAIN stored PROVE [stored[i] EXCEPT !.active = @ /\ i > n] \in Messages
    <3>1. stored[i] \in Messages
      BY <2>2
    <3>2. (stored[i].active /\ i > n) \in BOOLEAN
      OBVIOUS
    <3> QED
      BY <3>1, <3>2 DEF Messages
  <2>3. after \in Seq(Messages) /\ Len(after) = Len(stored)
    BY <2>2
  <2>4. StoredMessage("system", length) \in Messages
    BY NewMessage
  <2> HIDE DEF after
  <2>5. stored' \in Seq(Messages) /\ Len(stored') = Len(stored) + 1
    BY <2>1, <2>3, <2>4
  <2> QED
    BY <1>4, <2>1, <2>5 DEF Archive
<1>5. CASE PromptSent
  BY <1>5 DEF PromptSent
<1>6. CASE LoadRecent
  BY <1>6 DEF LoadRecent
<1>7. CASE Retrieve
  BY <1>7 DEF Retrieve
<1>8. ASSUME NEW nodes \in NodeLists, AddKnowledge(nodes) PROVE SessionInv'
  BY <1>8 DEF AddKnowledge
<1>9. CASE UNCHANGED contextVars
  BY <1>9 DEF contextVars
<1> QED
  BY <1>1, <1>2, <1>3, <1>4, <1>5, <1>6, <1>7, <1>8, <1>9 DEF ContextNext

LEMMA SessionAllocates == SessionInv => AllocationAddsUp
<1> SUFFICES ASSUME SessionInv, question # 0 PROVE AddsUp(Allocation, limit)
  BY DEF AllocationAddsUp
<1>1. limit \in Nat /\ prompt \in Nat /\ ToolTokens \in Nat
  BY ContextBounds DEF SessionInv
<1>2. stored[question].size \in Nat
  <2>1. question \in 1..Len(stored)
    BY DEF SessionInv
  <2>2. stored[question] \in Messages
    BY <2>1 DEF SessionInv
  <2> QED
    BY <2>2, ContextBounds DEF Messages
<1> QED
  BY <1>1, <1>2, AllocationIsExact DEF Allocation

\* Whatever turns, compactions and embeddings go on in the session, the question that
\* is being answered has an allocation that makes up its budget.
THEOREM EveryBudgetAddsUp == ContextSpec => []AllocationAddsUp
<1>1. SessionInv => AllocationAddsUp
  BY SessionAllocates
<1> QED
  BY SessionInit, SessionStep, <1>1, PTL DEF ContextSpec

-----------------------------------------------------------------------------
(* Sums and orders.                                                        *)

\* What holds of 0, and of the next number with each, holds up to any number.
LEMMA UpTo ==
  ASSUME NEW n \in Nat, NEW S, 0 \in S, \A k \in Nat : k < n /\ k \in S => k + 1 \in S
  PROVE  0..n \subseteq S
<1> DEFINE T == {k \in 0..n : k \notin S}
           less == OpToRel(<, Nat)
<1> SUFFICES ASSUME T # {} PROVE FALSE
  OBVIOUS
<1>1. T \subseteq Nat
  OBVIOUS
<1>2. IsWellFoundedOn(less, Nat)
  BY NatLessThanWellFounded, Zenon
<1>3. \A i, j \in Nat : i < j => <<i, j>> \in less
  BY DEF OpToRel
<1> HIDE DEF less
<1>4. PICK x \in T : \A y \in T : ~(<<y, x>> \in less)
  BY <1>1, <1>2, WFMin
<1>5. x \in Nat /\ x # 0 /\ x <= n /\ x \notin S
  OBVIOUS
<1>6. x - 1 \in Nat /\ x - 1 < x /\ x - 1 < n /\ x - 1 + 1 = x
  BY <1>5
<1>7. x - 1 \notin T
  BY <1>1, <1>3, <1>4, <1>5, <1>6
<1>8. x - 1 \in S
  BY <1>6, <1>7
<1> QED
  BY <1>5, <1>6, <1>8

\* The sums of the beginnings of a sequence.
Adds(f, n, sizes) == f = [k \in 0..n |-> IF k = 0 THEN 0 ELSE f[k - 1] + sizes[k]]

LEMMA SumExists ==
  ASSUME NEW n \in Nat, NEW sizes, \A k \in 1..n : sizes[k] \in Nat
  PROVE  \E f : Adds(f, n, sizes)
<1> DEFINE Amount(f, m) == f \in [0..m -> Nat] /\ Adds(f, m, sizes)
           S == {m \in Nat : \E f : Amount(f, m)}
<1>1. 0 \in S
  <2> DEFINE f == [k \in 0..0 |-> 0]
  <2>1. f \in [0..0 -> Nat]
    OBVIOUS
  <2>2. Adds(f, 0, sizes)
    BY DEF Adds
  <2> QED
    BY <2>1, <2>2
<1>2. ASSUME NEW m \in Nat, m < n, m \in S
      PROVE  m + 1 \in S
  <2>1. PICK f : Amount(f, m)
    BY <1>2
  <2> DEFINE g == [k \in 0..(m + 1) |-> IF k = m + 1 THEN f[m] + sizes[m + 1] ELSE f[k]]
  <2>2. m + 1 \in 1..n /\ m + 1 \in Nat
    BY <1>2
  <2>3. g \in [0..(m + 1) -> Nat]
    BY <2>1, <2>2
  <2>4. \A k \in 0..m : g[k] = f[k]
    OBVIOUS
  <2>5. ASSUME NEW k \in 0..(m + 1)
        PROVE  g[k] = IF k = 0 THEN 0 ELSE g[k - 1] + sizes[k]
    <3>1. CASE k = m + 1
      <4>1. g[k] = f[m] + sizes[k] /\ k # 0 /\ k - 1 = m /\ m \in 0..m
        BY <3>1
      <4>2. g[k - 1] = f[m]
        BY <2>4, <4>1
      <4> QED
        BY <4>1, <4>2
    <3>2. CASE k # m + 1
      <4>1. k \in 0..m
        BY <3>2
      <4>2. g[k] = f[k]
        BY <2>4, <4>1
      <4>3. f[k] = IF k = 0 THEN 0 ELSE f[k - 1] + sizes[k]
        BY <2>1, <4>1 DEF Adds
      <4>4. k # 0 => g[k - 1] = f[k - 1]
        BY <2>4, <4>1
      <4> QED
        BY <4>2, <4>3, <4>4
    <3> QED
      BY <3>1, <3>2
  <2>6. Adds(g, m + 1, sizes)
    <3>1. g = [k \in 0..(m + 1) |-> g[k]]
      OBVIOUS
    <3> HIDE DEF g
    <3> QED
      BY <2>5, <3>1 DEF Adds
  <2> HIDE DEF g
  <2> QED
    BY <2>2, <2>3, <2>6
<1> HIDE DEF S
<1>3. 0..n \subseteq S
  BY <1>1, <1>2, UpTo
<1>4. n \in S
  BY <1>3
<1> QED
  BY <1>4 DEF S

LEMMA SumTyped ==
  ASSUME NEW n \in Nat, NEW sizes, \A k \in 1..n : sizes[k] \in Nat, NEW f, Adds(f, n, sizes)
  PROVE  f[0] = 0 /\ \A m \in 0..n : f[m] \in Nat
<1> DEFINE S == {m \in 0..n : f[m] \in Nat}
<1>1. \A k \in 0..n : f[k] = IF k = 0 THEN 0 ELSE f[k - 1] + sizes[k]
  BY DEF Adds
<1>2. 0 \in S /\ f[0] = 0
  BY <1>1
<1>3. ASSUME NEW m \in Nat, m < n, m \in S
      PROVE  m + 1 \in S
  <2>1. m + 1 \in 1..n /\ m + 1 \in 0..n /\ m + 1 # 0 /\ m + 1 - 1 = m
    BY <1>3
  <2>2. f[m + 1] = f[m] + sizes[m + 1]
    BY <1>1, <2>1
  <2> QED
    BY <1>3, <2>1, <2>2
<1> HIDE DEF S
<1>4. 0..n \subseteq S
  BY <1>2, <1>3, UpTo
<1> QED
  BY <1>2, <1>4 DEF S

LEMMA TokensAre ==
  ASSUME NEW sizes \in Seq(Nat)
  PROVE  /\ Tokens(sizes) \in Nat
         /\ Len(sizes) = 0 => Tokens(sizes) = 0
<1> DEFINE n == Len(sizes)
           sum == CHOOSE f : Adds(f, n, sizes)
<1>1. n \in Nat /\ \A k \in 1..n : sizes[k] \in Nat
  BY ElementOfSeq
<1>2. Tokens(sizes) = sum[n]
  BY DEF Tokens, Adds
<1> HIDE DEF n
<1>3. \E f : Adds(f, n, sizes)
  BY <1>1, SumExists
<1>4. Adds(sum, n, sizes)
  BY <1>3
<1> HIDE DEF sum
<1>5. sum[0] = 0 /\ \A m \in 0..n : sum[m] \in Nat
  BY <1>1, <1>4, SumTyped
<1> QED
  BY <1>1, <1>2, <1>5 DEF n

LEMMA Beginnings ==
  ASSUME NEW S, NEW s \in Seq(S), NEW k \in 0..Len(s)
  PROVE  /\ SubSeq(s, 1, k) \in Seq(S) /\ Len(SubSeq(s, 1, k)) = k
         /\ \A i \in 1..k : SubSeq(s, 1, k)[i] = s[i]
<1>1. k \in Nat /\ \A i \in 1..k : s[i] \in S
  BY ElementOfSeq
<1>2. /\ SubSeq(s, 1, k) \in Seq(S) /\ Len(SubSeq(s, 1, k)) = IF 1 <= k THEN k - 1 + 1 ELSE 0
      /\ \A i \in 1..(k - 1 + 1) : SubSeq(s, 1, k)[i] = s[1 + i - 1]
  BY <1>1, SubSeqProperties
<1>3. ASSUME NEW i \in 1..k PROVE SubSeq(s, 1, k)[i] = s[i]
  <2>1. 1 + i - 1 = i /\ i \in 1..(k - 1 + 1)
    BY <1>1
  <2>2. SubSeq(s, 1, k)[i] = s[1 + i - 1]
    BY <1>2, <2>1
  <2> QED
    BY <2>1, <2>2
<1>4. Len(SubSeq(s, 1, k)) = k
  BY <1>1, <1>2
<1> QED
  BY <1>2, <1>3, <1>4

\* The loops of Assemble stop where the room does.
LEMMA FittingIs ==
  ASSUME NEW sizes \in Seq(Nat), NEW room \in Nat
  PROVE  /\ Fitting(sizes, room) \in 0..Len(sizes)
         /\ Tokens(SubSeq(sizes, 1, Fitting(sizes, room))) <= room
<1> DEFINE Amount(k) == Tokens(SubSeq(sizes, 1, k))
           Enough(k) == Amount(k) <= room /\ (k < Len(sizes) => Amount(k + 1) > room)
<1>1. \A k \in 0..Len(sizes) : Amount(k) \in Nat
  BY Beginnings, TokensAre
<1>2. Amount(0) <= room
  <2>1. SubSeq(sizes, 1, 0) \in Seq(Nat) /\ Len(SubSeq(sizes, 1, 0)) = 0
    BY Beginnings
  <2>2. Tokens(SubSeq(sizes, 1, 0)) = 0
    BY <2>1, TokensAre
  <2> QED
    BY <2>2
<1> HIDE DEF Amount
<1>3. \E k \in 0..Len(sizes) : Enough(k)
  <2> SUFFICES ASSUME \A k \in 0..Len(sizes) : ~Enough(k) PROVE FALSE
    OBVIOUS
  <2> DEFINE S == {k \in 0..Len(sizes) : Amount(k) <= room}
  <2>1. Len(sizes) \in Nat /\ 0 \in S
    BY <1>2
  <2>2. ASSUME NEW k \in Nat, k < Len(sizes), k \in S PROVE k + 1 \in S
    <3>1. k \in 0..Len(sizes) /\ k + 1 \in 0..Len(sizes)
      BY <2>1, <2>2
    <3>2. ~(Amount(k + 1) > room)
      BY <2>2, <3>1
    <3> QED
      BY <1>1, <3>1, <3>2
  <2> HIDE DEF S
  <2>3. 0..Len(sizes) \subseteq S
    BY <2>1, <2>2, UpTo
  <2>4. Len(sizes) \in 0..Len(sizes)
    BY <2>1
  <2>5. Amount(Len(sizes)) <= room
    BY <2>3, <2>4 DEF S
  <2> QED
    BY <2>1, <2>4, <2>5
<1>4. Fitting(sizes, room) = CHOOSE k \in 0..Len(sizes) : Enough(k)
  BY DEF Fitting, Amount
<1>5. Fitting(sizes, room) \in 0..Len(sizes) /\ Enough(Fitting(sizes, room))
  BY <1>3, <1>4
<1> QED
  BY <1>5 DEF Amount

\* Numbers can be put in order.
Ascends(s, n) == \A a, b \in 1..n : a < b => s[a] < s[b]

LEMMA InOrder ==
  ASSUME NEW n \in Nat, NEW A \in SUBSET (1..n)
  PROVE  Cardinality(A) \in Nat /\ \E s \in [1..Cardinality(A) -> A] : Ascends(s, Cardinality(A))
<1> DEFINE Ordered(B) == /\ Cardinality(B) \in Nat
                         /\ \E s \in [1..Cardinality(B) -> B] : Ascends(s, Cardinality(B))
           S == {m \in Nat : \A B \in SUBSET (1..m) : Ordered(B)}
<1>1. 0 \in S
  <2>1. ASSUME NEW B \in SUBSET (1..0) PROVE Ordered(B)
    <3>1. B = {} /\ Cardinality(B) = 0
      <4>1. B = {}
        OBVIOUS
      <4> QED
        BY <4>1, FS_EmptySet
    <3> DEFINE s == [a \in 1..0 |-> a]
    <3>2. s \in [1..0 -> B] /\ Ascends(s, 0)
      BY <3>1 DEF Ascends
    <3> HIDE DEF s
    <3>3. \E r \in [1..0 -> B] : Ascends(r, 0)
      BY <3>2
    <3>4. Cardinality(B) \in Nat
      BY <3>1
    <3> QED
      BY <3>1, <3>3, <3>4, Zenon
  <2> QED
    BY <2>1
<1>2. ASSUME NEW m \in Nat, m < n, m \in S PROVE m + 1 \in S
  <2>1. ASSUME NEW B \in SUBSET (1..(m + 1)) PROVE Ordered(B)
    <3>1. CASE m + 1 \notin B
      <4>1. B \in SUBSET (1..m)
        BY <3>1
      <4> QED
        BY <1>2, <4>1
    <3>2. CASE m + 1 \in B
      <4> DEFINE C == B \ {m + 1}
                 c == Cardinality(C)
      <4>1. C \in SUBSET (1..m) /\ m + 1 \notin C /\ B = C \cup {m + 1}
        BY <3>2
      <4>2. Ordered(C)
        BY <1>2, <4>1
      <4>3. IsFiniteSet(C)
        <5>1. IsFiniteSet(1..m)
          BY FS_Interval
        <5> QED
          BY <4>1, <5>1, FS_Subset
      <4> HIDE DEF C
      <4>4. Cardinality(B) = c + 1 /\ c \in Nat
        BY <4>1, <4>2, <4>3, FS_AddElement
      <4>5. PICK s \in [1..c -> C] : Ascends(s, c)
        BY <4>2
      <4> HIDE DEF c
      <4> DEFINE t == [a \in 1..(c + 1) |-> IF a = c + 1 THEN m + 1 ELSE s[a]]
      <4>6. ASSUME NEW a \in 1..c
            PROVE  t[a] = s[a] /\ s[a] \in C /\ s[a] < m + 1 /\ a \in 1..(c + 1)
        <5>1. a \in 1..(c + 1) /\ a # c + 1
          BY <4>4
        <5>2. s[a] \in C /\ s[a] \in 1..m
          BY <4>1, <4>5
        <5> QED
          BY <5>1, <5>2
      <4>7. t[c + 1] = m + 1 /\ c + 1 \in 1..(c + 1)
        BY <4>4
      <4>8. t \in [1..(c + 1) -> B]
        <5>1. ASSUME NEW a \in 1..(c + 1) PROVE t[a] \in B
          <6>1. CASE a = c + 1
            BY <3>2, <4>7, <6>1
          <6>2. CASE a # c + 1
            <7>1. a \in 1..c
              BY <4>4, <6>2
            <7> QED
              BY <4>1, <4>6, <7>1
          <6> QED
            BY <6>1, <6>2
        <5> QED
          BY <5>1
      <4> HIDE DEF t
      <4>9. Ascends(t, c + 1)
        <5> SUFFICES ASSUME NEW a \in 1..(c + 1), NEW b \in 1..(c + 1), a < b PROVE t[a] < t[b]
          BY DEF Ascends
        <5>1. a \in 1..c
          BY <4>4
        <5>2. CASE b = c + 1
          BY <4>6, <4>7, <5>1, <5>2
        <5>3. CASE b # c + 1
          <6>1. b \in 1..c
            BY <4>4, <5>3
          <6> QED
            BY <4>5, <4>6, <5>1, <6>1 DEF Ascends
        <5> QED
          BY <5>2, <5>3
      <4> QED
        BY <4>4, <4>8, <4>9
    <3> QED
      BY <3>1, <3>2
  <2> QED
    BY <2>1
<1> HIDE DEF S
<1>3. 0..n \subseteq S
  BY <1>1, <1>2, UpTo
<1>4. n \in S
  BY <1>3
<1> QED
  BY <1>4 DEF S

Distinct(s) == \A a, b \in 1..Len(s) : s[a] = s[b] => a = b

\* The recent messages are messages, each once.
LEMMA GetRecentIs ==
  ASSUME SessionInv
  PROVE  GetRecent \in Seq(1..Len(stored)) /\ Distinct(GetRecent)
<1> DEFINE among == {i \in Active : Cardinality({j \in Active : j > i}) < Window}
           n == Cardinality(among)
<1>1. Len(stored) \in Nat /\ DOMAIN stored = 1..Len(stored)
  BY DEF SessionInv
<1>2. among \in SUBSET (1..Len(stored))
  BY <1>1 DEF Active
<1>3. GetRecent = CHOOSE s \in [1..n -> among] : Ascends(s, n)
  BY DEF GetRecent, Ascends
<1> HIDE DEF among
<1>4. n \in Nat /\ \E s \in [1..n -> among] : Ascends(s, n)
  BY <1>1, <1>2, InOrder
<1> HIDE DEF n
<1>5. GetRecent \in [1..n -> among] /\ Ascends(GetRecent, n)
  BY <1>3, <1>4
<1>6. GetRecent \in [1..n -> 1..Len(stored)]
  BY <1>2, <1>5
<1>7. GetRecent \in Seq(1..Len(stored)) /\ Len(GetRecent) = n
  BY <1>4, <1>6
<1>8. ASSUME NEW a \in 1..n, NEW b \in 1..n, GetRecent[a] = GetRecent[b] PROVE a = b
  <2>1. GetRecent[a] \in Nat /\ GetRecent[b] \in Nat
    BY <1>1, <1>6
  <2>2. ~(a < b) /\ ~(b < a)
    BY <1>5, <1>8, <2>1 DEF Ascends
  <2> QED
    BY <1>4, <2>2
<1> QED
  BY <1>7, <1>8 DEF Distinct

-----------------------------------------------------------------------------
(* What an assembled context holds and costs.                              *)

CostsIn(msgs, s) == [k \in DOMAIN s |-> msgs[s[k]].size + RoleOverhead]

AllotIn(max, system, msgs, q) == AllocateBudget(max, system, msgs[q].size, ToolTokens)

\* What is read from the messages stays the same when others come.
SizesStay(msgs, new) ==
  Len(msgs) <= Len(new) /\ \A i \in 1..Len(msgs) : new[i].size = msgs[i].size

LEMMA CostsAre ==
  ASSUME NEW msgs \in Seq(Messages), NEW s \in Seq(1..Len(msgs))
  PROVE  /\ CostsIn(msgs, s) \in Seq(Nat) /\ Len(CostsIn(msgs, s)) = Len(s)
         /\ Tokens(CostsIn(msgs, s)) \in Nat
         /\ \A k \in 0..Len(s) : CostsIn(msgs, SubSeq(s, 1, k)) = SubSeq(CostsIn(msgs, s), 1, k)
<1>1. DOMAIN s = 1..Len(s) /\ Len(s) \in Nat
  OBVIOUS
<1>2. ASSUME NEW k \in 1..Len(s) PROVE msgs[s[k]].size + RoleOverhead \in Nat
  <2>1. s[k] \in 1..Len(msgs)
    BY <1>2, ElementOfSeq
  <2>2. msgs[s[k]] \in Messages
    BY <2>1, ElementOfSeq
  <2>3. msgs[s[k]].size \in Nat
    BY <2>2, ContextBounds DEF Messages
  <2> QED
    BY <2>3 DEF RoleOverhead
<1>3. CostsIn(msgs, s) \in [1..Len(s) -> Nat]
  BY <1>1, <1>2 DEF CostsIn
<1>4. CostsIn(msgs, s) \in Seq(Nat) /\ Len(CostsIn(msgs, s)) = Len(s)
  BY <1>1, <1>3
<1>5. Tokens(CostsIn(msgs, s)) \in Nat
  BY <1>4, TokensAre
<1>6. ASSUME NEW k \in 0..Len(s)
      PROVE  CostsIn(msgs, SubSeq(s, 1, k)) = SubSeq(CostsIn(msgs, s), 1, k)
  <2> DEFINE part == SubSeq(s, 1, k)
             costs == CostsIn(msgs, s)
  <2>1. /\ part \in Seq(1..Len(msgs)) /\ Len(part) = k
        /\ \A i \in 1..k : part[i] = s[i]
    BY Beginnings
  <2>2. /\ SubSeq(costs, 1, k) \in Seq(Nat) /\ Len(SubSeq(costs, 1, k)) = k
        /\ \A i \in 1..k : SubSeq(costs, 1, k)[i] = costs[i]
    BY <1>4, Beginnings
  <2>3. k \in Nat /\ \A i \in 1..k : i \in 1..Len(s)
    BY <1>1
  <2>4. \A i \in 1..k : costs[i] = msgs[s[i]].size + RoleOverhead
    BY <1>1, <2>3 DEF CostsIn
  <2>5. DOMAIN part = 1..k
    BY <2>1
  <2>6. CostsIn(msgs, part) = [i \in 1..k |-> msgs[part[i]].size + RoleOverhead]
    BY <2>5 DEF CostsIn
  <2> HIDE DEF part, costs
  <2>7. CostsIn(msgs, part) = [i \in 1..k |-> SubSeq(costs, 1, k)[i]]
    BY <2>1, <2>2, <2>4, <2>6
  <2>8. SubSeq(costs, 1, k) = [i \in 1..k |-> SubSeq(costs, 1, k)[i]]
    BY <2>2
  <2>9. CostsIn(msgs, part) = SubSeq(costs, 1, k)
    BY <2>7, <2>8
  <2> QED
    BY <2>9 DEF part, costs
<1> QED
  BY <1>4, <1>5, <1>6

LEMMA SizesCount ==
  ASSUME NEW msgs \in Seq(Messages), NEW new \in Seq(Messages), SizesStay(msgs, new)
  PROVE  /\ \A s \in Seq(1..Len(msgs)) :
              s \in Seq(1..Len(new)) /\ CostsIn(new, s) = CostsIn(msgs, s)
         /\ \A max, system : \A q \in 1..Len(msgs) :
              AllotIn(max, system, new, q) = AllotIn(max, system, msgs, q)
<1>1. ASSUME NEW s \in Seq(1..Len(msgs))
      PROVE  s \in Seq(1..Len(new)) /\ CostsIn(new, s) = CostsIn(msgs, s)
  <2>1. \A k \in DOMAIN s : s[k] \in 1..Len(msgs)
    BY ElementOfSeq
  <2>2. \A k \in DOMAIN s : new[s[k]].size = msgs[s[k]].size
    BY <2>1 DEF SizesStay
  <2>3. 1..Len(msgs) \subseteq 1..Len(new)
    BY DEF SizesStay
  <2>4. CostsIn(new, s) = CostsIn(msgs, s)
    <3> DEFINE cost(k) == msgs[s[k]].size + RoleOverhead
               other(k) == new[s[k]].size + RoleOverhead
    <3>1. \A k \in DOMAIN s : cost(k) = other(k)
      BY <2>2
    <3>2. CostsIn(new, s) = [k \in DOMAIN s |-> other(k)]
      BY DEF CostsIn
    <3>3. CostsIn(msgs, s) = [k \in DOMAIN s |-> cost(k)]
      BY DEF CostsIn
    <3> HIDE DEF cost, other
    <3> QED
      BY <3>1, <3>2, <3>3
  <2>5. s \in Seq(1..Len(new))
    <3>1. s \in [1..Len(s) -> 1..Len(msgs)] /\ Len(s) \in Nat
      OBVIOUS
    <3>2. s \in [1..Len(s) -> 1..Len(new)]
      BY <2>3, <3>1
    <3> QED
      BY <3>1, <3>2
  <2> QED
    BY <2>4, <2>5
<1>2. ASSUME NEW max, NEW system, NEW q \in 1..Len(msgs)
      PROVE  AllotIn(max, system, new, q) = AllotIn(max, system, msgs, q)
  BY DEF SizesStay, AllotIn
<1> QED
  BY <1>1, <1>2

\* No step changes the size of a message or removes one.
LEMMA SizesKept == SessionInv /\ [ContextNext]_contextVars => SizesStay(stored, stored')
<1> SUFFICES ASSUME SessionInv, [ContextNext]_contextVars PROVE SizesStay(stored, stored')
  OBVIOUS
<1> USE DEF SessionInv
<1>1. stored' = stored => SizesStay(stored, stored')
  BY DEF SizesStay
<1>2. ASSUME NEW m, stored' = Append(stored, m) PROVE SizesStay(stored, stored')
  <2>1. Len(stored') = Len(stored) + 1 /\ \A i \in 1..Len(stored) : stored'[i] = stored[i]
    BY <1>2, AppendProperties
  <2> QED
    BY <2>1 DEF SizesStay
<1>3. ASSUME NEW length \in TextSizes, Ask(length) PROVE SizesStay(stored, stored')
  BY <1>2, <1>3 DEF Ask
<1>4. ASSUME NEW role \in {"user", "assistant", "tool"}, NEW length \in TextSizes,
             Insert(role, length)
      PROVE SizesStay(stored, stored')
  BY <1>2, <1>4 DEF Insert
<1>5. ASSUME NEW i \in 1..MaxStored, Embed(i) PROVE SizesStay(stored, stored')
  <2>1. i \in DOMAIN stored /\ stored' = [stored EXCEPT ![i] = [stored[i] EXCEPT !.indexed = TRUE]]
    BY <1>5 DEF Embed
  <2>2. stored[i] \in Messages
    BY <2>1
  <2>3. [stored[i] EXCEPT !.indexed = TRUE].size = stored[i].size
    BY <2>2 DEF Messages
  <2>4. Len(stored') = Len(stored)
    BY <2>1
  <2> QED
    BY <2>1, <2>3, <2>4 DEF SizesStay
<1>6. ASSUME NEW n \in 1..Len(stored), NEW length \in TextSizes, Archive(n, length)
      PROVE  SizesStay(stored, stored')
  <2> DEFINE after == [i \in DOMAIN stored |-> [stored[i] EXCEPT !.active = @ /\ i > n]]
  <2>1. stored' = Append(after, StoredMessage("system", length))
    BY <1>6 DEF Archive
  <2>2. ASSUME NEW i \in DOMAIN stored PROVE after[i].size = stored[i].size
    <3>1. stored[i] \in Messages
      BY <2>2
    <3>2. [stored[i] EXCEPT !.active = @ /\ i > n].size = stored[i].size
      BY <3>1 DEF Messages
    <3> QED
      BY <3>2
  <2> DEFINE some == {after[i] : i \in DOMAIN stored}
  <2>3. DOMAIN stored = 1..Len(stored) /\ Len(stored) \in Nat /\ after \in [DOMAIN stored -> some]
    OBVIOUS
  <2> HIDE DEF after, some
  <2>4. after \in Seq(some) /\ Len(after) = Len(stored)
    BY <2>3
  <2>5. Len(stored') = Len(stored) + 1 /\ \A i \in 1..Len(stored) : stored'[i] = after[i]
    BY <2>1, <2>4, AppendProperties
  <2> QED
    BY <2>2, <2>5 DEF SizesStay
<1>7. CASE PromptSent
  BY <1>1, <1>7 DEF PromptSent
<1>8. CASE LoadRecent
  BY <1>1, <1>8 DEF LoadRecent
<1>9. CASE Retrieve
  BY <1>1, <1>9 DEF Retrieve
<1>10. ASSUME NEW nodes \in NodeLists, AddKnowledge(nodes) PROVE SizesStay(stored, stored')
  BY <1>1, <1>10 DEF AddKnowledge
<1>11. CASE UNCHANGED contextVars
  BY <1>1, <1>11 DEF contextVars
<1> QED
  BY <1>3, <1>4, <1>5, <1>6, <1>7, <1>8, <1>9, <1>10, <1>11 DEF ContextNext

LEMMA AllotmentIs ==
  ASSUME SessionInv, question # 0
  PROVE  /\ question \in 1..Len(stored) /\ stored[question].size \in Nat
         /\ limit \in Nat /\ prompt \in Nat /\ ToolTokens \in Nat
         /\ Allocation = AllotIn(limit, prompt, stored, question)
         /\ Allocation.system \in Nat /\ Allocation.user \in Nat /\ Allocation.reserved \in Nat
         /\ Allocation.recent \in Nat /\ Allocation.tools \in Nat
         /\ Allocation.retrieved \in Nat /\ Allocation.semantic \in Nat
         /\ Allocation.system + Allocation.user + Allocation.reserved + Allocation.recent
              + Allocation.tools + Allocation.retrieved + Allocation.semantic = limit
<1>1. limit \in Nat /\ prompt \in Nat /\ ToolTokens \in Nat
  BY ContextBounds DEF SessionInv
<1>2. question \in 1..Len(stored)
  BY DEF SessionInv
<1>3. stored[question].size \in Nat
  <2>1. stored[question] \in Messages
    BY <1>2 DEF SessionInv
  <2> QED
    BY <2>1, ContextBounds DEF Messages
<1>4. Allocation = AllocateBudget(limit, prompt, stored[question].size, ToolTokens)
  BY DEF Allocation
<1>5. Allocation = AllotIn(limit, prompt, stored, question)
  BY <1>4 DEF AllotIn
<1> DEFINE parts == Allocation
<1>6. parts = AllocateBudget(limit, prompt, stored[question].size, ToolTokens)
  BY <1>4
<1>7. parts \in Parts /\ Together(parts) = limit
  BY <1>1, <1>3, <1>6, AllocationParts
<1> HIDE DEF parts
<1>8. /\ parts.system \in Nat /\ parts.user \in Nat /\ parts.reserved \in Nat
      /\ parts.recent \in Nat /\ parts.tools \in Nat /\ parts.retrieved \in Nat
      /\ parts.semantic \in Nat
      /\ parts.system + parts.user + parts.reserved + parts.recent + parts.tools
           + parts.retrieved + parts.semantic = limit
  BY <1>7 DEF Parts, Together
<1> QED
  BY <1>1, <1>2, <1>3, <1>5, <1>8 DEF parts

-----------------------------------------------------------------------------
(* The search.                                                             *)

\* One round of the loop of tier 2: a message the search found, taken or not.
Round(last, i) ==
  IF ~last.open THEN last
  ELSE IF Tokens(Costs(Append(last.taken, i))) > Allocation.retrieved
       THEN [last EXCEPT !.open = FALSE]
  ELSE IF Fresh(i) THEN [last EXCEPT !.taken = Append(@, i)]
  ELSE last

Rounds(f, n, similar) ==
  f = [k \in 0..n |-> IF k = 0 THEN [taken |-> <<>>, open |-> TRUE]
                      ELSE Round(f[k - 1], similar[k])]

LEMMA RoundsExist == ASSUME NEW n \in Nat, NEW similar PROVE \E f : Rounds(f, n, similar)
<1> DEFINE S == {m \in Nat : \E f : Rounds(f, m, similar)}
           begin == [taken |-> <<>>, open |-> TRUE]
<1>1. 0 \in S
  <2> DEFINE f == [k \in 0..0 |-> begin]
  <2>1. Rounds(f, 0, similar)
    BY DEF Rounds
  <2> QED
    BY <2>1
<1>2. ASSUME NEW m \in Nat, m < n, m \in S
      PROVE  m + 1 \in S
  <2>1. PICK f : Rounds(f, m, similar)
    BY <1>2
  <2> DEFINE g == [k \in 0..(m + 1) |->
                     IF k = m + 1 THEN Round(f[m], similar[m + 1]) ELSE f[k]]
  <2>2. \A k \in 0..m : g[k] = f[k]
    OBVIOUS
  <2>3. ASSUME NEW k \in 0..(m + 1)
        PROVE  g[k] = IF k = 0 THEN begin ELSE Round(g[k - 1], similar[k])
    <3>1. CASE k = m + 1
      <4>1. g[k] = Round(f[m], similar[k]) /\ k # 0 /\ k - 1 = m /\ m \in 0..m
        BY <3>1
      <4>2. g[k - 1] = f[m]
        BY <2>2, <4>1
      <4> QED
        BY <4>1, <4>2
    <3>2. CASE k # m + 1
      <4>1. k \in 0..m
        BY <3>2
      <4>2. g[k] = f[k]
        BY <2>2, <4>1
      <4>3. f[k] = IF k = 0 THEN begin ELSE Round(f[k - 1], similar[k])
        BY <2>1, <4>1 DEF Rounds
      <4>4. k # 0 => g[k - 1] = f[k - 1]
        BY <2>2, <4>1
      <4> QED
        BY <4>2, <4>3, <4>4
    <3> QED
      BY <3>1, <3>2
  <2>4. Rounds(g, m + 1, similar)
    <3>1. g = [k \in 0..(m + 1) |-> g[k]]
      OBVIOUS
    <3> HIDE DEF g
    <3> QED
      BY <2>3, <3>1 DEF Rounds
  <2> HIDE DEF g
  <2> QED
    BY <2>4
<1> HIDE DEF S
<1>3. 0..n \subseteq S
  BY <1>1, <1>2, UpTo
<1>4. n \in S
  BY <1>3
<1> QED
  BY <1>4 DEF S

\* What the loop has taken of the first m messages of the search.
Choice(last, similar, m) ==
  /\ last = [taken |-> last.taken, open |-> last.open]
  /\ last.taken \in Seq(1..Len(stored))
  /\ Distinct(last.taken)
  /\ \A a \in 1..Len(last.taken) :
       Fresh(last.taken[a]) /\ \E j \in 1..m : last.taken[a] = similar[j]
  /\ Tokens(Costs(last.taken)) <= Allocation.retrieved

LEMMA RoundKeepsChoice ==
  ASSUME SessionInv, question # 0, NEW n \in Nat, NEW m \in Nat, m < n,
         NEW similar \in [1..n -> 1..Len(stored)],
         \A a, b \in 1..n : a # b => similar[a] # similar[b],
         NEW last, Choice(last, similar, m)
  PROVE  Choice(Round(last, similar[m + 1]), similar, m + 1)
<1> DEFINE next == Round(last, similar[m + 1])
           found == similar[m + 1]
           more == Append(last.taken, found)
<1>1. m + 1 \in 1..n /\ found \in 1..Len(stored)
      /\ 1..m \subseteq 1..(m + 1) /\ m + 1 \in 1..(m + 1)
  OBVIOUS
<1>2. CASE next = last
  <2>1. Choice(last, similar, m + 1)
    BY <1>1 DEF Choice
  <2> QED
    BY <1>2, <2>1
<1>3. CASE next = [last EXCEPT !.open = FALSE]
  <2>1. next = [taken |-> last.taken, open |-> FALSE]
    BY <1>3 DEF Choice
  <2>2. next.taken = last.taken /\ next = [taken |-> next.taken, open |-> next.open]
    BY <2>1
  <2> HIDE DEF next
  <2>3. Choice(next, similar, m + 1)
    BY <1>1, <2>2 DEF Choice
  <2> QED
    BY <2>3 DEF next
<1>4. CASE /\ next = [last EXCEPT !.taken = more]
           /\ Fresh(found)
           /\ ~(Tokens(Costs(more)) > Allocation.retrieved)
  <2>1. next = [taken |-> more, open |-> last.open]
    BY <1>4 DEF Choice
  <2>2. next.taken = more /\ next = [taken |-> next.taken, open |-> next.open]
    BY <2>1
  <2>3. /\ more \in Seq(1..Len(stored)) /\ Len(more) = Len(last.taken) + 1
        /\ \A a \in 1..Len(last.taken) : more[a] = last.taken[a]
        /\ more[Len(last.taken) + 1] = found
    BY <1>1, AppendProperties DEF Choice
  <2>4. Tokens(Costs(more)) <= Allocation.retrieved
    <3>1. Costs(more) = CostsIn(stored, more)
      BY DEF Costs, CostsIn
    <3>2. Tokens(CostsIn(stored, more)) \in Nat
      BY <2>3, CostsAre DEF SessionInv
    <3>3. Allocation.retrieved \in Nat
      BY AllotmentIs
    <3> QED
      BY <1>4, <3>1, <3>2, <3>3
  <2> HIDE DEF next, more, found
  <2>5. Len(last.taken) \in Nat
    BY DEF Choice
  <2>6. \A a \in 1..Len(last.taken) : last.taken[a] # found
    <3> SUFFICES ASSUME NEW a \in 1..Len(last.taken) PROVE last.taken[a] # found
      OBVIOUS
    <3>1. PICK j \in 1..m : last.taken[a] = similar[j]
      BY DEF Choice
    <3>2. j \in 1..n /\ m + 1 \in 1..n /\ j # m + 1
      BY <1>1
    <3>3. similar[j] # similar[m + 1]
      BY <3>2
    <3> QED
      BY <3>1, <3>3 DEF found
  <2>7. ASSUME NEW a \in 1..Len(more), NEW b \in 1..Len(more), more[a] = more[b] PROVE a = b
    <3>1. CASE a \in 1..Len(last.taken) /\ b \in 1..Len(last.taken)
      BY <2>3, <2>7, <3>1 DEF Choice, Distinct
    <3>2. CASE a = Len(last.taken) + 1 /\ b \in 1..Len(last.taken)
      BY <2>3, <2>6, <2>7, <3>2
    <3>3. CASE b = Len(last.taken) + 1 /\ a \in 1..Len(last.taken)
      BY <2>3, <2>6, <2>7, <3>3
    <3>4. CASE a = Len(last.taken) + 1 /\ b = Len(last.taken) + 1
      BY <3>4
    <3> QED
      BY <2>3, <2>5, <3>1, <3>2, <3>3, <3>4
  <2>8. ASSUME NEW a \in 1..Len(more)
        PROVE  Fresh(more[a]) /\ \E j \in 1..(m + 1) : more[a] = similar[j]
    <3>1. CASE a \in 1..Len(last.taken)
      <4>1. more[a] = last.taken[a]
        BY <2>3, <3>1
      <4>2. Fresh(last.taken[a]) /\ \E j \in 1..m : last.taken[a] = similar[j]
        BY <3>1 DEF Choice
      <4> QED
        BY <1>1, <4>1, <4>2
    <3>2. CASE a = Len(last.taken) + 1
      <4>1. more[a] = found
        BY <2>3, <3>2
      <4> QED
        BY <1>1, <1>4, <4>1 DEF found
    <3> QED
      BY <2>3, <2>5, <3>1, <3>2
  <2>9. Distinct(more)
    BY <2>7 DEF Distinct
  <2>10. Choice(next, similar, m + 1)
    BY <2>2, <2>3, <2>4, <2>8, <2>9 DEF Choice
  <2> QED
    BY <2>10 DEF next
<1>5. \/ next = last
      \/ next = [last EXCEPT !.open = FALSE]
      \/ /\ next = [last EXCEPT !.taken = more]
         /\ Fresh(found)
         /\ ~(Tokens(Costs(more)) > Allocation.retrieved)
  BY Zenon DEF Round
<1> QED
  BY <1>2, <1>3, <1>4, <1>5, Zenon

\* What is retrieved fits, holds no message twice and none of the recent ones.
LEMMA RetrievedIs ==
  ASSUME SessionInv, question # 0, NEW similar \in Searches
  PROVE  /\ Retrieved(similar) \in Seq(1..Len(stored))
         /\ Distinct(Retrieved(similar))
         /\ \A a \in 1..Len(Retrieved(similar)) : Fresh(Retrieved(similar)[a])
         /\ Tokens(Costs(Retrieved(similar))) <= Allocation.retrieved
<1> DEFINE found == {i \in Active : stored[i].indexed}
           most == Least(RetrievalK, Cardinality(found))
<1>1. Len(stored) \in Nat /\ DOMAIN stored = 1..Len(stored)
  BY DEF SessionInv
<1>2. found \in SUBSET (1..Len(stored))
  BY <1>1 DEF Active
<1>3. PICK n \in 0..most :
        similar \in {s \in [1..n -> found] : \A a, b \in 1..n : a # b => s[a] # s[b]}
  BY DEF Searches
<1> HIDE DEF found
<1>4. n \in Nat
  <2>1. Cardinality(found) \in Nat
    BY <1>1, <1>2, InOrder
  <2>2. most \in Nat
    BY <2>1, ContextBounds, LeastBounds
  <2> QED
    BY <2>2
<1> HIDE DEF most
<1>5. similar \in [1..n -> 1..Len(stored)] /\ \A a, b \in 1..n : a # b => similar[a] # similar[b]
  BY <1>2, <1>3
<1>6. Len(similar) = n
  BY <1>4, <1>5
<1> DEFINE rounds == CHOOSE f : Rounds(f, Len(similar), similar)
<1>7. Retrieved(similar) = rounds[Len(similar)].taken
  BY DEF Retrieved, Rounds, Round
<1>8. Rounds(rounds, n, similar)
  BY <1>4, <1>6, RoundsExist
<1> HIDE DEF rounds
<1> DEFINE S == {m \in 0..n : Choice(rounds[m], similar, m)}
<1>9. 0 \in S
  <2>1. rounds[0] = [taken |-> <<>>, open |-> TRUE]
    BY <1>4, <1>8 DEF Rounds
  <2>2. rounds[0].taken = <<>> /\ rounds[0] = [taken |-> rounds[0].taken, open |-> rounds[0].open]
    BY <2>1
  <2>3. rounds[0].taken \in Seq(1..Len(stored)) /\ Len(rounds[0].taken) = 0
    BY <2>2
  <2>4. Tokens(Costs(rounds[0].taken)) = 0
    <3>1. Costs(rounds[0].taken) = CostsIn(stored, rounds[0].taken)
      BY DEF Costs, CostsIn
    <3>2. CostsIn(stored, rounds[0].taken) \in Seq(Nat)
          /\ Len(CostsIn(stored, rounds[0].taken)) = 0
      BY <2>3, CostsAre DEF SessionInv
    <3> QED
      BY <3>1, <3>2, TokensAre
  <2>5. Allocation.retrieved \in Nat
    BY AllotmentIs
  <2>6. Tokens(Costs(rounds[0].taken)) <= Allocation.retrieved
    BY <2>4, <2>5
  <2>7. 1..Len(rounds[0].taken) = {}
    BY <2>3
  <2>8. Distinct(rounds[0].taken)
    BY <2>7 DEF Distinct
  <2>9. Choice(rounds[0], similar, 0)
    BY <2>2, <2>3, <2>6, <2>7, <2>8 DEF Choice
  <2> QED
    BY <1>4, <2>9
<1>10. ASSUME NEW m \in Nat, m < n, m \in S PROVE m + 1 \in S
  <2>1. m + 1 \in 0..n /\ m + 1 # 0 /\ m + 1 - 1 = m
    BY <1>4, <1>10
  <2>2. rounds[m + 1] = Round(rounds[m], similar[m + 1])
    <3>1. \A k \in 0..n : rounds[k] = IF k = 0 THEN [taken |-> <<>>, open |-> TRUE]
                                     ELSE Round(rounds[k - 1], similar[k])
      BY <1>8 DEF Rounds
    <3>2. rounds[m + 1] = Round(rounds[m + 1 - 1], similar[m + 1])
      BY <2>1, <3>1
    <3> QED
      BY <2>1, <3>2
  <2>3. Choice(rounds[m], similar, m)
    BY <1>10
  <2>4. Choice(Round(rounds[m], similar[m + 1]), similar, m + 1)
    BY <1>4, <1>5, <1>10, <2>3, RoundKeepsChoice
  <2> QED
    BY <2>1, <2>2, <2>4
<1> HIDE DEF S
<1>11. n \in S
  <2>1. 0..n \subseteq S
    BY <1>4, <1>9, <1>10, UpTo
  <2> QED
    BY <1>4, <2>1
<1>12. Choice(rounds[n], similar, n)
  BY <1>11 DEF S
<1> QED
  BY <1>6, <1>7, <1>12 DEF Choice

-----------------------------------------------------------------------------
(* What Assemble has put together at any moment.                           *)

\* Nothing is assembled without a question, and what comes later in Assemble is empty
\* before its turn.
Begun(q, how, c) ==
  /\ how \in {"no", "recent", "similar", "knowledge", "done"}
  /\ q = 0 <=> how = "no"
  /\ how = "no" => c = EmptyContext
  /\ how \in {"recent", "similar"} => c.retrieved = <<>>
  /\ how = "done" => c.asked = q

Indices(msgs, c) ==
  /\ c \in [recent : Seq(1..Len(msgs)), retrieved : Seq(1..Len(msgs)), nodes : Seq(Nat), asked : Nat]
  /\ Distinct(c.recent) /\ Distinct(c.retrieved)
  /\ \A i \in 1..Len(c.recent), j \in 1..Len(c.retrieved) : c.recent[i] # c.retrieved[j]

\* Each tier keeps to its share.
Within(max, system, msgs, q, c) ==
  q # 0 =>
    /\ Tokens(CostsIn(msgs, c.recent)) <= AllotIn(max, system, msgs, q).recent
    /\ Tokens(CostsIn(msgs, c.retrieved)) <= AllotIn(max, system, msgs, q).retrieved
    /\ Len(c.nodes) # 0 =>
         HeaderTokens + Tokens(c.nodes) <= AllotIn(max, system, msgs, q).semantic

ContextInv ==
  /\ SessionInv
  /\ Begun(question, building, context)
  /\ Indices(stored, context)
  /\ Within(limit, prompt, stored, question, context)

LEMMA NothingYet ==
  ASSUME NEW msgs \in Seq(Messages)
  PROVE  /\ EmptyContext.recent = <<>> /\ EmptyContext.retrieved = <<>>
         /\ Indices(msgs, EmptyContext)
         /\ Tokens(CostsIn(msgs, EmptyContext.recent)) = 0
         /\ Tokens(CostsIn(msgs, EmptyContext.retrieved)) = 0
         /\ Len(EmptyContext.nodes) = 0
<1> DEFINE none == <<>>
<1>1. EmptyContext = [recent |-> none, retrieved |-> none, nodes |-> none, asked |-> 0]
  BY DEF EmptyContext
<1>2. none \in Seq(1..Len(msgs)) /\ none \in Seq(Nat) /\ Len(none) = 0 /\ 1..Len(none) = {}
  OBVIOUS
<1>3. Tokens(CostsIn(msgs, none)) = 0
  <2>1. CostsIn(msgs, none) \in Seq(Nat) /\ Len(CostsIn(msgs, none)) = 0
    BY <1>2, CostsAre
  <2> QED
    BY <2>1, TokensAre
<1> HIDE DEF none
<1>4. /\ EmptyContext.recent = none /\ EmptyContext.retrieved = none
      /\ EmptyContext.nodes = none
  BY <1>1
<1>5. EmptyContext \in [recent : Seq(1..Len(msgs)), retrieved : Seq(1..Len(msgs)),
                        nodes : Seq(Nat), asked : Nat]
  BY <1>1, <1>2
<1>6. Distinct(none)
  BY <1>2 DEF Distinct
<1>7. Indices(msgs, EmptyContext)
  BY <1>2, <1>4, <1>5, <1>6 DEF Indices
<1> QED
  BY <1>2, <1>3, <1>4, <1>7 DEF none

LEMMA ContextInvInit == ContextInit => ContextInv
<1> SUFFICES ASSUME ContextInit PROVE ContextInv
  OBVIOUS
<1>1. SessionInv
  BY SessionInit
<1>2. stored \in Seq(Messages)
  BY <1>1 DEF SessionInv
<1>3. question = 0 /\ building = "no" /\ context = EmptyContext
  BY DEF ContextInit
<1>4. Begun(question, building, context)
  BY <1>3 DEF Begun
<1>5. Indices(stored, context)
  BY <1>2, <1>3, NothingYet
<1> QED
  BY <1>1, <1>3, <1>4, <1>5 DEF ContextInv, Within

\* Other turns, compactions and embeddings leave a context what it is.
LEMMA OthersHarmless ==
  ASSUME ContextInv, SessionInv', SizesStay(stored, stored'),
         UNCHANGED <<limit, prompt, question, building, context>>
  PROVE  ContextInv'
<1>1. stored \in Seq(Messages) /\ stored' \in Seq(Messages)
  BY DEF ContextInv, SessionInv
<1>2. Indices(stored, context) /\ Within(limit, prompt, stored, question, context)
  BY DEF ContextInv
<1>3. /\ \A s \in Seq(1..Len(stored)) :
           s \in Seq(1..Len(stored')) /\ CostsIn(stored', s) = CostsIn(stored, s)
      /\ \A max, system : \A q \in 1..Len(stored) :
           AllotIn(max, system, stored', q) = AllotIn(max, system, stored, q)
  BY <1>1, SizesCount
<1>4. context.recent \in Seq(1..Len(stored)) /\ context.retrieved \in Seq(1..Len(stored))
  BY <1>2 DEF Indices
<1>5. Indices(stored', context)
  <2>1. context = [recent |-> context.recent, retrieved |-> context.retrieved,
                   nodes |-> context.nodes, asked |-> context.asked]
        /\ context.nodes \in Seq(Nat) /\ context.asked \in Nat
    BY <1>2 DEF Indices
  <2>2. context.recent \in Seq(1..Len(stored')) /\ context.retrieved \in Seq(1..Len(stored'))
    BY <1>3, <1>4
  <2>3. context \in [recent : Seq(1..Len(stored')), retrieved : Seq(1..Len(stored')),
                     nodes : Seq(Nat), asked : Nat]
    BY <2>1, <2>2
  <2> QED
    BY <1>2, <2>3 DEF Indices
<1>6. Within(limit, prompt, stored', question, context)
  <2> SUFFICES ASSUME question # 0
               PROVE  Within(limit, prompt, stored', question, context)
    BY DEF Within
  <2>1. question \in 1..Len(stored)
    BY DEF ContextInv, SessionInv
  <2>2. AllotIn(limit, prompt, stored', question) = AllotIn(limit, prompt, stored, question)
    BY <1>3, <2>1
  <2>3. /\ CostsIn(stored', context.recent) = CostsIn(stored, context.recent)
        /\ CostsIn(stored', context.retrieved) = CostsIn(stored, context.retrieved)
    BY <1>3, <1>4
  <2> QED
    BY <1>2, <2>2, <2>3 DEF Within
<1>7. Begun(question, building, context)
  BY DEF ContextInv
<1> QED
  BY <1>5, <1>6, <1>7 DEF ContextInv

LEMMA RecentFits ==
  ASSUME ContextInv, SessionInv', LoadRecent
  PROVE  ContextInv'
<1> DEFINE n == Fitting(Costs(GetRecent), Allocation.recent)
           lately == SubSeq(GetRecent, 1, n)
<1>1. SessionInv /\ stored \in Seq(Messages) /\ building = "recent" /\ question # 0
  BY DEF LoadRecent, ContextInv, Begun, SessionInv
<1>2. GetRecent \in Seq(1..Len(stored)) /\ Distinct(GetRecent)
  BY <1>1, GetRecentIs
<1>3. Costs(GetRecent) = CostsIn(stored, GetRecent)
  BY DEF Costs, CostsIn
<1>4. /\ CostsIn(stored, GetRecent) \in Seq(Nat)
      /\ Len(CostsIn(stored, GetRecent)) = Len(GetRecent)
      /\ \A k \in 0..Len(GetRecent) :
           CostsIn(stored, SubSeq(GetRecent, 1, k)) = SubSeq(CostsIn(stored, GetRecent), 1, k)
  BY <1>1, <1>2, CostsAre
<1>5. Allocation.recent \in Nat /\ Allocation = AllotIn(limit, prompt, stored, question)
  BY <1>1, AllotmentIs
<1>6. n \in 0..Len(GetRecent)
      /\ Tokens(SubSeq(CostsIn(stored, GetRecent), 1, n)) <= Allocation.recent
  BY <1>3, <1>4, <1>5, FittingIs
<1>7. context' = [context EXCEPT !.recent = lately]
  BY DEF LoadRecent
<1> HIDE DEF n
<1>8. Tokens(CostsIn(stored, lately)) <= AllotIn(limit, prompt, stored, question).recent
  BY <1>4, <1>5, <1>6
<1>9. /\ lately \in Seq(1..Len(stored)) /\ Len(lately) = n
      /\ \A i \in 1..n : lately[i] = GetRecent[i]
  BY <1>2, <1>6, Beginnings
<1> HIDE DEF lately
<1>10. Distinct(lately)
  <2>1. \A i \in 1..n : i \in 1..Len(GetRecent)
    BY <1>2, <1>6
  <2> QED
    BY <1>2, <1>9, <2>1 DEF Distinct
<1>11. Indices(stored, context) /\ Within(limit, prompt, stored, question, context)
       /\ context.retrieved = <<>>
  BY <1>1 DEF ContextInv, Begun
<1>12. /\ context'.recent = lately /\ context'.retrieved = context.retrieved
       /\ context'.nodes = context.nodes
       /\ context' \in [recent : Seq(1..Len(stored)), retrieved : Seq(1..Len(stored)),
                        nodes : Seq(Nat), asked : Nat]
  BY <1>7, <1>9, <1>11 DEF Indices
<1>13. Indices(stored, context')
  <2>1. 1..Len(context'.retrieved) = {}
    BY <1>11, <1>12
  <2>2. Distinct(context'.recent) /\ Distinct(context'.retrieved)
    BY <1>10, <1>11, <1>12 DEF Indices
  <2> QED
    BY <1>12, <2>1, <2>2 DEF Indices
<1>14. Within(limit, prompt, stored, question, context')
  BY <1>8, <1>11, <1>12 DEF Within
<1>15. Begun(question, "similar", context')
  BY <1>1, <1>11, <1>12 DEF Begun
<1>16. UNCHANGED <<limit, prompt, stored, question>> /\ building' = "similar"
  BY DEF LoadRecent
<1> QED
  BY <1>13, <1>14, <1>15, <1>16 DEF ContextInv

LEMMA RetrievedFits ==
  ASSUME ContextInv, SessionInv', Retrieve
  PROVE  ContextInv'
<1>1. SessionInv /\ stored \in Seq(Messages) /\ building = "similar" /\ question # 0
  BY DEF Retrieve, ContextInv, Begun, SessionInv
<1>2. Indices(stored, context) /\ Within(limit, prompt, stored, question, context)
  BY DEF ContextInv
<1>3. UNCHANGED <<limit, prompt, stored, question>> /\ building' = "knowledge"
  BY DEF Retrieve
<1>4. Begun(question, "knowledge", context')
  BY <1>1 DEF Begun
<1>5. CASE UNCHANGED context
  BY <1>2, <1>3, <1>4, <1>5 DEF ContextInv
<1>6. ASSUME NEW similar \in Searches,
             context' = [context EXCEPT !.retrieved = Retrieved(similar)]
      PROVE  ContextInv'
  <2> DEFINE taken == Retrieved(similar)
  <2>1. /\ taken \in Seq(1..Len(stored)) /\ Distinct(taken)
        /\ \A a \in 1..Len(taken) : Fresh(taken[a])
        /\ Tokens(Costs(taken)) <= Allocation.retrieved
    BY <1>1, RetrievedIs
  <2>2. Costs(taken) = CostsIn(stored, taken)
    BY DEF Costs, CostsIn
  <2>3. Allocation = AllotIn(limit, prompt, stored, question)
    BY <1>1, AllotmentIs
  <2>4. context' = [context EXCEPT !.retrieved = taken]
    BY <1>6
  <2> HIDE DEF taken
  <2>5. /\ context'.recent = context.recent /\ context'.retrieved = taken
        /\ context'.nodes = context.nodes
        /\ context' \in [recent : Seq(1..Len(stored)), retrieved : Seq(1..Len(stored)),
                         nodes : Seq(Nat), asked : Nat]
    BY <1>2, <2>1, <2>4 DEF Indices
  <2>6. \A i \in 1..Len(context.recent), j \in 1..Len(taken) : context.recent[i] # taken[j]
    BY <1>2, <2>1 DEF Fresh, Holds, Indices
  <2>7. Indices(stored, context')
    BY <1>2, <2>1, <2>5, <2>6 DEF Indices
  <2>8. Within(limit, prompt, stored, question, context')
    BY <1>2, <2>1, <2>2, <2>3, <2>5 DEF Within
  <2> QED
    BY <1>3, <1>4, <2>7, <2>8 DEF ContextInv
<1> QED
  BY <1>5, <1>6 DEF Retrieve

LEMMA KnowledgeFits ==
  ASSUME ContextInv, SessionInv', NEW found \in NodeLists, AddKnowledge(found)
  PROVE  ContextInv'
<1> DEFINE room == Allocation.semantic - HeaderTokens
           n == Fitting(found, room)
           lines == IF Allocation.semantic <= HeaderTokens THEN <<>> ELSE SubSeq(found, 1, n)
<1>1. SessionInv /\ stored \in Seq(Messages) /\ building = "knowledge" /\ question # 0
  BY DEF AddKnowledge, ContextInv, Begun, SessionInv
<1>2. Indices(stored, context) /\ Within(limit, prompt, stored, question, context)
  BY DEF ContextInv
<1>3. UNCHANGED <<limit, prompt, stored, question>> /\ building' = "done"
  BY DEF AddKnowledge
<1>4. found \in Seq(Nat)
  <2>1. PICK m \in 0..MaxNodes : found \in [1..m -> NodeSizes]
    BY DEF NodeLists
  <2>2. m \in Nat /\ NodeSizes \subseteq Nat
    BY ContextBounds
  <2>3. found \in [1..m -> Nat]
    BY <2>1, <2>2
  <2> QED
    BY <2>2, <2>3
<1>5. Allocation.semantic \in Nat /\ Allocation = AllotIn(limit, prompt, stored, question)
  BY <1>1, AllotmentIs
<1>6. /\ lines \in Seq(Nat)
      /\ Len(lines) # 0 => HeaderTokens + Tokens(lines) <= Allocation.semantic
  <2>1. CASE Allocation.semantic <= HeaderTokens
    <3>1. lines = <<>>
      BY <2>1
    <3> HIDE DEF lines
    <3>2. lines \in Seq(Nat) /\ Len(lines) = 0
      BY <3>1
    <3> QED
      BY <3>2
  <2>2. CASE ~(Allocation.semantic <= HeaderTokens)
    <3>1. room \in Nat /\ HeaderTokens + room = Allocation.semantic /\ HeaderTokens \in Nat
      BY <1>5, <2>2 DEF HeaderTokens
    <3> HIDE DEF room
    <3>2. n \in 0..Len(found) /\ Tokens(SubSeq(found, 1, n)) <= room
      BY <1>4, <3>1, FittingIs
    <3> HIDE DEF n
    <3>3. SubSeq(found, 1, n) \in Seq(Nat)
      BY <1>4, <3>2, Beginnings
    <3>4. Tokens(SubSeq(found, 1, n)) \in Nat
      BY <3>3, TokensAre
    <3>5. lines = SubSeq(found, 1, n)
      BY <2>2
    <3> HIDE DEF lines
    <3> QED
      BY <3>1, <3>2, <3>3, <3>4, <3>5
  <2> QED
    BY <2>1, <2>2
<1>7. context' = [context EXCEPT !.nodes = lines, !.asked = question]
  BY DEF AddKnowledge
<1> HIDE DEF lines
<1>8. /\ context'.recent = context.recent /\ context'.retrieved = context.retrieved
      /\ context'.nodes = lines /\ context'.asked = question
      /\ context' \in [recent : Seq(1..Len(stored)), retrieved : Seq(1..Len(stored)),
                       nodes : Seq(Nat), asked : Nat]
  <2>1. context \in [recent : Seq(1..Len(stored)), retrieved : Seq(1..Len(stored)),
                     nodes : Seq(Nat), asked : Nat]
    BY <1>2 DEF Indices
  <2>2. question \in Nat
    BY <1>1 DEF SessionInv
  <2> QED
    BY <1>6, <1>7, <2>1, <2>2
<1>9. Indices(stored, context')
  BY <1>2, <1>8 DEF Indices
<1>10. Within(limit, prompt, stored, question, context')
  BY <1>2, <1>5, <1>6, <1>8 DEF Within
<1>11. Begun(question, "done", context')
  BY <1>1, <1>8 DEF Begun
<1> QED
  BY <1>3, <1>9, <1>10, <1>11 DEF ContextInv

LEMMA ContextInvStep == ContextInv /\ [ContextNext]_contextVars => ContextInv'
<1> SUFFICES ASSUME ContextInv, [ContextNext]_contextVars PROVE ContextInv'
  OBVIOUS
<1>1. SessionInv /\ SessionInv' /\ SizesStay(stored, stored')
  BY SessionStep, SizesKept DEF ContextInv
<1>2. ASSUME NEW length \in TextSizes, Ask(length) PROVE ContextInv'
  <2>1. question = 0 /\ building = "no" /\ context = EmptyContext
    BY <1>2 DEF Ask, ContextInv, Begun
  <2>2. /\ stored \in Seq(Messages) /\ stored' \in Seq(Messages)
        /\ UNCHANGED <<limit, prompt, context>> /\ building' = "recent"
        /\ question' = Len(stored') /\ Len(stored') = Len(stored) + 1
    BY <1>1, <1>2, AppendProperties DEF Ask, SessionInv
  <2>3. question' # 0
    BY <2>2
  <2>4. context' = EmptyContext
    BY <2>1, <2>2
  <2>5. Indices(stored', context')
    BY <2>2, <2>4, NothingYet
  <2>6. Begun(question', building', context')
    BY <2>2, <2>3, <2>4, NothingYet DEF Begun
  <2>7. Within(limit', prompt', stored', question', context')
    <3>1. AllotIn(limit', prompt', stored', question').recent \in Nat
          /\ AllotIn(limit', prompt', stored', question').retrieved \in Nat
      <4>1. limit' \in Nat /\ prompt' \in Nat /\ ToolTokens \in Nat
        BY <1>1, ContextBounds DEF SessionInv
      <4>2. stored'[question'].size \in Nat
        <5>1. question' \in 1..Len(stored')
          BY <2>2, <2>3
        <5>2. stored'[question'] \in Messages
          BY <2>2, <5>1
        <5> QED
          BY <5>2, ContextBounds DEF Messages
      <4>3. AllotIn(limit', prompt', stored', question') \in Parts
        BY <4>1, <4>2, AllocationParts DEF AllotIn
      <4> QED
        BY <4>3 DEF Parts
    <3>2. /\ Tokens(CostsIn(stored', context'.recent)) = 0
          /\ Tokens(CostsIn(stored', context'.retrieved)) = 0 /\ Len(context'.nodes) = 0
      BY <2>2, <2>4, NothingYet
    <3> QED
      BY <3>1, <3>2 DEF Within
  <2> QED
    BY <1>1, <2>5, <2>6, <2>7 DEF ContextInv
<1>3. ASSUME NEW role \in {"user", "assistant", "tool"}, NEW length \in TextSizes,
             Insert(role, length)
      PROVE ContextInv'
  BY <1>1, <1>3, OthersHarmless DEF Insert
<1>4. ASSUME NEW i \in 1..MaxStored, Embed(i) PROVE ContextInv'
  BY <1>1, <1>4, OthersHarmless DEF Embed
<1>5. ASSUME NEW n \in 1..Len(stored), NEW length \in TextSizes, Archive(n, length)
      PROVE  ContextInv'
  BY <1>1, <1>5, OthersHarmless DEF Archive
<1>6. CASE PromptSent
  <2>1. /\ UNCHANGED <<limit, prompt, stored>> /\ question' = 0 /\ building' = "no"
        /\ context' = EmptyContext
    BY <1>6 DEF PromptSent
  <2>2. stored' \in Seq(Messages)
    BY <1>1 DEF SessionInv
  <2>3. Begun(question', building', context')
    BY <2>1 DEF Begun
  <2>4. Indices(stored', context')
    BY <2>1, <2>2, NothingYet
  <2>5. Within(limit', prompt', stored', question', context')
    BY <2>1 DEF Within
  <2> QED
    BY <1>1, <2>3, <2>4, <2>5 DEF ContextInv
<1>7. CASE LoadRecent
  BY <1>1, <1>7, RecentFits
<1>8. CASE Retrieve
  BY <1>1, <1>8, RetrievedFits
<1>9. ASSUME NEW nodes \in NodeLists, AddKnowledge(nodes) PROVE ContextInv'
  BY <1>1, <1>9, KnowledgeFits
<1>10. CASE UNCHANGED contextVars
  BY <1>1, <1>10, OthersHarmless DEF contextVars
<1> QED
  BY <1>2, <1>3, <1>4, <1>5, <1>6, <1>7, <1>8, <1>9, <1>10 DEF ContextNext

LEMMA ContextInvFits == ContextInv => AssembledFits
<1> SUFFICES ASSUME ContextInv, building = "done" PROVE AssembledFits
  BY DEF AssembledFits
<1> DEFINE a == Allocation
           fixed == prompt + stored[question].size + ToolTokens
           recents == Tokens(Costs(context.recent))
           more == Tokens(Costs(context.retrieved))
           nodes == KnowledgeTokens
           sent == context.recent \o context.retrieved
<1>1. SessionInv /\ question # 0 /\ stored \in Seq(Messages)
  BY DEF ContextInv, Begun, SessionInv
<1>2. Indices(stored, context) /\ Within(limit, prompt, stored, question, context)
  BY DEF ContextInv
<1>3. /\ context.recent \in Seq(1..Len(stored)) /\ context.retrieved \in Seq(1..Len(stored))
      /\ context.nodes \in Seq(Nat)
  BY <1>2 DEF Indices
<1>4. /\ stored[question].size \in Nat /\ limit \in Nat /\ prompt \in Nat /\ ToolTokens \in Nat
      /\ a = AllotIn(limit, prompt, stored, question)
      /\ a.system \in Nat /\ a.user \in Nat /\ a.reserved \in Nat /\ a.recent \in Nat
      /\ a.tools \in Nat /\ a.retrieved \in Nat /\ a.semantic \in Nat
      /\ a.system + a.user + a.reserved + a.recent + a.tools + a.retrieved + a.semantic = limit
  BY <1>1, AllotmentIs
<1>5. fixed \in Nat
  BY <1>4
<1>6. recents \in Nat /\ recents <= a.recent /\ more \in Nat /\ more <= a.retrieved
  <2>1. /\ Costs(context.recent) = CostsIn(stored, context.recent)
        /\ Costs(context.retrieved) = CostsIn(stored, context.retrieved)
    BY DEF Costs, CostsIn
  <2>2. recents \in Nat /\ more \in Nat
    BY <1>1, <1>3, <2>1, CostsAre
  <2> HIDE DEF a
  <2> QED
    BY <1>1, <1>2, <1>4, <2>1, <2>2 DEF Within
<1>7. nodes \in Nat /\ nodes <= a.semantic
  <2> HIDE DEF a
  <2>1. CASE context.nodes = <<>>
    <3>1. nodes = 0
      BY <2>1 DEF KnowledgeTokens
    <3> QED
      BY <1>4, <3>1
  <2>2. CASE context.nodes # <<>>
    <3>1. nodes = HeaderTokens + Tokens(context.nodes)
      BY <2>2 DEF KnowledgeTokens
    <3>2. Len(context.nodes) # 0
      BY <1>3, <2>2, EmptySeq
    <3>3. Tokens(context.nodes) \in Nat
      BY <1>3, TokensAre
    <3>4. HeaderTokens + Tokens(context.nodes) <= a.semantic
      BY <1>1, <1>2, <1>4, <3>2 DEF Within
    <3> QED
      BY <3>1, <3>3, <3>4 DEF HeaderTokens
  <2> QED
    BY <2>1, <2>2
<1> HIDE DEF a, fixed, recents, more, nodes
<1>8. fixed <= a.system + a.user + a.tools => fixed + recents + more + nodes + a.reserved <= limit
  BY <1>4, <1>5, <1>6, <1>7
<1>9. \A i, j \in DOMAIN sent : sent[i] = sent[j] => i = j
  <2> DEFINE n == Len(context.recent)
             m == Len(context.retrieved)
  <2>1. n \in Nat /\ m \in Nat
    BY <1>3
  <2>2. /\ sent \in Seq(1..Len(stored)) /\ Len(sent) = n + m
        /\ \A i \in 1..(n + m) : sent[i] = IF i <= n THEN context.recent[i]
                                           ELSE context.retrieved[i - n]
    BY <1>3, ConcatProperties
  <2>3. DOMAIN sent = 1..(n + m)
    BY <2>2
  <2> HIDE DEF sent
  <2> SUFFICES ASSUME NEW i \in 1..(n + m), NEW j \in 1..(n + m), sent[i] = sent[j]
               PROVE  i = j
    BY <2>3
  <2>4. /\ \A x, y \in 1..n : context.recent[x] = context.recent[y] => x = y
        /\ \A x, y \in 1..m : context.retrieved[x] = context.retrieved[y] => x = y
        /\ \A x \in 1..n, y \in 1..m : context.recent[x] # context.retrieved[y]
    BY <1>2 DEF Indices, Distinct
  <2> HIDE DEF n, m
  <2>5. /\ i <= n => i \in 1..n /\ sent[i] = context.recent[i]
        /\ j <= n => j \in 1..n /\ sent[j] = context.recent[j]
        /\ ~(i <= n) => i - n \in 1..m /\ sent[i] = context.retrieved[i - n]
        /\ ~(j <= n) => j - n \in 1..m /\ sent[j] = context.retrieved[j - n]
    BY <2>1, <2>2
  <2>6. CASE i <= n /\ j <= n
    BY <2>4, <2>5, <2>6
  <2>7. CASE i <= n /\ ~(j <= n)
    BY <2>4, <2>5, <2>7
  <2>8. CASE ~(i <= n) /\ j <= n
    <3>1. context.recent[j] = context.retrieved[i - n]
      BY <2>5, <2>8
    <3> QED
      BY <2>4, <2>5, <2>8, <3>1
  <2>9. CASE ~(i <= n) /\ ~(j <= n)
    <3>1. i - n = j - n
      BY <2>4, <2>5, <2>9
    <3> QED
      BY <2>1, <3>1
  <2> QED
    BY <2>6, <2>7, <2>8, <2>9
<1>10. /\ Sent[Len(Sent)] = question
       /\ \A i, j \in DOMAIN Sent :
            i < j /\ Sent[i] = Sent[j] => Sent[i] = question /\ j = Len(Sent)
  <2> DEFINE n == Len(sent)
  <2>1. sent \in Seq(1..Len(stored)) /\ n \in Nat
    <3>1. sent \in Seq(1..Len(stored))
      BY <1>3, ConcatProperties
    <3> HIDE DEF sent
    <3> QED
      BY <3>1, LenProperties
  <2>2. context.asked = question
    BY DEF ContextInv, Begun
  <2>3. question \in 1..Len(stored)
    BY <1>1 DEF SessionInv
  <2>4. Sent = Append(sent, question)
    BY <2>2 DEF Sent
  <2> HIDE DEF sent
  <2>5. /\ Len(Sent) = n + 1 /\ DOMAIN Sent = 1..(n + 1) /\ Sent[n + 1] = question
        /\ \A i \in 1..n : i \in DOMAIN sent /\ Sent[i] = sent[i]
    BY <2>1, <2>3, <2>4, AppendProperties
  <2> HIDE DEF n
  <2> SUFFICES ASSUME NEW i \in 1..(n + 1), NEW j \in 1..(n + 1), i < j, Sent[i] = Sent[j]
               PROVE  Sent[i] = question /\ j = n + 1
    BY <2>5
  <2>6. i \in 1..n
    BY <2>1
  <2>7. ~(j \in 1..n)
    BY <1>9, <2>1, <2>5, <2>6
  <2> QED
    BY <2>1, <2>5, <2>7
<1>11. /\ fixed <= a.system + a.user + a.tools =>
            fixed + recents + more + nodes + a.reserved <= limit
       /\ Sent[Len(Sent)] = question
       /\ \A i, j \in DOMAIN Sent :
            i < j /\ Sent[i] = Sent[j] => Sent[i] = question /\ j = Len(Sent)
  BY <1>8, <1>10
<1> QED
  BY <1>11, Zenon DEF AssembledFits, a, fixed, recents, more, nodes

LEMMA ContextInvTyped == ContextInv => ContextTypeOK
<1> SUFFICES ASSUME ContextInv PROVE ContextTypeOK
  OBVIOUS
<1>1. /\ limit \in Limits /\ prompt \in PromptSizes /\ stored \in Seq(Messages)
      /\ question \in 0..Len(stored)
  BY DEF ContextInv, SessionInv
<1>2. building \in {"no", "recent", "similar", "knowledge", "done"}
  BY DEF ContextInv, Begun
<1>3. context \in [recent : Seq(1..Len(stored)), retrieved : Seq(1..Len(stored)),
                  nodes : Seq(Nat), asked : Nat]
  BY DEF ContextInv, Indices
<1>4. context \in [recent : Seq(Nat), retrieved : Seq(Nat), nodes : Seq(Nat), asked : Nat]
  <2>1. Seq(1..Len(stored)) \subseteq Seq(Nat)
    OBVIOUS
  <2> QED
    BY <1>3, <2>1
<1> QED
  BY <1>1, <1>2, <1>4 DEF ContextTypeOK, Messages

-----------------------------------------------------------------------------
(* One call of the agent: its loop.                                        *)

MessageType == [role : {"user", "assistant", "tool"}, calls : Seq(AllCalls)]

LoopTypes ==
  /\ mode \in Modes /\ vendor \in Vendors /\ spare \in Vendors /\ chain \in 1..MaxProviders
  /\ step \in {"idle", "call", "wait", "open", "stream", "tools", "ended"}
  /\ messages \in Seq(MessageType)
  /\ iteration \in 1..MaxIterations /\ attempt \in 1..MaxAttempts /\ at \in 1..chain
  /\ tried \in [1..MaxProviders -> 0..MaxAttempts]
  /\ todo \in 0..(MaxCalls + 1)
  /\ outcome \in {"none", "refused", "answer", "limit", "exhausted", "unavailable", "failed",
                 "cancelled"}

\* Every provider of the chain has been tried once in each round so far.
RoundsCount ==
  /\ step = "idle" =>
       /\ messages = <<>> /\ todo = 0
       /\ iteration = 1 /\ attempt = 1 /\ at = 1 /\ tried = Untried
  /\ step \in {"open", "stream"} => mode = "stream"
  /\ step \in {"call", "wait"} => mode # "stream"
  /\ step = "call" /\ mode = "sub" => attempt = 1
  /\ step = "call" =>
       \A p \in 1..chain : tried[p] = IF p < at THEN attempt ELSE attempt - 1
  /\ step = "wait" =>
       /\ mode = "run" /\ at = 1 /\ attempt < MaxAttempts
       /\ \A p \in 1..chain : tried[p] = attempt
  /\ outcome # "none" <=> step = "ended"
  /\ FailuresAreExhausted

\* The messages: turns that call tools, each followed by results of its calls.
TurnsOf(ms) == {i \in DOMAIN ms : ms[i].role = "assistant"}

Result(one) == Message("tool", <<one>>)

WellFormed(ms) ==
  /\ \A i \in 1..Len(ms) : ms[i].role = "user" => ms[i].calls = <<>>
  /\ \A i \in TurnsOf(ms) :
       /\ Len(ms[i].calls) \in 1..MaxCalls
       /\ \A k \in 1..Len(ms[i].calls) : i + k <= Len(ms) => ms[i + k] = Result(ms[i].calls[k])
  /\ \A j \in 1..Len(ms) : ms[j].role = "tool" =>
       \E i \in TurnsOf(ms) : \E k \in 1..Len(ms[i].calls) : j = i + k

\* Turn i is the last, the first n of its calls have their results, and those of the
\* turns before it have them all.
Through(ms, i, n) ==
  /\ i \in TurnsOf(ms) /\ \A j \in TurnsOf(ms) : j <= i
  /\ n \in 0..Len(ms[i].calls) /\ Len(ms) = i + n
  /\ \A j \in TurnsOf(ms) \ {i} : j + Len(ms[j].calls) < i

AllAnswered(ms) == TurnsOf(ms) = {} \/ \E i \in TurnsOf(ms) : Through(ms, i, Len(ms[i].calls))

Steps == {"call", "wait", "open", "stream"}

TurnsCount ==
  /\ WellFormed(messages)
  /\ step \in Steps =>
       AllAnswered(messages) /\ Cardinality(TurnsOf(messages)) = iteration - 1
  /\ step = "tools" =>
       /\ \E i \in TurnsOf(messages) : Through(messages, i, todo - 1)
       /\ Cardinality(TurnsOf(messages)) = iteration

\* Calls of one vendor that gives names are all by their names.
AllByName ==
  vendor = "gemini" /\ spare = "gemini" =>
    \A i \in TurnsOf(messages) : \A k \in 1..Len(messages[i].calls) :
      messages[i].calls[k].id = Name(messages[i].calls[k].tool)

LoopInv == LoopTypes /\ RoundsCount /\ TurnsCount /\ AllByName

-----------------------------------------------------------------------------
(* One call of the agent: its stream.                                      *)

StreamTypes ==
  /\ chunks \in Seq(Chunk) /\ Len(chunks) <= ChunkBuffer
  /\ pending \in Seq(Chunk) /\ Len(pending) <= 1
  /\ producer \in {"none", "reading", "ended"}
  /\ blocks \in Seq(AllCalls) /\ Len(blocks) <= MaxCalls /\ collected \in Seq(AllCalls)
  /\ ending \in {"none", "complete", "stop", "error", "cut"}

\* The calls that a vendor has streamed, Anthropic's in some order.
WholeOf(v, bs, calls) ==
  /\ \E f \in Orders(bs) : calls = [i \in DOMAIN bs |-> bs[f[i]]]
  /\ v # "anthropic" => calls = bs

\* Only the last chunk has calls or an error.
Plain(c) == ~c.done /\ ~c.err /\ c.calls = <<>>
FinalOf(v, bs, end, c) ==
  /\ c.done
  /\ c.err \/ WholeOf(v, bs, c.calls) \/ (end \in {"stop", "cut"} /\ c.calls = <<>>)

ChunksInOrder ==
  /\ producer # "none" => mode = "stream"
  /\ producer = "none" => chunks = <<>> /\ pending = <<>> /\ blocks = <<>>
  /\ step = "idle" => producer = "none"
  /\ step = "stream" => collected = <<>> /\ producer # "none"
  /\ \A i \in 1..Len(chunks) :
       \/ Plain(chunks[i])
       \/ i = Len(chunks) /\ producer = "ended" /\ FinalOf(vendor, blocks, ending, chunks[i])
  /\ \A i \in 1..Len(pending) :
       /\ producer = "reading"
       /\ Plain(pending[i]) \/ FinalOf(vendor, blocks, ending, pending[i])
  /\ step = "stream" /\ producer = "ended" =>
       ending = "cut" \/ (chunks # <<>> /\ chunks[Len(chunks)].done)

\* What the loop has taken from a stream that has ended.
TakenWhole ==
  /\ vendor = "gemini" => \A i \in 1..Len(blocks) : blocks[i].id = Name(blocks[i].tool)
  /\ mode = "stream" /\ (step = "tools" \/ outcome = "answer") => producer = "ended"
  /\ CallsArriveWhole

StreamInv == StreamTypes /\ ChunksInOrder /\ TakenWhole

LEMMA ToolNumbers ==
  /\ MaxIterations \in Nat /\ MaxIterations > 0 /\ MaxAttempts \in Nat /\ MaxAttempts > 0
  /\ MaxProviders \in Nat /\ MaxProviders > 0 /\ MaxCalls \in Nat /\ MaxCalls > 0
  /\ ChunkBuffer \in Nat /\ ChunkBuffer > 0
BY ToolLoopAssumption

\* A call has the form of its vendor.
LEMMA CallTyped ==
  ASSUME iteration \in 1..MaxIterations, NEW v \in Vendors, NEW i \in 1..MaxCalls,
         NEW t \in Tools
  PROVE  /\ Call(v, i, t) \in AllCalls
         /\ v = "gemini" => Call(v, i, t).id = Name(Call(v, i, t).tool)
<1> DEFINE id == CASE v = "gemini" -> Name(t) [] v = "ollama" -> Place(i) [] OTHER -> Unique(i, t)
<1>1. i \in 0..MaxCalls /\ 0 \in 0..MaxCalls /\ iteration \in 0..MaxIterations
      /\ 0 \in 0..MaxIterations /\ t \in Tools \cup {"call", "ollama"}
      /\ "call" \in Tools \cup {"call", "ollama"} /\ "ollama" \in Tools \cup {"call", "ollama"}
  BY ToolNumbers
<1>2. id \in (0..MaxIterations) \X (0..MaxCalls) \X (Tools \cup {"call", "ollama"})
  <2>1. Name(t) \in (0..MaxIterations) \X (0..MaxCalls) \X (Tools \cup {"call", "ollama"})
    BY <1>1 DEF Name
  <2>2. Place(i) \in (0..MaxIterations) \X (0..MaxCalls) \X (Tools \cup {"call", "ollama"})
    BY <1>1 DEF Place
  <2>3. Unique(i, t) \in (0..MaxIterations) \X (0..MaxCalls) \X (Tools \cup {"call", "ollama"})
    BY <1>1 DEF Unique
  <2> QED
    BY <2>1, <2>2, <2>3
<1>3. v = "gemini" => id = Name(t)
  OBVIOUS
<1>4. Call(v, i, t) = [id |-> id, tool |-> t]
  BY DEF Call
<1> HIDE DEF id
<1> QED
  BY <1>2, <1>3, <1>4 DEF AllCalls

LEMMA CallsTyped ==
  ASSUME iteration \in 1..MaxIterations, NEW v \in Vendors, NEW ts \in Turns
  PROVE  /\ CallsOf(v, ts) \in Seq(AllCalls) /\ Len(CallsOf(v, ts)) \in 0..MaxCalls
         /\ v = "gemini" => \A k \in 1..Len(CallsOf(v, ts)) :
              CallsOf(v, ts)[k].id = Name(CallsOf(v, ts)[k].tool)
<1>1. PICK n \in 0..MaxCalls : ts \in [1..n -> Tools]
  BY DEF Turns
<1> DEFINE calls == [i \in 1..n |-> Call(v, i, ts[i])]
<1>2. DOMAIN ts = 1..n
  BY <1>1
<1>3. CallsOf(v, ts) = calls
  BY <1>2 DEF CallsOf, OpenAICalls, AnthropicCalls, GeminiCalls, OllamaCalls, CohereCalls, Vendors,
              Streamers
<1>4. \A i \in 1..n : /\ Call(v, i, ts[i]) \in AllCalls
                      /\ v = "gemini" => Call(v, i, ts[i]).id = Name(Call(v, i, ts[i]).tool)
  <2> SUFFICES ASSUME NEW i \in 1..n
               PROVE  /\ Call(v, i, ts[i]) \in AllCalls
                      /\ v = "gemini" => Call(v, i, ts[i]).id = Name(Call(v, i, ts[i]).tool)
    OBVIOUS
  <2>1. i \in 1..MaxCalls /\ ts[i] \in Tools
    BY <1>1, ToolNumbers
  <2> QED
    BY <2>1, CallTyped
<1>5. n \in Nat /\ calls \in [1..n -> AllCalls]
  BY <1>4, ToolNumbers
<1>6. calls \in Seq(AllCalls) /\ Len(calls) = n
  BY <1>5
<1> QED
  BY <1>3, <1>4, <1>6

-----------------------------------------------------------------------------
(* Messages that are added.                                                *)

LEMMA MessagesAre ==
  ASSUME NEW ms \in Seq(MessageType)
  PROVE  /\ Len(ms) \in Nat /\ DOMAIN ms = 1..Len(ms) /\ TurnsOf(ms) \subseteq 1..Len(ms)
         /\ \A i \in 1..Len(ms) : ms[i] \in MessageType /\ Len(ms[i].calls) \in Nat
                                  /\ ms[i].calls \in Seq(AllCalls)
<1>1. Len(ms) \in Nat /\ DOMAIN ms = 1..Len(ms)
  OBVIOUS
<1>2. TurnsOf(ms) \subseteq 1..Len(ms)
  BY <1>1 DEF TurnsOf
<1>3. ASSUME NEW i \in 1..Len(ms)
      PROVE  ms[i] \in MessageType /\ Len(ms[i].calls) \in Nat /\ ms[i].calls \in Seq(AllCalls)
  <2>1. ms[i] \in MessageType
    BY ElementOfSeq
  <2>2. ms[i].calls \in Seq(AllCalls)
    BY <2>1 DEF MessageType
  <2> QED
    BY <2>1, <2>2
<1> QED
  BY <1>1, <1>2, <1>3

LEMMA Appended1 ==
  ASSUME NEW ms \in Seq(MessageType), NEW m \in MessageType
  PROVE  LET new == Append(ms, m)
         IN  /\ new \in Seq(MessageType) /\ Len(new) = Len(ms) + 1 /\ new[Len(ms) + 1] = m
             /\ \A i \in 1..Len(ms) : new[i] = ms[i]
             /\ TurnsOf(new) = IF m.role = "assistant" THEN TurnsOf(ms) \cup {Len(ms) + 1}
                               ELSE TurnsOf(ms)
<1> DEFINE new == Append(ms, m)
<1>1. new \in Seq(MessageType) /\ Len(new) = Len(ms) + 1 /\ new[Len(ms) + 1] = m
      /\ \A i \in 1..Len(ms) : new[i] = ms[i]
  BY AppendProperties
<1> HIDE DEF new
<1>2. DOMAIN new = 1..(Len(ms) + 1) /\ DOMAIN ms = 1..Len(ms) /\ Len(ms) \in Nat
  BY <1>1
<1>3. TurnsOf(new) = IF m.role = "assistant" THEN TurnsOf(ms) \cup {Len(ms) + 1}
                     ELSE TurnsOf(ms)
  BY <1>1, <1>2 DEF TurnsOf
<1> QED
  BY <1>1, <1>3 DEF new

\* A turn that calls tools follows the results of those before it.
LEMMA AddTurn ==
  ASSUME NEW ms \in Seq(MessageType), WellFormed(ms), AllAnswered(ms),
         NEW calls \in Seq(AllCalls), Len(calls) \in 1..MaxCalls
  PROVE  LET new == Append(ms, Message("assistant", calls)) IN
         /\ new \in Seq(MessageType) /\ WellFormed(new) /\ Through(new, Len(ms) + 1, 0)
         /\ TurnsOf(new) = TurnsOf(ms) \cup {Len(ms) + 1}
         /\ Len(new) = Len(ms) + 1 /\ new[Len(ms) + 1].calls = calls
         /\ \A i \in 1..Len(ms) : new[i] = ms[i]
<1> DEFINE new == Append(ms, Message("assistant", calls))
<1> DEFINE m == Message("assistant", calls)
<1> DEFINE last == Len(ms) + 1
<1>1. m \in MessageType /\ m.role = "assistant" /\ m.calls = calls
  BY DEF Message, MessageType
<1>2. /\ new \in Seq(MessageType) /\ Len(new) = last /\ new[last] = m
      /\ \A i \in 1..Len(ms) : new[i] = ms[i]
      /\ TurnsOf(new) = TurnsOf(ms) \cup {last}
  BY <1>1, Appended1 DEF last
<1>3. /\ Len(ms) \in Nat /\ TurnsOf(ms) \subseteq 1..Len(ms)
      /\ \A i \in 1..Len(ms) : Len(ms[i].calls) \in Nat
  BY MessagesAre
<1> HIDE DEF m, new
<1>4. \A j \in TurnsOf(ms) : j + Len(ms[j].calls) < last
  <2>1. CASE TurnsOf(ms) = {}
    BY <2>1
  <2>2. ASSUME NEW i \in TurnsOf(ms), Through(ms, i, Len(ms[i].calls))
        PROVE \A j \in TurnsOf(ms) : j + Len(ms[j].calls) < last
    <3>1. /\ Len(ms) = i + Len(ms[i].calls)
          /\ \A j \in TurnsOf(ms) \ {i} : j + Len(ms[j].calls) < i
      BY <2>2 DEF Through
    <3>2. i \in Nat /\ Len(ms[i].calls) \in Nat /\ i <= Len(ms)
      BY <1>3
    <3>3. \A j \in TurnsOf(ms) : j \in Nat /\ Len(ms[j].calls) \in Nat
      BY <1>3
    <3> QED
      BY <1>3, <3>1, <3>2, <3>3 DEF last
  <2> QED
    BY <2>1, <2>2 DEF AllAnswered
<1>5. \A i \in 1..Len(new) : new[i].role = "user" => new[i].calls = <<>>
  BY <1>1, <1>2, <1>3 DEF WellFormed, last
<1>6. ASSUME NEW i \in TurnsOf(new)
      PROVE  /\ Len(new[i].calls) \in 1..MaxCalls
             /\ \A k \in 1..Len(new[i].calls) :
                  i + k <= Len(new) => new[i + k] = Result(new[i].calls[k])
  <2>1. CASE i = last
    BY <2>1, <1>1, <1>2, <1>3 DEF last
  <2>2. CASE i # last
    <3>1. i \in TurnsOf(ms) /\ new[i] = ms[i] /\ i \in 1..Len(ms)
      BY <2>2, <1>2, <1>3
    <3>2. Len(ms[i].calls) \in 1..MaxCalls
      BY <3>1 DEF WellFormed
    <3>3. ASSUME NEW k \in 1..Len(ms[i].calls), i + k <= Len(new)
          PROVE  new[i + k] = Result(ms[i].calls[k])
      <4>1. i + k \in 1..Len(ms)
        BY <1>3, <1>4, <3>1, <3>2, <3>3, ToolNumbers DEF last
      <4>2. i \in Nat /\ k \in Nat /\ i + k <= Len(ms)
        BY <1>3, <3>1, <3>2, <4>1, ToolNumbers
      <4>3. ms[i + k] = Result(ms[i].calls[k])
        BY <4>2, <3>1 DEF WellFormed
      <4> QED
        BY <4>1, <4>3, <1>2
    <3> QED
      BY <3>1, <3>2, <3>3
  <2> QED
    BY <2>1, <2>2
<1>7. ASSUME NEW j \in 1..Len(new), new[j].role = "tool"
      PROVE  \E i \in TurnsOf(new) : \E k \in 1..Len(new[i].calls) : j = i + k
  <2>1. j \in 1..Len(ms) /\ ms[j].role = "tool"
    BY <1>1, <1>2, <1>3, <1>7 DEF last
  <2>2. PICK i \in TurnsOf(ms) : \E k \in 1..Len(ms[i].calls) : j = i + k
    BY <2>1 DEF WellFormed
  <2>3. new[i] = ms[i] /\ i \in TurnsOf(new)
    BY <1>2, <1>3
  <2> QED
    BY <2>2, <2>3
<1>8. WellFormed(new)
  BY <1>5, <1>6, <1>7 DEF WellFormed
<1>9. Through(new, last, 0)
  <2>1. last \in TurnsOf(new) /\ \A j \in TurnsOf(new) : j <= last
    BY <1>2, <1>3 DEF last
  <2>2. \A j \in TurnsOf(new) \ {last} : j + Len(new[j].calls) < last
    BY <1>2, <1>3, <1>4
  <2>3. 0 \in 0..Len(new[last].calls) /\ Len(new) = last + 0
    BY <1>1, <1>2, <1>3 DEF last
  <2> QED
    BY <2>1, <2>2, <2>3 DEF Through
<1> QED
  BY <1>1, <1>2, <1>8, <1>9 DEF last, new

\* A result stands with its call.
LEMMA AddResult ==
  ASSUME NEW ms \in Seq(MessageType), WellFormed(ms), NEW i \in TurnsOf(ms), NEW n \in Nat,
         Through(ms, i, n), n < Len(ms[i].calls)
  PROVE  LET new == Append(ms, Result(ms[i].calls[n + 1])) IN
         /\ new \in Seq(MessageType) /\ WellFormed(new) /\ Through(new, i, n + 1)
         /\ TurnsOf(new) = TurnsOf(ms) /\ \A j \in 1..Len(ms) : new[j] = ms[j]
<1> DEFINE new == Append(ms, Result(ms[i].calls[n + 1]))
<1> DEFINE m == Result(ms[i].calls[n + 1])
<1> DEFINE last == Len(ms) + 1
<1>1. /\ Len(ms) \in Nat /\ TurnsOf(ms) \subseteq 1..Len(ms)
      /\ \A j \in 1..Len(ms) : Len(ms[j].calls) \in Nat /\ ms[j].calls \in Seq(AllCalls)
  BY MessagesAre
<1>2. ms[i].calls[n + 1] \in AllCalls
  <2>1. n + 1 \in 1..Len(ms[i].calls)
    BY <1>1
  <2> QED
    BY <1>1, <2>1, ElementOfSeq
<1>3. m \in MessageType /\ m.role = "tool"
  BY <1>2 DEF Message, MessageType, Result
<1>4. /\ new \in Seq(MessageType) /\ Len(new) = last /\ new[last] = m
      /\ \A j \in 1..Len(ms) : new[j] = ms[j]
      /\ TurnsOf(new) = TurnsOf(ms)
  BY <1>3, Appended1 DEF last
<1>5. last = i + (n + 1) /\ new[i] = ms[i] /\ \A j \in TurnsOf(ms) : new[j] = ms[j]
  BY <1>1, <1>4 DEF Through, last
<1>6. new[last] = Result(ms[i].calls[n + 1])
  BY <1>4
<1> HIDE DEF m, new
<1>7. \A j \in 1..Len(new) : new[j].role = "user" => new[j].calls = <<>>
  BY <1>1, <1>3, <1>4 DEF WellFormed, last
<1>8. ASSUME NEW j \in TurnsOf(new)
      PROVE  /\ Len(new[j].calls) \in 1..MaxCalls
             /\ \A k \in 1..Len(new[j].calls) :
                  j + k <= Len(new) => new[j + k] = Result(new[j].calls[k])
  <2>1. j \in TurnsOf(ms) /\ new[j] = ms[j] /\ j \in 1..Len(ms)
    BY <1>1, <1>4
  <2>2. Len(ms[j].calls) \in 1..MaxCalls
    BY <2>1 DEF WellFormed
  <2>3. ASSUME NEW k \in 1..Len(ms[j].calls), j + k <= Len(new)
        PROVE  new[j + k] = Result(ms[j].calls[k])
    <3>3. j \in Nat /\ k \in Nat /\ Len(ms) \in Nat
      BY <1>1, <2>1, <2>2, ToolNumbers
    <3>4. j + k <= Len(ms) + 1
      BY <1>4, <2>3 DEF last
    <3>1. CASE j + k <= Len(ms)
      <4>1. ms[j + k] = Result(ms[j].calls[k])
        BY <2>1, <3>1 DEF WellFormed
      <4>2. j + k \in 1..Len(ms)
        BY <1>1, <2>1, <3>1
      <4> QED
        BY <4>1, <4>2, <1>4
    <3>2. CASE ~(j + k <= Len(ms))
      <4>1. j + k = last
        BY <3>2, <3>3, <3>4 DEF last
      <4>2. j = i
        BY <1>1, <1>5, <2>1, <2>2, <4>1 DEF Through
      <4>3. k = n + 1
        BY <1>1, <1>5, <4>1, <4>2
      <4> QED
        BY <1>6, <4>1, <4>2, <4>3
    <3> QED
      BY <3>1, <3>2, <3>3
  <2> QED
    BY <2>1, <2>2, <2>3
<1>9. ASSUME NEW j \in 1..Len(new), new[j].role = "tool"
      PROVE  \E h \in TurnsOf(new) : \E k \in 1..Len(new[h].calls) : j = h + k
  <2>1. CASE j = last
    <3>1. n + 1 \in 1..Len(new[i].calls) /\ i \in TurnsOf(new)
      BY <1>1, <1>4, <1>5
    <3> QED
      BY <2>1, <3>1, <1>5
  <2>2. CASE j # last
    <3>1. j \in 1..Len(ms) /\ ms[j].role = "tool"
      BY <1>1, <1>4, <1>9, <2>2 DEF last
    <3>2. PICK h \in TurnsOf(ms) : \E k \in 1..Len(ms[h].calls) : j = h + k
      BY <3>1 DEF WellFormed
    <3> QED
      BY <3>2, <1>4, <1>5
  <2> QED
    BY <2>1, <2>2
<1>10. WellFormed(new)
  BY <1>7, <1>8, <1>9 DEF WellFormed
<1>11. Through(new, i, n + 1)
  <2>1. n + 1 \in 0..Len(new[i].calls) /\ Len(new) = i + (n + 1)
    BY <1>1, <1>4, <1>5
  <2>2. /\ i \in TurnsOf(new) /\ \A j \in TurnsOf(new) : j <= i
        /\ \A j \in TurnsOf(new) \ {i} : j + Len(new[j].calls) < i
    BY <1>4, <1>5 DEF Through
  <2> QED
    BY <2>1, <2>2 DEF Through
<1> QED
  BY <1>4, <1>10, <1>11 DEF new

LEMMA LastTurnIs ==
  ASSUME messages \in Seq(MessageType), NEW i \in TurnsOf(messages),
         \A j \in TurnsOf(messages) : j <= i
  PROVE  LastTurn = i /\ Calls = messages[i].calls
<1> DEFINE P(h) == messages[h].role = "assistant"
                   /\ \A j \in DOMAIN messages : messages[j].role = "assistant" => j <= h
<1>1. i \in DOMAIN messages /\ P(i) /\ DOMAIN messages = 1..Len(messages)
  BY DEF TurnsOf
<1>2. \A h \in DOMAIN messages : P(h) => h = i
  BY <1>1
<1>3. LastTurn = i
  BY <1>1, <1>2 DEF LastTurn
<1> QED
  BY <1>3 DEF Calls

\* Turns are counted.
LEMMA OneMoreTurn ==
  ASSUME NEW ms \in Seq(MessageType), NEW new, TurnsOf(new) = TurnsOf(ms) \cup {Len(ms) + 1}
  PROVE  Cardinality(TurnsOf(new)) = Cardinality(TurnsOf(ms)) + 1
<1>1. Len(ms) \in Nat /\ TurnsOf(ms) \subseteq 1..Len(ms)
  BY MessagesAre
<1>2. IsFiniteSet(1..Len(ms))
  BY <1>1, FS_Interval
<1>3. IsFiniteSet(TurnsOf(ms)) /\ Len(ms) + 1 \notin TurnsOf(ms)
  BY <1>1, <1>2, FS_Subset
<1> QED
  BY <1>3, FS_AddElement

-----------------------------------------------------------------------------
(* The loop.                                                               *)

LEMMA LoopStarts == ToolInit => LoopInv
<1> SUFFICES ASSUME ToolInit PROVE LoopInv
  OBVIOUS
<1> USE ToolNumbers
<1>1. messages = <<>> /\ <<>> \in Seq(MessageType) /\ TurnsOf(<<>>) = {} /\ Len(<<>>) = 0
  BY DEF ToolInit, TurnsOf
<1>2. LoopTypes
  BY <1>1 DEF ToolInit, LoopTypes, Modes, Vendors, Streamers, Untried
<1>3. RoundsCount
  BY <1>1 DEF ToolInit, RoundsCount, FailuresAreExhausted
<1>4. WellFormed(messages)
  BY <1>1 DEF WellFormed
<1>5. TurnsCount
  BY <1>4 DEF ToolInit, TurnsCount, Steps
<1>6. AllByName
  BY <1>1 DEF AllByName
<1> QED
  BY <1>2, <1>3, <1>5, <1>6 DEF LoopInv

LEMMA StartKeeps ==
  ASSUME LoopInv, NEW m \in Modes, NEW v \in Vendors, NEW w \in Vendors,
         NEW n \in 1..MaxProviders, StartCall(m, v, w, n)
  PROVE  LoopInv'
<1> USE ToolNumbers DEF LoopInv
<1> DEFINE first == Message("user", <<>>)
<1>1. step = "idle" /\ messages' = <<first>> /\ step' = Asking /\ step' \in {"open", "call"}
  BY DEF StartCall, Asking
<1>2. first \in MessageType /\ first.role = "user" /\ first.calls = <<>>
  BY DEF Message, MessageType
<1> HIDE DEF first
<1>3. /\ messages' \in Seq(MessageType) /\ Len(messages') = 1 /\ messages'[1] = first
      /\ DOMAIN messages' = 1..1
  BY <1>1, <1>2
<1>4. TurnsOf(messages') = {}
  BY <1>2, <1>3 DEF TurnsOf
<1>5. LoopTypes'
  BY <1>1, <1>3 DEF StartCall, LoopTypes, RoundsCount
<1>6. /\ attempt' = 1 /\ at' = 1 /\ tried' = Untried /\ mode' = m /\ outcome' = outcome
      /\ iteration' = 1 /\ chain' = n
      /\ step' = "open" <=> m = "stream"
  BY <1>1 DEF StartCall, RoundsCount, Asking
<1>7. \A p \in 1..n : tried'[p] = 0
  BY <1>6 DEF Untried
<1>8. RoundsCount'
  BY <1>1, <1>6, <1>7 DEF RoundsCount, FailuresAreExhausted
<1>9. WellFormed(messages')
  BY <1>2, <1>3, <1>4 DEF WellFormed
<1>10. TurnsCount'
  <2>1. Cardinality(TurnsOf(messages')) = 0
    BY <1>4, FS_EmptySet
  <2> QED
    BY <1>1, <1>4, <1>6, <1>9, <2>1 DEF TurnsCount, AllAnswered
<1>11. AllByName'
  BY <1>4 DEF AllByName
<1> QED
  BY <1>5, <1>8, <1>10, <1>11

\* Where the messages and the tries stay, only the step and its result can differ.
LEMMA EndKeeps ==
  ASSUME LoopInv, NEW how \in {"refused", "answer", "limit", "unavailable", "failed", "cancelled"},
         End(how), UNCHANGED <<callVars, messages, iteration, todo>>,
         attempt' \in 1..MaxAttempts, at' \in 1..chain,
         tried' \in [1..MaxProviders -> 0..MaxAttempts]
  PROVE  LoopInv'
<1> USE DEF LoopInv, callVars, End
<1>1. LoopTypes'
  BY DEF LoopTypes
<1>2. RoundsCount'
  BY DEF RoundsCount, FailuresAreExhausted
<1>3. TurnsCount'
  BY DEF TurnsCount, Steps
<1>4. AllByName'
  BY DEF AllByName
<1> QED
  BY <1>1, <1>2, <1>3, <1>4

LEMMA NothingMoves ==
  ASSUME LoopInv, UNCHANGED <<callVars, loopVars>>
  PROVE  LoopInv'
<1> USE DEF LoopInv, callVars, loopVars
<1>1. LoopTypes'
  BY DEF LoopTypes
<1>2. RoundsCount'
  BY DEF RoundsCount, FailuresAreExhausted
<1>3. TurnsCount'
  BY DEF TurnsCount
<1>4. AllByName'
  BY DEF AllByName
<1> QED
  BY <1>1, <1>2, <1>3, <1>4

LEMMA TriesGrow ==
  ASSUME LoopInv, step = "call", tried' = [tried EXCEPT ![at] = @ + 1]
  PROVE  /\ tried' \in [1..MaxProviders -> 0..MaxAttempts]
         /\ \A p \in 1..chain : tried'[p] = IF p < at + 1 THEN attempt ELSE attempt - 1
<1> USE ToolNumbers DEF LoopInv
<1>1. at \in 1..MaxProviders /\ at \in 1..chain /\ chain \in 1..MaxProviders
      /\ attempt \in 1..MaxAttempts
  BY DEF LoopTypes
<1>2. tried[at] = attempt - 1
  BY <1>1 DEF RoundsCount
<1>3. tried[at] + 1 \in 0..MaxAttempts /\ tried[at] + 1 = attempt
  BY <1>1, <1>2
<1>4. tried \in [1..MaxProviders -> 0..MaxAttempts]
  BY DEF LoopTypes
<1>5. tried' \in [1..MaxProviders -> 0..MaxAttempts] /\ tried'[at] = attempt
      /\ \A p \in 1..MaxProviders : p # at => tried'[p] = tried[p]
  BY <1>1, <1>3, <1>4
<1>6. ASSUME NEW p \in 1..chain
      PROVE tried'[p] = IF p < at + 1 THEN attempt ELSE attempt - 1
  <2>1. p \in 1..MaxProviders /\ p \in Nat /\ at \in Nat
    BY <1>1
  <2>2. tried[p] = IF p < at THEN attempt ELSE attempt - 1
    BY DEF RoundsCount
  <2>3. p # at => (p < at + 1 <=> p < at)
    BY <2>1
  <2> QED
    BY <1>5, <2>1, <2>2, <2>3
<1> QED
  BY <1>5, <1>6

LEMMA FailKeeps ==
  ASSUME LoopInv, NEW failure \in Failures, ProviderFails(failure)
  PROVE  LoopInv'
<1> USE ToolNumbers DEF LoopInv
<1>1. /\ tried' \in [1..MaxProviders -> 0..MaxAttempts]
      /\ \A p \in 1..chain : tried'[p] = IF p < at + 1 THEN attempt ELSE attempt - 1
  BY TriesGrow DEF ProviderFails
<1>2. UNCHANGED <<callVars, messages, iteration, attempt, todo>> /\ step = "call"
  BY DEF ProviderFails
<1>3. at \in 1..chain /\ chain \in 1..MaxProviders /\ attempt \in 1..MaxAttempts
      /\ mode \in Modes /\ mode # "stream"
  BY <1>2 DEF LoopTypes, RoundsCount
<1>4. CASE NextProvider(failure) /\ at' = at + 1 /\ UNCHANGED <<step, outcome>>
  <2>1. at' \in 1..chain
    BY <1>3, <1>4 DEF NextProvider
  <2>2. LoopTypes'
    BY <1>1, <1>2, <1>4, <2>1 DEF LoopTypes, callVars
  <2>3. RoundsCount'
    BY <1>1, <1>2, <1>4 DEF RoundsCount, FailuresAreExhausted, callVars
  <2>4. TurnsCount' /\ AllByName'
    BY <1>2, <1>4 DEF TurnsCount, AllByName, callVars
  <2> QED
    BY <2>2, <2>3, <2>4
<1>5. ASSUME ~NextProvider(failure), at' = 1, Again(failure), step' = "wait", UNCHANGED outcome
      PROVE  LoopInv'
  <2>1. mode = "run" /\ attempt < MaxAttempts /\ at = chain
    BY <1>3, <1>5 DEF Again, NextProvider
  <2>2. \A p \in 1..chain : tried'[p] = attempt
    BY <1>1, <1>3, <2>1
  <2>3. LoopTypes'
    BY <1>1, <1>2, <1>3, <1>5 DEF LoopTypes, callVars
  <2>4. RoundsCount'
    BY <1>2, <1>5, <2>1, <2>2 DEF RoundsCount, FailuresAreExhausted, callVars
  <2>5. TurnsCount' /\ AllByName'
    BY <1>2, <1>5 DEF TurnsCount, AllByName, callVars, Steps
  <2> QED
    BY <2>3, <2>4, <2>5
<1>6. ASSUME ~NextProvider(failure), at' = 1, ~Again(failure), Retryable(failure), ~cancelled,
             End("exhausted")
      PROVE  LoopInv'
  <2>1. at = chain /\ (mode = "run" => attempt >= MaxAttempts)
    BY <1>3, <1>6 DEF Again, NextProvider
  <2>2. mode = "run" => \A p \in 1..chain : tried'[p] = MaxAttempts
    BY <1>1, <1>3, <2>1
  <2>3. LoopTypes'
    BY <1>1, <1>2, <1>3, <1>6 DEF LoopTypes, callVars, End
  <2>4. RoundsCount'
    BY <1>2, <1>6, <2>2 DEF RoundsCount, FailuresAreExhausted, callVars, End
  <2>5. TurnsCount' /\ AllByName'
    BY <1>2, <1>6 DEF TurnsCount, AllByName, callVars, Steps, End
  <2> QED
    BY <2>3, <2>4, <2>5
<1>7. ASSUME at' = 1, NEW how \in {"unavailable", "failed", "cancelled"}, End(how)
      PROVE  LoopInv'
  <2>1. at' \in 1..chain /\ attempt' \in 1..MaxAttempts
    BY <1>2, <1>3, <1>7
  <2> QED
    BY <1>1, <1>2, <1>7, <2>1, EndKeeps
<1>8. \/ NextProvider(failure) /\ at' = at + 1 /\ UNCHANGED <<step, outcome>>
      \/ /\ ~NextProvider(failure) /\ at' = 1
         /\ IF Again(failure) THEN step' = "wait" /\ UNCHANGED outcome
            ELSE End(IF cancelled THEN "cancelled"
                     ELSE IF Retryable(failure) THEN "exhausted"
                     ELSE IF failure = "5xx" THEN "unavailable" ELSE "failed")
  BY DEF ProviderFails
<1> HIDE DEF LoopInv
<1> QED
  BY <1>4, <1>5, <1>6, <1>7, <1>8, Zenon

LEMMA BackoffKeeps ==
  ASSUME LoopInv, BackoffEnds
  PROVE  LoopInv'
<1> USE ToolNumbers DEF LoopInv
<1>1. step = "wait" /\ UNCHANGED <<callVars, messages, iteration, at, tried, todo>>
  BY DEF BackoffEnds
<1>2. /\ attempt \in 1..MaxAttempts /\ attempt < MaxAttempts /\ at = 1 /\ mode = "run"
      /\ at \in 1..chain /\ chain \in 1..MaxProviders
      /\ tried \in [1..MaxProviders -> 0..MaxAttempts]
      /\ \A p \in 1..chain : tried[p] = attempt
  BY <1>1 DEF LoopTypes, RoundsCount
<1>3. CASE End("cancelled") /\ UNCHANGED attempt
  BY <1>1, <1>2, <1>3, EndKeeps
<1>4. CASE step' = "call" /\ attempt' = attempt + 1 /\ UNCHANGED outcome
  <2>1. LoopTypes'
    BY <1>1, <1>2, <1>4 DEF LoopTypes, callVars
  <2>2. RoundsCount'
    BY <1>1, <1>2, <1>4 DEF RoundsCount, FailuresAreExhausted, callVars
  <2>3. TurnsCount' /\ AllByName'
    BY <1>1, <1>4 DEF TurnsCount, AllByName, callVars, Steps
  <2> QED
    BY <2>1, <2>2, <2>3
<1> QED
  BY <1>3, <1>4 DEF BackoffEnds

\* A turn without calls ends the loop, another is added to the messages.
LEMMA TurnKeeps ==
  ASSUME LoopInv, step \in Steps, NEW calls \in Seq(AllCalls), Len(calls) \in 0..MaxCalls,
         vendor = "gemini" /\ spare = "gemini" =>
           \A k \in 1..Len(calls) : calls[k].id = Name(calls[k].tool),
         TakeTurn(calls), UNCHANGED <<callVars, iteration, attempt, at>>,
         tried' \in [1..MaxProviders -> 0..MaxAttempts]
  PROVE  LoopInv'
<1> USE ToolNumbers
<1>1. /\ iteration \in 1..MaxIterations /\ attempt \in 1..MaxAttempts /\ at \in 1..chain
      /\ messages \in Seq(MessageType)
      /\ WellFormed(messages) /\ AllAnswered(messages)
      /\ Cardinality(TurnsOf(messages)) = iteration - 1
  BY DEF LoopInv, LoopTypes, TurnsCount
<1>2. CASE calls = <<>>
  BY <1>1, <1>2, EndKeeps DEF TakeTurn
<1>3. CASE calls # <<>>
  <2>1. /\ messages' = Append(messages, Message("assistant", calls))
        /\ step' = "tools" /\ todo' = 1 /\ UNCHANGED outcome
    BY <1>3 DEF TakeTurn
  <2>2. Len(calls) \in 1..MaxCalls
    BY <1>3, EmptySeq
  <2> DEFINE last == Len(messages) + 1
  <2>3. /\ messages' \in Seq(MessageType) /\ WellFormed(messages')
        /\ Through(messages', last, 0) /\ TurnsOf(messages') = TurnsOf(messages) \cup {last}
        /\ messages'[last].calls = calls
        /\ \A i \in 1..Len(messages) : messages'[i] = messages[i]
    <3> DEFINE new == Append(messages, Message("assistant", calls))
    <3>1. /\ new \in Seq(MessageType) /\ WellFormed(new) /\ Through(new, Len(messages) + 1, 0)
          /\ TurnsOf(new) = TurnsOf(messages) \cup {Len(messages) + 1}
          /\ new[Len(messages) + 1].calls = calls
          /\ \A i \in 1..Len(messages) : new[i] = messages[i]
      BY <1>1, <2>2, AddTurn
    <3>2. messages' = new
      BY <2>1
    <3> HIDE DEF new
    <3> QED
      BY <3>1, <3>2
  <2>4. TurnsOf(messages) \subseteq 1..Len(messages)
    BY <1>1, MessagesAre
  <2>5. Cardinality(TurnsOf(messages')) = Cardinality(TurnsOf(messages)) + 1
    BY <1>1, <2>3, OneMoreTurn
  <2>6. LoopTypes'
    BY <2>1, <2>3 DEF LoopInv, LoopTypes, callVars
  <2>7. RoundsCount'
    BY <2>1 DEF LoopInv, RoundsCount, FailuresAreExhausted, callVars, Steps
  <2>8. TurnsCount'
    <3>1. Cardinality(TurnsOf(messages')) = iteration'
      BY <1>1, <2>5
    <3>2. \E i \in TurnsOf(messages') : Through(messages', i, todo' - 1)
      BY <2>1, <2>3
    <3> HIDE DEF last
    <3> QED
      BY <2>1, <2>3, <3>1, <3>2 DEF TurnsCount, Steps
  <2>9. AllByName'
    BY <2>3, <2>4 DEF LoopInv, AllByName, callVars
  <2> QED
    BY <2>6, <2>7, <2>8, <2>9 DEF LoopInv
<1> QED
  BY <1>2, <1>3

LEMMA AnswerKeeps ==
  ASSUME LoopInv, NEW ts \in Turns, ProviderAnswers(ts)
  PROVE  LoopInv'
<1> DEFINE v == VendorAt(at)
<1>1. iteration \in 1..MaxIterations /\ v \in Vendors
  BY DEF LoopInv, LoopTypes, VendorAt
<1>2. v = "gemini" <=> VendorAt(at) = "gemini"
  OBVIOUS
<1>3. vendor = "gemini" /\ spare = "gemini" => v = "gemini"
  BY DEF VendorAt
<1>4. TakeTurn(CallsOf(v, ts)) /\ UNCHANGED <<callVars, iteration, attempt, at>>
      /\ step \in Steps /\ step = "call"
  BY DEF ProviderAnswers, Steps
<1>5. tried' \in [1..MaxProviders -> 0..MaxAttempts]
  BY <1>4, TriesGrow DEF ProviderAnswers
<1> HIDE DEF v
<1>6. /\ CallsOf(v, ts) \in Seq(AllCalls) /\ Len(CallsOf(v, ts)) \in 0..MaxCalls
      /\ v = "gemini" => \A k \in 1..Len(CallsOf(v, ts)) :
           CallsOf(v, ts)[k].id = Name(CallsOf(v, ts)[k].tool)
  BY <1>1, CallsTyped
<1> QED
  BY <1>3, <1>4, <1>5, <1>6, TurnKeeps

LEMMA ToolKeeps ==
  ASSUME LoopInv, RunTool \/ ToolReturns
  PROVE  LoopInv'
<1> USE ToolNumbers
<1>1. /\ step = "tools" /\ todo <= Len(Calls)
      /\ UNCHANGED <<callVars, iteration, attempt, at, tried>>
  BY DEF RunTool, ToolReturns
<1>2. /\ iteration \in 1..MaxIterations /\ attempt \in 1..MaxAttempts /\ at \in 1..chain
      /\ tried \in [1..MaxProviders -> 0..MaxAttempts]
      /\ messages \in Seq(MessageType) /\ todo \in 0..(MaxCalls + 1)
      /\ WellFormed(messages) /\ Cardinality(TurnsOf(messages)) = iteration
  BY <1>1 DEF LoopInv, LoopTypes, TurnsCount
<1>3. CASE End("cancelled") /\ UNCHANGED <<messages, todo>>
  BY <1>1, <1>2, <1>3, EndKeeps
<1>4. CASE ToolResult(Calls[todo]) /\ todo' = todo + 1 /\ UNCHANGED <<step, outcome>>
  <2>1. PICK i \in TurnsOf(messages) : Through(messages, i, todo - 1)
    BY <1>1 DEF LoopInv, TurnsCount
  <2>2. Calls = messages[i].calls
    BY <1>2, <2>1, LastTurnIs DEF Through
  <2>3. todo - 1 \in Nat /\ todo - 1 < Len(messages[i].calls) /\ todo \in 1..MaxCalls
        /\ todo - 1 + 1 = todo
    <3>1. Len(messages[i].calls) \in 1..MaxCalls
      BY <1>2, <2>1 DEF WellFormed
    <3>2. todo - 1 \in 0..Len(messages[i].calls)
      BY <2>1 DEF Through
    <3> QED
      BY <1>1, <1>2, <2>2, <3>1, <3>2
  <2>4. messages' = Append(messages, Result(messages[i].calls[todo - 1 + 1]))
    BY <1>4, <2>2, <2>3 DEF ToolResult, Result
  <2>5. /\ messages' \in Seq(MessageType) /\ WellFormed(messages')
        /\ Through(messages', i, todo - 1 + 1) /\ TurnsOf(messages') = TurnsOf(messages)
        /\ \A j \in 1..Len(messages) : messages'[j] = messages[j]
    <3> DEFINE n == todo - 1
    <3> DEFINE new == Append(messages, Result(messages[i].calls[n + 1]))
    <3>1. n \in Nat /\ n < Len(messages[i].calls) /\ Through(messages, i, n)
          /\ messages' = new
      BY <2>1, <2>3, <2>4
    <3> HIDE DEF n
    <3>2. /\ new \in Seq(MessageType) /\ WellFormed(new) /\ Through(new, i, n + 1)
          /\ TurnsOf(new) = TurnsOf(messages)
          /\ \A j \in 1..Len(messages) : new[j] = messages[j]
      BY <1>2, <3>1, AddResult
    <3> HIDE DEF new
    <3> QED
      BY <3>1, <3>2 DEF n
  <2>6. TurnsOf(messages) \subseteq 1..Len(messages)
    BY <1>2, MessagesAre
  <2>7. LoopTypes'
    BY <1>1, <1>4, <2>3, <2>5 DEF LoopInv, LoopTypes, callVars
  <2>8. RoundsCount'
    BY <1>1, <1>4 DEF LoopInv, RoundsCount, FailuresAreExhausted, callVars
  <2>9. TurnsCount'
    <3>1. todo' - 1 = todo - 1 + 1
      BY <1>4, <2>3
    <3>2. \E j \in TurnsOf(messages') : Through(messages', j, todo' - 1)
      BY <2>5, <3>1
    <3> QED
      BY <1>1, <1>2, <1>4, <2>5, <3>2 DEF TurnsCount, Steps
  <2>10. AllByName'
    BY <1>1, <2>5, <2>6 DEF LoopInv, AllByName, callVars
  <2> QED
    BY <2>7, <2>8, <2>9, <2>10 DEF LoopInv
<1> QED
  BY <1>3, <1>4 DEF RunTool, ToolReturns

LEMMA IterationKeeps ==
  ASSUME LoopInv, NextIteration
  PROVE  LoopInv'
<1> USE ToolNumbers
<1>1. /\ step = "tools" /\ todo > Len(Calls) /\ attempt' = 1 /\ at' = 1 /\ tried' = Untried
      /\ UNCHANGED <<callVars, messages, todo>>
  BY DEF NextIteration
<1>2. /\ iteration \in 1..MaxIterations /\ chain \in 1..MaxProviders
      /\ messages \in Seq(MessageType) /\ todo \in 0..(MaxCalls + 1)
      /\ WellFormed(messages) /\ Cardinality(TurnsOf(messages)) = iteration
  BY <1>1 DEF LoopInv, LoopTypes, TurnsCount
<1>3. tried' \in [1..MaxProviders -> 0..MaxAttempts] /\ at' \in 1..chain
      /\ attempt' \in 1..MaxAttempts /\ \A p \in 1..chain : tried'[p] = 0
  BY <1>1, <1>2 DEF Untried
<1>4. CASE End("limit") /\ UNCHANGED iteration
  BY <1>1, <1>3, <1>4, EndKeeps
<1>5. ASSUME iteration < MaxIterations, iteration' = iteration + 1, UNCHANGED outcome,
             step' = IF mode = "stream" THEN "open" ELSE "call"
      PROVE  LoopInv'
  <2>1. PICK i \in TurnsOf(messages) : Through(messages, i, todo - 1)
    BY <1>1 DEF LoopInv, TurnsCount
  <2>2. Calls = messages[i].calls
    BY <1>2, <2>1, LastTurnIs DEF Through
  <2>3. todo - 1 = Len(messages[i].calls)
    <3>1. Len(messages[i].calls) \in 1..MaxCalls
      BY <1>2, <2>1 DEF WellFormed
    <3>2. todo - 1 \in 0..Len(messages[i].calls)
      BY <2>1 DEF Through
    <3> QED
      BY <1>1, <1>2, <2>2, <3>1, <3>2
  <2>4. AllAnswered(messages')
    BY <1>1, <2>1, <2>3 DEF AllAnswered
  <2>5. Cardinality(TurnsOf(messages')) = iteration' - 1
    BY <1>1, <1>2, <1>5
  <2>6. LoopTypes'
    BY <1>1, <1>2, <1>3, <1>5 DEF LoopInv, LoopTypes, callVars
  <2>7. RoundsCount'
    BY <1>1, <1>2, <1>3, <1>5 DEF LoopInv, RoundsCount, FailuresAreExhausted, callVars
  <2>8. TurnsCount'
    BY <1>1, <1>2, <1>5, <2>4, <2>5 DEF TurnsCount
  <2>9. AllByName'
    BY <1>1 DEF LoopInv, AllByName, callVars
  <2> QED
    BY <2>6, <2>7, <2>8, <2>9 DEF LoopInv
<1> QED
  BY <1>4, <1>5 DEF NextIteration

LEMMA OpeningKeeps ==
  ASSUME LoopInv, OpenStream
  PROVE  LoopInv'
<1>1. step = "open" /\ UNCHANGED <<callVars, messages, iteration, attempt, at, tried, todo>>
  BY DEF OpenStream
<1>2. CASE step' = "stream" /\ UNCHANGED outcome
  <2>1. LoopTypes'
    BY <1>1, <1>2 DEF LoopInv, LoopTypes, callVars
  <2>2. RoundsCount'
    BY <1>1, <1>2 DEF LoopInv, RoundsCount, FailuresAreExhausted, callVars
  <2>3. TurnsCount' /\ AllByName'
    BY <1>1, <1>2 DEF LoopInv, TurnsCount, AllByName, callVars, Steps
  <2> QED
    BY <2>1, <2>2, <2>3 DEF LoopInv
<1>3. CASE End("failed")
  <2>1. attempt \in 1..MaxAttempts /\ at \in 1..chain
        /\ tried \in [1..MaxProviders -> 0..MaxAttempts]
    BY DEF LoopInv, LoopTypes
  <2> QED
    BY <1>1, <1>3, <2>1, EndKeeps
<1> QED
  BY <1>2, <1>3 DEF OpenStream

\* What the loop does with a chunk, or at the end of the channel.
LEMMA ChunkKeeps ==
  ASSUME LoopInv, step = "stream", NEW calls \in Seq(AllCalls), Len(calls) \in 0..MaxCalls,
         vendor = "gemini" => \A k \in 1..Len(calls) : calls[k].id = Name(calls[k].tool),
         UNCHANGED <<callVars, iteration, attempt, at, tried>>,
         \/ End("failed") /\ UNCHANGED <<messages, todo>>
         \/ TakeTurn(calls)
         \/ UNCHANGED <<step, outcome, messages, todo>>
  PROVE  LoopInv'
<1>1. /\ attempt \in 1..MaxAttempts /\ at \in 1..chain /\ step \in Steps
      /\ tried \in [1..MaxProviders -> 0..MaxAttempts]
  BY DEF LoopInv, LoopTypes, Steps
<1>2. CASE End("failed") /\ UNCHANGED <<messages, todo>>
  BY <1>1, <1>2, EndKeeps
<1>3. CASE TakeTurn(calls)
  BY <1>1, <1>3, TurnKeeps
<1>4. CASE UNCHANGED <<step, outcome, messages, todo>>
  BY <1>4, NothingMoves DEF loopVars
<1> QED
  BY <1>2, <1>3, <1>4

-----------------------------------------------------------------------------
(* The stream.                                                             *)

LastIn(ms) == CHOOSE i \in DOMAIN ms :
  /\ ms[i].role = "assistant"
  /\ \A j \in DOMAIN ms : ms[j].role = "assistant" => j <= i
CallsIn(ms) == ms[LastIn(ms)].calls

LEMMA LastIs ==
  ASSUME NEW ms \in Seq(MessageType), NEW i \in TurnsOf(ms), \A j \in TurnsOf(ms) : j <= i
  PROVE  LastIn(ms) = i /\ CallsIn(ms) = ms[i].calls
<1> DEFINE P(h) == ms[h].role = "assistant"
                   /\ \A j \in DOMAIN ms : ms[j].role = "assistant" => j <= h
<1>1. i \in DOMAIN ms /\ P(i) /\ DOMAIN ms = 1..Len(ms)
  BY DEF TurnsOf
<1>2. \A h \in DOMAIN ms : P(h) => h = i
  BY <1>1
<1>3. LastIn(ms) = i
  BY <1>1, <1>2 DEF LastIn
<1> QED
  BY <1>3 DEF CallsIn

\* The two ways to say that a stream has arrived whole.
LEMMA WholeIs ==
  CallsArriveWhole <=>
    /\ mode = "stream" /\ step = "tools" => WholeOf(vendor, blocks, CallsIn(messages))
    /\ mode = "stream" /\ outcome = "answer" /\ blocks # <<>> => ending \in {"stop", "cut"}
<1>1. Calls = CallsIn(messages)
  BY DEF Calls, LastTurn, CallsIn, LastIn
<1>2. WholeOf(vendor, blocks, Calls) <=>
        /\ \E f \in Orders(blocks) : Calls = [i \in DOMAIN blocks |-> blocks[f[i]]]
        /\ vendor # "anthropic" => Calls = blocks
  BY DEF WholeOf
<1> HIDE DEF Calls
<1> QED
  BY <1>1, <1>2, Zenon DEF CallsArriveWhole

LEMMA WholeIsAfter ==
  CallsArriveWhole' <=>
    /\ mode' = "stream" /\ step' = "tools" => WholeOf(vendor', blocks', CallsIn(messages'))
    /\ mode' = "stream" /\ outcome' = "answer" /\ blocks' # <<>> => ending' \in {"stop", "cut"}
<1>1. Calls' = CallsIn(messages')
  BY DEF Calls, LastTurn, CallsIn, LastIn
<1>2. WholeOf(vendor', blocks', Calls') <=>
        /\ \E f \in Orders(blocks') : Calls' = [i \in DOMAIN blocks' |-> blocks'[f[i]]]
        /\ vendor' # "anthropic" => Calls' = blocks'
  BY DEF WholeOf
<1> HIDE DEF Calls
<1> QED
  BY <1>1, <1>2, Zenon DEF CallsArriveWhole

LEMMA StreamStarts == ToolInit => StreamInv
<1> SUFFICES ASSUME ToolInit PROVE StreamInv
  OBVIOUS
<1> USE ToolNumbers
<1>1. StreamTypes
  BY DEF ToolInit, StreamTypes
<1>2. ChunksInOrder
  BY DEF ToolInit, ChunksInOrder
<1>3. TakenWhole
  BY DEF ToolInit, TakenWhole, CallsArriveWhole
<1> QED
  BY <1>1, <1>2, <1>3 DEF StreamInv

\* Where the stream stays as it is, what matters is what the loop makes of it.
LEMMA StreamStays ==
  ASSUME StreamInv, UNCHANGED streamVars, UNCHANGED <<mode, vendor>>,
         step' = "stream" => step = "stream", step' = "idle" => step = "idle",
         mode = "stream" /\ step' = "tools" =>
           producer = "ended" /\ WholeOf(vendor, blocks, CallsIn(messages')),
         mode = "stream" /\ outcome' = "answer" =>
           producer = "ended" /\ (blocks # <<>> => ending \in {"stop", "cut"})
  PROVE  StreamInv'
<1> USE DEF streamVars
<1>1. StreamTypes'
  BY DEF StreamInv, StreamTypes
<1>2. ChunksInOrder'
  BY DEF StreamInv, ChunksInOrder
<1>3. TakenWhole'
  <2>1. CallsArriveWhole'
    BY WholeIsAfter
  <2> QED
    BY <2>1 DEF StreamInv, TakenWhole
<1> QED
  BY <1>1, <1>2, <1>3 DEF StreamInv

LEMMA QuietStreamStays ==
  ASSUME StreamInv, UNCHANGED <<streamVars, mode, vendor, step, outcome, messages>>
  PROVE  StreamInv'
<1>1. mode = "stream" /\ step' = "tools" =>
        producer = "ended" /\ WholeOf(vendor, blocks, CallsIn(messages'))
  BY WholeIs DEF StreamInv, TakenWhole
<1>2. mode = "stream" /\ outcome' = "answer" =>
        producer = "ended" /\ (blocks # <<>> => ending \in {"stop", "cut"})
  BY WholeIs DEF StreamInv, TakenWhole
<1> QED
  BY <1>1, <1>2, StreamStays

\* A call that starts has no stream yet.
LEMMA StartStream ==
  ASSUME LoopInv, StreamInv, NEW m \in Modes, NEW v \in Vendors, NEW w \in Vendors,
         NEW n \in 1..MaxProviders, StartCall(m, v, w, n)
  PROVE  StreamInv'
<1>1. /\ step = "idle" /\ UNCHANGED <<streamVars, outcome>> /\ step' \in {"open", "call"}
      /\ outcome' = "none"
  BY DEF StartCall, Asking, LoopInv, RoundsCount
<1>2. producer = "none" /\ chunks = <<>> /\ pending = <<>> /\ blocks = <<>>
  BY <1>1 DEF StreamInv, ChunksInOrder
<1>3. StreamTypes'
  BY <1>1 DEF StreamInv, StreamTypes, streamVars
<1>4. ChunksInOrder'
  BY <1>1, <1>2 DEF ChunksInOrder, streamVars
<1>5. TakenWhole'
  BY <1>1, <1>2 DEF TakenWhole, CallsArriveWhole, streamVars
<1> QED
  BY <1>3, <1>4, <1>5 DEF StreamInv

\* Whole answers need no stream.
LEMMA PlainCallStream ==
  ASSUME LoopInv, StreamInv, step \in {"call", "wait"}, UNCHANGED <<streamVars, mode, vendor>>,
         step' \in {"call", "wait", "tools", "ended"}
  PROVE  StreamInv'
<1>1. mode # "stream"
  BY DEF LoopInv, RoundsCount
<1> QED
  BY <1>1, StreamStays

LEMMA EndsElsewhere ==
  ASSUME StreamInv, UNCHANGED <<streamVars, mode, vendor>>,
         step' \notin {"stream", "idle", "tools"}, outcome' # "answer"
  PROVE  StreamInv'
BY StreamStays

LEMMA ToolStream ==
  ASSUME LoopInv, StreamInv, RunTool \/ ToolReturns
  PROVE  StreamInv'
<1>1. step = "tools" /\ UNCHANGED <<streamVars, mode, vendor>> /\ todo <= Len(Calls)
  BY DEF RunTool, ToolReturns, callVars
<1>2. CASE End("cancelled")
  BY <1>1, <1>2, EndsElsewhere DEF End
<1>3. CASE ToolResult(Calls[todo]) /\ UNCHANGED <<step, outcome>>
  <2>1. messages \in Seq(MessageType) /\ WellFormed(messages) /\ todo \in 0..(MaxCalls + 1)
        /\ outcome = "none"
    BY <1>1 DEF LoopInv, LoopTypes, TurnsCount, RoundsCount
  <2>2. PICK i \in TurnsOf(messages) : Through(messages, i, todo - 1)
    BY <1>1 DEF LoopInv, TurnsCount
  <2>3. /\ LastIn(messages) = i /\ CallsIn(messages) = messages[i].calls
        /\ Calls = messages[i].calls
    BY <2>1, <2>2, LastIs, LastTurnIs DEF Through
  <2>4. Len(messages[i].calls) \in 1..MaxCalls /\ todo - 1 \in 0..Len(messages[i].calls)
    BY <2>1, <2>2 DEF WellFormed, Through
  <2> DEFINE n == todo - 1
  <2>5. n \in Nat /\ n < Len(messages[i].calls) /\ n + 1 = todo /\ Through(messages, i, n)
    BY <1>1, <2>1, <2>2, <2>3, <2>4, ToolNumbers
  <2> HIDE DEF n
  <2> DEFINE new == Append(messages, Result(messages[i].calls[n + 1]))
  <2>6. messages' = new
    BY <1>3, <2>3, <2>5 DEF ToolResult, Result
  <2>7. /\ new \in Seq(MessageType) /\ Through(new, i, n + 1)
        /\ TurnsOf(new) = TurnsOf(messages)
        /\ \A j \in 1..Len(messages) : new[j] = messages[j]
    BY <2>1, <2>5, AddResult
  <2>8. i \in 1..Len(messages)
    BY <2>1, MessagesAre
  <2> HIDE DEF new
  <2>9. CallsIn(new) = new[i].calls
    BY <2>7, LastIs DEF Through
  <2>10. CallsIn(messages') = CallsIn(messages)
    BY <2>3, <2>6, <2>7, <2>8, <2>9
  <2>11. mode = "stream" => producer = "ended" /\ WholeOf(vendor, blocks, CallsIn(messages))
    BY <1>1, WholeIs DEF StreamInv, TakenWhole
  <2> QED
    BY <1>1, <1>3, <2>1, <2>10, <2>11, StreamStays
<1> QED
  BY <1>2, <1>3 DEF RunTool, ToolReturns

LEMMA IterationStream ==
  ASSUME LoopInv, StreamInv, NextIteration
  PROVE  StreamInv'
<1>1. /\ step = "tools" /\ UNCHANGED <<streamVars, mode, vendor>> /\ outcome = "none"
      /\ step' \in {"open", "call", "ended"} /\ outcome' \in {"none", "limit"}
  BY DEF NextIteration, callVars, End, LoopInv, RoundsCount
<1> QED
  BY <1>1, EndsElsewhere

LEMMA OpenStreams ==
  ASSUME LoopInv, StreamInv, OpenStream
  PROVE  StreamInv'
<1>1. /\ step = "open" /\ UNCHANGED <<mode, vendor>> /\ mode = "stream" /\ outcome = "none"
  BY DEF OpenStream, callVars, LoopInv, RoundsCount
<1>2. CASE End("failed") /\ UNCHANGED streamVars
  BY <1>1, <1>2, EndsElsewhere DEF End
<1>3. ASSUME step' = "stream", producer' = "reading",
             chunks' = <<>>, pending' = <<>>, blocks' = <<>>, collected' = <<>>,
             ending' = "none", UNCHANGED outcome
      PROVE  StreamInv'
  <2>1. StreamTypes'
    BY <1>3, ToolNumbers DEF StreamTypes
  <2>2. ChunksInOrder'
    BY <1>1, <1>3 DEF ChunksInOrder
  <2>3. TakenWhole'
    BY <1>1, <1>3 DEF TakenWhole, CallsArriveWhole
  <2> QED
    BY <2>1, <2>2, <2>3 DEF StreamInv
<1> QED
  BY <1>2, <1>3 DEF OpenStream

-----------------------------------------------------------------------------
(* The producer.                                                           *)

LEMMA BlocksAreWhole ==
  ASSUME StreamTypes
  PROVE  /\ WholeOf(vendor, blocks, blocks)
         /\ \A calls \in AllBlocks :
              calls \in Seq(AllCalls) /\ WholeOf(vendor, blocks, calls)
<1>1. blocks \in Seq(AllCalls) /\ DOMAIN blocks = 1..Len(blocks) /\ Len(blocks) \in Nat
  BY DEF StreamTypes
<1>2. WholeOf(vendor, blocks, blocks)
  <2> DEFINE f == [i \in DOMAIN blocks |-> i]
  <2>1. f \in Orders(blocks)
    BY DEF Orders, Bijection, Injection, Surjection, IsInjective
  <2>2. blocks = [i \in DOMAIN blocks |-> blocks[f[i]]]
    BY <1>1
  <2> QED
    BY <2>1, <2>2 DEF WholeOf
<1>3. ASSUME vendor = "anthropic", NEW f \in Orders(blocks)
      PROVE  LET calls == [i \in DOMAIN blocks |-> blocks[f[i]]]
             IN  calls \in Seq(AllCalls) /\ WholeOf(vendor, blocks, calls)
  <2> DEFINE calls == [i \in DOMAIN blocks |-> blocks[f[i]]]
  <2>1. f \in [DOMAIN blocks -> DOMAIN blocks]
    BY DEF Orders, Bijection, Injection, Surjection, IsInjective
  <2>2. \A i \in 1..Len(blocks) : blocks[f[i]] \in AllCalls
    BY <1>1, <2>1, ElementOfSeq
  <2>3. calls \in [1..Len(blocks) -> AllCalls]
    BY <1>1, <2>2
  <2>4. calls \in Seq(AllCalls)
    BY <1>1, <2>3
  <2>5. WholeOf(vendor, blocks, calls)
    BY <1>3 DEF WholeOf
  <2> QED
    BY <2>4, <2>5
<1>4. ASSUME NEW calls \in AllBlocks
      PROVE  calls \in Seq(AllCalls) /\ WholeOf(vendor, blocks, calls)
  <2>1. CASE vendor = "anthropic"
    BY <1>3, <2>1 DEF AllBlocks
  <2>2. CASE vendor # "anthropic"
    BY <1>1, <1>2, <2>2 DEF AllBlocks
  <2> QED
    BY <2>1, <2>2
<1> QED
  BY <1>2, <1>4

\* Whatever the producer sends next: nothing but the last chunk matters.
LEMMA SendKeeps ==
  ASSUME StreamInv, Reading, UNCHANGED <<callVars, loopVars, chunks, producer, blocks, collected>>,
         NEW calls \in Seq(AllCalls), NEW err \in BOOLEAN, NEW done \in BOOLEAN,
         NEW forced \in BOOLEAN, Sends(calls, err, done, forced),
         ending' \in {"none", "complete", "stop", "error", "cut"},
         \/ ~done /\ ~err /\ calls = <<>>
         \/ /\ done
            /\ \/ err \/ WholeOf(vendor, blocks, calls)
               \/ ending' \in {"stop", "cut"} /\ calls = <<>>
  PROVE  StreamInv'
<1> DEFINE c == [calls |-> calls, err |-> err, done |-> done, forced |-> forced]
<1>1. /\ producer = "reading" /\ producer' = "reading" /\ pending' = <<c>>
      /\ UNCHANGED <<mode, vendor, step, outcome, messages, chunks, blocks, collected>>
  BY DEF Reading, Sends, callVars, loopVars
<1>2. c \in Chunk /\ c.calls = calls
  BY DEF Chunk
<1>3. (c.err <=> err) /\ (c.done <=> done)
  OBVIOUS
<1>4. Plain(c) \/ FinalOf(vendor, blocks, ending', c)
  BY <1>2, <1>3 DEF Plain, FinalOf
<1> HIDE DEF c
<1>5. pending' \in Seq(Chunk) /\ Len(pending') = 1 /\ pending'[1] = c
  BY <1>1, <1>2
<1>6. StreamTypes'
  BY <1>1, <1>5 DEF StreamInv, StreamTypes
<1>7. ChunksInOrder'
  <2>1. \A i \in 1..Len(chunks) : Plain(chunks[i])
    BY <1>1 DEF StreamInv, ChunksInOrder
  <2>2. \A i \in 1..Len(pending') :
          Plain(pending'[i]) \/ FinalOf(vendor', blocks', ending', pending'[i])
    BY <1>1, <1>4, <1>5
  <2> QED
    BY <1>1, <2>1, <2>2 DEF StreamInv, ChunksInOrder
<1>8. TakenWhole'
  <2>1. ~(mode = "stream" /\ (step = "tools" \/ outcome = "answer"))
    BY <1>1 DEF StreamInv, TakenWhole
  <2> QED
    BY <1>1, <2>1, WholeIsAfter DEF StreamInv, TakenWhole
<1> QED
  BY <1>6, <1>7, <1>8 DEF StreamInv

LEMMA TextKeeps == StreamInv /\ ReadText => StreamInv'
<1> SUFFICES ASSUME StreamInv, ReadText PROVE StreamInv'
  OBVIOUS
<1>1. ending' \in {"none", "complete", "stop", "error", "cut"} /\ <<>> \in Seq(AllCalls)
  BY DEF ReadText, StreamInv, StreamTypes
<1> QED
  BY <1>1, SendKeeps DEF ReadText

LEMMA BlockKeeps ==
  ASSUME LoopInv, StreamInv, NEW t \in Tools, ReadBlock(t)
  PROVE  StreamInv'
<1> DEFINE c == Call(vendor, Len(blocks) + 1, t)
<1>1. /\ producer = "reading" /\ pending = <<>> /\ blocks' = Append(blocks, c)
      /\ Len(blocks) < MaxCalls
      /\ UNCHANGED <<mode, vendor, step, outcome, messages, chunks, pending, producer,
                     collected, ending>>
  BY DEF ReadBlock, Reading, callVars, loopVars
<1>2. blocks \in Seq(AllCalls) /\ Len(blocks) \in Nat
  BY DEF StreamInv, StreamTypes
<1>3. c \in AllCalls /\ (vendor = "gemini" => c.id = Name(c.tool))
  <2>1. Len(blocks) + 1 \in 1..MaxCalls /\ vendor \in Vendors /\ iteration \in 1..MaxIterations
    BY <1>1, <1>2, ToolNumbers DEF LoopInv, LoopTypes
  <2> QED
    BY <2>1, CallTyped
<1> HIDE DEF c
<1>4. /\ blocks' \in Seq(AllCalls) /\ Len(blocks') = Len(blocks) + 1
      /\ \A i \in 1..Len(blocks) : blocks'[i] = blocks[i]
      /\ blocks'[Len(blocks) + 1] = c
  BY <1>1, <1>2, <1>3, AppendProperties
<1>5. StreamTypes'
  BY <1>1, <1>2, <1>4, ToolNumbers DEF StreamInv, StreamTypes
<1>6. ChunksInOrder'
  <2>1. \A i \in 1..Len(chunks) : Plain(chunks[i])
    BY <1>1 DEF StreamInv, ChunksInOrder
  <2>2. Len(<<>>) = 0
    OBVIOUS
  <2> QED
    BY <1>1, <2>1, <2>2 DEF StreamInv, ChunksInOrder
<1>7. TakenWhole'
  <2>1. ~(mode = "stream" /\ (step = "tools" \/ outcome = "answer"))
    BY <1>1 DEF StreamInv, TakenWhole
  <2>2. vendor = "gemini" => \A i \in 1..Len(blocks') : blocks'[i].id = Name(blocks'[i].tool)
    BY <1>2, <1>3, <1>4 DEF StreamInv, TakenWhole
  <2> QED
    BY <1>1, <2>1, <2>2, WholeIsAfter DEF TakenWhole
<1> QED
  BY <1>5, <1>6, <1>7 DEF StreamInv

LEMMA LastKeeps == StreamInv /\ ReadLast => StreamInv'
<1> SUFFICES ASSUME StreamInv, ReadLast PROVE StreamInv'
  OBVIOUS
<1>1. Reading /\ UNCHANGED <<callVars, loopVars, chunks, producer, blocks, collected>>
  BY DEF ReadLast
<1>2. \/ \E calls \in AllBlocks : Ends("complete", calls, FALSE)
      \/ Ends("stop", <<>>, FALSE) \/ Ends("error", <<>>, TRUE)
  BY DEF ReadLast, OpenAILast, AnthropicLast, GeminiLast, OllamaLast
<1>3. ASSUME NEW calls \in AllBlocks, Ends("complete", calls, FALSE)
      PROVE  StreamInv'
  <2>1. calls \in Seq(AllCalls) /\ WholeOf(vendor, blocks, calls)
    BY BlocksAreWhole DEF StreamInv
  <2> QED
    BY <1>1, <1>3, <2>1, SendKeeps DEF Ends
<1>4. <<>> \in Seq(AllCalls)
  OBVIOUS
<1>5. CASE Ends("stop", <<>>, FALSE)
  BY <1>1, <1>4, <1>5, SendKeeps DEF Ends
<1>6. CASE Ends("error", <<>>, TRUE)
  BY <1>1, <1>4, <1>6, SendKeeps DEF Ends
<1> QED
  BY <1>2, <1>3, <1>5, <1>6

LEMMA CutKeeps == StreamInv /\ ReadEnd => StreamInv'
<1> SUFFICES ASSUME StreamInv, ReadEnd PROVE StreamInv'
  OBVIOUS
<1> DEFINE calls == IF vendor = "gemini" THEN blocks ELSE <<>>
<1>1. Reading /\ UNCHANGED <<callVars, loopVars, chunks, producer, blocks, collected>>
      /\ ending' = "cut" /\ Sends(calls, FALSE, TRUE, TRUE)
  BY DEF ReadEnd
<1>2. calls \in Seq(AllCalls) /\ (WholeOf(vendor, blocks, calls) \/ calls = <<>>)
  BY BlocksAreWhole DEF StreamInv, StreamTypes
<1> HIDE DEF calls
<1> QED
  BY <1>1, <1>2, SendKeeps

LEMMA BreakKeeps == StreamInv /\ ReadFails => StreamInv'
<1> SUFFICES ASSUME StreamInv, ReadFails PROVE StreamInv'
  OBVIOUS
<1>1. <<>> \in Seq(AllCalls)
  OBVIOUS
<1> QED
  BY <1>1, SendKeeps DEF ReadFails

LEMMA SentKeeps ==
  ASSUME StreamInv, SendChunk
  PROVE  StreamInv'
<1> DEFINE c == pending[1]
<1>1. pending \in Seq(Chunk) /\ Len(pending) <= 1 /\ chunks \in Seq(Chunk) /\ Len(chunks) \in Nat
  BY DEF StreamInv, StreamTypes
<1>2. /\ Len(pending) = 1 /\ c \in Chunk /\ Head(pending) = c
      /\ Len(chunks) < ChunkBuffer /\ chunks' = Append(chunks, c) /\ pending' = <<>>
      /\ IF c.done THEN ProducerEnds ELSE UNCHANGED producer
      /\ UNCHANGED <<mode, vendor, step, outcome, messages, blocks, collected, ending>>
  <2>1. pending # <<>> /\ Len(pending) \in Nat
    BY <1>1 DEF SendChunk
  <2>2. Len(pending) = 1
    <3>1. Len(pending) # 0
      BY <1>1, <2>1, EmptySeq
    <3>2. \A n \in Nat : n <= 1 /\ n # 0 => n = 1
      OBVIOUS
    <3>3. Len(pending) \in Nat /\ Len(pending) <= 1
      BY <1>1, <2>1
    <3> QED
      BY <3>1, <3>2, <3>3
  <2>3. c \in Chunk
    <3>1. 1 \in 1..Len(pending)
      BY <2>2
    <3> QED
      BY <1>1, <3>1, ElementOfSeq
  <2>4. Head(pending) = c
    BY <1>1, <2>1, HeadTailProperties
  <2> QED
    BY <2>2, <2>3, <2>4 DEF SendChunk, callVars, loopVars
<1>3. producer = "reading" /\ (Plain(c) \/ FinalOf(vendor, blocks, ending, c))
  BY <1>2 DEF StreamInv, ChunksInOrder
<1>4. \A i \in 1..Len(chunks) : Plain(chunks[i])
  BY <1>3 DEF StreamInv, ChunksInOrder
<1> HIDE DEF c
<1>5. /\ chunks' \in Seq(Chunk) /\ Len(chunks') = Len(chunks) + 1
      /\ chunks'[Len(chunks) + 1] = c /\ \A i \in 1..Len(chunks) : chunks'[i] = chunks[i]
      /\ chunks' # <<>>
  BY <1>1, <1>2, AppendProperties
<1>6. StreamTypes'
  <2>1. producer' \in {"reading", "ended"} /\ Len(<<>>) = 0 /\ <<>> \in Seq(Chunk)
    BY <1>2, <1>3 DEF ProducerEnds
  <2> QED
    BY <1>1, <1>2, <1>5, <2>1, ToolNumbers DEF StreamInv, StreamTypes
<1>7. (Plain(c) /\ producer' = "reading" /\ ~c.done)
        \/ (FinalOf(vendor, blocks, ending, c) /\ producer' = "ended" /\ c.done)
  BY <1>2, <1>3, Zenon DEF Plain, FinalOf, ProducerEnds
<1>8. ChunksInOrder'
  <2>1. \A i \in 1..Len(chunks') :
          \/ Plain(chunks'[i])
          \/ i = Len(chunks') /\ producer' = "ended" /\ FinalOf(vendor, blocks, ending, chunks'[i])
    BY <1>1, <1>4, <1>5, <1>7
  <2>2. producer' = "ended" => chunks'[Len(chunks')].done
    BY <1>5, <1>7
  <2>3. producer' # "none" /\ Len(<<>>) = 0
    BY <1>7
  <2> QED
    BY <1>2, <1>3, <1>5, <2>1, <2>2, <2>3 DEF StreamInv, ChunksInOrder
<1>9. TakenWhole'
  <2>1. ~(mode = "stream" /\ (step = "tools" \/ outcome = "answer"))
    BY <1>3 DEF StreamInv, TakenWhole
  <2> QED
    BY <1>2, <2>1, WholeIsAfter DEF StreamInv, TakenWhole
<1> QED
  BY <1>6, <1>8, <1>9 DEF StreamInv

LEMMA DropKeeps ==
  ASSUME StreamInv, DropChunk
  PROVE  StreamInv'
<1>1. pending \in Seq(Chunk) /\ Len(pending) <= 1
  BY DEF StreamInv, StreamTypes
<1>2. /\ pending # <<>> /\ pending' = <<>> /\ producer' = "ended" /\ ending' = "cut"
      /\ UNCHANGED <<mode, vendor, step, outcome, messages, blocks, collected, chunks>>
  BY DEF DropChunk, callVars, loopVars, ProducerEnds
<1>3. 1 \in 1..Len(pending)
  BY <1>1, <1>2, EmptySeq
<1>4. producer = "reading"
  BY <1>3 DEF StreamInv, ChunksInOrder
<1>5. StreamTypes'
  BY <1>2 DEF StreamInv, StreamTypes
<1>6. ChunksInOrder'
  <2>1. \A i \in 1..Len(chunks) : Plain(chunks[i])
    BY <1>4 DEF StreamInv, ChunksInOrder
  <2>2. Len(<<>>) = 0
    OBVIOUS
  <2> QED
    BY <1>2, <1>4, <2>1, <2>2 DEF StreamInv, ChunksInOrder
<1>7. TakenWhole'
  <2>1. ~(mode = "stream" /\ (step = "tools" \/ outcome = "answer"))
    BY <1>4 DEF StreamInv, TakenWhole
  <2> QED
    BY <1>2, <2>1, WholeIsAfter DEF StreamInv, TakenWhole
<1> QED
  BY <1>5, <1>6, <1>7 DEF StreamInv

-----------------------------------------------------------------------------
(* What the loop takes from the channel.                                   *)

LEMMA WholeTyped ==
  ASSUME StreamTypes, NEW calls, WholeOf(vendor, blocks, calls)
  PROVE  calls \in Seq(AllCalls) /\ Len(calls) = Len(blocks) /\ Len(blocks) \in 0..MaxCalls
<1>1. blocks \in Seq(AllCalls) /\ DOMAIN blocks = 1..Len(blocks) /\ Len(blocks) \in Nat
      /\ Len(blocks) \in 0..MaxCalls
  BY ToolNumbers DEF StreamTypes
<1>2. PICK f \in Orders(blocks) : calls = [i \in DOMAIN blocks |-> blocks[f[i]]]
  BY DEF WholeOf
<1>3. f \in [DOMAIN blocks -> DOMAIN blocks]
  BY DEF Orders, Bijection, Injection
<1>4. \A i \in 1..Len(blocks) : blocks[f[i]] \in AllCalls
  BY <1>1, <1>3, ElementOfSeq
<1>5. calls \in [1..Len(blocks) -> AllCalls]
  BY <1>1, <1>2, <1>4
<1> QED
  BY <1>1, <1>5

LEMMA TurnTaken ==
  ASSUME LoopInv, step \in Steps, NEW calls \in Seq(AllCalls), Len(calls) \in 1..MaxCalls,
         messages' = Append(messages, Message("assistant", calls))
  PROVE  CallsIn(messages') = calls
<1>1. messages \in Seq(MessageType) /\ WellFormed(messages) /\ AllAnswered(messages)
  BY DEF LoopInv, LoopTypes, TurnsCount
<1> DEFINE new == Append(messages, Message("assistant", calls))
<1> DEFINE last == Len(messages) + 1
<1>2. /\ new \in Seq(MessageType) /\ Through(new, last, 0)
      /\ new[last].calls = calls
  BY <1>1, AddTurn
<1>3. messages' = new
  OBVIOUS
<1> HIDE DEF new, last
<1>4. CallsIn(new) = new[last].calls
  BY <1>2, LastIs DEF Through
<1> QED
  BY <1>2, <1>3, <1>4

\* The loop leaves its stream.
LEMMA StreamLeft ==
  ASSUME StreamInv, producer = "ended",
         UNCHANGED <<mode, vendor, producer, pending, blocks, ending>>,
         chunks' = <<>>, collected' \in Seq(AllCalls), step' \notin {"stream", "idle"},
         mode = "stream" /\ step' = "tools" => WholeOf(vendor, blocks, CallsIn(messages')),
         mode = "stream" /\ outcome' = "answer" /\ blocks # <<>> => ending \in {"stop", "cut"}
  PROVE  StreamInv'
<1>1. Len(<<>>) = 0 /\ <<>> \in Seq(Chunk)
  OBVIOUS
<1>2. StreamTypes'
  BY <1>1, ToolNumbers DEF StreamInv, StreamTypes
<1>3. ChunksInOrder'
  BY <1>1 DEF StreamInv, ChunksInOrder
<1>4. TakenWhole'
  <2>1. CallsArriveWhole'
    BY WholeIsAfter
  <2> QED
    BY <2>1 DEF StreamInv, TakenWhole
<1> QED
  BY <1>2, <1>3, <1>4 DEF StreamInv

\* A last turn that is taken whole, or that its vendor stopped or the network cut.
LEMMA LastTaken ==
  ASSUME LoopInv, StreamInv, step = "stream", producer = "ended", NEW calls \in Seq(AllCalls),
         \/ WholeOf(vendor, blocks, calls)
         \/ ending \in {"stop", "cut"} /\ calls = <<>>,
         UNCHANGED <<callVars, iteration, attempt, at, tried, producer, pending, blocks, ending>>,
         chunks' = <<>>, collected' \in Seq(AllCalls), TakeTurn(calls)
  PROVE  LoopInv' /\ StreamInv'
<1>1. Len(calls) \in 0..MaxCalls
  <2>1. CASE WholeOf(vendor, blocks, calls)
    BY <2>1, WholeTyped DEF StreamInv
  <2>2. CASE calls = <<>>
    BY <2>2, ToolNumbers
  <2> QED
    BY <2>1, <2>2
<1>2. vendor = "gemini" => \A k \in 1..Len(calls) : calls[k].id = Name(calls[k].tool)
  <2>1. vendor = "gemini" => calls = <<>> \/ calls = blocks
    BY DEF WholeOf
  <2> QED
    BY <2>1 DEF StreamInv, TakenWhole
<1>3. LoopInv'
  BY <1>1, <1>2, ChunkKeeps
<1>4. mode = "stream"
  BY DEF LoopInv, RoundsCount
<1>5. UNCHANGED <<mode, vendor, producer, pending, blocks, ending>>
  BY DEF callVars
<1>6. CASE calls = <<>>
  <2>1. step' = "ended" /\ outcome' = "answer"
    BY <1>6 DEF TakeTurn, End
  <2>2. blocks # <<>> => ending \in {"stop", "cut"}
    <3>1. WholeOf(vendor, blocks, calls) => blocks = <<>>
      <4>1. WholeOf(vendor, blocks, calls) => Len(blocks) = 0
        BY <1>6, WholeTyped DEF StreamInv
      <4> QED
        BY <4>1, EmptySeq DEF StreamInv, StreamTypes
    <3> QED
      BY <3>1
  <2> QED
    BY <1>3, <1>5, <2>1, <2>2, StreamLeft
<1>7. CASE calls # <<>>
  <2>1. /\ messages' = Append(messages, Message("assistant", calls))
        /\ step' = "tools" /\ UNCHANGED outcome
    BY <1>7 DEF TakeTurn
  <2>2. Len(calls) \in 1..MaxCalls
    BY <1>1, <1>7, EmptySeq
  <2>3. CallsIn(messages') = calls
    BY <2>1, <2>2, TurnTaken DEF Steps
  <2>4. outcome' # "answer"
    BY <2>1 DEF LoopInv, RoundsCount
  <2> QED
    BY <1>3, <1>5, <1>7, <2>1, <2>3, <2>4, StreamLeft
<1> QED
  BY <1>6, <1>7

LEMMA ClosedKeeps ==
  ASSUME LoopInv, StreamInv, ChannelClosed
  PROVE  LoopInv' /\ StreamInv'
<1>1. /\ step = "stream" /\ chunks = <<>> /\ producer = "ended" /\ TakeTurn(collected)
      /\ UNCHANGED <<callVars, iteration, attempt, at, tried, streamVars>>
  BY DEF ChannelClosed
<1>2. collected = <<>> /\ ending = "cut" /\ collected \in Seq(AllCalls)
  BY <1>1 DEF StreamInv, ChunksInOrder, StreamTypes
<1>3. /\ UNCHANGED <<producer, pending, blocks, ending>> /\ chunks' = <<>>
      /\ collected' \in Seq(AllCalls)
  BY <1>1, <1>2 DEF streamVars
<1> QED
  BY <1>1, <1>2, <1>3, LastTaken

LEMMA TakingKeeps ==
  ASSUME LoopInv, StreamInv, TakeChunk
  PROVE  LoopInv' /\ StreamInv'
<1> DEFINE c == chunks[1]
<1>1. /\ step = "stream" /\ chunks # <<>> /\ chunks' = Tail(chunks)
      /\ UNCHANGED <<callVars, iteration, attempt, at, tried, pending, producer, blocks, ending>>
  BY DEF TakeChunk
<1>2. chunks \in Seq(Chunk) /\ Len(chunks) \in Nat /\ Len(chunks) # 0 /\ 1 \in 1..Len(chunks)
  <2>1. chunks \in Seq(Chunk) /\ Len(chunks) \in Nat
    BY DEF StreamInv, StreamTypes
  <2>2. Len(chunks) # 0
    BY <1>1, <2>1, EmptySeq
  <2> QED
    BY <2>1, <2>2
<1>3. c \in Chunk /\ c.calls \in Seq(AllCalls)
  <2>1. c \in Chunk
    BY <1>2, ElementOfSeq
  <2> QED
    BY <2>1 DEF Chunk
<1>4. /\ Head(chunks) = c /\ Tail(chunks) \in Seq(Chunk) /\ Len(Tail(chunks)) = Len(chunks) - 1
      /\ \A i \in 1..(Len(chunks) - 1) : Tail(chunks)[i] = chunks[i + 1]
  BY <1>1, <1>2, HeadTailProperties
<1>5. collected' = c.calls
  <2>1. collected = <<>>
    BY <1>1 DEF StreamInv, ChunksInOrder
  <2> QED
    BY <1>3, <1>4, <2>1 DEF TakeChunk
<1>6. \/ Plain(c)
      \/ Len(chunks) = 1 /\ producer = "ended" /\ FinalOf(vendor, blocks, ending, c)
  BY <1>1, <1>2 DEF StreamInv, ChunksInOrder
<1>7. IF c.err THEN End("failed") /\ UNCHANGED <<messages, todo>>
      ELSE IF c.done THEN TakeTurn(c.calls)
      ELSE UNCHANGED <<step, outcome, messages, todo>>
  BY <1>4, <1>5 DEF TakeChunk
<1> HIDE DEF c
<1>8. Len(chunks) = 1 => chunks' = <<>>
  <2>1. Len(chunks) = 1 => Len(Tail(chunks)) = 0
    BY <1>4
  <2> QED
    BY <1>1, <1>4, <2>1, EmptySeq
<1>9. CASE c.err
  <2>1. Len(chunks) = 1 /\ producer = "ended" /\ chunks' = <<>> /\ End("failed")
        /\ UNCHANGED <<messages, todo>>
    BY <1>6, <1>7, <1>8, <1>9 DEF Plain
  <2>2. /\ attempt' \in 1..MaxAttempts /\ at' \in 1..chain
        /\ tried' \in [1..MaxProviders -> 0..MaxAttempts]
    BY <1>1 DEF LoopInv, LoopTypes
  <2>3. LoopInv'
    BY <1>1, <2>1, <2>2, EndKeeps
  <2>4. /\ UNCHANGED <<mode, vendor, producer, pending, blocks, ending>>
        /\ step' = "ended" /\ outcome' = "failed" /\ collected' \in Seq(AllCalls)
    BY <1>1, <1>3, <1>5, <2>1 DEF callVars, End
  <2> QED
    BY <2>1, <2>3, <2>4, StreamLeft
<1>10. CASE ~c.err /\ c.done
  <2>1. Len(chunks) = 1 /\ producer = "ended" /\ chunks' = <<>> /\ TakeTurn(c.calls)
    BY <1>6, <1>7, <1>8, <1>10 DEF Plain
  <2>2. \/ WholeOf(vendor, blocks, c.calls)
        \/ ending \in {"stop", "cut"} /\ c.calls = <<>>
    BY <1>6, <1>10, Zenon DEF Plain, FinalOf
  <2>3. c.calls \in Seq(AllCalls) /\ collected' \in Seq(AllCalls)
    BY <1>3, <1>5
  <2> QED
    BY <1>1, <2>1, <2>2, <2>3, LastTaken
<1>11. CASE ~c.err /\ ~c.done
  <2>1. Plain(c) /\ c.calls = <<>> /\ UNCHANGED <<step, outcome, messages, todo>>
    BY <1>6, <1>7, <1>11, Zenon DEF Plain, FinalOf
  <2>2. <<>> \in Seq(AllCalls) /\ Len(<<>>) = 0
    OBVIOUS
  <2>3. LoopInv'
    BY <1>1, <2>1, NothingMoves DEF loopVars
  <2>4. UNCHANGED <<mode, vendor, step, outcome, messages>> /\ collected' = <<>>
    BY <1>1, <1>5, <2>1 DEF callVars
  <2>5. StreamTypes'
    <3>1. Len(chunks') <= ChunkBuffer /\ chunks' \in Seq(Chunk)
      BY <1>1, <1>2, <1>4, ToolNumbers DEF StreamInv, StreamTypes
    <3> QED
      BY <1>1, <2>2, <2>4, <3>1 DEF StreamInv, StreamTypes
  <2>6. \A i \in 1..Len(chunks') :
          \/ Plain(chunks'[i])
          \/ i = Len(chunks') /\ producer = "ended" /\ FinalOf(vendor, blocks, ending, chunks'[i])
    <3> SUFFICES ASSUME NEW i \in 1..Len(chunks')
                 PROVE  \/ Plain(chunks'[i])
                        \/ /\ i = Len(chunks') /\ producer = "ended"
                           /\ FinalOf(vendor, blocks, ending, chunks'[i])
      OBVIOUS
    <3>1. i \in 1..(Len(chunks) - 1) /\ i + 1 \in 1..Len(chunks) /\ chunks'[i] = chunks[i + 1]
      BY <1>1, <1>2, <1>4
    <3>2. i + 1 = Len(chunks) => i = Len(chunks')
      <4>1. i \in Nat /\ Len(chunks') = Len(chunks) - 1
        BY <1>1, <1>2, <1>4, <3>1
      <4> QED
        BY <1>2, <4>1
    <3>3. \/ Plain(chunks[i + 1])
          \/ /\ i + 1 = Len(chunks) /\ producer = "ended"
             /\ FinalOf(vendor, blocks, ending, chunks[i + 1])
      BY <3>1 DEF StreamInv, ChunksInOrder
    <3> QED
      BY <3>1, <3>2, <3>3
  <2>7. producer = "ended" => ending = "cut" \/ (chunks' # <<>> /\ chunks'[Len(chunks')].done)
    <3> SUFFICES ASSUME producer = "ended", ending # "cut"
                 PROVE  chunks' # <<>> /\ chunks'[Len(chunks')].done
      OBVIOUS
    <3>1. chunks[Len(chunks)].done
      BY <1>1 DEF StreamInv, ChunksInOrder
    <3>2. Len(chunks) # 1
      BY <1>11, <3>1 DEF c
    <3>3. Len(chunks') = Len(chunks) - 1 /\ Len(chunks') \in 1..(Len(chunks) - 1)
      BY <1>1, <1>2, <1>4, <3>2
    <3>4. chunks'[Len(chunks')] = chunks[Len(chunks)]
      BY <1>1, <1>2, <1>4, <3>3
    <3>5. Len(<<>>) = 0
      OBVIOUS
    <3> QED
      BY <3>1, <3>3, <3>4, <3>5
  <2>8. ChunksInOrder'
    BY <1>1, <2>4, <2>6, <2>7 DEF StreamInv, ChunksInOrder
  <2>9. TakenWhole'
    <3>1. ~(step = "tools" \/ outcome = "answer")
      BY <1>1 DEF LoopInv, RoundsCount
    <3> QED
      BY <1>1, <2>4, <3>1, WholeIsAfter DEF StreamInv, TakenWhole
  <2> QED
    BY <2>3, <2>5, <2>8, <2>9 DEF StreamInv
<1> QED
  BY <1>9, <1>10, <1>11

-----------------------------------------------------------------------------
(* Every step.                                                             *)

ToolInv == LoopInv /\ StreamInv

LEMMA ToolStarts == ToolInit => ToolInv
BY LoopStarts, StreamStarts DEF ToolInv

LEMMA CallSteady == ToolInv /\ CallSteps => ToolInv'
<1> SUFFICES ASSUME LoopInv, StreamInv, CallSteps PROVE LoopInv' /\ StreamInv'
  BY DEF ToolInv
<1>1. ASSUME NEW failure \in Failures, ProviderFails(failure) PROVE LoopInv' /\ StreamInv'
  <2>1. /\ step = "call" /\ UNCHANGED <<streamVars, mode, vendor>>
        /\ step' \in {"call", "wait", "ended"}
    BY <1>1 DEF ProviderFails, callVars, End
  <2> QED
    BY <1>1, <2>1, FailKeeps, PlainCallStream
<1>2. CASE BackoffEnds
  <2>1. /\ step = "wait" /\ UNCHANGED <<streamVars, mode, vendor>>
        /\ step' \in {"call", "ended"}
    BY <1>2 DEF BackoffEnds, callVars, End
  <2> QED
    BY <1>2, <2>1, BackoffKeeps, PlainCallStream
<1>3. ASSUME NEW ts \in Turns, ProviderAnswers(ts) PROVE LoopInv' /\ StreamInv'
  <2>1. /\ step = "call" /\ UNCHANGED <<streamVars, mode, vendor>>
        /\ step' \in {"tools", "ended"}
    BY <1>3 DEF ProviderAnswers, TakeTurn, callVars, End
  <2> QED
    BY <1>3, <2>1, AnswerKeeps, PlainCallStream
<1>4. CASE RunTool
  BY <1>4, ToolKeeps, ToolStream
<1>5. CASE NextIteration
  BY <1>5, IterationKeeps, IterationStream
<1>6. CASE OpenStream
  BY <1>6, OpeningKeeps, OpenStreams
<1> QED
  BY <1>1, <1>2, <1>3, <1>4, <1>5, <1>6 DEF CallSteps

LEMMA ProducerSteady ==
  ASSUME ToolInv,
         \/ SendChunk \/ DropChunk \/ ReadText \/ ReadLast \/ ReadEnd \/ ReadFails
         \/ \E t \in Tools : ReadBlock(t)
  PROVE  ToolInv'
<1>1. LoopInv /\ StreamInv
  BY DEF ToolInv
<1>2. UNCHANGED <<callVars, loopVars>>
  BY DEF SendChunk, DropChunk, ReadText, ReadBlock, ReadLast, ReadEnd, ReadFails
<1>3. LoopInv'
  BY <1>1, <1>2, NothingMoves
<1>4. StreamInv'
  BY <1>1, SentKeeps, DropKeeps, TextKeeps, LastKeeps, CutKeeps, BreakKeeps, BlockKeeps
<1> QED
  BY <1>3, <1>4 DEF ToolInv

LEMMA ToolSteady == ToolInv /\ [ToolNext]_toolVars => ToolInv'
<1> SUFFICES ASSUME ToolInv, [ToolNext]_toolVars PROVE ToolInv'
  OBVIOUS
<1>1. LoopInv /\ StreamInv
  BY DEF ToolInv
<1>2. ASSUME NEW m \in Modes, NEW v \in Vendors, NEW w \in Vendors, NEW n \in 1..MaxProviders,
             StartCall(m, v, w, n)
      PROVE  ToolInv'
  BY <1>1, <1>2, StartKeeps, StartStream DEF ToolInv
<1>3. CASE RefuseCall
  <2>1. step = "idle" /\ End("refused") /\ UNCHANGED streamVars
        /\ UNCHANGED <<callVars, messages, iteration, attempt, at, tried, todo>>
    BY <1>3 DEF RefuseCall
  <2>2. attempt' \in 1..MaxAttempts /\ at' \in 1..chain
        /\ tried' \in [1..MaxProviders -> 0..MaxAttempts]
    BY <1>1, <2>1 DEF LoopInv, LoopTypes
  <2>3. LoopInv'
    BY <1>1, <2>1, <2>2, EndKeeps
  <2>4. UNCHANGED <<streamVars, mode, vendor>> /\ step' = "ended" /\ outcome' = "refused"
    BY <2>1 DEF callVars, End
  <2> QED
    BY <1>1, <2>3, <2>4, EndsElsewhere DEF ToolInv
<1>4. CASE CancelCall \/ ToolHangs \/ UNCHANGED toolVars
  <2>1. UNCHANGED <<callVars, loopVars, streamVars>>
    BY <1>4 DEF CancelCall, ToolHangs, toolVars
  <2>2. UNCHANGED <<streamVars, mode, vendor, step, outcome, messages>>
    BY <2>1 DEF callVars, loopVars
  <2> QED
    BY <1>1, <2>1, <2>2, NothingMoves, QuietStreamStays DEF ToolInv
<1>5. CASE CallSteps
  BY <1>5, CallSteady
<1>6. CASE TakeChunk \/ ChannelClosed
  BY <1>1, <1>6, TakingKeeps, ClosedKeeps DEF ToolInv
<1>7. CASE ToolReturns
  BY <1>1, <1>7, ToolKeeps, ToolStream DEF ToolInv
<1> QED
  BY <1>2, <1>3, <1>4, <1>5, <1>6, <1>7, ProducerSteady DEF ToolNext, StreamSteps

FlagsTyped == cancelled \in BOOLEAN /\ hangs \in BOOLEAN

LEMMA FlagsStay ==
  ASSUME FlagsTyped, [ToolNext]_toolVars
  PROVE  FlagsTyped'
<1> USE DEF FlagsTyped
<1>1. CASE UNCHANGED toolVars
  BY <1>1, Zenon DEF toolVars, waitVars
<1>2. CASE ToolNext
  <2>1. CASE CallSteps
    BY <2>1, Zenon DEF CallSteps, ProviderFails, BackoffEnds, ProviderAnswers, RunTool,
                       NextIteration, OpenStream, waitVars
  <2>2. CASE StreamSteps
    BY <2>2, Zenon DEF StreamSteps, TakeChunk, ChannelClosed, SendChunk, DropChunk, waitVars
  <2>3. CASE CancelCall \/ ToolHangs \/ ToolReturns
    BY <2>3 DEF CancelCall, ToolHangs, ToolReturns
  <2> QED
    BY <1>2, <2>1, <2>2, <2>3, Zenon DEF ToolNext, StartCall, RefuseCall, ReadText, ReadBlock,
                                         ReadLast, ReadEnd, ReadFails, waitVars
<1> QED
  BY <1>1, <1>2

LEMMA ToolTyped ==
  ASSUME ToolInv, FlagsTyped
  PROVE  ToolTypeOK
<1>1. Seq(MessageType) = Seq([role : {"user", "assistant", "tool"}, calls : Seq(AllCalls)])
  BY DEF MessageType
<1>2. messages \in Seq([role : {"user", "assistant", "tool"}, calls : Seq(AllCalls)])
  BY <1>1 DEF ToolInv, LoopInv, LoopTypes
<1> QED
  BY <1>2 DEF FlagsTyped, ToolInv, LoopInv, LoopTypes, StreamInv, StreamTypes, ToolTypeOK

-----------------------------------------------------------------------------
(* Requests.                                                               *)

\* Every call has its result by the time of a request.
LEMMA AllFollowed ==
  ASSUME NEW ms \in Seq(MessageType), WellFormed(ms), AllAnswered(ms),
         NEW i \in TurnsOf(ms), NEW k \in 1..Len(ms[i].calls)
  PROVE  i + k \in 1..Len(ms) /\ ms[i + k] = Result(ms[i].calls[k])
<1>1. /\ Len(ms) \in Nat /\ TurnsOf(ms) \subseteq 1..Len(ms)
      /\ \A j \in 1..Len(ms) : Len(ms[j].calls) \in Nat
  BY MessagesAre
<1>2. i \in Nat /\ k \in Nat /\ i >= 1 /\ k >= 1 /\ Len(ms[i].calls) \in Nat
      /\ k <= Len(ms[i].calls)
  BY <1>1
<1>3. PICK last \in TurnsOf(ms) : Through(ms, last, Len(ms[last].calls))
  BY DEF AllAnswered
<1>4. i + k <= Len(ms)
  <2>1. last \in Nat /\ Len(ms[last].calls) \in Nat
    BY <1>1
  <2>2. Len(ms) = last + Len(ms[last].calls)
        /\ \A j \in TurnsOf(ms) \ {last} : j + Len(ms[j].calls) < last
    BY <1>3 DEF Through
  <2>3. CASE i = last
    BY <1>2, <2>1, <2>2, <2>3
  <2>4. CASE i # last
    BY <1>1, <1>2, <2>1, <2>2, <2>4
  <2> QED
    BY <2>3, <2>4
<1>5. ms[i + k] = Result(ms[i].calls[k])
  BY <1>4 DEF WellFormed
<1> QED
  BY <1>1, <1>2, <1>4, <1>5

LEMMA ResultIs ==
  ASSUME NEW one
  PROVE  /\ Result(one).role = "tool" /\ Ids(Result(one)) = <<one.id>>
         /\ Len(Ids(Result(one))) = 1
<1> DEFINE m == Result(one)
<1>1. m.role = "tool" /\ m.calls = <<one>>
  BY DEF Result, Message
<1>2. DOMAIN <<one>> = {1} /\ <<one>>[1] = one
  OBVIOUS
<1> HIDE DEF m
<1>3. Ids(m) = [j \in {1} |-> one.id]
  BY <1>1, <1>2 DEF Ids
<1>4. [j \in {1} |-> one.id] = <<one.id>>
  OBVIOUS
<1> QED
  BY <1>1, <1>3, <1>4 DEF m

\* What a vendor gets of each message.
SentAs(v, m, r) ==
  /\ m.role = "tool" =>
       /\ r.calls = <<>> /\ Len(r.results) = 1
       /\ v # "ollama" => r.results = Ids(m)
  /\ m.role = "assistant" =>
       /\ DOMAIN r.calls = DOMAIN m.calls /\ r.results = <<>>
       /\ v \in {"openai", "anthropic", "cohere"} =>
            \A k \in DOMAIN m.calls : r.calls[k] = m.calls[k].id
       /\ v = "gemini" => \A k \in DOMAIN m.calls : r.calls[k] = Name(m.calls[k].tool)
  /\ m.role = "user" => DOMAIN r.calls = {} /\ r.results = <<>>

LEMMA RequestIs ==
  ASSUME LoopInv, step \in {"call", "open"}, NEW v \in Vendors, v # "ollama" \/ step = "open"
  PROVE  /\ DOMAIN Request(v) = 1..Len(messages)
         /\ \A i \in 1..Len(messages) : SentAs(v, messages[i], Request(v)[i])
<1>1. messages \in Seq(MessageType) /\ WellFormed(messages) /\ AllAnswered(messages)
  BY DEF LoopInv, LoopTypes, TurnsCount, Steps
<1>2. DOMAIN messages = 1..Len(messages)
  BY <1>1
<1>3. ASSUME NEW i \in 1..Len(messages)
      PROVE  SentAs(v, messages[i], Request(v)[i])
  <2> DEFINE m == messages[i]
  <2>1. m \in MessageType
    BY <1>1, MessagesAre
  <2>2. m.role = "tool" => Len(Ids(m)) = 1
    <3> SUFFICES ASSUME m.role = "tool" PROVE Len(Ids(m)) = 1
      OBVIOUS
    <3>1. PICK j \in TurnsOf(messages) : \E k \in 1..Len(messages[j].calls) : i = j + k
      BY <1>1 DEF WellFormed
    <3>2. PICK k \in 1..Len(messages[j].calls) : i = j + k
      BY <3>1
    <3>3. m = Result(messages[j].calls[k])
      BY <1>1, <3>2, AllFollowed
    <3> QED
      BY <3>3, ResultIs
  <2>3. m.role = "user" => m.calls = <<>>
    BY <1>1 DEF WellFormed
  <2>4. Request(v)[i] =
          CASE v \in {"openai", "anthropic"} -> Carries(Made(m, Ids(m)), Answered(m, Ids(m)))
            [] v = "gemini" -> Carries(Made(m, Names(m)), Answered(m, Ids(m)))
            [] v = "ollama" -> Carries(Made(m, Names(m)), Nameless(m))
            [] v = "cohere" -> Carries(IF m.role = "assistant" THEN Ids(m) ELSE <<>>,
                                       Answered(m, Ids(m)))
    BY <1>2 DEF Request, OpenAIStreamMessage, OpenAIMessage, AnthropicStreamMessage,
                AnthropicMessage, GeminiStreamMessage, GeminiMessage, OllamaStreamMessage,
                CohereMessage, Vendors, Streamers
  <2>5. /\ DOMAIN Ids(m) = DOMAIN m.calls /\ DOMAIN Names(m) = DOMAIN m.calls
        /\ \A k \in DOMAIN m.calls : Ids(m)[k] = m.calls[k].id
        /\ \A k \in DOMAIN m.calls : Names(m)[k] = Name(m.calls[k].tool)
    BY DEF Ids, Names
  <2>6. DOMAIN <<>> = {} /\ Len(<<Name("none")>>) = 1
    OBVIOUS
  <2> DEFINE ids == Ids(m)
  <2> DEFINE names == Names(m)
  <2> DEFINE r == Request(v)[i]
  <2> SUFFICES SentAs(v, m, r)
    OBVIOUS
  <2>7. CASE m.role = "tool"
    <3>1. r.calls = <<>> /\ r.results = IF v = "ollama" THEN <<Name("none")>> ELSE ids
      BY <2>4, <2>7 DEF Carries, Made, Answered, Nameless, Vendors, Streamers
    <3> HIDE DEF m, ids, r
    <3> QED
      BY <2>2, <2>6, <2>7, <3>1 DEF SentAs, ids
  <2>8. CASE m.role = "assistant"
    <3>1. /\ r.calls = IF v \in {"gemini", "ollama"} THEN names ELSE ids
          /\ r.results = <<>>
      BY <2>4, <2>8 DEF Carries, Made, Answered, Nameless, Vendors, Streamers
    <3> HIDE DEF m, ids, names, r
    <3> QED
      BY <2>5, <2>8, <3>1 DEF SentAs, ids, names
  <2>9. CASE m.role = "user"
    <3>1. /\ r.calls = IF v \in {"gemini", "ollama"} THEN names
                       ELSE IF v = "cohere" THEN <<>> ELSE ids
          /\ r.results = <<>>
      BY <2>4, <2>9 DEF Carries, Made, Answered, Nameless, Vendors, Streamers
    <3> HIDE DEF m, ids, names, r
    <3> QED
      BY <2>3, <2>5, <2>6, <2>9, <3>1 DEF SentAs, ids, names
  <2> QED
    BY <2>1, <2>7, <2>8, <2>9 DEF MessageType
<1> QED
  BY <1>2, <1>3 DEF Request

LEMMA ResultsFound == LoopInv => ResultsFindTheirCalls
<1> SUFFICES ASSUME LoopInv, step \in {"call", "open"}
             PROVE  LET v == VendorAt(at) IN
                      /\ v # "ollama" \/ step = "open" => ResultsFollow(Request(v))
                      /\ \/ v \in {"openai", "anthropic", "cohere"}
                         \/ v = "gemini" /\ spare = vendor
                         => SameIdentities(Request(v))
  BY DEF ResultsFindTheirCalls
<1> DEFINE v == VendorAt(at)
<1>1. messages \in Seq(MessageType) /\ WellFormed(messages) /\ AllAnswered(messages)
  BY DEF LoopInv, LoopTypes, TurnsCount, Steps
<1>2. v \in Vendors
  BY DEF LoopInv, LoopTypes, VendorAt
<1>3. v = "gemini" /\ spare = vendor => vendor = "gemini" /\ spare = "gemini"
  BY DEF VendorAt
<1> HIDE DEF v
<1>4. \A i \in 1..Len(messages) : messages[i] \in MessageType
                                  /\ DOMAIN messages[i].calls = 1..Len(messages[i].calls)
  <2> TAKE i \in 1..Len(messages)
  <2>1. messages[i] \in MessageType /\ messages[i].calls \in Seq(AllCalls)
    BY <1>1, MessagesAre
  <2> QED
    BY <2>1
<1>5. DOMAIN messages = 1..Len(messages) /\ Len(messages) \in Nat
  BY <1>1
<1>6. ASSUME v # "ollama" \/ step = "open"
      PROVE  /\ ResultsFollow(Request(v))
             /\ v \in {"openai", "anthropic", "cohere"} \/ (v = "gemini" /\ spare = vendor)
                  => SameIdentities(Request(v))
  <2> DEFINE r == Request(v)
  <2>1. DOMAIN r = 1..Len(messages) /\ \A i \in 1..Len(messages) : SentAs(v, messages[i], r[i])
    BY <1>2, <1>6, RequestIs
  <2> HIDE DEF r
  <2>2. ASSUME NEW i \in DOMAIN r, NEW k \in DOMAIN r[i].calls
        PROVE  /\ i \in TurnsOf(messages) /\ k \in 1..Len(messages[i].calls)
               /\ i + k \in 1..Len(messages)
               /\ messages[i + k] = Result(messages[i].calls[k])
    <3>1. SentAs(v, messages[i], r[i]) /\ i \in 1..Len(messages) /\ messages[i] \in MessageType
      BY <1>4, <2>1
    <3>2. DOMAIN <<>> = {}
      OBVIOUS
    <3>3. messages[i].role = "assistant" /\ k \in DOMAIN messages[i].calls
      BY <2>2, <3>1, <3>2 DEF SentAs, MessageType
    <3>4. i \in TurnsOf(messages) /\ k \in 1..Len(messages[i].calls)
      BY <1>4, <1>5, <3>1, <3>3 DEF TurnsOf
    <3> QED
      BY <1>1, <3>4, AllFollowed
  <2>3. ASSUME NEW i \in DOMAIN r, NEW k \in DOMAIN r[i].calls
        PROVE  i + k \in DOMAIN r /\ Len(r[i + k].results) = 1
    <3>1. i + k \in 1..Len(messages) /\ messages[i + k].role = "tool"
      BY <2>2, <2>3, ResultIs
    <3> QED
      BY <2>1, <3>1 DEF SentAs
  <2>4. ASSUME NEW j \in DOMAIN r, r[j].results # <<>>
        PROVE  \E i \in DOMAIN r : \E k \in DOMAIN r[i].calls : j = i + k
    <3>1. SentAs(v, messages[j], r[j]) /\ j \in 1..Len(messages) /\ messages[j] \in MessageType
      BY <1>4, <2>1
    <3>2. messages[j].role = "tool"
      BY <2>4, <3>1 DEF SentAs, MessageType
    <3>3. PICK i \in TurnsOf(messages) : \E k \in 1..Len(messages[i].calls) : j = i + k
      BY <1>1, <3>1, <3>2 DEF WellFormed
    <3>4. i \in 1..Len(messages) /\ messages[i].role = "assistant"
      BY <1>5 DEF TurnsOf
    <3>5. DOMAIN r[i].calls = 1..Len(messages[i].calls) /\ i \in DOMAIN r
      BY <1>4, <2>1, <3>4 DEF SentAs
    <3> QED
      BY <3>3, <3>5
  <2>5. ResultsFollow(r)
    BY <2>3, <2>4 DEF ResultsFollow
  <2>6. ASSUME v \in {"openai", "anthropic", "cohere"} \/ (v = "gemini" /\ spare = vendor),
               NEW i \in DOMAIN r, NEW k \in DOMAIN r[i].calls
        PROVE  r[i + k].results = <<r[i].calls[k]>>
    <3> DEFINE one == messages[i].calls[k]
    <3>1. /\ i \in TurnsOf(messages) /\ k \in 1..Len(messages[i].calls)
          /\ i + k \in 1..Len(messages) /\ messages[i + k] = Result(one)
      BY <2>2
    <3>2. i \in 1..Len(messages) /\ messages[i].role = "assistant"
      BY <1>5, <3>1 DEF TurnsOf
    <3>3. k \in DOMAIN messages[i].calls
      BY <1>4, <3>1, <3>2
    <3> HIDE DEF one
    <3>4. r[i + k].results = <<one.id>>
      <4>1. messages[i + k].role = "tool" /\ Ids(messages[i + k]) = <<one.id>>
        BY <3>1, ResultIs
      <4>2. v # "ollama" /\ SentAs(v, messages[i + k], r[i + k])
        BY <2>1, <2>6, <3>1
      <4> QED
        BY <4>1, <4>2 DEF SentAs
    <3>5. r[i].calls[k] = one.id
      <4>1. SentAs(v, messages[i], r[i])
        BY <2>1, <3>2
      <4>2. CASE v # "gemini"
        BY <2>6, <3>2, <3>3, <4>1, <4>2 DEF SentAs, one
      <4>3. CASE v = "gemini"
        <5>1. one.id = Name(one.tool)
          BY <1>3, <2>6, <3>1, <4>3 DEF LoopInv, AllByName, one
        <5> QED
          BY <3>2, <3>3, <4>1, <4>3, <5>1 DEF SentAs, one
      <4> QED
        BY <4>2, <4>3
    <3> QED
      BY <3>4, <3>5
  <2> QED
    BY <2>5, <2>6 DEF SameIdentities, r
<1> QED
  BY <1>6 DEF v

-----------------------------------------------------------------------------
(* What is owed to the vendor.                                             *)

OwedIn(ms) ==
  LET results == SubSeq(ms, LastIn(ms) + 1, Len(ms))
      inOrder == {n \in 0..Len(results) : n <= Len(CallsIn(ms)) /\
                    \A i \in 1..n : results[i].calls = <<CallsIn(ms)[i]>>}
  IN IF TurnsOf(ms) = {} THEN <<>>
     ELSE SubSeq(CallsIn(ms), 1 + (CHOOSE n \in inOrder : \A k \in inOrder : k <= n),
                 Len(CallsIn(ms)))

SpeakerAt(s) ==
  CASE s = "idle" -> "nobody" [] s = "ended" -> "nobodyMore"
    [] s = "tools" -> "tools" [] OTHER -> "model"

LEMMA OwedIs ==
  /\ Unanswered = OwedIn(messages)
  /\ Unanswered' = OwedIn(messages')
<1>1. Calls = CallsIn(messages) /\ LastTurn = LastIn(messages)
  BY DEF Calls, LastTurn, CallsIn, LastIn
<1>2. Calls' = CallsIn(messages') /\ LastTurn' = LastIn(messages')
  BY DEF Calls, LastTurn, CallsIn, LastIn
<1> HIDE DEF Calls, LastTurn
<1>3. Unanswered = OwedIn(messages)
  BY <1>1 DEF Unanswered, OwedIn, TurnsOf
<1>4. Unanswered' = OwedIn(messages')
  BY <1>2 DEF Unanswered, OwedIn, TurnsOf
<1> QED
  BY <1>3, <1>4

\* The calls that have no results are the last ones of the last turn.
LEMMA OwedAfter ==
  ASSUME NEW ms \in Seq(MessageType), WellFormed(ms), NEW i \in TurnsOf(ms), NEW n \in Nat,
         Through(ms, i, n)
  PROVE  OwedIn(ms) = SubSeq(ms[i].calls, n + 1, Len(ms[i].calls))
<1> DEFINE calls == ms[i].calls
<1> DEFINE results == SubSeq(ms, i + 1, Len(ms))
<1> DEFINE inOrder == {m \in 0..Len(results) : m <= Len(calls) /\
                         \A k \in 1..m : results[k].calls = <<calls[k]>>}
<1>1. LastIn(ms) = i /\ CallsIn(ms) = calls
  BY LastIs DEF Through
<1>2. i \in 1..Len(ms) /\ Len(ms) \in Nat /\ Len(calls) \in Nat /\ Len(ms) = i + n
      /\ n <= Len(calls)
  BY MessagesAre DEF Through
<1>3. Len(results) = n /\ \A k \in 1..n : results[k] = ms[i + k]
  <2>1. i + 1 \in Nat /\ i + 1 \in 1..(Len(ms) + 1) /\ Len(ms) - (i + 1) + 1 = n
    BY <1>2
  <2>2. /\ results \in Seq(MessageType) /\ Len(results) = Len(ms) - (i + 1) + 1
        /\ \A k \in 1..(Len(ms) - (i + 1) + 1) : results[k] = ms[(i + 1) + k - 1]
    BY <1>2, <2>1, SubSeqProperties
  <2>3. ASSUME NEW k \in 1..n PROVE results[k] = ms[i + k]
    <3>1. (i + 1) + k - 1 = i + k
      BY <1>2
    <3>2. results[k] = ms[(i + 1) + k - 1]
      BY <2>1, <2>2
    <3> QED
      BY <3>1, <3>2
  <2> QED
    BY <2>1, <2>2, <2>3
<1>4. \A k \in 1..n : results[k].calls = <<calls[k]>>
  <2> TAKE k \in 1..n
  <2>1. k \in 1..Len(calls) /\ i + k <= Len(ms)
    BY <1>2
  <2>2. ms[i + k] = Result(calls[k])
    BY <2>1 DEF WellFormed
  <2>3. Result(calls[k]).calls = <<calls[k]>>
    BY DEF Result, Message
  <2> QED
    BY <1>3, <2>2, <2>3
<1> HIDE DEF calls, results
<1>5. n \in inOrder /\ \A k \in inOrder : k <= n
  BY <1>2, <1>3, <1>4
<1>6. (CHOOSE m \in inOrder : \A k \in inOrder : k <= m) = n
  <2>1. \A m \in inOrder : (\A k \in inOrder : k <= m) => m = n
    BY <1>3, <1>5
  <2> QED
    BY <1>5, <2>1
<1>7. TurnsOf(ms) # {} /\ 1 + n = n + 1
  OBVIOUS
<1> QED
  BY <1>1, <1>6, <1>7 DEF OwedIn, results, calls

\* Nothing is owed when the model speaks, and from call td on when the tools run.
OwedForm(st, ms, td) ==
  /\ st \in Steps \cup {"idle"} => OwedIn(ms) = <<>>
  /\ st = "tools" => \E i \in TurnsOf(ms) :
       Through(ms, i, td - 1) /\ OwedIn(ms) = SubSeq(ms[i].calls, td, Len(ms[i].calls))

LEMMA OwedHolds ==
  ASSUME NEW st, NEW ms \in Seq(MessageType), NEW td \in Nat, WellFormed(ms),
         st = "idle" => ms = <<>>,
         st \in Steps => AllAnswered(ms),
         st = "tools" => \E i \in TurnsOf(ms) : Through(ms, i, td - 1)
  PROVE  OwedForm(st, ms, td)
<1>1. ASSUME st \in Steps \cup {"idle"} PROVE OwedIn(ms) = <<>>
  <2>1. CASE TurnsOf(ms) = {}
    BY <2>1 DEF OwedIn
  <2>2. ASSUME NEW i \in TurnsOf(ms), Through(ms, i, Len(ms[i].calls))
        PROVE  OwedIn(ms) = <<>>
    <3> DEFINE n == Len(ms[i].calls)
    <3>1. n \in Nat /\ ms[i].calls \in Seq(AllCalls)
      BY MessagesAre
    <3>2. OwedIn(ms) = SubSeq(ms[i].calls, n + 1, n)
      BY <2>2, <3>1, OwedAfter
    <3>3. SubSeq(ms[i].calls, n + 1, n) = <<>>
      <4> HIDE DEF n
      <4> QED
        BY <3>1, SubSeqEmpty
    <3> QED
      BY <3>2, <3>3
  <2>3. st = "idle" => TurnsOf(ms) = {}
    BY DEF TurnsOf
  <2> QED
    BY <1>1, <2>1, <2>2, <2>3 DEF AllAnswered
<1>2. ASSUME st = "tools"
      PROVE  \E i \in TurnsOf(ms) :
               Through(ms, i, td - 1) /\ OwedIn(ms) = SubSeq(ms[i].calls, td, Len(ms[i].calls))
  <2>1. PICK i \in TurnsOf(ms) : Through(ms, i, td - 1)
    BY <1>2
  <2>2. td - 1 \in Nat /\ td - 1 + 1 = td
    <3>1. Len(ms[i].calls) \in Nat
      BY MessagesAre
    <3> QED
      BY <2>1, <3>1 DEF Through
  <2> DEFINE n == td - 1
  <2> HIDE DEF n
  <2>3. n \in Nat /\ n + 1 = td /\ Through(ms, i, n)
    BY <2>1, <2>2 DEF n
  <2>4. OwedIn(ms) = SubSeq(ms[i].calls, n + 1, Len(ms[i].calls))
    BY <2>3, OwedAfter
  <2> QED
    BY <2>1, <2>3, <2>4
<1> QED
  BY <1>1, <1>2 DEF OwedForm

LEMMA OwedNow == LoopInv => OwedForm(step, messages, todo)
<1> SUFFICES ASSUME LoopInv PROVE OwedForm(step, messages, todo)
  OBVIOUS
<1>1. messages \in Seq(MessageType) /\ todo \in Nat /\ WellFormed(messages)
  BY ToolNumbers DEF LoopInv, LoopTypes, TurnsCount
<1>2. /\ step = "idle" => messages = <<>>
      /\ step \in Steps => AllAnswered(messages)
      /\ step = "tools" => \E i \in TurnsOf(messages) : Through(messages, i, todo - 1)
  BY DEF LoopInv, RoundsCount, TurnsCount
<1> QED
  BY <1>1, <1>2, OwedHolds

LEMMA OwedThen == LoopInv' => OwedForm(step', messages', todo')
<1> SUFFICES ASSUME LoopInv' PROVE OwedForm(step', messages', todo')
  OBVIOUS
<1>1. messages' \in Seq(MessageType) /\ todo' \in Nat /\ WellFormed(messages')
  BY ToolNumbers DEF LoopInv, LoopTypes, TurnsCount
<1>2. /\ step' = "idle" => messages' = <<>>
      /\ step' \in Steps => AllAnswered(messages')
      /\ step' = "tools" => \E i \in TurnsOf(messages') : Through(messages', i, todo' - 1)
  BY DEF LoopInv, RoundsCount, TurnsCount
<1> QED
  BY <1>1, <1>2, OwedHolds

-----------------------------------------------------------------------------
(* The steps of the dialogue.                                              *)

Unheard == UNCHANGED messages /\ SpeakerAt(step') = SpeakerAt(step) /\ step # "ended"

LEMMA QuietStutters ==
  ASSUME Unheard
  PROVE  [Dialogue!DialogueNext]_(Dialogue!dialogueVars)
<1>1. step' # "ended"
  BY DEF Unheard, SpeakerAt
<1>2. Unanswered' = Unanswered
  BY OwedIs DEF Unheard
<1>3. UNCHANGED Dialogue!dialogueVars
  BY <1>1, <1>2 DEF Dialogue!dialogueVars, Unheard, SpeakerAt
<1> QED
  BY <1>3

LEMMA EndCloses ==
  ASSUME step' = "ended", UNCHANGED messages
  PROVE  Dialogue!DialogueNext
<1>1. Dialogue!Close
  BY DEF Dialogue!Close
<1> QED
  BY <1>1 DEF Dialogue!DialogueNext

LEMMA StartOpens ==
  ASSUME LoopInv, NEW m \in Modes, NEW v \in Vendors, NEW w \in Vendors,
         NEW n \in 1..MaxProviders, StartCall(m, v, w, n)
  PROVE  Dialogue!DialogueNext
<1>1. /\ step = "idle" /\ step' \in {"open", "call"} /\ messages = <<>>
      /\ messages' = <<Message("user", <<>>)>>
  BY DEF StartCall, Asking, LoopInv, RoundsCount
<1>2. Unanswered = <<>>
  BY <1>1, OwedNow, OwedIs DEF OwedForm
<1>3. LoopInv'
  BY StartKeeps
<1>4. Unanswered' = <<>>
  BY <1>1, <1>3, OwedThen, OwedIs DEF OwedForm, Steps
<1>5. TurnsOf(messages) = {} /\ TurnsOf(messages') = {}
  <2> DEFINE first == Message("user", <<>>)
  <2>1. first.role = "user"
    BY DEF Message
  <2> HIDE DEF first
  <2>2. DOMAIN messages' = 1..1 /\ messages'[1] = first
    BY <1>1 DEF first
  <2> QED
    BY <1>1, <2>1, <2>2 DEF TurnsOf
<1>6. Dialogue!Open
  BY <1>1, <1>2, <1>4, <1>5 DEF Dialogue!Open, TurnsOf
<1> QED
  BY <1>6 DEF Dialogue!DialogueNext

LEMMA TurnCalls ==
  ASSUME LoopInv, LoopInv', step \in Steps, NEW calls \in Seq(AllCalls), TakeTurn(calls),
         UNCHANGED iteration
  PROVE  Dialogue!DialogueNext
<1>1. CASE calls = <<>>
  BY <1>1, EndCloses DEF TakeTurn, End
<1>2. CASE calls # <<>>
  <2>1. step' = "tools" /\ todo' = 1
    BY <1>2 DEF TakeTurn
  <2>2. PICK i \in TurnsOf(messages') :
          OwedIn(messages') = SubSeq(messages'[i].calls, 1, Len(messages'[i].calls))
    BY <2>1, OwedThen DEF OwedForm
  <2>3. messages' \in Seq(MessageType) /\ WellFormed(messages')
    BY DEF LoopInv, LoopTypes, TurnsCount
  <2>4. messages'[i].calls \in Seq(AllCalls) /\ Len(messages'[i].calls) \in 1..MaxCalls
    <3>1. Len(messages'[i].calls) \in 1..MaxCalls
      BY <2>3 DEF WellFormed
    <3>2. messages'[i].calls \in Seq(AllCalls)
      <4> DEFINE ms == messages'
      <4> HIDE DEF ms
      <4>1. ms \in Seq(MessageType) /\ i \in TurnsOf(ms)
        BY <2>3 DEF ms
      <4>2. ms[i].calls \in Seq(AllCalls)
        BY <4>1, MessagesAre
      <4> QED
        BY <4>2 DEF ms
    <3> QED
      BY <3>1, <3>2
  <2>5. Unanswered' \in Seq(AllCalls) \ {<<>>}
    <3> DEFINE s == messages'[i].calls
    <3>1. s \in Seq(AllCalls) /\ Len(s) \in Nat /\ Len(s) # 0
      BY <2>4, ToolNumbers
    <3>2. Unanswered' = SubSeq(s, 1, Len(s))
      BY <2>2, OwedIs
    <3> HIDE DEF s
    <3>3. SubSeq(s, 1, Len(s)) = s
      BY <3>1
    <3> QED
      BY <3>1, <3>2, <3>3, EmptySeq
  <2>6. /\ Cardinality(TurnsOf(messages)) = iteration - 1
        /\ Cardinality(TurnsOf(messages')) = iteration
        /\ iteration \in 1..MaxIterations
    BY <2>1 DEF LoopInv, LoopTypes, TurnsCount
  <2>7. /\ Cardinality(TurnsOf(messages)) < MaxIterations
        /\ Cardinality(TurnsOf(messages')) = Cardinality(TurnsOf(messages)) + 1
    BY <2>6, ToolNumbers
  <2>8. Dialogue!CallTools
    BY <2>1, <2>5, <2>7 DEF Dialogue!CallTools, TurnsOf, Steps
  <2> QED
    BY <2>8 DEF Dialogue!DialogueNext
<1> QED
  BY <1>1, <1>2

LEMMA ToolAnswers ==
  ASSUME LoopInv, LoopInv', RunTool \/ ToolReturns
  PROVE  Dialogue!DialogueNext
<1>1. step = "tools" /\ todo <= Len(Calls) /\ UNCHANGED iteration
  BY DEF RunTool, ToolReturns
<1>2. CASE End("cancelled") /\ UNCHANGED messages
  BY <1>2, EndCloses DEF End
<1>3. CASE ToolResult(Calls[todo]) /\ todo' = todo + 1 /\ UNCHANGED step
  <2>1. messages \in Seq(MessageType) /\ WellFormed(messages) /\ todo \in 0..(MaxCalls + 1)
    BY <1>1 DEF LoopInv, LoopTypes, TurnsCount
  <2>2. PICK i \in TurnsOf(messages) :
          /\ Through(messages, i, todo - 1)
          /\ OwedIn(messages) = SubSeq(messages[i].calls, todo, Len(messages[i].calls))
    BY <1>1, OwedNow DEF OwedForm
  <2> DEFINE calls == messages[i].calls
  <2>3. /\ Calls = calls /\ calls \in Seq(AllCalls) /\ Len(calls) \in 1..MaxCalls
        /\ i \in 1..Len(messages)
    <3>1. Calls = calls
      BY <2>1, <2>2, LastTurnIs DEF Through
    <3>2. calls \in Seq(AllCalls) /\ i \in 1..Len(messages)
      BY <2>1, MessagesAre
    <3> QED
      BY <2>1, <3>1, <3>2 DEF WellFormed
  <2>4. todo \in 1..Len(calls)
    <3>1. todo - 1 \in 0..Len(calls)
      BY <2>2 DEF Through
    <3> QED
      BY <1>1, <2>1, <2>3, <3>1, ToolNumbers
  <2> DEFINE n == todo - 1
  <2>5. n \in Nat /\ n < Len(calls) /\ n + 1 = todo /\ Through(messages, i, n)
    BY <2>2, <2>3, <2>4, ToolNumbers
  <2> HIDE DEF n
  <2> DEFINE new == Append(messages, Result(calls[n + 1]))
  <2>6. messages' = new
    BY <1>3, <2>3, <2>5 DEF ToolResult, Result
  <2>7. /\ new \in Seq(MessageType) /\ WellFormed(new) /\ Through(new, i, n + 1)
        /\ TurnsOf(new) = TurnsOf(messages) /\ new[i] = messages[i]
    BY <2>1, <2>3, <2>5, AddResult
  <2> HIDE DEF new
  <2>8. OwedIn(new) = SubSeq(calls, todo + 1, Len(calls))
    <3>1. i \in TurnsOf(new) /\ todo \in Nat /\ Through(new, i, todo)
      BY <2>3, <2>4, <2>5, <2>7, ToolNumbers
    <3>2. OwedIn(new) = SubSeq(new[i].calls, todo + 1, Len(new[i].calls))
      BY <2>7, <3>1, OwedAfter
    <3> QED
      BY <2>7, <3>2
  <2>9. /\ Unanswered = SubSeq(calls, todo, Len(calls))
        /\ Unanswered' = SubSeq(calls, todo + 1, Len(calls))
    BY <2>2, <2>6, <2>8, OwedIs
  <2> HIDE DEF calls
  <2>10. Unanswered # <<>> /\ Unanswered' = Tail(Unanswered)
    <3> DEFINE length == Len(calls)
    <3>1. todo \in 1..length /\ length \in todo..length /\ length \in Nat /\ todo \in Nat
      BY <2>3, <2>4, ToolNumbers
    <3>2. Tail(SubSeq(calls, todo, length)) = SubSeq(calls, todo + 1, length)
      BY <2>3, <3>1, HeadTailOfSubSeq
    <3>3. SubSeq(calls, todo, length) # <<>>
      <4>1. \A k \in todo..length : calls[k] \in AllCalls
        BY <2>3, <3>1, ElementOfSeq
      <4>2. Len(SubSeq(calls, todo, length)) = length - todo + 1
        BY <3>1, <4>1, SubSeqProperties
      <4>3. length - todo + 1 # 0 /\ Len(<<>>) = 0
        BY <3>1
      <4> HIDE DEF length
      <4> QED
        BY <4>2, <4>3
    <3> QED
      BY <2>9, <3>2, <3>3
  <2>11. step' = "tools" /\ TurnsOf(messages') = TurnsOf(messages)
    BY <1>1, <1>3, <2>6, <2>7
  <2>12. Dialogue!AnswerCall
    BY <1>1, <2>10, <2>11 DEF Dialogue!AnswerCall, TurnsOf
  <2> QED
    BY <2>12 DEF Dialogue!DialogueNext
<1> QED
  BY <1>2, <1>3 DEF RunTool, ToolReturns

LEMMA IterationTurns ==
  ASSUME LoopInv, LoopInv', NextIteration
  PROVE  Dialogue!DialogueNext
<1>1. step = "tools" /\ UNCHANGED messages
  BY DEF NextIteration
<1>2. CASE step' = "ended"
  BY <1>1, <1>2, EndCloses
<1>3. CASE step' \in {"open", "call"}
  <2>1. Unanswered' = <<>> /\ Unanswered = <<>>
    BY <1>1, <1>3, OwedThen, OwedIs DEF OwedForm, Steps
  <2>2. Dialogue!BackToModel
    BY <1>1, <1>3, <2>1 DEF Dialogue!BackToModel
  <2> QED
    BY <2>2 DEF Dialogue!DialogueNext
<1> QED
  BY <1>2, <1>3 DEF NextIteration, End

LEMMA DialogueStarts == ToolInit => Dialogue!DialogueInit
<1> SUFFICES ASSUME ToolInit PROVE Dialogue!DialogueInit
  OBVIOUS
<1>1. messages = <<>> /\ step = "idle" /\ DOMAIN <<>> = {}
  BY DEF ToolInit
<1>2. TurnsOf(messages) = {}
  BY <1>1 DEF TurnsOf
<1>3. Unanswered = <<>>
  BY <1>2, OwedIs DEF OwedIn
<1>4. Cardinality(TurnsOf(messages)) = 0
  BY <1>2, FS_EmptySet
<1> QED
  BY <1>1, <1>3, <1>4 DEF Dialogue!DialogueInit, TurnsOf

LEMMA DialogueGoesOn ==
  ASSUME ToolInv, [ToolNext]_toolVars
  PROVE  [Dialogue!DialogueNext]_(Dialogue!dialogueVars)
<1>1. LoopInv /\ LoopInv'
  BY ToolSteady DEF ToolInv
<1>2. ASSUME step' = step, UNCHANGED messages
      PROVE  [Dialogue!DialogueNext]_(Dialogue!dialogueVars)
  <2>1. CASE step = "ended"
    BY <1>2, <2>1, EndCloses
  <2>2. CASE step # "ended"
    BY <1>2, <2>2, QuietStutters DEF Unheard
  <2> QED
    BY <2>1, <2>2
<1>3. ASSUME NEW m \in Modes, NEW v \in Vendors, NEW w \in Vendors, NEW n \in 1..MaxProviders,
             StartCall(m, v, w, n)
      PROVE  Dialogue!DialogueNext
  BY <1>1, <1>3, StartOpens
<1>4. CASE RefuseCall
  BY <1>4, EndCloses DEF RefuseCall, End
<1>5. CASE CancelCall \/ ToolHangs \/ UNCHANGED toolVars
  <2>1. UNCHANGED <<step, messages>>
    BY <1>5 DEF CancelCall, ToolHangs, toolVars, loopVars
  <2> QED
    BY <1>2, <2>1
<1>6. CASE \/ SendChunk \/ DropChunk \/ ReadText \/ ReadLast \/ ReadEnd \/ ReadFails
           \/ \E t \in Tools : ReadBlock(t)
  <2>1. UNCHANGED <<step, messages>>
    BY <1>6 DEF SendChunk, DropChunk, ReadText, ReadBlock, ReadLast, ReadEnd, ReadFails, loopVars
  <2> QED
    BY <1>2, <2>1
<1>7. ASSUME NEW f \in Failures, ProviderFails(f)
      PROVE  [Dialogue!DialogueNext]_(Dialogue!dialogueVars)
  <2>1. step = "call" /\ UNCHANGED messages /\ step' \in {"call", "wait", "ended"}
    BY <1>7 DEF ProviderFails, End
  <2> QED
    BY <2>1, EndCloses, QuietStutters DEF Unheard, SpeakerAt
<1>8. CASE BackoffEnds
  <2>1. step = "wait" /\ UNCHANGED messages /\ step' \in {"call", "ended"}
    BY <1>8 DEF BackoffEnds, End
  <2> QED
    BY <2>1, EndCloses, QuietStutters DEF Unheard, SpeakerAt
<1>9. ASSUME NEW ts \in Turns, ProviderAnswers(ts)
      PROVE  Dialogue!DialogueNext
  <2> DEFINE calls == CallsOf(VendorAt(at), ts)
  <2>1. step \in Steps /\ TakeTurn(calls) /\ UNCHANGED iteration
    BY <1>9 DEF ProviderAnswers, Steps
  <2>2. calls \in Seq(AllCalls)
    <3>1. iteration \in 1..MaxIterations /\ VendorAt(at) \in Vendors
      BY <1>1 DEF LoopInv, LoopTypes, VendorAt
    <3> QED
      BY <3>1, CallsTyped
  <2> HIDE DEF calls
  <2> QED
    BY <1>1, <2>1, <2>2, TurnCalls
<1>10. CASE RunTool \/ ToolReturns
  BY <1>1, <1>10, ToolAnswers
<1>11. CASE NextIteration
  BY <1>1, <1>11, IterationTurns
<1>12. CASE OpenStream
  <2>1. step = "open" /\ UNCHANGED messages /\ step' \in {"stream", "ended"}
    BY <1>12 DEF OpenStream, End
  <2> QED
    BY <2>1, EndCloses, QuietStutters DEF Unheard, SpeakerAt
<1>13. CASE TakeChunk
  <2>1. step = "stream" /\ UNCHANGED iteration /\ collected' \in Seq(AllCalls)
    <3>1. StreamInv'
      BY ToolSteady DEF ToolInv
    <3> QED
      BY <1>13, <3>1 DEF TakeChunk, StreamInv, StreamTypes
  <2>2. \/ step' = "ended" /\ UNCHANGED messages
        \/ TakeTurn(collected')
        \/ UNCHANGED <<step, messages>>
    BY <1>13 DEF TakeChunk, End
  <2>3. CASE TakeTurn(collected')
    <3> DEFINE calls == collected'
    <3>1. calls \in Seq(AllCalls) /\ TakeTurn(calls) /\ step \in Steps
      BY <2>1, <2>3 DEF Steps
    <3> HIDE DEF calls
    <3> QED
      BY <1>1, <2>1, <3>1, TurnCalls
  <2> QED
    BY <1>2, <2>2, <2>3, EndCloses
<1>14. CASE ChannelClosed
  <2>1. /\ step \in Steps /\ UNCHANGED iteration /\ collected \in Seq(AllCalls)
        /\ TakeTurn(collected)
    BY <1>14 DEF ChannelClosed, Steps, ToolInv, StreamInv, StreamTypes
  <2> QED
    BY <1>1, <2>1, TurnCalls
<1> QED
  BY <1>3, <1>4, <1>5, <1>6, <1>7, <1>8, <1>9, <1>10, <1>11, <1>12, <1>13, <1>14
     DEF ToolNext, CallSteps, StreamSteps

-----------------------------------------------------------------------------
(* The loop in the program.                                                *)

LEMMA LoopAsPart == ServicesSpec => ToolInit /\ [][ToolNext]_toolVars
<1>1. ServicesInit => ToolInit
  BY DEF ServicesInit
<1>2. [ServicesNext]_servicesVars => [ToolNext]_toolVars
  BY DEF ServicesNext, Others, servicesVars
<1> QED
  BY <1>1, <1>2, PTL DEF ServicesSpec

LEMMA ContextAsPart == ServicesSpec => ContextInit /\ [][ContextNext]_contextVars
<1>1. ServicesInit => ContextInit
  BY DEF ServicesInit
<1>2. [ServicesNext]_servicesVars => [ContextNext]_contextVars
  BY DEF ServicesNext, Others, servicesVars
<1> QED
  BY <1>1, <1>2, PTL DEF ServicesSpec

\* The budget of every question adds up, and a context assembled under it leaves the
\* room for the answer and holds no stored message twice but the question: for any
\* limit, sizes and windows, whatever is inserted, archived or embedded between the
\* loading of the recent messages and the search.
THEOREM PromptFits == ServicesSpec => []ContextFits
<1>1. ContextInv => ContextFits
  BY ContextInvFits, SessionAllocates DEF ContextInv, ContextFits
<1> QED
  BY ContextInvInit, ContextInvStep, <1>1, ContextAsPart, PTL

\* What a vendor streams reaches the loop as a whole, each result stands with its call
\* in the request that carries it, whichever vendor of the chain gets it, and a turn
\* fails for good only when every provider has in every attempt: for any number of
\* turns, calls, attempts and providers, wherever the stream breaks or is cancelled.
THEOREM CallsStayAnswered == ServicesSpec => []CallsAreAnswered
<1>1. ToolInv => CallsAreAnswered
  BY ResultsFound
     DEF ToolInv, CallsAreAnswered, LoopInv, RoundsCount, StreamInv, TakenWhole
<1> QED
  BY <1>1, ToolStarts, ToolSteady, LoopAsPart, PTL

\* The loop keeps what is promised to the vendor (ToolDialogue): a turn that calls tools
\* is followed by one result for each call, in the order of the calls, before the model
\* is asked again, and the model calls tools in at most MaxIterations turns.
THEOREM LoopKeepsDialogue == ServicesSpec => ImplementsDialogue
<1>1. ToolInv /\ [ToolNext]_toolVars => [Dialogue!DialogueNext]_(Dialogue!dialogueVars)
  BY DialogueGoesOn
<1> QED
  BY <1>1, ToolStarts, ToolSteady, DialogueStarts, LoopAsPart, PTL
     DEF ImplementsDialogue, Dialogue!DialogueSpec

\* The requests keep their types.
LEMMA RequestsTyped == ServicesSpec => [](ToolTypeOK /\ ContextTypeOK)
<1>1. ToolInit => FlagsTyped
  BY DEF ToolInit, FlagsTyped
<1>2. FlagsTyped /\ [ToolNext]_toolVars => FlagsTyped'
  BY FlagsStay
<1>3. ToolInv /\ FlagsTyped => ToolTypeOK
  BY ToolTyped
<1>4. ServicesSpec => [](ToolInv /\ FlagsTyped)
  BY <1>1, <1>2, ToolStarts, ToolSteady, LoopAsPart, PTL
<1>5. ServicesSpec => []ContextInv
  BY ContextInvInit, ContextInvStep, ContextAsPart, PTL
<1> QED
  BY <1>3, <1>4, <1>5, ContextInvTyped, PTL
=============================================================================
