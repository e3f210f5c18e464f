---------------------------- MODULE MCConversation ----------------------------
(***************************************************************************)
(* Turns of one kind, sessions and compactions are interchangeable.        *)
(***************************************************************************)
EXTENDS Conversation, TLC

MCSymmetry ==
  Permutations(Chats) \cup Permutations(Received) \cup Permutations(Injections)
  \cup Permutations(Sessions) \cup Permutations(Background) \cup Permutations(ByHand)
=============================================================================
