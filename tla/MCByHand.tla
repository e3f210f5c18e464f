------------------------------ MODULE MCByHand ------------------------------
(***************************************************************************)
(* What is asked for by hand beside what the agent does: /compact beside a *)
(* compaction in the background (Conversation), undo and the revert of a   *)
(* patch beside the tools that change files (FileActions).  The two share  *)
(* no variable: the one that is explored is chosen at the start, and the   *)
(* other rests.                                                            *)
(*                                                                         *)
(* Turns of one kind, sessions and compactions of one kind, files, texts   *)
(* and agents are interchangeable.                                         *)
(***************************************************************************)
EXTENDS MCConversation, FileActions

VARIABLE explored

byHandVars == <<explored, vars, fileActionVars>>

ByHandInit ==
  /\ explored \in {"compactions", "files"}
  /\ Init /\ FileInit
  /\ explored = "files" \/ \A p \in Paths : disk[p] = "absent"

ByHandNext ==
  /\ UNCHANGED explored
  /\ \/ explored = "compactions" /\ Next /\ UNCHANGED fileActionVars
     \/ explored = "files" /\ FileNext /\ UNCHANGED vars

ByHandSpec == ByHandInit /\ [][ByHandNext]_byHandVars

ByHandSymmetry ==
  MCSymmetry \cup Permutations(Paths) \cup Permutations(Texts) \cup Permutations(Agents)
=============================================================================
