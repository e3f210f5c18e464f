----------------------------- MODULE SenderGate -----------------------------
(***************************************************************************)
(* Who may talk to the agent on a channel: the allowlist                   *)
(* (internal/plugin/allowlist.go) of the running server, changed by the    *)
(* dashboard, and that of `openclio allow` and `openclio deny`, processes  *)
(* of their own that read and write the same file.                         *)
(*                                                                         *)
(* A save is four steps: the snapshot under the lock, the opening of the   *)
(* temporary file, its filling, and the rename.                            *)
(***************************************************************************)
EXTENDS Naturals

CONSTANTS
  Senders,      \* senders, each an adapter and an identity there
  Editors,      \* requests of the dashboard at a time
  CLI,          \* the command line
  MaxDecisions  \* changes of the list (a bound)

ASSUME SenderAssumption == MaxDecisions \in Nat /\ CLI \notin Editors

VARIABLES
  allowed,   \* Allowlist.allowed of the server
  allowAll,  \* and its allowAll
  listFile,  \* the senders in allowed_senders.txt, and whether it is whole
  listTemp,  \* allowed_senders.txt.tmp: "absent", "empty", or as listFile
  editor,    \* by editor: where its change is, what it saves, what it has open
  decisions,
  decided,   \* ghost: the senders that the owner allows, by the last change
  aside,     \* ghost: the command line has saved since the server read the list
  raced      \* ghost: changes overlapped, or failed, or one passed over another

senderVars == <<allowed, allowAll, listFile, listTemp, editor, decisions, decided, aside, raced>>

Everyone == Editors \cup {CLI}
ListFile(is, senders) == [is |-> is, senders |-> senders]
AtRest == [step |-> "idle", senders |-> {}, fd |-> "closed"]

SenderInit ==
  /\ allowed = {} /\ allowAll \in BOOLEAN
  /\ listFile = ListFile("absent", {}) /\ listTemp = ListFile("absent", {})
  /\ editor = [e \in Everyone |-> AtRest]
  /\ decisions = 0 /\ decided = {} /\ aside = FALSE /\ raced = FALSE

NoEdits == \A e \in Everyone : editor[e].step = "idle"

\* IsAllowed, which the router asks before anything else is done for a message.
IsAllowed(s) == allowAll \/ s \in allowed

WithDecision(senders, s, approve) == IF approve THEN senders \cup {s} ELSE senders \ {s}

\* The owner decides, at an editor that is free.
Decide(e, s, approve) ==
  /\ editor[e].step = "idle" /\ decisions < MaxDecisions
  /\ decisions' = decisions + 1
  /\ decided' = WithDecision(decided, s, approve)
  /\ UNCHANGED <<allowAll, listFile, listTemp>>

\* Approve and Revoke change the list in memory, and then save it.
ApproveOrRevoke(e, s, approve) ==
  /\ Decide(e, s, approve)
  /\ allowed' = WithDecision(allowed, s, approve)
  /\ editor' = [editor EXCEPT ![e].step = "snapshot"]
  /\ raced' = (raced \/ ~NoEdits \/ aside)
  /\ UNCHANGED aside

\* `openclio allow` and `openclio deny` change a list that they have just read.
RunAllowCmd(s, approve) ==
  /\ Decide(CLI, s, approve)
  /\ editor' = [editor EXCEPT ![CLI].step = "open",
                  ![CLI].senders = WithDecision(listFile.senders, s, approve)]
  /\ aside' = TRUE /\ raced' = (raced \/ ~NoEdits)
  /\ UNCHANGED allowed

TakeSnapshot(e) ==
  /\ editor[e].step = "snapshot"
  /\ editor' = [editor EXCEPT ![e].step = "open", ![e].senders = allowed]
  /\ UNCHANGED <<allowed, allowAll, listFile, listTemp, decisions, decided, aside, raced>>

OpenListTemp(e) ==
  /\ editor[e].step = "open"
  /\ listTemp' = ListFile("empty", {})
  /\ editor' = [editor EXCEPT ![e].step = "fill", ![e].fd = "temp"]
  /\ UNCHANGED <<allowed, allowAll, listFile, decisions, decided, aside, raced>>

\* A shorter text over a longer one leaves the longer one's end: more senders.
Overwritten(file, senders) ==
  {ListFile("whole", senders)} \cup
  (IF file.is = "whole" THEN {ListFile("mixed", senders \cup file.senders)} ELSE {})

FillListTemp(e) ==
  /\ editor[e].step = "fill"
  /\ CASE editor[e].fd = "temp" -> listTemp' \in Overwritten(listTemp, editor[e].senders) /\ UNCHANGED listFile
       [] editor[e].fd = "file" -> listFile' \in Overwritten(listFile, editor[e].senders) /\ UNCHANGED listTemp
       [] OTHER -> UNCHANGED <<listFile, listTemp>>
  /\ editor' = [editor EXCEPT ![e].step = "rename", ![e].fd = "closed"]
  /\ UNCHANGED <<allowed, allowAll, decisions, decided, aside, raced>>

\* Mutant of RenameListTemp: the rename does not replace a list that is there.
RenameListTempOnce(e) ==
  /\ editor[e].step = "rename" /\ listTemp.is # "absent"
  /\ listFile' = IF listFile.is = "absent" THEN listTemp ELSE listFile
  /\ listTemp' = ListFile("absent", {})
  /\ editor' = [f \in Everyone |-> IF f = e THEN AtRest ELSE editor[f]]
  /\ UNCHANGED <<allowed, allowAll, decisions, decided, aside, raced>>

\* What another editor has open moves with the names.
RenameListTemp(e) ==
  /\ editor[e].step = "rename" /\ listTemp.is # "absent"
  /\ listFile' = listTemp /\ listTemp' = ListFile("absent", {})
  /\ editor' = [f \in Everyone |->
       IF f = e THEN AtRest
       ELSE [editor[f] EXCEPT !.fd = CASE @ = "temp" -> "file" [] @ = "file" -> "gone" [] OTHER -> @]]
  /\ UNCHANGED <<allowed, allowAll, decisions, decided, aside, raced>>

\* The caller gets the error; what was changed in memory stays.
SaveListFails(e) ==
  /\ editor[e].step \in {"open", "fill"} \/ (editor[e].step = "rename" /\ listTemp.is = "absent")
  /\ editor' = [editor EXCEPT ![e] = AtRest]
  /\ raced' = TRUE
  /\ UNCHANGED <<allowed, allowAll, listFile, listTemp, decisions, decided, aside>>

\* SetAllowAll; the change of the Config is not saved here.
SetAllowAll(all) ==
  /\ allowAll' = all
  /\ UNCHANGED <<allowed, listFile, listTemp, editor, decisions, decided, aside, raced>>

\* A crash or a stop of the server, and NewAllowlist of the next.
RestartGate(all) ==
  /\ raced' = (raced \/ \E e \in Editors : editor[e].step # "idle")
  /\ editor' = [e \in Everyone |-> IF e = CLI THEN editor[e] ELSE AtRest]
  /\ allowed' = listFile.senders
  /\ allowAll' = all
  /\ aside' = (editor[CLI].step # "idle")
  /\ UNCHANGED <<listFile, listTemp, decisions, decided>>

SenderNext ==
  \/ \E s \in Senders, approve \in BOOLEAN :
       \/ \E e \in Editors : ApproveOrRevoke(e, s, approve)
       \/ RunAllowCmd(s, approve)
  \/ \E e \in Everyone :
       \/ TakeSnapshot(e)
       \/ OpenListTemp(e)
       \/ FillListTemp(e)
       \/ RenameListTemp(e)
       \/ SaveListFails(e)
  \/ \E all \in BOOLEAN : SetAllowAll(all) \/ RestartGate(all)

SenderSpec == SenderInit /\ [][SenderNext]_senderVars

-----------------------------------------------------------------------------
SenderTypeOK ==
  /\ {allowed, decided, listFile.senders, listTemp.senders} \subseteq SUBSET Senders
  /\ {allowAll, aside, raced} \subseteq BOOLEAN
  /\ {listFile.is, listTemp.is} \subseteq {"absent", "empty", "whole", "mixed"}
  /\ \A e \in Everyone :
       /\ editor[e].step \in {"idle", "snapshot", "open", "fill", "rename"}
       /\ editor[e].senders \subseteq Senders
       /\ editor[e].fd \in {"closed", "temp", "file", "gone"}
  /\ decisions \in 0..MaxDecisions

\* "The list is persisted to path so approvals survive restarts" (NewAllowlist): the
\* server admits, in strict mode, exactly the senders that the owner allows, across
\* crashes and restarts and changes from both sides, unless changes overlapped or
\* failed, the command line has changed the list since the server read it, or the
\* server has then changed its own.  Changes that overlap can leave an approval out,
\* against the quotation: the snapshot is taken under the lock and written without it.
ApprovalsLast ==
  NoEdits /\ ~raced =>
    /\ listFile.senders = decided
    /\ ~aside => \A s \in Senders : IsAllowed(s) <=> (allowAll \/ s \in decided)
=============================================================================
