----------------------------- MODULE FileActions -----------------------------
(***************************************************************************)
(* The tools that change files (internal/tools: write_file, edit_file,     *)
(* apply_patch), the log of write_file (storage/action_log.go), and the    *)
(* ways back: `openclio undo` (cmd/openclio/main.go) and the revert of a   *)
(* patch.                                                                  *)
(*                                                                         *)
(* Sub-tasks of a delegation call tools at the same time, and undo is a    *)
(* process of its own: nothing orders them.                                *)
(***************************************************************************)
EXTENDS Naturals, Sequences, FiniteSets

CONSTANTS
  Paths, Texts,  \* files and what may be written to them
  Agents,        \* sub-tasks that call tools
  MaxFileCalls,  \* calls of tools and of undo (a bound)
  MaxItems       \* changes in one patch (a bound)

ASSUME FileAssumption ==
  /\ {"absent", "broken", "none"} \cap Texts = {} /\ "none" \notin Paths
  /\ {MaxFileCalls, MaxItems} \subseteq Nat

VARIABLES
  disk,        \* what each file holds, or "absent"
  actions,     \* the table action_log: id, path, before
  call,        \* by agent: the tool call in progress
  patch,       \* the patch in progress or applied last
  callsLeft,
  past,        \* ghost: what each file held before each change that undo knows
  undoable,    \* ghost: the entries of these changes
  tainted      \* ghost: files that changed behind the log's back

actionVars == <<actions, past, undoable>>
fileActionVars == <<disk, actions, call, patch, callsLeft, past, undoable, tainted>>

Held == Texts \union {"absent", "broken"}
NoCall == [tool |-> "none", path |-> "none", text |-> "absent", before |-> "absent", step |-> "idle"]
NoPatch == [step |-> "none", items |-> <<>>, found |-> <<>>, backup |-> <<>>, kept |-> 0,
            restored |-> 0, listed |-> FALSE, alone |-> TRUE]

FileInit ==
  /\ disk \in [Paths -> {"absent"} \union Texts]
  /\ actions = <<>> /\ callsLeft = MaxFileCalls
  /\ call = [a \in Agents |-> NoCall] /\ patch = NoPatch
  /\ past = [p \in Paths |-> <<>>] /\ undoable = [p \in Paths |-> <<>>]
  /\ tainted = {}

PatchPaths == {patch.items[i].path : i \in DOMAIN patch.items}
Patching == patch.step \in {"backup", "write", "manifest", "back"}
Busy(p) == (\E a \in Agents : call[a].path = p) \/ (Patching /\ p \in PatchPaths)

\* A call begins.  The log knows nothing of edits, and less of calls at once.
BeginCall(a, tool, p, text, before) ==
  /\ call[a] = NoCall /\ callsLeft > 0 /\ callsLeft' = callsLeft - 1
  /\ call' = [call EXCEPT ![a] = [tool |-> tool, path |-> p, text |-> text,
                                  before |-> before, step |-> "write"]]
  /\ tainted' = IF tool = "edit" \/ Busy(p) THEN tainted \union {p} ELSE tainted
  /\ patch' = [patch EXCEPT !.alone = @ /\ p \notin PatchPaths]

EndCall(a) == call' = [call EXCEPT ![a] = NoCall]

\* The snapshot.
ReadBefore(a, p, text) ==
  /\ BeginCall(a, "write", p, text, disk[p])
  /\ UNCHANGED <<disk, actionVars>>

\* edit_file reads the file, and fails unless what it looks for is there.
ReadToEdit(a, p, text) ==
  /\ disk[p] \notin {"absent", text}
  /\ BeginCall(a, "edit", p, text, disk[p])
  /\ UNCHANGED <<disk, actionVars>>

\* os.WriteFile truncates the file before it may fail.
WriteText(a) ==
  /\ call[a].step = "write"
  /\ \E ok \in BOOLEAN :
       /\ disk' = [disk EXCEPT ![call[a].path] = IF ok THEN call[a].text ELSE "broken"]
       /\ IF call[a].tool = "edit" THEN EndCall(a) ELSE call' = [call EXCEPT ![a].step = "record"]
       /\ IF call[a].tool = "edit" THEN UNCHANGED past
          ELSE past' = [past EXCEPT ![call[a].path] = Append(@, disk[call[a].path])]
  /\ UNCHANGED <<actions, patch, callsLeft, undoable, tainted>>

\* Mutant of Snapshot: the content after the change is kept.
SnapshotLate(c) == disk[c.path]

Snapshot(c) == c.before

\* recordAction.  Its failure is ignored.
RecordWriteFile(a) ==
  /\ call[a].step = "record"
  /\ \/ /\ actions' = Append(actions, [path |-> call[a].path, before |-> Snapshot(call[a])])
        /\ undoable' = [undoable EXCEPT ![call[a].path] = Append(@, Len(actions'))]
        /\ UNCHANGED tainted
     \/ tainted' = tainted \union {call[a].path} /\ UNCHANGED <<actions, undoable>>
  /\ EndCall(a)
  /\ UNCHANGED <<disk, patch, callsLeft, past>>

\* A crash before the entry is written: the change stays.  So do the changes of a
\* patch that has no manifest yet; with one, the patch can still be reverted.
CrashOfTools ==
  /\ Patching \/ \E a \in Agents : call[a] # NoCall
  /\ tainted' = tainted \union ({call[a].path : a \in Agents} \ {"none"})
  /\ call' = [a \in Agents |-> NoCall]
  /\ patch' = IF ~Patching THEN patch
              ELSE IF patch.listed THEN [patch EXCEPT !.step = "stopped"] ELSE NoPatch
  /\ UNCHANGED <<disk, actions, callsLeft, past, undoable>>

\* The entry with an id.
Get(id) == actions[id]

Newest(p) == undoable[p][Len(undoable[p])]

\* What a write, or a removal, that fails may leave of a file: a file is truncated
\* before it is written, and may be complete when the failure is found.
LeftOf(p, text) == IF text = "absent" THEN {disk[p]} ELSE {disk[p], "broken", text}

\* runUndo: any entry, as often as one likes, and no entry of its own.  Entries undone
\* newest first are the use it is for; one that fails can be tried again.
Undo(i) ==
  LET p == Get(i).path
      clean == undoable[p] # <<>> /\ Newest(p) = i /\ ~Busy(p) /\ p \notin tainted
  IN /\ callsLeft > 0 /\ callsLeft' = callsLeft - 1
     /\ \/ /\ disk' = [disk EXCEPT ![p] = Get(i).before]
           /\ IF clean
              THEN /\ past' = [past EXCEPT ![p] = SubSeq(@, 1, Len(@) - 1)]
                   /\ undoable' = [undoable EXCEPT ![p] = SubSeq(@, 1, Len(@) - 1)]
              ELSE UNCHANGED <<past, undoable>>
        \/ /\ \E left \in LeftOf(p, Get(i).before) : disk' = [disk EXCEPT ![p] = left]
           /\ UNCHANGED <<past, undoable>>
     /\ tainted' = IF clean THEN tainted ELSE tainted \union {p}
     /\ patch' = [patch EXCEPT !.alone = @ /\ p \notin PatchPaths]
     /\ UNCHANGED <<actions, call>>

-----------------------------------------------------------------------------
(* apply_patch: plan, then for each change back up, write and rename; on a *)
(* failure go back; at the end write the manifest.                         *)

Items == [path : Paths, text : Texts]

PlanPatch(items) ==
  /\ ~Patching /\ callsLeft > 0 /\ callsLeft' = callsLeft - 1
  /\ patch' = [step |-> "backup", items |-> items,
               found |-> [i \in DOMAIN items |-> disk[items[i].path]],
               backup |-> [p \in Paths |-> "none"], kept |-> 0, restored |-> 0, listed |-> FALSE,
               alone |-> \A a \in Agents : call[a].path \notin {items[i].path : i \in DOMAIN items}]
  /\ tainted' = tainted \union {items[i].path : i \in DOMAIN items}
  /\ UNCHANGED <<disk, actionVars, call>>

Item == patch.items[patch.kept + 1]
Existed(i) == patch.found[i] # "absent"

\* A copy of the file as it is by now, for a path that was there at the plan.  A
\* failure may have cut the copy that an earlier change of the same path has made.
BackUpItem ==
  /\ patch.step = "backup"
  /\ \/ /\ Existed(patch.kept + 1) => disk[Item.path] # "absent"
        /\ patch' = [patch EXCEPT !.step = "write",
             !.backup[Item.path] = IF Existed(patch.kept + 1) THEN disk[Item.path] ELSE @]
     \/ \E cut \in {"broken", patch.backup[Item.path]} :
          patch' = [patch EXCEPT !.step = "back",
            !.backup[Item.path] = IF Existed(patch.kept + 1) THEN cut ELSE @]
  /\ UNCHANGED <<disk, actionVars, call, callsLeft, tainted>>

\* The temporary file is renamed, or something fails; the manifest has the path
\* either way.
WriteItem ==
  /\ patch.step = "write"
  /\ \/ /\ disk' = [disk EXCEPT ![Item.path] = Item.text]
        /\ patch' = [patch EXCEPT !.kept = @ + 1,
                       !.step = IF patch.kept + 1 = Len(patch.items) THEN "manifest" ELSE "backup"]
     \/ patch' = [patch EXCEPT !.kept = @ + 1, !.step = "back"] /\ UNCHANGED disk
  /\ UNCHANGED <<actionVars, call, callsLeft, tainted>>

\* Without a manifest the patch cannot be reverted, and nobody says so.
WriteManifest ==
  /\ patch.step = "manifest"
  /\ \/ patch' = [patch EXCEPT !.step = "applied", !.listed = TRUE]
     \/ patch' = NoPatch
  /\ UNCHANGED <<disk, actionVars, call, callsLeft, tainted>>

\* Mutant of Restored: files that the patch has created stay.
RestoredExisting(p) == IF patch.backup[p] = "none" THEN disk[p] ELSE patch.backup[p]

Restored(p) == IF patch.backup[p] = "none" THEN "absent" ELSE patch.backup[p]

\* revertBackup: a call with the id of a patch that has a manifest, as often as one
\* likes.  A patch that fails goes to the same loop by itself.
RevertPatch ==
  /\ patch.step \in {"applied", "reverted", "stopped"} /\ patch.listed
  /\ callsLeft > 0 /\ callsLeft' = callsLeft - 1
  /\ patch' = [patch EXCEPT !.step = "back", !.restored = 0,
                 !.alone = @ /\ \A a \in Agents : call[a].path \notin PatchPaths]
  /\ tainted' = tainted \union PatchPaths
  /\ UNCHANGED <<disk, actionVars, call>>

\* revertBackupInternal, one entry: the loop ends at the first that fails.  The caller
\* of a failing patch does not look at its error.
RevertItem ==
  /\ patch.step = "back" /\ patch.restored < patch.kept
  /\ LET p == patch.items[patch.restored + 1].path
     IN \/ /\ disk' = [disk EXCEPT ![p] = Restored(p)]
           /\ patch' = [patch EXCEPT !.restored = @ + 1]
        \/ /\ \E left \in LeftOf(p, Restored(p)) : disk' = [disk EXCEPT ![p] = left]
           /\ patch' = [patch EXCEPT !.step = "stopped"]
  /\ UNCHANGED <<actionVars, call, callsLeft, tainted>>

RevertEnds ==
  /\ patch.step = "back" /\ patch.restored = patch.kept
  /\ patch' = [patch EXCEPT !.step = "reverted"]
  /\ UNCHANGED <<disk, actionVars, call, callsLeft, tainted>>

FileNext ==
  \/ \E a \in Agents, p \in Paths, t \in Texts : ReadBefore(a, p, t) \/ ReadToEdit(a, p, t)
  \/ \E a \in Agents : WriteText(a) \/ RecordWriteFile(a)
  \/ CrashOfTools
  \/ \E i \in DOMAIN actions : Undo(i)
  \/ \E n \in 1..MaxItems : \E items \in [1..n -> Items] : PlanPatch(items)
  \/ BackUpItem
  \/ WriteItem
  \/ WriteManifest
  \/ RevertPatch
  \/ RevertItem
  \/ RevertEnds

FileSpec == FileInit /\ [][FileNext]_fileActionVars

-----------------------------------------------------------------------------
FileTypeOK ==
  /\ disk \in [Paths -> Held] /\ callsLeft \in 0..MaxFileCalls
  /\ actions \in Seq([path : Paths, before : Held])
  /\ \A a \in Agents : call[a].tool \in {"none", "write", "edit"}
  /\ patch.step \in {"none", "backup", "write", "manifest", "back", "applied", "reverted", "stopped"}
  /\ past \in [Paths -> Seq(Held)] /\ undoable \in [Paths -> Seq(Nat)]
  /\ tainted \subseteq Paths

\* The log can be undone: of a file that only recorded calls have changed, one at
\* a time, undoing the entries from the newest on goes back through everything the
\* file has held, whichever of the writes have failed.  An undo that failed counts as
\* none: its entry is still to be undone.
UndoGoesBack ==
  \A p \in Paths : p \notin tainted /\ ~Busy(p) =>
    /\ Len(undoable[p]) = Len(past[p])
    /\ \A k \in DOMAIN past[p] : actions[undoable[p][k]].before = past[p][k]

\* A patch goes back, by its caller or because it failed half-way, if nobody else wrote
\* to its files and it named none of them twice.  As far as the loop has come the files
\* are as the patch found them, created ones removed, and so are those it never reached;
\* what it was to restore is kept, however often it stops, for the next try.  That is
\* less than "atomically" (docs/tools.md): a patch that fails may stop half-way back.
PatchGoesBack ==
  patch.alone /\ Cardinality(PatchPaths) = Len(patch.items) =>
    \A i \in DOMAIN patch.items :
      LET p == patch.items[i].path
      IN /\ i \in 1..patch.restored \/ i > patch.kept => disk[p] = patch.found[i]
         /\ i <= patch.kept => Restored(p) = patch.found[i]
         /\ patch.step = "reverted" => disk[p] = patch.found[i]
=============================================================================
