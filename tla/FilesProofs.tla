------------------------------ MODULE FilesProofs ------------------------------
(***************************************************************************)
(* Proofs about files: those that tools change (FileActions) and the       *)
(* rolling log (RollingLog).                                               *)
(*                                                                         *)
(* That changes can be undone is inductive together with what a call in    *)
(* progress has read, for each file that the log answers for; that a patch *)
(* can, together with what its backup has of the changes made so far.      *)
(*                                                                         *)
(* The limit of the log file is inductive together with what makes Write's *)
(* comparison safe: size is never less than the length of the file.  That  *)
(* the newest backups stay is inductive together with what every cleanup   *)
(* in progress has settled on: files that were old when it read the        *)
(* directory, and that rotations since have only made older.               *)
(***************************************************************************)
EXTENDS MCServices, FileActions, FiniteSetTheorems, SequenceTheorems, TLAPS

-----------------------------------------------------------------------------
(* The tools that change files.                                            *)

CallRecord ==
  [tool : {"none", "write", "edit"}, path : Paths \cup {"none"}, text : Texts \cup {"absent"},
   before : Held, step : {"idle", "write", "record"}]

PatchSteps == {"none", "backup", "write", "manifest", "back", "applied", "reverted",
               "stopped"}

PatchRecord ==
  [step : PatchSteps, items : Seq(Items), found : Seq(Held),
   backup : [Paths -> Held \cup {"none"}] \cup {<<>>}, kept : Nat,
   restored : Nat, listed : BOOLEAN, alone : BOOLEAN]

FileTypes ==
  /\ disk \in [Paths -> Held] /\ callsLeft \in 0..MaxFileCalls
  /\ actions \in Seq([path : Paths, before : Held])
  /\ call \in [Agents -> CallRecord] /\ patch \in PatchRecord
  /\ past \in [Paths -> Seq(Held)] /\ undoable \in [Paths -> Seq(Nat)]
  /\ tainted \subseteq Paths

\* A call in progress is one of a tool on a file, and a patch is where its items are.
CallsAndPatch ==
  /\ \A a \in Agents : call[a] # NoCall =>
       call[a].path \in Paths /\ call[a].text \in Texts /\ call[a].step # "idle"
  /\ Len(patch.found) = Len(patch.items) /\ patch.kept <= Len(patch.items)
  /\ patch.restored <= patch.kept /\ (patch.step = "reverted" => patch.restored = patch.kept)
  /\ patch.step \in {"none", "backup", "write", "manifest"} => patch.restored = 0
  /\ patch.step \in {"backup", "write"} => patch.kept < Len(patch.items)
  /\ patch.step = "none" => Len(patch.items) = 0
  /\ patch.step # "none" => patch.backup \in [Paths -> Held \cup {"none"}]

\* A file the log answers for is in the hands of one call at the most, which has seen
\* what the file holds; each entry is of what the file held before its change.
LogOf(p) ==
  /\ Patching => p \notin PatchPaths
  /\ \A a, b \in Agents : call[a].path = p /\ call[b].path = p => a = b
  /\ \A a \in Agents : call[a].path = p =>
       /\ call[a].tool = "write"
       /\ call[a].step = "write" => call[a].before = disk[p]
       /\ call[a].step = "record" => /\ Len(past[p]) = Len(undoable[p]) + 1
                                     /\ past[p][Len(past[p])] = call[a].before
  /\ (\A a \in Agents : call[a].path = p => call[a].step # "record")
       => Len(undoable[p]) = Len(past[p])
  /\ \A k \in 1..Len(undoable[p]) :
       /\ undoable[p][k] \in 1..Len(actions)
       /\ actions[undoable[p][k]].before = past[p][k]

LogInv == \A p \in Paths \ tainted : LogOf(p)

\* A patch nobody has interfered with has a copy of each file it has changed, and the
\* others are as it has found them.
ItemsDiffer ==
  \A i, j \in 1..Len(patch.items) : patch.items[i].path = patch.items[j].path => i = j

Copied(i) ==
  patch.backup[patch.items[i].path] = IF Existed(i) THEN patch.found[i] ELSE "none"

AsFound(i) == disk[patch.items[i].path] = patch.found[i]

NotCopied(i) == patch.backup[patch.items[i].path] = "none"

ItemsKept ==
  /\ patch.step # "none" =>
       \A i \in 1..Len(patch.items) :
         /\ IF i <= patch.kept THEN Copied(i) ELSE AsFound(i)
         /\ i <= patch.restored => AsFound(i)
  /\ patch.step = "backup" =>
       \A i \in 1..Len(patch.items) : i > patch.kept => NotCopied(i)
  /\ patch.step = "write" =>
       /\ Copied(patch.kept + 1)
       /\ \A i \in 1..Len(patch.items) : i > patch.kept + 1 => NotCopied(i)

PatchInv ==
  patch.alone =>
    /\ \A a \in Agents : call[a].path \notin PatchPaths
    /\ ItemsDiffer => ItemsKept

FileInv == FileTypes /\ CallsAndPatch /\ LogInv /\ PatchInv

LEMMA FileNames ==
  /\ "none" \notin Paths /\ "none" \notin Held /\ "absent" \notin Texts
  /\ MaxFileCalls \in Nat /\ MaxItems \in Nat
  /\ NoCall \in CallRecord /\ NoCall.path = "none" /\ NoCall.step = "idle"
  /\ NoPatch \in PatchRecord /\ NoPatch.step = "none" /\ NoPatch.items = <<>>
  /\ Len(NoPatch.items) = 0 /\ Len(NoPatch.found) = 0 /\ NoPatch.kept = 0
  /\ NoPatch.restored = 0
<1>1. <<>> \in Seq(Items) /\ <<>> \in Seq(Held)
  OBVIOUS
<1> QED
  BY <1>1, FileAssumption DEF NoCall, NoPatch, Held, CallRecord, PatchRecord, PatchSteps

LEMMA PatchNumbers ==
  ASSUME FileTypes, CallsAndPatch
  PROVE  /\ Len(patch.items) \in Nat /\ DOMAIN patch.items = 1..Len(patch.items)
         /\ patch.kept \in 0..Len(patch.items) /\ patch.restored \in 0..patch.kept
         /\ \A i \in 1..Len(patch.items) :
              /\ patch.items[i] \in Items /\ patch.items[i].path \in Paths
              /\ patch.found[i] \in Held /\ patch.items[i].path \in PatchPaths
         /\ PatchPaths = {patch.items[i].path : i \in 1..Len(patch.items)}
         /\ PatchPaths \subseteq Paths
<1>1. patch.items \in Seq(Items) /\ patch.found \in Seq(Held) /\ patch.kept \in Nat
      /\ patch.restored \in Nat
  BY DEF FileTypes, PatchRecord
<1>2. Len(patch.items) \in Nat /\ DOMAIN patch.items = 1..Len(patch.items)
  BY <1>1, LenProperties
<1>3. \A i \in 1..Len(patch.items) : patch.items[i] \in Items
  BY <1>1, ElementOfSeq
<1>4. \A i \in 1..Len(patch.items) : patch.found[i] \in Held
  BY <1>1, <1>2, ElementOfSeq DEF CallsAndPatch
<1>5. patch.kept \in 0..Len(patch.items) /\ patch.restored \in 0..patch.kept
  BY <1>1, <1>2 DEF CallsAndPatch
<1> QED
  BY <1>2, <1>3, <1>4, <1>5 DEF PatchPaths, Items

\* A call that begins on p, and what it does to the patch.
LEMMA CallBegins ==
  ASSUME FileTypes, NEW a \in Agents, NEW t \in {"write", "edit"}, NEW p \in Paths,
         NEW text \in Texts, NEW before \in Held, BeginCall(a, t, p, text, before)
  PROVE  /\ call[a] = NoCall /\ call' \in [Agents -> CallRecord]
         /\ call'[a].tool = t /\ call'[a].path = p /\ call'[a].text = text
         /\ call'[a].before = before /\ call'[a].step = "write"
         /\ \A b \in Agents \ {a} : call'[b] = call[b]
<1> DEFINE new == [tool |-> t, path |-> p, text |-> text, before |-> before, step |-> "write"]
<1>1. call' = [call EXCEPT ![a] = new] /\ call[a] = NoCall
  BY DEF BeginCall
<1>2. /\ new \in CallRecord /\ new.tool = t /\ new.path = p /\ new.text = text
      /\ new.before = before /\ new.step = "write"
  BY DEF CallRecord
<1> HIDE DEF new
<1> QED
  BY <1>1, <1>2 DEF FileTypes

LEMMA CallEnds ==
  ASSUME FileTypes, NEW a \in Agents, EndCall(a)
  PROVE  /\ call' \in [Agents -> CallRecord] /\ call'[a] = NoCall
         /\ \A b \in Agents \ {a} : call'[b] = call[b]
BY FileNames DEF EndCall, FileTypes

SamePatch ==
  /\ patch'.step = patch.step /\ patch'.items = patch.items /\ patch'.found = patch.found
  /\ patch'.backup = patch.backup /\ patch'.kept = patch.kept
  /\ patch'.restored = patch.restored

LEMMA PatchDisturbed ==
  ASSUME FileTypes, NEW Q, patch' = [patch EXCEPT !.alone = @ /\ Q]
  PROVE  /\ patch' \in PatchRecord /\ SamePatch
         /\ patch'.alone => patch.alone /\ Q
<1>1. patch \in PatchRecord
  BY DEF FileTypes
<1>2. (patch.alone /\ Q) \in BOOLEAN
  OBVIOUS
<1> DEFINE b == patch.alone /\ Q
<1>3. patch' = [patch EXCEPT !.alone = b] /\ b \in BOOLEAN
  OBVIOUS
<1>4. b => patch.alone /\ Q
  OBVIOUS
<1> HIDE DEF b
<1>5. /\ patch' \in PatchRecord /\ SamePatch /\ patch'.alone = b
  BY <1>1, <1>3 DEF PatchRecord, SamePatch
<1> QED
  BY <1>4, <1>5, Zenon

\* A call, or an undo, on p leaves the patch as it is and marks it disturbed.
LEMMA SamePatchPaths ==
  ASSUME SamePatch
  PROVE  /\ PatchPaths' = PatchPaths /\ Patching' = Patching /\ ItemsDiffer' = ItemsDiffer
         /\ \A i : Copied(i)' = Copied(i) /\ NotCopied(i)' = NotCopied(i)
BY DEF SamePatch, PatchPaths, Patching, ItemsDiffer, Copied, NotCopied, Existed

\* What a step does not reach stays as it was: a file,
LEMMA LogStands ==
  ASSUME FileInv, NEW p \in Paths, LogOf(p), Patching' /\ p \in PatchPaths' => p \in PatchPaths,
         Patching' /\ p \in PatchPaths' => Patching,
         \A a \in Agents : call'[a] # call[a] => call'[a].path # p,
         \A a \in Agents : call[a].path = p => call'[a] = call[a],
         disk'[p] = disk[p], past'[p] = past[p], undoable'[p] = undoable[p],
         Len(actions') >= Len(actions), Len(actions') \in Nat,
         \A k \in 1..Len(actions) : actions'[k] = actions[k]
  PROVE  LogOf(p)'
<1>1. Len(actions) \in Nat
  BY LenProperties DEF FileInv, FileTypes
<1>2. \A a \in Agents : call'[a].path = p <=> call[a].path = p
  OBVIOUS
<1>3. \A a \in Agents : call'[a].path = p => call'[a] = call[a]
  OBVIOUS
<1>4. \A k \in 1..Len(undoable[p]) :
         /\ undoable[p][k] \in 1..Len(actions')
         /\ actions'[undoable[p][k]].before = past[p][k]
  <2> SUFFICES ASSUME NEW k \in 1..Len(undoable[p])
               PROVE  /\ undoable[p][k] \in 1..Len(actions')
                      /\ actions'[undoable[p][k]].before = past[p][k]
    OBVIOUS
  <2>1. /\ undoable[p][k] \in 1..Len(actions)
        /\ actions[undoable[p][k]].before = past[p][k]
    BY DEF LogOf
  <2> QED
    BY <1>1, <2>1
<1> QED
  BY <1>2, <1>3, <1>4 DEF LogOf

\* and a patch.
LEMMA PatchStands ==
  ASSUME FileInv, SamePatch, patch'.alone => patch.alone,
         patch'.alone => \A q \in PatchPaths : disk'[q] = disk[q],
         patch'.alone => \A a \in Agents : call'[a].path \notin PatchPaths
  PROVE  PatchInv'
<1>1. /\ PatchPaths' = PatchPaths /\ Patching' = Patching /\ ItemsDiffer' = ItemsDiffer
      /\ \A i : Copied(i)' = Copied(i) /\ NotCopied(i)' = NotCopied(i)
  BY SamePatchPaths
<1> SUFFICES ASSUME patch'.alone, ItemsDiffer PROVE ItemsKept'
  BY <1>1 DEF PatchInv
<1>2. \A i \in 1..Len(patch.items) : AsFound(i)' = AsFound(i)
  BY PatchNumbers DEF AsFound, FileInv, SamePatch
<1>3. ItemsKept
  BY DEF FileInv, PatchInv
<1> QED
  BY <1>1, <1>2, <1>3 DEF ItemsKept, SamePatch

-----------------------------------------------------------------------------
LEMMA BeginKeeps ==
  ASSUME FileInv, NEW a \in Agents, NEW t \in {"write", "edit"}, NEW p \in Paths,
         NEW text \in Texts, BeginCall(a, t, p, text, disk[p]),
         UNCHANGED <<disk, actionVars>>
  PROVE  FileInv'
<1> USE DEF FileInv
<1>1. /\ call[a] = NoCall /\ call' \in [Agents -> CallRecord]
      /\ call'[a].tool = t /\ call'[a].path = p /\ call'[a].text = text
      /\ call'[a].before = disk[p] /\ call'[a].step = "write"
      /\ \A b \in Agents \ {a} : call'[b] = call[b]
  BY CallBegins DEF FileTypes
<1>2. /\ patch' \in PatchRecord /\ SamePatch
      /\ patch'.alone => patch.alone /\ p \notin PatchPaths
  BY PatchDisturbed DEF BeginCall
<1>3. PatchPaths' = PatchPaths /\ Patching' = Patching
  BY <1>2, SamePatchPaths
<1>4. /\ UNCHANGED <<disk, actions, past, undoable>>
      /\ callsLeft > 0 /\ callsLeft' = callsLeft - 1
      /\ tainted' = IF t = "edit" \/ Busy(p) THEN tainted \cup {p} ELSE tainted
  BY DEF actionVars, BeginCall
<1>5. FileTypes'
  BY <1>1, <1>2, <1>4, FileNames DEF FileTypes
<1>6. CallsAndPatch'
  BY <1>1, <1>2 DEF CallsAndPatch, SamePatch
<1>7. LogInv'
  <2> SUFFICES ASSUME NEW q \in Paths \ tainted' PROVE LogOf(q)'
    BY DEF LogInv
  <2>1. q \in Paths \ tainted /\ LogOf(q)
    BY <1>4 DEF LogInv
  <2>2. CASE q # p
    <3>1. Len(actions) \in Nat
      BY LenProperties DEF FileTypes
    <3>2. call[a].path # q
      BY <1>1, FileNames
    <3> QED
      BY <1>1, <1>3, <1>4, <2>1, <2>2, <3>1, <3>2, LogStands
  <2>3. CASE q = p
    <3>1. t = "write" /\ ~Busy(p)
      BY <1>4, <2>3
    <3>2. /\ \A b \in Agents : call[b].path # p
          /\ Patching => p \notin PatchPaths
      BY <3>1 DEF Busy
    <3>3. \A b \in Agents : call'[b].path = p <=> b = a
      BY <1>1, <3>2
    <3> QED
      BY <1>1, <1>3, <1>4, <2>1, <2>3, <3>1, <3>2, <3>3 DEF LogOf
  <2> QED
    BY <2>2, <2>3
<1>8. PatchInv'
  BY <1>1, <1>2, <1>4, PatchStands DEF PatchInv
<1> QED
  BY <1>5, <1>6, <1>7, <1>8

LEMMA BeginningKeeps ==
  ASSUME FileInv, NEW a \in Agents, NEW p \in Paths, NEW text \in Texts,
         ReadBefore(a, p, text) \/ ReadToEdit(a, p, text)
  PROVE  FileInv'
BY BeginKeeps DEF ReadBefore, ReadToEdit

LEMMA WriteTextKeeps ==
  ASSUME FileInv, NEW a \in Agents, WriteText(a)
  PROVE  FileInv'
<1> USE DEF FileInv
<1> DEFINE c == call[a]
           p == c.path
<1>1. PICK ok \in BOOLEAN :
        /\ disk' = [disk EXCEPT ![p] = IF ok THEN c.text ELSE "broken"]
        /\ IF c.tool = "edit" THEN EndCall(a) ELSE call' = [call EXCEPT ![a].step = "record"]
        /\ past' = IF c.tool = "edit" THEN past
                   ELSE [past EXCEPT ![p] = Append(@, disk[p])]
  BY DEF WriteText
<1>2. c.step = "write" /\ UNCHANGED <<actions, patch, callsLeft, undoable, tainted>>
  BY DEF WriteText
<1>3. c # NoCall /\ p \in Paths /\ c.text \in Texts /\ c \in CallRecord
  BY <1>2, FileNames DEF CallsAndPatch, FileTypes
<1>4. /\ disk' \in [Paths -> Held] /\ disk'[p] \in Held
      /\ \A q \in Paths \ {p} : disk'[q] = disk[q]
  BY <1>1, <1>3 DEF FileTypes, Held
<1>5. /\ call' \in [Agents -> CallRecord] /\ \A b \in Agents \ {a} : call'[b] = call[b]
      /\ \/ call'[a] = NoCall /\ c.tool = "edit"
         \/ /\ call'[a].path = p /\ call'[a].tool = c.tool /\ call'[a].text = c.text
            /\ call'[a].before = c.before /\ call'[a].step = "record" /\ c.tool # "edit"
  <2>1. CASE c.tool = "edit"
    BY <1>1, <2>1, CallEnds
  <2>2. CASE c.tool # "edit"
    <3> DEFINE new == [c EXCEPT !.step = "record"]
    <3>1. /\ new \in CallRecord /\ new.path = p /\ new.tool = c.tool /\ new.text = c.text
          /\ new.before = c.before /\ new.step = "record"
      BY <1>3 DEF CallRecord
    <3>2. call' = [call EXCEPT ![a] = new] /\ call \in [Agents -> CallRecord]
      BY <1>1, <2>2 DEF FileTypes
    <3> HIDE DEF new
    <3> QED
      BY <2>2, <3>1, <3>2
  <2> QED
    BY <2>1, <2>2
<1>6. /\ past' \in [Paths -> Seq(Held)] /\ \A q \in Paths \ {p} : past'[q] = past[q]
      /\ c.tool # "edit" => /\ past'[p] = Append(past[p], disk[p])
                            /\ Len(past'[p]) = Len(past[p]) + 1
                            /\ \A k \in 1..Len(past[p]) : past'[p][k] = past[p][k]
                            /\ past'[p][Len(past'[p])] = disk[p]
  <2>1. disk[p] \in Held /\ past[p] \in Seq(Held) /\ past \in [Paths -> Seq(Held)]
    BY <1>3 DEF FileTypes
  <2> QED
    BY <1>1, <1>3, <2>1
<1>7. FileTypes'
  BY <1>2, <1>4, <1>5, <1>6 DEF FileTypes
<1>8. CallsAndPatch'
  BY <1>2, <1>3, <1>5, FileNames DEF CallsAndPatch
<1>9. PatchPaths' = PatchPaths /\ Patching' = Patching /\ SamePatch
  BY <1>2 DEF PatchPaths, Patching, SamePatch
<1>10. LogInv'
  <2> SUFFICES ASSUME NEW q \in Paths \ tainted PROVE LogOf(q)'
    BY <1>2 DEF LogInv
  <2>1. LogOf(q)
    BY DEF LogInv
  <2>2. CASE q # p
    <3>1. Len(actions) \in Nat
      BY LenProperties DEF FileTypes
    <3>2. /\ \A b \in Agents : call'[b] # call[b] => call'[b].path # q
          /\ \A b \in Agents : call[b].path = q => call'[b] = call[b]
      BY <1>5, <2>2, FileNames
    <3>3. disk'[q] = disk[q] /\ past'[q] = past[q] /\ undoable'[q] = undoable[q]
      BY <1>2, <1>4, <1>6, <2>2
    <3> QED
      BY <1>2, <1>9, <2>1, <3>1, <3>2, <3>3, LogStands
  <2>3. CASE q = p
    <3>1. c.tool = "write" /\ \A b \in Agents : call[b].path = p => b = a
      BY <2>1, <2>3 DEF LogOf
    <3>2. \A b \in Agents : call'[b].path = p <=> b = a
      BY <1>5, <3>1
    <3>3. Len(undoable[p]) = Len(past[p]) /\ c.before = disk[p]
      BY <1>2, <2>1, <2>3, <3>1 DEF LogOf
    <3> QED
      BY <1>2, <1>5, <1>6, <1>9, <2>1, <2>3, <3>1, <3>2, <3>3 DEF LogOf
  <2> QED
    BY <2>2, <2>3
<1>11. PatchInv'
  <2>1. patch.alone => p \notin PatchPaths
    BY DEF PatchInv
  <2>2. patch.alone => \A b \in Agents : call'[b].path \notin PatchPaths
    BY <1>5, FileNames, PatchNumbers DEF PatchInv
  <2>3. PatchPaths \subseteq Paths
    BY PatchNumbers
  <2> QED
    BY <1>2, <1>4, <1>9, <2>1, <2>2, <2>3, PatchStands
<1> QED
  BY <1>7, <1>8, <1>10, <1>11

LEMMA RecordKeeps ==
  ASSUME FileInv, NEW a \in Agents, RecordWriteFile(a)
  PROVE  FileInv'
<1> USE DEF FileInv
<1> DEFINE c == call[a]
           p == c.path
           entry == [path |-> p, before |-> c.before]
<1>1. /\ c.step = "record" /\ EndCall(a) /\ UNCHANGED <<disk, patch, callsLeft, past>>
      /\ \/ /\ actions' = Append(actions, entry)
            /\ undoable' = [undoable EXCEPT ![p] = Append(@, Len(actions'))]
            /\ UNCHANGED tainted
         \/ tainted' = tainted \cup {p} /\ UNCHANGED <<actions, undoable>>
  BY DEF RecordWriteFile, Snapshot
<1>2. c # NoCall /\ p \in Paths /\ c.before \in Held
  BY <1>1, FileNames DEF CallsAndPatch, FileTypes, CallRecord
<1>3. /\ call' \in [Agents -> CallRecord] /\ call'[a] = NoCall
      /\ \A b \in Agents \ {a} : call'[b] = call[b]
  BY <1>1, CallEnds
<1>4. /\ entry \in [path : Paths, before : Held] /\ entry.before = c.before
      /\ actions \in Seq([path : Paths, before : Held]) /\ Len(actions) \in Nat
      /\ undoable[p] \in Seq(Nat) /\ undoable \in [Paths -> Seq(Nat)]
      /\ past[p] \in Seq(Held)
  BY <1>2, LenProperties DEF FileTypes
<1> HIDE DEF entry
<1>5. \A k \in 1..Len(actions) : actions'[k] = actions[k]
  <2>1. CASE actions' = Append(actions, entry)
    BY <1>4, <2>1
  <2>2. CASE actions' = actions
    BY <2>2
  <2> QED
    BY <1>1, <2>1, <2>2
<1>6. ASSUME actions' = Append(actions, entry),
             undoable' = [undoable EXCEPT ![p] = Append(@, Len(actions'))],
             UNCHANGED tainted
      PROVE  FileTypes' /\ LogInv'
  <2>1. /\ actions' \in Seq([path : Paths, before : Held])
        /\ Len(actions') = Len(actions) + 1 /\ actions'[Len(actions')] = entry
    BY <1>4, <1>6
  <2>2. /\ undoable' \in [Paths -> Seq(Nat)]
        /\ \A q \in Paths \ {p} : undoable'[q] = undoable[q]
        /\ Len(undoable'[p]) = Len(undoable[p]) + 1
        /\ \A k \in 1..Len(undoable[p]) : undoable'[p][k] = undoable[p][k]
        /\ undoable'[p][Len(undoable'[p])] = Len(actions')
    BY <1>2, <1>4, <1>6, <2>1
  <2>3. FileTypes'
    BY <1>1, <1>3, <1>6, <2>1, <2>2 DEF FileTypes
  <2>4. ASSUME NEW q \in Paths \ tainted PROVE LogOf(q)'
    <3>1. LogOf(q) /\ PatchPaths' = PatchPaths /\ Patching' = Patching
      BY <1>1, <2>4 DEF LogInv, PatchPaths, Patching
    <3>2. CASE q # p
      <4>1. /\ \A b \in Agents : call'[b] # call[b] => call'[b].path # q
            /\ \A b \in Agents : call[b].path = q => call'[b] = call[b]
        BY <1>3, <2>4, <3>2, FileNames
      <4>2. disk'[q] = disk[q] /\ past'[q] = past[q] /\ undoable'[q] = undoable[q]
        BY <1>1, <2>2, <3>2
      <4>3. Len(actions') \in Nat /\ Len(actions') >= Len(actions)
        BY <1>4, <2>1
      <4> QED
        BY <1>5, <3>1, <4>1, <4>2, <4>3, LogStands
    <3>3. CASE q = p
      <4>1. \A b \in Agents : call[b].path = p => b = a
        BY <3>1, <3>3 DEF LogOf
      <4>2. \A b \in Agents : call'[b].path # p
        BY <1>2, <1>3, <4>1, FileNames
      <4>3. /\ Len(past[p]) = Len(undoable[p]) + 1
            /\ past[p][Len(past[p])] = c.before
        BY <1>1, <3>1, <3>3 DEF LogOf
      <4>4. /\ Len(undoable[p]) \in Nat
            /\ \A k \in 1..Len(undoable[p]) : /\ undoable[p][k] \in 1..Len(actions)
                                              /\ actions[undoable[p][k]].before = past[p][k]
        BY <1>4, <3>1, <3>3, LenProperties DEF LogOf
      <4>5. ASSUME NEW k \in 1..Len(undoable'[p])
            PROVE  /\ undoable'[p][k] \in 1..Len(actions')
                   /\ actions'[undoable'[p][k]].before = past[p][k]
        <5>1. CASE k <= Len(undoable[p])
          <6>1. k \in 1..Len(undoable[p])
            BY <4>4, <4>5, <5>1, <2>2
          <6>2. undoable'[p][k] = undoable[p][k] /\ undoable[p][k] \in 1..Len(actions)
            BY <2>2, <4>4, <6>1
          <6>3. actions[undoable[p][k]].before = past[p][k]
            BY <4>4, <6>1
          <6>4. actions'[undoable[p][k]] = actions[undoable[p][k]]
            BY <1>5, <6>2
          <6>5. undoable[p][k] \in 1..Len(actions')
            BY <1>4, <2>1, <6>2
          <6> QED
            BY <6>2, <6>3, <6>4, <6>5
        <5>2. CASE ~(k <= Len(undoable[p]))
          <6>1. k = Len(undoable'[p]) /\ k = Len(past[p])
            BY <2>2, <4>3, <4>4, <4>5, <5>2
          <6>2. undoable'[p][k] = Len(actions') /\ past[p][k] = c.before
            BY <2>2, <4>3, <6>1
          <6>3. Len(actions') \in 1..Len(actions') /\ actions'[Len(actions')].before = c.before
            BY <1>4, <2>1
          <6> QED
            BY <6>2, <6>3
        <5> QED
          BY <5>1, <5>2
      <4> QED
        BY <1>1, <2>2, <3>1, <3>3, <4>2, <4>3, <4>5 DEF LogOf
    <3> QED
      BY <3>2, <3>3
  <2> QED
    BY <1>6, <2>3, <2>4 DEF LogInv
<1>7. ASSUME tainted' = tainted \cup {p}, UNCHANGED <<actions, undoable>>
      PROVE  FileTypes' /\ LogInv'
  <2>1. FileTypes'
    BY <1>1, <1>2, <1>3, <1>7 DEF FileTypes
  <2>2. ASSUME NEW q \in Paths \ tainted' PROVE LogOf(q)'
    <3>1. LogOf(q) /\ q # p /\ PatchPaths' = PatchPaths /\ Patching' = Patching
      BY <1>1, <1>7, <2>2 DEF LogInv, PatchPaths, Patching
    <3>2. /\ \A b \in Agents : call'[b] # call[b] => call'[b].path # q
          /\ \A b \in Agents : call[b].path = q => call'[b] = call[b]
      BY <1>3, <2>2, <3>1, FileNames
    <3> QED
      BY <1>1, <1>4, <1>7, <3>1, <3>2, LogStands
  <2> QED
    BY <2>1, <2>2 DEF LogInv
<1>8. FileTypes' /\ LogInv'
  BY <1>1, <1>6, <1>7
<1>9. CallsAndPatch'
  BY <1>1, <1>3 DEF CallsAndPatch
<1>10. PatchInv'
  <2>1. patch.alone => \A b \in Agents : call'[b].path \notin PatchPaths
    BY <1>3, FileNames, PatchNumbers DEF PatchInv
  <2> QED
    BY <1>1, <2>1, PatchStands DEF SamePatch
<1> QED
  BY <1>8, <1>9, <1>10

LEMMA CrashKeepsFiles ==
  ASSUME FileInv, CrashOfTools
  PROVE  FileInv'
<1> USE DEF FileInv
<1> DEFINE halt == [patch EXCEPT !.step = "stopped"]
<1>1. /\ tainted' = tainted \cup ({call[a].path : a \in Agents} \ {"none"})
      /\ call' = [a \in Agents |-> NoCall]
      /\ UNCHANGED <<disk, actions, callsLeft, past, undoable>>
      /\ \/ patch' = patch /\ ~Patching
         \/ patch' = halt /\ Patching
         \/ patch' = NoPatch
      /\ \A a \in Agents : call[a].path \in Paths \cup {"none"}
  BY DEF FileTypes, CallRecord, CrashOfTools, Patching
<1>2. /\ patch \in PatchRecord /\ halt \in PatchRecord /\ halt.step = "stopped"
      /\ halt.items = patch.items /\ halt.found = patch.found /\ halt.kept = patch.kept
      /\ halt.backup = patch.backup /\ halt.restored = patch.restored
      /\ halt.alone = patch.alone
  BY DEF FileTypes, PatchRecord, PatchSteps
<1> HIDE DEF halt
<1>3. patch' \in PatchRecord
  BY <1>1, <1>2, FileNames
<1>4. FileTypes'
  BY <1>1, <1>3, FileNames DEF FileTypes
<1>5. CallsAndPatch'
  BY <1>1, <1>2, FileNames DEF CallsAndPatch, Patching
<1>6. ~Patching'
  BY <1>1, <1>2, FileNames DEF Patching
<1>7. LogInv'
  <2> SUFFICES ASSUME NEW p \in Paths \ tainted' PROVE LogOf(p)'
    BY DEF LogInv
  <2>1. LogOf(p) /\ \A a \in Agents : call[a].path # p /\ call'[a].path # p
    BY <1>1, FileNames DEF LogInv
  <2>2. Len(actions) \in Nat
    BY LenProperties DEF FileTypes
  <2> QED
    BY <1>1, <1>6, <2>1, <2>2, LogStands
<1>8. PatchInv'
  <2>1. CASE patch' = NoPatch
    <3>1. patch'.step = "none" /\ patch'.items = <<>>
      BY <2>1, FileNames
    <3>2. PatchPaths' = {}
      BY <3>1 DEF PatchPaths
    <3> QED
      BY <3>1, <3>2 DEF PatchInv, ItemsKept
  <2>2. CASE patch' = patch
    <3>1. \A a \in Agents : call'[a].path \notin PatchPaths
      BY <1>1, FileNames, PatchNumbers
    <3> QED
      BY <1>1, <2>2, <3>1, PatchStands DEF SamePatch
  <2>3. CASE patch' = halt /\ Patching
    <3>1. PatchPaths' = PatchPaths /\ ItemsDiffer' = ItemsDiffer
          /\ \A i : Copied(i)' = Copied(i) /\ AsFound(i)' = AsFound(i)
      BY <1>1, <1>2, <2>3 DEF PatchPaths, ItemsDiffer, Copied, AsFound, Existed
    <3>2. \A a \in Agents : call'[a].path \notin PatchPaths
      BY <1>1, FileNames, PatchNumbers
    <3>3. patch.step # "none"
      BY <2>3 DEF Patching
    <3> QED
      BY <1>2, <2>3, <3>1, <3>2, <3>3 DEF PatchInv, ItemsKept
  <2> QED
    BY <1>1, <2>1, <2>2, <2>3
<1> QED
  BY <1>4, <1>5, <1>7, <1>8

\* An entry is undone: the file is what it was before its change, and if it is the
\* newest of a file in nobody's hands, the one before it becomes the newest.  If it
\* fails, nothing is known of the file but that its entry is still there.
LEMMA UndoKeeps ==
  ASSUME FileInv, NEW i \in DOMAIN actions, Undo(i)
  PROVE  FileInv'
<1> USE DEF FileInv
<1> DEFINE p == actions[i].path
           before == actions[i].before
           clean == undoable[p] # <<>> /\ Newest(p) = i /\ ~Busy(p) /\ p \notin tainted
<1>1. /\ callsLeft > 0 /\ callsLeft' = callsLeft - 1
      /\ disk' = [disk EXCEPT ![p] = before]
           \/ \E leaves \in LeftOf(p, before) : disk' = [disk EXCEPT ![p] = leaves]
      /\ patch' = [patch EXCEPT !.alone = @ /\ p \notin PatchPaths]
      /\ UNCHANGED <<actions, call>>
  BY DEF Undo, Get
<1>2. p \in Paths /\ before \in Held /\ Len(actions) \in Nat
  <2>1. actions \in Seq([path : Paths, before : Held])
    BY DEF FileTypes
  <2>2. i \in 1..Len(actions) /\ Len(actions) \in Nat
    BY <2>1, LenProperties
  <2>3. actions[i] \in [path : Paths, before : Held]
    BY <2>1, <2>2, ElementOfSeq
  <2> QED
    BY <2>2, <2>3
<1>3. \/ /\ undoable[p] # <<>> /\ Newest(p) = i /\ ~Busy(p) /\ p \notin tainted
         /\ past' = [past EXCEPT ![p] = SubSeq(@, 1, Len(@) - 1)]
         /\ undoable' = [undoable EXCEPT ![p] = SubSeq(@, 1, Len(@) - 1)]
         /\ UNCHANGED tainted
      \/ tainted' = tainted \cup {p} /\ UNCHANGED <<past, undoable>>
      \/ /\ ~Busy(p) /\ p \notin tainted
         /\ UNCHANGED <<tainted, past, undoable>>
  <2>1. \/ /\ clean
           /\ past' = [past EXCEPT ![p] = SubSeq(@, 1, Len(@) - 1)]
           /\ undoable' = [undoable EXCEPT ![p] = SubSeq(@, 1, Len(@) - 1)]
        \/ ~clean /\ UNCHANGED <<past, undoable>>
        \/ UNCHANGED <<past, undoable>>
    BY DEF Undo, Get
  <2>2. tainted' = IF clean THEN tainted ELSE tainted \cup {p}
    BY DEF Undo, Get
  <2> QED
    BY <2>1, <2>2
<1>4. /\ patch' \in PatchRecord /\ SamePatch
      /\ patch'.alone => patch.alone /\ p \notin PatchPaths
  BY <1>1, PatchDisturbed
<1>5. PatchPaths' = PatchPaths /\ Patching' = Patching
  BY <1>4, SamePatchPaths
<1> HIDE DEF before, clean
<1>6. /\ disk' \in [Paths -> Held] /\ \A q \in Paths \ {p} : disk'[q] = disk[q]
      /\ callsLeft' \in 0..MaxFileCalls
  <2>1. callsLeft' \in 0..MaxFileCalls
    BY <1>1, FileNames DEF FileTypes
  <2>2. disk \in [Paths -> Held] /\ LeftOf(p, before) \subseteq Held
    BY <1>2 DEF FileTypes, LeftOf, Held
  <2>3. PICK leaves \in Held : disk' = [disk EXCEPT ![p] = leaves]
    BY <1>1, <1>2, <2>2
  <2> QED
    BY <1>2, <2>1, <2>2, <2>3
<1>7. CallsAndPatch'
  BY <1>1, <1>4 DEF CallsAndPatch, SamePatch
<1>8. PatchInv'
  BY <1>1, <1>4, <1>6, PatchNumbers, PatchStands DEF PatchInv
<1>9. CASE tainted' = tainted \cup {p} /\ UNCHANGED <<past, undoable>>
  <2>1. FileTypes'
    BY <1>1, <1>2, <1>4, <1>6, <1>9 DEF FileTypes
  <2>2. ASSUME NEW q \in Paths \ tainted' PROVE LogOf(q)'
    <3>1. LogOf(q) /\ q # p
      BY <1>9, <2>2 DEF LogInv
    <3> QED
      BY <1>1, <1>2, <1>5, <1>6, <1>9, <2>2, <3>1, LogStands
  <2> QED
    BY <1>7, <1>8, <2>1, <2>2 DEF LogInv
<1>10. CASE /\ undoable[p] # <<>> /\ Newest(p) = i /\ ~Busy(p) /\ p \notin tainted
            /\ past' = [past EXCEPT ![p] = SubSeq(@, 1, Len(@) - 1)]
            /\ undoable' = [undoable EXCEPT ![p] = SubSeq(@, 1, Len(@) - 1)]
            /\ UNCHANGED tainted
  <2>1. /\ past \in [Paths -> Seq(Held)] /\ undoable \in [Paths -> Seq(Nat)]
        /\ past[p] \in Seq(Held) /\ undoable[p] \in Seq(Nat)
    BY <1>2 DEF FileTypes
  <2>2. /\ Len(past[p]) \in Nat /\ Len(undoable[p]) \in Nat \ {0}
    BY <1>10, <2>1, LenProperties, EmptySeq
  <2>3. LogOf(p) /\ Len(undoable[p]) = Len(past[p])
    BY <1>2, <1>10 DEF LogInv, LogOf, Busy
  <2> DEFINE n == Len(past[p])
  <2>4. /\ SubSeq(past[p], 1, n - 1) \in Seq(Held) /\ Len(SubSeq(past[p], 1, n - 1)) = n - 1
        /\ \A k \in 1..(n - 1) : SubSeq(past[p], 1, n - 1)[k] = past[p][k]
    BY <2>1, <2>2, <2>3
  <2>5. /\ SubSeq(undoable[p], 1, n - 1) \in Seq(Nat)
        /\ Len(SubSeq(undoable[p], 1, n - 1)) = n - 1
        /\ \A k \in 1..(n - 1) : SubSeq(undoable[p], 1, n - 1)[k] = undoable[p][k]
    BY <2>1, <2>2, <2>3
  <2>6. /\ past' \in [Paths -> Seq(Held)] /\ undoable' \in [Paths -> Seq(Nat)]
        /\ Len(past'[p]) = n - 1 /\ Len(undoable'[p]) = n - 1
        /\ \A k \in 1..(n - 1) : past'[p][k] = past[p][k] /\ undoable'[p][k] = undoable[p][k]
        /\ \A q \in Paths \ {p} : past'[q] = past[q] /\ undoable'[q] = undoable[q]
    BY <1>2, <1>10, <2>1, <2>3, <2>4, <2>5
  <2>7. FileTypes'
    BY <1>1, <1>2, <1>4, <1>6, <1>10, <2>6 DEF FileTypes
  <2>8. ASSUME NEW q \in Paths \ tainted PROVE LogOf(q)'
    <3>1. LogOf(q)
      BY <2>8 DEF LogInv
    <3>2. CASE q # p
      BY <1>1, <1>2, <1>5, <1>6, <2>6, <2>8, <3>1, <3>2, LogStands
    <3>3. CASE q = p
      <4>1. (\A a \in Agents : call[a].path # p) /\ (Patching => p \notin PatchPaths)
        BY <1>10 DEF Busy
      <4>2. \A k \in 1..(n - 1) : /\ undoable[p][k] \in 1..Len(actions)
                                  /\ actions[undoable[p][k]].before = past[p][k]
        BY <2>2, <2>3 DEF LogOf
      <4> QED
        BY <1>1, <1>5, <2>6, <3>3, <4>1, <4>2 DEF LogOf
    <3> QED
      BY <3>2, <3>3
  <2> QED
    BY <1>7, <1>8, <1>10, <2>7, <2>8 DEF LogInv
<1>11. CASE ~Busy(p) /\ p \notin tainted /\ UNCHANGED <<tainted, past, undoable>>
  <2>1. FileTypes'
    BY <1>1, <1>4, <1>6, <1>11 DEF FileTypes
  <2>2. ASSUME NEW q \in Paths \ tainted PROVE LogOf(q)'
    <3>1. LogOf(q)
      BY <2>2 DEF LogInv
    <3>2. CASE q # p
      BY <1>1, <1>2, <1>5, <1>6, <1>11, <2>2, <3>1, <3>2, LogStands
    <3>3. CASE q = p
      <4>1. (\A a \in Agents : call[a].path # p) /\ (Patching => p \notin PatchPaths)
        BY <1>11 DEF Busy
      <4> QED
        BY <1>1, <1>5, <1>11, <3>1, <3>3, <4>1 DEF LogOf
    <3> QED
      BY <3>2, <3>3
  <2> QED
    BY <1>7, <1>8, <1>11, <2>1, <2>2 DEF LogInv
<1> QED
  BY <1>3, <1>9, <1>10, <1>11

-----------------------------------------------------------------------------
LEMMA ListIsSeq ==
  ASSUME NEW S, NEW n \in Nat, NEW f \in [1..n -> S]
  PROVE  f \in Seq(S) /\ Len(f) = n
<1>1. f \in Seq(S)
  BY SeqDef
<1>2. Len(f) \in Nat /\ 1..Len(f) = 1..n
  BY <1>1, LenProperties
<1>3. Len(f) = n
  <2>1. CASE Len(f) < n
    <3>1. n \in 1..n /\ n \notin 1..Len(f)
      BY <1>2, <2>1
    <3> QED
      BY <1>2, <3>1
  <2>2. CASE n < Len(f)
    <3>1. Len(f) \in 1..Len(f) /\ Len(f) \notin 1..n
      BY <1>2, <2>2
    <3> QED
      BY <1>2, <3>1
  <2> QED
    BY <1>2, <2>1, <2>2
<1> QED
  BY <1>1, <1>3

LEMMA PlanKeeps ==
  ASSUME FileInv, NEW n \in 1..MaxItems, NEW items \in [1..n -> Items], PlanPatch(items)
  PROVE  FileInv'
<1> USE DEF FileInv
<1> DEFINE found == [i \in DOMAIN items |-> disk[items[i].path]]
           backup == [p \in Paths |-> "none"]
           named == {items[i].path : i \in DOMAIN items}
           alone == \A a \in Agents : call[a].path \notin named
           new == [step |-> "backup", items |-> items, found |-> found,
                   backup |-> backup, kept |-> 0, restored |-> 0, listed |-> FALSE,
                   alone |-> alone]
<1>1. /\ ~Patching /\ callsLeft > 0 /\ callsLeft' = callsLeft - 1
      /\ patch' = new /\ tainted' = tainted \cup named
      /\ UNCHANGED <<disk, actions, past, undoable, call>>
  BY DEF PlanPatch, actionVars
<1>2. n \in Nat /\ n > 0 /\ DOMAIN items = 1..n
      /\ \A i \in 1..n : items[i] \in Items /\ items[i].path \in Paths
  BY FileNames DEF Items
<1>3. /\ found \in [1..n -> Held] /\ backup \in [Paths -> Held \cup {"none"}]
      /\ \A i \in 1..n : found[i] = disk[items[i].path]
      /\ \A p \in Paths : backup[p] = "none"
  BY <1>2 DEF FileTypes
<1>4. /\ items \in Seq(Items) /\ Len(items) = n
      /\ found \in Seq(Held) /\ Len(found) = n
  BY <1>2, <1>3, ListIsSeq
<1>5. named \subseteq Paths /\ named = {items[i].path : i \in DOMAIN items}
  BY <1>2
<1>6. alone \in BOOLEAN /\ (alone => \A a \in Agents : call[a].path \notin named)
  OBVIOUS
<1> HIDE DEF found, backup, named, alone
<1>7. /\ patch' \in PatchRecord /\ patch'.step = "backup" /\ patch'.items = items
      /\ patch'.found = found /\ patch'.backup = backup /\ patch'.kept = 0
      /\ patch'.restored = 0 /\ patch'.alone = alone
  BY <1>1, <1>3, <1>4, <1>6 DEF PatchRecord, PatchSteps
<1>8. PatchPaths' = named
  BY <1>5, <1>7 DEF PatchPaths
<1>9. FileTypes'
  <2>1. callsLeft' \in 0..MaxFileCalls
    BY <1>1, FileNames DEF FileTypes
  <2> QED
    BY <1>1, <1>5, <1>7, <2>1 DEF FileTypes
<1>10. CallsAndPatch'
  BY <1>1, <1>2, <1>3, <1>4, <1>7 DEF CallsAndPatch
<1>11. LogInv'
  <2> SUFFICES ASSUME NEW p \in Paths \ tainted' PROVE LogOf(p)'
    BY DEF LogInv
  <2>1. LogOf(p) /\ p \notin PatchPaths'
    BY <1>1, <1>8 DEF LogInv
  <2>2. Len(actions) \in Nat
    BY LenProperties DEF FileTypes
  <2> QED
    BY <1>1, <2>1, <2>2, LogStands
<1>12. PatchInv'
  <2> SUFFICES ASSUME patch'.alone
               PROVE  (\A a \in Agents : call[a].path \notin named) /\ ItemsKept'
    BY <1>1, <1>8 DEF PatchInv
  <2>1. \A a \in Agents : call[a].path \notin named
    BY <1>6, <1>7
  <2>2. \A i \in 1..n : AsFound(i)' /\ NotCopied(i)'
    BY <1>1, <1>2, <1>3, <1>7 DEF AsFound, NotCopied
  <2>3. ItemsKept'
    BY <1>2, <1>4, <1>7, <2>2 DEF ItemsKept
  <2> QED
    BY <2>1, <2>3
<1> QED
  BY <1>9, <1>10, <1>11, <1>12

\* The steps of a patch under way leave the log alone: its files are tainted.
LEMMA PatchStepKeepsLog ==
  ASSUME FileInv, Patching, UNCHANGED <<call, actions, past, undoable>>, tainted \subseteq tainted',
         PatchPaths' \subseteq PatchPaths, \A p \in Paths \ PatchPaths : disk'[p] = disk[p]
  PROVE  LogInv'
<1> USE DEF FileInv
<1> SUFFICES ASSUME NEW p \in Paths \ tainted' PROVE LogOf(p)'
  BY DEF LogInv
<1>1. LogOf(p) /\ p \notin PatchPaths
  BY DEF LogInv, LogOf
<1>2. Len(actions) \in Nat
  BY LenProperties DEF FileTypes
<1> QED
  BY <1>1, <1>2, LogStands

LEMMA BackUpKeeps ==
  ASSUME FileInv, BackUpItem
  PROVE  FileInv'
<1> USE DEF FileInv
<1> DEFINE k == patch.kept + 1
           copy == [patch.backup EXCEPT ![Item.path] =
                      IF Existed(k) THEN disk[Item.path] ELSE @]
           spoilt(garbled) == [patch.backup EXCEPT ![Item.path] = IF Existed(k) THEN garbled ELSE @]
<1>1. /\ patch.step = "backup" /\ UNCHANGED <<disk, actions, past, undoable, call, callsLeft, tainted>>
      /\ \/ patch' = [patch EXCEPT !.step = "write", !.backup = copy]
         \/ \E garbled \in {"broken", patch.backup[Item.path]} :
              patch' = [patch EXCEPT !.step = "back", !.backup = spoilt(garbled)]
  BY DEF BackUpItem, actionVars
<1>2. /\ patch \in PatchRecord /\ patch.backup \in [Paths -> Held \cup {"none"}]
      /\ k \in 1..Len(patch.items) /\ Item = patch.items[k] /\ Item.path \in Paths
      /\ disk[Item.path] \in Held
  <2>1. patch.kept < Len(patch.items) /\ Len(patch.items) \in Nat /\ patch.kept \in Nat
    BY <1>1, PatchNumbers DEF CallsAndPatch
  <2>2. k \in 1..Len(patch.items)
    BY <2>1
  <2>3. patch \in PatchRecord /\ patch.backup \in [Paths -> Held \cup {"none"}]
    <3>1. patch \in PatchRecord
      BY DEF FileTypes
    <3>2. patch.step # "none"
      BY <1>1
    <3> QED
      BY <3>1, <3>2 DEF CallsAndPatch
  <2>4. Item = patch.items[k]
    BY DEF Item
  <2> HIDE DEF k
  <2>5. patch.items[k].path \in Paths
    BY <2>2, PatchNumbers
  <2> QED
    BY <2>2, <2>3, <2>4, <2>5 DEF FileTypes
<1>3. /\ copy \in [Paths -> Held \cup {"none"}]
      /\ \A p \in Paths \ {Item.path} : copy[p] = patch.backup[p]
      /\ copy[Item.path] = IF Existed(k) THEN disk[Item.path] ELSE patch.backup[Item.path]
  BY <1>2
<1>3a. \A garbled \in {"broken", patch.backup[Item.path]} :
        /\ spoilt(garbled) \in [Paths -> Held \cup {"none"}]
        /\ \A p \in Paths \ {Item.path} : spoilt(garbled)[p] = patch.backup[p]
  BY <1>2 DEF Held
<1> HIDE DEF copy, spoilt
<1>4. /\ patch' \in PatchRecord /\ patch'.items = patch.items /\ patch'.found = patch.found
      /\ patch'.kept = patch.kept /\ patch'.alone = patch.alone
      /\ patch'.restored = patch.restored
      /\ \/ patch'.step = "write" /\ patch'.backup = copy
         \/ /\ patch'.step = "back" /\ patch'.backup \in [Paths -> Held \cup {"none"}]
            /\ \A p \in Paths \ {Item.path} : patch'.backup[p] = patch.backup[p]
  <2>1. CASE patch' = [patch EXCEPT !.step = "write", !.backup = copy]
    BY <1>2, <1>3, <2>1 DEF PatchRecord, PatchSteps
  <2>2. ASSUME NEW garbled \in {"broken", patch.backup[Item.path]},
               patch' = [patch EXCEPT !.step = "back", !.backup = spoilt(garbled)]
        PROVE  /\ patch' \in PatchRecord /\ patch'.items = patch.items
               /\ patch'.found = patch.found
               /\ patch'.kept = patch.kept /\ patch'.alone = patch.alone
               /\ patch'.restored = patch.restored
               /\ patch'.step = "back" /\ patch'.backup = spoilt(garbled)
    BY <1>2, <1>3a, <2>2 DEF PatchRecord, PatchSteps
  <2> QED
    BY <1>1, <1>3a, <2>1, <2>2
<1>5. PatchPaths' = PatchPaths /\ ItemsDiffer' = ItemsDiffer
      /\ \A i : AsFound(i)' = AsFound(i) /\ Existed(i)' = Existed(i)
  BY <1>1, <1>4 DEF PatchPaths, ItemsDiffer, AsFound, Existed
<1>6. FileTypes' /\ CallsAndPatch'
  BY <1>1, <1>2, <1>3, <1>4 DEF FileTypes, CallsAndPatch
<1>7. LogInv'
  BY <1>1, <1>5, PatchStepKeepsLog DEF Patching
<1>8. PatchInv'
  <2>0. patch.alone => \A a \in Agents : call[a].path \notin PatchPaths
    BY DEF PatchInv
  <2> SUFFICES ASSUME patch.alone, ItemsDiffer PROVE ItemsKept'
    BY <1>1, <1>4, <1>5, <2>0 DEF PatchInv
  <2>1. /\ \A i \in 1..Len(patch.items) : IF i <= patch.kept THEN Copied(i) ELSE AsFound(i)
        /\ \A i \in 1..Len(patch.items) : i > patch.kept => NotCopied(i)
        /\ patch.restored = 0
    BY <1>1 DEF PatchInv, ItemsKept, CallsAndPatch
  <2>2. patch.kept \in 0..Len(patch.items) /\ Len(patch.items) \in Nat
    BY PatchNumbers
  <2>2a. \A i \in 1..Len(patch.items) : i # k => patch.items[i].path # Item.path
                                                 /\ patch.items[i].path \in Paths
    BY <1>2, PatchNumbers DEF ItemsDiffer
  <2>3. CASE /\ patch'.step = "back"
             /\ \A p \in Paths \ {Item.path} : patch'.backup[p] = patch.backup[p]
    <3>1. \A i \in 1..Len(patch.items) : i <= patch.kept => Copied(i)' = Copied(i)
      BY <1>4, <1>5, <2>2, <2>2a, <2>3 DEF Copied
    <3> QED
      BY <1>4, <1>5, <2>1, <2>3, <3>1 DEF ItemsKept
  <2>4. CASE patch'.step = "write" /\ patch'.backup = copy
    <3>1. \A i \in 1..Len(patch.items) : i # k => patch.items[i].path # Item.path
                                                  /\ patch.items[i].path \in Paths
      BY <2>2a
    <3>2. \A i \in 1..Len(patch.items) : i # k => (Copied(i)' = Copied(i))
                                                  /\ (NotCopied(i)' = NotCopied(i))
      BY <1>3, <1>4, <1>5, <2>4, <3>1 DEF Copied, NotCopied
    <3>3. Copied(k)'
      <4>1. AsFound(k) /\ NotCopied(k)
        BY <1>2, <2>1, <2>2
      <4> QED
        BY <1>2, <1>3, <1>4, <1>5, <2>4, <4>1 DEF Copied, AsFound, NotCopied
    <3> QED
      BY <1>4, <1>5, <2>1, <2>2, <2>4, <3>2, <3>3 DEF ItemsKept
  <2> QED
    BY <1>4, <2>3, <2>4
<1> QED
  BY <1>6, <1>7, <1>8

LEMMA WriteItemKeeps ==
  ASSUME FileInv, WriteItem
  PROVE  FileInv'
<1> USE DEF FileInv
<1> DEFINE k == patch.kept + 1
           next == IF k = Len(patch.items) THEN "manifest" ELSE "backup"
<1>1. /\ patch.step = "write" /\ UNCHANGED <<actions, past, undoable, call, callsLeft, tainted>>
      /\ \/ /\ disk' = [disk EXCEPT ![Item.path] = Item.text]
            /\ patch' = [patch EXCEPT !.kept = k, !.step = next]
         \/ /\ disk' = disk
            /\ patch' = [patch EXCEPT !.kept = k, !.step = "back"]
  BY DEF WriteItem, actionVars
<1>2. /\ patch \in PatchRecord /\ k \in 1..Len(patch.items) /\ k \in Nat
      /\ Item = patch.items[k] /\ Item.path \in Paths /\ Item.text \in Texts
      /\ Len(patch.items) \in Nat
  <2>1. patch.kept < Len(patch.items) /\ Len(patch.items) \in Nat /\ patch.kept \in Nat
    BY <1>1, PatchNumbers DEF CallsAndPatch
  <2>2. k \in 1..Len(patch.items) /\ k \in Nat
    BY <2>1
  <2>3. patch \in PatchRecord
    BY DEF FileTypes
  <2>4. Item = patch.items[k]
    BY DEF Item
  <2> HIDE DEF k
  <2>5. patch.items[k].path \in Paths /\ patch.items[k].text \in Texts
    BY <2>2, PatchNumbers DEF Items
  <2> QED
    BY <2>1, <2>2, <2>3, <2>4, <2>5
<1>3. /\ patch' \in PatchRecord /\ patch'.items = patch.items /\ patch'.found = patch.found
      /\ patch'.kept = k /\ patch'.alone = patch.alone /\ patch'.backup = patch.backup
      /\ patch'.restored = patch.restored
      /\ \/ disk' = [disk EXCEPT ![Item.path] = Item.text] /\ patch'.step = next
         \/ disk' = disk /\ patch'.step = "back"
  BY <1>1, <1>2 DEF PatchRecord, PatchSteps
<1>4. disk' \in [Paths -> Held] /\ \A p \in Paths \ {Item.path} : disk'[p] = disk[p]
  BY <1>2, <1>3 DEF FileTypes, Held
<1>5. PatchPaths' = PatchPaths /\ ItemsDiffer' = ItemsDiffer
      /\ \A i : Copied(i)' = Copied(i) /\ NotCopied(i)' = NotCopied(i)
  BY <1>1, <1>3 DEF PatchPaths, ItemsDiffer, Copied, NotCopied, Existed
<1>6. FileTypes' /\ CallsAndPatch'
  BY <1>1, <1>2, <1>3, <1>4 DEF FileTypes, CallsAndPatch
<1>7. LogInv'
  <2>1. Item.path \in PatchPaths
    BY <1>2, PatchNumbers
  <2> QED
    BY <1>1, <1>4, <1>5, <2>1, PatchStepKeepsLog DEF Patching
<1>8. PatchInv'
  <2>0. patch.alone => \A a \in Agents : call[a].path \notin PatchPaths
    BY DEF PatchInv
  <2> SUFFICES ASSUME patch.alone, ItemsDiffer PROVE ItemsKept'
    BY <1>1, <1>3, <1>5, <2>0 DEF PatchInv
  <2>1. /\ \A i \in 1..Len(patch.items) : IF i <= patch.kept THEN Copied(i) ELSE AsFound(i)
        /\ Copied(k) /\ \A i \in 1..Len(patch.items) : i > k => NotCopied(i)
        /\ patch.restored = 0
    BY <1>1 DEF PatchInv, ItemsKept, CallsAndPatch
  <2>2. patch.kept \in 0..Len(patch.items)
    BY PatchNumbers
  <2>3. ASSUME NEW i \in 1..Len(patch.items), i # k PROVE AsFound(i)' = AsFound(i)
    <3>1. patch.items[i].path # Item.path /\ patch.items[i].path \in Paths
      BY <1>2, <2>3, PatchNumbers DEF ItemsDiffer
    <3> QED
      BY <1>3, <1>4, <3>1 DEF AsFound
  <2>4. \A i \in 1..Len(patch.items) : IF i <= k THEN Copied(i)' ELSE AsFound(i)'
    BY <1>2, <1>5, <2>1, <2>2, <2>3
  <2> QED
    BY <1>3, <1>5, <2>1, <2>4 DEF ItemsKept
<1> QED
  BY <1>6, <1>7, <1>8

LEMMA ManifestKeeps ==
  ASSUME FileInv, WriteManifest
  PROVE  FileInv'
<1> USE DEF FileInv
<1>1. /\ patch.step = "manifest" /\ Patching
      /\ UNCHANGED <<disk, actions, past, undoable, call, callsLeft, tainted>>
      /\ patch' = [patch EXCEPT !.step = "applied", !.listed = TRUE] \/ patch' = NoPatch
  BY DEF WriteManifest, actionVars, Patching
<1>2. CASE patch' = [patch EXCEPT !.step = "applied", !.listed = TRUE]
  <2>1. patch \in PatchRecord
    BY DEF FileTypes
  <2>2. /\ patch' \in PatchRecord /\ patch'.items = patch.items /\ patch'.found = patch.found
        /\ patch'.kept = patch.kept /\ patch'.alone = patch.alone
        /\ patch'.backup = patch.backup /\ patch'.step = "applied"
        /\ patch'.restored = patch.restored
    BY <1>2, <2>1 DEF PatchRecord, PatchSteps
  <2>3. PatchPaths' = PatchPaths /\ ItemsDiffer' = ItemsDiffer
        /\ \A i : Copied(i)' = Copied(i) /\ AsFound(i)' = AsFound(i)
    BY <1>1, <2>2 DEF PatchPaths, ItemsDiffer, Copied, AsFound, Existed
  <2>4. FileTypes' /\ CallsAndPatch'
    BY <1>1, <2>2 DEF FileTypes, CallsAndPatch
  <2>5. LogInv'
    BY <1>1, <2>3, PatchStepKeepsLog
  <2>6. PatchInv'
    BY <1>1, <2>2, <2>3 DEF PatchInv, ItemsKept
  <2> QED
    BY <2>4, <2>5, <2>6
<1>3. CASE patch' = NoPatch
  <2>1. FileTypes' /\ CallsAndPatch'
    BY <1>1, <1>3, FileNames DEF FileTypes, CallsAndPatch
  <2>2. PatchPaths' = {} /\ patch'.step = "none"
    BY <1>3, FileNames DEF PatchPaths
  <2>3. Len(patch'.items) = 0
    BY <1>3, FileNames
  <2>4. LogInv'
    BY <1>1, <2>2, PatchStepKeepsLog
  <2>5. PatchInv'
    BY <2>2 DEF PatchInv, ItemsKept, Patching
  <2> QED
    BY <2>1, <2>4, <2>5
<1> QED
  BY <1>1, <1>2, <1>3

\* A step of a patch that changes how far it is, and of its files none but those named.
LEMMA PatchMoves ==
  ASSUME FileInv, NEW which \in PatchSteps, NEW done \in Nat,
         patch.step # "none", which # "none",
         patch' = [patch EXCEPT !.step = which, !.restored = done]
  PROVE  /\ patch' \in PatchRecord /\ patch'.items = patch.items /\ patch'.found = patch.found
         /\ patch'.kept = patch.kept /\ patch'.alone = patch.alone
         /\ patch'.backup = patch.backup /\ patch'.step = which /\ patch'.restored = done
         /\ PatchPaths' = PatchPaths /\ ItemsDiffer' = ItemsDiffer
         /\ \A i : Copied(i)' = Copied(i)
<1>1. /\ patch' \in PatchRecord /\ patch'.items = patch.items /\ patch'.found = patch.found
      /\ patch'.kept = patch.kept /\ patch'.alone = patch.alone
      /\ patch'.backup = patch.backup /\ patch'.step = which /\ patch'.restored = done
  BY DEF FileInv, FileTypes, PatchRecord
<1> QED
  BY <1>1 DEF PatchPaths, ItemsDiffer, Copied, Existed

LEMMA RevertKeeps ==
  ASSUME FileInv, RevertPatch
  PROVE  FileInv'
<1> USE DEF FileInv
<1> DEFINE away == \A a \in Agents : call[a].path \notin PatchPaths
           b == patch.alone /\ away
<1>1. /\ patch.step \in {"applied", "reverted", "stopped"}
      /\ callsLeft > 0 /\ callsLeft' = callsLeft - 1
      /\ patch' = [patch EXCEPT !.step = "back", !.restored = 0, !.alone = b]
      /\ tainted' = tainted \cup PatchPaths
      /\ UNCHANGED <<disk, actions, past, undoable, call>>
  BY DEF RevertPatch, actionVars
<1>2. b \in BOOLEAN /\ (b => patch.alone)
  OBVIOUS
<1> HIDE DEF b
<1>3. /\ patch' \in PatchRecord /\ patch'.items = patch.items /\ patch'.found = patch.found
      /\ patch'.kept = patch.kept /\ patch'.alone = b
      /\ patch'.backup = patch.backup /\ patch'.step = "back" /\ patch'.restored = 0
  BY <1>1, <1>2 DEF FileTypes, PatchRecord, PatchSteps
<1>4. PatchPaths' = PatchPaths /\ ItemsDiffer' = ItemsDiffer
      /\ \A i : Copied(i)' = Copied(i) /\ AsFound(i)' = AsFound(i)
  BY <1>1, <1>3 DEF PatchPaths, ItemsDiffer, Copied, AsFound, Existed
<1>5. FileTypes'
  <2>1. PatchPaths \subseteq Paths
    BY PatchNumbers
  <2>2. callsLeft' \in 0..MaxFileCalls
    BY <1>1, FileNames DEF FileTypes
  <2> QED
    BY <1>1, <1>3, <2>1, <2>2 DEF FileTypes
<1>6. CallsAndPatch'
  BY <1>1, <1>3, PatchNumbers DEF CallsAndPatch
<1>7. LogInv'
  <2> SUFFICES ASSUME NEW p \in Paths \ tainted' PROVE LogOf(p)'
    BY DEF LogInv
  <2>1. LogOf(p) /\ p \notin PatchPaths
    BY <1>1 DEF LogInv
  <2>2. Len(actions) \in Nat
    BY LenProperties DEF FileTypes
  <2> QED
    BY <1>1, <1>4, <2>1, <2>2, LogStands
<1>8. PatchInv'
  <2> SUFFICES ASSUME b PROVE PatchInv'
    BY <1>2, <1>3, Zenon DEF PatchInv
  <2>1. away /\ patch.alone
    BY <1>2, Zenon DEF b
  <2>2. ItemsDiffer => \A i \in 1..Len(patch.items) : IF i <= patch.kept THEN Copied(i) ELSE AsFound(i)
    BY <1>1, <2>1 DEF PatchInv, ItemsKept
  <2>3. ItemsDiffer => ItemsKept'
    BY <1>3, <1>4, <2>2 DEF ItemsKept
  <2> QED
    BY <1>1, <1>4, <2>1, <2>3 DEF PatchInv
<1> QED
  BY <1>5, <1>6, <1>7, <1>8

LEMMA RevertItemKeeps ==
  ASSUME FileInv, RevertItem
  PROVE  FileInv'
<1> USE DEF FileInv
<1> DEFINE k == patch.restored + 1
           p == patch.items[k].path
<1>1. /\ patch.step = "back" /\ patch.restored < patch.kept
      /\ UNCHANGED <<actions, past, undoable, call, callsLeft, tainted>>
      /\ \/ /\ disk' = [disk EXCEPT ![p] = Restored(p)]
            /\ patch' = [patch EXCEPT !.restored = k]
         \/ /\ \E leaves \in LeftOf(p, Restored(p)) : disk' = [disk EXCEPT ![p] = leaves]
            /\ patch' = [patch EXCEPT !.step = "stopped"]
  BY DEF RevertItem, actionVars
<1>2. /\ patch.restored \in Nat /\ patch.kept \in Nat /\ Len(patch.items) \in Nat
      /\ k \in 1..Len(patch.items) /\ k <= patch.kept /\ k \in Nat
      /\ patch \in PatchRecord /\ patch.backup \in [Paths -> Held \cup {"none"}]
  BY <1>1, PatchNumbers DEF FileTypes, CallsAndPatch
<1>3. p \in Paths /\ p \in PatchPaths
  <2> HIDE DEF k
  <2> QED
    BY <1>2, PatchNumbers
<1>4. Restored(p) \in Held /\ LeftOf(p, Restored(p)) \subseteq Held
  BY <1>2, <1>3 DEF Restored, LeftOf, Held, FileTypes
<1>5. patch' = [patch EXCEPT !.step = "back", !.restored = k]
      \/ patch' = [patch EXCEPT !.step = "stopped", !.restored = patch.restored]
  BY <1>1, <1>2 DEF PatchRecord
<1>6. /\ patch' \in PatchRecord /\ patch'.items = patch.items /\ patch'.found = patch.found
      /\ patch'.kept = patch.kept /\ patch'.alone = patch.alone
      /\ patch'.backup = patch.backup
      /\ PatchPaths' = PatchPaths /\ ItemsDiffer' = ItemsDiffer
      /\ \A i : Copied(i)' = Copied(i)
      /\ \/ patch'.step = "back" /\ patch'.restored = k
         \/ patch'.step = "stopped" /\ patch'.restored = patch.restored
  <2>1. "back" \in PatchSteps /\ "stopped" \in PatchSteps
    BY DEF PatchSteps
  <2> HIDE DEF k
  <2> QED
    BY <1>1, <1>2, <1>5, <2>1, PatchMoves
<1> HIDE DEF p
<1>7. PICK leaves \in Held : disk' = [disk EXCEPT ![p] = leaves]
  BY <1>1, <1>4
<1>8. disk' \in [Paths -> Held] /\ \A q \in Paths \ {p} : disk'[q] = disk[q]
  BY <1>3, <1>7 DEF FileTypes
<1>9. FileTypes'
  BY <1>1, <1>6, <1>8 DEF FileTypes
<1>10. CallsAndPatch'
  BY <1>1, <1>2, <1>6 DEF CallsAndPatch
<1>11. LogInv'
  BY <1>1, <1>3, <1>6, <1>8, PatchStepKeepsLog DEF Patching
<1>12. PatchInv'
  <2>0. patch.alone => \A a \in Agents : call[a].path \notin PatchPaths
    BY DEF PatchInv
  <2> SUFFICES ASSUME patch.alone, ItemsDiffer PROVE ItemsKept'
    BY <1>1, <1>6, <2>0 DEF PatchInv
  <2>1. \A i \in 1..Len(patch.items) :
          /\ IF i <= patch.kept THEN Copied(i) ELSE AsFound(i)
          /\ i <= patch.restored => AsFound(i)
    BY <1>1 DEF PatchInv, ItemsKept
  <2>2. ASSUME NEW i \in 1..Len(patch.items), i # k, AsFound(i) PROVE AsFound(i)'
    <3>1. patch.items[i].path # p /\ patch.items[i].path \in Paths
      BY <1>2, <2>2, PatchNumbers DEF ItemsDiffer, p
    <3>2. disk'[patch.items[i].path] = disk[patch.items[i].path]
      BY <1>8, <3>1
    <3>3. patch'.items = patch.items /\ patch'.found = patch.found
      BY <1>6
    <3>4. disk[patch.items[i].path] = patch.found[i]
      BY <2>2 DEF AsFound
    <3> QED
      BY <3>2, <3>3, <3>4 DEF AsFound
  <2>2a. /\ \A i \in 1..Len(patch.items) : i > patch.kept \/ i <= patch.restored => i # k
         /\ \A i \in 1..Len(patch.items) : i <= k /\ i # k => i <= patch.restored
    BY <1>2
  <2>2b. \A i \in 1..Len(patch.items) : i <= patch.kept => Copied(i)'
    BY <1>6, <2>1
  <2>2c. \A i \in 1..Len(patch.items) : ~(i <= patch.kept) => AsFound(i) /\ i # k
    <3> SUFFICES ASSUME NEW i \in 1..Len(patch.items), ~(i <= patch.kept) PROVE AsFound(i) /\ i # k
      OBVIOUS
    <3>1. AsFound(i)
      BY <2>1 DEF AsFound, Copied
    <3>2. i # k
      BY <1>2
    <3> QED
      BY <3>1, <3>2, Zenon
  <2>2d. \A i \in 1..Len(patch.items) : ~(i <= patch.kept) => AsFound(i)'
    BY <2>2, <2>2c, Zenon
  <2>2e. \A i \in 1..Len(patch.items) : i <= patch.restored => AsFound(i)'
    <3> SUFFICES ASSUME NEW i \in 1..Len(patch.items), i <= patch.restored PROVE AsFound(i)'
      OBVIOUS
    <3>1. AsFound(i)
      BY <2>1 DEF AsFound, Copied
    <3>2. i # k
      BY <2>2a, Zenon
    <3> QED
      BY <2>2, <3>1, <3>2, Zenon
  <2>2f. k \in 1..Len(patch.items) /\ Copied(k) /\ patch.found[k] \in Held /\ "none" \notin Held
    BY <1>2, <2>1, PatchNumbers, FileNames
  <2> HIDE DEF k
  <2>3. CASE patch'.step = "stopped" /\ patch'.restored = patch.restored
    <3>1. ASSUME NEW i \in 1..Len(patch.items)
          PROVE  /\ IF i <= patch.kept THEN Copied(i)' ELSE AsFound(i)'
                 /\ i <= patch.restored => AsFound(i)'
      <4>1. CASE i <= patch.kept
        BY <2>2b, <2>2e, <4>1
      <4>2. CASE ~(i <= patch.kept)
        BY <2>2d, <2>2e, <4>2
      <4> QED
        BY <4>1, <4>2
    <3> QED
      BY <1>6, <2>3, <3>1 DEF ItemsKept
  <2>4. CASE patch'.step = "back" /\ patch'.restored = k
    <3>1. disk' = [disk EXCEPT ![p] = Restored(p)]
      <4>1. patch' # [patch EXCEPT !.step = "stopped"]
        BY <1>2, <2>4 DEF PatchRecord
      <4> QED
        BY <1>1, <4>1 DEF p
    <3>2. Restored(p) = patch.found[k]
      <4>1. patch.backup[p] = IF Existed(k) THEN patch.found[k] ELSE "none"
        BY <2>2f DEF Copied, p
      <4> QED
        BY <2>2f, <4>1 DEF Restored, Existed
    <3>3. ASSUME NEW i, i = k PROVE AsFound(i)'
      <4>1. disk'[p] = patch.found[k]
        BY <1>3, <3>1, <3>2 DEF FileTypes
      <4>2. patch'.items[i].path = p /\ patch'.found[i] = patch.found[k]
        BY <1>6, <3>3 DEF p
      <4> QED
        BY <4>1, <4>2 DEF AsFound
    <3>4. ASSUME NEW i \in 1..Len(patch.items)
          PROVE  /\ IF i <= patch.kept THEN Copied(i)' ELSE AsFound(i)'
                 /\ i <= k => AsFound(i)'
      <4>1. i <= k => AsFound(i)'
        <5> SUFFICES ASSUME i <= k PROVE AsFound(i)'
          OBVIOUS
        <5>1. CASE i = k
          BY <3>3, <5>1, Zenon
        <5>2. CASE i # k
          BY <2>2a, <2>2e, <5>2, Zenon
        <5> QED
          BY <5>1, <5>2, Zenon
      <4>2. CASE i <= patch.kept
        BY <2>2b, <4>1, <4>2
      <4>3. CASE ~(i <= patch.kept)
        BY <2>2d, <4>1, <4>3
      <4> QED
        BY <4>2, <4>3
    <3> QED
      BY <1>6, <2>4, <3>4 DEF ItemsKept
  <2> QED
    BY <1>6, <2>3, <2>4
<1> QED
  BY <1>9, <1>10, <1>11, <1>12

LEMMA RevertEndKeeps ==
  ASSUME FileInv, RevertEnds
  PROVE  FileInv'
<1> USE DEF FileInv
<1>1. /\ patch.step = "back" /\ patch.restored = patch.kept
      /\ patch' = [patch EXCEPT !.step = "reverted"]
      /\ UNCHANGED <<disk, actions, past, undoable, call, callsLeft, tainted>>
  BY DEF RevertEnds, actionVars
<1>2. /\ patch' \in PatchRecord /\ patch'.items = patch.items /\ patch'.found = patch.found
      /\ patch'.kept = patch.kept /\ patch'.alone = patch.alone
      /\ patch'.backup = patch.backup /\ patch'.step = "reverted"
      /\ patch'.restored = patch.restored
  BY <1>1 DEF FileTypes, PatchRecord, PatchSteps
<1>3. PatchPaths' = PatchPaths /\ ItemsDiffer' = ItemsDiffer
      /\ \A i : Copied(i)' = Copied(i) /\ AsFound(i)' = AsFound(i)
  BY <1>1, <1>2 DEF PatchPaths, ItemsDiffer, Copied, AsFound, Existed
<1>4. FileTypes' /\ CallsAndPatch'
  BY <1>1, <1>2 DEF FileTypes, CallsAndPatch
<1>5. LogInv'
  BY <1>1, <1>3, PatchStepKeepsLog DEF Patching
<1>6. PatchInv'
  BY <1>1, <1>2, <1>3 DEF PatchInv, ItemsKept
<1> QED
  BY <1>4, <1>5, <1>6

-----------------------------------------------------------------------------
LEMMA FileStarts == FileInit => FileInv
<1> SUFFICES ASSUME FileInit PROVE FileInv
  OBVIOUS
<1>1. /\ disk \in [Paths -> {"absent"} \cup Texts] /\ actions = <<>> /\ callsLeft = MaxFileCalls
      /\ call = [a \in Agents |-> NoCall] /\ patch = NoPatch /\ tainted = {}
      /\ past = [p \in Paths |-> <<>>] /\ undoable = [p \in Paths |-> <<>>]
  BY DEF FileInit
<1>2. <<>> \in Seq(Held) /\ <<>> \in Seq(Nat) /\ Len(<<>>) = 0
      /\ <<>> \in Seq([path : Paths, before : Held])
  BY EmptySeq
<1>3. disk \in [Paths -> Held]
  BY <1>1 DEF Held
<1>4. FileTypes
  BY <1>1, <1>2, <1>3, FileNames DEF FileTypes
<1>5. CallsAndPatch
  BY <1>1, FileNames DEF CallsAndPatch
<1>6. PatchPaths = {} /\ ~Patching
  BY <1>1, FileNames DEF PatchPaths, Patching
<1>7. LogInv
  BY <1>1, <1>2, <1>6, FileNames DEF LogInv, LogOf
<1>8. PatchInv
  BY <1>1, <1>6, FileNames DEF PatchInv, ItemsKept
<1> QED
  BY <1>4, <1>5, <1>7, <1>8 DEF FileInv

LEMMA FileStep == FileInv /\ [FileNext]_fileActionVars => FileInv'
<1> SUFFICES ASSUME FileInv, [FileNext]_fileActionVars PROVE FileInv'
  OBVIOUS
<1>1. CASE UNCHANGED fileActionVars
  BY <1>1
  DEF fileActionVars, FileInv, FileTypes, CallsAndPatch, LogInv, LogOf, PatchInv, ItemsKept,
      ItemsDiffer, Copied, NotCopied, AsFound, Existed, Patching, PatchPaths
<1>2. CASE FileNext
  BY <1>2, BeginningKeeps, WriteTextKeeps, RecordKeeps, CrashKeepsFiles, UndoKeeps,
     PlanKeeps, BackUpKeeps, WriteItemKeeps, ManifestKeeps, RevertKeeps,
     RevertItemKeeps, RevertEndKeeps DEF FileNext
<1> QED
  BY <1>1, <1>2

LEMMA LogGoesBack == FileInv => UndoGoesBack
<1> SUFFICES ASSUME FileInv, NEW p \in Paths, p \notin tainted, ~Busy(p)
             PROVE  /\ Len(undoable[p]) = Len(past[p])
                    /\ \A k \in DOMAIN past[p] : actions[undoable[p][k]].before = past[p][k]
  BY DEF UndoGoesBack
<1>1. LogOf(p) /\ past[p] \in Seq(Held)
  BY DEF FileInv, FileTypes, LogInv
<1>2. DOMAIN past[p] = 1..Len(past[p])
  BY <1>1, LenProperties
<1> QED
  BY <1>1, <1>2 DEF LogOf, Busy

\* As many files as items: no file is named twice.
LEMMA CountedItemsDiffer ==
  ASSUME FileInv, Cardinality(PatchPaths) = Len(patch.items)
  PROVE  ItemsDiffer
<1> DEFINE n == Len(patch.items)
           name == [i \in 1..n |-> patch.items[i].path]
<1>1. n \in Nat /\ PatchPaths = {patch.items[i].path : i \in 1..n}
  BY PatchNumbers DEF FileInv
<1>2. name \in Surjection(1..n, PatchPaths)
  BY <1>1 DEF Surjection
<1>3. IsFiniteSet(1..n) /\ Cardinality(1..n) = n
  <2>1. n \in Nat /\ n \in Int /\ 1 \in Int
    BY <1>1
  <2> HIDE DEF n
  <2>2. /\ IsFiniteSet(1..n)
        /\ Cardinality(1..n) = IF 1 <= n THEN n - 1 + 1 ELSE 0
    BY <2>1, FS_Interval
  <2> QED
    BY <2>1, <2>2
<1>4. name \in Injection(1..n, PatchPaths)
  BY <1>2, <1>3, FS_SurjSameCardinalityImpliesInj
<1> QED
  BY <1>1, <1>4 DEF ItemsDiffer, Injection, IsInjective

LEMMA PatchIsReverted == FileInv => PatchGoesBack
<1> SUFFICES ASSUME FileInv, patch.alone, Cardinality(PatchPaths) = Len(patch.items),
                    NEW i \in DOMAIN patch.items
             PROVE  /\ i \in 1..patch.restored \/ i > patch.kept => AsFound(i)
                    /\ i <= patch.kept => Restored(patch.items[i].path) = patch.found[i]
                    /\ patch.step = "reverted" => AsFound(i)
  BY DEF PatchGoesBack, AsFound
<1>1. ItemsDiffer /\ i \in 1..Len(patch.items) /\ patch.found[i] \in Held
      /\ Len(patch.items) \in Nat /\ patch.kept \in Nat /\ patch.restored \in 0..patch.kept
  BY CountedItemsDiffer, PatchNumbers DEF FileInv
<1>2. patch.step # "none" /\ Len(patch.items) # 0
  BY <1>1 DEF FileInv, CallsAndPatch
<1>3. /\ IF i <= patch.kept THEN Copied(i) ELSE AsFound(i)
      /\ i <= patch.restored => AsFound(i)
  BY <1>1, <1>2 DEF FileInv, PatchInv, ItemsKept
<1>4. i <= patch.kept => Restored(patch.items[i].path) = patch.found[i]
  BY <1>1, <1>3, FileNames DEF Copied, Restored, Existed
<1>5. patch.step = "reverted" => AsFound(i)
  BY <1>1, <1>3 DEF FileInv, CallsAndPatch
<1> QED
  BY <1>1, <1>3, <1>4, <1>5

LEMMA FileInvTypes == FileInv => FileTypeOK
BY DEF FileInv, FileTypes, FileTypeOK, CallRecord, PatchRecord, PatchSteps

-----------------------------------------------------------------------------
\* What tools have changed can be had back by undo, from the newest entry on, whichever
\* writes have failed; and a patch that goes back is as far back as its loop has come,
\* with all that is still to be restored in its backup, whatever failed and however often
\* it stopped or crashed: for any number of files, agents, calls and changes in a patch.
THEOREM FilesComeBack == FileSpec => [](UndoGoesBack /\ PatchGoesBack)
<1>1. FileInv => UndoGoesBack /\ PatchGoesBack
  BY LogGoesBack, PatchIsReverted
<1> QED
  BY <1>1, FileStarts, FileStep, PTL DEF FileSpec

\* The files, the log of the changes, the calls and the patch keep their types.
THEOREM FilesTypeCorrect == FileSpec => []FileTypeOK
BY FileStarts, FileStep, FileInvTypes, PTL DEF FileSpec

-----------------------------------------------------------------------------
LEMMA Bounds ==
  /\ EntrySizes \subseteq Nat /\ MaxBytes \in Nat /\ MaxFiles \in Nat
  /\ MaxWrites \in Nat /\ MaxLogRestarts \in Nat
BY RollingLogAssumption

USE Bounds DEF Files

\* The actions that change the bytes or the number of the files keep the types.
LEMMA LogTypeInit == LogInit => LogTypeOK
<1> SUFFICES ASSUME LogInit PROVE LogTypeOK
  OBVIOUS
<1>1. opened \in BOOLEAN /\ cut \in BOOLEAN
  BY Zenon DEF LogInit
<1>2. current \in Files
  BY DEF LogInit, Empty
<1>3. size \in Nat /\ rotations \in Nat /\ listing \in Nat
  BY DEF LogInit
<1>4. backups = {} /\ removing = {}
  BY DEF LogInit
<1>5. writes \in 0..MaxWrites /\ logRestarts \in 0..MaxLogRestarts
  BY DEF LogInit
<1> QED
  BY <1>1, <1>2, <1>3, <1>4, <1>5 DEF LogTypeOK

LEMMA AppendedType ==
  ASSUME NEW file \in Files, NEW n \in Nat
  PROVE Appended(file, n) \in Files
BY DEF Appended

LEMMA LogTypeStep == LogTypeOK /\ [LogNext]_logVars => LogTypeOK'
<1> SUFFICES ASSUME LogTypeOK, [LogNext]_logVars PROVE LogTypeOK'
  OBVIOUS
<1>1. ASSUME NEW n \in EntrySizes, Write(n) PROVE LogTypeOK'
  <2>1. current' \in Files /\ size' \in Nat
    <3>1. current \in Files /\ size \in Nat /\ n \in Nat
      BY DEF LogTypeOK
    <3>2. Appended(current, n) \in Files
      BY <3>1, AppendedType
    <3>3. \/ current' = Appended(current, n) /\ size' = size + n
          \/ UNCHANGED <<current, size>>
      BY <1>1, Zenon DEF Write
    <3> QED
      BY <3>1, <3>2, <3>3
  <2>2. writes' \in 0..MaxWrites
    BY <1>1 DEF LogTypeOK, Write
  <2>3. UNCHANGED <<opened, rotations, backups, listing, removing, cut, logRestarts>>
    BY <1>1 DEF Write
  <2> QED
    BY <2>1, <2>2, <2>3, Zenon DEF LogTypeOK
<1>2. ASSUME NEW n \in EntrySizes, RotateAndWrite(n) PROVE LogTypeOK'
  <2>1. /\ rotations' \in Nat /\ rotations <= rotations'
        /\ backups' \subseteq 1..rotations'
    <3>1. \/ UNCHANGED <<rotations, backups>>
          \/ rotations' = rotations + 1 /\ backups' = backups \cup {rotations + 1}
      BY <1>2, Zenon DEF RotateAndWrite, Renamed, Rotated
    <3>2. rotations \in Nat /\ \A b \in backups : b \in Nat /\ 1 <= b /\ b <= rotations
      BY DEF LogTypeOK
    <3>3. /\ rotations' \in Nat /\ rotations <= rotations'
          /\ \A b \in backups' : b \in Nat /\ 1 <= b /\ b <= rotations'
      BY <3>1, <3>2
    <3> QED
      BY <3>3
  <2>2. /\ current' \in Files /\ size' \in Nat /\ listing' \in Nat
    <3>1. /\ current \in Files /\ size \in Nat /\ listing \in Nat /\ n \in Nat
          /\ Absent \in Files /\ Appended(Empty, n) \in Files
          /\ OpenedSize(Absent, size) + n \in Nat
      BY DEF LogTypeOK, Absent, Empty, Appended, OpenedSize
    <3>2. \/ UNCHANGED <<current, size, listing>>
          \/ current' = Absent /\ UNCHANGED <<size, listing>>
          \/ /\ current' = Appended(Empty, n)
             /\ size' = OpenedSize(Absent, size) + n
             /\ listing' = listing + 1
      BY <1>2, Zenon DEF RotateAndWrite
    <3> QED
      BY <3>1, <3>2
  <2>5. opened' \in BOOLEAN /\ cut' \in BOOLEAN
    BY <1>2, Zenon DEF LogTypeOK, RotateAndWrite
  <2>3. removing' \subseteq SUBSET (1..rotations')
    BY <1>2, <2>1 DEF LogTypeOK, RotateAndWrite
  <2>4. writes' \in 0..MaxWrites /\ logRestarts' \in 0..MaxLogRestarts
    BY <1>2 DEF LogTypeOK, RotateAndWrite
  <2> QED
    BY <2>1, <2>2, <2>3, <2>4, <2>5, Zenon DEF LogTypeOK
<1>3. CASE List
  <2>1. Surplus(backups) \subseteq 1..rotations
    BY DEF LogTypeOK, Surplus
  <2>2. listing' \in Nat
    BY <1>3 DEF LogTypeOK, List
  <2>3. removing' \subseteq SUBSET (1..rotations)
    BY <1>3, <2>1 DEF LogTypeOK, List
  <2>4. UNCHANGED <<current, opened, size, rotations, backups, cut, writes, logRestarts>>
    BY <1>3 DEF List
  <2> QED
    BY <2>2, <2>3, <2>4, Zenon DEF LogTypeOK
<1>4. ASSUME NEW rest \in removing, RemoveSurplus(rest) PROVE LogTypeOK'
  <2>1. backups' \subseteq backups /\ removing' \subseteq SUBSET (1..rotations)
    <3>1. CASE rest = {}
      BY <1>4, <3>1 DEF LogTypeOK, RemoveSurplus
    <3>2. ASSUME NEW i \in rest, RemoveOne(rest, i)
          PROVE  backups' \subseteq backups /\ removing' \subseteq SUBSET (1..rotations)
      <4>1. rest \subseteq 1..rotations
        BY DEF LogTypeOK
      <4> QED
        BY <3>2, <4>1 DEF LogTypeOK, RemoveOne
    <3> QED
      BY <1>4, <3>1, <3>2 DEF RemoveSurplus
  <2> QED
    BY <1>4, <2>1 DEF LogTypeOK, RemoveSurplus
<1>5. CASE LogRestart
  BY <1>5 DEF LogTypeOK, LogRestart, OpenedSize, Empty
<1>6. CASE UNCHANGED logVars
  BY <1>6 DEF LogTypeOK, logVars
<1> QED
  BY <1>1, <1>2, <1>3, <1>4, <1>5, <1>6 DEF LogNext

\* The variables of the rolling log keep their types (RollingWriter).
THEOREM LogTypeCorrect == LogSpec => []LogTypeOK
BY LogTypeInit, LogTypeStep, PTL DEF LogSpec

\* What Write relies on when it compares size with the limit.
SizeCoversFile == current.bytes <= size

LimitInv == LogTypeOK /\ SizeCoversFile /\ FileWithinLimit

LEMMA LimitStep == LimitInv /\ [LogNext]_logVars => LimitInv'
<1> SUFFICES ASSUME LimitInv, [LogNext]_logVars PROVE SizeCoversFile' /\ FileWithinLimit'
  BY LogTypeStep DEF LimitInv
<1> USE DEF LimitInv, LogTypeOK, SizeCoversFile, FileWithinLimit
<1>1. ASSUME NEW n \in EntrySizes, Write(n) PROVE SizeCoversFile' /\ FileWithinLimit'
  BY <1>1 DEF Write, Appended, Fits
<1>2. ASSUME NEW n \in EntrySizes, RotateAndWrite(n)
      PROVE SizeCoversFile' /\ FileWithinLimit'
  BY <1>2 DEF RotateAndWrite, Appended, Absent, Empty, OpenedSize
<1>3. CASE List
  BY <1>3 DEF List
<1>4. ASSUME NEW rest \in removing, RemoveSurplus(rest) PROVE SizeCoversFile' /\ FileWithinLimit'
  BY <1>4 DEF RemoveSurplus
<1>5. CASE LogRestart
  BY <1>5 DEF LogRestart, OpenedSize, Empty
<1>6. CASE UNCHANGED logVars
  BY <1>6 DEF logVars
<1> QED
  BY <1>1, <1>2, <1>3, <1>4, <1>5, <1>6 DEF LogNext

\* The log file never grows beyond maxBytes, but for a single long entry,
\* whatever fails and however often the process restarts (Write, rotate, open).
THEOREM WithinLimit == LogSpec => []FileWithinLimit
<1>1. LogInit => LimitInv
  BY LogTypeInit DEF LogInit, LimitInv, SizeCoversFile, FileWithinLimit, Empty
<1>2. LimitInv => FileWithinLimit
  BY DEF LimitInv
<1> QED
  BY <1>1, <1>2, LimitStep, PTL DEF LogSpec

-----------------------------------------------------------------------------
\* Of files numbered up to r, a surplus one has maxFiles others after it.
LEMMA SurplusIsOld ==
  ASSUME NEW r \in Nat, NEW files \in SUBSET (1..r), NEW i \in Surplus(files)
  PROVE  i + MaxFiles <= r
<1> DEFINE later == {j \in files : j > i}
<1>1. i \in 1..r /\ Cardinality(later) >= MaxFiles /\ MaxFiles >= 1
  BY RollingLogAssumption DEF Surplus
<1>2. later \subseteq (i + 1)..r
  <2> SUFFICES ASSUME NEW j \in files, j > i PROVE j \in (i + 1)..r
    OBVIOUS
  <2> QED
    BY <1>1
<1>3. /\ IsFiniteSet((i + 1)..r)
      /\ Cardinality((i + 1)..r) = IF i + 1 > r THEN 0 ELSE r - (i + 1) + 1
  BY <1>1, FS_Interval
<1> HIDE DEF later
<1>4. Cardinality(later) <= Cardinality((i + 1)..r) /\ Cardinality(later) \in Nat
  BY <1>2, <1>3, FS_Subset, FS_CardinalityType
<1> QED
  BY <1>1, <1>3, <1>4

RemovingIsOld == \A rest \in removing : \A i \in rest : i + MaxFiles <= rotations

KeptInv == LogTypeOK /\ RemovingIsOld /\ NewestKept

LEMMA KeptStep == KeptInv /\ [LogNext]_logVars => KeptInv'
<1> SUFFICES ASSUME KeptInv, [LogNext]_logVars PROVE RemovingIsOld' /\ NewestKept'
  BY LogTypeStep DEF KeptInv
<1> USE DEF KeptInv, LogTypeOK, RemovingIsOld, NewestKept
<1>1. ASSUME NEW n \in EntrySizes, Write(n) PROVE RemovingIsOld' /\ NewestKept'
  BY <1>1 DEF Write
<1>2. ASSUME NEW n \in EntrySizes, RotateAndWrite(n) PROVE RemovingIsOld' /\ NewestKept'
  <2>1. UNCHANGED removing
    BY <1>2 DEF RotateAndWrite
  <2>2. UNCHANGED <<rotations, backups>> \/ Renamed
    BY <1>2, Zenon DEF RotateAndWrite
  <2>3. CASE UNCHANGED <<rotations, backups>>
    BY <2>1, <2>3
  <2>4. CASE rotations' = rotations + 1 /\ backups' = backups \cup {rotations + 1}
    <3>1. RemovingIsOld'
      <4> SUFFICES ASSUME NEW rest \in removing, NEW i \in rest
                   PROVE  i + MaxFiles <= rotations + 1
        BY <2>1, <2>4
      <4>1. i + MaxFiles <= rotations /\ i \in Nat
        OBVIOUS
      <4> QED
        BY <4>1
    <3>2. NewestKept'
      <4> SUFFICES ASSUME NEW i \in 1..(rotations + 1), i + MaxFiles > rotations + 1
                   PROVE  i \in backups'
        BY <2>4
      <4>1. CASE i = rotations + 1
        BY <2>4, <4>1
      <4>2. CASE i \in 1..rotations
        BY <2>4, <4>2
      <4> QED
        BY <4>1, <4>2
    <3> QED
      BY <3>1, <3>2
  <2>5. ASSUME Renamed, ~UNCHANGED <<rotations, backups>>
        PROVE  rotations' = rotations + 1 /\ backups' = backups \cup {rotations + 1}
    BY <2>5, Zenon DEF Renamed, Rotated
  <2> QED
    BY <2>2, <2>3, <2>4, <2>5
<1>3. CASE List
  <2>1. backups \in SUBSET (1..rotations) /\ rotations \in Nat
    OBVIOUS
  <2>2. removing' = removing \cup {Surplus(backups)} /\ UNCHANGED <<rotations, backups>>
    BY <1>3 DEF List
  <2>3. \A i \in Surplus(backups) : i + MaxFiles <= rotations
    BY <2>1, SurplusIsOld
  <2> QED
    BY <2>2, <2>3
<1>4. ASSUME NEW rest \in removing, RemoveSurplus(rest) PROVE RemovingIsOld' /\ NewestKept'
  <2>1. CASE rest = {}
    BY <1>4, <2>1 DEF RemoveSurplus
  <2>2. ASSUME NEW i \in rest, RemoveOne(rest, i) PROVE RemovingIsOld' /\ NewestKept'
    <3>1. /\ removing' = (removing \ {rest}) \cup {rest \ {i}}
          /\ backups' = backups \ {i}
          /\ UNCHANGED rotations
      BY <1>4, <2>2 DEF RemoveOne, RemoveSurplus
    <3>4. i \in 1..rotations
      OBVIOUS
    <3>5. i + MaxFiles <= rotations
      BY <3>4
    <3>6. RemovingIsOld'
      BY <3>1
    <3>7. NewestKept'
      BY <3>1, <3>5
    <3> QED
      BY <3>6, <3>7
  <2> QED
    BY <1>4, <2>1, <2>2 DEF RemoveSurplus
<1>5. CASE LogRestart
  BY <1>5 DEF LogRestart
<1>6. CASE UNCHANGED logVars
  BY <1>6 DEF logVars
<1> QED
  BY <1>1, <1>2, <1>3, <1>4, <1>5, <1>6 DEF LogNext

-----------------------------------------------------------------------------
\* What a cleanup that reads the directory does not remove is one of the newest
\* maxFiles, if these are all there.
LEMMA OldIsSurplus ==
  ASSUME NEW r \in Nat, NEW files \in SUBSET (1..r), NEW i \in files,
         \A j \in 1..r : j + MaxFiles > r => j \in files,
         i + MaxFiles <= r
  PROVE  i \in Surplus(files)
<1> DEFINE later == {j \in files : j > i}
           newest == (r - MaxFiles + 1)..r
<1>1. i \in 1..r /\ MaxFiles \in Nat /\ MaxFiles >= 1
  BY RollingLogAssumption
<1>2. newest \subseteq later
  <2> SUFFICES ASSUME NEW j \in newest PROVE j \in files /\ j > i
    OBVIOUS
  <2> QED
    BY <1>1
<1>3. Cardinality(newest) = MaxFiles
  <2>1. Cardinality(newest) =
          IF r - MaxFiles + 1 > r THEN 0 ELSE r - (r - MaxFiles + 1) + 1
    BY <1>1, FS_Interval
  <2> QED
    BY <1>1, <2>1
<1>4. IsFiniteSet(later)
  <2>1. IsFiniteSet(1..r)
    BY FS_Interval
  <2>2. later \subseteq 1..r
    OBVIOUS
  <2> QED
    BY <2>1, <2>2, FS_Subset
<1> HIDE DEF later, newest
<1>5. Cardinality(later) >= MaxFiles
  BY <1>1, <1>2, <1>3, <1>4, FS_Subset, FS_CardinalityType
<1> QED
  BY <1>5 DEF Surplus, later

\* An old backup is one that some cleanup has settled on, or has yet to read.
OldIsDue ==
  cut \/ listing > 0 \/
  \A b \in backups : b + MaxFiles > rotations \/ \E rest \in removing : b \in rest

DueInv == KeptInv /\ OldIsDue

LEMMA DueStep == KeptInv /\ OldIsDue /\ [LogNext]_logVars => OldIsDue'
<1> SUFFICES ASSUME KeptInv, OldIsDue, [LogNext]_logVars PROVE OldIsDue'
  OBVIOUS
<1>0. LogTypeOK /\ NewestKept
  BY DEF KeptInv
<1>1. ASSUME NEW n \in EntrySizes, Write(n) PROVE OldIsDue'
  BY <1>1 DEF Write, OldIsDue
<1>2. ASSUME NEW n \in EntrySizes, RotateAndWrite(n) PROVE OldIsDue'
  <2>1. \/ UNCHANGED <<rotations, backups, listing, cut>>
        \/ cut' = TRUE
        \/ listing' = listing + 1
    BY <1>2, Zenon DEF RotateAndWrite
  <2>2. UNCHANGED removing /\ listing \in Nat
    BY <1>0, <1>2 DEF RotateAndWrite, LogTypeOK
  <2> QED
    BY <2>1, <2>2 DEF OldIsDue
<1>3. CASE List
  <2>1. /\ removing' = removing \cup {Surplus(backups)}
        /\ UNCHANGED <<rotations, backups, cut>>
    BY <1>3 DEF List
  <2>2. backups \in SUBSET (1..rotations) /\ rotations \in Nat
    BY <1>0 DEF LogTypeOK
  <2>3. \A j \in 1..rotations : j + MaxFiles > rotations => j \in backups
    BY <1>0 DEF NewestKept
  <2>4. ASSUME NEW b \in backups, ~(b + MaxFiles > rotations)
        PROVE  b \in Surplus(backups)
    <3>1. b \in 1..rotations /\ b + MaxFiles <= rotations
      BY <2>2, <2>4, RollingLogAssumption
    <3> QED
      BY <2>2, <2>3, <3>1, OldIsSurplus
  <2> QED
    BY <2>1, <2>4 DEF OldIsDue
<1>4. ASSUME NEW rest \in removing, RemoveSurplus(rest) PROVE OldIsDue'
  <2>1. CASE rest = {}
    BY <1>4, <2>1 DEF RemoveSurplus, OldIsDue
  <2>2. ASSUME NEW i \in rest, RemoveOne(rest, i) PROVE OldIsDue'
    <3>1. /\ removing' = (removing \ {rest}) \cup {rest \ {i}}
          /\ backups' = backups \ {i}
          /\ UNCHANGED <<rotations, listing, cut>>
      BY <1>4, <2>2 DEF RemoveOne, RemoveSurplus
    <3>2. \A b \in backups' : \A set \in removing :
            b \in set => \E other \in removing' : b \in other
      BY <3>1
    <3> QED
      BY <3>1, <3>2 DEF OldIsDue
  <2> QED
    BY <1>4, <2>1, <2>2 DEF RemoveSurplus
<1>5. CASE LogRestart
  <2>1. cut' = (cut \/ listing > 0 \/ removing # {})
    BY <1>5, Zenon DEF LogRestart
  <2>2. CASE cut \/ listing > 0 \/ removing # {}
    BY <2>1, <2>2, Zenon DEF OldIsDue
  <2>3. CASE ~(cut \/ listing > 0 \/ removing # {})
    <3>1. \A b \in backups : b + MaxFiles > rotations
      BY <2>3 DEF OldIsDue
    <3> QED
      BY <1>5, <3>1 DEF LogRestart, OldIsDue
  <2> QED
    BY <2>2, <2>3
<1>6. CASE UNCHANGED logVars
  BY <1>6 DEF logVars, OldIsDue
<1> QED
  BY <1>1, <1>2, <1>3, <1>4, <1>5, <1>6 DEF LogNext

LEMMA DueIsBounded == DueInv => BackupsBounded
<1> SUFFICES ASSUME DueInv, listing = 0, removing = {}, ~cut
             PROVE  Cardinality(backups) <= MaxFiles
  BY DEF BackupsBounded
<1> DEFINE newest == (rotations - MaxFiles + 1)..rotations
<1>1. /\ rotations \in Nat /\ MaxFiles \in Nat /\ MaxFiles >= 1
      /\ backups \subseteq 1..rotations
  BY RollingLogAssumption DEF DueInv, KeptInv, LogTypeOK
<1>2. \A b \in backups : b + MaxFiles > rotations
  BY DEF DueInv, OldIsDue
<1>3. backups \subseteq newest
  BY <1>1, <1>2
<1>4. IsFiniteSet(newest) /\ Cardinality(newest) = MaxFiles
  <2>1. /\ IsFiniteSet(newest)
        /\ Cardinality(newest) = IF rotations - MaxFiles + 1 > rotations THEN 0
                                 ELSE rotations - (rotations - MaxFiles + 1) + 1
    BY <1>1, FS_Interval
  <2> QED
    BY <1>1, <2>1
<1> HIDE DEF newest
<1> QED
  BY <1>3, <1>4, FS_Subset

\* However many cleanups run at once, with each other and with rotations, the newest
\* maxFiles backups stay, and once the cleanups have run there are no more than these,
\* unless a rotation failed half way or a restart ended a cleanup (rotate, cleanup).
THEOREM BackupsStay == LogSpec => []BackupsKept
<1>1. LogInit => DueInv
  <2>1. LogInit => KeptInv
    BY LogTypeInit DEF LogInit, KeptInv, RemovingIsOld, NewestKept
  <2>2. LogInit => OldIsDue
    BY DEF LogInit, OldIsDue
  <2> QED
    BY <2>1, <2>2 DEF DueInv
<1>2. DueInv /\ [LogNext]_logVars => DueInv'
  BY KeptStep, DueStep DEF DueInv, KeptInv
<1>3. DueInv => BackupsKept
  BY DueIsBounded DEF DueInv, KeptInv, BackupsKept
<1> QED
  BY <1>1, <1>2, <1>3, PTL DEF LogSpec

-----------------------------------------------------------------------------
LEMMA LogAsPart == ServicesSpec => LogSpec
<1>1. ServicesInit => LogInit
  BY DEF ServicesInit
<1>2. [ServicesNext]_servicesVars => [LogNext]_logVars
  BY DEF ServicesNext, Others, servicesVars
<1> QED
  BY <1>1, <1>2, PTL DEF ServicesSpec, LogSpec

\* The log keeps its types among the others.
LEMMA FilesTyped == ServicesSpec => []LogTypeOK
BY LogAsPart, LogTypeCorrect, PTL
=============================================================================
