------------------------------- MODULE Persona -------------------------------
(***************************************************************************)
(* The files of the workspace in the prompt (internal/workspace): each run *)
(* of the agent looks for changed files, reloads them under a lock, and    *)
(* takes the loaded fields without it, while the owner edits the files and *)
(* the dashboard renames the assistant.                                    *)
(*                                                                         *)
(* user.md, read like identity.md but with nothing to fall back on,        *)
(* IDENTITY.md, read like SOUL.md, and memory.md, which no prompt uses,    *)
(* are left out.  A text is "blank" or one of Notes; a file that cannot    *)
(* be read is "sealed", and only for identity.md that is not the same as   *)
(* having no file.                                                         *)
(***************************************************************************)
EXTENDS Naturals, FiniteSets

CONSTANTS
  Notes,      \* what a file may say
  Prompters,  \* runs of the agent at a time
  MaxNotes    \* changes of files (a bound)

ASSUME PersonaAssumption ==
  Notes \cap {"absent", "sealed", "blank", "none", "garbled"} = {} /\ MaxNotes \in Nat

VARIABLES
  notes,     \* what the files hold
  sums,      \* Workspace.checksums: the text a checksum was taken of
  loaded,    \* Workspace.Identity and AssistantName
  prompter,  \* by run: where it is, what it is loading, what it took
  renaming,  \* the dashboard's rename: where it is, the text of identity.md
  edits,
  window,    \* ghost, by run: what files have held since it looked
  emptied,   \* ghost: files that were gone, blank or passed over after their checksum was taken
  torn       \* ghost: runs that took a field that was being assigned

personaVars == <<notes, sums, loaded, prompter, renaming, edits, window, emptied, torn>>

Tracked == {"identity.md", "SOUL.md"}
Display == "assistant.yaml"
PersonaFiles == Tracked \cup {Display}
Gone == {"absent", "sealed"}
Contents == Notes \cup Gone \cup {"blank"}
Fields == {"identity", "name"}
NoFields == [f \in Fields |-> "none"]
NotPrompting == [step |-> "idle", next |-> NoFields, took |-> NoFields]

Said(file) == IF notes[file] \in Gone THEN "blank" ELSE notes[file]
Says(file) == Said(file) # "blank"

\* Load, when the program starts.
PersonaInit ==
  /\ notes \in [PersonaFiles -> {"absent"} \cup Notes]
  /\ sums = [f \in PersonaFiles |->
       IF f # Display /\ Says(f) /\ (f = "SOUL.md" => ~Says("identity.md"))
       THEN notes[f] ELSE "none"]
  /\ loaded = [identity |-> IF Says("identity.md") THEN Said("identity.md") ELSE Said("SOUL.md"),
               name |-> Said(Display)]
  /\ prompter = [r \in Prompters |-> NotPrompting]
  /\ renaming = [step |-> "idle", text |-> "absent"]
  /\ edits = 0 /\ torn = {}
  /\ emptied = {f \in Tracked : ~Says(f)}
  /\ window = [r \in Prompters |-> [f \in PersonaFiles |-> {}]]

\* A file changes.
Hold(file, text) ==
  /\ notes' = [notes EXCEPT ![file] = text]
  /\ window' = [r \in Prompters |->
       IF prompter[r].step = "idle" THEN window[r] ELSE [window[r] EXCEPT ![file] = @ \cup {text}]]
  /\ emptied' = IF text \in Gone \cup {"blank"} THEN emptied \cup ({file} \cap Tracked) ELSE emptied

EditNote(file, text) ==
  /\ edits < MaxNotes /\ edits' = edits + 1
  /\ text # notes[file] /\ (text = "sealed" => file = "identity.md")
  /\ Hold(file, text)
  /\ UNCHANGED <<sums, loaded, prompter, renaming, torn>>

\* PUT /api/v1/assistant, and the assistant_display tool: SaveAssistantDisplay, then
\* UpdateIdentityFileWithName.  os.WriteFile empties a file before it fills it.
RenameBegins ==
  /\ renaming.step = "idle" /\ edits < MaxNotes /\ edits' = edits + 1
  /\ Hold(Display, "blank")
  /\ renaming' = [renaming EXCEPT !.step = "display"]
  /\ UNCHANGED <<sums, loaded, prompter, torn>>

DisplaySaved(text) ==
  /\ renaming.step = "display"
  /\ Hold(Display, text)
  /\ renaming' = [renaming EXCEPT !.step = "identity"]
  /\ UNCHANGED <<sums, loaded, prompter, edits, torn>>

ReadIdentityFile ==
  /\ renaming.step = "identity"
  /\ renaming' = [step |-> IF notes["identity.md"] \in Gone THEN "idle" ELSE "empty",
                  text |-> notes["identity.md"]]
  /\ UNCHANGED <<notes, sums, loaded, prompter, edits, window, emptied, torn>>

\* The name is replaced in what was read; who has written in between has lost it.
WriteIdentityFile ==
  /\ \/ /\ renaming.step = "empty" /\ notes["identity.md"] # "sealed"
        /\ Hold("identity.md", "blank")
        /\ renaming' = [renaming EXCEPT !.step = "fill"]
     \/ /\ renaming.step = "fill" /\ notes["identity.md"] # "sealed"
        /\ Hold("identity.md", renaming.text)
        /\ renaming' = [step |-> "idle", text |-> "absent"]
     \/ /\ renaming.step \in {"empty", "fill"} /\ notes["identity.md"] = "sealed"
        /\ Hold("identity.md", "sealed")
        /\ renaming' = [step |-> "idle", text |-> "absent"]
  /\ UNCHANGED <<sums, loaded, prompter, edits, torn>>

-----------------------------------------------------------------------------
(* A run.                                                                  *)

Loading == {"identity", "name", "assign"}
Locked == \E r \in Prompters : prompter[r].step \in Loading

Goes(r, step) == prompter' = [prompter EXCEPT ![r].step = step]

\* Mutant of Changed: a file that was not loaded yet has not changed.
ChangedKnown(file) == notes[file] \notin Gone /\ sums[file] # "none" /\ notes[file] # sums[file]

\* A file that cannot be read is passed over; one without a checksum has changed.
Changed(file) == notes[file] \notin Gone /\ notes[file] # sums[file]

\* RefreshIfChanged looks at one file after the other; here at all of them at once,
\* which only makes the time a prompt may be about shorter.  Where all files are back
\* with the texts of their checksums, what they were meanwhile counts as seen.
LookForChanges(r) ==
  LET changed == \E f \in PersonaFiles : Changed(f)
      missed == {text \in {"blank"} : Tracked \subseteq emptied /\ ~changed}
  IN /\ prompter[r].step = "idle" /\ ~Locked
     /\ Goes(r, IF changed THEN "identity" ELSE "takeIdentity")
     /\ window' = [window EXCEPT ![r] = [f \in PersonaFiles |->
          {notes[f]} \cup (IF f \in Tracked THEN missed ELSE {})]]
     /\ UNCHANGED <<notes, sums, loaded, renaming, edits, emptied, torn>>

\* readFile keeps a checksum of what is not blank.
Sum(file) == IF Says(file) THEN [sums EXCEPT ![file] = notes[file]] ELSE sums

LoadField(r, field, text, next) ==
  prompter' = [prompter EXCEPT ![r].step = next, ![r].next[field] = text]

\* readIdentity: the first file that says something, but an error ends the search.
LoadIdentity(r) ==
  /\ prompter[r].step = "identity"
  /\ LET file == IF Says("identity.md") THEN "identity.md" ELSE "SOUL.md"
     IN IF notes["identity.md"] = "sealed"
        THEN /\ LoadField(r, "identity", "blank", "name") /\ UNCHANGED sums
             /\ emptied' = Tracked
        ELSE /\ LoadField(r, "identity", Said(file), "name") /\ sums' = Sum(file)
             /\ emptied' = IF Says(file) THEN emptied \ {file} ELSE emptied
  /\ UNCHANGED <<notes, loaded, renaming, edits, window, torn>>

\* LoadAssistantDisplay: a file without a name gives the default, as no file does.
LoadDisplay(r) ==
  /\ prompter[r].step = "name"
  /\ LoadField(r, "name", Said(Display), "assign")
  /\ UNCHANGED <<notes, sums, loaded, renaming, edits, window, emptied, torn>>

AssignFields(r) ==
  /\ prompter[r].step = "assign"
  /\ loaded' = prompter[r].next
  /\ prompter' = [prompter EXCEPT ![r].step = "takeIdentity", ![r].next = NoFields]
  /\ UNCHANGED <<notes, sums, renaming, edits, window, emptied, torn>>

\* Run reads the fields without the lock: one that another run is assigning is the
\* old text, the new one, or the bytes of one with the length of the other.
TakeField(r, at, field, next) ==
  LET racing == {q \in Prompters \ {r} : prompter[q].step = "assign"}
      new == {prompter[q].next[field] : q \in racing}
      torn2 == {text \in {"garbled"} : new \ {loaded[field]} # {}}
  IN /\ prompter[r].step = at
     /\ \E text \in {loaded[field]} \cup new \cup torn2 :
          prompter' = [prompter EXCEPT ![r].step = next, ![r].took[field] = text]
     /\ torn' = IF racing = {} THEN torn ELSE torn \cup {r}
     /\ UNCHANGED <<notes, sums, loaded, renaming, edits, window, emptied>>

Prompted(r) ==
  /\ prompter[r].step = "done"
  /\ prompter' = [prompter EXCEPT ![r] = NotPrompting]
  /\ window' = [window EXCEPT ![r] = [f \in PersonaFiles |-> {}]]
  /\ torn' = torn \ {r}
  /\ UNCHANGED <<notes, sums, loaded, renaming, edits, emptied>>

PersonaNext ==
  \/ \E f \in PersonaFiles, text \in Contents : EditNote(f, text)
  \/ RenameBegins
  \/ \E text \in Notes : DisplaySaved(text)
  \/ ReadIdentityFile
  \/ WriteIdentityFile
  \/ \E r \in Prompters :
       \/ LookForChanges(r)
       \/ LoadIdentity(r)
       \/ LoadDisplay(r)
       \/ AssignFields(r)
       \/ TakeField(r, "takeIdentity", "identity", "takeName")
       \/ TakeField(r, "takeName", "name", "done")
       \/ Prompted(r)

PersonaSpec == PersonaInit /\ [][PersonaNext]_personaVars

-----------------------------------------------------------------------------
PersonaTypeOK ==
  /\ notes \in [PersonaFiles -> Contents] /\ sums \in [PersonaFiles -> Notes \cup {"none"}]
  /\ loaded \in [Fields -> Contents] /\ edits \in 0..MaxNotes
  /\ \A r \in Prompters :
       /\ prompter[r].step \in {"idle", "done"} \cup Loading \cup {"takeIdentity", "takeName"}
       /\ prompter[r].took \in [Fields -> Contents \cup {"none", "garbled"}]
  /\ renaming.step \in {"idle", "display", "identity", "empty", "fill"}
  /\ emptied \subseteq Tracked /\ torn \subseteq Prompters

Seen(r, file) == {IF t \in Gone THEN "blank" ELSE t : t \in window[r][file]}

\* "RefreshIfChanged re-reads files if their checksums have changed": the prompt of a
\* run has texts that its files have held since the run began to look, whoever edits,
\* renames or reloads in between.  Only a file that is gone, or that cannot be read, may
\* go unnoticed (and, since assistant.yaml never gets a checksum, only where there is
\* none); files that are back with the texts they had before they were blank or passed
\* over leave what was loaded meanwhile; and a run that reads while another assigns may
\* get a text that nobody wrote.
PersonaIsFresh ==
  \A r \in Prompters : prompter[r].step = "done" /\ r \notin torn =>
    /\ prompter[r].took.name \in Seen(r, Display) \/ window[r][Display] \cap Gone # {}
    /\ \/ prompter[r].took.identity \in UNION {Seen(r, file) : file \in Tracked}
       \/ /\ window[r][Display] \cap Gone # {}
          /\ \E file \in Tracked : window[r][file] \cap Gone # {}
=============================================================================
