-------------------------------- MODULE Skills --------------------------------
(***************************************************************************)
(* A skill of the workspace (internal/workspace/skills.go) and the         *)
(* dashboard's requests about it.  A skill is one of two files, by whether *)
(* it is enabled; no lock is held over the steps of a request, so that     *)
(* requests overlap, fail half way or end with the process.  Skills do not *)
(* share files: one is modelled.                                           *)
(***************************************************************************)
EXTENDS Naturals, FiniteSets

CONSTANTS
  Tabs,          \* requests that may be under way at once
  SkillTexts,    \* contents of a skill
  BundledTexts,  \* the content that the program brings, if it brings this skill
  MaxSkillEdits  \* requests in all (a bound)

ASSUME SkillsAssumption ==
  /\ MaxSkillEdits \in Nat /\ BundledTexts \subseteq SkillTexts
  /\ {"absent", "cut", "unknown"} \cap SkillTexts = {}

VARIABLES
  forms,       \* the two files of the skill
  edit,        \* the request of each tab
  skillEdits,  \* how many there have been
  settled      \* ghost: what the last request left of each form, "unknown" after overlaps

skillVars == <<forms, edit, skillEdits, settled>>

Forms == {"enabled", "disabled"}
Other(form) == IF form = "enabled" THEN "disabled" ELSE "enabled"
NoSkill == [f \in Forms |-> "absent"]
NoEdit == [op |-> "none", at |-> "idle", form |-> "enabled", text |-> "absent",
           file |-> "none", alone |-> TRUE]

SkillInit ==
  /\ forms = NoSkill /\ skillEdits = 0 /\ settled = NoSkill
  /\ edit = [t \in Tabs |-> NoEdit]

EditsUnderWay == {t \in Tabs : edit[t].op # "none"}

\* A request begins; those it overlaps are no longer alone.
StartSkillEdit(t, op, at, form, text) ==
  /\ edit[t].op = "none" /\ skillEdits < MaxSkillEdits /\ skillEdits' = skillEdits + 1
  /\ edit' = [u \in Tabs |->
       IF u = t THEN [op |-> op, at |-> at, form |-> form, text |-> text,
                      file |-> "none", alone |-> EditsUnderWay = {}]
       ELSE [edit[u] EXCEPT !.alone = @ /\ edit[u].op = "none"]]
  /\ UNCHANGED <<forms, settled>>

\* Where the files have gone: a writer that has one open follows it.
Stay == [f \in Forms \cup {"none"} |-> f]
AfterRemove(form) == [Stay EXCEPT ![form] = "none"]
AfterRename(source) == [Stay EXCEPT ![source] = Other(source), ![Other(source)] = "none"]
Followed(where) == [t \in Tabs |-> [edit[t] EXCEPT !.file = where[@]]]

Unsettled == [f \in Forms |-> "unknown"]

\* It is over, and with it what was known unless it was alone.
EditOver(t, where, known) ==
  /\ edit' = [Followed(where) EXCEPT ![t] = NoEdit]
  /\ settled' = IF edit[t].alone THEN known ELSE Unsettled
  /\ UNCHANGED skillEdits

GoOn(t, where, at) == edit' = [Followed(where) EXCEPT ![t].at = at] /\ UNCHANGED <<skillEdits, settled>>

Asked(t) == [NoSkill EXCEPT ![edit[t].form] = edit[t].text]

-----------------------------------------------------------------------------
(* InstallSkill: os.WriteFile of one form, then the removal of the other.  *)

\* The dashboard's POST; a disabled skill may be installed as well.
SkillInstall(t) ==
  \E form \in Forms, text \in SkillTexts : StartSkillEdit(t, "install", "open", form, text)

\* The file is truncated, or made.
OpenSkill(t) ==
  LET form == edit[t].form
  IN /\ edit[t].at = "open"
     /\ \/ /\ forms' = [forms EXCEPT ![form] = "cut"]
           /\ edit' = [edit EXCEPT ![t].at = "write", ![t].file = form]
           /\ UNCHANGED <<skillEdits, settled>>
        \/ UNCHANGED forms /\ EditOver(t, Stay, settled)

\* A file that was renamed meanwhile is written where it is now, and one that
\* another has written meanwhile may keep the end of the other's text.  A write
\* that fails leaves the form it was for cut.
WriteSkill(t) ==
  LET file == edit[t].file
      over == ~edit[t].alone /\ file # "none" /\ forms[file] # "cut"
      texts == {edit[t].text} \cup (IF over THEN {"cut"} ELSE {})
  IN /\ edit[t].at = "write"
     /\ \/ /\ \E text \in texts : forms' = [f \in Forms |-> IF f = file THEN text ELSE forms[f]]
           /\ GoOn(t, Stay, "stale")
        \/ UNCHANGED forms /\ EditOver(t, Stay, [settled EXCEPT ![edit[t].form] = "unknown"])

\* Mutant of RemoveStale: the other form stays.
KeepStale(t) == edit[t].at = "stale" /\ UNCHANGED forms /\ EditOver(t, Stay, Asked(t))

\* A removal that fails is not looked at: the request has been done all the same.
RemoveStale(t) ==
  LET stale == Other(edit[t].form)
  IN /\ edit[t].at = "stale"
     /\ \/ /\ forms' = [forms EXCEPT ![stale] = "absent"]
           /\ EditOver(t, AfterRemove(stale), Asked(t))
        \/ /\ forms[stale] # "absent" /\ UNCHANGED forms
           /\ EditOver(t, Stay, [Asked(t) EXCEPT ![stale] = "unknown"])

-----------------------------------------------------------------------------
(* SetSkillEnabled: two looks and a rename.                                *)

SkillSetEnabled(t) == \E form \in Forms : StartSkillEdit(t, "toggle", "target", form, "absent")

\* A target that is there is taken for the work done.
LookAtTarget(t) ==
  /\ edit[t].at = "target" /\ UNCHANGED forms
  /\ IF forms[edit[t].form] # "absent" THEN EditOver(t, Stay, settled) ELSE GoOn(t, Stay, "source")

LookAtSource(t) ==
  /\ edit[t].at = "source" /\ UNCHANGED forms
  /\ IF forms[Other(edit[t].form)] = "absent" THEN EditOver(t, Stay, settled)
     ELSE GoOn(t, Stay, "rename")

\* It may replace a target that has come, or fail, as it does if the source is gone.
RenameSkill(t) ==
  LET target == edit[t].form
      source == Other(target)
  IN /\ edit[t].at = "rename"
     /\ \/ /\ forms[source] # "absent"
           /\ forms' = [forms EXCEPT ![target] = forms[source], ![source] = "absent"]
           /\ EditOver(t, AfterRename(source), [NoSkill EXCEPT ![target] = settled[source]])
        \/ UNCHANGED forms /\ EditOver(t, Stay, settled)

-----------------------------------------------------------------------------
(* DeleteSkill.                                                            *)

SkillDelete(t) == StartSkillEdit(t, "delete", "enabled", "enabled", "absent")

\* A form that cannot be removed stays, and the request ends there with the error.
RemovalFails(t, form, known) ==
  forms[form] # "absent" /\ UNCHANGED forms /\ EditOver(t, Stay, known)

\* A skill of which neither form is there is an error, and absent all the same.
DeleteEnabled(t) ==
  /\ edit[t].at = "enabled"
  /\ \/ forms' = [forms EXCEPT !["enabled"] = "absent"] /\ GoOn(t, AfterRemove("enabled"), "disabled")
     \/ RemovalFails(t, "enabled", settled)

DeleteDisabled(t) ==
  /\ edit[t].at = "disabled"
  /\ \/ /\ forms' = [forms EXCEPT !["disabled"] = "absent"]
        /\ EditOver(t, AfterRemove("disabled"), NoSkill)
     \/ RemovalFails(t, "disabled", [settled EXCEPT !["enabled"] = "absent"])

-----------------------------------------------------------------------------
(* SeedDefaultSkills, which every start of the program runs, those of the  *)
(* command line beside a server that is up included.                       *)

SeedDefaultSkills(t) ==
  \E text \in BundledTexts : StartSkillEdit(t, "seed", "look", "enabled", text)

\* A skill that is there in one form or the other stays as it is, one that was
\* deleted is installed again.
LookForSkill(t) ==
  /\ edit[t].at \in {"look", "lookOff"} /\ UNCHANGED forms
  /\ LET on == edit[t].at = "look"
     IN IF forms[IF on THEN "enabled" ELSE "disabled"] # "absent" THEN EditOver(t, Stay, settled)
        ELSE GoOn(t, Stay, IF on THEN "lookOff" ELSE "open")

\* The server goes with its requests, or a command does.
SkillsCrash ==
  \E gone \in {{t \in EditsUnderWay : edit[t].op # "seed"}}
             \cup {{t} : t \in {u \in Tabs : edit[u].op = "seed"}} :
    /\ gone # {}
    /\ edit' = [t \in Tabs |-> IF t \in gone THEN NoEdit ELSE edit[t]]
    /\ settled' = Unsettled
    /\ UNCHANGED <<forms, skillEdits>>

SkillNext ==
  \/ \E t \in Tabs :
       \/ SeedDefaultSkills(t) \/ LookForSkill(t)
       \/ SkillInstall(t) \/ OpenSkill(t) \/ WriteSkill(t) \/ RemoveStale(t)
       \/ SkillSetEnabled(t) \/ LookAtTarget(t) \/ LookAtSource(t) \/ RenameSkill(t)
       \/ SkillDelete(t) \/ DeleteEnabled(t) \/ DeleteDisabled(t)
  \/ SkillsCrash

SkillSpec == SkillInit /\ [][SkillNext]_skillVars

-----------------------------------------------------------------------------
SkillTypeOK ==
  /\ forms \in [Forms -> SkillTexts \cup {"absent", "cut"}]
  /\ edit \in [Tabs -> [op : {"none", "install", "toggle", "delete", "seed"},
                        at : {"idle", "open", "write", "stale", "target", "source", "rename",
                              "enabled", "disabled", "look", "lookOff"},
                        form : Forms, text : SkillTexts \cup {"absent"},
                        file : Forms \cup {"none"}, alone : BOOLEAN]]
  /\ skillEdits \in 0..MaxSkillEdits
  /\ settled \in [Forms -> SkillTexts \cup {"absent", "unknown"}]

\* A skill is as the last request that nothing overlapped has left it: there in one
\* form, with the text it was installed with, or gone until a start of the program
\* brings it back; and that puts right whatever an overlap, a failed write or a crash
\* has left before, but for a toggle and a start, which take a file that is there for
\* the work done.  Where a step of a request failed, what is excepted is the form that
\* it was about: the one that was not filled, or that was not removed.  Of overlaps it
\* says nothing: two installs, one for each form, remove what the other has written.
SkillsStand ==
  EditsUnderWay = {} =>
    /\ \A f \in Forms : settled[f] # "unknown" => forms[f] = settled[f]
    /\ (\A f \in Forms : settled[f] # "unknown") => \E f \in Forms : forms[f] = "absent"
=============================================================================
