--------------------------- MODULE MCCronScheduler ---------------------------
(***************************************************************************)
(* Values of the constants of CronScheduler for model checking.            *)
(***************************************************************************)
EXTENDS CronScheduler, TLC

CONSTANTS weekly, onChange

\* The job config.yaml defines: one schedule, some mode in use.
MCConfigDef == [when |-> weekly, prompt |-> "report", mode |-> CHOOSE m \in Modes : TRUE]

\* A caller changes the timing of a job or what it asks.
MCPatches == {[when |-> w, prompt |-> None, mode |-> None] :
                w \in Schedules \cup Triggers}
             \cup {[when |-> None, prompt |-> p, mode |-> None] : p \in Prompts \ {"report"}}

\* Clients of the API are interchangeable, and so are library goroutines.
MCSymmetry == Permutations(Clients) \cup Permutations(Slots)
=============================================================================
