------------------------------- MODULE Profiles -------------------------------
(***************************************************************************)
(* Agent profiles (internal/storage/agent_profiles.go), the dashboard's    *)
(* requests about them and the binding of sessions to them.  A request is  *)
(* one or several transactions; it may fail between them, or end with the  *)
(* process.  A profile is its name, which is unique, and a text.           *)
(***************************************************************************)
EXTENDS Naturals, FiniteSets

CONSTANTS
  Requests,         \* requests that may be under way at once
  ProfileNames,
  ProfileTexts,     \* system prompts
  Conversations,    \* sessions
  MaxProfiles,      \* profiles that are ever made (a bound)
  MaxRequests,      \* requests in all (a bound)
  MaxSeconds        \* of datetime('now') (a bound)

ASSUME ProfileAssumption ==
  {MaxProfiles, MaxRequests, MaxSeconds} \subseteq Nat /\ "none" \notin ProfileNames

VARIABLES
  profiles,      \* the rows of agent_profiles by id
  profilesMade,  \* ids given so far
  bound,         \* sessions.agent_profile_id, 0 for ""
  request,       \* what each request is about to do
  requests,      \* how many there have been
  second,        \* the clock of the database
  activatedLast  \* ghost: the profile activated last, 0 for none, Unsure after a creation

profileVars == <<profiles, profilesMade, bound, request, requests, second, activatedLast>>

ProfileIds == 1..MaxProfiles
Unsure == MaxProfiles + 1
NoProfile == [name |-> "none", text |-> "none", active |-> FALSE, stamp |-> 0]
NoRequest == [at |-> "idle", id |-> 0, row |-> NoProfile, session |-> "none", activate |-> FALSE]

ProfileInit ==
  /\ profiles = [i \in ProfileIds |-> NoProfile] /\ profilesMade = 0
  /\ bound = [c \in Conversations |-> 0]
  /\ request = [r \in Requests |-> NoRequest] /\ requests = 0
  /\ second = 0 /\ activatedLast = 0

Present == {i \in ProfileIds : profiles[i] # NoProfile}
ActiveProfiles == {i \in Present : profiles[i].active}
TakenByOther(name, id) == \E i \in Present \ {id} : profiles[i].name = name

Later == second' \in second..MaxSeconds /\ second' <= second + 1

\* datetime('now') has seconds only; the time that Create gives has a fraction, and
\* is the later text of the two.
Now == 2 * second'
NowInCreate == 2 * second' + 1

NewRequest(r) == request[r].at = "idle" /\ requests < MaxRequests /\ requests' = requests + 1
RequestEnds(r) == request' = [request EXCEPT ![r] = NoRequest]

-----------------------------------------------------------------------------
(* Activate: one transaction, rolled back when there is no such profile.   *)

\* Mutant of ActivatedRows: the profiles that were active are not cleared.
ActivatedRowsKept(id) ==
  [i \in ProfileIds |-> IF i = id THEN [profiles[i] EXCEPT !.active = TRUE, !.stamp = Now] ELSE profiles[i]]

ActivatedRows(id) ==
  [i \in ProfileIds |-> IF i = id THEN [profiles[i] EXCEPT !.active = TRUE, !.stamp = Now]
                 ELSE IF i \in ActiveProfiles
                      THEN [profiles[i] EXCEPT !.active = FALSE, !.stamp = Now]
                 ELSE profiles[i]]

Activate(id) ==
  /\ Later /\ UNCHANGED <<profilesMade, bound>>
  /\ IF id \in Present
     THEN profiles' = ActivatedRows(id) /\ activatedLast' = id
     ELSE UNCHANGED <<profiles, activatedLast>>

\* The database is busy, or fails.
Failed == UNCHANGED <<profiles, profilesMade, bound, second, activatedLast>>

AgentProfileActivate(r) ==
  /\ NewRequest(r) /\ UNCHANGED request
  /\ \E id \in 1..profilesMade : Activate(id)

\* The second transaction of a creation or an update.
AlsoActivate(r) ==
  /\ request[r].at = "activate"
  /\ Activate(request[r].id) \/ Failed
  /\ RequestEnds(r) /\ UNCHANGED requests

-----------------------------------------------------------------------------
(* Create, Update, Delete.                                                 *)

\* The row is marked active before the others are cleared.
Create(r) ==
  /\ NewRequest(r) /\ profilesMade < MaxProfiles
  /\ \E name \in ProfileNames, text \in ProfileTexts, active \in BOOLEAN :
       /\ ~TakenByOther(name, 0)
       /\ Later /\ profilesMade' = profilesMade + 1
       /\ profiles' = [profiles EXCEPT ![profilesMade'] =
            [name |-> name, text |-> text, active |-> active, stamp |-> NowInCreate]]
       /\ IF active
          THEN /\ activatedLast' = Unsure
               /\ request' = [request EXCEPT ![r] =
                    [NoRequest EXCEPT !.at = "activate", !.id = profilesMade']]
          ELSE UNCHANGED <<activatedLast, request>>
  /\ UNCHANGED bound

\* AgentProfileUpdate reads the row, and puts the fields it was given in it.
AgentProfileUpdate(r) ==
  /\ NewRequest(r) /\ Failed
  /\ \E id \in Present, name \in ProfileNames, text \in ProfileTexts, activate \in BOOLEAN :
       \E row \in {[profiles[id] EXCEPT !.name = name], [profiles[id] EXCEPT !.text = text]} :
         request' = [request EXCEPT ![r] =
           [NoRequest EXCEPT !.at = "update", !.id = id, !.row = row, !.activate = activate]]

\* Update writes all of them but is_active: what another request has changed since
\* is written over.
Update(r) ==
  LET id == request[r].id
      row == request[r].row
  IN /\ request[r].at = "update"
     /\ \/ /\ id \in Present /\ ~TakenByOther(row.name, id)
           /\ Later
           /\ profiles' = [profiles EXCEPT ![id].name = row.name, ![id].text = row.text,
                                           ![id].stamp = Now]
           /\ IF request[r].activate
              THEN request' = [request EXCEPT ![r].at = "activate"]
              ELSE RequestEnds(r)
           /\ UNCHANGED <<profilesMade, bound, activatedLast>>
        \/ Failed /\ RequestEnds(r)
     /\ UNCHANGED requests

\* The sessions that are bound to it stay so.
AgentProfileDelete(r) ==
  /\ NewRequest(r)
  /\ \E id \in Present :
       /\ profiles' = [profiles EXCEPT ![id] = NoProfile]
       /\ activatedLast' = IF activatedLast = id THEN 0 ELSE activatedLast
  /\ UNCHANGED <<profilesMade, bound, request, second>>

-----------------------------------------------------------------------------
(* Sessions.                                                               *)

\* GetActive takes the one that was written last.
GetActive ==
  {i \in ActiveProfiles : \A j \in ActiveProfiles : profiles[j].stamp <= profiles[i].stamp}

\* A chat with a new session binds it to the active profile, if there is one,
BindSessionToActiveProfile(r) ==
  /\ NewRequest(r) /\ Failed
  /\ \E id \in GetActive, c \in Conversations :
       request' = [request EXCEPT ![r] = [NoRequest EXCEPT !.at = "bind", !.id = id, !.session = c]]

\* and the dashboard to one that is there, or to none.
UpdateSessionAgentProfile(r) ==
  /\ NewRequest(r) /\ Failed
  /\ \E id \in Present \cup {0}, c \in Conversations :
       request' = [request EXCEPT ![r] = [NoRequest EXCEPT !.at = "bind", !.id = id, !.session = c]]

BindAgentProfile(r) ==
  /\ request[r].at = "bind"
  /\ \/ /\ bound' = [bound EXCEPT ![request[r].session] = request[r].id]
        /\ UNCHANGED <<profiles, profilesMade, second, activatedLast>>
     \/ Failed
  /\ RequestEnds(r) /\ UNCHANGED requests

ProfilesCrash ==
  /\ \E r \in Requests : request[r].at # "idle"
  /\ request' = [r \in Requests |-> NoRequest]
  /\ Failed /\ UNCHANGED requests

ProfileNext ==
  \/ \E r \in Requests :
       \/ AgentProfileActivate(r) \/ AlsoActivate(r)
       \/ Create(r) \/ AgentProfileUpdate(r) \/ Update(r) \/ AgentProfileDelete(r)
       \/ BindSessionToActiveProfile(r) \/ UpdateSessionAgentProfile(r) \/ BindAgentProfile(r)
  \/ ProfilesCrash

ProfileSpec == ProfileInit /\ [][ProfileNext]_profileVars

-----------------------------------------------------------------------------
Rows == [name : ProfileNames \cup {"none"}, text : ProfileTexts \cup {"none"},
         active : BOOLEAN, stamp : 0..(2 * MaxSeconds + 1)]

ProfileTypeOK ==
  /\ profiles \in [ProfileIds -> Rows] /\ profilesMade \in 0..MaxProfiles
  /\ bound \in [Conversations -> 0..MaxProfiles]
  /\ request \in [Requests -> [at : {"idle", "activate", "update", "bind"}, id : 0..MaxProfiles,
                               row : Rows, session : Conversations \cup {"none"},
                               activate : BOOLEAN]]
  /\ requests \in 0..MaxRequests /\ second \in 0..MaxSeconds
  /\ activatedLast \in 0..Unsure

\* "Activate marks exactly one profile active (others inactive)": from an activation
\* to the next creation of an active profile, the profile that was activated is the
\* only one that is active, the one that new sessions are bound to and the one that
\* the dashboard shows, whatever is updated or deleted meanwhile; and none is when it
\* was deleted.
ActiveIsLastChosen ==
  activatedLast # Unsure => ActiveProfiles = {activatedLast} \ {0} /\ GetActive = ActiveProfiles
=============================================================================
