------------------------------ MODULE Migrations ------------------------------
(***************************************************************************)
(* The start of every command over the one database file (Migrate in       *)
(* internal/storage/migrations.go): a process reads the version the schema *)
(* has and applies the migrations its program brings above it, each in a   *)
(* transaction, while others do the same, fail or are killed.  Programs of *)
(* different releases may meet after an upgrade.                           *)
(***************************************************************************)
EXTENDS Naturals, Sequences

CONSTANTS
  Launchers,    \* processes that start at once
  Releases,     \* the last version that programs bring
  Repeatable,   \* versions whose statements succeed when they are there already
  MaxLaunches   \* starts (a bound)

ASSUME MigrationAssumption ==
  /\ Releases \subseteq Nat \ {0} /\ \E n \in Releases : \A m \in Releases : m <= n
  /\ MaxLaunches \in Nat

VARIABLES
  schema,     \* what was applied to the tables, in order
  inTable,    \* the versions in schema_migrations
  launch,     \* by process: its step, its release, the version it is at
  launches

migrationVars == <<schema, inTable, launch, launches>>

LastRelease == CHOOSE n \in Releases : \A m \in Releases : m <= n
Versions == 1..LastRelease
NotLaunched == [at |-> "off", release |-> 0, version |-> 0]

\* An empty file, or one that an older program has left.
MigrationInit ==
  /\ \E n \in {0} \cup Releases : schema = [v \in 1..n |-> v] /\ inTable = 1..n
  /\ launch = [c \in Launchers |-> NotLaunched] /\ launches = 0

LaunchCommand(c) ==
  /\ launch[c].at = "off" /\ launches < MaxLaunches /\ launches' = launches + 1
  /\ \E n \in Releases : launch' = [launch EXCEPT ![c] = [at |-> "version", release |-> n, version |-> 0]]
  /\ UNCHANGED <<schema, inTable>>

HighestRecorded == IF inTable = {} THEN 0 ELSE CHOOSE n \in inTable : \A m \in inTable : m <= n

\* Once; what others apply from now on is not seen.
ReadVersion(c) ==
  /\ launch[c].at = "version"
  /\ launch' = [launch EXCEPT ![c].at = "apply", ![c].version = HighestRecorded]
  /\ UNCHANGED <<schema, inTable, launches>>

InSchema(v) == \E i \in DOMAIN schema : schema[i] = v

\* Mutant of Accepted: a version that is recorded already is taken again.
AcceptedAnyway(v) == InSchema(v) => v \in Repeatable

\* The statements, and the row of which the version is the primary key.
Accepted(v) == v \notin inTable /\ (InSchema(v) => v \in Repeatable)

\* A transaction, or a rollback and the end of the command.
ApplyMigration(c) ==
  LET v == launch[c].version + 1
  IN /\ launch[c].at = "apply" /\ v <= launch[c].release
     /\ \/ /\ Accepted(v)
           /\ schema' = Append(schema, v) /\ inTable' = inTable \cup {v}
           /\ launch' = [launch EXCEPT ![c].version = v]
        \/ UNCHANGED <<schema, inTable>> /\ launch' = [launch EXCEPT ![c] = NotLaunched]
     /\ UNCHANGED launches

Migrated(c) ==
  /\ launch[c].at = "apply" /\ launch[c].version >= launch[c].release
  /\ launch' = [launch EXCEPT ![c].at = "on"]
  /\ UNCHANGED <<schema, inTable, launches>>

\* Killed, or done.
LeaveCommand(c) ==
  /\ launch[c].at # "off"
  /\ launch' = [launch EXCEPT ![c] = NotLaunched]
  /\ UNCHANGED <<schema, inTable, launches>>

MigrationNext ==
  \E c \in Launchers :
    LaunchCommand(c) \/ ReadVersion(c) \/ ApplyMigration(c) \/ Migrated(c) \/ LeaveCommand(c)

MigrationSpec == MigrationInit /\ [][MigrationNext]_migrationVars

-----------------------------------------------------------------------------
MigrationTypeOK ==
  /\ schema \in Seq(Versions) /\ inTable \subseteq Versions
  /\ launch \in [Launchers -> [at : {"off", "version", "apply", "on"},
                              release : {0} \cup Releases, version : 0..LastRelease]]
  /\ launches \in 0..MaxLaunches

\* However many processes migrate at once, and wherever they are killed, each
\* migration is applied once and in order, none is recorded that was not applied, and
\* a command that goes on finds all that its program needs.
SchemaIsWhole ==
  /\ \A i \in DOMAIN schema : schema[i] = i
  /\ inTable = DOMAIN schema
  /\ \A c \in Launchers : launch[c].at = "on" => 1..launch[c].release \subseteq inTable
=============================================================================
