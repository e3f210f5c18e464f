------------------------------ MODULE RollingLog ------------------------------
(***************************************************************************)
(* The rolling log file of internal/logger/rotate.go: writes, rotation by  *)
(* size, the removal of old backups in the background, and restarts.       *)
(*                                                                         *)
(* A write holds RollingWriter.mu from its start to its end and is one     *)
(* step; a cleanup holds no lock, reads the directory in one step and      *)
(* removes one file in each further step.  A backup's name carries the     *)
(* time of its rotation, here its number.                                  *)
(***************************************************************************)
EXTENDS Naturals, FiniteSets

CONSTANTS
  EntrySizes,     \* lengths of log entries
  MaxBytes,       \* RollingWriter.maxBytes
  MaxFiles,       \* RollingWriter.maxFiles
  MaxWrites,      \* entries written (a bound)
  MaxLogRestarts  \* restarts of the process (a bound)

ASSUME RollingLogAssumption ==
  /\ EntrySizes \subseteq Nat \ {0}
  /\ {MaxBytes, MaxFiles} \subseteq Nat \ {0}
  /\ {MaxWrites, MaxLogRestarts} \subseteq Nat

VARIABLES
  current,   \* the log file: whether it exists, its bytes and entries
  opened,    \* RollingWriter.file is not nil
  size,      \* RollingWriter.size
  rotations, \* rotations so far
  backups,   \* backup files, by their numbers
  listing,   \* cleanups that have yet to read the directory
  removing,  \* files that cleanups have yet to remove, a set for each
  cut,       \* ghost: some rotation has not been followed by its cleanup
  writes, logRestarts

logVars == <<current, opened, size, rotations, backups, listing, removing, cut,
             writes, logRestarts>>

Absent == [exists |-> FALSE, bytes |-> 0, entries |-> 0]
Empty == [exists |-> TRUE, bytes |-> 0, entries |-> 0]

LogInit ==
  /\ current = Empty /\ opened = TRUE /\ size = 0
  /\ rotations = 0 /\ backups = {}
  /\ listing = 0 /\ removing = {} /\ cut = FALSE
  /\ writes = 0 /\ logRestarts = 0

\* Mutant of OpenedSize: a file that was there counts as empty.
OpenedSizeZero(file, old) == 0

\* open takes the size of a file that is there, and leaves the size of one it
\* creates as it was.
OpenedSize(file, old) == IF file.exists THEN file.bytes ELSE old

Appended(file, n) == [exists |-> TRUE, bytes |-> file.bytes + n, entries |-> file.entries + 1]

Fits(n) == size + n <= MaxBytes

\* Write of an entry for which there is room; an error if the file is closed, or
\* of the disk, loses the entry.
Write(n) ==
  /\ writes < MaxWrites
  /\ Fits(n)
  /\ \/ opened /\ current' = Appended(current, n) /\ size' = size + n
     \/ UNCHANGED <<current, size>>
  /\ writes' = writes + 1
  /\ UNCHANGED <<opened, rotations, backups, listing, removing, cut, logRestarts>>

\* Mutant of Rotated: the number of a backup starts again from one.
RotatedAgain == 1 + Cardinality(backups)

Rotated == rotations + 1

\* rotate: the file becomes a backup, a new one is opened, and the entry goes
\* there.  The rename or the opening may fail; the file is then left closed.
Renamed ==
  IF current.exists
  THEN rotations' = Rotated /\ backups' = backups \cup {Rotated}
  ELSE UNCHANGED <<rotations, backups>>

RotateAndWrite(n) ==
  /\ writes < MaxWrites
  /\ ~Fits(n)
  /\ writes' = writes + 1
  /\ \/ /\ current.exists
        /\ opened' = FALSE
        /\ UNCHANGED <<current, size, rotations, backups, listing, cut>>
     \/ /\ Renamed
        /\ current' = Absent /\ opened' = FALSE
        /\ cut' = TRUE
        /\ UNCHANGED <<size, listing>>
     \/ /\ Renamed
        /\ current' = Appended(Empty, n) /\ opened' = TRUE
        /\ size' = OpenedSize(Absent, size) + n
        /\ listing' = listing + 1
        /\ UNCHANGED cut
  /\ UNCHANGED <<removing, logRestarts>>

\* Mutant of Surplus: the files go in the order of the directory reversed.
SurplusNewest(files) ==
  {i \in files : Cardinality({j \in files : j < i}) >= MaxFiles}

\* All but the last maxFiles, in the order of their names.
Surplus(files) ==
  {i \in files : Cardinality({j \in files : j > i}) >= MaxFiles}

\* cleanup reads the directory,
List ==
  /\ listing > 0
  /\ listing' = listing - 1
  /\ removing' = removing \cup {Surplus(backups)}
  /\ UNCHANGED <<current, opened, size, rotations, backups, cut, writes, logRestarts>>

\* and removes the files one by one, in an order that nothing depends on; one that
\* is gone is passed over.
RemoveOne(rest, i) ==
  /\ removing' = (removing \ {rest}) \cup {rest \ {i}}
  /\ backups' = backups \ {i}

RemoveSurplus(rest) ==
  /\ \/ rest = {} /\ removing' = removing \ {rest} /\ UNCHANGED backups
     \/ \E i \in rest : RemoveOne(rest, i)
  /\ UNCHANGED <<current, opened, size, rotations, listing, cut, writes, logRestarts>>

\* The process ends, with its cleanups, and NewRollingWriter opens the file.
\* A failure to do so is left out.
LogRestart ==
  /\ logRestarts < MaxLogRestarts
  /\ logRestarts' = logRestarts + 1
  /\ size' = OpenedSize(current, 0)
  /\ opened' = TRUE
  /\ current' = IF current.exists THEN current ELSE Empty
  /\ listing' = 0 /\ removing' = {}
  /\ cut' = (cut \/ listing > 0 \/ removing # {})
  /\ UNCHANGED <<rotations, backups, writes>>

LogNext ==
  \/ \E n \in EntrySizes : Write(n) \/ RotateAndWrite(n)
  \/ List
  \/ \E rest \in removing : RemoveSurplus(rest)
  \/ LogRestart

LogSpec == LogInit /\ [][LogNext]_logVars

-----------------------------------------------------------------------------
Files == [exists : BOOLEAN, bytes : Nat, entries : Nat]

LogTypeOK ==
  /\ current \in Files
  /\ opened \in BOOLEAN /\ cut \in BOOLEAN
  /\ size \in Nat /\ rotations \in Nat /\ listing \in Nat
  /\ backups \subseteq 1..rotations
  /\ removing \subseteq SUBSET (1..rotations)
  /\ writes \in 0..MaxWrites /\ logRestarts \in 0..MaxLogRestarts

\* The file stays within maxBytes, unless a single entry is longer, over
\* restarts and failed rotations too (Write compares before it writes, and
\* size must never be less than what the file has).
FileWithinLimit ==
  current.bytes <= MaxBytes \/ current.entries <= 1

\* "It retains up to maxFiles older logs" (RollingWriter): cleanups that run at
\* the same time as each other and as further rotations never remove one of the
\* newest maxFiles,
NewestKept ==
  \A i \in 1..rotations :
    i + MaxFiles > rotations => i \in backups

\* and leave no more than these, unless a rotation or a cleanup was cut short.
BackupsBounded ==
  listing = 0 /\ removing = {} /\ ~cut => Cardinality(backups) <= MaxFiles

\* What a cleanup may remove and what it must, together: the newest maxFiles backups
\* and, once all is quiet, no others.
BackupsKept == NewestKept /\ BackupsBounded
=============================================================================
