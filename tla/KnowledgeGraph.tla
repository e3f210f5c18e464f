---------------------------- MODULE KnowledgeGraph ----------------------------
(***************************************************************************)
(* What the agent has learnt (internal/storage/knowledge_graph.go): nodes  *)
(* that the server takes from messages and the kg_* tools add and delete,  *)
(* each on connections of its own, the dashboard's deletions, and          *)
(* `openclio memory edit`, a process in which the owner corrects a copy of *)
(* the nodes while all of these go on.                                     *)
(*                                                                         *)
(* Names are compared without case and spaces; what is left of a row is    *)
(* its type and its confidence, of which two are told apart.               *)
(***************************************************************************)
EXTENDS Naturals, FiniteSets

CONSTANTS
  EntityNames, \* names of entities, normalised
  Kinds,       \* their types, "entity" among them
  ListLimit,   \* nodes that memory edit lists (500 in the code)
  MaxRows,     \* nodes that are ever made (a bound)
  MaxLessons,  \* messages, tool calls and deletions (a bound)
  MaxEdits     \* runs of memory edit (a bound)

ASSUME KnowledgeAssumption ==
  /\ "entity" \in Kinds /\ "none" \notin EntityNames
  /\ {ListLimit, MaxRows, MaxLessons, MaxEdits} \subseteq Nat

VARIABLES
  rows,       \* kg_nodes by id; AUTOINCREMENT gives no id twice
  rowsMade,
  edges,      \* kg_edges, without their relation: pairs of ids
  lessons,    \* messages, tool calls and deletions so far
  memory,     \* memory edit: its step, the ids listed, the rows wanted, the ids seen
  memoryEdits,
  touched,    \* ghost: ids that something else has changed since the list was read
  uncascaded  \* ghost: ids that were deleted on a connection without foreign keys

knowledgeVars == <<rows, rowsMade, edges, lessons, memory, memoryEdits, touched, uncascaded>>

RowIds == 1..MaxRows
NoRow == [name |-> "none", kind |-> "none", sure |-> FALSE]
KnowledgeRows == [name : EntityNames, kind : Kinds, sure : BOOLEAN]
Known == {i \in RowIds : rows[i] # NoRow}
Named(name) == {i \in Known : rows[i].name = name}
NoMemoryEdit == [step |-> "none", listed |-> {}, wanted |-> [i \in RowIds |-> NoRow], seen |-> {}]

KnowledgeInit ==
  /\ rows = [i \in RowIds |-> NoRow] /\ rowsMade = 0 /\ edges = {}
  /\ lessons = 0
  /\ memory = NoMemoryEdit /\ memoryEdits = 0 /\ touched = {} /\ uncascaded = {}

\* INSERT ... ON CONFLICT(normalized_name) DO UPDATE: the type is the new one, the
\* confidence the higher one.
Upsert(table, id, row) ==
  [table EXCEPT ![id] = [row EXCEPT !.sure = @ \/ (table[id] # NoRow /\ table[id].sure)]]

\* The id that a name has or gets.
IdOf(name) == IF Named(name) # {} THEN CHOOSE i \in Named(name) : TRUE ELSE rowsMade + 1

Learn(name, kind, sure) ==
  /\ IdOf(name) \in RowIds
  /\ rows' = Upsert(rows, IdOf(name), [name |-> name, kind |-> kind, sure |-> sure])
  /\ rowsMade' = IF Named(name) = {} THEN rowsMade + 1 ELSE rowsMade
  /\ touched' = touched \cup {IdOf(name)}

Lesson == lessons < MaxLessons /\ lessons' = lessons + 1
KeepMemory == UNCHANGED <<memory, memoryEdits>>

-----------------------------------------------------------------------------
(* The server and the tools.                                               *)

\* A message tells of an entity, in one transaction, which may fail unnoticed;
IngestEntity(name, kind, sure) ==
  /\ Lesson /\ Learn(name, kind, sure)
  /\ UNCHANGED <<edges, uncascaded>> /\ KeepMemory

\* or of a relation to one that it tells of as well, which may be either end: the other
\* is an "entity" if the message says no more of it.
IngestRelation(name, other) ==
  /\ Lesson /\ Learn(name, "entity", FALSE)
  /\ other \in Known
  /\ \E edge \in {<<IdOf(name), other>>, <<other, IdOf(name)>>} : edges' = edges \cup {edge}
  /\ UNCHANGED uncascaded /\ KeepMemory

\* kg_add_node, and kg_add_edge for an end that it is given by name: each a
\* transaction of its own.
AddNode(name, kind, sure) ==
  /\ Lesson /\ Learn(name, kind, sure)
  /\ UNCHANGED <<edges, uncascaded>> /\ KeepMemory

\* The edge of kg_add_edge, between ids that it was given or has got before: it fails
\* when an end is gone by now.
AddEdge(from, to) ==
  /\ Lesson
  /\ edges' = edges \cup (IF {from, to} \subseteq Known THEN {<<from, to>>} ELSE {})
  /\ UNCHANGED <<rows, rowsMade, touched, uncascaded>> /\ KeepMemory

\* ON DELETE CASCADE, on a connection that has the pragma.
Cascaded(id) == {e \in edges : id \notin {e[1], e[2]}}

\* Open sets the pragma on one connection of the pool: the tools and memory edit use
\* no other, the server's dashboard may.
DeleteKnown(id, cascades) ==
  /\ id \in Known
  /\ rows' = [rows EXCEPT ![id] = NoRow]
  /\ edges' = IF cascades THEN Cascaded(id) ELSE edges
  /\ uncascaded' = IF cascades THEN uncascaded ELSE uncascaded \cup {id}

ForgetByTool(id) ==
  /\ Lesson /\ DeleteKnown(id, TRUE) /\ touched' = touched \cup {id}
  /\ UNCHANGED <<rowsMade>> /\ KeepMemory

DeleteMemoryNode(id, cascades) ==
  /\ Lesson /\ DeleteKnown(id, cascades) /\ touched' = touched \cup {id}
  /\ UNCHANGED <<rowsMade>> /\ KeepMemory

-----------------------------------------------------------------------------
(* openclio memory edit.                                                   *)

\* The nodes that were updated last are listed, and the owner corrects the copy:
\* rows that stay, with other contents or not, and rows that are taken out.
ListMemory ==
  /\ memory.step \in {"none", "done", "failed"} /\ memoryEdits < MaxEdits /\ Known # {}
  /\ memoryEdits' = memoryEdits + 1
  /\ \E listed \in SUBSET Known :
       /\ Cardinality(listed) <= ListLimit
       /\ Cardinality(listed) = ListLimit \/ listed = Known
       /\ \E kept \in SUBSET listed \ {{}} : \E wanted \in [kept -> KnowledgeRows] :
            memory' = [step |-> "update", listed |-> listed, seen |-> {},
                       wanted |-> [i \in RowIds |-> IF i \in kept THEN wanted[i] ELSE NoRow]]
  /\ touched' = {}
  /\ UNCHANGED <<rows, rowsMade, edges, lessons, uncascaded>>

ToKeep == {i \in memory.listed : memory.wanted[i] # NoRow}

\* UpdateNode of each row: gone, or of a name another node has, it ends the edit.
UpdateNode(id) ==
  /\ memory.step = "update" /\ id \in ToKeep \ memory.seen
  /\ IF id \in Known /\ Named(memory.wanted[id].name) \subseteq {id}
     THEN /\ rows' = [rows EXCEPT ![id] = memory.wanted[id]]
          /\ memory' = [memory EXCEPT !.seen = @ \cup {id}]
     ELSE UNCHANGED rows /\ memory' = [memory EXCEPT !.step = "failed"]
  /\ UNCHANGED <<rowsMade, edges, lessons, memoryEdits, touched, uncascaded>>

\* The database fails, or a row of the file is no row of the list.
RefuseEdit ==
  /\ memory.step = "update" /\ memory' = [memory EXCEPT !.step = "failed"]
  /\ UNCHANGED <<rows, rowsMade, edges, lessons, memoryEdits, touched, uncascaded>>

\* Mutant of MayDelete: rows are deleted as they are found missing.
MayDeleteAtOnce == memory.step = "update"

MayDelete == memory.step = "update" /\ ToKeep \subseteq memory.seen

\* The rows that were taken out: one that is gone already is none the worse.
DeleteNode(id) ==
  /\ MayDelete /\ id \in memory.listed \ (ToKeep \cup memory.seen)
  /\ memory' = [memory EXCEPT !.seen = @ \cup {id}]
  /\ \/ DeleteKnown(id, TRUE)
     \/ id \notin Known /\ UNCHANGED <<rows, edges, uncascaded>>
  /\ UNCHANGED <<rowsMade, lessons, memoryEdits, touched>>

EditIsDone ==
  /\ memory.step = "update" /\ memory.seen = memory.listed
  /\ memory' = [memory EXCEPT !.step = "done"]
  /\ UNCHANGED <<rows, rowsMade, edges, lessons, memoryEdits, touched, uncascaded>>

KnowledgeNext ==
  \/ \E name \in EntityNames :
       \/ \E kind \in Kinds, sure \in BOOLEAN :
            IngestEntity(name, kind, sure) \/ AddNode(name, kind, sure)
       \/ \E other \in RowIds : IngestRelation(name, other)
  \/ \E from, to \in 1..rowsMade : AddEdge(from, to)
  \/ \E id \in RowIds : ForgetByTool(id) \/ \E cascades \in BOOLEAN : DeleteMemoryNode(id, cascades)
  \/ ListMemory \/ RefuseEdit \/ EditIsDone
  \/ \E id \in RowIds : UpdateNode(id) \/ DeleteNode(id)

KnowledgeSpec == KnowledgeInit /\ [][KnowledgeNext]_knowledgeVars

-----------------------------------------------------------------------------
KnowledgeTypeOK ==
  /\ rows \in [RowIds -> KnowledgeRows \cup {NoRow}] /\ rowsMade \in 0..MaxRows
  /\ edges \subseteq RowIds \X RowIds
  /\ lessons \in 0..MaxLessons /\ memoryEdits \in 0..MaxEdits
  /\ memory.step \in {"none", "update", "failed", "done"}
  /\ memory.seen \subseteq memory.listed /\ memory.listed \subseteq RowIds
  /\ memory.wanted \in [RowIds -> KnowledgeRows \cup {NoRow}]
  /\ touched \subseteq RowIds /\ uncascaded \subseteq RowIds

\* A name is one node's, and an edge is between nodes that are there, however
\* ingestion, tools and deletions meet, unless the server deleted an end on a
\* connection that has no foreign keys.
GraphIsWhole ==
  /\ \A i, j \in Known : rows[i].name = rows[j].name => i = j
  /\ \A e \in edges : {e[1], e[2]} \subseteq Known \cup uncascaded

\* "Remove a row to delete that entity": an edit that was not refused leaves the nodes
\* it listed as the owner's file has them, where nothing else changed them meanwhile;
\* one that was refused before all its corrections were written has deleted none.
CorrectionsStand ==
  /\ memory.step = "done" => \A i \in memory.listed \ touched : rows[i] = memory.wanted[i]
  /\ memory.step = "failed" /\ ToKeep \ memory.seen # {} => memory.listed \ touched \subseteq Known
=============================================================================
