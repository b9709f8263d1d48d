------------------------------ MODULE CellIndex ------------------------------
(***************************************************************************)
(* The spatial index (cell_index.rs) under concurrent insert, remove and   *)
(* query.  It is four concurrent maps with no lock around them, so a call  *)
(* is a sequence of steps, each on one entry of one map.  A cell stands    *)
(* for a band and a sector; which cell a point falls into is arithmetic    *)
(* that is left out, and an id may be given any cell.  Around it are the   *)
(* tree's calls (tree_tensor.rs), which name an id once it is indexed and  *)
(* forget the name first, and look the hits of a query up by name.         *)
(*                                                                         *)
(* The query here is one that prunes nothing, as within_radius with a      *)
(* large radius, or knn with k above the number of nodes.                  *)
(***************************************************************************)
EXTENDS Naturals, FiniteSets

CONSTANTS Thread,       \* the threads that share the index
          Id,           \* unique ids of nodes
          Cell,         \* the cells
          Band,         \* Band[c]: the radial band that cell c lies in
          None,         \* no cell, no id
          ShareCells,   \* whether two calls may change the same cell at once
          MaxQueries    \* bound: how many queries may be under way at once

ASSUME BandAssumption == DOMAIN Band = Cell
ASSUME ShareAssumption == ShareCells \in BOOLEAN /\ MaxQueries \in Nat
ASSUME NoneAssumption ==
  None \notin Cell \cup Id /\ \A ids \in SUBSET Id : None # ids

Bands == {Band[c] : c \in Cell}

VARIABLES
  cells,        \* cells[c]: the ids in the entry of c, None for no entry
  nodeCell,     \* node_cell: the cell of each id, None for no entry
  bandLoad,     \* band_load: how many nodes a band has
  bandSectors,  \* band_sectors: the occupied cells of a band
  named,        \* id_to_path: the ids that have a path
  pc,           \* the step each thread is at
  id,           \* the id a call works on
  cell,         \* the cell an insert puts it in
  old,          \* the cell it is detached from
  bandsLeft,    \* query: the bands still to be walked
  cellsLeft,    \* query: the cells still to be visited
  found,        \* query: what the visits found, and is to be looked up
  answer,       \* query: what had a path
  settled,      \* history: ids untouched since before the query began
  seen          \* history: ids the index has held since the query began

index == <<cells, nodeCell, bandLoad, bandSectors>>
shared == <<index, named>>
update == <<id, cell, old>>
query == <<bandsLeft, cellsLeft, found, answer>>
vars == <<shared, pc, update, query, settled, seen>>

Init ==
  /\ cells = [c \in Cell |-> None]
  /\ nodeCell = [x \in Id |-> None]
  /\ bandLoad = [b \in Bands |-> 0]
  /\ bandSectors = [b \in Bands |-> {}]
  /\ named = {}
  /\ pc = [t \in Thread |-> "idle"]
  /\ id = [t \in Thread |-> None]
  /\ cell = [t \in Thread |-> None]
  /\ old = [t \in Thread |-> None]
  /\ bandsLeft = [t \in Thread |-> {}]
  /\ cellsLeft = [t \in Thread |-> {}]
  /\ found = [t \in Thread |-> {}]
  /\ answer = [t \in Thread |-> {}]
  /\ settled = [t \in Thread |-> {}]
  /\ seen = [t \in Thread |-> {}]

Members(c) == IF cells[c] = None THEN {} ELSE cells[c]

Goto(t, step) == pc' = [pc EXCEPT ![t] = step]

Updating == {"insert", "push", "record", "load", "mark", "name",
             "forget", "remove", "detach", "drop", "unmark", "unload"}

Querying == {"bands", "walk", "resolve", "answered"}

-----------------------------------------------------------------------------
(* Updates *)

(* The callers hold the parent's stripe, so no two calls change the same   *)
(* id at once.  Nothing in the code keeps two of them from one cell.       *)
MayUpdate(t, x, touched) ==
  /\ pc[t] = "idle"
  /\ \A u \in Thread \ {t} : pc[u] \in Updating =>
       /\ id[u] # x
       /\ ShareCells \/ {cell[u], old[u]} \cap (touched \ {None}) = {}

(* The id is no longer settled for a query that is under way.              *)
Touch(x) == settled' = [u \in Thread |-> settled[u] \ {x}]

BeginInsert(t, x, c) ==
  /\ MayUpdate(t, x, {c, nodeCell[x]})
  /\ id' = [id EXCEPT ![t] = x]
  /\ cell' = [cell EXCEPT ![t] = c]
  /\ old' = [old EXCEPT ![t] = nodeCell[x]]
  /\ Touch(x)
  /\ seen' = [u \in Thread |-> seen[u] \cup {x}]
  /\ Goto(t, "insert")
  /\ UNCHANGED <<shared, query>>

BeginRemove(t, x) ==
  /\ MayUpdate(t, x, {nodeCell[x]})
  /\ id' = [id EXCEPT ![t] = x]
  /\ old' = [old EXCEPT ![t] = nodeCell[x]]
  /\ Touch(x)
  /\ Goto(t, "forget")
  /\ UNCHANGED <<shared, cell, query, seen>>

Leave(t) ==
  /\ Goto(t, "idle")
  /\ id' = [id EXCEPT ![t] = None]
  /\ cell' = [cell EXCEPT ![t] = None]
  /\ old' = [old EXCEPT ![t] = None]

(* insert: the id is where it belongs, or elsewhere, or new.               *)
Insert(t) ==
  LET previous == nodeCell[id[t]]
  IN  /\ pc[t] = "insert"
      /\ \/ previous = cell[t] /\ Goto(t, "name")
         \/ previous # cell[t] /\ Goto(t, IF previous = None THEN "push" ELSE "detach")
      /\ UNCHANGED <<shared, update, query, settled, seen>>

Push(t) ==
  /\ pc[t] = "push"
  /\ cells' = [cells EXCEPT ![cell[t]] = Members(cell[t]) \cup {id[t]}]
  /\ Goto(t, "record")
  /\ UNCHANGED <<nodeCell, bandLoad, bandSectors, named, update, query, settled, seen>>

(* Wrong: the band is recorded in place of the cell.                       *)
RecordBand(t) ==
  /\ pc[t] = "record"
  /\ nodeCell' = [nodeCell EXCEPT ![id[t]] = Band[cell[t]]]
  /\ Goto(t, "load")
  /\ UNCHANGED <<cells, bandLoad, bandSectors, named, update, query, settled, seen>>

Record(t) ==
  /\ pc[t] = "record"
  /\ nodeCell' = [nodeCell EXCEPT ![id[t]] = cell[t]]
  /\ Goto(t, "load")
  /\ UNCHANGED <<cells, bandLoad, bandSectors, named, update, query, settled, seen>>

(* Wrong: the load is not counted.                                         *)
LoadNothing(t) ==
  /\ pc[t] = "load"
  /\ Goto(t, "mark")
  /\ UNCHANGED <<shared, update, query, settled, seen>>

Load(t) ==
  /\ pc[t] = "load"
  /\ bandLoad' = [bandLoad EXCEPT ![Band[cell[t]]] = @ + 1]
  /\ Goto(t, "mark")
  /\ UNCHANGED <<cells, nodeCell, bandSectors, named, update, query, settled, seen>>

(* Wrong: the sector is not recorded.                                      *)
MarkNothing(t) ==
  /\ pc[t] = "mark"
  /\ Goto(t, "name")
  /\ UNCHANGED <<shared, update, query, settled, seen>>

Mark(t) ==
  /\ pc[t] = "mark"
  /\ bandSectors' = [bandSectors EXCEPT ![Band[cell[t]]] = @ \cup {cell[t]}]
  /\ Goto(t, "name")
  /\ UNCHANGED <<cells, nodeCell, bandLoad, named, update, query, settled, seen>>

(* id_to_path.insert, after the index has the id.                          *)
Name(t) ==
  /\ pc[t] = "name"
  /\ named' = named \cup {id[t]}
  /\ Leave(t)
  /\ UNCHANGED <<index, query, settled, seen>>

(* id_to_path.remove, before the index loses the id.                       *)
Forget(t) ==
  /\ pc[t] = "forget"
  /\ named' = named \ {id[t]}
  /\ Goto(t, "remove")
  /\ UNCHANGED <<index, update, query, settled, seen>>

Remove(t) ==
  /\ pc[t] = "remove"
  /\ nodeCell' = [nodeCell EXCEPT ![id[t]] = None]
  /\ \/ nodeCell[id[t]] = None /\ Leave(t)
     \/ nodeCell[id[t]] # None /\ Goto(t, "detach") /\ UNCHANGED update
  /\ UNCHANGED <<cells, bandLoad, bandSectors, named, query, settled, seen>>

(* Wrong: the id stays in its cell.                                        *)
DetachNothing(t) ==
  /\ pc[t] = "detach"
  /\ Goto(t, "unload")
  /\ UNCHANGED <<shared, update, query, settled, seen>>

(* Wrong: the cell is taken for empty while ids are left in it.            *)
DetachLast(t) ==
  /\ pc[t] = "detach"
  /\ cells' = [cells EXCEPT ![old[t]] = Members(old[t]) \ {id[t]}]
  /\ Goto(t, "drop")
  /\ UNCHANGED <<nodeCell, bandLoad, bandSectors, named, update, query, settled, seen>>

(* detach: members.retain and members.is_empty, under the guard of the     *)
(* cell, which is dropped with the answer.                                 *)
Detach(t) ==
  LET left == Members(old[t]) \ {id[t]}
  IN  /\ pc[t] = "detach"
      /\ \/ cells[old[t]] = None /\ Goto(t, "unload") /\ UNCHANGED cells
         \/ /\ cells[old[t]] # None
            /\ cells' = [cells EXCEPT ![old[t]] = left]
            /\ Goto(t, IF left = {} THEN "drop" ELSE "unload")
      /\ UNCHANGED <<nodeCell, bandLoad, bandSectors, named, update, query, settled, seen>>

(* cells.remove, whatever the cell holds by now.                           *)
Drop(t) ==
  /\ pc[t] = "drop"
  /\ cells' = [cells EXCEPT ![old[t]] = None]
  /\ Goto(t, "unmark")
  /\ UNCHANGED <<nodeCell, bandLoad, bandSectors, named, update, query, settled, seen>>

Unmark(t) ==
  /\ pc[t] = "unmark"
  /\ bandSectors' = [bandSectors EXCEPT ![Band[old[t]]] = @ \ {old[t]}]
  /\ Goto(t, "unload")
  /\ UNCHANGED <<cells, nodeCell, bandLoad, named, update, query, settled, seen>>

(* An insert that moves its id goes on to the new cell.                    *)
Unload(t) ==
  LET load == bandLoad[Band[old[t]]]
  IN  /\ pc[t] = "unload"
      /\ bandLoad' = [bandLoad EXCEPT ![Band[old[t]]] = IF load = 0 THEN 0 ELSE load - 1]
      /\ \/ cell[t] # None /\ Goto(t, "push") /\ UNCHANGED update
         \/ cell[t] = None /\ Leave(t)
      /\ UNCHANGED <<cells, nodeCell, bandSectors, named, query, settled, seen>>

-----------------------------------------------------------------------------
(* Queries: expand *)

Registered(x) ==
  nodeCell[x] # None /\ \A u \in Thread : pc[u] \in Updating => id[u] # x

BeginQuery(t) ==
  /\ pc[t] = "idle"
  /\ Cardinality({u \in Thread : pc[u] \in Querying}) < MaxQueries
  /\ settled' = [settled EXCEPT ![t] = {x \in Id : Registered(x)}]
  /\ seen' = [seen EXCEPT ![t] =
                {x \in Id : nodeCell[x] # None \/ \E u \in Thread : id[u] = x}]
  /\ Goto(t, "bands")
  /\ UNCHANGED <<shared, update, query>>

(* The bands in use.                                                       *)
ListBands(t) ==
  /\ pc[t] = "bands"
  /\ bandsLeft' = [bandsLeft EXCEPT ![t] = {b \in Bands : bandLoad[b] > 0}]
  /\ Goto(t, "walk")
  /\ UNCHANGED <<shared, update, cellsLeft, found, answer, settled, seen>>

(* The cells of the next band, copied under the guard of its entry.        *)
ListCells(t, b) ==
  /\ pc[t] = "walk"
  /\ cellsLeft[t] = {}
  /\ b \in bandsLeft[t]
  /\ bandsLeft' = [bandsLeft EXCEPT ![t] = @ \ {b}]
  /\ cellsLeft' = [cellsLeft EXCEPT ![t] = bandSectors[b]]
  /\ UNCHANGED <<shared, pc, update, found, answer, settled, seen>>

Visit(t, c) ==
  /\ pc[t] = "walk"
  /\ c \in cellsLeft[t]
  /\ cellsLeft' = [cellsLeft EXCEPT ![t] = @ \ {c}]
  /\ found' = [found EXCEPT ![t] = @ \cup Members(c)]
  /\ UNCHANGED <<shared, pc, update, bandsLeft, answer, settled, seen>>

QueryDone(t) ==
  /\ pc[t] = "walk"
  /\ bandsLeft[t] = {} /\ cellsLeft[t] = {}
  /\ Goto(t, "resolve")
  /\ UNCHANGED <<shared, update, query, settled, seen>>

(* A hit that has no path by now is dropped.                               *)
Resolve(t) ==
  /\ pc[t] = "resolve"
  /\ \/ \E x \in found[t] :
          /\ found' = [found EXCEPT ![t] = @ \ {x}]
          /\ answer' = [answer EXCEPT ![t] = @ \cup ({x} \cap named)]
          /\ UNCHANGED <<pc, bandsLeft, cellsLeft>>
     \/ found[t] = {} /\ Goto(t, "answered") /\ UNCHANGED query
  /\ UNCHANGED <<shared, update, settled, seen>>

Return(t) ==
  /\ pc[t] = "answered"
  /\ Leave(t)
  /\ answer' = [answer EXCEPT ![t] = {}]
  /\ settled' = [settled EXCEPT ![t] = {}]
  /\ seen' = [seen EXCEPT ![t] = {}]
  /\ UNCHANGED <<shared, bandsLeft, cellsLeft, found>>

-----------------------------------------------------------------------------
Update(t) ==
  \/ \E x \in Id : BeginRemove(t, x) \/ \E c \in Cell : BeginInsert(t, x, c)
  \/ Insert(t) \/ Push(t) \/ Record(t) \/ Load(t) \/ Mark(t) \/ Name(t)
  \/ Forget(t) \/ Remove(t) \/ Detach(t) \/ Drop(t) \/ Unmark(t) \/ Unload(t)

Query(t) ==
  \/ BeginQuery(t) \/ ListBands(t) \/ QueryDone(t) \/ Resolve(t) \/ Return(t)
  \/ \E b \in Bands : ListCells(t, b)
  \/ \E c \in Cell : Visit(t, c)

Next == \E t \in Thread : Update(t) \/ Query(t)

Spec == Init /\ [][Next]_vars

-----------------------------------------------------------------------------
(* Properties *)

TypeOK ==
  /\ cells \in [Cell -> (SUBSET Id) \cup {None}]
  /\ nodeCell \in [Id -> Cell \cup {None}]
  /\ bandLoad \in [Bands -> Nat]
  /\ bandSectors \in [Bands -> SUBSET Cell]
  /\ pc \in [Thread -> Updating \cup Querying \cup {"idle"}]
  /\ named \subseteq Id
  /\ id \in [Thread -> Id \cup {None}]
  /\ {cell, old} \subseteq [Thread -> Cell \cup {None}]
  /\ bandsLeft \in [Thread -> SUBSET Bands]
  /\ cellsLeft \in [Thread -> SUBSET Cell]
  /\ {found, answer, settled, seen} \subseteq [Thread -> SUBSET Id]

(* When no update is in progress the maps agree: each id is in the entry   *)
(* of its cell and in no other, the loads count the ids of a band, the     *)
(* sectors are those of the occupied cells (the test                       *)
(* concurrent_insert_query_and_remove_stay_coherent: no node is lost or    *)
(* duplicated), and the ids that have a path are those that are indexed    *)
(* (note_unmapped: an unmapped hit is "transient during a concurrent       *)
(* delete", never a drift of id_to_path).                                  *)
MapsAgree ==
  (\A t \in Thread : pc[t] \notin Updating) =>
    /\ \A c \in Cell : Members(c) = {x \in Id : nodeCell[x] = c} /\ cells[c] # {}
    /\ \A b \in Bands :
         /\ bandLoad[b] = Cardinality({x \in Id : nodeCell[x] # None /\ Band[nodeCell[x]] = b})
         /\ bandSectors[b] = {c \in Cell : Band[c] = b /\ cells[c] # None}
    /\ named = {x \in Id : nodeCell[x] # None}

(* A query that prunes nothing finds every id that was registered when it  *)
(* began and that no call has touched since, whatever other ids do to the  *)
(* same cells and bands meanwhile, and finds its path: a hit is dropped    *)
(* for the lack of one only while its node is being inserted or deleted.   *)
QueryComplete == \A t \in Thread : pc[t] = "answered" => settled[t] \subseteq answer[t]

(* And it finds no id that was not in the index at some moment of it ("a   *)
(* query returning something that was never inserted").                    *)
QueryNoGhost == \A t \in Thread : found[t] \cup answer[t] \subseteq seen[t]

(* The load of a band never falls below the ids registered in it, so the   *)
(* saturating subtraction never saturates and no occupied band is skipped. *)
LoadCounts ==
  \A b \in Bands :
    bandLoad[b] >= Cardinality({x \in Id : Registered(x) /\ Band[nodeCell[x]] = b})

==============================================================================
