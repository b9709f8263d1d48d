---------------------------- MODULE SemanticIndex ----------------------------
(***************************************************************************)
(* The semantic index cache (semantic_index.rs), and the one tree that the *)
(* semantic disk caches (semantic_disk.rs), between the writers of         *)
(* semantic coordinates and the queries: nearest_semantic of               *)
(* tensor_network.rs, nearest of the disk.  A writer changes a node and    *)
(* then bumps the epoch; a query takes the cached tree of its slice if     *)
(* that carries the current epoch, and else reads the epoch, walks over    *)
(* the node map, which other threads change meanwhile, and caches what it  *)
(* found under that epoch.                                                 *)
(*                                                                         *)
(* A node's coordinates are the number of the write that set them, so that *)
(* older and newer can be told apart; a tree is the number it holds for    *)
(* each node.  Inserting and deleting a node are writes to it.  committed  *)
(* and floor are history: they record which writes had returned.           *)
(***************************************************************************)
EXTENDS Naturals, FiniteSets

CONSTANTS Thread,      \* the threads that share the network
          Node,        \* the nodes
          Slice,       \* the dimension ranges that are queried, as numbers
          Disk,        \* the argument of a query to the disk
          None,        \* no argument
          MaxSlices,   \* SEMANTIC_INDEX_MAX_SLICES
          MaxWrites,   \* bound: writes in a run
          MaxQueries   \* bound: queries at a time

ASSUME SliceAssumption == Slice \subseteq Nat /\ Disk \notin Slice
ASSUME BoundAssumption == MaxSlices \in Nat \ {0} /\ MaxWrites \in Nat /\ MaxQueries \in Nat

VARIABLES
  coords,      \* coords[n]: the write that set the coordinates of n
  epoch,       \* the epoch counter
  slices,      \* the cache: slice to the epoch and the tree it was built at
  disk,        \* the tree of the disk, if it has one, and the epoch of it
  pc,          \* the step each thread is at
  arg,         \* the node a writer changes, what a query asks for
  mine,        \* the number of a writer's write
  seen,        \* the epoch a query has read
  todo,        \* the nodes a walk has yet to visit
  snapshot,    \* what the walk found so far
  result,      \* the tree a query answers from
  committed,   \* history: the last write to each node that bumped the epoch
  floor        \* history: what was committed when the query began

shared == <<coords, epoch, slices, disk>>
query == <<seen, todo, snapshot, result>>
local == <<arg, mine, query>>
history == <<committed, floor>>
vars == <<shared, pc, local, history>>

Tree == [Node -> Nat]
NoTree == [n \in Node |-> 0]

Larger(a, b) == IF a > b THEN a ELSE b

Init ==
  /\ coords = NoTree
  /\ epoch = 0
  /\ slices = [s \in {} |-> NoTree]
  /\ disk = None
  /\ pc = [t \in Thread |-> "idle"]
  /\ arg = [t \in Thread |-> None]
  /\ mine = [t \in Thread |-> 0]
  /\ seen = [t \in Thread |-> 0]
  /\ todo = [t \in Thread |-> {}]
  /\ snapshot = [t \in Thread |-> NoTree]
  /\ result = [t \in Thread |-> NoTree]
  /\ committed = NoTree
  /\ floor = [t \in Thread |-> NoTree]

Goto(t, step) == pc' = [pc EXCEPT ![t] = step]

(* The call returns, and its locals are gone.                              *)
Leave(t) ==
  /\ Goto(t, "idle")
  /\ arg' = [arg EXCEPT ![t] = None]
  /\ mine' = [mine EXCEPT ![t] = 0]
  /\ seen' = [seen EXCEPT ![t] = 0]
  /\ todo' = [todo EXCEPT ![t] = {}]
  /\ snapshot' = [snapshot EXCEPT ![t] = NoTree]
  /\ result' = [result EXCEPT ![t] = NoTree]
  /\ floor' = [floor EXCEPT ![t] = NoTree]

-----------------------------------------------------------------------------
(* Writers *)

BeginWrite(t, n) ==
  /\ pc[t] = "idle"
  /\ epoch + Cardinality({u \in Thread : pc[u] \in {"mutate", "bump"}}) < MaxWrites
  /\ arg' = [arg EXCEPT ![t] = n]
  /\ Goto(t, "mutate")
  /\ UNCHANGED <<shared, mine, query, history>>

(* The change to the node map, under the guard of its shard.               *)
Mutate(t) ==
  /\ pc[t] = "mutate"
  /\ mine' = [mine EXCEPT ![t] = coords[arg[t]] + 1]
  /\ coords' = [coords EXCEPT ![arg[t]] = @ + 1]
  /\ Goto(t, "bump")
  /\ UNCHANGED <<epoch, slices, disk, arg, query, history>>

(* bump, and the writer returns to its caller.                             *)
Bump(t) ==
  /\ pc[t] = "bump"
  /\ epoch' = epoch + 1
  /\ committed' = [committed EXCEPT ![arg[t]] = Larger(@, mine[t])]
  /\ Leave(t)
  /\ UNCHANGED <<coords, slices, disk>>

-----------------------------------------------------------------------------
(* Queries.  A network below SEMANTIC_INDEX_MIN_NODES is scanned; the count *)
(* is not modelled, so a query may go either way; the disk always builds.  *)

BeginQuery(t, s) ==
  /\ pc[t] = "idle"
  /\ Cardinality({u \in Thread : pc[u] \notin {"idle", "mutate", "bump"}}) < MaxQueries
  /\ arg' = [arg EXCEPT ![t] = s]
  /\ floor' = [floor EXCEPT ![t] = committed]
  /\ \/ Goto(t, "load") /\ UNCHANGED todo
     \/ s # Disk /\ Goto(t, "scan") /\ todo' = [todo EXCEPT ![t] = Node]
  /\ UNCHANGED <<shared, mine, seen, snapshot, result, committed>>

(* nearest_semantic_scan and the snapshot closure: the iterator goes from  *)
(* shard to shard, and each node is read under the guard of its own.  The  *)
(* disk lists the keys and reads them one by one; a node that is not       *)
(* listed was visited when the list passed it by.                          *)
Visit(t, n) ==
  /\ pc[t] \in {"scan", "walk"}
  /\ n \in todo[t]
  /\ snapshot' = [snapshot EXCEPT ![t][n] = coords[n]]
  /\ todo' = [todo EXCEPT ![t] = @ \ {n}]
  /\ UNCHANGED <<shared, pc, arg, mine, seen, result, history>>

ScanDone(t) ==
  /\ pc[t] = "scan"
  /\ todo[t] = {}
  /\ result' = [result EXCEPT ![t] = snapshot[t]]
  /\ Goto(t, "answered")
  /\ UNCHANGED <<shared, arg, mine, seen, todo, snapshot, history>>

LoadEpoch(t) ==
  /\ pc[t] = "load"
  /\ seen' = [seen EXCEPT ![t] = epoch]
  /\ Goto(t, "lookup")
  /\ UNCHANGED <<shared, arg, mine, todo, snapshot, result, history>>

Cached(s) == IF s = Disk THEN disk # None ELSE s \in DOMAIN slices
Kept(s) == IF s = Disk THEN disk ELSE slices[s]

(* Wrong: a cached tree is taken whatever its epoch.                       *)
FreshAnyEpoch(t) == Cached(arg[t])

(* The tree found under the lock carries the epoch read before.            *)
Fresh(t) == Cached(arg[t]) /\ Kept(arg[t]).epoch = seen[t]

Lookup(t) ==
  /\ pc[t] = "lookup"
  /\ \/ /\ Fresh(t)
        /\ result' = [result EXCEPT ![t] = Kept(arg[t]).tree]
        /\ Goto(t, "answered")
     \/ ~Fresh(t) /\ Goto(t, "preread") /\ UNCHANGED result
  /\ UNCHANGED <<shared, arg, mine, seen, todo, snapshot, history>>

(* The epoch is read again, before the walk.                               *)
PreRead(t) ==
  /\ pc[t] = "preread"
  /\ seen' = [seen EXCEPT ![t] = epoch]
  /\ todo' = [todo EXCEPT ![t] = Node]
  /\ Goto(t, "walk")
  /\ UNCHANGED <<shared, arg, mine, snapshot, result, history>>

(* Wrong: the tree is tagged with the epoch at the end of the walk.        *)
BuiltNow(t) == [epoch |-> epoch, tree |-> snapshot[t]]

(* Wrong: the tree carries no epoch.                                       *)
BuiltUntagged(t) == [epoch |-> None, tree |-> snapshot[t]]

(* The tree, tagged with the epoch read before the walk.                   *)
Built(t) == [epoch |-> seen[t], tree |-> snapshot[t]]

(* Wrong: one slice too many stays.                                        *)
EvictedLate(cache, s) ==
  IF Cardinality(DOMAIN cache) <= MaxSlices + 1 THEN cache
  ELSE [x \in {s} |-> cache[x]]

(* Eviction: the lowest slices other than s go until MaxSlices are left.   *)
Evicted(cache, s) ==
  LET others == DOMAIN cache \ {s}
      Above(x) == {y \in others : y > x}
      kept == {x \in others : Cardinality(Above(x)) + 1 < MaxSlices} \cup {s}
  IN  IF Cardinality(DOMAIN cache) <= MaxSlices THEN cache
      ELSE [x \in kept |-> cache[x]]

(* Under the write lock: stale slices go, a fresh one that a racing query  *)
(* has cached for this slice stays, and then there are too many or not.    *)
Cache(t) ==
  LET retained == {s \in DOMAIN slices : slices[s].epoch = epoch}
      filled == [s \in retained \cup {arg[t]} |->
                   IF s \in retained THEN slices[s] ELSE Built(t)]
  IN  /\ pc[t] = "walk" /\ arg[t] # Disk
      /\ todo[t] = {}
      /\ slices' = Evicted(filled, arg[t])
      /\ result' = [result EXCEPT ![t] = filled[arg[t]].tree]
      /\ Goto(t, "answered")
      /\ UNCHANGED <<coords, epoch, disk, arg, mine, seen, todo, snapshot, history>>

(* The disk's tree replaces the one that is there, which may be newer.     *)
CacheDisk(t) ==
  /\ pc[t] = "walk" /\ arg[t] = Disk
  /\ todo[t] = {}
  /\ disk' = Built(t)
  /\ result' = [result EXCEPT ![t] = snapshot[t]]
  /\ Goto(t, "answered")
  /\ UNCHANGED <<coords, epoch, slices, arg, mine, seen, todo, snapshot, history>>

Return(t) ==
  /\ pc[t] = "answered"
  /\ Leave(t)
  /\ UNCHANGED <<shared, committed>>

-----------------------------------------------------------------------------
Writer(t) == (\E n \in Node : BeginWrite(t, n)) \/ Mutate(t) \/ Bump(t)

Query(t) ==
  \/ \E s \in Slice \cup {Disk} : BeginQuery(t, s)
  \/ \E n \in Node : Visit(t, n)
  \/ ScanDone(t) \/ LoadEpoch(t) \/ Lookup(t) \/ PreRead(t) \/ Cache(t) \/ CacheDisk(t)
  \/ Return(t)

Next == \E t \in Thread : Writer(t) \/ Query(t)

Spec == Init /\ [][Next]_vars

-----------------------------------------------------------------------------
(* Properties *)

TypeOK ==
  /\ coords \in Tree /\ committed \in Tree
  /\ epoch \in Nat
  /\ DOMAIN slices \subseteq Slice
  /\ \A s \in DOMAIN slices : slices[s] \in [epoch : Nat, tree : Tree]
  /\ disk \in [epoch : Nat, tree : Tree] \cup {None}
  /\ pc \in [Thread -> {"idle", "mutate", "bump", "scan", "load", "lookup", "preread",
                        "walk", "answered"}]
  /\ arg \in [Thread -> Node \cup Slice \cup {Disk, None}]
  /\ {mine, seen} \subseteq [Thread -> Nat]
  /\ todo \in [Thread -> SUBSET Node]
  /\ {snapshot, result, floor} \subseteq [Thread -> Tree]

(* A cached tree that carries the current epoch misses no write that has   *)
(* returned, though the walk that built it was not atomic: a write that    *)
(* lands during the walk makes the tag stale (the module comment of        *)
(* semantic_index.rs, "Race safety").  So does the disk's, though a slow   *)
(* builder may put an older tree in the place of a newer one.              *)
FreshTreesCurrent ==
  \A s \in Slice \cup {Disk} : Cached(s) /\ Kept(s).epoch = epoch =>
    \A n \in Node : Kept(s).tree[n] >= committed[n]

(* A query answers with every write that had returned before it began,     *)
(* whether it scanned, hit a cache, built the tree or lost the race to     *)
(* build it ("Results are identical to the scan path").                    *)
QueryRecent ==
  \A t \in Thread : pc[t] = "answered" => \A n \in Node : result[t][n] >= floor[t][n]

(* The cache stays within its limit, and holds no tree from the future.    *)
CacheBounded ==
  /\ Cardinality(DOMAIN slices) <= MaxSlices
  /\ \A s \in DOMAIN slices : slices[s].epoch <= epoch

==============================================================================
