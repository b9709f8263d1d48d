----------------------------- MODULE TreeTensor ------------------------------
(***************************************************************************)
(* The concurrent core: HyperbolicTreeTensor (tree_tensor.rs) over the     *)
(* maps of HyperbolicTensorNetwork (tensor_network.rs).  Threads call      *)
(* insert, insert_positioned, insert_data_only, embed_existing,            *)
(* update_value, set_semantic, get and delete; a call is a sequence of     *)
(* steps, each of which touches the shared maps once, or more than once    *)
(* where nothing another thread does can come between.                     *)
(*                                                                         *)
(* A path is the sequence of its components.  The hash that makes a        *)
(* unique id is injective here, so an id is what is hashed: the key for a  *)
(* data-only node, the level and the position for an embedded one.  A      *)
(* position in the disk is fixed by the child indices on the way from the  *)
(* origin, so it is that sequence of indices.                              *)
(***************************************************************************)
EXTENDS ClientRules, FiniteSets

CONSTANTS Thread,       \* the threads that share the store
          Path,         \* the paths clients use, the root <<>> among them
          Value,        \* node values
          Coord,        \* semantic coordinates
          NoCoord,      \* an empty coordinate vector
          Nil,          \* no unique id
          Call,         \* the kinds of calls clients make
          Discipline,   \* what clients avoid, see MayCall
          Unsafe(_),    \* the positions past max_safe_radius
          MaxProbe,     \* how many slots add_node_inner tries
          Hint,         \* the child indices insert_positioned may ask for
          MaxIndex      \* bound: no new child where the counter passed this

NoArg == "none"

ASSUME PathAssumption ==
  /\ Root \in Path
  /\ \A p \in Path : p \in Seq(STRING) /\ (p # Root => parent_path(p) \in Path)
ASSUME CallAssumption == Call \subseteq CallKind /\ Discipline \subseteq Rules
ASSUME BoundAssumption ==
  MaxProbe \in Nat \ {0} /\ Hint \subseteq Nat /\ MaxIndex \in Nat
ASSUME DataAssumption == NoCoord \notin Coord

VARIABLES
  pathMap,     \* path_map: the unique id of each path, Nil for no entry
  idToPath,    \* id_to_path, the reverse map
  nodes,       \* the node map of the network, by unique id
  points,      \* the ids that have a point and are in the cell index
  childCount,  \* child_counts: the next free child index, by parent id
  held,        \* the stripes each thread holds
  pc,          \* the step each thread is at
  op,          \* the call each thread is in
  frames,      \* embed_existing: the paths still to embed, ancestors first
  parentId,    \* the parent id a call has resolved
  ownId,       \* the node id a call has resolved
  newId,       \* the id a call has chosen for the node it creates
  copy,        \* embed_existing: the value and coordinates it carries over
  reply        \* the result of the call

shared == <<pathMap, idToPath, nodes, points, childCount>>
local == <<frames, parentId, ownId, newId, copy>>
vars == <<shared, held, pc, op, local, reply>>

-----------------------------------------------------------------------------
(* Unique ids *)

StubId(p) == <<"data_only", p>>
EmbeddedId(level, pos) == <<"embedded", level, pos>>
is_stub(id) == id # Nil /\ id[1] = "data_only"
Position(id) == id[3]

Id == ({"data_only"} \X Path) \cup ({"embedded"} \X Nat \X Seq(Nat))

ASSUME NilAssumption == Nil \notin Id

(* parent_locks is locked with the parent's unique id by insert, embed and *)
(* delete, and with the parent's path by insert_data_only.  Stripes do not *)
(* collide here: a collision only keeps more threads apart.                *)
PathKey(p) == <<"path", p>>
LockKey == Id \cup {PathKey(p) : p \in Path}

Stripes == INSTANCE LockTable WITH Key <- LockKey

Entry(f, k, v) == [x \in DOMAIN f \cup {k} |-> IF x = k THEN v ELSE f[x]]
Without(f, k) == [x \in DOMAIN f \ {k} |-> f[x]]

Data == [val : Value \cup {NoArg}, sem : Coord \cup {NoCoord}]

(* What a call returns: the result's kind, with what was read.             *)
Outcome ==
  {"ok", "not_found", "already_exists", "has_children", "failed", "already", "upgraded"}

Answers == {<<r>> : r \in Outcome} \cup ({"data"} \X Data)

ASSUME AnswerAssumption == Nil \notin Data \cup Answers

NewNode(p, v) == [key |-> p, val |-> v, sem |-> NoCoord, children |-> {}]

-----------------------------------------------------------------------------
(* Which calls clients make *)

(* A call: its kind, its path, what it writes and the index it asks for.   *)
Request ==
  LET Plain(k, args) == [kind : {k}, path : Path \ {Root}, arg : args, hint : {0}]
  IN  Plain("insert", Value) \cup Plain("insert_data_only", Value)
        \cup Plain("update_value", Value) \cup Plain("set_semantic", Coord)
        \cup Plain("get", {NoArg}) \cup Plain("delete", {NoArg})
        \cup Plain("embed_existing", {NoArg})
        \cup [kind : {"insert_positioned"}, path : Path \ {Root}, arg : Value, hint : Hint]

Idle == [kind |-> "idle", path |-> Root, arg |-> NoArg, hint |-> 0]

(* The paths that have no position.                                        *)
DataOnly == {p \in Path : is_stub(pathMap[p])}

(* What clients of the store are assumed to avoid.  With Discipline empty  *)
(* any thread makes any call at any time, as Store's methods on &self let  *)
(* it.  MaxIndex only bounds the model.                                    *)
MayCall(t, o) ==
  /\ o.kind \in Call
  /\ \A u \in Thread \ {t}, r \in Discipline :
       pc[u] # "idle" => ~Clash(r, o, op[u]) /\ ~Clash(r, op[u], o)
  /\ ClearOf(Discipline, o, DataOnly)
  /\ o.kind \in {"insert", "insert_positioned", "embed_existing"} =>
       \A q \in Path :
         Below(q, o.path) /\ pathMap[q] \in DOMAIN childCount => childCount[pathMap[q]] <= MaxIndex

-----------------------------------------------------------------------------
(* Calls and returns *)

Init ==
  /\ pathMap = [p \in Path |-> IF p = Root THEN EmbeddedId(0, <<>>) ELSE Nil]
  /\ idToPath = Entry(<<>>, EmbeddedId(0, <<>>), Root)
  /\ nodes = Entry(<<>>, EmbeddedId(0, <<>>), NewNode(Root, NoArg))
  /\ points = {EmbeddedId(0, <<>>)}
  /\ childCount = <<>>
  /\ Stripes!TableInit
  /\ pc = [t \in Thread |-> "idle"]
  /\ op = [t \in Thread |-> Idle]
  /\ frames = [t \in Thread |-> <<>>]
  /\ parentId = [t \in Thread |-> Nil]
  /\ ownId = [t \in Thread |-> Nil]
  /\ newId = [t \in Thread |-> Nil]
  /\ copy = [t \in Thread |-> Nil]
  /\ reply = [t \in Thread |-> Nil]

Goto(t, step) == pc' = [pc EXCEPT ![t] = step]

(* The call returns r; its guards go out of scope in Return.               *)
Answer(t, r) == Goto(t, "return") /\ reply' = [reply EXCEPT ![t] = <<r>>]

FirstStep(kind) ==
  CASE kind \in Inserts -> "check"
    [] kind = "embed_existing" -> "embed_check"
    [] kind \in Writes -> "write"
    [] kind = "get" -> "read"
    [] kind = "delete" -> "delete_read"

Begin(t, o) ==
  /\ pc[t] = "idle"
  /\ MayCall(t, o)
  /\ op' = [op EXCEPT ![t] = o]
  /\ frames' = [frames EXCEPT ![t] = IF o.kind = "embed_existing" THEN <<o.path>> ELSE <<>>]
  /\ Goto(t, FirstStep(o.kind))
  /\ UNCHANGED <<shared, held, parentId, ownId, newId, copy, reply>>

Return(t) ==
  /\ pc[t] = "return"
  /\ Goto(t, "idle")
  /\ held' = [held EXCEPT ![t] = {}]
  /\ op' = [op EXCEPT ![t] = Idle]
  /\ frames' = [frames EXCEPT ![t] = <<>>]
  /\ parentId' = [parentId EXCEPT ![t] = Nil]
  /\ ownId' = [ownId EXCEPT ![t] = Nil]
  /\ newId' = [newId EXCEPT ![t] = Nil]
  /\ copy' = [copy EXCEPT ![t] = Nil]
  /\ reply' = [reply EXCEPT ![t] = Nil]
  /\ UNCHANGED shared

-----------------------------------------------------------------------------
(* insert, insert_positioned and insert_data_only *)

(* The lock-free duplicate check.                                          *)
Check(t) ==
  /\ pc[t] = "check"
  /\ \/ pathMap[op[t].path] # Nil /\ Answer(t, "already_exists")
     \/ pathMap[op[t].path] = Nil /\ Goto(t, "resolve") /\ UNCHANGED reply
  /\ UNCHANGED <<shared, held, op, local>>

(* resolve_parent; insert_data_only only asks whether the parent exists.   *)
Resolve(t) ==
  LET parent == pathMap[parent_path(op[t].path)]
  IN  /\ pc[t] = "resolve"
      /\ \/ parent = Nil /\ Answer(t, "not_found") /\ UNCHANGED parentId
         \/ /\ parent # Nil
            /\ parentId' = [parentId EXCEPT ![t] =
                              IF op[t].kind \in PlacedInserts THEN parent ELSE Nil]
            /\ Goto(t, "lock")
            /\ UNCHANGED reply
      /\ UNCHANGED <<shared, held, op, frames, ownId, newId, copy>>

InsertKey(t) ==
  IF op[t].kind \in PlacedInserts THEN parentId[t] ELSE PathKey(parent_path(op[t].path))

Lock(t) ==
  /\ pc[t] = "lock"
  /\ Stripes!Acquire(t, {InsertKey(t)})
  /\ Goto(t, "recheck")
  /\ UNCHANGED <<shared, op, local, reply>>

(* Wrong: no second duplicate check.                                       *)
RecheckNothing(t) ==
  /\ pc[t] = "recheck"
  /\ Goto(t, IF op[t].kind \in PlacedInserts THEN "place" ELSE "store_stub")
  /\ UNCHANGED <<shared, held, op, local, reply>>

(* The second duplicate check, under the lock.  The parent is not looked   *)
(* up again.                                                               *)
Recheck(t) ==
  /\ pc[t] = "recheck"
  /\ \/ pathMap[op[t].path] # Nil /\ Answer(t, "already_exists")
     \/ /\ pathMap[op[t].path] = Nil
        /\ Goto(t, IF op[t].kind \in PlacedInserts THEN "place" ELSE "store_stub")
        /\ UNCHANGED reply
  /\ UNCHANGED <<shared, held, op, local>>

(* Wrong: a data-only node gets a point.                                   *)
StoreStubWithPoint(t) ==
  LET p == op[t].path
  IN  /\ pc[t] = "store_stub"
      /\ nodes' = Entry(nodes, StubId(p), NewNode(p, op[t].arg))
      /\ points' = points \cup {StubId(p)}
      /\ newId' = [newId EXCEPT ![t] = StubId(p)]
      /\ Goto(t, "record_path")
      /\ UNCHANGED <<pathMap, idToPath, childCount, held, op, frames,
                     parentId, ownId, copy, reply>>

(* add_node_data_only: the node goes in under its key-derived id.          *)
StoreStub(t) ==
  LET p == op[t].path
  IN  /\ pc[t] = "store_stub"
      /\ nodes' = Entry(nodes, StubId(p), NewNode(p, op[t].arg))
      /\ newId' = [newId EXCEPT ![t] = StubId(p)]
      /\ Goto(t, "record_path")
      /\ UNCHANGED <<pathMap, idToPath, points, childCount, held, op, frames,
                     parentId, ownId, copy, reply>>

-----------------------------------------------------------------------------
(* add_node: insert, insert_positioned and embed_existing *)

(* The path the current frame works on.                                    *)
Target(t) == IF op[t].kind = "embed_existing" THEN Head(frames[t]) ELSE op[t].path

(* Wrong: the origin is always the base.                                   *)
BaseOrigin(id) == <<>>

(* The origin stands in for a parent without a point.                      *)
Base(id) == IF id \in points THEN Position(id) ELSE <<>>

FirstIndex(t) ==
  IF op[t].kind = "insert_positioned" THEN op[t].hint
  ELSE IF parentId[t] \in DOMAIN childCount THEN childCount[parentId[t]] ELSE 0

Spot(t, i) == Append(Base(parentId[t]), i)
Slot(t, i) == EmbeddedId(Len(Target(t)), Spot(t, i))

(* Wrong: every slot counts as free.                                       *)
TakenByNobody(t, i) == FALSE

TakenByOther(t, i) ==
  Slot(t, i) \in DOMAIN nodes /\ nodes[Slot(t, i)].key # Target(t)

(* Where the probe loop of add_node_inner stops: past the slots that other *)
(* keys occupy, or at the first that is past the safe radius.              *)
StopsAt(t, i) ==
  /\ Unsafe(Spot(t, i)) \/ ~TakenByOther(t, i)
  /\ \A j \in FirstIndex(t) .. i - 1 : ~Unsafe(Spot(t, j)) /\ TakenByOther(t, j)

Probes(t) == FirstIndex(t) .. FirstIndex(t) + MaxProbe - 1

(* Wrong: the counter stops at the slot taken, not past it.                *)
CommittedAtSlot(id, i) ==
  Entry(childCount, id,
        IF id \in DOMAIN childCount /\ childCount[id] > i THEN childCount[id] ELSE i)

(* commit_child_index: the counter passes the slot taken and never goes    *)
(* back.                                                                   *)
Committed(id, i) ==
  Entry(childCount, id,
        IF id \in DOMAIN childCount /\ childCount[id] > i THEN childCount[id] ELSE i + 1)

(* The slot is chosen and the counter committed to it; or the placement is *)
(* refused before anything changes, when the loop ends past the safe       *)
(* radius or finds no slot at all.                                         *)
Place(t) ==
  /\ pc[t] = "place"
  /\ \/ /\ \A i \in Probes(t) : StopsAt(t, i) => Unsafe(Spot(t, i))
        /\ Answer(t, "failed")
        /\ UNCHANGED <<childCount, newId>>
     \/ /\ \E i \in Probes(t) :
             /\ StopsAt(t, i) /\ ~Unsafe(Spot(t, i))
             /\ newId' = [newId EXCEPT ![t] = Slot(t, i)]
             /\ childCount' = Committed(parentId[t], i)
        /\ Goto(t, "register")
        /\ UNCHANGED reply
  /\ UNCHANGED <<pathMap, idToPath, nodes, points, held, op, frames, parentId, ownId, copy>>

(* The node, its point and its cell.                                       *)
Register(t) ==
  LET value == IF op[t].kind = "embed_existing" THEN copy[t].val ELSE op[t].arg
  IN  /\ pc[t] = "register"
      /\ nodes' = Entry(nodes, newId[t], NewNode(Target(t), value))
      /\ points' = points \cup {newId[t]}
      /\ Goto(t, "link")
      /\ UNCHANGED <<pathMap, idToPath, childCount, held, op, local, reply>>

(* Wrong: a node that is embedded later does not enter the child list.     *)
LinkInserted(t) ==
  /\ pc[t] = "link"
  /\ nodes' = IF parentId[t] \in DOMAIN nodes /\ op[t].kind # "embed_existing"
              THEN [nodes EXCEPT ![parentId[t]].children = @ \cup {newId[t]}]
              ELSE nodes
  /\ Goto(t, IF op[t].kind = "embed_existing" THEN "copy_coords" ELSE "record_path")
  /\ UNCHANGED <<pathMap, idToPath, points, childCount, held, op, local, reply>>

(* The parent's child list, if the parent is still there.                  *)
Link(t) ==
  /\ pc[t] = "link"
  /\ nodes' = IF parentId[t] \in DOMAIN nodes
              THEN [nodes EXCEPT ![parentId[t]].children = @ \cup {newId[t]}]
              ELSE nodes
  /\ Goto(t, IF op[t].kind = "embed_existing" THEN "copy_coords" ELSE "record_path")
  /\ UNCHANGED <<pathMap, idToPath, points, childCount, held, op, local, reply>>

RecordPath(t) ==
  /\ pc[t] = "record_path"
  /\ idToPath' = Entry(idToPath, newId[t], Target(t))
  /\ Goto(t, "publish")
  /\ UNCHANGED <<pathMap, nodes, points, childCount, held, op, local, reply>>

(* path_map.insert makes the node visible.  embed_existing goes on to      *)
(* retire the data-only entry.                                             *)
Publish(t) ==
  /\ pc[t] = "publish"
  /\ pathMap' = [pathMap EXCEPT ![Target(t)] = newId[t]]
  /\ \/ op[t].kind = "embed_existing" /\ Goto(t, "forget") /\ UNCHANGED reply
     \/ op[t].kind # "embed_existing" /\ Answer(t, "ok")
  /\ UNCHANGED <<idToPath, nodes, points, childCount, held, op, local>>

-----------------------------------------------------------------------------
(* embed_existing.  frames holds the recursion: the ancestor being embedded *)
(* comes first, the path that was asked for last.                          *)

(* The frame returns r, dropping its guard; an outer frame goes on.        *)
FrameDone(t, r) ==
  IF Len(frames[t]) = 1
  THEN Answer(t, r) /\ UNCHANGED <<frames, held>>
  ELSE /\ frames' = [frames EXCEPT ![t] = Tail(@)]
       /\ held' = [held EXCEPT ![t] = {}]
       /\ Goto(t, "embed_resolve")
       /\ UNCHANGED reply

EmbedCheck(t) ==
  LET p == Target(t)
  IN  /\ pc[t] = "embed_check"
      /\ \/ pathMap[p] = Nil /\ Answer(t, "not_found") /\ UNCHANGED <<frames, held>>
         \/ pathMap[p] # Nil /\ ~is_stub(pathMap[p]) /\ FrameDone(t, "already")
         \/ /\ pathMap[p] # Nil /\ is_stub(pathMap[p])
            /\ frames' = [frames EXCEPT ![t] = <<parent_path(p)>> \o @]
            /\ UNCHANGED <<held, pc, reply>>
      /\ UNCHANGED <<shared, op, parentId, ownId, newId, copy>>

EmbedResolve(t) ==
  LET parent == pathMap[parent_path(Target(t))]
  IN  /\ pc[t] = "embed_resolve"
      /\ \/ parent = Nil /\ Answer(t, "not_found") /\ UNCHANGED parentId
         \/ parent # Nil /\ is_stub(parent) /\ Answer(t, "failed") /\ UNCHANGED parentId
         \/ /\ parent # Nil /\ ~is_stub(parent)
            /\ parentId' = [parentId EXCEPT ![t] = parent]
            /\ Goto(t, "embed_lock")
            /\ UNCHANGED reply
      /\ UNCHANGED <<shared, held, op, frames, ownId, newId, copy>>

(* Wrong: no lock on the parent.                                           *)
EmbedLockNothing(t) ==
  /\ pc[t] = "embed_lock"
  /\ Goto(t, "embed_recheck")
  /\ UNCHANGED <<shared, held, op, local, reply>>

EmbedLock(t) ==
  /\ pc[t] = "embed_lock"
  /\ Stripes!Acquire(t, {parentId[t]})
  /\ Goto(t, "embed_recheck")
  /\ UNCHANGED <<shared, op, local, reply>>

(* Wrong: a node that a racing embed has placed is placed again.           *)
EmbedRecheckPresence(t) ==
  LET id == pathMap[Target(t)]
  IN  /\ pc[t] = "embed_recheck"
      /\ \/ id = Nil /\ Answer(t, "not_found") /\ UNCHANGED ownId
         \/ /\ id # Nil
            /\ ownId' = [ownId EXCEPT ![t] = id]
            /\ Goto(t, "snapshot")
            /\ UNCHANGED reply
      /\ UNCHANGED <<shared, held, op, frames, parentId, newId, copy>>

(* The second look at the path, under the parent's lock.                   *)
EmbedRecheck(t) ==
  LET id == pathMap[Target(t)]
  IN  /\ pc[t] = "embed_recheck"
      /\ \/ id = Nil /\ Answer(t, "not_found") /\ UNCHANGED <<frames, held, ownId>>
         \/ id # Nil /\ ~is_stub(id) /\ FrameDone(t, "already") /\ UNCHANGED ownId
         \/ /\ id # Nil /\ is_stub(id)
            /\ ownId' = [ownId EXCEPT ![t] = id]
            /\ Goto(t, "snapshot")
            /\ UNCHANGED <<frames, held, reply>>
      /\ UNCHANGED <<shared, op, parentId, newId, copy>>

(* The value and the coordinates, as they are now.                         *)
Snapshot(t) ==
  /\ pc[t] = "snapshot"
  /\ \/ ownId[t] \notin DOMAIN nodes /\ Answer(t, "failed") /\ UNCHANGED copy
     \/ /\ ownId[t] \in DOMAIN nodes
        /\ copy' = [copy EXCEPT ![t] = nodes[ownId[t]]]
        /\ Goto(t, "place")
        /\ UNCHANGED reply
  /\ UNCHANGED <<shared, held, op, frames, parentId, ownId, newId>>

CopyCoords(t) ==
  /\ pc[t] = "copy_coords"
  /\ nodes' = IF copy[t].sem # NoCoord /\ newId[t] \in DOMAIN nodes
              THEN [nodes EXCEPT ![newId[t]].sem = copy[t].sem]
              ELSE nodes
  /\ Goto(t, "record_path")
  /\ UNCHANGED <<pathMap, idToPath, points, childCount, held, op, local, reply>>

Forget(t) ==
  /\ pc[t] = "forget"
  /\ idToPath' = Without(idToPath, ownId[t])
  /\ Goto(t, "retire")
  /\ UNCHANGED <<pathMap, nodes, points, childCount, held, op, local, reply>>

(* remove_detached_node takes the data-only entry and its child list.      *)
Retire(t) ==
  /\ pc[t] = "retire"
  /\ nodes' = Without(nodes, ownId[t])
  /\ FrameDone(t, "upgraded")
  /\ UNCHANGED <<pathMap, idToPath, points, childCount, op, parentId, ownId, newId, copy>>

-----------------------------------------------------------------------------
(* update_value, set_semantic and get hold the path_map guard while they   *)
(* use the node, so each is one step.                                      *)

Write(t) ==
  LET id == pathMap[op[t].path]
      known == id # Nil /\ id \in DOMAIN nodes
  IN  /\ pc[t] = "write"
      /\ \/ ~known /\ Answer(t, "not_found") /\ UNCHANGED nodes
         \/ /\ known /\ Answer(t, "ok")
            /\ nodes' = IF op[t].kind = "update_value"
                        THEN [nodes EXCEPT ![id].val = op[t].arg]
                        ELSE [nodes EXCEPT ![id].sem = op[t].arg]
      /\ UNCHANGED <<pathMap, idToPath, points, childCount, held, op, local>>

DataOf(id) == [val |-> nodes[id].val, sem |-> nodes[id].sem]

Read(t) ==
  LET id == pathMap[op[t].path]
      known == id # Nil /\ id \in DOMAIN nodes
  IN  /\ pc[t] = "read"
      /\ \/ ~known /\ Answer(t, "not_found")
         \/ known /\ Goto(t, "return") /\ reply' = [reply EXCEPT ![t] = <<"data", DataOf(id)>>]
      /\ UNCHANGED <<shared, held, op, local>>

-----------------------------------------------------------------------------
(* delete *)

DeleteRead(t) ==
  LET id == pathMap[op[t].path]
  IN  /\ pc[t] = "delete_read"
      /\ \/ id = Nil /\ Answer(t, "not_found") /\ UNCHANGED ownId
         \/ /\ id # Nil
            /\ ownId' = [ownId EXCEPT ![t] = id]
            /\ Goto(t, "delete_parent")
            /\ UNCHANGED reply
      /\ UNCHANGED <<shared, held, op, frames, parentId, newId, copy>>

DeleteParent(t) ==
  /\ pc[t] = "delete_parent"
  /\ parentId' = [parentId EXCEPT ![t] = pathMap[parent_path(op[t].path)]]
  /\ Goto(t, "delete_lock")
  /\ UNCHANGED <<shared, held, op, frames, ownId, newId, copy, reply>>

DeleteKeys(t) == {ownId[t], parentId[t]} \ {Nil}

DeleteLock(t) ==
  /\ pc[t] = "delete_lock"
  /\ Stripes!Acquire(t, DeleteKeys(t))
  /\ Goto(t, "delete_check")
  /\ UNCHANGED <<shared, op, local, reply>>

(* The child list of a node, for those children that have a node.          *)
children_of(id) == IF id \in DOMAIN nodes THEN nodes[id].children \cap DOMAIN nodes ELSE {}

(* Of those, the ones whose path is still mapped.                          *)
list_children(p) == {c \in children_of(pathMap[p]) : pathMap[nodes[c].key] # Nil}

DeleteCheck(t) ==
  LET p == op[t].path
  IN  /\ pc[t] = "delete_check"
      /\ \/ pathMap[p] = Nil /\ Answer(t, "not_found")
         \/ pathMap[p] # Nil /\ list_children(p) # {} /\ Answer(t, "has_children")
         \/ pathMap[p] # Nil /\ list_children(p) = {} /\ Goto(t, "unmap") /\ UNCHANGED reply
      /\ UNCHANGED <<shared, held, op, local>>

(* path_map.remove; the id it removes is the one the rest of delete uses.  *)
Unmap(t) ==
  LET id == pathMap[op[t].path]
  IN  /\ pc[t] = "unmap"
      /\ pathMap' = [pathMap EXCEPT ![op[t].path] = Nil]
      /\ \/ id = Nil /\ Answer(t, "ok") /\ UNCHANGED ownId
         \/ /\ id # Nil
            /\ ownId' = [ownId EXCEPT ![t] = id]
            /\ Goto(t, "delete_forget")
            /\ UNCHANGED reply
      /\ UNCHANGED <<idToPath, nodes, points, childCount, held, op, frames,
                     parentId, newId, copy>>

DeleteForget(t) ==
  /\ pc[t] = "delete_forget"
  /\ idToPath' = Without(idToPath, ownId[t])
  /\ Goto(t, "unregister")
  /\ UNCHANGED <<pathMap, nodes, points, childCount, held, op, local, reply>>

(* Wrong: the child counter stays behind.                                  *)
UnregisterKeepsCounter(t) ==
  /\ pc[t] = "unregister"
  /\ points' = points \ {ownId[t]}
  /\ nodes' = Without(nodes, ownId[t])
  /\ Goto(t, "unlink")
  /\ UNCHANGED <<pathMap, idToPath, childCount, held, op, local, reply>>

(* The counter, the cell, the point and the node of the removed id.        *)
Unregister(t) ==
  /\ pc[t] = "unregister"
  /\ childCount' = Without(childCount, ownId[t])
  /\ points' = points \ {ownId[t]}
  /\ nodes' = Without(nodes, ownId[t])
  /\ Goto(t, "unlink")
  /\ UNCHANGED <<pathMap, idToPath, held, op, local, reply>>

Unlink(t) ==
  /\ pc[t] = "unlink"
  /\ nodes' = IF parentId[t] \in DOMAIN nodes
              THEN [nodes EXCEPT ![parentId[t]].children = @ \ {ownId[t]}]
              ELSE nodes
  /\ Answer(t, "ok")
  /\ UNCHANGED <<pathMap, idToPath, points, childCount, held, op, local>>

-----------------------------------------------------------------------------
(* validate.  That the cell index finds each node that has a point is left  *)
(* to CellIndex and CellSearch.                                            *)

Mapped == {p \in Path : pathMap[p] # Nil}

validate_network ==
  /\ pathMap[Root] \in DOMAIN nodes
  /\ \A id \in DOMAIN nodes : nodes[id].children \subseteq DOMAIN nodes
  /\ points = DOMAIN nodes
  /\ DOMAIN childCount \subseteq DOMAIN nodes

validate ==
  /\ validate_network
  /\ \A p \in Mapped \ {Root} : parent_path(p) \in Mapped
  /\ \A p \in Mapped : pathMap[p] \in DOMAIN idToPath /\ idToPath[pathMap[p]] = p
  /\ \A id \in DOMAIN idToPath : pathMap[idToPath[id]] = id

-----------------------------------------------------------------------------
InsertStep(t) ==
  Check(t) \/ Resolve(t) \/ Lock(t) \/ Recheck(t) \/ StoreStub(t) \/ Place(t)
    \/ Register(t) \/ Link(t) \/ RecordPath(t) \/ Publish(t)

EmbedStep(t) ==
  EmbedCheck(t) \/ EmbedResolve(t) \/ EmbedLock(t) \/ EmbedRecheck(t)
    \/ Snapshot(t) \/ CopyCoords(t) \/ Forget(t) \/ Retire(t)

DeleteStep(t) ==
  DeleteRead(t) \/ DeleteParent(t) \/ DeleteLock(t) \/ DeleteCheck(t) \/ Unmap(t)
    \/ DeleteForget(t) \/ Unregister(t) \/ Unlink(t)

Next ==
  \E t \in Thread :
    \/ \E o \in Request : Begin(t, o)
    \/ InsertStep(t) \/ EmbedStep(t) \/ DeleteStep(t) \/ Write(t) \/ Read(t)
    \/ Return(t)

Spec == Init /\ [][Next]_vars

-----------------------------------------------------------------------------
(* Properties *)

Step == {"idle", "return", "check", "resolve", "lock", "recheck", "store_stub", "place",
         "register", "link", "record_path", "publish", "embed_check", "embed_resolve",
         "embed_lock", "embed_recheck", "snapshot", "copy_coords", "forget", "retire",
         "write", "read", "delete_read", "delete_parent", "delete_lock", "delete_check",
         "unmap", "delete_forget", "unregister", "unlink"}

Node == [key : Path, val : Value \cup {NoArg}, sem : Coord \cup {NoCoord}, children : SUBSET Id]

Optional(S) == S \cup {Nil}

(* The shape of every variable: ids are stubs or levelled positions, only  *)
(* ids with a position have a point, and the child counters are naturals.  *)
TypeOK ==
  /\ pathMap \in [Path -> Optional(Id)]
  /\ \A id \in DOMAIN idToPath : id \in Id /\ idToPath[id] \in Path
  /\ \A id \in DOMAIN nodes : id \in Id /\ nodes[id] \in Node
  /\ \A id \in points : id \in Id /\ ~is_stub(id)
  /\ \A id \in DOMAIN childCount : id \in Id /\ childCount[id] \in Nat
  /\ held \in [Thread -> SUBSET LockKey]
  /\ pc \in [Thread -> Step]
  /\ op \in [Thread -> Request \cup {Idle}]
  /\ frames \in [Thread -> Seq(Path)]
  /\ {parentId, ownId, newId} \subseteq [Thread -> Optional(Id)]
  /\ copy \in [Thread -> Optional(Node)]

(* The steps of a call that choose and fill a slot under a parent.         *)
Placing == {"place", "register", "link", "copy_coords", "record_path", "publish"}

(* Two threads are never both placing a child under the same parent id:    *)
(* what add_node_inner relies on when it peeks at the sibling counter and  *)
(* commits it in separate steps ("Callers hold the parent stripe lock").   *)
SiblingsSerialized ==
  \A t, u \in Thread :
    t # u /\ pc[t] \in Placing /\ pc[u] \in Placing /\ parentId[t] # Nil =>
      parentId[t] # parentId[u]

(* Every path a client can see leads to a node of its own key, so no call  *)
(* on a live path is told that the network lost the node, and none reads   *)
(* or writes another path's value (path_map against nodes).                *)
PublishedResolves ==
  \A p \in Mapped : pathMap[p] \in DOMAIN nodes /\ nodes[pathMap[p]].key = p

(* A node's child counter lies above the slot of every child it lists, so  *)
(* a new child does not land on a live one (commit_child_index).           *)
CounterAboveChildren ==
  \A id \in DOMAIN nodes : \A c \in nodes[id].children :
    id \in DOMAIN childCount /\ Last(Position(c)) < childCount[id]

(* A path with a position has a parent with a position, and lies one slot  *)
(* beyond it, at the level of its depth (resolve_parent's comment: a       *)
(* subtree is never stacked on the centre).                                *)
GeometryFollowsTree ==
  \A p \in Mapped \ {Root} : ~is_stub(pathMap[p]) =>
    LET parent == pathMap[parent_path(p)]
    IN  /\ parent # Nil /\ ~is_stub(parent)
        /\ Front(Position(pathMap[p])) = Position(parent)
        /\ pathMap[p][2] = Len(p)

(* What delete asks, at every moment: a path with a position is found by    *)
(* list_children of its parent from the step that maps it to the step that  *)
(* takes it away, also while it is upgraded, and while siblings come and    *)
(* go, through the child list, the node map and the path map.              *)
ChildrenListed ==
  \A p \in Mapped \ {Root} : ~is_stub(pathMap[p]) /\ parent_path(p) \in Mapped =>
    pathMap[p] \in list_children(parent_path(p))

(* No path outlives its parent (delete's comment: a node with children is  *)
(* not deleted, that would orphan them).                                   *)
NoOrphans == \A p \in Mapped \ {Root} : parent_path(p) \in Mapped

(* When no call is in progress the six maps agree exactly: the conditions  *)
(* of validate and validate_network, with equality where those ask for     *)
(* inclusion, and with data-only nodes allowed to have no point; and so    *)
(* validate accepts every tree at rest that has none of those.             *)
QuiescentExact ==
  (\A t \in Thread : pc[t] = "idle") =>
    LET ids == {pathMap[p] : p \in Mapped}
    IN  /\ DOMAIN idToPath = ids /\ \A p \in Mapped : idToPath[pathMap[p]] = p
        /\ DOMAIN nodes = ids
        /\ points = {id \in ids : ~is_stub(id)}
        /\ DOMAIN childCount \subseteq ids
        /\ \A p \in Mapped : nodes[pathMap[p]].children =
             {pathMap[q] : q \in {q \in Mapped \ {Root} :
                                  parent_path(q) = p /\ ~is_stub(pathMap[q])}}
        /\ validate <=> \A p \in Mapped : ~is_stub(pathMap[p])

(* While a path lives its id changes at most once, from data-only to       *)
(* embedded: embed_existing upgrades, and nothing demotes or moves a node. *)
IdsOnlyUpgrade ==
  [][\A p \in Path : pathMap[p] # Nil /\ pathMap'[p] \notin {Nil, pathMap[p]} =>
       is_stub(pathMap[p]) /\ ~is_stub(pathMap'[p])]_vars

(* What the maps say to a client, and the result of a call from the moment *)
(* it is settled: a delete has taken effect once the path is unmapped.     *)
Content ==
  [p \in Path |-> IF pathMap[p] = Nil \/ pathMap[p] \notin DOMAIN nodes
                  THEN Nil ELSE DataOf(pathMap[p])]

Settled ==
  [t \in Thread |-> IF pc[t] \in {"delete_forget", "unregister", "unlink"}
                    THEN <<"ok">> ELSE reply[t]]

FreshData(v) == [val |-> v, sem |-> NoCoord]

OnlyRoot == [p \in Path |-> IF p = Root THEN FreshData(NoArg) ELSE Nil]

Abstract == INSTANCE PathStore
              WITH content <- Content, call <- op, answer <- Settled, Fresh <- FreshData,
                   Initially <- OnlyRoot

(* Every interleaving of the calls' steps is, to the clients, a sequence   *)
(* of whole calls on a map of paths: the tree implements PathStore.        *)
ImplementsPathStore == Abstract!StoreSpec

(* embed_existing preserves the identity of the node (its comment: value   *)
(* and semantic coordinates all carry over): the step that swaps the ids   *)
(* shows every client the same data as before.                             *)
EmbedKeepsData ==
  [][\A t \in Thread : pc[t] = "publish" /\ pc'[t] = "forget" => Content' = Content]_vars

==============================================================================
