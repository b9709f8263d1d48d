-------------------------- MODULE TreeTensorProofs ---------------------------
(***************************************************************************)
(* Proofs about TreeTensor, for every set of threads and paths and runs of *)
(* any length: first under every rule for clients and none, then about the *)
(* maps, from MapRules on, for clients that keep those rules.              *)
(***************************************************************************)
EXTENDS TreeTensor, SequenceTheorems, TLAPS

(* The call that a thread is in fits the step it is at, and a call of      *)
(* embed_existing has a path to work on until it returns.                  *)
Calls ==
  \A t \in Thread :
    /\ pc[t] \in {"check", "resolve", "lock", "recheck"} => op[t].kind \in Inserts
    /\ pc[t] = "store_stub" => op[t].kind = "insert_data_only"
    /\ pc[t] \in {"place", "register", "link"} =>
         op[t].kind \in PlacedInserts \cup {"embed_existing"}
    /\ pc[t] \in {"record_path", "publish"} => op[t].kind \in Inserts \cup {"embed_existing"}
    /\ pc[t] \in {"embed_check", "embed_resolve", "embed_lock", "embed_recheck", "snapshot",
                  "copy_coords", "forget", "retire"} => op[t].kind = "embed_existing"
    /\ pc[t] = "write" => op[t].kind \in Writes
    /\ op[t].kind = "embed_existing" => pc[t] = "return" \/ frames[t] # <<>>

(* What a call has resolved and chosen by the time it uses it: the parent  *)
(* id, the id of the new node, which has a position, and embed's copy.     *)
Chosen ==
  \A t \in Thread :
    /\ pc[t] \in {"place", "register", "link", "embed_lock", "embed_recheck", "snapshot"} =>
         parentId[t] \in Id
    /\ pc[t] \in {"lock", "recheck"} /\ op[t].kind \in PlacedInserts => parentId[t] \in Id
    /\ pc[t] \in {"register", "link", "copy_coords"} => newId[t] \in Id /\ ~is_stub(newId[t])
    /\ pc[t] \in {"record_path", "publish"} => newId[t] \in Id
    /\ op[t].kind = "embed_existing" /\ pc[t] \in {"place", "register", "link", "copy_coords"} =>
         copy[t] \in Node

(* The steps between taking a stripe and letting it go.                    *)
UnderLock == Placing \cup {"recheck", "store_stub", "embed_recheck", "snapshot"}

(* The stripe a placement works under is the stripe of the parent it has   *)
(* resolved, and stripes are held by one thread at a time.                 *)
Guards ==
  /\ Stripes!Exclusive
  /\ \A t \in Thread :
       /\ pc[t] \in UnderLock => parentId[t] = Nil \/ parentId[t] \in held[t]
       /\ pc[t] = "lock" /\ op[t].kind \notin PlacedInserts => parentId[t] = Nil

(* The inductive invariant.                                                *)
TreeInv == TypeOK /\ Calls /\ Chosen /\ Guards

-----------------------------------------------------------------------------
(* Data *)

(* A map keeps the types of its keys and values when an entry of these     *)
(* types is added.                                                         *)
LEMMA EntryKeeps ==
  ASSUME NEW f, NEW K, NEW V, \A x \in DOMAIN f : x \in K /\ f[x] \in V,
         NEW k \in K, NEW v \in V
  PROVE  \A x \in DOMAIN Entry(f, k, v) : x \in K /\ Entry(f, k, v)[x] \in V
  BY DEF Entry

(* A new node, and a node with other children, coordinates or value.       *)
LEMMA NodeFacts ==
  /\ \A p \in Path, v \in Value \cup {NoArg} : NewNode(p, v) \in Node
  /\ \A n \in Node : n.key \in Path /\ n.val \in Value \cup {NoArg}
                       /\ n.sem \in Coord \cup {NoCoord} /\ n.children \subseteq Id
  BY DEF NewNode, Node

(* Changing one field of one node keeps the type of the node map.          *)
LEMMA ChildrenKeeps ==
  ASSUME NEW f, \A x \in DOMAIN f : x \in Id /\ f[x] \in Node, NEW i, NEW C \in SUBSET Id
  PROVE  \A x \in DOMAIN [f EXCEPT ![i].children = C] :
           x \in Id /\ [f EXCEPT ![i].children = C][x] \in Node
  BY DEF Node

LEMMA ValKeeps ==
  ASSUME NEW f, \A x \in DOMAIN f : x \in Id /\ f[x] \in Node, NEW i, NEW v \in Value
  PROVE  \A x \in DOMAIN [f EXCEPT ![i].val = v] :
           x \in Id /\ [f EXCEPT ![i].val = v][x] \in Node
  BY DEF Node

LEMMA SemKeeps ==
  ASSUME NEW f, \A x \in DOMAIN f : x \in Id /\ f[x] \in Node, NEW i,
         NEW c \in Coord \cup {NoCoord}
  PROVE  \A x \in DOMAIN [f EXCEPT ![i].sem = c] :
           x \in Id /\ [f EXCEPT ![i].sem = c][x] \in Node
  BY DEF Node

(* A request names a path, and writes what its kind writes.                *)
LEMMA RequestFacts ==
  ASSUME NEW o \in Request
  PROVE  /\ o.path \in Path
         /\ o.kind \in CallKind
         /\ o.kind \in Inserts \cup {"update_value"} => o.arg \in Value
         /\ o.kind = "set_semantic" => o.arg \in Coord
         /\ o.hint \in Nat
  <1> DEFINE Plain(k, args) == [kind : {k}, path : Path \ {Root}, arg : args, hint : {0}]
  <1>1. \/ o \in Plain("insert", Value) \/ o \in Plain("insert_data_only", Value)
        \/ o \in Plain("update_value", Value) \/ o \in Plain("set_semantic", Coord)
        \/ o \in Plain("get", {NoArg}) \/ o \in Plain("delete", {NoArg})
        \/ o \in Plain("embed_existing", {NoArg})
        \/ o \in [kind : {"insert_positioned"}, path : Path \ {Root}, arg : Value, hint : Hint]
    BY Zenon DEF Request
  <1>2. ASSUME NEW k, NEW args, o \in Plain(k, args)
        PROVE  o.kind = k /\ o.path \in Path /\ o.arg \in args /\ o.hint = 0
    BY <1>2
  <1>3. CASE o \in [kind : {"insert_positioned"}, path : Path \ {Root}, arg : Value, hint : Hint]
    BY <1>3, BoundAssumption DEF CallKind, Inserts
  <1> HIDE DEF Plain
  <1>4. QED
    BY <1>1, <1>2, <1>3 DEF CallKind, Inserts

(* The path of the parent is again a path; the root is its own parent.     *)
LEMMA ParentPath ==
  ASSUME NEW p \in Path
  PROVE  parent_path(p) \in Path
  <1>1. CASE p = Root
    <2>1. parent_path(p) = <<>>
      BY <1>1, SubSeqEmpty DEF parent_path, Root
    <2>2. QED
      BY <2>1, PathAssumption DEF Root
  <1>2. CASE p # Root
    BY <1>2, PathAssumption
  <1>3. QED
    BY <1>1, <1>2

LEMMA StubFacts ==
  ASSUME NEW p \in Path
  PROVE  StubId(p) \in Id
  BY DEF StubId, Id

(* An id with a position lies at a sequence of indices.                    *)
LEMMA PositionType ==
  ASSUME NEW i \in Id, ~is_stub(i)
  PROVE  Position(i) \in Seq(Nat)
  BY NilAssumption DEF Id, is_stub, Position

LEMMA EmbeddedFacts ==
  ASSUME NEW level \in Nat, NEW pos \in Seq(Nat)
  PROVE  EmbeddedId(level, pos) \in Id /\ ~is_stub(EmbeddedId(level, pos))
  BY DEF EmbeddedId, Id, is_stub

(* A thread that is in a call is in one that was requested.                *)
LEMMA CallRequest ==
  ASSUME TypeOK, NEW t \in Thread, op[t].kind # "idle"
  PROVE  op[t] \in Request
  BY DEF TypeOK, Idle

(* The path a call works on.                                               *)
LEMMA TargetType ==
  ASSUME TypeOK, Calls, NEW t \in Thread, op[t].kind # "idle", pc[t] # "return"
  PROVE  Target(t) \in Path
  <1>1. CASE op[t].kind = "embed_existing"
    <2>1. frames[t] \in Seq(Path) /\ frames[t] # <<>>
      BY <1>1 DEF TypeOK, Calls
    <2>2. QED
      BY <1>1, <2>1 DEF Target
  <1>2. CASE op[t].kind # "embed_existing"
    BY <1>2, CallRequest, RequestFacts DEF Target
  <1>3. QED
    BY <1>1, <1>2

LEMMA InitTreeInv == Init => TreeInv
  <1> SUFFICES ASSUME Init PROVE TreeInv
    OBVIOUS
  <1>1. <<>> \in Seq(Nat) /\ DOMAIN <<>> = {}
    BY EmptySeq
  <1>2. EmbeddedId(0, <<>>) \in Id /\ ~is_stub(EmbeddedId(0, <<>>))
    BY <1>1, EmbeddedFacts
  <1>3. Root \in Path /\ NewNode(Root, NoArg) \in Node
    BY PathAssumption DEF NewNode, Node
  <1> DEFINE origin == EmbeddedId(0, <<>>)
  <1>4. \A v : /\ DOMAIN Entry(<<>>, origin, v) = {origin}
                /\ Entry(<<>>, origin, v)[origin] = v
    BY <1>1 DEF Entry
  <1>5. \A id \in DOMAIN idToPath : id \in Id /\ idToPath[id] \in Path
    BY <1>2, <1>3, <1>4 DEF Init
  <1>6. \A id \in DOMAIN nodes : id \in Id /\ nodes[id] \in Node
    BY <1>2, <1>3, <1>4 DEF Init
  <1>7. TypeOK
    BY <1>1, <1>2, <1>3, <1>5, <1>6 DEF TypeOK, Init, Step, Optional, Idle, Stripes!TableInit
  <1>8. Calls /\ Chosen
    BY DEF Init, Calls, Chosen, Idle, PlacedInserts
  <1>9. Guards
    BY DEF Init, Guards, UnderLock, Placing, Stripes!TableInit, Stripes!Exclusive
  <1>10. QED
    BY <1>7, <1>8, <1>9 DEF TreeInv

-----------------------------------------------------------------------------
(* Calls and returns *)

LEMMA BeginStep ==
  ASSUME TreeInv, NEW t \in Thread, NEW o \in Request, Begin(t, o)
  PROVE  TreeInv'
  <1> USE DEF TreeInv, Begin, Goto, shared
  <1>1. /\ o.path \in Path /\ o.kind \in CallKind
        /\ o.kind \in Inserts \cup {"embed_existing", "get", "delete"} \cup Writes
    BY RequestFacts DEF CallKind, Inserts, Writes
  <1>2. FirstStep(o.kind) \in Step
    BY <1>1 DEF FirstStep, Inserts, Writes, Step
  <1>3. TypeOK'
    BY <1>1, <1>2 DEF TypeOK
  <1>4. Calls'
    BY <1>1 DEF TypeOK, Calls, FirstStep, Inserts, Writes, PlacedInserts
  <1>5. Chosen'
    BY <1>1 DEF TypeOK, Chosen, FirstStep, Inserts, Writes, PlacedInserts
  <1>6. Guards'
    BY <1>1 DEF TypeOK, Guards, UnderLock, Placing, FirstStep, Inserts, Writes, Stripes!Exclusive
  <1>7. QED
    BY <1>3, <1>4, <1>5, <1>6

LEMMA ReturnStep ==
  ASSUME TreeInv, NEW t \in Thread, Return(t)
  PROVE  TreeInv'
  <1> USE DEF TreeInv, Return, Goto, shared
  <1>1. TypeOK'
    BY DEF TypeOK, Optional, Step
  <1>2. Calls'
    BY DEF TypeOK, Calls, Idle
  <1>3. Chosen'
    BY DEF TypeOK, Chosen, Idle
  <1>4. Guards'
    BY DEF TypeOK, Guards, UnderLock, Placing, Stripes!Exclusive
  <1>5. QED
    BY <1>1, <1>2, <1>3, <1>4

-----------------------------------------------------------------------------
(* insert, insert_positioned and insert_data_only *)

LEMMA CheckStep ==
  ASSUME TreeInv, NEW t \in Thread, Check(t)
  PROVE  TreeInv'
  <1> USE DEF TreeInv, Check, Goto, Answer, shared, local
  <1>1. TypeOK'
    BY DEF TypeOK, Step
  <1>2. Calls'
    BY DEF TypeOK, Calls
  <1>3. Chosen'
    BY DEF TypeOK, Chosen
  <1>4. Guards'
    BY DEF TypeOK, Guards, UnderLock, Placing, Stripes!Exclusive
  <1>5. QED
    BY <1>1, <1>2, <1>3, <1>4

LEMMA ResolveStep ==
  ASSUME TreeInv, NEW t \in Thread, Resolve(t)
  PROVE  TreeInv'
  <1> USE DEF TreeInv, Resolve, Goto, Answer, shared
  <1>1. op[t].path \in Path
    BY RequestFacts, PathAssumption DEF TypeOK, Idle
  <1>2. pathMap[parent_path(op[t].path)] \in Optional(Id)
    BY <1>1, ParentPath DEF TypeOK
  <1>3. TypeOK'
    <2>1. parentId' \in [Thread -> Optional(Id)]
      BY <1>2 DEF TypeOK, Optional
    <2>2. pc' \in [Thread -> Step]
      BY DEF TypeOK, Step
    <2>3. QED
      BY <2>1, <2>2 DEF TypeOK
  <1>4. Calls'
    BY DEF TypeOK, Calls
  <1>5. Chosen'
    BY <1>2 DEF TypeOK, Chosen, Optional, Calls
  <1>6. Guards'
    BY DEF TypeOK, Guards, UnderLock, Placing, Stripes!Exclusive
  <1>7. QED
    BY <1>3, <1>4, <1>5, <1>6

LEMMA LockStep ==
  ASSUME TreeInv, NEW t \in Thread, Lock(t)
  PROVE  TreeInv'
  <1> USE DEF TreeInv, Lock, Goto, shared, local, Stripes!Acquire
  <1>1. op[t] \in Request
    <2>1. op[t].kind \in Inserts
      BY DEF Calls
    <2>2. QED
      BY <2>1, CallRequest DEF Inserts
  <1>2. InsertKey(t) \in LockKey
    BY <1>1, RequestFacts, ParentPath DEF InsertKey, LockKey, Chosen
  <1>3. held' = [held EXCEPT ![t] = {InsertKey(t)}]
    OBVIOUS
  <1>4. TypeOK'
    BY <1>2, <1>3 DEF TypeOK, Step
  <1>5. Calls'
    BY DEF TypeOK, Calls
  <1>6. Chosen'
    BY DEF TypeOK, Chosen
  <1>7. Guards'
    <2>1. Stripes!Exclusive'
      BY <1>3 DEF TypeOK, Guards, Stripes!Exclusive
    <2>2. parentId[t] = Nil \/ parentId[t] \in held'[t]
      BY <1>3 DEF TypeOK, Guards, InsertKey
    <2>3. ASSUME NEW u \in Thread, u # t
          PROVE  held'[u] = held[u] /\ pc'[u] = pc[u]
      BY <1>3, <2>3 DEF TypeOK
    <2>4. pc'[t] = "recheck"
      BY DEF TypeOK
    <2>5. QED
      BY <2>1, <2>2, <2>3, <2>4 DEF Guards, UnderLock, Placing
  <1>8. QED
    BY <1>4, <1>5, <1>6, <1>7

LEMMA RecheckStep ==
  ASSUME TreeInv, NEW t \in Thread, Recheck(t)
  PROVE  TreeInv'
  <1> USE DEF TreeInv, Recheck, Goto, Answer, shared, local
  <1>1. TypeOK'
    BY DEF TypeOK, Step
  <1>2. Calls'
    BY DEF TypeOK, Calls, Inserts, PlacedInserts
  <1>3. Chosen'
    BY DEF TypeOK, Chosen, PlacedInserts
  <1>4. Guards'
    BY DEF TypeOK, Guards, UnderLock, Placing, Stripes!Exclusive
  <1>5. QED
    BY <1>1, <1>2, <1>3, <1>4

LEMMA StoreStubStep ==
  ASSUME TreeInv, NEW t \in Thread, StoreStub(t)
  PROVE  TreeInv'
  <1> USE DEF TreeInv, StoreStub, Goto
  <1>1. op[t] \in Request /\ op[t].kind = "insert_data_only"
    BY DEF TypeOK, Calls, Idle
  <1>2. StubId(op[t].path) \in Id
    BY <1>1, RequestFacts, StubFacts
  <1>3. NewNode(op[t].path, op[t].arg) \in Node
    BY <1>1, RequestFacts, NodeFacts DEF Inserts
  <1>4. \A i \in DOMAIN nodes' : i \in Id /\ nodes'[i] \in Node
    BY <1>2, <1>3, EntryKeeps DEF TypeOK
  <1>5. TypeOK'
    BY <1>2, <1>4 DEF TypeOK, Step, Optional
  <1>6. Calls'
    BY <1>1 DEF TypeOK, Calls, Inserts
  <1>7. Chosen'
    BY <1>1, <1>2 DEF TypeOK, Chosen
  <1>8. Guards'
    BY DEF TypeOK, Guards, UnderLock, Placing, Stripes!Exclusive
  <1>9. QED
    BY <1>5, <1>6, <1>7, <1>8

-----------------------------------------------------------------------------
(* add_node *)

(* Every slot the probe loop tries is an id with a position.               *)
LEMMA SlotType ==
  ASSUME TypeOK, Calls, NEW t \in Thread, op[t].kind \in PlacedInserts \cup {"embed_existing"},
         pc[t] # "return", NEW i \in Probes(t)
  PROVE  i \in Nat /\ Slot(t, i) \in Id /\ ~is_stub(Slot(t, i))
  <1>1. FirstIndex(t) \in Nat
    <2>1. op[t] \in Request
      BY CallRequest DEF PlacedInserts
    <2>2. QED
      BY <2>1, RequestFacts DEF FirstIndex, TypeOK
  <1>2. i \in Nat
    BY <1>1, BoundAssumption DEF Probes
  <1>3. Base(parentId[t]) \in Seq(Nat)
    BY PositionType, EmptySeq DEF Base, TypeOK
  <1>4. Spot(t, i) \in Seq(Nat)
    BY <1>2, <1>3 DEF Spot
  <1>5. Len(Target(t)) \in Nat
    <2>1. Target(t) \in Path
      BY TargetType DEF PlacedInserts
    <2>2. Target(t) \in Seq(STRING)
      BY <2>1, PathAssumption
    <2>3. QED
      BY <2>2
  <1>6. QED
    BY <1>2, <1>4, <1>5, EmbeddedFacts DEF Slot

LEMMA PlaceStep ==
  ASSUME TreeInv, NEW t \in Thread, Place(t)
  PROVE  TreeInv'
  <1> USE DEF TreeInv, Goto, Answer
  <1>1. op[t].kind \in PlacedInserts \cup {"embed_existing"} /\ parentId[t] \in Id
    BY DEF Place, Calls, Chosen
  <1>2. /\ newId' \in [Thread -> Optional(Id)]
        /\ \A u \in Thread \ {t} : newId'[u] = newId[u]
        /\ pc'[t] = "register" => newId'[t] \in Id /\ ~is_stub(newId'[t])
    <2>1. newId \in [Thread -> Optional(Id)] /\ pc \in [Thread -> Step] /\ pc[t] = "place"
      BY DEF TypeOK, Place
    <2>2. CASE Answer(t, "failed") /\ UNCHANGED newId
      BY <2>1, <2>2
    <2>3. ASSUME NEW i \in Probes(t), newId' = [newId EXCEPT ![t] = Slot(t, i)]
          PROVE  /\ newId' \in [Thread -> Optional(Id)]
                 /\ \A u \in Thread \ {t} : newId'[u] = newId[u]
                 /\ newId'[t] \in Id /\ ~is_stub(newId'[t])
      <3>1. Slot(t, i) \in Id /\ ~is_stub(Slot(t, i))
        BY <1>1, <2>1, SlotType
      <3>2. QED
        BY <2>1, <2>3, <3>1 DEF Optional
    <2>4. QED
      BY <2>2, <2>3 DEF Place
  <1>3. \A i \in DOMAIN childCount' : i \in Id /\ childCount'[i] \in Nat
    <2>1. CASE UNCHANGED childCount
      BY <2>1 DEF TypeOK
    <2>2. ASSUME NEW i \in Probes(t), childCount' = Committed(parentId[t], i)
          PROVE  \A x \in DOMAIN childCount' : x \in Id /\ childCount'[x] \in Nat
      <3>1. i \in Nat
        BY <1>1, SlotType DEF Place
      <3>2. \A x \in DOMAIN childCount : x \in Id /\ childCount[x] \in Nat
        BY DEF TypeOK
      <3>3. (IF parentId[t] \in DOMAIN childCount /\ childCount[parentId[t]] > i
             THEN childCount[parentId[t]] ELSE i + 1) \in Nat
        BY <3>1, <3>2
      <3>4. QED
        BY <1>1, <2>2, <3>2, <3>3, EntryKeeps DEF Committed
    <2>3. QED
      BY <2>1, <2>2 DEF Place
  <1>4. pc' \in [Thread -> Step] /\ pc'[t] \in {"register", "return"}
        /\ \A u \in Thread \ {t} : pc'[u] = pc[u]
    BY DEF Place, TypeOK, Step
  <1>5. UNCHANGED <<pathMap, idToPath, nodes, points, held, op, frames, parentId, ownId, copy>>
    BY DEF Place
  <1>6. pc[t] = "place"
    BY DEF Place
  <1>7. TypeOK'
    BY <1>2, <1>3, <1>4, <1>5 DEF TypeOK
  <1>8. Calls'
    BY <1>1, <1>4, <1>5, <1>6 DEF Calls
  <1>9. Chosen'
    BY <1>1, <1>2, <1>4, <1>5, <1>6 DEF Chosen
  <1>10. Guards'
    BY <1>4, <1>5, <1>6 DEF Guards, UnderLock, Placing, Stripes!Exclusive
  <1>11. QED
    BY <1>7, <1>8, <1>9, <1>10

LEMMA RegisterStep ==
  ASSUME TreeInv, NEW t \in Thread, Register(t)
  PROVE  TreeInv'
  <1> USE DEF TreeInv, Register, Goto, local
  <1> DEFINE value == IF op[t].kind = "embed_existing" THEN copy[t].val ELSE op[t].arg
  <1>1. op[t].kind \in PlacedInserts \cup {"embed_existing"} /\ op[t] \in Request
    BY CallRequest DEF Calls, PlacedInserts
  <1>2. value \in Value \cup {NoArg}
    BY <1>1, RequestFacts, NodeFacts DEF Chosen, Inserts, PlacedInserts
  <1>3. newId[t] \in Id /\ ~is_stub(newId[t])
    BY DEF Chosen
  <1>4. \A i \in DOMAIN nodes' : i \in Id /\ nodes'[i] \in Node
    <2>1. Target(t) \in Path
      BY <1>1, TargetType DEF PlacedInserts
    <2>2. NewNode(Target(t), value) \in Node
      BY <1>2, <2>1, NodeFacts
    <2>3. nodes' = Entry(nodes, newId[t], NewNode(Target(t), value))
      OBVIOUS
    <2>4. \A i \in DOMAIN nodes : i \in Id /\ nodes[i] \in Node
      BY DEF TypeOK
    <2> HIDE DEF value
    <2>5. QED
      BY <1>3, <2>2, <2>3, <2>4, EntryKeeps
  <1>5. TypeOK'
    BY <1>3, <1>4 DEF TypeOK, Step
  <1>6. Calls'
    BY <1>1 DEF TypeOK, Calls
  <1>7. Chosen'
    BY DEF TypeOK, Chosen
  <1>8. Guards'
    BY DEF TypeOK, Guards, UnderLock, Placing, Stripes!Exclusive
  <1>9. QED
    BY <1>5, <1>6, <1>7, <1>8

LEMMA LinkStep ==
  ASSUME TreeInv, NEW t \in Thread, Link(t)
  PROVE  TreeInv'
  <1> USE DEF TreeInv, Link, Goto, local
  <1>1. newId[t] \in Id
    BY DEF Chosen
  <1>2. \A i \in DOMAIN nodes : i \in Id /\ nodes[i] \in Node
    BY DEF TypeOK
  <1>3. \A i \in DOMAIN nodes' : i \in Id /\ nodes'[i] \in Node
    <2>1. CASE parentId[t] \in DOMAIN nodes
      <3>1. nodes[parentId[t]].children \cup {newId[t]} \in SUBSET Id
        BY <1>1, <1>2, <2>1, NodeFacts
      <3>2. nodes' = [nodes EXCEPT ![parentId[t]].children =
                                     nodes[parentId[t]].children \cup {newId[t]}]
        BY <2>1
      <3>3. QED
        BY <1>2, <3>1, <3>2, ChildrenKeeps
    <2>2. CASE parentId[t] \notin DOMAIN nodes
      BY <1>2, <2>2
    <2>3. QED
      BY <2>1, <2>2
  <1>4. TypeOK'
    BY <1>3 DEF TypeOK, Step
  <1>5. Calls'
    BY DEF TypeOK, Calls, Inserts, PlacedInserts
  <1>6. Chosen'
    BY DEF TypeOK, Chosen, Calls
  <1>7. Guards'
    BY DEF TypeOK, Guards, UnderLock, Placing, Stripes!Exclusive
  <1>8. QED
    BY <1>4, <1>5, <1>6, <1>7

LEMMA RecordPathStep ==
  ASSUME TreeInv, NEW t \in Thread, RecordPath(t)
  PROVE  TreeInv'
  <1> USE DEF TreeInv, RecordPath, Goto, local
  <1>1. newId[t] \in Id /\ Target(t) \in Path
    BY TargetType DEF Chosen, Calls, Inserts
  <1>2. \A i \in DOMAIN idToPath' : i \in Id /\ idToPath'[i] \in Path
    BY <1>1, EntryKeeps DEF TypeOK
  <1>3. TypeOK'
    BY <1>2 DEF TypeOK, Step
  <1>4. Calls'
    BY DEF TypeOK, Calls
  <1>5. Chosen'
    BY DEF TypeOK, Chosen
  <1>6. Guards'
    BY DEF TypeOK, Guards, UnderLock, Placing, Stripes!Exclusive
  <1>7. QED
    BY <1>3, <1>4, <1>5, <1>6

LEMMA PublishStep ==
  ASSUME TreeInv, NEW t \in Thread, Publish(t)
  PROVE  TreeInv'
  <1> USE DEF TreeInv, Publish, Goto, Answer, local
  <1>1. newId[t] \in Id /\ Target(t) \in Path
    BY TargetType DEF Chosen, Calls, Inserts
  <1>2. TypeOK'
    <2>1. pathMap' \in [Path -> Optional(Id)]
      BY <1>1 DEF TypeOK, Optional
    <2>2. pc' \in [Thread -> Step]
      BY DEF TypeOK, Step
    <2>3. QED
      BY <2>1, <2>2 DEF TypeOK
  <1>3. Calls'
    BY DEF TypeOK, Calls
  <1>4. Chosen'
    BY DEF TypeOK, Chosen
  <1>5. Guards'
    BY DEF TypeOK, Guards, UnderLock, Placing, Stripes!Exclusive
  <1>6. QED
    BY <1>2, <1>3, <1>4, <1>5

-----------------------------------------------------------------------------
(* embed_existing *)

(* A frame that returns ends the call or leaves a path to go on with, and  *)
(* only ever lets stripes go.                                              *)
LEMMA FrameDoneFacts ==
  ASSUME TypeOK, Calls, NEW t \in Thread, NEW r, FrameDone(t, r),
         op[t].kind = "embed_existing", pc[t] # "return"
  PROVE  /\ pc' \in [Thread -> Step] /\ pc'[t] \in {"return", "embed_resolve"}
         /\ frames' \in [Thread -> Seq(Path)]
         /\ pc'[t] = "return" \/ frames'[t] # <<>>
         /\ held' \in [Thread -> SUBSET LockKey] /\ held'[t] \subseteq held[t]
         /\ \A u \in Thread \ {t} : /\ pc'[u] = pc[u]
                                     /\ frames'[u] = frames[u]
                                     /\ held'[u] = held[u]
  <1>1. frames[t] \in Seq(Path) /\ frames[t] # <<>>
    BY DEF TypeOK, Calls
  <1>2. /\ pc \in [Thread -> Step] /\ frames \in [Thread -> Seq(Path)]
        /\ held \in [Thread -> SUBSET LockKey]
    BY DEF TypeOK
  <1>3. CASE Len(frames[t]) = 1
    BY <1>1, <1>2, <1>3 DEF FrameDone, Answer, Goto, Step
  <1>4. CASE Len(frames[t]) # 1
    <2>1. Tail(frames[t]) \in Seq(Path) /\ Tail(frames[t]) # <<>>
      <3>1. Tail(frames[t]) \in Seq(Path) /\ Len(Tail(frames[t])) = Len(frames[t]) - 1
        BY <1>1, HeadTailProperties
      <3>2. Len(frames[t]) \in Nat /\ Len(frames[t]) # 0
        BY <1>1, EmptySeq
      <3>3. Len(Tail(frames[t])) # 0
        BY <1>4, <3>1, <3>2
      <3>4. QED
        BY <3>1, <3>3, EmptySeq
    <2>2. /\ frames' = [frames EXCEPT ![t] = Tail(frames[t])]
          /\ held' = [held EXCEPT ![t] = {}]
          /\ pc' = [pc EXCEPT ![t] = "embed_resolve"]
      BY <1>4 DEF FrameDone, Goto
    <2>3. QED
      BY <1>2, <2>1, <2>2 DEF Step
  <1>5. QED
    BY <1>3, <1>4

LEMMA EmbedCheckStep ==
  ASSUME TreeInv, NEW t \in Thread, EmbedCheck(t)
  PROVE  TreeInv'
  <1> USE DEF TreeInv
  <1>1. op[t].kind = "embed_existing" /\ pc[t] = "embed_check"
    BY DEF EmbedCheck, Calls
  <1>2. Target(t) \in Path
    BY <1>1, TargetType
  <1>3. UNCHANGED <<shared, op, parentId, ownId, newId, copy>>
    BY DEF EmbedCheck
  <1>4. /\ pc' \in [Thread -> Step] /\ pc'[t] \in {"return", "embed_resolve", "embed_check"}
        /\ frames' \in [Thread -> Seq(Path)]
        /\ pc'[t] = "return" \/ frames'[t] # <<>>
        /\ held' \in [Thread -> SUBSET LockKey] /\ held'[t] \subseteq held[t]
        /\ \A u \in Thread \ {t} : pc'[u] = pc[u] /\ frames'[u] = frames[u] /\ held'[u] = held[u]
    <2>1. /\ pc \in [Thread -> Step] /\ frames \in [Thread -> Seq(Path)]
          /\ held \in [Thread -> SUBSET LockKey]
      BY DEF TypeOK
    <2>2. CASE Answer(t, "not_found") /\ UNCHANGED <<frames, held>>
      BY <1>1, <2>1, <2>2 DEF Answer, Goto, Step
    <2>3. CASE FrameDone(t, "already")
      BY <1>1, <2>3, FrameDoneFacts
    <2>4. CASE /\ frames' = [frames EXCEPT ![t] = <<parent_path(Target(t))>> \o @]
               /\ UNCHANGED <<held, pc, reply>>
      <3>1. parent_path(Target(t)) \in Path /\ frames[t] \in Seq(Path)
        BY <1>2, <2>1, ParentPath
      <3>2. /\ <<parent_path(Target(t))>> \o frames[t] \in Seq(Path)
            /\ Len(<<parent_path(Target(t))>> \o frames[t]) = 1 + Len(frames[t])
        BY <3>1
      <3>3. <<parent_path(Target(t))>> \o frames[t] # <<>>
        BY <3>1, <3>2
      <3>4. QED
        BY <1>1, <2>1, <2>4, <3>2, <3>3
    <2>5. QED
      BY <2>2, <2>3, <2>4 DEF EmbedCheck
  <1>5. TypeOK'
    BY <1>3, <1>4 DEF TypeOK, shared
  <1>6. Calls'
    BY <1>1, <1>3, <1>4 DEF Calls
  <1>7. Chosen'
    BY <1>3, <1>4 DEF Chosen
  <1>8. Guards'
    BY <1>3, <1>4 DEF Guards, UnderLock, Placing, Stripes!Exclusive
  <1>9. QED
    BY <1>5, <1>6, <1>7, <1>8

LEMMA EmbedResolveStep ==
  ASSUME TreeInv, NEW t \in Thread, EmbedResolve(t)
  PROVE  TreeInv'
  <1> USE DEF TreeInv, EmbedResolve, Goto, Answer, shared
  <1>1. pathMap[parent_path(Target(t))] \in Optional(Id)
    BY TargetType, ParentPath DEF TypeOK, Calls
  <1>2. TypeOK'
    <2>1. parentId' \in [Thread -> Optional(Id)]
      BY <1>1 DEF TypeOK
    <2>2. pc' \in [Thread -> Step]
      BY DEF TypeOK, Step
    <2>3. QED
      BY <2>1, <2>2 DEF TypeOK
  <1>3. Calls'
    BY DEF TypeOK, Calls
  <1>4. Chosen'
    BY <1>1 DEF TypeOK, Chosen, Optional
  <1>5. Guards'
    BY DEF TypeOK, Guards, UnderLock, Placing, Stripes!Exclusive
  <1>6. QED
    BY <1>2, <1>3, <1>4, <1>5

LEMMA EmbedLockStep ==
  ASSUME TreeInv, NEW t \in Thread, EmbedLock(t)
  PROVE  TreeInv'
  <1> USE DEF TreeInv, EmbedLock, Goto, shared, local, Stripes!Acquire
  <1>1. parentId[t] \in LockKey
    BY DEF Chosen, LockKey
  <1>2. held' = [held EXCEPT ![t] = {parentId[t]}]
    OBVIOUS
  <1>3. TypeOK'
    BY <1>1, <1>2 DEF TypeOK, Step
  <1>4. Calls'
    BY DEF TypeOK, Calls
  <1>5. Chosen'
    BY DEF TypeOK, Chosen, Calls, PlacedInserts
  <1>6. Guards'
    <2>1. Stripes!Exclusive'
      BY <1>2 DEF TypeOK, Guards, Stripes!Exclusive
    <2>2. ASSUME NEW u \in Thread, u # t
          PROVE  held'[u] = held[u] /\ pc'[u] = pc[u]
      BY <1>2, <2>2 DEF TypeOK
    <2>3. pc'[t] = "embed_recheck" /\ parentId[t] \in held'[t]
      BY <1>2 DEF TypeOK
    <2>4. QED
      BY <2>1, <2>2, <2>3 DEF Guards, UnderLock, Placing
  <1>7. QED
    BY <1>3, <1>4, <1>5, <1>6

LEMMA EmbedRecheckStep ==
  ASSUME TreeInv, NEW t \in Thread, EmbedRecheck(t)
  PROVE  TreeInv'
  <1> USE DEF TreeInv
  <1>1. op[t].kind = "embed_existing" /\ pc[t] = "embed_recheck"
    BY DEF EmbedRecheck, Calls
  <1>2. Target(t) \in Path
    BY <1>1, TargetType
  <1>3. UNCHANGED <<shared, op, parentId, newId, copy>>
    BY DEF EmbedRecheck
  <1>4. ownId' \in [Thread -> Optional(Id)]
    BY <1>2 DEF EmbedRecheck, TypeOK
  <1>5. /\ pc' \in [Thread -> Step] /\ pc'[t] \in {"return", "embed_resolve", "snapshot"}
        /\ frames' \in [Thread -> Seq(Path)]
        /\ pc'[t] = "return" \/ frames'[t] # <<>>
        /\ held' \in [Thread -> SUBSET LockKey] /\ held'[t] \subseteq held[t]
        /\ pc'[t] = "snapshot" => held'[t] = held[t]
        /\ \A u \in Thread \ {t} : pc'[u] = pc[u] /\ frames'[u] = frames[u] /\ held'[u] = held[u]
    <2>1. /\ pc \in [Thread -> Step] /\ frames \in [Thread -> Seq(Path)]
          /\ held \in [Thread -> SUBSET LockKey]
      BY DEF TypeOK
    <2>2. CASE Answer(t, "not_found") /\ UNCHANGED <<frames, held>>
      BY <1>1, <2>1, <2>2 DEF Answer, Goto, Step
    <2>3. CASE FrameDone(t, "already")
      BY <1>1, <2>3, FrameDoneFacts
    <2>4. CASE Goto(t, "snapshot") /\ UNCHANGED <<frames, held>>
      <3>1. frames[t] # <<>>
        BY <1>1 DEF Calls
      <3>2. QED
        BY <2>1, <2>4, <3>1 DEF Goto, Step
    <2>5. QED
      BY <2>2, <2>3, <2>4 DEF EmbedRecheck
  <1>6. TypeOK'
    BY <1>3, <1>4, <1>5 DEF TypeOK, shared
  <1>7. Calls'
    BY <1>1, <1>3, <1>5 DEF Calls
  <1>8. Chosen'
    BY <1>1, <1>3, <1>5 DEF Chosen
  <1>9. Guards'
    BY <1>1, <1>3, <1>5 DEF Guards, UnderLock, Placing, Stripes!Exclusive
  <1>10. QED
    BY <1>6, <1>7, <1>8, <1>9

LEMMA SnapshotStep ==
  ASSUME TreeInv, NEW t \in Thread, Snapshot(t)
  PROVE  TreeInv'
  <1> USE DEF TreeInv
  <1>1. op[t].kind = "embed_existing" /\ pc[t] = "snapshot"
    BY DEF Snapshot, Calls
  <1>2. UNCHANGED <<shared, held, op, frames, parentId, ownId, newId>>
    BY DEF Snapshot
  <1>3. /\ copy' \in [Thread -> Optional(Node)]
        /\ pc' \in [Thread -> Step] /\ pc'[t] \in {"return", "place"}
        /\ pc'[t] = "place" => copy'[t] \in Node
        /\ \A u \in Thread \ {t} : pc'[u] = pc[u] /\ copy'[u] = copy[u]
    <2>1. pc \in [Thread -> Step] /\ copy \in [Thread -> Optional(Node)]
      BY DEF TypeOK
    <2>2. CASE Answer(t, "failed") /\ UNCHANGED copy
      BY <2>1, <2>2 DEF Answer, Goto, Step
    <2>3. CASE /\ ownId[t] \in DOMAIN nodes
               /\ copy' = [copy EXCEPT ![t] = nodes[ownId[t]]]
               /\ Goto(t, "place")
      <3>1. nodes[ownId[t]] \in Node
        BY <2>3 DEF TypeOK
      <3>2. QED
        BY <2>1, <2>3, <3>1 DEF Goto, Step, Optional
    <2>4. QED
      BY <2>2, <2>3 DEF Snapshot
  <1>4. parentId[t] \in Id
    BY <1>1 DEF Chosen
  <1>5. TypeOK'
    BY <1>2, <1>3 DEF TypeOK, shared
  <1>6. Calls'
    BY <1>1, <1>2, <1>3 DEF Calls
  <1>7. Chosen'
    BY <1>1, <1>2, <1>3, <1>4 DEF Chosen
  <1>8. Guards'
    BY <1>1, <1>2, <1>3 DEF Guards, UnderLock, Placing, Stripes!Exclusive
  <1>9. QED
    BY <1>5, <1>6, <1>7, <1>8

LEMMA CopyCoordsStep ==
  ASSUME TreeInv, NEW t \in Thread, CopyCoords(t)
  PROVE  TreeInv'
  <1> USE DEF TreeInv, CopyCoords, Goto, local
  <1>1. op[t].kind = "embed_existing" /\ newId[t] \in Id /\ copy[t] \in Node
    BY DEF Calls, Chosen
  <1>2. \A i \in DOMAIN nodes : i \in Id /\ nodes[i] \in Node
    BY DEF TypeOK
  <1>3. \A i \in DOMAIN nodes' : i \in Id /\ nodes'[i] \in Node
    BY <1>1, <1>2, NodeFacts, SemKeeps
  <1>4. TypeOK'
    BY <1>3 DEF TypeOK, Step
  <1>5. Calls'
    BY DEF TypeOK, Calls
  <1>6. Chosen'
    BY <1>1 DEF TypeOK, Chosen
  <1>7. Guards'
    BY DEF TypeOK, Guards, UnderLock, Placing, Stripes!Exclusive
  <1>8. QED
    BY <1>4, <1>5, <1>6, <1>7

LEMMA ForgetStep ==
  ASSUME TreeInv, NEW t \in Thread, Forget(t)
  PROVE  TreeInv'
  <1> USE DEF TreeInv, Forget, Goto, local
  <1>1. \A i \in DOMAIN idToPath' : i \in Id /\ idToPath'[i] \in Path
    BY DEF TypeOK, Without
  <1>2. TypeOK'
    BY <1>1 DEF TypeOK, Step
  <1>3. Calls'
    BY DEF TypeOK, Calls
  <1>4. Chosen'
    BY DEF TypeOK, Chosen
  <1>5. Guards'
    BY DEF TypeOK, Guards, UnderLock, Placing, Stripes!Exclusive
  <1>6. QED
    BY <1>2, <1>3, <1>4, <1>5

LEMMA RetireStep ==
  ASSUME TreeInv, NEW t \in Thread, Retire(t)
  PROVE  TreeInv'
  <1> USE DEF TreeInv
  <1>1. op[t].kind = "embed_existing" /\ pc[t] = "retire"
    BY DEF Retire, Calls
  <1>2. UNCHANGED <<pathMap, idToPath, points, childCount, op, parentId, ownId, newId, copy>>
    BY DEF Retire
  <1>3. \A i \in DOMAIN nodes' : i \in Id /\ nodes'[i] \in Node
    BY DEF TypeOK, Retire, Without
  <1>4. /\ pc' \in [Thread -> Step] /\ pc'[t] \in {"return", "embed_resolve"}
        /\ frames' \in [Thread -> Seq(Path)]
        /\ pc'[t] = "return" \/ frames'[t] # <<>>
        /\ held' \in [Thread -> SUBSET LockKey] /\ held'[t] \subseteq held[t]
        /\ \A u \in Thread \ {t} : pc'[u] = pc[u] /\ frames'[u] = frames[u] /\ held'[u] = held[u]
    BY <1>1, FrameDoneFacts DEF Retire
  <1>5. TypeOK'
    BY <1>2, <1>3, <1>4 DEF TypeOK
  <1>6. Calls'
    BY <1>1, <1>2, <1>4 DEF Calls
  <1>7. Chosen'
    BY <1>2, <1>4 DEF Chosen
  <1>8. Guards'
    BY <1>2, <1>4 DEF Guards, UnderLock, Placing, Stripes!Exclusive
  <1>9. QED
    BY <1>5, <1>6, <1>7, <1>8

-----------------------------------------------------------------------------
(* update_value, set_semantic and get *)

LEMMA WriteStep ==
  ASSUME TreeInv, NEW t \in Thread, Write(t)
  PROVE  TreeInv'
  <1> USE DEF TreeInv, Goto, Answer, local
  <1>1. op[t].kind \in Writes /\ op[t] \in Request
    BY CallRequest DEF Write, Calls, Writes
  <1>2. \A i \in DOMAIN nodes : i \in Id /\ nodes[i] \in Node
    BY DEF TypeOK
  <1>3. \A i \in DOMAIN nodes' : i \in Id /\ nodes'[i] \in Node
    <2> DEFINE id == pathMap[op[t].path]
    <2>1. CASE UNCHANGED nodes
      BY <1>2, <2>1
    <2>2. CASE op[t].kind = "update_value" /\ nodes' = [nodes EXCEPT ![id].val = op[t].arg]
      <3>1. op[t].arg \in Value
        BY <1>1, <2>2, RequestFacts
      <3> HIDE DEF id
      <3>2. QED
        BY <1>2, <2>2, <3>1, ValKeeps
    <2>3. CASE op[t].kind = "set_semantic" /\ nodes' = [nodes EXCEPT ![id].sem = op[t].arg]
      <3>1. op[t].arg \in Coord \cup {NoCoord}
        BY <1>1, <2>3, RequestFacts
      <3> HIDE DEF id
      <3>2. QED
        BY <1>2, <2>3, <3>1, SemKeeps
    <2>4. QED
      BY <1>1, <2>1, <2>2, <2>3 DEF Write, Writes
  <1>4. /\ UNCHANGED <<pathMap, idToPath, points, childCount, held, op, local>>
        /\ pc' = [pc EXCEPT ![t] = "return"]
    BY DEF Write
  <1>5. TypeOK'
    BY <1>3, <1>4 DEF TypeOK, Step
  <1>6. Calls'
    BY <1>4 DEF TypeOK, Calls
  <1>7. Chosen'
    BY <1>4 DEF TypeOK, Chosen
  <1>8. Guards'
    BY <1>4 DEF TypeOK, Guards, UnderLock, Placing, Stripes!Exclusive
  <1>9. QED
    BY <1>5, <1>6, <1>7, <1>8

LEMMA ReadStep ==
  ASSUME TreeInv, NEW t \in Thread, Read(t)
  PROVE  TreeInv'
  <1> USE DEF TreeInv
  <1>1. /\ UNCHANGED <<shared, held, op, local>>
        /\ pc' = [pc EXCEPT ![t] = "return"]
    BY DEF Read, Answer, Goto
  <1>2. TypeOK'
    BY <1>1 DEF TypeOK, Step, shared, local
  <1>3. Calls'
    BY <1>1 DEF TypeOK, Calls, local
  <1>4. Chosen'
    BY <1>1 DEF TypeOK, Chosen, local
  <1>5. Guards'
    BY <1>1 DEF TypeOK, Guards, UnderLock, Placing, Stripes!Exclusive, local
  <1>6. QED
    BY <1>2, <1>3, <1>4, <1>5

-----------------------------------------------------------------------------
(* delete.  Its steps are no placements, so Guards has little to say.      *)

LEMMA DeleteReadStep ==
  ASSUME TreeInv, NEW t \in Thread, DeleteRead(t)
  PROVE  TreeInv'
  <1> USE DEF TreeInv, DeleteRead, Goto, Answer, shared
  <1>1. op[t].path \in Path
    BY RequestFacts, PathAssumption DEF TypeOK, Idle
  <1>2. ownId' \in [Thread -> Optional(Id)] /\ pc' \in [Thread -> Step]
    BY <1>1 DEF TypeOK, Step
  <1>3. TypeOK'
    BY <1>2 DEF TypeOK
  <1>4. Calls'
    BY DEF TypeOK, Calls
  <1>5. Chosen'
    BY DEF TypeOK, Chosen
  <1>6. Guards'
    BY DEF TypeOK, Guards, UnderLock, Placing, Stripes!Exclusive
  <1>7. QED
    BY <1>3, <1>4, <1>5, <1>6

LEMMA DeleteParentStep ==
  ASSUME TreeInv, NEW t \in Thread, DeleteParent(t)
  PROVE  TreeInv'
  <1> USE DEF TreeInv, DeleteParent, Goto, shared
  <1>1. op[t].path \in Path
    BY RequestFacts, PathAssumption DEF TypeOK, Idle
  <1>2. parentId' \in [Thread -> Optional(Id)] /\ pc' \in [Thread -> Step]
    BY <1>1, ParentPath DEF TypeOK, Step
  <1>3. TypeOK'
    BY <1>2 DEF TypeOK
  <1>4. Calls'
    BY DEF TypeOK, Calls
  <1>5. Chosen'
    BY DEF TypeOK, Chosen
  <1>6. Guards'
    BY DEF TypeOK, Guards, UnderLock, Placing, Stripes!Exclusive
  <1>7. QED
    BY <1>3, <1>4, <1>5, <1>6

LEMMA DeleteLockStep ==
  ASSUME TreeInv, NEW t \in Thread, DeleteLock(t)
  PROVE  TreeInv'
  <1> USE DEF TreeInv, DeleteLock, Goto, shared, local, Stripes!Acquire
  <1>1. DeleteKeys(t) \subseteq LockKey
    BY DEF TypeOK, DeleteKeys, LockKey, Optional
  <1>2. /\ held' = [held EXCEPT ![t] = DeleteKeys(t)]
        /\ \A u \in Thread \ {t} : held[u] \cap DeleteKeys(t) = {}
    OBVIOUS
  <1>3. TypeOK'
    BY <1>1, <1>2 DEF TypeOK, Step
  <1>4. Calls'
    BY DEF TypeOK, Calls
  <1>5. Chosen'
    BY DEF TypeOK, Chosen
  <1>6. Guards'
    <2>1. Stripes!Exclusive'
      BY <1>2 DEF TypeOK, Guards, Stripes!Exclusive
    <2>2. ASSUME NEW u \in Thread, u # t
          PROVE  held'[u] = held[u] /\ pc'[u] = pc[u]
      BY <1>2, <2>2 DEF TypeOK
    <2>3. pc'[t] = "delete_check"
      BY DEF TypeOK
    <2>4. QED
      BY <2>1, <2>2, <2>3 DEF Guards, UnderLock, Placing
  <1>7. QED
    BY <1>3, <1>4, <1>5, <1>6

LEMMA DeleteCheckStep ==
  ASSUME TreeInv, NEW t \in Thread, DeleteCheck(t)
  PROVE  TreeInv'
  <1> USE DEF TreeInv
  <1>1. /\ UNCHANGED <<shared, held, op, local>>
        /\ pc' = [pc EXCEPT ![t] = "return"] \/ pc' = [pc EXCEPT ![t] = "unmap"]
    BY DEF DeleteCheck, Answer, Goto
  <1>2. pc[t] = "delete_check"
    BY DEF DeleteCheck
  <1>3. TypeOK'
    BY <1>1 DEF TypeOK, Step, shared, local
  <1>4. Calls'
    BY <1>1, <1>2 DEF TypeOK, Calls, local
  <1>5. Chosen'
    BY <1>1 DEF TypeOK, Chosen, local
  <1>6. Guards'
    BY <1>1 DEF TypeOK, Guards, UnderLock, Placing, Stripes!Exclusive, local
  <1>7. QED
    BY <1>3, <1>4, <1>5, <1>6

LEMMA UnmapStep ==
  ASSUME TreeInv, NEW t \in Thread, Unmap(t)
  PROVE  TreeInv'
  <1> USE DEF TreeInv, Unmap, Goto, Answer
  <1>1. op[t].path \in Path
    BY RequestFacts, PathAssumption DEF TypeOK, Idle
  <1>2. /\ pathMap' \in [Path -> Optional(Id)] /\ ownId' \in [Thread -> Optional(Id)]
        /\ pc' \in [Thread -> Step]
    BY <1>1 DEF TypeOK, Optional, Step
  <1>3. TypeOK'
    BY <1>2 DEF TypeOK
  <1>4. Calls'
    BY DEF TypeOK, Calls
  <1>5. Chosen'
    BY DEF TypeOK, Chosen
  <1>6. Guards'
    BY DEF TypeOK, Guards, UnderLock, Placing, Stripes!Exclusive
  <1>7. QED
    BY <1>3, <1>4, <1>5, <1>6

LEMMA DeleteForgetStep ==
  ASSUME TreeInv, NEW t \in Thread, DeleteForget(t)
  PROVE  TreeInv'
  <1> USE DEF TreeInv, DeleteForget, Goto, local
  <1>1. \A i \in DOMAIN idToPath' : i \in Id /\ idToPath'[i] \in Path
    BY DEF TypeOK, Without
  <1>2. TypeOK'
    BY <1>1 DEF TypeOK, Step
  <1>3. Calls'
    BY DEF TypeOK, Calls
  <1>4. Chosen'
    BY DEF TypeOK, Chosen
  <1>5. Guards'
    BY DEF TypeOK, Guards, UnderLock, Placing, Stripes!Exclusive
  <1>6. QED
    BY <1>2, <1>3, <1>4, <1>5

LEMMA UnregisterStep ==
  ASSUME TreeInv, NEW t \in Thread, Unregister(t)
  PROVE  TreeInv'
  <1> USE DEF TreeInv, Unregister, Goto, local
  <1>1. \A i \in DOMAIN nodes' : i \in Id /\ nodes'[i] \in Node
    BY DEF TypeOK, Without
  <1>2. \A i \in DOMAIN childCount' : i \in Id /\ childCount'[i] \in Nat
    BY DEF TypeOK, Without
  <1>3. TypeOK'
    BY <1>1, <1>2 DEF TypeOK, Step
  <1>4. Calls'
    BY DEF TypeOK, Calls
  <1>5. Chosen'
    BY DEF TypeOK, Chosen
  <1>6. Guards'
    BY DEF TypeOK, Guards, UnderLock, Placing, Stripes!Exclusive
  <1>7. QED
    BY <1>3, <1>4, <1>5, <1>6

LEMMA UnlinkStep ==
  ASSUME TreeInv, NEW t \in Thread, Unlink(t)
  PROVE  TreeInv'
  <1> USE DEF TreeInv, Unlink, Goto, Answer, local
  <1>1. \A i \in DOMAIN nodes : i \in Id /\ nodes[i] \in Node
    BY DEF TypeOK
  <1>2. \A i \in DOMAIN nodes' : i \in Id /\ nodes'[i] \in Node
    <2>1. CASE parentId[t] \in DOMAIN nodes
      <3>1. nodes[parentId[t]].children \ {ownId[t]} \in SUBSET Id
        BY <1>1, <2>1, NodeFacts
      <3>2. nodes' = [nodes EXCEPT ![parentId[t]].children =
                                     nodes[parentId[t]].children \ {ownId[t]}]
        BY <2>1
      <3>3. QED
        BY <1>1, <3>1, <3>2, ChildrenKeeps
    <2>2. CASE parentId[t] \notin DOMAIN nodes
      BY <1>1, <2>2
    <2>3. QED
      BY <2>1, <2>2
  <1>3. TypeOK'
    BY <1>2 DEF TypeOK, Step
  <1>4. Calls'
    BY DEF TypeOK, Calls
  <1>5. Chosen'
    BY DEF TypeOK, Chosen
  <1>6. Guards'
    BY DEF TypeOK, Guards, UnderLock, Placing, Stripes!Exclusive
  <1>7. QED
    BY <1>3, <1>4, <1>5, <1>6

-----------------------------------------------------------------------------
(* The theorems *)

LEMMA TreeStutter == TreeInv /\ UNCHANGED vars => TreeInv'
  BY DEF TreeInv, TypeOK, Calls, Chosen, Guards, Stripes!Exclusive, vars, shared, local

(* Every step of every call keeps the invariant.                           *)
LEMMA NextTreeInv == TreeInv /\ [Next]_vars => TreeInv'
  <1> SUFFICES ASSUME TreeInv, [Next]_vars PROVE TreeInv'
    OBVIOUS
  <1>1. CASE UNCHANGED vars
    BY <1>1, TreeStutter
  <1>2. ASSUME NEW t \in Thread, NEW o \in Request, Begin(t, o) PROVE TreeInv'
    BY <1>2, BeginStep
  <1>3. ASSUME NEW t \in Thread, InsertStep(t) PROVE TreeInv'
    BY <1>3, CheckStep, ResolveStep, LockStep, RecheckStep, StoreStubStep, PlaceStep,
       RegisterStep, LinkStep, RecordPathStep, PublishStep DEF InsertStep
  <1>4. ASSUME NEW t \in Thread, EmbedStep(t) PROVE TreeInv'
    BY <1>4, EmbedCheckStep, EmbedResolveStep, EmbedLockStep, EmbedRecheckStep, SnapshotStep,
       CopyCoordsStep, ForgetStep, RetireStep DEF EmbedStep
  <1>5. ASSUME NEW t \in Thread, DeleteStep(t) PROVE TreeInv'
    BY <1>5, DeleteReadStep, DeleteParentStep, DeleteLockStep, DeleteCheckStep, UnmapStep,
       DeleteForgetStep, UnregisterStep, UnlinkStep DEF DeleteStep
  <1>6. ASSUME NEW t \in Thread, Write(t) \/ Read(t) \/ Return(t) PROVE TreeInv'
    BY <1>6, WriteStep, ReadStep, ReturnStep
  <1>7. QED
    BY <1>1, <1>2, <1>3, <1>4, <1>5, <1>6 DEF Next

(* Whatever calls threads make and however their steps interleave: types,  *)
(* control, what a call has chosen, and the stripe it works under.         *)
THEOREM TreeInvariant == Spec => []TreeInv
  <1>1. QED
    BY InitTreeInv, NextTreeInv, PTL DEF Spec

(* Ids, maps and the locals of every call keep their shape: in particular  *)
(* no data-only id ever has a point.                                       *)
THEOREM TypeCorrect == Spec => []TypeOK
  <1>1. TreeInv => TypeOK
    BY DEF TreeInv
  <1>2. QED
    BY <1>1, TreeInvariant, PTL

(* Placements under one parent id never overlap, with no rule for clients: *)
(* the peek at the sibling counter and its commit act as one (the comment  *)
(* of add_node_inner, "Callers hold the parent stripe lock").              *)
THEOREM PlacementsSerialized == Spec => []SiblingsSerialized
  <1>1. TreeInv => SiblingsSerialized
    BY DEF TreeInv, Guards, UnderLock, Stripes!Exclusive, SiblingsSerialized
  <1>2. QED
    BY <1>1, TreeInvariant, PTL

-----------------------------------------------------------------------------
(* The maps, when clients keep the rules below.                            *)


(* The rules that the maps depend on.                                      *)
MapRules == {"delete_alone", "no_data_only_child", "embed_parents_first", "one_kind_of_insert"}

Removing == {"delete_forget", "unregister", "unlink"}
Deleting == {"delete_read", "delete_parent", "delete_lock", "delete_check", "unmap"} \cup Removing
Upgrading == {"forget", "retire"}

(* The steps at which a call has chosen an id with a position for its node, *)
(* those at which the node is there, and those at which it is listed.      *)
Slotted == {"register", "link", "copy_coords", "record_path", "publish"}
Made == Slotted \ {"register"}
Linked == Made \ {"link"}

Stubbing(t) == op[t].kind = "insert_data_only"

(* The path whose child a call makes, and the path a delete is about.      *)
ParentOf(t) == parent_path(Target(t))

-----------------------------------------------------------------------------
(* What holds of a call at the step it is at *)

(* Calls that a rule keeps apart do not overlap.                           *)
NoClash ==
  \A t, u \in Thread, r \in MapRules :
    t # u /\ pc[t] # "idle" /\ pc[u] # "idle" => ~Clash(r, op[t], op[u])

(* What embed_existing has before it are ancestors of its path, and it     *)
(* never embeds the root.                                                  *)
FramesAt(t) ==
  /\ pc[t] \in Deleting => op[t].kind = "delete"
  /\ op[t].kind = "embed_existing" /\ pc[t] # "return" =>
       \A i \in 1 .. Len(frames[t]) :
         /\ IsPrefix(frames[t][i], op[t].path)
         /\ (frames[t][i] = Root => i = 1 /\ pc[t] = "embed_check")

(* The parent a call has resolved stays the parent, with a position unless *)
(* the new node is data-only.                                              *)
ParentAt(t) ==
  /\ op[t].kind \in PlacedInserts /\ pc[t] \in {"check", "resolve"} =>
       ~is_stub(pathMap[ParentOf(t)])
  /\ Stubbing(t) /\ pc[t] \in {"lock", "recheck", "store_stub", "record_path", "publish"} =>
       pathMap[ParentOf(t)] # Nil
  /\ ~Stubbing(t) /\ pc[t] \in {"lock", "recheck", "embed_lock", "embed_recheck", "snapshot"}
                                \cup Placing \cup Upgrading =>
       parentId[t] # Nil /\ ~is_stub(parentId[t]) /\ parentId[t] = pathMap[ParentOf(t)]

(* The stripe of the parent is held from the second look at the path on.   *)
HoldsAt(t) ==
  /\ pc[t] \in UnderLock \cup Upgrading =>
       IF Stubbing(t) THEN PathKey(ParentOf(t)) \in held[t] ELSE parentId[t] \in held[t]
  /\ pc[t] \in {"delete_check", "unmap"} \cup Removing => DeleteKeys(t) \subseteq held[t]

(* What the second look at the path has found stays so until the call      *)
(* itself changes it.                                                      *)
TargetAt(t) ==
  /\ op[t].kind \in Inserts /\ pc[t] \in Placing \cup {"store_stub"} => pathMap[Target(t)] = Nil
  /\ op[t].kind = "embed_existing" /\ pc[t] \in Placing \cup {"snapshot"} =>
       ownId[t] = StubId(Target(t)) /\ pathMap[Target(t)] = ownId[t]
  /\ pc[t] \in Upgrading =>
       /\ ownId[t] = StubId(Target(t))
       /\ pathMap[Target(t)] = newId[t] /\ newId[t] # Nil /\ ~is_stub(newId[t])

(* An id is one slot beyond its parent, at an index and a level.           *)
Beyond(id, parent, level) ==
  /\ ~is_stub(id) /\ id[2] = level
  /\ Front(Position(id)) = Position(parent) /\ Last(Position(id)) \in Nat

(* The id chosen for the new node is nobody's yet.                         *)
SlotAt(t) ==
  /\ Stubbing(t) /\ pc[t] \in Slotted => newId[t] = StubId(Target(t))
  /\ ~Stubbing(t) /\ pc[t] \in Slotted =>
       Beyond(newId[t], parentId[t], Len(Target(t))) /\ \A p \in Path : pathMap[p] # newId[t]

(* The node goes in under the key of the path, and a delete takes out the  *)
(* node of the path it is about.                                           *)
NodeAt(t) ==
  /\ pc[t] = "register" => newId[t] \notin DOMAIN nodes
  /\ pc[t] \in Made => newId[t] \in DOMAIN nodes /\ nodes[newId[t]].key = Target(t)
  /\ pc[t] \in {"delete_forget", "unregister"} =>
       ownId[t] \in DOMAIN nodes /\ nodes[ownId[t]].key = op[t].path

ListedAt(t) ==
  ~Stubbing(t) /\ pc[t] \in Linked => newId[t] \in nodes[parentId[t]].children

CountedAt(t) ==
  ~Stubbing(t) /\ pc[t] \in Slotted =>
    parentId[t] \in DOMAIN childCount /\ Last(Position(newId[t])) < childCount[parentId[t]]

EntryAt(t) ==
  pc[t] = "publish" => newId[t] \in DOMAIN idToPath /\ idToPath[newId[t]] = Target(t)

(* While a delete looks, its path keeps its id, or another delete takes it; *)
(* what it takes out is no path's any more, and its parent stays.          *)
DeleteAt(t) ==
  LET p == op[t].path
  IN  /\ pc[t] \in Deleting \ Removing =>
           \A q \in Path \ {Root} : parent_path(q) = p => ~is_stub(pathMap[q])
      /\ pc[t] \in {"delete_parent", "delete_lock", "delete_check", "unmap"} =>
           ownId[t] # Nil /\ pathMap[p] \in {ownId[t], Nil}
      /\ pc[t] \in {"delete_lock", "delete_check", "unmap"} =>
           (pathMap[p] # Nil /\ ~is_stub(pathMap[p]) => parentId[t] = pathMap[parent_path(p)])
      /\ pc[t] = "unmap" =>
           pathMap[p] # Nil /\ \A q \in Path \ {Root} : parent_path(q) = p => pathMap[q] = Nil
      /\ pc[t] \in Removing =>
           /\ ownId[t] # Nil /\ \A q \in Path : pathMap[q] # ownId[t]
           /\ is_stub(ownId[t]) => ownId[t] = StubId(p)
           /\ ~is_stub(ownId[t]) =>
                /\ parentId[t] # Nil /\ ~is_stub(parentId[t])
                /\ parentId[t] = pathMap[parent_path(p)]
                /\ Beyond(ownId[t], parentId[t], Len(p))

-----------------------------------------------------------------------------
(* What holds of the maps *)

(* The ids of the paths: the key decides a data-only id, the parent's      *)
(* position and the depth an embedded one.                                 *)
IdsOK ==
  /\ pathMap[Root] = EmbeddedId(0, <<>>)
  /\ \A p \in Path : is_stub(pathMap[p]) => pathMap[p] = StubId(p)
  /\ \A p \in Mapped \ {Root} :
       /\ pathMap[parent_path(p)] # Nil
       /\ ~is_stub(pathMap[p]) =>
            /\ ~is_stub(pathMap[parent_path(p)])
            /\ Beyond(pathMap[p], pathMap[parent_path(p)], Len(p))

(* The node, the entry of the reverse map and the place in a child list    *)
(* that a call has made before its path is mapped, or has yet to take away *)
(* after it is not.                                                        *)
Owns(t, id) ==
  \/ pc[t] \in Made /\ newId[t] = id
  \/ pc[t] \in Upgrading \cup {"delete_forget", "unregister"} /\ ownId[t] = id

Names(t, id) ==
  \/ pc[t] = "publish" /\ newId[t] = id
  \/ pc[t] \in {"forget", "delete_forget"} /\ ownId[t] = id

Lists(t, id, c) ==
  /\ parentId[t] = id
  /\ (pc[t] \in Linked /\ newId[t] = c) \/ (pc[t] \in Removing /\ ownId[t] = c)

NodesOK ==
  /\ PublishedResolves
  /\ \A id \in DOMAIN nodes :
       (\E p \in Path : pathMap[p] = id) \/ (\E t \in Thread : Owns(t, id))

EntriesOK ==
  /\ \A p \in Mapped : pathMap[p] \in DOMAIN idToPath /\ idToPath[pathMap[p]] = p
  /\ \A id \in DOMAIN idToPath :
       (\E p \in Path : pathMap[p] = id) \/ (\E t \in Thread : Names(t, id))

PointsOK == points = {id \in DOMAIN nodes : ~is_stub(id)}

CountersOK ==
  /\ DOMAIN childCount \subseteq points
  /\ CounterAboveChildren

(* A node lists the children that have a position, those on the way in and *)
(* those on the way out, and no other.                                     *)
ChildrenOK ==
  /\ \A q \in Mapped \ {Root} : ~is_stub(pathMap[q]) =>
       pathMap[q] \in nodes[pathMap[parent_path(q)]].children
  /\ \A id \in DOMAIN nodes : \A c \in nodes[id].children :
       /\ ~is_stub(c)
       /\ \/ \E q \in Path \ {Root} : pathMap[q] = c /\ pathMap[parent_path(q)] = id
          \/ \E t \in Thread : Lists(t, id, c)

(* By what of the shared maps they speak of.                               *)
CallAt(t) == FramesAt(t) /\ HoldsAt(t)
PathsAt(t) == ParentAt(t) /\ TargetAt(t) /\ SlotAt(t) /\ DeleteAt(t)
NodesAt(t) == NodeAt(t) /\ ListedAt(t)

ThreadOK(t) == CallAt(t) /\ PathsAt(t) /\ NodesAt(t) /\ CountedAt(t) /\ EntryAt(t)

MapsOK == IdsOK /\ NodesOK /\ EntriesOK /\ PointsOK /\ CountersOK /\ ChildrenOK

MapsInv == TreeInv /\ NoClash /\ MapsOK /\ \A t \in Thread : ThreadOK(t)

-----------------------------------------------------------------------------
(* Paths *)

LEMMA PathType ==
  ASSUME NEW p \in Path
  PROVE  /\ p \in Seq(STRING) /\ Len(p) \in Nat
         /\ p # Root => Len(p) > 0 /\ parent_path(p) \in Path
         /\ Root \in Path /\ Len(Root) = 0
  <1>1. p \in Seq(STRING) /\ (p # Root => parent_path(p) \in Path) /\ Root \in Path
    BY PathAssumption
  <1>2. Len(p) \in Nat /\ (p # <<>> => Len(p) \in Nat \ {0})
    BY <1>1, LenProperties, EmptySeq
  <1>3. QED
    BY <1>1, <1>2 DEF Root

(* A path is a prefix of another if it has the same names to its end.      *)
LEMMA PrefixNames ==
  ASSUME NEW p \in Path, NEW q \in Path
  PROVE  IsPrefix(p, q) <=> Len(p) <= Len(q) /\ \A i \in 1 .. Len(p) : p[i] = q[i]
  <1>1. /\ p \in Seq(STRING) /\ Len(p) \in Nat /\ q \in Seq(STRING) /\ Len(q) \in Nat
        /\ \A i \in 1 .. Len(p) : p[i] \in STRING
        /\ \A i \in 1 .. Len(q) : q[i] \in STRING
    BY PathType, ElementOfSeq
  <1> SUFFICES ASSUME Len(p) <= Len(q)
               PROVE  SubSeq(p, 1, Len(p)) = SubSeq(q, 1, Len(p)) <=>
                        \A i \in 1 .. Len(p) : p[i] = q[i]
    BY DEF IsPrefix
  <1> DEFINE s == SubSeq(p, 1, Len(p))
             r == SubSeq(q, 1, Len(p))
  <1>2. /\ s \in Seq(STRING) /\ Len(s) = Len(p)
        /\ \A i \in 1 .. Len(p) : s[i] = p[i]
    BY <1>1, SubSeqProperties
  <1>3. /\ r \in Seq(STRING) /\ Len(r) = Len(p)
        /\ \A i \in 1 .. Len(p) : r[i] = q[i]
    BY <1>1, SubSeqProperties
  <1> HIDE DEF s, r
  <1>4. s = r <=> \A i \in 1 .. Len(p) : s[i] = r[i]
    BY <1>2, <1>3, SeqEqual
  <1>5. s = r <=> \A i \in 1 .. Len(p) : p[i] = q[i]
    BY <1>2, <1>3, <1>4
  <1>6. QED
    BY <1>5 DEF s, r

LEMMA ParentNames ==
  ASSUME NEW p \in Path, p # Root
  PROVE  Len(parent_path(p)) = Len(p) - 1 /\ \A i \in 1 .. Len(p) - 1 : parent_path(p)[i] = p[i]
  <1>1. /\ p \in Seq(STRING) /\ Len(p) \in Nat /\ Len(p) > 0
        /\ \A i \in 1 .. Len(p) : p[i] \in STRING
    BY PathType, ElementOfSeq
  <1> DEFINE s == SubSeq(p, 1, Len(p) - 1)
  <1>2. /\ 1 <= Len(p) - 1 => Len(s) = Len(p) - 1
        /\ ~(1 <= Len(p) - 1) => Len(s) = 0
        /\ \A i \in 1 .. Len(p) - 1 - 1 + 1 : s[i] = p[1 + i - 1]
    BY <1>1, SubSeqProperties
  <1> HIDE DEF s
  <1>3. Len(s) = Len(p) - 1
    BY <1>1, <1>2
  <1>4. ASSUME NEW i \in 1 .. Len(p) - 1 PROVE s[i] = p[i]
    <2>1. i \in 1 .. Len(p) - 1 - 1 + 1 /\ 1 + i - 1 = i
      BY <1>1
    <2>2. QED
      BY <1>2, <2>1
  <1>5. QED
    BY <1>3, <1>4 DEF parent_path, s

(* A path is no parent of itself, and what a path is a prefix of its       *)
(* parent is a prefix of as well.                                          *)
LEMMA PrefixSelf == ASSUME NEW p \in Path PROVE IsPrefix(p, p)
  BY PrefixNames, PathType

LEMMA PrefixParent ==
  ASSUME NEW p \in Path, p # Root, NEW q \in Path, IsPrefix(p, q)
  PROVE  /\ parent_path(p) \in Path /\ IsPrefix(parent_path(p), q)
         /\ parent_path(p) # p /\ parent_path(p) # q
  <1>1. parent_path(p) \in Path /\ Len(p) \in Nat /\ Len(q) \in Nat
    BY PathType
  <1>2. Len(p) <= Len(q) /\ \A i \in 1 .. Len(p) : p[i] = q[i]
    BY PrefixNames
  <1>3. /\ Len(parent_path(p)) = Len(p) - 1
        /\ \A i \in 1 .. Len(p) - 1 : parent_path(p)[i] = p[i]
    BY ParentNames
  <1>4. Len(parent_path(p)) <= Len(q) /\ \A i \in 1 .. Len(parent_path(p)) : parent_path(p)[i] = q[i]
    BY <1>1, <1>2, <1>3
  <1>5. parent_path(p) # p /\ parent_path(p) # q
    BY <1>1, <1>2, <1>3
  <1>6. QED
    BY <1>1, <1>4, <1>5, PrefixNames

-----------------------------------------------------------------------------
(* Ids *)

LEMMA StubIds ==
  /\ \A p \in Path : StubId(p) \in Id /\ is_stub(StubId(p)) /\ StubId(p) # Nil
  /\ \A p, q : StubId(p) = StubId(q) => p = q
  /\ ~is_stub(Nil)
  <1>1. \A p \in Path : StubId(p) \in Id
    BY StubFacts
  <1>2. \A p, q : StubId(p) = StubId(q) => p = q
    BY DEF StubId
  <1>3. \A p : StubId(p)[1] = "data_only"
    BY DEF StubId
  <1>4. QED
    BY <1>1, <1>2, <1>3, NilAssumption DEF is_stub

LEMMA RootId ==
  EmbeddedId(0, <<>>) \in Id /\ ~is_stub(EmbeddedId(0, <<>>)) /\ EmbeddedId(0, <<>>)[2] = 0
  BY EmbeddedFacts, EmptySeq DEF EmbeddedId

(* The level and the position decide an embedded id.                       *)
LEMMA SameSpot ==
  ASSUME NEW i \in Id, NEW j \in Id, ~is_stub(i), ~is_stub(j), i[2] = j[2], Position(i) = Position(j)
  PROVE  i = j
  <1>1. i # Nil /\ j # Nil
    BY NilAssumption
  <1>2. ASSUME NEW k \in Id, k # Nil, ~is_stub(k) PROVE k = <<"embedded", k[2], k[3]>>
    BY <1>2 DEF Id, is_stub
  <1>3. QED
    BY <1>1, <1>2 DEF Position

LEMMA PathIds ==
  ASSUME TreeInv, NEW p \in Path
  PROVE  pathMap[p] \in Id \/ pathMap[p] = Nil
  BY DEF TreeInv, TypeOK, Optional

(* An embedded path is at the level of its depth.                          *)
LEMMA LevelOf ==
  ASSUME TreeInv, IdsOK, NEW p \in Path, pathMap[p] # Nil, ~is_stub(pathMap[p])
  PROVE  pathMap[p] \in Id /\ pathMap[p][2] = Len(p)
  <1>1. CASE p = Root
    BY <1>1, PathIds, PathType, RootId DEF IdsOK
  <1>2. CASE p # Root
    BY <1>2, PathIds DEF IdsOK, Mapped, Beyond
  <1>3. QED
    BY <1>1, <1>2

(* So an id is one slot beyond a single parent.                            *)
LEMMA ParentsAgree ==
  ASSUME TreeInv, IdsOK, NEW p \in Path \ {Root}, NEW q \in Path \ {Root}, NEW c,
         LET a == pathMap[parent_path(p)]
             b == pathMap[parent_path(q)]
         IN  /\ a # Nil /\ ~is_stub(a) /\ b # Nil /\ ~is_stub(b)
             /\ Beyond(c, a, Len(p)) /\ Beyond(c, b, Len(q))
  PROVE  pathMap[parent_path(p)] = pathMap[parent_path(q)]
  <1> DEFINE a == pathMap[parent_path(p)]
             b == pathMap[parent_path(q)]
  <1>1. /\ parent_path(p) \in Path /\ parent_path(q) \in Path
        /\ Len(parent_path(p)) = Len(p) - 1 /\ Len(parent_path(q)) = Len(q) - 1
    BY PathType, ParentNames
  <1>2. /\ a # Nil /\ ~is_stub(a) /\ b # Nil /\ ~is_stub(b)
        /\ Position(a) = Position(b) /\ Len(p) = Len(q)
    BY DEF Beyond
  <1>3. /\ a \in Id /\ a[2] = Len(parent_path(p))
        /\ b \in Id /\ b[2] = Len(parent_path(q))
    BY <1>1, <1>2, LevelOf
  <1> HIDE DEF a, b
  <1>4. a = b
    BY <1>1, <1>2, <1>3, SameSpot
  <1>5. QED
    BY <1>4 DEF a, b

(* Two paths never have the same id.                                       *)
LEMMA OnePath ==
  ASSUME NodesOK, NEW p \in Path, NEW q \in Path, pathMap[p] # Nil, pathMap[p] = pathMap[q]
  PROVE  p = q
  BY DEF NodesOK, PublishedResolves, Mapped

-----------------------------------------------------------------------------
(* Calls *)

(* The path a call works on, and those it touches on the way.              *)
LEMMA Targets ==
  ASSUME TreeInv, NEW t \in Thread, CallAt(t), pc[t] # "return", op[t].kind # "idle"
  PROVE  /\ op[t].path \in Path \ {Root} /\ op[t].kind \in CallKind
         /\ Target(t) \in Path /\ IsPrefix(Target(t), op[t].path)
         /\ op[t].kind # "embed_existing" => Target(t) = op[t].path
         /\ pc[t] # "embed_check" => Target(t) # Root
  <1>1. op[t] \in Request
    BY CallRequest DEF TreeInv
  <1>2. op[t].path \in Path \ {Root} /\ op[t].kind \in CallKind
    BY <1>1, RequestFacts DEF Request
  <1>3. Target(t) \in Path
    BY TargetType DEF TreeInv
  <1>4. CASE op[t].kind # "embed_existing"
    BY <1>2, <1>3, <1>4, PrefixSelf DEF Target
  <1>5. CASE op[t].kind = "embed_existing"
    <2>1. frames[t] \in Seq(Path) /\ frames[t] # <<>>
      BY <1>5 DEF TreeInv, TypeOK, Calls
    <2>2. 1 \in 1 .. Len(frames[t]) /\ Head(frames[t]) = frames[t][1]
      BY <2>1
    <2>3. QED
      BY <1>2, <1>3, <1>5, <2>2 DEF CallAt, FramesAt, Target
  <1>6. QED
    BY <1>4, <1>5

(* What the steps of an insert or an embed have of their call.             *)
Working ==
  {"check", "resolve", "lock", "recheck", "store_stub", "embed_check", "embed_resolve",
   "embed_lock", "embed_recheck", "snapshot"} \cup Placing \cup Upgrading

LEMMA WorkingKind ==
  ASSUME TreeInv, NEW t \in Thread, pc[t] \in Working
  PROVE  /\ op[t].kind \in Inserts \cup {"embed_existing"} /\ op[t].kind # "idle"
         /\ pc[t] # "return" /\ pc[t] # "idle"
         /\ pc[t] \in Upgrading \cup {"snapshot"} => op[t].kind = "embed_existing"
         /\ pc[t] = "store_stub" => op[t].kind = "insert_data_only"
         /\ pc[t] = "embed_check" => op[t].kind = "embed_existing"
         /\ pc[t] \in {"place", "register", "link"} => ~Stubbing(t)
  <1>1. Calls
    BY DEF TreeInv
  <1>2. QED
    BY <1>1 DEF Calls, Working, Placing, Upgrading, Inserts, PlacedInserts, Stubbing

(* Clients keep deletes away from inserts and embeds above and below, and  *)
(* make one kind of insert of a path.                                      *)
LEMMA Apart ==
  ASSUME NoClash, NEW t \in Thread, NEW u \in Thread, t # u, pc[t] # "idle", pc[u] # "idle"
  PROVE  /\ op[t].kind = "delete" /\ op[u].kind \in Inserts \cup {"embed_existing"} =>
              /\ ~IsPrefix(op[t].path, op[u].path) /\ ~IsPrefix(op[u].path, op[t].path)
         /\ op[t].kind = "insert_data_only" /\ op[u].kind \in PlacedInserts =>
              ~Below(op[t].path, op[u].path) /\ op[t].path # op[u].path
  <1>1. \A r \in MapRules : ~Clash(r, op[t], op[u])
    BY DEF NoClash
  <1>2. ~Clash("delete_alone", op[t], op[u]) /\ ~Clash("embed_parents_first", op[t], op[u])
        /\ ~Clash("one_kind_of_insert", op[t], op[u])
    BY <1>1 DEF MapRules
  <1>3. QED
    BY <1>2 DEF Clash


(* What a delete is about.                                                 *)
LEMMA DeletePath ==
  ASSUME TreeInv, NEW t \in Thread, CallAt(t), pc[t] \in Deleting
  PROVE  /\ op[t].kind = "delete" /\ pc[t] # "idle" /\ op[t].path \in Path \ {Root}
         /\ Target(t) = op[t].path
  <1>1. op[t].kind = "delete"
    BY DEF CallAt, FramesAt
  <1>2. op[t].kind # "idle" /\ pc[t] \notin {"idle", "return"}
    BY <1>1 DEF Deleting, Removing
  <1>3. QED
    BY <1>1, <1>2, Targets

(* A delete never meets an insert or an embed on its way.                  *)
LEMMA DeleteAlone ==
  ASSUME MapsInv, NEW t \in Thread, NEW u \in Thread, t # u,
         pc[t] \in Deleting, pc[u] \in Working
  PROVE  /\ ~IsPrefix(op[t].path, op[u].path) /\ ~IsPrefix(op[u].path, op[t].path)
         /\ ~IsPrefix(op[t].path, Target(u)) /\ op[t].path # Target(u)
         /\ Target(u) # Root /\ pc[u] # "embed_check" => op[t].path # ParentOf(u)
  <1>1. TreeInv /\ NoClash /\ CallAt(t) /\ CallAt(u)
    BY DEF MapsInv, ThreadOK
  <1>2. /\ op[u].kind \in Inserts \cup {"embed_existing"} /\ op[u].kind # "idle"
        /\ pc[u] # "return" /\ pc[u] # "idle"
    BY <1>1, WorkingKind
  <1>3. op[t].kind = "delete" /\ pc[t] # "idle" /\ op[t].path \in Path
    BY <1>1, DeletePath
  <1>4. ~IsPrefix(op[t].path, op[u].path) /\ ~IsPrefix(op[u].path, op[t].path)
    BY <1>1, <1>2, <1>3, Apart
  <1>5. Target(u) \in Path /\ op[u].path \in Path /\ IsPrefix(Target(u), op[u].path)
    BY <1>1, <1>2, Targets
  <1>6. ~IsPrefix(op[t].path, Target(u))
    <2>1. SUFFICES ASSUME IsPrefix(op[t].path, Target(u)) PROVE FALSE
      OBVIOUS
    <2>2. IsPrefix(op[t].path, op[u].path)
      BY <1>3, <1>5, <2>1, PrefixNames, PathType
    <2>3. QED
      BY <1>4, <2>2
  <1>7. op[t].path # Target(u)
    BY <1>3, <1>6, PrefixSelf
  <1>8. ASSUME Target(u) # Root PROVE op[t].path # ParentOf(u)
    BY <1>4, <1>5, <1>8, PrefixParent DEF ParentOf
  <1>9. QED
    BY <1>4, <1>6, <1>7, <1>8

(* The steps at which a call holds its parent's stripe and has looked at   *)
(* its path.                                                               *)
Acting == Placing \cup {"store_stub", "snapshot"} \cup Upgrading

(* Two calls never have the same path to fill: they would hold the same    *)
(* stripe.                                                                 *)
LEMMA TargetsApart ==
  ASSUME MapsInv, NEW t \in Thread, NEW u \in Thread, t # u, pc[t] \in Acting, pc[u] \in Acting
  PROVE  Target(t) # Target(u)
  <1> SUFFICES ASSUME Target(t) = Target(u) PROVE FALSE
    OBVIOUS
  <1>1. /\ TreeInv /\ NoClash /\ CallAt(t) /\ CallAt(u)
        /\ ParentAt(t) /\ ParentAt(u) /\ TargetAt(t) /\ TargetAt(u)
    BY DEF MapsInv, ThreadOK, PathsAt
  <1>2. \A v \in {t, u} :
          /\ op[v].kind \in Inserts \cup {"embed_existing"} /\ pc[v] \notin {"idle", "return"}
          /\ pc[v] \in Upgrading \cup {"snapshot"} => op[v].kind = "embed_existing"
          /\ pc[v] = "store_stub" => op[v].kind = "insert_data_only"
          /\ op[v].kind # "idle"
    BY <1>1, WorkingKind DEF Acting, Working
  <1>3. Target(t) \in Path
    BY <1>1, <1>2, Targets
  <1>4. held[t] \cap held[u] = {}
    BY <1>1 DEF TreeInv, Guards, Stripes!Exclusive
  <1>5. \A v \in {t, u} : op[v].kind \in Inserts => pathMap[Target(v)] = Nil
    BY <1>1, <1>2 DEF TargetAt, Acting, Inserts
  <1>6. \A v \in {t, u} : op[v].kind = "embed_existing" => pathMap[Target(v)] # Nil
    BY <1>1, <1>2, <1>3, StubIds DEF TargetAt, Acting
  <1>7. \A v \in {t, u} : ~Stubbing(v) =>
          parentId[v] = pathMap[ParentOf(v)] /\ parentId[v] \in held[v]
    BY <1>1, <1>2 DEF ParentAt, CallAt, HoldsAt, UnderLock, Acting, Stubbing
  <1>8. \A v \in {t, u} : Stubbing(v) => PathKey(ParentOf(v)) \in held[v]
    BY <1>1, <1>2 DEF CallAt, HoldsAt, UnderLock, Acting, Stubbing
  <1>9. ParentOf(t) = ParentOf(u)
    BY DEF ParentOf
  <1>10. CASE Stubbing(t) <=> Stubbing(u)
    BY <1>4, <1>7, <1>8, <1>9, <1>10
  <1>11. CASE ~(Stubbing(t) <=> Stubbing(u))
    <2>1. op[t].kind \in Inserts /\ op[u].kind \in Inserts
      BY <1>2, <1>5, <1>6, <1>11 DEF Stubbing, Inserts
    <2>2. op[t].path = op[u].path
      BY <2>1 DEF Target, Inserts
    <2>3. QED
      BY <1>1, <1>2, <1>11, <2>1, <2>2, Apart DEF Stubbing, Inserts, PlacedInserts
  <1>12. QED
    BY <1>10, <1>11

(* What a call that has chosen an id knows of it.                          *)
LEMMA SlotOf ==
  ASSUME MapsInv, NEW t \in Thread, pc[t] \in Slotted
  PROVE  /\ Target(t) \in Path \ {Root} /\ newId[t] \in Id
         /\ Stubbing(t) => newId[t] = StubId(Target(t)) /\ op[t].path = Target(t)
         /\ ~Stubbing(t) =>
              /\ ~is_stub(newId[t]) /\ parentId[t] \in held[t]
              /\ parentId[t] # Nil /\ ~is_stub(parentId[t]) /\ parentId[t] = pathMap[ParentOf(t)]
              /\ Beyond(newId[t], parentId[t], Len(Target(t)))
  <1>1. TreeInv /\ CallAt(t) /\ ParentAt(t) /\ SlotAt(t)
    BY DEF MapsInv, ThreadOK, PathsAt
  <1>2. pc[t] \in Working /\ pc[t] \in Placing /\ pc[t] # "embed_check"
    BY DEF Slotted, Working, Placing
  <1>3. Target(t) \in Path \ {Root}
    BY <1>1, <1>2, WorkingKind, Targets
  <1>4. newId[t] \in Id
    BY <1>1 DEF TreeInv, Chosen, Slotted
  <1>5. CASE Stubbing(t)
    BY <1>1, <1>3, <1>4, <1>5 DEF SlotAt, Target, Stubbing
  <1>6. CASE ~Stubbing(t)
    BY <1>1, <1>2, <1>3, <1>4, <1>6 DEF SlotAt, ParentAt, CallAt, HoldsAt, UnderLock, Beyond
  <1>7. QED
    BY <1>3, <1>4, <1>5, <1>6

(* What a delete that has unmapped its path knows of the id it removes.    *)
LEMMA RemovedOf ==
  ASSUME MapsInv, NEW t \in Thread, pc[t] \in Removing
  PROVE  /\ op[t].path \in Path \ {Root}
         /\ ownId[t] # Nil /\ ownId[t] \in held[t] /\ \A q \in Path : pathMap[q] # ownId[t]
         /\ is_stub(ownId[t]) => ownId[t] = StubId(op[t].path)
         /\ ~is_stub(ownId[t]) =>
              /\ parentId[t] # Nil /\ ~is_stub(parentId[t]) /\ parentId[t] \in held[t]
              /\ parentId[t] = pathMap[parent_path(op[t].path)]
              /\ Beyond(ownId[t], parentId[t], Len(op[t].path))
  <1>1. TreeInv /\ CallAt(t) /\ DeleteAt(t)
    BY DEF MapsInv, ThreadOK, PathsAt
  <1>2. op[t].path \in Path \ {Root}
    BY <1>1, DeletePath DEF Deleting
  <1>3. DeleteKeys(t) \subseteq held[t]
    BY <1>1 DEF CallAt, HoldsAt
  <1>4. QED
    BY <1>1, <1>2, <1>3 DEF DeleteAt, DeleteKeys

(* What an embed that has swapped the ids knows of the one it retires.     *)
LEMMA RetiredOf ==
  ASSUME MapsInv, NEW t \in Thread, pc[t] \in Upgrading
  PROVE  /\ Target(t) \in Path \ {Root} /\ ownId[t] = StubId(Target(t)) /\ is_stub(ownId[t])
         /\ pathMap[Target(t)] # ownId[t]
  <1>1. TreeInv /\ CallAt(t) /\ TargetAt(t)
    BY DEF MapsInv, ThreadOK, PathsAt
  <1>2. pc[t] \in Working /\ pc[t] # "embed_check"
    BY DEF Working, Upgrading
  <1>3. Target(t) \in Path \ {Root}
    BY <1>1, <1>2, WorkingKind, Targets
  <1>4. QED
    BY <1>1, <1>3, StubIds DEF TargetAt

(* The id a call has chosen is not that of another call.                   *)
LEMMA ChoicesApart ==
  ASSUME MapsInv, NEW t \in Thread, NEW u \in Thread, t # u, pc[t] \in Slotted, pc[u] \in Slotted
  PROVE  newId[t] # newId[u]
  <1> SUFFICES ASSUME newId[t] = newId[u] PROVE FALSE
    OBVIOUS
  <1>1. TreeInv /\ IdsOK /\ Target(t) # Target(u)
    BY TargetsApart DEF MapsInv, MapsOK, Acting, Slotted, Placing
  <1>2. CASE Stubbing(t) \/ Stubbing(u)
    BY <1>1, <1>2, SlotOf, StubIds
  <1>3. CASE ~Stubbing(t) /\ ~Stubbing(u)
    <2>1. parentId[t] = parentId[u]
      BY <1>1, <1>3, SlotOf, ParentsAgree DEF ParentOf
    <2>2. held[t] \cap held[u] = {}
      BY <1>1 DEF TreeInv, Guards, Stripes!Exclusive
    <2>3. QED
      BY <1>3, <2>1, <2>2, SlotOf
  <1>4. QED
    BY <1>2, <1>3

(* Nor is it one that is being taken out.                                  *)
LEMMA ChosenNotRemoved ==
  ASSUME MapsInv, NEW t \in Thread, NEW u \in Thread, t # u, pc[t] \in Slotted, pc[u] \in Removing
  PROVE  newId[t] # ownId[u]
  <1> SUFFICES ASSUME newId[t] = ownId[u] PROVE FALSE
    OBVIOUS
  <1>1. TreeInv /\ IdsOK
    BY DEF MapsInv, MapsOK
  <1>2. CASE Stubbing(t)
    <2>1. Target(t) = op[u].path
      BY <1>2, SlotOf, RemovedOf, StubIds
    <2>2. QED
      BY <2>1, DeleteAlone DEF Deleting, Working, Placing, Slotted
  <1>3. CASE ~Stubbing(t)
    <2>1. parentId[t] = parentId[u]
      BY <1>1, <1>3, SlotOf, RemovedOf, ParentsAgree DEF ParentOf
    <2>2. held[t] \cap held[u] = {}
      BY <1>1 DEF TreeInv, Guards, Stripes!Exclusive
    <2>3. QED
      BY <1>3, <2>1, <2>2, SlotOf, RemovedOf
  <1>4. QED
    BY <1>2, <1>3

LEMMA ChosenNotRetired ==
  ASSUME MapsInv, NEW t \in Thread, NEW u \in Thread, t # u, pc[t] \in Slotted, pc[u] \in Upgrading
  PROVE  newId[t] # ownId[u]
  <1>1. Target(t) # Target(u)
    BY TargetsApart DEF Acting, Slotted, Placing
  <1>2. QED
    BY <1>1, SlotOf, RetiredOf, StubIds

LEMMA RemovedApart ==
  ASSUME MapsInv, NEW t \in Thread, NEW u \in Thread, t # u, pc[t] \in Removing, pc[u] \in Removing
  PROVE  ownId[t] # ownId[u]
  <1>1. held[t] \cap held[u] = {}
    BY DEF MapsInv, TreeInv, Guards, Stripes!Exclusive
  <1>2. QED
    BY <1>1, RemovedOf

LEMMA RetiredNotRemoved ==
  ASSUME MapsInv, NEW t \in Thread, NEW u \in Thread, t # u, pc[t] \in Upgrading, pc[u] \in Removing
  PROVE  ownId[t] # ownId[u]
  <1>1. op[u].path # Target(t)
    BY DeleteAlone DEF Deleting, Working
  <1>2. QED
    BY <1>1, RetiredOf, RemovedOf, StubIds

LEMMA RetiredApart ==
  ASSUME MapsInv, NEW t \in Thread, NEW u \in Thread, t # u, pc[t] \in Upgrading, pc[u] \in Upgrading
  PROVE  ownId[t] # ownId[u]
  <1>1. Target(t) # Target(u)
    BY TargetsApart DEF Acting
  <1>2. QED
    BY <1>1, RetiredOf, StubIds


-----------------------------------------------------------------------------
(* What a step leaves alone *)

(* A step of one call changes nothing of another.                          *)
Same(u) ==
  /\ pc'[u] = pc[u] /\ op'[u] = op[u] /\ frames'[u] = frames[u] /\ held'[u] = held[u]
  /\ parentId'[u] = parentId[u] /\ ownId'[u] = ownId[u] /\ newId'[u] = newId[u]

OthersSame(t) == \A u \in Thread \ {t} : Same(u)

LEMMA SameCall == ASSUME NEW u, Same(u), CallAt(u) PROVE CallAt(u)'
  BY DEF Same, CallAt, FramesAt, HoldsAt, Stubbing, ParentOf, Target, DeleteKeys

LEMMA SameTarget ==
  ASSUME NEW u, Same(u)
  PROVE  Target(u)' = Target(u) /\ ParentOf(u)' = ParentOf(u) /\ Stubbing(u)' = Stubbing(u)
  BY DEF Same, Stubbing, ParentOf, Target

LEMMA SamePaths == ASSUME NEW u, Same(u), pathMap' = pathMap, PathsAt(u) PROVE PathsAt(u)'
  <1>1. Target(u)' = Target(u) /\ ParentOf(u)' = ParentOf(u) /\ Stubbing(u)' = Stubbing(u)
    BY SameTarget
  <1>2. ParentAt(u)'
    BY <1>1 DEF Same, PathsAt, ParentAt
  <1>3. TargetAt(u)' /\ SlotAt(u)'
    BY <1>1 DEF Same, PathsAt, TargetAt, SlotAt
  <1>4. DeleteAt(u)'
    BY DEF Same, PathsAt, DeleteAt
  <1>5. QED
    BY <1>2, <1>3, <1>4 DEF PathsAt

LEMMA SameNodes == ASSUME NEW u, Same(u), nodes' = nodes, NodesAt(u) PROVE NodesAt(u)'
  <1>1. Target(u)' = Target(u) /\ Stubbing(u)' = Stubbing(u)
    BY SameTarget
  <1>2. QED
    BY <1>1 DEF Same, NodesAt, NodeAt, ListedAt

LEMMA SameCounts == ASSUME NEW u, Same(u), childCount' = childCount, CountedAt(u) PROVE CountedAt(u)'
  <1>1. Stubbing(u)' = Stubbing(u)
    BY SameTarget
  <1>2. QED
    BY <1>1 DEF Same, CountedAt

LEMMA SameEntries == ASSUME NEW u, Same(u), idToPath' = idToPath, EntryAt(u) PROVE EntryAt(u)'
  <1>1. Target(u)' = Target(u)
    BY SameTarget
  <1>2. QED
    BY <1>1 DEF Same, EntryAt

LEMMA SameClaims ==
  ASSUME NEW u, Same(u)
  PROVE  /\ \A id : Owns(u, id)' = Owns(u, id)
         /\ \A id : Names(u, id)' = Names(u, id)
         /\ \A id, c : Lists(u, id, c)' = Lists(u, id, c)
  BY DEF Same, Owns, Names, Lists

(* A call that is in no such step claims nothing.                          *)
LEMMA NoClaim ==
  ASSUME NEW t, pc[t] \notin Slotted \cup Upgrading \cup Removing
  PROVE  /\ \A id : ~Owns(t, id) /\ ~Names(t, id)
         /\ \A id, c : ~Lists(t, id, c)
  BY DEF Owns, Names, Lists, Made, Linked, Slotted, Removing, Upgrading

(* Calls that do not overlap do not clash later on in their course.        *)
LEMMA ClashKept ==
  ASSUME NoClash, NEW t \in Thread, OthersSame(t), op'[t] = op[t], pc[t] # "idle"
  PROVE  NoClash'
  BY DEF NoClash, OthersSame, Same

LEMMA IdsKept == ASSUME IdsOK, pathMap' = pathMap PROVE IdsOK'
  BY DEF IdsOK, Mapped

LEMMA NodesKept ==
  ASSUME NodesOK, pathMap' = pathMap, nodes' = nodes,
         \A id \in DOMAIN nodes : \A t \in Thread : Owns(t, id) => Owns(t, id)'
  PROVE  NodesOK'
  BY DEF NodesOK, PublishedResolves, Mapped

LEMMA EntriesKept ==
  ASSUME EntriesOK, pathMap' = pathMap, idToPath' = idToPath,
         \A id \in DOMAIN idToPath : \A t \in Thread : Names(t, id) => Names(t, id)'
  PROVE  EntriesOK'
  BY DEF EntriesOK, Mapped

LEMMA CountersKept ==
  ASSUME CountersOK, nodes' = nodes, points' = points, childCount' = childCount
  PROVE  CountersOK'
  BY DEF CountersOK, CounterAboveChildren

LEMMA ChildrenKept ==
  ASSUME ChildrenOK, pathMap' = pathMap, nodes' = nodes,
         \A id \in DOMAIN nodes : \A c \in nodes[id].children : \A t \in Thread :
           Lists(t, id, c) => Lists(t, id, c)'
  PROVE  ChildrenOK'
  BY DEF ChildrenOK, Mapped

LEMMA PointsKept == ASSUME PointsOK, nodes' = nodes, points' = points PROVE PointsOK'
  BY DEF PointsOK

(* A step that changes no map, of a call that claims nothing.              *)
LEMMA QuietStep ==
  ASSUME MapsInv, TreeInv', NEW t \in Thread, OthersSame(t), UNCHANGED shared,
         pc[t] \notin Slotted \cup Upgrading \cup Removing, NoClash', ThreadOK(t)'
  PROVE  MapsInv'
  <1>1. \A u \in Thread : u = t \/ Same(u)
    BY DEF OthersSame
  <1>2. UNCHANGED <<pathMap, idToPath, nodes, points, childCount>>
    BY DEF shared
  <1>3. \A u \in Thread : ThreadOK(u)'
    <2>1. ASSUME NEW u \in Thread, u # t PROVE ThreadOK(u)'
      BY <1>1, <1>2, <2>1, SameCall, SamePaths, SameNodes, SameCounts, SameEntries
         DEF MapsInv, ThreadOK
    <2>2. QED
      BY <2>1
  <1>4. \A u \in Thread : /\ \A id : Owns(u, id) => Owns(u, id)'
                          /\ \A id : Names(u, id) => Names(u, id)'
                          /\ \A id, c : Lists(u, id, c) => Lists(u, id, c)'
    BY <1>1, SameClaims, NoClaim
  <1>5. MapsOK'
    BY <1>2, <1>4, IdsKept, NodesKept, EntriesKept, CountersKept, ChildrenKept, PointsKept
       DEF MapsInv, MapsOK
  <1>6. QED
    BY <1>3, <1>5 DEF MapsInv


-----------------------------------------------------------------------------
(* Calls and returns *)

LEMMA Locals ==
  ASSUME TreeInv
  PROVE  /\ pc \in [Thread -> Step] /\ op \in [Thread -> Request \cup {Idle}]
         /\ frames \in [Thread -> Seq(Path)] /\ held \in [Thread -> SUBSET LockKey]
         /\ parentId \in [Thread -> Optional(Id)] /\ ownId \in [Thread -> Optional(Id)]
         /\ newId \in [Thread -> Optional(Id)]
  BY DEF TreeInv, TypeOK

(* Nothing is asked of a call that has not chosen an id or unmapped one,   *)
(* and of one that has its answer nothing at all.                          *)
LEMMA NoneYet ==
  ASSUME NEW t, pc'[t] \notin Slotted \cup {"delete_forget", "unregister"}
  PROVE  NodesAt(t)' /\ CountedAt(t)' /\ EntryAt(t)'
  BY DEF NodesAt, NodeAt, ListedAt, CountedAt, EntryAt, Slotted, Made, Linked

LEMMA Answered ==
  ASSUME NEW t, pc'[t] = "return" \/ (pc'[t] = "idle" /\ op'[t] = Idle)
  PROVE  ThreadOK(t)'
  <1>1. pc'[t] \in {"return", "idle"} /\ (pc'[t] = "return" \/ op'[t].kind = "idle")
    BY DEF Idle
  <1>2. CallAt(t)'
    BY <1>1 DEF CallAt, FramesAt, HoldsAt, Deleting, Removing, UnderLock, Placing, Upgrading
  <1>3. PathsAt(t)'
    BY <1>1 DEF PathsAt, ParentAt, TargetAt, SlotAt, DeleteAt, Placing, Upgrading, Slotted,
       Deleting, Removing
  <1>4. NodesAt(t)' /\ CountedAt(t)' /\ EntryAt(t)'
    BY <1>1, NoneYet DEF Slotted
  <1>5. QED
    BY <1>2, <1>3, <1>4 DEF ThreadOK

LEMMA BeginMaps ==
  ASSUME MapsInv, MapRules \subseteq Discipline, NEW t \in Thread, NEW o \in Request, Begin(t, o)
  PROVE  MapsInv'
  <1>1. TreeInv /\ NoClash
    BY DEF MapsInv
  <1>2. TreeInv'
    BY <1>1, BeginStep
  <1>3. OthersSame(t) /\ UNCHANGED shared
    BY <1>1, Locals DEF Begin, Goto, OthersSame, Same, shared
  <1>4. /\ op'[t] = o /\ pc'[t] = FirstStep(o.kind) /\ pc[t] = "idle" /\ pathMap' = pathMap
        /\ frames'[t] = IF o.kind = "embed_existing" THEN <<o.path>> ELSE <<>>
    BY <1>1, Locals DEF Begin, Goto, shared
  <1>5. o.path \in Path \ {Root} /\ o.kind \in CallKind
    BY RequestFacts DEF Request
  <1>6. NoClash'
    <2>1. \A u \in Thread \ {t}, r \in MapRules :
            pc[u] # "idle" => ~Clash(r, o, op[u]) /\ ~Clash(r, op[u], o)
      BY DEF Begin, MayCall
    <2>2. \A u \in Thread \ {t} : pc'[u] = pc[u] /\ op'[u] = op[u]
      BY <1>3 DEF OthersSame, Same
    <2>3. QED
      BY <1>1, <1>4, <2>1, <2>2 DEF NoClash
  <1>7. \/ o.kind \in Inserts /\ pc'[t] = "check"
        \/ o.kind = "embed_existing" /\ pc'[t] = "embed_check"
        \/ o.kind \in Writes /\ pc'[t] = "write"
        \/ o.kind = "get" /\ pc'[t] = "read"
        \/ o.kind = "delete" /\ pc'[t] = "delete_read"
    BY <1>4, <1>5 DEF FirstStep, CallKind, Inserts, Writes
  <1>8. CallAt(t)'
    <2>1. FramesAt(t)'
      <3>1. o.kind = "embed_existing" =>
              \A i \in 1 .. Len(<<o.path>>) : i = 1 /\ <<o.path>>[i] = o.path
        OBVIOUS
      <3>2. o.kind = "embed_existing" => \A i \in 1 .. Len(frames'[t]) : frames'[t][i] = o.path
        BY <1>4, <3>1
      <3>3. IsPrefix(o.path, o.path)
        BY <1>5, PrefixSelf
      <3>4. QED
        BY <1>4, <1>5, <1>7, <3>2, <3>3 DEF FramesAt, Deleting, Removing
    <2>2. HoldsAt(t)'
      BY <1>7 DEF HoldsAt, UnderLock, Placing, Upgrading, Removing
    <2>3. QED
      BY <2>1, <2>2 DEF CallAt
  <1>9. PathsAt(t)'
    <2>1. ParentAt(t)'
      <3>1. o.kind \in PlacedInserts =>
              pathMap[parent_path(o.path)] = Nil \/ ~is_stub(pathMap[parent_path(o.path)])
        BY <1>5, PathType DEF Begin, MayCall, ClearOf, DataOnly, MapRules
      <3>2. o.kind \in PlacedInserts => ParentOf(t)' = parent_path(o.path)
        BY <1>4 DEF ParentOf, Target, PlacedInserts
      <3>3. QED
        BY <1>4, <1>7, <3>1, <3>2, StubIds DEF ParentAt, Placing, Upgrading
    <2>2. TargetAt(t)' /\ SlotAt(t)'
      BY <1>7 DEF TargetAt, SlotAt, Placing, Upgrading, Slotted
    <2>3. DeleteAt(t)'
      <3>1. o.kind = "delete" =>
              \A q \in Path \ {Root} : parent_path(q) = o.path => ~is_stub(pathMap[q])
        BY DEF Begin, MayCall, ClearOf, DataOnly, MapRules
      <3>2. QED
        BY <1>4, <1>7, <3>1 DEF DeleteAt, Deleting, Removing
    <2>4. QED
      BY <2>1, <2>2, <2>3 DEF PathsAt
  <1>10. ThreadOK(t)'
    BY <1>7, <1>8, <1>9, NoneYet DEF ThreadOK, Slotted
  <1>11. QED
    BY <1>2, <1>3, <1>4, <1>6, <1>10, QuietStep DEF Slotted, Upgrading, Removing

LEMMA ReturnMaps ==
  ASSUME MapsInv, NEW t \in Thread, Return(t)
  PROVE  MapsInv'
  <1>1. TreeInv /\ NoClash
    BY DEF MapsInv
  <1>2. OthersSame(t) /\ UNCHANGED shared
    BY <1>1, Locals DEF Return, Goto, OthersSame, Same, shared
  <1>3. pc[t] = "return" /\ pc'[t] = "idle" /\ op'[t] = Idle
    BY <1>1, Locals DEF Return, Goto
  <1>4. NoClash'
    BY <1>1, <1>2, <1>3 DEF NoClash, OthersSame, Same
  <1>5. QED
    BY <1>1, <1>2, <1>3, <1>4, ReturnStep, Answered, QuietStep DEF Slotted, Upgrading, Removing

-----------------------------------------------------------------------------
(* Insert, up to the second look at the path *)

LEMMA CheckMaps ==
  ASSUME MapsInv, NEW t \in Thread, Check(t)
  PROVE  MapsInv'
  <1>1. TreeInv /\ NoClash /\ CallAt(t) /\ PathsAt(t)
    BY DEF MapsInv, ThreadOK
  <1>2. OthersSame(t) /\ UNCHANGED shared
    BY <1>1, Locals DEF Check, Goto, Answer, OthersSame, Same, shared, local
  <1>3. /\ pc[t] = "check" /\ pc'[t] \in {"return", "resolve"}
        /\ op' = op /\ frames' = frames /\ pathMap' = pathMap
    BY <1>1, Locals DEF Check, Goto, Answer, shared, local
  <1>4. ThreadOK(t)'
    <2>1. CASE pc'[t] = "return"
      BY <2>1, Answered
    <2>2. CASE pc'[t] = "resolve"
      <3>1. Target(t)' = Target(t) /\ ParentOf(t)' = ParentOf(t)
        BY <1>3 DEF Target, ParentOf
      <3>2. CallAt(t)'
        BY <1>1, <1>3, <2>2 DEF CallAt, FramesAt, HoldsAt, Deleting, Removing, UnderLock, Placing,
           Upgrading
      <3>3. ParentAt(t)'
        BY <1>1, <1>3, <2>2, <3>1 DEF PathsAt, ParentAt, Placing, Upgrading
      <3>4. PathsAt(t)'
        BY <2>2, <3>3 DEF PathsAt, TargetAt, SlotAt, DeleteAt, Placing, Upgrading, Slotted,
           Deleting, Removing
      <3>5. QED
        BY <2>2, <3>2, <3>4, NoneYet DEF ThreadOK, Slotted
    <2>3. QED
      BY <1>3, <2>1, <2>2
  <1>5. NoClash'
    BY <1>1, <1>2, <1>3, ClashKept
  <1>6. QED
    BY <1>1, <1>2, <1>3, <1>4, <1>5, CheckStep, QuietStep DEF Slotted, Upgrading, Removing

LEMMA ResolveMaps ==
  ASSUME MapsInv, NEW t \in Thread, Resolve(t)
  PROVE  MapsInv'
  <1>1. TreeInv /\ NoClash /\ CallAt(t) /\ PathsAt(t)
    BY DEF MapsInv, ThreadOK
  <1>2. OthersSame(t) /\ UNCHANGED shared
    BY <1>1, Locals DEF Resolve, Goto, Answer, OthersSame, Same, shared
  <1>3. /\ pc[t] = "resolve" /\ pc'[t] \in {"return", "lock"}
        /\ op' = op /\ frames' = frames /\ pathMap' = pathMap
    BY <1>1, Locals DEF Resolve, Goto, Answer, shared
  <1>4. op[t].kind \in Inserts
    BY <1>1, <1>3 DEF TreeInv, Calls
  <1>5. pc'[t] = "lock" =>
          /\ pathMap[ParentOf(t)] # Nil
          /\ op[t].kind \in PlacedInserts => parentId'[t] = pathMap[ParentOf(t)]
    BY <1>1, <1>4, Locals DEF Resolve, Goto, Answer, ParentOf, Target, Inserts
  <1>6. ThreadOK(t)'
    <2>1. CASE pc'[t] = "return"
      BY <2>1, Answered
    <2>2. CASE pc'[t] = "lock"
      <3>1. ParentOf(t)' = ParentOf(t) /\ Stubbing(t)' = Stubbing(t)
        BY <1>3 DEF Target, ParentOf, Stubbing
      <3>2. CallAt(t)'
        BY <1>1, <1>3, <2>2 DEF CallAt, FramesAt, HoldsAt, Deleting, Removing, UnderLock, Placing,
           Upgrading
      <3>3. ParentAt(t)'
        <4>1. op[t].kind \in PlacedInserts <=> ~Stubbing(t)
          BY <1>4 DEF Inserts, PlacedInserts, Stubbing
        <4>2. op[t].kind \in PlacedInserts => ~is_stub(pathMap[ParentOf(t)])
          BY <1>1, <1>3 DEF PathsAt, ParentAt
        <4>3. QED
          BY <1>3, <1>5, <2>2, <3>1, <4>1, <4>2 DEF ParentAt
      <3>4. PathsAt(t)'
        BY <2>2, <3>3 DEF PathsAt, TargetAt, SlotAt, DeleteAt, Placing, Upgrading, Slotted,
           Deleting, Removing
      <3>5. QED
        BY <2>2, <3>2, <3>4, NoneYet DEF ThreadOK, Slotted
    <2>3. QED
      BY <1>3, <2>1, <2>2
  <1>7. NoClash'
    BY <1>1, <1>2, <1>3, ClashKept
  <1>8. QED
    BY <1>1, <1>2, <1>3, <1>6, <1>7, ResolveStep, QuietStep DEF Slotted, Upgrading, Removing

LEMMA LockMaps ==
  ASSUME MapsInv, NEW t \in Thread, Lock(t)
  PROVE  MapsInv'
  <1>1. TreeInv /\ NoClash /\ CallAt(t) /\ PathsAt(t)
    BY DEF MapsInv, ThreadOK
  <1>2. OthersSame(t) /\ UNCHANGED shared
    BY <1>1, Locals DEF Lock, Goto, Stripes!Acquire, OthersSame, Same, shared, local
  <1>3. /\ pc[t] = "lock" /\ pc'[t] = "recheck" /\ held'[t] = {InsertKey(t)}
        /\ op' = op /\ frames' = frames /\ pathMap' = pathMap /\ parentId' = parentId
    BY <1>1, Locals DEF Lock, Goto, Stripes!Acquire, shared, local
  <1>4. op[t].kind \in Inserts
    BY <1>1, <1>3 DEF TreeInv, Calls
  <1>5. InsertKey(t) = IF Stubbing(t) THEN PathKey(ParentOf(t)) ELSE parentId[t]
    BY <1>4 DEF InsertKey, Stubbing, ParentOf, Target, Inserts, PlacedInserts
  <1>6. ParentOf(t)' = ParentOf(t) /\ Stubbing(t)' = Stubbing(t)
    BY <1>3 DEF Target, ParentOf, Stubbing
  <1>7. CallAt(t)'
    <2>1. FramesAt(t)'
      BY <1>1, <1>3 DEF CallAt, FramesAt, Deleting, Removing
    <2>2. HoldsAt(t)'
      BY <1>3, <1>5, <1>6 DEF HoldsAt, Removing
    <2>3. QED
      BY <2>1, <2>2 DEF CallAt
  <1>8. PathsAt(t)'
    <2>1. ParentAt(t)'
      BY <1>1, <1>3, <1>6 DEF PathsAt, ParentAt, Placing, Upgrading
    <2>2. QED
      BY <1>3, <2>1 DEF PathsAt, TargetAt, SlotAt, DeleteAt, Placing, Upgrading, Slotted,
         Deleting, Removing
  <1>9. ThreadOK(t)'
    BY <1>3, <1>7, <1>8, NoneYet DEF ThreadOK, Slotted
  <1>10. NoClash'
    BY <1>1, <1>2, <1>3, ClashKept
  <1>11. QED
    BY <1>1, <1>2, <1>3, <1>9, <1>10, LockStep, QuietStep DEF Slotted, Upgrading, Removing

LEMMA RecheckMaps ==
  ASSUME MapsInv, NEW t \in Thread, Recheck(t)
  PROVE  MapsInv'
  <1>1. TreeInv /\ NoClash /\ CallAt(t) /\ PathsAt(t)
    BY DEF MapsInv, ThreadOK
  <1>2. OthersSame(t) /\ UNCHANGED shared
    BY <1>1, Locals DEF Recheck, Goto, Answer, OthersSame, Same, shared, local
  <1>3. /\ pc[t] = "recheck" /\ pc'[t] \in {"return", "place", "store_stub"}
        /\ op' = op /\ frames' = frames /\ pathMap' = pathMap /\ parentId' = parentId /\ held' = held
        /\ ownId' = ownId /\ newId' = newId
    BY <1>1, Locals DEF Recheck, Goto, Answer, shared, local
  <1>4. op[t].kind \in Inserts
    BY <1>1, <1>3 DEF TreeInv, Calls
  <1>5. pc'[t] # "return" => /\ pathMap[Target(t)] = Nil
                             /\ pc'[t] = "store_stub" <=> Stubbing(t)
    BY <1>1, <1>4, Locals DEF Recheck, Goto, Answer, Target, Stubbing, Inserts, PlacedInserts
  <1>6. ThreadOK(t)'
    <2>1. CASE pc'[t] = "return"
      BY <2>1, Answered
    <2>2. CASE pc'[t] \in {"place", "store_stub"}
      <3>1. /\ ParentOf(t)' = ParentOf(t) /\ Stubbing(t)' = Stubbing(t) /\ Target(t)' = Target(t)
            /\ op[t].kind # "embed_existing"
        BY <1>3, <1>4 DEF Target, ParentOf, Stubbing, Inserts
      <3>2. CallAt(t)'
        BY <1>1, <1>3, <2>2, <3>1 DEF CallAt, FramesAt, HoldsAt, Deleting, Removing, UnderLock,
           Placing, Upgrading
      <3>3. ParentAt(t)'
        BY <1>1, <1>3, <1>5, <2>2, <3>1 DEF PathsAt, ParentAt, Placing, Upgrading
      <3>4. TargetAt(t)'
        BY <1>3, <1>5, <2>2, <3>1 DEF TargetAt, Upgrading
      <3>5. PathsAt(t)'
        BY <2>2, <3>3, <3>4 DEF PathsAt, SlotAt, DeleteAt, Slotted, Deleting, Removing
      <3>6. QED
        BY <2>2, <3>2, <3>5, NoneYet DEF ThreadOK, Slotted
    <2>3. QED
      BY <1>3, <2>1, <2>2
  <1>7. NoClash'
    BY <1>1, <1>2, <1>3, ClashKept
  <1>8. QED
    BY <1>1, <1>2, <1>3, <1>6, <1>7, RecheckStep, QuietStep DEF Slotted, Upgrading, Removing


-----------------------------------------------------------------------------
(* Embed, up to the copy *)

(* The frames that are left when one is done are its descendants.          *)
LEMMA FrameDoneMaps ==
  ASSUME TreeInv, NEW t \in Thread, CallAt(t), FrameDone(t, "already") \/ FrameDone(t, "upgraded"),
         UNCHANGED <<op, parentId, ownId, newId>>,
         op[t].kind = "embed_existing", pc[t] # "return"
  PROVE  ThreadOK(t)' /\ OthersSame(t)
  <1>1. /\ frames[t] \in Seq(Path) /\ frames[t] # <<>> /\ Len(frames[t]) \in Nat
        /\ pc \in [Thread -> Step] /\ frames \in [Thread -> Seq(Path)]
        /\ held \in [Thread -> SUBSET LockKey]
    BY Locals, LenProperties DEF TreeInv, Calls
  <1>2. CASE Len(frames[t]) = 1
    <2>1. pc'[t] = "return" /\ \A u \in Thread \ {t} : pc'[u] = pc[u]
      BY <1>1, <1>2 DEF FrameDone, Answer, Goto
    <2>2. frames' = frames /\ held' = held
      BY <1>2 DEF FrameDone
    <2>3. QED
      BY <2>1, <2>2, Answered DEF OthersSame, Same
  <1>3. CASE Len(frames[t]) # 1
    <2>1. /\ pc' = [pc EXCEPT ![t] = "embed_resolve"]
          /\ frames' = [frames EXCEPT ![t] = Tail(frames[t])]
          /\ held' = [held EXCEPT ![t] = {}]
      BY <1>3 DEF FrameDone, Goto
    <2>2. pc'[t] = "embed_resolve" /\ frames'[t] = Tail(frames[t]) /\ op' = op
      BY <1>1, <2>1
    <2>3. OthersSame(t)
      BY <1>1, <2>1 DEF OthersSame, Same
    <2>4. /\ Len(Tail(frames[t])) = Len(frames[t]) - 1
          /\ \A i \in 1 .. Len(frames[t]) - 1 : Tail(frames[t])[i] = frames[t][i + 1]
      BY <1>1, HeadTailProperties
    <2>5. \A i \in 1 .. Len(frames[t]) :
            IsPrefix(frames[t][i], op[t].path) /\ (frames[t][i] = Root => i = 1)
      BY DEF CallAt, FramesAt
    <2>6. \A i \in 1 .. Len(frames'[t]) :
            IsPrefix(frames'[t][i], op[t].path) /\ frames'[t][i] # Root
      <3>1. SUFFICES ASSUME NEW i \in 1 .. Len(frames[t]) - 1
                     PROVE  /\ IsPrefix(Tail(frames[t])[i], op[t].path)
                            /\ Tail(frames[t])[i] # Root
        BY <2>2, <2>4
      <3>2. i + 1 \in 1 .. Len(frames[t]) /\ i + 1 # 1 /\ Tail(frames[t])[i] = frames[t][i + 1]
        BY <1>1, <2>4
      <3>3. QED
        BY <2>5, <3>2
    <2>7. CallAt(t)'
      BY <2>2, <2>6 DEF CallAt, FramesAt, HoldsAt, Deleting, Removing, UnderLock, Placing, Upgrading
    <2>8. PathsAt(t)'
      BY <2>2 DEF PathsAt, ParentAt, TargetAt, SlotAt, DeleteAt, Placing, Upgrading, Slotted,
         Deleting, Removing, PlacedInserts
    <2>9. QED
      BY <2>2, <2>3, <2>7, <2>8, NoneYet DEF ThreadOK, Slotted
  <1>4. QED
    BY <1>2, <1>3

LEMMA EmbedCheckMaps ==
  ASSUME MapsInv, NEW t \in Thread, EmbedCheck(t)
  PROVE  MapsInv'
  <1>1. TreeInv /\ NoClash /\ IdsOK /\ CallAt(t) /\ PathsAt(t)
    BY DEF MapsInv, MapsOK, ThreadOK
  <1>2. /\ pc[t] = "embed_check" /\ UNCHANGED shared
        /\ UNCHANGED <<op, parentId, ownId, newId>>
    BY DEF EmbedCheck
  <1>3. op[t].kind = "embed_existing"
    BY <1>1, <1>2 DEF TreeInv, Calls
  <1>4. Target(t) \in Path /\ op[t].path \in Path /\ IsPrefix(Target(t), op[t].path)
    BY <1>1, <1>2, <1>3, Targets
  <1>5. ThreadOK(t)' /\ OthersSame(t)
    <2>1. CASE Answer(t, "not_found") /\ UNCHANGED <<frames, held>>
      <3>1. pc'[t] = "return" /\ \A u \in Thread \ {t} : pc'[u] = pc[u]
        BY <1>1, <2>1, Locals DEF Answer, Goto
      <3>2. QED
        BY <1>2, <2>1, <3>1, Answered DEF OthersSame, Same
    <2>2. CASE FrameDone(t, "already")
      BY <1>1, <1>2, <1>3, <2>2, FrameDoneMaps
    <2>3. CASE /\ is_stub(pathMap[Target(t)])
               /\ frames' = [frames EXCEPT ![t] = <<parent_path(Target(t))>> \o @]
               /\ UNCHANGED <<held, pc, reply>>
      <3>1. Target(t) # Root
        BY <1>1, <2>3, RootId DEF IdsOK
      <3>2. parent_path(Target(t)) \in Path /\ IsPrefix(parent_path(Target(t)), op[t].path)
        BY <1>4, <3>1, PrefixParent
      <3>3. /\ frames[t] \in Seq(Path) /\ frames[t] # <<>> /\ Len(frames[t]) \in Nat
            /\ Target(t) = frames[t][1]
        BY <1>1, <1>3, <1>2, Locals, LenProperties DEF TreeInv, Calls, Target
      <3>4. PICK q \in Path : q = parent_path(Target(t))
        BY <3>2
      <3>5. /\ Len(<<q>> \o frames[t]) = 1 + Len(frames[t])
            /\ (<<q>> \o frames[t])[1] = q
            /\ \A i \in 2 .. 1 + Len(frames[t]) : (<<q>> \o frames[t])[i] = frames[t][i - 1]
        BY <3>3
      <3>6. frames'[t] = <<q>> \o frames[t] /\ OthersSame(t)
        BY <1>1, <1>2, <2>3, <3>4, Locals DEF OthersSame, Same
      <3>7. \A i \in 1 .. Len(frames[t]) : IsPrefix(frames[t][i], op[t].path) /\ frames[t][i] # Root
        BY <1>1, <1>2, <1>3, <3>1, <3>3 DEF CallAt, FramesAt
      <3>8. \A i \in 1 .. Len(frames'[t]) :
              IsPrefix(frames'[t][i], op[t].path) /\ (frames'[t][i] = Root => i = 1)
        <4>1. SUFFICES ASSUME NEW i \in 1 .. 1 + Len(frames[t])
                       PROVE  /\ IsPrefix((<<q>> \o frames[t])[i], op[t].path)
                              /\ (<<q>> \o frames[t])[i] = Root => i = 1
          BY <3>5, <3>6
        <4>2. CASE i = 1
          BY <3>2, <3>4, <3>5, <4>2
        <4>3. CASE i # 1
          <5>1. i \in 2 .. 1 + Len(frames[t]) /\ i - 1 \in 1 .. Len(frames[t])
            BY <3>3, <4>3
          <5>2. QED
            BY <3>5, <3>7, <5>1
        <4>4. QED
          BY <4>2, <4>3
      <3>9. pc'[t] = "embed_check" /\ op' = op
        BY <1>2, <2>3
      <3>10. CallAt(t)'
        BY <3>8, <3>9 DEF CallAt, FramesAt, HoldsAt, Deleting, Removing, UnderLock, Placing, Upgrading
      <3>11. PathsAt(t)'
        BY <3>9 DEF PathsAt, ParentAt, TargetAt, SlotAt, DeleteAt, Placing, Upgrading, Slotted,
           Deleting, Removing
      <3>12. QED
        BY <3>6, <3>9, <3>10, <3>11, NoneYet DEF ThreadOK, Slotted
    <2>4. QED
      BY <2>1, <2>2, <2>3 DEF EmbedCheck
  <1>6. NoClash'
    BY <1>1, <1>2, <1>5, ClashKept
  <1>7. QED
    BY <1>1, <1>2, <1>5, <1>6, EmbedCheckStep, QuietStep DEF Slotted, Upgrading, Removing

LEMMA EmbedResolveMaps ==
  ASSUME MapsInv, NEW t \in Thread, EmbedResolve(t)
  PROVE  MapsInv'
  <1>1. TreeInv /\ NoClash /\ CallAt(t) /\ PathsAt(t)
    BY DEF MapsInv, ThreadOK
  <1>2. OthersSame(t) /\ UNCHANGED shared
    BY <1>1, Locals DEF EmbedResolve, Goto, Answer, OthersSame, Same, shared
  <1>3. /\ pc[t] = "embed_resolve" /\ pc'[t] \in {"return", "embed_lock"}
        /\ op' = op /\ frames' = frames /\ pathMap' = pathMap
    BY <1>1, Locals DEF EmbedResolve, Goto, Answer, shared
  <1>4. op[t].kind = "embed_existing"
    BY <1>1, <1>3 DEF TreeInv, Calls
  <1>5. pc'[t] = "embed_lock" =>
          parentId'[t] = pathMap[ParentOf(t)] /\ parentId'[t] # Nil /\ ~is_stub(parentId'[t])
    BY <1>1, Locals DEF EmbedResolve, Goto, Answer, ParentOf
  <1>6. ThreadOK(t)'
    <2>1. CASE pc'[t] = "return"
      BY <2>1, Answered
    <2>2. CASE pc'[t] = "embed_lock"
      <3>1. ParentOf(t)' = ParentOf(t)
        BY <1>3 DEF Target, ParentOf
      <3>2. CallAt(t)'
        BY <1>1, <1>3, <2>2 DEF CallAt, FramesAt, HoldsAt, Deleting, Removing, UnderLock, Placing,
           Upgrading
      <3>3. ParentAt(t)'
        BY <1>3, <1>5, <2>2, <3>1 DEF ParentAt
      <3>4. PathsAt(t)'
        BY <2>2, <3>3 DEF PathsAt, TargetAt, SlotAt, DeleteAt, Placing, Upgrading, Slotted,
           Deleting, Removing
      <3>5. QED
        BY <2>2, <3>2, <3>4, NoneYet DEF ThreadOK, Slotted
    <2>3. QED
      BY <1>3, <2>1, <2>2
  <1>7. NoClash'
    BY <1>1, <1>2, <1>3, ClashKept
  <1>8. QED
    BY <1>1, <1>2, <1>3, <1>6, <1>7, EmbedResolveStep, QuietStep DEF Slotted, Upgrading, Removing

LEMMA EmbedLockMaps ==
  ASSUME MapsInv, NEW t \in Thread, EmbedLock(t)
  PROVE  MapsInv'
  <1>1. TreeInv /\ NoClash /\ CallAt(t) /\ PathsAt(t)
    BY DEF MapsInv, ThreadOK
  <1>2. OthersSame(t) /\ UNCHANGED shared
    BY <1>1, Locals DEF EmbedLock, Goto, Stripes!Acquire, OthersSame, Same, shared, local
  <1>3. /\ pc[t] = "embed_lock" /\ pc'[t] = "embed_recheck" /\ held'[t] = {parentId[t]}
        /\ op' = op /\ frames' = frames /\ pathMap' = pathMap /\ parentId' = parentId
    BY <1>1, Locals DEF EmbedLock, Goto, Stripes!Acquire, shared, local
  <1>4. ParentOf(t)' = ParentOf(t) /\ ~Stubbing(t) /\ ~Stubbing(t)'
    BY <1>1, <1>3 DEF Target, ParentOf, Stubbing, TreeInv, Calls
  <1>5. CallAt(t)'
    BY <1>1, <1>3, <1>4 DEF CallAt, FramesAt, HoldsAt, Deleting, Removing
  <1>6. ParentAt(t)'
    BY <1>1, <1>3, <1>4 DEF PathsAt, ParentAt, Placing, Upgrading
  <1>7. PathsAt(t)'
    BY <1>3, <1>6 DEF PathsAt, TargetAt, SlotAt, DeleteAt, Placing, Upgrading, Slotted,
       Deleting, Removing
  <1>8. ThreadOK(t)'
    BY <1>3, <1>5, <1>7, NoneYet DEF ThreadOK, Slotted
  <1>9. NoClash'
    BY <1>1, <1>2, <1>3, ClashKept
  <1>10. QED
    BY <1>1, <1>2, <1>3, <1>8, <1>9, EmbedLockStep, QuietStep DEF Slotted, Upgrading, Removing

LEMMA EmbedRecheckMaps ==
  ASSUME MapsInv, NEW t \in Thread, EmbedRecheck(t)
  PROVE  MapsInv'
  <1>1. TreeInv /\ NoClash /\ IdsOK /\ CallAt(t) /\ PathsAt(t)
    BY DEF MapsInv, MapsOK, ThreadOK
  <1>2. /\ pc[t] = "embed_recheck" /\ UNCHANGED shared /\ pathMap' = pathMap
        /\ UNCHANGED <<op, parentId, newId>>
    BY DEF EmbedRecheck, shared
  <1>3. op[t].kind = "embed_existing"
    BY <1>1, <1>2 DEF TreeInv, Calls
  <1>4. Target(t) \in Path
    BY <1>1, <1>2, <1>3, Targets
  <1>5. ThreadOK(t)' /\ OthersSame(t)
    <2>1. CASE Answer(t, "not_found") /\ UNCHANGED <<frames, held, ownId>>
      <3>1. pc'[t] = "return" /\ \A u \in Thread \ {t} : pc'[u] = pc[u]
        BY <1>1, <2>1, Locals DEF Answer, Goto
      <3>2. QED
        BY <1>2, <2>1, <3>1, Answered DEF OthersSame, Same
    <2>2. CASE FrameDone(t, "already") /\ UNCHANGED ownId
      BY <1>1, <1>2, <1>3, <2>2, FrameDoneMaps
    <2>3. CASE /\ is_stub(pathMap[Target(t)])
               /\ ownId' = [ownId EXCEPT ![t] = pathMap[Target(t)]]
               /\ Goto(t, "snapshot")
               /\ UNCHANGED <<frames, held, reply>>
      <3>1. /\ pc'[t] = "snapshot" /\ ownId'[t] = pathMap[Target(t)] /\ OthersSame(t)
            /\ op' = op /\ parentId' = parentId /\ frames' = frames /\ held' = held
        BY <1>1, <1>2, <2>3, Locals DEF Goto, OthersSame, Same
      <3>2. pathMap[Target(t)] = StubId(Target(t))
        BY <1>1, <1>4, <2>3 DEF IdsOK
      <3>3. /\ ParentOf(t)' = ParentOf(t) /\ Stubbing(t)' = Stubbing(t) /\ Target(t)' = Target(t)
            /\ ~Stubbing(t)
        BY <1>3, <3>1 DEF Target, ParentOf, Stubbing
      <3>4. CallAt(t)'
        BY <1>1, <1>2, <3>1, <3>3 DEF CallAt, FramesAt, HoldsAt, Deleting, Removing, UnderLock,
           Placing, Upgrading
      <3>5. ParentAt(t)'
        BY <1>1, <1>2, <3>1, <3>3 DEF PathsAt, ParentAt, Placing, Upgrading
      <3>6. TargetAt(t)'
        BY <1>2, <3>1, <3>2, <3>3 DEF TargetAt, Placing, Upgrading
      <3>7. PathsAt(t)'
        BY <3>1, <3>5, <3>6 DEF PathsAt, SlotAt, DeleteAt, Slotted, Deleting, Removing
      <3>8. QED
        BY <3>1, <3>4, <3>7, NoneYet DEF ThreadOK, Slotted
    <2>4. QED
      BY <2>1, <2>2, <2>3 DEF EmbedRecheck
  <1>6. NoClash'
    BY <1>1, <1>2, <1>5, ClashKept
  <1>7. QED
    BY <1>1, <1>2, <1>5, <1>6, EmbedRecheckStep, QuietStep DEF Slotted, Upgrading, Removing

LEMMA SnapshotMaps ==
  ASSUME MapsInv, NEW t \in Thread, Snapshot(t)
  PROVE  MapsInv'
  <1>1. TreeInv /\ NoClash /\ CallAt(t) /\ PathsAt(t)
    BY DEF MapsInv, ThreadOK
  <1>2. OthersSame(t) /\ UNCHANGED shared
    BY <1>1, Locals DEF Snapshot, Goto, Answer, OthersSame, Same, shared
  <1>3. /\ pc[t] = "snapshot" /\ pc'[t] \in {"return", "place"}
        /\ op' = op /\ frames' = frames /\ pathMap' = pathMap /\ parentId' = parentId /\ held' = held
        /\ ownId' = ownId
    BY <1>1, Locals DEF Snapshot, Goto, Answer, shared
  <1>4. op[t].kind = "embed_existing"
    BY <1>1, <1>3 DEF TreeInv, Calls
  <1>5. ThreadOK(t)'
    <2>1. CASE pc'[t] = "return"
      BY <2>1, Answered
    <2>2. CASE pc'[t] = "place"
      <3>1. /\ ParentOf(t)' = ParentOf(t) /\ ~Stubbing(t) /\ ~Stubbing(t)' /\ Target(t)' = Target(t)
            /\ op'[t].kind \notin Inserts
        BY <1>3, <1>4 DEF Target, ParentOf, Stubbing, Inserts
      <3>2. CallAt(t)'
        BY <1>1, <1>3, <2>2, <3>1 DEF CallAt, FramesAt, HoldsAt, Deleting, Removing, UnderLock,
           Placing, Upgrading
      <3>3. ParentAt(t)'
        BY <1>1, <1>3, <2>2, <3>1 DEF PathsAt, ParentAt, Placing, Upgrading
      <3>4. TargetAt(t)'
        BY <1>1, <1>3, <1>4, <2>2, <3>1 DEF PathsAt, TargetAt, Placing, Upgrading
      <3>5. PathsAt(t)'
        BY <2>2, <3>3, <3>4 DEF PathsAt, SlotAt, DeleteAt, Slotted, Deleting, Removing
      <3>6. QED
        BY <2>2, <3>2, <3>5, NoneYet DEF ThreadOK, Slotted
    <2>3. QED
      BY <1>3, <2>1, <2>2
  <1>6. NoClash'
    BY <1>1, <1>2, <1>3, ClashKept
  <1>7. QED
    BY <1>1, <1>2, <1>3, <1>5, <1>6, SnapshotStep, QuietStep DEF Slotted, Upgrading, Removing


-----------------------------------------------------------------------------
(* Delete, up to the removal of the path *)

LEMMA DeleteReadMaps ==
  ASSUME MapsInv, NEW t \in Thread, DeleteRead(t)
  PROVE  MapsInv'
  <1>1. TreeInv /\ NoClash /\ CallAt(t) /\ PathsAt(t)
    BY DEF MapsInv, ThreadOK
  <1>2. OthersSame(t) /\ UNCHANGED shared
    BY <1>1, Locals DEF DeleteRead, Goto, Answer, OthersSame, Same, shared
  <1>3. /\ pc[t] = "delete_read" /\ pc'[t] \in {"return", "delete_parent"}
        /\ op' = op /\ frames' = frames /\ pathMap' = pathMap
        /\ pc'[t] = "delete_parent" => ownId'[t] = pathMap[op[t].path] /\ ownId'[t] # Nil
    BY <1>1, Locals DEF DeleteRead, Goto, Answer, shared
  <1>4. op[t].kind = "delete"
    BY <1>1, <1>3, DeletePath DEF Deleting
  <1>5. ThreadOK(t)'
    <2>1. CASE pc'[t] = "return"
      BY <2>1, Answered
    <2>2. CASE pc'[t] = "delete_parent"
      <3>1. CallAt(t)'
        BY <1>3, <1>4, <2>2 DEF CallAt, FramesAt, HoldsAt, UnderLock, Placing, Upgrading, Removing
      <3>2. DeleteAt(t)'
        BY <1>1, <1>3, <2>2 DEF PathsAt, DeleteAt, Deleting, Removing
      <3>3. PathsAt(t)'
        BY <2>2, <3>2 DEF PathsAt, ParentAt, TargetAt, SlotAt, Placing, Upgrading, Slotted
      <3>4. QED
        BY <2>2, <3>1, <3>3, NoneYet DEF ThreadOK, Slotted
    <2>3. QED
      BY <1>3, <2>1, <2>2
  <1>6. NoClash'
    BY <1>1, <1>2, <1>3, ClashKept
  <1>7. QED
    BY <1>1, <1>2, <1>3, <1>5, <1>6, DeleteReadStep, QuietStep DEF Slotted, Upgrading, Removing

LEMMA DeleteParentMaps ==
  ASSUME MapsInv, NEW t \in Thread, DeleteParent(t)
  PROVE  MapsInv'
  <1>1. TreeInv /\ NoClash /\ CallAt(t) /\ PathsAt(t)
    BY DEF MapsInv, ThreadOK
  <1>2. OthersSame(t) /\ UNCHANGED shared
    BY <1>1, Locals DEF DeleteParent, Goto, OthersSame, Same, shared
  <1>3. /\ pc[t] = "delete_parent" /\ pc'[t] = "delete_lock"
        /\ op' = op /\ frames' = frames /\ pathMap' = pathMap /\ ownId' = ownId
        /\ parentId'[t] = pathMap[parent_path(op[t].path)]
    BY <1>1, Locals DEF DeleteParent, Goto, shared
  <1>4. op[t].kind = "delete"
    BY <1>1, <1>3, DeletePath DEF Deleting
  <1>5. CallAt(t)'
    BY <1>3, <1>4 DEF CallAt, FramesAt, HoldsAt, UnderLock, Placing, Upgrading, Removing
  <1>6. DeleteAt(t)'
    BY <1>1, <1>3 DEF PathsAt, DeleteAt, Deleting, Removing
  <1>7. PathsAt(t)'
    BY <1>3, <1>6 DEF PathsAt, ParentAt, TargetAt, SlotAt, Placing, Upgrading, Slotted
  <1>8. ThreadOK(t)'
    BY <1>3, <1>5, <1>7, NoneYet DEF ThreadOK, Slotted
  <1>9. NoClash'
    BY <1>1, <1>2, <1>3, ClashKept
  <1>10. QED
    BY <1>1, <1>2, <1>3, <1>8, <1>9, DeleteParentStep, QuietStep DEF Slotted, Upgrading, Removing

LEMMA DeleteLockMaps ==
  ASSUME MapsInv, NEW t \in Thread, DeleteLock(t)
  PROVE  MapsInv'
  <1>1. TreeInv /\ NoClash /\ CallAt(t) /\ PathsAt(t)
    BY DEF MapsInv, ThreadOK
  <1>2. OthersSame(t) /\ UNCHANGED shared
    BY <1>1, Locals DEF DeleteLock, Goto, Stripes!Acquire, OthersSame, Same, shared, local
  <1>3. /\ pc[t] = "delete_lock" /\ pc'[t] = "delete_check" /\ held'[t] = DeleteKeys(t)
        /\ op' = op /\ frames' = frames /\ pathMap' = pathMap /\ ownId' = ownId
        /\ parentId' = parentId
    BY <1>1, Locals DEF DeleteLock, Goto, Stripes!Acquire, shared, local
  <1>4. op[t].kind = "delete" /\ DeleteKeys(t)' = DeleteKeys(t)
    BY <1>1, <1>3, DeletePath DEF Deleting, DeleteKeys
  <1>5. CallAt(t)'
    BY <1>3, <1>4 DEF CallAt, FramesAt, HoldsAt, UnderLock, Placing, Upgrading
  <1>6. DeleteAt(t)'
    BY <1>1, <1>3 DEF PathsAt, DeleteAt, Deleting, Removing
  <1>7. PathsAt(t)'
    BY <1>3, <1>6 DEF PathsAt, ParentAt, TargetAt, SlotAt, Placing, Upgrading, Slotted
  <1>8. ThreadOK(t)'
    BY <1>3, <1>5, <1>7, NoneYet DEF ThreadOK, Slotted
  <1>9. NoClash'
    BY <1>1, <1>2, <1>3, ClashKept
  <1>10. QED
    BY <1>1, <1>2, <1>3, <1>8, <1>9, DeleteLockStep, QuietStep DEF Slotted, Upgrading, Removing

(* list_children misses no child: each has a position, is listed with its  *)
(* parent and has a node.                                                  *)
LEMMA ChildrenSeen ==
  ASSUME MapsInv, NEW p \in Path, NEW q \in Path \ {Root}, parent_path(q) = p,
         pathMap[q] # Nil, ~is_stub(pathMap[q])
  PROVE  list_children(p) # {}
  <1>1. TreeInv /\ IdsOK /\ NodesOK /\ ChildrenOK
    BY DEF MapsInv, MapsOK
  <1>2. pathMap[q] \in nodes[pathMap[p]].children
    BY <1>1 DEF ChildrenOK, Mapped
  <1>3. pathMap[p] # Nil
    BY <1>1 DEF IdsOK, Mapped
  <1>4. pathMap[q] \in DOMAIN nodes /\ nodes[pathMap[q]].key = q /\ pathMap[p] \in DOMAIN nodes
    BY <1>1, <1>3 DEF NodesOK, PublishedResolves, Mapped
  <1>5. pathMap[q] \in list_children(p)
    BY <1>2, <1>4 DEF list_children, children_of
  <1>6. QED
    BY <1>5

LEMMA DeleteCheckMaps ==
  ASSUME MapsInv, NEW t \in Thread, DeleteCheck(t)
  PROVE  MapsInv'
  <1>1. TreeInv /\ NoClash /\ CallAt(t) /\ PathsAt(t)
    BY DEF MapsInv, ThreadOK
  <1>2. OthersSame(t) /\ UNCHANGED shared
    BY <1>1, Locals DEF DeleteCheck, Goto, Answer, OthersSame, Same, shared, local
  <1>3. /\ pc[t] = "delete_check" /\ pc'[t] \in {"return", "unmap"}
        /\ op' = op /\ frames' = frames /\ pathMap' = pathMap /\ ownId' = ownId
        /\ parentId' = parentId /\ held' = held
        /\ pc'[t] = "unmap" => pathMap[op[t].path] # Nil /\ list_children(op[t].path) = {}
    BY <1>1, Locals DEF DeleteCheck, Goto, Answer, shared, local
  <1>4. op[t].kind = "delete" /\ DeleteKeys(t)' = DeleteKeys(t) /\ op[t].path \in Path
    BY <1>1, <1>3, DeletePath DEF Deleting, DeleteKeys
  <1>5. ThreadOK(t)'
    <2>1. CASE pc'[t] = "return"
      BY <2>1, Answered
    <2>2. CASE pc'[t] = "unmap"
      <3>1. CallAt(t)'
        BY <1>1, <1>3, <1>4, <2>2 DEF CallAt, FramesAt, HoldsAt, UnderLock, Placing, Upgrading
      <3>2. \A q \in Path \ {Root} : parent_path(q) = op[t].path => pathMap[q] = Nil
        <4>1. \A q \in Path \ {Root} : parent_path(q) = op[t].path => ~is_stub(pathMap[q])
          BY <1>1, <1>3 DEF PathsAt, DeleteAt, Deleting, Removing
        <4>2. QED
          BY <1>3, <1>4, <2>2, <4>1, ChildrenSeen
      <3>3. DeleteAt(t)'
        BY <1>1, <1>3, <2>2, <3>2 DEF PathsAt, DeleteAt, Deleting, Removing
      <3>4. PathsAt(t)'
        BY <2>2, <3>3 DEF PathsAt, ParentAt, TargetAt, SlotAt, Placing, Upgrading, Slotted
      <3>5. QED
        BY <2>2, <3>1, <3>4, NoneYet DEF ThreadOK, Slotted
    <2>3. QED
      BY <1>3, <2>1, <2>2
  <1>6. NoClash'
    BY <1>1, <1>2, <1>3, ClashKept
  <1>7. QED
    BY <1>1, <1>2, <1>3, <1>5, <1>6, DeleteCheckStep, QuietStep DEF Slotted, Upgrading, Removing

LEMMA ReadMaps ==
  ASSUME MapsInv, NEW t \in Thread, Read(t)
  PROVE  MapsInv'
  <1>1. TreeInv /\ NoClash
    BY DEF MapsInv
  <1>2. OthersSame(t) /\ UNCHANGED shared
    BY <1>1, Locals DEF Read, Goto, Answer, OthersSame, Same, shared, local
  <1>3. pc[t] = "read" /\ pc'[t] = "return" /\ op' = op
    BY <1>1, Locals DEF Read, Goto, Answer
  <1>4. NoClash'
    BY <1>1, <1>2, <1>3, ClashKept
  <1>5. QED
    BY <1>1, <1>2, <1>3, <1>4, ReadStep, Answered, QuietStep DEF Slotted, Upgrading, Removing


-----------------------------------------------------------------------------
(* What a step does to the nodes *)

(* The parent a call works under has a node, and nobody is taking it out.  *)
LEMMA ParentThere ==
  ASSUME MapsInv, NEW t \in Thread, pc[t] \in Slotted, ~Stubbing(t)
  PROVE  /\ parentId[t] \in DOMAIN nodes /\ parentId[t] \in points
         /\ \A u \in Thread : pc[u] \in Removing \cup Upgrading => ownId[u] # parentId[t]
  <1>1. /\ Target(t) \in Path \ {Root} /\ parentId[t] = pathMap[ParentOf(t)]
        /\ parentId[t] # Nil /\ ~is_stub(parentId[t])
    BY SlotOf
  <1>2. ParentOf(t) \in Path
    BY <1>1, PathType DEF ParentOf
  <1>3. NodesOK /\ PointsOK
    BY DEF MapsInv, MapsOK
  <1>4. parentId[t] \in DOMAIN nodes /\ parentId[t] \in points
    BY <1>1, <1>2, <1>3 DEF NodesOK, PublishedResolves, Mapped, PointsOK
  <1>5. \A u \in Thread : pc[u] \in Removing \cup Upgrading => ownId[u] # parentId[t]
    BY <1>1, <1>2, RemovedOf, RetiredOf
  <1>6. QED
    BY <1>4, <1>5

(* What another call has to see for its own nodes to be as before.         *)
LEMMA NodesSeen ==
  ASSUME MapsInv, NEW u \in Thread, Same(u),
         pc[u] = "register" => newId[u] \notin DOMAIN nodes',
         pc[u] \in Made =>
           newId[u] \in DOMAIN nodes' /\ nodes'[newId[u]].key = nodes[newId[u]].key,
         pc[u] \in {"delete_forget", "unregister"} =>
           ownId[u] \in DOMAIN nodes' /\ nodes'[ownId[u]].key = nodes[ownId[u]].key,
         ~Stubbing(u) /\ pc[u] \in Linked => newId[u] \in nodes'[parentId[u]].children
  PROVE  NodesAt(u)'
  <1>1. NodesAt(u)
    BY DEF MapsInv, ThreadOK
  <1>2. Target(u)' = Target(u) /\ Stubbing(u)' = Stubbing(u)
    BY SameTarget
  <1>3. QED
    BY <1>1, <1>2 DEF Same, NodesAt, NodeAt, ListedAt

(* A node is added that nobody has.                                        *)
LEMMA NodeAdded ==
  ASSUME MapsInv, NEW t \in Thread, OthersSame(t), pathMap' = pathMap, NEW n,
         n \notin DOMAIN nodes, DOMAIN nodes' = DOMAIN nodes \cup {n}, nodes'[n].children = {},
         \A id \in DOMAIN nodes : nodes'[id] = nodes[id],
         \A u \in Thread \ {t} : pc[u] = "register" => newId[u] # n,
         pc[t] \notin Made \cup Upgrading \cup Removing, Owns(t, n)'
  PROVE  /\ NodesOK' /\ ChildrenOK' /\ \A u \in Thread \ {t} : NodesAt(u)'
  <1>1. NodesOK /\ ChildrenOK /\ IdsOK
    BY DEF MapsInv, MapsOK
  <1>2. \A u \in Thread \ {t} : Same(u)
    BY DEF OthersSame
  <1>3. NodesOK'
    <2>1. PublishedResolves'
      BY <1>1 DEF NodesOK, PublishedResolves, Mapped
    <2>2. \A id \in DOMAIN nodes : ~Owns(t, id)
      BY DEF Owns, Removing
    <2>3. \A id : \A u \in Thread \ {t} : Owns(u, id)' = Owns(u, id)
      BY <1>2, SameClaims
    <2>4. ASSUME NEW id \in DOMAIN nodes'
          PROVE  (\E p \in Path : pathMap'[p] = id) \/ (\E u \in Thread : Owns(u, id)')
      <3>1. CASE id = n
        BY <3>1
      <3>2. CASE id # n
        <4>1. (\E p \in Path : pathMap[p] = id) \/ (\E u \in Thread : Owns(u, id))
          BY <1>1, <3>2 DEF NodesOK
        <4>2. QED
          BY <2>2, <2>3, <3>2, <4>1
      <3>3. QED
        BY <3>1, <3>2
    <2>5. QED
      BY <2>1, <2>4 DEF NodesOK
  <1>4. ChildrenOK'
    <2>1. ASSUME NEW q \in Mapped \ {Root}, ~is_stub(pathMap[q])
          PROVE  pathMap[q] \in nodes'[pathMap[parent_path(q)]].children
      <3>1. pathMap[q] \in nodes[pathMap[parent_path(q)]].children
        BY <1>1, <2>1 DEF ChildrenOK
      <3>2. parent_path(q) \in Mapped
        BY <1>1, PathType DEF IdsOK, Mapped
      <3>3. QED
        BY <1>1, <3>1, <3>2 DEF NodesOK, PublishedResolves
    <2>2. ASSUME NEW id \in DOMAIN nodes', NEW c \in nodes'[id].children
          PROVE  /\ ~is_stub(c)
                 /\ \/ \E q \in Path \ {Root} : pathMap[q] = c /\ pathMap[parent_path(q)] = id
                    \/ \E u \in Thread : Lists(u, id, c)'
      <3>1. id \in DOMAIN nodes /\ c \in nodes[id].children
        BY <2>2
      <3>2. ~Lists(t, id, c) /\ \A u \in Thread \ {t} : Lists(u, id, c)' = Lists(u, id, c)
        BY <1>2, SameClaims DEF Lists, Linked, Made
      <3>3. QED
        BY <1>1, <3>1, <3>2 DEF ChildrenOK
    <2>3. QED
      BY <2>1, <2>2 DEF ChildrenOK, Mapped
  <1>5. ASSUME NEW u \in Thread \ {t} PROVE NodesAt(u)'
    <2>1. NodesAt(u)
      BY DEF MapsInv, ThreadOK
    <2>2. ~Stubbing(u) /\ pc[u] \in Linked => nodes'[parentId[u]] = nodes[parentId[u]]
      BY ParentThere DEF Linked, Made
    <2>3. QED
      BY <1>2, <2>1, <2>2, NodesSeen DEF NodesAt, NodeAt, ListedAt
  <1>6. QED
    BY <1>3, <1>4, <1>5

(* A node is removed that no path has and no other call needs.             *)
LEMMA NodeDropped ==
  ASSUME MapsInv, NEW t \in Thread, OthersSame(t), pathMap' = pathMap, NEW n,
         DOMAIN nodes' = DOMAIN nodes \ {n},
         \A id \in DOMAIN nodes \ {n} : nodes'[id] = nodes[id],
         \A q \in Path : pathMap[q] # n,
         \A u \in Thread \ {t} : /\ pc[u] \in Slotted => newId[u] # n
                                 /\ pc[u] \in {"delete_forget", "unregister"} => ownId[u] # n
                                 /\ pc[u] \in Slotted /\ ~Stubbing(u) => parentId[u] # n,
         \A id : Owns(t, id) => id = n,
         \A id, c : Lists(t, id, c) => Lists(t, id, c)'
  PROVE  /\ NodesOK' /\ ChildrenOK' /\ \A u \in Thread \ {t} : NodesAt(u)'
  <1>1. NodesOK /\ ChildrenOK /\ IdsOK
    BY DEF MapsInv, MapsOK
  <1>2. \A u \in Thread \ {t} : Same(u)
    BY DEF OthersSame
  <1>3. NodesOK'
    <2>1. PublishedResolves'
      BY <1>1 DEF NodesOK, PublishedResolves, Mapped
    <2>2. \A id : \A u \in Thread \ {t} : Owns(u, id)' = Owns(u, id)
      BY <1>2, SameClaims
    <2>3. ASSUME NEW id \in DOMAIN nodes'
          PROVE  (\E p \in Path : pathMap'[p] = id) \/ (\E u \in Thread : Owns(u, id)')
      <3>1. (\E p \in Path : pathMap[p] = id) \/ (\E u \in Thread : Owns(u, id))
        BY <1>1 DEF NodesOK
      <3>2. ~Owns(t, id)
        BY <2>3
      <3>3. QED
        BY <2>2, <3>1, <3>2
    <2>4. QED
      BY <2>1, <2>3 DEF NodesOK
  <1>4. ChildrenOK'
    <2>1. ASSUME NEW q \in Mapped \ {Root}, ~is_stub(pathMap[q])
          PROVE  pathMap[q] \in nodes'[pathMap[parent_path(q)]].children
      <3>1. pathMap[q] \in nodes[pathMap[parent_path(q)]].children
        BY <1>1, <2>1 DEF ChildrenOK
      <3>2. parent_path(q) \in Mapped
        BY <1>1, PathType DEF IdsOK, Mapped
      <3>3. pathMap[parent_path(q)] \in DOMAIN nodes /\ pathMap[parent_path(q)] # n
        BY <1>1, <3>2 DEF NodesOK, PublishedResolves, Mapped
      <3>4. QED
        BY <3>1, <3>3
    <2>2. ASSUME NEW id \in DOMAIN nodes', NEW c \in nodes'[id].children
          PROVE  /\ ~is_stub(c)
                 /\ \/ \E q \in Path \ {Root} : pathMap[q] = c /\ pathMap[parent_path(q)] = id
                    \/ \E u \in Thread : Lists(u, id, c)'
      <3>1. id \in DOMAIN nodes /\ c \in nodes[id].children
        BY <2>2
      <3>2. \A u \in Thread : Lists(u, id, c) => Lists(u, id, c)'
        BY <1>2, SameClaims
      <3>3. QED
        BY <1>1, <3>1, <3>2 DEF ChildrenOK
    <2>3. QED
      BY <2>1, <2>2 DEF ChildrenOK, Mapped
  <1>5. ASSUME NEW u \in Thread \ {t} PROVE NodesAt(u)'
    <2>1. NodesAt(u)
      BY DEF MapsInv, ThreadOK
    <2>2. ~Stubbing(u) /\ pc[u] \in Linked => nodes'[parentId[u]] = nodes[parentId[u]]
      BY ParentThere DEF Linked, Made
    <2>3. pc[u] \in Made => pc[u] \in Slotted
      BY DEF Made
    <2>4. QED
      BY <1>2, <2>1, <2>2, <2>3, NodesSeen DEF NodesAt, NodeAt, ListedAt
  <1>6. QED
    BY <1>3, <1>4, <1>5

(* Nodes change, but not their keys.                                       *)
LEMMA NodesChanged ==
  ASSUME MapsInv, NEW t \in Thread, OthersSame(t), pathMap' = pathMap,
         DOMAIN nodes' = DOMAIN nodes, \A id \in DOMAIN nodes : nodes'[id].key = nodes[id].key,
         \A id : Owns(t, id) => Owns(t, id)',
         \A u \in Thread \ {t} :
           ~Stubbing(u) /\ pc[u] \in Linked => newId[u] \in nodes'[parentId[u]].children
  PROVE  /\ NodesOK' /\ \A u \in Thread \ {t} : NodesAt(u)'
  <1>1. NodesOK
    BY DEF MapsInv, MapsOK
  <1>2. \A u \in Thread \ {t} : Same(u)
    BY DEF OthersSame
  <1>3. NodesOK'
    <2>1. PublishedResolves'
      BY <1>1 DEF NodesOK, PublishedResolves, Mapped
    <2>2. \A id : \A u \in Thread : Owns(u, id) => Owns(u, id)'
      BY <1>2, SameClaims
    <2>3. QED
      BY <1>1, <2>1, <2>2 DEF NodesOK
  <1>4. ASSUME NEW u \in Thread \ {t} PROVE NodesAt(u)'
    <2>1. NodesAt(u)
      BY DEF MapsInv, ThreadOK
    <2>2. QED
      BY <1>2, <2>1, NodesSeen DEF NodesAt, NodeAt, ListedAt
  <1>5. QED
    BY <1>3, <1>4

(* Nor their children.                                                     *)
LEMMA NodesRewritten ==
  ASSUME MapsInv, NEW t \in Thread, OthersSame(t), pathMap' = pathMap,
         DOMAIN nodes' = DOMAIN nodes,
         \A id \in DOMAIN nodes :
           nodes'[id].key = nodes[id].key /\ nodes'[id].children = nodes[id].children,
         \A id : Owns(t, id) => Owns(t, id)', \A id, c : Lists(t, id, c) => Lists(t, id, c)',
         points' = points, childCount' = childCount
  PROVE  /\ NodesOK' /\ ChildrenOK' /\ CountersOK' /\ PointsOK'
         /\ \A u \in Thread \ {t} : NodesAt(u)'
  <1>1. NodesOK /\ ChildrenOK /\ CountersOK /\ PointsOK /\ IdsOK
    BY DEF MapsInv, MapsOK
  <1>2. NodesOK' /\ \A u \in Thread \ {t} : NodesAt(u)'
    <2>1. ASSUME NEW u \in Thread \ {t}, ~Stubbing(u), pc[u] \in Linked
          PROVE  newId[u] \in nodes'[parentId[u]].children
      <3>1. parentId[u] \in DOMAIN nodes /\ NodesAt(u)
        BY <2>1, ParentThere DEF Linked, Made, MapsInv, ThreadOK
      <3>2. QED
        BY <2>1, <3>1 DEF NodesAt, ListedAt
    <2>2. QED
      BY <2>1, NodesChanged
  <1>3. CountersOK' /\ PointsOK'
    BY <1>1 DEF CountersOK, CounterAboveChildren, PointsOK
  <1>4. ChildrenOK'
    <2>1. ASSUME NEW q \in Mapped \ {Root}
          PROVE  pathMap[parent_path(q)] \in DOMAIN nodes
      BY <1>1, PathType DEF IdsOK, Mapped, NodesOK, PublishedResolves
    <2>2. \A u \in Thread : \A id, c : Lists(u, id, c) => Lists(u, id, c)'
      BY SameClaims DEF OthersSame
    <2>3. \A q \in Mapped \ {Root} : ~is_stub(pathMap[q]) =>
            pathMap[q] \in nodes'[pathMap[parent_path(q)]].children
      BY <1>1, <2>1 DEF ChildrenOK
    <2>4. \A id \in DOMAIN nodes' : \A c \in nodes'[id].children :
            /\ ~is_stub(c)
            /\ \/ \E q \in Path \ {Root} : pathMap[q] = c /\ pathMap[parent_path(q)] = id
               \/ \E u \in Thread : Lists(u, id, c)'
      BY <1>1, <2>2 DEF ChildrenOK
    <2>5. QED
      BY <2>3, <2>4 DEF ChildrenOK, Mapped
  <1>5. QED
    BY <1>2, <1>3, <1>4


-----------------------------------------------------------------------------
(* The steps of an insert *)

(* No node is in the way of a data-only one.                               *)
LEMMA FreeStub ==
  ASSUME MapsInv, NEW t \in Thread, pc[t] = "store_stub"
  PROVE  StubId(Target(t)) \notin DOMAIN nodes
  <1> DEFINE n == StubId(Target(t))
  <1> SUFFICES ASSUME n \in DOMAIN nodes PROVE FALSE
    OBVIOUS
  <1>1. TreeInv /\ IdsOK /\ NodesOK /\ CallAt(t) /\ TargetAt(t)
    BY DEF MapsInv, MapsOK, ThreadOK, PathsAt
  <1>2. op[t].kind \in Inserts /\ Target(t) \in Path
    BY <1>1, WorkingKind, Targets DEF Working, Inserts
  <1>3. is_stub(n) /\ n # Nil
    BY <1>2, StubIds
  <1> HIDE DEF n
  <1>4. ASSUME NEW q \in Path, pathMap[q] = n PROVE FALSE
    <2>1. StubId(q) = n
      BY <1>1, <1>3, <1>4 DEF IdsOK
    <2>2. q = Target(t)
      BY <2>1, StubIds DEF n
    <2>3. QED
      BY <1>1, <1>2, <1>3, <1>4, <2>2 DEF TargetAt
  <1>5. ASSUME NEW u \in Thread, Owns(u, n) PROVE FALSE
    <2>1. u # t
      BY <1>5 DEF Owns, Made, Slotted, Upgrading
    <2>2. CASE pc[u] \in Made /\ newId[u] = n
      <3>1. pc[u] \in Slotted /\ pc[u] \in Acting /\ pc[t] \in Acting
        BY <2>2 DEF Made, Slotted, Acting, Placing
      <3>2. newId[u] = StubId(Target(u))
        BY <1>3, <2>2, <3>1, SlotOf
      <3>3. QED
        BY <2>1, <2>2, <3>1, <3>2, StubIds, TargetsApart DEF n
    <2>3. CASE pc[u] \in Upgrading /\ ownId[u] = n
      BY <2>1, <2>3, RetiredOf, StubIds, TargetsApart DEF n, Acting
    <2>4. CASE pc[u] \in {"delete_forget", "unregister"} /\ ownId[u] = n
      <3>1. pc[u] \in Removing /\ pc[u] \in Deleting /\ pc[t] \in Working
        BY <2>4 DEF Removing, Deleting, Working
      <3>2. ownId[u] = StubId(op[u].path)
        BY <1>3, <2>4, <3>1, RemovedOf
      <3>3. QED
        BY <2>1, <2>4, <3>1, <3>2, StubIds, DeleteAlone DEF n
    <2>5. QED
      BY <1>5, <2>2, <2>3, <2>4 DEF Owns
  <1>6. QED
    BY <1>1, <1>4, <1>5 DEF NodesOK, n

(* Nor does a node of the same key lie at any slot.                        *)
LEMMA FreeSlot ==
  ASSUME MapsInv, NEW t \in Thread, pc[t] = "place", NEW n \in DOMAIN nodes, ~is_stub(n)
  PROVE  nodes[n].key # Target(t)
  <1> SUFFICES ASSUME nodes[n].key = Target(t) PROVE FALSE
    OBVIOUS
  <1>1. TreeInv /\ IdsOK /\ NodesOK /\ CallAt(t) /\ TargetAt(t)
    BY DEF MapsInv, MapsOK, ThreadOK, PathsAt
  <1>2. op[t].kind \in Inserts \cup {"embed_existing"} /\ Target(t) \in Path
    BY <1>1, WorkingKind, Targets DEF Working, Placing
  <1>3. n # Nil
    BY <1>1, NilAssumption DEF TreeInv, TypeOK
  <1>4. ASSUME NEW q \in Path, pathMap[q] = n PROVE FALSE
    <2>1. q = Target(t)
      BY <1>1, <1>3, <1>4 DEF NodesOK, PublishedResolves, Mapped
    <2>2. QED
      BY <1>1, <1>2, <1>3, <1>4, <2>1, StubIds DEF TargetAt, Placing
  <1>5. ASSUME NEW u \in Thread, Owns(u, n) PROVE FALSE
    <2>1. u # t
      BY <1>5 DEF Owns, Made, Slotted, Upgrading
    <2>2. CASE pc[u] \in Made /\ newId[u] = n
      <3>1. pc[u] \in Slotted /\ pc[u] \in Acting /\ pc[t] \in Acting
        BY <2>2 DEF Made, Slotted, Acting, Placing
      <3>2. nodes[newId[u]].key = Target(u)
        BY <2>2 DEF MapsInv, ThreadOK, NodesAt, NodeAt
      <3>3. QED
        BY <2>1, <2>2, <3>1, <3>2, TargetsApart
    <2>3. CASE pc[u] \in Upgrading /\ ownId[u] = n
      BY <2>3, RetiredOf
    <2>4. CASE pc[u] \in {"delete_forget", "unregister"} /\ ownId[u] = n
      <3>1. pc[u] \in Deleting /\ pc[t] \in Working
        BY <2>4 DEF Removing, Deleting, Working, Placing
      <3>2. nodes[ownId[u]].key = op[u].path
        BY <2>4 DEF MapsInv, ThreadOK, NodesAt, NodeAt
      <3>3. QED
        BY <2>1, <2>4, <3>1, <3>2, DeleteAlone
    <2>5. QED
      BY <1>5, <2>2, <2>3, <2>4 DEF Owns
  <1>6. QED
    BY <1>1, <1>4, <1>5 DEF NodesOK

(* The other calls see a step that changes no path, node, counter or entry *)
(* they look at.                                                           *)
LEMMA OthersOK ==
  ASSUME MapsInv, NEW t \in Thread, OthersSame(t), NEW u \in Thread \ {t},
         PathsAt(u)' \/ pathMap' = pathMap, NodesAt(u)' \/ nodes' = nodes,
         CountedAt(u)' \/ childCount' = childCount, EntryAt(u)' \/ idToPath' = idToPath
  PROVE  ThreadOK(u)'
  <1>1. Same(u) /\ ThreadOK(u)
    BY DEF OthersSame, MapsInv
  <1>2. QED
    BY <1>1, SameCall, SamePaths, SameNodes, SameCounts, SameEntries DEF ThreadOK

LEMMA StoreStubMaps ==
  ASSUME MapsInv, NEW t \in Thread, StoreStub(t)
  PROVE  MapsInv'
  <1>1. /\ TreeInv /\ NoClash /\ IdsOK /\ EntriesOK /\ PointsOK /\ CountersOK
        /\ CallAt(t) /\ PathsAt(t)
    BY DEF MapsInv, MapsOK, ThreadOK
  <1>2. OthersSame(t)
    BY <1>1, Locals DEF StoreStub, Goto, OthersSame, Same
  <1>3. pc[t] = "store_stub" /\ op[t].kind = "insert_data_only"
    BY <1>1 DEF StoreStub, TreeInv, Calls
  <1>0. PICK n : n = StubId(Target(t))
    OBVIOUS
  <1>4. /\ pc'[t] = "record_path" /\ newId'[t] = n /\ op' = op /\ frames' = frames /\ held' = held
        /\ parentId' = parentId /\ pathMap' = pathMap /\ idToPath' = idToPath /\ points' = points
        /\ childCount' = childCount
        /\ nodes' = Entry(nodes, n, NewNode(Target(t), op[t].arg))
    BY <1>0, <1>1, <1>3, Locals DEF StoreStub, Goto, Target
  <1>5. n \notin DOMAIN nodes /\ is_stub(n)
    BY <1>0, <1>1, <1>3, FreeStub, WorkingKind, Targets, StubIds DEF Working
  <1>6. /\ DOMAIN nodes' = DOMAIN nodes \cup {n} /\ nodes'[n].children = {}
        /\ nodes'[n].key = Target(t) /\ \A id \in DOMAIN nodes : nodes'[id] = nodes[id]
    BY <1>4, <1>5 DEF Entry, NewNode
  <1>7. \A u \in Thread \ {t} : pc[u] = "register" => newId[u] # n
    BY <1>5, SlotOf, WorkingKind, <1>1 DEF Slotted, Working, Placing
  <1>8. NodesOK' /\ ChildrenOK' /\ \A u \in Thread \ {t} : NodesAt(u)'
    <2>1. Owns(t, n)'
      BY <1>4 DEF Owns, Made, Slotted
    <2>2. pc[t] \notin Made \cup Upgrading \cup Removing
      BY <1>3 DEF Made, Slotted, Upgrading, Removing
    <2>3. QED
      BY <1>2, <1>4, <1>5, <1>6, <1>7, <2>1, <2>2, NodeAdded
  <1>9. PointsOK'
    BY <1>1, <1>4, <1>5, <1>6 DEF PointsOK
  <1>10. CountersOK'
    BY <1>1, <1>4, <1>5, <1>6 DEF CountersOK, CounterAboveChildren
  <1>11. IdsOK' /\ EntriesOK'
    <2>1. \A id : \A u \in Thread : Names(u, id) => Names(u, id)'
      BY <1>2, <1>3, SameClaims DEF OthersSame, Names
    <2>2. QED
      BY <1>1, <1>4, <2>1, IdsKept, EntriesKept
  <1>12. ThreadOK(t)'
    <2>1. Target(t)' = Target(t) /\ Stubbing(t) /\ Stubbing(t)' /\ ParentOf(t)' = ParentOf(t)
      BY <1>3, <1>4 DEF Target, Stubbing, ParentOf
    <2>2. CallAt(t)'
      BY <1>1, <1>3, <1>4, <2>1 DEF CallAt, FramesAt, HoldsAt, UnderLock, Placing, Deleting, Removing,
         Upgrading
    <2>3. ParentAt(t)'
      BY <1>1, <1>3, <1>4, <2>1 DEF PathsAt, ParentAt, PlacedInserts
    <2>4. TargetAt(t)'
      BY <1>1, <1>3, <1>4, <2>1 DEF PathsAt, TargetAt, Inserts, Placing, Upgrading
    <2>5. SlotAt(t)' /\ DeleteAt(t)'
      BY <1>0, <1>4, <2>1 DEF SlotAt, DeleteAt, Deleting, Removing
    <2>6. NodesAt(t)' /\ CountedAt(t)' /\ EntryAt(t)'
      BY <1>4, <1>6, <2>1 DEF NodesAt, NodeAt, ListedAt, CountedAt, EntryAt
    <2>7. QED
      BY <2>2, <2>3, <2>4, <2>5, <2>6 DEF ThreadOK, PathsAt
  <1>13. \A u \in Thread \ {t} : ThreadOK(u)'
    BY <1>2, <1>4, <1>8, OthersOK
  <1>14. TreeInv' /\ NoClash'
    BY <1>1, <1>2, <1>3, <1>4, StoreStubStep, ClashKept
  <1>15. QED
    BY <1>8, <1>9, <1>10, <1>11, <1>12, <1>13, <1>14 DEF MapsInv, MapsOK

LEMMA RegisterMaps ==
  ASSUME MapsInv, NEW t \in Thread, Register(t)
  PROVE  MapsInv'
  <1>1. /\ TreeInv /\ NoClash /\ IdsOK /\ EntriesOK /\ PointsOK /\ CountersOK
        /\ CallAt(t) /\ PathsAt(t) /\ NodesAt(t) /\ CountedAt(t)
    BY DEF MapsInv, MapsOK, ThreadOK
  <1>2. OthersSame(t)
    BY <1>1, Locals DEF Register, Goto, OthersSame, Same, local
  <1>3. pc[t] = "register" /\ ~Stubbing(t)
    BY <1>1, WorkingKind DEF Register, Working, Placing
  <1>4. PICK n : n = newId[t]
    OBVIOUS
  <1>5. PICK v : nodes' = Entry(nodes, n, NewNode(Target(t), v))
    BY <1>4 DEF Register
  <1>6. /\ pc'[t] = "link" /\ newId' = newId /\ op' = op /\ frames' = frames /\ held' = held
        /\ parentId' = parentId /\ ownId' = ownId /\ pathMap' = pathMap /\ idToPath' = idToPath
        /\ points' = points \cup {n} /\ childCount' = childCount
    BY <1>1, <1>4, Locals DEF Register, Goto, local
  <1>7. n \notin DOMAIN nodes /\ ~is_stub(n)
    BY <1>1, <1>3, <1>4, SlotOf DEF NodesAt, NodeAt, Slotted
  <1>8. /\ DOMAIN nodes' = DOMAIN nodes \cup {n} /\ nodes'[n].children = {}
        /\ nodes'[n].key = Target(t) /\ \A id \in DOMAIN nodes : nodes'[id] = nodes[id]
    BY <1>5, <1>7 DEF Entry, NewNode
  <1>9. \A u \in Thread \ {t} : pc[u] = "register" => newId[u] # n
    BY <1>3, <1>4, ChoicesApart DEF Slotted
  <1>10. NodesOK' /\ ChildrenOK' /\ \A u \in Thread \ {t} : NodesAt(u)'
    <2>1. Owns(t, n)'
      BY <1>4, <1>6 DEF Owns, Made, Slotted
    <2>2. pc[t] \notin Made \cup Upgrading \cup Removing
      BY <1>3 DEF Made, Slotted, Upgrading, Removing
    <2>3. QED
      BY <1>2, <1>6, <1>7, <1>8, <1>9, <2>1, <2>2, NodeAdded
  <1>11. PointsOK'
    BY <1>1, <1>6, <1>7, <1>8 DEF PointsOK
  <1>12. CountersOK'
    BY <1>1, <1>6, <1>7, <1>8 DEF CountersOK, CounterAboveChildren
  <1>13. IdsOK' /\ EntriesOK'
    <2>1. \A id : \A u \in Thread : Names(u, id) => Names(u, id)'
      BY <1>2, <1>3, SameClaims DEF OthersSame, Names
    <2>2. QED
      BY <1>1, <1>6, <2>1, IdsKept, EntriesKept
  <1>14. ThreadOK(t)'
    <2>1. Target(t)' = Target(t) /\ ~Stubbing(t)' /\ ParentOf(t)' = ParentOf(t)
      BY <1>3, <1>6 DEF Target, Stubbing, ParentOf
    <2>2. CallAt(t)'
      BY <1>1, <1>3, <1>6, <2>1 DEF CallAt, FramesAt, HoldsAt, UnderLock, Placing, Deleting, Removing,
         Upgrading
    <2>3. ParentAt(t)'
      BY <1>1, <1>3, <1>6, <2>1 DEF PathsAt, ParentAt, Placing
    <2>4. TargetAt(t)'
      BY <1>1, <1>3, <1>6, <2>1 DEF PathsAt, TargetAt, Placing, Upgrading
    <2>5. SlotAt(t)' /\ DeleteAt(t)'
      BY <1>1, <1>3, <1>6, <2>1 DEF PathsAt, SlotAt, DeleteAt, Deleting, Removing, Slotted
    <2>6. NodesAt(t)'
      BY <1>4, <1>6, <1>8, <2>1 DEF NodesAt, NodeAt, ListedAt, Linked, Made
    <2>7. CountedAt(t)' /\ EntryAt(t)'
      BY <1>1, <1>3, <1>6, <2>1 DEF CountedAt, EntryAt, Slotted
    <2>8. QED
      BY <2>2, <2>3, <2>4, <2>5, <2>6, <2>7 DEF ThreadOK, PathsAt
  <1>15. \A u \in Thread \ {t} : ThreadOK(u)'
    BY <1>2, <1>6, <1>10, OthersOK
  <1>16. TreeInv' /\ NoClash'
    BY <1>1, <1>2, <1>3, <1>6, RegisterStep, ClashKept
  <1>17. QED
    BY <1>10, <1>11, <1>12, <1>13, <1>14, <1>15, <1>16 DEF MapsInv, MapsOK


(* A call goes on to another of its steps with an id chosen.               *)
LEMMA GoesOn ==
  ASSUME MapsInv, NEW t \in Thread, pc[t] \in Slotted, pc'[t] \in Slotted, pathMap' = pathMap,
         UNCHANGED <<op, frames, held, parentId, ownId, newId>>
  PROVE  /\ CallAt(t)' /\ PathsAt(t)'
         /\ Target(t)' = Target(t) /\ Stubbing(t)' = Stubbing(t)
  <1>1. TreeInv /\ CallAt(t) /\ PathsAt(t)
    BY DEF MapsInv, ThreadOK
  <1>2. /\ Target(t)' = Target(t) /\ Stubbing(t)' = Stubbing(t) /\ ParentOf(t)' = ParentOf(t)
        /\ pc[t] \in Placing /\ pc'[t] \in Placing /\ pc[t] \in Working
    BY DEF Target, Stubbing, ParentOf, Slotted, Placing, Working
  <1>3. CallAt(t)'
    BY <1>1, <1>2 DEF CallAt, FramesAt, HoldsAt, UnderLock, Slotted, Deleting, Removing
  <1>4. ParentAt(t)'
    <2>1. Stubbing(t) => pc[t] \in {"record_path", "publish"} \/ pc[t] = "copy_coords"
      BY <1>1, <1>2, WorkingKind DEF Slotted
    <2>2. Stubbing(t) => pc[t] \in {"record_path", "publish"}
      BY <1>1, <2>1 DEF TreeInv, Calls, Stubbing
    <2>3. QED
      BY <1>1, <1>2, <2>2 DEF PathsAt, ParentAt, Slotted
  <1>5. TargetAt(t)'
    BY <1>1, <1>2 DEF PathsAt, TargetAt, Slotted, Upgrading
  <1>6. SlotAt(t)' /\ DeleteAt(t)'
    BY <1>1, <1>2 DEF PathsAt, SlotAt, DeleteAt, Slotted, Deleting, Removing
  <1>7. QED
    BY <1>2, <1>3, <1>4, <1>5, <1>6 DEF PathsAt

LEMMA LinkMaps ==
  ASSUME MapsInv, NEW t \in Thread, Link(t)
  PROVE  MapsInv'
  <1>1. /\ TreeInv /\ NoClash /\ IdsOK /\ NodesOK /\ EntriesOK /\ PointsOK /\ CountersOK
        /\ ChildrenOK /\ NodesAt(t) /\ CountedAt(t)
    BY DEF MapsInv, MapsOK, ThreadOK
  <1>2. OthersSame(t)
    BY <1>1, Locals DEF Link, Goto, OthersSame, Same, local
  <1>3. pc[t] = "link" /\ pc[t] \in Slotted /\ pc[t] \in Made /\ ~Stubbing(t)
    BY <1>1, WorkingKind DEF Link, Working, Placing, Slotted, Made
  <1>4. PICK n, m : n = newId[t] /\ m = parentId[t]
    OBVIOUS
  <1>5. m \in DOMAIN nodes /\ m \in points /\ ~is_stub(n)
    BY <1>3, <1>4, ParentThere, SlotOf
  <1>6. /\ pc'[t] \in {"copy_coords", "record_path"} /\ op' = op /\ frames' = frames
        /\ held' = held /\ newId' = newId /\ parentId' = parentId /\ ownId' = ownId
        /\ pathMap' = pathMap /\ idToPath' = idToPath /\ points' = points
        /\ childCount' = childCount
        /\ nodes' = [nodes EXCEPT ![m].children = nodes[m].children \cup {n}]
    BY <1>1, <1>4, <1>5, Locals DEF Link, Goto, local
  <1>7. /\ DOMAIN nodes' = DOMAIN nodes
        /\ \A id \in DOMAIN nodes : nodes'[id].key = nodes[id].key
        /\ \A id \in DOMAIN nodes \ {m} : nodes'[id].children = nodes[id].children
        /\ nodes'[m].children = nodes[m].children \cup {n}
    <2>1. \A id \in DOMAIN nodes : nodes[id] \in Node
      BY <1>1 DEF TreeInv, TypeOK
    <2>2. QED
      BY <1>5, <1>6, <2>1 DEF Node
  <1>8. \A id \in DOMAIN nodes : nodes[id].children \subseteq nodes'[id].children
    BY <1>7
  <1>9. pc'[t] \in Slotted /\ pc'[t] \in Made /\ pc'[t] \in Linked
    BY <1>6 DEF Slotted, Made, Linked
  <1>10. NodesOK' /\ \A u \in Thread \ {t} : NodesAt(u)'
    <2>1. \A id : Owns(t, id) => Owns(t, id)'
      BY <1>3, <1>6, <1>9 DEF Owns, Upgrading
    <2>2. ASSUME NEW u \in Thread \ {t}, ~Stubbing(u), pc[u] \in Linked
          PROVE  newId[u] \in nodes'[parentId[u]].children
      <3>1. parentId[u] \in DOMAIN nodes /\ NodesAt(u)
        BY <2>2, ParentThere DEF Linked, Made, MapsInv, ThreadOK
      <3>2. QED
        BY <1>8, <2>2, <3>1 DEF NodesAt, ListedAt
    <2>3. QED
      BY <1>2, <1>6, <1>7, <2>1, <2>2, NodesChanged
  <1>11. IdsOK' /\ EntriesOK'
    <2>1. \A id : \A u \in Thread : Names(u, id) => Names(u, id)'
      BY <1>2, <1>3, SameClaims DEF OthersSame, Names
    <2>2. QED
      BY <1>1, <1>6, <2>1, IdsKept, EntriesKept
  <1>12. PointsOK'
    BY <1>1, <1>6, <1>7 DEF PointsOK
  <1>13. CountersOK'
    <2>1. m \in DOMAIN childCount /\ Last(Position(n)) < childCount[m]
      BY <1>1, <1>3, <1>4 DEF CountedAt
    <2>2. QED
      BY <1>1, <1>6, <1>7, <2>1 DEF CountersOK, CounterAboveChildren
  <1>14. ChildrenOK'
    <2>1. ASSUME NEW q \in Mapped \ {Root}, ~is_stub(pathMap[q])
          PROVE  pathMap[q] \in nodes'[pathMap[parent_path(q)]].children
      <3>1. parent_path(q) \in Mapped
        BY <1>1, PathType DEF IdsOK, Mapped
      <3>2. pathMap[parent_path(q)] \in DOMAIN nodes
        BY <1>1, <3>1 DEF NodesOK, PublishedResolves
      <3>3. QED
        BY <1>1, <1>8, <2>1, <3>2 DEF ChildrenOK
    <2>2. \A u \in Thread : \A id, c : Lists(u, id, c) => Lists(u, id, c)'
      BY <1>2, <1>3, SameClaims DEF OthersSame, Lists, Linked, Removing
    <2>3. ASSUME NEW id \in DOMAIN nodes', NEW c \in nodes'[id].children
          PROVE  /\ ~is_stub(c)
                 /\ \/ \E q \in Path \ {Root} : pathMap[q] = c /\ pathMap[parent_path(q)] = id
                    \/ \E u \in Thread : Lists(u, id, c)'
      <3>1. CASE c \in nodes[id].children
        BY <1>1, <1>7, <2>2, <3>1 DEF ChildrenOK
      <3>2. CASE c \notin nodes[id].children
        <4>1. id = m /\ c = n
          BY <1>7, <2>3, <3>2
        <4>2. Lists(t, id, c)'
          BY <1>4, <1>6, <1>9, <4>1 DEF Lists
        <4>3. QED
          BY <1>5, <4>1, <4>2
      <3>3. QED
        BY <3>1, <3>2
    <2>4. QED
      BY <1>6, <2>1, <2>3 DEF ChildrenOK, Mapped
  <1>15. ThreadOK(t)'
    <2>1. CallAt(t)' /\ PathsAt(t)' /\ Target(t)' = Target(t) /\ Stubbing(t)' = Stubbing(t)
      BY <1>3, <1>6, <1>9, GoesOn
    <2>2. NodesAt(t)'
      BY <1>1, <1>3, <1>4, <1>6, <1>7, <1>9, <2>1 DEF NodesAt, NodeAt, ListedAt
    <2>3. CountedAt(t)' /\ EntryAt(t)'
      BY <1>1, <1>3, <1>6, <2>1 DEF CountedAt, EntryAt
    <2>4. QED
      BY <2>1, <2>2, <2>3 DEF ThreadOK
  <1>16. \A u \in Thread \ {t} : ThreadOK(u)'
    BY <1>2, <1>6, <1>10, OthersOK
  <1>17. TreeInv' /\ NoClash'
    BY <1>1, <1>2, <1>3, <1>6, LinkStep, ClashKept
  <1>18. QED
    BY <1>10, <1>11, <1>12, <1>13, <1>14, <1>15, <1>16, <1>17 DEF MapsInv, MapsOK

LEMMA CopyCoordsMaps ==
  ASSUME MapsInv, NEW t \in Thread, CopyCoords(t)
  PROVE  MapsInv'
  <1>1. /\ TreeInv /\ NoClash /\ IdsOK /\ EntriesOK /\ NodesAt(t) /\ CountedAt(t)
    BY DEF MapsInv, MapsOK, ThreadOK
  <1>2. OthersSame(t)
    BY <1>1, Locals DEF CopyCoords, Goto, OthersSame, Same, local
  <1>3. pc[t] = "copy_coords" /\ pc[t] \in Slotted /\ pc[t] \in Made /\ pc[t] \in Linked
    BY DEF CopyCoords, Slotted, Made, Linked
  <1>4. /\ pc'[t] = "record_path" /\ op' = op /\ frames' = frames
        /\ held' = held /\ newId' = newId /\ parentId' = parentId /\ ownId' = ownId
        /\ pathMap' = pathMap /\ idToPath' = idToPath /\ points' = points
        /\ childCount' = childCount
    BY <1>1, Locals DEF CopyCoords, Goto, local
  <1>5. /\ DOMAIN nodes' = DOMAIN nodes
        /\ \A id \in DOMAIN nodes :
             nodes'[id].key = nodes[id].key /\ nodes'[id].children = nodes[id].children
    <2>1. \A id \in DOMAIN nodes : nodes[id] \in Node
      BY <1>1 DEF TreeInv, TypeOK
    <2>2. PICK c : nodes' = nodes \/ nodes' = [nodes EXCEPT ![newId[t]].sem = c]
      BY DEF CopyCoords
    <2>3. QED
      BY <2>1, <2>2 DEF Node
  <1>6. pc'[t] \in Slotted /\ pc'[t] \in Made /\ pc'[t] \in Linked
    BY <1>4 DEF Slotted, Made, Linked
  <1>7. /\ \A id : Owns(t, id) => Owns(t, id)'
        /\ \A id, c : Lists(t, id, c) => Lists(t, id, c)'
    BY <1>3, <1>4, <1>6 DEF Owns, Lists, Upgrading, Removing
  <1>8. /\ NodesOK' /\ ChildrenOK' /\ CountersOK' /\ PointsOK'
        /\ \A u \in Thread \ {t} : NodesAt(u)'
    BY <1>2, <1>4, <1>5, <1>7, NodesRewritten
  <1>9. IdsOK' /\ EntriesOK'
    <2>1. \A id : \A u \in Thread : Names(u, id) => Names(u, id)'
      BY <1>2, <1>3, SameClaims DEF OthersSame, Names
    <2>2. QED
      BY <1>1, <1>4, <2>1, IdsKept, EntriesKept
  <1>10. ThreadOK(t)'
    <2>1. CallAt(t)' /\ PathsAt(t)' /\ Target(t)' = Target(t) /\ Stubbing(t)' = Stubbing(t)
      BY <1>3, <1>4, <1>6, GoesOn
    <2>2. NodeAt(t)'
      BY <1>1, <1>3, <1>4, <1>5, <1>6, <2>1 DEF NodesAt, NodeAt
    <2>3. ListedAt(t)'
      BY <1>1, <1>3, <1>4, <1>5, <2>1, ParentThere DEF NodesAt, ListedAt
    <2>4. CountedAt(t)' /\ EntryAt(t)'
      BY <1>1, <1>3, <1>4, <2>1 DEF CountedAt, EntryAt
    <2>5. QED
      BY <2>1, <2>2, <2>3, <2>4 DEF ThreadOK, NodesAt
  <1>11. \A u \in Thread \ {t} : ThreadOK(u)'
    BY <1>2, <1>4, <1>8, OthersOK
  <1>12. TreeInv' /\ NoClash'
    BY <1>1, <1>2, <1>3, <1>4, CopyCoordsStep, ClashKept
  <1>13. QED
    BY <1>8, <1>9, <1>10, <1>11, <1>12 DEF MapsInv, MapsOK

LEMMA WriteMaps ==
  ASSUME MapsInv, NEW t \in Thread, Write(t)
  PROVE  MapsInv'
  <1>1. TreeInv /\ NoClash /\ IdsOK /\ EntriesOK
    BY DEF MapsInv, MapsOK
  <1>2. OthersSame(t)
    BY <1>1, Locals DEF Write, Answer, Goto, OthersSame, Same, local
  <1>3. /\ pc[t] = "write" /\ pc'[t] = "return" /\ op' = op
        /\ pathMap' = pathMap /\ idToPath' = idToPath /\ points' = points
        /\ childCount' = childCount
    BY <1>1, Locals DEF Write, Answer, Goto
  <1>4. /\ DOMAIN nodes' = DOMAIN nodes
        /\ \A id \in DOMAIN nodes :
             nodes'[id].key = nodes[id].key /\ nodes'[id].children = nodes[id].children
    <2>1. \A id \in DOMAIN nodes : nodes[id] \in Node
      BY <1>1 DEF TreeInv, TypeOK
    <2>2. PICK i, c : \/ nodes' = nodes \/ nodes' = [nodes EXCEPT ![i].sem = c]
                      \/ nodes' = [nodes EXCEPT ![i].val = c]
      BY DEF Write
    <2>3. QED
      BY <2>1, <2>2 DEF Node
  <1>5. /\ \A id : ~Owns(t, id) /\ ~Names(t, id)
        /\ \A id, c : ~Lists(t, id, c)
    BY <1>3, NoClaim DEF Slotted, Upgrading, Removing
  <1>6. /\ NodesOK' /\ ChildrenOK' /\ CountersOK' /\ PointsOK'
        /\ \A u \in Thread \ {t} : NodesAt(u)'
    BY <1>2, <1>3, <1>4, <1>5, NodesRewritten
  <1>7. IdsOK' /\ EntriesOK'
    <2>1. \A id : \A u \in Thread : Names(u, id) => Names(u, id)'
      BY <1>2, <1>5, SameClaims DEF OthersSame
    <2>2. QED
      BY <1>1, <1>3, <2>1, IdsKept, EntriesKept
  <1>8. ThreadOK(t)'
    BY <1>3, Answered
  <1>9. \A u \in Thread \ {t} : ThreadOK(u)'
    BY <1>2, <1>3, <1>6, OthersOK
  <1>10. TreeInv' /\ NoClash'
    BY <1>1, <1>2, <1>3, WriteStep, ClashKept
  <1>11. QED
    BY <1>6, <1>7, <1>8, <1>9, <1>10 DEF MapsInv, MapsOK


-----------------------------------------------------------------------------
(* The last steps of an embed and of a delete *)

LEMMA RetireMaps ==
  ASSUME MapsInv, NEW t \in Thread, Retire(t)
  PROVE  MapsInv'
  <1>1. /\ TreeInv /\ NoClash /\ IdsOK /\ NodesOK /\ EntriesOK /\ PointsOK /\ CountersOK
        /\ CallAt(t)
    BY DEF MapsInv, MapsOK, ThreadOK
  <1>2. /\ pc[t] = "retire" /\ pc[t] \in Upgrading /\ op[t].kind = "embed_existing"
        /\ pc[t] \notin Made /\ pc[t] \notin Linked
    BY <1>1 DEF Retire, Upgrading, TreeInv, Calls, Made, Linked, Slotted
  <1>3. PICK n : n = ownId[t]
    OBVIOUS
  <1>4. /\ pathMap' = pathMap /\ idToPath' = idToPath /\ points' = points
        /\ childCount' = childCount /\ op' = op /\ parentId' = parentId /\ ownId' = ownId
        /\ newId' = newId /\ nodes' = Without(nodes, n)
    BY <1>3 DEF Retire
  <1>5. ThreadOK(t)' /\ OthersSame(t)
    BY <1>1, <1>2, <1>4, FrameDoneMaps DEF Retire
  <1>6. /\ DOMAIN nodes' = DOMAIN nodes \ {n}
        /\ \A id \in DOMAIN nodes \ {n} : nodes'[id] = nodes[id]
    BY <1>4 DEF Without
  <1>7. Target(t) \in Path /\ n = StubId(Target(t)) /\ is_stub(n) /\ pathMap[Target(t)] # n
    BY <1>2, <1>3, RetiredOf
  <1>8. ASSUME NEW q \in Path PROVE pathMap[q] # n
    BY <1>1, <1>7, StubIds DEF IdsOK
  <1>9. NodesOK' /\ ChildrenOK' /\ \A u \in Thread \ {t} : NodesAt(u)'
    <2>1. ASSUME NEW u \in Thread \ {t}
          PROVE  /\ pc[u] \in Slotted => newId[u] # n
                 /\ pc[u] \in {"delete_forget", "unregister"} => ownId[u] # n
                 /\ pc[u] \in Slotted /\ ~Stubbing(u) => parentId[u] # n
      BY <1>2, <1>3, ChosenNotRetired, RetiredNotRemoved, ParentThere DEF Removing
    <2>2. \A id : Owns(t, id) => id = n
      BY <1>2, <1>3 DEF Owns
    <2>3. \A id, c : Lists(t, id, c) => Lists(t, id, c)'
      BY <1>2 DEF Lists, Upgrading, Removing
    <2>4. QED
      BY <1>4, <1>5, <1>6, <1>8, <2>1, <2>2, <2>3, NodeDropped
  <1>10. IdsOK' /\ EntriesOK'
    <2>1. \A id : \A u \in Thread : Names(u, id) => Names(u, id)'
      BY <1>2, <1>5, SameClaims DEF OthersSame, Names
    <2>2. QED
      BY <1>1, <1>4, <2>1, IdsKept, EntriesKept
  <1>11. PointsOK'
    BY <1>1, <1>4, <1>6, <1>7 DEF PointsOK
  <1>12. CountersOK'
    BY <1>1, <1>4, <1>6 DEF CountersOK, CounterAboveChildren
  <1>13. \A u \in Thread \ {t} : ThreadOK(u)'
    BY <1>4, <1>5, <1>9, OthersOK
  <1>14. TreeInv' /\ NoClash'
    BY <1>1, <1>2, <1>4, <1>5, RetireStep, ClashKept
  <1>15. QED
    BY <1>5, <1>9, <1>10, <1>11, <1>12, <1>13, <1>14 DEF MapsInv, MapsOK

(* A delete goes on with what it has to take out.                          *)
LEMMA DeleteGoesOn ==
  ASSUME MapsInv, NEW t \in Thread, pc[t] \in Removing, pc'[t] \in Removing, pathMap' = pathMap,
         UNCHANGED <<op, frames, held, parentId, ownId, newId>>
  PROVE  CallAt(t)' /\ PathsAt(t)'
  <1>1. CallAt(t) /\ PathsAt(t)
    BY DEF MapsInv, ThreadOK
  <1>2. op[t].kind = "delete" /\ DeleteKeys(t)' = DeleteKeys(t)
    BY <1>1 DEF CallAt, FramesAt, Deleting, DeleteKeys
  <1>3. CallAt(t)'
    BY <1>1, <1>2 DEF CallAt, FramesAt, HoldsAt, UnderLock, Placing, Upgrading, Removing
  <1>4. DeleteAt(t)'
    BY <1>1 DEF PathsAt, DeleteAt, Deleting, Removing
  <1>5. PathsAt(t)'
    BY <1>4 DEF PathsAt, ParentAt, TargetAt, SlotAt, Placing, Upgrading, Slotted, Removing
  <1>6. QED
    BY <1>3, <1>5

LEMMA UnregisterMaps ==
  ASSUME MapsInv, NEW t \in Thread, Unregister(t)
  PROVE  MapsInv'
  <1>1. TreeInv /\ NoClash /\ IdsOK /\ NodesOK /\ EntriesOK /\ PointsOK /\ CountersOK
    BY DEF MapsInv, MapsOK
  <1>2. OthersSame(t)
    BY <1>1, Locals DEF Unregister, Goto, OthersSame, Same, local
  <1>3. /\ pc[t] = "unregister" /\ pc[t] \in Removing
        /\ pc[t] \notin Made /\ pc[t] \notin Linked /\ pc[t] \notin Upgrading
    BY DEF Unregister, Removing, Upgrading, Made, Linked, Slotted
  <1>4. PICK n : n = ownId[t]
    OBVIOUS
  <1>5. /\ pc'[t] = "unlink" /\ pathMap' = pathMap /\ idToPath' = idToPath
        /\ op' = op /\ frames' = frames /\ held' = held /\ parentId' = parentId /\ ownId' = ownId
        /\ newId' = newId
        /\ points' = points \ {n} /\ nodes' = Without(nodes, n)
        /\ childCount' = Without(childCount, n)
    BY <1>1, <1>4, Locals DEF Unregister, Goto, local
  <1>6. /\ DOMAIN nodes' = DOMAIN nodes \ {n}
        /\ \A id \in DOMAIN nodes \ {n} : nodes'[id] = nodes[id]
        /\ DOMAIN childCount' = DOMAIN childCount \ {n}
        /\ \A id \in DOMAIN childCount \ {n} : childCount'[id] = childCount[id]
    BY <1>5 DEF Without
  <1>7. \A q \in Path : pathMap[q] # n
    BY <1>3, <1>4, RemovedOf
  <1>8. ASSUME NEW u \in Thread \ {t}
        PROVE  /\ pc[u] \in Slotted => newId[u] # n
               /\ pc[u] \in {"delete_forget", "unregister"} => ownId[u] # n
               /\ pc[u] \in Slotted /\ ~Stubbing(u) => parentId[u] # n
    BY <1>3, <1>4, ChosenNotRemoved, RemovedApart, ParentThere DEF Removing
  <1>9. NodesOK' /\ ChildrenOK' /\ \A u \in Thread \ {t} : NodesAt(u)'
    <2>1. \A id : Owns(t, id) => id = n
      BY <1>3, <1>4 DEF Owns
    <2>2. \A id, c : Lists(t, id, c) => Lists(t, id, c)'
      BY <1>3, <1>5 DEF Lists, Removing
    <2>3. QED
      BY <1>2, <1>5, <1>6, <1>7, <1>8, <2>1, <2>2, NodeDropped
  <1>10. IdsOK' /\ EntriesOK'
    <2>1. \A id : \A u \in Thread : Names(u, id) => Names(u, id)'
      BY <1>2, <1>3, SameClaims DEF OthersSame, Names
    <2>2. QED
      BY <1>1, <1>5, <2>1, IdsKept, EntriesKept
  <1>11. PointsOK'
    BY <1>1, <1>5, <1>6 DEF PointsOK
  <1>12. CountersOK'
    BY <1>1, <1>5, <1>6 DEF CountersOK, CounterAboveChildren
  <1>13. ThreadOK(t)'
    <2>1. CallAt(t)' /\ PathsAt(t)'
      BY <1>3, <1>5, DeleteGoesOn DEF Removing
    <2>2. QED
      BY <1>5, <2>1, NoneYet DEF ThreadOK, Slotted
  <1>14. ASSUME NEW u \in Thread \ {t} PROVE ThreadOK(u)'
    <2>1. CountedAt(u) /\ newId'[u] = newId[u] /\ parentId'[u] = parentId[u] /\ pc'[u] = pc[u]
      BY <1>2 DEF MapsInv, ThreadOK, OthersSame, Same
    <2>2. Stubbing(u)' = Stubbing(u)
      BY <1>5 DEF Stubbing
    <2>3. CountedAt(u)'
      BY <1>6, <1>8, <2>1, <2>2 DEF CountedAt
    <2>4. QED
      BY <1>2, <1>5, <1>9, <2>3, OthersOK
  <1>15. TreeInv' /\ NoClash'
    BY <1>1, <1>2, <1>3, <1>5, UnregisterStep, ClashKept
  <1>16. QED
    BY <1>9, <1>10, <1>11, <1>12, <1>13, <1>14, <1>15 DEF MapsInv, MapsOK

LEMMA UnlinkMaps ==
  ASSUME MapsInv, NEW t \in Thread, Unlink(t)
  PROVE  MapsInv'
  <1>1. /\ TreeInv /\ NoClash /\ IdsOK /\ NodesOK /\ EntriesOK /\ PointsOK /\ CountersOK
        /\ ChildrenOK
    BY DEF MapsInv, MapsOK
  <1>2. OthersSame(t)
    BY <1>1, Locals DEF Unlink, Answer, Goto, OthersSame, Same, local
  <1>3. /\ pc[t] = "unlink" /\ pc[t] \in Removing
        /\ pc[t] \notin Made /\ pc[t] \notin Linked /\ pc[t] \notin Upgrading
    BY DEF Unlink, Removing, Upgrading, Made, Linked, Slotted
  <1>4. PICK n, m : n = ownId[t] /\ m = parentId[t]
    OBVIOUS
  <1>5. /\ pc'[t] = "return" /\ op' = op
        /\ pathMap' = pathMap /\ idToPath' = idToPath /\ points' = points
        /\ childCount' = childCount
        /\ nodes' = IF m \in DOMAIN nodes
                    THEN [nodes EXCEPT ![m].children = nodes[m].children \ {n}] ELSE nodes
    BY <1>1, <1>4, Locals DEF Unlink, Answer, Goto, local
  <1>6. /\ DOMAIN nodes' = DOMAIN nodes
        /\ \A id \in DOMAIN nodes : nodes'[id].key = nodes[id].key
        /\ \A id \in DOMAIN nodes \ {m} : nodes'[id].children = nodes[id].children
        /\ m \in DOMAIN nodes => nodes'[m].children = nodes[m].children \ {n}
    <2>1. \A id \in DOMAIN nodes : nodes[id] \in Node
      BY <1>1 DEF TreeInv, TypeOK
    <2>2. CASE m \in DOMAIN nodes
      BY <1>5, <2>1, <2>2 DEF Node
    <2>3. CASE m \notin DOMAIN nodes
      BY <1>5, <2>3
    <2>4. QED
      BY <2>2, <2>3
  <1>7. \A id \in DOMAIN nodes : /\ nodes'[id].children \subseteq nodes[id].children
                                 /\ nodes[id].children \ {n} \subseteq nodes'[id].children
    BY <1>6
  <1>8. NodesOK' /\ \A u \in Thread \ {t} : NodesAt(u)'
    <2>1. \A id : Owns(t, id) => Owns(t, id)'
      BY <1>3 DEF Owns
    <2>2. ASSUME NEW u \in Thread \ {t}, ~Stubbing(u), pc[u] \in Linked
          PROVE  newId[u] \in nodes'[parentId[u]].children
      <3>1. pc[u] \in Slotted
        BY <2>2 DEF Linked, Made
      <3>2. parentId[u] \in DOMAIN nodes /\ NodesAt(u) /\ newId[u] # n
        BY <1>3, <1>4, <2>2, <3>1, ParentThere, ChosenNotRemoved DEF MapsInv, ThreadOK
      <3>3. QED
        BY <1>7, <2>2, <3>2 DEF NodesAt, ListedAt
    <2>3. QED
      BY <1>2, <1>5, <1>6, <2>1, <2>2, NodesChanged
  <1>9. IdsOK' /\ EntriesOK'
    <2>1. \A id : \A u \in Thread : Names(u, id) => Names(u, id)'
      BY <1>2, <1>3, SameClaims DEF OthersSame, Names
    <2>2. QED
      BY <1>1, <1>5, <2>1, IdsKept, EntriesKept
  <1>10. PointsOK' /\ CountersOK'
    BY <1>1, <1>5, <1>6, <1>7 DEF PointsOK, CountersOK, CounterAboveChildren
  <1>11. ChildrenOK'
    <2>1. ASSUME NEW q \in Mapped \ {Root}, ~is_stub(pathMap[q])
          PROVE  pathMap[q] \in nodes'[pathMap[parent_path(q)]].children
      <3>1. parent_path(q) \in Mapped
        BY <1>1, PathType DEF IdsOK, Mapped
      <3>2. pathMap[parent_path(q)] \in DOMAIN nodes
        BY <1>1, <3>1 DEF NodesOK, PublishedResolves
      <3>3. pathMap[q] # n
        BY <1>3, <1>4, RemovedOf DEF Mapped
      <3>4. QED
        BY <1>1, <1>7, <2>1, <3>2, <3>3 DEF ChildrenOK
    <2>2. ASSUME NEW id \in DOMAIN nodes', NEW c \in nodes'[id].children
          PROVE  /\ ~is_stub(c)
                 /\ \/ \E q \in Path \ {Root} : pathMap[q] = c /\ pathMap[parent_path(q)] = id
                    \/ \E u \in Thread : Lists(u, id, c)'
      <3>1. id \in DOMAIN nodes /\ c \in nodes[id].children
        BY <1>6, <1>7, <2>2
      <3>2. ~Lists(t, id, c)
        BY <1>3, <1>4, <1>6, <2>2, <3>1 DEF Lists
      <3>3. \A u \in Thread \ {t} : Lists(u, id, c)' = Lists(u, id, c)
        BY <1>2, SameClaims DEF OthersSame
      <3>4. QED
        BY <1>1, <3>1, <3>2, <3>3 DEF ChildrenOK
    <2>3. QED
      BY <1>5, <2>1, <2>2 DEF ChildrenOK, Mapped
  <1>12. ThreadOK(t)'
    BY <1>5, Answered
  <1>13. \A u \in Thread \ {t} : ThreadOK(u)'
    BY <1>2, <1>5, <1>8, OthersOK
  <1>14. TreeInv' /\ NoClash'
    BY <1>1, <1>2, <1>3, <1>5, UnlinkStep, ClashKept
  <1>15. QED
    BY <1>8, <1>9, <1>10, <1>11, <1>12, <1>13, <1>14 DEF MapsInv, MapsOK


-----------------------------------------------------------------------------
(* The choice of a slot *)

LEMMA FrontLast ==
  ASSUME NEW s \in Seq(Nat), NEW i \in Nat
  PROVE  Front(Append(s, i)) = s /\ Last(Append(s, i)) = i
  <1>1. PICK r \in Seq(Nat) : r = Append(s, i)
    BY AppendProperties
  <1>2. /\ Len(s) \in Nat /\ Len(r) = Len(s) + 1 /\ r[Len(s) + 1] = i
        /\ \A j \in 1 .. Len(s) : r[j] = s[j]
    BY <1>1, AppendProperties, LenProperties
  <1>3. PICK f \in Seq(Nat) : f = SubSeq(r, 1, Len(s))
    <2>1. \A j \in 1 .. Len(s) : r[j] \in Nat
      BY <1>2, ElementOfSeq
    <2>2. QED
      BY <1>2, <2>1, SubSeqProperties
  <1>4. /\ Len(f) = IF 1 <= Len(s) THEN Len(s) - 1 + 1 ELSE 0
        /\ \A j \in 1 .. Len(s) - 1 + 1 : f[j] = r[1 + j - 1]
    <2>1. \A j \in 1 .. Len(s) : r[j] \in Nat
      BY <1>2, ElementOfSeq
    <2>2. QED
      BY <1>2, <1>3, <2>1, SubSeqProperties
  <1>5. Len(f) = Len(s)
    BY <1>2, <1>4
  <1>6. ASSUME NEW j \in 1 .. Len(s) PROVE f[j] = s[j]
    <2>1. j \in 1 .. Len(s) - 1 + 1 /\ 1 + j - 1 = j
      BY <1>2
    <2>2. QED
      BY <1>2, <1>4, <2>1
  <1>7. f = s
    BY <1>5, <1>6, SeqEqual
  <1>8. Front(r) = f
    BY <1>2, <1>3 DEF Front
  <1>9. Last(r) = i
    BY <1>2 DEF Last
  <1>10. QED
    BY <1>1, <1>7, <1>8, <1>9

(* The parent that a call is about to place a child under.                 *)
LEMMA PlaceUnder ==
  ASSUME MapsInv, NEW t \in Thread, pc[t] = "place"
  PROVE  /\ ~Stubbing(t) /\ parentId[t] \in Id /\ ~is_stub(parentId[t]) /\ parentId[t] \in points
         /\ \A i \in Probes(t) :
              /\ i \in Nat /\ Slot(t, i) \in Id
              /\ Beyond(Slot(t, i), parentId[t], Len(Target(t))) /\ Last(Position(Slot(t, i))) = i
  <1>1. TreeInv /\ CallAt(t) /\ ParentAt(t) /\ NodesOK /\ PointsOK
    BY DEF MapsInv, MapsOK, ThreadOK, PathsAt
  <1>2. /\ op[t].kind \in Inserts \cup {"embed_existing"} /\ op[t].kind # "idle" /\ ~Stubbing(t)
        /\ pc[t] # "embed_check"
    BY <1>1, WorkingKind DEF Working, Placing
  <1>3. op[t].kind \in PlacedInserts \cup {"embed_existing"}
    BY <1>2 DEF Stubbing, Inserts, PlacedInserts
  <1>4. Target(t) \in Path \ {Root}
    BY <1>1, <1>2, Targets
  <1>5. ParentOf(t) \in Path
    BY <1>4, PathType DEF ParentOf
  <1>6. parentId[t] # Nil /\ ~is_stub(parentId[t]) /\ parentId[t] = pathMap[ParentOf(t)]
    BY <1>1, <1>2 DEF ParentAt, Placing
  <1>7. parentId[t] \in points /\ parentId[t] \in Id
    BY <1>1, <1>5, <1>6 DEF NodesOK, PublishedResolves, Mapped, PointsOK, TreeInv, Chosen
  <1>8. Position(parentId[t]) \in Seq(Nat)
    BY <1>6, <1>7, PositionType
  <1>9. ASSUME NEW i \in Probes(t)
        PROVE  /\ i \in Nat /\ Slot(t, i) \in Id
               /\ Beyond(Slot(t, i), parentId[t], Len(Target(t)))
               /\ Last(Position(Slot(t, i))) = i
    <2>1. i \in Nat /\ Slot(t, i) \in Id /\ ~is_stub(Slot(t, i))
      BY <1>1, <1>2, <1>3, SlotType DEF TreeInv
    <2>2. Slot(t, i) = EmbeddedId(Len(Target(t)), Append(Position(parentId[t]), i))
      BY <1>7 DEF Slot, Spot, Base
    <2>3. /\ Position(Slot(t, i)) = Append(Position(parentId[t]), i)
          /\ Slot(t, i)[2] = Len(Target(t))
      BY <2>2 DEF EmbeddedId, Position
    <2>4. /\ Front(Position(Slot(t, i))) = Position(parentId[t])
          /\ Last(Position(Slot(t, i))) = i
      BY <1>8, <2>1, <2>3, FrontLast
    <2>5. QED
      BY <2>1, <2>3, <2>4 DEF Beyond
  <1>10. QED
    BY <1>2, <1>6, <1>7, <1>9

(* The slot the probe loop ends at is nobody's.                            *)
LEMMA FreeChoice ==
  ASSUME MapsInv, NEW t \in Thread, pc[t] = "place", NEW i \in Probes(t),
         StopsAt(t, i), ~Unsafe(Spot(t, i))
  PROVE  Slot(t, i) \notin DOMAIN nodes /\ \A p \in Path : pathMap[p] # Slot(t, i)
  <1>1. PICK n : n = Slot(t, i)
    OBVIOUS
  <1>2. ~is_stub(n) /\ n \in Id /\ n # Nil
    BY <1>1, PlaceUnder, NilAssumption DEF Beyond
  <1>3. n \in DOMAIN nodes => nodes[n].key = Target(t)
    BY <1>1 DEF StopsAt, TakenByOther
  <1>4. n \notin DOMAIN nodes
    BY <1>2, <1>3, FreeSlot
  <1>5. \A p \in Path : pathMap[p] # n
    BY <1>2, <1>4 DEF MapsInv, MapsOK, NodesOK, PublishedResolves, Mapped
  <1>6. QED
    BY <1>1, <1>4, <1>5

(* The child that a node lists lies at an index.                           *)
LEMMA ChildIndex ==
  ASSUME MapsInv, NEW id \in DOMAIN nodes, NEW c \in nodes[id].children
  PROVE  Last(Position(c)) \in Nat
  <1>1. IdsOK /\ ChildrenOK /\ TreeInv
    BY DEF MapsInv, MapsOK
  <1>2. ~is_stub(c) /\ c # Nil
    BY <1>1, NilAssumption, NodeFacts DEF ChildrenOK, TreeInv, TypeOK
  <1>3. CASE \E q \in Path \ {Root} : pathMap[q] = c
    BY <1>1, <1>2, <1>3 DEF IdsOK, Mapped, Beyond
  <1>4. ASSUME NEW u \in Thread, Lists(u, id, c) PROVE Last(Position(c)) \in Nat
    <2>1. CASE pc[u] \in Linked /\ newId[u] = c
      <3>1. pc[u] \in Slotted
        BY <2>1 DEF Linked, Made
      <3>2. ~Stubbing(u)
        BY <1>2, <2>1, <3>1, SlotOf, StubIds
      <3>3. QED
        BY <2>1, <3>1, <3>2, SlotOf DEF Beyond
    <2>2. CASE pc[u] \in Removing /\ ownId[u] = c
      BY <1>2, <2>2, RemovedOf DEF Beyond
    <2>3. QED
      BY <1>4, <2>1, <2>2 DEF Lists
  <1>5. QED
    BY <1>1, <1>3, <1>4 DEF ChildrenOK

LEMMA PlaceMaps ==
  ASSUME MapsInv, NEW t \in Thread, Place(t)
  PROVE  MapsInv'
  <1>1. /\ TreeInv /\ NoClash /\ IdsOK /\ NodesOK /\ EntriesOK /\ PointsOK /\ CountersOK
        /\ ChildrenOK /\ CallAt(t) /\ PathsAt(t)
    BY DEF MapsInv, MapsOK, ThreadOK
  <1>2. OthersSame(t)
    BY <1>1, Locals DEF Place, Answer, Goto, OthersSame, Same
  <1>3. /\ pc[t] = "place" /\ op' = op /\ frames' = frames /\ held' = held
        /\ pathMap' = pathMap /\ idToPath' = idToPath /\ nodes' = nodes /\ points' = points
        /\ parentId' = parentId /\ ownId' = ownId
    BY DEF Place
  <1>4. TreeInv' /\ NoClash'
    BY <1>1, <1>2, <1>3, PlaceStep, ClashKept
  <1>5. CASE Answer(t, "failed") /\ UNCHANGED childCount
    <2>1. pc'[t] = "return"
      BY <1>1, <1>5, Locals DEF Answer, Goto
    <2>2. QED
      BY <1>2, <1>3, <1>4, <1>5, <2>1, Answered, QuietStep DEF shared, Slotted, Upgrading, Removing
  <1>6. ASSUME NEW i \in Probes(t), StopsAt(t, i), ~Unsafe(Spot(t, i)),
               newId' = [newId EXCEPT ![t] = Slot(t, i)],
               childCount' = Committed(parentId[t], i), Goto(t, "register")
        PROVE  MapsInv'
    <2>1. PICK n, m : n = Slot(t, i) /\ m = parentId[t]
      OBVIOUS
    <2>2. pc'[t] = "register" /\ newId'[t] = n /\ parentId'[t] = m
      BY <1>1, <1>3, <1>6, <2>1, Locals DEF Goto
    <2>3. /\ ~Stubbing(t) /\ m \in points /\ i \in Nat
          /\ Beyond(n, m, Len(Target(t))) /\ Last(Position(n)) = i
      BY <1>3, <2>1, PlaceUnder
    <2>4. n \notin DOMAIN nodes /\ \A p \in Path : pathMap[p] # n
      BY <1>3, <1>6, <2>1, FreeChoice
    <2>5. \A id \in DOMAIN childCount : childCount[id] \in Nat
      BY <1>1 DEF TreeInv, TypeOK
    <2>6. /\ DOMAIN childCount' = DOMAIN childCount \cup {m}
          /\ childCount'[m] \in Nat /\ i < childCount'[m]
          /\ \A id \in DOMAIN childCount : childCount[id] <= childCount'[id]
      <3>1. PICK k : /\ childCount' = Entry(childCount, m, k)
                     /\ k = IF m \in DOMAIN childCount /\ childCount[m] > i
                            THEN childCount[m] ELSE i + 1
        BY <1>6, <2>1 DEF Committed
      <3>2. k \in Nat /\ i < k /\ (m \in DOMAIN childCount => childCount[m] <= k)
        BY <2>3, <2>5, <3>1
      <3>3. QED
        BY <2>5, <3>1, <3>2 DEF Entry
    <2>7. \A id \in DOMAIN childCount' : childCount'[id] \in Nat
      BY <1>4 DEF TreeInv, TypeOK
    <2>8. \A x \in Nat : \A id \in DOMAIN childCount :
            x < childCount[id] => id \in DOMAIN childCount' /\ x < childCount'[id]
      BY <2>5, <2>6, <2>7
    <2>9. IdsOK' /\ NodesOK' /\ EntriesOK' /\ ChildrenOK' /\ PointsOK'
      <3>1. \A u \in Thread : /\ \A id : Owns(u, id) => Owns(u, id)'
                              /\ \A id : Names(u, id) => Names(u, id)'
                              /\ \A id, c : Lists(u, id, c) => Lists(u, id, c)'
        BY <1>2, <1>3, SameClaims
           DEF OthersSame, Owns, Names, Lists, Made, Linked, Slotted, Upgrading, Removing
      <3>2. QED
        BY <1>1, <1>3, <3>1, IdsKept, NodesKept, EntriesKept, ChildrenKept, PointsKept
    <2>10. CountersOK'
      <3>1. CounterAboveChildren'
        <4>1. ASSUME NEW id \in DOMAIN nodes, NEW c \in nodes[id].children
              PROVE  id \in DOMAIN childCount' /\ Last(Position(c)) < childCount'[id]
          BY <1>1, <2>8, ChildIndex DEF CountersOK, CounterAboveChildren
        <4>2. QED
          BY <1>3, <4>1 DEF CounterAboveChildren
      <3>2. QED
        BY <1>1, <1>3, <2>3, <2>6, <3>1 DEF CountersOK
    <2>11. ThreadOK(t)'
      <3>1. Target(t)' = Target(t) /\ ~Stubbing(t)' /\ ParentOf(t)' = ParentOf(t)
        BY <1>3, <2>3 DEF Target, Stubbing, ParentOf
      <3>2. CallAt(t)'
        BY <1>1, <1>3, <2>2, <2>3, <3>1 DEF CallAt, FramesAt, HoldsAt, UnderLock, Placing, Deleting,
           Removing, Upgrading
      <3>3. ParentAt(t)'
        BY <1>1, <1>3, <2>2, <2>3, <3>1 DEF PathsAt, ParentAt, Placing
      <3>4. TargetAt(t)'
        BY <1>1, <1>3, <2>2, <3>1 DEF PathsAt, TargetAt, Placing, Upgrading
      <3>5. SlotAt(t)' /\ DeleteAt(t)'
        BY <1>3, <2>1, <2>2, <2>3, <2>4, <3>1 DEF SlotAt, DeleteAt, Beyond, Deleting, Removing
      <3>6. NodesAt(t)'
        BY <1>3, <2>2, <2>4 DEF NodesAt, NodeAt, ListedAt, Linked, Made
      <3>7. CountedAt(t)' /\ EntryAt(t)'
        BY <2>2, <2>3, <2>6 DEF CountedAt, EntryAt
      <3>8. QED
        BY <3>2, <3>3, <3>4, <3>5, <3>6, <3>7 DEF ThreadOK, PathsAt
    <2>12. ASSUME NEW u \in Thread \ {t} PROVE ThreadOK(u)'
      <3>1. /\ CountedAt(u) /\ newId'[u] = newId[u] /\ parentId'[u] = parentId[u]
            /\ pc'[u] = pc[u] /\ Stubbing(u)' = Stubbing(u)
        BY <1>2, SameTarget DEF MapsInv, ThreadOK, OthersSame, Same
      <3>2. pc[u] \in Slotted /\ ~Stubbing(u) => Last(Position(newId[u])) \in Nat
        BY SlotOf DEF Beyond
      <3>3. CountedAt(u)'
        BY <2>8, <3>1, <3>2 DEF CountedAt
      <3>4. QED
        BY <1>2, <1>3, <3>3, OthersOK
    <2>13. QED
      BY <1>4, <2>9, <2>10, <2>11, <2>12 DEF MapsInv, MapsOK
  <1>7. QED
    BY <1>5, <1>6 DEF Place


-----------------------------------------------------------------------------
(* The reverse map *)

(* The id a call has chosen is no path's before it publishes it.           *)
LEMMA ChosenUnmapped ==
  ASSUME MapsInv, NEW t \in Thread, pc[t] \in Slotted, NEW p \in Path
  PROVE  pathMap[p] # newId[t]
  <1>1. IdsOK /\ TargetAt(t) /\ SlotAt(t)
    BY DEF MapsInv, MapsOK, ThreadOK, PathsAt
  <1>2. CASE ~Stubbing(t)
    BY <1>1, <1>2 DEF SlotAt
  <1>3. CASE Stubbing(t)
    <2>1. newId[t] = StubId(Target(t)) /\ Target(t) \in Path
      BY <1>3, SlotOf
    <2>2. pathMap[Target(t)] = Nil
      BY <1>1, <1>3 DEF TargetAt, Stubbing, Inserts, Slotted, Placing
    <2>3. QED
      BY <1>1, <2>1, <2>2, StubIds DEF IdsOK
  <1>4. QED
    BY <1>2, <1>3

(* Nor is the one it retires after that.                                   *)
LEMMA RetiredUnmapped ==
  ASSUME MapsInv, NEW t \in Thread, pc[t] \in Upgrading, NEW p \in Path
  PROVE  pathMap[p] # ownId[t]
  BY RetiredOf, StubIds DEF MapsInv, MapsOK, IdsOK

LEMMA RecordPathMaps ==
  ASSUME MapsInv, NEW t \in Thread, RecordPath(t)
  PROVE  MapsInv'
  <1>1. /\ TreeInv /\ NoClash /\ IdsOK /\ NodesOK /\ EntriesOK /\ PointsOK /\ CountersOK
        /\ ChildrenOK /\ NodesAt(t) /\ CountedAt(t)
    BY DEF MapsInv, MapsOK, ThreadOK
  <1>2. OthersSame(t)
    BY <1>1, Locals DEF RecordPath, Goto, OthersSame, Same, local
  <1>3. pc[t] = "record_path" /\ pc[t] \in Slotted /\ pc[t] \in Made /\ pc[t] \in Linked
    BY DEF RecordPath, Slotted, Made, Linked
  <1>4. PICK n : n = newId[t]
    OBVIOUS
  <1>5. /\ pc'[t] = "publish" /\ op' = op /\ frames' = frames
        /\ held' = held /\ newId' = newId /\ parentId' = parentId /\ ownId' = ownId
        /\ pathMap' = pathMap /\ nodes' = nodes /\ points' = points /\ childCount' = childCount
        /\ idToPath' = Entry(idToPath, n, Target(t))
    BY <1>1, <1>4, Locals DEF RecordPath, Goto, local
  <1>6. pc'[t] \in Slotted /\ pc'[t] \in Made /\ pc'[t] \in Linked
    BY <1>5 DEF Slotted, Made, Linked
  <1>7. /\ DOMAIN idToPath' = DOMAIN idToPath \cup {n} /\ idToPath'[n] = Target(t)
        /\ \A id \in DOMAIN idToPath \ {n} : idToPath'[id] = idToPath[id]
    BY <1>5 DEF Entry
  <1>8. \A u \in Thread : /\ \A id : Owns(u, id) => Owns(u, id)'
                          /\ \A id : Names(u, id) => Names(u, id)'
                          /\ \A id, c : Lists(u, id, c) => Lists(u, id, c)'
    BY <1>2, <1>3, <1>5, <1>6, SameClaims
       DEF OthersSame, Owns, Names, Lists, Upgrading, Removing
  <1>9. IdsOK' /\ NodesOK' /\ ChildrenOK' /\ CountersOK' /\ PointsOK'
    BY <1>1, <1>5, <1>8, IdsKept, NodesKept, CountersKept, ChildrenKept, PointsKept
  <1>10. EntriesOK'
    <2>1. ASSUME NEW p \in Mapped
          PROVE  pathMap[p] \in DOMAIN idToPath' /\ idToPath'[pathMap[p]] = p
      <3>1. p \in Path /\ pathMap[p] # n
        BY <1>3, <1>4, ChosenUnmapped DEF Mapped
      <3>2. QED
        BY <1>1, <1>7, <3>1 DEF EntriesOK
    <2>2. ASSUME NEW id \in DOMAIN idToPath'
          PROVE  (\E p \in Path : pathMap[p] = id) \/ (\E u \in Thread : Names(u, id)')
      <3>1. CASE id = n
        BY <1>4, <1>5, <3>1 DEF Names
      <3>2. CASE id # n
        BY <1>1, <1>7, <1>8, <3>2 DEF EntriesOK
      <3>3. QED
        BY <3>1, <3>2
    <2>3. QED
      BY <1>5, <2>1, <2>2 DEF EntriesOK, Mapped
  <1>11. ThreadOK(t)'
    <2>1. CallAt(t)' /\ PathsAt(t)' /\ Target(t)' = Target(t) /\ Stubbing(t)' = Stubbing(t)
      BY <1>3, <1>5, <1>6, GoesOn
    <2>2. NodesAt(t)' /\ CountedAt(t)'
      BY <1>1, <1>3, <1>5, <1>6, <2>1 DEF NodesAt, NodeAt, ListedAt, CountedAt
    <2>3. EntryAt(t)'
      BY <1>4, <1>5, <1>7, <2>1 DEF EntryAt
    <2>4. QED
      BY <2>1, <2>2, <2>3 DEF ThreadOK
  <1>12. ASSUME NEW u \in Thread \ {t} PROVE ThreadOK(u)'
    <2>1. /\ EntryAt(u) /\ newId'[u] = newId[u] /\ pc'[u] = pc[u] /\ Target(u)' = Target(u)
      BY <1>2, SameTarget DEF MapsInv, ThreadOK, OthersSame, Same
    <2>2. pc[u] = "publish" => newId[u] # n
      BY <1>3, <1>4, ChoicesApart DEF Slotted
    <2>3. EntryAt(u)'
      BY <1>7, <2>1, <2>2 DEF EntryAt
    <2>4. QED
      BY <1>2, <1>5, <2>3, OthersOK
  <1>13. TreeInv' /\ NoClash'
    BY <1>1, <1>2, <1>3, <1>5, RecordPathStep, ClashKept
  <1>14. QED
    BY <1>9, <1>10, <1>11, <1>12, <1>13 DEF MapsInv, MapsOK

(* An entry goes that is no path's and no other call's.                    *)
LEMMA EntryDropped ==
  ASSUME MapsInv, NEW t \in Thread, OthersSame(t), pathMap' = pathMap, NEW n,
         idToPath' = Without(idToPath, n), \A p \in Path : pathMap[p] # n,
         \A u \in Thread \ {t} : pc[u] = "publish" => newId[u] # n,
         \A id : Names(t, id) => id = n
  PROVE  EntriesOK' /\ \A u \in Thread \ {t} : EntryAt(u)'
  <1>1. EntriesOK
    BY DEF MapsInv, MapsOK
  <1>2. /\ DOMAIN idToPath' = DOMAIN idToPath \ {n}
        /\ \A id \in DOMAIN idToPath \ {n} : idToPath'[id] = idToPath[id]
    BY DEF Without
  <1>3. EntriesOK'
    <2>1. \A p \in Mapped : pathMap[p] \in DOMAIN idToPath' /\ idToPath'[pathMap[p]] = p
      BY <1>1, <1>2 DEF EntriesOK, Mapped
    <2>2. ASSUME NEW id \in DOMAIN idToPath'
          PROVE  (\E p \in Path : pathMap[p] = id) \/ (\E u \in Thread : Names(u, id)')
      <3>1. id \in DOMAIN idToPath /\ ~Names(t, id)
        BY <1>2
      <3>2. \A u \in Thread \ {t} : Names(u, id)' = Names(u, id)
        BY SameClaims DEF OthersSame
      <3>3. QED
        BY <1>1, <3>1, <3>2 DEF EntriesOK
    <2>3. QED
      BY <2>1, <2>2 DEF EntriesOK, Mapped
  <1>4. ASSUME NEW u \in Thread \ {t} PROVE EntryAt(u)'
    <2>1. /\ EntryAt(u) /\ newId'[u] = newId[u] /\ pc'[u] = pc[u] /\ Target(u)' = Target(u)
      BY SameTarget DEF MapsInv, ThreadOK, OthersSame, Same
    <2>2. QED
      BY <1>2, <2>1 DEF EntryAt
  <1>5. QED
    BY <1>3, <1>4

LEMMA ForgetMaps ==
  ASSUME MapsInv, NEW t \in Thread, Forget(t)
  PROVE  MapsInv'
  <1>1. /\ TreeInv /\ NoClash /\ IdsOK /\ NodesOK /\ PointsOK /\ CountersOK /\ ChildrenOK
        /\ CallAt(t) /\ PathsAt(t)
    BY DEF MapsInv, MapsOK, ThreadOK, PathsAt
  <1>2. OthersSame(t)
    BY <1>1, Locals DEF Forget, Goto, OthersSame, Same, local
  <1>3. /\ pc[t] = "forget" /\ pc[t] \in Upgrading /\ op[t].kind = "embed_existing"
        /\ pc[t] \notin Made /\ pc[t] \notin Linked
    BY <1>1 DEF Forget, Upgrading, TreeInv, Calls, Made, Linked, Slotted
  <1>4. /\ pc'[t] = "retire" /\ op' = op /\ frames' = frames
        /\ held' = held /\ newId' = newId /\ parentId' = parentId /\ ownId' = ownId
        /\ pathMap' = pathMap /\ nodes' = nodes /\ points' = points /\ childCount' = childCount
        /\ idToPath' = Without(idToPath, ownId[t])
    BY <1>1, Locals DEF Forget, Goto, local
  <1>5. \A u \in Thread : /\ \A id : Owns(u, id) => Owns(u, id)'
                          /\ \A id, c : Lists(u, id, c) => Lists(u, id, c)'
    BY <1>2, <1>3, <1>4, SameClaims DEF OthersSame, Owns, Lists, Upgrading, Removing
  <1>6. IdsOK' /\ NodesOK' /\ ChildrenOK' /\ CountersOK' /\ PointsOK'
    BY <1>1, <1>4, <1>5, IdsKept, NodesKept, CountersKept, ChildrenKept, PointsKept
  <1>7. EntriesOK' /\ \A u \in Thread \ {t} : EntryAt(u)'
    <2>1. \A p \in Path : pathMap[p] # ownId[t]
      BY <1>3, RetiredUnmapped
    <2>2. \A u \in Thread \ {t} : pc[u] = "publish" => newId[u] # ownId[t]
      BY <1>3, ChosenNotRetired DEF Slotted
    <2>3. \A id : Names(t, id) => id = ownId[t]
      BY <1>3 DEF Names
    <2>4. QED
      BY <1>2, <1>4, <2>1, <2>2, <2>3, EntryDropped
  <1>8. ThreadOK(t)'
    <2>1. /\ Target(t)' = Target(t) /\ ParentOf(t)' = ParentOf(t) /\ ~Stubbing(t) /\ ~Stubbing(t)'
          /\ op[t].kind \notin Inserts
      BY <1>3, <1>4 DEF Target, ParentOf, Stubbing, Inserts
    <2>2. CallAt(t)'
      BY <1>1, <1>3, <1>4, <2>1 DEF CallAt, FramesAt, HoldsAt, UnderLock, Placing, Deleting, Removing,
         Upgrading
    <2>3. ParentAt(t)'
      BY <1>1, <1>3, <1>4, <2>1 DEF PathsAt, ParentAt, Placing, Upgrading
    <2>4. TargetAt(t)'
      BY <1>1, <1>3, <1>4, <2>1 DEF PathsAt, TargetAt, Placing, Upgrading
    <2>5. SlotAt(t)' /\ DeleteAt(t)'
      BY <1>4 DEF SlotAt, DeleteAt, Slotted, Deleting, Removing
    <2>6. QED
      BY <1>4, <2>2, <2>3, <2>4, <2>5, NoneYet DEF ThreadOK, PathsAt, Slotted
  <1>9. \A u \in Thread \ {t} : ThreadOK(u)'
    BY <1>2, <1>4, <1>7, OthersOK
  <1>10. TreeInv' /\ NoClash'
    BY <1>1, <1>2, <1>3, <1>4, ForgetStep, ClashKept
  <1>11. QED
    BY <1>6, <1>7, <1>8, <1>9, <1>10 DEF MapsInv, MapsOK

LEMMA DeleteForgetMaps ==
  ASSUME MapsInv, NEW t \in Thread, DeleteForget(t)
  PROVE  MapsInv'
  <1>1. /\ TreeInv /\ NoClash /\ IdsOK /\ NodesOK /\ PointsOK /\ CountersOK /\ ChildrenOK
        /\ NodesAt(t)
    BY DEF MapsInv, MapsOK, ThreadOK
  <1>2. OthersSame(t)
    BY <1>1, Locals DEF DeleteForget, Goto, OthersSame, Same, local
  <1>3. /\ pc[t] = "delete_forget" /\ pc[t] \in Removing
        /\ pc[t] \notin Made /\ pc[t] \notin Linked
    BY DEF DeleteForget, Removing, Made, Linked, Slotted
  <1>4. /\ pc'[t] = "unregister" /\ op' = op /\ frames' = frames
        /\ held' = held /\ newId' = newId /\ parentId' = parentId /\ ownId' = ownId
        /\ pathMap' = pathMap /\ nodes' = nodes /\ points' = points /\ childCount' = childCount
        /\ idToPath' = Without(idToPath, ownId[t])
    BY <1>1, Locals DEF DeleteForget, Goto, local
  <1>5. \A u \in Thread : /\ \A id : Owns(u, id) => Owns(u, id)'
                          /\ \A id, c : Lists(u, id, c) => Lists(u, id, c)'
    BY <1>2, <1>3, <1>4, SameClaims DEF OthersSame, Owns, Lists, Removing
  <1>6. IdsOK' /\ NodesOK' /\ ChildrenOK' /\ CountersOK' /\ PointsOK'
    BY <1>1, <1>4, <1>5, IdsKept, NodesKept, CountersKept, ChildrenKept, PointsKept
  <1>7. EntriesOK' /\ \A u \in Thread \ {t} : EntryAt(u)'
    <2>1. \A p \in Path : pathMap[p] # ownId[t]
      BY <1>3, RemovedOf
    <2>2. \A u \in Thread \ {t} : pc[u] = "publish" => newId[u] # ownId[t]
      BY <1>3, ChosenNotRemoved DEF Slotted
    <2>3. \A id : Names(t, id) => id = ownId[t]
      BY <1>3 DEF Names
    <2>4. QED
      BY <1>2, <1>4, <2>1, <2>2, <2>3, EntryDropped
  <1>8. ThreadOK(t)'
    <2>1. CallAt(t)' /\ PathsAt(t)'
      BY <1>3, <1>4, DeleteGoesOn DEF Removing
    <2>2. NodesAt(t)' /\ CountedAt(t)' /\ EntryAt(t)'
      BY <1>1, <1>3, <1>4 DEF NodesAt, NodeAt, ListedAt, CountedAt, EntryAt, Slotted, Made, Linked
    <2>3. QED
      BY <2>1, <2>2 DEF ThreadOK
  <1>9. \A u \in Thread \ {t} : ThreadOK(u)'
    BY <1>2, <1>4, <1>7, OthersOK
  <1>10. TreeInv' /\ NoClash'
    BY <1>1, <1>2, <1>3, <1>4, DeleteForgetStep, ClashKept
  <1>11. QED
    BY <1>6, <1>7, <1>8, <1>9, <1>10 DEF MapsInv, MapsOK


-----------------------------------------------------------------------------
(* A path gets a new id *)

(* What a call that publishes knows: the path had no id with a position,   *)
(* and the new id is a node of it, with its entry and its place in a list. *)
LEMMA Publishes ==
  ASSUME MapsInv, NEW t \in Thread, pc[t] = "publish"
  PROVE  /\ Target(t) \in Path \ {Root} /\ parent_path(Target(t)) \in Path
         /\ parent_path(Target(t)) # Target(t)
         /\ pathMap[Target(t)] = Nil \/ is_stub(pathMap[Target(t)])
         /\ \/ op[t].kind \in Inserts /\ pathMap[Target(t)] = Nil
            \/ op[t].kind = "embed_existing" /\ pathMap[Target(t)] = ownId[t]
                 /\ ownId[t] = StubId(Target(t)) /\ ~Stubbing(t)
         /\ newId[t] \in Id /\ newId[t] # Nil /\ \A q \in Path : pathMap[q] # newId[t]
         /\ newId[t] \in DOMAIN nodes /\ nodes[newId[t]].key = Target(t)
         /\ newId[t] \in DOMAIN idToPath /\ idToPath[newId[t]] = Target(t)
         /\ Stubbing(t) => /\ newId[t] = StubId(Target(t)) /\ op[t].path = Target(t)
                           /\ pathMap[parent_path(Target(t))] # Nil
         /\ ~Stubbing(t) =>
              /\ parentId[t] # Nil /\ ~is_stub(parentId[t]) /\ parentId[t] \in held[t]
              /\ parentId[t] = pathMap[parent_path(Target(t))]
              /\ Beyond(newId[t], parentId[t], Len(Target(t)))
              /\ newId[t] \in nodes[parentId[t]].children
  <1>1. /\ TreeInv /\ ParentAt(t) /\ TargetAt(t) /\ NodeAt(t) /\ ListedAt(t) /\ EntryAt(t)
    BY DEF MapsInv, ThreadOK, PathsAt, NodesAt
  <1>2. pc[t] \in Slotted /\ pc[t] \in Made /\ pc[t] \in Linked /\ pc[t] \in Placing
        /\ pc[t] \in Working
    BY DEF Slotted, Made, Linked, Placing, Working
  <1>3. Target(t) \in Path \ {Root} /\ newId[t] \in Id /\ newId[t] # Nil
    BY <1>2, SlotOf, NilAssumption
  <1>4. parent_path(Target(t)) \in Path /\ parent_path(Target(t)) # Target(t)
    BY <1>3, PrefixSelf, PrefixParent
  <1>5. op[t].kind \in Inserts \cup {"embed_existing"}
    BY <1>1, <1>2, WorkingKind
  <1>6. \/ op[t].kind \in Inserts /\ pathMap[Target(t)] = Nil
        \/ op[t].kind = "embed_existing" /\ pathMap[Target(t)] = ownId[t]
             /\ ownId[t] = StubId(Target(t)) /\ ~Stubbing(t)
    BY <1>1, <1>2, <1>5 DEF TargetAt, Stubbing
  <1>7. pathMap[Target(t)] = Nil \/ is_stub(pathMap[Target(t)])
    BY <1>3, <1>6, StubIds
  <1>8. \A q \in Path : pathMap[q] # newId[t]
    BY <1>2, ChosenUnmapped
  <1>9. /\ newId[t] \in DOMAIN nodes /\ nodes[newId[t]].key = Target(t)
        /\ newId[t] \in DOMAIN idToPath /\ idToPath[newId[t]] = Target(t)
    BY <1>1, <1>2 DEF NodeAt, EntryAt
  <1>10. Stubbing(t) => /\ newId[t] = StubId(Target(t)) /\ op[t].path = Target(t)
                        /\ pathMap[parent_path(Target(t))] # Nil
    BY <1>1, <1>2, SlotOf DEF ParentAt, ParentOf
  <1>11. ~Stubbing(t) =>
              /\ parentId[t] # Nil /\ ~is_stub(parentId[t]) /\ parentId[t] \in held[t]
              /\ parentId[t] = pathMap[parent_path(Target(t))]
              /\ Beyond(newId[t], parentId[t], Len(Target(t)))
              /\ newId[t] \in nodes[parentId[t]].children
    BY <1>1, <1>2, SlotOf DEF ListedAt, ParentOf
  <1>12. QED
    BY <1>3, <1>4, <1>6, <1>7, <1>8, <1>9, <1>10, <1>11

(* The other calls see the path change only where they expect it.          *)
LEMMA PublishSeen ==
  ASSUME MapsInv, NEW t \in Thread, pc[t] = "publish", OthersSame(t),
         pathMap' = [pathMap EXCEPT ![Target(t)] = newId[t]], NEW u \in Thread \ {t}
  PROVE  PathsAt(u)'
  <1>1. /\ TreeInv /\ NoClash /\ IdsOK /\ CallAt(u) /\ CallAt(t)
        /\ ParentAt(u) /\ TargetAt(u) /\ SlotAt(u) /\ DeleteAt(u) /\ Same(u)
    BY DEF MapsInv, MapsOK, ThreadOK, PathsAt, OthersSame
  <1>2. PICK p \in Path \ {Root}, n \in Id : p = Target(t) /\ n = newId[t]
    BY Publishes
  <1>3. /\ pathMap'[p] = n /\ n # Nil /\ \A q \in Path \ {p} : pathMap'[q] = pathMap[q]
        /\ pathMap[p] = Nil \/ is_stub(pathMap[p])
    BY <1>1, <1>2, Publishes DEF TreeInv, TypeOK
  <1>4. /\ Target(u)' = Target(u) /\ ParentOf(u)' = ParentOf(u) /\ Stubbing(u)' = Stubbing(u)
    BY <1>1, SameTarget
  <1>5. pc[u] \in Working =>
          /\ Target(u) \in Path /\ ParentOf(u) \in Path
          /\ pc[u] # "embed_check" => Target(u) # Root
    BY <1>1, WorkingKind, Targets, ParentPath DEF ParentOf
  <1>6. pc[t] \in Acting /\ pc[t] \in Slotted /\ pc[t] \in Working
    BY DEF Acting, Slotted, Placing, Working
  <1>7. ParentAt(u)'
    <2>1. ASSUME op[u].kind \in PlacedInserts, pc[u] \in {"check", "resolve"}, ParentOf(u) = p
          PROVE  ~is_stub(n)
      <3>1. SUFFICES ASSUME Stubbing(t) PROVE FALSE
        BY <1>2, Publishes DEF Beyond
      <3>2. Target(u) = op[u].path /\ Target(u) \in Path \ {Root}
        BY <1>5, <2>1 DEF Target, PlacedInserts, Working
      <3>3. Below(p, op[u].path)
        BY <2>1, <3>2, PrefixSelf, PrefixParent DEF Below, ParentOf
      <3>4. op[t].path = p
        BY <1>2, <3>1, Publishes
      <3>5. QED
        BY <1>1, <2>1, <3>1, <3>3, <3>4, Apart DEF Stubbing
    <2>2. ASSUME ~Stubbing(u),
                 pc[u] \in {"lock", "recheck", "embed_lock", "embed_recheck", "snapshot"}
                             \cup Placing \cup Upgrading
          PROVE  ParentOf(u) # p
      BY <1>1, <1>3, <2>2 DEF ParentAt
    <2>3. pc[u] \in {"check", "resolve", "lock", "recheck", "store_stub", "record_path", "publish",
                     "embed_lock", "embed_recheck", "snapshot"} \cup Placing \cup Upgrading
            => pc[u] \in Working
      BY DEF Working, Placing
    <2>4. (op[u].kind \in PlacedInserts /\ pc[u] \in {"check", "resolve"} =>
             ~is_stub(pathMap[ParentOf(u)]))'
      BY <1>1, <1>3, <1>4, <1>5, <2>1, <2>3 DEF Same, ParentAt
    <2>5. (Stubbing(u) /\ pc[u] \in {"lock", "recheck", "store_stub", "record_path", "publish"} =>
             pathMap[ParentOf(u)] # Nil)'
      BY <1>1, <1>3, <1>4, <1>5, <2>3 DEF Same, ParentAt
    <2>6. (~Stubbing(u) /\ pc[u] \in {"lock", "recheck", "embed_lock", "embed_recheck", "snapshot"}
                                        \cup Placing \cup Upgrading =>
             parentId[u] # Nil /\ ~is_stub(parentId[u]) /\ parentId[u] = pathMap[ParentOf(u)])'
      BY <1>1, <1>3, <1>4, <1>5, <2>2, <2>3 DEF Same, ParentAt
    <2>7. QED
      BY <2>4, <2>5, <2>6 DEF ParentAt
  <1>8. TargetAt(u)'
    <2>1. ASSUME pc[u] \in Placing \cup {"store_stub", "snapshot"} \cup Upgrading
          PROVE  Target(u) \in Path \ {p}
      BY <1>2, <1>5, <1>6, <2>1, TargetsApart DEF Acting, Working
    <2>2. QED
      BY <1>1, <1>3, <1>4, <2>1 DEF Same, TargetAt
  <1>9. SlotAt(u)'
    <2>1. pc[u] \in Slotted => newId[u] # n
      BY <1>2, <1>6, ChoicesApart
    <2>2. QED
      BY <1>1, <1>3, <1>4, <2>1 DEF Same, SlotAt
  <1>10. DeleteAt(u)'
    <2>1. CASE pc[u] \notin Deleting
      BY <1>1, <2>1 DEF Same, DeleteAt, Deleting, Removing
    <2>2. CASE pc[u] \in Deleting
      <3>1. PICK d \in Path \ {Root} : d = op[u].path
        BY <1>1, <2>2, DeletePath
      <3>2. d # p /\ d # parent_path(p) /\ parent_path(d) \in Path
        BY <1>2, <1>6, <2>2, <3>1, DeleteAlone, PathType DEF ParentOf
      <3>3. pathMap'[d] = pathMap[d]
        BY <1>3, <3>2
      <3>4. \A q \in Path \ {Root} : parent_path(q) = d => pathMap'[q] = pathMap[q]
        BY <1>3, <3>2
      <3>5. pathMap[parent_path(d)] # Nil /\ ~is_stub(pathMap[parent_path(d)]) =>
              pathMap'[parent_path(d)] = pathMap[parent_path(d)]
        BY <1>3, <3>2
      <3>6. pathMap[d] # Nil /\ ~is_stub(pathMap[d]) =>
              pathMap[parent_path(d)] # Nil /\ ~is_stub(pathMap[parent_path(d)])
        BY <1>1, <3>1 DEF IdsOK, Mapped
      <3>7. pc[u] \in Removing => ownId[u] # n
        BY <1>2, <1>6, ChosenNotRemoved
      <3>8. pc[u] \in Removing => \A q \in Path : pathMap'[q] # ownId[u]
        BY <1>1, <1>3, <3>7 DEF DeleteAt
      <3>9. QED
        BY <1>1, <3>1, <3>3, <3>4, <3>5, <3>6, <3>8 DEF Same, DeleteAt
    <2>3. QED
      BY <2>1, <2>2
  <1>11. QED
    BY <1>7, <1>8, <1>9, <1>10 DEF PathsAt

LEMMA PublishMaps ==
  ASSUME MapsInv, NEW t \in Thread, Publish(t)
  PROVE  MapsInv'
  <1>1. /\ TreeInv /\ NoClash /\ IdsOK /\ NodesOK /\ EntriesOK /\ PointsOK /\ CountersOK
        /\ ChildrenOK /\ CallAt(t)
    BY DEF MapsInv, MapsOK, ThreadOK
  <1>2. OthersSame(t)
    BY <1>1, Locals DEF Publish, Answer, Goto, OthersSame, Same, local
  <1>3. pc[t] = "publish" /\ pc[t] \in Made /\ pc[t] \in Linked /\ pc[t] \in UnderLock
    BY DEF Publish, Slotted, Made, Linked, UnderLock, Placing
  <1>4. PICK p \in Path \ {Root}, n \in Id : p = Target(t) /\ n = newId[t]
    BY <1>3, Publishes
  <1>5. /\ op' = op /\ frames' = frames
        /\ held' = held /\ newId' = newId /\ parentId' = parentId /\ ownId' = ownId
        /\ nodes' = nodes /\ points' = points /\ childCount' = childCount /\ idToPath' = idToPath
        /\ pathMap' = [pathMap EXCEPT ![p] = n]
    BY <1>4 DEF Publish, local
  <1>6. \/ op[t].kind = "embed_existing" /\ pc'[t] = "forget"
        \/ op[t].kind # "embed_existing" /\ pc'[t] = "return"
    BY <1>1, Locals DEF Publish, Answer, Goto
  <1>7. /\ pathMap'[p] = n /\ n # Nil /\ \A q \in Path \ {p} : pathMap'[q] = pathMap[q]
        /\ pathMap[p] = Nil \/ is_stub(pathMap[p])
        /\ parent_path(p) \in Path \ {p}
        /\ is_stub(n) => n = StubId(p)
        /\ pathMap[parent_path(p)] # Nil
        /\ ~is_stub(n) =>
             /\ ~Stubbing(t) /\ parentId[t] = pathMap[parent_path(p)] /\ ~is_stub(parentId[t])
             /\ Beyond(n, parentId[t], Len(p)) /\ n \in nodes[parentId[t]].children
    BY <1>1, <1>3, <1>4, <1>5, Publishes, StubIds DEF TreeInv, TypeOK, Beyond
  <1>8. ASSUME NEW q \in Mapped \ {Root}, q # p
        PROVE  /\ pathMap'[parent_path(q)] # Nil
               /\ ~is_stub(pathMap[q]) => pathMap'[parent_path(q)] = pathMap[parent_path(q)]
    <2>1. parent_path(q) \in Path
      BY PathType DEF Mapped
    <2>2. /\ pathMap[parent_path(q)] # Nil
          /\ ~is_stub(pathMap[q]) => ~is_stub(pathMap[parent_path(q)])
      BY <1>1 DEF IdsOK
    <2>3. QED
      BY <1>7, <2>1, <2>2
  <1>9. \A q \in Path : pathMap'[q] # Nil => q = p \/ q \in Mapped
    BY <1>7 DEF Mapped
  <1>10. IdsOK'
    <2>1. (pathMap[Root] = EmbeddedId(0, <<>>))'
      BY <1>1, <1>7, PathType DEF IdsOK
    <2>2. \A q \in Path : is_stub(pathMap'[q]) => pathMap'[q] = StubId(q)
      BY <1>1, <1>7 DEF IdsOK
    <2>3. ASSUME NEW q \in Path \ {Root}, pathMap'[q] # Nil
          PROVE  /\ pathMap'[parent_path(q)] # Nil
                 /\ ~is_stub(pathMap'[q]) =>
                      /\ ~is_stub(pathMap'[parent_path(q)])
                      /\ Beyond(pathMap'[q], pathMap'[parent_path(q)], Len(q))
      <3>1. CASE q = p
        BY <1>7, <3>1
      <3>2. CASE q # p
        BY <1>1, <1>7, <1>8, <1>9, <2>3, <3>2 DEF IdsOK
      <3>3. QED
        BY <3>1, <3>2
    <2>4. QED
      BY <2>1, <2>2, <2>3 DEF IdsOK, Mapped, Beyond
  <1>11. ASSUME NEW q \in Path, NEW id, id # Nil, pathMap[q] = id
         PROVE  \/ \E r \in Path : pathMap'[r] = id
                \/ op[t].kind = "embed_existing" /\ pc'[t] = "forget" /\ ownId[t] = id
    <2>1. CASE q # p
      BY <1>7, <1>11, <2>1
    <2>2. CASE q = p
      BY <1>3, <1>4, <1>6, <1>11, <2>2, Publishes DEF Inserts
    <2>3. QED
      BY <2>1, <2>2
  <1>12. NodesOK'
    <2>1. PublishedResolves'
      BY <1>1, <1>3, <1>4, <1>5, <1>7, Publishes DEF NodesOK, PublishedResolves, Mapped
    <2>2. ASSUME NEW id \in DOMAIN nodes
          PROVE  (\E q \in Path : pathMap'[q] = id) \/ (\E u \in Thread : Owns(u, id)')
      <3>1. id # Nil
        BY <1>1, NilAssumption DEF TreeInv, TypeOK
      <3>2. CASE \E q \in Path : pathMap[q] = id
        BY <1>5, <1>11, <3>1, <3>2 DEF Owns, Upgrading
      <3>3. ASSUME NEW u \in Thread \ {t}, Owns(u, id) PROVE Owns(u, id)'
        BY <1>2, <3>3, SameClaims DEF OthersSame
      <3>4. CASE Owns(t, id)
        <4>1. id = n
          BY <1>3, <1>4, <3>4 DEF Owns, Upgrading
        <4>2. QED
          BY <1>7, <4>1
      <3>5. QED
        BY <1>1, <3>2, <3>3, <3>4 DEF NodesOK
    <2>3. QED
      BY <1>5, <2>1, <2>2 DEF NodesOK
  <1>13. EntriesOK'
    <2>1. ASSUME NEW q \in Path, pathMap'[q] # Nil
          PROVE  pathMap'[q] \in DOMAIN idToPath /\ idToPath[pathMap'[q]] = q
      BY <1>1, <1>3, <1>4, <1>7, <2>1, Publishes DEF EntriesOK, Mapped
    <2>2. ASSUME NEW id \in DOMAIN idToPath
          PROVE  (\E q \in Path : pathMap'[q] = id) \/ (\E u \in Thread : Names(u, id)')
      <3>1. id # Nil
        BY <1>1, NilAssumption DEF TreeInv, TypeOK
      <3>2. CASE \E q \in Path : pathMap[q] = id
        BY <1>5, <1>11, <3>1, <3>2 DEF Names
      <3>3. ASSUME NEW u \in Thread \ {t}, Names(u, id) PROVE Names(u, id)'
        BY <1>2, <3>3, SameClaims DEF OthersSame
      <3>4. CASE Names(t, id)
        <4>1. id = n
          BY <1>3, <1>4, <3>4 DEF Names
        <4>2. QED
          BY <1>7, <4>1
      <3>5. QED
        BY <1>1, <3>2, <3>3, <3>4 DEF EntriesOK
    <2>3. QED
      BY <1>5, <2>1, <2>2 DEF EntriesOK, Mapped
  <1>14. PointsOK' /\ CountersOK'
    BY <1>1, <1>5, PointsKept, CountersKept
  <1>15. ChildrenOK'
    <2>1. ASSUME NEW q \in Path \ {Root}, pathMap'[q] # Nil, ~is_stub(pathMap'[q])
          PROVE  pathMap'[q] \in nodes[pathMap'[parent_path(q)]].children
      <3>1. CASE q = p
        BY <1>7, <2>1, <3>1
      <3>2. CASE q # p
        <4>1. q \in Mapped \ {Root} /\ pathMap'[q] = pathMap[q]
          BY <1>7, <1>9, <2>1, <3>2
        <4>2. pathMap'[parent_path(q)] = pathMap[parent_path(q)]
          BY <1>8, <2>1, <3>2, <4>1
        <4>3. QED
          BY <1>1, <2>1, <4>1, <4>2 DEF ChildrenOK
      <3>3. QED
        BY <3>1, <3>2
    <2>2. ASSUME NEW id \in DOMAIN nodes, NEW c \in nodes[id].children
          PROVE  /\ ~is_stub(c)
                 /\ \/ \E q \in Path \ {Root} : pathMap'[q] = c /\ pathMap'[parent_path(q)] = id
                    \/ \E u \in Thread : Lists(u, id, c)'
      <3>1. ~is_stub(c) /\ c # Nil
        BY <1>1, NilAssumption, NodeFacts DEF ChildrenOK, TreeInv, TypeOK
      <3>2. ASSUME NEW q \in Path \ {Root}, pathMap[q] = c, pathMap[parent_path(q)] = id
            PROVE  pathMap'[q] = c /\ pathMap'[parent_path(q)] = id
        <4>1. q # p /\ q \in Mapped
          BY <1>7, <3>1, <3>2 DEF Mapped
        <4>2. QED
          BY <1>7, <1>8, <3>1, <3>2, <4>1
      <3>3. ASSUME NEW u \in Thread \ {t}, Lists(u, id, c) PROVE Lists(u, id, c)'
        BY <1>2, <3>3, SameClaims DEF OthersSame
      <3>4. ASSUME Lists(t, id, c)
            PROVE  \E q \in Path \ {Root} : pathMap'[q] = c /\ pathMap'[parent_path(q)] = id
        <4>1. c = n /\ id = parentId[t]
          BY <1>3, <1>4, <3>4 DEF Lists, Removing
        <4>2. pathMap'[p] = c /\ pathMap'[parent_path(p)] = id
          BY <1>7, <3>1, <4>1
        <4>3. QED
          BY <4>2
      <3>5. QED
        BY <1>1, <3>1, <3>2, <3>3, <3>4 DEF ChildrenOK
    <2>3. QED
      BY <1>5, <2>1, <2>2 DEF ChildrenOK, Mapped
  <1>16. ThreadOK(t)'
    <2>1. CASE pc'[t] = "return"
      BY <2>1, Answered
    <2>2. CASE op[t].kind = "embed_existing" /\ pc'[t] = "forget"
      <3>1. /\ Target(t)' = p /\ ParentOf(t)' = parent_path(p) /\ ~Stubbing(t) /\ ~Stubbing(t)'
            /\ op[t].kind \notin Inserts
        BY <1>4, <1>5, <2>2 DEF Target, ParentOf, Stubbing, Inserts
      <3>2. CallAt(t)'
        BY <1>1, <1>3, <1>5, <2>2, <3>1 DEF CallAt, FramesAt, HoldsAt, UnderLock, Placing, Deleting,
           Removing
      <3>3. /\ parentId[t] # Nil /\ ~is_stub(parentId[t]) /\ parentId[t] = pathMap[parent_path(p)]
            /\ ownId[t] = StubId(p) /\ ~is_stub(n)
        BY <1>3, <1>4, <2>2, <3>1, Publishes DEF Beyond
      <3>4. ParentAt(t)'
        BY <1>5, <1>7, <2>2, <3>1, <3>3 DEF ParentAt
      <3>5. TargetAt(t)'
        BY <1>4, <1>5, <1>7, <2>2, <3>1, <3>3 DEF TargetAt, Placing, Upgrading
      <3>6. SlotAt(t)' /\ DeleteAt(t)'
        BY <2>2 DEF SlotAt, DeleteAt, Slotted, Deleting, Removing
      <3>7. QED
        BY <2>2, <3>2, <3>4, <3>5, <3>6, NoneYet DEF ThreadOK, PathsAt, Slotted
    <2>3. QED
      BY <1>6, <2>1, <2>2
  <1>17. \A u \in Thread \ {t} : ThreadOK(u)'
    BY <1>2, <1>3, <1>4, <1>5, PublishSeen, OthersOK
  <1>18. TreeInv' /\ NoClash'
    BY <1>1, <1>2, <1>3, <1>5, PublishStep, ClashKept
  <1>19. QED
    BY <1>10, <1>12, <1>13, <1>14, <1>15, <1>16, <1>17, <1>18 DEF MapsInv, MapsOK


-----------------------------------------------------------------------------
(* A path goes *)

(* What a delete that is about to unmap its path knows.                    *)
LEMMA Unmaps ==
  ASSUME MapsInv, NEW t \in Thread, pc[t] = "unmap"
  PROVE  /\ op[t].path \in Path \ {Root} /\ op[t].kind = "delete"
         /\ parent_path(op[t].path) \in Path /\ parent_path(op[t].path) # op[t].path
         /\ ownId[t] # Nil /\ ownId[t] \in Id
         /\ ownId[t] = pathMap[op[t].path] /\ ownId[t] \in held[t]
         /\ ~is_stub(ownId[t]) => parentId[t] = pathMap[parent_path(op[t].path)]
         /\ DeleteKeys(t) \subseteq held[t]
         /\ \A q \in Path \ {Root} : parent_path(q) = op[t].path => pathMap[q] = Nil
  <1>1. TreeInv /\ CallAt(t) /\ DeleteAt(t)
    BY DEF MapsInv, ThreadOK, PathsAt
  <1>2. op[t].kind = "delete" /\ op[t].path \in Path \ {Root}
    BY <1>1, DeletePath DEF Deleting
  <1>3. parent_path(op[t].path) \in Path /\ parent_path(op[t].path) # op[t].path
    BY <1>2, PrefixSelf, PrefixParent
  <1>4. /\ ownId[t] # Nil /\ ownId[t] = pathMap[op[t].path]
        /\ ~is_stub(ownId[t]) => parentId[t] = pathMap[parent_path(op[t].path)]
        /\ \A q \in Path \ {Root} : parent_path(q) = op[t].path => pathMap[q] = Nil
    BY <1>1 DEF DeleteAt
  <1>5. DeleteKeys(t) \subseteq held[t] /\ ownId[t] \in held[t]
    BY <1>1, <1>4 DEF CallAt, HoldsAt, DeleteKeys
  <1>6. ownId[t] \in Id
    BY <1>1, <1>2, <1>4, PathIds
  <1>7. QED
    BY <1>2, <1>3, <1>4, <1>5, <1>6

(* The other calls see the path go only where they expect it.              *)
LEMMA UnmapSeen ==
  ASSUME MapsInv, NEW t \in Thread, pc[t] = "unmap", OthersSame(t),
         pathMap' = [pathMap EXCEPT ![op[t].path] = Nil], NEW u \in Thread \ {t}
  PROVE  PathsAt(u)'
  <1>1. /\ TreeInv /\ IdsOK /\ CallAt(u)
        /\ ParentAt(u) /\ TargetAt(u) /\ SlotAt(u) /\ DeleteAt(u) /\ Same(u)
    BY DEF MapsInv, MapsOK, ThreadOK, PathsAt, OthersSame
  <1>2. PICK p \in Path \ {Root} : p = op[t].path
    BY Unmaps
  <1>3. pathMap'[p] = Nil /\ \A q \in Path \ {p} : pathMap'[q] = pathMap[q]
    BY <1>1, <1>2 DEF TreeInv, TypeOK
  <1>4. /\ Target(u)' = Target(u) /\ ParentOf(u)' = ParentOf(u) /\ Stubbing(u)' = Stubbing(u)
    BY <1>1, SameTarget
  <1>5. held[t] \cap held[u] = {}
    BY <1>1 DEF TreeInv, Guards, Stripes!Exclusive
  <1>6. pc[u] \in Working \ {"embed_check"} => Target(u) \in Path \ {p} /\ ParentOf(u) \in Path \ {p}
    <2>1. SUFFICES ASSUME pc[u] \in Working \ {"embed_check"}
                   PROVE  Target(u) \in Path \ {p} /\ ParentOf(u) \in Path \ {p}
      OBVIOUS
    <2>2. Target(u) \in Path \ {Root} /\ ParentOf(u) \in Path
      BY <1>1, <2>1, WorkingKind, Targets, ParentPath DEF ParentOf
    <2>3. QED
      BY <1>2, <2>1, <2>2, DeleteAlone DEF Deleting
  <1>7. ParentAt(u)'
    <2>1. CASE pc[u] \in Working \ {"embed_check"}
      BY <1>1, <1>3, <1>4, <1>6, <2>1 DEF Same, ParentAt
    <2>2. CASE pc[u] \notin Working \ {"embed_check"}
      BY <1>1, <2>2 DEF Same, ParentAt, Working, Placing, Upgrading
    <2>3. QED
      BY <2>1, <2>2
  <1>8. TargetAt(u)'
    <2>1. CASE pc[u] \in Working \ {"embed_check"}
      BY <1>1, <1>3, <1>4, <1>6, <2>1 DEF Same, TargetAt
    <2>2. CASE pc[u] \notin Working \ {"embed_check"}
      BY <1>1, <2>2 DEF Same, TargetAt, Working, Placing, Upgrading
    <2>3. QED
      BY <2>1, <2>2
  <1>9. SlotAt(u)'
    <2>1. pc[u] \in Slotted => newId[u] # Nil
      BY SlotOf, NilAssumption
    <2>2. QED
      BY <1>1, <1>3, <1>4, <2>1 DEF Same, SlotAt
  <1>10. DeleteAt(u)'
    <2>1. CASE pc[u] \notin Deleting
      BY <1>1, <2>1 DEF Same, DeleteAt, Deleting, Removing
    <2>2. CASE pc[u] \in Deleting
      <3>1. PICK d \in Path \ {Root} : d = op[u].path
        BY <1>1, <2>2, DeletePath
      <3>2. parent_path(d) \in Path
        BY <3>1, PathType
      <3>3. \A q \in Path : ~is_stub(pathMap[q]) => ~is_stub(pathMap'[q])
        BY <1>3, StubIds
      <3>4. \A q \in Path : pathMap[q] = Nil => pathMap'[q] = Nil
        BY <1>3
      <3>5. pathMap'[d] # Nil => /\ d # p /\ pathMap'[d] = pathMap[d]
                                 /\ pathMap'[parent_path(d)] = pathMap[parent_path(d)]
        BY <1>2, <1>3, <3>1, <3>2, Unmaps
      <3>6. pc[u] = "unmap" => d # p
        BY <1>2, <1>5, <3>1, Unmaps
      <3>7. ASSUME pc[u] \in Removing, ~is_stub(ownId[u])
            PROVE  pathMap'[parent_path(d)] = pathMap[parent_path(d)]
        <4>1. parentId[u] \in held[u] /\ parentId[u] = pathMap[parent_path(d)]
          BY <3>1, <3>7, RemovedOf
        <4>2. parent_path(d) # p
          BY <1>2, <1>5, <4>1, Unmaps
        <4>3. QED
          BY <1>3, <3>2, <4>2
      <3>8. pc[u] \in Removing => \A q \in Path : pathMap'[q] # ownId[u]
        BY <1>1, <1>3 DEF DeleteAt
      <3>9. (pc[u] \in Deleting \ Removing =>
               \A q \in Path \ {Root} : parent_path(q) = d => ~is_stub(pathMap[q]))'
        BY <1>1, <3>1, <3>3 DEF Same, DeleteAt
      <3>10. (pc[u] \in {"delete_parent", "delete_lock", "delete_check", "unmap"} =>
                ownId[u] # Nil /\ pathMap[d] \in {ownId[u], Nil})'
        BY <1>1, <3>1, <3>5 DEF Same, DeleteAt
      <3>11. (pc[u] \in {"delete_lock", "delete_check", "unmap"} =>
                (pathMap[d] # Nil /\ ~is_stub(pathMap[d]) => parentId[u] = pathMap[parent_path(d)]))'
        BY <1>1, <3>1, <3>5 DEF Same, DeleteAt
      <3>12. (pc[u] = "unmap" =>
                pathMap[d] # Nil /\ \A q \in Path \ {Root} : parent_path(q) = d => pathMap[q] = Nil)'
        BY <1>1, <1>3, <3>1, <3>4, <3>6 DEF Same, DeleteAt
      <3>13. (pc[u] \in Removing =>
                /\ ownId[u] # Nil /\ \A q \in Path : pathMap[q] # ownId[u]
                /\ is_stub(ownId[u]) => ownId[u] = StubId(d)
                /\ ~is_stub(ownId[u]) =>
                     /\ parentId[u] # Nil /\ ~is_stub(parentId[u])
                     /\ parentId[u] = pathMap[parent_path(d)]
                     /\ Beyond(ownId[u], parentId[u], Len(d)))'
        BY <1>1, <3>1, <3>7, <3>8 DEF Same, DeleteAt, Beyond
      <3>14. op'[u].path = d
        BY <1>1, <3>1 DEF Same
      <3>15. QED
        BY <3>9, <3>10, <3>11, <3>12, <3>13, <3>14 DEF DeleteAt
    <2>3. QED
      BY <2>1, <2>2
  <1>11. QED
    BY <1>7, <1>8, <1>9, <1>10 DEF PathsAt

LEMMA UnmapMaps ==
  ASSUME MapsInv, NEW t \in Thread, Unmap(t)
  PROVE  MapsInv'
  <1>1. /\ TreeInv /\ NoClash /\ IdsOK /\ NodesOK /\ EntriesOK /\ PointsOK /\ CountersOK
        /\ ChildrenOK /\ CallAt(t)
    BY DEF MapsInv, MapsOK, ThreadOK
  <1>2. pc[t] = "unmap" /\ pc[t] \notin Made /\ pc[t] \notin Linked
    BY DEF Unmap, Slotted, Made, Linked
  <1>3. PICK p \in Path \ {Root}, n \in Id : p = op[t].path /\ n = ownId[t]
    BY <1>2, Unmaps
  <1>4. /\ n # Nil /\ pathMap[p] = n /\ parent_path(p) \in Path \ {p} /\ op[t].kind = "delete"
        /\ ~is_stub(n) => parentId[t] = pathMap[parent_path(p)]
        /\ DeleteKeys(t) \subseteq held[t]
        /\ \A q \in Path \ {Root} : parent_path(q) = p => pathMap[q] = Nil
    BY <1>2, <1>3, Unmaps
  <1>5. OthersSame(t)
    BY <1>1, Locals DEF Unmap, Answer, Goto, OthersSame, Same
  <1>6. /\ op' = op /\ frames' = frames
        /\ held' = held /\ newId' = newId /\ parentId' = parentId
        /\ nodes' = nodes /\ points' = points /\ childCount' = childCount /\ idToPath' = idToPath
        /\ pathMap' = [pathMap EXCEPT ![p] = Nil]
    BY <1>3 DEF Unmap
  <1>7. pc'[t] = "delete_forget" /\ ownId'[t] = n
    BY <1>1, <1>3, <1>4, Locals DEF Unmap, Answer, Goto
  <1>8. pathMap'[p] = Nil /\ \A q \in Path \ {p} : pathMap'[q] = pathMap[q]
    BY <1>1, <1>6 DEF TreeInv, TypeOK
  <1>9. ASSUME NEW q \in Path \ {Root}, pathMap'[q] # Nil
        PROVE  /\ q \in Mapped \ {Root} /\ q # p /\ pathMap'[q] = pathMap[q]
               /\ pathMap'[parent_path(q)] = pathMap[parent_path(q)]
    <2>1. q # p /\ pathMap'[q] = pathMap[q]
      BY <1>8, <1>9
    <2>2. parent_path(q) \in Path /\ parent_path(q) # p
      BY <1>4, <1>9, <2>1, PathType
    <2>3. QED
      BY <1>8, <1>9, <2>1, <2>2 DEF Mapped
  <1>10. \A q \in Path : pathMap'[q] # Nil => q \in Mapped /\ pathMap'[q] = pathMap[q]
    BY <1>8 DEF Mapped
  <1>11. IdsOK'
    <2>1. (pathMap[Root] = EmbeddedId(0, <<>>))'
      BY <1>1, <1>8, PathType DEF IdsOK
    <2>2. \A q \in Path : is_stub(pathMap'[q]) => pathMap'[q] = StubId(q)
      BY <1>1, <1>8, StubIds DEF IdsOK
    <2>3. \A q \in Path \ {Root} : pathMap'[q] # Nil =>
            /\ pathMap'[parent_path(q)] # Nil
            /\ ~is_stub(pathMap'[q]) =>
                 /\ ~is_stub(pathMap'[parent_path(q)])
                 /\ Beyond(pathMap'[q], pathMap'[parent_path(q)], Len(q))
      BY <1>1, <1>9 DEF IdsOK
    <2>4. QED
      BY <2>1, <2>2, <2>3 DEF IdsOK, Mapped, Beyond
  <1>12. ASSUME NEW q \in Path, NEW id, pathMap[q] = id
         PROVE  (\E r \in Path : pathMap'[r] = id) \/ id = n
    BY <1>4, <1>8, <1>12
  <1>13. NodesOK'
    <2>1. PublishedResolves'
      BY <1>1, <1>6, <1>10 DEF NodesOK, PublishedResolves, Mapped
    <2>2. ASSUME NEW id \in DOMAIN nodes
          PROVE  (\E q \in Path : pathMap'[q] = id) \/ (\E u \in Thread : Owns(u, id)')
      <3>1. CASE \E q \in Path : pathMap[q] = id
        BY <1>7, <1>12, <3>1 DEF Owns
      <3>2. ASSUME NEW u \in Thread \ {t}, Owns(u, id) PROVE Owns(u, id)'
        BY <1>5, <3>2, SameClaims DEF OthersSame
      <3>3. ~Owns(t, id)
        BY <1>2 DEF Owns, Upgrading
      <3>4. QED
        BY <1>1, <3>1, <3>2, <3>3 DEF NodesOK
    <2>3. QED
      BY <1>6, <2>1, <2>2 DEF NodesOK
  <1>14. EntriesOK'
    <2>1. \A q \in Path : pathMap'[q] # Nil =>
            pathMap'[q] \in DOMAIN idToPath /\ idToPath[pathMap'[q]] = q
      BY <1>1, <1>10 DEF EntriesOK
    <2>2. ASSUME NEW id \in DOMAIN idToPath
          PROVE  (\E q \in Path : pathMap'[q] = id) \/ (\E u \in Thread : Names(u, id)')
      <3>1. CASE \E q \in Path : pathMap[q] = id
        BY <1>7, <1>12, <3>1 DEF Names
      <3>2. ASSUME NEW u \in Thread \ {t}, Names(u, id) PROVE Names(u, id)'
        BY <1>5, <3>2, SameClaims DEF OthersSame
      <3>3. ~Names(t, id)
        BY <1>2 DEF Names
      <3>4. QED
        BY <1>1, <3>1, <3>2, <3>3 DEF EntriesOK
    <2>3. QED
      BY <1>6, <2>1, <2>2 DEF EntriesOK, Mapped
  <1>15. PointsOK' /\ CountersOK'
    BY <1>1, <1>6, PointsKept, CountersKept
  <1>16. ChildrenOK'
    <2>1. \A q \in Path \ {Root} : pathMap'[q] # Nil /\ ~is_stub(pathMap'[q]) =>
            pathMap'[q] \in nodes[pathMap'[parent_path(q)]].children
      BY <1>1, <1>9 DEF ChildrenOK
    <2>2. ASSUME NEW id \in DOMAIN nodes, NEW c \in nodes[id].children
          PROVE  /\ ~is_stub(c)
                 /\ \/ \E q \in Path \ {Root} : pathMap'[q] = c /\ pathMap'[parent_path(q)] = id
                    \/ \E u \in Thread : Lists(u, id, c)'
      <3>1. ~is_stub(c) /\ c # Nil
        BY <1>1, NilAssumption, NodeFacts DEF ChildrenOK, TreeInv, TypeOK
      <3>2. ASSUME NEW q \in Path \ {Root}, pathMap[q] = c, pathMap[parent_path(q)] = id
            PROVE  (pathMap'[q] = c /\ pathMap'[parent_path(q)] = id) \/ Lists(t, id, c)'
        <4>1. CASE q # p
          BY <1>8, <1>9, <3>1, <3>2, <4>1
        <4>2. CASE q = p
          BY <1>4, <1>6, <1>7, <3>1, <3>2, <4>2 DEF Lists, Removing
        <4>3. QED
          BY <4>1, <4>2
      <3>3. ASSUME NEW u \in Thread \ {t}, Lists(u, id, c) PROVE Lists(u, id, c)'
        BY <1>5, <3>3, SameClaims DEF OthersSame
      <3>4. ~Lists(t, id, c)
        BY <1>2 DEF Lists, Removing
      <3>5. QED
        BY <1>1, <3>1, <3>2, <3>3, <3>4 DEF ChildrenOK
    <2>3. QED
      BY <1>6, <2>1, <2>2 DEF ChildrenOK, Mapped
  <1>17. ThreadOK(t)'
    <2>1. CallAt(t)'
      <3>1. DeleteKeys(t)' = DeleteKeys(t)
        BY <1>3, <1>6, <1>7 DEF DeleteKeys
      <3>2. QED
        BY <1>4, <1>6, <1>7, <3>1 DEF CallAt, FramesAt, HoldsAt, UnderLock, Placing, Upgrading
    <2>2. DeleteAt(t)'
      <3>1. \A q \in Path : pathMap'[q] # n
        BY <1>1, <1>4, <1>8, OnePath
      <3>2. is_stub(n) => n = StubId(p)
        BY <1>1, <1>4 DEF IdsOK
      <3>3. ~is_stub(n) => /\ parentId[t] # Nil /\ ~is_stub(parentId[t])
                           /\ parentId[t] = pathMap'[parent_path(p)]
                           /\ Beyond(n, parentId[t], Len(p))
        BY <1>1, <1>4, <1>8 DEF IdsOK, Mapped
      <3>4. QED
        BY <1>3, <1>4, <1>6, <1>7, <3>1, <3>2, <3>3 DEF DeleteAt, Deleting, Removing, Beyond
    <2>3. PathsAt(t)'
      BY <1>7, <2>2 DEF PathsAt, ParentAt, TargetAt, SlotAt, Placing, Upgrading, Slotted
    <2>4. NodesAt(t)'
      <3>1. n \in DOMAIN nodes /\ nodes[n].key = p
        BY <1>1, <1>4 DEF NodesOK, PublishedResolves, Mapped
      <3>2. QED
        BY <1>3, <1>6, <1>7, <3>1 DEF NodesAt, NodeAt, ListedAt, Made, Linked, Slotted
    <2>5. CountedAt(t)' /\ EntryAt(t)'
      BY <1>7 DEF CountedAt, EntryAt, Slotted
    <2>6. QED
      BY <2>1, <2>3, <2>4, <2>5 DEF ThreadOK
  <1>18. \A u \in Thread \ {t} : ThreadOK(u)'
    BY <1>2, <1>3, <1>5, <1>6, UnmapSeen, OthersOK
  <1>19. TreeInv' /\ NoClash'
    BY <1>1, <1>2, <1>5, <1>6, UnmapStep, ClashKept
  <1>20. QED
    BY <1>11, <1>13, <1>14, <1>15, <1>16, <1>17, <1>18, <1>19 DEF MapsInv, MapsOK


-----------------------------------------------------------------------------
(* The invariant *)

LEMMA InitMaps == Init => MapsInv
  <1> SUFFICES ASSUME Init PROVE MapsInv
    OBVIOUS
  <1>1. TreeInv
    BY InitTreeInv
  <1>2. PICK o : o = EmbeddedId(0, <<>>)
    OBVIOUS
  <1>3. o \in Id /\ ~is_stub(o) /\ o # Nil /\ Root \in Path
    BY <1>2, RootId, NilAssumption, PathAssumption
  <1>4. DOMAIN <<>> = {}
    BY EmptySeq
  <1>5. /\ pathMap = [p \in Path |-> IF p = Root THEN o ELSE Nil]
        /\ idToPath = Entry(<<>>, o, Root)
        /\ nodes = Entry(<<>>, o, NewNode(Root, NoArg))
        /\ points = {o} /\ childCount = <<>>
        /\ pc = [t \in Thread |-> "idle"] /\ op = [t \in Thread |-> Idle]
    BY <1>2 DEF Init
  <1>6. /\ DOMAIN idToPath = {o} /\ idToPath[o] = Root
        /\ DOMAIN nodes = {o} /\ nodes[o].key = Root /\ nodes[o].children = {}
    BY <1>4, <1>5 DEF Entry, NewNode
  <1>7. /\ pathMap[Root] = o /\ \A p \in Path \ {Root} : pathMap[p] = Nil
        /\ Mapped = {Root}
    BY <1>3, <1>5 DEF Mapped
  <1>8. IdsOK
    BY <1>2, <1>3, <1>7, StubIds DEF IdsOK
  <1>9. NodesOK /\ EntriesOK
    BY <1>3, <1>6, <1>7 DEF NodesOK, PublishedResolves, EntriesOK
  <1>10. PointsOK /\ CountersOK
    BY <1>3, <1>4, <1>5, <1>6 DEF PointsOK, CountersOK, CounterAboveChildren
  <1>11. ChildrenOK
    BY <1>6, <1>7 DEF ChildrenOK
  <1>12. NoClash
    BY <1>5 DEF NoClash
  <1>13. ASSUME NEW t \in Thread PROVE ThreadOK(t)
    <2>1. pc[t] = "idle" /\ op[t].kind = "idle"
      BY <1>5 DEF Idle
    <2>2. CallAt(t)
      BY <2>1 DEF CallAt, FramesAt, HoldsAt, Deleting, Removing, UnderLock, Placing, Upgrading
    <2>3. PathsAt(t)
      BY <2>1 DEF PathsAt, ParentAt, TargetAt, SlotAt, DeleteAt, Placing, Upgrading, Slotted,
         Deleting, Removing
    <2>4. NodesAt(t) /\ CountedAt(t) /\ EntryAt(t)
      BY <2>1 DEF NodesAt, NodeAt, ListedAt, CountedAt, EntryAt, Slotted, Made, Linked
    <2>5. QED
      BY <2>2, <2>3, <2>4 DEF ThreadOK
  <1>14. QED
    BY <1>1, <1>8, <1>9, <1>10, <1>11, <1>12, <1>13 DEF MapsInv, MapsOK

LEMMA MapsStutter == MapsInv /\ UNCHANGED vars => MapsInv'
  <1> SUFFICES ASSUME MapsInv, UNCHANGED vars PROVE MapsInv'
    OBVIOUS
  <1>1. /\ UNCHANGED <<pathMap, idToPath, nodes, points, childCount>>
        /\ \A u \in Thread : Same(u)
    BY DEF vars, shared, local, Same
  <1>2. TreeInv'
    BY TreeStutter DEF MapsInv
  <1>3. NoClash'
    BY <1>1 DEF MapsInv, NoClash, Same
  <1>4. ASSUME NEW u \in Thread PROVE ThreadOK(u)'
    BY <1>1, SameCall, SamePaths, SameNodes, SameCounts, SameEntries DEF MapsInv, ThreadOK
  <1>5. \A u \in Thread : /\ \A id : Owns(u, id) => Owns(u, id)'
                          /\ \A id : Names(u, id) => Names(u, id)'
                          /\ \A id, c : Lists(u, id, c) => Lists(u, id, c)'
    BY <1>1, SameClaims
  <1>6. MapsOK'
    BY <1>1, <1>5, IdsKept, NodesKept, EntriesKept, CountersKept, ChildrenKept, PointsKept
       DEF MapsInv, MapsOK
  <1>7. QED
    BY <1>2, <1>3, <1>4, <1>6 DEF MapsInv

(* Every step of every call keeps the invariant, if clients keep the rules. *)
LEMMA NextMaps == ASSUME MapRules \subseteq Discipline PROVE MapsInv /\ [Next]_vars => MapsInv'
  <1> SUFFICES ASSUME MapsInv, [Next]_vars PROVE MapsInv'
    OBVIOUS
  <1>1. CASE UNCHANGED vars
    BY <1>1, MapsStutter
  <1>2. ASSUME NEW t \in Thread, NEW o \in Request, Begin(t, o) PROVE MapsInv'
    BY <1>2, BeginMaps
  <1>3. ASSUME NEW t \in Thread, InsertStep(t) PROVE MapsInv'
    BY <1>3, CheckMaps, ResolveMaps, LockMaps, RecheckMaps, StoreStubMaps, PlaceMaps,
       RegisterMaps, LinkMaps, RecordPathMaps, PublishMaps DEF InsertStep
  <1>4. ASSUME NEW t \in Thread, EmbedStep(t) PROVE MapsInv'
    BY <1>4, EmbedCheckMaps, EmbedResolveMaps, EmbedLockMaps, EmbedRecheckMaps, SnapshotMaps,
       CopyCoordsMaps, ForgetMaps, RetireMaps DEF EmbedStep
  <1>5. ASSUME NEW t \in Thread, DeleteStep(t) PROVE MapsInv'
    BY <1>5, DeleteReadMaps, DeleteParentMaps, DeleteLockMaps, DeleteCheckMaps, UnmapMaps,
       DeleteForgetMaps, UnregisterMaps, UnlinkMaps DEF DeleteStep
  <1>6. ASSUME NEW t \in Thread, Write(t) \/ Read(t) \/ Return(t) PROVE MapsInv'
    BY <1>6, WriteMaps, ReadMaps, ReturnMaps
  <1>7. QED
    BY <1>1, <1>2, <1>3, <1>4, <1>5, <1>6 DEF Next

(* When clients keep the rules, the five maps and every call in progress   *)
(* agree on which nodes there are, whatever the interleaving: what is in   *)
(* the maps belongs to a path or to a call that is about to name it or     *)
(* take it away.                                                           *)
THEOREM MapsInvariant == ASSUME MapRules \subseteq Discipline PROVE Spec => []MapsInv
  <1>1. MapsInv /\ [Next]_vars => MapsInv'
    BY NextMaps
  <1>2. QED
    BY InitMaps, <1>1, PTL DEF Spec

-----------------------------------------------------------------------------
(* What follows for the properties of TreeTensor *)

(* Every path a client can see leads to a node of its own key.             *)
THEOREM PathsResolve == ASSUME MapRules \subseteq Discipline PROVE Spec => []PublishedResolves
  <1>1. MapsInv => PublishedResolves
    BY DEF MapsInv, MapsOK, NodesOK
  <1>2. Spec => []MapsInv
    BY MapsInvariant
  <1>3. QED
    BY <1>1, <1>2, PTL

(* What delete asks is answered right: a path with a position is found by   *)
(* list_children of its parent at every moment it is mapped.               *)
THEOREM ChildrenFound == ASSUME MapRules \subseteq Discipline PROVE Spec => []ChildrenListed
  <1>1. ASSUME MapsInv, NEW p \in Mapped \ {Root}, ~is_stub(pathMap[p]),
               parent_path(p) \in Mapped
        PROVE  pathMap[p] \in list_children(parent_path(p))
    <2>1. PublishedResolves /\ pathMap[p] \in nodes[pathMap[parent_path(p)]].children
      BY <1>1 DEF MapsInv, MapsOK, NodesOK, ChildrenOK
    <2>2. /\ pathMap[p] \in DOMAIN nodes /\ nodes[pathMap[p]].key = p /\ pathMap[p] # Nil
          /\ pathMap[parent_path(p)] \in DOMAIN nodes
      BY <1>1, <2>1 DEF PublishedResolves, Mapped
    <2>3. QED
      BY <2>1, <2>2 DEF list_children, children_of
  <1>2. MapsInv => ChildrenListed
    BY <1>1 DEF ChildrenListed
  <1>3. Spec => []MapsInv
    BY MapsInvariant
  <1>4. QED
    BY <1>2, <1>3, PTL

(* An embedded path lies one slot beyond an embedded parent, at the level  *)
(* of its depth: nothing is stacked on the centre for want of a position.  *)
THEOREM TreeShape == ASSUME MapRules \subseteq Discipline PROVE Spec => []GeometryFollowsTree
  <1>1. MapsInv => GeometryFollowsTree
    BY DEF MapsInv, MapsOK, IdsOK, GeometryFollowsTree, Beyond
  <1>2. Spec => []MapsInv
    BY MapsInvariant
  <1>3. QED
    BY <1>1, <1>2, PTL

(* A child counter lies above every child that is listed, also while calls *)
(* place, link and unlink children: the slot it offers is a fresh one.     *)
THEOREM CountersAbove == ASSUME MapRules \subseteq Discipline PROVE Spec => []CounterAboveChildren
  <1>1. MapsInv => CounterAboveChildren
    BY DEF MapsInv, MapsOK, CountersOK
  <1>2. Spec => []MapsInv
    BY MapsInvariant
  <1>3. QED
    BY <1>1, <1>2, PTL

(* At rest no call owns, names or lists anything.                          *)
LEMMA AtRest == MapsInv => QuiescentExact
  <1> SUFFICES ASSUME MapsInv, \A t \in Thread : pc[t] = "idle"
               PROVE  LET ids == {pathMap[p] : p \in Mapped}
                      IN  /\ DOMAIN idToPath = ids /\ \A p \in Mapped : idToPath[pathMap[p]] = p
                          /\ DOMAIN nodes = ids
                          /\ points = {id \in ids : ~is_stub(id)}
                          /\ DOMAIN childCount \subseteq ids
                          /\ \A p \in Mapped : nodes[pathMap[p]].children =
                               {pathMap[q] : q \in {q \in Mapped \ {Root} :
                                                    parent_path(q) = p /\ ~is_stub(pathMap[q])}}
                          /\ validate <=> \A p \in Mapped : ~is_stub(pathMap[p])
    BY DEF QuiescentExact
  <1>1. /\ TreeInv /\ IdsOK /\ NodesOK /\ EntriesOK /\ PointsOK /\ CountersOK /\ ChildrenOK
    BY DEF MapsInv, MapsOK
  <1>2. /\ \A t \in Thread : \A id : ~Owns(t, id) /\ ~Names(t, id)
        /\ \A t \in Thread : \A id, c : ~Lists(t, id, c)
    BY NoClaim DEF Slotted, Upgrading, Removing
  <1> DEFINE ids == {pathMap[p] : p \in Mapped}
  <1>3. DOMAIN nodes = ids
    <2>1. ids \subseteq DOMAIN nodes
      BY <1>1 DEF NodesOK, PublishedResolves
    <2>2. DOMAIN nodes \subseteq ids
      BY <1>1, <1>2, NilAssumption DEF NodesOK, TreeInv, TypeOK, Mapped
    <2>3. QED
      BY <2>1, <2>2
  <1>4. DOMAIN idToPath = ids /\ \A p \in Mapped : idToPath[pathMap[p]] = p
    <2>1. ids \subseteq DOMAIN idToPath /\ \A p \in Mapped : idToPath[pathMap[p]] = p
      BY <1>1 DEF EntriesOK
    <2>2. DOMAIN idToPath \subseteq ids
      BY <1>1, <1>2, NilAssumption DEF EntriesOK, TreeInv, TypeOK, Mapped
    <2>3. QED
      BY <2>1, <2>2
  <1>5. points = {id \in ids : ~is_stub(id)} /\ DOMAIN childCount \subseteq ids
    BY <1>1, <1>3 DEF PointsOK, CountersOK
  <1>6. ASSUME NEW p \in Mapped
        PROVE  nodes[pathMap[p]].children =
                 {pathMap[q] : q \in {q \in Mapped \ {Root} :
                                      parent_path(q) = p /\ ~is_stub(pathMap[q])}}
    <2>1. pathMap[p] \in DOMAIN nodes /\ pathMap[p] # Nil
      BY <1>3 DEF Mapped
    <2>2. ASSUME NEW c \in nodes[pathMap[p]].children
          PROVE  \E q \in Mapped \ {Root} :
                   parent_path(q) = p /\ ~is_stub(pathMap[q]) /\ pathMap[q] = c
      <3>1. PICK q \in Path \ {Root} : pathMap[q] = c /\ pathMap[parent_path(q)] = pathMap[p]
        BY <1>1, <1>2, <2>1 DEF ChildrenOK
      <3>2. ~is_stub(c) /\ c # Nil
        BY <1>1, <2>1, NilAssumption, NodeFacts DEF ChildrenOK, TreeInv, TypeOK
      <3>3. parent_path(q) = p
        BY <1>1, <2>1, <3>1, OnePath, PathType DEF Mapped
      <3>4. QED
        BY <3>1, <3>2, <3>3 DEF Mapped
    <2>3. ASSUME NEW q \in Mapped \ {Root}, parent_path(q) = p, ~is_stub(pathMap[q])
          PROVE  pathMap[q] \in nodes[pathMap[p]].children
      BY <1>1, <2>3 DEF ChildrenOK
    <2>4. QED
      BY <2>2, <2>3
  <1>7. validate <=> \A p \in Mapped : ~is_stub(pathMap[p])
    <2>1. Root \in Mapped /\ \A p \in Mapped \ {Root} : parent_path(p) \in Mapped
      <3>1. Root \in Mapped
        <4>1. pathMap[Root] \in Id
          BY <1>1, RootId DEF IdsOK
        <4>2. QED
          BY <4>1, PathAssumption, NilAssumption DEF Mapped
      <3>2. \A p \in Mapped \ {Root} : parent_path(p) \in Mapped
        BY <1>1, PathType DEF IdsOK, Mapped
      <3>3. QED
        BY <3>1, <3>2
    <2>2. \A id \in DOMAIN nodes : nodes[id].children \subseteq DOMAIN nodes
      BY <1>3, <1>6 DEF Mapped
    <2>3. \A id \in DOMAIN idToPath : pathMap[idToPath[id]] = id
      BY <1>4
    <2>4. points = DOMAIN nodes <=> \A p \in Mapped : ~is_stub(pathMap[p])
      BY <1>3, <1>5
    <2>5. pathMap[Root] \in DOMAIN nodes /\ DOMAIN childCount \subseteq DOMAIN nodes
      BY <1>3, <1>5, <2>1
    <2>6. \A p \in Mapped : pathMap[p] \in DOMAIN idToPath /\ idToPath[pathMap[p]] = p
      BY <1>4
    <2>7. QED
      BY <2>1, <2>2, <2>3, <2>4, <2>5, <2>6 DEF validate, validate_network
  <1>8. QED
    BY <1>3, <1>4, <1>5, <1>6, <1>7

(* When no call is in progress the maps say the same, and validate accepts *)
(* the tree if and only if it has no data-only node.                       *)
THEOREM RestIsExact == ASSUME MapRules \subseteq Discipline PROVE Spec => []QuiescentExact
  <1>1. Spec => []MapsInv
    BY MapsInvariant
  <1>2. QED
    BY <1>1, AtRest, PTL

(* While a path lives its id changes at most once, from data-only to       *)
(* embedded: a call that publishes an id finds none, or the data-only one. *)
THEOREM IdsUpgrade == ASSUME MapRules \subseteq Discipline PROVE Spec => IdsOnlyUpgrade
  <1> DEFINE Upgrade ==
        \A p \in Path : pathMap[p] # Nil /\ pathMap'[p] \notin {Nil, pathMap[p]} =>
          is_stub(pathMap[p]) /\ ~is_stub(pathMap'[p])
  <1>1. MapsInv /\ [Next]_vars => [Upgrade]_vars
    <2> SUFFICES ASSUME MapsInv, Next PROVE Upgrade
      OBVIOUS
    <2>1. pathMap \in [Path -> Optional(Id)]
      BY DEF MapsInv, TreeInv, TypeOK
    <2>2. CASE UNCHANGED pathMap
      BY <2>2
    <2>3. ASSUME NEW t \in Thread, Publish(t) PROVE Upgrade
      <3>1. pc[t] = "publish" /\ pathMap' = [pathMap EXCEPT ![Target(t)] = newId[t]]
        BY <2>3 DEF Publish
      <3>2. ASSUME NEW p \in Path, pathMap[p] # Nil, pathMap'[p] \notin {Nil, pathMap[p]}
            PROVE  is_stub(pathMap[p]) /\ ~is_stub(pathMap'[p])
        <4>1. p = Target(t) /\ pathMap'[p] = newId[t]
          BY <2>1, <3>1, <3>2
        <4>2. QED
          BY <3>1, <3>2, <4>1, Publishes DEF Beyond
      <3>3. QED
        BY <3>2
    <2>4. ASSUME NEW t \in Thread, Unmap(t) PROVE Upgrade
      BY <2>1, <2>4 DEF Unmap
    <2>5. (\E t \in Thread : Publish(t) \/ Unmap(t)) \/ UNCHANGED pathMap
      BY DEF Next, InsertStep, EmbedStep, DeleteStep, Begin, Return, Check, Resolve, Lock, Recheck,
         StoreStub, Place, Register, Link, RecordPath, EmbedCheck, EmbedResolve, EmbedLock,
         EmbedRecheck, Snapshot, CopyCoords, Forget, Retire, Write, Read, DeleteRead, DeleteParent,
         DeleteLock, DeleteCheck, DeleteForget, Unregister, Unlink, shared
    <2>6. QED
      BY <2>2, <2>3, <2>4, <2>5
  <1>2. Spec => []MapsInv
    BY MapsInvariant
  <1>3. Spec => [][Upgrade]_vars
    BY <1>1, <1>2, PTL DEF Spec
  <1>4. QED
    BY <1>3 DEF IdsOnlyUpgrade

==============================================================================
