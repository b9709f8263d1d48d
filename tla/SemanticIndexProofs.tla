------------------------ MODULE SemanticIndexProofs --------------------------
(***************************************************************************)
(* Proofs about SemanticIndex, for every number of threads, nodes and      *)
(* slices and for runs of any length.                                      *)
(***************************************************************************)
EXTENDS SemanticIndex, FiniteSetTheorems, WellFoundedInduction, TLAPS

(* tree T holds, for every node of S, a write no older than in tree U.     *)
Covers(T, U, S) == \A n \in S : U[n] <= T[n]

Walked(t) == Node \ todo[t]

(* A write is in the node map before it counts as returned.                *)
Stored ==
  /\ Covers(coords, committed, Node)
  /\ \A t \in Thread :
       /\ pc[t] \in {"mutate", "bump"} => arg[t] \in Node
       /\ pc[t] = "bump" => mine[t] <= coords[arg[t]]

(* A floor is what was committed at some earlier time.                     *)
Floors ==
  \A t \in Thread :
    /\ Covers(committed, floor[t], Node)
    /\ pc[t] \in {"load", "lookup", "preread", "walk"} => arg[t] \in Slice \cup {Disk}

(* A walk has seen what was committed when its query began, and while the  *)
(* epoch stands what is committed now.                                     *)
Walks ==
  \A t \in Thread :
    /\ pc[t] \in {"scan", "walk"} => Covers(snapshot[t], floor[t], Walked(t))
    /\ pc[t] = "walk" =>
         /\ seen[t] <= epoch
         /\ seen[t] = epoch => Covers(snapshot[t], committed, Walked(t))

(* The same of a tree in the cache.                                        *)
Tags ==
  \A s \in DOMAIN slices :
    /\ slices[s].epoch <= epoch
    /\ slices[s].epoch = epoch => Covers(slices[s].tree, committed, Node)

(* A query that has read an epoch may take any tree of that epoch: those   *)
(* in the cache and those that other queries are still to put there.       *)
Lookups ==
  \A t \in Thread : pc[t] = "lookup" =>
    /\ seen[t] <= epoch
    /\ \A s \in DOMAIN slices :
         slices[s].epoch = seen[t] => Covers(slices[s].tree, floor[t], Node)
    /\ \A u \in Thread : pc[u] = "walk" /\ seen[u] = seen[t] =>
         Covers(snapshot[u], floor[t], Walked(u))

Answers ==
  \A t \in Thread : pc[t] = "answered" => Covers(result[t], floor[t], Node)

(* The same of the disk's tree, for later queries and for those that have  *)
(* read its epoch.                                                         *)
DiskTag ==
  disk # None =>
    /\ disk.epoch <= epoch
    /\ disk.epoch = epoch => Covers(disk.tree, committed, Node)
    /\ \A t \in Thread : pc[t] = "lookup" /\ disk.epoch = seen[t] =>
         Covers(disk.tree, floor[t], Node)

(* The inductive invariant.                                                *)
CacheInv ==
  TypeOK /\ Stored /\ Floors /\ Walks /\ Tags /\ Lookups /\ Answers /\ DiskTag

-----------------------------------------------------------------------------

(* The larger of two numbers is a number, and is not below either.         *)
LEMMA LargerBounds ==
  ASSUME NEW a \in Nat, NEW b \in Nat
  PROVE  Larger(a, b) \in Nat /\ a <= Larger(a, b) /\ b <= Larger(a, b)
  BY DEF Larger

(* Covering a tree is reflexive and transitive.                            *)
LEMMA CoversSelf ==
  ASSUME NEW T \in Tree, NEW S \in SUBSET Node
  PROVE  Covers(T, T, S)
  BY DEF Covers, Tree

LEMMA CoversTransitive ==
  ASSUME NEW T \in Tree, NEW U \in Tree, NEW V \in Tree, NEW S \in SUBSET Node,
         NEW R \in SUBSET Node, Covers(T, U, S), Covers(U, V, R), S \subseteq R
  PROVE  Covers(T, V, S)
  BY DEF Covers, Tree

(* Nothing is written before time 0.                                       *)
LEMMA NoTreeType == NoTree \in Tree
  BY DEF NoTree, Tree

LEMMA CoversNoTree ==
  ASSUME NEW T \in Tree, NEW S \in SUBSET Node
  PROVE  Covers(T, NoTree, S)
  BY DEF Covers, Tree, NoTree

(* Eviction only takes entries away, and never the one for s.              *)
LEMMA EvictedKeeps ==
  ASSUME NEW cache, NEW s, s \in DOMAIN cache, cache = [x \in DOMAIN cache |-> cache[x]]
  PROVE  /\ DOMAIN Evicted(cache, s) \subseteq DOMAIN cache
         /\ \A x \in DOMAIN Evicted(cache, s) : Evicted(cache, s)[x] = cache[x]
  <1> DEFINE others == DOMAIN cache \ {s}
             Above(x) == {y \in others : y > x}
             kept == {x \in others : Cardinality(Above(x)) + 1 < MaxSlices} \cup {s}
  <1>1. kept \subseteq DOMAIN cache
    OBVIOUS
  <1>2. CASE Cardinality(DOMAIN cache) <= MaxSlices
    BY <1>2 DEF Evicted
  <1>3. CASE ~(Cardinality(DOMAIN cache) <= MaxSlices)
    <2>1. Evicted(cache, s) = [x \in kept |-> cache[x]]
      BY <1>3 DEF Evicted
    <2> HIDE DEF kept
    <2>2. QED
      BY <1>1, <2>1
  <1>4. QED
    BY <1>2, <1>3

LEMMA InitCacheInv == Init => CacheInv
  <1> SUFFICES ASSUME Init PROVE CacheInv
    OBVIOUS
  <1>1. TypeOK
    BY NoTreeType DEF Init, TypeOK
  <1>2. Covers(NoTree, NoTree, Node)
    BY DEF Covers, NoTree
  <1>3. QED
    BY <1>1, <1>2 DEF Init, CacheInv, Stored, Floors, Walks, Tags, Lookups, Answers, DiskTag

-----------------------------------------------------------------------------
(* Writers *)

LEMMA BeginWriteStep ==
  ASSUME CacheInv, NEW t \in Thread, NEW n \in Node, BeginWrite(t, n)
  PROVE  CacheInv'
  <1> USE DEF CacheInv, BeginWrite, Goto, shared, query, history
  <1>1. TypeOK'
    BY DEF TypeOK
  <1>2. Stored'
    BY DEF TypeOK, Stored
  <1>3. Floors'
    BY DEF TypeOK, Floors
  <1>4. Walks'
    BY DEF TypeOK, Walks, Walked
  <1>5. Tags'
    BY DEF Tags
  <1>6. Lookups'
    BY DEF TypeOK, Lookups, Walked
  <1>7. Answers'
    BY DEF TypeOK, Answers
  <1>8. DiskTag'
    BY DEF TypeOK, DiskTag
  <1>9. QED
    BY <1>1, <1>2, <1>3, <1>4, <1>5, <1>6, <1>7, <1>8

(* A write to the node map leaves what had returned below it.              *)
LEMMA MutateStep ==
  ASSUME CacheInv, NEW t \in Thread, Mutate(t)
  PROVE  CacheInv'
  <1> USE DEF CacheInv, Mutate, Goto, query, history
  <1>0. arg[t] \in Node
    BY DEF Stored
  <1>1. TypeOK'
    BY <1>0 DEF TypeOK, Tree
  <1>2. Stored'
    <2>1. Covers(coords', coords, Node)
      BY <1>0 DEF TypeOK, Tree, Covers
    <2>2. Covers(coords', committed', Node)
      BY <1>0, <2>1 DEF TypeOK, Tree, Covers, Stored
    <2>3. mine'[t] = coords'[arg[t]]
      BY <1>0 DEF TypeOK, Tree
    <2>4. \A u \in Thread : pc'[u] \in {"mutate", "bump"} => arg'[u] \in Node
      BY <1>0 DEF TypeOK, Stored
    <2>5. ASSUME NEW u \in Thread, pc'[u] = "bump" PROVE mine'[u] <= coords'[arg'[u]]
      <3>1. CASE u = t
        BY <3>1, <1>0, <1>1, <2>3 DEF TypeOK, Tree
      <3>2. CASE u # t
        <4>1. /\ mine'[u] = mine[u] /\ arg'[u] = arg[u] /\ arg[u] \in Node
              /\ mine[u] <= coords[arg[u]]
          BY <3>2, <2>5 DEF TypeOK, Stored
        <4>2. coords[arg[u]] <= coords'[arg[u]]
          BY <4>1, <2>1 DEF Covers
        <4>3. QED
          BY <4>1, <4>2, <1>1 DEF TypeOK, Tree
      <3>3. QED
        BY <3>1, <3>2
    <2>6. QED
      BY <2>2, <2>4, <2>5 DEF Stored
  <1>3. Floors'
    BY DEF TypeOK, Floors
  <1>4. Walks'
    BY DEF TypeOK, Walks, Walked
  <1>5. Tags'
    BY DEF Tags
  <1>6. Lookups'
    BY DEF TypeOK, Lookups, Walked
  <1>7. Answers'
    BY DEF TypeOK, Answers
  <1>8. DiskTag'
    BY DEF TypeOK, DiskTag
  <1>9. QED
    BY <1>1, <1>2, <1>3, <1>4, <1>5, <1>6, <1>7, <1>8

(* The bump that makes a write count as returned makes every tag and every *)
(* epoch that a query holds a stale one.                                   *)
LEMMA BumpStep ==
  ASSUME CacheInv, NEW t \in Thread, Bump(t)
  PROVE  CacheInv'
  <1> USE DEF CacheInv, Bump, Leave, Goto
  <1>0. arg[t] \in Node /\ mine[t] \in Nat /\ mine[t] <= coords[arg[t]]
    BY DEF Stored, TypeOK
  <1>1. committed' \in Tree /\ Covers(committed', committed, Node)
    <2>1. /\ committed \in [Node -> Nat]
          /\ committed' = [committed EXCEPT ![arg[t]] = Larger(committed[arg[t]], mine[t])]
      BY DEF TypeOK, Tree
    <2>2. /\ Larger(committed[arg[t]], mine[t]) \in Nat
          /\ committed[arg[t]] <= Larger(committed[arg[t]], mine[t])
      BY <1>0, <2>1, LargerBounds
    <2>3. QED
      BY <1>0, <2>1, <2>2 DEF Tree, Covers
  <1>2. TypeOK'
    BY <1>1, NoTreeType DEF TypeOK
  <1>3. Stored'
    <2>1. Covers(coords', committed', Node)
      BY <1>0 DEF TypeOK, Tree, Covers, Stored, Larger
    <2>2. QED
      BY <2>1 DEF TypeOK, Stored
  <1>4. Floors'
    <2>1. ASSUME NEW u \in Thread PROVE Covers(committed', floor'[u], Node)
      <3>1. CASE u = t
        BY <3>1, <1>1, CoversNoTree DEF TypeOK
      <3>2. CASE u # t
        BY <3>2, <1>1, CoversTransitive DEF TypeOK, Floors
      <3>3. QED
        BY <3>1, <3>2
    <2>2. QED
      BY <2>1 DEF TypeOK, Floors
  <1>5. Walks'
    <2>1. pc'[t] = "idle"
      BY DEF TypeOK
    <2>2. ASSUME NEW u \in Thread, u # t
          PROVE  /\ pc'[u] = pc[u] /\ seen'[u] = seen[u] /\ floor'[u] = floor[u]
                 /\ snapshot'[u] = snapshot[u] /\ Walked(u)' = Walked(u)
      BY <2>2 DEF TypeOK, Walked
    <2>3. ASSUME NEW u \in Thread, pc[u] = "walk"
          PROVE  seen[u] <= epoch' /\ seen[u] # epoch'
      BY <2>3 DEF TypeOK, Walks
    <2>4. QED
      BY <2>1, <2>2, <2>3 DEF Walks
  <1>6. Tags'
    BY DEF TypeOK, Tags
  <1>7. Lookups'
    BY DEF TypeOK, Lookups, Walked
  <1>8. Answers'
    BY DEF TypeOK, Answers
  <1>9. DiskTag'
    BY DEF TypeOK, DiskTag
  <1>10. QED
    BY <1>2, <1>3, <1>4, <1>5, <1>6, <1>7, <1>8, <1>9

-----------------------------------------------------------------------------
(* Queries *)

LEMMA BeginQueryStep ==
  ASSUME CacheInv, NEW t \in Thread, NEW s \in Slice \cup {Disk}, BeginQuery(t, s)
  PROVE  CacheInv'
  <1> USE DEF CacheInv, BeginQuery, Goto, shared
  <1>1. TypeOK'
    BY DEF TypeOK
  <1>2. Stored'
    BY DEF TypeOK, Stored
  <1>3. Floors'
    BY CoversSelf DEF TypeOK, Floors
  <1>4. Walks'
    <2>1. pc'[t] = "scan" => Walked(t)' = {}
      BY DEF TypeOK, Walked
    <2>2. pc'[t] # "walk"
      BY DEF TypeOK
    <2>3. QED
      BY <2>1, <2>2 DEF TypeOK, Walks, Walked, Covers
  <1>5. Tags'
    BY DEF Tags
  <1>6. Lookups'
    BY DEF TypeOK, Lookups, Walked
  <1>7. Answers'
    BY DEF TypeOK, Answers
  <1>8. DiskTag'
    BY DEF TypeOK, DiskTag
  <1>9. QED
    BY <1>1, <1>2, <1>3, <1>4, <1>5, <1>6, <1>7, <1>8

(* What a walk finds in the node map covers everything that has returned.  *)
LEMMA VisitStep ==
  ASSUME CacheInv, NEW t \in Thread, NEW n \in Node, Visit(t, n)
  PROVE  CacheInv'
  <1> USE DEF CacheInv, Visit, shared, history
  <1>1. TypeOK'
    BY DEF TypeOK, Tree
  <1>2. Stored'
    BY DEF TypeOK, Stored
  <1>3. Floors'
    BY DEF TypeOK, Floors
  <1>4. ASSUME NEW U \in Tree, Covers(committed, U, Node),
               Covers(snapshot[t], U, Walked(t))
        PROVE  Covers(snapshot'[t], U, Walked(t)')
    <2>1. U[n] <= coords[n]
      BY <1>4 DEF TypeOK, Tree, Stored, Covers
    <2>2. snapshot'[t] = [snapshot[t] EXCEPT ![n] = coords[n]]
      BY DEF TypeOK
    <2>3. Walked(t)' = Walked(t) \cup {n}
      BY DEF TypeOK, Walked
    <2>4. QED
      BY <1>4, <2>1, <2>2, <2>3 DEF TypeOK, Tree, Covers, Walked
  <1>5. \A u \in Thread \ {t} : snapshot'[u] = snapshot[u] /\ Walked(u)' = Walked(u)
    BY DEF TypeOK, Walked
  <1>6. Walks'
    <2>1. ASSUME NEW u \in Thread, pc[u] \in {"scan", "walk"}
          PROVE  Covers(snapshot'[u], floor[u], Walked(u)')
      BY <1>4, <1>5, <2>1 DEF TypeOK, Walks, Floors
    <2>2. ASSUME NEW u \in Thread, pc[u] = "walk", seen[u] = epoch
          PROVE  Covers(snapshot'[u], committed, Walked(u)')
      BY <1>4, <1>5, <2>2, CoversSelf DEF TypeOK, Walks
    <2>3. QED
      BY <2>1, <2>2 DEF Walks
  <1>7. Tags'
    BY DEF Tags
  <1>8. Lookups'
    <2>1. ASSUME NEW u \in Thread, NEW v \in Thread, pc[u] = "lookup", pc[v] = "walk",
                 seen[v] = seen[u]
          PROVE  Covers(snapshot'[v], floor[u], Walked(v)')
      <3>1. floor[u] \in Tree /\ Covers(committed, floor[u], Node)
        BY DEF TypeOK, Floors
      <3>2. Covers(snapshot[v], floor[u], Walked(v))
        BY <2>1 DEF Lookups
      <3>3. QED
        BY <1>4, <1>5, <3>1, <3>2
    <2>2. QED
      BY <2>1 DEF Lookups
  <1>9. Answers'
    BY DEF Answers
  <1>10. DiskTag'
    BY DEF TypeOK, DiskTag
  <1>11. QED
    BY <1>1, <1>2, <1>3, <1>6, <1>7, <1>8, <1>9, <1>10

LEMMA ScanDoneStep ==
  ASSUME CacheInv, NEW t \in Thread, ScanDone(t)
  PROVE  CacheInv'
  <1> USE DEF CacheInv, ScanDone, Goto, shared, history
  <1>1. TypeOK'
    BY DEF TypeOK
  <1>2. Stored'
    BY DEF TypeOK, Stored
  <1>3. Floors'
    BY DEF TypeOK, Floors
  <1>4. Walks'
    BY DEF TypeOK, Walks, Walked
  <1>5. Tags'
    BY DEF Tags
  <1>6. Lookups'
    BY DEF TypeOK, Lookups, Walked
  <1>7. Answers'
    <2>1. Walked(t) = Node
      BY DEF TypeOK, Walked
    <2>2. result'[t] = snapshot[t] /\ Covers(snapshot[t], floor[t], Node)
      BY <2>1 DEF TypeOK, Walks
    <2>3. QED
      BY <2>2 DEF TypeOK, Answers
  <1>8. DiskTag'
    BY DEF TypeOK, DiskTag
  <1>9. QED
    BY <1>1, <1>2, <1>3, <1>4, <1>5, <1>6, <1>7, <1>8

(* Trees of the epoch just read cover what is committed now, so also what  *)
(* was committed when the query began.                                     *)
LEMMA LoadEpochStep ==
  ASSUME CacheInv, NEW t \in Thread, LoadEpoch(t)
  PROVE  CacheInv'
  <1> USE DEF CacheInv, LoadEpoch, Goto, shared, history
  <1>1. TypeOK'
    BY DEF TypeOK
  <1>2. Stored'
    BY DEF TypeOK, Stored
  <1>3. Floors'
    BY DEF TypeOK, Floors
  <1>4. Walks'
    BY DEF TypeOK, Walks, Walked
  <1>5. Tags'
    BY DEF Tags
  <1>6. Lookups'
    <2>1. ASSUME NEW s \in DOMAIN slices, slices[s].epoch = epoch
          PROVE  Covers(slices[s].tree, floor[t], Node)
      BY <2>1, CoversTransitive DEF TypeOK, Tags, Floors
    <2>2. ASSUME NEW u \in Thread, pc[u] = "walk", seen[u] = epoch
          PROVE  Covers(snapshot[u], floor[t], Walked(u))
      <3>1. Walked(u) \in SUBSET Node /\ Covers(snapshot[u], committed, Walked(u))
        BY <2>2 DEF Walks, Walked
      <3>2. QED
        BY <3>1, CoversTransitive DEF TypeOK, Floors
    <2>3. seen'[t] = epoch /\ pc'[t] = "lookup"
      BY DEF TypeOK
    <2>4. \A u \in Thread \ {t} : seen'[u] = seen[u] /\ pc'[u] = pc[u]
      BY DEF TypeOK
    <2>5. QED
      BY <2>1, <2>2, <2>3, <2>4 DEF TypeOK, Lookups, Walked
  <1>7. Answers'
    BY DEF TypeOK, Answers
  <1>8. DiskTag'
    <2>1. ASSUME disk # None, disk.epoch = epoch
          PROVE  Covers(disk.tree, floor[t], Node)
      <3>1. disk.tree \in Tree /\ Covers(disk.tree, committed, Node)
        BY <2>1 DEF TypeOK, DiskTag
      <3>2. committed \in Tree /\ floor[t] \in Tree /\ Covers(committed, floor[t], Node)
        BY DEF TypeOK, Floors
      <3>3. QED
        BY <3>1, <3>2, CoversTransitive
    <2>2. QED
      BY <2>1 DEF TypeOK, DiskTag
  <1>9. QED
    BY <1>1, <1>2, <1>3, <1>4, <1>5, <1>6, <1>7, <1>8

LEMMA LookupStep ==
  ASSUME CacheInv, NEW t \in Thread, Lookup(t)
  PROVE  CacheInv'
  <1> USE DEF CacheInv, Lookup, Goto, shared, history
  <1>1. TypeOK'
    BY DEF TypeOK, Fresh, Cached, Kept
  <1>2. Stored'
    BY DEF TypeOK, Stored
  <1>3. Floors'
    BY DEF TypeOK, Floors
  <1>4. Walks'
    BY DEF TypeOK, Walks, Walked
  <1>5. Tags'
    BY DEF Tags
  <1>6. Lookups'
    BY DEF TypeOK, Lookups, Walked
  <1>7. Answers'
    <2>1. CASE Fresh(t)
      <3>1. Covers(Kept(arg[t]).tree, floor[t], Node)
        BY <2>1 DEF Fresh, Cached, Kept, Lookups, DiskTag, TypeOK, Floors
      <3>2. QED
        BY <2>1, <3>1 DEF TypeOK, Answers, Kept
    <2>2. CASE ~Fresh(t)
      BY <2>2 DEF TypeOK, Answers
    <2>3. QED
      BY <2>1, <2>2
  <1>8. DiskTag'
    BY DEF TypeOK, DiskTag
  <1>9. QED
    BY <1>1, <1>2, <1>3, <1>4, <1>5, <1>6, <1>7, <1>8

LEMMA PreReadStep ==
  ASSUME CacheInv, NEW t \in Thread, PreRead(t)
  PROVE  CacheInv'
  <1> USE DEF CacheInv, PreRead, Goto, shared, history
  <1>0. Walked(t)' = {} /\ seen'[t] = epoch
    BY DEF TypeOK, Walked
  <1>1. TypeOK'
    BY DEF TypeOK
  <1>2. Stored'
    BY DEF TypeOK, Stored
  <1>3. Floors'
    BY DEF TypeOK, Floors
  <1>4. Walks'
    BY <1>0 DEF TypeOK, Walks, Walked, Covers
  <1>5. Tags'
    BY DEF Tags
  <1>6. Lookups'
    BY <1>0 DEF TypeOK, Lookups, Walked, Covers
  <1>7. Answers'
    BY DEF TypeOK, Answers
  <1>8. DiskTag'
    BY DEF TypeOK, DiskTag
  <1>9. QED
    BY <1>1, <1>2, <1>3, <1>4, <1>5, <1>6, <1>7, <1>8

(* What is cached is an old entry of the current epoch or the tree just    *)
(* built, and the walk that built it is over.                              *)
LEMMA CacheStep ==
  ASSUME CacheInv, NEW t \in Thread, Cache(t)
  PROVE  CacheInv'
  <1> DEFINE retained == {s \in DOMAIN slices : slices[s].epoch = epoch}
             filled == [s \in retained \cup {arg[t]} |->
                          IF s \in retained THEN slices[s] ELSE Built(t)]
  <1> USE DEF CacheInv, history
  <1>1. /\ arg[t] \in Slice
        /\ Walked(t) = Node
        /\ seen[t] <= epoch
        /\ Covers(snapshot[t], floor[t], Node)
        /\ seen[t] = epoch => Covers(snapshot[t], committed, Node)
    BY DEF TypeOK, Floors, Walks, Walked, Cache
  <1>2. /\ DOMAIN slices' \subseteq retained \cup {arg[t]}
        /\ \A s \in DOMAIN slices' :
             slices'[s] = IF s \in retained THEN slices[s] ELSE Built(t)
    <2>1. slices' = Evicted(filled, arg[t])
      BY DEF Cache
    <2>2. DOMAIN filled = retained \cup {arg[t]}
      OBVIOUS
    <2>3. \A s \in DOMAIN filled :
            filled[s] = IF s \in retained THEN slices[s] ELSE Built(t)
      OBVIOUS
    <2>4. filled = [x \in DOMAIN filled |-> filled[x]]
      OBVIOUS
    <2> HIDE DEF filled, retained
    <2>5. /\ DOMAIN Evicted(filled, arg[t]) \subseteq DOMAIN filled
          /\ \A x \in DOMAIN Evicted(filled, arg[t]) :
               Evicted(filled, arg[t])[x] = filled[x]
      BY <2>2, <2>4, EvictedKeeps
    <2>6. QED
      BY <2>1, <2>2, <2>3, <2>5
  <1>3. result'[t] = IF arg[t] \in retained THEN slices[arg[t]].tree ELSE snapshot[t]
    BY DEF TypeOK, Cache, Built
  <1>4. /\ pc' = [pc EXCEPT ![t] = "answered"]
        /\ result' = [result EXCEPT ![t] = result'[t]]
        /\ UNCHANGED <<coords, epoch, disk, arg, mine, seen, todo, snapshot, history>>
    BY DEF TypeOK, Cache, Goto
  <1>5. Built(t) = [epoch |-> seen[t], tree |-> snapshot[t]]
    BY DEF Built
  <1>6. TypeOK'
    BY <1>1, <1>2, <1>3, <1>4, <1>5 DEF TypeOK
  <1>7. Stored'
    BY <1>4 DEF TypeOK, Stored
  <1>8. Floors'
    BY <1>4 DEF TypeOK, Floors
  <1>9. Walks'
    BY <1>4 DEF TypeOK, Walks, Walked
  <1>10. Tags'
    BY <1>1, <1>2, <1>4, <1>5 DEF Tags
  <1>11. Lookups'
    <2>1. ASSUME NEW u \in Thread, pc[u] = "lookup", NEW s \in DOMAIN slices',
                 slices'[s].epoch = seen[u]
          PROVE  Covers(slices'[s].tree, floor[u], Node)
      <3>1. CASE s \in retained
        BY <1>2, <2>1, <3>1 DEF Lookups
      <3>2. CASE s \notin retained
        <4>1. slices'[s] = [epoch |-> seen[t], tree |-> snapshot[t]]
          BY <1>2, <1>5, <3>2
        <4>2. pc[t] = "walk" /\ seen[t] = seen[u]
          BY <2>1, <4>1 DEF Cache
        <4>3. QED
          BY <1>1, <2>1, <4>1, <4>2 DEF Lookups
      <3>3. QED
        BY <3>1, <3>2
    <2>2. QED
      BY <1>4, <2>1 DEF TypeOK, Lookups, Walked
  <1>12. Answers'
    <2>1. Covers(result'[t], floor[t], Node)
      <3>1. CASE arg[t] \in retained
        <4>1. Covers(slices[arg[t]].tree, committed, Node) /\ Covers(committed, floor[t], Node)
          BY <3>1 DEF Tags, Floors
        <4>2. slices[arg[t]].tree \in Tree /\ committed \in Tree /\ floor[t] \in Tree
          BY <3>1 DEF TypeOK
        <4>3. QED
          BY <1>3, <3>1, <4>1, <4>2, CoversTransitive
      <3>2. CASE arg[t] \notin retained
        BY <1>1, <1>3, <3>2
      <3>3. QED
        BY <3>1, <3>2
    <2>2. QED
      BY <1>4, <2>1 DEF TypeOK, Answers
  <1>13. DiskTag'
    BY <1>4 DEF TypeOK, DiskTag
  <1>14. QED
    BY <1>6, <1>7, <1>8, <1>9, <1>10, <1>11, <1>12, <1>13

(* The tree that the disk keeps is the one just built, whose walk is over. *)
LEMMA CacheDiskStep ==
  ASSUME CacheInv, NEW t \in Thread, CacheDisk(t)
  PROVE  CacheInv'
  <1> USE DEF CacheInv, CacheDisk, Goto, history
  <1>1. /\ Walked(t) = Node
        /\ seen[t] <= epoch
        /\ Covers(snapshot[t], floor[t], Node)
        /\ seen[t] = epoch => Covers(snapshot[t], committed, Node)
    BY DEF TypeOK, Walks, Walked
  <1>2. disk' = [epoch |-> seen[t], tree |-> snapshot[t]]
    BY DEF Built
  <1>3. TypeOK'
    BY <1>2 DEF TypeOK
  <1>4. Stored'
    BY DEF TypeOK, Stored
  <1>5. Floors'
    BY DEF TypeOK, Floors
  <1>6. Walks'
    BY DEF TypeOK, Walks, Walked
  <1>7. Tags'
    BY DEF Tags
  <1>8. Lookups'
    BY DEF TypeOK, Lookups, Walked
  <1>9. Answers'
    BY <1>1 DEF TypeOK, Answers
  <1>10. DiskTag'
    <2>1. ASSUME NEW u \in Thread, pc[u] = "lookup", seen[t] = seen[u]
          PROVE  Covers(snapshot[t], floor[u], Node)
      BY <1>1, <2>1 DEF Lookups
    <2>2. QED
      BY <1>1, <1>2, <2>1 DEF TypeOK, DiskTag
  <1>11. QED
    BY <1>3, <1>4, <1>5, <1>6, <1>7, <1>8, <1>9, <1>10

LEMMA ReturnStep ==
  ASSUME CacheInv, NEW t \in Thread, Return(t)
  PROVE  CacheInv'
  <1> USE DEF CacheInv, Return, Leave, Goto, shared
  <1>1. TypeOK'
    BY NoTreeType DEF TypeOK
  <1>2. Stored'
    BY DEF TypeOK, Stored
  <1>3. Floors'
    BY CoversNoTree DEF TypeOK, Floors
  <1>4. Walks'
    BY DEF TypeOK, Walks, Walked
  <1>5. Tags'
    BY DEF Tags
  <1>6. Lookups'
    BY DEF TypeOK, Lookups, Walked
  <1>7. Answers'
    BY DEF TypeOK, Answers
  <1>8. DiskTag'
    BY DEF TypeOK, DiskTag
  <1>9. QED
    BY <1>1, <1>2, <1>3, <1>4, <1>5, <1>6, <1>7, <1>8

(* A step that changes nothing preserves the invariant.                    *)
LEMMA CacheStutter == CacheInv /\ UNCHANGED vars => CacheInv'
  BY DEF CacheInv, vars, shared, local, query, history, TypeOK, Stored, Floors, Walks,
         Walked, Tags, Lookups, Answers, DiskTag

-----------------------------------------------------------------------------

(* The invariant holds in every reachable state: the race of writers,      *)
(* builders and readers that get_or_build of semantic_index.rs resolves    *)
(* with its epochs.                                                        *)
THEOREM CacheInvariant == Spec => []CacheInv
  <1>1. CacheInv /\ [Next]_vars => CacheInv'
    <2> SUFFICES ASSUME CacheInv, [Next]_vars PROVE CacheInv'
      OBVIOUS
    <2>1. ASSUME NEW t \in Thread, Writer(t) PROVE CacheInv'
      BY <2>1, BeginWriteStep, MutateStep, BumpStep DEF Writer
    <2>2. ASSUME NEW t \in Thread, Query(t) PROVE CacheInv'
      BY <2>2, BeginQueryStep, VisitStep, ScanDoneStep, LoadEpochStep, LookupStep,
         PreReadStep, CacheStep, CacheDiskStep, ReturnStep DEF Query
    <2>3. QED
      BY <2>1, <2>2, CacheStutter DEF Next
  <1>2. QED
    BY <1>1, InitCacheInv, PTL DEF Spec

(* Every variable keeps its type; in particular a cached tree always       *)
(* carries an epoch and a slice is only ever cached after it was asked for *)
(* (get_or_build).                                                         *)
THEOREM TypeCorrect == Spec => []TypeOK
  <1>1. CacheInv => TypeOK
    BY DEF CacheInv
  <1>2. QED
    BY <1>1, CacheInvariant, PTL

(* A cached tree of the current epoch misses no write that has returned    *)
(* ("Race safety", the module comment of semantic_index.rs).               *)
THEOREM CacheCoherence == Spec => []FreshTreesCurrent
  <1>1. CacheInv => FreshTreesCurrent
    BY DEF CacheInv, TypeOK, Tree, Tags, DiskTag, Covers, FreshTreesCurrent, Cached, Kept
  <1>2. QED
    BY <1>1, CacheInvariant, PTL

(* A query answers with every write that had returned before it began      *)
(* (nearest_semantic through get_or_build and through the scan).           *)
THEOREM QueriesSeeReturnedWrites == Spec => []QueryRecent
  <1>1. CacheInv => QueryRecent
    BY DEF CacheInv, TypeOK, Tree, Answers, Covers, QueryRecent
  <1>2. QED
    BY <1>1, CacheInvariant, PTL

-----------------------------------------------------------------------------
(* The bound of the cache *)

(* A set of numbers that is not empty has a least one.                     *)
LEMMA LeastNumber ==
  ASSUME NEW S \in SUBSET Nat, S # {}
  PROVE  \E m \in S : \A x \in S : m <= x
  <1>1. PICK m \in S : \A x \in S : ~(<<x, m>> \in OpToRel(<, Nat))
    BY NatLessThanWellFounded, WFMin, Zenon
  <1>2. OpToRel(<, Nat) = {p \in Nat \X Nat : p[1] < p[2]}
    BY DEF OpToRel
  <1>3. ASSUME NEW x \in S PROVE m <= x
    <2>1. ~(<<x, m>> \in {p \in Nat \X Nat : p[1] < p[2]})
      BY <1>1, <1>2
    <2>2. QED
      BY <2>1
  <1>4. QED
    BY <1>3

(* Eviction leaves no more slices than the limit: those above the lowest   *)
(* that stays are fewer than MaxSlices - 1.                                *)
LEMMA EvictedBounded ==
  ASSUME NEW cache, NEW s \in DOMAIN cache, DOMAIN cache \in SUBSET Nat,
         IsFiniteSet(DOMAIN cache)
  PROVE  /\ IsFiniteSet(DOMAIN Evicted(cache, s))
         /\ Cardinality(DOMAIN Evicted(cache, s)) <= MaxSlices
  <1> DEFINE others == DOMAIN cache \ {s}
             Above(x) == {y \in others : y > x}
             stay == {x \in others : Cardinality(Above(x)) + 1 < MaxSlices}
  <1>1. CASE Cardinality(DOMAIN cache) <= MaxSlices
    BY <1>1 DEF Evicted
  <1>2. CASE ~(Cardinality(DOMAIN cache) <= MaxSlices)
    <2>1. DOMAIN Evicted(cache, s) = stay \cup {s}
      BY <1>2 DEF Evicted
    <2>2. IsFiniteSet(others) /\ others \in SUBSET Nat
      BY FS_RemoveElement
    <2>3. stay \in SUBSET others /\ s \notin stay
      OBVIOUS
    <2>4. IsFiniteSet(stay) /\ Cardinality(stay) \in Nat
      BY <2>2, <2>3, FS_Subset, FS_CardinalityType
    <2>5. Cardinality(stay) <= MaxSlices - 1
      <3>1. CASE stay = {}
        <4> HIDE DEF stay
        <4>1. QED
          BY <3>1, FS_EmptySet, BoundAssumption
      <3>2. CASE stay # {}
        <4>1. PICK m \in stay : \A x \in stay : m <= x
          <5>1. stay \in SUBSET Nat
            BY <2>2, <2>3
          <5> HIDE DEF stay
          <5>2. QED
            BY <3>2, <5>1, LeastNumber
        <4>2. stay \ {m} \in SUBSET Above(m)
          <5>1. ASSUME NEW x \in stay \ {m} PROVE x \in others /\ x > m
            <6>1. x \in Nat /\ m \in Nat /\ m <= x /\ x # m
              BY <2>2, <2>3, <4>1
            <6>2. QED
              BY <6>1
          <5>2. QED
            BY <5>1
        <4>3. IsFiniteSet(Above(m)) /\ Cardinality(Above(m)) \in Nat
          BY <2>2, FS_Subset, FS_CardinalityType
        <4>4. Cardinality(stay \ {m}) <= Cardinality(Above(m))
          BY <4>2, <4>3, FS_Subset
        <4>5. Cardinality(stay \ {m}) = Cardinality(stay) - 1
          BY <2>4, <4>1, FS_RemoveElement
        <4>6. Cardinality(Above(m)) + 1 < MaxSlices
          BY <4>1
        <4>7. QED
          BY <2>4, <4>3, <4>4, <4>5, <4>6, BoundAssumption
      <3>3. QED
        BY <3>1, <3>2
    <2>6. /\ IsFiniteSet(stay \cup {s})
          /\ Cardinality(stay \cup {s}) = Cardinality(stay) + 1
      BY <2>3, <2>4, FS_AddElement
    <2>7. QED
      BY <2>1, <2>4, <2>5, <2>6, BoundAssumption
  <1>3. QED
    BY <1>1, <1>2

(* The cache is finite and within its limit.                               *)
Bounded == IsFiniteSet(DOMAIN slices) /\ Cardinality(DOMAIN slices) <= MaxSlices

LEMMA BoundedStep ==
  ASSUME CacheInv, Bounded, [Next]_vars
  PROVE  Bounded'
  <1>1. ASSUME NEW t \in Thread, Cache(t) PROVE Bounded'
    <2> DEFINE retained == {s \in DOMAIN slices : slices[s].epoch = epoch}
               filled == [s \in retained \cup {arg[t]} |->
                            IF s \in retained THEN slices[s] ELSE Built(t)]
    <2>1. slices' = Evicted(filled, arg[t])
      BY <1>1 DEF Cache
    <2>2. DOMAIN filled = retained \cup {arg[t]} /\ arg[t] \in DOMAIN filled
      OBVIOUS
    <2>3. arg[t] \in Slice
      BY <1>1 DEF CacheInv, Floors, Cache
    <2>4. DOMAIN filled \in SUBSET Nat
      BY <2>2, <2>3, SliceAssumption DEF CacheInv, TypeOK
    <2>5. IsFiniteSet(retained)
      BY FS_Subset DEF Bounded
    <2>6. IsFiniteSet(DOMAIN filled)
      BY <2>2, <2>5, FS_AddElement
    <2> HIDE DEF filled
    <2>7. QED
      BY <2>1, <2>2, <2>4, <2>6, EvictedBounded DEF Bounded
  <1>2. CASE UNCHANGED slices
    BY <1>2 DEF Bounded
  <1>3. ASSUME NEW t \in Thread, Writer(t) \/ Query(t), ~Cache(t)
        PROVE  UNCHANGED slices
    BY <1>3 DEF Writer, BeginWrite, Mutate, Bump, Query, BeginQuery, Visit, ScanDone,
                LoadEpoch, Lookup, PreRead, CacheDisk, Return, shared
  <1>4. QED
    BY <1>1, <1>2, <1>3 DEF Next, vars, shared

(* The cache never holds more than SEMANTIC_INDEX_MAX_SLICES trees, and    *)
(* none of an epoch that is still to come (get_or_build's eviction).       *)
THEOREM CacheWithinLimit == Spec => []CacheBounded
  <1>1. Init => Bounded
    <2>1. Init => DOMAIN slices = {}
      BY DEF Init
    <2>2. QED
      BY <2>1, FS_EmptySet, BoundAssumption DEF Bounded
  <1>2. CacheInv /\ Bounded => CacheBounded
    BY DEF CacheInv, Tags, Bounded, CacheBounded
  <1>3. QED
    BY <1>1, <1>2, BoundedStep, CacheInvariant, PTL DEF Spec

==============================================================================
