-------------------------------- MODULE Search --------------------------------
(***************************************************************************)
(* What the queries of a store answer, over everything it can hold: the    *)
(* spatial queries from the cell index, the semantic ones from the         *)
(* VP-tree, and those of a semantic disk over the store (store.rs,         *)
(* tree_tensor.rs, tensor_network.rs, semantic_disk.rs).  One call at a    *)
(* time; what other threads do to the maps meanwhile is in CellIndex and   *)
(* SemanticIndex.                                                          *)
(***************************************************************************)
EXTENDS CellSearch, SemanticDisk

CONSTANTS Id,             \* the root and its children; numbers, for their order
          Root,           \* the root's
          Prefix,         \* the keys below a prefix
          Kept,           \* the [place, coords] a node may have: a bound
          MinNodes,       \* SEMANTIC_INDEX_MIN_NODES
          MinPopulation,  \* OUTLIER_MIN_POPULATION
          OutlierKnn,     \* OUTLIER_KNN
          Ranks,          \* the k that are asked for
          Limits,         \* the radii that are asked for, by their cosh
          Slices,         \* the slices that are compared, sets of dimensions
          Thresholds      \* the thresholds for outliers, whole numbers

Origin == [radius |-> 1, dir |-> <<5, 0>>]

ASSUME IdAssumption == Id \subseteq Nat /\ Root \in Id /\ Prefix \subseteq Id \ {Root}
ASSUME KeptAssumption ==
  /\ Kept \subseteq [place : Point \cup {None}, coords : Seq(Int)]
  /\ {[place |-> Origin, coords |-> <<>>], [place |-> None, coords |-> <<>>]} \subseteq Kept
ASSUME RanksAssumption == Ranks \subseteq Nat /\ Limits \subseteq Nat
ASSUME PopulationAssumption ==
  /\ MinPopulation \in Nat /\ MinPopulation >= 2
  /\ OutlierKnn \in Nat /\ OutlierKnn >= 1
  /\ MinNodes \in Nat

VARIABLE nodes   \* what each stored key has

vars == nodes

Stored == DOMAIN nodes

Init == nodes = [x \in {Root} |-> [place |-> Origin, coords |-> <<>>]]

With(x, kept) == [y \in Stored \cup {x} |-> IF y = x THEN kept ELSE nodes[y]]

(* None stands for no place: a data-only node.                             *)

(* A node's place is chosen by its parent and child index: any place.      *)
put(x, place) ==
  /\ x \notin Stored /\ place # None
  /\ [place |-> place, coords |-> <<>>] \in Kept
  /\ nodes' = With(x, [place |-> place, coords |-> <<>>])

put_data_only(x) ==
  /\ x \notin Stored
  /\ nodes' = With(x, [place |-> None, coords |-> <<>>])

set_semantic(x, coords) ==
  /\ x \in Stored
  /\ [nodes[x] EXCEPT !.coords = coords] \in Kept
  /\ nodes' = With(x, [nodes[x] EXCEPT !.coords = coords])

embed_existing(x, place) ==
  /\ x \in Stored
  /\ nodes[x].place = None /\ place # None
  /\ [nodes[x] EXCEPT !.place = place] \in Kept
  /\ nodes' = With(x, [nodes[x] EXCEPT !.place = place])

(* Wrong: the root too.                                                    *)
remove_any(x) ==
  /\ x \in Stored
  /\ nodes' = [y \in Stored \ {x} |-> nodes[y]]

remove(x) ==
  /\ x \in Stored \ {Root}
  /\ nodes' = [y \in Stored \ {x} |-> nodes[y]]

Next ==
  \E x \in Id :
    \/ put_data_only(x)
    \/ remove(x)
    \/ \E kept \in Kept : \/ put(x, kept.place)
                          \/ embed_existing(x, kept.place)
                          \/ set_semantic(x, kept.coords)

Spec == Init /\ [][Next]_vars

TypeOK ==
  /\ Root \in Stored /\ Stored \subseteq Id
  /\ \A x \in Stored : nodes[x] \in Kept

-----------------------------------------------------------------------------
(* Spatial queries *)

(* The index holds the nodes that have a place.                            *)
point_map ==
  [x \in {y \in Stored : nodes[y].place # None} |-> nodes[x].place]

(* An answer, or a refusal.                                                *)
Answered(found) == <<"found", found>>
Refused == <<"refused">>

nearest_neighbor_point_k(q, k) == knn(point_map, q, k)

nearest_neighbor_point(q) ==
  LET found == knn(point_map, q, 1)
  IN  IF found = {} THEN Refused ELSE Answered(CHOOSE x \in found : TRUE)

nodes_in_radius(centre, radius) == within_radius(point_map, centre, radius)

(* None for a data-only node, and where there is no node.                  *)
position(x) == IF x \in Stored THEN nodes[x].place ELSE None

(* Wrong: no room for the node itself.                                     *)
find_nearest_short(x, k) ==
  First(point_map, position(x), knn(point_map, position(x), k) \ {x}, k)

find_nearest(x, k) ==
  First(point_map, position(x), knn(point_map, position(x), k + 1) \ {x}, k)

neighbors(x, k) == IF position(x) = None THEN Refused ELSE Answered(find_nearest(x, k))

find_in_radius(x, radius) == nodes_in_radius(position(x), radius) \ {x}

find_within(x, radius) ==
  IF position(x) = None THEN Refused ELSE Answered(find_in_radius(x, radius))

(* Asked at its own position, the index must find a node at distance zero. *)
verify_index_locates_all_nodes ==
  \A x \in DOMAIN point_map :
    \E y \in knn(point_map, point_map[x], 1) :
      hyperbolic_distance(point_map[x], point_map[y]) = One

-----------------------------------------------------------------------------
(* Semantic queries *)

decode_semantic_slice(coords, slice) ==
  [d \in slice |-> IF d <= Len(coords) THEN coords[d] * Unit ELSE 0]

(* The coordinates that a node may have, or a query.                       *)
Coordinates == {kept.coords : kept \in Kept} \ {<<>>}

(* The sets of dimensions that are compared.                               *)
Compared == Slices \cup {{d} : d \in DOMAIN Anchor}

ASSUME SlicesAssumption == \A slice \in Slices : IsFiniteSet(slice) /\ slice \subseteq Nat \ {0}

(* No squared distance saturates: it is below 2^63, in the code's width.   *)
ASSUME DistancesAssumption ==
  \A slice \in Compared, coords, others \in Coordinates :
    EuclideanProxy(decode_semantic_slice(coords, slice),
                   decode_semantic_slice(others, slice)) < MaxRaw

(* An empty slice is refused, and one the query has no dimension in.       *)
check_slice(slice, coords) == slice # {} /\ Min(slice) <= Len(coords)

Decoded(slice) ==
  [x \in {y \in Stored : nodes[y].coords # <<>>} |-> decode_semantic_slice(nodes[x].coords, slice)]

(* Squared.  It is wide enough not to saturate.                            *)
semantic_distance(a, b, slice) ==
  MapThenSumSet(LAMBDA d : (a[d] - b[d]) * (a[d] - b[d]), slice)

(* The scan ranks by the distance itself.                                  *)
nearest_semantic_scan(coords, k, slice) ==
  LET at == decode_semantic_slice(coords, slice)
      entries == Decoded(slice)
      distance == [x \in DOMAIN entries |-> semantic_distance(at, entries[x], slice)]
  IN  Best(distance, DOMAIN entries, k)

(* The cached tree of a slice, when it is that of the current epoch.       *)
get_or_build(slice) == build("euclidean", Decoded(slice))

SearchTree(tree, coords, k, slice) ==
  tree_knn("euclidean", tree, Decoded(slice), decode_semantic_slice(coords, slice), k)

nearest_semantic(tree, coords, k, slice) ==
  IF Cardinality(Stored) < MinNodes THEN nearest_semantic_scan(coords, k, slice)
                                    ELSE SearchTree(tree, coords, k, slice)

(* The first k of the answer that are not the node itself.                 *)
OthersFirst(entries, metric, x, found, k) ==
  Best([y \in DOMAIN entries |-> proxy(metric, entries[x], entries[y])], found \ {x}, k)

neighbors_semantic(tree, x, k, slice) ==
  OthersFirst(Decoded(slice), "euclidean", x,
              nearest_semantic(tree, nodes[x].coords, k + 1, slice), k)

(* The facade refuses a slice that says nothing.                           *)
StoreNearestSemantic(tree, coords, k, slice) ==
  IF check_slice(slice, coords) THEN Answered(nearest_semantic(tree, coords, k, slice))
                                ELSE Refused

get_semantic(x) == IF x \in Stored THEN nodes[x].coords ELSE <<>>

(* A node without coordinates, or that is not there, has no dimension.     *)
StoreNeighborsSemantic(tree, x, k, slice) ==
  IF check_slice(slice, get_semantic(x))
  THEN Answered(neighbors_semantic(tree, x, k, slice))
  ELSE Refused

-----------------------------------------------------------------------------
(* Outliers, over one dimension d, where distances are whole numbers.      *)

Population(d) ==
  [x \in {y \in Stored \cap Prefix : nodes[y].coords # <<>>} |->
     decode_semantic_slice(nodes[x].coords, {d})]

(* The sum of the distances to the k nearest peers; the average is a kth.  *)
DistanceSum(entries, x, peers, d) ==
  MapThenSumSet(LAMBDA y : LET gap == (entries[x][d] - entries[y][d]) \div Unit
                           IN  IF gap < 0 THEN -gap ELSE gap,
                peers)

PeerSum(entries, Peers(_, _), k, d) ==
  [x \in DOMAIN entries |-> DistanceSum(entries, x, Peers(x, k), d)]

(* Above the mean by more than z standard deviations.                      *)
Anomalous(sum, z) ==
  LET n == Cardinality(DOMAIN sum)
      total == MapThenSumSet(LAMBDA x : sum[x], DOMAIN sum)
      Off(x) == n * sum[x] - total
      spread == MapThenSumSet(LAMBDA x : Off(x) * Off(x), DOMAIN sum)
  IN  {x \in DOMAIN sum : /\ spread > 0 /\ Off(x) > 0
                          /\ n * Off(x) * Off(x) > z * z * spread}

(* Wrong: the peers are looked for in the whole store.                     *)
find_outliers_unscoped(z, d) ==
  LET all == Decoded({d})
      k == Min({OutlierKnn, Cardinality(DOMAIN Population(d)) - 1})
      Peers(x, n) == OthersFirst(all, "euclidean", x, SearchTree(get_or_build({d}), nodes[x].coords, n + 1, {d}), n)
      sum == PeerSum(all, Peers, k, d)
  IN  IF Cardinality(DOMAIN Population(d)) < MinPopulation THEN {}
      ELSE Anomalous([x \in DOMAIN Population(d) |-> sum[x]], z)

find_outliers(z, d) ==
  LET entries == Population(d)
      tree == build("euclidean", entries)
      k == Min({OutlierKnn, Cardinality(DOMAIN entries) - 1})
      Peers(x, n) ==
        OthersFirst(entries, "euclidean", x,
                    tree_knn("euclidean", tree, entries, entries[x], n + 1), n)
  IN  IF Cardinality(DOMAIN entries) < MinPopulation THEN {}
      ELSE Anomalous(PeerSum(entries, Peers, k, d), z)

-----------------------------------------------------------------------------
(* Properties.  Each compares an answer with a scan of all there is.       *)

Places == {kept.place : kept \in Kept} \ {None}

(* Ordering the walk by lower bounds and cutting it short loses nothing:   *)
(* nearest and nearest_k answer as a scan of all placed nodes would        *)
(* (cell_index.rs, "no candidate cap, no window, no count-based stopping   *)
(* rule"), ties going to the smaller id.  In particular the index locates  *)
(* every node it holds.                                                    *)
KnnAsScan ==
  /\ verify_index_locates_all_nodes
  /\ \A q \in Places, k \in Ranks :
       /\ nearest_neighbor_point_k(q, k) = First(point_map, q, DOMAIN point_map, k)
       /\ \E x \in First(point_map, q, DOMAIN point_map, 1) :
            nearest_neighbor_point(q) = Answered(x)

(* neighbors of a node are the k nearest other nodes, also where others    *)
(* share its place: asking for one more and dropping the node itself never *)
(* gives one too few (find_nearest).                                       *)
NeighborsExcludeSelf ==
  \A x \in Id, k \in Ranks :
    neighbors(x, k) =
      IF x \in DOMAIN point_map
      THEN Answered(First(point_map, point_map[x], DOMAIN point_map \ {x}, k))
      ELSE Refused

(* A limit at which the bound of the query's own band cuts off that band.  *)
OwnBandCut(q, limit) == limit # NoLimit /\ radial_bound(q, band_of(q)) > limit

(* find_within never answers with a node out of reach, and misses none     *)
(* unless the radius is below the distance to the edge of the query's band *)
(* (within_radius).                                                        *)
RadiusAsScan ==
  \A x \in DOMAIN point_map, limit \in Limits :
    LET q == point_map[x]
        found == find_in_radius(x, limit)
        wanted == Within(point_map, q, DOMAIN point_map, limit) \ {x}
    IN  found \subseteq wanted /\ (found = wanted \/ OwnBandCut(q, limit))

(* find_within misses no node within the radius: "Degrades to a full scan, *)
(* never to a wrong answer" (cell_index.rs, within_radius).  It does, also *)
(* when no two nodes share a place.                                        *)
RadiusComplete ==
  (\A x, y \in DOMAIN point_map : x # y => point_map[x] # point_map[y]) =>
    \A x \in DOMAIN point_map, limit \in Limits :
      find_within(x, limit) =
        Answered(Within(point_map, point_map[x], DOMAIN point_map, limit) \ {x})

(* Whether the store is large enough for the tree or not, nearest_semantic *)
(* answers alike: "Results are identical on both paths" (store.rs).  The   *)
(* pruning in squared space cuts off no node that a scan would return,     *)
(* also where the product of two scores would saturate.  neighbors_semantic*)
(* gives the nearest other nodes.                                          *)
SemanticAsScan ==
  \A slice \in Slices :
    LET tree == get_or_build(slice)
        entries == Decoded(slice)
        Informative(coords) == \E d \in slice : \A e \in slice : d <= e /\ d <= Len(coords)
    IN  /\ \A coords \in Coordinates, k \in Ranks :
             StoreNearestSemantic(tree, coords, k, slice) =
               IF Informative(coords) THEN Answered(nearest_semantic_scan(coords, k, slice))
                                      ELSE Refused
        /\ \A x \in Id, k \in Ranks :
             StoreNeighborsSemantic(tree, x, k, slice) =
               IF x \in Stored /\ Informative(nodes[x].coords)
               THEN Answered(OthersFirst(entries, "euclidean", x, DOMAIN entries, k))
               ELSE Refused

(* What lies outside the prefix does not sway the outliers found below it, *)
(* and the walk of the tree does not either: they are those of the plain   *)
(* definition, by scanning the population (find_outliers).                 *)
OutliersAsNaive ==
  \A z \in Thresholds, d \in DOMAIN Anchor :
    LET entries == Population(d)
        k == Min({OutlierKnn, Cardinality(DOMAIN entries) - 1})
        Peers(x, n) == OthersFirst(entries, "euclidean", x, DOMAIN entries, n)
    IN  find_outliers(z, d) =
          IF Cardinality(DOMAIN entries) < MinPopulation THEN {}
          ELSE Anomalous(PeerSum(entries, Peers, k, d), z)

StoredCoords == [x \in Stored |-> nodes[x].coords]

(* The disk's tree, which prunes in ratio space, answers as a scan by      *)
(* hyperbolic distance would, without the node itself                      *)
(* (SemanticDisk::nearest and nearest_to_weights).                         *)
DiskAsScan ==
  LET placed == AtAnchors(StoredCoords)
      tree == index(placed)
  IN  \A k \in Ranks :
        /\ \A x \in DOMAIN placed :
             nearest(tree, placed, x, k) = First(placed, placed[x], DOMAIN placed \ {x}, k)
        /\ \A d \in DOMAIN Anchor :
             nearest_to_weights(tree, placed, Anchor[d], k) =
               First(placed, Anchor[d], DOMAIN placed, k)

(* A node with one affinity belongs to that concept, however shallow the   *)
(* other anchors are; and a trajectory read over all dimensions says of it *)
(* what concept_of says (classify_point, classify_trajectory).             *)
ClassifyIdentity ==
  \A x \in Stored :
    /\ x \in DOMAIN AtAnchors(StoredCoords) =>
         hyperbolic_distance(Anchor[concept_of(nodes[x].coords)], AtAnchors(StoredCoords)[x]) = One
    /\ classify_sample(1, nodes[x].coords) = concept_of(nodes[x].coords)

==============================================================================
