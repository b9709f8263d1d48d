----------------------------- MODULE MetricTree ------------------------------
(***************************************************************************)
(* The static VP-tree (metric_tree.rs): how it is built over a snapshot of *)
(* points, how knn walks it, and the two metrics that own the pruning.     *)
(* Numbers are fixed-point raws of IntBits.FracBits bits, 63.64 in the     *)
(* code; g_math truncates and saturates.  Unique ids are numbers, for      *)
(* their order.                                                            *)
(***************************************************************************)
EXTENDS PoincareDisk, FiniteSets, FiniteSetsExt

CONSTANTS IntBits, FracBits

ASSUME WidthAssumption ==
  /\ IntBits \in Nat /\ IntBits % 2 = 1
  /\ FracBits \in Nat /\ FracBits % 2 = 0 /\ FracBits >= 2

(* Of two.                                                                 *)
Power[n \in Nat] == IF n = 0 THEN 1 ELSE 2 * Power[n - 1]

Unit == Power[FracBits]
MaxRaw == Power[IntBits + FracBits] - 1

Saturated(raw) == Min({raw, MaxRaw})
times(a, b) == Saturated((a * b) \div Unit)
over(a, b) == Saturated((a * Unit) \div b)

(* The number of bits of a positive raw.                                   *)
BitLength(raw) == 1 + Max({b \in 0 .. IntBits + FracBits : Power[b] <= raw})

(* Wrong: the seed is the power of two below.                              *)
sqrt_below(p) ==
  IF p <= 0 THEN 0
  ELSE Power[(BitLength(p) - 1) \div 2 + FracBits \div 2]

(* Two Newton steps from the power of two above the root.                  *)
sqrt_upper_bound(p) ==
  LET Newton(x) == (x + over(p, x)) \div 2
      seed == Power[(BitLength(p) + 1) \div 2 + FracBits \div 2]
  IN  IF p <= 0 THEN 0 ELSE Newton(Newton(seed))

-----------------------------------------------------------------------------
(* The metrics.  "euclidean" scores two coordinate slices with the squared *)
(* distance, "hyperbolic" two points of the disk with the squared ratio.   *)

EuclideanProxy(a, b) ==
  Saturated(MapThenSumSet(LAMBDA i : (a[i] - b[i]) * (a[i] - b[i]), DOMAIN a) \div Unit)

(* tanh^2(d/2), here from cosh d.                                          *)
hyperbolic_ratio_sq(a, b) ==
  LET c == hyperbolic_distance(a, b) IN ((c - One) * Unit) \div (c + One)

proxy(metric, a, b) ==
  IF metric = "euclidean" THEN EuclideanProxy(a, b) ELSE hyperbolic_ratio_sq(a, b)

(* Wrong: a product that saturates is not noticed.                         *)
sq_product_never_saturates(a, b) == FALSE

(* Both integer parts below 2^31, in the code's width.                     *)
sq_product_may_saturate(a, b) ==
  LET limit == Power[FracBits + IntBits \div 2] IN a >= limit \/ b >= limit

(* d_hi - d_lo > worst, provably, in squared space.                        *)
EuclideanSeparation(hi, lo, worst) ==
  /\ ~sq_product_may_saturate(hi, lo)
  /\ hi + lo - worst > 2 * sqrt_upper_bound(times(hi, lo))

sq_ratio_separation_exceeds(hi, lo, worst) ==
  LET x == sqrt_upper_bound(times(hi, lo))
  IN  hi + lo - 2 * x > times(worst, times(Unit - x, Unit - x))

Separated(metric, hi, lo, worst) ==
  /\ hi > lo
  /\ IF metric = "euclidean" THEN EuclideanSeparation(hi, lo, worst)
                             ELSE sq_ratio_separation_exceeds(hi, lo, worst)

prune_left(metric, query, median, worst) == Separated(metric, query, median, worst)
prune_right(metric, query, median, worst) == Separated(metric, median, query, worst)

left_first(query, median) == query < median

-----------------------------------------------------------------------------
(* Building.  entries maps unique ids to points.  A tree is a table of its *)
(* nodes; a subtree is named by the set of the ids in it, {} where there   *)
(* is none.                                                                *)

(* The order in which build_node gets the entries: sorted by id at the     *)
(* root; below it by (score, id), the order partition leaves.  Only the    *)
(* first entry matters, since the rest is sorted again.                    *)
FirstByScore(score, ids) ==
  CHOOSE i \in ids : \A j \in ids : score[i] < score[j] \/ (score[i] = score[j] /\ i <= j)

(* The score that rank len/2 has, in the order of the scores.              *)
MedianScore(score, ids) ==
  Min({score[i] : i \in {i \in ids :
         Cardinality({j \in ids : score[j] <= score[i]}) > Cardinality(ids) \div 2}})

Scores(metric, entries, vantage, ids) ==
  [i \in ids |-> proxy(metric, entries[vantage], entries[i])]

(* The node over a vantage and others: scores below the median go left.    *)
NodeOver(metric, entries, others, vantage) ==
  LET score == Scores(metric, entries, vantage, others)
      median == IF others = {} THEN 0 ELSE MedianScore(score, others)
      left == {i \in others : score[i] < median}
  IN  [id |-> vantage, median |-> median, left |-> left, right |-> others \ left]

(* A node with the tables of its two subtrees.                             *)
Joined(part, node, left, right) ==
  [p \in {part} \cup DOMAIN left \cup DOMAIN right |->
     IF p = part THEN node ELSE IF p \in DOMAIN left THEN left[p] ELSE right[p]]

build(metric, entries) ==
  LET ids == DOMAIN entries
      build_node[others \in SUBSET ids] == [vantage \in ids |->
        LET node == NodeOver(metric, entries, others, vantage)
            Subtree(part) ==
              LET first == FirstByScore(Scores(metric, entries, vantage, part), part)
              IN  IF part = {} THEN <<>> ELSE build_node[part \ {first}][first]
        IN  Joined(others \cup {vantage}, node, Subtree(node.left), Subtree(node.right))]
  IN  IF ids = {} THEN <<>> ELSE build_node[ids \ {Min(ids)}][Min(ids)]

-----------------------------------------------------------------------------
(* Searching.  What is known of the entries is their scores to the query.  *)

(* The first k of ids by (score, id).                                      *)
Best(score, ids, k) ==
  {i \in ids : Cardinality({j \in ids : score[j] < score[i] \/ (score[j] = score[i] /\ j < i)}) < k}

(* Pruning waits until k candidates are known.                             *)
Pruned(prune(_, _, _, _), metric, score, node, found, k) ==
  /\ Cardinality(found) >= k
  /\ prune(metric, score[node.id], node.median, Max({score[i] : i \in found}))

(* The second descent is decided with what the first has found.            *)
search_knn(metric, score, tree, k) ==
  LET search[part \in DOMAIN tree \cup {{}}] == [candidates \in SUBSET DOMAIN score |->
        LET node == tree[part]
            here == Best(score, candidates \cup {node.id}, k)
            Left(found) == IF Pruned(prune_left, metric, score, node, found, k) THEN found
                           ELSE search[node.left][found]
            Right(found) == IF Pruned(prune_right, metric, score, node, found, k) THEN found
                            ELSE search[node.right][found]
        IN  IF part = {} THEN candidates
            ELSE IF left_first(score[node.id], node.median) THEN Right(Left(here))
                                                            ELSE Left(Right(here))]
  IN  search[DOMAIN score][{}]

(* What knn returns, as a set: its order is that of (distance, id).        *)
tree_knn(metric, tree, entries, query, k) ==
  LET score == [i \in DOMAIN entries |-> proxy(metric, query, entries[i])]
  IN  IF k = 0 THEN {} ELSE search_knn(metric, score, tree, k)

==============================================================================
