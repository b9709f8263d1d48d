----------------------------- MODULE SemanticDisk -----------------------------
(***************************************************************************)
(* The semantic disk (semantic_disk.rs): concepts anchored in a Poincare   *)
(* disk, and nodes placed among them by their affinities.  A position is   *)
(* the vector (t, x, y) with Klein coordinates x/t and y/t; how Klein and  *)
(* Poincare coordinates turn into each other is left out.  The cached tree *)
(* of positions is in SemanticIndex.                                       *)
(***************************************************************************)
EXTENDS MetricTree

CONSTANTS Anchor,   \* Anchor[d]: the site of the concept of dimension d
          None      \* no position, no concept

ASSUME AnchorAssumption == Anchor \in Seq(Point) /\ Len(Anchor) > 0
ASSUME NoneAssumption == None \notin Point \cup [t : Int, x : Int, y : Int]

(* gamma and gamma times the Klein site of an anchor.                      *)
Gamma(p) == 5 * Cosh[p.radius]
Site(p) == <<Sinh[p.radius] * p.dir[1], Sinh[p.radius] * p.dir[2]>>

Positive(weights) == {d \in DOMAIN Anchor : weights[d] > 0}

(* The weighted barycenter; weights below zero are ignored.                *)
derive_from_weights(weights) ==
  LET Sum(Of(_)) == MapThenSumSet(LAMBDA d : weights[d] * Of(Anchor[d]), Positive(weights))
  IN  IF Positive(weights) = {} THEN None
      ELSE [t |-> Sum(Gamma), x |-> Sum(LAMBDA p : Site(p)[1]), y |-> Sum(LAMBDA p : Site(p)[2])]

AnchorWeights(coords) == [d \in DOMAIN Anchor |-> IF d <= Len(coords) THEN coords[d] ELSE 0]

derive_from_coords(coords) ==
  IF coords = <<>> THEN None ELSE derive_from_weights(AnchorWeights(coords))

(* Wrong: the factor that differs between shallow and deep anchors is      *)
(* dropped.                                                                *)
classify_point_flat(position) ==
  LET Score(p) == position.t * Gamma(p) - position.x * Site(p)[1] - position.y * Site(p)[2]
      Less(d, e) == Score(Anchor[d]) * Gamma(Anchor[e]) < Score(Anchor[e]) * Gamma(Anchor[d])
  IN  CHOOSE d \in DOMAIN Anchor :
        \A e \in DOMAIN Anchor : ~Less(e, d) /\ (e < d => Less(d, e))

(* The anchor of the least (1 - <x, k>) gamma, the first among equals.     *)
classify_point(position) ==
  LET Score(p) == position.t * Gamma(p) - position.x * Site(p)[1] - position.y * Site(p)[2]
      Less(d, e) == Score(Anchor[d]) < Score(Anchor[e])
  IN  CHOOSE d \in DOMAIN Anchor :
        \A e \in DOMAIN Anchor : ~Less(e, d) /\ (e < d => Less(d, e))

concept_of(coords) ==
  LET position == derive_from_coords(coords)
  IN  IF position = None THEN None ELSE classify_point(position)

(* A sample covers the dimensions from start on; others weigh zero.        *)
classify_sample(start, sample) ==
  LET weights == [d \in DOMAIN Anchor |->
        IF d - start + 1 \in DOMAIN sample THEN sample[d - start + 1] ELSE 0]
      position == derive_from_weights(weights)
  IN  IF position = None THEN None ELSE classify_point(position)

(* The nodes with one affinity, which lie at an anchor: those whose        *)
(* distances are rational.  coords maps keys to coordinates.               *)
AtAnchors(coords) ==
  [x \in {y \in DOMAIN coords : Cardinality(Positive(AnchorWeights(coords[y]))) = 1} |->
     Anchor[CHOOSE d \in DOMAIN Anchor : Positive(AnchorWeights(coords[x])) = {d}]]

(* The tree of the derived positions.                                      *)
index(entries) == build("hyperbolic", entries)

(* The k nearest of them to key, without key.                              *)
nearest(tree, entries, key, k) ==
  LET found == tree_knn("hyperbolic", tree, entries, entries[key], k + 1)
  IN  Best([x \in found |-> proxy("hyperbolic", entries[key], entries[x])], found \ {key}, k)

nearest_to_weights(tree, entries, position, k) ==
  tree_knn("hyperbolic", tree, entries, position, k)

==============================================================================
