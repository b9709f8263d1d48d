----------------------------- MODULE CellSearch ------------------------------
(***************************************************************************)
(* The queries of the cell index (cell_index.rs): the cell of a point, and *)
(* the walk over the occupied cells that knn and within_radius share.  The *)
(* indexed nodes are a function from unique ids to points; what concurrent *)
(* updates do to the maps is in CellIndex.  Unique ids are numbers, for    *)
(* their order.                                                            *)
(***************************************************************************)
EXTENDS PoincareDisk, FiniteSets, FiniteSetsExt

CONSTANTS Edge,      \* Edge[b]: the radius at which band b begins
          Sectors    \* Sectors[b]: how many sectors band b has

Bands == 1 .. Len(Sectors)

(* The bands cover every radius that a point can have (MAX_BANDS).         *)
ASSUME EdgeAssumption ==
  /\ Edge \in Seq(Radius) /\ Sectors \in Seq(Nat)
  /\ Len(Sectors) > 0 /\ Len(Edge) = Len(Sectors) + 1
  /\ \A b \in Bands : Edge[b] < Edge[b + 1]
  /\ Edge[1] = 1 /\ Edge[Len(Edge)] = 5
ASSUME SectorsAssumption == \A b \in Bands : Sectors[b] > 0 /\ Turn % Sectors[b] = 0

-----------------------------------------------------------------------------
(* Cells *)

(* The last band absorbs what lies beyond it.                              *)
band_of(p) == Max({b \in Bands : Edge[b] <= p.radius})

sector_from_pseudo(p, sectors) == (pseudo_angle(p) * sectors) \div Turn

cell_of(p) == [band |-> band_of(p), sector |-> sector_from_pseudo(p, Sectors[band_of(p)])]

(* The ids in a cell, and the sectors of a band that hold any.             *)
Members(indexed, cell) == {id \in DOMAIN indexed : cell_of(indexed[id]) = cell}

Occupied(indexed, b) ==
  {cell_of(indexed[id]).sector : id \in {i \in DOMAIN indexed : band_of(indexed[i]) = b}}

-----------------------------------------------------------------------------
(* Lower bounds on cosh of the distance from a query point q.  A Plain     *)
(* bound counts hundredths of One; the interior case is a square.          *)

(* Wrong: the bound of the band's outer edge, wherever the query lies.     *)
radial_bound_outer(q, b) ==
  25 * (Cosh[q.radius] * Cosh[Edge[b + 1]] - Sinh[q.radius] * Sinh[Edge[b + 1]])

(* The least of the two edges' bounds, also for the band q itself lies in. *)
radial_bound(q, b) ==
  LET At(edge) == 25 * (Cosh[q.radius] * Cosh[edge] - Sinh[q.radius] * Sinh[edge])
      below == At(Edge[b])
      above == At(Edge[b + 1])
  IN  IF below >= One /\ above >= One THEN Min({below, above}) ELSE One

(* The least over the band's radii, at a pseudo-angle gap from q.          *)
bound_for_gap(q, b, gap) ==
  LET cosine == Cosine[gap + 1]
      At(edge) == 25 * (100 * Cosh[q.radius] * Cosh[edge] - cosine * Sinh[q.radius] * Sinh[edge])
      PastEdge(edge) == cosine * Sinh[q.radius] * Cosh[edge] >= 100 * Cosh[q.radius] * Sinh[edge]
      Plain(v) == [squared |-> FALSE, value |-> v]
  IN  CASE cosine <= 0 \/ ~PastEdge(Edge[b]) -> Plain(At(Edge[b]))
        [] cosine > 0 /\ PastEdge(Edge[b]) /\ ~PastEdge(Edge[b + 1]) ->
             [squared |-> TRUE,
              value |-> One + (25 * Sinh[q.radius] * Sinh[q.radius] * SineSquared[gap + 1]) \div 100]
        [] cosine > 0 /\ PastEdge(Edge[b + 1]) -> Plain(At(Edge[b + 1]))

(* Each end of the sector is wrapped on its own.                           *)
cell_bound(q, b, sector) ==
  LET width == Turn \div Sectors[b]
      lo == sector * width
      hi == (sector + 1) * width
      here == pseudo_angle(q)
      Circular(x) == LET d == IF x > here THEN x - here ELSE here - x IN Min({d, Turn - d})
  IN  bound_for_gap(q, b, IF lo <= here /\ here < hi THEN 0 ELSE Min({Circular(lo), Circular(hi)}))

(* Wrong: a sector is taken to begin a whole offset away.                  *)
envelope_tight(q, b, offset) ==
  bound_for_gap(q, b, Min({14, offset * (Turn \div Sectors[b])}))

(* The smallest gap a sector can have that lies offset sectors away.       *)
envelope(q, b, offset) ==
  bound_for_gap(q, b, Min({14, Max({offset - 1, 0}) * (Turn \div Sectors[b])}))

(* No limit: nothing is ruled out.                                         *)
NoLimit == 0

(* Whether a bound rules out everything within the limit, a cosh.          *)
exceeds(bound, limit) ==
  /\ limit # NoLimit
  /\ IF bound.squared THEN (bound.value * One) \div limit > limit
                      ELSE bound.value > 100 * limit

-----------------------------------------------------------------------------
(* A query: the point it is about, the k it wants, or else the limit that  *)
(* within_radius was given.                                                *)

Nearer(indexed, q, i, j) ==
  LET di == hyperbolic_distance(q, indexed[i])
      dj == hyperbolic_distance(q, indexed[j])
  IN  di < dj \/ (di = dj /\ i < j)

(* The first k ids by distance and id.                                     *)
First(indexed, q, ids, k) ==
  {i \in ids : Cardinality({j \in ids : Nearer(indexed, q, j, i)}) < k}

Within(indexed, q, ids, limit) ==
  {i \in ids : limit = NoLimit \/ hyperbolic_distance(q, indexed[i]) <= limit}

Knn(q, k) == [at |-> q, k |-> k, limit |-> NoLimit]
Around(q, limit) == [at |-> q, k |-> 0, limit |-> limit]

(* The visitors: knn ranks what it has and keeps k, within_radius keeps    *)
(* what is within its limit.                                               *)
visit(indexed, query, found, cell) ==
  LET members == Members(indexed, cell)
  IN  IF query.k > 0 THEN First(indexed, query.at, found \cup members, query.k)
      ELSE found \cup Within(indexed, query.at, members, query.limit)

(* knn has a ceiling once it has k ids: the distance of the worst.         *)
ceiling(indexed, query, found) ==
  IF query.k > 0 /\ Cardinality(found) = query.k
  THEN Max({hyperbolic_distance(query.at, indexed[i]) : i \in found})
  ELSE query.limit

(* Sectors by circular distance from the query's own, then by number.      *)
Offset(q, b, sector) ==
  LET raw == (sector - sector_from_pseudo(q, Sectors[b])) % Sectors[b]
  IN  Min({raw, Sectors[b] - raw})

NextSector(q, b, sectors) ==
  CHOOSE s \in sectors : \A u \in sectors :
    \/ Offset(q, b, s) < Offset(q, b, u)
    \/ Offset(q, b, s) = Offset(q, b, u) /\ s <= u

(* The loops of a query: what is left to visit, and what is found so far.  *)
(* A loop that breaks has nothing left.                                    *)
SectorStep(indexed, query, b, walk) ==
  LET s == NextSector(query.at, b, walk.left)
      limit == ceiling(indexed, query, walk.found)
      later == walk.left \ {s}
  IN  IF walk.left = {} THEN walk
      ELSE IF exceeds(envelope(query.at, b, Offset(query.at, b, s)), limit)
           THEN [walk EXCEPT !.left = {}]
      ELSE IF exceeds(cell_bound(query.at, b, s), limit)
           THEN [walk EXCEPT !.left = later]
      ELSE [left |-> later,
            found |-> visit(indexed, query, walk.found, [band |-> b, sector |-> s])]

(* An envelope past the limit ends the band, a bound past it skips a cell. *)
WalkSectors(indexed, query, b, found) ==
  LET occupied == Occupied(indexed, b)
      walk[n \in Nat] == IF n = 0 THEN [left |-> occupied, found |-> found]
                                  ELSE SectorStep(indexed, query, b, walk[n - 1])
  IN  walk[Cardinality(occupied)].found

NextBand(q, bands) ==
  CHOOSE b \in bands : \A c \in bands :
    \/ radial_bound(q, b) < radial_bound(q, c)
    \/ radial_bound(q, b) = radial_bound(q, c) /\ b <= c

BandStep(indexed, query, walk) ==
  LET b == NextBand(query.at, walk.left)
      limit == ceiling(indexed, query, walk.found)
  IN  IF walk.left = {} THEN walk
      ELSE IF limit # NoLimit /\ radial_bound(query.at, b) > limit
           THEN [walk EXCEPT !.left = {}]
      ELSE [left |-> walk.left \ {b}, found |-> WalkSectors(indexed, query, b, walk.found)]

(* A radial bound past the limit ends the walk.                            *)
expand(indexed, query) ==
  LET occupied == {band_of(indexed[id]) : id \in DOMAIN indexed}
      walk[n \in Nat] == IF n = 0 THEN [left |-> occupied, found |-> {}]
                                  ELSE BandStep(indexed, query, walk[n - 1])
  IN  walk[Cardinality(occupied)].found

knn(indexed, q, k) == IF k = 0 THEN {} ELSE expand(indexed, Knn(q, k))

within_radius(indexed, q, limit) == expand(indexed, Around(q, limit))

==============================================================================
