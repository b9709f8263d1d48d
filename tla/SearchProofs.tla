------------------------- MODULE SearchProofs -------------------------
(***************************************************************************)
(* Proofs about the queries of a store: what the cell index answers, what  *)
(* the VP-tree answers, the outliers and the concept of a node at an anchor*)
(* are what a scan of all there is gives, for any store, bands, sectors,   *)
(* anchors, slices, numbers of answers and widths of the numbers.          *)
(*                                                                         *)
(* A walk over the cells is right because of an invariant of its loop: what*)
(* it has found is the best of all it has seen (Found, Best), what it      *)
(* skipped is beyond its ceiling (EnvelopeExceeds, CellExceeds, SkipFound).*)
(* A walk over the tree keeps the best of what it has seen (Searched), and *)
(* what it prunes is provably beyond the worst of them: the test compares  *)
(* squares with an upper bound of a root (RootAbove, SeparationGap), and   *)
(* squared distances obey Cauchy and Schwarz (ApartSpans, LeftFar,         *)
(* RightFar).                                                              *)
(*                                                                         *)
(* The recursive functions by which the model is written are shown to      *)
(* exist (LoopFunction, RankedRecursion); what they compute follows by     *)
(* induction over numbers of steps and sizes of sets, with a set for the   *)
(* predicate (SetInduction, PartInduction).                                *)
(***************************************************************************)
EXTENDS Search, FiniteSetTheorems, WellFoundedInduction, TLAPS

-----------------------------------------------------------------------------
(* Induction over the naturals, by well-foundedness.                       *)

(* The order of the naturals, as a well-founded relation.                  *)
LEMMA LessRelation ==
  \E R : IsWellFoundedOn(R, Nat) /\ \A x, y \in Nat : x < y => <<x, y>> \in R
<1>1. IsWellFoundedOn(OpToRel(<, Nat), Nat)
  BY NatLessThanWellFounded
<1>2. \A x, y \in Nat : x < y => <<x, y>> \in OpToRel(<, Nat)
  BY DEF OpToRel
<1> QED BY <1>1, <1>2, Zenon

(* A well-founded relation has a minimal element in each set.              *)
LEMMA MinimalIn ==
  ASSUME NEW R, NEW Dom, IsWellFoundedOn(R, Dom), NEW S, S \subseteq Dom, S # {}
  PROVE  \E x \in S : \A y \in S : ~ (<<y, x>> \in R)
BY WFMin, Zenon

(* A set of naturals has a least.                                          *)
LEMMA LeastOf ==
  ASSUME NEW S, S \subseteq Nat, S # {}
  PROVE  \E n \in S : \A m \in S : n <= m
<1>1. PICK R : IsWellFoundedOn(R, Nat) /\ \A x, y \in Nat : x < y => <<x, y>> \in R
  BY LessRelation
<1>2. PICK x \in S : \A y \in S : ~ (<<y, x>> \in R)
  <2> DEFINE N == Nat
  <2>1. IsWellFoundedOn(R, N) /\ S \subseteq N /\ S # {}
    BY <1>1
  <2> HIDE DEF N
  <2> QED BY <2>1, MinimalIn, Zenon
<1>3. \A y \in S : ~(y < x)
  BY <1>1, <1>2
<1> QED BY <1>2, <1>3

(* A set with 0 that is closed under successors holds every natural: the   *)
(* induction every loop below rests on.                                    *)
LEMMA SetInduction ==
  ASSUME NEW S, S \subseteq Nat, 0 \in S, \A n \in S : n + 1 \in S
  PROVE  \A n \in Nat : n \in S
<1> SUFFICES ASSUME Nat \ S # {} PROVE FALSE
  OBVIOUS
<1>1. PICK n \in Nat \ S : \A m \in Nat \ S : n <= m
  <2>1. Nat \ S \subseteq Nat
    OBVIOUS
  <2> QED BY <2>1, LeastOf, Zenon
<1>2. n # 0 /\ n - 1 \in Nat
  BY <1>1
<1>3. n - 1 \in S
  BY <1>1, <1>2
<1>4. (n - 1) + 1 = n
  BY <1>1
<1> QED BY <1>3, <1>4

-----------------------------------------------------------------------------
(* Geometry: the tables, and what the law of cosines says of distances.    *)

(* The tables of cosh and sinh, at each radius.                            *)
LEMMA Tables ==
  /\ Cosh[1] = 24 /\ Cosh[2] = 26 /\ Cosh[3] = 30 /\ Cosh[4] = 40 /\ Cosh[5] = 51
  /\ Sinh[1] = 0 /\ Sinh[2] = 10 /\ Sinh[3] = 18 /\ Sinh[4] = 32 /\ Sinh[5] = 45
BY DEF Cosh, Sinh

(* The directions are the twelve integer points of a circle.               *)
LEMMA Directions ==
  ASSUME NEW d \in Direction
  PROVE  d \in {<<5, 0>>, <<4, 3>>, <<3, 4>>, <<0, 5>>, <<-3, 4>>, <<-4, 3>>,
                <<-5, 0>>, <<-4, -3>>, <<-3, -4>>, <<0, -5>>, <<3, -4>>, <<4, -3>>}
<1>1. /\ d = <<d[1], d[2]>> /\ d[1] \in -5 .. 5 /\ d[2] \in -5 .. 5
      /\ d[1] * d[1] + d[2] * d[2] = 25
  BY DEF Direction
<1>2. \A x \in -5 .. 5 : \A y \in -5 .. 5 : x * x + y * y = 25 =>
        <<x, y>> \in {<<5, 0>>, <<4, 3>>, <<3, 4>>, <<0, 5>>, <<-3, 4>>, <<-4, 3>>,
                <<-5, 0>>, <<-4, -3>>, <<-3, -4>>, <<0, -5>>, <<3, -4>>, <<4, -3>>}
  OBVIOUS
<1> QED BY <1>1, <1>2

(* Going out from radius e to r adds at least what the cosine takes away.  *)
LEMMA PlainBelow ==
  ASSUME NEW q \in Radius, NEW e \in Radius, NEW r \in Radius, e <= r, NEW c \in Int,
         c <= 0 \/ c * Sinh[q] * Cosh[e] < 100 * Cosh[q] * Sinh[e]
  PROVE  100 * Cosh[q] * Cosh[e] - c * Sinh[q] * Sinh[e] <= 100 * Cosh[q] * Cosh[r] - c * Sinh[q] * Sinh[r]
<1>1. CASE q = 1
  BY <1>1, Tables DEF Radius
<1>2. CASE q = 2
  BY <1>2, Tables DEF Radius
<1>3. CASE q = 3
  BY <1>3, Tables DEF Radius
<1>4. CASE q = 4
  BY <1>4, Tables DEF Radius
<1>5. CASE q = 5
  BY <1>5, Tables DEF Radius
<1> QED BY <1>1, <1>2, <1>3, <1>4, <1>5 DEF Radius

(* Going in from radius e to r, likewise.                                  *)
LEMMA PlainAbove ==
  ASSUME NEW q \in Radius, NEW e \in Radius, NEW r \in Radius, r <= e, NEW c \in Int,
         c > 0, c * Sinh[q] * Cosh[e] >= 100 * Cosh[q] * Sinh[e]
  PROVE  100 * Cosh[q] * Cosh[e] - c * Sinh[q] * Sinh[e] <= 100 * Cosh[q] * Cosh[r] - c * Sinh[q] * Sinh[r]
BY Tables DEF Radius

(* The gap between two pseudo-angles, the shorter way round, and the       *)
(* scalar product of two directions.                                       *)
Gap(a, h) == LET d == IF a > h THEN a - h ELSE h - a IN IF d <= 28 - d THEN d ELSE 28 - d

Dot(p, q) == p.dir[1] * q.dir[1] + p.dir[2] * q.dir[2]

(* The pseudo-angle of each direction.                                     *)
LEMMA PseudoAngles ==
  ASSUME NEW p \in Point, p.radius # 1
  PROVE  <<p.dir[1], p.dir[2], pseudo_angle(p)>> \in
           {<<5, 0, 0>>, <<4, 3, 3>>, <<3, 4, 4>>, <<0, 5, 7>>,
            <<-3, 4, 10>>, <<-4, 3, 11>>, <<-5, 0, 14>>, <<-4, -3, 17>>,
            <<-3, -4, 18>>, <<0, -5, 21>>, <<3, -4, 24>>, <<4, -3, 25>>}
<1>1. p.dir \in Direction /\ p.radius \in Radius
  BY DEF Point
<1>2. p.dir \in {<<5, 0>>, <<4, 3>>, <<3, 4>>, <<0, 5>>, <<-3, 4>>, <<-4, 3>>,
                <<-5, 0>>, <<-4, -3>>, <<-3, -4>>, <<0, -5>>, <<3, -4>>, <<4, -3>>}
  BY <1>1, Directions
<1>3. CASE p.dir[2] >= 0 /\ p.dir[1] >= 0
  <2>1. pseudo_angle(p) = (7 * p.dir[2]) \div (p.dir[1] + p.dir[2])
    BY <1>1, <1>2, <1>3 DEF pseudo_angle
  <2> QED BY <1>2, <1>3, <2>1
<1>4. CASE p.dir[2] >= 0 /\ p.dir[1] < 0
  <2>1. pseudo_angle(p) = 7 - (7 * p.dir[1]) \div (p.dir[2] - p.dir[1])
    BY <1>1, <1>2, <1>4 DEF pseudo_angle
  <2> QED BY <1>2, <1>4, <2>1
<1>5. CASE p.dir[2] < 0 /\ p.dir[1] < 0
  <2>1. pseudo_angle(p) = 14 + (-7 * p.dir[2]) \div (-p.dir[1] - p.dir[2])
    BY <1>1, <1>2, <1>5 DEF pseudo_angle
  <2> QED BY <1>2, <1>5, <2>1
<1>6. CASE p.dir[2] < 0 /\ p.dir[1] >= 0
  <2>1. pseudo_angle(p) = 21 + (7 * p.dir[1]) \div (p.dir[1] - p.dir[2])
    BY <1>1, <1>2, <1>6 DEF pseudo_angle
  <2> QED BY <1>2, <1>6, <2>1
<1> QED BY <1>2, <1>3, <1>4, <1>5, <1>6

(* The angles two directions may have.                                     *)
LEMMA Angles ==
  ASSUME NEW p \in Point, NEW q \in Point, p.radius # 1, q.radius # 1
  PROVE  <<Gap(pseudo_angle(p), pseudo_angle(q)), Dot(p, q)>> \in
           {<<0, 25>>, <<1, 24>>, <<3, 20>>, <<4, 15>>, <<6, 7>>, <<7, 0>>, <<8, -7>>,
            <<10, -15>>, <<11, -20>>, <<13, -24>>, <<14, -25>>}
BY PseudoAngles, SMTT(60) DEF Gap, Dot

(* The cosine bound of each gap.                                           *)
LEMMA CosineTable ==
  \A g \in 0 .. 14 : \A h \in 0 .. 14 : g <= h =>
    /\ Cosine[g + 1] >= Cosine[h + 1] /\ Cosine[g + 1] \in Int
    /\ SineSquared[g + 1] \in 0 .. 100
    /\ h <= 7 => SineSquared[g + 1] <= SineSquared[h + 1]
BY DEF Cosine, SineSquared

(* A wide gap means a small scalar product, which is what a bound relies   *)
(* on.                                                                     *)
LEMMA GapAndDot ==
  ASSUME NEW h, NEW dot, NEW g \in 0 .. 14, g <= h,
         <<h, dot>> \in
           {<<0, 25>>, <<1, 24>>, <<3, 20>>, <<4, 15>>, <<6, 7>>, <<7, 0>>, <<8, -7>>,
            <<10, -15>>, <<11, -20>>, <<13, -24>>, <<14, -25>>}
  PROVE  /\ 4 * dot <= Cosine[g + 1]
         /\ dot >= 0 => 25 * SineSquared[g + 1] <= 4 * (625 - dot * dot)
<1>1. h \in 0 .. 14 /\ dot \in Int /\ (dot >= 0 => h <= 7)
  OBVIOUS
<1>2. 4 * dot <= Cosine[h + 1] /\ (dot >= 0 => 25 * SineSquared[h + 1] <= 4 * (625 - dot * dot))
  BY SMTT(60) DEF Cosine, SineSquared
<1>3. /\ Cosine[g + 1] >= Cosine[h + 1] /\ Cosine[g + 1] \in Int /\ Cosine[h + 1] \in Int
      /\ SineSquared[g + 1] \in 0 .. 100 /\ SineSquared[h + 1] \in 0 .. 100
      /\ h <= 7 => SineSquared[g + 1] <= SineSquared[h + 1]
  BY <1>1, CosineTable
<1>4. 4 * dot <= Cosine[g + 1]
  BY <1>1, <1>2, <1>3
<1>5. ASSUME dot >= 0 PROVE 25 * SineSquared[g + 1] <= 4 * (625 - dot * dot)
  <2>1. dot * dot \in Int
    BY <1>1
  <2> QED BY <1>1, <1>2, <1>3, <1>5, <2>1, SMTT(60)
<1> QED BY <1>4, <1>5

(* The distance of points at radii q and r whose directions have the dot   *)
(* product dot, and the square of a distance below it.                     *)
Law(q, r, dot) == 25 * Cosh[q] * Cosh[r] - dot * Sinh[q] * Sinh[r]
LeastSquare(q, sine) == One * (One + (25 * Sinh[q] * Sinh[q] * sine) \div 100)

(* The bound of an inner radius is a radius of the cell.                   *)
LEMMA Interior ==
  ASSUME NEW q \in Radius, NEW r \in Radius, NEW dot \in {25, 24, 20, 15, 7, 0, -7, -15, -20, -24, -25},
         NEW sine \in 0 .. 100, dot >= 0 => 25 * sine <= 4 * (625 - dot * dot)
  PROVE  Law(q, r, dot) * Law(q, r, dot) >= LeastSquare(q, sine)
<1>1. CASE q = 1 BY <1>1, Tables DEF Radius, One, Law, LeastSquare
<1>2. CASE q = 2 BY <1>2, Tables DEF Radius, One, Law, LeastSquare
<1>3. CASE q = 3 BY <1>3, Tables DEF Radius, One, Law, LeastSquare
<1>4. CASE q = 4 BY <1>4, Tables DEF Radius, One, Law, LeastSquare
<1>5. CASE q = 5 BY <1>5, Tables DEF Radius, One, Law, LeastSquare
<1> QED BY <1>1, <1>2, <1>3, <1>4, <1>5 DEF Radius

(* Past the best radius a farther one is farther away.                     *)
LEMMA PastEarlier ==
  ASSUME NEW q \in Radius, NEW e \in Radius, NEW f \in Radius, e <= f, NEW c \in Int, c > 0,
         c * Sinh[q] * Cosh[f] >= 100 * Cosh[q] * Sinh[f]
  PROVE  c * Sinh[q] * Cosh[e] >= 100 * Cosh[q] * Sinh[e]
<1>1. CASE q = 1 BY <1>1, Tables DEF Radius
<1>2. CASE q = 2 BY <1>2, Tables DEF Radius
<1>3. CASE q = 3 BY <1>3, Tables DEF Radius
<1>4. CASE q = 4 BY <1>4, Tables DEF Radius
<1>5. CASE q = 5 BY <1>5, Tables DEF Radius
<1> QED BY <1>1, <1>2, <1>3, <1>4, <1>5 DEF Radius

(* A scalar product of directions is between -25 and 25.                   *)
LEMMA DotRange ==
  ASSUME NEW p \in Point, NEW q \in Point
  PROVE  /\ Dot(p, q) \in -25 .. 25 /\ Dot(p, q) = Dot(q, p) /\ Dot(p, p) = 25
         /\ p.radius \in Radius /\ q.radius \in Radius
         /\ hyperbolic_distance(p, q) =
              25 * Cosh[p.radius] * Cosh[q.radius] - Dot(p, q) * Sinh[p.radius] * Sinh[q.radius]
<1>1. /\ p.dir \in Direction /\ q.dir \in Direction /\ p.radius \in Radius /\ q.radius \in Radius
  BY DEF Point
<1>2. /\ <<p.dir[1], p.dir[2]>> \in {<<5, 0>>, <<4, 3>>, <<3, 4>>, <<0, 5>>, <<-3, 4>>, <<-4, 3>>,
                <<-5, 0>>, <<-4, -3>>, <<-3, -4>>, <<0, -5>>, <<3, -4>>, <<4, -3>>}
      /\ <<q.dir[1], q.dir[2]>> \in {<<5, 0>>, <<4, 3>>, <<3, 4>>, <<0, 5>>, <<-3, 4>>, <<-4, 3>>,
                <<-5, 0>>, <<-4, -3>>, <<-3, -4>>, <<0, -5>>, <<3, -4>>, <<4, -3>>}
  BY <1>1, Directions
<1>3. Dot(p, q) \in -25 .. 25 /\ Dot(p, q) = Dot(q, p) /\ Dot(p, p) = 25
  BY <1>2 DEF Dot
<1> QED BY <1>1, <1>3 DEF hyperbolic_distance, Dot

(* cosh r cosh s - sinh r sinh s, times k, is never below that of equals.  *)
LEMMA LawOfCosines ==
  ASSUME NEW r \in Radius, NEW s \in Radius, NEW dot \in -25 .. 25
  PROVE  /\ 25 * Cosh[r] * Cosh[s] - dot * Sinh[r] * Sinh[s] \in Int
         /\ 25 * Cosh[r] * Cosh[s] - dot * Sinh[r] * Sinh[s] >= One
         /\ 25 * Cosh[r] * Cosh[s] - dot * Sinh[r] * Sinh[s]
              = 25 * Cosh[s] * Cosh[r] - dot * Sinh[s] * Sinh[r]
         /\ 25 * Cosh[r] * Cosh[r] - 25 * Sinh[r] * Sinh[r] = One
BY Tables DEF Radius, One

(* Distances are naturals of bounded size.                                 *)
LEMMA DistanceBounds ==
  ASSUME NEW p \in Point, NEW q \in Point
  PROVE  /\ hyperbolic_distance(q, p) \in Nat /\ hyperbolic_distance(q, p) >= One
         /\ hyperbolic_distance(p, q) = hyperbolic_distance(q, p)
         /\ hyperbolic_distance(p, p) = One
<1>1. /\ hyperbolic_distance(q, p) \in Int /\ hyperbolic_distance(q, p) >= One
      /\ hyperbolic_distance(p, q) = hyperbolic_distance(q, p)
  BY DotRange, LawOfCosines
<1>2. hyperbolic_distance(p, p) = One
  BY DotRange, LawOfCosines
<1> QED BY <1>1, <1>2 DEF One

-----------------------------------------------------------------------------
(* Bounds of cells and bands.                                              *)

(* The lesser of a pair.                                                   *)
LEMMA MinPair ==
  ASSUME NEW a \in Int, NEW b \in Int
  PROVE  Min({a, b}) = IF a <= b THEN a ELSE b
BY DEF Min

(* The greater of a pair.                                                  *)
LEMMA MaxPair ==
  ASSUME NEW a \in Int, NEW b \in Int
  PROVE  Max({a, b}) = IF a >= b THEN a ELSE b
BY DEF Max

(* What the assumptions say of the edges of the bands.                     *)
LEMMA EdgeFacts ==
  ASSUME NEW b \in Bands
  PROVE  Edge[b] \in Radius /\ Edge[b + 1] \in Radius /\ Edge[b] < Edge[b + 1]
BY EdgeAssumption DEF Bands

(* What a bound that exceeds the limit says of a point of the band whose   *)
(* angle to the query is the gap or more.                                  *)
LEMMA BoundForGap ==
  ASSUME NEW q \in Point, NEW p \in Point, NEW b \in Bands,
         Edge[b] <= p.radius, p.radius <= Edge[b + 1],
         NEW g \in 0 .. 14,
         p.radius = 1 \/ q.radius = 1 \/ g <= Gap(pseudo_angle(q), pseudo_angle(p)),
         NEW limit \in Nat, exceeds(bound_for_gap(q, b, g), limit)
  PROVE  hyperbolic_distance(q, p) > limit
<1> DEFINE A == Cosh[q.radius]
           B == Sinh[q.radius]
           c == Cosine[g + 1]
           dot == Dot(q, p)
           dist == hyperbolic_distance(q, p)
           At(e) == 25 * (100 * A * Cosh[e] - c * B * Sinh[e])
<1>1. /\ q.radius \in Radius /\ p.radius \in Radius /\ dot \in -25 .. 25
      /\ dist = 25 * A * Cosh[p.radius] - dot * B * Sinh[p.radius]
      /\ dist \in Nat /\ dist >= One /\ c \in Int /\ SineSquared[g + 1] \in 0 .. 100
  BY DotRange, DistanceBounds, CosineTable
<1>2. /\ Edge[b] \in Radius /\ Edge[b + 1] \in Radius
  BY EdgeFacts
<1>3. limit # 0 /\ limit > 0
  BY DEF exceeds, NoLimit
<1>4. /\ A \in Int /\ B \in Int /\ B >= 0 /\ Cosh[p.radius] \in Int /\ Sinh[p.radius] \in Int
      /\ Sinh[p.radius] >= 0 /\ (q.radius = 1 => B = 0) /\ (p.radius = 1 => Sinh[p.radius] = 0)
      /\ \A e \in Radius : Cosh[e] \in Int /\ Sinh[e] \in Int
  BY <1>1, Tables DEF Radius
<1> HIDE DEF A, B, c, dot, dist
<1>5. /\ 100 * dist >= At(p.radius)
      /\ dist * dist >= One * (One + (25 * B * B * SineSquared[g + 1]) \div 100)
  <2>1. CASE p.radius # 1 /\ q.radius # 1
    <3>1. <<Gap(pseudo_angle(q), pseudo_angle(p)), dot>> \in
           {<<0, 25>>, <<1, 24>>, <<3, 20>>, <<4, 15>>, <<6, 7>>, <<7, 0>>, <<8, -7>>,
            <<10, -15>>, <<11, -20>>, <<13, -24>>, <<14, -25>>}
      BY <2>1, Angles DEF dot
    <3>2. 4 * dot <= c /\ (dot >= 0 => 25 * SineSquared[g + 1] <= 4 * (625 - dot * dot))
      BY <2>1, <3>1, GapAndDot DEF c
    <3>3. dot \in {25, 24, 20, 15, 7, 0, -7, -15, -20, -24, -25}
      BY <3>1
    <3>4. dist * dist >= One * (One + (25 * B * B * SineSquared[g + 1]) \div 100)
      <4>1. Law(q.radius, p.radius, dot) * Law(q.radius, p.radius, dot) >= LeastSquare(q.radius, SineSquared[g + 1])
        BY <1>1, <3>2, <3>3, Interior
      <4>2. dist = Law(q.radius, p.radius, dot)
        BY <1>1 DEF Law, A, B
      <4> QED BY <4>1, <4>2 DEF LeastSquare, B
    <3>5. 100 * dist >= At(p.radius)
      <4> DEFINE S == B * Sinh[p.radius]
                 C == A * Cosh[p.radius]
      <4>1. S \in Int /\ S >= 0 /\ C \in Int
        BY <1>4
      <4>2. (c - 4 * dot) * S >= 0
        BY <1>1, <3>2, <4>1
      <4>3. dist = 25 * C - dot * S /\ At(p.radius) = 25 * (100 * C - c * S)
        BY <1>1, <1>4
      <4> HIDE DEF S, C
      <4>4. 100 * (25 * C - dot * S) - 25 * (100 * C - c * S) = 25 * ((c - 4 * dot) * S)
        BY <1>1, <4>1
      <4>5. 100 * dist - At(p.radius) >= 0
        BY <4>2, <4>3, <4>4, <1>1, <4>1
      <4> QED BY <4>5, <4>3, <4>1, <1>1
    <3> QED BY <3>4, <3>5
  <2>2. CASE q.radius = 1 \/ p.radius = 1
    <3>1. B * Sinh[p.radius] = 0
      BY <2>2, <1>4
    <3>2. dist = 25 * A * Cosh[p.radius] - 0 * B * Sinh[p.radius] /\ 100 * dist = At(p.radius)
      <4>1. dot * B * Sinh[p.radius] = 0 /\ c * B * Sinh[p.radius] = 0
        <5>1. dot * B * Sinh[p.radius] = dot * (B * Sinh[p.radius]) /\ c * B * Sinh[p.radius] = c * (B * Sinh[p.radius])
          BY <1>1, <1>4
        <5> QED BY <3>1, <5>1, <1>1
      <4>2. 0 * B * Sinh[p.radius] = 0 /\ 100 * A * Cosh[p.radius] = 4 * (25 * A * Cosh[p.radius])
        BY <1>4
      <4>3. 25 * A * Cosh[p.radius] \in Int /\ 100 * A * Cosh[p.radius] \in Int
        BY <1>4
      <4> QED BY <4>1, <4>2, <4>3, <1>1
    <3>3. dist * dist >= One * (One + (25 * B * B * SineSquared[g + 1]) \div 100)
      <4>1. Law(q.radius, p.radius, 0) * Law(q.radius, p.radius, 0) >= LeastSquare(q.radius, SineSquared[g + 1])
        BY <1>1, Interior
      <4>2. dist = Law(q.radius, p.radius, 0)
        BY <3>2 DEF Law, A, B
      <4> QED BY <4>1, <4>2 DEF LeastSquare, B
    <3> QED BY <3>2, <3>3, <1>1
  <2> QED BY <2>1, <2>2
<1>6. \A e \in Radius : At(e) \in Int
  <2> SUFFICES ASSUME NEW e \in Radius PROVE At(e) \in Int
    OBVIOUS
  <2>1. Cosh[e] \in Int /\ Sinh[e] \in Int
    BY <1>4
  <2> QED BY <1>1, <1>4, <2>1
<1>7. \A e \in Radius : c * B * Cosh[e] \in Int /\ 100 * A * Sinh[e] \in Int
  <2> SUFFICES ASSUME NEW e \in Radius PROVE c * B * Cosh[e] \in Int /\ 100 * A * Sinh[e] \in Int
    OBVIOUS
  <2>1. Cosh[e] \in Int /\ Sinh[e] \in Int
    BY <1>4
  <2> QED BY <1>1, <1>4, <2>1
<1>8. \A e \in Radius : At(e) > 100 * limit /\ At(e) <= At(p.radius) => dist > limit
  <2> SUFFICES ASSUME NEW e \in Radius, At(e) > 100 * limit, At(e) <= At(p.radius)
               PROVE  dist > limit
    OBVIOUS
  <2>1. At(e) \in Int /\ At(p.radius) \in Int
    BY <1>6, <1>1
  <2> HIDE DEF At
  <2> QED BY <1>1, <1>5, <2>1
<1>9. CASE c <= 0 \/ ~(c * B * Cosh[Edge[b]] >= 100 * A * Sinh[Edge[b]])
  <2>1. c <= 0 \/ ~(c * B * Cosh[Edge[b + 1]] >= 100 * A * Sinh[Edge[b + 1]])
    <3> SUFFICES ASSUME c > 0, c * B * Cosh[Edge[b + 1]] >= 100 * A * Sinh[Edge[b + 1]]
                 PROVE  FALSE
      BY <1>1
    <3>1. c * B * Cosh[Edge[b]] >= 100 * A * Sinh[Edge[b]]
      BY <1>1, <1>2, PastEarlier DEF A, B
    <3> QED BY <3>1, <1>9, <1>1
  <2>2. bound_for_gap(q, b, g) = [squared |-> FALSE, value |-> At(Edge[b])]
    <3>1. CASE c <= 0
      BY <3>1, <1>1 DEF bound_for_gap, A, B, c
    <3>2. CASE /\ ~(c * B * Cosh[Edge[b]] >= 100 * A * Sinh[Edge[b]])
               /\ ~(c * B * Cosh[Edge[b + 1]] >= 100 * A * Sinh[Edge[b + 1]])
      BY <3>2 DEF bound_for_gap, A, B, c
    <3> QED BY <3>1, <3>2, <1>9, <2>1
  <2>3. At(Edge[b]) > 100 * limit
    BY <2>2 DEF exceeds
  <2>4. c <= 0 \/ c * B * Cosh[Edge[b]] < 100 * A * Sinh[Edge[b]]
    BY <1>9, <1>2, <1>7
  <2>5. 100 * A * Cosh[Edge[b]] - c * B * Sinh[Edge[b]] <= 100 * A * Cosh[p.radius] - c * B * Sinh[p.radius]
    BY <1>1, <1>2, <2>4, PlainBelow DEF A, B
  <2>6. At(Edge[b]) <= At(p.radius)
    BY <1>1, <1>2, <1>4, <2>5
  <2> QED BY <1>2, <1>8, <2>3, <2>6 DEF dist
<1>10. CASE c > 0 /\ c * B * Cosh[Edge[b + 1]] >= 100 * A * Sinh[Edge[b + 1]]
  <2>1. c * B * Cosh[Edge[b]] >= 100 * A * Sinh[Edge[b]]
    BY <1>1, <1>2, <1>10, PastEarlier DEF A, B
  <2>2. bound_for_gap(q, b, g) = [squared |-> FALSE, value |-> At(Edge[b + 1])]
    BY <1>10, <2>1, <1>1 DEF bound_for_gap, A, B, c
  <2>3. At(Edge[b + 1]) > 100 * limit
    BY <2>2 DEF exceeds
  <2>5. 100 * A * Cosh[Edge[b + 1]] - c * B * Sinh[Edge[b + 1]]
          <= 100 * A * Cosh[p.radius] - c * B * Sinh[p.radius]
    BY <1>1, <1>2, <1>10, PlainAbove DEF A, B
  <2>6. At(Edge[b + 1]) <= At(p.radius)
    BY <1>1, <1>2, <1>4, <2>5
  <2> QED BY <1>2, <1>8, <2>3, <2>6 DEF dist
<1>11. CASE /\ c > 0 /\ c * B * Cosh[Edge[b]] >= 100 * A * Sinh[Edge[b]]
            /\ ~(c * B * Cosh[Edge[b + 1]] >= 100 * A * Sinh[Edge[b + 1]])
  <2> DEFINE v == One + (25 * B * B * SineSquared[g + 1]) \div 100
  <2>1. bound_for_gap(q, b, g) = [squared |-> TRUE, value |-> v]
    BY <1>11, <1>1 DEF bound_for_gap, A, B, c
  <2>2. (v * One) \div limit > limit
    BY <2>1 DEF exceeds
  <2>3. v \in Int /\ One \in Nat /\ v * One \in Int
    BY <1>1, <1>4 DEF One
  <2>4. dist * dist >= One * v
    BY <1>5
  <2> HIDE DEF v
  <2>5. \A x \in Int : x \div limit > limit => x > limit * limit
    BY <1>3, SMTT(60)
  <2>6. v * One > limit * limit
    BY <2>2, <2>3, <2>5
  <2>7. dist * dist > limit * limit
    BY <2>3, <2>4, <2>6, <1>1
  <2>8. ASSUME dist <= limit PROVE FALSE
    BY <2>7, <2>8, <1>1, SMTT(60)
  <2> QED BY <2>8, <1>1 DEF dist
<1> QED BY <1>1, <1>9, <1>10, <1>11, SMTT(60) DEF dist

(* Pseudo-angles are less than a turn.                                     *)
LEMMA AngleRange ==
  ASSUME NEW p \in Point
  PROVE  pseudo_angle(p) \in 0 .. 27 /\ (p.radius = 1 => pseudo_angle(p) = 0)
<1>1. CASE p.radius = 1
  BY <1>1 DEF pseudo_angle
<1>2. CASE p.radius # 1
  BY <1>2, PseudoAngles
<1> QED BY <1>1, <1>2

(* A gap is at most half a turn.                                           *)
LEMMA GapRange ==
  ASSUME NEW a \in 0 .. 28, NEW h \in 0 .. 28
  PROVE  Gap(a, h) \in 0 .. 14
BY DEF Gap

(* The numbers of sectors a band may have divide a turn.                   *)
LEMMA SectorCounts ==
  ASSUME NEW b \in Bands
  PROVE  Sectors[b] \in {1, 2, 4, 7, 14, 28}
<1>1. Sectors[b] \in Nat /\ Sectors[b] > 0 /\ 28 % Sectors[b] = 0
  BY SectorsAssumption, EdgeAssumption DEF Bands, Turn
<1>2. \A n \in Nat : n > 0 /\ 28 % n = 0 => n \in {1, 2, 4, 7, 14, 28}
  <2>1. \A n \in Nat : n > 28 => 28 % n = 28
    OBVIOUS
  <2>2. \A n \in 1 .. 28 : 28 % n = 0 => n \in {1, 2, 4, 7, 14, 28}
    OBVIOUS
  <2> QED BY <2>1, <2>2
<1> QED BY <1>1, <1>2

(* The gap of a sector, as cell_bound takes it, is never above that of a   *)
(* point of the sector; that of its offset is below that too.              *)
LEMMA SectorGaps ==
  ASSUME NEW S \in {1, 2, 4, 7, 14, 28}, NEW a \in 0 .. 27, NEW here \in 0 .. 27,
         NEW s, s = (a * S) \div 28, NEW lo, lo = s * (28 \div S), NEW hi, hi = (s + 1) * (28 \div S)
  PROVE  /\ s \in 0 .. S - 1
         /\ ~(lo <= here /\ here < hi) => Gap(here, lo) <= Gap(here, a) \/ Gap(here, hi) <= Gap(here, a)
         /\ Gap(here, lo) \in 0 .. 14 /\ Gap(here, hi) \in 0 .. 14 /\ Gap(here, a) \in 0 .. 14
<1>1. lo \in Int /\ hi \in Int /\ lo <= a /\ a < hi /\ lo >= 0 /\ hi <= 28 /\ s \in 0 .. S - 1
  <2>1. CASE S = 1 BY <2>1
  <2>2. CASE S = 2 BY <2>2
  <2>3. CASE S = 4 BY <2>3
  <2>4. CASE S = 7 BY <2>4
  <2>5. CASE S = 14 BY <2>5
  <2>6. CASE S = 28 BY <2>6
  <2> QED BY <2>1, <2>2, <2>3, <2>4, <2>5, <2>6
<1>2. ASSUME ~(lo <= here /\ here < hi)
      PROVE  Gap(here, lo) <= Gap(here, a) \/ Gap(here, hi) <= Gap(here, a)
  BY <1>1, <1>2 DEF Gap
<1>3. Gap(here, lo) \in 0 .. 14 /\ Gap(here, hi) \in 0 .. 14 /\ Gap(here, a) \in 0 .. 14
  BY <1>1, GapRange, SMTT(60)
<1> QED BY <1>1, <1>2, <1>3

(* How far the sector of a is from that of here, of S sectors.             *)
SectorsOff(S, here, a) ==
  LET raw == ((a * S) \div 28 - (here * S) \div 28) % S
  IN  IF raw <= S - raw THEN raw ELSE S - raw

(* What is beyond the offset of a sector is that far from each point of    *)
(* it.                                                                     *)
LEMMA OffsetGaps ==
  ASSUME NEW S \in {1, 2, 4, 7, 14, 28}, NEW a \in 0 .. 27, NEW here \in 0 .. 27
  PROVE  /\ SectorsOff(S, here, a) \in Nat
         /\ (SectorsOff(S, here, a) - 1) * (28 \div S) <= Gap(here, a)
<1>1. CASE S = 1 BY <1>1 DEF Gap, SectorsOff
<1>2. CASE S = 2 BY <1>2 DEF Gap, SectorsOff
<1>3. CASE S = 4 BY <1>3 DEF Gap, SectorsOff
<1>4. CASE S = 7 BY <1>4 DEF Gap, SectorsOff
<1>5. CASE S = 14 BY <1>5 DEF Gap, SectorsOff
<1>6. CASE S = 28 BY <1>6 DEF Gap, SectorsOff
<1> QED BY <1>1, <1>2, <1>3, <1>4, <1>5, <1>6

(* The lower bound of a cell is at most the distance to each point of it:  *)
(* the bound that prunes a sector is sound.                                *)
LEMMA CellExceeds ==
  ASSUME NEW q \in Point, NEW p \in Point, NEW b \in Bands,
         Edge[b] <= p.radius, p.radius <= Edge[b + 1],
         NEW s, s = sector_from_pseudo(p, Sectors[b]),
         NEW limit \in Nat, exceeds(cell_bound(q, b, s), limit)
  PROVE  hyperbolic_distance(q, p) > limit
<1> DEFINE S == Sectors[b]
           a == pseudo_angle(p)
           here == pseudo_angle(q)
           lo == s * (28 \div S)
           hi == (s + 1) * (28 \div S)
           Circular(x) == LET d == IF x > here THEN x - here ELSE here - x IN Min({d, Turn - d})
           gap == IF lo <= here /\ here < hi THEN 0 ELSE Min({Circular(lo), Circular(hi)})
<1>1. S \in {1, 2, 4, 7, 14, 28} /\ a \in 0 .. 27 /\ here \in 0 .. 27 /\ s = (a * S) \div 28
  BY SectorCounts, AngleRange DEF sector_from_pseudo, Turn
<1>2. cell_bound(q, b, s) = bound_for_gap(q, b, gap)
  BY DEF cell_bound, Turn
<1>3. /\ s \in 0 .. S - 1
      /\ ~(lo <= here /\ here < hi) => Gap(here, lo) <= Gap(here, a) \/ Gap(here, hi) <= Gap(here, a)
      /\ Gap(here, lo) \in 0 .. 14 /\ Gap(here, hi) \in 0 .. 14 /\ Gap(here, a) \in 0 .. 14
  BY <1>1, SectorGaps, ZenonT(60)
<1>4. lo \in Int /\ hi \in Int
  BY <1>1, <1>3
<1>5. Circular(lo) = Gap(here, lo) /\ Circular(hi) = Gap(here, hi)
  <2>1. \A x \in Int : Circular(x) = Gap(here, x)
    <3> SUFFICES ASSUME NEW x \in Int PROVE Circular(x) = Gap(here, x)
      OBVIOUS
    <3> DEFINE d == IF x > here THEN x - here ELSE here - x
               e == IF here > x THEN here - x ELSE x - here
    <3>1. d \in Int /\ 28 - d \in Int /\ d = e
      BY <1>1
    <3>2. Min({d, 28 - d}) = IF d <= 28 - d THEN d ELSE 28 - d
      BY <3>1, MinPair
    <3> QED BY <3>1, <3>2 DEF Gap, Turn
  <2> QED BY <1>4, <2>1
<1>6. gap \in 0 .. 14 /\ gap <= Gap(here, a)
  <2>1. CASE lo <= here /\ here < hi
    BY <2>1, <1>3
  <2>2. CASE ~(lo <= here /\ here < hi)
    <3>1. gap = Min({Gap(here, lo), Gap(here, hi)})
      BY <2>2, <1>5
    <3>2. gap = IF Gap(here, lo) <= Gap(here, hi) THEN Gap(here, lo) ELSE Gap(here, hi)
      BY <3>1, <1>3, MinPair, SMTT(60)
    <3> QED BY <2>2, <3>2, <1>3
  <2> QED BY <2>1, <2>2
<1> HIDE DEF gap
<1> QED BY <1>2, <1>6, BoundForGap

(* The lower bound of a band is at most the distance to each point of it:  *)
(* the bound that prunes a band is sound.                                  *)
LEMMA EnvelopeExceeds ==
  ASSUME NEW q \in Point, NEW p \in Point, NEW b \in Bands,
         Edge[b] <= p.radius, p.radius <= Edge[b + 1],
         NEW off \in Nat, off <= Offset(q, b, sector_from_pseudo(p, Sectors[b])),
         NEW limit \in Nat, exceeds(envelope(q, b, off), limit)
  PROVE  hyperbolic_distance(q, p) > limit
<1> DEFINE S == Sectors[b]
           a == pseudo_angle(p)
           here == pseudo_angle(q)
           raw == ((a * S) \div 28 - (here * S) \div 28) % S
           far == IF raw <= S - raw THEN raw ELSE S - raw
           w == 28 \div S
           gap == Min({14, Max({off - 1, 0}) * w})
<1>1. S \in {1, 2, 4, 7, 14, 28} /\ a \in 0 .. 27 /\ here \in 0 .. 27
  BY SectorCounts, AngleRange, SMTT(60)
<1>2. far \in Nat /\ (far - 1) * w <= Gap(here, a)
  <2> HIDE DEF S, a, here
  <2>1. far = SectorsOff(S, here, a)
    BY DEF SectorsOff
  <2> HIDE DEF far
  <2> QED BY <1>1, <2>1, OffsetGaps, ZenonT(60)
<1>3. Offset(q, b, sector_from_pseudo(p, S)) = far
  <2>1. Offset(q, b, sector_from_pseudo(p, S)) = Min({raw, S - raw})
    BY DEF Offset, sector_from_pseudo, Turn
  <2>2. raw \in Int /\ S - raw \in Int
    <3> DEFINE x == (a * S) \div 28 - (here * S) \div 28
    <3>1. (a * S) \div 28 \in Int /\ (here * S) \div 28 \in Int
      BY <1>1
    <3>2. x \in Int
      BY <3>1
    <3> HIDE DEF x
    <3>3. x % S \in Int
      BY <3>2, <1>1
    <3> QED BY <3>3, <1>1 DEF x
  <2> HIDE DEF raw
  <2> QED BY <2>1, <2>2, MinPair
<1>4. envelope(q, b, off) = bound_for_gap(q, b, gap)
  BY DEF envelope, Turn
<1>5. w \in {28, 14, 7, 4, 2, 1} /\ far \in Nat /\ off <= far
  BY <1>1, <1>2, <1>3
<1>6. Gap(here, a) \in 0 .. 14
  BY <1>1 DEF Gap
<1> HIDE DEF w, far, S
<1>7. Max({off - 1, 0}) = IF off - 1 >= 0 THEN off - 1 ELSE 0
  BY MaxPair
<1> DEFINE m == Max({off - 1, 0}) * w
<1>8. m \in Nat /\ m <= Gap(here, a)
  <2>1. CASE off = 0
    BY <2>1, <1>5, <1>6, <1>7
  <2>2. CASE off # 0
    <3>1. m = (off - 1) * w
      BY <2>2, <1>7
    <3>2. (off - 1) * w <= (far - 1) * w /\ (off - 1) * w \in Nat /\ (far - 1) * w \in Int
      BY <2>2, <1>5
    <3> HIDE DEF m
    <3> QED BY <3>1, <3>2, <1>2, <1>6
  <2> QED BY <2>1, <2>2
<1> HIDE DEF m
<1>9. gap = IF 14 <= m THEN 14 ELSE m
  <2>1. gap = Min({14, m})
    BY DEF m
  <2> HIDE DEF gap
  <2> QED BY <1>8, <2>1, MinPair
<1>10. gap \in 0 .. 14 /\ gap <= Gap(here, a)
  BY <1>6, <1>8, <1>9
<1> HIDE DEF gap
<1> QED BY <1>4, <1>10, BoundForGap

-----------------------------------------------------------------------------
(* Bands *)

(* Edges grow from a band to the next, by induction over bands.            *)
LEMMA EdgesGrow ==
  ASSUME NEW b \in Bands, NEW n \in Nat, b + 1 + n \in DOMAIN Edge
  PROVE  Edge[b + 1] <= Edge[b + 1 + n]
<1> DEFINE I == {m \in Nat : b + 1 + m \in DOMAIN Edge => Edge[b + 1] <= Edge[b + 1 + m]}
<1>1. DOMAIN Edge = 1 .. Len(Sectors) + 1 /\ Len(Sectors) \in Nat /\ b \in 1 .. Len(Sectors)
  BY EdgeAssumption DEF Bands
<1>2. \A e \in DOMAIN Edge : Edge[e] \in Int
  BY EdgeAssumption, SMTT(60) DEF Radius
<1>3. 0 \in I
  BY <1>1, <1>2
<1>4. ASSUME NEW m \in I PROVE m + 1 \in I
  <2> SUFFICES ASSUME b + 1 + (m + 1) \in DOMAIN Edge
               PROVE  Edge[b + 1] <= Edge[b + 1 + (m + 1)]
    OBVIOUS
  <2>1. b + 1 + m \in Bands /\ b + 1 + m \in DOMAIN Edge /\ b + 1 \in DOMAIN Edge
    BY <1>1 DEF Bands
  <2>2. Edge[b + 1 + m] < Edge[(b + 1 + m) + 1]
    BY <2>1, EdgeAssumption
  <2>3. Edge[b + 1] <= Edge[b + 1 + m]
    BY <2>1
  <2>4. (b + 1 + m) + 1 = b + 1 + (m + 1)
    BY <1>1
  <2> QED BY <1>2, <2>1, <2>2, <2>3, <2>4
<1>5. I \subseteq Nat
  OBVIOUS
<1> HIDE DEF I
<1>6. n \in I
  BY <1>3, <1>4, <1>5, SetInduction
<1> QED BY <1>6 DEF I

(* So they increase.                                                       *)
LEMMA EdgesIncrease ==
  ASSUME NEW b \in Bands, NEW c \in Bands, b < c
  PROVE  Edge[b + 1] <= Edge[c]
<1>1. c \in DOMAIN Edge /\ c - b - 1 \in Nat /\ b + 1 + (c - b - 1) = c
  BY EdgeAssumption DEF Bands
<1> QED BY <1>1, EdgesGrow

(* A point lies between the edges of its band.                             *)
LEMMA BandOf ==
  ASSUME NEW p \in Point
  PROVE  /\ band_of(p) \in Bands
         /\ Edge[band_of(p)] <= p.radius /\ p.radius <= Edge[band_of(p) + 1]
<1> DEFINE below == {b \in Bands : Edge[b] <= p.radius}
           rest == {n \in Nat : Len(Sectors) - n \in below}
<1>1. p.radius \in 1 .. 5 /\ Len(Sectors) \in Nat /\ Len(Edge) = Len(Sectors) + 1
  BY EdgeAssumption DEF Point, Radius
<1>2. 1 \in below
  BY <1>1, EdgeAssumption DEF Bands
<1>3. rest # {}
  <2>1. Len(Sectors) - (Len(Sectors) - 1) = 1 /\ Len(Sectors) - 1 \in Nat
    BY <1>1, EdgeAssumption
  <2> QED BY <1>2, <2>1
<1>4. PICK n \in rest : \A m \in rest : n <= m
  BY <1>3, LeastOf
<1> DEFINE b == Len(Sectors) - n
<1>5. b \in below /\ b \in Bands /\ b \in Int
  BY <1>1 DEF Bands
<1>6. \A c \in below : b >= c
  <2> SUFFICES ASSUME NEW c \in below PROVE b >= c
    OBVIOUS
  <2>1. c \in 1 .. Len(Sectors)
    BY DEF Bands
  <2>2. Len(Sectors) - c \in Nat /\ Len(Sectors) - (Len(Sectors) - c) = c
    BY <1>1, <2>1
  <2>3. Len(Sectors) - c \in rest
    BY <2>2
  <2>4. n <= Len(Sectors) - c
    BY <1>4, <2>3
  <2> QED BY <1>1, <2>1, <2>4
<1>7. \A c \in below : (\A d \in below : c >= d) => c = b
  <2> SUFFICES ASSUME NEW c \in below, \A d \in below : c >= d PROVE c = b
    OBVIOUS
  <2>1. c >= b /\ b >= c
    BY <1>5, <1>6
  <2>2. c \in Int
    BY DEF Bands
  <2> HIDE DEF b
  <2> QED BY <1>5, <2>1, <2>2
<1> HIDE DEF b
<1>8. band_of(p) = b
  <2>1. band_of(p) = CHOOSE c \in below : \A d \in below : c >= d
    BY DEF band_of, Max
  <2> HIDE DEF below
  <2> QED BY <1>5, <1>6, <1>7, <2>1, Zenon
<1>9. p.radius <= Edge[b + 1]
  <2>1. CASE b + 1 \in Bands
    <3>1. Edge[b + 1] \in Radius
      BY <2>1, EdgeFacts
    <3>2. b + 1 \notin below
      BY <1>5, <1>6
    <3> QED BY <1>1, <2>1, <3>1, <3>2 DEF Radius
  <2>2. CASE b + 1 \notin Bands
    <3>1. b = Len(Sectors)
      BY <1>1, <1>5, <2>2 DEF Bands
    <3> QED BY <1>1, <3>1, EdgeAssumption
  <2> QED BY <2>1, <2>2
<1> QED BY <1>5, <1>8, <1>9

(* Along a ray, what lies farther out or farther in is farther away.       *)
LEMMA RayMonotone ==
  ASSUME NEW q \in Radius, NEW e \in Radius, NEW r \in Radius,
         (q <= e /\ e <= r) \/ (r <= e /\ e <= q)
  PROVE  Law(q, e, 25) <= Law(q, r, 25) /\ Law(q, e, 25) \in Nat /\ Law(q, e, 25) >= One
<1>1. CASE q = 1 BY <1>1, Tables DEF Radius, One, Law
<1>2. CASE q = 2 BY <1>2, Tables DEF Radius, One, Law
<1>3. CASE q = 3 BY <1>3, Tables DEF Radius, One, Law
<1>4. CASE q = 4 BY <1>4, Tables DEF Radius, One, Law
<1>5. CASE q = 5 BY <1>5, Tables DEF Radius, One, Law
<1> QED BY <1>1, <1>2, <1>3, <1>4, <1>5 DEF Radius

(* Along its ray, a query is nearest to itself.                            *)
LEMMA RayNearest ==
  ASSUME NEW q \in Radius, NEW r \in Radius, NEW dot \in -25 .. 25
  PROVE  Law(q, r, 25) <= Law(q, r, dot) /\ Law(q, r, 25) \in Nat /\ Law(q, r, dot) \in Int
BY Tables DEF Radius, One, Law

(* The radial bound of a band is at most its distance along the ray.       *)
LEMMA RadialBound ==
  ASSUME NEW q \in Point, NEW b \in Bands
  PROVE  /\ radial_bound(q, b) \in Nat
         /\ radial_bound(q, b) <= Law(q.radius, Edge[b], 25)
         /\ radial_bound(q, b) <= Law(q.radius, Edge[b + 1], 25)
         /\ \/ radial_bound(q, b) = Law(q.radius, Edge[b], 25)
            \/ radial_bound(q, b) = Law(q.radius, Edge[b + 1], 25)
<1> DEFINE At(edge) == 25 * (Cosh[q.radius] * Cosh[edge] - Sinh[q.radius] * Sinh[edge])
           below == At(Edge[b])
           above == At(Edge[b + 1])
<1>1. q.radius \in Radius /\ Edge[b] \in Radius /\ Edge[b + 1] \in Radius
  BY EdgeFacts DEF Point
<1>2. \A e \in Radius : At(e) = Law(q.radius, e, 25) /\ At(e) >= One /\ At(e) \in Nat
  <2> SUFFICES ASSUME NEW e \in Radius
               PROVE  At(e) = Law(q.radius, e, 25) /\ At(e) >= One /\ At(e) \in Nat
    OBVIOUS
  <2>1. /\ Cosh[q.radius] \in Int /\ Sinh[q.radius] \in Int /\ Cosh[e] \in Int /\ Sinh[e] \in Int
    BY <1>1, Tables DEF Radius
  <2>2. At(e) = Law(q.radius, e, 25)
    BY <2>1 DEF Law
  <2>3. Law(q.radius, e, 25) \in Int /\ Law(q.radius, e, 25) >= One
    BY <1>1, LawOfCosines DEF Law
  <2> HIDE DEF At
  <2> QED BY <2>2, <2>3 DEF One
<1> HIDE DEF At
<1>3. radial_bound(q, b) = IF below >= One /\ above >= One THEN Min({below, above}) ELSE One
  BY DEF radial_bound, At
<1>4. radial_bound(q, b) = IF below <= above THEN below ELSE above
  <2>1. below \in Int /\ above \in Int /\ below >= One /\ above >= One
    BY <1>1, <1>2
  <2> QED BY <1>3, <2>1, MinPair
<1> QED BY <1>1, <1>2, <1>4

(* The bound of a band is below the distance of what lies in it, unless    *)
(* the query lies in the band too; and then no band has a lower one.       *)
LEMMA OtherBands ==
  ASSUME NEW q \in Point, NEW p \in Point, band_of(p) # band_of(q)
  PROVE  radial_bound(q, band_of(p)) <= hyperbolic_distance(q, p)
<1> DEFINE b == band_of(p)
           o == band_of(q)
<1>1. /\ b \in Bands /\ Edge[b] <= p.radius /\ p.radius <= Edge[b + 1]
      /\ o \in Bands /\ Edge[o] <= q.radius /\ q.radius <= Edge[o + 1]
  BY BandOf
<1>2. /\ q.radius \in Radius /\ p.radius \in Radius
      /\ Edge[b] \in Radius /\ Edge[b + 1] \in Radius /\ Edge[o] \in Radius /\ Edge[o + 1] \in Radius
  BY <1>1, EdgeFacts DEF Point
<1> HIDE DEF b, o
<1>3. hyperbolic_distance(q, p) = Law(q.radius, p.radius, Dot(q, p)) /\ Dot(q, p) \in -25 .. 25
  BY DotRange DEF Law
<1>4. /\ Law(q.radius, p.radius, 25) <= hyperbolic_distance(q, p)
      /\ Law(q.radius, p.radius, 25) \in Nat /\ hyperbolic_distance(q, p) \in Int
  BY <1>2, <1>3, RayNearest
<1>5. b \in Int /\ o \in Int /\ b # o
  BY <1>1 DEF Bands, b, o
<1>6. CASE b < o
  <2>1. Edge[b + 1] <= Edge[o]
    BY <1>1, <1>6, EdgesIncrease
  <2>2. p.radius <= Edge[b + 1] /\ Edge[b + 1] <= q.radius
    BY <1>1, <1>2, <2>1 DEF Radius
  <2>3. /\ Law(q.radius, Edge[b + 1], 25) <= Law(q.radius, p.radius, 25)
        /\ Law(q.radius, Edge[b + 1], 25) \in Nat
    BY <1>2, <2>2, RayMonotone
  <2>4. radial_bound(q, b) <= Law(q.radius, Edge[b + 1], 25) /\ radial_bound(q, b) \in Nat
    BY <1>1, RadialBound
  <2> QED BY <1>4, <2>3, <2>4 DEF b
<1>7. CASE o < b
  <2>1. Edge[o + 1] <= Edge[b]
    BY <1>1, <1>7, EdgesIncrease
  <2>2. q.radius <= Edge[b] /\ Edge[b] <= p.radius
    BY <1>1, <1>2, <2>1 DEF Radius
  <2>3. /\ Law(q.radius, Edge[b], 25) <= Law(q.radius, p.radius, 25)
        /\ Law(q.radius, Edge[b], 25) \in Nat
    BY <1>2, <2>2, RayMonotone
  <2>4. radial_bound(q, b) <= Law(q.radius, Edge[b], 25) /\ radial_bound(q, b) \in Nat
    BY <1>1, RadialBound
  <2> QED BY <1>4, <2>3, <2>4 DEF b
<1> QED BY <1>5, <1>6, <1>7

(* The bound of the band a query lies in is no higher than that of any     *)
(* other.                                                                  *)
LEMMA OwnBandLeast ==
  ASSUME NEW q \in Point, NEW c \in Bands
  PROVE  radial_bound(q, band_of(q)) <= radial_bound(q, c)
<1> DEFINE o == band_of(q)
<1>1. o \in Bands /\ Edge[o] <= q.radius /\ q.radius <= Edge[o + 1]
  BY BandOf
<1>2. /\ q.radius \in Radius /\ Edge[c] \in Radius /\ Edge[c + 1] \in Radius /\ Edge[c] < Edge[c + 1]
      /\ Edge[o] \in Radius /\ Edge[o + 1] \in Radius
  BY <1>1, EdgeFacts DEF Point
<1> HIDE DEF o
<1>3. /\ radial_bound(q, o) \in Nat /\ radial_bound(q, c) \in Nat
      /\ radial_bound(q, o) <= Law(q.radius, Edge[o], 25)
      /\ radial_bound(q, o) <= Law(q.radius, Edge[o + 1], 25)
      /\ \/ radial_bound(q, c) = Law(q.radius, Edge[c], 25)
         \/ radial_bound(q, c) = Law(q.radius, Edge[c + 1], 25)
  BY <1>1, RadialBound
<1>4. o \in Int /\ c \in Int
  BY <1>1 DEF Bands
<1>5. CASE o < c
  <2>1. q.radius <= Edge[o + 1] /\ Edge[o + 1] <= Edge[c] /\ Edge[o + 1] <= Edge[c + 1]
    <3>1. Edge[o + 1] <= Edge[c]
      BY <1>1, <1>5, EdgesIncrease
    <3> QED BY <1>1, <1>2, <3>1 DEF Radius
  <2>2. /\ Law(q.radius, Edge[o + 1], 25) <= Law(q.radius, Edge[c], 25)
        /\ Law(q.radius, Edge[o + 1], 25) <= Law(q.radius, Edge[c + 1], 25)
        /\ Law(q.radius, Edge[o + 1], 25) \in Nat
    BY <1>2, <2>1, RayMonotone
  <2> QED BY <1>3, <2>2 DEF o
<1>6. CASE c < o
  <2>1. Edge[o] <= q.radius /\ Edge[c] <= Edge[o] /\ Edge[c + 1] <= Edge[o]
    <3>1. Edge[c + 1] <= Edge[o]
      BY <1>1, <1>6, EdgesIncrease
    <3> QED BY <1>1, <1>2, <3>1 DEF Radius
  <2>2. /\ Law(q.radius, Edge[o], 25) <= Law(q.radius, Edge[c], 25)
        /\ Law(q.radius, Edge[o], 25) <= Law(q.radius, Edge[c + 1], 25)
        /\ Law(q.radius, Edge[o], 25) \in Nat
    BY <1>2, <2>1, RayMonotone
  <2> QED BY <1>3, <2>2 DEF o
<1>7. CASE c = o
  BY <1>3, <1>7 DEF o
<1> QED BY <1>4, <1>5, <1>6, <1>7

-----------------------------------------------------------------------------
(* Ranking: the k best of a set by score and id, which is what TopK, a     *)
(* full sort and every scan return.                                        *)

(* i comes after j: it scores higher, or the same with a greater id.       *)
Before(score, j, i) == score[j] < score[i] \/ (score[j] = score[i] /\ j < i)

(* The ids that come before i.                                             *)
Ahead(score, ids, i) == {j \in ids : Before(score, j, i)}

(* Ids that can be ranked: finitely many, each with a score.               *)
Ranked(score, ids) ==
  IsFiniteSet(ids) /\ \A i \in ids : i \in Int /\ score[i] \in Int

(* Best, by ranks: those that have fewer than k before them.               *)
LEMMA BestIs ==
  ASSUME NEW score, NEW ids, NEW k
  PROVE  Best(score, ids, k) = {i \in ids : Cardinality(Ahead(score, ids, i)) < k}
BY DEF Best, Ahead, Before

(* Before is a strict total order of the ids.                              *)
LEMMA BeforeOrder ==
  ASSUME NEW score, NEW ids, Ranked(score, ids), NEW i \in ids, NEW j \in ids, NEW m \in ids
  PROVE  /\ ~Before(score, i, i)
         /\ Before(score, i, j) /\ Before(score, j, m) => Before(score, i, m)
         /\ i = j \/ Before(score, i, j) \/ Before(score, j, i)
         /\ ~(Before(score, i, j) /\ Before(score, j, i))
BY DEF Ranked, Before

(* A part of what can be ranked can be ranked.                             *)
LEMMA RankedPart ==
  ASSUME NEW score, NEW ids, Ranked(score, ids), NEW part, part \subseteq ids
  PROVE  Ranked(score, part) /\ IsFiniteSet(part)
BY FS_Subset DEF Ranked

(* What is ahead is finite.                                                *)
LEMMA AheadFinite ==
  ASSUME NEW score, NEW ids, Ranked(score, ids), NEW i
  PROVE  IsFiniteSet(Ahead(score, ids, i)) /\ Cardinality(Ahead(score, ids, i)) \in Nat
<1>1. Ahead(score, ids, i) \subseteq ids
  BY DEF Ahead
<1>2. IsFiniteSet(Ahead(score, ids, i))
  BY <1>1, RankedPart
<1> QED BY <1>2, FS_CardinalityType

(* A part has no more elements than the whole.                             *)
LEMMA CardinalityOfPart ==
  ASSUME NEW S, NEW T, IsFiniteSet(T), S \subseteq T
  PROVE  Cardinality(S) \in Nat /\ Cardinality(T) \in Nat /\ Cardinality(S) <= Cardinality(T)
         /\ IsFiniteSet(S) /\ (S # T => Cardinality(S) < Cardinality(T))
BY FS_Subset, FS_CardinalityType

(* What is before what is ahead is ahead; so its rank is lower.            *)
LEMMA AheadNested ==
  ASSUME NEW score, NEW ids, Ranked(score, ids), NEW i \in ids, NEW j \in ids, Before(score, j, i)
  PROVE  /\ Ahead(score, ids, j) \subseteq Ahead(score, ids, i)
         /\ Cardinality(Ahead(score, ids, j)) < Cardinality(Ahead(score, ids, i))
<1>1. \A m \in ids : Before(score, m, j) => Before(score, m, i)
  BY BeforeOrder
<1>2. Ahead(score, ids, j) \subseteq Ahead(score, ids, i)
  BY <1>1 DEF Ahead
<1>3. j \in Ahead(score, ids, i) /\ j \notin Ahead(score, ids, j)
  BY BeforeOrder DEF Ahead
<1> QED BY <1>2, <1>3, AheadFinite, CardinalityOfPart

(* Ids that are ranked have a first.                                       *)
LEMMA FirstOf ==
  ASSUME NEW score, NEW ids, Ranked(score, ids), ids # {}
  PROVE  \E i \in ids : \A j \in ids : j = i \/ Before(score, i, j)
<1> DEFINE ranks == {Cardinality(Ahead(score, ids, i)) : i \in ids}
<1>1. ranks \subseteq Nat /\ ranks # {}
  BY AheadFinite
<1>2. PICK n \in ranks : \A m \in ranks : n <= m
  BY <1>1, LeastOf
<1>3. PICK i \in ids : n = Cardinality(Ahead(score, ids, i))
  OBVIOUS
<1>4. ASSUME NEW j \in ids PROVE j = i \/ Before(score, i, j)
  <2>1. CASE Before(score, j, i)
    <3>1. Cardinality(Ahead(score, ids, j)) < n
      BY <1>3, <2>1, AheadNested
    <3>2. n <= Cardinality(Ahead(score, ids, j))
      BY <1>2
    <3> QED BY <1>1, <3>1, <3>2
  <2> QED BY <2>1, BeforeOrder
<1> QED BY <1>4

(* Best is part of what it chooses from.                                   *)
LEMMA BestPart ==
  ASSUME NEW score, NEW ids, Ranked(score, ids), NEW k
  PROVE  /\ Best(score, ids, k) \subseteq ids /\ IsFiniteSet(Best(score, ids, k))
         /\ Cardinality(Best(score, ids, k)) \in Nat
<1>1. Best(score, ids, k) \subseteq ids
  BY DEF Best
<1> QED BY <1>1, RankedPart, FS_CardinalityType

(* The best are ahead of the others, and there are k of them if there are  *)
(* others.                                                                 *)
LEMMA BestDownward ==
  ASSUME NEW score, NEW ids, Ranked(score, ids), NEW k \in Nat,
         NEW i \in Best(score, ids, k), NEW j \in ids, Before(score, j, i)
  PROVE  j \in Best(score, ids, k)
<1>1. i \in ids /\ Cardinality(Ahead(score, ids, i)) < k
  BY BestIs
<1>2. Cardinality(Ahead(score, ids, j)) < Cardinality(Ahead(score, ids, i))
  BY <1>1, AheadNested
<1>3. Cardinality(Ahead(score, ids, j)) \in Nat /\ Cardinality(Ahead(score, ids, i)) \in Nat
  BY AheadFinite
<1>4. Cardinality(Ahead(score, ids, j)) < k
  BY <1>1, <1>2, <1>3
<1> QED BY <1>4, BestIs

(* Best has k ids, unless there are fewer.                                 *)
LEMMA BestFull ==
  ASSUME NEW score, NEW ids, Ranked(score, ids), NEW k \in Nat,
         NEW j \in ids \ Best(score, ids, k)
  PROVE  /\ Cardinality(Best(score, ids, k)) >= k
         /\ \A i \in Best(score, ids, k) : Before(score, i, j)
<1> DEFINE best == Best(score, ids, k)
           others == ids \ best
<1>1. Ranked(score, others)
  <2>1. others \subseteq ids
    OBVIOUS
  <2> QED BY <2>1, RankedPart
<1>2. PICK f \in others : \A m \in others : m = f \/ Before(score, f, m)
  BY <1>1, FirstOf
<1>3. Ahead(score, ids, f) \subseteq best
  <2> SUFFICES ASSUME NEW m \in ids, Before(score, m, f), m \notin best PROVE FALSE
    BY DEF Ahead
  <2>1. m = f \/ Before(score, f, m)
    BY <1>2
  <2> QED BY <2>1, BeforeOrder
<1>4. Cardinality(Ahead(score, ids, f)) >= k
  <2>1. ~(Cardinality(Ahead(score, ids, f)) < k)
    BY BestIs
  <2> QED BY <2>1, AheadFinite
<1>5. Cardinality(best) >= k
  <2>1. IsFiniteSet(best) /\ Cardinality(best) \in Nat
    BY BestPart
  <2>2. Cardinality(Ahead(score, ids, f)) <= Cardinality(best)
    BY <1>3, <2>1, CardinalityOfPart
  <2> QED BY <1>4, <2>1, <2>2, AheadFinite
<1>6. ASSUME NEW i \in best PROVE Before(score, i, j)
  <2>1. i \in ids /\ i # j
    BY BestPart
  <2>2. ~Before(score, j, i)
    BY BestDownward
  <2> QED BY <2>1, <2>2, BeforeOrder
<1> QED BY <1>5, <1>6

(* Ranking again what was best, with more, loses nothing.                  *)
LEMMA BestOfBest ==
  ASSUME NEW score, NEW all, Ranked(score, all), NEW k \in Nat,
         NEW ids, ids \subseteq all, NEW some, some \subseteq all,
         Best(score, ids, k) \subseteq some, \A i \in all : i \in ids \/ i \in some
  PROVE  Best(score, some, k) = Best(score, all, k)
<1> DEFINE best == Best(score, ids, k)
<1>1. Ranked(score, ids) /\ Ranked(score, some) /\ best \subseteq ids
  <2>1. Ranked(score, ids) /\ Ranked(score, some)
    BY RankedPart
  <2> QED BY <2>1, BestPart
<1>2. ASSUME NEW i \in Best(score, all, k) PROVE i \in Best(score, some, k)
  <2>1. i \in all /\ Cardinality(Ahead(score, all, i)) < k
    BY BestIs
  <2>2. i \in some
    <3>1. CASE i \in ids
      <4>1. Ahead(score, ids, i) \subseteq Ahead(score, all, i)
        BY DEF Ahead
      <4>2. Cardinality(Ahead(score, ids, i)) < k
        BY <2>1, <4>1, AheadFinite, CardinalityOfPart
      <4> QED BY <3>1, <4>2, BestIs
    <3> QED BY <2>1, <3>1
  <2>3. Ahead(score, some, i) \subseteq Ahead(score, all, i)
    BY <1>1 DEF Ahead
  <2>4. Cardinality(Ahead(score, some, i)) < k
    BY <2>1, <2>3, AheadFinite, CardinalityOfPart
  <2> QED BY <2>2, <2>4, BestIs
<1>3. ASSUME NEW i \in Best(score, some, k) PROVE i \in Best(score, all, k)
  <2>1. i \in some /\ i \in all /\ Cardinality(Ahead(score, some, i)) < k
    BY <1>1, BestIs
  <2>2. Ahead(score, all, i) \subseteq Ahead(score, some, i)
    <3> SUFFICES ASSUME NEW j \in ids, Before(score, j, i), j \notin best PROVE FALSE
      BY DEF Ahead
    <3>1. Cardinality(best) >= k /\ \A m \in best : Before(score, m, j)
      BY <1>1, BestFull
    <3>2. \A m \in best : Before(score, m, i)
      BY <1>1, <2>1, <3>1, BeforeOrder
    <3>3. best \subseteq Ahead(score, some, i)
      BY <3>2 DEF Ahead
    <3>4. Cardinality(best) <= Cardinality(Ahead(score, some, i))
      BY <1>1, <3>3, AheadFinite, CardinalityOfPart
    <3>5. Cardinality(best) \in Nat /\ Cardinality(Ahead(score, some, i)) \in Nat
      BY <1>1, BestPart, AheadFinite
    <3> HIDE DEF best
    <3> QED BY <2>1, <3>1, <3>4, <3>5
  <2>3. Ahead(score, all, i) = Ahead(score, some, i)
    BY <1>1, <2>2 DEF Ahead
  <2> QED BY <2>1, <2>3, BestIs
<1> QED BY <1>2, <1>3

(* What comes after all of k best changes nothing.                         *)
LEMMA BestUnchanged ==
  ASSUME NEW score, NEW all, Ranked(score, all), NEW k \in Nat, NEW ids, ids \subseteq all,
         Cardinality(Best(score, ids, k)) >= k,
         \A j \in all : j \in ids \/ \A i \in Best(score, ids, k) : Before(score, i, j)
  PROVE  Best(score, all, k) = Best(score, ids, k)
<1> DEFINE best == Best(score, ids, k)
           more == all \ ids
           some == best \cup more
<1>1. Ranked(score, ids) /\ best \subseteq ids /\ Ranked(score, some) /\ some \subseteq all
  <2>1. Ranked(score, ids)
    BY RankedPart
  <2>2. best \subseteq ids
    BY <2>1, BestPart
  <2> QED BY <2>1, <2>2, RankedPart
<1>2. Best(score, some, k) = Best(score, all, k)
  <2>1. best \subseteq some /\ \A i \in all : i \in ids \/ i \in some
    OBVIOUS
  <2> HIDE DEF some
  <2> QED BY <1>1, <2>1, BestOfBest
<1>3. ASSUME NEW i \in best PROVE i \in Best(score, some, k)
  <2>1. Ahead(score, some, i) \subseteq Ahead(score, ids, i)
    <3> SUFFICES ASSUME NEW j \in more, Before(score, j, i) PROVE FALSE
      BY <1>1 DEF Ahead
    <3> QED BY <1>1, BeforeOrder
  <2>2. Cardinality(Ahead(score, ids, i)) < k
    BY BestIs
  <2>3. Cardinality(Ahead(score, some, i)) < k
    BY <1>1, <2>1, <2>2, AheadFinite, CardinalityOfPart
  <2> QED BY <1>1, <2>3, BestIs
<1>4. ASSUME NEW i \in Best(score, some, k), i \notin best PROVE FALSE
  <2>1. i \in more /\ Cardinality(Ahead(score, some, i)) < k
    BY <1>1, <1>4, BestIs
  <2>2. best \subseteq Ahead(score, some, i)
    BY <1>1, <2>1 DEF Ahead
  <2>3. Cardinality(best) <= Cardinality(Ahead(score, some, i))
    BY <1>1, <2>2, AheadFinite, CardinalityOfPart
  <2>4. Cardinality(best) \in Nat /\ Cardinality(Ahead(score, some, i)) \in Nat
    BY <1>1, BestPart, AheadFinite
  <2> HIDE DEF best
  <2> QED BY <2>1, <2>3, <2>4 DEF best
<1> QED BY <1>2, <1>3, <1>4

(* Asking for one more and dropping an id gives the best of the others.    *)
LEMMA BestWithout ==
  ASSUME NEW score, NEW ids, Ranked(score, ids), NEW k \in Nat, NEW x
  PROVE  Best(score, Best(score, ids, k + 1) \ {x}, k) = Best(score, ids \ {x}, k)
<1> DEFINE best == Best(score, ids, k + 1)
           others == ids \ {x}
           some == best \ {x}
<1>1. /\ best \subseteq ids /\ Ranked(score, others) /\ Ranked(score, some)
      /\ some \subseteq others /\ others \subseteq ids
  <2>1. best \subseteq ids
    BY BestPart
  <2> QED BY <2>1, RankedPart
<1>2. ASSUME NEW i \in Best(score, others, k) PROVE i \in Best(score, some, k)
  <2>1. i \in ids /\ i # x /\ Cardinality(Ahead(score, others, i)) < k
    BY BestIs
  <2>2. Ahead(score, others, i) = Ahead(score, ids, i) \ {x}
    BY DEF Ahead
  <2>4. /\ Cardinality(Ahead(score, ids, i)) \in Nat /\ Cardinality(Ahead(score, others, i)) \in Nat
        /\ IsFiniteSet(Ahead(score, ids, i))
    BY <1>1, AheadFinite
  <2>3. Cardinality(Ahead(score, ids, i)) <= Cardinality(Ahead(score, others, i)) + 1
    <3> DEFINE before == Ahead(score, ids, i)
    <3> HIDE DEF before
    <3>1. Cardinality(before \ {x}) = IF x \in before THEN Cardinality(before) - 1 ELSE Cardinality(before)
      BY <2>4, FS_RemoveElement DEF before
    <3> QED BY <2>2, <2>4, <3>1 DEF before
  <2>5. i \in best
    <3>1. Cardinality(Ahead(score, ids, i)) < k + 1
      BY <2>1, <2>3, <2>4
    <3> QED BY <2>1, <3>1, BestIs
  <2>6. Ahead(score, some, i) \subseteq Ahead(score, others, i)
    BY <1>1 DEF Ahead
  <2>7. Cardinality(Ahead(score, some, i)) < k
    BY <1>1, <2>1, <2>6, AheadFinite, CardinalityOfPart, SMTT(60)
  <2> QED BY <2>1, <2>5, <2>7, BestIs
<1>3. ASSUME NEW i \in Best(score, some, k) PROVE i \in Best(score, others, k)
  <2>1. i \in best /\ i # x /\ Cardinality(Ahead(score, some, i)) < k
    BY BestIs
  <2>2. Ahead(score, others, i) = Ahead(score, some, i)
    <3>1. \A j \in ids : Before(score, j, i) => j \in best
      BY <2>1, BestDownward
    <3> QED BY <1>1, <3>1 DEF Ahead
  <2> QED BY <1>1, <2>1, <2>2, BestIs
<1> QED BY <1>2, <1>3

(* One best of all there is.                                               *)
LEMMA BestOne ==
  ASSUME NEW score, NEW ids, Ranked(score, ids), ids # {}
  PROVE  \E i \in ids : /\ Best(score, ids, 1) = {i}
                        /\ \A j \in ids : score[i] <= score[j]
<1>1. PICK i \in ids : \A j \in ids : j = i \/ Before(score, i, j)
  BY FirstOf
<1>2. Ahead(score, ids, i) = {}
  BY <1>1, BeforeOrder DEF Ahead
<1>3. i \in Best(score, ids, 1)
  BY <1>2, BestIs, FS_EmptySet
<1>4. ASSUME NEW j \in Best(score, ids, 1), j # i PROVE FALSE
  <2>1. j \in ids /\ Cardinality(Ahead(score, ids, j)) < 1
    BY BestIs
  <2>2. Cardinality(Ahead(score, ids, j)) = 0
    BY <2>1, AheadFinite
  <2>3. Ahead(score, ids, j) = {}
    BY <2>2, AheadFinite, FS_EmptySet
  <2>4. i \in Ahead(score, ids, j)
    BY <1>1, <1>4, <2>1 DEF Ahead
  <2> QED BY <2>3, <2>4
<1>5. \A j \in ids : score[i] <= score[j]
  BY <1>1 DEF Before, Ranked
<1> QED BY <1>3, <1>4, <1>5

(* No best of nothing.                                                     *)
LEMMA BestNone ==
  ASSUME NEW score, NEW ids, Ranked(score, ids)
  PROVE  Best(score, ids, 0) = {}
BY BestIs, AheadFinite

(* All of them, when that many are asked for.                              *)
LEMMA BestAll ==
  ASSUME NEW score, NEW ids, Ranked(score, ids), NEW k \in Nat, Cardinality(ids) <= k
  PROVE  Best(score, ids, k) = ids
<1> SUFFICES ASSUME NEW i \in ids PROVE i \in Best(score, ids, k)
  BY BestPart
<1>1. Ahead(score, ids, i) \subseteq ids /\ Ahead(score, ids, i) # ids /\ IsFiniteSet(ids)
  BY BeforeOrder DEF Ahead, Ranked
<1>2. /\ Cardinality(Ahead(score, ids, i)) < Cardinality(ids)
      /\ Cardinality(Ahead(score, ids, i)) \in Nat /\ Cardinality(ids) \in Nat
  BY <1>1, CardinalityOfPart
<1>3. Cardinality(Ahead(score, ids, i)) < k
  BY <1>2
<1> QED BY <1>3, BestIs

-----------------------------------------------------------------------------
(* A loop whose step is a function has its states.                         *)

(* What is defined by going on n times exists: the states of a loop.       *)
LEMMA Loop ==
  ASSUME NEW A, NEW a \in A, NEW F \in [A -> A]
  PROVE  \E g \in [Nat -> A] : g[0] = a /\ \A n \in Nat : g[n + 1] = F[g[n]]
<1> DEFINE Run(n, h) == h \in [0 .. n -> A] /\ h[0] = a /\ \A i \in 0 .. n - 1 : h[i + 1] = F[h[i]]
           runs == {n \in Nat : \E h : Run(n, h)}
<1>1. \A n \in Nat : n \in runs
  <2>1. runs \subseteq Nat
    OBVIOUS
  <2>2. 0 \in runs
    <3>1. Run(0, [i \in 0 .. 0 |-> a])
      OBVIOUS
    <3> QED BY <3>1
  <2>3. ASSUME NEW n \in runs PROVE n + 1 \in runs
    <3>1. PICK h : Run(n, h)
      OBVIOUS
    <3> DEFINE e == [i \in 0 .. n + 1 |-> IF i = n + 1 THEN F[h[n]] ELSE h[i]]
    <3>2. e \in [0 .. n + 1 -> A]
      BY <3>1
    <3>3. e[0] = a
      BY <3>1
    <3>4. ASSUME NEW i \in 0 .. (n + 1) - 1 PROVE e[i + 1] = F[e[i]]
      BY <3>1
    <3>5. Run(n + 1, e)
      BY <3>2, <3>3, <3>4
    <3> HIDE DEF Run, e
    <3> QED BY <3>5
  <2> HIDE DEF runs
  <2> QED BY <2>1, <2>2, <2>3, SetInduction
<1>2. \A n, m \in Nat : \A h, e : Run(n, h) /\ Run(m, e) /\ n <= m => h[n] = e[n]
  <2> SUFFICES ASSUME NEW n \in Nat, NEW m \in Nat, NEW h, NEW e, Run(n, h), Run(m, e), n <= m
               PROVE  h[n] = e[n]
    <3> HIDE DEF Run
    <3> QED OBVIOUS
  <2> DEFINE same == {i \in Nat : i <= n => h[i] = e[i]}
  <2>1. same \subseteq Nat /\ 0 \in same
    OBVIOUS
  <2>2. ASSUME NEW i \in same PROVE i + 1 \in same
    <3> SUFFICES ASSUME i + 1 <= n PROVE h[i + 1] = e[i + 1]
      OBVIOUS
    <3>1. i \in Nat /\ i <= n
      OBVIOUS
    <3>2. i \in 0 .. n - 1 /\ i \in 0 .. m - 1 /\ h[i] = e[i]
      BY <3>1
    <3> QED BY <3>2
  <2> HIDE DEF same
  <2>3. n \in same
    BY <2>1, <2>2, SetInduction
  <2> QED BY <2>3 DEF same
<1> DEFINE run == [n \in Nat |-> CHOOSE h : Run(n, h)]
           g == [n \in Nat |-> run[n][n]]
<1>3. \A n \in Nat : Run(n, run[n])
  <2> HIDE DEF Run
  <2> QED BY <1>1
<1>4. g \in [Nat -> A] /\ g[0] = a
  <2> HIDE DEF run
  <2>1. \A n \in Nat : run[n][n] \in A
    BY <1>3
  <2>2. run[0][0] = a
    BY <1>3
  <2> QED BY <2>1, <2>2
<1>5. ASSUME NEW n \in Nat PROVE g[n + 1] = F[g[n]]
  <2>1. Run(n, run[n]) /\ Run(n + 1, run[n + 1])
    <3> HIDE DEF Run, run
    <3>1. n + 1 \in Nat
      OBVIOUS
    <3> QED BY <1>3, <3>1
  <2>2. run[n][n] = run[n + 1][n]
    <3> HIDE DEF Run, run
    <3> QED BY <2>1, <1>2
  <2>3. run[n + 1][n + 1] = F[run[n + 1][n]]
    <3> HIDE DEF run
    <3>1. n \in 0 .. (n + 1) - 1
      OBVIOUS
    <3> QED BY <2>1, <3>1
  <2> HIDE DEF run
  <2> QED BY <2>2, <2>3
<1> HIDE DEF g
<1> QED BY <1>4, <1>5

(* A loop from a by F, its states in A.                                    *)
LoopStart(A, a, F) == a \in A /\ F \in [A -> A]
LoopStates(A, a, F, g) == g \in [Nat -> A] /\ g[0] = a /\ \A n \in Nat : g[n + 1] = F[g[n]]

(* Loop, in these words.                                                   *)
LEMMA LoopRuns ==
  ASSUME NEW A, NEW a, NEW F, LoopStart(A, a, F)
  PROVE  \E g : LoopStates(A, a, F, g)
<1>1. a \in A /\ F \in [A -> A]
  BY DEF LoopStart
<1>2. PICK g \in [Nat -> A] : g[0] = a /\ \A n \in Nat : g[n + 1] = F[g[n]]
  BY <1>1, Loop
<1> QED BY <1>2 DEF LoopStates

-----------------------------------------------------------------------------
(* What a query finds.                                                     *)

(* What a walk has found, as a function of the ids it has seen.            *)

(* An index of finitely many points.                                       *)
Index(indexed) ==
  IsFiniteSet(DOMAIN indexed) /\ \A i \in DOMAIN indexed : i \in Nat /\ indexed[i] \in Point

(* A query: a point, a number of answers and a limit.                      *)
Query(query) ==
  /\ query.at \in Point /\ query.k \in Nat /\ query.limit \in Nat
  /\ query.k > 0 => query.limit = NoLimit

(* The distances of the indexed points from a point.                       *)
Distances(indexed, q) == [i \in DOMAIN indexed |-> hyperbolic_distance(q, indexed[i])]

(* What is found among ids: the best k of those within the limit.          *)
Found(indexed, query, ids) ==
  IF query.k > 0 THEN First(indexed, query.at, ids, query.k)
                 ELSE Within(indexed, query.at, ids, query.limit)

(* The distances of an index can rank any of its ids.                      *)
LEMMA DistancesRank ==
  ASSUME NEW indexed, Index(indexed), NEW q \in Point, NEW ids, ids \subseteq DOMAIN indexed
  PROVE  /\ Ranked(Distances(indexed, q), ids)
         /\ \A i \in ids : /\ Distances(indexed, q)[i] = hyperbolic_distance(q, indexed[i])
                           /\ hyperbolic_distance(q, indexed[i]) \in Nat
                           /\ hyperbolic_distance(q, indexed[i]) >= One
<1>1. IsFiniteSet(ids)
  BY FS_Subset DEF Index
<1>2. \A i \in ids : /\ Distances(indexed, q)[i] = hyperbolic_distance(q, indexed[i])
                     /\ hyperbolic_distance(q, indexed[i]) \in Nat
                     /\ hyperbolic_distance(q, indexed[i]) >= One /\ i \in Nat
  BY DistanceBounds DEF Index, Distances
<1> QED BY <1>1, <1>2 DEF Ranked

(* The first of an index are the best by distance.                         *)
LEMMA FirstIsBest ==
  ASSUME NEW indexed, Index(indexed), NEW q \in Point, NEW ids, ids \subseteq DOMAIN indexed, NEW k
  PROVE  First(indexed, q, ids, k) = Best(Distances(indexed, q), ids, k)
<1> DEFINE score == Distances(indexed, q)
<1>1. ASSUME NEW i \in ids, NEW j \in ids PROVE Nearer(indexed, q, j, i) <=> Before(score, j, i)
  BY DistancesRank DEF Nearer, Before
<1>2. ASSUME NEW i \in ids PROVE {j \in ids : Nearer(indexed, q, j, i)} = Ahead(score, ids, i)
  BY <1>1 DEF Ahead
<1>3. Best(score, ids, k) = {i \in ids : Cardinality(Ahead(score, ids, i)) < k}
  BY BestIs
<1>4. ASSUME NEW i \in ids PROVE i \in First(indexed, q, ids, k) <=> i \in Best(score, ids, k)
  <2>1. i \in First(indexed, q, ids, k) <=> Cardinality({j \in ids : Nearer(indexed, q, j, i)}) < k
    BY DEF First
  <2>2. i \in Best(score, ids, k) <=> Cardinality(Ahead(score, ids, i)) < k
    BY <1>3
  <2>3. {j \in ids : Nearer(indexed, q, j, i)} = Ahead(score, ids, i)
    BY <1>2
  <2> QED BY <2>1, <2>2, <2>3
<1> QED BY <1>3, <1>4 DEF First

(* What is found is part of what was looked through.                       *)
LEMMA FoundPart ==
  ASSUME NEW indexed, NEW query, NEW ids
  PROVE  Found(indexed, query, ids) \subseteq ids
BY DEF Found, First, Within

(* So is the first.                                                        *)
LEMMA FirstPart ==
  ASSUME NEW indexed, NEW q, NEW ids, NEW k
  PROVE  First(indexed, q, ids, k) \subseteq ids
BY DEF First

(* Visiting a cell finds what there is among what was seen and its ids.    *)
LEMMA VisitFound ==
  ASSUME NEW indexed, Index(indexed), NEW query, Query(query), NEW cell,
         NEW seen, seen \subseteq DOMAIN indexed,
         NEW all, all = seen \cup Members(indexed, cell)
  PROVE  visit(indexed, query, Found(indexed, query, seen), cell) = Found(indexed, query, all)
<1> DEFINE members == Members(indexed, cell)
           score == Distances(indexed, query.at)
<1>1. members \subseteq DOMAIN indexed /\ all \subseteq DOMAIN indexed /\ query.at \in Point
  BY DEF Members, Query
<1>2. CASE query.k > 0
  <2> DEFINE best == Best(score, seen, query.k)
             some == best \cup members
  <2>1. Found(indexed, query, seen) = best /\ Found(indexed, query, all) = Best(score, all, query.k)
    BY <1>1, <1>2, FirstIsBest DEF Found
  <2>2. Ranked(score, all) /\ Ranked(score, seen)
    BY <1>1, DistancesRank
  <2>3. best \subseteq seen
    BY <2>2, BestPart
  <2>4. some \subseteq DOMAIN indexed /\ some \subseteq all /\ seen \subseteq all /\ best \subseteq some
        /\ \A i \in all : i \in seen \/ i \in some
    BY <1>1, <2>3
  <2>5. visit(indexed, query, best, cell) = First(indexed, query.at, some, query.k)
    BY <1>2 DEF visit
  <2> HIDE DEF some
  <2>6. First(indexed, query.at, some, query.k) = Best(score, some, query.k)
    BY <1>1, <2>4, FirstIsBest
  <2>7. Best(score, some, query.k) = Best(score, all, query.k)
    BY <2>2, <2>4, BestOfBest DEF Query
  <2> QED BY <2>1, <2>5, <2>6, <2>7
<1>3. CASE ~(query.k > 0)
  BY <1>3 DEF Found, visit, Within
<1> QED BY <1>2, <1>3

(* Numbers of finitely many ids have a greatest.                           *)
LEMMA GreatestOf ==
  ASSUME NEW ids, IsFiniteSet(ids), ids # {}, NEW d, \A i \in ids : i \in Int /\ d[i] \in Int
  PROVE  /\ \E i \in ids : Max({d[j] : j \in ids}) = d[i]
         /\ \A j \in ids : d[j] <= Max({d[i] : i \in ids})
<1> DEFINE minus == [i \in ids |-> -d[i]]
           S == {d[j] : j \in ids}
<1>1. Ranked(minus, ids)
  BY DEF Ranked
<1>2. PICK i \in ids : \A j \in ids : j = i \/ Before(minus, i, j)
  BY <1>1, FirstOf
<1>3. \A j \in ids : d[j] <= d[i]
  BY <1>2 DEF Before
<1>4. d[i] \in S /\ \A y \in S : d[i] >= y
  BY <1>3
<1>5. Max(S) \in S /\ \A y \in S : Max(S) >= y
  BY <1>4 DEF Max
<1> QED BY <1>5

(* The ceiling, when there are k found, is the distance of the last;       *)
(* otherwise the limit.                                                    *)
LEMMA CeilingIs ==
  ASSUME NEW indexed, Index(indexed), NEW query, Query(query),
         NEW seen, seen \subseteq DOMAIN indexed,
         NEW limit, limit = ceiling(indexed, query, Found(indexed, query, seen))
  PROVE  /\ limit \in Nat
         /\ query.k = 0 => limit = query.limit
         /\ query.k > 0 /\ limit # NoLimit =>
              /\ Cardinality(Found(indexed, query, seen)) = query.k
              /\ \E i \in Found(indexed, query, seen) :
                   hyperbolic_distance(query.at, indexed[i]) = limit
              /\ \A i \in Found(indexed, query, seen) :
                   hyperbolic_distance(query.at, indexed[i]) <= limit
<1> DEFINE found == Found(indexed, query, seen)
           dist == [i \in found |-> hyperbolic_distance(query.at, indexed[i])]
<1>1. found \subseteq seen /\ found \subseteq DOMAIN indexed /\ IsFiniteSet(found) /\ query.at \in Point
  <2>1. found \subseteq seen
    BY FoundPart
  <2> QED BY <2>1, FS_Subset DEF Index, Query
<1>2. \A i \in found : i \in Int /\ dist[i] \in Int /\ dist[i] \in Nat
                       /\ dist[i] = hyperbolic_distance(query.at, indexed[i])
  BY <1>1, DistanceBounds DEF Index
<1>3. CASE query.k > 0 /\ Cardinality(found) = query.k
  <2>1. found # {}
    BY <1>3, FS_EmptySet DEF Query
  <2>2. {hyperbolic_distance(query.at, indexed[i]) : i \in found} = {dist[i] : i \in found}
    OBVIOUS
  <2>3. limit = Max({dist[i] : i \in found})
    BY <1>3, <2>2 DEF ceiling
  <2> HIDE DEF dist
  <2>4. /\ \E i \in found : Max({dist[j] : j \in found}) = dist[i]
        /\ \A j \in found : dist[j] <= Max({dist[i] : i \in found})
    BY <1>1, <1>2, <2>1, GreatestOf
  <2> HIDE DEF found
  <2>5. limit \in Nat /\ (\E i \in found : dist[i] = limit) /\ (\A i \in found : dist[i] <= limit)
    BY <1>2, <2>3, <2>4
  <2> QED BY <1>2, <1>3, <2>5 DEF Query, found
<1>4. CASE ~(query.k > 0 /\ Cardinality(found) = query.k)
  BY <1>4 DEF ceiling, Query
<1> QED BY <1>3, <1>4

(* What is beyond the ceiling changes nothing.                             *)
LEMMA SkipFound ==
  ASSUME NEW indexed, Index(indexed), NEW query, Query(query),
         NEW all, all \subseteq DOMAIN indexed, NEW seen, seen \subseteq all,
         NEW limit, limit = ceiling(indexed, query, Found(indexed, query, seen)), limit # NoLimit,
         \A j \in all : j \in seen \/ hyperbolic_distance(query.at, indexed[j]) > limit
  PROVE  Found(indexed, query, all) = Found(indexed, query, seen)
<1> DEFINE score == Distances(indexed, query.at)
<1>0. query.at \in Point /\ query.k \in Nat /\ seen \subseteq DOMAIN indexed
  BY DEF Query
<1>1. CASE query.k > 0
  <2> DEFINE best == Best(score, seen, query.k)
  <2>1. Found(indexed, query, seen) = best /\ Found(indexed, query, all) = Best(score, all, query.k)
    BY <1>0, <1>1, FirstIsBest DEF Found
  <2>2. Ranked(score, all) /\ Ranked(score, seen)
    BY <1>0, DistancesRank
  <2>3. best \subseteq seen
    BY <2>2, BestPart
  <2>4. limit \in Nat /\ Cardinality(best) = query.k
        /\ \A i \in best : hyperbolic_distance(query.at, indexed[i]) <= limit
    BY <1>0, <1>1, <2>1, CeilingIs
  <2>5. \A j \in all : j \in seen \/ \A i \in best : Before(score, i, j)
    <3> SUFFICES ASSUME NEW j \in all, j \notin seen, NEW i \in best PROVE Before(score, i, j)
      OBVIOUS
    <3>1. /\ score[i] = hyperbolic_distance(query.at, indexed[i]) /\ score[i] \in Nat
          /\ score[j] = hyperbolic_distance(query.at, indexed[j]) /\ score[j] \in Nat
      <4>1. i \in all
        BY <2>3
      <4> HIDE DEF score
      <4> QED BY <1>0, <4>1, DistancesRank DEF score
    <3>2. score[i] <= limit /\ score[j] > limit
      BY <2>4, <3>1
    <3> HIDE DEF score, best
    <3> QED BY <2>4, <3>1, <3>2 DEF Before
  <2>6. Cardinality(best) >= query.k
    BY <1>0, <2>4
  <2>7. Best(score, all, query.k) = best
    BY <1>0, <2>2, <2>5, <2>6, BestUnchanged
  <2> QED BY <2>1, <2>7
<1>2. CASE query.k = 0
  <2>1. limit = query.limit /\ limit \in Nat
    BY <1>0, <1>2, CeilingIs
  <2>2. \A j \in all : j \in seen \/ ~(hyperbolic_distance(query.at, indexed[j]) <= limit)
    BY <1>0, <2>1, DistancesRank
  <2> QED BY <1>2, <2>1, <2>2 DEF Found, Within
<1> QED BY <1>0, <1>1, <1>2

-----------------------------------------------------------------------------
(* The walk over the sectors of a band.                                    *)

(* The walk over the sectors of a band.                                    *)

(* The ids of a band, and those seen in it when the sectors in left are    *)
(* still to visit.                                                         *)
BandIds(indexed, b) == {i \in DOMAIN indexed : band_of(indexed[i]) = b}

SectorSeen(indexed, b, seen, left) ==
  seen \cup {i \in BandIds(indexed, b) : cell_of(indexed[i]).sector \notin left}

(* The states of a walk over sectors; sound ones have found the best of    *)
(* what was seen.                                                          *)
WalkStates(indexed, places) == [left : SUBSET places, found : SUBSET DOMAIN indexed]

SectorState(indexed, query, b, seen, walk) ==
  /\ seen \subseteq DOMAIN indexed
  /\ walk \in WalkStates(indexed, Occupied(indexed, b))
  /\ walk.found = Found(indexed, query, SectorSeen(indexed, b, seen, walk.left))

(* A step of a loop leaves less, unless there is nothing left.             *)
Shrinks(walk, next) ==
  /\ walk.left = {} => next.left = {}
  /\ walk.left # {} => next.left = {} \/ \E s \in walk.left : next.left = walk.left \ {s}

(* A point is in a sector of its band.                                     *)
LEMMA SectorRange ==
  ASSUME NEW p \in Point, NEW b \in Bands
  PROVE  sector_from_pseudo(p, Sectors[b]) \in 0 .. Sectors[b] - 1
<1> DEFINE S == Sectors[b]
           a == pseudo_angle(p)
<1>1. S \in {1, 2, 4, 7, 14, 28} /\ a \in 0 .. 27
  BY SectorCounts, AngleRange
<1> HIDE DEF S, a
<1>2. (a * S) \div 28 \in 0 .. S - 1
  <2> SUFFICES ASSUME NEW t, t = (a * S) \div 28 PROVE t \in 0 .. S - 1
    OBVIOUS
  <2> QED BY <1>1
<1> QED BY <1>2 DEF sector_from_pseudo, Turn, S, a

(* The sectors of a band that hold a point.                                *)
LEMMA OccupiedSectors ==
  ASSUME NEW indexed, Index(indexed), NEW b \in Bands
  PROVE  /\ Occupied(indexed, b) \subseteq 0 .. Sectors[b] - 1
         /\ IsFiniteSet(Occupied(indexed, b)) /\ Sectors[b] \in Nat
         /\ \A i \in BandIds(indexed, b) :
              /\ cell_of(indexed[i]).sector = sector_from_pseudo(indexed[i], Sectors[b])
              /\ cell_of(indexed[i]).sector \in Occupied(indexed, b)
<1>1. Sectors[b] \in Nat
  BY SectorCounts
<1>2. \A i \in BandIds(indexed, b) :
        /\ cell_of(indexed[i]).sector = sector_from_pseudo(indexed[i], Sectors[b])
        /\ cell_of(indexed[i]).sector \in 0 .. Sectors[b] - 1
        /\ cell_of(indexed[i]).sector \in Occupied(indexed, b)
  <2> SUFFICES ASSUME NEW i \in BandIds(indexed, b)
               PROVE /\ cell_of(indexed[i]).sector = sector_from_pseudo(indexed[i], Sectors[b])
                     /\ cell_of(indexed[i]).sector \in 0 .. Sectors[b] - 1
                     /\ cell_of(indexed[i]).sector \in Occupied(indexed, b)
    OBVIOUS
  <2>1. i \in DOMAIN indexed /\ indexed[i] \in Point /\ band_of(indexed[i]) = b
    BY DEF Index, BandIds
  <2>2. cell_of(indexed[i]).sector = sector_from_pseudo(indexed[i], Sectors[b])
    BY <2>1 DEF cell_of
  <2>3. cell_of(indexed[i]).sector \in Occupied(indexed, b)
    BY <2>1 DEF Occupied
  <2> QED BY <2>1, <2>2, <2>3, SectorRange
<1>3. Occupied(indexed, b) = {cell_of(indexed[i]).sector : i \in BandIds(indexed, b)}
  BY DEF Occupied, BandIds
<1>4. Occupied(indexed, b) \subseteq 0 .. Sectors[b] - 1
  BY <1>2, <1>3
<1>5. IsFiniteSet(0 .. Sectors[b] - 1)
  BY <1>1, FS_Interval
<1> QED BY <1>1, <1>2, <1>4, <1>5, FS_Subset

(* The sector a walk visits next has the lowest bound, and is left.        *)
LEMMA NextSectorIs ==
  ASSUME NEW q \in Point, NEW b \in Bands,
         NEW sectors, sectors \subseteq 0 .. Sectors[b] - 1, IsFiniteSet(sectors), sectors # {}
  PROVE  /\ NextSector(q, b, sectors) \in sectors
         /\ \A u \in sectors : Offset(q, b, NextSector(q, b, sectors)) <= Offset(q, b, u)
         /\ Offset(q, b, NextSector(q, b, sectors)) \in Nat
<1>1. \A u \in sectors : u \in Int /\ Offset(q, b, u) \in Nat
  <2> SUFFICES ASSUME NEW u \in sectors PROVE u \in Int /\ Offset(q, b, u) \in Nat
    OBVIOUS
  <2> DEFINE S == Sectors[b]
             o == sector_from_pseudo(q, S)
             raw == (u - o) % S
  <2>1. S \in {1, 2, 4, 7, 14, 28} /\ u \in Int /\ o \in 0 .. S - 1
    BY SectorCounts, SectorRange
  <2> HIDE DEF o, S
  <2>2. raw \in 0 .. S - 1
    BY <2>1
  <2> HIDE DEF raw
  <2>3. Min({raw, S - raw}) = IF raw <= S - raw THEN raw ELSE S - raw
    BY <2>1, <2>2, MinPair
  <2>4. Min({raw, S - raw}) \in Nat
    BY <2>1, <2>2, <2>3
  <2> QED BY <2>1, <2>4 DEF Offset, S, o, raw
<1> DEFINE score == [u \in sectors |-> Offset(q, b, u)]
<1>2. Ranked(score, sectors)
  BY <1>1 DEF Ranked
<1>3. PICK s \in sectors : \A u \in sectors : u = s \/ Before(score, s, u)
  BY <1>2, FirstOf
<1>4. \A u \in sectors : \/ Offset(q, b, s) < Offset(q, b, u)
                         \/ Offset(q, b, s) = Offset(q, b, u) /\ s <= u
  BY <1>1, <1>3 DEF Before
<1> DEFINE t == NextSector(q, b, sectors)
<1>5. /\ t \in sectors
      /\ \A u \in sectors : \/ Offset(q, b, t) < Offset(q, b, u)
                            \/ Offset(q, b, t) = Offset(q, b, u) /\ t <= u
  BY <1>4 DEF NextSector
<1> HIDE DEF t
<1>6. \A u \in sectors : Offset(q, b, t) <= Offset(q, b, u)
  BY <1>1, <1>5
<1> QED BY <1>1, <1>5, <1>6 DEF t

(* A step of the walk keeps: what is found is what there is among what was *)
(* seen, an id whose sector is no longer left.                             *)
LEMMA SectorStepKeeps ==
  ASSUME NEW indexed, Index(indexed), NEW query, Query(query), NEW b \in Bands,
         NEW seen, NEW walk, SectorState(indexed, query, b, seen, walk),
         NEW next, next = SectorStep(indexed, query, b, walk)
  PROVE  SectorState(indexed, query, b, seen, next) /\ Shrinks(walk, next)
<1> DEFINE q == query.at
           s == NextSector(q, b, walk.left)
           limit == ceiling(indexed, query, walk.found)
           later == walk.left \ {s}
           occupied == Occupied(indexed, b)
           Seen(left) == SectorSeen(indexed, b, seen, left)
           Sector(i) == cell_of(indexed[i]).sector
<1>1. CASE walk.left = {}
  BY <1>1 DEF SectorStep, Shrinks
<1>2. CASE walk.left # {}
  <2>1. /\ walk.left \subseteq occupied /\ seen \subseteq DOMAIN indexed /\ walk.found = Found(indexed, query, Seen(walk.left))
        /\ walk.found \in SUBSET DOMAIN indexed /\ walk = [left |-> walk.left, found |-> walk.found]
    BY DEF SectorState, WalkStates
  <2>2. q \in Point /\ query.k \in Nat
    BY DEF Query
  <2>3. /\ s \in walk.left /\ Offset(q, b, s) \in Nat
        /\ \A u \in walk.left : Offset(q, b, s) <= Offset(q, b, u)
    <3>1. walk.left \subseteq 0 .. Sectors[b] - 1 /\ IsFiniteSet(walk.left)
      BY <2>1, OccupiedSectors, FS_Subset
    <3> QED BY <1>2, <2>2, <3>1, NextSectorIs
  <2>4. /\ \A left : Seen(left) \subseteq DOMAIN indexed
        /\ \A i \in BandIds(indexed, b) :
             /\ i \in DOMAIN indexed /\ indexed[i] \in Point
             /\ Edge[b] <= indexed[i].radius /\ indexed[i].radius <= Edge[b + 1]
             /\ Sector(i) = sector_from_pseudo(indexed[i], Sectors[b])
    <3>1. \A i \in BandIds(indexed, b) : i \in DOMAIN indexed /\ indexed[i] \in Point /\ band_of(indexed[i]) = b
      BY DEF Index, BandIds
    <3> QED BY <2>1, <3>1, BandOf, OccupiedSectors DEF SectorSeen, BandIds
  <2>5. limit \in Nat
    BY <2>1, <2>4, CeilingIs
  <2>6. ASSUME NEW left, left \subseteq walk.left, limit # NoLimit,
               \A i \in BandIds(indexed, b) :
                 Sector(i) \in left \/ Sector(i) \notin walk.left
                   \/ hyperbolic_distance(q, indexed[i]) > limit,
               next = [left |-> left, found |-> walk.found]
        PROVE  SectorState(indexed, query, b, seen, next)
    <3>1. Seen(walk.left) \subseteq Seen(left) /\ Seen(left) \subseteq DOMAIN indexed
      BY <2>4, <2>6 DEF SectorSeen
    <3>2. \A i \in Seen(left) : i \in Seen(walk.left) \/ hyperbolic_distance(q, indexed[i]) > limit
      BY <2>6 DEF SectorSeen
    <3> HIDE DEF Seen, limit
    <3>3. Found(indexed, query, Seen(left)) = Found(indexed, query, Seen(walk.left))
      BY <2>1, <2>6, <3>1, <3>2, SkipFound DEF limit
    <3>4. next \in WalkStates(indexed, occupied)
      BY <2>1, <2>6 DEF WalkStates
    <3> QED BY <2>1, <2>6, <3>3, <3>4 DEF SectorState, Seen
  <2>7. CASE exceeds(envelope(q, b, Offset(q, b, s)), limit)
    <3>1. next = [left |-> {}, found |-> walk.found] /\ limit # NoLimit
      BY <1>2, <2>1, <2>7 DEF SectorStep, exceeds
    <3>2. ASSUME NEW i \in BandIds(indexed, b), Sector(i) \in walk.left
          PROVE  hyperbolic_distance(q, indexed[i]) > limit
      <4>1. Offset(q, b, s) <= Offset(q, b, sector_from_pseudo(indexed[i], Sectors[b]))
        BY <2>3, <2>4, <3>2
      <4> HIDE DEF s, limit, q
      <4> QED BY <2>2, <2>3, <2>4, <2>5, <2>7, <4>1, EnvelopeExceeds
    <3>3. SectorState(indexed, query, b, seen, next)
      <4> HIDE DEF limit, Sector
      <4> QED BY <2>6, <3>1, <3>2
    <3> QED BY <1>2, <3>1, <3>3 DEF Shrinks
  <2>8. CASE /\ ~exceeds(envelope(q, b, Offset(q, b, s)), limit)
             /\ exceeds(cell_bound(q, b, s), limit)
    <3>1. next = [left |-> later, found |-> walk.found] /\ limit # NoLimit
      BY <1>2, <2>1, <2>8 DEF SectorStep, exceeds
    <3>2. ASSUME NEW i \in BandIds(indexed, b), Sector(i) = s
          PROVE  hyperbolic_distance(q, indexed[i]) > limit
      <4>1. s = sector_from_pseudo(indexed[i], Sectors[b])
        BY <2>4, <3>2
      <4> HIDE DEF s, limit, q
      <4> QED BY <2>2, <2>4, <2>5, <2>8, <4>1, CellExceeds
    <3>3. \A i \in BandIds(indexed, b) :
            Sector(i) \in later \/ Sector(i) \notin walk.left
              \/ hyperbolic_distance(q, indexed[i]) > limit
      BY <3>2
    <3>4. SectorState(indexed, query, b, seen, next)
      <4>1. later \subseteq walk.left
        OBVIOUS
      <4> HIDE DEF limit, Sector, later
      <4> QED BY <2>6, <3>1, <3>3, <4>1
    <3> QED BY <1>2, <2>3, <3>1, <3>4 DEF Shrinks
  <2>9. CASE /\ ~exceeds(envelope(q, b, Offset(q, b, s)), limit)
             /\ ~exceeds(cell_bound(q, b, s), limit)
    <3> DEFINE cell == [band |-> b, sector |-> s]
    <3>1. next = [left |-> later, found |-> visit(indexed, query, walk.found, cell)]
      BY <1>2, <2>1, <2>9 DEF SectorStep
    <3>2. Seen(later) = Seen(walk.left) \cup Members(indexed, cell)
      <4>1. \A i \in DOMAIN indexed : cell_of(indexed[i]) = cell <=> i \in BandIds(indexed, b) /\ Sector(i) = s
        BY DEF cell_of, BandIds
      <4>2. \A i \in BandIds(indexed, b) : Sector(i) \notin later <=> Sector(i) \notin walk.left \/ Sector(i) = s
        OBVIOUS
      <4>3. Members(indexed, cell) = {i \in BandIds(indexed, b) : Sector(i) = s}
        BY <4>1 DEF Members, BandIds
      <4> HIDE DEF Sector, s, later, cell
      <4> QED BY <4>2, <4>3 DEF SectorSeen, Sector
    <3>3. visit(indexed, query, walk.found, cell) = Found(indexed, query, Seen(later))
      <4> HIDE DEF cell, Seen, later
      <4> QED BY <2>1, <2>4, <3>2, VisitFound
    <3>4. Found(indexed, query, Seen(later)) \subseteq DOMAIN indexed
      BY <2>4, FoundPart
    <3>5. next \in WalkStates(indexed, occupied)
      <4> HIDE DEF cell, Seen
      <4> QED BY <2>1, <3>1, <3>3, <3>4 DEF WalkStates
    <3> QED BY <1>2, <2>1, <2>3, <3>1, <3>3, <3>5 DEF SectorState, Shrinks
  <2> QED BY <2>7, <2>8, <2>9
<1> QED BY <1>1, <1>2

(* The recursive function by which a loop is written exists.               *)
LEMMA LoopFunction ==
  ASSUME NEW A, NEW a \in A, NEW F \in [A -> A]
  PROVE  \E g \in [Nat -> A] : g = [n \in Nat |-> IF n = 0 THEN a ELSE F[g[n - 1]]]
<1>1. PICK g \in [Nat -> A] : g[0] = a /\ \A n \in Nat : g[n + 1] = F[g[n]]
  BY Loop
<1>2. ASSUME NEW n \in Nat, n # 0 PROVE g[n] = F[g[n - 1]]
  <2>1. n - 1 \in Nat /\ (n - 1) + 1 = n
    BY <1>2
  <2>2. g[(n - 1) + 1] = F[g[n - 1]]
    BY <1>1, <2>1
  <2> QED BY <2>1, <2>2
<1>3. g = [n \in Nat |-> g[n]]
  OBVIOUS
<1>4. [n \in Nat |-> g[n]] = [n \in Nat |-> IF n = 0 THEN a ELSE F[g[n - 1]]]
  BY <1>1, <1>2
<1> QED BY <1>3, <1>4

(* WalkSectors runs its loop as often as there are sectors.                *)
LEMMA SectorLoop ==
  ASSUME NEW indexed, NEW query, NEW b, NEW found \in SUBSET DOMAIN indexed
  PROVE  \E walk :
           /\ walk[0] = [left |-> Occupied(indexed, b), found |-> found]
           /\ \A n \in Nat : walk[n + 1] = SectorStep(indexed, query, b, walk[n])
           /\ WalkSectors(indexed, query, b, found) = walk[Cardinality(Occupied(indexed, b))].found
<1> DEFINE start == [left |-> Occupied(indexed, b), found |-> found]
           A == WalkStates(indexed, Occupied(indexed, b))
           F == [w \in A |-> SectorStep(indexed, query, b, w)]
           IsLoop(w) == w = [n \in Nat |-> IF n = 0 THEN start
                                           ELSE SectorStep(indexed, query, b, w[n - 1])]
           walk == CHOOSE w : IsLoop(w)
<1>1. WalkSectors(indexed, query, b, found) = walk[Cardinality(Occupied(indexed, b))].found
  BY DEF WalkSectors
<1>2. \E w : IsLoop(w)
  <2>1. start \in A
    BY DEF WalkStates
  <2>2. F \in [A -> A]
    <3> SUFFICES ASSUME NEW w \in A PROVE SectorStep(indexed, query, b, w) \in A
      OBVIOUS
    <3> DEFINE s == NextSector(query.at, b, w.left)
               seen == visit(indexed, query, w.found, [band |-> b, sector |-> s])
    <3>1. seen \subseteq DOMAIN indexed
      BY DEF visit, First, Within, Members, WalkStates
    <3>2. \/ SectorStep(indexed, query, b, w) = w
          \/ SectorStep(indexed, query, b, w) = [left |-> {}, found |-> w.found]
          \/ SectorStep(indexed, query, b, w) = [left |-> w.left \ {s}, found |-> w.found]
          \/ SectorStep(indexed, query, b, w) = [left |-> w.left \ {s}, found |-> seen]
      BY DEF SectorStep, WalkStates
    <3> HIDE DEF seen, s
    <3> QED BY <3>1, <3>2 DEF WalkStates
  <2> HIDE DEF start, A
  <2>3. PICK g \in [Nat -> A] : g = [n \in Nat |-> IF n = 0 THEN start ELSE F[g[n - 1]]]
    <3> HIDE DEF F
    <3> QED BY <2>1, <2>2, LoopFunction
  <2>4. \A n \in Nat : n # 0 => F[g[n - 1]] = SectorStep(indexed, query, b, g[n - 1])
    <3> SUFFICES ASSUME NEW n \in Nat, n # 0
                 PROVE  F[g[n - 1]] = SectorStep(indexed, query, b, g[n - 1])
      OBVIOUS
    <3>1. n - 1 \in Nat
      OBVIOUS
    <3>2. g[n - 1] \in A
      BY <2>3, <3>1
    <3> QED BY <3>2
  <2>5. IsLoop(g)
    <3> HIDE DEF F
    <3> QED BY <2>3, <2>4
  <2> QED BY <2>5
<1>3. IsLoop(walk)
  <2> HIDE DEF IsLoop
  <2> QED BY <1>2
<1>4. walk[0] = start /\ \A n \in Nat : walk[n + 1] = SectorStep(indexed, query, b, walk[n])
  <2> HIDE DEF walk, start
  <2>1. walk[0] = start
    BY <1>3
  <2>2. ASSUME NEW n \in Nat PROVE walk[n + 1] = SectorStep(indexed, query, b, walk[n])
    <3>1. n + 1 \in Nat /\ n + 1 # 0 /\ (n + 1) - 1 = n
      OBVIOUS
    <3>2. walk[n + 1] = SectorStep(indexed, query, b, walk[(n + 1) - 1])
      BY <1>3, <3>1
    <3> QED BY <3>1, <3>2
  <2> QED BY <2>1, <2>2
<1> HIDE DEF walk
<1> QED BY <1>1, <1>4

(* So it finds what there is among what was seen and the ids of the band.  *)
LEMMA WalkSectorsFound ==
  ASSUME NEW indexed, Index(indexed), NEW query, Query(query), NEW b \in Bands,
         NEW seen, seen \subseteq DOMAIN indexed
  PROVE  WalkSectors(indexed, query, b, Found(indexed, query, seen))
           = Found(indexed, query, seen \cup BandIds(indexed, b))
<1> DEFINE found == Found(indexed, query, seen)
           occupied == Occupied(indexed, b)
           N == Cardinality(occupied)
<1>1. found \in SUBSET DOMAIN indexed
  <2>1. found \subseteq seen
    BY FoundPart
  <2> QED BY <2>1
<1>2. PICK walk : /\ walk[0] = [left |-> occupied, found |-> found]
                  /\ \A n \in Nat : walk[n + 1] = SectorStep(indexed, query, b, walk[n])
                  /\ WalkSectors(indexed, query, b, found) = walk[N].found
  <2> HIDE DEF found
  <2> QED BY <1>1, SectorLoop
<1>3. IsFiniteSet(occupied) /\ N \in Nat
  BY OccupiedSectors, FS_CardinalityType
<1> DEFINE Left(n) == walk[n].left
           I == {n \in Nat : /\ SectorState(indexed, query, b, seen, walk[n])
                             /\ Left(n) = {} \/ Cardinality(Left(n)) + n <= N}
<1>4. 0 \in I
  <2>1. SectorSeen(indexed, b, seen, occupied) = seen
    BY OccupiedSectors DEF SectorSeen
  <2>2. SectorState(indexed, query, b, seen, walk[0])
    BY <1>1, <1>2, <2>1 DEF SectorState, WalkStates
  <2> QED BY <1>2, <1>3, <2>2
<1>5. ASSUME NEW n \in I PROVE n + 1 \in I
  <2>1. /\ n \in Nat /\ n + 1 \in Nat /\ SectorState(indexed, query, b, seen, walk[n])
        /\ Left(n) = {} \/ Cardinality(Left(n)) + n <= N
    OBVIOUS
  <2>2. SectorState(indexed, query, b, seen, walk[n + 1]) /\ Shrinks(walk[n], walk[n + 1])
    <3>1. walk[n + 1] = SectorStep(indexed, query, b, walk[n])
      BY <1>2, <2>1
    <3> HIDE DEF I, found
    <3> QED BY <2>1, <3>1, SectorStepKeeps
  <2>3. IsFiniteSet(Left(n))
    BY <1>3, <2>1, FS_Subset DEF SectorState, WalkStates
  <2>4. Left(n + 1) = {} \/ Cardinality(Left(n + 1)) + (n + 1) <= N
    <3> SUFFICES ASSUME Left(n + 1) # {}, Left(n) # {},
                        NEW s \in Left(n), Left(n + 1) = Left(n) \ {s}
                 PROVE  Cardinality(Left(n + 1)) + (n + 1) <= N
      BY <2>2 DEF Shrinks
    <3>1. Cardinality(Left(n + 1)) = Cardinality(Left(n)) - 1 /\ Cardinality(Left(n)) \in Nat
      BY <2>3, FS_RemoveElement, FS_CardinalityType
    <3>2. Cardinality(Left(n)) + n <= N
      BY <2>1
    <3> HIDE DEF Left, N
    <3> QED BY <1>3, <2>1, <3>1, <3>2
  <2> QED BY <2>1, <2>2, <2>4
<1>6. N \in I
  <2>1. I \subseteq Nat
    OBVIOUS
  <2> HIDE DEF I
  <2> QED BY <1>3, <1>4, <1>5, <2>1, SetInduction
<1>7. SectorState(indexed, query, b, seen, walk[N]) /\ Left(N) = {}
  <2>1. /\ SectorState(indexed, query, b, seen, walk[N])
        /\ Left(N) = {} \/ Cardinality(Left(N)) + N <= N
    BY <1>6
  <2>2. IsFiniteSet(Left(N))
    BY <1>3, <2>1, FS_Subset DEF SectorState, WalkStates
  <2>3. Left(N) # {} => Cardinality(Left(N)) \in Nat /\ Cardinality(Left(N)) > 0
    BY <2>2, FS_EmptySet, FS_CardinalityType
  <2> HIDE DEF N
  <2> QED BY <1>3, <2>1, <2>3
<1>8. walk[N].found = Found(indexed, query, SectorSeen(indexed, b, seen, {}))
  BY <1>7 DEF SectorState
<1>9. SectorSeen(indexed, b, seen, {}) = seen \cup BandIds(indexed, b)
  BY DEF SectorSeen
<1> QED BY <1>2, <1>8, <1>9

-----------------------------------------------------------------------------
(* The walk over the bands.                                                *)

(* The walk over the bands.                                                *)

(* The bands that hold a point, and the ids seen when those in left are    *)
(* still to visit.                                                         *)
OccupiedBands(indexed) == {band_of(indexed[id]) : id \in DOMAIN indexed}

BandSeen(indexed, left) == {i \in DOMAIN indexed : band_of(indexed[i]) \notin left}

(* Whatever the walk has skipped, it has found only what answers the query.*)
SoundStates(indexed, query) ==
  {walk \in WalkStates(indexed, OccupiedBands(indexed)) :
     \E seen \in SUBSET DOMAIN indexed : walk.found = Found(indexed, query, seen)}

(* A sound state of the walk over bands.                                   *)
BandState(indexed, query, walk) ==
  /\ walk \in SoundStates(indexed, query)
  /\ walk.found = Found(indexed, query, BandSeen(indexed, walk.left))

(* A limit that the bound of the query's own band does not exceed.         *)
Reaches(query) ==
  query.limit # NoLimit => radial_bound(query.at, band_of(query.at)) <= query.limit

(* The bands of an index are bands, finitely many.                         *)
LEMMA OccupiedBandsIn ==
  ASSUME NEW indexed, Index(indexed)
  PROVE  /\ OccupiedBands(indexed) \subseteq Bands /\ Bands \subseteq Nat
         /\ IsFiniteSet(OccupiedBands(indexed)) /\ Cardinality(OccupiedBands(indexed)) \in Nat
<1>1. \A i \in DOMAIN indexed : band_of(indexed[i]) \in Bands
  BY BandOf DEF Index
<1>2. OccupiedBands(indexed) \subseteq Bands
  BY <1>1 DEF OccupiedBands
<1>3. Bands \subseteq Nat /\ IsFiniteSet(Bands)
  <2>1. Len(Sectors) \in Nat
    BY EdgeAssumption
  <2> QED BY <2>1, FS_Interval DEF Bands
<1> QED BY <1>2, <1>3, FS_Subset, FS_CardinalityType

(* The band a walk visits next has the lowest bound, and is left.          *)
LEMMA NextBandIs ==
  ASSUME NEW q \in Point, NEW bands, bands \subseteq Bands, IsFiniteSet(bands), bands # {}
  PROVE  /\ NextBand(q, bands) \in bands
         /\ \A c \in bands : radial_bound(q, NextBand(q, bands)) <= radial_bound(q, c)
<1>1. \A c \in bands : c \in Int /\ radial_bound(q, c) \in Nat
  BY RadialBound, EdgeAssumption DEF Bands
<1> DEFINE score == [c \in bands |-> radial_bound(q, c)]
<1>2. Ranked(score, bands)
  BY <1>1 DEF Ranked
<1>3. PICK b \in bands : \A c \in bands : c = b \/ Before(score, b, c)
  BY <1>2, FirstOf
<1>4. \A c \in bands : \/ radial_bound(q, b) < radial_bound(q, c)
                       \/ radial_bound(q, b) = radial_bound(q, c) /\ b <= c
  BY <1>1, <1>3 DEF Before
<1> DEFINE t == NextBand(q, bands)
<1>5. /\ t \in bands
      /\ \A c \in bands : \/ radial_bound(q, t) < radial_bound(q, c)
                          \/ radial_bound(q, t) = radial_bound(q, c) /\ t <= c
  BY <1>4 DEF NextBand
<1> HIDE DEF t
<1>6. \A c \in bands : radial_bound(q, t) <= radial_bound(q, c)
  BY <1>1, <1>5
<1> QED BY <1>5, <1>6 DEF t

(* A step of the walk leaves it sound.                                     *)
LEMMA BandStepSound ==
  ASSUME NEW indexed, Index(indexed), NEW query, Query(query),
         NEW walk \in SoundStates(indexed, query),
         NEW next, next = BandStep(indexed, query, walk)
  PROVE  next \in SoundStates(indexed, query) /\ Shrinks(walk, next)
<1> DEFINE b == NextBand(query.at, walk.left)
<1>1. /\ walk.left \subseteq OccupiedBands(indexed) /\ walk.found \subseteq DOMAIN indexed
      /\ walk = [left |-> walk.left, found |-> walk.found]
  BY DEF SoundStates, WalkStates
<1>2. PICK seen \in SUBSET DOMAIN indexed : walk.found = Found(indexed, query, seen)
  BY DEF SoundStates
<1>3. CASE walk.left = {}
  BY <1>3 DEF BandStep, Shrinks
<1>4. CASE walk.left # {}
  <2>1. b \in walk.left /\ b \in Bands
    <3>1. walk.left \subseteq Bands /\ IsFiniteSet(walk.left)
      BY <1>1, OccupiedBandsIn, FS_Subset
    <3> QED BY <1>4, <3>1, NextBandIs DEF Query
  <2> DEFINE more == seen \cup BandIds(indexed, b)
  <2>2. WalkSectors(indexed, query, b, walk.found) = Found(indexed, query, more)
    BY <1>2, <2>1, WalkSectorsFound
  <2>3. more \subseteq DOMAIN indexed
    BY DEF BandIds
  <2>4. Found(indexed, query, more) \subseteq DOMAIN indexed
    <3>1. Found(indexed, query, more) \subseteq more
      BY FoundPart
    <3> QED BY <2>3, <3>1
  <2> HIDE DEF b, more
  <2>5. \/ next = [left |-> {}, found |-> Found(indexed, query, seen)]
        \/ next = [left |-> walk.left \ {b}, found |-> Found(indexed, query, more)]
    BY <1>1, <1>2, <1>4, <2>2 DEF BandStep, b
  <2>6. CASE next = [left |-> {}, found |-> Found(indexed, query, seen)]
    BY <1>1, <1>2, <1>4, <2>6 DEF SoundStates, WalkStates, Shrinks
  <2>7. CASE next = [left |-> walk.left \ {b}, found |-> Found(indexed, query, more)]
    BY <1>1, <1>4, <2>1, <2>3, <2>4, <2>7 DEF SoundStates, WalkStates, Shrinks
  <2> QED BY <2>5, <2>6, <2>7
<1> QED BY <1>3, <1>4

(* What a band's radial bound rules out, when the bands left begin with    *)
(* it: all ids of those bands.                                             *)
LEMMA BandCut ==
  ASSUME NEW indexed, Index(indexed), NEW query, Query(query), Reaches(query),
         NEW walk, BandState(indexed, query, walk),
         NEW limit, limit = ceiling(indexed, query, walk.found), limit # NoLimit,
         NEW b \in walk.left, \A c \in walk.left : radial_bound(query.at, b) <= radial_bound(query.at, c),
         radial_bound(query.at, b) > limit,
         NEW j \in DOMAIN indexed, band_of(indexed[j]) \in walk.left
  PROVE  hyperbolic_distance(query.at, indexed[j]) > limit
<1> DEFINE q == query.at
           own == band_of(q)
           c == band_of(indexed[j])
           seen == BandSeen(indexed, walk.left)
<1>1. /\ walk.left \subseteq Bands /\ walk.found = Found(indexed, query, seen)
      /\ seen \subseteq DOMAIN indexed /\ q \in Point /\ query.k \in Nat /\ query.limit \in Nat
      /\ \A i \in DOMAIN indexed : indexed[i] \in Point
  BY OccupiedBandsIn DEF BandState, SoundStates, WalkStates, BandSeen, Query, Index
<1>2. /\ limit \in Nat
      /\ query.k = 0 => limit = query.limit
      /\ query.k > 0 => \E i \in walk.found : hyperbolic_distance(q, indexed[i]) = limit
  <2> HIDE DEF seen, q
  <2> QED BY <1>1, CeilingIs DEF q
<1>3. /\ own \in Bands /\ radial_bound(q, own) \in Nat
      /\ \A d \in walk.left : radial_bound(q, d) \in Nat
  BY <1>1, BandOf, RadialBound
<1>4. c # own
  <2> SUFFICES ASSUME own \in walk.left PROVE FALSE
    OBVIOUS
  <2>1. radial_bound(q, own) > limit
    BY <1>2, <1>3
  <2>2. CASE query.k = 0
    BY <1>1, <1>2, <1>3, <2>1, <2>2 DEF Reaches
  <2>3. CASE query.k > 0
    <3>1. PICK i \in walk.found : hyperbolic_distance(q, indexed[i]) = limit
      BY <1>2, <2>3
    <3>2. i \in seen
      BY <1>1, FoundPart
    <3>3. i \in DOMAIN indexed /\ indexed[i] \in Point /\ band_of(indexed[i]) # own
      BY <1>1, <3>2 DEF BandSeen
    <3>4. /\ radial_bound(q, band_of(indexed[i])) <= limit
          /\ radial_bound(q, own) <= radial_bound(q, band_of(indexed[i]))
          /\ radial_bound(q, band_of(indexed[i])) \in Nat
      <4> HIDE DEF q
      <4>1. band_of(indexed[i]) \in Bands
        BY <3>3, BandOf
      <4>2. radial_bound(q, band_of(indexed[i])) <= hyperbolic_distance(q, indexed[i])
        BY <1>1, <3>3, OtherBands
      <4> QED BY <1>1, <3>1, <4>1, <4>2, OwnBandLeast, RadialBound
    <3> HIDE DEF own, q
    <3> QED BY <1>2, <1>3, <2>1, <3>4
  <2> QED BY <1>1, <2>2, <2>3
<1>5. radial_bound(q, c) <= hyperbolic_distance(q, indexed[j])
  BY <1>1, <1>4, OtherBands
<1>6. radial_bound(q, c) > limit /\ hyperbolic_distance(q, indexed[j]) \in Nat
  BY <1>1, <1>2, <1>3, DistanceBounds
<1> HIDE DEF q, c
<1>7. radial_bound(q, c) \in Nat
  BY <1>3 DEF c
<1> QED BY <1>2, <1>5, <1>6, <1>7 DEF q

(* A step of the walk keeps: what is found is what there is in the bands   *)
(* that are no longer left.                                                *)
LEMMA BandStepKeeps ==
  ASSUME NEW indexed, Index(indexed), NEW query, Query(query), Reaches(query),
         NEW walk, BandState(indexed, query, walk),
         NEW next, next = BandStep(indexed, query, walk)
  PROVE  BandState(indexed, query, next)
<1> DEFINE q == query.at
           b == NextBand(q, walk.left)
           limit == ceiling(indexed, query, walk.found)
           Seen(left) == BandSeen(indexed, left)
<1>1. /\ walk \in SoundStates(indexed, query) /\ walk.left \subseteq Bands
      /\ walk.found = Found(indexed, query, Seen(walk.left))
      /\ walk = [left |-> walk.left, found |-> walk.found]
      /\ \A left : Seen(left) \subseteq DOMAIN indexed
      /\ IsFiniteSet(walk.left) /\ q \in Point
  BY OccupiedBandsIn, FS_Subset DEF BandState, SoundStates, WalkStates, BandSeen, Query
<1>2. next \in SoundStates(indexed, query)
  BY <1>1, BandStepSound
<1>3. CASE walk.left = {}
  <2>1. next = walk
    BY <1>3 DEF BandStep
  <2> QED BY <2>1
<1>4. CASE walk.left # {}
  <2>1. b \in walk.left /\ \A c \in walk.left : radial_bound(q, b) <= radial_bound(q, c)
    BY <1>1, <1>4, NextBandIs
  <2>2. CASE limit # NoLimit /\ radial_bound(q, b) > limit
    <3>1. next = [left |-> {}, found |-> walk.found]
      BY <1>1, <1>4, <2>2 DEF BandStep
    <3>2. \A j \in DOMAIN indexed :
            j \in Seen(walk.left) \/ hyperbolic_distance(q, indexed[j]) > limit
      <4> SUFFICES ASSUME NEW j \in DOMAIN indexed, band_of(indexed[j]) \in walk.left
                   PROVE  hyperbolic_distance(q, indexed[j]) > limit
        BY DEF BandSeen
      <4> HIDE DEF b, limit
      <4> QED BY <2>1, <2>2, BandCut DEF limit
    <3>3. Found(indexed, query, DOMAIN indexed) = Found(indexed, query, Seen(walk.left))
      <4> HIDE DEF limit, b, Seen
      <4> QED BY <1>1, <2>2, <3>2, SkipFound DEF limit
    <3>4. Seen({}) = DOMAIN indexed
      BY DEF BandSeen
    <3> QED BY <1>1, <1>2, <3>1, <3>3, <3>4 DEF BandState
  <2>3. CASE ~(limit # NoLimit /\ radial_bound(q, b) > limit)
    <3> DEFINE later == walk.left \ {b}
    <3>1. next = [left |-> later, found |-> WalkSectors(indexed, query, b, walk.found)]
      BY <1>1, <1>4, <2>3 DEF BandStep
    <3>2. WalkSectors(indexed, query, b, walk.found)
            = Found(indexed, query, Seen(walk.left) \cup BandIds(indexed, b))
      <4> HIDE DEF Seen, b
      <4> QED BY <1>1, <2>1, WalkSectorsFound
    <3>3. Seen(walk.left) \cup BandIds(indexed, b) = Seen(later)
      <4> HIDE DEF b
      <4> QED BY <2>1 DEF BandSeen, BandIds
    <3> QED BY <1>2, <3>1, <3>2, <3>3 DEF BandState
  <2> QED BY <2>2, <2>3
<1> QED BY <1>3, <1>4

(* expand runs its loop as often as there are bands.                       *)
LEMMA BandLoop ==
  ASSUME NEW indexed, Index(indexed), NEW query, Query(query)
  PROVE  \E walk :
           /\ walk[0] = [left |-> OccupiedBands(indexed), found |-> {}]
           /\ \A n \in Nat : /\ walk[n] \in SoundStates(indexed, query)
                             /\ walk[n + 1] = BandStep(indexed, query, walk[n])
           /\ expand(indexed, query) = walk[Cardinality(OccupiedBands(indexed))].found
<1> DEFINE start == [left |-> OccupiedBands(indexed), found |-> {}]
           A == SoundStates(indexed, query)
           F == [w \in A |-> BandStep(indexed, query, w)]
           IsLoop(w) == w = [n \in Nat |-> IF n = 0 THEN start
                                           ELSE BandStep(indexed, query, w[n - 1])]
           walk == CHOOSE w : IsLoop(w)
<1>1. expand(indexed, query) = walk[Cardinality(OccupiedBands(indexed))].found
  BY DEF expand, OccupiedBands
<1>2. start \in A
  <2>1. Found(indexed, query, {}) = {}
    BY DEF Found, First, Within
  <2>2. {} \in SUBSET DOMAIN indexed
    OBVIOUS
  <2>3. start \in WalkStates(indexed, OccupiedBands(indexed)) /\ start.found = {}
    BY DEF WalkStates
  <2> HIDE DEF start
  <2> QED BY <2>1, <2>2, <2>3 DEF SoundStates
<1>3. F \in [A -> A]
  <2> SUFFICES ASSUME NEW w \in A PROVE BandStep(indexed, query, w) \in A
    OBVIOUS
  <2> QED BY BandStepSound
<1>4. \E w \in [Nat -> A] : IsLoop(w)
  <2> HIDE DEF start, A
  <2>1. PICK g \in [Nat -> A] : g = [n \in Nat |-> IF n = 0 THEN start ELSE F[g[n - 1]]]
    <3> HIDE DEF F
    <3> QED BY <1>2, <1>3, LoopFunction, Z3T(60)
  <2>2. \A n \in Nat : n # 0 => F[g[n - 1]] = BandStep(indexed, query, g[n - 1])
    <3> SUFFICES ASSUME NEW n \in Nat, n # 0
                 PROVE  F[g[n - 1]] = BandStep(indexed, query, g[n - 1])
      OBVIOUS
    <3>1. n - 1 \in Nat
      OBVIOUS
    <3>2. g[n - 1] \in A
      BY <2>1, <3>1
    <3> QED BY <3>2
  <2>3. IsLoop(g)
    <3> HIDE DEF F
    <3> QED BY <2>1, <2>2
  <2> QED BY <2>1, <2>3
<1>5. IsLoop(walk)
  <2> HIDE DEF IsLoop
  <2> QED BY <1>4
<1>6. walk[0] = start /\ \A n \in Nat : walk[n + 1] = BandStep(indexed, query, walk[n])
  <2> HIDE DEF walk, start
  <2>1. walk[0] = start
    BY <1>5
  <2>2. ASSUME NEW n \in Nat PROVE walk[n + 1] = BandStep(indexed, query, walk[n])
    <3>1. n + 1 \in Nat /\ n + 1 # 0 /\ (n + 1) - 1 = n
      OBVIOUS
    <3>2. walk[n + 1] = BandStep(indexed, query, walk[(n + 1) - 1])
      BY <1>5, <3>1
    <3> QED BY <3>1, <3>2
  <2> QED BY <2>1, <2>2
<1>7. \A n \in Nat : walk[n] \in A
  <2> DEFINE I == {n \in Nat : walk[n] \in A}
  <2> HIDE DEF walk, A, start
  <2>1. 0 \in I
    BY <1>2, <1>6
  <2>2. ASSUME NEW n \in I PROVE n + 1 \in I
    <3>1. walk[n + 1] = BandStep(indexed, query, walk[n]) /\ walk[n] \in A
      BY <1>6
    <3>2. walk[n + 1] \in A
      BY <3>1, BandStepSound DEF A
    <3> QED BY <3>2
  <2>3. I \subseteq Nat
    OBVIOUS
  <2> HIDE DEF I
  <2>4. \A n \in Nat : n \in I
    BY <2>1, <2>2, <2>3, SetInduction
  <2> QED BY <2>4 DEF I
<1> HIDE DEF walk
<1> QED BY <1>1, <1>6, <1>7

(* A walk finds nothing but what answers the query, and all of it unless   *)
(* the limit cuts the query's own band.                                    *)
LEMMA ExpandFound ==
  ASSUME NEW indexed, Index(indexed), NEW query, Query(query)
  PROVE  /\ \E seen \in SUBSET DOMAIN indexed :
              expand(indexed, query) = Found(indexed, query, seen)
         /\ Reaches(query) => expand(indexed, query) = Found(indexed, query, DOMAIN indexed)
<1> DEFINE bands == OccupiedBands(indexed)
           N == Cardinality(bands)
<1>1. PICK walk : /\ walk[0] = [left |-> bands, found |-> {}]
                  /\ \A n \in Nat : /\ walk[n] \in SoundStates(indexed, query)
                                    /\ walk[n + 1] = BandStep(indexed, query, walk[n])
                  /\ expand(indexed, query) = walk[N].found
  BY BandLoop
<1>2. IsFiniteSet(bands) /\ N \in Nat
  BY OccupiedBandsIn
<1>3. \E seen \in SUBSET DOMAIN indexed : expand(indexed, query) = Found(indexed, query, seen)
  <2>1. walk[N] \in SoundStates(indexed, query)
    BY <1>1, <1>2
  <2> HIDE DEF N
  <2> QED BY <1>1, <2>1 DEF SoundStates
<1>4. ASSUME Reaches(query)
      PROVE  expand(indexed, query) = Found(indexed, query, DOMAIN indexed)
  <2> DEFINE Left(n) == walk[n].left
             I == {n \in Nat : /\ BandState(indexed, query, walk[n])
                               /\ Left(n) = {} \/ Cardinality(Left(n)) + n <= N}
  <2>1. 0 \in I
    <3>1. BandSeen(indexed, bands) = {}
      BY DEF BandSeen, OccupiedBands
    <3>2. Found(indexed, query, {}) = {}
      BY DEF Found, First, Within
    <3>3. walk[0] \in SoundStates(indexed, query)
      BY <1>1
    <3>4. BandState(indexed, query, walk[0])
      BY <1>1, <3>1, <3>2, <3>3 DEF BandState
    <3> QED BY <1>1, <1>2, <3>4
  <2>2. ASSUME NEW n \in I PROVE n + 1 \in I
    <3>1. /\ n \in Nat /\ n + 1 \in Nat /\ BandState(indexed, query, walk[n])
          /\ Left(n) = {} \/ Cardinality(Left(n)) + n <= N
      OBVIOUS
    <3>2. BandState(indexed, query, walk[n + 1]) /\ Shrinks(walk[n], walk[n + 1])
      <4>1. walk[n + 1] = BandStep(indexed, query, walk[n]) /\ walk[n] \in SoundStates(indexed, query)
        BY <1>1, <3>1
      <4> HIDE DEF I
      <4>2. BandState(indexed, query, walk[n + 1])
        BY <1>4, <3>1, <4>1, BandStepKeeps
      <4> QED BY <4>1, <4>2, BandStepSound
    <3>3. IsFiniteSet(Left(n))
      BY <1>2, <3>1, FS_Subset DEF BandState, SoundStates, WalkStates
    <3>4. Left(n + 1) = {} \/ Cardinality(Left(n + 1)) + (n + 1) <= N
      <4> SUFFICES ASSUME Left(n + 1) # {}, Left(n) # {},
                          NEW s \in Left(n), Left(n + 1) = Left(n) \ {s}
                   PROVE  Cardinality(Left(n + 1)) + (n + 1) <= N
        BY <3>2 DEF Shrinks
      <4>1. Cardinality(Left(n + 1)) = Cardinality(Left(n)) - 1 /\ Cardinality(Left(n)) \in Nat
        <5> HIDE DEF Left, I
        <5>1. Cardinality(Left(n) \ {s}) = Cardinality(Left(n)) - 1
          BY <3>3, FS_RemoveElement, Zenon
        <5>2. Cardinality(Left(n)) \in Nat
          BY <3>3, FS_CardinalityType, Zenon
        <5> QED BY <5>1, <5>2, Zenon
      <4>2. Cardinality(Left(n)) + n <= N
        BY <3>1
      <4> HIDE DEF Left, N
      <4> QED BY <1>2, <3>1, <4>1, <4>2
    <3> QED BY <3>1, <3>2, <3>4
  <2>3. N \in I
    <3>1. I \subseteq Nat
      OBVIOUS
    <3> HIDE DEF I
    <3> QED BY <1>2, <2>1, <2>2, <3>1, SetInduction
  <2>4. BandState(indexed, query, walk[N]) /\ Left(N) = {}
    <3>1. /\ BandState(indexed, query, walk[N])
          /\ Left(N) = {} \/ Cardinality(Left(N)) + N <= N
      BY <2>3
    <3>2. IsFiniteSet(Left(N))
      BY <1>2, <3>1, FS_Subset DEF BandState, SoundStates, WalkStates
    <3>3. Left(N) # {} => Cardinality(Left(N)) \in Nat /\ Cardinality(Left(N)) > 0
      BY <3>2, FS_EmptySet, FS_CardinalityType
    <3> HIDE DEF N
    <3> QED BY <1>2, <3>1, <3>3
  <2>5. BandSeen(indexed, {}) = DOMAIN indexed
    BY DEF BandSeen
  <2> QED BY <1>1, <2>4, <2>5 DEF BandState
<1> QED BY <1>3, <1>4

-----------------------------------------------------------------------------
(* The searches of a tree tensor: the invariant of its states, and its     *)
(* theorems.                                                               *)

(* The queries of a store.                                                 *)

(* The root is there and has a place; what is stored is finite.            *)
Stores ==
  /\ TypeOK
  /\ IsFiniteSet(Stored)
  /\ nodes[Root].place # None

(* What a map with one more entry holds.                                   *)
LEMMA WithIs ==
  ASSUME TypeOK, NEW x \in Id, NEW kept \in Kept
  PROVE  /\ DOMAIN With(x, kept) = Stored \cup {x}
         /\ With(x, kept)[x] = kept
         /\ \A y \in Stored : y # x => With(x, kept)[y] = nodes[y]
BY DEF With

(* It holds at first: the root has its place.                              *)
LEMMA StoresInit ==
  ASSUME Init
  PROVE  Stores
<1>1. DOMAIN nodes = {Root} /\ nodes[Root] = [place |-> Origin, coords |-> <<>>]
  BY DEF Init
<1>2. Origin \in Point
  BY DEF Origin, Point, Radius, Direction
<1>3. IsFiniteSet({Root})
  BY FS_Singleton
<1> QED BY <1>1, <1>2, <1>3, IdAssumption, KeptAssumption, NoneAssumption DEF Stores, TypeOK, Stored

(* Storing a kept record leaves the store well-formed, if the root's has a *)
(* place.                                                                  *)
LEMMA StoresWith ==
  ASSUME Stores, NEW x \in Id, NEW kept \in Kept, x = Root => kept.place # None,
         nodes' = With(x, kept)
  PROVE  Stores'
<1>1. /\ DOMAIN nodes' = Stored \cup {x} /\ nodes'[x] = kept
      /\ \A y \in Stored : y # x => nodes'[y] = nodes[y]
  BY WithIs DEF Stores
<1>2. IsFiniteSet(Stored \cup {x})
  BY FS_AddElement DEF Stores
<1>3. TypeOK'
  BY <1>1 DEF Stores, TypeOK, Stored
<1>4. nodes'[Root].place # None
  BY <1>1 DEF Stores, TypeOK
<1> QED BY <1>1, <1>2, <1>3, <1>4 DEF Stores, Stored

(* Every step keeps it.                                                    *)
LEMMA StoresNext ==
  ASSUME Stores, [Next]_vars
  PROVE  Stores'
<1>1. CASE UNCHANGED vars
  BY <1>1 DEF vars, Stores, TypeOK, Stored
<1>2. ASSUME NEW x \in Id, put_data_only(x) PROVE Stores'
  <2> DEFINE kept == [place |-> None, coords |-> <<>>]
  <2>1. kept \in Kept /\ x # Root /\ nodes' = With(x, kept)
    BY <1>2, KeptAssumption, NoneAssumption DEF put_data_only, Stores, TypeOK
  <2> QED BY <2>1, StoresWith
<1>3. ASSUME NEW x \in Id, remove(x) PROVE Stores'
  <2>1. /\ DOMAIN nodes' = Stored \ {x} /\ x # Root
        /\ \A y \in Stored : y # x => nodes'[y] = nodes[y]
    BY <1>3 DEF remove
  <2>2. IsFiniteSet(Stored \ {x})
    BY FS_Subset DEF Stores
  <2> QED BY <2>1, <2>2 DEF Stores, TypeOK, Stored
<1>4. ASSUME NEW x \in Id, NEW place, put(x, place) PROVE Stores'
  <2> DEFINE kept == [place |-> place, coords |-> <<>>]
  <2>1. kept \in Kept /\ kept.place # None /\ nodes' = With(x, kept)
    BY <1>4 DEF put
  <2> HIDE DEF kept
  <2> QED BY <2>1, StoresWith
<1>5. ASSUME NEW x \in Id, NEW place, embed_existing(x, place) PROVE Stores'
  <2> DEFINE kept == [nodes[x] EXCEPT !.place = place]
  <2>1. nodes[x] \in [place : Point \cup {None}, coords : Seq(Int)]
    BY <1>5, KeptAssumption, NoneAssumption DEF embed_existing, Stores, TypeOK
  <2>2. kept \in Kept /\ kept.place # None /\ nodes' = With(x, kept)
    BY <1>5, <2>1 DEF embed_existing
  <2> HIDE DEF kept
  <2> QED BY <2>2, StoresWith
<1>6. ASSUME NEW x \in Id, NEW coords, set_semantic(x, coords) PROVE Stores'
  <2> DEFINE kept == [nodes[x] EXCEPT !.coords = coords]
  <2>1. nodes[x] \in [place : Point \cup {None}, coords : Seq(Int)]
    BY <1>6, KeptAssumption, NoneAssumption DEF set_semantic, Stores, TypeOK
  <2>2. kept \in Kept /\ kept.place = nodes[x].place /\ nodes' = With(x, kept)
    BY <1>6, <2>1 DEF set_semantic
  <2>3. x = Root => kept.place # None
    BY <2>2 DEF Stores
  <2> HIDE DEF kept
  <2> QED BY <2>2, <2>3, StoresWith
<1> QED BY <1>1, <1>2, <1>3, <1>4, <1>5, <1>6 DEF Next

(* The inductive invariant: what is stored is well-formed and finitely     *)
(* many nodes, and the root keeps its place, so that nearest has an answer.*)
THEOREM SpecStores == Spec => []Stores
BY StoresInit, StoresNext, PTL DEF Spec

(* Every node that is stored has a place and coordinates it may have.      *)
THEOREM SpecTypeOK == Spec => []TypeOK
<1>1. Stores => TypeOK
  BY DEF Stores
<1> QED BY <1>1, SpecStores, PTL

(* What has a place is an index over finitely many ids, and the root is in *)
(* it.                                                                     *)
LEMMA PointMapIndex ==
  ASSUME Stores
  PROVE  /\ Index(point_map) /\ Root \in DOMAIN point_map
         /\ DOMAIN point_map \subseteq Id
         /\ \A x \in DOMAIN point_map : point_map[x] \in Point /\ position(x) = point_map[x]
         /\ \A x : x \in DOMAIN point_map <=> position(x) # None
<1> DEFINE D == {y \in Stored : nodes[y].place # None}
<1>1. DOMAIN point_map = D /\ \A x \in D : point_map[x] = nodes[x].place /\ x \in Stored
  BY DEF point_map
<1>2. IsFiniteSet(D)
  BY FS_Subset DEF Stores
<1>3. D \subseteq Id /\ Id \subseteq Nat /\ Root \in D
  BY IdAssumption DEF Stores, TypeOK
<1>4. \A x \in D : nodes[x].place \in Point
  BY KeptAssumption, NoneAssumption DEF Stores, TypeOK
<1> QED BY <1>1, <1>2, <1>3, <1>4 DEF Index, position

(* knn answers as a scan does.                                             *)
LEMMA KnnIsScan ==
  ASSUME NEW indexed, Index(indexed), NEW q \in Point, NEW k \in Nat
  PROVE  /\ knn(indexed, q, k) = First(indexed, q, DOMAIN indexed, k)
         /\ knn(indexed, q, k) = Best(Distances(indexed, q), DOMAIN indexed, k)
         /\ Ranked(Distances(indexed, q), DOMAIN indexed)
<1>0. Ranked(Distances(indexed, q), DOMAIN indexed)
  BY DistancesRank
<1>1. First(indexed, q, DOMAIN indexed, k) = Best(Distances(indexed, q), DOMAIN indexed, k)
  BY FirstIsBest
<1>2. CASE k = 0
  <2>1. Best(Distances(indexed, q), DOMAIN indexed, 0) = {}
    BY <1>0, BestNone
  <2> QED BY <1>0, <1>1, <1>2, <2>1 DEF knn
<1>3. CASE k # 0
  <2> DEFINE query == Knn(q, k)
  <2>1. Query(query) /\ Reaches(query) /\ query.k > 0 /\ query.k = k /\ query.at = q
    BY <1>3 DEF Knn, Query, Reaches, NoLimit
  <2>2. knn(indexed, q, k) = expand(indexed, query)
    BY <1>3 DEF knn
  <2> HIDE DEF query
  <2>3. expand(indexed, query) = Found(indexed, query, DOMAIN indexed)
    BY <2>1, ExpandFound
  <2>4. Found(indexed, query, DOMAIN indexed) = First(indexed, q, DOMAIN indexed, k)
    BY <2>1 DEF Found
  <2> QED BY <1>0, <1>1, <2>2, <2>3, <2>4
<1> QED BY <1>2, <1>3

(* within_radius answers with nothing else than a scan does, and with all  *)
(* of it if the limit reaches the query's band.                            *)
LEMMA WithinRadiusIsScan ==
  ASSUME NEW indexed, Index(indexed), NEW q \in Point, NEW limit \in Nat
  PROVE  /\ within_radius(indexed, q, limit) \subseteq Within(indexed, q, DOMAIN indexed, limit)
         /\ \/ within_radius(indexed, q, limit) = Within(indexed, q, DOMAIN indexed, limit)
            \/ OwnBandCut(q, limit)
<1> DEFINE query == Around(q, limit)
<1>1. Query(query) /\ query.k = 0 /\ query.at = q /\ query.limit = limit
  BY DEF Around, Query
<1>2. within_radius(indexed, q, limit) = expand(indexed, query)
  BY DEF within_radius
<1> HIDE DEF query
<1>3. Reaches(query) \/ OwnBandCut(q, limit)
  <2>1. radial_bound(q, band_of(q)) \in Nat
    BY BandOf, RadialBound
  <2> QED BY <1>1, <2>1 DEF Reaches, OwnBandCut
<1>4. \A ids : Found(indexed, query, ids) = Within(indexed, q, ids, limit)
  BY <1>1 DEF Found
<1>5. PICK seen \in SUBSET DOMAIN indexed : expand(indexed, query) = Found(indexed, query, seen)
  BY <1>1, ExpandFound
<1>6. Within(indexed, q, seen, limit) \subseteq Within(indexed, q, DOMAIN indexed, limit)
  BY DEF Within
<1>7. Reaches(query) => expand(indexed, query) = Found(indexed, query, DOMAIN indexed)
  BY <1>1, ExpandFound
<1> QED BY <1>2, <1>3, <1>4, <1>5, <1>6, <1>7

(* With it, knn answers as a scan does, for each query of the property.    *)
LEMMA StoresKnn ==
  ASSUME Stores
  PROVE  KnnAsScan
<1> DEFINE indexed == point_map
           D == DOMAIN indexed
<1>1. Index(indexed) /\ Root \in D /\ \A x \in D : indexed[x] \in Point
  BY PointMapIndex
<1>2. \A q \in Places : q \in Point
  BY KeptAssumption, NoneAssumption DEF Places
<1>3. ASSUME NEW q \in Point
      PROVE  \E i \in D : /\ knn(indexed, q, 1) = {i} /\ First(indexed, q, D, 1) = {i}
                          /\ \A j \in D : hyperbolic_distance(q, indexed[i]) <= hyperbolic_distance(q, indexed[j])
  <2> DEFINE score == Distances(indexed, q)
  <2>1. /\ knn(indexed, q, 1) = Best(score, D, 1) /\ First(indexed, q, D, 1) = Best(score, D, 1)
        /\ Ranked(score, D)
    <3>1. 1 \in Nat
      OBVIOUS
    <3> HIDE DEF indexed, score
    <3> QED BY <1>1, <3>1, KnnIsScan DEF score
  <2>2. PICK i \in D : Best(score, D, 1) = {i} /\ \A j \in D : score[i] <= score[j]
    <3> HIDE DEF score, D
    <3> QED BY <1>1, <2>1, BestOne
  <2>3. \A j \in D : score[j] = hyperbolic_distance(q, indexed[j])
    BY DEF Distances
  <2> QED BY <2>1, <2>2, <2>3
<1>4. verify_index_locates_all_nodes
  <2> SUFFICES ASSUME NEW x \in D
               PROVE  \E y \in knn(indexed, indexed[x], 1) : hyperbolic_distance(indexed[x], indexed[y]) = One
    BY DEF verify_index_locates_all_nodes
  <2>0. indexed[x] \in Point
    BY <1>1
  <2>1. PICK i \in D : /\ knn(indexed, indexed[x], 1) = {i}
                       /\ hyperbolic_distance(indexed[x], indexed[i]) <= hyperbolic_distance(indexed[x], indexed[x])
    <3> HIDE DEF indexed
    <3> QED BY <2>0, <1>3
  <2>2. /\ hyperbolic_distance(indexed[x], indexed[x]) = One
        /\ hyperbolic_distance(indexed[x], indexed[i]) \in Nat
        /\ hyperbolic_distance(indexed[x], indexed[i]) >= One
    BY <1>1, DistanceBounds
  <2>3. hyperbolic_distance(indexed[x], indexed[i]) = One
    BY <2>1, <2>2 DEF One
  <2> QED BY <2>1, <2>3
<1>5. ASSUME NEW q \in Places, NEW k \in Ranks
      PROVE  /\ nearest_neighbor_point_k(q, k) = First(indexed, q, D, k)
             /\ \E x \in First(indexed, q, D, 1) : nearest_neighbor_point(q) = Answered(x)
  <2>1. q \in Point /\ k \in Nat
    BY <1>2, RanksAssumption
  <2>2. knn(indexed, q, k) = First(indexed, q, D, k)
    <3> HIDE DEF indexed
    <3> QED BY <1>1, <2>1, KnnIsScan
  <2>3. PICK i \in D : knn(indexed, q, 1) = {i} /\ First(indexed, q, D, 1) = {i}
    <3> HIDE DEF indexed
    <3> QED BY <1>3, <2>1
  <2>4. nearest_neighbor_point(q) = Answered(i)
    BY <2>3 DEF nearest_neighbor_point
  <2> QED BY <2>2, <2>3, <2>4 DEF nearest_neighbor_point_k
<1> QED BY <1>4, <1>5 DEF KnnAsScan

(* With it, find_nearest answers as a scan without the node itself does.   *)
LEMMA StoresNeighbors ==
  ASSUME Stores
  PROVE  NeighborsExcludeSelf
<1> DEFINE indexed == point_map
           D == DOMAIN indexed
<1>1. /\ Index(indexed) /\ \A x \in D : indexed[x] \in Point /\ position(x) = indexed[x]
      /\ \A x : x \in D <=> position(x) # None
  BY PointMapIndex
<1> SUFFICES ASSUME NEW x \in Id, NEW k \in Ranks
             PROVE  neighbors(x, k) = IF x \in D THEN Answered(First(indexed, indexed[x], D \ {x}, k))
                                                 ELSE Refused
  BY DEF NeighborsExcludeSelf
<1>2. CASE x \notin D
  BY <1>1, <1>2 DEF neighbors
<1>3. CASE x \in D
  <2> DEFINE q == indexed[x]
             score == Distances(indexed, q)
             found == Best(score, D, k + 1)
             rest == found \ {x}
  <2>1. q \in Point /\ k \in Nat /\ k + 1 \in Nat /\ position(x) = q
    BY <1>1, <1>3, RanksAssumption
  <2>2. knn(indexed, q, k + 1) = found /\ Ranked(score, D)
    <3> HIDE DEF indexed, q
    <3> QED BY <1>1, <2>1, KnnIsScan
  <2>3. rest \subseteq D
    <3>1. found \subseteq D
      <4> HIDE DEF score, D
      <4> QED BY <2>2, BestPart
    <3> QED BY <3>1
  <2>4. First(indexed, q, rest, k) = Best(score, rest, k)
    <3> HIDE DEF indexed, q, rest
    <3> QED BY <1>1, <2>1, <2>3, FirstIsBest
  <2>5. First(indexed, q, D \ {x}, k) = Best(score, D \ {x}, k)
    <3>1. D \ {x} \subseteq D
      OBVIOUS
    <3> HIDE DEF indexed, q
    <3> QED BY <1>1, <2>1, <3>1, FirstIsBest
  <2>6. Best(score, rest, k) = Best(score, D \ {x}, k)
    <3> HIDE DEF score, D
    <3> QED BY <2>1, <2>2, BestWithout
  <2>7. find_nearest(x, k) = First(indexed, q, rest, k)
    BY <2>1, <2>2 DEF find_nearest
  <2>8. position(x) # None
    BY <1>1, <1>3
  <2>9. neighbors(x, k) = Answered(find_nearest(x, k))
    BY <2>8 DEF neighbors
  <2> HIDE DEF indexed, D, rest, score
  <2> QED BY <1>3, <2>4, <2>5, <2>6, <2>7, <2>9
<1> QED BY <1>2, <1>3

(* With it, within_radius answers as a scan does.                          *)
LEMMA StoresRadius ==
  ASSUME Stores
  PROVE  RadiusAsScan
<1> SUFFICES ASSUME NEW x \in DOMAIN point_map, NEW limit \in Limits
             PROVE  LET q == point_map[x]
                        found == find_in_radius(x, limit)
                        wanted == Within(point_map, q, DOMAIN point_map, limit) \ {x}
                    IN  found \subseteq wanted /\ (found = wanted \/ OwnBandCut(q, limit))
  BY DEF RadiusAsScan
<1> DEFINE q == point_map[x]
<1>1. Index(point_map) /\ q \in Point /\ position(x) = q /\ limit \in Nat
  BY PointMapIndex, RanksAssumption
<1>2. find_in_radius(x, limit) = within_radius(point_map, q, limit) \ {x}
  BY <1>1 DEF find_in_radius, nodes_in_radius
<1>3. /\ within_radius(point_map, q, limit) \subseteq Within(point_map, q, DOMAIN point_map, limit)
      /\ \/ within_radius(point_map, q, limit) = Within(point_map, q, DOMAIN point_map, limit)
         \/ OwnBandCut(q, limit)
  <2> HIDE DEF q
  <2> QED BY <1>1, WithinRadiusIsScan
<1> HIDE DEF q
<1>4. /\ find_in_radius(x, limit) \subseteq Within(point_map, q, DOMAIN point_map, limit) \ {x}
      /\ \/ find_in_radius(x, limit) = Within(point_map, q, DOMAIN point_map, limit) \ {x}
         \/ OwnBandCut(q, limit)
  BY <1>2, <1>3
<1> QED BY <1>4 DEF q

(* nearest and nearest_k answer as a scan of all placed nodes would, for   *)
(* any bands, any sectors and any points (cell_index.rs, expand).          *)
THEOREM SpecKnnAsScan == Spec => []KnnAsScan
<1>1. Stores => KnnAsScan
  BY StoresKnn
<1> QED BY <1>1, SpecStores, PTL

(* neighbors of a node are the k nearest other nodes, also where others    *)
(* share its place (tree_tensor.rs, find_nearest).                         *)
THEOREM SpecNeighborsExcludeSelf == Spec => []NeighborsExcludeSelf
<1>1. Stores => NeighborsExcludeSelf
  BY StoresNeighbors
<1> QED BY <1>1, SpecStores, PTL

(* find_within never answers with a node out of reach, and misses none     *)
(* unless the bound of the query's own band exceeds the radius             *)
(* (cell_index.rs, within_radius).                                         *)
THEOREM SpecRadiusAsScan == Spec => []RadiusAsScan
<1>1. Stores => RadiusAsScan
  BY StoresRadius
<1> QED BY <1>1, SpecStores, PTL

-----------------------------------------------------------------------------
(* Sums over a finite set.                                                 *)

(* A table of the sums of the terms over each part of a set, as            *)
(* MapThenSumSet makes it.                                                 *)
Summed(term, S, sum) ==
  sum = [s \in SUBSET S |-> IF s = {} THEN 0
          ELSE term[CHOOSE x \in s : TRUE] + sum[s \ {CHOOSE x \in s : TRUE}]]

(* There is such a table, by induction over the size of the parts.         *)
LEMMA SumExists ==
  ASSUME NEW S, IsFiniteSet(S), NEW term \in [S -> Int]
  PROVE  \E sum \in [SUBSET S -> Int] : Summed(term, S, sum)
<1> DEFINE A == [SUBSET S -> Int]
           First0(s) == CHOOSE x \in s : TRUE
           Step(g) == [s \in SUBSET S |-> IF s = {} THEN 0 ELSE term[First0(s)] + g[s \ {First0(s)}]]
           F == [g \in A |-> Step(g)]
           start == [s \in SUBSET S |-> 0]
<1>0. \A s \in SUBSET S : s # {} => First0(s) \in s /\ s \ {First0(s)} \in SUBSET S
  OBVIOUS
<1>1. start \in A /\ F \in [A -> A]
  <2>1. ASSUME NEW g \in A PROVE Step(g) \in A
    <3> HIDE DEF First0
    <3> QED BY <1>0
  <2>2. start \in A
    OBVIOUS
  <2> HIDE DEF Step, A, start
  <2> QED BY <2>1, <2>2
<1>2. PICK g \in [Nat -> A] : g[0] = start /\ \A n \in Nat : g[n + 1] = F[g[n]]
  <2> HIDE DEF A, F, start
  <2>1. LoopStart(A, start, F)
    BY <1>1 DEF LoopStart
  <2>2. \E g : LoopStates(A, start, F, g)
    BY <2>1, LoopRuns, Zenon
  <2> QED BY <2>2 DEF LoopStates
<1> DEFINE sum == [s \in SUBSET S |-> g[Cardinality(s)][s]]
<1>3. \A s \in SUBSET S : IsFiniteSet(s) /\ Cardinality(s) \in Nat
  BY FS_Subset, FS_CardinalityType
<1>4. sum \in [SUBSET S -> Int]
  <2> SUFFICES ASSUME NEW s \in SUBSET S PROVE g[Cardinality(s)][s] \in Int
    OBVIOUS
  <2>1. g[Cardinality(s)] \in A
    BY <1>2, <1>3
  <2> QED BY <2>1
<1>5. ASSUME NEW s \in SUBSET S
      PROVE  sum[s] = IF s = {} THEN 0 ELSE term[First0(s)] + sum[s \ {First0(s)}]
  <2>1. CASE s = {}
    <3>1. sum[s] = g[0][s]
      BY <2>1, FS_EmptySet
    <3> QED BY <1>2, <2>1, <3>1
  <2>2. CASE s # {}
    <3> DEFINE x == First0(s)
               less == s \ {x}
               n == Cardinality(less)
    <3>1. x \in s /\ less \in SUBSET S /\ n \in Nat /\ Cardinality(s) = n + 1
      <4>1. x \in s /\ less \in SUBSET S
        BY <1>0, <2>2
      <4> HIDE DEF x
      <4>2. Cardinality(less) = Cardinality(s) - 1
        BY <1>3, <4>1, FS_RemoveElement
      <4> QED BY <1>3, <4>1, <4>2
    <3> HIDE DEF x, less, n, A
    <3>2. sum[s] = F[g[n]][s] /\ g[n] \in A
      BY <1>2, <3>1
    <3>3. F[g[n]] = Step(g[n])
      BY <3>2
    <3>4. Step(g[n])[s] = term[x] + g[n][less]
      BY <2>2 DEF x, less
    <3>5. sum[less] = g[n][less]
      BY <3>1 DEF n
    <3> HIDE DEF F, Step, sum
    <3> QED BY <2>2, <3>2, <3>3, <3>4, <3>5 DEF x, less
  <2> QED BY <2>1, <2>2
<1>6. Summed(term, S, sum)
  <2>1. sum = [s \in SUBSET S |-> sum[s]]
    OBVIOUS
  <2> HIDE DEF sum
  <2> QED BY <1>5, <2>1 DEF Summed
<1> HIDE DEF sum
<1> QED BY <1>4, <1>6

(* Sums over less than two things.                                         *)
LEMMA SumOfOne ==
  ASSUME NEW term, NEW d, term[d] \in Int, NEW sum, Summed(term, {d}, sum)
  PROVE  sum[{d}] = term[d]
<1>1. (CHOOSE x \in {d} : TRUE) = d /\ {d} \ {d} = {} /\ {d} # {} /\ {} \in SUBSET {d} /\ {d} \in SUBSET {d}
  OBVIOUS
<1>2. \A s \in SUBSET {d} : sum[s] = IF s = {} THEN 0
          ELSE term[CHOOSE x \in s : TRUE] + sum[s \ {CHOOSE x \in s : TRUE}]
  BY DEF Summed
<1>3. sum[{}] = 0
  BY <1>1, <1>2
<1>4. sum[{d}] = term[d] + sum[{}]
  BY <1>1, <1>2
<1> QED BY <1>3, <1>4

(* A site has integer coordinates.                                         *)
LEMMA SiteInt ==
  ASSUME NEW p \in Point, NEW q \in Point
  PROVE  /\ Gamma(p) \in Int /\ Site(p)[1] \in Int /\ Site(p)[2] \in Int
         /\ Gamma(p) * Gamma(q) - Site(p)[1] * Site(q)[1] - Site(p)[2] * Site(q)[2]
              = hyperbolic_distance(p, q)
<1>1. /\ p.radius \in Radius /\ q.radius \in Radius
      /\ p.dir[1] \in Int /\ p.dir[2] \in Int /\ q.dir[1] \in Int /\ q.dir[2] \in Int
  <2>1. p.radius \in Radius /\ q.radius \in Radius /\ p.dir \in Direction /\ q.dir \in Direction
    BY DEF Point
  <2>2. \A e \in Direction : e[1] \in Int /\ e[2] \in Int
    BY DEF Direction
  <2> QED BY <2>1, <2>2
<1>2. \A r \in Radius : Cosh[r] \in Int /\ Sinh[r] \in Int
  BY Tables DEF Radius
<1>3. Gamma(p) \in Int /\ Site(p)[1] \in Int /\ Site(p)[2] \in Int
  BY <1>1, <1>2 DEF Gamma, Site
<1>4. \A a, b, m, n, u, v, w, z \in Int :
        (5 * a) * (5 * b) - (m * u) * (n * v) - (m * w) * (n * z) = 25 * a * b - (u * v + w * z) * m * n
  OBVIOUS
<1>5. Gamma(p) * Gamma(q) - Site(p)[1] * Site(q)[1] - Site(p)[2] * Site(q)[2]
        = hyperbolic_distance(p, q)
  BY <1>1, <1>2, <1>4 DEF Gamma, Site, hyperbolic_distance
<1> QED BY <1>3, <1>5

(* One affinity puts a node at its anchor: the barycenter is the site.     *)
LEMMA DeriveOne ==
  ASSUME NEW weights, NEW d \in DOMAIN Anchor, Positive(weights) = {d}, weights[d] \in Int
  PROVE  derive_from_weights(weights) =
           [t |-> weights[d] * Gamma(Anchor[d]),
            x |-> weights[d] * Site(Anchor[d])[1], y |-> weights[d] * Site(Anchor[d])[2]]
<1>1. /\ Gamma(Anchor[d]) \in Int /\ Site(Anchor[d])[1] \in Int /\ Site(Anchor[d])[2] \in Int
      /\ weights[d] * Gamma(Anchor[d]) \in Int
      /\ weights[d] * Site(Anchor[d])[1] \in Int /\ weights[d] * Site(Anchor[d])[2] \in Int
  <2>1. Gamma(Anchor[d]) \in Int /\ Site(Anchor[d])[1] \in Int /\ Site(Anchor[d])[2] \in Int
    BY AnchorAssumption, SiteInt
  <2> QED BY <2>1
<1>2. MapThenSumSet(LAMBDA e : weights[e] * Gamma(Anchor[e]), {d}) = weights[d] * Gamma(Anchor[d])
  <2> DEFINE IsSum(f) == f = [s \in SUBSET {d} |-> IF s = {} THEN 0
                               ELSE LET x == CHOOSE x \in s : TRUE
                                    IN  weights[x] * Gamma(Anchor[x]) + f[s \ {x}]]
             sum == CHOOSE f : IsSum(f)
             term == [e \in {d} |-> weights[e] * Gamma(Anchor[e])]
  <2>1. MapThenSumSet(LAMBDA e : weights[e] * Gamma(Anchor[e]), {d}) = sum[{d}]
    BY DEF MapThenSumSet, MapThenFoldSet
  <2>2. term \in [{d} -> Int] /\ term[d] = weights[d] * Gamma(Anchor[d])
    BY <1>1
  <2>3. \A f : IsSum(f) <=> Summed(term, {d}, f)
    <3>1. \A s \in SUBSET {d} : s # {} => term[CHOOSE x \in s : TRUE] = weights[(CHOOSE x \in s : TRUE)] * Gamma(Anchor[(CHOOSE x \in s : TRUE)])
      OBVIOUS
    <3> HIDE DEF term
    <3> QED BY <3>1 DEF Summed
  <2> HIDE DEF IsSum, term
  <2>4. IsSum(sum)
    BY <2>2, <2>3, SumExists, FS_Singleton
  <2> HIDE DEF sum
  <2>5. sum[{d}] = term[d]
    BY <2>2, <2>3, <2>4, SumOfOne
  <2> QED BY <2>1, <2>2, <2>5
<1>3. MapThenSumSet(LAMBDA e : weights[e] * Site(Anchor[e])[1], {d}) = weights[d] * Site(Anchor[d])[1]
  <2> DEFINE IsSum(f) == f = [s \in SUBSET {d} |-> IF s = {} THEN 0
                               ELSE LET x == CHOOSE x \in s : TRUE
                                    IN  weights[x] * Site(Anchor[x])[1] + f[s \ {x}]]
             sum == CHOOSE f : IsSum(f)
             term == [e \in {d} |-> weights[e] * Site(Anchor[e])[1]]
  <2>1. MapThenSumSet(LAMBDA e : weights[e] * Site(Anchor[e])[1], {d}) = sum[{d}]
    BY DEF MapThenSumSet, MapThenFoldSet
  <2>2. term \in [{d} -> Int] /\ term[d] = weights[d] * Site(Anchor[d])[1]
    BY <1>1
  <2>3. \A f : IsSum(f) <=> Summed(term, {d}, f)
    <3>1. \A s \in SUBSET {d} : s # {} => term[CHOOSE x \in s : TRUE] = weights[(CHOOSE x \in s : TRUE)] * Site(Anchor[(CHOOSE x \in s : TRUE)])[1]
      OBVIOUS
    <3> HIDE DEF term
    <3> QED BY <3>1 DEF Summed
  <2> HIDE DEF IsSum, term
  <2>4. IsSum(sum)
    BY <2>2, <2>3, SumExists, FS_Singleton
  <2> HIDE DEF sum
  <2>5. sum[{d}] = term[d]
    BY <2>2, <2>3, <2>4, SumOfOne
  <2> QED BY <2>1, <2>2, <2>5
<1>4. MapThenSumSet(LAMBDA e : weights[e] * Site(Anchor[e])[2], {d}) = weights[d] * Site(Anchor[d])[2]
  <2> DEFINE IsSum(f) == f = [s \in SUBSET {d} |-> IF s = {} THEN 0
                               ELSE LET x == CHOOSE x \in s : TRUE
                                    IN  weights[x] * Site(Anchor[x])[2] + f[s \ {x}]]
             sum == CHOOSE f : IsSum(f)
             term == [e \in {d} |-> weights[e] * Site(Anchor[e])[2]]
  <2>1. MapThenSumSet(LAMBDA e : weights[e] * Site(Anchor[e])[2], {d}) = sum[{d}]
    BY DEF MapThenSumSet, MapThenFoldSet
  <2>2. term \in [{d} -> Int] /\ term[d] = weights[d] * Site(Anchor[d])[2]
    BY <1>1
  <2>3. \A f : IsSum(f) <=> Summed(term, {d}, f)
    <3>1. \A s \in SUBSET {d} : s # {} => term[CHOOSE x \in s : TRUE] = weights[(CHOOSE x \in s : TRUE)] * Site(Anchor[(CHOOSE x \in s : TRUE)])[2]
      OBVIOUS
    <3> HIDE DEF term
    <3> QED BY <3>1 DEF Summed
  <2> HIDE DEF IsSum, term
  <2>4. IsSum(sum)
    BY <2>2, <2>3, SumExists, FS_Singleton
  <2> HIDE DEF sum
  <2>5. sum[{d}] = term[d]
    BY <2>2, <2>3, <2>4, SumOfOne
  <2> QED BY <2>1, <2>2, <2>5
<1> QED BY <1>2, <1>3, <1>4 DEF derive_from_weights

(* The concept of a node at an anchor's site: an anchor at no distance.    *)
LEMMA ClassifyOne ==
  ASSUME NEW a \in DOMAIN Anchor, NEW w \in Int, w > 0, NEW spot,
         spot = [t |-> w * Gamma(Anchor[a]),
                     x |-> w * Site(Anchor[a])[1], y |-> w * Site(Anchor[a])[2]]
  PROVE  /\ classify_point(spot) \in DOMAIN Anchor
         /\ hyperbolic_distance(Anchor[classify_point(spot)], Anchor[a]) = One
<1> DEFINE D == DOMAIN Anchor
           dist == [d \in D |-> hyperbolic_distance(Anchor[a], Anchor[d])]
           Score(p) == spot.t * Gamma(p) - spot.x * Site(p)[1] - spot.y * Site(p)[2]
           Less(d, e) == Score(Anchor[d]) < Score(Anchor[e])
           Chosen(d) == \A e \in D : ~Less(e, d) /\ (e < d => Less(d, e))
           chosen == CHOOSE d \in D : Chosen(d)
<1>1. /\ \A d \in D : Anchor[d] \in Point /\ d \in Int
      /\ IsFiniteSet(D)
  <2>1. D = 1 .. Len(Anchor) /\ Len(Anchor) \in Nat
    BY AnchorAssumption
  <2> QED BY <2>1, AnchorAssumption, FS_Interval, SMTT(60)
<1>2. ASSUME NEW d \in D PROVE dist[d] \in Nat /\ dist[d] >= One /\ Score(Anchor[d]) = w * dist[d]
  <2>1. dist[d] \in Nat /\ dist[d] >= One /\ dist[d] = hyperbolic_distance(Anchor[a], Anchor[d])
    BY <1>1, DistanceBounds
  <2> DEFINE g == Gamma(Anchor[a])
             s == Site(Anchor[a])
             h == Gamma(Anchor[d])
             r == Site(Anchor[d])
  <2>2. /\ g \in Int /\ s[1] \in Int /\ s[2] \in Int /\ h \in Int /\ r[1] \in Int /\ r[2] \in Int
        /\ g * h - s[1] * r[1] - s[2] * r[2] = hyperbolic_distance(Anchor[a], Anchor[d])
    BY <1>1, SiteInt
  <2>3. Score(Anchor[d]) = (w * g) * h - (w * s[1]) * r[1] - (w * s[2]) * r[2]
    OBVIOUS
  <2>4. \A b, c, e, f, m, n \in Int :
          (w * b) * c - (w * e) * f - (w * m) * n = w * (b * c - e * f - m * n)
    OBVIOUS
  <2> HIDE DEF g, s, h, r, dist, Score
  <2>5. Score(Anchor[d]) = w * (g * h - s[1] * r[1] - s[2] * r[2])
    BY <2>2, <2>3, <2>4
  <2> QED BY <2>1, <2>2, <2>5
<1>3. \A d, e \in D : Less(d, e) <=> dist[d] < dist[e]
  <2>1. \A m, n \in Nat : w * m < w * n <=> m < n
    <3>1. ASSUME NEW m \in Nat, NEW n \in Nat, m < n PROVE w * m < w * n
      <4>1. w * n - w * m = w * (n - m) /\ n - m > 0
        BY <3>1
      <4>2. w * (n - m) > 0
        BY <4>1
      <4> QED BY <4>1, <4>2
    <3>2. ASSUME NEW m \in Nat, NEW n \in Nat, n <= m PROVE w * n <= w * m
      <4>1. w * m - w * n = w * (m - n) /\ m - n >= 0
        BY <3>2
      <4>2. w * (m - n) >= 0
        BY <4>1
      <4> QED BY <4>1, <4>2
    <3> QED BY <3>1, <3>2
  <2> HIDE DEF Score, dist
  <2> QED BY <1>2, <2>1
<1>4. classify_point(spot) = chosen
  BY DEF classify_point
<1> HIDE DEF Less
<1>5. Ranked(dist, D)
  BY <1>1, <1>2 DEF Ranked
<1>6. PICK i \in D : \A j \in D : j = i \/ Before(dist, i, j)
  <2>1. D # {}
    OBVIOUS
  <2> HIDE DEF dist, D
  <2> QED BY <1>5, <2>1, FirstOf
<1>7. Chosen(i)
  <2> SUFFICES ASSUME NEW e \in D PROVE ~(dist[e] < dist[i]) /\ (e < i => dist[i] < dist[e])
    BY <1>3
  <2> HIDE DEF dist
  <2>1. dist[e] \in Nat /\ dist[i] \in Nat
    BY <1>2
  <2> QED BY <1>1, <1>6, <2>1 DEF Before
<1>8. chosen \in D /\ Chosen(chosen)
  <2> HIDE DEF Chosen
  <2> QED BY <1>7
<1> HIDE DEF chosen
<1>9. dist[chosen] = One
  <2>1. dist[a] = One
    BY <1>1, DistanceBounds
  <2>2. ~(dist[a] < dist[chosen])
    BY <1>3, <1>8
  <2> HIDE DEF dist
  <2> QED BY <1>2, <1>8, <2>1, <2>2 DEF One
<1>10. hyperbolic_distance(Anchor[chosen], Anchor[a]) = dist[chosen]
  BY <1>1, <1>8, DistanceBounds
<1> QED BY <1>4, <1>8, <1>9, <1>10

(* With the invariant, a node at an anchor is classified as that anchor.   *)
LEMMA StoresClassify ==
  ASSUME Stores
  PROVE  ClassifyIdentity
<1> SUFFICES ASSUME NEW x \in Stored
             PROVE  /\ x \in DOMAIN AtAnchors(StoredCoords) =>
                         hyperbolic_distance(Anchor[concept_of(nodes[x].coords)],
                                             AtAnchors(StoredCoords)[x]) = One
                    /\ classify_sample(1, nodes[x].coords) = concept_of(nodes[x].coords)
  BY DEF ClassifyIdentity
<1> DEFINE coords == nodes[x].coords
           weights == AnchorWeights(coords)
<1>1. coords \in Seq(Int) /\ DOMAIN coords = 1 .. Len(coords) /\ Len(coords) \in Nat
  BY KeptAssumption DEF Stores, TypeOK
<1>2. \A d \in DOMAIN Anchor : d \in Int /\ d >= 1 /\ (d <= Len(coords) => coords[d] \in Int)
  <2>1. DOMAIN Anchor = 1 .. Len(Anchor) /\ Len(Anchor) \in Nat
    BY AnchorAssumption
  <2> HIDE DEF coords
  <2> QED BY <1>1, <2>1
<1>3. \A d \in DOMAIN Anchor : weights[d] \in Int
  <2> HIDE DEF coords
  <2> QED BY <1>2 DEF AnchorWeights
<1>4. coords = <<>> => derive_from_weights(weights) = None
  <2> SUFFICES ASSUME coords = <<>> PROVE Positive(weights) = {}
    BY DEF derive_from_weights
  <2>1. \A d \in DOMAIN Anchor : weights[d] = 0
    <3>1. Len(coords) = 0
      OBVIOUS
    <3> HIDE DEF coords
    <3> QED BY <1>2, <3>1 DEF AnchorWeights
  <2> HIDE DEF weights
  <2> QED BY <2>1 DEF Positive
<1>5. derive_from_coords(coords) = derive_from_weights(weights)
  BY <1>4 DEF derive_from_coords
<1>6. classify_sample(1, coords) = concept_of(coords)
  <2> DEFINE sampled == [d \in DOMAIN Anchor |-> IF d - 1 + 1 \in DOMAIN coords THEN coords[d - 1 + 1] ELSE 0]
  <2>1. sampled = weights
    <3> HIDE DEF coords
    <3>1. \A d \in DOMAIN Anchor : d - 1 + 1 = d /\ (d \in DOMAIN coords <=> d <= Len(coords))
      BY <1>1, <1>2
    <3> QED BY <3>1 DEF AnchorWeights
  <2>2. classify_sample(1, coords) = IF derive_from_weights(sampled) = None THEN None
                                     ELSE classify_point(derive_from_weights(sampled))
    BY DEF classify_sample
  <2> HIDE DEF sampled, weights, coords
  <2> QED BY <1>5, <2>1, <2>2 DEF concept_of
<1>7. ASSUME x \in DOMAIN AtAnchors(StoredCoords)
      PROVE  hyperbolic_distance(Anchor[concept_of(coords)], AtAnchors(StoredCoords)[x]) = One
  <2>1. /\ StoredCoords[x] = coords /\ Cardinality(Positive(weights)) = 1
        /\ AtAnchors(StoredCoords)[x] =
             Anchor[CHOOSE d \in DOMAIN Anchor : Positive(weights) = {d}]
    BY <1>7 DEF AtAnchors, StoredCoords
  <2> HIDE DEF weights, coords
  <2>2. IsFiniteSet(Positive(weights))
    <3>1. DOMAIN Anchor = 1 .. Len(Anchor) /\ Len(Anchor) \in Nat
      BY AnchorAssumption
    <3>2. IsFiniteSet(DOMAIN Anchor) /\ Positive(weights) \subseteq DOMAIN Anchor
      BY <3>1, FS_Interval DEF Positive
    <3> QED BY <3>2, FS_Subset
  <2>3. \E d \in DOMAIN Anchor : Positive(weights) = {d}
    <3>1. \E d : Positive(weights) = {d}
      BY <2>1, <2>2, FS_Singleton
    <3> QED BY <3>1 DEF Positive
  <2> DEFINE a == CHOOSE d \in DOMAIN Anchor : Positive(weights) = {d}
  <2>4. a \in DOMAIN Anchor /\ Positive(weights) = {a}
    BY <2>3
  <2> HIDE DEF a
  <2>5. weights[a] \in Int /\ weights[a] > 0
    BY <1>3, <2>4 DEF Positive
  <2> DEFINE spot == [t |-> weights[a] * Gamma(Anchor[a]),
                          x |-> weights[a] * Site(Anchor[a])[1],
                          y |-> weights[a] * Site(Anchor[a])[2]]
  <2>6. derive_from_weights(weights) = spot
    BY <2>4, <2>5, DeriveOne
  <2>7. /\ classify_point(spot) \in DOMAIN Anchor
        /\ hyperbolic_distance(Anchor[classify_point(spot)], Anchor[a]) = One
    <3>1. \A p : p = spot =>
            /\ classify_point(p) \in DOMAIN Anchor
            /\ hyperbolic_distance(Anchor[classify_point(p)], Anchor[a]) = One
      BY <2>4, <2>5, ClassifyOne
    <3> QED BY <3>1
  <2>8. spot # None
    <3>1. spot \in [t : Int, x : Int, y : Int]
      <4>1. Anchor[a] \in Point
        BY <2>4, AnchorAssumption
      <4>2. Gamma(Anchor[a]) \in Int /\ Site(Anchor[a])[1] \in Int /\ Site(Anchor[a])[2] \in Int
        BY <4>1, SiteInt
      <4> QED BY <2>5, <4>2
    <3> HIDE DEF spot
    <3> QED BY <3>1, NoneAssumption
  <2>9. concept_of(coords) = classify_point(spot)
    <3> HIDE DEF spot
    <3> QED BY <1>5, <2>6, <2>8 DEF concept_of
  <2> QED BY <2>1, <2>7, <2>9 DEF a
<1> QED BY <1>6, <1>7

(* A node with one affinity belongs to that concept, and a trajectory over *)
(* all dimensions says of it what concept_of says, for any anchors         *)
(* (semantic_disk.rs, classify_point and classify_trajectory).             *)
THEOREM SpecClassifyIdentity == Spec => []ClassifyIdentity
<1>1. Stores => ClassifyIdentity
  BY StoresClassify
<1> QED BY <1>1, SpecStores, PTL

-----------------------------------------------------------------------------
(* Recursive functions.                                                    *)

(* F fixes what a function is at x by what it is at lower ranks.           *)
Local(X, r, A, F) ==
  \A g, h \in A : \A x \in X : (\A y \in X : r[y] < r[x] => g[y] = h[y]) => F[g][x] = F[h][x]

(* A recursion of functions from X to V, with a to begin with.             *)
Recursion(X, r, V, a, F) ==
  r \in [X -> Nat] /\ a \in [X -> V] /\ F \in [[X -> V] -> [X -> V]] /\ Local(X, r, [X -> V], F)

Solution(X, V, F, f) == f \in [X -> V] /\ f = F[f]

(* What is defined by recursion over a rank exists.                        *)
LEMMA RankedRecursion ==
  ASSUME NEW X, NEW r, NEW V, NEW a, NEW F, Recursion(X, r, V, a, F)
  PROVE  \E f : Solution(X, V, F, f)
<1> DEFINE A == [X -> V]
<1> USE DEF Recursion, Solution
<1>1. PICK g \in [Nat -> A] : g[0] = a /\ \A n \in Nat : g[n + 1] = F[g[n]]
  <2>1. LoopStart(A, a, F)
    BY DEF LoopStart
  <2> HIDE DEF A
  <2>2. \E g : LoopStates(A, a, F, g)
    BY <2>1, LoopRuns, Zenon
  <2> QED BY <2>2 DEF LoopStates
<1> DEFINE Stable(n) == \A x \in X : r[x] < n => g[n + 1][x] = g[n][x]
           stable == {n \in Nat : Stable(n)}
<1>2. \A n \in Nat : Stable(n)
  <2>1. stable \subseteq Nat
    OBVIOUS
  <2>2. 0 \in stable
    OBVIOUS
  <2>3. ASSUME NEW n \in stable PROVE n + 1 \in stable
    <3>1. n \in Nat /\ Stable(n) /\ n + 1 \in Nat
      OBVIOUS
    <3>2. ASSUME NEW x \in X, r[x] < n + 1 PROVE g[(n + 1) + 1][x] = g[n + 1][x]
      <4>1. \A y \in X : r[y] < r[x] => g[n + 1][y] = g[n][y]
        BY <3>1, <3>2
      <4>2. g[n + 1] \in A /\ g[n] \in A
        BY <3>1
      <4>3. F[g[n + 1]][x] = F[g[n]][x]
        BY <4>1, <4>2 DEF Local
      <4>4. g[(n + 1) + 1] = F[g[n + 1]] /\ g[n + 1] = F[g[n]]
        BY <1>1, <3>1
      <4> QED BY <4>3, <4>4
    <3>3. Stable(n + 1)
      BY <3>2
    <3> HIDE DEF Stable
    <3> QED BY <3>1, <3>3
  <2> HIDE DEF stable
  <2>4. \A n \in Nat : n \in stable
    BY <2>1, <2>2, <2>3, SetInduction
  <2> QED BY <2>4 DEF stable
<1> DEFINE f == [x \in X |-> g[r[x] + 1][x]]
<1>3. ASSUME NEW x \in X PROVE \A n \in Nat : n > r[x] => g[n][x] = f[x]
  <2> DEFINE same == {n \in Nat : g[(r[x] + 1) + n][x] = f[x]}
  <2>1. same \subseteq Nat /\ 0 \in same
    OBVIOUS
  <2>2. ASSUME NEW n \in same PROVE n + 1 \in same
    <3>1. n \in Nat /\ r[x] \in Nat /\ (r[x] + 1) + n \in Nat /\ r[x] < (r[x] + 1) + n
      OBVIOUS
    <3>2. g[((r[x] + 1) + n) + 1][x] = g[(r[x] + 1) + n][x]
      BY <1>2, <3>1
    <3>3. ((r[x] + 1) + n) + 1 = (r[x] + 1) + (n + 1)
      BY <3>1
    <3> HIDE DEF f
    <3> QED BY <3>1, <3>2, <3>3
  <2>3. \A n \in Nat : n \in same
    <3> HIDE DEF same
    <3> QED BY <2>1, <2>2, SetInduction
  <2> SUFFICES ASSUME NEW n \in Nat, n > r[x] PROVE g[n][x] = f[x]
    OBVIOUS
  <2>4. n - (r[x] + 1) \in Nat /\ (r[x] + 1) + (n - (r[x] + 1)) = n
    OBVIOUS
  <2> HIDE DEF f
  <2> QED BY <2>3, <2>4
<1>4. f \in A
  <2> SUFFICES ASSUME NEW x \in X PROVE g[r[x] + 1][x] \in V
    OBVIOUS
  <2>1. g[r[x] + 1] \in A
    BY <1>1
  <2> QED BY <2>1
<1>5. ASSUME NEW x \in X PROVE F[f][x] = f[x]
  <2>1. g[r[x]] \in A /\ r[x] \in Nat
    BY <1>1
  <2>2. \A y \in X : r[y] < r[x] => f[y] = g[r[x]][y]
    <3> HIDE DEF f
    <3> QED BY <1>3, <2>1
  <2>3. F[f][x] = F[g[r[x]]][x]
    <3> HIDE DEF f
    <3> QED BY <1>4, <2>1, <2>2 DEF Local
  <2>4. F[g[r[x]]] = g[r[x] + 1]
    BY <1>1, <2>1
  <2> QED BY <2>3, <2>4
<1>6. F[f] \in A
  <2> HIDE DEF f, A
  <2> QED BY <1>4 DEF A
<1>7. F[f] = [x \in X |-> F[f][x]] /\ f = [x \in X |-> f[x]]
  <2> HIDE DEF f
  <2> QED BY <1>4, <1>6
<1> HIDE DEF f
<1>8. [x \in X |-> F[f][x]] = [x \in X |-> f[x]]
  BY <1>5
<1> QED BY <1>4, <1>7, <1>8

-----------------------------------------------------------------------------
(* The walk over a tree.                                                   *)

(* The names of the subtrees there are.                                    *)
Parts(tree) == DOMAIN tree \cup {{}}

(* A node, and what is left and right of it, are its part.                 *)
Splits(tree, part) ==
  LET node == tree[part] IN
    /\ node.left \in Parts(tree) /\ node.right \in Parts(tree)
    /\ \A i : i \in part <=> i = node.id \/ i \in node.left \/ i \in node.right
    /\ node.id \notin node.left /\ node.id \notin node.right

TreeOver(ids, tree) == \A part \in DOMAIN tree : part \in SUBSET ids /\ Splits(tree, part)

(* What is pruned comes after all that was found.                          *)
PruningSound(metric, score, tree, k) ==
  \A part \in DOMAIN tree : \A found \in SUBSET DOMAIN score :
    /\ Pruned(prune_left, metric, score, tree[part], found, k) =>
         \A i \in tree[part].left : \A j \in found : Before(score, j, i)
    /\ Pruned(prune_right, metric, score, tree[part], found, k) =>
         \A i \in tree[part].right : \A j \in found : Before(score, j, i)

(* The two descents of search_knn, by what the search of a part gives.     *)
GoLeft(metric, score, k, search, node, found) ==
  IF Pruned(prune_left, metric, score, node, found, k) THEN found ELSE search[node.left][found]

GoRight(metric, score, k, search, node, found) ==
  IF Pruned(prune_right, metric, score, node, found, k) THEN found ELSE search[node.right][found]

Descend(metric, score, k, search, node, here) ==
  IF left_first(score[node.id], node.median)
  THEN GoRight(metric, score, k, search, node, GoLeft(metric, score, k, search, node, here))
  ELSE GoLeft(metric, score, k, search, node, GoRight(metric, score, k, search, node, here))

(* search_knn of a part of the tree, and of all of them.                   *)
SearchPart(metric, score, tree, k, search, part) ==
  [candidates \in SUBSET DOMAIN score |->
     IF part = {} THEN candidates
     ELSE Descend(metric, score, k, search, tree[part],
                  Best(score, candidates \cup {tree[part].id}, k))]

SearchFunction(metric, score, tree, k, search) ==
  search = [part \in Parts(tree) |-> SearchPart(metric, score, tree, k, search, part)]

SearchStates(score, tree) == [Parts(tree) -> [SUBSET DOMAIN score -> SUBSET DOMAIN score]]

(* What the search of a part finds is among the ids.                       *)
LEMMA DescendAmong ==
  ASSUME NEW metric, NEW score, NEW tree, NEW k, TreeOver(DOMAIN score, tree),
         NEW search \in SearchStates(score, tree), NEW part \in DOMAIN tree,
         NEW here \in SUBSET DOMAIN score
  PROVE  /\ Descend(metric, score, k, search, tree[part], here) \in SUBSET DOMAIN score
         /\ GoLeft(metric, score, k, search, tree[part], here) \in SUBSET DOMAIN score
         /\ GoRight(metric, score, k, search, tree[part], here) \in SUBSET DOMAIN score
<1>1. tree[part].left \in Parts(tree) /\ tree[part].right \in Parts(tree)
  BY DEF TreeOver, Splits
<1>2. \A found \in SUBSET DOMAIN score :
        /\ search[tree[part].left][found] \in SUBSET DOMAIN score
        /\ search[tree[part].right][found] \in SUBSET DOMAIN score
  BY <1>1 DEF SearchStates
<1>3. \A found \in SUBSET DOMAIN score :
        /\ GoLeft(metric, score, k, search, tree[part], found) \in SUBSET DOMAIN score
        /\ GoRight(metric, score, k, search, tree[part], found) \in SUBSET DOMAIN score
  BY <1>2 DEF GoLeft, GoRight
<1> QED BY <1>3 DEF Descend

(* What is found is among the ids.                                         *)
LEMMA SearchPartAmong ==
  ASSUME NEW metric, NEW score, NEW tree, NEW k, TreeOver(DOMAIN score, tree),
         NEW search \in SearchStates(score, tree), NEW part \in Parts(tree)
  PROVE  SearchPart(metric, score, tree, k, search, part) \in [SUBSET DOMAIN score -> SUBSET DOMAIN score]
<1> SUFFICES ASSUME NEW candidates \in SUBSET DOMAIN score
             PROVE  (IF part = {} THEN candidates
                     ELSE Descend(metric, score, k, search, tree[part],
                                  Best(score, candidates \cup {tree[part].id}, k)))
                      \in SUBSET DOMAIN score
  BY DEF SearchPart
<1>1. CASE part = {}
  BY <1>1
<1>2. CASE part # {}
  <2>1. part \in DOMAIN tree
    BY <1>2 DEF Parts
  <2>2. tree[part].id \in DOMAIN score
    BY <2>1 DEF TreeOver, Splits
  <2>3. Best(score, candidates \cup {tree[part].id}, k) \in SUBSET DOMAIN score
    BY <2>2 DEF Best
  <2>4. Descend(metric, score, k, search, tree[part],
                Best(score, candidates \cup {tree[part].id}, k)) \in SUBSET DOMAIN score
    BY <2>1, <2>3, DescendAmong
  <2> QED BY <1>2, <2>4
<1> QED BY <1>1, <1>2

(* What is left or right of a node is less than the node's part.           *)
LEMMA Halves ==
  ASSUME NEW ids, IsFiniteSet(ids), NEW tree, TreeOver(ids, tree), NEW part \in DOMAIN tree
  PROVE  /\ Cardinality(tree[part].left) < Cardinality(part)
         /\ Cardinality(tree[part].right) < Cardinality(part)
         /\ Cardinality(part) \in Nat
         /\ Cardinality(tree[part].left) \in Nat /\ Cardinality(tree[part].right) \in Nat
<1>1. part \in SUBSET ids /\ tree[part].left \subseteq part /\ tree[part].right \subseteq part
      /\ tree[part].left # part /\ tree[part].right # part
  BY DEF TreeOver, Splits
<1>2. IsFiniteSet(part)
  BY <1>1, FS_Subset
<1> QED BY <1>1, <1>2, CardinalityOfPart

(* The recursive function of search_knn exists.                            *)
LEMMA SearchExists ==
  ASSUME NEW metric, NEW score, IsFiniteSet(DOMAIN score), NEW tree, NEW k,
         TreeOver(DOMAIN score, tree)
  PROVE  \E search \in SearchStates(score, tree) : SearchFunction(metric, score, tree, k, search)
<1> DEFINE X == Parts(tree)
           V == [SUBSET DOMAIN score -> SUBSET DOMAIN score]
           r == [part \in X |-> Cardinality(part)]
           Step(g) == [part \in X |-> SearchPart(metric, score, tree, k, g, part)]
           F == [g \in [X -> V] |-> Step(g)]
           a == [part \in X |-> [found \in SUBSET DOMAIN score |-> found]]
<1>1. r \in [X -> Nat]
  <2>1. \A part \in X : IsFiniteSet(part)
    BY FS_Subset, FS_EmptySet DEF Parts, TreeOver
  <2> QED BY <2>1, FS_CardinalityType
<1>2. a \in [X -> V]
  OBVIOUS
<1>3. F \in [[X -> V] -> [X -> V]]
  <2> SUFFICES ASSUME NEW g \in [X -> V] PROVE Step(g) \in [X -> V]
    OBVIOUS
  <2>1. g \in SearchStates(score, tree)
    BY DEF SearchStates
  <2>2. \A part \in X : SearchPart(metric, score, tree, k, g, part) \in V
    BY <2>1, SearchPartAmong
  <2> QED BY <2>2
<1>4. Local(X, r, [X -> V], F)
  <2> SUFFICES ASSUME NEW g \in [X -> V], NEW h \in [X -> V], NEW part \in X,
                      \A y \in X : r[y] < r[part] => g[y] = h[y]
               PROVE  F[g][part] = F[h][part]
    BY Zenon DEF Local
  <2>1. F[g][part] = SearchPart(metric, score, tree, k, g, part)
        /\ F[h][part] = SearchPart(metric, score, tree, k, h, part)
    OBVIOUS
  <2>2. CASE part = {}
    BY <2>1, <2>2 DEF SearchPart
  <2>3. CASE part # {}
    <3>1. part \in DOMAIN tree
      BY <2>3 DEF Parts
    <3>2. tree[part].left \in X /\ tree[part].right \in X
      BY <3>1 DEF TreeOver, Splits
    <3>3. r[tree[part].left] < r[part] /\ r[tree[part].right] < r[part]
      BY <3>1, <3>2, Halves
    <3>4. g[tree[part].left] = h[tree[part].left] /\ g[tree[part].right] = h[tree[part].right]
      BY <3>2, <3>3
    <3> QED BY <2>1, <3>4, ZenonT(60) DEF SearchPart, Descend, GoLeft, GoRight
  <2> QED BY <2>2, <2>3
<1>5. \E g : Solution(X, V, F, g)
  <2>1. Recursion(X, r, V, a, F)
    <3> HIDE DEF X, V, r, F, a
    <3> QED BY <1>1, <1>2, <1>3, <1>4 DEF Recursion
  <2> HIDE DEF X, V, r, F, a
  <2> QED BY <2>1, RankedRecursion, Zenon
<1>6. PICK g \in [X -> V] : g = Step(g)
  <2> HIDE DEF X, V, Step
  <2> QED BY <1>5 DEF Solution
<1>7. g \in SearchStates(score, tree)
  BY DEF SearchStates
<1> QED BY <1>6, <1>7 DEF SearchFunction

(* The best of what is seen, when one more group of ids is seen.           *)
Keeps(score, k, seen, found) == found = Best(score, seen, k)

(* One more set is seen, and the best kept.                                *)
LEMMA KeepsMore ==
  ASSUME NEW score, NEW all, Ranked(score, all), NEW k \in Nat,
         NEW seen \in SUBSET all, NEW found, Keeps(score, k, seen, found), NEW more \in SUBSET all
  PROVE  Keeps(score, k, seen \cup more, Best(score, found \cup more, k))
<1>1. found \subseteq seen
  BY DEF Keeps, Best
<1> DEFINE both == seen \cup more
           some == found \cup more
<1>2. both \subseteq all /\ Ranked(score, both) /\ seen \subseteq both /\ some \subseteq both
  <2>1. both \subseteq all /\ seen \subseteq both /\ some \subseteq both
    BY <1>1
  <2> HIDE DEF both, some
  <2> QED BY <2>1, RankedPart
<1>3. Best(score, seen, k) \subseteq some /\ \A i \in both : i \in seen \/ i \in some
  BY DEF Keeps
<1>4. Best(score, some, k) = Best(score, both, k)
  <2> HIDE DEF both, some
  <2> QED BY <1>2, <1>3, BestOfBest
<1> QED BY <1>4 DEF Keeps

(* What comes after all of k found need not be looked at.                  *)
LEMMA KeepsSkipped ==
  ASSUME NEW score, NEW all, Ranked(score, all), NEW k \in Nat,
         NEW seen \in SUBSET all, NEW found, Keeps(score, k, seen, found), Cardinality(found) >= k,
         NEW more \in SUBSET all, \A i \in more : \A j \in found : Before(score, j, i)
  PROVE  Keeps(score, k, seen \cup more, found)
<1> DEFINE both == seen \cup more
<1>2. Ranked(score, both) /\ seen \subseteq both
  <2>1. both \subseteq all /\ seen \subseteq both
    OBVIOUS
  <2> HIDE DEF both
  <2> QED BY <2>1, RankedPart
<1>3. Cardinality(Best(score, seen, k)) >= k
      /\ \A j \in both : j \in seen \/ \A i \in Best(score, seen, k) : Before(score, i, j)
  BY DEF Keeps
<1>4. Best(score, both, k) = Best(score, seen, k)
  <2> HIDE DEF both
  <2> QED BY <1>2, <1>3, BestUnchanged
<1> QED BY <1>4 DEF Keeps

(* What the search of a part finds, with k found before it or fewer.       *)
Searched(score, k, search, part) ==
  \A seen \in SUBSET DOMAIN score : \A found \in SUBSET DOMAIN score :
    Keeps(score, k, seen, found) => Keeps(score, k, seen \cup part, search[part][found])

(* One descent, or its being pruned, finds the best of that half too.      *)
LEMMA GoLeftKeeps ==
  ASSUME NEW metric, NEW score, Ranked(score, DOMAIN score), NEW tree, NEW k \in Nat,
         TreeOver(DOMAIN score, tree), PruningSound(metric, score, tree, k),
         NEW search, NEW part \in DOMAIN tree, Searched(score, k, search, tree[part].left),
         NEW seen \in SUBSET DOMAIN score, NEW found \in SUBSET DOMAIN score,
         Keeps(score, k, seen, found)
  PROVE  Keeps(score, k, seen \cup tree[part].left, GoLeft(metric, score, k, search, tree[part], found))
<1>1. tree[part].left \in SUBSET DOMAIN score
  BY DEF TreeOver, Splits
<1>2. CASE Pruned(prune_left, metric, score, tree[part], found, k)
  <2>1. Cardinality(found) >= k
    BY <1>2 DEF Pruned
  <2>2. \A i \in tree[part].left : \A j \in found : Before(score, j, i)
    BY <1>2 DEF PruningSound
  <2>3. Keeps(score, k, seen \cup tree[part].left, found)
    BY <1>1, <2>1, <2>2, KeepsSkipped
  <2> QED BY <1>2, <2>3 DEF GoLeft
<1>3. CASE ~Pruned(prune_left, metric, score, tree[part], found, k)
  BY <1>3 DEF GoLeft, Searched
<1> QED BY <1>2, <1>3

(* To the right likewise.                                                  *)
LEMMA GoRightKeeps ==
  ASSUME NEW metric, NEW score, Ranked(score, DOMAIN score), NEW tree, NEW k \in Nat,
         TreeOver(DOMAIN score, tree), PruningSound(metric, score, tree, k),
         NEW search, NEW part \in DOMAIN tree, Searched(score, k, search, tree[part].right),
         NEW seen \in SUBSET DOMAIN score, NEW found \in SUBSET DOMAIN score,
         Keeps(score, k, seen, found)
  PROVE  Keeps(score, k, seen \cup tree[part].right, GoRight(metric, score, k, search, tree[part], found))
<1>1. tree[part].right \in SUBSET DOMAIN score
  BY DEF TreeOver, Splits
<1>2. CASE Pruned(prune_right, metric, score, tree[part], found, k)
  <2>1. Cardinality(found) >= k
    BY <1>2 DEF Pruned
  <2>2. \A i \in tree[part].right : \A j \in found : Before(score, j, i)
    BY <1>2 DEF PruningSound
  <2>3. Keeps(score, k, seen \cup tree[part].right, found)
    BY <1>1, <2>1, <2>2, KeepsSkipped
  <2> QED BY <1>2, <2>3 DEF GoRight
<1>3. CASE ~Pruned(prune_right, metric, score, tree[part], found, k)
  BY <1>3 DEF GoRight, Searched
<1> QED BY <1>2, <1>3

(* So both find, from what the node itself leaves, the best of the part.   *)
LEMMA DescendKeeps ==
  ASSUME NEW metric, NEW score, Ranked(score, DOMAIN score), NEW tree, NEW k \in Nat,
         TreeOver(DOMAIN score, tree), PruningSound(metric, score, tree, k),
         NEW search, NEW part \in DOMAIN tree,
         Searched(score, k, search, tree[part].left), Searched(score, k, search, tree[part].right),
         NEW seen \in SUBSET DOMAIN score, NEW found \in SUBSET DOMAIN score,
         Keeps(score, k, seen, found)
  PROVE  Keeps(score, k, seen \cup part,
               Descend(metric, score, k, search, tree[part],
                       Best(score, found \cup {tree[part].id}, k)))
<1> DEFINE node == tree[part]
           here == Best(score, found \cup {node.id}, k)
           left == node.left
           right == node.right
           some == seen \cup {node.id}
<1>1. {node.id} \in SUBSET DOMAIN score /\ left \in SUBSET DOMAIN score /\ right \in SUBSET DOMAIN score
      /\ some \in SUBSET DOMAIN score /\ (some \cup left) \cup right = seen \cup part
      /\ (some \cup right) \cup left = seen \cup part
  BY DEF TreeOver, Splits
<1>2. Keeps(score, k, some, here)
  BY <1>1, KeepsMore
<1>3. here \in SUBSET DOMAIN score
  BY <1>1, <1>2 DEF Keeps, Best
<1> HIDE DEF here, some
<1>4. CASE left_first(score[node.id], node.median)
  <2> DEFINE first == GoLeft(metric, score, k, search, node, here)
  <2>1. Keeps(score, k, some \cup left, first)
    BY <1>1, <1>2, <1>3, GoLeftKeeps
  <2>2. some \cup left \in SUBSET DOMAIN score /\ first \in SUBSET DOMAIN score
    BY <1>1, <2>1 DEF Keeps, Best
  <2> HIDE DEF first
  <2>3. Keeps(score, k, (some \cup left) \cup right, GoRight(metric, score, k, search, node, first))
    BY <2>1, <2>2, GoRightKeeps
  <2>4. Descend(metric, score, k, search, node, here) = GoRight(metric, score, k, search, node, first)
    BY <1>4 DEF Descend, first
  <2> QED BY <1>1, <2>3, <2>4 DEF here
<1>5. CASE ~left_first(score[node.id], node.median)
  <2> DEFINE first == GoRight(metric, score, k, search, node, here)
  <2>1. Keeps(score, k, some \cup right, first)
    BY <1>1, <1>2, <1>3, GoRightKeeps
  <2>2. some \cup right \in SUBSET DOMAIN score /\ first \in SUBSET DOMAIN score
    BY <1>1, <2>1 DEF Keeps, Best
  <2> HIDE DEF first
  <2>3. Keeps(score, k, (some \cup right) \cup left, GoLeft(metric, score, k, search, node, first))
    BY <2>1, <2>2, GoLeftKeeps
  <2>4. Descend(metric, score, k, search, node, here) = GoLeft(metric, score, k, search, node, first)
    BY <1>5 DEF Descend, first
  <2> QED BY <1>1, <2>3, <2>4 DEF here
<1> QED BY <1>4, <1>5

(* Every part is searched so, by induction over its size.                  *)
LEMMA AllSearched ==
  ASSUME NEW metric, NEW score, Ranked(score, DOMAIN score), NEW tree, NEW k \in Nat,
         TreeOver(DOMAIN score, tree), PruningSound(metric, score, tree, k),
         NEW search, SearchFunction(metric, score, tree, k, search),
         NEW whole \in Parts(tree)
  PROVE  Searched(score, k, search, whole)
<1> DEFINE I == {n \in Nat : \A part \in Parts(tree) : Cardinality(part) < n => Searched(score, k, search, part)}
<1>0. IsFiniteSet(DOMAIN score)
  BY DEF Ranked
<1>1. \A part \in Parts(tree) : Cardinality(part) \in Nat
  <2>1. \A part \in Parts(tree) : IsFiniteSet(part)
    BY <1>0, FS_Subset, FS_EmptySet DEF Parts, TreeOver
  <2> QED BY <2>1, FS_CardinalityType
<1>2. I \subseteq Nat
  OBVIOUS
<1>3. 0 \in I
  BY <1>1
<1>4. ASSUME NEW n \in I PROVE n + 1 \in I
  <2>1. n \in Nat /\ n + 1 \in Nat
        /\ \A part \in Parts(tree) : Cardinality(part) < n => Searched(score, k, search, part)
    OBVIOUS
  <2>2. ASSUME NEW part \in Parts(tree), Cardinality(part) < n + 1,
               NEW seen \in SUBSET DOMAIN score, NEW found \in SUBSET DOMAIN score,
               Keeps(score, k, seen, found)
        PROVE  Keeps(score, k, seen \cup part, search[part][found])
    <3>1. search[part] = SearchPart(metric, score, tree, k, search, part)
      BY DEF SearchFunction
    <3>2. search[part][found] =
            IF part = {} THEN found
            ELSE Descend(metric, score, k, search, tree[part],
                         Best(score, found \cup {tree[part].id}, k))
      BY <3>1 DEF SearchPart
    <3>3. CASE part = {}
      <4>1. seen \cup part = seen
        BY <3>3
      <4> QED BY <2>2, <3>2, <3>3, <4>1
    <3>4. CASE part # {}
      <4>1. part \in DOMAIN tree
        BY <3>4 DEF Parts
      <4>2. tree[part].left \in Parts(tree) /\ tree[part].right \in Parts(tree)
        BY <4>1 DEF TreeOver, Splits
      <4>3. Cardinality(tree[part].left) < n /\ Cardinality(tree[part].right) < n
        <5>1. /\ Cardinality(tree[part].left) < Cardinality(part)
              /\ Cardinality(tree[part].right) < Cardinality(part)
          BY <1>0, <4>1, Halves
        <5> QED BY <1>1, <2>1, <2>2, <4>2, <5>1
      <4>4. /\ Searched(score, k, search, tree[part].left)
            /\ Searched(score, k, search, tree[part].right)
        BY <2>1, <4>2, <4>3
      <4>5. Keeps(score, k, seen \cup part,
                  Descend(metric, score, k, search, tree[part],
                          Best(score, found \cup {tree[part].id}, k)))
        BY <2>2, <4>1, <4>4, DescendKeeps
      <4> QED BY <3>2, <3>4, <4>5
    <3> QED BY <3>3, <3>4
  <2> QED BY <2>1, <2>2 DEF Searched
<1>5. \A n \in Nat : n \in I
  <2> HIDE DEF I
  <2> QED BY <1>2, <1>3, <1>4, SetInduction
<1>6. Cardinality(whole) + 1 \in I /\ Cardinality(whole) < Cardinality(whole) + 1
  BY <1>1, <1>5
<1> QED BY <1>6

(* Given sound pruning tests, a tree over all ids gives the k best.        *)
LEMMA SearchIsBest ==
  ASSUME NEW metric, NEW score, Ranked(score, DOMAIN score), NEW tree, NEW k \in Nat,
         TreeOver(DOMAIN score, tree), PruningSound(metric, score, tree, k),
         DOMAIN score \in Parts(tree)
  PROVE  search_knn(metric, score, tree, k) = Best(score, DOMAIN score, k)
<1> DEFINE search == CHOOSE s : SearchFunction(metric, score, tree, k, s)
<1>1. search_knn(metric, score, tree, k) = search[DOMAIN score][{}]
  BY DEF search_knn, SearchFunction, SearchPart, Descend, GoLeft, GoRight, Parts
<1>2. \E s \in SearchStates(score, tree) : SearchFunction(metric, score, tree, k, s)
  BY SearchExists DEF Ranked
<1>3. SearchFunction(metric, score, tree, k, search)
  BY <1>2
<1> HIDE DEF search
<1>5. Searched(score, k, search, DOMAIN score)
  BY <1>3, AllSearched
<1>6. Keeps(score, k, {}, {})
  BY DEF Keeps, Best
<1>7. Keeps(score, k, {} \cup DOMAIN score, search[DOMAIN score][{}])
  BY <1>5, <1>6 DEF Searched
<1>8. {} \cup DOMAIN score = DOMAIN score
  OBVIOUS
<1> QED BY <1>1, <1>7, <1>8 DEF Keeps

-----------------------------------------------------------------------------
(* Building a tree.                                                        *)

(* Finitely many entries, which the metric can compare.                    *)
Scored(metric, entries) ==
  /\ IsFiniteSet(DOMAIN entries) /\ DOMAIN entries \subseteq Int
  /\ \A v, i \in DOMAIN entries : proxy(metric, entries[v], entries[i]) \in Int

(* Each node of a table is that of its part, over one of its ids.          *)
Built(metric, entries, tree) ==
  \A part \in DOMAIN tree : \E vantage \in part :
    tree[part] = NodeOver(metric, entries, part \ {vantage}, vantage)

(* What build_node makes, of what it makes for less.                       *)
SubtreeOf(metric, entries, build_node, vantage, part) ==
  LET first == FirstByScore(Scores(metric, entries, vantage, part), part)
  IN  IF part = {} THEN <<>> ELSE build_node[part \ {first}][first]

BuildAt(metric, entries, build_node, others, vantage) ==
  LET node == NodeOver(metric, entries, others, vantage)
  IN  Joined(others \cup {vantage}, node,
             SubtreeOf(metric, entries, build_node, vantage, node.left),
             SubtreeOf(metric, entries, build_node, vantage, node.right))

BuildFunction(metric, entries, build_node) ==
  build_node = [others \in SUBSET DOMAIN entries |-> [vantage \in DOMAIN entries |->
                  BuildAt(metric, entries, build_node, others, vantage)]]

(* The tables there may be.                                                *)
NodesOver(metric, entries) ==
  {NodeOver(metric, entries, others, vantage) : others \in SUBSET DOMAIN entries, vantage \in DOMAIN entries}

TreeTables(metric, entries) ==
  UNION {[parts -> NodesOver(metric, entries)] : parts \in SUBSET SUBSET DOMAIN entries}

(* A node divides the ids there are besides its vantage point.             *)
LEMMA NodeOverIs ==
  ASSUME NEW metric, NEW entries, NEW others, NEW vantage
  PROVE  LET node == NodeOver(metric, entries, others, vantage) IN
           /\ node.id = vantage
           /\ node.left \subseteq others /\ node.right = others \ node.left
BY DEF NodeOver

(* There is a first by score.                                              *)
LEMMA FirstByScoreIn ==
  ASSUME NEW metric, NEW entries, Scored(metric, entries), NEW vantage \in DOMAIN entries,
         NEW part, part \subseteq DOMAIN entries, part # {}
  PROVE  FirstByScore(Scores(metric, entries, vantage, part), part) \in part
<1> DEFINE score == Scores(metric, entries, vantage, part)
<1>1. Ranked(score, part)
  <2>1. IsFiniteSet(part)
    BY FS_Subset DEF Scored
  <2>2. \A i \in part : i \in Int /\ score[i] \in Int
    BY DEF Scored, Scores
  <2> QED BY <2>1, <2>2 DEF Ranked
<1> HIDE DEF score
<1>2. PICK i \in part : \A j \in part : j = i \/ Before(score, i, j)
  BY <1>1, FirstOf
<1>3. \A j \in part : score[i] < score[j] \/ (score[i] = score[j] /\ i <= j)
  BY <1>1, <1>2 DEF Before, Ranked
<1> QED BY <1>3 DEF FirstByScore, score

(* A node and two tables make a table.                                     *)
LEMMA TablesJoined ==
  ASSUME NEW metric, NEW entries, NEW part \in SUBSET DOMAIN entries,
         NEW node \in NodesOver(metric, entries),
         NEW left \in TreeTables(metric, entries), NEW right \in TreeTables(metric, entries)
  PROVE  Joined(part, node, left, right) \in TreeTables(metric, entries)
<1> DEFINE N == NodesOver(metric, entries)
           D == {part} \cup DOMAIN left \cup DOMAIN right
           table == Joined(part, node, left, right)
<1>1. PICK L \in SUBSET SUBSET DOMAIN entries : left \in [L -> N]
  BY DEF TreeTables
<1>2. PICK R \in SUBSET SUBSET DOMAIN entries : right \in [R -> N]
  BY DEF TreeTables
<1>3. D \in SUBSET SUBSET DOMAIN entries
  BY <1>1, <1>2
<1>4. table = [p \in D |-> IF p = part THEN node ELSE IF p \in DOMAIN left THEN left[p] ELSE right[p]]
  BY DEF Joined
<1>5. \A p \in D : (IF p = part THEN node ELSE IF p \in DOMAIN left THEN left[p] ELSE right[p]) \in N
  BY <1>1, <1>2
<1>6. table \in [D -> N]
  <2> HIDE DEF D, N, table
  <2> QED BY <1>4, <1>5
<1> HIDE DEF D, N, table
<1> QED BY <1>3, <1>6 DEF TreeTables, N, table

(* And there is the empty one.                                             *)
LEMMA EmptyTable ==
  ASSUME NEW metric, NEW entries
  PROVE  <<>> \in TreeTables(metric, entries) /\ DOMAIN <<>> = {}
<1>1. <<>> \in [{} -> NodesOver(metric, entries)] /\ DOMAIN <<>> = {}
  OBVIOUS
<1>2. {} \in SUBSET SUBSET DOMAIN entries
  OBVIOUS
<1> QED BY <1>1, <1>2 DEF TreeTables

(* What build_node may be.                                                 *)
BuildStates(metric, entries) == [SUBSET DOMAIN entries -> [DOMAIN entries -> TreeTables(metric, entries)]]

(* So is what build_node makes of a part.                                  *)
LEMMA SubtreeInTables ==
  ASSUME NEW metric, NEW entries, Scored(metric, entries),
         NEW build_node \in BuildStates(metric, entries), NEW vantage \in DOMAIN entries,
         NEW part \in SUBSET DOMAIN entries
  PROVE  SubtreeOf(metric, entries, build_node, vantage, part) \in TreeTables(metric, entries)
<1>1. CASE part = {}
  BY <1>1, EmptyTable DEF SubtreeOf
<1>2. CASE part # {}
  <2> DEFINE first == FirstByScore(Scores(metric, entries, vantage, part), part)
  <2>1. first \in part
    BY <1>2, FirstByScoreIn
  <2> HIDE DEF first
  <2>2. first \in DOMAIN entries /\ part \ {first} \in SUBSET DOMAIN entries
    BY <2>1
  <2>3. build_node[part \ {first}][first] \in TreeTables(metric, entries)
    BY <2>2 DEF BuildStates
  <2> QED BY <1>2, <2>3 DEF SubtreeOf, first
<1> QED BY <1>1, <1>2

(* And of a vantage point and others.                                      *)
LEMMA BuildAtInTables ==
  ASSUME NEW metric, NEW entries, Scored(metric, entries),
         NEW build_node \in BuildStates(metric, entries), NEW others \in SUBSET DOMAIN entries,
         NEW vantage \in DOMAIN entries
  PROVE  BuildAt(metric, entries, build_node, others, vantage) \in TreeTables(metric, entries)
<1> DEFINE node == NodeOver(metric, entries, others, vantage)
<1>1. node \in NodesOver(metric, entries)
  BY DEF NodesOver
<1>2. node.left \in SUBSET DOMAIN entries /\ node.right \in SUBSET DOMAIN entries
  BY NodeOverIs
<1>3. others \cup {vantage} \in SUBSET DOMAIN entries
  OBVIOUS
<1> HIDE DEF node
<1>4. /\ SubtreeOf(metric, entries, build_node, vantage, node.left) \in TreeTables(metric, entries)
      /\ SubtreeOf(metric, entries, build_node, vantage, node.right) \in TreeTables(metric, entries)
  BY <1>2, SubtreeInTables
<1> QED BY <1>1, <1>3, <1>4, TablesJoined DEF BuildAt, node

(* A subtree depends on what is made of fewer ids.                         *)
LEMMA SubtreeLocal ==
  ASSUME NEW metric, NEW entries, Scored(metric, entries), NEW others \in SUBSET DOMAIN entries,
         NEW vantage \in DOMAIN entries, NEW part, part \subseteq others,
         NEW g, NEW h, \A less \in SUBSET DOMAIN entries :
                         Cardinality(less) < Cardinality(others) => g[less] = h[less]
  PROVE  SubtreeOf(metric, entries, g, vantage, part) = SubtreeOf(metric, entries, h, vantage, part)
<1>1. CASE part = {}
  BY <1>1 DEF SubtreeOf
<1>2. CASE part # {}
  <2> DEFINE first == FirstByScore(Scores(metric, entries, vantage, part), part)
  <2>1. first \in part
    <3>1. part \subseteq DOMAIN entries
      OBVIOUS
    <3> QED BY <1>2, <3>1, FirstByScoreIn
  <2> HIDE DEF first
  <2>2. part \ {first} \subseteq others /\ part \ {first} # others
    BY <2>1
  <2>3. IsFiniteSet(others)
    BY FS_Subset DEF Scored
  <2>4. Cardinality(part \ {first}) < Cardinality(others)
    BY <2>2, <2>3, CardinalityOfPart
  <2>5. part \ {first} \in SUBSET DOMAIN entries
    OBVIOUS
  <2>6. g[part \ {first}] = h[part \ {first}]
    BY <2>4, <2>5
  <2> QED BY <1>2, <2>6 DEF SubtreeOf, first
<1> QED BY <1>1, <1>2

(* The recursive function of build exists.                                 *)
LEMMA BuildExists ==
  ASSUME NEW metric, NEW entries, Scored(metric, entries)
  PROVE  \E build_node \in BuildStates(metric, entries) : BuildFunction(metric, entries, build_node)
<1> DEFINE ids == DOMAIN entries
           X == SUBSET ids
           V == [ids -> TreeTables(metric, entries)]
           r == [others \in X |-> Cardinality(others)]
           Row(g, others) == [vantage \in ids |-> BuildAt(metric, entries, g, others, vantage)]
           Step(g) == [others \in X |-> Row(g, others)]
           F == [g \in [X -> V] |-> Step(g)]
           a == [others \in X |-> [vantage \in ids |-> <<>>]]
<1>1. r \in [X -> Nat]
  <2>1. \A others \in X : IsFiniteSet(others)
    BY FS_Subset DEF Scored
  <2> QED BY <2>1, FS_CardinalityType
<1>2. a \in [X -> V]
  BY EmptyTable
<1>3. F \in [[X -> V] -> [X -> V]]
  <2> SUFFICES ASSUME NEW g \in [X -> V] PROVE Step(g) \in [X -> V]
    OBVIOUS
  <2>1. g \in BuildStates(metric, entries)
    BY DEF BuildStates
  <2>2. \A others \in X : \A vantage \in ids : BuildAt(metric, entries, g, others, vantage) \in TreeTables(metric, entries)
    BY <2>1, BuildAtInTables
  <2> QED BY <2>2
<1>4. Local(X, r, [X -> V], F)
  <2> SUFFICES ASSUME NEW g \in [X -> V], NEW h \in [X -> V], NEW others \in X,
                      \A y \in X : r[y] < r[others] => g[y] = h[y]
               PROVE  F[g][others] = F[h][others]
    BY DEF Local
  <2>1. F[g][others] = Row(g, others) /\ F[h][others] = Row(h, others)
    OBVIOUS
  <2>2. \A less \in SUBSET ids : Cardinality(less) < Cardinality(others) => g[less] = h[less]
    OBVIOUS
  <2>3. ASSUME NEW vantage \in ids
        PROVE  BuildAt(metric, entries, g, others, vantage) = BuildAt(metric, entries, h, others, vantage)
    <3> DEFINE node == NodeOver(metric, entries, others, vantage)
    <3>1. node.left \subseteq others /\ node.right \subseteq others
      BY NodeOverIs
    <3> HIDE DEF node, F, r, X, V
    <3>2. others \in SUBSET ids
      BY DEF X
    <3>3. SubtreeOf(metric, entries, g, vantage, node.left) = SubtreeOf(metric, entries, h, vantage, node.left)
      BY <2>2, <3>1, <3>2, SubtreeLocal
    <3>4. SubtreeOf(metric, entries, g, vantage, node.right) = SubtreeOf(metric, entries, h, vantage, node.right)
      BY <2>2, <3>1, <3>2, SubtreeLocal
    <3> QED BY <3>3, <3>4 DEF BuildAt, node
  <2>4. Row(g, others) = Row(h, others)
    BY <2>3
  <2> QED BY <2>1, <2>4
<1>5. \E g : Solution(X, V, F, g)
  <2>1. Recursion(X, r, V, a, F)
    <3> HIDE DEF X, V, r, F, a
    <3> QED BY <1>1, <1>2, <1>3, <1>4 DEF Recursion
  <2> HIDE DEF X, V, r, F, a
  <2> QED BY <2>1, RankedRecursion, Zenon
<1>6. PICK g \in [X -> V] : g = Step(g)
  <2> HIDE DEF X, V, Step
  <2> QED BY <1>5 DEF Solution
<1>7. g \in BuildStates(metric, entries)
  BY DEF BuildStates
<1> QED BY <1>6, <1>7 DEF BuildFunction

(* A table over part of the ids: a tree, of nodes that are over their ids. *)
TreeFor(metric, entries, part, tree) ==
  /\ TreeOver(DOMAIN entries, tree) /\ Built(metric, entries, tree)
  /\ part \in Parts(tree)

(* Nothing is a tree over nothing.                                         *)
LEMMA NoTree ==
  ASSUME NEW metric, NEW entries
  PROVE  TreeFor(metric, entries, {}, <<>>)
BY EmptyTable DEF TreeFor, TreeOver, Built, Parts

(* A node with a tree on either side is a tree.                            *)
LEMMA TreeJoined ==
  ASSUME NEW metric, NEW entries, NEW others \in SUBSET DOMAIN entries,
         NEW vantage \in DOMAIN entries \ others,
         NEW left, TreeFor(metric, entries, NodeOver(metric, entries, others, vantage).left, left),
         NEW right, TreeFor(metric, entries, NodeOver(metric, entries, others, vantage).right, right)
  PROVE  TreeFor(metric, entries, others \cup {vantage},
                 Joined(others \cup {vantage}, NodeOver(metric, entries, others, vantage), left, right))
<1> DEFINE node == NodeOver(metric, entries, others, vantage)
           part == others \cup {vantage}
           table == Joined(part, node, left, right)
<1>1. node.id = vantage /\ node.left \subseteq others /\ node.right = others \ node.left
  BY NodeOverIs
<1>2. node.left \in Parts(left) /\ node.right \in Parts(right)
  BY DEF TreeFor
<1> HIDE DEF node
<1>3. DOMAIN table = {part} \cup DOMAIN left \cup DOMAIN right
  BY DEF Joined
<1>4. \A p \in DOMAIN table :
        \/ p = part /\ table[p] = node
        \/ p \in DOMAIN left /\ table[p] = left[p]
        \/ p \in DOMAIN right /\ table[p] = right[p]
  BY <1>3 DEF Joined
<1>5. Parts(left) \subseteq Parts(table) /\ Parts(right) \subseteq Parts(table) /\ part \in Parts(table)
  BY <1>3 DEF Parts
<1>6. ASSUME NEW p \in DOMAIN table PROVE p \in SUBSET DOMAIN entries /\ Splits(table, p)
  <2>1. CASE p = part /\ table[p] = node
    <3>1. /\ table[p].left \in Parts(table) /\ table[p].right \in Parts(table)
          /\ table[p].id \notin table[p].left /\ table[p].id \notin table[p].right
      BY <1>1, <1>2, <1>5, <2>1
    <3>2. \A i : i \in p <=> i = table[p].id \/ i \in table[p].left \/ i \in table[p].right
      BY <1>1, <2>1
    <3> QED BY <2>1, <3>1, <3>2 DEF Splits
  <2>2. CASE p \in DOMAIN left /\ table[p] = left[p]
    <3>1. p \in SUBSET DOMAIN entries /\ Splits(left, p)
      BY <2>2 DEF TreeFor, TreeOver
    <3> QED BY <1>5, <2>2, <3>1 DEF Splits
  <2>3. CASE p \in DOMAIN right /\ table[p] = right[p]
    <3>1. p \in SUBSET DOMAIN entries /\ Splits(right, p)
      BY <2>3 DEF TreeFor, TreeOver
    <3> QED BY <1>5, <2>3, <3>1 DEF Splits
  <2> QED BY <1>4, <2>1, <2>2, <2>3
<1>7. ASSUME NEW p \in DOMAIN table
      PROVE  \E v \in p : table[p] = NodeOver(metric, entries, p \ {v}, v)
  <2>1. CASE p = part /\ table[p] = node
    <3>1. part \ {vantage} = others
      OBVIOUS
    <3> QED BY <2>1, <3>1 DEF node
  <2>2. CASE p \in DOMAIN left /\ table[p] = left[p]
    BY <2>2 DEF TreeFor, Built
  <2>3. CASE p \in DOMAIN right /\ table[p] = right[p]
    BY <2>3 DEF TreeFor, Built
  <2> QED BY <1>4, <2>1, <2>2, <2>3
<1> HIDE DEF table, part
<1>8. TreeOver(DOMAIN entries, table) /\ Built(metric, entries, table)
  BY <1>6, <1>7 DEF TreeOver, Built
<1> QED BY <1>5, <1>8 DEF TreeFor, table, part, node

(* build_node makes a tree of any ids, by induction over their number.     *)
LEMMA BuildNodeIs ==
  ASSUME NEW metric, NEW entries, Scored(metric, entries),
         NEW build_node, BuildFunction(metric, entries, build_node)
  PROVE  \A n \in Nat : \A others \in SUBSET DOMAIN entries : \A vantage \in DOMAIN entries \ others :
           Cardinality(others) < n =>
             TreeFor(metric, entries, others \cup {vantage}, build_node[others][vantage])
<1> DEFINE Good(others, vantage) ==
             TreeFor(metric, entries, others \cup {vantage}, build_node[others][vantage])
           AllGood(n) == \A others \in SUBSET DOMAIN entries : \A vantage \in DOMAIN entries \ others :
                           Cardinality(others) < n => Good(others, vantage)
           I == {n \in Nat : AllGood(n)}
<1>0. \A others \in SUBSET DOMAIN entries : IsFiniteSet(others) /\ Cardinality(others) \in Nat
  BY FS_Subset, FS_CardinalityType DEF Scored
<1>1. I \subseteq Nat /\ 0 \in I
  <2>1. AllGood(0)
    BY <1>0
  <2> HIDE DEF AllGood
  <2> QED BY <2>1
<1>2. ASSUME NEW n \in I PROVE n + 1 \in I
  <2>1. n \in Nat /\ n + 1 \in Nat /\ AllGood(n)
    OBVIOUS
  <2>2. ASSUME NEW others \in SUBSET DOMAIN entries, NEW vantage \in DOMAIN entries \ others,
               Cardinality(others) < n + 1
        PROVE  Good(others, vantage)
    <3> DEFINE node == NodeOver(metric, entries, others, vantage)
    <3>1. node.left \subseteq others /\ node.right \subseteq others
      BY NodeOverIs
    <3> HIDE DEF node
    <3>2. ASSUME NEW part \in SUBSET others
          PROVE  TreeFor(metric, entries, part, SubtreeOf(metric, entries, build_node, vantage, part))
      <4>1. CASE part = {}
        BY <4>1, NoTree DEF SubtreeOf
      <4>2. CASE part # {}
        <5> DEFINE first == FirstByScore(Scores(metric, entries, vantage, part), part)
        <5>1. first \in part
          <6>1. part \subseteq DOMAIN entries
            OBVIOUS
          <6> QED BY <4>2, <6>1, FirstByScoreIn
        <5> HIDE DEF first
        <5>2. part \ {first} \subseteq others /\ part \ {first} # others
          BY <5>1
        <5>3. Cardinality(part \ {first}) < Cardinality(others)
          BY <1>0, <5>2, CardinalityOfPart
        <5>4. part \ {first} \in SUBSET DOMAIN entries /\ first \in DOMAIN entries \ (part \ {first})
              /\ (part \ {first}) \cup {first} = part
          BY <5>1
        <5>5. Cardinality(part \ {first}) < n
          BY <1>0, <2>1, <2>2, <5>3, <5>4
        <5>6. Good(part \ {first}, first)
          BY <2>1, <5>4, <5>5
        <5> QED BY <4>2, <5>4, <5>6 DEF SubtreeOf, first
      <4> QED BY <4>1, <4>2
    <3>3. build_node[others][vantage] = BuildAt(metric, entries, build_node, others, vantage)
      BY DEF BuildFunction
    <3>4. /\ TreeFor(metric, entries, node.left, SubtreeOf(metric, entries, build_node, vantage, node.left))
          /\ TreeFor(metric, entries, node.right, SubtreeOf(metric, entries, build_node, vantage, node.right))
      BY <3>1, <3>2
    <3>5. TreeFor(metric, entries, others \cup {vantage}, BuildAt(metric, entries, build_node, others, vantage))
      BY <3>4, TreeJoined DEF BuildAt, node
    <3> QED BY <3>3, <3>5
  <2>3. AllGood(n + 1)
    BY <2>2
  <2> HIDE DEF AllGood
  <2> QED BY <2>1, <2>3
<1>3. \A n \in Nat : n \in I
  <2> HIDE DEF I
  <2> QED BY <1>1, <1>2, SetInduction
<1> QED BY <1>3

(* The tree that build makes is one over all the entries.                  *)
LEMMA BuildIs ==
  ASSUME NEW metric, NEW entries, Scored(metric, entries)
  PROVE  TreeFor(metric, entries, DOMAIN entries, build(metric, entries))
<1> DEFINE build_node == CHOOSE b : BuildFunction(metric, entries, b)
           ids == DOMAIN entries
<1>1. build(metric, entries) = IF ids = {} THEN <<>> ELSE build_node[ids \ {Min(ids)}][Min(ids)]
  BY DEF build, BuildFunction, BuildAt, SubtreeOf
<1>2. CASE ids = {}
  BY <1>1, <1>2, NoTree
<1>3. CASE ids # {}
  <2>1. BuildFunction(metric, entries, build_node)
    BY BuildExists
  <2>2. Min(ids) \in ids
    <3> DEFINE score == [i \in ids |-> 0]
    <3>1. Ranked(score, ids)
      BY DEF Ranked, Scored
    <3>2. PICK i \in ids : \A j \in ids : j = i \/ Before(score, i, j)
      BY <1>3, <3>1, FirstOf
    <3>3. \A j \in ids : i <= j
      BY <3>1, <3>2 DEF Before, Ranked
    <3> QED BY <3>3 DEF Min
  <2> HIDE DEF build_node
  <2> DEFINE others == ids \ {Min(ids)}
  <2>3. others \in SUBSET ids /\ Min(ids) \in ids \ others /\ others \cup {Min(ids)} = ids
    BY <2>2
  <2>4. Cardinality(others) + 1 \in Nat /\ Cardinality(others) < Cardinality(others) + 1
    <3>1. IsFiniteSet(others)
      BY FS_Subset DEF Scored
    <3> HIDE DEF others
    <3> QED BY <3>1, FS_CardinalityType
  <2> HIDE DEF others
  <2>5. TreeFor(metric, entries, others \cup {Min(ids)}, build_node[others][Min(ids)])
    BY <2>1, <2>3, <2>4, BuildNodeIs
  <2> QED BY <1>1, <1>3, <2>3, <2>5 DEF others
<1> QED BY <1>2, <1>3

-----------------------------------------------------------------------------
(* Powers of two, and numbers of the width.                                *)

(* The recursive function exists, and is what it should be.                *)
LEMMA PowerIs ==
  Power[0] = 1 /\ \A n \in Nat : Power[n + 1] = 2 * Power[n]
<1> DEFINE IsPower(f) == f = [n \in Nat |-> IF n = 0 THEN 1 ELSE 2 * f[n - 1]]
           F == [x \in Int |-> 2 * x]
<1>1. Power = CHOOSE f : IsPower(f)
  BY DEF Power
<1>2. \E f : IsPower(f)
  <2>1. F \in [Int -> Int] /\ 1 \in Int
    OBVIOUS
  <2>2. PICK g \in [Nat -> Int] : g = [n \in Nat |-> IF n = 0 THEN 1 ELSE F[g[n - 1]]]
    <3> DEFINE A == Int
    <3>1. F \in [A -> A] /\ 1 \in A
      BY <2>1
    <3>2. LoopStart(A, 1, F)
      BY <3>1 DEF LoopStart
    <3> HIDE DEF F
    <3>3. PICK g : LoopStates(A, 1, F, g)
      BY <3>2, LoopRuns
    <3>4. \A n \in Nat : n # 0 => g[n] = F[g[n - 1]]
      <4> SUFFICES ASSUME NEW n \in Nat, n # 0 PROVE g[n] = F[g[n - 1]]
        OBVIOUS
      <4>1. n - 1 \in Nat /\ (n - 1) + 1 = n
        OBVIOUS
      <4> QED BY <3>3, <4>1 DEF LoopStates
    <3>5. g \in [Nat -> Int] /\ g[0] = 1
      BY <3>3 DEF LoopStates
    <3>6. g = [n \in Nat |-> g[n]]
      BY <3>5
    <3>7. [n \in Nat |-> g[n]] = [n \in Nat |-> IF n = 0 THEN 1 ELSE F[g[n - 1]]]
      BY <3>4, <3>5
    <3> QED BY <3>5, <3>6, <3>7
  <2>3. \A n \in Nat : n # 0 => F[g[n - 1]] = 2 * g[n - 1]
    OBVIOUS
  <2>4. [n \in Nat |-> IF n = 0 THEN 1 ELSE F[g[n - 1]]] = [n \in Nat |-> IF n = 0 THEN 1 ELSE 2 * g[n - 1]]
    BY <2>3
  <2> QED BY <2>2, <2>4
<1>3. IsPower(Power)
  BY <1>1, <1>2
<1>4. Power[0] = 1 /\ \A n \in Nat : n # 0 => Power[n] = 2 * Power[n - 1]
  BY <1>3
<1>5. \A n \in Nat : n + 1 \in Nat /\ n + 1 # 0 /\ (n + 1) - 1 = n
  OBVIOUS
<1> QED BY <1>4, <1>5

(* Powers are positive.                                                    *)
LEMMA PowerPositive ==
  \A n \in Nat : Power[n] \in Nat /\ Power[n] > 0
<1> DEFINE I == {n \in Nat : Power[n] \in Nat /\ Power[n] > 0}
<1>1. I \subseteq Nat /\ 0 \in I
  BY PowerIs
<1>2. ASSUME NEW n \in I PROVE n + 1 \in I
  <2>1. n + 1 \in Nat /\ Power[n + 1] = 2 * Power[n] /\ Power[n] \in Nat /\ Power[n] > 0
    BY PowerIs
  <2> QED BY <2>1
<1>3. \A n \in Nat : n \in I
  <2> HIDE DEF I
  <2> QED BY <1>1, <1>2, SetInduction
<1> QED BY <1>3

(* A power of a sum is a product.                                          *)
LEMMA PowerOfSum ==
  ASSUME NEW m \in Nat
  PROVE  \A n \in Nat : Power[m + n] = Power[m] * Power[n]
<1> DEFINE I == {n \in Nat : Power[m + n] = Power[m] * Power[n]}
<1>1. I \subseteq Nat /\ 0 \in I
  <2>1. Power[m] \in Nat /\ m + 0 = m
    BY PowerPositive
  <2> QED BY <2>1, PowerIs
<1>2. ASSUME NEW n \in I PROVE n + 1 \in I
  <2>1. n \in Nat /\ m + n \in Nat /\ (m + n) + 1 = m + (n + 1) /\ Power[m + n] = Power[m] * Power[n]
    OBVIOUS
  <2>2. Power[(m + n) + 1] = 2 * Power[m + n] /\ Power[n + 1] = 2 * Power[n]
    BY <2>1, PowerIs
  <2>3. Power[m] \in Nat /\ Power[n] \in Nat
    BY <2>1, PowerPositive
  <2>4. \A a, b \in Nat : 2 * (a * b) = a * (2 * b)
    OBVIOUS
  <2>5. Power[m + (n + 1)] = Power[m] * Power[n + 1]
    BY <2>1, <2>2, <2>3, <2>4
  <2> QED BY <2>1, <2>5
<1>3. \A n \in Nat : n \in I
  <2> HIDE DEF I
  <2> QED BY <1>1, <1>2, SetInduction
<1> QED BY <1>3

(* The root of the greatest power that fits.                               *)
Half == Power[IntBits \div 2]

(* The greatest raw, in terms of it.                                       *)
LEMMA Widths ==
  /\ Unit \in Nat /\ Unit > 0 /\ Unit % 2 = 0 /\ Half \in Nat /\ Half > 0
  /\ Power[FracBits + IntBits \div 2] = Unit * Half
  /\ MaxRaw \in Nat /\ MaxRaw + 1 = 2 * (Unit * (Half * Half))
<1> DEFINE i == IntBits \div 2
<1>1. IntBits \in Nat /\ FracBits \in Nat /\ i \in Nat /\ IntBits = (i + i) + 1
      /\ FracBits - 1 \in Nat /\ (FracBits - 1) + 1 = FracBits
  BY WidthAssumption
<1>2. Unit = 2 * Power[FracBits - 1]
  BY <1>1, PowerIs DEF Unit
<1>3. Power[FracBits - 1] \in Nat /\ Power[FracBits - 1] > 0 /\ Half \in Nat /\ Half > 0 /\ Unit \in Nat
  BY <1>1, PowerPositive DEF Half, Unit
<1>4. Unit > 0 /\ Unit % 2 = 0
  BY <1>2, <1>3
<1>5. Power[FracBits + i] = Unit * Half
  BY <1>1, PowerOfSum DEF Unit, Half
<1>6. Power[i + i] = Half * Half
  BY <1>1, PowerOfSum DEF Half
<1>7. Power[FracBits + (i + i)] = Unit * (Half * Half)
  <2>1. i + i \in Nat
    BY <1>1
  <2> QED BY <1>1, <1>6, <2>1, PowerOfSum DEF Unit
<1>8. Power[IntBits + FracBits] = 2 * (Unit * (Half * Half))
  <2>1. FracBits + (i + i) \in Nat /\ (FracBits + (i + i)) + 1 = IntBits + FracBits
    BY <1>1
  <2> QED BY <1>7, <2>1, PowerIs
<1>9. MaxRaw \in Nat /\ MaxRaw + 1 = Power[IntBits + FracBits]
  <2>1. IntBits + FracBits \in Nat
    BY <1>1
  <2> QED BY <2>1, PowerPositive DEF MaxRaw
<1> QED BY <1>3, <1>4, <1>5, <1>8, <1>9

(* A bit length, and so a power for a seed.                                *)
LEMMA BitLengthNat ==
  ASSUME NEW p \in Nat, p > 0
  PROVE  BitLength(p) \in Nat
<1> DEFINE S == {b \in 0 .. IntBits + FracBits : Power[b] <= p}
           score == [b \in S |-> -b]
<1>1. 0 \in S /\ S \subseteq 0 .. IntBits + FracBits
  BY PowerIs, WidthAssumption
<1>2. IsFiniteSet(S)
  <2>1. IsFiniteSet(0 .. IntBits + FracBits)
    BY WidthAssumption, FS_Interval
  <2> HIDE DEF S
  <2> QED BY <1>1, <2>1, FS_Subset
<1>3. Ranked(score, S)
  BY <1>2 DEF Ranked
<1>4. PICK b \in S : \A c \in S : c = b \/ Before(score, b, c)
  <2> HIDE DEF S, score
  <2> QED BY <1>1, <1>3, FirstOf
<1>5. \A c \in S : b >= c
  <2> SUFFICES ASSUME NEW c \in S PROVE b >= c
    OBVIOUS
  <2>1. b \in Int /\ c \in Int /\ score[b] = -b /\ score[c] = -c
    BY <1>1
  <2>2. c = b \/ Before(score, b, c)
    BY <1>4
  <2> HIDE DEF S, score
  <2> QED BY <2>1, <2>2 DEF Before
<1>6. Max(S) \in S
  <2> HIDE DEF S
  <2> QED BY <1>5 DEF Max
<1> QED BY <1>1, <1>6 DEF BitLength

(* A step of Newton's method, rounded down, is no lower than the root      *)
(* rounded down, whatever it starts from.                                  *)
LEMMA NewtonAbove ==
  ASSUME NEW x \in Nat, x > 0, NEW n \in Nat, NEW z, z = (x + (n \div x)) \div 2
  PROVE  z \in Nat /\ (z + 1) * (z + 1) > n
<1> DEFINE q == n \div x
<1>1. q \in Nat /\ n < (q + 1) * x
  OBVIOUS
<1> HIDE DEF q
<1>2. z \in Nat /\ 2 * (z + 1) >= (x + q) + 1
  BY <1>1 DEF q
<1>3. 4 * ((z + 1) * (z + 1)) >= ((x + q) + 1) * ((x + q) + 1)
  <2>1. \A a, b \in Nat : 2 * a >= b => 4 * (a * a) >= b * b
    <3> SUFFICES ASSUME NEW a \in Nat, NEW b \in Nat, 2 * a >= b PROVE 4 * (a * a) >= b * b
      OBVIOUS
    <3>1. (2 * a) * (2 * a) >= b * b
      <4>1. (2 * a) * (2 * a) >= (2 * a) * b
        OBVIOUS
      <4>2. (2 * a) * b >= b * b
        OBVIOUS
      <4> QED BY <4>1, <4>2
    <3> QED BY <3>1
  <2> QED BY <1>1, <1>2, <2>1
<1>4. ((x + q) + 1) * ((x + q) + 1) >= 4 * ((q + 1) * x)
  <2>1. \A a, b \in Int : (a + b) * (a + b) >= 4 * (a * b)
    <3> SUFFICES ASSUME NEW a \in Int, NEW b \in Int PROVE (a + b) * (a + b) >= 4 * (a * b)
      OBVIOUS
    <3>1. (a - b) * (a - b) >= 0
      OBVIOUS
    <3>2. (a + b) * (a + b) = (a - b) * (a - b) + 4 * (a * b)
      OBVIOUS
    <3> QED BY <3>1, <3>2
  <2>2. (x + q) + 1 = (q + 1) + x
    BY <1>1
  <2> QED BY <1>1, <2>1, <2>2
<1>5. /\ ((x + q) + 1) * ((x + q) + 1) \in Int /\ (q + 1) * x \in Int
      /\ (z + 1) * (z + 1) \in Int
  BY <1>1, <1>2
<1> QED BY <1>1, <1>2, <1>3, <1>4, <1>5

(* Saturation is a minimum.                                                *)
LEMMA SaturatedIs ==
  ASSUME NEW raw \in Int
  PROVE  Saturated(raw) = IF raw <= MaxRaw THEN raw ELSE MaxRaw
BY Widths, MinPair DEF Saturated

(* The step as sqrt_upper_bound takes it: a quotient that saturates is     *)
(* more than enough.                                                       *)
LEMMA NewtonStep ==
  ASSUME NEW m \in Nat, m < Half * Half, NEW x \in Nat, x > 0,
         NEW z, z = (x + over(Unit * m, x)) \div 2
  PROVE  z \in Nat /\ (z + 1) * (z + 1) > (Unit * m) * Unit
<1> DEFINE n == (Unit * m) * Unit
           q == n \div x
<1>1. n \in Nat /\ q \in Nat
  BY Widths
<1>2. over(Unit * m, x) = IF q <= MaxRaw THEN q ELSE MaxRaw
  BY <1>1, SaturatedIs DEF over
<1>3. CASE q <= MaxRaw
  <2>1. z = (x + (n \div x)) \div 2
    BY <1>2, <1>3
  <2> HIDE DEF n
  <2> QED BY <1>1, <2>1, NewtonAbove DEF n
<1>4. CASE ~(q <= MaxRaw)
  <2> DEFINE h == Half * Half
             r == Unit * h
  <2>1. h \in Nat /\ h > 0 /\ r \in Nat /\ r > 0 /\ MaxRaw + 1 = 2 * r /\ Unit \in Nat /\ Unit > 0
        /\ MaxRaw \in Nat
    BY Widths
  <2> HIDE DEF h, r
  <2>2. z = (x + MaxRaw) \div 2
    BY <1>2, <1>4
  <2>3. z \in Nat /\ z >= r
    BY <2>1, <2>2
  <2>4. r * r >= n
    <3>1. r * r = (Unit * (h * h)) * Unit
      BY <2>1 DEF r
    <3>2. m <= h * h
      <4>1. m < h
        BY DEF h
      <4>2. h <= h * h
        BY <2>1
      <4> QED BY <2>1, <4>1, <4>2
    <3>3. Unit * m <= Unit * (h * h) /\ h * h \in Nat
      BY <2>1, <3>2
    <3>4. (Unit * m) * Unit <= (Unit * (h * h)) * Unit
      BY <2>1, <3>3
    <3> QED BY <3>1, <3>4
  <2>5. (z + 1) * (z + 1) > r * r
    BY <2>1, <2>3
  <2>6. (z + 1) * (z + 1) \in Int /\ r * r \in Int
    BY <2>1, <2>3
  <2> QED BY <1>1, <2>3, <2>4, <2>5, <2>6
<1> QED BY <1>3, <1>4

(* sqrt_upper_bound is no lower than the root, but for its rounding.       *)
LEMMA RootAbove ==
  ASSUME NEW m \in Nat, m < Half * Half
  PROVE  /\ sqrt_upper_bound(Unit * m) \in Nat
         /\ (sqrt_upper_bound(Unit * m) + 1) * (sqrt_upper_bound(Unit * m) + 1) > (Unit * m) * Unit
<1> DEFINE p == Unit * m
           seed == Power[(BitLength(p) + 1) \div 2 + FracBits \div 2]
           Newton(x) == (x + over(p, x)) \div 2
<1>1. p \in Nat /\ Unit \in Nat /\ Unit > 0
  BY Widths
<1>2. CASE m = 0
  <2>1. p = 0
    BY <1>1, <1>2
  <2>2. sqrt_upper_bound(p) = 0
    BY <2>1 DEF sqrt_upper_bound
  <2> QED BY <1>1, <1>2, <2>1, <2>2
<1>3. CASE m # 0
  <2>1. p > 0
    BY <1>1, <1>3
  <2>2. sqrt_upper_bound(p) = Newton(Newton(seed))
    BY <1>1, <2>1 DEF sqrt_upper_bound
  <2>3. seed \in Nat /\ seed > 0
    <3>1. BitLength(p) \in Nat
      BY <1>1, <2>1, BitLengthNat
    <3>2. (BitLength(p) + 1) \div 2 + FracBits \div 2 \in Nat
      BY <3>1, WidthAssumption
    <3> QED BY <3>2, PowerPositive
  <2> HIDE DEF seed
  <2>4. Newton(seed) \in Nat /\ (Newton(seed) + 1) * (Newton(seed) + 1) > p * Unit
    BY <2>3, NewtonStep
  <2>5. Newton(seed) > 0
    <3>1. p * Unit >= 1
      BY <1>1, <2>1
    <3> DEFINE x == Newton(seed)
    <3>2. x \in Nat /\ (x + 1) * (x + 1) > p * Unit /\ p * Unit \in Int
      BY <1>1, <2>4
    <3> HIDE DEF x
    <3>3. x # 0
      BY <3>1, <3>2
    <3> QED BY <3>2, <3>3 DEF x
  <2> DEFINE x == Newton(seed)
             z == Newton(x)
  <2>6. z = (x + over(p, x)) \div 2 /\ x \in Nat /\ x > 0
    BY <2>4, <2>5
  <2>7. sqrt_upper_bound(p) = z
    BY <2>2
  <2> HIDE DEF x, z
  <2>8. z \in Nat /\ (z + 1) * (z + 1) > p * Unit
    BY <2>6, NewtonStep
  <2> QED BY <2>7, <2>8
<1> QED BY <1>2, <1>3

(* Scores are whole numbers in units: what the Euclidean test says of them.*)
LEMMA SeparationGap ==
  ASSUME NEW hi \in Nat, NEW lo \in Nat, NEW worst \in Nat,
         EuclideanSeparation(Unit * hi, Unit * lo, Unit * worst)
  PROVE  /\ hi + lo - worst > 0
         /\ (hi + lo - worst) * (hi + lo - worst) > 4 * (hi * lo)
<1>1. Unit \in Nat /\ Unit > 0 /\ Unit % 2 = 0 /\ Half \in Nat /\ Half > 0 /\ MaxRaw \in Nat
  BY Widths
<1>2. hi < Half /\ lo < Half
  <2>1. ~(Unit * hi >= Unit * Half) /\ ~(Unit * lo >= Unit * Half)
    BY Widths DEF EuclideanSeparation, sq_product_may_saturate
  <2>2. \A a, b, c \in Nat : ~(a * b >= a * c) => b < c
    OBVIOUS
  <2> QED BY <1>1, <2>1, <2>2
<1> DEFINE m == hi * lo
           z == sqrt_upper_bound(Unit * m)
           gap == hi + lo - worst
<1>3. m \in Nat /\ m < Half * Half
  <2>1. m <= hi * Half /\ hi * Half < Half * Half
    BY <1>1, <1>2
  <2> QED BY <1>1, <2>1
<1>4. times(Unit * hi, Unit * lo) = Unit * m
  <2>1. ((Unit * hi) * (Unit * lo)) \div Unit = Unit * m
    <3>1. (Unit * hi) * (Unit * lo) = (Unit * m) * Unit
      BY <1>1
    <3>2. \A a, u \in Nat : u > 0 => (a * u) \div u = a
      OBVIOUS
    <3>3. Unit * m \in Nat
      BY <1>1, <1>3
    <3> QED BY <1>1, <3>1, <3>2, <3>3
  <2>2. Unit * m \in Nat /\ Unit * m <= MaxRaw
    <3> DEFINE h == Half * Half
    <3>1. h \in Nat /\ m < h /\ MaxRaw + 1 = 2 * (Unit * h)
      BY <1>1, <1>3, Widths
    <3> HIDE DEF h, m
    <3>2. Unit * m <= Unit * h /\ Unit * h \in Nat /\ Unit * h > 0 /\ Unit * m \in Nat
      BY <1>1, <1>3, <3>1
    <3> QED BY <1>1, <3>1, <3>2
  <2> QED BY <2>1, <2>2, SaturatedIs DEF times
<1>5. z \in Nat /\ (z + 1) * (z + 1) > (Unit * m) * Unit
  <2> HIDE DEF m
  <2> QED BY <1>3, RootAbove
<1>6. Unit * gap > 2 * z
  <2>1. Unit * hi + Unit * lo - Unit * worst > 2 * z
    BY <1>4 DEF EuclideanSeparation
  <2>2. Unit * hi + Unit * lo - Unit * worst = Unit * gap
    BY <1>1
  <2> QED BY <2>1, <2>2
<1> HIDE DEF z
<1>7. gap \in Int /\ gap > 0
  <2>1. gap \in Int
    OBVIOUS
  <2> HIDE DEF gap
  <2>2. gap <= 0 => Unit * gap <= 0
    BY <1>1, <2>1
  <2>3. Unit * gap \in Int
    BY <1>1, <2>1
  <2> QED BY <1>5, <1>6, <2>1, <2>2, <2>3
<1> HIDE DEF gap
<1>8. Unit * gap >= 2 * (z + 1)
  <2>1. PICK u \in Nat : Unit = 2 * u
    BY <1>1
  <2>2. Unit * gap = 2 * (u * gap) /\ u * gap \in Int
    BY <1>7, <2>1
  <2> QED BY <1>5, <1>6, <2>2
<1>9. (Unit * gap) * (Unit * gap) > 4 * ((Unit * m) * Unit)
  <2> DEFINE a == Unit * gap
             b == z + 1
  <2>1. a \in Nat /\ b \in Nat /\ a >= 2 * b /\ b * b > (Unit * m) * Unit
    BY <1>1, <1>5, <1>7, <1>8
  <2> HIDE DEF a, b, m
  <2>2. a * a >= a * (2 * b) /\ a * (2 * b) >= (2 * b) * (2 * b)
    BY <2>1
  <2>3. (2 * b) * (2 * b) = 4 * (b * b)
    BY <2>1
  <2>4. (Unit * m) * Unit \in Int /\ b * b \in Int /\ a * a \in Int /\ a * (2 * b) \in Int
    BY <1>1, <1>3, <2>1
  <2>5. a * a > 4 * ((Unit * m) * Unit)
    BY <2>1, <2>2, <2>3, <2>4
  <2> QED BY <2>5 DEF a
<1>10. gap * gap > 4 * m
  <2> HIDE DEF m
  <2> DEFINE s == Unit * Unit
             x == gap * gap
             y == 4 * m
  <2>1. s \in Nat /\ s > 0 /\ x \in Int /\ y \in Int
    BY <1>1, <1>3, <1>7
  <2>2. (Unit * gap) * (Unit * gap) = s * x /\ 4 * ((Unit * m) * Unit) = s * y
    BY <1>1, <1>3, <1>7
  <2>3. s * x > s * y
    BY <1>9, <2>2
  <2> HIDE DEF s, x, y
  <2>4. x > y
    BY <2>1, <2>3
  <2> QED BY <2>4 DEF x, y
<1> QED BY <1>7, <1>10 DEF gap, m

-----------------------------------------------------------------------------
(* Squared distances, and what the pruning leaves out.                     *)

(* Squares of the lengths of two vectors and of their sum, where p is the  *)
(* scalar product (Cauchy and Schwarz).                                    *)
Spans(a, b, c) ==
  /\ a \in Nat /\ b \in Nat /\ c \in Nat
  /\ \E p \in Int : c = a + b + 2 * p /\ p * p <= a * b

(* A positive factor keeps the order.                                      *)
LEMMA ProductOrder ==
  ASSUME NEW c \in Nat, c > 0, NEW x \in Int, NEW y \in Int, c * x <= c * y
  PROVE  x <= y
<1> SUFFICES ASSUME y < x PROVE FALSE
  OBVIOUS
<1>1. c * (x - y) > 0
  OBVIOUS
<1>2. c * (x - y) = c * x - c * y
  OBVIOUS
<1> QED BY <1>1, <1>2

(* One more dimension.                                                     *)
LEMMA SpansMore ==
  ASSUME NEW a, NEW b, NEW c, Spans(a, b, c), NEW u \in Int, NEW v \in Int
  PROVE  Spans(u * u + a, v * v + b, (u + v) * (u + v) + c)
<1>1. PICK p \in Int : c = a + b + 2 * p /\ p * p <= a * b
  BY DEF Spans
<1>2. a \in Nat /\ b \in Nat /\ c \in Nat
  BY DEF Spans
<1> DEFINE r == u * v + p
<1>3. \A x \in Int : x * x \in Nat
  OBVIOUS
<1>4. u * u \in Nat /\ v * v \in Nat /\ (u + v) * (u + v) \in Nat /\ r \in Int
  <2>1. u + v \in Int /\ u * v \in Int
    OBVIOUS
  <2> QED BY <1>1, <1>3, <2>1
<1>5. (u + v) * (u + v) + c = (u * u + a) + (v * v + b) + 2 * r
  <2>1. (u + v) * (u + v) = u * u + v * v + 2 * (u * v)
    OBVIOUS
  <2>2. u * u \in Int /\ v * v \in Int /\ u * v \in Int
    OBVIOUS
  <2> QED BY <1>1, <1>2, <2>1, <2>2
<1>6. (u * v) * p + (u * v) * p <= a * (v * v) + b * (u * u)
  <2> DEFINE x == (u * v) * p + (u * v) * p
             y == a * (v * v) + b * (u * u)
  <2>1. x \in Int /\ y \in Int
    BY <1>1, <1>2
  <2>2. CASE a = 0
    <3>1. p * p <= 0
      BY <1>1, <1>2, <2>2
    <3>2. p = 0
      BY <1>1, <3>1
    <3>3. x = 0
      BY <3>2
    <3>4. b * (u * u) \in Nat /\ a * (v * v) = 0
      BY <1>2, <1>4, <2>2
    <3> QED BY <3>3, <3>4
  <2>3. CASE a > 0
    <3> DEFINE s == u * u
               t == v * v
               m == u * v
               n == p * p
               e == a * b
               f == a * v - p * u
    <3>1. f * f \in Nat
      <4>1. f \in Int
        BY <1>1, <1>2
      <4> HIDE DEF f
      <4> QED BY <1>3, <4>1
    <3>2. f * f = (a * a) * t - 2 * (a * (m * p)) + n * s
      <4>1. \A d, g, h, k \in Int :
              (d * h - k * g) * (d * h - k * g)
                = (d * d) * (h * h) - 2 * (d * ((g * h) * k)) + (k * k) * (g * g)
        OBVIOUS
      <4> QED BY <1>1, <1>2, <4>1
    <3>3. n * s <= e * s
      <4>1. n \in Int /\ e \in Int /\ s \in Nat /\ n <= e
        BY <1>1, <1>2, <1>4
      <4> HIDE DEF n, e, s
      <4> QED BY <4>1
    <3>4. a * y = (a * a) * t + e * s
      BY <1>2
    <3>5. a * x = 2 * (a * (m * p))
      BY <1>1, <1>2
    <3>6. /\ (a * a) * t \in Int /\ a * (m * p) \in Int /\ n * s \in Int /\ e * s \in Int
          /\ f * f \in Int
      BY <1>1, <1>2
    <3> HIDE DEF x, y, s, t, m, n, e, f
    <3>7. a * x <= a * y
      BY <3>1, <3>2, <3>3, <3>4, <3>5, <3>6
    <3> QED BY <1>2, <2>1, <2>3, <3>7, ProductOrder DEF x, y
  <2> QED BY <1>2, <2>2, <2>3
<1>7. r * r <= (u * u + a) * (v * v + b)
  <2> DEFINE m == u * v
             s == u * u
             t == v * v
  <2>1. r * r = m * m + (m * p + m * p) + p * p
    BY <1>1
  <2>2. m * m = s * t
    OBVIOUS
  <2>3. (s + a) * (t + b) = s * t + (a * t + b * s) + a * b
    BY <1>2
  <2>4. /\ m * m \in Int /\ m * p \in Int /\ p * p \in Int /\ s * t \in Int /\ a * t \in Int
        /\ b * s \in Int /\ a * b \in Int
    BY <1>1, <1>2
  <2>5. m * p + m * p <= a * t + b * s
    BY <1>6
  <2> HIDE DEF m, s, t, r
  <2>6. r * r <= (s + a) * (t + b)
    BY <1>1, <2>1, <2>2, <2>3, <2>4, <2>5
  <2> QED BY <2>6 DEF s, t
<1> HIDE DEF r
<1> QED BY <1>2, <1>4, <1>5, <1>7 DEF Spans

(* Left: below the median, and too far below the query's score.            *)
LEMMA LeftFar ==
  ASSUME NEW a, NEW b, NEW c, Spans(a, b, c), NEW m \in Nat, NEW w \in Nat, a > m, b < m,
         a + m - w > 0, (a + m - w) * (a + m - w) > 4 * (a * m)
  PROVE  c > w
<1> SUFFICES ASSUME c <= w PROVE FALSE
  BY DEF Spans
<1>1. PICK p \in Int : c = a + b + 2 * p /\ p * p <= a * b
  BY DEF Spans
<1>2. a \in Nat /\ b \in Nat /\ c \in Nat
  BY DEF Spans
<1> DEFINE d == a + m - w
           e == m - b
           g == -2 * p
<1>3. d \in Nat /\ e \in Nat /\ e > 0 /\ g \in Int /\ g >= d - e /\ g * g <= 4 * (a * b)
      /\ d <= a + m /\ d * d > 4 * (a * m)
  <2>1. g * g = 4 * (p * p) /\ p * p \in Int /\ a * b \in Int
    BY <1>1, <1>2
  <2>2. g * g <= 4 * (a * b)
    BY <1>1, <2>1
  <2> QED BY <1>1, <1>2, <2>2
<1> HIDE DEF d, g
<1>4. d > 2 * m
  <2>1. a * m >= m * m
    BY <1>2
  <2>2. d <= 2 * m => d * d <= 4 * (m * m)
    <3> SUFFICES ASSUME d <= 2 * m PROVE d * d <= 4 * (m * m)
      OBVIOUS
    <3>1. d * d <= d * (2 * m) /\ d * (2 * m) <= (2 * m) * (2 * m)
      BY <1>3
    <3> QED BY <1>3, <3>1
  <2>3. d * d \in Int /\ a * m \in Int /\ m * m \in Int
    BY <1>2, <1>3
  <2> QED BY <1>3, <2>1, <2>2, <2>3
<1>5. d - e \in Nat
  BY <1>2, <1>3, <1>4
<1>6. (d - e) * (d - e) <= g * g
  <2> DEFINE h == d - e
  <2>1. h \in Nat /\ g \in Nat /\ h <= g
    BY <1>3, <1>5
  <2> HIDE DEF h
  <2>2. h * h <= h * g /\ h * g <= g * g
    BY <2>1
  <2>3. h * h \in Int /\ h * g \in Int /\ g * g \in Int
    BY <2>1
  <2> QED BY <2>2, <2>3 DEF h
<1>7. a * b = a * m - a * e
  BY <1>2
<1>8. (d - e) * (d - e) = d * d - 2 * (d * e) + e * e
  BY <1>3
<1>9. /\ d * d \in Int /\ d * e \in Int /\ e * e \in Int /\ a * m \in Int /\ a * e \in Int
      /\ g * g \in Int
  BY <1>2, <1>3
<1>10. e * e + 4 * (a * e) < 2 * (d * e)
  BY <1>3, <1>6, <1>7, <1>8, <1>9
<1>11. e * (e + 4 * a) < e * (2 * d)
  BY <1>2, <1>3, <1>10
<1>12. e + 4 * a < 2 * d
  <2>1. e + 4 * a \in Int /\ 2 * d \in Int
    BY <1>2, <1>3
  <2>2. \A x, y \in Int : e * x < e * y => x < y
    <3> SUFFICES ASSUME NEW x \in Int, NEW y \in Int, e * x < e * y, y <= x PROVE FALSE
      OBVIOUS
    <3>1. e * y <= e * x
      BY <1>3
    <3>2. e * y \in Int /\ e * x \in Int
      BY <1>3
    <3> QED BY <3>1, <3>2
  <2> HIDE DEF e
  <2> QED BY <1>11, <2>1, <2>2
<1> QED BY <1>2, <1>3, <1>12

(* Right: not below the median, and too far above the query's score.       *)
LEMMA RightFar ==
  ASSUME NEW a, NEW b, NEW c, Spans(a, b, c), NEW m \in Nat, NEW w \in Nat, m > a, b >= m,
         m + a - w > 0, (m + a - w) * (m + a - w) > 4 * (m * a)
  PROVE  c > w
<1> SUFFICES ASSUME c <= w PROVE FALSE
  BY DEF Spans
<1>1. PICK p \in Int : c = a + b + 2 * p /\ p * p <= a * b
  BY DEF Spans
<1>2. a \in Nat /\ b \in Nat /\ c \in Nat
  BY DEF Spans
<1> DEFINE d == m + a - w
           e == b - m
           g == -2 * p
<1>3. d \in Nat /\ e \in Nat /\ g \in Int /\ g >= d + e /\ g * g <= 4 * (a * b)
      /\ d > 0 /\ d * d > 4 * (m * a)
  <2>1. g * g = 4 * (p * p) /\ p * p \in Int /\ a * b \in Int
    BY <1>1, <1>2
  <2>2. g * g <= 4 * (a * b)
    BY <1>1, <2>1
  <2> QED BY <1>1, <1>2, <2>2
<1> HIDE DEF d, g
<1>4. d > 2 * a
  <2>1. m * a >= a * a
    BY <1>2
  <2>2. d <= 2 * a => d * d <= 4 * (a * a)
    <3> SUFFICES ASSUME d <= 2 * a PROVE d * d <= 4 * (a * a)
      OBVIOUS
    <3>1. d * d <= d * (2 * a) /\ d * (2 * a) <= (2 * a) * (2 * a)
      BY <1>2, <1>3
    <3> QED BY <1>2, <1>3, <3>1
  <2>3. d * d \in Int /\ m * a \in Int /\ a * a \in Int
    BY <1>2, <1>3
  <2> QED BY <1>2, <1>3, <2>1, <2>2, <2>3
<1>5. (d + e) * (d + e) <= g * g
  <2> DEFINE h == d + e
  <2>1. h \in Nat /\ g \in Nat /\ h <= g
    BY <1>3
  <2> HIDE DEF h
  <2>2. h * h <= h * g /\ h * g <= g * g
    BY <2>1
  <2>3. h * h \in Int /\ h * g \in Int /\ g * g \in Int
    BY <2>1
  <2> QED BY <2>2, <2>3 DEF h
<1>6. a * b = m * a + a * e
  BY <1>2
<1>7. (d + e) * (d + e) = d * d + 2 * (d * e) + e * e
  BY <1>3
<1>8. /\ d * d \in Int /\ d * e \in Int /\ e * e \in Int /\ m * a \in Int /\ a * e \in Int
      /\ g * g \in Int
  BY <1>2, <1>3
<1>9. 2 * (d * e) + e * e < 4 * (a * e)
  BY <1>3, <1>5, <1>6, <1>7, <1>8
<1>10. 2 * (d * e) >= 4 * (a * e)
  <2>1. d * e >= (2 * a) * e
    BY <1>2, <1>3, <1>4
  <2> QED BY <1>2, <1>3, <2>1
<1>11. e * e >= 0
  BY <1>3
<1> QED BY <1>8, <1>9, <1>10, <1>11

-----------------------------------------------------------------------------
(* Sums over slices.                                                       *)

(* Of a sum, one term is taken after another.                              *)
LEMMA SumOver ==
  ASSUME NEW term, NEW S, NEW sum, Summed(term, S, sum)
  PROVE  /\ sum[{}] = 0
         /\ \A s \in SUBSET S : s # {} =>
              /\ (CHOOSE x \in s : TRUE) \in s
              /\ sum[s] = term[CHOOSE x \in s : TRUE] + sum[s \ {CHOOSE x \in s : TRUE}]
<1>1. \A s \in SUBSET S : sum[s] = IF s = {} THEN 0
          ELSE term[CHOOSE x \in s : TRUE] + sum[s \ {CHOOSE x \in s : TRUE}]
  BY DEF Summed
<1>2. {} \in SUBSET S /\ \A s \in SUBSET S : s # {} => (CHOOSE x \in s : TRUE) \in s
  OBVIOUS
<1> QED BY <1>1, <1>2

(* What holds of no element, and of a set when of the set without the      *)
(* element a sum takes from it.                                            *)
LEMMA PartInduction ==
  ASSUME NEW S, IsFiniteSet(S), NEW good, {} \in good,
         \A s \in SUBSET S : s # {} /\ s \ {CHOOSE x \in s : TRUE} \in good => s \in good
  PROVE  S \in good
<1> DEFINE Less(s) == s \ {CHOOSE x \in s : TRUE}
           I == {n \in Nat : \A s \in SUBSET S : Cardinality(s) <= n => s \in good}
<1>1. \A s \in SUBSET S : IsFiniteSet(s) /\ Cardinality(s) \in Nat
  BY FS_Subset, FS_CardinalityType
<1>2. ASSUME NEW s \in SUBSET S, s # {}
      PROVE  Less(s) \in SUBSET S /\ Cardinality(Less(s)) = Cardinality(s) - 1
  <2> DEFINE x == CHOOSE x \in s : TRUE
  <2>1. x \in s
    BY <1>2
  <2> HIDE DEF x
  <2>2. Cardinality(s \ {x}) = Cardinality(s) - 1
    BY <1>1, <2>1, FS_RemoveElement
  <2> QED BY <2>2 DEF x
<1>3. 0 \in I
  <2>1. ASSUME NEW s \in SUBSET S, Cardinality(s) <= 0 PROVE s = {}
    <3>1. Cardinality(s) = 0 /\ IsFiniteSet(s)
      BY <1>1, <2>1
    <3> QED BY <3>1, FS_EmptySet
  <2> QED BY <2>1
<1>4. ASSUME NEW n \in I PROVE n + 1 \in I
  <2>1. ASSUME NEW s \in SUBSET S, Cardinality(s) <= n + 1 PROVE s \in good
    <3>1. CASE s = {}
      BY <3>1
    <3>2. CASE s # {}
      <4>1. Less(s) \in SUBSET S /\ Cardinality(Less(s)) <= n
        BY <1>1, <1>2, <2>1, <3>2
      <4>2. Less(s) \in good
        <5> HIDE DEF Less
        <5> QED BY <4>1
      <4> QED BY <3>2, <4>2
    <3> QED BY <3>1, <3>2
  <2> QED BY <2>1
<1>5. \A n \in Nat : n \in I
  <2>1. I \subseteq Nat
    OBVIOUS
  <2> HIDE DEF I
  <2> QED BY <1>3, <1>4, <2>1, SetInduction
<1> QED BY <1>1, <1>5

(* Two sums over a set, where each term of one is c times that of the other.*)
InRatio(S, c, term, sum, more, total) ==
  /\ IsFiniteSet(S) /\ c \in Int
  /\ Summed(term, S, sum) /\ Summed(more, S, total)
  /\ \A i \in S : term[i] \in Int /\ more[i] = c * term[i]

(* Then the sum is c times the other.                                      *)
LEMMA SumTimes ==
  ASSUME NEW S, NEW c, NEW term, NEW sum, NEW more, NEW total, InRatio(S, c, term, sum, more, total)
  PROVE  sum[S] \in Int /\ total[S] = c * sum[S]
<1>0. /\ IsFiniteSet(S) /\ c \in Int /\ Summed(term, S, sum) /\ Summed(more, S, total)
      /\ \A i \in S : term[i] \in Int /\ more[i] = c * term[i]
  BY DEF InRatio
<1> DEFINE good == {s \in SUBSET S : sum[s] \in Int /\ total[s] = c * sum[s]}
<1>1. {} \in good
  BY <1>0, SumOver
<1>2. ASSUME NEW s \in SUBSET S, s # {}, s \ {CHOOSE x \in s : TRUE} \in good
      PROVE  s \in good
  <2> DEFINE x == CHOOSE x \in s : TRUE
             less == s \ {x}
  <2>1. x \in s /\ sum[s] = term[x] + sum[less]
    BY <1>0, <1>2, SumOver
  <2>2. total[s] = more[x] + total[less]
    <3>1. \A r \in SUBSET S : r # {} =>
            total[r] = more[CHOOSE y \in r : TRUE] + total[r \ {CHOOSE y \in r : TRUE}]
      BY <1>0 DEF Summed
    <3> QED BY <1>2, <3>1
  <2>3. sum[less] \in Int /\ total[less] = c * sum[less]
    BY <1>2
  <2> HIDE DEF x, less
  <2> QED BY <1>0, <2>1, <2>2, <2>3
<1>3. S \in good
  <2> HIDE DEF good
  <2> QED BY <1>0, <1>1, <1>2, PartInduction
<1> QED BY <1>3

(* The sums of the squares of two vectors and of their sum.                *)
LEMMA SumsSpan ==
  ASSUME NEW S, IsFiniteSet(S), NEW u, NEW v, \A i \in S : u[i] \in Int /\ v[i] \in Int,
         NEW a, Summed([i \in S |-> u[i] * u[i]], S, a),
         NEW b, Summed([i \in S |-> v[i] * v[i]], S, b),
         NEW c, Summed([i \in S |-> (u[i] + v[i]) * (u[i] + v[i])], S, c)
  PROVE  Spans(a[S], b[S], c[S])
<1> DEFINE good == {s \in SUBSET S : Spans(a[s], b[s], c[s])}
<1>1. {} \in good
  <2>1. a[{}] = 0 /\ b[{}] = 0 /\ c[{}] = 0
    BY SumOver
  <2>2. Spans(0, 0, 0)
    <3>1. 0 \in Int /\ 0 = 0 + 0 + 2 * 0 /\ 0 * 0 <= 0 * 0
      OBVIOUS
    <3> QED BY <3>1 DEF Spans
  <2> QED BY <2>1, <2>2
<1>2. ASSUME NEW s \in SUBSET S, s # {}, s \ {CHOOSE x \in s : TRUE} \in good
      PROVE  s \in good
  <2> DEFINE x == CHOOSE x \in s : TRUE
             less == s \ {x}
  <2>1. x \in S
    BY <1>2, SumOver
  <2> DEFINE ua == [i \in S |-> u[i] * u[i]]
             vb == [i \in S |-> v[i] * v[i]]
             uc == [i \in S |-> (u[i] + v[i]) * (u[i] + v[i])]
  <2>2. ua[x] = u[x] * u[x] /\ vb[x] = v[x] * v[x] /\ uc[x] = (u[x] + v[x]) * (u[x] + v[x])
    BY <2>1
  <2> HIDE DEF ua, vb, uc
  <2>3. a[s] = ua[x] + a[less]
    <3>1. Summed(ua, S, a)
      BY DEF ua
    <3> QED BY <1>2, <3>1, SumOver, Zenon
  <2>4. b[s] = vb[x] + b[less]
    <3>1. Summed(vb, S, b)
      BY DEF vb
    <3> QED BY <1>2, <3>1, SumOver, Zenon
  <2>5. c[s] = uc[x] + c[less]
    <3>1. Summed(uc, S, c)
      BY DEF uc
    <3> QED BY <1>2, <3>1, SumOver, Zenon
  <2>6. Spans(a[less], b[less], c[less])
    BY <1>2
  <2> HIDE DEF x, less
  <2>7. Spans(u[x] * u[x] + a[less], v[x] * v[x] + b[less], (u[x] + v[x]) * (u[x] + v[x]) + c[less])
    BY <2>1, <2>6, SpansMore
  <2> QED BY <2>2, <2>3, <2>4, <2>5, <2>7
<1>3. S \in good
  <2> HIDE DEF good
  <2> QED BY <1>1, <1>2, PartInduction
<1> QED BY <1>3

(* The squared distance of two slices, as a sum.                           *)
Squares(a, b, S) == [i \in S |-> (a[i] - b[i]) * (a[i] - b[i])]

(* And as MapThenSumSet makes it.                                          *)
SquaredSum(a, b, S) == MapThenSumSet(LAMBDA i : (a[i] - b[i]) * (a[i] - b[i]), S)

(* The two are the same.                                                   *)
LEMMA SquaredSumIs ==
  ASSUME NEW S, IsFiniteSet(S), NEW a, NEW b, \A i \in S : a[i] \in Int /\ b[i] \in Int
  PROVE  \E sum : Summed(Squares(a, b, S), S, sum) /\ SquaredSum(a, b, S) = sum[S]
<1> DEFINE IsSum(f) == f = [s \in SUBSET S |-> IF s = {} THEN 0
                             ELSE LET x == CHOOSE x \in s : TRUE
                                  IN  (a[x] - b[x]) * (a[x] - b[x]) + f[s \ {x}]]
           sum == CHOOSE f : IsSum(f)
           term == Squares(a, b, S)
<1>1. SquaredSum(a, b, S) = sum[S]
  BY DEF SquaredSum, MapThenSumSet, MapThenFoldSet
<1>2. term \in [S -> Int]
  BY DEF Squares
<1>3. \A f : IsSum(f) <=> Summed(term, S, f)
  <2>1. \A s \in SUBSET S : s # {} =>
          term[CHOOSE x \in s : TRUE] =
            (a[(CHOOSE x \in s : TRUE)] - b[(CHOOSE x \in s : TRUE)]) * (a[(CHOOSE x \in s : TRUE)] - b[(CHOOSE x \in s : TRUE)])
    BY DEF Squares
  <2> HIDE DEF term
  <2> QED BY <2>1 DEF Summed
<1> HIDE DEF IsSum, term
<1>4. IsSum(sum)
  BY <1>2, <1>3, SumExists
<1> HIDE DEF sum
<1> QED BY <1>1, <1>3, <1>4 DEF term

-----------------------------------------------------------------------------
(* Scores of decoded slices.                                               *)

(* A slice that can be compared: finitely many dimensions, counted from    *)
(* one.                                                                    *)
Dimensions(slice) == IsFiniteSet(slice) /\ slice \subseteq Nat \ {0}

(* A slice of coordinates before it is decoded.                            *)
Whole(coords, slice) == [d \in slice |-> IF d <= Len(coords) THEN coords[d] ELSE 0]

(* The squared distance of what two slices are decoded from.               *)
Apart(p, q, slice) == SquaredSum(Whole(p, slice), Whole(q, slice), slice)

(* Decoding multiplies by the unit.                                        *)
LEMMA DecodedIs ==
  ASSUME NEW slice, Dimensions(slice), NEW coords \in Seq(Int)
  PROVE  /\ DOMAIN decode_semantic_slice(coords, slice) = slice
         /\ \A d \in slice : /\ Whole(coords, slice)[d] \in Int
                             /\ decode_semantic_slice(coords, slice)[d] \in Int
                             /\ decode_semantic_slice(coords, slice)[d] = Unit * Whole(coords, slice)[d]
<1>1. Unit \in Nat
  BY Widths
<1>2. \A d \in slice : d \in Nat /\ d > 0 /\ (d <= Len(coords) => coords[d] \in Int)
  <2>1. \A d \in slice : d \in Nat /\ d > 0
    BY DEF Dimensions
  <2>2. \A d \in Nat : d > 0 /\ d <= Len(coords) => coords[d] \in Int
    OBVIOUS
  <2> QED BY <2>1, <2>2
<1>3. ASSUME NEW d \in slice
      PROVE  /\ Whole(coords, slice)[d] \in Int
             /\ decode_semantic_slice(coords, slice)[d] \in Int
             /\ decode_semantic_slice(coords, slice)[d] = Unit * Whole(coords, slice)[d]
  <2>1. Whole(coords, slice)[d] = IF d <= Len(coords) THEN coords[d] ELSE 0
    BY DEF Whole
  <2>2. decode_semantic_slice(coords, slice)[d] = IF d <= Len(coords) THEN coords[d] * Unit ELSE 0
    BY DEF decode_semantic_slice
  <2>3. CASE d <= Len(coords)
    <3>1. coords[d] \in Int /\ Whole(coords, slice)[d] = coords[d]
          /\ decode_semantic_slice(coords, slice)[d] = coords[d] * Unit
      BY <1>2, <2>1, <2>2, <2>3
    <3>2. \A x \in Int : x * Unit \in Int /\ x * Unit = Unit * x
      BY <1>1
    <3> QED BY <3>1, <3>2
  <2>4. CASE ~(d <= Len(coords))
    BY <1>1, <2>1, <2>2, <2>4
  <2> QED BY <2>3, <2>4
<1>4. DOMAIN decode_semantic_slice(coords, slice) = slice
  BY DEF decode_semantic_slice
<1> QED BY <1>3, <1>4

(* The sums for three points, at once.                                     *)
LEMMA ApartSpans ==
  ASSUME NEW slice, Dimensions(slice), NEW p \in Seq(Int), NEW q \in Seq(Int), NEW r \in Seq(Int)
  PROVE  Spans(Apart(p, q, slice), Apart(q, r, slice), Apart(p, r, slice))
<1> DEFINE x == Whole(p, slice)
           y == Whole(q, slice)
           z == Whole(r, slice)
           u == [i \in slice |-> x[i] - y[i]]
           v == [i \in slice |-> y[i] - z[i]]
<1>1. IsFiniteSet(slice) /\ \A i \in slice : x[i] \in Int /\ y[i] \in Int /\ z[i] \in Int
  BY DecodedIs DEF Dimensions
<1> HIDE DEF x, y, z
<1>2. \A i \in slice : u[i] \in Int /\ v[i] \in Int
  BY <1>1
<1>3. Squares(x, y, slice) = [i \in slice |-> u[i] * u[i]]
  BY <1>1 DEF Squares
<1>4. Squares(y, z, slice) = [i \in slice |-> v[i] * v[i]]
  BY <1>1 DEF Squares
<1>5. Squares(x, z, slice) = [i \in slice |-> (u[i] + v[i]) * (u[i] + v[i])]
  <2>1. \A i \in slice : u[i] + v[i] = x[i] - z[i]
    BY <1>1
  <2> HIDE DEF u, v
  <2> QED BY <2>1 DEF Squares
<1>6. PICK a : Summed(Squares(x, y, slice), slice, a) /\ SquaredSum(x, y, slice) = a[slice]
  BY <1>1, SquaredSumIs
<1>7. PICK b : Summed(Squares(y, z, slice), slice, b) /\ SquaredSum(y, z, slice) = b[slice]
  BY <1>1, SquaredSumIs
<1>8. PICK c : Summed(Squares(x, z, slice), slice, c) /\ SquaredSum(x, z, slice) = c[slice]
  BY <1>1, SquaredSumIs
<1> HIDE DEF u, v
<1>9. Spans(a[slice], b[slice], c[slice])
  <2>1. /\ Summed([i \in slice |-> u[i] * u[i]], slice, a)
        /\ Summed([i \in slice |-> v[i] * v[i]], slice, b)
        /\ Summed([i \in slice |-> (u[i] + v[i]) * (u[i] + v[i])], slice, c)
    BY <1>3, <1>4, <1>5, <1>6, <1>7, <1>8
  <2> QED BY <1>1, <1>2, <2>1, SumsSpan
<1> QED BY <1>6, <1>7, <1>8, <1>9 DEF Apart, x, y, z

(* The tree scores by the squared distance, the scan by a multiple of it.  *)
LEMMA DistanceIs ==
  ASSUME NEW slice, Dimensions(slice), NEW p \in Seq(Int), NEW q \in Seq(Int)
  PROVE  LET a == decode_semantic_slice(p, slice)
             b == decode_semantic_slice(q, slice)
         IN  /\ Apart(p, q, slice) \in Nat
             /\ semantic_distance(a, b, slice) = (Unit * Unit) * Apart(p, q, slice)
             /\ EuclideanProxy(a, b) = Saturated(Unit * Apart(p, q, slice))
<1> DEFINE a == decode_semantic_slice(p, slice)
           b == decode_semantic_slice(q, slice)
           x == Whole(p, slice)
           y == Whole(q, slice)
           n == Apart(p, q, slice)
<1>1. n \in Nat
  BY ApartSpans DEF Spans
<1>2. /\ IsFiniteSet(slice) /\ DOMAIN a = slice
      /\ \A i \in slice : /\ x[i] \in Int /\ y[i] \in Int /\ a[i] \in Int /\ b[i] \in Int
                          /\ a[i] = Unit * x[i] /\ b[i] = Unit * y[i]
  BY DecodedIs, ZenonT(60) DEF Dimensions
<1>3. Unit \in Nat /\ Unit > 0
  BY Widths
<1>4. semantic_distance(a, b, slice) = SquaredSum(a, b, slice)
  BY DEF semantic_distance, SquaredSum
<1>5. EuclideanProxy(a, b) = Saturated(SquaredSum(a, b, slice) \div Unit)
  <2> HIDE DEF a, b
  <2> QED BY <1>2 DEF EuclideanProxy, SquaredSum
<1>6. n = SquaredSum(x, y, slice)
  BY DEF Apart
<1> HIDE DEF a, b, x, y, n
<1>7. PICK sum : Summed(Squares(x, y, slice), slice, sum) /\ SquaredSum(x, y, slice) = sum[slice]
  BY <1>2, SquaredSumIs, SMTT(60)
<1>8. PICK total : Summed(Squares(a, b, slice), slice, total) /\ SquaredSum(a, b, slice) = total[slice]
  BY <1>2, SquaredSumIs, SMTT(60)
<1> DEFINE c == Unit * Unit
<1>9. \A i \in slice : Squares(x, y, slice)[i] \in Int /\ Squares(a, b, slice)[i] = c * Squares(x, y, slice)[i]
  <2> SUFFICES ASSUME NEW i \in slice
               PROVE  /\ Squares(x, y, slice)[i] \in Int
                      /\ Squares(a, b, slice)[i] = c * Squares(x, y, slice)[i]
    OBVIOUS
  <2>1. /\ Squares(x, y, slice)[i] = (x[i] - y[i]) * (x[i] - y[i])
        /\ Squares(a, b, slice)[i] = (a[i] - b[i]) * (a[i] - b[i])
    BY DEF Squares
  <2>2. \A m, s, t \in Int :
          /\ (s - t) * (s - t) \in Int
          /\ (m * s - m * t) * (m * s - m * t) = (m * m) * ((s - t) * (s - t))
    OBVIOUS
  <2>3. /\ (x[i] - y[i]) * (x[i] - y[i]) \in Int
        /\ (a[i] - b[i]) * (a[i] - b[i]) = c * ((x[i] - y[i]) * (x[i] - y[i]))
    <3>1. x[i] \in Int /\ y[i] \in Int /\ Unit \in Int
      BY <1>2, <1>3
    <3>2. /\ (x[i] - y[i]) * (x[i] - y[i]) \in Int
          /\ (Unit * x[i] - Unit * y[i]) * (Unit * x[i] - Unit * y[i])
               = c * ((x[i] - y[i]) * (x[i] - y[i]))
      BY <2>2, <3>1, Zenon
    <3>3. a[i] = Unit * x[i] /\ b[i] = Unit * y[i]
      BY <1>2
    <3> QED BY <3>2, <3>3, Zenon
  <2> QED BY <2>1, <2>3
<1>10. SquaredSum(a, b, slice) = c * n
  <2>1. c \in Int
    BY <1>3
  <2> DEFINE term == Squares(x, y, slice)
             more == Squares(a, b, slice)
  <2> HIDE DEF c, term, more
  <2>2. total[slice] = c * sum[slice]
    <3>1. Summed(term, slice, sum) /\ Summed(more, slice, total)
      BY <1>7, <1>8 DEF term, more
    <3>2. \A i \in slice : term[i] \in Int /\ more[i] = c * term[i]
      BY <1>9 DEF term, more
    <3>3. IsFiniteSet(slice)
      BY <1>2
    <3>4. InRatio(slice, c, term, sum, more, total)
      BY <2>1, <3>1, <3>2, <3>3 DEF InRatio
    <3> QED BY <3>4, SumTimes, Zenon
  <2> QED BY <1>6, <1>7, <1>8, <2>2
<1>11. SquaredSum(a, b, slice) \div Unit = Unit * n
  <2>1. c * n = (Unit * n) * Unit
    BY <1>1, <1>3
  <2>2. \A s, t \in Nat : t > 0 => (s * t) \div t = s
    OBVIOUS
  <2>3. Unit * n \in Nat
    BY <1>1, <1>3
  <2> QED BY <1>3, <1>10, <2>1, <2>2, <2>3
<1> QED BY <1>1, <1>4, <1>5, <1>10, <1>11 DEF a, b, n

-----------------------------------------------------------------------------
(* The pruning of the Euclidean metric.                                    *)

(* Entries and a query whose scores are squared distances, in units: far   *)
(* from the query, dist from each other.                                   *)
Measured(entries, score, far, dist) ==
  /\ IsFiniteSet(DOMAIN entries) /\ DOMAIN entries \subseteq Int /\ DOMAIN score = DOMAIN entries
  /\ \A i \in DOMAIN entries : score[i] = Unit * far[i]
  /\ \A v, i \in DOMAIN entries :
       /\ proxy("euclidean", entries[v], entries[i]) = Unit * dist[v][i]
       /\ Spans(far[v], dist[v][i], far[i])

(* The median is a score.                                                  *)
LEMMA MedianIs ==
  ASSUME NEW score, NEW ids, Ranked(score, ids), ids # {}
  PROVE  \E i \in ids : MedianScore(score, ids) = score[i]
<1> DEFINE AtMost(i) == {j \in ids : score[j] <= score[i]}
           M == {i \in ids : Cardinality(AtMost(i)) > Cardinality(ids) \div 2}
           minus == [i \in ids |-> -score[i]]
<1>1. Cardinality(ids) \in Nat /\ Cardinality(ids) > 0
  <2>1. Cardinality(ids) \in Nat
    BY FS_CardinalityType DEF Ranked
  <2>2. Cardinality(ids) # 0
    BY FS_EmptySet DEF Ranked
  <2> QED BY <2>1, <2>2
<1>2. PICK i \in ids : AtMost(i) = ids
  <2>1. Ranked(minus, ids)
    BY DEF Ranked
  <2>2. PICK i \in ids : \A j \in ids : j = i \/ Before(minus, i, j)
    BY <2>1, FirstOf
  <2>3. \A j \in ids : score[j] <= score[i]
    BY <2>2 DEF Before, Ranked
  <2> QED BY <2>3
<1>3. M \subseteq ids /\ i \in M
  <2>1. Cardinality(ids) > Cardinality(ids) \div 2
    BY <1>1
  <2> QED BY <1>2, <2>1
<1>4. MedianScore(score, ids) = Min({score[m] : m \in M})
  BY DEF MedianScore
<1> HIDE DEF M
<1>5. PICK m \in M : \A n \in M : n = m \/ Before(score, m, n)
  <2>1. Ranked(score, M) /\ M # {}
    BY <1>3, RankedPart
  <2> QED BY <2>1, FirstOf
<1>6. score[m] \in {score[n] : n \in M} /\ \A y \in {score[n] : n \in M} : score[m] <= y
  <2>1. \A n \in M : score[m] <= score[n]
    BY <1>3, <1>5 DEF Before, Ranked
  <2> QED BY <2>1
<1>7. Min({score[n] : n \in M}) \in {score[n] : n \in M}
  BY <1>6 DEF Min
<1> QED BY <1>3, <1>4, <1>7

(* Of a tree: nothing is pruned that may be among the nearest.             *)
LEMMA EuclideanPruning ==
  ASSUME NEW entries, NEW score, NEW far, NEW dist, Measured(entries, score, far, dist),
         NEW tree, TreeOver(DOMAIN entries, tree), Built("euclidean", entries, tree), NEW k
  PROVE  PruningSound("euclidean", score, tree, k)
<1> DEFINE D == DOMAIN entries
<1>1. /\ IsFiniteSet(D) /\ D \subseteq Int /\ DOMAIN score = D
      /\ \A i \in D : score[i] = Unit * far[i]
      /\ \A v \in D : \A i \in D : /\ proxy("euclidean", entries[v], entries[i]) = Unit * dist[v][i]
                                   /\ Spans(far[v], dist[v][i], far[i])
  BY DEF Measured
<1>2. Unit \in Nat /\ Unit > 0
  BY Widths
<1>3. \A i \in D : far[i] \in Nat
  BY <1>1 DEF Spans
<1>4. \A v \in D : \A i \in D : dist[v][i] \in Nat
  BY <1>1 DEF Spans
<1>5. \A x, y \in Int : Unit * x < Unit * y <=> x < y
  <2> SUFFICES ASSUME NEW x \in Int, NEW y \in Int PROVE Unit * x < Unit * y <=> x < y
    OBVIOUS
  <2>1. x < y => Unit * x < Unit * y
    <3> SUFFICES ASSUME x < y PROVE Unit * x < Unit * y
      OBVIOUS
    <3>1. Unit * (y - x) > 0
      BY <1>2
    <3>2. Unit * (y - x) = Unit * y - Unit * x
      BY <1>2
    <3>3. Unit * x \in Int /\ Unit * y \in Int
      BY <1>2
    <3> QED BY <3>1, <3>2, <3>3
  <2>2. y <= x => Unit * y <= Unit * x
    BY <1>2
  <2>3. Unit * x \in Int /\ Unit * y \in Int
    BY <1>2
  <2> QED BY <2>1, <2>2, <2>3
<1> SUFFICES ASSUME NEW part \in DOMAIN tree, NEW found \in SUBSET D
             PROVE /\ Pruned(prune_left, "euclidean", score, tree[part], found, k) =>
                        \A i \in tree[part].left : \A j \in found : Before(score, j, i)
                   /\ Pruned(prune_right, "euclidean", score, tree[part], found, k) =>
                        \A i \in tree[part].right : \A j \in found : Before(score, j, i)
  BY <1>1 DEF PruningSound
<1>6. PICK v \in part : tree[part] = NodeOver("euclidean", entries, part \ {v}, v)
  BY DEF Built
<1> DEFINE others == part \ {v}
           near == Scores("euclidean", entries, v, others)
           median == IF others = {} THEN 0 ELSE MedianScore(near, others)
           node == tree[part]
           worst == Max({score[i] : i \in found})
<1>7. v \in D /\ others \subseteq D
  BY DEF TreeOver
<1>8. /\ node.id = v /\ node.median = median
      /\ node.left = {i \in others : near[i] < median}
      /\ node.right = others \ node.left
  BY <1>6 DEF NodeOver
<1>9. \A i \in others : near[i] = Unit * dist[v][i] /\ dist[v][i] \in Nat
  BY <1>1, <1>4, <1>7 DEF Scores
<1>10. /\ Pruned(prune_left, "euclidean", score, node, found, k) =>
            Separated("euclidean", score[v], median, worst)
       /\ Pruned(prune_right, "euclidean", score, node, found, k) =>
            Separated("euclidean", median, score[v], worst)
  <2> HIDE DEF node, median
  <2> QED BY <1>8 DEF Pruned, prune_left, prune_right
<1>11. others # {} => \E m \in Nat : median = Unit * m
  <2> SUFFICES ASSUME others # {} PROVE \E m \in Nat : median = Unit * m
    OBVIOUS
  <2>1. Ranked(near, others)
    <3>1. IsFiniteSet(others)
      BY <1>1, <1>7, FS_Subset
    <3>2. \A i \in others : i \in Int /\ near[i] \in Int
      <4> HIDE DEF near, others
      <4>1. \A i \in others : Unit * dist[v][i] \in Int
        BY <1>2, <1>9
      <4> QED BY <1>1, <1>7, <1>9, <4>1
    <3> QED BY <3>1, <3>2 DEF Ranked
  <2>2. PICK i \in others : median = near[i]
    <3> HIDE DEF near, others
    <3> QED BY <2>1, MedianIs
  <2> HIDE DEF near, others, median
  <2> QED BY <1>9, <2>2
<1>12. found # {} => \E j \in found : worst = score[j] /\ \A i \in found : score[i] <= worst
  <2> SUFFICES ASSUME found # {}
               PROVE  \E j \in found : worst = score[j] /\ \A i \in found : score[i] <= worst
    OBVIOUS
  <2>1. IsFiniteSet(found)
    BY <1>1, FS_Subset
  <2>2. \A i \in found : i \in Int /\ score[i] \in Int
    BY <1>1, <1>2, <1>3
  <2> HIDE DEF D
  <2> QED BY <2>1, <2>2, GreatestOf
<1> HIDE DEF node, median, worst, near, others
(* Beyond the worst: after all that is found.                              *)
<1>13. ASSUME NEW i \in D, NEW j \in found, NEW m \in found, worst = score[m],
              \A n \in found : score[n] <= worst, far[i] > far[m]
       PROVE  Before(score, j, i)
  <2>1. /\ score[i] = Unit * far[i] /\ score[j] = Unit * far[j] /\ score[m] = Unit * far[m]
        /\ far[i] \in Nat /\ far[j] \in Nat /\ far[m] \in Nat
    BY <1>1, <1>3
  <2>2. Unit * far[m] < Unit * far[i]
    BY <1>5, <1>13, <2>1
  <2>3. score[j] <= score[m]
    BY <1>13
  <2>4. score[i] \in Int /\ score[j] \in Int /\ score[m] \in Int
    BY <1>2, <2>1
  <2>5. score[j] < score[i]
    BY <2>1, <2>2, <2>3, <2>4
  <2> QED BY <2>5 DEF Before
<1>14. ASSUME Pruned(prune_left, "euclidean", score, node, found, k),
              NEW i \in node.left, NEW j \in found
       PROVE  Before(score, j, i)
  <2>1. i \in others /\ near[i] < median /\ i \in D /\ others # {}
    BY <1>7, <1>8
  <2>2. PICK h \in Nat : median = Unit * h
    BY <1>11, <2>1
  <2>3. PICK m \in found : worst = score[m] /\ \A n \in found : score[n] <= worst
    BY <1>12
  <2>4. m \in D /\ far[m] \in Nat /\ far[v] \in Nat /\ far[i] \in Nat /\ dist[v][i] \in Nat
        /\ score[m] = Unit * far[m] /\ score[v] = Unit * far[v]
    BY <1>1, <1>3, <1>4, <1>7, <2>1
  <2>5. Separated("euclidean", Unit * far[v], Unit * h, Unit * far[m])
    BY <1>10, <1>14, <2>2, <2>3, <2>4
  <2>6. Unit * far[v] > Unit * h /\ EuclideanSeparation(Unit * far[v], Unit * h, Unit * far[m])
    BY <2>5 DEF Separated
  <2>7. far[v] > h /\ dist[v][i] < h
    <3>1. Unit * dist[v][i] < Unit * h
      BY <1>9, <2>1, <2>2
    <3>2. Unit * h < Unit * far[v]
      <4>1. Unit * h \in Int /\ Unit * far[v] \in Int
        BY <1>2, <2>4
      <4> QED BY <2>6, <4>1
    <3> QED BY <1>5, <2>4, <3>1, <3>2
  <2>8. far[v] + h - far[m] > 0 /\ (far[v] + h - far[m]) * (far[v] + h - far[m]) > 4 * (far[v] * h)
    BY <2>4, <2>6, SeparationGap
  <2>9. Spans(far[v], dist[v][i], far[i])
    BY <1>1, <1>7, <2>1
  <2>10. far[i] > far[m]
    BY <2>4, <2>7, <2>8, <2>9, LeftFar
  <2> QED BY <1>13, <2>1, <2>3, <2>10
<1>15. ASSUME Pruned(prune_right, "euclidean", score, node, found, k),
              NEW i \in node.right, NEW j \in found
       PROVE  Before(score, j, i)
  <2>1. i \in others /\ ~(near[i] < median) /\ i \in D /\ others # {}
    BY <1>7, <1>8
  <2>2. PICK h \in Nat : median = Unit * h
    BY <1>11, <2>1
  <2>3. PICK m \in found : worst = score[m] /\ \A n \in found : score[n] <= worst
    BY <1>12
  <2>4. m \in D /\ far[m] \in Nat /\ far[v] \in Nat /\ far[i] \in Nat /\ dist[v][i] \in Nat
        /\ score[m] = Unit * far[m] /\ score[v] = Unit * far[v]
    BY <1>1, <1>3, <1>4, <1>7, <2>1
  <2>5. Separated("euclidean", Unit * h, Unit * far[v], Unit * far[m])
    BY <1>10, <1>15, <2>2, <2>3, <2>4
  <2>6. Unit * h > Unit * far[v] /\ EuclideanSeparation(Unit * h, Unit * far[v], Unit * far[m])
    BY <2>5 DEF Separated
  <2>7. h > far[v] /\ dist[v][i] >= h
    <3>1. ~(Unit * dist[v][i] < Unit * h)
      BY <1>9, <2>1, <2>2
    <3>2. Unit * far[v] < Unit * h
      <4>1. Unit * h \in Int /\ Unit * far[v] \in Int
        BY <1>2, <2>4
      <4> QED BY <2>6, <4>1
    <3>3. ~(dist[v][i] < h) /\ far[v] < h
      BY <1>5, <2>4, <3>1, <3>2
    <3> QED BY <2>4, <3>3
  <2>8. h + far[v] - far[m] > 0 /\ (h + far[v] - far[m]) * (h + far[v] - far[m]) > 4 * (h * far[v])
    BY <2>4, <2>6, SeparationGap
  <2>9. Spans(far[v], dist[v][i], far[i])
    BY <1>1, <1>7, <2>1
  <2>10. far[i] > far[m]
    BY <2>4, <2>7, <2>8, <2>9, RightFar
  <2> QED BY <1>13, <2>1, <2>3, <2>10
<1> QED BY <1>14, <1>15 DEF node

(* So knn answers as a scan by the same scores.                            *)
LEMMA EuclideanKnn ==
  ASSUME NEW entries, NEW query, NEW score,
         score = [i \in DOMAIN entries |-> proxy("euclidean", query, entries[i])],
         NEW far, NEW dist, Measured(entries, score, far, dist), NEW k \in Nat
  PROVE  tree_knn("euclidean", build("euclidean", entries), entries, query, k)
           = Best(score, DOMAIN entries, k)
<1> DEFINE D == DOMAIN entries
           tree == build("euclidean", entries)
<1>1. /\ IsFiniteSet(D) /\ D \subseteq Int /\ DOMAIN score = D
      /\ \A i \in D : score[i] = Unit * far[i]
      /\ \A v \in D : \A i \in D : /\ proxy("euclidean", entries[v], entries[i]) = Unit * dist[v][i]
                                   /\ Spans(far[v], dist[v][i], far[i])
  BY DEF Measured
<1>2. Unit \in Nat
  BY Widths
<1>3. Ranked(score, D)
  <2>1. \A i \in D : far[i] \in Nat
    BY <1>1 DEF Spans
  <2>2. \A i \in D : Unit * far[i] \in Int
    BY <1>2, <2>1
  <2> QED BY <1>1, <2>2 DEF Ranked
<1>4. Scored("euclidean", entries)
  <2>1. \A v \in D : \A i \in D : dist[v][i] \in Nat
    BY <1>1 DEF Spans
  <2>2. \A v \in D : \A i \in D : Unit * dist[v][i] \in Int
    BY <1>2, <2>1
  <2> QED BY <1>1, <2>2 DEF Scored
<1>5. TreeOver(D, tree) /\ Built("euclidean", entries, tree) /\ D \in Parts(tree)
  BY <1>4, BuildIs DEF TreeFor
<1>6. tree_knn("euclidean", tree, entries, query, k)
        = IF k = 0 THEN {} ELSE search_knn("euclidean", score, tree, k)
  BY DEF tree_knn
<1>7. search_knn("euclidean", score, tree, k) = Best(score, D, k)
  <2> HIDE DEF tree
  <2>1. PruningSound("euclidean", score, tree, k)
    BY <1>5, EuclideanPruning
  <2>2. TreeOver(DOMAIN score, tree) /\ DOMAIN score \in Parts(tree) /\ Ranked(score, DOMAIN score)
    BY <1>1, <1>3, <1>5
  <2>3. search_knn("euclidean", score, tree, k) = Best(score, DOMAIN score, k)
    BY <2>1, <2>2, SearchIsBest
  <2> QED BY <1>1, <2>3
<1>8. Best(score, D, 0) = {}
  BY <1>3, BestNone
<1> QED BY <1>6, <1>7, <1>8

-----------------------------------------------------------------------------
(* The semantic queries of a store.                                        *)

(* Scores that order the ids alike have the same best.                     *)
LEMMA SameOrder ==
  ASSUME NEW score, NEW other, NEW ids,
         \A i, j \in ids : Before(score, i, j) <=> Before(other, i, j), NEW k
  PROVE  Best(score, ids, k) = Best(other, ids, k)
<1>1. \A i \in ids : Ahead(score, ids, i) = Ahead(other, ids, i)
  BY DEF Ahead
<1> QED BY <1>1, BestIs

(* What is compared, and the coordinates there may be, are well-formed.    *)
LEMMA ComparedIs ==
  /\ \A slice \in Compared : Dimensions(slice)
  /\ Coordinates \subseteq Seq(Int) \ {<<>>}
<1>1. ASSUME NEW slice \in Slices PROVE Dimensions(slice)
  BY SlicesAssumption DEF Dimensions
<1>2. ASSUME NEW d \in DOMAIN Anchor PROVE Dimensions({d})
  <2>1. d \in Nat \ {0}
    <3>1. DOMAIN Anchor = 1 .. Len(Anchor) /\ Len(Anchor) \in Nat
      BY AnchorAssumption
    <3> QED BY <3>1
  <2>2. IsFiniteSet({d})
    BY FS_Singleton
  <2> QED BY <2>1, <2>2 DEF Dimensions
<1>3. Coordinates \subseteq Seq(Int) \ {<<>>}
  BY KeptAssumption DEF Coordinates
<1> QED BY <1>1, <1>2, <1>3 DEF Compared

(* What is compared, with the coordinates it is decoded from.              *)
Sliced(entries, at, slice) ==
  /\ IsFiniteSet(DOMAIN entries) /\ DOMAIN entries \subseteq Int
  /\ \A x \in DOMAIN entries : at[x] \in Coordinates /\ entries[x] = decode_semantic_slice(at[x], slice)

(* No score saturates: it is the squared distance in units.                *)
LEMMA ProxyIs ==
  ASSUME NEW slice \in Compared, NEW p \in Coordinates, NEW q \in Coordinates
  PROVE  proxy("euclidean", decode_semantic_slice(p, slice), decode_semantic_slice(q, slice))
           = Unit * Apart(p, q, slice)
<1> DEFINE a == decode_semantic_slice(p, slice)
           b == decode_semantic_slice(q, slice)
           n == Apart(p, q, slice)
<1>1. Dimensions(slice) /\ p \in Seq(Int) /\ q \in Seq(Int)
  BY ComparedIs
<1>2. n \in Nat /\ EuclideanProxy(a, b) = Saturated(Unit * n)
  BY <1>1, DistanceIs
<1>3. EuclideanProxy(a, b) < MaxRaw
  BY DistancesAssumption
<1>4. Unit \in Nat /\ MaxRaw \in Nat
  BY Widths
<1>5. Unit * n \in Int
  BY <1>2, <1>4
<1> HIDE DEF n, a, b
<1>6. EuclideanProxy(a, b) = Unit * n
  BY <1>2, <1>3, <1>4, <1>5, SaturatedIs
<1> QED BY <1>6 DEF proxy, a, b, n

(* The scores of the entries, for a query that is decoded too.             *)
SliceScores(slice, entries, at, coords, query, score) ==
  /\ slice \in Compared /\ Sliced(entries, at, slice)
  /\ coords \in Coordinates /\ query = decode_semantic_slice(coords, slice)
  /\ score = [i \in DOMAIN entries |-> proxy("euclidean", query, entries[i])]

(* The k best by these scores: what the tree answers, and what the scan by *)
(* the distances does.                                                     *)
SliceAnswers(slice, entries, query, score, k) ==
  /\ Ranked(score, DOMAIN entries)
  /\ tree_knn("euclidean", build("euclidean", entries), entries, query, k)
       = Best(score, DOMAIN entries, k)
  /\ Best([x \in DOMAIN entries |-> semantic_distance(query, entries[x], slice)],
          DOMAIN entries, k) = Best(score, DOMAIN entries, k)

(* The tree and the scan answer alike.                                     *)
LEMMA SliceKnn ==
  ASSUME NEW slice, NEW entries, NEW at, NEW coords, NEW query, NEW score,
         SliceScores(slice, entries, at, coords, query, score), NEW k \in Nat
  PROVE  SliceAnswers(slice, entries, query, score, k)
<1> DEFINE D == DOMAIN entries
           far == [i \in D |-> Apart(coords, at[i], slice)]
           dist == [v \in D |-> [i \in D |-> Apart(at[v], at[i], slice)]]
           wide == [x \in D |-> semantic_distance(query, entries[x], slice)]
<1>0. /\ slice \in Compared /\ Sliced(entries, at, slice)
      /\ coords \in Coordinates /\ query = decode_semantic_slice(coords, slice)
      /\ score = [i \in D |-> proxy("euclidean", query, entries[i])]
  BY DEF SliceScores
<1>1. /\ Dimensions(slice) /\ coords \in Seq(Int)
      /\ \A i \in D : at[i] \in Coordinates /\ at[i] \in Seq(Int)
                      /\ entries[i] = decode_semantic_slice(at[i], slice)
  BY <1>0, ComparedIs DEF Sliced
<1>2. \A i \in D : score[i] = Unit * far[i]
  BY <1>0, <1>1, ProxyIs
<1>3. \A v, i \in D : proxy("euclidean", entries[v], entries[i]) = Unit * dist[v][i]
  BY <1>0, <1>1, ProxyIs
<1>4. \A v, i \in D : Spans(far[v], dist[v][i], far[i])
  BY <1>0, <1>1, ApartSpans
<1>5. DOMAIN score = D
  BY <1>0
<1>6. \A i \in D : wide[i] = (Unit * Unit) * far[i] /\ far[i] \in Nat
  BY <1>0, <1>1, DistanceIs
<1> HIDE DEF far, dist, wide
<1>7. Measured(entries, score, far, dist)
  BY <1>0, <1>2, <1>3, <1>4, <1>5 DEF Measured, Sliced
<1>8. Unit \in Nat /\ Unit > 0
  BY Widths
<1>9. Ranked(score, D)
  <2>1. \A i \in D : Unit * far[i] \in Int
    BY <1>6, <1>8
  <2> QED BY <1>0, <1>2, <2>1 DEF Ranked, Sliced
<1>10. tree_knn("euclidean", build("euclidean", entries), entries, query, k) = Best(score, D, k)
  BY <1>0, <1>7, EuclideanKnn
<1>11. \A i, j \in D : Before(wide, i, j) <=> Before(score, i, j)
  <2>1. \A x, y \in Nat : /\ Unit * x < Unit * y <=> x < y
                          /\ Unit * x = Unit * y <=> x = y
    <3> SUFFICES ASSUME NEW x \in Nat, NEW y \in Nat
                 PROVE (Unit * x < Unit * y <=> x < y) /\ (Unit * x = Unit * y <=> x = y)
      OBVIOUS
    <3>1. Unit * x \in Int /\ Unit * y \in Int
      BY <1>8
    <3>2. x < y => Unit * x < Unit * y
      BY <1>8
    <3>3. y < x => Unit * y < Unit * x
      BY <1>8
    <3> QED BY <3>1, <3>2, <3>3
  <2>2. \A i \in D : Unit * far[i] \in Nat /\ wide[i] = Unit * (Unit * far[i])
    <3>1. \A x, y \in Nat : x * y \in Nat /\ (x * x) * y = x * (x * y)
      OBVIOUS
    <3> QED BY <1>6, <1>8, <3>1
  <2>3. \A i, j \in D : /\ wide[i] < wide[j] <=> score[i] < score[j]
                        /\ wide[i] = wide[j] <=> score[i] = score[j]
    <3> SUFFICES ASSUME NEW i \in D, NEW j \in D
                 PROVE (wide[i] < wide[j] <=> score[i] < score[j])
                       /\ (wide[i] = wide[j] <=> score[i] = score[j])
      OBVIOUS
    <3> DEFINE x == Unit * far[i]
               y == Unit * far[j]
    <3>1. x \in Nat /\ y \in Nat /\ wide[i] = Unit * x /\ wide[j] = Unit * y
          /\ score[i] = x /\ score[j] = y
      BY <1>2, <2>2
    <3> HIDE DEF x, y
    <3> QED BY <2>1, <3>1
  <2> QED BY <2>3 DEF Before
<1>12. Best(wide, D, k) = Best(score, D, k)
  BY <1>11, SameOrder
<1> QED BY <1>9, <1>10, <1>12 DEF wide, SliceAnswers

(* The nearest other entries, from an answer with room for one more.       *)
LEMMA OthersOfTree ==
  ASSUME NEW slice \in Compared, NEW entries, NEW at, Sliced(entries, at, slice),
         NEW x \in DOMAIN entries, NEW k \in Nat
  PROVE  OthersFirst(entries, "euclidean", x,
                     tree_knn("euclidean", build("euclidean", entries), entries, entries[x], k + 1), k)
           = OthersFirst(entries, "euclidean", x, DOMAIN entries, k)
<1> DEFINE D == DOMAIN entries
           score == [y \in D |-> proxy("euclidean", entries[x], entries[y])]
           found == tree_knn("euclidean", build("euclidean", entries), entries, entries[x], k + 1)
<1>1. at[x] \in Coordinates /\ entries[x] = decode_semantic_slice(at[x], slice) /\ k + 1 \in Nat
  BY DEF Sliced
<1>2. Ranked(score, D) /\ found = Best(score, D, k + 1)
  <2>1. SliceScores(slice, entries, at, at[x], entries[x], score)
    BY <1>1 DEF SliceScores
  <2> HIDE DEF score
  <2>2. SliceAnswers(slice, entries, entries[x], score, k + 1)
    BY <1>1, <2>1, SliceKnn, Zenon
  <2> QED BY <2>2 DEF SliceAnswers
<1>3. /\ OthersFirst(entries, "euclidean", x, found, k) = Best(score, found \ {x}, k)
      /\ OthersFirst(entries, "euclidean", x, D, k) = Best(score, D \ {x}, k)
  BY DEF OthersFirst
<1> HIDE DEF score, found
<1>4. Best(score, found \ {x}, k) = Best(score, D \ {x}, k)
  <2>1. Best(score, Best(score, D, k + 1) \ {x}, k) = Best(score, D \ {x}, k)
    <3>1. Ranked(score, D) /\ x \in D
      BY <1>2
    <3> HIDE DEF D
    <3> QED BY <3>1, BestWithout
  <2> QED BY <1>2, <2>1
<1> QED BY <1>3, <1>4 DEF found

(* The coordinates of what is stored.                                      *)
CoordsOf == [x \in Stored |-> nodes[x].coords]

(* What the store compares over a slice, and over the population.          *)
LEMMA StoreSliced ==
  ASSUME Stores, NEW slice
  PROVE  /\ DOMAIN Decoded(slice) = {y \in Stored : nodes[y].coords # <<>>}
         /\ Sliced(Decoded(slice), CoordsOf, slice)
<1> DEFINE D == {y \in Stored : nodes[y].coords # <<>>}
<1>1. DOMAIN Decoded(slice) = D /\ \A x \in D : Decoded(slice)[x] = decode_semantic_slice(nodes[x].coords, slice)
  BY DEF Decoded
<1>2. IsFiniteSet(D) /\ D \subseteq Int
  <2>1. D \subseteq Stored
    OBVIOUS
  <2>2. Stored \subseteq Nat
    BY IdAssumption DEF Stores, TypeOK
  <2>3. IsFiniteSet(Stored)
    BY DEF Stores
  <2> HIDE DEF D
  <2>4. IsFiniteSet(D)
    BY <2>1, <2>3, FS_Subset
  <2>5. D \subseteq Int
    BY <2>1, <2>2
  <2> QED BY <2>4, <2>5
<1>3. \A x \in D : CoordsOf[x] = nodes[x].coords /\ nodes[x].coords \in Coordinates
  BY DEF CoordsOf, Coordinates, Stores, TypeOK
<1> QED BY <1>1, <1>2, <1>3 DEF Sliced

(* The population likewise.                                                *)
LEMMA PopulationSliced ==
  ASSUME Stores, NEW d
  PROVE  Sliced(Population(d), CoordsOf, {d})
<1> DEFINE D == {y \in Stored \cap Prefix : nodes[y].coords # <<>>}
<1>1. DOMAIN Population(d) = D
      /\ \A x \in D : Population(d)[x] = decode_semantic_slice(nodes[x].coords, {d})
  BY DEF Population
<1>2. IsFiniteSet(D) /\ D \subseteq Int
  <2>1. D \subseteq Stored
    OBVIOUS
  <2>2. Stored \subseteq Nat
    BY IdAssumption DEF Stores, TypeOK
  <2>3. IsFiniteSet(Stored)
    BY DEF Stores
  <2> HIDE DEF D
  <2>4. IsFiniteSet(D)
    BY <2>1, <2>3, FS_Subset
  <2>5. D \subseteq Int
    BY <2>1, <2>2
  <2> QED BY <2>4, <2>5
<1>3. \A x \in D : CoordsOf[x] = nodes[x].coords /\ nodes[x].coords \in Coordinates
  BY DEF CoordsOf, Coordinates, Stores, TypeOK
<1> QED BY <1>1, <1>2, <1>3 DEF Sliced

(* The facade's check, without Min.                                        *)
LEMMA CheckSliceIs ==
  ASSUME NEW slice, Dimensions(slice), NEW coords \in Seq(Int)
  PROVE  /\ check_slice(slice, coords) <=> \E d \in slice : \A e \in slice : d <= e /\ d <= Len(coords)
         /\ check_slice(slice, coords) => coords # <<>>
<1>1. CASE slice = {}
  BY <1>1 DEF check_slice
<1>2. CASE slice # {}
  <2>1. slice \subseteq Nat /\ 0 \notin slice
    BY DEF Dimensions
  <2>2. PICK m \in slice : \A e \in slice : m <= e
    BY <1>2, <2>1, LeastOf
  <2>3. Min(slice) \in slice /\ \A e \in slice : Min(slice) <= e
    BY <2>2 DEF Min
  <2> DEFINE least == Min(slice)
  <2>4. least \in Nat /\ least > 0 /\ Len(coords) \in Nat
    <3>1. Len(coords) \in Nat
      OBVIOUS
    <3> HIDE DEF least
    <3>2. least \in slice
      BY <2>3 DEF least
    <3>3. least \in Nat /\ least # 0
      BY <2>1, <3>2
    <3> QED BY <3>1, <3>3
  <2>5. check_slice(slice, coords) <=> least <= Len(coords)
    BY <1>2 DEF check_slice
  <2> HIDE DEF least
  <2>6. least <= Len(coords) => \E d \in slice : \A e \in slice : d <= e /\ d <= Len(coords)
    BY <2>3 DEF least
  <2>7. ASSUME NEW d \in slice, \A e \in slice : d <= e /\ d <= Len(coords) PROVE least <= Len(coords)
    <3>1. d \in Nat /\ d <= Len(coords) /\ least <= d
      BY <2>1, <2>3, <2>7 DEF least
    <3> QED BY <2>4, <3>1
  <2>8. least <= Len(coords) => coords # <<>>
    BY <2>4
  <2> QED BY <2>5, <2>6, <2>7, <2>8
<1> QED BY <1>1, <1>2

(* On both paths a query has the answer of a scan.                         *)
LEMMA NearestSemantic ==
  ASSUME Stores, NEW slice \in Compared, NEW coords \in Coordinates, NEW k \in Nat
  PROVE  nearest_semantic(get_or_build(slice), coords, k, slice) = nearest_semantic_scan(coords, k, slice)
<1> DEFINE entries == Decoded(slice)
           query == decode_semantic_slice(coords, slice)
           score == [i \in DOMAIN entries |-> proxy("euclidean", query, entries[i])]
           tree == build("euclidean", entries)
<1>1. SliceScores(slice, entries, CoordsOf, coords, query, score)
  BY StoreSliced DEF SliceScores
<1> HIDE DEF score
<1>2. SliceAnswers(slice, entries, query, score, k)
  <2> HIDE DEF entries, query
  <2> QED BY <1>1, SliceKnn, Zenon
<1>3. SearchTree(get_or_build(slice), coords, k, slice) = Best(score, DOMAIN entries, k)
  BY <1>2 DEF SearchTree, get_or_build, SliceAnswers
<1>4. nearest_semantic_scan(coords, k, slice) = Best(score, DOMAIN entries, k)
  BY <1>2 DEF nearest_semantic_scan, SliceAnswers
<1> QED BY <1>3, <1>4 DEF nearest_semantic

(* With the invariant, both semantic queries answer as a scan does.        *)
LEMMA StoresSemantic ==
  ASSUME Stores
  PROVE  SemanticAsScan
<1> SUFFICES ASSUME NEW slice \in Slices
             PROVE
    LET tree == get_or_build(slice)
        entries == Decoded(slice)
        Informative(coords) == \E d \in slice : \A e \in slice : d <= e /\ d <= Len(coords)
    IN  /\ \A coords \in Coordinates, k \in Ranks :
             StoreNearestSemantic(tree, coords, k, slice) =
               IF Informative(coords) THEN Answered(nearest_semantic_scan(coords, k, slice))
                                      ELSE Refused
        /\ \A x \in Id, k \in Ranks :
             StoreNeighborsSemantic(tree, x, k, slice) =
               IF x \in Stored /\ Informative(nodes[x].coords)
               THEN Answered(OthersFirst(entries, "euclidean", x, DOMAIN entries, k))
               ELSE Refused
  BY DEF SemanticAsScan
<1> DEFINE tree == get_or_build(slice)
           entries == Decoded(slice)
           Informative(coords) == \E d \in slice : \A e \in slice : d <= e /\ d <= Len(coords)
<1>1. slice \in Compared /\ Dimensions(slice)
  BY ComparedIs DEF Compared
<1>2. \A coords \in Seq(Int) : /\ check_slice(slice, coords) <=> Informative(coords)
                               /\ check_slice(slice, coords) => coords # <<>>
  BY <1>1, CheckSliceIs
<1>3. ASSUME NEW coords \in Coordinates, NEW k \in Ranks
      PROVE  StoreNearestSemantic(tree, coords, k, slice) =
               IF Informative(coords) THEN Answered(nearest_semantic_scan(coords, k, slice)) ELSE Refused
  <2>1. k \in Nat /\ coords \in Seq(Int)
    BY RanksAssumption, ComparedIs
  <2>2. nearest_semantic(tree, coords, k, slice) = nearest_semantic_scan(coords, k, slice)
    BY <1>1, <2>1, NearestSemantic
  <2>3. check_slice(slice, coords) <=> Informative(coords)
    BY <1>2, <2>1
  <2> HIDE DEF tree, Informative
  <2> QED BY <2>2, <2>3 DEF StoreNearestSemantic
<1>4. ASSUME NEW x \in Id, NEW k \in Ranks
      PROVE  StoreNeighborsSemantic(tree, x, k, slice) =
               IF x \in Stored /\ Informative(nodes[x].coords)
               THEN Answered(OthersFirst(entries, "euclidean", x, DOMAIN entries, k))
               ELSE Refused
  <2>1. k \in Nat /\ k + 1 \in Nat
    BY RanksAssumption
  <2>2. get_semantic(x) \in Seq(Int)
    <3>1. x \in Stored => nodes[x].coords \in Seq(Int)
      BY KeptAssumption DEF Stores, TypeOK
    <3>2. <<>> \in Seq(Int)
      OBVIOUS
    <3> QED BY <3>1, <3>2 DEF get_semantic
  <2>3. CASE x \in Stored /\ check_slice(slice, nodes[x].coords)
    <3>1. get_semantic(x) = nodes[x].coords
      BY <2>3 DEF get_semantic
    <3>2. Informative(nodes[x].coords) /\ nodes[x].coords # <<>>
      BY <1>2, <2>2, <2>3, <3>1
    <3>3. x \in DOMAIN entries /\ nodes[x].coords \in Coordinates
          /\ entries[x] = decode_semantic_slice(nodes[x].coords, slice)
      <4>1. x \in DOMAIN entries
        BY <2>3, <3>2, StoreSliced
      <4>2. CoordsOf[x] = nodes[x].coords
        BY <2>3 DEF CoordsOf
      <4> QED BY <4>1, <4>2, StoreSliced DEF Sliced
    <3>4. Sliced(entries, CoordsOf, slice)
      BY StoreSliced
    <3>5. nearest_semantic(tree, nodes[x].coords, k + 1, slice)
            = tree_knn("euclidean", build("euclidean", entries), entries, entries[x], k + 1)
      <4> DEFINE coords == nodes[x].coords
                 score == [i \in DOMAIN entries |-> proxy("euclidean", entries[x], entries[i])]
      <4>1. nearest_semantic(tree, coords, k + 1, slice) = nearest_semantic_scan(coords, k + 1, slice)
        BY <1>1, <2>1, <3>3, NearestSemantic
      <4>2. nearest_semantic_scan(coords, k + 1, slice)
              = Best([y \in DOMAIN entries |-> semantic_distance(entries[x], entries[y], slice)],
                     DOMAIN entries, k + 1)
        BY <3>3 DEF nearest_semantic_scan
      <4>3. SliceScores(slice, entries, CoordsOf, coords, entries[x], score)
        BY <1>1, <3>3, <3>4 DEF SliceScores
      <4> HIDE DEF score, entries, coords
      <4>4. SliceAnswers(slice, entries, entries[x], score, k + 1)
        BY <2>1, <4>3, SliceKnn, Zenon
      <4>5. nearest_semantic_scan(coords, k + 1, slice)
              = tree_knn("euclidean", build("euclidean", entries), entries, entries[x], k + 1)
        BY <4>2, <4>4 DEF SliceAnswers
      <4> QED BY <4>1, <4>5 DEF coords
    <3>6. OthersFirst(entries, "euclidean", x,
                      tree_knn("euclidean", build("euclidean", entries), entries, entries[x], k + 1), k)
            = OthersFirst(entries, "euclidean", x, DOMAIN entries, k)
      <4> HIDE DEF entries
      <4> QED BY <1>1, <2>1, <3>3, <3>4, OthersOfTree
    <3>7. neighbors_semantic(tree, x, k, slice) = OthersFirst(entries, "euclidean", x, DOMAIN entries, k)
      BY <3>5, <3>6 DEF neighbors_semantic
    <3> HIDE DEF tree, entries, Informative
    <3> QED BY <2>3, <3>1, <3>2, <3>7 DEF StoreNeighborsSemantic
  <2>4. CASE ~(x \in Stored /\ check_slice(slice, nodes[x].coords))
    <3>1. ~check_slice(slice, get_semantic(x)) /\ ~(x \in Stored /\ Informative(nodes[x].coords))
      <4>1. CASE x \in Stored
        <5>1. get_semantic(x) = nodes[x].coords
          BY <4>1 DEF get_semantic
        <5> HIDE DEF Informative
        <5> QED BY <1>2, <2>2, <2>4, <4>1, <5>1
      <4>2. CASE x \notin Stored
        <5>1. get_semantic(x) = <<>>
          BY <4>2 DEF get_semantic
        <5> HIDE DEF Informative
        <5> QED BY <1>2, <2>2, <4>2, <5>1
      <4> QED BY <4>1, <4>2
    <3> HIDE DEF tree, entries, Informative
    <3> QED BY <3>1 DEF StoreNeighborsSemantic
  <2> QED BY <2>3, <2>4
<1> QED BY <1>3, <1>4

(* The peers, and so the sums, are those of a scan of the population.      *)
LEMMA StoresOutliers ==
  ASSUME Stores
  PROVE  OutliersAsNaive
<1> SUFFICES ASSUME NEW z \in Thresholds, NEW d \in DOMAIN Anchor
             PROVE
    LET entries == Population(d)
        k == Min({OutlierKnn, Cardinality(DOMAIN entries) - 1})
        Peers(x, n) == OthersFirst(entries, "euclidean", x, DOMAIN entries, n)
    IN  find_outliers(z, d) =
          IF Cardinality(DOMAIN entries) < MinPopulation THEN {}
          ELSE Anomalous(PeerSum(entries, Peers, k, d), z)
  BY DEF OutliersAsNaive
<1> DEFINE entries == Population(d)
           n == Cardinality(DOMAIN entries)
           k == Min({OutlierKnn, n - 1})
           tree == build("euclidean", entries)
           Walked(x) == OthersFirst(entries, "euclidean", x,
                                    tree_knn("euclidean", tree, entries, entries[x], k + 1), k)
           Scanned(x) == OthersFirst(entries, "euclidean", x, DOMAIN entries, k)
<1>1. Sliced(entries, CoordsOf, {d}) /\ {d} \in Compared
  BY PopulationSliced DEF Compared
<1>2. CASE n < MinPopulation
  BY <1>2 DEF find_outliers
<1>3. CASE ~(n < MinPopulation)
  <2>1. k \in Nat
    <3>1. n \in Nat
      BY <1>1, FS_CardinalityType DEF Sliced
    <3> HIDE DEF n
    <3>2. n - 1 \in Nat /\ OutlierKnn \in Nat
      BY <1>3, <3>1, PopulationAssumption
    <3>3. \A a, b \in Nat : Min({a, b}) \in Nat
      BY MinPair
    <3> QED BY <3>2, <3>3
  <2> HIDE DEF k, entries
  <2>2. \A x \in DOMAIN entries : Walked(x) = Scanned(x)
    BY <1>1, <2>1, OthersOfTree
  <2> HIDE DEF Walked, Scanned
  <2>3. [x \in DOMAIN entries |-> DistanceSum(entries, x, Walked(x), d)]
          = [x \in DOMAIN entries |-> DistanceSum(entries, x, Scanned(x), d)]
    BY <2>2
  <2>4. find_outliers(z, d) = Anomalous([x \in DOMAIN entries |-> DistanceSum(entries, x, Walked(x), d)], z)
    BY <1>3 DEF find_outliers, PeerSum, entries, k, Walked
  <2> QED BY <1>3, <2>3, <2>4 DEF PeerSum, entries, k, Scanned
<1> QED BY <1>2, <1>3

(* Whether the store is large enough for the tree or not, nearest_semantic *)
(* answers alike, and neighbors_semantic gives the nearest other nodes, for*)
(* any coordinates and slices whose distances the width can hold           *)
(* (store.rs, metric_tree.rs).                                             *)
THEOREM SpecSemanticAsScan == Spec => []SemanticAsScan
<1>1. Stores => SemanticAsScan
  BY StoresSemantic
<1> QED BY <1>1, SpecStores, PTL

(* The outliers below a prefix are those of the plain definition, by       *)
(* scanning the population (find_outliers).                                *)
THEOREM SpecOutliersAsNaive == Spec => []OutliersAsNaive
<1>1. Stores => OutliersAsNaive
  BY StoresOutliers
<1> QED BY <1>1, SpecStores, PTL

==============================================================================
