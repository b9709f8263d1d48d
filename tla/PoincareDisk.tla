---------------------------- MODULE PoincareDisk -----------------------------
(***************************************************************************)
(* Points of the Poincare disk at which distances are rational, so that    *)
(* TLC computes with them exactly.  A point lies at a hyperbolic radius r  *)
(* with e^r one of 1, 3/2, 2, 3, 4 and in one of the twelve directions     *)
(* (x, y) with x*x + y*y = 25.  The arithmetic is g_math's; its rounding   *)
(* is what the rational points leave out.                                  *)
(***************************************************************************)
EXTENDS Integers, Sequences

Radius == 1 .. 5

(* cosh r and sinh r, in 24ths.                                            *)
Cosh == <<24, 26, 30, 40, 51>>
Sinh == <<0, 10, 18, 32, 45>>

Direction == {d \in (-5 .. 5) \X (-5 .. 5) : d[1] * d[1] + d[2] * d[2] = 25}

Point == [radius : Radius, dir : Direction]

(* One, where distances are given by their cosh.                           *)
One == 24 * 24 * 25

(* cosh of the distance, by the law of cosines.  Monotone in the distance, *)
(* as is every other form in which the code compares distances.            *)
hyperbolic_distance(p, q) ==
  LET cosine == p.dir[1] * q.dir[1] + p.dir[2] * q.dir[2]
  IN  25 * Cosh[p.radius] * Cosh[q.radius] - cosine * Sinh[p.radius] * Sinh[q.radius]

(* A full turn, in the units of pseudo_angle.                              *)
Turn == 28

(* The diamond pseudo-angle, 7 to a quarter turn; 0 at the origin.         *)
pseudo_angle(p) ==
  LET x == p.dir[1]
      y == p.dir[2]
  IN  CASE p.radius = 1 -> 0
        [] p.radius # 1 /\ y >= 0 /\ x >= 0 -> (7 * y) \div (x + y)
        [] p.radius # 1 /\ y >= 0 /\ x < 0 -> 7 - (7 * x) \div (y - x)
        [] p.radius # 1 /\ y < 0 /\ x < 0 -> 14 + (-7 * y) \div (-x - y)
        [] p.radius # 1 /\ y < 0 /\ x >= 0 -> 21 + (7 * x) \div (x - y)

(* The cosine of a pseudo-angle gap, read as the same angle in radians, in *)
(* hundredths, rounded up; the square of its sine, rounded down.  Read so, *)
(* a gap is never above the angle between two directions.                  *)
Cosine == <<100, 99, 96, 91, 85, 76, 66, 55, 42, 29, 15, 0, -14, -28, -41>>
SineSquared == <<0, 2, 7, 17, 29, 42, 57, 70, 82, 92, 97, 99, 97, 92, 82>>

==============================================================================
