----------------------------- MODULE Intervals -----------------------------
(***************************************************************************)
(* The numbers and intervals of staticcheck/vrp/int.go.  A Z is an integer *)
(* or one of two infinities; its operations are total, infinities that     *)
(* cancel out included.  An IntInterval is unknown, empty, or lies between *)
(* two Zs.                                                                 *)
(***************************************************************************)
EXTENDS Integers

Fin(k) == [inf |-> 0, n |-> k]
NInfinity == [inf |-> -1, n |-> 0]
PInfinity == [inf |-> 1, n |-> 0]
Z == {z \in [inf : {-1, 0, 1}, n : Int] : z.inf # 0 => z.n = 0}

Infinite(z) == z.inf # 0

Sign(z) ==
  IF z.inf # 0 THEN z.inf ELSE IF z.n < 0 THEN -1 ELSE IF z.n > 0 THEN 1 ELSE 0

Negate(z) == [inf |-> - z.inf, n |-> - z.n]

(* Z.Add and Z.Sub for a second operand that is not negative.              *)
AddUp(z1, z2) ==
  IF Infinite(z1) THEN z1 ELSE IF z2 = PInfinity THEN PInfinity ELSE Fin(z1.n + z2.n)

SubDown(z1, z2) ==
  IF ~Infinite(z1) /\ ~Infinite(z2) THEN Fin(z1.n - z2.n)
  ELSE IF z1 # PInfinity /\ z2 = PInfinity THEN NInfinity
  ELSE z1

(* Z.Add and Z.Sub, which turn a negative operand round.                   *)
AddZ(z1, z2) == IF Sign(z2) = -1 THEN SubDown(z1, Negate(z2)) ELSE AddUp(z1, z2)
SubZ(z1, z2) == IF Sign(z2) = -1 THEN AddUp(z1, Negate(z2)) ELSE SubDown(z1, z2)

MulZ(z1, z2) ==
  IF z1 = Fin(0) \/ z2 = Fin(0) THEN Fin(0)
  ELSE IF Infinite(z1) \/ Infinite(z2) THEN [inf |-> Sign(z1) * Sign(z2), n |-> 0]
  ELSE Fin(z1.n * z2.n)

Cmp(z1, z2) ==
  IF z1.inf # z2.inf THEN (IF z1.inf < z2.inf THEN -1 ELSE 1)
  ELSE IF z1.n < z2.n THEN -1 ELSE IF z1.n > z2.n THEN 1 ELSE 0

MaxZ(z1, z2) == IF Cmp(z2, z1) = 1 THEN z2 ELSE z1
MinZ(z1, z2) == IF Cmp(z2, z1) = -1 THEN z2 ELSE z1
MaxZ4(a, b, c, d) == MaxZ(MaxZ(MaxZ(a, b), c), d)
MinZ4(a, b, c, d) == MinZ(MinZ(MinZ(a, b), c), d)

-----------------------------------------------------------------------------
IntInterval == [known : BOOLEAN, lower : Z, upper : Z]

(* IntInterval{}; its bounds are nil pointers that nothing may read.       *)
Unknown == [known |-> FALSE, lower |-> Fin(0), upper |-> Fin(0)]

EmptyIntInterval == [known |-> TRUE, lower |-> PInfinity, upper |-> NInfinity]

NewIntInterval(l, u) ==
  IF Cmp(u, l) = -1 THEN EmptyIntInterval ELSE [known |-> TRUE, lower |-> l, upper |-> u]

Empty(i) == i.lower = PInfinity /\ i.upper = NInfinity

Intersection(i1, i2) ==
  IF ~i1.known THEN i2
  ELSE IF ~i2.known THEN i1
  ELSE IF Empty(i1) \/ Empty(i2) THEN EmptyIntInterval
  ELSE NewIntInterval(MaxZ(i1.lower, i2.lower), MinZ(i1.upper, i2.upper))

Union(i1, i2) ==
  IF Empty(i1) \/ ~i1.known THEN i2
  ELSE IF Empty(i2) \/ ~i2.known THEN i1
  ELSE NewIntInterval(MinZ(i1.lower, i2.lower), MaxZ(i1.upper, i2.upper))

(* Bug: only the lower bounds meet the lower bounds, as in Add.            *)
SubWrong(i1, i2) ==
  IF Empty(i1) \/ Empty(i2) THEN EmptyIntInterval
  ELSE NewIntInterval(SubZ(i1.lower, i2.lower), SubZ(i1.upper, i2.upper))

Add(i1, i2) ==
  IF Empty(i1) \/ Empty(i2) THEN EmptyIntInterval
  ELSE NewIntInterval(AddZ(i1.lower, i2.lower), AddZ(i1.upper, i2.upper))

Sub(i1, i2) ==
  IF Empty(i1) \/ Empty(i2) THEN EmptyIntInterval
  ELSE NewIntInterval(SubZ(i1.lower, i2.upper), SubZ(i1.upper, i2.lower))

Mul(i1, i2) ==
  LET a == MulZ(i1.lower, i2.lower)
      b == MulZ(i1.lower, i2.upper)
      c == MulZ(i1.upper, i2.lower)
      d == MulZ(i1.upper, i2.upper)
  IN IF Empty(i1) \/ Empty(i2) THEN EmptyIntInterval
     ELSE NewIntInterval(MinZ4(a, b, c, d), MaxZ4(a, b, c, d))

-----------------------------------------------------------------------------
(* widenIntInterval's choice of new bounds: the first of the sorted        *)
(* constants that lies below z, or above it, and an infinity without one.  *)
First(zs) == CHOOSE c \in zs : \A d \in zs : Cmp(c, d) <= 0

LowerConst(consts, z) ==
  LET below == {c \in consts : Cmp(c, z) <= 0}
  IN IF below = {} THEN NInfinity ELSE First(below)

UpperConst(consts, z) ==
  LET above == {c \in consts : Cmp(c, z) >= 0}
  IN IF above = {} THEN PInfinity ELSE First(above)

(* widenIntInterval; the bound that it exceeds jumps outwards.             *)
WidenInterval(consts, oi, ni) ==
  LET down == Cmp(ni.lower, oi.lower) = -1
      up == Cmp(ni.upper, oi.upper) = 1
  IN IF ~ni.known THEN oi
     ELSE IF ~oi.known THEN ni
     ELSE IF down \/ up
          THEN NewIntInterval(IF down THEN LowerConst(consts, ni.lower) ELSE oi.lower,
                              IF up THEN UpperConst(consts, ni.upper) ELSE oi.upper)
     ELSE oi

WidenChanges(oi, ni) ==
  ni.known /\ (~oi.known \/ Cmp(ni.lower, oi.lower) = -1 \/ Cmp(ni.upper, oi.upper) = 1)

(* narrowIntInterval; one bound at a time, the infinite ones first.  The   *)
(* last two cases move a bound outwards.                                   *)
NarrowsLower(oi, ni) == oi.lower = NInfinity /\ ni.lower # NInfinity

(* Bug: an infinite bound counts as narrowed when the new one is infinite. *)
NarrowsAnyUpper(oi, ni) == oi.upper = PInfinity

NarrowsUpper(oi, ni) == oi.upper = PInfinity /\ ni.upper # PInfinity

NarrowInterval(oi, ni) ==
  IF NarrowsLower(oi, ni) THEN NewIntInterval(ni.lower, oi.upper)
  ELSE IF NarrowsUpper(oi, ni) THEN NewIntInterval(oi.lower, ni.upper)
  ELSE IF Cmp(oi.lower, ni.lower) = 1 THEN NewIntInterval(ni.lower, oi.upper)
  ELSE IF Cmp(oi.upper, ni.upper) = -1 THEN NewIntInterval(oi.lower, ni.upper)
  ELSE oi

NarrowChanges(oi, ni) ==
  \/ NarrowsLower(oi, ni) \/ NarrowsUpper(oi, ni)
  \/ Cmp(oi.lower, ni.lower) = 1 \/ Cmp(oi.upper, ni.upper) = -1

-----------------------------------------------------------------------------
(* What an interval stands for, and when one stands for no more than       *)
(* another.                                                                *)
Includes(i, x) == i.known /\ Cmp(i.lower, Fin(x)) <= 0 /\ Cmp(Fin(x), i.upper) <= 0

Within(i1, i2) == Cmp(i2.lower, i1.lower) <= 0 /\ Cmp(i1.upper, i2.upper) <= 0
=============================================================================
