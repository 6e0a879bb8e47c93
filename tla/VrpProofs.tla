----------------------------- MODULE VrpProofs -----------------------------
(***************************************************************************)
(* The ranges that Solve returns hold, and no bound of an unknown range is *)
(* read, for every function, every order of the worklists and integers of  *)
(* every size.                                                             *)
(*                                                                         *)
(* First, the operations on intervals are sound for all bounds, the        *)
(* infinite ones included: an interval that includes x and one that        *)
(* includes y give one that includes the result of the operation on x and  *)
(* y.  Then the constraints are, and last the two loops that solve them.   *)
(***************************************************************************)
EXTENDS Vrp, FiniteSetTheorems, FunctionTheorems, WellFoundedInduction, TLAPS

(* A finite number lies below a number that is not below it.               *)
LEMMA CmpFin ==
  ASSUME NEW x \in Int, NEW z \in Z
  PROVE  /\ Cmp(z, Fin(x)) <= 0 <=> z.inf = -1 \/ (z.inf = 0 /\ z.n <= x)
         /\ Cmp(Fin(x), z) <= 0 <=> z.inf = 1 \/ (z.inf = 0 /\ x <= z.n)
BY DEF Cmp, Fin, Z

(* NewIntInterval keeps what lies between its arguments.                   *)
LEMMA NewIncludes ==
  ASSUME NEW l \in Z, NEW u \in Z, NEW x \in Int,
         Cmp(l, Fin(x)) <= 0, Cmp(Fin(x), u) <= 0
  PROVE  Includes(NewIntInterval(l, u), x)
<1>1. Cmp(u, l) # -1
  BY CmpFin DEF Cmp, Z
<1> QED
  BY <1>1 DEF NewIntInterval, Includes

(* An interval that includes something is not taken for empty.             *)
LEMMA IncludesIsNotEmpty ==
  ASSUME NEW i \in IntInterval, NEW x \in Int, Includes(i, x)
  PROVE  /\ ~Empty(i) /\ i.known
         /\ i.lower \in Z /\ i.upper \in Z
         /\ Cmp(i.lower, Fin(x)) <= 0 /\ Cmp(Fin(x), i.upper) <= 0
BY DEF Includes, Empty, IntInterval, Cmp, Fin, PInfinity, NInfinity

(* The sum of two bounds bounds the sum.                                   *)
LEMMA AddBounds ==
  ASSUME NEW z1 \in Z, NEW z2 \in Z, NEW x \in Int, NEW y \in Int
  PROVE  /\ AddZ(z1, z2) \in Z
         /\ Cmp(z1, Fin(x)) <= 0 /\ Cmp(z2, Fin(y)) <= 0 => Cmp(AddZ(z1, z2), Fin(x + y)) <= 0
         /\ Cmp(Fin(x), z1) <= 0 /\ Cmp(Fin(y), z2) <= 0 => Cmp(Fin(x + y), AddZ(z1, z2)) <= 0
BY DEF AddZ, AddUp, SubDown, Sign, Negate, Infinite, Cmp, Fin, Z, PInfinity, NInfinity

(* So does the difference of opposite bounds for the difference.           *)
LEMMA SubBounds ==
  ASSUME NEW z1 \in Z, NEW z2 \in Z, NEW x \in Int, NEW y \in Int
  PROVE  /\ SubZ(z1, z2) \in Z
         /\ Cmp(z1, Fin(x)) <= 0 /\ Cmp(Fin(y), z2) <= 0 => Cmp(SubZ(z1, z2), Fin(x - y)) <= 0
         /\ Cmp(Fin(x), z1) <= 0 /\ Cmp(z2, Fin(y)) <= 0 => Cmp(Fin(x - y), SubZ(z1, z2)) <= 0
BY DEF SubZ, AddUp, SubDown, Sign, Negate, Infinite, Cmp, Fin, Z, PInfinity, NInfinity

(* IntInterval.Add: the sum of two intervals includes the sum of any two   *)
(* of their members.                                                       *)
THEOREM AddIsSound ==
  ASSUME NEW i1 \in IntInterval, NEW i2 \in IntInterval, NEW x \in Int, NEW y \in Int,
         Includes(i1, x), Includes(i2, y)
  PROVE  Includes(Add(i1, i2), x + y)
<1>1. /\ ~Empty(i1) /\ ~Empty(i2)
      /\ i1.lower \in Z /\ i1.upper \in Z /\ i2.lower \in Z /\ i2.upper \in Z
  BY IncludesIsNotEmpty
<1>2. /\ Cmp(i1.lower, Fin(x)) <= 0 /\ Cmp(Fin(x), i1.upper) <= 0
      /\ Cmp(i2.lower, Fin(y)) <= 0 /\ Cmp(Fin(y), i2.upper) <= 0
  BY IncludesIsNotEmpty
<1>3. /\ AddZ(i1.lower, i2.lower) \in Z /\ AddZ(i1.upper, i2.upper) \in Z
      /\ Cmp(AddZ(i1.lower, i2.lower), Fin(x + y)) <= 0
      /\ Cmp(Fin(x + y), AddZ(i1.upper, i2.upper)) <= 0
  BY <1>1, <1>2, AddBounds
<1> QED
  BY <1>1, <1>3, NewIncludes DEF Add

(* IntInterval.Sub: so does the difference.                                *)
THEOREM SubIsSound ==
  ASSUME NEW i1 \in IntInterval, NEW i2 \in IntInterval, NEW x \in Int, NEW y \in Int,
         Includes(i1, x), Includes(i2, y)
  PROVE  Includes(Sub(i1, i2), x - y)
<1>1. /\ ~Empty(i1) /\ ~Empty(i2)
      /\ i1.lower \in Z /\ i1.upper \in Z /\ i2.lower \in Z /\ i2.upper \in Z
  BY IncludesIsNotEmpty
<1>2. /\ Cmp(i1.lower, Fin(x)) <= 0 /\ Cmp(Fin(x), i1.upper) <= 0
      /\ Cmp(i2.lower, Fin(y)) <= 0 /\ Cmp(Fin(y), i2.upper) <= 0
  BY IncludesIsNotEmpty
<1>3. /\ SubZ(i1.lower, i2.upper) \in Z /\ SubZ(i1.upper, i2.lower) \in Z
      /\ Cmp(SubZ(i1.lower, i2.upper), Fin(x - y)) <= 0
      /\ Cmp(Fin(x - y), SubZ(i1.upper, i2.lower)) <= 0
  BY <1>1, <1>2, SubBounds
<1> QED
  BY <1>1, <1>3, NewIncludes DEF Sub

-----------------------------------------------------------------------------
(* Cmp orders Z; MinZ and MaxZ are below and above their arguments.        *)
LEMMA CmpTrans ==
  ASSUME NEW a \in Z, NEW b \in Z, NEW c \in Z, Cmp(a, b) <= 0, Cmp(b, c) <= 0
  PROVE  Cmp(a, c) <= 0
BY DEF Cmp, Z

(* Cmp is a total order, given by its three answers.                       *)
LEMMA CmpTotal ==
  ASSUME NEW a \in Z, NEW b \in Z
  PROVE  Cmp(a, b) \in {-1, 0, 1} /\ Cmp(b, a) = -Cmp(a, b) /\ Cmp(a, a) = 0
BY DEF Cmp, Z

LEMMA MinMax ==
  ASSUME NEW a \in Z, NEW b \in Z
  PROVE  /\ MinZ(a, b) \in Z /\ Cmp(MinZ(a, b), a) <= 0 /\ Cmp(MinZ(a, b), b) <= 0
         /\ MaxZ(a, b) \in Z /\ Cmp(a, MaxZ(a, b)) <= 0 /\ Cmp(b, MaxZ(a, b)) <= 0
         /\ MinZ(a, b) \in {a, b} /\ MaxZ(a, b) \in {a, b}
BY DEF MinZ, MaxZ, Cmp, Z

LEMMA MinMax4 ==
  ASSUME NEW a \in Z, NEW b \in Z, NEW c \in Z, NEW d \in Z
  PROVE  /\ MinZ4(a, b, c, d) \in Z /\ MaxZ4(a, b, c, d) \in Z
         /\ \A z \in {a, b, c, d} : /\ Cmp(MinZ4(a, b, c, d), z) <= 0
                                   /\ Cmp(z, MaxZ4(a, b, c, d)) <= 0
<1> DEFINE ab == MinZ(a, b)  AB == MaxZ(a, b)
           abc == MinZ(ab, c)  ABC == MaxZ(AB, c)
           abcd == MinZ(abc, d)  ABCD == MaxZ(ABC, d)
<1>1. /\ ab \in Z /\ Cmp(ab, a) <= 0 /\ Cmp(ab, b) <= 0
      /\ AB \in Z /\ Cmp(a, AB) <= 0 /\ Cmp(b, AB) <= 0
  BY MinMax
<1>2. /\ abc \in Z /\ Cmp(abc, ab) <= 0 /\ Cmp(abc, c) <= 0
      /\ ABC \in Z /\ Cmp(AB, ABC) <= 0 /\ Cmp(c, ABC) <= 0
  BY <1>1, MinMax
<1>3. /\ abcd \in Z /\ Cmp(abcd, abc) <= 0 /\ Cmp(abcd, d) <= 0
      /\ ABCD \in Z /\ Cmp(ABC, ABCD) <= 0 /\ Cmp(d, ABCD) <= 0
  BY <1>2, MinMax
<1> HIDE DEF ab, AB, abc, ABC, abcd, ABCD
<1>4. Cmp(abcd, ab) <= 0 /\ Cmp(AB, ABCD) <= 0 /\ Cmp(abcd, c) <= 0 /\ Cmp(c, ABCD) <= 0
  BY <1>1, <1>2, <1>3, CmpTrans
<1>5. Cmp(abcd, a) <= 0 /\ Cmp(a, ABCD) <= 0 /\ Cmp(abcd, b) <= 0 /\ Cmp(b, ABCD) <= 0
  BY <1>1, <1>3, <1>4, CmpTrans
<1>6. MinZ4(a, b, c, d) = abcd /\ MaxZ4(a, b, c, d) = ABCD
  BY DEF MinZ4, MaxZ4, ab, AB, abc, ABC, abcd, ABCD
<1> QED
  BY <1>3, <1>4, <1>5, <1>6

(* IntInterval.Union: what phis are given includes every operand's values. *)
THEOREM UnionIsSound ==
  ASSUME NEW i1 \in IntInterval, NEW i2 \in IntInterval, NEW x \in Int,
         Includes(i1, x) \/ Includes(i2, x)
  PROVE  Includes(Union(i1, i2), x)
<1> DEFINE l == MinZ(i1.lower, i2.lower)  u == MaxZ(i1.upper, i2.upper)
<1>1. /\ i1.lower \in Z /\ i1.upper \in Z /\ i2.lower \in Z /\ i2.upper \in Z
      /\ Fin(x) \in Z
  BY DEF IntInterval, Fin, Z
<1>2. /\ l \in Z /\ Cmp(l, i1.lower) <= 0 /\ Cmp(l, i2.lower) <= 0
      /\ u \in Z /\ Cmp(i1.upper, u) <= 0 /\ Cmp(i2.upper, u) <= 0
  BY <1>1, MinMax
<1>3. \/ Cmp(i1.lower, Fin(x)) <= 0 /\ Cmp(Fin(x), i1.upper) <= 0
      \/ Cmp(i2.lower, Fin(x)) <= 0 /\ Cmp(Fin(x), i2.upper) <= 0
  BY DEF Includes
<1> HIDE DEF l, u
<1>4. Cmp(l, Fin(x)) <= 0 /\ Cmp(Fin(x), u) <= 0
  BY <1>1, <1>2, <1>3, CmpTrans
<1>5. Includes(NewIntInterval(l, u), x)
  BY <1>2, <1>4, NewIncludes
<1>6. /\ Includes(i1, x) => ~Empty(i1) /\ i1.known
      /\ Includes(i2, x) => ~Empty(i2) /\ i2.known
  BY IncludesIsNotEmpty
<1> QED
  BY <1>5, <1>6 DEF Union, l, u

(* IntInterval.Intersection, by which CheckDiffSizeComparison decides: it  *)
(* includes what both intervals include.                                   *)
THEOREM IntersectionIsSound ==
  ASSUME NEW i1 \in IntInterval, NEW i2 \in IntInterval, NEW x \in Int,
         Includes(i1, x), Includes(i2, x)
  PROVE  Includes(Intersection(i1, i2), x)
<1> DEFINE l == MaxZ(i1.lower, i2.lower)  u == MinZ(i1.upper, i2.upper)
<1>1. /\ i1.lower \in Z /\ i1.upper \in Z /\ i2.lower \in Z /\ i2.upper \in Z
      /\ Cmp(i1.lower, Fin(x)) <= 0 /\ Cmp(Fin(x), i1.upper) <= 0
      /\ Cmp(i2.lower, Fin(x)) <= 0 /\ Cmp(Fin(x), i2.upper) <= 0
      /\ i1.known /\ i2.known /\ ~Empty(i1) /\ ~Empty(i2)
  BY IncludesIsNotEmpty
<1>2. l \in {i1.lower, i2.lower} /\ u \in {i1.upper, i2.upper}
  BY <1>1, MinMax
<1> HIDE DEF l, u
<1>3. l \in Z /\ u \in Z /\ Cmp(l, Fin(x)) <= 0 /\ Cmp(Fin(x), u) <= 0
  BY <1>1, <1>2
<1>4. Includes(NewIntInterval(l, u), x)
  BY <1>3, NewIncludes
<1> QED
  BY <1>1, <1>4 DEF Intersection, l, u

-----------------------------------------------------------------------------
(* Products, which may turn the order of the bounds round.                 *)
LEMMA ProductMonotone ==
  ASSUME NEW a \in Int, NEW b \in Int, NEW c \in Int, a <= b
  PROVE  /\ c >= 0 => a * c <= b * c
         /\ c <= 0 => b * c <= a * c
         /\ a * c \in Int /\ b * c \in Int
<1>1. (b - a) \in Int /\ b - a >= 0 /\ (b - a) * c = b * c - a * c
  OBVIOUS
<1>2. c >= 0 => (b - a) * c >= 0
  BY <1>1
<1>3. c <= 0 => (b - a) * c <= 0
  BY <1>1
<1> QED
  BY <1>1, <1>2, <1>3

LEMMA MulType ==
  ASSUME NEW z \in Z, NEW w \in Z
  PROVE  MulZ(z, w) \in Z
<1>1. /\ \A k \in Int : Fin(k) \in Z
      /\ z.n * w.n \in Int
      /\ \A s \in {-1, 0, 1} : [inf |-> s, n |-> 0] \in Z
  BY DEF Fin, Z
<1>2. Sign(z) \in {-1, 0, 1} /\ Sign(w) \in {-1, 0, 1}
  BY DEF Sign, Z
<1>3. Sign(z) * Sign(w) \in {-1, 0, 1}
  BY <1>2
<1> QED
  BY <1>1, <1>3 DEF MulZ

(* A bound of x times y bounds x times y, from the side that the sign of y *)
(* decides.                                                                *)
LEMMA MulBoundLeft ==
  ASSUME NEW z \in Z, NEW x \in Int, NEW y \in Int
  PROVE  /\ Cmp(z, Fin(x)) <= 0 /\ y >= 0 => Cmp(MulZ(z, Fin(y)), Fin(x * y)) <= 0
         /\ Cmp(z, Fin(x)) <= 0 /\ y <= 0 => Cmp(Fin(x * y), MulZ(z, Fin(y))) <= 0
         /\ Cmp(Fin(x), z) <= 0 /\ y >= 0 => Cmp(Fin(x * y), MulZ(z, Fin(y))) <= 0
         /\ Cmp(Fin(x), z) <= 0 /\ y <= 0 => Cmp(MulZ(z, Fin(y)), Fin(x * y)) <= 0
<1>1. x * y \in Int /\ (y = 0 => x * y = 0)
  OBVIOUS
<1>2. CASE z.inf = 0
  <2>1. z = Fin(z.n) /\ z.n \in Int /\ z.n * y \in Int
    BY <1>2 DEF Z, Fin
  <2>2. MulZ(z, Fin(y)) = Fin(z.n * y)
    BY <2>1 DEF MulZ, Fin, Infinite
  <2>3. /\ Cmp(z, Fin(x)) <= 0 => z.n <= x
        /\ Cmp(Fin(x), z) <= 0 => x <= z.n
    BY <1>2, CmpFin
  <2>4. /\ z.n <= x /\ y >= 0 => z.n * y <= x * y
        /\ z.n <= x /\ y <= 0 => x * y <= z.n * y
        /\ x <= z.n /\ y >= 0 => x * y <= z.n * y
        /\ x <= z.n /\ y <= 0 => z.n * y <= x * y
    BY <2>1, ProductMonotone
  <2>5. \A p, q \in Int : p <= q => Cmp(Fin(p), Fin(q)) <= 0
    BY DEF Cmp, Fin
  <2> QED
    BY <1>1, <2>1, <2>2, <2>3, <2>4, <2>5
<1>3. CASE z.inf # 0
  <2>1. /\ y = 0 => MulZ(z, Fin(y)) = Fin(0)
        /\ y > 0 => MulZ(z, Fin(y)) = [inf |-> z.inf, n |-> 0]
        /\ y < 0 => MulZ(z, Fin(y)) = [inf |-> - z.inf, n |-> 0]
    BY <1>3 DEF MulZ, Fin, Infinite, Sign, Z
  <2>2. /\ Cmp(z, Fin(x)) <= 0 => z.inf = -1
        /\ Cmp(Fin(x), z) <= 0 => z.inf = 1
    BY <1>3, CmpFin
  <2> QED
    BY <1>1, <2>1, <2>2 DEF Cmp, Fin
<1> QED
  BY <1>2, <1>3

(* A bound of y times a number z, from the side that the sign of z         *)
(* decides.                                                                *)
LEMMA MulBoundRight ==
  ASSUME NEW z \in Z, NEW w \in Z, NEW y \in Int
  PROVE  /\ Cmp(w, Fin(y)) <= 0 /\ Sign(z) >= 0 => Cmp(MulZ(z, w), MulZ(z, Fin(y))) <= 0
         /\ Cmp(w, Fin(y)) <= 0 /\ Sign(z) <= 0 => Cmp(MulZ(z, Fin(y)), MulZ(z, w)) <= 0
         /\ Cmp(Fin(y), w) <= 0 /\ Sign(z) >= 0 => Cmp(MulZ(z, Fin(y)), MulZ(z, w)) <= 0
         /\ Cmp(Fin(y), w) <= 0 /\ Sign(z) <= 0 => Cmp(MulZ(z, w), MulZ(z, Fin(y))) <= 0
<1>1. CASE z.inf = 0
  <2>1. z = Fin(z.n) /\ z.n \in Int /\ (Sign(z) >= 0 <=> z.n >= 0) /\ (Sign(z) <= 0 <=> z.n <= 0)
    BY <1>1 DEF Z, Fin, Sign
  <2>2. MulZ(z, w) = MulZ(w, z) /\ MulZ(z, Fin(y)) = Fin(y * z.n)
    BY <1>1, <2>1 DEF MulZ, Fin, Infinite, Sign, Z
  <2> QED
    BY <2>1, <2>2, MulBoundLeft
<1>2. CASE z.inf # 0
  BY <1>2 DEF MulZ, Fin, Infinite, Sign, Z, Cmp
<1> QED
  BY <1>1, <1>2

(* IntInterval.Mul: the product of two intervals includes the product of   *)
(* any two of their members, whatever the signs and infinities of the      *)
(* bounds.                                                                 *)
THEOREM MulIsSound ==
  ASSUME NEW i1 \in IntInterval, NEW i2 \in IntInterval, NEW x \in Int, NEW y \in Int,
         Includes(i1, x), Includes(i2, y)
  PROVE  Includes(Mul(i1, i2), x * y)
<1> DEFINE l1 == i1.lower  u1 == i1.upper  l2 == i2.lower  u2 == i2.upper
           a == MulZ(l1, l2)  b == MulZ(l1, u2)  c == MulZ(u1, l2)  d == MulZ(u1, u2)
           m == MinZ4(a, b, c, d)  M == MaxZ4(a, b, c, d)
           ly == MulZ(l1, Fin(y))  uy == MulZ(u1, Fin(y))  xy == Fin(x * y)
<1>1. /\ l1 \in Z /\ u1 \in Z /\ l2 \in Z /\ u2 \in Z
      /\ Cmp(l1, Fin(x)) <= 0 /\ Cmp(Fin(x), u1) <= 0
      /\ Cmp(l2, Fin(y)) <= 0 /\ Cmp(Fin(y), u2) <= 0
      /\ ~Empty(i1) /\ ~Empty(i2)
  BY IncludesIsNotEmpty
<1>2. x * y \in Int /\ Fin(y) \in Z /\ xy \in Z
  BY DEF Fin, Z
<1>3. /\ a \in Z /\ b \in Z /\ c \in Z /\ d \in Z /\ ly \in Z /\ uy \in Z
      /\ Sign(l1) \in Int /\ Sign(u1) \in Int
  BY <1>1, <1>2, MulType DEF Sign, Z
<1>4. /\ m \in Z /\ M \in Z
      /\ Cmp(m, a) <= 0 /\ Cmp(m, b) <= 0 /\ Cmp(m, c) <= 0 /\ Cmp(m, d) <= 0
      /\ Cmp(a, M) <= 0 /\ Cmp(b, M) <= 0 /\ Cmp(c, M) <= 0 /\ Cmp(d, M) <= 0
  BY <1>3, MinMax4
<1>5. \/ Cmp(ly, xy) <= 0 /\ Cmp(xy, uy) <= 0
      \/ Cmp(uy, xy) <= 0 /\ Cmp(xy, ly) <= 0
  BY <1>1, MulBoundLeft
<1>6. \/ Cmp(a, ly) <= 0 /\ Cmp(ly, b) <= 0
      \/ Cmp(b, ly) <= 0 /\ Cmp(ly, a) <= 0
  BY <1>1, <1>3, MulBoundRight
<1>7. \/ Cmp(c, uy) <= 0 /\ Cmp(uy, d) <= 0
      \/ Cmp(d, uy) <= 0 /\ Cmp(uy, c) <= 0
  BY <1>1, <1>3, MulBoundRight
<1>8. Mul(i1, i2) = NewIntInterval(m, M)
  BY <1>1 DEF Mul
<1> HIDE DEF a, b, c, d, m, M, ly, uy, xy
<1>9. Cmp(m, ly) <= 0 /\ Cmp(ly, M) <= 0 /\ Cmp(m, uy) <= 0 /\ Cmp(uy, M) <= 0
  BY <1>3, <1>4, <1>6, <1>7, CmpTrans
<1>10. Cmp(m, xy) <= 0 /\ Cmp(xy, M) <= 0
  BY <1>2, <1>3, <1>4, <1>5, <1>9, CmpTrans
<1> QED
  BY <1>2, <1>4, <1>8, <1>10, NewIncludes DEF xy

-----------------------------------------------------------------------------
(* Induction over a set of numbers.                                        *)
LEMMA SetInduction ==
  ASSUME NEW S, 0 \in S, \A n \in Nat : n \in S => n + 1 \in S
  PROVE  \A n \in Nat : n \in S
<1> DEFINE R == {x \in Nat \X Nat : x[1] < x[2]}
           T == Nat \ S
<1>1. IsWellFoundedOn(R, Nat)
  BY NatLessThanWellFounded DEF OpToRel
<1>2. \A i, j \in Nat : i < j => <<i, j>> \in R
  OBVIOUS
<1> SUFFICES ASSUME T # {}
             PROVE  FALSE
  OBVIOUS
<1>3. T \subseteq Nat
  OBVIOUS
<1>4. PICK x \in T : \A y \in T : ~(<<y, x>> \in R)
  <2> HIDE DEF T, R
  <2>. QED  BY <1>1, <1>3, WFMin
<1>5. x # 0 /\ x - 1 \in Nat /\ x - 1 < x /\ (x - 1) + 1 = x
  OBVIOUS
<1>6. x - 1 \in T
  BY <1>5
<1>. QED  BY <1>2, <1>4, <1>5, <1>6

(* The least element of a set of numbers.                                  *)
LEMMA FirstExists ==
  ASSUME NEW T \in SUBSET Nat, T # {}
  PROVE  \E i \in T : \A j \in T : i <= j
<1>1. PICK i \in T : \A j \in T : ~(<<j, i>> \in OpToRel(<, Nat))
  BY NatLessThanWellFounded, WFMin
<1>2. ASSUME NEW j \in T
      PROVE  i <= j
  <2>1. ~(<<j, i>> \in OpToRel(<, Nat)) /\ i \in Nat /\ j \in Nat
    BY <1>1
  <2>. QED  BY <2>1 DEF OpToRel
<1>. QED  BY <1>2

(* Finitely many Zs have a least one.                                      *)
LEMMA LeastOfSequence ==
  ASSUME NEW n \in Nat, NEW f \in [1..n -> Z]
  PROVE  n > 0 => \E i \in 1..n : \A j \in 1..n : Cmp(f[i], f[j]) <= 0
<1> DEFINE S == {k \in Nat : k > 0 /\ k <= n => \E i \in 1..k : \A j \in 1..k : Cmp(f[i], f[j]) <= 0}
<1>1. 0 \in S
  OBVIOUS
<1>2. ASSUME NEW k \in Nat, k \in S
      PROVE  k + 1 \in S
  <2>1. CASE k + 1 <= n /\ k > 0
    <3>1. PICK i \in 1..k : \A j \in 1..k : Cmp(f[i], f[j]) <= 0
      BY <1>2, <2>1
    <3>2. f[i] \in Z /\ f[k + 1] \in Z /\ \A j \in 1..k : f[j] \in Z
      BY <2>1
    <3>3. CASE Cmp(f[i], f[k + 1]) <= 0
      <4>1. \A j \in 1..(k + 1) : Cmp(f[i], f[j]) <= 0
        BY <3>1, <3>3
      <4>. QED  BY <4>1
    <3>4. CASE ~(Cmp(f[i], f[k + 1]) <= 0)
      <4>1. Cmp(f[k + 1], f[i]) <= 0 /\ Cmp(f[k + 1], f[k + 1]) <= 0
        BY <3>2, <3>4, CmpTotal
      <4>2. \A j \in 1..k : Cmp(f[k + 1], f[j]) <= 0
        BY <3>1, <3>2, <4>1, CmpTrans
      <4>3. k + 1 \in 1..(k + 1) /\ \A j \in 1..(k + 1) : Cmp(f[k + 1], f[j]) <= 0
        BY <4>1, <4>2
      <4>. QED  BY <4>3
    <3>. QED  BY <3>3, <3>4
  <2>2. CASE k + 1 <= n /\ k = 0
    <3>1. f[1] \in Z
      BY <2>2
    <3>2. Cmp(f[1], f[1]) <= 0
      BY <3>1, CmpTotal
    <3>3. \A j \in 1..(k + 1) : j = 1
      BY <2>2
    <3>. QED  BY <2>2, <3>2, <3>3
  <2>3. CASE ~(k + 1 <= n)
    BY <2>3
  <2>. QED  BY <2>1, <2>2, <2>3
<1> HIDE DEF S
<1>3. \A k \in Nat : k \in S
  BY <1>1, <1>2, SetInduction
<1>4. n \in S /\ n <= n
  BY <1>3
<1>. QED  BY <1>4 DEF S

LEMMA FirstFact ==
  ASSUME NEW T \in SUBSET Z, IsFiniteSet(T), T # {}
  PROVE  First(T) \in T /\ \A d \in T : Cmp(First(T), d) <= 0
<1>1. PICK n \in Nat : ExistsSurjection(1..n, T)
  BY FS_NatSurjection
<1>2. PICK f \in [1..n -> T] : \A t \in T : \E i \in 1..n : f[i] = t
  BY <1>1 DEF ExistsSurjection, Surjection
<1>3. n > 0 /\ f \in [1..n -> Z]
  BY <1>2
<1>4. PICK i \in 1..n : \A j \in 1..n : Cmp(f[i], f[j]) <= 0
  BY <1>3, LeastOfSequence
<1>5. f[i] \in T /\ \A d \in T : Cmp(f[i], d) <= 0
  BY <1>2, <1>4
<1>. QED  BY <1>5 DEF First

(* widen picks bounds on the right side of what it has to include.         *)
LEMMA ConstsBound ==
  ASSUME NEW cs \in SUBSET Z, IsFiniteSet(cs), NEW z \in Z
  PROVE  /\ LowerConst(cs, z) \in Z /\ Cmp(LowerConst(cs, z), z) <= 0
         /\ UpperConst(cs, z) \in Z /\ Cmp(z, UpperConst(cs, z)) <= 0
<1> DEFINE below == {c \in cs : Cmp(c, z) <= 0}
           above == {c \in cs : Cmp(c, z) >= 0}
<1>1. /\ below \in SUBSET Z /\ IsFiniteSet(below)
      /\ above \in SUBSET Z /\ IsFiniteSet(above)
  BY FS_Subset
<1>2. \A c \in below : Cmp(c, z) <= 0
  OBVIOUS
<1>3. \A c \in above : Cmp(z, c) <= 0
  BY CmpTotal
<1>4. NInfinity \in Z /\ Cmp(NInfinity, z) <= 0 /\ PInfinity \in Z /\ Cmp(z, PInfinity) <= 0
  BY DEF PInfinity, NInfinity, Z, Cmp
<1>5. /\ LowerConst(cs, z) = IF below = {} THEN NInfinity ELSE First(below)
      /\ UpperConst(cs, z) = IF above = {} THEN PInfinity ELSE First(above)
  BY DEF LowerConst, UpperConst
<1> HIDE DEF below, above
<1>6. /\ below # {} => First(below) \in below
      /\ above # {} => First(above) \in above
  BY <1>1, FirstFact
<1>. QED  BY <1>1, <1>2, <1>3, <1>4, <1>5, <1>6

(* widenIntInterval: the widened interval includes what the old range and  *)
(* what the new one include, for any constants to jump to.                 *)
THEOREM WidenIsSound ==
  ASSUME NEW cs \in SUBSET Z, IsFiniteSet(cs), NEW oi \in IntInterval, NEW ni \in IntInterval, NEW x \in Int,
         Includes(oi, x) \/ Includes(ni, x)
  PROVE  Includes(WidenInterval(cs, oi, ni), x)
<1> DEFINE lc == LowerConst(cs, ni.lower)  uc == UpperConst(cs, ni.upper)
           l == IF Cmp(ni.lower, oi.lower) = -1 THEN lc ELSE oi.lower
           u == IF Cmp(ni.upper, oi.upper) = 1 THEN uc ELSE oi.upper
<1>1. /\ oi.lower \in Z /\ oi.upper \in Z /\ ni.lower \in Z /\ ni.upper \in Z
      /\ Fin(x) \in Z
  BY DEF IntInterval, Fin, Z
<1>2. /\ lc \in Z /\ Cmp(lc, ni.lower) <= 0
      /\ uc \in Z /\ Cmp(ni.upper, uc) <= 0
  BY <1>1, ConstsBound
<1>3. /\ l \in Z /\ Cmp(l, ni.lower) <= 0 /\ Cmp(l, oi.lower) <= 0
      /\ u \in Z /\ Cmp(ni.upper, u) <= 0 /\ Cmp(oi.upper, u) <= 0
  <2>1. /\ Cmp(oi.lower, ni.lower) = -Cmp(ni.lower, oi.lower)
        /\ Cmp(oi.upper, ni.upper) = -Cmp(ni.upper, oi.upper)
        /\ Cmp(ni.lower, oi.lower) \in {-1, 0, 1} /\ Cmp(ni.upper, oi.upper) \in {-1, 0, 1}
        /\ Cmp(oi.lower, oi.lower) = 0 /\ Cmp(oi.upper, oi.upper) = 0
    BY <1>1, CmpTotal
  <2> HIDE DEF lc, uc
  <2>2. l \in Z /\ Cmp(l, ni.lower) <= 0 /\ Cmp(l, oi.lower) <= 0
    <3>1. CASE Cmp(ni.lower, oi.lower) = -1
      <4>1. Cmp(lc, oi.lower) <= 0
        BY <1>1, <1>2, <3>1, CmpTrans
      <4> QED
        BY <1>2, <3>1, <4>1
    <3>2. CASE Cmp(ni.lower, oi.lower) # -1
      BY <1>1, <2>1, <3>2
    <3> QED
      BY <3>1, <3>2
  <2>3. u \in Z /\ Cmp(ni.upper, u) <= 0 /\ Cmp(oi.upper, u) <= 0
    <3>1. CASE Cmp(ni.upper, oi.upper) = 1
      <4>1. Cmp(oi.upper, ni.upper) <= 0
        BY <2>1, <3>1
      <4>2. Cmp(oi.upper, uc) <= 0
        BY <1>1, <1>2, <4>1, CmpTrans
      <4> QED
        BY <1>2, <3>1, <4>2
    <3>2. CASE Cmp(ni.upper, oi.upper) # 1
      BY <1>1, <2>1, <3>2
    <3> QED
      BY <3>1, <3>2
  <2> QED
    BY <2>2, <2>3
<1>4. \/ Cmp(oi.lower, Fin(x)) <= 0 /\ Cmp(Fin(x), oi.upper) <= 0
      \/ Cmp(ni.lower, Fin(x)) <= 0 /\ Cmp(Fin(x), ni.upper) <= 0
  BY DEF Includes
<1> HIDE DEF l, u
<1>5. Cmp(l, Fin(x)) <= 0 /\ Cmp(Fin(x), u) <= 0
  BY <1>1, <1>3, <1>4, CmpTrans
<1>6. Includes(NewIntInterval(l, u), x)
  BY <1>3, <1>5, NewIncludes
<1>7. CASE ~ni.known \/ ~oi.known
  BY <1>7 DEF WidenInterval, Includes
<1>8. CASE ni.known /\ oi.known /\ (Cmp(ni.lower, oi.lower) = -1 \/ Cmp(ni.upper, oi.upper) = 1)
  BY <1>6, <1>8 DEF WidenInterval, l, u
<1>9. CASE /\ ni.known /\ oi.known
           /\ Cmp(ni.lower, oi.lower) # -1 /\ Cmp(ni.upper, oi.upper) # 1
  <2>1. WidenInterval(cs, oi, ni) = oi
    BY <1>9 DEF WidenInterval
  <2>2. l = oi.lower /\ u = oi.upper
    BY <1>9 DEF l, u
  <2> QED
    BY <1>5, <1>9, <2>1, <2>2 DEF Includes
<1> QED
  BY <1>7, <1>8, <1>9

(* narrowIntInterval: narrowing loses nothing that both the old range and  *)
(* the new one include.                                                    *)
THEOREM NarrowIsSound ==
  ASSUME NEW oi \in IntInterval, NEW ni \in IntInterval, NEW x \in Int,
         Includes(oi, x), Includes(ni, x)
  PROVE  Includes(NarrowInterval(oi, ni), x)
<1>1. /\ oi.lower \in Z /\ oi.upper \in Z /\ ni.lower \in Z /\ ni.upper \in Z
      /\ Cmp(oi.lower, Fin(x)) <= 0 /\ Cmp(Fin(x), oi.upper) <= 0
      /\ Cmp(ni.lower, Fin(x)) <= 0 /\ Cmp(Fin(x), ni.upper) <= 0
  BY IncludesIsNotEmpty
<1>2. Includes(NewIntInterval(ni.lower, oi.upper), x) /\ Includes(NewIntInterval(oi.lower, ni.upper), x)
  BY <1>1, NewIncludes
<1> QED
  BY <1>2 DEF NarrowInterval

-----------------------------------------------------------------------------
(* What the operations return is an interval.                              *)
LEMMA NewType ==
  ASSUME NEW l \in Z, NEW u \in Z
  PROVE  NewIntInterval(l, u) \in IntInterval /\ NewIntInterval(l, u).known
BY DEF NewIntInterval, IntInterval, EmptyIntInterval, PInfinity, NInfinity, Z

LEMMA FinType == ASSUME NEW k \in Int PROVE Fin(k) \in Z
BY DEF Fin, Z

LEMMA ZTypes == PInfinity \in Z /\ NInfinity \in Z
BY DEF PInfinity, NInfinity, Z

LEMMA ConstantTypes ==
  /\ EmptyIntInterval \in IntInterval /\ EmptyIntInterval.known
  /\ Unknown \in IntInterval /\ ~Unknown.known
  /\ \A k \in Int : Just(k) \in IntInterval /\ Just(k).known
  /\ AtLeastZero \in IntInterval /\ AtLeastZero.known
  /\ \A k \in Int : NewIntInterval(Fin(k), PInfinity) \in IntInterval
  /\ \A t : InfinityFor(t) \in IntInterval /\ InfinityFor(t).known
<1>1. /\ EmptyIntInterval \in IntInterval /\ EmptyIntInterval.known
      /\ Unknown \in IntInterval /\ ~Unknown.known
  BY DEF EmptyIntInterval, Unknown, IntInterval, PInfinity, NInfinity, Fin, Z
<1>2. \A k \in Int : Just(k) \in IntInterval /\ Just(k).known
  BY NewType, FinType DEF Just
<1>3. 0 \in Int
  OBVIOUS
<1>4. AtLeastZero \in IntInterval /\ AtLeastZero.known
  BY <1>3, NewType, FinType, ZTypes DEF AtLeastZero
<1>5. \A k \in Int : NewIntInterval(Fin(k), PInfinity) \in IntInterval
  BY NewType, FinType, ZTypes
<1>6. \A t : InfinityFor(t) \in IntInterval /\ InfinityFor(t).known
  BY <1>4, NewType, ZTypes DEF InfinityFor
<1>. QED  BY <1>1, <1>2, <1>4, <1>5, <1>6

LEMMA OperationTypes ==
  ASSUME NEW i1 \in IntInterval, NEW i2 \in IntInterval
  PROVE  /\ Add(i1, i2) \in IntInterval /\ Add(i1, i2).known
         /\ Sub(i1, i2) \in IntInterval /\ Sub(i1, i2).known
         /\ Mul(i1, i2) \in IntInterval /\ Mul(i1, i2).known
         /\ Union(i1, i2) \in IntInterval /\ (i2.known => Union(i1, i2).known)
<1>1. i1.lower \in Z /\ i1.upper \in Z /\ i2.lower \in Z /\ i2.upper \in Z
  BY DEF IntInterval
<1>2. \A y, z \in Z : AddZ(y, z) \in Z /\ SubZ(y, z) \in Z
  <2>1. 0 \in Int
    OBVIOUS
  <2>. QED  BY <2>1, AddBounds, SubBounds
<1>3. EmptyIntInterval \in IntInterval /\ EmptyIntInterval.known
  BY ConstantTypes
<1>4. Add(i1, i2) \in IntInterval /\ Add(i1, i2).known
  BY <1>1, <1>2, <1>3, NewType DEF Add
<1>5. Sub(i1, i2) \in IntInterval /\ Sub(i1, i2).known
  BY <1>1, <1>2, <1>3, NewType DEF Sub
<1>6. Mul(i1, i2) \in IntInterval /\ Mul(i1, i2).known
  <2> DEFINE a == MulZ(i1.lower, i2.lower)
             b == MulZ(i1.lower, i2.upper)
             c == MulZ(i1.upper, i2.lower)
             d == MulZ(i1.upper, i2.upper)
  <2>1. a \in Z /\ b \in Z /\ c \in Z /\ d \in Z
    BY <1>1, MulType
  <2>2. Mul(i1, i2) = IF Empty(i1) \/ Empty(i2) THEN EmptyIntInterval
                      ELSE NewIntInterval(MinZ4(a, b, c, d), MaxZ4(a, b, c, d))
    BY DEF Mul
  <2> HIDE DEF a, b, c, d
  <2>3. MinZ4(a, b, c, d) \in Z /\ MaxZ4(a, b, c, d) \in Z
    BY <2>1, MinMax4
  <2>. QED  BY <1>3, <2>2, <2>3, NewType
<1>7. Union(i1, i2) \in IntInterval /\ (i2.known => Union(i1, i2).known)
  <2>1. MinZ(i1.lower, i2.lower) \in Z /\ MaxZ(i1.upper, i2.upper) \in Z
    BY <1>1, MinMax
  <2>. QED  BY <2>1, NewType DEF Union
<1>. QED  BY <1>4, <1>5, <1>6, <1>7

LEMMA AtZeroFact ==
  ASSUME NEW z \in Z, NEW x \in Int, 0 <= x
  PROVE  /\ AtZero(z) \in Z
         /\ Cmp(z, Fin(x)) <= 0 => Cmp(AtZero(z), Fin(x)) <= 0
         /\ Cmp(Fin(x), z) <= 0 => Cmp(Fin(x), AtZero(z)) <= 0
BY DEF AtZero, Sign, Cmp, Fin, Z

(* The length of a slice expression.                                       *)
LEMMA SliceIsSound ==
  ASSUME NEW lr \in IntInterval, NEW ur \in IntInterval
  PROVE  /\ Slice(lr, ur) \in IntInterval
         /\ Slice(lr, ur).known <=> lr.known /\ ur.known
         /\ \A lo, hi \in Int : /\ Includes(lr, lo) /\ Includes(ur, hi) /\ lo <= hi
                                => Includes(Slice(lr, ur), hi - lo)
<1> DEFINE a == AtZero(SubZ(ur.lower, lr.lower))
           b == AtZero(SubZ(ur.upper, lr.lower))
           c == AtZero(SubZ(ur.lower, lr.upper))
           d == AtZero(SubZ(ur.upper, lr.upper))
           m == MinZ4(a, b, c, d)
           n == MaxZ4(a, b, c, d)
<1>1. ur.lower \in Z /\ ur.upper \in Z /\ lr.lower \in Z /\ lr.upper \in Z
  BY DEF IntInterval
<1>2. \A y, z \in Z : SubZ(y, z) \in Z
  <2>1. 0 \in Int
    OBVIOUS
  <2>. QED  BY <2>1, SubBounds
<1>3. \A z \in Z : AtZero(z) \in Z
  <2>1. 0 \in Int /\ 0 <= 0
    OBVIOUS
  <2>. QED  BY <2>1, AtZeroFact
<1>4. a \in Z /\ b \in Z /\ c \in Z /\ d \in Z
  BY <1>1, <1>2, <1>3
<1>5. Slice(lr, ur) = IF lr.known /\ ur.known THEN NewIntInterval(m, n) ELSE Unknown
  BY DEF Slice
<1>6. ASSUME NEW lo \in Int, NEW hi \in Int, Includes(lr, lo), Includes(ur, hi), lo <= hi
      PROVE  Cmp(c, Fin(hi - lo)) <= 0 /\ Cmp(Fin(hi - lo), b) <= 0
  <2>1. hi - lo \in Int /\ 0 <= hi - lo
    BY <1>6
  <2>2. /\ Cmp(SubZ(ur.lower, lr.upper), Fin(hi - lo)) <= 0
        /\ Cmp(Fin(hi - lo), SubZ(ur.upper, lr.lower)) <= 0
    BY <1>1, <1>6, SubBounds DEF Includes
  <2>. QED  BY <1>1, <1>2, <2>1, <2>2, AtZeroFact
<1> HIDE DEF a, b, c, d
<1>7. m \in Z /\ n \in Z /\ Cmp(m, c) <= 0 /\ Cmp(b, n) <= 0
  BY <1>4, MinMax4
<1> HIDE DEF m, n
<1>8. NewIntInterval(m, n) \in IntInterval /\ NewIntInterval(m, n).known
  BY <1>7, NewType
<1>9. ASSUME NEW lo \in Int, NEW hi \in Int, Includes(lr, lo), Includes(ur, hi), lo <= hi
      PROVE  Includes(Slice(lr, ur), hi - lo)
  <2>1. hi - lo \in Int /\ Fin(hi - lo) \in Z
    BY FinType
  <2>2. Cmp(c, Fin(hi - lo)) <= 0 /\ Cmp(Fin(hi - lo), b) <= 0
    BY <1>6, <1>9
  <2>3. Cmp(m, Fin(hi - lo)) <= 0 /\ Cmp(Fin(hi - lo), n) <= 0
    BY <1>4, <1>7, <2>1, <2>2, CmpTrans
  <2>4. Includes(NewIntInterval(m, n), hi - lo)
    BY <1>7, <2>1, <2>3, NewIncludes
  <2>. QED  BY <1>5, <1>9, <2>4 DEF Includes
<1>. QED  BY <1>5, <1>8, <1>9, ConstantTypes

(* The size of what is made is not negative.                               *)
LEMMA MakeIsSound ==
  ASSUME NEW i \in IntInterval
  PROVE  /\ Make(i) \in IntInterval /\ Make(i).known = i.known
         /\ \A x \in Int : Includes(i, x) /\ 0 <= x => Includes(Make(i), x)
<1>1. Make(i) \in IntInterval /\ Make(i).known = i.known
  <2>1. Fin(0) \in Z
    BY FinType
  <2>. QED  BY <2>1 DEF Make, IntInterval
<1>2. ASSUME NEW x \in Int, Includes(i, x), 0 <= x
      PROVE  Includes(Make(i), x)
  <2>1. CASE Sign(i.lower) = -1
    <3>1. Make(i).lower = Fin(0) /\ Make(i).upper = i.upper /\ Make(i).known = i.known
      BY <2>1 DEF Make, IntInterval
    <3>2. Cmp(Fin(0), Fin(x)) <= 0
      BY <1>2 DEF Cmp, Fin
    <3>. QED  BY <1>2, <3>1, <3>2 DEF Includes
  <2>2. CASE Sign(i.lower) # -1
    BY <1>2, <2>2 DEF Make
  <2>. QED  BY <2>1, <2>2
<1>. QED  BY <1>1, <1>2

(* What fits a type.                                                       *)
LEMMA FitsFact ==
  ASSUME NEW t \in IntTypes \cup {"seq", "chan"}, NEW x, Fits(t, x)
  PROVE  /\ x \in Int
         /\ Unsigned(t) \/ t \notin IntTypes => 0 <= x
         /\ t \in IntTypes /\ Bits(t) < IntBits => x <= 2 ^ Bits(t) - 1
<1>1. /\ IntBits \in Nat /\ SmallBits \in Nat /\ SmallBits < IntBits
      /\ 2 ^ (SmallBits - 1) <= 2 ^ SmallBits
      /\ SmallBits - 1 \in Nat /\ IntBits - 1 \in Nat
  BY BitsAssumption
<1>2. /\ 2 ^ IntBits \in Int /\ 2 ^ SmallBits \in Int
      /\ 2 ^ (IntBits - 1) \in Int /\ 2 ^ (SmallBits - 1) \in Int
  BY <1>1
<1>3. CASE t = "int"
  BY <1>1, <1>2, <1>3 DEF Fits, IntTypes, Unsigned, Bits, MinOf, MaxOf
<1>4. CASE t = "uint"
  BY <1>1, <1>2, <1>4 DEF Fits, IntTypes, Unsigned, Bits, MinOf, MaxOf
<1>5. CASE t = "small"
  BY <1>1, <1>2, <1>5 DEF Fits, IntTypes, Unsigned, Bits, MinOf, MaxOf
<1>6. CASE t = "usmall"
  BY <1>1, <1>2, <1>6 DEF Fits, IntTypes, Unsigned, Bits, MinOf, MaxOf
<1>7. CASE t \in {"seq", "chan"}
  BY <1>1, <1>2, <1>7 DEF Fits, IntTypes, Unsigned, Bits, MinOf, MaxOf
<1>. QED  BY <1>3, <1>4, <1>5, <1>6, <1>7 DEF IntTypes

(* The ranges of Solve for what it does not know hold for the type.        *)
LEMMA InfinityFits ==
  ASSUME NEW t \in IntTypes \cup {"seq", "chan"}, NEW x, Fits(t, x)
  PROVE  /\ t \in IntTypes => Includes(InfinityFor(t), x)
         /\ t \notin IntTypes => Includes(AtLeastZero, x)
         /\ Includes(NewIntInterval(NInfinity, PInfinity), x)
<1>1. x \in Int /\ (Unsigned(t) \/ t \notin IntTypes => 0 <= x)
  BY FitsFact
<1>2. /\ Cmp(NInfinity, Fin(x)) <= 0 /\ Cmp(Fin(x), PInfinity) <= 0
      /\ 0 <= x => Cmp(Fin(0), Fin(x)) <= 0
  BY <1>1 DEF Cmp, NInfinity, PInfinity, Fin
<1>3. Fin(0) \in Z
  BY FinType
<1>4. /\ Includes(NewIntInterval(NInfinity, PInfinity), x)
      /\ 0 <= x => Includes(AtLeastZero, x)
  BY <1>1, <1>2, <1>3, ZTypes, NewIncludes DEF AtLeastZero
<1>. QED  BY <1>1, <1>4 DEF InfinityFor

(* A conversion keeps the value, as long as that fits both types.          *)
Larger(fromT, toT) == Bits(toT) > Bits(fromT)

LEMMA ConversionIsSound ==
  ASSUME NEW fromI \in IntInterval, NEW toI \in IntInterval,
         NEW fromT \in IntTypes \cup {"seq", "chan"}, NEW toT \in IntTypes \cup {"seq", "chan"}
  PROVE  /\ Conversion(fromI, toI, fromT, toT) \in IntInterval
         /\ fromI.known \/ toI.known => Conversion(fromI, toI, fromT, toT).known
         /\ \A x : /\ Fits(fromT, x) /\ Includes(fromI, x)
                   /\ ~Larger(fromT, toT) \/ ~toI.known \/ Includes(toI, x)
                   => Includes(Conversion(fromI, toI, fromT, toT), x)
<1> DEFINE n == Fin(2 ^ Bits(fromT) - 1)
           l1 == MaxZ(Fin(0), fromI.lower)
           l2 == MaxZ(NInfinity, fromI.lower)
           u == MinZ(n, toI.upper)
           c == Conversion(fromI, toI, fromT, toT)
<1>1. 2 ^ Bits(fromT) - 1 \in Int /\ Bits(toT) \in Nat /\ Bits(fromT) \in Nat
  BY BitsAssumption DEF Bits
<1>2. /\ fromI.lower \in Z /\ fromI.upper \in Z /\ toI.lower \in Z /\ toI.upper \in Z
      /\ n \in Z /\ Fin(0) \in Z /\ NInfinity \in Z
  BY <1>1, FinType, ZTypes DEF IntInterval
<1>3. /\ l1 \in Z /\ l1 \in {Fin(0), fromI.lower}
      /\ l2 \in Z /\ l2 \in {NInfinity, fromI.lower}
      /\ u \in Z /\ u \in {n, toI.upper}
  <2> HIDE DEF n
  <2>. QED  BY <1>2, MinMax
<1>4. c = IF ~fromI.known THEN toI
          ELSE IF ~toI.known THEN fromI
          ELSE IF Unsigned(fromT) /\ Larger(fromT, toT) THEN NewIntInterval(l1, u)
          ELSE IF ~Unsigned(fromT) /\ ~Unsigned(toT) /\ Larger(fromT, toT) THEN NewIntInterval(l2, u)
          ELSE fromI
  BY DEF Conversion, Larger
<1> HIDE DEF n, l1, l2, u, c
<1>5. /\ NewIntInterval(l1, u) \in IntInterval /\ NewIntInterval(l1, u).known
      /\ NewIntInterval(l2, u) \in IntInterval /\ NewIntInterval(l2, u).known
  BY <1>3, NewType
<1>6. c \in IntInterval /\ (fromI.known \/ toI.known => c.known)
  BY <1>4, <1>5
<1>7. ASSUME NEW x, Fits(fromT, x), Includes(fromI, x),
             ~Larger(fromT, toT) \/ ~toI.known \/ Includes(toI, x)
      PROVE  Includes(c, x)
  <2>1. x \in Int /\ Fin(x) \in Z
    BY <1>7, FitsFact, FinType
  <2>2. CASE ~Larger(fromT, toT) \/ ~toI.known
    BY <1>4, <1>7, <2>2 DEF Includes
  <2>3. CASE Larger(fromT, toT) /\ toI.known
    <3>1. Includes(toI, x)
      BY <1>7, <2>3
    <3>2. Bits(fromT) < IntBits /\ fromT \in IntTypes
      BY <2>3, BitsAssumption DEF Larger, Bits, IntTypes
    <3>3. x <= 2 ^ Bits(fromT) - 1 /\ (Unsigned(fromT) => 0 <= x)
      BY <1>7, <3>2, FitsFact
    <3>4. Cmp(Fin(x), n) <= 0 /\ (Unsigned(fromT) => Cmp(Fin(0), Fin(x)) <= 0)
      BY <1>1, <2>1, <3>3 DEF n, Cmp, Fin
    <3>5. Cmp(NInfinity, Fin(x)) <= 0
      BY <2>1 DEF NInfinity, Cmp, Fin
    <3>6. Cmp(Fin(x), u) <= 0 /\ Cmp(l2, Fin(x)) <= 0 /\ (Unsigned(fromT) => Cmp(l1, Fin(x)) <= 0)
      BY <1>3, <1>7, <3>1, <3>4, <3>5 DEF Includes
    <3>7. Includes(NewIntInterval(l2, u), x) /\ (Unsigned(fromT) => Includes(NewIntInterval(l1, u), x))
      BY <1>3, <2>1, <3>6, NewIncludes
    <3>. QED  BY <1>4, <1>7, <3>7 DEF Includes
  <2>. QED  BY <2>2, <2>3
<1>. QED  BY <1>6, <1>7 DEF c

-----------------------------------------------------------------------------
(* The union over the operands of a phi.                                   *)
JoinedUpTo(a, r, n, f) ==
  f = [k \in 0..n |-> IF k = 0 THEN EmptyIntInterval ELSE Union(r[a[k]], f[k - 1])]

LEMMA JoinedExists ==
  ASSUME NEW D, NEW a \in Seq(D), NEW r \in [D -> IntInterval]
  PROVE  \E f : JoinedUpTo(a, r, Len(a), f)
<1> DEFINE S == {n \in Nat : \E f : JoinedUpTo(a, r, n, f)}
<1>1. 0 \in S
  <2> DEFINE f == [k \in 0..0 |-> EmptyIntInterval]
  <2>1. f = [k \in 0..0 |-> IF k = 0 THEN EmptyIntInterval ELSE Union(r[a[k]], f[k - 1])]
    OBVIOUS
  <2> HIDE DEF f
  <2>2. JoinedUpTo(a, r, 0, f)
    BY <2>1 DEF JoinedUpTo
  <2>. QED  BY <2>2
<1>2. ASSUME NEW n \in Nat, n \in S
      PROVE  n + 1 \in S
  <2>1. PICK f : JoinedUpTo(a, r, n, f)
    BY <1>2
  <2> DEFINE g == [k \in 0..(n + 1) |-> IF k = n + 1 THEN Union(r[a[n + 1]], f[n]) ELSE f[k]]
  <2>2. ASSUME NEW k \in 0..(n + 1)
        PROVE  g[k] = IF k = 0 THEN EmptyIntInterval ELSE Union(r[a[k]], g[k - 1])
    <3>1. CASE k = n + 1
      <4>1. k # 0 /\ k - 1 = n /\ n \in 0..(n + 1) /\ n # n + 1
        BY <3>1
      <4>. QED  BY <3>1, <4>1
    <3>2. CASE k # n + 1 /\ k # 0
      <4>1. k \in 0..n /\ k - 1 \in 0..(n + 1) /\ k - 1 # n + 1
        BY <3>2
      <4>. QED  BY <2>1, <3>2, <4>1 DEF JoinedUpTo
    <3>3. CASE k = 0
      BY <2>1, <3>3 DEF JoinedUpTo
    <3>. QED  BY <3>1, <3>2, <3>3
  <2>3. g = [k \in 0..(n + 1) |-> g[k]]
    OBVIOUS
  <2> HIDE DEF g
  <2>4. JoinedUpTo(a, r, n + 1, g)
    BY <2>2, <2>3 DEF JoinedUpTo
  <2>. QED  BY <2>4
<1> HIDE DEF S
<1>3. \A n \in Nat : n \in S
  BY <1>1, <1>2, SetInduction
<1>4. Len(a) \in Nat
  OBVIOUS
<1>. QED  BY <1>3, <1>4 DEF S

LEMMA JoinedIsSound ==
  ASSUME NEW D, NEW a \in Seq(D), NEW r \in [D -> IntInterval]
  PROVE  /\ Joined(a, r) \in IntInterval /\ Joined(a, r).known
         /\ \A i \in 1..Len(a), x \in Int : Includes(r[a[i]], x) => Includes(Joined(a, r), x)
<1> DEFINE F == CHOOSE f : f = [k \in 0..Len(a) |-> IF k = 0 THEN EmptyIntInterval
                                                    ELSE Union(r[a[k]], f[k - 1])]
<1>1. Joined(a, r) = F[Len(a)]
  BY DEF Joined
<1>2. F = [k \in 0..Len(a) |-> IF k = 0 THEN EmptyIntInterval ELSE Union(r[a[k]], F[k - 1])]
  <2>1. \E f : f = [k \in 0..Len(a) |-> IF k = 0 THEN EmptyIntInterval
                                        ELSE Union(r[a[k]], f[k - 1])]
    BY JoinedExists DEF JoinedUpTo
  <2>. QED  BY <2>1, Zenon
<1> HIDE DEF F
<1> DEFINE S == {n \in Nat : n <= Len(a) =>
                   /\ F[n] \in IntInterval /\ F[n].known
                   /\ \A i \in 1..n, x \in Int : Includes(r[a[i]], x) => Includes(F[n], x)}
<1>3. 0 \in S
  <2>1. F[0] = EmptyIntInterval
    BY <1>2
  <2>. QED  BY <2>1, ConstantTypes
<1>4. ASSUME NEW n \in Nat, n \in S
      PROVE  n + 1 \in S
  <2>1. CASE n + 1 <= Len(a)
    <3>1. n + 1 \in 1..Len(a) /\ n + 1 \in 0..Len(a) /\ n + 1 # 0 /\ (n + 1) - 1 = n /\ n <= Len(a)
      BY <2>1
    <3>2. F[n + 1] = Union(r[a[n + 1]], F[n])
      BY <1>2, <3>1
    <3>3. /\ F[n] \in IntInterval /\ F[n].known
          /\ \A i \in 1..n, x \in Int : Includes(r[a[i]], x) => Includes(F[n], x)
      BY <1>4, <3>1
    <3>4. r[a[n + 1]] \in IntInterval
      BY <3>1
    <3>5. F[n + 1] \in IntInterval /\ F[n + 1].known
      BY <3>2, <3>3, <3>4, OperationTypes
    <3>6. ASSUME NEW i \in 1..(n + 1), NEW x \in Int, Includes(r[a[i]], x)
          PROVE  Includes(F[n + 1], x)
      <4>1. Includes(r[a[n + 1]], x) \/ Includes(F[n], x)
        BY <3>3, <3>6
      <4>. QED  BY <3>2, <3>3, <3>4, <4>1, UnionIsSound
    <3>. QED  BY <3>5, <3>6
  <2>2. CASE ~(n + 1 <= Len(a))
    BY <2>2
  <2>. QED  BY <2>1, <2>2
<1> HIDE DEF S
<1>5. \A n \in Nat : n \in S
  BY <1>3, <1>4, SetInduction
<1>6. Len(a) \in S /\ Len(a) <= Len(a)
  BY <1>5
<1>. QED  BY <1>1, <1>6 DEF S

-----------------------------------------------------------------------------
(* The shape of a function.                                                *)
AllTypes == IntTypes \cup {"seq", "chan"}

LEMMA ProgramShape ==
  ASSUME prog \in Programs
  PROVE  /\ Len(prog.ins) \in Nat /\ Values = 1..Len(prog.ins) /\ IsFiniteSet(Values)
         /\ prog.entry \in Nat /\ prog.heads \in Nat /\ prog.entry + prog.heads <= Len(prog.ins)
         /\ \A v \in Values : /\ Op(v) \in {"param", "const", "call", "len", "copy", "make", "convert",
                                            "add", "sub", "mul", "append", "slice", "arrayslice", "phi"}
                              /\ Type(v) \in AllTypes
                              /\ Args(v) \in Seq(Nat) /\ Len(Args(v)) \in Arity(Op(v))
                              /\ prog.ins[v].k \in Int
<1>1. WellFormed(prog)
  BY ProgramsAssumption
<1>2. prog.ins \in Seq(Instructions)
  BY <1>1 DEF WellFormed
<1>3. Len(prog.ins) \in Nat /\ Values = 1..Len(prog.ins)
  BY <1>2 DEF Values
<1>4. IsFiniteSet(Values)
  BY <1>3, FS_Interval
<1>5. prog.entry \in Nat /\ prog.heads \in Nat /\ prog.entry + prog.heads <= Len(prog.ins)
  BY <1>1 DEF WellFormed
<1>6. ASSUME NEW v \in Values
      PROVE  /\ Op(v) \in {"param", "const", "call", "len", "copy", "make", "convert",
                           "add", "sub", "mul", "append", "slice", "arrayslice", "phi"}
             /\ Type(v) \in AllTypes
             /\ Args(v) \in Seq(Nat) /\ prog.ins[v].k \in Int
  <2>1. prog.ins[v] \in Instructions
    BY <1>2, <1>6 DEF Values
  <2>. QED  BY <2>1 DEF Instructions, Op, Type, Args, AllTypes
<1>7. ASSUME NEW v \in Values
      PROVE  Len(Args(v)) \in Arity(Op(v))
  BY <1>1, <1>7 DEF WellFormed, Values, Args, Op
<1>. QED  BY <1>3, <1>4, <1>5, <1>6, <1>7

(* An operand is a value, which comes first unless it closes the loop.     *)
LEMMA OperandShape ==
  ASSUME prog \in Programs, NEW v \in Values
  PROVE  /\ Operands(v) \subseteq Values
         /\ \A n \in 1..Len(Args(v)) : /\ Args(v)[n] \in Nat
                                       /\ Args(v)[n] = 0 => n \in Optional(Op(v))
                                       /\ Args(v)[n] # 0 => Args(v)[n] \in Operands(v)
         /\ \A u \in Operands(v) : \E n \in 1..Len(Args(v)) : u = Args(v)[n]
         /\ v \notin Heads => \A u \in Operands(v) : u < v
         /\ v \in Heads => /\ Op(v) = "phi" /\ Len(Args(v)) = 2
                           /\ Args(v)[1] \in 1..prog.entry /\ Args(v)[2] \in Values
         /\ Op(v) = "make" => Type(v) \notin IntTypes
         /\ Op(v) = "phi" => \A u \in Operands(v) : Type(u) = Type(v)
<1>1. WellFormed(prog)
  BY ProgramsAssumption
<1>2. /\ Values = 1..Len(prog.ins) /\ Len(prog.ins) \in Nat /\ Args(v) \in Seq(Nat)
      /\ prog.entry \in Nat /\ prog.heads \in Nat /\ prog.entry + prog.heads <= Len(prog.ins)
  BY ProgramShape
<1>3. DOMAIN Args(v) = 1..Len(Args(v)) /\ Len(Args(v)) \in Nat
      /\ \A n \in 1..Len(Args(v)) : Args(v)[n] \in Nat
  BY <1>2
<1>4. /\ \A n \in DOMAIN Args(v) : Args(v)[n] = 0 => n \in Optional(Op(v))
      /\ Op(v) = "make" => Type(v) \notin IntTypes
      /\ Op(v) = "phi" => \A n \in DOMAIN Args(v) : Type(Args(v)[n]) = Type(v)
      /\ IF v \in Heads
         THEN Op(v) = "phi" /\ Len(Args(v)) = 2 /\ Args(v)[1] \in 1..prog.entry /\ Args(v)[2] \in Values
         ELSE \A n \in DOMAIN Args(v) : Args(v)[n] < v
  BY <1>1 DEF WellFormed, Values, Op, Type, Args, Heads
<1>5. Operands(v) = {u \in {Args(v)[n] : n \in 1..Len(Args(v))} : u # 0}
  BY <1>3 DEF Operands, Range
<1>6. /\ \A n \in 1..Len(Args(v)) : Args(v)[n] # 0 => Args(v)[n] \in Operands(v)
      /\ \A u \in Operands(v) : \E n \in 1..Len(Args(v)) : u = Args(v)[n] /\ u # 0
  BY <1>5
<1>7. CASE v \in Heads
  <2>1. Op(v) = "phi" /\ Len(Args(v)) = 2 /\ Args(v)[1] \in 1..prog.entry /\ Args(v)[2] \in Values
    BY <1>4, <1>7
  <2>2. Args(v)[1] \in Values
    BY <1>2, <2>1
  <2>3. \A n \in 1..Len(Args(v)) : n = 1 \/ n = 2
    BY <2>1
  <2>4. \A n \in 1..Len(Args(v)) : Args(v)[n] \in Values
    BY <2>1, <2>2, <2>3
  <2>5. Operands(v) \subseteq Values
    BY <1>6, <2>4
  <2>. QED  BY <1>3, <1>4, <1>6, <1>7, <2>1, <2>5
<1>8. CASE v \notin Heads
  <2>1. \A u \in Operands(v) : u < v /\ u \in Nat /\ u # 0
    BY <1>3, <1>4, <1>6, <1>8
  <2>2. Operands(v) \subseteq Values
    BY <1>2, <2>1
  <2>. QED  BY <1>3, <1>4, <1>6, <1>8, <2>1, <2>2
<1>. QED  BY <1>7, <1>8

(* The operands that each operation reads.                                 *)
LEMMA ArgShape ==
  ASSUME prog \in Programs, NEW v \in Values
  PROVE  /\ Op(v) \in {"param", "const", "call"} => Operands(v) = {}
         /\ Op(v) \in {"len", "copy", "make", "convert"} =>
              Args(v)[1] \in Operands(v) /\ Operands(v) = {Args(v)[1]}
         /\ Op(v) \in {"add", "sub", "mul", "append"} =>
              Args(v)[1] \in Operands(v) /\ Args(v)[2] \in Operands(v)
         /\ Op(v) = "slice" => /\ Args(v)[1] \in Operands(v)
                               /\ Args(v)[2] # 0 => Args(v)[2] \in Operands(v)
                               /\ Args(v)[3] # 0 => Args(v)[3] \in Operands(v)
         /\ Op(v) = "arrayslice" => /\ Args(v)[1] # 0 => Args(v)[1] \in Operands(v)
                                    /\ Args(v)[2] # 0 => Args(v)[2] \in Operands(v)
         /\ Op(v) = "phi" => Args(v) \in Seq(Operands(v)) /\ Operands(v) # {}
<1>1. /\ \A n \in 1..Len(Args(v)) : /\ Args(v)[n] = 0 => n \in Optional(Op(v))
                                    /\ Args(v)[n] # 0 => Args(v)[n] \in Operands(v)
      /\ \A u \in Operands(v) : \E n \in 1..Len(Args(v)) : u = Args(v)[n]
  BY OperandShape
<1>2. Len(Args(v)) \in Arity(Op(v)) /\ Args(v) \in Seq(Nat)
  BY ProgramShape
<1>3. CASE Op(v) \in {"param", "const", "call"}
  <2>1. Len(Args(v)) = 0
    BY <1>2, <1>3 DEF Arity
  <2>. QED  BY <1>1, <1>3, <2>1
<1>4. CASE Op(v) \in {"len", "copy", "make", "convert"}
  <2>1. Len(Args(v)) = 1 /\ Optional(Op(v)) = {}
    BY <1>2, <1>4 DEF Arity, Optional
  <2>. QED  BY <1>1, <1>4, <2>1
<1>5. CASE Op(v) \in {"add", "sub", "mul", "append"}
  <2>1. Len(Args(v)) = 2 /\ Optional(Op(v)) = {}
    BY <1>2, <1>5 DEF Arity, Optional
  <2>. QED  BY <1>1, <1>5, <2>1
<1>6. CASE Op(v) = "slice"
  <2>1. Len(Args(v)) = 3 /\ Optional(Op(v)) = {2, 3}
    BY <1>2, <1>6 DEF Arity, Optional
  <2>. QED  BY <1>1, <1>6, <2>1
<1>7. CASE Op(v) = "arrayslice"
  <2>1. Len(Args(v)) = 2 /\ Optional(Op(v)) = {1, 2}
    BY <1>2, <1>7 DEF Arity, Optional
  <2>. QED  BY <1>1, <1>7, <2>1
<1>8. CASE Op(v) = "phi"
  <2>1. Len(Args(v)) \in Nat \ {0} /\ Optional(Op(v)) = {}
    BY <1>2, <1>8 DEF Arity, Optional
  <2>2. \A n \in 1..Len(Args(v)) : Args(v)[n] \in Operands(v)
    BY <1>1, <2>1
  <2>3. 1 \in 1..Len(Args(v))
    BY <2>1
  <2>4. Args(v) \in Seq(Operands(v))
    BY <1>2, <2>2
  <2>. QED  BY <1>8, <2>2, <2>3, <2>4
<1>. QED  BY <1>3, <1>4, <1>5, <1>6, <1>7, <1>8, ProgramShape

-----------------------------------------------------------------------------
(* Eval and Results, one operation at a time.                              *)
LEMMA EvalUnfold ==
  ASSUME NEW v, NEW r
  PROVE  /\ Op(v) = "const" => Eval(v, r) = Just(prog.ins[v].k)
         /\ Op(v) = "call" => Eval(v, r) = NewIntInterval(Fin(prog.ins[v].k), PInfinity)
         /\ Op(v) = "phi" => Eval(v, r) = Joined(Args(v), r)
         /\ Op(v) \in {"add", "sub", "mul", "append"} =>
              Eval(v, r) = Arithmetic(Op(v), r[Args(v)[1]], r[Args(v)[2]])
         /\ Op(v) = "len" =>
              Eval(v, r) = IF r[Args(v)[1]].known THEN r[Args(v)[1]] ELSE AtLeastZero
         /\ Op(v) = "copy" => Eval(v, r) = r[Args(v)[1]]
         /\ Op(v) = "make" => Eval(v, r) = Make(r[Args(v)[1]])
         /\ Op(v) = "slice" =>
              Eval(v, r) = Slice(IF Args(v)[2] = 0 THEN Just(0) ELSE r[Args(v)[2]],
                                 IF Args(v)[3] = 0 THEN r[Args(v)[1]] ELSE r[Args(v)[3]])
         /\ Op(v) = "arrayslice" =>
              Eval(v, r) = Slice(IF Args(v)[1] = 0 THEN Just(0) ELSE r[Args(v)[1]],
                                 IF Args(v)[2] = 0 THEN Just(prog.ins[v].k) ELSE r[Args(v)[2]])
         /\ Op(v) = "convert" =>
              Eval(v, r) = Conversion(r[Args(v)[1]], r[v], Type(Args(v)[1]), Type(v))
BY DEF Eval

LEMMA ArithmeticType ==
  ASSUME NEW op \in {"add", "sub", "mul", "append"}, NEW i1 \in IntInterval, NEW i2 \in IntInterval
  PROVE  /\ Arithmetic(op, i1, i2) \in IntInterval
         /\ i1.known /\ i2.known => Arithmetic(op, i1, i2).known
         /\ \A x, y \in Int : Includes(i1, x) /\ Includes(i2, y) =>
              /\ op \in {"add", "append"} => Includes(Arithmetic(op, i1, i2), x + y)
              /\ op = "sub" => Includes(Arithmetic(op, i1, i2), x - y)
              /\ op = "mul" => Includes(Arithmetic(op, i1, i2), x * y)
<1>1. CASE ~i1.known \/ ~i2.known
  BY <1>1, ConstantTypes DEF Arithmetic, Includes
<1>2. CASE i1.known /\ i2.known
  <2>1. /\ op \in {"add", "append"} => Arithmetic(op, i1, i2) = Add(i1, i2)
        /\ op = "sub" => Arithmetic(op, i1, i2) = Sub(i1, i2)
        /\ op = "mul" => Arithmetic(op, i1, i2) = Mul(i1, i2)
    BY <1>2 DEF Arithmetic
  <2>2. Arithmetic(op, i1, i2) \in IntInterval /\ Arithmetic(op, i1, i2).known
    BY <2>1, OperationTypes
  <2>3. ASSUME NEW x \in Int, NEW y \in Int, Includes(i1, x), Includes(i2, y)
        PROVE  /\ Includes(Add(i1, i2), x + y) /\ Includes(Sub(i1, i2), x - y)
               /\ Includes(Mul(i1, i2), x * y)
    BY <2>3, AddIsSound, SubIsSound, MulIsSound
  <2>. QED  BY <2>1, <2>2, <2>3
<1>. QED  BY <1>1, <1>2

LEMMA EvalType ==
  ASSUME prog \in Programs, NEW v \in Values, HasConstraint(v), NEW r \in [Values -> IntInterval]
  PROVE  /\ Eval(v, r) \in IntInterval
         /\ Op(v) = "phi" \/ (\A u \in Operands(v) : r[u].known) => Eval(v, r).known
<1>1. \A u \in Operands(v) : u \in Values /\ r[u] \in IntInterval
  BY OperandShape
<1>2. \A u \in Values : Type(u) \in AllTypes
  BY ProgramShape
<1>3. CASE Op(v) \in {"const", "call"}
  <2>1. prog.ins[v].k \in Int
    BY ProgramShape
  <2>2. NewIntInterval(Fin(prog.ins[v].k), PInfinity).known
    BY <2>1, FinType, ZTypes, NewType
  <2>. QED  BY <1>3, <2>1, <2>2, EvalUnfold, ConstantTypes
<1>4. CASE Op(v) = "phi"
  <2>1. Args(v) \in Seq(Values)
    BY <1>1, <1>4, ArgShape
  <2>. QED  BY <1>4, <2>1, EvalUnfold, JoinedIsSound
<1>5. CASE Op(v) \in {"add", "sub", "mul", "append"}
  <2>1. Args(v)[1] \in Operands(v) /\ Args(v)[2] \in Operands(v)
    BY <1>5, ArgShape
  <2>. QED  BY <1>1, <1>5, <2>1, EvalUnfold, ArithmeticType
<1>6. CASE Op(v) \in {"len", "copy", "make", "convert"}
  <2>1. Args(v)[1] \in Operands(v) /\ Args(v)[1] \in Values /\ r[Args(v)[1]] \in IntInterval
    BY <1>1, <1>6, ArgShape
  <2>2. CASE Op(v) \in {"len", "copy"}
    BY <2>1, <2>2, EvalUnfold, ConstantTypes
  <2>3. CASE Op(v) = "make"
    BY <2>1, <2>3, EvalUnfold, MakeIsSound
  <2>4. CASE Op(v) = "convert"
    <3>1. r[v] \in IntInterval /\ Type(v) \in AllTypes /\ Type(Args(v)[1]) \in AllTypes
      BY <1>2, <2>1
    <3> DEFINE c == Conversion(r[Args(v)[1]], r[v], Type(Args(v)[1]), Type(v))
    <3>2. c \in IntInterval /\ (r[Args(v)[1]].known \/ r[v].known => c.known)
      BY <2>1, <3>1, ConversionIsSound DEF AllTypes
    <3>3. Eval(v, r) = c
      BY <2>4, EvalUnfold
    <3> HIDE DEF c
    <3>. QED  BY <2>1, <2>4, <3>2, <3>3
  <2>. QED  BY <1>6, <2>2, <2>3, <2>4
<1>7. CASE Op(v) = "slice"
  <2> DEFINE lr == IF Args(v)[2] = 0 THEN Just(0) ELSE r[Args(v)[2]]
             ur == IF Args(v)[3] = 0 THEN r[Args(v)[1]] ELSE r[Args(v)[3]]
  <2>1. /\ Args(v)[1] \in Operands(v)
        /\ Args(v)[2] # 0 => Args(v)[2] \in Operands(v)
        /\ Args(v)[3] # 0 => Args(v)[3] \in Operands(v)
    BY <1>7, ArgShape
  <2>2. Just(0) \in IntInterval /\ Just(0).known
    BY ConstantTypes
  <2>3. /\ lr \in IntInterval /\ ur \in IntInterval
        /\ (\A u \in Operands(v) : r[u].known) => lr.known /\ ur.known
    BY <1>1, <2>1, <2>2
  <2>4. Eval(v, r) = Slice(lr, ur)
    BY <1>7, EvalUnfold
  <2> HIDE DEF lr, ur
  <2>. QED  BY <1>7, <2>3, <2>4, SliceIsSound
<1>8. CASE Op(v) = "arrayslice"
  <2> DEFINE lr == IF Args(v)[1] = 0 THEN Just(0) ELSE r[Args(v)[1]]
             ur == IF Args(v)[2] = 0 THEN Just(prog.ins[v].k) ELSE r[Args(v)[2]]
  <2>1. /\ Args(v)[1] # 0 => Args(v)[1] \in Operands(v)
        /\ Args(v)[2] # 0 => Args(v)[2] \in Operands(v)
    BY <1>8, ArgShape
  <2>2. prog.ins[v].k \in Int
    BY ProgramShape
  <2>3. /\ Just(0) \in IntInterval /\ Just(0).known
        /\ Just(prog.ins[v].k) \in IntInterval /\ Just(prog.ins[v].k).known
    BY <2>2, ConstantTypes
  <2>4. /\ lr \in IntInterval /\ ur \in IntInterval
        /\ (\A u \in Operands(v) : r[u].known) => lr.known /\ ur.known
    BY <1>1, <2>1, <2>3
  <2>5. Eval(v, r) = Slice(lr, ur)
    BY <1>8, EvalUnfold
  <2> HIDE DEF lr, ur
  <2>. QED  BY <1>8, <2>4, <2>5, SliceIsSound
<1>. QED  BY <1>3, <1>4, <1>5, <1>6, <1>7, <1>8, ProgramShape DEF HasConstraint

LEMMA ResultsUnfold ==
  ASSUME NEW v, NEW e
  PROVE  /\ Op(v) = "const" => Results(v, e) = {prog.ins[v].k}
         /\ Op(v) = "param" => Results(v, e) = Inputs
         /\ Op(v) = "call" => Results(v, e) = {i \in Inputs : i >= prog.ins[v].k}
         /\ Op(v) = "phi" => Results(v, e) = {e[u] : u \in Operands(v)} \ {NotYet}
         /\ Op(v) \in {"add", "append"} => Results(v, e) = {e[Args(v)[1]] + e[Args(v)[2]]}
         /\ Op(v) = "sub" => Results(v, e) = {e[Args(v)[1]] - e[Args(v)[2]]}
         /\ Op(v) = "mul" => Results(v, e) = {e[Args(v)[1]] * e[Args(v)[2]]}
         /\ Op(v) \in {"len", "copy", "convert", "make"} => Results(v, e) = {e[Args(v)[1]]}
         /\ Op(v) = "slice" =>
              \A x \in Results(v, e) :
                \E lo, hi : /\ lo = IF Args(v)[2] = 0 THEN 0 ELSE e[Args(v)[2]]
                            /\ hi = IF Args(v)[3] = 0 THEN e[Args(v)[1]] ELSE e[Args(v)[3]]
                            /\ 0 <= lo /\ lo <= hi /\ x = hi - lo
         /\ Op(v) = "arrayslice" =>
              \A x \in Results(v, e) :
                \E lo, hi : /\ lo = IF Args(v)[1] = 0 THEN 0 ELSE e[Args(v)[1]]
                            /\ hi = IF Args(v)[2] = 0 THEN prog.ins[v].k ELSE e[Args(v)[2]]
                            /\ 0 <= lo /\ lo <= hi /\ x = hi - lo
BY DEF Results

(* Eval of the ranges includes what the operation makes of values in them. *)
(* A conversion to a larger type also reads the range of its own result.   *)
LEMMA EvalIsSound ==
  ASSUME prog \in Programs, NEW v \in Values, HasConstraint(v), NEW r \in [Values -> IntInterval],
         NEW e, NEW x \in Results(v, e), Fits(Type(v), x),
         \A u \in Operands(v) : \/ Op(v) = "phi" /\ e[u] = NotYet
                                \/ e[u] \in Int /\ Fits(Type(u), e[u]) /\ Includes(r[u], e[u]),
         Op(v) = "convert" => \/ ~Larger(Type(Args(v)[1]), Type(v))
                              \/ ~r[v].known \/ Includes(r[v], x)
  PROVE  Includes(Eval(v, r), x)
<1>1. \A u \in Operands(v) : u \in Values /\ r[u] \in IntInterval
  BY OperandShape
<1>2. Type(v) \in AllTypes /\ prog.ins[v].k \in Int /\ \A u \in Values : Type(u) \in AllTypes
  BY ProgramShape
<1>3. x \in Int
  BY <1>2, FitsFact DEF AllTypes
<1>4. CASE Op(v) = "const"
  <2>1. x = prog.ins[v].k
    BY <1>4, ResultsUnfold
  <2>2. Fin(x) \in Z /\ Cmp(Fin(x), Fin(x)) <= 0
    BY <1>3, FinType, CmpTotal
  <2>3. Includes(Just(x), x)
    BY <1>3, <2>2, NewIncludes DEF Just
  <2>. QED  BY <1>4, <2>1, <2>3, EvalUnfold
<1>5. CASE Op(v) = "call"
  <2>1. x >= prog.ins[v].k
    BY <1>5, ResultsUnfold
  <2>2. Cmp(Fin(prog.ins[v].k), Fin(x)) <= 0 /\ Cmp(Fin(x), PInfinity) <= 0
    BY <1>2, <1>3, <2>1 DEF Cmp, Fin, PInfinity
  <2>3. Fin(prog.ins[v].k) \in Z
    BY <1>2, FinType
  <2>4. Includes(NewIntInterval(Fin(prog.ins[v].k), PInfinity), x)
    BY <1>3, <2>2, <2>3, ZTypes, NewIncludes
  <2>. QED  BY <1>5, <2>4, EvalUnfold
<1>6. CASE Op(v) = "phi"
  <2>1. PICK u \in Operands(v) : x = e[u]
    BY <1>6, ResultsUnfold
  <2>2. Includes(r[u], x)
    BY <1>3, <2>1, InputsAssumption
  <2>3. PICK n \in 1..Len(Args(v)) : u = Args(v)[n]
    BY <2>1, OperandShape
  <2>4. Args(v) \in Seq(Values)
    BY <1>1, <1>6, ArgShape
  <2>5. Includes(Joined(Args(v), r), x)
    BY <1>3, <2>2, <2>3, <2>4, JoinedIsSound
  <2>. QED  BY <1>6, <2>5, EvalUnfold
<1>7. CASE Op(v) \in {"add", "sub", "mul", "append"}
  <2> DEFINE i == r[Args(v)[1]]  j == r[Args(v)[2]]
             y == e[Args(v)[1]]  z == e[Args(v)[2]]
  <2>1. Args(v)[1] \in Operands(v) /\ Args(v)[2] \in Operands(v)
    BY <1>7, ArgShape
  <2>2. i \in IntInterval /\ j \in IntInterval /\ y \in Int /\ z \in Int /\ Includes(i, y) /\ Includes(j, z)
    BY <1>1, <1>7, <2>1
  <2>3. Eval(v, r) = Arithmetic(Op(v), i, j)
    BY <1>7, EvalUnfold
  <2>4. /\ Op(v) \in {"add", "append"} => x = y + z
        /\ Op(v) = "sub" => x = y - z
        /\ Op(v) = "mul" => x = y * z
    BY <1>7, ResultsUnfold
  <2> HIDE DEF i, j, y, z
  <2>. QED  BY <1>7, <2>2, <2>3, <2>4, ArithmeticType
<1>8. CASE Op(v) \in {"len", "copy", "make", "convert"}
  <2> DEFINE u == Args(v)[1]
  <2>1. u \in Operands(v) /\ x = e[u]
    BY <1>8, ArgShape, ResultsUnfold
  <2>2. u \in Values /\ r[u] \in IntInterval /\ Fits(Type(u), x) /\ Includes(r[u], x)
    BY <1>1, <1>8, <2>1
  <2>3. CASE Op(v) \in {"len", "copy"}
    BY <2>2, <2>3, EvalUnfold DEF Includes
  <2>4. CASE Op(v) = "make"
    <3>1. Type(v) \notin IntTypes
      BY <2>4, OperandShape
    <3>2. 0 <= x
      BY <1>2, <3>1, FitsFact DEF AllTypes
    <3>3. Eval(v, r) = Make(r[u])
      BY <2>4, EvalUnfold
    <3> HIDE DEF u
    <3>. QED  BY <1>3, <2>2, <3>2, <3>3, MakeIsSound
  <2>5. CASE Op(v) = "convert"
    <3>1. Eval(v, r) = Conversion(r[u], r[v], Type(u), Type(v))
      BY <2>5, EvalUnfold
    <3>2. ~Larger(Type(u), Type(v)) \/ ~r[v].known \/ Includes(r[v], x)
      BY <2>5
    <3>3. Type(u) \in AllTypes /\ r[v] \in IntInterval
      BY <1>2, <2>2
    <3> HIDE DEF u
    <3>4. Includes(Conversion(r[u], r[v], Type(u), Type(v)), x)
      BY <1>2, <2>2, <3>2, <3>3, ConversionIsSound DEF AllTypes
    <3>. QED  BY <3>1, <3>4
  <2>. QED  BY <1>8, <2>3, <2>4, <2>5
<1>9. CASE Op(v) = "slice"
  <2> DEFINE lr == IF Args(v)[2] = 0 THEN Just(0) ELSE r[Args(v)[2]]
             ur == IF Args(v)[3] = 0 THEN r[Args(v)[1]] ELSE r[Args(v)[3]]
  <2>1. /\ Args(v)[1] \in Operands(v)
        /\ Args(v)[2] # 0 => Args(v)[2] \in Operands(v)
        /\ Args(v)[3] # 0 => Args(v)[3] \in Operands(v)
    BY <1>9, ArgShape
  <2>2. Just(0) \in IntInterval /\ Includes(Just(0), 0)
    <3>1. Fin(0) \in Z /\ Cmp(Fin(0), Fin(0)) <= 0
      BY FinType, CmpTotal
    <3>. QED  BY <3>1, ConstantTypes, NewIncludes DEF Just
  <2>3. PICK lo, hi : /\ lo = IF Args(v)[2] = 0 THEN 0 ELSE e[Args(v)[2]]
                      /\ hi = IF Args(v)[3] = 0 THEN e[Args(v)[1]] ELSE e[Args(v)[3]]
                      /\ 0 <= lo /\ lo <= hi /\ x = hi - lo
    BY <1>9, ResultsUnfold
  <2>4. lr \in IntInterval /\ lo \in Int /\ Includes(lr, lo)
    BY <1>1, <1>9, <2>1, <2>2, <2>3
  <2>5. ur \in IntInterval /\ hi \in Int /\ Includes(ur, hi)
    BY <1>1, <1>9, <2>1, <2>3
  <2>6. Eval(v, r) = Slice(lr, ur)
    BY <1>9, EvalUnfold
  <2> HIDE DEF lr, ur
  <2>. QED  BY <2>3, <2>4, <2>5, <2>6, SliceIsSound
<1>10. CASE Op(v) = "arrayslice"
  <2> DEFINE lr == IF Args(v)[1] = 0 THEN Just(0) ELSE r[Args(v)[1]]
             ur == IF Args(v)[2] = 0 THEN Just(prog.ins[v].k) ELSE r[Args(v)[2]]
  <2>1. /\ Args(v)[1] # 0 => Args(v)[1] \in Operands(v)
        /\ Args(v)[2] # 0 => Args(v)[2] \in Operands(v)
    BY <1>10, ArgShape
  <2>2. \A k \in Int : Just(k) \in IntInterval /\ Includes(Just(k), k)
    <3>1. \A k \in Int : Fin(k) \in Z /\ Cmp(Fin(k), Fin(k)) <= 0
      BY FinType, CmpTotal
    <3>. QED  BY <3>1, ConstantTypes, NewIncludes DEF Just
  <2>3. PICK lo, hi : /\ lo = IF Args(v)[1] = 0 THEN 0 ELSE e[Args(v)[1]]
                      /\ hi = IF Args(v)[2] = 0 THEN prog.ins[v].k ELSE e[Args(v)[2]]
                      /\ 0 <= lo /\ lo <= hi /\ x = hi - lo
    BY <1>10, ResultsUnfold
  <2>4. lr \in IntInterval /\ lo \in Int /\ Includes(lr, lo)
    BY <1>1, <1>10, <2>1, <2>2, <2>3
  <2>5. ur \in IntInterval /\ hi \in Int /\ Includes(ur, hi)
    BY <1>1, <1>2, <1>10, <2>1, <2>2, <2>3
  <2>6. Eval(v, r) = Slice(lr, ur)
    BY <1>10, EvalUnfold
  <2> HIDE DEF lr, ur
  <2>. QED  BY <2>3, <2>4, <2>5, <2>6, SliceIsSound
<1>. QED  BY <1>4, <1>5, <1>6, <1>7, <1>8, <1>9, <1>10, ProgramShape DEF HasConstraint

-----------------------------------------------------------------------------
(* The cycles.  The users of a value lead on to theirs.                    *)
ClosedSet(S) == \A y \in Values : (\E u \in S : u \in Operands(y)) => y \in S

Leads(v, w) ==
  \A S \in SUBSET Values : ClosedSet(S) /\ (\A y \in Values : v \in Operands(y) => y \in S) => w \in S

LEMMA CyclesFact ==
  ASSUME prog \in Programs
  PROVE  Cycles(prog) = [v \in Values |-> {w \in Values : Leads(v, w) /\ Leads(w, v)}]
<1> DEFINE users == {x \in Values \X Values : x[1] \in Range(prog.ins[x[2]].args)}
           closed == {S \in SUBSET Values : \A x \in users : x[1] \in S => x[2] \in S}
           around(v) == {S \in closed : \A x \in users : x[1] = v => x[2] \in S}
           after(v) == Values \ UNION {Values \ S : S \in around(v)}
           paths == UNION {{v} \X after(v) : v \in Values}
<1>1. Cycles(prog) = [v \in Values |-> {w \in Values : <<v, w>> \in paths /\ <<w, v>> \in paths}]
  BY DEF Cycles, Values
<1>2. \A u, w \in Values : <<u, w>> \in users <=> u \in Operands(w)
  <2>1. 0 \notin Values
    BY ProgramShape
  <2>. QED  BY <2>1 DEF Operands, Args
<1>3. \A S \in SUBSET Values : S \in closed <=> ClosedSet(S)
  <2>1. \A S \in SUBSET Values : S \in closed <=> \A u, w \in Values : <<u, w>> \in users /\ u \in S => w \in S
    OBVIOUS
  <2> HIDE DEF closed, users
  <2>. QED  BY <1>2, <2>1 DEF ClosedSet
<1>4. \A v \in Values : \A S \in SUBSET Values :
        S \in around(v) <=> ClosedSet(S) /\ \A y \in Values : v \in Operands(y) => y \in S
  <2>1. \A v \in Values : \A S \in SUBSET Values :
          S \in around(v) <=> S \in closed /\ \A y \in Values : <<v, y>> \in users => y \in S
    OBVIOUS
  <2> HIDE DEF closed, users, around
  <2>. QED  BY <1>2, <1>3, <2>1
<1>5. \A v \in Values : around(v) \subseteq SUBSET Values
  OBVIOUS
<1> HIDE DEF closed, users, around
<1>6. \A v, w \in Values : w \in after(v) <=> \A S \in around(v) : w \in S
  BY <1>5
<1>7. \A v, w \in Values : w \in after(v) <=> Leads(v, w)
  BY <1>4, <1>5, <1>6 DEF Leads
<1> HIDE DEF after
<1>8. \A v, w \in Values : <<v, w>> \in paths <=> w \in after(v)
  OBVIOUS
<1> HIDE DEF paths
<1>. QED  BY <1>1, <1>7, <1>8

LEMMA LeadsFacts ==
  ASSUME prog \in Programs
  PROVE  /\ \A v, w \in Values : v \in Operands(w) => Leads(v, w)
         /\ \A u, v, w \in Values : Leads(u, v) /\ Leads(v, w) => Leads(u, w)
         /\ \A v, w \in Values : Leads(v, w) => \E u \in Operands(w) : u = v \/ Leads(v, u)
<1>1. \A v, w \in Values : v \in Operands(w) => Leads(v, w)
  BY DEF Leads
<1>2. \A u, v, w \in Values : Leads(u, v) /\ Leads(v, w) => Leads(u, w)
  BY DEF Leads, ClosedSet
<1>3. ASSUME NEW v \in Values, NEW w \in Values, Leads(v, w)
      PROVE  \E u \in Operands(w) : u = v \/ Leads(v, u)
  <2> DEFINE S == {y \in Values : Leads(v, y) /\ \E u \in Operands(y) : u = v \/ Leads(v, u)}
  <2>1. ClosedSet(S)
    BY <1>1, <1>2 DEF ClosedSet
  <2>2. \A y \in Values : v \in Operands(y) => y \in S
    BY <1>1
  <2>3. w \in S
    <3> HIDE DEF S
    <3>1. S \in SUBSET Values
      BY DEF S
    <3>. QED  BY <1>3, <2>1, <2>2, <3>1 DEF Leads
  <2>. QED  BY <2>3
<1>. QED  BY <1>1, <1>2, <1>3

LEMMA CycleFacts ==
  ASSUME prog \in Programs, scc = Cycles(prog)
  PROVE  /\ scc \in [Values -> SUBSET Values]
         /\ \A v, w \in Values : w \in scc[v] => scc[w] = scc[v] /\ v \in scc[v] /\ w \in scc[w]
         /\ \A w \in Values : scc[w] # {} => w \in scc[w] /\ Operands(w) \cap scc[w] # {}
         /\ \A w \in Values : w \in Operands(w) => w \in scc[w]
<1>1. /\ scc \in [Values -> SUBSET Values]
      /\ \A v, w \in Values : w \in scc[v] <=> Leads(v, w) /\ Leads(w, v)
  BY CyclesFact
<1>2. /\ \A v, w \in Values : v \in Operands(w) => Leads(v, w)
      /\ \A u, v, w \in Values : Leads(u, v) /\ Leads(v, w) => Leads(u, w)
      /\ \A v, w \in Values : Leads(v, w) => \E u \in Operands(w) : u = v \/ Leads(v, u)
  BY LeadsFacts
<1>3. ASSUME NEW v \in Values, NEW w \in Values, w \in scc[v]
      PROVE  scc[w] = scc[v] /\ v \in scc[v] /\ w \in scc[w]
  <2>1. scc[w] \subseteq Values /\ scc[v] \subseteq Values
    BY <1>1
  <2>2. Leads(v, w) /\ Leads(w, v) /\ Leads(v, v) /\ Leads(w, w)
    BY <1>1, <1>2, <1>3
  <2>3. \A y \in Values : y \in scc[w] <=> y \in scc[v]
    BY <1>1, <1>2, <2>2
  <2>4. scc[w] = scc[v]
    BY <2>1, <2>3
  <2>. QED  BY <1>1, <2>2, <2>4
<1>4. ASSUME NEW w \in Values, scc[w] # {}
      PROVE  w \in scc[w] /\ Operands(w) \cap scc[w] # {}
  <2>1. PICK y \in Values : y \in scc[w]
    BY <1>1, <1>4
  <2>2. Leads(w, w)
    BY <1>1, <1>2, <2>1
  <2>3. PICK u \in Operands(w) : u = w \/ Leads(w, u)
    BY <1>2, <2>2
  <2>4. u \in Values
    BY <2>3, OperandShape
  <2>5. Leads(u, w) /\ Leads(w, u)
    BY <1>2, <2>2, <2>3, <2>4
  <2>. QED  BY <1>1, <2>2, <2>3, <2>4, <2>5
<1>5. ASSUME NEW w \in Values, w \in Operands(w)
      PROVE  w \in scc[w]
  BY <1>1, <1>2, <1>5
<1>. QED  BY <1>1, <1>3, <1>4, <1>5

-----------------------------------------------------------------------------
(* What the values can be in a run, whatever its inputs and however long   *)
(* it is: the members of every family of sets that the instructions do not *)
(* lead out of.  A phi may have an operand that is not there yet.          *)
Env == [Values -> Int \cup {NotYet}]

Admits(v, e, F) == \A u \in Operands(v) : e[u] \in F[u] \/ (Op(v) = "phi" /\ e[u] = NotYet)

Closed(F) ==
  \A v \in Values, e \in Env, x \in Int :
    Admits(v, e, F) /\ x \in Results(v, e) /\ Fits(Type(v), x) => x \in F[v]

Actual ==
  [v \in Values |-> {x \in Int : \A F \in [Values -> SUBSET Int] : Closed(F) => x \in F[v]}]

LEMMA ActualIsLeast ==
  ASSUME NEW F \in [Values -> SUBSET Int], Closed(F), NEW v \in Values
  PROVE  Actual[v] \subseteq F[v]
BY DEF Actual

LEMMA ActualIsClosed ==
  ASSUME prog \in Programs
  PROVE  Actual \in [Values -> SUBSET Int] /\ Closed(Actual)
<1>1. Actual \in [Values -> SUBSET Int]
  BY DEF Actual
<1>2. ASSUME NEW v \in Values, NEW e \in Env, NEW x \in Int,
             Admits(v, e, Actual), x \in Results(v, e), Fits(Type(v), x)
      PROVE  x \in Actual[v]
  <2>1. ASSUME NEW F \in [Values -> SUBSET Int], Closed(F)
        PROVE  x \in F[v]
    <3>1. \A u \in Operands(v) : u \in Values /\ Actual[u] \subseteq F[u]
      BY <2>1, OperandShape, ActualIsLeast
    <3>2. Admits(v, e, F)
      BY <1>2, <3>1 DEF Admits
    <3>. QED  BY <1>2, <2>1, <3>2 DEF Closed
  <2>. QED  BY <2>1 DEF Actual
<1>. QED  BY <1>1, <1>2 DEF Closed

(* Whatever a value is, it fits its type and its instruction makes it of   *)
(* what the operands are.                                                  *)
LEMMA ActualIsMade ==
  ASSUME prog \in Programs, NEW v \in Values, NEW x \in Actual[v]
  PROVE  /\ x \in Int /\ Fits(Type(v), x)
         /\ \E e \in Env : Admits(v, e, Actual) /\ x \in Results(v, e)
<1> DEFINE Made(y) == Fits(Type(v), y) /\ \E e \in Env : Admits(v, e, Actual) /\ y \in Results(v, e)
           F == [w \in Values |-> IF w = v THEN {y \in Actual[v] : Made(y)} ELSE Actual[w]]
<1>1. Actual \in [Values -> SUBSET Int] /\ Closed(Actual)
  BY ActualIsClosed
<1>2. F \in [Values -> SUBSET Int] /\ \A w \in Values : F[w] \subseteq Actual[w]
  BY <1>1
<1>3. Closed(F)
  <2>1. ASSUME NEW w \in Values, NEW e \in Env, NEW y \in Int,
               Admits(w, e, F), y \in Results(w, e), Fits(Type(w), y)
        PROVE  y \in F[w]
    <3>1. \A u \in Operands(w) : u \in Values
      BY OperandShape
    <3>2. Admits(w, e, Actual)
      BY <1>2, <2>1, <3>1 DEF Admits
    <3>3. y \in Actual[w]
      BY <1>1, <2>1, <3>2 DEF Closed
    <3>4. w = v => Made(y)
      BY <2>1, <3>2
    <3> HIDE DEF Made
    <3>. QED  BY <3>3, <3>4
  <2>. QED  BY <2>1 DEF Closed
<1>4. x \in F[v]
  <2> HIDE DEF F
  <2>. QED  BY <1>2, <1>3, ActualIsLeast
<1>5. Made(x)
  BY <1>4
<1>. QED  BY <1>1, <1>5

(* The range of v holds for all that v can be.                             *)
SoundAt(v, r) == \A x \in Actual[v] : Includes(r[v], x)

(* A constraint keeps the ranges sound.                                    *)
LEMMA EvalKeepsSound ==
  ASSUME prog \in Programs, NEW v \in Values, HasConstraint(v), NEW r \in [Values -> IntInterval],
         \A u \in Operands(v) : SoundAt(u, r),
         Op(v) = "convert" => \/ ~Larger(Type(Args(v)[1]), Type(v))
                              \/ ~r[v].known \/ SoundAt(v, r)
  PROVE  \A x \in Actual[v] : Includes(Eval(v, r), x)
<1> SUFFICES ASSUME NEW x \in Actual[v]
             PROVE  Includes(Eval(v, r), x)
  OBVIOUS
<1>1. /\ x \in Int /\ Fits(Type(v), x)
      /\ \E e \in Env : Admits(v, e, Actual) /\ x \in Results(v, e)
  BY ActualIsMade
<1>2. PICK e \in Env : Admits(v, e, Actual) /\ x \in Results(v, e)
  BY <1>1
<1>3. ASSUME NEW u \in Operands(v)
      PROVE  \/ Op(v) = "phi" /\ e[u] = NotYet
             \/ e[u] \in Int /\ Fits(Type(u), e[u]) /\ Includes(r[u], e[u])
  <2>1. u \in Values
    BY OperandShape
  <2>2. CASE e[u] \in Actual[u]
    <3>1. e[u] \in Int /\ Fits(Type(u), e[u])
      BY <2>1, <2>2, ActualIsMade
    <3>. QED  BY <2>2, <3>1 DEF SoundAt
  <2>3. e[u] \in Actual[u] \/ (Op(v) = "phi" /\ e[u] = NotYet)
    BY <1>2 DEF Admits
  <2>. QED  BY <2>2, <2>3
<1>4. Op(v) = "convert" => ~Larger(Type(Args(v)[1]), Type(v)) \/ ~r[v].known \/ Includes(r[v], x)
  BY DEF SoundAt
<1>. QED  BY <1>1, <1>2, <1>3, <1>4, EvalIsSound

(* The values of a component, given that the others are what they can be:  *)
(* a constraint that is covered makes nothing that the range leaves out.   *)
Kept(v, e, S, r) ==
  \A u \in Operands(v) \cap S : Includes(r[u], e[u]) \/ (Op(v) = "phi" /\ e[u] = NotYet)

Covers(v, S, r) ==
  \A e \in Env, x \in Int :
    Admits(v, e, Actual) /\ Kept(v, e, S, r) /\ x \in Results(v, e) /\ Fits(Type(v), x)
    => Includes(r[v], x)

LEMMA CoveredIsSound ==
  ASSUME prog \in Programs, NEW S \in SUBSET Values, NEW r, \A v \in S : Covers(v, S, r)
  PROVE  \A v \in S : SoundAt(v, r)
<1> DEFINE F == [v \in Values |-> {x \in Actual[v] : v \in S => Includes(r[v], x)}]
<1>1. Actual \in [Values -> SUBSET Int] /\ Closed(Actual)
  BY ActualIsClosed
<1>2. F \in [Values -> SUBSET Int]
  BY <1>1
<1>3. \A v \in Values : \A x : x \in F[v] <=> x \in Actual[v] /\ (v \in S => Includes(r[v], x))
  OBVIOUS
<1> HIDE DEF F
<1>4. Closed(F)
  <2>1. ASSUME NEW v \in Values, NEW e \in Env, NEW x \in Int,
               Admits(v, e, F), x \in Results(v, e), Fits(Type(v), x)
        PROVE  x \in F[v]
    <3>1. \A u \in Operands(v) : u \in Values
      BY OperandShape
    <3>2. Admits(v, e, Actual) /\ Kept(v, e, S, r)
      BY <1>3, <2>1, <3>1 DEF Admits, Kept
    <3>3. x \in Actual[v]
      BY <1>1, <2>1, <3>2 DEF Closed
    <3>4. v \in S => Includes(r[v], x)
      BY <2>1, <3>2 DEF Covers
    <3>. QED  BY <1>3, <3>3, <3>4
  <2>. QED  BY <2>1 DEF Closed
<1>5. \A v \in Values : Actual[v] \subseteq F[v]
  BY <1>2, <1>4, ActualIsLeast
<1>. QED  BY <1>3, <1>5 DEF SoundAt

(* What is evaluated is covered, when the other operands are sound.        *)
LEMMA EvalCovers ==
  ASSUME prog \in Programs, NEW v \in Values, HasConstraint(v), NEW S \in SUBSET Values,
         NEW r \in [Values -> IntInterval], \A u \in Operands(v) \ S : SoundAt(u, r),
         Op(v) = "convert" => ~Larger(Type(Args(v)[1]), Type(v)),
         NEW e \in Env, NEW x \in Int,
         Admits(v, e, Actual), Kept(v, e, S, r), x \in Results(v, e), Fits(Type(v), x)
  PROVE  Includes(Eval(v, r), x)
<1>1. ASSUME NEW u \in Operands(v)
      PROVE  \/ Op(v) = "phi" /\ e[u] = NotYet
             \/ e[u] \in Int /\ Fits(Type(u), e[u]) /\ Includes(r[u], e[u])
  <2>1. u \in Values
    BY OperandShape
  <2>2. CASE e[u] \in Actual[u]
    <3>1. e[u] \in Int /\ Fits(Type(u), e[u])
      BY <2>1, <2>2, ActualIsMade
    <3>2. e[u] # NotYet
      BY <3>1, InputsAssumption
    <3>3. CASE u \in S
      BY <3>1, <3>2, <3>3 DEF Kept
    <3>4. CASE u \notin S
      BY <2>2, <3>1, <3>4 DEF SoundAt
    <3>. QED  BY <3>3, <3>4
  <2>3. e[u] \in Actual[u] \/ (Op(v) = "phi" /\ e[u] = NotYet)
    BY DEF Admits
  <2>. QED  BY <2>2, <2>3
<1>. QED  BY <1>1, EvalIsSound

-----------------------------------------------------------------------------
(* The two ways in which Solve can go wrong lie on cycles: a channel there *)
(* never changes while its cycle is widened, and a conversion to a larger  *)
(* type takes the upper bound that its own result had before.              *)
ChannelsOffCycles == \A v \in Values : Type(v) = "chan" => scc[v] = {}

ProperCycles ==
  /\ ChannelsOffCycles
  /\ \A v \in Values : Op(v) = "convert" /\ Larger(Type(Args(v)[1]), Type(v)) => scc[v] = {}

TypeInv ==
  /\ prog \in Programs /\ scc = Cycles(prog)
  /\ consts \in SUBSET Z /\ IsFiniteSet(consts)
  /\ ranges \in [Values -> IntInterval]
  /\ phase \in {"pick", "propagate", "widen", "narrow", "run"}
  /\ comp \in SUBSET Values /\ work \in Seq(Values)
  /\ uses \in SUBSET Values /\ \A w \in uses : HasConstraint(w)
  /\ env \in Env /\ pc \in Nat

(* The order in which Solve goes through the graph: the component being    *)
(* solved is a whole cycle, what it reads from outside has been solved,    *)
(* and what is evaluated when it is done has not been.                     *)
SolvedInOrder ==
  \A w \in Values :
    /\ w \in solved \/ -w \in solved => Operands(w) \subseteq solved
    /\ w \in solved => scc[w] \subseteq solved
    /\ w \in solved /\ HasConstraint(w) => -w \in solved

Idle ==
  /\ phase \in {"pick", "run"} => comp = {} /\ uses = {}
  /\ phase \notin {"widen", "narrow"} => work = <<>>
  /\ phase = "run" => Values \subseteq solved

Propagating ==
  phase = "propagate" =>
    /\ comp \subseteq solved
    /\ \A w \in uses : w \notin solved /\ -w \notin solved /\ Operands(w) \cap solved # {}

OnCycle ==
  phase \in {"widen", "narrow"} =>
    /\ comp # {} /\ uses \subseteq comp /\ \A i \in DOMAIN work : work[i] \in comp
    /\ \A w \in comp : /\ w \notin solved /\ -w \notin solved
                       /\ scc[w] = comp /\ Operands(w) \subseteq solved \cup comp

OrderInv == SolvedInOrder /\ Idle /\ Propagating /\ OnCycle

(* What has to be known when it is read.  A value of the cycle that is     *)
(* unknown and not about to be evaluated lacks an operand, a phi all.      *)
PhisKnown ==
  \A w \in Values \ (comp \cup uses \cup solved) :
    Op(w) = "phi" /\ scc[w] # {} /\ Operands(w) \cap solved # {} => ranges[w].known

Starved(w) ==
  /\ Op(w) = "phi" => \A u \in Operands(w) : ~ranges[u].known
  /\ \E u \in Operands(w) \cap comp : ~ranges[u].known

UnknownIsStarved ==
  phase = "widen" =>
    \A w \in comp \ uses : \/ ranges[w].known
                           \/ \E i \in DOMAIN work : work[i] \in Operands(w)
                           \/ Starved(w)

KnownInv ==
  /\ \A w \in Values : w \in solved => ranges[w].known
  /\ \A i \in DOMAIN work : ranges[work[i]].known
  /\ phase = "narrow" => \A w \in comp : ranges[w].known
  /\ PhisKnown /\ UnknownIsStarved

(* What holds for all that the values can be: the ranges that Solve is     *)
(* done with.  The others on the cycle being widened are covered or are    *)
(* still to be evaluated.                                                  *)
SolvedIsSound ==
  \A w \in Values :
    /\ w \in solved \/ -w \in solved => SoundAt(w, ranges)
    /\ Op(w) = "convert" /\ scc[w] = {} /\ ranges[w].known => SoundAt(w, ranges)
    /\ Op(w) = "param" /\ w \notin solved => ~ranges[w].known

PhisInclude ==
  \A w \in Values \ (comp \cup uses \cup solved) :
    Op(w) = "phi" /\ scc[w] # {} =>
      \A u \in Operands(w) \cap solved : \A x \in Actual[u] : Includes(ranges[w], x)

CycleIsCovered ==
  phase = "widen" =>
    \A w \in comp \ uses : \/ \E i \in DOMAIN work : work[i] \in Operands(w)
                           \/ Covers(w, comp, ranges)

SoundInv ==
  /\ SolvedIsSound /\ PhisInclude /\ CycleIsCovered
  /\ phase = "narrow" => \A w \in comp : SoundAt(w, ranges)

(* A run: what has been computed is what the value can be; everything      *)
(* before pc has been, and before the head either nothing of the head or   *)
(* everything.                                                             *)
RunInv ==
  /\ \A v \in Values : env[v] # NotYet => env[v] \in Actual[v]
  /\ \A u \in Values : u < pc => env[u] # NotYet
  /\ pc <= prog.entry + 1 => \/ \A h \in Heads : env[h] = NotYet
                             \/ \A u \in Values : env[u] # NotYet

-----------------------------------------------------------------------------
(* The graph and what the values can be depend on the function alone.      *)
LEMMA SameProgram ==
  ASSUME prog' = prog
  PROVE  /\ Values' = Values /\ Heads' = Heads /\ Env' = Env /\ Actual' = Actual
         /\ \A v : /\ Op(v)' = Op(v) /\ Type(v)' = Type(v) /\ Args(v)' = Args(v)
                   /\ Operands(v)' = Operands(v) /\ (HasConstraint(v)' <=> HasConstraint(v))
         /\ \A v, e : Results(v, e)' = Results(v, e)
<1>1. /\ Values' = Values /\ Heads' = Heads
      /\ \A v : Op(v)' = Op(v) /\ Type(v)' = Type(v) /\ Args(v)' = Args(v)
  BY DEF Values, Heads, Op, Type, Args
<1>2. Env' = Env
  BY <1>1 DEF Env
<1>3. \A v : Operands(v)' = Operands(v) /\ (HasConstraint(v)' <=> HasConstraint(v))
  BY <1>1 DEF Operands, HasConstraint
<1>4. \A v, e : Results(v, e)' = Results(v, e)
  <2> SUFFICES ASSUME NEW v, NEW e
               PROVE  Results(v, e)' = Results(v, e)
    OBVIOUS
  <2>1. {i \in Inputs : i >= prog'.ins[v].k} = {i \in Inputs : i >= prog.ins[v].k}
    OBVIOUS
  <2>2. {e[u] : u \in Operands(v)'} = {e[u] : u \in Operands(v)}
    BY <1>3
  <2>3. Op(v)' = Op(v) /\ Args(v)' = Args(v) /\ prog'.ins[v].k = prog.ins[v].k
    BY <1>1
  <2>. QED  BY <2>1, <2>2, <2>3 DEF Results
<1>5. \A v, e, F : Admits(v, e, F)' <=> Admits(v, e, F)
  BY <1>1, <1>3 DEF Admits
<1>6. \A F : Closed(F)' <=> Closed(F)
  BY <1>1, <1>2, <1>4, <1>5 DEF Closed
<1>7. Actual' = Actual
  BY <1>1, <1>6 DEF Actual
<1>. QED  BY <1>1, <1>2, <1>3, <1>4, <1>7

(* A set that is put on a worklist in some order.                          *)
LEMMA SetToSeqsFact ==
  ASSUME NEW S, IsFiniteSet(S), NEW s \in SetToSeqs(S)
  PROVE  /\ s \in Seq(S)
         /\ \A x \in S : \E i \in DOMAIN s : s[i] = x
<1>1. Cardinality(S) \in Nat
  BY FS_CardinalityType
<1>2. /\ s \in [1..Cardinality(S) -> S]
      /\ \A i, j \in 1..Cardinality(S) : i # j => s[i] # s[j]
  BY DEF SetToSeqs
<1>3. s \in Seq(S)
  BY <1>1, <1>2
<1>4. s \in Injection(1..Cardinality(S), S)
  BY <1>2 DEF Injection, IsInjective
<1>5. IsFiniteSet(1..Cardinality(S)) /\ Cardinality(1..Cardinality(S)) = Cardinality(S)
  BY <1>1, FS_Interval
<1>6. s \in Surjection(1..Cardinality(S), S)
  BY <1>4, <1>5, FS_Injection
<1>. QED  BY <1>2, <1>3, <1>6 DEF Surjection

(* The constants that widening may stop at are finitely many.              *)
LEMMA ConstsFact ==
  ASSUME prog \in Programs
  PROVE  Consts \in SUBSET Z /\ IsFiniteSet(Consts)
<1> DEFINE W == {w \in Values : Op(w) = "const" /\ Type(w) \in IntTypes}
           ks == {prog.ins[v].k : v \in W}
<1>1. Consts = UNION {{Fin(k - 1), Fin(k), Fin(k + 1)} : k \in ks}
  BY DEF Consts
<1>2. IsFiniteSet(W) /\ W \subseteq Values
  BY ProgramShape, FS_Subset
<1>3. ks \in SUBSET Int
  BY ProgramShape
<1>4. IsFiniteSet(ks)
  <2> DEFINE f == [v \in W |-> prog.ins[v].k]
  <2>1. f \in Surjection(W, ks)
    BY DEF Surjection
  <2> HIDE DEF f, W, ks
  <2>. QED  BY <1>2, <2>1, FS_Surjection
<1> DEFINE parts == {{Fin(k - 1), Fin(k), Fin(k + 1)} : k \in ks}
<1>5. IsFiniteSet(parts)
  <2> DEFINE f == [k \in ks |-> {Fin(k - 1), Fin(k), Fin(k + 1)}]
  <2>1. f \in Surjection(ks, parts)
    <3> HIDE DEF ks
    <3>. QED  BY DEF Surjection
  <2> HIDE DEF f, ks, parts
  <2>. QED  BY <1>4, <2>1, FS_Surjection
<1>6. \A T \in parts : IsFiniteSet(T)
  <2> SUFFICES ASSUME NEW k \in ks
               PROVE  IsFiniteSet({Fin(k - 1), Fin(k), Fin(k + 1)})
    OBVIOUS
  <2>1. {Fin(k - 1), Fin(k), Fin(k + 1)} = ({Fin(k - 1)} \cup {Fin(k)}) \cup {Fin(k + 1)}
    OBVIOUS
  <2>2. IsFiniteSet({Fin(k - 1)}) /\ IsFiniteSet({Fin(k)}) /\ IsFiniteSet({Fin(k + 1)})
    BY FS_Singleton
  <2>. QED  BY <2>1, <2>2, FS_Union
<1>7. IsFiniteSet(UNION parts)
  <2> HIDE DEF parts
  <2>. QED  BY <1>5, <1>6, FS_UNION
<1>8. UNION parts \subseteq Z
  <2>1. \A k \in Int : Fin(k - 1) \in Z /\ Fin(k) \in Z /\ Fin(k + 1) \in Z
    BY FinType
  <2> HIDE DEF ks
  <2>. QED  BY <1>3, <2>1
<1>. QED  BY <1>1, <1>7, <1>8

(* widenIntInterval and narrowIntInterval give intervals, known ones of    *)
(* known ones; widening gives the range that it had unless it changes.     *)
LEMMA LoopTypes ==
  ASSUME NEW cs \in SUBSET Z, IsFiniteSet(cs), NEW oi \in IntInterval, NEW ni \in IntInterval
  PROVE  /\ WidenInterval(cs, oi, ni) \in IntInterval
         /\ WidenChanges(oi, ni) => WidenInterval(cs, oi, ni).known
         /\ ~WidenChanges(oi, ni) => WidenInterval(cs, oi, ni) = oi
         /\ ni.known => WidenChanges(oi, ni) \/ oi.known
         /\ NarrowInterval(oi, ni) \in IntInterval
         /\ oi.known => NarrowInterval(oi, ni).known
         /\ ~NarrowChanges(oi, ni) => NarrowInterval(oi, ni) = oi
<1>1. /\ ni.lower \in Z /\ ni.upper \in Z /\ oi.lower \in Z /\ oi.upper \in Z
      /\ ni.known \in BOOLEAN /\ oi.known \in BOOLEAN
  BY DEF IntInterval
<1>2. LowerConst(cs, ni.lower) \in Z /\ UpperConst(cs, ni.upper) \in Z
  BY <1>1, ConstsBound
<1>3. \A l, u \in Z : NewIntInterval(l, u) \in IntInterval /\ NewIntInterval(l, u).known
  BY NewType
<1>4. /\ WidenInterval(cs, oi, ni) \in IntInterval
      /\ WidenChanges(oi, ni) => WidenInterval(cs, oi, ni).known
  BY <1>1, <1>2, <1>3 DEF WidenInterval, WidenChanges
<1>5. ~WidenChanges(oi, ni) => WidenInterval(cs, oi, ni) = oi
  BY DEF WidenInterval, WidenChanges
<1>6. ni.known => WidenChanges(oi, ni) \/ oi.known
  BY DEF WidenChanges
<1>7. NarrowInterval(oi, ni) \in IntInterval /\ (oi.known => NarrowInterval(oi, ni).known)
  BY <1>1, <1>3 DEF NarrowInterval
<1>8. ~NarrowChanges(oi, ni) => NarrowInterval(oi, ni) = oi
  BY DEF NarrowInterval, NarrowChanges
<1>. QED  BY <1>4, <1>5, <1>6, <1>7, <1>8

LEMMA UseFact ==
  ASSUME prog \in Programs, uses \in SUBSET Values, uses # {}
  PROVE  Use \in uses
<1>1. uses \in SUBSET Nat
  BY ProgramShape
<1>2. \E w \in uses : \A x \in uses : w <= x
  BY <1>1, FirstExists
<1>. QED  BY <1>2 DEF Use

(* What Solve gives to a value that is not known.                          *)
LEMMA FillFact ==
  ASSUME prog \in Programs, NEW S \in SUBSET Values, NEW r \in [Values -> IntInterval]
  PROVE  /\ Fill(S, r) \in [Values -> IntInterval]
         /\ \A v \in Values : Fill(S, r)[v] = IF v \in S /\ ~r[v].known THEN Default(v) ELSE r[v]
         /\ \A v \in Values : Default(v).known /\ \A x \in Actual[v] : Includes(Default(v), x)
<1>1. \A v \in Values : Default(v) \in IntInterval /\ Default(v).known
  BY ConstantTypes DEF Default
<1>2. Fill(S, r) \in [Values -> IntInterval]
  BY <1>1 DEF Fill
<1>3. \A v \in Values : Fill(S, r)[v] = IF v \in S /\ ~r[v].known THEN Default(v) ELSE r[v]
  BY DEF Fill
<1>4. ASSUME NEW v \in Values, NEW x \in Actual[v]
      PROVE  Includes(Default(v), x)
  <2>1. Fits(Type(v), x)
    BY ActualIsMade
  <2>2. Type(v) \in IntTypes \cup {"seq", "chan"}
    BY ProgramShape DEF AllTypes
  <2>. QED  BY <2>1, <2>2, InfinityFits DEF Default
<1>. QED  BY <1>1, <1>2, <1>3, <1>4

-----------------------------------------------------------------------------
(* A step of either loop evaluates one use.                                *)
LEMMA ChangeUnfold ==
  ASSUME TypeInv
  PROVE  /\ Widen => \E w \in uses :
              Change("widen", w, WidenChanges(ranges[w], Eval(w, ranges)),
                     WidenInterval(consts, ranges[w], Eval(w, ranges)))
         /\ Narrow => \E w \in uses :
              Change("narrow", w, NarrowChanges(ranges[w], Eval(w, ranges)),
                     NarrowInterval(ranges[w], Eval(w, ranges)))
<1>1. Widen \/ Narrow => uses # {}
  BY DEF Widen, Narrow, Change
<1>2. uses # {} => Use \in uses
  BY UseFact DEF TypeInv
<1>. QED  BY <1>1, <1>2 DEF Widen, Narrow

LEMMA UsesFact ==
  ASSUME prog \in Programs, NEW S, NEW here
  PROVE  /\ UsesOf(S, here) \in SUBSET Values
         /\ \A w \in UsesOf(S, here) : HasConstraint(w) /\ Operands(w) \cap S # {}
         /\ \A w \in UsesOf(S, here) : w \in comp <=> here
<1>1. ASSUME NEW w \in UsesOf(S, here)
      PROVE  w \in Values /\ Operands(w) \cap S # {} /\ (w \in comp <=> here)
  BY DEF UsesOf
<1>2. ASSUME NEW w \in UsesOf(S, here)
      PROVE  HasConstraint(w)
  BY <1>1, ArgShape DEF HasConstraint
<1>. QED  BY <1>1, <1>2

(* What is evaluated is an interval, and so is what a loop makes of it.    *)
LEMMA StepTypes ==
  ASSUME TypeInv, NEW w \in Values, HasConstraint(w)
  PROVE  /\ Eval(w, ranges) \in IntInterval
         /\ WidenInterval(consts, ranges[w], Eval(w, ranges)) \in IntInterval
         /\ NarrowInterval(ranges[w], Eval(w, ranges)) \in IntInterval
<1>1. Eval(w, ranges) \in IntInterval
  BY EvalType DEF TypeInv
<1>2. ranges[w] \in IntInterval /\ consts \in SUBSET Z /\ IsFiniteSet(consts)
  BY DEF TypeInv
<1>. QED  BY <1>1, <1>2, LoopTypes

LEMMA ChangeTypes ==
  ASSUME TypeInv, NEW p \in {"widen", "narrow"}, NEW w \in uses, NEW changes, NEW new \in IntInterval,
         Change(p, w, changes, new)
  PROVE  TypeInv'
<1>1. /\ prog' = prog /\ scc' = scc /\ consts' = consts /\ phase' = phase /\ comp' = comp
      /\ env' = env /\ pc' = pc
  BY DEF Change
<1>2. /\ Values' = Values /\ Env' = Env
      /\ \A v : HasConstraint(v)' <=> HasConstraint(v)
  BY <1>1, SameProgram
<1>3. ranges' \in [Values -> IntInterval]
  BY DEF Change, TypeInv
<1>4. work' \in Seq(Values)
  <2>1. w \in Values /\ work \in Seq(Values)
    BY DEF TypeInv
  <2>2. Append(work, w) \in Seq(Values)
    BY <2>1
  <2>. QED  BY <2>1, <2>2 DEF Change
<1>5. uses' \in SUBSET Values /\ \A x \in uses' : HasConstraint(x)
  BY DEF Change, TypeInv
<1>. QED  BY <1>1, <1>2, <1>3, <1>4, <1>5 DEF TypeInv

(* Type correctness.                                                       *)
LEMMA InitTypes == Init => TypeInv
<1> SUFFICES ASSUME Init PROVE TypeInv
  OBVIOUS
<1>1. prog \in Programs /\ scc = Cycles(prog) /\ consts = Consts
  BY DEF Init
<1>2. consts \in SUBSET Z /\ IsFiniteSet(consts)
  BY <1>1, ConstsFact
<1>3. ranges \in [Values -> IntInterval]
  BY ConstantTypes DEF Init
<1>4. env \in Env
  BY DEF Init, Env
<1>. QED  BY <1>1, <1>2, <1>3, <1>4 DEF Init, TypeInv

LEMMA StepKeepsTypes == TypeInv /\ [Next]_vars => TypeInv'
<1> SUFFICES ASSUME TypeInv, [Next]_vars PROVE TypeInv'
  OBVIOUS
<1>0. prog \in Programs /\ ranges \in [Values -> IntInterval] /\ env \in Env /\ comp \in SUBSET Values
  BY DEF TypeInv
<1>1. prog' = prog /\ scc' = scc /\ consts' = consts
  BY DEF Next, Solve, SolveConstraint, SolveValue, StartComponent, Pop, Widen, Narrow, Change,
         EndWiden, EndComponent, Propagate, EndPropagate, Return, EnterHead, Execute, vars
<1>2. /\ Values' = Values /\ Env' = Env
      /\ \A v : HasConstraint(v)' <=> HasConstraint(v)
  BY <1>1, SameProgram
<1> DEFINE Rest == /\ ranges' \in [Values -> IntInterval]
                   /\ phase' \in {"pick", "propagate", "widen", "narrow", "run"}
                   /\ comp' \in SUBSET Values /\ work' \in Seq(Values)
                   /\ uses' \in SUBSET Values /\ \A w \in uses' : HasConstraint(w)
                   /\ env' \in Env /\ pc' \in Nat
<1>3. SUFFICES Rest
  BY <1>1, <1>2 DEF TypeInv
<1>4. \A S, here : UsesOf(S, here) \in SUBSET Values /\ \A w \in UsesOf(S, here) : HasConstraint(w)
  BY <1>0, UsesFact
<1>5. \A S \in SUBSET Values : Fill(S, ranges) \in [Values -> IntInterval]
  BY <1>0, FillFact
<1>6. \A S \in SUBSET Values : \A s \in SetToSeqs(S) : s \in Seq(Values)
  <2> SUFFICES ASSUME NEW S \in SUBSET Values, NEW s \in SetToSeqs(S)
               PROVE  s \in Seq(Values)
    OBVIOUS
  <2>1. IsFiniteSet(S)
    BY <1>0, ProgramShape, FS_Subset
  <2>2. s \in Seq(S)
    BY <2>1, SetToSeqsFact
  <2>. QED  BY <2>2
<1>7. CASE Solve
  <2>1. ASSUME NEW v \in Values, SolveConstraint(v) PROVE Rest
    <3>1. Eval(v, ranges) \in IntInterval
      BY <2>1, EvalType DEF SolveConstraint, TypeInv
    <3>. QED  BY <2>1, <3>1 DEF SolveConstraint, TypeInv
  <2>2. ASSUME NEW v \in Values, SolveValue(v) PROVE Rest
    BY <2>2, <1>4, <1>5 DEF SolveValue, TypeInv
  <2>3. ASSUME NEW v \in Values, StartComponent(v) PROVE Rest
    <3>1. scc[v] \in SUBSET Values
      BY CycleFacts DEF TypeInv
    <3>2. {w \in scc[v] : ranges[w].known} \in SUBSET Values
      BY <3>1
    <3>3. work' \in Seq(Values)
      BY <2>3, <3>2, <1>6 DEF StartComponent
    <3>. QED  BY <2>3, <3>1, <3>3 DEF StartComponent, TypeInv
  <2>4. CASE Pop
    <3>1. work' \in Seq(Values)
      BY <2>4 DEF Pop, TypeInv, Front
    <3>. QED  BY <2>4, <3>1, <1>4 DEF Pop, TypeInv
  <2>5. CASE Widen \/ Narrow
    <3>1. ASSUME NEW w \in uses PROVE w \in Values /\ HasConstraint(w)
      BY <3>1 DEF TypeInv
    <3>. QED  BY <2>5, <3>1, ChangeUnfold, ChangeTypes, StepTypes, <1>2 DEF TypeInv
  <2>6. CASE EndWiden
    <3>1. {v \in comp : Type(v) \in IntTypes} \in SUBSET Values
      BY <1>0
    <3>. QED  BY <2>6, <3>1, <1>0, <1>5, <1>6 DEF EndWiden, TypeInv
  <2>7. CASE EndComponent
    BY <2>7, <1>4 DEF EndComponent, TypeInv
  <2>8. CASE Propagate
    <3>1. Use \in Values /\ HasConstraint(Use)
      BY <2>8, UseFact DEF Propagate, TypeInv
    <3>2. Eval(Use, ranges) \in IntInterval
      BY <1>0, <3>1, EvalType
    <3>. QED  BY <2>8, <3>1, <3>2 DEF Propagate, TypeInv
  <2>9. CASE EndPropagate
    BY <2>9 DEF EndPropagate, TypeInv
  <2>10. CASE Return
    <3>1. NewIntInterval(NInfinity, PInfinity) \in IntInterval
      BY ZTypes, NewType
    <3>. QED  BY <2>10, <3>1 DEF Return, TypeInv
  <2>. QED  BY <1>7, <2>1, <2>2, <2>3, <2>4, <2>5, <2>6, <2>7, <2>8, <2>9, <2>10 DEF Solve
<1>8. CASE EnterHead
  <2>1. ASSUME NEW v \in Heads PROVE Args(v)[1] \in Values /\ Args(v)[2] \in Values /\ v \in Values
    <3>1. v \in Values
      BY <1>0, ProgramShape DEF Heads
    <3>2. Args(v)[1] \in 1..prog.entry /\ Args(v)[2] \in Values
      BY <1>0, <2>1, <3>1, OperandShape
    <3>. QED  BY <1>0, <3>1, <3>2, ProgramShape
  <2>2. env' \in Env
    BY <1>8, <1>0, <2>1 DEF EnterHead, Env
  <2>3. pc' \in Nat
    BY <1>8, <1>0, ProgramShape DEF EnterHead, TypeInv
  <2>. QED  BY <1>8, <2>2, <2>3 DEF EnterHead, TypeInv
<1>9. CASE Execute
  <2>1. \A x : Fits(Type(pc), x) => x \in Int
    <3>1. pc \in Values /\ Type(pc) \in IntTypes \cup {"seq", "chan"}
      BY <1>9, <1>0, ProgramShape DEF Execute, AllTypes
    <3>. QED  BY <3>1, FitsFact
  <2>2. env' \in Env
    BY <1>9, <1>0, <2>1 DEF Execute, Env
  <2>3. pc' \in Nat
    BY <1>9, <1>0, ProgramShape DEF Execute, TypeInv
  <2>. QED  BY <1>9, <2>2, <2>3 DEF Execute, TypeInv
<1>10. CASE UNCHANGED vars
  BY <1>10 DEF vars, TypeInv
<1>. QED  BY <1>7, <1>8, <1>9, <1>10 DEF Next

(* The ranges are intervals, the worklists and components hold values of   *)
(* the function and nothing without a constraint is ever evaluated.        *)
THEOREM VrpTypes == Spec => []TypeInv
BY InitTypes, StepKeepsTypes, PTL DEF Spec

-----------------------------------------------------------------------------
LEMMA InitOrder == Init => OrderInv
BY DEF Init, OrderInv, SolvedInOrder, Idle, Propagating, OnCycle

LEMMA SameFunction ==
  ASSUME [Next]_vars
  PROVE  prog' = prog /\ scc' = scc /\ consts' = consts
BY DEF Next, Solve, SolveConstraint, SolveValue, StartComponent, Pop, Widen, Narrow, Change,
       EndWiden, EndComponent, Propagate, EndPropagate, Return, EnterHead, Execute, vars

(* A value and its constraint are different vertices.                      *)
LEMMA VertexFacts ==
  ASSUME prog \in Programs, NEW v \in Values, NEW w \in Values
  PROVE  -v # w /\ v # -w /\ (-v = -w => v = w)
<1>1. v \in Nat \ {0} /\ w \in Nat \ {0}
  BY ProgramShape
<1>. QED  BY <1>1

LEMMA StepKeepsOrder == TypeInv /\ OrderInv /\ [Next]_vars => OrderInv'
<1> SUFFICES ASSUME TypeInv, OrderInv, [Next]_vars PROVE OrderInv'
  OBVIOUS
<1>0. prog' = prog /\ scc' = scc
  BY SameFunction
<1>1. /\ Values' = Values
      /\ \A v : Operands(v)' = Operands(v) /\ (HasConstraint(v)' <=> HasConstraint(v))
  BY <1>0, SameProgram
<1>2. prog \in Programs /\ comp \in SUBSET Values /\ uses \in SUBSET Values /\ work \in Seq(Values)
  BY DEF TypeInv
<1>3. \A v, w \in Values : -v # w /\ v # -w /\ (-v = -w => v = w)
  BY <1>2, VertexFacts
<1>4. /\ scc \in [Values -> SUBSET Values]
      /\ \A v, w \in Values : w \in scc[v] => scc[w] = scc[v] /\ v \in scc[v] /\ w \in scc[w]
      /\ \A w \in Values : scc[w] # {} => w \in scc[w] /\ Operands(w) \cap scc[w] # {}
      /\ \A w \in Values : w \in Operands(w) => w \in scc[w]
  BY CycleFacts DEF TypeInv
<1>5. \A w \in Values : Operands(w) \subseteq Values
  BY <1>2, OperandShape
<1>6. solved' = solved => SolvedInOrder'
  BY <1>0, <1>1 DEF OrderInv, SolvedInOrder
<1>7. ASSUME NEW v \in Values, SolveConstraint(v) PROVE OrderInv'
  <2>1. SolvedInOrder'
    <3>1. /\ solved' = solved \cup {-v} /\ Operands(v) \subseteq solved /\ scc[v] = {}
      BY <1>7 DEF SolveConstraint
    <3>2. ASSUME NEW w \in Values
          PROVE  /\ w \in solved' \/ -w \in solved' => Operands(w) \subseteq solved'
                 /\ w \in solved' => scc[w] \subseteq solved'
                 /\ w \in solved' /\ HasConstraint(w) => -w \in solved'
      BY <1>3, <3>1 DEF OrderInv, SolvedInOrder
    <3>. QED  BY <1>0, <1>1, <3>2 DEF SolvedInOrder
  <2>2. Idle'
    BY <1>1, <1>7 DEF SolveConstraint, OrderInv, Idle
  <2>3. Propagating' /\ OnCycle'
    BY <1>7 DEF SolveConstraint, Propagating, OnCycle
  <2>. QED  BY <2>1, <2>2, <2>3 DEF OrderInv
<1>8. ASSUME NEW v \in Values, SolveValue(v) PROVE OrderInv'
  <2>1. /\ solved' = solved \cup {v} /\ scc[v] = {} /\ v \notin solved
        /\ HasConstraint(v) => -v \in solved
        /\ comp' = comp /\ comp = {} /\ work' = <<>> /\ phase' = "propagate"
        /\ uses' = UsesOf({v}, FALSE)
    BY <1>8 DEF SolveValue, OrderInv, Idle
  <2>2. SolvedInOrder'
    <3>1. Operands(v) \subseteq solved
      <4>1. CASE HasConstraint(v)
        BY <4>1, <2>1 DEF OrderInv, SolvedInOrder
      <4>2. CASE ~HasConstraint(v)
        BY <4>2, <1>2, ArgShape DEF HasConstraint
      <4>. QED  BY <4>1, <4>2
    <3>2. ASSUME NEW w \in Values
          PROVE  /\ w \in solved' \/ -w \in solved' => Operands(w) \subseteq solved'
                 /\ w \in solved' => scc[w] \subseteq solved'
                 /\ w \in solved' /\ HasConstraint(w) => -w \in solved'
      BY <1>3, <2>1, <3>1 DEF OrderInv, SolvedInOrder
    <3>. QED  BY <1>0, <1>1, <3>2 DEF SolvedInOrder
  <2>3. Idle' /\ OnCycle'
    BY <2>1 DEF Idle, OnCycle
  <2>4. ASSUME NEW w \in uses'
        PROVE  w \notin solved' /\ -w \notin solved' /\ Operands(w) \cap solved' # {}
    <3>1. w \in Values /\ v \in Operands(w)
      BY <2>1, <2>4 DEF UsesOf
    <3>2. w # v
      BY <1>4, <2>1, <3>1
    <3>3. w \notin solved /\ -w \notin solved
      BY <2>1, <3>1 DEF OrderInv, SolvedInOrder
    <3>. QED  BY <1>3, <2>1, <3>1, <3>2, <3>3
  <2>5. Propagating'
    BY <1>1, <2>1, <2>4 DEF Propagating
  <2>. QED  BY <2>2, <2>3, <2>5 DEF OrderInv
<1>9. ASSUME NEW v \in Values, StartComponent(v) PROVE OrderInv'
  <2>1. /\ solved' = solved /\ comp' = scc[v] /\ scc[v] # {} /\ v \notin solved /\ phase' = "widen"
        /\ uses' = {} /\ work' \in SetToSeqs({w \in scc[v] : ranges[w].known})
        /\ \A w \in scc[v] : Operands(w) \subseteq solved \cup scc[v]
    BY <1>9 DEF StartComponent, OrderInv, Idle
  <2>2. Idle' /\ Propagating'
    BY <2>1 DEF Idle, Propagating
  <2>3. ASSUME NEW w \in comp'
        PROVE  /\ w \notin solved' /\ -w \notin solved'
               /\ scc[w] = comp' /\ Operands(w) \subseteq solved' \cup comp'
    <3>1. \A x \in scc[v] : x \in Values /\ scc[x] = scc[v] /\ v \in scc[v]
      BY <1>4
    <3>2. \A x \in scc[v] : x \notin solved
      BY <2>1, <3>1 DEF OrderInv, SolvedInOrder
    <3>3. w \in Values /\ Operands(w) \cap scc[v] # {}
      BY <1>4, <2>1, <3>1
    <3>4. -w \notin solved
      BY <3>2, <3>3 DEF OrderInv, SolvedInOrder
    <3>. QED  BY <2>1, <3>1, <3>2, <3>4
  <2>4. \A i \in DOMAIN work' : work'[i] \in comp'
    <3> DEFINE S == {w \in scc[v] : ranges[w].known}
    <3>1. IsFiniteSet(S) /\ S \subseteq scc[v]
      <4>1. S \subseteq Values /\ S \subseteq scc[v]
        BY <1>4
      <4>. QED  BY <4>1, <1>2, ProgramShape, FS_Subset
    <3>2. work' \in Seq(S)
      <4> HIDE DEF S
      <4>1. work' \in SetToSeqs(S)
        BY <2>1 DEF S
      <4>. QED  BY <3>1, <4>1, SetToSeqsFact
    <3> HIDE DEF S
    <3>. QED  BY <2>1, <3>1, <3>2
  <2>5. OnCycle'
    BY <1>0, <1>1, <2>1, <2>3, <2>4 DEF OnCycle
  <2>. QED  BY <1>6, <2>1, <2>2, <2>5 DEF OrderInv
(* A step that stays within the component.                                 *)
<1>10. ASSUME solved' = solved, phase' = phase, comp' = comp, phase \in {"widen", "narrow"},
              uses' \subseteq comp, \A i \in DOMAIN work' : work'[i] \in comp
       PROVE  OrderInv'
  <2>1. SolvedInOrder' /\ Idle' /\ Propagating'
    BY <1>6, <1>10 DEF Idle, Propagating
  <2>2. OnCycle'
    BY <1>0, <1>1, <1>10 DEF OnCycle, OrderInv
  <2>. QED  BY <2>1, <2>2 DEF OrderInv
<1>11. CASE Pop
  <2>1. /\ solved' = solved /\ phase' = phase /\ comp' = comp /\ phase \in {"widen", "narrow"}
        /\ work' = Front(work) /\ work # <<>> /\ uses' = UsesOf({Last(work)}, TRUE)
    BY <1>11 DEF Pop
  <2>2. uses' \subseteq comp
    BY <1>2, <2>1, UsesFact
  <2>3. \A i \in DOMAIN work' : i \in DOMAIN work /\ work'[i] = work[i]
    BY <1>2, <2>1 DEF Front
  <2>4. \A i \in DOMAIN work' : work'[i] \in comp
    BY <2>1, <2>3 DEF OrderInv, OnCycle
  <2>. QED  BY <1>10, <2>1, <2>2, <2>4
<1>12. CASE Widen \/ Narrow
  <2>1. PICK w \in uses : \E p \in {"widen", "narrow"} : \E changes, new : Change(p, w, changes, new)
    BY <1>12, ChangeUnfold
  <2>2. /\ solved' = solved /\ phase' = phase /\ comp' = comp /\ phase \in {"widen", "narrow"}
        /\ uses' = uses \ {w} /\ work' \in {work, Append(work, w)}
    BY <2>1 DEF Change
  <2>3. uses \subseteq comp /\ \A i \in DOMAIN work : work[i] \in comp
    BY <2>2 DEF OrderInv, OnCycle
  <2>4. \A i \in DOMAIN work' : work'[i] \in comp
    <3>1. \A i \in DOMAIN Append(work, w) : i \in DOMAIN work \/ Append(work, w)[i] = w
      BY <1>2
    <3>2. \A i \in DOMAIN work : Append(work, w)[i] = work[i]
      BY <1>2
    <3>. QED  BY <2>2, <2>3, <3>1, <3>2
  <2>. QED  BY <1>10, <2>2, <2>3, <2>4
<1>13. CASE EndWiden
  <2>1. /\ phase = "widen" /\ phase' = "narrow" /\ solved' = solved /\ comp' = comp /\ uses' = uses
        /\ work' \in SetToSeqs(comp)
    BY <1>13 DEF EndWiden
  <2>2. work' \in Seq(comp)
    <3>1. IsFiniteSet(comp)
      BY <1>2, ProgramShape, FS_Subset
    <3>. QED  BY <2>1, <3>1, SetToSeqsFact
  <2>3. OnCycle'
    BY <1>0, <1>1, <2>1, <2>2 DEF OnCycle, OrderInv
  <2>4. Idle' /\ Propagating'
    BY <2>1 DEF Idle, Propagating
  <2>. QED  BY <1>6, <2>1, <2>3, <2>4 DEF OrderInv
<1>14. CASE EndComponent
  <2>1. /\ phase = "narrow" /\ phase' = "propagate" /\ comp' = comp /\ work' = <<>>
        /\ solved' = solved \cup comp \cup {-v : v \in comp} /\ uses' = UsesOf(comp, FALSE)
    BY <1>14 DEF EndComponent
  <2>2. \A w \in comp : /\ w \notin solved /\ -w \notin solved
                        /\ scc[w] = comp /\ Operands(w) \subseteq solved \cup comp
    BY <2>1 DEF OrderInv, OnCycle
  <2>3. ASSUME NEW w \in Values
        PROVE  /\ w \in solved' <=> w \in solved \/ w \in comp
               /\ -w \in solved' <=> -w \in solved \/ w \in comp
    BY <1>2, <1>3, <2>1
  <2>4. SolvedInOrder'
    <3>1. ASSUME NEW w \in Values
          PROVE  /\ w \in solved' \/ -w \in solved' => Operands(w) \subseteq solved'
                 /\ w \in solved' => scc[w] \subseteq solved'
                 /\ w \in solved' /\ HasConstraint(w) => -w \in solved'
      BY <2>1, <2>2, <2>3 DEF OrderInv, SolvedInOrder
    <3>. QED  BY <1>0, <1>1, <3>1 DEF SolvedInOrder
  <2>5. ASSUME NEW w \in uses'
        PROVE  w \notin solved' /\ -w \notin solved' /\ Operands(w) \cap solved' # {}
    <3>1. w \in Values /\ Operands(w) \cap comp # {} /\ w \notin comp
      BY <1>2, <2>1, UsesFact
    <3>2. w \notin solved /\ -w \notin solved
      BY <2>2, <3>1 DEF OrderInv, SolvedInOrder
    <3>. QED  BY <2>1, <2>3, <3>1, <3>2
  <2>6. Propagating'
    BY <1>1, <2>1, <2>5 DEF Propagating
  <2>7. Idle' /\ OnCycle'
    BY <2>1 DEF Idle, OnCycle
  <2>. QED  BY <2>4, <2>6, <2>7 DEF OrderInv
<1>15. CASE Propagate
  <2>1. Idle' /\ OnCycle'
    BY <1>15 DEF Propagate, OrderInv, Idle, OnCycle
  <2>2. Propagating'
    BY <1>1, <1>15 DEF Propagate, OrderInv, Propagating
  <2>. QED  BY <1>6, <1>15, <2>1, <2>2 DEF Propagate, OrderInv
<1>16. CASE EndPropagate
  <2>1. Idle' /\ OnCycle' /\ Propagating'
    BY <1>16 DEF EndPropagate, OrderInv, Idle, OnCycle, Propagating
  <2>. QED  BY <1>6, <1>16, <2>1 DEF EndPropagate, OrderInv
<1>17. CASE Return
  <2>1. Values \subseteq solved
    BY <1>17 DEF Return, Vertices
  <2>2. Idle' /\ OnCycle' /\ Propagating'
    BY <1>1, <1>17, <2>1 DEF Return, OrderInv, Idle, OnCycle, Propagating
  <2>. QED  BY <1>6, <1>17, <2>2 DEF Return, OrderInv
<1>18. CASE EnterHead \/ Execute \/ UNCHANGED vars
  <2>1. /\ solved' = solved /\ phase' = phase /\ comp' = comp /\ uses' = uses /\ work' = work
    BY <1>18 DEF EnterHead, Execute, vars
  <2>2. Idle' /\ Propagating'
    BY <1>1, <2>1 DEF OrderInv, Idle, Propagating
  <2>3. OnCycle'
    BY <1>0, <1>1, <2>1 DEF OrderInv, OnCycle
  <2>. QED  BY <1>6, <2>1, <2>2, <2>3 DEF OrderInv
<1>. QED
  BY <1>7, <1>8, <1>9, <1>11, <1>12, <1>13, <1>14, <1>15, <1>16, <1>17, <1>18 DEF Next, Solve

-----------------------------------------------------------------------------
(* A run computes nothing but what the values can be.                      *)
LEMMA InitRun == Init => RunInv
<1> SUFFICES ASSUME Init PROVE RunInv
  OBVIOUS
<1>1. prog \in Programs /\ pc = 1 /\ env = [v \in Values |-> NotYet]
  BY DEF Init
<1>2. \A v \in Values : v \in Nat \ {0}
  BY <1>1, ProgramShape
<1>3. Heads \subseteq Values
  BY <1>1, ProgramShape DEF Heads
<1>. QED  BY <1>1, <1>2, <1>3 DEF RunInv

LEMMA RunIsActual ==
  ASSUME TypeInv, RunInv, NEW v \in Values, NEW x \in Results(v, env), Fits(Type(v), x),
         Op(v) = "phi" \/ \A u \in Operands(v) : env[u] # NotYet
  PROVE  x \in Actual[v]
<1>1. prog \in Programs /\ env \in Env
  BY DEF TypeInv
<1>2. Operands(v) \subseteq Values
  BY <1>1, OperandShape
<1>3. Admits(v, env, Actual)
  BY <1>2 DEF Admits, RunInv
<1>4. x \in Int
  BY <1>1, ProgramShape, FitsFact DEF AllTypes
<1>. QED  BY <1>1, <1>3, <1>4, ActualIsClosed DEF Closed

LEMMA StepKeepsRun == TypeInv /\ RunInv /\ [Next]_vars => RunInv'
<1> SUFFICES ASSUME TypeInv, RunInv, [Next]_vars PROVE RunInv'
  OBVIOUS
<1>0. prog' = prog
  BY SameFunction
<1>1. Values' = Values /\ Heads' = Heads /\ Actual' = Actual
  BY <1>0, SameProgram
<1>2. prog \in Programs /\ env \in Env /\ pc \in Nat
  BY DEF TypeInv
<1>3. /\ Len(prog.ins) \in Nat /\ Values = 1..Len(prog.ins)
      /\ prog.entry \in Nat /\ prog.heads \in Nat /\ prog.entry + prog.heads <= Len(prog.ins)
  BY <1>2, ProgramShape
<1>4. Heads = (prog.entry + 1)..(prog.entry + prog.heads) /\ Heads \subseteq Values
  BY <1>3 DEF Heads
<1>5. CASE EnterHead
  <2>1. /\ pc = prog.entry + 1 /\ pc' = pc + prog.heads
        /\ env' = [v \in Values |-> IF v \notin Heads THEN env[v]
                                    ELSE env[Args(v)[IF env[v] = NotYet THEN 1 ELSE 2]]]
    BY <1>5 DEF EnterHead
  <2>2. ASSUME NEW h \in Heads
        PROVE  env'[h] # NotYet /\ env'[h] \in Actual[h]
    <3>1. PICK n \in {1, 2} : n = IF env[h] = NotYet THEN 1 ELSE 2
      OBVIOUS
    <3>2. env'[h] = env[Args(h)[n]]
      BY <1>4, <2>1, <3>1
    <3>3. /\ Args(h)[1] \in 1..prog.entry /\ Args(h)[2] \in Values /\ Op(h) = "phi" /\ h \in Values
          /\ Len(Args(h)) = 2
      BY <1>2, <1>4, OperandShape
    <3>4. Args(h)[n] \in Operands(h) /\ Args(h)[n] \in Values /\ Type(Args(h)[n]) = Type(h)
      <4>1. Args(h)[n] \in Values /\ Args(h)[n] # 0
        BY <1>3, <3>1, <3>3
      <4>2. n \in 1..Len(Args(h))
        BY <3>1, <3>3
      <4>3. Args(h)[n] \in Operands(h)
        BY <1>2, <3>3, <4>1, <4>2, OperandShape
      <4>. QED  BY <1>2, <3>3, <4>1, <4>3, OperandShape
    <3>5. env[Args(h)[n]] # NotYet
      <4>1. CASE env[h] = NotYet
        <5>1. n = 1
          BY <3>1, <4>1
        <5>2. Args(h)[1] < pc
          BY <1>2, <1>3, <2>1, <3>3
        <5>. QED  BY <3>4, <5>1, <5>2 DEF RunInv
      <4>2. CASE env[h] # NotYet
        <5>1. pc <= prog.entry + 1
          BY <1>2, <1>3, <2>1
        <5>. QED  BY <3>4, <4>2, <5>1 DEF RunInv
      <4>. QED  BY <4>1, <4>2
    <3>6. env[Args(h)[n]] \in Actual[Args(h)[n]]
      BY <3>4, <3>5 DEF RunInv
    <3>7. Fits(Type(h), env[Args(h)[n]])
      BY <1>2, <3>4, <3>6, ActualIsMade
    <3>8. env[Args(h)[n]] \in Results(h, env)
      BY <3>3, <3>4, <3>5, ResultsUnfold
    <3>9. env[Args(h)[n]] \in Actual[h]
      BY <3>3, <3>7, <3>8, RunIsActual
    <3>. QED  BY <3>2, <3>5, <3>9
  <2>3. \A v \in Values \ Heads : env'[v] = env[v]
    BY <2>1
  <2>4. \A v \in Values : env'[v] # NotYet => env'[v] \in Actual[v]
    BY <2>2, <2>3 DEF RunInv
  <2>5. ASSUME NEW u \in Values, u < pc' PROVE env'[u] # NotYet
    <3>1. CASE u \in Heads
      BY <2>2, <3>1
    <3>2. CASE u \notin Heads
      <4>1. u < pc
        BY <1>2, <1>3, <1>4, <2>1, <2>5, <3>2
      <4>. QED  BY <2>3, <3>2, <4>1 DEF RunInv
    <3>. QED  BY <3>1, <3>2
  <2>6. pc' <= prog.entry + 1 => Heads = {}
    BY <1>3, <1>4, <2>1
  <2>. QED  BY <1>0, <1>1, <2>4, <2>5, <2>6 DEF RunInv
<1>6. CASE Execute
  <2>1. /\ pc \notin Heads /\ pc \in Values
        /\ pc' = IF pc = Len(prog.ins) THEN prog.entry + 1 ELSE pc + 1
    BY <1>6 DEF Execute
  <2>2. PICK x \in Results(pc, env) : Fits(Type(pc), x) /\ env' = [env EXCEPT ![pc] = x]
    BY <1>6 DEF Execute
  <2>3. \A u \in Operands(pc) : env[u] # NotYet
    BY <1>2, <2>1, OperandShape DEF RunInv
  <2>4. x \in Actual[pc]
    BY <2>1, <2>2, <2>3, RunIsActual
  <2>5. x # NotYet
    BY <1>2, <2>1, <2>4, ActualIsMade, InputsAssumption
  <2>6. env'[pc] = x /\ \A u \in Values \ {pc} : env'[u] = env[u]
    BY <1>2, <2>1, <2>2 DEF Env
  <2>7. \A v \in Values : env'[v] # NotYet => env'[v] \in Actual[v]
    BY <2>4, <2>6 DEF RunInv
  <2>8. \A u \in Values : u <= pc => env'[u] # NotYet
    <3>1. \A u \in Values : u <= pc => u < pc \/ u = pc
      BY <1>2, <1>3
    <3>. QED  BY <2>5, <2>6, <3>1 DEF RunInv
  <2>9. \A u \in Values : u < pc' => u <= pc
    BY <1>2, <1>3, <2>1
  <2>10. ASSUME pc' <= prog.entry + 1
         PROVE  (\A h \in Heads : env'[h] = NotYet) \/ (\A u \in Values : env'[u] # NotYet)
    <3>1. CASE pc = Len(prog.ins)
      BY <1>3, <2>8, <3>1
    <3>2. CASE pc # Len(prog.ins)
      <4>1. pc <= prog.entry + 1
        BY <1>2, <1>3, <2>1, <2>10, <3>2
      <4>. QED  BY <1>4, <2>1, <2>5, <2>6, <4>1 DEF RunInv
    <3>. QED  BY <3>1, <3>2
  <2>. QED  BY <1>0, <1>1, <2>7, <2>8, <2>9, <2>10 DEF RunInv
<1>7. CASE Solve \/ UNCHANGED vars
  <2>1. env' = env /\ pc' = pc
    BY <1>7 DEF Solve, SolveConstraint, SolveValue, StartComponent, Pop, Widen, Narrow, Change,
                EndWiden, EndComponent, Propagate, EndPropagate, Return, vars
  <2>. QED  BY <1>0, <1>1, <2>1 DEF RunInv
<1>. QED  BY <1>5, <1>6, <1>7 DEF Next

-----------------------------------------------------------------------------
(* When widening is done nothing on the cycle is unknown: of the unknown   *)
(* values the first would lack an operand that comes before it.            *)
LEMMA WideningLeavesNothing ==
  ASSUME TypeInv, OrderInv, KnownInv, phase = "widen", uses = {}, work = <<>>
  PROVE  \A w \in comp : ranges[w].known
<1> DEFINE T == {w \in comp : ~ranges[w].known}
<1>1. prog \in Programs /\ comp \in SUBSET Values
  BY DEF TypeInv
<1>2. Values = 1..Len(prog.ins) /\ Len(prog.ins) \in Nat /\ prog.entry \in Nat /\ prog.heads \in Nat
  BY <1>1, ProgramShape
<1>3. \A w \in T : Starved(w)
  BY DEF KnownInv, UnknownIsStarved
<1>4. ASSUME T # {} PROVE FALSE
  <2>1. T \in SUBSET Nat
    <3>1. Values \subseteq Nat
      BY <1>2
    <3>. QED  BY <1>1, <3>1
  <2>2. PICK w \in T : \A x \in T : w <= x
    <3> HIDE DEF T
    <3>. QED  BY <1>4, <2>1, FirstExists
  <2>3. w \in Values /\ Starved(w) /\ Operands(w) \subseteq solved \cup comp
    BY <1>1, <1>3 DEF OrderInv, OnCycle
  <2>4. \A u \in Operands(w) : ~ranges[u].known => u \in T
    BY <1>1, <2>3, OperandShape DEF KnownInv
  <2>5. ASSUME NEW u \in Operands(w), ~ranges[u].known, u < w PROVE FALSE
    <3>1. u \in T
      BY <2>4, <2>5
    <3>2. w <= u
      BY <2>2, <3>1
    <3>. QED  BY <2>1, <2>5, <3>1, <3>2
  <2>6. CASE w \in Heads
    <3>1. Op(w) = "phi" /\ Args(w)[1] \in 1..prog.entry /\ Len(Args(w)) = 2
      BY <1>1, <2>3, <2>6, OperandShape
    <3>2. Args(w)[1] \in Operands(w)
      <4>1. 1 \in 1..Len(Args(w)) /\ Args(w)[1] # 0
        BY <1>2, <3>1
      <4>. QED  BY <1>1, <2>3, <4>1, OperandShape
    <3>3. Args(w)[1] < w
      BY <1>2, <2>6, <3>1 DEF Heads
    <3>. QED  BY <2>3, <2>5, <3>1, <3>2, <3>3 DEF Starved
  <2>7. CASE w \notin Heads
    <3>1. \A u \in Operands(w) : u < w
      BY <1>1, <2>3, <2>7, OperandShape
    <3>. QED  BY <2>3, <2>5, <3>1 DEF Starved
  <2>. QED  BY <2>6, <2>7
<1>. QED  BY <1>4

LEMMA SameCycles ==
  ASSUME [Next]_vars
  PROVE  (ChannelsOffCycles' <=> ChannelsOffCycles) /\ (ProperCycles' <=> ProperCycles)
<1>1. prog' = prog /\ scc' = scc
  BY SameFunction
<1>2. Values' = Values /\ \A v : Type(v)' = Type(v) /\ Op(v)' = Op(v) /\ Args(v)' = Args(v)
  BY <1>1, SameProgram
<1>3. ChannelsOffCycles' <=> ChannelsOffCycles
  BY <1>1, <1>2 DEF ChannelsOffCycles
<1>. QED  BY <1>1, <1>2, <1>3 DEF ProperCycles

LEMMA InitKnown == Init => KnownInv
BY DEF Init, KnownInv, PhisKnown, UnknownIsStarved

LEMMA StepKeepsKnown ==
  TypeInv /\ OrderInv /\ ChannelsOffCycles /\ KnownInv /\ [Next]_vars => KnownInv'
<1> SUFFICES ASSUME TypeInv, OrderInv, ChannelsOffCycles, KnownInv, [Next]_vars PROVE KnownInv'
  OBVIOUS
<1>0. prog' = prog /\ scc' = scc
  BY SameFunction
<1>1. Values' = Values /\ \A v : Op(v)' = Op(v) /\ Operands(v)' = Operands(v)
  BY <1>0, SameProgram
<1>2. /\ prog \in Programs /\ comp \in SUBSET Values /\ uses \in SUBSET Values /\ work \in Seq(Values)
      /\ ranges \in [Values -> IntInterval] /\ consts \in SUBSET Z /\ IsFiniteSet(consts)
      /\ \A w \in uses : HasConstraint(w)
  BY DEF TypeInv
<1>3. \A v \in Values : HasConstraint(v) =>
        /\ Eval(v, ranges) \in IntInterval
        /\ Op(v) = "phi" \/ (\A u \in Operands(v) : ranges[u].known) => Eval(v, ranges).known
  BY <1>2, EvalType
<1>4. \A w \in Values : Operands(w) \subseteq Values
  BY <1>2, OperandShape
<1>5. /\ \A w \in Values : w \in solved => ranges[w].known
      /\ \A i \in DOMAIN work : ranges[work[i]].known
      /\ phase = "narrow" => \A w \in comp : ranges[w].known
  BY DEF KnownInv
<1> DEFINE Phis == \A w \in Values \ (comp' \cup uses' \cup solved') :
                     Op(w) = "phi" /\ scc[w] # {} /\ Operands(w) \cap solved' # {} => ranges'[w].known
<1>6. Phis => PhisKnown'
  BY <1>0, <1>1 DEF PhisKnown
<1>6a. ASSUME work' = <<>>, phase' \notin {"widen", "narrow"}, Phis,
              \A w \in Values : w \in solved' => ranges'[w].known
       PROVE  KnownInv'
  <2>1. \A i \in DOMAIN work' : FALSE
    BY <1>6a
  <2>. QED  BY <1>1, <1>6, <1>6a, <2>1 DEF KnownInv, UnknownIsStarved
<1>7. ASSUME NEW v \in Values, SolveConstraint(v) PROVE KnownInv'
  <2>1. /\ phase = "pick" /\ phase' = "pick" /\ solved' = solved \cup {-v} /\ -v \notin solved
        /\ HasConstraint(v) /\ scc[v] = {} /\ comp' = comp /\ uses' = uses /\ work' = <<>>
        /\ ranges' = [ranges EXCEPT ![v] = Eval(v, ranges)]
    BY <1>7 DEF SolveConstraint, OrderInv, Idle
  <2>2. v \notin solved /\ \A w \in Values : w \in solved' <=> w \in solved
    BY <2>1, <1>2, VertexFacts DEF OrderInv, SolvedInOrder
  <2>3. \A w \in Values \ {v} : ranges'[w] = ranges[w]
    BY <1>2, <2>1
  <2>4. Phis
    BY <1>4, <2>1, <2>2, <2>3 DEF KnownInv, PhisKnown
  <2>5. \A w \in Values : w \in solved' => ranges'[w].known
    BY <1>5, <2>2, <2>3
  <2>. QED  BY <1>6a, <2>1, <2>4, <2>5
<1>8. ASSUME NEW v \in Values, SolveValue(v) PROVE KnownInv'
  <2>1. /\ phase = "pick" /\ phase' = "propagate" /\ solved' = solved \cup {v}
        /\ scc[v] = {} /\ comp' = comp /\ comp = {} /\ uses = {} /\ uses' = UsesOf({v}, FALSE)
        /\ work' = <<>> /\ ranges' = Fill({v}, ranges)
    BY <1>8 DEF SolveValue, OrderInv, Idle
  <2>2. ranges'[v].known /\ \A w \in Values \ {v} : ranges'[w] = ranges[w]
    <3>1. {v} \in SUBSET Values
      OBVIOUS
    <3>2. \A w \in Values : Fill({v}, ranges)[w] = IF w \in {v} /\ ~ranges[w].known
                                                    THEN Default(w) ELSE ranges[w]
      BY <1>2, <3>1, FillFact
    <3>3. Default(v).known
      BY <1>2, <3>1, FillFact
    <3>. QED  BY <2>1, <3>2, <3>3
  <2>3. \A w \in Values \ uses' : v \notin Operands(w)
    BY <2>1 DEF UsesOf
  <2>4. Phis
    <3> SUFFICES ASSUME NEW w \in Values \ (comp' \cup uses' \cup solved'), Op(w) = "phi", scc[w] # {},
                        Operands(w) \cap solved' # {}
                 PROVE  ranges'[w].known
      OBVIOUS
    <3>1. w \notin solved /\ w # v /\ v \notin Operands(w)
      BY <2>1, <2>3
    <3>2. Operands(w) \cap solved # {}
      BY <2>1, <3>1
    <3>3. ranges[w].known
      BY <2>1, <3>1, <3>2 DEF KnownInv, PhisKnown
    <3>. QED  BY <2>2, <3>1, <3>3
  <2>5. \A w \in Values : w \in solved' => ranges'[w].known
    BY <1>5, <2>1, <2>2
  <2>. QED  BY <1>6a, <2>1, <2>4, <2>5
<1>9. ASSUME NEW v \in Values, StartComponent(v) PROVE KnownInv'
  <2> DEFINE S == {w \in scc[v] : ranges[w].known}
  <2>1. /\ phase = "pick" /\ phase' = "widen" /\ solved' = solved /\ ranges' = ranges
        /\ comp = {} /\ comp' = scc[v] /\ scc[v] # {} /\ v \notin solved /\ uses' = {} /\ uses = {}
        /\ work' \in SetToSeqs(S) /\ \A w \in scc[v] : Operands(w) \subseteq solved \cup scc[v]
    BY <1>9 DEF StartComponent, OrderInv, Idle
  <2>2. \A w \in scc[v] : w \in Values /\ scc[w] = scc[v] /\ v \in scc[v]
                          /\ Operands(w) \cap scc[v] # {} /\ w \notin solved
    <3>1. \A w \in scc[v] : w \in Values /\ scc[w] = scc[v] /\ v \in scc[v]
      BY CycleFacts DEF TypeInv
    <3>2. \A w \in scc[v] : Operands(w) \cap scc[v] # {}
      BY <2>1, <3>1, CycleFacts DEF TypeInv
    <3>3. \A w \in scc[v] : w \notin solved
      BY <2>1, <3>1 DEF OrderInv, SolvedInOrder
    <3>. QED  BY <3>1, <3>2, <3>3
  <2>3. work' \in Seq(S) /\ \A x \in S : \E i \in DOMAIN work' : work'[i] = x
    <3>1. S \in SUBSET Values
      BY <2>2
    <3>2. IsFiniteSet(S)
      <4> HIDE DEF S
      <4>. QED  BY <1>2, <3>1, ProgramShape, FS_Subset
    <3> HIDE DEF S
    <3>. QED  BY <2>1, <3>2, SetToSeqsFact
  <2>4. \A i \in DOMAIN work' : work'[i] \in S
    <3> HIDE DEF S
    <3>. QED  BY <2>3
  <2>5. Phis
    BY <2>1 DEF KnownInv, PhisKnown
  <2>6. ASSUME NEW w \in scc[v], ~ranges[w].known, \A i \in DOMAIN work' : work'[i] \notin Operands(w)
        PROVE  /\ Op(w) = "phi" => \A u \in Operands(w) : ~ranges[u].known
               /\ \E u \in Operands(w) \cap scc[v] : ~ranges[u].known
    <3>1. \A u \in Operands(w) \cap scc[v] : ~ranges[u].known
      BY <2>3, <2>6
    <3>2. Op(w) = "phi" => Operands(w) \cap solved = {}
      BY <2>1, <2>2, <2>6 DEF KnownInv, PhisKnown
    <3>. QED  BY <2>1, <2>2, <3>1, <3>2
  <2>7. UnknownIsStarved'
    BY <1>1, <2>1, <2>6 DEF UnknownIsStarved, Starved
  <2>8. \A i \in DOMAIN work' : ranges'[work'[i]].known
    BY <2>1, <2>4
  <2>. QED  BY <1>1, <1>5, <1>6, <2>1, <2>5, <2>7, <2>8 DEF KnownInv
<1>10. CASE Pop
  <2>1. /\ phase' = phase /\ phase \in {"widen", "narrow"} /\ solved' = solved /\ ranges' = ranges
        /\ comp' = comp /\ uses = {} /\ work # <<>> /\ work' = Front(work)
        /\ uses' = UsesOf({Last(work)}, TRUE)
    BY <1>10 DEF Pop
  <2>2. /\ \A i \in DOMAIN work' : i \in DOMAIN work /\ work'[i] = work[i]
        /\ \A i \in DOMAIN work : i \in DOMAIN work' \/ work[i] = Last(work)
        /\ \A i \in DOMAIN work' : work'[i] = work[i]
    BY <1>2, <2>1 DEF Front, Last
  <2>3. \A w \in comp \ uses' : Last(work) \notin Operands(w)
    BY <1>2, <2>1 DEF UsesOf
  <2>4. \A w \in comp \ uses' : (\E i \in DOMAIN work : work[i] \in Operands(w))
                                => \E i \in DOMAIN work' : work'[i] \in Operands(w)
    BY <2>2, <2>3
  <2>5. UnknownIsStarved'
    BY <1>1, <2>1, <2>4 DEF KnownInv, UnknownIsStarved, Starved
  <2>6. Phis
    BY <2>1 DEF KnownInv, PhisKnown
  <2>. QED  BY <1>1, <1>5, <1>6, <2>1, <2>2, <2>5, <2>6 DEF KnownInv
<1>11. ASSUME NEW p \in {"widen", "narrow"}, NEW w \in uses, NEW changes, NEW new \in IntInterval,
              Change(p, w, changes, new), new.known
       PROVE  /\ \A v \in Values : v \in solved' => ranges'[v].known
              /\ \A i \in DOMAIN work' : ranges'[work'[i]].known
              /\ \A v \in Values : ranges[v].known => ranges'[v].known
              /\ PhisKnown'
  <2>1. /\ phase = p /\ phase' = phase /\ solved' = solved /\ comp' = comp /\ uses' = uses \ {w}
    BY <1>11 DEF Change
  <2>2. w \in Values /\ w \in comp /\ w \notin solved /\ uses \subseteq comp
    BY <1>2, <2>1 DEF OrderInv, OnCycle
  <2>3. ranges' = ranges \/ ranges' = [ranges EXCEPT ![w] = new]
    BY <1>11 DEF Change
  <2>4. \A v \in Values \ {w} : ranges'[v] = ranges[v]
    BY <1>2, <2>3
  <2>5. \A v \in Values : ranges[v].known => ranges'[v].known
    BY <1>2, <1>11, <2>3
  <2>6. Phis
    BY <2>1, <2>2, <2>4 DEF KnownInv, PhisKnown
  <2>7. \A i \in DOMAIN work' : ranges'[work'[i]].known
    <3>1. CASE work' = work
      <4>1. \A i \in DOMAIN work : work[i] \in Values
        BY <1>2
      <4>. QED  BY <1>5, <2>5, <3>1, <4>1
    <3>2. CASE ranges' = [ranges EXCEPT ![w] = new] /\ work' = Append(work, w)
      <4>1. \A i \in DOMAIN work' : (i \in DOMAIN work /\ work'[i] = work[i] /\ work[i] \in Values)
                                    \/ work'[i] = w
        BY <1>2, <3>2
      <4>2. ranges'[w].known
        BY <1>2, <1>11, <2>2, <3>2
      <4>. QED  BY <1>5, <2>5, <4>1, <4>2
    <3>. QED  BY <1>11, <3>1, <3>2 DEF Change
  <2>. QED  BY <1>5, <1>6, <2>1, <2>5, <2>6, <2>7
<1>12. CASE Widen
  <2> DEFINE ni(w) == Eval(w, ranges)
             new(w) == WidenInterval(consts, ranges[w], ni(w))
  <2>1. PICK w \in uses : Change("widen", w, WidenChanges(ranges[w], ni(w)), new(w))
    BY <1>12, ChangeUnfold
  <2>2. /\ phase = "widen" /\ phase' = phase /\ solved' = solved /\ comp' = comp /\ uses' = uses \ {w}
    BY <2>1 DEF Change
  <2>3. /\ w \in Values /\ w \in comp /\ uses \subseteq comp
        /\ Operands(w) \subseteq solved \cup comp /\ Type(w) # "chan"
    <3>1. w \in Values /\ w \in comp /\ uses \subseteq comp /\ scc[w] = comp
          /\ Operands(w) \subseteq solved \cup comp
      BY <1>2, <2>2 DEF OrderInv, OnCycle
    <3>. QED  BY <3>1 DEF ChannelsOffCycles
  <2>4. /\ ni(w) \in IntInterval /\ ranges[w] \in IntInterval
        /\ Op(w) = "phi" \/ (\A u \in Operands(w) : ranges[u].known) => ni(w).known
    BY <1>2, <1>3, <2>3
  <2>5. /\ new(w) \in IntInterval
        /\ WidenChanges(ranges[w], ni(w)) => new(w).known
        /\ ~WidenChanges(ranges[w], ni(w)) => new(w) = ranges[w]
        /\ ni(w).known => WidenChanges(ranges[w], ni(w)) \/ ranges[w].known
    <3> HIDE DEF ni
    <3>. QED  BY <1>2, <2>4, LoopTypes
  <2> HIDE DEF ni, new
  <2>6. CASE WidenChanges(ranges[w], ni(w))
    <3>1. ranges' = [ranges EXCEPT ![w] = new(w)] /\ work' = Append(work, w)
      BY <2>1, <2>3, <2>6 DEF Change
    <3>2. ranges'[w].known /\ \A v \in Values \ {w} : ranges'[v] = ranges[v]
      BY <1>2, <2>3, <2>5, <2>6, <3>1
    <3>3. (\E i \in DOMAIN work' : work'[i] = w)
          /\ \A i \in DOMAIN work : i \in DOMAIN work' /\ work'[i] = work[i]
      <4>1. Len(work) + 1 \in DOMAIN work' /\ work'[Len(work) + 1] = w
        BY <1>2, <2>3, <3>1
      <4>2. \A i \in DOMAIN work : i \in DOMAIN work' /\ work'[i] = work[i]
        BY <1>2, <2>3, <3>1
      <4>. QED  BY <4>1, <4>2
    <3>4. ASSUME NEW y \in comp \ uses', ~ranges'[y].known,
                 \A i \in DOMAIN work' : work'[i] \notin Operands(y)
          PROVE  /\ Op(y) = "phi" => \A u \in Operands(y) : ~ranges'[u].known
                 /\ \E u \in Operands(y) \cap comp : ~ranges'[u].known
      <4>1. y # w /\ y \in comp \ uses /\ y \in Values /\ w \notin Operands(y)
        BY <1>2, <2>2, <3>2, <3>3, <3>4
      <4>2. \A u \in Operands(y) : ranges'[u] = ranges[u]
        BY <1>4, <3>2, <4>1
      <4>3. Starved(y)
        BY <2>2, <3>2, <3>3, <3>4, <4>1 DEF KnownInv, UnknownIsStarved
      <4>. QED  BY <4>2, <4>3 DEF Starved
    <3>5. UnknownIsStarved'
      BY <1>1, <2>2, <3>4 DEF UnknownIsStarved, Starved
    <3>. QED  BY <1>1, <1>11, <2>1, <2>2, <2>5, <2>6, <3>5 DEF KnownInv
  <2>7. CASE ~WidenChanges(ranges[w], ni(w))
    <3>1. ranges' = ranges /\ work' = work
      BY <2>1, <2>7 DEF Change
    <3>2. ~ranges[w].known => Starved(w)
      <4>1. ~ranges[w].known => Op(w) # "phi" /\ \E u \in Operands(w) : ~ranges[u].known
        BY <2>4, <2>5, <2>7
      <4>2. \A u \in Operands(w) : ~ranges[u].known => u \in comp
        BY <1>4, <1>5, <2>3
      <4>. QED  BY <4>1, <4>2 DEF Starved
    <3>3. UnknownIsStarved'
      BY <1>1, <2>2, <3>1, <3>2 DEF KnownInv, UnknownIsStarved, Starved
    <3>4. Phis
      BY <2>2, <2>3, <3>1 DEF KnownInv, PhisKnown
    <3>. QED  BY <1>1, <1>5, <1>6, <2>2, <3>1, <3>3, <3>4 DEF KnownInv
  <2>. QED  BY <2>6, <2>7
<1>13. CASE Narrow
  <2> DEFINE ni(w) == Eval(w, ranges)
             new(w) == NarrowInterval(ranges[w], ni(w))
  <2>1. PICK w \in uses : Change("narrow", w, NarrowChanges(ranges[w], ni(w)), new(w))
    BY <1>13, ChangeUnfold
  <2>2. phase = "narrow" /\ phase' = phase /\ comp' = comp
    BY <2>1 DEF Change
  <2>3. w \in Values /\ w \in comp /\ ranges[w].known
    BY <1>2, <1>5, <2>2 DEF OrderInv, OnCycle
  <2>4. ni(w) \in IntInterval /\ ranges[w] \in IntInterval
    BY <1>2, <1>3, <2>3
  <2>5. new(w) \in IntInterval /\ new(w).known
    <3> HIDE DEF ni
    <3>. QED  BY <1>2, <2>3, <2>4, LoopTypes
  <2> HIDE DEF ni, new
  <2>6. /\ \A v \in Values : v \in solved' => ranges'[v].known
        /\ \A i \in DOMAIN work' : ranges'[work'[i]].known
        /\ \A v \in Values : ranges[v].known => ranges'[v].known
        /\ PhisKnown'
    BY <1>11, <2>1, <2>5
  <2>. QED  BY <1>1, <1>2, <1>5, <2>2, <2>6 DEF KnownInv, UnknownIsStarved
<1>14. CASE EndWiden
  <2> DEFINE S == {v \in comp : Type(v) \in IntTypes}
  <2>1. /\ phase = "widen" /\ phase' = "narrow" /\ solved' = solved /\ comp' = comp /\ uses' = uses
        /\ uses = {} /\ work = <<>> /\ work' \in SetToSeqs(comp) /\ ranges' = Fill(S, ranges)
    BY <1>14 DEF EndWiden
  <2>2. \A w \in comp : ranges[w].known
    BY <2>1, WideningLeavesNothing
  <2>3. \A v \in Values : ranges'[v] = ranges[v]
    <3>1. S \in SUBSET Values /\ S \subseteq comp
      BY <1>2
    <3> HIDE DEF S
    <3>2. \A w \in Values : Fill(S, ranges)[w] = IF w \in S /\ ~ranges[w].known
                                                  THEN Default(w) ELSE ranges[w]
      BY <1>2, <3>1, FillFact
    <3>. QED  BY <2>1, <2>2, <3>1, <3>2
  <2>4. work' \in Seq(comp)
    <3>1. IsFiniteSet(comp)
      BY <1>2, ProgramShape, FS_Subset
    <3>. QED  BY <2>1, <3>1, SetToSeqsFact
  <2>5. \A i \in DOMAIN work' : ranges'[work'[i]].known
    BY <1>2, <2>2, <2>3, <2>4
  <2>6. Phis
    BY <2>1, <2>3 DEF KnownInv, PhisKnown
  <2>7. \A v \in Values : (v \in solved' \/ v \in comp') => ranges'[v].known
    BY <1>5, <2>1, <2>2, <2>3
  <2>. QED  BY <1>1, <1>2, <1>6, <2>1, <2>5, <2>6, <2>7 DEF KnownInv, UnknownIsStarved
<1>15. CASE EndComponent
  <2>1. /\ phase = "narrow" /\ phase' = "propagate" /\ comp' = comp /\ work' = <<>> /\ ranges' = ranges
        /\ solved' = solved \cup comp \cup {-v : v \in comp} /\ uses' = UsesOf(comp, FALSE)
        /\ uses = {}
    BY <1>15 DEF EndComponent
  <2>2. \A w \in Values : w \in solved' <=> w \in solved \/ w \in comp
    BY <1>2, <2>1, VertexFacts
  <2>3. Phis
    <3>1. \A w \in Values \ (comp \cup uses') : Operands(w) \cap comp = {}
      BY <2>1 DEF UsesOf
    <3> SUFFICES ASSUME NEW w \in Values \ (comp' \cup uses' \cup solved'), Op(w) = "phi", scc[w] # {},
                        Operands(w) \cap solved' # {}
                 PROVE  ranges'[w].known
      OBVIOUS
    <3>2. w \notin solved /\ w \notin comp /\ Operands(w) \cap comp = {}
      BY <2>1, <2>2, <3>1
    <3>3. Operands(w) \cap solved # {}
      BY <1>4, <2>2, <3>2
    <3>. QED  BY <2>1, <3>2, <3>3 DEF KnownInv, PhisKnown
  <2>4. \A w \in Values : w \in solved' => ranges'[w].known
    BY <1>5, <2>1, <2>2
  <2>. QED  BY <1>6a, <2>1, <2>3, <2>4
<1>16. CASE Propagate
  <2>1. PICK w \in uses : /\ ranges' = [ranges EXCEPT ![w] = Eval(w, ranges)]
                          /\ uses' = uses \ {w}
    BY <1>2, <1>16, UseFact DEF Propagate
  <2>2. /\ phase = "propagate" /\ phase' = "propagate" /\ solved' = solved /\ comp' = comp
        /\ work' = <<>> /\ w \notin solved
    BY <1>16 DEF Propagate, OrderInv, Idle, Propagating
  <2>3. w \in Values /\ ranges'[w] = Eval(w, ranges) /\ \A v \in Values \ {w} : ranges'[v] = ranges[v]
    BY <1>2, <2>1
  <2>4. Op(w) = "phi" => ranges'[w].known
    BY <1>2, <1>3, <2>3
  <2>5. Phis
    BY <2>1, <2>2, <2>3, <2>4 DEF KnownInv, PhisKnown
  <2>6. \A v \in Values : v \in solved' => ranges'[v].known
    BY <1>5, <2>2, <2>3
  <2>. QED  BY <1>6a, <2>2, <2>5, <2>6
<1>17. CASE EndPropagate
  <2>1. /\ phase' = "pick" /\ solved' = solved /\ comp' = {} /\ uses' = uses /\ ranges' = ranges
        /\ work' = <<>> /\ comp \subseteq solved
    BY <1>17 DEF EndPropagate, OrderInv, Idle, Propagating
  <2>2. Phis
    BY <2>1 DEF KnownInv, PhisKnown
  <2>. QED  BY <1>5, <1>6a, <2>1, <2>2
<1>18. CASE Return
  <2>1. /\ phase' = "run" /\ solved' = solved /\ Values \subseteq solved /\ work' = <<>>
    BY <1>18 DEF Return, Vertices, OrderInv, Idle
  <2>2. ranges' = [v \in Values |-> IF Wraps(Type(v), ranges[v])
                                    THEN NewIntInterval(NInfinity, PInfinity) ELSE ranges[v]]
    BY <1>18 DEF Return
  <2>3. \A v \in Values : ranges'[v].known
    BY <1>5, <2>1, <2>2, ZTypes, NewType
  <2>4. Phis
    BY <2>3
  <2>. QED  BY <1>6a, <2>1, <2>3, <2>4
<1>19. CASE EnterHead \/ Execute \/ UNCHANGED vars
  <2>1. /\ solved' = solved /\ phase' = phase /\ comp' = comp /\ uses' = uses /\ work' = work
        /\ ranges' = ranges
    BY <1>19 DEF EnterHead, Execute, vars
  <2>2. Phis
    BY <2>1 DEF KnownInv, PhisKnown
  <2>3. UnknownIsStarved'
    BY <1>1, <2>1 DEF KnownInv, UnknownIsStarved, Starved
  <2>. QED  BY <1>1, <1>5, <1>6, <2>1, <2>2, <2>3 DEF KnownInv
<1>. QED
  BY <1>7, <1>8, <1>9, <1>10, <1>12, <1>13, <1>14, <1>15, <1>16, <1>17, <1>18, <1>19 DEF Next, Solve

-----------------------------------------------------------------------------
(* A phi includes what one of its operands includes.                       *)
LEMMA PhiIncludes ==
  ASSUME prog \in Programs, NEW v \in Values, Op(v) = "phi", NEW r \in [Values -> IntInterval],
         NEW u \in Operands(v), NEW x \in Int, Includes(r[u], x)
  PROVE  Includes(Eval(v, r), x)
<1>1. /\ Operands(v) \subseteq Values
      /\ \E n \in 1..Len(Args(v)) : u = Args(v)[n]
  BY OperandShape
<1>2. PICK n \in 1..Len(Args(v)) : u = Args(v)[n]
  BY <1>1
<1>3. Args(v) \in Seq(Values)
  <2>1. Args(v) \in Seq(Operands(v))
    BY ArgShape
  <2>. QED  BY <1>1, <2>1
<1>4. Includes(Joined(Args(v), r), x)
  BY <1>2, <1>3, JoinedIsSound
<1>. QED  BY <1>4, EvalUnfold

(* Before the first evaluation of a cycle the range of a value on it       *)
(* covers what can be made of operands with a range: nothing, but for a    *)
(* phi what comes from outside.                                            *)
LEMMA UnreachedIsCovered ==
  ASSUME prog \in Programs, NEW S \in SUBSET Values, NEW w \in S, NEW r \in [Values -> IntInterval],
         Operands(w) \cap S # {}, \A u \in Operands(w) \cap S : ~r[u].known,
         Op(w) = "phi" => \A u \in Operands(w) \ S : \A x \in Actual[u] : Includes(r[w], x)
  PROVE  Covers(w, S, r)
<1> SUFFICES ASSUME NEW e \in Env, NEW x \in Int, Admits(w, e, Actual), Kept(w, e, S, r),
                    x \in Results(w, e), Fits(Type(w), x)
             PROVE  Includes(r[w], x)
  BY DEF Covers
<1>1. \A u \in Operands(w) \cap S : Op(w) = "phi" /\ e[u] = NotYet
  BY DEF Kept, Includes
<1>2. Op(w) = "phi"
  BY <1>1
<1>3. PICK u \in Operands(w) : x = e[u] /\ x # NotYet
  BY <1>2, ResultsUnfold
<1>4. u \notin S /\ x \in Actual[u]
  BY <1>1, <1>3 DEF Admits
<1>. QED  BY <1>2, <1>4

(* What a range covers depends on the operands' ranges and its own.        *)
LEMMA CoversSame ==
  ASSUME NEW v, NEW S, NEW r, NEW q, Covers(v, S, r), q[v] = r[v], \A u \in Operands(v) : q[u] = r[u]
  PROVE  Covers(v, S, q)
BY DEF Covers, Kept

LEMMA InitSound == Init => SoundInv
<1> SUFFICES ASSUME Init PROVE SoundInv
  OBVIOUS
<1>1. \A v \in Values : ~ranges[v].known
  BY ConstantTypes DEF Init
<1>2. SolvedIsSound /\ PhisInclude
  BY <1>1 DEF Init, SolvedIsSound, PhisInclude
<1>. QED  BY <1>2 DEF Init, SoundInv, CycleIsCovered

LEMMA StepKeepsSound ==
  TypeInv /\ OrderInv /\ ProperCycles /\ KnownInv /\ SoundInv /\ [Next]_vars => SoundInv'
<1> SUFFICES ASSUME TypeInv, OrderInv, ProperCycles, KnownInv, SoundInv, [Next]_vars
             PROVE  SoundInv'
  OBVIOUS
<1>0. prog' = prog /\ scc' = scc
  BY SameFunction
<1>1. /\ Values' = Values /\ Env' = Env /\ Actual' = Actual
      /\ \A v : Op(v)' = Op(v) /\ Operands(v)' = Operands(v) /\ Type(v)' = Type(v)
      /\ \A v, e : Results(v, e)' = Results(v, e)
  BY <1>0, SameProgram
<1>2. /\ prog \in Programs /\ comp \in SUBSET Values /\ uses \in SUBSET Values /\ work \in Seq(Values)
      /\ ranges \in [Values -> IntInterval] /\ consts \in SUBSET Z /\ IsFiniteSet(consts)
      /\ \A w \in uses : HasConstraint(w)
  BY DEF TypeInv
<1>3. /\ \A w \in Values : Operands(w) \subseteq Values
      /\ Actual \in [Values -> SUBSET Int]
  BY <1>2, OperandShape, ActualIsClosed
<1> DEFINE
      Sound(w) == \A x \in Actual[w] : Includes(ranges'[w], x)
      Solved == \A w \in Values :
                  /\ w \in solved' \/ -w \in solved' => Sound(w)
                  /\ Op(w) = "convert" /\ scc[w] = {} /\ ranges'[w].known => Sound(w)
                  /\ Op(w) = "param" /\ w \notin solved' => ~ranges'[w].known
      Phis == \A w \in Values \ (comp' \cup uses' \cup solved') :
                Op(w) = "phi" /\ scc[w] # {} =>
                  \A u \in Operands(w) \cap solved' : \A x \in Actual[u] : Includes(ranges'[w], x)
      Covered == \A w \in comp' \ uses' : \/ \E i \in DOMAIN work' : work'[i] \in Operands(w)
                                          \/ Covers(w, comp', ranges')
<1>4. Solved => SolvedIsSound'
  BY <1>0, <1>1 DEF SolvedIsSound, SoundAt
<1>5. Phis => PhisInclude'
  BY <1>0, <1>1 DEF PhisInclude
<1>6. (phase' = "widen" => Covered) => CycleIsCovered'
  <2>1. \A w : Covers(w, comp', ranges') => Covers(w, comp, ranges)'
    BY <1>1 DEF Covers, Kept, Admits
  <2>. QED  BY <1>1, <2>1 DEF CycleIsCovered
<1>7. ASSUME Solved, Phis, phase' = "widen" => Covered, phase' = "narrow" => \A w \in comp' : Sound(w)
      PROVE  SoundInv'
  <2>1. SolvedIsSound' /\ PhisInclude' /\ CycleIsCovered'
    BY <1>4, <1>5, <1>6, <1>7
  <2>2. (phase = "narrow" => \A w \in comp : SoundAt(w, ranges))'
    BY <1>1, <1>7 DEF SoundAt
  <2>. QED  BY <2>1, <2>2 DEF SoundInv
<1>8. /\ \A w \in Values : w \in solved \/ -w \in solved => SoundAt(w, ranges)
      /\ \A w \in Values : Op(w) = "convert" /\ scc[w] = {} /\ ranges[w].known => SoundAt(w, ranges)
      /\ \A w \in Values : Op(w) = "param" /\ w \notin solved => ~ranges[w].known
      /\ \A w \in Values \ (comp \cup uses \cup solved) :
           Op(w) = "phi" /\ scc[w] # {} =>
             \A u \in Operands(w) \cap solved : \A x \in Actual[u] : Includes(ranges[w], x)
  BY DEF SoundInv, SolvedIsSound, PhisInclude
<1>9. ASSUME NEW w \in Values, ranges'[w] = ranges[w] PROVE SoundAt(w, ranges) <=> Sound(w)
  BY <1>9 DEF SoundAt
<1> HIDE DEF Sound
<1>10. ASSUME NEW v \in Values, SolveConstraint(v) PROVE SoundInv'
  <2>1. /\ phase' = "pick" /\ solved' = solved \cup {-v} /\ Operands(v) \subseteq solved
        /\ HasConstraint(v) /\ scc[v] = {} /\ comp' = comp /\ uses' = uses
        /\ ranges' = [ranges EXCEPT ![v] = Eval(v, ranges)]
    BY <1>10 DEF SolveConstraint
  <2>2. \A w \in Values : /\ w \in solved' <=> w \in solved
                          /\ -w \in solved' <=> -w \in solved \/ w = v
    BY <1>2, <2>1, VertexFacts
  <2>3. ranges'[v] = Eval(v, ranges) /\ \A w \in Values \ {v} : ranges'[w] = ranges[w]
    BY <1>2, <2>1
  <2>4. Sound(v)
    <3>1. \A u \in Operands(v) : SoundAt(u, ranges)
      BY <1>3, <1>8, <2>1
    <3>2. Op(v) = "convert" => ~ranges[v].known \/ SoundAt(v, ranges)
      BY <1>8, <2>1
    <3>3. \A x \in Actual[v] : Includes(Eval(v, ranges), x)
      BY <1>2, <2>1, <3>1, <3>2, EvalKeepsSound
    <3>. QED  BY <2>3, <3>3 DEF Sound
  <2>5. Solved
    <3> SUFFICES ASSUME NEW w \in Values
                 PROVE  /\ w \in solved' \/ -w \in solved' => Sound(w)
                        /\ Op(w) = "convert" /\ scc[w] = {} /\ ranges'[w].known => Sound(w)
                        /\ Op(w) = "param" /\ w \notin solved' => ~ranges'[w].known
      OBVIOUS
    <3>1. CASE w = v
      BY <2>1, <2>4, <3>1 DEF HasConstraint
    <3>2. CASE w # v
      <4>1. ranges'[w] = ranges[w]
        BY <2>3, <3>2
      <4>2. SoundAt(w, ranges) <=> Sound(w)
        BY <1>9, <4>1
      <4>. QED  BY <1>8, <2>2, <3>2, <4>1, <4>2
    <3>. QED  BY <3>1, <3>2
  <2>6. Phis
    BY <1>3, <1>8, <2>1, <2>2, <2>3
  <2>. QED  BY <1>7, <2>1, <2>5, <2>6
<1>11. ASSUME NEW v \in Values, SolveValue(v) PROVE SoundInv'
  <2>1. /\ phase' = "propagate" /\ solved' = solved \cup {v} /\ v \notin solved
        /\ HasConstraint(v) => -v \in solved
        /\ scc[v] = {} /\ comp' = comp /\ comp = {} /\ uses = {} /\ uses' = UsesOf({v}, FALSE)
        /\ ranges' = Fill({v}, ranges)
    BY <1>11 DEF SolveValue, OrderInv, Idle
  <2>2. /\ ranges'[v] = IF ~ranges[v].known THEN Default(v) ELSE ranges[v]
        /\ \A w \in Values \ {v} : ranges'[w] = ranges[w]
    <3>1. {v} \in SUBSET Values
      OBVIOUS
    <3>2. \A w \in Values : Fill({v}, ranges)[w] = IF w \in {v} /\ ~ranges[w].known
                                                    THEN Default(w) ELSE ranges[w]
      BY <1>2, <3>1, FillFact
    <3>. QED  BY <2>1, <3>2
  <2>3. Sound(v)
    <3>1. CASE ranges[v].known
      <4>1. HasConstraint(v)
        BY <1>8, <2>1, <3>1 DEF HasConstraint
      <4>2. SoundAt(v, ranges) /\ ranges'[v] = ranges[v]
        BY <1>8, <2>1, <2>2, <3>1, <4>1
      <4>. QED  BY <1>9, <4>2
    <3>2. CASE ~ranges[v].known
      <4>1. \A x \in Actual[v] : Includes(Default(v), x)
        BY <1>2, FillFact
      <4>. QED  BY <2>2, <3>2, <4>1 DEF Sound
    <3>. QED  BY <3>1, <3>2
  <2>4. \A w \in Values : /\ w \in solved' <=> w \in solved \/ w = v
                          /\ -w \in solved' <=> -w \in solved
    BY <1>2, <2>1, VertexFacts
  <2>5. Solved
    <3> SUFFICES ASSUME NEW w \in Values
                 PROVE  /\ w \in solved' \/ -w \in solved' => Sound(w)
                        /\ Op(w) = "convert" /\ scc[w] = {} /\ ranges'[w].known => Sound(w)
                        /\ Op(w) = "param" /\ w \notin solved' => ~ranges'[w].known
      OBVIOUS
    <3>1. CASE w = v
      BY <2>1, <2>3, <3>1
    <3>2. CASE w # v
      <4>1. ranges'[w] = ranges[w]
        BY <2>2, <3>2
      <4>2. SoundAt(w, ranges) <=> Sound(w)
        BY <1>9, <4>1
      <4>. QED  BY <1>8, <2>4, <3>2, <4>1, <4>2
    <3>. QED  BY <3>1, <3>2
  <2>6. Phis
    <3> SUFFICES ASSUME NEW w \in Values \ (comp' \cup uses' \cup solved'), Op(w) = "phi", scc[w] # {},
                        NEW u \in Operands(w) \cap solved', NEW x \in Actual[u]
                 PROVE  Includes(ranges'[w], x)
      OBVIOUS
    <3>1. v \notin Operands(w)
      BY <2>1 DEF UsesOf
    <3>2. w \notin solved /\ w # v /\ u \in solved
      BY <2>1, <3>1
    <3>. QED  BY <1>8, <2>1, <2>2, <3>2
  <2>. QED  BY <1>7, <2>1, <2>5, <2>6
<1>12. ASSUME NEW v \in Values, StartComponent(v) PROVE SoundInv'
  <2> DEFINE S == {w \in scc[v] : ranges[w].known}
  <2>1. /\ phase' = "widen" /\ solved' = solved /\ ranges' = ranges /\ v \notin solved
        /\ comp = {} /\ comp' = scc[v] /\ scc[v] # {} /\ uses' = {} /\ uses = {}
        /\ work' \in SetToSeqs(S) /\ \A w \in scc[v] : Operands(w) \subseteq solved \cup scc[v]
    BY <1>12 DEF StartComponent, OrderInv, Idle
  <2>2. \A w \in scc[v] : w \in Values /\ scc[w] = scc[v] /\ v \in scc[v]
                          /\ Operands(w) \cap scc[v] # {} /\ w \notin solved
    <3>1. \A w \in scc[v] : w \in Values /\ scc[w] = scc[v] /\ v \in scc[v]
      BY CycleFacts DEF TypeInv
    <3>2. \A w \in scc[v] : Operands(w) \cap scc[v] # {}
      BY <2>1, <3>1, CycleFacts DEF TypeInv
    <3>3. \A w \in scc[v] : w \notin solved
      BY <2>1, <3>1 DEF OrderInv, SolvedInOrder
    <3>. QED  BY <3>1, <3>2, <3>3
  <2>3. \A x \in S : \E i \in DOMAIN work' : work'[i] = x
    <3>1. S \in SUBSET Values
      BY <2>2
    <3>2. IsFiniteSet(S)
      <4> HIDE DEF S
      <4>. QED  BY <1>2, <3>1, ProgramShape, FS_Subset
    <3> HIDE DEF S
    <3>. QED  BY <2>1, <3>2, SetToSeqsFact
  <2>4. ASSUME NEW w \in scc[v], \A i \in DOMAIN work' : work'[i] \notin Operands(w)
        PROVE  Covers(w, scc[v], ranges)
    <3>1. \A u \in Operands(w) \cap scc[v] : ~ranges[u].known
      BY <2>3, <2>4
    <3>2. Op(w) = "phi" => \A u \in Operands(w) \ scc[v] : \A x \in Actual[u] : Includes(ranges[w], x)
      <4>1. w \in Values \ (comp \cup uses \cup solved) /\ scc[w] # {}
        BY <2>1, <2>2
      <4>2. \A u \in Operands(w) \ scc[v] : u \in Operands(w) \cap solved
        BY <2>1
      <4>. QED  BY <1>8, <4>1, <4>2
    <3>3. scc[v] \in SUBSET Values /\ Operands(w) \cap scc[v] # {}
      BY <2>2
    <3>. QED  BY <1>2, <3>1, <3>2, <3>3, UnreachedIsCovered
  <2>5. Covered
    BY <2>1, <2>4
  <2>6. \A w \in Values : SoundAt(w, ranges) <=> Sound(w)
    BY <1>9, <2>1
  <2>7. Solved
    BY <1>8, <2>1, <2>6
  <2>8. Phis
    BY <1>8, <2>1
  <2>. QED  BY <1>7, <2>1, <2>5, <2>7, <2>8
<1>13. CASE Pop
  <2>1. /\ phase' = phase /\ phase \in {"widen", "narrow"} /\ solved' = solved /\ ranges' = ranges
        /\ comp' = comp /\ uses = {} /\ work # <<>> /\ work' = Front(work)
        /\ uses' = UsesOf({Last(work)}, TRUE)
    BY <1>13 DEF Pop
  <2>2. /\ \A i \in DOMAIN work : i \in DOMAIN work' \/ work[i] = Last(work)
        /\ \A i \in DOMAIN work' : work'[i] = work[i]
    BY <1>2, <2>1 DEF Front, Last
  <2>3. \A w \in comp \ uses' : Last(work) \notin Operands(w)
    BY <1>2, <2>1 DEF UsesOf
  <2>4. \A w \in comp \ uses' : (\E i \in DOMAIN work : work[i] \in Operands(w))
                                => \E i \in DOMAIN work' : work'[i] \in Operands(w)
    BY <2>2, <2>3
  <2>5. phase' = "widen" => Covered
    BY <2>1, <2>4 DEF SoundInv, CycleIsCovered
  <2>6. \A w \in Values : SoundAt(w, ranges) <=> Sound(w)
    BY <1>9, <2>1
  <2>7. Solved
    BY <1>8, <2>1, <2>6
  <2>8. Phis
    BY <1>8, <2>1
  <2>9. phase' = "narrow" => \A w \in comp' : Sound(w)
    BY <1>2, <2>1, <2>6 DEF SoundInv
  <2>. QED  BY <1>7, <2>5, <2>7, <2>8, <2>9
(* A step of a loop changes nothing outside of the component.              *)
<1>14. ASSUME NEW p \in {"widen", "narrow"}, NEW w \in uses, NEW changes, NEW new,
              Change(p, w, changes, new)
       PROVE  /\ Solved /\ Phis /\ w \in Values /\ w \in comp /\ scc[w] = comp /\ comp # {}
              /\ \A v \in Values \ {w} : ranges'[v] = ranges[v]
              /\ Type(w) # "chan" /\ (Op(w) = "convert" => ~Larger(Type(Args(w)[1]), Type(w)))
              /\ Operands(w) \subseteq solved \cup comp
  <2>1. phase = p /\ solved' = solved /\ comp' = comp /\ uses' = uses \ {w}
    BY <1>14 DEF Change
  <2>2. /\ w \in Values /\ w \in comp /\ uses \subseteq comp /\ scc[w] = comp /\ comp # {}
        /\ w \notin solved /\ -w \notin solved /\ Operands(w) \subseteq solved \cup comp
    BY <1>2, <2>1 DEF OrderInv, OnCycle
  <2>3. \A v \in Values \ {w} : ranges'[v] = ranges[v]
    BY <1>2, <1>14 DEF Change
  <2>4. Type(w) # "chan" /\ (Op(w) = "convert" => ~Larger(Type(Args(w)[1]), Type(w)))
    BY <2>2 DEF ProperCycles, ChannelsOffCycles
  <2>5. Solved
    <3> SUFFICES ASSUME NEW v \in Values
                 PROVE  /\ v \in solved' \/ -v \in solved' => Sound(v)
                        /\ Op(v) = "convert" /\ scc[v] = {} /\ ranges'[v].known => Sound(v)
                        /\ Op(v) = "param" /\ v \notin solved' => ~ranges'[v].known
      OBVIOUS
    <3>1. CASE v = w
      BY <1>2, <2>1, <2>2, <3>1 DEF HasConstraint
    <3>2. CASE v # w
      <4>1. ranges'[v] = ranges[v]
        BY <2>3, <3>2
      <4>2. SoundAt(v, ranges) <=> Sound(v)
        BY <1>9, <4>1
      <4>. QED  BY <1>8, <2>1, <4>1, <4>2
    <3>. QED  BY <3>1, <3>2
  <2>6. Phis
    BY <1>8, <2>1, <2>2, <2>3
  <2>. QED  BY <2>2, <2>3, <2>4, <2>5, <2>6
<1>15. CASE Widen
  <2> DEFINE ni(w) == Eval(w, ranges)
             new(w) == WidenInterval(consts, ranges[w], ni(w))
  <2>1. PICK w \in uses : Change("widen", w, WidenChanges(ranges[w], ni(w)), new(w))
    BY <1>15, ChangeUnfold
  <2>2. /\ Solved /\ Phis /\ w \in Values /\ w \in comp /\ Type(w) # "chan"
        /\ \A v \in Values \ {w} : ranges'[v] = ranges[v]
        /\ Op(w) = "convert" => ~Larger(Type(Args(w)[1]), Type(w))
        /\ Operands(w) \subseteq solved \cup comp
    <3> HIDE DEF ni, new, Solved, Phis
    <3>. QED  BY <1>14, <2>1
  <2>3. phase = "widen" /\ phase' = phase /\ comp' = comp /\ uses' = uses \ {w}
    BY <2>1 DEF Change
  <2>4. ni(w) \in IntInterval /\ ranges[w] \in IntInterval /\ HasConstraint(w)
    BY <1>2, <2>2, EvalType
  <2>5. ~WidenChanges(ranges[w], ni(w)) => new(w) = ranges[w]
    <3> HIDE DEF ni
    <3>. QED  BY <1>2, <2>4, LoopTypes
  <2>6. \A x \in Int : Includes(ni(w), x) => Includes(new(w), x)
    <3> HIDE DEF ni
    <3>. QED  BY <1>2, <2>4, WidenIsSound
  <2>7. ASSUME NEW e \in Env, NEW x \in Int, Admits(w, e, Actual), Kept(w, e, comp, ranges),
               x \in Results(w, e), Fits(Type(w), x)
        PROVE  Includes(ni(w), x)
    <3>1. \A u \in Operands(w) \ comp : SoundAt(u, ranges)
      BY <1>3, <1>8, <2>2
    <3>. QED  BY <1>2, <2>2, <2>4, <2>7, <3>1, EvalCovers
  <2> HIDE DEF ni, new
  <2>8. ranges'[w] = new(w)
    <3>1. CASE WidenChanges(ranges[w], ni(w))
      BY <1>2, <2>1, <2>2, <3>1 DEF Change
    <3>2. CASE ~WidenChanges(ranges[w], ni(w))
      BY <2>1, <2>5, <3>2 DEF Change
    <3>. QED  BY <3>1, <3>2
  <2>9. /\ \A i \in DOMAIN work : i \in DOMAIN work' /\ work'[i] = work[i]
        /\ ranges' = ranges \/ \E i \in DOMAIN work' : work'[i] = w
    <3>1. CASE WidenChanges(ranges[w], ni(w))
      <4>1. work' = Append(work, w)
        BY <2>1, <2>2, <3>1 DEF Change
      <4>2. Len(work) + 1 \in DOMAIN work' /\ work'[Len(work) + 1] = w
        BY <1>2, <2>2, <4>1
      <4>3. \A i \in DOMAIN work : i \in DOMAIN work' /\ work'[i] = work[i]
        BY <1>2, <2>2, <4>1
      <4>. QED  BY <4>2, <4>3
    <3>2. CASE ~WidenChanges(ranges[w], ni(w))
      BY <2>1, <3>2 DEF Change
    <3>. QED  BY <3>1, <3>2
  <2>10. ASSUME NEW y \in comp, \A i \in DOMAIN work' : work'[i] \notin Operands(y)
         PROVE  \A u \in Operands(y) : ranges'[u] = ranges[u]
    BY <1>2, <1>3, <2>2, <2>9, <2>10
  <2>11. ASSUME NEW y \in comp \ uses', \A i \in DOMAIN work' : work'[i] \notin Operands(y)
         PROVE  Covers(y, comp, ranges')
    <3>1. \A u \in Operands(y) : ranges'[u] = ranges[u]
      BY <2>10, <2>11
    <3>2. CASE y = w
      <4>1. \A e : Kept(w, e, comp, ranges') <=> Kept(w, e, comp, ranges)
        BY <3>1, <3>2 DEF Kept
      <4>. QED  BY <2>6, <2>7, <2>8, <3>2, <4>1 DEF Covers
    <3>3. CASE y # w
      <4>1. y \in comp \ uses /\ ranges'[y] = ranges[y]
        BY <1>2, <2>2, <2>3, <3>3
      <4>2. Covers(y, comp, ranges)
        BY <2>3, <2>9, <2>11, <4>1 DEF SoundInv, CycleIsCovered
      <4>. QED  BY <3>1, <4>1, <4>2, CoversSame
    <3>. QED  BY <3>2, <3>3
  <2>12. Covered
    BY <2>3, <2>11
  <2>. QED  BY <1>7, <2>2, <2>3, <2>12
<1>16. CASE Narrow
  <2> DEFINE ni(w) == Eval(w, ranges)
             new(w) == NarrowInterval(ranges[w], ni(w))
  <2>1. PICK w \in uses : Change("narrow", w, NarrowChanges(ranges[w], ni(w)), new(w))
    BY <1>16, ChangeUnfold
  <2>2. /\ Solved /\ Phis /\ w \in Values /\ w \in comp /\ Type(w) # "chan"
        /\ \A v \in Values \ {w} : ranges'[v] = ranges[v]
        /\ Op(w) = "convert" => ~Larger(Type(Args(w)[1]), Type(w))
        /\ Operands(w) \subseteq solved \cup comp
    <3> HIDE DEF ni, new, Solved, Phis
    <3>. QED  BY <1>14, <2>1
  <2>3. phase = "narrow" /\ phase' = phase /\ comp' = comp
    BY <2>1 DEF Change
  <2>4. ni(w) \in IntInterval /\ ranges[w] \in IntInterval /\ HasConstraint(w)
    BY <1>2, <2>2, EvalType
  <2>5. \A u \in Values : u \in solved \/ u \in comp => SoundAt(u, ranges)
    BY <1>8, <2>3 DEF SoundInv
  <2>6. \A x \in Actual[w] : Includes(ni(w), x) /\ Includes(ranges[w], x) /\ x \in Int
    <3>1. \A u \in Operands(w) : SoundAt(u, ranges)
      BY <1>3, <2>2, <2>5
    <3>2. \A x \in Actual[w] : Includes(Eval(w, ranges), x)
      BY <1>2, <2>2, <2>4, <3>1, EvalKeepsSound
    <3>3. SoundAt(w, ranges)
      BY <2>2, <2>5
    <3>. QED  BY <1>3, <2>2, <3>2, <3>3 DEF SoundAt
  <2>7. \A x \in Actual[w] : Includes(new(w), x)
    <3> HIDE DEF ni
    <3>. QED  BY <2>4, <2>6, NarrowIsSound
  <2> HIDE DEF ni, new
  <2>8. ranges'[w] = new(w) \/ ranges'[w] = ranges[w]
    BY <1>2, <2>1, <2>2 DEF Change
  <2>9. Sound(w)
    BY <2>6, <2>7, <2>8 DEF Sound
  <2>10. \A y \in comp \ {w} : Sound(y)
    BY <1>2, <1>9, <2>2, <2>5
  <2>. QED  BY <1>7, <2>2, <2>3, <2>9, <2>10
<1>17. CASE EndWiden
  <2> DEFINE S == {v \in comp : Type(v) \in IntTypes}
  <2>1. /\ phase = "widen" /\ phase' = "narrow" /\ solved' = solved /\ comp' = comp /\ uses' = uses
        /\ uses = {} /\ work = <<>> /\ ranges' = Fill(S, ranges)
    BY <1>17 DEF EndWiden
  <2>2. \A w \in comp : ranges[w].known
    BY <2>1, WideningLeavesNothing
  <2>3. \A v \in Values : ranges'[v] = ranges[v]
    <3>1. S \in SUBSET Values /\ S \subseteq comp
      BY <1>2
    <3> HIDE DEF S
    <3>2. \A w \in Values : Fill(S, ranges)[w] = IF w \in S /\ ~ranges[w].known
                                                  THEN Default(w) ELSE ranges[w]
      BY <1>2, <3>1, FillFact
    <3>. QED  BY <2>1, <2>2, <3>1, <3>2
  <2>4. \A w \in Values : SoundAt(w, ranges) <=> Sound(w)
    BY <1>9, <2>3
  <2>5. \A w \in comp : Covers(w, comp, ranges)
    <3>1. \A i \in DOMAIN work : FALSE
      BY <2>1
    <3>. QED  BY <2>1, <3>1 DEF SoundInv, CycleIsCovered
  <2>6. \A w \in comp : SoundAt(w, ranges)
    BY <1>2, <2>5, CoveredIsSound
  <2>7. Solved
    BY <1>8, <2>1, <2>3, <2>4
  <2>8. Phis
    BY <1>8, <2>1, <2>3
  <2>. QED  BY <1>2, <1>7, <2>1, <2>4, <2>6, <2>7, <2>8
<1>18. CASE EndComponent
  <2>1. /\ phase = "narrow" /\ phase' = "propagate" /\ comp' = comp /\ ranges' = ranges
        /\ solved' = solved \cup comp \cup {-v : v \in comp} /\ uses' = UsesOf(comp, FALSE)
        /\ uses = {}
    BY <1>18 DEF EndComponent
  <2>2. \A w \in Values : /\ w \in solved' <=> w \in solved \/ w \in comp
                          /\ -w \in solved' <=> -w \in solved \/ w \in comp
    BY <1>2, <2>1, VertexFacts
  <2>3. \A w \in Values : SoundAt(w, ranges) <=> Sound(w)
    BY <1>9, <2>1
  <2>4. \A w \in comp : SoundAt(w, ranges)
    BY <2>1 DEF SoundInv
  <2>5. Solved
    BY <1>8, <2>1, <2>2, <2>3, <2>4
  <2>6. Phis
    <3> SUFFICES ASSUME NEW w \in Values \ (comp' \cup uses' \cup solved'), Op(w) = "phi", scc[w] # {},
                        NEW u \in Operands(w) \cap solved', NEW x \in Actual[u]
                 PROVE  Includes(ranges'[w], x)
      OBVIOUS
    <3>1. Operands(w) \cap comp = {}
      BY <2>1 DEF UsesOf
    <3>2. w \notin solved /\ w \notin comp /\ u \in solved
      BY <1>3, <2>1, <2>2, <3>1
    <3>. QED  BY <1>8, <2>1, <3>2
  <2>. QED  BY <1>7, <2>1, <2>5, <2>6
<1>19. CASE Propagate
  <2>1. PICK w \in uses : /\ ranges' = [ranges EXCEPT ![w] = Eval(w, ranges)]
                          /\ uses' = uses \ {w}
    BY <1>2, <1>19, UseFact DEF Propagate
  <2>2. /\ phase' = "propagate" /\ solved' = solved /\ comp' = comp
        /\ w \notin solved /\ -w \notin solved /\ Operands(w) \cap solved # {}
    BY <1>19 DEF Propagate, OrderInv, Propagating
  <2>3. /\ w \in Values /\ HasConstraint(w)
        /\ ranges'[w] = Eval(w, ranges) /\ \A v \in Values \ {w} : ranges'[v] = ranges[v]
    BY <1>2, <2>1
  <2>4. Op(w) = "convert" /\ scc[w] = {} => Sound(w)
    <3> SUFFICES ASSUME Op(w) = "convert", scc[w] = {} PROVE Sound(w)
      OBVIOUS
    <3>1. Operands(w) = {Args(w)[1]}
      BY <1>2, <2>3, ArgShape
    <3>2. \A u \in Operands(w) : SoundAt(u, ranges)
      BY <1>3, <1>8, <2>2, <2>3, <3>1
    <3>3. ~ranges[w].known \/ SoundAt(w, ranges)
      BY <1>8, <2>3
    <3>4. \A x \in Actual[w] : Includes(Eval(w, ranges), x)
      BY <1>2, <2>3, <3>2, <3>3, EvalKeepsSound
    <3>. QED  BY <2>3, <3>4 DEF Sound
  <2>5. Solved
    <3> SUFFICES ASSUME NEW v \in Values
                 PROVE  /\ v \in solved' \/ -v \in solved' => Sound(v)
                        /\ Op(v) = "convert" /\ scc[v] = {} /\ ranges'[v].known => Sound(v)
                        /\ Op(v) = "param" /\ v \notin solved' => ~ranges'[v].known
      OBVIOUS
    <3>1. CASE v = w
      BY <2>2, <2>3, <2>4, <3>1 DEF HasConstraint
    <3>2. CASE v # w
      <4>1. ranges'[v] = ranges[v]
        BY <2>3, <3>2
      <4>2. SoundAt(v, ranges) <=> Sound(v)
        BY <1>9, <4>1
      <4>. QED  BY <1>8, <2>2, <4>1, <4>2
    <3>. QED  BY <3>1, <3>2
  <2>6. Phis
    <3> SUFFICES ASSUME NEW v \in Values \ (comp' \cup uses' \cup solved'), Op(v) = "phi", scc[v] # {},
                        NEW u \in Operands(v) \cap solved', NEW x \in Actual[u]
                 PROVE  Includes(ranges'[v], x)
      OBVIOUS
    <3>1. CASE v = w
      <4>1. u \in Values /\ u \in solved /\ x \in Int
        BY <1>3, <2>2
      <4>2. Includes(ranges[u], x)
        BY <1>8, <4>1 DEF SoundAt
      <4>3. Includes(Eval(v, ranges), x)
        BY <1>2, <4>1, <4>2, PhiIncludes
      <4>. QED  BY <2>3, <3>1, <4>3
    <3>2. CASE v # w
      BY <1>8, <2>1, <2>2, <2>3, <3>2
    <3>. QED  BY <3>1, <3>2
  <2>. QED  BY <1>7, <2>2, <2>5, <2>6
<1>20. CASE EndPropagate
  <2>1. /\ phase' = "pick" /\ solved' = solved /\ comp' = {} /\ uses' = uses /\ ranges' = ranges
        /\ comp \subseteq solved
    BY <1>20 DEF EndPropagate, OrderInv, Propagating
  <2>2. \A w \in Values : SoundAt(w, ranges) <=> Sound(w)
    BY <1>9, <2>1
  <2>3. Solved
    BY <1>8, <2>1, <2>2
  <2>4. Phis
    BY <1>8, <2>1
  <2>. QED  BY <1>7, <2>1, <2>3, <2>4
<1>21. CASE Return
  <2>1. phase' = "run" /\ solved' = solved /\ Values \subseteq solved
    BY <1>21 DEF Return, Vertices
  <2>2. ranges' = [v \in Values |-> IF Wraps(Type(v), ranges[v])
                                    THEN NewIntInterval(NInfinity, PInfinity) ELSE ranges[v]]
    BY <1>21 DEF Return
  <2>3. ASSUME NEW v \in Values PROVE Sound(v)
    <3>1. \A x \in Actual[v] : Includes(ranges[v], x)
      BY <1>8, <2>1 DEF SoundAt
    <3>2. \A x \in Actual[v] : Includes(NewIntInterval(NInfinity, PInfinity), x)
      <4>1. Type(v) \in IntTypes \cup {"seq", "chan"}
        BY <1>2, ProgramShape DEF AllTypes
      <4>2. \A x \in Actual[v] : Fits(Type(v), x)
        BY <1>2, ActualIsMade
      <4>. QED  BY <4>1, <4>2, InfinityFits
    <3>. QED  BY <2>2, <3>1, <3>2 DEF Sound
  <2>4. Solved
    BY <2>1, <2>3
  <2>5. Phis
    BY <2>1
  <2>. QED  BY <1>7, <2>1, <2>4, <2>5
<1>22. CASE EnterHead \/ Execute \/ UNCHANGED vars
  <2>1. /\ solved' = solved /\ phase' = phase /\ comp' = comp /\ uses' = uses /\ work' = work
        /\ ranges' = ranges
    BY <1>22 DEF EnterHead, Execute, vars
  <2>2. \A w \in Values : SoundAt(w, ranges) <=> Sound(w)
    BY <1>9, <2>1
  <2>3. Solved
    BY <1>8, <2>1, <2>2
  <2>4. Phis
    BY <1>8, <2>1
  <2>5. phase' = "widen" => Covered
    BY <2>1 DEF SoundInv, CycleIsCovered
  <2>6. phase' = "narrow" => \A w \in comp' : Sound(w)
    BY <1>2, <2>1, <2>2 DEF SoundInv
  <2>. QED  BY <1>7, <2>3, <2>4, <2>5, <2>6
<1>. QED
  BY <1>10, <1>11, <1>12, <1>13, <1>15, <1>16, <1>17, <1>18, <1>19, <1>20, <1>21, <1>22 DEF Next, Solve

-----------------------------------------------------------------------------
(* The bounds of an unknown interval are nil pointers in vrp.go.  Solve    *)
(* never reads one, whatever the function and however the worklists are    *)
(* ordered: a solved value, and one on a worklist, has a range, and        *)
(* widening leaves no value of its cycle without one.  The exception are   *)
(* channels on a cycle, whose ranges the loops of Solve never set.         *)
THEOREM NilBoundsAreNeverRead == Spec => [](ChannelsOffCycles => NilBoundsNeverRead)
<1> DEFINE Inv == TypeInv /\ OrderInv /\ (ChannelsOffCycles => KnownInv)
<1>1. Init => Inv
  BY InitTypes, InitOrder, InitKnown
<1>2. Inv /\ [Next]_vars => Inv'
  BY StepKeepsTypes, StepKeepsOrder, StepKeepsKnown, SameCycles
<1>3. Inv => (ChannelsOffCycles => NilBoundsNeverRead)
  <2> SUFFICES ASSUME Inv, ChannelsOffCycles PROVE NilBoundsNeverRead
    OBVIOUS
  <2>1. TypeInv /\ OrderInv /\ KnownInv
    OBVIOUS
  <2>2. phase = "widen" /\ uses = {} /\ work = <<>> => \A v \in comp : ranges[v].known
    BY <2>1, WideningLeavesNothing
  <2>. QED  BY <2>1, <2>2 DEF KnownInv, NilBoundsNeverRead
<1>. QED  BY <1>1, <1>2, <1>3, PTL DEF Spec

(* The ranges that Solve returns hold in every run of every function whose *)
(* cycles are proper, for integers of every size, all inputs and any       *)
(* number of iterations: no value lies outside of its range as long as no  *)
(* operation wraps around.  Propagation, widening to the constants,        *)
(* narrowing in any order, the default ranges and the reset of ranges that *)
(* leave their type are all sound.                                         *)
THEOREM RangesAlwaysHold == Spec => [](ProperCycles => RangesHold)
<1> DEFINE Inv == /\ TypeInv /\ OrderInv /\ RunInv
                  /\ ProperCycles => KnownInv /\ SoundInv
<1>1. Init => Inv
  BY InitTypes, InitOrder, InitKnown, InitSound, InitRun
<1>2. Inv /\ [Next]_vars => Inv'
  BY StepKeepsTypes, StepKeepsOrder, StepKeepsKnown, StepKeepsSound, StepKeepsRun, SameCycles
  DEF ProperCycles
<1>3. Inv => (ProperCycles => RangesHold)
  <2> SUFFICES ASSUME Inv, ProperCycles, phase = "run", NEW v \in Values, env[v] # NotYet
               PROVE  Includes(ranges[v], env[v])
    BY DEF RangesHold
  <2>1. v \in solved
    BY DEF OrderInv, Idle
  <2>2. SoundAt(v, ranges)
    BY <2>1 DEF SoundInv, SolvedIsSound
  <2>3. env[v] \in Actual[v]
    BY DEF RunInv
  <2>. QED  BY <2>2, <2>3 DEF SoundAt
<1>. QED  BY <1>1, <1>2, <1>3, PTL DEF Spec

(* UnbufferedChannel (staticcheck/rules.go) takes a channel whose range is *)
(* exactly 0 for unbuffered.  Where the cycles are proper it is right: no  *)
(* run makes such a channel with a buffer.  The channels that the run      *)
(* vrp_channel gets wrong are all on a cycle.                              *)
THEOREM UnbufferedOffCycles == Spec => [](ProperCycles => UnbufferedIsUnbuffered)
<1>1. TypeInv /\ RangesHold => UnbufferedIsUnbuffered
  <2> SUFFICES ASSUME TypeInv, RangesHold, phase = "run", NEW v \in Values, env[v] # NotYet,
                      ranges[v].lower = Fin(0), ranges[v].upper = Fin(0)
               PROVE  env[v] = 0
    BY DEF UnbufferedIsUnbuffered
  <2>1. env[v] \in Int
    BY DEF TypeInv, Env
  <2>2. Cmp(Fin(0), Fin(env[v])) <= 0 /\ Cmp(Fin(env[v]), Fin(0)) <= 0
    BY DEF RangesHold, Includes
  <2>. QED  BY <2>1, <2>2 DEF Cmp, Fin
<1>. QED  BY <1>1, VrpTypes, RangesAlwaysHold, PTL
-----------------------------------------------------------------------------
(* An interval whose bounds are in order: a known one is not empty.        *)
Proper(i) == i.known /\ Cmp(i.lower, i.upper) <= 0

LEMMA ProperFacts ==
  ASSUME NEW i \in IntInterval, Proper(i)
  PROVE  /\ i.known /\ ~Empty(i) /\ i.lower \in Z /\ i.upper \in Z
         /\ Cmp(i.lower, i.upper) <= 0
BY DEF Proper, Empty, IntInterval, Cmp, PInfinity, NInfinity

LEMMA WithinTrans ==
  ASSUME NEW i \in IntInterval, NEW j \in IntInterval, NEW k \in IntInterval, Within(i, j), Within(j, k)
  PROVE  Within(i, k)
<1>1. /\ i.lower \in Z /\ i.upper \in Z /\ j.lower \in Z /\ j.upper \in Z /\ k.lower \in Z /\ k.upper \in Z
  BY DEF IntInterval
<1>. QED  BY <1>1, CmpTrans DEF Within

LEMMA WithinSame == ASSUME NEW i \in IntInterval PROVE Within(i, i)
<1>1. i.lower \in Z /\ i.upper \in Z
  BY DEF IntInterval
<1>. QED  BY <1>1, CmpTotal DEF Within

(* NewIntInterval keeps to bounds that are further out.                    *)
LEMMA NewWithin ==
  ASSUME NEW l \in Z, NEW u \in Z, NEW m \in Z, NEW v \in Z, Cmp(m, l) <= 0, Cmp(u, v) <= 0
  PROVE  Within(NewIntInterval(l, u), NewIntInterval(m, v))
<1>1. Cmp(m, PInfinity) <= 0 /\ Cmp(NInfinity, v) <= 0
  BY DEF Cmp, PInfinity, NInfinity, Z
<1>2. CASE Cmp(v, m) = -1
  <2>1. Cmp(u, l) = -1
    BY <1>2 DEF Cmp, Z
  <2>. QED  BY <1>2, <2>1, WithinSame, ConstantTypes DEF NewIntInterval
<1>3. CASE Cmp(v, m) # -1
  BY <1>1, <1>3 DEF NewIntInterval, EmptyIntInterval, Within
<1>. QED  BY <1>2, <1>3

(* The operations on bounds keep their order.                              *)
LEMMA AddMonotone ==
  ASSUME NEW a \in Z, NEW b \in Z, NEW c \in Z, NEW d \in Z, Cmp(a, b) <= 0, Cmp(c, d) <= 0
  PROVE  Cmp(AddZ(a, c), AddZ(b, d)) <= 0
BY DEF AddZ, AddUp, SubDown, Sign, Negate, Infinite, Cmp, Fin, Z, PInfinity, NInfinity

LEMMA SubMonotone ==
  ASSUME NEW a \in Z, NEW b \in Z, NEW c \in Z, NEW d \in Z, Cmp(a, b) <= 0, Cmp(c, d) <= 0
  PROVE  Cmp(SubZ(a, d), SubZ(b, c)) <= 0
BY DEF SubZ, AddUp, SubDown, Sign, Negate, Infinite, Cmp, Fin, Z, PInfinity, NInfinity

LEMMA AtZeroMonotone ==
  ASSUME NEW a \in Z, NEW b \in Z, Cmp(a, b) <= 0
  PROVE  Cmp(AtZero(a), AtZero(b)) <= 0
BY DEF AtZero, Sign, Cmp, Fin, Z

LEMMA MulCommutes ==
  ASSUME NEW a \in Z, NEW b \in Z
  PROVE  MulZ(a, b) = MulZ(b, a)
<1>1. a.n \in Int /\ b.n \in Int /\ a.n * b.n = b.n * a.n
  BY DEF Z
<1>2. Sign(a) * Sign(b) = Sign(b) * Sign(a)
  BY DEF Sign, Z
<1>. QED  BY <1>1, <1>2 DEF MulZ

LEMMA MulMonotone ==
  ASSUME NEW a \in Z, NEW b \in Z, NEW y \in Z, Cmp(a, b) <= 0
  PROVE  /\ Sign(y) >= 0 => Cmp(MulZ(a, y), MulZ(b, y)) <= 0
         /\ Sign(y) <= 0 => Cmp(MulZ(b, y), MulZ(a, y)) <= 0
<1>1. /\ a.n \in Int /\ b.n \in Int /\ y.n \in Int /\ a.n * y.n \in Int /\ b.n * y.n \in Int
      /\ a.inf \in {-1, 0, 1} /\ b.inf \in {-1, 0, 1} /\ y.inf \in {-1, 0, 1}
  BY DEF Z
<1>2. CASE a.inf = 0 /\ b.inf = 0 /\ y.inf = 0
  <2>1. a = Fin(a.n) /\ b = Fin(b.n) /\ y = Fin(y.n) /\ a.n <= b.n
    BY <1>1, <1>2 DEF Z, Fin, Cmp
  <2>2. MulZ(a, y) = Fin(a.n * y.n) /\ MulZ(b, y) = Fin(b.n * y.n)
    BY <1>1, <1>2, <2>1 DEF MulZ, Fin, Infinite
  <2>3. (Sign(y) >= 0 => y.n >= 0) /\ (Sign(y) <= 0 => y.n <= 0)
    BY <1>1, <1>2 DEF Sign
  <2>4. /\ y.n >= 0 => a.n * y.n <= b.n * y.n
        /\ y.n <= 0 => b.n * y.n <= a.n * y.n
    BY <1>1, <2>1, ProductMonotone
  <2>5. \A p, q \in Int : p <= q => Cmp(Fin(p), Fin(q)) <= 0
    BY DEF Cmp, Fin
  <2>. QED  BY <1>1, <2>2, <2>3, <2>4, <2>5
<1>3. CASE y.inf # 0
  <2>1. \A z \in Z : MulZ(z, y) = IF z = Fin(0) THEN Fin(0) ELSE [inf |-> Sign(z) * y.inf, n |-> 0]
    BY <1>1, <1>3 DEF MulZ, Infinite, Sign, Fin
  <2>2. Sign(a) <= Sign(b) /\ Sign(a) \in {-1, 0, 1} /\ Sign(b) \in {-1, 0, 1}
    BY DEF Sign, Cmp, Z
  <2>3. \A z \in Z : z = Fin(0) <=> Sign(z) = 0
    BY DEF Sign, Fin, Z
  <2>4. Sign(y) = y.inf
    BY <1>3 DEF Sign
  <2>5. /\ MulZ(a, y) = [inf |-> Sign(a) * y.inf, n |-> 0]
        /\ MulZ(b, y) = [inf |-> Sign(b) * y.inf, n |-> 0]
    <3>1. \A z \in Z : Sign(z) = 0 => Sign(z) * y.inf = 0
      BY <1>1
    <3>. QED  BY <2>1, <2>3, <3>1 DEF Fin
  <2>6. CASE y.inf = 1
    BY <2>2, <2>4, <2>5, <2>6 DEF Cmp
  <2>7. CASE y.inf = -1
    BY <2>2, <2>4, <2>5, <2>7 DEF Cmp
  <2>. QED  BY <1>1, <1>3, <2>6, <2>7
<1>4. CASE y.inf = 0 /\ (a.inf # 0 \/ b.inf # 0)
  <2>1. y = Fin(y.n) /\ Sign(y) = IF y.n < 0 THEN -1 ELSE IF y.n > 0 THEN 1 ELSE 0
    BY <1>1, <1>4 DEF Z, Fin, Sign
  <2>2. y.n = 0 => MulZ(a, y) = Fin(0) /\ MulZ(b, y) = Fin(0)
    BY <2>1 DEF MulZ
  <2>3. \A z \in Z : y.n # 0 /\ z.inf # 0 =>
                       /\ y.n > 0 => MulZ(z, y) = [inf |-> z.inf, n |-> 0]
                       /\ y.n < 0 => MulZ(z, y) = [inf |-> - z.inf, n |-> 0]
    BY <1>1, <1>4, <2>1 DEF MulZ, Fin, Infinite, Sign, Z
  <2>4. \A z \in Z : z.inf = 0 => MulZ(z, y).inf = 0
    BY <1>4 DEF MulZ, Fin, Infinite
  <2>5. a.inf <= b.inf /\ (a.inf = b.inf => a.n = b.n /\ a = b)
    BY <1>1, <1>4 DEF Cmp, Z
  <2>6. MulZ(a, y) \in Z /\ MulZ(b, y) \in Z /\ Cmp(MulZ(a, y), MulZ(a, y)) = 0
    BY MulType, CmpTotal
  <2>7. CASE y.n = 0
    BY <2>2, <2>7 DEF Cmp, Fin
  <2>8. CASE y.n > 0
    <3>1. MulZ(a, y).inf = a.inf /\ MulZ(b, y).inf = b.inf
      BY <1>1, <2>3, <2>4, <2>8
    <3>. QED  BY <1>1, <2>1, <2>5, <2>6, <2>8, <3>1 DEF Cmp
  <2>9. CASE y.n < 0
    <3>1. MulZ(a, y).inf = - a.inf /\ MulZ(b, y).inf = - b.inf
      BY <1>1, <2>3, <2>4, <2>9
    <3>. QED  BY <1>1, <2>1, <2>5, <2>6, <2>9, <3>1 DEF Cmp
  <2>. QED  BY <1>1, <2>7, <2>8, <2>9
<1>. QED  BY <1>1, <1>2, <1>3, <1>4

(* A product lies between the products of the bounds.                      *)
LEMMA MulBetween ==
  ASSUME NEW l1 \in Z, NEW u1 \in Z, NEW l2 \in Z, NEW u2 \in Z, NEW x \in Z, NEW y \in Z,
         Cmp(l1, x) <= 0, Cmp(x, u1) <= 0, Cmp(l2, y) <= 0, Cmp(y, u2) <= 0
  PROVE  LET a == MulZ(l1, l2)  b == MulZ(l1, u2)  c == MulZ(u1, l2)  d == MulZ(u1, u2)
         IN /\ Cmp(MinZ4(a, b, c, d), MulZ(x, y)) <= 0
            /\ Cmp(MulZ(x, y), MaxZ4(a, b, c, d)) <= 0
<1> DEFINE a == MulZ(l1, l2)  b == MulZ(l1, u2)  c == MulZ(u1, l2)  d == MulZ(u1, u2)
           m == MinZ4(a, b, c, d)  M == MaxZ4(a, b, c, d)
           ly == MulZ(l1, y)  uy == MulZ(u1, y)  xy == MulZ(x, y)
<1>1. /\ a \in Z /\ b \in Z /\ c \in Z /\ d \in Z /\ ly \in Z /\ uy \in Z /\ xy \in Z
  BY MulType
<1>2. \A z \in Z : Sign(z) \in {-1, 0, 1}
  BY DEF Sign, Z
<1>3. \/ Cmp(ly, xy) <= 0 /\ Cmp(xy, uy) <= 0
      \/ Cmp(uy, xy) <= 0 /\ Cmp(xy, ly) <= 0
  BY <1>2, MulMonotone
<1>4. \/ Cmp(a, ly) <= 0 /\ Cmp(ly, b) <= 0
      \/ Cmp(b, ly) <= 0 /\ Cmp(ly, a) <= 0
  <2>1. a = MulZ(l2, l1) /\ b = MulZ(u2, l1) /\ ly = MulZ(y, l1)
    BY MulCommutes
  <2>. QED  BY <1>2, <2>1, MulMonotone
<1>5. \/ Cmp(c, uy) <= 0 /\ Cmp(uy, d) <= 0
      \/ Cmp(d, uy) <= 0 /\ Cmp(uy, c) <= 0
  <2>1. c = MulZ(l2, u1) /\ d = MulZ(u2, u1) /\ uy = MulZ(y, u1)
    BY MulCommutes
  <2>. QED  BY <1>2, <2>1, MulMonotone
<1>6. /\ m \in Z /\ M \in Z
      /\ Cmp(m, a) <= 0 /\ Cmp(m, b) <= 0 /\ Cmp(m, c) <= 0 /\ Cmp(m, d) <= 0
      /\ Cmp(a, M) <= 0 /\ Cmp(b, M) <= 0 /\ Cmp(c, M) <= 0 /\ Cmp(d, M) <= 0
  BY <1>1, MinMax4
<1> HIDE DEF a, b, c, d, m, M, ly, uy, xy
<1>7. Cmp(m, ly) <= 0 /\ Cmp(ly, M) <= 0 /\ Cmp(m, uy) <= 0 /\ Cmp(uy, M) <= 0
  BY <1>1, <1>4, <1>5, <1>6, CmpTrans
<1>8. Cmp(m, xy) <= 0 /\ Cmp(xy, M) <= 0
  BY <1>1, <1>3, <1>6, <1>7, CmpTrans
<1>. QED  BY <1>8 DEF a, b, c, d, m, M, xy

-----------------------------------------------------------------------------
(* The least and the greatest of four numbers are among them.              *)
LEMMA AmongFour ==
  ASSUME NEW a \in Z, NEW b \in Z, NEW c \in Z, NEW d \in Z
  PROVE  MinZ4(a, b, c, d) \in {a, b, c, d} /\ MaxZ4(a, b, c, d) \in {a, b, c, d}
<1>1. MinZ(a, b) \in Z /\ MaxZ(a, b) \in Z /\ MinZ(a, b) \in {a, b} /\ MaxZ(a, b) \in {a, b}
  BY MinMax
<1>2. /\ MinZ(MinZ(a, b), c) \in {MinZ(a, b), c} /\ MinZ(MinZ(a, b), c) \in Z
      /\ MaxZ(MaxZ(a, b), c) \in {MaxZ(a, b), c} /\ MaxZ(MaxZ(a, b), c) \in Z
  BY <1>1, MinMax
<1>3. /\ MinZ4(a, b, c, d) \in {MinZ(MinZ(a, b), c), d}
      /\ MaxZ4(a, b, c, d) \in {MaxZ(MaxZ(a, b), c), d}
  BY <1>2, MinMax DEF MinZ4, MaxZ4
<1>. QED  BY <1>1, <1>2, <1>3

LEMMA NewProper ==
  ASSUME NEW l \in Z, NEW u \in Z, Cmp(l, u) <= 0
  PROVE  Proper(NewIntInterval(l, u))
BY CmpTotal DEF NewIntInterval, Proper

LEMMA FourWithin ==
  ASSUME NEW a \in Z, NEW b \in Z, NEW c \in Z, NEW d \in Z,
         NEW e \in Z, NEW f \in Z, NEW g \in Z, NEW h \in Z,
         \A z \in {a, b, c, d} : Cmp(MinZ4(e, f, g, h), z) <= 0 /\ Cmp(z, MaxZ4(e, f, g, h)) <= 0
  PROVE  /\ Proper(NewIntInterval(MinZ4(a, b, c, d), MaxZ4(a, b, c, d)))
         /\ Within(NewIntInterval(MinZ4(a, b, c, d), MaxZ4(a, b, c, d)),
                   NewIntInterval(MinZ4(e, f, g, h), MaxZ4(e, f, g, h)))
<1> DEFINE m == MinZ4(a, b, c, d)  M == MaxZ4(a, b, c, d)
           n == MinZ4(e, f, g, h)  N == MaxZ4(e, f, g, h)
<1>1. m \in Z /\ M \in Z /\ n \in Z /\ N \in Z /\ Cmp(m, a) <= 0 /\ Cmp(a, M) <= 0
  BY MinMax4
<1>2. m \in {a, b, c, d} /\ M \in {a, b, c, d}
  BY AmongFour
<1>3. Cmp(n, m) <= 0 /\ Cmp(M, N) <= 0 /\ Cmp(n, a) <= 0 /\ Cmp(a, N) <= 0
  BY <1>2
<1> HIDE DEF m, M, n, N
<1>4. Cmp(m, M) <= 0 /\ Cmp(n, N) <= 0
  BY <1>1, <1>3, CmpTrans
<1>5. Proper(NewIntInterval(m, M)) /\ Within(NewIntInterval(m, M), NewIntInterval(n, N))
  BY <1>1, <1>3, <1>4, NewWithin, NewProper
<1>. QED  BY <1>5 DEF m, M, n, N

(* An operation on smaller intervals gives a smaller one, and on proper    *)
(* intervals a proper one.                                                 *)
LEMMA AddShrinks ==
  ASSUME NEW i1 \in IntInterval, NEW i2 \in IntInterval, NEW j1 \in IntInterval, NEW j2 \in IntInterval,
         Proper(i1), Proper(i2), Proper(j1), Proper(j2), Within(i1, j1), Within(i2, j2)
  PROVE  Proper(Add(i1, i2)) /\ Within(Add(i1, i2), Add(j1, j2))
<1>1. /\ i1.lower \in Z /\ i1.upper \in Z /\ i2.lower \in Z /\ i2.upper \in Z
      /\ j1.lower \in Z /\ j1.upper \in Z /\ j2.lower \in Z /\ j2.upper \in Z
      /\ ~Empty(i1) /\ ~Empty(i2) /\ ~Empty(j1) /\ ~Empty(j2)
      /\ Cmp(i1.lower, i1.upper) <= 0 /\ Cmp(i2.lower, i2.upper) <= 0
      /\ Cmp(j1.lower, j1.upper) <= 0 /\ Cmp(j2.lower, j2.upper) <= 0
  BY ProperFacts
<1>2. /\ Cmp(j1.lower, i1.lower) <= 0 /\ Cmp(i1.upper, j1.upper) <= 0
      /\ Cmp(j2.lower, i2.lower) <= 0 /\ Cmp(i2.upper, j2.upper) <= 0
  BY DEF Within
<1>3. /\ Add(i1, i2) = NewIntInterval(AddZ(i1.lower, i2.lower), AddZ(i1.upper, i2.upper))
      /\ Add(j1, j2) = NewIntInterval(AddZ(j1.lower, j2.lower), AddZ(j1.upper, j2.upper))
  BY <1>1 DEF Add
<1>4. /\ AddZ(i1.lower, i2.lower) \in Z /\ AddZ(i1.upper, i2.upper) \in Z
      /\ AddZ(j1.lower, j2.lower) \in Z /\ AddZ(j1.upper, j2.upper) \in Z
  <2>1. 0 \in Int
    OBVIOUS
  <2>. QED  BY <1>1, <2>1, AddBounds
<1>5. /\ Cmp(AddZ(j1.lower, j2.lower), AddZ(i1.lower, i2.lower)) <= 0
      /\ Cmp(AddZ(i1.upper, i2.upper), AddZ(j1.upper, j2.upper)) <= 0
      /\ Cmp(AddZ(j1.lower, j2.lower), AddZ(j1.upper, j2.upper)) <= 0
      /\ Cmp(AddZ(i1.lower, i2.lower), AddZ(i1.upper, i2.upper)) <= 0
  BY <1>1, <1>2, AddMonotone
<1>. QED  BY <1>3, <1>4, <1>5, NewWithin, NewProper

LEMMA SubShrinks ==
  ASSUME NEW i1 \in IntInterval, NEW i2 \in IntInterval, NEW j1 \in IntInterval, NEW j2 \in IntInterval,
         Proper(i1), Proper(i2), Proper(j1), Proper(j2), Within(i1, j1), Within(i2, j2)
  PROVE  Proper(Sub(i1, i2)) /\ Within(Sub(i1, i2), Sub(j1, j2))
<1>1. /\ i1.lower \in Z /\ i1.upper \in Z /\ i2.lower \in Z /\ i2.upper \in Z
      /\ j1.lower \in Z /\ j1.upper \in Z /\ j2.lower \in Z /\ j2.upper \in Z
      /\ ~Empty(i1) /\ ~Empty(i2) /\ ~Empty(j1) /\ ~Empty(j2)
      /\ Cmp(i1.lower, i1.upper) <= 0 /\ Cmp(i2.lower, i2.upper) <= 0
      /\ Cmp(j1.lower, j1.upper) <= 0 /\ Cmp(j2.lower, j2.upper) <= 0
  BY ProperFacts
<1>2. /\ Cmp(j1.lower, i1.lower) <= 0 /\ Cmp(i1.upper, j1.upper) <= 0
      /\ Cmp(j2.lower, i2.lower) <= 0 /\ Cmp(i2.upper, j2.upper) <= 0
  BY DEF Within
<1>3. /\ Sub(i1, i2) = NewIntInterval(SubZ(i1.lower, i2.upper), SubZ(i1.upper, i2.lower))
      /\ Sub(j1, j2) = NewIntInterval(SubZ(j1.lower, j2.upper), SubZ(j1.upper, j2.lower))
  BY <1>1 DEF Sub
<1>4. /\ SubZ(i1.lower, i2.upper) \in Z /\ SubZ(i1.upper, i2.lower) \in Z
      /\ SubZ(j1.lower, j2.upper) \in Z /\ SubZ(j1.upper, j2.lower) \in Z
  <2>1. 0 \in Int
    OBVIOUS
  <2>. QED  BY <1>1, <2>1, SubBounds
<1>5. /\ Cmp(SubZ(j1.lower, j2.upper), SubZ(i1.lower, i2.upper)) <= 0
      /\ Cmp(SubZ(i1.upper, i2.lower), SubZ(j1.upper, j2.lower)) <= 0
      /\ Cmp(SubZ(j1.lower, j2.upper), SubZ(j1.upper, j2.lower)) <= 0
      /\ Cmp(SubZ(i1.lower, i2.upper), SubZ(i1.upper, i2.lower)) <= 0
  BY <1>1, <1>2, SubMonotone
<1>. QED  BY <1>3, <1>4, <1>5, NewWithin, NewProper

LEMMA MulShrinks ==
  ASSUME NEW i1 \in IntInterval, NEW i2 \in IntInterval, NEW j1 \in IntInterval, NEW j2 \in IntInterval,
         Proper(i1), Proper(i2), Proper(j1), Proper(j2), Within(i1, j1), Within(i2, j2)
  PROVE  Proper(Mul(i1, i2)) /\ Within(Mul(i1, i2), Mul(j1, j2))
<1> DEFINE a == MulZ(i1.lower, i2.lower)  b == MulZ(i1.lower, i2.upper)
           c == MulZ(i1.upper, i2.lower)  d == MulZ(i1.upper, i2.upper)
           m == MinZ4(a, b, c, d)  M == MaxZ4(a, b, c, d)
           e == MulZ(j1.lower, j2.lower)  f == MulZ(j1.lower, j2.upper)
           g == MulZ(j1.upper, j2.lower)  h == MulZ(j1.upper, j2.upper)
           n == MinZ4(e, f, g, h)  N == MaxZ4(e, f, g, h)
<1>1. /\ i1.lower \in Z /\ i1.upper \in Z /\ i2.lower \in Z /\ i2.upper \in Z
      /\ j1.lower \in Z /\ j1.upper \in Z /\ j2.lower \in Z /\ j2.upper \in Z
      /\ ~Empty(i1) /\ ~Empty(i2) /\ ~Empty(j1) /\ ~Empty(j2)
      /\ Cmp(i1.lower, i1.upper) <= 0 /\ Cmp(i2.lower, i2.upper) <= 0
  BY ProperFacts
<1>2. /\ Cmp(j1.lower, i1.lower) <= 0 /\ Cmp(i1.upper, j1.upper) <= 0
      /\ Cmp(j2.lower, i2.lower) <= 0 /\ Cmp(i2.upper, j2.upper) <= 0
  BY DEF Within
<1>3. /\ Cmp(j1.lower, i1.upper) <= 0 /\ Cmp(i1.lower, j1.upper) <= 0
      /\ Cmp(j2.lower, i2.upper) <= 0 /\ Cmp(i2.lower, j2.upper) <= 0
  BY <1>1, <1>2, CmpTrans
<1>4. /\ a \in Z /\ b \in Z /\ c \in Z /\ d \in Z
      /\ e \in Z /\ f \in Z /\ g \in Z /\ h \in Z
  BY <1>1, MulType
<1>5. Mul(i1, i2) = NewIntInterval(m, M) /\ Mul(j1, j2) = NewIntInterval(n, N)
  BY <1>1 DEF Mul
<1>6. /\ Cmp(n, a) <= 0 /\ Cmp(a, N) <= 0 /\ Cmp(n, b) <= 0 /\ Cmp(b, N) <= 0
      /\ Cmp(n, c) <= 0 /\ Cmp(c, N) <= 0 /\ Cmp(n, d) <= 0 /\ Cmp(d, N) <= 0
  <2>1. Cmp(n, a) <= 0 /\ Cmp(a, N) <= 0
    BY <1>1, <1>2, <1>3, MulBetween
  <2>2. Cmp(n, b) <= 0 /\ Cmp(b, N) <= 0
    BY <1>1, <1>2, <1>3, MulBetween
  <2>3. Cmp(n, c) <= 0 /\ Cmp(c, N) <= 0
    BY <1>1, <1>2, <1>3, MulBetween
  <2>4. Cmp(n, d) <= 0 /\ Cmp(d, N) <= 0
    BY <1>1, <1>2, <1>3, MulBetween
  <2>. QED  BY <2>1, <2>2, <2>3, <2>4
<1> HIDE DEF a, b, c, d, e, f, g, h
<1>7. \A z \in {a, b, c, d} : Cmp(n, z) <= 0 /\ Cmp(z, N) <= 0
  BY <1>6
<1>8. Proper(NewIntInterval(m, M)) /\ Within(NewIntInterval(m, M), NewIntInterval(n, N))
  BY ONLY <1>4, <1>7, FourWithin
<1>. QED  BY <1>5, <1>8

LEMMA SliceShrinks ==
  ASSUME NEW i1 \in IntInterval, NEW i2 \in IntInterval, NEW j1 \in IntInterval, NEW j2 \in IntInterval,
         Proper(i1), Proper(i2), Proper(j1), Proper(j2), Within(i1, j1), Within(i2, j2)
  PROVE  Proper(Slice(i1, i2)) /\ Within(Slice(i1, i2), Slice(j1, j2))
<1> DEFINE A(l, u) == AtZero(SubZ(u, l))
           a == A(i1.lower, i2.lower)  b == A(i1.lower, i2.upper)
           c == A(i1.upper, i2.lower)  d == A(i1.upper, i2.upper)
           m == MinZ4(a, b, c, d)  M == MaxZ4(a, b, c, d)
           e == A(j1.lower, j2.lower)  f == A(j1.lower, j2.upper)
           g == A(j1.upper, j2.lower)  h == A(j1.upper, j2.upper)
           n == MinZ4(e, f, g, h)  N == MaxZ4(e, f, g, h)
<1>1. /\ i1.lower \in Z /\ i1.upper \in Z /\ i2.lower \in Z /\ i2.upper \in Z
      /\ j1.lower \in Z /\ j1.upper \in Z /\ j2.lower \in Z /\ j2.upper \in Z
      /\ i1.known /\ i2.known /\ j1.known /\ j2.known
      /\ Cmp(i1.lower, i1.upper) <= 0 /\ Cmp(i2.lower, i2.upper) <= 0
  BY ProperFacts
<1>2. /\ Cmp(j1.lower, i1.lower) <= 0 /\ Cmp(i1.upper, j1.upper) <= 0
      /\ Cmp(j2.lower, i2.lower) <= 0 /\ Cmp(i2.upper, j2.upper) <= 0
  BY DEF Within
<1>3. /\ Cmp(j1.lower, i1.upper) <= 0 /\ Cmp(i1.lower, j1.upper) <= 0
      /\ Cmp(j2.lower, i2.upper) <= 0 /\ Cmp(i2.lower, j2.upper) <= 0
  BY <1>1, <1>2, CmpTrans
<1>4. \A l, u \in Z : A(l, u) \in Z
  <2> SUFFICES ASSUME NEW l \in Z, NEW u \in Z PROVE A(l, u) \in Z
    OBVIOUS
  <2>1. 0 \in Int
    OBVIOUS
  <2>2. SubZ(u, l) \in Z /\ Fin(0) \in Z
    BY <2>1, SubBounds, FinType
  <2>. QED  BY <2>2 DEF AtZero
<1>5. \A l, u, k, v \in Z : Cmp(k, l) <= 0 /\ Cmp(u, v) <= 0 => Cmp(A(l, u), A(k, v)) <= 0
  <2> SUFFICES ASSUME NEW l \in Z, NEW u \in Z, NEW k \in Z, NEW v \in Z, Cmp(k, l) <= 0, Cmp(u, v) <= 0
               PROVE  Cmp(A(l, u), A(k, v)) <= 0
    OBVIOUS
  <2>1. 0 \in Int
    OBVIOUS
  <2>2. SubZ(u, l) \in Z /\ SubZ(v, k) \in Z
    BY <2>1, SubBounds
  <2>3. Cmp(SubZ(u, l), SubZ(v, k)) <= 0
    BY SubMonotone
  <2>. QED  BY <2>2, <2>3, AtZeroMonotone
<1>6. Slice(i1, i2) = NewIntInterval(m, M) /\ Slice(j1, j2) = NewIntInterval(n, N)
  BY <1>1 DEF Slice
<1>7. /\ a \in Z /\ b \in Z /\ c \in Z /\ d \in Z
      /\ e \in Z /\ f \in Z /\ g \in Z /\ h \in Z
  <2> HIDE DEF A
  <2>. QED  BY <1>1, <1>4
<1>8. /\ Cmp(g, a) <= 0 /\ Cmp(g, b) <= 0 /\ Cmp(g, c) <= 0 /\ Cmp(g, d) <= 0
      /\ Cmp(a, f) <= 0 /\ Cmp(b, f) <= 0 /\ Cmp(c, f) <= 0 /\ Cmp(d, f) <= 0
  <2> HIDE DEF A
  <2>. QED  BY <1>1, <1>2, <1>3, <1>5
<1> HIDE DEF A, a, b, c, d, e, f, g, h
<1>9. n \in Z /\ N \in Z /\ Cmp(n, g) <= 0 /\ Cmp(f, N) <= 0
  BY <1>7, MinMax4
<1>10. /\ Cmp(n, a) <= 0 /\ Cmp(a, N) <= 0 /\ Cmp(n, b) <= 0 /\ Cmp(b, N) <= 0
       /\ Cmp(n, c) <= 0 /\ Cmp(c, N) <= 0 /\ Cmp(n, d) <= 0 /\ Cmp(d, N) <= 0
  <2> HIDE DEF n, N
  <2>. QED  BY <1>7, <1>8, <1>9, CmpTrans
<1>11. \A z \in {a, b, c, d} : Cmp(n, z) <= 0 /\ Cmp(z, N) <= 0
  BY <1>10
<1>12. Proper(NewIntInterval(m, M)) /\ Within(NewIntInterval(m, M), NewIntInterval(n, N))
  BY ONLY <1>7, <1>11, FourWithin
<1>. QED  BY <1>6, <1>12

LEMMA MinMaxMonotone ==
  ASSUME NEW a \in Z, NEW b \in Z, NEW c \in Z, NEW d \in Z, Cmp(a, b) <= 0, Cmp(c, d) <= 0
  PROVE  Cmp(MinZ(a, c), MinZ(b, d)) <= 0 /\ Cmp(MaxZ(a, c), MaxZ(b, d)) <= 0
BY DEF MinZ, MaxZ, Cmp, Z

LEMMA UnionShrinks ==
  ASSUME NEW i1 \in IntInterval, NEW i2 \in IntInterval, NEW j1 \in IntInterval, NEW j2 \in IntInterval,
         Proper(i1), Proper(i2), Proper(j1), Proper(j2), Within(i1, j1), Within(i2, j2)
  PROVE  Proper(Union(i1, i2)) /\ Proper(Union(j1, j2)) /\ Within(Union(i1, i2), Union(j1, j2))
<1>1. /\ i1.lower \in Z /\ i1.upper \in Z /\ i2.lower \in Z /\ i2.upper \in Z
      /\ j1.lower \in Z /\ j1.upper \in Z /\ j2.lower \in Z /\ j2.upper \in Z
      /\ ~Empty(i1) /\ ~Empty(i2) /\ ~Empty(j1) /\ ~Empty(j2)
      /\ i1.known /\ i2.known /\ j1.known /\ j2.known
      /\ Cmp(i1.lower, i1.upper) <= 0 /\ Cmp(j1.lower, j1.upper) <= 0
  BY ProperFacts
<1> DEFINE l == MinZ(i1.lower, i2.lower)  u == MaxZ(i1.upper, i2.upper)
           m == MinZ(j1.lower, j2.lower)  v == MaxZ(j1.upper, j2.upper)
<1>2. Union(i1, i2) = NewIntInterval(l, u) /\ Union(j1, j2) = NewIntInterval(m, v)
  BY <1>1 DEF Union
<1>3. /\ l \in Z /\ u \in Z /\ Cmp(l, i1.lower) <= 0 /\ Cmp(i1.upper, u) <= 0
      /\ m \in Z /\ v \in Z /\ Cmp(m, j1.lower) <= 0 /\ Cmp(j1.upper, v) <= 0
  BY <1>1, MinMax
<1>4. Cmp(m, l) <= 0 /\ Cmp(u, v) <= 0
  BY <1>1, MinMaxMonotone DEF Within
<1> HIDE DEF l, u, m, v
<1>5. Cmp(l, i1.upper) <= 0 /\ Cmp(m, j1.upper) <= 0
  BY <1>1, <1>3, CmpTrans
<1>6. Cmp(l, u) <= 0 /\ Cmp(m, v) <= 0
  BY <1>1, <1>3, <1>5, CmpTrans
<1>. QED  BY <1>2, <1>3, <1>4, <1>6, NewWithin, NewProper

LEMMA MakeShrinks ==
  ASSUME NEW i \in IntInterval, NEW j \in IntInterval, Within(i, j)
  PROVE  Within(Make(i), Make(j))
<1>1. i.lower \in Z /\ i.upper \in Z /\ j.lower \in Z /\ j.upper \in Z
  BY DEF IntInterval
<1>2. Make(i).upper = i.upper /\ Make(j).upper = j.upper
  BY DEF Make, IntInterval
<1>3. Make(i).lower = AtZero(i.lower) /\ Make(j).lower = AtZero(j.lower)
  BY DEF Make, AtZero, IntInterval
<1>. QED  BY <1>1, <1>2, <1>3, AtZeroMonotone DEF Within

LEMMA ConversionShrinks ==
  ASSUME NEW i1 \in IntInterval, NEW i2 \in IntInterval, NEW j1 \in IntInterval, NEW j2 \in IntInterval,
         i1.known, i2.known, j1.known, j2.known, Within(i1, j1), Within(i2, j2),
         NEW from \in AllTypes, NEW to \in AllTypes
  PROVE  Within(Conversion(i1, i2, from, to), Conversion(j1, j2, from, to))
<1> DEFINE n == Fin(2 ^ Bits(from) - 1)
<1>1. n \in Z /\ Fin(0) \in Z /\ NInfinity \in Z
  <2>1. 2 ^ Bits(from) - 1 \in Int
    BY BitsAssumption DEF Bits
  <2>. QED  BY <2>1, FinType, ZTypes
<1>2. /\ i1.lower \in Z /\ i1.upper \in Z /\ i2.lower \in Z /\ i2.upper \in Z
      /\ j1.lower \in Z /\ j1.upper \in Z /\ j2.lower \in Z /\ j2.upper \in Z
  BY DEF IntInterval
<1>3. ASSUME NEW z \in Z
      PROVE  Within(NewIntInterval(MaxZ(z, i1.lower), MinZ(n, i2.upper)),
                    NewIntInterval(MaxZ(z, j1.lower), MinZ(n, j2.upper)))
  <2> HIDE DEF n
  <2>1. Cmp(z, z) <= 0 /\ Cmp(n, n) <= 0
    BY <1>1, CmpTotal
  <2>2. /\ Cmp(MaxZ(z, j1.lower), MaxZ(z, i1.lower)) <= 0
        /\ Cmp(MinZ(n, i2.upper), MinZ(n, j2.upper)) <= 0
    BY <1>1, <1>2, <2>1, MinMaxMonotone DEF Within
  <2>3. /\ MaxZ(z, j1.lower) \in Z /\ MaxZ(z, i1.lower) \in Z
        /\ MinZ(n, i2.upper) \in Z /\ MinZ(n, j2.upper) \in Z
    BY <1>1, <1>2, MinMax
  <2>. QED  BY <2>2, <2>3, NewWithin
<1>. QED  BY <1>1, <1>3 DEF Conversion

(* The union over the first operands, one more at a time.                  *)
LEMMA JoinedPrefix ==
  ASSUME NEW D, NEW a \in Seq(D), NEW r \in [D -> IntInterval]
  PROVE  \E F : /\ Joined(a, r) = F[Len(a)] /\ F[0] = EmptyIntInterval
               /\ \A n \in Nat : n + 1 <= Len(a) => F[n + 1] = Union(r[a[n + 1]], F[n])
<1> DEFINE F == CHOOSE f : f = [k \in 0..Len(a) |-> IF k = 0 THEN EmptyIntInterval
                                                    ELSE Union(r[a[k]], f[k - 1])]
<1>1. Joined(a, r) = F[Len(a)]
  BY DEF Joined
<1>2. F = [k \in 0..Len(a) |-> IF k = 0 THEN EmptyIntInterval ELSE Union(r[a[k]], F[k - 1])]
  <2>1. \E f : f = [k \in 0..Len(a) |-> IF k = 0 THEN EmptyIntInterval
                                        ELSE Union(r[a[k]], f[k - 1])]
    BY JoinedExists DEF JoinedUpTo
  <2>. QED  BY <2>1, Zenon
<1> HIDE DEF F
<1>3. F[0] = EmptyIntInterval
  BY <1>2
<1>4. ASSUME NEW n \in Nat, n + 1 <= Len(a)
      PROVE  F[n + 1] = Union(r[a[n + 1]], F[n])
  <2>1. n + 1 \in 0..Len(a) /\ n + 1 # 0 /\ (n + 1) - 1 = n
    BY <1>4
  <2>. QED  BY <1>2, <2>1
<1>. QED  BY <1>1, <1>3, <1>4

LEMMA JoinedShrinks ==
  ASSUME NEW D, NEW a \in Seq(D), Len(a) # 0, NEW q \in [D -> IntInterval], NEW r \in [D -> IntInterval],
         \A k \in 1..Len(a) : Proper(q[a[k]]) /\ Proper(r[a[k]]) /\ Within(q[a[k]], r[a[k]])
  PROVE  Within(Joined(a, q), Joined(a, r))
<1>1. PICK F : /\ Joined(a, q) = F[Len(a)] /\ F[0] = EmptyIntInterval
               /\ \A n \in Nat : n + 1 <= Len(a) => F[n + 1] = Union(q[a[n + 1]], F[n])
  BY JoinedPrefix
<1>2. PICK G : /\ Joined(a, r) = G[Len(a)] /\ G[0] = EmptyIntInterval
               /\ \A n \in Nat : n + 1 <= Len(a) => G[n + 1] = Union(r[a[n + 1]], G[n])
  BY JoinedPrefix
<1> DEFINE Fine(n) == /\ F[n] \in IntInterval /\ Proper(F[n])
                      /\ G[n] \in IntInterval /\ Proper(G[n])
                      /\ Within(F[n], G[n])
           S == {n \in Nat : n # 0 /\ n <= Len(a) => Fine(n)}
<1>3. 0 \in S
  OBVIOUS
<1>4. ASSUME NEW n \in Nat, n \in S PROVE n + 1 \in S
  <2> SUFFICES ASSUME n + 1 <= Len(a) PROVE Fine(n + 1)
    OBVIOUS
  <2> DEFINE i == q[a[n + 1]]  j == r[a[n + 1]]
  <2>1. n + 1 \in 1..Len(a)
    OBVIOUS
  <2>2. i \in IntInterval /\ j \in IntInterval /\ Proper(i) /\ Proper(j) /\ Within(i, j)
    BY <2>1
  <2>3. F[n + 1] = Union(i, F[n]) /\ G[n + 1] = Union(j, G[n])
    BY <1>1, <1>2
  <2> HIDE DEF i, j
  <2>4. CASE n = 0
    <3>1. Empty(EmptyIntInterval)
      BY DEF Empty, EmptyIntInterval
    <3>2. Union(i, EmptyIntInterval) = i /\ Union(j, EmptyIntInterval) = j
      BY <2>2, <3>1, ProperFacts DEF Union
    <3>. QED  BY <1>1, <1>2, <2>2, <2>3, <2>4, <3>2
  <2>5. CASE n # 0
    <3>1. Fine(n)
      BY <1>4, <2>5
    <3>2. /\ Proper(Union(i, F[n])) /\ Proper(Union(j, G[n])) /\ Within(Union(i, F[n]), Union(j, G[n]))
          /\ Union(i, F[n]) \in IntInterval /\ Union(j, G[n]) \in IntInterval
      BY <2>2, <3>1, UnionShrinks, OperationTypes
    <3>. QED  BY <2>3, <3>2
  <2>. QED  BY <2>4, <2>5
<1> HIDE DEF S
<1>5. \A n \in Nat : n \in S
  BY <1>3, <1>4, SetInduction
<1>6. Len(a) \in S /\ Len(a) \in Nat
  BY <1>5
<1>. QED  BY <1>1, <1>2, <1>6 DEF S

(* A constraint gives a smaller interval when its operands shrink.         *)
LEMMA EvalShrinks ==
  ASSUME prog \in Programs, NEW v \in Values, HasConstraint(v),
         NEW q \in [Values -> IntInterval], NEW r \in [Values -> IntInterval],
         \A u \in Operands(v) \cup {v} : Proper(q[u]) /\ Proper(r[u]) /\ Within(q[u], r[u])
  PROVE  Within(Eval(v, q), Eval(v, r))
<1>1. Operands(v) \subseteq Values
  BY OperandShape
<1>2. /\ \A u \in Operands(v) : q[u].known /\ r[u].known
      /\ \A u \in Operands(v) : q[u] \in IntInterval /\ r[u] \in IntInterval
      /\ q[v].known /\ r[v].known /\ q[v] \in IntInterval /\ r[v] \in IntInterval
  BY <1>1 DEF Proper
<1>3. CASE Op(v) \in {"const", "call"}
  <2>1. Eval(v, q) = Eval(v, r) /\ Eval(v, r) \in IntInterval
    BY <1>3, EvalUnfold, EvalType
  <2>. QED  BY <2>1, WithinSame
<1>4. CASE Op(v) = "phi"
  <2>1. Args(v) \in Seq(Operands(v)) /\ Len(Args(v)) # 0
    BY <1>4, ArgShape, ProgramShape DEF Arity
  <2>2. Args(v) \in Seq(Values) /\ \A k \in 1..Len(Args(v)) : Args(v)[k] \in Operands(v)
    BY <1>1, <2>1
  <2>. QED  BY <1>4, <2>1, <2>2, EvalUnfold, JoinedShrinks
<1>5. CASE Op(v) \in {"add", "sub", "mul", "append"}
  <2>1. Args(v)[1] \in Operands(v) /\ Args(v)[2] \in Operands(v)
    BY <1>5, ArgShape
  <2> DEFINE i == q[Args(v)[1]]  j == q[Args(v)[2]]  k == r[Args(v)[1]]  l == r[Args(v)[2]]
  <2>2. /\ i \in IntInterval /\ j \in IntInterval /\ k \in IntInterval /\ l \in IntInterval
        /\ i.known /\ j.known /\ k.known /\ l.known
        /\ Proper(i) /\ Proper(j) /\ Proper(k) /\ Proper(l) /\ Within(i, k) /\ Within(j, l)
    BY <1>2, <2>1
  <2>3. Eval(v, q) = Arithmetic(Op(v), i, j) /\ Eval(v, r) = Arithmetic(Op(v), k, l)
    BY <1>5, EvalUnfold
  <2> HIDE DEF i, j, k, l
  <2>4. /\ Within(Add(i, j), Add(k, l)) /\ Within(Sub(i, j), Sub(k, l)) /\ Within(Mul(i, j), Mul(k, l))
    BY <2>2, AddShrinks, SubShrinks, MulShrinks
  <2>. QED  BY <1>5, <2>2, <2>3, <2>4 DEF Arithmetic
<1>6. CASE Op(v) \in {"len", "copy", "make", "convert"}
  <2>1. Args(v)[1] \in Operands(v) /\ Args(v)[1] \in Values
    BY <1>1, <1>6, ArgShape
  <2>2. CASE Op(v) \in {"len", "copy"}
    BY <1>2, <2>1, <2>2, EvalUnfold
  <2>3. CASE Op(v) = "make"
    BY <1>2, <2>1, <2>3, EvalUnfold, MakeShrinks
  <2>4. CASE Op(v) = "convert"
    <3>1. Type(v) \in AllTypes /\ Type(Args(v)[1]) \in AllTypes
      BY <2>1, ProgramShape
    <3>. QED  BY <1>2, <2>1, <2>4, <3>1, EvalUnfold, ConversionShrinks
  <2>. QED  BY <1>6, <2>2, <2>3, <2>4
<1>7. CASE Op(v) \in {"slice", "arrayslice"}
  <2> DEFINE lo == IF Op(v) = "slice" THEN Args(v)[2] ELSE Args(v)[1]
             hi == IF Op(v) = "slice" THEN (IF Args(v)[3] = 0 THEN Args(v)[1] ELSE Args(v)[3]) ELSE Args(v)[2]
             low(x) == IF lo = 0 THEN Just(0) ELSE x[lo]
             high(x) == IF Op(v) # "slice" /\ hi = 0 THEN Just(prog.ins[v].k) ELSE x[hi]
  <2>1. \A x : Eval(v, x) = Slice(low(x), high(x))
    BY <1>7, EvalUnfold
  <2>2. /\ lo # 0 => lo \in Operands(v)
        /\ Op(v) = "slice" \/ hi # 0 => hi \in Operands(v)
    BY <1>7, ArgShape
  <2>3. \A k \in Int : Just(k) \in IntInterval /\ Proper(Just(k)) /\ Within(Just(k), Just(k))
    <3> SUFFICES ASSUME NEW k \in Int
                 PROVE  Just(k) \in IntInterval /\ Proper(Just(k)) /\ Within(Just(k), Just(k))
      OBVIOUS
    <3>1. Fin(k) \in Z /\ Cmp(Fin(k), Fin(k)) <= 0 /\ Just(k) \in IntInterval
      BY FinType, CmpTotal, ConstantTypes
    <3>. QED  BY <3>1, NewProper, WithinSame DEF Just
  <2>4. prog.ins[v].k \in Int /\ 0 \in Int
    BY ProgramShape
  <2> HIDE DEF lo, hi
  <2>5. /\ low(q) \in IntInterval /\ low(r) \in IntInterval /\ Proper(low(q)) /\ Proper(low(r))
        /\ Within(low(q), low(r))
    BY <1>2, <2>2, <2>3, <2>4
  <2>6. /\ high(q) \in IntInterval /\ high(r) \in IntInterval /\ Proper(high(q)) /\ Proper(high(r))
        /\ Within(high(q), high(r))
    BY <1>2, <2>2, <2>3, <2>4
  <2> HIDE DEF low, high
  <2>. QED  BY <2>1, <2>5, <2>6, SliceShrinks
<1>. QED  BY <1>3, <1>4, <1>5, <1>6, <1>7, ProgramShape DEF HasConstraint

(* What a constraint reads: its operands and, for a conversion, its own    *)
(* range.                                                                  *)
LEMMA EvalReads ==
  ASSUME prog \in Programs, NEW v \in Values, HasConstraint(v),
         NEW q \in [Values -> IntInterval], NEW r \in [Values -> IntInterval],
         \A u \in Operands(v) : q[u] = r[u], Op(v) = "convert" => q[v] = r[v]
  PROVE  Eval(v, q) = Eval(v, r)
<1>1. CASE Op(v) = "phi"
  <2>1. Args(v) \in Seq(Operands(v)) /\ Operands(v) \subseteq Values
    BY <1>1, ArgShape, OperandShape
  <2>2. Args(v) \in Seq(Values) /\ \A k \in 1..Len(Args(v)) : q[Args(v)[k]] = r[Args(v)[k]]
    BY <2>1
  <2>3. \A f, k : k \in 1..Len(Args(v)) => Union(q[Args(v)[k]], f) = Union(r[Args(v)[k]], f)
    BY <2>2
  <2>4. Joined(Args(v), q) = Joined(Args(v), r)
    <3>1. \A f : [k \in 0..Len(Args(v)) |-> IF k = 0 THEN EmptyIntInterval ELSE Union(q[Args(v)[k]], f[k - 1])]
               = [k \in 0..Len(Args(v)) |-> IF k = 0 THEN EmptyIntInterval ELSE Union(r[Args(v)[k]], f[k - 1])]
      BY <2>1, <2>3
    <3>. QED  BY <3>1 DEF Joined
  <2>. QED  BY <1>1, <2>4, EvalUnfold
<1>2. CASE Op(v) # "phi"
  <2>1. CASE Op(v) \in {"const", "call"}
    BY <2>1, EvalUnfold
  <2>2. CASE Op(v) \in {"add", "sub", "mul", "append", "len", "copy", "make", "convert"}
    BY <2>2, EvalUnfold, ArgShape
  <2>3. CASE Op(v) \in {"slice", "arrayslice"}
    BY <2>3, EvalUnfold, ArgShape
  <2>. QED  BY <1>2, <2>1, <2>2, <2>3, ProgramShape DEF HasConstraint
<1>. QED  BY <1>1, <1>2

-----------------------------------------------------------------------------
(* widenIntInterval makes a proper range larger, and a change is one.      *)
LEMMA WidenGrows ==
  ASSUME NEW cs \in SUBSET Z, IsFiniteSet(cs), NEW oi \in IntInterval, NEW ni \in IntInterval,
         oi.known => Proper(oi), WidenChanges(oi, ni)
  PROVE  LET new == WidenInterval(cs, oi, ni)
         IN new # oi /\ new.known /\ Within(ni, new) /\ (oi.known => Within(oi, new))
<1> DEFINE new == WidenInterval(cs, oi, ni)
<1>1. /\ oi.lower \in Z /\ oi.upper \in Z /\ ni.lower \in Z /\ ni.upper \in Z /\ ni.known
  BY DEF IntInterval, WidenChanges
<1>2. CASE ~oi.known
  BY <1>1, <1>2, WithinSame DEF WidenInterval
<1>3. CASE oi.known
  <2> DEFINE lc == LowerConst(cs, ni.lower)  uc == UpperConst(cs, ni.upper)
             down == Cmp(ni.lower, oi.lower) = -1
             up == Cmp(ni.upper, oi.upper) = 1
             l == IF down THEN lc ELSE oi.lower
             u == IF up THEN uc ELSE oi.upper
  <2>1. down \/ up
    BY <1>3 DEF WidenChanges
  <2>2. new = NewIntInterval(l, u)
    BY <1>1, <1>3, <2>1 DEF WidenInterval
  <2>3. lc \in Z /\ Cmp(lc, ni.lower) <= 0 /\ uc \in Z /\ Cmp(ni.upper, uc) <= 0
    BY <1>1, ConstsBound
  <2> HIDE DEF lc, uc
  <2>4. /\ l \in Z /\ Cmp(l, ni.lower) <= 0 /\ Cmp(l, oi.lower) <= 0
        /\ down => Cmp(l, oi.lower) = -1
    <3>1. CASE down
      BY <1>1, <2>3, <3>1 DEF Cmp, Z
    <3>2. CASE ~down
      BY <1>1, <3>2, CmpTotal
    <3>. QED  BY <3>1, <3>2
  <2>5. /\ u \in Z /\ Cmp(ni.upper, u) <= 0 /\ Cmp(oi.upper, u) <= 0
        /\ up => Cmp(oi.upper, u) = -1
    <3>1. CASE up
      BY <1>1, <2>3, <3>1 DEF Cmp, Z
    <3>2. CASE ~up
      BY <1>1, <3>2, CmpTotal
    <3>. QED  BY <3>1, <3>2
  <2>6. Cmp(oi.lower, oi.upper) <= 0
    BY <1>3 DEF Proper
  <2> HIDE DEF l, u, new
  <2>7. Cmp(l, oi.upper) <= 0
    BY <1>1, <2>4, <2>6, CmpTrans
  <2>8. Cmp(l, u) <= 0
    BY <1>1, <2>4, <2>5, <2>7, CmpTrans
  <2>9. new = [known |-> TRUE, lower |-> l, upper |-> u]
    BY <2>2, <2>4, <2>5, <2>8, CmpTotal DEF NewIntInterval
  <2>10. new # oi
    <3>1. down => l # oi.lower
      BY <1>1, <2>4, CmpTotal
    <3>2. up => u # oi.upper
      BY <1>1, <2>5, CmpTotal
    <3>. QED  BY <2>1, <2>9, <3>1, <3>2
  <2>. QED  BY <2>4, <2>5, <2>9, <2>10 DEF Within, new
<1>. QED  BY <1>2, <1>3

LEMMA WidenRests ==
  ASSUME NEW oi \in IntInterval, NEW ni \in IntInterval, ni.known, ~WidenChanges(oi, ni)
  PROVE  oi.known /\ Within(ni, oi)
<1>1. /\ oi.lower \in Z /\ oi.upper \in Z /\ ni.lower \in Z /\ ni.upper \in Z
  BY DEF IntInterval
<1>2. oi.known /\ Cmp(ni.lower, oi.lower) # -1 /\ Cmp(ni.upper, oi.upper) # 1
  BY DEF WidenChanges
<1>. QED  BY <1>1, <1>2, CmpTotal DEF Within

(* narrowIntInterval makes a range smaller that the new one lies within,   *)
(* and keeps what it is to include.                                        *)
LEMMA NarrowShrinks ==
  ASSUME NEW oi \in IntInterval, NEW ni \in IntInterval, oi.known, Within(ni, oi), NarrowChanges(oi, ni),
         Proper(NarrowInterval(oi, ni))
  PROVE  LET new == NarrowInterval(oi, ni)
         IN new # oi /\ Within(new, oi) /\ Within(ni, new)
<1> DEFINE new == NarrowInterval(oi, ni)
<1>1. /\ oi.lower \in Z /\ oi.upper \in Z /\ ni.lower \in Z /\ ni.upper \in Z
      /\ Cmp(oi.lower, ni.lower) <= 0 /\ Cmp(ni.upper, oi.upper) <= 0
  BY DEF IntInterval, Within
<1>2. Cmp(oi.lower, ni.lower) # 1 /\ Cmp(oi.upper, ni.upper) # -1
  BY <1>1, CmpTotal
<1>3. Cmp(oi.lower, oi.lower) <= 0 /\ Cmp(oi.upper, oi.upper) <= 0
      /\ Cmp(ni.lower, ni.lower) <= 0 /\ Cmp(ni.upper, ni.upper) <= 0
  BY <1>1, CmpTotal
<1>4. ASSUME NEW l \in Z, NEW u \in Z, Proper(NewIntInterval(l, u))
      PROVE  NewIntInterval(l, u) = [known |-> TRUE, lower |-> l, upper |-> u]
  BY <1>4, ConstantTypes, ProperFacts DEF NewIntInterval, Empty, EmptyIntInterval
<1>5. CASE NarrowsLower(oi, ni)
  <2>1. new = NewIntInterval(ni.lower, oi.upper)
    BY <1>5 DEF NarrowInterval
  <2>2. new = [known |-> TRUE, lower |-> ni.lower, upper |-> oi.upper]
    BY <1>1, <1>4, <2>1
  <2>. QED  BY <1>1, <1>3, <1>5, <2>2 DEF NarrowsLower, Within
<1>6. CASE ~NarrowsLower(oi, ni) /\ NarrowsUpper(oi, ni)
  <2>1. new = NewIntInterval(oi.lower, ni.upper)
    BY <1>6 DEF NarrowInterval
  <2>2. new = [known |-> TRUE, lower |-> oi.lower, upper |-> ni.upper]
    BY <1>1, <1>4, <2>1
  <2>. QED  BY <1>1, <1>3, <1>6, <2>2 DEF NarrowsUpper, Within
<1>. QED  BY <1>2, <1>5, <1>6 DEF NarrowChanges

(* A conversion that has been widened covers what it makes of its own new  *)
(* range.                                                                  *)
LEMMA ConversionSettles ==
  ASSUME NEW fromI \in IntInterval, NEW oi \in IntInterval, NEW new \in IntInterval,
         NEW from \in AllTypes, NEW to \in AllTypes, fromI.known, new.known,
         WidenChanges(oi, Conversion(fromI, oi, from, to)),
         Within(Conversion(fromI, oi, from, to), new)
  PROVE  Within(Conversion(fromI, new, from, to), new)
<1> DEFINE n == Fin(2 ^ Bits(from) - 1)
           z == IF Unsigned(from) THEN Fin(0) ELSE NInfinity
           clips == Bits(to) > Bits(from) /\ (Unsigned(from) \/ ~Unsigned(to))
           C(i) == NewIntInterval(MaxZ(z, fromI.lower), MinZ(n, i.upper))
           ni == Conversion(fromI, oi, from, to)
<1>1. n \in Z /\ Fin(0) \in Z /\ NInfinity \in Z
  <2>1. 2 ^ Bits(from) - 1 \in Int
    BY BitsAssumption DEF Bits
  <2>. QED  BY <2>1, FinType, ZTypes
<1>2. /\ fromI.lower \in Z /\ fromI.upper \in Z /\ oi.lower \in Z /\ oi.upper \in Z
      /\ new.lower \in Z /\ new.upper \in Z /\ z \in Z
  BY <1>1 DEF IntInterval
<1>3. \A i \in IntInterval : Conversion(fromI, i, from, to) =
                               IF ~i.known THEN fromI ELSE IF clips THEN C(i) ELSE fromI
  BY DEF Conversion
<1>4. ni = IF ~oi.known THEN fromI ELSE IF clips THEN C(oi) ELSE fromI
  BY <1>3
<1>5. Conversion(fromI, new, from, to) = IF clips THEN C(new) ELSE fromI
  BY <1>3
<1> HIDE DEF n, z, clips, ni
<1>6. CASE ~clips
  BY <1>4, <1>5, <1>6 DEF ni
<1>7. CASE clips
  <2> DEFINE l == MaxZ(z, fromI.lower)
             u(i) == MinZ(n, i.upper)
  <2>1. /\ l \in Z /\ Cmp(fromI.lower, l) <= 0
        /\ u(new) \in Z /\ Cmp(u(new), new.upper) <= 0 /\ u(oi) \in Z
    BY <1>1, <1>2, MinMax
  <2>2. Cmp(new.lower, l) <= 0
    <3>1. CASE ~oi.known
      <4>1. Cmp(new.lower, fromI.lower) <= 0
        BY <1>4, <3>1 DEF Within, ni
      <4> HIDE DEF l, u
      <4>. QED  BY <1>2, <2>1, <4>1, CmpTrans
    <3>2. CASE oi.known
      <4>1. ni = NewIntInterval(l, u(oi))
        BY <1>4, <1>7, <3>2
      <4> HIDE DEF l, u
      <4>2. ni # EmptyIntInterval
        <5>1. Cmp(PInfinity, oi.lower) # -1 /\ Cmp(NInfinity, oi.upper) # 1
          BY <1>2 DEF Cmp, PInfinity, NInfinity, Z
        <5>. QED  BY <3>2, <5>1 DEF WidenChanges, EmptyIntInterval, ni
      <4>3. ni.lower = l
        BY <4>1, <4>2 DEF NewIntInterval
      <4>. QED  BY <4>3 DEF Within, ni
    <3>. QED  BY <3>1, <3>2
  <2>3. C(new) = NewIntInterval(l, u(new))
    OBVIOUS
  <2>4. Cmp(new.lower, PInfinity) <= 0 /\ Cmp(NInfinity, new.upper) <= 0
    BY <1>2 DEF Cmp, PInfinity, NInfinity, Z
  <2> HIDE DEF l, u
  <2>5. Within(NewIntInterval(l, u(new)), new)
    BY <2>1, <2>2, <2>4 DEF NewIntInterval, EmptyIntInterval, Within
  <2>. QED  BY <1>5, <1>7, <2>3, <2>5
<1>. QED  BY <1>6, <1>7

-----------------------------------------------------------------------------
(* No range is empty or turned around.                                     *)
RangesAreProper == \A v \in Values : ranges[v].known => Cmp(ranges[v].lower, ranges[v].upper) <= 0

(* Evaluating w again does not lead out of its range.                      *)
Settled(w, r) ==
  (\A u \in Operands(w) : r[u].known) => r[w].known /\ Within(Eval(w, r), r[w])

(* While a cycle is widened, all is settled but what is still to be        *)
(* evaluated; while it is narrowed, everything is.                         *)
ProgressInv ==
  /\ phase = "widen" =>
       \A w \in comp \ uses : \/ \E i \in DOMAIN work : work[i] \in Operands(w)
                              \/ Settled(w, ranges)
  /\ phase = "narrow" => \A w \in comp : Settled(w, ranges)

LEMMA SameSettled ==
  ASSUME prog' = prog, NEW w, Settled(w, ranges')
  PROVE  Settled(w, ranges)'
<1>1. /\ Op(w)' = Op(w) /\ Type(w)' = Type(w) /\ Args(w)' = Args(w) /\ Operands(w)' = Operands(w)
      /\ \A u : Type(u)' = Type(u)
  BY SameProgram
<1>2. Eval(w, ranges)' = Eval(w, ranges')
  BY <1>1 DEF Eval
<1>. QED  BY <1>1, <1>2 DEF Settled

LEMMA SettledSame ==
  ASSUME prog \in Programs, NEW w \in Values, HasConstraint(w),
         NEW q \in [Values -> IntInterval], NEW r \in [Values -> IntInterval],
         Settled(w, r), q[w] = r[w], \A u \in Operands(w) : q[u] = r[u]
  PROVE  Settled(w, q)
<1>1. Eval(w, q) = Eval(w, r)
  BY EvalReads
<1>. QED  BY <1>1 DEF Settled

(* What is on a cycle has a constraint.                                    *)
LEMMA CycleShape ==
  ASSUME TypeInv, OrderInv, ChannelsOffCycles, phase \in {"widen", "narrow"}, NEW w \in comp
  PROVE  /\ w \in Values /\ HasConstraint(w) /\ Type(w) # "chan"
         /\ Operands(w) \subseteq Values /\ Operands(w) \subseteq solved \cup comp
<1>1. w \in Values /\ prog \in Programs /\ scc = Cycles(prog)
  BY DEF TypeInv
<1>2. scc[w] = comp /\ Operands(w) \subseteq solved \cup comp
  BY DEF OrderInv, OnCycle
<1>3. Operands(w) # {}
  BY <1>1, <1>2, CycleFacts
<1>4. HasConstraint(w)
  BY <1>1, <1>3, ArgShape DEF HasConstraint
<1>. QED  BY <1>1, <1>2, <1>4, OperandShape DEF ChannelsOffCycles

LEMMA WidenProgress ==
  ASSUME TypeInv, TypeInv', OrderInv, KnownInv, ChannelsOffCycles, RangesAreProper, ProgressInv,
         Widen
  PROVE  ProgressInv' /\ Progress
<1> DEFINE ni(w) == Eval(w, ranges)
           new(w) == WidenInterval(consts, ranges[w], ni(w))
<1>1. PICK w \in uses : Change("widen", w, WidenChanges(ranges[w], ni(w)), new(w))
  BY ChangeUnfold
<1>2. /\ phase = "widen" /\ phase' = phase /\ comp' = comp /\ uses' = uses \ {w} /\ prog' = prog
  BY <1>1 DEF Change
<1>3. /\ prog \in Programs /\ comp \in SUBSET Values /\ uses \in SUBSET Values /\ work \in Seq(Values)
      /\ ranges \in [Values -> IntInterval] /\ consts \in SUBSET Z /\ IsFiniteSet(consts)
  BY DEF TypeInv
<1>4. Values' = Values /\ \A v : Operands(v)' = Operands(v)
  BY <1>2, SameProgram
<1>5. ranges' \in [Values -> IntInterval]
  BY <1>4 DEF TypeInv
<1>6. uses \subseteq comp /\ w \in comp
  BY <1>2 DEF OrderInv, OnCycle
<1>7. \A y \in comp : /\ y \in Values /\ HasConstraint(y) /\ Type(y) # "chan"
                      /\ Operands(y) \subseteq Values
  BY <1>2, CycleShape
<1>8. /\ ni(w) \in IntInterval /\ ranges[w] \in IntInterval
      /\ Op(w) = "phi" \/ (\A u \in Operands(w) : ranges[u].known) => ni(w).known
  BY <1>3, <1>6, <1>7, EvalType
<1>9. ranges[w].known => Proper(ranges[w])
  BY <1>6, <1>7 DEF RangesAreProper, Proper
<1>10. /\ new(w) \in IntInterval
  <2> HIDE DEF ni
  <2>. QED  BY <1>3, <1>8, LoopTypes
<1>11. ASSUME \A y \in comp \ uses' : \/ \E i \in DOMAIN work' : work'[i] \in Operands(y)
                                      \/ Settled(y, ranges')
       PROVE  ProgressInv'
  <2>1. \A y : Settled(y, ranges') => Settled(y, ranges)'
    BY <1>2, SameSettled
  <2>. QED  BY <1>2, <1>4, <1>11, <2>1 DEF ProgressInv
<1>12. CASE WidenChanges(ranges[w], ni(w))
  <2>1. new(w) # ranges[w] /\ new(w).known /\ Within(ni(w), new(w))
        /\ (ranges[w].known => Within(ranges[w], new(w)))
    <3> HIDE DEF ni
    <3>. QED  BY <1>3, <1>8, <1>9, <1>12, WidenGrows
  <2> HIDE DEF new
  <2>2. ranges' = [ranges EXCEPT ![w] = new(w)] /\ work' = Append(work, w)
    BY <1>1, <1>6, <1>7, <1>12 DEF Change
  <2>3. ranges'[w] = new(w) /\ \A v \in Values \ {w} : ranges'[v] = ranges[v]
    BY <1>3, <1>6, <1>7, <2>2
  <2>4. (\E i \in DOMAIN work' : work'[i] = w)
        /\ \A i \in DOMAIN work : i \in DOMAIN work' /\ work'[i] = work[i]
    <3>1. Len(work) + 1 \in DOMAIN work' /\ work'[Len(work) + 1] = w
      BY <1>3, <1>6, <1>7, <2>2
    <3>2. \A i \in DOMAIN work : i \in DOMAIN work' /\ work'[i] = work[i]
      BY <1>3, <1>6, <1>7, <2>2
    <3>. QED  BY <3>1, <3>2
  <2>5. ASSUME NEW y \in comp \ uses', \A i \in DOMAIN work' : work'[i] \notin Operands(y)
        PROVE  Settled(y, ranges')
    <3>1. w \notin Operands(y) /\ \A i \in DOMAIN work : work[i] \notin Operands(y)
      BY <2>4, <2>5
    <3>2. \A u \in Operands(y) : ranges'[u] = ranges[u]
      BY <1>7, <2>3, <2>5, <3>1
    <3>3. CASE y # w
      <4>1. Settled(y, ranges)
        BY <1>2, <2>5, <3>1, <3>3 DEF ProgressInv
      <4>2. ranges'[y] = ranges[y]
        BY <1>7, <2>3, <2>5, <3>3
      <4>. QED  BY <1>3, <1>5, <1>7, <2>5, <3>2, <4>1, <4>2, SettledSame
    <3>4. CASE y = w
      <4> SUFFICES ASSUME \A u \in Operands(w) : ranges'[u].known
                   PROVE  Within(Eval(w, ranges'), ranges'[w])
        BY <2>1, <2>3, <3>4 DEF Settled
      <4>1. CASE Op(w) # "convert"
        <5>1. Eval(w, ranges') = ni(w)
          BY <1>3, <1>5, <1>6, <1>7, <3>2, <3>4, <4>1, EvalReads
        <5>. QED  BY <2>1, <2>3, <5>1
      <4>2. CASE Op(w) = "convert"
        <5>1. /\ Args(w)[1] \in Operands(w) /\ Type(Args(w)[1]) \in AllTypes /\ Type(w) \in AllTypes
          BY <1>3, <1>6, <1>7, <4>2, ArgShape, ProgramShape
        <5>2. /\ ni(w) = Conversion(ranges[Args(w)[1]], ranges[w], Type(Args(w)[1]), Type(w))
              /\ Eval(w, ranges') = Conversion(ranges'[Args(w)[1]], ranges'[w], Type(Args(w)[1]), Type(w))
          BY <4>2, EvalUnfold
        <5>3. /\ ranges'[Args(w)[1]] = ranges[Args(w)[1]] /\ ranges[Args(w)[1]] \in IntInterval
              /\ ranges[Args(w)[1]].known
          BY <1>3, <1>6, <1>7, <3>2, <3>4, <5>1
        <5> DEFINE fi == ranges[Args(w)[1]]  from == Type(Args(w)[1])  to == Type(w)  oi == ranges[w]
        <5>4. /\ fi \in IntInterval /\ oi \in IntInterval /\ new(w) \in IntInterval /\ from \in AllTypes
              /\ to \in AllTypes /\ fi.known /\ new(w).known /\ WidenChanges(oi, Conversion(fi, oi, from, to))
              /\ Within(Conversion(fi, oi, from, to), new(w))
          BY <1>8, <1>10, <1>12, <2>1, <5>1, <5>2, <5>3
        <5>5. Eval(w, ranges') = Conversion(fi, new(w), from, to)
          BY <2>3, <5>2, <5>3
        <5> HIDE DEF fi, from, to, oi
        <5>6. Within(Conversion(fi, new(w), from, to), new(w))
          BY <5>4, ConversionSettles
        <5>. QED  BY <2>3, <5>5, <5>6
      <4>. QED  BY <4>1, <4>2
    <3>. QED  BY <3>3, <3>4
  <2>6. ProgressInv'
    BY <1>11, <2>5
  <2>7. \A v \in comp : ranges[v].known => Within(ranges[v], ranges'[v])
    BY <1>3, <1>7, <2>1, <2>3, WithinSame
  <2>8. ranges' # ranges
    BY <2>1, <2>3
  <2>. QED  BY <1>2, <2>6, <2>7, <2>8 DEF Progress
<1>13. CASE ~WidenChanges(ranges[w], ni(w))
  <2>1. ranges' = ranges /\ work' = work
    BY <1>1, <1>13 DEF Change
  <2>2. Settled(w, ranges)
    <3> SUFFICES ASSUME \A u \in Operands(w) : ranges[u].known
                 PROVE  ranges[w].known /\ Within(ni(w), ranges[w])
      BY DEF Settled
    <3>1. ni(w).known
      BY <1>8
    <3> HIDE DEF ni
    <3>. QED  BY <1>8, <1>13, <3>1, WidenRests
  <2>3. ProgressInv'
    BY <1>2, <1>11, <2>1, <2>2 DEF ProgressInv
  <2>4. \A v \in comp : Within(ranges[v], ranges'[v])
    BY <1>3, <1>7, <2>1, WithinSame
  <2>5. ~(Len(work') > Len(work))
    BY <1>3, <2>1
  <2>. QED  BY <1>2, <2>3, <2>4, <2>5 DEF Progress
<1>. QED  BY <1>12, <1>13

LEMMA NarrowProgress ==
  ASSUME TypeInv, TypeInv', OrderInv, KnownInv, ChannelsOffCycles, RangesAreProper, RangesAreProper',
         ProgressInv, Narrow
  PROVE  ProgressInv' /\ Progress
<1> DEFINE ni(w) == Eval(w, ranges)
           new(w) == NarrowInterval(ranges[w], ni(w))
<1>1. PICK w \in uses : Change("narrow", w, NarrowChanges(ranges[w], ni(w)), new(w))
  BY ChangeUnfold
<1>2. /\ phase = "narrow" /\ phase' = phase /\ comp' = comp /\ uses' = uses \ {w} /\ prog' = prog
  BY <1>1 DEF Change
<1>3. /\ prog \in Programs /\ comp \in SUBSET Values /\ uses \in SUBSET Values /\ work \in Seq(Values)
      /\ ranges \in [Values -> IntInterval]
  BY DEF TypeInv
<1>4. Values' = Values /\ \A v : Operands(v)' = Operands(v)
  BY <1>2, SameProgram
<1>5. ranges' \in [Values -> IntInterval]
  BY <1>4 DEF TypeInv
<1>6. w \in comp
  BY <1>2 DEF OrderInv, OnCycle
<1>7. \A y \in comp : /\ y \in Values /\ HasConstraint(y) /\ Type(y) # "chan"
                      /\ Operands(y) \subseteq Values /\ Operands(y) \subseteq solved \cup comp
  BY <1>2, CycleShape
<1>8. \A y \in comp : \A u \in Operands(y) \cup {y} : u \in Values /\ ranges[u].known
  BY <1>2, <1>7 DEF KnownInv
<1>9. \A y \in comp : Within(Eval(y, ranges), ranges[y])
  BY <1>2, <1>8 DEF ProgressInv, Settled
<1>10. \A y \in comp : Eval(y, ranges) \in IntInterval /\ Eval(y, ranges') \in IntInterval
  BY <1>3, <1>5, <1>7, EvalType
<1>11. ASSUME \A y \in comp : Within(Eval(y, ranges'), ranges'[y]) /\ ranges'[y].known
       PROVE  ProgressInv'
  <2>1. \A y : Settled(y, ranges') => Settled(y, ranges)'
    BY <1>2, SameSettled
  <2>2. \A y \in comp : Settled(y, ranges')
    BY <1>11 DEF Settled
  <2>. QED  BY <1>2, <2>1, <2>2 DEF ProgressInv
<1>12. CASE ~NarrowChanges(ranges[w], ni(w))
  <2>1. ranges' = ranges /\ work' = work
    BY <1>1, <1>12 DEF Change
  <2>2. ProgressInv'
    BY <1>8, <1>9, <1>11, <2>1
  <2>3. \A v \in comp : Within(ranges'[v], ranges[v])
    BY <1>3, <1>7, <2>1, WithinSame
  <2>4. ~(Len(work') > Len(work))
    BY <1>3, <2>1
  <2>. QED  BY <1>2, <2>2, <2>3, <2>4 DEF Progress
<1>13. CASE NarrowChanges(ranges[w], ni(w))
  <2>1. ranges' = [ranges EXCEPT ![w] = new(w)]
    BY <1>1, <1>6, <1>7, <1>13 DEF Change
  <2>2. ranges'[w] = new(w) /\ \A v \in Values \ {w} : ranges'[v] = ranges[v]
    BY <1>3, <1>6, <1>7, <2>1
  <2>3. /\ ranges[w] \in IntInterval /\ ni(w) \in IntInterval /\ ranges[w].known /\ Within(ni(w), ranges[w])
    BY <1>3, <1>6, <1>7, <1>8, <1>9, <1>10
  <2>4. new(w).known
    <3> HIDE DEF ni
    <3>1. {} \in SUBSET Z /\ IsFiniteSet({})
      BY FS_EmptySet
    <3>. QED  BY <2>3, <3>1, LoopTypes
  <2>5. \A u \in Values : ranges[u].known => ranges'[u].known
    BY <2>2, <2>4
  <2>6. \A u \in Values : ranges[u].known => Proper(ranges[u]) /\ Proper(ranges'[u])
    BY <1>4, <2>5 DEF RangesAreProper, Proper
  <2>7. Proper(new(w))
    BY <1>6, <1>7, <2>2, <2>3, <2>6
  <2>8. new(w) # ranges[w] /\ Within(new(w), ranges[w]) /\ Within(ni(w), new(w))
    <3> HIDE DEF ni
    <3>. QED  BY <1>13, <2>3, <2>7, NarrowShrinks
  <2> HIDE DEF new
  <2>9. \A u \in Values : Within(ranges'[u], ranges[u])
    BY <1>3, <2>2, <2>8, WithinSame
  <2>10. ASSUME NEW y \in comp
         PROVE  Within(Eval(y, ranges'), ranges'[y]) /\ ranges'[y].known
    <3>1. Within(Eval(y, ranges'), Eval(y, ranges))
      <4>1. \A u \in Operands(y) \cup {y} : Proper(ranges'[u]) /\ Proper(ranges[u]) /\ Within(ranges'[u], ranges[u])
        BY <1>8, <2>6, <2>9
      <4>. QED  BY <1>3, <1>5, <1>7, <4>1, EvalShrinks
    <3>2. Within(Eval(y, ranges), ranges'[y])
      BY <1>7, <1>9, <2>2, <2>8
    <3>3. ranges'[y] \in IntInterval
      BY <1>5, <1>7
    <3>. QED  BY <1>7, <1>8, <1>10, <2>5, <3>1, <3>2, <3>3, WithinTrans
  <2>11. ProgressInv'
    BY <1>11, <2>10
  <2>12. ranges' # ranges
    BY <2>2, <2>8
  <2>. QED  BY <1>2, <1>7, <2>9, <2>11, <2>12 DEF Progress
<1>. QED  BY <1>12, <1>13

LEMMA StepProgress ==
  ASSUME TypeInv, TypeInv', OrderInv, KnownInv, ChannelsOffCycles, RangesAreProper, RangesAreProper',
         ProgressInv, [Next]_vars
  PROVE  ProgressInv' /\ [Progress]_vars
<1>1. prog' = prog /\ scc' = scc
  BY SameFunction
<1>2. Values' = Values /\ \A v : Operands(v)' = Operands(v)
  BY <1>1, SameProgram
<1>3. /\ prog \in Programs /\ scc = Cycles(prog) /\ comp \in SUBSET Values /\ work \in Seq(Values)
      /\ uses \in SUBSET Values /\ ranges \in [Values -> IntInterval]
  BY DEF TypeInv
<1>4. \A y : Settled(y, ranges') => Settled(y, ranges)'
  BY <1>1, SameSettled
<1>5. ASSUME phase' \notin {"widen", "narrow"} PROVE ProgressInv' /\ [Progress]_vars
  BY <1>5 DEF ProgressInv, Progress
<1>6. CASE UNCHANGED vars
  <2>1. /\ phase' = phase /\ comp' = comp /\ uses' = uses /\ work' = work /\ ranges' = ranges
    BY <1>6 DEF vars
  <2>. QED  BY <1>2, <1>4, <1>6, <2>1 DEF ProgressInv
<1>7. ASSUME NEW v \in Values, SolveConstraint(v) \/ SolveValue(v) PROVE ProgressInv' /\ [Progress]_vars
  BY <1>5, <1>7 DEF SolveConstraint, SolveValue
<1>8. ASSUME NEW v \in Values, StartComponent(v) PROVE ProgressInv' /\ [Progress]_vars
  <2> DEFINE S == {w \in scc[v] : ranges[w].known}
  <2>1. /\ phase = "pick" /\ phase' = "widen" /\ ranges' = ranges /\ comp' = scc[v] /\ scc[v] # {}
        /\ work' \in SetToSeqs(S)
    BY <1>8 DEF StartComponent
  <2>2. \A w \in scc[v] : w \in Values /\ Operands(w) \cap scc[v] # {}
    BY <1>3, <2>1, CycleFacts
  <2>3. \A x \in S : \E i \in DOMAIN work' : work'[i] = x
    <3>1. S \in SUBSET Values
      BY <2>2
    <3>2. IsFiniteSet(S)
      <4> HIDE DEF S
      <4>. QED  BY <1>3, <3>1, ProgramShape, FS_Subset
    <3> HIDE DEF S
    <3>. QED  BY <2>1, <3>2, SetToSeqsFact
  <2>4. ASSUME NEW w \in scc[v], \A i \in DOMAIN work' : work'[i] \notin Operands(w)
        PROVE  Settled(w, ranges')
    <3>1. \E u \in Operands(w) : ~ranges[u].known
      BY <2>2, <2>3, <2>4
    <3>. QED  BY <2>1, <3>1 DEF Settled
  <2>5. ProgressInv'
    BY <1>2, <1>4, <2>1, <2>4 DEF ProgressInv
  <2>. QED  BY <2>1, <2>5 DEF Progress
<1>9. CASE Pop
  <2>1. /\ phase' = phase /\ phase \in {"widen", "narrow"} /\ ranges' = ranges
        /\ comp' = comp /\ uses = {} /\ work # <<>> /\ work' = Front(work)
        /\ uses' = UsesOf({Last(work)}, TRUE)
    BY <1>9 DEF Pop
  <2>2. /\ \A i \in DOMAIN work : i \in DOMAIN work' \/ work[i] = Last(work)
        /\ \A i \in DOMAIN work' : work'[i] = work[i]
        /\ ~(Len(work') > Len(work))
    BY <1>3, <2>1 DEF Front, Last
  <2>3. \A w \in comp \ uses' : Last(work) \notin Operands(w)
    BY <1>3, <2>1 DEF UsesOf
  <2>4. ASSUME phase = "widen", NEW w \in comp \ uses', \A i \in DOMAIN work' : work'[i] \notin Operands(w)
        PROVE  Settled(w, ranges')
    BY <2>1, <2>2, <2>3, <2>4 DEF ProgressInv
  <2>5. ASSUME phase = "narrow", NEW w \in comp PROVE Settled(w, ranges')
    BY <2>1, <2>5 DEF ProgressInv
  <2>6. ProgressInv'
    BY <1>2, <1>4, <2>1, <2>4, <2>5 DEF ProgressInv
  <2>7. \A w \in comp : Within(ranges[w], ranges'[w]) /\ Within(ranges'[w], ranges[w])
    BY <1>3, <2>1, WithinSame
  <2>. QED  BY <2>1, <2>2, <2>6, <2>7 DEF Progress
<1>10. CASE Widen
  BY <1>10, WidenProgress
<1>11. CASE Narrow
  BY <1>11, NarrowProgress
<1>12. CASE EndWiden
  <2> DEFINE S == {v \in comp : Type(v) \in IntTypes}
  <2>1. /\ phase = "widen" /\ uses = {} /\ work = <<>> /\ ranges' = Fill(S, ranges)
        /\ phase' = "narrow" /\ comp' = comp
    BY <1>12 DEF EndWiden
  <2>2. \A w \in comp : ranges[w].known
    BY <2>1, WideningLeavesNothing
  <2>3. S \in SUBSET Values /\ \A v \in S : ranges[v].known
    BY <1>3, <2>2
  <2>4. ranges' = ranges
    <3>1. ranges' \in [Values -> IntInterval]
      BY <1>2 DEF TypeInv
    <3> HIDE DEF S
    <3>2. \A v \in Values : Fill(S, ranges)[v] = IF v \in S /\ ~ranges[v].known THEN Default(v) ELSE ranges[v]
      BY <1>3, <2>3, FillFact
    <3>3. \A v \in Values : ranges'[v] = ranges[v]
      BY <2>1, <2>3, <3>2
    <3>. QED  BY <1>3, <3>1, <3>3
  <2>5. \A i \in DOMAIN work : FALSE
    BY <2>1
  <2>6. \A w \in comp : Settled(w, ranges')
    BY <2>1, <2>4, <2>5 DEF ProgressInv
  <2>7. ProgressInv'
    BY <1>4, <2>1, <2>6 DEF ProgressInv
  <2>. QED  BY <2>1, <2>7 DEF Progress
<1>13. CASE EndComponent \/ EndPropagate \/ Return
  BY <1>5, <1>13 DEF EndComponent, EndPropagate, Return
<1>14. CASE Propagate \/ EnterHead \/ Execute
  BY <1>5, <1>14 DEF Propagate, EnterHead, Execute
<1>. QED  BY <1>6, <1>7, <1>8, <1>9, <1>10, <1>11, <1>12, <1>13, <1>14 DEF Next, Solve

(* The two loops of Solve make progress with every value that they put     *)
(* back on the worklist, for every function and every order of the         *)
(* worklists, as long as no range is empty: what widening puts back has    *)
(* grown, what narrowing puts back has shrunk.  That narrowing never moves *)
(* a bound outwards, although narrowIntInterval could, follows from the    *)
(* monotonicity of every constraint's Eval.                                *)
THEOREM LoopsAlwaysMakeProgress ==
  Spec /\ [](ChannelsOffCycles /\ RangesAreProper) => LoopsMakeProgress
<1> DEFINE Proviso == ChannelsOffCycles /\ RangesAreProper
           Inv == TypeInv /\ OrderInv /\ KnownInv /\ ProgressInv
<1>1. Init => Inv
  BY InitTypes, InitOrder, InitKnown DEF Init, ProgressInv
<1>2. Inv /\ Proviso /\ Proviso' /\ [Next]_vars => Inv' /\ [Progress]_vars
  BY StepKeepsTypes, StepKeepsOrder, StepKeepsKnown, StepProgress
<1>. QED  BY <1>1, <1>2, PTL DEF Spec, LoopsMakeProgress

-----------------------------------------------------------------------------
(* Where an empty range can come from: a make of a size that may be        *)
(* negative throughout, and a conversion that clips its operand.  A        *)
(* function is tame when it makes things only of the sizes that a          *)
(* parameter, a call or a constant has, and has no such conversion.        *)
Sized(u) == Op(u) \in {"param", "call"} \/ (Op(u) = "const" /\ prog.ins[u].k >= 0)

Clips(from, to) == Larger(from, to) /\ (Unsigned(from) \/ ~Unsigned(to))

Tame ==
  /\ ChannelsOffCycles
  /\ \A v \in Values : /\ Op(v) = "make" => Sized(Args(v)[1])
                       /\ Op(v) = "convert" => ~Clips(Type(Args(v)[1]), Type(v))

SizesInv ==
  \A u \in Values : Sized(u) /\ ranges[u].known => Cmp(Fin(0), ranges[u].upper) <= 0

UsesInv == phase = "widen" => \A w \in uses : \E u \in Operands(w) : ranges[u].known

LEMMA JoinedProper ==
  ASSUME NEW D, NEW a \in Seq(D), NEW r \in [D -> IntInterval],
         \A k \in 1..Len(a) : r[a[k]].known => Proper(r[a[k]]),
         \E k \in 1..Len(a) : r[a[k]].known
  PROVE  Proper(Joined(a, r))
<1>1. PICK F : /\ Joined(a, r) = F[Len(a)] /\ F[0] = EmptyIntInterval
               /\ \A n \in Nat : n + 1 <= Len(a) => F[n + 1] = Union(r[a[n + 1]], F[n])
  BY JoinedPrefix
<1> DEFINE Fine(n) == /\ F[n] \in IntInterval
                      /\ F[n] = EmptyIntInterval \/ Proper(F[n])
                      /\ (\E k \in 1..n : r[a[k]].known) => Proper(F[n])
           S == {n \in Nat : n <= Len(a) => Fine(n)}
<1>2. Empty(EmptyIntInterval) /\ EmptyIntInterval \in IntInterval
  BY ConstantTypes DEF Empty, EmptyIntInterval
<1>3. 0 \in S
  BY <1>1, <1>2
<1>4. ASSUME NEW n \in Nat, n \in S PROVE n + 1 \in S
  <2> SUFFICES ASSUME n + 1 <= Len(a) PROVE Fine(n + 1)
    OBVIOUS
  <2> DEFINE i == r[a[n + 1]]  j == F[n]
  <2>1. n + 1 \in 1..Len(a) /\ Fine(n)
    BY <1>4
  <2>2. i \in IntInterval /\ (i.known => Proper(i))
    BY <2>1
  <2>3. F[n + 1] = Union(i, j)
    BY <1>1
  <2>4. \A k \in 1..(n + 1) : k \in 1..n \/ k = n + 1
    OBVIOUS
  <2>5. /\ j \in IntInterval /\ (j = EmptyIntInterval \/ Proper(j))
        /\ (\E k \in 1..n : r[a[k]].known) => Proper(j)
    BY <2>1
  <2>6. (\E k \in 1..(n + 1) : r[a[k]].known) => i.known \/ Proper(j)
    BY <2>4, <2>5
  <2> HIDE DEF i, j
  <2>7. Union(i, j) \in IntInterval
    BY <2>2, <2>5, OperationTypes
  <2>8. CASE ~i.known
    <3>1. Union(i, j) = j
      BY <2>8 DEF Union
    <3>. QED  BY <2>3, <2>5, <2>6, <2>8, <3>1
  <2>9. CASE i.known
    <3>1. Proper(Union(i, j))
      <4>1. CASE j = EmptyIntInterval
        <5>1. Union(i, j) = i
          BY <1>2, <2>2, <2>9, <4>1, ProperFacts DEF Union
        <5>. QED  BY <2>2, <2>9, <5>1
      <4>2. CASE Proper(j)
        BY <2>2, <2>5, <2>9, <4>2, UnionShrinks, WithinSame
      <4>. QED  BY <2>5, <4>1, <4>2
    <3>. QED  BY <2>3, <2>7, <3>1
  <2>. QED  BY <2>8, <2>9
<1> HIDE DEF S
<1>5. \A n \in Nat : n \in S
  BY <1>3, <1>4, SetInduction
<1>6. Len(a) \in S /\ Len(a) \in Nat
  BY <1>5
<1>. QED  BY <1>1, <1>6 DEF S

LEMMA ConstantsProper ==
  /\ \A k \in Int : Proper(Just(k)) /\ Proper(NewIntInterval(Fin(k), PInfinity))
  /\ Proper(AtLeastZero) /\ Proper(NewIntInterval(NInfinity, PInfinity))
  /\ \A t : Proper(InfinityFor(t))
<1>1. \A k \in Int : Proper(Just(k)) /\ Proper(NewIntInterval(Fin(k), PInfinity))
  <2> SUFFICES ASSUME NEW k \in Int
               PROVE  Proper(Just(k)) /\ Proper(NewIntInterval(Fin(k), PInfinity))
    OBVIOUS
  <2>1. Fin(k) \in Z /\ PInfinity \in Z /\ Cmp(Fin(k), Fin(k)) <= 0 /\ Cmp(Fin(k), PInfinity) <= 0
    BY FinType, ZTypes DEF Cmp, Fin, PInfinity
  <2>. QED  BY <2>1, NewProper DEF Just
<1>2. Proper(AtLeastZero)
  BY <1>1 DEF AtLeastZero
<1>3. Proper(NewIntInterval(NInfinity, PInfinity))
  <2>1. Cmp(NInfinity, PInfinity) <= 0
    BY DEF Cmp, NInfinity, PInfinity
  <2>. QED  BY <2>1, ZTypes, NewProper
<1>. QED  BY <1>1, <1>2, <1>3 DEF InfinityFor

(* A constraint whose operands have proper ranges has one.                 *)
LEMMA EvalProper ==
  ASSUME prog \in Programs, Tame, NEW v \in Values, HasConstraint(v), NEW r \in [Values -> IntInterval],
         \A u \in Operands(v) \cup {v} : r[u].known => Proper(r[u]),
         Op(v) = "phi" => \E u \in Operands(v) : r[u].known,
         \A u \in Operands(v) : Sized(u) /\ r[u].known => Cmp(Fin(0), r[u].upper) <= 0
  PROVE  Eval(v, r).known => Proper(Eval(v, r))
<1>1. Operands(v) \subseteq Values /\ \A u \in Operands(v) : r[u] \in IntInterval
  BY OperandShape
<1>3. CASE Op(v) \in {"const", "call"}
  <2>1. prog.ins[v].k \in Int
    BY ProgramShape
  <2>. QED  BY <1>3, <2>1, EvalUnfold, ConstantsProper
<1>4. CASE Op(v) = "phi"
  <2>1. Args(v) \in Seq(Operands(v))
    BY <1>4, ArgShape
  <2>2. Args(v) \in Seq(Values) /\ \A k \in 1..Len(Args(v)) : Args(v)[k] \in Operands(v)
    BY <1>1, <2>1
  <2>3. \E k \in 1..Len(Args(v)) : r[Args(v)[k]].known
    BY <1>4, OperandShape
  <2>. QED  BY <1>4, <2>2, <2>3, EvalUnfold, JoinedProper
<1>5. CASE Op(v) \in {"add", "sub", "mul", "append"}
  <2>1. Args(v)[1] \in Operands(v) /\ Args(v)[2] \in Operands(v)
    BY <1>5, ArgShape
  <2> DEFINE i == r[Args(v)[1]]  j == r[Args(v)[2]]
  <2>2. /\ i \in IntInterval /\ j \in IntInterval
        /\ (i.known => Proper(i)) /\ (j.known => Proper(j)) /\ Within(i, i) /\ Within(j, j)
    BY <1>1, <2>1, WithinSame
  <2>3. Eval(v, r) = Arithmetic(Op(v), i, j)
    BY <1>5, EvalUnfold
  <2> HIDE DEF i, j
  <2>4. i.known /\ j.known => Proper(Add(i, j)) /\ Proper(Sub(i, j)) /\ Proper(Mul(i, j))
    BY <2>2, AddShrinks, SubShrinks, MulShrinks
  <2>5. ~Unknown.known
    BY ConstantTypes
  <2>. QED  BY <1>5, <2>3, <2>4, <2>5 DEF Arithmetic
<1>6. CASE Op(v) \in {"len", "copy"}
  <2>1. Args(v)[1] \in Operands(v)
    BY <1>6, ArgShape
  <2>. QED  BY <1>6, <2>1, EvalUnfold, ConstantsProper
<1>7. CASE Op(v) = "make"
  <2>1. Args(v)[1] \in Operands(v) /\ Sized(Args(v)[1])
    BY <1>7, ArgShape DEF Tame
  <2> DEFINE i == r[Args(v)[1]]
  <2>2. i \in IntInterval /\ (i.known => Proper(i) /\ Cmp(Fin(0), i.upper) <= 0)
    BY <1>1, <2>1
  <2>3. Eval(v, r) = Make(i)
    BY <1>7, EvalUnfold
  <2> HIDE DEF i
  <2>. QED  BY <2>2, <2>3 DEF Make, Proper, IntInterval
<1>8. CASE Op(v) = "convert"
  <2>1. Args(v)[1] \in Operands(v) /\ ~Clips(Type(Args(v)[1]), Type(v))
    BY <1>8, ArgShape DEF Tame
  <2>2. Eval(v, r) \in {r[Args(v)[1]], r[v]}
    BY <1>8, <2>1, EvalUnfold DEF Conversion, Clips, Larger
  <2>. QED  BY <2>1, <2>2
<1>9. CASE Op(v) \in {"slice", "arrayslice"}
  <2> DEFINE lo == IF Op(v) = "slice" THEN Args(v)[2] ELSE Args(v)[1]
             hi == IF Op(v) = "slice" THEN (IF Args(v)[3] = 0 THEN Args(v)[1] ELSE Args(v)[3]) ELSE Args(v)[2]
             low == IF lo = 0 THEN Just(0) ELSE r[lo]
             high == IF Op(v) # "slice" /\ hi = 0 THEN Just(prog.ins[v].k) ELSE r[hi]
  <2>1. Eval(v, r) = Slice(low, high)
    BY <1>9, EvalUnfold
  <2>2. /\ lo # 0 => lo \in Operands(v)
        /\ Op(v) = "slice" \/ hi # 0 => hi \in Operands(v)
    BY <1>9, ArgShape
  <2>3. \A k \in Int : Just(k) \in IntInterval /\ Proper(Just(k))
    BY ConstantTypes, ConstantsProper
  <2>4. prog.ins[v].k \in Int /\ 0 \in Int
    BY ProgramShape
  <2> HIDE DEF lo, hi
  <2>5. /\ low \in IntInterval /\ high \in IntInterval
        /\ (low.known => Proper(low)) /\ (high.known => Proper(high))
    BY <1>1, <2>2, <2>3, <2>4
  <2> HIDE DEF low, high
  <2>6. Within(low, low) /\ Within(high, high)
    BY <2>5, WithinSame
  <2>7. low.known /\ high.known => Proper(Slice(low, high))
    BY <2>5, <2>6, SliceShrinks
  <2>8. ~(low.known /\ high.known) => ~Slice(low, high).known
    BY ConstantTypes DEF Slice
  <2>. QED  BY <2>1, <2>7, <2>8
<1>. QED  BY <1>3, <1>4, <1>5, <1>6, <1>7, <1>8, <1>9, ProgramShape DEF HasConstraint

(* What the two loops make of proper ranges is proper.                     *)
LEMMA WidenProper ==
  ASSUME NEW cs \in SUBSET Z, IsFiniteSet(cs), NEW oi \in IntInterval, NEW ni \in IntInterval,
         oi.known => Proper(oi), ni.known => Proper(ni), WidenChanges(oi, ni)
  PROVE  Proper(WidenInterval(cs, oi, ni))
<1> DEFINE new == WidenInterval(cs, oi, ni)
<1>1. new.known /\ Within(ni, new)
  BY WidenGrows
<1>2. new \in IntInterval
  BY LoopTypes
<1>3. Proper(ni)
  BY DEF WidenChanges
<1> HIDE DEF new
<1>4. /\ new.lower \in Z /\ new.upper \in Z /\ ni.lower \in Z /\ ni.upper \in Z
      /\ Cmp(new.lower, ni.lower) <= 0 /\ Cmp(ni.lower, ni.upper) <= 0 /\ Cmp(ni.upper, new.upper) <= 0
  BY <1>1, <1>2, <1>3 DEF IntInterval, Within, Proper
<1>5. Cmp(new.lower, new.upper) <= 0
  BY <1>4, CmpTrans
<1>. QED  BY <1>1, <1>5 DEF new, Proper

LEMMA NarrowProper ==
  ASSUME NEW oi \in IntInterval, NEW ni \in IntInterval, Proper(oi), Proper(ni), Within(ni, oi)
  PROVE  Proper(NarrowInterval(oi, ni))
<1>1. /\ oi.lower \in Z /\ oi.upper \in Z /\ ni.lower \in Z /\ ni.upper \in Z
      /\ Cmp(oi.lower, ni.lower) <= 0 /\ Cmp(ni.lower, ni.upper) <= 0 /\ Cmp(ni.upper, oi.upper) <= 0
  BY DEF IntInterval, Within, Proper
<1>2. Cmp(ni.lower, oi.upper) <= 0 /\ Cmp(oi.lower, ni.upper) <= 0
  BY <1>1, CmpTrans
<1>. QED  BY <1>1, <1>2, NewProper DEF NarrowInterval

(* The defaults, and what the end of Solve gives to a value that may wrap. *)
LEMMA DefaultsProper ==
  /\ \A v : Proper(Default(v)) /\ Cmp(Fin(0), Default(v).upper) <= 0
  /\ LET all == NewIntInterval(NInfinity, PInfinity)
     IN Proper(all) /\ Cmp(Fin(0), all.upper) <= 0
<1>1. /\ NewIntInterval(NInfinity, PInfinity).upper = PInfinity /\ AtLeastZero.upper = PInfinity
      /\ Cmp(Fin(0), PInfinity) <= 0
  BY DEF NewIntInterval, AtLeastZero, Cmp, Fin, PInfinity, NInfinity
<1>. QED  BY <1>1, ConstantsProper DEF Default, InfinityFor

LEMMA SizedEval ==
  ASSUME prog \in Programs, NEW v \in Values, HasConstraint(v), Sized(v), NEW r
  PROVE  Cmp(Fin(0), Eval(v, r).upper) <= 0
<1>1. prog.ins[v].k \in Int
  BY ProgramShape
<1>2. \A k \in Int : /\ Just(k).upper = Fin(k) /\ NewIntInterval(Fin(k), PInfinity).upper = PInfinity
                     /\ k >= 0 => Cmp(Fin(0), Fin(k)) <= 0
                     /\ Cmp(Fin(0), PInfinity) <= 0
  BY DEF Just, NewIntInterval, Cmp, Fin, PInfinity
<1>. QED  BY <1>1, <1>2, EvalUnfold DEF Sized, HasConstraint

LEMMA StepKeepsProper ==
  ASSUME TypeInv, TypeInv', OrderInv, KnownInv, Tame, ProgressInv, RangesAreProper, SizesInv, UsesInv,
         [Next]_vars
  PROVE  RangesAreProper' /\ SizesInv' /\ UsesInv'
<1>1. prog' = prog /\ scc' = scc
  BY SameFunction
<1>2. /\ Values' = Values
      /\ \A v : Operands(v)' = Operands(v) /\ Op(v)' = Op(v) /\ (Sized(v)' <=> Sized(v))
  BY <1>1, SameProgram DEF Sized
<1>3. /\ prog \in Programs /\ comp \in SUBSET Values /\ work \in Seq(Values) /\ uses \in SUBSET Values
      /\ ranges \in [Values -> IntInterval] /\ consts \in SUBSET Z /\ IsFiniteSet(consts)
      /\ \A w \in uses : HasConstraint(w)
  BY DEF TypeInv
<1>4. ranges' \in [Values -> IntInterval]
  BY <1>2 DEF TypeInv
<1>5. /\ \A w \in Values : Operands(w) \subseteq Values
      /\ \A w \in Values : Operands(w) # {} => HasConstraint(w) /\ ~Sized(w)
  BY <1>3, OperandShape, ArgShape DEF HasConstraint, Sized
<1>6. \A u \in Values : ranges[u].known => Proper(ranges[u])
  BY DEF RangesAreProper, Proper
<1>7. ASSUME NEW w \in Values, HasConstraint(w), Op(w) = "phi" => \E u \in Operands(w) : ranges[u].known
      PROVE  Eval(w, ranges) \in IntInterval /\ (Eval(w, ranges).known => Proper(Eval(w, ranges)))
  <2>1. /\ \A u \in Operands(w) \cup {w} : ranges[u].known => Proper(ranges[u])
        /\ \A u \in Operands(w) : Sized(u) /\ ranges[u].known => Cmp(Fin(0), ranges[u].upper) <= 0
    BY <1>5, <1>6 DEF SizesInv
  <2>. QED  BY <1>3, <1>7, <2>1, EvalProper, EvalType
(* Every range stays as it is or becomes a proper one.                     *)
<1>8. ASSUME \A u \in Values : \/ ranges'[u] = ranges[u]
                               \/ /\ ranges'[u].known => Proper(ranges'[u])
                                  /\ Sized(u) /\ ranges'[u].known => Cmp(Fin(0), ranges'[u].upper) <= 0
      PROVE  RangesAreProper' /\ SizesInv'
  <2>1. RangesAreProper'
    BY <1>2, <1>6, <1>8 DEF RangesAreProper, Proper
  <2>2. SizesInv'
    BY <1>2, <1>8 DEF SizesInv
  <2>. QED  BY <2>1, <2>2
<1>9. ASSUME NEW w \in Values, NEW i, ranges' = [ranges EXCEPT ![w] = i] \/ ranges' = ranges,
             i.known => Proper(i), Sized(w) => Cmp(Fin(0), i.upper) <= 0
      PROVE  RangesAreProper' /\ SizesInv'
  <2>1. ranges'[w] = ranges[w] \/ ranges'[w] = i
    BY <1>3, <1>9
  <2>2. \A u \in Values : u # w => ranges'[u] = ranges[u]
    BY <1>3, <1>9
  <2>. QED  BY <1>8, <1>9, <2>1, <2>2
<1>10. ASSUME ranges' = ranges PROVE RangesAreProper' /\ SizesInv'
  BY <1>8, <1>10
<1>11. ASSUME phase' # "widen" PROVE UsesInv'
  BY <1>11 DEF UsesInv
<1>12. CASE UNCHANGED vars
  <2>1. ranges' = ranges /\ phase' = phase /\ uses' = uses
    BY <1>12 DEF vars
  <2>2. UsesInv'
    BY <1>2, <2>1 DEF UsesInv
  <2>. QED  BY <1>10, <2>1, <2>2
<1>13. ASSUME NEW v \in Values, SolveConstraint(v) PROVE RangesAreProper' /\ SizesInv' /\ UsesInv'
  <2>1. /\ phase' = "pick" /\ phase = "pick" /\ HasConstraint(v) /\ Operands(v) \subseteq solved
        /\ ranges' = [ranges EXCEPT ![v] = Eval(v, ranges)]
    BY <1>13 DEF SolveConstraint
  <2>2. Op(v) = "phi" => \E u \in Operands(v) : ranges[u].known
    BY <1>3, <1>5, <2>1, ArgShape DEF KnownInv
  <2>3. Sized(v) => Cmp(Fin(0), Eval(v, ranges).upper) <= 0
    BY <1>3, <2>1, SizedEval
  <2>. QED  BY <1>7, <1>9, <1>11, <2>1, <2>2, <2>3
<1>14. ASSUME NEW S \in SUBSET Values, ranges' = Fill(S, ranges) PROVE RangesAreProper' /\ SizesInv'
  <2>1. \A u \in Values : Fill(S, ranges)[u] = IF u \in S /\ ~ranges[u].known THEN Default(u) ELSE ranges[u]
    BY <1>3, FillFact
  <2>2. \A u \in Values : ranges'[u] = ranges[u] \/ ranges'[u] = Default(u)
    BY <1>14, <2>1
  <2>. QED  BY <1>8, <2>2, DefaultsProper
<1>15. ASSUME NEW v \in Values, SolveValue(v) PROVE RangesAreProper' /\ SizesInv' /\ UsesInv'
  <2>1. phase' = "propagate" /\ ranges' = Fill({v}, ranges) /\ {v} \in SUBSET Values
    BY <1>15 DEF SolveValue
  <2>. QED  BY <1>11, <1>14, <2>1
<1>16. ASSUME NEW v \in Values, StartComponent(v) PROVE RangesAreProper' /\ SizesInv' /\ UsesInv'
  <2>1. ranges' = ranges /\ uses' = {}
    BY <1>16 DEF StartComponent, OrderInv, Idle
  <2>. QED  BY <1>10, <2>1 DEF UsesInv
<1>17. CASE Pop
  <2>1. ranges' = ranges /\ work # <<>> /\ uses' = UsesOf({Last(work)}, TRUE)
    BY <1>17 DEF Pop
  <2>2. ranges[Last(work)].known
    BY <1>3, <2>1 DEF KnownInv, Last
  <2>3. \A w \in uses' : Last(work) \in Operands(w)
    BY <2>1 DEF UsesOf
  <2>4. UsesInv'
    BY <1>2, <2>1, <2>2, <2>3 DEF UsesInv
  <2>. QED  BY <1>10, <2>1, <2>4
<1>18. CASE Widen
  <2> DEFINE ni(w) == Eval(w, ranges)
             new(w) == WidenInterval(consts, ranges[w], ni(w))
  <2>1. PICK w \in uses : Change("widen", w, WidenChanges(ranges[w], ni(w)), new(w))
    BY <1>18, ChangeUnfold
  <2>2. /\ phase = "widen" /\ uses' = uses \ {w} /\ w \in Values /\ HasConstraint(w)
    BY <1>3, <2>1 DEF Change
  <2>3. \A x \in uses : \E u \in Operands(x) : ranges[u].known
    BY <2>2 DEF UsesInv
  <2>4. /\ ni(w) \in IntInterval /\ (ni(w).known => Proper(ni(w)))
        /\ ranges[w] \in IntInterval /\ (ranges[w].known => Proper(ranges[w]))
    BY <1>3, <1>6, <1>7, <2>2, <2>3
  <2>5. WidenChanges(ranges[w], ni(w)) => Proper(new(w))
    <3> HIDE DEF ni
    <3>. QED  BY <1>3, <2>4, WidenProper
  <2>6. ranges' = ranges \/ (ranges' = [ranges EXCEPT ![w] = new(w)] /\ WidenChanges(ranges[w], ni(w)))
    BY <2>1 DEF Change
  <2>7. ~Sized(w)
    BY <1>5, <2>2, <2>3
  <2> HIDE DEF ni, new
  <2>8. RangesAreProper' /\ SizesInv'
    BY <1>9, <1>10, <2>2, <2>5, <2>6, <2>7
  <2>9. \A u \in Values : ranges[u].known => ranges'[u].known
    BY <1>3, <2>2, <2>5, <2>6 DEF Proper
  <2>10. UsesInv'
    BY <1>2, <1>3, <1>5, <2>2, <2>3, <2>9 DEF UsesInv
  <2>. QED  BY <2>8, <2>10
<1>19. CASE Narrow
  <2> DEFINE ni(w) == Eval(w, ranges)
             new(w) == NarrowInterval(ranges[w], ni(w))
  <2>1. PICK w \in uses : Change("narrow", w, NarrowChanges(ranges[w], ni(w)), new(w))
    BY <1>19, ChangeUnfold
  <2>2. /\ phase = "narrow" /\ phase' = "narrow" /\ w \in Values /\ HasConstraint(w)
        /\ ranges' = ranges \/ ranges' = [ranges EXCEPT ![w] = new(w)]
    BY <1>3, <2>1 DEF Change
  <2>3. w \in comp
    BY <2>2 DEF OrderInv, OnCycle
  <2>4. /\ Operands(w) # {} /\ Operands(w) \subseteq solved \cup comp
    <3>1. scc[w] = comp
      BY <2>2, <2>3 DEF OrderInv, OnCycle
    <3>. QED  BY <2>2, <2>3, <3>1, CycleFacts DEF OrderInv, OnCycle, TypeInv
  <2>5. ranges[w].known /\ \A u \in Operands(w) : ranges[u].known
    BY <1>5, <2>2, <2>3, <2>4 DEF KnownInv
  <2>6. ni(w) \in IntInterval /\ Proper(ni(w)) /\ Within(ni(w), ranges[w])
    <3>1. ni(w).known
      BY <1>3, <2>2, <2>5, EvalType
    <3>2. Within(ni(w), ranges[w])
      BY <2>2, <2>3, <2>5 DEF ProgressInv, Settled
    <3>. QED  BY <1>7, <2>2, <2>4, <2>5, <3>1, <3>2
  <2>7. ranges[w] \in IntInterval /\ Proper(ranges[w])
    BY <1>3, <1>6, <2>2, <2>5
  <2>8. Proper(new(w))
    <3> HIDE DEF ni
    <3>. QED  BY <2>6, <2>7, NarrowProper
  <2> HIDE DEF ni, new
  <2>. QED  BY <1>5, <1>9, <1>11, <2>2, <2>4, <2>8
<1>20. CASE EndWiden
  <2>1. /\ ranges' = Fill({v \in comp : Type(v) \in IntTypes}, ranges) /\ phase' = "narrow"
        /\ {v \in comp : Type(v) \in IntTypes} \in SUBSET Values
    BY <1>3, <1>20 DEF EndWiden
  <2>. QED  BY <1>11, <1>14, <2>1
<1>21. CASE Propagate
  <2>1. /\ phase = "propagate" /\ phase' = "propagate" /\ uses # {}
        /\ ranges' = [ranges EXCEPT ![Use] = Eval(Use, ranges)]
    BY <1>21 DEF Propagate
  <2>2. Use \in uses /\ Use \in Values /\ HasConstraint(Use)
    BY <1>3, <2>1, UseFact
  <2>3. \E u \in Operands(Use) : ranges[u].known
    BY <1>5, <2>1, <2>2 DEF OrderInv, Propagating, KnownInv
  <2>4. ~Sized(Use)
    BY <1>5, <2>2, <2>3
  <2>. QED  BY <1>7, <1>9, <1>11, <2>1, <2>2, <2>3, <2>4
<1>22. CASE Return
  <2> DEFINE all == NewIntInterval(NInfinity, PInfinity)
  <2>1. phase' = "run" /\ \A u \in Values : ranges'[u] = ranges[u] \/ ranges'[u] = all
    BY <1>22 DEF Return
  <2>2. Proper(all) /\ Cmp(Fin(0), all.upper) <= 0
    BY DefaultsProper
  <2> HIDE DEF all
  <2>. QED  BY <1>8, <1>11, <2>1, <2>2
<1>23. CASE EndComponent \/ EndPropagate
  <2>1. ranges' = ranges /\ phase' # "widen"
    BY <1>23 DEF EndComponent, EndPropagate
  <2>. QED  BY <1>10, <1>11, <2>1
<1>24. CASE EnterHead \/ Execute
  <2>1. ranges' = ranges /\ phase' # "widen"
    BY <1>24 DEF EnterHead, Execute
  <2>. QED  BY <1>10, <1>11, <2>1
<1>. QED  BY <1>12, <1>13, <1>15, <1>16, <1>17, <1>18, <1>19, <1>20, <1>21, <1>22, <1>23, <1>24
          DEF Next, Solve

(* In a tame function no range is ever empty, so that the loops of Solve   *)
(* make progress whatever the order of the worklists: the ranges of sums,  *)
(* differences, products, slices and phis never come to be empty, and      *)
(* neither widening nor narrowing makes one so.                            *)
THEOREM TameLoopsMakeProgress == Spec /\ Tame => LoopsMakeProgress
<1> DEFINE Inv == /\ TypeInv /\ OrderInv /\ KnownInv /\ ProgressInv
                  /\ RangesAreProper /\ SizesInv /\ UsesInv
<1>1. Init => Inv
  <2>1. Init => \A v \in Values : ~ranges[v].known
    BY ConstantTypes DEF Init
  <2>2. Init => RangesAreProper /\ SizesInv /\ UsesInv
    BY <2>1 DEF Init, RangesAreProper, SizesInv, UsesInv
  <2>. QED  BY <2>2, InitTypes, InitOrder, InitKnown DEF Init, ProgressInv
<1>2. Inv /\ Tame /\ [Next]_vars => Inv' /\ [Progress]_vars
  <2> SUFFICES ASSUME Inv, Tame, [Next]_vars PROVE Inv' /\ [Progress]_vars
    OBVIOUS
  <2>1. ChannelsOffCycles
    BY DEF Tame
  <2>2. TypeInv' /\ OrderInv' /\ KnownInv'
    BY <2>1, StepKeepsTypes, StepKeepsOrder, StepKeepsKnown
  <2>3. RangesAreProper' /\ SizesInv' /\ UsesInv'
    BY <2>2, StepKeepsProper
  <2>. QED  BY <2>1, <2>2, <2>3, StepProgress
<1>3. Tame /\ [Next]_vars => Tame'
  <2> SUFFICES ASSUME Tame, [Next]_vars PROVE Tame'
    OBVIOUS
  <2>1. prog' = prog /\ scc' = scc
    BY SameFunction
  <2>2. /\ Values' = Values /\ \A v : Op(v)' = Op(v) /\ Type(v)' = Type(v) /\ Args(v)' = Args(v)
        /\ ChannelsOffCycles'
    BY <2>1, SameProgram, SameCycles DEF Tame
  <2>3. \A v : Sized(v)' <=> Sized(v)
    BY <2>1, <2>2 DEF Sized
  <2>. QED  BY <2>2, <2>3 DEF Tame
<1>. QED  BY <1>1, <1>2, <1>3, PTL DEF Spec, LoopsMakeProgress
=============================================================================
