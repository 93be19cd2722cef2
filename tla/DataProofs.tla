----------------------------- MODULE DataProofs ----------------------------
(***************************************************************************)
(* Machine-checked proofs about numbers: for any width of the integers,    *)
(* any floats and any range, comparisons, quotients, indices, powers and   *)
(* the values of a loop are those of arithmetic; about objects: for any    *)
(* number of classes, construction, copies and finalizers; and about the   *)
(* trees of expressions: for any operators, every rewriting leaves a tree, *)
(* and the tree that is read is the one that their levels describe.        *)
(***************************************************************************)
EXTENDS Numeric, Structs, ExprTree, WellFoundedInduction, FiniteSetTheorems,
        TLAPS

(* The limits of an integer, and the float beyond all others.              *)
LEMMA LimitsAreIntegers ==
    /\ MaxInt \in Int /\ MinInt \in Int /\ IntCount \in Nat /\ IntCount > 0
    /\ MinInt < 0 /\ MaxInt >= 1 /\ IntCount = MaxInt - MinInt + 1
    /\ MinInt = -MaxInt - 1
    /\ Ints \subseteq Int /\ 0 \in Ints /\ MaxInt \in Ints /\ MinInt \in Ints
    /\ Infinity \in Int /\ -Infinity \in Int
<1>1. MaxInt \in Nat \ {0} /\ MinInt \in Int /\ MinInt = -MaxInt - 1
  BY NumericAssumption DEF MinInt
<1>2. IntCount \in Nat /\ IntCount > 0 /\ IntCount = MaxInt - MinInt + 1
  BY <1>1 DEF IntCount
<1>3. Infinity \in Int /\ -Infinity \in Int
  BY <1>2 DEF Infinity
<1> QED
  BY <1>1, <1>2, <1>3 DEF Ints

(* Numbers, read: each has a type and an integer value.                    *)
LEMMA NumbersAreRecords ==
    ASSUME NEW x \in Numbers
    PROVE  /\ x = [type |-> x.type, is |-> x.is]
           /\ x.type \in {"int", "float", "nan"} /\ x.is \in Int
           /\ IsInt(x) => x.is \in Ints
           /\ x = NaN <=> x.type = "nan"
<1>1. CASE \E n \in Ints : x = IntNum(n)
  BY <1>1, LimitsAreIntegers DEF IntNum, NaN, IsInt
<1>2. CASE \E h \in Halves : x = FloatNum(h)
  BY <1>2, NumericAssumption DEF FloatNum, NaN, IsInt
<1>3. CASE x \in {FloatNum(Infinity), FloatNum(-Infinity), NaN}
  BY <1>3, LimitsAreIntegers DEF FloatNum, NaN, IsInt
<1> QED
  BY <1>1, <1>2, <1>3 DEF Numbers

(* The sign of an integer says on which side of 0 it is.                   *)
LEMMA SignOf ==
    ASSUME NEW n \in Int
    PROVE  /\ Sign(n) \in {-1, 0, 1}
           /\ Sign(n) = 1 <=> n > 0
           /\ Sign(n) = 0 <=> n = 0
           /\ Sign(n) = -1 <=> n < 0
<1>1. CASE n < 0
  <2>1. Sign(n) = -1
    BY <1>1 DEF Sign
  <2> QED
    BY <1>1, <2>1
<1>2. CASE n = 0
  <2>1. Sign(n) = 0
    BY <1>2 DEF Sign
  <2> QED
    BY <1>2, <2>1
<1>3. CASE n > 0
  <2>1. Sign(n) = 1
    BY <1>3 DEF Sign
  <2> QED
    BY <1>3, <2>1
<1> QED
  BY <1>1, <1>2, <1>3

(* A float is cut off towards zero.                                        *)
LEMMA TruncatedBetween ==
    ASSUME NEW h \in Int
    PROVE  /\ Truncated(h) \in Int
           /\ h >= 0 => 2 * Truncated(h) <= h /\ h <= 2 * Truncated(h) + 1
           /\ h <= 0 => 2 * Truncated(h) >= h /\ h >= 2 * Truncated(h) - 1
<1> DEFINE q == Abs(h) \div 2
<1>1. Abs(h) \in Nat /\ (h >= 0 => Abs(h) = h) /\ (h < 0 => Abs(h) = -h)
  BY DEF Abs
<1>2. q \in Nat /\ 2 * q <= Abs(h) /\ Abs(h) <= 2 * q + 1
  BY <1>1
<1>3. CASE h > 0
  <2>1. Truncated(h) = q
    BY <1>2, <1>3 DEF Truncated, Sign
  <2> QED
    BY <1>1, <1>2, <1>3, <2>1
<1>4. CASE h < 0
  <2>1. Truncated(h) = -q
    BY <1>2, <1>4 DEF Truncated, Sign
  <2> QED
    BY <1>1, <1>2, <1>4, <2>1
<1>5. CASE h = 0
  <2>1. q = 0 /\ Sign(h) = 0
    BY <1>1, <1>2, <1>5 DEF Sign
  <2>2. Truncated(h) = 0
    BY <2>1 DEF Truncated
  <2> QED
    BY <1>5, <2>2
<1> QED
  BY <1>3, <1>4, <1>5

(* compare_int_float() is the order of the halves.                         *)
LEMMA IntAgainstFloat ==
    ASSUME NEW i \in Ints, NEW x \in Numbers, x # NaN, ~IsInt(x)
    PROVE  CompareIntFloat(i, x) = Sign(2 * i - x.is)
<1> DEFINE fi == Truncated(x.is)
<1>1. x.is \in Int /\ i \in Int /\ MinInt <= i /\ i <= MaxInt
  BY NumbersAreRecords, LimitsAreIntegers DEF Ints
<1>2. /\ fi \in Int
      /\ x.is >= 0 => 2 * fi <= x.is /\ x.is <= 2 * fi + 1
      /\ x.is <= 0 => 2 * fi >= x.is /\ x.is >= 2 * fi - 1
  BY <1>1, TruncatedBetween
<1> HIDE DEF fi
<1>3. CASE x.is >= 2 * (MaxInt + 1)
  BY <1>1, <1>3, LimitsAreIntegers DEF CompareIntFloat, Sign
<1>4. CASE x.is < 2 * MinInt /\ ~(x.is >= 2 * (MaxInt + 1))
  BY <1>1, <1>4, LimitsAreIntegers DEF CompareIntFloat, Sign
<1>5. CASE ~(x.is >= 2 * (MaxInt + 1)) /\ ~(x.is < 2 * MinInt)
  <2>1. CompareIntFloat(i, x) = IF i # fi THEN Sign(i - fi) ELSE Sign(2 * fi - x.is)
    BY <1>5 DEF CompareIntFloat, fi
  <2>2. CASE i = fi
    BY <2>1, <2>2
  <2>3. CASE i > fi
    <3>1. 2 * i - x.is > 0
      BY <1>1, <1>2, <2>3
    <3> QED
      BY <1>1, <1>2, <2>1, <2>3, <3>1 DEF Sign
  <2>4. CASE i < fi
    <3>1. 2 * i - x.is < 0
      BY <1>1, <1>2, <2>4
    <3> QED
      BY <1>1, <1>2, <2>1, <2>4, <3>1 DEF Sign
  <2> QED
    BY <1>1, <1>2, <2>2, <2>3, <2>4
<1> QED
  BY <1>3, <1>4, <1>5

(* The order of two numbers is that of their halves.                       *)
LEMMA OrderOfHalves ==
    ASSUME NEW a \in Numbers, NEW b \in Numbers, NaN \notin {a, b}
    PROVE  /\ Order(a, b) \in {-1, 0, 1}
           /\ Order(a, b) = 1 <=> InHalves(a) > InHalves(b)
           /\ Order(a, b) = 0 <=> InHalves(a) = InHalves(b)
           /\ Order(a, b) = -1 <=> InHalves(a) < InHalves(b)
<1>1. a.is \in Int /\ b.is \in Int
  BY NumbersAreRecords
<1>2. CASE IsInt(a) /\ IsInt(b)
  <2>1. Order(a, b) = Sign(a.is - b.is) /\ InHalves(a) = 2 * a.is /\ InHalves(b) = 2 * b.is
    BY <1>2 DEF Order, InHalves
  <2> QED
    BY <1>1, <2>1, SignOf
<1>3. CASE IsInt(a) /\ ~IsInt(b)
  <2>1. Order(a, b) = Sign(2 * a.is - b.is)
    BY <1>3, IntAgainstFloat, NumbersAreRecords DEF Order
  <2>2. InHalves(a) = 2 * a.is /\ InHalves(b) = b.is
    BY <1>3 DEF InHalves
  <2> QED
    BY <1>1, <2>1, <2>2, SignOf
<1>4. CASE ~IsInt(a) /\ IsInt(b)
  <2>1. CompareIntFloat(b.is, a) = Sign(2 * b.is - a.is)
    BY <1>4, IntAgainstFloat, NumbersAreRecords
  <2>2. Order(a, b) = IF CompareIntFloat(b.is, a) = 2 THEN 2 ELSE -CompareIntFloat(b.is, a)
    BY <1>4 DEF Order
  <2>3. Order(a, b) = -Sign(2 * b.is - a.is)
    <3>1. Sign(2 * b.is - a.is) \in {-1, 0, 1}
      BY <1>1, SignOf
    <3> QED
      BY <2>1, <2>2, <3>1
  <2>4. InHalves(a) = a.is /\ InHalves(b) = 2 * b.is
    BY <1>4 DEF InHalves
  <2> QED
    <3>1. /\ Sign(2 * b.is - a.is) \in {-1, 0, 1}
          /\ Sign(2 * b.is - a.is) = 1 <=> 2 * b.is > a.is
          /\ Sign(2 * b.is - a.is) = 0 <=> 2 * b.is = a.is
          /\ Sign(2 * b.is - a.is) = -1 <=> 2 * b.is < a.is
      BY <1>1, SignOf
    <3> QED
      BY <1>1, <2>3, <2>4, <3>1
<1>5. CASE ~IsInt(a) /\ ~IsInt(b)
  <2>1. Order(a, b) = Sign(a.is - b.is) /\ InHalves(a) = a.is /\ InHalves(b) = b.is
    BY <1>5 DEF Order, InHalves
  <2> QED
    BY <1>1, <2>1, SignOf
<1> QED
  BY <1>2, <1>3, <1>4, <1>5

(* Nothing compares with NaN.                                              *)
LEMMA NaNIsUnordered ==
    ASSUME NEW a \in Numbers, NEW b \in Numbers, NaN \in {a, b}
    PROVE  Order(a, b) = 2
<1>1. ~(IsInt(a) /\ IsInt(b))
  BY DEF IsInt, NaN
<1>2. CASE IsInt(a)
  <2>1. b = NaN /\ ~IsInt(b)
    BY <1>1, <1>2 DEF IsInt, NaN
  <2> QED
    BY <1>2, <2>1 DEF Order, CompareIntFloat
<1>3. CASE IsInt(b)
  <2>1. a = NaN /\ ~IsInt(a)
    BY <1>1, <1>3 DEF IsInt, NaN
  <2> QED
    BY <1>3, <2>1 DEF Order, CompareIntFloat
<1>4. CASE ~IsInt(a) /\ ~IsInt(b)
  BY <1>4 DEF Order
<1> QED
  BY <1>2, <1>3, <1>4

(* The comparisons are those of arithmetic.                                *)
LEMMA ComparisonsAreMathematical ==
    ASSUME lhs \in Numbers, rhs \in Numbers
    PROVE  OrderIsMathematical
<1>1. CASE NaN \in {lhs, rhs}
  BY <1>1, NaNIsUnordered
     DEF OrderIsMathematical, Less, LessEqual, Greater, GreaterEqual, Equal
<1>2. CASE NaN \notin {lhs, rhs}
  <2> DEFINE o == Order(lhs, rhs)
             a == InHalves(lhs)
             b == InHalves(rhs)
  <2>1. /\ o \in {-1, 0, 1}
        /\ (o = 1 <=> a > b) /\ (o = 0 <=> a = b) /\ (o = -1 <=> a < b)
    BY <1>2, OrderOfHalves
  <2>2. a \in Int /\ b \in Int
    BY NumbersAreRecords DEF InHalves
  <2> HIDE DEF o, a, b
  <2>3. /\ (o < 0 <=> a < b) /\ (o <= 0 <=> a <= b) /\ (o = 1 <=> a > b)
        /\ (o \in {0, 1} <=> a >= b) /\ (o = 0 <=> a = b)
    BY <2>1, <2>2
  <2> QED
    BY <1>2, <2>3
       DEF o, a, b, OrderIsMathematical, Less, LessEqual, Greater, GreaterEqual, Equal
<1> QED
  BY <1>1, <1>2

(* as_integer() in halves.                                                 *)
LEMMA AsIntegerOf ==
    ASSUME NEW x \in Numbers, x # NaN
    PROVE  LET h == InHalves(x)
               k == AsInteger(x)
           IN /\ h \in Int /\ k \in Ints
              /\ h >= 2 * MaxInt => k = MaxInt
              /\ h <= 2 * MinInt => k = MinInt
              /\ h \in 2 * MinInt .. 2 * MaxInt /\ h >= 0 => 2 * k <= h /\ h <= 2 * k + 1
              /\ h \in 2 * MinInt .. 2 * MaxInt /\ h <= 0 => 2 * k >= h /\ h >= 2 * k - 1
<1> DEFINE h == InHalves(x)
           k == AsInteger(x)
<1>1. CASE IsInt(x)
  <2>1. h = 2 * x.is /\ k = x.is /\ x.is \in Int /\ x.is \in Ints
    BY <1>1, NumbersAreRecords DEF InHalves, AsInteger
  <2>2. MinInt <= k /\ k <= MaxInt
    BY <2>1, LimitsAreIntegers DEF Ints
  <2> HIDE DEF h, k
  <2>3. /\ h \in Int /\ k \in Ints
        /\ h >= 2 * MaxInt => k = MaxInt
        /\ h <= 2 * MinInt => k = MinInt
        /\ 2 * k <= h /\ h <= 2 * k + 1 /\ 2 * k >= h /\ h >= 2 * k - 1
    BY <2>1, <2>2, LimitsAreIntegers
  <2> QED
    BY <2>3 DEF h, k
<1>2. CASE ~IsInt(x)
  <2> DEFINE t == Truncated(x.is)
  <2>1. h = x.is /\ h \in Int
    BY <1>2, NumbersAreRecords DEF InHalves
  <2>2. /\ t \in Int
        /\ h >= 0 => 2 * t <= h /\ h <= 2 * t + 1
        /\ h <= 0 => 2 * t >= h /\ h >= 2 * t - 1
    BY <2>1, TruncatedBetween
  <2>3. k = IF h >= 2 * MaxInt THEN MaxInt ELSE IF h <= 2 * MinInt THEN MinInt ELSE t
    BY <1>2, <2>1 DEF AsInteger
  <2> HIDE DEF h, k, t
  <2>4. CASE h >= 2 * MaxInt
    BY <2>1, <2>3, <2>4, LimitsAreIntegers DEF h, k
  <2>5. CASE h <= 2 * MinInt
    BY <2>1, <2>3, <2>5, LimitsAreIntegers DEF h, k
  <2>6. CASE ~(h >= 2 * MaxInt) /\ ~(h <= 2 * MinInt)
    <3>1. k = t
      BY <2>3, <2>6
    <3>2. k \in Ints
      BY <2>1, <2>2, <2>6, <3>1, LimitsAreIntegers DEF Ints
    <3> QED
      BY <2>1, <2>2, <2>6, <3>1, <3>2 DEF h, k
  <2> QED
    BY <2>4, <2>5, <2>6
<1> QED
  BY <1>1, <1>2

(* A larger number is never a smaller index.                               *)
LEMMA IndicesKeepTheOrder ==
    ASSUME lhs \in Numbers, rhs \in Numbers
    PROVE  AsIntegerIsMonotone
<1> SUFFICES ASSUME NaN \notin {lhs, rhs}, InHalves(lhs) <= InHalves(rhs)
             PROVE  AsInteger(lhs) <= AsInteger(rhs)
  BY DEF AsIntegerIsMonotone
<1> DEFINE a == InHalves(lhs)
           b == InHalves(rhs)
           j == AsInteger(lhs)
           k == AsInteger(rhs)
<1>1. /\ a \in Int /\ j \in Ints
      /\ a >= 2 * MaxInt => j = MaxInt
      /\ a <= 2 * MinInt => j = MinInt
      /\ a \in 2 * MinInt .. 2 * MaxInt /\ a >= 0 => 2 * j <= a /\ a <= 2 * j + 1
      /\ a \in 2 * MinInt .. 2 * MaxInt /\ a <= 0 => 2 * j >= a /\ a >= 2 * j - 1
  BY AsIntegerOf
<1>2. /\ b \in Int /\ k \in Ints
      /\ b >= 2 * MaxInt => k = MaxInt
      /\ b <= 2 * MinInt => k = MinInt
      /\ b \in 2 * MinInt .. 2 * MaxInt /\ b >= 0 => 2 * k <= b /\ b <= 2 * k + 1
      /\ b \in 2 * MinInt .. 2 * MaxInt /\ b <= 0 => 2 * k >= b /\ b >= 2 * k - 1
  BY AsIntegerOf
<1>3. a <= b
  OBVIOUS
<1>4. /\ j \in Int /\ MinInt <= j /\ j <= MaxInt
      /\ k \in Int /\ MinInt <= k /\ k <= MaxInt
  BY <1>1, <1>2, LimitsAreIntegers DEF Ints
<1> HIDE DEF a, b, j, k
<1>5. CASE a <= 2 * MinInt \/ b >= 2 * MaxInt
  <2>1. j <= k
    BY <1>1, <1>2, <1>3, <1>4, <1>5, LimitsAreIntegers
  <2> QED
    BY <2>1 DEF j, k
<1>6. CASE ~(a <= 2 * MinInt) /\ ~(b >= 2 * MaxInt)
  <2>1. a \in 2 * MinInt .. 2 * MaxInt /\ b \in 2 * MinInt .. 2 * MaxInt
    BY <1>1, <1>2, <1>3, <1>6, LimitsAreIntegers
  <2>2. j <= k
    BY <1>1, <1>2, <1>3, <1>4, <2>1
  <2> QED
    BY <2>2 DEF j, k
<1> QED
  BY <1>5, <1>6

(* Division of naturals, and that the rest decides whether it is exact.    *)
LEMMA NaturalDivision ==
    ASSUME NEW n \in Nat, NEW d \in Nat, d > 0
    PROVE  /\ n \div d \in Nat /\ n - d * (n \div d) \in 0 .. d - 1
           /\ n \div d <= n
           /\ d >= 2 => 2 * (n \div d) <= n
<1> DEFINE q == n \div d
<1>1. q \in Nat /\ n - d * q \in 0 .. d - 1
  OBVIOUS
<1>2. d * q <= n
  BY <1>1
<1> HIDE DEF q
<1>3. q <= d * q /\ (d >= 2 => 2 * q <= d * q)
  BY <1>1
<1>4. d * q \in Int
  BY <1>1
<1> QED
  BY <1>1, <1>2, <1>3, <1>4 DEF q

(* There is no multiple of d between 0 and d.                              *)
LEMMA NoMultipleBetween ==
    ASSUME NEW d \in Nat, d > 0, NEW k \in Int, NEW r \in Int, r = d * k, 0 < r, r < d
    PROVE  FALSE
<1>1. k >= 1 => d * k >= d
  OBVIOUS
<1>2. k <= 0 => d * k <= 0
  OBVIOUS
<1> QED
  BY <1>1, <1>2

(* The absolute value of an integer.                                       *)
LEMMA AbsOf ==
    ASSUME NEW n \in Int
    PROVE  /\ Abs(n) \in Nat
           /\ n >= 0 => Abs(n) = n
           /\ n <= 0 => Abs(n) = -n
           /\ n # 0 => Abs(n) > 0
  BY DEF Abs

(* lldiv() rounds towards zero: quotient and rest by absolute values.      *)
LEMMA TruncDivOf ==
    ASSUME NEW a \in Int, NEW b \in Int, b # 0
    PROVE  LET q == Abs(a) \div Abs(b)
               t == TruncDiv(a, b)
               r == Rem(a, b)
           IN /\ q \in Nat /\ t \in Int /\ r \in Int
              /\ t \in {q, -q} /\ Abs(t) = q
              /\ (a >= 0 <=> b > 0) => t = q
              /\ a = b * t + r
              /\ Abs(r) < Abs(b)
              /\ a >= 0 => r >= 0
              /\ a <= 0 => r <= 0
              /\ q <= Abs(a) /\ (Abs(b) >= 2 => 2 * q <= Abs(a))
<1> DEFINE q == Abs(a) \div Abs(b)
           t == TruncDiv(a, b)
           r == Rem(a, b)
           d == Abs(b)
           n == Abs(a)
<1>1. /\ d \in Nat /\ d > 0 /\ n \in Nat
      /\ (b > 0 => d = b) /\ (b < 0 => d = -b) /\ (a >= 0 => n = a) /\ (a <= 0 => n = -a)
  BY AbsOf
<1>2. /\ q \in Nat /\ n - d * q \in 0 .. d - 1
      /\ q <= n /\ (d >= 2 => 2 * q <= n)
  BY <1>1, NaturalDivision
<1>3. Sign(a) \in {-1, 0, 1} /\ Sign(b) \in {-1, 1}
  BY SignOf
<1>4. t = Sign(a) * Sign(b) * q /\ r = a - b * t
  BY DEF TruncDiv, Rem
<1> HIDE DEF q, t, r, d, n
<1>5. a = 0 => q = 0
  BY <1>1, <1>2
<1>6. CASE a >= 0 /\ b > 0
  <2>1. t = q
    <3>1. Sign(b) = 1 /\ (a > 0 => Sign(a) = 1)
      BY <1>6, SignOf
    <3>2. CASE a > 0
      BY <1>2, <1>4, <3>1, <3>2
    <3>3. CASE a = 0
      BY <1>3, <1>4, <1>5, <3>3
    <3> QED
      BY <1>6, <3>2, <3>3
  <2>2. r = n - d * q
    BY <1>1, <1>4, <1>6, <2>1
  <2> QED
    BY <1>1, <1>2, <1>4, <1>6, <2>1, <2>2, AbsOf DEF q, t, r, d, n
<1>7. CASE a >= 0 /\ b < 0
  <2>1. t = -q
    <3>1. Sign(b) = -1 /\ (a > 0 => Sign(a) = 1)
      BY <1>7, SignOf
    <3>2. CASE a > 0
      BY <1>2, <1>4, <3>1, <3>2
    <3>3. CASE a = 0
      BY <1>3, <1>4, <1>5, <3>3
    <3> QED
      BY <1>7, <3>2, <3>3
  <2>2. r = n - d * q
    BY <1>1, <1>2, <1>4, <1>7, <2>1
  <2> QED
    BY <1>1, <1>2, <1>4, <1>7, <2>1, <2>2, AbsOf DEF q, t, r, d, n
<1>8. CASE a < 0 /\ b > 0
  <2>1. t = -q
    <3>1. Sign(b) = 1 /\ Sign(a) = -1
      BY <1>8, SignOf
    <3> QED
      BY <1>2, <1>4, <3>1
  <2>2. r = -(n - d * q)
    BY <1>1, <1>2, <1>4, <1>8, <2>1
  <2> QED
    BY <1>1, <1>2, <1>4, <1>8, <2>1, <2>2, AbsOf DEF q, t, r, d, n
<1>9. CASE a < 0 /\ b < 0
  <2>1. t = q
    <3>1. Sign(b) = -1 /\ Sign(a) = -1
      BY <1>9, SignOf
    <3> QED
      BY <1>2, <1>4, <3>1
  <2>2. r = -(n - d * q)
    BY <1>1, <1>2, <1>4, <1>9, <2>1
  <2> QED
    BY <1>1, <1>2, <1>4, <1>9, <2>1, <2>2, AbsOf DEF q, t, r, d, n
<1> QED
  BY <1>6, <1>7, <1>8, <1>9

(* A quotient that is an integer is exact, and no other is one.            *)
LEMMA QuotientsAreExact ==
    ASSUME lhs \in Numbers, rhs \in Numbers
    PROVE  DivisionIsExact
<1> DEFINE a == lhs.is
           b == rhs.is
           q == Divide(a, b)
           m == Modulo(a, b).is
<1> SUFFICES ASSUME IsInt(lhs), IsInt(rhs), b # 0
             PROVE  /\ IF IsInt(q) THEN q.is * b = a /\ q.is \in Ints
                       ELSE \A n \in Ints : n * b # a
                    /\ Abs(m) < Abs(b) /\ m * a >= 0
                    /\ \E n \in MinInt .. (MaxInt + 1) : a = b * n + m
  BY DEF DivisionIsExact
<1>1. /\ a \in Int /\ MinInt <= a /\ a <= MaxInt
      /\ b \in Int /\ MinInt <= b /\ b <= MaxInt /\ b # 0
  BY NumbersAreRecords, LimitsAreIntegers DEF Ints
<1>2. CASE a = MinInt /\ b = -1
  <2>1. q = FloatNum(-2 * MinInt) /\ ~IsInt(q) /\ m = 0
    BY <1>2 DEF Divide, Modulo, IntNum, FloatNum, IsInt
  <2>2. \A n \in Ints : n * b # a
    BY <1>2, LimitsAreIntegers DEF Ints
  <2>3. Abs(m) < Abs(b) /\ m * a >= 0
    BY <1>1, <1>2, <2>1, AbsOf
  <2>4. a = b * (MaxInt + 1) + m /\ MaxInt + 1 \in MinInt .. (MaxInt + 1)
    BY <1>2, <2>1, LimitsAreIntegers
  <2> QED
    BY <2>1, <2>2, <2>3, <2>4
<1>3. CASE ~(a = MinInt /\ b = -1)
  <2> DEFINE t == TruncDiv(a, b)
             r == Rem(a, b)
             p == Abs(a) \div Abs(b)
  <2>1. /\ p \in Nat /\ t \in Int /\ r \in Int
        /\ t \in {p, -p} /\ Abs(t) = p
        /\ (a >= 0 <=> b > 0) => t = p
        /\ a = b * t + r
        /\ Abs(r) < Abs(b)
        /\ a >= 0 => r >= 0
        /\ a <= 0 => r <= 0
        /\ p <= Abs(a) /\ (Abs(b) >= 2 => 2 * p <= Abs(a))
    BY <1>1, TruncDivOf
  <2>2. q = (IF r = 0 THEN IntNum(t) ELSE SomeFloat) /\ m = r
    BY <1>1, <1>3 DEF Divide, Modulo, IntNum
  <2>3. /\ Abs(a) \in Nat /\ (a >= 0 => Abs(a) = a) /\ (a <= 0 => Abs(a) = -a)
        /\ Abs(b) \in Nat /\ (b >= 0 => Abs(b) = b) /\ (b <= 0 => Abs(b) = -b)
        /\ Abs(r) \in Nat /\ (r >= 0 => Abs(r) = r) /\ (r <= 0 => Abs(r) = -r)
    BY <1>1, <2>1, AbsOf
  <2> HIDE DEF a, b, q, m, t, r, p
  <2>4. MinInt <= t /\ t <= MaxInt
    <3>1. CASE Abs(b) >= 2
      BY <1>1, <2>1, <2>3, <3>1, LimitsAreIntegers
    <3>2. CASE b = 1
      <4>1. a = t + r /\ r = 0
        BY <1>1, <2>1, <2>3, <3>2
      <4> QED
        BY <1>1, <2>1, <4>1
    <3>3. CASE b = -1
      <4>1. a = -t + r /\ r = 0
        BY <1>1, <2>1, <2>3, <3>3
      <4> QED
        BY <1>1, <1>3, <2>1, <3>3, <4>1, LimitsAreIntegers
    <3> QED
      BY <1>1, <2>3, <3>1, <3>2, <3>3
  <2>5. IF IsInt(q) THEN q.is * b = a /\ q.is \in Ints ELSE \A n \in Ints : n * b # a
    <3>1. CASE r = 0
      <4>1. q = IntNum(t)
        BY <2>2, <3>1
      <4>2. IsInt(q) /\ q.is = t
        BY <4>1 DEF IntNum, IsInt
      <4>3. t * b = a
        BY <1>1, <2>1, <3>1
      <4> QED
        BY <2>1, <2>4, <4>2, <4>3, LimitsAreIntegers DEF Ints
    <3>2. CASE r # 0
      <4>1. ~IsInt(q)
        BY <2>2, <3>2 DEF SomeFloat, IsInt
      <4>2. ASSUME NEW n \in Ints, n * b = a
            PROVE  FALSE
        <5>1. n \in Int
          BY LimitsAreIntegers
        <5>2. r = b * (n - t) /\ n - t \in Int
          BY <1>1, <2>1, <4>2, <5>1
        <5>3. CASE r > 0 /\ b > 0
          BY <1>1, <2>1, <2>3, <5>2, <5>3, NoMultipleBetween
        <5>4. CASE r > 0 /\ b < 0
          <6>1. r = (-b) * (t - n) /\ t - n \in Int
            BY <1>1, <2>1, <5>1, <5>2
          <6> QED
            BY <1>1, <2>1, <2>3, <5>4, <6>1, NoMultipleBetween
        <5>5. CASE r < 0 /\ b > 0
          <6>1. -r = b * (t - n) /\ t - n \in Int
            BY <1>1, <2>1, <5>1, <5>2
          <6> QED
            BY <1>1, <2>1, <2>3, <5>5, <6>1, NoMultipleBetween
        <5>6. CASE r < 0 /\ b < 0
          <6>1. -r = (-b) * (n - t)
            BY <1>1, <2>1, <5>1, <5>2
          <6> QED
            BY <1>1, <2>1, <2>3, <5>2, <5>6, <6>1, NoMultipleBetween
        <5> QED
          BY <1>1, <2>1, <3>2, <5>3, <5>4, <5>5, <5>6
      <4> QED
        BY <4>1, <4>2
    <3> QED
      BY <3>1, <3>2
  <2>6. Abs(m) < Abs(b)
    BY <2>1, <2>2
  <2>7. m * a >= 0
    BY <1>1, <2>1, <2>2
  <2>8. \E n \in MinInt .. (MaxInt + 1) : a = b * n + m
    <3>1. t \in MinInt .. (MaxInt + 1)
      BY <2>1, <2>4, LimitsAreIntegers
    <3> QED
      BY <2>1, <2>2, <3>1
  <2> QED
    BY <2>5, <2>6, <2>7, <2>8
<1> QED
  BY <1>2, <1>3

(***************************************************************************)
(* The loop over a range.  The invariant adds to the types that a loop of  *)
(* integer steps stays with integers.                                      *)
(***************************************************************************)
Indices == {IntNum(n) : n \in Ints} \cup [type : {"float", "nan"}, is : Int]
RangeType == [on : BOOLEAN, step : Numbers, index : Indices, end : Numbers,
              first : Ints, moves : 0 .. MaxMoves]

NumericIInv ==
    /\ lhs \in Numbers /\ rhs \in Numbers
    /\ range \in RangeType
    /\ range.on => range.step.is # 0
    /\ range.on /\ IsInt(range.step) => IsInt(range.index)
    /\ RangeVisitsSteps

(* What an index can be.                                                   *)
LEMMA IndicesAreRecords ==
    ASSUME NEW x \in Indices
    PROVE  /\ x.is \in Int /\ InHalves(x) \in Int
           /\ IsInt(x) => x.is \in Ints /\ x = IntNum(x.is)
           /\ ~IsInt(x) => x.type \in {"float", "nan"}
<1>1. CASE \E n \in Ints : x = IntNum(n)
  BY <1>1, LimitsAreIntegers DEF IntNum, IsInt, InHalves
<1>2. CASE x \in [type : {"float", "nan"}, is : Int]
  BY <1>2 DEF IsInt, InHalves
<1> QED
  BY <1>1, <1>2 DEF Indices

(* An integer is a number and an index.                                    *)
LEMMA IntNumsAreIndices ==
    ASSUME NEW n \in Ints
    PROVE  /\ IntNum(n) \in Indices /\ IntNum(n) \in Numbers
           /\ IsInt(IntNum(n)) /\ IntNum(n).is = n
  BY DEF Indices, Numbers, IntNum, IsInt

(* Wrapping leaves an integer alone that fits.                             *)
LEMMA WrapStays ==
    ASSUME NEW n \in Int
    PROVE  Wrap(n) \in Ints /\ (n \in Ints => Wrap(n) = n)
<1> DEFINE k == n - MinInt
<1>1. k \in Int /\ MinInt \in Int /\ IntCount \in Nat /\ IntCount > 0
  BY LimitsAreIntegers
<1> HIDE DEF k
<1>2. k % IntCount \in 0 .. IntCount - 1
  BY <1>1
<1>3. k \in 0 .. IntCount - 1 => k % IntCount = k
  BY <1>1
<1>4. Wrap(n) = (k % IntCount) + MinInt
  BY DEF Wrap, k
<1>5. Wrap(n) \in Ints
  BY <1>1, <1>2, <1>4, LimitsAreIntegers DEF Ints
<1>6. ASSUME n \in Ints
      PROVE  Wrap(n) = n
  <2>1. k \in 0 .. IntCount - 1
    BY <1>6, LimitsAreIntegers DEF Ints, k
  <2> QED
    BY <1>1, <1>3, <1>4, <2>1 DEF k
<1> QED
  BY <1>5, <1>6

(* An index stays an index, and an integer one with integer steps.         *)
LEMMA AdvanceType ==
    ASSUME NEW x \in Indices, NEW s \in Numbers
    PROVE  /\ Advance(x, s) \in Indices
           /\ IsInt(x) /\ IsInt(s) => IsInt(Advance(x, s))
<1>1. /\ x.is \in Int /\ s.is \in Int
      /\ InHalves(x) \in Int /\ InHalves(s) \in Int
  BY IndicesAreRecords, NumbersAreRecords DEF InHalves
<1>2. CASE IsInt(x) /\ IsInt(s)
  <2>1. \/ Advance(x, s) \in {IntNum(MaxInt), IntNum(MinInt)}
        \/ Advance(x, s) = IntNum(Wrap(x.is + s.is))
    BY <1>2 DEF Advance, PlusNumeric
  <2>2. Wrap(x.is + s.is) \in Ints
    BY <1>1, WrapStays
  <2> QED
    BY <2>1, <2>2, LimitsAreIntegers, IntNumsAreIndices
<1>3. CASE ~(IsInt(x) /\ IsInt(s))
  <2>1. Advance(x, s) = PlusNumeric(x, s)
    BY <1>3 DEF Advance
  <2>2. \/ PlusNumeric(x, s) = NaN
        \/ PlusNumeric(x, s) \in {FloatNum(InHalves(x)), FloatNum(InHalves(s))}
        \/ PlusNumeric(x, s) = FloatNum(InHalves(x) + InHalves(s))
    BY <1>3 DEF PlusNumeric
  <2>3. \A h \in Int : FloatNum(h) \in Indices
    BY DEF FloatNum, Indices
  <2>4. NaN \in Indices
    BY DEF NaN, Indices
  <2> QED
    BY <1>1, <1>3, <2>1, <2>2, <2>3, <2>4
<1> QED
  BY <1>2, <1>3

(* A step of an integer loop that has not passed its end.                  *)
LEMMA IntegerLoopAdvances ==
    ASSUME NEW s \in Numbers, NEW x \in Indices, NEW e \in Numbers,
           IsInt(s), IsInt(x), IsInt(e), s.is # 0,
           NEW it, it.step = s, it.index = Advance(x, s), it.end = e, Proceeds(it)
    PROVE  Advance(x, s) = IntNum(x.is + s.is)
<1>1. it.step = s /\ it.index = Advance(x, s) /\ it.end = e
  OBVIOUS
<1>2. /\ s.is \in Int /\ s.is # 0
      /\ x.is \in Int /\ MinInt <= x.is /\ x.is <= MaxInt
      /\ e.is \in Int /\ MinInt <= e.is /\ e.is <= MaxInt
  BY NumbersAreRecords, IndicesAreRecords, LimitsAreIntegers DEF Ints
<1>3. Greater(s, IntNum(0)) <=> s.is > 0
  <2>1. Order(s, IntNum(0)) = Sign(s.is - 0)
    BY DEF Order, IntNum, IsInt
  <2> QED
    BY <1>2, <2>1, SignOf DEF Greater
<1>4. CASE s.is > 0
  <2>1. Less(Advance(x, s), e)
    BY <1>1, <1>3, <1>4 DEF Proceeds
  <2>2. CASE x.is > MaxInt - s.is
    <3>1. Advance(x, s) = IntNum(MaxInt)
      BY <1>4, <2>2 DEF Advance
    <3>2. Order(IntNum(MaxInt), e) = Sign(MaxInt - e.is)
      BY DEF Order, IntNum, IsInt
    <3>3. ~(Sign(MaxInt - e.is) < 0)
      BY <1>2, LimitsAreIntegers, SignOf
    <3> QED
      BY <2>1, <3>1, <3>2, <3>3 DEF Less
  <2>3. CASE ~(x.is > MaxInt - s.is)
    <3>1. x.is + s.is \in Ints
      BY <1>2, <1>4, <2>3, LimitsAreIntegers DEF Ints
    <3>2. Advance(x, s) = IntNum(Wrap(x.is + s.is))
      BY <1>4, <2>3 DEF Advance, PlusNumeric
    <3> QED
      BY <1>2, <3>1, <3>2, WrapStays
  <2> QED
    BY <2>2, <2>3
<1>5. CASE s.is < 0
  <2>1. Greater(Advance(x, s), e)
    BY <1>1, <1>2, <1>3, <1>5 DEF Proceeds
  <2>2. CASE x.is < MinInt - s.is
    <3>1. Advance(x, s) = IntNum(MinInt)
      BY <1>2, <1>5, <2>2 DEF Advance
    <3>2. Order(IntNum(MinInt), e) = Sign(MinInt - e.is)
      BY DEF Order, IntNum, IsInt
    <3>3. Sign(MinInt - e.is) # 1
      BY <1>2, LimitsAreIntegers, SignOf
    <3> QED
      BY <2>1, <3>1, <3>2, <3>3 DEF Greater
  <2>3. CASE ~(x.is < MinInt - s.is)
    <3>1. x.is + s.is \in Ints
      BY <1>2, <1>5, <2>3, LimitsAreIntegers DEF Ints
    <3>2. Advance(x, s) = IntNum(Wrap(x.is + s.is))
      BY <1>2, <1>5, <2>3 DEF Advance, PlusNumeric
    <3> QED
      BY <1>2, <3>1, <3>2, WrapStays
  <2> QED
    BY <2>2, <2>3
<1> QED
  BY <1>2, <1>4, <1>5

(* One more step is one more multiple of it.                               *)
LEMMA OneMoreMove ==
    ASSUME NEW f \in Int, NEW k \in Int, NEW s \in Int
    PROVE  (f + k * s) + s = f + (k + 1) * s
<1>1. (k + 1) * s = k * s + s
  OBVIOUS
<1> DEFINE p == k * s
<1>2. p \in Int
  OBVIOUS
<1> HIDE DEF p
<1> QED
  BY <1>1, <1>2 DEF p

(* Moves of an integer loop are fewer than there are integers.             *)
LEMMA MovesAreFew ==
    ASSUME NEW f \in Ints, NEW k \in Nat, NEW s \in Int, s # 0, f + k * s \in Ints
    PROVE  k < MaxMoves
<1> DEFINE p == k * s
<1>1. /\ f \in Int /\ MinInt <= f /\ f <= MaxInt
      /\ p \in Int /\ MinInt <= f + p /\ f + p <= MaxInt
  BY LimitsAreIntegers DEF Ints
<1>2. (s >= 1 => p >= k) /\ (s <= -1 => p <= -k)
  OBVIOUS
<1>3. s >= 1 \/ s <= -1
  OBVIOUS
<1> HIDE DEF p
<1> QED
  BY <1>1, <1>2, <1>3, LimitsAreIntegers DEF MaxMoves

(* The invariant holds at first, and after every step.                     *)
LEMMA NumericInitIInv == NumericInit => NumericIInv
<1> SUFFICES ASSUME NumericInit
             PROVE  NumericIInv
  OBVIOUS
<1>1. 0 \in Ints /\ 1 \in Ints /\ MaxMoves \in Nat
  BY LimitsAreIntegers DEF Ints, MaxMoves
<1>2. Idle \in RangeType /\ ~Idle.on
  BY <1>1, IntNumsAreIndices DEF Idle, RangeType
<1> QED
  BY <1>2 DEF NumericInit, NumericIInv, RangeVisitsSteps

LEMMA NumericStepIInv == NumericIInv /\ [NumericNext]_numericVars => NumericIInv'
<1> SUFFICES ASSUME NumericIInv, [NumericNext]_numericVars
             PROVE  NumericIInv'
  OBVIOUS
<1> USE DEF NumericIInv
<1>1. 0 \in Ints /\ 1 \in Ints /\ MaxMoves \in Nat
  BY LimitsAreIntegers DEF Ints, MaxMoves
<1>2. CASE RangeBegin
  <2>1. PICK step \in {x \in Numbers : x # NaN /\ x.is # 0 /\ Abs(InHalves(x)) < Infinity},
             first \in Ints, end \in EndPoints :
          range' = [on |-> TRUE, step |-> step, index |-> IntNum(first), end |-> end,
                    first |-> first, moves |-> 0]
    BY <1>2 DEF RangeBegin
  <2>2. range' \in RangeType
    BY <1>1, <2>1, EndPointsAssumption, IntNumsAreIndices DEF RangeType
  <2>3. range'.step.is # 0 /\ IsInt(range'.index)
    BY <2>1, IntNumsAreIndices
  <2>4. range'.index = IntNum(range'.first + range'.moves * range'.step.is)
    <3>1. first \in Int /\ step.is \in Int
      BY LimitsAreIntegers, NumbersAreRecords
    <3>2. first + 0 * step.is = first
      BY <3>1
    <3> QED
      BY <2>1, <3>2
  <2>5. UNCHANGED <<lhs, rhs>>
    BY <1>2 DEF RangeBegin
  <2> QED
    BY <2>2, <2>3, <2>4, <2>5 DEF RangeVisitsSteps
<1>3. CASE RangeNext
  <2> DEFINE s == range.step
             x == range.index
             e == range.end
             y == Advance(x, s)
  <2>1. /\ range.on /\ Proceeds(range) /\ UNCHANGED <<lhs, rhs>>
        /\ range' = [range EXCEPT !.index = Advance(@, range.step),
                                  !.moves = IF @ < MaxMoves THEN @ + 1 ELSE @]
    BY <1>3 DEF RangeNext
  <2>2. /\ s \in Numbers /\ x \in Indices /\ e \in Numbers
        /\ range.first \in Ints /\ range.moves \in 0 .. MaxMoves
        /\ s.is # 0 /\ (IsInt(s) => IsInt(x))
    BY <2>1 DEF RangeType
  <2>3. y \in Indices /\ (IsInt(s) => IsInt(y))
    BY <2>2, AdvanceType
  <2>4. /\ range'.on = range.on /\ range'.step = s /\ range'.index = y /\ range'.end = e
        /\ range'.first = range.first
        /\ range'.moves = IF range.moves < MaxMoves THEN range.moves + 1 ELSE range.moves
    BY <2>1 DEF RangeType
  <2>5. range'.moves \in 0 .. MaxMoves
    BY <1>1, <2>2, <2>4
  <2>6. range' \in RangeType
    <3>1. [range EXCEPT !.index = y, !.moves = range'.moves] \in RangeType
      BY <2>3, <2>5 DEF RangeType
    <3> QED
      BY <2>1, <2>4, <3>1
  <2>7. ASSUME IsInt(s), IsInt(e), Proceeds(range')
        PROVE  y = IntNum(range.first + range'.moves * s.is)
    <3>1. IsInt(x) /\ x = IntNum(range.first + range.moves * s.is)
      BY <2>1, <2>2, <2>7 DEF RangeVisitsSteps
    <3>2. x.is = range.first + range.moves * s.is
      BY <3>1 DEF IntNum
    <3>3. /\ x.is \in Ints /\ s.is \in Int /\ range.first \in Int /\ range.moves \in Nat
      BY <1>1, <2>2, <3>1, IndicesAreRecords, NumbersAreRecords, LimitsAreIntegers
    <3>4. range.moves < MaxMoves
      BY <2>2, <3>2, <3>3, MovesAreFew
    <3>5. y = IntNum(x.is + s.is)
      <4>1. PICK it : it = range'
        OBVIOUS
      <4>2. it.step = s /\ it.index = Advance(x, s) /\ it.end = e /\ Proceeds(it)
        BY <2>4, <2>7, <4>1
      <4> HIDE DEF s, x, e, y
      <4>3. Advance(x, s) = IntNum(x.is + s.is)
        BY <2>2, <2>7, <3>1, <4>2, IntegerLoopAdvances
      <4> QED
        BY <4>3 DEF y
    <3>6. x.is + s.is = range.first + (range.moves + 1) * s.is
      <4> DEFINE f == range.first
                 m == range.moves
                 d == s.is
      <4>1. f \in Int /\ m \in Int /\ d \in Int
        BY <3>3
      <4>2. (f + m * d) + d = f + (m + 1) * d
        <5> HIDE DEF f, m, d
        <5> QED
          BY <4>1, OneMoreMove
      <4> QED
        BY <3>2, <4>2, Zenon
    <3> QED
      BY <2>4, <3>4, <3>5, <3>6
  <2> HIDE DEF s, x, e, y
  <2> QED
    BY <2>1, <2>2, <2>3, <2>4, <2>6, <2>7 DEF RangeVisitsSteps
<1>4. CASE RangeDone
  <2>1. Idle \in RangeType /\ ~Idle.on
    BY <1>1, IntNumsAreIndices DEF Idle, RangeType
  <2> QED
    BY <1>4, <2>1 DEF RangeDone, RangeVisitsSteps
<1>5. CASE UNCHANGED numericVars
  BY <1>5 DEF numericVars, RangeVisitsSteps, Proceeds
<1> QED
  BY <1>2, <1>3, <1>4, <1>5 DEF NumericNext
-----------------------------------------------------------------------------
(***************************************************************************)
(* Induction over the naturals, for a set rather than a predicate, and the *)
(* function a recursion over the naturals defines.                         *)
(***************************************************************************)
LEMMA NatSetInduction ==
    ASSUME NEW A, 0 \in A, \A n \in Nat : n \in A => n + 1 \in A
    PROVE  Nat \subseteq A
<1> DEFINE R == {ss \in Nat \X Nat : ss[1] < ss[2]}
           B == Nat \ A
<1> SUFFICES ASSUME B # {}
             PROVE  FALSE
  OBVIOUS
<1>1. IsWellFoundedOn(R, Nat)
  BY NatLessThanWellFounded, Zenon DEF OpToRel
<1>2. \E n \in B : \A m \in B : <<m, n>> \notin R
  <2> HIDE DEF R
  <2> QED
    BY <1>1, WFMin
<1>3. PICK n \in B : \A m \in B : <<m, n>> \notin R
  BY <1>2
<1>4. n # 0 /\ n - 1 \in Nat /\ n = (n - 1) + 1
  OBVIOUS
<1>5. n - 1 \in A
  <2>1. <<n - 1, n>> \in R
    BY <1>4
  <2> QED
    BY <1>3, <1>4, <2>1
<1> QED
  BY <1>4, <1>5

Approximates(g, n, S, c, G) ==
    /\ g \in [0 .. n -> S] /\ g[0] = c
    /\ \A k \in 1 .. n : g[k] = G[g[k - 1]]

(* Two beginnings of a recursion agree.                                    *)
LEMMA ApproximationsAgree ==
    ASSUME NEW S, NEW c \in S, NEW G \in [S -> S], NEW k \in Nat, NEW m \in Nat, NEW n \in Nat,
           k <= m, k <= n,
           NEW g, NEW h, Approximates(g, m, S, c, G), Approximates(h, n, S, c, G)
    PROVE  g[k] = h[k]
<1> DEFINE A == {j \in Nat : j <= m /\ j <= n => g[j] = h[j]}
<1>1. 0 \in A
  BY DEF Approximates
<1>2. ASSUME NEW j \in Nat, j \in A
      PROVE  j + 1 \in A
  <2>1. SUFFICES ASSUME j + 1 <= m, j + 1 <= n
                 PROVE  g[j + 1] = h[j + 1]
    OBVIOUS
  <2>2. j + 1 \in 1 .. m /\ j + 1 \in 1 .. n /\ (j + 1) - 1 = j
    BY <2>1
  <2>3. g[j] = h[j]
    BY <1>2, <2>1
  <2> QED
    BY <2>2, <2>3 DEF Approximates
<1> HIDE DEF A
<1>3. Nat \subseteq A
  BY <1>1, <1>2, NatSetInduction
<1> QED
  BY <1>3 DEF A

(* A recursion from c by G has a function.                                 *)
LEMMA IterationIsDefined ==
    ASSUME NEW S, NEW c \in S, NEW G \in [S -> S]
    PROVE  \E f \in [Nat -> S] : f[0] = c /\ \A k \in Nat : f[k + 1] = G[f[k]]
<1> DEFINE A == {n \in Nat : \E g : Approximates(g, n, S, c, G)}
           at(n) == CHOOSE g : Approximates(g, n, S, c, G)
           f == [n \in Nat |-> at(n)[n]]
<1>1. 0 \in A
  <2>1. Approximates([k \in 0 .. 0 |-> c], 0, S, c, G)
    BY DEF Approximates
  <2> QED
    BY <2>1
<1>2. ASSUME NEW n \in Nat, n \in A
      PROVE  n + 1 \in A
  <2>1. PICK g : Approximates(g, n, S, c, G)
    BY <1>2
  <2> DEFINE h == [k \in 0 .. (n + 1) |-> IF k = n + 1 THEN G[g[n]] ELSE g[k]]
  <2>2. g \in [0 .. n -> S] /\ g[0] = c /\ \A k \in 1 .. n : g[k] = G[g[k - 1]]
    BY <2>1 DEF Approximates
  <2>3. h \in [0 .. (n + 1) -> S] /\ h[0] = c
    BY <2>2
  <2>4. ASSUME NEW k \in 1 .. (n + 1)
        PROVE  h[k] = G[h[k - 1]]
    <3>1. CASE k = n + 1
      BY <3>1
    <3>2. CASE k # n + 1
      <4>1. k \in 1 .. n /\ k - 1 # n + 1 /\ k - 1 \in 0 .. (n + 1) /\ k \in 0 .. (n + 1)
        BY <3>2
      <4> QED
        BY <2>2, <4>1
    <3> QED
      BY <3>1, <3>2
  <2>5. Approximates(h, n + 1, S, c, G)
    BY <2>3, <2>4 DEF Approximates
  <2> QED
    BY <2>5
<1> HIDE DEF A
<1>3. Nat \subseteq A
  BY <1>1, <1>2, NatSetInduction
<1>4. \A n \in Nat : Approximates(at(n), n, S, c, G)
  BY <1>3 DEF A
<1> HIDE DEF at
<1>5. f \in [Nat -> S]
  BY <1>4 DEF Approximates
<1>6. ASSUME NEW k \in Nat
      PROVE  f[k] = IF k = 0 THEN c ELSE G[f[k - 1]]
  <2>1. CASE k = 0
    BY <1>4, <2>1 DEF Approximates
  <2>2. CASE k # 0
    <3>1. k - 1 \in Nat /\ k \in 1 .. k
      BY <2>2
    <3>2. at(k)[k] = G[at(k)[k - 1]]
      BY <1>4, <3>1 DEF Approximates
    <3>3. at(k)[k - 1] = at(k - 1)[k - 1]
      BY <1>4, <3>1, ApproximationsAgree
    <3> QED
      BY <2>2, <3>1, <3>2, <3>3
  <2> QED
    BY <2>1, <2>2
<1>7. f[0] = c /\ \A k \in Nat : f[k + 1] = G[f[k]]
  <2>1. \A k \in Nat : k + 1 \in Nat /\ k + 1 # 0 /\ (k + 1) - 1 = k
    OBVIOUS
  <2> HIDE DEF f
  <2> QED
    BY <1>6, <2>1
<1> HIDE DEF f
<1> QED
  BY <1>5, <1>7

(* The reference is the product it says.                                   *)
LEMMA PowerOf ==
    ASSUME NEW b \in Int, NEW n \in Nat
    PROVE  /\ Power(b, 0) = 1
           /\ Power(b, n) \in Int
           /\ Power(b, n + 1) = b * Power(b, n)
<1> DEFINE Is(f) == f = [k \in Nat |-> IF k = 0 THEN 1 ELSE b * f[k - 1]]
           p == CHOOSE f : Is(f)
           G == [x \in Int |-> b * x]
<1>1. PICK f \in [Nat -> Int] : f[0] = 1 /\ \A k \in Nat : f[k + 1] = G[f[k]]
  <2> DEFINE S == Int
             c == 1
  <2>1. c \in S /\ G \in [S -> S]
    OBVIOUS
  <2>2. \E f \in [Nat -> S] : f[0] = c /\ \A k \in Nat : f[k + 1] = G[f[k]]
    <3> HIDE DEF S, c, G
    <3> QED
      BY <2>1, IterationIsDefined
  <2> QED
    BY <2>2
<1>2. Is(f)
  <2>1. \A k \in Nat \ {0} : k - 1 \in Nat /\ f[k] = b * f[k - 1]
    <3>1. \A k \in Nat \ {0} : k - 1 \in Nat /\ k = (k - 1) + 1
      OBVIOUS
    <3> QED
      BY <1>1, <3>1
  <2> QED
    BY <1>1, <2>1
<1>3. \A k \in Nat : Power(b, k) = p[k]
  BY DEF Power
<1> HIDE DEF Is
<1>4. Is(p)
  BY <1>2
<1> HIDE DEF p
<1>5. p = [k \in Nat |-> IF k = 0 THEN 1 ELSE b * p[k - 1]]
  BY <1>4 DEF Is
<1>6. p[0] = 1 /\ \A k \in Nat : p[k + 1] = b * p[k]
  BY <1>5
<1>7. \A k \in Nat : p[k] \in Int
  <2> DEFINE A == {k \in Nat : p[k] \in Int}
  <2>1. 0 \in A /\ \A k \in Nat : k \in A => k + 1 \in A
    BY <1>6
  <2> HIDE DEF A
  <2>2. Nat \subseteq A
    BY <2>1, NatSetInduction
  <2> QED
    BY <2>2 DEF A
<1> QED
  BY <1>3, <1>6, <1>7

(* Half as often the square is as often the number.                        *)
LEMMA PowerOfSquare ==
    ASSUME NEW b \in Int, NEW n \in Nat
    PROVE  Power(b, 2 * n) = Power(b * b, n)
<1> DEFINE A == {k \in Nat : Power(b, 2 * k) = Power(b * b, k)}
<1>1. 0 \in A
  BY PowerOf
<1>2. ASSUME NEW k \in Nat, k \in A
      PROVE  k + 1 \in A
  <2>1. 2 * k \in Nat /\ 2 * k + 1 \in Nat /\ 2 * (k + 1) = (2 * k + 1) + 1 /\ b * b \in Int
    OBVIOUS
  <2>2. Power(b, 2 * (k + 1)) = b * (b * Power(b, 2 * k)) /\ Power(b, 2 * k) \in Int
    BY <2>1, PowerOf
  <2>3. Power(b * b, k + 1) = (b * b) * Power(b * b, k)
    BY <2>1, PowerOf
  <2>4. Power(b, 2 * k) = Power(b * b, k)
    BY <1>2
  <2>5. b * (b * Power(b, 2 * k)) = (b * b) * Power(b, 2 * k)
    BY <2>2
  <2> QED
    BY <2>2, <2>3, <2>4, <2>5
<1> HIDE DEF A
<1>3. Nat \subseteq A
  BY <1>1, <1>2, NatSetInduction
<1> QED
  BY <1>3 DEF A

(* A power of a positive number is positive.                               *)
LEMMA PowerIsPositive ==
    ASSUME NEW b \in Int, b >= 1, NEW n \in Nat
    PROVE  Power(b, n) >= 1
<1> DEFINE A == {k \in Nat : Power(b, k) >= 1}
<1>1. 0 \in A
  BY PowerOf
<1>2. ASSUME NEW k \in Nat, k \in A
      PROVE  k + 1 \in A
  <2> DEFINE p == Power(b, k)
  <2>1. p \in Int /\ p >= 1 /\ Power(b, k + 1) = b * p
    BY <1>2, PowerOf
  <2> HIDE DEF p
  <2>2. b * p >= 1
    BY <2>1
  <2> QED
    BY <2>1, <2>2
<1> HIDE DEF A
<1>3. Nat \subseteq A
  BY <1>1, <1>2, NatSetInduction
<1> QED
  BY <1>3 DEF A

(* The bases int_pow() answers without a loop.                             *)
LEMMA PowersOfUnits ==
    ASSUME NEW n \in Nat
    PROVE  /\ Power(1, n) = 1
           /\ n > 0 => Power(0, n) = 0
           /\ Power(-1, n) = IF n % 2 = 1 THEN -1 ELSE 1
<1> DEFINE A == {k \in Nat : /\ Power(1, k) = 1
                             /\ k > 0 => Power(0, k) = 0
                             /\ Power(-1, k) = IF k % 2 = 1 THEN -1 ELSE 1}
<1>1. 0 \in A
  BY PowerOf
<1>2. ASSUME NEW k \in Nat, k \in A
      PROVE  k + 1 \in A
  <2>1. Power(1, k + 1) = 1 * Power(1, k) /\ Power(1, k) = 1
    BY <1>2, PowerOf
  <2>2. Power(0, k + 1) = 0 * Power(0, k) /\ Power(0, k) \in Int
    BY PowerOf
  <2>3. -1 \in Int
    OBVIOUS
  <2>4. Power(-1, k + 1) = (-1) * Power(-1, k)
    BY <2>3, PowerOf
  <2>5. Power(-1, k) = IF k % 2 = 1 THEN -1 ELSE 1
    BY <1>2
  <2>6. Power(-1, k + 1) = IF (k + 1) % 2 = 1 THEN -1 ELSE 1
    <3>1. CASE k % 2 = 1
      <4>1. (k + 1) % 2 # 1
        BY <3>1
      <4> QED
        BY <2>4, <2>5, <3>1, <4>1
    <3>2. CASE k % 2 # 1
      <4>1. (k + 1) % 2 = 1
        BY <3>2
      <4> QED
        BY <2>4, <2>5, <3>2, <4>1
    <3> QED
      BY <3>1, <3>2
  <2> QED
    BY <2>1, <2>2, <2>6
<1> HIDE DEF A
<1>3. Nat \subseteq A
  BY <1>1, <1>2, NatSetInduction
<1> QED
  BY <1>3 DEF A

(* would_overflow() by division is the product not fitting.                *)
LEMMA ProductAgainstQuotient ==
    ASSUME NEW n \in Nat, NEW d \in Nat, d > 0, NEW a \in Nat
    PROVE  n \div d \in Nat /\ (a > n \div d <=> a * d > n)
<1> DEFINE q == n \div d
           r == n - d * q
<1>1. q \in Nat /\ r \in 0 .. d - 1 /\ n = d * q + r
  BY NaturalDivision
<1> HIDE DEF q, r
<1>2. ASSUME a > q
      PROVE  a * d > n
  <2>1. a * d >= (q + 1) * d
    BY <1>1, <1>2
  <2>2. (q + 1) * d = d * q + d
    BY <1>1
  <2> QED
    BY <1>1, <2>1, <2>2
<1>3. ASSUME ~(a > q)
      PROVE  ~(a * d > n)
  <2>1. a * d <= d * q
    BY <1>1, <1>3
  <2> QED
    BY <1>1, <2>1
<1> QED
  BY <1>1, <1>2, <1>3 DEF q

(* Operands of the fast path have a product that fits.                     *)
LEMMA SmallProductsFit ==
    ASSUME NEW a \in -T .. T, NEW b \in -T .. T
    PROVE  a * b \in Ints
<1>1. T \in Nat /\ T * T <= MaxInt /\ T * T \in Nat
  BY NumericAssumption
<1>2. Abs(a) \in 0 .. T /\ Abs(b) \in 0 .. T
  BY <1>1, AbsOf
<1>3. ASSUME NEW m \in 0 .. T, NEW n \in 0 .. T
      PROVE  m * n \in Nat /\ m * n <= T * T
  <2>1. m * n <= T * n /\ T * n <= T * T
    BY <1>1
  <2> QED
    BY <1>1, <2>1
<1>4. a * b = Abs(a) * Abs(b) \/ a * b = -(Abs(a) * Abs(b))
  <2>1. (Abs(a) = a \/ Abs(a) = -a) /\ (Abs(b) = b \/ Abs(b) = -b)
    BY <1>1, AbsOf
  <2> QED
    BY <1>1, <2>1
<1>5. Abs(a) * Abs(b) \in Nat /\ Abs(a) * Abs(b) <= MaxInt
  BY <1>1, <1>2, <1>3, LimitsAreIntegers
<1> QED
  BY <1>4, <1>5, LimitsAreIntegers DEF Ints

LEMMA WouldOverflowIsExact ==
    ASSUME NEW a \in Ints, NEW b \in Ints
    PROVE  WouldOverflow(a, b) <=> a * b \notin Ints
<1>1. /\ a \in Int /\ b \in Int /\ MaxInt \in Nat /\ MaxInt + 1 \in Nat
      /\ MinInt = -(MaxInt + 1) /\ MinInt \in Int
  BY LimitsAreIntegers
<1>2. CASE {a, b} \cap {0, 1} # {}
  <2>1. a * b \in {0, a, b}
    BY <1>1, <1>2
  <2> QED
    BY <1>2, <2>1, LimitsAreIntegers DEF WouldOverflow
<1>3. CASE a \in -T .. T /\ b \in -T .. T
  BY <1>3, SmallProductsFit DEF WouldOverflow
<1>4. CASE {a, b} \cap {0, 1} = {} /\ ~(a \in -T .. T /\ b \in -T .. T)
  <2> DEFINE p == a * b
  <2>1. a # 0 /\ b # 0 /\ p \in Int
    <3>1. 0 \notin {a, b}
      BY <1>4
    <3> QED
      BY <1>1, <3>1
  <2>2. p \in Ints <=> MinInt <= p /\ p <= MaxInt
    <3> HIDE DEF p
    <3> QED
      BY <1>1, <2>1 DEF Ints
  <2>3. /\ a > 0 /\ b > 0 => (WouldOverflow(a, b) <=> a > TruncDiv(MaxInt, b))
        /\ a > 0 /\ b < 0 => (WouldOverflow(a, b) <=> b < TruncDiv(MinInt, a))
        /\ a < 0 /\ b > 0 => (WouldOverflow(a, b) <=> a < TruncDiv(MinInt, b))
        /\ a < 0 /\ b < 0 => (WouldOverflow(a, b) <=> a < TruncDiv(MaxInt, b))
    <3>1. /\ a > 0 => ~(a < 0)
          /\ a < 0 => ~(a > 0)
          /\ b < 0 => ~(b > 0)
      BY <1>1
    <3> QED
      BY <1>4, <3>1 DEF WouldOverflow
  <2>4. /\ MaxInt > 0 /\ MaxInt + 1 > 0 /\ Abs(MaxInt) = MaxInt
        /\ MinInt < 0 /\ Abs(MinInt) = MaxInt + 1
        /\ Sign(MaxInt) = 1 /\ Sign(MinInt) = -1
    BY <1>1, LimitsAreIntegers, AbsOf, SignOf
  <2>5. ASSUME NEW d \in Int, d # 0
        PROVE  LET q == MaxInt \div Abs(d)
                   r == (MaxInt + 1) \div Abs(d)
               IN /\ q \in Nat /\ r \in Nat
                  /\ d > 0 => TruncDiv(MaxInt, d) = q /\ TruncDiv(MinInt, d) = -r
                  /\ d < 0 => TruncDiv(MaxInt, d) = -q
    <3> DEFINE q == MaxInt \div Abs(d)
               r == (MaxInt + 1) \div Abs(d)
    <3>1. /\ Abs(d) \in Nat /\ Abs(d) > 0
          /\ (d > 0 => Sign(d) = 1) /\ (d < 0 => Sign(d) = -1)
      BY <2>5, AbsOf, SignOf
    <3>2. q \in Nat /\ r \in Nat
      BY <1>1, <3>1, NaturalDivision
    <3>3. TruncDiv(MaxInt, d) = 1 * Sign(d) * q /\ TruncDiv(MinInt, d) = (-1) * Sign(d) * r
      BY <2>4 DEF TruncDiv
    <3> HIDE DEF q, r
    <3>4. /\ d > 0 => TruncDiv(MaxInt, d) = q /\ TruncDiv(MinInt, d) = -r
          /\ d < 0 => TruncDiv(MaxInt, d) = -q
      BY <3>1, <3>2, <3>3
    <3> QED
      BY <3>2, <3>4 DEF q, r
  <2>6. CASE a > 0 /\ b > 0
    <3>1. TruncDiv(MaxInt, b) = MaxInt \div b
      <4>1. Abs(b) = b
        BY <1>1, <2>6, AbsOf
      <4> QED
        BY <1>1, <2>1, <2>5, <2>6, <4>1
    <3>2. a > MaxInt \div b <=> p > MaxInt
      BY <1>1, <2>6, ProductAgainstQuotient
    <3>3. p >= 0
      BY <1>1, <2>6
    <3>4. WouldOverflow(a, b) <=> p > MaxInt
      BY <2>3, <2>6, <3>1, <3>2
    <3> HIDE DEF p
    <3>5. WouldOverflow(a, b) <=> p \notin Ints
      BY <1>1, <2>1, <2>2, <3>3, <3>4
    <3> QED
      BY <3>5 DEF p
  <2>7. CASE a > 0 /\ b < 0
    <3> DEFINE q == (MaxInt + 1) \div a
    <3>1. TruncDiv(MinInt, a) = -q /\ q \in Nat
      <4>1. Abs(a) = a
        BY <1>1, <2>7, AbsOf
      <4> QED
        BY <1>1, <2>1, <2>5, <2>7, <4>1
    <3>2. -b > q <=> (-b) * a > MaxInt + 1
      BY <1>1, <2>7, ProductAgainstQuotient
    <3>3. (-b) * a = -p /\ p <= 0
      BY <1>1, <2>7
    <3>4. WouldOverflow(a, b) <=> b < -q
      BY <2>3, <2>7, <3>1
    <3> HIDE DEF p, q
    <3>5. WouldOverflow(a, b) <=> p \notin Ints
      BY <1>1, <2>1, <2>2, <3>1, <3>2, <3>3, <3>4
    <3> QED
      BY <3>5 DEF p
  <2>8. CASE a < 0 /\ b > 0
    <3> DEFINE q == (MaxInt + 1) \div b
    <3>1. TruncDiv(MinInt, b) = -q /\ q \in Nat
      <4>1. Abs(b) = b
        BY <1>1, <2>8, AbsOf
      <4> QED
        BY <1>1, <2>1, <2>5, <2>8, <4>1
    <3>2. -a > q <=> (-a) * b > MaxInt + 1
      BY <1>1, <2>8, ProductAgainstQuotient
    <3>3. (-a) * b = -p /\ p <= 0
      BY <1>1, <2>8
    <3>4. WouldOverflow(a, b) <=> a < -q
      BY <2>3, <2>8, <3>1
    <3> HIDE DEF p, q
    <3>5. WouldOverflow(a, b) <=> p \notin Ints
      BY <1>1, <2>1, <2>2, <3>1, <3>2, <3>3, <3>4
    <3> QED
      BY <3>5 DEF p
  <2>9. CASE a < 0 /\ b < 0
    <3> DEFINE q == MaxInt \div (-b)
    <3>1. TruncDiv(MaxInt, b) = -q /\ q \in Nat
      <4>1. Abs(b) = -b
        BY <1>1, <2>9, AbsOf
      <4> QED
        BY <1>1, <2>1, <2>5, <2>9, <4>1
    <3>2. -a > q <=> (-a) * (-b) > MaxInt
      BY <1>1, <2>9, ProductAgainstQuotient
    <3>3. (-a) * (-b) = p /\ p >= 0
      BY <1>1, <2>9
    <3>4. WouldOverflow(a, b) <=> a < -q
      BY <2>3, <2>9, <3>1
    <3> HIDE DEF p, q
    <3>5. WouldOverflow(a, b) <=> p \notin Ints
      BY <1>1, <2>1, <2>2, <3>1, <3>2, <3>3, <3>4
    <3> QED
      BY <3>5 DEF p
  <2> QED
    BY <1>1, <2>1, <2>6, <2>7, <2>8, <2>9
<1> QED
  BY <1>2, <1>3, <1>4

(***************************************************************************)
(* The loop of int_pow().  While everything fits, the result times the     *)
(* base to the remaining exponent is the power; once something does not,   *)
(* neither does the power: what is left to multiply is a power of a        *)
(* square, and the result is 1 or at least 2 from 0.                       *)
(***************************************************************************)
FarFromZero(n) == n >= 2 \/ n <= -2
Turns == [fits : BOOLEAN, result : Ints, base : Ints, exp : Nat]

TurnInv(s, power) ==
    /\ s.fits => /\ s.result * Power(s.base, s.exp) = power
                 /\ s.result = 1 \/ FarFromZero(s.result)
                 /\ FarFromZero(s.base)
    /\ ~s.fits => power \notin Ints

(* A product of two numbers far from zero is far from zero.                *)
LEMMA FarProducts ==
    ASSUME NEW a \in Int, NEW b \in Int, FarFromZero(a), FarFromZero(b)
    PROVE  FarFromZero(a * b)
<1> DEFINE p == a * b
<1>1. CASE a >= 2 /\ b >= 2
  <2>1. p >= 2 * b
    BY <1>1
  <2> QED
    BY <1>1, <2>1 DEF FarFromZero
<1>2. CASE a >= 2 /\ b <= -2
  <2>1. p <= 2 * b
    BY <1>2
  <2> QED
    BY <1>2, <2>1 DEF FarFromZero
<1>3. CASE a <= -2 /\ b >= 2
  <2>1. p <= -2 * b
    BY <1>3
  <2> QED
    BY <1>3, <2>1 DEF FarFromZero
<1>4. CASE a <= -2 /\ b <= -2
  <2>1. p >= -2 * b
    BY <1>4
  <2> QED
    BY <1>4, <2>1 DEF FarFromZero
<1> QED
  BY <1>1, <1>2, <1>3, <1>4 DEF FarFromZero

(* What does not fit does not fit when it is multiplied.                   *)
LEMMA TooLargeStays ==
    ASSUME NEW y \in Int, y \notin Ints, NEW x \in Int, x >= 1
    PROVE  y * x \notin Ints
<1>1. /\ MaxInt \in Int /\ MinInt \in Int /\ MaxInt >= 1 /\ MinInt < 0
      /\ \A n \in Int : n \in Ints <=> MinInt <= n /\ n <= MaxInt
  BY LimitsAreIntegers DEF Ints
<1> DEFINE p == y * x
<1>2. p \in Int
  OBVIOUS
<1>3. y >= 0 => p >= y
  OBVIOUS
<1>4. y <= 0 => p <= y
  OBVIOUS
<1> HIDE DEF p
<1> QED
  BY <1>1, <1>2, <1>3, <1>4 DEF p

(* What is beyond the limit stays there, whatever the sign of the result.  *)
LEMMA LargeSquaresStay ==
    ASSUME NEW y \in Int, y = 1 \/ FarFromZero(y), NEW x \in Int, x > MaxInt
    PROVE  y * x \notin Ints
<1>1. /\ MaxInt \in Int /\ MinInt \in Int /\ MaxInt >= 1 /\ MinInt = -MaxInt - 1
      /\ \A n \in Int : n \in Ints <=> MinInt <= n /\ n <= MaxInt
  BY LimitsAreIntegers DEF Ints
<1> DEFINE p == y * x
<1>2. p \in Int /\ x >= 1
  BY <1>1
<1>3. y >= 1 => p >= x
  BY <1>2
<1>4. y <= -2 => p <= -2 * x
  BY <1>2
<1> HIDE DEF p
<1>5. y >= 1 \/ y <= -2
  BY DEF FarFromZero
<1> QED
  BY <1>1, <1>2, <1>3, <1>4, <1>5 DEF p

(* A turn keeps the types.                                                 *)
LEMMA SquaringTurnType ==
    ASSUME NEW s \in Turns
    PROVE  SquaringTurn(s) \in Turns
<1>1. /\ s.result \in Int /\ s.base \in Int /\ s.exp \div 2 \in Nat
      /\ s.result \in Ints /\ s.base \in Ints
      /\ s.result * s.base \in Int /\ s.base * s.base \in Int
  <2>1. s.result \in Ints /\ s.base \in Ints /\ s.exp \in Nat
    BY DEF Turns
  <2>2. s.result \in Int /\ s.base \in Int
    BY <2>1, LimitsAreIntegers
  <2> QED
    BY <2>1, <2>2
<1>2. Wrap(s.result * s.base) \in Ints /\ Wrap(s.base * s.base) \in Ints
  BY <1>1, WrapStays
<1>3. CASE ~s.fits \/ s.exp = 0
  BY <1>3 DEF SquaringTurn
<1>4. CASE ~(~s.fits \/ s.exp = 0)
  <2> DEFINE odd == s.exp % 2 = 1
             more == s.exp \div 2 > 0
             fits == (odd => ~WouldOverflow(s.result, s.base))
                       /\ (more => ~WouldOverflow(s.base, s.base))
             result == IF odd THEN Wrap(s.result * s.base) ELSE s.result
             base == IF more THEN Wrap(s.base * s.base) ELSE s.base
  <2>1. SquaringTurn(s) = [fits |-> fits, result |-> result, base |-> base,
                           exp |-> s.exp \div 2]
    BY <1>4 DEF SquaringTurn
  <2>2. fits \in BOOLEAN /\ result \in Ints /\ base \in Ints
    BY <1>1, <1>2
  <2> HIDE DEF fits, result, base
  <2> QED
    BY <1>1, <2>1, <2>2 DEF Turns
<1> QED
  BY <1>3, <1>4

(* A turn keeps the invariant of the loop, and halves the exponent.        *)
LEMMA SquaringTurnInv ==
    ASSUME NEW s \in Turns, NEW power \in Int, TurnInv(s, power)
    PROVE  /\ TurnInv(SquaringTurn(s), power)
           /\ SquaringTurn(s).fits => s.fits /\ SquaringTurn(s).exp = s.exp \div 2
<1>1. CASE ~s.fits \/ s.exp = 0
  <2>1. SquaringTurn(s) = s
    BY <1>1 DEF SquaringTurn
  <2>2. s.exp = 0 => s.exp \div 2 = s.exp
    OBVIOUS
  <2> QED
    BY <1>1, <2>1, <2>2
<1>2. CASE s.fits /\ s.exp # 0
  <2> DEFINE n == s.exp
             h == n \div 2
             r == s.result
             b == s.base
             sq == b * b
             odd == n % 2 = 1
             more == h > 0
             y == IF odd THEN r * b ELSE r
             x == Power(sq, h)
             fits == (odd => ~WouldOverflow(r, b)) /\ (more => ~WouldOverflow(b, b))
             result == IF odd THEN Wrap(r * b) ELSE r
             base == IF more THEN Wrap(sq) ELSE b
  <2>1. /\ n \in Nat /\ n # 0 /\ r \in Ints /\ b \in Ints
        /\ r \in Int /\ b \in Int /\ sq \in Int /\ r * b \in Int
    <3>1. n \in Nat /\ r \in Ints /\ b \in Ints
      BY DEF Turns
    <3>2. r \in Int /\ b \in Int
      BY <3>1, LimitsAreIntegers
    <3> QED
      BY <1>2, <3>1, <3>2
  <2>2. h \in Nat /\ (odd => n = 2 * h + 1) /\ (~odd => n = 2 * h)
    <3>1. n \in Nat
      BY <2>1
    <3> HIDE DEF n
    <3> QED
      BY <3>1
  <2>3. SquaringTurn(s) = [fits |-> fits, result |-> result, base |-> base, exp |-> h]
    BY <1>2 DEF SquaringTurn
  <2>4. r * Power(b, n) = power /\ (r = 1 \/ FarFromZero(r)) /\ FarFromZero(b)
    BY <1>2 DEF TurnInv
  <2>5. fits <=> (odd => r * b \in Ints) /\ (more => sq \in Ints)
    BY <2>1, WouldOverflowIsExact
  <2>6. FarFromZero(sq) /\ sq >= 2 /\ y \in Int /\ (y = 1 \/ FarFromZero(y))
    <3>1. FarFromZero(sq)
      BY <2>1, <2>4, FarProducts
    <3>2. sq >= 0
      BY <2>1
    <3>3. r = 1 => r * b = b
      BY <2>1
    <3>4. odd => FarFromZero(y)
      BY <2>1, <2>4, <3>3, FarProducts
    <3> HIDE DEF sq
    <3> QED
      BY <2>1, <2>4, <3>1, <3>2, <3>4 DEF FarFromZero
  <2>7. x \in Int /\ x >= 1
    <3>1. sq \in Int /\ sq >= 1 /\ h \in Nat
      BY <2>1, <2>2, <2>6
    <3> HIDE DEF sq, h
    <3> QED
      BY <3>1, PowerOf, PowerIsPositive
  <2>8. more => x >= sq
    <3> SUFFICES ASSUME more
                 PROVE  x >= sq
      OBVIOUS
    <3> DEFINE z == Power(sq, h - 1)
    <3>1. h - 1 \in Nat /\ h = (h - 1) + 1
      BY <2>2
    <3>2. z \in Int /\ z >= 1 /\ x = sq * z
      <4>1. sq \in Int /\ sq >= 1
        BY <2>1, <2>6
      <4> HIDE DEF sq, h
      <4> QED
        BY <3>1, <4>1, PowerOf, PowerIsPositive
    <3> HIDE DEF sq, z, x
    <3>3. sq * z >= sq
      BY <2>1, <2>6, <3>2
    <3> QED
      BY <3>2, <3>3
  <2>9. power = y * x
    <3>1. Power(b, 2 * h) = x /\ 2 * h \in Nat
      <4>1. b \in Int /\ h \in Nat /\ 2 * h \in Nat
        BY <2>1, <2>2
      <4> HIDE DEF h, b
      <4> QED
        BY <4>1, PowerOfSquare DEF sq, x
    <3>2. CASE odd
      <4>1. Power(b, n) = b * x
        BY <2>1, <2>2, <3>1, <3>2, PowerOf
      <4>2. r * (b * x) = (r * b) * x
        <5> HIDE DEF x
        <5> QED
          BY <2>1, <2>7
      <4> QED
        BY <2>4, <3>2, <4>1, <4>2
    <3>3. CASE ~odd
      BY <2>2, <2>4, <3>1, <3>3
    <3> QED
      BY <3>2, <3>3
  <2> HIDE DEF x, y, sq, fits, result, base
  <2>10. ASSUME ~fits
         PROVE  power \notin Ints
    <3>1. CASE odd /\ r * b \notin Ints
      <4>1. y = r * b
        BY <3>1 DEF y
      <4> QED
        BY <2>6, <2>7, <2>9, <3>1, <4>1, TooLargeStays
    <3>2. CASE more /\ sq \notin Ints
      <4>1. sq > MaxInt
        BY <2>1, <2>6, <3>2, LimitsAreIntegers DEF Ints
      <4>2. x > MaxInt
        BY <2>1, <2>7, <2>8, <3>2, <4>1, LimitsAreIntegers
      <4> QED
        BY <2>6, <2>7, <2>9, <4>2, LargeSquaresStay
    <3> QED
      BY <2>5, <2>10, <3>1, <3>2
  <2>11. ASSUME fits
         PROVE  /\ result * Power(base, h) = power
                /\ result = 1 \/ FarFromZero(result)
                /\ FarFromZero(base)
    <3>1. result = y
      <4>1. odd => Wrap(r * b) = r * b
        BY <2>1, <2>5, <2>11, WrapStays
      <4> QED
        BY <4>1 DEF result, y
    <3>2. base = IF more THEN sq ELSE b
      <4>1. more => Wrap(sq) = sq
        BY <2>1, <2>5, <2>11, WrapStays
      <4> QED
        BY <4>1 DEF base
    <3>3. Power(base, h) = x
      <4>1. CASE more
        BY <3>2, <4>1 DEF x
      <4>2. CASE ~more
        <5>1. h = 0
          BY <2>2, <4>2
        <5> QED
          BY <2>1, <3>2, <4>2, <5>1, PowerOf DEF x
      <4> QED
        BY <4>1, <4>2
    <3> QED
      BY <2>4, <2>6, <2>9, <3>1, <3>2, <3>3
  <2>12. fits \in BOOLEAN
    BY DEF fits
  <2> QED
    BY <1>2, <2>3, <2>10, <2>11, <2>12 DEF TurnInv
<1> QED
  BY <1>1, <1>2

(* The loop ends before its turns do, with the power or without one.       *)
LEMMA SquaringsOf ==
    ASSUME NEW b \in Ints, FarFromZero(b), NEW e \in Ints, e > 0
    PROVE  LET s == Squarings(b, e)
           IN /\ s.fits \in BOOLEAN
              /\ s.fits => s.result = Power(b, e)
              /\ ~s.fits => Power(b, e) \notin Ints
<1> DEFINE start == [fits |-> TRUE, result |-> 1, base |-> b, exp |-> e]
           G == [s \in Turns |-> SquaringTurn(s)]
           Is(f) == f = [k \in Nat |-> IF k = 0 THEN start ELSE SquaringTurn(f[k - 1])]
           turn == CHOOSE f : Is(f)
           power == Power(b, e)
<1>1. b \in Int /\ e \in Nat /\ 1 \in Ints
  BY LimitsAreIntegers DEF Ints
<1>2. start \in Turns /\ G \in [Turns -> Turns]
  BY <1>1, SquaringTurnType DEF Turns
<1>3. PICK f \in [Nat -> Turns] : f[0] = start /\ \A k \in Nat : f[k + 1] = G[f[k]]
  <2> HIDE DEF start, G
  <2> QED
    BY <1>2, IterationIsDefined
<1>4. Is(f)
  <2>1. \A k \in Nat \ {0} : k - 1 \in Nat /\ f[k] = SquaringTurn(f[k - 1])
    <3>1. \A k \in Nat \ {0} : k - 1 \in Nat /\ k = (k - 1) + 1
      OBVIOUS
    <3> QED
      BY <1>3, <3>1
  <2> QED
    BY <1>3, <2>1
<1>5. Squarings(b, e) = turn[e]
  BY DEF Squarings
<1> HIDE DEF Is
<1>6. Is(turn)
  BY <1>4
<1> HIDE DEF turn, G
<1>7. turn[0] = start /\ \A k \in Nat : turn[k + 1] = SquaringTurn(turn[k])
  <2>1. turn = [k \in Nat |-> IF k = 0 THEN start ELSE SquaringTurn(turn[k - 1])]
    BY <1>6 DEF Is
  <2> HIDE DEF start
  <2> QED
    BY <2>1
<1>8. power \in Int /\ TurnInv(start, power)
  <2>1. power \in Int
    BY <1>1, PowerOf
  <2> HIDE DEF power
  <2>2. 1 * power = power
    BY <2>1
  <2> QED
    BY <2>1, <2>2 DEF TurnInv, power
<1> DEFINE A == {k \in Nat : /\ turn[k] \in Turns /\ TurnInv(turn[k], power)
                             /\ turn[k].fits => turn[k].exp = 0 \/ turn[k].exp + k <= e}
<1>9. 0 \in A
  BY <1>1, <1>2, <1>7, <1>8
<1>10. ASSUME NEW k \in Nat, k \in A
       PROVE  k + 1 \in A
  <2> DEFINE s == turn[k]
             t == turn[k + 1]
  <2>1. /\ s \in Turns /\ TurnInv(s, power)
        /\ s.fits => s.exp = 0 \/ s.exp + k <= e
        /\ t = SquaringTurn(s)
    BY <1>7, <1>10
  <2> HIDE DEF s, t, power
  <2>2. t \in Turns /\ TurnInv(t, power) /\ (t.fits => s.fits /\ t.exp = s.exp \div 2)
    BY <1>8, <2>1, SquaringTurnType, SquaringTurnInv
  <2>3. t.fits => t.exp = 0 \/ t.exp + (k + 1) <= e
    <3>1. s.exp \in Nat
      BY <2>1 DEF Turns
    <3>2. \A n \in Nat : n \div 2 = 0 \/ (n \div 2) + 1 <= n
      OBVIOUS
    <3>3. \A n \in Nat : n \div 2 \in Nat
      OBVIOUS
    <3>4. s.exp = 0 => s.exp \div 2 = 0
      OBVIOUS
    <3> QED
      BY <1>1, <2>1, <2>2, <3>1, <3>2, <3>3, <3>4
  <2> QED
    BY <2>2, <2>3 DEF s, t
<1> HIDE DEF A, power, start
<1>11. Nat \subseteq A
  BY <1>9, <1>10, NatSetInduction
<1> DEFINE s == turn[e]
<1>12. s \in Turns /\ TurnInv(s, power) /\ (s.fits => s.exp = 0 \/ s.exp + e <= e)
  BY <1>1, <1>11 DEF A
<1>13. s.fits \in BOOLEAN /\ s.exp \in Nat /\ s.result \in Int /\ s.base \in Int
  BY <1>12, LimitsAreIntegers DEF Turns
<1>14. s.fits => s.result = power
  <2> SUFFICES ASSUME s.fits
               PROVE  s.result = power
    OBVIOUS
  <2>1. s.exp = 0
    BY <1>1, <1>12, <1>13
  <2>2. s.result * Power(s.base, s.exp) = power
    BY <1>12 DEF TurnInv
  <2>3. Power(s.base, s.exp) = 1
    BY <1>13, <2>1, PowerOf
  <2> QED
    BY <1>13, <2>2, <2>3
<1>15. ~s.fits => power \notin Ints
  BY <1>12 DEF TurnInv
<1> QED
  BY <1>5, <1>13, <1>14, <1>15 DEF power

(* int_pow() is the power, or the power does not fit.                      *)
LEMMA PowersAreExact ==
    ASSUME lhs \in Numbers, rhs \in Numbers
    PROVE  PowerIsExact
<1> DEFINE b == lhs.is
           e == rhs.is
           r == IntPow(b, e)
           power == Power(b, e)
<1> SUFFICES ASSUME IsInt(lhs), IsInt(rhs), e >= 0
             PROVE  IF IsInt(r) THEN r.is = power ELSE power \notin Ints
  BY DEF PowerIsExact
<1>1. b \in Ints /\ e \in Ints /\ b \in Int /\ e \in Nat
  BY NumbersAreRecords
<1>2. \A n : IsInt(IntNum(n)) /\ IntNum(n).is = n
  BY DEF IsInt, IntNum
<1> HIDE DEF b, e
<1>3. CASE e = 0
  BY <1>1, <1>2, <1>3, PowerOf DEF IntPow
<1>4. CASE e # 0 /\ b \in {-1, 0, 1}
  <2>1. e > 0 /\ ~(e < 0)
    BY <1>1, <1>4
  <2>2. CASE b = 0
    BY <1>1, <1>2, <1>4, <2>1, <2>2, PowersOfUnits DEF IntPow
  <2>3. CASE b = 1
    BY <1>1, <1>2, <1>4, <2>1, <2>3, PowersOfUnits DEF IntPow
  <2>4. CASE b = -1
    <3>1. r = IntNum(IF e % 2 = 1 THEN -1 ELSE 1)
      BY <1>4, <2>1, <2>4 DEF IntPow
    <3>2. power = IF e % 2 = 1 THEN -1 ELSE 1
      BY <1>1, <2>4, PowersOfUnits
    <3> QED
      BY <1>2, <3>1, <3>2
  <2> QED
    BY <1>4, <2>2, <2>3, <2>4
<1>5. CASE e # 0 /\ b \notin {-1, 0, 1}
  <2>1. e > 0 /\ ~(e < 0) /\ b # 0 /\ b # 1 /\ b # -1 /\ FarFromZero(b)
    BY <1>1, <1>5 DEF FarFromZero
  <2> DEFINE s == Squarings(b, e)
  <2>2. s.fits \in BOOLEAN /\ (s.fits => s.result = power) /\ (~s.fits => power \notin Ints)
    BY <1>1, <2>1, SquaringsOf
  <2>3. r = IF s.fits THEN IntNum(s.result) ELSE SomeFloat
    BY <1>5, <2>1 DEF IntPow
  <2>4. ~IsInt(SomeFloat)
    BY DEF IsInt, SomeFloat
  <2> HIDE DEF s, r, power
  <2> QED
    BY <1>2, <2>2, <2>3, <2>4
<1> QED
  BY <1>3, <1>4, <1>5

(* The invariant holds of every number and every loop over a range.        *)
THEOREM NumericInvariant == NumericSpec => []NumericIInv
<1>1. NumericInit => NumericIInv
  BY NumericInitIInv
<1>2. NumericIInv /\ [NumericNext]_numericVars => NumericIInv'
  BY NumericStepIInv
<1> QED
  BY <1>1, <1>2, PTL DEF NumericSpec

(* The invariant implies what the runs check.                              *)
LEMMA NumericIInvCorrect == NumericIInv => NumericInv
<1> SUFFICES ASSUME NumericIInv
             PROVE  NumericInv
  OBVIOUS
<1> USE DEF NumericIInv
<1>1. NumericTypeOK
  BY IndicesAreRecords DEF RangeType, NumericTypeOK
<1>2. OrderIsMathematical /\ DivisionIsExact /\ AsIntegerIsMonotone /\ PowerIsExact
  BY ComparisonsAreMathematical, QuotientsAreExact, IndicesKeepTheOrder, PowersAreExact
<1> QED
  BY <1>1, <1>2 DEF NumericInv

(* class numeric is arithmetic: comparisons of any two numbers, quotients  *)
(* and rests, as_integer(), int_pow() and the values of a foreach over a   *)
(* range are exact or say that they are not, at every width.               *)
THEOREM NumericCorrect == NumericSpec => []NumericInv
  BY NumericInvariant, NumericIInvCorrect, PTL

-----------------------------------------------------------------------------
(***************************************************************************)
(* Objects.  Tags of copies: `Under` says that one goes on from another.   *)
(***************************************************************************)
Tags == Seq(Nat)
Under(tag, t) == t \in Tags /\ Len(tag) <= Len(t) /\ \A i \in 1 .. Len(tag) : t[i] = tag[i]

PartNames == [copy : Tags, of : Nat \ {0}]
FinalizedParts == [part : PartNames, parent : PartNames \cup {NoPart}]

(* Finalizers in a sensible order: no part twice, no part after a part     *)
(* whose parent it is.                                                     *)
InOrder(s) ==
    /\ s \in Seq(FinalizedParts)
    /\ \A i, j \in DOMAIN s : i # j => s[i].part # s[j].part
    /\ \A i, j \in DOMAIN s : i < j => s[i].part # s[j].parent

LEMMA NoPartIsNoName == NoPart \notin PartNames
  BY DEF NoPart, Name, PartNames

LEMMA InOrderConcat ==
    ASSUME NEW s, NEW u, InOrder(s), InOrder(u),
           \A i \in DOMAIN s, j \in DOMAIN u :
               s[i].part # u[j].part /\ s[i].part # u[j].parent
    PROVE  InOrder(s \o u)
<1>1. s \in Seq(FinalizedParts) /\ u \in Seq(FinalizedParts)
  BY DEF InOrder
<1> DEFINE w == s \o u
<1>2. w \in Seq(FinalizedParts) /\ Len(w) = Len(s) + Len(u)
  BY <1>1
<1>3. /\ Len(s) \in Nat /\ Len(u) \in Nat
      /\ DOMAIN s = 1 .. Len(s) /\ DOMAIN u = 1 .. Len(u) /\ DOMAIN w = 1 .. (Len(s) + Len(u))
  BY <1>1, <1>2
<1>4. \A i \in DOMAIN w : \/ i \in DOMAIN s /\ w[i] = s[i]
                          \/ i - Len(s) \in DOMAIN u /\ i > Len(s) /\ w[i] = u[i - Len(s)]
  BY <1>1, <1>3
<1> HIDE DEF w
<1>5. ASSUME NEW i \in DOMAIN w, NEW j \in DOMAIN w, i < j
      PROVE  w[i].part # w[j].part /\ w[i].part # w[j].parent
  <2>1. CASE j \in DOMAIN s /\ w[j] = s[j]
    <3>1. i \in DOMAIN s /\ w[i] = s[i]
      BY <1>3, <1>4, <1>5, <2>1
    <3> QED
      BY <1>3, <1>5, <2>1, <3>1 DEF InOrder
  <2>2. CASE j - Len(s) \in DOMAIN u /\ j > Len(s) /\ w[j] = u[j - Len(s)]
    <3>1. CASE i \in DOMAIN s /\ w[i] = s[i]
      BY <2>2, <3>1
    <3>2. CASE i - Len(s) \in DOMAIN u /\ i > Len(s) /\ w[i] = u[i - Len(s)]
      <4>1. i - Len(s) < j - Len(s) /\ i - Len(s) # j - Len(s)
        BY <1>3, <1>5
      <4> QED
        BY <1>3, <2>2, <3>2, <4>1 DEF InOrder
    <3> QED
      BY <1>4, <3>1, <3>2
  <2> QED
    BY <1>4, <2>1, <2>2
<1>6. \A i, j \in DOMAIN w : i # j => i < j \/ j < i
  BY <1>3
<1> QED
  BY <1>2, <1>5, <1>6 DEF InOrder, w

(* The finalizers of one object.                                           *)
LEMMA FinalizingInOrder ==
    ASSUME NEW k \in Nat, NEW parts \in [1 .. k -> PartNames],
           \A d, e \in 1 .. k : d # e => parts[d] # parts[e]
    PROVE  /\ InOrder(Finalizing(parts))
           /\ \A i \in DOMAIN Finalizing(parts) :
                  /\ \E d \in 1 .. k : Finalizing(parts)[i].part = parts[d]
                  /\ \/ Finalizing(parts)[i].parent = NoPart
                     \/ \E d \in 1 .. k : Finalizing(parts)[i].parent = parts[d]
<1> DEFINE s == Finalizing(parts)
           at(i) == k + 1 - i
<1>1. Len(parts) = k /\ DOMAIN parts = 1 .. k
  BY DEF PartNames
<1>2. /\ DOMAIN s = 1 .. k
      /\ \A i \in 1 .. k :
             /\ at(i) \in 1 .. k
             /\ s[i].part = parts[at(i)]
             /\ s[i].parent = IF at(i) = 1 THEN NoPart ELSE parts[at(i) - 1]
             /\ s[i] = [part |-> s[i].part, parent |-> s[i].parent]
             /\ at(i) # 1 => at(i) - 1 \in 1 .. k
  BY <1>1 DEF Finalizing, Done
<1>3. \A i \in 1 .. k : s[i] \in FinalizedParts
  BY <1>2 DEF FinalizedParts
<1>4. s = [i \in 1 .. k |-> s[i]]
  BY <1>1 DEF Finalizing
<1>5. s \in Seq(FinalizedParts)
  <2> HIDE DEF s
  <2> QED
    BY <1>3, <1>4
<1> HIDE DEF s
<1>6. ASSUME NEW i \in 1 .. k, NEW j \in 1 .. k
      PROVE  /\ i # j => s[i].part # s[j].part
             /\ i < j => s[i].part # s[j].parent
  <2>1. i # j => at(i) # at(j)
    OBVIOUS
  <2>2. i < j /\ at(j) # 1 => at(i) # at(j) - 1
    OBVIOUS
  <2>3. parts[at(i)] # NoPart
    BY <1>2, NoPartIsNoName
  <2>4. /\ at(i) \in 1 .. k /\ at(j) \in 1 .. k
        /\ s[i].part = parts[at(i)] /\ s[j].part = parts[at(j)]
    BY <1>2
  <2>5. s[j].parent = IF at(j) = 1 THEN NoPart ELSE parts[at(j) - 1]
    BY <1>2
  <2>6. at(j) # 1 => at(j) - 1 \in 1 .. k
    BY <1>2
  <2> HIDE DEF at
  <2>7. i # j => s[i].part # s[j].part
    BY <2>1, <2>4
  <2>8. ASSUME i < j
        PROVE  s[i].part # s[j].parent
    <3>1. CASE at(j) = 1
      BY <2>3, <2>4, <2>5, <3>1
    <3>2. CASE at(j) # 1
      <4> DEFINE a == at(j) - 1
      <4>1. a \in 1 .. k /\ a # at(i) /\ s[j].parent = parts[a]
        BY <2>2, <2>5, <2>6, <2>8, <3>2
      <4> HIDE DEF a
      <4> QED
        BY <2>4, <4>1
    <3> QED
      BY <3>1, <3>2
  <2> QED
    BY <2>7, <2>8
<1>7. InOrder(s)
  BY <1>2, <1>5, <1>6 DEF InOrder
<1>8. \A i \in DOMAIN s : /\ \E d \in 1 .. k : s[i].part = parts[d]
                          /\ s[i].parent = NoPart \/ \E d \in 1 .. k : s[i].parent = parts[d]
  <2> HIDE DEF at
  <2> QED
    BY <1>2
<1> QED
  BY <1>7, <1>8 DEF s

-----------------------------------------------------------------------------
(***************************************************************************)
(* Tags of a copy.                                                         *)
(***************************************************************************)
IsDown(t, tag, n, digit) ==
    /\ t \in Tags /\ Len(t) = Len(tag) + n
    /\ \A i \in 1 .. Len(tag) : t[i] = tag[i]
    /\ \A i \in 1 .. n : t[Len(tag) + i] = digit

LEMMA DownOf ==
    ASSUME NEW tag \in Tags, NEW n \in Nat, NEW digit \in Nat
    PROVE  IsDown(Down(tag, n, digit), tag, n, digit)
<1> DEFINE more == [i \in 1 .. n |-> digit]
<1>1. more \in Seq(Nat) /\ Len(more) = n /\ \A i \in 1 .. n : more[i] = digit
  OBVIOUS
<1> HIDE DEF more
<1>2. tag \in Seq(Nat)
  BY DEF Tags
<1>3. /\ tag \o more \in Seq(Nat)
      /\ Len(tag \o more) = Len(tag) + Len(more)
      /\ \A i \in 1 .. (Len(tag) + Len(more)) :
             (tag \o more)[i] = IF i <= Len(tag) THEN tag[i] ELSE more[i - Len(tag)]
  BY <1>1, <1>2
<1>4. Down(tag, n, digit) = tag \o more
  BY DEF Down, more
<1>5. Len(tag) \in Nat
  BY <1>2
<1>6. \A i \in 1 .. Len(tag) : (tag \o more)[i] = tag[i]
  BY <1>1, <1>3, <1>5
<1>7. ASSUME NEW i \in 1 .. n
      PROVE  (tag \o more)[Len(tag) + i] = digit
  <2>1. /\ Len(tag) + i \in 1 .. (Len(tag) + Len(more)) /\ ~(Len(tag) + i <= Len(tag))
        /\ (Len(tag) + i) - Len(tag) = i
    BY <1>1, <1>5
  <2> QED
    BY <1>1, <1>3, <2>1
<1> QED
  BY <1>1, <1>3, <1>4, <1>6, <1>7 DEF Tags, IsDown

LEMMA AppendOf ==
    ASSUME NEW tag \in Tags, NEW digit \in Nat
    PROVE  /\ Append(tag, digit) \in Tags
           /\ Len(Append(tag, digit)) = Len(tag) + 1
           /\ \A i \in 1 .. Len(tag) : Append(tag, digit)[i] = tag[i]
           /\ Append(tag, digit)[Len(tag) + 1] = digit
  BY DEF Tags

LEMMA DownStepByStep ==
    ASSUME NEW tag \in Tags, NEW n \in Nat, NEW digit \in Nat
    PROVE  /\ Down(tag, 0, digit) = tag
           /\ Down(tag, n + 1, digit) = Down(Append(tag, digit), n, digit)
<1>1. tag \in Seq(Nat) /\ Len(tag) \in Nat
  BY DEF Tags
<1>2. Down(tag, 0, digit) = tag
  <2>1. Down(tag, 0, digit) \in Seq(Nat) /\ Len(Down(tag, 0, digit)) = Len(tag)
        /\ \A i \in 1 .. Len(tag) : Down(tag, 0, digit)[i] = tag[i]
    <3>1. 0 \in Nat
      OBVIOUS
    <3>2. IsDown(Down(tag, 0, digit), tag, 0, digit)
      BY <3>1, DownOf
    <3> QED
      BY <1>1, <3>2 DEF Tags, IsDown
  <2> QED
    BY <1>1, <2>1
<1> DEFINE a == Down(tag, n + 1, digit)
           t == Append(tag, digit)
           b == Down(t, n, digit)
<1>3. n + 1 \in Nat /\ t \in Tags /\ Len(t) = Len(tag) + 1
      /\ (\A i \in 1 .. Len(tag) : t[i] = tag[i]) /\ t[Len(tag) + 1] = digit
  BY AppendOf
<1>4. IsDown(a, tag, n + 1, digit)
  BY <1>3, DownOf
<1> HIDE DEF t
<1>5. IsDown(b, t, n, digit)
  BY <1>3, DownOf
<1> HIDE DEF a, b
<1> USE DEF IsDown
<1>6. Len(a) = Len(b)
  BY <1>1, <1>3, <1>4, <1>5
<1>7. ASSUME NEW i \in 1 .. Len(a)
      PROVE  a[i] = b[i]
  <2>1. CASE i <= Len(tag)
    BY <1>1, <1>3, <1>4, <1>5, <2>1
  <2>2. CASE i = Len(tag) + 1
    <3>1. 1 \in 1 .. (n + 1) /\ i \in 1 .. Len(t)
      BY <1>1, <1>3, <2>2
    <3> QED
      BY <1>3, <1>4, <1>5, <2>2, <3>1
  <2>3. CASE i > Len(tag) + 1
    <3>1. /\ i - Len(tag) \in 1 .. (n + 1) /\ Len(tag) + (i - Len(tag)) = i
          /\ i - Len(t) \in 1 .. n /\ Len(t) + (i - Len(t)) = i
      BY <1>1, <1>3, <1>4, <2>3
    <3> QED
      BY <1>4, <1>5, <3>1
  <2> QED
    BY <1>1, <1>4, <2>1, <2>2, <2>3
<1>8. a = b
  <2>1. a \in Seq(Nat) /\ b \in Seq(Nat)
    BY <1>4, <1>5 DEF Tags
  <2>2. a = [i \in 1 .. Len(a) |-> a[i]] /\ b = [i \in 1 .. Len(b) |-> b[i]]
    BY <2>1
  <2> QED
    BY <1>6, <1>7, <2>2, Zenon
<1> QED
  BY <1>2, <1>8 DEF a, b, t

LEMMA UnderIsTransitive ==
    ASSUME NEW tag \in Tags, NEW t, Under(tag, t), NEW u, Under(t, u)
    PROVE  Under(tag, u)
<1>1. Len(tag) \in Nat /\ Len(t) \in Nat /\ Len(u) \in Nat
  BY DEF Under, Tags
<1> QED
  BY <1>1 DEF Under

(* What goes on differently differs.                                       *)
LEMMA UnderApart ==
    ASSUME NEW tag \in Tags, NEW t, NEW u,
           Under(Append(tag, 1), t), Under(Append(tag, 2), u)
    PROVE  t # u
<1>1. Len(tag) + 1 \in 1 .. (Len(tag) + 1)
  BY DEF Tags
<1>2. t[Len(tag) + 1] = 1 /\ u[Len(tag) + 1] = 2
  BY <1>1, AppendOf DEF Under
<1> QED
  BY <1>2

LEMMA UnderAppend ==
    ASSUME NEW tag \in Tags, NEW digit \in Nat, NEW t, Under(Append(tag, digit), t)
    PROVE  Under(tag, t) /\ t # tag
<1>1. Len(tag) \in Nat /\ Len(t) \in Nat
  BY DEF Under, Tags
<1>2. Append(tag, digit) \in Tags /\ Len(Append(tag, digit)) = Len(tag) + 1
      /\ \A i \in 1 .. Len(tag) : Append(tag, digit)[i] = tag[i]
  BY AppendOf
<1>3. Len(tag) + 1 <= Len(t)
  BY <1>2 DEF Under
<1>4. \A i \in 1 .. Len(tag) : t[i] = tag[i]
  BY <1>1, <1>2 DEF Under
<1> QED
  BY <1>1, <1>3, <1>4 DEF Under

LEMMA TagInCopyOf ==
    ASSUME NEW k \in Nat \ {0}, NEW tag \in Tags, NEW d \in 1 .. k
    PROVE  /\ Under(tag, TagInCopy(k, tag, d))
           /\ TagInCopy(k, tag, k) = tag
           /\ k = 2 => TagInCopy(k, tag, 1) = Append(tag, 1)
           /\ k > 2 /\ d < k => TagInCopy(k, tag, d) = TagInCopy(k - 1, Append(tag, 2), d)
<1>1. tag \in Tags /\ Append(tag, 2) \in Tags /\ Len(tag) \in Nat
  BY AppendOf DEF Tags
<1>2. Under(tag, TagInCopy(k, tag, d))
  <2>1. CASE d > 1
    <3>1. k - d \in Nat
      OBVIOUS
    <3> DEFINE u == Down(tag, k - d, 2)
    <3>2. 2 \in Nat
      OBVIOUS
    <3>3. IsDown(u, tag, k - d, 2)
      BY <3>1, <3>2, DownOf
    <3>4. TagInCopy(k, tag, d) = u
      BY <2>1 DEF TagInCopy
    <3> HIDE DEF u
    <3> QED
      BY <1>1, <3>1, <3>3, <3>4 DEF Under, IsDown
  <2>2. CASE d = 1 /\ k > 1
    <3>1. k - 2 \in Nat /\ 2 \in Nat
      BY <2>2
    <3> DEFINE u == Down(tag, k - 2, 2)
    <3>7. IsDown(u, tag, k - 2, 2)
      BY <3>1, DownOf
    <3> HIDE DEF u
    <3>2. u \in Tags /\ Len(u) = Len(tag) + (k - 2) /\ \A i \in 1 .. Len(tag) : u[i] = tag[i]
      BY <3>7 DEF IsDown
    <3>3. Append(u, 1) \in Tags /\ Len(Append(u, 1)) = Len(u) + 1
          /\ \A i \in 1 .. Len(u) : Append(u, 1)[i] = u[i]
      BY <3>2, AppendOf
    <3>4. \A i \in 1 .. Len(tag) : i \in 1 .. Len(u)
      BY <1>1, <3>1, <3>2
    <3>5. Len(tag) <= Len(u) + 1
      BY <1>1, <3>1, <3>2
    <3>6. TagInCopy(k, tag, d) = Append(u, 1)
      BY <2>2 DEF TagInCopy, u
    <3> QED
      BY <3>2, <3>3, <3>4, <3>5, <3>6 DEF Under
  <2>3. CASE k = 1
    BY <1>1, <2>3 DEF TagInCopy, Under
  <2> QED
    BY <2>1, <2>2, <2>3
<1>3. TagInCopy(k, tag, k) = tag
  BY <1>1, DownStepByStep DEF TagInCopy
<1>4. k = 2 => TagInCopy(k, tag, 1) = Append(tag, 1)
  BY <1>1, DownStepByStep DEF TagInCopy
<1>5. ASSUME k > 2, d < k
      PROVE  TagInCopy(k, tag, d) = TagInCopy(k - 1, Append(tag, 2), d)
  <2>1. CASE d > 1
    <3>1. (k - 1) - d \in Nat /\ ((k - 1) - d) + 1 = k - d
      BY <1>5
    <3> QED
      BY <1>1, <2>1, <3>1, DownStepByStep DEF TagInCopy
  <2>2. CASE d = 1
    <3>1. (k - 1) - 2 \in Nat /\ ((k - 1) - 2) + 1 = k - 2
      BY <1>5
    <3>2. /\ TagInCopy(k, tag, d) = Append(Down(tag, k - 2, 2), 1)
          /\ TagInCopy(k - 1, Append(tag, 2), d) = Append(Down(Append(tag, 2), (k - 1) - 2, 2), 1)
      BY <1>5, <2>2 DEF TagInCopy
    <3>3. 2 \in Nat
      OBVIOUS
    <3>4. Down(tag, ((k - 1) - 2) + 1, 2) = Down(Append(tag, 2), (k - 1) - 2, 2)
      BY <3>1, <3>3, DownStepByStep, Zenon
    <3> QED
      BY <3>1, <3>2, <3>4
  <2> QED
    BY <2>1, <2>2
<1> QED
  BY <1>2, <1>3, <1>4, <1>5

-----------------------------------------------------------------------------
(***************************************************************************)
(* What copying drops.                                                     *)
(***************************************************************************)
(* Finalizers of parts copied under a tag.                                 *)
FinalizedUnder(tag, s) ==
    /\ InOrder(s)
    /\ \A i \in DOMAIN s : /\ Under(tag, s[i].part.copy)
                           /\ s[i].parent = NoPart \/ Under(tag, s[i].parent.copy)

KeptParts(k, tag) == [d \in 1 .. k |-> Name(TagInCopy(k, tag, d), d)]

(* What is dropped with a copy of k parts: nothing the copy keeps.         *)
DropsRightly(k, tag, s) ==
    /\ FinalizedUnder(tag, s)
    /\ \A i \in DOMAIN s : \A d \in 1 .. k : s[i].part # KeptParts(k, tag)[d]

LEMMA KeptPartsOf ==
    ASSUME NEW k \in Nat, NEW tag \in Tags
    PROVE  /\ KeptParts(k, tag) \in [1 .. k -> PartNames]
           /\ \A d, e \in 1 .. k : d # e => KeptParts(k, tag)[d] # KeptParts(k, tag)[e]
           /\ \A d \in 1 .. k : Under(tag, KeptParts(k, tag)[d].copy)
           /\ FinalizedUnder(tag, Finalizing(KeptParts(k, tag)))
<1> DEFINE parts == KeptParts(k, tag)
           s == Finalizing(parts)
<1>1. ASSUME NEW d \in 1 .. k
      PROVE  parts[d] \in PartNames /\ parts[d].of = d /\ Under(tag, parts[d].copy)
  <2>1. k \in Nat \ {0} /\ d \in Nat \ {0}
    OBVIOUS
  <2>2. Under(tag, TagInCopy(k, tag, d))
    BY <2>1, TagInCopyOf
  <2> QED
    BY <2>1, <2>2 DEF KeptParts, PartNames, Name, Under
<1>2. parts \in [1 .. k -> PartNames]
  <2>1. parts = [d \in 1 .. k |-> parts[d]]
    BY DEF KeptParts
  <2> HIDE DEF parts
  <2> QED
    BY <1>1, <2>1
<1> HIDE DEF parts
<1>3. \A d, e \in 1 .. k : d # e => parts[d] # parts[e]
  BY <1>1
<1>4. /\ InOrder(s)
      /\ \A i \in DOMAIN s : /\ \E d \in 1 .. k : s[i].part = parts[d]
                             /\ s[i].parent = NoPart \/ \E d \in 1 .. k : s[i].parent = parts[d]
  BY <1>2, <1>3, FinalizingInOrder
<1> HIDE DEF s
<1>5. FinalizedUnder(tag, s)
  BY <1>1, <1>4 DEF FinalizedUnder
<1> QED
  BY <1>1, <1>2, <1>3, <1>5 DEF parts, s

LEMMA PartsAreNamed ==
    ASSUME NEW s, InOrder(s)
    PROVE  /\ s \in Seq(FinalizedParts)
           /\ \A i \in DOMAIN s : s[i].part \in PartNames /\ s[i].part # NoPart
<1>1. s \in Seq(FinalizedParts)
  BY DEF InOrder
<1>2. \A i \in DOMAIN s : s[i] \in FinalizedParts
  BY <1>1
<1> QED
  BY <1>1, <1>2, NoPartIsNoName DEF FinalizedParts

LEMMA FinalizedApart ==
    ASSUME NEW tag \in Tags, NEW s, NEW u,
           FinalizedUnder(Append(tag, 1), s), FinalizedUnder(Append(tag, 2), u)
    PROVE  /\ InOrder(s \o u)
           /\ \A i \in DOMAIN s, j \in DOMAIN u : /\ s[i].part # u[j].part
                                                  /\ s[i].part # u[j].parent
                                                  /\ u[j].part # s[i].parent
<1>1. /\ s \in Seq(FinalizedParts) /\ u \in Seq(FinalizedParts)
      /\ \A i \in DOMAIN s : s[i].part # NoPart
      /\ \A i \in DOMAIN u : u[i].part # NoPart
  BY PartsAreNamed DEF FinalizedUnder
<1>2. ASSUME NEW i \in DOMAIN s, NEW j \in DOMAIN u
      PROVE  /\ s[i].part # u[j].part
             /\ s[i].part # u[j].parent
             /\ u[j].part # s[i].parent
  <2>1. s[i].part.copy # u[j].part.copy
    BY UnderApart DEF FinalizedUnder
  <2>2. u[j].parent # NoPart => s[i].part.copy # u[j].parent.copy
    BY UnderApart DEF FinalizedUnder
  <2>3. s[i].parent # NoPart => s[i].parent.copy # u[j].part.copy
    BY UnderApart DEF FinalizedUnder
  <2> QED
    BY <1>1, <2>1, <2>2, <2>3
<1>3. InOrder(s \o u)
  BY <1>2, InOrderConcat DEF FinalizedUnder
<1> QED
  BY <1>2, <1>3

LEMMA FinalizedUnderMore ==
    ASSUME NEW tag \in Tags, NEW digit \in Nat, NEW s, FinalizedUnder(Append(tag, digit), s)
    PROVE  FinalizedUnder(tag, s) /\ \A i \in DOMAIN s : s[i].part.copy # tag
  BY UnderAppend DEF FinalizedUnder

(* One level of the recursion.                                             *)
LEMMA DropsOneMore ==
    ASSUME NEW k \in Nat, k >= 2, NEW tag \in Tags,
           NEW s, DropsRightly(k, Append(tag, 1), s),
           NEW u, DropsRightly(k, Append(tag, 2), u)
    PROVE  DropsRightly(k + 1, tag, s \o u \o Finalizing(KeptParts(k, Append(tag, 1))))
<1> DEFINE first == Append(tag, 1)
           second == Append(tag, 2)
           f == Finalizing(KeptParts(k, first))
           su == s \o u
           w == su \o f
<1>1. first \in Tags /\ second \in Tags
  BY AppendOf
<1>2. FinalizedUnder(first, s) /\ FinalizedUnder(second, u)
  BY DEF DropsRightly
<1>3. FinalizedUnder(first, f)
  BY <1>1, KeptPartsOf
<1>4. \A i \in DOMAIN f : f[i].parent = NoPart \/ \E d \in 1 .. k : f[i].parent = KeptParts(k, first)[d]
  BY <1>1, KeptPartsOf, FinalizingInOrder
<1>5. \A i \in DOMAIN f : \E d \in 1 .. k : f[i].part = KeptParts(k, first)[d]
  BY <1>1, KeptPartsOf, FinalizingInOrder
<1> HIDE DEF f, first, second
<1>6. /\ InOrder(s) /\ InOrder(u) /\ InOrder(f) /\ InOrder(su)
      /\ \A i \in DOMAIN u, j \in DOMAIN f : u[i].part # f[j].part /\ u[i].part # f[j].parent
  <2>1. InOrder(s) /\ InOrder(u) /\ InOrder(f)
    BY <1>2, <1>3 DEF FinalizedUnder
  <2>2. InOrder(su)
    BY <1>2, FinalizedApart DEF first, second
  <2>3. \A i \in DOMAIN f, j \in DOMAIN u : f[i].part # u[j].part /\ u[j].part # f[i].parent
    <3>1. FinalizedUnder(Append(tag, 1), f) /\ FinalizedUnder(Append(tag, 2), u)
      BY <1>2, <1>3 DEF first, second
    <3> SUFFICES ASSUME NEW i \in DOMAIN f, NEW j \in DOMAIN u
                 PROVE  f[i].part # u[j].part /\ u[j].part # f[i].parent
      OBVIOUS
    <3> QED
      BY <3>1, FinalizedApart
  <2> QED
    BY <2>1, <2>2, <2>3
<1>7. ASSUME NEW i \in DOMAIN s, NEW j \in DOMAIN f
      PROVE  s[i].part # f[j].part /\ s[i].part # f[j].parent
  <2>1. s[i].part # NoPart
    BY <1>6, PartsAreNamed
  <2> QED
    BY <1>4, <1>5, <2>1 DEF DropsRightly, first
<1>8. s \in Seq(FinalizedParts) /\ u \in Seq(FinalizedParts) /\ f \in Seq(FinalizedParts)
  BY <1>6 DEF InOrder
<1>9. su \in Seq(FinalizedParts)
      /\ \A i \in DOMAIN su : \/ i \in DOMAIN s /\ su[i] = s[i]
                              \/ i - Len(s) \in DOMAIN u /\ su[i] = u[i - Len(s)]
  BY <1>8
<1> HIDE DEF su
<1>10. InOrder(w)
  <2>1. ASSUME NEW i \in DOMAIN su, NEW j \in DOMAIN f
        PROVE  su[i].part # f[j].part /\ su[i].part # f[j].parent
    BY <1>6, <1>7, <1>9
  <2> QED
    BY <1>6, <2>1, InOrderConcat
<1>11. \A i \in DOMAIN w : \/ i \in DOMAIN su /\ w[i] = su[i]
                           \/ i - Len(su) \in DOMAIN f /\ w[i] = f[i - Len(su)]
  BY <1>8, <1>9
<1> HIDE DEF w
<1>12. ASSUME NEW x, \/ \E i \in DOMAIN s : x = s[i]
                     \/ \E i \in DOMAIN u : x = u[i]
                     \/ \E i \in DOMAIN f : x = f[i]
       PROVE  /\ Under(tag, x.part.copy) /\ x.part.copy # tag
              /\ x.parent = NoPart \/ Under(tag, x.parent.copy)
              /\ \A d \in 1 .. k : x.part # KeptParts(k, second)[d]
  <2>1. CASE \E i \in DOMAIN s : x = s[i]
    <3>1. \A d \in 1 .. k : x.part # KeptParts(k, second)[d]
      <4>1. Under(first, x.part.copy)
        BY <1>2, <2>1 DEF FinalizedUnder
      <4>2. \A d \in 1 .. k : Under(second, KeptParts(k, second)[d].copy)
        BY <1>1, KeptPartsOf
      <4> QED
        BY <4>1, <4>2, UnderApart DEF first, second
    <3> QED
      BY <1>2, <2>1, <3>1, FinalizedUnderMore DEF FinalizedUnder, first
  <2>2. CASE \E i \in DOMAIN u : x = u[i]
    BY <1>2, <2>2, FinalizedUnderMore DEF FinalizedUnder, second, DropsRightly
  <2>3. CASE \E i \in DOMAIN f : x = f[i]
    <3>1. \A d \in 1 .. k : x.part # KeptParts(k, second)[d]
      <4>1. Under(first, x.part.copy)
        BY <1>3, <2>3 DEF FinalizedUnder
      <4>2. \A d \in 1 .. k : Under(second, KeptParts(k, second)[d].copy)
        BY <1>1, KeptPartsOf
      <4> QED
        BY <4>1, <4>2, UnderApart DEF first, second
    <3> QED
      BY <1>3, <2>3, <3>1, FinalizedUnderMore DEF FinalizedUnder, first
  <2> QED
    BY <1>12, <2>1, <2>2, <2>3
<1>13. \A i \in DOMAIN w : \/ \E j \in DOMAIN s : w[i] = s[j]
                           \/ \E j \in DOMAIN u : w[i] = u[j]
                           \/ \E j \in DOMAIN f : w[i] = f[j]
  BY <1>9, <1>11
<1>14. FinalizedUnder(tag, w)
  BY <1>10, <1>12, <1>13 DEF FinalizedUnder
<1>15. ASSUME NEW d \in 1 .. (k + 1), NEW i \in DOMAIN w
       PROVE  w[i].part # KeptParts(k + 1, tag)[d]
  <2>1. k + 1 \in Nat \ {0} /\ k + 1 > 2 /\ (k + 1) - 1 = k /\ k + 1 \in 1 .. (k + 1)
    OBVIOUS
  <2>2. CASE d = k + 1
    <3>1. KeptParts(k + 1, tag)[d].copy = tag
      BY <2>1, <2>2, TagInCopyOf DEF KeptParts, Name
    <3> QED
      BY <1>12, <1>13, <3>1
  <2>3. CASE d # k + 1
    <3>1. d \in 1 .. k /\ d < k + 1
      BY <2>3
    <3>2. TagInCopy(k + 1, tag, d) = TagInCopy((k + 1) - 1, second, d)
      BY <2>1, <3>1, TagInCopyOf DEF second
    <3>3. KeptParts(k + 1, tag)[d] = KeptParts(k, second)[d]
      BY <2>1, <3>1, <3>2 DEF KeptParts
    <3> QED
      BY <1>12, <1>13, <3>1, <3>3
  <2> QED
    BY <2>2, <2>3
<1> QED
  BY <1>14, <1>15 DEF DropsRightly, w, su, f, first

(* The recursion has a function.                                           *)
LEMMA DroppedCopiesOf ==
    ASSUME NEW k \in Nat, NEW tag \in Tags
    PROVE  DroppedCopies[k][tag] =
               IF k < 3 THEN <<>>
               ELSE DroppedCopies[k - 1][Append(tag, 1)] \o DroppedCopies[k - 1][Append(tag, 2)]
                    \o Finalizing(KeptParts(k - 1, Append(tag, 1)))
<1> DEFINE Lists == [Tags -> Seq(FinalizedParts)]
           OneLevel(n, lists) ==
               [t \in Tags |->
                   IF n < 3 THEN <<>>
                   ELSE lists[Append(t, 1)] \o lists[Append(t, 2)]
                        \o Finalizing(KeptParts(n - 1, Append(t, 1)))]
           S == Nat \X Lists
           c == <<0, [t \in Tags |-> <<>>]>>
           G == [x \in S |-> <<x[1] + 1, OneLevel(x[1] + 1, x[2])>>]
<1>1. ASSUME NEW n \in Nat, NEW lists \in Lists
      PROVE  OneLevel(n, lists) \in Lists
  <2>1. ASSUME NEW t \in Tags
        PROVE  /\ Append(t, 1) \in Tags /\ Append(t, 2) \in Tags
               /\ n >= 3 => Finalizing(KeptParts(n - 1, Append(t, 1))) \in Seq(FinalizedParts)
    <3>1. Append(t, 1) \in Tags /\ Append(t, 2) \in Tags
      BY AppendOf
    <3>2. ASSUME n >= 3
          PROVE  Finalizing(KeptParts(n - 1, Append(t, 1))) \in Seq(FinalizedParts)
      <4>1. n - 1 \in Nat
        BY <3>2
      <4> QED
        BY <3>1, <4>1, KeptPartsOf DEF FinalizedUnder, InOrder
    <3> QED
      BY <3>1, <3>2
  <2>2. ASSUME NEW t \in Tags
        PROVE  OneLevel(n, lists)[t] \in Seq(FinalizedParts)
    <3>1. CASE n < 3
      BY <3>1
    <3>2. CASE n >= 3
      <4>1. /\ lists[Append(t, 1)] \in Seq(FinalizedParts)
            /\ lists[Append(t, 2)] \in Seq(FinalizedParts)
            /\ Finalizing(KeptParts(n - 1, Append(t, 1))) \in Seq(FinalizedParts)
        BY <2>1, <3>2
      <4> QED
        BY <3>2, <4>1
    <3> QED
      BY <3>1, <3>2
  <2> QED
    BY <2>2
<1>2. c \in S
  <2>1. <<>> \in Seq(FinalizedParts)
    OBVIOUS
  <2>2. [t \in Tags |-> <<>>] \in Lists
    BY <2>1
  <2> HIDE DEF Lists
  <2> QED
    BY <2>2
<1>3. G \in [S -> S]
  <2> HIDE DEF OneLevel, Lists
  <2>1. \A x \in S : x[1] + 1 \in Nat /\ x[2] \in Lists
    OBVIOUS
  <2> QED
    BY <1>1, <2>1
<1> HIDE DEF S, c, G
<1>4. PICK f \in [Nat -> S] : f[0] = c /\ \A n \in Nat : f[n + 1] = G[f[n]]
  BY <1>2, <1>3, IterationIsDefined
<1> DEFINE d == [n \in Nat |-> f[n][2]]
<1> HIDE DEF OneLevel, Lists
<1>5. f[0][1] = 0 /\ f[0][2] = [t \in Tags |-> <<>>]
  BY <1>4 DEF c
<1>6. ASSUME NEW n \in Nat
      PROVE  f[n + 1] = <<f[n][1] + 1, OneLevel(f[n][1] + 1, f[n][2])>>
  BY <1>4 DEF G
<1>7. \A n \in Nat : f[n][1] = n
  <2> DEFINE A == {n \in Nat : f[n][1] = n}
  <2>1. 0 \in A
    BY <1>5
  <2>2. ASSUME NEW n \in Nat, n \in A
        PROVE  n + 1 \in A
    BY <1>6, <2>2
  <2> HIDE DEF A
  <2>3. Nat \subseteq A
    BY <2>1, <2>2, NatSetInduction
  <2> QED
    BY <2>3 DEF A
<1>8. ASSUME NEW n \in Nat
      PROVE  d[n] = OneLevel(n, d[n - 1])
  <2>1. CASE n = 0
    BY <1>5, <2>1 DEF OneLevel
  <2>2. CASE n # 0
    <3>1. n - 1 \in Nat /\ (n - 1) + 1 = n
      BY <2>2
    <3>2. f[n] = <<n, OneLevel(n, f[n - 1][2])>>
      BY <1>6, <1>7, <3>1
    <3> QED
      BY <3>1, <3>2
  <2> QED
    BY <2>1, <2>2
<1>9. d = [n \in Nat |-> OneLevel(n, d[n - 1])]
  BY <1>8
<1> HIDE DEF d
<1> DEFINE IsDropped(g) ==
        g = [n \in Nat |->
               [t \in Seq(Nat) |->
                  LET first == Append(t, 1)
                  IN IF n < 3 THEN <<>>
                     ELSE g[n - 1][first] \o g[n - 1][Append(t, 2)]
                          \o Finalizing([e \in 1 .. (n - 1) |-> Name(TagInCopy(n - 1, first, e), e)])]]
<1>10. IsDropped(d)
  BY <1>9 DEF OneLevel, Tags, KeptParts
<1>11. DroppedCopies = CHOOSE g : IsDropped(g)
  BY DEF DroppedCopies
<1>12. IsDropped(DroppedCopies)
  <2> HIDE DEF IsDropped
  <2> QED
    BY <1>10, <1>11
<1>13. DroppedCopies[k] = [t \in Seq(Nat) |->
                  LET first == Append(t, 1)
                  IN IF k < 3 THEN <<>>
                     ELSE DroppedCopies[k - 1][first] \o DroppedCopies[k - 1][Append(t, 2)]
                          \o Finalizing([e \in 1 .. (k - 1) |-> Name(TagInCopy(k - 1, first, e), e)])]
  BY <1>12
<1> QED
  BY <1>13 DEF Tags, KeptParts

(* No part is dropped twice or kept after it, at any depth.                *)
LEMMA CopyingDropsRightly ==
    \A k \in Nat : \A tag \in Tags : DropsRightly(k, tag, DroppedCopies[k][tag])
<1> DEFINE A == {k \in Nat : \A tag \in Tags : DropsRightly(k, tag, DroppedCopies[k][tag])}
<1>1. ASSUME NEW k \in Nat, k < 3
      PROVE  k \in A
  <2>1. \A tag \in Tags : DroppedCopies[k][tag] = <<>>
    BY <1>1, DroppedCopiesOf
  <2>2. \A tag \in Tags : DropsRightly(k, tag, <<>>)
    BY DEF DropsRightly, FinalizedUnder, InOrder
  <2> QED
    BY <2>1, <2>2
<1>2. ASSUME NEW k \in Nat, k \in A
      PROVE  k + 1 \in A
  <2>1. CASE k + 1 < 3
    BY <1>1, <2>1
  <2>2. CASE k >= 2
    <3>1. k + 1 \in Nat /\ ~(k + 1 < 3) /\ (k + 1) - 1 = k
      BY <2>2
    <3>2. ASSUME NEW tag \in Tags
          PROVE  DropsRightly(k + 1, tag, DroppedCopies[k + 1][tag])
      <4>1. Append(tag, 1) \in Tags /\ Append(tag, 2) \in Tags
        BY AppendOf
      <4>2. /\ DropsRightly(k, Append(tag, 1), DroppedCopies[k][Append(tag, 1)])
            /\ DropsRightly(k, Append(tag, 2), DroppedCopies[k][Append(tag, 2)])
        BY <1>2, <4>1
      <4>3. DroppedCopies[k + 1][tag] =
                DroppedCopies[k][Append(tag, 1)] \o DroppedCopies[k][Append(tag, 2)]
                \o Finalizing(KeptParts(k, Append(tag, 1)))
        BY <3>1, DroppedCopiesOf
      <4> QED
        BY <2>2, <4>2, <4>3, DropsOneMore
    <3> QED
      BY <3>1, <3>2
  <2> QED
    BY <2>1, <2>2
<1>3. 0 \in A
  BY <1>1
<1> HIDE DEF A
<1>4. Nat \subseteq A
  BY <1>2, <1>3, NatSetInduction
<1> QED
  BY <1>4 DEF A

-----------------------------------------------------------------------------
(***************************************************************************)
(* Objects.                                                                *)
(***************************************************************************)
SlotNames ==
    [copy : Tags,
     of : UNION {{<<LastDeclaring(d, m), m>> : m \in MembersOf(d)} : d \in 1 .. Classes}]
ObjectParts ==
    [part : PartNames, slot : UNION {[MembersOf(d) -> SlotNames] : d \in 1 .. Classes}]

SharesInherited(o) ==
    \A d \in 2 .. Len(o) :
        d = 2 \/ ~IsCopy(o) =>
            \A m \in MembersOf(d - 1) \ DeclaredIn[d] : o[d].slot[m] = o[d - 1].slot[m]

IsPart(p, d, n) ==
    /\ p \in ObjectParts
    /\ p.part.of = d /\ Under(<<n>>, p.part.copy)
    /\ p.slot \in [MembersOf(d) -> SlotNames]
    /\ \A m \in MembersOf(d) : Under(<<n>>, p.slot[m].copy)

(* o is the object with number n.                                          *)
IsObject(o, n) ==
    /\ o \in Seq(ObjectParts) /\ Len(o) \in 1 .. Classes
    /\ \A d \in 1 .. Len(o) : IsPart(o[d], d, n)
    /\ SharesInherited(o)

LEMMA MinOfNats ==
    ASSUME NEW S \in SUBSET Nat, S # {}
    PROVE  Min(S) \in S /\ \A y \in S : Min(S) <= y
<1> DEFINE A == {n \in Nat : S \cap 0 .. n # {} => \E x \in S : \A y \in S : x <= y}
<1>1. 0 \in A
  OBVIOUS
<1>2. ASSUME NEW n \in Nat, n \in A
      PROVE  n + 1 \in A
  <2>1. CASE S \cap 0 .. n # {}
    BY <1>2, <2>1
  <2>2. CASE S \cap 0 .. n = {}
    <3>1. \A y \in S : n + 1 <= y
      BY <2>2
    <3> QED
      BY <3>1
  <2> QED
    BY <2>1, <2>2
<1>3. PICK x \in S : x \in Nat
  OBVIOUS
<1>4. x \in A /\ x \in 0 .. x
  <2> HIDE DEF A
  <2> QED
    BY <1>1, <1>2, <1>3, NatSetInduction
<1>5. \E z \in S : \A y \in S : z <= y
  BY <1>4
<1> QED
  BY <1>5 DEF Min

LEMMA MembersAreInherited ==
    ASSUME NEW d \in 2 .. Classes
    PROVE  /\ MembersOf(d - 1) \subseteq MembersOf(d)
           /\ \A m \in MembersOf(d - 1) \ DeclaredIn[d] : LastDeclaring(d, m) = LastDeclaring(d - 1, m)
<1>1. Classes \in Nat
  BY StructsAssumption
<1>2. \A e \in 1 .. (d - 1) : e \in 1 .. d
  BY <1>1
<1>3. MembersOf(d - 1) \subseteq MembersOf(d)
  BY <1>2 DEF MembersOf
<1>4. ASSUME NEW m \in MembersOf(d - 1) \ DeclaredIn[d]
      PROVE  {e \in 1 .. d : m \in DeclaredIn[e]} = {e \in 1 .. (d - 1) : m \in DeclaredIn[e]}
  BY <1>1, <1>4
<1> QED
  BY <1>3, <1>4 DEF LastDeclaring

LEMMA OneNumber ==
    ASSUME NEW n \in Nat
    PROVE  <<n>> \in Tags /\ Under(<<n>>, <<n>>)
  BY DEF Tags, Under

LEMMA BuildIsObject ==
    ASSUME NEW c \in 1 .. Classes, NEW n \in Nat
    PROVE  IsObject(Build(c, n), n)
<1> DEFINE o == Build(c, n)
           at(d) == [part |-> Name(<<n>>, d), slot |-> SlotInBuilt(d, n)]
<1>1. Classes \in Nat /\ c \in Nat \ {0}
  BY StructsAssumption
<1>2. ASSUME NEW d \in 1 .. c
      PROVE  IsPart(at(d), d, n)
  <2>1. d \in 1 .. Classes /\ d \in Nat \ {0}
    BY <1>1
  <2>2. <<n>> \in Tags /\ Under(<<n>>, <<n>>)
    BY OneNumber
  <2>3. Name(<<n>>, d) \in PartNames
    BY <2>1, <2>2 DEF Name, PartNames
  <2> DEFINE slot == SlotInBuilt(d, n)
  <2>4. ASSUME NEW m \in MembersOf(d)
        PROVE  slot[m] \in SlotNames /\ slot[m].copy = <<n>>
    <3>1. <<LastDeclaring(d, m), m>> \in
              UNION {{<<LastDeclaring(e, x), x>> : x \in MembersOf(e)} : e \in 1 .. Classes}
      BY <2>1, <2>4
    <3>2. slot[m] = [copy |-> <<n>>, of |-> <<LastDeclaring(d, m), m>>]
      BY <2>4 DEF SlotInBuilt, Name
    <3> QED
      BY <2>2, <3>1, <3>2 DEF SlotNames
  <2>5. slot = [m \in MembersOf(d) |-> slot[m]]
    BY DEF SlotInBuilt
  <2> HIDE DEF slot
  <2>6. slot \in [MembersOf(d) -> SlotNames]
    BY <2>4, <2>5
  <2>7. slot \in UNION {[MembersOf(e) -> SlotNames] : e \in 1 .. Classes}
    BY <2>1, <2>6
  <2>8. at(d) = [part |-> Name(<<n>>, d), slot |-> slot]
    BY DEF slot
  <2> HIDE DEF at
  <2> QED
    BY <2>2, <2>3, <2>4, <2>6, <2>7, <2>8 DEF IsPart, ObjectParts, Name
<1>3. o = [d \in 1 .. c |-> at(d)]
  BY DEF Build
<1> HIDE DEF o, at
<1>4. \A d \in 1 .. c : at(d) \in ObjectParts
  BY <1>2 DEF IsPart
<1>5. o \in Seq(ObjectParts) /\ Len(o) = c /\ \A d \in 1 .. c : o[d] = at(d)
  BY <1>1, <1>3, <1>4
<1>6. ASSUME NEW d \in 2 .. Len(o), NEW m \in MembersOf(d - 1) \ DeclaredIn[d]
      PROVE  o[d].slot[m] = o[d - 1].slot[m]
  <2>1. d \in 2 .. Classes /\ d \in 1 .. c /\ d - 1 \in 1 .. c
    BY <1>1, <1>5
  <2>2. m \in MembersOf(d) /\ LastDeclaring(d, m) = LastDeclaring(d - 1, m)
    BY <2>1, MembersAreInherited
  <2>3. o[d].slot = SlotInBuilt(d, n) /\ o[d - 1].slot = SlotInBuilt(d - 1, n)
    BY <1>5, <2>1 DEF at
  <2> QED
    BY <2>2, <2>3 DEF SlotInBuilt
<1>7. SharesInherited(o)
  BY <1>6 DEF SharesInherited
<1>8. Len(o) \in 1 .. Classes
  BY <1>5
<1> QED
  BY <1>2, <1>5, <1>7, <1>8 DEF IsObject, o

(* The part with which a member is shared.                                 *)
LEMMA SharedFromOf ==
    ASSUME NEW o, NEW n, IsObject(o, n), NEW d \in 1 .. Len(o), NEW m \in MembersOf(d)
    PROVE  /\ SharedFrom(o, d, m) \in 1 .. d
           /\ d = 2 /\ m \in MembersOf(1) /\ o[2].slot[m] = o[1].slot[m] => SharedFrom(o, d, m) = 1
<1>1. Classes \in Nat /\ Len(o) \in Nat
  BY StructsAssumption DEF IsObject
<1>2. \A f \in 1 .. Len(o) : DOMAIN o[f].slot = MembersOf(f)
  BY DEF IsObject, IsPart
<1> DEFINE S == {e \in 1 .. d : \A f \in e .. d : m \in DOMAIN o[f].slot /\ o[f].slot[m] = o[d].slot[m]}
<1>3. d \in S
  BY <1>1, <1>2
<1>4. S \in SUBSET Nat
  OBVIOUS
<1>5. SharedFrom(o, d, m) = Min(S)
  BY DEF SharedFrom
<1>6. SharedFrom(o, d, m) \in 1 .. d
  <2>1. S \subseteq 1 .. d
    OBVIOUS
  <2> HIDE DEF S
  <2> QED
    BY <1>3, <1>4, <1>5, <2>1, MinOfNats
<1>7. ASSUME d = 2, m \in MembersOf(1), o[2].slot[m] = o[1].slot[m]
      PROVE  Min(S) = 1
  <2>1. 1 \in S
    <3>1. \A f \in 1 .. d : f = 1 \/ f = 2
      BY <1>7
    <3>2. 1 \in 1 .. Len(o) /\ 2 \in 1 .. Len(o)
      BY <1>1, <1>7
    <3> QED
      BY <1>2, <1>7, <3>1, <3>2
  <2>2. S \subseteq 1 .. d
    OBVIOUS
  <2> HIDE DEF S
  <2>3. \A x \in S : x <= 1 => x = 1
    BY <2>2
  <2>4. Min(S) \in S /\ \A y \in S : Min(S) <= y
    <3>1. S \in SUBSET Nat /\ S # {}
      BY <2>1, <2>2
    <3> QED
      BY <3>1, MinOfNats
  <2> QED
    BY <2>1, <2>3, <2>4
<1> QED
  BY <1>5, <1>6, <1>7

LEMMA CopyIsObject ==
    ASSUME NEW o, NEW n, IsObject(o, n), NEW k \in Nat
    PROVE  /\ IsObject(CopyStructure(o, <<k>>), k)
           /\ PartsOf(CopyStructure(o, <<k>>)) = KeptParts(Len(o), <<k>>)
<1> DEFINE tag == <<k>>
           c == CopyStructure(o, tag)
           t(d) == TagInCopy(Len(o), tag, d)
           at(d) == [part |-> Name(t(d), d), slot |-> SlotInCopy(o, d, t(d))]
<1>1. /\ Classes \in Nat /\ Len(o) \in Nat \ {0} /\ Len(o) \in 1 .. Classes
      /\ DOMAIN o = 1 .. Len(o)
  BY StructsAssumption DEF IsObject
<1>2. tag \in Tags
  BY OneNumber
<1> HIDE DEF tag
<1>3. \A d \in 1 .. Len(o) : t(d) \in Tags /\ Under(tag, t(d))
  BY <1>1, <1>2, TagInCopyOf DEF Under
<1>4. ASSUME NEW d \in 1 .. Len(o)
      PROVE  IsPart(at(d), d, k)
  <2>1. /\ d \in 1 .. Classes /\ d \in Nat \ {0}
        /\ o[d].slot \in [MembersOf(d) -> SlotNames]
    BY <1>1 DEF IsObject, IsPart
  <2>2. Name(t(d), d) \in PartNames
    BY <1>3, <2>1 DEF Name, PartNames
  <2> DEFINE slot == SlotInCopy(o, d, t(d))
             down(m) == Down(t(d), d - SharedFrom(o, d, m), 1)
  <2>3. slot = [m \in MembersOf(d) |-> Name(down(m), o[d].slot[m].of)]
    BY <2>1 DEF SlotInCopy
  <2>4. ASSUME NEW m \in MembersOf(d)
        PROVE  slot[m] \in SlotNames /\ Under(tag, slot[m].copy)
    <3>1. SharedFrom(o, d, m) \in 1 .. d
      BY SharedFromOf
    <3>2. d - SharedFrom(o, d, m) \in Nat /\ 1 \in Nat
      BY <2>1, <3>1
    <3>3. IsDown(down(m), t(d), d - SharedFrom(o, d, m), 1)
      BY <1>3, <3>2, DownOf
    <3> HIDE DEF down
    <3>4. Under(t(d), down(m))
      <4>1. Len(t(d)) \in Nat
        BY <1>3 DEF Tags
      <4> QED
        BY <3>2, <3>3, <4>1 DEF IsDown, Under
    <3>5. Under(tag, down(m)) /\ down(m) \in Tags
      BY <1>2, <1>3, <3>4, UnderIsTransitive DEF Under
    <3>6. slot[m] = [copy |-> down(m), of |-> o[d].slot[m].of]
      BY <2>3, <2>4 DEF Name
    <3>7. o[d].slot[m] \in SlotNames
      BY <2>1, <2>4
    <3> QED
      BY <3>5, <3>6, <3>7 DEF SlotNames
  <2>5. slot = [m \in MembersOf(d) |-> slot[m]]
    BY <2>3
  <2> HIDE DEF slot
  <2>6. slot \in [MembersOf(d) -> SlotNames]
    BY <2>4, <2>5
  <2>7. slot \in UNION {[MembersOf(e) -> SlotNames] : e \in 1 .. Classes}
    BY <2>1, <2>6
  <2>8. at(d) = [part |-> Name(t(d), d), slot |-> slot]
    BY DEF slot
  <2> HIDE DEF at, t
  <2> QED
    BY <1>3, <2>2, <2>4, <2>6, <2>7, <2>8 DEF IsPart, ObjectParts, Name, tag
<1>5. c = [d \in 1 .. Len(o) |-> at(d)]
  BY <1>1 DEF CopyStructure
<1> HIDE DEF c, at
<1>6. \A d \in 1 .. Len(o) : at(d) \in ObjectParts
  BY <1>4 DEF IsPart
<1>7. /\ c \in Seq(ObjectParts) /\ Len(c) = Len(o) /\ DOMAIN c = 1 .. Len(o)
      /\ \A d \in 1 .. Len(o) : c[d] = at(d)
  BY <1>1, <1>5, <1>6
<1>8. PartsOf(c) = KeptParts(Len(o), tag)
  BY <1>7 DEF PartsOf, KeptParts, at
<1>9. Len(o) > 2 => IsCopy(c)
  <2> SUFFICES ASSUME Len(o) > 2
               PROVE  c[1].part.copy # c[Len(c)].part.copy
    BY DEF IsCopy
  <2>1. 1 \in 1 .. Len(o) /\ Len(o) \in 1 .. Len(o) /\ ~(1 > 1) /\ Len(o) > 1 /\ Len(o) - 2 \in Nat /\ 2 \in Nat
    BY <1>1
  <2>2. c[1].part.copy = t(1) /\ c[Len(c)].part.copy = t(Len(o))
    BY <1>7, <2>1 DEF at, Name
  <2>3. t(Len(o)) = tag
    BY <1>1, <1>2, <2>1, TagInCopyOf
  <2> DEFINE u == Down(tag, Len(o) - 2, 2)
  <2>4. t(1) = Append(u, 1)
    BY <2>1 DEF TagInCopy
  <2>5. IsDown(u, tag, Len(o) - 2, 2)
    BY <1>2, <2>1, DownOf
  <2> HIDE DEF u, t
  <2>6. u \in Tags /\ Len(u) = Len(tag) + (Len(o) - 2) /\ Len(tag) \in Nat
    BY <1>2, <2>5 DEF IsDown, Tags
  <2>7. Len(Append(u, 1)) = Len(u) + 1
    BY <2>6 DEF Tags
  <2> QED
    BY <2>1, <2>2, <2>3, <2>4, <2>6, <2>7
<1>10. ASSUME Len(o) >= 2, NEW m \in MembersOf(1) \ DeclaredIn[2]
       PROVE  c[2].slot[m] = c[1].slot[m]
  <2>1. /\ 1 \in 1 .. Len(o) /\ 2 \in 1 .. Len(o) /\ 2 \in 2 .. Len(o) /\ 2 \in 2 .. Classes
        /\ 2 - 1 = 1 /\ 1 - 1 = 0 /\ Len(o) - 2 \in Nat
    BY <1>1, <1>10
  <2>2. m \in MembersOf(2) /\ m \in MembersOf(1)
    BY <1>10, <2>1, MembersAreInherited
  <2>3. o[2].slot[m] = o[1].slot[m]
    BY <1>10, <2>1 DEF IsObject, SharesInherited
  <2>4. SharedFrom(o, 2, m) = 1 /\ SharedFrom(o, 1, m) = 1
    <3>1. SharedFrom(o, 1, m) \in 1 .. 1
      BY <2>1, <2>2, SharedFromOf
    <3>2. SharedFrom(o, 2, m) = 1
      BY <2>1, <2>2, <2>3, SharedFromOf
    <3> QED
      BY <3>1, <3>2
  <2>5. DOMAIN o[1].slot = MembersOf(1) /\ DOMAIN o[2].slot = MembersOf(2)
    BY <2>1 DEF IsObject, IsPart
  <2>6. /\ c[2].slot[m] = Name(Down(t(2), 1, 1), o[2].slot[m].of)
        /\ c[1].slot[m] = Name(Down(t(1), 0, 1), o[1].slot[m].of)
    BY <1>7, <2>1, <2>2, <2>4, <2>5 DEF at, SlotInCopy
  <2>7. t(1) = Append(t(2), 1)
    <3>1. 2 > 1 /\ ~(1 > 1) /\ Len(o) > 1
      BY <1>10, <1>1
    <3> QED
      BY <3>1 DEF TagInCopy
  <2>8. Down(t(1), 0, 1) = t(1) /\ Down(t(2), 0 + 1, 1) = Down(Append(t(2), 1), 0, 1)
    BY <1>3, <2>1, DownStepByStep
  <2> HIDE DEF t
  <2>9. 0 + 1 = 1
    OBVIOUS
  <2>10. Down(t(2), 1, 1) = Down(t(1), 0, 1)
    BY <2>7, <2>8, <2>9, Zenon
  <2> QED
    BY <2>3, <2>6, <2>10, Zenon
<1>11. SharesInherited(c)
  <2>1. SUFFICES ASSUME NEW d \in 2 .. Len(c), d = 2 \/ ~IsCopy(c),
                        NEW m \in MembersOf(d - 1) \ DeclaredIn[d]
                 PROVE  c[d].slot[m] = c[d - 1].slot[m]
    BY DEF SharesInherited
  <2>2. d = 2 /\ Len(o) >= 2
    BY <1>1, <1>7, <1>9, <2>1
  <2>3. d - 1 = 1
    BY <2>2
  <2> QED
    BY <1>10, <2>1, <2>2, <2>3
<1>12. IsObject(c, k)
  BY <1>1, <1>4, <1>7, <1>11 DEF IsObject
<1> QED
  BY <1>8, <1>12 DEF c, tag

-----------------------------------------------------------------------------
(***************************************************************************)
(* The invariant.                                                          *)
(***************************************************************************)
NumberIn(name) == name.copy[1]
NumberOf(o) == NumberIn(o[1].part)

ObjectsAreNumbered ==
    \A h \in Owners :
        held[h] # NoObject => /\ NumberOf(held[h]) \in 1 .. made
                              /\ IsObject(held[h], NumberOf(held[h]))
NumbersAreApart ==
    \A g, h \in Owners :
        g # h /\ held[g] # NoObject /\ held[h] # NoObject => NumberOf(held[g]) # NumberOf(held[h])
FinalizedWereMade ==
    /\ InOrder(finalized)
    /\ \A i \in DOMAIN finalized : NumberIn(finalized[i].part) \in 1 .. made
AliveIsNotFinalized ==
    \A h \in Owners : \A d \in 1 .. Len(held[h]) :
        \A i \in DOMAIN finalized : finalized[i].part # held[h][d].part

(* Objects have the numbers up to `made`, each its own; finalized parts    *)
(* have such numbers too, and are not parts of an object that is alive.    *)
StructsIInv ==
    /\ made \in Nat
    /\ held \in [Owners -> Seq(ObjectParts)]
    /\ ObjectsAreNumbered
    /\ NumbersAreApart
    /\ FinalizedWereMade
    /\ AliveIsNotFinalized

LEMMA NumberUnder ==
    ASSUME NEW n \in Nat, NEW t, Under(<<n>>, t)
    PROVE  t[1] = n
<1>1. 1 \in 1 .. Len(<<n>>) /\ <<n>>[1] = n
  OBVIOUS
<1> QED
  BY <1>1 DEF Under

LEMMA NumbersOfObject ==
    ASSUME NEW n \in Nat, NEW o, IsObject(o, n)
    PROVE  /\ o \in Seq(ObjectParts) /\ Len(o) \in Nat \ {0} /\ DOMAIN o = 1 .. Len(o)
           /\ NumberOf(o) = n
           /\ \A d \in 1 .. Len(o) : o[d].part \in PartNames /\ NumberIn(o[d].part) = n /\ o[d].part.of = d
           /\ \A x \in SlotsOf(o) : NumberIn(x) = n
<1>1. o \in Seq(ObjectParts) /\ Len(o) \in Nat \ {0} /\ DOMAIN o = 1 .. Len(o) /\ 1 \in 1 .. Len(o)
  BY StructsAssumption DEF IsObject
<1>2. ASSUME NEW d \in 1 .. Len(o)
      PROVE  /\ o[d].part \in PartNames /\ NumberIn(o[d].part) = n /\ o[d].part.of = d
             /\ DOMAIN o[d].slot = MembersOf(d)
             /\ \A m \in MembersOf(d) : NumberIn(o[d].slot[m]) = n
  <2>1. IsPart(o[d], d, n)
    BY DEF IsObject
  <2>2. o[d].part \in PartNames
    BY <2>1 DEF IsPart, ObjectParts
  <2>3. NumberIn(o[d].part) = n
    BY <2>1, NumberUnder DEF IsPart, NumberIn
  <2>4. \A m \in MembersOf(d) : NumberIn(o[d].slot[m]) = n
    BY <2>1, NumberUnder DEF IsPart, NumberIn
  <2> QED
    BY <2>1, <2>2, <2>3, <2>4 DEF IsPart
<1>3. \A x \in SlotsOf(o) : NumberIn(x) = n
  BY <1>1, <1>2 DEF SlotsOf
<1> QED
  BY <1>1, <1>2, <1>3 DEF NumberOf

(* The finalizers of an object that goes.                                  *)
LEMMA ObjectGoes ==
    ASSUME NEW o, o = NoObject \/ \E n \in Nat : IsObject(o, n)
    PROVE  /\ InOrder(Finalizing(PartsOf(o)))
           /\ \A i \in DOMAIN Finalizing(PartsOf(o)) :
                  /\ \E d \in 1 .. Len(o) : Finalizing(PartsOf(o))[i].part = o[d].part
                  /\ \/ Finalizing(PartsOf(o))[i].parent = NoPart
                     \/ \E d \in 1 .. Len(o) : Finalizing(PartsOf(o))[i].parent = o[d].part
<1> DEFINE parts == PartsOf(o)
<1>1. CASE o = NoObject
  <2>1. parts = <<>>
    BY <1>1 DEF PartsOf, NoObject
  <2>2. Finalizing(<<>>) = <<>>
    BY DEF Finalizing
  <2>3. InOrder(<<>>)
    BY DEF InOrder
  <2> QED
    BY <2>1, <2>2, <2>3
<1>2. CASE \E n \in Nat : IsObject(o, n)
  <2>1. /\ Len(o) \in Nat /\ DOMAIN o = 1 .. Len(o)
        /\ \A d \in 1 .. Len(o) : o[d].part \in PartNames /\ o[d].part.of = d
    BY <1>2, NumbersOfObject
  <2>2. parts = [d \in 1 .. Len(o) |-> o[d].part]
    BY <2>1 DEF PartsOf
  <2> HIDE DEF parts
  <2>3. parts \in [1 .. Len(o) -> PartNames] /\ \A d \in 1 .. Len(o) : parts[d] = o[d].part
    BY <2>1, <2>2
  <2>4. \A d, e \in 1 .. Len(o) : d # e => parts[d] # parts[e]
    BY <2>1, <2>3
  <2>5. /\ InOrder(Finalizing(parts))
        /\ \A i \in DOMAIN Finalizing(parts) :
               /\ \E d \in 1 .. Len(o) : Finalizing(parts)[i].part = parts[d]
               /\ \/ Finalizing(parts)[i].parent = NoPart
                  \/ \E d \in 1 .. Len(o) : Finalizing(parts)[i].parent = parts[d]
    BY <2>1, <2>3, <2>4, FinalizingInOrder
  <2> QED
    BY <2>3, <2>5 DEF parts
<1> QED
  BY <1>1, <1>2

(* The invariant says what the runs check.                                 *)
LEMMA StructsIInvSays == StructsIInv => StructsInv
<1> SUFFICES ASSUME StructsIInv
             PROVE  StructsInv
  OBVIOUS
<1>1. ASSUME NEW h \in Owners
      PROVE  \/ held[h] = NoObject /\ Len(held[h]) = 0 /\ DOMAIN held[h] = {} /\ SlotsOf(held[h]) = {}
             \/ /\ held[h] # NoObject /\ NumberOf(held[h]) \in Nat
                /\ IsObject(held[h], NumberOf(held[h]))
  <2>1. NoObject = <<>> /\ Len(<<>>) = 0 /\ DOMAIN <<>> = {} /\ SlotsOf(<<>>) = {}
    BY DEF NoObject, SlotsOf
  <2>2. CASE held[h] = NoObject
    BY <2>1, <2>2
  <2>3. CASE held[h] # NoObject
    <3>1. NumberOf(held[h]) \in 1 .. made /\ made \in Nat /\ IsObject(held[h], NumberOf(held[h]))
      BY <2>3 DEF StructsIInv, ObjectsAreNumbered
    <3> QED
      BY <2>3, <3>1
  <2> QED
    BY <2>2, <2>3
<1>2. InheritedMembersAreShared
  <2>1. ASSUME NEW h \in Owners
        PROVE  SharesInherited(held[h])
    BY <1>1, <2>1 DEF IsObject, SharesInherited
  <2> QED
    BY <2>1 DEF InheritedMembersAreShared, SharesInherited
<1>3. CopiesAreDetached
  <2>1. ASSUME NEW g \in Owners, NEW h \in Owners, g # h
        PROVE  SlotsOf(held[g]) \cap SlotsOf(held[h]) = {}
    <3>1. CASE held[g] = NoObject \/ held[h] = NoObject
      BY <1>1, <3>1
    <3>2. CASE held[g] # NoObject /\ held[h] # NoObject
      <4>1. /\ \A x \in SlotsOf(held[g]) : NumberIn(x) = NumberOf(held[g])
            /\ \A x \in SlotsOf(held[h]) : NumberIn(x) = NumberOf(held[h])
        BY <1>1, <3>2, NumbersOfObject
      <4>2. NumberOf(held[g]) # NumberOf(held[h])
        BY <2>1, <3>2 DEF StructsIInv, NumbersAreApart
      <4> QED
        BY <4>1, <4>2
    <3> QED
      BY <3>1, <3>2
  <2> QED
    BY <2>1 DEF CopiesAreDetached
<1>4. FinalizedOnce
  <2>1. \A i, j \in DOMAIN finalized : i # j => finalized[i].part # finalized[j].part
    BY DEF StructsIInv, FinalizedWereMade, InOrder
  <2>2. \A h \in Owners : DOMAIN held[h] = 1 .. Len(held[h])
    BY DEF StructsIInv
  <2>3. \A h \in Owners : \A d \in DOMAIN held[h] :
            \A i \in DOMAIN finalized : finalized[i].part # held[h][d].part
    BY <2>2 DEF StructsIInv, AliveIsNotFinalized
  <2> QED
    BY <2>1, <2>3 DEF FinalizedOnce
<1>5. FinalizersSeeTheirParents
  BY DEF StructsIInv, FinalizedWereMade, InOrder, FinalizersSeeTheirParents
<1> QED
  BY <1>2, <1>3, <1>4, <1>5 DEF StructsInv

LEMMA ConcatOf ==
    ASSUME NEW S, NEW s \in Seq(S), NEW u \in Seq(S)
    PROVE  /\ s \o u \in Seq(S)
           /\ \A i \in DOMAIN (s \o u) : \/ \E j \in DOMAIN s : (s \o u)[i] = s[j]
                                         \/ \E j \in DOMAIN u : (s \o u)[i] = u[j]
<1>1. /\ s \o u \in Seq(S) /\ DOMAIN s = 1 .. Len(s) /\ DOMAIN u = 1 .. Len(u)
      /\ DOMAIN (s \o u) = 1 .. (Len(s) + Len(u)) /\ Len(s) \in Nat /\ Len(u) \in Nat
  OBVIOUS
<1>2. ASSUME NEW i \in 1 .. (Len(s) + Len(u))
      PROVE  \/ \E j \in DOMAIN s : (s \o u)[i] = s[j]
             \/ \E j \in DOMAIN u : (s \o u)[i] = u[j]
  <2>1. CASE i <= Len(s)
    <3>1. i \in DOMAIN s /\ (s \o u)[i] = s[i]
      BY <1>1, <2>1
    <3> QED
      BY <3>1
  <2>2. CASE i > Len(s)
    <3>1. i - Len(s) \in DOMAIN u /\ (s \o u)[i] = u[i - Len(s)]
      BY <1>1, <2>2
    <3> QED
      BY <3>1
  <2> QED
    BY <1>1, <2>1, <2>2
<1> QED
  BY <1>1, <1>2

(* What a variable holds gives way to another object, or to none.          *)
LEMMA HeldOf ==
    ASSUME StructsIInv, NEW h \in Owners
    PROVE  /\ Len(held[h]) \in Nat
           /\ held[h] = NoObject => Len(held[h]) = 0
           /\ held[h] = NoObject \/ \E n \in Nat : IsObject(held[h], n)
           /\ held[h] # NoObject =>
                 /\ IsObject(held[h], NumberOf(held[h])) /\ NumberOf(held[h]) \in 1 .. made
                 /\ NumberOf(held[h]) \in Nat
           /\ \A d \in 1 .. Len(held[h]) :
                  /\ held[h] # NoObject
                  /\ held[h][d].part \in PartNames /\ held[h][d].part # NoPart
                  /\ NumberIn(held[h][d].part) = NumberOf(held[h])
                  /\ NumberIn(held[h][d].part) \in 1 .. made
<1>1. Len(held[h]) \in Nat /\ made \in Nat
  BY DEF StructsIInv
<1>2. held[h] = NoObject => Len(held[h]) = 0
  BY DEF NoObject
<1>3. held[h] # NoObject => /\ IsObject(held[h], NumberOf(held[h])) /\ NumberOf(held[h]) \in 1 .. made
                            /\ NumberOf(held[h]) \in Nat
  BY <1>1 DEF StructsIInv, ObjectsAreNumbered
<1>4. ASSUME NEW d \in 1 .. Len(held[h])
      PROVE  /\ held[h] # NoObject
             /\ held[h][d].part \in PartNames /\ held[h][d].part # NoPart
             /\ NumberIn(held[h][d].part) = NumberOf(held[h])
             /\ NumberIn(held[h][d].part) \in 1 .. made
  <2>1. held[h] # NoObject
    BY <1>1, <1>2
  <2> QED
    BY <1>3, <2>1, NumbersOfObject, NoPartIsNoName
<1> QED
  BY <1>1, <1>2, <1>3, <1>4, Zenon

LEMMA ParentGoesLast ==
    ASSUME StructsIInv, NEW h \in Owners
    PROVE  LET gone == Finalizing(PartsOf(held[h]))
           IN /\ InOrder(finalized \o gone)
              /\ InOrder(gone)
              /\ \A i \in DOMAIN gone : \E d \in 1 .. Len(held[h]) : gone[i].part = held[h][d].part
              /\ \A i \in DOMAIN gone : gone[i].parent = NoPart
                    \/ \E d \in 1 .. Len(held[h]) : gone[i].parent = held[h][d].part
<1> DEFINE gone == Finalizing(PartsOf(held[h]))
<1>1. held[h] = NoObject \/ \E n \in Nat : IsObject(held[h], n)
  BY HeldOf
<1>2. /\ InOrder(gone)
      /\ \A i \in DOMAIN gone : \E d \in 1 .. Len(held[h]) : gone[i].part = held[h][d].part
      /\ \A i \in DOMAIN gone : gone[i].parent = NoPart
            \/ \E d \in 1 .. Len(held[h]) : gone[i].parent = held[h][d].part
  BY <1>1, ObjectGoes
<1> HIDE DEF gone
<1>3. InOrder(finalized)
  BY DEF StructsIInv, FinalizedWereMade
<1>4. ASSUME NEW i \in DOMAIN finalized, NEW j \in DOMAIN gone
      PROVE  finalized[i].part # gone[j].part /\ finalized[i].part # gone[j].parent
  <2>1. \A d \in 1 .. Len(held[h]) : finalized[i].part # held[h][d].part
    BY DEF StructsIInv, AliveIsNotFinalized
  <2>2. finalized[i].part # NoPart
    BY <1>3, PartsAreNamed
  <2> QED
    BY <1>2, <2>1, <2>2
<1>5. InOrder(finalized \o gone)
  BY <1>2, <1>3, <1>4, InOrderConcat
<1> QED
  BY <1>2, <1>5 DEF gone

LEMMA ReleaseKeepsInv ==
    ASSUME StructsIInv, NEW h \in Owners, ReleaseOwner(h)
    PROVE  StructsIInv'
<1> DEFINE gone == Finalizing(PartsOf(held[h]))
<1>1. /\ made \in Nat /\ made' = made /\ held[h] # NoObject
      /\ held' = [held EXCEPT ![h] = NoObject] /\ held \in [Owners -> Seq(ObjectParts)]
      /\ finalized' = finalized \o gone
  BY DEF ReleaseOwner, StructsIInv
<1>2. /\ InOrder(finalized \o gone) /\ InOrder(gone) /\ InOrder(finalized)
      /\ \A i \in DOMAIN gone : \E d \in 1 .. Len(held[h]) : gone[i].part = held[h][d].part
  BY ParentGoesLast DEF StructsIInv, FinalizedWereMade
<1> HIDE DEF gone
<1>3. NoObject \in Seq(ObjectParts) /\ Len(NoObject) = 0
  BY DEF NoObject
<1>4. held' \in [Owners -> Seq(ObjectParts)]
  BY <1>1, <1>3
<1>5. \A g \in Owners : \/ g = h /\ held'[g] = NoObject
                        \/ g # h /\ held'[g] = held[g]
  BY <1>1
<1>6. ObjectsAreNumbered'
  <2> SUFFICES ASSUME NEW g \in Owners, held'[g] # NoObject
               PROVE  NumberOf(held'[g]) \in 1 .. made' /\ IsObject(held'[g], NumberOf(held'[g]))
    BY DEF ObjectsAreNumbered
  <2> QED
    BY <1>1, <1>5 DEF StructsIInv, ObjectsAreNumbered
<1>7. NumbersAreApart'
  <2> SUFFICES ASSUME NEW f \in Owners, NEW g \in Owners, f # g, held'[f] # NoObject, held'[g] # NoObject
               PROVE  NumberOf(held'[f]) # NumberOf(held'[g])
    BY DEF NumbersAreApart
  <2> QED
    BY <1>5 DEF StructsIInv, NumbersAreApart
<1>8. finalized \in Seq(FinalizedParts) /\ gone \in Seq(FinalizedParts)
  BY <1>2 DEF InOrder
<1>9. \A i \in DOMAIN finalized' : \/ \E j \in DOMAIN finalized : finalized'[i] = finalized[j]
                                   \/ \E d \in 1 .. Len(held[h]) : finalized'[i].part = held[h][d].part
  <2>1. \A i \in DOMAIN (finalized \o gone) :
            \/ \E j \in DOMAIN finalized : (finalized \o gone)[i] = finalized[j]
            \/ \E j \in DOMAIN gone : (finalized \o gone)[i] = gone[j]
    BY <1>8, ConcatOf
  <2> SUFFICES ASSUME NEW i \in DOMAIN finalized'
               PROVE  \/ \E j \in DOMAIN finalized : finalized'[i] = finalized[j]
                      \/ \E d \in 1 .. Len(held[h]) : finalized'[i].part = held[h][d].part
    OBVIOUS
  <2>2. \/ \E j \in DOMAIN finalized : finalized'[i] = finalized[j]
        \/ \E j \in DOMAIN gone : finalized'[i] = gone[j]
    BY <1>1, <2>1, Zenon
  <2> QED
    BY <1>2, <2>2
<1>10. FinalizedWereMade'
  <2>1. InOrder(finalized')
    BY <1>1, <1>2
  <2>2. \A j \in DOMAIN finalized : NumberIn(finalized[j].part) \in 1 .. made
    BY DEF StructsIInv, FinalizedWereMade
  <2>3. \A d \in 1 .. Len(held[h]) : NumberIn(held[h][d].part) \in 1 .. made
    BY HeldOf
  <2>4. \A i \in DOMAIN finalized' : NumberIn(finalized'[i].part) \in 1 .. made'
    BY <1>1, <1>9, <2>2, <2>3
  <2> QED
    BY <2>1, <2>4 DEF FinalizedWereMade
<1>11. AliveIsNotFinalized'
  <2> SUFFICES ASSUME NEW g \in Owners, NEW d \in 1 .. Len(held'[g]), NEW i \in DOMAIN finalized'
               PROVE  finalized'[i].part # held'[g][d].part
    BY DEF AliveIsNotFinalized
  <2>1. g # h /\ held'[g] = held[g] /\ d \in 1 .. Len(held[g])
    BY <1>3, <1>5
  <2>2. /\ held[g] # NoObject
        /\ NumberIn(held[g][d].part) = NumberOf(held[g])
    BY <2>1, HeldOf
  <2>3. NumberOf(held[g]) # NumberOf(held[h])
    BY <1>1, <2>1, <2>2 DEF StructsIInv, NumbersAreApart
  <2>4. \A e \in 1 .. Len(held[h]) : NumberIn(held[h][e].part) = NumberOf(held[h])
    BY HeldOf
  <2>5. \A j \in DOMAIN finalized : finalized[j].part # held[g][d].part
    BY <2>1 DEF StructsIInv, AliveIsNotFinalized
  <2> QED
    BY <1>9, <2>1, <2>2, <2>3, <2>4, <2>5
<1> QED
  BY <1>1, <1>4, <1>6, <1>7, <1>10, <1>11 DEF StructsIInv

LEMMA PlaceKeepsInv ==
    ASSUME StructsIInv, NEW h \in Owners, NEW o, NEW dropped, Place(h, o, dropped),
           IsObject(o, made + 1), FinalizedUnder(<<made + 1>>, dropped),
           \A i \in DOMAIN dropped : \A d \in 1 .. Len(o) : dropped[i].part # o[d].part
    PROVE  StructsIInv'
<1> DEFINE gone == Finalizing(PartsOf(held[h]))
           n == made + 1
           more == finalized \o dropped
<1>1. /\ made \in Nat /\ n \in Nat /\ made' = n /\ n \notin 1 .. made /\ n \in 1 .. n
      /\ \A k \in 1 .. made : k \in 1 .. n
      /\ held' = [held EXCEPT ![h] = o] /\ held \in [Owners -> Seq(ObjectParts)]
      /\ finalized' = more \o gone
  BY DEF Place, StructsIInv
<1>2. /\ o \in Seq(ObjectParts) /\ NumberOf(o) = n /\ IsObject(o, n)
      /\ \A d \in 1 .. Len(o) : NumberIn(o[d].part) = n
  BY <1>1, NumbersOfObject
<1>3. /\ InOrder(gone) /\ InOrder(finalized)
      /\ \A i \in DOMAIN gone : \E d \in 1 .. Len(held[h]) : gone[i].part = held[h][d].part
      /\ \A i \in DOMAIN gone : gone[i].parent = NoPart
            \/ \E d \in 1 .. Len(held[h]) : gone[i].parent = held[h][d].part
  BY ParentGoesLast DEF StructsIInv, FinalizedWereMade
<1>4. /\ InOrder(dropped)
      /\ \A i \in DOMAIN dropped : NumberIn(dropped[i].part) = n
      /\ \A i \in DOMAIN dropped : dropped[i].parent = NoPart \/ NumberIn(dropped[i].parent) = n
  BY <1>1, NumberUnder DEF FinalizedUnder, NumberIn
<1>5. /\ finalized \in Seq(FinalizedParts) /\ \A j \in DOMAIN finalized : finalized[j].part # NoPart
      /\ dropped \in Seq(FinalizedParts) /\ \A j \in DOMAIN dropped : dropped[j].part # NoPart
      /\ gone \in Seq(FinalizedParts)
  BY <1>3, <1>4, PartsAreNamed
<1>6. \A j \in DOMAIN finalized : NumberIn(finalized[j].part) \in 1 .. made
  BY DEF StructsIInv, FinalizedWereMade
<1>7. \A d \in 1 .. Len(held[h]) : /\ NumberIn(held[h][d].part) \in 1 .. made
                                   /\ NumberIn(held[h][d].part) = NumberOf(held[h])
                                   /\ held[h] # NoObject
  BY HeldOf
<1> HIDE DEF gone, n, more
<1>8. InOrder(more)
  <2>1. \A i \in DOMAIN finalized, j \in DOMAIN dropped :
            finalized[i].part # dropped[j].part /\ finalized[i].part # dropped[j].parent
    BY <1>1, <1>4, <1>5, <1>6
  <2> QED
    BY <1>3, <1>4, <2>1, InOrderConcat DEF more
<1>9. more \in Seq(FinalizedParts)
      /\ \A i \in DOMAIN more : \/ \E j \in DOMAIN finalized : more[i] = finalized[j]
                                \/ \E j \in DOMAIN dropped : more[i] = dropped[j]
  BY <1>5, ConcatOf DEF more
<1>10. InOrder(more \o gone)
  <2> SUFFICES ASSUME NEW i \in DOMAIN more, NEW j \in DOMAIN gone
               PROVE  more[i].part # gone[j].part /\ more[i].part # gone[j].parent
    BY <1>3, <1>8, InOrderConcat
  <2>1. CASE \E k \in DOMAIN finalized : more[i] = finalized[k]
    <3>1. \A k \in DOMAIN finalized : \A d \in 1 .. Len(held[h]) : finalized[k].part # held[h][d].part
      BY DEF StructsIInv, AliveIsNotFinalized
    <3> QED
      BY <1>3, <1>5, <2>1, <3>1
  <2>2. CASE \E k \in DOMAIN dropped : more[i] = dropped[k]
    BY <1>1, <1>3, <1>4, <1>5, <1>7, <2>2
  <2> QED
    BY <1>9, <2>1, <2>2
<1>11. \A i \in DOMAIN finalized' :
           \/ \E j \in DOMAIN finalized : finalized'[i] = finalized[j]
           \/ \E j \in DOMAIN dropped : finalized'[i] = dropped[j]
           \/ \E d \in 1 .. Len(held[h]) : finalized'[i].part = held[h][d].part
  <2>1. \A i \in DOMAIN (more \o gone) :
            \/ \E j \in DOMAIN more : (more \o gone)[i] = more[j]
            \/ \E j \in DOMAIN gone : (more \o gone)[i] = gone[j]
    <3>1. more \in Seq(FinalizedParts) /\ gone \in Seq(FinalizedParts)
      BY <1>5, <1>9
    <3> QED
      BY <3>1, ConcatOf
  <2> SUFFICES ASSUME NEW i \in DOMAIN finalized'
               PROVE  \/ \E j \in DOMAIN finalized : finalized'[i] = finalized[j]
                      \/ \E j \in DOMAIN dropped : finalized'[i] = dropped[j]
                      \/ \E d \in 1 .. Len(held[h]) : finalized'[i].part = held[h][d].part
    OBVIOUS
  <2>2. \/ \E j \in DOMAIN more : finalized'[i] = more[j]
        \/ \E j \in DOMAIN gone : finalized'[i] = gone[j]
    BY <1>1, <2>1, Zenon
  <2> QED
    BY <1>3, <1>9, <2>2
<1>12. held' \in [Owners -> Seq(ObjectParts)]
  BY <1>1, <1>2
<1>13. \A g \in Owners : \/ g = h /\ held'[g] = o
                         \/ g # h /\ held'[g] = held[g]
  BY <1>1
<1>14. ObjectsAreNumbered'
  <2> SUFFICES ASSUME NEW g \in Owners, held'[g] # NoObject
               PROVE  NumberOf(held'[g]) \in 1 .. made' /\ IsObject(held'[g], NumberOf(held'[g]))
    BY DEF ObjectsAreNumbered
  <2>1. CASE held'[g] = o
    BY <1>1, <1>2, <2>1
  <2>2. CASE held'[g] = held[g]
    BY <1>1, <2>2 DEF StructsIInv, ObjectsAreNumbered
  <2> QED
    BY <1>13, <2>1, <2>2
<1>15. NumbersAreApart'
  <2> SUFFICES ASSUME NEW f \in Owners, NEW g \in Owners, f # g, held'[f] # NoObject, held'[g] # NoObject
               PROVE  NumberOf(held'[f]) # NumberOf(held'[g])
    BY DEF NumbersAreApart
  <2>1. \A e \in Owners : held[e] # NoObject => NumberOf(held[e]) # n
    BY <1>1, HeldOf
  <2> QED
    BY <1>2, <1>13, <2>1 DEF StructsIInv, NumbersAreApart
<1>16. FinalizedWereMade'
  <2>1. InOrder(finalized')
    BY <1>1, <1>10
  <2>2. \A i \in DOMAIN finalized' : NumberIn(finalized'[i].part) \in 1 .. made'
    BY <1>1, <1>4, <1>6, <1>7, <1>11
  <2> QED
    BY <2>1, <2>2 DEF FinalizedWereMade
<1>17. AliveIsNotFinalized'
  <2> SUFFICES ASSUME NEW g \in Owners, NEW d \in 1 .. Len(held'[g]), NEW i \in DOMAIN finalized'
               PROVE  finalized'[i].part # held'[g][d].part
    BY DEF AliveIsNotFinalized
  <2>1. CASE g = h /\ held'[g] = o
    <3>1. d \in 1 .. Len(o) /\ NumberIn(held'[g][d].part) = n
      BY <1>2, <2>1
    <3>2. \A j \in DOMAIN dropped : dropped[j].part # held'[g][d].part
      BY <2>1, <3>1
    <3> QED
      BY <1>1, <1>6, <1>7, <1>11, <3>1, <3>2
  <2>2. CASE g # h /\ held'[g] = held[g]
    <3>1. /\ d \in 1 .. Len(held[g]) /\ held[g] # NoObject
          /\ NumberIn(held[g][d].part) = NumberOf(held[g])
          /\ NumberIn(held[g][d].part) \in 1 .. made
      BY <2>2, HeldOf
    <3>2. \A j \in DOMAIN finalized : finalized[j].part # held[g][d].part
      BY <3>1 DEF StructsIInv, AliveIsNotFinalized
    <3>3. held[h] # NoObject => NumberOf(held[g]) # NumberOf(held[h])
      BY <2>2, <3>1 DEF StructsIInv, NumbersAreApart
    <3>4. CASE \E j \in DOMAIN finalized : finalized'[i] = finalized[j]
      BY <2>2, <3>2, <3>4
    <3>5. CASE \E j \in DOMAIN dropped : finalized'[i] = dropped[j]
      <4>1. NumberIn(finalized'[i].part) = n
        BY <1>4, <3>5
      <4> QED
        BY <1>1, <2>2, <3>1, <4>1
    <3>6. CASE \E e \in 1 .. Len(held[h]) : finalized'[i].part = held[h][e].part
      <4>1. NumberIn(finalized'[i].part) = NumberOf(held[h]) /\ held[h] # NoObject
        BY <1>7, <3>6
      <4> QED
        BY <2>2, <3>1, <3>3, <4>1
    <3> QED
      BY <1>11, <3>4, <3>5, <3>6
  <2> QED
    BY <1>13, <2>1, <2>2
<1> QED
  BY <1>1, <1>12, <1>14, <1>15, <1>16, <1>17 DEF StructsIInv

LEMMA NewKeepsInv ==
    ASSUME StructsIInv, NEW h \in Owners, NEW c \in 1 .. Classes, New(h, c)
    PROVE  StructsIInv'
<1>1. made + 1 \in Nat
  BY DEF StructsIInv
<1>2. IsObject(Build(c, made + 1), made + 1)
  BY <1>1, BuildIsObject
<1>3. FinalizedUnder(<<made + 1>>, <<>>)
  BY DEF FinalizedUnder, InOrder
<1>4. \A i \in DOMAIN <<>> : \A d \in 1 .. Len(Build(c, made + 1)) : <<>>[i].part # Build(c, made + 1)[d].part
  OBVIOUS
<1>5. Place(h, Build(c, made + 1), <<>>)
  BY DEF New
<1> QED
  BY <1>2, <1>3, <1>4, <1>5, PlaceKeepsInv

LEMMA CopyKeepsInv ==
    ASSUME StructsIInv, NEW h \in Owners, NEW from \in Owners, CopyTo(h, from)
    PROVE  StructsIInv'
<1> DEFINE tag == <<made + 1>>
           o == CopyStructure(held[from], tag)
           k == Len(held[from])
           dropped == DroppedCopies[k][tag]
<1>1. made + 1 \in Nat
  BY DEF StructsIInv
<1>2. tag \in Tags
  BY <1>1, OneNumber
<1>3. IsObject(held[from], NumberOf(held[from])) /\ k \in Nat
  BY HeldOf DEF CopyTo
<1>4. IsObject(o, made + 1) /\ PartsOf(o) = KeptParts(k, tag)
  BY <1>1, <1>3, CopyIsObject
<1>5. DropsRightly(k, tag, dropped)
  BY <1>2, <1>3, CopyingDropsRightly
<1>6. Place(h, o, dropped)
  BY DEF CopyTo
<1>7. DOMAIN o = 1 .. Len(o) /\ Len(o) \in Nat
  BY <1>1, <1>4, NumbersOfObject
<1> HIDE DEF o, dropped, k, tag
<1>8. Len(o) = k /\ \A d \in 1 .. Len(o) : KeptParts(k, tag)[d] = o[d].part
  <2>1. DOMAIN PartsOf(o) = 1 .. Len(o) /\ \A d \in 1 .. Len(o) : PartsOf(o)[d] = o[d].part
    BY <1>7 DEF PartsOf
  <2>2. DOMAIN KeptParts(k, tag) = 1 .. k
    BY DEF KeptParts
  <2>3. 1 .. Len(o) = 1 .. k
    BY <1>4, <2>1, <2>2
  <2>4. Len(o) = k
    BY <1>3, <1>7, <2>3 DEF k
  <2> QED
    BY <1>4, <2>1, <2>4
<1>9. \A i \in DOMAIN dropped : \A d \in 1 .. Len(o) : dropped[i].part # o[d].part
  BY <1>5, <1>8 DEF DropsRightly
<1>10. FinalizedUnder(<<made + 1>>, dropped)
  BY <1>5 DEF DropsRightly, tag
<1> QED
  BY <1>4, <1>6, <1>9, <1>10, PlaceKeepsInv

(* Objects keep their numbers, and finalizers their order, whatever is     *)
(* made, copied and released (struct_builder and structure).               *)
THEOREM StructsInvariant == StructsSpec => []StructsIInv
<1>1. StructsInit => StructsIInv
  <2> SUFFICES ASSUME StructsInit
               PROVE  StructsIInv
    OBVIOUS
  <2>1. NoObject \in Seq(ObjectParts) /\ Len(NoObject) = 0
    BY DEF NoObject
  <2>2. held = [h \in Owners |-> NoObject] /\ finalized = <<>> /\ made = 0
    BY DEF StructsInit
  <2>3. InOrder(<<>>)
    BY DEF InOrder
  <2> QED
    BY <2>1, <2>2, <2>3 DEF StructsIInv, ObjectsAreNumbered, NumbersAreApart, FinalizedWereMade,
                            AliveIsNotFinalized
<1>2. StructsIInv /\ [StructsNext]_structsVars => StructsIInv'
  <2> SUFFICES ASSUME StructsIInv, [StructsNext]_structsVars
               PROVE  StructsIInv'
    OBVIOUS
  <2>1. ASSUME NEW h \in Owners, NEW c \in 1 .. Classes, New(h, c)
        PROVE  StructsIInv'
    BY <2>1, NewKeepsInv
  <2>2. ASSUME NEW h \in Owners, NEW from \in Owners, CopyTo(h, from)
        PROVE  StructsIInv'
    BY <2>2, CopyKeepsInv
  <2>3. ASSUME NEW h \in Owners, ReleaseOwner(h)
        PROVE  StructsIInv'
    BY <2>3, ReleaseKeepsInv
  <2>4. CASE UNCHANGED structsVars
    BY <2>4 DEF structsVars, StructsIInv, ObjectsAreNumbered, NumbersAreApart, FinalizedWereMade,
                AliveIsNotFinalized
  <2> QED
    BY <2>1, <2>2, <2>3, <2>4 DEF StructsNext
<1> QED
  BY <1>1, <1>2, PTL DEF StructsSpec

(* An object with parents is one object: inherited members are one slot,   *)
(* two objects share none, and every part is finalized once, before its    *)
(* parent (copy and clear of structure).  The first is not said of a copy  *)
(* of an object with three classes or more (IsCopy), but for the members   *)
(* that the part of the second class has from the base.                    *)
THEOREM StructsCorrect == StructsSpec => []StructsInv
<1>1. StructsIInv => StructsInv
  BY StructsIInvSays
<1> QED
  BY <1>1, StructsInvariant, PTL
-----------------------------------------------------------------------------
(***************************************************************************)
(* Trees.  What is under a node is the least set that is closed under      *)
(* children.                                                               *)
(***************************************************************************)
Trees == [top : Nodes \cup {NoNode}, node : [Nodes -> TreeNode]]
Closed(t, S) ==
    \A n \in S : \A side \in Sides : t.node[n][side] # NoNode => t.node[n][side] \in S
IsUnder(t, it, S) ==
    /\ S \in SUBSET Nodes /\ it \in S /\ Closed(t, S)
    /\ \A C \in SUBSET Nodes : it \in C /\ Closed(t, C) => S \subseteq C

LEMMA NodesAreFinite ==
    /\ IsFiniteSet(Nodes) /\ Cardinality(Nodes) \in Nat
    /\ Nodes \subseteq Nat /\ NoNode \notin Nodes
    /\ 1 .. (2 * MaxSignals + 1) \subseteq Nodes /\ Spare \subseteq Nodes
<1>1. MaxSignals \in Nat \ {0} /\ IsFiniteSet(Spare) /\ Spare \subseteq Nat
      /\ Spare \cap (0 .. (2 * MaxSignals + 1)) = {}
  BY ExprTreeAssumption
<1>2. IsFiniteSet(1 .. (2 * MaxSignals + 1))
  BY <1>1, FS_Interval
<1>3. IsFiniteSet(Nodes)
  BY <1>1, <1>2, FS_Union DEF Nodes
<1>4. 0 \in 0 .. (2 * MaxSignals + 1)
  BY <1>1
<1> QED
  BY <1>1, <1>3, <1>4, FS_CardinalityType DEF Nodes, NoNode

LEMMA NodeOf ==
    ASSUME NEW t \in Trees, NEW n \in Nodes
    PROVE  /\ t.node[n] \in TreeNode
           /\ t.node[n].root \in Nodes \cup {NoNode}
           /\ \A side \in Sides : t.node[n][side] \in Nodes \cup {NoNode}
           /\ t.node[n].live \in BOOLEAN
           /\ t.node \in [Nodes -> TreeNode]
           /\ t.top \in Nodes \cup {NoNode}
<1>1. t.node \in [Nodes -> TreeNode] /\ t.top \in Nodes \cup {NoNode}
  BY DEF Trees
<1>2. t.node[n] \in TreeNode
  BY <1>1
<1> QED
  BY <1>1, <1>2 DEF TreeNode, Sides

(* A function that applies G again and again.                              *)
Iterates(f, S, c, G) ==
    f \in [Nat -> S] /\ f[0] = c /\ \A k \in Nat : f[k + 1] = G[f[k]]
LEMMA IterationExists ==
    ASSUME NEW S, NEW c \in S, NEW G \in [S -> S]
    PROVE  \E f : Iterates(f, S, c, G)
  BY IterationIsDefined DEF Iterates

(* A step down adds children until there are none to add.                  *)
LEMMA SubtreeOf ==
    ASSUME NEW t \in Trees, NEW it \in Nodes
    PROVE  IsUnder(t, it, Subtree(t, it))
<1> DEFINE S == SUBSET Nodes
           c == {it} \ {NoNode}
           G == [ns \in S |-> ns \cup ChildrenOf(t, ns)]
           N == Cardinality(Nodes)
<1>1. c \in S /\ c = {it}
  BY NodesAreFinite
<1>2. ASSUME NEW ns \in S
      PROVE  ChildrenOf(t, ns) \in S
  <2>1. \A n \in ns, side \in Sides : t.node[n][side] \in Nodes \cup {NoNode}
    BY NodeOf
  <2> QED
    BY <2>1 DEF ChildrenOf
<1>3. G \in [S -> S]
  BY <1>2
<1> HIDE DEF G, c
<1>4. PICK f \in [Nat -> S] : f[0] = c /\ \A k \in Nat : f[k + 1] = G[f[k]]
  <2> HIDE DEF S
  <2>1. \E f : Iterates(f, S, c, G)
    BY <1>1, <1>3, IterationExists
  <2> QED
    BY <2>1 DEF Iterates
<1>5. \A k \in Nat : f[k] \in S /\ f[k + 1] = f[k] \cup ChildrenOf(t, f[k])
  <2>1. ASSUME NEW k \in Nat
        PROVE  f[k] \in S /\ f[k + 1] = G[f[k]]
    <3> HIDE DEF S
    <3> QED
      BY <1>4
  <2>2. \A ns \in S : G[ns] = ns \cup ChildrenOf(t, ns)
    <3> HIDE DEF S
    <3> QED
      BY DEF G
  <2> HIDE DEF S
  <2> QED
    BY <2>1, <2>2
<1> DEFINE IsBelow(g) ==
        g = [k \in Nat |-> IF k = 0 THEN {it} \ {NoNode}
                           ELSE LET above == g[k - 1] IN above \cup ChildrenOf(t, above)]
<1>6. IsBelow(f)
  <2>1. f = [k \in Nat |-> f[k]]
    BY <1>4
  <2>2. ASSUME NEW k \in Nat, k # 0
        PROVE  f[k] = f[k - 1] \cup ChildrenOf(t, f[k - 1])
    <3>1. k - 1 \in Nat /\ (k - 1) + 1 = k
      BY <2>2
    <3> QED
      BY <1>5, <3>1
  <2>3. f[0] = {it} \ {NoNode}
    BY <1>4 DEF c
  <2> QED
    BY <2>1, <2>2, <2>3
<1>7. \A g : IsBelow(g) => g = f
  <2> SUFFICES ASSUME NEW g, IsBelow(g)
               PROVE  g = f
    OBVIOUS
  <2> DEFINE A == {k \in Nat : g[k] = f[k]}
  <2>1. 0 \in A
    BY <1>6
  <2>2. ASSUME NEW k \in Nat, k \in A
        PROVE  k + 1 \in A
    <3>1. k + 1 # 0 /\ (k + 1) - 1 = k /\ k + 1 \in Nat
      OBVIOUS
    <3>2. g[k + 1] = g[k] \cup ChildrenOf(t, g[k])
      BY <3>1
    <3> QED
      BY <1>5, <2>2, <3>1, <3>2
  <2> HIDE DEF A
  <2>3. Nat \subseteq A
    BY <2>1, <2>2, NatSetInduction
  <2>4. \A k \in Nat : g[k] = f[k]
    BY <2>3 DEF A
  <2>5. g = [k \in Nat |-> g[k]] /\ f = [k \in Nat |-> f[k]]
    BY <1>6
  <2> QED
    BY <2>4, <2>5
<1>8. Subtree(t, it) = f[N]
  <2>1. Subtree(t, it) = (CHOOSE g : IsBelow(g))[N]
    BY DEF Subtree
  <2>2. (CHOOSE g : IsBelow(g)) = f
    <3> HIDE DEF IsBelow
    <3> QED
      BY <1>6, <1>7
  <2> QED
    BY <2>1, <2>2
<1> HIDE DEF IsBelow
<1>9. \A k \in Nat : it \in f[k] /\ \A C \in SUBSET Nodes : it \in C /\ Closed(t, C) => f[k] \subseteq C
  <2> DEFINE A == {k \in Nat : it \in f[k]
                     /\ \A C \in SUBSET Nodes : it \in C /\ Closed(t, C) => f[k] \subseteq C}
  <2>1. 0 \in A
    BY <1>1, <1>4
  <2>2. ASSUME NEW k \in Nat, k \in A
        PROVE  k + 1 \in A
    <3>1. it \in f[k + 1]
      BY <1>5, <2>2
    <3>2. ASSUME NEW C \in SUBSET Nodes, it \in C, Closed(t, C)
          PROVE  f[k + 1] \subseteq C
      <4>1. f[k] \subseteq C
        BY <2>2, <3>2
      <4>2. ChildrenOf(t, f[k]) \subseteq C
        BY <3>2, <4>1 DEF ChildrenOf, Closed
      <4> QED
        BY <1>5, <4>1, <4>2
    <3> QED
      BY <3>1, <3>2
  <2> HIDE DEF A
  <2>3. Nat \subseteq A
    BY <2>1, <2>2, NatSetInduction
  <2> QED
    BY <2>3 DEF A
<1>10. \A k \in Nat : f[k + 1] = f[k] \/ Cardinality(f[k]) >= k
  <2> DEFINE A == {k \in Nat : f[k + 1] = f[k] \/ Cardinality(f[k]) >= k}
  <2>0. \A k \in Nat : IsFiniteSet(f[k]) /\ Cardinality(f[k]) \in Nat
    BY <1>5, NodesAreFinite, FS_Subset, FS_CardinalityType
  <2>1. 0 \in A
    BY <2>0
  <2>2. ASSUME NEW k \in Nat, k \in A
        PROVE  k + 1 \in A
    <3>1. k + 1 \in Nat /\ (k + 1) + 1 \in Nat
      OBVIOUS
    <3>2. CASE f[k + 1] = f[k]
      <4>1. f[(k + 1) + 1] = f[k + 1] \cup ChildrenOf(t, f[k + 1])
        BY <1>5, <3>1
      <4> QED
        BY <1>5, <3>1, <3>2, <4>1
    <3>3. CASE f[k + 1] # f[k]
      <4>1. f[k] \in SUBSET f[k + 1] /\ Cardinality(f[k]) >= k
        BY <1>5, <2>2, <3>3
      <4>2. Cardinality(f[k]) <= Cardinality(f[k + 1]) /\ Cardinality(f[k]) # Cardinality(f[k + 1])
        BY <2>0, <3>1, <3>3, <4>1, FS_Subset
      <4>3. Cardinality(f[k]) \in Nat /\ Cardinality(f[k + 1]) \in Nat
        BY <2>0, <3>1
      <4>4. Cardinality(f[k + 1]) >= k + 1
        BY <4>1, <4>2, <4>3
      <4> QED
        BY <3>1, <4>4
    <3> QED
      BY <3>2, <3>3
  <2> HIDE DEF A
  <2>3. Nat \subseteq A
    BY <2>1, <2>2, NatSetInduction
  <2> QED
    BY <2>3 DEF A
<1>11. N \in Nat /\ f[N + 1] = f[N]
  <2>1. N \in Nat /\ f[N] \in SUBSET Nodes /\ f[N + 1] = f[N] \cup ChildrenOf(t, f[N]) /\ f[N + 1] \in SUBSET Nodes
    BY <1>5, NodesAreFinite
  <2>2. ASSUME Cardinality(f[N]) >= N
        PROVE  f[N] = Nodes
    <3>1. Cardinality(f[N]) <= Cardinality(Nodes) /\ IsFiniteSet(f[N])
          /\ (Cardinality(Nodes) = Cardinality(f[N]) => Nodes = f[N])
      BY <2>1, NodesAreFinite, FS_Subset
    <3>2. Cardinality(f[N]) \in Nat
      BY <3>1, FS_CardinalityType
    <3> QED
      BY <2>1, <2>2, <3>1, <3>2
  <2> QED
    BY <1>10, <2>1, <2>2
<1>12. Closed(t, f[N])
  <2>1. ChildrenOf(t, f[N]) \subseteq f[N]
    BY <1>5, <1>11
  <2> QED
    BY <2>1 DEF ChildrenOf, Closed
<1> QED
  BY <1>5, <1>8, <1>9, <1>11, <1>12 DEF IsUnder

-----------------------------------------------------------------------------
(* Writing one node.                                                       *)
With(t, n, nd) == [t EXCEPT !.node[n] = nd]
IsWith(r, t, n, nd) ==
    /\ r \in Trees /\ r.top = t.top
    /\ r.node[n] = nd
    /\ \A m \in Nodes : m # n => r.node[m] = t.node[m]

LEMMA WithOf ==
    ASSUME NEW t \in Trees, NEW n \in Nodes, NEW nd \in TreeNode
    PROVE  IsWith(With(t, n, nd), t, n, nd)
<1>1. t.node \in [Nodes -> TreeNode] /\ t.top \in Nodes \cup {NoNode}
  BY DEF Trees
<1>2. t = [top |-> t.top, node |-> t.node]
  BY DEF Trees
<1> DEFINE new == [t.node EXCEPT ![n] = nd]
<1>3. new \in [Nodes -> TreeNode] /\ new[n] = nd /\ \A m \in Nodes : m # n => new[m] = t.node[m]
  BY <1>1
<1>4. With(t, n, nd) = [top |-> t.top, node |-> new]
  BY <1>2 DEF With
<1> HIDE DEF new
<1> QED
  BY <1>1, <1>3, <1>4 DEF IsWith, Trees

LEMMA SideWritten ==
    ASSUME NEW t \in Trees, NEW n \in Nodes, NEW side \in Sides, NEW c
    PROVE  [t EXCEPT !.node[n][side] = c] = With(t, n, [t.node[n] EXCEPT ![side] = c])
<1>1. t.node \in [Nodes -> TreeNode] /\ t = [top |-> t.top, node |-> t.node]
  BY DEF Trees
<1> QED
  BY <1>1 DEF With

LEMMA RootWritten ==
    ASSUME NEW t \in Trees, NEW n \in Nodes, NEW c
    PROVE  [t EXCEPT !.node[n].root = c] = With(t, n, [t.node[n] EXCEPT !.root = c])
<1>1. t.node \in [Nodes -> TreeNode] /\ t = [top |-> t.top, node |-> t.node]
  BY DEF Trees
<1> QED
  BY <1>1 DEF With

(* One field of a node.                                                    *)
IsNodeWith(e, nd, side, c) ==
    /\ e \in TreeNode /\ e[side] = c /\ e[Other(side)] = nd[Other(side)]
    /\ e.root = nd.root /\ e.live = nd.live
LEMMA NodeWith ==
    ASSUME NEW nd \in TreeNode, NEW side \in Sides, NEW c \in Nodes \cup {NoNode}
    PROVE  /\ IsNodeWith([nd EXCEPT ![side] = c], nd, side, c)
           /\ LET e == [nd EXCEPT !.root = c]
              IN e \in TreeNode /\ e.root = c /\ e.left = nd.left /\ e.right = nd.right /\ e.live = nd.live
<1>1. nd = [root |-> nd.root, left |-> nd.left, right |-> nd.right, live |-> nd.live]
      /\ nd.root \in Nodes \cup {NoNode} /\ nd.left \in Nodes \cup {NoNode}
      /\ nd.right \in Nodes \cup {NoNode} /\ nd.live \in BOOLEAN
  BY DEF TreeNode
<1>2. CASE side = "left"
  BY <1>1, <1>2 DEF TreeNode, IsNodeWith, Other
<1>3. CASE side = "right"
  BY <1>1, <1>3 DEF TreeNode, IsNodeWith, Other
<1> QED
  BY <1>2, <1>3 DEF Sides

LEMMA LeafOf ==
    ASSUME NEW root \in Nodes \cup {NoNode}
    PROVE  /\ Leaf(root) \in TreeNode /\ Leaf(root).root = root /\ Leaf(root).live
           /\ \A side \in Sides : Leaf(root)[side] = NoNode
           /\ DeadNode \in TreeNode /\ ~DeadNode.live
           /\ \A side \in Sides : Other(side) \in Sides /\ Other(side) # side
           /\ \A side, s \in Sides : s = side \/ s = Other(side)
  BY DEF Leaf, TreeNode, Sides, DeadNode, Other

-----------------------------------------------------------------------------
(* L are the nodes of the tree, each reached on one path.                  *)
Linked(t, L) ==
    /\ t \in Trees /\ L \in SUBSET Nodes
    /\ \A n \in Nodes : t.node[n].live <=> n \in L
    /\ t.top = NoNode => L = {}
    /\ t.top # NoNode => IsUnder(t, t.top, L) /\ t.node[t.top].root = NoNode
    /\ \A n \in L, side \in Sides :
           t.node[n][side] # NoNode =>
               /\ t.node[t.node[n][side]].root = n
               /\ t.node[n][Other(side)] # t.node[n][side]

(* A node that is not the top hangs from its root.                         *)
Hangs(t, L, n) ==
    /\ t.node[n].root \in L
    /\ \E side \in Sides : t.node[t.node[n].root][side] = n

LEMMA LinkedNodes ==
    ASSUME NEW t, NEW L, Linked(t, L), NEW it \in L
    PROVE  /\ t \in Trees /\ it \in Nodes /\ t.top \in L /\ t.top # NoNode /\ NoNode \notin L
           /\ t.node[t.top].root = NoNode
           /\ it # t.top => Hangs(t, L, it)
           /\ t.node[it].root # it
           /\ t.node[it].root = NoNode => it = t.top
           /\ \A side \in Sides : t.node[it][side] \in L \cup {NoNode}
<1>1. t \in Trees /\ L \in SUBSET Nodes /\ t.top # NoNode
      /\ IsUnder(t, t.top, L) /\ t.node[t.top].root = NoNode
  BY DEF Linked
<1>2. t.top \in L /\ Closed(t, L) /\ NoNode \notin L /\ L \subseteq Nodes
  BY <1>1, NodesAreFinite DEF IsUnder
<1>3. \A n \in L, side \in Sides : t.node[n][side] # NoNode =>
          t.node[n][side] \in L /\ t.node[t.node[n][side]].root = n
  BY <1>2 DEF Closed, Linked
<1>4. L \subseteq {n \in L : n = t.top \/ Hangs(t, L, n)}
  <2> DEFINE C == {n \in L : n = t.top \/ Hangs(t, L, n)}
  <2>1. C \in SUBSET Nodes /\ t.top \in C
    BY <1>2
  <2>2. Closed(t, C)
    BY <1>3 DEF Closed, Hangs
  <2> QED
    BY <1>1, <2>1, <2>2 DEF IsUnder
<1>5. t.node[it].root # it
  <2> SUFFICES ASSUME t.node[it].root = it
               PROVE  FALSE
    OBVIOUS
  <2> DEFINE C == L \ {it}
  <2>1. C \in SUBSET Nodes /\ t.top \in C
    BY <1>1, <1>2
  <2>2. Closed(t, C)
    BY <1>3 DEF Closed
  <2>3. L \subseteq C
    BY <1>1, <2>1, <2>2 DEF IsUnder
  <2> QED
    BY <2>3
<1>6. it # t.top => Hangs(t, L, it)
  BY <1>4
<1> QED
  BY <1>1, <1>2, <1>3, <1>5, <1>6 DEF Hangs

(* The link of the root that leads to a node.                              *)
LEMMA SideOfLeads ==
    ASSUME NEW t, NEW L, Linked(t, L), NEW it \in L, it # t.top
    PROVE  LET up == t.node[it].root
               s == SideOf(t, it)
           IN /\ up \in L /\ up # it /\ s \in Sides
              /\ t.node[up][s] = it /\ t.node[up][Other(s)] # it
<1> DEFINE up == t.node[it].root
           s == SideOf(t, it)
<1>1. up \in L /\ up # it /\ it # NoNode /\ \E side \in Sides : t.node[up][side] = it
  BY LinkedNodes DEF Hangs
<1>2. s \in Sides /\ t.node[up][s] = it
  BY <1>1 DEF SideOf, Sides
<1> HIDE DEF s, up
<1>3. t.node[up][Other(s)] # it
  BY <1>1, <1>2 DEF Linked
<1> QED
  BY <1>1, <1>2, <1>3 DEF s, up

(* What is under a node when some links are cut.                           *)
IsCut(u, t, L) ==
    /\ u \in Trees
    /\ \A n \in L, side \in Sides : u.node[n][side] \in {t.node[n][side], NoNode}
LEMMA BelowOf ==
    ASSUME NEW t, NEW L, Linked(t, L), NEW it \in L, NEW u, IsCut(u, t, L),
           NEW D, IsUnder(u, it, D)
    PROVE  /\ D \subseteq L /\ it \in D
           /\ \A d \in D : d # it => /\ t.node[d].root \in D
                                     /\ \E side \in Sides : u.node[t.node[d].root][side] = d
           /\ t.node[it].root \notin D
           /\ t.top \in D => t.top = it
<1>1. /\ t \in Trees /\ L \subseteq Nodes /\ t.top \in L /\ NoNode \notin L
      /\ t.node[t.top].root = NoNode
      /\ \A n \in L, side \in Sides : t.node[n][side] # NoNode =>
             t.node[n][side] \in L /\ t.node[t.node[n][side]].root = n
      /\ IsUnder(t, t.top, L)
  BY LinkedNodes DEF Linked
<1>2. D \in SUBSET Nodes /\ it \in D /\ Closed(u, D) /\ NoNode \notin D
  BY NodesAreFinite DEF IsUnder
<1>3. D \subseteq L
  <2>1. L \in SUBSET Nodes /\ Closed(u, L)
    BY <1>1 DEF IsCut, Closed
  <2> QED
    BY <2>1 DEF IsUnder
<1> DEFINE From(d) == /\ t.node[d].root \in D
                      /\ \E side \in Sides : u.node[t.node[d].root][side] = d
<1>4. \A d \in D : d # it => From(d)
  <2> DEFINE C == {d \in D : d = it \/ From(d)}
  <2>1. C \in SUBSET Nodes /\ it \in C
    BY <1>2
  <2>2. Closed(u, C)
    <3> SUFFICES ASSUME NEW n \in C, NEW side \in Sides, u.node[n][side] # NoNode
                 PROVE  u.node[n][side] \in C
      BY DEF Closed
    <3>1. n \in D /\ n \in L
      BY <1>3
    <3>2. u.node[n][side] \in D
      BY <1>2, <3>1 DEF Closed
    <3>3. u.node[n][side] = t.node[n][side]
      BY <3>1 DEF IsCut
    <3>4. t.node[u.node[n][side]].root = n
      BY <1>1, <3>1, <3>3
    <3> QED
      BY <3>1, <3>2, <3>4
  <2>3. D \subseteq C
    BY <2>1, <2>2 DEF IsUnder
  <2> QED
    BY <2>3
<1>5. t.top \in D => t.top = it
  BY <1>1, <1>2, <1>4
<1>6. t.node[it].root \notin D
  <2> SUFFICES ASSUME t.node[it].root \in D
               PROVE  FALSE
    OBVIOUS
  <2>1. t.top # it
    BY <1>1, <1>2
  <2> DEFINE C == L \ D
  <2>2. C \in SUBSET Nodes /\ t.top \in C
    BY <1>1, <1>5, <2>1
  <2>3. Closed(t, C)
    <3> SUFFICES ASSUME NEW n \in C, NEW side \in Sides, t.node[n][side] # NoNode,
                        t.node[n][side] \in D
                 PROVE  FALSE
      BY <1>1 DEF Closed
    <3>1. t.node[t.node[n][side]].root = n
      BY <1>1
    <3> QED
      BY <1>4, <3>1
  <2>4. L \subseteq C
    BY <1>1, <2>2, <2>3 DEF IsUnder
  <2> QED
    BY <1>2, <1>3, <2>4
<1> QED
  BY <1>2, <1>3, <1>4, <1>5, <1>6

-----------------------------------------------------------------------------
(* A new node above `it`.                                                  *)
LEMMA TopWritten ==
    ASSUME NEW t \in Trees, NEW n \in Nodes \cup {NoNode}
    PROVE  LET r == [t EXCEPT !.top = n] IN r \in Trees /\ r.top = n /\ r.node = t.node
  BY DEF Trees

IsRootInserted(r, t, it, new, side) ==
    /\ r \in Trees
    /\ r.top = IF it = t.top THEN new ELSE t.top
    /\ \A n \in Nodes : r.node[n].live <=> n = new \/ t.node[n].live
    /\ r.node[new].root = IF it = t.top THEN NoNode ELSE t.node[it].root
    /\ r.node[new][side] = it /\ r.node[new][Other(side)] = NoNode
    /\ \A n \in Nodes \ {new} : r.node[n].root = IF n = it THEN new ELSE t.node[n].root
    /\ \A n \in Nodes \ {new}, s \in Sides :
           r.node[n][s] = IF it # t.top /\ n = t.node[it].root /\ s = SideOf(t, it)
                          THEN new ELSE t.node[n][s]

LEMMA InsertRootWrites ==
    ASSUME NEW t, NEW L, Linked(t, L), NEW it, it \in L \/ (it = NoNode /\ t.top = NoNode),
           NEW new \in Nodes \ L, NEW side \in Sides
    PROVE  IsRootInserted(InsertRoot(t, it, new, side), t, it, new, side)
<1> DEFINE up == IF it = t.top THEN NoNode ELSE t.node[it].root
           nd == [Leaf(up) EXCEPT ![side] = it]
           placed == [t EXCEPT !.node[new] = nd]
           linked == IF it = t.top THEN [placed EXCEPT !.top = new]
                     ELSE [placed EXCEPT !.node[up][SideOf(t, it)] = new]
           r == InsertRoot(t, it, new, side)
<1>1. t \in Trees /\ L \subseteq Nodes /\ it \in Nodes \cup {NoNode} /\ NoNode \notin L /\ new # it
      /\ NoNode \notin Nodes /\ new \in Nodes
  BY NodesAreFinite DEF Linked
<1>2. /\ up \in Nodes \cup {NoNode} /\ up # new
      /\ it # t.top => it \in L /\ up \in L /\ up \in Nodes /\ up = t.node[it].root
  <2>1. CASE it = t.top
    BY <1>1, <2>1
  <2>2. CASE it # t.top
    BY <1>1, <2>2, SideOfLeads
  <2> QED
    BY <2>1, <2>2
<1> HIDE DEF up
<1>3. nd \in TreeNode /\ nd.root = up /\ nd.live /\ nd[side] = it /\ nd[Other(side)] = NoNode
  <2>1. Leaf(up) \in TreeNode /\ Leaf(up).root = up /\ Leaf(up).live /\ Leaf(up)[Other(side)] = NoNode
    <3>1. Other(side) \in Sides
      BY <1>1, LeafOf
    <3> QED
      BY <1>2, <3>1, LeafOf
  <2>2. IsNodeWith(nd, Leaf(up), side, it)
    BY <1>1, <2>1, NodeWith
  <2> HIDE DEF nd
  <2> QED
    BY <2>1, <2>2 DEF IsNodeWith
<1> HIDE DEF nd
<1>4. IsWith(placed, t, new, nd)
  BY <1>1, <1>3, WithOf DEF With
<1> HIDE DEF placed
<1>5. placed \in Trees /\ placed.top = t.top
  BY <1>4 DEF IsWith
<1>6. /\ linked \in Trees /\ linked.top = IF it = t.top THEN new ELSE t.top
      /\ linked.node[new] = nd
      /\ \A n \in Nodes \ {new} : linked.node[n].root = t.node[n].root /\ linked.node[n].live = t.node[n].live
      /\ \A n \in Nodes \ {new}, s \in Sides :
           linked.node[n][s] = IF it # t.top /\ n = t.node[it].root /\ s = SideOf(t, it)
                               THEN new ELSE t.node[n][s]
  <2>1. CASE it = t.top
    <3>1. linked \in Trees /\ linked.top = new /\ linked.node = placed.node
      BY <1>1, <1>5, <2>1, TopWritten
    <3> HIDE DEF linked
    <3> QED
      BY <1>4, <2>1, <3>1 DEF IsWith
  <2>2. CASE it # t.top
    <3> DEFINE s == SideOf(t, it)
               e == [placed.node[up] EXCEPT ![s] = new]
    <3>1. s \in Sides /\ up \in Nodes /\ up = t.node[it].root /\ up # new
      BY <1>2, <2>2, SideOfLeads
    <3> HIDE DEF s
    <3>2. linked = With(placed, up, e)
      <4>1. [placed EXCEPT !.node[up][s] = new] = With(placed, up, e)
        <5>1. placed.node \in [Nodes -> TreeNode] /\ placed = [top |-> placed.top, node |-> placed.node]
          BY <1>5 DEF Trees
        <5> QED
          BY <3>1, <5>1 DEF With
      <4> QED
        BY <2>2, <4>1 DEF s
    <3>3. placed.node[up] = t.node[up] /\ placed.node[up] \in TreeNode
      BY <1>4, <1>5, <3>1, NodeOf DEF IsWith
    <3>4. IsNodeWith(e, t.node[up], s, new)
      BY <1>1, <3>1, <3>3, NodeWith
    <3> HIDE DEF e, linked
    <3>5. IsWith(linked, placed, up, e)
      BY <1>5, <3>1, <3>2, <3>4, WithOf DEF IsNodeWith
    <3>6. linked \in Trees /\ linked.top = t.top /\ linked.node[new] = nd
      BY <1>1, <1>4, <1>5, <3>1, <3>5 DEF IsWith
    <3>7. ASSUME NEW n \in Nodes \ {new}
          PROVE  /\ linked.node[n].root = t.node[n].root /\ linked.node[n].live = t.node[n].live
                 /\ \A q \in Sides : linked.node[n][q] = IF n = up /\ q = s THEN new ELSE t.node[n][q]
      <4>1. CASE n = up
        <5>1. linked.node[n] = e
          BY <3>5, <4>1 DEF IsWith
        <5>2. \A q \in Sides : q = s \/ q = Other(s)
          BY <3>1, LeafOf
        <5>3. Other(s) # s
          BY <3>1, LeafOf
        <5> QED
          BY <3>4, <4>1, <5>1, <5>2, <5>3 DEF IsNodeWith
      <4>2. CASE n # up
        BY <1>4, <3>5, <4>2 DEF IsWith
      <4> QED
        BY <4>1, <4>2
    <3> QED
      BY <2>2, <3>1, <3>6, <3>7 DEF s
  <2> QED
    BY <2>1, <2>2
<1>7. r = IF it = NoNode THEN linked ELSE [linked EXCEPT !.node[it].root = new]
  BY DEF InsertRoot, up, nd, placed
<1> HIDE DEF linked, r
<1>8. /\ r \in Trees /\ r.top = linked.top /\ r.node[new] = nd
      /\ \A n \in Nodes : r.node[n].live = linked.node[n].live
      /\ \A n \in Nodes, s \in Sides : r.node[n][s] = linked.node[n][s]
      /\ \A n \in Nodes \ {new} : r.node[n].root = IF n = it THEN new ELSE linked.node[n].root
  <2>1. CASE it = NoNode
    BY <1>1, <1>6, <1>7, <2>1
  <2>2. CASE it # NoNode
    <3> DEFINE e == [linked.node[it] EXCEPT !.root = new]
    <3>1. it \in Nodes /\ linked.node[it] \in TreeNode
      BY <1>1, <1>6, <2>2, NodeOf
    <3>2. r = With(linked, it, e)
      <4>1. linked \in Trees
        BY <1>6
      <4>2. [linked EXCEPT !.node[it].root = new] = With(linked, it, e)
        BY <3>1, <4>1, RootWritten
      <4> QED
        BY <1>7, <2>2, <4>2
    <3>3. /\ e \in TreeNode /\ e.root = new /\ e.left = linked.node[it].left
          /\ e.right = linked.node[it].right /\ e.live = linked.node[it].live
      BY <1>1, <3>1, NodeWith
    <3> HIDE DEF e
    <3>4. IsWith(r, linked, it, e)
      BY <1>6, <3>1, <3>2, <3>3, WithOf
    <3>5. \A s \in Sides : e[s] = linked.node[it][s]
      BY <3>3 DEF Sides
    <3>6. r \in Trees /\ r.top = linked.top /\ r.node[new] = nd
      BY <1>1, <1>6, <3>4 DEF IsWith
    <3>7. \A n \in Nodes : (n = it /\ r.node[n] = e) \/ (n # it /\ r.node[n] = linked.node[n])
      BY <3>4 DEF IsWith
    <3> QED
      BY <1>1, <3>3, <3>5, <3>6, <3>7
  <2> QED
    BY <2>1, <2>2
<1>9. r.node[new].root = IF it = t.top THEN NoNode ELSE t.node[it].root
  BY <1>2, <1>3, <1>8 DEF up
<1>10. \A n \in Nodes : r.node[n].live <=> n = new \/ t.node[n].live
  BY <1>3, <1>6, <1>8
<1> QED
  BY <1>1, <1>3, <1>6, <1>8, <1>9, <1>10 DEF IsRootInserted, r

LEMMA RootInserted ==
    ASSUME NEW t, NEW L, Linked(t, L), NEW it, it \in L \/ (it = NoNode /\ t.top = NoNode),
           NEW new \in Nodes \ L, NEW side \in Sides, NEW r, IsRootInserted(r, t, it, new, side)
    PROVE  Linked(r, L \cup {new})
<1> DEFINE M == L \cup {new}
           up == t.node[it].root
           s == SideOf(t, it)
<1>1. IsRootInserted(r, t, it, new, side)
  OBVIOUS
<1>2. /\ t \in Trees /\ L \subseteq Nodes /\ NoNode \notin L /\ new # it /\ new # NoNode
      /\ new \in Nodes /\ r \in Trees
      /\ \A q \in Sides : q = side \/ q = Other(side)
      /\ Other(side) \in Sides /\ Other(side) # side
      /\ it = NoNode => L = {}
  <2>1. /\ t \in Trees /\ L \subseteq Nodes /\ NoNode \notin L /\ new # NoNode /\ new \in Nodes
        /\ t.top = NoNode => L = {}
    BY NodesAreFinite DEF Linked
  <2>2. r \in Trees
    BY <1>1 DEF IsRootInserted
  <2>3. /\ \A q \in Sides : q = side \/ q = Other(side)
        /\ Other(side) \in Sides /\ Other(side) # side
    BY LeafOf
  <2>4. it = NoNode => L = {}
    BY <2>1
  <2> QED
    BY <2>1, <2>2, <2>3, <2>4
<1>3. ASSUME it # t.top
      PROVE  /\ it \in L /\ up \in L /\ up # it /\ up # new /\ s \in Sides
             /\ t.node[up][s] = it /\ t.node[up][Other(s)] # it
             /\ Other(s) \in Sides /\ Other(s) # s
             /\ r.node[up][s] = new
  <2>1. /\ it \in L /\ up \in L /\ up # it /\ s \in Sides
        /\ t.node[up][s] = it /\ t.node[up][Other(s)] # it
    BY <1>3, SideOfLeads
  <2>2. Other(s) \in Sides /\ Other(s) # s
    BY <2>1, LeafOf
  <2> QED
    BY <1>1, <1>2, <1>3, <2>1, <2>2 DEF IsRootInserted
<1>4. /\ r.top # NoNode /\ r.top \in M
      /\ r.node[r.top].root = NoNode
  <2>1. CASE it = t.top
    BY <1>1, <1>2, <2>1 DEF IsRootInserted
  <2>2. CASE it # t.top
    <3>1. t.top \in L /\ t.top # NoNode /\ t.node[t.top].root = NoNode
      BY <1>3, <2>2, LinkedNodes
    <3> QED
      BY <1>1, <1>2, <2>2, <3>1 DEF IsRootInserted
  <2> QED
    BY <2>1, <2>2
(* A link is to `it`, or to the new node, or an old one.                   *)
<1>5. ASSUME NEW n \in L, NEW q \in Sides, r.node[n][q] # NoNode
      PROVE  \/ /\ it # t.top /\ n = up /\ q = s /\ r.node[n][q] = new
             \/ /\ r.node[n][q] = t.node[n][q] /\ t.node[n][q] \in L /\ t.node[n][q] # it
                /\ t.node[t.node[n][q]].root = n
  <2>1. CASE it # t.top /\ n = up /\ q = s
    BY <1>3, <2>1
  <2>2. CASE ~(it # t.top /\ n = up /\ q = s)
    <3>1. r.node[n][q] = t.node[n][q]
      BY <1>1, <1>2, <1>5, <2>2 DEF IsRootInserted
    <3>2. t.node[n][q] \in L /\ t.node[t.node[n][q]].root = n
      BY <1>2, <1>5, <3>1, LinkedNodes DEF Linked
    <3>3. t.node[n][q] # it
      <4> SUFFICES ASSUME t.node[n][q] = it
                   PROVE  FALSE
        OBVIOUS
      <4>1. it \in L /\ n = up
        BY <3>2
      <4>2. it # t.top
        BY <4>1, <1>2, LinkedNodes
      <4>3. q = Other(s)
        BY <1>3, <2>2, <4>1, <4>2, LeafOf
      <4> QED
        BY <1>3, <4>1, <4>2, <4>3
    <3> QED
      BY <3>1, <3>2, <3>3
  <2> QED
    BY <2>1, <2>2
<1>6. \A q \in Sides : r.node[new][q] \in {it, NoNode}
  BY <1>1, <1>2 DEF IsRootInserted
<1>7. r.node[new][side] = it /\ r.node[new][Other(side)] = NoNode
  BY <1>1 DEF IsRootInserted
<1>8. \A n \in L : r.node[n].root = IF n = it THEN new ELSE t.node[n].root
  BY <1>1, <1>2 DEF IsRootInserted
<1>9. r.node[new].root = IF it = t.top THEN NoNode ELSE up
  BY <1>1 DEF IsRootInserted
<1> HIDE DEF up, s
<1>10. Closed(r, M)
  <2> SUFFICES ASSUME NEW n \in M, NEW q \in Sides, r.node[n][q] # NoNode
               PROVE  r.node[n][q] \in M
    BY DEF Closed
  <2>1. CASE n = new
    BY <1>6, <2>1
  <2>2. CASE n \in L
    BY <1>5, <2>2
  <2> QED
    BY <2>1, <2>2
<1>11. ASSUME NEW n \in M, NEW q \in Sides, r.node[n][q] # NoNode
       PROVE  r.node[r.node[n][q]].root = n /\ r.node[n][Other(q)] # r.node[n][q]
  <2>1. CASE n = new
    <3>1. r.node[n][q] = it /\ it \in L /\ q = side
      BY <1>2, <1>6, <1>7, <1>11, <2>1
    <3> QED
      BY <1>2, <1>7, <1>8, <2>1, <3>1
  <2>2. CASE n \in L
    <3>1. CASE it # t.top /\ n = up /\ q = s /\ r.node[n][q] = new
      <4>1. r.node[n][Other(q)] # new
        <5>1. r.node[n][Other(s)] # NoNode => r.node[n][Other(s)] \in L
          BY <1>3, <1>5, <2>2, <3>1
        <5> QED
          BY <1>2, <3>1, <5>1
      <4> QED
        BY <1>9, <3>1, <4>1
    <3>2. CASE /\ r.node[n][q] = t.node[n][q] /\ t.node[n][q] \in L /\ t.node[n][q] # it
               /\ t.node[t.node[n][q]].root = n
      <4>1. r.node[r.node[n][q]].root = n
        BY <1>8, <3>2
      <4>2. t.node[n][Other(q)] # t.node[n][q]
        BY <1>11, <2>2, <3>2 DEF Linked
      <4>3. Other(q) \in Sides
        BY LeafOf
      <4>4. \/ r.node[n][Other(q)] = NoNode \/ r.node[n][Other(q)] = new
            \/ r.node[n][Other(q)] = t.node[n][Other(q)]
        BY <1>5, <2>2, <4>3
      <4> QED
        BY <1>2, <1>11, <3>2, <4>1, <4>2, <4>4
    <3> QED
      BY <1>5, <1>11, <2>2, <3>1, <3>2
  <2> QED
    BY <2>1, <2>2
<1>12. ASSUME NEW C \in SUBSET Nodes, r.top \in C, Closed(r, C)
       PROVE  M \subseteq C
  <2>1. new \in C /\ it # NoNode => it \in C
    BY <1>7, <1>12 DEF Closed
  <2>2. CASE it = NoNode
    <3>1. L = {} /\ new \in C
      BY <1>1, <1>2, <1>12, <2>2 DEF IsRootInserted
    <3> QED
      BY <3>1
  <2>3. CASE it # NoNode
    <3> DEFINE B == C \cap L
    <3>1. t.top \in L /\ it \in L /\ IsUnder(t, t.top, L)
      BY <2>3, LinkedNodes DEF Linked
    <3>2. t.top \in B
      BY <1>1, <1>12, <2>1, <2>3, <3>1 DEF IsRootInserted
    <3>3. Closed(t, B)
      <4> SUFFICES ASSUME NEW n \in B, NEW q \in Sides, t.node[n][q] # NoNode
                   PROVE  t.node[n][q] \in C
        BY <1>2, LinkedNodes DEF Closed
      <4>1. CASE it # t.top /\ n = up /\ q = s
        <5>1. r.node[n][q] = new /\ t.node[n][q] = it
          BY <1>3, <4>1
        <5>2. new \in C
          BY <1>2, <1>12, <5>1 DEF Closed
        <5> QED
          BY <2>1, <2>3, <5>1, <5>2
      <4>2. CASE ~(it # t.top /\ n = up /\ q = s)
        <5>1. r.node[n][q] = t.node[n][q]
          BY <1>1, <1>2, <4>2 DEF IsRootInserted, up, s
        <5> QED
          BY <1>12, <5>1 DEF Closed
      <4> QED
        BY <4>1, <4>2
    <3>4. L \subseteq C
      BY <3>1, <3>2, <3>3 DEF IsUnder
    <3>5. new \in C
      <4>1. CASE it = t.top
        BY <1>1, <1>12, <4>1 DEF IsRootInserted
      <4>2. CASE it # t.top
        BY <1>2, <1>3, <1>12, <3>4, <4>2 DEF Closed
      <4> QED
        BY <4>1, <4>2
    <3> QED
      BY <3>4, <3>5
  <2> QED
    BY <2>2, <2>3
<1>13. \A n \in Nodes : r.node[n].live <=> n \in M
  BY <1>1 DEF IsRootInserted, Linked
<1>14. IsUnder(r, r.top, M)
  BY <1>2, <1>4, <1>10, <1>12 DEF IsUnder
<1> QED
  BY <1>2, <1>4, <1>11, <1>13, <1>14 DEF Linked

LEMMA InsertRootLinked ==
    ASSUME NEW t, NEW L, Linked(t, L), NEW it, it \in L \/ (it = NoNode /\ t.top = NoNode),
           NEW new \in Nodes \ L, NEW side \in Sides
    PROVE  Linked(InsertRoot(t, it, new, side), L \cup {new})
  BY InsertRootWrites, RootInserted

-----------------------------------------------------------------------------
(* A new node below `it`.                                                  *)
IsLeafAdded(r, t, it, child, new) ==
    /\ r \in Trees /\ r.top = t.top
    /\ \A n \in Nodes : r.node[n].live <=> n = new \/ t.node[n].live
    /\ r.node[new].root = it
    /\ \A q \in Sides : r.node[new][q] = NoNode
    /\ \A n \in Nodes \ {new} : r.node[n].root = t.node[n].root
    /\ \A n \in Nodes \ {new}, q \in Sides :
           r.node[n][q] = IF n = it /\ q = child THEN new ELSE t.node[n][q]

LEMMA LeafAdded ==
    ASSUME NEW t, NEW L, Linked(t, L), NEW it \in L, NEW child \in Sides,
           t.node[it][child] = NoNode,
           NEW new \in Nodes \ L, NEW r, IsLeafAdded(r, t, it, child, new)
    PROVE  Linked(r, L \cup {new})
<1> DEFINE M == L \cup {new}
<1>1. /\ t \in Trees /\ L \subseteq Nodes /\ NoNode \notin L /\ new # it /\ new # NoNode
      /\ new \in Nodes /\ r \in Trees
      /\ t.top \in L /\ t.top # NoNode /\ t.node[t.top].root = NoNode /\ r.top = t.top
      /\ IsUnder(t, t.top, L)
  <2>1. t \in Trees /\ L \subseteq Nodes /\ NoNode \notin Nodes /\ (t.top # NoNode => IsUnder(t, t.top, L))
    BY NodesAreFinite DEF Linked
  <2>2. t.top \in L /\ t.top # NoNode /\ t.node[t.top].root = NoNode
    BY LinkedNodes
  <2> QED
    BY <2>1, <2>2 DEF IsLeafAdded
<1>2. \A q \in Sides : r.node[new][q] = NoNode
  BY DEF IsLeafAdded
<1>3. \A n \in L : r.node[n].root = t.node[n].root
  BY <1>1 DEF IsLeafAdded
<1>4. \A n \in L, q \in Sides :
          \/ n = it /\ q = child /\ r.node[n][q] = new /\ t.node[n][q] = NoNode
          \/ ~(n = it /\ q = child) /\ r.node[n][q] = t.node[n][q]
  BY <1>1 DEF IsLeafAdded
<1>5. r.node[new].root = it
  BY DEF IsLeafAdded
<1>6. \A n \in L, q \in Sides : t.node[n][q] # NoNode =>
          /\ t.node[n][q] \in L /\ t.node[t.node[n][q]].root = n
          /\ t.node[n][Other(q)] # t.node[n][q]
  BY LinkedNodes DEF Linked
<1>7. Closed(r, M)
  BY <1>2, <1>4, <1>6 DEF Closed
<1>8. ASSUME NEW n \in M, NEW q \in Sides, r.node[n][q] # NoNode
      PROVE  r.node[r.node[n][q]].root = n /\ r.node[n][Other(q)] # r.node[n][q]
  <2>1. n \in L /\ n # new
    BY <1>2, <1>8
  <2>2. Other(q) \in Sides /\ Other(q) # q
    BY LeafOf
  <2>3. CASE n = it /\ q = child
    <3>1. r.node[n][q] = new
      BY <1>4, <2>1, <2>3
    <3>2. r.node[n][Other(q)] = t.node[n][Other(q)]
      BY <1>4, <2>1, <2>2, <2>3
    <3>3. t.node[n][Other(q)] # new
      BY <1>1, <1>6, <2>1, <2>2
    <3> QED
      BY <1>5, <2>3, <3>1, <3>2, <3>3
  <2>4. CASE ~(n = it /\ q = child)
    <3>1. r.node[n][q] = t.node[n][q] /\ t.node[n][q] \in L /\ t.node[t.node[n][q]].root = n
          /\ t.node[n][Other(q)] # t.node[n][q]
      BY <1>4, <1>6, <1>8, <2>1, <2>4
    <3>2. r.node[n][Other(q)] = new \/ r.node[n][Other(q)] = t.node[n][Other(q)]
      BY <1>4, <2>1, <2>2
    <3> QED
      BY <1>1, <1>3, <3>1, <3>2
  <2> QED
    BY <2>3, <2>4
<1>9. ASSUME NEW C \in SUBSET Nodes, r.top \in C, Closed(r, C)
      PROVE  M \subseteq C
  <2> DEFINE B == C \cap L
  <2>1. t.top \in B
    BY <1>1, <1>9
  <2>2. Closed(t, B)
    BY <1>4, <1>6, <1>9 DEF Closed
  <2>3. L \subseteq C
    BY <1>1, <2>1, <2>2 DEF IsUnder
  <2>4. new \in C
    <3>1. r.node[it][child] = new /\ it \in C
      BY <1>4, <2>3
    <3> QED
      BY <1>1, <1>9, <3>1 DEF Closed
  <2> QED
    BY <2>3, <2>4
<1>10. \A n \in Nodes : r.node[n].live <=> n \in M
  BY DEF IsLeafAdded, Linked
<1>11. IsUnder(r, r.top, M)
  BY <1>1, <1>7, <1>9 DEF IsUnder
<1>12. r.node[r.top].root = NoNode
  BY <1>1, <1>3
<1> QED
  BY <1>1, <1>8, <1>10, <1>11, <1>12 DEF Linked

LEMMA InsertChildWrites ==
    ASSUME NEW t, NEW L, Linked(t, L), NEW it \in L, NEW child \in Sides,
           NEW new \in Nodes \ L, NEW side \in Sides
    PROVE  LET r == InsertChild(t, it, child, new, side)
               old == t.node[it][child]
           IN /\ old = NoNode => IsLeafAdded(r, t, it, child, new)
              /\ old # NoNode => old \in L /\ IsRootInserted(r, t, old, new, side)
<1> DEFINE old == t.node[it][child]
           nd == [Leaf(it) EXCEPT ![side] = old]
           one == [t EXCEPT !.node[new] = nd]
           e == [one.node[it] EXCEPT ![child] = new]
           placed == [t EXCEPT !.node[new] = nd, !.node[it][child] = new]
           r == InsertChild(t, it, child, new, side)
<1>1. /\ t \in Trees /\ L \subseteq Nodes /\ it \in Nodes /\ NoNode \notin L /\ new # it
      /\ NoNode \notin Nodes /\ new \in Nodes /\ old \in L \cup {NoNode}
  BY LinkedNodes, NodesAreFinite DEF Linked
<1>2. old # NoNode => /\ old \in L /\ t.node[old].root = it /\ old # it /\ old # t.top
                      /\ SideOf(t, old) = child
  <2> SUFFICES ASSUME old # NoNode
               PROVE  /\ old \in L /\ t.node[old].root = it /\ old # it /\ old # t.top
                      /\ SideOf(t, old) = child
    OBVIOUS
  <2>1. old \in L /\ t.node[old].root = it /\ t.node[it][Other(child)] # old
    BY <1>1 DEF Linked
  <2>2. old # it
    BY <2>1, LinkedNodes
  <2>3. old # t.top
    BY <1>1, <2>1, LinkedNodes
  <2>4. SideOf(t, old) = child
    BY <2>1 DEF SideOf, Sides, Other
  <2> QED
    BY <2>1, <2>2, <2>3, <2>4
<1> HIDE DEF old
<1>3. nd \in TreeNode /\ nd.root = it /\ nd.live /\ nd[side] = old /\ nd[Other(side)] = NoNode
  <2>1. Other(side) \in Sides
    BY LeafOf
  <2>2. Leaf(it) \in TreeNode /\ Leaf(it).root = it /\ Leaf(it).live /\ Leaf(it)[Other(side)] = NoNode
    BY <1>1, <2>1, LeafOf
  <2>3. old \in Nodes \cup {NoNode}
    BY <1>1
  <2>4. IsNodeWith(nd, Leaf(it), side, old)
    BY <2>2, <2>3, NodeWith
  <2> HIDE DEF nd
  <2> QED
    BY <2>2, <2>4 DEF IsNodeWith
<1> HIDE DEF nd
<1>4. IsWith(one, t, new, nd)
  BY <1>1, <1>3, WithOf DEF With
<1>5. placed = With(one, it, e)
  <2>1. t.node \in [Nodes -> TreeNode] /\ t = [top |-> t.top, node |-> t.node]
    BY <1>1 DEF Trees
  <2> QED
    BY <1>1, <2>1 DEF With
<1> HIDE DEF one
<1>6. one.node[it] = t.node[it] /\ one.node[it] \in TreeNode /\ one \in Trees
  BY <1>1, <1>4, NodeOf DEF IsWith
<1>7. IsNodeWith(e, t.node[it], child, new)
  BY <1>1, <1>6, NodeWith
<1> HIDE DEF e, placed
<1>8. IsWith(placed, one, it, e)
  BY <1>1, <1>5, <1>6, <1>7, WithOf DEF IsNodeWith
<1>9. /\ placed \in Trees /\ placed.top = t.top /\ placed.node[new] = nd
      /\ \A n \in Nodes : placed.node[n].live <=> n = new \/ t.node[n].live
      /\ \A n \in Nodes \ {new} : placed.node[n].root = t.node[n].root
      /\ \A n \in Nodes \ {new}, q \in Sides :
             placed.node[n][q] = IF n = it /\ q = child THEN new ELSE t.node[n][q]
  <2>1. placed \in Trees /\ placed.top = t.top /\ placed.node[new] = nd
    BY <1>1, <1>4, <1>8 DEF IsWith
  <2>2. \A n \in Nodes : \/ n = new /\ placed.node[n] = nd
                         \/ n = it /\ placed.node[n] = e
                         \/ n # new /\ n # it /\ placed.node[n] = t.node[n]
    BY <1>1, <1>4, <1>8 DEF IsWith
  <2>3. e.root = t.node[it].root /\ e.live = t.node[it].live
        /\ \A q \in Sides : e[q] = IF q = child THEN new ELSE t.node[it][q]
    <3>1. \A q \in Sides : q = child \/ q = Other(child)
      BY LeafOf
    <3> QED
      BY <1>7, <3>1 DEF IsNodeWith
  <2>4. ASSUME NEW n \in Nodes \ {new}, NEW q \in Sides
        PROVE  placed.node[n][q] = IF n = it /\ q = child THEN new ELSE t.node[n][q]
    <3>1. CASE n = it
      BY <2>2, <2>3, <2>4, <3>1
    <3>2. CASE n # it
      BY <2>2, <2>4, <3>2
    <3> QED
      BY <3>1, <3>2
  <2>5. \A n \in Nodes : placed.node[n].live <=> n = new \/ t.node[n].live
    BY <1>1, <1>3, <2>2, <2>3
  <2>6. \A n \in Nodes \ {new} : placed.node[n].root = t.node[n].root
    BY <2>2, <2>3
  <2> QED
    BY <2>1, <2>4, <2>5, <2>6
<1>10. r = IF old = NoNode THEN placed ELSE [placed EXCEPT !.node[old].root = new]
  BY DEF InsertChild, old, nd, placed
<1> HIDE DEF r
<1>11. CASE old = NoNode
  <2>1. \A q \in Sides : nd[q] = NoNode
    <3>1. \A q \in Sides : q = side \/ q = Other(side)
      BY LeafOf
    <3> QED
      BY <1>3, <1>11, <3>1
  <2>2. IsLeafAdded(r, t, it, child, new)
    BY <1>3, <1>9, <1>10, <1>11, <2>1 DEF IsLeafAdded
  <2> QED
    BY <1>11, <2>2 DEF r, old
<1>12. CASE old # NoNode
  <2> DEFINE f == [placed.node[old] EXCEPT !.root = new]
  <2>1. old \in Nodes /\ old # new /\ old \in L
    BY <1>1, <1>12
  <2>2. placed.node[old] \in TreeNode /\ placed \in Trees
    BY <1>9, <2>1, NodeOf
  <2>3. r = With(placed, old, f)
    <3>1. [placed EXCEPT !.node[old].root = new] = With(placed, old, f)
      BY <2>1, <2>2, RootWritten
    <3> QED
      BY <1>10, <1>12, <3>1
  <2>4. /\ f \in TreeNode /\ f.root = new /\ f.left = placed.node[old].left
        /\ f.right = placed.node[old].right /\ f.live = placed.node[old].live
    BY <1>1, <2>2, NodeWith
  <2> HIDE DEF f
  <2>5. IsWith(r, placed, old, f)
    BY <2>1, <2>2, <2>3, <2>4, WithOf
  <2>6. \A q \in Sides : f[q] = placed.node[old][q]
    BY <2>4 DEF Sides
  <2>7. \A n \in Nodes : (n = old /\ r.node[n] = f) \/ (n # old /\ r.node[n] = placed.node[n])
    BY <2>5 DEF IsWith
  <2>8. r \in Trees /\ r.top = t.top /\ r.node[new] = nd
    BY <1>1, <1>9, <2>1, <2>5 DEF IsWith
  <2>9. \A n \in Nodes : r.node[n].live <=> n = new \/ t.node[n].live
    BY <1>9, <2>4, <2>7
  <2>10. \A n \in Nodes \ {new} : r.node[n].root = IF n = old THEN new ELSE t.node[n].root
    BY <1>9, <2>4, <2>7
  <2>11. \A n \in Nodes \ {new}, q \in Sides :
             r.node[n][q] = IF n = it /\ q = child THEN new ELSE t.node[n][q]
    BY <1>9, <2>6, <2>7
  <2>12. IsRootInserted(r, t, old, new, side)
    BY <1>2, <1>3, <1>12, <2>8, <2>9, <2>10, <2>11 DEF IsRootInserted
  <2> QED
    BY <1>12, <2>1, <2>12 DEF r, old
<1> QED
  BY <1>11, <1>12

LEMMA InsertChildLinked ==
    ASSUME NEW t, NEW L, Linked(t, L), NEW it \in L, NEW child \in Sides,
           NEW new \in Nodes \ L, NEW side \in Sides
    PROVE  Linked(InsertChild(t, it, child, new, side), L \cup {new})
<1> DEFINE r == InsertChild(t, it, child, new, side)
           old == t.node[it][child]
<1>1. /\ old = NoNode => IsLeafAdded(r, t, it, child, new)
      /\ old # NoNode => old \in L /\ IsRootInserted(r, t, old, new, side)
  BY InsertChildWrites
<1> HIDE DEF r
<1>2. CASE old = NoNode
  BY <1>1, <1>2, LeafAdded DEF r
<1>3. CASE old # NoNode
  BY <1>1, <1>3, RootInserted DEF r
<1> QED
  BY <1>2, <1>3

-----------------------------------------------------------------------------
(* What goes with the children of `it`.                                    *)
LEMMA DeleteOf ==
    ASSUME NEW t \in Trees, NEW gone \in SUBSET Nodes
    PROVE  LET r == Delete(t, gone)
           IN /\ r \in Trees /\ r.top = t.top
              /\ \A n \in gone : r.node[n] = DeadNode
              /\ \A n \in Nodes \ gone : r.node[n] = t.node[n]
<1>1. t.node \in [Nodes -> TreeNode] /\ t = [top |-> t.top, node |-> t.node]
      /\ t.top \in Nodes \cup {NoNode}
  BY DEF Trees
<1> DEFINE new == [n \in Nodes |-> IF n \in gone THEN DeadNode ELSE t.node[n]]
<1>2. Delete(t, gone) = [top |-> t.top, node |-> new]
  BY <1>1 DEF Delete
<1>3. DeadNode \in TreeNode
  BY LeafOf
<1>4. new \in [Nodes -> TreeNode]
  BY <1>1, <1>3
<1> QED
  BY <1>1, <1>2, <1>4 DEF Trees

LEMMA WholeTreeIsCut ==
    ASSUME NEW t, NEW L, Linked(t, L)
    PROVE  IsCut(t, t, L)
  BY DEF IsCut, Linked

Pruned(t, L, it) == L \ (Subtree(t, it) \ {it})
LinksErased(r, t, M, it) ==
    /\ r.top = t.top
    /\ \A n \in M, q \in Sides : r.node[n][q] = IF n = it THEN NoNode ELSE t.node[n][q]
LinksMerged(m, t, M, it, l, r) ==
    /\ m.top = t.top
    /\ \A n \in M, q \in Sides :
           IF n = it THEN m.node[n][q] \in {l, r} ELSE m.node[n][q] = t.node[n][q]
    /\ \A n \in {l, r}, q \in Sides : m.node[n][q] = NoNode

LEMMA EraseChildrenLinked ==
    ASSUME NEW t, NEW L, Linked(t, L), NEW it \in L
    PROVE  LET r == EraseChildren(t, it)
           IN /\ Linked(r, Pruned(t, L, it)) /\ it \in Pruned(t, L, it)
              /\ r.node[it].left = NoNode /\ r.node[it].right = NoNode
              /\ LinksErased(r, t, Pruned(t, L, it), it)
<1> DEFINE D == Subtree(t, it)
           gone == D \ {it}
           M == L \ gone
           cut == Delete(t, gone)
           e == [cut.node[it] EXCEPT !.left = NoNode, !.right = NoNode]
           r == EraseChildren(t, it)
<1>1. /\ t \in Trees /\ L \subseteq Nodes /\ it \in Nodes /\ NoNode \notin L
      /\ t.top \in L /\ t.top # NoNode /\ t.node[t.top].root = NoNode
  <2>1. t \in Trees /\ L \subseteq Nodes
    BY DEF Linked
  <2> QED
    BY <2>1, LinkedNodes
<1>2. IsUnder(t, t.top, L)
  BY <1>1 DEF Linked
<1>3. IsUnder(t, it, D)
  BY <1>1, SubtreeOf
<1> HIDE DEF D
<1>4. /\ D \subseteq L /\ it \in D
      /\ \A d \in D : d # it => t.node[d].root \in D
      /\ t.top \in D => t.top = it
  <2>1. IsCut(t, t, L)
    BY WholeTreeIsCut
  <2> QED
    BY <1>3, <2>1, BelowOf
<1>5. Closed(t, D) /\ Closed(t, L)
  BY <1>2, <1>3 DEF IsUnder
<1>6. gone \in SUBSET Nodes /\ it \in Nodes \ gone /\ it \in M
  BY <1>1, <1>4
<1>7. /\ cut \in Trees /\ cut.top = t.top
      /\ \A n \in gone : cut.node[n] = DeadNode
      /\ \A n \in Nodes \ gone : cut.node[n] = t.node[n]
  BY <1>1, <1>6, DeleteOf
<1>8. r = With(cut, it, e)
  <2>1. cut.node \in [Nodes -> TreeNode] /\ cut = [top |-> cut.top, node |-> cut.node]
    BY <1>7 DEF Trees
  <2>2. r = [cut EXCEPT !.node[it].left = NoNode, !.node[it].right = NoNode]
    BY DEF EraseChildren, D
  <2> HIDE DEF r, cut
  <2> QED
    BY <1>1, <2>1, <2>2 DEF With
<1> HIDE DEF cut, r
<1>9. e \in TreeNode /\ e.root = t.node[it].root /\ e.live = t.node[it].live
      /\ e.left = NoNode /\ e.right = NoNode
  <2>1. cut.node[it] = t.node[it] /\ t.node[it] \in TreeNode
    BY <1>1, <1>6, <1>7, NodeOf
  <2> QED
    BY <2>1 DEF TreeNode
<1> HIDE DEF e
<1>10. IsWith(r, cut, it, e)
  BY <1>1, <1>7, <1>8, <1>9, WithOf
<1>11. /\ r \in Trees /\ r.top = t.top /\ r.node[it] = e
       /\ \A n \in gone : r.node[n] = DeadNode
       /\ \A n \in Nodes \ gone : n # it => r.node[n] = t.node[n]
  BY <1>1, <1>6, <1>7, <1>10 DEF IsWith
<1>12. \A q \in Sides : e[q] = NoNode
  BY <1>9 DEF Sides
<1>13. \A n \in M : r.node[n].root = t.node[n].root
  BY <1>1, <1>9, <1>11
<1>14. \A n \in M, q \in Sides :
           \/ n = it /\ r.node[n][q] = NoNode
           \/ n # it /\ r.node[n][q] = t.node[n][q]
  BY <1>1, <1>11, <1>12
<1>15. \A n \in L, q \in Sides : t.node[n][q] # NoNode =>
          /\ t.node[n][q] \in L /\ t.node[t.node[n][q]].root = n
          /\ t.node[n][Other(q)] # t.node[n][q]
  BY LinkedNodes DEF Linked
<1>16. \A n \in M, q \in Sides : n # it /\ t.node[n][q] # NoNode => t.node[n][q] \in M
  <2> SUFFICES ASSUME NEW n \in M, NEW q \in Sides, n # it, t.node[n][q] # NoNode,
                      t.node[n][q] \in gone
               PROVE  FALSE
    BY <1>15
  <2>1. t.node[t.node[n][q]].root = n /\ n \notin D
    BY <1>15
  <2> QED
    BY <1>4, <2>1
<1>17. Closed(r, M)
  BY <1>14, <1>16 DEF Closed
<1>18. ASSUME NEW n \in M, NEW q \in Sides, r.node[n][q] # NoNode
       PROVE  r.node[r.node[n][q]].root = n /\ r.node[n][Other(q)] # r.node[n][q]
  <2>1. Other(q) \in Sides
    BY LeafOf
  <2>2. n # it /\ r.node[n][q] = t.node[n][q] /\ r.node[n][Other(q)] = t.node[n][Other(q)]
    BY <1>14, <1>18, <2>1
  <2>3. t.node[n][q] \in M
    BY <1>16, <1>18, <2>2
  <2> QED
    BY <1>13, <1>15, <1>18, <2>2, <2>3
<1>19. ASSUME NEW C \in SUBSET Nodes, r.top \in C, Closed(r, C)
       PROVE  M \subseteq C
  <2> DEFINE B == (C \cap M) \cup gone
  <2>1. B \in SUBSET Nodes /\ t.top \in B
    BY <1>1, <1>4, <1>6, <1>11, <1>19
  <2>2. Closed(t, B)
    <3> SUFFICES ASSUME NEW n \in B, NEW q \in Sides, t.node[n][q] # NoNode
                 PROVE  t.node[n][q] \in B
      BY DEF Closed
    <3>1. CASE n \in D
      <4>1. t.node[n][q] \in D
        BY <1>5, <3>1 DEF Closed
      <4>2. t.node[n][q] # it
        <5> SUFFICES ASSUME t.node[n][q] = it
                     PROVE  FALSE
          OBVIOUS
        <5>1. t.node[it].root \in D
          BY <1>4, <1>15, <3>1
        <5>2. IsCut(t, t, L)
          BY WholeTreeIsCut
        <5>3. t.node[it].root \notin D
          BY <1>3, <5>2, BelowOf
        <5> QED
          BY <5>1, <5>3
      <4> QED
        BY <4>1, <4>2
    <3>2. CASE n \notin D
      <4>1. n \in C \cap M /\ n # it
        BY <1>4, <3>2
      <4>2. r.node[n][q] = t.node[n][q] /\ t.node[n][q] \in M
        BY <1>14, <1>16, <4>1
      <4> QED
        BY <1>19, <4>1, <4>2 DEF Closed
    <3> QED
      BY <3>1, <3>2
  <2>3. L \subseteq B
    BY <1>2, <2>1, <2>2 DEF IsUnder
  <2> QED
    BY <2>3
<1>20. \A n \in Nodes : r.node[n].live <=> n \in M
  <2>1. \A n \in Nodes : t.node[n].live <=> n \in L
    BY DEF Linked
  <2>2. ~DeadNode.live
    BY LeafOf
  <2> QED
    BY <1>1, <1>4, <1>6, <1>9, <1>11, <2>1, <2>2
<1>21. t.top \in M
  BY <1>1, <1>4
<1>22. IsUnder(r, r.top, M)
  BY <1>1, <1>11, <1>17, <1>19, <1>21 DEF IsUnder
<1>23. r.node[r.top].root = NoNode
  BY <1>1, <1>11, <1>13, <1>21
<1>24. Linked(r, M)
  BY <1>1, <1>11, <1>18, <1>20, <1>22, <1>23 DEF Linked
<1>25. LinksErased(r, t, M, it)
  BY <1>11, <1>14 DEF LinksErased
<1> QED
  BY <1>6, <1>9, <1>11, <1>24, <1>25 DEF Pruned, r, D

LEMMA MergeLinked ==
    ASSUME NEW t, NEW L, Linked(t, L), NEW it \in L,
           NEW l \in Nodes \ L, NEW r \in Nodes \ L, l # r
    PROVE  LET m == Merge(t, it, l, r)
               M == Pruned(t, L, it)
           IN Linked(m, (M \cup {l}) \cup {r}) /\ LinksMerged(m, t, M, it, l, r)
<1> DEFINE e == EraseChildren(t, it)
           M == Pruned(t, L, it)
           nd == [e.node[it] EXCEPT !.left = l]
           one == With(With(e, it, nd), l, Leaf(it))
           nd2 == [one.node[it] EXCEPT !.right = r]
           two == With(With(one, it, nd2), r, Leaf(it))
<1>1. /\ Linked(e, M) /\ it \in M /\ e.node[it].left = NoNode /\ e.node[it].right = NoNode
      /\ LinksErased(e, t, M, it)
  BY EraseChildrenLinked
<1>2. M \subseteq L /\ L \subseteq Nodes /\ it \in Nodes /\ l # it /\ r # it
      /\ e \in Trees /\ e.node[it] \in TreeNode /\ l \in Nodes /\ r \in Nodes
  BY <1>1, NodeOf DEF Pruned, Linked
<1> HIDE DEF M
<1>3. Merge(t, it, l, r) = two
  <2>1. e.node \in [Nodes -> TreeNode] /\ e = [top |-> e.top, node |-> e.node]
    BY <1>2 DEF Trees
  <2>2. Merge(t, it, l, r) =
            [e EXCEPT !.node[it].left = l, !.node[it].right = r, !.node[l] = Leaf(it), !.node[r] = Leaf(it)]
    BY DEF Merge
  <2> HIDE DEF e
  <2> DEFINE f == e.node
             n1 == [f EXCEPT ![it] = [f[it] EXCEPT !.left = l]]
             n2 == [n1 EXCEPT ![it] = [n1[it] EXCEPT !.right = r]]
             n3 == [n2 EXCEPT ![l] = Leaf(it)]
             n4 == [n3 EXCEPT ![r] = Leaf(it)]
             m2 == [n1 EXCEPT ![l] = Leaf(it)]
             m3 == [m2 EXCEPT ![it] = [m2[it] EXCEPT !.right = r]]
             m4 == [m3 EXCEPT ![r] = Leaf(it)]
  <2>3. Merge(t, it, l, r) = [top |-> e.top, node |-> n4]
    BY <2>1, <2>2
  <2>4. two = [top |-> e.top, node |-> m4]
    <3>1. \A u, n, x : u = [top |-> u.top, node |-> u.node] =>
              With(u, n, x) = [top |-> u.top, node |-> [u.node EXCEPT ![n] = x]]
      BY DEF With
    <3>2. With(e, it, nd) = [top |-> e.top, node |-> n1]
      BY <2>1, <3>1
    <3>3. one = [top |-> e.top, node |-> m2]
      <4>1. With(With(e, it, nd), l, Leaf(it)) =
                [top |-> e.top, node |-> [n1 EXCEPT ![l] = Leaf(it)]]
        <5> HIDE DEF n1, nd
        <5> QED
          BY <3>1, <3>2
      <4> QED
        BY <4>1
    <3> HIDE DEF one, m2
    <3>4. With(one, it, nd2) = [top |-> e.top, node |-> m3]
      BY <3>1, <3>3
    <3> HIDE DEF m3, nd2
    <3> QED
      BY <3>1, <3>4
  <2>5. n3 = m3
    <3>1. it \in Nodes /\ l \in Nodes /\ l # it /\ DOMAIN f = Nodes
      BY <1>2, <2>1
    <3> HIDE DEF f
    <3>2. DOMAIN n1 = Nodes /\ DOMAIN n2 = Nodes /\ DOMAIN m2 = Nodes
      BY <3>1
    <3>3. m2[it] = n1[it]
      BY <3>1, <3>2
    <3> HIDE DEF n1
    <3>4. \A x \in Nodes : n3[x] = m3[x]
      BY <3>1, <3>2, <3>3
    <3>5. n3 = [x \in Nodes |-> n3[x]] /\ m3 = [x \in Nodes |-> m3[x]]
      BY <3>2
    <3> HIDE DEF n3, m3
    <3> QED
      BY <3>4, <3>5
  <2> QED
    BY <2>3, <2>4, <2>5
<1>4. /\ e.node[it] = [root |-> e.node[it].root, left |-> NoNode, right |-> NoNode, live |-> e.node[it].live]
      /\ e.node[it].root \in Nodes \cup {NoNode} /\ e.node[it].live \in BOOLEAN
  BY <1>1, <1>2 DEF TreeNode
<1>5. /\ nd \in TreeNode /\ nd.root = e.node[it].root /\ nd.live = e.node[it].live
      /\ nd.left = l /\ nd.right = NoNode
  BY <1>2, <1>4 DEF TreeNode
<1> HIDE DEF e, nd
<1>6. Leaf(it) \in TreeNode /\ Leaf(it).root = it /\ Leaf(it).live
      /\ Leaf(it).left = NoNode /\ Leaf(it).right = NoNode
  BY <1>2, LeafOf DEF Sides
<1> DEFINE a == With(e, it, nd)
<1>7. IsWith(a, e, it, nd)
  BY <1>2, <1>5, WithOf
<1> HIDE DEF a
<1>8. IsWith(one, a, l, Leaf(it))
  BY <1>2, <1>6, <1>7, WithOf DEF a, IsWith
<1> HIDE DEF one
<1>9. /\ one \in Trees /\ one.top = e.top /\ one.node[it] = nd /\ one.node[l] = Leaf(it)
      /\ \A n \in Nodes : n # it /\ n # l => one.node[n] = e.node[n]
  BY <1>2, <1>7, <1>8 DEF IsWith
<1>10. IsLeafAdded(one, e, it, "left", l)
  <2>1. \A n \in Nodes : one.node[n].live <=> n = l \/ e.node[n].live
    BY <1>2, <1>5, <1>6, <1>9
  <2>2. \A n \in Nodes \ {l} : one.node[n].root = e.node[n].root
    BY <1>5, <1>9
  <2>3. \A n \in Nodes \ {l}, q \in Sides :
            one.node[n][q] = IF n = it /\ q = "left" THEN l ELSE e.node[n][q]
    BY <1>1, <1>5, <1>9 DEF Sides, e
  <2>4. one.node[l].root = it /\ \A q \in Sides : one.node[l][q] = NoNode
    BY <1>6, <1>9 DEF Sides
  <2> QED
    BY <1>9, <2>1, <2>2, <2>3, <2>4 DEF IsLeafAdded
<1>11. Linked(one, M \cup {l})
  <2>1. Linked(e, M) /\ l \in Nodes \ M /\ e.node[it]["left"] = NoNode /\ "left" \in Sides
    BY <1>1, <1>2 DEF Sides, e
  <2> QED
    BY <1>1, <1>10, <2>1, LeafAdded
<1>12. /\ nd2 \in TreeNode /\ nd2.root = nd.root /\ nd2.live = nd.live
       /\ nd2.left = l /\ nd2.right = r
  BY <1>2, <1>5, <1>9 DEF TreeNode
<1> HIDE DEF nd2
<1> DEFINE b == With(one, it, nd2)
<1>13. IsWith(b, one, it, nd2)
  BY <1>2, <1>9, <1>12, WithOf
<1> HIDE DEF b
<1>14. IsWith(two, b, r, Leaf(it))
  BY <1>2, <1>6, <1>13, WithOf DEF b, IsWith
<1> HIDE DEF two
<1>15. /\ two \in Trees /\ two.top = one.top /\ two.node[it] = nd2 /\ two.node[r] = Leaf(it)
       /\ \A n \in Nodes : n # it /\ n # r => two.node[n] = one.node[n]
  BY <1>2, <1>13, <1>14 DEF IsWith
<1>16. IsLeafAdded(two, one, it, "right", r)
  <2>1. \A n \in Nodes : two.node[n].live <=> n = r \/ one.node[n].live
    BY <1>2, <1>6, <1>9, <1>12, <1>15
  <2>2. \A n \in Nodes \ {r} : two.node[n].root = one.node[n].root
    BY <1>9, <1>12, <1>15
  <2>3. \A n \in Nodes \ {r}, q \in Sides :
            two.node[n][q] = IF n = it /\ q = "right" THEN r ELSE one.node[n][q]
    BY <1>5, <1>9, <1>12, <1>15 DEF Sides
  <2>4. two.node[r].root = it /\ \A q \in Sides : two.node[r][q] = NoNode
    BY <1>6, <1>15 DEF Sides
  <2> QED
    BY <1>15, <2>1, <2>2, <2>3, <2>4 DEF IsLeafAdded
<1>17. Linked(two, (M \cup {l}) \cup {r})
  <2>1. r \in Nodes \ (M \cup {l}) /\ one.node[it]["right"] = NoNode /\ "right" \in Sides /\ it \in M \cup {l}
    BY <1>1, <1>2, <1>5, <1>9 DEF Sides
  <2> QED
    BY <1>11, <1>16, <2>1, LeafAdded
<1>18. LinksMerged(two, t, M, it, l, r)
  <2>1. \A q \in Sides : two.node[it][q] \in {l, r} /\ two.node[l][q] = NoNode /\ two.node[r][q] = NoNode
    BY <1>2, <1>6, <1>9, <1>12, <1>15 DEF Sides
  <2>2. two.top = t.top
    BY <1>1, <1>9, <1>15 DEF LinksErased
  <2>3. \A n \in M, q \in Sides : n # it => two.node[n][q] = t.node[n][q]
    <3>1. \A n \in M : n # it => n \in Nodes /\ n # l /\ n # r
      BY <1>2
    <3> QED
      BY <1>1, <1>9, <1>15, <3>1 DEF LinksErased
  <2> QED
    BY <2>1, <2>2, <2>3 DEF LinksMerged
<1> QED
  BY <1>3, <1>17, <1>18 DEF M

-----------------------------------------------------------------------------
(* A child takes the place of `it`.                                        *)
LiftedTree(t, it, side) ==
    [t EXCEPT !.node[t.node[it][side]].root = t.node[it].root, !.node[it][side] = NoNode]
Reserved(t, L, it, side) == L \ Subtree(LiftedTree(t, it, side), it)

LEMMA LiftedTreeIs ==
    ASSUME NEW t, NEW L, Linked(t, L), NEW it \in L, NEW side \in Sides, t.node[it][side] # NoNode
    PROVE  LET u == LiftedTree(t, it, side)
               keep == t.node[it][side]
           IN /\ u \in Trees /\ u.top = t.top
              /\ \A n \in Nodes : u.node[n].root = IF n = keep THEN t.node[it].root ELSE t.node[n].root
              /\ \A n \in Nodes : u.node[n].live = t.node[n].live
              /\ \A n \in Nodes, q \in Sides :
                     u.node[n][q] = IF n = it /\ q = side THEN NoNode ELSE t.node[n][q]
<1> DEFINE u == LiftedTree(t, it, side)
           keep == t.node[it][side]
           up == t.node[it].root
           nd == [t.node[keep] EXCEPT !.root = up]
           one == With(t, keep, nd)
           e == [t.node[it] EXCEPT ![side] = NoNode]
<1>1. /\ t \in Trees /\ keep \in Nodes /\ it \in Nodes /\ keep # it /\ up \in Nodes \cup {NoNode}
      /\ t.node[keep] \in TreeNode /\ t.node[it] \in TreeNode
  <2>1. t \in Trees /\ L \subseteq Nodes /\ keep \in L /\ t.node[keep].root = it
    BY LinkedNodes DEF Linked
  <2>2. t.node[it].root # it /\ t.node[keep].root # keep
    BY <2>1, LinkedNodes
  <2> QED
    BY <2>1, <2>2, NodeOf
<1> HIDE DEF keep, up
<1>2. u = With(one, it, e)
  <2>1. t.node \in [Nodes -> TreeNode] /\ t = [top |-> t.top, node |-> t.node]
    BY <1>1 DEF Trees
  <2> DEFINE n1 == [t.node EXCEPT ![keep] = nd]
  <2>2. \A v, n, x : v = [top |-> v.top, node |-> v.node] =>
              With(v, n, x) = [top |-> v.top, node |-> [v.node EXCEPT ![n] = x]]
    BY DEF With
  <2>3. one = [top |-> t.top, node |-> n1]
    BY <2>1, <2>2
  <2>4. With(one, it, e) = [top |-> t.top, node |-> [n1 EXCEPT ![it] = e]]
    <3> HIDE DEF one, n1, e
    <3> QED
      BY <2>2, <2>3
  <2>5. u = [top |-> t.top, node |-> [n1 EXCEPT ![it] = [n1[it] EXCEPT ![side] = NoNode]]]
    <3>1. u = [t EXCEPT !.node[keep].root = up, !.node[it][side] = NoNode]
      BY DEF LiftedTree, keep, up
    <3> HIDE DEF u, keep, up
    <3> DEFINE a == [t EXCEPT !.node[keep].root = up]
    <3>2. a = [top |-> t.top, node |-> n1]
      BY <2>1
    <3>3. u = [a EXCEPT !.node[it][side] = NoNode]
      BY <3>1
    <3> HIDE DEF a, n1
    <3>4. [a EXCEPT !.node[it][side] = NoNode] =
              [top |-> t.top, node |-> [n1 EXCEPT ![it] = [n1[it] EXCEPT ![side] = NoNode]]]
      BY <3>2
    <3> QED
      BY <3>3, <3>4
  <2>6. n1[it] = t.node[it]
    BY <1>1, <2>1
  <2> QED
    BY <2>4, <2>5, <2>6
<1>3. /\ nd \in TreeNode /\ nd.root = up /\ nd.left = t.node[keep].left
      /\ nd.right = t.node[keep].right /\ nd.live = t.node[keep].live
  BY <1>1, NodeWith
<1>4. IsNodeWith(e, t.node[it], side, NoNode)
  BY <1>1, NodeWith
<1> HIDE DEF nd, e, u
<1>5. IsWith(one, t, keep, nd)
  BY <1>1, <1>3, WithOf
<1> HIDE DEF one
<1>6. IsWith(u, one, it, e)
  <2>1. one \in Trees /\ e \in TreeNode
    BY <1>4, <1>5 DEF IsWith, IsNodeWith
  <2> QED
    BY <1>1, <1>2, <2>1, WithOf
<1>7. /\ u \in Trees /\ u.top = t.top
      /\ \A n \in Nodes : \/ n = it /\ u.node[n] = e
                          \/ n = keep /\ u.node[n] = nd
                          \/ n # it /\ n # keep /\ u.node[n] = t.node[n]
  BY <1>1, <1>5, <1>6 DEF IsWith
<1>8. \A n \in Nodes : /\ u.node[n].root = IF n = keep THEN up ELSE t.node[n].root
                       /\ u.node[n].live = t.node[n].live
  BY <1>1, <1>3, <1>4, <1>7 DEF IsNodeWith
<1>9. ASSUME NEW n \in Nodes, NEW q \in Sides
      PROVE  u.node[n][q] = IF n = it /\ q = side THEN NoNode ELSE t.node[n][q]
  <2>1. q = side \/ q = Other(side)
    BY LeafOf
  <2>2. side # Other(side)
    BY LeafOf
  <2>3. nd[q] = t.node[keep][q]
    BY <1>3 DEF Sides
  <2>4. CASE n = it
    BY <1>1, <1>4, <1>7, <2>1, <2>2, <2>4 DEF IsNodeWith
  <2>5. CASE n # it
    BY <1>7, <2>3, <2>5
  <2> QED
    BY <2>4, <2>5
<1> QED
  BY <1>7, <1>8, <1>9 DEF keep, up, u

IsReserved(r, t, it, side, D) ==
    /\ r \in Trees
    /\ r.top = IF it = t.top THEN t.node[it][side] ELSE t.top
    /\ \A n \in D : r.node[n] = DeadNode
    /\ \A n \in Nodes \ D :
           /\ r.node[n].root = IF n = t.node[it][side] THEN t.node[it].root ELSE t.node[n].root
           /\ r.node[n].live = t.node[n].live
    /\ \A n \in Nodes \ D, q \in Sides :
           r.node[n][q] = IF it # t.top /\ n = t.node[it].root /\ q = SideOf(t, it)
                          THEN t.node[it][side] ELSE t.node[n][q]

LEMMA ReserveWrites ==
    ASSUME NEW t, NEW L, Linked(t, L), NEW it \in L, NEW side \in Sides, t.node[it][side] # NoNode
    PROVE  LET D == Subtree(LiftedTree(t, it, side), it)
           IN /\ IsReserved(Reserve(t, it, side), t, it, side, D)
              /\ IsUnder(LiftedTree(t, it, side), it, D)
              /\ IsCut(LiftedTree(t, it, side), t, L)
<1> DEFINE u == LiftedTree(t, it, side)
           keep == t.node[it][side]
           up == t.node[it].root
           s == SideOf(t, it)
           D == Subtree(u, it)
           e == [u.node[up] EXCEPT ![s] = keep]
           linked == IF up = NoNode THEN u ELSE [u EXCEPT !.node[up][s] = keep]
           cut == Delete(linked, D)
           r == Reserve(t, it, side)
<1>1. /\ u \in Trees /\ u.top = t.top
      /\ \A n \in Nodes : u.node[n].root = IF n = keep THEN t.node[it].root ELSE t.node[n].root
      /\ \A n \in Nodes : u.node[n].live = t.node[n].live
      /\ \A n \in Nodes, q \in Sides :
             u.node[n][q] = IF n = it /\ q = side THEN NoNode ELSE t.node[n][q]
  BY LiftedTreeIs
<1>2. /\ t \in Trees /\ L \subseteq Nodes /\ it \in Nodes /\ keep \in Nodes
      /\ up = NoNode <=> it = t.top
      /\ it # t.top => up \in Nodes /\ up # it /\ s \in Sides
      /\ up \in Nodes \cup {NoNode}
  <2>1. t \in Trees /\ L \subseteq Nodes /\ NoNode \notin Nodes
    BY NodesAreFinite DEF Linked
  <2>2. keep \in L /\ (up = NoNode => it = t.top) /\ t.node[t.top].root = NoNode
    BY LinkedNodes
  <2>3. it # t.top => up \in L /\ up # it /\ s \in Sides
    BY SideOfLeads
  <2> QED
    BY <2>1, <2>2, <2>3
<1>3. r = LET cc == Delete(linked, D) IN IF it = t.top THEN [cc EXCEPT !.top = keep] ELSE cc
  BY DEF Reserve, LiftedTree
<1> HIDE DEF u
<1>4. IsUnder(u, it, D)
  BY <1>1, <1>2, SubtreeOf
<1>5. IsCut(u, t, L)
  BY <1>1, <1>2 DEF IsCut
<1> HIDE DEF D, keep, up, s
<1>6. /\ linked \in Trees /\ linked.top = t.top
      /\ \A n \in Nodes : linked.node[n].root = u.node[n].root /\ linked.node[n].live = u.node[n].live
      /\ \A n \in Nodes, q \in Sides :
             linked.node[n][q] = IF up # NoNode /\ n = up /\ q = s THEN keep ELSE u.node[n][q]
  <2>1. CASE up = NoNode
    BY <1>1, <2>1
  <2>2. CASE up # NoNode
    <3>1. up \in Nodes /\ s \in Sides /\ u.node[up] \in TreeNode /\ linked = [u EXCEPT !.node[up][s] = keep]
      BY <1>1, <1>2, <2>2, NodeOf
    <3>2. linked = With(u, up, e)
      <4>1. u.node \in [Nodes -> TreeNode] /\ u = [top |-> u.top, node |-> u.node]
        BY <1>1 DEF Trees
      <4> QED
        BY <3>1, <4>1 DEF With
    <3>3. IsNodeWith(e, u.node[up], s, keep)
      BY <1>2, <3>1, NodeWith
    <3> HIDE DEF e, linked
    <3>4. IsWith(linked, u, up, e)
      BY <1>1, <3>1, <3>2, <3>3, WithOf DEF IsNodeWith
    <3>5. linked \in Trees /\ linked.top = t.top
          /\ \A n \in Nodes : (n = up /\ linked.node[n] = e) \/ (n # up /\ linked.node[n] = u.node[n])
      BY <1>1, <3>4 DEF IsWith
    <3>6. \A n \in Nodes : linked.node[n].root = u.node[n].root /\ linked.node[n].live = u.node[n].live
      BY <3>3, <3>5 DEF IsNodeWith
    <3>7. ASSUME NEW n \in Nodes, NEW q \in Sides
          PROVE  linked.node[n][q] = IF up # NoNode /\ n = up /\ q = s THEN keep ELSE u.node[n][q]
      <4>1. q = s \/ q = Other(s)
        BY <3>1, LeafOf
      <4>2. s # Other(s)
        BY <3>1, LeafOf
      <4>3. CASE n = up
        BY <2>2, <3>3, <3>5, <4>1, <4>2, <4>3 DEF IsNodeWith
      <4>4. CASE n # up
        BY <3>5, <4>4
      <4> QED
        BY <4>3, <4>4
    <3> QED
      BY <3>5, <3>6, <3>7
  <2> QED
    BY <2>1, <2>2
<1> HIDE DEF linked
<1>7. D \in SUBSET Nodes /\ it \in D
  BY <1>4 DEF IsUnder
<1>8. /\ cut \in Trees /\ cut.top = t.top
      /\ \A n \in D : cut.node[n] = DeadNode
      /\ \A n \in Nodes \ D : cut.node[n] = linked.node[n]
  BY <1>6, <1>7, DeleteOf
<1>9. r = IF it = t.top THEN [cut EXCEPT !.top = keep] ELSE cut
  BY <1>3
<1> HIDE DEF cut, r
<1>10. r \in Trees /\ r.node = cut.node /\ r.top = IF it = t.top THEN keep ELSE t.top
  <2>1. CASE it = t.top
    <3>1. keep \in Nodes \cup {NoNode}
      BY <1>2
    <3> QED
      BY <1>8, <1>9, <2>1, <3>1, TopWritten
  <2>2. CASE it # t.top
    BY <1>8, <1>9, <2>2
  <2> QED
    BY <2>1, <2>2
<1>11. \A n \in D : r.node[n] = DeadNode
  BY <1>8, <1>10
<1>12. \A n \in Nodes \ D : /\ r.node[n].root = IF n = keep THEN up ELSE t.node[n].root
                            /\ r.node[n].live = t.node[n].live
  BY <1>1, <1>6, <1>8, <1>10 DEF up
<1>13. \A n \in Nodes \ D, q \in Sides :
           r.node[n][q] = IF it # t.top /\ n = up /\ q = s THEN keep ELSE t.node[n][q]
  <2> SUFFICES ASSUME NEW n \in Nodes \ D, NEW q \in Sides
               PROVE  r.node[n][q] = IF it # t.top /\ n = up /\ q = s THEN keep ELSE t.node[n][q]
    OBVIOUS
  <2>1. r.node[n][q] = linked.node[n][q] /\ n # it
    BY <1>7, <1>8, <1>10
  <2>2. u.node[n][q] = t.node[n][q]
    BY <1>1, <2>1
  <2> QED
    BY <1>2, <1>6, <2>1, <2>2
<1>14. IsReserved(r, t, it, side, D)
  BY <1>10, <1>11, <1>12, <1>13 DEF IsReserved, keep, up, s
<1> QED
  BY <1>4, <1>5, <1>14 DEF u, D, r

LEMMA ReserveLinked ==
    ASSUME NEW t, NEW L, Linked(t, L), NEW it \in L, NEW side \in Sides, t.node[it][side] # NoNode
    PROVE  LET r == Reserve(t, it, side)
               M == Reserved(t, L, it, side)
           IN /\ Linked(r, M) /\ M \in SUBSET Nodes
              /\ it # t.top => /\ t.node[it].root \in M
                               /\ r.node[t.node[it].root][SideOf(t, it)] = t.node[it][side]
              /\ t.node[it][side] # NoNode
<1> DEFINE u == LiftedTree(t, it, side)
           keep == t.node[it][side]
           up == t.node[it].root
           s == SideOf(t, it)
           D == Subtree(u, it)
           M == L \ D
           r == Reserve(t, it, side)
<1>1. /\ IsReserved(r, t, it, side, D) /\ IsUnder(u, it, D) /\ IsCut(u, t, L)
  BY ReserveWrites
<1>2. \A q \in Sides : u.node[it][q] = IF q = side THEN NoNode ELSE t.node[it][q]
  <2>1. it \in Nodes
    BY LinkedNodes
  <2> QED
    BY <2>1, LiftedTreeIs
<1>3. \A n \in L, q \in Sides : n # it => u.node[n][q] = t.node[n][q]
  <2>1. L \subseteq Nodes
    BY DEF Linked
  <2> QED
    BY <2>1, LiftedTreeIs
<1> HIDE DEF u, D, r
<1>4. /\ L \subseteq Nodes /\ it \in Nodes /\ NoNode \notin L /\ D \in SUBSET Nodes
      /\ t.top \in L /\ t.top # NoNode /\ t.node[t.top].root = NoNode
      /\ IsUnder(t, t.top, L) /\ NoNode \notin Nodes
  <2>1. L \subseteq Nodes /\ (t.top # NoNode => IsUnder(t, t.top, L))
    BY DEF Linked
  <2> QED
    BY <1>1, <2>1, LinkedNodes, NodesAreFinite DEF IsUnder
<1>5. /\ D \subseteq L /\ it \in D
      /\ \A d \in D : d # it => /\ t.node[d].root \in D
                                /\ \E q \in Sides : u.node[t.node[d].root][q] = d
      /\ up \notin D
      /\ t.top \in D => t.top = it
  BY <1>1, BelowOf
<1>6. \A n \in L, q \in Sides : t.node[n][q] # NoNode =>
          /\ t.node[n][q] \in L /\ t.node[t.node[n][q]].root = n
          /\ t.node[n][Other(q)] # t.node[n][q]
  BY LinkedNodes DEF Linked
<1>7. /\ keep \in L /\ t.node[keep].root = it /\ keep # it /\ keep # t.top
  <2>1. keep \in L /\ t.node[keep].root = it
    BY <1>6
  <2> QED
    BY <1>4, <2>1, LinkedNodes
<1>8. keep \notin D
  <2> SUFFICES ASSUME keep \in D
               PROVE  FALSE
    OBVIOUS
  <2>1. PICK q \in Sides : u.node[it][q] = keep
    BY <1>5, <1>7
  <2>2. q # side /\ t.node[it][q] = keep
    BY <1>2, <1>4, <1>7, <2>1
  <2>3. q = Other(side)
    BY <2>2, LeafOf
  <2> QED
    BY <1>6, <2>2, <2>3
<1>9. it # t.top => /\ up \in L /\ up # it /\ s \in Sides /\ up \in M
                    /\ t.node[up][s] = it /\ t.node[up][Other(s)] # it
  BY <1>5, SideOfLeads
<1>10. /\ r \in Trees
       /\ r.top = IF it = t.top THEN keep ELSE t.top
       /\ \A n \in D : r.node[n] = DeadNode
       /\ \A n \in Nodes \ D : /\ r.node[n].root = IF n = keep THEN up ELSE t.node[n].root
                               /\ r.node[n].live = t.node[n].live
       /\ \A n \in Nodes \ D, q \in Sides :
              r.node[n][q] = IF it # t.top /\ n = up /\ q = s THEN keep ELSE t.node[n][q]
  BY <1>1 DEF IsReserved
<1>11. it # t.top => r.node[up][s] = keep
  BY <1>4, <1>9, <1>10
<1> HIDE DEF keep, up, s
(* No link that stays leads to what goes.                                  *)
<1>12. ASSUME NEW n \in M, NEW q \in Sides, t.node[n][q] # NoNode
       PROVE  \/ it # t.top /\ n = up /\ q = s
              \/ /\ ~(it # t.top /\ n = up /\ q = s) /\ t.node[n][q] \in M
                 /\ t.node[n][q] # keep
  <2>1. n \in L /\ n \notin D /\ n # it
    BY <1>5
  <2>2. t.node[n][q] \in L /\ t.node[t.node[n][q]].root = n
    BY <1>6, <1>12
  <2>3. t.node[n][q] # keep
    BY <1>7, <2>1, <2>2
  <2>4. CASE t.node[n][q] = it
    <3>1. n = up /\ it # t.top
      BY <1>4, <2>2, <2>4 DEF up
    <3>2. q = s
      BY <1>9, <2>4, <3>1, LeafOf
    <3> QED
      BY <3>1, <3>2
  <2>5. CASE t.node[n][q] # it
    <3>1. t.node[n][q] \notin D
      BY <1>5, <2>1, <2>2, <2>5
    <3>2. ~(it # t.top /\ n = up /\ q = s)
      BY <1>9, <2>5
    <3> QED
      BY <2>2, <2>3, <3>1, <3>2
  <2> QED
    BY <2>4, <2>5
<1>13. \A n \in M, q \in Sides :
           r.node[n][q] = IF it # t.top /\ n = up /\ q = s THEN keep ELSE t.node[n][q]
  BY <1>4, <1>10
<1>14. \A n \in M : r.node[n].root = IF n = keep THEN up ELSE t.node[n].root
  BY <1>4, <1>10
<1>15. keep \in M /\ M \in SUBSET Nodes
  BY <1>4, <1>7, <1>8
<1>16. Closed(r, M)
  BY <1>12, <1>13, <1>15 DEF Closed
<1>17. ASSUME NEW n \in M, NEW q \in Sides, r.node[n][q] # NoNode
       PROVE  r.node[r.node[n][q]].root = n /\ r.node[n][Other(q)] # r.node[n][q]
  <2>1. Other(q) \in Sides /\ Other(q) # q
    BY LeafOf
  <2>2. CASE it # t.top /\ n = up /\ q = s
    <3>1. r.node[n][q] = keep /\ r.node[keep].root = n
      BY <1>13, <1>14, <1>15, <2>2
    <3>2. r.node[n][Other(q)] = t.node[n][Other(q)]
      BY <1>13, <2>1, <2>2
    <3>3. t.node[n][Other(q)] # NoNode => t.node[n][Other(q)] # keep
      BY <1>12, <2>1, <2>2
    <3> QED
      BY <1>4, <1>7, <3>1, <3>2, <3>3
  <2>3. CASE ~(it # t.top /\ n = up /\ q = s)
    <3>1. r.node[n][q] = t.node[n][q] /\ t.node[n][q] \in M /\ t.node[n][q] # keep
      BY <1>12, <1>13, <1>17, <2>3
    <3>2. t.node[t.node[n][q]].root = n /\ t.node[n][Other(q)] # t.node[n][q]
      BY <1>6, <1>17, <3>1
    <3>3. r.node[n][Other(q)] \in {keep, t.node[n][Other(q)]}
      BY <1>13, <2>1
    <3> QED
      BY <1>14, <3>1, <3>2, <3>3
  <2> QED
    BY <2>2, <2>3
<1>18. ASSUME NEW C \in SUBSET Nodes, r.top \in C, Closed(r, C)
       PROVE  M \subseteq C
  <2>1. CASE keep \in C
    <3> DEFINE B == (C \cap M) \cup D
    <3>1. B \in SUBSET Nodes /\ t.top \in B
      BY <1>4, <1>5, <1>10, <1>18
    <3>2. Closed(t, B)
      <4> SUFFICES ASSUME NEW n \in B, NEW q \in Sides, t.node[n][q] # NoNode
                   PROVE  t.node[n][q] \in B
        BY DEF Closed
      <4>1. CASE n \in D
        <5>1. CASE n = it /\ q = side
          BY <1>15, <2>1, <5>1 DEF keep
        <5>2. CASE ~(n = it /\ q = side)
          <6>1. u.node[n][q] = t.node[n][q]
            BY <1>2, <1>3, <1>5, <4>1, <5>2
          <6>2. Closed(u, D)
            BY <1>1 DEF IsUnder
          <6> QED
            BY <4>1, <6>1, <6>2 DEF Closed
        <5> QED
          BY <5>1, <5>2
      <4>2. CASE n \notin D
        <5>1. n \in C /\ n \in M
          BY <4>2
        <5>2. CASE it # t.top /\ n = up /\ q = s
          BY <1>5, <1>9, <5>2
        <5>3. CASE ~(it # t.top /\ n = up /\ q = s)
          <6>1. r.node[n][q] = t.node[n][q] /\ t.node[n][q] \in M
            BY <1>12, <1>13, <5>1, <5>3
          <6> QED
            BY <1>18, <5>1, <6>1 DEF Closed
        <5> QED
          BY <5>2, <5>3
      <4> QED
        BY <4>1, <4>2
    <3>3. L \subseteq B
      BY <1>4, <3>1, <3>2 DEF IsUnder
    <3> QED
      BY <3>3
  <2>2. CASE keep \notin C
    <3> DEFINE B == C \cap M
    <3>1. it # t.top /\ r.top = t.top
      BY <1>10, <1>18, <2>2
    <3>2. up \notin C
      BY <1>4, <1>7, <1>11, <1>9, <1>18, <2>2, <3>1 DEF Closed
    <3>3. B \in SUBSET Nodes /\ t.top \in B
      BY <1>4, <1>5, <1>18, <3>1
    <3>4. Closed(t, B)
      <4> SUFFICES ASSUME NEW n \in B, NEW q \in Sides, t.node[n][q] # NoNode
                   PROVE  t.node[n][q] \in B
        BY DEF Closed
      <4>1. n # up /\ n \in M /\ n \in C
        BY <3>2
      <4>2. r.node[n][q] = t.node[n][q] /\ t.node[n][q] \in M
        BY <1>12, <1>13, <4>1
      <4> QED
        BY <1>18, <4>1, <4>2 DEF Closed
    <3>5. L \subseteq B
      BY <1>4, <3>3, <3>4 DEF IsUnder
    <3> QED
      BY <1>9, <3>1, <3>2, <3>5
  <2> QED
    BY <2>1, <2>2
<1>19. \A n \in Nodes : r.node[n].live <=> n \in M
  <2>1. \A n \in Nodes : t.node[n].live <=> n \in L
    BY DEF Linked
  <2>2. ~DeadNode.live
    BY LeafOf
  <2> QED
    BY <1>4, <1>10, <2>1, <2>2
<1>20. r.top \in M /\ r.top # NoNode
  BY <1>4, <1>5, <1>10, <1>15
<1>21. IsUnder(r, r.top, M)
  BY <1>15, <1>16, <1>18, <1>20 DEF IsUnder
<1>22. r.node[r.top].root = NoNode
  <2>1. CASE it = t.top
    BY <1>4, <1>10, <1>14, <1>15, <2>1 DEF up
  <2>2. CASE it # t.top
    BY <1>4, <1>7, <1>10, <1>14, <1>20, <2>2
  <2> QED
    BY <2>1, <2>2
<1>23. Linked(r, M)
  BY <1>10, <1>15, <1>17, <1>19, <1>20, <1>21, <1>22 DEF Linked
<1> QED
  BY <1>9, <1>11, <1>15, <1>23 DEF Reserved, r, D, u, keep, up, s

(* The right edge, read: each node is the right child of the one before.   *)
IsEdge(e, t) ==
    /\ e[0] = t.top
    /\ \A k \in 0 .. (Cardinality(Nodes) - 1) : e[k + 1] = Child(t, e[k], "right")
LEMMA EdgeOf ==
    ASSUME NEW t \in Trees
    PROVE  IsEdge(Edge(t), t)
<1> DEFINE N == Cardinality(Nodes)
           S == Nodes \cup {NoNode}
           c == t.top
           G == [n \in S |-> Child(t, n, "right")]
<1>1. N \in Nat /\ c \in S
  BY NodesAreFinite DEF Trees
<1>2. G \in [S -> S]
  <2>1. ASSUME NEW n \in S
        PROVE  Child(t, n, "right") \in S
    <3>1. n \in Nodes => t.node[n]["right"] \in S
      BY NodeOf DEF Sides
    <3> QED
      BY <3>1 DEF Child
  <2> QED
    BY <2>1
<1> HIDE DEF G, c
<1> HIDE DEF S
<1>11. \E f : Iterates(f, S, c, G)
  BY <1>1, <1>2, IterationExists
<1> USE DEF S
<1>3. PICK f \in [Nat -> S] : f[0] = c /\ \A k \in Nat : f[k + 1] = G[f[k]]
  <2> HIDE DEF S
  <2> QED
    BY <1>11 DEF Iterates
<1> USE DEF G, c
<1> DEFINE IsAt(g) ==
        g = [k \in 0 .. N |-> IF k = 0 THEN t.top ELSE Child(t, g[k - 1], "right")]
<1>4. ASSUME NEW k \in Nat, k # 0
      PROVE  f[k] = Child(t, f[k - 1], "right")
  <2>1. k - 1 \in Nat /\ (k - 1) + 1 = k
    BY <1>4
  <2>2. f[k] = G[f[k - 1]] /\ f[k - 1] \in S
    BY <1>3, <2>1
  <2> QED
    BY <2>2
<1> HIDE DEF G, S
<1> DEFINE h == [k \in 0 .. N |-> f[k]]
<1>5. IsAt(h)
  <2>1. ASSUME NEW k \in 0 .. N
        PROVE  h[k] = IF k = 0 THEN t.top ELSE Child(t, h[k - 1], "right")
    <3>1. CASE k = 0
      BY <1>3, <2>1, <3>1
    <3>2. CASE k # 0
      <4>1. k - 1 \in 0 .. N /\ k \in Nat
        BY <1>1, <3>2
      <4> QED
        BY <1>4, <3>2, <4>1
    <3> QED
      BY <3>1, <3>2
  <2>2. h = [k \in 0 .. N |-> h[k]]
    OBVIOUS
  <2> HIDE DEF h
  <2> QED
    BY <2>1, <2>2
<1> DEFINE e == CHOOSE g : IsAt(g)
<1>6. Edge(t) = e
  BY DEF Edge
<1>7. IsAt(e)
  <2> HIDE DEF IsAt, h
  <2> QED
    BY <1>5
<1> HIDE DEF e
<1>8. \A k \in 0 .. N : e[k] = IF k = 0 THEN t.top ELSE Child(t, e[k - 1], "right")
  <2>1. e = [k \in 0 .. N |-> IF k = 0 THEN t.top ELSE Child(t, e[k - 1], "right")]
    BY <1>7
  <2> DEFINE F(k) == IF k = 0 THEN t.top ELSE Child(t, e[k - 1], "right")
  <2>2. e = [k \in 0 .. N |-> F(k)]
    BY <2>1
  <2>3. \A k \in 0 .. N : e[k] = F(k)
    <3> HIDE DEF F
    <3> QED
      BY <2>2
  <2> QED
    BY <2>3
<1>9. e[0] = t.top
  <2>1. 0 \in 0 .. N
    BY <1>1
  <2> QED
    BY <1>8, <2>1
<1>10. ASSUME NEW k \in 0 .. (N - 1)
       PROVE  e[k + 1] = Child(t, e[k], "right")
  <2>1. k + 1 \in 0 .. N /\ k + 1 # 0 /\ (k + 1) - 1 = k
    BY <1>1
  <2> QED
    BY <1>8, <2>1
<1> QED
  BY <1>6, <1>9, <1>10 DEF IsEdge

(* The least of the numbers that satisfy a condition.                      *)
LEMMA LeastOf ==
    ASSUME NEW A \in SUBSET Nat, A # {}
    PROVE  \E k \in A : \A j \in A : k <= j
<1> DEFINE B == {n \in Nat : (\E k \in A : k <= n) => \E k \in A : \A j \in A : k <= j}
<1>1. 0 \in B
  OBVIOUS
<1>2. ASSUME NEW n \in Nat, n \in B
      PROVE  n + 1 \in B
  <2>1. CASE \E k \in A : k <= n
    BY <1>2, <2>1
  <2>2. CASE \A k \in A : k > n
    <3>1. \A k \in A : k >= n + 1
      BY <2>2
    <3>2. CASE n + 1 \in A
      BY <3>1, <3>2
    <3>3. CASE n + 1 \notin A
      <4>1. ~ \E k \in A : k <= n + 1
        BY <3>1, <3>3
      <4> QED
        BY <4>1
    <3> QED
      BY <3>2, <3>3
  <2> QED
    BY <2>1, <2>2
<1> HIDE DEF B
<1>3. Nat \subseteq B
  BY <1>1, <1>2, NatSetInduction
<1>4. PICK n \in A : TRUE
  OBVIOUS
<1>5. n \in B /\ n <= n
  BY <1>3, <1>4
<1> QED
  BY <1>4, <1>5 DEF B

(* The walk stops at a node of the tree: an edge without a stop would be   *)
(* longer than the nodes there are.                                        *)
StopsAfter(t, L, s, c) ==
    /\ c \in Nat /\ Stop(t, s) = Edge(t)[c] /\ StopsAt(t, Edge(t)[c], s)
    /\ Edge(t)[0] = t.top
    /\ \A k \in 0 .. c : Edge(t)[k] \in L
    /\ \A k \in 0 .. (c - 1) : /\ ~StopsAt(t, Edge(t)[k], s)
                               /\ t.node[Edge(t)[k]]["right"] = Edge(t)[k + 1]
                               /\ t.node[Edge(t)[k + 1]].root = Edge(t)[k]
LEMMA StopIsReached ==
    ASSUME NEW t, NEW L, Linked(t, L), t.top # NoNode, NEW s
    PROVE  \E c \in Nat : StopsAfter(t, L, s, c)
<1> DEFINE N == Cardinality(Nodes)
           e == Edge(t)
           A == {k \in 0 .. N : StopsAt(t, e[k], s)}
<1>1. t \in Trees /\ t.top \in L /\ L \in SUBSET Nodes /\ t.node[t.top].root = NoNode /\ NoNode \notin L
  BY NodesAreFinite DEF Linked, IsUnder
<1>2. N \in Nat /\ IsFiniteSet(Nodes)
  BY NodesAreFinite
<1>3. e[0] = t.top /\ \A k \in 0 .. (N - 1) : e[k + 1] = Child(t, e[k], "right")
  BY <1>1, EdgeOf DEF IsEdge
<1>4. \A n \in L : t.node[n]["right"] # NoNode =>
                      /\ t.node[n]["right"] \in L
                      /\ t.node[t.node[n]["right"]].root = n
  <2> SUFFICES ASSUME NEW n \in L, t.node[n]["right"] # NoNode
               PROVE  t.node[n]["right"] \in L /\ t.node[t.node[n]["right"]].root = n
    OBVIOUS
  <2>1. "right" \in Sides
    BY DEF Sides
  <2>2. t.node[n]["right"] \in L \cup {NoNode}
    BY <2>1, LinkedNodes
  <2>3. t.node[t.node[n]["right"]].root = n
    BY <2>1 DEF Linked
  <2> QED
    BY <2>2, <2>3
<1> HIDE DEF e
<1>5. ASSUME NEW k \in 0 .. (N - 1), e[k] \in L, ~StopsAt(t, e[k], s)
      PROVE  e[k + 1] \in L /\ t.node[e[k + 1]].root = e[k]
  <2>1. t.node[e[k]]["right"] # NoNode
    BY <1>5 DEF StopsAt
  <2>2. e[k] # NoNode
    BY <1>1, <1>5
  <2>3. e[k + 1] = t.node[e[k]]["right"]
    BY <1>3, <1>5, <2>2 DEF Child
  <2> QED
    BY <1>4, <1>5, <2>1, <2>3
<1>6. ASSUME NEW K \in 0 .. N, \A j \in 0 .. (K - 1) : ~StopsAt(t, e[j], s)
      PROVE  /\ \A k \in 0 .. K : e[k] \in L
             /\ \A k \in 0 .. (K - 1) : t.node[e[k + 1]].root = e[k]
  <2> DEFINE B == {k \in Nat : k <= K => e[k] \in L}
  <2>1. 0 \in B
    BY <1>1, <1>3
  <2>2. ASSUME NEW k \in Nat, k \in B
        PROVE  k + 1 \in B
    <3> SUFFICES ASSUME k + 1 <= K
                 PROVE  e[k + 1] \in L
      OBVIOUS
    <3>1. k \in 0 .. (N - 1) /\ k \in 0 .. (K - 1) /\ e[k] \in L
      BY <1>2, <1>6, <2>2
    <3> QED
      BY <1>5, <1>6, <3>1
  <2> HIDE DEF B
  <2>3. Nat \subseteq B
    BY <2>1, <2>2, NatSetInduction
  <2>4. \A k \in 0 .. K : e[k] \in L
    BY <1>6, <2>3 DEF B
  <2>5. ASSUME NEW k \in 0 .. (K - 1)
        PROVE  t.node[e[k + 1]].root = e[k]
    <3>1. k \in 0 .. (N - 1) /\ k \in 0 .. K /\ e[k] \in L /\ ~StopsAt(t, e[k], s)
      BY <1>2, <1>6, <2>4, <2>5
    <3> QED
      BY <1>5, <3>1
  <2> QED
    BY <2>4, <2>5
<1>7. A # {}
  <2> SUFFICES ASSUME A = {}
               PROVE  FALSE
    OBVIOUS
  <2>1. N \in 0 .. N /\ \A j \in 0 .. (N - 1) : ~StopsAt(t, e[j], s)
    BY <1>2
  <2>2. (\A k \in 0 .. N : e[k] \in L) /\ (\A k \in 0 .. (N - 1) : t.node[e[k + 1]].root = e[k])
    BY <1>6, <2>1
  <2> DEFINE g == [k \in 0 .. N |-> e[k]]
             B == {i \in Nat : \A j \in 0 .. N : i < j => e[i] # e[j]}
  <2>3. 0 \in B
    <3> SUFFICES ASSUME NEW j \in 0 .. N, 0 < j
                 PROVE  e[0] # e[j]
      OBVIOUS
    <3>1. j - 1 \in 0 .. (N - 1) /\ j - 1 \in 0 .. N /\ (j - 1) + 1 = j
      BY <1>2
    <3>2. t.node[e[j]].root = e[j - 1] /\ e[j - 1] \in L
      BY <2>2, <3>1
    <3> QED
      BY <1>1, <1>3, <3>2
  <2>4. ASSUME NEW i \in Nat, i \in B
        PROVE  i + 1 \in B
    <3> SUFFICES ASSUME NEW j \in 0 .. N, i + 1 < j
                 PROVE  e[i + 1] # e[j]
      OBVIOUS
    <3>1. j - 1 \in 0 .. (N - 1) /\ j - 1 \in 0 .. N /\ (j - 1) + 1 = j /\ i < j - 1 /\ i \in 0 .. (N - 1)
      BY <1>2
    <3>2. t.node[e[j]].root = e[j - 1] /\ t.node[e[i + 1]].root = e[i]
      BY <2>2, <3>1
    <3>3. e[i] # e[j - 1]
      BY <2>4, <3>1
    <3> QED
      BY <3>2, <3>3
  <2> HIDE DEF B
  <2>5. Nat \subseteq B
    BY <2>3, <2>4, NatSetInduction
  <2>6. g \in [0 .. N -> Nodes]
    BY <1>1, <2>2
  <2>7. IsFiniteSet(0 .. N) /\ Cardinality(0 .. N) = N + 1
    <3>1. Cardinality(0 .. N) = (IF 0 > N THEN 0 ELSE N - 0 + 1) /\ IsFiniteSet(0 .. N)
      BY <1>2, FS_Interval
    <3> QED
      BY <1>2, <3>1
  <2>8. Cardinality(Nodes) < Cardinality(0 .. N)
    BY <1>2, <2>7
  <2>9. \E x, y \in 0 .. N : x # y /\ g[x] = g[y]
    <3> HIDE DEF g, N
    <3> QED
      BY <1>2, <2>6, <2>7, <2>8, FS_PigeonHole
  <2>10. PICK x \in 0 .. N, y \in 0 .. N : x # y /\ e[x] = e[y]
    BY <2>9
  <2>11. x < y \/ y < x
    BY <2>10
  <2>12. x \in B /\ y \in B
    BY <2>5
  <2> QED
    BY <2>10, <2>11, <2>12 DEF B
<1>8. PICK k \in A : \A j \in A : k <= j
  <2>1. A \in SUBSET Nat
    BY <1>2
  <2> HIDE DEF A
  <2> QED
    BY <1>7, <2>1, LeastOf
<1>9. k \in 0 .. N /\ StopsAt(t, e[k], s) /\ \A j \in 0 .. (k - 1) : ~StopsAt(t, e[j], s)
  BY <1>2, <1>8
<1> DEFINE First(i) == StopsAt(t, e[i], s) /\ \A j \in 0 .. (i - 1) : ~StopsAt(t, e[j], s)
           c == CHOOSE i \in 0 .. N : First(i)
<1>10. Stop(t, s) = e[c]
  BY DEF Stop, e
<1>11. c \in 0 .. N /\ First(c)
  <2>1. \E i \in 0 .. N : First(i)
    BY <1>9
  <2> HIDE DEF First
  <2> QED
    BY <2>1
<1> HIDE DEF c
<1>12. (\A i \in 0 .. c : e[i] \in L) /\ (\A i \in 0 .. (c - 1) : t.node[e[i + 1]].root = e[i])
  BY <1>6, <1>11
<1>13. ASSUME NEW i \in 0 .. (c - 1)
       PROVE  t.node[e[i]]["right"] = e[i + 1]
  <2>1. i \in 0 .. (N - 1) /\ i \in 0 .. c
    BY <1>2, <1>11
  <2>2. e[i + 1] = Child(t, e[i], "right") /\ e[i] # NoNode
    BY <1>1, <1>3, <1>12, <2>1
  <2> QED
    BY <2>2 DEF Child
<1>14. c \in Nat /\ e[0] = t.top
  BY <1>2, <1>3, <1>11
<1> QED
  BY <1>10, <1>11, <1>12, <1>13, <1>14 DEF StopsAfter, e

LEMMA StopIsLive ==
    ASSUME NEW t, NEW L, Linked(t, L), t.top # NoNode, NEW s
    PROVE  Stop(t, s) \in L
<1>1. PICK c \in Nat : StopsAfter(t, L, s, c)
  BY StopIsReached
<1>2. c \in 0 .. c
  OBVIOUS
<1> QED
  BY <1>1, <1>2 DEF StopsAfter

(* Nothing is under a missing node.                                        *)
LEMMA SubtreeOfNone ==
    ASSUME NEW t
    PROVE  Subtree(t, NoNode) = {}
<1> DEFINE IsBelow(g) ==
        g = [k \in Nat |-> IF k = 0 THEN {NoNode} \ {NoNode}
                           ELSE LET above == g[k - 1] IN above \cup ChildrenOf(t, above)]
           f == [k \in Nat |-> {}]
           g == CHOOSE h : IsBelow(h)
<1>1. IsBelow(f)
  <2>1. \A k \in Nat : k # 0 => k - 1 \in Nat
    OBVIOUS
  <2>2. ChildrenOf(t, {}) = {}
    BY DEF ChildrenOf
  <2> QED
    BY <2>1, <2>2
<1>2. Subtree(t, NoNode) = g[Cardinality(Nodes)]
  BY DEF Subtree
<1>3. IsBelow(g)
  <2> HIDE DEF IsBelow, f
  <2> QED
    BY <1>1
<1> HIDE DEF g
<1> DEFINE A == {k \in Nat : g[k] = {}}
<1>4. 0 \in A
  BY <1>3
<1>5. ASSUME NEW k \in Nat, k \in A
      PROVE  k + 1 \in A
  <2>1. k + 1 # 0 /\ (k + 1) - 1 = k /\ k + 1 \in Nat
    OBVIOUS
  <2>2. g[k + 1] = g[k] \cup ChildrenOf(t, g[k])
    BY <1>3, <2>1
  <2>3. g[k] = {} /\ ChildrenOf(t, {}) = {}
    BY <1>5 DEF ChildrenOf
  <2> QED
    BY <2>1, <2>2, <2>3
<1> HIDE DEF A
<1>6. Nat \subseteq A
  BY <1>4, <1>5, NatSetInduction
<1> QED
  BY <1>2, <1>6, NodesAreFinite DEF A

(* What every step keeps: the nodes that are live form one tree, and while *)
(* an expression is read they are those of the tokens read so far.         *)
Reading ==
    /\ next = 0 => tree = EmptyTree /\ rightmost = NoNode
    /\ next >= 1 => rightmost = Signal(next)
    /\ next >= 0 => Live = 1 .. (2 * next)
ExprTreeIInv ==
    /\ Len(signals) \in 1 .. MaxSignals
    /\ next \in -1 .. Len(signals)
    /\ rightmost \in Nodes \cup {NoNode}
    /\ Linked(tree, Live)
    /\ Reading

LEMMA LiveOf ==
    ASSUME NEW t, NEW L, Linked(t, L)
    PROVE  {n \in Nodes : t.node[n].live} = L
  BY DEF Linked

LEMMA EmptyTreeIsLinked ==
    /\ EmptyTree.top = NoNode /\ Linked(EmptyTree, {})
    /\ {n \in Nodes : EmptyTree.node[n].live} = {}
<1>1. EmptyTree.top = NoNode /\ EmptyTree.node = [n \in Nodes |-> DeadNode]
  BY DEF EmptyTree
<1>2. EmptyTree \in Trees /\ \A n \in Nodes : ~EmptyTree.node[n].live
  <2>1. DeadNode \in TreeNode /\ ~DeadNode.live
    BY LeafOf
  <2> QED
    BY <2>1 DEF EmptyTree, Trees
<1> QED
  BY <1>1, <1>2 DEF Linked

LEMMA ExprTreeIInvSays == ExprTreeIInv => ExprTreeInv
<1> SUFFICES ASSUME ExprTreeIInv
             PROVE  ExprTreeInv
  OBVIOUS
<1>1. Linked(tree, Live)
  BY DEF ExprTreeIInv
<1>2. ExprTreeTypeOK
  <2>1. tree \in Trees
    BY <1>1 DEF Linked
  <2>2. tree.top \in Nodes \cup {NoNode} /\ tree.node \in [Nodes -> TreeNode]
    BY <2>1 DEF Trees
  <2>3. next \in -1 .. MaxSignals
    BY ExprTreeAssumption DEF ExprTreeIInv
  <2> QED
    BY <2>2, <2>3 DEF ExprTreeIInv, ExprTreeTypeOK
<1>3. tree.top # NoNode => tree.node[tree.top].root = NoNode
  BY <1>1 DEF Linked
<1>4. Live = Subtree(tree, tree.top)
  <2>1. CASE tree.top = NoNode
    BY <1>1, <2>1, SubtreeOfNone DEF Linked
  <2>2. CASE tree.top # NoNode
    <3>1. tree \in Trees /\ tree.top \in Nodes /\ IsUnder(tree, tree.top, Live)
      BY <1>1, <2>2 DEF Linked, Trees
    <3>2. IsUnder(tree, tree.top, Subtree(tree, tree.top))
      BY <3>1, SubtreeOf
    <3> QED
      BY <3>1, <3>2 DEF IsUnder
  <2> QED
    BY <2>1, <2>2
<1>5. \A n \in Live, side \in Sides :
          LET c == tree.node[n][side]
          IN c # NoNode => tree.node[c].root = n /\ tree.node[n][Other(side)] # c
  BY <1>1 DEF Linked
<1> QED
  BY <1>2, <1>3, <1>4, <1>5 DEF ExprTreeInv, TreeIsLinked

LEMMA BuildFirstKeepsInv == ExprTreeIInv /\ BuildFirst => ExprTreeIInv'
<1> SUFFICES ASSUME ExprTreeIInv, BuildFirst
             PROVE  ExprTreeIInv'
  OBVIOUS
<1> DEFINE one == InsertRoot(tree, NoNode, 2, "left")
<1>1. tree = EmptyTree /\ tree.top = NoNode /\ Linked(tree, {})
  BY EmptyTreeIsLinked DEF ExprTreeIInv, Reading, BuildFirst
<1>2. tree' = InsertChild(one, 2, "left", 1, "left") /\ rightmost' = 2 /\ next' = 1 /\ signals' = signals
  <2>1. Signal(1) = 2 /\ Object(1) = 1
    BY DEF Signal, Object
  <2> QED
    BY <1>1, <2>1 DEF BuildFirst
<1>3. 1 \in Nodes /\ 2 \in Nodes /\ "left" \in Sides
  <2>1. 1 \in 1 .. (2 * MaxSignals + 1) /\ 2 \in 1 .. (2 * MaxSignals + 1)
    BY ExprTreeAssumption
  <2> QED
    BY <2>1, NodesAreFinite DEF Sides
<1>4. Linked(one, {2})
  <2>1. 2 \in Nodes \ {}
    BY <1>3
  <2>2. Linked(one, {} \cup {2})
    BY <1>1, <1>3, <2>1, InsertRootLinked
  <2>3. {} \cup {2} = {2}
    OBVIOUS
  <2> QED
    BY <2>2, <2>3
<1>5. Linked(tree', {1, 2})
  <2>1. 1 \in Nodes \ {2} /\ 2 \in {2}
    BY <1>3
  <2> HIDE DEF one
  <2>2. Linked(InsertChild(one, 2, "left", 1, "left"), {2} \cup {1})
    BY <1>3, <1>4, <2>1, InsertChildLinked
  <2>3. {2} \cup {1} = {1, 2}
    OBVIOUS
  <2> QED
    BY <1>2, <2>2, <2>3
<1>6. Live' = {1, 2}
  BY <1>5, LiveOf DEF Live
<1>7. {1, 2} = 1 .. (2 * next') /\ Signal(next') = 2 /\ next' \in -1 .. Len(signals')
  BY <1>2 DEF ExprTreeIInv, Signal
<1>8. Reading'
  BY <1>2, <1>6, <1>7 DEF Reading
<1> QED
  BY <1>2, <1>3, <1>5, <1>6, <1>7, <1>8 DEF ExprTreeIInv

(* The next object goes under the last signal.                             *)
LEMMA ObjectPlaced ==
    ASSUME ExprTreeIInv, next >= 1
    PROVE  LET t == InsertChild(tree, rightmost, "right", Object(next + 1), "right")
           IN Linked(t, 1 .. (2 * next + 1)) /\ t.top # NoNode
<1> DEFINE new == 2 * next + 1
           t == InsertChild(tree, rightmost, "right", new, "right")
<1>1. next \in 1 .. MaxSignals /\ Live = 1 .. (2 * next) /\ rightmost = 2 * next /\ Linked(tree, Live)
  BY ExprTreeAssumption DEF ExprTreeIInv, Reading, Signal
<1>2. rightmost \in Live /\ new \in 1 .. (2 * MaxSignals + 1) /\ new \notin Live
  BY <1>1, ExprTreeAssumption
<1>3. new \in Nodes \ Live /\ "right" \in Sides
  BY <1>2, NodesAreFinite DEF Sides
<1>4. Linked(t, Live \cup {new})
  <2> HIDE DEF new
  <2> QED
    BY <1>1, <1>2, <1>3, InsertChildLinked
<1>5. Live \cup {new} = 1 .. new
  BY <1>1
<1>6. t.top # NoNode
  <2> HIDE DEF t
  <2> QED
    BY <1>2, <1>4, LinkedNodes
<1>7. Object(next + 1) = new
  BY <1>1 DEF Object
<1> QED
  BY <1>4, <1>5, <1>6, <1>7

LEMMA BuildNextKeepsInv == ExprTreeIInv /\ BuildNext => ExprTreeIInv'
<1> SUFFICES ASSUME ExprTreeIInv, BuildNext
             PROVE  ExprTreeIInv'
  OBVIOUS
<1> DEFINE t == InsertChild(tree, rightmost, "right", Object(next + 1), "right")
           s == signals[next + 1]
           n == Stop(t, s)
           new == 2 * next + 2
           L == 1 .. (2 * next + 1)
<1>1. next \in 1 .. (Len(signals) - 1) /\ Len(signals) \in 1 .. MaxSignals
  BY DEF BuildNext, ExprTreeIInv
<1>2. Linked(t, L) /\ t.top # NoNode
  BY <1>1, ObjectPlaced
<1>3. tree' = Placed(t, n, new, s) /\ rightmost' = new /\ next' = next + 1 /\ signals' = signals
      /\ Signal(next + 1) = new
  <2>1. Signal(next + 1) = new
    BY <1>1 DEF Signal
  <2> QED
    BY <2>1 DEF BuildNext
<1> HIDE DEF t, s
<1>4. n \in L
  BY <1>2, StopIsLive
<1>5. new \in Nodes \ L /\ "left" \in Sides /\ "right" \in Sides
  <2>1. new \in 1 .. (2 * MaxSignals + 1) /\ new \notin L
    BY <1>1, ExprTreeAssumption
  <2> QED
    BY <2>1, NodesAreFinite DEF Sides
<1> HIDE DEF n
<1>6. Linked(tree', L \cup {new})
  <2> HIDE DEF L, new
  <2>1. Linked(InsertRoot(t, n, new, "left"), L \cup {new})
    BY <1>2, <1>4, <1>5, InsertRootLinked
  <2>2. Linked(InsertChild(t, n, "right", new, "left"), L \cup {new})
    BY <1>2, <1>4, <1>5, InsertChildLinked
  <2> QED
    BY <1>3, <2>1, <2>2 DEF Placed
<1>7. L \cup {new} = 1 .. (2 * next')
  BY <1>1, <1>3
<1>8. Live' = 1 .. (2 * next')
  <2>1. Linked(tree', 1 .. (2 * next'))
    BY <1>6, <1>7
  <2> QED
    BY <2>1, LiveOf DEF Live
<1>9. Reading'
  BY <1>1, <1>3, <1>8 DEF Reading
<1>10. next' \in -1 .. Len(signals') /\ Len(signals') \in 1 .. MaxSignals
  BY <1>1, <1>3
<1> QED
  BY <1>3, <1>5, <1>6, <1>7, <1>8, <1>9, <1>10 DEF ExprTreeIInv

LEMMA BuildLastKeepsInv == ExprTreeIInv /\ BuildLast => ExprTreeIInv'
<1> SUFFICES ASSUME ExprTreeIInv, BuildLast
             PROVE  ExprTreeIInv'
  OBVIOUS
<1>1. next >= 1 /\ Len(signals) \in 1 .. MaxSignals
  BY DEF BuildLast, ExprTreeIInv
<1>2. Linked(tree', 1 .. (2 * next + 1))
  BY <1>1, ObjectPlaced DEF BuildLast
<1>3. Live' = 1 .. (2 * next + 1)
  BY <1>2, LiveOf DEF Live
<1>4. next' = -1 /\ rightmost' = NoNode /\ signals' = signals
  BY DEF BuildLast, AllBuilt
<1>5. next' \in -1 .. Len(signals') /\ Reading'
  BY <1>1, <1>4 DEF Reading
<1> QED
  BY <1>1, <1>2, <1>3, <1>4, <1>5 DEF ExprTreeIInv

(* A rewriting that leaves a tree keeps the rest.                          *)
LEMMA RewritesKeepsInv ==
    ASSUME ExprTreeIInv, NEW t, Rewrites(t), NEW M, Linked(t, M)
    PROVE  ExprTreeIInv'
<1>1. tree' = t /\ next' = -1 /\ next' = next /\ signals' = signals /\ rightmost' = rightmost
  BY DEF Rewrites, AllBuilt
<1>2. Live' = M
  BY <1>1, LiveOf DEF Live
<1>3. Reading'
  BY <1>1 DEF Reading
<1> QED
  BY <1>1, <1>2, <1>3 DEF ExprTreeIInv

LEMMA FoldKeepsInv == ExprTreeIInv /\ Fold => ExprTreeIInv'
<1> SUFFICES ASSUME ExprTreeIInv, NEW it \in Live, Rewrites(EraseChildren(tree, it))
             PROVE  ExprTreeIInv'
  BY DEF Fold
<1>1. Linked(tree, Live)
  BY DEF ExprTreeIInv
<1>2. Linked(EraseChildren(tree, it), Pruned(tree, Live, it))
  <2> HIDE DEF Live
  <2> QED
    BY <1>1, EraseChildrenLinked
<1> QED
  BY <1>2, RewritesKeepsInv

LEMMA ChooseIsLinked ==
    ASSUME ExprTreeIInv, NEW it \in Live, NEW side \in Sides,
           Child(tree, tree.node[it].right, side) # NoNode
    PROVE  LET pair == tree.node[it]["right"]
               r == Reserve(tree, pair, side)
               M == Reserved(tree, Live, pair, side)
           IN /\ Linked(tree, Live) /\ pair \in Live /\ tree.node[pair][side] # NoNode
              /\ Linked(r, M) /\ it \in M /\ r.node[it]["right"] # NoNode
<1> DEFINE pair == tree.node[it]["right"]
           L == Live
           r == Reserve(tree, pair, side)
           M == Reserved(tree, L, pair, side)
<1>1. Linked(tree, L) /\ it \in L
  BY DEF ExprTreeIInv
<1>2. pair # NoNode /\ tree.node[pair][side] # NoNode
  BY DEF Child
<1> HIDE DEF L
<1>3. "right" \in Sides /\ Other("right") = "left" /\ "left" \in Sides
  BY DEF Sides, Other
<1>4. pair \in L
  <2>1. pair \in L \cup {NoNode}
    BY <1>1, <1>3, LinkedNodes
  <2> QED
    BY <1>2, <2>1
<1>5. tree.node[pair].root = it /\ tree.node[it]["left"] # pair
  BY <1>1, <1>2, <1>3 DEF Linked
<1>6. pair # tree.top
  <2>1. tree.node[tree.top].root = NoNode /\ NoNode \notin L
    BY <1>1, LinkedNodes
  <2> QED
    BY <1>1, <1>5, <2>1
<1>7. SideOf(tree, pair) = "right"
  BY <1>5 DEF SideOf
<1> HIDE DEF pair
<1>8. /\ Linked(r, M)
      /\ it \in M /\ r.node[it]["right"] = tree.node[pair][side]
  <2>1. /\ Linked(r, M)
        /\ pair # tree.top => /\ tree.node[pair].root \in M
                              /\ r.node[tree.node[pair].root][SideOf(tree, pair)] = tree.node[pair][side]
    BY <1>1, <1>2, <1>4, ReserveLinked
  <2> HIDE DEF r, M
  <2> QED
    BY <1>5, <1>6, <1>7, <2>1
<1> HIDE DEF r, M
<1> QED
  BY <1>1, <1>2, <1>4, <1>8 DEF r, M, L, pair

LEMMA ChooseKeepsInv == ExprTreeIInv /\ Choose => ExprTreeIInv'
<1> SUFFICES ASSUME ExprTreeIInv, NEW it \in Live, NEW side \in Sides,
                    Child(tree, tree.node[it].right, side) # NoNode,
                    Rewrites(Reserve(Reserve(tree, tree.node[it].right, side), it, "right"))
             PROVE  ExprTreeIInv'
  BY DEF Choose
<1> DEFINE pair == tree.node[it]["right"]
           r == Reserve(tree, pair, side)
           M == Reserved(tree, Live, pair, side)
           K == Reserved(r, M, it, "right")
<1>1. Linked(r, M) /\ it \in M /\ r.node[it]["right"] # NoNode
  BY ChooseIsLinked
<1>2. Rewrites(Reserve(r, it, "right")) /\ "right" \in Sides
  BY DEF Sides
<1> HIDE DEF r, M
<1>3. Linked(Reserve(r, it, "right"), K)
  BY <1>1, <1>2, ReserveLinked
<1> QED
  BY <1>2, <1>3, RewritesKeepsInv

LEMMA ExpandKeepsInv == ExprTreeIInv /\ Expand => ExprTreeIInv'
<1> SUFFICES ASSUME ExprTreeIInv, NEW it \in Live, NEW l \in Spare, NEW r \in Spare,
                    l < r, {l, r} \cap Live = {}, Rewrites(Merge(tree, it, l, r))
             PROVE  ExprTreeIInv'
  BY DEF Expand
<1>1. Linked(tree, Live)
  BY DEF ExprTreeIInv
<1> HIDE DEF Live
<1>2. l \in Nodes \ Live /\ r \in Nodes \ Live /\ l # r
  <2>1. l \in Nat /\ r \in Nat /\ l \in Nodes /\ r \in Nodes
    BY ExprTreeAssumption, NodesAreFinite
  <2> QED
    BY <2>1
<1> DEFINE M == (Pruned(tree, Live, it) \cup {l}) \cup {r}
<1>3. Linked(Merge(tree, it, l, r), M)
  BY <1>1, <1>2, MergeLinked
<1> QED
  BY <1>3, RewritesKeepsInv

(* The nodes of an expression form one tree, of any number of operators,   *)
(* while it is built and through every rewriting (tree_type).              *)
THEOREM ExprTreeInvariant == ExprTreeSpec => []ExprTreeIInv
<1>1. ExprTreeInit => ExprTreeIInv
  <2> SUFFICES ASSUME ExprTreeInit
               PROVE  ExprTreeIInv
    OBVIOUS
  <2>1. Len(signals) \in 1 .. MaxSignals
    <3>1. PICK k \in 1 .. MaxSignals : signals \in [1 .. k -> Signals]
      BY DEF ExprTreeInit
    <3>2. Len(signals) = k
      BY <3>1, ExprTreeAssumption
    <3> QED
      BY <3>2
  <2>2. tree = EmptyTree /\ next = 0 /\ rightmost = NoNode
    BY DEF ExprTreeInit
  <2>3. Live = {} /\ Linked(tree, Live)
    BY <2>2, EmptyTreeIsLinked DEF Live
  <2>4. Reading
    BY <2>2, <2>3 DEF Reading
  <2>5. next \in -1 .. Len(signals)
    BY <2>1, <2>2
  <2> QED
    BY <2>1, <2>2, <2>3, <2>4, <2>5 DEF ExprTreeIInv
<1>2. ExprTreeIInv /\ [ExprTreeNext]_exprTreeVars => ExprTreeIInv'
  <2> SUFFICES ASSUME ExprTreeIInv, [ExprTreeNext]_exprTreeVars
               PROVE  ExprTreeIInv'
    OBVIOUS
  <2>1. CASE BuildFirst
    BY <2>1, BuildFirstKeepsInv
  <2>2. CASE BuildNext
    BY <2>2, BuildNextKeepsInv
  <2>3. CASE BuildLast
    BY <2>3, BuildLastKeepsInv
  <2>4. CASE Fold
    BY <2>4, FoldKeepsInv
  <2>5. CASE Choose
    BY <2>5, ChooseKeepsInv
  <2>6. CASE Expand
    BY <2>6, ExpandKeepsInv
  <2>7. CASE UNCHANGED exprTreeVars
    BY <2>7 DEF exprTreeVars, ExprTreeIInv, Live, Reading
  <2> QED
    BY <2>1, <2>2, <2>3, <2>4, <2>5, <2>6, <2>7 DEF ExprTreeNext
<1> QED
  BY <1>1, <1>2, PTL DEF ExprTreeSpec

(* A tree of tokens is a tree: every live node is reached from the root    *)
(* and points back along the way, through every insertion, erasure, choice *)
(* and merge (tree_type).                                                  *)
THEOREM ExprTreeCorrect == ExprTreeSpec => []ExprTreeInv
<1>1. ExprTreeIInv => ExprTreeInv
  BY ExprTreeIInvSays
<1> QED
  BY <1>1, ExprTreeInvariant, PTL
-----------------------------------------------------------------------------
(* Which node is under which.                                              *)
LEMMA SubtreeOfNode ==
    ASSUME NEW t, NEW L, Linked(t, L), NEW n \in L
    PROVE  /\ IsUnder(t, n, Subtree(t, n))
           /\ Subtree(t, n) \subseteq L /\ n \in Subtree(t, n)
           /\ \A d \in Subtree(t, n) : d # n => t.node[d].root \in Subtree(t, n)
           /\ t.node[n].root \notin Subtree(t, n)
           /\ t.top \in Subtree(t, n) => t.top = n
<1>1. IsUnder(t, n, Subtree(t, n))
  BY LinkedNodes, SubtreeOf
<1>2. IsCut(t, t, L)
  BY WholeTreeIsCut
<1> DEFINE D == Subtree(t, n)
<1> HIDE DEF D
<1>3. IsUnder(t, n, D)
  BY <1>1 DEF D
<1>4. /\ D \subseteq L /\ n \in D
      /\ \A d \in D : d # n => /\ t.node[d].root \in D
                               /\ \E side \in Sides : t.node[t.node[d].root][side] = d
      /\ t.node[n].root \notin D
      /\ t.top \in D => t.top = n
  BY <1>2, <1>3, BelowOf
<1> QED
  BY <1>3, <1>4 DEF D

LEMMA SubtreeOfTop ==
    ASSUME NEW t, NEW L, Linked(t, L), t.top # NoNode
    PROVE  Subtree(t, t.top) = L
<1>1. t \in Trees /\ t.top \in Nodes /\ IsUnder(t, t.top, L)
  BY DEF Linked, IsUnder
<1>2. IsUnder(t, t.top, Subtree(t, t.top))
  BY <1>1, SubtreeOf
<1> QED
  BY <1>1, <1>2 DEF IsUnder

(* Whatever is closed and has the node has what is under it.               *)
LEMMA SubtreeIsLeast ==
    ASSUME NEW t, NEW L, Linked(t, L), NEW n \in L, NEW C \in SUBSET L, n \in C, Closed(t, C)
    PROVE  Subtree(t, n) \subseteq C
<1>1. IsUnder(t, n, Subtree(t, n)) /\ C \in SUBSET Nodes
  BY SubtreeOfNode DEF Linked
<1> QED
  BY <1>1 DEF IsUnder

LEMMA SubtreeIsTransitive ==
    ASSUME NEW t, NEW L, Linked(t, L), NEW n \in L, NEW m \in Subtree(t, n)
    PROVE  m \in L /\ Subtree(t, m) \subseteq Subtree(t, n)
<1>1. Subtree(t, n) \in SUBSET L /\ Closed(t, Subtree(t, n))
  BY SubtreeOfNode DEF IsUnder
<1>2. m \in L
  BY <1>1
<1> QED
  BY <1>1, <1>2, SubtreeIsLeast

LEMMA SubtreeSplits ==
    ASSUME NEW t, NEW L, Linked(t, L), NEW n \in L
    PROVE  /\ Subtree(t, n) = {n} \cup Subtree(t, t.node[n]["left"]) \cup Subtree(t, t.node[n]["right"])
           /\ \A side \in Sides : \/ t.node[n][side] = NoNode /\ Subtree(t, t.node[n][side]) = {}
                                  \/ t.node[n][side] \in L /\ t.node[n][side] \in Subtree(t, n)
<1> DEFINE S(side) == Subtree(t, t.node[n][side])
           C == {n} \cup S("left") \cup S("right")
<1>1. ASSUME NEW side \in Sides
      PROVE  \/ t.node[n][side] = NoNode /\ S(side) = {}
             \/ t.node[n][side] \in L /\ t.node[n][side] \in Subtree(t, n)
  <2>1. CASE t.node[n][side] = NoNode
    BY <2>1, SubtreeOfNone
  <2>2. CASE t.node[n][side] # NoNode
    <3>1. t.node[n][side] \in L
      BY <2>2, LinkedNodes
    <3>2. Closed(t, Subtree(t, n)) /\ n \in Subtree(t, n)
      BY SubtreeOfNode DEF IsUnder
    <3> QED
      BY <2>2, <3>1, <3>2 DEF Closed
  <2> QED
    BY <2>1, <2>2
<1>2. ASSUME NEW side \in Sides
      PROVE  /\ S(side) \subseteq L /\ S(side) \subseteq Subtree(t, n) /\ Closed(t, S(side))
             /\ t.node[n][side] # NoNode => t.node[n][side] \in S(side)
  <2>1. CASE S(side) = {} /\ t.node[n][side] = NoNode
    BY <2>1 DEF Closed
  <2>2. CASE t.node[n][side] \in L /\ t.node[n][side] \in Subtree(t, n)
    <3>1. S(side) \subseteq Subtree(t, n)
      BY <2>2, SubtreeIsTransitive
    <3>2. S(side) \subseteq L /\ Closed(t, S(side)) /\ t.node[n][side] \in S(side)
      BY <2>2, SubtreeOfNode DEF IsUnder
    <3> QED
      BY <3>1, <3>2
  <2> QED
    BY <1>1, <2>1, <2>2
<1> HIDE DEF S
<1>3. "left" \in Sides /\ "right" \in Sides /\ \A side \in Sides : side = "left" \/ side = "right"
  BY DEF Sides
<1>4. C \in SUBSET L /\ n \in C
  BY <1>2, <1>3
<1>5. Closed(t, C)
  <2> SUFFICES ASSUME NEW m \in C, NEW side \in Sides, t.node[m][side] # NoNode
               PROVE  t.node[m][side] \in C
    BY DEF Closed
  <2>1. CASE m = n
    BY <1>2, <1>3, <2>1
  <2>2. CASE m \in S("left")
    BY <1>2, <1>3, <2>2 DEF Closed
  <2>3. CASE m \in S("right")
    BY <1>2, <1>3, <2>3 DEF Closed
  <2> QED
    BY <2>1, <2>2, <2>3
<1>6. Subtree(t, n) \subseteq C
  <2> HIDE DEF C
  <2> QED
    BY <1>4, <1>5, SubtreeIsLeast
<1>7. C \subseteq Subtree(t, n)
  BY <1>2, <1>3, SubtreeOfNode
<1>8. Subtree(t, n) = {n} \cup Subtree(t, t.node[n]["left"]) \cup Subtree(t, t.node[n]["right"])
  BY <1>6, <1>7 DEF S
<1>9. \A side \in Sides : \/ t.node[n][side] = NoNode /\ Subtree(t, t.node[n][side]) = {}
                          \/ t.node[n][side] \in L /\ t.node[n][side] \in Subtree(t, n)
  BY <1>1 DEF S
<1> QED
  BY <1>8, <1>9

(* Two nodes above a third: one is above the other.                        *)
LEMMA AboveIsAChain ==
    ASSUME NEW t, NEW L, Linked(t, L), NEW a \in L, NEW b \in L,
           NEW q \in Subtree(t, a), q \in Subtree(t, b)
    PROVE  a \in Subtree(t, b) \/ b \in Subtree(t, a)
<1> SUFFICES ASSUME a \notin Subtree(t, b), b \notin Subtree(t, a)
             PROVE  FALSE
  OBVIOUS
<1> DEFINE C == Subtree(t, a) \ Subtree(t, b)
<1>1. Subtree(t, a) \subseteq L /\ a \in Subtree(t, a) /\ Closed(t, Subtree(t, a))
  BY SubtreeOfNode DEF IsUnder
<1>2. \A d \in Subtree(t, b) : d # b => t.node[d].root \in Subtree(t, b)
  BY SubtreeOfNode
<1>3. C \in SUBSET L /\ a \in C
  BY <1>1
<1>4. Closed(t, C)
  <2> SUFFICES ASSUME NEW m \in C, NEW side \in Sides, t.node[m][side] # NoNode
               PROVE  t.node[m][side] \in C
    BY DEF Closed
  <2>1. t.node[m][side] \in Subtree(t, a) /\ t.node[m][side] # b
    BY <1>1 DEF Closed
  <2>2. t.node[t.node[m][side]].root = m
    BY <1>3 DEF Linked
  <2> QED
    BY <1>2, <2>1, <2>2
<1>5. Subtree(t, a) \subseteq C
  <2> HIDE DEF C
  <2> QED
    BY <1>3, <1>4, SubtreeIsLeast
<1> QED
  BY <1>5

(* A node put above another one is under what that one was under.          *)
LEMMA SubtreesWithRoot ==
    ASSUME NEW t, NEW L, Linked(t, L), NEW it \in L, NEW new \in Nodes \ L, NEW side \in Sides,
           NEW r, IsRootInserted(r, t, it, new, side)
    PROVE  /\ Subtree(r, new) = Subtree(t, it) \cup {new}
           /\ \A n \in L : Subtree(r, n) = IF n # it /\ it \in Subtree(t, n)
                                           THEN Subtree(t, n) \cup {new} ELSE Subtree(t, n)
<1> DEFINE K == L \cup {new}
           S(n) == Subtree(t, n)
<1>1. Linked(r, K)
  BY RootInserted
<1>2. /\ t \in Trees /\ L \subseteq Nodes /\ NoNode \notin L /\ new \notin L /\ new \in Nodes /\ new # NoNode
      /\ \A n \in L, q \in Sides : t.node[n][q] # NoNode => t.node[n][q] \in L
  <2>1. t \in Trees /\ L \subseteq Nodes /\ NoNode \notin Nodes
    BY NodesAreFinite DEF Linked
  <2>2. \A n \in L, q \in Sides : t.node[n][q] \in L \cup {NoNode}
    BY LinkedNodes
  <2> QED
    BY <2>1, <2>2
<1> DEFINE Led(n, q) == it # t.top /\ n = t.node[it].root /\ q = SideOf(t, it)
<1>3. \A n \in L, q \in Sides : r.node[n][q] = IF Led(n, q) THEN new ELSE t.node[n][q]
  BY <1>2 DEF IsRootInserted
<1>4. \A q \in Sides : r.node[new][q] \in {it, NoNode}
  <2>1. \A q \in Sides : q = side \/ q = Other(side)
    BY LeafOf
  <2> QED
    BY <2>1 DEF IsRootInserted
<1>5. r.node[new][side] = it
  BY DEF IsRootInserted
<1>6. \A n \in L, q \in Sides : Led(n, q) => t.node[n][q] = it
  <2> SUFFICES ASSUME it # t.top
               PROVE  t.node[t.node[it].root][SideOf(t, it)] = it
    OBVIOUS
  <2> QED
    BY SideOfLeads
<1>7. \A n \in L : n # it /\ it \in S(n) => t.node[it].root \in S(n) /\ it # t.top
  BY SubtreeOfNode
<1>8. it # t.top => SideOf(t, it) \in Sides /\ t.node[it].root \in L
  BY SideOfLeads
<1>9. \A n \in L : /\ S(n) \subseteq L /\ n \in S(n) /\ Closed(t, S(n))
  BY SubtreeOfNode DEF IsUnder
<1> HIDE DEF S, Led
<1>10. ASSUME NEW n \in L
       PROVE  /\ it \notin S(n) \/ n = it => Subtree(r, n) \subseteq S(n)
              /\ Subtree(r, n) \subseteq S(n) \cup {new}
              /\ it \in S(n) => Closed(r, S(n) \cup {new})
  <2>1. ASSUME it \notin S(n) \/ n = it
        PROVE  Subtree(r, n) \subseteq S(n)
    <3>1. Closed(r, S(n))
      <4> SUFFICES ASSUME NEW m \in S(n), NEW q \in Sides, r.node[m][q] # NoNode
                   PROVE  r.node[m][q] \in S(n)
        BY DEF Closed
      <4>1. ~Led(m, q)
        <5>1. CASE it \notin S(n)
          <6>1. t.node[m][q] # NoNode => t.node[m][q] \in S(n)
            BY <1>9 DEF Closed
          <6>2. it # NoNode
            BY <1>2
          <6> QED
            BY <1>6, <1>9, <5>1, <6>1, <6>2
        <5>2. CASE n = it
          <6>1. t.node[it].root \notin S(it)
            BY SubtreeOfNode DEF S
          <6> QED
            BY <5>2, <6>1 DEF Led
        <5> QED
          BY <2>1, <5>1, <5>2
      <4>2. r.node[m][q] = t.node[m][q]
        BY <1>3, <1>9, <4>1
      <4> QED
        BY <1>9, <4>2 DEF Closed
    <3>2. S(n) \in SUBSET K /\ n \in K /\ n \in S(n)
      BY <1>9
    <3> HIDE DEF K
    <3> QED
      BY <1>1, <3>1, <3>2, SubtreeIsLeast
  <2>2. ASSUME it \in S(n)
        PROVE  Closed(r, S(n) \cup {new})
    <3> SUFFICES ASSUME NEW m \in S(n) \cup {new}, NEW q \in Sides, r.node[m][q] # NoNode
                 PROVE  r.node[m][q] \in S(n) \cup {new}
      BY DEF Closed
    <3>1. CASE m = new
      BY <1>4, <2>2, <3>1
    <3>2. CASE m \in S(n)
      <4>1. r.node[m][q] \in {new, t.node[m][q]}
        BY <1>3, <1>9, <3>2
      <4>2. t.node[m][q] # NoNode => t.node[m][q] \in S(n)
        BY <1>9, <3>2 DEF Closed
      <4> QED
        BY <4>1, <4>2
    <3> QED
      BY <3>1, <3>2
  <2>3. ASSUME it \in S(n)
        PROVE  Subtree(r, n) \subseteq S(n) \cup {new}
    <3>1. S(n) \cup {new} \in SUBSET K /\ n \in K /\ n \in S(n) \cup {new}
      BY <1>9
    <3> HIDE DEF K
    <3> QED
      BY <1>1, <2>2, <2>3, <3>1, SubtreeIsLeast
  <2> QED
    BY <2>1, <2>2, <2>3
<1>11. ASSUME NEW n \in L
       PROVE  S(n) \subseteq Subtree(r, n)
  <2> DEFINE E == Subtree(r, n)
             C == E \cap L
  <2>1. E \subseteq K /\ n \in E /\ Closed(r, E)
    <3>1. n \in K
      OBVIOUS
    <3> HIDE DEF K
    <3> QED
      BY <1>1, <3>1, SubtreeOfNode DEF IsUnder
  <2> HIDE DEF E
  <2>2. Closed(t, C)
    <3> SUFFICES ASSUME NEW m \in C, NEW q \in Sides, t.node[m][q] # NoNode
                 PROVE  t.node[m][q] \in C
      BY DEF Closed
    <3>1. t.node[m][q] \in L
      BY <1>2
    <3>2. CASE Led(m, q)
      <4>1. r.node[m][q] = new /\ t.node[m][q] = it
        BY <1>3, <1>6, <3>2
      <4>2. new \in E
        BY <1>2, <2>1, <4>1 DEF Closed
      <4>3. it \in E
        BY <1>2, <1>5, <2>1, <4>2 DEF Closed
      <4> QED
        BY <4>1, <4>3
    <3>3. CASE ~Led(m, q)
      <4>1. r.node[m][q] = t.node[m][q]
        BY <1>3, <3>3
      <4> QED
        BY <2>1, <3>1, <4>1 DEF Closed
    <3> QED
      BY <3>2, <3>3
  <2>3. C \in SUBSET L /\ n \in C
    BY <2>1
  <2>4. S(n) \subseteq C
    <3> HIDE DEF C
    <3> QED
      BY <2>2, <2>3, SubtreeIsLeast DEF S
  <2> QED
    BY <2>4 DEF E
<1>12. ASSUME NEW n \in L, n # it, it \in S(n)
       PROVE  new \in Subtree(r, n)
  <2>1. t.node[it].root \in S(n) /\ it # t.top /\ t.node[it].root \in L /\ SideOf(t, it) \in Sides
    BY <1>7, <1>8, <1>12
  <2>2. r.node[t.node[it].root][SideOf(t, it)] = new
    BY <1>3, <2>1 DEF Led
  <2>3. t.node[it].root \in Subtree(r, n)
    BY <1>11, <1>12, <2>1
  <2>4. Closed(r, Subtree(r, n))
    <3>1. n \in K
      BY <1>12
    <3> HIDE DEF K
    <3> QED
      BY <1>1, <3>1, SubtreeOfNode DEF IsUnder
  <2> QED
    BY <1>2, <2>1, <2>2, <2>3, <2>4 DEF Closed
<1>13. ASSUME NEW n \in L
       PROVE  Subtree(r, n) = IF n # it /\ it \in S(n) THEN S(n) \cup {new} ELSE S(n)
  <2>1. CASE n # it /\ it \in S(n)
    <3>1. Subtree(r, n) \subseteq S(n) \cup {new} /\ S(n) \subseteq Subtree(r, n)
      BY <1>10, <1>11
    <3>2. new \in Subtree(r, n)
      BY <1>12, <2>1
    <3> QED
      BY <2>1, <3>1, <3>2
  <2>2. CASE ~(n # it /\ it \in S(n))
    <3>1. Subtree(r, n) \subseteq S(n) /\ S(n) \subseteq Subtree(r, n)
      BY <1>10, <1>11, <2>2
    <3> QED
      BY <2>2, <3>1
  <2> QED
    BY <2>1, <2>2
<1>14. Subtree(r, new) = S(it) \cup {new}
  <2>1. new \in K /\ S(it) \cup {new} \in SUBSET K /\ it \in S(it) /\ it \in K
    BY <1>9
  <2>2. Closed(r, S(it) \cup {new})
    BY <1>10, <2>1
  <2> HIDE DEF K
  <2>3. Subtree(r, new) \subseteq S(it) \cup {new}
    BY <1>1, <2>1, <2>2, SubtreeIsLeast
  <2>4. new \in Subtree(r, new) /\ Closed(r, Subtree(r, new))
    BY <1>1, <2>1, SubtreeOfNode DEF IsUnder
  <2>5. it \in Subtree(r, new)
    BY <1>2, <1>5, <2>4 DEF Closed
  <2>6. Subtree(r, it) \subseteq Subtree(r, new)
    BY <1>1, <2>1, <2>5, SubtreeIsTransitive
  <2> QED
    BY <1>11, <2>3, <2>4, <2>6
<1> QED
  BY <1>13, <1>14 DEF S

(* A leaf is under what its parent is under.                               *)
LEMMA SubtreesWithLeaf ==
    ASSUME NEW t, NEW L, Linked(t, L), NEW it \in L, NEW child \in Sides, t.node[it][child] = NoNode,
           NEW new \in Nodes \ L, NEW r, IsLeafAdded(r, t, it, child, new)
    PROVE  /\ Subtree(r, new) = {new}
           /\ \A n \in L : Subtree(r, n) = IF it \in Subtree(t, n)
                                           THEN Subtree(t, n) \cup {new} ELSE Subtree(t, n)
<1> DEFINE K == L \cup {new}
           S(n) == Subtree(t, n)
<1>1. Linked(r, K)
  BY LeafAdded
<1>2. /\ t \in Trees /\ L \subseteq Nodes /\ NoNode \notin L /\ new \notin L /\ new \in Nodes /\ new # NoNode
      /\ \A n \in L, q \in Sides : t.node[n][q] # NoNode => t.node[n][q] \in L
  <2>1. t \in Trees /\ L \subseteq Nodes /\ NoNode \notin Nodes
    BY NodesAreFinite DEF Linked
  <2>2. \A n \in L, q \in Sides : t.node[n][q] \in L \cup {NoNode}
    BY LinkedNodes
  <2> QED
    BY <2>1, <2>2
<1>3. /\ \A n \in L, q \in Sides : r.node[n][q] = IF n = it /\ q = child THEN new ELSE t.node[n][q]
      /\ \A q \in Sides : r.node[new][q] = NoNode
  BY <1>2 DEF IsLeafAdded
<1>4. \A n \in L : S(n) \subseteq L /\ n \in S(n) /\ Closed(t, S(n))
  BY SubtreeOfNode DEF IsUnder
<1> HIDE DEF S
<1>5. ASSUME NEW n \in L
      PROVE  Subtree(r, n) \subseteq (IF it \in S(n) THEN S(n) \cup {new} ELSE S(n))
  <2> DEFINE C == IF it \in S(n) THEN S(n) \cup {new} ELSE S(n)
  <2>1. C \in SUBSET K /\ n \in K /\ n \in C
    BY <1>4
  <2>2. Closed(r, C)
    <3> SUFFICES ASSUME NEW m \in C, NEW q \in Sides, r.node[m][q] # NoNode
                 PROVE  r.node[m][q] \in C
      BY DEF Closed
    <3>1. m \in S(n) /\ m \in L
      BY <1>3, <1>4
    <3>2. CASE m = it /\ q = child
      BY <1>3, <3>1, <3>2
    <3>3. CASE ~(m = it /\ q = child)
      <4>1. r.node[m][q] = t.node[m][q]
        BY <1>3, <3>1, <3>3
      <4> QED
        BY <1>4, <3>1, <4>1 DEF Closed
    <3> QED
      BY <3>2, <3>3
  <2> HIDE DEF K, C
  <2>3. Subtree(r, n) \subseteq C
    BY <1>1, <2>1, <2>2, SubtreeIsLeast
  <2> QED
    BY <2>3 DEF C
<1>6. ASSUME NEW n \in L
      PROVE  S(n) \subseteq Subtree(r, n) /\ (it \in S(n) => new \in Subtree(r, n))
  <2> DEFINE E == Subtree(r, n)
             C == E \cap L
  <2>1. E \subseteq K /\ n \in E /\ Closed(r, E)
    <3>1. n \in K
      OBVIOUS
    <3> HIDE DEF K
    <3> QED
      BY <1>1, <3>1, SubtreeOfNode DEF IsUnder
  <2> HIDE DEF E
  <2>2. Closed(t, C)
    <3> SUFFICES ASSUME NEW m \in C, NEW q \in Sides, t.node[m][q] # NoNode
                 PROVE  t.node[m][q] \in C
      BY DEF Closed
    <3>1. t.node[m][q] \in L /\ ~(m = it /\ q = child)
      BY <1>2
    <3>2. r.node[m][q] = t.node[m][q]
      BY <1>3, <3>1
    <3> QED
      BY <2>1, <3>1, <3>2 DEF Closed
  <2>3. C \in SUBSET L /\ n \in C
    BY <2>1
  <2>4. S(n) \subseteq C
    <3> HIDE DEF C
    <3> QED
      BY <2>2, <2>3, SubtreeIsLeast DEF S
  <2>5. it \in S(n) => new \in E
    BY <1>2, <1>3, <2>1, <2>4 DEF Closed
  <2> QED
    BY <2>4, <2>5 DEF E
<1>7. Subtree(r, new) = {new}
  <2>1. new \in K /\ {new} \in SUBSET K /\ Closed(r, {new})
    BY <1>3 DEF Closed
  <2> HIDE DEF K
  <2>2. Subtree(r, new) \subseteq {new} /\ new \in Subtree(r, new)
    BY <1>1, <2>1, SubtreeIsLeast, SubtreeOfNode
  <2> QED
    BY <2>2
<1>8. ASSUME NEW n \in L
      PROVE  Subtree(r, n) = IF it \in S(n) THEN S(n) \cup {new} ELSE S(n)
  <2>1. CASE it \in S(n)
    <3>1. Subtree(r, n) \subseteq S(n) \cup {new} /\ S(n) \subseteq Subtree(r, n) /\ new \in Subtree(r, n)
      BY <1>5, <1>6, <2>1
    <3> QED
      BY <2>1, <3>1
  <2>2. CASE it \notin S(n)
    <3>1. Subtree(r, n) \subseteq S(n) /\ S(n) \subseteq Subtree(r, n)
      BY <1>5, <1>6, <2>2
    <3> QED
      BY <2>2, <3>1
  <2> QED
    BY <2>1, <2>2
<1> QED
  BY <1>7, <1>8 DEF S

(* The walk sees what is above the node at which it ends, that node hangs  *)
(* at a right link, and what is at the end of the edge is under it.        *)
EndsEdge(t, L, q) ==
    /\ q \in L /\ t.node[q]["right"] = NoNode
    /\ \A m \in L : m # q /\ q \in Subtree(t, m) => q \in Subtree(t, t.node[m]["right"])
LEMMA StopIsOnTheEdge ==
    ASSUME NEW t, NEW L, Linked(t, L), t.top # NoNode, NEW s
    PROVE  LET x == Stop(t, s)
           IN /\ x \in L /\ StopsAt(t, x, s)
              /\ \A m \in L : x \in Subtree(t, m) /\ m # x => ~StopsAt(t, m, s)
              /\ x # t.top => /\ t.node[x].root \in L
                              /\ t.node[t.node[x].root]["right"] = x
                              /\ ~StopsAt(t, t.node[x].root, s)
              /\ \A q : EndsEdge(t, L, q) => q \in Subtree(t, x)
<1> DEFINE x == Stop(t, s)
           e == Edge(t)
<1>1. PICK c \in Nat : StopsAfter(t, L, s, c)
  BY StopIsReached
<1>2. /\ x = e[c] /\ StopsAt(t, e[c], s) /\ e[0] = t.top
      /\ \A k \in 0 .. c : e[k] \in L
      /\ \A k \in 0 .. (c - 1) : /\ ~StopsAt(t, e[k], s)
                                 /\ t.node[e[k]]["right"] = e[k + 1]
                                 /\ t.node[e[k + 1]].root = e[k]
  BY <1>1 DEF StopsAfter
<1> HIDE DEF x, e
<1>3. x \in L
  BY <1>2
<1> DEFINE A == {i \in Nat : i <= c => \A m \in L : e[i] \in Subtree(t, m) => \E j \in 0 .. i : m = e[j]}
<1>4. Nat \subseteq A
  <2>1. 0 \in A
    <3> SUFFICES ASSUME NEW m \in L, e[0] \in Subtree(t, m)
                 PROVE  m = e[0]
      OBVIOUS
    <3> QED
      BY <1>2, SubtreeOfNode
  <2>2. ASSUME NEW i \in Nat, i \in A
        PROVE  i + 1 \in A
    <3> SUFFICES ASSUME i + 1 <= c, NEW m \in L, e[i + 1] \in Subtree(t, m), m # e[i + 1]
                 PROVE  \E j \in 0 .. (i + 1) : m = e[j]
      OBVIOUS
    <3>1. i \in 0 .. (c - 1) /\ t.node[e[i + 1]].root = e[i]
      BY <1>2
    <3>2. e[i] \in Subtree(t, m)
      BY <3>1, SubtreeOfNode
    <3>3. PICK j \in 0 .. i : m = e[j]
      BY <2>2, <3>1, <3>2
    <3> QED
      BY <3>3
  <2> HIDE DEF A
  <2> QED
    BY <2>1, <2>2, NatSetInduction
<1>5. ASSUME NEW m \in L, x \in Subtree(t, m), m # x
      PROVE  ~StopsAt(t, m, s)
  <2>1. PICK j \in 0 .. c : m = e[j]
    BY <1>2, <1>4, <1>5
  <2>2. j \in 0 .. (c - 1)
    BY <1>2, <1>5, <2>1
  <2> QED
    BY <1>2, <2>1, <2>2
<1>6. ASSUME x # t.top
      PROVE  t.node[x].root \in L /\ t.node[t.node[x].root]["right"] = x /\ ~StopsAt(t, t.node[x].root, s)
  <2>1. c - 1 \in 0 .. (c - 1) /\ (c - 1) + 1 = c /\ c - 1 \in 0 .. c
    BY <1>2, <1>6
  <2> QED
    BY <1>2, <2>1
<1>7. ASSUME NEW q, EndsEdge(t, L, q)
      PROVE  q \in Subtree(t, x)
  <2> DEFINE B == {i \in Nat : i <= c => q \in Subtree(t, e[i])}
  <2>1. 0 \in B
    BY <1>2, <1>7, SubtreeOfTop DEF EndsEdge
  <2>2. ASSUME NEW i \in Nat, i \in B
        PROVE  i + 1 \in B
    <3> SUFFICES ASSUME i + 1 <= c
                 PROVE  q \in Subtree(t, e[i + 1])
      OBVIOUS
    <3>1. i \in 0 .. (c - 1) /\ i + 1 \in 0 .. c /\ i \in 0 .. c
      OBVIOUS
    <3>2. t.node[e[i]]["right"] = e[i + 1] /\ e[i + 1] \in L /\ e[i] \in L
      BY <1>2, <3>1
    <3>3. e[i] # q
      <4>1. NoNode \notin L
        BY LinkedNodes
      <4> QED
        BY <1>7, <3>2, <4>1 DEF EndsEdge
    <3> QED
      BY <1>7, <2>2, <3>1, <3>2, <3>3 DEF EndsEdge
  <2> HIDE DEF B
  <2>3. Nat \subseteq B
    BY <2>1, <2>2, NatSetInduction
  <2>4. c \in B
    BY <2>3
  <2> QED
    BY <1>2, <2>4 DEF B
<1> QED
  BY <1>2, <1>3, <1>5, <1>6, <1>7 DEF x
-----------------------------------------------------------------------------
(* The order of the tokens.                                                *)
Ordered(t, L) ==
    \A n \in L : /\ \A m \in Subtree(t, t.node[n]["left"]) : m < n
                 /\ \A m \in Subtree(t, t.node[n]["right"]) : m > n

LEMMA LargestEndsEdge ==
    ASSUME NEW t, NEW L, Linked(t, L), Ordered(t, L), L \subseteq Nat,
           NEW q \in L, \A m \in L : m <= q
    PROVE  EndsEdge(t, L, q)
<1>1. t.node[q]["right"] = NoNode
  <2> SUFFICES ASSUME t.node[q]["right"] # NoNode
               PROVE  FALSE
    OBVIOUS
  <2> DEFINE c == t.node[q]["right"]
  <2>1. c \in L
    <3>1. "right" \in Sides
      BY DEF Sides
    <3> QED
      BY <3>1, LinkedNodes
  <2> HIDE DEF c
  <2>2. c \in Subtree(t, c)
    BY <2>1, SubtreeOfNode
  <2>3. c > q
    BY <2>2 DEF Ordered, c
  <2> QED
    BY <2>1, <2>3
<1>2. ASSUME NEW m \in L, m # q, q \in Subtree(t, m)
      PROVE  q \in Subtree(t, t.node[m]["right"])
  <2>1. Subtree(t, m) = {m} \cup Subtree(t, t.node[m]["left"]) \cup Subtree(t, t.node[m]["right"])
    BY SubtreeSplits
  <2>2. q \notin Subtree(t, t.node[m]["left"])
    BY DEF Ordered
  <2> QED
    BY <1>2, <2>1, <2>2
<1> QED
  BY <1>1, <1>2 DEF EndsEdge

(* Put above a node at the right edge, the next token comes last.          *)
LEMMA OrderedWithRoot ==
    ASSUME NEW t, NEW L, Linked(t, L), Ordered(t, L), L \subseteq Nat,
           NEW q \in L, \A m \in L : m <= q,
           NEW it \in L, q \in Subtree(t, it),
           NEW new \in Nodes \ L, \A m \in L : m < new,
           NEW r, IsRootInserted(r, t, it, new, "left")
    PROVE  Ordered(r, L \cup {new})
<1>1. "left" \in Sides /\ "right" \in Sides /\ \A side \in Sides : side = "left" \/ side = "right"
  BY DEF Sides
<1>2. /\ Subtree(r, new) = Subtree(t, it) \cup {new}
      /\ \A n \in L : Subtree(r, n) = IF n # it /\ it \in Subtree(t, n)
                                      THEN Subtree(t, n) \cup {new} ELSE Subtree(t, n)
  BY <1>1, SubtreesWithRoot
<1>3. new \in Nat /\ L \subseteq Nodes /\ NoNode \notin L /\ new \notin L
  BY NodesAreFinite DEF Linked
<1>4. \A n \in L : Subtree(t, n) \subseteq L
  BY SubtreeOfNode
<1>5. ASSUME NEW n \in L
      PROVE  \A m \in Subtree(r, r.node[n]["left"]) : m < n
  <2> SUFFICES ASSUME NEW m \in Subtree(r, r.node[n]["left"])
               PROVE  m < n
    OBVIOUS
  <2> DEFINE c == t.node[n]["left"]
  <2>1. c = NoNode \/ c \in L
    BY <1>1, LinkedNodes
  <2>2. \A k \in Subtree(t, c) : k < n
    BY DEF Ordered
  <2> HIDE DEF c
  <2>3. ~(it # t.top /\ n = t.node[it].root /\ "left" = SideOf(t, it))
    <3> SUFFICES ASSUME it # t.top, n = t.node[it].root, "left" = SideOf(t, it)
                 PROVE  FALSE
      OBVIOUS
    <3>1. t.node[n]["left"] = it
      BY SideOfLeads
    <3>2. q < n
      BY <2>2, <3>1 DEF c
    <3>3. n <= q /\ n \in Nat /\ q \in Nat
      OBVIOUS
    <3> HIDE DEF c
    <3> QED
      BY <3>2, <3>3
  <2>4. r.node[n]["left"] = c
    BY <1>1, <1>3, <2>3 DEF IsRootInserted, c
  <2>5. m \in Subtree(r, c)
    BY <2>4
  <2>6. CASE c = NoNode
    BY <2>5, <2>6, SubtreeOfNone
  <2>7. CASE c \in L
    <3>1. it \notin Subtree(t, c)
      <4> SUFFICES ASSUME it \in Subtree(t, c)
                   PROVE  FALSE
        OBVIOUS
      <4>1. q \in Subtree(t, c)
        BY <2>7, SubtreeIsTransitive
      <4>2. q < n
        BY <2>2, <4>1
      <4> QED
        BY <4>2
    <3>2. Subtree(r, c) = Subtree(t, c)
      BY <1>2, <2>7, <3>1
    <3> QED
      BY <2>2, <2>5, <3>2
  <2> QED
    BY <2>1, <2>6, <2>7
<1>6. ASSUME NEW n \in L
      PROVE  \A m \in Subtree(r, r.node[n]["right"]) : m > n
  <2> SUFFICES ASSUME NEW m \in Subtree(r, r.node[n]["right"])
               PROVE  m > n
    OBVIOUS
  <2> DEFINE c == t.node[n]["right"]
  <2>1. c = NoNode \/ c \in L
    BY <1>1, LinkedNodes
  <2>2. \A k \in Subtree(t, c) : k > n
    BY DEF Ordered
  <2>3. new > n
    BY <1>3
  <2>4. CASE it # t.top /\ n = t.node[it].root /\ "right" = SideOf(t, it)
    <3>1. t.node[n]["right"] = it
      BY <2>4, SideOfLeads
    <3>2. r.node[n]["right"] = new
      BY <1>1, <1>3, <2>4 DEF IsRootInserted
    <3>3. m \in Subtree(t, c) \/ m = new
      BY <1>2, <3>1, <3>2
    <3> QED
      BY <2>2, <2>3, <3>3
  <2> HIDE DEF c
  <2>5. CASE ~(it # t.top /\ n = t.node[it].root /\ "right" = SideOf(t, it))
    <3>1. r.node[n]["right"] = c
      BY <1>1, <1>3, <2>5 DEF IsRootInserted, c
    <3>2. CASE c = NoNode
      BY <3>1, <3>2, SubtreeOfNone
    <3>3. CASE c \in L
      <4>1. Subtree(r, c) \subseteq Subtree(t, c) \cup {new}
        BY <1>2, <3>3
      <4>2. m \in Subtree(t, c) \/ m = new
        BY <3>1, <4>1
      <4> QED
        BY <2>2, <2>3, <4>2
    <3> QED
      BY <2>1, <3>2, <3>3
  <2> QED
    BY <2>4, <2>5
<1>7. \A m \in Subtree(r, r.node[new]["left"]) : m < new
  <2>1. r.node[new]["left"] = it
    BY DEF IsRootInserted
  <2>2. Subtree(r, it) = Subtree(t, it)
    BY <1>2
  <2> QED
    BY <1>4, <2>1, <2>2
<1>8. \A m \in Subtree(r, r.node[new]["right"]) : m > new
  <2>1. r.node[new]["right"] = NoNode
    <3>1. Other("left") = "right"
      BY DEF Other
    <3> QED
      BY <3>1 DEF IsRootInserted
  <2> QED
    BY <2>1, SubtreeOfNone
<1> QED
  BY <1>5, <1>6, <1>7, <1>8 DEF Ordered

LEMMA OrderedWithLeaf ==
    ASSUME NEW t, NEW L, Linked(t, L), Ordered(t, L), L \subseteq Nat,
           NEW it \in L, \A m \in L : m <= it, t.node[it]["right"] = NoNode,
           NEW new \in Nodes \ L, \A m \in L : m < new,
           NEW r, IsLeafAdded(r, t, it, "right", new)
    PROVE  Ordered(r, L \cup {new})
<1>1. "left" \in Sides /\ "right" \in Sides /\ "left" # "right"
  BY DEF Sides
<1>2. /\ Subtree(r, new) = {new}
      /\ \A n \in L : Subtree(r, n) = IF it \in Subtree(t, n)
                                      THEN Subtree(t, n) \cup {new} ELSE Subtree(t, n)
  BY <1>1, SubtreesWithLeaf
<1>3. new \in Nat /\ L \subseteq Nodes /\ NoNode \notin L /\ new \notin L
  BY NodesAreFinite DEF Linked
<1>4. ASSUME NEW n \in L
      PROVE  \A m \in Subtree(r, r.node[n]["left"]) : m < n
  <2> SUFFICES ASSUME NEW m \in Subtree(r, r.node[n]["left"])
               PROVE  m < n
    OBVIOUS
  <2> DEFINE c == t.node[n]["left"]
  <2>1. c = NoNode \/ c \in L
    BY <1>1, LinkedNodes
  <2>2. \A k \in Subtree(t, c) : k < n
    BY DEF Ordered
  <2> HIDE DEF c
  <2>3. r.node[n]["left"] = c
    BY <1>1, <1>3 DEF IsLeafAdded, c
  <2>4. CASE c = NoNode
    BY <2>3, <2>4, SubtreeOfNone
  <2>5. CASE c \in L
    <3>1. it \notin Subtree(t, c)
      <4> SUFFICES ASSUME it \in Subtree(t, c)
                   PROVE  FALSE
        OBVIOUS
      <4>1. it < n
        BY <2>2
      <4> QED
        BY <4>1
    <3>2. Subtree(r, c) = Subtree(t, c)
      BY <1>2, <2>5, <3>1
    <3> QED
      BY <2>2, <2>3, <3>2
  <2> QED
    BY <2>1, <2>4, <2>5
<1>5. ASSUME NEW n \in L
      PROVE  \A m \in Subtree(r, r.node[n]["right"]) : m > n
  <2> SUFFICES ASSUME NEW m \in Subtree(r, r.node[n]["right"])
               PROVE  m > n
    OBVIOUS
  <2> DEFINE c == t.node[n]["right"]
  <2>1. c = NoNode \/ c \in L
    BY <1>1, LinkedNodes
  <2>2. \A k \in Subtree(t, c) : k > n
    BY DEF Ordered
  <2>3. new > n
    BY <1>3
  <2> HIDE DEF c
  <2>4. CASE n = it
    <3>1. r.node[n]["right"] = new
      BY <1>1, <1>3, <2>4 DEF IsLeafAdded
    <3> QED
      BY <1>2, <2>3, <3>1
  <2>5. CASE n # it
    <3>1. r.node[n]["right"] = c
      BY <1>1, <1>3, <2>5 DEF IsLeafAdded, c
    <3>2. CASE c = NoNode
      BY <3>1, <3>2, SubtreeOfNone
    <3>3. CASE c \in L
      <4>1. Subtree(r, c) \subseteq Subtree(t, c) \cup {new}
        BY <1>2, <3>3
      <4>2. m \in Subtree(t, c) \/ m = new
        BY <3>1, <4>1
      <4> QED
        BY <2>2, <2>3, <4>2
    <3> QED
      BY <2>1, <3>2, <3>3
  <2> QED
    BY <2>4, <2>5
<1>6. r.node[new]["left"] = NoNode /\ r.node[new]["right"] = NoNode
  BY <1>1 DEF IsLeafAdded
<1> QED
  BY <1>4, <1>5, <1>6, SubtreeOfNone DEF Ordered
-----------------------------------------------------------------------------
(* The order of the operators.  Over(k, i) and Past(k, i): k may lie        *)
(* between i and an operator after, or before, that is under i.            *)
Rank(i) == Level[signals[i]]
IsAssign(i) == signals[i] \in Assigns
Over(k, i) == Rank(k) > Rank(i) \/ (Rank(k) = Rank(i) /\ IsAssign(i))
Past(k, i) == Rank(k) > Rank(i) \/ (Rank(k) = Rank(i) /\ ~IsAssign(i))
Row == signals \in Seq(Signals)
Few == Cardinality(Assignments) <= 2

LEMMA RanksOf ==
    ASSUME Row
    PROVE  /\ Len(signals) \in Nat /\ DOMAIN signals = 1 .. Len(signals)
           /\ \A i \in 1 .. Len(signals) : Rank(i) \in Nat
           /\ \A i, j \in 1 .. Len(signals) : Rank(i) = Rank(j) => (IsAssign(i) <=> IsAssign(j))
<1>1. \A i \in 1 .. Len(signals) : signals[i] \in Signals
  BY DEF Row
<1>2. Len(signals) \in Nat /\ DOMAIN signals = 1 .. Len(signals)
  BY DEF Row
<1>3. \A i \in 1 .. Len(signals) : Rank(i) \in Nat
  BY <1>1, ExprTreeAssumption DEF Rank
<1>4. \A i, j \in 1 .. Len(signals) : Rank(i) = Rank(j) => (IsAssign(i) <=> IsAssign(j))
  BY <1>1, ExprTreeAssumption DEF Rank, IsAssign
<1> QED
  BY <1>2, <1>3, <1>4

LEMMA BindsAfter ==
    ASSUME NEW i \in Nat, NEW j \in Nat, i < j
    PROVE  Binds(i, j) <=> \A k \in (i + 1) .. j : Over(k, i)
  BY DEF Binds, Over, Rank, IsAssign

LEMMA BindsBefore ==
    ASSUME NEW i \in Nat, NEW j \in Nat, j < i
    PROVE  Binds(i, j) <=> \A k \in j .. (i - 1) : Past(k, i)
<1>1. ~(i < j)
  OBVIOUS
<1> QED
  BY <1>1 DEF Binds, Past, Rank, IsAssign

LEMMA ThreeAreNotFew ==
    ASSUME Row, NEW i \in 1 .. Len(signals), NEW j \in 1 .. Len(signals), NEW k \in 1 .. Len(signals),
           i < j, j < k, IsAssign(i), IsAssign(j), IsAssign(k)
    PROVE  ~Few
<1>1. Len(signals) \in Nat /\ DOMAIN signals = 1 .. Len(signals)
  BY RanksOf
<1>2. {i, j, k} \subseteq Assignments /\ Assignments \subseteq 1 .. Len(signals)
  BY <1>1 DEF Assignments, IsAssign
<1>3. IsFiniteSet(Assignments)
  <2>1. IsFiniteSet(1 .. Len(signals))
    BY <1>1, FS_Interval
  <2> QED
    BY <1>2, <2>1, FS_Subset
<1>4. Cardinality({i, j, k}) = 3
  <2>1. IsFiniteSet({}) /\ Cardinality({}) = 0
    BY FS_EmptySet
  <2>2. IsFiniteSet({} \cup {i}) /\ Cardinality({} \cup {i}) = 1
    BY <2>1, FS_AddElement
  <2>3. IsFiniteSet({i}) /\ Cardinality({i}) = 1
    <3>1. {} \cup {i} = {i}
      OBVIOUS
    <3> QED
      BY <2>2, <3>1
  <2>4. IsFiniteSet({i} \cup {j}) /\ Cardinality({i} \cup {j}) = 2
    <3>1. j \notin {i}
      OBVIOUS
    <3> QED
      BY <2>3, <3>1, FS_AddElement
  <2>5. Cardinality(({i} \cup {j}) \cup {k}) = 3
    <3> DEFINE two == {i} \cup {j}
    <3>1. k \notin two /\ IsFiniteSet(two) /\ Cardinality(two) = 2
      BY <2>4
    <3> HIDE DEF two
    <3>2. Cardinality(two \cup {k}) = IF k \in two THEN Cardinality(two) ELSE Cardinality(two) + 1
      BY <3>1, FS_AddElement
    <3>3. Cardinality(two \cup {k}) = 3
      BY <3>1, <3>2
    <3> QED
      BY <3>3 DEF two
  <2>6. ({i} \cup {j}) \cup {k} = {i, j, k}
    OBVIOUS
  <2> QED
    BY <2>5, <2>6
<1>5. Cardinality({i, j, k}) <= Cardinality(Assignments) /\ Cardinality(Assignments) \in Nat
  BY <1>2, <1>3, FS_Subset, FS_CardinalityType
<1> QED
  BY <1>4, <1>5 DEF Few

LEMMA EvenOrOdd ==
    ASSUME NEW n \in Nat
    PROVE  \E k \in Nat : n = 2 * k \/ n = 2 * k + 1
<1> DEFINE A == {m \in Nat : \E k \in Nat : m = 2 * k \/ m = 2 * k + 1}
<1>1. 0 \in A
  <2>1. 0 \in Nat /\ 0 = 2 * 0
    OBVIOUS
  <2> QED
    BY <2>1
<1>2. ASSUME NEW m \in Nat, m \in A
      PROVE  m + 1 \in A
  <2>1. PICK k \in Nat : m = 2 * k \/ m = 2 * k + 1
    BY <1>2
  <2>2. CASE m = 2 * k
    <3>1. m + 1 = 2 * k + 1
      BY <2>2
    <3> QED
      BY <3>1
  <2>3. CASE m = 2 * k + 1
    <3> DEFINE c == k + 1
    <3>1. c \in Nat /\ m + 1 = 2 * c
      BY <2>3
    <3> HIDE DEF c
    <3> QED
      BY <3>1
  <2> QED
    BY <2>1, <2>2, <2>3
<1> HIDE DEF A
<1>3. Nat \subseteq A
  BY <1>1, <1>2, NatSetInduction
<1> QED
  BY <1>3 DEF A

LEMMA SignalAtSignal ==
    ASSUME NEW i \in Nat
    PROVE  Signal(i) = 2 * i /\ SignalAt(2 * i) = signals[i]
<1>1. (2 * i) \div 2 = i
  OBVIOUS
<1> QED
  BY <1>1 DEF Signal, SignalAt

(* The tree of n operators, and that tree with the operand after them.     *)
Ranked(t, n) ==
    \A i \in 1 .. n : \A j \in 1 .. n : i # j => (2 * j \in Subtree(t, 2 * i) <=> Binds(i, j))
ObjectsAreLeaves(t, L) ==
    \A k \in Nat : 2 * k + 1 \in L =>
        t.node[2 * k + 1]["left"] = NoNode /\ t.node[2 * k + 1]["right"] = NoNode
Placing(t, n) ==
    /\ Row /\ n \in 1 .. (Len(signals) - 1)
    /\ Linked(t, 1 .. (2 * n + 1)) /\ t.top # NoNode
    /\ Ordered(t, 1 .. (2 * n + 1))
    /\ Ranked(t, n) /\ ObjectsAreLeaves(t, 1 .. (2 * n + 1))
    /\ t.node[2 * n + 1].root = 2 * n

(* The right edge is the operators that reach the end.                     *)
LEMMA EdgeIsWhatBinds ==
    ASSUME NEW t, NEW n, Placing(t, n), NEW i \in 1 .. n
    PROVE  /\ 2 * i \in 1 .. (2 * n + 1)
           /\ 2 * n + 1 \in Subtree(t, 2 * i) <=> (i = n \/ Binds(i, n))
           /\ 2 * n + 1 \in Subtree(t, 2 * i) => \A k \in (i + 1) .. n : Over(k, i)
<1> DEFINE L == 1 .. (2 * n + 1)
           q == 2 * n + 1
<1>1. n \in Nat /\ n >= 1 /\ Linked(t, L) /\ t.node[q].root = 2 * n /\ Ranked(t, n)
  BY RanksOf DEF Placing
<1>2. 2 * i \in L /\ q \in L /\ 2 * n \in L /\ q # 2 * i /\ n \in 1 .. n
  BY <1>1
<1>3. q \in Subtree(t, 2 * i) => 2 * n \in Subtree(t, 2 * i)
  BY <1>1, <1>2, SubtreeOfNode
<1>4. 2 * n \in Subtree(t, 2 * i) => q \in Subtree(t, 2 * i)
  <2> SUFFICES ASSUME 2 * n \in Subtree(t, 2 * i)
               PROVE  q \in Subtree(t, 2 * i)
    OBVIOUS
  <2>1. q # t.top
    <3>1. t.node[t.top].root = NoNode
      BY <1>1, <1>2, LinkedNodes
    <3> QED
      BY <1>1, <3>1 DEF NoNode
  <2>2. SideOf(t, q) \in Sides /\ t.node[2 * n][SideOf(t, q)] = q
    BY <1>1, <1>2, <2>1, SideOfLeads
  <2>3. Closed(t, Subtree(t, 2 * i))
    BY <1>1, <1>2, SubtreeOfNode DEF IsUnder
  <2>4. q # NoNode
    BY <1>1 DEF NoNode
  <2> QED
    BY <2>2, <2>3, <2>4 DEF Closed
<1>5. i # n => (2 * n \in Subtree(t, 2 * i) <=> Binds(i, n))
  BY <1>1, <1>2 DEF Ranked
<1>6. 2 * n \in Subtree(t, 2 * n)
  BY <1>1, <1>2, SubtreeOfNode
<1>7. q \in Subtree(t, 2 * i) <=> (i = n \/ Binds(i, n))
  BY <1>3, <1>4, <1>5, <1>6
<1>8. ASSUME q \in Subtree(t, 2 * i)
      PROVE  \A k \in (i + 1) .. n : Over(k, i)
  <2>1. CASE i = n
    BY <1>1, <2>1
  <2>2. CASE i # n
    BY <1>1, <1>7, <1>8, <2>2, BindsAfter
  <2> QED
    BY <2>1, <2>2
<1> QED
  BY <1>2, <1>7, <1>8

(* The next operator above a node of the edge, when it is above and under  *)
(* what it binds and what binds it.                                        *)
LEMMA RankedWithNext ==
    ASSUME NEW t, NEW n, Placing(t, n), NEW y \in 1 .. (2 * n + 1),
           2 * n + 1 \in Subtree(t, y),
           \A i \in 1 .. n : (y \in Subtree(t, 2 * i) /\ y # 2 * i) <=> Binds(i, n + 1),
           \A i \in 1 .. n : 2 * i \in Subtree(t, y) <=> Binds(n + 1, i),
           2 * n + 2 \in Nodes,
           NEW r, IsRootInserted(r, t, y, 2 * n + 2, "left")
    PROVE  /\ Ordered(r, 1 .. (2 * n + 2)) /\ Ranked(r, n + 1)
           /\ ObjectsAreLeaves(r, 1 .. (2 * n + 2))
<1> DEFINE L == 1 .. (2 * n + 1)
           q == 2 * n + 1
           new == 2 * n + 2
<1>1. n \in Nat /\ n >= 1 /\ Linked(t, L) /\ Ordered(t, L) /\ Ranked(t, n) /\ ObjectsAreLeaves(t, L)
  BY RanksOf DEF Placing
<1>2. L \subseteq Nat /\ q \in L /\ (\A m \in L : m <= q) /\ new \in Nodes \ L /\ (\A m \in L : m < new)
      /\ L \cup {new} = 1 .. (2 * n + 2)
  BY <1>1
<1>3. "left" \in Sides /\ "right" \in Sides
  BY DEF Sides
<1>4. Ordered(r, 1 .. (2 * n + 2))
  <2> HIDE DEF L, q, new
  <2>1. Ordered(r, L \cup {new})
    BY <1>1, <1>2, OrderedWithRoot DEF L, q, new
  <2> QED
    BY <1>2, <2>1
<1>5. /\ Subtree(r, new) = Subtree(t, y) \cup {new}
      /\ \A m \in L : Subtree(r, m) = IF m # y /\ y \in Subtree(t, m)
                                      THEN Subtree(t, m) \cup {new} ELSE Subtree(t, m)
  BY <1>1, <1>2, <1>3, SubtreesWithRoot
<1>6. Ranked(r, n + 1)
  <2> SUFFICES ASSUME NEW i \in 1 .. (n + 1), NEW j \in 1 .. (n + 1), i # j
               PROVE  2 * j \in Subtree(r, 2 * i) <=> Binds(i, j)
    BY DEF Ranked
  <2>1. CASE i = n + 1
    <3>1. j \in 1 .. n /\ 2 * i = new /\ 2 * j # new
      BY <1>1, <2>1
    <3> QED
      BY <1>5, <2>1, <3>1
  <2>2. CASE j = n + 1
    <3>1. i \in 1 .. n /\ 2 * j = new /\ 2 * i \in L /\ new \notin L
      BY <1>1, <1>2, <2>2
    <3>2. Subtree(t, 2 * i) \subseteq L
      BY <1>1, <3>1, SubtreeOfNode
    <3>3. 2 * j \in Subtree(r, 2 * i) <=> (y \in Subtree(t, 2 * i) /\ y # 2 * i)
      BY <1>5, <3>1, <3>2
    <3> QED
      BY <2>2, <3>1, <3>3
  <2>3. CASE i # n + 1 /\ j # n + 1
    <3>1. i \in 1 .. n /\ j \in 1 .. n /\ 2 * i \in L /\ 2 * j # new
      BY <1>1, <2>3
    <3>2. 2 * j \in Subtree(r, 2 * i) <=> 2 * j \in Subtree(t, 2 * i)
      BY <1>5, <3>1
    <3> QED
      BY <1>1, <3>1, <3>2 DEF Ranked
  <2> QED
    BY <2>1, <2>2, <2>3
<1>7. ObjectsAreLeaves(r, 1 .. (2 * n + 2))
  <2> SUFFICES ASSUME NEW k \in Nat, 2 * k + 1 \in 1 .. (2 * n + 2), NEW side \in Sides
               PROVE  r.node[2 * k + 1][side] = NoNode
    BY <1>3 DEF ObjectsAreLeaves
  <2> DEFINE m == 2 * k + 1
  <2>1. m \in L /\ m # new
    BY <1>1
  <2>2. t.node[m][side] = NoNode
    BY <1>1, <2>1 DEF ObjectsAreLeaves, Sides
  <2>3. ~(y # t.top /\ m = t.node[y].root /\ side = SideOf(t, y))
    <3> SUFFICES ASSUME y # t.top, m = t.node[y].root, side = SideOf(t, y)
                 PROVE  FALSE
      OBVIOUS
    <3>1. t.node[m][side] = y
      BY <1>1, SideOfLeads
    <3>2. y # NoNode
      BY DEF NoNode
    <3> QED
      BY <2>2, <3>1, <3>2
  <2>4. m \in Nodes \ {new}
    BY <1>1, <2>1 DEF Linked
  <2>5. r.node[m][side] = t.node[m][side]
    BY <2>3, <2>4 DEF IsRootInserted
  <2> QED
    BY <2>2, <2>5
<1> QED
  BY <1>4, <1>6, <1>7

(* The walk, for the next operator.                                        *)
OnWalk(t, n, x) ==
    /\ x \in 1 .. (2 * n + 1) /\ 2 * n + 1 \in Subtree(t, x)
    /\ EndsEdge(t, 1 .. (2 * n + 1), 2 * n + 1)
    /\ \A i \in 1 .. n : x \in Subtree(t, 2 * i) /\ x # 2 * i =>
           Rank(i) < Rank(n + 1) /\ 2 * n + 1 \in Subtree(t, 2 * i)
    /\ x = 2 * n + 1 \/ \E a \in 1 .. n : /\ x = 2 * a /\ Rank(a) >= Rank(n + 1)
                                          /\ t.node[x]["right"] # NoNode
    /\ x = t.top \/ \E c \in 1 .. n : /\ t.node[2 * c]["right"] = x /\ Rank(c) < Rank(n + 1)
                                      /\ 2 * n + 1 \in Subtree(t, 2 * c)

LEMMA RanksHere ==
    ASSUME NEW t, NEW n, Placing(t, n)
    PROVE  /\ n \in Nat /\ n >= 1 /\ n + 1 \in 1 .. Len(signals) /\ Len(signals) \in Nat
           /\ \A i \in 1 .. (n + 1) : i \in 1 .. Len(signals) /\ Rank(i) \in Nat
           /\ \A i, j \in 1 .. (n + 1) : Rank(i) = Rank(j) => (IsAssign(i) <=> IsAssign(j))
<1>1. Row /\ n \in 1 .. (Len(signals) - 1)
  BY DEF Placing
<1>2. Len(signals) \in Nat /\ (\A i \in 1 .. Len(signals) : Rank(i) \in Nat)
  BY <1>1, RanksOf
<1>3. \A i, j \in 1 .. Len(signals) : Rank(i) = Rank(j) => (IsAssign(i) <=> IsAssign(j))
  BY <1>1, RanksOf
<1>4. n \in Nat /\ n >= 1 /\ n + 1 \in 1 .. Len(signals)
  BY <1>1, <1>2
<1>5. \A i \in 1 .. (n + 1) : i \in 1 .. Len(signals)
  BY <1>2, <1>4
<1> QED
  BY <1>2, <1>3, <1>4, <1>5

LEMMA WalkStops ==
    ASSUME NEW t, NEW n, Placing(t, n)
    PROVE  OnWalk(t, n, Stop(t, signals[n + 1]))
<1> DEFINE L == 1 .. (2 * n + 1)
           q == 2 * n + 1
           s == signals[n + 1]
           x == Stop(t, s)
<1>1. n \in Nat /\ n >= 1 /\ (\A i \in 1 .. (n + 1) : Rank(i) \in Nat)
  BY RanksHere
<1>2. Linked(t, L) /\ t.top # NoNode /\ Ordered(t, L) /\ ObjectsAreLeaves(t, L)
  BY DEF Placing
<1>3. L \subseteq Nat /\ q \in L /\ (\A m \in L : m <= q) /\ (\A i \in 1 .. n : 2 * i \in L)
  BY <1>1
<1>4. EndsEdge(t, L, q)
  <2> HIDE DEF L, q
  <2> QED
    BY <1>2, <1>3, LargestEndsEdge
<1> HIDE DEF s
<1>5. /\ x \in L /\ StopsAt(t, x, s)
      /\ \A m \in L : x \in Subtree(t, m) /\ m # x => ~StopsAt(t, m, s)
      /\ x # t.top => /\ t.node[x].root \in L
                      /\ t.node[t.node[x].root]["right"] = x
                      /\ ~StopsAt(t, t.node[x].root, s)
      /\ q \in Subtree(t, x)
  <2> HIDE DEF L, q
  <2>1. \A p : EndsEdge(t, L, p) => p \in Subtree(t, x)
    BY <1>2, StopIsOnTheEdge
  <2> QED
    BY <1>2, <1>4, <2>1, StopIsOnTheEdge
<1> HIDE DEF x
<1>6. \A i \in 1 .. n : StopsAt(t, 2 * i, s) <=> t.node[2 * i]["right"] = NoNode \/ Rank(i) >= Rank(n + 1)
  <2> SUFFICES ASSUME NEW i \in 1 .. n
               PROVE  StopsAt(t, 2 * i, s) <=> t.node[2 * i]["right"] = NoNode \/ Rank(i) >= Rank(n + 1)
    OBVIOUS
  <2>1. SignalAt(2 * i) = signals[i]
    BY <1>1, SignalAtSignal
  <2> QED
    BY <2>1 DEF StopsAt, Rank, s
<1>7. ASSUME NEW i \in 1 .. n, ~StopsAt(t, 2 * i, s)
      PROVE  Rank(i) < Rank(n + 1)
  <2>1. Rank(i) \in Nat /\ Rank(n + 1) \in Nat
    BY <1>1
  <2> QED
    BY <1>6, <1>7, <2>1
<1>8. ASSUME NEW m \in L, m # q, q \in Subtree(t, m)
      PROVE  t.node[m]["right"] # NoNode /\ \E a \in 1 .. n : m = 2 * a
  <2>1. q \in Subtree(t, t.node[m]["right"])
    BY <1>4, <1>8 DEF EndsEdge
  <2>2. t.node[m]["right"] # NoNode
    BY <2>1, SubtreeOfNone
  <2>3. PICK k \in Nat : m = 2 * k \/ m = 2 * k + 1
    BY <1>3, EvenOrOdd
  <2>4. m # 2 * k + 1
    BY <1>2, <2>2 DEF ObjectsAreLeaves
  <2>5. m = 2 * k /\ k \in 1 .. n
    BY <1>1, <2>3, <2>4
  <2> QED
    BY <2>2, <2>5
<1>9. ASSUME NEW i \in 1 .. n, x \in Subtree(t, 2 * i), x # 2 * i
      PROVE  Rank(i) < Rank(n + 1) /\ q \in Subtree(t, 2 * i)
  <2>1. 2 * i \in L
    BY <1>3
  <2>2. ~StopsAt(t, 2 * i, s)
    BY <1>5, <1>9, <2>1
  <2>3. Subtree(t, x) \subseteq Subtree(t, 2 * i)
    <3> DEFINE m == 2 * i
    <3>1. m \in L /\ x \in Subtree(t, m)
      BY <1>9, <2>1
    <3> HIDE DEF L, m
    <3>2. Subtree(t, x) \subseteq Subtree(t, m)
      BY <1>2, <3>1, SubtreeIsTransitive
    <3> QED
      BY <3>2 DEF m
  <2> QED
    BY <1>5, <1>7, <2>2, <2>3
<1>10. x = q \/ \E a \in 1 .. n : x = 2 * a /\ Rank(a) >= Rank(n + 1) /\ t.node[x]["right"] # NoNode
  <2> SUFFICES ASSUME x # q
               PROVE  \E a \in 1 .. n : x = 2 * a /\ Rank(a) >= Rank(n + 1) /\ t.node[x]["right"] # NoNode
    OBVIOUS
  <2>1. t.node[x]["right"] # NoNode /\ \E a \in 1 .. n : x = 2 * a
    BY <1>5, <1>8
  <2>2. PICK a \in 1 .. n : x = 2 * a
    BY <2>1
  <2>3. Rank(a) >= Rank(n + 1)
    BY <1>5, <1>6, <2>1, <2>2
  <2> QED
    BY <2>1, <2>2, <2>3
<1>11. x = t.top \/ \E c \in 1 .. n : /\ t.node[2 * c]["right"] = x /\ Rank(c) < Rank(n + 1)
                                      /\ q \in Subtree(t, 2 * c)
  <2> SUFFICES ASSUME x # t.top
               PROVE  \E c \in 1 .. n : /\ t.node[2 * c]["right"] = x /\ Rank(c) < Rank(n + 1)
                                        /\ q \in Subtree(t, 2 * c)
    OBVIOUS
  <2> DEFINE up == t.node[x].root
  <2>1. up \in L /\ t.node[up]["right"] = x /\ ~StopsAt(t, up, s)
    BY <1>5
  <2> HIDE DEF up
  <2>2. x # NoNode
    BY <1>5 DEF NoNode
  <2>3. x \in Subtree(t, up)
    <3>1. IsUnder(t, up, Subtree(t, up))
      BY <1>2, <2>1, SubtreeOfNode
    <3> QED
      BY <2>1, <2>2, <3>1 DEF IsUnder, Closed, Sides
  <2>4. q \in Subtree(t, up)
    <3>1. Subtree(t, x) \subseteq Subtree(t, up)
      <4> HIDE DEF L
      <4> QED
        BY <1>2, <2>1, <2>3, SubtreeIsTransitive
    <3> QED
      BY <1>5, <3>1
  <2>5. up # q
    BY <1>4, <2>1, <2>2 DEF EndsEdge
  <2>6. PICK c \in 1 .. n : up = 2 * c
    BY <1>8, <2>1, <2>4, <2>5
  <2>7. Rank(c) < Rank(n + 1)
    BY <1>7, <2>1, <2>6
  <2> QED
    BY <2>1, <2>4, <2>6, <2>7
<1> QED
  BY <1>4, <1>5, <1>9, <1>10, <1>11 DEF OnWalk, x, s

(* An assignment at which the walk of another one stops: the new one goes  *)
(* under its right side.  Otherwise the new operator goes above the node.  *)
Joins(t, n, x) ==
    \E a \in 1 .. n : x = 2 * a /\ Rank(a) = Rank(n + 1) /\ IsAssign(a)

LEMMA WalkFacts ==
    ASSUME NEW t, NEW n, Placing(t, n), NEW x, OnWalk(t, n, x)
    PROVE  /\ \A m \in 1 .. (2 * n + 1) : m \in Subtree(t, m)
           /\ \A i \in 1 .. n : 2 * i \in 1 .. (2 * n + 1)
           /\ x = 2 * n + 1 => \A i \in 1 .. n : 2 * i \notin Subtree(t, x)
           /\ \A i \in 1 .. n : Binds(i, n + 1) =>
                  /\ 2 * n + 1 \in Subtree(t, 2 * i)
                  /\ x \in Subtree(t, 2 * i) \/ 2 * i \in Subtree(t, x)
           /\ \A i \in 1 .. n : Binds(i, n + 1) <=> \A k \in (i + 1) .. (n + 1) : Over(k, i)
           /\ \A i \in 1 .. n : Binds(n + 1, i) <=> \A k \in i .. n : Past(k, n + 1)
<1> DEFINE L == 1 .. (2 * n + 1)
           q == 2 * n + 1
<1>1. n \in Nat /\ n >= 1
  BY RanksHere
<1>2. Linked(t, L) /\ ObjectsAreLeaves(t, L) /\ t.top # NoNode
  BY DEF Placing
<1>3. q \in L /\ (\A i \in 1 .. n : 2 * i \in L) /\ x \in L /\ (\A i \in 1 .. n : 2 * i # q)
  BY <1>1 DEF OnWalk
<1>4. \A m \in L : m \in Subtree(t, m)
  <2> HIDE DEF L
  <2> QED
    BY <1>2, SubtreeOfNode
<1>5. x = q => \A i \in 1 .. n : 2 * i \notin Subtree(t, x)
  <2> SUFFICES ASSUME x = q
               PROVE  \A i \in 1 .. n : 2 * i \notin Subtree(t, x)
    OBVIOUS
  <2>1. t.node[q]["left"] = NoNode /\ t.node[q]["right"] = NoNode
    BY <1>1, <1>2, <1>3 DEF ObjectsAreLeaves
  <2>2. Subtree(t, q) = {q} \cup Subtree(t, t.node[q]["left"]) \cup Subtree(t, t.node[q]["right"])
    <3> HIDE DEF L, q
    <3> QED
      BY <1>2, <1>3, SubtreeSplits
  <2>3. Subtree(t, q) = {q}
    BY <2>1, <2>2, SubtreeOfNone
  <2> QED
    BY <1>3, <2>3
<1>6. \A i \in 1 .. n : Binds(i, n + 1) <=> \A k \in (i + 1) .. (n + 1) : Over(k, i)
  <2> SUFFICES ASSUME NEW i \in 1 .. n
               PROVE  Binds(i, n + 1) <=> \A k \in (i + 1) .. (n + 1) : Over(k, i)
    OBVIOUS
  <2>1. i \in Nat /\ n + 1 \in Nat /\ i < n + 1
    BY <1>1
  <2> QED
    BY <2>1, BindsAfter
<1>7. \A i \in 1 .. n : Binds(n + 1, i) <=> \A k \in i .. n : Past(k, n + 1)
  <2> SUFFICES ASSUME NEW i \in 1 .. n
               PROVE  Binds(n + 1, i) <=> \A k \in i .. n : Past(k, n + 1)
    OBVIOUS
  <2>1. i \in Nat /\ n + 1 \in Nat /\ i < n + 1 /\ (n + 1) - 1 = n
    BY <1>1
  <2>2. Binds(n + 1, i) <=> \A k \in i .. ((n + 1) - 1) : Past(k, n + 1)
    BY <2>1, BindsBefore
  <2> QED
    BY <2>1, <2>2
<1>8. ASSUME NEW i \in 1 .. n, Binds(i, n + 1)
      PROVE  q \in Subtree(t, 2 * i) /\ (x \in Subtree(t, 2 * i) \/ 2 * i \in Subtree(t, x))
  <2>1. i = n \/ Binds(i, n)
    <3> SUFFICES ASSUME i # n
                 PROVE  Binds(i, n)
      OBVIOUS
    <3>1. i \in Nat /\ n \in Nat /\ i < n
      BY <1>1
    <3>2. \A k \in (i + 1) .. n : Over(k, i)
      BY <1>1, <1>6, <1>8
    <3> QED
      BY <3>1, <3>2, BindsAfter
  <2>2. q \in Subtree(t, 2 * i)
    BY <2>1, EdgeIsWhatBinds
  <2> DEFINE m == 2 * i
  <2>3. m \in L /\ x \in L /\ q \in Subtree(t, m) /\ q \in Subtree(t, x)
    BY <1>3, <2>2 DEF OnWalk
  <2> HIDE DEF L, q, m
  <2>4. x \in Subtree(t, m) \/ m \in Subtree(t, x)
    BY <1>2, <2>3, AboveIsAChain
  <2> QED
    BY <2>3, <2>4 DEF m
<1> QED
  BY <1>3, <1>4, <1>5, <1>6, <1>7, <1>8

(* What is under an operator that the walk stops at binds as tight.        *)
LEMMA UnderTheStop ==
    ASSUME NEW t, NEW n, Placing(t, n), NEW a \in 1 .. n, NEW i \in 1 .. n,
           2 * n + 1 \in Subtree(t, 2 * a), 2 * i \in Subtree(t, 2 * a)
    PROVE  /\ \A k \in i .. n : Rank(k) >= Rank(a)
           /\ i < a => Past(i, a)
           /\ \A k \in (a + 1) .. n : Over(k, a)
<1>1. n \in Nat /\ n >= 1 /\ (\A k \in 1 .. (n + 1) : Rank(k) \in Nat)
  BY RanksHere
<1>2. \A k \in (a + 1) .. n : Over(k, a)
  BY EdgeIsWhatBinds
<1>3. i < a => \A k \in i .. (a - 1) : Past(k, a)
  <2> SUFFICES ASSUME i < a
               PROVE  \A k \in i .. (a - 1) : Past(k, a)
    OBVIOUS
  <2>1. Binds(a, i)
    BY <1>1 DEF Placing, Ranked
  <2>2. a \in Nat /\ i \in Nat
    BY <1>1
  <2> QED
    BY <2>1, <2>2, BindsBefore
<1>4. ASSUME NEW k \in i .. n
      PROVE  Rank(k) >= Rank(a)
  <2>1. Rank(k) \in Nat /\ Rank(a) \in Nat
    BY <1>1
  <2>2. CASE k = a
    BY <2>1, <2>2
  <2>3. CASE k > a
    <3>1. Over(k, a)
      BY <1>1, <1>2, <2>3
    <3> QED
      BY <2>1, <3>1 DEF Over
  <2>4. CASE k < a
    <3>1. Past(k, a)
      BY <1>1, <1>3, <2>4
    <3> QED
      BY <2>1, <3>1 DEF Past
  <2> QED
    BY <1>1, <2>2, <2>3, <2>4
<1>5. i < a => Past(i, a)
  BY <1>1, <1>3
<1> QED
  BY <1>2, <1>4, <1>5

(* An operator under the one that the walk stops at binds the next one     *)
(* only as an assignment does.                                             *)
LEMMA BindsFromBelow ==
    ASSUME NEW t, NEW n, Placing(t, n), NEW a \in 1 .. n, NEW i \in 1 .. n,
           2 * n + 1 \in Subtree(t, 2 * a), 2 * i \in Subtree(t, 2 * a),
           Rank(a) >= Rank(n + 1), Binds(i, n + 1), NEW x, OnWalk(t, n, x)
    PROVE  Rank(a) = Rank(n + 1) /\ IsAssign(a) /\ IsAssign(i) /\ IsAssign(n + 1) /\ ~(i < a)
<1>1. n \in Nat /\ n >= 1 /\ (\A k \in 1 .. (n + 1) : Rank(k) \in Nat)
  BY RanksHere
<1>2. \A k, m \in 1 .. (n + 1) : Rank(k) = Rank(m) => (IsAssign(k) <=> IsAssign(m))
  BY RanksHere
<1>3. Over(n + 1, i)
  <2>1. \A k \in (i + 1) .. (n + 1) : Over(k, i)
    BY WalkFacts
  <2> QED
    BY <1>1, <2>1
<1>4. Rank(i) >= Rank(a)
  <2>1. \A k \in i .. n : Rank(k) >= Rank(a)
    BY UnderTheStop
  <2> QED
    BY <1>1, <2>1
<1>5. Rank(i) = Rank(a) /\ Rank(a) = Rank(n + 1) /\ IsAssign(i)
  <2>1. Rank(i) \in Nat /\ Rank(a) \in Nat /\ Rank(n + 1) \in Nat
    BY <1>1
  <2> QED
    BY <1>3, <1>4, <2>1 DEF Over
<1>6. IsAssign(a) /\ IsAssign(n + 1)
  BY <1>1, <1>2, <1>5
<1>7. ~(i < a)
  <2> SUFFICES ASSUME i < a
               PROVE  FALSE
    OBVIOUS
  <2>1. Past(i, a)
    BY UnderTheStop
  <2>2. Rank(i) \in Nat /\ Rank(a) \in Nat
    BY <1>1
  <2> QED
    BY <1>5, <1>6, <2>1, <2>2 DEF Past
<1> QED
  BY <1>5, <1>6, <1>7

(* Above the node that the walk stops at, if that is not an assignment that *)
(* the next operator joins.                                                *)
LEMMA AboveTheStop ==
    ASSUME NEW t, NEW n, Placing(t, n), NEW x, OnWalk(t, n, x), ~Joins(t, n, x)
    PROVE  /\ \A i \in 1 .. n : (x \in Subtree(t, 2 * i) /\ x # 2 * i) <=> Binds(i, n + 1)
           /\ \A i \in 1 .. n : 2 * i \in Subtree(t, x) <=> Binds(n + 1, i)
<1> DEFINE L == 1 .. (2 * n + 1)
           q == 2 * n + 1
<1>1. n \in Nat /\ n >= 1 /\ (\A k \in 1 .. (n + 1) : Rank(k) \in Nat)
  BY RanksHere
<1>2. \A k, m \in 1 .. (n + 1) : Rank(k) = Rank(m) => (IsAssign(k) <=> IsAssign(m))
  BY RanksHere
<1>3. x \in L /\ q \in Subtree(t, x)
  BY DEF OnWalk
<1>4. ASSUME NEW i \in 1 .. n, x \in Subtree(t, 2 * i), x # 2 * i
      PROVE  Binds(i, n + 1)
  <2>1. Rank(i) < Rank(n + 1) /\ q \in Subtree(t, 2 * i)
    BY <1>4 DEF OnWalk
  <2>2. \A k \in (i + 1) .. n : Over(k, i)
    BY <2>1, EdgeIsWhatBinds
  <2>3. Over(n + 1, i)
    BY <1>1, <2>1 DEF Over
  <2>4. \A k \in (i + 1) .. (n + 1) : Over(k, i)
    <3> SUFFICES ASSUME NEW k \in (i + 1) .. (n + 1)
                 PROVE  Over(k, i)
      OBVIOUS
    <3>1. k = n + 1 \/ k \in (i + 1) .. n
      BY <1>1
    <3> QED
      BY <2>2, <2>3, <3>1
  <2> QED
    BY <2>4, WalkFacts
<1>5. ASSUME NEW i \in 1 .. n, Binds(i, n + 1), 2 * i \in Subtree(t, x)
      PROVE  FALSE
  <2>1. x # q
    BY <1>5, WalkFacts
  <2>2. PICK a \in 1 .. n : x = 2 * a /\ Rank(a) >= Rank(n + 1)
    BY <2>1 DEF OnWalk
  <2>3. q \in Subtree(t, 2 * a) /\ 2 * i \in Subtree(t, 2 * a)
    BY <1>3, <1>5, <2>2
  <2>4. Rank(a) = Rank(n + 1) /\ IsAssign(a)
    BY <1>5, <2>2, <2>3, BindsFromBelow
  <2> QED
    BY <2>2, <2>4 DEF Joins
<1>6. ASSUME NEW i \in 1 .. n, Binds(i, n + 1)
      PROVE  x \in Subtree(t, 2 * i) /\ x # 2 * i
  <2>1. x \in Subtree(t, 2 * i) \/ 2 * i \in Subtree(t, x)
    BY <1>6, WalkFacts
  <2>2. 2 * i \notin Subtree(t, x)
    BY <1>5, <1>6
  <2>3. x \in Subtree(t, x)
    BY <1>3, WalkFacts
  <2> QED
    BY <2>1, <2>2, <2>3
<1>7. ASSUME NEW i \in 1 .. n, 2 * i \in Subtree(t, x)
      PROVE  Binds(n + 1, i)
  <2>1. x # q
    BY <1>7, WalkFacts
  <2>2. PICK a \in 1 .. n : x = 2 * a /\ Rank(a) >= Rank(n + 1)
    BY <2>1 DEF OnWalk
  <2>3. q \in Subtree(t, 2 * a) /\ 2 * i \in Subtree(t, 2 * a)
    BY <1>3, <1>7, <2>2
  <2>4. \A k \in i .. n : Rank(k) >= Rank(a)
    BY <2>3, UnderTheStop
  <2>5. ~(Rank(a) = Rank(n + 1) /\ IsAssign(a))
    BY <2>2 DEF Joins
  <2>6. ASSUME NEW k \in i .. n
        PROVE  Past(k, n + 1)
    <3>1. k \in 1 .. (n + 1) /\ a \in 1 .. (n + 1) /\ n + 1 \in 1 .. (n + 1)
      BY <1>1
    <3>2. Rank(k) \in Nat /\ Rank(a) \in Nat /\ Rank(n + 1) \in Nat
      BY <1>1, <3>1
    <3>3. Rank(k) >= Rank(a)
      BY <2>4
    <3>4. Rank(a) = Rank(n + 1) => ~IsAssign(n + 1)
      BY <1>2, <2>5, <3>1
    <3> QED
      BY <2>2, <3>2, <3>3, <3>4 DEF Past
  <2> QED
    BY <2>6, WalkFacts
<1>8. ASSUME NEW i \in 1 .. n, Binds(n + 1, i)
      PROVE  2 * i \in Subtree(t, x)
  <2> SUFFICES ASSUME 2 * i \notin Subtree(t, x)
               PROVE  FALSE
    OBVIOUS
  <2>1. Linked(t, L) /\ t.top # NoNode /\ Ordered(t, L)
    BY DEF Placing
  <2>2. 2 * i \in L /\ (\A c \in 1 .. n : 2 * c \in L)
    BY WalkFacts
  <2>3. x # t.top
    <3>1. Subtree(t, t.top) = L
      <4> HIDE DEF L
      <4> QED
        BY <2>1, SubtreeOfTop
    <3> QED
      BY <2>2, <3>1
  <2>4. PICK c \in 1 .. n : t.node[2 * c]["right"] = x /\ Rank(c) < Rank(n + 1) /\ q \in Subtree(t, 2 * c)
    BY <2>3 DEF OnWalk
  <2>5. c < i
    <3> SUFFICES ASSUME i <= c
                 PROVE  FALSE
      BY <1>1
    <3>1. Past(c, n + 1)
      BY <1>1, <1>8, WalkFacts
    <3>2. Rank(c) \in Nat /\ Rank(n + 1) \in Nat
      BY <1>1
    <3> QED
      BY <2>4, <3>1, <3>2 DEF Past
  <2>6. Binds(c, i)
    <3>1. \A k \in (c + 1) .. n : Over(k, c)
      BY <2>4, EdgeIsWhatBinds
    <3>2. c \in Nat /\ i \in Nat /\ (\A k \in (c + 1) .. i : k \in (c + 1) .. n)
      BY <1>1
    <3> QED
      BY <2>5, <3>1, <3>2, BindsAfter
  <2>7. 2 * i \in Subtree(t, 2 * c) /\ 2 * i # 2 * c
    BY <1>1, <2>5, <2>6 DEF Placing, Ranked
  <2> DEFINE m == 2 * c
  <2>8. Subtree(t, m) = {m} \cup Subtree(t, t.node[m]["left"]) \cup Subtree(t, t.node[m]["right"])
    <3>1. m \in L
      BY <2>2
    <3> HIDE DEF L, m
    <3> QED
      BY <2>1, <3>1, SubtreeSplits
  <2>9. 2 * i \in Subtree(t, t.node[m]["left"])
    BY <2>4, <2>7, <2>8
  <2>10. 2 * i < m
    BY <2>1, <2>2, <2>9 DEF Ordered
  <2> QED
    BY <1>1, <2>5, <2>10
<1> QED
  BY <1>4, <1>6, <1>7, <1>8

(* At the right of an assignment that the next one joins.                  *)
LEMMA BesideTheStop ==
    ASSUME NEW t, NEW n, Placing(t, n), Few, NEW x, OnWalk(t, n, x), Joins(t, n, x)
    PROVE  LET y == t.node[x]["right"]
           IN /\ y \in 1 .. (2 * n + 1) /\ 2 * n + 1 \in Subtree(t, y)
              /\ \A i \in 1 .. n : (y \in Subtree(t, 2 * i) /\ y # 2 * i) <=> Binds(i, n + 1)
              /\ \A i \in 1 .. n : 2 * i \in Subtree(t, y) <=> Binds(n + 1, i)
<1> DEFINE L == 1 .. (2 * n + 1)
           q == 2 * n + 1
           y == t.node[x]["right"]
<1>1. n \in Nat /\ n >= 1 /\ (\A k \in 1 .. (n + 1) : Rank(k) \in Nat)
  BY RanksHere
<1>2. \A k, m \in 1 .. (n + 1) : Rank(k) = Rank(m) => (IsAssign(k) <=> IsAssign(m))
  BY RanksHere
<1>3. PICK a \in 1 .. n : x = 2 * a /\ Rank(a) = Rank(n + 1) /\ IsAssign(a)
  BY DEF Joins
<1>4. x \in L /\ q \in Subtree(t, x) /\ x # q /\ EndsEdge(t, L, q)
  BY <1>1, <1>3 DEF OnWalk
<1>5. Linked(t, L) /\ t.top # NoNode /\ Ordered(t, L)
  BY DEF Placing
<1>6. IsAssign(n + 1) /\ a \in 1 .. (n + 1) /\ n + 1 \in 1 .. (n + 1)
  BY <1>1, <1>2, <1>3
<1>7. q \in Subtree(t, y) /\ y \in L /\ y \in Subtree(t, x) /\ x \notin Subtree(t, y)
  <2>1. q \in Subtree(t, y)
    BY <1>4 DEF EndsEdge
  <2>2. y # NoNode
    BY <2>1, SubtreeOfNone
  <2>3. "right" \in Sides
    BY DEF Sides
  <2> HIDE DEF L, q
  <2>4. y \in L /\ y \in Subtree(t, x)
    BY <1>4, <1>5, <2>2, <2>3, SubtreeSplits
  <2>5. t.node[y].root = x
    BY <1>4, <1>5, <2>2, <2>3 DEF Linked
  <2>6. x \notin Subtree(t, y)
    BY <1>5, <2>4, <2>5, SubtreeOfNode
  <2> QED
    BY <2>1, <2>4, <2>6
<1>8. Subtree(t, x) = {x} \cup Subtree(t, t.node[x]["left"]) \cup Subtree(t, y)
  <2> HIDE DEF L, q
  <2> QED
    BY <1>4, <1>5, SubtreeSplits
<1>9. (\A m \in Subtree(t, t.node[x]["left"]) : m < x) /\ (\A m \in Subtree(t, y) : m > x)
  BY <1>4, <1>5 DEF Ordered
<1>10. \A k \in (a + 1) .. n : Over(k, a)
  BY <1>3, <1>4, EdgeIsWhatBinds
<1> HIDE DEF y
<1>11. ASSUME NEW i \in 1 .. n, y \in Subtree(t, 2 * i), y # 2 * i
       PROVE  Binds(i, n + 1)
  <2>1. x \in Subtree(t, 2 * i)
    <3>1. t.node[y].root = x
      <4>1. y # NoNode
        BY <1>7 DEF NoNode
      <4> HIDE DEF L, q
      <4> QED
        BY <1>4, <1>5, <4>1 DEF Linked, Sides, y
    <3> DEFINE m == 2 * i
    <3>2. m \in L
      BY WalkFacts
    <3>3. \A d \in Subtree(t, m) : d # m => t.node[d].root \in Subtree(t, m)
      <4> HIDE DEF L, q, m
      <4> QED
        BY <1>5, <3>2, SubtreeOfNode
    <3> QED
      BY <1>11, <3>1, <3>3
  <2>2. Over(n + 1, i) /\ q \in Subtree(t, 2 * i)
    <3>1. CASE x = 2 * i
      <4>1. i = a
        BY <1>1, <1>3, <3>1
      <4> QED
        BY <1>3, <1>4, <4>1 DEF Over
    <3>2. CASE x # 2 * i
      <4>1. Rank(i) < Rank(n + 1) /\ q \in Subtree(t, 2 * i)
        BY <2>1, <3>2 DEF OnWalk
      <4> QED
        BY <1>1, <4>1 DEF Over
    <3> QED
      BY <3>1, <3>2
  <2>3. \A k \in (i + 1) .. n : Over(k, i)
    BY <2>2, EdgeIsWhatBinds
  <2>4. \A k \in (i + 1) .. (n + 1) : Over(k, i)
    <3> SUFFICES ASSUME NEW k \in (i + 1) .. (n + 1)
                 PROVE  Over(k, i)
      OBVIOUS
    <3>1. k = n + 1 \/ k \in (i + 1) .. n
      BY <1>1
    <3> QED
      BY <2>2, <2>3, <3>1
  <2> QED
    BY <2>4, WalkFacts
<1>12. ASSUME NEW i \in 1 .. n, Binds(i, n + 1)
       PROVE  y \in Subtree(t, 2 * i) /\ y # 2 * i
  <2>1. x \in Subtree(t, 2 * i)
    <3>1. x \in Subtree(t, 2 * i) \/ 2 * i \in Subtree(t, x)
      BY <1>12, WalkFacts
    <3>2. ASSUME 2 * i \in Subtree(t, 2 * a), i # a
          PROVE  FALSE
      <4>1. IsAssign(i) /\ ~(i < a)
        <5>1. q \in Subtree(t, 2 * a) /\ Rank(a) >= Rank(n + 1)
          BY <1>1, <1>3, <1>4
        <5> QED
          BY <1>12, <3>2, <5>1, BindsFromBelow
      <4>2. a < i /\ i < n + 1
        BY <1>1, <3>2, <4>1
      <4>3. \A k \in 1 .. (n + 1) : k \in 1 .. Len(signals)
        BY RanksHere
      <4>4. a \in 1 .. Len(signals) /\ i \in 1 .. Len(signals) /\ n + 1 \in 1 .. Len(signals)
        BY <1>1, <4>3
      <4>5. Row
        BY DEF Placing
      <4> QED
        BY <1>3, <1>6, <4>1, <4>2, <4>4, <4>5, ThreeAreNotFew
    <3>3. x \in Subtree(t, x)
      BY <1>4, WalkFacts
    <3> QED
      BY <1>3, <3>1, <3>2, <3>3
  <2> DEFINE m == 2 * i
  <2>2. m \in L
    BY WalkFacts
  <2>3. y \in Subtree(t, m)
    <3> HIDE DEF L, q, m
    <3>1. Subtree(t, x) \subseteq Subtree(t, m)
      BY <1>5, <2>1, <2>2, SubtreeIsTransitive DEF m
    <3> QED
      BY <1>7, <3>1
  <2> QED
    BY <1>7, <2>1, <2>3
<1>13. ASSUME NEW i \in 1 .. n, 2 * i \in Subtree(t, y)
       PROVE  Binds(n + 1, i)
  <2>1. i > a
    BY <1>1, <1>3, <1>9, <1>13
  <2>2. ASSUME NEW k \in i .. n
        PROVE  Past(k, n + 1)
    <3>1. k \in 1 .. n /\ k > a /\ k < n + 1 /\ k \in (a + 1) .. n /\ k \in 1 .. (n + 1)
      BY <1>1, <2>1
    <3>2. Over(k, a)
      BY <1>10, <3>1
    <3>3. Rank(k) # Rank(a)
      <4> SUFFICES ASSUME Rank(k) = Rank(a)
                   PROVE  FALSE
        OBVIOUS
      <4>1. IsAssign(k)
        BY <1>2, <1>3, <1>6, <3>1
      <4>2. \A m \in 1 .. (n + 1) : m \in 1 .. Len(signals)
        BY RanksHere
      <4>3. a \in 1 .. Len(signals) /\ k \in 1 .. Len(signals) /\ n + 1 \in 1 .. Len(signals)
        BY <1>6, <3>1, <4>2
      <4>4. Row
        BY DEF Placing
      <4> QED
        BY <1>3, <1>6, <3>1, <4>1, <4>3, <4>4, ThreeAreNotFew
    <3>4. Rank(k) > Rank(n + 1)
      BY <1>3, <3>2, <3>3 DEF Over
    <3> QED
      BY <3>4 DEF Past
  <2> QED
    BY <2>2, WalkFacts
<1>14. ASSUME NEW i \in 1 .. n, Binds(n + 1, i)
       PROVE  2 * i \in Subtree(t, y)
  <2>1. \A k \in i .. n : Past(k, n + 1)
    BY <1>14, WalkFacts
  <2>2. a < i
    <3> SUFFICES ASSUME i <= a
                 PROVE  FALSE
      BY <1>1
    <3>1. Past(a, n + 1)
      BY <1>1, <2>1
    <3>2. Rank(a) \in Nat
      BY <1>1
    <3> QED
      BY <1>3, <1>6, <3>1, <3>2 DEF Past
  <2>3. Binds(a, i)
    <3>1. a \in Nat /\ i \in Nat /\ (\A k \in (a + 1) .. i : k \in (a + 1) .. n)
      BY <1>1
    <3> QED
      BY <1>10, <2>2, <3>1, BindsAfter
  <2>4. 2 * i \in Subtree(t, x) /\ 2 * i > x
    BY <1>1, <1>3, <2>2, <2>3 DEF Placing, Ranked
  <2>5. 2 * i \notin Subtree(t, t.node[x]["left"])
    <3> SUFFICES ASSUME 2 * i \in Subtree(t, t.node[x]["left"])
                 PROVE  FALSE
      OBVIOUS
    <3>1. 2 * i < x
      BY <1>9
    <3>2. x \in Nat /\ i \in Nat
      BY <1>1, <1>3
    <3> QED
      BY <2>4, <3>1, <3>2
  <2>6. 2 * i # x
    BY <1>1, <1>3, <2>2
  <2> QED
    BY <1>8, <2>4, <2>5, <2>6
<1> QED
  BY <1>7, <1>11, <1>12, <1>13, <1>14 DEF y

(* The tree of the first n operators, with the operands before them.       *)
Read(t, L, n) ==
    Linked(t, L) /\ t.top # NoNode /\ Ordered(t, L) /\ Ranked(t, n) /\ ObjectsAreLeaves(t, L)

LEMMA NextOperator ==
    ASSUME NEW t, NEW n, Placing(t, n), Few, 2 * n + 2 \in Nodes
    PROVE  LET s == signals[n + 1]
           IN Read(Placed(t, Stop(t, s), 2 * n + 2, s), 1 .. (2 * n + 2), n + 1)
<1> DEFINE L == 1 .. (2 * n + 1)
           q == 2 * n + 1
           new == 2 * n + 2
           s == signals[n + 1]
           x == Stop(t, s)
           y == t.node[x]["right"]
           r == Placed(t, x, new, s)
           join == y # NoNode /\ Level[SignalAt(x)] = Level[s] /\ SignalAt(x) \in Assigns
<1>1. n \in Nat /\ n >= 1 /\ (\A i \in 1 .. n : i \in Nat)
  BY RanksHere
<1>2. OnWalk(t, n, x)
  BY WalkStops
<1>3. Linked(t, L) /\ t.top # NoNode
  BY DEF Placing
<1>4. x \in L /\ EndsEdge(t, L, q)
  BY <1>2 DEF OnWalk
<1>5. new \in Nodes \ L /\ "left" \in Sides /\ "right" \in Sides /\ L \cup {new} = 1 .. (2 * n + 2)
  BY <1>1 DEF Sides
<1>6. r = IF join THEN InsertChild(t, x, "right", new, "left") ELSE InsertRoot(t, x, new, "left")
  BY DEF Placed
<1> HIDE DEF x
<1>7. join => Joins(t, n, x)
  <2> SUFFICES ASSUME join
               PROVE  Joins(t, n, x)
    OBVIOUS
  <2>1. x # q
    BY <1>4 DEF EndsEdge
  <2>2. PICK a \in 1 .. n : x = 2 * a
    BY <1>2, <2>1 DEF OnWalk
  <2>3. SignalAt(x) = signals[a]
    BY <1>1, <2>2, SignalAtSignal
  <2> QED
    BY <2>2, <2>3 DEF Joins, Rank, IsAssign
<1>8. Joins(t, n, x) => join
  <2> SUFFICES ASSUME Joins(t, n, x)
               PROVE  join
    OBVIOUS
  <2>1. PICK a \in 1 .. n : x = 2 * a /\ Rank(a) = Rank(n + 1) /\ IsAssign(a)
    BY DEF Joins
  <2>2. SignalAt(x) = signals[a]
    BY <1>1, <2>1, SignalAtSignal
  <2>3. x # q
    BY <1>1, <2>1
  <2>4. y # NoNode
    BY <1>2, <2>3 DEF OnWalk
  <2> QED
    BY <2>1, <2>2, <2>4 DEF Rank, IsAssign
<1>9. \E z \in L : /\ q \in Subtree(t, z)
                   /\ \A i \in 1 .. n : (z \in Subtree(t, 2 * i) /\ z # 2 * i) <=> Binds(i, n + 1)
                   /\ \A i \in 1 .. n : 2 * i \in Subtree(t, z) <=> Binds(n + 1, i)
                   /\ IsRootInserted(r, t, z, new, "left") /\ Linked(r, L \cup {new})
  <2>1. CASE join
    <3>1. Joins(t, n, x)
      BY <1>7, <2>1
    <3>2. y \in L /\ q \in Subtree(t, y)
      BY <1>2, <3>1, BesideTheStop
    <3>3. \A i \in 1 .. n : (y \in Subtree(t, 2 * i) /\ y # 2 * i) <=> Binds(i, n + 1)
      BY <1>2, <3>1, BesideTheStop
    <3>4. \A i \in 1 .. n : 2 * i \in Subtree(t, y) <=> Binds(n + 1, i)
      BY <1>2, <3>1, BesideTheStop
    <3>5. r = InsertChild(t, x, "right", new, "left")
      BY <1>6, <2>1
    <3>6. y # NoNode
      BY <2>1
    <3>7. IsRootInserted(r, t, y, new, "left") /\ Linked(r, L \cup {new})
      <4> HIDE DEF L, new, r
      <4>1. IsRootInserted(InsertChild(t, x, "right", new, "left"), t, y, new, "left")
        BY <1>3, <1>4, <1>5, <3>6, InsertChildWrites
      <4>2. Linked(InsertChild(t, x, "right", new, "left"), L \cup {new})
        BY <1>3, <1>4, <1>5, InsertChildLinked
      <4> QED
        BY <3>5, <4>1, <4>2
    <3> QED
      BY <3>2, <3>3, <3>4, <3>7
  <2>2. CASE ~join
    <3>1. ~Joins(t, n, x)
      BY <1>8, <2>2
    <3>2. \A i \in 1 .. n : (x \in Subtree(t, 2 * i) /\ x # 2 * i) <=> Binds(i, n + 1)
      BY <1>2, <3>1, AboveTheStop
    <3>3. \A i \in 1 .. n : 2 * i \in Subtree(t, x) <=> Binds(n + 1, i)
      BY <1>2, <3>1, AboveTheStop
    <3>4. r = InsertRoot(t, x, new, "left")
      BY <1>6, <2>2
    <3>5. IsRootInserted(r, t, x, new, "left") /\ Linked(r, L \cup {new})
      <4> HIDE DEF L, new, r
      <4>1. IsRootInserted(InsertRoot(t, x, new, "left"), t, x, new, "left")
        BY <1>3, <1>4, <1>5, InsertRootWrites
      <4>2. Linked(InsertRoot(t, x, new, "left"), L \cup {new})
        BY <1>3, <1>4, <1>5, InsertRootLinked
      <4> QED
        BY <3>4, <4>1, <4>2
    <3>6. q \in Subtree(t, x)
      BY <1>2 DEF OnWalk
    <3> QED
      BY <1>4, <3>2, <3>3, <3>5, <3>6
  <2> QED
    BY <2>1, <2>2
<1> HIDE DEF r
<1>10. PICK z \in L : /\ q \in Subtree(t, z)
                      /\ \A i \in 1 .. n : (z \in Subtree(t, 2 * i) /\ z # 2 * i) <=> Binds(i, n + 1)
                      /\ \A i \in 1 .. n : 2 * i \in Subtree(t, z) <=> Binds(n + 1, i)
                      /\ IsRootInserted(r, t, z, new, "left") /\ Linked(r, L \cup {new})
  BY <1>9
<1>11. Ordered(r, 1 .. (2 * n + 2)) /\ Ranked(r, n + 1) /\ ObjectsAreLeaves(r, 1 .. (2 * n + 2))
  BY <1>10, RankedWithNext
<1>12. Linked(r, 1 .. (2 * n + 2)) /\ r.top # NoNode
  <2>1. Linked(r, L \cup {new}) /\ new \in L \cup {new}
    BY <1>10
  <2>2. r.top # NoNode
    <3> HIDE DEF L, new
    <3> QED
      BY <2>1, LinkedNodes
  <2> QED
    BY <1>5, <2>1, <2>2
<1> QED
  BY <1>11, <1>12 DEF Read, r, x

LEMMA NextOperand ==
    ASSUME Row, NEW n \in 1 .. Len(signals), NEW t, Read(t, 1 .. (2 * n), n), 2 * n + 1 \in Nodes
    PROVE  LET r == InsertChild(t, 2 * n, "right", 2 * n + 1, "right")
           IN /\ Read(r, 1 .. (2 * n + 1), n)
              /\ n < Len(signals) => Placing(r, n)
<1> DEFINE L == 1 .. (2 * n)
           it == 2 * n
           q == 2 * n + 1
           r == InsertChild(t, it, "right", q, "right")
<1>1. n \in Nat /\ n >= 1 /\ Len(signals) \in Nat
  BY RanksOf
<1>2. Linked(t, L) /\ t.top # NoNode /\ Ordered(t, L) /\ Ranked(t, n) /\ ObjectsAreLeaves(t, L)
  BY DEF Read
<1>3. /\ L \subseteq Nat /\ it \in L /\ (\A m \in L : m <= it) /\ q \in Nodes \ L
      /\ (\A m \in L : m < q) /\ L \cup {q} = 1 .. (2 * n + 1) /\ "right" \in Sides
  BY <1>1 DEF Sides
<1>4. t.node[it]["right"] = NoNode
  <2> HIDE DEF L, it
  <2>1. EndsEdge(t, L, it)
    BY <1>2, <1>3, LargestEndsEdge
  <2> QED
    BY <2>1 DEF EndsEdge
<1>5. IsLeafAdded(r, t, it, "right", q) /\ Linked(r, L \cup {q})
  <2> HIDE DEF L, it, q
  <2>1. IsLeafAdded(InsertChild(t, it, "right", q, "right"), t, it, "right", q)
    BY <1>2, <1>3, <1>4, InsertChildWrites
  <2>2. Linked(InsertChild(t, it, "right", q, "right"), L \cup {q})
    BY <1>2, <1>3, InsertChildLinked
  <2> QED
    BY <2>1, <2>2 DEF it, q
<1> HIDE DEF r
<1>6. Ordered(r, L \cup {q})
  <2> HIDE DEF L, it, q
  <2> QED
    BY <1>2, <1>3, <1>4, <1>5, OrderedWithLeaf
<1>7. \A m \in L : Subtree(r, m) = IF it \in Subtree(t, m) THEN Subtree(t, m) \cup {q} ELSE Subtree(t, m)
  <2> HIDE DEF L, it, q
  <2> QED
    BY <1>2, <1>3, <1>4, <1>5, SubtreesWithLeaf
<1>8. Ranked(r, n)
  <2> SUFFICES ASSUME NEW i \in 1 .. n, NEW j \in 1 .. n, i # j
               PROVE  2 * j \in Subtree(r, 2 * i) <=> Binds(i, j)
    BY DEF Ranked
  <2>1. 2 * i \in L /\ 2 * j # q
    BY <1>1
  <2>2. 2 * j \in Subtree(r, 2 * i) <=> 2 * j \in Subtree(t, 2 * i)
    BY <1>7, <2>1
  <2> QED
    BY <1>2, <2>2 DEF Ranked
<1>9. ObjectsAreLeaves(r, 1 .. (2 * n + 1))
  <2> SUFFICES ASSUME NEW k \in Nat, 2 * k + 1 \in 1 .. (2 * n + 1), NEW side \in Sides
               PROVE  r.node[2 * k + 1][side] = NoNode
    BY DEF ObjectsAreLeaves, Sides
  <2> DEFINE m == 2 * k + 1
  <2>1. CASE m = q
    BY <1>5, <2>1 DEF IsLeafAdded
  <2>2. CASE m # q
    <3>1. m \in L /\ m # it
      BY <1>1, <2>2
    <3>2. t.node[m][side] = NoNode
      BY <1>2, <3>1 DEF ObjectsAreLeaves, Sides
    <3>3. m \in Nodes \ {q}
      BY <1>2, <2>2, <3>1 DEF Linked
    <3> QED
      BY <1>5, <3>1, <3>2, <3>3 DEF IsLeafAdded
  <2> QED
    BY <2>1, <2>2
<1>10. r.top = t.top /\ r.node[q].root = it
  BY <1>5 DEF IsLeafAdded
<1>11. Read(r, 1 .. (2 * n + 1), n)
  BY <1>2, <1>3, <1>5, <1>6, <1>8, <1>9, <1>10 DEF Read
<1>12. n < Len(signals) => Placing(r, n)
  <2> SUFFICES ASSUME n < Len(signals)
               PROVE  Placing(r, n)
    OBVIOUS
  <2>1. n \in 1 .. (Len(signals) - 1)
    BY <1>1
  <2> QED
    BY <1>10, <1>11, <2>1 DEF Placing, Read
<1> QED
  BY <1>11, <1>12 DEF r

(* The first operator and its left operand.                                *)
LEMMA FirstOperator ==
    ASSUME Row, Len(signals) \in 1 .. MaxSignals, NEW t, Linked(t, {}), t.top = NoNode
    PROVE  Read(InsertChild(InsertRoot(t, NoNode, 2, "left"), 2, "left", 1, "left"), 1 .. 2, 1)
<1> DEFINE one == InsertRoot(t, NoNode, 2, "left")
           r == InsertChild(one, 2, "left", 1, "left")
<1>1. 1 \in Nodes /\ 2 \in Nodes /\ "left" \in Sides /\ "right" \in Sides
  <2>1. 1 \in 1 .. (2 * MaxSignals + 1) /\ 2 \in 1 .. (2 * MaxSignals + 1)
    BY ExprTreeAssumption
  <2> QED
    BY <2>1, NodesAreFinite DEF Sides
<1>2. 2 \in Nodes \ {} /\ {} \cup {2} = {2} /\ 1 \in Nodes \ {2} /\ 2 \in {2} /\ {2} \cup {1} = 1 .. 2
  BY <1>1
<1>3. IsRootInserted(one, t, NoNode, 2, "left")
  BY <1>1, <1>2, InsertRootWrites
<1>4. Linked(one, {2})
  <2>1. Linked(one, {} \cup {2})
    BY <1>1, <1>2, InsertRootLinked
  <2> QED
    BY <1>2, <2>1
<1> HIDE DEF one
<1>5. one.top = 2 /\ one.node[2]["left"] = NoNode /\ one.node[2]["right"] = NoNode
  <2>1. one.top = 2 /\ one.node[2]["left"] = NoNode /\ one.node[2][Other("left")] = NoNode
    BY <1>3 DEF IsRootInserted
  <2>2. Other("left") = "right"
    BY DEF Other
  <2> QED
    BY <2>1, <2>2
<1>6. IsLeafAdded(r, one, 2, "left", 1)
  BY <1>1, <1>2, <1>4, <1>5, InsertChildWrites
<1>7. Linked(r, 1 .. 2)
  <2>1. Linked(r, {2} \cup {1})
    BY <1>1, <1>2, <1>4, InsertChildLinked
  <2> QED
    BY <1>2, <2>1
<1> HIDE DEF r
<1>8. r.top = 2 /\ r.node[1]["left"] = NoNode /\ r.node[1]["right"] = NoNode
      /\ r.node[2]["left"] = 1 /\ r.node[2]["right"] = NoNode
  BY <1>1, <1>2, <1>5, <1>6 DEF IsLeafAdded
<1>9. Subtree(r, 1) = {1}
  BY <1>1, <1>2, <1>4, <1>5, <1>6, SubtreesWithLeaf
<1>10. Ordered(r, 1 .. 2)
  <2>1. Subtree(r, NoNode) = {}
    BY SubtreeOfNone
  <2>2. \A n \in 1 .. 2 : n = 1 \/ n = 2
    OBVIOUS
  <2> QED
    BY <1>8, <1>9, <2>1, <2>2 DEF Ordered
<1>11. Ranked(r, 1)
  BY DEF Ranked
<1>12. ObjectsAreLeaves(r, 1 .. 2)
  <2>1. \A k \in Nat : 2 * k + 1 \in 1 .. 2 => 2 * k + 1 = 1
    OBVIOUS
  <2> QED
    BY <1>8, <2>1 DEF ObjectsAreLeaves
<1>13. r.top # NoNode
  BY <1>8 DEF NoNode
<1> QED
  BY <1>7, <1>10, <1>11, <1>12, <1>13 DEF Read, r, one
-----------------------------------------------------------------------------
(* Rewriting.  Until a token goes, the tree has the links of the tree that *)
(* was read, and more only where that one has none.                        *)
Tokens == 1 .. (2 * Len(signals) + 1)
Follows(t, L, b) ==
    /\ t.top = b.top /\ b.top \in Tokens
    /\ \A n \in Tokens, side \in Sides :
           \/ t.node[n][side] = b.node[n][side]
           \/ b.node[n][side] = NoNode /\ t.node[n][side] \notin Tokens
    /\ \A n \in L \ Tokens, side \in Sides : t.node[n][side] \notin Tokens

LEMMA TokensAre ==
    ASSUME Row, Len(signals) \in 1 .. MaxSignals
    PROVE  /\ Tokens \subseteq Nodes /\ Tokens \subseteq Nat /\ NoNode \notin Tokens
           /\ \A n \in Spare : n \notin Tokens
<1>1. Tokens \subseteq 1 .. (2 * MaxSignals + 1) /\ Tokens \subseteq 0 .. (2 * MaxSignals + 1)
  BY ExprTreeAssumption DEF Tokens
<1>2. \A n \in Spare : n \notin Tokens
  BY <1>1, ExprTreeAssumption
<1>3. Tokens \subseteq Nat /\ NoNode \notin Tokens
  BY <1>1 DEF Tokens, NoNode
<1> QED
  BY <1>1, <1>2, <1>3, NodesAreFinite

(* What is erased under a node was not there when the tree was read, if no *)
(* token goes with it.                                                     *)
LEMMA NothingReadIsErased ==
    ASSUME Row, Len(signals) \in 1 .. MaxSignals,
           NEW t, NEW L, Linked(t, L), NEW it \in L, NEW b, Linked(b, Tokens), Follows(t, L, b),
           Tokens \subseteq Pruned(t, L, it), NEW side \in Sides
    PROVE  /\ t.node[it][side] \notin Tokens
           /\ it \in Tokens => b.node[it][side] = NoNode
<1> DEFINE c == t.node[it][side]
<1>1. c \notin Tokens
  <2>1. CASE c = NoNode
    BY <2>1, TokensAre
  <2>2. CASE c # NoNode
    <3>1. c \in Subtree(t, it)
      BY <2>2, SubtreeSplits
    <3>2. t.node[c].root = it
      BY <2>2 DEF Linked
    <3>3. c # it
      BY <3>2, LinkedNodes
    <3>4. c \notin Pruned(t, L, it)
      BY <3>1, <3>3 DEF Pruned
    <3> QED
      BY <3>4
  <2> QED
    BY <2>1, <2>2
<1>2. ASSUME it \in Tokens, b.node[it][side] # NoNode
      PROVE  FALSE
  <2>1. c = b.node[it][side]
    BY <1>2 DEF Follows
  <2>2. b.node[it][side] \in Tokens \cup {NoNode}
    BY <1>2, LinkedNodes
  <2> QED
    BY <1>1, <1>2, <2>1, <2>2
<1> QED
  BY <1>1, <1>2

LEMMA FoldFollows ==
    ASSUME Row, Len(signals) \in 1 .. MaxSignals,
           NEW t, NEW L, Linked(t, L), NEW it \in L, NEW b, Linked(b, Tokens), Follows(t, L, b),
           Tokens \subseteq Pruned(t, L, it)
    PROVE  Follows(EraseChildren(t, it), Pruned(t, L, it), b)
<1> DEFINE r == EraseChildren(t, it)
           M == Pruned(t, L, it)
<1>1. LinksErased(r, t, M, it)
  BY EraseChildrenLinked
<1>2. \A side \in Sides : it \in Tokens => b.node[it][side] = NoNode
  BY NothingReadIsErased
<1>3. NoNode \notin Tokens /\ Tokens \subseteq M /\ M \subseteq L
  BY TokensAre DEF Pruned
<1> HIDE DEF r, M
<1>4. r.top = b.top /\ b.top \in Tokens
  BY <1>1 DEF LinksErased, Follows
<1>5. ASSUME NEW n \in Tokens, NEW side \in Sides
      PROVE  \/ r.node[n][side] = b.node[n][side]
             \/ b.node[n][side] = NoNode /\ r.node[n][side] \notin Tokens
  <2>1. r.node[n][side] = IF n = it THEN NoNode ELSE t.node[n][side]
    BY <1>1, <1>3 DEF LinksErased
  <2> QED
    BY <1>2, <2>1 DEF Follows
<1>6. ASSUME NEW n \in M \ Tokens, NEW side \in Sides
      PROVE  r.node[n][side] \notin Tokens
  <2>1. r.node[n][side] = IF n = it THEN NoNode ELSE t.node[n][side]
    BY <1>1 DEF LinksErased
  <2> QED
    BY <1>3, <2>1 DEF Follows
<1>7. Follows(r, M, b)
  BY <1>4, <1>5, <1>6 DEF Follows
<1> QED
  BY <1>7 DEF r, M

LEMMA ExpandFollows ==
    ASSUME Row, Len(signals) \in 1 .. MaxSignals,
           NEW t, NEW L, Linked(t, L), NEW it \in L, NEW b, Linked(b, Tokens), Follows(t, L, b),
           NEW l \in Spare, NEW r \in Spare, l \notin L, r \notin L, l # r,
           Tokens \subseteq Pruned(t, L, it)
    PROVE  Follows(Merge(t, it, l, r), (Pruned(t, L, it) \cup {l}) \cup {r}, b)
<1> DEFINE m == Merge(t, it, l, r)
           M == Pruned(t, L, it)
           K == (M \cup {l}) \cup {r}
<1>1. LinksMerged(m, t, M, it, l, r)
  <2>1. l \in Nodes \ L /\ r \in Nodes \ L
    BY NodesAreFinite
  <2> QED
    BY <2>1, MergeLinked
<1>2. \A side \in Sides : it \in Tokens => b.node[it][side] = NoNode
  BY NothingReadIsErased
<1>3. NoNode \notin Tokens /\ Tokens \subseteq M /\ M \subseteq L /\ l \notin Tokens /\ r \notin Tokens
  BY TokensAre DEF Pruned
<1> HIDE DEF m, M
<1>4. m.top = b.top /\ b.top \in Tokens
  BY <1>1 DEF LinksMerged, Follows
<1>5. ASSUME NEW n \in Tokens, NEW side \in Sides
      PROVE  \/ m.node[n][side] = b.node[n][side]
             \/ b.node[n][side] = NoNode /\ m.node[n][side] \notin Tokens
  <2>1. IF n = it THEN m.node[n][side] \in {l, r} ELSE m.node[n][side] = t.node[n][side]
    BY <1>1, <1>3 DEF LinksMerged
  <2> QED
    BY <1>2, <1>3, <2>1 DEF Follows
<1>6. ASSUME NEW n \in K \ Tokens, NEW side \in Sides
      PROVE  m.node[n][side] \notin Tokens
  <2>1. CASE n \in {l, r}
    BY <1>1, <1>3, <2>1 DEF LinksMerged
  <2>2. CASE n \notin {l, r}
    <3>1. n \in M
      BY <2>2
    <3>2. IF n = it THEN m.node[n][side] \in {l, r} ELSE m.node[n][side] = t.node[n][side]
      BY <1>1, <3>1 DEF LinksMerged
    <3> QED
      BY <1>3, <3>1, <3>2 DEF Follows
  <2> QED
    BY <2>1, <2>2
<1>7. Follows(m, K, b)
  BY <1>4, <1>5, <1>6 DEF Follows
<1> QED
  BY <1>7 DEF m, M

LEMMA ReserveFollows ==
    ASSUME Row, Len(signals) \in 1 .. MaxSignals,
           NEW t, NEW L, Linked(t, L), NEW it \in L, NEW side \in Sides, t.node[it][side] # NoNode,
           NEW b, Linked(b, Tokens), Follows(t, L, b), Tokens \subseteq Reserved(t, L, it, side)
    PROVE  /\ Follows(Reserve(t, it, side), Reserved(t, L, it, side), b)
           /\ it \notin Tokens
<1> DEFINE D == Subtree(LiftedTree(t, it, side), it)
           r == Reserve(t, it, side)
           keep == t.node[it][side]
           M == L \ D
<1>1. IsReserved(r, t, it, side, D) /\ IsUnder(LiftedTree(t, it, side), it, D)
  BY ReserveWrites
<1>2. M = Reserved(t, L, it, side)
  BY DEF Reserved
<1> HIDE DEF D, r
<1>3. it \in D
  BY <1>1 DEF IsUnder
<1>4. L \subseteq Nodes
  BY DEF Linked
<1>5. it \notin Tokens /\ Tokens \subseteq M /\ M \subseteq Nodes \ D
  BY <1>2, <1>3, <1>4
<1>6. keep \notin Tokens
  BY <1>5 DEF Follows
<1> HIDE DEF keep
<1>7. r.top = b.top /\ b.top \in Tokens
  <2>1. t.top = b.top /\ b.top \in Tokens
    BY DEF Follows
  <2>2. it # t.top
    BY <1>5, <2>1
  <2> QED
    BY <1>1, <2>1, <2>2 DEF IsReserved
<1>8. \A n \in M, q \in Sides :
          r.node[n][q] = IF it # t.top /\ n = t.node[it].root /\ q = SideOf(t, it)
                         THEN keep ELSE t.node[n][q]
  BY <1>1, <1>5 DEF IsReserved, keep
<1>9. ASSUME it # t.top
      PROVE  t.node[t.node[it].root][SideOf(t, it)] = it
  BY <1>9, SideOfLeads
<1>10. ASSUME NEW n \in Tokens, NEW q \in Sides
       PROVE  \/ r.node[n][q] = b.node[n][q]
              \/ b.node[n][q] = NoNode /\ r.node[n][q] \notin Tokens
  <2>1. \/ t.node[n][q] = b.node[n][q]
        \/ b.node[n][q] = NoNode /\ t.node[n][q] \notin Tokens
    BY DEF Follows
  <2>2. CASE it # t.top /\ n = t.node[it].root /\ q = SideOf(t, it)
    <3>1. r.node[n][q] = keep /\ t.node[n][q] = it
      BY <1>5, <1>8, <1>9, <2>2
    <3>2. b.node[n][q] \in Tokens \cup {NoNode} /\ it # NoNode
      <4> HIDE DEF M
      <4>1. b.node[n][q] \in Tokens \cup {NoNode}
        BY LinkedNodes
      <4>2. it # NoNode
        BY LinkedNodes
      <4> QED
        BY <4>1, <4>2
    <3> QED
      BY <1>5, <1>6, <2>1, <3>1, <3>2
  <2>3. CASE ~(it # t.top /\ n = t.node[it].root /\ q = SideOf(t, it))
    <3>1. r.node[n][q] = t.node[n][q]
      BY <1>5, <1>8, <2>3
    <3> QED
      BY <2>1, <3>1
  <2> QED
    BY <2>2, <2>3
<1>11. ASSUME NEW n \in M \ Tokens, NEW q \in Sides
       PROVE  r.node[n][q] \notin Tokens
  <2>1. t.node[n][q] \notin Tokens
    BY DEF Follows
  <2> QED
    BY <1>6, <1>8, <2>1
<1>12. Follows(r, M, b)
  BY <1>7, <1>10, <1>11 DEF Follows
<1> QED
  BY <1>2, <1>5, <1>12 DEF r

(* With the tokens as its nodes, a tree has the links that were read.      *)
LEMMA SameLinksSameSubtrees ==
    ASSUME NEW t, NEW b, NEW L, Linked(t, L), Linked(b, L),
           \A n \in L, side \in Sides : t.node[n][side] = b.node[n][side],
           NEW n \in L
    PROVE  Subtree(t, n) = Subtree(b, n)
<1>1. IsUnder(t, n, Subtree(t, n)) /\ Subtree(t, n) \subseteq L
  BY SubtreeOfNode
<1>2. IsUnder(b, n, Subtree(b, n)) /\ Subtree(b, n) \subseteq L
  BY SubtreeOfNode
<1>3. Closed(t, Subtree(b, n)) /\ n \in Subtree(b, n) /\ Subtree(b, n) \in SUBSET Nodes
  BY <1>2 DEF IsUnder, Closed
<1>4. Closed(b, Subtree(t, n)) /\ n \in Subtree(t, n) /\ Subtree(t, n) \in SUBSET Nodes
  BY <1>1 DEF IsUnder, Closed
<1>5. Subtree(t, n) \subseteq Subtree(b, n)
  BY <1>1, <1>3 DEF IsUnder
<1>6. Subtree(b, n) \subseteq Subtree(t, n)
  BY <1>2, <1>4 DEF IsUnder
<1> QED
  BY <1>5, <1>6

LEMMA WholeTreeFollows ==
    ASSUME Row, Len(signals) \in 1 .. MaxSignals, Linked(tree, Live), Live = Tokens,
           NEW b, Read(b, Tokens, Len(signals)), Follows(tree, Live, b)
    PROVE  FollowsLevels
<1> DEFINE L == Tokens
<1>1. Linked(tree, L) /\ Linked(b, L) /\ Ordered(b, L) /\ Ranked(b, Len(signals))
  BY DEF Read
<1>2. NoNode \notin L /\ Len(signals) \in Nat /\ DOMAIN signals = 1 .. Len(signals)
  BY TokensAre, RanksOf
<1>3. \A n \in L, side \in Sides : tree.node[n][side] = b.node[n][side]
  <2> SUFFICES ASSUME NEW n \in L, NEW side \in Sides
               PROVE  tree.node[n][side] = b.node[n][side]
    OBVIOUS
  <2>1. tree.node[n][side] \in L \cup {NoNode}
    <3> HIDE DEF L
    <3> QED
      BY <1>1, LinkedNodes
  <2> QED
    BY <2>1 DEF Follows
<1>4. \A n \in L : Subtree(tree, n) = Subtree(b, n)
  <2> HIDE DEF L
  <2> QED
    BY <1>1, <1>3, SameLinksSameSubtrees
<1>5. \A n \in L, side \in Sides : Subtree(tree, tree.node[n][side]) = Subtree(b, b.node[n][side])
  <2> SUFFICES ASSUME NEW n \in L, NEW side \in Sides
               PROVE  Subtree(tree, tree.node[n][side]) = Subtree(b, b.node[n][side])
    OBVIOUS
  <2>1. b.node[n][side] \in L \cup {NoNode}
    <3> HIDE DEF L
    <3> QED
      BY <1>1, LinkedNodes
  <2>2. tree.node[n][side] = b.node[n][side]
    BY <1>3
  <2>3. CASE b.node[n][side] = NoNode
    BY <2>2, <2>3, SubtreeOfNone
  <2>4. CASE b.node[n][side] \in L
    BY <1>4, <2>2, <2>4
  <2> QED
    BY <2>1, <2>3, <2>4
<1>6. ASSUME NEW i \in DOMAIN signals, NEW j \in DOMAIN signals, i # j
      PROVE  Signal(j) \in Subtree(tree, Signal(i)) <=> Binds(i, j)
  <2>1. i \in 1 .. Len(signals) /\ j \in 1 .. Len(signals) /\ 2 * i \in L
        /\ Signal(i) = 2 * i /\ Signal(j) = 2 * j
    BY <1>2 DEF Signal, Tokens
  <2>2. 2 * j \in Subtree(b, 2 * i) <=> Binds(i, j)
    BY <1>1, <1>6, <2>1 DEF Ranked
  <2> QED
    BY <1>4, <2>1, <2>2
<1>7. ASSUME NEW n \in Live
      PROVE  /\ \A m \in Subtree(tree, tree.node[n].left) : m < n
             /\ \A m \in Subtree(tree, tree.node[n].right) : m > n
  <2>1. /\ Subtree(tree, tree.node[n]["left"]) = Subtree(b, b.node[n]["left"])
        /\ Subtree(tree, tree.node[n]["right"]) = Subtree(b, b.node[n]["right"])
    BY <1>5 DEF Sides
  <2>2. /\ \A m \in Subtree(b, b.node[n]["left"]) : m < n
        /\ \A m \in Subtree(b, b.node[n]["right"]) : m > n
    BY <1>1 DEF Ordered
  <2> QED
    BY <2>1, <2>2
<1> QED
  BY <1>6, <1>7 DEF FollowsLevels

(* What every step keeps, of a row with no more than two assignments: the  *)
(* tree that is read follows the levels, and until a token goes there is   *)
(* such a tree that the rewritten one follows.                             *)
Whole(t, L) ==
    Tokens \subseteq L => \E b : Read(b, Tokens, Len(signals)) /\ Follows(t, L, b)
FollowsIInv ==
    /\ Row
    /\ Few => /\ next >= 1 => Read(tree, 1 .. (2 * next), next)
              /\ next = AllBuilt => Whole(tree, Live)

(* The row stays as it is.                                                 *)
LEMMA SameRow ==
    ASSUME signals' = signals
    PROVE  (Row' <=> Row) /\ (Few' <=> Few) /\ Tokens' = Tokens
  BY DEF Row, Few, Assignments, Tokens

LEMMA SameFollows ==
    ASSUME signals' = signals, Row, next' \in Int,
           Few => /\ next' >= 1 => Read(tree', 1 .. (2 * next'), next')
                  /\ next' = AllBuilt => Whole(tree', Live')
    PROVE  FollowsIInv'
<1>1. Row' /\ (Few' <=> Few) /\ Tokens' = Tokens
  BY SameRow
<1>2. Read(tree', 1 .. (2 * next'), next') => Read(tree, 1 .. (2 * next), next)'
  BY DEF Read, Ranked, Binds
<1>3. ASSUME NEW b, Read(b, Tokens, Len(signals))
      PROVE  Read(b, Tokens, Len(signals))'
  <2> DEFINE n == Len(signals)
             all == Tokens
  <2>1. /\ Linked(b, all) /\ b.top # NoNode /\ Ordered(b, all) /\ Ranked(b, n)
        /\ ObjectsAreLeaves(b, all)
    BY <1>3 DEF Read
  <2>2. Ranked(b, n)'
    BY <2>1 DEF Ranked, Binds
  <2>3. all' = all
    BY <1>1
  <2> HIDE DEF all
  <2>4. Linked(b, all') /\ Ordered(b, all') /\ ObjectsAreLeaves(b, all')
    BY <2>1, <2>3
  <2> QED
    BY <2>1, <2>2, <2>4 DEF Read, all
<1>4. ASSUME NEW b, Follows(tree', Live', b)
      PROVE  Follows(tree, Live, b)'
  BY <1>1, <1>4 DEF Follows
<1>5. Whole(tree', Live') => Whole(tree, Live)'
  <2> SUFFICES ASSUME Whole(tree', Live'), Tokens' \subseteq Live'
               PROVE  \E b : Read(b, Tokens, Len(signals))' /\ Follows(tree, Live, b)'
    BY DEF Whole
  <2>1. PICK b : Read(b, Tokens, Len(signals)) /\ Follows(tree', Live', b)
    BY <1>1 DEF Whole
  <2>2. Read(b, Tokens, Len(signals))'
    BY <1>3, <2>1
  <2>3. Follows(tree, Live, b)'
    BY <1>4, <2>1
  <2> QED
    BY <2>2, <2>3
<1>6. AllBuilt' = AllBuilt
  BY DEF AllBuilt
<1> QED
  BY <1>1, <1>2, <1>5, <1>6 DEF FollowsIInv

LEMMA BuildFirstFollows == ExprTreeIInv /\ FollowsIInv /\ BuildFirst => FollowsIInv'
<1> SUFFICES ASSUME ExprTreeIInv, FollowsIInv, BuildFirst
             PROVE  FollowsIInv'
  OBVIOUS
<1>1. tree.top = NoNode /\ Linked(tree, {})
  BY EmptyTreeIsLinked DEF ExprTreeIInv, Reading, BuildFirst
<1>2. tree' = InsertChild(InsertRoot(tree, NoNode, 2, "left"), 2, "left", 1, "left")
      /\ next' = 1 /\ signals' = signals
  <2>1. Signal(1) = 2 /\ Object(1) = 1
    BY DEF Signal, Object
  <2> QED
    BY <1>1, <2>1 DEF BuildFirst
<1>3. Row /\ Len(signals) \in 1 .. MaxSignals
  BY DEF FollowsIInv, ExprTreeIInv
<1>4. Read(tree', 1 .. 2, 1)
  BY <1>1, <1>2, <1>3, FirstOperator
<1>5. 2 * next' = 2 /\ next' # AllBuilt /\ next' \in Int
  BY <1>2 DEF AllBuilt
<1> QED
  BY <1>2, <1>3, <1>4, <1>5, SameFollows

LEMMA NextOperandHere ==
    ASSUME ExprTreeIInv, FollowsIInv, Few, next >= 1
    PROVE  LET t == InsertChild(tree, rightmost, "right", Object(next + 1), "right")
           IN /\ Read(t, 1 .. (2 * next + 1), next)
              /\ next < Len(signals) => Placing(t, next)
<1>1. Row /\ Len(signals) \in 1 .. MaxSignals /\ next \in 1 .. Len(signals) /\ rightmost = 2 * next
  BY DEF FollowsIInv, ExprTreeIInv, Reading, Signal
<1>2. Read(tree, 1 .. (2 * next), next)
  BY DEF FollowsIInv
<1>3. 2 * next + 1 \in Nodes
  <2>1. 2 * next + 1 \in 1 .. (2 * MaxSignals + 1)
    BY <1>1, ExprTreeAssumption
  <2> QED
    BY <2>1, NodesAreFinite
<1>4. Object(next + 1) = 2 * next + 1
  BY <1>1 DEF Object
<1> DEFINE n == next
           t == tree
<1>5. n \in 1 .. Len(signals) /\ Read(t, 1 .. (2 * n), n) /\ 2 * n + 1 \in Nodes
  BY <1>1, <1>2, <1>3
<1> HIDE DEF n, t
<1>6. LET r == InsertChild(t, 2 * n, "right", 2 * n + 1, "right")
      IN /\ Read(r, 1 .. (2 * n + 1), n)
         /\ n < Len(signals) => Placing(r, n)
  BY <1>1, <1>5, NextOperand
<1> QED
  BY <1>1, <1>4, <1>6 DEF n, t

LEMMA BuildNextFollows == ExprTreeIInv /\ FollowsIInv /\ BuildNext => FollowsIInv'
<1> SUFFICES ASSUME ExprTreeIInv, FollowsIInv, BuildNext
             PROVE  FollowsIInv'
  OBVIOUS
<1> DEFINE t == InsertChild(tree, rightmost, "right", Object(next + 1), "right")
           s == signals[next + 1]
<1>1. next \in 1 .. (Len(signals) - 1) /\ Len(signals) \in 1 .. MaxSignals /\ Row
  BY DEF BuildNext, ExprTreeIInv, FollowsIInv
<1>2. tree' = Placed(t, Stop(t, s), 2 * next + 2, s) /\ next' = next + 1 /\ signals' = signals
  <2>1. Signal(next + 1) = 2 * next + 2
    BY <1>1 DEF Signal
  <2> QED
    BY <2>1 DEF BuildNext
<1>3. ASSUME Few
      PROVE  Read(tree', 1 .. (2 * next'), next')
  <2>1. next >= 1 /\ next < Len(signals)
    BY <1>1
  <2>2. Placing(t, next)
    BY <1>3, <2>1, NextOperandHere
  <2>3. 2 * next + 2 \in Nodes
    <3>1. 2 * next + 2 \in 1 .. (2 * MaxSignals + 1)
      BY <1>1, ExprTreeAssumption
    <3> QED
      BY <3>1, NodesAreFinite
  <2> HIDE DEF t
  <2>4. Read(Placed(t, Stop(t, s), 2 * next + 2, s), 1 .. (2 * next + 2), next + 1)
    BY <1>3, <2>2, <2>3, NextOperator
  <2>5. 2 * next' = 2 * next + 2
    BY <1>1, <1>2
  <2> QED
    BY <1>2, <2>4, <2>5
<1>4. next' # AllBuilt /\ next' \in Int
  BY <1>1, <1>2 DEF AllBuilt
<1> QED
  BY <1>1, <1>2, <1>3, <1>4, SameFollows

LEMMA BuildLastFollows == ExprTreeIInv /\ FollowsIInv /\ BuildLast => FollowsIInv'
<1> SUFFICES ASSUME ExprTreeIInv, FollowsIInv, BuildLast
             PROVE  FollowsIInv'
  OBVIOUS
<1>1. next = Len(signals) /\ Len(signals) \in 1 .. MaxSignals /\ Row
  BY DEF BuildLast, ExprTreeIInv, FollowsIInv
<1>2. tree' = InsertChild(tree, rightmost, "right", Object(next + 1), "right")
      /\ next' = -1 /\ signals' = signals
  BY DEF BuildLast, AllBuilt
<1>3. ASSUME Few
      PROVE  Whole(tree', Live')
  <2>1. Read(tree', Tokens, Len(signals))
    <3>1. next >= 1
      BY <1>1
    <3>2. Read(tree', 1 .. (2 * next + 1), next)
      BY <1>2, <1>3, <3>1, NextOperandHere
    <3> QED
      BY <1>1, <3>2 DEF Tokens
  <2>2. Linked(tree', Tokens) /\ tree'.top # NoNode
    BY <2>1 DEF Read
  <2>3. Live' = Tokens
    BY <2>2, LiveOf DEF Live
  <2>4. tree'.top \in Tokens
    BY <2>2 DEF Linked, IsUnder
  <2>5. Follows(tree', Live', tree')
    BY <2>3, <2>4 DEF Follows
  <2> QED
    BY <2>1, <2>5 DEF Whole
<1>4. ~(next' >= 1) /\ next' \in Int
  BY <1>2
<1> QED
  BY <1>1, <1>2, <1>3, <1>4, SameFollows

(* A rewriting that follows what the tree before it followed.              *)
LEMMA RewritesFollow ==
    ASSUME ExprTreeIInv, FollowsIInv, NEW t, Rewrites(t), NEW M, Linked(t, M),
           Tokens \subseteq M => Tokens \subseteq Live,
           \A b : Tokens \subseteq M /\ Linked(b, Tokens) /\ Follows(tree, Live, b) => Follows(t, M, b)
    PROVE  FollowsIInv'
<1>1. tree' = t /\ next' = -1 /\ next = AllBuilt /\ signals' = signals
  BY DEF Rewrites, AllBuilt
<1>2. Live' = M
  BY <1>1, LiveOf DEF Live
<1>3. ASSUME Few
      PROVE  Whole(t, M)
  <2> SUFFICES ASSUME Tokens \subseteq M
               PROVE  \E b : Read(b, Tokens, Len(signals)) /\ Follows(t, M, b)
    BY DEF Whole
  <2>1. PICK b : Read(b, Tokens, Len(signals)) /\ Follows(tree, Live, b)
    BY <1>1, <1>3 DEF FollowsIInv, Whole
  <2>2. Linked(b, Tokens)
    BY <2>1 DEF Read
  <2> QED
    BY <2>1, <2>2
<1>4. Row
  BY DEF FollowsIInv
<1>5. ~(next' >= 1) /\ next' \in Int
  BY <1>1
<1> QED
  BY <1>1, <1>2, <1>3, <1>4, <1>5, SameFollows

LEMMA FoldKeepsFollows == ExprTreeIInv /\ FollowsIInv /\ Fold => FollowsIInv'
<1> SUFFICES ASSUME ExprTreeIInv, FollowsIInv, NEW it \in Live, Rewrites(EraseChildren(tree, it))
             PROVE  FollowsIInv'
  BY DEF Fold
<1> DEFINE M == Pruned(tree, Live, it)
<1>1. Linked(tree, Live) /\ Row /\ Len(signals) \in 1 .. MaxSignals
  BY DEF ExprTreeIInv, FollowsIInv
<1> HIDE DEF Live
<1>2. Linked(EraseChildren(tree, it), M)
  BY <1>1, EraseChildrenLinked
<1>3. Tokens \subseteq M => Tokens \subseteq Live
  BY DEF Pruned
<1>4. \A b : Tokens \subseteq M /\ Linked(b, Tokens) /\ Follows(tree, Live, b)
                 => Follows(EraseChildren(tree, it), M, b)
  BY <1>1, FoldFollows
<1> HIDE DEF M
<1> QED
  BY <1>2, <1>3, <1>4, RewritesFollow

LEMMA ExpandKeepsFollows == ExprTreeIInv /\ FollowsIInv /\ Expand => FollowsIInv'
<1> SUFFICES ASSUME ExprTreeIInv, FollowsIInv, NEW it \in Live, NEW l \in Spare, NEW r \in Spare,
                    l < r, {l, r} \cap Live = {}, Rewrites(Merge(tree, it, l, r))
             PROVE  FollowsIInv'
  BY DEF Expand
<1> DEFINE P == Pruned(tree, Live, it)
           M == (P \cup {l}) \cup {r}
<1>1. Linked(tree, Live) /\ Row /\ Len(signals) \in 1 .. MaxSignals
  BY DEF ExprTreeIInv, FollowsIInv
<1> HIDE DEF Live
<1>2. l \in Nodes \ Live /\ r \in Nodes \ Live /\ l # r
  <2>1. l \in Nat /\ r \in Nat /\ l \in Nodes /\ r \in Nodes
    BY ExprTreeAssumption, NodesAreFinite
  <2> QED
    BY <2>1
<1>3. Linked(Merge(tree, it, l, r), M)
  BY <1>1, <1>2, MergeLinked
<1>4. Tokens \subseteq M => Tokens \subseteq P
  <2>1. l \notin Tokens /\ r \notin Tokens
    BY <1>1, TokensAre
  <2> QED
    BY <2>1
<1>5. Tokens \subseteq M => Tokens \subseteq Live
  BY <1>4 DEF Pruned
<1>6. \A b : Tokens \subseteq M /\ Linked(b, Tokens) /\ Follows(tree, Live, b)
                 => Follows(Merge(tree, it, l, r), M, b)
  <2> SUFFICES ASSUME NEW b, Tokens \subseteq M, Linked(b, Tokens), Follows(tree, Live, b)
               PROVE  Follows(Merge(tree, it, l, r), M, b)
    OBVIOUS
  <2>1. Tokens \subseteq P
    BY <1>4
  <2> QED
    BY <1>1, <1>2, <2>1, ExpandFollows
<1> HIDE DEF M
<1> QED
  BY <1>3, <1>5, <1>6, RewritesFollow

LEMMA ChooseKeepsFollows == ExprTreeIInv /\ FollowsIInv /\ Choose => FollowsIInv'
<1> SUFFICES ASSUME ExprTreeIInv, FollowsIInv, NEW it \in Live, NEW side \in Sides,
                    Child(tree, tree.node[it].right, side) # NoNode,
                    Rewrites(Reserve(Reserve(tree, tree.node[it].right, side), it, "right"))
             PROVE  FollowsIInv'
  BY DEF Choose
<1> DEFINE pair == tree.node[it]["right"]
           L == Live
           r == Reserve(tree, pair, side)
           M == Reserved(tree, L, pair, side)
           K == Reserved(r, M, it, "right")
<1>1. Row /\ Len(signals) \in 1 .. MaxSignals
  BY DEF ExprTreeIInv, FollowsIInv
<1>2. Linked(tree, L) /\ pair \in L /\ tree.node[pair][side] # NoNode
      /\ Linked(r, M) /\ it \in M /\ r.node[it]["right"] # NoNode
  BY ChooseIsLinked
<1>3. Rewrites(Reserve(r, it, "right")) /\ "right" \in Sides
  BY DEF Sides
<1> HIDE DEF L, pair, r, M
<1>4. Linked(Reserve(r, it, "right"), K)
  BY <1>2, <1>3, ReserveLinked
<1>5. M \subseteq L /\ K \subseteq M
  BY DEF Reserved, M
<1>6. \A b : Tokens \subseteq K /\ Linked(b, Tokens) /\ Follows(tree, L, b)
                 => Follows(Reserve(r, it, "right"), K, b)
  <2> SUFFICES ASSUME NEW b, Tokens \subseteq K, Linked(b, Tokens), Follows(tree, L, b)
               PROVE  Follows(Reserve(r, it, "right"), K, b)
    OBVIOUS
  <2>1. Tokens \subseteq M
    BY <1>5
  <2>2. Follows(Reserve(tree, pair, side), Reserved(tree, L, pair, side), b)
    <3>1. Tokens \subseteq Reserved(tree, L, pair, side)
      BY <2>1 DEF M
    <3> QED
      BY <1>1, <1>2, <3>1, ReserveFollows
  <2>3. Follows(r, M, b)
    BY <2>2 DEF r, M
  <2> QED
    BY <1>1, <1>2, <1>3, <2>3, ReserveFollows
<1> HIDE DEF K
<1>7. Tokens \subseteq K => Tokens \subseteq L
  BY <1>5
<1> QED
  BY <1>3, <1>4, <1>6, <1>7, RewritesFollow DEF L

(* The tree of an expression is the one that the levels of its operators   *)
(* describe, for every row of operators with no more than two assignments  *)
(* (build_tree, parser.cpp).                                               *)
THEOREM TreeFollowsItsLevels == ExprTreeSpec => []TreeFollowsLevels
<1>1. ExprTreeInit => FollowsIInv
  <2> SUFFICES ASSUME ExprTreeInit
               PROVE  FollowsIInv
    OBVIOUS
  <2>1. PICK k \in 1 .. MaxSignals : signals \in [1 .. k -> Signals]
    BY DEF ExprTreeInit
  <2>2. Row
    <3>1. k \in Nat
      BY ExprTreeAssumption
    <3> QED
      BY <2>1, <3>1 DEF Row
  <2>3. next = 0
    BY DEF ExprTreeInit
  <2> QED
    BY <2>2, <2>3 DEF FollowsIInv, AllBuilt
<1>2. ExprTreeIInv /\ FollowsIInv /\ [ExprTreeNext]_exprTreeVars => FollowsIInv'
  <2> SUFFICES ASSUME ExprTreeIInv, FollowsIInv, [ExprTreeNext]_exprTreeVars
               PROVE  FollowsIInv'
    OBVIOUS
  <2>1. CASE BuildFirst
    BY <2>1, BuildFirstFollows
  <2>2. CASE BuildNext
    BY <2>2, BuildNextFollows
  <2>3. CASE BuildLast
    BY <2>3, BuildLastFollows
  <2>4. CASE Fold
    BY <2>4, FoldKeepsFollows
  <2>5. CASE Choose
    BY <2>5, ChooseKeepsFollows
  <2>6. CASE Expand
    BY <2>6, ExpandKeepsFollows
  <2>7. CASE UNCHANGED exprTreeVars
    <3>1. signals' = signals /\ next' = next /\ tree' = tree /\ Live' = Live
      BY <2>7 DEF exprTreeVars, Live
    <3>2. Row /\ next' \in Int
      BY <3>1 DEF FollowsIInv, ExprTreeIInv
    <3>3. Few => /\ next' >= 1 => Read(tree', 1 .. (2 * next'), next')
                 /\ next' = AllBuilt => Whole(tree', Live')
      BY <3>1 DEF FollowsIInv
    <3> QED
      BY <3>1, <3>2, <3>3, SameFollows
  <2> QED
    BY <2>1, <2>2, <2>3, <2>4, <2>5, <2>6, <2>7 DEF ExprTreeNext
<1>3. ExprTreeIInv /\ FollowsIInv => TreeFollowsLevels
  <2> SUFFICES ASSUME ExprTreeIInv, FollowsIInv, WholeTree, Few
               PROVE  FollowsLevels
    BY DEF TreeFollowsLevels, Few
  <2>1. next = AllBuilt /\ Live = Tokens
    BY DEF WholeTree, Tokens
  <2>2. Row /\ Len(signals) \in 1 .. MaxSignals /\ Linked(tree, Live)
    BY DEF ExprTreeIInv, FollowsIInv
  <2>3. PICK b : Read(b, Tokens, Len(signals)) /\ Follows(tree, Live, b)
    BY <2>1 DEF FollowsIInv, Whole
  <2> QED
    BY <2>1, <2>2, <2>3, WholeTreeFollows
<1> QED
  BY <1>1, <1>2, <1>3, ExprTreeInvariant, PTL DEF ExprTreeSpec
=============================================================================
