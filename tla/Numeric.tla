------------------------------ MODULE Numeric ------------------------------
(***************************************************************************)
(* class numeric (core/components.hpp), a number of the language, and the  *)
(* ranges a foreach runs over (core/core.hpp).  A number is an integer of  *)
(* Bits bits, on which + - * wrap around, or a float.                      *)
(*                                                                         *)
(* A float is a number of halves, NaN or an infinity; floats are exact on  *)
(* the small numbers of an instance, rounding is left out.  The float that *)
(* a quotient or a power is, when it is not an integer, is "some float".   *)
(***************************************************************************)
EXTENDS Integers

CONSTANTS MaxInt,   \* numeric_limits<numeric_integer>::max(), 2^63 - 1 in the program
          T,        \* operands this small are multiplied unchecked (2^30)
          Halves,   \* the finite floats of the operands, in halves
          EndPoints      \* what the ends of ranges may be

ASSUME NumericAssumption ==
    /\ MaxInt \in Nat \ {0}
    /\ T \in Nat /\ T * T <= MaxInt
    /\ Halves \subseteq Int

MinInt == -MaxInt - 1
Ints == MinInt .. MaxInt
IntCount == MaxInt - MinInt + 1   \* how many there are
Wrap(n) == ((n - MinInt) % IntCount) + MinInt

Infinity == 2 * IntCount * IntCount   \* in halves, beyond all that is compared
IntNum(n) == [type |-> "int", is |-> n]
FloatNum(h) == [type |-> "float", is |-> h]
NaN == [type |-> "nan", is |-> 0]
SomeFloat == [type |-> "some float", is |-> 0]
Error == [type |-> "error", is |-> 0]
IsInt(x) == x.type = "int"

Numbers == {IntNum(n) : n \in Ints} \cup {FloatNum(h) : h \in Halves} \cup
           {FloatNum(Infinity), FloatNum(-Infinity), NaN}
InHalves(x) == IF IsInt(x) THEN 2 * x.is ELSE x.is

ASSUME EndPointsAssumption == EndPoints \subseteq Numbers
-----------------------------------------------------------------------------
Sign(n) == IF n < 0 THEN -1 ELSE IF n > 0 THEN 1 ELSE 0
Abs(n) == IF n < 0 THEN -n ELSE n
Truncated(h) == Sign(h) * (Abs(h) \div 2)

(* compare_int_float(): the float is held against the limits before it is  *)
(* truncated, and the fraction decides between equal integers; 2 is NaN.   *)
CompareIntFloat(i, x) ==
    IF x = NaN THEN 2
    ELSE LET fi == Truncated(x.is)
         IN IF x.is >= 2 * (MaxInt + 1) THEN -1
            ELSE IF x.is < 2 * MinInt THEN 1
            ELSE IF i # fi THEN Sign(i - fi)
            ELSE Sign(2 * fi - x.is)

(* operator< to operator!=, over the four pairs of types.                  *)
Order(a, b) ==
    CASE IsInt(a) /\ IsInt(b) -> Sign(a.is - b.is)
      [] IsInt(a) /\ ~IsInt(b) -> CompareIntFloat(a.is, b)
      [] ~IsInt(a) /\ IsInt(b) -> LET c == CompareIntFloat(b.is, a) IN IF c = 2 THEN 2 ELSE -c
      [] OTHER -> IF NaN \in {a, b} THEN 2 ELSE Sign(a.is - b.is)
Less(a, b) == Order(a, b) < 0
LessEqual(a, b) == Order(a, b) <= 0
Greater(a, b) == Order(a, b) = 1
GreaterEqual(a, b) == Order(a, b) \in {0, 1}
Equal(a, b) == Order(a, b) = 0

(* operator+ (operator- and operator* are alike): a float if one is.       *)
PlusNumeric(a, b) ==
    IF IsInt(a) /\ IsInt(b) THEN IntNum(Wrap(a.is + b.is))
    ELSE IF NaN \in {a, b} THEN NaN
    ELSE IF Infinity \in {Abs(InHalves(a)), Abs(InHalves(b))}
    THEN IF {Infinity, -Infinity} = {InHalves(a), InHalves(b)} THEN NaN
         ELSE IF Abs(InHalves(a)) = Infinity THEN FloatNum(InHalves(a)) ELSE FloatNum(InHalves(b))
    ELSE FloatNum(InHalves(a) + InHalves(b))

(* operator/ and operator% of integers: lldiv() truncates.                 *)
TruncDiv(a, b) == Sign(a) * Sign(b) * (Abs(a) \div Abs(b))
Rem(a, b) == a - b * TruncDiv(a, b)

DivideMinWraps(a, b) == \* MUTANT: no case for the smallest integer over -1
    IF b = 0 THEN Error
    ELSE IF Rem(a, b) = 0 THEN IntNum(Wrap(TruncDiv(a, b))) ELSE SomeFloat

Divide(a, b) ==
    IF b = 0 THEN Error
    ELSE IF a = MinInt /\ b = -1 THEN FloatNum(-2 * MinInt)
    ELSE IF Rem(a, b) = 0 THEN IntNum(TruncDiv(a, b)) ELSE SomeFloat

Modulo(a, b) ==
    IF b = 0 THEN Error
    ELSE IF a = MinInt /\ b = -1 THEN IntNum(0) ELSE IntNum(Rem(a, b))

(* as_integer(): out-of-range floats are clamped.                          *)
AsInteger(x) ==
    IF IsInt(x) THEN x.is
    ELSE IF x = NaN THEN 0
    ELSE IF x.is >= 2 * MaxInt THEN MaxInt
    ELSE IF x.is <= 2 * MinInt THEN MinInt
    ELSE Truncated(x.is)

(* int_pow(): would_overflow() lets small operands pass and divides        *)
(* otherwise.                                                              *)
WouldOverflow(a, b) ==
    /\ {a, b} \cap {0, 1} = {}
    /\ ~(a \in -T .. T /\ b \in -T .. T)
    /\ IF a > 0 THEN IF b > 0 THEN a > TruncDiv(MaxInt, b) ELSE b < TruncDiv(MinInt, a)
       ELSE IF b > 0 THEN a < TruncDiv(MinInt, b) ELSE a < TruncDiv(MaxInt, b)

(* The loop of int_pow(), which ends by itself in no more turns than exp.  *)
SquaringTurn(s) ==
    LET odd == s.exp % 2 = 1
        more == s.exp \div 2 > 0
    IN IF ~s.fits \/ s.exp = 0 THEN s
       ELSE [fits |-> /\ odd => ~WouldOverflow(s.result, s.base)
                      /\ more => ~WouldOverflow(s.base, s.base),
             result |-> IF odd THEN Wrap(s.result * s.base) ELSE s.result,
             base |-> IF more THEN Wrap(s.base * s.base) ELSE s.base,
             exp |-> s.exp \div 2]
Squarings(base, exp) ==
    LET turn[k \in Nat] ==
        IF k = 0 THEN [fits |-> TRUE, result |-> 1, base |-> base, exp |-> exp]
        ELSE SquaringTurn(turn[k - 1])
    IN turn[exp]

IntPow(base, exp) ==
    IF exp = 0 THEN IntNum(1)
    ELSE IF base = 0 THEN IF exp < 0 THEN FloatNum(Infinity) ELSE IntNum(0)
    ELSE IF exp < 0 THEN SomeFloat
    ELSE IF base = 1 THEN IntNum(1)
    ELSE IF base = -1 THEN IntNum(IF exp % 2 = 1 THEN -1 ELSE 1)
    ELSE LET s == Squarings(base, exp) IN IF s.fits THEN IntNum(s.result) ELSE SomeFloat
-----------------------------------------------------------------------------
VARIABLES lhs, rhs,    \* the operands of an operator
          range    \* the loop over a range, or Idle
numericVars == <<lhs, rhs, range>>

(* m_step and m_index of the iterator that moves, m_index of end(), the    *)
(* first value, and how often the iterator has moved.                      *)
Idle == [on |-> FALSE, step |-> IntNum(1), index |-> IntNum(0), end |-> IntNum(0),
         first |-> 0, moves |-> 0]
MaxMoves == 2 * IntCount   \* bound: moves are counted up to here

NumericInit ==
    /\ lhs \in Numbers /\ rhs \in Numbers
    /\ range = Idle

(* foreach over range(start, stop, step): a step of 0 is refused.  One loop *)
(* for each range is enough, so a and b are those of the first state.      *)
RangeBegin ==
    /\ ~range.on /\ lhs = NaN /\ rhs = NaN
    /\ \E step \in {x \in Numbers : x # NaN /\ x.is # 0 /\ Abs(InHalves(x)) < Infinity},
          first \in Ints, end \in EndPoints :
           range' = [on |-> TRUE, step |-> step, index |-> IntNum(first), end |-> end,
                     first |-> first, moves |-> 0]
    /\ UNCHANGED <<lhs, rhs>>

(* range_iterator::operator!= and operator++.                              *)
Proceeds(it) ==
    IF Greater(it.step, IntNum(0)) THEN Less(it.index, it.end) ELSE Greater(it.index, it.end)

AdvanceWraps(index, step) == PlusNumeric(index, step) \* MUTANT: no clamp

Advance(index, step) ==
    IF /\ IsInt(step) /\ IsInt(index)
       /\ IF step.is > 0 THEN index.is > MaxInt - step.is ELSE index.is < MinInt - step.is
    THEN IntNum(IF step.is > 0 THEN MaxInt ELSE MinInt)
    ELSE PlusNumeric(index, step)

RangeNext ==
    /\ range.on /\ Proceeds(range)
    /\ range' = [range EXCEPT !.index = Advance(@, range.step),
                              !.moves = IF @ < MaxMoves THEN @ + 1 ELSE @]
    /\ UNCHANGED <<lhs, rhs>>

RangeDone ==
    /\ range.on /\ ~Proceeds(range)
    /\ range' = Idle
    /\ UNCHANGED <<lhs, rhs>>

NumericNext == RangeBegin \/ RangeNext \/ RangeDone
NumericSpec == NumericInit /\ [][NumericNext]_numericVars /\ WF_numericVars(RangeNext \/ RangeDone)
-----------------------------------------------------------------------------
(* The operands and the iterator have their types.                         *)
NumericTypeOK ==
    /\ lhs \in Numbers /\ rhs \in Numbers
    /\ range.on \in BOOLEAN /\ range.moves \in 0 .. MaxMoves
    /\ IsInt(range.index) => range.index.is \in Ints

(* The six comparisons follow the order of the numbers, also of an integer *)
(* and a float with a fraction or out of the range of integers, and NaN is *)
(* unordered ("Exact int-vs-float order").                                 *)
OrderIsMathematical ==
    LET ordered == NaN \notin {lhs, rhs}
    IN /\ Less(lhs, rhs) <=> ordered /\ InHalves(lhs) < InHalves(rhs)
       /\ LessEqual(lhs, rhs) <=> ordered /\ InHalves(lhs) <= InHalves(rhs)
       /\ Greater(lhs, rhs) <=> ordered /\ InHalves(lhs) > InHalves(rhs)
       /\ GreaterEqual(lhs, rhs) <=> ordered /\ InHalves(lhs) >= InHalves(rhs)
       /\ Equal(lhs, rhs) <=> ordered /\ InHalves(lhs) = InHalves(rhs)

(* A quotient of integers is an integer exactly when one is exact, and the *)
(* rest that % leaves has the sign of the dividend, also for the smallest  *)
(* integer over -1.                                                        *)
DivisionIsExact ==
    IsInt(lhs) /\ IsInt(rhs) /\ rhs.is # 0 =>
        LET q == Divide(lhs.is, rhs.is)
            m == Modulo(lhs.is, rhs.is).is
        IN /\ IF IsInt(q) THEN q.is * rhs.is = lhs.is /\ q.is \in Ints
              ELSE \A n \in Ints : n * rhs.is # lhs.is
           /\ Abs(m) < Abs(rhs.is) /\ m * lhs.is >= 0
           /\ \E n \in MinInt .. (MaxInt + 1) : lhs.is = rhs.is * n + m

(* as_integer() keeps the order of the numbers: a larger number is never a *)
(* smaller index.                                                          *)
AsIntegerIsMonotone ==
    NaN \notin {lhs, rhs} /\ InHalves(lhs) <= InHalves(rhs) => AsInteger(lhs) <= AsInteger(rhs)

(* The product of n times b.                                               *)
Power(b, n) == LET power[k \in Nat] == IF k = 0 THEN 1 ELSE b * power[k - 1] IN power[n]

(* Where int_pow() stays with integers the power is exact, and it leaves   *)
(* them only when the power has no place in an integer, although it works  *)
(* with squares that are larger than the power before the last.            *)
PowerIsExact ==
    IsInt(lhs) /\ IsInt(rhs) /\ rhs.is >= 0 =>
        LET r == IntPow(lhs.is, rhs.is)
            power == Power(lhs.is, rhs.is)
        IN IF IsInt(r) THEN r.is = power ELSE power \notin Ints

(* A loop over an integer range has the values first + k * step that are   *)
(* short of the end and no other, whatever overflows.                      *)
RangeVisitsSteps ==
    range.on /\ IsInt(range.step) /\ IsInt(range.end) /\ Proceeds(range) =>
        range.index = IntNum(range.first + range.moves * range.step.is)

(* A foreach over a range ends: "Clamp on overflow so a wrapped index      *)
(* can't spin forever."                                                    *)
RangeEnds == range.on ~> ~range.on

(* Integers and floats are one ordered set of numbers: comparisons,        *)
(* quotients, indices, powers and ranges are those of arithmetic or say    *)
(* that they are not (class numeric).                                      *)
NumericInv ==
    /\ NumericTypeOK
    /\ OrderIsMathematical
    /\ DivisionIsExact
    /\ AsIntegerIsMonotone
    /\ PowerIsExact
    /\ RangeVisitsSteps
=============================================================================
