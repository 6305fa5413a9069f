----------------------------- MODULE Resources -----------------------------
(***************************************************************************)
(* Resources: sparse maps from resource types to quantities, as functions  *)
(* on the types that are set, and Nil.  A quantity is a signed integer of  *)
(* a fixed width (Half is 2^63 in the code); the calculators saturate.     *)
(***************************************************************************)
EXTENDS Integers, FiniteSets, Sequences, SequencesExt, TLC

CONSTANTS Nil, Half

ASSUME HalfAssumption == Half \in Nat \ {0}

Quantity == -Half .. Half - 1
Wrapped(x) == ((x + Half) % (2 * Half)) - Half

addVal(valA, valB) ==
  LET result == Wrapped(valA + valB)
  IN  IF (result < valA) # (valB < 0) THEN IF valA < 0 THEN -Half ELSE Half - 1 ELSE result

subVal(valA, valB) == addVal(valA, Wrapped(-valB))

Zero == [k \in {} |-> 0]
IsNil(r) == r = Nil
Types(r) == IF IsNil(r) THEN {} ELSE DOMAIN r
Quant(r, k) == IF k \in Types(r) THEN r[k] ELSE 0
IsEmpty(r) == Types(r) = {}
IsZero(r) == \A k \in Types(r) : r[k] = 0
Least(x, y) == IF x <= y THEN x ELSE y
Most(x, y) == IF x <= y THEN y ELSE x

Add(left, right) == [k \in Types(left) \cup Types(right) |-> addVal(Quant(left, k), Quant(right, k))]
Sub(left, right) == [k \in Types(left) \cup Types(right) |-> subVal(Quant(left, k), Quant(right, k))]
SubOnlyExisting(base, delta) ==
  IF IsNil(base) THEN Nil ELSE [k \in DOMAIN base |-> subVal(base[k], Quant(delta, k))]
SubEliminateNegative(left, right) ==
  [k \in Types(left) \cup Types(right) |->
     LET v == subVal(Quant(left, k), Quant(right, k)) IN IF k \in Types(right) THEN Most(0, v) ELSE v]
Prune(r) == [k \in {k \in Types(r) : r[k] # 0} |-> r[k]]

fitIn(r, smaller, skipUndef, actual) ==
  \A k \in Types(smaller) :
    \/ skipUndef /\ k \notin Types(r)
    \/ smaller[k] <= IF actual THEN Quant(r, k) ELSE Most(0, Quant(r, k))
FitIn(r, smaller) == fitIn(r, smaller, FALSE, FALSE)
FitInMaxUndef(r, smaller) == fitIn(r, smaller, TRUE, FALSE)
FitInActual(r, smaller) == fitIn(r, smaller, TRUE, TRUE)

Equals(left, right) ==
  /\ IsNil(left) <=> IsNil(right)
  /\ \A k \in Types(left) \cup Types(right) : Quant(left, k) = Quant(right, k)
EqualsOrEmpty(left, right) == (IsZero(left) /\ IsZero(right)) \/ Equals(left, right)
MatchAny(r, other) == Types(r) \cap Types(other) # {}

StrictlyGreaterThanOrEquals(larger, smaller) ==
  \A k \in Types(larger) \cup Types(smaller) : Quant(larger, k) >= Quant(smaller, k)
StrictlyGreaterThan(larger, smaller) ==
  /\ StrictlyGreaterThanOrEquals(larger, smaller)
  /\ \E k \in Types(larger) \cup Types(smaller) : Quant(larger, k) # Quant(smaller, k)

\* Only the types of r count.  Without a common type the answer depends on
\* what is empty.
internalStrictlyOnlyExisting(r, smaller, doEqualsCheck) ==
  LET common == Types(r) \cap Types(smaller)
  IN  /\ \A k \in common : smaller[k] <= r[k]
      /\ IF IsEmpty(smaller) THEN ~IsEmpty(r) /\ \A k \in Types(r) : r[k] > 0
         ELSE IF common # {} THEN doEqualsCheck \/ \E k \in common : smaller[k] # r[k]
         ELSE ~IsEmpty(r)
StrictlyGreaterThanOnlyExisting(r, smaller) == internalStrictlyOnlyExisting(r, smaller, FALSE)
StrictlyGreaterThanOrEqualsOnlyExisting(r, smaller) == internalStrictlyOnlyExisting(r, smaller, TRUE)

MergeIfNotPresent(left, right) ==
  IF IsNil(left) /\ IsNil(right) THEN Nil
  ELSE [k \in Types(left) \cup Types(right) |-> IF k \in Types(left) THEN left[k] ELSE right[k]]
ComponentWiseMin(left, right) ==
  IF IsNil(left) /\ IsNil(right) THEN Nil
  ELSE [k \in Types(left) \cup Types(right) |->
          IF k \in Types(left) /\ k \in Types(right) THEN Least(left[k], right[k])
          ELSE IF k \in Types(left) THEN left[k] ELSE right[k]]
ComponentWiseMinOnlyExisting(left, right) ==
  IF IsNil(left) THEN Nil
  ELSE [k \in DOMAIN left |-> IF k \in Types(right) THEN Least(left[k], right[k]) ELSE left[k]]

\* A share is a fraction <<numerator, denominator>>, the usage itself when
\* there is no total.  A type without usage has no share.
GetSharesTypeWise(res, total) ==
  [k \in {k \in Types(res) : res[k] # 0} |-> <<res[k], IF Quant(total, k) = 0 THEN 1 ELSE total[k]>>]
ShareLess(x, y) == x[1] * y[2] < y[1] * x[2]

\* The largest shares are compared first; what one side has left over is
\* compared with nothing.
compareShares(lshares, rshares) ==
  LET l == Reverse(lshares)
      r == Reverse(rshares)
      at(s, i) == IF i <= Len(s) THEN s[i] ELSE <<0, 1>>
      differ == {i \in 1 .. Most(Len(l), Len(r)) : at(l, i)[1] * at(r, i)[2] # at(r, i)[1] * at(l, i)[2]}
      first == CHOOSE i \in differ : \A j \in differ : i <= j
  IN  IF differ = {} THEN 0 ELSE IF ShareLess(at(l, first), at(r, first)) THEN -1 ELSE 1

CompUsageRatioSpecificTypes(left, right, total, specificTypes) ==
  LET Listed(r) == LET shares == GetSharesTypeWise(r, total)
                       wanted == IF IsNil(specificTypes) THEN DOMAIN shares ELSE DOMAIN shares \cap Types(specificTypes)
                       keys == SetToSeq(wanted)
                   IN  SortSeq([i \in DOMAIN keys |-> shares[keys[i]]], ShareLess)
  IN  compareShares(Listed(left), Listed(right))

\* The share of the types of r that are asked for, in percent.
TypeMatching(r, other) == (Cardinality(Types(r) \cap Types(other)) * 100) \div Cardinality(Types(r))

=============================================================================
