--------------------------- MODULE ResourcesProofs ---------------------------
(***************************************************************************)
(* Resource arithmetic for quantities of any width: the calculators        *)
(* saturate, and the minimum of two maxima is a maximum of both.           *)
(***************************************************************************)
EXTENDS Resources, TLAPS

\* The quantity closest to a sum.
Clamp(x) == IF x < -Half THEN -Half ELSE IF x >= Half THEN Half - 1 ELSE x

\* A resource: quantities by type, or nil.
IsResource(r) == r = Nil \/ \A k \in DOMAIN r : r[k] \in Quantity

-----------------------------------------------------------------------------

\* Division with remainder, one multiple up or down.
LEMMA ModNear ==
  ASSUME NEW n \in Nat \ {0}, NEW x \in 0 .. n - 1
  PROVE  x % n = x /\ (x + n) % n = x /\ (x - n) % n = x
OBVIOUS

\* Two's complement keeps what fits and is one period off for a sum of two.
LEMMA WrappedNear ==
  ASSUME NEW x \in Int, -2 * Half <= x, x < 2 * Half
  PROVE  /\ x \in Quantity => Wrapped(x) = x
         /\ x >= Half => Wrapped(x) = x - 2 * Half
         /\ x < -Half => Wrapped(x) = x + 2 * Half
<1>1. x \in Quantity => Wrapped(x) = x
  BY HalfAssumption, ModNear DEF Wrapped, Quantity
<1>2. x >= Half => Wrapped(x) = x - 2 * Half
  BY HalfAssumption, ModNear DEF Wrapped
<1>3. x < -Half => Wrapped(x) = x + 2 * Half
  BY HalfAssumption, ModNear DEF Wrapped
<1> QED BY <1>1, <1>2, <1>3

\* addVal finds every overflow, in either direction, from the order of the wrapped
\* result and the first operand, and returns the quantity closest to the sum.
THEOREM AddSaturates ==
  ASSUME NEW valA \in Quantity, NEW valB \in Quantity
  PROVE  addVal(valA, valB) = Clamp(valA + valB) /\ addVal(valA, valB) \in Quantity
<1>1. /\ valA + valB \in Int
      /\ -2 * Half <= valA + valB /\ valA + valB < 2 * Half
  BY HalfAssumption DEF Quantity
<1>2. CASE valA + valB \in Quantity
  <2>1. Wrapped(valA + valB) = valA + valB
    BY <1>1, <1>2, WrappedNear, HalfAssumption DEF Quantity
  <2> QED BY <2>1, <1>2, HalfAssumption DEF addVal, Clamp, Quantity
<1>3. CASE valA + valB >= Half
  <2>1. Wrapped(valA + valB) = valA + valB - 2 * Half
    BY <1>1, <1>3, WrappedNear, HalfAssumption DEF Quantity
  <2> QED BY <2>1, <1>3, HalfAssumption DEF addVal, Clamp, Quantity
<1>4. CASE valA + valB < -Half
  <2>1. Wrapped(valA + valB) = valA + valB + 2 * Half
    BY <1>1, <1>4, WrappedNear, HalfAssumption DEF Quantity
  <2> QED BY <2>1, <1>4, HalfAssumption DEF addVal, Clamp, Quantity
<1> QED BY <1>1, <1>2, <1>3, <1>4, HalfAssumption DEF Quantity

\* subVal negates its second operand and adds it: the result is the quantity closest
\* to the difference unless that operand is the smallest quantity, which has no
\* negative.
THEOREM SubSaturates ==
  ASSUME NEW valA \in Quantity, NEW valB \in Quantity, valB # -Half
  PROVE  subVal(valA, valB) = Clamp(valA - valB) /\ subVal(valA, valB) \in Quantity
<1>1. -valB \in Quantity
  BY HalfAssumption DEF Quantity
<1>2. Wrapped(-valB) = -valB
  <2>1. -valB \in Int /\ -2 * Half <= -valB /\ -valB < 2 * Half
    BY <1>1, HalfAssumption DEF Quantity
  <2> QED BY <1>1, <2>1, WrappedNear
<1>3. valA + (-valB) = valA - valB
  BY HalfAssumption DEF Quantity
<1> QED BY <1>1, <1>2, <1>3, AddSaturates DEF subVal

-----------------------------------------------------------------------------

LEMMA QuantInQuantity ==
  ASSUME NEW r, IsResource(r), NEW k
  PROVE  Quant(r, k) \in Quantity
BY HalfAssumption DEF IsResource, Quant, Types, IsNil, Quantity

\* Add saturates type by type and gives a resource with the types of both sides:
\* usage that is added up in queues, users and nodes never changes its sign by an
\* overflow.
THEOREM AddOfResources ==
  ASSUME NEW left, NEW right, IsResource(left), IsResource(right)
  PROVE  /\ DOMAIN Add(left, right) = Types(left) \cup Types(right)
         /\ \A k \in DOMAIN Add(left, right) :
              /\ Add(left, right)[k] = Clamp(Quant(left, k) + Quant(right, k))
              /\ Add(left, right)[k] \in Quantity
<1>1. DOMAIN Add(left, right) = Types(left) \cup Types(right)
  BY DEF Add
<1>2. ASSUME NEW k \in Types(left) \cup Types(right)
      PROVE  /\ Add(left, right)[k] = Clamp(Quant(left, k) + Quant(right, k))
             /\ Add(left, right)[k] \in Quantity
  <2>1. Quant(left, k) \in Quantity /\ Quant(right, k) \in Quantity
    BY QuantInQuantity
  <2>2. Add(left, right)[k] = addVal(Quant(left, k), Quant(right, k))
    BY DEF Add
  <2> QED BY <2>1, <2>2, AddSaturates
<1> QED BY <1>1, <1>2

\* What fits in the minimum of two maxima fits in each of them and the other way
\* round, types without a maximum included (nil is no map of types): checking a queue against the merged
\* maximum of its path (internalGetMax) is checking it against every queue.
THEOREM MinFitsBoth ==
  ASSUME NEW left, NEW right, NEW smaller,
         IsResource(left), IsResource(right), IsResource(smaller),
         Nil # ComponentWiseMin(left, right) \/ (left = Nil /\ right = Nil)
  PROVE  FitInMaxUndef(ComponentWiseMin(left, right), smaller)
           <=> FitInMaxUndef(left, smaller) /\ FitInMaxUndef(right, smaller)
<1> DEFINE min == ComponentWiseMin(left, right)
           Fits(r, k) == k \notin Types(r) \/ smaller[k] <= Most(0, Quant(r, k))
<1>1. \A r : FitInMaxUndef(r, smaller) <=> \A k \in Types(smaller) : Fits(r, k)
  BY DEF FitInMaxUndef, fitIn
<1>2. Types(min) = Types(left) \cup Types(right)
  BY DEF ComponentWiseMin, Types, IsNil
<1>3. ASSUME NEW k \in Types(smaller)
      PROVE  Fits(min, k) <=> Fits(left, k) /\ Fits(right, k)
  <2>1. smaller[k] \in Int /\ Quant(left, k) \in Int /\ Quant(right, k) \in Int
    <3>1. smaller[k] \in Quantity
      BY <1>3 DEF IsResource, Types, IsNil
    <3> QED BY <3>1, QuantInQuantity, HalfAssumption DEF Quantity
  <2>2. CASE k \in Types(left) /\ k \in Types(right)
    <3>1. Quant(min, k) = Least(Quant(left, k), Quant(right, k))
      BY <1>2, <2>2 DEF ComponentWiseMin, Quant, Types, IsNil
    <3> QED BY <1>2, <2>1, <2>2, <3>1 DEF Least, Most
  <2>3. CASE k \in Types(left) /\ k \notin Types(right)
    <3>1. Quant(min, k) = Quant(left, k)
      BY <1>2, <2>3 DEF ComponentWiseMin, Quant, Types, IsNil
    <3> QED BY <1>2, <2>3, <3>1
  <2>4. CASE k \notin Types(left) /\ k \in Types(right)
    <3>1. Quant(min, k) = Quant(right, k)
      BY <1>2, <2>4 DEF ComponentWiseMin, Quant, Types, IsNil
    <3> QED BY <1>2, <2>4, <3>1
  <2>5. CASE k \notin Types(left) /\ k \notin Types(right)
    BY <1>2, <2>5
  <2> QED BY <2>2, <2>3, <2>4, <2>5
<1> HIDE DEF min, Fits
<1> QED BY <1>1, <1>3 DEF min
=============================================================================
