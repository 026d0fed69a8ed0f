-------------------------- MODULE AllocationProofs --------------------------
(***************************************************************************)
(* The weights, for every field, schedule, share and total: an             *)
(* apportionment by largest remainder hands out the whole, and what the    *)
(* three of them in a row leave of ties, of the reserved share, of the     *)
(* miners' part and of the order of the scores.                            *)
(***************************************************************************)
EXTENDS Allocation, Sums

-----------------------------------------------------------------------------
(* An apportionment. *)

\* What largest_remainder_ppm is called with.
Field(f) ==
  /\ f \in [DOMAIN f -> Nat]
  /\ DOMAIN f \in SUBSET Nat /\ IsFiniteSet(DOMAIN f) /\ DOMAIN f # {}
  /\ Total(f) > 0

\* The units that the whole parts leave, and those of them that h gets.
Left(f) == PpmTotal - Total([h \in DOMAIN f |-> Whole(f, h)])

Unit(f, h) == (Left(f) + Cardinality(DOMAIN f) - 1 - Cardinality(Ahead(f, h))) \div Cardinality(DOMAIN f)

LEMMA Apportions ==
  ASSUME NEW f
  PROVE  LargestRemainder(f) = [h \in DOMAIN f |-> Whole(f, h) + Unit(f, h)]
BY DEF LargestRemainder, Unit, Left

\* The sum of naturals is one, and it is at least each.
LEMMA Totals ==
  ASSUME NEW D, IsFiniteSet(D), NEW f \in [D -> Nat]
  PROVE  /\ Total(f) = SumFunctionOnSet(f, D)
         /\ Total(f) \in Nat
         /\ \A h \in D : f[h] <= Total(f)
<1>1. Total(f) = SumFunctionOnSet(f, D)
  BY Zenon DEF Total, SumFunction
<1>2. \A h \in D : f[h] \in Nat
  OBVIOUS
<1>3. SumFunctionOnSet(f, D) \in Nat
  BY <1>2, SumType
<1>4. ASSUME NEW h \in D PROVE f[h] <= SumFunctionOnSet(f, D)
  <2>1. SumFunctionOnSet(f, D) = f[h] + SumFunctionOnSet(f, D \ {h}) /\ SumFunctionOnSet(f, D \ {h}) \in Nat
    BY <1>2, SumTakes
  <2>. QED BY <1>2, <2>1
<1>. QED BY <1>1, <1>3, <1>4

\* Whole part and remainder of a quota.
LEMMA Quotas ==
  ASSUME NEW f, Field(f)
  PROVE  /\ Total(f) \in Nat \ {0}
         /\ \A h \in DOMAIN f : /\ f[h] \in Nat
                                /\ Whole(f, h) \in Nat /\ Rest(f, h) \in Nat
                                /\ Rest(f, h) < Total(f)
                                /\ PpmTotal * f[h] = Total(f) * Whole(f, h) + Rest(f, h)
<1>1. PpmTotal \in Nat
  BY AllocationAssumption DEF AllocationAssumption
<1>2. Total(f) \in Nat \ {0}
  BY Totals DEF Field
<1>3. ASSUME NEW h \in DOMAIN f
      PROVE  /\ f[h] \in Nat
             /\ Whole(f, h) \in Nat /\ Rest(f, h) \in Nat
             /\ Rest(f, h) < Total(f)
             /\ PpmTotal * f[h] = Total(f) * Whole(f, h) + Rest(f, h)
  <2>1. f[h] \in Nat
    BY DEF Field
  <2>2. f[h] * PpmTotal \in Nat /\ f[h] * PpmTotal = PpmTotal * f[h]
    BY <1>1, <2>1
  <2>. QED BY <1>2, <2>1, <2>2, Division DEF Whole, Rest
<1>. QED BY <1>2, <1>3

\* Ahead numbers the keys: each has fewer ahead of it than there are keys, and no two have
\* the same number.
LEMMA AheadNumbers ==
  ASSUME NEW f, Field(f)
  PROVE  /\ \A h \in DOMAIN f : /\ Cardinality(Ahead(f, h)) \in Nat
                                /\ Cardinality(Ahead(f, h)) < Cardinality(DOMAIN f)
         /\ \A g, h \in DOMAIN f : g # h => Cardinality(Ahead(f, g)) # Cardinality(Ahead(f, h))
<1>. DEFINE D == DOMAIN f
<1>1. \A h \in D : Rest(f, h) \in Nat /\ h \in Nat
  BY Quotas DEF Field
<1>2. IsFiniteSet(D) /\ Cardinality(D) \in Nat
  BY FS_CardinalityType DEF Field
<1>3. \A h \in D : Ahead(f, h) \in SUBSET D /\ h \notin Ahead(f, h)
  BY <1>1 DEF Ahead
<1>4. \A h \in D : IsFiniteSet(Ahead(f, h)) /\ Cardinality(Ahead(f, h)) \in Nat
  BY <1>2, <1>3, FS_Subset, FS_CardinalityType
<1>5. ASSUME NEW h \in D PROVE Cardinality(Ahead(f, h)) < Cardinality(D)
  <2>1. Cardinality(Ahead(f, h)) <= Cardinality(D) /\ Cardinality(Ahead(f, h)) # Cardinality(D)
    BY <1>2, <1>3, FS_Subset
  <2>. QED BY <1>2, <1>4, <2>1
<1>6. ASSUME NEW g \in D, NEW h \in D, g \in Ahead(f, h)
      PROVE  Cardinality(Ahead(f, g)) # Cardinality(Ahead(f, h))
  <2>1. Ahead(f, g) \in SUBSET Ahead(f, h)
    BY <1>1, <1>6 DEF Ahead
  <2>. QED BY <1>3, <1>4, <1>6, <2>1, FS_Subset
<1>7. \A g, h \in D : g # h => g \in Ahead(f, h) \/ h \in Ahead(f, g)
  BY <1>1 DEF Ahead
<1>. QED BY <1>4, <1>5, <1>6, <1>7

\* What is left is no more than the keys that have a remainder.
LEMMA LeftIsCovered ==
  ASSUME NEW f, Field(f)
  PROVE  /\ Left(f) \in Nat
         /\ Left(f) <= Cardinality({h \in DOMAIN f : Rest(f, h) > 0})
<1>. DEFINE D == DOMAIN f
            T == Total(f)
            whole == [h \in D |-> Whole(f, h)]
            rest == [h \in D |-> Rest(f, h)]
            bit == [h \in D |-> IF Rest(f, h) > 0 THEN 1 ELSE 0]
            some == {h \in D : Rest(f, h) > 0}
            ppms == [h \in D |-> PpmTotal * f[h]]
            none == [h \in D |-> 0]
<1>1. /\ T \in Nat \ {0} /\ PpmTotal \in Nat /\ IsFiniteSet(D)
      /\ f \in [D -> Nat]
      /\ whole \in [D -> Nat] /\ rest \in [D -> Nat] /\ bit \in [D -> Nat]
      /\ ppms \in [D -> Nat] /\ none \in [D -> Nat]
  <2>1. PpmTotal \in Nat
    BY AllocationAssumption DEF AllocationAssumption
  <2>2. ppms \in [D -> Nat]
    BY <2>1, Quotas
  <2>. QED BY <2>1, <2>2, Quotas DEF Field
<1>2. Total(ppms) = PpmTotal * T + Total(none) /\ Total(none) = 0
  <2>1. \A h \in D : /\ f[h] \in Nat /\ none[h] \in Nat /\ none[h] = 0
                     /\ ppms[h] = PpmTotal * f[h] + none[h]
    BY <1>1, Quotas
  <2>. HIDE DEF ppms, none
  <2>2. SumFunctionOnSet(ppms, D) = PpmTotal * SumFunctionOnSet(f, D) + SumFunctionOnSet(none, D)
    BY <1>1, <2>1, SumAdds
  <2>3. SumFunctionOnSet(none, D) = 0 * Cardinality(D)
    BY <1>1, <2>1, SumOfEqual
  <2>4. 0 * Cardinality(D) = 0
    BY <1>1, FS_CardinalityType
  <2>. QED BY <1>1, <2>2, <2>3, <2>4, Totals
<1>3. Total(ppms) = T * Total(whole) + Total(rest)
  <2>1. \A h \in D : /\ whole[h] \in Nat /\ rest[h] \in Nat
                     /\ ppms[h] = T * whole[h] + rest[h]
    BY Quotas
  <2>. HIDE DEF ppms, whole, rest, T
  <2>2. SumFunctionOnSet(ppms, D) = T * SumFunctionOnSet(whole, D) + SumFunctionOnSet(rest, D)
    BY <1>1, <2>1, SumAdds
  <2>. QED BY <1>1, <2>2, Totals
<1>4. Total(rest) <= T * Cardinality(some)
  <2>. DEFINE most == [h \in D |-> T * bit[h]]
  <2>1. \A h \in D : /\ bit[h] \in Nat /\ none[h] \in Nat /\ rest[h] \in Nat
                     /\ most[h] = T * bit[h] + none[h] /\ most[h] \in Nat /\ rest[h] <= most[h]
    <3>1. \A r \in Nat : r < T => r <= T * (IF r > 0 THEN 1 ELSE 0)
      BY <1>1
    <3>. QED BY <1>1, <3>1, Quotas
  <2>2. SumFunctionOnSet(rest, D) <= SumFunctionOnSet(most, D)
    <3>. HIDE DEF most
    <3>. QED BY <1>1, <2>1, SumIsMonotone
  <2>3. SumFunctionOnSet(most, D) = T * SumFunctionOnSet(bit, D) + SumFunctionOnSet(none, D)
    <3>. HIDE DEF most, bit, none, T
    <3>. QED BY <1>1, <2>1, SumAdds
  <2>4. SumFunctionOnSet(bit, D) = Cardinality(some)
    <3>1. SumFunctionOnSet(bit, D) = Cardinality({h \in D : bit[h] = 1})
      BY <1>1, SumOfBits
    <3>2. {h \in D : bit[h] = 1} = some
      OBVIOUS
    <3>. QED BY <3>1, <3>2
  <2>5. SumFunctionOnSet(none, D) = 0 /\ SumFunctionOnSet(rest, D) = Total(rest)
    BY <1>1, <1>2, Totals
  <2>6. Cardinality(some) \in Nat
    BY <1>1, FS_Subset, FS_CardinalityType
  <2>7. T * Cardinality(some) + 0 = T * Cardinality(some)
    BY <1>1, <2>6
  <2>. QED BY <2>2, <2>3, <2>4, <2>5, <2>7
<1>5. Total(whole) \in Nat /\ Total(rest) \in Nat /\ Cardinality(some) \in Nat
  BY <1>1, Totals, FS_Subset, FS_CardinalityType
<1>6. PpmTotal * T = T * Total(whole) + Total(rest)
  <2>1. PpmTotal * T + 0 = PpmTotal * T
    BY <1>1
  <2>. QED BY <1>2, <1>3, <2>1
<1>7. ASSUME NEW p \in Nat, NEW t \in Nat \ {0}, NEW w \in Nat, NEW r \in Nat, NEW c \in Nat,
             p * t = t * w + r, r <= t * c
      PROVE  p - w \in Nat /\ p - w <= c
  <2>1. t * w <= p * t /\ p * t < t * (w + c) + t
    <3>1. t * (w + c) + t = t * w + t * c + t /\ t * w \in Nat /\ t * c \in Nat /\ p * t \in Nat
      OBVIOUS
    <3>. QED BY <1>7, <3>1
  <2>2. p * t = t * p + 0 /\ t * p \in Nat
    OBVIOUS
  <2>3. \A q \in Nat : /\ t * q <= t * p => q <= p
                       /\ t * p < t * q + t => p <= q
    <3>1. (t * p) \div t = p
      BY Quotient, <2>2
    <3>. QED BY <2>2, <3>1, Quotient
  <2>4. w <= p /\ p <= w + c
    BY <2>1, <2>2, <2>3
  <2>. QED BY <2>4
<1>8. Left(f) = PpmTotal - Total(whole)
  BY Zenon DEF Left
<1>. HIDE DEF T, whole, rest, some
<1>9. PpmTotal - Total(whole) \in Nat /\ PpmTotal - Total(whole) <= Cardinality(some)
  BY <1>1, <1>4, <1>5, <1>6, <1>7
<1>. QED BY <1>8, <1>9 DEF some

\* Each of the first Left(f) keys gets one more unit, the others none; a key without a
\* remainder is not among them.
LEMMA Units ==
  ASSUME NEW f, Field(f), NEW h \in DOMAIN f
  PROVE  /\ Unit(f, h) \in {0, 1}
         /\ Unit(f, h) = 1 <=> Cardinality(Ahead(f, h)) < Left(f)
         /\ Rest(f, h) = 0 => Unit(f, h) = 0
<1>. DEFINE n == Cardinality(DOMAIN f)
            a == Cardinality(Ahead(f, h))
            some == {g \in DOMAIN f : Rest(f, g) > 0}
<1>1. /\ n \in Nat \ {0} /\ a \in Nat /\ a < n
      /\ Left(f) \in Nat /\ Left(f) <= Cardinality(some) /\ Cardinality(some) <= n
      /\ IsFiniteSet(DOMAIN f) /\ Cardinality(some) \in Nat
  <2>1. IsFiniteSet(DOMAIN f) /\ some \in SUBSET DOMAIN f
    BY DEF Field
  <2>2. Cardinality(some) \in Nat /\ Cardinality(some) <= n /\ n \in Nat
    BY <2>1, FS_Subset, FS_CardinalityType
  <2>. QED BY <2>1, <2>2, AheadNumbers, LeftIsCovered
<1>2. Left(f) + n - 1 - a \in Nat /\ Unit(f, h) = (Left(f) + n - 1 - a) \div n
  BY <1>1 DEF Unit
<1>3. /\ n <= Left(f) + n - 1 - a => 1 <= Unit(f, h)
      /\ Left(f) + n - 1 - a < n + n => Unit(f, h) <= 1
      /\ Left(f) + n - 1 - a < n => Unit(f, h) <= 0
  <2>. HIDE DEF n, a
  <2>1. ASSUME NEW q \in Nat
        PROVE  /\ n * q <= Left(f) + n - 1 - a => q <= Unit(f, h)
               /\ Left(f) + n - 1 - a < n * q + n => Unit(f, h) <= q
    BY <1>1, <1>2, Quotient
  <2>2. 0 \in Nat /\ 1 \in Nat /\ n * 1 = n /\ n * 0 + n = n
    BY <1>1
  <2>. QED BY <2>1, <2>2
<1>4. Unit(f, h) \in Nat
  <2>. HIDE DEF n, a
  <2>. QED BY <1>1, <1>2, Division
<1>5. CASE a < Left(f)
  <2>1. Left(f) + n - 1 - a < n + n /\ n <= Left(f) + n - 1 - a
    BY <1>1, <1>5
  <2>2. Unit(f, h) <= 1 /\ 1 <= Unit(f, h) /\ Unit(f, h) \in Nat
    <3>. HIDE DEF n, a
    <3>1. 1 <= Unit(f, h)
      BY <1>3, <2>1
    <3>2. Unit(f, h) <= 1
      BY <1>3, <2>1
    <3>. QED BY <1>4, <3>1, <3>2
  <2>3. Rest(f, h) # 0
    <3>1. SUFFICES ASSUME Rest(f, h) = 0 PROVE FALSE
      OBVIOUS
    <3>2. some \in SUBSET Ahead(f, h)
      BY <3>1 DEF Ahead
    <3>3. IsFiniteSet(Ahead(f, h))
      <4>1. Ahead(f, h) \in SUBSET DOMAIN f
        BY DEF Ahead
      <4>. QED BY <1>1, <4>1, FS_Subset
    <3>4. Cardinality(some) <= a
      BY <3>2, <3>3, FS_Subset
    <3>. QED BY <1>1, <1>5, <3>4
  <2>. QED BY <1>5, <2>2, <2>3
<1>6. CASE ~(a < Left(f))
  <2>1. Left(f) + n - 1 - a < n
    BY <1>1, <1>6
  <2>2. Unit(f, h) <= 0 /\ Unit(f, h) \in Nat
    <3>1. 0 \in Nat
      OBVIOUS
    <3>. QED BY <1>3, <1>4, <2>1, <3>1
  <2>. QED BY <1>6, <2>2
<1>. QED BY <1>5, <1>6

\* An apportionment by largest remainder hands out the whole: every key gets the whole
\* part of its quota, and one unit more at the most if there is a remainder.
LEMMA Apportioned ==
  ASSUME NEW f, Field(f)
  PROVE  /\ LargestRemainder(f) \in [DOMAIN f -> 0 .. PpmTotal]
         /\ Total(LargestRemainder(f)) = PpmTotal
         /\ \A h \in DOMAIN f : /\ Whole(f, h) <= LargestRemainder(f)[h]
                                /\ LargestRemainder(f)[h] <= Whole(f, h) + 1
                                /\ Rest(f, h) = 0 => LargestRemainder(f)[h] = Whole(f, h)
<1>. DEFINE D == DOMAIN f
            LR == LargestRemainder(f)
            whole == [h \in D |-> Whole(f, h)]
            unit == [h \in D |-> Unit(f, h)]
            ahead == [h \in D |-> Cardinality(Ahead(f, h))]
<1>1. IsFiniteSet(D) /\ PpmTotal \in Nat
  BY AllocationAssumption DEF Field, AllocationAssumption
<1>2. LR = [h \in D |-> Whole(f, h) + Unit(f, h)]
  BY Apportions, Zenon
<1>3. \A h \in D : /\ Whole(f, h) \in Nat
                   /\ Unit(f, h) \in {0, 1}
                   /\ Unit(f, h) = 1 <=> Cardinality(Ahead(f, h)) < Left(f)
                   /\ Rest(f, h) = 0 => Unit(f, h) = 0
  BY Quotas, Units
<1>4. \A h \in D : LR[h] = Whole(f, h) + Unit(f, h)
  BY <1>2
<1>. HIDE DEF LR
<1>5. LR \in [D -> Nat] /\ whole \in [D -> Nat] /\ unit \in [D -> Nat]
  BY <1>2, <1>3
<1>6. Total(LR) = Total(whole) + Total(unit)
  <2>1. \A h \in D : /\ whole[h] \in Nat /\ unit[h] \in Nat
                     /\ LR[h] = 1 * whole[h] + unit[h]
    BY <1>3, <1>4
  <2>. HIDE DEF whole, unit
  <2>2. 1 \in Nat
    OBVIOUS
  <2>3. SumFunctionOnSet(LR, D) = 1 * SumFunctionOnSet(whole, D) + SumFunctionOnSet(unit, D)
    BY <1>1, <2>1, <2>2, SumAdds
  <2>4. Total(LR) = 1 * Total(whole) + Total(unit) /\ Total(whole) \in Nat
    BY <1>1, <1>5, <2>3, Totals
  <2>. QED BY <2>4
<1>7. Total(unit) = Left(f)
  <2>1. \A h \in D : unit[h] \in {0, 1}
    BY <1>3
  <2>2. SumFunctionOnSet(unit, D) = Cardinality({h \in D : unit[h] = 1})
    <3>. HIDE DEF unit
    <3>. QED BY <1>1, <2>1, SumOfBits
  <2>3. {h \in D : unit[h] = 1} = {h \in D : ahead[h] < Left(f)}
    BY <1>3
  <2>4. Cardinality({h \in D : ahead[h] < Left(f)}) = Left(f)
    <3>1. /\ ahead \in [D -> Nat]
          /\ \A h \in D : ahead[h] < Cardinality(D)
          /\ \A g, h \in D : g # h => ahead[g] # ahead[h]
      BY AheadNumbers
    <3>2. Left(f) \in Nat /\ Left(f) <= Cardinality(D)
      <4>. DEFINE some == {h \in D : Rest(f, h) > 0}
      <4>1. Cardinality(some) <= Cardinality(D) /\ Cardinality(some) \in Nat /\ Cardinality(D) \in Nat
        BY <1>1, FS_Subset, FS_CardinalityType
      <4>2. Left(f) \in Nat /\ Left(f) <= Cardinality(some)
        BY LeftIsCovered
      <4>. HIDE DEF some, D
      <4>. QED BY <4>1, <4>2
    <3>. HIDE DEF ahead
    <3>. QED BY <1>1, <3>1, <3>2, FirstOfNumbering
  <2>5. Total(unit) = SumFunctionOnSet(unit, D)
    BY <1>1, <1>5, Totals
  <2>. HIDE DEF unit, ahead
  <2>. QED BY <2>2, <2>3, <2>4, <2>5
<1>8. Total(LR) = PpmTotal
  <2>1. Left(f) = PpmTotal - Total(whole)
    BY Zenon DEF Left
  <2>2. Total(whole) \in Nat
    BY <1>1, <1>5, Totals
  <2>. HIDE DEF whole, unit
  <2>. QED BY <1>1, <1>6, <1>7, <2>1, <2>2
<1>9. \A h \in D : LR[h] <= Total(LR) /\ LR[h] \in Nat
  BY <1>1, <1>5, Totals
<1>10. LR \in [D -> 0 .. PpmTotal]
  BY <1>1, <1>5, <1>8, <1>9
<1>11. \A w \in Nat, u \in {0, 1} : w <= w + u /\ w + u <= w + 1 /\ (u = 0 => w + u = w)
  OBVIOUS
<1>. QED BY <1>3, <1>4, <1>8, <1>10, <1>11 DEF LR

\* Shares that differ by less than a unit of the whole are at most one unit apart when they
\* are apportioned.
LEMMA CloseSharesStayClose ==
  ASSUME NEW f, Field(f), NEW g \in DOMAIN f, NEW h \in DOMAIN f, NEW d \in Nat,
         f[g] <= f[h] + d, PpmTotal * d < Total(f)
  PROVE  LargestRemainder(f)[g] <= LargestRemainder(f)[h] + 1
<1>. DEFINE T == Total(f)
            LR == LargestRemainder(f)
<1>1. /\ T \in Nat \ {0} /\ PpmTotal \in Nat /\ f[g] \in Nat /\ f[h] \in Nat
      /\ Whole(f, g) \in Nat /\ Rest(f, g) \in Nat
      /\ Whole(f, h) \in Nat /\ Rest(f, h) \in Nat /\ Rest(f, h) < T
      /\ PpmTotal * f[g] = T * Whole(f, g) + Rest(f, g)
      /\ PpmTotal * f[h] = T * Whole(f, h) + Rest(f, h)
  BY Quotas, AllocationAssumption DEF AllocationAssumption
<1>2. PpmTotal * f[g] < PpmTotal * f[h] + T
  <2>1. \A p, x, y, e \in Nat : x <= y + e => p * x <= p * y + p * e
    <3>1. SUFFICES ASSUME NEW p \in Nat, NEW x \in Nat, NEW y \in Nat, NEW e \in Nat, x <= y + e
                   PROVE  p * x <= p * y + p * e
      OBVIOUS
    <3>2. y + e - x \in Nat
      BY <3>1
    <3>3. p * y + p * e = p * x + p * (y + e - x) /\ p * (y + e - x) \in Nat /\ p * x \in Nat
      BY <3>2
    <3>. QED BY <3>3
  <2>2. PpmTotal * f[g] <= PpmTotal * f[h] + PpmTotal * d
    BY <1>1, <2>1
  <2>3. PpmTotal * f[g] \in Nat /\ PpmTotal * f[h] \in Nat /\ PpmTotal * d \in Nat
    BY <1>1
  <2>. QED BY <1>1, <2>2, <2>3
<1>3. Whole(f, g) <= Whole(f, h) + 1 /\ (Whole(f, g) = Whole(f, h) + 1 => Rest(f, g) < Rest(f, h))
  <2>1. SUFFICES ASSUME NEW t \in Nat, NEW v \in Nat, NEW w \in Nat, NEW q \in Nat, NEW r \in Nat,
                        r < t, t * v + q < t * w + r + t
                 PROVE  v <= w + 1 /\ (v = w + 1 => q < r)
    BY <1>1, <1>2
  <2>2. ASSUME w + 2 <= v PROVE FALSE
    <3>1. v - w - 2 \in Nat
      BY <2>2
    <3>2. t * v = t * w + t + t + t * (v - w - 2) /\ t * (v - w - 2) \in Nat /\ t * w \in Nat
      BY <3>1
    <3>. QED BY <2>1, <3>2
  <2>3. ASSUME v = w + 1 PROVE q < r
    <3>1. t * v = t * w + t /\ t * w \in Nat
      BY <2>3
    <3>. QED BY <2>1, <3>1
  <2>. QED BY <2>2, <2>3
<1>4. /\ LR[g] = Whole(f, g) + Unit(f, g) /\ Unit(f, g) \in {0, 1}
      /\ LR[h] = Whole(f, h) + Unit(f, h) /\ Unit(f, h) \in {0, 1}
  BY Apportions, Units
<1>5. Whole(f, g) = Whole(f, h) + 1 /\ Unit(f, g) = 1 => Unit(f, h) = 1
  <2>1. SUFFICES ASSUME Whole(f, g) = Whole(f, h) + 1, Unit(f, g) = 1
                 PROVE  Cardinality(Ahead(f, h)) < Left(f)
    BY Units
  <2>2. h \in DOMAIN f /\ g \in DOMAIN f /\ \A k \in DOMAIN f : Rest(f, k) \in Nat
    BY Quotas
  <2>3. Ahead(f, h) \in SUBSET Ahead(f, g)
    BY <1>3, <2>1, <2>2 DEF Ahead
  <2>4. IsFiniteSet(Ahead(f, g))
    <3>1. Ahead(f, g) \in SUBSET DOMAIN f
      BY DEF Ahead
    <3>. QED BY <3>1, FS_Subset DEF Field
  <2>5. Cardinality(Ahead(f, h)) <= Cardinality(Ahead(f, g))
    BY <2>3, <2>4, FS_Subset
  <2>6. Cardinality(Ahead(f, g)) < Left(f) /\ Left(f) \in Nat
    BY <2>1, Units, LeftIsCovered
  <2>. QED BY <2>5, <2>6, AheadNumbers
<1>. QED BY <1>1, <1>3, <1>4, <1>5

-----------------------------------------------------------------------------
(* The shares that are apportioned. *)

\* Keys are hotkeys, and weights are naturals.
LEMMA Keys ==
  ASSUME TypeOK
  PROVE  /\ Paid \in SUBSET Hotkeys
         /\ DOMAIN ppm \in SUBSET Hotkeys /\ ppm \in [DOMAIN ppm -> 0 .. PpmTotal]
         /\ \A K \in SUBSET Hotkeys : K \in SUBSET Nat /\ IsFiniteSet(K)
<1>1. Paid \in SUBSET Hotkeys
  BY DEF TypeOK, Paid, Eligible
<1>2. DOMAIN ppm \in SUBSET Hotkeys /\ ppm \in [DOMAIN ppm -> 0 .. PpmTotal]
  BY DEF TypeOK, Weights
<1>3. \A K \in SUBSET Hotkeys : K \in SUBSET Nat /\ IsFiniteSet(K)
  BY AllocationAssumption, FS_Subset DEF AllocationAssumption
<1>. QED BY <1>1, <1>2, <1>3

\* A slot of the schedule is positive.
LEMMA SlotIsPositive ==
  ASSUME TypeOK, NEW i
  PROVE  Slot(i) \in Nat \ {0}
<1>. DEFINE J == 1 .. Cardinality(Paid) - 1
            v == [j \in J |-> IF j < i THEN DecayNum ELSE DecayDen]
<1>1. IsFiniteSet(J)
  <2>1. Cardinality(Paid) \in Nat
    BY Keys, FS_CardinalityType
  <2>2. 1 \in Int /\ Cardinality(Paid) - 1 \in Int
    BY <2>1
  <2>. QED BY <2>2, FS_Interval
<1>2. \A j \in J : v[j] \in Nat \ {0}
  BY AllocationAssumption DEF AllocationAssumption
<1>3. Slot(i) = ProductOnSet(v, J)
  <2>1. DOMAIN v = J
    OBVIOUS
  <2>. QED BY <2>1, Zenon DEF Slot, Product, ProductOnSet, FoldFunction
<1>. HIDE DEF J, v
<1>. QED BY <1>1, <1>2, <1>3, ProductOfPositives

\* What is earned is positive, and the same for those who are tied.
LEMMA EarnedShares ==
  ASSUME TypeOK
  PROVE  /\ \A h \in Paid : Earned(h) \in Nat \ {0}
         /\ \A g, h \in Paid : scores[g] = scores[h] => Earned(g) = Earned(h)
<1>. DEFINE n == Cardinality(Paid)
<1>1. IsFiniteSet(Paid) /\ n \in Nat
  BY Keys, FS_CardinalityType
<1>2. \A m \in 1 .. n : m <= TieUnit /\ TieUnit \in Nat \ {0}
  <2>. DEFINE J == 1 .. n
              v == [m \in J |-> m]
  <2>1. IsFiniteSet(J) /\ \A m \in J : v[m] \in Nat \ {0}
    <3>1. 1 \in Int /\ n \in Int
      BY <1>1
    <3>. QED BY <3>1, FS_Interval
  <2>2. TieUnit = ProductOnSet(v, J)
    <3>1. DOMAIN v = J
      OBVIOUS
    <3>. QED BY <3>1, Zenon DEF TieUnit, Product, ProductOnSet, FoldFunction
  <2>3. \A m \in J : v[m] = m
    OBVIOUS
  <2>. HIDE DEF J, v
  <2>4. TieUnit \in Nat \ {0} /\ \A m \in J : v[m] <= TieUnit
    BY <2>1, <2>2, ProductOfPositives
  <2>. QED BY <2>3, <2>4 DEF J
<1>3. ASSUME NEW h \in Paid PROVE Earned(h) \in Nat \ {0}
  <2>. DEFINE slots == [g \in Tied(h) |-> Slot(Rank(g))]
              c == Cardinality(Tied(h))
  <2>1. Tied(h) \in SUBSET Paid /\ h \in Tied(h) /\ IsFiniteSet(Tied(h))
    BY <1>1, FS_Subset DEF Tied
  <2>2. c \in 1 .. n
    <3>1. c \in Nat /\ c <= n
      BY <1>1, <2>1, FS_Subset, FS_CardinalityType
    <3>2. c # 0
      BY <2>1, FS_EmptySet
    <3>. QED BY <1>1, <3>1, <3>2
  <2>3. TieUnit \div c \in Nat /\ 1 <= TieUnit \div c
    <3>1. c <= TieUnit /\ TieUnit \in Nat /\ c \in Nat \ {0}
      BY <1>1, <1>2, <2>2
    <3>2. 1 \in Nat /\ c * 1 = c
      BY <3>1
    <3>. HIDE DEF c
    <3>. QED BY <3>1, <3>2, Quotient, Division
  <2>4. \A g \in Tied(h) : Slot(Rank(g)) \in Nat \ {0}
    BY SlotIsPositive
  <2>5. Total(slots) \in Nat \ {0}
    <3>1. slots \in [Tied(h) -> Nat] /\ slots[h] \in Nat \ {0}
      BY <2>1, <2>4
    <3>. HIDE DEF slots
    <3>2. Total(slots) \in Nat /\ slots[h] <= Total(slots)
      BY <2>1, <3>1, Totals
    <3>. QED BY <3>1, <3>2
  <2>6. Earned(h) = (TieUnit \div c) * Total(slots)
    BY DEF Earned
  <2>7. \A a, b \in Nat \ {0} : a * b \in Nat \ {0}
    OBVIOUS
  <2>. HIDE DEF c, slots
  <2>8. TieUnit \div c \in Nat \ {0}
    BY <2>3
  <2>. QED BY <2>5, <2>6, <2>7, <2>8
<1>4. ASSUME NEW g \in Paid, NEW h \in Paid, scores[g] = scores[h] PROVE Earned(g) = Earned(h)
  <2>1. Tied(g) = Tied(h)
    BY <1>4 DEF Tied
  <2>. QED BY <2>1 DEF Earned
<1>. QED BY <1>3, <1>4

\* So they can be apportioned.
LEMMA EarnedIsField ==
  ASSUME TypeOK, Paid # {}
  PROVE  Field([h \in Paid |-> Earned(h)])
<1>. DEFINE f == [h \in Paid |-> Earned(h)]
<1>1. PICK h \in Paid : TRUE
  OBVIOUS
<1>2. DOMAIN f = Paid /\ f \in [Paid -> Nat] /\ f[h] \in Nat \ {0}
  BY EarnedShares
<1>3. Paid \in SUBSET Nat /\ IsFiniteSet(Paid)
  BY Keys
<1>. HIDE DEF f
<1>4. f[h] <= Total(f) /\ Total(f) \in Nat
  BY <1>2, <1>3, Totals
<1>5. Total(f) > 0
  BY <1>2, <1>4
<1>6. Field(f)
  BY <1>2, <1>3, <1>5 DEF Field
<1>. QED BY <1>6 DEF f

\* A share of a whole of weights: the diluted weights add up to the whole again.
LEMMA DilutedIsField ==
  ASSUME TypeOK, DOMAIN ppm # {}, Total(ppm) = PpmTotal, share > 0, share < ShareUnit,
         NEW f, f = [h \in DOMAIN ppm \cup {reserved} |-> Diluted(h)]
  PROVE  Field(f) /\ Total(f) = PpmTotal * ShareUnit
<1>. DEFINE D == DOMAIN ppm \cup {reserved}
            P == DOMAIN ppm
            kept == [h \in D |-> IF h \in P THEN ppm[h] ELSE 0]
            given_ == [h \in D |-> IF h = reserved THEN share * PpmTotal ELSE 0]
            keep == ShareUnit - share
<1>1. /\ PpmTotal \in Nat \ {0} /\ share \in Nat /\ ShareUnit \in Nat \ {0} /\ keep \in Nat
      /\ share * PpmTotal \in Nat
  <2>1. PpmTotal \in Nat \ {0} /\ share \in Nat /\ ShareUnit \in Nat \ {0} /\ share <= ShareUnit
    BY AllocationAssumption DEF AllocationAssumption, TypeOK
  <2>. QED BY <2>1
<1>2. /\ D \in SUBSET Nat /\ IsFiniteSet(D) /\ P \in SUBSET D /\ IsFiniteSet(P)
      /\ D \in SUBSET Hotkeys /\ reserved \in D
      /\ \A h \in P : ppm[h] \in Nat
      /\ ppm \in [P -> Nat]
  <2>1. reserved \in Hotkeys
    BY DEF TypeOK
  <2>2. D \in SUBSET Hotkeys /\ P \in SUBSET Hotkeys
    BY <2>1, Keys
  <2>3. \A h \in P : ppm[h] \in Nat
    BY Keys
  <2>. QED BY <2>2, <2>3, Keys
<1>3. \A h \in D : kept[h] \in Nat /\ given_[h] \in Nat /\ f[h] = keep * kept[h] + given_[h]
  <2>1. ASSUME NEW h \in D PROVE kept[h] \in Nat /\ given_[h] \in Nat /\ f[h] = keep * kept[h] + given_[h]
    <3>1. kept[h] \in Nat /\ given_[h] \in Nat
      BY <1>1, <1>2
    <3>2. f[h] = Diluted(h)
      OBVIOUS
    <3>3. keep * 0 = 0
      BY <1>1
    <3>4. (IF h \in P THEN ppm[h] * keep ELSE 0) = keep * kept[h]
      <4>1. \A a, b \in Nat : a * b = b * a
        OBVIOUS
      <4>2. CASE h \in P
        BY <1>1, <1>2, <4>1, <4>2
      <4>3. CASE h \notin P
        BY <3>3, <4>3
      <4>. QED BY <4>2, <4>3
    <3>5. given_[h] = IF h = reserved THEN share * PpmTotal ELSE 0
      OBVIOUS
    <3>. QED BY <3>1, <3>2, <3>4, <3>5 DEF Diluted
  <2>. QED BY <2>1
<1>4. SumFunctionOnSet(kept, D) = PpmTotal
  <2>1. \A h \in P : kept[h] = ppm[h] /\ ppm[h] \in Nat
    BY <1>2
  <2>2. reserved \notin P => kept[reserved] = 0
    OBVIOUS
  <2>. HIDE DEF kept
  <2>3. SumFunctionOnSet(kept, P) = SumFunctionOnSet(ppm, P)
    <3>. HIDE DEF P
    <3>. QED BY <1>2, <2>1, SumIsOfTerms
  <2>4. SumFunctionOnSet(ppm, P) = PpmTotal
    BY <1>2, Totals
  <2>5. CASE reserved \in P
    <3>1. D = P
      BY <2>5
    <3>. QED BY <2>3, <2>4, <3>1
  <2>6. CASE reserved \notin P
    <3>1. D \ {reserved} = P
      BY <2>6
    <3>2. SumFunctionOnSet(kept, D) = kept[reserved] + SumFunctionOnSet(kept, D \ {reserved})
      <4>. HIDE DEF D
      <4>. QED BY <1>2, <1>3, SumTakes
    <3>. QED BY <1>1, <2>2, <2>3, <2>4, <2>6, <3>1, <3>2
  <2>. QED BY <2>5, <2>6
<1>5. SumFunctionOnSet(given_, D) = share * PpmTotal
  <2>. DEFINE R == D \ {reserved}
  <2>1. \A h \in R : given_[h] = 0
    OBVIOUS
  <2>2. given_[reserved] = share * PpmTotal
    OBVIOUS
  <2>3. IsFiniteSet(R) /\ 0 \in Nat
    <3>. HIDE DEF D
    <3>. QED BY <1>2, FS_Subset
  <2>. HIDE DEF given_
  <2>4. SumFunctionOnSet(given_, R) = 0 * Cardinality(R)
    <3>. HIDE DEF R
    <3>. QED BY <2>1, <2>3, SumOfEqual
  <2>5. 0 * Cardinality(R) = 0
    BY <2>3, FS_CardinalityType
  <2>6. SumFunctionOnSet(given_, D) = given_[reserved] + SumFunctionOnSet(given_, R)
    <3>. HIDE DEF D
    <3>. QED BY <1>2, <1>3, SumTakes
  <2>. HIDE DEF R, D
  <2>. QED BY <1>1, <2>2, <2>4, <2>5, <2>6
<1>. HIDE DEF kept, given_
<1>6. SumFunctionOnSet(f, D) = keep * SumFunctionOnSet(kept, D) + SumFunctionOnSet(given_, D)
  <2>. HIDE DEF D, keep
  <2>1. ASSUME NEW u, \A h \in D : u[h] = keep * kept[h] + given_[h]
        PROVE  SumFunctionOnSet(u, D) = keep * SumFunctionOnSet(kept, D) + SumFunctionOnSet(given_, D)
    <3>1. keep \in Nat /\ IsFiniteSet(D)
      BY <1>1, <1>2
    <3>2. (\A h \in D : kept[h] \in Nat) /\ (\A h \in D : given_[h] \in Nat)
      BY <1>3
    <3>. QED BY <2>1, <3>1, <3>2, SumAdds, Zenon
  <2>. QED BY <1>3, <2>1, Zenon
<1>7. SumFunctionOnSet(f, D) = PpmTotal * ShareUnit
  <2>1. \A u, s, p \in Nat : s < u => (u - s) * p + s * p = p * u
    OBVIOUS
  <2>2. keep * PpmTotal + share * PpmTotal = PpmTotal * ShareUnit
    BY <1>1, <2>1
  <2>. QED BY <1>4, <1>5, <1>6, <2>2
<1>8. f \in [D -> Nat] /\ DOMAIN f = D
  <2>1. \A a, b, c \in Nat : a * b + c \in Nat
    OBVIOUS
  <2>2. ASSUME NEW h \in D PROVE f[h] \in Nat
    <3>1. keep \in Nat
      BY <1>1
    <3>2. kept[h] \in Nat /\ given_[h] \in Nat /\ f[h] = keep * kept[h] + given_[h]
      BY <1>3
    <3>. HIDE DEF D, keep
    <3>3. keep * kept[h] + given_[h] \in Nat
      BY <2>1, <3>1, <3>2, Zenon
    <3>. QED BY <3>2, <3>3, Zenon
  <2>. QED BY <2>2
<1>9. Total(f) = PpmTotal * ShareUnit
  <2>. HIDE DEF D
  <2>. QED BY <1>2, <1>7, <1>8, Totals
<1>10. PpmTotal * ShareUnit > 0
  <2>1. \A a, b \in Nat \ {0} : a * b > 0
    OBVIOUS
  <2>. QED BY <1>1, <2>1
<1>. QED BY <1>2, <1>8, <1>9, <1>10 DEF Field

-----------------------------------------------------------------------------
(* The inductive invariant. *)

\* Who has a weight at each stage.
Receivers ==
  IF stage = "scored" THEN {}
  ELSE IF stage = "earned" \/ share = 0 THEN Paid
  ELSE IF share = ShareUnit \/ Paid = {} THEN {reserved}
  ELSE Paid \cup {reserved}

KeysAreReceivers == DOMAIN ppm = Receivers

\* The reserved share is in the weights before they are placed, ...
ShareIsIn ==
  stage \notin {"scored", "earned"} /\ share > 0 =>
    ppm[reserved] >= (share * PpmTotal) \div ShareUnit

\* ... and it is not in them twice.
RestIsIn ==
  stage \notin {"scored", "earned"} /\ share > 0 /\ Paid # {} /\ reserved \notin Paid =>
    PpmTotal - ppm[reserved] >= ((ShareUnit - share) * PpmTotal) \div ShareUnit

IInv ==
  /\ TypeOK
  /\ KeysAreReceivers
  /\ NothingIsLost
  /\ TiesShareAlike
  /\ ShareIsIn /\ RestIsIn
  /\ ShareIsWithheld /\ FieldKeepsTheRest

-----------------------------------------------------------------------------
(* Arithmetic of the share. *)

\* A weight of s parts of u or more, apportioned among p * u, is s parts of p or more.
LEMMA ShareGoesIn ==
  ASSUME NEW p \in Nat \ {0}, NEW u \in Nat \ {0}, NEW s \in Nat, NEW w \in Nat, s * p <= w
  PROVE  (s * p) \div u <= (w * p) \div (p * u)
<1>. DEFINE q == (s * p) \div u
<1>1. q \in Nat /\ u * q <= s * p
  <2>1. s * p \in Nat
    OBVIOUS
  <2>2. q \in Nat /\ (s * p) % u \in Nat /\ s * p = u * q + ((s * p) % u) /\ u * q \in Nat
    BY <2>1, Division
  <2>. QED BY <2>2
<1>. HIDE DEF q
<1>2. u * q <= w
  <2>1. u * q \in Nat /\ s * p \in Nat
    BY <1>1
  <2>. QED BY <1>1, <2>1
<1>3. p * (u * q) <= p * w
  <2>1. u * q \in Nat
    BY <1>1
  <2>. QED BY <1>2, <2>1, Cancels
<1>4. (p * u) * q = p * (u * q) /\ w * p = p * w /\ p * u \in Nat \ {0} /\ w * p \in Nat
  <2>1. \A a, b \in Nat \ {0} : a * b \in Nat \ {0}
    OBVIOUS
  <2>2. \A a, b, c \in Nat : (a * b) * c = a * (b * c) /\ a * b = b * a /\ a * b \in Nat
    OBVIOUS
  <2>. QED BY <1>1, <2>1, <2>2
<1>5. q <= (w * p) \div (p * u)
  <2>1. (p * u) * q <= w * p
    BY <1>3, <1>4
  <2>. QED BY <1>1, <1>4, <2>1, Quotient
<1>. QED BY <1>5 DEF q

\* What s parts of u leave of p, when they are rounded to w, or to one more if they are not
\* whole.
LEMMA RestStays ==
  ASSUME NEW p \in Nat \ {0}, NEW u \in Nat \ {0}, NEW s \in Nat, s <= u,
         NEW w \in Nat, NEW e \in Nat, NEW v \in Nat,
         p * (s * p) = (p * u) * w + e, v <= w + 1, e = 0 => v = w
  PROVE  ((u - s) * p) \div u <= p - v
<1>1. /\ s * p \in Nat /\ u * w \in Nat /\ u * p \in Nat /\ s * p <= u * p
      /\ (u - s) * p = u * p - s * p /\ (u - s) * p \in Nat
      /\ (p * u) * w = p * (u * w) /\ p * (u * w) \in Nat
  <2>1. \A a, b, c \in Nat : (a * b) * c = a * (b * c) /\ a * b = b * a /\ a * b \in Nat
    OBVIOUS
  <2>2. u - s \in Nat /\ u * p = s * p + (u - s) * p
    <3>1. u - s \in Nat
      OBVIOUS
    <3>2. \A a, b, c \in Nat : (a + b) * c = a * c + b * c
      OBVIOUS
    <3>3. s + (u - s) = u
      OBVIOUS
    <3>. QED BY <3>1, <3>2, <3>3
  <2>3. (u - s) * p \in Nat /\ s * p \in Nat /\ u * p \in Nat
    BY <2>1, <2>2
  <2>. QED BY <2>1, <2>2, <2>3
<1>2. u * w <= s * p /\ (e # 0 => u * w < s * p) /\ (e = 0 => u * w = s * p)
  <2>1. p * (s * p) = p * (u * w) + e
    BY <1>1
  <2>2. p * (u * w) <= p * (s * p)
    BY <1>1, <2>1
  <2>3. u * w <= s * p
    BY <1>1, <2>2, Cancels
  <2>4. ASSUME e # 0, s * p <= u * w PROVE FALSE
    <3>1. p * (s * p) <= p * (u * w)
      BY <1>1, <2>4, Cancels
    <3>. QED BY <1>1, <2>1, <2>4, <3>1
  <2>5. ASSUME e = 0 PROVE s * p <= u * w
    <3>1. p * (s * p) <= p * (u * w)
      BY <1>1, <2>1, <2>5
    <3>. QED BY <1>1, <3>1, Cancels
  <2>. QED BY <1>1, <2>3, <2>4, <2>5
<1>3. w <= p
  <2>1. u * w <= u * p
    BY <1>1, <1>2
  <2>. QED BY <2>1, Cancels
<1>4. \A q \in Nat : (u - s) * p < u * q + u => ((u - s) * p) \div u <= q
  BY <1>1, Quotient
<1>5. ASSUME NEW q \in Nat, q <= p, w = p - q PROVE (u - s) * p <= u * q /\ (e # 0 => (u - s) * p < u * q)
  <2>1. u * p = u * w + u * q /\ u * q \in Nat
    <3>1. \A a, b, c \in Nat : a * (b + c) = a * b + a * c /\ a * b \in Nat
      OBVIOUS
    <3>2. w + q = p
      BY <1>5
    <3>. QED BY <3>1, <3>2
  <2>. QED BY <1>1, <1>2, <2>1
<1>6. CASE e = 0
  <2>1. p - w \in Nat /\ p - w <= p /\ w = p - (p - w)
    BY <1>3
  <2>2. (u - s) * p <= u * (p - w)
    BY <1>5, <2>1
  <2>3. (u - s) * p < u * (p - w) + u
    <3>1. u * (p - w) \in Nat
      BY <2>1
    <3>. QED BY <1>1, <2>2, <3>1
  <2>4. ((u - s) * p) \div u <= p - w
    BY <1>4, <2>1, <2>3
  <2>. QED BY <1>6, <2>4
<1>7. CASE e # 0
  <2>1. w # p
    <3>1. w = p => u * p <= s * p /\ u * w = u * p
      BY <1>1, <1>2
    <3>. QED BY <1>1, <1>2, <1>7, <3>1
  <2>2. /\ p - w - 1 \in Nat /\ p - w \in Nat /\ p - w <= p /\ w = p - (p - w)
        /\ (p - w - 1) + 1 = p - w
    BY <1>3, <2>1
  <2>3. (u - s) * p < u * (p - w)
    BY <1>5, <1>7, <2>2
  <2>4. u * (p - w) = u * (p - w - 1) + u
    <3>1. \A a, b \in Nat : a * (b + 1) = a * b + a
      OBVIOUS
    <3>. QED BY <2>2, <3>1
  <2>5. ((u - s) * p) \div u <= p - w - 1
    BY <1>4, <2>2, <2>3, <2>4
  <2>6. ((u - s) * p) \div u \in Nat
    BY <1>1, Division
  <2>. QED BY <2>2, <2>5, <2>6
<1>. QED BY <1>6, <1>7

-----------------------------------------------------------------------------
(* The steps. *)

\* What a step leaves of the round's results.
LEMMA GivenStays ==
  ASSUME UNCHANGED given
  PROVE  /\ scores' = scores /\ reserved' = reserved /\ share' = share
         /\ registered' = registered
         /\ Paid' = Paid
<1>1. scores' = scores /\ reserved' = reserved /\ share' = share /\ registered' = registered
  BY DEF given
<1>. QED BY <1>1 DEF Paid, Rank, Eligible

\* No weights are the empty function.
LEMMA NoWeights ==
  ASSUME TypeOK
  PROVE  ppm = Empty <=> DOMAIN ppm = {}
BY Keys DEF Empty

\* Weights of hotkeys have the type of weights.
LEMMA WeightsAre ==
  ASSUME NEW K \in SUBSET Hotkeys, NEW w \in [K -> 0 .. PpmTotal]
  PROVE  w \in Weights
BY DEF Weights

LEMMA InvariantHoldsAtFirst == Init => IInv
<1>. SUFFICES ASSUME Init PROVE IInv
  OBVIOUS
<1>1. DOMAIN Empty = {} /\ Empty \in Weights
  <2>1. Empty \in [{} -> 0 .. PpmTotal] /\ {} \in SUBSET Hotkeys
    BY DEF Empty
  <2>. QED BY <2>1, WeightsAre DEF Empty
<1>2. TypeOK
  BY <1>1 DEF Init, TypeOK
<1>. QED BY <1>1, <1>2 DEF Init, IInv, KeysAreReceivers, Receivers, NothingIsLost, TiesShareAlike,
                          ShareIsIn, RestIsIn, ShareIsWithheld, FieldKeepsTheRest

\* The shares earned add up to the whole, and those who are tied are a unit apart.
LEMMA AllocateKeeps ==
  ASSUME IInv, Allocate
  PROVE  IInv'
<1>1. /\ stage = "scored" /\ stage' = "earned" /\ vector' = vector
      /\ ppm' = IF Paid = {} THEN Empty ELSE LargestRemainder([h \in Paid |-> Earned(h)])
      /\ UNCHANGED given
  BY DEF Allocate, Allocated
<1>2. TypeOK /\ Paid' = Paid /\ scores' = scores /\ reserved' = reserved
      /\ share' = share /\ registered' = registered
  BY <1>1, GivenStays DEF IInv
<1>. DEFINE f == [h \in Paid |-> Earned(h)]
<1>3. CASE Paid = {}
  <2>1. ppm' = Empty /\ DOMAIN Empty = {} /\ Empty \in Weights
    <3>1. Empty \in [{} -> 0 .. PpmTotal] /\ {} \in SUBSET Hotkeys
      BY DEF Empty
    <3>. QED BY <1>1, <1>3, <3>1, WeightsAre DEF Empty
  <2>2. TypeOK'
    BY <1>1, <1>2, <2>1 DEF TypeOK
  <2>. QED BY <1>1, <1>2, <1>3, <2>1, <2>2
           DEF IInv, KeysAreReceivers, Receivers, NothingIsLost, TiesShareAlike,
               ShareIsIn, RestIsIn, ShareIsWithheld, FieldKeepsTheRest
<1>4. CASE Paid # {}
  <2>1. Field(f) /\ DOMAIN f = Paid
    BY <1>2, <1>4, EarnedIsField
  <2>2. ppm' = LargestRemainder(f)
    BY <1>1, <1>4
  <2>3. ppm' \in [Paid -> 0 .. PpmTotal] /\ Total(ppm') = PpmTotal
    <3>. HIDE DEF f
    <3>. QED BY <2>1, <2>2, Apportioned
  <2>4. ppm' \in Weights /\ DOMAIN ppm' = Paid
    BY <1>2, <2>3, Keys, WeightsAre
  <2>5. ASSUME NEW g \in Paid, NEW h \in Paid, scores[g] = scores[h]
        PROVE  ppm'[g] <= ppm'[h] + 1
    <3>1. f[g] = f[h] /\ f[g] \in Nat
      BY <1>2, <2>5, EarnedShares
    <3>2. 0 \in Nat /\ f[g] <= f[h] + 0 /\ PpmTotal * 0 < Total(f)
      BY <2>1, <3>1, Quotas, AllocationAssumption DEF AllocationAssumption
    <3>. HIDE DEF f
    <3>. QED BY <2>1, <2>2, <3>2, CloseSharesStayClose
  <2>6. TypeOK'
    BY <1>1, <1>2, <2>4 DEF TypeOK
  <2>7. NothingIsLost'
    <3>1. Total(ppm)' = PpmTotal
      BY <2>3 DEF Total
    <3>. QED BY <1>1, <3>1 DEF NothingIsLost
  <2>8. TiesShareAlike'
    BY <1>2, <2>4, <2>5 DEF TiesShareAlike
  <2>. QED BY <1>1, <1>2, <2>4, <2>6, <2>7, <2>8
           DEF IInv, KeysAreReceivers, Receivers, ShareIsIn, RestIsIn, ShareIsWithheld, FieldKeepsTheRest
<1>. QED BY <1>3, <1>4

\* The withheld share goes in whole, once, and leaves ties a unit apart.
LEMMA ReservedKeeps ==
  ASSUME IInv, ApplyReservedShare
  PROVE  IInv'
<1>1. /\ stage = "earned" /\ stage' = "reserved" /\ vector' = vector
      /\ ppm' = IF share = 0 THEN ppm
                ELSE IF share = ShareUnit \/ ppm = Empty THEN [h \in {reserved} |-> PpmTotal]
                ELSE LargestRemainder([h \in DOMAIN ppm \cup {reserved} |-> Diluted(h)])
      /\ UNCHANGED given
  BY DEF ApplyReservedShare
<1>2. TypeOK /\ Paid' = Paid /\ scores' = scores /\ reserved' = reserved
      /\ share' = share /\ registered' = registered
  BY <1>1, GivenStays DEF IInv
<1>3. /\ PpmTotal \in Nat \ {0} /\ ShareUnit \in Nat \ {0}
      /\ share \in Nat /\ share <= ShareUnit
  BY <1>2, AllocationAssumption DEF AllocationAssumption, TypeOK
<1>4. DOMAIN ppm = Paid /\ (ppm = Empty <=> Paid = {})
  BY <1>1, <1>2, NoWeights DEF IInv, KeysAreReceivers, Receivers
<1>5. /\ Paid \in SUBSET Hotkeys /\ reserved \in Hotkeys
      /\ \A h \in Paid : ppm[h] \in 0 .. PpmTotal
  BY <1>2, <1>4, Keys DEF TypeOK
<1>6. SUFFICES /\ ppm' \in Weights
               /\ DOMAIN ppm' = Receivers'
               /\ ppm' # Empty => Total(ppm') = PpmTotal
               /\ TiesShareAlike'
               /\ ShareIsIn' /\ RestIsIn'
  <2>1. TypeOK'
    BY <1>1, <1>2, <1>6 DEF TypeOK
  <2>2. NothingIsLost'
    BY <1>1, <1>6 DEF NothingIsLost, Total, Empty
  <2>. QED BY <1>1, <1>6, <2>1, <2>2 DEF IInv, KeysAreReceivers, ShareIsWithheld, FieldKeepsTheRest
<1>7. CASE share = 0
  <2>1. ppm' = ppm
    BY <1>1, <1>7
  <2>2. ppm' \in Weights /\ DOMAIN ppm' = Receivers'
    BY <1>1, <1>2, <1>4, <1>7, <2>1 DEF TypeOK, Receivers
  <2>3. ppm' # Empty => Total(ppm') = PpmTotal
    BY <2>1 DEF IInv, NothingIsLost, Empty
  <2>4. TiesShareAlike' /\ ShareIsIn' /\ RestIsIn'
    BY <1>1, <1>2, <1>7, <2>1 DEF IInv, TiesShareAlike, ShareIsIn, RestIsIn
  <2>. QED BY <2>2, <2>3, <2>4
<1>8. CASE share # 0 /\ (share = ShareUnit \/ Paid = {})
  <2>1. ppm' = [h \in {reserved} |-> PpmTotal]
    BY <1>1, <1>4, <1>8
  <2>2. ppm' \in [{reserved} -> 0 .. PpmTotal] /\ {reserved} \in SUBSET Hotkeys
        /\ DOMAIN ppm' = {reserved} /\ ppm'[reserved] = PpmTotal
    BY <1>3, <1>5, <2>1
  <2>3. ppm' \in Weights /\ DOMAIN ppm' = Receivers'
    BY <1>1, <1>2, <1>8, <2>2, WeightsAre DEF Receivers
  <2>4. Total(ppm') = PpmTotal
    <3>1. IsFiniteSet({reserved}) /\ Cardinality({reserved}) = 1
      BY FS_Singleton
    <3>2. \A h \in {reserved} : ppm'[h] = PpmTotal
      BY <2>2
    <3>3. SumFunctionOnSet(ppm', {reserved}) = PpmTotal * Cardinality({reserved})
      BY <1>3, <3>1, <3>2, SumOfEqual
    <3>4. PpmTotal * 1 = PpmTotal
      BY <1>3
    <3>. QED BY <2>2, <3>1, <3>3, <3>4, Zenon DEF Total, SumFunction
  <2>5. TiesShareAlike'
    BY <1>2, <2>2 DEF TiesShareAlike
  <2>6. (share * PpmTotal) \div ShareUnit <= PpmTotal
    <3>1. ShareUnit * PpmTotal = share * PpmTotal + (ShareUnit - share) * PpmTotal
      <4>1. \A u, s, p \in Nat : s <= u => u * p = s * p + (u - s) * p
        OBVIOUS
      <4>. QED BY <1>3, <4>1
    <3>2. (ShareUnit - share) * PpmTotal \in Nat /\ share * PpmTotal \in Nat
      <4>1. ShareUnit - share \in Nat
        BY <1>3
      <4>2. \A a, b \in Nat : a * b \in Nat
        OBVIOUS
      <4>. QED BY <1>3, <4>1, <4>2
    <3>3. share * PpmTotal < ShareUnit * PpmTotal + ShareUnit
      BY <1>3, <3>1, <3>2
    <3>. QED BY <1>3, <3>2, <3>3, Quotient
  <2>7. ShareIsIn'
    BY <1>2, <1>3, <2>2, <2>6 DEF ShareIsIn
  <2>8. RestIsIn'
    <3>1. SUFFICES ASSUME Paid # {}
                   PROVE  PpmTotal - PpmTotal >= ((ShareUnit - share) * PpmTotal) \div ShareUnit
      BY <1>2, <2>2 DEF RestIsIn
    <3>2. (ShareUnit - share) * PpmTotal = 0
      BY <1>3, <1>8, <3>1
    <3>3. 0 \div ShareUnit <= 0
      <4>1. 0 \in Nat /\ 0 < ShareUnit * 0 + ShareUnit
        BY <1>3
      <4>. QED BY <1>3, <4>1, Quotient
    <3>. QED BY <1>3, <3>2, <3>3
  <2>. QED BY <2>3, <2>4, <2>5, <2>7, <2>8
<1>9. CASE share # 0 /\ share # ShareUnit /\ Paid # {}
  <2>. DEFINE f == [h \in DOMAIN ppm \cup {reserved} |-> Diluted(h)]
              D == Paid \cup {reserved}
  <2>1. /\ ppm' = LargestRemainder(f) /\ DOMAIN f = D
        /\ \A h \in D : f[h] = Diluted(h)
    BY <1>1, <1>4, <1>9
  <2>2. Field(f) /\ Total(f) = PpmTotal * ShareUnit
    <3>1. Total(ppm) = PpmTotal
      BY <1>4, <1>9 DEF IInv, NothingIsLost
    <3>. QED BY <1>2, <1>3, <1>4, <1>9, <3>1, DilutedIsField
  <2>. HIDE DEF f
  <2>3. /\ ppm' \in [D -> 0 .. PpmTotal] /\ Total(ppm') = PpmTotal
        /\ Whole(f, reserved) <= ppm'[reserved]
        /\ ppm'[reserved] <= Whole(f, reserved) + 1
        /\ Rest(f, reserved) = 0 => ppm'[reserved] = Whole(f, reserved)
    BY <2>1, <2>2, Apportioned
  <2>4. ppm' \in Weights /\ DOMAIN ppm' = Receivers'
    <3>1. D \in SUBSET Hotkeys
      BY <1>5
    <3>. QED BY <1>1, <1>2, <1>9, <2>3, <3>1, WeightsAre DEF Receivers
  <2>5. ASSUME NEW g \in Paid \ {reserved}, NEW h \in Paid \ {reserved}, scores[g] = scores[h]
        PROVE  ppm'[g] <= ppm'[h] + 1
    <3>. DEFINE d == ShareUnit - share
    <3>1. ppm[g] <= ppm[h] + 1 /\ ppm[g] \in Nat /\ ppm[h] \in Nat
      BY <1>3, <1>4, <1>5, <2>5 DEF IInv, TiesShareAlike
    <3>2. f[g] = ppm[g] * d + 0 /\ f[h] = ppm[h] * d + 0
      BY <1>4, <2>1 DEF Diluted
    <3>3. d \in Nat /\ d < ShareUnit
      BY <1>3, <1>9
    <3>. HIDE DEF d
    <3>4. f[g] <= f[h] + d
      <4>1. \A a, b, c \in Nat : a <= b + 1 => a * c + 0 <= b * c + 0 + c
        <5>1. SUFFICES ASSUME NEW a \in Nat, NEW b \in Nat, NEW c \in Nat, a <= b + 1
                       PROVE  a * c + 0 <= b * c + 0 + c
          OBVIOUS
        <5>2. b + 1 - a \in Nat
          BY <5>1
        <5>3. b * c + c = a * c + (b + 1 - a) * c /\ (b + 1 - a) * c \in Nat /\ a * c \in Nat
              /\ b * c \in Nat
          BY <5>2
        <5>. QED BY <5>3
      <4>. QED BY <3>1, <3>2, <3>3, <4>1
    <3>5. PpmTotal * d < Total(f)
      <4>1. ~(PpmTotal * ShareUnit <= PpmTotal * d)
        BY <1>3, <3>3, Cancels
      <4>2. PpmTotal * ShareUnit \in Nat /\ PpmTotal * d \in Nat
        BY <1>3, <3>3
      <4>. QED BY <2>2, <4>1, <4>2
    <3>6. g \in DOMAIN f /\ h \in DOMAIN f
      BY <2>1
    <3>. QED BY <2>1, <2>2, <3>3, <3>4, <3>5, <3>6, CloseSharesStayClose
  <2>6. TiesShareAlike'
    BY <1>2, <2>3, <2>5 DEF TiesShareAlike
  <2>7. /\ f[reserved] \in Nat /\ share * PpmTotal <= f[reserved]
        /\ reserved \notin Paid => f[reserved] = share * PpmTotal
    <3>1. f[reserved] = (IF reserved \in Paid THEN ppm[reserved] * (ShareUnit - share) ELSE 0)
                          + share * PpmTotal
      BY <1>4, <2>1 DEF Diluted
    <3>2. share * PpmTotal \in Nat /\ ShareUnit - share \in Nat
      BY <1>3
    <3>3. reserved \in Paid => ppm[reserved] * (ShareUnit - share) \in Nat
      <4>1. \A a, b \in Nat : a * b \in Nat
        OBVIOUS
      <4>. QED BY <1>3, <1>5, <3>2, <4>1
    <3>4. CASE reserved \in Paid
      BY <3>1, <3>2, <3>3, <3>4
    <3>5. CASE reserved \notin Paid
      BY <3>1, <3>2, <3>5
    <3>. QED BY <3>4, <3>5
  <2>8. ShareIsIn'
    <3>1. (share * PpmTotal) \div ShareUnit <= (f[reserved] * PpmTotal) \div (PpmTotal * ShareUnit)
      BY <1>3, <2>7, ShareGoesIn
    <3>2. Whole(f, reserved) = (f[reserved] * PpmTotal) \div (PpmTotal * ShareUnit)
      BY <2>2 DEF Whole
    <3>3. (share * PpmTotal) \div ShareUnit \in Nat /\ Whole(f, reserved) \in Nat
          /\ ppm'[reserved] \in Nat
      <4>1. share * PpmTotal \in Nat
        BY <1>3
      <4>2. Whole(f, reserved) \in Nat
        BY <2>1, <2>2, Quotas
      <4>3. ppm'[reserved] \in Nat
        BY <1>3, <2>3
      <4>. QED BY <1>3, <4>1, <4>2, <4>3, Division
    <3>4. (share * PpmTotal) \div ShareUnit <= ppm'[reserved]
      BY <2>3, <3>1, <3>2, <3>3
    <3>. QED BY <1>2, <3>3, <3>4 DEF ShareIsIn
  <2>9. RestIsIn'
    <3>1. SUFFICES ASSUME reserved \notin Paid
                   PROVE  ((ShareUnit - share) * PpmTotal) \div ShareUnit <= PpmTotal - ppm'[reserved]
      <4>1. \A a, b \in Int : a <= b => b >= a
        OBVIOUS
      <4>2. ppm'[reserved] \in Nat /\ (ShareUnit - share) * PpmTotal \in Nat
        BY <1>3, <2>3
      <4>3. ((ShareUnit - share) * PpmTotal) \div ShareUnit \in Int /\ PpmTotal - ppm'[reserved] \in Int
        BY <1>3, <4>2, Division
      <4>. QED BY <1>2, <4>1, <4>3 DEF RestIsIn
    <3>2. /\ PpmTotal * f[reserved] = Total(f) * Whole(f, reserved) + Rest(f, reserved)
          /\ Whole(f, reserved) \in Nat /\ Rest(f, reserved) \in Nat
      BY <2>1, <2>2, Quotas
    <3>3. PpmTotal * (share * PpmTotal)
            = (PpmTotal * ShareUnit) * Whole(f, reserved) + Rest(f, reserved)
      BY <2>2, <2>7, <3>1, <3>2
    <3>4. ppm'[reserved] \in Nat
      BY <1>3, <2>3
    <3>. QED BY <1>3, <2>3, <3>2, <3>3, <3>4, RestStays
  <2>. QED BY <2>3, <2>4, <2>6, <2>8, <2>9
<1>. QED BY <1>7, <1>8, <1>9

\* Placing the weights of those who are registered loses no unit of the whole, no weight
\* falls, and none moves when they all are.
LEMMA PublishKeeps ==
  ASSUME IInv, Publish
  PROVE  IInv'
<1>1. /\ stage = "reserved" /\ stage' = "published" /\ ppm' = ppm
      /\ vector' = LargestRemainder(Placed)
      /\ ppm # Empty /\ (share > 0 => reserved \in registered)
      /\ DOMAIN Placed # {} /\ Total(Placed) # 0
      /\ UNCHANGED given
  BY DEF Publish, Holds, Unplaceable, Rescaled
<1>2. TypeOK /\ Paid' = Paid /\ scores' = scores /\ reserved' = reserved
      /\ share' = share /\ registered' = registered
  BY <1>1, GivenStays DEF IInv
<1>3. /\ PpmTotal \in Nat \ {0} /\ ShareUnit \in Nat \ {0}
      /\ share \in Nat /\ share <= ShareUnit
  BY <1>2, AllocationAssumption DEF AllocationAssumption, TypeOK
<1>. DEFINE P == DOMAIN ppm
            K == P \cap registered
            f == Placed
<1>4. /\ P \in SUBSET Hotkeys /\ IsFiniteSet(P) /\ P \in SUBSET Nat
      /\ K \in SUBSET Hotkeys /\ IsFiniteSet(K) /\ K \in SUBSET Nat /\ K \in SUBSET P
      /\ ppm \in [P -> 0 .. PpmTotal] /\ ppm \in [P -> Nat]
  <2>1. P \in SUBSET Hotkeys /\ K \in SUBSET Hotkeys /\ K \in SUBSET P /\ ppm \in [P -> 0 .. PpmTotal]
    BY <1>2, Keys
  <2>2. ppm \in [P -> Nat]
    BY <1>3, <2>1
  <2>. QED BY <1>2, <2>1, <2>2, Keys
<1>5. f \in [K -> Nat] /\ DOMAIN f = K /\ \A h \in K : f[h] = ppm[h]
  BY <1>4 DEF Placed
<1>6. Total(ppm) = PpmTotal
  BY <1>1 DEF IInv, NothingIsLost
<1>. HIDE DEF f
<1>7. /\ Total(f) \in Nat \ {0} /\ Total(f) <= PpmTotal
      /\ K = P => Total(f) = PpmTotal
  <2>1. Total(f) = SumFunctionOnSet(f, K) /\ Total(f) \in Nat
    <3>. HIDE DEF K
    <3>. QED BY <1>4, <1>5, Totals
  <2>2. Total(ppm) = SumFunctionOnSet(ppm, P)
    <3>. HIDE DEF P
    <3>. QED BY <1>4, Totals
  <2>3. \A h \in P : ppm[h] \in Nat
    BY <1>4
  <2>4. SumFunctionOnSet(f, K) = SumFunctionOnSet(ppm, K)
    <3>1. \A h \in K : ppm[h] \in Nat /\ f[h] = ppm[h]
      BY <1>5, <2>3
    <3>. HIDE DEF K
    <3>. QED BY <1>4, <3>1, SumIsOfTerms
  <2>5. SumFunctionOnSet(ppm, K) <= SumFunctionOnSet(ppm, P)
    <3>. HIDE DEF K, P
    <3>. QED BY <1>4, <2>3, SumOfPart
  <2>6. Total(f) # 0
    BY <1>1 DEF f
  <2>. HIDE DEF K, P
  <2>. QED BY <1>6, <2>1, <2>2, <2>4, <2>5, <2>6
<1>8. Field(f)
  <2>1. K # {}
    BY <1>1, <1>5 DEF f
  <2>. HIDE DEF K
  <2>. QED BY <1>4, <1>5, <1>7, <2>1 DEF Field
<1>9. /\ vector' \in [K -> 0 .. PpmTotal] /\ Total(vector') = PpmTotal
      /\ \A h \in K : /\ Whole(f, h) <= vector'[h]
                      /\ Rest(f, h) = 0 => vector'[h] = Whole(f, h)
  <2>1. vector' = LargestRemainder(f)
    BY <1>1 DEF f
  <2>. HIDE DEF K
  <2>. QED BY <1>5, <1>8, <2>1, Apportioned
<1>10. ASSUME NEW h \in K
       PROVE  /\ ppm[h] <= vector'[h] /\ vector'[h] \in Nat
              /\ K = P => vector'[h] = ppm[h]
  <2>. DEFINE t == Total(f)
              m == ppm[h]
  <2>1. m \in Nat /\ f[h] = m
    BY <1>4, <1>5
  <2>2. Whole(f, h) = (m * PpmTotal) \div t /\ Rest(f, h) = (m * PpmTotal) % t
    BY <2>1 DEF Whole, Rest
  <2>. HIDE DEF m, t
  <2>3. t \in Nat \ {0} /\ t <= PpmTotal /\ (K = P => t = PpmTotal)
    BY <1>7 DEF t
  <2>4. m * PpmTotal \in Nat /\ m * PpmTotal = PpmTotal * m
    BY <1>3, <2>1
  <2>5. m <= Whole(f, h)
    <3>1. t * m <= PpmTotal * m
      <4>1. PpmTotal - t \in Nat
        BY <1>3, <2>3
      <4>2. \A a, b, c \in Nat : (a + b) * c = a * c + b * c /\ b * c \in Nat /\ a * c \in Nat
        OBVIOUS
      <4>3. t + (PpmTotal - t) = PpmTotal
        BY <1>3, <2>3
      <4>4. PpmTotal * m = t * m + (PpmTotal - t) * m /\ (PpmTotal - t) * m \in Nat /\ t * m \in Nat
        BY <2>1, <2>3, <4>1, <4>2, <4>3
      <4>. QED BY <4>4
    <3>2. t * m <= m * PpmTotal
      BY <2>4, <3>1
    <3>. QED BY <2>1, <2>2, <2>3, <2>4, <3>2, Quotient
  <2>6. Whole(f, h) \in Nat /\ vector'[h] \in Nat
    <3>1. Whole(f, h) \in Nat
      BY <2>2, <2>3, <2>4, Division
    <3>2. vector'[h] \in 0 .. PpmTotal
      BY <1>9
    <3>. QED BY <1>3, <3>1, <3>2
  <2>7. ASSUME K = P PROVE vector'[h] = m
    <3>1. t = PpmTotal
      BY <2>3, <2>7
    <3>2. m * PpmTotal < PpmTotal * m + PpmTotal
      BY <1>3, <2>4
    <3>3. Whole(f, h) <= m
      BY <1>3, <2>1, <2>2, <2>4, <3>1, <3>2, Quotient
    <3>4. Whole(f, h) = m
      BY <2>1, <2>5, <2>6, <3>3
    <3>5. /\ Rest(f, h) \in Nat
          /\ m * PpmTotal = PpmTotal * m + Rest(f, h)
      BY <1>3, <2>2, <2>4, <3>1, <3>4, Division
    <3>6. Rest(f, h) = 0
      BY <2>4, <3>5
    <3>. QED BY <1>9, <3>4, <3>6
  <2>8. m <= vector'[h]
    BY <1>9, <2>1, <2>5, <2>6
  <2>. QED BY <2>6, <2>7, <2>8 DEF m
<1>11. TypeOK'
  <2>1. vector' \in Weights
    BY <1>4, <1>9, WeightsAre
  <2>. QED BY <1>1, <1>2, <2>1 DEF TypeOK
<1>12. KeysAreReceivers' /\ TiesShareAlike' /\ ShareIsIn' /\ RestIsIn'
  BY <1>1, <1>2 DEF IInv, KeysAreReceivers, Receivers, TiesShareAlike, ShareIsIn, RestIsIn
<1>13. NothingIsLost'
  <2>1. Total(vector)' = PpmTotal /\ Total(ppm)' = PpmTotal
    BY <1>1, <1>6, <1>9 DEF Total
  <2>. QED BY <2>1 DEF NothingIsLost
<1>14. P = Receivers
  BY DEF IInv, KeysAreReceivers
<1>15. ShareIsWithheld'
  <2>1. SUFFICES ASSUME share > 0
                 PROVE  vector'[reserved] >= (share * PpmTotal) \div ShareUnit
    BY <1>2 DEF ShareIsWithheld
  <2>2. reserved \in K
    BY <1>1, <1>3, <1>14, <2>1 DEF Receivers
  <2>3. ppm[reserved] >= (share * PpmTotal) \div ShareUnit
    BY <1>1, <2>1 DEF IInv, ShareIsIn
  <2>4. (share * PpmTotal) \div ShareUnit \in Nat
    <3>1. share * PpmTotal \in Nat
      BY <1>3
    <3>. QED BY <1>3, <3>1, Division
  <2>5. ppm[reserved] \in Nat /\ ppm[reserved] <= vector'[reserved] /\ vector'[reserved] \in Nat
    BY <1>4, <1>10, <2>2
  <2>. QED BY <2>3, <2>4, <2>5
<1>16. FieldKeepsTheRest'
  <2>. DEFINE rest == ((ShareUnit - share) * PpmTotal) \div ShareUnit
  <2>1. SUFFICES ASSUME Paid # {}, Paid \subseteq registered, reserved \notin Paid
                 PROVE  PpmTotal - (IF reserved \in K THEN vector'[reserved] ELSE 0) >= rest
    <3>1. DOMAIN vector' = K
      BY <1>9
    <3>. QED BY <1>2, <2>1, <3>1 DEF FieldKeepsTheRest
  <2>2. CASE share = 0
    <3>1. reserved \notin K
      BY <1>1, <1>14, <2>1, <2>2 DEF Receivers
    <3>2. (ShareUnit - share) * PpmTotal = ShareUnit * PpmTotal
      BY <1>3, <2>2
    <3>3. ShareUnit * PpmTotal \in Nat /\ ShareUnit * PpmTotal < ShareUnit * PpmTotal + ShareUnit
      BY <1>3
    <3>4. rest <= PpmTotal /\ rest \in Nat
      BY <1>3, <3>2, <3>3, Quotient, Division
    <3>. HIDE DEF rest
    <3>. QED BY <1>3, <3>1, <3>4
  <2>3. CASE share # 0
    <3>1. share > 0
      BY <1>3, <2>3
    <3>2. K = P /\ reserved \in K
      BY <1>1, <1>14, <2>1, <3>1 DEF Receivers
    <3>3. vector'[reserved] = ppm[reserved]
      BY <1>10, <3>2
    <3>4. PpmTotal - ppm[reserved] >= rest
      BY <1>1, <2>1, <3>1 DEF IInv, RestIsIn
    <3>. HIDE DEF rest
    <3>. QED BY <3>2, <3>3, <3>4
  <2>. QED BY <2>2, <2>3
<1>. QED BY <1>11, <1>12, <1>13, <1>15, <1>16 DEF IInv

LEMMA InvariantIsInductive == IInv /\ [Next]_vars => IInv'
<1>. SUFFICES ASSUME IInv, [Next]_vars PROVE IInv'
  OBVIOUS
<1>1. CASE Allocate
  BY <1>1, AllocateKeeps
<1>2. CASE ApplyReservedShare
  BY <1>2, ReservedKeeps
<1>3. CASE Publish
  BY <1>3, PublishKeeps
<1>4. CASE Hold
  <2>1. stage = "reserved" /\ stage' = "held" /\ ppm' = ppm /\ vector' = vector /\ UNCHANGED given
    BY <1>4 DEF Hold
  <2>2. /\ Paid' = Paid /\ scores' = scores /\ reserved' = reserved
        /\ share' = share /\ registered' = registered
    BY <2>1, GivenStays
  <2>. QED BY <2>1, <2>2 DEF IInv, TypeOK, KeysAreReceivers, Receivers, NothingIsLost, TiesShareAlike,
           ShareIsIn, RestIsIn, ShareIsWithheld, FieldKeepsTheRest, Total, Empty
<1>5. CASE UNCHANGED vars
  <2>1. stage' = stage /\ ppm' = ppm /\ vector' = vector /\ UNCHANGED given
    BY <1>5 DEF vars, given
  <2>2. /\ Paid' = Paid /\ scores' = scores /\ reserved' = reserved
        /\ share' = share /\ registered' = registered
    BY <2>1, GivenStays
  <2>. QED BY <2>1, <2>2 DEF IInv, TypeOK, KeysAreReceivers, Receivers, NothingIsLost, TiesShareAlike,
           ShareIsIn, RestIsIn, ShareIsWithheld, FieldKeepsTheRest, Total, Empty
<1>. QED BY <1>1, <1>2, <1>3, <1>4, <1>5 DEF Next

-----------------------------------------------------------------------------
(* The theorems. *)

\* The invariant holds for every field, schedule, share and set of registered hotkeys.
THEOREM InvariantAlwaysHolds == Spec => []IInv
BY InvariantHoldsAtFirst, InvariantIsInductive, PTL DEF Spec

\* Types: every weight is between nothing and the whole.
THEOREM TypeCorrectness == Spec => []TypeOK
<1>1. IInv => TypeOK
  BY DEF IInv
<1>. QED BY <1>1, InvariantAlwaysHolds, PTL

\* Every vector the chain takes is the whole, to the last unit, however many are paid, tied
\* or registered (allocation.py largest_remainder_ppm).
THEOREM NothingIsEverLost == Spec => []NothingIsLost
<1>1. IInv => NothingIsLost
  BY DEF IInv
<1>. QED BY <1>1, InvariantAlwaysHolds, PTL

\* Equal scores earn the same up to one unit, through both apportionments
\* (docs/scoring.md: ties share the mean of the slots they jointly occupy).
THEOREM TiesAlwaysShareAlike == Spec => []TiesShareAlike
<1>1. IInv => TiesShareAlike
  BY DEF IInv
<1>. QED BY <1>1, InvariantAlwaysHolds, PTL

\* The reserved hotkey receives at least the share the directive withholds, to the unit
\* (allocation.py apply_reserved_share, as_uid_ppm).
THEOREM ShareIsAlwaysWithheld == Spec => []ShareIsWithheld
<1>1. IInv => ShareIsWithheld
  BY DEF IInv
<1>. QED BY <1>1, InvariantAlwaysHolds, PTL

\* ... and where all the paid are registered, they keep the rest, to the unit.
THEOREM FieldAlwaysKeepsTheRest == Spec => []FieldKeepsTheRest
<1>1. IInv => FieldKeepsTheRest
  BY DEF IInv
<1>. QED BY <1>1, InvariantAlwaysHolds, PTL

-----------------------------------------------------------------------------
(* The order of the scores. *)

\* Paid submissions have a score, which is a number, and a hotkey, which is one.
LEMMA ScoresAre ==
  ASSUME TypeOK
  PROVE  /\ \A h \in Eligible : h \in Nat /\ scores[h] \in Nat
         /\ IsFiniteSet(Eligible) /\ IsFiniteSet(Paid) /\ Paid \in SUBSET Eligible
<1>1. PICK K \in SUBSET Hotkeys : scores \in [K -> 0 .. MaxScore]
  BY DEF TypeOK
<1>2. MaxScore \in Nat
  BY AllocationAssumption DEF AllocationAssumption
<1>3. Eligible \in SUBSET Hotkeys /\ \A h \in Eligible : scores[h] \in Nat
  BY <1>1, <1>2 DEF Eligible
<1>4. Eligible \in SUBSET Nat /\ IsFiniteSet(Eligible)
  BY <1>3, Keys
<1>5. Paid \in SUBSET Eligible
  BY DEF Paid
<1>6. IsFiniteSet(Paid)
  BY <1>4, <1>5, FS_Subset
<1>. QED BY <1>3, <1>4, <1>5, <1>6

\* Who is ranked before h.
Before(h) == {g \in Eligible : scores[g] > scores[h] \/ (scores[g] = scores[h] /\ g < h)}

\* Ranks count from 1, follow the order of scores and names, and of the paid are no more than
\* there are.
LEMMA RanksAre ==
  ASSUME TypeOK
  PROVE  /\ \A h \in Eligible : Rank(h) \in Nat \ {0}
         /\ \A g, h \in Eligible : g \in Before(h) => Rank(g) < Rank(h)
         /\ \A h \in Paid : Rank(h) <= Cardinality(Paid)
<1>1. \A h \in Eligible : h \in Nat /\ scores[h] \in Nat
  BY ScoresAre
<1>2. IsFiniteSet(Eligible) /\ IsFiniteSet(Paid) /\ Paid \in SUBSET Eligible
  BY ScoresAre
<1>3. \A h \in Eligible : Rank(h) = 1 + Cardinality(Before(h))
  BY DEF Rank, Before
<1>4. \A h \in Eligible : /\ IsFiniteSet(Before(h)) /\ Cardinality(Before(h)) \in Nat
                          /\ Before(h) \in SUBSET Eligible /\ h \notin Before(h)
  <2>1. SUFFICES ASSUME NEW h \in Eligible
                 PROVE  /\ IsFiniteSet(Before(h)) /\ Cardinality(Before(h)) \in Nat
                        /\ Before(h) \in SUBSET Eligible /\ h \notin Before(h)
    OBVIOUS
  <2>2. Before(h) \in SUBSET Eligible
    BY DEF Before
  <2>3. h \notin Before(h)
    BY <1>1 DEF Before
  <2>. QED BY <1>2, <2>2, <2>3, FS_Subset, FS_CardinalityType
<1>5. ASSUME NEW g \in Eligible, NEW h \in Eligible, g \in Before(h)
      PROVE  Cardinality(Before(g)) < Cardinality(Before(h))
  <2>1. Before(g) \in SUBSET Before(h)
    BY <1>1, <1>5 DEF Before
  <2>2. Before(g) # Before(h)
    BY <1>4, <1>5
  <2>3. Cardinality(Before(g)) <= Cardinality(Before(h)) /\ Cardinality(Before(g)) # Cardinality(Before(h))
    BY <1>4, <2>1, <2>2, FS_Subset
  <2>. QED BY <1>4, <2>3
<1>6. ASSUME NEW g \in Eligible, NEW h \in Eligible, g \in Before(h) PROVE Rank(g) < Rank(h)
  <2>1. Cardinality(Before(g)) < Cardinality(Before(h))
    BY <1>5, <1>6
  <2>. QED BY <1>3, <1>4, <2>1
<1>7. ASSUME NEW h \in Paid PROVE Rank(h) <= Cardinality(Paid)
  <2>1. h \in Eligible /\ Rank(h) <= PaidRanks /\ PaidRanks \in Nat /\ Rank(h) \in Nat
    BY <1>2, <1>3, <1>4, AllocationAssumption DEF Paid, AllocationAssumption
  <2>2. Before(h) \in SUBSET Paid
    <3>1. SUFFICES ASSUME NEW g \in Before(h) PROVE g \in Paid
      OBVIOUS
    <3>2. g \in Eligible /\ Rank(g) < Rank(h) /\ Rank(g) \in Nat
      BY <1>3, <1>4, <1>6, <2>1
    <3>3. Rank(g) <= PaidRanks
      BY <2>1, <3>2
    <3>. QED BY <3>2, <3>3 DEF Paid
  <2>3. Before(h) # Paid
    BY <1>4, <2>1
  <2>4. Cardinality(Before(h)) <= Cardinality(Paid) /\ Cardinality(Before(h)) # Cardinality(Paid)
    BY <1>2, <2>2, <2>3, FS_Subset
  <2>5. Cardinality(Before(h)) \in Nat /\ Cardinality(Paid) \in Nat
    BY <1>2, <1>4, <2>1, FS_CardinalityType
  <2>. QED BY <1>3, <2>1, <2>4, <2>5
<1>8. ASSUME NEW h \in Eligible PROVE Rank(h) \in Nat \ {0}
  BY <1>3, <1>4
<1>. QED BY <1>6, <1>7, <1>8

\* The schedule decreases.
LEMMA SlotsDecrease ==
  ASSUME TypeOK, NEW i \in Nat \ {0}, NEW j \in Nat, i < j, j <= Cardinality(Paid)
  PROVE  Slot(j) < Slot(i)
<1>. DEFINE J == 1 .. Cardinality(Paid) - 1
            v == [k \in J |-> IF k < j THEN DecayNum ELSE DecayDen]
            w == [k \in J |-> IF k < i THEN DecayNum ELSE DecayDen]
<1>1. Cardinality(Paid) \in Nat
  BY Keys, FS_CardinalityType
<1>2. IsFiniteSet(J)
  <2>1. 1 \in Int /\ Cardinality(Paid) - 1 \in Int
    BY <1>1
  <2>. QED BY <2>1, FS_Interval
<1>3. DecayNum \in Nat \ {0} /\ DecayDen \in Nat /\ DecayNum < DecayDen
  BY AllocationAssumption DEF AllocationAssumption
<1>4. \A k \in J : v[k] \in Nat \ {0} /\ w[k] \in Nat /\ v[k] <= w[k]
  BY <1>3
<1>5. i \in J /\ v[i] < w[i]
  BY <1>1, <1>3
<1>6. Slot(j) = ProductOnSet(v, J)
  <2>1. DOMAIN v = J
    OBVIOUS
  <2>. QED BY <2>1, Zenon DEF Slot, Product, ProductOnSet, FoldFunction
<1>7. Slot(i) = ProductOnSet(w, J)
  <2>1. DOMAIN w = J
    OBVIOUS
  <2>. QED BY <2>1, Zenon DEF Slot, Product, ProductOnSet, FoldFunction
<1>. HIDE DEF J, v, w
<1>. QED BY <1>2, <1>4, <1>5, <1>6, <1>7, ProductIsMonotone

\* The size of a tie goes into the unit of the ties.
LEMMA TieUnitIsMultiple ==
  ASSUME TypeOK, NEW h \in Paid
  PROVE  /\ Cardinality(Tied(h)) \in Nat \ {0} /\ IsFiniteSet(Tied(h))
         /\ TieUnit \in Nat \ {0}
         /\ TieUnit \div Cardinality(Tied(h)) \in Nat
         /\ TieUnit = Cardinality(Tied(h)) * (TieUnit \div Cardinality(Tied(h)))
<1>. DEFINE n == Cardinality(Paid)
            c == Cardinality(Tied(h))
            J == 1 .. n
            v == [m \in J |-> m]
<1>1. IsFiniteSet(Paid) /\ n \in Nat
  BY Keys, FS_CardinalityType
<1>2. Tied(h) \in SUBSET Paid /\ h \in Tied(h) /\ IsFiniteSet(Tied(h))
  BY <1>1, FS_Subset DEF Tied
<1>3. c \in Nat \ {0} /\ c \in J
  <2>1. c \in Nat /\ c <= n
    BY <1>1, <1>2, FS_Subset, FS_CardinalityType
  <2>2. c # 0
    BY <1>2, FS_EmptySet
  <2>. QED BY <1>1, <2>1, <2>2
<1>4. IsFiniteSet(J) /\ (\A m \in J : v[m] \in Nat \ {0}) /\ v[c] = c
  <2>1. 1 \in Int /\ n \in Int
    BY <1>1
  <2>. QED BY <1>3, <2>1, FS_Interval
<1>5. TieUnit = ProductOnSet(v, J)
  <2>1. DOMAIN v = J
    OBVIOUS
  <2>. QED BY <2>1, Zenon DEF TieUnit, Product, ProductOnSet, FoldFunction
<1>. HIDE DEF J, v, c
<1>6. TieUnit = c * ProductOnSet(v, J \ {c}) /\ ProductOnSet(v, J \ {c}) \in Nat
  BY <1>3, <1>4, <1>5, ProductTakes
<1>7. TieUnit \in Nat \ {0}
  BY <1>4, <1>5, ProductOfPositives
<1>8. ProductOnSet(v, J \ {c}) = TieUnit \div c
  <2>. DEFINE q == ProductOnSet(v, J \ {c})
  <2>1. c * q <= TieUnit /\ TieUnit < c * q + c /\ q \in Nat
    BY <1>3, <1>6, <1>7
  <2>. HIDE DEF q
  <2>2. q <= TieUnit \div c /\ TieUnit \div c <= q /\ TieUnit \div c \in Nat
    BY <1>3, <1>7, <2>1, Quotient, Division
  <2>. QED BY <2>1, <2>2 DEF q
<1>. QED BY <1>2, <1>3, <1>6, <1>7, <1>8 DEF c

\* A better score earns strictly more: every slot its tie occupies is worth more than every
\* slot of the other's.
LEMMA BetterEarnsMore ==
  ASSUME TypeOK, NEW g \in Paid, NEW h \in Paid, scores[g] > scores[h]
  PROVE  Earned(g) > Earned(h)
<1>1. /\ \A k \in Paid : k \in Eligible /\ scores[k] \in Nat
      /\ \A k \in Paid : Rank(k) \in Nat \ {0} /\ Rank(k) <= Cardinality(Paid)
      /\ \A k, m \in Paid : k \in Before(m) => Rank(k) < Rank(m)
  BY ScoresAre, RanksAre
<1>2. PICK x \in Tied(h) : \A y \in Tied(h) : Rank(x) <= Rank(y)
  <2>. DEFINE ranks == {Rank(y) : y \in Tied(h)}
  <2>1. ranks \in SUBSET Nat /\ ranks # {}
    BY <1>1 DEF Tied
  <2>2. \E m \in ranks : \A y \in ranks : m <= y
    <3>. HIDE DEF ranks
    <3>. QED BY <2>1, LeastNatural
  <2>. QED BY <2>2
<1>. DEFINE s == Slot(Rank(x))
<1>3. s \in Nat /\ \A k : Slot(k) \in Nat
  BY SlotIsPositive
<1>4. ASSUME NEW y \in Tied(h) PROVE Slot(Rank(y)) <= s
  <2>1. Rank(x) \in Nat \ {0} /\ Rank(y) \in Nat /\ Rank(x) <= Rank(y) /\ Rank(y) <= Cardinality(Paid)
    BY <1>1, <1>2 DEF Tied
  <2>2. CASE Rank(x) = Rank(y)
    BY <1>3, <2>2
  <2>3. CASE Rank(x) # Rank(y)
    <3>1. Slot(Rank(y)) < s
      BY <2>1, <2>3, SlotsDecrease
    <3>. QED BY <1>3, <3>1
  <2>. QED BY <2>2, <2>3
<1>5. ASSUME NEW y \in Tied(g) PROVE s + 1 <= Slot(Rank(y))
  <2>1. y \in Paid /\ x \in Paid /\ y \in Before(x)
    BY <1>1 DEF Tied, Before
  <2>2. Rank(y) \in Nat \ {0} /\ Rank(x) \in Nat /\ Rank(y) < Rank(x) /\ Rank(x) <= Cardinality(Paid)
    BY <1>1, <2>1
  <2>3. s < Slot(Rank(y))
    BY <2>2, SlotsDecrease
  <2>. QED BY <1>3, <2>3
<1>. HIDE DEF s
<1>6. ASSUME NEW k \in Paid
      PROVE  Total([y \in Tied(k) |-> Slot(Rank(y))]) = SumFunctionOnSet([y \in Tied(k) |-> Slot(Rank(y))], Tied(k))
  <2>1. [y \in Tied(k) |-> Slot(Rank(y))] \in [Tied(k) -> Nat]
    BY <1>3
  <2>. QED BY <2>1, TieUnitIsMultiple, Totals
<1>. DEFINE a == Cardinality(Tied(g))
            b == Cardinality(Tied(h))
            v == [y \in Tied(g) |-> Slot(Rank(y))]
            w == [y \in Tied(h) |-> Slot(Rank(y))]
<1>7. (s + 1) * a <= SumFunctionOnSet(v, Tied(g)) /\ SumFunctionOnSet(v, Tied(g)) \in Nat
  <2>. DEFINE low == [y \in Tied(g) |-> s + 1]
  <2>1. IsFiniteSet(Tied(g)) /\ s + 1 \in Nat
    BY <1>3, TieUnitIsMultiple
  <2>2. \A y \in Tied(g) : v[y] \in Nat /\ low[y] = s + 1 /\ low[y] \in Nat /\ low[y] <= v[y]
    BY <1>3, <1>5, <2>1
  <2>. HIDE DEF v, low
  <2>. QED BY <2>1, <2>2, SumOfEqual, SumIsMonotone, SumType
<1>8. SumFunctionOnSet(w, Tied(h)) <= s * b /\ SumFunctionOnSet(w, Tied(h)) \in Nat
  <2>. DEFINE high == [y \in Tied(h) |-> s]
  <2>1. IsFiniteSet(Tied(h)) /\ s \in Nat
    BY <1>3, TieUnitIsMultiple
  <2>2. \A y \in Tied(h) : w[y] \in Nat /\ high[y] = s /\ high[y] \in Nat /\ w[y] <= high[y]
    BY <1>3, <1>4, <2>1
  <2>. HIDE DEF w, high
  <2>. QED BY <2>1, <2>2, SumOfEqual, SumIsMonotone, SumType
<1>. DEFINE S == SumFunctionOnSet(v, Tied(g))
            T == SumFunctionOnSet(w, Tied(h))
            p == TieUnit \div a
            q == TieUnit \div b
<1>9. Earned(g) = p * S /\ Earned(h) = q * T
  BY <1>6 DEF Earned
<1>10. /\ a \in Nat \ {0} /\ b \in Nat \ {0} /\ p \in Nat /\ q \in Nat
       /\ TieUnit \in Nat \ {0} /\ TieUnit = a * p /\ TieUnit = b * q
  BY TieUnitIsMultiple
<1>. HIDE DEF S, T, p, q, a, b, v, w
<1>11. \A c, d, e \in Nat : d <= e => c * d <= c * e
  <2>1. SUFFICES ASSUME NEW c \in Nat, NEW d \in Nat, NEW e \in Nat, d <= e PROVE c * d <= c * e
    OBVIOUS
  <2>2. e - d \in Nat
    BY <2>1
  <2>3. c * e = c * d + c * (e - d) /\ c * (e - d) \in Nat /\ c * d \in Nat
    BY <2>2
  <2>. QED BY <2>3
<1>12. S \in Nat /\ T \in Nat /\ (s + 1) * a <= S /\ T <= s * b
  BY <1>7, <1>8 DEF S, T, a, b
<1>13. p * ((s + 1) * a) <= p * S
  <2>1. (s + 1) * a \in Nat
    BY <1>3, <1>10
  <2>. QED BY <1>10, <1>11, <1>12, <2>1
<1>14. q * T <= q * (s * b)
  <2>1. s * b \in Nat
    BY <1>3, <1>10
  <2>. QED BY <1>10, <1>11, <1>12, <2>1
<1>15. p * ((s + 1) * a) = TieUnit * s + TieUnit
  <2>1. p * ((s + 1) * a) = (a * p) * s + a * p
    BY <1>3, <1>10
  <2>. QED BY <1>10, <2>1
<1>16. q * (s * b) = TieUnit * s
  <2>1. q * (s * b) = (b * q) * s
    BY <1>3, <1>10
  <2>. QED BY <1>10, <2>1
<1>17. TieUnit * s \in Nat /\ p * S \in Nat /\ q * T \in Nat
  BY <1>3, <1>10, <1>12
<1>. QED BY <1>9, <1>10, <1>13, <1>14, <1>15, <1>16, <1>17

\* The larger remainder is handed a unit first.
LEMMA LargerRestComesFirst ==
  ASSUME NEW f, Field(f), NEW g \in DOMAIN f, NEW h \in DOMAIN f,
         Rest(f, h) < Rest(f, g), Unit(f, h) = 1
  PROVE  Unit(f, g) = 1
<1>1. \A k \in DOMAIN f : Rest(f, k) \in Nat
  BY Quotas
<1>2. Ahead(f, g) \in SUBSET Ahead(f, h)
  BY <1>1 DEF Ahead
<1>3. IsFiniteSet(Ahead(f, h))
  <2>1. Ahead(f, h) \in SUBSET DOMAIN f
    BY DEF Ahead
  <2>. QED BY <2>1, FS_Subset DEF Field
<1>4. Cardinality(Ahead(f, g)) <= Cardinality(Ahead(f, h))
  BY <1>2, <1>3, FS_Subset
<1>5. Cardinality(Ahead(f, h)) < Left(f) /\ Left(f) \in Nat
  BY Units, LeftIsCovered
<1>6. Cardinality(Ahead(f, g)) < Left(f)
  BY <1>4, <1>5, AheadNumbers
<1>. QED BY <1>6, Units

\* A larger share gets no less of the whole.
LEMMA LargerShareGetsNoLess ==
  ASSUME NEW f, Field(f), NEW g \in DOMAIN f, NEW h \in DOMAIN f, f[g] > f[h]
  PROVE  LargestRemainder(f)[g] >= LargestRemainder(f)[h]
<1>. DEFINE T == Total(f)
            LR == LargestRemainder(f)
<1>1. /\ T \in Nat \ {0} /\ PpmTotal \in Nat \ {0} /\ f[g] \in Nat /\ f[h] \in Nat
      /\ Whole(f, g) \in Nat /\ Rest(f, g) \in Nat /\ Rest(f, g) < T
      /\ Whole(f, h) \in Nat /\ Rest(f, h) \in Nat /\ Rest(f, h) < T
      /\ PpmTotal * f[g] = T * Whole(f, g) + Rest(f, g)
      /\ PpmTotal * f[h] = T * Whole(f, h) + Rest(f, h)
  BY Quotas, AllocationAssumption DEF AllocationAssumption
<1>2. PpmTotal * f[h] < PpmTotal * f[g]
  <2>1. PpmTotal * f[h] <= PpmTotal * f[g] /\ ~(PpmTotal * f[g] <= PpmTotal * f[h])
    BY <1>1, Cancels
  <2>2. PpmTotal * f[g] \in Nat /\ PpmTotal * f[h] \in Nat
    BY <1>1
  <2>. QED BY <2>1, <2>2
<1>3. Whole(f, h) <= Whole(f, g) /\ (Whole(f, h) = Whole(f, g) => Rest(f, h) < Rest(f, g))
  <2>1. SUFFICES ASSUME NEW t \in Nat, NEW v \in Nat, NEW w \in Nat, NEW q \in Nat, NEW r \in Nat,
                        r < t, t * v + q < t * w + r
                 PROVE  v <= w /\ (v = w => q < r)
    BY <1>1, <1>2
  <2>2. ASSUME w + 1 <= v PROVE FALSE
    <3>1. v - w - 1 \in Nat
      BY <2>2
    <3>2. t * v = t * w + t + t * (v - w - 1) /\ t * (v - w - 1) \in Nat /\ t * w \in Nat
      BY <3>1
    <3>. QED BY <2>1, <3>2
  <2>3. ASSUME v = w PROVE q < r
    <3>1. t * v = t * w /\ t * w \in Nat
      BY <2>3
    <3>. QED BY <2>1, <3>1
  <2>. QED BY <2>2, <2>3
<1>4. /\ LR[g] = Whole(f, g) + Unit(f, g) /\ Unit(f, g) \in {0, 1}
      /\ LR[h] = Whole(f, h) + Unit(f, h) /\ Unit(f, h) \in {0, 1}
  BY Apportions, Units
<1>5. Whole(f, h) = Whole(f, g) /\ Unit(f, h) = 1 => Unit(f, g) = 1
  BY <1>3, LargerRestComesFirst
<1>. HIDE DEF T, LR
<1>. QED BY <1>1, <1>3, <1>4, <1>5 DEF LR

\* One that is larger by more than a unit gets more.
LEMMA MuchLargerShareGetsMore ==
  ASSUME NEW f, Field(f), NEW g \in DOMAIN f, NEW h \in DOMAIN f,
         PpmTotal * f[g] > PpmTotal * f[h] + Total(f)
  PROVE  LargestRemainder(f)[g] > LargestRemainder(f)[h]
<1>1. /\ Total(f) \in Nat \ {0} /\ f[g] \in Nat /\ f[h] \in Nat
      /\ Whole(f, g) \in Nat /\ Rest(f, g) \in Nat /\ Rest(f, g) < Total(f)
      /\ Whole(f, h) \in Nat /\ Rest(f, h) \in Nat /\ Rest(f, h) < Total(f)
      /\ PpmTotal * f[g] = Total(f) * Whole(f, g) + Rest(f, g)
      /\ PpmTotal * f[h] = Total(f) * Whole(f, h) + Rest(f, h)
  BY Quotas
<1>2. /\ Whole(f, h) + 1 <= Whole(f, g)
      /\ Whole(f, g) = Whole(f, h) + 1 => Rest(f, h) < Rest(f, g)
  <2>1. SUFFICES ASSUME NEW t \in Nat, NEW v \in Nat, NEW w \in Nat, NEW q \in Nat, NEW x \in Nat,
                        x < t, t * w + x > t * v + q + t
                 PROVE  v + 1 <= w /\ (w = v + 1 => q < x)
    BY <1>1
  <2>2. ASSUME w <= v PROVE FALSE
    <3>1. v - w \in Nat
      BY <2>2
    <3>2. t * v = t * w + t * (v - w) /\ t * (v - w) \in Nat /\ t * w \in Nat
      BY <3>1
    <3>. QED BY <2>1, <3>2
  <2>3. ASSUME w = v + 1 PROVE q < x
    <3>1. t * w = t * v + t /\ t * v \in Nat
      BY <2>3
    <3>. QED BY <2>1, <3>1
  <2>. QED BY <2>2, <2>3
<1>3. /\ LargestRemainder(f)[g] = Whole(f, g) + Unit(f, g) /\ Unit(f, g) \in {0, 1}
      /\ LargestRemainder(f)[h] = Whole(f, h) + Unit(f, h) /\ Unit(f, h) \in {0, 1}
  BY Apportions, Units
<1>4. Rest(f, h) < Rest(f, g) /\ Unit(f, h) = 1 => Unit(f, g) = 1
  BY LargerRestComesFirst
<1>. QED BY <1>1, <1>2, <1>3, <1>4

\* An apportionment of what is already the whole changes nothing.
LEMMA WholeStays ==
  ASSUME NEW f, Field(f), Total(f) = PpmTotal
  PROVE  LargestRemainder(f) = f
<1>1. PpmTotal \in Nat \ {0}
  BY AllocationAssumption DEF AllocationAssumption
<1>2. ASSUME NEW h \in DOMAIN f PROVE LargestRemainder(f)[h] = f[h]
  <2>1. /\ f[h] \in Nat /\ Whole(f, h) \in Nat /\ Rest(f, h) \in Nat /\ Rest(f, h) < PpmTotal
        /\ PpmTotal * f[h] = PpmTotal * Whole(f, h) + Rest(f, h)
    BY Quotas
  <2>2. SUFFICES ASSUME NEW p \in Nat \ {0}, NEW x \in Nat, NEW w \in Nat, NEW r \in Nat, r < p,
                        p * x = p * w + r
                 PROVE  x = w /\ r = 0
    BY <1>1, <2>1, Apportioned
  <2>3. p * x < p * w + p /\ p * w <= p * x /\ p * x \in Nat
    BY <2>2
  <2>4. w <= x
    BY <2>3, Cancels
  <2>5. x <= w
    <3>1. p * (w + 1) = p * w + p /\ p * (w + 1) \in Nat
      OBVIOUS
    <3>2. ~(p * (w + 1) <= p * x)
      BY <2>3, <3>1
    <3>3. ~(w + 1 <= x)
      BY <3>2, Cancels
    <3>. QED BY <3>3
  <2>6. x = w
    BY <2>4, <2>5
  <2>. QED BY <2>2, <2>6
<1>3. LargestRemainder(f) = [h \in DOMAIN f |-> LargestRemainder(f)[h]] /\ DOMAIN LargestRemainder(f) = DOMAIN f
  BY Apportioned
<1>4. f = [h \in DOMAIN f |-> f[h]]
  BY DEF Field
<1>. QED BY <1>2, <1>3, <1>4

\* Where the weights come from: what is allocated, and after the share whoever was clearly
\* ahead still is.
WeightsFollow ==
  /\ stage = "earned" /\ ppm # Empty => ppm = Allocated
  /\ stage \in {"reserved", "published", "held"} =>
       \A g, h \in DOMAIN ppm \ {reserved} : ClearlyAhead(g, h) => ppm[g] > ppm[h]

\* What is allocated depends on the scores.
LEMMA AllocatedStays ==
  ASSUME UNCHANGED given
  PROVE  Allocated' = Allocated /\ \A g, h : ClearlyAhead(g, h)' <=> ClearlyAhead(g, h)
<1>1. /\ scores' = scores /\ share' = share /\ Paid' = Paid
      /\ Eligible' = Eligible
  BY GivenStays DEF given, Eligible
<1>2. Allocated' = Allocated
  BY <1>1 DEF Allocated, Earned, TieUnit, Tied, Slot, Rank
<1>. QED BY <1>1, <1>2 DEF ClearlyAhead

LEMMA WeightsFollowHolds == IInv /\ WeightsFollow /\ [Next]_vars => WeightsFollow'
<1>. SUFFICES ASSUME IInv, WeightsFollow, [Next]_vars PROVE WeightsFollow'
  OBVIOUS
<1>1. CASE Allocate
  <2>1. stage' = "earned" /\ ppm' \in {Empty, Allocated} /\ UNCHANGED given
    BY <1>1 DEF Allocate
  <2>. QED BY <2>1, AllocatedStays DEF WeightsFollow, Empty
<1>2. CASE ApplyReservedShare
  <2>1. /\ stage = "earned" /\ stage' = "reserved"
        /\ ppm' = IF share = 0 THEN ppm
                  ELSE IF share = ShareUnit \/ ppm = Empty THEN [h \in {reserved} |-> PpmTotal]
                  ELSE LargestRemainder([h \in DOMAIN ppm \cup {reserved} |-> Diluted(h)])
        /\ UNCHANGED given
    BY <1>2 DEF ApplyReservedShare
  <2>2. TypeOK /\ reserved' = reserved
    BY <2>1, GivenStays DEF IInv
  <2>3. /\ PpmTotal \in Nat \ {0} /\ ShareUnit \in Nat \ {0} /\ share \in Nat /\ share <= ShareUnit
    BY <2>2, AllocationAssumption DEF AllocationAssumption, TypeOK
  <2>4. \A h \in DOMAIN ppm : ppm[h] \in Nat
    BY <2>2, <2>3, Keys
  <2>5. SUFFICES ASSUME NEW g \in DOMAIN ppm' \ {reserved}, NEW h \in DOMAIN ppm' \ {reserved},
                        ClearlyAhead(g, h)
                 PROVE  ppm'[g] > ppm'[h]
    BY <2>1, <2>2, AllocatedStays DEF WeightsFollow
  <2>6. ppm # Empty => ppm = Allocated
    BY <2>1 DEF WeightsFollow
  <2>7. CASE share # 0 /\ (share = ShareUnit \/ ppm = Empty)
    BY <2>1, <2>7
  <2>8. CASE share = 0
    <3>1. ppm' = ppm /\ ppm # Empty
      BY <2>1, <2>2, <2>8, NoWeights
    <3>2. (ppm[g] - ppm[h]) * (ShareUnit - 0) > ShareUnit /\ ppm[g] \in Nat /\ ppm[h] \in Nat
      BY <2>4, <2>5, <2>6, <2>8, <3>1 DEF ClearlyAhead
    <3>3. \A a, b \in Nat, u \in Nat \ {0} : (a - b) * (u - 0) > u => a > b
      <4>1. SUFFICES ASSUME NEW a \in Nat, NEW b \in Nat, NEW u \in Nat \ {0}, a <= b
                     PROVE  ~((a - b) * (u - 0) > u)
        OBVIOUS
      <4>2. b - a \in Nat
        BY <4>1
      <4>3. (a - b) * (u - 0) = -((b - a) * u) /\ (b - a) * u \in Nat
        BY <4>2
      <4>. QED BY <4>3
    <3>. QED BY <2>3, <3>1, <3>2, <3>3
  <2>9. CASE share # 0 /\ share # ShareUnit /\ ppm # Empty
    <3>. DEFINE D == DOMAIN ppm \cup {reserved}
                f == [k \in D |-> Diluted(k)]
    <3>1. /\ ppm' = LargestRemainder(f) /\ DOMAIN f = D
          /\ \A k \in D : f[k] = Diluted(k)
      BY <2>1, <2>9
    <3>2. Field(f) /\ Total(f) = PpmTotal * ShareUnit
      <4>1. Total(ppm) = PpmTotal /\ DOMAIN ppm # {}
        BY <2>2, <2>9, NoWeights DEF IInv, NothingIsLost
      <4>. QED BY <2>2, <2>3, <2>9, <4>1, DilutedIsField
    <3>. HIDE DEF f
    <3>3. DOMAIN ppm' = D
      BY <3>1, <3>2, Apportioned
    <3>4. g \in DOMAIN ppm /\ h \in DOMAIN ppm /\ g # reserved /\ h # reserved
      BY <3>3
    <3>5. /\ ppm[g] \in Nat /\ ppm[h] \in Nat
          /\ (ppm[g] - ppm[h]) * (ShareUnit - share) > ShareUnit
      BY <2>4, <2>5, <2>6, <2>9, <3>4 DEF ClearlyAhead
    <3>6. f[g] = ppm[g] * (ShareUnit - share) + 0 /\ f[h] = ppm[h] * (ShareUnit - share) + 0
      BY <3>1, <3>4 DEF Diluted
    <3>7. PpmTotal * f[g] > PpmTotal * f[h] + Total(f)
      <4>1. \A p, u \in Nat \ {0}, a, b, k \in Nat :
              (a - b) * k > u => p * (a * k + 0) > p * (b * k + 0) + p * u
        <5>1. SUFFICES ASSUME NEW p \in Nat \ {0}, NEW u \in Nat \ {0}, NEW a \in Nat,
                              NEW b \in Nat, NEW k \in Nat, (a - b) * k > u
                       PROVE  p * (a * k + 0) > p * (b * k + 0) + p * u
          OBVIOUS
        <5>2. PICK e \in Nat \ {0} : (a - b) * k = u + e
          <6>1. (a - b) * k \in Int
            OBVIOUS
          <6>2. (a - b) * k - u \in Nat \ {0} /\ (a - b) * k = u + ((a - b) * k - u)
            BY <5>1, <6>1
          <6>. QED BY <6>2
        <5>3. a * k = b * k + (u + e)
          <6>1. a * k = b * k + (a - b) * k
            OBVIOUS
          <6>. QED BY <5>2, <6>1
        <5>4. p * (b * k + (u + e)) = p * (b * k) + p * u + p * e
          OBVIOUS
        <5>5. p * e \in Nat \ {0} /\ p * u \in Nat /\ p * (b * k) \in Nat
          <6>1. \A x, y \in Nat \ {0} : x * y \in Nat \ {0}
            <7>1. SUFFICES ASSUME NEW x \in Nat \ {0}, NEW y \in Nat \ {0}
                           PROVE  x * y \in Nat \ {0}
              OBVIOUS
            <7>2. x * y = x * (y - 1) + x /\ y - 1 \in Nat
              OBVIOUS
            <7>3. x * (y - 1) \in Nat
              BY <7>2
            <7>. QED BY <7>2, <7>3
          <6>. QED BY <6>1
        <5>. QED BY <5>3, <5>4, <5>5
      <4>2. ShareUnit - share \in Nat
        BY <2>3
      <4>. QED BY <2>3, <3>2, <3>5, <3>6, <4>1, <4>2
    <3>. QED BY <3>1, <3>2, <3>4, <3>7, MuchLargerShareGetsMore
  <2>. QED BY <2>7, <2>8, <2>9
<1>3. CASE Hold \/ Publish
  <2>1. /\ stage = "reserved" /\ stage' \in {"held", "published"} /\ ppm' = ppm
        /\ UNCHANGED given
    BY <1>3 DEF Hold, Publish
  <2>2. reserved' = reserved
    BY <2>1, GivenStays
  <2>. QED BY <2>1, <2>2, AllocatedStays DEF WeightsFollow
<1>4. CASE UNCHANGED vars
  <2>1. stage' = stage /\ ppm' = ppm /\ UNCHANGED given
    BY <1>4 DEF vars, given
  <2>2. reserved' = reserved
    BY <2>1, GivenStays
  <2>. QED BY <2>1, <2>2, AllocatedStays DEF WeightsFollow, Empty
<1>. QED BY <1>1, <1>2, <1>3, <1>4 DEF Next

\* The weights earned follow the scores.
LEMMA AllocateKeepsRank ==
  ASSUME IInv, Allocate
  PROVE  RankIsRespected'
<1>1. /\ stage' = "earned"
      /\ ppm' = IF Paid = {} THEN Empty ELSE LargestRemainder([h \in Paid |-> Earned(h)])
      /\ UNCHANGED given
  BY DEF Allocate, Allocated
<1>2. TypeOK /\ Paid' = Paid /\ scores' = scores /\ reserved' = reserved
  BY <1>1, GivenStays DEF IInv
<1>. DEFINE f == [h \in Paid |-> Earned(h)]
<1>3. SUFFICES \A g, h \in DOMAIN ppm' :
                 scores[g] > scores[h] => ppm'[g] >= ppm'[h] /\ ppm'[h] <= ppm'[g] + 1
  BY <1>1, <1>2 DEF RankIsRespected
<1>4. CASE Paid = {}
  BY <1>1, <1>4 DEF Empty
<1>5. CASE Paid # {}
  <2>1. Field(f) /\ DOMAIN f = Paid /\ \A h \in Paid : f[h] = Earned(h)
    BY <1>2, <1>5, EarnedIsField
  <2>2. ppm' = LargestRemainder(f)
    BY <1>1, <1>5
  <2>. HIDE DEF f
  <2>3. ppm' \in [Paid -> 0 .. PpmTotal]
    BY <2>1, <2>2, Apportioned
  <2>4. ASSUME NEW g \in Paid, NEW h \in Paid, scores[g] > scores[h] PROVE ppm'[g] >= ppm'[h]
    <3>1. f[g] > f[h]
      BY <1>2, <2>1, <2>4, BetterEarnsMore
    <3>. QED BY <2>1, <2>2, <3>1, LargerShareGetsNoLess
  <2>5. \A h \in Paid : ppm'[h] \in Int
    BY <2>3, AllocationAssumption DEF AllocationAssumption
  <2>. QED BY <2>3, <2>4, <2>5
<1>. QED BY <1>4, <1>5

\* What the withheld share takes, it takes in proportion.
LEMMA ReservedKeepsRank ==
  ASSUME IInv, RankIsRespected, ApplyReservedShare
  PROVE  RankIsRespected'
<1>1. /\ stage = "earned" /\ stage' = "reserved"
      /\ ppm' = IF share = 0 THEN ppm
                ELSE IF share = ShareUnit \/ ppm = Empty THEN [h \in {reserved} |-> PpmTotal]
                ELSE LargestRemainder([h \in DOMAIN ppm \cup {reserved} |-> Diluted(h)])
      /\ UNCHANGED given
  BY DEF ApplyReservedShare
<1>2. TypeOK /\ scores' = scores /\ reserved' = reserved /\ share' = share
  BY <1>1, GivenStays DEF IInv
<1>3. /\ PpmTotal \in Nat \ {0} /\ ShareUnit \in Nat \ {0} /\ share \in Nat /\ share <= ShareUnit
  BY <1>2, AllocationAssumption DEF AllocationAssumption, TypeOK
<1>4. \A g, h \in DOMAIN ppm : scores[g] > scores[h] => ppm[g] >= ppm[h]
  BY <1>1 DEF RankIsRespected
<1>5. \A h \in DOMAIN ppm : ppm[h] \in Nat
  BY <1>2, <1>3, Keys
<1>6. SUFFICES /\ share = 0 => ppm' = ppm
               /\ share # 0 => \A g, h \in DOMAIN ppm' \ {reserved} :
                                 scores[g] > scores[h] => ppm'[h] <= ppm'[g] + 1
  BY <1>1, <1>2, <1>4, <1>5 DEF RankIsRespected
<1>7. CASE share # 0 /\ (share = ShareUnit \/ ppm = Empty)
  BY <1>1, <1>7
<1>8. CASE share # 0 /\ share # ShareUnit /\ ppm # Empty
  <2>. DEFINE D == DOMAIN ppm \cup {reserved}
              f == [h \in D |-> Diluted(h)]
  <2>1. /\ ppm' = LargestRemainder(f) /\ DOMAIN f = D
        /\ \A h \in D : f[h] = Diluted(h)
    BY <1>1, <1>8
  <2>2. Field(f) /\ Total(f) = PpmTotal * ShareUnit
    <3>1. Total(ppm) = PpmTotal /\ DOMAIN ppm # {}
      BY <1>2, <1>8, NoWeights DEF IInv, NothingIsLost
    <3>. QED BY <1>2, <1>3, <1>8, <3>1, DilutedIsField
  <2>. HIDE DEF f
  <2>3. DOMAIN ppm' = D
    BY <2>1, <2>2, Apportioned
  <2>4. ASSUME NEW g \in D \ {reserved}, NEW h \in D \ {reserved}, scores[g] > scores[h]
        PROVE  ppm'[h] <= ppm'[g] + 1
    <3>1. g \in DOMAIN ppm /\ h \in DOMAIN ppm /\ g # reserved /\ h # reserved
      BY <2>4
    <3>2. ppm[h] <= ppm[g] /\ ppm[g] \in Nat /\ ppm[h] \in Nat
      BY <1>4, <1>5, <2>4, <3>1
    <3>3. f[g] = ppm[g] * (ShareUnit - share) + 0 /\ f[h] = ppm[h] * (ShareUnit - share) + 0
      BY <2>1, <3>1 DEF Diluted
    <3>4. f[h] <= f[g] + 0 /\ 0 \in Nat
      <4>1. \A a, b, k \in Nat : a <= b => a * k <= b * k /\ a * k \in Nat /\ b * k \in Nat
        <5>1. SUFFICES ASSUME NEW a \in Nat, NEW b \in Nat, NEW k \in Nat, a <= b
                       PROVE  a * k <= b * k /\ a * k \in Nat /\ b * k \in Nat
          OBVIOUS
        <5>2. b - a \in Nat
          BY <5>1
        <5>3. b * k = a * k + (b - a) * k /\ (b - a) * k \in Nat /\ a * k \in Nat
          BY <5>2
        <5>. QED BY <5>3
      <4>2. ShareUnit - share \in Nat
        BY <1>3
      <4>3. /\ ppm[h] * (ShareUnit - share) <= ppm[g] * (ShareUnit - share)
            /\ ppm[h] * (ShareUnit - share) \in Nat /\ ppm[g] * (ShareUnit - share) \in Nat
        BY <3>2, <4>1, <4>2
      <4>. QED BY <3>3, <4>3
    <3>5. PpmTotal * 0 < Total(f)
      BY <1>3, <2>2, Quotas
    <3>. QED BY <2>1, <2>2, <3>1, <3>4, <3>5, CloseSharesStayClose
  <2>. QED BY <1>8, <2>3, <2>4
<1>. QED BY <1>1, <1>7, <1>8

\* The weights that are placed are as they were, of those who are registered.
LEMMA PlacedIsField ==
  ASSUME TypeOK, DOMAIN Placed # {}, Total(Placed) # 0
  PROVE  Field(Placed) /\ \A h \in DOMAIN Placed : h \in DOMAIN ppm /\ Placed[h] = ppm[h]
<1>. DEFINE K == DOMAIN ppm \cap registered
            f == Placed
<1>1. /\ K \in SUBSET Nat /\ IsFiniteSet(K)
      /\ \A h \in K : h \in DOMAIN ppm /\ ppm[h] \in Nat
  <2>1. PpmTotal \in Nat
    BY AllocationAssumption DEF AllocationAssumption
  <2>2. DOMAIN ppm \in SUBSET Hotkeys /\ ppm \in [DOMAIN ppm -> 0 .. PpmTotal] /\ K \in SUBSET Hotkeys
    BY Keys
  <2>3. K \in SUBSET Nat /\ IsFiniteSet(K)
    BY <2>2, Keys
  <2>. QED BY <2>1, <2>2, <2>3
<1>2. f \in [K -> Nat] /\ DOMAIN f = K /\ \A h \in K : f[h] = ppm[h]
  BY <1>1 DEF Placed
<1>. HIDE DEF f, K
<1>3. Total(f) \in Nat
  BY <1>1, <1>2, Totals
<1>4. Total(f) > 0 /\ DOMAIN f # {}
  BY <1>3 DEF f
<1>5. Field(f)
  BY <1>1, <1>2, <1>4 DEF Field
<1>. QED BY <1>1, <1>2, <1>5 DEF f

\* Where all the paid are registered, everyone with a weight is, and nothing is scaled; where
\* some are not, the scaling exchanges no two weights.
LEMMA PublishKeepsRank ==
  ASSUME IInv, WeightsFollow, RankIsRespected, Publish
  PROVE  RankIsRespected'
<1>1. /\ stage = "reserved" /\ stage' = "published" /\ ppm' = ppm
      /\ vector' = LargestRemainder(Placed)
      /\ ppm # Empty /\ (share > 0 => reserved \in registered)
      /\ DOMAIN Placed # {} /\ Total(Placed) # 0
      /\ UNCHANGED given
  BY DEF Publish, Holds, Unplaceable, Rescaled
<1>2. TypeOK /\ Paid' = Paid /\ scores' = scores /\ reserved' = reserved
      /\ share' = share /\ registered' = registered
  BY <1>1, GivenStays DEF IInv
<1>3. PpmTotal \in Nat \ {0} /\ share \in Nat
  BY <1>2, AllocationAssumption DEF AllocationAssumption, TypeOK
<1>4. ASSUME Paid \subseteq registered PROVE vector' = ppm
  <2>1. DOMAIN ppm = Receivers
    BY DEF IInv, KeysAreReceivers
  <2>2. DOMAIN ppm \subseteq registered
    BY <1>1, <1>3, <1>4, <2>1 DEF Receivers
  <2>3. /\ ppm \in [DOMAIN ppm -> Nat] /\ DOMAIN ppm \in SUBSET Nat /\ IsFiniteSet(DOMAIN ppm)
        /\ DOMAIN ppm # {}
    <3>1. DOMAIN ppm \in SUBSET Hotkeys /\ ppm \in [DOMAIN ppm -> 0 .. PpmTotal]
      BY <1>2, Keys
    <3>2. ppm \in [DOMAIN ppm -> Nat]
      BY <1>3, <3>1
    <3>. QED BY <1>1, <1>2, <3>1, <3>2, Keys, NoWeights
  <2>4. Placed = ppm
    <3>1. DOMAIN ppm \cap registered = DOMAIN ppm
      BY <2>2
    <3>2. ppm = [h \in DOMAIN ppm |-> ppm[h]]
      BY <2>3
    <3>. QED BY <3>1, <3>2 DEF Placed
  <2>5. Total(ppm) = PpmTotal
    BY <1>1 DEF IInv, NothingIsLost
  <2>6. Field(ppm)
    BY <1>3, <2>3, <2>5 DEF Field
  <2>. QED BY <1>1, <2>4, <2>5, <2>6, WholeStays
<1>5. \A g, h \in DOMAIN vector' : ppm[g] > ppm[h] => vector'[g] >= vector'[h]
  <2>. DEFINE f == Placed
  <2>1. Field(f) /\ \A h \in DOMAIN f : h \in DOMAIN ppm /\ f[h] = ppm[h]
    BY <1>1, <1>2, PlacedIsField
  <2>2. vector' = LargestRemainder(f)
    BY <1>1
  <2>. HIDE DEF f
  <2>3. DOMAIN vector' = DOMAIN f
    BY <2>1, <2>2, Apportioned
  <2>4. ASSUME NEW g \in DOMAIN f, NEW h \in DOMAIN f, ppm[g] > ppm[h] PROVE vector'[g] >= vector'[h]
    <3>1. f[g] > f[h]
      BY <2>1, <2>4
    <3>. QED BY <2>1, <2>2, <3>1, LargerShareGetsNoLess
  <2>. QED BY <2>3, <2>4
<1>6. \A g, h \in DOMAIN vector' \ {reserved} : ClearlyAhead(g, h) => vector'[g] >= vector'[h]
  <2>1. DOMAIN vector' \in SUBSET DOMAIN ppm
    <3>1. Field(Placed) /\ DOMAIN Placed \in SUBSET DOMAIN ppm
      BY <1>1, <1>2, PlacedIsField
    <3>. QED BY <1>1, <3>1, Apportioned
  <2>2. \A g, h \in DOMAIN ppm \ {reserved} : ClearlyAhead(g, h) => ppm[g] > ppm[h]
    BY <1>1 DEF WeightsFollow
  <2>. QED BY <1>5, <2>1, <2>2
<1>7. \A g, h : ClearlyAhead(g, h)' <=> ClearlyAhead(g, h)
  BY <1>1, AllocatedStays
<1>. QED BY <1>1, <1>2, <1>4, <1>5, <1>6, <1>7 DEF RankIsRespected

\* A better score is never weighed less, but for a unit that a withheld share may cost it, for
\* every field, schedule and share (allocation.py allocate, apply_reserved_share).
THEOREM RankIsAlwaysRespected == Spec => []RankIsRespected
<1>1. Init => RankIsRespected
  <2>1. Init => DOMAIN ppm = {} /\ DOMAIN vector = {} /\ stage = "scored"
    BY DEF Init, Empty
  <2>. QED BY <2>1 DEF RankIsRespected
<1>2. IInv /\ WeightsFollow /\ RankIsRespected /\ [Next]_vars => RankIsRespected'
  <2>. SUFFICES ASSUME IInv, WeightsFollow, RankIsRespected, [Next]_vars PROVE RankIsRespected'
    OBVIOUS
  <2>1. CASE Hold
    <3>1. stage = "reserved" /\ stage' = "held" /\ ppm' = ppm /\ UNCHANGED given
      BY <2>1 DEF Hold
    <3>2. scores' = scores /\ reserved' = reserved /\ share' = share
      BY <3>1, GivenStays
    <3>. QED BY <3>1, <3>2 DEF RankIsRespected
  <2>2. CASE UNCHANGED vars
    <3>1. stage' = stage /\ ppm' = ppm /\ vector' = vector /\ UNCHANGED given
      BY <2>2 DEF vars, given
    <3>2. /\ Paid' = Paid /\ scores' = scores /\ reserved' = reserved
          /\ share' = share /\ registered' = registered
      BY <3>1, GivenStays
    <3>3. \A g, h : ClearlyAhead(g, h)' <=> ClearlyAhead(g, h)
      BY <3>1, AllocatedStays
    <3>. QED BY <3>1, <3>2, <3>3 DEF RankIsRespected
  <2>. QED BY <2>1, <2>2, AllocateKeepsRank, ReservedKeepsRank, PublishKeepsRank DEF Next
<1>3. Init => WeightsFollow
  BY DEF Init, WeightsFollow
<1>. QED BY <1>1, <1>2, <1>3, WeightsFollowHolds, InvariantAlwaysHolds, PTL DEF Spec
=============================================================================
