--------------------------- MODULE RouteFileProofs ---------------------------
(***************************************************************************)
(* Proofs about the trade routes that are built: what a route file says    *)
(* once it is written and read again, for any table of goods, and what the *)
(* executor makes of a lap, for any towns, stocks, ships and offers.       *)
(***************************************************************************)
EXTENDS RouteFiles, SupplyRoute, Induction, SequenceTheorems

-----------------------------------------------------------------------------
(* RouteFiles: what goes into a file comes out of it again.                *)

\* What is in front of a whole number of sizes.
LEMMA Quotient ==
    ASSUME NEW b \in Nat, NEW s \in Nat \ {0}
    PROVE  (b * s) \div s = b /\ (b * s) % s = 0
<1> DEFINE q == (b * s) \div s
<1>1. b * s \in Nat
  OBVIOUS
<1>2. q \in Int /\ s * q <= b * s /\ b * s < s * q + s /\ (b * s) % s = b * s - s * q
  BY <1>1
<1> HIDE DEF q
<1>3. q < b => s * q + s <= b * s
  <2> SUFFICES ASSUME q < b PROVE s * q + s <= b * s
    OBVIOUS
  <2>1. b - q - 1 \in Nat
    BY <1>2
  <2>2. s * (b - q - 1) >= 0
    BY <2>1
  <2> QED
    BY <1>2, <2>2
<1>4. b < q => b * s < s * q
  <2> SUFFICES ASSUME b < q PROVE b * s < s * q
    OBVIOUS
  <2>1. q - b - 1 \in Nat
    BY <1>2
  <2>2. s * (q - b - 1) >= 0
    BY <2>1
  <2> QED
    BY <1>2, <2>2
<1>5. q = b
  BY <1>2, <1>3, <1>4
<1>6. b * s = s * b
  OBVIOUS
<1> QED
  BY <1>1, <1>2, <1>5, <1>6 DEF q

\* The wares by their ids are all of them.
LEMMA IdsAreWares ==
    /\ Len(WareIds) \in Nat /\ DOMAIN WareIds = 1 .. Len(WareIds)
    /\ \A i \in 1 .. Len(WareIds) : WareIds[i] \in Wares
    /\ \A w \in Wares : \E i \in 1 .. Len(WareIds) : WareIds[i] = w
<1>1. ListOf(WareIds, Wares)
  BY FilesAssumption, SetToSeqIs DEF WareIds
<1> QED
  BY <1>1 DEF ListOf

-----------------------------------------------------------------------------
(* A copy is read as it was written.                                       *)

\* The masks that are used: they grow, and each is more than its number of bits.
LEMMA MasksAre ==
    /\ BITMASKS[0] = 0 /\ TYPES \in Nat /\ ELEMENTS \in Nat
    /\ \A n \in 0 .. TYPES + 1 : BITMASKS[n] \in Nat
    /\ \A n \in 0 .. ELEMENTS : BITMASKS[n] \in Nat
    /\ \A n \in 0 .. TYPES : BITMASKS[n + 1] = 2 * BITMASKS[n] + 1
    /\ \A n \in Nat : n < ELEMENTS => BITMASKS[n + 1] = 2 * BITMASKS[n] + 1
<1>1. /\ BITMASKS[0] = 0 /\ TYPES \in Nat /\ ELEMENTS \in Nat
      /\ \A n \in 0 .. TYPES : BITMASKS[n] \in Nat /\ BITMASKS[n + 1] = 2 * BITMASKS[n] + 1
      /\ \A n \in 0 .. ELEMENTS - 1 : BITMASKS[n] \in Nat /\ BITMASKS[n + 1] = 2 * BITMASKS[n] + 1
  BY FilesAssumption
<1>2. ASSUME NEW n \in 0 .. TYPES + 1 PROVE BITMASKS[n] \in Nat
  <2>1. CASE n \in 0 .. TYPES
    BY <1>1, <2>1
  <2>2. CASE n = TYPES + 1
    <3>1. TYPES \in 0 .. TYPES
      BY <1>1
    <3>2. BITMASKS[TYPES] \in Nat /\ BITMASKS[TYPES + 1] = 2 * BITMASKS[TYPES] + 1
      BY <1>1, <3>1
    <3>3. 2 * BITMASKS[TYPES] + 1 \in Nat
      BY <3>2
    <3> QED
      BY <2>2, <3>2, <3>3
  <2> QED
    BY <1>1, <2>1, <2>2
<1>3. ASSUME NEW n \in 0 .. ELEMENTS PROVE BITMASKS[n] \in Nat
  <2>1. CASE n \in 0 .. ELEMENTS - 1
    BY <1>1, <2>1
  <2>2. CASE n = ELEMENTS /\ ELEMENTS # 0
    <3>1. ELEMENTS - 1 \in 0 .. ELEMENTS - 1 /\ ELEMENTS - 1 + 1 = ELEMENTS
      BY <1>1, <2>2
    <3>2. BITMASKS[ELEMENTS - 1] \in Nat /\ BITMASKS[ELEMENTS - 1 + 1] = 2 * BITMASKS[ELEMENTS - 1] + 1
      BY <1>1, <3>1
    <3>3. 2 * BITMASKS[ELEMENTS - 1] + 1 \in Nat
      BY <3>2
    <3> QED
      BY <2>2, <3>1, <3>2, <3>3
  <2>3. CASE n = 0
    BY <1>1, <2>3
  <2> QED
    BY <1>1, <2>1, <2>2, <2>3
<1> QED
  BY <1>1, <1>2, <1>3

\* A distance comes back from its type and its bits.
LEMMA DistanceIsRead ==
    ASSUME NEW d \in 1 .. MaxDistance
    PROVE  offset(DistanceCode(d).type, DistanceCode(d).bits) = -d
<1> DEFINE mask(n) == BITMASKS[n]
           Beyond == {t \in 0 .. TYPES - 1 : d < mask(t + 2)}
           Fits(t) == mask(t + 1) <= d /\ d < mask(t + 2)
<1>1. /\ mask(0) = 0 /\ TYPES \in Nat
      /\ \A n \in 0 .. TYPES + 1 : mask(n) \in Nat
      /\ \A n \in 0 .. TYPES : mask(n + 1) = 2 * mask(n) + 1
      /\ d \in Nat /\ 1 <= d /\ d <= mask(TYPES + 1) - 1
  BY MasksAre DEF MaxDistance
<1>2. mask(1) = 1
  <2>1. 0 \in 0 .. TYPES /\ 0 + 1 = 1
    BY <1>1
  <2>2. mask(0 + 1) = 2 * mask(0) + 1
    BY <1>1, <2>1
  <2> QED
    BY <1>1, <2>1, <2>2
<1>3. TYPES - 1 \in Beyond
  <2>1. TYPES # 0
    BY <1>1, <1>2
  <2>2. TYPES - 1 + 2 = TYPES + 1 /\ TYPES - 1 \in 0 .. TYPES - 1 /\ TYPES + 1 \in 0 .. TYPES + 1
    BY <1>1, <2>1
  <2>3. d < mask(TYPES + 1)
    BY <1>1, <2>2
  <2> QED
    BY <2>2, <2>3
<1>4. PICK t \in Beyond : \A u \in Beyond : t <= u
  <2>1. Beyond \in SUBSET (0 .. TYPES - 1)
    OBVIOUS
  <2> HIDE DEF Beyond
  <2>2. Beyond \in SUBSET Nat /\ Beyond # {}
    BY <1>1, <1>3, <2>1
  <2> QED
    BY <2>2, LeastNatural
<1>5. t \in 0 .. TYPES - 1 /\ Fits(t)
  <2>1. CASE t = 0
    BY <1>1, <1>2, <1>4, <2>1
  <2>2. CASE t # 0
    <3>1. t - 1 \in 0 .. TYPES - 1 /\ t - 1 + 2 = t + 1 /\ t + 1 \in 0 .. TYPES + 1
      BY <1>1, <1>4, <2>2
    <3>2. t - 1 \notin Beyond
      BY <1>4, <3>1
    <3> QED
      BY <1>1, <1>4, <3>1, <3>2
  <2> QED
    BY <2>1, <2>2
<1> DEFINE u == CHOOSE u \in 0 .. TYPES - 1 : Fits(u)
<1>6. u \in 0 .. TYPES - 1
  BY <1>5
<1>7. DistanceCode(d) = [type |-> u, bits |-> d - mask(u + 1)]
  BY DEF DistanceCode
<1> HIDE DEF u
<1>8. mask(u + 1) \in Nat
  <2>1. u + 1 \in 0 .. TYPES + 1
    BY <1>1, <1>6
  <2> QED
    BY <1>1, <2>1
<1>9. offset(DistanceCode(d).type, DistanceCode(d).bits) = -((mask(u + 1) - 1) + (d - mask(u + 1))) - 1
  BY <1>7 DEF offset
<1> HIDE DEF mask
<1> QED
  BY <1>1, <1>8, <1>9

\* A chain of one more full field is worth what that field holds more.
LEMMA FullFieldsAdd ==
    ASSUME NEW k \in Nat, k <= ELEMENTS - 3
    PROVE  /\ full(k) \in Int /\ full(k + 1) \in Int /\ BITMASKS[k + 2] \in Nat
           /\ full(k + 1) = full(k) + BITMASKS[k + 2]
<1> DEFINE mask(n) == BITMASKS[n]
<1>1. ELEMENTS \in Nat /\ k + 2 \in 0 .. ELEMENTS /\ k + 3 \in 0 .. ELEMENTS /\ k + 2 < ELEMENTS /\ k + 2 \in Nat
  BY MasksAre
<1>2. mask(k + 2) \in Nat /\ mask(k + 3) \in Nat
  BY <1>1, MasksAre
<1>3. mask(k + 3) = 2 * mask(k + 2) + 1
  <2>1. mask((k + 2) + 1) = 2 * mask(k + 2) + 1 /\ (k + 2) + 1 = k + 3
    BY <1>1, MasksAre
  <2> QED
    BY <2>1
<1>4. full(k) = mask(k + 2) - (k + 3)
  BY DEF full
<1>5. full(k + 1) = mask(k + 3) - (k + 4)
  <2>1. (k + 1) + 2 = k + 3 /\ (k + 1) + 3 = k + 4
    OBVIOUS
  <2> QED
    BY <2>1 DEF full
<1>6. BITMASKS[k + 2] = mask(k + 2)
  OBVIOUS
<1> HIDE DEF mask
<1> QED
  BY <1>2, <1>3, <1>4, <1>5, <1>6

\* Without a full field there is nothing to add.
LEMMA FullOfNone == 3 <= ELEMENTS => full(0) = 0
<1> DEFINE mask(n) == BITMASKS[n]
<1> SUFFICES ASSUME 3 <= ELEMENTS PROVE full(0) = 0
  OBVIOUS
<1>1. ELEMENTS \in Nat /\ 0 < ELEMENTS /\ 1 < ELEMENTS /\ mask(0) = 0 /\ 0 \in Nat /\ 1 \in Nat
  BY MasksAre
<1>2. mask(0 + 1) = 2 * mask(0) + 1 /\ mask(1 + 1) = 2 * mask(1) + 1
  BY <1>1, MasksAre
<1>3. full(0) = mask(0 + 2) - (0 + 3)
  BY DEF full
<1> HIDE DEF mask
<1>4. mask(1) = 1
  BY <1>1, <1>2
<1>5. mask(2) = 3
  BY <1>2, <1>4
<1> QED
  BY <1>3, <1>5

\* A length is k full fields and one that is not.
CodeFields(k, fields, count) ==
    /\ k \in Nat /\ k <= ELEMENTS - 3
    /\ full(k) <= count - 2 /\ count - 2 < full(k + 1)
    /\ fields = [i \in 1 .. k + 1 |-> IF i <= k THEN BITMASKS[i + 1] ELSE count - 2 - full(k)]

\* A length has one code, and the code has the fields of its chain.
LEMMA LengthIsWritten ==
    ASSUME NEW count \in Nat, 2 <= count, count - 2 < full(ELEMENTS - 2)
    PROVE  \E k \in Nat : CodeFields(k, LengthCode(count), count)
<1> DEFINE Reaches(k) == count - 2 < full(k + 1)
           T == {k \in 0 .. ELEMENTS - 3 : Reaches(k)}
           InCode(k) == full(k) <= count - 2 /\ count - 2 < full(k + 1)
<1>1. ELEMENTS \in Nat /\ 3 <= ELEMENTS
  <2>1. ELEMENTS \in Nat
    BY MasksAre
  <2>2. CASE ELEMENTS < 3
    <3>1. full(ELEMENTS - 2) = BITMASKS[(ELEMENTS - 2) + 2] - ((ELEMENTS - 2) + 3) /\ (ELEMENTS - 2) + 2 = ELEMENTS
      BY <2>1 DEF full
    <3>2. full(ELEMENTS - 2) = BITMASKS[ELEMENTS] - (ELEMENTS + 1)
      BY <2>1, <3>1
    <3>3. BITMASKS[0] = 0 /\ (ELEMENTS = 1 => BITMASKS[1] = 1) /\ (ELEMENTS = 2 => BITMASKS[2] = 3)
      <4>1. 0 < ELEMENTS => BITMASKS[0 + 1] = 2 * BITMASKS[0] + 1
        BY MasksAre
      <4>2. 1 < ELEMENTS => BITMASKS[1 + 1] = 2 * BITMASKS[1] + 1
        BY MasksAre
      <4> QED
        BY <4>1, <4>2, MasksAre
    <3>4. ELEMENTS \in {0, 1, 2}
      BY <2>1, <2>2
    <3> QED
      BY <3>2, <3>3, <3>4
  <2> QED
    BY <2>1, <2>2
<1>2. T \in SUBSET Nat /\ T # {}
  <2>1. ELEMENTS - 3 \in 0 .. ELEMENTS - 3 /\ ELEMENTS - 3 + 1 = ELEMENTS - 2
    BY <1>1
  <2>2. Reaches(ELEMENTS - 3)
    BY <2>1
  <2> HIDE DEF Reaches
  <2> QED
    BY <1>1, <2>1, <2>2
<1>3. PICK k \in T : \A j \in T : k <= j
  <2> HIDE DEF T
  <2> QED
    BY <1>2, LeastNatural
<1>4. k \in 0 .. ELEMENTS - 3 /\ InCode(k)
  <2>1. CASE k = 0
    BY <1>1, <1>3, <2>1, FullOfNone
  <2>2. CASE k # 0
    <3>1. k - 1 \in 0 .. ELEMENTS - 3 /\ k - 1 + 1 = k
      BY <1>1, <1>3, <2>2
    <3>2. ~(count - 2 < full(k))
      BY <1>3, <3>1
    <3>3. full(k) \in Int
      BY <1>1, <1>3, FullFieldsAdd
    <3> QED
      BY <1>3, <3>2, <3>3
  <2> QED
    BY <2>1, <2>2
<1> DEFINE j == CHOOSE j \in 0 .. ELEMENTS - 3 : InCode(j)
<1>5. j \in 0 .. ELEMENTS - 3 /\ InCode(j)
  <2> HIDE DEF InCode
  <2> QED
    BY <1>4
<1>6. LengthCode(count) = [i \in 1 .. j + 1 |-> IF i <= j THEN BITMASKS[i + 1] ELSE count - 2 - full(j)]
  BY DEF LengthCode
<1> HIDE DEF j
<1>7. CodeFields(j, LengthCode(count), count)
  BY <1>1, <1>5, <1>6 DEF CodeFields
<1> QED
  BY <1>1, <1>5, <1>7

\* The reading of fields stops where the writing did.
LEMMA FieldsAreRead ==
    ASSUME NEW k, NEW fields, NEW count \in Nat, CodeFields(k, fields, count)
    PROVE  FieldsRead(fields) = fields
<1> DEFINE short == {i \in DOMAIN fields : fields[i] # BITMASKS[i + 1]}
<1>1. k \in Nat /\ DOMAIN fields = 1 .. k + 1 /\ full(k) \in Int /\ BITMASKS[k + 2] \in Nat /\ full(k + 1) = full(k) + BITMASKS[k + 2]
  BY FullFieldsAdd DEF CodeFields
<1>2. fields[k + 1] = count - 2 - full(k) /\ fields[k + 1] # BITMASKS[(k + 1) + 1]
  <2>1. fields[k + 1] = count - 2 - full(k)
    BY <1>1 DEF CodeFields
  <2>2. count - 2 - full(k) < BITMASKS[k + 2]
    BY <1>1 DEF CodeFields
  <2>3. (k + 1) + 1 = k + 2
    BY <1>1
  <2>4. count - 2 - full(k) \in Int
    BY <1>1
  <2> HIDE DEF CodeFields
  <2> QED
    BY <1>1, <2>1, <2>2, <2>3, <2>4
<1>3. \A i \in 1 .. k : fields[i] = BITMASKS[i + 1]
  BY <1>1 DEF CodeFields
<1>4. short = {k + 1}
  <2>1. \A i \in 1 .. k + 1 : i \in 1 .. k \/ i = k + 1
    BY <1>1
  <2>2. k + 1 \in 1 .. k + 1
    BY <1>1
  <2> QED
    BY <1>1, <1>2, <1>3, <2>1, <2>2
<1>5. Min(short) = k + 1
  BY <1>1, <1>4 DEF Min
<1>6. FieldsRead(fields) = SubSeq(fields, 1, k + 1)
  BY <1>4, <1>5 DEF FieldsRead
<1>7. Len(fields) = k + 1 /\ fields = [i \in 1 .. k + 1 |-> fields[i]]
  BY <1>1 DEF CodeFields
<1> QED
  BY <1>1, <1>6, <1>7

\* The fields add up to the length.
LEMMA LengthIsRead ==
    ASSUME NEW k, NEW fields, NEW count \in Nat, CodeFields(k, fields, count)
    PROVE  output_elements(fields) = count
<1> DEFINE LengthSums(f) == f = [i \in 0 .. Len(fields) |-> IF i = 0 THEN 2 ELSE f[i - 1] + fields[i]]
           soFar == [i \in 0 .. Len(fields) |-> IF i <= k THEN 2 + full(i) ELSE count]
           sum == CHOOSE f : LengthSums(f)
<1>1. k \in Nat /\ k <= ELEMENTS - 3 /\ Len(fields) = k + 1 /\ full(k) \in Int
  BY FullFieldsAdd DEF CodeFields
<1>2. \A i \in 0 .. k : full(i) \in Int
  <2> SUFFICES ASSUME NEW i \in 0 .. k PROVE full(i) \in Int
    OBVIOUS
  <2>1. i \in Nat /\ i <= ELEMENTS - 3
    <3>1. ELEMENTS \in Nat
      BY MasksAre
    <3> QED
      BY <1>1, <3>1
  <2> QED
    BY <2>1, FullFieldsAdd
<1>3. \A i \in 1 .. k : fields[i] = BITMASKS[i + 1] /\ full(i) = full(i - 1) + fields[i]
  <2> SUFFICES ASSUME NEW i \in 1 .. k PROVE fields[i] = BITMASKS[i + 1] /\ full(i) = full(i - 1) + fields[i]
    OBVIOUS
  <2>1. ELEMENTS \in Nat
    BY MasksAre
  <2>2. i - 1 \in Nat /\ i - 1 <= ELEMENTS - 3 /\ (i - 1) + 1 = i /\ (i - 1) + 2 = i + 1
    BY <1>1, <2>1
  <2>3. full((i - 1) + 1) = full(i - 1) + BITMASKS[(i - 1) + 2]
    BY <2>2, FullFieldsAdd
  <2>4. fields[i] = BITMASKS[i + 1]
    BY <1>1 DEF CodeFields
  <2> QED
    BY <2>2, <2>3, <2>4
<1>4. fields[k + 1] = count - 2 - full(k)
  BY <1>1 DEF CodeFields
<1>5. full(0) = 0
  <2>1. ELEMENTS \in Nat
    BY MasksAre
  <2> QED
    BY <1>1, <2>1, FullOfNone
<1> DEFINE worth(i) == full(i)
<1>6. soFar = [i \in 0 .. k + 1 |-> IF i <= k THEN 2 + worth(i) ELSE count] /\ soFar[0] = 2
  BY <1>1, <1>5
<1>7. \A i \in 1 .. k + 1 : soFar[i] = soFar[i - 1] + fields[i]
  <2> SUFFICES ASSUME NEW i \in 1 .. k + 1 PROVE soFar[i] = soFar[i - 1] + fields[i]
    OBVIOUS
  <2>1. CASE i = k + 1
    <3>1. soFar[k + 1] = count /\ soFar[k] = 2 + worth(k)
      BY <1>1, <1>6
    <3>2. k + 1 - 1 = k
      BY <1>1
    <3> QED
      BY <1>1, <1>4, <2>1, <3>1, <3>2
  <2>2. CASE i \in 1 .. k
    <3>1. soFar[i] = 2 + worth(i) /\ soFar[i - 1] = 2 + worth(i - 1)
      BY <1>1, <1>6, <2>2
    <3>2. worth(i - 1) \in Int /\ worth(i) \in Int /\ worth(i) = worth(i - 1) + fields[i] /\ fields[i] \in Int
      <4>1. i - 1 \in 0 .. k /\ i \in 0 .. k
        BY <1>1, <2>2
      <4>2. i - 1 \in Nat /\ i - 1 <= ELEMENTS - 3 /\ (i - 1) + 2 = i + 1
        <5>1. ELEMENTS \in Nat
          BY MasksAre
        <5> QED
          BY <1>1, <2>2, <5>1
      <4>3. BITMASKS[i + 1] \in Nat
        BY <4>2, FullFieldsAdd
      <4> QED
        BY <1>2, <1>3, <2>2, <4>1, <4>3
    <3> HIDE DEF worth, soFar
    <3> QED
      BY <3>1, <3>2
  <2> QED
    BY <1>1, <2>1, <2>2
<1> HIDE DEF worth
<1>8. LengthSums(soFar)
  <2> DEFINE g == [i \in 0 .. Len(fields) |-> IF i = 0 THEN 2 ELSE soFar[i - 1] + fields[i]]
  <2>1. \A i \in 0 .. k + 1 : soFar[i] = g[i]
    <3> SUFFICES ASSUME NEW i \in 0 .. k + 1 PROVE soFar[i] = g[i]
      OBVIOUS
    <3>1. Len(fields) = k + 1
      BY <1>1
    <3>2. g[i] = IF i = 0 THEN 2 ELSE soFar[i - 1] + fields[i]
      BY <3>1
    <3>3. CASE i = 0
      BY <1>6, <3>2, <3>3
    <3>4. CASE i # 0
      <4>1. i \in 1 .. k + 1
        BY <1>1, <3>4
      <4> HIDE DEF g, soFar
      <4> QED
        BY <1>7, <3>2, <3>4, <4>1
    <3> QED
      BY <3>3, <3>4
  <2>2. DOMAIN soFar = 0 .. k + 1 /\ DOMAIN g = 0 .. k + 1 /\ soFar = [i \in 0 .. k + 1 |-> soFar[i]] /\ g = [i \in 0 .. k + 1 |-> g[i]]
    BY <1>1
  <2> HIDE DEF g, soFar
  <2>3. soFar = g
    BY <2>1, <2>2
  <2> QED
    BY <2>3 DEF g
<1>9. LengthSums(sum)
  <2> HIDE DEF LengthSums
  <2> QED
    BY <1>8
<1>10. output_elements(fields) = sum[Len(fields)]
  BY DEF output_elements
<1> HIDE DEF sum
<1>11. \A i \in 0 .. k + 1 : sum[i] = soFar[i]
  <2> DEFINE T == {i \in 0 .. k + 1 : sum[i] = soFar[i]}
  <2>1. 0 \in T
    BY <1>1, <1>6, <1>9
  <2>2. ASSUME NEW i \in 0 .. k + 1 - 1, i \in T PROVE i + 1 \in T
    <3>1. i + 1 \in 1 .. k + 1 /\ i + 1 \in 0 .. Len(fields) /\ (i + 1) - 1 = i /\ i + 1 # 0
      BY <1>1
    <3>2. sum[i + 1] = sum[i] + fields[i + 1]
      BY <1>9, <3>1
    <3>3. soFar[i + 1] = soFar[i] + fields[i + 1]
      BY <1>7, <3>1
    <3> HIDE DEF soFar, LengthSums
    <3> QED
      BY <2>2, <3>1, <3>2, <3>3
  <2> HIDE DEF T
  <2>3. \A i \in 0 .. k + 1 : i \in T
    BY <1>1, <2>1, <2>2, IntervalInduction
  <2> QED
    BY <2>3 DEF T
<1>12. soFar[k + 1] = count
  BY <1>1, <1>6
<1> HIDE DEF soFar, LengthSums
<1> QED
  BY <1>1, <1>10, <1>11, <1>12

\* A copy pushes what comes next, also where it copies what it has just pushed.
LEMMA CopyContinues ==
    ASSUME NEW V, NEW data \in Seq(V), NEW m \in Nat, NEW d \in Nat, NEW count \in Nat,
           1 <= d, d <= m, m + count <= Len(data),
           \A i \in 1 .. count : data[m + i] = data[m + i - d]
    PROVE  Repeat(SubSeq(data, 1, m), -d, count) = SubSeq(data, 1, m + count)
<1> DEFINE out == SubSeq(data, 1, m)
           step(o, i) == Append(o, o[Len(out) + (-d) + i])
           Pushes(f) == f = [i \in 0 .. count |-> IF i = 0 THEN out ELSE step(f[i - 1], i)]
           soFar == [i \in 0 .. count |-> SubSeq(data, 1, m + i)]
           pushed == CHOOSE f : Pushes(f)
<1>1. Len(data) \in Nat /\ out \in Seq(V) /\ Len(out) = m /\ m <= Len(data)
  BY LenProperties
<1>2. soFar[0] = out
  OBVIOUS
<1>3. \A i \in 1 .. count : soFar[i] = step(soFar[i - 1], i)
  <2> SUFFICES ASSUME NEW i \in 1 .. count PROVE soFar[i] = step(soFar[i - 1], i)
    OBVIOUS
  <2> DEFINE front == SubSeq(data, 1, m + i - 1)
             after == SubSeq(data, 1, m + i)
  <2>1. i - 1 \in 0 .. count /\ m + (i - 1) = m + i - 1 /\ m + i - d \in 1 .. m + i - 1 /\ m + i - 1 \in 0 .. Len(data) /\ m + i \in 1 .. Len(data)
    BY <1>1
  <2>2. soFar[i - 1] = front /\ soFar[i] = after
    BY <2>1
  <2>3. front \in Seq(V) /\ Len(front) = m + i - 1 /\ \A j \in 1 .. m + i - 1 : front[j] = data[j]
    BY <1>1, <2>1
  <2>4. after \in Seq(V) /\ Len(after) = m + i /\ \A j \in 1 .. m + i : after[j] = data[j]
    BY <1>1, <2>1
  <2>5. front[m + i - d] = data[m + i]
    BY <2>1, <2>3
  <2>6. step(front, i) = Append(front, data[m + i])
    <3>1. Len(out) + (-d) + i = m + i - d
      BY <1>1
    <3> QED
      BY <2>5, <3>1
  <2> HIDE DEF front, after
  <2>7. data[m + i] \in V
    BY <2>1
  <2>8. Append(front, data[m + i]) = after
    <3> DEFINE x == data[m + i]
               ap == Append(front, x)
    <3>1. x \in V /\ m + i - 1 + 1 = m + i
      BY <2>1, <2>7
    <3>2. ap \in Seq(V) /\ Len(ap) = m + i /\ ap[m + i] = x /\ \A j \in 1 .. m + i - 1 : ap[j] = front[j]
      <4> HIDE DEF x
      <4> QED
        BY <2>3, <3>1
    <3>3. \A j \in 1 .. m + i : ap[j] = after[j]
      <4> SUFFICES ASSUME NEW j \in 1 .. m + i PROVE ap[j] = after[j]
        OBVIOUS
      <4>1. CASE j = m + i
        BY <2>1, <2>4, <3>2, <4>1
      <4>2. CASE j \in 1 .. m + i - 1
        BY <2>3, <2>4, <3>2, <4>2
      <4>3. j = m + i \/ j \in 1 .. m + i - 1
        BY <2>1
      <4> HIDE DEF ap, x
      <4> QED
        BY <4>1, <4>2, <4>3
    <3> HIDE DEF ap, x
    <3> QED
      BY <2>4, <3>2, <3>3, SeqEqual DEF ap, x
  <2> QED
    BY <2>2, <2>6, <2>8
<1> HIDE DEF soFar
<1>4. Pushes(soFar)
  <2> DEFINE g == [i \in 0 .. count |-> IF i = 0 THEN out ELSE step(soFar[i - 1], i)]
  <2>1. ASSUME NEW i \in 0 .. count PROVE soFar[i] = g[i]
    <3>1. CASE i = 0
      BY <1>2, <3>1
    <3>2. CASE i \in 1 .. count
      <4>1. soFar[i] = step(soFar[i - 1], i)
        BY <1>3, <3>2
      <4>2. g[i] = step(soFar[i - 1], i)
        <5> HIDE DEF step
        <5> QED
          BY <3>2
      <4> QED
        BY <4>1, <4>2
    <3> QED
      BY <3>1, <3>2
  <2>2. DOMAIN soFar = 0 .. count /\ soFar = [i \in 0 .. count |-> soFar[i]] /\ g = [i \in 0 .. count |-> g[i]]
    BY DEF soFar
  <2> HIDE DEF g
  <2>3. soFar = g
    BY <2>1, <2>2
  <2> QED
    BY <2>3 DEF g
<1>5. Pushes(pushed)
  <2> HIDE DEF Pushes
  <2> QED
    BY <1>4
<1>6. Repeat(out, -d, count) = pushed[count]
  BY DEF Repeat
<1> HIDE DEF pushed
<1>7. \A i \in 0 .. count : pushed[i] = soFar[i]
  <2> DEFINE T == {i \in 0 .. count : pushed[i] = soFar[i]}
  <2>1. 0 \in T
    BY <1>2, <1>5
  <2>2. ASSUME NEW i \in 0 .. count - 1, i \in T PROVE i + 1 \in T
    <3>1. i + 1 \in 1 .. count /\ (i + 1) - 1 = i /\ i + 1 # 0
      OBVIOUS
    <3>2. pushed[i + 1] = step(pushed[i], i + 1)
      <4>1. pushed = [n \in 0 .. count |-> IF n = 0 THEN out ELSE step(pushed[n - 1], n)]
        BY <1>5
      <4> DEFINE value(n) == IF n = 0 THEN out ELSE step(pushed[n - 1], n)
      <4>2. value(i + 1) = step(pushed[i], i + 1)
        <5> HIDE DEF step
        <5> QED
          BY <3>1
      <4>3. i + 1 \in 0 .. count
        OBVIOUS
      <4>4. pushed = [n \in 0 .. count |-> value(n)]
        BY <4>1
      <4> HIDE DEF value
      <4>5. pushed[i + 1] = value(i + 1)
        BY <4>3, <4>4
      <4> QED
        BY <4>2, <4>5
    <3>3. soFar[i + 1] = step(soFar[i], i + 1)
      BY <1>3, <3>1
    <3> HIDE DEF step, Pushes
    <3> QED
      BY <2>2, <3>1, <3>2, <3>3
  <2> HIDE DEF T
  <2>3. \A i \in 0 .. count : i \in T
    BY <2>1, <2>2, IntervalInduction
  <2> QED
    BY <2>3 DEF T
<1> QED
  BY <1>6, <1>7 DEF soFar

-----------------------------------------------------------------------------
(* The stops are found again in the array.                                 *)

\* Cutting in the first part of two.
LEMMA CutOfFirst ==
    ASSUME NEW V, NEW a \in Seq(V), NEW b \in Seq(V), NEW p \in Nat, NEW q \in Nat,
           1 <= p, p <= q + 1, q <= Len(a)
    PROVE  SubSeq(a \o b, p, q) = SubSeq(a, p, q)
<1> DEFINE ab == a \o b
           cut == SubSeq(a, p, q)
           cutAb == SubSeq(ab, p, q)
<1>1. Len(a) \in Nat /\ Len(b) \in Nat
  OBVIOUS
<1>2. ab \in Seq(V) /\ Len(ab) = Len(a) + Len(b) /\ \A i \in 1 .. Len(a) : ab[i] = a[i]
  BY <1>1
<1> HIDE DEF ab
<1>3. cut \in Seq(V) /\ Len(cut) = q - p + 1 /\ \A i \in 1 .. q - p + 1 : cut[i] = a[p + i - 1]
  BY <1>1
<1>4. cutAb \in Seq(V) /\ Len(cutAb) = q - p + 1 /\ \A i \in 1 .. q - p + 1 : cutAb[i] = ab[p + i - 1]
  BY <1>1, <1>2
<1>5. \A i \in 1 .. q - p + 1 : p + i - 1 \in 1 .. Len(a)
  BY <1>1
<1> HIDE DEF cut, cutAb
<1>6. \A i \in 1 .. Len(cut) : cut[i] = cutAb[i]
  BY <1>2, <1>3, <1>4, <1>5
<1>7. cut = cutAb
  BY <1>3, <1>4, <1>6, SeqEqual
<1> QED
  BY <1>7 DEF cut, cutAb, ab

\* Cutting off just the second.
LEMMA CutOfSecond ==
    ASSUME NEW V, NEW a \in Seq(V), NEW b \in Seq(V)
    PROVE  SubSeq(a \o b, Len(a) + 1, Len(a) + Len(b)) = b
<1> DEFINE ab == a \o b
           cut == SubSeq(ab, Len(a) + 1, Len(a) + Len(b))
<1>1. Len(a) \in Nat /\ Len(b) \in Nat
  OBVIOUS
<1>2. ab \in Seq(V) /\ Len(ab) = Len(a) + Len(b) /\ \A i \in 1 .. Len(b) : ab[Len(a) + i] = b[i]
  BY <1>1
<1> HIDE DEF ab
<1>3. cut \in Seq(V) /\ Len(cut) = Len(b) /\ \A i \in 1 .. Len(b) : cut[i] = ab[Len(a) + 1 + i - 1]
  BY <1>1, <1>2
<1> HIDE DEF cut
<1>4. \A i \in 1 .. Len(b) : cut[i] = b[i]
  <2> SUFFICES ASSUME NEW i \in 1 .. Len(b) PROVE cut[i] = b[i]
    OBVIOUS
  <2>1. Len(a) + 1 + i - 1 = Len(a) + i
    BY <1>1
  <2> QED
    BY <1>2, <1>3, <2>1
<1>5. cut = b
  BY <1>3, <1>4, SeqEqual
<1> QED
  BY <1>5 DEF cut, ab

\* Pieces of one size, one after the other.
Pieces(d, n, seqs, size, V) ==
    /\ d \in Seq(V) /\ Len(d) = n * size
    /\ \A i \in 1 .. n : SubSeq(d, (i - 1) * size + 1, i * size) = seqs[i]

\* A list of pieces of one size, and the same with one piece more.
LEMMA OneMorePiece ==
    ASSUME NEW V, NEW d, NEW n \in Nat, NEW seqs, NEW size \in Nat, Pieces(d, n, seqs, size, V),
           seqs[n + 1] \in Seq(V), Len(seqs[n + 1]) = size
    PROVE  Pieces(d \o seqs[n + 1], n + 1, seqs, size, V)
<1> DEFINE new == seqs[n + 1]
           all == d \o new
<1>1. d \in Seq(V) /\ Len(d) = n * size /\ new \in Seq(V) /\ Len(new) = size
  BY DEF Pieces
<1>2. n * size \in Nat /\ (n + 1) * size = n * size + size
  OBVIOUS
<1>3. all \in Seq(V) /\ Len(all) = (n + 1) * size
  BY <1>1, <1>2
<1>4. ASSUME NEW i \in 1 .. n PROVE SubSeq(all, (i - 1) * size + 1, i * size) = seqs[i]
  <2> DEFINE q == i * size
             p == (i - 1) * size
  <2>1. p \in Nat /\ q \in Nat /\ q = p + size
    OBVIOUS
  <2>2. q <= n * size
    <3>1. (n - i) * size \in Nat
      OBVIOUS
    <3>2. n * size = i * size + (n - i) * size
      OBVIOUS
    <3> QED
      BY <3>1, <3>2, <2>1, <1>2
  <2>3. SubSeq(d, p + 1, q) = seqs[i]
    BY DEF Pieces
  <2> HIDE DEF p, q, new
  <2>4. p + 1 \in Nat /\ 1 <= p + 1 /\ p + 1 <= q + 1 /\ q <= Len(d)
    BY <1>1, <2>1, <2>2
  <2>5. SubSeq(d \o new, p + 1, q) = SubSeq(d, p + 1, q)
    BY <1>1, <2>1, <2>4, CutOfFirst
  <2> QED
    BY <2>3, <2>5 DEF p, q
<1>5. SubSeq(all, ((n + 1) - 1) * size + 1, (n + 1) * size) = new
  <2>1. ((n + 1) - 1) * size = n * size
    OBVIOUS
  <2>2. SubSeq(d \o new, Len(d) + 1, Len(d) + Len(new)) = new
    <3> HIDE DEF new
    <3> QED
      BY <1>1, CutOfSecond
  <2> QED
    BY <1>1, <1>2, <2>1, <2>2
<1>6. \A i \in 1 .. n + 1 : i \in 1 .. n \/ i = n + 1
  OBVIOUS
<1> HIDE DEF all
<1>7. \A i \in 1 .. n + 1 : SubSeq(all, (i - 1) * size + 1, i * size) = seqs[i]
  BY <1>4, <1>5, <1>6
<1> QED
  BY <1>3, <1>7 DEF Pieces, all

\* Sequences end to end, one after another.
Gathers(f, n, seqs, V) ==
    /\ f \in [1 .. n -> Seq(V)]
    /\ f[1] = seqs[1] /\ \A i \in 1 .. n - 1 : f[i + 1] = f[i] \o seqs[i + 1]

\* So they come out: the sequences so far, one after another, and at last them all.
LEMMA Flattened ==
    ASSUME NEW V, NEW n \in Nat \ {0}, NEW seqs \in [1 .. n -> Seq(V)]
    PROVE  \E f : Gathers(f, n, seqs, V) /\ FlattenSeq(seqs) = f[n]
<1> DEFINE D == Seq(V)
           add(x, i) == IF i = 1 THEN seqs[i] ELSE x \o seqs[i]
           step == [a \in (1 .. n) \X D |-> add(a[2], a[1])]
           Flattens(f) == f = [i \in 1 .. Len(seqs) |-> IF i = 1 THEN seqs[i] ELSE f[i - 1] \o seqs[i]]
           flatten == CHOOSE f : Flattens(f)
<1>1. Len(seqs) = n /\ \A i \in 1 .. n : seqs[i] \in D
  OBVIOUS
<1>2. step \in [(1 .. n) \X D -> D]
  <2>1. ASSUME NEW i \in 1 .. n, NEW x \in D PROVE add(x, i) \in D
    BY <1>1
  <2> HIDE DEF add, D
  <2> QED
    BY <2>1
<1>3. PICK f : HandsOn(f, D, <<>>, n, step)
  <2>1. <<>> \in D
    OBVIOUS
  <2> HIDE DEF D, step
  <2> QED
    BY <1>2, <2>1, Recursion
<1>4. f \in [0 .. n -> D] /\ \A i \in 1 .. n : f[i] = add(f[i - 1], i)
  <2>1. f \in [0 .. n -> D] /\ \A i \in 1 .. n : f[i] = step[<<i, f[i - 1]>>]
    BY <1>3 DEF HandsOn
  <2>2. ASSUME NEW i \in 1 .. n PROVE step[<<i, f[i - 1]>>] = add(f[i - 1], i)
    <3>1. f[i - 1] \in D
      BY <2>1
    <3> HIDE DEF D, add
    <3> QED
      BY <3>1
  <2> HIDE DEF step, add, D
  <2> QED
    BY <2>1, <2>2
<1> DEFINE g == [i \in 1 .. n |-> f[i]]
           h == [i \in 1 .. n |-> add(g[i - 1], i)]
<1>5. \A i \in 1 .. n : g[i] = h[i]
  <2> SUFFICES ASSUME NEW i \in 1 .. n PROVE f[i] = add(g[i - 1], i)
    OBVIOUS
  <2>1. CASE i = 1
    BY <1>4, <2>1
  <2>2. CASE i # 1
    <3>1. g[i - 1] = f[i - 1]
      BY <2>2
    <3> QED
      BY <1>4, <3>1
  <2> QED
    BY <2>1, <2>2
<1>6. g = h
  BY <1>5
<1>7. Flattens(g)
  BY <1>1, <1>6
<1>8. Flattens(flatten)
  <2> HIDE DEF Flattens
  <2> QED
    BY <1>7
<1>9. FlattenSeq(seqs) = flatten[n]
  BY <1>1 DEF FlattenSeq
<1> HIDE DEF flatten
<1>10. /\ DOMAIN flatten = 1 .. n /\ flatten = [i \in 1 .. n |-> flatten[i]] /\ flatten[1] = seqs[1]
       /\ \A i \in 1 .. n - 1 : flatten[i + 1] = flatten[i] \o seqs[i + 1]
  <2> DEFINE value(i) == IF i = 1 THEN seqs[i] ELSE flatten[i - 1] \o seqs[i]
  <2>1. flatten = [i \in 1 .. n |-> value(i)]
    BY <1>1, <1>8
  <2>2. value(1) = seqs[1]
    OBVIOUS
  <2>3. ASSUME NEW i \in 1 .. n - 1 PROVE value(i + 1) = flatten[i] \o seqs[i + 1] /\ i + 1 \in 1 .. n
    <3>1. i + 1 # 1 /\ (i + 1) - 1 = i /\ i + 1 \in 1 .. n
      OBVIOUS
    <3> QED
      BY <3>1
  <2>4. 1 \in 1 .. n
    OBVIOUS
  <2> HIDE DEF value
  <2> QED
    BY <2>1, <2>2, <2>3, <2>4
<1> DEFINE T == {i \in 1 .. n : flatten[i] \in D}
<1>11. 1 \in T
  BY <1>1, <1>10
<1>12. ASSUME NEW i \in 1 .. n - 1, i \in T PROVE i + 1 \in T
  <2> DEFINE x == flatten[i]
             y == seqs[i + 1]
  <2>1. i + 1 \in 1 .. n
    OBVIOUS
  <2>2. y \in Seq(V)
    BY <2>1
  <2>3. flatten[i + 1] = x \o y
    BY <1>10
  <2>4. x \in Seq(V)
    BY <1>12
  <2> HIDE DEF x, y
  <2>5. x \o y \in Seq(V)
    BY <2>2, <2>4
  <2> QED
    BY <2>1, <2>3, <2>5
<1>13. \A i \in 1 .. n : i \in T
  <2> HIDE DEF T
  <2> QED
    BY <1>11, <1>12, IntervalInduction
<1> QED
  BY <1>9, <1>10, <1>13 DEF Gathers

\* Pieces of one size end to end: the length of them all, and where each of them is.
LEMMA FlattenedPieces ==
    ASSUME NEW V, NEW n \in Nat \ {0}, NEW size \in Nat, NEW seqs \in [1 .. n -> Seq(V)],
           \A i \in 1 .. n : Len(seqs[i]) = size
    PROVE  Pieces(FlattenSeq(seqs), n, seqs, size, V)
<1>1. PICK f : Gathers(f, n, seqs, V) /\ FlattenSeq(seqs) = f[n]
  BY Flattened
<1>2. f[1] = seqs[1] /\ \A i \in 1 .. n - 1 : f[i + 1] = f[i] \o seqs[i + 1]
  BY <1>1 DEF Gathers
<1>3. Pieces(f[1], 1, seqs, size, V)
  <2>1. f[1] \in Seq(V) /\ Len(f[1]) = size
    BY <1>2
  <2>2. 1 * size = size /\ (1 - 1) * size + 1 = 1
    OBVIOUS
  <2>3. SubSeq(seqs[1], 1, size) = seqs[1]
    <3>1. seqs[1] \in Seq(V) /\ Len(seqs[1]) = size
      OBVIOUS
    <3> QED
      BY <3>1
  <2>4. \A i \in 1 .. 1 : i = 1
    OBVIOUS
  <2> QED
    BY <1>2, <2>1, <2>2, <2>3, <2>4 DEF Pieces
<1> DEFINE T == {i \in 1 .. n : Pieces(f[i], i, seqs, size, V)}
<1>4. 1 \in T
  BY <1>3
<1>5. ASSUME NEW i \in 1 .. n - 1, i \in T PROVE i + 1 \in T
  <2>1. i \in Nat /\ i + 1 \in 1 .. n /\ seqs[i + 1] \in Seq(V) /\ Len(seqs[i + 1]) = size
    OBVIOUS
  <2>2. Pieces(f[i] \o seqs[i + 1], i + 1, seqs, size, V)
    <3>1. Pieces(f[i], i, seqs, size, V)
      BY <1>5
    <3> QED
      BY <2>1, <3>1, OneMorePiece
  <2> QED
    BY <1>2, <2>1, <2>2
<1> HIDE DEF T
<1>6. \A i \in 1 .. n : i \in T
  BY <1>4, <1>5, IntervalInduction
<1> QED
  BY <1>1, <1>6 DEF T

\* The values a stop takes in the array.
ValuesOf(s) == {s.town, s.action} \cup {s.order[i] : i \in DOMAIN WareIds}
               \cup {s.price[w] : w \in Wares} \cup {s.amount[w] : w \in Wares}

\* Two sequences end to end, place by place.
LEMMA EndToEnd ==
    ASSUME NEW S, NEW f \in Seq(S), NEW g \in Seq(S), NEW m, m = Len(f), NEW n, n = Len(g)
    PROVE  /\ f \o g \in Seq(S) /\ Len(f \o g) = m + n
           /\ \A i \in 1 .. m : (f \o g)[i] = f[i]
           /\ \A i \in 1 .. n : (f \o g)[m + i] = g[i]
<1> DEFINE h == f \o g
<1>1. m \in Nat /\ n \in Nat
  OBVIOUS
<1>2. h \in Seq(S) /\ Len(h) = m + n /\ \A i \in 1 .. m + n : h[i] = IF i <= m THEN f[i] ELSE g[i - m]
  BY ConcatProperties
<1> HIDE DEF h
<1>3. ASSUME NEW i \in 1 .. m PROVE h[i] = f[i]
  BY <1>1, <1>2
<1>4. ASSUME NEW i \in 1 .. n PROVE h[m + i] = g[i]
  <2>1. m + i \in 1 .. m + n /\ ~(m + i <= m) /\ m + i - m = i
    BY <1>1
  <2> QED
    BY <1>2, <2>1
<1> QED
  BY <1>2, <1>3, <1>4 DEF h

\* A stop by its places in the array.
LEMMA StopIsLaidOut ==
    ASSUME NEW s
    PROVE  LET d == serializeStop(s)
               k == Len(WareIds)
           IN  /\ STOP_SIZE \in Nat \ {0} /\ k \in Nat
               /\ d \in Seq(ValuesOf(s)) /\ Len(d) = STOP_SIZE /\ d[1] = s.town /\ d[2] = s.action
               /\ \A i \in 1 .. k : d[2 + k + i] = s.price[WareIds[i]] /\ d[2 + 2 * k + i] = s.amount[WareIds[i]]
<1> DEFINE k == Len(WareIds)
           V == ValuesOf(s)
           a == <<s.town, s.action>>
           b == [i \in DOMAIN WareIds |-> s.order[i]]
           p == [i \in DOMAIN WareIds |-> s.price[WareIds[i]]]
           q == [i \in DOMAIN WareIds |-> s.amount[WareIds[i]]]
<1>1. k \in Nat /\ DOMAIN WareIds = 1 .. k /\ \A i \in 1 .. k : WareIds[i] \in Wares
  BY IdsAreWares
<1>2. a \in Seq(V) /\ Len(a) = 2 /\ a[1] = s.town /\ a[2] = s.action
  BY DEF ValuesOf
<1>3. b \in Seq(V) /\ Len(b) = k
  <2>1. b \in [1 .. k -> V]
    BY <1>1 DEF ValuesOf
  <2> HIDE DEF b, V, k
  <2> QED
    BY <1>1, <2>1
<1>4. p \in Seq(V) /\ Len(p) = k /\ \A i \in 1 .. k : p[i] = s.price[WareIds[i]]
  <2>1. p \in [1 .. k -> V]
    BY <1>1 DEF ValuesOf
  <2>2. \A i \in 1 .. k : p[i] = s.price[WareIds[i]]
    BY <1>1
  <2> HIDE DEF p, V, k
  <2> QED
    BY <1>1, <2>1, <2>2
<1>5. q \in Seq(V) /\ Len(q) = k /\ \A i \in 1 .. k : q[i] = s.amount[WareIds[i]]
  <2>1. q \in [1 .. k -> V]
    BY <1>1 DEF ValuesOf
  <2>2. \A i \in 1 .. k : q[i] = s.amount[WareIds[i]]
    BY <1>1
  <2> HIDE DEF q, V, k
  <2> QED
    BY <1>1, <2>1, <2>2
<1>6. serializeStop(s) = a \o b \o p \o q /\ STOP_SIZE = 2 + 3 * k
  BY DEF serializeStop, STOP_SIZE
<1> HIDE DEF a, b, p, q, V, k
<1> DEFINE ab == a \o b
<1>7. ab \in Seq(V) /\ Len(ab) = 2 + k /\ ab[1] = a[1] /\ ab[2] = a[2]
  <2>1. ab \in Seq(V) /\ Len(ab) = Len(a) + Len(b) /\ \A i \in 1 .. Len(a) : ab[i] = a[i]
    <3>1. a \in Seq(V) /\ b \in Seq(V)
      BY <1>2, <1>3
    <3>2. Len(a) \in Nat /\ Len(b) \in Nat
      BY <3>1
    <3> QED
      BY <3>1, <3>2, ConcatProperties
  <2>2. 1 \in 1 .. Len(a) /\ 2 \in 1 .. Len(a)
    BY <1>2
  <2> HIDE DEF ab
  <2> QED
    BY <1>2, <1>3, <2>1, <2>2
<1> HIDE DEF ab
<1> DEFINE abp == ab \o p
<1>8. abp \in Seq(V) /\ Len(abp) = 2 + 2 * k /\ abp[1] = ab[1] /\ abp[2] = ab[2] /\ \A i \in 1 .. k : abp[2 + k + i] = p[i]
  <2>1. /\ abp \in Seq(V) /\ Len(abp) = (2 + k) + k
        /\ \A i \in 1 .. 2 + k : abp[i] = ab[i]
        /\ \A i \in 1 .. k : abp[(2 + k) + i] = p[i]
    <3> DEFINE m == 2 + k
    <3>1. ab \in Seq(V) /\ p \in Seq(V) /\ m = Len(ab) /\ k = Len(p)
      BY <1>4, <1>7
    <3> HIDE DEF m
    <3>2. /\ ab \o p \in Seq(V) /\ Len(ab \o p) = m + k
          /\ \A i \in 1 .. m : (ab \o p)[i] = ab[i]
          /\ \A i \in 1 .. k : (ab \o p)[m + i] = p[i]
      BY <3>1, EndToEnd
    <3> QED
      BY <3>2 DEF m
  <2> HIDE DEF abp
  <2>2. 1 \in 1 .. 2 + k /\ 2 \in 1 .. 2 + k /\ (2 + k) + k = 2 + 2 * k
    BY <1>1
  <2> QED
    BY <2>1, <2>2
<1> HIDE DEF abp
<1> DEFINE d == abp \o q
<1>9. /\ d \in Seq(V) /\ Len(d) = 2 + 3 * k
      /\ \A i \in 1 .. 2 + 2 * k : d[i] = abp[i]
      /\ \A i \in 1 .. k : d[2 + 2 * k + i] = q[i]
  <2>1. /\ d \in Seq(V) /\ Len(d) = (2 + 2 * k) + k
        /\ \A i \in 1 .. 2 + 2 * k : d[i] = abp[i]
        /\ \A i \in 1 .. k : d[(2 + 2 * k) + i] = q[i]
    <3> DEFINE m == 2 + 2 * k
    <3>1. abp \in Seq(V) /\ q \in Seq(V) /\ m = Len(abp) /\ k = Len(q)
      BY <1>5, <1>8
    <3> HIDE DEF m
    <3>2. /\ abp \o q \in Seq(V) /\ Len(abp \o q) = m + k
          /\ \A i \in 1 .. m : (abp \o q)[i] = abp[i]
          /\ \A i \in 1 .. k : (abp \o q)[m + i] = q[i]
      BY <3>1, EndToEnd
    <3> QED
      BY <3>2 DEF m
  <2> HIDE DEF d
  <2>2. (2 + 2 * k) + k = 2 + 3 * k
    BY <1>1
  <2> QED
    BY <2>1, <2>2
<1>10. serializeStop(s) = d
  BY <1>6 DEF ab, abp
<1> HIDE DEF d
<1>11. \A i \in 1 .. k : 2 + k + i \in 1 .. 2 + 2 * k
  BY <1>1
<1>12. \A i \in 1 .. k : d[2 + k + i] = s.price[WareIds[i]] /\ d[2 + 2 * k + i] = s.amount[WareIds[i]]
  BY <1>4, <1>5, <1>8, <1>9, <1>11
<1>13. d[1] = s.town /\ d[2] = s.action
  BY <1>1, <1>2, <1>7, <1>8, <1>9
<1> QED
  BY <1>1, <1>6, <1>9, <1>10, <1>12, <1>13 DEF k, V

\* The line of a stop, by its wares.
OrderShown(s, w) ==
    [ware |-> w, kind |-> operation_of(s.price[w], s.amount[w]),
     price |-> magnitude(s.price[w]), amount |-> display_amount(w, s.amount[w])]

MarkerOf(s) == (s.action \div FIRST_STOP_MARKER) % 2

Shown(s) == [town |-> s.town, flag |-> s.action - MarkerOf(s) * FIRST_STOP_MARKER, first |-> MarkerOf(s) = 1,
             orders |-> {OrderShown(s, w) : w \in {w \in Wares : s.amount[w] # 0}}]

\* The line of a stop is made of its arrays as they were written.
LEMMA StopIsShown == ASSUME NEW s PROVE listing(serializeStop(s)) = Shown(s)
<1> DEFINE d == serializeStop(s)
           k == Len(WareIds)
           shownAt(i) == [ware |-> WareIds[i], kind |-> operation_of(d[2 + k + i], d[2 + 2 * k + i]),
                          price |-> magnitude(d[2 + k + i]), amount |-> display_amount(WareIds[i], d[2 + 2 * k + i])]
<1>1. /\ d[1] = s.town /\ d[2] = s.action
      /\ \A i \in 1 .. k : d[2 + k + i] = s.price[WareIds[i]] /\ d[2 + 2 * k + i] = s.amount[WareIds[i]]
  BY StopIsLaidOut
<1>2. /\ DOMAIN WareIds = 1 .. k
      /\ \A i \in 1 .. k : WareIds[i] \in Wares
      /\ \A w \in Wares : \E i \in 1 .. k : WareIds[i] = w
  BY IdsAreWares
<1>3. listing(d) = [town |-> d[1], flag |-> d[2] - ((d[2] \div FIRST_STOP_MARKER) % 2) * FIRST_STOP_MARKER,
                    first |-> (d[2] \div FIRST_STOP_MARKER) % 2 = 1,
                    orders |-> {shownAt(i) : i \in {i \in DOMAIN WareIds : d[2 + 2 * k + i] # 0}}]
  BY DEF listing
<1> HIDE DEF d, k
<1>4. \A i \in 1 .. k : shownAt(i) = OrderShown(s, WareIds[i])
  BY <1>1 DEF OrderShown
<1> HIDE DEF shownAt
<1>5. {shownAt(i) : i \in {i \in DOMAIN WareIds : d[2 + 2 * k + i] # 0}}
        = {OrderShown(s, w) : w \in {w \in Wares : s.amount[w] # 0}}
  <2> DEFINE A == {shownAt(i) : i \in {i \in DOMAIN WareIds : d[2 + 2 * k + i] # 0}}
             B == {OrderShown(s, w) : w \in {w \in Wares : s.amount[w] # 0}}
  <2>1. ASSUME NEW o \in A PROVE o \in B
    <3>1. PICK i \in 1 .. k : o = shownAt(i) /\ d[2 + 2 * k + i] # 0
      BY <1>2
    <3> QED
      BY <1>1, <1>2, <1>4, <3>1
  <2>2. ASSUME NEW o \in B PROVE o \in A
    <3>1. PICK w \in Wares : o = OrderShown(s, w) /\ s.amount[w] # 0
      OBVIOUS
    <3>2. PICK i \in 1 .. k : WareIds[i] = w
      BY <1>2
    <3> QED
      BY <1>1, <1>2, <1>4, <3>1, <3>2
  <2> HIDE DEF A, B
  <2>3. A = B
    BY <2>1, <2>2
  <2> QED
    BY <2>3 DEF A, B
<1> QED
  BY <1>1, <1>3, <1>5 DEF Shown, MarkerOf, d

-----------------------------------------------------------------------------
(* The invariant: the file is the stops that are wanted, what has been     *)
(* read is the front of them, and what is printed is all of them.          *)

\* The stops a request is made into.
AskedFor(r) ==
    IF r.kind = "described" THEN [n \in DOMAIN r.stops |-> DescribedStop(r.stops[n], n)]
    ELSE WrittenRoute(r.type, r.table, r.citizens)

StopsRight(stops) == stops \in Seq(Range(stops)) /\ stops # <<>>

\* A request of either kind that is not refused.
Described(r) ==
    r.kind = "described" /\ r.stops \in Descriptions /\ r.stops # <<>> /\ \A n \in DOMAIN r.stops : LegalStop(r.stops[n])
Written(r) ==
    /\ r.kind = "written" /\ r.table \in GoodsTables /\ r.citizens \in Citizens
    /\ r.type \in {"5stop", "6stop", "suck"} /\ LegalTable(r.table) /\ load_amount(r.table, r.citizens) # None
Requested(r) == Described(r) \/ Written(r)

\* The data of a file made of some stops, and what is read from it.
FileOf(stops, f) ==
    /\ f = [len |-> f.len, data |-> serialize(stops).data]
    /\ f.len \in {Len(f.data), -Len(f.data)}

ReadOf(f, out) ==
    /\ Len(out) \in Nat /\ Len(out) <= Len(f.data)
    /\ out = SubSeq(f.data, 1, Len(out))
    /\ f.len < 0 => out \in {<<>>, f.data}

Printing(stops, l) == l = [n \in 1 .. Len(stops) |-> Shown(stops[n])]

Nothing(r, f, out, l) ==
    r.kind \in {"nothing", "refused"} /\ f = [len |-> 0, data |-> <<>>] /\ out = <<>> /\ l = <<>>

Kept(r, f, out, l) ==
    Requested(r) /\ FileOf(AskedFor(r), f) /\ ReadOf(f, out) /\ (l # <<>> => Printing(AskedFor(r), l))

FilesInv == Nothing(request, file, output, lines) \/ Kept(request, file, output, lines)

\* What is wanted is at least one stop.
LEMMA WantedStops == ASSUME NEW r, Requested(r) PROVE StopsRight(AskedFor(r))
<1>1. ASSUME NEW n \in Nat, NEW S, NEW f \in [1 .. n -> S], n # 0 PROVE StopsRight(f)
  <2>1. f \in [1 .. n -> Range(f)] /\ Len(f) = n
    BY <1>1 DEF Range
  <2> QED
    BY <1>1, <2>1 DEF StopsRight
<1>2. CASE r.kind = "described"
  <2>1. r.stops \in Seq(Range(r.stops)) /\ r.stops # <<>>
    BY <1>2, FilesAssumption DEF Requested, Described, Written
  <2>2. Len(r.stops) \in Nat \ {0} /\ DOMAIN r.stops = 1 .. Len(r.stops)
    BY <2>1
  <2> DEFINE made(n) == DescribedStop(r.stops[n], n)
             S == {made(n) : n \in DOMAIN r.stops}
  <2>3. AskedFor(r) = [n \in DOMAIN r.stops |-> made(n)]
    BY <1>2 DEF AskedFor
  <2> HIDE DEF made
  <2>4. AskedFor(r) \in [1 .. Len(r.stops) -> S]
    BY <2>2, <2>3
  <2> QED
    BY <1>1, <2>2, <2>4
<1>3. CASE r.kind = "written"
  <2> DEFINE load == load_amount(r.table, r.citizens)
             t == r.table
             sell == [w \in Wares |-> IF load[w] # 0 THEN t.goods[w].sell ELSE 0]
             buy == [w \in Wares |-> IF w \in DOMAIN t.goods THEN t.goods[w].buy ELSE 0]
  <2>1. AskedFor(r) \in {five_stop_route(Home, Target, load, sell), six_stop_route(Home, Target, load, sell),
                    suck_route(Home, Target, buy)}
    BY <1>3 DEF AskedFor, WrittenRoute, Requested, Described, Written
  <2> HIDE DEF load, sell, buy, t
  <2>2. ASSUME NEW l, NEW S, NEW mid \in Seq(S) PROVE StopsRight(bracketed_route(Home, l, mid))
    <3> DEFINE a == stop(Home, Action(FLAG_R, TRUE), Zero, l)
               z == stop(Home, plain, Zero, all_trade_wares(-MAX_AMOUNT))
               U == S \cup {a, z}
               all == <<a>> \o mid \o <<z>>
    <3>1. <<a>> \in Seq(U) /\ mid \in Seq(U) /\ <<z>> \in Seq(U) /\ Len(<<a>>) = 1 /\ Len(<<z>>) = 1
      <4>1. a \in U /\ z \in U /\ S \subseteq U
        OBVIOUS
      <4> HIDE DEF a, z, U
      <4>2. mid \in Seq(U)
        BY <4>1
      <4> QED
        BY <4>1, <4>2
    <3>2. bracketed_route(Home, l, mid) = all
      BY DEF bracketed_route
    <3> HIDE DEF a, z, U
    <3>3. <<a>> \o mid \in Seq(U) /\ Len(<<a>> \o mid) = 1 + Len(mid) /\ Len(mid) \in Nat
      BY <3>1
    <3>4. all \in Seq(U) /\ Len(all) = 2 + Len(mid)
      BY <3>1, <3>3
    <3> HIDE DEF all
    <3>5. all \in [1 .. Len(all) -> U] /\ Len(all) \in Nat /\ Len(all) # 0
      BY <3>3, <3>4
    <3> QED
      BY <1>1, <3>2, <3>5
  <2>3. five_stop_middle(Target, load, sell) \in Seq({five_stop_middle(Target, load, sell)[i] : i \in 1 .. 3})
    BY DEF five_stop_middle
  <2>4. six_stop_middle(Target, load, sell) \in Seq({six_stop_middle(Target, load, sell)[i] : i \in 1 .. 4})
    BY DEF six_stop_middle
  <2>5. <<buy_stop(Target, buy)>> \in Seq({buy_stop(Target, buy)})
    OBVIOUS
  <2>6. /\ StopsRight(five_stop_route(Home, Target, load, sell))
        /\ StopsRight(six_stop_route(Home, Target, load, sell))
        /\ StopsRight(suck_route(Home, Target, buy))
    BY <2>2, <2>3, <2>4, <2>5 DEF five_stop_route, six_stop_route, suck_route
  <2> QED
    BY <2>1, <2>6
<1> QED
  BY <1>2, <1>3 DEF Requested, Described, Written

\* The array of a route: its stops, one after the other.
LEMMA ArrayOfStops ==
    ASSUME NEW stops, StopsRight(stops)
    PROVE  LET d == serialize(stops).data
               n == Len(stops)
           IN  /\ n \in Nat \ {0} /\ STOP_SIZE \in Nat \ {0}
               /\ \E V : d \in Seq(V)
               /\ Len(d) = n * STOP_SIZE
               /\ serialize(stops).len = -Len(d)
               /\ \A i \in 1 .. n : SubSeq(d, (i - 1) * STOP_SIZE + 1, i * STOP_SIZE) = serializeStop(stops[i])
<1> DEFINE n == Len(stops)
           seqs == [i \in DOMAIN stops |-> serializeStop(stops[i])]
           V == UNION {ValuesOf(stops[i]) : i \in 1 .. n}
           size == STOP_SIZE
<1>1. n \in Nat \ {0} /\ DOMAIN stops = 1 .. n
  BY DEF StopsRight
<1>2. size \in Nat \ {0}
  BY StopIsLaidOut
<1>3. \A i \in 1 .. n : serializeStop(stops[i]) \in Seq(V) /\ Len(serializeStop(stops[i])) = size
  <2> SUFFICES ASSUME NEW i \in 1 .. n PROVE serializeStop(stops[i]) \in Seq(V) /\ Len(serializeStop(stops[i])) = size
    OBVIOUS
  <2>1. serializeStop(stops[i]) \in Seq(ValuesOf(stops[i])) /\ Len(serializeStop(stops[i])) = size
    BY StopIsLaidOut
  <2>2. ValuesOf(stops[i]) \subseteq V
    OBVIOUS
  <2> HIDE DEF V, size
  <2> QED
    BY <2>1, <2>2
<1>4. /\ serialize(stops).data = FlattenSeq(seqs)
      /\ serialize(stops).len = -(n * size)
  BY DEF serialize
<1>5. seqs \in [1 .. n -> Seq(V)] /\ \A i \in 1 .. n : seqs[i] = serializeStop(stops[i]) /\ Len(seqs[i]) = size
  BY <1>1, <1>3
<1> HIDE DEF seqs, V, size, n
<1>6. Pieces(FlattenSeq(seqs), n, seqs, size, V)
  BY <1>1, <1>2, <1>5, FlattenedPieces
<1> QED
  BY <1>1, <1>2, <1>4, <1>5, <1>6 DEF Pieces, n, size

\* The front of an array, and all of it.
LEMMA FrontOfArray ==
    ASSUME NEW V, NEW d \in Seq(V), NEW m \in Nat, m <= Len(d)
    PROVE  LET front == SubSeq(d, 1, m) IN
           /\ Len(front) = m /\ front = SubSeq(d, 1, Len(front)) /\ (m = Len(d) => front = d) /\ (m = 0 => front = <<>>)
           /\ m < Len(d) => Append(front, d[m + 1]) = SubSeq(d, 1, m + 1)
<1> DEFINE front == SubSeq(d, 1, m)
<1>1. Len(d) \in Nat
  OBVIOUS
<1>2. front \in Seq(V) /\ Len(front) = m /\ \A i \in 1 .. m : front[i] = d[i]
  BY <1>1
<1>3. m = Len(d) => front = d
  <2> HIDE DEF front
  <2> QED
    BY <1>2, SeqEqual
<1>4. m = 0 => front = <<>>
  <2> HIDE DEF front
  <2> QED
    BY <1>2
<1>5. ASSUME m < Len(d) PROVE Append(front, d[m + 1]) = SubSeq(d, 1, m + 1)
  <2> DEFINE x == d[m + 1]
             longer == Append(front, x)
             next == SubSeq(d, 1, m + 1)
  <2>1. x \in V /\ m + 1 \in 1 .. Len(d)
    BY <1>1, <1>5
  <2>2. next \in Seq(V) /\ Len(next) = m + 1 /\ \A i \in 1 .. m + 1 : next[i] = d[i]
    BY <1>1, <2>1
  <2>3. longer \in Seq(V) /\ Len(longer) = m + 1 /\ longer[m + 1] = x /\ \A i \in 1 .. m : longer[i] = front[i]
    <3> HIDE DEF front, x
    <3> QED
      BY <1>2, <2>1
  <2> HIDE DEF longer, next
  <2>4. \A i \in 1 .. m + 1 : longer[i] = next[i]
    <3> SUFFICES ASSUME NEW i \in 1 .. m + 1 PROVE longer[i] = next[i]
      OBVIOUS
    <3>1. i = m + 1 \/ i \in 1 .. m
      OBVIOUS
    <3> HIDE DEF front
    <3> QED
      BY <1>2, <2>2, <2>3, <3>1
  <2>5. longer = next
    <3> HIDE DEF x, front
    <3> QED
      BY <2>2, <2>3, <2>4, SeqEqual
  <2> QED
    BY <2>5 DEF longer, next
<1> QED
  BY <1>2, <1>3, <1>4, <1>5

\* What is known of the array in a state of the invariant.
LEMMA KeptFile ==
    ASSUME Kept(request, file, output, lines)
    PROVE  LET d == file.data IN
           /\ StopsRight(AskedFor(request)) /\ d = serialize(AskedFor(request)).data
           /\ \E V : d \in Seq(V)
           /\ Len(d) \in Nat \ {0} /\ file.len \in {Len(d), -Len(d)} /\ file = [len |-> file.len, data |-> d]
           /\ Len(output) \in Nat /\ Len(output) <= Len(d) /\ output = SubSeq(d, 1, Len(output))
           /\ file.len < 0 => output \in {<<>>, d}
<1> DEFINE stops == AskedFor(request)
           d == serialize(stops).data
<1>1. StopsRight(stops)
  BY WantedStops DEF Kept
<1> HIDE DEF stops
<1>2. /\ \E V : d \in Seq(V)
      /\ Len(stops) \in Nat \ {0} /\ STOP_SIZE \in Nat \ {0} /\ Len(d) = Len(stops) * STOP_SIZE
  BY <1>1, ArrayOfStops
<1>3. Len(d) \in Nat \ {0}
  <2>1. \A a, b \in Nat \ {0} : a * b \in Nat \ {0}
    OBVIOUS
  <2> QED
    BY <1>2, <2>1
<1>4. file = [len |-> file.len, data |-> d] /\ file.data = d
  BY DEF Kept, FileOf, stops
<1> HIDE DEF d
<1>5. file.len \in {Len(d), -Len(d)}
  BY <1>4 DEF Kept, FileOf
<1>6. Len(output) \in Nat /\ Len(output) <= Len(d) /\ output = SubSeq(d, 1, Len(output)) /\ (file.len < 0 => output \in {<<>>, d})
  BY <1>4 DEF Kept, ReadOf
<1> QED
  BY <1>1, <1>2, <1>3, <1>4, <1>5, <1>6 DEF d, stops

\* One value or copy more: still the front of the array.
LEMMA MoreIsRead ==
    ASSUME Kept(request, file, output, lines), NEW m \in Nat, m <= Len(file.data),
           file.len < 0 => m = Len(file.data), output' = SubSeq(file.data, 1, m),
           lines = <<>>, UNCHANGED <<request, file, lines>>
    PROVE  Kept(request, file, output, lines)'
<1> DEFINE d == file.data
<1>1. PICK V : d \in Seq(V)
  BY KeptFile
<1>2. Len(output') = m /\ output' = SubSeq(d, 1, Len(output')) /\ (m = Len(d) => output' = d)
  <2> HIDE DEF d
  <2>1. output' = SubSeq(d, 1, m) /\ m <= Len(d)
    BY DEF d
  <2> QED
    BY <1>1, <2>1, FrontOfArray
<1>3. ReadOf(file, output')
  BY <1>2 DEF ReadOf
<1> QED
  BY <1>3 DEF Kept

\* A file just written.
LEMMA FreshFile ==
    ASSUME NEW r, Requested(r)
    PROVE  Kept(r, serialize(AskedFor(r)), <<>>, <<>>)
<1> DEFINE f == serialize(AskedFor(r))
           d == f.data
<1>1. StopsRight(AskedFor(r))
  BY WantedStops
<1>2. (\E V : d \in Seq(V)) /\ f.len = -Len(d)
  BY <1>1, ArrayOfStops
<1>3. f = [len |-> f.len, data |-> d]
  BY DEF serialize
<1> HIDE DEF d, f
<1>4. SubSeq(d, 1, 0) = <<>> /\ Len(d) \in Nat /\ Len(<<>>) = 0
  BY <1>2
<1>5. FileOf(AskedFor(r), f)
  BY <1>2, <1>3 DEF FileOf, d, f
<1>6. f.data = d
  BY DEF d
<1>7. ReadOf(f, <<>>)
  BY <1>4, <1>6 DEF ReadOf
<1> QED
  BY <1>5, <1>7 DEF Kept, f

\* generate: the file is the stops described.
LEMMA GenerateKeeps == ASSUME FilesInv, generate PROVE FilesInv'
<1>1. Nothing(request, file, output, lines)
  BY DEF FilesInv, Kept, Requested, Described, Written, generate
<1>2. PICK d \in Descriptions :
        IF d # <<>> /\ \A n \in DOMAIN d : LegalStop(d[n])
        THEN /\ request' = [kind |-> "described", stops |-> d]
             /\ file' = serialize([n \in DOMAIN d |-> DescribedStop(d[n], n)])
        ELSE request' = [kind |-> "refused"] /\ UNCHANGED file
  BY DEF generate
<1>3. CASE d # <<>> /\ \A n \in DOMAIN d : LegalStop(d[n])
  <2>1. request' = [kind |-> "described", stops |-> d] /\ file' = serialize([n \in DOMAIN d |-> DescribedStop(d[n], n)])
    BY <1>2, <1>3
  <2>2. Described(request')
    BY <1>3, <2>1 DEF Described
  <2>3. file' = serialize(AskedFor(request'))
    BY <2>1 DEF AskedFor
  <2> QED
    <3>1. output' = <<>> /\ lines' = <<>>
      BY <1>1 DEF generate, Nothing
    <3>2. Kept(request', file', output', lines')
      BY <2>2, <2>3, <3>1, FreshFile DEF Requested
    <3> QED
      BY <3>2 DEF FilesInv
<1>4. CASE ~(d # <<>> /\ \A n \in DOMAIN d : LegalStop(d[n]))
  BY <1>1, <1>2, <1>4 DEF generate, FilesInv, Nothing
<1> QED
  BY <1>3, <1>4

\* write_route: the file is the route's stops.
LEMMA WriteRouteKeeps == ASSUME FilesInv, write_route PROVE FilesInv'
<1>1. Nothing(request, file, output, lines)
  BY DEF FilesInv, Kept, Requested, Described, Written, write_route
<1>2. PICK kind \in {"5stop", "6stop", "suck"}, t \in GoodsTables, citizens \in Citizens :
        IF LegalTable(t) /\ load_amount(t, citizens) # None
        THEN /\ request' = [kind |-> "written", table |-> t, citizens |-> citizens, type |-> kind]
             /\ file' = serialize(WrittenRoute(kind, t, citizens))
        ELSE request' = [kind |-> "refused"] /\ UNCHANGED file
  BY DEF write_route
<1>3. CASE LegalTable(t) /\ load_amount(t, citizens) # None
  <2>1. /\ request' = [kind |-> "written", table |-> t, citizens |-> citizens, type |-> kind]
        /\ file' = serialize(WrittenRoute(kind, t, citizens))
    BY <1>2, <1>3
  <2>2. Written(request')
    BY <1>3, <2>1 DEF Written
  <2>3. file' = serialize(AskedFor(request'))
    BY <2>1 DEF AskedFor
  <2>4. output' = <<>> /\ lines' = <<>>
    BY <1>1 DEF write_route, Nothing
  <2>5. Kept(request', file', output', lines')
    BY <2>2, <2>3, <2>4, FreshFile DEF Requested
  <2> QED
    BY <2>5 DEF FilesInv
<1>4. CASE ~(LegalTable(t) /\ load_amount(t, citizens) # None)
  BY <1>1, <1>2, <1>4 DEF write_route, FilesInv, Nothing
<1> QED
  BY <1>3, <1>4

\* The game keeps the stops, compressed.
LEMMA GameSavesKeeps == ASSUME FilesInv, GameSaves PROVE FilesInv'
<1>1. Kept(request, file, output, lines)
  BY DEF FilesInv, Nothing, GameSaves
<1> DEFINE d == file.data
           f == [len |-> -file.len, data |-> d]
<1>2. /\ d = serialize(AskedFor(request)).data /\ Len(d) \in Nat \ {0}
      /\ file.len \in {Len(d), -Len(d)} /\ file = [len |-> file.len, data |-> d]
  BY <1>1, KeptFile
<1>3. file' = f /\ file.len < 0 /\ UNCHANGED <<request, output, lines>>
  <2>1. file' = [file EXCEPT !.len = -file.len]
    BY DEF GameSaves
  <2> HIDE DEF d
  <2> QED
    BY <1>2, <2>1 DEF GameSaves
<1> HIDE DEF d
<1>4. f.data = d /\ f.len = Len(d) /\ f = [len |-> f.len, data |-> d]
  BY <1>2, <1>3
<1> HIDE DEF f
<1>5. FileOf(AskedFor(request), f)
  BY <1>2, <1>4 DEF FileOf
<1>6. ReadOf(f, output)
  <2>1. ReadOf(file, output)
    BY <1>1 DEF Kept
  <2> QED
    BY <1>2, <1>4, <2>1 DEF ReadOf, d
<1>7. Requested(request) /\ (lines # <<>> => Printing(AskedFor(request), lines))
  BY <1>1 DEF Kept
<1>8. Kept(request, f, output, lines)
  BY <1>5, <1>6, <1>7 DEF Kept
<1>9. Kept(request', file', output', lines')
  BY <1>3, <1>8
<1> QED
  BY <1>9 DEF FilesInv

\* decompress: a single value or a copy continues what has been read.
LEMMA DecompressKeeps == ASSUME FilesInv, decompress PROVE FilesInv'
<1>1. Kept(request, file, output, lines)
  BY DEF FilesInv, Nothing, decompress
<1> DEFINE d == file.data
           m == Len(output)
<1>2. /\ Len(d) \in Nat \ {0} /\ file.len \in {Len(d), -Len(d)}
      /\ m \in Nat /\ m <= Len(d) /\ output = SubSeq(d, 1, m)
  BY <1>1, KeptFile
<1>3. PICK V : d \in Seq(V)
  BY <1>1, KeptFile
<1>4. lines = <<>> /\ UNCHANGED <<request, file, lines>>
  BY DEF decompress
<1>5. \E n \in Nat : n <= Len(d) /\ (file.len < 0 => n = Len(d)) /\ output' = SubSeq(d, 1, n)
  <2>1. CASE file.len < 0 /\ output' = SubSeq(d, 1, -file.len)
    BY <1>2, <2>1
  <2>2. CASE m < file.len /\ output' = Append(output, d[m + 1])
    <3>1. file.len = Len(d) /\ m + 1 \in Nat /\ m + 1 <= Len(d)
      BY <1>2, <2>2
    <3>2. Append(output, d[m + 1]) = SubSeq(d, 1, m + 1)
      <4> HIDE DEF d, m
      <4> QED
        BY <1>2, <1>3, <2>2, <3>1, FrontOfArray
    <3> QED
      BY <1>2, <2>2, <3>1, <3>2
  <2>3. CASE /\ m < file.len
             /\ \E dist \in 1 .. MaxDistance, count \in 2 .. Len(d) :
                  /\ Repeats(dist, count) /\ count - 2 < full(ELEMENTS - 2)
                  /\ output' = Repeat(output, offset(DistanceCode(dist).type, DistanceCode(dist).bits),
                                      output_elements(FieldsRead(LengthCode(count))))
    <3>1. PICK dist \in 1 .. MaxDistance, count \in 2 .. Len(d) :
                  /\ Repeats(dist, count) /\ count - 2 < full(ELEMENTS - 2)
                  /\ output' = Repeat(output, offset(DistanceCode(dist).type, DistanceCode(dist).bits),
                                      output_elements(FieldsRead(LengthCode(count))))
      BY <2>3
    <3>2. dist \in Nat /\ 1 <= dist /\ count \in Nat /\ 2 <= count
      <4>1. MaxDistance \in Int
        <5>1. TYPES \in Nat
          BY MasksAre
        <5>2. BITMASKS[TYPES + 1] \in Nat
          BY <5>1, MasksAre
        <5> QED
          BY <5>2 DEF MaxDistance
      <4> QED
        BY <1>2, <4>1
    <3>3. offset(DistanceCode(dist).type, DistanceCode(dist).bits) = -dist
      BY DistanceIsRead
    <3>4. output_elements(FieldsRead(LengthCode(count))) = count
      <4>1. PICK k \in Nat : CodeFields(k, LengthCode(count), count)
        BY <3>1, <3>2, LengthIsWritten
      <4> QED
        BY <3>2, <4>1, FieldsAreRead, LengthIsRead
    <3>5. /\ dist <= m /\ m + count <= Len(d)
          /\ \A i \in 1 .. count : d[m + i] = d[m + i - dist]
      BY <3>1 DEF Repeats
    <3>6. output' = Repeat(SubSeq(d, 1, m), -dist, count)
      BY <1>2, <3>1, <3>3, <3>4
    <3>7. output' = SubSeq(d, 1, m + count)
      <4> HIDE DEF d, m
      <4> QED
        BY <1>2, <1>3, <3>2, <3>5, <3>6, CopyContinues
    <3>8. m + count \in Nat /\ file.len >= 0
      BY <1>2, <2>3, <3>2
    <3>9. m + count \in Nat /\ m + count <= Len(d) /\ (file.len < 0 => m + count = Len(d))
      BY <1>2, <3>5, <3>8
    <3> DEFINE n == m + count
    <3> HIDE DEF d, m
    <3>10. n \in Nat /\ n <= Len(d) /\ (file.len < 0 => n = Len(d)) /\ output' = SubSeq(d, 1, n)
      BY <3>7, <3>9
    <3> HIDE DEF n
    <3> QED
      BY <3>10
  <2> QED
    BY <2>1, <2>2, <2>3 DEF decompress
<1>6. Kept(request, file, output, lines)'
  BY <1>1, <1>4, <1>5, MoreIsRead
<1> QED
  BY <1>6 DEF FilesInv

\* dump: all has been read, and each stop is cut out of it.
LEMMA DumpKeeps == ASSUME FilesInv, dump PROVE FilesInv'
<1>1. Kept(request, file, output, lines)
  BY DEF FilesInv, Nothing, dump
<1> DEFINE d == file.data
           stops == AskedFor(request)
           n == Len(stops)
<1>2. /\ StopsRight(stops) /\ d = serialize(stops).data
      /\ Len(d) \in Nat \ {0} /\ file.len \in {Len(d), -Len(d)}
      /\ Len(output) \in Nat /\ Len(output) <= Len(d) /\ output = SubSeq(d, 1, Len(output))
      /\ file.len < 0 => output \in {<<>>, d}
  BY <1>1, KeptFile
<1>3. PICK V : d \in Seq(V)
  BY <1>1, KeptFile
<1>4. output # <<>> /\ Len(output) >= file.len
  BY DEF dump
<1> HIDE DEF d, stops
<1>5. output = d
  <2>1. CASE file.len < 0
    BY <1>2, <1>4, <2>1
  <2>2. CASE ~(file.len < 0)
    <3>1. Len(output) = Len(d)
      BY <1>2, <1>4, <2>2
    <3> QED
      BY <1>2, <1>3, <3>1, FrontOfArray
  <2> QED
    BY <2>1, <2>2
<1>6. /\ n \in Nat \ {0} /\ STOP_SIZE \in Nat \ {0} /\ Len(d) = n * STOP_SIZE
      /\ \A i \in 1 .. n : SubSeq(d, (i - 1) * STOP_SIZE + 1, i * STOP_SIZE) = serializeStop(stops[i])
  BY <1>2, ArrayOfStops
<1>7. Len(output) \div STOP_SIZE = n
  BY <1>5, <1>6, Quotient
<1> DEFINE cut(i) == listing(SubSeq(output, (i - 1) * STOP_SIZE + 1, i * STOP_SIZE))
<1>8. lines' = [i \in 1 .. n |-> cut(i)] /\ UNCHANGED <<request, file, output>>
  BY <1>7 DEF dump
<1>9. \A i \in 1 .. n : cut(i) = Shown(stops[i])
  BY <1>5, <1>6, StopIsShown
<1> HIDE DEF cut
<1>10. Printing(stops, lines')
  BY <1>8, <1>9 DEF Printing
<1>11. Kept(request', file', output', lines')
  <2>1. Requested(request) /\ FileOf(AskedFor(request), file) /\ ReadOf(file, output)
    BY <1>1 DEF Kept
  <2> QED
    BY <1>8, <1>10, <2>1 DEF Kept, stops
<1> QED
  BY <1>11 DEF FilesInv

\* Every step keeps the invariant.
LEMMA FilesKeep == FilesInv /\ [FilesNext]_fileVars => FilesInv'
<1> SUFFICES ASSUME FilesInv, [FilesNext]_fileVars PROVE FilesInv'
  OBVIOUS
<1>1. CASE UNCHANGED fileVars
  BY <1>1 DEF fileVars, FilesInv
<1> QED
  BY <1>1, GenerateKeeps, WriteRouteKeeps, GameSavesKeeps, DecompressKeeps, DumpKeeps DEF FilesNext

\* What is read is at every moment the front of what was written, however the game has
\* compressed it, and what is printed is the stops that were asked for.
THEOREM FilesAreKept == FilesSpec => []FilesInv
<1>1. FilesInit => FilesInv
  BY DEF FilesInit, FilesInv, Nothing
<1> QED
  BY <1>1, FilesKeep, PTL DEF FilesSpec

-----------------------------------------------------------------------------
(* What is printed is what was meant.                                      *)

\* Of one ware a stop prints one line, if it moves it at all.
LEMMA LineOfWare ==
    ASSUME NEW s, NEW w \in Wares, NEW o
    PROVE  (o \in Shown(s).orders /\ o.ware = w) <=> (s.amount[w] # 0 /\ o = OrderShown(s, w))
<1>1. \A v : OrderShown(s, v).ware = v
  BY DEF OrderShown
<1>2. Shown(s).orders = {OrderShown(s, v) : v \in {v \in Wares : s.amount[v] # 0}}
  BY DEF Shown
<1>3. ASSUME o \in Shown(s).orders, o.ware = w PROVE s.amount[w] # 0 /\ o = OrderShown(s, w)
  BY <1>1, <1>2, <1>3
<1>4. ASSUME s.amount[w] # 0, o = OrderShown(s, w) PROVE o \in Shown(s).orders /\ o.ware = w
  BY <1>1, <1>2, <1>4
<1> QED
  BY <1>3, <1>4

\* Whole units are printed as they were given.
LEMMA UnitsArePrinted ==
    ASSUME NEW w \in Wares, NEW a \in Nat, a # 0
    PROVE  /\ a * SCALING[w] \in Nat /\ a * SCALING[w] # 0
           /\ display_amount(w, a * SCALING[w]) = Printed(w, a) /\ display_amount(w, -(a * SCALING[w])) = Printed(w, a)
<1> DEFINE raw == a * SCALING[w]
<1>1. SCALING[w] \in Nat \ {0}
  BY FilesAssumption
<1>2. raw \in Nat /\ raw # 0
  BY <1>1
<1>3. raw \div SCALING[w] = a
  BY <1>1, Quotient
<1> HIDE DEF raw
<1>4. magnitude(raw) = raw /\ magnitude(-raw) = raw
  BY <1>2 DEF magnitude
<1>5. display_amount(w, raw) = Printed(w, a) /\ display_amount(w, -raw) = Printed(w, a)
  BY <1>3, <1>4 DEF display_amount, Printed, raw
<1> QED
  BY <1>2, <1>5 DEF raw

\* As much as possible is printed as such.
LEMMA SentinelIsPrinted ==
    ASSUME NEW w PROVE display_amount(w, MAX_AMOUNT) = None /\ display_amount(w, -MAX_AMOUNT) = None
<1>1. MAX_AMOUNT \in Nat \ {0}
  BY FilesAssumption
<1>2. magnitude(MAX_AMOUNT) = MAX_AMOUNT /\ magnitude(-MAX_AMOUNT) = MAX_AMOUNT
  BY <1>1 DEF magnitude
<1> QED
  BY <1>2 DEF display_amount

\* The raw amount of an entry, and what is printed of it either way.
LEMMA EntryIsPrinted ==
    ASSUME NEW e, NEW kind, Legal(kind, e), e.amount \in Int \cup {None}
    PROVE  /\ scaled_amount(e) \in Nat \ {0}
           /\ display_amount(e.ware, scaled_amount(e)) = Meant(kind, e).amount
           /\ display_amount(e.ware, -scaled_amount(e)) = Meant(kind, e).amount
<1>1. CASE e.amount = None
  <2>1. scaled_amount(e) = MAX_AMOUNT /\ MAX_AMOUNT \in Nat \ {0} /\ Meant(kind, e).amount = None
    BY <1>1, FilesAssumption DEF scaled_amount, Meant
  <2> QED
    BY <2>1, SentinelIsPrinted
<1>2. CASE e.amount # None
  <2>1. e.ware \in Wares /\ e.amount \in Nat /\ e.amount # 0
    BY <1>2 DEF Legal
  <2>2. scaled_amount(e) = e.amount * SCALING[e.ware] /\ Meant(kind, e).amount = Printed(e.ware, e.amount)
    BY <1>2 DEF scaled_amount, Meant
  <2> QED
    BY <2>1, <2>2, UnitsArePrinted
<1> QED
  BY <1>1, <1>2

\* The slot of a ware that an entry names, and of one that none names.
LEMMA SlotOfEntry ==
    ASSUME NEW s, LegalStop(s), NEW x \in OrderEntries(s),
           NEW a, a = scaled_amount(x.entry)
    PROVE  Slot(s, x.entry.ware) =
             CASE x.kind = "load" -> [price |-> 0, amount |-> a]
               [] x.kind = "unload" -> [price |-> 0, amount |-> -a]
               [] x.kind = "sell" -> [price |-> x.entry.price, amount |-> a]
               [] x.kind = "buy" -> [price |-> -x.entry.price, amount |-> a]
<1> DEFINE w == x.entry.ware
           y == CHOOSE y \in OrderEntries(s) : y.entry.ware = w
<1>1. y \in OrderEntries(s) /\ y.entry.ware = w
  OBVIOUS
<1>2. y = x
  BY <1>1 DEF LegalStop
<1> QED
  BY <1>2 DEF Slot

\* A ware that no entry names is not moved.
LEMMA SlotOfNone ==
    ASSUME NEW s, NEW w, \A x \in OrderEntries(s) : x.entry.ware # w
    PROVE  Slot(s, w).amount = 0
  BY DEF Slot

\* An entry is printed as it was meant.
LEMMA EntryIsShown ==
    ASSUME NEW s, LegalStop(s), NEW n, NEW x \in OrderEntries(s),
           x.entry.price \in Int, x.entry.amount \in Int \cup {None}
    PROVE  /\ x.entry.ware \in Wares
           /\ DescribedStop(s, n).amount[x.entry.ware] # 0
           /\ OrderShown(DescribedStop(s, n), x.entry.ware) = Meant(x.kind, x.entry)
<1> DEFINE e == x.entry
           w == e.ware
           a == scaled_amount(e)
           st == DescribedStop(s, n)
<1>1. Legal(x.kind, e) /\ w \in Wares /\ x.kind \in OrderKinds
  <2>1. x.kind \in OrderKinds
    BY DEF OrderEntries
  <2> QED
    BY <2>1 DEF LegalStop, Legal
<1>2. /\ a \in Nat \ {0} /\ display_amount(w, a) = Meant(x.kind, e).amount
      /\ display_amount(w, -a) = Meant(x.kind, e).amount
  BY <1>1, EntryIsPrinted
<1>3. st.price[w] = Slot(s, w).price /\ st.amount[w] = Slot(s, w).amount
  BY <1>1 DEF DescribedStop, stop
<1>4. Slot(s, w) = CASE x.kind = "load" -> [price |-> 0, amount |-> a]
                     [] x.kind = "unload" -> [price |-> 0, amount |-> -a]
                     [] x.kind = "sell" -> [price |-> e.price, amount |-> a]
                     [] x.kind = "buy" -> [price |-> -e.price, amount |-> a]
  BY SlotOfEntry
<1>5. OrderShown(st, w) = [ware |-> w, kind |-> operation_of(st.price[w], st.amount[w]),
                           price |-> magnitude(st.price[w]), amount |-> display_amount(w, st.amount[w])]
  BY DEF OrderShown
<1>6. Meant(x.kind, e) = [ware |-> w, kind |-> x.kind, price |-> IF x.kind \in {"sell", "buy"} THEN e.price ELSE 0,
                          amount |-> Meant(x.kind, e).amount]
  BY DEF Meant
<1>7. e.price \in Int /\ (x.kind \in {"sell", "buy"} => e.price > 0)
  BY <1>1 DEF Legal
<1> DEFINE p == st.price[w]
           b == st.amount[w]
<1>8. b # 0 /\ operation_of(p, b) = x.kind /\ display_amount(w, b) = Meant(x.kind, e).amount
      /\ magnitude(p) = IF x.kind \in {"sell", "buy"} THEN e.price ELSE 0
  <2>1. CASE x.kind = "load"
    <3>1. p = 0 /\ b = a
      BY <1>3, <1>4, <2>1
    <3> HIDE DEF p, b, a, e, w
    <3> QED
      BY <1>2, <2>1, <3>1 DEF operation_of, magnitude
  <2>2. CASE x.kind = "unload"
    <3>1. p = 0 /\ b = -a
      BY <1>3, <1>4, <2>2
    <3> HIDE DEF p, b, a, e, w
    <3> QED
      BY <1>2, <2>2, <3>1 DEF operation_of, magnitude
  <2>3. CASE x.kind = "sell"
    <3>1. p = e.price /\ b = a
      BY <1>3, <1>4, <2>3
    <3> HIDE DEF p, b, a, w
    <3> QED
      BY <1>2, <1>7, <2>3, <3>1 DEF operation_of, magnitude
  <2>4. CASE x.kind = "buy"
    <3>1. p = -e.price /\ b = a
      BY <1>3, <1>4, <2>4
    <3> HIDE DEF p, b, a, w
    <3> QED
      BY <1>2, <1>7, <2>4, <3>1 DEF operation_of, magnitude
  <2> QED
    BY <1>1, <2>1, <2>2, <2>3, <2>4 DEF OrderKinds
<1> QED
  BY <1>1, <1>5, <1>6, <1>8

\* A description is printed as it was meant.
LEMMA DescribedIsPrinted ==
    ASSUME Described(request), Printing(AskedFor(request), lines)
    PROVE  DescribedIsShown
<1> DEFINE d == request.stops
           k == Len(d)
<1>1. /\ d \in Seq(Range(d)) /\ \A n \in DOMAIN d : LegalStop(d[n])
      /\ \A n \in DOMAIN d : \A x \in OrderEntries(d[n]) : x.entry.price \in Int /\ x.entry.amount \in Int \cup {None}
  BY FilesAssumption DEF Described
<1>2. k \in Nat /\ DOMAIN d = 1 .. k
  BY <1>1
<1>3. lines = [n \in 1 .. k |-> Shown(DescribedStop(d[n], n))]
  <2> DEFINE stops == [n \in DOMAIN d |-> DescribedStop(d[n], n)]
  <2>1. AskedFor(request) = stops
    BY DEF AskedFor, Described
  <2>2. Len(stops) = k /\ \A n \in 1 .. k : stops[n] = DescribedStop(d[n], n)
    BY <1>2
  <2> HIDE DEF stops, d
  <2>3. lines = [n \in 1 .. k |-> Shown(stops[n])]
    BY <2>1, <2>2 DEF Printing
  <2> QED
    BY <2>2, <2>3
<1>4. Len(lines) = k /\ DOMAIN lines = 1 .. k
  <2> HIDE DEF d, k
  <2> QED
    BY <1>2, <1>3
<1>5. ASSUME NEW n \in 1 .. k
      PROVE  /\ lines[n].town = d[n].town
             /\ lines[n].flag = (IF d[n].flag = None THEN FLAG_X ELSE d[n].flag)
             /\ lines[n].first <=> n = 1
             /\ lines[n].orders = {Meant(x.kind, x.entry) : x \in OrderEntries(d[n])}
  <2> DEFINE s == d[n]
             st == DescribedStop(s, n)
             flag == IF s.flag = None THEN FLAG_X ELSE s.flag
  <2>1. LegalStop(s) /\ \A x \in OrderEntries(s) : x.entry.price \in Int /\ x.entry.amount \in Int \cup {None}
    BY <1>1, <1>2
  <2>2. lines[n] = Shown(st)
    BY <1>3
  <2>3. st.town = s.town /\ st.action = Action(flag, n = 1)
    BY DEF DescribedStop, stop
  <2>4. flag \in {FLAG_R, FLAG_X, FLAG_NONE}
    BY <2>1 DEF LegalStop
  <2>5. (MarkerOf(st) = 1 <=> n = 1) /\ st.action - MarkerOf(st) * FIRST_STOP_MARKER = flag
    <3> HIDE DEF flag, st, s
    <3>1. CASE n = 1
      <4>1. st.action = flag + 4
        BY <2>3, <3>1 DEF Action, FIRST_STOP_MARKER
      <4>2. flag \in {1, 0, 9}
        BY <2>4 DEF FLAG_R, FLAG_X, FLAG_NONE
      <4>3. MarkerOf(st) = 1
        BY <4>1, <4>2 DEF MarkerOf, FIRST_STOP_MARKER
      <4> QED
        BY <3>1, <4>1, <4>2, <4>3 DEF FIRST_STOP_MARKER
    <3>2. CASE n # 1
      <4>1. flag \in {1, 0, 9}
        BY <2>4 DEF FLAG_R, FLAG_X, FLAG_NONE
      <4>2. st.action = flag
        BY <2>3, <3>2, <4>1 DEF Action
      <4>3. MarkerOf(st) = 0
        BY <4>1, <4>2 DEF MarkerOf, FIRST_STOP_MARKER
      <4> QED
        BY <3>2, <4>1, <4>2, <4>3 DEF FIRST_STOP_MARKER
    <3> QED
      BY <3>1, <3>2
  <2>6. Shown(st).orders = {Meant(x.kind, x.entry) : x \in OrderEntries(s)}
    <3> DEFINE A == Shown(st).orders
               B == {Meant(x.kind, x.entry) : x \in OrderEntries(s)}
    <3>1. A = {OrderShown(st, w) : w \in {w \in Wares : st.amount[w] # 0}}
      BY DEF Shown
    <3>2. ASSUME NEW x \in OrderEntries(s)
          PROVE  x.entry.ware \in Wares /\ st.amount[x.entry.ware] # 0 /\ OrderShown(st, x.entry.ware) = Meant(x.kind, x.entry)
      BY <2>1, EntryIsShown
    <3>3. ASSUME NEW o \in A PROVE o \in B
      <4>1. PICK w \in Wares : st.amount[w] # 0 /\ o = OrderShown(st, w)
        BY <3>1
      <4>2. st.amount[w] = Slot(s, w).amount
        BY DEF DescribedStop, stop
      <4>3. PICK x \in OrderEntries(s) : x.entry.ware = w
        BY <4>1, <4>2, SlotOfNone
      <4>4. o = Meant(x.kind, x.entry)
        BY <3>2, <4>1, <4>3
      <4> QED
        BY <4>4
    <3>4. ASSUME NEW o \in B PROVE o \in A
      <4>1. PICK x \in OrderEntries(s) : o = Meant(x.kind, x.entry)
        OBVIOUS
      <4> QED
        BY <3>1, <3>2, <4>1
    <3> HIDE DEF A, B
    <3>5. A = B
      BY <3>3, <3>4
    <3> QED
      BY <3>5 DEF A, B
  <2>7. /\ Shown(st).town = st.town
        /\ Shown(st).flag = st.action - MarkerOf(st) * FIRST_STOP_MARKER
        /\ Shown(st).first = (MarkerOf(st) = 1)
    BY DEF Shown
  <2> HIDE DEF st
  <2>8. lines[n].town = s.town
    BY <2>2, <2>3, <2>7
  <2>9. lines[n].flag = flag
    BY <2>2, <2>5, <2>7
  <2>10. lines[n].first <=> n = 1
    BY <2>2, <2>5, <2>7, Zenon
  <2>11. lines[n].orders = {Meant(x.kind, x.entry) : x \in OrderEntries(s)}
    BY <2>2, <2>6
  <2> QED
    BY <2>8, <2>9, <2>10, <2>11
<1> HIDE DEF k
<1>6. Len(lines) = Len(d)
  BY <1>4 DEF k
<1> QED
  BY <1>4, <1>5, <1>6 DEF DescribedIsShown

-----------------------------------------------------------------------------
(* A written route.                                                        *)

\* A need in whole units, rounded up.
LEMMA EnoughUnits ==
    ASSUME NEW supply \in Nat, NEW citizens \in Nat, NEW ref \in Nat \ {0}, supply * citizens > 0
    PROVE  LET u == units(supply, citizens, ref)
               needed == supply * citizens
           IN  /\ u \in Nat /\ u # 0 /\ u <= needed + ref
               /\ u * ref \in needed .. needed + ref - 1
<1> DEFINE needed == supply * citizens
           total == needed + ref - 1
           u == total \div ref
<1>1. needed \in Nat /\ needed > 0 /\ units(supply, citizens, ref) = u
  BY DEF units
<1> HIDE DEF needed
<1>2. total \in Nat /\ total >= ref
  BY <1>1
<1>3. u \in Nat /\ ref * u <= total /\ total < ref * u + ref
  BY <1>2
<1> HIDE DEF u
<1>4. u # 0
  BY <1>2, <1>3
<1>5. u * ref = ref * u /\ ref * u \in Nat
  BY <1>3
<1>6. u * ref \in needed .. needed + ref - 1
  BY <1>1, <1>3, <1>5
<1>7. u <= ref * u
  <2>1. (ref - 1) * u \in Nat /\ ref * u = (ref - 1) * u + u
    BY <1>3
  <2> QED
    BY <1>3, <2>1
<1>8. u <= needed + ref
  BY <1>1, <1>3, <1>5, <1>7
<1> QED
  BY <1>1, <1>3, <1>4, <1>6, <1>8 DEF needed

\* What a legal table loads: raw units of every ware, and of one that is needed enough.
LEMMA LoadsAre ==
    ASSUME NEW t \in GoodsTables, LegalTable(t), NEW citizens \in Citizens, load_amount(t, citizens) # None
    PROVE  /\ load_amount(t, citizens) \in [Wares -> Nat]
           /\ \A w \in DOMAIN t.goods :
                 /\ w \in Wares
                 /\ t.goods[w].supply # None =>
                       t.goods[w].supply \in Nat /\ load_amount(t, citizens)[w] = units(t.goods[w].supply, citizens, t.citizens) * SCALING[w]
<1> DEFINE need(w) == units(t.goods[w].supply, citizens, t.citizens) * SCALING[w]
           raw(w) == IF w \notin DOMAIN t.goods THEN 0
                     ELSE IF t.goods[w].supply = None THEN 0 ELSE need(w)
<1>1. load_amount(t, citizens) = [w \in Wares |-> raw(w)]
  BY DEF load_amount
<1>2. t.citizens \in Nat \ {0} /\ citizens \in Nat /\ SCALING \in [Wares -> Nat \ {0}]
      /\ \A w \in DOMAIN t.goods : w \in Wares /\ (t.goods[w].supply # None => t.goods[w].supply \in Nat)
  <2>1. t.citizens \in Nat /\ \A w \in DOMAIN t.goods : t.goods[w].supply \in Int \cup {None}
    BY FilesAssumption
  <2>2. t.citizens > 0 /\ \A w \in DOMAIN t.goods : w \in Wares /\ (t.goods[w].supply = None \/ t.goods[w].supply > 0)
    BY DEF LegalTable
  <2>3. t.citizens \in Nat \ {0}
    BY <2>1, <2>2
  <2>4. citizens \in Nat /\ SCALING \in [Wares -> Nat \ {0}]
    BY FilesAssumption
  <2>5. ASSUME NEW w \in DOMAIN t.goods, t.goods[w].supply # None PROVE t.goods[w].supply \in Nat
    <3> DEFINE x == t.goods[w].supply
    <3>1. x \in Int /\ x > 0
      BY <2>1, <2>2, <2>5
    <3> QED
      BY <3>1
  <2> QED
    BY <2>2, <2>3, <2>4, <2>5
<1>3. ASSUME NEW w \in DOMAIN t.goods, t.goods[w].supply # None PROVE need(w) \in Nat
  <2> DEFINE x == t.goods[w].supply
             total == x * citizens + t.citizens - 1
             q == total \div t.citizens
  <2>1. x \in Nat /\ w \in Wares /\ SCALING[w] \in Nat
    BY <1>2, <1>3
  <2>2. x * citizens \in Nat
    BY <1>2, <2>1
  <2> HIDE DEF x
  <2>3. total \in Nat
    BY <1>2, <2>2
  <2>4. units(x, citizens, t.citizens) = q
    BY DEF units
  <2> HIDE DEF total
  <2>5. q \in Nat
    BY <1>2, <2>3
  <2> HIDE DEF q
  <2>6. q * SCALING[w] \in Nat
    BY <2>1, <2>5
  <2> QED
    BY <2>4, <2>6 DEF x
<1> HIDE DEF need
<1>4. \A w \in Wares : raw(w) \in Nat
  BY <1>3
<1>5. \A w \in DOMAIN t.goods : t.goods[w].supply # None => raw(w) = need(w)
  OBVIOUS
<1> HIDE DEF raw
<1> QED
  BY <1>1, <1>2, <1>4, <1>5 DEF need

\* The amounts of a ware's lines of one kind.
AmountsOf(orders, w, kind) == {o.amount : o \in {o \in orders : o.ware = w /\ o.kind = kind}}

\* A stop that trades a ware for nothing loads it or unloads it, in one line at most.
LEMMA AmountsOfWare ==
    ASSUME NEW s, NEW w \in Wares, s.price[w] = 0, NEW b \in Int, b = s.amount[w]
    PROVE  /\ b > 0 => /\ AmountsOf(Shown(s).orders, w, "load") = {display_amount(w, b)}
                       /\ AmountsOf(Shown(s).orders, w, "unload") = {}
           /\ b = 0 => AmountsOf(Shown(s).orders, w, "unload") = {}
           /\ b < 0 => AmountsOf(Shown(s).orders, w, "unload") = {display_amount(w, b)}
<1> DEFINE printed == OrderShown(s, w)
           A(kind) == AmountsOf(Shown(s).orders, w, kind)
<1>1. \A o : (o \in Shown(s).orders /\ o.ware = w) <=> (b # 0 /\ o = printed)
  BY LineOfWare
<1>2. printed.kind = operation_of(0, b) /\ printed.amount = display_amount(w, b)
  BY DEF OrderShown
<1> HIDE DEF printed
<1>3. ASSUME NEW kind, b # 0, operation_of(0, b) = kind PROVE A(kind) = {display_amount(w, b)}
  BY <1>1, <1>2, <1>3 DEF AmountsOf
<1>4. ASSUME NEW kind, b = 0 \/ operation_of(0, b) # kind PROVE A(kind) = {}
  BY <1>1, <1>2, <1>4 DEF AmountsOf
<1> HIDE DEF A
<1>5. ASSUME b > 0 PROVE A("load") = {display_amount(w, b)} /\ A("unload") = {}
  <2>1. operation_of(0, b) = "load" /\ b # 0
    BY <1>5 DEF operation_of
  <2> QED
    BY <2>1, <1>3, <1>4
<1>6. ASSUME b < 0 PROVE A("unload") = {display_amount(w, b)}
  <2>1. operation_of(0, b) = "unload" /\ b # 0
    BY <1>6 DEF operation_of
  <2> QED
    BY <2>1, <1>3
<1>7. ASSUME b = 0 PROVE A("unload") = {}
  BY <1>4, <1>7
<1> QED
  BY <1>5, <1>6, <1>7 DEF A

\* The counted amounts among a ware's lines that unload it.
Counted(orders, w) == {o.amount : o \in {o \in orders : o.ware = w /\ o.kind = "unload" /\ o.amount # None}}

\* The lines of some stops.
Together(orders, S) == UNION {orders[n] : n \in S}

\* What several stops unload of a ware in counted units, if each of them unloads only the
\* same amount, or as much as possible, or none.
LEMMA CountedUnloads ==
    ASSUME NEW w, NEW p, NEW S, NEW orders,
           \A n \in S : AmountsOf(orders[n], w, "unload") \subseteq {p, None},
           \E n \in S : p \in AmountsOf(orders[n], w, "unload")
    PROVE  Counted(Together(orders, S), w) = {p} \ {None}
<1> DEFINE L == Counted(Together(orders, S), w)
           R == {p} \ {None}
<1>1. ASSUME NEW a \in L PROVE a \in R
  <2>1. PICK n \in S : \E o \in orders[n] : a = o.amount /\ o.ware = w /\ o.kind = "unload" /\ o.amount # None
    BY DEF Counted, Together
  <2>2. a \in AmountsOf(orders[n], w, "unload")
    BY <2>1 DEF AmountsOf
  <2> QED
    BY <2>1, <2>2
<1>2. ASSUME NEW a \in R PROVE a \in L
  <2>1. PICK n \in S : a \in AmountsOf(orders[n], w, "unload")
    OBVIOUS
  <2>2. PICK o \in orders[n] : a = o.amount /\ o.ware = w /\ o.kind = "unload"
    BY <2>1 DEF AmountsOf
  <2> QED
    BY <2>2 DEF Counted, Together
<1> HIDE DEF L, R
<1>3. L = R
  BY <1>1, <1>2
<1> QED
  BY <1>3 DEF L, R

\* The stops of the two written routes that put goods back.
LEMMA FiveStops ==
    ASSUME NEW load, NEW prices
    PROVE  LET r == five_stop_route(Home, Target, load, prices)
           IN  /\ Len(r) = 5
               /\ r[1] = stop(Home, Action(FLAG_R, TRUE), Zero, load)
               /\ r[3] = stop(Target, plain, Zero, take_supplied(load))
               /\ r[4] = stop(Target, plain, Zero, put_back_and_collect(load))
<1> DEFINE a == stop(Home, Action(FLAG_R, TRUE), Zero, load)
           b == stop(Target, plain, prices, sell_max(load))
           c == stop(Target, plain, Zero, take_supplied(load))
           d == stop(Target, plain, Zero, put_back_and_collect(load))
           e == stop(Home, plain, Zero, all_trade_wares(-MAX_AMOUNT))
           r == five_stop_route(Home, Target, load, prices)
<1>1. r = <<a>> \o <<b, c, d>> \o <<e>>
  BY DEF five_stop_route, bracketed_route, five_stop_middle
<1> HIDE DEF a, b, c, d, e, r
<1>2. Len(r) = 5 /\ r[1] = a /\ r[3] = c /\ r[4] = d
  BY <1>1
<1> QED
  BY <1>2 DEF a, c, d, r

\* The six stops take and put back one category at a time.
SixTake(load) == [w \in Wares |-> IF w \notin Barrels THEN -MAX_AMOUNT ELSE IF load[w] # 0 THEN MAX_AMOUNT ELSE 0]
SixBarrels(load) == [w \in Wares |-> IF load[w] = 0 THEN 0 ELSE IF w \in Barrels THEN -load[w] ELSE MAX_AMOUNT]
SixLoads(load) == [w \in Wares |-> IF load[w] = 0 THEN MAX_AMOUNT ELSE IF w \in Barrels THEN 0 ELSE -load[w]]

\* The stops at the target, for any town and any load.
LEMMA SixMiddle ==
    ASSUME NEW t, NEW load, NEW prices
    PROVE  six_stop_middle(t, load, prices) =
              << stop(t, plain, prices, sell_max(load)), stop(t, plain, Zero, SixTake(load)),
                 stop(t, plain, Zero, SixBarrels(load)), stop(t, plain, Zero, SixLoads(load)) >>
<1> DEFINE supplied == {w \in Wares : load[w] # 0}
           taken == [w \in Wares |-> IF w \notin Barrels THEN -MAX_AMOUNT ELSE IF w \in supplied THEN MAX_AMOUNT ELSE 0]
           barrels == [w \in Wares |-> IF w \notin supplied THEN 0 ELSE IF w \in Barrels THEN -load[w] ELSE MAX_AMOUNT]
           loads == [w \in Wares |-> IF w \notin supplied THEN MAX_AMOUNT ELSE IF w \in Barrels THEN 0 ELSE -load[w]]
<1>1. six_stop_middle(t, load, prices) =
         << stop(t, plain, prices, sell_max(load)), stop(t, plain, Zero, taken),
            stop(t, plain, Zero, barrels), stop(t, plain, Zero, loads) >>
  BY DEF six_stop_middle
<1>2. taken = SixTake(load)
  BY DEF SixTake
<1>3. barrels = SixBarrels(load)
  BY DEF SixBarrels
<1>4. loads = SixLoads(load)
  BY DEF SixLoads
<1> QED
  BY <1>1, <1>2, <1>3, <1>4

\* The stops of the longer route that take and put back.
LEMMA SixStops ==
    ASSUME NEW load, NEW prices
    PROVE  LET r == six_stop_route(Home, Target, load, prices)
           IN  /\ Len(r) = 6
               /\ r[1] = stop(Home, Action(FLAG_R, TRUE), Zero, load)
               /\ r[3] = stop(Target, plain, Zero, SixTake(load))
               /\ r[4] = stop(Target, plain, Zero, SixBarrels(load))
               /\ r[5] = stop(Target, plain, Zero, SixLoads(load))
<1> DEFINE a == stop(Home, Action(FLAG_R, TRUE), Zero, load)
           b == stop(Target, plain, prices, sell_max(load))
           c == stop(Target, plain, Zero, SixTake(load))
           d == stop(Target, plain, Zero, SixBarrels(load))
           f == stop(Target, plain, Zero, SixLoads(load))
           e == stop(Home, plain, Zero, all_trade_wares(-MAX_AMOUNT))
           r == six_stop_route(Home, Target, load, prices)
<1>1. r = <<a>> \o <<b, c, d, f>> \o <<e>>
  BY SixMiddle DEF six_stop_route, bracketed_route
<1> HIDE DEF a, b, c, d, e, f, r
<1>2. Len(r) = 6 /\ r[1] = a /\ r[3] = c /\ r[4] = d /\ r[5] = f
  BY <1>1
<1> QED
  BY <1>2 DEF a, c, d, f, r

\* A ware that is needed: its units are loaded at the first stop, and a stop that puts them
\* back prints the same amount.
LEMMA WhatIsNeeded ==
    ASSUME Written(request), NEW w \in DOMAIN request.table.goods,
           NEW supply, supply = request.table.goods[w].supply, supply # None, supply * request.citizens > 0,
           NEW needed, needed = supply * request.citizens,
           NEW load, load = load_amount(request.table, request.citizens),
           NEW a, a = units(supply, request.citizens, request.table.citizens)
    PROVE  /\ w \in Wares /\ load \in [Wares -> Nat] /\ load[w] > 0
           /\ a \in 1 .. needed + request.table.citizens
           /\ a * request.table.citizens \in needed .. needed + request.table.citizens - 1
           /\ display_amount(w, load[w]) = Printed(w, a) /\ display_amount(w, -load[w]) = Printed(w, a)
<1> DEFINE t == request.table
           c == request.citizens
           ref == t.citizens
<1>1. t \in GoodsTables /\ LegalTable(t) /\ c \in Citizens /\ load_amount(t, c) # None
  BY DEF Written
<1>2. c \in Nat /\ ref \in Nat /\ ref > 0
  BY <1>1, FilesAssumption DEF LegalTable
<1>3. w \in Wares /\ supply \in Nat /\ load \in [Wares -> Nat] /\ load[w] = a * SCALING[w]
  BY <1>1, LoadsAre
<1> HIDE DEF t, c, ref
<1>4. /\ a \in Nat /\ a # 0 /\ a <= supply * c + ref
      /\ a * ref \in supply * c .. supply * c + ref - 1
  <2>1. ref \in Nat \ {0} /\ supply * c > 0
    BY <1>2 DEF c
  <2>2. a = units(supply, c, ref)
    BY DEF c, ref, t
  <2> QED
    BY <1>2, <1>3, <2>1, <2>2, EnoughUnits
<1>5. /\ load[w] \in Nat /\ load[w] # 0
      /\ display_amount(w, load[w]) = Printed(w, a) /\ display_amount(w, -load[w]) = Printed(w, a)
  BY <1>3, <1>4, UnitsArePrinted
<1>6. needed = supply * c
  BY DEF c
<1>7. needed \in Nat
  BY <1>2, <1>3, <1>6
<1>8. a \in 1 .. needed + ref
  BY <1>2, <1>4, <1>6, <1>7
<1>9. load[w] > 0
  BY <1>5
<1> QED
  BY <1>3, <1>4, <1>5, <1>6, <1>8, <1>9 DEF ref, t

\* A written route prints what it loads, and puts just that back.
LEMMA WrittenIsPrinted ==
    ASSUME Written(request), request.type # "suck", Printing(AskedFor(request), lines)
    PROVE  NeverUndershoots
<1> SUFFICES ASSUME NEW w \in DOMAIN request.table.goods,
                    NEW supply, supply = request.table.goods[w].supply, supply # None,
                    NEW needed, needed = supply * request.citizens, needed > 0
             PROVE  \E a \in 1 .. (needed + request.table.citizens) :
                       /\ a * request.table.citizens \in needed .. (needed + request.table.citizens - 1)
                       /\ {o.amount : o \in {o \in lines[1].orders : o.ware = w /\ o.kind = "load"}} = {Printed(w, a)}
                       /\ {o.amount : o \in {o \in UNION {lines[n].orders : n \in 3 .. (Len(lines) - 1)} :
                                               o.ware = w /\ o.kind = "unload" /\ o.amount # None}} = {Printed(w, a)} \ {None}
  BY DEF NeverUndershoots
<1> DEFINE load == load_amount(request.table, request.citizens)
           a == units(supply, request.citizens, request.table.citizens)
           p == Printed(w, a)
           r == AskedFor(request)
           orders == [n \in DOMAIN r |-> Shown(r[n]).orders]
           unloads(n) == AmountsOf(orders[n], w, "unload")
<1>1. /\ w \in Wares /\ load \in [Wares -> Nat] /\ load[w] > 0
      /\ a \in 1 .. needed + request.table.citizens
      /\ a * request.table.citizens \in needed .. needed + request.table.citizens - 1
      /\ display_amount(w, load[w]) = p /\ display_amount(w, -load[w]) = p
  BY WhatIsNeeded
<1> HIDE DEF a, load
<1>2. MAX_AMOUNT \in Nat \ {0} /\ display_amount(w, -MAX_AMOUNT) = None
  BY FilesAssumption, SentinelIsPrinted
<1>3. PICK prices : \/ request.type = "5stop" /\ r = five_stop_route(Home, Target, load, prices)
                    \/ request.type = "6stop" /\ r = six_stop_route(Home, Target, load, prices)
  <2> DEFINE sells == [v \in Wares |-> IF load[v] # 0 THEN request.table.goods[v].sell ELSE 0]
  <2>1. r = WrittenRoute(request.type, request.table, request.citizens)
    BY DEF Written, AskedFor
  <2>2. CASE request.type = "5stop"
    <3>1. r = five_stop_route(Home, Target, load, sells)
      BY <2>1, <2>2 DEF WrittenRoute, load
    <3> QED
      BY <2>2, <3>1
  <2>3. CASE request.type = "6stop"
    <3>1. r = six_stop_route(Home, Target, load, sells)
      BY <2>1, <2>3 DEF WrittenRoute, load
    <3> QED
      BY <2>3, <3>1
  <2> QED
    BY <2>2, <2>3 DEF Written
<1>4. Len(r) \in Nat /\ DOMAIN r = 1 .. Len(r) /\ Len(r) \in {5, 6} /\ r[1] = stop(Home, Action(FLAG_R, TRUE), Zero, load)
  <2>1. r \in Seq(Range(r))
    BY WantedStops DEF Requested, StopsRight
  <2> HIDE DEF r
  <2>2. Len(r) \in Nat /\ DOMAIN r = 1 .. Len(r)
    BY <2>1
  <2>3. CASE r = five_stop_route(Home, Target, load, prices)
    <3>1. Len(r) = 5 /\ r[1] = stop(Home, Action(FLAG_R, TRUE), Zero, load)
      BY <2>3, FiveStops
    <3> QED
      BY <2>2, <3>1
  <2>4. CASE r = six_stop_route(Home, Target, load, prices)
    <3>1. Len(r) = 6 /\ r[1] = stop(Home, Action(FLAG_R, TRUE), Zero, load)
      BY <2>4, SixStops
    <3> QED
      BY <2>2, <3>1
  <2> QED
    BY <1>3, <2>3, <2>4
<1>5. Len(lines) = Len(r) /\ \A n \in 1 .. Len(r) : lines[n] = Shown(r[n])
  <2>1. Printing(r, lines)
    OBVIOUS
  <2> HIDE DEF r
  <2> QED
    BY <1>4, <2>1 DEF Printing
<1>6. \A n \in 1 .. Len(r) : lines[n].orders = orders[n]
  BY <1>4, <1>5
<1>7. \A t, action, amount : /\ stop(t, action, Zero, amount).price[w] = 0
                             /\ stop(t, action, Zero, amount).amount = amount
  BY <1>1 DEF stop, Zero
<1>8. ASSUME NEW n \in DOMAIN r, NEW t, NEW action, NEW amount, r[n] = stop(t, action, Zero, amount), NEW b \in Int, b = amount[w]
      PROVE  /\ b > 0 => /\ AmountsOf(orders[n], w, "load") = {display_amount(w, b)}
                         /\ unloads(n) = {}
             /\ b = 0 => unloads(n) = {}
             /\ b < 0 => unloads(n) = {display_amount(w, b)}
  <2> DEFINE s == r[n]
  <2>1. s.price[w] = 0 /\ b = s.amount[w] /\ orders[n] = Shown(s).orders
    BY <1>7, <1>8
  <2> HIDE DEF s, orders, r
  <2>2. /\ b > 0 => /\ AmountsOf(Shown(s).orders, w, "load") = {display_amount(w, b)}
                    /\ AmountsOf(Shown(s).orders, w, "unload") = {}
        /\ b = 0 => AmountsOf(Shown(s).orders, w, "unload") = {}
        /\ b < 0 => AmountsOf(Shown(s).orders, w, "unload") = {display_amount(w, b)}
    BY <1>1, <2>1, AmountsOfWare
  <2> QED
    BY <2>1, <2>2
<1>9. AmountsOf(orders[1], w, "load") = {p}
  <2>1. 1 \in DOMAIN r /\ load[w] \in Int
    BY <1>1, <1>4
  <2> HIDE DEF r, orders, unloads, p
  <2>2. AmountsOf(orders[1], w, "load") = {display_amount(w, load[w])}
    BY <1>1, <1>4, <1>8, <2>1
  <2> QED
    BY <1>1, <2>2
<1>10. /\ \A n \in 3 .. Len(r) - 1 : unloads(n) \subseteq {p, None}
       /\ \E n \in 3 .. Len(r) - 1 : p \in unloads(n)
  <2>1. load[w] \in Int /\ -load[w] \in Int /\ -load[w] < 0 /\ MAX_AMOUNT > 0 /\ -MAX_AMOUNT < 0
    BY <1>1, <1>2
  <2>2. CASE r = five_stop_route(Home, Target, load, prices)
    <3>1. Len(r) = 5 /\ r[3] = stop(Target, plain, Zero, take_supplied(load)) /\ r[4] = stop(Target, plain, Zero, put_back_and_collect(load))
      BY <2>2, FiveStops
    <3>2. take_supplied(load)[w] = MAX_AMOUNT /\ put_back_and_collect(load)[w] = -load[w]
      BY <1>1 DEF take_supplied, sell_max, put_back_and_collect
    <3>3. 3 \in DOMAIN r /\ 4 \in DOMAIN r /\ 3 .. Len(r) - 1 = {3, 4}
      BY <1>4, <3>1
    <3> HIDE DEF r, orders, unloads, p
    <3>4. unloads(3) = {}
      BY <1>2, <1>8, <2>1, <3>1, <3>2, <3>3
    <3>5. unloads(4) = {p}
      BY <1>1, <1>8, <2>1, <3>1, <3>2, <3>3
    <3> QED
      BY <3>3, <3>4, <3>5
  <2>3. CASE r = six_stop_route(Home, Target, load, prices)
    <3> DEFINE take == SixTake(load)
               barrels == SixBarrels(load)
               others == SixLoads(load)
    <3>1. /\ Len(r) = 6 /\ r[3] = stop(Target, plain, Zero, take) /\ r[4] = stop(Target, plain, Zero, barrels)
          /\ r[5] = stop(Target, plain, Zero, others)
      <4> HIDE DEF r
      <4> QED
        BY <2>3, SixStops
    <3>2. /\ take[w] = IF w \notin Barrels THEN -MAX_AMOUNT ELSE MAX_AMOUNT
          /\ barrels[w] = IF w \in Barrels THEN -load[w] ELSE MAX_AMOUNT
          /\ others[w] = IF w \in Barrels THEN 0 ELSE -load[w]
      BY <1>1 DEF SixTake, SixBarrels, SixLoads
    <3> HIDE DEF take, barrels, others
    <3>3. {3, 4, 5} \subseteq DOMAIN r /\ 3 .. Len(r) - 1 = {3, 4, 5}
      BY <1>4, <3>1
    <3> HIDE DEF r, orders, unloads, p
    <3>4. CASE w \in Barrels
      <4>1. take[w] = MAX_AMOUNT /\ barrels[w] = -load[w] /\ others[w] = 0
        BY <3>2, <3>4
      <4>2. unloads(3) = {}
        BY <1>2, <1>8, <2>1, <3>1, <3>3, <4>1
      <4>3. unloads(4) = {p}
        BY <1>1, <1>8, <2>1, <3>1, <3>3, <4>1
      <4>4. unloads(5) = {}
        BY <1>8, <3>1, <3>3, <4>1
      <4> QED
        BY <3>3, <4>2, <4>3, <4>4
    <3>5. CASE w \notin Barrels
      <4>1. take[w] = -MAX_AMOUNT /\ barrels[w] = MAX_AMOUNT /\ others[w] = -load[w]
        BY <3>2, <3>5
      <4>2. unloads(3) = {None}
        BY <1>2, <1>8, <2>1, <3>1, <3>3, <4>1
      <4>3. unloads(4) = {}
        BY <1>2, <1>8, <2>1, <3>1, <3>3, <4>1
      <4>4. unloads(5) = {p}
        BY <1>1, <1>8, <2>1, <3>1, <3>3, <4>1
      <4> QED
        BY <3>3, <4>2, <4>3, <4>4
    <3> QED
      BY <3>4, <3>5
  <2> QED
    BY <1>3, <2>2, <2>3
<1>11. {o.amount : o \in {o \in lines[1].orders : o.ware = w /\ o.kind = "load"}} = {p}
  <2>1. lines[1].orders = orders[1]
    BY <1>4, <1>6
  <2> QED
    BY <1>9, <2>1 DEF AmountsOf
<1>12. {o.amount : o \in {o \in UNION {lines[n].orders : n \in 3 .. (Len(lines) - 1)} :
                            o.ware = w /\ o.kind = "unload" /\ o.amount # None}} = {p} \ {None}
  <2> DEFINE S == 3 .. Len(r) - 1
             shown == UNION {lines[n].orders : n \in 3 .. (Len(lines) - 1)}
  <2>1. S \subseteq 1 .. Len(r) /\ 3 .. (Len(lines) - 1) = S
    BY <1>4, <1>5
  <2> HIDE DEF r, orders, p, S
  <2>2. shown = Together(orders, S)
    BY <1>6, <2>1 DEF Together
  <2>3. Counted(Together(orders, S), w) = {p} \ {None}
    <3>1. /\ \A n \in S : AmountsOf(orders[n], w, "unload") \subseteq {p, None}
          /\ \E n \in S : p \in AmountsOf(orders[n], w, "unload")
      BY <1>10 DEF S
    <3> QED
      BY <3>1, CountedUnloads
  <2> HIDE DEF shown
  <2>4. Counted(shown, w) = {p} \ {None}
    BY <2>2, <2>3
  <2> QED
    BY <2>4 DEF shown, Counted
<1> QED
  BY <1>1, <1>11, <1>12

\* What is printed at the end is what was asked for, for every table of masks without a slip
\* among the entries that copies use, every description and every table of goods.
THEOREM FilesMeanWhatWasAsked == FilesSpec => []FilesSayWhatWasMeant
<1>1. FilesInv => FilesSayWhatWasMeant
  <2> SUFFICES ASSUME FilesInv, lines # <<>>
               PROVE  /\ request.kind = "described" => DescribedIsShown
                      /\ request.kind = "written" /\ request.type # "suck" => NeverUndershoots
    BY DEF FilesSayWhatWasMeant
  <2>1. Requested(request) /\ Printing(AskedFor(request), lines)
    BY DEF FilesInv, Nothing, Kept
  <2> QED
    BY <2>1, DescribedIsPrinted, WrittenIsPrinted DEF Requested, Described, Written
<1> QED
  BY <1>1, FilesAreKept, PTL

-----------------------------------------------------------------------------
(* SupplyRoute: amounts of wares, and their totals.                        *)

\* So much of each ware.
Amounts == [Wares -> Nat]

\* A total is a sum over the wares.
LEMMA TotalIs == \A a : TotalOf(a) = SumOf(a, Wares)
  BY DEF TotalOf, SumOver, SumOf

\* No ware is more than the total.
LEMMA TotalIsNat == ASSUME NEW a \in Amounts PROVE TotalOf(a) \in Nat /\ \A w \in Wares : a[w] \in Nat /\ a[w] <= TotalOf(a)
  BY TotalIs, SupplyAssumption, SumIsNat, SumOfMember DEF Amounts

\* Totals add up.
LEMMA TotalAdds ==
    ASSUME NEW a \in Amounts, NEW b \in Amounts, NEW c \in Amounts, \A w \in Wares : c[w] = a[w] + b[w]
    PROVE  TotalOf(c) = TotalOf(a) + TotalOf(b)
<1>1. IsFiniteSet(Wares) /\ a \in [Wares -> Nat] /\ b \in [Wares -> Nat] /\ c \in [Wares -> Nat]
  BY SupplyAssumption DEF Amounts
<1>2. SumOf(c, Wares) = SumOf(a, Wares) + SumOf(b, Wares)
  BY <1>1, SumAdds
<1> QED
  BY <1>2, TotalIs

\* More of the wares is more in total.
LEMMA TotalGrows ==
    ASSUME NEW a \in Amounts, NEW b \in Amounts, \A w \in Wares : a[w] <= b[w]
    PROVE  TotalOf(a) <= TotalOf(b) /\ ((\E w \in Wares : a[w] < b[w]) => TotalOf(a) < TotalOf(b))
  BY TotalIs, SupplyAssumption, SumGrows DEF Amounts

\* The total changes as one ware does.
LEMMA TotalChanges ==
    ASSUME NEW a \in Amounts, NEW b \in Amounts, NEW v \in Wares, \A w \in Wares : w # v => b[w] = a[w]
    PROVE  TotalOf(b) + a[v] = TotalOf(a) + b[v]
<1>1. IsFiniteSet(Wares) /\ a \in [Wares -> Nat] /\ b \in [Wares -> Nat]
  BY SupplyAssumption DEF Amounts
<1>2. SumOf(b, Wares) + a[v] = SumOf(a, Wares) + b[v]
  BY <1>1, SumOfOneChange
<1> QED
  BY <1>2, TotalIs

\* Nothing of any ware is nothing in total.
LEMMA TotalOfNone == TotalOf(Zero) = 0 /\ Zero \in Amounts
<1>1. Zero \in Amounts /\ \A w \in Wares : Zero[w] = 0
  BY DEF Zero, Amounts
<1> QED
  BY <1>1, TotalIs, SupplyAssumption, SumOfZeros DEF Amounts

\* The order of a stop has every ware once.
Lists(order) ==
    /\ order \in [1 .. Cardinality(Wares) -> Wares]
    /\ \A w \in Wares : \E i \in 1 .. Cardinality(Wares) : order[i] = w
    /\ \A i, j \in 1 .. Cardinality(Wares) : i < j => order[i] # order[j]

\* Counting which wares are ahead gives such an order.
LEMMA CargoOrderIs == ASSUME NEW amount \in [Wares -> Int] PROVE Lists(cargo_order(amount))
<1> DEFINE n == Cardinality(Wares)
           key(w) == IF amount[w] = 0 THEN 255 ELSE (IF w \in Barrels THEN 0 ELSE 32) + value_rank[w]
           place(w) == CHOOSE i \in DOMAIN DEFAULT_ORDER : DEFAULT_ORDER[i] = w
           less(v, w) == key(v) < key(w) \/ (key(v) = key(w) /\ place(v) < place(w))
           R == {p \in Wares \X Wares : less(p[1], p[2])}
           ahead(w) == {v \in Wares : less(v, w)}
<1>1. n \in Nat /\ IsFiniteSet(Wares)
  BY SupplyAssumption, FS_CardinalityType
<1>2. /\ DEFAULT_ORDER \in [1 .. n -> Wares]
      /\ \A w \in Wares : \E i \in 1 .. n : DEFAULT_ORDER[i] = w
  BY SupplyAssumption DEF Bijection, Injection, Surjection
<1>3. \A w \in Wares : place(w) \in 1 .. n /\ DEFAULT_ORDER[place(w)] = w
  BY <1>2
<1>4. \A w \in Wares : key(w) \in Int
  BY SupplyAssumption
<1> HIDE DEF key, place
<1>5. \A v, w \in Wares : v # w => less(v, w) \/ less(w, v)
  BY <1>1, <1>3, <1>4
<1>6. \A v, w \in Wares : less(v, w) => ~less(w, v)
  BY <1>1, <1>3, <1>4
<1>7. \A u, v, w \in Wares : less(u, v) /\ less(v, w) => less(u, w)
  BY <1>1, <1>3, <1>4
<1>8. \A w \in Wares : ahead(w) = AheadOf(w, R, Wares)
  BY DEF AheadOf
<1> HIDE DEF less
<1>9. IsOrder(R, Wares)
  BY <1>5, <1>6, <1>7 DEF IsOrder
<1> DEFINE o == [i \in 1 .. n |-> CHOOSE w \in Wares : Cardinality(AheadOf(w, R, Wares)) = i - 1]
<1>10. InARow(o, R, Wares)
  <2> HIDE DEF R
  <2> QED
    BY <1>1, <1>9, RankIsAPlace
<1>11. cargo_order(amount) = o
  <2>1. DOMAIN DEFAULT_ORDER = 1 .. n
    BY <1>2
  <2>2. cargo_order(amount) = [i \in DOMAIN DEFAULT_ORDER |-> CHOOSE w \in Wares : Cardinality(ahead(w)) = i - 1]
    BY DEF cargo_order, key, place, less
  <2> HIDE DEF ahead, R
  <2> QED
    BY <1>8, <2>1, <2>2
<1> HIDE DEF o
<1>12. \A v, w \in Wares : <<v, w>> \in R => v # w
  BY <1>6
<1> HIDE DEF R
<1> QED
  BY <1>10, <1>11, <1>12 DEF InARow, Lists

-----------------------------------------------------------------------------
(* SupplyRoute: what a stop takes aboard.                                  *)

\* What taking of one ware does.
LEMMA OneTaken ==
    ASSUME NEW wanted \in Amounts, NEW free \in Nat, NEW a \in Amounts, TotalOf(a) <= free, NEW v \in Wares
    PROVE  LET b == [a EXCEPT ![v] = Least(wanted[v], free - TotalOf(a))] IN
           /\ b \in Amounts /\ TotalOf(b) <= free /\ b[v] <= wanted[v]
           /\ \A w \in Wares : w # v => b[w] = a[w]
           /\ a[v] = 0 => /\ TotalOf(a) = free => TotalOf(b) = free
                          /\ b[v] < wanted[v] => TotalOf(b) = free
<1> DEFINE want == wanted[v]
           A == TotalOf(a)
           new == Least(want, free - A)
           b == [a EXCEPT ![v] = new]
           B == TotalOf(b)
           av == a[v]
<1>1. want \in Nat /\ A \in Nat /\ av \in Nat /\ a \in [Wares -> Nat] /\ A <= free
  BY TotalIsNat DEF Amounts
<1> HIDE DEF want, A, av
<1>2. new \in Nat /\ new <= want /\ new <= free - A /\ (new < want => new = free - A)
  BY <1>1 DEF Least
<1> HIDE DEF new
<1>3. b \in Amounts /\ b[v] = new /\ \A w \in Wares : w # v => b[w] = a[w]
  BY <1>1, <1>2 DEF Amounts
<1> HIDE DEF b
<1>4. B + av = A + new /\ B \in Nat
  BY <1>3, TotalChanges, TotalIsNat DEF A, av
<1> HIDE DEF B
<1>5. B <= free /\ (av = 0 => (A = free => B = free) /\ (new < want => B = free))
  BY <1>1, <1>2, <1>4
<1> QED
  BY <1>2, <1>3, <1>5 DEF b, B, A, new, want, av

\* What the second pass takes: no more than is wanted and there is room for, and all that is
\* wanted or as much as there is room for.
LEMMA TakenIs ==
    ASSUME NEW s, Lists(s.order), NEW offered, NEW free \in Nat, Loadable(s, offered) \in Amounts
    PROVE  /\ Taken(s, offered, free) \in Amounts
           /\ \A w \in Wares : Taken(s, offered, free)[w] <= Loadable(s, offered)[w]
           /\ TotalOf(Taken(s, offered, free)) <= free
           /\ (\E w \in Wares : Taken(s, offered, free)[w] < Loadable(s, offered)[w]) =>
                 TotalOf(Taken(s, offered, free)) = free
<1> DEFINE wanted == Loadable(s, offered)
           N == Cardinality(Wares)
           order == s.order
           D == {a \in Amounts : TotalOf(a) <= free}
           next(a, n) == [a EXCEPT ![order[n]] = Least(wanted[order[n]], free - TotalOf(a))]
           step == [p \in (1 .. N) \X D |-> next(p[2], p[1])]
           Takes(f) == f = [n \in 0 .. Len(order) |-> IF n = 0 THEN Zero ELSE next(f[n - 1], n)]
           taken == CHOOSE f : Takes(f)
<1>1. N \in Nat /\ Len(order) = N /\ \A n \in 1 .. N : order[n] \in Wares
  <2>1. IsFiniteSet(Wares)
    BY SupplyAssumption
  <2>2. N \in Nat
    BY <2>1, FS_CardinalityType
  <2>3. order \in [1 .. N -> Wares]
    BY DEF Lists
  <2> HIDE DEF N, order
  <2> QED
    BY <2>2, <2>3
<1>2. Taken(s, offered, free) = taken[N]
  BY <1>1 DEF Taken
<1>3. wanted \in Amounts
  OBVIOUS
<1> HIDE DEF wanted, N
<1>4. ASSUME NEW a \in D, NEW n \in 1 .. N PROVE next(a, n) \in D
  <2>1. order[n] \in Wares
    BY <1>1
  <2> HIDE DEF order
  <2> QED
    BY <1>3, <2>1, OneTaken
<1>5. Zero \in D
  BY TotalOfNone
<1>6. PICK f : HandsOn(f, D, Zero, N, step)
  <2>1. step \in [(1 .. N) \X D -> D]
    <3> HIDE DEF D, next
    <3> QED
      BY <1>4
  <2> HIDE DEF D, step
  <2> QED
    BY <1>1, <1>5, <2>1, Recursion
<1>7. f \in [0 .. N -> D] /\ f[0] = Zero /\ \A n \in 1 .. N : f[n] = next(f[n - 1], n)
  <2>1. f \in [0 .. N -> D] /\ f[0] = Zero /\ \A n \in 1 .. N : f[n] = step[<<n, f[n - 1]>>]
    BY <1>6 DEF HandsOn
  <2>2. ASSUME NEW n \in 1 .. N PROVE step[<<n, f[n - 1]>>] = next(f[n - 1], n)
    <3>1. f[n - 1] \in D
      BY <1>1, <2>1
    <3> HIDE DEF D, next
    <3> QED
      BY <3>1
  <2> HIDE DEF step, next, D
  <2> QED
    BY <2>1, <2>2
<1>8. Takes(f)
  <2> DEFINE g == [n \in 0 .. N |-> IF n = 0 THEN Zero ELSE next(f[n - 1], n)]
  <2> HIDE DEF next, D
  <2>1. \A n \in 0 .. N : f[n] = g[n]
    BY <1>1, <1>7
  <2>2. f = g
    <3>1. f = [n \in 0 .. N |-> f[n]]
      BY <1>7
    <3>2. g = [n \in 0 .. N |-> g[n]]
      OBVIOUS
    <3> HIDE DEF g
    <3> QED
      BY <2>1, <3>1, <3>2
  <2> QED
    BY <1>1, <2>2
<1>9. Takes(taken)
  <2> HIDE DEF Takes
  <2> QED
    BY <1>8
<1> HIDE DEF taken
<1>10. taken[0] = Zero /\ \A n \in 0 .. N - 1 : taken[n + 1] = next(taken[n], n + 1)
  <2> DEFINE value(n) == IF n = 0 THEN Zero ELSE next(taken[n - 1], n)
  <2>1. taken = [n \in 0 .. N |-> value(n)]
    BY <1>1, <1>9
  <2>2. value(0) = Zero
    OBVIOUS
  <2>3. ASSUME NEW n \in 0 .. N - 1 PROVE value(n + 1) = next(taken[n], n + 1) /\ n + 1 \in 0 .. N
    <3>1. n + 1 # 0 /\ (n + 1) - 1 = n /\ n + 1 \in 0 .. N
      BY <1>1
    <3> HIDE DEF next
    <3> QED
      BY <3>1
  <2>4. 0 \in 0 .. N
    BY <1>1
  <2> HIDE DEF value, next
  <2> QED
    BY <2>1, <2>2, <2>3, <2>4
<1> DEFINE Done(n, a) ==
               /\ a \in D
               /\ \A w \in Wares : a[w] <= wanted[w]
               /\ \A i \in 1 .. N : n < i => a[order[i]] = 0
               /\ \A i \in 1 .. n : a[order[i]] < wanted[order[i]] => TotalOf(a) = free
           T == {n \in 0 .. N : Done(n, taken[n])}
<1>11. 0 \in T
  <2>1. Zero \in D /\ \A w \in Wares : Zero[w] = 0 /\ wanted[w] \in Nat
    BY <1>3, <1>5 DEF Zero, Amounts
  <2>2. Done(0, Zero)
    BY <1>1, <2>1
  <2> QED
    BY <1>1, <1>10, <2>2
<1>12. ASSUME NEW n \in 0 .. N - 1, n \in T PROVE n + 1 \in T
  <2> DEFINE m == n + 1
             a == taken[n]
             v == order[m]
             b == next(a, m)
  <2>1. m \in 1 .. N /\ m \in 0 .. N /\ n < m /\ (\A i \in 1 .. N : m < i => n < i) /\ (\A i \in 1 .. m : i = m \/ i \in 1 .. n)
    BY <1>1
  <2>2. taken[m] = b /\ Done(n, a)
    BY <1>10, <1>12
  <2>3. v \in Wares /\ a[v] = 0 /\ a \in Amounts /\ TotalOf(a) <= free
    BY <1>1, <2>1, <2>2
  <2>4. /\ b \in Amounts /\ TotalOf(b) <= free /\ b[v] <= wanted[v]
        /\ \A w \in Wares : w # v => b[w] = a[w]
        /\ TotalOf(a) = free => TotalOf(b) = free
        /\ b[v] < wanted[v] => TotalOf(b) = free
    <3> HIDE DEF a, v
    <3> QED
      BY <1>3, <2>3, OneTaken DEF v
  <2>5. \A i \in 1 .. N : order[i] \in Wares /\ (i # m => order[i] # v)
    BY <1>1, <2>1 DEF Lists, N
  <2> HIDE DEF m, a, v, b, T
  <2>6. Done(m, b)
    <3>1. \A w \in Wares : b[w] <= wanted[w]
      BY <2>2, <2>4
    <3>2. \A i \in 1 .. N : m < i => b[order[i]] = 0
      <4> SUFFICES ASSUME NEW i \in 1 .. N, m < i PROVE b[order[i]] = 0
        OBVIOUS
      <4>1. n < i /\ i # m
        BY <2>1
      <4>2. b[order[i]] = a[order[i]]
        BY <2>4, <2>5, <4>1
      <4> QED
        BY <2>2, <4>1, <4>2
    <3>3. \A i \in 1 .. m : b[order[i]] < wanted[order[i]] => TotalOf(b) = free
      <4> SUFFICES ASSUME NEW i \in 1 .. m, b[order[i]] < wanted[order[i]] PROVE TotalOf(b) = free
        OBVIOUS
      <4>1. CASE i = m
        BY <2>4, <4>1 DEF v
      <4>2. CASE i # m
        <5>1. i \in 1 .. n /\ i \in 1 .. N
          BY <1>1, <2>1, <4>2
        <5>2. b[order[i]] = a[order[i]]
          BY <2>4, <2>5, <4>2, <5>1
        <5>3. TotalOf(a) = free
          BY <2>2, <5>1, <5>2
        <5> QED
          BY <2>4, <5>3
      <4> QED
        BY <4>1, <4>2
    <3> QED
      BY <2>4, <3>1, <3>2, <3>3
  <2>7. m \in 0 .. N /\ Done(m, taken[m])
    BY <2>1, <2>2, <2>6
  <2> HIDE DEF Done
  <2> QED
    BY <2>7 DEF T, m
<1> HIDE DEF T
<1>13. N \in T
  <2>1. \A n \in 0 .. N : n \in T
    BY <1>1, <1>11, <1>12, IntervalInduction
  <2> QED
    BY <1>1, <2>1
<1>14. Done(N, taken[N])
  BY <1>13 DEF T
<1>15. \A w \in Wares : \E i \in 1 .. N : order[i] = w
  BY DEF Lists, N
<1> QED
  BY <1>2, <1>14, <1>15 DEF wanted

-----------------------------------------------------------------------------
(* SupplyRoute: the stops that a key builds.                               *)

\* The towns of a route.
Places == Range(Targets) \cup {HomeTown}

\* The stops there can be.
AllStops ==
    [town : Places, action : Int, price : [Wares -> Int], amount : [Wares -> Int],
     order : {o \in [1 .. Cardinality(Wares) -> Wares] : Lists(o)}]

\* A stop's town is the one asked for, and its order lists every ware.
LEMMA StopIs ==
    ASSUME NEW t \in Places, NEW action \in Int, NEW price \in [Wares -> Int], NEW amount \in [Wares -> Int],
           NEW s, s = stop(t, action, price, amount)
    PROVE  s \in AllStops /\ s.town = t /\ s.price = price /\ s.amount = amount
<1>1. Lists(cargo_order(amount)) /\ cargo_order(amount) \in [1 .. Cardinality(Wares) -> Wares]
  BY CargoOrderIs DEF Lists
<1> QED
  BY <1>1 DEF stop, AllStops

\* A basket is made of whole units.
LEMMA BasketIs ==
    ASSUME NEW t \in Range(Targets), NEW alt, NEW days \in Nat
    PROVE  town_supply_basket(t, alt, days) \in Amounts
<1> SUFFICES ASSUME NEW w \in Wares
             PROVE  ((Consumes[t][w] * days + SCALING[w] - 1) \div SCALING[w]) * SCALING[w] \in Nat
  BY DEF town_supply_basket, Amounts
<1> DEFINE c == Consumes[t][w]
           s == SCALING[w]
           x == c * days
           y == x + s - 1
           q == y \div s
<1>1. c \in Nat /\ s \in Nat \ {0}
  BY SupplyAssumption
<1>2. x \in Nat
  BY <1>1
<1>3. y \in Nat
  <2> HIDE DEF x, s
  <2> QED
    BY <1>1, <1>2
<1>4. q \in Nat
  <2> HIDE DEF y, s
  <2> QED
    BY <1>1, <1>3
<1>5. q * s \in Nat
  <2> HIDE DEF q, s
  <2> QED
    BY <1>1, <1>4
<1> QED
  BY <1>5

\* The load for a set of towns.
LEMMA LoadIs ==
    ASSUME NEW alt, NEW days \in Nat
    PROVE  supply_load_for_towns(Range(Targets), alt, days) \in Amounts
<1> DEFINE R == Range(Targets)
<1>1. IsFiniteSet(R)
  <2>1. Targets \in Seq(R)
    BY SupplyAssumption
  <2>2. DOMAIN Targets = 1 .. Len(Targets) /\ Len(Targets) \in Nat
    BY <2>1
  <2>3. R = {Targets[i] : i \in DOMAIN Targets}
    BY DEF Range
  <2>4. IsFiniteSet(1 .. Len(Targets))
    BY <2>2, FS_Interval
  <2>5. Targets \in Surjection(1 .. Len(Targets), R)
    BY <2>1, <2>2, <2>3 DEF Surjection
  <2> QED
    BY <2>4, <2>5, FS_Surjection
<1> SUFFICES ASSUME NEW w \in Wares
             PROVE  SumOver([t \in R |-> town_supply_basket(t, alt, days)[w]], R) \in Nat
  BY DEF supply_load_for_towns, Amounts
<1> DEFINE f == [t \in R |-> town_supply_basket(t, alt, days)[w]]
<1>2. \A t \in R : town_supply_basket(t, alt, days)[w] \in Nat
  BY BasketIs DEF Amounts
<1>3. f \in [R -> Nat]
  BY <1>2
<1>4. SumOf(f, R) \in Nat
  <2> HIDE DEF f, R
  <2> QED
    BY <1>1, <1>3, SumIsNat
<1> QED
  BY <1>4 DEF SumOf, SumOver

\* What the flags of a stop are.
LEMMA ActionsAre == plain \in Int /\ Action(FLAG_R, TRUE) \in Int
  BY DEF plain, Action, FLAG_X, FLAG_R, FIRST_STOP_MARKER

\* The stops made for one target: at least one, all of them at it.
Visits(b, t) == b \in Seq(AllStops) /\ Len(b) \in Nat \ {0} /\ \A j \in 1 .. Len(b) : b[j].town = t

\* A stop at a target.
LEMMA PlainStopIs ==
    ASSUME NEW t \in Range(Targets), NEW price \in [Wares -> Int], NEW amount \in [Wares -> Int],
           NEW s, s = stop(t, plain, price, amount)
    PROVE  s \in AllStops /\ s.town = t /\ s.price = price /\ s.amount = amount
<1>1. t \in Places /\ plain \in Int
  BY ActionsAre DEF Places
<1> QED
  BY <1>1, StopIs

\* One stop is a visit.
LEMMA OneStopVisits ==
    ASSUME NEW t \in Range(Targets), NEW price \in [Wares -> Int], NEW amount \in [Wares -> Int]
    PROVE  Visits(<<stop(t, plain, price, amount)>>, t)
<1> DEFINE a == stop(t, plain, price, amount)
<1>1. a \in AllStops /\ a.town = t
  BY PlainStopIs
<1> HIDE DEF a
<1>2. Visits(<<a>>, t)
  BY <1>1 DEF Visits
<1> QED
  BY <1>2 DEF a

\* What the exchange of a target's stock is made of.
LEMMA ExchangesAre ==
    ASSUME NEW load \in Amounts
    PROVE  /\ Zero \in [Wares -> Int] /\ [w \in Wares |-> 1] \in [Wares -> Int]
           /\ sell_max(load) \in [Wares -> Int] /\ take_supplied(load) \in [Wares -> Int]
           /\ put_back_and_collect(load) \in [Wares -> Int]
           /\ SixTake(load) \in [Wares -> Int] /\ SixBarrels(load) \in [Wares -> Int] /\ SixLoads(load) \in [Wares -> Int]
<1>1. MAX_AMOUNT \in Int /\ -MAX_AMOUNT \in Int /\ \A w \in Wares : load[w] \in Int /\ -load[w] \in Int
  BY SupplyAssumption DEF Amounts
<1> QED
  BY <1>1 DEF Zero, sell_max, take_supplied, put_back_and_collect, SixTake, SixBarrels, SixLoads

\* The exchange of the five stops, and the amounts of each.
LEMMA FiveVisits ==
    ASSUME NEW t \in Range(Targets), NEW load \in Amounts
    PROVE  LET b == five_stop_middle(t, load, [w \in Wares |-> 1]) IN
           /\ Visits(b, t) /\ Len(b) = 3
           /\ b[2].price = Zero /\ b[2].amount = take_supplied(load)
           /\ b[3].price = Zero /\ b[3].amount = put_back_and_collect(load)
<1> DEFINE ones == [w \in Wares |-> 1]
           c == stop(t, plain, ones, sell_max(load))
           d == stop(t, plain, Zero, take_supplied(load))
           e == stop(t, plain, Zero, put_back_and_collect(load))
           b == five_stop_middle(t, load, ones)
<1>1. /\ c \in AllStops /\ c.town = t
      /\ d \in AllStops /\ d.town = t /\ d.price = Zero /\ d.amount = take_supplied(load)
      /\ e \in AllStops /\ e.town = t /\ e.price = Zero /\ e.amount = put_back_and_collect(load)
  <2>1. /\ ones \in [Wares -> Int] /\ Zero \in [Wares -> Int] /\ sell_max(load) \in [Wares -> Int]
        /\ take_supplied(load) \in [Wares -> Int] /\ put_back_and_collect(load) \in [Wares -> Int]
    BY ExchangesAre
  <2> HIDE DEF ones
  <2>2. c \in AllStops /\ c.town = t
    BY <2>1, PlainStopIs
  <2>3. d \in AllStops /\ d.town = t /\ d.price = Zero /\ d.amount = take_supplied(load)
    BY <2>1, PlainStopIs
  <2>4. e \in AllStops /\ e.town = t /\ e.price = Zero /\ e.amount = put_back_and_collect(load)
    BY <2>1, PlainStopIs
  <2> QED
    BY <2>2, <2>3, <2>4
<1>2. b = <<c, d, e>>
  BY DEF five_stop_middle
<1> HIDE DEF b, c, d, e
<1>3. b \in Seq(AllStops) /\ Len(b) = 3 /\ b[1] = c /\ b[2] = d /\ b[3] = e
  BY <1>1, <1>2
<1>4. \A j \in 1 .. 3 : j = 1 \/ j = 2 \/ j = 3
  OBVIOUS
<1> QED
  BY <1>1, <1>3, <1>4 DEF Visits, b

\* The exchange of the six stops, and the amounts of each.
LEMMA SixVisits ==
    ASSUME NEW t \in Range(Targets), NEW load \in Amounts
    PROVE  LET b == six_stop_middle(t, load, [w \in Wares |-> 1]) IN
           /\ Visits(b, t) /\ Len(b) = 4
           /\ b[2].price = Zero /\ b[2].amount = SixTake(load)
           /\ b[3].price = Zero /\ b[3].amount = SixBarrels(load)
           /\ b[4].price = Zero /\ b[4].amount = SixLoads(load)
<1> DEFINE ones == [w \in Wares |-> 1]
           c == stop(t, plain, ones, sell_max(load))
           d == stop(t, plain, Zero, SixTake(load))
           e == stop(t, plain, Zero, SixBarrels(load))
           f == stop(t, plain, Zero, SixLoads(load))
           b == six_stop_middle(t, load, ones)
<1>1. /\ c \in AllStops /\ c.town = t
      /\ d \in AllStops /\ d.town = t /\ d.price = Zero /\ d.amount = SixTake(load)
      /\ e \in AllStops /\ e.town = t /\ e.price = Zero /\ e.amount = SixBarrels(load)
      /\ f \in AllStops /\ f.town = t /\ f.price = Zero /\ f.amount = SixLoads(load)
  <2>1. /\ ones \in [Wares -> Int] /\ Zero \in [Wares -> Int] /\ sell_max(load) \in [Wares -> Int]
        /\ SixTake(load) \in [Wares -> Int] /\ SixBarrels(load) \in [Wares -> Int] /\ SixLoads(load) \in [Wares -> Int]
    BY ExchangesAre
  <2> HIDE DEF ones
  <2>2. c \in AllStops /\ c.town = t
    BY <2>1, PlainStopIs
  <2>3. d \in AllStops /\ d.town = t /\ d.price = Zero /\ d.amount = SixTake(load)
    BY <2>1, PlainStopIs
  <2>4. e \in AllStops /\ e.town = t /\ e.price = Zero /\ e.amount = SixBarrels(load)
    BY <2>1, PlainStopIs
  <2>5. f \in AllStops /\ f.town = t /\ f.price = Zero /\ f.amount = SixLoads(load)
    BY <2>1, PlainStopIs
  <2> QED
    BY <2>2, <2>3, <2>4, <2>5
<1>2. b = <<c, d, e, f>>
  BY SixMiddle
<1> HIDE DEF b, c, d, e, f
<1>3. b \in Seq(AllStops) /\ Len(b) = 4 /\ b[1] = c /\ b[2] = d /\ b[3] = e /\ b[4] = f
  BY <1>1, <1>2
<1>4. \A j \in 1 .. 4 : j = 1 \/ j = 2 \/ j = 3 \/ j = 4
  OBVIOUS
<1> QED
  BY <1>1, <1>3, <1>4 DEF Visits, b

\* Whatever the key: the stops made for a target are at it.
LEMMA MiddleVisits ==
    ASSUME NEW k \in RouteKinds, NEW t \in Range(Targets), NEW alt, NEW days \in Nat
    PROVE  Visits(middle(k, t, alt, days), t)
<1> DEFINE load == town_supply_basket(t, alt, days)
           ones == [w \in Wares |-> 1]
           buys == collect_buys(k, alt)
           both == [w \in Wares |-> IF load[w] # 0 THEN ones[w] ELSE -buys[w]]
           much == [w \in Wares |-> IF load[w] # 0 \/ buys[w] > 0 THEN MAX_AMOUNT ELSE 0]
           bought == [w \in Wares |-> -buys[w]]
           most == [w \in Wares |-> IF buys[w] > 0 THEN MAX_AMOUNT ELSE 0]
           all == [w \in Wares |-> MAX_AMOUNT]
           trade == town_trade_basket(t, ~alt)
<1>1. load \in Amounts
  BY BasketIs
<1>2. buys \in [Wares -> Int] /\ trade \in [Wares -> Int] /\ ones \in [Wares -> Int]
  BY DEF collect_buys, town_trade_basket
<1>3. MAX_AMOUNT \in Int
  BY SupplyAssumption
<1>4. middle(k, t, alt, days) =
        IF k = "Suck" THEN <<stop(t, plain, bought, most)>>
        ELSE IF k = "Trade" THEN <<stop(t, plain, trade, all)>>
        ELSE IF k = "FiveStop" /\ t \in HasOffice THEN five_stop_middle(t, load, ones)
        ELSE IF k = "SixStop" /\ t \in HasOffice THEN six_stop_middle(t, load, ones)
        ELSE <<stop(t, plain, both, much)>>
  BY DEF middle, buy_stop, trade_stop
<1> HIDE DEF load, buys, trade
<1>5. both \in [Wares -> Int] /\ much \in [Wares -> Int] /\ bought \in [Wares -> Int] /\ most \in [Wares -> Int] /\ all \in [Wares -> Int]
  <2>1. \A w \in Wares : ones[w] \in Int /\ -buys[w] \in Int
    BY <1>2
  <2> QED
    BY <1>3, <2>1
<1> HIDE DEF both, much, bought, most, all
<1>6. Visits(<<stop(t, plain, bought, most)>>, t) /\ Visits(<<stop(t, plain, trade, all)>>, t) /\ Visits(<<stop(t, plain, both, much)>>, t)
  BY <1>2, <1>5, OneStopVisits
<1>7. Visits(five_stop_middle(t, load, ones), t) /\ Visits(six_stop_middle(t, load, ones), t)
  BY <1>1, FiveVisits, SixVisits
<1> HIDE DEF ones
<1> QED
  BY <1>4, <1>6, <1>7

\* The stops b for the town t come after m others of q; the stops next to them are elsewhere.
StopsAfter(q, m, b, t) ==
    /\ m \in Nat /\ m + Len(b) <= Len(q)
    /\ \A j \in 1 .. Len(b) : q[m + j] = b[j]
    /\ m >= 1 => q[m].town # t
    /\ m + Len(b) < Len(q) => q[m + Len(b) + 1].town # t

\* Every stop of q is one of those for one of the first n targets.
StopsOf(q, n, mids) ==
    /\ q \in Seq(AllStops) /\ Len(q) \in Nat \ {0} /\ q[Len(q)].town = Targets[n]
    /\ \A p \in 1 .. Len(q) : \E i \in 1 .. n : \E m \in 0 .. Len(q) :
          p \in m + 1 .. m + Len(mids[i]) /\ StopsAfter(q, m, mids[i], Targets[i])

\* No target comes twice.
LEMMA TargetsAre ==
    /\ Len(Targets) \in Nat /\ DOMAIN Targets = 1 .. Len(Targets)
    /\ \A i \in 1 .. Len(Targets) : Targets[i] \in Range(Targets) /\ Targets[i] # HomeTown
    /\ \A i, j \in 1 .. Len(Targets) : i # j => Targets[i] # Targets[j]
<1>1. Targets \in Seq(Range(Targets)) /\ IsInjective(Targets) /\ HomeTown \notin Range(Targets)
  BY SupplyAssumption
<1>2. Len(Targets) \in Nat /\ DOMAIN Targets = 1 .. Len(Targets)
  BY <1>1
<1>3. \A i \in 1 .. Len(Targets) : Targets[i] \in Range(Targets) /\ Targets[i] # HomeTown
  BY <1>1, <1>2
<1>4. \A i, j \in 1 .. Len(Targets) : i # j => Targets[i] # Targets[j]
  BY <1>1, <1>2 DEF IsInjective
<1> QED
  BY <1>2, <1>3, <1>4

\* The stops of the first target.
LEMMA FirstTarget ==
    ASSUME NEW mids, Visits(mids[1], Targets[1])
    PROVE  StopsOf(mids[1], 1, mids)
<1> DEFINE b == mids[1]
           K == Len(b)
<1>1. b \in Seq(AllStops) /\ K \in Nat \ {0} /\ \A j \in 1 .. K : b[j].town = Targets[1]
  BY DEF Visits
<1>2. StopsAfter(b, 0, b, Targets[1])
  <2>1. \A j \in 1 .. K : 0 + j = j
    OBVIOUS
  <2>2. 0 \in Nat /\ 0 + K <= K /\ ~(0 >= 1) /\ ~(0 + K < K)
    BY <1>1
  <2> QED
    BY <2>1, <2>2 DEF StopsAfter
<1>3. \A p \in 1 .. K : p \in 0 + 1 .. 0 + K /\ 1 \in 1 .. 1 /\ 0 \in 0 .. K
  BY <1>1
<1>4. b[K].town = Targets[1]
  BY <1>1
<1> QED
  BY <1>1, <1>2, <1>3, <1>4 DEF StopsOf

\* The stops of one target more.
LEMMA NextTarget ==
    ASSUME NEW n \in Nat \ {0}, n + 1 <= Len(Targets), NEW mids, NEW q, StopsOf(q, n, mids),
           \A i \in 1 .. n + 1 : Visits(mids[i], Targets[i])
    PROVE  StopsOf(q \o mids[n + 1], n + 1, mids)
<1> DEFINE b == mids[n + 1]
           Q == Len(q)
           K == Len(b)
           h == q \o b
           H == Len(h)
           t == Targets[n + 1]
<1>1. /\ q \in Seq(AllStops) /\ Q \in Nat \ {0} /\ q[Q].town = Targets[n]
      /\ b \in Seq(AllStops) /\ K \in Nat \ {0} /\ \A j \in 1 .. K : b[j].town = t
  <2>1. n + 1 \in 1 .. n + 1
    OBVIOUS
  <2>2. Visits(b, t)
    BY <2>1
  <2> HIDE DEF b, t
  <2> QED
    BY <2>2 DEF StopsOf, Visits
<1>2. /\ h \in Seq(AllStops) /\ H = Q + K
      /\ \A i \in 1 .. Q : h[i] = q[i]
      /\ \A i \in 1 .. K : h[Q + i] = b[i]
  <2> HIDE DEF b
  <2> QED
    BY <1>1, EndToEnd
<1>3. n \in 1 .. Len(Targets) /\ n + 1 \in 1 .. Len(Targets) /\ 1 \in 1 .. K /\ K \in 1 .. K /\ Q \in 1 .. Q /\ H \in Nat \ {0} /\ Q \in 0 .. H
  BY <1>1, <1>2, TargetsAre
<1>4. \A i \in 1 .. n : Targets[i] # t
  BY <1>3, TargetsAre
<1> DEFINE Among(p) == \E i \in 1 .. n + 1 : \E m \in 0 .. H :
                          p \in m + 1 .. m + Len(mids[i]) /\ StopsAfter(h, m, mids[i], Targets[i])
<1> HIDE DEF h, H, b, Q, K, t
<1>5. ASSUME NEW p \in 1 .. Q PROVE Among(p)
  <2>1. PICK i \in 1 .. n, m \in 0 .. Q : p \in m + 1 .. m + Len(mids[i]) /\ StopsAfter(q, m, mids[i], Targets[i])
    BY DEF StopsOf, Q
  <2> DEFINE c == mids[i]
             C == Len(c)
             town == Targets[i]
  <2>2. C \in Nat \ {0} /\ town # t /\ i \in 1 .. n + 1 /\ m \in 0 .. H
    <3>1. i \in 1 .. n + 1
      OBVIOUS
    <3> QED
      BY <1>1, <1>2, <1>4, <3>1 DEF Visits
  <2>3. /\ m \in Nat /\ m + C <= Q
        /\ \A j \in 1 .. C : q[m + j] = c[j]
        /\ m >= 1 => q[m].town # town
        /\ m + C < Q => q[m + C + 1].town # town
    BY <2>1 DEF StopsAfter, Q
  <2> HIDE DEF c, C, town
  <2>4. m + C <= H
    BY <1>1, <1>2, <2>2, <2>3
  <2>5. \A j \in 1 .. C : h[m + j] = c[j]
    <3> SUFFICES ASSUME NEW j \in 1 .. C PROVE h[m + j] = c[j]
      OBVIOUS
    <3>1. m + j \in 1 .. Q
      BY <1>1, <2>2, <2>3
    <3> QED
      BY <1>2, <2>3, <3>1
  <2>6. m >= 1 => h[m].town # town
    <3> SUFFICES ASSUME m >= 1 PROVE h[m].town # town
      OBVIOUS
    <3>1. m \in 1 .. Q
      BY <1>1, <2>2, <2>3
    <3> QED
      BY <1>2, <2>3, <3>1
  <2>7. ASSUME m + C < H PROVE h[m + C + 1].town # town
    <3>1. CASE m + C < Q
      <4>1. m + C + 1 \in 1 .. Q
        BY <1>1, <2>2, <2>3, <3>1
      <4> QED
        BY <1>2, <2>3, <3>1, <4>1
    <3>2. CASE m + C = Q
      <4>1. h[Q + 1].town = t
        BY <1>1, <1>2, <1>3
      <4> QED
        BY <2>2, <3>2, <4>1
    <3> QED
      BY <1>1, <2>2, <2>3, <3>1, <3>2
  <2>8. StopsAfter(h, m, c, town)
    BY <2>3, <2>4, <2>5, <2>6, <2>7 DEF StopsAfter, C, H
  <2> QED
    BY <2>1, <2>2, <2>8 DEF c, town
<1>6. StopsAfter(h, Q, b, t)
  <2>1. h[Q].town # t
    BY <1>1, <1>2, <1>3, <1>4
  <2>2. Q \in Nat /\ Q + K <= H /\ ~(Q + K < H)
    BY <1>1, <1>2
  <2> QED
    BY <1>2, <2>1, <2>2 DEF StopsAfter, K, H
<1>7. ASSUME NEW p \in Q + 1 .. Q + K PROVE Among(p)
  <2>1. n + 1 \in 1 .. n + 1
    OBVIOUS
  <2> QED
    BY <1>3, <1>6, <2>1 DEF b, t, K
<1>8. \A p \in 1 .. H : p \in 1 .. Q \/ p \in Q + 1 .. Q + K
  BY <1>1, <1>2
<1>9. h[H].town = t
  BY <1>1, <1>2, <1>3
<1>10. \A p \in 1 .. H : Among(p)
  <2> HIDE DEF Among
  <2> QED
    BY <1>5, <1>7, <1>8
<1> QED
  BY <1>2, <1>3, <1>9, <1>10 DEF StopsOf, h, H, b, t

\* The stops made for each of the targets.
Middles(k, alt, days) == [i \in DOMAIN Targets |-> middle(k, Targets[i], alt, days)]

\* All of them, one after another.
LEMMA MiddlesAre ==
    ASSUME NEW k \in RouteKinds, NEW alt, NEW days \in Nat, NEW mids, mids = Middles(k, alt, days)
    PROVE  /\ FlattenSeq(mids) \in Seq(AllStops)
           /\ \A i \in 1 .. Len(Targets) : Visits(mids[i], Targets[i])
           /\ FlattenSeq(mids) = <<>> \/ StopsOf(FlattenSeq(mids), Len(Targets), mids)
<1> DEFINE n == Len(Targets)
           all == FlattenSeq(mids)
<1>1. n \in Nat /\ \A i \in 1 .. n : Targets[i] \in Range(Targets)
  BY TargetsAre
<1>2. mids = [i \in 1 .. n |-> mids[i]] /\ \A i \in 1 .. n : Visits(mids[i], Targets[i])
  <2>1. mids = [i \in 1 .. n |-> middle(k, Targets[i], alt, days)]
    BY TargetsAre DEF Middles
  <2>2. \A i \in 1 .. n : mids[i] = middle(k, Targets[i], alt, days)
    BY <2>1
  <2> HIDE DEF n
  <2>3. mids = [i \in 1 .. n |-> mids[i]]
    BY <2>1
  <2> QED
    BY <1>1, <2>2, <2>3, MiddleVisits
<1>3. CASE n = 0
  <2>1. mids = <<>>
    BY <1>2, <1>3
  <2>2. all = <<>>
    BY <2>1 DEF FlattenSeq
  <2> QED
    BY <1>2, <2>2
<1>4. CASE n # 0
  <2>1. mids \in [1 .. n -> Seq(AllStops)]
    <3> HIDE DEF n
    <3>1. \A i \in 1 .. n : mids[i] \in Seq(AllStops)
      BY <1>2 DEF Visits
    <3> QED
      BY <1>2, <3>1
  <2> HIDE DEF n
  <2>2. PICK f : Gathers(f, n, mids, AllStops) /\ FlattenSeq(mids) = f[n]
    BY <1>1, <1>4, <2>1, Flattened
  <2>3. /\ f \in [1 .. n -> Seq(AllStops)]
        /\ f[1] = mids[1] /\ \A i \in 1 .. n - 1 : f[i + 1] = f[i] \o mids[i + 1]
    BY <2>2 DEF Gathers
  <2> DEFINE T == {i \in 1 .. n : StopsOf(f[i], i, mids)}
  <2>4. 1 \in 1 .. n /\ n \in 1 .. n
    BY <1>1, <1>4
  <2>5. 1 \in T
    BY <1>2, <2>3, <2>4, FirstTarget
  <2>6. ASSUME NEW i \in 1 .. n - 1, i \in T PROVE i + 1 \in T
    <3>1. i \in Nat \ {0} /\ i + 1 <= n /\ i + 1 \in 1 .. n /\ \A j \in 1 .. i + 1 : j \in 1 .. n
      BY <1>1
    <3>2. StopsOf(f[i], i, mids)
      BY <2>6
    <3>3. StopsOf(f[i] \o mids[i + 1], i + 1, mids)
      BY <1>2, <3>1, <3>2, NextTarget DEF n
    <3> QED
      BY <2>3, <3>1, <3>3
  <2> HIDE DEF T
  <2>7. \A i \in 1 .. n : i \in T
    BY <1>1, <2>4, <2>5, <2>6, IntervalInduction
  <2>8. StopsOf(f[n], n, mids) /\ f[n] \in Seq(AllStops)
    BY <2>3, <2>4, <2>7 DEF T
  <2> QED
    BY <1>2, <2>2, <2>8 DEF n
<1> QED
  BY <1>3, <1>4

\* The stops b for t come in the route after m others, and others come after them.
Within(r, m, b, t) == m \in 1 .. Len(r) /\ m + Len(b) < Len(r) /\ StopsAfter(r, m, b, t)

\* One more element in front.
LEMMA OneInFront ==
    ASSUME NEW S, NEW q \in Seq(S), NEW x \in S, NEW Q, Q = Len(q)
    PROVE  LET a == <<x>> \o q IN
           a \in Seq(S) /\ Len(a) = Q + 1 /\ a[1] = x /\ (\A i \in 1 .. Q : a[1 + i] = q[i])
<1> DEFINE one == <<x>>
           a == one \o q
<1>1. one \in Seq(S)
  OBVIOUS
<1>2. Len(one) = 1 /\ one[1] = x /\ 1 \in 1 .. 1 /\ Q \in Nat
  OBVIOUS
<1> HIDE DEF one
<1>3. /\ a \in Seq(S) /\ Len(a) = Len(one) + Len(q)
      /\ \A i \in 1 .. Len(one) : a[i] = one[i]
      /\ \A i \in 1 .. Len(q) : a[Len(one) + i] = q[i]
  BY <1>1, EndToEnd
<1> HIDE DEF a
<1> QED
  BY <1>3, <1>2 DEF a, one

\* One more element at the end.
LEMMA OneAtTheEnd ==
    ASSUME NEW S, NEW q \in Seq(S), NEW x \in S, NEW Q, Q = Len(q)
    PROVE  LET a == q \o <<x>> IN
           a \in Seq(S) /\ Len(a) = Q + 1 /\ a[Q + 1] = x /\ (\A i \in 1 .. Q : a[i] = q[i])
<1> DEFINE one == <<x>>
           a == q \o one
<1>1. one \in Seq(S)
  OBVIOUS
<1>2. Len(one) = 1 /\ one[1] = x /\ 1 \in 1 .. 1 /\ Q \in Nat
  OBVIOUS
<1> HIDE DEF one
<1>3. /\ a \in Seq(S) /\ Len(a) = Len(q) + Len(one)
      /\ \A i \in 1 .. Len(q) : a[i] = q[i]
      /\ \A i \in 1 .. Len(one) : a[Len(q) + i] = one[i]
  BY <1>1, EndToEnd
<1> HIDE DEF a
<1> QED
  BY <1>3, <1>2 DEF a, one

\* A route from home and back: each of its stops is at home or one of those for a target.
Framed(r, mids) ==
    \A p \in 1 .. Len(r) :
       \/ r[p].town = HomeTown
       \/ \E i \in 1 .. Len(Targets), m \in 1 .. Len(r) :
             p \in m + 1 .. m + Len(mids[i]) /\ Within(r, m, mids[i], Targets[i])

\* The targets' stops with one at home before and one after them are such a route.
LEMMA FramedIs ==
    ASSUME NEW mids, \A i \in 1 .. Len(Targets) : Visits(mids[i], Targets[i]),
           NEW q \in Seq(AllStops), q = <<>> \/ StopsOf(q, Len(Targets), mids),
           NEW first \in AllStops, first.town = HomeTown, NEW last \in AllStops, last.town = HomeTown
    PROVE  LET r == <<first>> \o q \o <<last>> IN r \in Seq(AllStops) /\ r # <<>> /\ Framed(r, mids)
<1> DEFINE Q == Len(q)
           a == <<first>> \o q
           r == a \o <<last>>
           R == Len(r)
<1>1. Q \in Nat
  OBVIOUS
<1>2. a \in Seq(AllStops) /\ Len(a) = Q + 1 /\ a[1] = first /\ \A i \in 1 .. Q : a[1 + i] = q[i]
  BY OneInFront
<1>3. /\ r \in Seq(AllStops) /\ R = Q + 2 /\ r[1] = first /\ r[Q + 2] = last
      /\ \A i \in 1 .. Q : r[1 + i] = q[i]
  <2> DEFINE A == Q + 1
  <2>1. A + 1 = Q + 2 /\ 1 \in 1 .. A /\ \A i \in 1 .. Q : 1 + i \in 1 .. A
    BY <1>1
  <2> HIDE DEF a, A
  <2>2. A = Len(a)
    BY <1>2 DEF A
  <2>4. r \in Seq(AllStops) /\ R = Len(a) + 1 /\ r[Len(a) + 1] = last /\ \A i \in 1 .. Len(a) : r[i] = a[i]
    BY <1>2, OneAtTheEnd
  <2>3. r \in Seq(AllStops) /\ R = A + 1 /\ r[A + 1] = last /\ \A i \in 1 .. A : r[i] = a[i]
    BY <2>2, <2>4
  <2> HIDE DEF r, R
  <2> QED
    BY <1>2, <2>1, <2>3
<1> HIDE DEF a, r, Q, R
<1>4. ASSUME NEW p \in 1 .. R
      PROVE  \/ r[p].town = HomeTown
             \/ \E i \in 1 .. Len(Targets), m \in 1 .. R :
                   p \in m + 1 .. m + Len(mids[i]) /\ Within(r, m, mids[i], Targets[i])
  <2>1. CASE p = 1 \/ p = Q + 2
    BY <1>3, <2>1
  <2>2. CASE p # 1 /\ p # Q + 2
    <3>1. p - 1 \in 1 .. Q
      BY <1>1, <1>3, <2>2
    <3>2. StopsOf(q, Len(Targets), mids)
      BY <1>1, <3>1 DEF Q
    <3>3. PICK i \in 1 .. Len(Targets), n \in 0 .. Q :
             p - 1 \in n + 1 .. n + Len(mids[i]) /\ StopsAfter(q, n, mids[i], Targets[i])
      BY <3>1, <3>2 DEF StopsOf, Q
    <3> DEFINE b == mids[i]
               B == Len(b)
               t == Targets[i]
               m == n + 1
    <3>4. B \in Nat \ {0} /\ t # HomeTown
      BY TargetsAre DEF Visits
    <3>5. /\ n \in Nat /\ n + B <= Q
          /\ \A j \in 1 .. B : q[n + j] = b[j]
          /\ n >= 1 => q[n].town # t
          /\ n + B < Q => q[n + B + 1].town # t
          /\ p - 1 \in n + 1 .. n + B
      BY <3>3 DEF StopsAfter, Q
    <3> HIDE DEF b, B, t
    <3>6. p \in m + 1 .. m + B /\ m \in 1 .. R /\ m + B < R
      BY <1>1, <1>3, <3>4, <3>5
    <3>7. \A j \in 1 .. B : r[m + j] = b[j]
      <4> SUFFICES ASSUME NEW j \in 1 .. B PROVE r[m + j] = b[j]
        OBVIOUS
      <4>1. n + j \in 1 .. Q /\ 1 + (n + j) = m + j
        BY <1>1, <3>4, <3>5
      <4> QED
        BY <1>3, <3>5, <4>1
    <3>8. r[m].town # t
      <4>1. CASE n = 0
        BY <1>3, <3>4, <4>1
      <4>2. CASE n >= 1
        <5>1. n \in 1 .. Q /\ 1 + n = m
          BY <1>1, <3>4, <3>5, <4>2
        <5> QED
          BY <1>3, <3>5, <4>2, <5>1
      <4> QED
        BY <3>5, <4>1, <4>2
    <3>9. r[m + B + 1].town # t
      <4>1. CASE n + B = Q
        <5>1. m + B + 1 = Q + 2
          BY <3>4, <3>5, <4>1
        <5> QED
          BY <1>3, <3>4, <5>1
      <4>2. CASE n + B < Q
        <5>1. n + B + 1 \in 1 .. Q /\ 1 + (n + B + 1) = m + B + 1
          BY <1>1, <3>4, <3>5, <4>2
        <5> QED
          BY <1>3, <3>5, <4>2, <5>1
      <4> QED
        BY <1>1, <3>4, <3>5, <4>1, <4>2
    <3>10. m \in Nat /\ m + B <= R
      BY <1>1, <1>3, <3>4, <3>5, <3>6
    <3> HIDE DEF m
    <3>11. Within(r, m, b, t)
      BY <3>6, <3>7, <3>8, <3>9, <3>10 DEF Within, StopsAfter, B, R
    <3> QED
      BY <3>6, <3>11 DEF b, B, t
  <2> QED
    BY <2>1, <2>2
<1>5. Framed(r, mids)
  BY <1>4 DEF Framed, R
<1>6. r # <<>>
  <2>1. R # 0
    BY <1>1, <1>3
  <2> QED
    BY <2>1 DEF R
<1> QED
  BY <1>3, <1>5, <1>6 DEF r, a

\* A stop at home, where nothing is sold.
LEMMA HomeStopIs ==
    ASSUME NEW action \in Int, NEW amount \in [Wares -> Int], NEW s, s = stop(HomeTown, action, Zero, amount)
    PROVE  s \in AllStops /\ s.town = HomeTown
<1>1. HomeTown \in Places /\ Zero \in [Wares -> Int]
  BY DEF Zero, Places
<1> QED
  BY <1>1, StopIs

\* What a key builds.
LEMMA RouteIsFramed ==
    ASSUME NEW k \in RouteKinds, NEW alt, NEW days \in Nat, NEW h, NEW stocks, on_route_hotkey(k, alt, days, h, stocks)
    PROVE  /\ route' \in Seq(AllStops) /\ route' # <<>>
           /\ k # "Suck" => Framed(route', Middles(k, alt, days))
<1> DEFINE mids == Middles(k, alt, days)
           all == FlattenSeq(mids)
           load == IF k = "Trade" THEN Zero ELSE supply_load_for_towns(Range(Targets), alt, days)
           most == all_trade_wares(-MAX_AMOUNT)
           first == stop(HomeTown, Action(FLAG_R, TRUE), Zero, load)
           collects == stop(HomeTown, Action(FLAG_R, TRUE), Zero, most)
           last == stop(HomeTown, plain, Zero, most)
<1>1. route' = IF k = "Suck" THEN <<collects>> \o all ELSE <<first>> \o all \o <<last>>
  BY DEF on_route_hotkey, collecting_route, bracketed_route, Middles
<1>2. /\ load \in [Wares -> Int] /\ most \in [Wares -> Int] /\ Zero \in [Wares -> Int]
  <2>1. load \in Amounts
    BY LoadIs, TotalOfNone
  <2>2. Zero \in [Wares -> Int]
    BY TotalOfNone DEF Amounts
  <2>3. -MAX_AMOUNT \in Int
    BY SupplyAssumption
  <2> HIDE DEF load
  <2> QED
    BY <2>1, <2>2, <2>3 DEF Amounts, all_trade_wares
<1>3. /\ all \in Seq(AllStops)
      /\ \A i \in 1 .. Len(Targets) : Visits(mids[i], Targets[i])
      /\ all = <<>> \/ StopsOf(all, Len(Targets), mids)
  BY MiddlesAre
<1> HIDE DEF load, most, mids, all
<1>4. first \in AllStops /\ first.town = HomeTown
  BY <1>2, ActionsAre, HomeStopIs
<1>5. collects \in AllStops
  BY <1>2, ActionsAre, HomeStopIs
<1>6. last \in AllStops /\ last.town = HomeTown
  BY <1>2, ActionsAre, HomeStopIs
<1> HIDE DEF first, collects, last
<1>7. CASE k = "Suck"
  <2> DEFINE a == <<collects>> \o all
             n == Len(all)
  <2>1. n \in Nat
    BY <1>3
  <2>2. a \in Seq(AllStops) /\ Len(a) = n + 1
    BY <1>3, <1>5, OneInFront
  <2> HIDE DEF a, n
  <2>3. a # <<>>
    BY <2>1, <2>2
  <2> QED
    BY <1>1, <1>7, <2>2, <2>3 DEF a
<1>8. CASE k # "Suck"
  BY <1>1, <1>3, <1>4, <1>6, <1>8, FramedIs DEF mids
<1> QED
  BY <1>7, <1>8

-----------------------------------------------------------------------------
(* SupplyRoute: what every state is, and what serving a stop does.         *)

\* What the offices hold.
Offices == [HasOffice -> Amounts]

\* What every state of the trade routes is.
SupplyRight ==
    /\ asked \in [kind : RouteKinds \cup {"none"}, alt : BOOLEAN, days : Nat]
    /\ route \in Seq(AllStops) /\ hold \in 0 .. MAX_AMOUNT /\ served \in Nat
    /\ cargo \in Amounts /\ TotalOf(cargo) <= hold
    /\ supplies \in Offices
    /\ before \in [cargo : Amounts, supplies : Offices]
    /\ route = <<>> => served = 0 /\ cargo = Zero
    /\ route # <<>> /\ asked.kind # "Suck" => Framed(route, Middles(asked.kind, asked.alt, asked.days))
    /\ route # <<>> => asked.kind \in RouteKinds

\* What serving a stop does.
Handled(s, kept, office, offered, got) ==
    /\ kept \in Amounts /\ office \in Amounts /\ offered \in Amounts /\ got \in Amounts
    /\ Loadable(s, offered) \in Amounts
    /\ \A w \in Wares : s.price[w] <= 0 => kept[w] = cargo[w] - Unloads(s, w)
    /\ \A w \in Wares : s.town \in HasOffice => office[w] = supplies[s.town][w] + Unloads(s, w)
    /\ \A w \in Wares : s.price[w] = 0 => offered[w] = office[w]
    /\ \A w \in Wares : got[w] <= Loadable(s, offered)[w]
    /\ TotalOf(kept) + TotalOf(got) <= hold
    /\ (\E w \in Wares : got[w] < Loadable(s, offered)[w]) => TotalOf(kept) + TotalOf(got) = hold
    /\ cargo' \in Amounts /\ \A w \in Wares : cargo'[w] = kept[w] + got[w]
    /\ supplies' \in Offices
    /\ s.town \in HasOffice => \A w \in Wares : supplies'[s.town][w] = office[w] - (IF s.price[w] = 0 THEN got[w] ELSE 0)

\* The stop to be served is one of the route's.
LEMMA StopsAreServed ==
    ASSUME NEW r \in Seq(AllStops), r # <<>>, NEW n \in Int
    PROVE  n % Len(r) \in 0 .. Len(r) - 1 /\ r[(n % Len(r)) + 1] \in AllStops
<1> DEFINE L == Len(r)
           k == n % L
<1>1. L \in Nat \ {0}
  OBVIOUS
<1>2. k \in 0 .. L - 1
  <2> HIDE DEF L
  <2> QED
    BY <1>1
<1> HIDE DEF k
<1>3. k + 1 \in 1 .. L
  <2> HIDE DEF L
  <2> QED
    BY <1>1, <1>2
<1> QED
  BY <1>2, <1>3 DEF k

\* Whatever is sold and offered, a stop is handled like this.
LEMMA ServedIs ==
    ASSUME SupplyRight, Serve
    PROVE  /\ \E kept, office, offered, got : Handled(Stop(served), kept, office, offered, got)
           /\ before' = IF Stop(served).town = Stop(served + Len(route) - 1).town THEN before
                        ELSE [cargo |-> cargo', supplies |-> supplies']
           /\ route # <<>> /\ served' = served + 1 /\ UNCHANGED <<asked, route, hold>>
<1>1. route # <<>> /\ served' = served + 1 /\ UNCHANGED <<asked, route, hold>>
  BY DEF Serve
<1> DEFINE s == Stop(served)
<1>2. PICK sold \in [Sells(s) -> BOOLEAN], offers \in Offers :
        LET kept == [w \in Wares |-> IF w \in Sells(s) /\ sold[w] THEN 0 ELSE cargo[w] - Unloads(s, w)]
            office == [w \in Wares |-> IF s.town \in HasOffice THEN supplies[s.town][w] + Unloads(s, w) ELSE 0]
            offered == [w \in Wares |-> IF s.price[w] < 0 THEN (IF w \in Produces[s.town] THEN offers ELSE 0)
                                        ELSE office[w]]
            got == Taken(s, offered, hold - TotalOf(kept))
        IN  /\ cargo' = [w \in Wares |-> kept[w] + got[w]]
            /\ supplies' = IF s.town \notin HasOffice THEN supplies
                           ELSE [supplies EXCEPT ![s.town] =
                                   [w \in Wares |-> office[w] - (IF s.price[w] = 0 THEN got[w] ELSE 0)]]
            /\ before' = IF s.town = Stop(served + Len(route) - 1).town THEN before
                         ELSE [cargo |-> cargo', supplies |-> supplies']
  BY DEF Serve
<1> DEFINE kept == [w \in Wares |-> IF w \in Sells(s) /\ sold[w] THEN 0 ELSE cargo[w] - Unloads(s, w)]
           office == [w \in Wares |-> IF s.town \in HasOffice THEN supplies[s.town][w] + Unloads(s, w) ELSE 0]
           offered == [w \in Wares |-> IF s.price[w] < 0 THEN (IF w \in Produces[s.town] THEN offers ELSE 0)
                                       ELSE office[w]]
           free == hold - TotalOf(kept)
           got == Taken(s, offered, free)
<1>3. s \in AllStops /\ s.price \in [Wares -> Int] /\ s.amount \in [Wares -> Int] /\ Lists(s.order)
  <2>1. served \in Int /\ route \in Seq(AllStops)
    BY DEF SupplyRight
  <2>2. s \in AllStops
    BY <1>1, <2>1, StopsAreServed DEF Stop
  <2> HIDE DEF s
  <2> QED
    BY <2>2 DEF AllStops
<1>4. /\ cargo' = [w \in Wares |-> kept[w] + got[w]]
      /\ supplies' = IF s.town \notin HasOffice THEN supplies
                     ELSE [supplies EXCEPT ![s.town] =
                             [w \in Wares |-> office[w] - (IF s.price[w] = 0 THEN got[w] ELSE 0)]]
      /\ before' = IF s.town = Stop(served + Len(route) - 1).town THEN before
                   ELSE [cargo |-> cargo', supplies |-> supplies']
  BY <1>2
<1> HIDE DEF s
<1>5. cargo \in Amounts /\ TotalOf(cargo) <= hold /\ supplies \in Offices /\ hold \in Nat /\ offers \in Nat
  <2>1. offers \in Nat
    BY SupplyAssumption
  <2>2. hold \in 0 .. MAX_AMOUNT /\ MAX_AMOUNT \in Nat
    BY SupplyAssumption DEF SupplyRight
  <2> QED
    BY <2>1, <2>2 DEF SupplyRight
<1>6. \A w \in Wares : cargo[w] \in Nat /\ Unloads(s, w) \in Nat /\ Unloads(s, w) <= cargo[w]
  <2> SUFFICES ASSUME NEW w \in Wares
               PROVE  cargo[w] \in Nat /\ Unloads(s, w) \in Nat /\ Unloads(s, w) <= cargo[w]
    OBVIOUS
  <2> DEFINE c == cargo[w]
             a == s.amount[w]
             u == IF s.price[w] = 0 /\ a < 0 THEN Least(c, -a) ELSE 0
  <2>1. c \in Nat /\ a \in Int
    BY <1>3, <1>5 DEF Amounts
  <2> HIDE DEF c, a
  <2>2. u \in Nat /\ u <= c
    BY <2>1 DEF Least
  <2>3. Unloads(s, w) = u
    BY DEF Unloads, c, a
  <2> QED
    BY <2>1, <2>2, <2>3 DEF c
<1>7. kept \in Amounts /\ \A w \in Wares : kept[w] <= cargo[w]
  <2>1. \A w \in Wares : cargo[w] - Unloads(s, w) \in Nat /\ cargo[w] - Unloads(s, w) <= cargo[w] /\ 0 <= cargo[w]
    BY <1>6
  <2> QED
    BY <2>1 DEF Amounts
<1>8. office \in Amounts
  <2>1. \A w \in Wares : s.town \in HasOffice => supplies[s.town][w] + Unloads(s, w) \in Nat
    <3> SUFFICES ASSUME NEW w \in Wares, s.town \in HasOffice PROVE supplies[s.town][w] + Unloads(s, w) \in Nat
      OBVIOUS
    <3>1. supplies[s.town][w] \in Nat /\ Unloads(s, w) \in Nat
      BY <1>5, <1>6 DEF Offices, Amounts
    <3> QED
      BY <3>1
  <2> QED
    BY <2>1 DEF Amounts
<1>9. \A w \in Wares : s.town \in HasOffice => office[w] = supplies[s.town][w] + Unloads(s, w)
  OBVIOUS
<1>10. \A w \in Wares : s.price[w] <= 0 => kept[w] = cargo[w] - Unloads(s, w)
  <2> SUFFICES ASSUME NEW w \in Wares, s.price[w] <= 0 PROVE w \notin Sells(s)
    OBVIOUS
  <2>1. s.price[w] \in Int
    BY <1>3
  <2> QED
    BY <2>1 DEF Sells
<1>11. offered \in Amounts /\ \A w \in Wares : s.price[w] = 0 => offered[w] = office[w]
  <2> HIDE DEF office
  <2>1. \A w \in Wares : office[w] \in Nat
    BY <1>8 DEF Amounts
  <2>2. \A w \in Wares : s.price[w] = 0 => ~(s.price[w] < 0)
    OBVIOUS
  <2> QED
    BY <1>5, <2>1, <2>2 DEF Amounts
<1>12. Loadable(s, offered) \in Amounts
  <2> HIDE DEF offered
  <2> SUFFICES ASSUME NEW w \in Wares, s.amount[w] > 0 PROVE Least(s.amount[w], offered[w]) \in Nat
    BY DEF Loadable, Amounts
  <2>1. s.amount[w] \in Nat /\ offered[w] \in Nat
    BY <1>3, <1>11 DEF Amounts
  <2> QED
    BY <2>1 DEF Least
<1>13. TotalOf(kept) \in Nat /\ free \in Nat
  <2> HIDE DEF kept
  <2>1. TotalOf(kept) \in Nat /\ TotalOf(cargo) \in Nat /\ TotalOf(kept) <= TotalOf(cargo)
    BY <1>5, <1>7, TotalIsNat, TotalGrows
  <2> QED
    BY <1>5, <2>1
<1> HIDE DEF free
<1>14. /\ got \in Amounts /\ \A w \in Wares : got[w] <= Loadable(s, offered)[w]
       /\ TotalOf(got) <= free
       /\ (\E w \in Wares : got[w] < Loadable(s, offered)[w]) => TotalOf(got) = free
  <2> HIDE DEF offered
  <2> QED
    BY <1>3, <1>12, <1>13, TakenIs
<1> HIDE DEF got, kept, office, offered
<1>15. TotalOf(got) \in Nat /\ TotalOf(kept) + TotalOf(got) <= hold /\ (TotalOf(got) = free => TotalOf(kept) + TotalOf(got) = hold)
  <2>1. TotalOf(got) \in Nat
    BY <1>14, TotalIsNat
  <2> QED
    BY <1>5, <1>13, <1>14, <2>1 DEF free
<1>16. cargo' \in Amounts /\ \A w \in Wares : cargo'[w] = kept[w] + got[w]
  <2>1. \A w \in Wares : kept[w] + got[w] \in Nat
    BY <1>7, <1>14 DEF Amounts
  <2> QED
    BY <1>4, <2>1 DEF Amounts
<1>17. \A w \in Wares : s.price[w] = 0 => got[w] <= office[w]
  <2> SUFFICES ASSUME NEW w \in Wares, s.price[w] = 0 PROVE got[w] <= office[w]
    OBVIOUS
  <2>1. s.amount[w] \in Int /\ offered[w] = office[w] /\ office[w] \in Nat /\ got[w] \in Nat
    BY <1>3, <1>8, <1>11, <1>14 DEF Amounts
  <2>2. Loadable(s, offered)[w] = IF s.amount[w] > 0 THEN Least(s.amount[w], offered[w]) ELSE 0
    BY DEF Loadable
  <2>3. Loadable(s, offered)[w] <= office[w]
    BY <2>1, <2>2 DEF Least
  <2>4. got[w] <= Loadable(s, offered)[w] /\ Loadable(s, offered)[w] \in Nat
    BY <1>12, <1>14 DEF Amounts
  <2> QED
    BY <2>1, <2>3, <2>4
<1> DEFINE left == [w \in Wares |-> office[w] - (IF s.price[w] = 0 THEN got[w] ELSE 0)]
<1>18. left \in Amounts
  <2>1. \A w \in Wares : office[w] - (IF s.price[w] = 0 THEN got[w] ELSE 0) \in Nat
    BY <1>8, <1>14, <1>17 DEF Amounts
  <2> QED
    BY <2>1 DEF Amounts
<1>19. supplies' \in Offices /\ (s.town \in HasOffice => supplies'[s.town] = left)
  <2> HIDE DEF left
  <2>1. supplies' = IF s.town \notin HasOffice THEN supplies ELSE [supplies EXCEPT ![s.town] = left]
    BY <1>4 DEF left
  <2> QED
    BY <1>5, <1>18, <2>1 DEF Offices
<1>20. s.town \in HasOffice => \A w \in Wares : supplies'[s.town][w] = office[w] - (IF s.price[w] = 0 THEN got[w] ELSE 0)
  BY <1>19
<1> HIDE DEF left
<1>21. Handled(s, kept, office, offered, got)
  BY <1>7, <1>8, <1>9, <1>10, <1>11, <1>12, <1>14, <1>15, <1>16, <1>19, <1>20 DEF Handled
<1> QED
  BY <1>1, <1>4, <1>21 DEF s

\* The first state is right.
LEMMA SupplyBegins == RouteInit => SupplyRight
<1> SUFFICES ASSUME RouteInit PROVE SupplyRight
  OBVIOUS
<1>1. TotalOf(Zero) = 0 /\ Zero \in Amounts
  BY TotalOfNone
<1>2. MAX_AMOUNT \in Nat
  BY SupplyAssumption
<1>3. /\ asked \in [kind : RouteKinds \cup {"none"}, alt : BOOLEAN, days : Nat]
      /\ route = <<>> /\ hold = 0 /\ served = 0 /\ cargo = Zero
      /\ supplies \in Offices
  BY <1>1 DEF RouteInit, Offices
<1>4. before \in [cargo : Amounts, supplies : Offices]
  BY <1>1, <1>3 DEF RouteInit
<1>5. route \in Seq(AllStops) /\ hold \in 0 .. MAX_AMOUNT /\ served \in Nat
  BY <1>2, <1>3
<1> QED
  BY <1>1, <1>3, <1>4, <1>5 DEF SupplyRight

\* No step makes it wrong.
LEMMA SupplyStaysRight == SupplyRight /\ [RouteNext]_routeVars => SupplyRight'
<1> SUFFICES ASSUME SupplyRight, [RouteNext]_routeVars PROVE SupplyRight'
  OBVIOUS
<1>1. ASSUME NEW k \in RouteKinds, NEW alt \in BOOLEAN, NEW days \in Laps, NEW h \in Holds, NEW stocks \in Stocks,
             on_route_hotkey(k, alt, days, h, stocks)
      PROVE  SupplyRight'
  <2>1. days \in Nat /\ h \in 0 .. MAX_AMOUNT /\ stocks \in [HasOffice -> [Wares -> Nat]] /\ MAX_AMOUNT \in Nat
    BY SupplyAssumption
  <2>2. /\ route = <<>> /\ asked' = [kind |-> k, alt |-> alt, days |-> days]
        /\ hold' = h /\ supplies' = stocks /\ UNCHANGED <<served, cargo, before>>
    BY <1>1 DEF on_route_hotkey
  <2>3. route' \in Seq(AllStops) /\ route' # <<>> /\ (k # "Suck" => Framed(route', Middles(k, alt, days)))
    BY <1>1, <2>1, RouteIsFramed
  <2>4. cargo' = Zero /\ Zero \in Amounts /\ TotalOf(cargo') <= hold' /\ served' = 0
    <3>1. cargo' = Zero /\ served' = 0
      BY <2>2 DEF SupplyRight
    <3>2. TotalOf(cargo') = 0 /\ Zero \in Amounts
      BY <3>1, TotalOfNone
    <3> QED
      BY <2>1, <2>2, <3>1, <3>2
  <2>5. asked' \in [kind : RouteKinds \cup {"none"}, alt : BOOLEAN, days : Nat] /\ asked'.kind = k /\ asked'.alt = alt /\ asked'.days = days
    BY <2>1, <2>2
  <2>6. supplies' \in Offices /\ before' \in [cargo : Amounts, supplies : Offices] /\ hold' \in 0 .. MAX_AMOUNT
    BY <2>1, <2>2 DEF SupplyRight, Offices, Amounts
  <2> QED
    BY <2>3, <2>4, <2>5, <2>6 DEF SupplyRight
<1>2. CASE Serve
  <2>1. PICK kept, office, offered, got : Handled(Stop(served), kept, office, offered, got)
    BY <1>2, ServedIs
  <2>2. /\ before' = IF Stop(served).town = Stop(served + Len(route) - 1).town THEN before
                     ELSE [cargo |-> cargo', supplies |-> supplies']
        /\ route # <<>> /\ served' = served + 1 /\ UNCHANGED <<asked, route, hold>>
    BY <1>2, ServedIs
  <2>3. cargo' \in Amounts /\ supplies' \in Offices
    BY <2>1 DEF Handled
  <2>4. TotalOf(cargo') <= hold
    <3>1. kept \in Amounts /\ got \in Amounts /\ (\A w \in Wares : cargo'[w] = kept[w] + got[w]) /\ TotalOf(kept) + TotalOf(got) <= hold
      BY <2>1 DEF Handled
    <3>2. TotalOf(cargo') = TotalOf(kept) + TotalOf(got)
      BY <2>3, <3>1, TotalAdds
    <3> QED
      BY <3>1, <3>2
  <2>5. before' \in [cargo : Amounts, supplies : Offices]
    BY <2>2, <2>3 DEF SupplyRight
  <2>6. served' \in Nat
    BY <2>2 DEF SupplyRight
  <2> QED
    BY <2>2, <2>3, <2>4, <2>5, <2>6 DEF SupplyRight
<1>3. CASE UNCHANGED routeVars
  BY <1>3 DEF SupplyRight, routeVars
<1> QED
  BY <1>1, <1>2, <1>3 DEF RouteNext

-----------------------------------------------------------------------------
(* SupplyRoute: the stops of an exchange.                                  *)

\* What a stop that sells and buys nothing puts into the office, and what would be aboard after
\* it if there were room for all of it.
Put(amount, w) == IF amount[w] < 0 THEN Least(cargo[w], -amount[w]) ELSE 0
After(t, amount) ==
    [w \in Wares |-> IF amount[w] <= 0 THEN cargo[w] - Put(amount, w) ELSE cargo[w] + Least(amount[w], supplies[t][w])]

Exchanged(t, amount) ==
    /\ cargo' \in Amounts /\ supplies'[t] \in Amounts /\ After(t, amount) \in Amounts
    /\ \A w \in Wares : cargo'[w] + supplies'[t][w] = cargo[w] + supplies[t][w]
    /\ \A w \in Wares : cargo'[w] <= After(t, amount)[w]
    /\ \A w \in Wares : amount[w] <= 0 => cargo'[w] = After(t, amount)[w]
    /\ (\E w \in Wares : cargo'[w] < After(t, amount)[w]) => TotalOf(cargo') = hold
    /\ TotalOf(cargo') <= hold

\* A stop with no prices is one.
LEMMA ExchangeIs ==
    ASSUME SupplyRight, NEW s \in AllStops, NEW t \in HasOffice, s.town = t, s.price = Zero,
           NEW kept, NEW office, NEW offered, NEW got, Handled(s, kept, office, offered, got)
    PROVE  Exchanged(t, s.amount)
<1> DEFINE amount == s.amount
           after == After(t, amount)
           wanted == Loadable(s, offered)
<1>1. /\ cargo \in Amounts /\ supplies \in Offices /\ amount \in [Wares -> Int]
      /\ kept \in Amounts /\ got \in Amounts /\ cargo' \in Amounts /\ supplies' \in Offices /\ office \in Amounts /\ wanted \in Amounts
      /\ \A w \in Wares : s.price[w] = 0
  BY DEF SupplyRight, Handled, AllStops, Zero
<1>2. supplies[t] \in Amounts /\ supplies'[t] \in Amounts
  BY <1>1 DEF Offices
<1>3. ASSUME NEW w \in Wares
      PROVE  /\ after[w] \in Nat /\ after[w] = kept[w] + wanted[w]
             /\ cargo'[w] = kept[w] + got[w] /\ got[w] <= wanted[w]
             /\ cargo'[w] + supplies'[t][w] = cargo[w] + supplies[t][w]
             /\ amount[w] <= 0 => wanted[w] = 0
             /\ cargo'[w] \in Nat /\ kept[w] \in Nat /\ got[w] \in Nat /\ wanted[w] \in Nat
  <2> DEFINE c == cargo[w]
             a == amount[w]
             u == supplies[t][w]
             p == Put(amount, w)
             x == kept[w]
             o == office[w]
             g == got[w]
             n == wanted[w]
             c2 == cargo'[w]
             u2 == supplies'[t][w]
             f == after[w]
  <2>1. c \in Nat /\ a \in Int /\ u \in Nat /\ x \in Nat /\ o \in Nat /\ g \in Nat /\ n \in Nat /\ c2 \in Nat
    BY <1>1, <1>2 DEF Amounts
  <2>2. p = IF a < 0 THEN Least(c, -a) ELSE 0
    BY DEF Put
  <2>3. Unloads(s, w) = p
    BY <1>1, <2>2 DEF Unloads
  <2>4. x = c - p
    <3>1. s.price[w] <= 0
      BY <1>1
    <3> QED
      BY <2>3, <3>1 DEF Handled
  <2>5. o = u + p
    BY <2>3 DEF Handled
  <2>6. c2 = x + g /\ g <= n
    BY DEF Handled
  <2>7. u2 = o - g
    BY <1>1 DEF Handled
  <2>8. n = IF a > 0 THEN Least(a, o) ELSE 0
    <3>1. offered[w] = o
      BY <1>1 DEF Handled
    <3>2. s.price[w] <= 0
      BY <1>1
    <3> QED
      BY <3>1, <3>2 DEF Loadable
  <2>9. f = IF a <= 0 THEN c - p ELSE c + Least(a, u)
    BY DEF After
  <2> HIDE DEF c, a, u, p, x, o, g, n, c2, u2, f
  <2>10. p \in Nat /\ p <= c /\ (a > 0 => p = 0)
    BY <2>1, <2>2 DEF Least
  <2>11. f \in Nat /\ f = x + n /\ c2 + u2 = c + u /\ (a <= 0 => n = 0)
    BY <2>1, <2>4, <2>5, <2>6, <2>7, <2>8, <2>9, <2>10 DEF Least
  <2> QED
    BY <2>1, <2>6, <2>11 DEF c, a, u, x, g, n, c2, u2, f
<1>4. after \in Amounts
  <2>1. after = [w \in Wares |-> after[w]]
    BY DEF After
  <2> HIDE DEF after
  <2> QED
    BY <1>3, <2>1 DEF Amounts
<1>5. TotalOf(cargo') = TotalOf(kept) + TotalOf(got)
  BY <1>1, <1>3, TotalAdds
<1> HIDE DEF after
<1>6. \A w \in Wares : cargo'[w] <= after[w] /\ (cargo'[w] < after[w] => got[w] < wanted[w]) /\ (amount[w] <= 0 => cargo'[w] = after[w])
  <2> SUFFICES ASSUME NEW w \in Wares
               PROVE  cargo'[w] <= after[w] /\ (cargo'[w] < after[w] => got[w] < wanted[w]) /\ (amount[w] <= 0 => cargo'[w] = after[w])
    OBVIOUS
  <2> DEFINE x == kept[w]
             g == got[w]
             n == wanted[w]
             c2 == cargo'[w]
             f == after[w]
  <2>1. f = x + n /\ c2 = x + g /\ g <= n /\ x \in Nat /\ g \in Nat /\ n \in Nat /\ (amount[w] <= 0 => n = 0)
    BY <1>3
  <2> HIDE DEF x, g, n, c2, f
  <2>2. c2 <= f /\ (c2 < f => g < n) /\ (amount[w] <= 0 => c2 = f)
    BY <2>1
  <2> QED
    BY <2>2 DEF g, n, c2, f
<1>7. /\ TotalOf(cargo') <= hold
      /\ (\E w \in Wares : got[w] < wanted[w]) => TotalOf(cargo') = hold
  BY <1>5 DEF Handled
<1>8. (\E w \in Wares : cargo'[w] < after[w]) => TotalOf(cargo') = hold
  BY <1>6, <1>7
<1> QED
  BY <1>1, <1>2, <1>3, <1>4, <1>6, <1>7, <1>8 DEF Exchanged, after

\* With room for all of it, all of it is exchanged.
LEMMA RoomIsEnough ==
    ASSUME SupplyRight, NEW t, NEW amount, Exchanged(t, amount), TotalOf(After(t, amount)) <= hold
    PROVE  \A w \in Wares : cargo'[w] = After(t, amount)[w]
<1> DEFINE after == After(t, amount)
<1>1. cargo' \in Amounts /\ after \in Amounts /\ (\A w \in Wares : cargo'[w] <= after[w]) /\ TotalOf(after) <= hold
      /\ ((\E w \in Wares : cargo'[w] < after[w]) => TotalOf(cargo') = hold)
  BY DEF Exchanged
<1> HIDE DEF after
<1>2. (\E w \in Wares : cargo'[w] < after[w]) => TotalOf(cargo') < TotalOf(after)
  BY <1>1, TotalGrows
<1>3. TotalOf(cargo') \in Nat /\ TotalOf(after) \in Nat /\ hold \in Nat
  <2>1. hold \in Nat
    BY SupplyAssumption DEF SupplyRight
  <2> QED
    BY <1>1, <2>1, TotalIsNat
<1>4. ~(\E w \in Wares : cargo'[w] < after[w])
  BY <1>1, <1>2, <1>3
<1>5. \A w \in Wares : cargo'[w] \in Nat /\ after[w] \in Nat
  BY <1>1 DEF Amounts
<1> QED
  BY <1>1, <1>4, <1>5 DEF after

\* Only a full ship leaves some of what it takes as much as possible of.
LEMMA LeftByFull ==
    ASSUME SupplyRight, NEW t \in HasOffice, NEW amount, Exchanged(t, amount), NEW w \in Wares, amount[w] = MAX_AMOUNT, supplies'[t][w] > 0
    PROVE  TotalOf(cargo') = hold
<1> DEFINE after == After(t, amount)
           c == cargo[w]
           u == supplies[t][w]
           c2 == cargo'[w]
           u2 == supplies'[t][w]
           f == after[w]
           C == TotalOf(cargo')
           M == MAX_AMOUNT
<1>1. /\ cargo' \in Amounts /\ c2 + u2 = c + u /\ c2 <= f /\ (c2 < f => C = hold) /\ C <= hold
      /\ supplies'[t] \in Amounts
  BY DEF Exchanged
<1>2. c \in Nat /\ u \in Nat /\ c2 \in Nat /\ u2 \in Nat /\ u2 > 0 /\ f \in Int
  BY <1>1 DEF Amounts, Offices, SupplyRight, Exchanged
<1>3. hold \in Nat /\ M \in Nat /\ hold <= M /\ M > 0 /\ c2 <= C /\ C \in Nat
  <2>1. hold \in 0 .. MAX_AMOUNT /\ M \in Nat \ {0}
    BY SupplyAssumption DEF SupplyRight
  <2>2. c2 <= C /\ C \in Nat
    BY <1>1, TotalIsNat
  <2> QED
    BY <2>1, <2>2
<1>4. f = c + Least(M, u)
  BY <1>3 DEF After
<1> HIDE DEF after, c, u, c2, u2, f, C, M
<1>5. C = hold
  BY <1>1, <1>2, <1>3, <1>4 DEF Least
<1> QED
  BY <1>5 DEF C

\* What is over a whole number of laps.
LEMMA OverLaps ==
    ASSUME NEW L \in Nat \ {0}, NEW q \in Int, NEW r \in 0 .. L - 1
    PROVE  (L * q + r) % L = r
<1> DEFINE a == L * q
           x == a + r
           p == x \div L
           b == L * p
<1>1. a \in Int /\ x \in Int /\ p \in Int /\ b \in Int
  <2>1. a \in Int
    OBVIOUS
  <2> HIDE DEF a
  <2>2. x \in Int
    BY <2>1
  <2> HIDE DEF x
  <2>3. p \in Int
    BY <2>2
  <2> HIDE DEF p
  <2> QED
    BY <2>1, <2>2, <2>3
<1>2. x % L = x - b /\ b <= x /\ x < b + L
  <2> HIDE DEF x
  <2> QED
    BY <1>1
<1>3. ASSUME p < q PROVE b + L <= a
  <2>1. q - p - 1 \in Nat
    BY <1>1, <1>3
  <2> HIDE DEF p
  <2>2. L * (q - p - 1) >= 0
    BY <2>1
  <2>3. L * (q - p - 1) = a - b - L
    BY <1>1
  <2> HIDE DEF a, b
  <2> QED
    BY <1>1, <2>2, <2>3
<1>4. ASSUME q < p PROVE a + L <= b
  <2>1. p - q - 1 \in Nat
    BY <1>1, <1>4
  <2> HIDE DEF p
  <2>2. L * (p - q - 1) >= 0
    BY <2>1
  <2>3. L * (p - q - 1) = b - a - L
    BY <1>1
  <2> HIDE DEF a, b
  <2> QED
    BY <1>1, <2>2, <2>3
<1>5. p = q
  <2> HIDE DEF p, a, b
  <2> QED
    BY <1>1, <1>2, <1>3, <1>4
<1>6. b = a
  BY <1>5
<1> HIDE DEF a, b, p
<1> QED
  BY <1>1, <1>2, <1>6 DEF a

\* The places of the stops next to one of a lap.
LEMMA NextInLap ==
    ASSUME NEW L \in Nat \ {0}, NEW n \in Nat, NEW r, r = n % L
    PROVE  /\ r \in 0 .. L - 1
           /\ r + 1 < L => (n + 1) % L = r + 1
           /\ r + 1 = L => (n + 1) % L = 0
           /\ r >= 1 => (n + L - 1) % L = r - 1
<1> DEFINE q == n \div L
           a == L * q
           b == L * (q + 1)
<1>1. q \in Int /\ r \in 0 .. L - 1
  OBVIOUS
<1>2. n = a + r
  BY <1>1
<1> HIDE DEF q
<1>3. a \in Int /\ b = a + L /\ b \in Int
  BY <1>1
<1>4. ASSUME r + 1 < L PROVE (n + 1) % L = r + 1
  <2>1. (a + (r + 1)) % L = r + 1
    BY <1>1, <1>4, OverLaps
  <2>2. n + 1 = a + (r + 1)
    <3> HIDE DEF a
    <3> QED
      BY <1>1, <1>2, <1>3
  <2> QED
    BY <2>1, <2>2
<1>5. ASSUME r + 1 = L PROVE (n + 1) % L = 0
  <2>1. (b + 0) % L = 0
    BY <1>1, OverLaps
  <2>2. n + 1 = b + 0
    <3> HIDE DEF a, b
    <3> QED
      BY <1>1, <1>2, <1>3, <1>5
  <2> QED
    BY <2>1, <2>2
<1>6. ASSUME r >= 1 PROVE (n + L - 1) % L = r - 1
  <2> DEFINE k == r - 1
  <2>1. k \in 0 .. L - 1
    BY <1>1, <1>6
  <2>2. n + L - 1 = b + k
    <3> HIDE DEF a, b
    <3> QED
      BY <1>1, <1>2, <1>3
  <2>3. q + 1 \in Int
    BY <1>1
  <2> HIDE DEF k
  <2>4. (b + k) % L = k
    BY <2>1, <2>3, OverLaps
  <2> QED
    BY <2>2, <2>4 DEF k
<1> QED
  BY <1>1, <1>4, <1>5, <1>6

\* The stops of a target: which one is served after so many of them, and where the ones
\* before and after it are.
LEMMA ServedOfTarget ==
    ASSUME NEW m, NEW b, NEW t, Within(route, m, b, t), Len(b) \in Nat, \A j \in 1 .. Len(b) : b[j].town = t,
           served \in Nat, route \in Seq(AllStops), NEW j \in 0 .. Len(b) - 1, served % Len(route) = m + j
    PROVE  /\ Stop(served) = b[j + 1]
           /\ j = 0 => Stop(served + Len(route) - 1).town # t
           /\ j > 0 => Stop(served + Len(route) - 1).town = t
           /\ j + 1 < Len(b) => Stop(served + 1).town = t
<1> DEFINE L == Len(route)
           B == Len(b)
           r == served % L
           previous == (served + L - 1) % L
           next == (served + 1) % L
<1>1. /\ m \in 1 .. L /\ m + B < L
      /\ \A i \in 1 .. B : route[m + i] = b[i]
      /\ route[m].town # t
  BY DEF Within, StopsAfter
<1>2. L \in Nat /\ B \in Nat
  OBVIOUS
<1>3. L \in Nat \ {0}
  <2> HIDE DEF L, B
  <2> QED
    BY <1>1, <1>2
<1>4. r + 1 < L /\ r >= 1 /\ r = m + j
  <2>1. r = m + j /\ j \in 0 .. B - 1
    OBVIOUS
  <2> HIDE DEF L, B, r
  <2> QED
    BY <1>1, <1>2, <2>1
<1>5. next = r + 1 /\ previous = r - 1
  BY <1>3, <1>4, NextInLap
<1>6. Stop(served) = route[r + 1] /\ Stop(served + 1) = route[next + 1] /\ Stop(served + L - 1) = route[previous + 1]
  BY DEF Stop
<1> HIDE DEF L, B, r, next, previous
<1>7. j + 1 \in 1 .. B /\ r + 1 = m + (j + 1)
  BY <1>1, <1>2, <1>4 DEF B
<1>8. Stop(served) = b[j + 1]
  BY <1>1, <1>6, <1>7
<1>9. ASSUME j = 0 PROVE Stop(served + L - 1).town # t
  <2>1. previous + 1 = m
    BY <1>1, <1>2, <1>4, <1>5, <1>9
  <2> QED
    BY <1>1, <1>6, <2>1
<1>10. ASSUME j > 0 PROVE Stop(served + L - 1).town = t
  <2>1. previous + 1 = m + j /\ j \in 1 .. B
    BY <1>1, <1>2, <1>4, <1>5, <1>7, <1>10
  <2> QED
    BY <1>1, <1>6, <2>1 DEF B
<1>11. ASSUME j + 1 < B PROVE Stop(served + 1).town = t
  <2>1. next + 1 = m + (j + 2) /\ j + 2 \in 1 .. B
    BY <1>1, <1>2, <1>4, <1>5, <1>7, <1>11
  <2> QED
    BY <1>1, <1>6, <2>1 DEF B
<1> QED
  BY <1>8, <1>9, <1>10, <1>11 DEF L, B

-----------------------------------------------------------------------------
(* SupplyRoute: where an exchange stands, and that it ends as it should.   *)

\* The keys whose routes exchange a target's stock.
Exchanging == {"FiveStop", "SixStop"}
\* What the target t is to have.
LoadOf(t) == town_supply_basket(t, asked.alt, asked.days)
\* The stops made for the target i, and how many of them exchange its stock.
StopsFor(i) == Middles(asked.kind, asked.alt, asked.days)[i]
Exchanges == IF asked.kind = "FiveStop" THEN 3 ELSE 4

\* The amounts of the stop j of a target with an office.
Deal(load, j) ==
    IF asked.kind = "FiveStop" THEN (IF j = 2 THEN take_supplied(load) ELSE put_back_and_collect(load))
    ELSE IF j = 2 THEN SixTake(load) ELSE IF j = 3 THEN SixBarrels(load) ELSE SixLoads(load)

\* What was there of a ware when the exchange began, aboard and in the office.
BothOf(t, w) == before.cargo[w] + before.supplies[t][w]

\* What the ship has of a ware after j of the stops at t, if nothing was left for want of room.
Aboard(t, j, w) ==
    LET b == before.cargo[w]
        both == BothOf(t, w)
        supplied == LoadOf(t)[w] # 0
    IN  IF j = 1 THEN b
        ELSE IF asked.kind = "FiveStop" THEN (IF supplied THEN both ELSE b)
        ELSE IF j = 2 THEN (IF w \notin Barrels THEN 0 ELSE IF supplied THEN both ELSE b)
        ELSE IF w \notin Barrels THEN (IF supplied THEN both ELSE 0)
        ELSE (IF supplied THEN both - Least(LoadOf(t)[w], both) ELSE b)

\* Between the stops at t nothing gets lost, and the ship has what it should of every ware not
\* supplied; of the others too if there is the room it takes.
Stage(t, j) ==
    \A w \in Wares :
       /\ cargo[w] + supplies[t][w] = BothOf(t, w)
       /\ LoadOf(t)[w] = 0 \/ Room(t, LoadOf(t)) <= hold => cargo[w] = Aboard(t, j, w)

\* Whatever stop comes next, if it is in an exchange that exchange stands where it should.
StagesRight ==
    asked.kind \in Exchanging /\ route # <<>> =>
       \A i \in 1 .. Len(Targets), m \in 1 .. Len(route) :
          Targets[i] \in HasOffice /\ Within(route, m, StopsFor(i), Targets[i]) =>
             \A j \in 1 .. Exchanges - 1 : served % Len(route) = m + j => Stage(Targets[i], j)

\* What the stops of a target with an office are.
LEMMA StopsForAre ==
    ASSUME SupplyRight, asked.kind \in Exchanging, NEW i \in 1 .. Len(Targets), Targets[i] \in HasOffice
    PROVE  /\ Len(StopsFor(i)) = Exchanges /\ Exchanges \in Nat /\ StopsFor(i) \in Seq(AllStops)
           /\ \A j \in 1 .. Exchanges : StopsFor(i)[j].town = Targets[i] /\ StopsFor(i)[j] \in AllStops
           /\ \A j \in 2 .. Exchanges : StopsFor(i)[j].price = Zero /\ StopsFor(i)[j].amount = Deal(LoadOf(Targets[i]), j)
           /\ LoadOf(Targets[i]) \in Amounts
<1> DEFINE t == Targets[i]
           load == LoadOf(t)
           b == StopsFor(i)
<1>1. t \in Range(Targets) /\ asked.days \in Nat /\ i \in DOMAIN Targets
  BY TargetsAre DEF SupplyRight
<1>2. b = middle(asked.kind, t, asked.alt, asked.days)
  BY <1>1 DEF StopsFor, Middles
<1>3. load \in Amounts
  BY <1>1, BasketIs DEF LoadOf
<1>4. b = IF asked.kind = "FiveStop" THEN five_stop_middle(t, load, [w \in Wares |-> 1])
          ELSE six_stop_middle(t, load, [w \in Wares |-> 1])
  BY <1>2 DEF middle, LoadOf, Exchanging
<1> HIDE DEF b, load, t
<1>5. CASE asked.kind = "FiveStop"
  <2>1. b = five_stop_middle(t, load, [w \in Wares |-> 1])
    BY <1>4, <1>5
  <2>2. /\ Visits(b, t) /\ Len(b) = 3
        /\ b[2].price = Zero /\ b[2].amount = take_supplied(load)
        /\ b[3].price = Zero /\ b[3].amount = put_back_and_collect(load)
    BY <1>1, <1>3, <2>1, FiveVisits
  <2>3. Exchanges = 3 /\ Deal(load, 2) = take_supplied(load) /\ Deal(load, 3) = put_back_and_collect(load)
    BY <1>5 DEF Exchanges, Deal
  <2>4. \A j \in 2 .. 3 : j = 2 \/ j = 3
    OBVIOUS
  <2>6. b \in Seq(AllStops) /\ \A j \in 1 .. Len(b) : b[j].town = t
    BY <2>2 DEF Visits
  <2>7. \A j \in 1 .. Len(b) : b[j] \in AllStops
    BY <2>6
  <2>5. b \in Seq(AllStops) /\ \A j \in 1 .. 3 : b[j].town = t /\ b[j] \in AllStops
    BY <2>2, <2>6, <2>7
  <2> QED
    BY <1>3, <2>2, <2>3, <2>4, <2>5 DEF b, t, load
<1>6. CASE asked.kind # "FiveStop"
  <2>1. b = six_stop_middle(t, load, [w \in Wares |-> 1])
    BY <1>4, <1>6
  <2>2. /\ Visits(b, t) /\ Len(b) = 4
        /\ b[2].price = Zero /\ b[2].amount = SixTake(load)
        /\ b[3].price = Zero /\ b[3].amount = SixBarrels(load)
        /\ b[4].price = Zero /\ b[4].amount = SixLoads(load)
    BY <1>1, <1>3, <2>1, SixVisits
  <2>3. Exchanges = 4 /\ Deal(load, 2) = SixTake(load) /\ Deal(load, 3) = SixBarrels(load) /\ Deal(load, 4) = SixLoads(load)
    BY <1>6 DEF Exchanges, Deal
  <2>4. \A j \in 2 .. 4 : j = 2 \/ j = 3 \/ j = 4
    OBVIOUS
  <2>6. b \in Seq(AllStops) /\ \A j \in 1 .. Len(b) : b[j].town = t
    BY <2>2 DEF Visits
  <2>7. \A j \in 1 .. Len(b) : b[j] \in AllStops
    BY <2>6
  <2>5. b \in Seq(AllStops) /\ \A j \in 1 .. 4 : b[j].town = t /\ b[j] \in AllStops
    BY <2>2, <2>6, <2>7
  <2> QED
    BY <1>3, <2>2, <2>3, <2>4, <2>5 DEF b, t, load
<1> QED
  BY <1>5, <1>6

\* The room for some wares, and what the barrels that go back give of it.
RoomFor(t, ws) ==
    [w \in Wares |-> IF w \in ws THEN before.cargo[w] + (IF LoadOf(t)[w] # 0 THEN before.supplies[t][w] ELSE 0) ELSE 0]
GivenBack(t) == [w \in Wares |-> IF w \in Barrels THEN Least(LoadOf(t)[w], BothOf(t, w)) ELSE 0]
SuppliedLoads(t) == {w \in Wares \ Barrels : LoadOf(t)[w] # 0}

\* What enough room is room for.
LEMMA RoomIs ==
    ASSUME NEW t, Room(t, LoadOf(t)) <= hold, hold \in Nat,
           NEW f, f = TotalOf(RoomFor(t, Barrels)), f \in Nat,
           NEW k, k = TotalOf(GivenBack(t)), k \in Nat,
           NEW h, h = TotalOf(RoomFor(t, SuppliedLoads(t))), h \in Nat
    PROVE  /\ asked.kind = "FiveStop" => TotalOf(RoomFor(t, Wares)) <= hold
           /\ asked.kind # "FiveStop" => f <= hold /\ f - k + h <= hold
<1> DEFINE load == LoadOf(t)
           both(ws) == TotalOf([w \in Wares |-> IF w \in ws
                                THEN before.cargo[w] + (IF load[w] # 0 THEN before.supplies[t][w] ELSE 0) ELSE 0])
           back == TotalOf([w \in Wares |-> IF w \in Barrels THEN Least(load[w], before.cargo[w] + before.supplies[t][w]) ELSE 0])
           loads == {w \in Wares \ Barrels : load[w] # 0}
<1>1. /\ \A ws : both(ws) = TotalOf(RoomFor(t, ws))
      /\ back = TotalOf(GivenBack(t)) /\ loads = SuppliedLoads(t)
  BY DEF RoomFor, GivenBack, SuppliedLoads, BothOf
<1>2. Room(t, load) = IF asked.kind = "FiveStop" THEN both(Wares)
                      ELSE IF both(Barrels) < both(Barrels) - back + both(loads) THEN both(Barrels) - back + both(loads)
                      ELSE both(Barrels)
  BY DEF Room
<1> HIDE DEF both, back, loads
<1>3. asked.kind # "FiveStop" => Room(t, load) = IF f < f - k + h THEN f - k + h ELSE f
  BY <1>1, <1>2
<1>4. asked.kind = "FiveStop" => TotalOf(RoomFor(t, Wares)) <= hold
  BY <1>1, <1>2
<1>5. asked.kind # "FiveStop" => f <= hold /\ f - k + h <= hold
  <2> SUFFICES ASSUME asked.kind # "FiveStop" PROVE f <= hold /\ f - k + h <= hold
    OBVIOUS
  <2> DEFINE room == Room(t, load)
  <2>1. room = IF f < f - k + h THEN f - k + h ELSE f
    BY <1>3
  <2>2. room <= hold
    OBVIOUS
  <2> HIDE DEF room
  <2>3. f \in Nat /\ k \in Nat /\ h \in Nat /\ hold \in Nat
    OBVIOUS
  <2>4. CASE f < f - k + h
    <3>1. f - k + h <= hold
      BY <2>1, <2>2, <2>4
    <3> QED
      BY <2>3, <2>4, <3>1
  <2> QED
    BY <2>1, <2>2, <2>3
<1> QED
  BY <1>4, <1>5

\* What the history is made of.
LEMMA HistoryIs ==
    ASSUME SupplyRight, NEW t \in HasOffice, LoadOf(t) \in Amounts, NEW w \in Wares
    PROVE  /\ before.cargo[w] \in Nat /\ before.supplies[t][w] \in Nat /\ BothOf(t, w) \in Nat /\ LoadOf(t)[w] \in Nat
           /\ cargo[w] \in Nat /\ supplies[t][w] \in Nat /\ cargo[w] <= MAX_AMOUNT
           /\ MAX_AMOUNT \in Nat \ {0} /\ hold \in Nat /\ hold <= MAX_AMOUNT
<1>1. /\ before.cargo[w] \in Nat /\ before.supplies[t][w] \in Nat
      /\ cargo[w] \in Nat /\ supplies[t][w] \in Nat /\ LoadOf(t)[w] \in Nat
  BY DEF SupplyRight, Offices, Amounts
<1>2. cargo \in Amounts /\ TotalOf(cargo) <= hold /\ hold \in Nat /\ hold <= MAX_AMOUNT /\ MAX_AMOUNT \in Nat \ {0}
  BY SupplyAssumption DEF SupplyRight
<1>3. cargo[w] <= TotalOf(cargo) /\ TotalOf(cargo) \in Nat
  BY <1>2, TotalIsNat
<1>4. cargo[w] <= MAX_AMOUNT
  BY <1>1, <1>2, <1>3
<1> QED
  BY <1>1, <1>2, <1>4 DEF BothOf

\* The rooms are amounts.
LEMMA RoomsAre ==
    ASSUME SupplyRight, NEW t \in HasOffice, LoadOf(t) \in Amounts
    PROVE  /\ \A ws : RoomFor(t, ws) \in Amounts /\ GivenBack(t) \in Amounts
           /\ \A w \in Wares : GivenBack(t)[w] <= RoomFor(t, Barrels)[w]
<1>1. ASSUME NEW w \in Wares
      PROVE  LET b == before.cargo[w]
                 v == before.supplies[t][w]
                 l == LoadOf(t)[w]
             IN  /\ b \in Nat /\ b + (IF l # 0 THEN v ELSE 0) \in Nat
                 /\ Least(l, BothOf(t, w)) \in Nat
                 /\ Least(l, BothOf(t, w)) <= b + (IF l # 0 THEN v ELSE 0)
  <2> DEFINE b == before.cargo[w]
             v == before.supplies[t][w]
             l == LoadOf(t)[w]
             s == BothOf(t, w)
  <2>1. b \in Nat /\ v \in Nat /\ l \in Nat /\ s = b + v
    BY HistoryIs DEF BothOf
  <2> HIDE DEF b, v, l, s
  <2>2. b + (IF l # 0 THEN v ELSE 0) \in Nat /\ Least(l, s) \in Nat /\ Least(l, s) <= b + (IF l # 0 THEN v ELSE 0)
    BY <2>1 DEF Least
  <2> QED
    BY <2>1, <2>2 DEF b, v, l, s
<1>2. \A ws : RoomFor(t, ws) \in Amounts
  BY <1>1 DEF RoomFor, Amounts
<1>3. GivenBack(t) \in Amounts
  BY <1>1 DEF GivenBack, Amounts
<1>4. \A w \in Wares : GivenBack(t)[w] <= RoomFor(t, Barrels)[w]
  BY <1>1 DEF GivenBack, RoomFor
<1> QED
  BY <1>2, <1>3, <1>4

\* What enough room is room for, ware by ware too.
LEMMA RoomAllows ==
    ASSUME SupplyRight, NEW t \in HasOffice, LoadOf(t) \in Amounts, Room(t, LoadOf(t)) <= hold
    PROVE  /\ asked.kind = "FiveStop" =>
                 /\ TotalOf(RoomFor(t, Wares)) <= hold
                 /\ \A w \in Wares : RoomFor(t, Wares)[w] <= MAX_AMOUNT
           /\ asked.kind # "FiveStop" =>
                 /\ TotalOf(RoomFor(t, Barrels)) <= hold
                 /\ \A w \in Wares : RoomFor(t, Barrels)[w] <= MAX_AMOUNT
                 /\ TotalOf(RoomFor(t, Barrels)) - TotalOf(GivenBack(t)) + TotalOf(RoomFor(t, SuppliedLoads(t))) <= hold
                 /\ \A w \in Wares : RoomFor(t, SuppliedLoads(t))[w] <= MAX_AMOUNT
<1> DEFINE E == RoomFor(t, Wares)
           F == RoomFor(t, Barrels)
           K == GivenBack(t)
           H == RoomFor(t, SuppliedLoads(t))
           e == TotalOf(E)
           f == TotalOf(F)
           k == TotalOf(K)
           h == TotalOf(H)
<1>1. E \in Amounts /\ F \in Amounts /\ K \in Amounts /\ H \in Amounts /\ \A w \in Wares : K[w] <= F[w]
  BY RoomsAre
<1>2. hold \in Nat /\ MAX_AMOUNT \in Nat /\ hold <= MAX_AMOUNT
  BY SupplyAssumption DEF SupplyRight
<1> HIDE DEF E, F, K, H
<1>3. /\ e \in Nat /\ f \in Nat /\ k \in Nat /\ h \in Nat /\ k <= f
      /\ \A w \in Wares : /\ E[w] \in Nat /\ E[w] <= e /\ F[w] \in Nat /\ F[w] <= f
                          /\ H[w] \in Nat /\ H[w] <= h
  BY <1>1, TotalIsNat, TotalGrows
<1>4. /\ asked.kind = "FiveStop" => e <= hold
      /\ asked.kind # "FiveStop" => f <= hold /\ f - k + h <= hold
  BY <1>2, <1>3, RoomIs DEF E, F, K, H
<1> HIDE DEF e, f, k, h
<1>5. asked.kind = "FiveStop" => e <= hold /\ \A w \in Wares : E[w] <= MAX_AMOUNT
  BY <1>2, <1>3, <1>4
<1>6. asked.kind # "FiveStop" => f <= hold /\ f - k + h <= hold /\ \A w \in Wares : F[w] <= MAX_AMOUNT /\ H[w] <= MAX_AMOUNT
  BY <1>2, <1>3, <1>4
<1> QED
  BY <1>5, <1>6 DEF E, F, K, H, e, f, k, h

\* Where the exchange of a target stands: so many of its stops are served.
Midway(t, j) ==
    /\ SupplyRight /\ asked.kind \in Exchanging /\ t \in HasOffice /\ LoadOf(t) \in Amounts
    /\ j \in 1 .. Exchanges - 1 /\ Stage(t, j)

\* A ware in the middle of an exchange.
LEMMA WareIs ==
    ASSUME NEW t, NEW j, Midway(t, j), NEW w \in Wares,
           NEW a, a = Deal(LoadOf(t), j + 1)[w]
    PROVE  LET b == before.cargo[w]
               v == before.supplies[t][w]
               c == cargo[w]
               u == supplies[t][w]
               l == LoadOf(t)[w]
           IN  /\ b \in Nat /\ v \in Nat /\ c \in Nat /\ u \in Nat /\ l \in Nat /\ c + u = b + v
               /\ MAX_AMOUNT \in Nat \ {0} /\ c <= MAX_AMOUNT
               /\ l = 0 \/ Room(t, LoadOf(t)) <= hold => c = Aboard(t, j, w)
               /\ After(t, Deal(LoadOf(t), j + 1))[w] =
                     IF a <= 0 THEN c - (IF a < 0 THEN Least(c, -a) ELSE 0) ELSE c + Least(a, u)
               /\ BothOf(t, w) = b + v
               /\ Room(t, LoadOf(t)) <= hold =>
                     /\ asked.kind = "FiveStop" /\ l # 0 => b + v <= MAX_AMOUNT
                     /\ asked.kind # "FiveStop" /\ l # 0 => b + v <= MAX_AMOUNT
<1>1. /\ before.cargo[w] \in Nat /\ before.supplies[t][w] \in Nat /\ LoadOf(t)[w] \in Nat
      /\ cargo[w] \in Nat /\ supplies[t][w] \in Nat /\ cargo[w] <= MAX_AMOUNT
      /\ MAX_AMOUNT \in Nat \ {0}
  BY HistoryIs DEF Midway
<1>2. /\ cargo[w] + supplies[t][w] = before.cargo[w] + before.supplies[t][w]
      /\ LoadOf(t)[w] = 0 \/ Room(t, LoadOf(t)) <= hold => cargo[w] = Aboard(t, j, w)
  BY DEF Midway, Stage, BothOf
<1>3. After(t, Deal(LoadOf(t), j + 1))[w] =
         IF a <= 0 THEN cargo[w] - (IF a < 0 THEN Least(cargo[w], -a) ELSE 0) ELSE cargo[w] + Least(a, supplies[t][w])
  BY DEF After, Put
<1>4. ASSUME Room(t, LoadOf(t)) <= hold, LoadOf(t)[w] # 0
      PROVE  before.cargo[w] + before.supplies[t][w] <= MAX_AMOUNT
  <2>1. SupplyRight /\ t \in HasOffice /\ LoadOf(t) \in Amounts
    BY DEF Midway
  <2>2. CASE asked.kind = "FiveStop"
    <3>1. RoomFor(t, Wares)[w] <= MAX_AMOUNT
      BY <1>4, <2>1, <2>2, RoomAllows
    <3> QED
      BY <1>4, <3>1 DEF RoomFor
  <2>3. CASE asked.kind # "FiveStop"
    <3>1. RoomFor(t, Barrels)[w] <= MAX_AMOUNT /\ RoomFor(t, SuppliedLoads(t))[w] <= MAX_AMOUNT
      BY <1>4, <2>1, <2>3, RoomAllows
    <3>2. CASE w \in Barrels
      BY <1>4, <3>1, <3>2 DEF RoomFor
    <3>3. CASE w \notin Barrels
      <4>1. w \in SuppliedLoads(t)
        BY <1>4, <3>3 DEF SuppliedLoads
      <4> QED
        BY <1>4, <3>1, <4>1 DEF RoomFor
    <3> QED
      BY <3>2, <3>3
  <2> QED
    BY <2>2, <2>3
<1> QED
  BY <1>1, <1>2, <1>3, <1>4 DEF BothOf

\* What the next stop would bring the ship to, for the wares not supplied, or with room enough.
LEMMA AfterIs ==
    ASSUME NEW t, NEW j, Midway(t, j), j + 1 < Exchanges, NEW w \in Wares,
           LoadOf(t)[w] = 0 \/ Room(t, LoadOf(t)) <= hold
    PROVE  /\ After(t, Deal(LoadOf(t), j + 1))[w] = Aboard(t, j + 1, w)
           /\ LoadOf(t)[w] = 0 => Deal(LoadOf(t), j + 1)[w] <= 0
<1> DEFINE load == LoadOf(t)
           a == Deal(load, j + 1)[w]
           b == before.cargo[w]
           v == before.supplies[t][w]
           c == cargo[w]
           u == supplies[t][w]
           l == load[w]
           x == Aboard(t, j, w)
           y == Aboard(t, j + 1, w)
           z == After(t, Deal(load, j + 1))[w]
           M == MAX_AMOUNT
           s == BothOf(t, w)
<1>1. /\ b \in Nat /\ v \in Nat /\ c \in Nat /\ u \in Nat /\ l \in Nat /\ c + u = b + v /\ c = x
      /\ M \in Nat \ {0} /\ c <= M /\ s = b + v /\ (l # 0 => b + v <= M)
      /\ z = IF a <= 0 THEN c - (IF a < 0 THEN Least(c, -a) ELSE 0) ELSE c + Least(a, u)
  <2>1. a = Deal(LoadOf(t), j + 1)[w]
    OBVIOUS
  <2>2. /\ b \in Nat /\ v \in Nat /\ c \in Nat /\ u \in Nat /\ l \in Nat /\ c + u = b + v
        /\ M \in Nat \ {0} /\ c <= M /\ s = b + v
        /\ l = 0 \/ Room(t, LoadOf(t)) <= hold => c = x
        /\ z = IF a <= 0 THEN c - (IF a < 0 THEN Least(c, -a) ELSE 0) ELSE c + Least(a, u)
    BY WareIs
  <2>3. Room(t, LoadOf(t)) <= hold /\ l # 0 => b + v <= M
    BY WareIs
  <2> QED
    BY <2>2, <2>3
<1>2. asked.kind \in Exchanging /\ j \in 1 .. Exchanges - 1 /\ Exchanges = IF asked.kind = "FiveStop" THEN 3 ELSE 4
  BY DEF Midway, Exchanges
<1>3. CASE asked.kind = "FiveStop"
  <2>1. j = 1
    BY <1>2, <1>3
  <2>2. a = IF l # 0 THEN M ELSE 0
    BY <1>3, <2>1 DEF Deal, take_supplied, sell_max
  <2>3. x = b /\ y = IF l # 0 THEN s ELSE b
    BY <1>3, <2>1 DEF Aboard
  <2> HIDE DEF load, a, b, v, c, u, l, x, y, z, M, s
  <2>4. z = y /\ (l = 0 => a <= 0)
    BY <1>1, <2>2, <2>3 DEF Least
  <2> QED
    BY <2>4 DEF load, a, l, y, z
<1>4. CASE asked.kind # "FiveStop" /\ j = 1
  <2>2. a = IF w \notin Barrels THEN -M ELSE IF l # 0 THEN M ELSE 0
    BY <1>4 DEF Deal, SixTake
  <2>3. x = b /\ y = IF w \notin Barrels THEN 0 ELSE IF l # 0 THEN s ELSE b
    BY <1>4 DEF Aboard
  <2> HIDE DEF load, a, b, v, c, u, l, x, y, z, M, s
  <2>4. z = y /\ (l = 0 => a <= 0)
    BY <1>1, <2>2, <2>3 DEF Least
  <2> QED
    BY <2>4 DEF load, a, l, y, z
<1>5. CASE asked.kind # "FiveStop" /\ j = 2
  <2>2. a = IF l = 0 THEN 0 ELSE IF w \in Barrels THEN -l ELSE M
    BY <1>5 DEF Deal, SixBarrels
  <2>3. /\ x = IF w \notin Barrels THEN 0 ELSE IF l # 0 THEN s ELSE b
        /\ y = IF w \notin Barrels THEN (IF l # 0 THEN s ELSE 0) ELSE IF l # 0 THEN s - Least(l, s) ELSE b
    BY <1>5 DEF Aboard
  <2> HIDE DEF load, a, b, v, c, u, l, x, y, z, M, s
  <2>4. z = y /\ (l = 0 => a <= 0)
    BY <1>1, <2>2, <2>3 DEF Least
  <2> QED
    BY <2>4 DEF load, a, l, y, z
<1>6. asked.kind # "FiveStop" => j = 1 \/ j = 2
  BY <1>2
<1> QED
  BY <1>3, <1>4, <1>5, <1>6

\* With room enough it all fits.
LEMMA AfterFits ==
    ASSUME NEW t, NEW j, Midway(t, j), j + 1 < Exchanges, Room(t, LoadOf(t)) <= hold,
           After(t, Deal(LoadOf(t), j + 1)) \in Amounts
    PROVE  TotalOf(After(t, Deal(LoadOf(t), j + 1))) <= hold
<1> DEFINE load == LoadOf(t)
           Z == After(t, Deal(load, j + 1))
           E == RoomFor(t, Wares)
           F == RoomFor(t, Barrels)
           K == GivenBack(t)
           H == RoomFor(t, SuppliedLoads(t))
<1>1. SupplyRight /\ t \in HasOffice /\ LoadOf(t) \in Amounts /\ j \in 1 .. Exchanges - 1 /\ Exchanges = IF asked.kind = "FiveStop" THEN 3 ELSE 4
  BY DEF Midway, Exchanges
<1>2. E \in Amounts /\ F \in Amounts /\ K \in Amounts /\ H \in Amounts /\ Z \in Amounts
  BY <1>1, RoomsAre
<1>3. \A w \in Wares : Z[w] = Aboard(t, j + 1, w)
  BY AfterIs
<1>4. hold \in Nat
  BY <1>1, SupplyAssumption DEF SupplyRight
<1>5. TotalOf(E) \in Nat /\ TotalOf(F) \in Nat /\ TotalOf(K) \in Nat /\ TotalOf(H) \in Nat /\ TotalOf(Z) \in Nat
  BY <1>2, TotalIsNat
<1>6. ASSUME NEW w \in Wares
      PROVE  /\ before.cargo[w] \in Nat /\ before.supplies[t][w] \in Nat
             /\ BothOf(t, w) = before.cargo[w] + before.supplies[t][w] /\ LoadOf(t)[w] \in Nat
  BY <1>1, HistoryIs DEF BothOf
<1> HIDE DEF Z, E, F, K, H
<1>7. CASE asked.kind = "FiveStop"
  <2>1. j = 1
    BY <1>1, <1>7
  <2>2. ASSUME NEW w \in Wares PROVE Z[w] <= E[w]
    <3>1. Z[w] = IF LoadOf(t)[w] # 0 THEN BothOf(t, w) ELSE before.cargo[w]
      BY <1>3, <1>7, <2>1 DEF Aboard
    <3>2. E[w] = before.cargo[w] + (IF LoadOf(t)[w] # 0 THEN before.supplies[t][w] ELSE 0)
      BY DEF E, RoomFor
    <3> QED
      BY <1>6, <3>1, <3>2
  <2>3. TotalOf(Z) <= TotalOf(E)
    BY <1>2, <2>2, TotalGrows
  <2>4. TotalOf(E) <= hold
    BY <1>1, <1>7, RoomAllows DEF E
  <2> QED
    BY <1>4, <1>5, <2>3, <2>4 DEF Z
<1>8. CASE asked.kind # "FiveStop" /\ j = 1
  <2>2. ASSUME NEW w \in Wares PROVE Z[w] <= F[w]
    <3>1. Z[w] = IF w \notin Barrels THEN 0 ELSE IF LoadOf(t)[w] # 0 THEN BothOf(t, w) ELSE before.cargo[w]
      BY <1>3, <1>8 DEF Aboard
    <3>2. F[w] = IF w \in Barrels THEN before.cargo[w] + (IF LoadOf(t)[w] # 0 THEN before.supplies[t][w] ELSE 0) ELSE 0
      BY DEF F, RoomFor
    <3> QED
      BY <1>6, <3>1, <3>2
  <2>3. TotalOf(Z) <= TotalOf(F)
    BY <1>2, <2>2, TotalGrows
  <2>4. TotalOf(F) <= hold
    BY <1>1, <1>8, RoomAllows DEF F
  <2> QED
    BY <1>4, <1>5, <2>3, <2>4 DEF Z
<1>9. CASE asked.kind # "FiveStop" /\ j = 2
  <2> DEFINE X == [w \in Wares |-> Z[w] + K[w]]
             Y == [w \in Wares |-> F[w] + H[w]]
  <2>1. X \in Amounts /\ Y \in Amounts
    <3>1. \A w \in Wares : Z[w] + K[w] \in Nat /\ F[w] + H[w] \in Nat
      BY <1>2 DEF Amounts
    <3> QED
      BY <3>1 DEF Amounts
  <2>2. TotalOf(X) = TotalOf(Z) + TotalOf(K) /\ TotalOf(Y) = TotalOf(F) + TotalOf(H)
    <3>1. (\A w \in Wares : X[w] = Z[w] + K[w]) /\ (\A w \in Wares : Y[w] = F[w] + H[w])
      OBVIOUS
    <3> HIDE DEF X, Y
    <3> QED
      BY <1>2, <2>1, <3>1, TotalAdds
  <2>3. ASSUME NEW w \in Wares PROVE X[w] <= Y[w]
    <3> DEFINE l == LoadOf(t)[w]
               b == before.cargo[w]
               v == before.supplies[t][w]
               s == BothOf(t, w)
               z == Z[w]
               k == K[w]
               f == F[w]
               h == H[w]
    <3>1. z = IF w \notin Barrels THEN (IF l # 0 THEN s ELSE 0) ELSE IF l # 0 THEN s - Least(l, s) ELSE b
      BY <1>3, <1>9 DEF Aboard
    <3>2. k = IF w \in Barrels THEN Least(l, s) ELSE 0
      BY DEF K, GivenBack
    <3>3. f = IF w \in Barrels THEN b + (IF l # 0 THEN v ELSE 0) ELSE 0
      BY DEF F, RoomFor
    <3>4. h = IF w \notin Barrels /\ l # 0 THEN b + v ELSE 0
      BY DEF H, RoomFor, SuppliedLoads
    <3>5. b \in Nat /\ v \in Nat /\ l \in Nat /\ s = b + v
      BY <1>6
    <3> HIDE DEF l, b, v, s, z, k, f, h
    <3>6. z + k <= f + h
      BY <3>1, <3>2, <3>3, <3>4, <3>5 DEF Least
    <3> QED
      BY <3>6 DEF z, k, f, h
  <2> HIDE DEF X, Y
  <2>4. TotalOf(X) <= TotalOf(Y)
    BY <2>1, <2>3, TotalGrows
  <2>5. TotalOf(F) - TotalOf(K) + TotalOf(H) <= hold
    BY <1>1, <1>9, RoomAllows DEF F, K, H
  <2> QED
    BY <1>4, <1>5, <2>2, <2>4, <2>5 DEF Z
<1>10. asked.kind # "FiveStop" => j = 1 \/ j = 2
  BY <1>1
<1> QED
  BY <1>7, <1>8, <1>9, <1>10

\* The history and the key's wishes stay as they are while a target's stops are served.
LEMMA WishesStay ==
    ASSUME UNCHANGED <<asked, hold, before>>, NEW t, NEW j
    PROVE  /\ LoadOf(t)' = LoadOf(t) /\ Room(t, LoadOf(t))' = Room(t, LoadOf(t))
           /\ \A w \in Wares : BothOf(t, w)' = BothOf(t, w) /\ Aboard(t, j, w)' = Aboard(t, j, w)
<1>1. LoadOf(t)' = LoadOf(t)
  BY DEF LoadOf
<1>2. Room(t, LoadOf(t))' = Room(t, LoadOf(t))
  BY <1>1 DEF Room
<1>3. ASSUME NEW w \in Wares PROVE BothOf(t, w)' = BothOf(t, w)
  BY DEF BothOf
<1>4. ASSUME NEW w \in Wares PROVE Aboard(t, j, w)' = Aboard(t, j, w)
  BY <1>1, <1>3 DEF Aboard
<1> QED
  BY <1>1, <1>2, <1>3, <1>4

\* One more stop of the exchange.
LEMMA GoesOn ==
    ASSUME NEW t, NEW j, Midway(t, j), j + 1 < Exchanges, Exchanged(t, Deal(LoadOf(t), j + 1)),
           UNCHANGED <<asked, hold, before>>
    PROVE  Stage(t, j + 1)'
<1> DEFINE amount == Deal(LoadOf(t), j + 1)
           after == After(t, amount)
<1>1. SupplyRight /\ after \in Amounts
  BY DEF Midway, Exchanged
<1>2. ASSUME NEW w \in Wares PROVE cargo'[w] + supplies'[t][w] = BothOf(t, w)
  BY DEF Exchanged, Midway, Stage
<1>3. ASSUME NEW w \in Wares, LoadOf(t)[w] = 0 PROVE cargo'[w] = Aboard(t, j + 1, w)
  <2>1. after[w] = Aboard(t, j + 1, w) /\ amount[w] <= 0
    BY <1>3, AfterIs
  <2> QED
    BY <2>1 DEF Exchanged
<1>4. ASSUME NEW w \in Wares, Room(t, LoadOf(t)) <= hold PROVE cargo'[w] = Aboard(t, j + 1, w)
  <2>1. after[w] = Aboard(t, j + 1, w)
    BY <1>4, AfterIs
  <2>2. TotalOf(after) <= hold
    BY <1>1, <1>4, AfterFits
  <2> HIDE DEF amount
  <2>3. cargo'[w] = after[w]
    BY <1>1, <2>2, RoomIsEnough DEF amount
  <2> QED
    BY <2>1, <2>3
<1>5. /\ LoadOf(t)' = LoadOf(t) /\ Room(t, LoadOf(t))' = Room(t, LoadOf(t)) /\ hold' = hold
      /\ \A w \in Wares : BothOf(t, w)' = BothOf(t, w) /\ Aboard(t, j + 1, w)' = Aboard(t, j + 1, w)
  BY WishesStay
<1> SUFFICES ASSUME NEW w \in Wares
             PROVE  /\ cargo'[w] + supplies'[t][w] = BothOf(t, w)'
                    /\ LoadOf(t)'[w] = 0 \/ Room(t, LoadOf(t))' <= hold' => cargo'[w] = Aboard(t, j + 1, w)'
  BY DEF Stage
<1> QED
  BY <1>2, <1>3, <1>4, <1>5

\* The last stop of the exchange.
LEMMA EndsWell ==
    ASSUME NEW t, NEW j, Midway(t, j), j + 1 = Exchanges, Exchanged(t, Deal(LoadOf(t), j + 1))
    PROVE  /\ \A w \in Wares : LoadOf(t)[w] = 0 /\ supplies'[t][w] > 0 => TotalOf(cargo') = hold
           /\ Room(t, LoadOf(t)) <= hold => \A w \in Wares : LoadOf(t)[w] # 0 =>
                  supplies'[t][w] = Least(LoadOf(t)[w], before.cargo[w] + before.supplies[t][w])
<1> DEFINE load == LoadOf(t)
           amount == Deal(load, j + 1)
<1>1. /\ SupplyRight /\ t \in HasOffice /\ asked.kind \in Exchanging /\ j \in 1 .. Exchanges - 1
      /\ Exchanges = IF asked.kind = "FiveStop" THEN 3 ELSE 4
  BY DEF Midway, Exchanges
<1>2. amount = IF asked.kind = "FiveStop" THEN put_back_and_collect(load) ELSE SixLoads(load)
  <2>1. CASE asked.kind = "FiveStop"
    <3>1. j + 1 = 3
      BY <1>1, <2>1
    <3> QED
      BY <2>1, <3>1 DEF Deal
  <2>2. CASE asked.kind # "FiveStop"
    <3>1. j + 1 = 4
      BY <1>1, <2>2
    <3> QED
      BY <2>2, <3>1 DEF Deal
  <2> QED
    BY <2>1, <2>2
<1>3. ASSUME NEW w \in Wares, LoadOf(t)[w] = 0, supplies'[t][w] > 0 PROVE TotalOf(cargo') = hold
  <2>1. amount[w] = MAX_AMOUNT
    BY <1>2, <1>3 DEF put_back_and_collect, SixLoads
  <2> HIDE DEF amount
  <2> QED
    BY <1>1, <1>3, <2>1, LeftByFull DEF amount
<1>4. ASSUME Room(t, LoadOf(t)) <= hold, NEW w \in Wares, LoadOf(t)[w] # 0
      PROVE  supplies'[t][w] = Least(LoadOf(t)[w], before.cargo[w] + before.supplies[t][w])
  <2> DEFINE a == amount[w]
             b == before.cargo[w]
             v == before.supplies[t][w]
             c == cargo[w]
             u == supplies[t][w]
             l == load[w]
             x == Aboard(t, j, w)
             z == After(t, amount)[w]
             c2 == cargo'[w]
             u2 == supplies'[t][w]
             s == BothOf(t, w)
  <2>1. /\ b \in Nat /\ v \in Nat /\ c \in Nat /\ u \in Nat /\ l \in Nat /\ c + u = b + v /\ c = x /\ s = b + v
        /\ z = IF a <= 0 THEN c - (IF a < 0 THEN Least(c, -a) ELSE 0) ELSE c + Least(a, u)
    <3>1. a = Deal(LoadOf(t), j + 1)[w]
      OBVIOUS
    <3>2. /\ b \in Nat /\ v \in Nat /\ c \in Nat /\ u \in Nat /\ l \in Nat /\ c + u = b + v
          /\ l = 0 \/ Room(t, LoadOf(t)) <= hold => c = x
          /\ z = IF a <= 0 THEN c - (IF a < 0 THEN Least(c, -a) ELSE 0) ELSE c + Least(a, u)
          /\ s = b + v
      BY WareIs
    <3> QED
      BY <1>4, <3>2
  <2>2. c2 + u2 = c + u /\ (a <= 0 => c2 = z) /\ c2 \in Nat /\ u2 \in Nat
    BY DEF Exchanged, Amounts
  <2>3. l # 0
    BY <1>4
  <2>4. u2 = Least(l, s)
    <3>1. CASE asked.kind = "FiveStop"
      <4>1. j = 2
        BY <1>1, <3>1
      <4>2. a = -l
        BY <1>2, <1>4, <3>1 DEF put_back_and_collect
      <4>3. x = s
        BY <1>4, <3>1, <4>1 DEF Aboard
      <4> HIDE DEF load, amount, a, b, v, c, u, l, x, z, c2, u2, s
      <4> QED
        BY <2>1, <2>2, <2>3, <4>2, <4>3 DEF Least
    <3>2. CASE asked.kind # "FiveStop"
      <4>1. j = 3
        BY <1>1, <3>2
      <4>2. a = IF w \in Barrels THEN 0 ELSE -l
        BY <1>2, <1>4, <3>2 DEF SixLoads
      <4>3. x = IF w \notin Barrels THEN s ELSE s - Least(l, s)
        BY <1>4, <3>2, <4>1 DEF Aboard
      <4> HIDE DEF load, amount, a, b, v, c, u, l, x, z, c2, u2, s
      <4> QED
        BY <2>1, <2>2, <2>3, <4>2, <4>3 DEF Least
    <3> QED
      BY <3>1, <3>2
  <2> QED
    BY <2>4 DEF BothOf
<1> QED
  BY <1>3, <1>4

\* Serving a stop of a target with an office: at the first of them the history begins, at the
\* others goods are exchanged.
LEMMA TargetIsServed ==
    ASSUME SupplyRight, asked.kind \in Exchanging, Serve,
           NEW i \in 1 .. Len(Targets), Targets[i] \in HasOffice, NEW m, Within(route, m, StopsFor(i), Targets[i]),
           NEW j \in 0 .. Exchanges - 1, served % Len(route) = m + j
    PROVE  /\ Stop(served).town = Targets[i]
           /\ j = 0 => before' = [cargo |-> cargo', supplies |-> supplies']
           /\ j > 0 => before' = before /\ Exchanged(Targets[i], Deal(LoadOf(Targets[i]), j + 1))
           /\ j + 1 < Exchanges => Stop(served + 1).town = Targets[i]
<1> DEFINE t == Targets[i]
           b == StopsFor(i)
           s == Stop(served)
<1>1. /\ Len(b) = Exchanges /\ Exchanges \in Nat
      /\ \A k \in 1 .. Exchanges : b[k].town = t /\ b[k] \in AllStops
      /\ \A k \in 2 .. Exchanges : b[k].price = Zero /\ b[k].amount = Deal(LoadOf(t), k)
  BY StopsForAre
<1> HIDE DEF b
<1>2. /\ s = b[j + 1]
      /\ j = 0 => Stop(served + Len(route) - 1).town # t
      /\ j > 0 => Stop(served + Len(route) - 1).town = t
      /\ j + 1 < Exchanges => Stop(served + 1).town = t
  <2>1. served \in Nat /\ route \in Seq(AllStops)
    BY DEF SupplyRight
  <2>2. Within(route, m, b, t)
    BY DEF b
  <2>3. Len(b) \in Nat /\ (\A k \in 1 .. Len(b) : b[k].town = t) /\ j \in 0 .. Len(b) - 1
    BY <1>1
  <2> HIDE DEF t, s
  <2>4. /\ Stop(served) = b[j + 1]
        /\ j = 0 => Stop(served + Len(route) - 1).town # t
        /\ j > 0 => Stop(served + Len(route) - 1).town = t
        /\ j + 1 < Len(b) => Stop(served + 1).town = t
    BY <2>1, <2>2, <2>3, ServedOfTarget
  <2> QED
    BY <1>1, <2>4 DEF s
<1>3. j + 1 \in 1 .. Exchanges /\ (j > 0 => j + 1 \in 2 .. Exchanges)
  BY <1>1
<1>4. s.town = t /\ s \in AllStops
  BY <1>1, <1>2, <1>3
<1>5. before' = IF s.town = Stop(served + Len(route) - 1).town THEN before
                ELSE [cargo |-> cargo', supplies |-> supplies']
  BY ServedIs
<1>6. ASSUME j > 0 PROVE Exchanged(t, Deal(LoadOf(t), j + 1))
  <2>1. s.price = Zero /\ s.amount = Deal(LoadOf(t), j + 1)
    BY <1>1, <1>2, <1>3, <1>6
  <2>2. PICK kept, office, offered, got : Handled(s, kept, office, offered, got)
    BY ServedIs
  <2> HIDE DEF s
  <2>3. Exchanged(t, s.amount)
    BY <1>4, <2>1, <2>2, ExchangeIs
  <2> QED
    BY <2>1, <2>3
<1> QED
  BY <1>2, <1>4, <1>5, <1>6

\* The invariant: every state is right, and so is every exchange under way.
SupplyInv == SupplyRight /\ StagesRight

\* Before anything is built no exchange is under way.
LEMMA ExchangesBegin == RouteInit => SupplyInv
<1> SUFFICES ASSUME RouteInit PROVE SupplyInv
  OBVIOUS
<1>1. route = <<>>
  BY DEF RouteInit
<1> QED
  BY <1>1, SupplyBegins DEF SupplyInv, StagesRight

\* An exchange under way before and after a stop is served.
LEMMA ExchangesGoOn ==
    ASSUME SupplyInv, Serve PROVE StagesRight'
<1>1. SupplyRight /\ route # <<>> /\ served' = served + 1 /\ UNCHANGED <<asked, route, hold>> /\ served \in Nat /\ route \in Seq(AllStops)
  BY ServedIs DEF SupplyInv, SupplyRight
<1>2. \A i : StopsFor(i)' = StopsFor(i)
  BY <1>1 DEF StopsFor
<1>3. Exchanges' = Exchanges
  BY <1>1 DEF Exchanges
<1> SUFFICES ASSUME asked.kind \in Exchanging,
                    NEW i \in 1 .. Len(Targets), NEW m \in 1 .. Len(route),
                    Targets[i] \in HasOffice, Within(route, m, StopsFor(i), Targets[i]),
                    NEW k \in 1 .. Exchanges - 1, (served + 1) % Len(route) = m + k
             PROVE  Stage(Targets[i], k)'
  BY <1>1, <1>2, <1>3 DEF StagesRight
<1> DEFINE L == Len(route)
           t == Targets[i]
           r == served % L
           j == k - 1
<1>4. L \in Nat \ {0} /\ Exchanges \in Nat /\ m \in Nat
  BY <1>1 DEF Exchanges
<1>5. r \in 0 .. L - 1 /\ (r + 1 < L => (served + 1) % L = r + 1) /\ (r + 1 = L => (served + 1) % L = 0)
  <2> HIDE DEF L
  <2> QED
    BY <1>1, <1>4, NextInLap
<1>6. r = m + j /\ j \in 0 .. Exchanges - 1 /\ j + 1 = k /\ j + 1 < Exchanges
  <2> DEFINE n == (served + 1) % L
  <2>1. n = m + k
    OBVIOUS
  <2> HIDE DEF L, r, n
  <2> QED
    BY <1>4, <1>5, <2>1 DEF n
<1>7. /\ Stop(served).town = t
      /\ j = 0 => before' = [cargo |-> cargo', supplies |-> supplies']
      /\ j > 0 => before' = before /\ Exchanged(t, Deal(LoadOf(t), j + 1))
  <2> HIDE DEF j
  <2> QED
    BY <1>1, <1>6, TargetIsServed
<1>8. CASE j = 0
  <2>1. before' = [cargo |-> cargo', supplies |-> supplies'] /\ k = 1
    BY <1>6, <1>7, <1>8
  <2>2. before'.cargo = cargo' /\ before'.supplies = supplies'
    BY <2>1
  <2> QED
    BY <2>1, <2>2 DEF Stage, BothOf, Aboard
<1>9. CASE j > 0
  <2>1. j \in 1 .. Exchanges - 1
    BY <1>6, <1>9
  <2>2. Stage(t, j)
    <3>1. \A l \in 1 .. Exchanges - 1 : served % Len(route) = m + l => Stage(t, l)
      BY <1>1 DEF SupplyInv, StagesRight
    <3> HIDE DEF j, t
    <3> QED
      BY <1>6, <2>1, <3>1
  <2>3. LoadOf(t) \in Amounts
    BY <1>1, StopsForAre
  <2>4. Midway(t, j)
    BY <1>1, <2>1, <2>2, <2>3 DEF Midway
  <2>5. UNCHANGED <<asked, hold, before>> /\ Exchanged(t, Deal(LoadOf(t), j + 1))
    BY <1>1, <1>7, <1>9
  <2> HIDE DEF j, t
  <2>6. Stage(t, j + 1)'
    BY <1>6, <2>4, <2>5, GoesOn
  <2> QED
    BY <1>6, <2>6 DEF t
<1> QED
  BY <1>6, <1>8, <1>9

\* No step disturbs an exchange.
LEMMA ExchangesStayRight == SupplyInv /\ [RouteNext]_routeVars => SupplyInv'
<1> SUFFICES ASSUME SupplyInv, [RouteNext]_routeVars PROVE SupplyInv'
  OBVIOUS
<1>1. SupplyRight'
  BY SupplyStaysRight DEF SupplyInv
<1>2. ASSUME NEW k \in RouteKinds, NEW alt \in BOOLEAN, NEW days \in Laps, NEW h \in Holds, NEW stocks \in Stocks,
             on_route_hotkey(k, alt, days, h, stocks)
      PROVE  StagesRight'
  <2>1. served' = 0
    BY <1>2 DEF on_route_hotkey, SupplyInv, SupplyRight
  <2>2. route' \in Seq(AllStops)
    BY <1>1 DEF SupplyRight
  <2> SUFFICES ASSUME route' # <<>>, NEW m \in 1 .. Len(route'), NEW j \in 1 .. (Exchanges - 1)', 0 % Len(route') = m + j
               PROVE  FALSE
    BY <2>1 DEF StagesRight
  <2> DEFINE L == Len(route')
             z == 0 % L
  <2>3. L \in Nat \ {0} /\ m \in Nat \ {0} /\ j \in Nat
    BY <2>2 DEF Exchanges
  <2>4. z = 0
    <3> HIDE DEF L
    <3> QED
      BY <2>3
  <2> HIDE DEF L, z
  <2> QED
    BY <2>3, <2>4 DEF L, z
<1>3. ASSUME Serve PROVE StagesRight'
  BY <1>3, ExchangesGoOn
<1>4. ASSUME UNCHANGED routeVars PROVE StagesRight'
  <2>1. UNCHANGED <<asked, route, hold, served, cargo, supplies, before>>
    BY <1>4 DEF routeVars
  <2>2. ASSUME NEW t, NEW j, Stage(t, j) PROVE Stage(t, j)'
    <3>1. /\ LoadOf(t)' = LoadOf(t) /\ Room(t, LoadOf(t))' = Room(t, LoadOf(t))
          /\ \A w \in Wares : BothOf(t, w)' = BothOf(t, w) /\ Aboard(t, j, w)' = Aboard(t, j, w)
      BY <2>1, WishesStay
    <3> QED
      BY <2>1, <2>2, <3>1 DEF Stage
  <2>3. Exchanges' = Exchanges /\ \A i : StopsFor(i)' = StopsFor(i)
    BY <2>1 DEF Exchanges, StopsFor
  <2> QED
    BY <2>1, <2>2, <2>3 DEF SupplyInv, StagesRight
<1>5. StagesRight'
  BY <1>2, <1>3, <1>4 DEF RouteNext
<1> QED
  BY <1>1, <1>5 DEF SupplyInv

\* Leaving a target with an office ends the exchange there.
LEMMA LeavingEnds ==
    ASSUME SupplyInv, [RouteNext]_routeVars, served' # served,
           NEW t, t = Stop(served).town, NEW load, load = LoadOf(t),
           asked.kind \in Exchanging, t \in HasOffice \ {HomeTown}, Stop(served + 1).town # t
    PROVE  /\ \A w \in Wares : load[w] = 0 /\ supplies'[t][w] > 0 => TotalOf(cargo') = hold
           /\ Room(t, load) <= hold => \A w \in Wares : load[w] # 0 =>
                  supplies'[t][w] = Least(load[w], before.cargo[w] + before.supplies[t][w])
<1>1. Serve
  <2>1. ~UNCHANGED routeVars
    BY DEF routeVars
  <2>2. ~(\E k \in RouteKinds, alt \in BOOLEAN, days \in Laps, h \in Holds :
             \E stocks \in Stocks : on_route_hotkey(k, alt, days, h, stocks))
    BY DEF on_route_hotkey
  <2> QED
    BY <2>1, <2>2 DEF RouteNext
<1>2. SupplyRight /\ route # <<>> /\ served \in Nat /\ route \in Seq(AllStops)
  BY <1>1, ServedIs DEF SupplyInv, SupplyRight
<1> DEFINE L == Len(route)
           r == served % L
<1>3. L \in Nat \ {0}
  BY <1>2
<1>4. r \in 0 .. L - 1
  <2> HIDE DEF L
  <2> QED
    BY <1>2, <1>3
<1>5. r + 1 \in 1 .. L /\ route[r + 1].town = t
  <2>1. r + 1 \in 1 .. L
    <3> HIDE DEF L, r
    <3> QED
      BY <1>3, <1>4
  <2> QED
    BY <2>1 DEF Stop
<1>6. PICK i \in 1 .. Len(Targets), m \in 1 .. L :
         r + 1 \in m + 1 .. m + Len(StopsFor(i)) /\ Within(route, m, StopsFor(i), Targets[i])
  <2>1. Framed(route, Middles(asked.kind, asked.alt, asked.days))
    BY <1>2 DEF SupplyRight, Exchanging
  <2>2. t # HomeTown
    OBVIOUS
  <2> QED
    BY <1>5, <2>1, <2>2 DEF Framed, StopsFor
<1> DEFINE b == StopsFor(i)
           j == r - m
<1>7. t = Targets[i]
  <2>1. /\ \A n \in 1 .. Len(b) : route[m + n] = b[n]
    BY <1>6 DEF Within, StopsAfter
  <2>2. j + 1 \in 1 .. Len(b) /\ m + (j + 1) = r + 1
    <3>1. Len(b) \in Nat
      <4>1. i \in DOMAIN Targets /\ Targets[i] \in Range(Targets) /\ asked.kind \in RouteKinds /\ asked.days \in Nat
        BY <1>2, TargetsAre DEF SupplyRight
      <4>2. Visits(b, Targets[i])
        BY <4>1, MiddleVisits DEF StopsFor, Middles
      <4> HIDE DEF b
      <4> QED
        BY <4>2 DEF Visits
    <3> DEFINE B == Len(b)
    <3> HIDE DEF L, r
    <3>2. r + 1 \in m + 1 .. m + B
      BY <1>6
    <3> HIDE DEF B, b
    <3> QED
      BY <1>3, <1>4, <3>1, <3>2 DEF B
  <2>3. b[j + 1].town = Targets[i]
    <3>1. i \in DOMAIN Targets /\ Targets[i] \in Range(Targets) /\ asked.kind \in RouteKinds /\ asked.days \in Nat
      BY <1>2, TargetsAre DEF SupplyRight
    <3>2. Visits(b, Targets[i])
      BY <3>1, MiddleVisits DEF StopsFor, Middles
    <3> HIDE DEF b, j
    <3> QED
      BY <2>2, <3>2 DEF Visits
  <2>4. route[m + (j + 1)] = b[j + 1]
    <3> HIDE DEF b, j
    <3> QED
      BY <2>1, <2>2
  <2> QED
    BY <1>5, <2>2, <2>3, <2>4
<1>8. /\ Targets[i] \in HasOffice /\ Len(b) = Exchanges /\ Exchanges \in Nat /\ LoadOf(t) \in Amounts
  <2>1. Targets[i] \in HasOffice
    BY <1>7
  <2> QED
    BY <1>2, <1>7, <2>1, StopsForAre
<1>9. j \in 0 .. Exchanges - 1 /\ r = m + j
  <2>1. r + 1 \in m + 1 .. m + Exchanges
    BY <1>6, <1>8
  <2> HIDE DEF L, r, b
  <2> QED
    BY <1>3, <1>4, <1>8, <2>1
<1>10. /\ j > 0 => before' = before /\ Exchanged(t, Deal(LoadOf(t), j + 1))
       /\ j + 1 < Exchanges => Stop(served + 1).town = t
  <2> HIDE DEF j
  <2> QED
    BY <1>1, <1>2, <1>6, <1>7, <1>8, <1>9, TargetIsServed
<1>11. j + 1 = Exchanges /\ j > 0 /\ j \in 1 .. Exchanges - 1
  <2>1. Exchanges \in {3, 4}
    BY DEF Exchanges
  <2> HIDE DEF j
  <2> QED
    BY <1>9, <1>10, <2>1
<1>12. Stage(t, j)
  <2>1. \A l \in 1 .. Exchanges - 1 : served % Len(route) = m + l => Stage(t, l)
    BY <1>2, <1>6, <1>7, <1>8 DEF SupplyInv, StagesRight
  <2> HIDE DEF j
  <2> QED
    BY <1>9, <1>11, <2>1
<1>13. Midway(t, j)
  BY <1>2, <1>8, <1>11, <1>12 DEF Midway
<1> HIDE DEF j
<1> QED
  BY <1>10, <1>11, <1>13, EndsWell

\* When the ship leaves a target with an office that it served with the five or the six
\* stops, the office holds exactly the basket of every ware supplied, or all there was, if
\* the exchange had the room it takes; and a ware not supplied is left only by a full ship.
\* For any wares, targets, stocks, ships, offers, laps and stops served.
THEOREM TargetsAreReset == RouteSpec => TargetIsReset
<1>1. SupplyInv /\ [RouteNext]_routeVars =>
        [served' # served =>
           LET t == Stop(served).town
               load == town_supply_basket(t, asked.alt, asked.days)
           IN  /\ asked.kind \in {"FiveStop", "SixStop"}
               /\ t \in HasOffice \ {HomeTown}
               /\ Stop(served + 1).town # t
               => /\ \A w \in Wares : load[w] = 0 /\ supplies'[t][w] > 0 => TotalOf(cargo') = hold
                  /\ Room(t, load) <= hold => \A w \in Wares : load[w] # 0 =>
                         supplies'[t][w] = Least(load[w], before.cargo[w] + before.supplies[t][w])]_routeVars
  BY LeavingEnds DEF LoadOf, Exchanging
<1> QED
  BY ExchangesBegin, ExchangesStayRight, <1>1, PTL DEF RouteSpec, TargetIsReset
==============================================================================
