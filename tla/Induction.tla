------------------------------- MODULE Induction -------------------------------
(***************************************************************************)
(* Induction over the natural numbers without an operator for what is      *)
(* proved: for sets of numbers, from the well-foundedness of the finite    *)
(* sets of them; what it says of functions that loops define; sums over a  *)
(* finite set; and finite sets put in a row.                               *)
(***************************************************************************)
EXTENDS Integers, SequencesExt, FiniteSetTheorems, TLAPS

\* Every set of natural numbers that is not empty has a least element.
LEMMA LeastNatural ==
    ASSUME NEW T \in SUBSET Nat, T # {}
    PROVE  \E n \in T : \A m \in T : n <= m
<1> DEFINE R == StrictSubsetOrdering(Nat)
           F == FiniteSubsetsOf(Nat)
           Downs == {0 .. n : n \in T}
<1>1. IsWellFoundedOn(R, F)
  BY FS_StrictSubsetOrderingWellFounded
<1>2. Downs \subseteq F
  <2> SUFFICES ASSUME NEW n \in T PROVE 0 .. n \in F
    OBVIOUS
  <2>1. IsFiniteSet(0 .. n)
    BY FS_Interval
  <2> QED
    BY <2>1 DEF FiniteSubsetsOf
<1>3. Downs # {}
  OBVIOUS
<1> HIDE DEF R, F
<1>4. PICK x \in Downs : \A y \in Downs : ~(<<y, x>> \in R)
  BY <1>1, <1>2, <1>3, WFMin
<1>5. PICK n \in T : x = 0 .. n
  BY <1>4
<1>6. ASSUME NEW m \in T, m < n
      PROVE FALSE
  <2>1. 0 .. m \in Downs /\ 0 .. m \subseteq 0 .. n /\ 0 .. m # 0 .. n
    <3>1. n \in 0 .. n /\ n \notin 0 .. m
      BY <1>6
    <3> QED BY <1>6, <3>1
  <2>2. <<0 .. m, 0 .. n>> \in R
    BY <2>1 DEF R, StrictSubsetOrdering
  <2> QED
    BY <1>4, <1>5, <2>1, <2>2
<1> QED
  BY <1>5, <1>6

\* A set that has 0 and with a number the next one has them all.
LEMMA SetInduction ==
    ASSUME NEW T, 0 \in T, \A n \in Nat : n \in T => n + 1 \in T
    PROVE  \A n \in Nat : n \in T
<1> SUFFICES ASSUME NEW b \in Nat \ T PROVE FALSE
  OBVIOUS
<1>1. PICK n \in Nat \ T : \A m \in Nat \ T : n <= m
  <2> DEFINE Out == Nat \ T
  <2>1. Out \in SUBSET Nat /\ Out # {}
    OBVIOUS
  <2> HIDE DEF Out
  <2>2. \E n \in Out : \A m \in Out : n <= m
    BY <2>1, LeastNatural
  <2> QED
    BY <2>2 DEF Out
<1>2. n # 0 /\ n - 1 \in Nat /\ n - 1 + 1 = n
  OBVIOUS
<1>3. n - 1 \in T
  BY <1>1, <1>2
<1> QED
  BY <1>2, <1>3

\* A set that has a number and with one below b the next has them all up to b.
LEMMA IntervalInduction ==
    ASSUME NEW a \in Nat, NEW b \in Nat, NEW T, a \in T, \A n \in a .. b - 1 : n \in T => n + 1 \in T
    PROVE  \A n \in a .. b : n \in T
<1> DEFINE U == {n \in Nat : a + n <= b => a + n \in T}
<1>1. 0 \in U
  OBVIOUS
<1>2. ASSUME NEW n \in Nat, n \in U PROVE n + 1 \in U
  <2> SUFFICES ASSUME a + (n + 1) <= b PROVE a + (n + 1) \in T
    OBVIOUS
  <2>1. a + n \in a .. b - 1 /\ a + n \in T /\ (a + n) + 1 = a + (n + 1)
    BY <1>2
  <2> QED
    BY <2>1
<1> HIDE DEF U
<1>3. \A n \in Nat : n \in U
  BY <1>1, <1>2, SetInduction
<1> SUFFICES ASSUME NEW n \in a .. b PROVE n \in T
  OBVIOUS
<1>4. n - a \in Nat /\ a + (n - a) = n /\ a + (n - a) <= b
  OBVIOUS
<1>5. n - a \in U
  BY <1>3, <1>4
<1> QED
  BY <1>4, <1>5 DEF U

\* f is what N steps make of base, one after the other, and stays in D.
HandsOn(f, D, base, N, step) ==
    f \in [0 .. N -> D] /\ f[0] = base /\ \A n \in 1 .. N : f[n] = step[<<n, f[n - 1]>>]

\* What is handed from step to step, from a member of D to a member of D, is a function.
LEMMA Recursion ==
    ASSUME NEW D, NEW base, NEW N, NEW step,
           base \in D, N \in Nat, step \in [(1 .. N) \X D -> D]
    PROVE  \E f : HandsOn(f, D, base, N, step)
<1> SUFFICES \E f \in [0 .. N -> D] : f[0] = base /\ \A n \in 1 .. N : f[n] = step[<<n, f[n - 1]>>]
  BY DEF HandsOn
<1> DEFINE Upto(m) == \E f \in [0 .. m -> D] : f[0] = base /\ \A n \in 1 .. m : f[n] = step[<<n, f[n - 1]>>]
           T == {m \in Nat : m <= N => Upto(m)}
<1>1. 0 \in T
  <2>1. [n \in 0 .. 0 |-> base] \in [0 .. 0 -> D] /\ [n \in 0 .. 0 |-> base][0] = base
    OBVIOUS
  <2>2. \A n \in 1 .. 0 : FALSE
    OBVIOUS
  <2> QED
    BY <2>1, <2>2
<1>2. ASSUME NEW m \in Nat, m \in T PROVE m + 1 \in T
  <2> SUFFICES ASSUME m + 1 <= N PROVE Upto(m + 1)
    OBVIOUS
  <2>1. PICK f \in [0 .. m -> D] : f[0] = base /\ \A n \in 1 .. m : f[n] = step[<<n, f[n - 1]>>]
    BY <1>2
  <2> DEFINE last == step[<<m + 1, f[m]>>]
             g == [n \in 0 .. m + 1 |-> IF n = m + 1 THEN last ELSE f[n]]
  <2>2. last \in D
    <3>1. f[m] \in D /\ m + 1 \in 1 .. N
      BY <2>1
    <3> QED
      BY <3>1
  <2>3. g \in [0 .. m + 1 -> D] /\ g[m + 1] = last /\ \A n \in 0 .. m : g[n] = f[n]
    <3>1. \A n \in 0 .. m + 1 : n # m + 1 => n \in 0 .. m
      OBVIOUS
    <3>2. \A n \in 0 .. m : n # m + 1 /\ n \in 0 .. m + 1
      OBVIOUS
    <3>3. m + 1 \in 0 .. m + 1
      OBVIOUS
    <3> HIDE DEF last
    <3> QED
      BY <2>1, <2>2, <3>1, <3>2, <3>3
  <2> HIDE DEF g
  <2>4. g[0] = base
    <3>1. 0 \in 0 .. m
      OBVIOUS
    <3> QED
      BY <2>1, <2>3, <3>1
  <2>5. ASSUME NEW n \in 1 .. m + 1 PROVE g[n] = step[<<n, g[n - 1]>>]
    <3>1. n - 1 \in 0 .. m
      OBVIOUS
    <3>2. CASE n = m + 1
      <4>1. n - 1 = m
        BY <3>2
      <4> QED
        BY <2>3, <3>1, <3>2, <4>1
    <3>3. CASE n # m + 1
      <4>1. n \in 1 .. m /\ n \in 0 .. m
        BY <3>3
      <4> QED
        BY <2>1, <2>3, <3>1, <4>1
    <3> QED
      BY <3>2, <3>3
  <2> QED
    BY <2>3, <2>4, <2>5
<1> HIDE DEF T
<1>3. N \in T
  BY <1>1, <1>2, SetInduction
<1> QED
  BY <1>3 DEF T

-----------------------------------------------------------------------------
(* Sums over finite sets, which take one member out after another.        *)

\* The sum of a function over a set.
SumOf(f, S) == MapThenSumSet(LAMBDA x : f[x], S)

\* h sums f over the subsets of S, one member after another.
Sums(h, f, S) ==
    /\ h \in [SUBSET S -> Nat]
    /\ h[{}] = 0
    /\ \A s \in SUBSET S : s # {} =>
          \E x \in s : x = (CHOOSE y \in s : TRUE) /\ h[s] = f[x] + h[s \ {x}]

\* A set of subsets that has every one whose members, any one left out, it has.
LEMMA BySize ==
    ASSUME NEW S, IsFiniteSet(S), NEW T,
           \A s \in SUBSET S : (\A x \in s : s \ {x} \in T) => s \in T
    PROVE  \A s \in SUBSET S : s \in T
<1> DEFINE U == {n \in Nat : \A s \in SUBSET S : Cardinality(s) <= n => s \in T}
<1>1. \A s \in SUBSET S : IsFiniteSet(s) /\ Cardinality(s) \in Nat
  BY FS_Subset, FS_CardinalityType
<1>2. 0 \in U
  <2> SUFFICES ASSUME NEW s \in SUBSET S, Cardinality(s) <= 0 PROVE s \in T
    OBVIOUS
  <2>1. s = {}
    BY <1>1, FS_EmptySet
  <2> QED
    BY <2>1
<1>3. ASSUME NEW n \in Nat, n \in U PROVE n + 1 \in U
  <2> SUFFICES ASSUME NEW s \in SUBSET S, Cardinality(s) <= n + 1 PROVE s \in T
    OBVIOUS
  <2>1. ASSUME NEW x \in s PROVE s \ {x} \in T
    <3>1. Cardinality(s \ {x}) = Cardinality(s) - 1 /\ s \ {x} \in SUBSET S
      BY <1>1, FS_RemoveElement
    <3>2. Cardinality(s \ {x}) <= n
      BY <1>1, <3>1
    <3> QED
      BY <1>3, <3>1, <3>2
  <2> QED
    BY <2>1
<1> HIDE DEF U
<1>4. \A n \in Nat : n \in U
  BY <1>2, <1>3, SetInduction
<1> QED
  BY <1>1, <1>4 DEF U

\* There is such a function, and the sum is its value for the whole set.
LEMMA SumExists ==
    ASSUME NEW S, IsFiniteSet(S), NEW f \in [S -> Nat]
    PROVE  \E h : Sums(h, f, S) /\ SumOf(f, S) = h[S]
<1> DEFINE first(s) == CHOOSE x \in s : TRUE
           iter == CHOOSE g : g = [s \in SUBSET S |-> IF s = {} THEN 0 ELSE f[first(s)] + g[s \ {first(s)}]]
           Small(n) == {s \in SUBSET S : Cardinality(s) <= n}
           Good(g, n) == /\ g \in [Small(n) -> Nat]
                         /\ \A s \in Small(n) : g[s] = IF s = {} THEN 0 ELSE f[first(s)] + g[s \ {first(s)}]
           T == {n \in Nat : \E g : Good(g, n)}
<1>1. \A s \in SUBSET S : IsFiniteSet(s) /\ Cardinality(s) \in Nat
  BY FS_Subset, FS_CardinalityType
<1>2. \A s : s # {} => first(s) \in s
  OBVIOUS
<1>3. SumOf(f, S) = iter[S]
  BY DEF SumOf, MapThenSumSet, MapThenFoldSet
<1> HIDE DEF first, iter
<1>4. \A s \in SUBSET S : s # {} => s \ {first(s)} \in SUBSET S /\ Cardinality(s \ {first(s)}) = Cardinality(s) - 1
                                   /\ f[first(s)] \in Nat
  <2> SUFFICES ASSUME NEW s \in SUBSET S, s # {}
               PROVE  s \ {first(s)} \in SUBSET S /\ Cardinality(s \ {first(s)}) = Cardinality(s) - 1 /\ f[first(s)] \in Nat
    OBVIOUS
  <2>1. first(s) \in s /\ first(s) \in S
    BY <1>2
  <2> QED
    BY <1>1, <2>1, FS_RemoveElement
<1>5. \A s \in SUBSET S : Cardinality(s) = 0 <=> s = {}
  BY <1>1, FS_EmptySet
<1>6. 0 \in T
  <2> DEFINE g == [s \in Small(0) |-> 0]
  <2>1. \A s \in Small(0) : s = {}
    BY <1>1, <1>5
  <2>2. Good(g, 0)
    BY <2>1
  <2> HIDE DEF Good, g
  <2> QED
    BY <2>2
<1>7. ASSUME NEW n \in Nat, n \in T PROVE n + 1 \in T
  <2> DEFINE m == n + 1
  <2>1. PICK g : Good(g, n)
    BY <1>7
  <2> DEFINE val(s) == IF s = {} THEN 0 ELSE f[first(s)] + g[s \ {first(s)}]
             h == [s \in Small(m) |-> val(s)]
  <2>2. m \in Nat /\ \A k \in Nat : (k <= n => k <= m) /\ (k <= m => k - 1 <= n)
    OBVIOUS
  <2> HIDE DEF m
  <2>3. \A s \in Small(m) : s # {} => s \ {first(s)} \in Small(n) /\ s \ {first(s)} \in Small(m)
    <3> SUFFICES ASSUME NEW s \in Small(m), s # {}
                 PROVE  s \ {first(s)} \in Small(n) /\ s \ {first(s)} \in Small(m)
      OBVIOUS
    <3>1. s \ {first(s)} \in SUBSET S /\ Cardinality(s \ {first(s)}) <= n
      BY <1>1, <1>4, <2>2
    <3>2. Cardinality(s \ {first(s)}) <= m
      BY <1>1, <2>2, <3>1
    <3> QED
      BY <3>1, <3>2
  <2>4. \A s \in Small(n) : g[s] \in Nat /\ g[s] = val(s)
    BY <2>1
  <2>5. \A s \in Small(m) : val(s) \in Nat
    <3> SUFFICES ASSUME NEW s \in Small(m) PROVE val(s) \in Nat
      OBVIOUS
    <3>1. CASE s = {}
      BY <3>1
    <3>2. CASE s # {}
      <4>1. g[s \ {first(s)}] \in Nat /\ f[first(s)] \in Nat
        BY <1>4, <2>3, <2>4, <3>2
      <4> QED
        BY <3>2, <4>1
    <3> QED
      BY <3>1, <3>2
  <2>6. \A s \in Small(n) : s \in Small(m)
    BY <1>1, <2>2
  <2> HIDE DEF Small
  <2>7. \A s \in Small(m) : s # {} => h[s \ {first(s)}] = g[s \ {first(s)}]
    <3> SUFFICES ASSUME NEW s \in Small(m), s # {} PROVE h[s \ {first(s)}] = g[s \ {first(s)}]
      OBVIOUS
    <3> DEFINE t == s \ {first(s)}
    <3>1. t \in Small(n) /\ t \in Small(m)
      BY <2>3
    <3> HIDE DEF t, val
    <3>2. h[t] = g[t]
      BY <2>4, <3>1
    <3> QED
      BY <3>2 DEF t
  <2>8. Good(h, m)
    <3>1. h \in [Small(m) -> Nat]
      BY <2>5
    <3>2. \A s \in Small(m) : h[s] = IF s = {} THEN 0 ELSE f[first(s)] + h[s \ {first(s)}]
      BY <2>7
    <3> HIDE DEF h
    <3> QED
      BY <3>1, <3>2
  <2> HIDE DEF Good, h
  <2> QED
    BY <2>2, <2>8 DEF m
<1> HIDE DEF T
<1>8. \A n \in Nat : n \in T
  BY <1>6, <1>7, SetInduction
<1>9. PICK g : Good(g, Cardinality(S))
  BY <1>1, <1>8 DEF T
<1>10. Small(Cardinality(S)) = SUBSET S
  BY FS_Subset
<1>11. g = [s \in SUBSET S |-> IF s = {} THEN 0 ELSE f[first(s)] + g[s \ {first(s)}]] /\ g \in [SUBSET S -> Nat]
  BY <1>9, <1>10
<1>12. iter = [s \in SUBSET S |-> IF s = {} THEN 0 ELSE f[first(s)] + iter[s \ {first(s)}]]
  BY <1>11 DEF iter
<1> HIDE DEF Good
<1> DEFINE W == {s \in SUBSET S : iter[s] = g[s]}
<1>13. {} \in W
  <2>1. {} \in SUBSET S
    OBVIOUS
  <2> QED
    BY <1>11, <1>12, <2>1
<1>14. ASSUME NEW s \in SUBSET S, \A x \in s : s \ {x} \in W PROVE s \in W
  <2>1. CASE s = {}
    BY <1>13, <2>1
  <2>2. CASE s # {}
    <3> DEFINE t == s \ {first(s)}
    <3>1. t \in W
      BY <1>2, <1>14, <2>2
    <3>2. iter[t] = g[t]
      BY <3>1
    <3>3. iter[s] = f[first(s)] + iter[t] /\ g[s] = f[first(s)] + g[t]
      BY <1>11, <1>12, <2>2
    <3> QED
      BY <3>2, <3>3
  <2> QED
    BY <2>1, <2>2
<1> HIDE DEF W
<1>15. \A s \in SUBSET S : s \in W
  BY <1>14, BySize
<1>16. iter[S] = g[S]
  BY <1>15 DEF W
<1>17. Sums(g, f, S)
  <2>1. g[{}] = 0
    <3>1. {} \in SUBSET S
      OBVIOUS
    <3> QED
      BY <1>11, <3>1
  <2>2. ASSUME NEW s \in SUBSET S, s # {}
        PROVE  \E x \in s : x = (CHOOSE y \in s : TRUE) /\ g[s] = f[x] + g[s \ {x}]
    BY <1>2, <1>11, <2>2 DEF first
  <2> QED
    BY <1>11, <2>1, <2>2 DEF Sums
<1> QED
  BY <1>3, <1>16, <1>17

\* A sum of numbers is one.
LEMMA SumIsNat ==
    ASSUME NEW S, IsFiniteSet(S), NEW f \in [S -> Nat]
    PROVE  SumOf(f, S) \in Nat
<1>1. PICK h : Sums(h, f, S) /\ SumOf(f, S) = h[S]
  BY SumExists
<1> QED
  BY <1>1 DEF Sums

\* A sum of nothing but zeros.
LEMMA SumOfZeros ==
    ASSUME NEW S, IsFiniteSet(S), NEW f \in [S -> Nat], \A x \in S : f[x] = 0
    PROVE  SumOf(f, S) = 0
<1>1. PICK h : Sums(h, f, S) /\ SumOf(f, S) = h[S]
  BY SumExists
<1> DEFINE T == {s \in SUBSET S : h[s] = 0}
<1>2. {} \in T
  BY <1>1 DEF Sums
<1>3. ASSUME NEW s \in SUBSET S, \A x \in s : s \ {x} \in T PROVE s \in T
  <2>1. CASE s = {}
    BY <1>2, <2>1
  <2>2. CASE s # {}
    <3>1. PICK x \in s : h[s] = f[x] + h[s \ {x}]
      BY <1>1, <2>2 DEF Sums
    <3>2. h[s \ {x}] = 0 /\ f[x] = 0
      BY <1>3
    <3> QED
      BY <3>1, <3>2
  <2> QED
    BY <2>1, <2>2
<1> HIDE DEF T
<1>4. \A s \in SUBSET S : s \in T
  BY <1>3, BySize
<1> QED
  BY <1>1, <1>4 DEF T

\* An f and a g that differ at one place have sums that differ as their values there.
LEMMA SumOfOneChange ==
    ASSUME NEW S, IsFiniteSet(S), NEW f \in [S -> Nat], NEW g \in [S -> Nat],
           NEW a \in S, \A x \in S : x # a => g[x] = f[x]
    PROVE  /\ SumOf(f, S) \in Nat /\ SumOf(g, S) \in Nat
           /\ SumOf(g, S) + f[a] = SumOf(f, S) + g[a]
<1>1. PICK h : Sums(h, f, S) /\ SumOf(f, S) = h[S]
  BY SumExists
<1>2. PICK j : Sums(j, g, S) /\ SumOf(g, S) = j[S]
  BY SumExists
<1> DEFINE fa == f[a]
           ga == g[a]
           T == {s \in SUBSET S : IF a \in s THEN j[s] + fa = h[s] + ga ELSE j[s] = h[s]}
<1>3. {} \in T
  <2>1. {} \in SUBSET S /\ j[{}] = 0 /\ h[{}] = 0 /\ a \notin {}
    BY <1>1, <1>2 DEF Sums
  <2> QED
    BY <2>1
<1>types. fa \in Nat /\ ga \in Nat
  OBVIOUS
<1>4. ASSUME NEW s \in SUBSET S, \A x \in s : s \ {x} \in T PROVE s \in T
  <2>1. CASE s = {}
    BY <1>3, <2>1
  <2>2. CASE s # {}
    <3>1. PICK x \in s : x = (CHOOSE y \in s : TRUE) /\ h[s] = f[x] + h[s \ {x}]
      BY <1>1, <2>2 DEF Sums
    <3>2. j[s] = g[x] + j[s \ {x}]
      BY <1>2, <2>2, <3>1 DEF Sums
    <3> DEFINE t == s \ {x}
               fx == f[x]
               gx == g[x]
    <3>3. t \in SUBSET S /\ h[t] \in Nat /\ fx \in Nat /\ gx \in Nat /\ j[t] \in Nat
      BY <1>1, <1>2 DEF Sums
    <3>4. t \in T
      BY <1>4
    <3>5. CASE x = a
      <4>1. a \notin t /\ a \in s /\ fx = fa /\ gx = ga
        BY <3>5
      <4>2. j[t] = h[t]
        BY <3>4, <4>1
      <4> HIDE DEF t, fx, gx, fa, ga, T
      <4>3. h[s] = fx + h[t] /\ j[s] = gx + j[t]
        BY <3>1, <3>2 DEF t, fx, gx
      <4>4. j[s] + fa = h[s] + ga
        BY <1>types, <3>3, <4>1, <4>2, <4>3
      <4> QED
        BY <4>1, <4>4 DEF T
    <3>6. CASE x # a
      <4>1. (a \in t <=> a \in s) /\ gx = fx
        BY <3>6
      <4> HIDE DEF t, fx, gx, fa, ga
      <4>2. IF a \in s THEN j[t] + fa = h[t] + ga ELSE j[t] = h[t]
        BY <3>4, <4>1
      <4>3. h[s] = fx + h[t] /\ j[s] = gx + j[t]
        BY <3>1, <3>2 DEF t, fx, gx
      <4> HIDE DEF T
      <4>4. IF a \in s THEN j[s] + fa = h[s] + ga ELSE j[s] = h[s]
        BY <1>types, <3>3, <4>1, <4>2, <4>3
      <4> QED
        BY <4>4 DEF T
    <3> QED
      BY <3>5, <3>6
  <2> QED
    BY <2>1, <2>2
<1> HIDE DEF T
<1>5. \A s \in SUBSET S : s \in T
  BY <1>4, BySize
<1> HIDE DEF fa, ga
<1>6. j[S] + fa = h[S] + ga /\ j[S] \in Nat /\ h[S] \in Nat
  BY <1>1, <1>2, <1>5 DEF T, Sums
<1> QED
  BY <1>1, <1>2, <1>6 DEF fa, ga

\* One summand one larger makes the sum one larger.
LEMMA SumOfOneMore ==
    ASSUME NEW S, IsFiniteSet(S), NEW f \in [S -> Nat], NEW g \in [S -> Nat],
           NEW a \in S, g[a] = f[a] + 1, \A x \in S : x # a => g[x] = f[x]
    PROVE  SumOf(f, S) \in Nat /\ SumOf(g, S) = SumOf(f, S) + 1
<1> DEFINE F == SumOf(f, S)
           G == SumOf(g, S)
           fa == f[a]
           ga == g[a]
<1>1. F \in Nat /\ G \in Nat /\ G + fa = F + ga
  BY SumOfOneChange
<1>2. fa \in Nat /\ ga = fa + 1
  OBVIOUS
<1> HIDE DEF F, G, fa, ga
<1>3. G = F + 1
  BY <1>1, <1>2
<1> QED
  BY <1>1, <1>3 DEF F, G

\* A sum of two functions is the sum of their sums.
LEMMA SumAdds ==
    ASSUME NEW S, IsFiniteSet(S), NEW f \in [S -> Nat], NEW g \in [S -> Nat], NEW k \in [S -> Nat],
           \A x \in S : k[x] = f[x] + g[x]
    PROVE  SumOf(k, S) = SumOf(f, S) + SumOf(g, S)
<1>1. PICK a : Sums(a, f, S) /\ SumOf(f, S) = a[S]
  BY SumExists
<1>2. PICK b : Sums(b, g, S) /\ SumOf(g, S) = b[S]
  BY SumExists
<1>3. PICK c : Sums(c, k, S) /\ SumOf(k, S) = c[S]
  BY SumExists
<1> DEFINE T == {s \in SUBSET S : c[s] = a[s] + b[s]}
<1>4. {} \in T
  BY <1>1, <1>2, <1>3 DEF Sums
<1>5. ASSUME NEW s \in SUBSET S, \A x \in s : s \ {x} \in T PROVE s \in T
  <2>1. CASE s = {}
    BY <1>4, <2>1
  <2>2. CASE s # {}
    <3>1. PICK x \in s : x = (CHOOSE y \in s : TRUE) /\ c[s] = k[x] + c[s \ {x}]
      BY <1>3, <2>2 DEF Sums
    <3>2. a[s] = f[x] + a[s \ {x}] /\ b[s] = g[x] + b[s \ {x}]
      BY <1>1, <1>2, <2>2, <3>1 DEF Sums
    <3> DEFINE t == s \ {x}
               fx == f[x]
               gx == g[x]
               kx == k[x]
               at == a[t]
               bt == b[t]
               ct == c[t]
    <3>3. t \in SUBSET S /\ fx \in Nat /\ gx \in Nat /\ kx = fx + gx
      OBVIOUS
    <3>4. at \in Nat /\ bt \in Nat /\ ct = at + bt
      <4>1. a \in [SUBSET S -> Nat] /\ b \in [SUBSET S -> Nat]
        BY <1>1, <1>2 DEF Sums
      <4>2. t \in T
        BY <1>5
      <4> HIDE DEF t
      <4> QED
        BY <3>3, <4>1, <4>2
    <3>5. c[s] = kx + ct /\ a[s] = fx + at /\ b[s] = gx + bt
      BY <3>1, <3>2
    <3> HIDE DEF t, fx, gx, kx, at, bt, ct
    <3>6. c[s] = a[s] + b[s]
      BY <3>3, <3>4, <3>5
    <3> QED
      BY <3>6
  <2> QED
    BY <2>1, <2>2
<1> HIDE DEF T
<1>6. \A s \in SUBSET S : s \in T
  BY <1>5, BySize
<1> QED
  BY <1>1, <1>2, <1>3, <1>6 DEF T

\* No summand is more than the sum.
LEMMA SumOfMember ==
    ASSUME NEW S, IsFiniteSet(S), NEW f \in [S -> Nat], NEW a \in S
    PROVE  f[a] <= SumOf(f, S)
<1> DEFINE g == [f EXCEPT ![a] = 0]
           F == SumOf(f, S)
           G == SumOf(g, S)
           fa == f[a]
<1>1. g \in [S -> Nat] /\ g[a] = 0 /\ \A x \in S : x # a => g[x] = f[x]
  OBVIOUS
<1> HIDE DEF g
<1>2. F \in Nat /\ G \in Nat /\ G + fa = F + g[a]
  BY <1>1, SumOfOneChange
<1>3. fa \in Nat
  OBVIOUS
<1> HIDE DEF F, G, fa
<1>4. fa <= F
  BY <1>1, <1>2, <1>3
<1> QED
  BY <1>4 DEF F, fa

\* Larger summands, a larger sum.
LEMMA SumGrows ==
    ASSUME NEW S, IsFiniteSet(S), NEW f \in [S -> Nat], NEW k \in [S -> Nat], \A x \in S : f[x] <= k[x]
    PROVE  /\ SumOf(f, S) \in Nat /\ SumOf(k, S) \in Nat /\ SumOf(f, S) <= SumOf(k, S)
           /\ (\E a \in S : f[a] < k[a]) => SumOf(f, S) < SumOf(k, S)
<1> DEFINE g == [x \in S |-> k[x] - f[x]]
           F == SumOf(f, S)
           G == SumOf(g, S)
           K == SumOf(k, S)
<1>1. g \in [S -> Nat] /\ \A x \in S : g[x] = k[x] - f[x] /\ k[x] = f[x] + g[x]
  <2> SUFFICES ASSUME NEW x \in S PROVE k[x] - f[x] \in Nat /\ k[x] = f[x] + (k[x] - f[x])
    OBVIOUS
  <2>1. k[x] \in Nat /\ f[x] \in Nat /\ f[x] <= k[x]
    OBVIOUS
  <2> QED
    BY <2>1
<1> HIDE DEF g
<1>2. F \in Nat /\ G \in Nat /\ K \in Nat /\ K = F + G
  BY <1>1, SumAdds, SumIsNat
<1>3. ASSUME NEW a \in S, f[a] < k[a] PROVE G > 0
  <2>1. g[a] <= G
    BY <1>1, SumOfMember
  <2>2. f[a] \in Nat /\ k[a] \in Nat /\ g[a] = k[a] - f[a]
    BY <1>1
  <2> HIDE DEF G
  <2> QED
    BY <1>2, <1>3, <2>1, <2>2
<1> HIDE DEF F, G, K
<1>4. F <= K /\ (G > 0 => F < K)
  BY <1>2
<1> QED
  BY <1>2, <1>3, <1>4 DEF F, K

-----------------------------------------------------------------------------
(* Counting who is ahead puts a strict total order in a row.               *)

\* R puts any two of S in an order, one way only.
IsOrder(R, S) ==
    /\ \A a, b \in S : a # b => <<a, b>> \in R \/ <<b, a>> \in R
    /\ \A a, b \in S : <<a, b>> \in R => <<b, a>> \notin R
    /\ \A a, b, c \in S : <<a, b>> \in R /\ <<b, c>> \in R => <<a, c>> \in R

AheadOf(c, R, S) == {b \in S : <<b, c>> \in R}

\* o has the members of S one after the other as R has them.
InARow(o, R, S) ==
    /\ o \in [1 .. Cardinality(S) -> S]
    /\ \A c \in S : \E i \in 1 .. Cardinality(S) : o[i] = c
    /\ \A i, j \in 1 .. Cardinality(S) : i < j => <<o[i], o[j]>> \in R

\* Who has as many ahead of him as there are places before it has the place.
LEMMA RankIsAPlace ==
    ASSUME NEW S, IsFiniteSet(S), NEW R, IsOrder(R, S)
    PROVE  InARow([i \in 1 .. Cardinality(S) |-> CHOOSE c \in S : Cardinality(AheadOf(c, R, S)) = i - 1], R, S)
<1> DEFINE n == Cardinality(S)
           rank(c) == Cardinality(AheadOf(c, R, S))
           f == [c \in S |-> rank(c)]
           D == 0 .. n - 1
           o == [i \in 1 .. n |-> CHOOSE c \in S : rank(c) = i - 1]
<1>1. n \in Nat
  BY FS_CardinalityType
<1>2. \A c \in S : AheadOf(c, R, S) \in SUBSET S /\ c \notin AheadOf(c, R, S)
  BY DEF AheadOf, IsOrder
<1>3. \A c \in S : IsFiniteSet(AheadOf(c, R, S)) /\ rank(c) \in Nat
  BY <1>2, FS_Subset, FS_CardinalityType
<1>4. ASSUME NEW c \in S PROVE rank(c) \in D
  <2> DEFINE rest == S \ {c}
  <2>1. IsFiniteSet(rest) /\ Cardinality(rest) = n - 1
    BY FS_RemoveElement
  <2>2. AheadOf(c, R, S) \in SUBSET rest
    BY <1>2
  <2> HIDE DEF rest
  <2>3. rank(c) <= Cardinality(rest)
    BY <2>1, <2>2, FS_Subset
  <2>4. rank(c) \in Nat
    BY <1>3
  <2> HIDE DEF rank, n
  <2> QED
    BY <2>1, <2>3, <2>4, <1>1
<1>5. ASSUME NEW a \in S, NEW b \in S, <<a, b>> \in R PROVE rank(a) < rank(b)
  <2> DEFINE A == AheadOf(a, R, S)
             B == AheadOf(b, R, S)
  <2>1. A \cup {a} \in SUBSET B /\ a \notin A
    BY <1>2, <1>5 DEF AheadOf, IsOrder
  <2>2. IsFiniteSet(A) /\ IsFiniteSet(B) /\ Cardinality(A) \in Nat /\ Cardinality(B) \in Nat
    BY <1>3
  <2> HIDE DEF A, B
  <2>3. Cardinality(A \cup {a}) = Cardinality(A) + 1
    BY <2>1, <2>2, FS_AddElement
  <2>4. Cardinality(A \cup {a}) <= Cardinality(B)
    BY <2>1, <2>2, FS_Subset
  <2>5. Cardinality(A) < Cardinality(B)
    BY <2>2, <2>3, <2>4
  <2> QED
    BY <2>5 DEF A, B
<1> HIDE DEF rank, n
<1>6. \A a, b \in S : rank(a) = rank(b) => a = b
  <2> SUFFICES ASSUME NEW a \in S, NEW b \in S, rank(a) = rank(b), a # b PROVE FALSE
    OBVIOUS
  <2>1. rank(a) < rank(b) \/ rank(b) < rank(a)
    BY <1>5 DEF IsOrder
  <2>2. rank(a) \in Nat /\ rank(b) \in Nat
    BY <1>3
  <2> QED
    BY <2>1, <2>2
<1>7. IsFiniteSet(D) /\ Cardinality(D) = n
  <2>1. IsFiniteSet(D) /\ Cardinality(D) = IF 0 > n - 1 THEN 0 ELSE (n - 1) - 0 + 1
    BY <1>1, FS_Interval
  <2> QED
    BY <1>1, <2>1
<1>8. f \in Injection(S, D)
  BY <1>4, <1>6 DEF Injection, IsInjective
<1> HIDE DEF f
<1>9. f \in Surjection(S, D)
  <2> HIDE DEF D
  <2> QED
    BY <1>7, <1>8, FS_Injection DEF n
<1>10. \A k \in D : \E c \in S : rank(c) = k
  BY <1>9 DEF Surjection, f
<1>11. \A i \in 1 .. n : o[i] \in S /\ rank(o[i]) = i - 1
  <2> SUFFICES ASSUME NEW i \in 1 .. n PROVE o[i] \in S /\ rank(o[i]) = i - 1
    OBVIOUS
  <2>1. i - 1 \in D
    BY <1>1
  <2>2. \E c \in S : rank(c) = i - 1
    BY <1>10, <2>1
  <2> QED
    BY <2>2
<1>12. o \in [1 .. n -> S]
  BY <1>11
<1>13. \A c \in S : \E i \in 1 .. n : o[i] = c
  <2> SUFFICES ASSUME NEW c \in S PROVE \E i \in 1 .. n : o[i] = c
    OBVIOUS
  <2>1. rank(c) \in D
    BY <1>4
  <2> DEFINE i == rank(c) + 1
  <2>2. i \in 1 .. n /\ i - 1 = rank(c)
    BY <1>1, <2>1
  <2> HIDE DEF i, o
  <2>3. o[i] = c
    BY <1>6, <1>11, <2>2
  <2> QED
    BY <2>2, <2>3
<1> HIDE DEF o
<1>14. \A i, j \in 1 .. n : i < j => <<o[i], o[j]>> \in R
  <2> SUFFICES ASSUME NEW i \in 1 .. n, NEW j \in 1 .. n, i < j, <<o[i], o[j]>> \notin R PROVE FALSE
    OBVIOUS
  <2>1. o[i] \in S /\ o[j] \in S /\ rank(o[i]) = i - 1 /\ rank(o[j]) = j - 1
    BY <1>11
  <2>2. o[i] # o[j]
    BY <1>1, <2>1
  <2>3. <<o[j], o[i]>> \in R
    BY <2>1, <2>2 DEF IsOrder
  <2>4. rank(o[j]) < rank(o[i])
    BY <1>5, <2>1, <2>3
  <2> QED
    BY <1>1, <2>1, <2>4
<1> QED
  BY <1>12, <1>13, <1>14 DEF InARow, o, n, rank

-----------------------------------------------------------------------------
(* Sets as lists.                                                          *)

\* A finite set as a list has every member somewhere, and nothing else.
ListOf(list, S) == list \in Seq(S) /\ \A x \in S : \E i \in 1 .. Len(list) : list[i] = x

LEMMA SetToSeqIs ==
    ASSUME NEW S, IsFiniteSet(S)
    PROVE  ListOf(SetToSeq(S), S)
<1> DEFINE n == Cardinality(S)
           list == SetToSeq(S)
<1>1. n \in Nat /\ ExistsBijection(1 .. n, S)
  BY FS_CardinalityType
<1>2. \E f \in [1 .. n -> S] : IsInjective(f)
  BY <1>1 DEF ExistsBijection, Bijection, Injection, IsInjective
<1>3. list \in [1 .. n -> S] /\ IsInjective(list)
  BY <1>2 DEF SetToSeq
<1> HIDE DEF list, n
<1>4. list \in Injection(1 .. n, S)
  BY <1>3 DEF Injection, IsInjective
<1>5. IsFiniteSet(1 .. n) /\ Cardinality(1 .. n) = n
  BY <1>1, FS_Interval
<1>6. list \in Surjection(1 .. n, S)
  BY <1>4, <1>5, FS_Injection DEF n
<1>7. list \in Seq(S) /\ Len(list) = n
  BY <1>1, <1>3
<1> QED
  BY <1>6, <1>7 DEF ListOf, Surjection, list
===============================================================================
