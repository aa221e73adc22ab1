------------------------------ MODULE RouteProofs ------------------------------
(***************************************************************************)
(* Proofs about RouteTemplates: for any towns, routes of any length and    *)
(* windows of any size, where the ship is makes no difference to what its  *)
(* route reads as, a route key pressed again sets the same route again, a  *)
(* generated name names the route it came with, and a clear leaves nothing *)
(* behind. The invariant follows the lemmas about the operators. And about *)
(* the agent in the game: where its shuttle stands and what a visit        *)
(* leaves, for any wares and amounts, and who holds its mutex and ends its *)
(* server, for any number of clients and starts.                           *)
(***************************************************************************)
EXTENDS HubRoutes, RemoteAgent, RouteTemplates, Induction, SequenceTheorems

-----------------------------------------------------------------------------
(* The operators: rotations.                                               *)

\* One stop of a route carries the marker, the m-th.
MarkedAt(c, m) == m \in DOMAIN c /\ \A i \in DOMAIN c : c[i].first = (i = m)

\* Where the k-th stop of a route read from p on is in the chain.
Place(n, p, k) == IF p + k - 1 <= n THEN p + k - 1 ELSE p + k - 1 - n

\* At which place the m-th stop of the chain is, read from h on.
Turn(n, h, m) == IF m >= h THEN m - h + 1 ELSE m - h + 1 + n

\* Places are stops of the chain.
LEMMA PlaceLands ==
    ASSUME NEW n \in Nat, NEW p \in 1 .. n, NEW k \in 1 .. n
    PROVE  Place(n, p, k) \in 1 .. n
BY DEF Place

\* The m-th stop is at its turn.
LEMMA TurnIs ==
    ASSUME NEW n \in Nat, NEW h \in 1 .. n, NEW m \in 1 .. n
    PROVE  Turn(n, h, m) \in 1 .. n /\ Place(n, h, Turn(n, h, m)) = m
BY DEF Place, Turn

\* And nowhere else.
LEMMA TurnIsTheOnly ==
    ASSUME NEW n \in Nat, NEW h \in 1 .. n, NEW m \in 1 .. n, NEW k \in 1 .. n
    PROVE  Place(n, h, k) = m => k = Turn(n, h, m)
BY DEF Place, Turn

\* Read from h on and then from the turn of m on is read from m on.
LEMMA TurnsAddUp ==
    ASSUME NEW n \in Nat, NEW h \in 1 .. n, NEW m \in 1 .. n, NEW k \in 1 .. n
    PROVE  Place(n, h, Place(n, Turn(n, h, m), k)) = Place(n, m, k)
BY DEF Place, Turn

\* A rotation has the stops of the chain from p on, and then the ones before p.
LEMMA RotationIs ==
    ASSUME NEW S, NEW s \in Seq(S), NEW p \in 1 .. Len(s)
    PROVE  /\ Rotated(s, p) \in Seq(S) /\ Len(Rotated(s, p)) = Len(s)
           /\ \A k \in 1 .. Len(s) : Rotated(s, p)[k] = s[Place(Len(s), p, k)]
<1> DEFINE front == SubSeq(s, p, Len(s))
           back == SubSeq(s, 1, p - 1)
           n == Len(s)
<1>1. n \in Nat /\ p \in 1 .. n /\ \A i \in 1 .. n : s[i] \in S
  OBVIOUS
<1>2. front \in Seq(S) /\ Len(front) = n - p + 1 /\ \A k \in 1 .. n - p + 1 : front[k] = s[p + k - 1]
  BY <1>1, SubSeqProperties
<1>3. back \in Seq(S) /\ Len(back) = p - 1 /\ \A k \in 1 .. p - 1 : back[k] = s[k]
  <2>1. \A i \in 1 .. p - 1 : s[i] \in S
    BY <1>1
  <2>2. /\ back \in Seq(S) /\ Len(back) = (IF 1 <= p - 1 THEN p - 1 - 1 + 1 ELSE 0)
        /\ \A k \in 1 .. p - 1 - 1 + 1 : back[k] = s[1 + k - 1]
    BY <1>1, <2>1, SubSeqProperties
  <2> QED
    BY <1>1, <2>2
<1> HIDE DEF front, back
<1> DEFINE whole == front \o back
<1>4. whole \in Seq(S) /\ Len(whole) = n /\ \A k \in 1 .. n : whole[k] = IF k <= n - p + 1 THEN front[k] ELSE back[k - (n - p + 1)]
  BY <1>1, <1>2, <1>3, ConcatProperties
<1> HIDE DEF whole
<1>5. \A k \in 1 .. n : whole[k] = s[Place(n, p, k)]
  <2> SUFFICES ASSUME NEW k \in 1 .. n PROVE whole[k] = s[Place(n, p, k)]
    OBVIOUS
  <2>1. CASE k <= n - p + 1
    BY <1>1, <1>2, <1>4, <2>1 DEF Place
  <2>2. CASE k > n - p + 1
    <3>1. k - (n - p + 1) \in 1 .. p - 1 /\ Place(n, p, k) = k - (n - p + 1)
      BY <1>1, <2>2 DEF Place
    <3> QED
      BY <1>1, <1>3, <1>4, <2>2, <3>1
  <2> QED
    BY <1>1, <2>1, <2>2
<1> QED
  BY <1>4, <1>5 DEF whole, front, back, Rotated

\* A route with one marker reads from it on, wherever the ship is headed.
LEMMA ReadsFromTheMarker ==
    ASSUME NEW c \in Seq(Stops), NEW m, MarkedAt(c, m), NEW h \in DOMAIN c
    PROVE  read_ship_route(c, h) = Rotated(c, m)
<1> DEFINE n == Len(c)
           walked == Rotated(c, h)
           marked == {i \in DOMAIN walked : walked[i].first}
           t == Turn(n, h, m)
<1>1. n \in Nat /\ h \in 1 .. n /\ m \in 1 .. n /\ DOMAIN c = 1 .. n
  BY DEF MarkedAt
<1>2. walked \in Seq(Stops) /\ Len(walked) = n /\ \A k \in 1 .. n : walked[k] = c[Place(n, h, k)]
  BY <1>1, RotationIs
<1>3. t \in 1 .. n /\ Place(n, h, t) = m
  BY <1>1, TurnIs
<1>4. \A k \in 1 .. n : Place(n, h, k) \in 1 .. n /\ (Place(n, h, k) = m => k = t)
  BY <1>1, PlaceLands, TurnIsTheOnly
<1> HIDE DEF walked, t
<1>5. marked = {t}
  <2>1. DOMAIN walked = 1 .. n
    BY <1>2
  <2>2. \A k \in 1 .. n : walked[k].first = (Place(n, h, k) = m)
    BY <1>1, <1>2, <1>4 DEF MarkedAt
  <2>3. \A k \in 1 .. n : walked[k].first <=> k = t
    BY <1>3, <1>4, <2>2
  <2> QED
    BY <1>3, <2>1, <2>3
<1>6. (CHOOSE k \in marked : \A j \in marked : k <= j) = t
  BY <1>1, <1>3, <1>5
<1>7. read_ship_route(c, h) = Rotated(walked, t)
  <2>1. c # << >>
    BY <1>1
  <2> HIDE DEF marked
  <2>2. marked # {}
    BY <1>5
  <2>3. read_ship_route(c, h) =
          IF c = << >> THEN << >>
          ELSE IF marked = {} THEN walked
          ELSE Rotated(walked, CHOOSE k \in marked : \A j \in marked : k <= j)
    BY DEF read_ship_route, walked, marked
  <2> QED
    BY <1>6, <2>1, <2>2, <2>3
<1>8. Rotated(walked, t) \in Seq(Stops) /\ Len(Rotated(walked, t)) = n
      /\ \A k \in 1 .. n : Rotated(walked, t)[k] = walked[Place(n, t, k)]
  BY <1>2, <1>3, RotationIs
<1>9. Rotated(c, m) \in Seq(Stops) /\ Len(Rotated(c, m)) = n
      /\ \A k \in 1 .. n : Rotated(c, m)[k] = c[Place(n, m, k)]
  BY <1>1, RotationIs
<1>10. \A k \in 1 .. n : Place(n, t, k) \in 1 .. n /\ Place(n, h, Place(n, t, k)) = Place(n, m, k)
  BY <1>1, <1>3, PlaceLands, TurnsAddUp DEF t
<1>11. \A k \in 1 .. n : Rotated(walked, t)[k] = Rotated(c, m)[k]
  <2> SUFFICES ASSUME NEW k \in 1 .. n PROVE Rotated(walked, t)[k] = Rotated(c, m)[k]
    OBVIOUS
  <2> DEFINE j == Place(n, t, k)
  <2>1. Rotated(walked, t)[k] = walked[j] /\ j \in 1 .. n /\ Place(n, h, j) = Place(n, m, k)
    BY <1>8, <1>10
  <2>2. walked[j] = c[Place(n, h, j)]
    BY <1>2, <2>1
  <2> QED
    BY <1>9, <2>1, <2>2
<1> QED
  BY <1>7, <1>8, <1>9, <1>11, SeqEqual

\* A route whose first stop carries the marker reads as it lies in the chain.
LEMMA ReadsAsItLies ==
    ASSUME NEW c \in Seq(Stops), MarkedAt(c, 1), NEW h \in DOMAIN c
    PROVE  read_ship_route(c, h) = c
<1>1. Len(c) \in Nat /\ 1 \in 1 .. Len(c)
  BY DEF MarkedAt
<1>2. read_ship_route(c, h) = Rotated(c, 1)
  BY ReadsFromTheMarker
<1>3. Rotated(c, 1) \in Seq(Stops) /\ Len(Rotated(c, 1)) = Len(c)
      /\ \A k \in 1 .. Len(c) : Rotated(c, 1)[k] = c[Place(Len(c), 1, k)]
  BY <1>1, RotationIs
<1>4. \A k \in 1 .. Len(c) : Place(Len(c), 1, k) = k
  BY <1>1 DEF Place
<1>5. \A k \in 1 .. Len(c) : Rotated(c, 1)[k] = c[k]
  BY <1>3, <1>4
<1> QED
  BY <1>2, <1>3, <1>5, SeqEqual

-----------------------------------------------------------------------------
(* The operators: removing a stop.                                         *)

\* Without its i-th stop a route keeps the others in their order, and one marker.
LEMMA RemovalKeeps ==
    ASSUME NEW c \in Seq(Stops), NEW m, MarkedAt(c, m), NEW i \in DOMAIN c
    PROVE  /\ Removed(c, i) \in Seq(Stops) /\ Len(Removed(c, i)) = Len(c) - 1
           /\ \A k \in 1 .. Len(c) - 1 : Removed(c, i)[k].rec = c[IF k < i THEN k ELSE k + 1].rec
           /\ Len(c) > 1 => \E l \in 1 .. Len(c) - 1 : MarkedAt(Removed(c, i), l)
<1> DEFINE n == Len(c)
           next == IF i = n THEN 1 ELSE i + 1
           handed == IF c[i].first THEN [c EXCEPT ![next].first = TRUE] ELSE c
           front == SubSeq(handed, 1, i - 1)
           back == SubSeq(handed, i + 1, n)
<1>1. n \in Nat /\ i \in 1 .. n /\ m \in 1 .. n /\ next \in 1 .. n /\ \A k \in 1 .. n : c[k] \in Stops
  BY DEF MarkedAt
<1>2. /\ handed \in Seq(Stops) /\ Len(handed) = n
      /\ \A k \in 1 .. n : handed[k] \in Stops /\ handed[k].rec = c[k].rec
      /\ \A k \in 1 .. n : handed[k].first = (k = m \/ (i = m /\ k = next))
  <2>1. CASE c[i].first
    <3>1. i = m /\ handed = [c EXCEPT ![next] = [c[next] EXCEPT !.first = TRUE]]
      BY <1>1, <2>1 DEF MarkedAt
    <3>2. [c[next] EXCEPT !.first = TRUE] \in Stops /\ [c[next] EXCEPT !.first = TRUE].rec = c[next].rec
      BY <1>1 DEF Stops
    <3>3. [c[next] EXCEPT !.first = TRUE].first = TRUE
      BY <1>1 DEF Stops
    <3> DEFINE e == [c[next] EXCEPT !.first = TRUE]
    <3> HIDE DEF e
    <3>4. handed = [c EXCEPT ![next] = e] /\ e \in Stops /\ e.rec = c[next].rec /\ e.first = TRUE
      BY <3>1, <3>2, <3>3 DEF e
    <3> HIDE DEF next, handed
    <3>5. handed \in Seq(Stops) /\ Len(handed) = n /\ \A k \in 1 .. n : handed[k] = IF k = next THEN e ELSE c[k]
      BY <1>1, <3>4, ExceptSeq
    <3>6. \A k \in 1 .. n : handed[k] \in Stops /\ handed[k].rec = c[k].rec
      BY <1>1, <3>4, <3>5
    <3>7. \A k \in 1 .. n : c[k].first = (k = m)
      BY <1>1 DEF MarkedAt
    <3>8. \A k \in 1 .. n : handed[k].first = (k = m \/ (i = m /\ k = next))
      <4> SUFFICES ASSUME NEW k \in 1 .. n PROVE handed[k].first = (k = m \/ (i = m /\ k = next))
        OBVIOUS
      <4>1. CASE k = next
        BY <3>1, <3>4, <3>5, <4>1
      <4>2. CASE k # next
        BY <3>5, <3>7, <4>2
      <4> QED
        BY <4>1, <4>2
    <3> QED
      BY <3>5, <3>6, <3>8
  <2>2. CASE ~c[i].first
    <3>1. handed = c /\ i # m
      BY <1>1, <2>2 DEF MarkedAt
    <3>2. \A k \in 1 .. n : c[k].first = (k = m)
      BY <1>1 DEF MarkedAt
    <3> HIDE DEF handed
    <3> QED
      BY <1>1, <3>1, <3>2
  <2> QED
    BY <2>1, <2>2
<1> HIDE DEF handed
<1>3. front \in Seq(Stops) /\ Len(front) = i - 1 /\ \A k \in 1 .. i - 1 : front[k] = handed[k]
  <2>1. \A k \in 1 .. i - 1 : handed[k] \in Stops
    BY <1>1, <1>2
  <2>2. /\ front \in Seq(Stops) /\ Len(front) = (IF 1 <= i - 1 THEN i - 1 - 1 + 1 ELSE 0)
        /\ \A k \in 1 .. i - 1 - 1 + 1 : front[k] = handed[1 + k - 1]
    BY <1>1, <2>1, SubSeqProperties
  <2> QED
    BY <1>1, <2>2
<1>4. back \in Seq(Stops) /\ Len(back) = n - i /\ \A k \in 1 .. n - i : back[k] = handed[i + k]
  <2>1. \A k \in i + 1 .. n : handed[k] \in Stops
    BY <1>1, <1>2
  <2>2. /\ back \in Seq(Stops) /\ Len(back) = (IF i + 1 <= n THEN n - (i + 1) + 1 ELSE 0)
        /\ \A k \in 1 .. n - (i + 1) + 1 : back[k] = handed[i + 1 + k - 1]
    BY <1>1, <2>1, SubSeqProperties
  <2>3. n - (i + 1) + 1 = n - i /\ (IF i + 1 <= n THEN n - (i + 1) + 1 ELSE 0) = n - i
    BY <1>1
  <2>4. \A k \in 1 .. n - i : i + 1 + k - 1 = i + k
    BY <1>1
  <2> HIDE DEF back
  <2> QED
    BY <2>2, <2>3, <2>4
<1> DEFINE whole == front \o back
<1>5. Removed(c, i) = whole
  <2>1. Len(handed) = n
    BY <1>2
  <2> QED
    BY <2>1 DEF Removed, RemoveAt, handed
<1> HIDE DEF front, back, next
<1>6. whole \in Seq(Stops) /\ Len(whole) = n - 1
      /\ \A k \in 1 .. n - 1 : whole[k] = IF k <= i - 1 THEN front[k] ELSE back[k - (i - 1)]
  <2>1. /\ whole \in Seq(Stops) /\ Len(whole) = Len(front) + Len(back)
        /\ \A k \in 1 .. Len(front) + Len(back) :
              whole[k] = IF k <= Len(front) THEN front[k] ELSE back[k - Len(front)]
    BY <1>3, <1>4, ConcatProperties
  <2>2. Len(front) = i - 1 /\ Len(front) + Len(back) = n - 1
    BY <1>1, <1>3, <1>4
  <2> HIDE DEF whole
  <2> QED
    BY <2>1, <2>2
<1> HIDE DEF whole
<1>7. \A k \in 1 .. n - 1 : whole[k] = handed[IF k < i THEN k ELSE k + 1]
  <2> SUFFICES ASSUME NEW k \in 1 .. n - 1 PROVE whole[k] = handed[IF k < i THEN k ELSE k + 1]
    OBVIOUS
  <2>1. CASE k < i
    BY <1>1, <1>3, <1>6, <2>1
  <2>2. CASE k >= i
    <3>1. k - (i - 1) \in 1 .. n - i /\ i + (k - (i - 1)) = k + 1
      BY <1>1, <2>2
    <3> QED
      BY <1>1, <1>4, <1>6, <2>2, <3>1
  <2> QED
    BY <1>1, <2>1, <2>2
<1>8. \A k \in 1 .. n - 1 : (IF k < i THEN k ELSE k + 1) \in 1 .. n
  BY <1>1
<1>9. \A k \in 1 .. n - 1 : whole[k].rec = c[IF k < i THEN k ELSE k + 1].rec
  BY <1>2, <1>7, <1>8
<1>10. ASSUME n > 1 PROVE \E l \in 1 .. n - 1 : MarkedAt(whole, l)
  <2> DEFINE l == IF i = m THEN (IF i = n THEN 1 ELSE i) ELSE IF m < i THEN m ELSE m - 1
  <2>1. l \in 1 .. n - 1 /\ DOMAIN whole = 1 .. n - 1
    BY <1>1, <1>6, <1>10
  <2>2. ASSUME NEW k \in 1 .. n - 1
        PROVE  whole[k].first = (k = l)
    <3> DEFINE j == IF k < i THEN k ELSE k + 1
    <3>1. whole[k].first = (j = m \/ (i = m /\ j = next)) /\ j \in 1 .. n /\ j # i
      BY <1>2, <1>7, <1>8, <1>1
    <3>2. (j = m \/ (i = m /\ j = next)) <=> k = l
      BY <1>1, <1>10 DEF next
    <3> QED
      BY <3>1, <3>2
  <2> QED
    BY <2>1, <2>2 DEF MarkedAt
<1> QED
  BY <1>5, <1>6, <1>9, <1>10

-----------------------------------------------------------------------------
(* The operators: what a loop over stops, towns or targets returns.        *)

\* A turn of the loop of Distinct.
Seen(before, t, except) == IF t = except \/ Contains(before, t) THEN before ELSE Append(before, t)

\* The loop of Distinct, turn by turn.
LEMMA DistinctInTurns ==
    ASSUME NEW stops \in Seq(Stops), NEW except
    PROVE  \E f \in [0 .. Len(stops) -> Seq(Towns)] :
             /\ f[0] = << >> /\ f[Len(stops)] = Distinct(stops, except)
             /\ \A n \in 1 .. Len(stops) : f[n] = Seen(f[n - 1], stops[n].town, except)
<1> DEFINE N == Len(stops)
           D == Seq(Towns)
           seen == CHOOSE f : f = [n \in 0 .. N |-> IF n = 0 THEN << >> ELSE Seen(f[n - 1], stops[n].town, except)]
           step == [p \in (1 .. N) \X D |-> Seen(p[2], stops[p[1]].town, except)]
<1>1. N \in Nat /\ \A n \in 1 .. N : stops[n].town \in Towns
  <2>1. \A n \in 1 .. N : stops[n] \in Stops
    OBVIOUS
  <2> QED
    BY <2>1 DEF Stops
<1>2. \A n \in 1 .. N : \A e \in D : Seen(e, stops[n].town, except) \in D
  BY <1>1 DEF Seen
<1>3. step \in [(1 .. N) \X D -> D]
  BY <1>2
<1>4. << >> \in D
  OBVIOUS
<1>5. Distinct(stops, except) = seen[N]
  BY DEF Distinct, Seen
<1>6. PICK f : HandsOn(f, D, << >>, N, step)
  <2> HIDE DEF step, D, N
  <2> QED
    BY <1>1, <1>3, <1>4, Recursion
<1>7. f \in [0 .. N -> D] /\ f[0] = << >> /\ \A n \in 1 .. N : f[n] = Seen(f[n - 1], stops[n].town, except)
  <2>1. f \in [0 .. N -> D] /\ f[0] = << >> /\ \A n \in 1 .. N : f[n] = step[<<n, f[n - 1]>>]
    BY <1>6 DEF HandsOn
  <2>2. \A n \in 1 .. N : n - 1 \in 0 .. N
    BY <1>1
  <2> HIDE DEF D, N
  <2> QED
    BY <2>1, <2>2
<1>8. f = [n \in 0 .. N |-> IF n = 0 THEN << >> ELSE Seen(f[n - 1], stops[n].town, except)]
  BY <1>1, <1>7
<1>9. seen = [n \in 0 .. N |-> IF n = 0 THEN << >> ELSE Seen(seen[n - 1], stops[n].town, except)]
  BY <1>8
<1> HIDE DEF seen
<1> DEFINE T == {n \in Nat : n <= N => seen[n] = f[n]}
<1>10. 0 \in T
  BY <1>1, <1>7, <1>9
<1>11. ASSUME NEW n \in Nat, n \in T PROVE n + 1 \in T
  <2> SUFFICES ASSUME n + 1 <= N PROVE seen[n + 1] = f[n + 1]
    OBVIOUS
  <2> DEFINE m == n + 1
  <2>1. m \in 0 .. N /\ m \in 1 .. N /\ m # 0 /\ m - 1 = n
    BY <1>1
  <2> HIDE DEF m
  <2>2. seen[m] = Seen(seen[m - 1], stops[m].town, except)
    BY <1>9, <2>1
  <2>3. f[m] = Seen(f[m - 1], stops[m].town, except)
    BY <1>7, <2>1
  <2>4. seen[n] = f[n]
    BY <1>1, <1>11
  <2> QED
    BY <2>1, <2>2, <2>3, <2>4 DEF m
<1> HIDE DEF T
<1>12. N \in T
  BY <1>1, <1>10, <1>11, SetInduction
<1>13. seen[N] = f[N]
  BY <1>1, <1>12 DEF T
<1> QED
  BY <1>5, <1>7, <1>13

\* d lists the towns of the first n stops, but for one, each once and in order of appearance.
Lists(d, stops, n, except) ==
    /\ \A i, j \in DOMAIN d : d[i] = d[j] => i = j
    /\ \A t \in Towns : (\E i \in DOMAIN d : d[i] = t) <=> t # except /\ \E p \in 1 .. n : stops[p].town = t
    /\ \A i, j \in DOMAIN d : i < j => \E p \in 1 .. n : stops[p].town = d[i] /\ \A q \in 1 .. p : stops[q].town # d[j]

\* One turn lists one stop more.
LEMMA SeenLists ==
    ASSUME NEW stops, NEW except, NEW n \in Nat, NEW d \in Seq(Towns), Lists(d, stops, n, except),
           NEW t \in Towns, stops[n + 1].town = t
    PROVE  Lists(Seen(d, t, except), stops, n + 1, except)
<1>1. DOMAIN d = 1 .. Len(d) /\ Len(d) \in Nat /\ \A i \in 1 .. Len(d) : d[i] \in Towns
  OBVIOUS
<1>2. \A p : p \in 1 .. n + 1 <=> p \in 1 .. n \/ p = n + 1
  OBVIOUS
<1>3. n + 1 \in 1 .. n + 1
  OBVIOUS
<1>4. CASE t = except \/ Contains(d, t)
  <2>1. Seen(d, t, except) = d
    BY <1>4 DEF Seen
  <2>2. t = except \/ \E i \in DOMAIN d : d[i] = t
    BY <1>1, <1>4 DEF Contains
  <2>3. \A u \in Towns : (\E i \in DOMAIN d : d[i] = u) <=> u # except /\ \E p \in 1 .. n + 1 : stops[p].town = u
    BY <1>2, <1>3, <2>2 DEF Lists
  <2> QED
    BY <1>2, <2>1, <2>3 DEF Lists
<1>5. CASE t # except /\ ~Contains(d, t)
  <2> DEFINE e == Append(d, t)
             l == Len(d) + 1
  <2>1. e \in Seq(Towns) /\ DOMAIN e = 1 .. l /\ e[l] = t /\ \A i \in 1 .. Len(d) : e[i] = d[i]
    BY <1>1
  <2>2. \A i : i \in 1 .. l <=> i \in 1 .. Len(d) \/ i = l
    BY <1>1
  <2>3. l \notin 1 .. Len(d) /\ \A i \in 1 .. Len(d) : i < l
    BY <1>1
  <2> HIDE DEF e, l
  <2>4. \A i \in 1 .. Len(d) : d[i] # t
    BY <1>5 DEF Contains
  <2>5. \A p \in 1 .. n : stops[p].town # t
    <3> SUFFICES ASSUME NEW p \in 1 .. n, stops[p].town = t PROVE FALSE
      OBVIOUS
    <3>1. \E i \in DOMAIN d : d[i] = t
      BY <1>5 DEF Lists
    <3> QED
      BY <1>1, <2>4, <3>1
  <2>6. \A i, j \in DOMAIN e : e[i] = e[j] => i = j
    <3>1. \A i, j \in 1 .. Len(d) : d[i] = d[j] => i = j
      BY <1>1 DEF Lists
    <3> QED
      BY <2>1, <2>2, <2>4, <3>1
  <2>7. \A u \in Towns : (\E i \in DOMAIN e : e[i] = u) <=> u # except /\ \E p \in 1 .. n + 1 : stops[p].town = u
    <3> SUFFICES ASSUME NEW u \in Towns
                 PROVE  (\E i \in DOMAIN e : e[i] = u) <=> u # except /\ \E p \in 1 .. n + 1 : stops[p].town = u
      OBVIOUS
    <3>1. (\E i \in DOMAIN e : e[i] = u) <=> u = t \/ \E i \in 1 .. Len(d) : d[i] = u
      BY <2>1, <2>2
    <3>2. (\E p \in 1 .. n + 1 : stops[p].town = u) <=> u = t \/ \E p \in 1 .. n : stops[p].town = u
      BY <1>2, <1>3
    <3>3. (\E i \in 1 .. Len(d) : d[i] = u) <=> u # except /\ \E p \in 1 .. n : stops[p].town = u
      BY <1>1 DEF Lists
    <3> QED
      BY <1>5, <3>1, <3>2, <3>3
  <2>8. ASSUME NEW i \in DOMAIN e, NEW j \in DOMAIN e, i < j
        PROVE  \E p \in 1 .. n + 1 : stops[p].town = e[i] /\ \A q \in 1 .. p : stops[q].town # e[j]
    <3>1. i \in 1 .. Len(d) /\ e[i] = d[i]
      BY <1>1, <2>1, <2>2, <2>3, <2>8
    <3>2. CASE j \in 1 .. Len(d)
      <4>1. \E p \in 1 .. n : stops[p].town = d[i] /\ \A q \in 1 .. p : stops[q].town # d[j]
        BY <1>1, <2>8, <3>1, <3>2 DEF Lists
      <4> QED
        BY <1>2, <2>1, <3>1, <3>2, <4>1
    <3>3. CASE j = l
      <4>1. PICK p \in 1 .. n : stops[p].town = d[i]
        BY <1>1, <3>1 DEF Lists
      <4>2. \A q \in 1 .. p : stops[q].town # t
        BY <2>5
      <4> QED
        BY <1>2, <2>1, <3>1, <3>3, <4>1, <4>2
    <3> QED
      BY <2>1, <2>2, <3>2, <3>3
  <2>9. Seen(d, t, except) = e
    BY <1>5 DEF Seen, e
  <2> QED
    BY <2>6, <2>7, <2>8, <2>9 DEF Lists
<1> QED
  BY <1>4, <1>5

\* Distinct lists the towns of all stops.
LEMMA DistinctLists ==
    ASSUME NEW stops \in Seq(Stops), NEW except
    PROVE  /\ Distinct(stops, except) \in Seq(Towns)
           /\ Lists(Distinct(stops, except), stops, Len(stops), except)
<1> DEFINE N == Len(stops)
<1>1. N \in Nat /\ \A n \in 1 .. N : stops[n].town \in Towns
  <2>1. \A n \in 1 .. N : stops[n] \in Stops
    OBVIOUS
  <2> QED
    BY <2>1 DEF Stops
<1>2. PICK f \in [0 .. N -> Seq(Towns)] :
        /\ f[0] = << >> /\ f[N] = Distinct(stops, except)
        /\ \A n \in 1 .. N : f[n] = Seen(f[n - 1], stops[n].town, except)
  BY DistinctInTurns
<1> HIDE DEF N
<1> DEFINE T == {n \in Nat : n <= N => Lists(f[n], stops, n, except)}
<1>3. 0 \in T
  BY <1>2 DEF Lists
<1>4. ASSUME NEW n \in Nat, n \in T PROVE n + 1 \in T
  <2> SUFFICES ASSUME n + 1 <= N PROVE Lists(f[n + 1], stops, n + 1, except)
    OBVIOUS
  <2> DEFINE m == n + 1
  <2>1. m \in 1 .. N /\ m - 1 = n /\ n \in 0 .. N
    BY <1>1
  <2> HIDE DEF m
  <2>2. f[m] = Seen(f[n], stops[m].town, except)
    BY <1>2, <2>1
  <2>3. f[n] \in Seq(Towns) /\ stops[m].town \in Towns
    BY <1>1, <1>2, <2>1
  <2>4. Lists(f[n], stops, n, except)
    BY <1>1, <1>4
  <2>5. Lists(Seen(f[n], stops[m].town, except), stops, n + 1, except)
    BY <2>3, <2>4, SeenLists DEF m
  <2> QED
    BY <2>2, <2>5 DEF m
<1> HIDE DEF T
<1>5. N \in T
  BY <1>1, <1>3, <1>4, SetInduction
<1>6. Lists(f[N], stops, N, except) /\ f[N] \in Seq(Towns)
  BY <1>1, <1>2, <1>5 DEF T
<1> QED
  BY <1>2, <1>6 DEF N

\* The first n of a sequence.
LEMMA FirstOfIs ==
    ASSUME NEW S, NEW s \in Seq(S), NEW n \in Nat
    PROVE  /\ FirstOf(s, n) \in Seq(S)
           /\ Len(FirstOf(s, n)) = IF Len(s) <= n THEN Len(s) ELSE n
           /\ \A i \in 1 .. Len(FirstOf(s, n)) : FirstOf(s, n)[i] = s[i]
<1> DEFINE m == IF Len(s) <= n THEN Len(s) ELSE n
<1>1. Len(s) \in Nat /\ m \in Nat /\ m <= Len(s) /\ \A i \in 1 .. m : s[i] \in S
  OBVIOUS
<1>2. Min({Len(s), n}) = m
  BY <1>1 DEF Min
<1>3. FirstOf(s, n) = SubSeq(s, 1, m)
  BY <1>2 DEF FirstOf
<1> HIDE DEF m
<1>4. /\ SubSeq(s, 1, m) \in Seq(S) /\ Len(SubSeq(s, 1, m)) = (IF 1 <= m THEN m - 1 + 1 ELSE 0)
      /\ \A i \in 1 .. m - 1 + 1 : SubSeq(s, 1, m)[i] = s[1 + i - 1]
  BY <1>1, SubSeqProperties
<1>5. Len(SubSeq(s, 1, m)) = m /\ \A i \in 1 .. m : SubSeq(s, 1, m)[i] = s[i]
  BY <1>1, <1>4
<1> QED
  BY <1>3, <1>4, <1>5 DEF m

\* The members of a finite set in some order, each once.
LEMMA ListedIs ==
    ASSUME NEW S, IsFiniteSet(S)
    PROVE  /\ Listed(S) \in Seq(S) /\ Len(Listed(S)) = Cardinality(S)
           /\ \A i, j \in DOMAIN Listed(S) : Listed(S)[i] = Listed(S)[j] => i = j
<1> DEFINE N == Cardinality(S)
           D == Seq(S)
           other(e) == CHOOSE x \in S : ~Contains(e, x)
           listed == CHOOSE f : f = [n \in 0 .. N |-> IF n = 0 THEN << >> ELSE Append(f[n - 1], other(f[n - 1]))]
           step == [p \in (1 .. N) \X D |-> IF other(p[2]) \in S THEN Append(p[2], other(p[2])) ELSE p[2]]
           Once(e) == \A i, j \in DOMAIN e : e[i] = e[j] => i = j
<1>1. N \in Nat
  BY FS_CardinalityType
<1>2. Listed(S) = listed[N]
  BY DEF Listed
<1> HIDE DEF N, other
<1>3. step \in [(1 .. N) \X D -> D]
  OBVIOUS
<1>4. << >> \in D
  OBVIOUS
<1>5. PICK f : HandsOn(f, D, << >>, N, step)
  <2> HIDE DEF step, D
  <2> QED
    BY <1>1, <1>3, <1>4, Recursion
<1>6. f \in [0 .. N -> D] /\ f[0] = << >>
      /\ \A n \in 1 .. N : f[n] = IF other(f[n - 1]) \in S THEN Append(f[n - 1], other(f[n - 1])) ELSE f[n - 1]
  <2>1. f \in [0 .. N -> D] /\ f[0] = << >> /\ \A n \in 1 .. N : f[n] = step[<<n, f[n - 1]>>]
    BY <1>5 DEF HandsOn
  <2>2. \A n \in 1 .. N : n - 1 \in 0 .. N
    BY <1>1
  <2> HIDE DEF D
  <2> QED
    BY <2>1, <2>2
<1>7. ASSUME NEW e \in D, Once(e), Len(e) < N
      PROVE  /\ other(e) \in S /\ ~Contains(e, other(e))
             /\ Append(e, other(e)) \in D /\ Len(Append(e, other(e))) = Len(e) + 1 /\ Once(Append(e, other(e)))
  <2> DEFINE l == Len(e)
             Got == {e[i] : i \in 1 .. l}
  <2>1. l \in Nat /\ DOMAIN e = 1 .. l /\ e \in [1 .. l -> S]
    OBVIOUS
  <2>2. IsFiniteSet(1 .. l) /\ Cardinality(1 .. l) = l
    <3>1. IsFiniteSet(1 .. l) /\ Cardinality(1 .. l) = IF 1 > l THEN 0 ELSE l - 1 + 1
      BY <2>1, FS_Interval
    <3> QED
      BY <2>1, <3>1
  <2>3. IsFiniteSet(Got) /\ Cardinality(Got) <= l
    <3> HIDE DEF l
    <3>1. e \in Surjection(1 .. l, Got)
      BY <2>1 DEF Surjection
    <3> QED
      BY <2>2, <3>1, FS_Surjection
  <2>4. Got # S
    <3>1. Cardinality(Got) \in Nat /\ Cardinality(Got) < N
      <4>1. Cardinality(Got) \in Nat
        BY <2>3, FS_CardinalityType
      <4> HIDE DEF Got
      <4> QED
        BY <1>1, <1>7, <2>1, <2>3, <4>1
    <3> HIDE DEF Got
    <3>2. Cardinality(Got) # Cardinality(S)
      BY <1>1, <3>1 DEF N
    <3> QED
      BY <3>2
  <2>5. \E x \in S : ~Contains(e, x)
    BY <2>1, <2>4 DEF Contains
  <2>6. other(e) \in S /\ ~Contains(e, other(e))
    BY <2>5 DEF other
  <2>7. Append(e, other(e)) \in D /\ Len(Append(e, other(e))) = l + 1
        /\ \A i \in 1 .. l : Append(e, other(e))[i] = e[i]
        /\ Append(e, other(e))[l + 1] = other(e)
    BY <2>6
  <2> DEFINE g == Append(e, other(e))
  <2>8. \A i \in 1 .. l : e[i] # other(e)
    BY <2>6 DEF Contains
  <2> HIDE DEF g
  <2>9. g \in D /\ Len(g) = l + 1 /\ (\A i \in 1 .. l : g[i] = e[i]) /\ g[l + 1] = other(e)
    BY <2>7 DEF g
  <2>10. DOMAIN g = 1 .. l + 1 /\ \A i : i \in 1 .. l + 1 <=> i \in 1 .. l \/ i = l + 1
    BY <2>1, <2>9
  <2>11. Once(g)
    BY <1>7, <2>1, <2>8, <2>9, <2>10
  <2> QED
    BY <2>6, <2>9, <2>11 DEF g
<1> HIDE DEF D, Once
<1> DEFINE T == {n \in Nat : n <= N => f[n] \in D /\ Len(f[n]) = n /\ Once(f[n])}
<1>8. 0 \in T
  BY <1>1, <1>4, <1>6 DEF Once
<1>9. ASSUME NEW n \in Nat, n \in T PROVE n + 1 \in T
  <2> SUFFICES ASSUME n + 1 <= N PROVE f[n + 1] \in D /\ Len(f[n + 1]) = n + 1 /\ Once(f[n + 1])
    OBVIOUS
  <2> DEFINE m == n + 1
  <2>1. m \in 1 .. N /\ m - 1 = n /\ n < N
    BY <1>1
  <2>2. f[n] \in D /\ Len(f[n]) = n /\ Once(f[n])
    BY <1>1, <1>9, <2>1
  <2> HIDE DEF m
  <2>3. f[m] = IF other(f[n]) \in S THEN Append(f[n], other(f[n])) ELSE f[n]
    BY <1>6, <2>1
  <2>4. other(f[n]) \in S /\ Append(f[n], other(f[n])) \in D /\ Len(Append(f[n], other(f[n]))) = Len(f[n]) + 1 /\ Once(Append(f[n], other(f[n])))
    BY <1>7, <2>1, <2>2
  <2>5. f[m] = Append(f[n], other(f[n]))
    BY <2>3, <2>4
  <2> QED
    BY <2>2, <2>4, <2>5 DEF m
<1> HIDE DEF T
<1>10. \A n \in Nat : n \in T
  BY <1>8, <1>9, SetInduction
<1>11. \A n \in 0 .. N : f[n] \in D /\ Len(f[n]) = n /\ Once(f[n])
  BY <1>1, <1>10 DEF T
<1>12. f = [n \in 0 .. N |-> IF n = 0 THEN << >> ELSE Append(f[n - 1], other(f[n - 1]))]
  <2>1. ASSUME NEW n \in 1 .. N PROVE f[n] = Append(f[n - 1], other(f[n - 1]))
    <3> DEFINE k == n - 1
    <3>1. k \in 0 .. N /\ k < N
      BY <1>1
    <3> HIDE DEF k
    <3>2. f[k] \in D /\ Once(f[k]) /\ Len(f[k]) < N
      BY <1>11, <3>1
    <3>3. other(f[k]) \in S
      BY <1>7, <3>2
    <3>4. f[n] = IF other(f[k]) \in S THEN Append(f[k], other(f[k])) ELSE f[k]
      BY <1>6 DEF k
    <3> QED
      BY <3>3, <3>4 DEF k
  <2> QED
    BY <1>1, <1>6, <2>1
<1>13. listed = [n \in 0 .. N |-> IF n = 0 THEN << >> ELSE Append(listed[n - 1], other(listed[n - 1]))]
  BY <1>12
<1> HIDE DEF listed
<1> DEFINE U == {n \in Nat : n <= N => listed[n] = f[n]}
<1>14. 0 \in U
  BY <1>1, <1>6, <1>13
<1>15. ASSUME NEW n \in Nat, n \in U PROVE n + 1 \in U
  <2> SUFFICES ASSUME n + 1 <= N PROVE listed[n + 1] = f[n + 1]
    OBVIOUS
  <2> DEFINE m == n + 1
  <2>1. m \in 0 .. N /\ m # 0 /\ m - 1 = n
    BY <1>1
  <2> HIDE DEF m
  <2>2. listed[m] = Append(listed[m - 1], other(listed[m - 1]))
    BY <1>13, <2>1
  <2>3. f[m] = Append(f[m - 1], other(f[m - 1]))
    BY <1>12, <2>1
  <2>4. listed[n] = f[n]
    BY <1>1, <1>15
  <2> QED
    BY <2>1, <2>2, <2>3, <2>4 DEF m
<1> HIDE DEF U
<1>16. N \in U
  BY <1>1, <1>14, <1>15, SetInduction
<1>17. listed[N] = f[N] /\ f[N] \in D /\ Len(f[N]) = N /\ Once(f[N])
  BY <1>1, <1>11, <1>16 DEF U
<1> QED
  BY <1>2, <1>17 DEF D, Once, N

-----------------------------------------------------------------------------
(* The operators: routes as the templates build them.                      *)

\* The stops a template has for one target.
LEMMA MiddleIs ==
    ASSUME NEW kind \in Kinds, NEW t \in Towns
    PROVE  /\ middle(kind, t) \in Seq(Stops) /\ Len(middle(kind, t)) \in 1 .. 4
           /\ \A i \in 1 .. Len(middle(kind, t)) : middle(kind, t)[i].town = t
<1>1. \A role \in Roles : stop(t, role, {}) \in Stops /\ stop(t, role, {}).town = t
  BY DEF stop, Stops
<1>2. \A a \in Stops : <<a>> \in Seq(Stops) /\ Len(<<a>>) = 1 /\ <<a>>[1] = a
  OBVIOUS
<1>3. \A a, b, c \in Stops : <<a, b, c>> \in Seq(Stops) /\ Len(<<a, b, c>>) = 3
        /\ <<a, b, c>>[1] = a /\ <<a, b, c>>[2] = b /\ <<a, b, c>>[3] = c
  OBVIOUS
<1>4. \A a, b, c, d \in Stops : <<a, b, c, d>> \in Seq(Stops) /\ Len(<<a, b, c, d>>) = 4
        /\ <<a, b, c, d>>[1] = a /\ <<a, b, c, d>>[2] = b /\ <<a, b, c, d>>[3] = c /\ <<a, b, c, d>>[4] = d
  OBVIOUS
<1>5. {"sell", "take", "put back", "swap", "trade", "buy"} \subseteq Roles
  BY DEF Roles
<1>6. middle(kind, t) \in {buy_stop(t), trade_stop(t), five_stop_middle(t), six_stop_middle(t)}
  BY DEF middle, Kinds, Collecting
<1>7. CASE middle(kind, t) = buy_stop(t)
  <2>1. stop(t, "buy", {}) \in Stops /\ stop(t, "buy", {}).town = t
    BY <1>1, <1>5
  <2> QED
    BY <1>2, <1>7, <2>1 DEF buy_stop
<1>8. CASE middle(kind, t) = trade_stop(t)
  <2>1. stop(t, "trade", {}) \in Stops /\ stop(t, "trade", {}).town = t
    BY <1>1, <1>5
  <2> QED
    BY <1>2, <1>8, <2>1 DEF trade_stop
<1>9. CASE middle(kind, t) = five_stop_middle(t)
  <2> DEFINE a == stop(t, "sell", {})
             b == stop(t, "take", {})
             c == stop(t, "put back", {})
  <2>1. a \in Stops /\ b \in Stops /\ c \in Stops /\ a.town = t /\ b.town = t /\ c.town = t
    BY <1>1, <1>5
  <2>2. middle(kind, t) = <<a, b, c>>
    BY <1>9 DEF five_stop_middle
  <2> HIDE DEF a, b, c
  <2>3. \A i \in 1 .. 3 : <<a, b, c>>[i].town = t
    BY <2>1
  <2> QED
    BY <1>3, <2>1, <2>2, <2>3
<1>10. CASE middle(kind, t) = six_stop_middle(t)
  <2> DEFINE a == stop(t, "sell", {})
             b == stop(t, "take", {})
             c == stop(t, "swap", {})
             d == stop(t, "put back", {})
  <2>1. a \in Stops /\ b \in Stops /\ c \in Stops /\ d \in Stops /\ a.town = t /\ b.town = t /\ c.town = t /\ d.town = t
    BY <1>1, <1>5
  <2>2. middle(kind, t) = <<a, b, c, d>>
    BY <1>10 DEF six_stop_middle
  <2> HIDE DEF a, b, c, d
  <2>3. \A i \in 1 .. 4 : <<a, b, c, d>>[i].town = t
    BY <2>1
  <2> QED
    BY <1>4, <2>1, <2>2, <2>3
<1> QED
  BY <1>6, <1>7, <1>8, <1>9, <1>10

\* The stops of all targets, target by target.
LEMMA MiddlesInTurns ==
    ASSUME NEW kind \in Kinds, NEW targets \in Seq(Towns)
    PROVE  \E f \in [0 .. Len(targets) -> Seq(Stops)] :
             /\ f[0] = << >> /\ f[Len(targets)] = middles(kind, targets)
             /\ \A n \in 1 .. Len(targets) : f[n] = f[n - 1] \o middle(kind, targets[n])
<1> DEFINE N == Len(targets)
           D == Seq(Stops)
           stops == CHOOSE f : f = [n \in 0 .. N |-> IF n = 0 THEN << >> ELSE f[n - 1] \o middle(kind, targets[n])]
           step == [p \in (1 .. N) \X D |-> p[2] \o middle(kind, targets[p[1]])]
<1>1. N \in Nat /\ \A n \in 1 .. N : targets[n] \in Towns
  OBVIOUS
<1>2. \A n \in 1 .. N : middle(kind, targets[n]) \in D
  BY <1>1, MiddleIs
<1>3. \A n \in 1 .. N : \A e \in D : e \o middle(kind, targets[n]) \in D
  BY <1>2, ConcatProperties
<1>4. step \in [(1 .. N) \X D -> D]
  BY <1>3
<1>5. << >> \in D
  OBVIOUS
<1>6. middles(kind, targets) = stops[N]
  BY DEF middles
<1>7. PICK f : HandsOn(f, D, << >>, N, step)
  <2> HIDE DEF step, D, N
  <2> QED
    BY <1>1, <1>4, <1>5, Recursion
<1>8. f \in [0 .. N -> D] /\ f[0] = << >> /\ \A n \in 1 .. N : f[n] = f[n - 1] \o middle(kind, targets[n])
  <2>1. f \in [0 .. N -> D] /\ f[0] = << >> /\ \A n \in 1 .. N : f[n] = step[<<n, f[n - 1]>>]
    BY <1>7 DEF HandsOn
  <2>2. \A n \in 1 .. N : n - 1 \in 0 .. N
    BY <1>1
  <2> HIDE DEF D, N
  <2> QED
    BY <2>1, <2>2
<1>9. f = [n \in 0 .. N |-> IF n = 0 THEN << >> ELSE f[n - 1] \o middle(kind, targets[n])]
  <2> DEFINE g == [n \in 0 .. N |-> IF n = 0 THEN << >> ELSE f[n - 1] \o middle(kind, targets[n])]
  <2>1. ASSUME NEW n \in 0 .. N PROVE f[n] = g[n]
    <3>1. CASE n = 0
      BY <1>8, <3>1
    <3>2. CASE n # 0
      <4>1. n \in 1 .. N
        BY <1>1, <3>2
      <4>2. g[n] = f[n - 1] \o middle(kind, targets[n])
        BY <3>2
      <4> QED
        BY <1>8, <4>1, <4>2
    <3> QED
      BY <3>1, <3>2
  <2>2. DOMAIN f = 0 .. N
    <3> HIDE DEF D
    <3> QED
      BY <1>8
  <2>3. DOMAIN g = 0 .. N /\ f = [n \in 0 .. N |-> f[n]] /\ g = [n \in 0 .. N |-> g[n]]
    <3> HIDE DEF D
    <3> QED
      BY <1>8
  <2> HIDE DEF g
  <2>4. f = g
    BY <2>1, <2>3
  <2> QED
    BY <2>4 DEF g
<1>10. stops = [n \in 0 .. N |-> IF n = 0 THEN << >> ELSE stops[n - 1] \o middle(kind, targets[n])]
  BY <1>9
<1> HIDE DEF stops
<1> DEFINE T == {n \in Nat : n <= N => stops[n] = f[n]}
<1>11. 0 \in T
  BY <1>1, <1>8, <1>10
<1>12. ASSUME NEW n \in Nat, n \in T PROVE n + 1 \in T
  <2> SUFFICES ASSUME n + 1 <= N PROVE stops[n + 1] = f[n + 1]
    OBVIOUS
  <2> DEFINE m == n + 1
  <2>1. m \in 0 .. N /\ m \in 1 .. N /\ m # 0 /\ m - 1 = n
    BY <1>1
  <2> HIDE DEF m
  <2>2. stops[m] = stops[m - 1] \o middle(kind, targets[m])
    BY <1>10, <2>1
  <2>3. f[m] = f[m - 1] \o middle(kind, targets[m])
    BY <1>8, <2>1
  <2>4. stops[n] = f[n]
    BY <1>1, <1>12
  <2> QED
    BY <2>1, <2>2, <2>3, <2>4 DEF m
<1> HIDE DEF T
<1>13. N \in T
  BY <1>1, <1>11, <1>12, SetInduction
<1>14. stops[N] = f[N]
  BY <1>1, <1>13 DEF T
<1> QED
  BY <1>6, <1>8, <1>14

\* A template is a route: home, the targets' stops, and home again where it is bracketed.
LEMMA TemplateIs ==
    ASSUME NEW kind \in Kinds, NEW home \in Towns, NEW targets \in Seq(Towns)
    PROVE  /\ middles(kind, targets) \in Seq(Stops)
           /\ \E first, last \in Seq(Stops) :
                /\ Len(first) = 1 /\ first[1].town = home
                /\ first[1].role = IF kind \in Collecting THEN "transfer" ELSE "load"
                /\ last = IF kind \in Collecting THEN << >> ELSE <<stop(home, "unload", {})>>
                /\ template(kind, home, targets) = first \o middles(kind, targets) \o last
<1>1. middles(kind, targets) \in Seq(Stops)
  <2>1. PICK f \in [0 .. Len(targets) -> Seq(Stops)] : f[Len(targets)] = middles(kind, targets)
    BY MiddlesInTurns
  <2>2. Len(targets) \in 0 .. Len(targets)
    OBVIOUS
  <2> QED
    BY <2>1, <2>2
<1>2. Range(targets) \in SUBSET Towns
  BY DEF Range
<1> DEFINE supplied == IF kind \in {"FiveStop", "SixStop"} THEN Range(targets) ELSE {}
           opening == IF kind \in Collecting THEN stop(home, "transfer", {}) ELSE stop(home, "load", supplied)
           closing == IF kind \in Collecting THEN << >> ELSE <<stop(home, "unload", {})>>
           body == middles(kind, targets)
<1>3. opening \in Stops /\ opening.town = home /\ opening.role = IF kind \in Collecting THEN "transfer" ELSE "load"
  BY <1>2 DEF stop, Stops, Roles
<1>4. closing \in Seq(Stops)
  <2>1. stop(home, "unload", {}) \in Stops
    BY DEF stop, Stops, Roles
  <2>2. \A a \in Stops : <<a>> \in Seq(Stops)
    OBVIOUS
  <2>3. << >> \in Seq(Stops)
    OBVIOUS
  <2> QED
    BY <2>1, <2>2, <2>3
<1>5. <<opening>> \in Seq(Stops) /\ Len(<<opening>>) = 1 /\ <<opening>>[1] = opening
  BY <1>3
<1>6. template(kind, home, targets) = <<opening>> \o body \o closing
  <2>1. CASE kind \in Collecting
    <3>1. template(kind, home, targets) = <<stop(home, "transfer", {})>> \o body
      BY <2>1 DEF template, collecting_route
    <3>2. <<opening>> \o body \in Seq(Stops)
      BY <1>1, <1>5, ConcatProperties
    <3> QED
      BY <2>1, <3>1, <3>2, ConcatEmptySeq
  <2>2. CASE kind \notin Collecting
    BY <2>2 DEF template, bracketed_route
  <2> QED
    BY <2>1, <2>2
<1> HIDE DEF opening, closing, body
<1>7. \E first, last \in Seq(Stops) :
        /\ Len(first) = 1 /\ first[1].town = home
        /\ first[1].role = IF kind \in Collecting THEN "transfer" ELSE "load"
        /\ last = closing
        /\ template(kind, home, targets) = first \o body \o last
  BY <1>3, <1>4, <1>5, <1>6
<1> QED
  BY <1>1, <1>7 DEF closing, body

\* Two sequences put together.
LEMMA Joined ==
    ASSUME NEW S, NEW a \in Seq(S), NEW b \in Seq(S)
    PROVE  /\ a \o b \in Seq(S) /\ Len(a \o b) = Len(a) + Len(b)
           /\ \A i \in 1 .. Len(a) : (a \o b)[i] = a[i]
           /\ \A i \in 1 .. Len(b) : (a \o b)[Len(a) + i] = b[i]
<1> DEFINE w == a \o b
<1>1. w \in Seq(S) /\ Len(w) = Len(a) + Len(b)
      /\ \A i \in 1 .. Len(a) + Len(b) : w[i] = IF i <= Len(a) THEN a[i] ELSE b[i - Len(a)]
  BY ConcatProperties
<1>2. Len(a) \in Nat /\ Len(b) \in Nat
  OBVIOUS
<1> HIDE DEF w
<1>3. \A i \in 1 .. Len(a) : w[i] = a[i]
  BY <1>1, <1>2
<1>4. \A i \in 1 .. Len(b) : w[Len(a) + i] = b[i]
  <2> SUFFICES ASSUME NEW i \in 1 .. Len(b) PROVE w[Len(a) + i] = b[i]
    OBVIOUS
  <2> DEFINE k == Len(a) + i
  <2>1. k \in 1 .. Len(a) + Len(b) /\ ~(k <= Len(a)) /\ k - Len(a) = i
    BY <1>2
  <2> HIDE DEF k
  <2>2. w[k] = b[i]
    BY <1>1, <2>1
  <2> QED
    BY <2>2 DEF k
<1> QED
  BY <1>1, <1>3, <1>4 DEF w

\* Stops of a route have records of their own.
RecsDiffer(c) == \A i, j \in DOMAIN c : c[i].rec = c[j].rec => i = j

\* A route set anew: it is the given one, with the marker on the first stop.
LEMMA NormalisedIs ==
    ASSUME NEW stops \in Seq(Stops)
    PROVE  /\ normalised(stops) \in Seq(Stops) /\ Len(normalised(stops)) = Len(stops)
           /\ RecsDiffer(normalised(stops))
           /\ \A i \in 1 .. Len(stops) :
                normalised(stops)[i].town = stops[i].town /\ normalised(stops)[i].role = stops[i].role
           /\ stops # << >> => MarkedAt(normalised(stops), 1)
<1> DEFINE n == Len(stops)
           new == normalised(stops)
<1>1. n \in Nat /\ DOMAIN stops = 1 .. n
  OBVIOUS
<1>2. ASSUME NEW i \in 1 .. n
      PROVE  /\ new[i] \in Stops /\ new[i].town = stops[i].town /\ new[i].role = stops[i].role
             /\ new[i].rec = i /\ new[i].first = (i = 1)
  <2>1. new[i] = [stops[i] EXCEPT !.first = (i = 1), !.rec = i]
    BY <1>1, <1>2 DEF normalised
  <2>2. stops[i] \in Stops /\ i \in Nat
    BY <1>1
  <2> HIDE DEF new
  <2> QED
    BY <2>1, <2>2 DEF Stops
<1>3. DOMAIN new = 1 .. n /\ new = [i \in 1 .. n |-> new[i]]
  BY <1>1 DEF normalised
<1> HIDE DEF new
<1>4. new \in Seq(Stops) /\ Len(new) = n
  <2>1. new \in [1 .. n -> Stops]
    BY <1>2, <1>3
  <2> QED
    BY <1>1, <1>3, <2>1, LenProperties
<1>5. RecsDiffer(new)
  BY <1>2, <1>3 DEF RecsDiffer
<1>6. stops # << >> => MarkedAt(new, 1)
  <2>1. stops # << >> => 1 \in 1 .. n
    BY <1>1
  <2> QED
    BY <1>2, <1>3, <2>1 DEF MarkedAt
<1> QED
  BY <1>2, <1>4, <1>5, <1>6 DEF new

\* The towns a route key goes to.
LEMMA TargetsAreTowns ==
    ASSUME NEW kind \in Kinds, NEW append \in BOOLEAN, NEW alt \in BOOLEAN, NEW prev \in Seq(Stops),
           NEW home \in Towns, NEW view \in Towns \cup {NoTown}
    PROVE  targets_of(kind, append, alt, prev, home, view) \in Seq(Towns)
<1>1. << >> \in Seq(Towns) /\ (view # NoTown => <<view>> \in Seq(Towns))
  OBVIOUS
<1>2. Distinct(prev, home) \in Seq(Towns)
  BY DistinctLists
<1>3. route_targets(prev, home, view) \in Seq(Towns)
  <2>1. route_targets(prev, home, view) \in {Distinct(prev, home), << >>} \/ (view # NoTown /\ route_targets(prev, home, view) = <<view>>)
    BY DEF route_targets
  <2> QED
    BY <1>1, <1>2, <2>1
<1>4. fetch_targets(home, alt) \in Seq(Towns)
  <2> DEFINE S == (IF alt THEN Towns ELSE Producers) \ {home}
  <2>1. S \subseteq Towns /\ IsFiniteSet(S)
    <3>1. S \subseteq Towns
      BY RoutesAssumption
    <3> HIDE DEF S
    <3> QED
      BY <3>1, RoutesAssumption, FS_Subset
  <2>2. fetch_targets(home, alt) = Listed(S)
    BY DEF fetch_targets
  <2> HIDE DEF S
  <2>3. Listed(S) \in Seq(S)
    BY <2>1, ListedIs
  <2> QED
    BY <2>1, <2>2, <2>3
<1>5. targets_of(kind, append, alt, prev, home, view) \in {<< >>, fetch_targets(home, alt), route_targets(prev, home, view)}
      \/ (view # NoTown /\ targets_of(kind, append, alt, prev, home, view) = <<view>>)
  BY Zenon DEF targets_of
<1> QED
  BY <1>1, <1>3, <1>4, <1>5

\* A template is made of stops.
LEMMA TemplateType ==
    ASSUME NEW kind \in Kinds, NEW home \in Towns, NEW targets \in Seq(Towns)
    PROVE  template(kind, home, targets) \in Seq(Stops) /\ template(kind, home, targets) # << >>
<1> DEFINE body == middles(kind, targets)
<1>1. PICK first, last \in Seq(Stops) :
         /\ Len(first) = 1 /\ first[1].town = home
         /\ first[1].role = IF kind \in Collecting THEN "transfer" ELSE "load"
         /\ last = IF kind \in Collecting THEN << >> ELSE <<stop(home, "unload", {})>>
         /\ template(kind, home, targets) = first \o body \o last
  BY TemplateIs
<1>2. body \in Seq(Stops)
  BY TemplateIs
<1> HIDE DEF body
<1> DEFINE front == first \o body
<1>3. front \in Seq(Stops) /\ Len(front) = 1 + Len(body) /\ Len(body) \in Nat
  <2>1. front \in Seq(Stops) /\ Len(front) = Len(first) + Len(body)
    BY <1>2, Joined
  <2>2. Len(body) \in Nat
    BY <1>2
  <2> QED
    BY <1>1, <2>1, <2>2
<1> HIDE DEF front
<1> DEFINE whole == front \o last
<1>4. whole \in Seq(Stops) /\ Len(whole) = Len(front) + Len(last) /\ Len(last) \in Nat
  <2>1. whole \in Seq(Stops) /\ Len(whole) = Len(front) + Len(last)
    BY <1>3, Joined
  <2>2. Len(last) \in Nat
    OBVIOUS
  <2> QED
    BY <2>1, <2>2
<1> HIDE DEF whole
<1>5. whole # << >>
  BY <1>3, <1>4
<1> QED
  BY <1>1, <1>4, <1>5 DEF whole, front

\* What a route key builds fits the window.
LEMMA BuiltIs ==
    ASSUME NEW kind \in Kinds, NEW append \in BOOLEAN, NEW alt \in BOOLEAN, NEW prev \in Seq(Stops),
           NEW view \in Towns \cup {NoTown}
    PROVE  /\ built(kind, append, alt, prev, view) \in Seq(Stops)
           /\ Len(built(kind, append, alt, prev, view)) <= MAX_DISPLAYABLE_STOPS
<1> DEFINE home == load_town(append, prev)
           targets == targets_of(kind, append, alt, prev, home, view)
           new == template(kind, home, targets)
           all == IF append THEN prev \o new ELSE new
<1>1. home \in Towns
  <2>1. prev # << >> => prev[1] \in Stops
    OBVIOUS
  <2> QED
    BY <2>1, RoutesAssumption DEF load_town, Stops
<1> HIDE DEF home
<1>2. targets \in Seq(Towns)
  BY <1>1, TargetsAreTowns
<1> HIDE DEF targets
<1>3. new \in Seq(Stops)
  BY <1>1, <1>2, TemplateType
<1> HIDE DEF new
<1>4. all \in Seq(Stops)
  BY <1>3, ConcatProperties
<1> HIDE DEF all
<1>5. MAX_DISPLAYABLE_STOPS \in Nat
  BY RoutesAssumption
<1>6. /\ clamped(all) \in Seq(Stops)
      /\ Len(clamped(all)) = IF Len(all) <= MAX_DISPLAYABLE_STOPS THEN Len(all) ELSE MAX_DISPLAYABLE_STOPS
  BY <1>4, <1>5, FirstOfIs DEF clamped
<1>7. Len(clamped(all)) <= MAX_DISPLAYABLE_STOPS
  <2>1. Len(all) \in Nat
    BY <1>4
  <2> QED
    BY <1>5, <1>6, <2>1
<1>8. built(kind, append, alt, prev, view) \in {<< >>, clamped(all)}
  BY DEF built, home, targets, new, all
<1>9. << >> \in Seq(Stops) /\ Len(<< >>) = 0
  OBVIOUS
<1> DEFINE result == built(kind, append, alt, prev, view)
<1> HIDE DEF result
<1>10. result \in {<< >>, clamped(all)}
  BY <1>8 DEF result
<1>11. result \in Seq(Stops) /\ Len(result) <= MAX_DISPLAYABLE_STOPS
  <2>1. CASE result = << >>
    BY <1>5, <1>9, <2>1
  <2>2. CASE result = clamped(all)
    BY <1>6, <1>7, <2>2
  <2> QED
    BY <1>10, <2>1, <2>2
<1> QED
  BY <1>11 DEF result

-----------------------------------------------------------------------------
(* The invariant.                                                          *)

ChainInv ==
    /\ chain \in Seq(Stops) /\ Len(chain) <= MAX_DISPLAYABLE_STOPS
    /\ RecsDiffer(chain)
    /\ chain # << >> => head \in DOMAIN chain /\ \E m : MarkedAt(chain, m)

Operations == [op : {"stop", "remove", "rename"}, rec : Nat]

\* What is left of a clear: the removals each name a stop of the route, and no two the same.
PendingInv ==
    /\ pending \in Seq(Operations)
    /\ \A i \in DOMAIN pending :
         pending[i].op = "remove" => \E j \in DOMAIN chain : chain[j].rec = pending[i].rec
    /\ \A i, j \in DOMAIN pending :
         pending[i].op = "remove" /\ pending[j].op = "remove" /\ pending[i].rec = pending[j].rec => i = j
    /\ pending # << >> => made = Cleared

\* Between DEL and the end of its queue, all that is still to be undone is in the queue.
ClearInv ==
    made = Cleared =>
        /\ \A j \in DOMAIN chain : \E i \in DOMAIN pending : pending[i].op = "remove" /\ pending[i].rec = chain[j].rec
        /\ name # PoolName => \E i \in DOMAIN pending : pending[i].op = "rename"
        /\ active => \E i \in DOMAIN pending : pending[i].op = "stop"

Names == [kind : {"pool", "route"}, towns : Seq(Towns)]

\* A route that a key made still reads as it made it, and the ship has its name.
NameInv ==
    /\ active \in BOOLEAN
    /\ name \in Names /\ Len(name.towns) <= NAME_TOWNS
    /\ made.kind \in Kinds =>
         chain # << >> /\ MarkedAt(chain, 1) /\ name = route_ship_name(chain)

\* Towns that a key may go to: some, each once, and home not among them.
Targeted(home, targets) ==
    /\ targets # << >>
    /\ \A i \in DOMAIN targets : targets[i] # home
    /\ \A i, j \in DOMAIN targets : targets[i] = targets[j] => i = j

\* The supply, collect or trade route that a key made is its template for some towns.
RebuildInv ==
    made.kind \in Kinds \ {"Fetch"} /\ ~made.append =>
        \E home \in Towns : \E targets \in Seq(Towns) :
            Targeted(home, targets) /\ chain = normalised(clamped(template(made.kind, home, targets)))

RouteInv == ChainInv /\ PendingInv /\ ClearInv /\ NameInv /\ RebuildInv

\* A route set anew is sound.
LEMMA SetAnew ==
    ASSUME NEW stops \in Seq(Stops), Len(stops) <= MAX_DISPLAYABLE_STOPS,
           chain' = normalised(stops), chain' # << >> => head' \in DOMAIN chain'
    PROVE  ChainInv' /\ (stops # << >> => chain' # << >> /\ MarkedAt(chain', 1)) /\ (stops = << >> => chain' = << >>)
<1>1. /\ chain' \in Seq(Stops) /\ Len(chain') = Len(stops) /\ RecsDiffer(chain')
      /\ stops # << >> => MarkedAt(chain', 1)
  BY NormalisedIs
<1>2. chain' # << >> <=> stops # << >>
  BY <1>1
<1> QED
  BY <1>1, <1>2 DEF ChainInv

\* At first there is neither a route nor an operation.
LEMMA RouteInitial == Init => RouteInv
<1> SUFFICES ASSUME Init PROVE RouteInv
  OBVIOUS
<1>1. chain = << >> /\ pending = << >> /\ active = FALSE /\ name = PoolName /\ made = ByHand
  BY DEF Init
<1>2. << >> \in Seq(Stops) /\ << >> \in Seq(Operations) /\ << >> \in Seq(Towns) /\ Len(<< >>) = 0 /\ DOMAIN << >> = {}
  OBVIOUS
<1>3. ChainInv
  BY <1>1, <1>2, RoutesAssumption DEF ChainInv, RecsDiffer
<1>4. PendingInv /\ ClearInv
  BY <1>1, <1>2 DEF PendingInv, ClearInv, ByHand, Cleared
<1>5. NameInv /\ RebuildInv
  <2>1. made.kind \notin Kinds
    BY <1>1 DEF ByHand, Kinds
  <2>2. name \in Names /\ Len(name.towns) <= NAME_TOWNS
    <3>1. name.towns = << >> /\ name \in Names
      BY <1>1, <1>2 DEF PoolName, Names
    <3> QED
      BY <1>2, <3>1, RoutesAssumption
  <2> QED
    BY <1>1, <2>1, <2>2 DEF NameInv, RebuildInv
<1> QED
  BY <1>3, <1>4, <1>5 DEF RouteInv

\* The targets a key derives from a route, or takes from the screen.
LEMMA RouteTargetsIs ==
    ASSUME NEW prev \in Seq(Stops), NEW home \in Towns, NEW view \in Towns \cup {NoTown},
           route_targets(prev, home, view) # << >>
    PROVE  route_targets(prev, home, view) \in Seq(Towns) /\ Targeted(home, route_targets(prev, home, view))
<1> DEFINE d == Distinct(prev, home)
<1>1. d \in Seq(Towns) /\ Lists(d, prev, Len(prev), home)
  BY DistinctLists
<1>2. route_targets(prev, home, view) =
        IF d # << >> THEN d ELSE IF view \notin {NoTown, home} THEN <<view>> ELSE << >>
  BY DEF route_targets
<1> HIDE DEF d
<1>3. CASE d # << >>
  <2>1. \A i \in DOMAIN d : d[i] \in Towns
    BY <1>1
  <2>2. \A i \in DOMAIN d : d[i] # home
    BY <1>1, <2>1 DEF Lists
  <2>3. Targeted(home, d)
    BY <1>1, <1>3, <2>2 DEF Targeted, Lists
  <2> QED
    BY <1>1, <1>2, <1>3, <2>3
<1>4. CASE d = << >>
  <2>1. view \in Towns /\ view # home /\ route_targets(prev, home, view) = <<view>>
    BY <1>2, <1>4
  <2>2. <<view>> \in Seq(Towns) /\ DOMAIN <<view>> = {1} /\ <<view>>[1] = view /\ <<view>> # << >>
    BY <2>1
  <2>3. Targeted(home, <<view>>)
    BY <2>1, <2>2 DEF Targeted
  <2> QED
    BY <2>1, <2>2, <2>3
<1> QED
  BY <1>3, <1>4

\* What the route reads as is made of stops.
LEMMA CurrentType ==
    ASSUME ChainInv
    PROVE  Current \in Seq(Stops) /\ Len(Current) = Len(chain)
<1>1. CASE chain = << >>
  <2>1. Current = << >>
    BY <1>1 DEF Current, read_ship_route
  <2> QED
    BY <1>1, <2>1
<1>2. CASE chain # << >>
  <2>1. PICK m : MarkedAt(chain, m)
    BY <1>2 DEF ChainInv
  <2>2. Current = Rotated(chain, m)
    BY <1>2, <2>1, ReadsFromTheMarker DEF Current, ChainInv
  <2>3. m \in 1 .. Len(chain)
    BY <2>1 DEF MarkedAt, ChainInv
  <2> QED
    BY <2>2, <2>3, RotationIs DEF ChainInv
<1> QED
  BY <1>1, <1>2

\* The name that goes with a route.
LEMMA NameIs ==
    ASSUME NEW stops \in Seq(Stops)
    PROVE  route_ship_name(stops) \in Names /\ Len(route_ship_name(stops).towns) <= NAME_TOWNS
<1> DEFINE d == Distinct(stops, NoTown)
           towns == FirstOf(d, NAME_TOWNS)
<1>1. d \in Seq(Towns) /\ NAME_TOWNS \in Nat
  BY DistinctLists, RoutesAssumption
<1> HIDE DEF d
<1>2. towns \in Seq(Towns) /\ Len(towns) = IF Len(d) <= NAME_TOWNS THEN Len(d) ELSE NAME_TOWNS
  BY <1>1, FirstOfIs
<1>3. Len(d) \in Nat
  BY <1>1
<1>4. Len(towns) <= NAME_TOWNS
  BY <1>1, <1>2, <1>3
<1>5. route_ship_name(stops) = [kind |-> "route", towns |-> towns]
  BY DEF route_ship_name, d
<1> HIDE DEF towns
<1> QED
  BY <1>2, <1>4, <1>5 DEF Names

\* A route key refuses, or sets the route, its name and what made it.
LEMMA KeyKeeps ==
    ASSUME RouteInv, NEW kind \in Kinds, NEW append \in BOOLEAN, NEW alt \in BOOLEAN,
           NEW view \in Towns \cup {NoTown}, on_route_hotkey(kind, append, alt, view)
    PROVE  RouteInv'
<1> DEFINE raw == built(kind, append, alt, Current, view)
           stops == normalised(raw)
<1>1. ChainInv /\ PendingInv /\ ClearInv /\ NameInv /\ RebuildInv /\ pending = << >> /\ pending' = pending
  BY DEF RouteInv, on_route_hotkey, Drained
<1>2. \/ UNCHANGED <<chain, head, active, name, made>>
      \/ /\ stops # << >> /\ chain' = stops /\ head' \in DOMAIN stops
         /\ active' = FALSE /\ name' = route_ship_name(stops)
         /\ made' = [kind |-> kind, append |-> append]
  BY DEF on_route_hotkey
<1>3. Current \in Seq(Stops)
  BY <1>1, CurrentType
<1>4. raw \in Seq(Stops) /\ Len(raw) <= MAX_DISPLAYABLE_STOPS
  BY <1>3, BuiltIs
<1> HIDE DEF raw
<1>5. stops \in Seq(Stops)
  BY <1>4, NormalisedIs
<1> HIDE DEF stops
<1>6. CASE UNCHANGED <<chain, head, active, name, made>>
  BY <1>1, <1>6 DEF RouteInv, ChainInv, PendingInv, ClearInv, NameInv, RebuildInv
<1>7. CASE /\ stops # << >> /\ chain' = stops /\ head' \in DOMAIN stops
           /\ active' = FALSE /\ name' = route_ship_name(stops)
           /\ made' = [kind |-> kind, append |-> append]
  <2>1. ChainInv' /\ (raw # << >> => chain' # << >> /\ MarkedAt(chain', 1)) /\ (raw = << >> => chain' = << >>)
    BY <1>4, <1>7, SetAnew DEF stops
  <2>2. chain' # << >> /\ MarkedAt(chain', 1) /\ raw # << >>
    BY <1>7, <2>1
  <2>3. made'.kind = kind /\ made'.append = append /\ made' # Cleared
    <3>1. made'.kind = kind /\ made'.append = append
      BY <1>7
    <3> QED
      BY <3>1 DEF Cleared, Kinds
  <2>4. PendingInv' /\ ClearInv'
    <3>1. DOMAIN << >> = {} /\ << >> \in Seq(Operations)
      OBVIOUS
    <3> QED
      BY <1>1, <2>3, <3>1 DEF PendingInv, ClearInv
  <2>5. NameInv'
    BY <1>5, <1>7, <2>2, NameIs DEF NameInv
  <2>6. RebuildInv'
    <3> SUFFICES ASSUME kind # "Fetch", ~append
                 PROVE  \E home \in Towns : \E targets \in Seq(Towns) :
                          Targeted(home, targets) /\ chain' = normalised(clamped(template(kind, home, targets)))
      BY <2>3 DEF RebuildInv
    <3> DEFINE home == load_town(append, Current)
               targets == route_targets(Current, home, view)
    <3>1. home \in Towns
      <4>1. Current # << >> => Current[1] \in Stops
        BY <1>3
      <4> QED
        BY <4>1, RoutesAssumption DEF load_town, Stops
    <3>2. targets_of(kind, append, alt, Current, home, view) = targets
      BY DEF targets_of
    <3> HIDE DEF home, targets
    <3>3. targets # << >> /\ raw = clamped(template(kind, home, targets))
      BY <2>2, <3>2 DEF raw, built, home
    <3>4. targets \in Seq(Towns) /\ Targeted(home, targets)
      BY <1>3, <3>1, <3>3, RouteTargetsIs DEF targets
    <3>5. chain' = normalised(clamped(template(kind, home, targets)))
      BY <1>7, <3>3 DEF stops
    <3> QED
      BY <3>1, <3>4, <3>5
  <2> QED
    BY <2>1, <2>4, <2>5, <2>6 DEF RouteInv
<1> QED
  BY <1>2, <1>6, <1>7

\* The route window sets a route anew.
LEMMA EditKeeps ==
    ASSUME RouteInv, NEW r \in ManualRoutes, EditRoute(r)
    PROVE  RouteInv'
<1> DEFINE raw == [i \in DOMAIN r |-> stop(r[i].town, r[i].role, {})]
<1>1. ChainInv /\ PendingInv /\ ClearInv /\ NameInv /\ RebuildInv /\ pending = << >>
      /\ pending' = pending /\ active' = active /\ name' = name /\ made' = ByHand
      /\ chain' = normalised(raw) /\ head' = 1
  BY DEF RouteInv, EditRoute, Drained
<1>2. r \in Seq([town : Towns, role : {"buy", "manual"}]) /\ Len(r) <= MAX_DISPLAYABLE_STOPS
  BY RoutesAssumption
<1>3. raw \in Seq(Stops) /\ Len(raw) <= MAX_DISPLAYABLE_STOPS
  <2> DEFINE R == [town : Towns, role : {"buy", "manual"}]
  <2>1. \A i \in 1 .. Len(r) : r[i] \in R
    <3> HIDE DEF R
    <3>1. r \in Seq(R)
      BY <1>2 DEF R
    <3> QED
      BY <3>1
  <2>2. \A i \in 1 .. Len(r) : stop(r[i].town, r[i].role, {}) \in Stops
    BY <2>1 DEF stop, Stops, Roles
  <2>3. raw \in [1 .. Len(r) -> Stops] /\ Len(r) \in Nat
    BY <1>2, <2>2
  <2> HIDE DEF raw
  <2>4. raw \in Seq(Stops) /\ Len(raw) = Len(r)
    BY <2>3, LenProperties
  <2> QED
    BY <1>2, <2>4
<1> HIDE DEF raw
<1>4. normalised(raw) \in Seq(Stops)
  BY <1>3, NormalisedIs
<1>5. ChainInv'
  <2>1. chain' # << >> => 1 \in DOMAIN chain'
    BY <1>1, <1>4
  <2> QED
    BY <1>1, <1>3, <2>1, SetAnew
<1>6. made'.kind \notin Kinds /\ made' # Cleared
  BY <1>1 DEF ByHand, Cleared, Kinds
<1>7. PendingInv' /\ ClearInv'
  <2>1. DOMAIN << >> = {} /\ << >> \in Seq(Operations)
    OBVIOUS
  <2> QED
    BY <1>1, <1>6, <2>1 DEF PendingInv, ClearInv
<1>8. NameInv' /\ RebuildInv'
  BY <1>1, <1>6 DEF NameInv, RebuildInv
<1> QED
  BY <1>5, <1>7, <1>8 DEF RouteInv

\* Sailing, starting, freezing and thawing leave the route and its name alone.
LEMMA SailingKeeps ==
    ASSUME RouteInv, UNCHANGED <<chain, name, pending, made>>, active' \in BOOLEAN,
           made = Cleared => (active' => active),
           chain # << >> => head' \in DOMAIN chain
    PROVE  RouteInv'
<1>1. ChainInv'
  BY DEF RouteInv, ChainInv
<1>2. PendingInv' /\ ClearInv'
  BY DEF RouteInv, PendingInv, ClearInv
<1>3. NameInv' /\ RebuildInv'
  BY DEF RouteInv, NameInv, RebuildInv
<1> QED
  BY <1>1, <1>2, <1>3 DEF RouteInv

\* Once a clear is worked off, nothing is left of it.
LEMMA WorkedOff ==
    ASSUME RouteInv, Drained, made = Cleared
    PROVE  chain = << >> /\ name = PoolName /\ ~active
<1>1. DOMAIN pending = {}
  BY DEF Drained
<1>2. DOMAIN chain = {} /\ name = PoolName /\ ~active
  BY <1>1 DEF RouteInv, ClearInv
<1> QED
  BY <1>2 DEF RouteInv, ChainInv

\* What is left of a queue after its oldest entry.
LEMMA TailIs ==
    ASSUME NEW S, NEW s \in Seq(S), s # << >>
    PROVE  /\ Len(s) \in Nat \ {0} /\ s[1] \in S /\ Tail(s) \in Seq(S)
           /\ DOMAIN Tail(s) = 1 .. Len(s) - 1
           /\ \A i \in 1 .. Len(s) - 1 : Tail(s)[i] = s[i + 1] /\ i + 1 \in DOMAIN s
           /\ \A i \in DOMAIN s : i # 1 => i - 1 \in 1 .. Len(s) - 1 /\ i - 1 + 1 = i
  OBVIOUS

\* The indices of a chain that lost its i-th stop.
LEMMA Shifted ==
    ASSUME NEW n \in Nat, NEW i \in 1 .. n
    PROVE  /\ \A k \in 1 .. n - 1 : (IF k < i THEN k ELSE k + 1) \in 1 .. n /\ (IF k < i THEN k ELSE k + 1) # i
           /\ \A k, l \in 1 .. n - 1 : (IF k < i THEN k ELSE k + 1) = (IF l < i THEN l ELSE l + 1) => k = l
           /\ \A j \in 1 .. n : j # i => \E k \in 1 .. n - 1 : (IF k < i THEN k ELSE k + 1) = j
<1>1. ASSUME NEW j \in 1 .. n, j # i PROVE \E k \in 1 .. n - 1 : (IF k < i THEN k ELSE k + 1) = j
  <2>1. CASE j < i
    <3>1. j \in 1 .. n - 1
      BY <2>1
    <3> QED
      BY <2>1, <3>1
  <2>2. CASE j > i
    <3>1. j - 1 \in 1 .. n - 1 /\ ~(j - 1 < i) /\ j - 1 + 1 = j
      BY <2>2
    <3> QED
      BY <3>1
  <2> QED
    BY <1>1, <2>1, <2>2
<1> QED
  BY <1>1

\* The game executes what is left of a clear, operation by operation.
LEMMA ExecuteKeeps ==
    ASSUME RouteInv, Execute
    PROVE  RouteInv'
<1> DEFINE op == pending[1].op
           rec == pending[1].rec
           n == Len(pending)
<1>1. ChainInv /\ PendingInv /\ ClearInv /\ NameInv /\ made = Cleared /\ made' = made /\ pending # << >>
      /\ pending \in Seq(Operations)
  BY DEF RouteInv, Execute, PendingInv
<1>2. /\ n \in Nat \ {0} /\ pending[1] \in Operations /\ pending' \in Seq(Operations)
      /\ DOMAIN pending = 1 .. n /\ DOMAIN pending' = 1 .. n - 1
      /\ \A i \in 1 .. n - 1 : pending'[i] = pending[i + 1] /\ i + 1 \in 1 .. n
      /\ \A i \in 1 .. n : i # 1 => i - 1 \in 1 .. n - 1 /\ i - 1 + 1 = i
  <2>1. pending' = Tail(pending) /\ DOMAIN pending = 1 .. n
    BY <1>1 DEF Execute
  <2> QED
    BY <1>1, <2>1, TailIs
<1>3. op \in {"stop", "remove", "rename"} /\ rec \in Nat
  BY <1>2 DEF Operations
<1>4. /\ active' = (IF op = "stop" THEN FALSE ELSE active)
      /\ name' = (IF op = "rename" THEN PoolName ELSE name)
      /\ op # "remove" => chain' = chain /\ head' = head
      /\ op = "remove" =>
           LET i == CHOOSE j \in DOMAIN chain : chain[j].rec = rec
           IN  /\ chain' = Removed(chain, i)
               /\ head' = IF i < head THEN head - 1 ELSE IF head = Len(chain) /\ head = i THEN 1 ELSE head
  <2>1. Head(pending) = pending[1]
    BY <1>1
  <2> QED
    BY <2>1 DEF Execute
<1>5. \A i \in 1 .. n - 1 : pending'[i].op = pending[i + 1].op /\ pending'[i].rec = pending[i + 1].rec
  BY <1>2
<1>12. ASSUME NEW i \in 1 .. n, i # 1
       PROVE  \E k \in DOMAIN pending' : pending'[k].op = pending[i].op /\ pending'[k].rec = pending[i].rec
  <2> DEFINE k == i - 1
  <2>1. k \in 1 .. n - 1 /\ k + 1 = i
    BY <1>2, <1>12
  <2> HIDE DEF k
  <2>2. pending'[k].op = pending[k + 1].op /\ pending'[k].rec = pending[k + 1].rec
    BY <1>5, <2>1
  <2>3. pending'[k].op = pending[i].op /\ pending'[k].rec = pending[i].rec /\ k \in DOMAIN pending'
    BY <1>2, <2>1, <2>2
  <2> QED
    BY <2>3
<1>6. made.kind \notin Kinds /\ made'.kind \notin Kinds
  BY <1>1 DEF Cleared, Kinds
<1>7. NameInv' /\ RebuildInv'
  <2>1. PoolName \in Names /\ Len(PoolName.towns) <= NAME_TOWNS
    <3>1. << >> \in Seq(Towns) /\ Len(<< >>) = 0
      OBVIOUS
    <3>2. PoolName.towns = << >> /\ PoolName \in Names
      BY <3>1 DEF PoolName, Names
    <3> QED
      BY <3>1, <3>2, RoutesAssumption
  <2>2. name' \in Names /\ Len(name'.towns) <= NAME_TOWNS /\ active' \in BOOLEAN
    BY <1>1, <1>4, <2>1 DEF NameInv
  <2> QED
    BY <1>6, <2>2 DEF NameInv, RebuildInv
<1>8. (name' # PoolName => \E i \in DOMAIN pending' : pending'[i].op = "rename")
      /\ (active' => \E i \in DOMAIN pending' : pending'[i].op = "stop")
  <2>1. ASSUME name' # PoolName PROVE \E i \in DOMAIN pending' : pending'[i].op = "rename"
    <3>1. op # "rename" /\ name # PoolName
      BY <1>4, <2>1
    <3>2. PICK i \in 1 .. n : pending[i].op = "rename"
      BY <1>1, <1>2, <3>1 DEF ClearInv
    <3>3. i # 1
      BY <3>1, <3>2
    <3> QED
      BY <1>12, <3>2, <3>3
  <2>2. ASSUME active' PROVE \E i \in DOMAIN pending' : pending'[i].op = "stop"
    <3>1. op # "stop" /\ active
      BY <1>4, <2>2
    <3>2. PICK i \in 1 .. n : pending[i].op = "stop"
      BY <1>1, <1>2, <3>1 DEF ClearInv
    <3>3. i # 1
      BY <3>1, <3>2
    <3> QED
      BY <1>12, <3>2, <3>3
  <2> QED
    BY <2>1, <2>2
<1>9. \A i, j \in DOMAIN pending' :
         pending'[i].op = "remove" /\ pending'[j].op = "remove" /\ pending'[i].rec = pending'[j].rec => i = j
  <2> SUFFICES ASSUME NEW i \in 1 .. n - 1, NEW j \in 1 .. n - 1,
                      pending'[i].op = "remove", pending'[j].op = "remove", pending'[i].rec = pending'[j].rec
               PROVE  i = j
    BY <1>2
  <2>1. i + 1 = j + 1
    BY <1>1, <1>2, <1>5 DEF PendingInv
  <2> QED
    BY <1>2, <2>1
<1>10. CASE op # "remove"
  <2>1. chain' = chain /\ head' = head
    BY <1>4, <1>10
  <2>2. ChainInv'
    BY <1>1, <2>1 DEF ChainInv
  <2>3. ASSUME NEW i \in DOMAIN pending', pending'[i].op = "remove"
        PROVE  \E j \in DOMAIN chain' : chain'[j].rec = pending'[i].rec
    <3>1. \E j \in DOMAIN chain : chain[j].rec = pending[i + 1].rec
      BY <1>1, <1>2, <1>5, <2>3 DEF PendingInv
    <3> QED
      BY <1>2, <1>5, <2>1, <3>1
  <2>4. ASSUME NEW j \in DOMAIN chain'
        PROVE  \E i \in DOMAIN pending' : pending'[i].op = "remove" /\ pending'[i].rec = chain'[j].rec
    <3>1. PICK i \in 1 .. n : pending[i].op = "remove" /\ pending[i].rec = chain[j].rec
      BY <1>1, <1>2, <2>1 DEF ClearInv
    <3>2. i # 1
      BY <1>10, <3>1
    <3> QED
      BY <1>12, <2>1, <3>1, <3>2
  <2>5. PendingInv' /\ ClearInv'
    BY <1>1, <1>2, <1>8, <1>9, <2>3, <2>4 DEF PendingInv, ClearInv
  <2> QED
    BY <1>7, <2>2, <2>5 DEF RouteInv
<1>11. CASE op = "remove"
  <2> DEFINE i == CHOOSE j \in DOMAIN chain : chain[j].rec = rec
             l == Len(chain)
             old(k) == IF k < i THEN k ELSE k + 1
  <2>1. i \in DOMAIN chain /\ chain[i].rec = rec
    <3>1. \E j \in DOMAIN chain : chain[j].rec = rec
      BY <1>1, <1>2, <1>11 DEF PendingInv
    <3> QED
      BY <3>1
  <2>2. /\ chain' = Removed(chain, i)
        /\ head' = IF i < head THEN head - 1 ELSE IF head = l /\ head = i THEN 1 ELSE head
    BY <1>4, <1>11
  <2> HIDE DEF i
  <2>3. l \in Nat /\ DOMAIN chain = 1 .. l /\ chain \in Seq(Stops) /\ chain # << >> /\ head \in 1 .. l
        /\ l <= MAX_DISPLAYABLE_STOPS
    BY <1>1, <2>1 DEF ChainInv
  <2>4. PICK m : MarkedAt(chain, m)
    BY <1>1, <2>3 DEF ChainInv
  <2>5. /\ chain' \in Seq(Stops) /\ Len(chain') = l - 1
        /\ \A k \in 1 .. l - 1 : chain'[k].rec = chain[old(k)].rec
        /\ l > 1 => \E q \in 1 .. l - 1 : MarkedAt(chain', q)
    BY <2>1, <2>2, <2>3, <2>4, RemovalKeeps
  <2>6. /\ \A k \in 1 .. l - 1 : old(k) \in 1 .. l /\ old(k) # i
        /\ \A k, q \in 1 .. l - 1 : old(k) = old(q) => k = q
        /\ \A j \in 1 .. l : j # i => \E k \in 1 .. l - 1 : old(k) = j
    BY <2>1, <2>3, Shifted
  <2> HIDE DEF old
  <2>7. DOMAIN chain' = 1 .. l - 1 /\ (chain' # << >> => l > 1)
    BY <2>3, <2>5
  <2>8. RecsDiffer(chain')
    <3> SUFFICES ASSUME NEW k \in 1 .. l - 1, NEW q \in 1 .. l - 1, chain'[k].rec = chain'[q].rec PROVE k = q
      BY <2>7 DEF RecsDiffer
    <3>1. chain[old(k)].rec = chain[old(q)].rec /\ old(k) \in DOMAIN chain /\ old(q) \in DOMAIN chain
      BY <2>3, <2>5, <2>6
    <3>2. old(k) = old(q)
      BY <1>1, <3>1 DEF ChainInv, RecsDiffer
    <3> QED
      BY <2>6, <3>2
  <2>9. ChainInv'
    <3>1. chain' # << >> => head' \in 1 .. l - 1
      <4> SUFFICES ASSUME l > 1 PROVE head' \in 1 .. l - 1
        BY <2>7
      <4>1. i \in 1 .. l /\ head \in 1 .. l /\ l \in Nat
        BY <2>1, <2>3
      <4>2. CASE i < head
        BY <2>2, <4>1, <4>2
      <4>3. CASE ~(i < head) /\ head = l /\ head = i
        BY <2>2, <4>1, <4>3
      <4>4. CASE ~(i < head) /\ ~(head = l /\ head = i)
        BY <2>2, <4>1, <4>4
      <4> QED
        BY <4>2, <4>3, <4>4
    <3>2. l - 1 <= MAX_DISPLAYABLE_STOPS
      BY <2>3, RoutesAssumption
    <3> QED
      BY <2>5, <2>7, <2>8, <3>1, <3>2 DEF ChainInv
  <2>10. ASSUME NEW j \in DOMAIN pending', pending'[j].op = "remove"
         PROVE  \E k \in DOMAIN chain' : chain'[k].rec = pending'[j].rec
    <3>1. pending[j + 1].op = "remove" /\ pending'[j].rec = pending[j + 1].rec /\ j + 1 \in 1 .. n /\ j + 1 # 1
      BY <1>2, <1>5, <2>10
    <3>2. pending[j + 1].rec # rec
      BY <1>1, <1>2, <1>11, <3>1 DEF PendingInv
    <3>3. PICK q \in 1 .. l : chain[q].rec = pending[j + 1].rec
      BY <1>1, <1>2, <2>3, <3>1 DEF PendingInv
    <3>4. q # i
      BY <2>1, <3>2, <3>3
    <3>5. PICK k \in 1 .. l - 1 : old(k) = q
      BY <2>6, <3>4
    <3> QED
      BY <2>5, <2>7, <3>1, <3>3, <3>5
  <2>11. ASSUME NEW k \in DOMAIN chain'
         PROVE  \E j \in DOMAIN pending' : pending'[j].op = "remove" /\ pending'[j].rec = chain'[k].rec
    <3>1. old(k) \in 1 .. l /\ old(k) # i /\ chain'[k].rec = chain[old(k)].rec
      BY <2>5, <2>6, <2>7
    <3>2. PICK j \in 1 .. n : pending[j].op = "remove" /\ pending[j].rec = chain[old(k)].rec
      BY <1>1, <1>2, <2>3, <3>1 DEF ClearInv
    <3>3. chain[old(k)].rec # rec
      BY <1>1, <2>1, <2>3, <3>1 DEF ChainInv, RecsDiffer
    <3>4. j # 1
      BY <3>2, <3>3
    <3> QED
      BY <1>12, <3>1, <3>2, <3>4
  <2>12. PendingInv' /\ ClearInv'
    BY <1>1, <1>2, <1>8, <1>9, <2>10, <2>11 DEF PendingInv, ClearInv
  <2> QED
    BY <1>7, <2>9, <2>12 DEF RouteInv
<1> QED
  BY <1>10, <1>11

-----------------------------------------------------------------------------
(* The operators: a route read back gives the towns it was made for.       *)

\* Of two lists of the same towns, each goes on as the other does.
LEMMA ListsNext ==
    ASSUME NEW stops, NEW except, NEW n \in Nat, NEW d \in Seq(Towns), NEW e \in Seq(Towns),
           Lists(d, stops, n, except), Lists(e, stops, n, except), NEW m \in Nat,
           \A i \in 1 .. m - 1 : (i <= Len(d) <=> i <= Len(e)) /\ (i <= Len(d) => d[i] = e[i]),
           m \in 1 .. Len(d)
    PROVE  m <= Len(e) /\ d[m] = e[m]
<1>1. /\ Len(d) \in Nat /\ DOMAIN d = 1 .. Len(d) /\ \A i \in 1 .. Len(d) : d[i] \in Towns
      /\ Len(e) \in Nat /\ DOMAIN e = 1 .. Len(e) /\ \A i \in 1 .. Len(e) : e[i] \in Towns
  OBVIOUS
<1>2. \A t \in Towns : (\E i \in 1 .. Len(d) : d[i] = t) <=> (\E i \in 1 .. Len(e) : e[i] = t)
  BY <1>1 DEF Lists
<1>3. PICK j \in 1 .. Len(e) : e[j] = d[m]
  BY <1>1, <1>2
<1>4. \A i, k \in 1 .. Len(d) : d[i] = d[k] => i = k
  BY <1>1 DEF Lists
<1>5. \A i, k \in 1 .. Len(e) : e[i] = e[k] => i = k
  BY <1>1 DEF Lists
<1>6. j >= m
  <2> SUFFICES ASSUME j < m PROVE FALSE
    BY <1>1
  <2>1. j \in 1 .. m - 1 /\ j <= Len(e)
    BY <1>1
  <2>2. j \in 1 .. Len(d) /\ d[j] = e[j]
    BY <1>1, <2>1
  <2>3. j = m
    BY <1>3, <1>4, <2>2
  <2> QED
    BY <1>1, <2>3
<1>7. m \in 1 .. Len(e)
  BY <1>1, <1>6
<1>8. ASSUME j > m PROVE FALSE
  <2>1. PICK i \in 1 .. Len(d) : d[i] = e[m]
    BY <1>1, <1>2, <1>7
  <2>2. i >= m
    <3> SUFFICES ASSUME i < m PROVE FALSE
      BY <1>1
    <3>1. i \in 1 .. m - 1 /\ i <= Len(d)
      BY <1>1
    <3>2. i \in 1 .. Len(e) /\ d[i] = e[i]
      BY <1>1, <3>1
    <3>3. i = m
      BY <1>5, <1>7, <2>1, <3>2
    <3> QED
      BY <1>1, <3>3
  <2>3. i # m
    <3>1. e[m] # e[j]
      BY <1>1, <1>5, <1>7, <1>8
    <3> QED
      BY <1>3, <2>1, <3>1
  <2>4. m < i
    BY <1>1, <2>2, <2>3
  <2>5. PICK p \in 1 .. n : stops[p].town = d[m] /\ \A q \in 1 .. p : stops[q].town # d[i]
    <3>1. \A k, l \in DOMAIN d : k < l => \E p \in 1 .. n : stops[p].town = d[k] /\ \A q \in 1 .. p : stops[q].town # d[l]
      BY Zenon DEF Lists
    <3>2. m \in DOMAIN d /\ i \in DOMAIN d
      BY <1>1
    <3> QED
      BY <2>4, <3>1, <3>2
  <2>6. PICK r \in 1 .. n : stops[r].town = e[m] /\ \A q \in 1 .. r : stops[q].town # e[j]
    <3>1. \A k, l \in DOMAIN e : k < l => \E q \in 1 .. n : stops[q].town = e[k] /\ \A u \in 1 .. q : stops[u].town # e[l]
      BY Zenon DEF Lists
    <3>2. m \in DOMAIN e /\ j \in DOMAIN e
      BY <1>1, <1>7
    <3> QED
      BY <1>8, <3>1, <3>2
  <2>7. p \in 1 .. r \/ r \in 1 .. p
    OBVIOUS
  <2> QED
    BY <1>3, <2>1, <2>5, <2>6, <2>7
<1> QED
  BY <1>1, <1>3, <1>6, <1>8

\* There is one such list.
LEMMA ListsOnce ==
    ASSUME NEW stops, NEW except, NEW n \in Nat, NEW d \in Seq(Towns), NEW e \in Seq(Towns),
           Lists(d, stops, n, except), Lists(e, stops, n, except)
    PROVE  d = e
<1> DEFINE Agree(i) == (i <= Len(d) <=> i <= Len(e)) /\ (i <= Len(d) => d[i] = e[i])
           T == {m \in Nat : \A i \in 1 .. m : Agree(i)}
<1>1. Len(d) \in Nat /\ Len(e) \in Nat
  OBVIOUS
<1>2. 0 \in T
  OBVIOUS
<1>3. ASSUME NEW k \in Nat, k \in T PROVE k + 1 \in T
  <2> DEFINE m == k + 1
  <2>1. m \in Nat /\ m - 1 = k /\ m >= 1
    OBVIOUS
  <2>2. \A i \in 1 .. k : Agree(i)
    BY <1>3
  <2> HIDE DEF m
  <2>3. \A i \in 1 .. m - 1 : (i <= Len(d) <=> i <= Len(e)) /\ (i <= Len(d) => d[i] = e[i])
    BY <2>1, <2>2
  <2>4. m \in 1 .. Len(d) => m <= Len(e) /\ d[m] = e[m]
    BY <2>1, <2>3, ListsNext
  <2>5. \A i \in 1 .. m - 1 : (i <= Len(e) <=> i <= Len(d)) /\ (i <= Len(e) => e[i] = d[i])
    BY <2>3
  <2>6. m \in 1 .. Len(e) => m <= Len(d) /\ e[m] = d[m]
    BY <2>1, <2>5, ListsNext
  <2>7. Agree(m)
    BY <1>1, <2>1, <2>4, <2>6
  <2>8. \A i \in 1 .. m : i \in 1 .. k \/ i = m
    BY <2>1
  <2> HIDE DEF Agree
  <2>9. \A i \in 1 .. m : Agree(i)
    BY <2>2, <2>7, <2>8
  <2> QED
    BY <2>1, <2>9 DEF m
<1> HIDE DEF T
<1>4. \A m \in Nat : m \in T
  BY <1>2, <1>3, SetInduction
<1>5. \A i \in Nat \ {0} : Agree(i)
  <2> SUFFICES ASSUME NEW i \in Nat \ {0} PROVE Agree(i)
    OBVIOUS
  <2>1. i \in T /\ i \in 1 .. i
    BY <1>4
  <2> QED
    BY <2>1 DEF T
<1>6. Len(d) = Len(e)
  BY <1>1, <1>5
<1>7. \A i \in 1 .. Len(d) : d[i] = e[i]
  BY <1>1, <1>5
<1> QED
  BY <1>6, <1>7, SeqEqual

\* Routes through the same towns list the same ones.
LEMMA DistinctOfSame ==
    ASSUME NEW s \in Seq(Stops), NEW t \in Seq(Stops), NEW except,
           Len(s) = Len(t), \A i \in 1 .. Len(s) : s[i].town = t[i].town
    PROVE  Distinct(s, except) = Distinct(t, except)
<1> DEFINE d == Distinct(s, except)
           e == Distinct(t, except)
           n == Len(s)
<1>1. d \in Seq(Towns) /\ e \in Seq(Towns) /\ Lists(d, s, n, except) /\ Lists(e, t, n, except) /\ n \in Nat
  BY DistinctLists
<1> HIDE DEF d, e
<1>2. Lists(e, s, n, except)
  <2>1. \A p \in 1 .. n : s[p].town = t[p].town
    OBVIOUS
  <2>2. \A p \in 1 .. n : \A q \in 1 .. p : q \in 1 .. n
    BY <1>1
  <2> HIDE DEF n
  <2>3. \A i, j \in DOMAIN e : e[i] = e[j] => i = j
    BY <1>1 DEF Lists
  <2>4. \A u \in Towns : (\E i \in DOMAIN e : e[i] = u) <=> u # except /\ \E p \in 1 .. n : s[p].town = u
    <3>1. \A u \in Towns : (\E i \in DOMAIN e : e[i] = u) <=> u # except /\ \E p \in 1 .. n : t[p].town = u
      BY <1>1 DEF Lists
    <3>2. \A u : (\E p \in 1 .. n : s[p].town = u) <=> (\E p \in 1 .. n : t[p].town = u)
      BY <2>1
    <3> QED
      BY <3>1, <3>2
  <2>5. ASSUME NEW i \in DOMAIN e, NEW j \in DOMAIN e, i < j
        PROVE  \E p \in 1 .. n : s[p].town = e[i] /\ \A q \in 1 .. p : s[q].town # e[j]
    <3>1. \A k, l \in DOMAIN e : k < l => \E p \in 1 .. n : t[p].town = e[k] /\ \A q \in 1 .. p : t[q].town # e[l]
      BY <1>1 DEF Lists
    <3>2. PICK p \in 1 .. n : t[p].town = e[i] /\ \A q \in 1 .. p : t[q].town # e[j]
      BY <2>5, <3>1
    <3>3. s[p].town = e[i] /\ \A q \in 1 .. p : s[q].town # e[j]
      BY <2>1, <2>2, <3>2
    <3> QED
      BY <3>3
  <2> QED
    BY <2>3, <2>4, <2>5 DEF Lists
<1>3. d = e
  BY <1>1, <1>2, ListsOnce
<1> QED
  BY <1>3 DEF d, e

-----------------------------------------------------------------------------
(* The operators: where the stops of a target are in its template.         *)

\* The targets' stops, put together target by target.
InTurns(f, kind, targets) ==
    /\ f \in [0 .. Len(targets) -> Seq(Stops)] /\ f[0] = << >>
    /\ \A n \in 1 .. Len(targets) : f[n] = f[n - 1] \o middle(kind, targets[n])

\* f[q] begins with the stops of fewer targets, each of its stops is one of a target whose
\* stops begin there or earlier, and the last target has at least one.
Placed(f, targets, q) ==
    /\ \A r \in 0 .. q : Len(f[r]) <= Len(f[q]) /\ \A j \in 1 .. Len(f[r]) : f[q][j] = f[r][j]
    /\ \A j \in 1 .. Len(f[q]) : \E r \in 1 .. q : f[q][j].town = targets[r] /\ Len(f[r - 1]) < j
    /\ q >= 1 => Len(f[q - 1]) < Len(f[q]) /\ f[q][Len(f[q - 1]) + 1].town = targets[q]

\* One target more.
LEMMA NextPlaced ==
    ASSUME NEW kind \in Kinds, NEW targets \in Seq(Towns), NEW f, InTurns(f, kind, targets),
           NEW q \in Nat, q + 1 <= Len(targets), Placed(f, targets, q)
    PROVE  Placed(f, targets, q + 1)
<1> DEFINE p == q + 1
           N == Len(targets)
           a == f[q]
           b == middle(kind, targets[p])
           w == f[p]
<1>1. N \in Nat /\ p \in 1 .. N /\ q \in 0 .. N /\ p - 1 = q /\ p \in 0 .. N /\ q \in 0 .. q /\ p >= 1
  OBVIOUS
<1>2. \A r : r \in 0 .. p <=> r \in 0 .. q \/ r = p
  OBVIOUS
<1>3. \A r : r \in 1 .. p <=> r \in 1 .. q \/ r = p
  OBVIOUS
<1> HIDE DEF p, N
<1>4. targets[p] \in Towns
  BY <1>1 DEF N
<1>5. a \in Seq(Stops) /\ w \in Seq(Stops) /\ \A r \in 0 .. N : f[r] \in Seq(Stops)
  BY <1>1 DEF InTurns, N
<1>6. b \in Seq(Stops) /\ Len(b) \in 1 .. 4 /\ \A i \in 1 .. Len(b) : b[i].town = targets[p]
  BY <1>4, MiddleIs
<1>7. w = a \o b
  BY <1>1 DEF InTurns, N
<1> HIDE DEF a, b, w
<1>8. /\ Len(w) = Len(a) + Len(b)
      /\ \A i \in 1 .. Len(a) : w[i] = a[i]
      /\ \A i \in 1 .. Len(b) : w[Len(a) + i] = b[i]
  BY <1>5, <1>6, <1>7, Joined
<1>9. Len(a) \in Nat /\ Len(b) \in Nat /\ Len(w) \in Nat
  BY <1>5, <1>6
<1>10. /\ \A r \in 0 .. q : Len(f[r]) <= Len(a) /\ \A j \in 1 .. Len(f[r]) : a[j] = f[r][j]
       /\ \A j \in 1 .. Len(a) : \E r \in 1 .. q : a[j].town = targets[r] /\ Len(f[r - 1]) < j
  BY DEF Placed, a
<1>11. ASSUME NEW r \in 0 .. p
       PROVE  Len(f[r]) <= Len(w) /\ \A j \in 1 .. Len(f[r]) : w[j] = f[r][j]
  <2>1. CASE r = p
    <3>1. f[r] = w
      BY <2>1 DEF w
    <3> QED
      BY <1>9, <3>1
  <2>2. CASE r \in 0 .. q
    <3>1. Len(f[r]) \in Nat
      <4>1. r \in 0 .. N
        BY <1>1, <2>2
      <4> QED
        BY <1>5, <4>1
    <3>2. Len(f[r]) <= Len(a) /\ \A j \in 1 .. Len(f[r]) : a[j] = f[r][j]
      BY <1>10, <2>2
    <3>3. Len(f[r]) <= Len(w)
      BY <1>6, <1>8, <1>9, <3>1, <3>2
    <3>4. \A j \in 1 .. Len(f[r]) : j \in 1 .. Len(a)
      BY <1>9, <3>1, <3>2
    <3> QED
      BY <1>8, <3>2, <3>3, <3>4
  <2> QED
    BY <1>2, <2>1, <2>2
<1>12. ASSUME NEW j \in 1 .. Len(w)
       PROVE  \E r \in 1 .. p : w[j].town = targets[r] /\ Len(f[r - 1]) < j
  <2>1. CASE j \in 1 .. Len(a)
    BY <1>3, <1>8, <1>10, <2>1
  <2>2. CASE j \notin 1 .. Len(a)
    <3> DEFINE i == j - Len(a)
    <3>1. i \in 1 .. Len(b) /\ Len(a) + i = j /\ Len(a) < j
      BY <1>8, <1>9, <2>2
    <3> HIDE DEF i
    <3>2. w[j].town = targets[p]
      BY <1>6, <1>8, <3>1
    <3>3. f[p - 1] = a
      BY <1>1 DEF a
    <3>4. p \in 1 .. p
      BY <1>1
    <3> QED
      BY <3>1, <3>2, <3>3, <3>4
  <2> QED
    BY <2>1, <2>2
<1>13. Len(a) < Len(w) /\ w[Len(a) + 1].town = targets[p]
  <2>1. 1 \in 1 .. Len(b)
    <3>1. Len(b) \in 1 .. 4
      BY <1>6
    <3> QED
      BY <3>1
  <2> QED
    BY <1>6, <1>8, <1>9, <2>1
<1>14. f[p] = w /\ f[p - 1] = a
  BY <1>1 DEF w, a
<1>15. Placed(f, targets, p)
  BY <1>11, <1>12, <1>13, <1>14 DEF Placed
<1> QED
  BY <1>15 DEF p

\* The stops of all targets.
LEMMA AllPlaced ==
    ASSUME NEW kind \in Kinds, NEW targets \in Seq(Towns), NEW f, InTurns(f, kind, targets)
    PROVE  \A q \in 0 .. Len(targets) : Placed(f, targets, q)
<1> DEFINE T == {q \in Nat : q <= Len(targets) => Placed(f, targets, q)}
<1>1. 0 \in T
  <2>1. f[0] = << >> /\ Len(<< >>) = 0
    BY DEF InTurns
  <2>2. \A r \in 0 .. 0 : r = 0
    OBVIOUS
  <2>3. Placed(f, targets, 0)
    BY <2>1, <2>2 DEF Placed
  <2> QED
    BY <2>3
<1>2. ASSUME NEW q \in Nat, q \in T PROVE q + 1 \in T
  <2> SUFFICES ASSUME q + 1 <= Len(targets) PROVE Placed(f, targets, q + 1)
    OBVIOUS
  <2>1. Placed(f, targets, q)
    <3>1. Len(targets) \in Nat
      OBVIOUS
    <3> QED
      BY <1>2, <3>1
  <2> QED
    BY <2>1, NextPlaced
<1> HIDE DEF T
<1>3. \A q \in Nat : q \in T
  BY <1>1, <1>2, SetInduction
<1> QED
  BY <1>3 DEF T

\* Targets that begin alike have stops that begin alike.
LEMMA SameTurns ==
    ASSUME NEW kind \in Kinds, NEW s \in Seq(Towns), NEW t \in Seq(Towns), NEW f, NEW g,
           InTurns(f, kind, s), InTurns(g, kind, t), Len(t) <= Len(s),
           \A i \in 1 .. Len(t) : t[i] = s[i]
    PROVE  \A n \in 0 .. Len(t) : g[n] = f[n]
<1> DEFINE T == {n \in Nat : n <= Len(t) => g[n] = f[n]}
<1>1. 0 \in T
  BY DEF InTurns
<1>2. ASSUME NEW n \in Nat, n \in T PROVE n + 1 \in T
  <2> SUFFICES ASSUME n + 1 <= Len(t) PROVE g[n + 1] = f[n + 1]
    OBVIOUS
  <2> DEFINE m == n + 1
  <2>1. m \in 1 .. Len(t) /\ m \in 1 .. Len(s) /\ m - 1 = n
    OBVIOUS
  <2>2. g[n] = f[n]
    <3>1. Len(t) \in Nat
      OBVIOUS
    <3> QED
      BY <1>2, <3>1
  <2> HIDE DEF m
  <2>3. g[m] = g[m - 1] \o middle(kind, t[m])
    BY <2>1 DEF InTurns
  <2>4. f[m] = f[m - 1] \o middle(kind, s[m])
    BY <2>1 DEF InTurns
  <2>5. g[m] = f[m]
    BY <2>1, <2>2, <2>3, <2>4
  <2> QED
    BY <2>5 DEF m
<1> HIDE DEF T
<1>3. \A n \in Nat : n \in T
  BY <1>1, <1>2, SetInduction
<1> QED
  BY <1>3 DEF T

\* A template, stop by stop.
LEMMA TemplateLies ==
    ASSUME NEW kind \in Kinds, NEW home \in Towns, NEW targets \in Seq(Towns)
    PROVE  LET w == template(kind, home, targets)
               n == Len(targets)
           IN  /\ w \in Seq(Stops)
               /\ \E f : /\ InTurns(f, kind, targets)
                         /\ Len(w) >= 1 + Len(f[n])
                         /\ w[1].town = home /\ w[1].role = IF kind \in Collecting THEN "transfer" ELSE "load"
                         /\ \A j \in 1 .. Len(f[n]) : w[1 + j] = f[n][j]
                         /\ \A j \in 1 .. Len(w) : j > 1 + Len(f[n]) => w[j].town = home
<1> DEFINE w == template(kind, home, targets)
           n == Len(targets)
           body == middles(kind, targets)
<1>1. PICK f : InTurns(f, kind, targets) /\ f[n] = body
  BY MiddlesInTurns DEF InTurns
<1>2. body \in Seq(Stops)
  BY TemplateIs
<1>3. PICK first, last \in Seq(Stops) :
        /\ Len(first) = 1 /\ first[1].town = home
        /\ first[1].role = IF kind \in Collecting THEN "transfer" ELSE "load"
        /\ last = IF kind \in Collecting THEN << >> ELSE <<stop(home, "unload", {})>>
        /\ w = first \o body \o last
  BY TemplateIs
<1> HIDE DEF w, n, body
<1>4. \A i \in 1 .. Len(last) : last[i].town = home
  <2>1. stop(home, "unload", {}).town = home
    BY DEF stop
  <2>2. CASE last = << >>
    BY <2>2
  <2>3. CASE last = <<stop(home, "unload", {})>>
    <3>1. Len(last) = 1 /\ last[1] = stop(home, "unload", {}) /\ \A i \in 1 .. 1 : i = 1
      BY <2>3
    <3> QED
      BY <2>1, <3>1
  <2> QED
    BY <1>3, <2>2, <2>3
<1> DEFINE front == first \o body
<1>5. /\ front \in Seq(Stops) /\ Len(front) = Len(first) + Len(body)
      /\ \A i \in 1 .. Len(first) : front[i] = first[i]
      /\ \A i \in 1 .. Len(body) : front[Len(first) + i] = body[i]
  BY <1>2, Joined
<1>6. w = front \o last
  BY <1>3
<1> HIDE DEF front
<1>7. /\ w \in Seq(Stops) /\ Len(w) = Len(front) + Len(last)
      /\ \A i \in 1 .. Len(front) : w[i] = front[i]
      /\ \A i \in 1 .. Len(last) : w[Len(front) + i] = last[i]
  <2> DEFINE u == front \o last
  <2>1. /\ u \in Seq(Stops) /\ Len(u) = Len(front) + Len(last)
        /\ \A i \in 1 .. Len(front) : u[i] = front[i]
        /\ \A i \in 1 .. Len(last) : u[Len(front) + i] = last[i]
    <3>1. front \in Seq(Stops)
      BY <1>5
    <3> QED
      BY <3>1, Joined
  <2>2. w = u
    BY <1>6
  <2> HIDE DEF u
  <2> QED
    BY <2>1, <2>2
<1>8. Len(body) \in Nat /\ Len(last) \in Nat /\ Len(first) = 1 /\ Len(front) = 1 + Len(body)
  BY <1>2, <1>3, <1>5
<1>9. w[1] = first[1]
  <2> DEFINE one == 1
  <2>1. one \in 1 .. Len(first) /\ one \in 1 .. Len(front)
    BY <1>8
  <2> HIDE DEF one
  <2>2. front[one] = first[one]
    BY <1>5, <2>1
  <2>3. w[one] = front[one]
    BY <1>7, <2>1
  <2> QED
    BY <2>2, <2>3 DEF one
<1>10. \A j \in 1 .. Len(body) : w[1 + j] = body[j]
  <2> SUFFICES ASSUME NEW j \in 1 .. Len(body) PROVE w[1 + j] = body[j]
    OBVIOUS
  <2> DEFINE k == 1 + j
  <2>1. k \in 1 .. Len(front) /\ k = Len(first) + j
    BY <1>8
  <2> HIDE DEF k
  <2>2. w[k] = front[k]
    BY <1>7, <2>1
  <2>3. front[k] = body[j]
    BY <1>5, <2>1
  <2> QED
    BY <2>2, <2>3 DEF k
<1>11. \A j \in 1 .. Len(w) : j > 1 + Len(body) => w[j].town = home
  <2> SUFFICES ASSUME NEW j \in 1 .. Len(w), j > 1 + Len(body) PROVE w[j].town = home
    OBVIOUS
  <2> DEFINE k == j - (1 + Len(body))
  <2>1. k \in 1 .. Len(last) /\ Len(front) + k = j
    BY <1>7, <1>8
  <2> HIDE DEF k
  <2> QED
    BY <1>4, <1>7, <2>1
<1>12. Len(w) >= 1 + Len(body)
  BY <1>7, <1>8
<1>13. w[1].town = home /\ w[1].role = IF kind \in Collecting THEN "transfer" ELSE "load"
  BY <1>3, <1>9
<1>14. \E g : /\ InTurns(g, kind, targets)
              /\ Len(w) >= 1 + Len(g[n])
              /\ w[1].town = home /\ w[1].role = IF kind \in Collecting THEN "transfer" ELSE "load"
              /\ \A j \in 1 .. Len(g[n]) : w[1 + j] = g[n][j]
              /\ \A j \in 1 .. Len(w) : j > 1 + Len(g[n]) => w[j].town = home
  BY <1>1, <1>10, <1>11, <1>12, <1>13
<1> QED
  BY <1>7, <1>14 DEF w, n

\* What the window has room for.
LEMMA ClampedIs ==
    ASSUME NEW w \in Seq(Stops)
    PROVE  /\ clamped(w) \in Seq(Stops)
           /\ Len(clamped(w)) = IF Len(w) <= MAX_DISPLAYABLE_STOPS THEN Len(w) ELSE MAX_DISPLAYABLE_STOPS
           /\ \A i \in 1 .. Len(clamped(w)) : clamped(w)[i] = w[i]
  BY FirstOfIs, RoutesAssumption DEF clamped

\* The towns that a template cut off at the window's rows still shows are its first p
\* targets, and a template for these looks the same.
LEMMA CutOffShows ==
    ASSUME NEW kind \in Kinds, NEW home \in Towns, NEW targets \in Seq(Towns), Targeted(home, targets)
    PROVE  LET c == clamped(template(kind, home, targets))
           IN  /\ c # << >> /\ c[1].town = home
               /\ Distinct(c, home) # << >>
               /\ SameRoute(clamped(template(kind, home, Distinct(c, home))), c)
<1> DEFINE w == template(kind, home, targets)
           N == Len(targets)
           M == MAX_DISPLAYABLE_STOPS
           c == clamped(w)
<1>1. N \in Nat /\ N >= 1 /\ M \in Nat /\ M >= 2 /\ DOMAIN targets = 1 .. N /\ \A i \in 1 .. N : targets[i] \in Towns
  BY RoutesAssumption DEF Targeted
<1>2. w \in Seq(Stops)
  BY TemplateLies
<1>3. PICK f : /\ InTurns(f, kind, targets)
               /\ Len(w) >= 1 + Len(f[N])
               /\ w[1].town = home /\ w[1].role = IF kind \in Collecting THEN "transfer" ELSE "load"
               /\ \A j \in 1 .. Len(f[N]) : w[1 + j] = f[N][j]
               /\ \A j \in 1 .. Len(w) : j > 1 + Len(f[N]) => w[j].town = home
  BY TemplateLies
<1>4. \A q \in 0 .. N : Placed(f, targets, q)
  BY <1>3, AllPlaced
<1> HIDE DEF w, N
<1>5. c \in Seq(Stops) /\ Len(c) = (IF Len(w) <= M THEN Len(w) ELSE M) /\ \A i \in 1 .. Len(c) : c[i] = w[i]
  BY <1>2, ClampedIs
<1> HIDE DEF M, c
<1>6. f[0] = << >> /\ \A q \in 0 .. N : f[q] \in Seq(Stops) /\ Len(f[q]) \in Nat
  <2>1. f \in [0 .. N -> Seq(Stops)] /\ f[0] = << >>
    BY <1>3 DEF InTurns, N
  <2>2. \A q \in 0 .. N : f[q] \in Seq(Stops)
    BY <2>1
  <2> QED
    BY <2>1, <2>2
<1>7. \A q \in 0 .. N : \A r \in 0 .. q :
        r \in 0 .. N /\ Len(f[r]) <= Len(f[q]) /\ \A j \in 1 .. Len(f[r]) : f[q][j] = f[r][j]
  BY <1>1, <1>4 DEF Placed
<1>8. \A q \in 0 .. N : \A j \in 1 .. Len(f[q]) : \E r \in 1 .. q : f[q][j].town = targets[r] /\ Len(f[r - 1]) < j
  BY <1>4 DEF Placed
<1>9. \A q \in 1 .. N : Len(f[q - 1]) < Len(f[q]) /\ f[q][Len(f[q - 1]) + 1].town = targets[q]
  BY <1>1, <1>4 DEF Placed
<1>10. Len(w) \in Nat /\ Len(c) \in Nat /\ Len(f[0]) = 0
  BY <1>2, <1>5, <1>6
<1> DEFINE P(q) == Len(f[q - 1]) + 2
<1>11. PICK p \in 1 .. N : (\A q \in 1 .. p : P(q) <= M) /\ (p < N => Len(f[p]) + 2 > M)
  <2> DEFINE Hidden == {q \in Nat : q \in 1 .. N + 1 /\ (q = N + 1 \/ ~(P(q) <= M))}
  <2>1. Hidden \in SUBSET Nat /\ N + 1 \in Hidden
    BY <1>1
  <2> HIDE DEF Hidden
  <2>2. PICK q \in Hidden : \A r \in Hidden : q <= r
    <3>1. Hidden # {}
      BY <2>1
    <3> QED
      BY <2>1, <3>1, LeastNatural
  <2> DEFINE p == q - 1
  <2>3. q \in 1 .. N + 1 /\ (q = N + 1 \/ ~(P(q) <= M))
    BY <2>2 DEF Hidden
  <2>4. q # 1
    <3> SUFFICES ASSUME q = 1 PROVE FALSE
      OBVIOUS
    <3>1. ~(P(1) <= M)
      BY <1>1, <2>3
    <3>2. P(1) = 2
      BY <1>10
    <3> QED
      BY <1>1, <3>1, <3>2
  <2>5. p \in 1 .. N /\ p + 1 = q /\ (p < N => q # N + 1)
    BY <1>1, <2>3, <2>4
  <2>6. ASSUME NEW r \in 1 .. p PROVE P(r) <= M
    <3>1. r \notin Hidden
      BY <1>1, <2>2, <2>5, <2>6
    <3>2. r \in 1 .. N + 1 /\ r # N + 1 /\ r \in Nat
      BY <1>1, <2>5, <2>6
    <3> HIDE DEF P
    <3> QED
      BY <3>1, <3>2 DEF Hidden
  <2>7. ASSUME p < N PROVE Len(f[p]) + 2 > M
    <3>1. ~(P(q) <= M) /\ q - 1 = p /\ p \in 0 .. N
      BY <1>1, <2>3, <2>5, <2>7
    <3>2. Len(f[p]) \in Nat
      BY <1>6, <3>1
    <3> QED
      BY <1>1, <3>1, <3>2
  <2> HIDE DEF p, P
  <2> QED
    BY <2>5, <2>6, <2>7
<1>12. \A q \in 1 .. N : q - 1 \in 0 .. N /\ q \in 0 .. N /\ q - 1 \in 0 .. q
  BY <1>1
<1> DEFINE B == Len(f[N])
<1>13. B \in Nat /\ N \in 0 .. N
  BY <1>1, <1>6
\* The first stop of a target.
<1>14. ASSUME NEW q \in 1 .. p
       PROVE  P(q) \in 1 .. Len(c) /\ P(q) >= 2 /\ c[P(q)].town = targets[q]
  <2> DEFINE k == Len(f[q - 1]) + 1
  <2>1. q \in 1 .. N /\ q \in 0 .. N /\ q - 1 \in 0 .. N
    BY <1>1, <1>12
  <2>2. Len(f[q - 1]) \in Nat /\ Len(f[q]) \in Nat /\ Len(f[q - 1]) < Len(f[q]) /\ f[q][k].town = targets[q]
    BY <1>6, <1>9, <2>1
  <2>3. k \in 1 .. Len(f[q]) /\ P(q) = 1 + k /\ P(q) <= M /\ P(q) >= 2
    BY <1>11, <2>2
  <2>4. Len(f[q]) <= B /\ f[N][k] = f[q][k]
    <3>1. q \in 0 .. N /\ N \in 0 .. N
      BY <1>13, <2>1
    <3> HIDE DEF k
    <3> QED
      BY <1>7, <2>3, <3>1
  <2> HIDE DEF k, P
  <2>5. k \in 1 .. B /\ 1 + k \in 1 .. Len(w)
    BY <1>3, <1>10, <1>13, <2>2, <2>3, <2>4
  <2>6. w[1 + k] = f[N][k]
    BY <1>3, <2>5
  <2>7. 1 + k \in 1 .. Len(c)
    BY <1>1, <1>5, <1>10, <2>3, <2>5
  <2>8. c[1 + k].town = targets[q]
    BY <1>5, <2>2, <2>4, <2>6, <2>7
  <2> QED
    BY <2>3, <2>7, <2>8
\* The target of a stop.
<1>15. ASSUME NEW j \in 1 .. Len(c), c[j].town # home
       PROVE  \E r \in 1 .. p : c[j].town = targets[r] /\ P(r) <= j
  <2>1. j \in 1 .. Len(w) /\ j <= M /\ c[j] = w[j]
    BY <1>1, <1>5, <1>10
  <2>2. j # 1 /\ ~(j > 1 + B)
    BY <1>3, <1>15, <2>1
  <2> DEFINE i == j - 1
  <2>3. i \in 1 .. B /\ 1 + i = j
    BY <1>13, <2>1, <2>2
  <2> HIDE DEF i
  <2>4. w[j] = f[N][i]
    BY <1>3, <2>3
  <2>5. PICK r \in 1 .. N : f[N][i].town = targets[r] /\ Len(f[r - 1]) < i
    BY <1>8, <1>13, <2>3
  <2>6. Len(f[r - 1]) \in Nat /\ P(r) <= j
    BY <1>6, <1>12, <2>3, <2>5
  <2>7. r <= p
    <3> SUFFICES ASSUME r > p PROVE FALSE
      BY <1>1
    <3>1. p < N /\ p \in 0 .. r - 1 /\ r - 1 \in 0 .. N /\ p \in 0 .. N
      BY <1>1
    <3>2. Len(f[p]) <= Len(f[r - 1]) /\ Len(f[p]) \in Nat
      BY <1>6, <1>7, <3>1
    <3>3. Len(f[p]) + 2 > M
      BY <1>11, <3>1
    <3> QED
      BY <1>1, <2>1, <2>6, <3>2, <3>3
  <2>8. r \in 1 .. p
    BY <1>1, <2>7
  <2> HIDE DEF P
  <2> QED
    BY <2>1, <2>4, <2>5, <2>6, <2>8
<1>16. \A i, j \in 1 .. p : i < j => P(i) < P(j)
  <2> SUFFICES ASSUME NEW i \in 1 .. p, NEW j \in 1 .. p, i < j PROVE P(i) < P(j)
    OBVIOUS
  <2>1. i \in 1 .. N /\ i \in 0 .. j - 1 /\ j - 1 \in 0 .. N /\ i \in 0 .. N /\ i - 1 \in 0 .. N
    BY <1>1
  <2>2. Len(f[i - 1]) < Len(f[i]) /\ Len(f[i]) <= Len(f[j - 1])
    BY <1>7, <1>9, <2>1
  <2>3. Len(f[i - 1]) \in Nat /\ Len(f[i]) \in Nat /\ Len(f[j - 1]) \in Nat
    BY <1>6, <2>1
  <2> QED
    BY <2>2, <2>3
<1> DEFINE d == SubSeq(targets, 1, p)
<1>17. d \in Seq(Towns) /\ Len(d) = p /\ DOMAIN d = 1 .. p /\ \A i \in 1 .. p : d[i] = targets[i]
  <2>1. /\ d \in Seq(Towns) /\ Len(d) = (IF 1 <= p THEN p - 1 + 1 ELSE 0)
        /\ \A i \in 1 .. p - 1 + 1 : d[i] = targets[1 + i - 1]
    <3>1. \A i \in 1 .. p : targets[i] \in Towns
      BY <1>1
    <3> QED
      BY <1>1, <3>1, SubSeqProperties
  <2> HIDE DEF d
  <2>2. Len(d) = p /\ \A i \in 1 .. p : d[i] = targets[i]
    BY <1>1, <2>1
  <2> QED
    BY <2>1, <2>2
<1> HIDE DEF d, P
<1>18. p >= 1 /\ d # << >> /\ \A i \in 1 .. p : i \in 1 .. N /\ targets[i] \in Towns
  BY <1>1, <1>17
<1>19. /\ \A i, j \in 1 .. p : targets[i] = targets[j] => i = j
       /\ \A i \in 1 .. p : targets[i] # home
  BY <1>1, <1>18 DEF Targeted
<1>20. Lists(d, c, Len(c), home)
  <2>1. \A i, j \in DOMAIN d : d[i] = d[j] => i = j
    BY <1>17, <1>19
  <2>2. ASSUME NEW t \in Towns
        PROVE  (\E i \in DOMAIN d : d[i] = t) <=> t # home /\ \E k \in 1 .. Len(c) : c[k].town = t
    <3>1. ASSUME NEW i \in DOMAIN d, d[i] = t
          PROVE  t # home /\ \E k \in 1 .. Len(c) : c[k].town = t
      <4>1. i \in 1 .. p /\ targets[i] = t
        BY <1>17, <3>1
      <4>2. P(i) \in 1 .. Len(c) /\ c[P(i)].town = t
        BY <1>14, <4>1
      <4> QED
        BY <1>19, <4>1, <4>2
    <3>2. ASSUME t # home, NEW k \in 1 .. Len(c), c[k].town = t
          PROVE  \E i \in DOMAIN d : d[i] = t
      <4>1. PICK r \in 1 .. p : c[k].town = targets[r]
        BY <1>15, <3>2
      <4> QED
        BY <1>17, <3>2, <4>1
    <3> QED
      BY <3>1, <3>2
  <2>3. ASSUME NEW i \in DOMAIN d, NEW j \in DOMAIN d, i < j
        PROVE  \E k \in 1 .. Len(c) : c[k].town = d[i] /\ \A q \in 1 .. k : c[q].town # d[j]
    <3>1. i \in 1 .. p /\ j \in 1 .. p /\ d[i] = targets[i] /\ d[j] = targets[j]
      BY <1>17
    <3>2. P(i) \in 1 .. Len(c) /\ c[P(i)].town = targets[i] /\ P(j) \in 1 .. Len(c) /\ P(i) < P(j)
      BY <1>14, <1>16, <2>3, <3>1
    <3>3. ASSUME NEW q \in 1 .. P(i), c[q].town = targets[j]
          PROVE  FALSE
      <4>1. q \in 1 .. Len(c) /\ q < P(j)
        BY <1>10, <3>2
      <4>2. c[q].town # home
        BY <1>19, <3>1, <3>3
      <4>3. PICK r \in 1 .. p : c[q].town = targets[r] /\ P(r) <= q
        BY <1>15, <4>1, <4>2
      <4>4. r = j
        BY <1>19, <3>1, <3>3, <4>3
      <4> QED
        BY <1>10, <3>2, <4>1, <4>3, <4>4
    <3> QED
      BY <3>1, <3>2, <3>3
  <2> QED
    BY <2>1, <2>2, <2>3 DEF Lists
<1>21. Distinct(c, home) = d
  <2> DEFINE e == Distinct(c, home)
  <2>1. e \in Seq(Towns) /\ Lists(e, c, Len(c), home)
    BY <1>5, DistinctLists
  <2> HIDE DEF e
  <2>2. e = d
    BY <1>10, <1>17, <1>20, <2>1, ListsOnce
  <2> QED
    BY <2>2 DEF e
<1>22. c # << >> /\ c[1].town = home
  <2>1. 1 \in 1 .. Len(c)
    BY <1>1, <1>3, <1>5, <1>10, <1>13
  <2> QED
    BY <1>3, <1>5, <2>1
<1> DEFINE v == template(kind, home, d)
           x == clamped(v)
<1>23. SameRoute(x, c)
  <2>1. CASE p = N
    <3>1. d = targets
      BY <1>1, <1>17, <2>1, SeqEqual DEF N
    <3>2. x = c
      BY <3>1 DEF c, w
    <3> QED
      BY <3>2 DEF SameRoute
  <2>2. CASE p < N
    <3>1. v \in Seq(Stops)
      BY <1>17, TemplateLies
    <3>2. PICK g : /\ InTurns(g, kind, d)
                   /\ Len(v) >= 1 + Len(g[p])
                   /\ v[1].town = home /\ v[1].role = IF kind \in Collecting THEN "transfer" ELSE "load"
                   /\ \A j \in 1 .. Len(g[p]) : v[1 + j] = g[p][j]
      <4>1. \E g : /\ InTurns(g, kind, d)
                   /\ Len(v) >= 1 + Len(g[Len(d)])
                   /\ v[1].town = home /\ v[1].role = IF kind \in Collecting THEN "transfer" ELSE "load"
                   /\ \A j \in 1 .. Len(g[Len(d)]) : v[1 + j] = g[Len(d)][j]
                   /\ \A j \in 1 .. Len(v) : j > 1 + Len(g[Len(d)]) => v[j].town = home
        <5>1. d \in Seq(Towns)
          BY <1>17
        <5> QED
          BY <5>1, TemplateLies
      <4> HIDE DEF v
      <4> QED
        BY <1>17, <4>1
    <3> HIDE DEF v
    <3>3. x \in Seq(Stops) /\ Len(x) = (IF Len(v) <= M THEN Len(v) ELSE M) /\ \A i \in 1 .. Len(x) : x[i] = v[i]
      BY <3>1, ClampedIs DEF M
    <3> HIDE DEF x
    <3>4. g[p] = f[p]
      <4>1. Len(d) <= Len(targets) /\ \A i \in 1 .. Len(d) : d[i] = targets[i]
        BY <1>1, <1>17 DEF N
      <4>2. \A n \in 0 .. Len(d) : g[n] = f[n]
        BY <1>3, <1>17, <3>2, <4>1, SameTurns
      <4>3. p \in 0 .. Len(d)
        BY <1>17
      <4> QED
        BY <4>2, <4>3
    <3> DEFINE b == Len(f[p])
    <3>5. b \in Nat /\ b + 2 > M /\ b <= B /\ \A j \in 1 .. b : f[N][j] = f[p][j]
      <4>1. p \in 0 .. N /\ N \in 0 .. N
        BY <1>1
      <4> QED
        BY <1>6, <1>7, <1>11, <2>2, <4>1
    <3>6. Len(v) \in Nat /\ Len(v) >= 1 + b
      BY <3>1, <3>2, <3>4
    <3> HIDE DEF b
    <3>7. Len(x) = M /\ Len(c) = M
      <4>1. Len(v) >= M
        BY <1>1, <3>5, <3>6
      <4>2. Len(w) >= M
        BY <1>1, <1>3, <1>10, <1>13, <3>5
      <4> QED
        BY <1>1, <1>5, <1>10, <3>3, <3>6, <4>1, <4>2
    <3>8. ASSUME NEW i \in 1 .. M PROVE x[i].town = c[i].town /\ x[i].role = c[i].role
      <4>1. x[i] = v[i] /\ c[i] = w[i]
        BY <1>5, <3>3, <3>7
      <4>2. CASE i = 1
        BY <1>3, <3>2, <4>1, <4>2
      <4>3. CASE i # 1
        <5> DEFINE j == i - 1
        <5>1. j \in 1 .. b /\ j \in 1 .. B /\ 1 + j = i
          BY <1>1, <1>13, <3>5, <4>3
        <5> HIDE DEF j
        <5>2. v[i] = g[p][j]
          BY <3>2, <3>4, <5>1 DEF b
        <5>3. w[i] = f[N][j]
          BY <1>3, <5>1
        <5> QED
          BY <3>4, <3>5, <4>1, <5>1, <5>2, <5>3
      <4> QED
        BY <4>2, <4>3
    <3>9. DOMAIN x = 1 .. M
      BY <3>3, <3>7
    <3> QED
      BY <3>7, <3>8, <3>9 DEF SameRoute
  <2> QED
    BY <1>1, <2>1, <2>2
<1> QED
  BY <1>18, <1>21, <1>22, <1>23 DEF c, w

\* What the route reads as has the stops of the chain, each once.
LEMMA CurrentStops ==
    ASSUME ChainInv, chain # << >>
    PROVE  /\ Current \in Seq(Stops) /\ Len(Current) = Len(chain) /\ RecsDiffer(Current)
           /\ \A k \in DOMAIN Current : \E j \in DOMAIN chain : Current[k] = chain[j]
           /\ \A j \in DOMAIN chain : \E k \in DOMAIN Current : Current[k] = chain[j]
<1> DEFINE n == Len(chain)
<1>1. PICK m : MarkedAt(chain, m)
  BY DEF ChainInv
<1>2. Current = Rotated(chain, m)
  BY <1>1, ReadsFromTheMarker DEF Current, ChainInv
<1>3. m \in 1 .. n /\ n \in Nat /\ DOMAIN chain = 1 .. n
  BY <1>1 DEF MarkedAt, ChainInv
<1>4. Current \in Seq(Stops) /\ Len(Current) = n /\ \A k \in 1 .. n : Current[k] = chain[Place(n, m, k)]
  BY <1>2, <1>3, RotationIs DEF ChainInv
<1>5. DOMAIN Current = 1 .. n
  BY <1>4
<1>6. \A k \in 1 .. n : Place(n, m, k) \in 1 .. n
  BY <1>3, PlaceLands
<1>7. \A j \in 1 .. n : Turn(n, m, j) \in 1 .. n /\ Place(n, m, Turn(n, m, j)) = j
  BY <1>3, TurnIs
<1>8. \A k \in 1 .. n : k = Turn(n, m, Place(n, m, k))
  BY <1>3, <1>6, TurnIsTheOnly
<1>9. RecsDiffer(Current)
  <2> SUFFICES ASSUME NEW k \in 1 .. n, NEW l \in 1 .. n, Current[k].rec = Current[l].rec PROVE k = l
    BY <1>5 DEF RecsDiffer
  <2>1. Place(n, m, k) = Place(n, m, l)
    BY <1>3, <1>4, <1>6 DEF ChainInv, RecsDiffer
  <2> QED
    BY <1>8, <2>1
<1>10. \A k \in DOMAIN Current : \E j \in DOMAIN chain : Current[k] = chain[j]
  BY <1>3, <1>4, <1>5, <1>6
<1>11. \A j \in DOMAIN chain : \E k \in DOMAIN Current : Current[k] = chain[j]
  BY <1>3, <1>4, <1>5, <1>7
<1> QED
  BY <1>4, <1>9, <1>10, <1>11

\* DEL enqueues all there is to undo.
LEMMA ClearKeyKeeps ==
    ASSUME RouteInv, on_clear_route_hotkey
    PROVE  RouteInv'
<1> DEFINE opening == <<[op |-> "stop", rec |-> 0]>>
           middleOps == removals(Current)
           closing == <<rename_ship>>
           n == Len(Current)
<1>1. ChainInv /\ NameInv /\ chain # << >> /\ made' = Cleared
      /\ UNCHANGED <<chain, head, active, name>> /\ pending' = opening \o middleOps \o closing
  BY DEF RouteInv, on_clear_route_hotkey
<1>2. /\ Current \in Seq(Stops) /\ RecsDiffer(Current)
      /\ \A k \in DOMAIN Current : \E j \in DOMAIN chain : Current[k] = chain[j]
      /\ \A j \in DOMAIN chain : \E k \in DOMAIN Current : Current[k] = chain[j]
  BY <1>1, CurrentStops
<1>3. n \in Nat /\ DOMAIN Current = 1 .. n /\ \A k \in 1 .. n : Current[k] \in Stops
  BY <1>2
<1>4. opening \in Seq(Operations) /\ Len(opening) = 1 /\ opening[1].op = "stop"
  BY DEF Operations
<1>5. closing \in Seq(Operations) /\ Len(closing) = 1 /\ closing[1].op = "rename"
  BY DEF Operations, rename_ship
<1>6. /\ middleOps \in Seq(Operations) /\ Len(middleOps) = n
      /\ \A k \in 1 .. n : middleOps[k].op = "remove" /\ middleOps[k].rec = Current[k].rec
  <2>1. middleOps = [k \in 1 .. n |-> [op |-> "remove", rec |-> Current[k].rec]]
    BY <1>3 DEF removals
  <2>2. \A k \in 1 .. n : [op |-> "remove", rec |-> Current[k].rec] \in Operations
    BY <1>3 DEF Operations, Stops
  <2>3. middleOps \in [1 .. n -> Operations]
    BY <2>1, <2>2
  <2>4. \A k \in 1 .. n : middleOps[k].op = "remove" /\ middleOps[k].rec = Current[k].rec
    BY <2>1
  <2> HIDE DEF middleOps, n
  <2>5. middleOps \in Seq(Operations) /\ Len(middleOps) = n
    BY <1>3, <2>3, LenProperties
  <2> QED
    BY <2>4, <2>5
<1> HIDE DEF opening, middleOps, closing
<1> DEFINE front == opening \o middleOps
<1>7. /\ front \in Seq(Operations) /\ Len(front) = 1 + n
      /\ \A i \in 1 .. 1 : front[i] = opening[i]
      /\ \A k \in 1 .. n : front[1 + k] = middleOps[k]
  <2>1. /\ front \in Seq(Operations) /\ Len(front) = Len(opening) + Len(middleOps)
        /\ \A i \in 1 .. Len(opening) : front[i] = opening[i]
        /\ \A k \in 1 .. Len(middleOps) : front[Len(opening) + k] = middleOps[k]
    <3>1. opening \in Seq(Operations) /\ middleOps \in Seq(Operations)
      BY <1>4, <1>6
    <3> QED
      BY <3>1, Joined
  <2> QED
    BY <1>4, <1>6, <2>1
<1>8. pending' = front \o closing
  BY <1>1
<1> HIDE DEF front
<1> DEFINE w == front \o closing
<1>9. /\ w \in Seq(Operations) /\ Len(w) = n + 2
      /\ \A i \in 1 .. n + 1 : w[i] = front[i]
      /\ \A i \in 1 .. 1 : w[n + 1 + i] = closing[i]
  <2>1. /\ w \in Seq(Operations) /\ Len(w) = Len(front) + Len(closing)
        /\ \A i \in 1 .. Len(front) : w[i] = front[i]
        /\ \A i \in 1 .. Len(closing) : w[Len(front) + i] = closing[i]
    <3>1. front \in Seq(Operations) /\ closing \in Seq(Operations)
      BY <1>5, <1>7
    <3> QED
      BY <3>1, Joined
  <2> HIDE DEF w
  <2>2. Len(front) = n + 1 /\ Len(closing) = 1
    BY <1>3, <1>5, <1>7
  <2> QED
    BY <1>3, <2>1, <2>2
<1> HIDE DEF w
<1>10. pending' = w /\ DOMAIN w = 1 .. n + 2
  <2>1. pending' = w
    BY <1>8 DEF w
  <2> QED
    BY <1>3, <1>9, <2>1
<1>11. w[1].op = "stop" /\ 1 \in 1 .. n + 2
  <2>1. 1 \in 1 .. n + 1 /\ 1 \in 1 .. 1
    BY <1>3
  <2>2. w[1] = opening[1]
    BY <1>7, <1>9, <2>1
  <2> QED
    BY <1>3, <1>4, <2>2
<1>12. w[n + 2].op = "rename" /\ n + 2 \in 1 .. n + 2
  <2>1. n + 1 + 1 = n + 2 /\ 1 \in 1 .. 1
    BY <1>3
  <2>2. w[n + 1 + 1] = closing[1]
    BY <1>9, <2>1
  <2> QED
    BY <1>3, <1>5, <2>1, <2>2
<1>13. \A k \in 1 .. n : 1 + k \in 1 .. n + 2 /\ w[1 + k].op = "remove" /\ w[1 + k].rec = Current[k].rec
  <2> SUFFICES ASSUME NEW k \in 1 .. n
               PROVE  1 + k \in 1 .. n + 2 /\ w[1 + k].op = "remove" /\ w[1 + k].rec = Current[k].rec
    OBVIOUS
  <2> DEFINE i == 1 + k
  <2>1. i \in 1 .. n + 1 /\ i \in 1 .. n + 2
    BY <1>3
  <2>2. front[i] = middleOps[k]
    BY <1>7
  <2> HIDE DEF i
  <2>3. w[i] = middleOps[k]
    BY <1>9, <2>1, <2>2
  <2> QED
    BY <1>6, <2>1, <2>3 DEF i
<1>14. \A i \in 1 .. n + 2 : w[i].op = "remove" => \E k \in 1 .. n : i = 1 + k
  <2> SUFFICES ASSUME NEW i \in 1 .. n + 2, w[i].op = "remove" PROVE \E k \in 1 .. n : i = 1 + k
    OBVIOUS
  <2>1. i # 1 /\ i # n + 2
    BY <1>11, <1>12
  <2>2. i - 1 \in 1 .. n /\ i = 1 + (i - 1)
    BY <1>3, <2>1
  <2> QED
    BY <2>2
<1> HIDE DEF n
<1>15. PendingInv'
  <2>1. ASSUME NEW i \in 1 .. n + 2, w[i].op = "remove"
        PROVE  \E j \in DOMAIN chain : chain[j].rec = w[i].rec
    <3>1. PICK k \in 1 .. n : i = 1 + k
      BY <1>14, <2>1
    <3>2. w[i].rec = Current[k].rec /\ k \in DOMAIN Current
      BY <1>3, <1>13, <3>1
    <3> QED
      BY <1>2, <3>2
  <2>2. ASSUME NEW i \in 1 .. n + 2, NEW j \in 1 .. n + 2, w[i].op = "remove", w[j].op = "remove", w[i].rec = w[j].rec
        PROVE  i = j
    <3>1. PICK k \in 1 .. n : i = 1 + k
      BY <1>14, <2>2
    <3>2. PICK l \in 1 .. n : j = 1 + l
      BY <1>14, <2>2
    <3>3. Current[k].rec = Current[l].rec /\ k \in DOMAIN Current /\ l \in DOMAIN Current
      BY <1>3, <1>13, <2>2, <3>1, <3>2
    <3>4. k = l
      BY <1>2, <3>3 DEF RecsDiffer
    <3> QED
      BY <3>1, <3>2, <3>4
  <2> QED
    BY <1>1, <1>9, <1>10, <2>1, <2>2 DEF PendingInv
<1>16. ClearInv'
  <2>1. ASSUME NEW j \in DOMAIN chain
        PROVE  \E i \in 1 .. n + 2 : w[i].op = "remove" /\ w[i].rec = chain[j].rec
    <3>1. PICK k \in DOMAIN Current : Current[k] = chain[j]
      BY <1>2
    <3>2. 1 + k \in 1 .. n + 2 /\ w[1 + k].op = "remove" /\ w[1 + k].rec = chain[j].rec
      BY <1>3, <1>13, <3>1
    <3> QED
      BY <3>2
  <2> QED
    BY <1>1, <1>10, <1>11, <1>12, <2>1 DEF ClearInv
<1>17. ChainInv'
  BY <1>1 DEF ChainInv
<1>18. made'.kind \notin Kinds
  BY <1>1 DEF Cleared, Kinds
<1>19. NameInv' /\ RebuildInv'
  BY <1>1, <1>18 DEF NameInv, RebuildInv
<1> QED
  BY <1>15, <1>16, <1>17, <1>19 DEF RouteInv

\* Every step keeps the invariant.
LEMMA RouteStep == RouteInv /\ [Next]_vars => RouteInv'
<1> SUFFICES ASSUME RouteInv, [Next]_vars PROVE RouteInv'
  OBVIOUS
<1>1. ChainInv /\ NameInv /\ active \in BOOLEAN
  BY DEF RouteInv, NameInv
<1>2. chain # << >> => head \in 1 .. Len(chain) /\ DOMAIN chain = 1 .. Len(chain) /\ Len(chain) \in Nat
  BY <1>1 DEF ChainInv
<1>3. ASSUME NEW kind \in Kinds, NEW append \in BOOLEAN, NEW alt \in BOOLEAN, NEW view \in Towns \cup {NoTown},
             on_route_hotkey(kind, append, alt, view)
      PROVE  RouteInv'
  BY <1>3, KeyKeeps
<1>4. CASE on_clear_route_hotkey
  BY <1>4, ClearKeyKeeps
<1>5. CASE Execute
  BY <1>5, ExecuteKeeps
<1>6. CASE Sail
  <2>1. UNCHANGED <<chain, name, pending, made>> /\ active' = active
        /\ head' = IF head = Len(chain) THEN 1 ELSE head + 1
    BY <1>6 DEF Sail
  <2>2. chain # << >> => head' \in DOMAIN chain
    BY <1>2, <2>1
  <2> QED
    BY <1>1, <2>1, <2>2, SailingKeeps
<1>7. ASSUME NEW r \in ManualRoutes, EditRoute(r) PROVE RouteInv'
  BY <1>7, EditKeeps
<1>8. CASE Start
  <2>1. UNCHANGED <<chain, head, name, pending, made>> /\ active' = TRUE /\ Drained /\ chain # << >>
    BY <1>8 DEF Start
  <2>2. made # Cleared
    BY <2>1, WorkedOff
  <2> QED
    BY <1>2, <2>1, <2>2, SailingKeeps
<1>9. ASSUME NEW t \in Towns, Freeze(t) PROVE RouteInv'
  <2>1. UNCHANGED <<chain, head, name, pending, made>> /\ active' = FALSE
    BY <1>9 DEF Freeze
  <2> QED
    BY <1>2, <2>1, SailingKeeps
<1>10. ASSUME NEW t \in Towns, Thaw(t) PROVE RouteInv'
  <2>1. UNCHANGED <<chain, head, name, pending, made>> /\ active' = (active \/ resumed(t)) /\ Drained
    BY <1>10 DEF Thaw
  <2>2. made = Cleared => name.kind = "pool"
    BY <2>1, WorkedOff DEF PoolName
  <2>3. active' \in BOOLEAN /\ (made = Cleared => (active' => active))
    BY <1>1, <2>1, <2>2 DEF resumed
  <2> QED
    BY <1>2, <2>1, <2>3, SailingKeeps
<1>11. CASE UNCHANGED vars
  <2>1. UNCHANGED <<chain, head, active, name, pending, made>>
    BY <1>11 DEF vars
  <2> QED
    BY <1>1, <1>2, <2>1, SailingKeeps
<1> QED
  BY <1>3, <1>4, <1>5, <1>6, <1>7, <1>8, <1>9, <1>10, <1>11 DEF Next

\* The invariant holds.
LEMMA RouteInvHolds == Spec => []RouteInv
<1> QED
  BY RouteInitial, RouteStep, PTL DEF Spec

\* Routes are made of stops with records of their own, never more than the auto-trade window
\* has rows for, and the ship is heading for one of them.
THEOREM RouteTypeCorrect == Spec => []TypeOK
<1>1. RouteInv => TypeOK
  <2> SUFFICES ASSUME RouteInv PROVE TypeOK
    OBVIOUS
  <2>1. ChainInv /\ PendingInv /\ NameInv
    BY DEF RouteInv
  <2>2. IsRoute(chain)
    <3>1. \A i \in DOMAIN chain : chain[i] \in Stops
      BY <2>1 DEF ChainInv
    <3> DEFINE recs == [i \in DOMAIN chain |-> chain[i].rec]
    <3>2. IsInjective(recs)
      BY <2>1 DEF ChainInv, RecsDiffer, IsInjective
    <3> QED
      BY <3>1, <3>2 DEF IsRoute
  <2>3. name.kind \in {"pool", "route"} /\ Range(name.towns) \subseteq Towns /\ Len(name.towns) <= NAME_TOWNS
    <3>1. name.towns \in Seq(Towns)
      BY <2>1 DEF NameInv, Names
    <3>2. \A i \in DOMAIN name.towns : name.towns[i] \in Towns
      BY <3>1
    <3> QED
      BY <2>1, <3>2 DEF NameInv, Names, Range
  <2>4. \A i \in DOMAIN pending : pending[i].op \in {"stop", "remove", "rename"}
    <3>1. \A i \in DOMAIN pending : pending[i] \in Operations
      BY <2>1 DEF PendingInv
    <3> QED
      BY <3>1 DEF Operations
  <2> QED
    BY <2>1, <2>2, <2>3, <2>4 DEF TypeOK, ChainInv, NameInv
<1> QED
  BY <1>1, RouteInvHolds, PTL

\* Wherever the ship is on its way, and while a clear takes the route apart, the route reads
\* the same.
THEOREM ReadingStaysStable == Spec => []ReadingIsStable
<1>1. RouteInv => ReadingIsStable
  <2> SUFFICES ASSUME RouteInv, NEW h \in DOMAIN chain PROVE read_ship_route(chain, h) = Current
    BY DEF ReadingIsStable
  <2>1. chain \in Seq(Stops) /\ chain # << >> /\ head \in DOMAIN chain
    BY DEF RouteInv, ChainInv
  <2>2. PICK m : MarkedAt(chain, m)
    BY <2>1 DEF RouteInv, ChainInv
  <2>3. read_ship_route(chain, h) = Rotated(chain, m) /\ Current = Rotated(chain, m)
    BY <2>1, <2>2, ReadsFromTheMarker DEF Current
  <2> QED
    BY <2>3
<1> QED
  BY <1>1, RouteInvHolds, PTL

\* A cleared ship has no route, no name of one, and stays where it is when a port thaws.
THEOREM ClearsAreComplete == Spec => []ClearedIsClear
<1>1. RouteInv => ClearedIsClear
  BY WorkedOff DEF ClearedIsClear
<1> QED
  BY <1>1, RouteInvHolds, PTL

\* A route key pressed again sets the same route again, also one that was cut off.
THEOREM RoutesRebuild == Spec => []RebuildKeepsTheRoute
<1>1. RouteInv => RebuildKeepsTheRoute
  <2> SUFFICES ASSUME RouteInv, Drained, made.kind \in Kinds \ {"Fetch"}, ~made.append,
                      NEW view \in Towns \cup {NoTown}
               PROVE  SameRoute(built(made.kind, FALSE, FALSE, Current, view), Current)
    BY DEF RebuildKeepsTheRoute
  <2> DEFINE kind == made.kind
  <2>1. kind \in Kinds /\ kind # "Fetch" /\ chain \in Seq(Stops) /\ chain # << >> /\ MarkedAt(chain, 1) /\ head \in DOMAIN chain
    BY DEF RouteInv, NameInv, ChainInv
  <2>2. PICK home \in Towns : \E targets \in Seq(Towns) :
          Targeted(home, targets) /\ chain = normalised(clamped(template(kind, home, targets)))
    BY DEF RouteInv, RebuildInv
  <2> HIDE DEF kind
  <2>3. PICK targets \in Seq(Towns) :
          Targeted(home, targets) /\ chain = normalised(clamped(template(kind, home, targets)))
    BY <2>2
  <2>4. Current = chain
    BY <2>1, ReadsAsItLies DEF Current
  <2> DEFINE c == clamped(template(kind, home, targets))
             d == Distinct(c, home)
             x == clamped(template(kind, home, d))
  <2>5. c # << >> /\ c[1].town = home /\ d # << >> /\ SameRoute(x, c)
    BY <2>1, <2>3, CutOffShows
  <2>6. c \in Seq(Stops)
    BY <2>1, <2>3, TemplateType, ClampedIs
  <2>7. chain = normalised(c)
    BY <2>3
  <2> HIDE DEF c
  <2>8. /\ Len(chain) = Len(c)
        /\ \A i \in 1 .. Len(c) : chain[i].town = c[i].town /\ chain[i].role = c[i].role
    BY <2>6, <2>7, NormalisedIs
  <2>9. Distinct(chain, home) = d
    BY <2>1, <2>6, <2>8, DistinctOfSame
  <2>10. chain[1].town = home
    <3>1. 1 \in 1 .. Len(c)
      BY <2>5, <2>6
    <3> QED
      BY <2>5, <2>8, <3>1
  <2>11. d \in Seq(Towns)
    BY <2>6, DistinctLists
  <2> HIDE DEF d
  <2>12. load_town(FALSE, chain) = home
    BY <2>1, <2>10 DEF load_town
  <2>13. targets_of(kind, FALSE, FALSE, chain, home, view) = d
    <3>1. targets_of(kind, FALSE, FALSE, chain, home, view) = route_targets(chain, home, view)
      BY <2>1 DEF targets_of
    <3> QED
      BY <2>5, <2>9, <3>1 DEF route_targets
  <2>14. built(kind, FALSE, FALSE, chain, view) = x
    BY <2>5, <2>12, <2>13 DEF built
  <2> HIDE DEF x
  <2>15. SameRoute(x, chain)
    <3>1. Len(x) = Len(c) /\ \A i \in DOMAIN x : x[i].town = c[i].town /\ x[i].role = c[i].role
      BY <2>5 DEF SameRoute
    <3>2. x \in Seq(Stops)
      BY <2>1, <2>11, TemplateType, ClampedIs DEF x
    <3>3. DOMAIN x = 1 .. Len(c)
      BY <3>1, <3>2
    <3> QED
      BY <2>8, <3>1, <3>3 DEF SameRoute
  <2> QED
    BY <2>4, <2>14, <2>15 DEF kind
<1> QED
  BY <1>1, RouteInvHolds, PTL

\* The least of a set of numbers.
LEMMA MinIs ==
    ASSUME NEW S \in SUBSET Nat, S # {}
    PROVE  Min(S) \in S /\ \A x \in S : Min(S) <= x
<1>1. \E x \in S : \A y \in S : x <= y
  BY LeastNatural
<1> QED
  BY <1>1 DEF Min

\* A list of all towns of a route is as long as there are such towns.
LEMMA ListsAll ==
    ASSUME NEW stops \in Seq(Stops), NEW d \in Seq(Towns), Lists(d, stops, Len(stops), NoTown)
    PROVE  Len(d) = Cardinality(TownsOf(stops)) /\ Range(d) = TownsOf(stops)
<1> DEFINE n == Len(stops)
           l == Len(d)
<1>1. n \in Nat /\ DOMAIN stops = 1 .. n /\ l \in Nat /\ DOMAIN d = 1 .. l /\ \A i \in 1 .. l : d[i] \in Towns
  OBVIOUS
<1>2. \A p \in 1 .. n : stops[p].town \in Towns
  <2>1. \A p \in 1 .. n : stops[p] \in Stops
    BY <1>1
  <2> QED
    BY <2>1 DEF Stops
<1>3. \A t \in Towns : t # NoTown
  BY RoutesAssumption
<1>4. \A t \in Towns : (\E i \in DOMAIN d : d[i] = t) <=> t # NoTown /\ \E p \in 1 .. n : stops[p].town = t
  BY Zenon DEF Lists
<1> HIDE DEF n, l
<1>5. Range(d) = TownsOf(stops)
  <2>1. \A t \in TownsOf(stops) : t \in Towns /\ \E p \in 1 .. n : stops[p].town = t
    BY <1>1, <1>2 DEF TownsOf
  <2>2. \A t \in Range(d) : t \in Towns /\ \E i \in DOMAIN d : d[i] = t
    BY <1>1 DEF Range
  <2>3. \A t \in TownsOf(stops) : t \in Range(d)
    BY <1>3, <1>4, <2>1 DEF Range
  <2>4. \A t \in Range(d) : t \in TownsOf(stops)
    BY <1>1, <1>4, <2>2 DEF TownsOf
  <2> QED
    BY <2>3, <2>4
<1>6. \A i, j \in DOMAIN d : d[i] = d[j] => i = j
  BY DEF Lists
<1>7. IsFiniteSet(1 .. l) /\ Cardinality(1 .. l) = l
  <2>1. IsFiniteSet(1 .. l) /\ Cardinality(1 .. l) = IF 1 > l THEN 0 ELSE l - 1 + 1
    BY <1>1, FS_Interval
  <2> QED
    BY <1>1, <2>1
<1>8. d \in Bijection(1 .. l, TownsOf(stops))
  <2>1. d \in [1 .. l -> TownsOf(stops)]
    <3>1. d \in [1 .. l -> Towns]
      BY <1>1 DEF l
    <3>2. \A i \in 1 .. l : d[i] \in TownsOf(stops)
      BY <1>1, <1>5 DEF Range
    <3> QED
      BY <3>1, <3>2
  <2>2. \A t \in TownsOf(stops) : \E i \in 1 .. l : d[i] = t
    BY <1>1, <1>5 DEF Range
  <2> QED
    BY <1>1, <1>6, <2>1, <2>2 DEF Bijection, Injection, Surjection, IsInjective
<1>9. Cardinality(TownsOf(stops)) = l
  <2> DEFINE ran == TownsOf(stops)
             dom == 1 .. l
  <2> HIDE DEF ran, dom
  <2>1. d \in Bijection(dom, ran) /\ IsFiniteSet(dom) /\ Cardinality(dom) = l
    BY <1>7, <1>8 DEF ran, dom
  <2>2. Cardinality(ran) = l
    BY <2>1, FS_Bijection DEF ExistsBijection
  <2> QED
    BY <2>2 DEF ran
<1> QED
  BY <1>5, <1>9 DEF l

\* A generated name names the route it came with, also when the ship has sailed on.
THEOREM NamesAreTrue == Spec => []NameNamesTheRoute
<1>1. RouteInv => NameNamesTheRoute
  <2> SUFFICES ASSUME RouteInv, Drained, made.kind \in Kinds PROVE NameNamesTheRoute
    BY DEF NameNamesTheRoute
  <2>1. /\ chain \in Seq(Stops) /\ chain # << >> /\ MarkedAt(chain, 1) /\ head \in DOMAIN chain
        /\ name = route_ship_name(chain)
    BY DEF RouteInv, NameInv, ChainInv
  <2>2. Current = chain
    BY <2>1, ReadsAsItLies DEF Current
  <2> DEFINE d == Distinct(chain, NoTown)
             towns == FirstOf(d, NAME_TOWNS)
             n == Len(chain)
  <2>3. d \in Seq(Towns) /\ Lists(d, chain, n, NoTown)
    BY <2>1, DistinctLists
  <2>4. name.towns = towns
    BY <2>1 DEF route_ship_name
  <2> HIDE DEF d
  <2>5. Len(d) = Cardinality(TownsOf(chain)) /\ Range(d) = TownsOf(chain)
    BY <2>1, <2>3, ListsAll
  <2>6. n \in Nat /\ DOMAIN chain = 1 .. n /\ Len(d) \in Nat /\ DOMAIN d = 1 .. Len(d) /\ NAME_TOWNS \in Nat
    BY <2>1, <2>3, RoutesAssumption
  <2>7. /\ towns \in Seq(Towns) /\ Len(towns) = (IF Len(d) <= NAME_TOWNS THEN Len(d) ELSE NAME_TOWNS)
        /\ \A i \in 1 .. Len(towns) : towns[i] = d[i]
    BY <2>3, <2>6, FirstOfIs
  <2> HIDE DEF towns, n
  <2>8. DOMAIN towns = 1 .. Len(towns) /\ \A i \in 1 .. Len(towns) : i \in DOMAIN d
    BY <2>6, <2>7
  <2>9. Range(towns) \subseteq TownsOf(chain)
    BY <2>5, <2>7, <2>8 DEF Range
  <2>10. Len(towns) = Min({NAME_TOWNS, Cardinality(TownsOf(chain))})
    <3> DEFINE card == Cardinality(TownsOf(chain))
               both == {NAME_TOWNS, card}
    <3>1. card = Len(d)
      BY <2>5
    <3> HIDE DEF card
    <3>2. both \in SUBSET Nat /\ both # {}
      BY <2>6, <3>1
    <3>3. Min(both) \in both /\ \A x \in both : Min(both) <= x
      BY <3>2, MinIs
    <3>4. Min(both) = Len(towns)
      BY <2>6, <2>7, <3>1, <3>3
    <3> QED
      BY <3>4 DEF card
  <2> DEFINE at(t) == {i \in DOMAIN chain : chain[i].town = t}
  <2>11. ASSUME NEW i \in DOMAIN towns, NEW j \in DOMAIN towns, i < j
         PROVE  Min(at(towns[i])) < Min(at(towns[j]))
    <3>1. i \in DOMAIN d /\ j \in DOMAIN d /\ towns[i] = d[i] /\ towns[j] = d[j]
      BY <2>7, <2>8
    <3>2. \A k, m \in DOMAIN d : k < m =>
            \E p \in 1 .. n : chain[p].town = d[k] /\ \A q \in 1 .. p : chain[q].town # d[m]
      BY <2>3, Zenon DEF Lists
    <3>3. PICK p \in 1 .. n : chain[p].town = d[i] /\ \A q \in 1 .. p : chain[q].town # d[j]
      BY <2>11, <3>1, <3>2
    <3>4. \E k \in DOMAIN chain : chain[k].town = d[j]
      <4>1. d[j] \in TownsOf(chain)
        BY <2>5, <3>1 DEF Range
      <4> QED
        BY <4>1 DEF TownsOf
    <3> DEFINE A == at(d[i])
               B == at(d[j])
    <3>5. A \in SUBSET Nat /\ p \in A /\ B \in SUBSET Nat /\ B # {}
      BY <2>6, <3>3, <3>4
    <3>6. \A q \in B : q \in 1 .. n /\ q \notin 1 .. p
      BY <2>6, <3>3
    <3> HIDE DEF A, B
    <3>7. Min(A) \in Nat /\ Min(A) <= p
      BY <3>5, MinIs
    <3>8. Min(B) \in B
      BY <3>5, MinIs
    <3>9. Min(A) < Min(B)
      BY <2>6, <3>6, <3>7, <3>8
    <3> QED
      BY <3>1, <3>9 DEF A, B
  <2> HIDE DEF at
  <2>12. /\ Range(name.towns) \subseteq TownsOf(chain)
         /\ \A i, j \in DOMAIN name.towns : i < j => Min(at(name.towns[i])) < Min(at(name.towns[j]))
         /\ Len(name.towns) = Min({NAME_TOWNS, Cardinality(TownsOf(chain))})
    BY <2>4, <2>9, <2>10, <2>11
  <2> QED
    BY <2>2, <2>12 DEF NameNamesTheRoute, at
<1> QED
  BY <1>1, RouteInvHolds, PTL

-----------------------------------------------------------------------------
(* HubRoutes: where the shuttle stands, and what its visits leave.         *)

\* A unit has raw units in it, and the towns are different.
HubConstants ==
    /\ SCALING \in Nat \ {0} /\ Daily \subseteq Nat /\ MAX_STOCK \in Nat
    /\ Hub # Satellite /\ Nowhere \notin AllTowns

Amounts == 0..MAX_STOCK

Handlers == {"HubUnload", "HubLoad", "Satellite"}

\* Every place holds an amount between nothing and its bound.
HubTypeOK ==
    /\ next_action \in {"none", "dead"} \union Handlers
    /\ convoy \in {"docked", "repairing", "sea", "lost"}
    /\ destination \in AllTowns /\ last_town \in AllTowns
    /\ damaged \in BOOLEAN /\ diverted \in BOOLEAN
    /\ offices \subseteq HubTowns
    /\ office \in [HubTowns -> [Wares -> Amounts]]
    /\ cargo \in [Wares -> Amounts]

\* A convoy is bound for where its route needs it exactly if its player did not divert it, and in a
\* port, docked or under repair, it is in the port it was bound for. So the handler that tick_routes
\* picks finds the convoy elsewhere, and leaves it there, only if the player's last order brought it
\* there: not through create_route, the handlers' own orders, repairs or a flagship found again.
ShuttleStandsWhereItActs ==
    next_action \in Handlers /\ convoy # "lost" =>
        /\ destination = due(next_action) <=> ~diverted
        /\ convoy # "sea" => last_town = destination

\* A convoy that its player has diverted stays out of its route until he orders it back: no handler
\* does anything for it, in whatever port it lies, and only a missing office ends it.
DivertedStands ==
    [][diverted /\ diverted' => next_action' \in {next_action, "dead"}]_hubVars

\* The raw amount a town uses up in two weeks beyond what it makes.
TwoWeeks(w, used, output) == 2 * (weekly(used[w]) - weekly(output[w])) * SCALING

\* handle_hub_load leaves the hub two weeks of what the satellite needs of a ware, or takes nothing
\* of it.
HubKeepsItsReserve ==
    [][\A used, output \in [Wares -> Daily] : handle_hub_load(used, output) =>
          \A w \in Wares :
             /\ office'[Hub][w] <= office[Hub][w]
             /\ office[Hub][w] <= office'[Hub][w] \/ TwoWeeks(w, used, output) <= office'[Hub][w]]_hubVars

\* handle_satellite takes nothing of a ware the satellite needs, and fills its office up to two
\* weeks' need and no more than the unit that rounding adds.
SatelliteGetsItsNeed ==
    [][\A used, output \in [Wares -> Daily] : handle_satellite(used, output) =>
          \A w \in Wares :
             weekly(used[w]) > weekly(output[w]) =>
               /\ office[Satellite][w] <= office'[Satellite][w]
               /\ \/ office'[Satellite][w] = office[Satellite][w]
                  \/ office'[Satellite][w] < TwoWeeks(w, used, output) + SCALING]_hubVars

\* The smaller of two.
LEMMA LeastOfTwo ==
    ASSUME NEW a \in Int, NEW b \in Int
    PROVE  /\ least(a, b) \in {a, b} /\ least(a, b) \in Int
           /\ least(a, b) <= a /\ least(a, b) <= b
  BY DEF least

\* The full units in a raw amount.
LEMMA UnitsOfRaw ==
    ASSUME NEW unit \in Nat \ {0}, NEW raw \in Nat
    PROVE  /\ raw \div unit \in Nat
           /\ unit * (raw \div unit) <= raw
           /\ raw < unit * (raw \div unit) + unit
  OBVIOUS

\* A week's use is a number of units.
LEMMA WeeklyIsNat ==
    ASSUME HubConstants, NEW d \in Daily
    PROVE  weekly(d) \in Nat
<1>1. d * 7 \in Nat /\ SCALING \in Nat \ {0}
  BY DEF HubConstants
<1> QED
  BY <1>1, UnitsOfRaw DEF weekly

\* What is loaded was there and fits.
LEMMA LoadedFits ==
    ASSUME HubConstants, HubTypeOK, NEW t \in HubTowns, NEW w \in Wares, NEW a \in Nat
    PROVE  /\ loaded(t, w, a) \in Nat
           /\ loaded(t, w, a) <= a
           /\ loaded(t, w, a) <= office[t][w]
           /\ cargo[w] + loaded(t, w, a) <= MAX_STOCK
<1>1. office[t][w] \in 0..MAX_STOCK /\ cargo[w] \in 0..MAX_STOCK /\ MAX_STOCK \in Nat
  BY DEF HubTypeOK, HubConstants, Amounts
<1> QED
  BY <1>1 DEF loaded, least

\* What is unloaded was aboard and fits.
LEMMA UnloadedFits ==
    ASSUME HubConstants, HubTypeOK, NEW t \in HubTowns, NEW w \in Wares, NEW a \in Nat
    PROVE  /\ unloaded(t, w, a) \in Nat
           /\ unloaded(t, w, a) <= a
           /\ unloaded(t, w, a) <= cargo[w]
           /\ office[t][w] + unloaded(t, w, a) <= MAX_STOCK
<1>1. office[t][w] \in 0..MAX_STOCK /\ cargo[w] \in 0..MAX_STOCK /\ MAX_STOCK \in Nat
  BY DEF HubTypeOK, HubConstants, Amounts
<1> QED
  BY <1>1 DEF unloaded, least

\* What is loaded for a week is a number of units.
LEMMA AmountIsNat ==
    ASSUME HubConstants, NEW desired \in Nat, NEW stock \in Nat
    PROVE  amount(desired, stock) \in Nat
<1>1. stock \div SCALING \in Nat
  BY UnitsOfRaw DEF HubConstants
<1> QED
  BY <1>1 DEF amount, least

\* The hub keeps twice what is wanted, or all it has.
LEMMA ReserveStays ==
    ASSUME HubConstants, NEW desired \in Nat, NEW stock \in Nat, NEW taken \in Nat,
           taken <= SCALING * amount(desired, stock)
    PROVE  taken = 0 \/ 2 * desired * SCALING <= stock - taken
<1> DEFINE units == stock \div SCALING
<1>0. SCALING \in Nat \ {0}
  BY DEF HubConstants
<1>1. units \in Nat /\ SCALING * units <= stock
  BY <1>0, UnitsOfRaw
<1>2. CASE units > 2 * desired
  <2>1. units - 2 * desired \in Nat /\ amount(desired, stock) <= units - 2 * desired
    BY <1>1, <1>2 DEF amount, least
  <2>2. amount(desired, stock) \in Nat
    BY AmountIsNat
  <2>3. ASSUME NEW a \in Nat, NEW b \in Nat, a <= b PROVE SCALING * a <= SCALING * b
    BY <1>0, <2>3
  <2>4. SCALING * amount(desired, stock) <= SCALING * (units - 2 * desired)
    BY <2>1, <2>2, <2>3
  <2>5. SCALING * (units - 2 * desired) = SCALING * units - 2 * desired * SCALING
    BY <1>0, <1>1
  <2>6. SCALING * amount(desired, stock) \in Nat /\ 2 * desired * SCALING \in Nat /\ SCALING * units \in Nat
    BY <1>0, <1>1, <2>2
  <2> QED
    BY <1>1, <2>4, <2>5, <2>6
<1>3. CASE ~(units > 2 * desired)
  <2>1. amount(desired, stock) = 0
    BY <1>1, <1>3 DEF amount, least
  <2> QED
    BY <1>0, <2>1
<1> QED
  BY <1>2, <1>3

\* What is missing in full units fills up to the level and less than one unit more.
LEMMA NeedIsFilled ==
    ASSUME HubConstants, NEW level \in Nat, NEW stock \in Nat, NEW given \in Nat,
           level > stock \div SCALING,
           given <= SCALING * (level - stock \div SCALING)
    PROVE  stock + given < level * SCALING + SCALING
<1> DEFINE units == stock \div SCALING
<1>0. SCALING \in Nat \ {0}
  BY DEF HubConstants
<1>1. units \in Nat /\ stock < SCALING * units + SCALING
  BY <1>0, UnitsOfRaw
<1>2. SCALING * (level - units) = level * SCALING - SCALING * units
  BY <1>0, <1>1
<1>3. level * SCALING \in Nat /\ SCALING * units \in Nat
  BY <1>0, <1>1
<1> QED
  BY <1>0, <1>1, <1>2, <1>3

\* A visit that gives to an office or takes from it, ware by ware, and what it leaves.
LEMMA WaresMove ==
    ASSUME HubConstants, HubTypeOK, NEW t \in HubTowns,
           NEW given \in [Wares -> Nat], NEW taken \in [Wares -> Nat],
           \A w \in Wares :
              \/ taken[w] = 0 /\ given[w] <= cargo[w] /\ office[t][w] + given[w] <= MAX_STOCK
              \/ given[w] = 0 /\ taken[w] <= office[t][w] /\ cargo[w] + taken[w] <= MAX_STOCK,
           office' = [office EXCEPT ![t] = [w \in Wares |-> office[t][w] + given[w] - taken[w]]],
           cargo' = [w \in Wares |-> cargo[w] - given[w] + taken[w]]
    PROVE  /\ office' \in [HubTowns -> [Wares -> Amounts]]
           /\ cargo' \in [Wares -> Amounts]
           /\ \A w \in Wares : office'[t][w] = office[t][w] + given[w] - taken[w]
<1> USE DEF HubTypeOK, HubConstants, Amounts
<1>1. \A w \in Wares : /\ office[t][w] + given[w] - taken[w] \in 0..MAX_STOCK
                       /\ cargo[w] - given[w] + taken[w] \in 0..MAX_STOCK
  <2> TAKE w \in Wares
  <2>1. /\ office[t][w] \in 0..MAX_STOCK /\ cargo[w] \in 0..MAX_STOCK /\ MAX_STOCK \in Nat
        /\ given[w] \in Nat /\ taken[w] \in Nat
    OBVIOUS
  <2> QED
    BY ONLY <2>1, (taken[w] = 0 /\ given[w] <= cargo[w] /\ office[t][w] + given[w] <= MAX_STOCK)
       \/ (given[w] = 0 /\ taken[w] <= office[t][w] /\ cargo[w] + taken[w] <= MAX_STOCK)
<1>2. [w \in Wares |-> office[t][w] + given[w] - taken[w]] \in [Wares -> Amounts]
  BY <1>1
<1>3. office' \in [HubTowns -> [Wares -> Amounts]] /\ cargo' \in [Wares -> Amounts]
  BY <1>1, <1>2
<1>4. \A w \in Wares : office'[t][w] = office[t][w] + given[w] - taken[w]
  OBVIOUS
<1> QED
  BY <1>3, <1>4

\* Unloading at the hub is such a visit.
LEMMA HubUnloads ==
    ASSUME HubConstants, HubTypeOK, handle_hub_unload
    PROVE  /\ office' \in [HubTowns -> [Wares -> Amounts]] /\ cargo' \in [Wares -> Amounts]
<1> DEFINE given == [w \in Wares |-> unloaded(Hub, w, MAX_STOCK)]
           none == [w \in Wares |-> 0]
<1>0. Hub \in HubTowns /\ MAX_STOCK \in Nat
  BY DEF HubTowns, HubConstants
<1>1. \A w \in Wares : /\ given[w] \in Nat /\ given[w] <= cargo[w]
                       /\ office[Hub][w] + given[w] <= MAX_STOCK /\ none[w] = 0
  BY <1>0, UnloadedFits
<1>2. given \in [Wares -> Nat] /\ none \in [Wares -> Nat]
  BY <1>1
<1>3. \A w \in Wares : office[Hub][w] \in Int /\ cargo[w] \in Int
  BY <1>0 DEF HubTypeOK, HubConstants, Amounts
<1>4. [w \in Wares |-> office[Hub][w] + given[w] - none[w]]
        = [w \in Wares |-> office[Hub][w] + unloaded(Hub, w, MAX_STOCK)]
  BY <1>1, <1>3
<1>5. [w \in Wares |-> cargo[w] - given[w] + none[w]]
        = [w \in Wares |-> cargo[w] - unloaded(Hub, w, MAX_STOCK)]
  BY <1>1, <1>3
<1>6. office' = [office EXCEPT ![Hub] = [w \in Wares |-> office[Hub][w] + given[w] - none[w]]]
  BY <1>4 DEF handle_hub_unload
<1>7. cargo' = [w \in Wares |-> cargo[w] - given[w] + none[w]]
  BY <1>5 DEF handle_hub_unload
<1> HIDE DEF given, none
<1>8. \A w \in Wares :
        \/ none[w] = 0 /\ given[w] <= cargo[w] /\ office[Hub][w] + given[w] <= MAX_STOCK
        \/ given[w] = 0 /\ none[w] <= office[Hub][w] /\ cargo[w] + none[w] <= MAX_STOCK
  BY <1>1
<1> QED
  BY ONLY HubConstants, HubTypeOK, <1>0, <1>2, <1>6, <1>7, <1>8, WaresMove

\* Loading at the hub is one too, and keeps the reserve.
LEMMA HubLoads ==
    ASSUME HubConstants, HubTypeOK,
           NEW used \in [Wares -> Daily], NEW output \in [Wares -> Daily],
           handle_hub_load(used, output)
    PROVE  /\ office' \in [HubTowns -> [Wares -> Amounts]] /\ cargo' \in [Wares -> Amounts]
           /\ \A w \in Wares :
                 /\ office'[Hub][w] <= office[Hub][w]
                 /\ \/ office[Hub][w] <= office'[Hub][w]
                    \/ TwoWeeks(w, used, output) <= office'[Hub][w]
<1> DEFINE desired == [w \in Wares |-> weekly(used[w]) - weekly(output[w])]
           taken == [w \in Wares |->
                       IF weekly(used[w]) > weekly(output[w])
                       THEN loaded(Hub, w, SCALING * amount(desired[w], office[Hub][w]))
                       ELSE 0]
           none == [w \in Wares |-> 0]
<1>0. Hub \in HubTowns /\ MAX_STOCK \in Nat /\ SCALING \in Nat \ {0}
  BY DEF HubTowns, HubConstants
<1>1. \A w \in Wares : office[Hub][w] \in 0..MAX_STOCK /\ cargo[w] \in 0..MAX_STOCK
  BY <1>0 DEF HubTypeOK, Amounts
<1>2. \A w \in Wares : weekly(used[w]) \in Nat /\ weekly(output[w]) \in Nat
  BY WeeklyIsNat
<1>3. ASSUME NEW w \in Wares
      PROVE  /\ taken[w] \in Nat /\ taken[w] <= office[Hub][w] /\ cargo[w] + taken[w] <= MAX_STOCK
             /\ \/ taken[w] = 0
                \/ TwoWeeks(w, used, output) <= office[Hub][w] - taken[w]
  <2>1. CASE weekly(used[w]) > weekly(output[w])
    <3>1. desired[w] \in Nat /\ office[Hub][w] \in Nat /\ desired[w] = weekly(used[w]) - weekly(output[w])
      BY <1>0, <1>1, <1>2, <2>1
    <3>2. amount(desired[w], office[Hub][w]) \in Nat
      BY <3>1, AmountIsNat
    <3> DEFINE most == SCALING * amount(desired[w], office[Hub][w])
    <3>3. most \in Nat
      BY <1>0, <3>2
    <3>4. taken[w] = loaded(Hub, w, most)
      BY <2>1
    <3> HIDE DEF most
    <3>5. /\ taken[w] \in Nat /\ taken[w] <= most
          /\ taken[w] <= office[Hub][w] /\ cargo[w] + taken[w] <= MAX_STOCK
      BY <1>0, <3>3, <3>4, LoadedFits
    <3>6. taken[w] = 0 \/ 2 * desired[w] * SCALING <= office[Hub][w] - taken[w]
      BY <3>1, <3>5, ReserveStays DEF most
    <3> QED
      BY <3>1, <3>5, <3>6 DEF TwoWeeks
  <2>2. CASE ~(weekly(used[w]) > weekly(output[w]))
    BY <1>0, <1>1, <2>2
  <2> QED
    BY <2>1, <2>2
<1>4. taken \in [Wares -> Nat] /\ none \in [Wares -> Nat] /\ \A w \in Wares : none[w] = 0
  BY <1>3
<1>5. /\ office' = [office EXCEPT ![Hub] = [w \in Wares |-> office[Hub][w] - taken[w]]]
      /\ cargo' = [w \in Wares |-> cargo[w] + taken[w]]
  BY DEF handle_hub_load
<1> HIDE DEF taken, none
<1>6. [w \in Wares |-> office[Hub][w] + none[w] - taken[w]] = [w \in Wares |-> office[Hub][w] - taken[w]]
  BY <1>1, <1>3, <1>4
<1>7. [w \in Wares |-> cargo[w] - none[w] + taken[w]] = [w \in Wares |-> cargo[w] + taken[w]]
  BY <1>1, <1>3, <1>4
<1>8. office' = [office EXCEPT ![Hub] = [w \in Wares |-> office[Hub][w] + none[w] - taken[w]]]
  BY <1>5, <1>6
<1>9. cargo' = [w \in Wares |-> cargo[w] - none[w] + taken[w]]
  BY <1>5, <1>7
<1>10. /\ office' \in [HubTowns -> [Wares -> Amounts]] /\ cargo' \in [Wares -> Amounts]
       /\ \A w \in Wares : office'[Hub][w] = office[Hub][w] + none[w] - taken[w]
  <2>1. \A w \in Wares :
          \/ taken[w] = 0 /\ none[w] <= cargo[w] /\ office[Hub][w] + none[w] <= MAX_STOCK
          \/ none[w] = 0 /\ taken[w] <= office[Hub][w] /\ cargo[w] + taken[w] <= MAX_STOCK
    BY <1>3, <1>4
  <2> QED
    BY ONLY HubConstants, HubTypeOK, <1>0, <1>4, <1>8, <1>9, <2>1, WaresMove
<1>11. ASSUME NEW w \in Wares
       PROVE  /\ office'[Hub][w] <= office[Hub][w]
              /\ \/ office[Hub][w] <= office'[Hub][w]
                 \/ TwoWeeks(w, used, output) <= office'[Hub][w]
  <2>0. office[Hub][w] \in Nat /\ taken[w] \in Nat /\ none[w] = 0
    BY <1>1, <1>3, <1>4
  <2>1. office'[Hub][w] = office[Hub][w] - taken[w]
    <3>1. office'[Hub][w] = office[Hub][w] + none[w] - taken[w]
      BY <1>10
    <3> QED
      BY <2>0, <3>1
  <2> QED
    BY <2>1, <1>1, <1>3
<1> QED
  BY <1>10, <1>11

\* And so is the one at the satellite, which fills up what is needed.
LEMMA SatelliteServed ==
    ASSUME HubConstants, HubTypeOK,
           NEW used \in [Wares -> Daily], NEW output \in [Wares -> Daily],
           handle_satellite(used, output)
    PROVE  /\ office' \in [HubTowns -> [Wares -> Amounts]] /\ cargo' \in [Wares -> Amounts]
           /\ \A w \in Wares :
                 weekly(used[w]) > weekly(output[w]) =>
                   /\ office[Satellite][w] <= office'[Satellite][w]
                   /\ \/ office'[Satellite][w] = office[Satellite][w]
                      \/ office'[Satellite][w] < TwoWeeks(w, used, output) + SCALING
<1> DEFINE needed(w) == weekly(used[w]) > weekly(output[w])
           level(w) == 2 * (weekly(used[w]) - weekly(output[w]))
           units(w) == office[Satellite][w] \div SCALING
           given == [w \in Wares |->
                       IF needed(w) /\ level(w) > units(w)
                       THEN unloaded(Satellite, w, SCALING * (level(w) - units(w))) ELSE 0]
           taken == [w \in Wares |-> IF needed(w) THEN 0 ELSE loaded(Satellite, w, MAX_STOCK)]
<1>0. Satellite \in HubTowns /\ MAX_STOCK \in Nat /\ SCALING \in Nat \ {0}
  BY DEF HubTowns, HubConstants
<1>1. \A w \in Wares : office[Satellite][w] \in 0..MAX_STOCK /\ cargo[w] \in 0..MAX_STOCK
  BY <1>0 DEF HubTypeOK, Amounts
<1>2. \A w \in Wares : weekly(used[w]) \in Nat /\ weekly(output[w]) \in Nat
  BY WeeklyIsNat
<1>3. ASSUME NEW w \in Wares
      PROVE  /\ given[w] \in Nat /\ given[w] <= cargo[w]
             /\ office[Satellite][w] + given[w] <= MAX_STOCK
             /\ \/ given[w] = 0
                \/ office[Satellite][w] + given[w] < TwoWeeks(w, used, output) + SCALING
  <2>0. office[Satellite][w] \in Nat /\ units(w) \in Nat
    <3>1. office[Satellite][w] \in Nat
      BY <1>0, <1>1
    <3> QED
      BY <1>0, <3>1, UnitsOfRaw
  <2>1. CASE needed(w) /\ level(w) > units(w)
    <3>1. level(w) \in Nat /\ level(w) - units(w) \in Nat
      BY <1>2, <2>0, <2>1
    <3>2. given[w] = unloaded(Satellite, w, SCALING * (level(w) - units(w)))
      BY <2>1
    <3>3. SCALING * (level(w) - units(w)) \in Nat
      <4> HIDE DEF level, units
      <4> QED BY <1>0, <3>1
    <3> HIDE DEF given
    <3>4. /\ given[w] \in Nat /\ given[w] <= SCALING * (level(w) - units(w))
          /\ given[w] <= cargo[w] /\ office[Satellite][w] + given[w] <= MAX_STOCK
      BY ONLY HubConstants, HubTypeOK, w \in Wares, <1>0, <3>2, <3>3, UnloadedFits
    <3>5. office[Satellite][w] + given[w] < level(w) * SCALING + SCALING
      <4>1. level(w) > office[Satellite][w] \div SCALING
        BY <2>1
      <4>2. given[w] <= SCALING * (level(w) - office[Satellite][w] \div SCALING)
        BY <3>4
      <4> HIDE DEF level
      <4> QED BY ONLY HubConstants, <2>0, <3>1, <3>4, <4>1, <4>2, NeedIsFilled
    <3> QED
      BY <3>4, <3>5 DEF TwoWeeks
  <2>2. CASE ~(needed(w) /\ level(w) > units(w))
    <3>1. given[w] = 0
      BY <2>2
    <3> QED
      BY <1>0, <1>1, <3>1
  <2> QED
    BY <2>1, <2>2
<1>4. ASSUME NEW w \in Wares
      PROVE  /\ taken[w] \in Nat /\ taken[w] <= office[Satellite][w]
             /\ cargo[w] + taken[w] <= MAX_STOCK
  <2>1. CASE needed(w)
    BY <1>0, <1>1, <2>1
  <2>2. CASE ~needed(w)
    BY <1>0, <2>2, LoadedFits
  <2> QED
    BY <2>1, <2>2
<1>5. \A w \in Wares : taken[w] = 0 \/ given[w] = 0
  OBVIOUS
<1>6. given \in [Wares -> Nat] /\ taken \in [Wares -> Nat]
  BY <1>3, <1>4
<1>7. \A w \in Wares : needed(w) => taken[w] = 0
  OBVIOUS
<1>8. /\ office' = [office EXCEPT ![Satellite] =
                      [w \in Wares |-> office[Satellite][w] + given[w] - taken[w]]]
      /\ cargo' = [w \in Wares |-> cargo[w] - given[w] + taken[w]]
  BY DEF handle_satellite
<1> HIDE DEF given, taken
<1>9. /\ office' \in [HubTowns -> [Wares -> Amounts]] /\ cargo' \in [Wares -> Amounts]
      /\ \A w \in Wares : office'[Satellite][w] = office[Satellite][w] + given[w] - taken[w]
  <2>1. \A w \in Wares :
          \/ taken[w] = 0 /\ given[w] <= cargo[w] /\ office[Satellite][w] + given[w] <= MAX_STOCK
          \/ given[w] = 0 /\ taken[w] <= office[Satellite][w] /\ cargo[w] + taken[w] <= MAX_STOCK
    BY <1>3, <1>4, <1>5
  <2> QED
    BY ONLY HubConstants, HubTypeOK, <1>0, <1>6, <1>8, <2>1, WaresMove
<1>10. ASSUME NEW w \in Wares, needed(w)
       PROVE  /\ office[Satellite][w] <= office'[Satellite][w]
              /\ \/ office'[Satellite][w] = office[Satellite][w]
                 \/ office'[Satellite][w] < TwoWeeks(w, used, output) + SCALING
  <2>1. taken[w] = 0 /\ office'[Satellite][w] = office[Satellite][w] + given[w]
    BY <1>1, <1>3, <1>7, <1>9, <1>10
  <2> QED
    BY <2>1, <1>1, <1>3
<1> QED
  BY <1>9, <1>10

\* A convoy sent to a town is there or at sea.
LEMMA SentOff ==
    ASSUME NEW t \in AllTowns, MoveShipToTown(t), last_town' = last_town
    PROVE  /\ destination' = t /\ destination' \in AllTowns
           /\ convoy' \in {"docked", "sea"}
           /\ convoy' # "sea" => last_town' = t
  BY DEF MoveShipToTown

\* Only a convoy the agent has sent to repair is under repair, and only one of a route is diverted.
RepairsAreOrdered == next_action = "none" => convoy # "repairing" /\ ~diverted

\* The inductive invariant.
HubInv == HubTypeOK /\ ShuttleStandsWhereItActs /\ RepairsAreOrdered

\* It holds when the route is not yet made.
LEMMA HubStart == ASSUME HubConstants, HubInit PROVE HubInv
<1>1. MAX_STOCK \in Amounts /\ 0 \in Amounts
  BY DEF HubConstants, Amounts
<1>2. office \in [HubTowns -> [Wares -> Amounts]] /\ cargo \in [Wares -> Amounts]
  BY <1>1 DEF HubInit, Empty
<1> QED
  BY <1>2 DEF HubInit, HubInv, HubTypeOK, Handlers, ShuttleStandsWhereItActs, RepairsAreOrdered,
              AllTowns

\* Using up stock leaves amounts.
LEMMA TownsLive ==
    ASSUME HubConstants, HubTypeOK, Live
    PROVE  office' \in [HubTowns -> [Wares -> Amounts]]
<1>1. PICK t \in offices, w \in Wares, d \in Daily :
         office' = [office EXCEPT ![t][w] = IF @ > d THEN @ - d ELSE 0]
  BY DEF Live
<1>2. d \in Nat /\ office[t][w] \in 0..MAX_STOCK /\ MAX_STOCK \in Nat
  BY DEF HubTypeOK, HubConstants, Amounts
<1>3. (IF office[t][w] > d THEN office[t][w] - d ELSE 0) \in Amounts
  BY <1>2 DEF Amounts
<1> QED
  BY <1>1, <1>3 DEF HubTypeOK

\* Every step preserves it.
LEMMA HubStep == ASSUME HubConstants, HubInv, [HubNext]_hubVars PROVE HubInv'
<1> USE DEF HubInv, Handlers
<1>0. Hub \in AllTowns /\ Satellite \in AllTowns
  BY DEF AllTowns, HubTowns
<1>10. Empty \in [Wares -> Amounts]
  BY DEF Empty, Amounts, HubConstants
<1>1. CASE Arrive
  BY <1>1 DEF Arrive, HubTypeOK, ShuttleStandsWhereItActs, RepairsAreOrdered, due
<1>2. CASE Repaired
  BY <1>2 DEF Repaired, HubTypeOK, ShuttleStandsWhereItActs, RepairsAreOrdered, due
<1>3. CASE Live
  <2>1. office' \in [HubTowns -> [Wares -> Amounts]]
    BY <1>3, TownsLive
  <2> QED
    BY <1>3, <2>1 DEF Live, HubTypeOK, ShuttleStandsWhereItActs, RepairsAreOrdered, due
<1>4. CASE Player
  <2>1. PICK t \in AllTowns : /\ MoveShipToTown(t)
                             /\ diverted' = (next_action # "none" /\ t # due(next_action))
    BY <1>4 DEF Player
  <2>2. /\ UNCHANGED <<next_action, last_town, damaged, offices, office, cargo>>
        /\ convoy \in {"docked", "sea"}
    BY <1>4 DEF Player
  <2>3. /\ destination' = t /\ convoy' \in {"docked", "sea"}
        /\ convoy' # "sea" => last_town' = t
    BY <2>1, <2>2, SentOff
  <2> QED
    BY <2>1, <2>2, <2>3 DEF HubTypeOK, ShuttleStandsWhereItActs, RepairsAreOrdered, due
<1>5. CASE create_route
  <2>1. PICK d \in {destination} \union (IF convoy = "docked" THEN {Nowhere} ELSE {}) :
          MoveShipToTown(goal(d)) /\ next_action' = firstAction(d)
    BY <1>5 DEF create_route
  <2>2. goal(d) = due(next_action') /\ next_action' \in {"HubUnload", "Satellite"}
        /\ goal(d) \in AllTowns
    BY <1>0, <2>1 DEF goal, firstAction, due
  <2>3. UNCHANGED <<last_town, damaged, offices, office, cargo, diverted>> /\ next_action = "none"
    BY <1>5 DEF create_route
  <2>4. /\ destination' = goal(d) /\ convoy' \in {"docked", "sea"}
        /\ convoy' # "sea" => last_town' = goal(d)
    BY <2>1, <2>2, <2>3, SentOff
  <2> QED
    BY <2>2, <2>3, <2>4 DEF HubTypeOK, ShuttleStandsWhereItActs, RepairsAreOrdered
<1>6. CASE RouteTick
  <2>1. CASE handle_hub_unload
    <3>1. office' \in [HubTowns -> [Wares -> Amounts]] /\ cargo' \in [Wares -> Amounts]
      BY <2>1, HubUnloads
    <3>2. convoy = "docked" /\ convoy' \in {"docked", "repairing"}
      BY <1>6, <2>1 DEF RouteTick, handle_hub_unload
    <3> QED
      BY <2>1, <3>1, <3>2 DEF handle_hub_unload, HubTypeOK, ShuttleStandsWhereItActs,
                              RepairsAreOrdered, due
  <2>2. ASSUME NEW used \in [Wares -> Daily], NEW output \in [Wares -> Daily],
               handle_hub_load(used, output)
        PROVE  HubInv'
    <3>1. office' \in [HubTowns -> [Wares -> Amounts]] /\ cargo' \in [Wares -> Amounts]
      BY <2>2, HubLoads
    <3>2. /\ MoveShipToTown(Satellite) /\ next_action' = "Satellite"
          /\ UNCHANGED <<last_town, damaged, offices, diverted>>
      BY <2>2 DEF handle_hub_load
    <3>4. convoy = "docked" /\ next_action = "HubLoad" /\ last_town = Hub
      BY <1>6, <2>2 DEF RouteTick, handle_hub_load
    <3>5. ~diverted
      BY <3>4 DEF ShuttleStandsWhereItActs, due
    <3>3. /\ destination' = Satellite /\ convoy' \in {"docked", "sea"}
          /\ convoy' # "sea" => last_town' = Satellite
      BY <1>0, <3>2, SentOff
    <3> QED
      BY <1>0, <3>1, <3>2, <3>3, <3>5 DEF HubTypeOK, ShuttleStandsWhereItActs, RepairsAreOrdered, due
  <2>3. ASSUME NEW used \in [Wares -> Daily], NEW output \in [Wares -> Daily],
               handle_satellite(used, output)
        PROVE  HubInv'
    <3>1. office' \in [HubTowns -> [Wares -> Amounts]] /\ cargo' \in [Wares -> Amounts]
      BY <2>3, SatelliteServed
    <3>2. /\ MoveShipToTown(Hub) /\ next_action' = "HubUnload"
          /\ UNCHANGED <<last_town, damaged, offices, diverted>>
      BY <2>3 DEF handle_satellite
    <3>4. convoy = "docked" /\ next_action = "Satellite" /\ last_town = Satellite
      BY <1>6, <2>3 DEF RouteTick, handle_satellite
    <3>5. ~diverted
      BY <3>4 DEF ShuttleStandsWhereItActs, due
    <3>3. /\ destination' = Hub /\ convoy' \in {"docked", "sea"}
          /\ convoy' # "sea" => last_town' = Hub
      BY <1>0, <3>2, SentOff
    <3> QED
      BY <1>0, <3>1, <3>2, <3>3, <3>5 DEF HubTypeOK, ShuttleStandsWhereItActs, RepairsAreOrdered, due
  <2>4. CASE panics
    BY <2>4, <1>0 DEF panics, Lost, HubTypeOK, ShuttleStandsWhereItActs, RepairsAreOrdered, AllTowns
  <2> QED
    BY <1>6, <2>1, <2>2, <2>3, <2>4 DEF RouteTick
<1>7. CASE UNCHANGED hubVars
  BY <1>7 DEF hubVars, HubTypeOK, ShuttleStandsWhereItActs, RepairsAreOrdered
<1>8. CASE Lose
  BY <1>8 DEF Lose, Lost, HubTypeOK, ShuttleStandsWhereItActs, RepairsAreOrdered, AllTowns
<1>9. CASE Found
  <2>1. PICK t \in AllTowns : /\ destination' = t /\ last_town' = t
                             /\ diverted' = (next_action # "none" /\ t # due(next_action))
    BY <1>9 DEF Found
  <2>2. /\ convoy' = "docked" /\ damaged' \in BOOLEAN /\ cargo' \in {cargo, Empty}
        /\ UNCHANGED <<next_action, offices, office>>
    BY <1>9 DEF Found
  <2>3. cargo' \in [Wares -> Amounts]
    BY <1>10, <2>2 DEF HubTypeOK
  <2> QED
    BY <2>1, <2>2, <2>3 DEF HubTypeOK, ShuttleStandsWhereItActs, RepairsAreOrdered, due
<1>11. ASSUME NEW t \in HubTowns, Premises(t) PROVE HubInv'
  <2>1. office' \in [HubTowns -> [Wares -> Amounts]] /\ offices' \subseteq HubTowns
    BY <1>10, <1>11 DEF Premises, HubTypeOK
  <2> QED
    BY <1>11, <2>1 DEF Premises, HubTypeOK, ShuttleStandsWhereItActs, RepairsAreOrdered, due
<1> QED
  BY <1>1, <1>2, <1>3, <1>4, <1>5, <1>6, <1>7, <1>8, <1>9, <1>11 DEF HubNext

\* The invariant of the shuttle, for any wares, unit, needs and bound.
THEOREM ShuttleInvariant == ASSUME HubConstants PROVE HubSpec => []HubInv
<1>1. HubInit => HubInv
  BY HubStart
<1>2. HubInv /\ [HubNext]_hubVars => HubInv'
  BY HubStep
<1> QED
  BY <1>1, <1>2, PTL DEF HubSpec

\* The convoy of a route waits in a port where it has nothing to do only when its player's last
\* order took it there, for any wares, stocks and needs.
THEOREM ShuttleInPlace ==
    ASSUME HubConstants PROVE HubSpec => []ShuttleStandsWhereItActs
  BY ShuttleInvariant, PTL DEF HubInv

\* And there it stays until he orders it back.
THEOREM DivertedConvoysStand == ASSUME HubConstants PROVE HubSpec => DivertedStands
<1> DEFINE Stays == diverted /\ diverted' => next_action' \in {next_action, "dead"}
<1>1. HubInv /\ [HubNext]_hubVars => [Stays]_hubVars
  <2> SUFFICES ASSUME HubInv, HubNext, diverted PROVE next_action' \in {next_action, "dead"}
    OBVIOUS
  <2>1. next_action # "none"
    BY DEF HubInv, RepairsAreOrdered
  <2>2. create_route => next_action = "none"
    BY Zenon DEF create_route
  <2>3. CASE RouteTick
    <3>1. convoy = "docked" => next_action \notin Handlers \/ last_town # due(next_action)
      BY DEF HubInv, ShuttleStandsWhereItActs
    <3>2. ~handle_hub_unload
      BY <2>3, <3>1 DEF RouteTick, handle_hub_unload, Handlers, due
    <3>3. \A used, output \in [Wares -> Daily] : ~handle_hub_load(used, output)
      BY <2>3, <3>1 DEF RouteTick, handle_hub_load, Handlers, due
    <3>4. \A used, output \in [Wares -> Daily] : ~handle_satellite(used, output)
      BY <2>3, <3>1 DEF RouteTick, handle_satellite, Handlers, due
    <3> QED
      BY <2>3, <3>2, <3>3, <3>4 DEF RouteTick, panics
  <2> QED
    BY <2>1, <2>2, <2>3 DEF HubNext, Arrive, Repaired, Live, Lose, Lost, Found, Player, Premises
<1> HIDE DEF Stays
<1>2. HubSpec => [][Stays]_hubVars
  BY <1>1, ShuttleInvariant, PTL DEF HubSpec
<1> QED
  BY <1>2 DEF Stays, DivertedStands

\* The hub is never emptied for its satellite, for any stock and any need.
THEOREM ReserveIsKept == ASSUME HubConstants PROVE HubSpec => HubKeepsItsReserve
<1> DEFINE Kept == \A used, output \in [Wares -> Daily] : handle_hub_load(used, output) =>
              \A w \in Wares :
                 /\ office'[Hub][w] <= office[Hub][w]
                 /\ office[Hub][w] <= office'[Hub][w] \/ TwoWeeks(w, used, output) <= office'[Hub][w]
<1>1. HubInv => Kept
  BY HubLoads DEF HubInv
<1>2. HubSpec => []HubInv
  BY ShuttleInvariant
<1> HIDE DEF Kept
<1>3. HubSpec => [][Kept]_hubVars
  BY <1>1, <1>2, PTL DEF HubSpec
<1> QED
  BY <1>3 DEF Kept, HubKeepsItsReserve

\* A satellite is never robbed of what it needs, and not stocked beyond two weeks' need.
THEOREM NeedIsServed == ASSUME HubConstants PROVE HubSpec => SatelliteGetsItsNeed
<1> DEFINE Served == \A used, output \in [Wares -> Daily] : handle_satellite(used, output) =>
              \A w \in Wares :
                 weekly(used[w]) > weekly(output[w]) =>
                   /\ office[Satellite][w] <= office'[Satellite][w]
                   /\ \/ office'[Satellite][w] = office[Satellite][w]
                      \/ office'[Satellite][w] < TwoWeeks(w, used, output) + SCALING
<1>1. HubInv => Served
  BY SatelliteServed DEF HubInv
<1>2. HubSpec => []HubInv
  BY ShuttleInvariant
<1> HIDE DEF Served
<1>3. HubSpec => [][Served]_hubVars
  BY <1>1, <1>2, PTL DEF HubSpec
<1> QED
  BY <1>3 DEF Served, SatelliteGetsItsNeed

-----------------------------------------------------------------------------
(* RemoteAgent: the mutex and the status of its threads.                   *)

\* Clients are told from the other holders of the lock, and servers are counted from 1.
AgentConstants ==
    /\ "none" \notin Clients /\ "start" \notin Clients
    /\ Servers \subseteq Nat \ {0}

\* Every thread is where it can be.
AgentTypeOK ==
    /\ agent \in {"absent", "locking", "hooking", "started", "failed", "waiting", "stopped", "freed"}
    /\ starts \in Nat
    /\ SERVER_STATUS \in {"initial", "running", "shutdown", "finished"}
    /\ server \in [Servers -> {"none", "spawned", "accepting", "joining", "ended"}]
    /\ client \in [Clients -> {"away", "reading", "locking", "answering", "ended"}]

\* The mutex of CONTEXT is held by exactly the thread that is in its section: start() while it
\* hooks, or the client that is being answered.
ContextIsLockedByOne ==
    /\ lock \in {"none", "start"} \union Clients
    /\ lock = "start" <=> agent = "hooking"
    /\ \A c \in Clients : lock = c <=> client[c] = "answering"

\* Two servers never listen at the same port.
OnePort == \A s, o \in Servers : server[s] = "accepting" /\ server[o] = "accepting" => s = o

\* The status says shutdown only while stop() waits for it; while stop() waits nobody takes the
\* status back but for finished; and a server leaves its accept loop to join only once stop() has
\* asked for it.
ShutdownIsAwaited ==
    /\ SERVER_STATUS = "shutdown" => agent = "waiting"
    /\ agent = "waiting" => SERVER_STATUS \in {"shutdown", "finished"}
    /\ \A s \in Servers : server[s] = "joining" => agent \in {"waiting", "stopped", "freed"}

\* When start() has run once, finished means that its server's thread is through: a stop() that got
\* as far as waiting does not come back while that thread runs. A stop() that may not take a hook
\* back comes back with 0 before it asks the server for anything, and FreeLibrary then frees the
\* code of a server that still accepts: the status is running then, and nothing is claimed.
OneServerIsWaitedFor ==
    starts = 1 /\ SERVER_STATUS = "finished" =>
        /\ 1 \in Servers /\ server[1] = "ended"
        /\ \A s \in Servers \ {1} : server[s] = "none"

\* Servers are of the starts so far, the one being started has none yet, and finished is said
\* by a server that has ended.
ServersAreStarted ==
    /\ \A s \in Servers : server[s] # "none" => s <= starts
    /\ agent = "locking" => starts \in Servers /\ server[starts] = "none"
    /\ SERVER_STATUS = "finished" => \E s \in Servers : server[s] = "ended"

\* The inductive invariant.
AgentInv == AgentTypeOK /\ ContextIsLockedByOne /\ OnePort /\ ShutdownIsAwaited /\ ServersAreStarted

\* It holds before the library is loaded.
LEMMA AgentStart == ASSUME AgentConstants, AgentInit PROVE AgentInv
  BY DEF AgentConstants, AgentInit, AgentInv, AgentTypeOK, ContextIsLockedByOne, OnePort,
         ShutdownIsAwaited, ServersAreStarted

\* The end of a server preserves it.
LEMMA EndsKeeps ==
    ASSUME AgentConstants, AgentInv, NEW s \in Servers, server[s] # "none",
           Ends(s), UNCHANGED <<agent, starts, lock, client>>
    PROVE  AgentInv'
  BY DEF AgentConstants, Ends, AgentInv, AgentTypeOK, ContextIsLockedByOne, OnePort,
         ShutdownIsAwaited, ServersAreStarted

\* So does every step of a server.
LEMMA ServerKeeps ==
    ASSUME AgentConstants, AgentInv, NEW s \in Servers, ServerThread(s)
    PROVE  AgentInv'
<1> USE DEF AgentConstants, AgentInv, AgentTypeOK, ContextIsLockedByOne, OnePort,
            ShutdownIsAwaited, ServersAreStarted
<1>0. UNCHANGED <<agent, starts>>
  BY DEF ServerThread
<1>1. CASE Bind(s)
  <2>1. CASE Ends(s)
    BY <1>0, <1>1, <2>1, EndsKeeps DEF Bind
  <2>2. CASE ~Ends(s)
    BY <1>0, <1>1, <2>2 DEF Bind
  <2> QED
    BY <2>1, <2>2
<1>2. CASE Accept(s)
  <2>1. CASE SERVER_STATUS = "shutdown"
    BY <1>0, <1>2, <2>1 DEF Accept
  <2>2. CASE Ends(s) /\ UNCHANGED client
    BY <1>0, <1>2, <2>2, EndsKeeps DEF Accept
  <2>3. ASSUME NEW c \in Clients, client[c] = "away",
               client' = [client EXCEPT ![c] = "reading"], UNCHANGED <<SERVER_STATUS, server>>
        PROVE  AgentInv'
    BY <1>0, <1>2, <2>3 DEF Accept
  <2> QED
    BY <1>2, <2>1, <2>2, <2>3 DEF Accept
<1>3. CASE Join(s)
  BY <1>0, <1>3, EndsKeeps DEF Join
<1> QED
  BY <1>1, <1>2, <1>3 DEF ServerThread

\* And of a client, lines that come in included.
LEMMA ClientKeeps ==
    ASSUME AgentConstants, AgentInv, NEW c \in Clients, ClientThread(c) \/ Incoming(c)
    PROVE  AgentInv'
<1> USE DEF AgentConstants, AgentInv, AgentTypeOK, ContextIsLockedByOne, OnePort,
            ShutdownIsAwaited, ServersAreStarted, shared
<1>0. UNCHANGED <<agent, starts>>
  BY DEF ClientThread, Incoming
<1>1. CASE Leave(c)
  BY <1>0, <1>1 DEF Leave
<1>2. CASE Queue(c)
  BY <1>0, <1>2 DEF Queue
<1>3. CASE Answer(c)
  BY <1>0, <1>3 DEF Answer
<1>4. CASE Read(c)
  BY <1>0, <1>4 DEF Read
<1> QED
  BY <1>1, <1>2, <1>3, <1>4 DEF ClientThread, Incoming

\* And every other step.
LEMMA AgentStep == ASSUME AgentConstants, AgentInv, [AgentNext]_agentVars PROVE AgentInv'
<1> USE DEF AgentConstants, AgentInv, AgentTypeOK, ContextIsLockedByOne, OnePort,
            ShutdownIsAwaited, ServersAreStarted, shared, threads
<1>1. CASE Load
  BY <1>1 DEF Load
<1>2. CASE StartContext
  BY <1>2 DEF StartContext
<1>3. CASE StartHooks
  BY <1>3 DEF StartHooks
<1>4. CASE Tick
  BY <1>4 DEF Tick
<1>5. CASE \E s \in Servers : ServerThread(s)
  BY <1>5, ServerKeeps
<1>6. CASE \E c \in Clients : ClientThread(c) \/ Incoming(c)
  BY <1>6, ClientKeeps
<1>7. CASE Unload
  BY <1>7 DEF Unload
<1>8. CASE StopWait
  BY <1>8 DEF StopWait
<1>9. CASE FreeLibrary
  BY <1>9 DEF FreeLibrary
<1>10. CASE UNCHANGED agentVars
  BY <1>10 DEF agentVars
<1> QED
  BY <1>1, <1>2, <1>3, <1>4, <1>5, <1>6, <1>7, <1>8, <1>9, <1>10 DEF AgentNext

\* The invariant of the agent, for any number of clients, starts and hooks.
THEOREM AgentInvariant == ASSUME AgentConstants PROVE AgentSpec => []AgentInv
<1>1. AgentInit => AgentInv
  BY AgentStart
<1>2. AgentInv /\ [AgentNext]_agentVars => AgentInv'
  BY AgentStep
<1> QED
  BY <1>1, <1>2, PTL DEF AgentSpec

\* No two threads are ever in a section of CONTEXT, and no section is left with the lock
\* held, so that nobody waits for a thread that has gone on; one server listens at most.
THEOREM ContextIsHeldByOne ==
    ASSUME AgentConstants PROVE AgentSpec => [](ContextIsLockedByOne /\ OnePort)
<1>1. AgentInv => ContextIsLockedByOne /\ OnePort
  BY DEF AgentInv
<1> QED
  BY <1>1, AgentInvariant, PTL

\* Between the request to shut down and the answer nothing but an ended server changes the
\* status, and after one start() that answer is its server's: a stop() that waits, waits for it.
THEOREM StopIsHeard ==
    ASSUME AgentConstants PROVE AgentSpec => [](ShutdownIsAwaited /\ OneServerIsWaitedFor)
<1>1. AgentInv => ShutdownIsAwaited /\ OneServerIsWaitedFor
  <2> SUFFICES ASSUME AgentInv, starts = 1, SERVER_STATUS = "finished"
               PROVE  OneServerIsWaitedFor
    BY DEF AgentInv, OneServerIsWaitedFor
  <2>1. PICK s \in Servers : server[s] = "ended"
    BY DEF AgentInv, ServersAreStarted
  <2>2. \A o \in Servers : server[o] # "none" => o = 1
    BY DEF AgentInv, ServersAreStarted, AgentConstants
  <2> QED
    BY <2>1, <2>2 DEF OneServerIsWaitedFor
<1> QED
  BY <1>1, AgentInvariant, PTL

=============================================================================
