------------------------------ MODULE TourOrder ------------------------------
(***************************************************************************)
(* The order of a fetch route's towns: order_towns_by_distance of          *)
(* src/mod-trading-qol/src/routes.rs. Nearest neighbour from home, then    *)
(* 2-opt: any stretch of the tour whose two cut legs get shorter for it is *)
(* reversed, until a whole pass finds none. Node 1 is home, the others are *)
(* the towns in the order they were discovered.                            *)
(***************************************************************************)
EXTENDS Naturals, Sequences

CONSTANTS
    N,          \* nodes: home and at least three towns, fewer are not ordered
    Lengths,    \* the distances the router may report
    MAX_PASSES  \* 1000 in the code

ASSUME NodesAssumption == N \in Nat /\ N >= 4
ASSUME LengthsAssumption == Lengths \subseteq Nat
ASSUME PassesAssumption == MAX_PASSES \in Nat \ {0}

VARIABLES
    distance, \* the half matrix of the router's answers
    tour,     \* the nodes visited, in order; the closing leg leads back to home
    stage,    \* "greedy", "2-opt", "ordered", or "as discovered"
    left, right, \* the stretch compared next: i and k in the code
    improved, \* this pass reversed a stretch
    pass

tourVars == <<distance, tour, stage, left, right, improved, pass>>

Nodes == 1 .. N

Legs == {pair \in Nodes \X Nodes : pair[1] < pair[2]}

leg(a, b) == IF a < b THEN distance[<<a, b>>] ELSE IF b < a THEN distance[<<b, a>>] ELSE 0

Successor(p) == IF p = N THEN tour[1] ELSE tour[p + 1]

\* The two legs around the stretch from p to q get shorter when it is reversed.
Shorter(p, q) ==
    leg(tour[p - 1], tour[q]) + leg(tour[p], Successor(q)) < leg(tour[p - 1], tour[p]) + leg(tour[q], Successor(q))

Reversed(p, q) == [s \in 1 .. N |-> IF s \in p .. q THEN tour[p + q - s] ELSE tour[s]]

-----------------------------------------------------------------------------
\* A town has no id or the router finds no way: the towns stay in the order of discovery.
KeepDiscoveryOrder ==
    /\ stage = "greedy" /\ Len(tour) = 1
    /\ stage' = "as discovered"
    /\ tour' = [s \in 1 .. N |-> s]
    /\ UNCHANGED <<distance, left, right, improved, pass>>

Unvisited == {n \in Nodes : \A s \in 1 .. Len(tour) : tour[s] # n}

\* The first of the nearest nodes not visited yet.
IsNext(n) ==
    LET here == tour[Len(tour)]
    IN  /\ n \in Unvisited
        /\ \A m \in Unvisited : leg(here, n) < leg(here, m) \/ (leg(here, n) = leg(here, m) /\ n <= m)

VisitNearest ==
    /\ stage = "greedy" /\ Len(tour) < N
    /\ \E n \in Nodes : IsNext(n) /\ tour' = Append(tour, n)
    /\ UNCHANGED <<distance, stage, left, right, improved, pass>>

StartImproving ==
    /\ stage = "greedy" /\ Len(tour) = N
    /\ stage' = "2-opt"
    /\ UNCHANGED <<distance, tour, left, right, improved, pass>>

\* Faulty variant: only the last comparison of a pass counts.
FoundLast(shorter) == shorter

Found(shorter) == improved \/ shorter

NextStretch(p, q) == IF q = N THEN <<p + 1, p + 2>> ELSE <<p, q + 1>>

\* One round of the inner loop.
Compare ==
    /\ stage = "2-opt"
    /\ left < N
    /\ tour' = IF Shorter(left, right) THEN Reversed(left, right) ELSE tour
    /\ improved' = Found(Shorter(left, right))
    /\ left' = NextStretch(left, right)[1]
    /\ right' = NextStretch(left, right)[2]
    /\ UNCHANGED <<distance, stage, pass>>

EndPass ==
    /\ stage = "2-opt"
    /\ left = N
    /\ IF improved /\ pass < MAX_PASSES
       THEN /\ pass' = pass + 1
            /\ left' = 2 /\ right' = 3
            /\ improved' = FALSE
            /\ UNCHANGED stage
       ELSE /\ stage' = "ordered"
            /\ UNCHANGED <<left, right, improved, pass>>
    /\ UNCHANGED <<distance, tour>>

TourInit ==
    /\ distance \in [Legs -> Lengths]
    /\ tour = <<1>>
    /\ stage = "greedy"
    /\ left = 2 /\ right = 3
    /\ improved = FALSE
    /\ pass = 1

Return == stage \in {"ordered", "as discovered"} /\ UNCHANGED tourVars

TourNext == KeepDiscoveryOrder \/ VisitNearest \/ StartImproving \/ Compare \/ EndPass \/ Return

TourSpec == TourInit /\ [][TourNext]_tourVars

-----------------------------------------------------------------------------
TourLength(t) ==
    LET upTo[s \in 0 .. N] == IF s = 0 THEN 0 ELSE upTo[s - 1] + leg(t[s], IF s = N THEN t[1] ELSE t[s + 1])
    IN  upTo[N]

\* The indices of the slices and of the matrix stay within bounds.
TourTypeOK ==
    /\ distance \in [Legs -> Lengths]
    /\ tour \in Seq(Nodes) /\ Len(tour) \in 1 .. N
    /\ stage \in {"greedy", "2-opt", "ordered", "as discovered"}
    /\ left \in 2 .. N /\ right \in 3 .. N + 1
    /\ left < N => left < right /\ right <= N
    /\ improved \in BOOLEAN
    /\ pass \in 1 .. MAX_PASSES

\* However stretches are reversed the route leaves home, calls nowhere twice, and calls at as
\* many places as there are: no town with the wares gets lost and home stays the bracket.
EveryTownOnce ==
    /\ tour[1] = 1
    /\ \A s, t \in 1 .. Len(tour) : tour[s] = tour[t] => s = t
    /\ stage # "greedy" => Len(tour) = N

\* The improving ends by itself, not at the pass cap, and then no reversal is left that helps.
OrderedIsOptimal ==
    stage = "ordered" =>
        /\ ~improved
        /\ \A p \in 2 .. N - 1 : \A q \in p + 1 .. N :
              LET mirrored == [s \in 1 .. N |-> IF s \in p .. q THEN tour[p + q - s] ELSE tour[s]]
              IN  TourLength(tour) <= TourLength(mirrored)
=============================================================================
