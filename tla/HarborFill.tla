----------------------------- MODULE HarborFill -----------------------------
(***************************************************************************)
(* mod-fix-harbor-fill-oob: the guard on the town view's harbour flood     *)
(* fill. The game steps a seed waypoint one tile diagonally without        *)
(* clamping, fills from there, and recurses to the neighbours (+-1, 0) and *)
(* (0, +-2) - neither entry looks at its coordinates. The mod detours      *)
(* both: a call outside [0, stride) x [0, height) returns at once.         *)
(*                                                                         *)
(* The fill itself is external, as the mod describes it: it takes a cell   *)
(* that matches, marks it and calls itself for the neighbours, one call    *)
(* after the other; `calls` are the ones still to be made. The matrix is a *)
(* single allocation with the index stride * y + x.                        *)
(***************************************************************************)
EXTENDS Integers, Sequences

CONSTANTS stride, height

ASSUME HarborAssumption == stride \in Nat /\ height \in Nat

MapCells == 0 .. stride * height - 1
Deltas == <<<<1, 0>>, <<-1, 0>>, <<0, 2>>, <<0, -2>>>>

VARIABLES
    detours,     \* how many of the two detours are in place, in the order of start()
    water,       \* the cells of the map that match
    matrix,      \* the cells filled so far
    seed,
    calls,       \* sequence of [site, x, y]
    SITE_COUNTS, \* rejections per site
    outside,     \* history: the matrix was touched outside its allocation
    region       \* history: the cells the fill is meant to mark

fillVars == <<detours, water, matrix, seed, calls, SITE_COUNTS, outside, region>>

FillInit ==
    /\ detours = 0 /\ water = {} /\ matrix = {} /\ seed = <<0, 0>> /\ calls = <<>>
    /\ SITE_COUNTS = [seed |-> 0, recurse |-> 0] /\ outside = FALSE /\ region = {}

\* Hooks the seed fill, then the recursive one; each of the two may fail and ends it.
start_harbor ==
    /\ detours = 0 /\ water = {}
    /\ detours' \in {1, 2}
    /\ UNCHANGED <<water, matrix, seed, calls, SITE_COUNTS, outside, region>>

\* The tiles a fill is meant to mark, by columns and rows and not by index: what can be
\* reached from `from` over the matching tiles of the map, a delta at a time - what lies in
\* every set of tiles that has `from` and, with a tile, its matching neighbours.
Tiles(w) == {t \in (0 .. stride - 1) \X (0 .. height - 1) : stride * t[2] + t[1] \in w}
Neighbours(t) == {<<t[1] + Deltas[i][1], t[2] + Deltas[i][2]>> : i \in 1 .. 4}
Closed(tiles, from, w) ==
    /\ {from} \cap Tiles(w) \subseteq tiles
    /\ \A t \in tiles : Neighbours(t) \cap Tiles(w) \subseteq tiles
Region(from, w) ==
    {stride * t[2] + t[1] :
       t \in {u \in Tiles(w) : \A tiles \in SUBSET Tiles(w) : Closed(tiles, from, w) => u \in tiles}}

\* External: a town view opens; its waypoint lies on the map and is stepped diagonally.
OpenTownView ==
    /\ water = {} /\ calls = <<>>
    /\ water' \in (SUBSET MapCells) \ {{}}
    /\ \E x \in 0 .. stride - 1, y \in 0 .. height - 1, dx \in {-1, 1}, dy \in {-1, 1} :
         /\ seed' = <<x + dx, y + dy>>
         /\ calls' = <<[site |-> "seed", x |-> x + dx, y |-> y + dy]>>
         /\ region' = Region(<<x + dx, y + dy>>, water')
    /\ UNCHANGED <<detours, matrix, SITE_COUNTS, outside>>

\* Faulty variant: the upper bounds are taken as inclusive.
in_range_inclusive(x, y) == x >= 0 /\ y >= 0 /\ x <= stride /\ y <= height

in_range(x, y) == x >= 0 /\ y >= 0 /\ x < stride /\ y < height

guarded(site) == detours = 2 \/ (detours = 1 /\ site = "seed")

around(c) == [i \in 1 .. 4 |-> [site |-> "recurse", x |-> c.x + Deltas[i][1], y |-> c.y + Deltas[i][2]]]

fill ==
    /\ calls # <<>>
    /\ LET c == Head(calls)
           index == stride * c.y + c.x
       IN  IF guarded(c.site) /\ ~in_range(c.x, c.y)
           THEN /\ SITE_COUNTS' = [SITE_COUNTS EXCEPT ![c.site] = @ + 1]
                /\ calls' = Tail(calls)
                /\ UNCHANGED <<matrix, outside>>
           ELSE /\ matrix' = IF index \in water THEN matrix \cup {index} ELSE matrix
                /\ calls' = IF index \in water \ matrix THEN around(c) \o Tail(calls) ELSE Tail(calls)
                /\ outside' = (outside \/ index \notin MapCells)
                /\ UNCHANGED SITE_COUNTS
    /\ UNCHANGED <<detours, water, seed, region>>

FillNext == start_harbor \/ OpenTownView \/ fill

FillSpec == FillInit /\ [][FillNext]_fillVars

-----------------------------------------------------------------------------

\* With both detours in place no fill touches memory outside the matrix, no fill strays over
\* the map's edge into a row it was not called for, and when the last call has returned
\* exactly the seed's region is marked - "no game behaviour changes for in-range
\* coordinates" (mod-fix-harbor-fill-oob/src/ffi.rs, header).
FillsItsRegion ==
    detours = 2 =>
        /\ ~outside
        /\ matrix \subseteq region
        /\ calls = <<>> /\ water # {} => matrix = region
=============================================================================
