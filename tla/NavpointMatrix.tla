---------------------------- MODULE NavpointMatrix ----------------------------
(***************************************************************************)
(* The table by which the game's ships find their way                      *)
(* (src/navpointmatrixcli/src/main.rs, connected_nodes.rs; p3-api/src/data *)
(* navigation_vector.rs, navpoint_matrix.rs): built from the legs that     *)
(* cross no land, read back into legs, built again from those, and walked. *)
(* The files in between are left out.                                      *)
(*                                                                         *)
(* Dijkstra's algorithm is a library's, external: any tree of shortest     *)
(* paths, since which of two equal ones it takes is its own.               *)
(***************************************************************************)
EXTENDS Integers, Sequences, FiniteSets

CONSTANTS
    MAP_WIDTH, MAP_HEIGHT,
    Count,     \* the nodes are 0..Count - 1
    MaxLand,   \* bound: fields of land
    SCALE      \* a field's side in the table's unit; 65536 in the code

ASSUME NavAssumption == {MAP_WIDTH, MAP_HEIGHT, Count, SCALE} \subseteq Nat \ {0}

Navpoints == 0..Count - 1
Fields == (0..MAP_WIDTH - 1) \X (0..MAP_HEIGHT - 1)
Nowhere == -1

VARIABLES
    points,     \* node -> field
    land,       \* the fields whose byte is 1
    connected,  \* the legs, pairs of nodes
    navMatrix,  \* node -> node -> [distance, next]
    source,     \* the node whose row is built next
    original,   \* the matrix the legs were read from, <<>> when they came from the map
    walk        \* show_path: [from, to, at, walked], from = Nowhere when none runs

navVars == <<points, land, connected, navMatrix, source, original, walk>>

Abs(n) == IF n < 0 THEN -n ELSE n
Sign(n) == IF n > 0 THEN 1 ELSE -1

-----------------------------------------------------------------------------
\* The fields of the line: a step right or left, up or down, or both, as the error says.
get_bresenham_line(p, q) ==
    LET dx == Abs(q[1] - p[1])
        dy == -Abs(q[2] - p[2])
        line[x \in Int, y \in Int, error \in Int] ==
            LET across == 2 * error >= dy
                along == 2 * error <= dx
            IN  {<<x, y>>} \cup
                IF (across /\ x = q[1]) \/ (along /\ y = q[2]) THEN {}
                ELSE line[IF across THEN x + Sign(q[1] - p[1]) ELSE x,
                          IF along THEN y + Sign(q[2] - p[2]) ELSE y,
                          error + (IF across THEN dy ELSE 0) + (IF along THEN dx ELSE 0)]
    IN  line[p[1], p[2], dx + dy]

\* The line that is looked at goes to the other point's column in the first one's row.
is_connected(p, q) ==
    p = q \/ get_bresenham_line(p, <<q[1], p[2]>>) \cap land = {}

from_navigation_matrix_p3 ==
    {leg \in Navpoints \X Navpoints : is_connected(points[leg[1]], points[leg[2]])}

\* A leg is what the table goes by directly.
from_navpoint_matrix == {leg \in Navpoints \X Navpoints : navMatrix[leg[1]][leg[2]].next = leg[2]}

\* The root of k in the table's unit, rounded.
Root == [k \in 0..MAP_WIDTH * MAP_WIDTH + MAP_HEIGHT * MAP_HEIGHT |->
            CHOOSE d \in 0..SCALE * (MAP_WIDTH + MAP_HEIGHT) :
                /\ 4 * SCALE * SCALE * k < (2 * d + 1) * (2 * d + 1)
                /\ d = 0 \/ (2 * d - 1) * (2 * d - 1) <= 4 * SCALE * SCALE * k]

\* The length of one leg.
get_path_length(n, m) ==
    LET dx == points[n][1] - points[m][1]
        dy == points[n][2] - points[m][2]
    IN  Root[dx * dx + dy * dy]

-----------------------------------------------------------------------------
\* target -> what precedes it on its path from s: a tree whose paths no leg can shorten.
\* Nodes that cannot be reached precede themselves.
depth(parents, s) ==
    LET d[left \in 0..Count] ==
            [n \in Navpoints |->
                IF n = s THEN 0
                ELSE IF left = 0 \/ parents[n] = n \/ d[left - 1][parents[n]] = Nowhere THEN Nowhere
                ELSE d[left - 1][parents[n]] + get_path_length(parents[n], n)]
    IN  d[Count]

dijkstra_all(s) ==
    {parents \in [Navpoints -> Navpoints] :
        /\ parents[s] = s
        /\ \A n \in Navpoints \ {s} : parents[n] = n \/ <<parents[n], n>> \in connected
        /\ \E far \in {depth(parents, s)} :
              \A leg \in connected :
                 far[leg[1]] # Nowhere => /\ far[leg[2]] # Nowhere
                                          /\ far[leg[2]] <= far[leg[1]] + get_path_length(leg[1], leg[2])}

\* Faulty variant: the node before the target for the node after the source.
last_hop(parents, s, t) == parents[t]

\* path[1]: the node after the source.
first_hop(parents, s, t) ==
    LET hop[n \in Navpoints] == IF parents[n] = s THEN n ELSE hop[parents[n]] IN hop[t]

NoCell == [distance |-> -1, next |-> 65535]
NewMatrix == [s \in Navpoints |-> [t \in Navpoints |-> NoCell]]
NoWalk == [from |-> Nowhere, to |-> Nowhere, at |-> Nowhere, walked |-> 0]

build_connected_nodes_from_navigation_data ==
    /\ source = Nowhere
    /\ original = <<>>
    /\ navMatrix = NewMatrix
    /\ connected' = from_navigation_matrix_p3
    /\ source' = 0
    /\ UNCHANGED <<points, land, navMatrix, original, walk>>

\* One row of the table. For a target that cannot be reached path[1] does not exist and
\* the tool ends there.
build_row ==
    /\ source \in Navpoints
    /\ \E parents \in dijkstra_all(source) : \E far \in {depth(parents, source)} :
          /\ \A t \in Navpoints : far[t] # Nowhere
          /\ navMatrix' = [navMatrix EXCEPT ![source] =
                [t \in Navpoints |-> IF t = source THEN [distance |-> 0, next |-> source]
                                 ELSE [distance |-> far[t], next |-> first_hop(parents, source, t)]]]
    /\ source' = IF source = Count - 1 THEN Nowhere ELSE source + 1
    /\ UNCHANGED <<points, land, connected, original, walk>>

finished == source = Nowhere /\ navMatrix # NewMatrix

\* The tool's test: the legs of a finished table, and a table of those.
build_connected_nodes_from_navpoint_matrix ==
    /\ finished
    /\ original = <<>>
    /\ walk = NoWalk
    /\ connected' = from_navpoint_matrix
    /\ original' = navMatrix
    /\ navMatrix' = NewMatrix
    /\ source' = 0
    /\ UNCHANGED <<points, land, walk>>

show_path ==
    /\ finished
    /\ walk = NoWalk
    /\ \E from \in Navpoints, to \in Navpoints : walk' = [from |-> from, to |-> to, at |-> from, walked |-> 0]
    /\ UNCHANGED <<points, land, connected, navMatrix, source, original>>

Hop ==
    /\ walk.at # walk.to
    /\ \E next \in {navMatrix[walk.at][walk.to].next} :
          walk' = [walk EXCEPT !.at = next, !.walked = @ + get_path_length(walk.at, next)]
    /\ UNCHANGED <<points, land, connected, navMatrix, source, original>>

\* The points are distinct: between two nodes in one field the table may send a ship to and
\* fro.
NavInit ==
    /\ points \in {f \in [Navpoints -> Fields] :
                      \A n \in Navpoints, m \in Navpoints : n < m =>
                         f[n][1] + MAP_WIDTH * f[n][2] < f[m][1] + MAP_WIDTH * f[m][2]}
    /\ land \in {l \in SUBSET (Fields \ {points[n] : n \in Navpoints}) : Cardinality(l) <= MaxLand}
    /\ connected = {}
    /\ navMatrix = NewMatrix
    /\ source = Nowhere
    /\ original = <<>>
    /\ walk = NoWalk

NavNext ==
    \/ build_connected_nodes_from_navigation_data
    \/ build_row
    \/ build_connected_nodes_from_navpoint_matrix
    \/ show_path
    \/ Hop

NavSpec == NavInit /\ [][NavNext]_navVars

-----------------------------------------------------------------------------
\* What show_path prints beside the path, its "declared distance", is what is left to go:
\* at every node the way covered and the way its row declares add up to what was declared
\* at the start - rows are built apart from each other and may prefer different paths of
\* one length. And a table made of the legs of another declares what that one did, which
\* is what the tool's test() compares.
PathsArrive ==
    /\ walk # NoWalk => walk.walked + navMatrix[walk.at][walk.to].distance = navMatrix[walk.from][walk.to].distance
    /\ finished /\ original # <<>> => \A s \in Navpoints, t \in Navpoints : navMatrix[s][t].distance = original[s][t].distance
=============================================================================
