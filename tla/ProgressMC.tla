------------------------------ MODULE ProgressMC ------------------------------
(***************************************************************************)
(* The parts that must get on: ships that must flee, links that must heal, *)
(* a server that must end and a convoy that must not stop, each on a small *)
(* instance. They share no state: a behaviour runs the one that            *)
(* `component` names.                                                      *)
(***************************************************************************)
EXTENDS Naturals, TLC

VARIABLES
    component,
    shipsHooked, entered, object, latch, gunned, scale, SAMPLED, ANNOUNCED_BATTLE, visit,      \* BattleFlight
    next, prev, low, owner, head, device, D3D9_DEVICE, WATCH_ON, lastKind,       \* ListWatch
    lastFaults, sinceLast, armed, watched, exhausted, HITS, dr0, pending,
    agent, starts, SERVER_STATUS, lock, queue, hooks, server, client, accepted,  \* RemoteAgent
    lines,
    next_action, convoy, destination, last_town, damaged, offices, office,       \* HubRoutes
    cargo, diverted

-----------------------------------------------------------------------------
\* A ship of the player's under attack at sea, and one that attacks a town.
Flight == INSTANCE BattleFlight WITH
    BattleShips <- {"mine", "assault"},
    battle_of <- [mine |-> "sea", assault |-> "town"],
    side_of <- [mine |-> 1, assault |-> 0],
    owner_of <- [mine |-> "player", assault |-> "player"],
    side_owner <- [sea |-> 0 :> "enemy" @@ 1 :> "player", town |-> 0 :> "player" @@ 1 :> "none"],
    vtable_of <- [mine |-> "main", assault |-> "twin"],
    player <- "player",
    GRACE_COUNTER_INITIAL <- 1,
    CourageAtStart <- {1},
    None <- "none",
    hooked <- shipsHooked

\* Two resources are enough for a list with a first, a last and one to be released between.
List == INSTANCE ListWatch WITH
    Nodes <- {"n1", "n2"}, Devices <- {"d1", "d2"}, None <- "none", Wild <- "wild",
    HEARTBEAT <- 1, MAX_RAW <- 2

Agent == INSTANCE RemoteAgent WITH Clients <- {"c1", "c2"}, Servers <- {1, 2}, HOOKS <- 2, MAX_LINES <- 1

Hubs == INSTANCE HubRoutes WITH
    Wares <- {"grain"}, SCALING <- 4, Daily <- {0, 1}, MAX_STOCK <- 12,
    Hub <- "hub", Satellite <- "satellite", Elsewhere <- "elsewhere", Nowhere <- "nowhere"

-----------------------------------------------------------------------------
flightState == <<shipsHooked, entered, object, latch, gunned, scale, SAMPLED, ANNOUNCED_BATTLE, visit>>
listState == <<next, prev, low, owner, head, device, D3D9_DEVICE, WATCH_ON, lastKind, lastFaults,
               sinceLast, armed, watched, exhausted, HITS, dr0, pending>>
agentState == <<agent, starts, SERVER_STATUS, lock, queue, hooks, server, client, accepted, lines>>
hubState == <<next_action, convoy, destination, last_town, damaged, offices, office, cargo, diverted>>

all == <<component, flightState, listState, agentState, hubState>>

Init ==
    /\ component \in {"flight", "list", "agent", "hub"}
    /\ Flight!FlightInit /\ List!ListInit /\ Agent!AgentInit /\ Hubs!HubInit

Next ==
    \/ /\ component = "flight" /\ Flight!FlightNext
       /\ UNCHANGED <<component, listState, agentState, hubState>>
    \/ /\ component = "list" /\ List!ListNext
       /\ UNCHANGED <<component, flightState, agentState, hubState>>
    \/ /\ component = "agent" /\ Agent!AgentNext
       /\ UNCHANGED <<component, flightState, listState, hubState>>
    \/ /\ component = "hub" /\ Hubs!HubNext
       /\ UNCHANGED <<component, flightState, listState, agentState>>

\* The fairness of the components, for the one that runs. The steps of one actor that never
\* stand side by side are fair together: the loader's, and the ones that bring a convoy on.
Fairness ==
    /\ \A o \in {"mine", "assault"} : WF_flightState(component = "flight" /\ Flight!step(o))
    /\ WF_listState(component = "list" /\ List!Sample)
    /\ WF_agentState(component = "agent" /\ (Agent!StartContext \/ Agent!StartHooks \/ Agent!StopWait))
    /\ \A s \in {1, 2} : WF_agentState(component = "agent" /\ Agent!ServerThread(s))
    /\ \A c \in {"c1", "c2"} : WF_agentState(component = "agent" /\ Agent!ClientThread(c))
    /\ WF_hubState(component = "hub" /\ (Hubs!Arrive \/ Hubs!Repaired))
    /\ WF_hubState(component = "hub" /\ Hubs!RouteTick)

Spec == Init /\ [][Next]_all /\ Fairness

-----------------------------------------------------------------------------
\* A hit ship the mod may take out of a battle runs: BattleFlight.HitShipsRun.
HitShipsRun == Flight!HitShipsRun

\* A lowered back link is put right before long: ListWatch.BrokenLinksHeal.
BrokenLinksHeal == List!BrokenLinksHeal

\* stop() comes back: RemoteAgent.StopEnds.
StopEnds == Agent!StopEnds

\* A hub convoy that is neither lost nor left diverted shuttles for ever: HubRoutes.ShuttlesOn.
ShuttlesOn == Hubs!ShuttlesOn

=============================================================================
