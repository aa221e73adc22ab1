----------------------------- MODULE HubRoutes -----------------------------
(***************************************************************************)
(* The shuttle of p3-agent (p3-agent/src/routes.rs): the convoy named      *)
(* after a satellite town supplies it from the hub's trading office and    *)
(* brings back what the satellite has too much of.  tick_routes runs it    *)
(* every sixteenth game tick through three actions: unload everything at   *)
(* the hub, load a week's need there, serve the satellite.                 *)
(*                                                                         *)
(* The convoy, its orders and the offices belong to the game, and its      *)
(* player may order the convoy about whenever he likes.  Amounts in the    *)
(* offices are raw, SCALING to the unit; what a town consumes and produces *)
(* a day is read anew on every visit.  One route is followed; the convoys  *)
(* of other satellites are among those that take the hub's wares (Live).   *)
(***************************************************************************)
EXTENDS Naturals

CONSTANTS
    Wares, SCALING,      \* raw amount of a unit of a ware
    Daily,               \* raw amounts a town may consume or produce a day
    MAX_STOCK,           \* bound: raw amount of a ware in one place
    Hub, Satellite, Elsewhere, Nowhere

VARIABLES
    next_action,         \* "none" until create_route, then the route's next action; "dead" after
                         \* a panic, which takes the game with it
    convoy,              \* the game's: docked, repairing, at sea, or lost: no ship has the
                         \* satellite's name, or the one that has it leads no convoy
    destination, last_town,
    damaged,
    offices,             \* the towns the player has an office in
    office, cargo,       \* raw amounts: office[town][ware], cargo[ware]
    diverted             \* history: the convoy was last ordered, by its player, to where the
                         \* route does not need it

hubVars == <<next_action, convoy, destination, last_town, damaged, offices, office, cargo, diverted>>

HubTowns == {Hub, Satellite}
AllTowns == HubTowns \union {Elsewhere}

Empty == [w \in Wares |-> 0]

HubInit ==
    /\ next_action = "none"
    /\ convoy = "docked"
    /\ destination = Elsewhere
    /\ last_town = Elsewhere
    /\ damaged = FALSE
    /\ offices = HubTowns
    /\ office = [t \in HubTowns |-> [w \in Wares |-> MAX_STOCK]]
    /\ cargo = Empty
    /\ diverted = FALSE

\* The town a route's next action is for.
due(action) == IF action = "Satellite" THEN Satellite ELSE Hub

(***************************************************************************)
(* The game: it executes MoveShipToTown, moves wares up to what is there   *)
(* and fits, sails, repairs, damages and loses ships; offices are closed   *)
(* and built, and others take wares out of them.                            *)
(***************************************************************************)
MoveShipToTown(t) ==
    /\ destination' = t
    /\ convoy' = IF convoy = "docked" /\ last_town = t THEN "docked" ELSE "sea"

least(a, b) == IF a < b THEN a ELSE b
unloaded(t, w, amount) ==
    IF t \in offices THEN least(amount, least(cargo[w], MAX_STOCK - office[t][w])) ELSE 0
loaded(t, w, amount) == least(amount, least(office[t][w], MAX_STOCK - cargo[w]))

Arrive ==
    /\ convoy = "sea"
    /\ convoy' = "docked"
    /\ last_town' = destination
    /\ damaged' \in {damaged, TRUE}
    /\ UNCHANGED <<next_action, destination, offices, office, cargo, diverted>>

Repaired ==
    /\ convoy = "repairing"
    /\ convoy' = "docked"
    /\ damaged' = FALSE
    /\ UNCHANGED <<next_action, destination, last_town, offices, office, cargo, diverted>>

Live ==
    /\ \E t \in offices, w \in Wares, d \in Daily :
         office' = [office EXCEPT ![t][w] = IF @ > d THEN @ - d ELSE 0]
    /\ UNCHANGED <<next_action, convoy, destination, last_town, damaged, offices, cargo, diverted>>

\* An office is built, or given up with what is in it.
Premises(t) ==
    /\ \/ t \notin offices /\ offices' = offices \union {t}
       \/ t \in offices /\ offices' = offices \ {t}
    /\ office' = [office EXCEPT ![t] = Empty]
    /\ UNCHANGED <<next_action, convoy, destination, last_town, damaged, cargo, diverted>>

\* Of a lost convoy nothing but its cargo is looked at again.
Lost ==
    /\ convoy' = "lost"
    /\ destination' = Elsewhere /\ last_town' = Elsewhere
    /\ damaged' = FALSE /\ diverted' = FALSE
    /\ UNCHANGED <<offices, office, cargo>>

\* The flagship is sunk, sold or renamed, or leaves its convoy ...
Lose == convoy # "lost" /\ Lost /\ UNCHANGED next_action

\* ... and another of its name leads a convoy, wherever it is.
Found ==
    /\ convoy = "lost" /\ next_action # "dead"
    /\ convoy' = "docked"
    /\ \E t \in AllTowns :
         /\ destination' = t /\ last_town' = t
         /\ diverted' = (next_action # "none" /\ t # due(next_action))
    /\ damaged' \in BOOLEAN
    /\ cargo' \in {cargo, Empty}
    /\ UNCHANGED <<next_action, offices, office>>

\* The player orders the convoy at any time, before the agent is loaded and after.
Player ==
    /\ convoy \in {"docked", "sea"}
    /\ \E t \in AllTowns :
         /\ MoveShipToTown(t)
         /\ diverted' = (next_action # "none" /\ t # due(next_action))
    /\ UNCHANGED <<next_action, last_town, damaged, offices, office, cargo>>

(***************************************************************************)
(* create_route: where the convoy is going tells what it does next; a      *)
(* convoy that goes elsewhere, or nowhere, is sent to the hub.  A docked   *)
(* one may still show where it went, or nothing.  Without a ship of the    *)
(* name there is no route, and init_routes does not try again.             *)
(***************************************************************************)
goal(d) == IF d = Satellite THEN Satellite ELSE Hub

\* Faulty variant: a convoy bound for the hub is taken for one that serves its satellite.
firstActionSwapped(d) == IF d = Hub THEN "Satellite" ELSE "HubUnload"

firstAction(d) == IF d = Satellite THEN "Satellite" ELSE "HubUnload"

create_route ==
    /\ next_action = "none" /\ convoy # "lost"
    /\ \E d \in {destination} \union (IF convoy = "docked" THEN {Nowhere} ELSE {}) :
         /\ MoveShipToTown(goal(d))
         /\ next_action' = firstAction(d)
    /\ UNCHANGED <<last_town, damaged, offices, office, cargo, diverted>>

\* get_weekly_consumption_rounded, get_weekly_production_rounded.
weekly(daily) == (daily * 7) \div SCALING

(***************************************************************************)
(* HubRoute::tick and its three handlers.  A handler that finds the convoy *)
(* in another port returns and changes nothing; the two that read an       *)
(* office unwrap it before they look where the convoy is.                  *)
(***************************************************************************)
handle_hub_unload ==
    /\ next_action = "HubUnload"
    /\ last_town = Hub
    /\ office' = [office EXCEPT ![Hub] = [w \in Wares |-> @[w] + unloaded(Hub, w, MAX_STOCK)]]
    /\ cargo' = [w \in Wares |-> cargo[w] - unloaded(Hub, w, MAX_STOCK)]
    /\ convoy' = IF damaged THEN "repairing" ELSE convoy
    /\ next_action' = "HubLoad"
    /\ UNCHANGED <<destination, last_town, damaged, offices, diverted>>

\* What is loaded of a ware the satellite needs `desired` units of a week:
\* the hub keeps twice that.
amount(desired, stock) ==
    LET units == stock \div SCALING
        locked == 2 * desired
    IN least(desired, IF units > locked THEN units - locked ELSE 0)

handle_hub_load(used, made) ==
    /\ next_action = "HubLoad"
    /\ Hub \in offices
    /\ last_town = Hub
    /\ LET desired == [w \in Wares |-> weekly(used[w]) - weekly(made[w])]
           taken == [w \in Wares |->
                       IF weekly(used[w]) > weekly(made[w])
                       THEN loaded(Hub, w, SCALING * amount(desired[w], office[Hub][w]))
                       ELSE 0]
       IN /\ office' = [office EXCEPT ![Hub] = [w \in Wares |-> @[w] - taken[w]]]
          /\ cargo' = [w \in Wares |-> cargo[w] + taken[w]]
    /\ MoveShipToTown(Satellite)
    /\ next_action' = "Satellite"
    /\ UNCHANGED <<last_town, damaged, offices, diverted>>

handle_satellite(used, made) ==
    /\ next_action = "Satellite"
    /\ Satellite \in offices
    /\ last_town = destination
    /\ last_town = Satellite
    /\ LET needed(w) == weekly(used[w]) > weekly(made[w])
           level(w) == 2 * (weekly(used[w]) - weekly(made[w]))
           units(w) == office[Satellite][w] \div SCALING
           given == [w \in Wares |->
                       IF needed(w) /\ level(w) > units(w)
                       THEN unloaded(Satellite, w, SCALING * (level(w) - units(w))) ELSE 0]
           taken == [w \in Wares |-> IF needed(w) THEN 0 ELSE loaded(Satellite, w, MAX_STOCK)]
       IN /\ office' = [office EXCEPT ![Satellite] =
                          [w \in Wares |-> @[w] + given[w] - taken[w]]]
          /\ cargo' = [w \in Wares |-> cargo[w] - given[w] + taken[w]]
    /\ MoveShipToTown(Hub)
    /\ next_action' = "HubUnload"
    /\ UNCHANGED <<last_town, damaged, offices, diverted>>

\* The unwrap of an office that is not there. The convoy is gone with the game.
panics ==
    /\ next_action \in {"HubLoad", "Satellite"}
    /\ due(next_action) \notin offices
    /\ next_action' = "dead"
    /\ Lost

\* Without the flagship, without its convoy or with either under way the tick is over.
RouteTick ==
    /\ convoy = "docked"
    /\ \/ handle_hub_unload
       \/ panics
       \/ \E used, made \in [Wares -> Daily] :
            handle_hub_load(used, made) \/ handle_satellite(used, made)

HubNext ==
    \/ Arrive \/ Repaired \/ Live \/ Lose \/ Found \/ Player
    \/ \E t \in HubTowns : Premises(t)
    \/ create_route \/ RouteTick

\* The game goes on: ships arrive, repairs end, and the agent ticks with it.
HubFairness ==
    /\ WF_hubVars(Arrive) /\ WF_hubVars(Repaired)
    /\ WF_hubVars(RouteTick)

HubSpec == HubInit /\ [][HubNext]_hubVars /\ HubFairness

-----------------------------------------------------------------------------
(***************************************************************************)
(* The shuttle never stands still of itself: as long as its convoy is not  *)
(* lost, no office is missed and what its player last ordered is what the  *)
(* route needs, it serves the satellite and the hub again and again -      *)
(* whatever the convoy was doing when the route was made, wherever it was  *)
(* sent and found in between and whatever it suffers on its way.  Once     *)
(* diverted it stands, and stays, where it was sent: no handler sends it   *)
(* on.                                                                     *)
(***************************************************************************)
OnItsWay ==
    next_action \in {"HubUnload", "HubLoad", "Satellite"} /\ convoy # "lost" /\ ~diverted

ShuttlesOn ==
    <>[]OnItsWay => []<>(next_action = "HubLoad") /\ []<>(next_action = "Satellite")
=============================================================================
