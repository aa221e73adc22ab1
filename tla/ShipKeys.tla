------------------------------ MODULE ShipKeys ------------------------------
(***************************************************************************)
(* The keys of ui-tweaks for the ship selected on the scrollmap            *)
(* (src/mod-ui-tweaks/src): CTRL+X strips it, CTRL+R books it into the     *)
(* yard, the S keys hire and dismiss, CTRL+N skips a route stop.           *)
(*                                                                         *)
(* CTRL+X executes its operations on the spot, the others enqueue theirs   *)
(* and the game drains them later, whatever has become of the ship; the    *)
(* handlers of the operations are external, with the guards that           *)
(* p3-api/src/operation.rs and ui-tweaks's repair.rs give them. One town,  *)
(* one player; the notices are left out.                                   *)
(***************************************************************************)
EXTENDS Integers, Sequences, SequencesExt, FiniteSets, FiniteSetsExt

CONSTANTS
    Fleet,          \* the player's ships
    lead_of,        \* ship -> the lead of its convoy, itself when it sails alone
    convoys,        \* the leads of convoys
    WaresAboard, Artillery,  \* what a ship may carry besides cutlasses
    has_office,     \* the player has an office in the town
    MIN_CREW, FULL_CREW,
    CREW_ROOM,      \* bound: sailors in the town
    RouteStops,     \* 1..n: the stops of a route, a ring
    MaxPending      \* bound: operations waiting

ASSUME ShipKeysAssumption ==
    /\ IsFiniteSet(Fleet) /\ lead_of \in [Fleet -> Fleet]
    /\ IsFiniteSet(WaresAboard) /\ IsFiniteSet(Artillery)
    /\ {MIN_CREW, FULL_CREW, CREW_ROOM} \subseteq Nat

Cutlasses == "cutlasses"
Weapons == Artillery \cup {Cutlasses}
Goods == WaresAboard \cup Weapons

\* ship+0x134: 0 lying in port, 1 departure pending, 3 entering the port, 4 in the yard's
\* hands; 15 stands for everything at sea.
Docked == 0
Leaving == 1
Entering == 3
Repairing == 4
AtSea == 15

VARIABLES
    fleet,      \* ship -> [status, crew, damaged]
    aboard,     \* ship -> good -> amount
    store,      \* good -> amount in the office
    inTavern,   \* sailors in the town
    routeOn,    \* the ships whose trade route is switched on
    routeStop,  \* lead -> current stop, 0 without a route
    pending,    \* the operations queue
    purse,      \* the player can pay for a repair
    laidUp      \* history: ships the yard has had since a strip, no hire waiting for them then

shipKeysVars == <<fleet, aboard, store, inTavern, routeOn, routeStop, pending, purse, laidUp>>

members(s) == {m \in Fleet : lead_of[m] = lead_of[s]}
is_lead(s) == s \in convoys
least(a, b) == IF a < b THEN a ELSE b
get_free_sailor_berths(w, s) == FULL_CREW - w.ship[s].crew

-----------------------------------------------------------------------------
(* The handlers, external: what an operation makes of the world.           *)

World == [ship |-> fleet, aboard |-> aboard, store |-> store, tavern |-> inTavern]

unloaded(w, s, good, amount) ==
    LET moved == least(amount, w.aboard[s][good])
    IN  [w EXCEPT !.aboard[s][good] = @ - moved, !.store[good] = @ + moved]

ShipMoveWares(w, op) ==
    IF w.ship[op.ship].status < Repairing /\ has_office
    THEN unloaded(w, op.ship, op.good, op.amount) ELSE w

\* A convoy's lead is refused.
ShipMoveWeapons(w, op) ==
    IF w.ship[op.ship].status < Repairing /\ has_office /\ ~is_lead(op.ship)
    THEN unloaded(w, op.ship, op.good, op.amount) ELSE w

DismissSailors(w, op) ==
    LET gone == least(op.amount, w.ship[op.ship].crew)
    IN  IF w.ship[op.ship].status < Repairing
        THEN [w EXCEPT !.ship[op.ship].crew = @ - gone, !.tavern = @ + gone] ELSE w

\* Tests nothing but the indices, and clamps.
HireSailors(w, op) ==
    LET room == get_free_sailor_berths(w, op.ship)
        hired == least(op.amount, least(IF room < 0 THEN 0 ELSE room, w.tavern))
    IN  [w EXCEPT !.ship[op.ship].crew = @ + hired, !.tavern = @ - hired]

\* A convoy is repaired as a whole. An undamaged hull or a short purse is answered with a letter.
RepairShip(w, op) ==
    IF w.ship[op.ship].status < Repairing /\ purse /\ \E m \in members(op.ship) : w.ship[m].damaged
    THEN [w EXCEPT !.ship = [m \in Fleet |->
             IF m \in members(op.ship) THEN [w.ship[m] EXCEPT !.status = Repairing] ELSE w.ship[m]]]
    ELSE w

execute_operation(w, op) ==
    CASE op.kind = "wares" -> ShipMoveWares(w, op)
      [] op.kind = "weapons" -> ShipMoveWeapons(w, op)
      [] op.kind = "dismiss" -> DismissSailors(w, op)
      [] op.kind = "hire" -> HireSailors(w, op)
      [] op.kind = "repair" -> RepairShip(w, op)

WorldBecomes(w) == fleet' = w.ship /\ aboard' = w.aboard /\ store' = w.store /\ inTavern' = w.tavern

\* One operation after the other.
executed(w, operations) ==
    LET after[n \in 0 .. Len(operations)] == IF n = 0 THEN w ELSE execute_operation(after[n - 1], operations[n])
    IN  after[Len(operations)]

Order(kind, s, good, amount) == [kind |-> kind, ship |-> s, good |-> good, amount |-> amount]
NoGood == "nothing"

-----------------------------------------------------------------------------
(* The keys, on the selected ship.                                         *)

transfers(s) ==
    LET held(goods) == {g \in goods : aboard[s][g] > 0}
    IN  SetToSeq({Order("wares", s, g, aboard[s][g]) : g \in held(WaresAboard)})
        \o SetToSeq({Order("weapons", s, g, aboard[s][g]) : g \in held(Artillery)})
        \o (IF aboard[s][Cutlasses] > 0
            THEN <<Order("weapons", s, Cutlasses, aboard[s][Cutlasses])>> ELSE <<>>)

discharge(s) == IF fleet[s].crew > 0 THEN <<Order("dismiss", s, NoGood, fleet[s].crew)>> ELSE <<>>

\* Faulty variant: the yard is booked while the crew is still aboard.
repairBeforeCrew(s) == transfers(s) \o <<Order("repair", s, NoGood, 1)>> \o discharge(s)

\* Cargo, weapons, crew, and the repair last: it makes the ship's status 4.
strip_operations(s) == transfers(s) \o discharge(s) \o <<Order("repair", s, NoGood, 1)>>

HireWaits(s) == \E i \in DOMAIN pending : pending[i].kind = "hire" /\ pending[i].ship = s

strip_ship_hotkey(s) ==
    /\ fleet[s].status = Docked
    /\ ~is_lead(s)
    /\ has_office
    /\ \E w \in {executed(World, strip_operations(s))} :
          /\ WorldBecomes(w)
          /\ laidUp' = IF w.ship[s].status = Repairing /\ ~HireWaits(s) THEN laidUp \cup {s} ELSE laidUp
    /\ UNCHANGED <<routeOn, routeStop, pending, purse>>

enqueue(op) ==
    /\ Len(pending) < MaxPending
    /\ pending' = Append(pending, op)
    /\ UNCHANGED <<fleet, aboard, store, inTavern, routeOn, routeStop, purse, laidUp>>

\* The order goes to the convoy's lead, which has to lie in port itself.
repair_ship_hotkey(s) ==
    /\ fleet[lead_of[s]].status = Docked
    /\ enqueue(Order("repair", lead_of[s], NoGood, 1))

is_crewable_in_port(s) == fleet[s].status <= Leaving /\ s \notin routeOn

dismiss_sailors_hotkey(s) ==
    /\ is_crewable_in_port(s)
    /\ fleet[s].crew > 0
    /\ enqueue(Order("dismiss", s, NoGood, fleet[s].crew))

hire_sailors_hotkey(s, to_minimum) ==
    LET wanted == IF to_minimum THEN MIN_CREW - fleet[s].crew ELSE get_free_sailor_berths(World, s)
    IN  /\ is_crewable_in_port(s)
        /\ wanted > 0
        /\ inTavern > 0
        /\ enqueue(Order("hire", s, NoGood, least(wanted, inTavern)))

\* The stops are the lead's; the pointer moves at once, whatever the ship is doing.
skip_route_stop_hotkey(s) ==
    /\ routeStop[lead_of[s]] # 0
    /\ routeStop' = [routeStop EXCEPT ![lead_of[s]] = (@ % Len(RouteStops)) + 1]
    /\ UNCHANGED <<fleet, aboard, store, inTavern, routeOn, pending, purse, laidUp>>

-----------------------------------------------------------------------------
(* The game around them, external.                                         *)

Drain ==
    /\ pending # <<>>
    /\ \E w \in {execute_operation(World, Head(pending))} : WorldBecomes(w)
    /\ pending' = Tail(pending)
    /\ UNCHANGED <<routeOn, routeStop, purse, laidUp>>

\* A convoy goes through the statuses together.
Moves(s, from, to) ==
    /\ lead_of[s] = s
    /\ fleet[s].status = from
    /\ fleet' = [m \in Fleet |-> IF m \in members(s) THEN [fleet[m] EXCEPT !.status = to] ELSE fleet[m]]
    /\ UNCHANGED <<aboard, store, inTavern, routeOn, routeStop, pending, purse, laidUp>>

Sail(s) ==
    \/ Moves(s, Docked, Leaving) /\ \A m \in members(s) : fleet[m].crew >= MIN_CREW
    \/ \E leg \in {<<Leaving, AtSea>>, <<AtSea, Entering>>, <<Entering, Docked>>} : Moves(s, leg[1], leg[2])

\* The yard is done with a convoy.
Repaired(s) ==
    /\ fleet[s].status = Repairing
    /\ fleet' = [m \in Fleet |-> IF m \in members(s)
                                THEN [status |-> Docked, crew |-> fleet[m].crew, damaged |-> FALSE] ELSE fleet[m]]
    /\ laidUp' = {m \in laidUp : m \notin members(s)}
    /\ UNCHANGED <<aboard, store, inTavern, routeOn, routeStop, pending, purse>>

Storm(s) ==
    /\ fleet[s].status = AtSea
    /\ fleet' = [fleet EXCEPT ![s].damaged = TRUE]
    /\ UNCHANGED <<aboard, store, inTavern, routeOn, routeStop, pending, purse, laidUp>>

\* The player fits the ship out, by hand.
FitOut(s) ==
    /\ fleet[s].status = Docked
    /\ \E g \in Goods : /\ store[g] > 0
                        /\ store' = [store EXCEPT ![g] = @ - 1]
                        /\ aboard' = [aboard EXCEPT ![s][g] = @ + 1]
    /\ UNCHANGED <<fleet, inTavern, routeOn, routeStop, pending, purse, laidUp>>

\* Earnings and expenses.
Money ==
    /\ purse' = ~purse
    /\ UNCHANGED <<fleet, aboard, store, inTavern, routeOn, routeStop, pending, laidUp>>

\* The route panel's check box.
SwitchRoute(s) ==
    /\ lead_of[s] = s
    /\ routeOn' = IF s \in routeOn THEN routeOn \ {s} ELSE routeOn \cup {s}
    /\ routeStop' = [routeStop EXCEPT ![s] = IF @ = 0 THEN 1 ELSE @]
    /\ UNCHANGED <<fleet, aboard, store, inTavern, pending, purse, laidUp>>

ShipKeysInit ==
    /\ fleet = [s \in Fleet |-> [status |-> Docked, crew |-> 0, damaged |-> FALSE]]
    /\ aboard = [s \in Fleet |-> [g \in Goods |-> 0]]
    /\ store = [g \in Goods |-> 1]
    /\ inTavern = CREW_ROOM
    /\ routeOn = {}
    /\ routeStop = [s \in Fleet |-> 0]
    /\ pending = <<>>
    /\ purse = TRUE
    /\ laidUp = {}

ShipKeysNext ==
    \/ \E s \in Fleet :
         \/ strip_ship_hotkey(s) \/ repair_ship_hotkey(s) \/ dismiss_sailors_hotkey(s)
         \/ \E to_minimum \in BOOLEAN : hire_sailors_hotkey(s, to_minimum)
         \/ skip_route_stop_hotkey(s)
         \/ Sail(s) \/ Repaired(s) \/ Storm(s) \/ FitOut(s) \/ SwitchRoute(s)
    \/ Drain \/ Money

ShipKeysSpec == ShipKeysInit /\ [][ShipKeysNext]_shipKeysVars

-----------------------------------------------------------------------------
Total(f) == MapThenSumSet(LAMBDA s : f[s], Fleet)

\* Aboard a ship, after the step.
BareNext(s) == fleet'[s].crew = 0 /\ \A g \in Goods : aboard'[s][g] = 0

\* What a step does to the ships, the office and the town.
Stripped ==
    /\ \A g \in Goods : store'[g] + Total([s \in Fleet |-> aboard'[s][g]])
                        = store[g] + Total([s \in Fleet |-> aboard[s][g]])
    /\ inTavern' + Total([s \in Fleet |-> fleet'[s].crew]) = inTavern + Total([s \in Fleet |-> fleet[s].crew])
    /\ \A s \in Fleet :
          \/ /\ BareNext(s)
             /\ purse /\ (\E m \in members(s) : fleet[m].damaged) => fleet'[s].status = Repairing
          \/ ~strip_ship_hotkey(s)
    /\ \A s \in laidUp' : BareNext(s)

\* "Everything that has to happen to a freshly captured ship": a ship that was lying in port
\* with something aboard is bare a step later, to the last gun and sailor, whatever the
\* handlers refuse on the way, and in the yard's hands when it or its convoy is damaged and
\* the purse covers the repair; there it stays bare, unless a hire was waiting for it when it
\* was stripped, which the game executes afterwards. All of it is ashore - nothing is lost
\* between ship, office and town, by this key or by the others.
StripIsComplete == [][shipKeysVars' # shipKeysVars => Stripped]_shipKeysVars
=============================================================================
