----------------------------- MODULE SupplyRoute -----------------------------
(***************************************************************************)
(* A lap of a generated trade route: the stops that p3-rou/src/builder.rs  *)
(* builds for the baskets of mod-trading-qol/src/routes.rs, and the game's *)
(* executor they are written for - as builder.rs describes it, all selling *)
(* and unloading of a stop over its order array first, then the free hold  *)
(* is worked out again, and only then the buying and loading.              *)
(*                                                                         *)
(* RouteTemplates has which stops a key builds and how they reach the      *)
(* ship; here is what they do to the cargo. The merchant's cash and the    *)
(* repair flags do nothing to it; a price only says which way the goods go.*)
(***************************************************************************)
EXTENDS RouteBuilder

CONSTANTS
    HomeTown,
    Targets,       \* the towns supplied, without HomeTown and each once
    HasOffice,     \* the towns where the player has an office; HomeTown is one
    Produces,      \* town -> wares
    Consumes,      \* town -> ware -> raw units a day, citizens and businesses
    NO_SUPPLY_WARES,
    NO_BUY_WARES,
    Holds,         \* the capacities of ships
    Stocks,        \* what the offices may hold at first, as functions of office and ware
    Offers,        \* what a town may sell of a ware at the price given
    Laps,          \* the days of a lap
    MaxServed      \* bound: stops served

\* No ship holds as much as "as much as possible".
ASSUME SupplyAssumption ==
    /\ IsFiniteSet(Wares) /\ SCALING \in [Wares -> Nat \ {0}] /\ value_rank \in [Wares -> Nat]
    /\ DEFAULT_ORDER \in Bijection(1..Cardinality(Wares), Wares)
    /\ MAX_AMOUNT \in Nat \ {0} /\ Holds \subseteq 0..MAX_AMOUNT
    /\ Targets \in Seq(Range(Targets)) /\ IsInjective(Targets) /\ HomeTown \notin Range(Targets)
    /\ \A t \in Range(Targets), w \in Wares : Consumes[t][w] \in Nat
    /\ Stocks \subseteq [HasOffice -> [Wares -> Nat]]
    /\ Offers \subseteq Nat /\ Laps \subseteq Nat

VARIABLES
    asked,    \* the template, whether ALT is held and the days of the lap
    route,    \* the stops, << >> until the key has built them
    hold,     \* the ship's capacity
    served,   \* the stops served so far
    cargo,    \* ware -> raw units aboard
    supplies, \* office -> ware -> raw units
    before    \* history: [cargo, supplies] when the first stop at the town had been served

routeVars == <<asked, route, hold, served, cargo, supplies, before>>

Least(a, b) == IF a < b THEN a ELSE b
SumOver(amount, S) == MapThenSumSet(LAMBDA x : amount[x], S)
TotalOf(amount) == SumOver(amount, Wares)
RouteKinds == {"FiveStop", "SixStop", "Suck", "Trade"}

-----------------------------------------------------------------------------
(* routes.rs: what the stops are built for.                                *)

\* What the town consumes in the days of the lap, rounded up to whole units, without what
\* it produces itself.
town_supply_basket(t, skip_no_supply, days) ==
    [w \in Wares |->
        IF w \in Produces[t] \/ (skip_no_supply /\ w \in NO_SUPPLY_WARES) THEN 0
        ELSE ((Consumes[t][w] * days + SCALING[w] - 1) \div SCALING[w]) * SCALING[w]]

supply_load_for_towns(towns, skip_no_supply, days) ==
    [w \in Wares |-> SumOver([t \in towns |-> town_supply_basket(t, skip_no_supply, days)[w]], towns)]

\* Buy what the town produces, without the no-buy wares unless ALT is held; sell the rest.
town_trade_basket(t, skip_no_buy) ==
    [w \in Wares |-> IF w \in Produces[t] /\ ~(skip_no_buy /\ w \in NO_BUY_WARES) THEN -1 ELSE 1]

\* What the collections and the office-less targets buy: nothing home produces itself. ALT
\* adds the no-buy wares to a collection only.
collect_buys(k, alt) ==
    [w \in Wares |-> IF w \in Produces[HomeTown] \/ (~(k = "Suck" /\ alt) /\ w \in NO_BUY_WARES) THEN 0 ELSE 1]

middle(k, t, alt, days) ==
    LET load == town_supply_basket(t, alt, days)
        prices == [w \in Wares |-> 1]
    IN  CASE k = "Suck" -> <<buy_stop(t, collect_buys(k, alt))>>
          [] k = "Trade" -> <<stop(t, plain, town_trade_basket(t, ~alt), [w \in Wares |-> MAX_AMOUNT])>>
          [] k = "FiveStop" /\ t \in HasOffice -> five_stop_middle(t, load, prices)
          [] k = "SixStop" /\ t \in HasOffice -> six_stop_middle(t, load, prices)
          [] OTHER -> <<trade_stop(t, load, prices, collect_buys(k, alt))>>

\* The first pass works with a week, the second with the lap the first one's stops take.
on_route_hotkey(k, alt, days, h, stocks) ==
    LET all == FlattenSeq([i \in DOMAIN Targets |-> middle(k, Targets[i], alt, days)])
        load == IF k = "Trade" THEN Zero ELSE supply_load_for_towns(Range(Targets), alt, days)
    IN  /\ route = << >>
        /\ asked' = [kind |-> k, alt |-> alt, days |-> days]
        /\ route' = IF k = "Suck" THEN collecting_route(HomeTown, all) ELSE bracketed_route(HomeTown, load, all)
        /\ hold' = h
        /\ supplies' = stocks
        /\ UNCHANGED <<served, cargo, before>>

-----------------------------------------------------------------------------
(* The game's executor.                                                    *)

\* The route is a loop; this is the stop after so many.
Stop(n) == route[(n % Len(route)) + 1]

\* The first pass. A town takes of a ware what it likes at the price.
Unloads(s, w) == IF s.price[w] = 0 /\ s.amount[w] < 0 THEN Least(cargo[w], -s.amount[w]) ELSE 0
Sells(s) == {w \in Wares : s.price[w] > 0 /\ s.amount[w] > 0 /\ cargo[w] > 0}

\* The second pass: a ware at a time in the stop's order, up to what is offered and what
\* the hold still has room for.
Loadable(s, offered) == [w \in Wares |-> IF s.amount[w] > 0 /\ s.price[w] <= 0 THEN Least(s.amount[w], offered[w]) ELSE 0]

Taken(s, offered, free) ==
    LET wanted == Loadable(s, offered)
        taken[n \in 0..Len(s.order)] ==
            IF n = 0 THEN Zero
            ELSE [taken[n - 1] EXCEPT ![s.order[n]] = Least(wanted[s.order[n]], free - TotalOf(taken[n - 1]))]
    IN  taken[Len(s.order)]

Serve ==
    /\ route # << >> /\ served < MaxServed
    /\ LET s == Stop(served)
       IN  \E sold \in [Sells(s) -> BOOLEAN], offers \in Offers :
            LET kept == [w \in Wares |-> IF w \in Sells(s) /\ sold[w] THEN 0 ELSE cargo[w] - Unloads(s, w)]
                office == [w \in Wares |-> IF s.town \in HasOffice THEN supplies[s.town][w] + Unloads(s, w) ELSE 0]
                offered == [w \in Wares |-> IF s.price[w] < 0 THEN (IF w \in Produces[s.town] THEN offers ELSE 0)
                                            ELSE office[w]]
                got == Taken(s, offered, hold - TotalOf(kept))
            IN  /\ cargo' = [w \in Wares |-> kept[w] + got[w]]
                /\ supplies' = IF s.town \notin HasOffice THEN supplies
                            ELSE [supplies EXCEPT ![s.town] =
                                    [w \in Wares |-> office[w] - (IF s.price[w] = 0 THEN got[w] ELSE 0)]]
                /\ before' = IF s.town = Stop(served + Len(route) - 1).town THEN before ELSE [cargo |-> cargo', supplies |-> supplies']
    /\ served' = served + 1
    /\ UNCHANGED <<asked, route, hold>>

-----------------------------------------------------------------------------
RouteInit ==
    /\ asked = [kind |-> "none", alt |-> FALSE, days |-> 0]
    /\ route = << >>
    /\ hold = 0
    /\ served = 0
    /\ cargo = Zero
    /\ supplies = [t \in HasOffice |-> Zero]
    /\ before = [cargo |-> cargo, supplies |-> supplies]

RouteNext ==
    \/ \E k \in RouteKinds, alt \in BOOLEAN, days \in Laps, h \in Holds :
           \E stocks \in Stocks : on_route_hotkey(k, alt, days, h, stocks)
    \/ Serve

RouteSpec == RouteInit /\ [][RouteNext]_routeVars

-----------------------------------------------------------------------------
(* Properties.                                                             *)

\* The room the exchange of a target's stock takes: with five stops everything supplied is
\* aboard at once, with six the barrels first and the loads when some barrels are back.
Room(t, load) ==
    LET both(ws) == TotalOf([w \in Wares |-> IF w \in ws
                                THEN before.cargo[w] + (IF load[w] # 0 THEN before.supplies[t][w] ELSE 0) ELSE 0])
        back == TotalOf([w \in Wares |-> IF w \in Barrels THEN Least(load[w], before.cargo[w] + before.supplies[t][w]) ELSE 0])
        suppliedLoads == {w \in Wares \ Barrels : load[w] # 0}
    IN  IF asked.kind = "FiveStop" THEN both(Wares)
        ELSE LET first == both(Barrels)
                 second == first - back + both(suppliedLoads)
             IN  IF first < second THEN second ELSE first

\* builder.rs: "reset the target office's stock of the supplied wares to exactly the given
\* amounts while collecting every other ware". When the ship leaves a target with an office
\* it has served with the five or the six stops, the office holds exactly the basket of
\* every ware supplied, or all there was if there was less, provided the exchange had the
\* room it takes; and a ware not supplied is left behind only by a full ship.
TargetIsReset ==
    [][served' # served =>
        LET t == Stop(served).town
            load == town_supply_basket(t, asked.alt, asked.days)
        IN  /\ asked.kind \in {"FiveStop", "SixStop"}
            /\ t \in HasOffice \ {HomeTown}
            /\ Stop(served + 1).town # t
            => /\ \A w \in Wares : load[w] = 0 /\ supplies'[t][w] > 0 => TotalOf(cargo') = hold
               /\ Room(t, load) <= hold => \A w \in Wares : load[w] # 0 =>
                      supplies'[t][w] = Least(load[w], before.cargo[w] + before.supplies[t][w])]_routeVars
=============================================================================
