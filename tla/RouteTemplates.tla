--------------------------- MODULE RouteTemplates ---------------------------
(***************************************************************************)
(* The route keys of trading-qol on one ship (src/mod-trading-qol/src/     *)
(* routes.rs, with the stop templates of src/p3-rou/src/builder.rs): the   *)
(* templates read the ship's route, derive home and target towns from it   *)
(* and replace it, DEL takes it apart stop by stop through the game's      *)
(* operation queue, and a thawing port restarts the ships whose generated  *)
(* name names the town (thaw.rs).                                          *)
(*                                                                         *)
(* A stop is its pool record, its town, its role in the template, the      *)
(* towns whose demand it loads, and the first-stop marker. The route is a  *)
(* circular chain of records that the ship's own pointer (head) walks      *)
(* along. A town is identified with its three-letter code. Wares, prices   *)
(* and quantities are left out, a ship always is selected, and so is the  *)
(* file _backup.rou, which only the player loads.                          *)
(***************************************************************************)
EXTENDS Naturals, SequencesExt

CONSTANTS
    Towns,
    Offices,   \* the towns with a trading office of the player
    Hometown,
    Producers, \* the towns that produce what a fetch route collects
    ManualRoutes, \* routes set up in the route window: [town, role] per stop, role "buy" or "manual"
    MAX_DISPLAYABLE_STOPS,
    NAME_TOWNS \* how many town codes fit a ship's name: (31 - 1) \div 3

NoTown == "no town view"

ASSUME RoutesAssumption ==
    /\ IsFiniteSet(Towns) /\ NoTown \notin Towns
    /\ Hometown \in Towns /\ Producers \subseteq Towns
    /\ MAX_DISPLAYABLE_STOPS \in Nat \ {0, 1} /\ NAME_TOWNS \in Nat
    /\ \A r \in ManualRoutes :
         r \in Seq([town : Towns, role : {"buy", "manual"}]) /\ Len(r) <= MAX_DISPLAYABLE_STOPS

VARIABLES
    chain,   \* the route's stops in chain order, <<>>: no route
    head,    \* the stop the ship is heading for, as a position in the chain
    active,  \* automatic trade is on
    name,    \* [kind |-> "pool" or "route", towns |-> the codes of a generated name]
    pending, \* the operations enqueued by DEL and not yet executed by the game
    made     \* history: what set the route last, a key (and whether it appended) or the player

vars == <<chain, head, active, name, pending, made>>

Kinds == {"FiveStop", "SixStop", "Suck", "Trade", "Fetch"}
Collecting == {"Suck", "Fetch"}

PoolName == [kind |-> "pool", towns |-> << >>]
ByHand == [kind |-> "hand", append |-> FALSE]
Cleared == [kind |-> "cleared", append |-> FALSE]

stop(town, role, cargo) ==
    [rec |-> 0, town |-> town, role |-> role, cargo |-> cargo, first |-> FALSE]

TownsOf(stops) == {stops[i].town : i \in DOMAIN stops}

\* The distinct towns of stops, one of them excepted, in order of first appearance.
Distinct(stops, except) ==
    LET seen[n \in 0 .. Len(stops)] ==
            IF n = 0 THEN << >>
            ELSE LET before == seen[n - 1]
                     town == stops[n].town
                 IN  IF town = except \/ Contains(before, town) THEN before ELSE Append(before, town)
    IN  seen[Len(stops)]

\* The members of a set in some order.
Listed(S) ==
    LET listed[n \in 0 .. Cardinality(S)] ==
            IF n = 0 THEN << >>
            ELSE LET before == listed[n - 1]
                 IN  Append(before, CHOOSE x \in S : ~Contains(before, x))
    IN  listed[Cardinality(S)]

FirstOf(s, n) == SubSeq(s, 1, Min({Len(s), n}))

-----------------------------------------------------------------------------
(* Reading a route.                                                        *)

Rotated(s, p) == SubSeq(s, p, Len(s)) \o SubSeq(s, 1, p - 1)

\* route_stop_records: the chain from the ship's pointer on, rotated so that the first
\* stop found with the marker leads.
read_ship_route(c, h) ==
    LET walked == Rotated(c, h)
        marked == {i \in DOMAIN walked : walked[i].first}
    IN  IF c = << >> THEN << >>
        ELSE IF marked = {} THEN walked
        ELSE Rotated(walked, CHOOSE i \in marked : \A j \in marked : i <= j)

Current == read_ship_route(chain, head)

-----------------------------------------------------------------------------
(* The templates.                                                          *)

five_stop_middle(t) == <<stop(t, "sell", {}), stop(t, "take", {}), stop(t, "put back", {})>>
six_stop_middle(t) ==
    <<stop(t, "sell", {}), stop(t, "take", {}), stop(t, "swap", {}), stop(t, "put back", {})>>
trade_stop(t) == <<stop(t, "trade", {})>>
buy_stop(t) == <<stop(t, "buy", {})>>

middle(kind, t) ==
    CASE kind \in Collecting -> buy_stop(t)
      [] kind = "Trade" -> trade_stop(t)
      [] kind = "FiveStop" -> IF t \in Offices THEN five_stop_middle(t) ELSE trade_stop(t)
      [] kind = "SixStop" -> IF t \in Offices THEN six_stop_middle(t) ELSE trade_stop(t)

bracketed_route(home, cargo, stops) == <<stop(home, "load", cargo)>> \o stops \o <<stop(home, "unload", {})>>
collecting_route(home, stops) == <<stop(home, "transfer", {})>> \o stops

\* The stops of all targets, one target after the other.
middles(kind, targets) ==
    LET stops[n \in 0 .. Len(targets)] ==
            IF n = 0 THEN << >> ELSE stops[n - 1] \o middle(kind, targets[n])
    IN  stops[Len(targets)]

template(kind, home, targets) ==
    LET stops == middles(kind, targets)
        supplied == IF kind \in {"FiveStop", "SixStop"} THEN Range(targets) ELSE {}
    IN  IF kind \in Collecting
        THEN collecting_route(home, stops)
        ELSE bracketed_route(home, supplied, stops)

\* The auto-trade window has this many rows and no bound check.
clamped(stops) == FirstOf(stops, MAX_DISPLAYABLE_STOPS)

\* Faulty variant: the markers of the stops read back stay where they are.
normalisedOnlyFirst(stops) ==
    [i \in DOMAIN stops |-> [stops[i] EXCEPT !.first = i = 1 \/ @ \/ stops[i].role = "transfer", !.rec = i]]

\* write_and_apply_route: the marker goes on the first stop and off all others; the loaded
\* stops get fresh pool records.
normalised(stops) == [i \in DOMAIN stops |-> [stops[i] EXCEPT !.first = i = 1, !.rec = i]]

load_town(append, prev) == IF ~append /\ prev # << >> THEN prev[1].town ELSE Hometown

\* Faulty variant: the trailing home stop makes home a target.
route_targetsWithHome(prev, home, view) ==
    LET towns == Distinct(Tail(prev), NoTown)
    IN  IF prev # << >> /\ towns # << >> THEN towns
        ELSE IF view \notin {NoTown, home} THEN <<view>> ELSE << >>

\* The distinct towns of the route after its first stop, home excepted; without any, the
\* town on screen.
route_targets(prev, home, view) ==
    LET towns == Distinct(prev, home)
    IN  IF towns # << >> THEN towns
        ELSE IF view \notin {NoTown, home} THEN <<view>> ELSE << >>

\* Some order of the towns: order_towns_by_distance (module TourOrder) decides which.
fetch_targets(home, alt) == Listed((IF alt THEN Towns ELSE Producers) \ {home})

\* The buy orders on the ship's first stop: whether there is anything to fetch.
fetch_buy_prices(prev) == prev # << >> /\ prev[1].role = "buy"

targets_of(kind, append, alt, prev, home, view) ==
    CASE kind = "Fetch" -> IF fetch_buy_prices(prev) THEN fetch_targets(home, alt) ELSE << >>
      [] kind # "Fetch" /\ append -> IF view = NoTown THEN << >> ELSE <<view>>
      [] OTHER -> route_targets(prev, home, view)

\* Faulty variant: a town is named once per stop.
route_ship_nameRepeating(stops) ==
    [kind |-> "route", towns |-> FirstOf([i \in DOMAIN stops |-> stops[i].town], NAME_TOWNS)]

route_ship_name(stops) ==
    [kind |-> "route", towns |-> FirstOf(Distinct(stops, NoTown), NAME_TOWNS)]

\* The stops a route key applies, << >> when it refuses.
built(kind, append, alt, prev, view) ==
    LET home == load_town(append, prev)
        targets == targets_of(kind, append, alt, prev, home, view)
        new == template(kind, home, targets)
    IN  IF targets = << >> THEN << >> ELSE clamped(IF append THEN prev \o new ELSE new)

-----------------------------------------------------------------------------
(* The keys. The queue has drained what a key enqueued before the next one *)
(* is pressed.                                                             *)

Drained == pending = << >>

\* on_route_hotkey: the key refuses, fails to write or load the route file, or replaces the
\* route and renames the ship. The game applies a loaded route in one go and stops automatic
\* trade. Only a fetch route's towns depend on ALT.
on_route_hotkey(kind, append, alt, view) ==
    /\ Drained
    /\ kind = "Fetch" => ~append
    /\ alt => kind = "Fetch"
    /\ LET stops == normalised(built(kind, append, alt, Current, view))
       IN  \/ UNCHANGED <<chain, head, active, name, made>>
           \/ /\ stops # << >>
              /\ chain' = stops
              /\ head' \in DOMAIN stops
              /\ active' = FALSE
              /\ name' = route_ship_name(stops)
              /\ made' = [kind |-> kind, append |-> append]
    /\ UNCHANGED pending

\* One removal per stop, naming the record, which stays put while others are freed.
removals(stops) == [i \in DOMAIN stops |-> [op |-> "remove", rec |-> stops[i].rec]]

\* Up to three operations, each with a piece of the name, that nothing comes between.
rename_ship == [op |-> "rename", rec |-> 0]

\* DEL: refused while the goods dialog is open and on a ship without a route; otherwise
\* stop, remove every stop, rename.
on_clear_route_hotkey ==
    /\ Drained
    /\ chain # << >>
    /\ pending' = <<[op |-> "stop", rec |-> 0]>> \o removals(Current) \o <<rename_ship>>
    /\ made' = Cleared
    /\ UNCHANGED <<chain, head, active, name>>

\* The removal of a stop: the marker moves on to its successor, and so does the ship.
Removed(c, i) ==
    LET next == IF i = Len(c) THEN 1 ELSE i + 1
        handed == IF c[i].first THEN [c EXCEPT ![next].first = TRUE] ELSE c
    IN  RemoveAt(handed, i)

\* The game executes the oldest operation.
Execute ==
    /\ pending # << >>
    /\ pending' = Tail(pending)
    /\ LET op == Head(pending).op
       IN  /\ active' = IF op = "stop" THEN FALSE ELSE active
           /\ name' = IF op = "rename" THEN PoolName ELSE name
           /\ IF op = "remove"
              THEN LET i == CHOOSE j \in DOMAIN chain : chain[j].rec = Head(pending).rec
                   IN  /\ chain' = Removed(chain, i)
                       /\ head' = IF i < head THEN head - 1
                                  ELSE IF head = Len(chain) /\ head = i THEN 1 ELSE head
              ELSE UNCHANGED <<chain, head>>
    /\ UNCHANGED made

-----------------------------------------------------------------------------
(* The world around.                                                       *)

\* The ship reaches its stop and heads for the next.
Sail ==
    /\ active /\ Drained
    /\ chain # << >>
    /\ head' = IF head = Len(chain) THEN 1 ELSE head + 1
    /\ UNCHANGED <<chain, active, name, pending, made>>

\* The player edits the route in the route window.
EditRoute(r) ==
    /\ Drained
    /\ chain' = normalised([i \in DOMAIN r |-> stop(r[i].town, r[i].role, {})])
    /\ head' = 1
    /\ made' = ByHand
    /\ UNCHANGED <<active, name, pending>>

\* The player starts automatic trade, or a frozen port on the way stops it.
Start ==
    /\ Drained
    /\ chain # << >>
    /\ active' = TRUE
    /\ UNCHANGED <<chain, head, name, pending, made>>

Freeze(t) ==
    /\ active /\ Drained
    /\ t \in TownsOf(chain)
    /\ active' = FALSE
    /\ UNCHANGED <<chain, head, name, pending, made>>

resumed(t) == name.kind = "route" /\ t \in Range(name.towns)

\* resume_autotrade_after_thaw: the name decides.
Thaw(t) ==
    /\ Drained
    /\ active' = (active \/ resumed(t))
    /\ UNCHANGED <<chain, head, name, pending, made>>

Init ==
    /\ chain = << >>
    /\ head = 1
    /\ active = FALSE
    /\ name = PoolName
    /\ pending = << >>
    /\ made = ByHand

Next ==
    \/ \E kind \in Kinds, append, alt \in BOOLEAN, view \in Towns \cup {NoTown} :
         on_route_hotkey(kind, append, alt, view)
    \/ on_clear_route_hotkey
    \/ Execute
    \/ Sail
    \/ \E r \in ManualRoutes : EditRoute(r)
    \/ Start
    \/ \E t \in Towns : Freeze(t) \/ Thaw(t)

Spec == Init /\ [][Next]_vars

-----------------------------------------------------------------------------
(* Properties.                                                             *)

Roles == {"sell", "take", "put back", "swap", "trade", "buy", "manual", "load", "unload", "transfer"}

Stops == [rec : Nat, town : Towns, role : Roles, cargo : SUBSET Towns, first : BOOLEAN]

IsRoute(stops) == IsInjective([i \in DOMAIN stops |-> stops[i].rec]) /\ \A i \in DOMAIN stops : stops[i] \in Stops

\* Routes are made of stops with records of their own, never more than the auto-trade window
\* has rows for, and the ship is heading for one of them.
TypeOK ==
    /\ IsRoute(chain) /\ Len(chain) <= MAX_DISPLAYABLE_STOPS
    /\ chain # << >> => head \in DOMAIN chain
    /\ active \in BOOLEAN
    /\ name.kind \in {"pool", "route"} /\ Range(name.towns) \subseteq Towns
    /\ Len(name.towns) <= NAME_TOWNS
    /\ \A i \in DOMAIN pending : pending[i].op \in {"stop", "remove", "rename"}

\* Where the ship happens to be does not change what the route reads as: one stop carries
\* the marker, also while a clear removes them one by one.
ReadingIsStable == \A h \in DOMAIN chain : read_ship_route(chain, h) = Current

SameRoute(s, t) ==
    /\ Len(s) = Len(t)
    /\ \A i \in DOMAIN s : s[i].town = t[i].town /\ s[i].role = t[i].role

\* A supply, collect or trade key pressed again gives the route it gave before, whatever
\* town is on screen by then and however much was cut off.
RebuildKeepsTheRoute ==
    Drained /\ made.kind \in Kinds \ {"Fetch"} /\ ~made.append =>
        \A view \in Towns \cup {NoTown} : SameRoute(built(made.kind, FALSE, FALSE, Current, view), Current)

\* The name a key gave lists the distinct towns of the route the ship carries, in the order
\* the window shows them, as far as they fit.
NameNamesTheRoute ==
    Drained /\ made.kind \in Kinds =>
        LET reached(t) == Min({i \in DOMAIN Current : Current[i].town = t})
        IN  /\ Range(name.towns) \subseteq TownsOf(chain)
            /\ \A i, j \in DOMAIN name.towns : i < j => reached(name.towns[i]) < reached(name.towns[j])
            /\ Len(name.towns) = Min({NAME_TOWNS, Cardinality(TownsOf(chain))})

\* Once the game has worked off a clear, the ship has no route, does not trade and has a
\* name of the pool, and no thawing port starts it again.
ClearedIsClear ==
    Drained /\ made = Cleared => chain = << >> /\ name = PoolName /\ ~active

\* README.md:42: a supply route finally hauls everything home.
SupplyRoutesComeHome ==
    Drained /\ made.kind \in {"FiveStop", "SixStop"} => Current[Len(Current)].role = "unload"

=============================================================================
