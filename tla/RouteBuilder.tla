---------------------------- MODULE RouteBuilder ----------------------------
(***************************************************************************)
(* The stops of a trade route as p3-rou/src/builder.rs builds them. A stop *)
(* is its town, its flag, a price and an amount per ware and the order of  *)
(* the wares: load = price 0, amount > 0; unload = price 0, amount < 0;    *)
(* sell = price > 0; buy = price < 0. Amounts are raw units; only the      *)
(* wares of the route window are here, the weapons' slots are always zero. *)
(***************************************************************************)
EXTENDS Integers, SequencesExt

CONSTANTS
    Wares,
    Barrels,       \* the wares measured in barrels; the others are measured in loads
    SCALING,       \* ware -> raw units per in-game unit
    value_rank,    \* ware -> 0 for the best valued
    DEFAULT_ORDER, \* the game's display order, a sequence of all wares
    MAX_AMOUNT     \* as much as possible

Zero == [w \in Wares |-> 0]

\* Barrel goods before the bulky loads, each by value; wares without an instruction last.
cargo_order(amount) ==
    LET key(w) == IF amount[w] = 0 THEN 255 ELSE (IF w \in Barrels THEN 0 ELSE 32) + value_rank[w]
        place(w) == CHOOSE i \in DOMAIN DEFAULT_ORDER : DEFAULT_ORDER[i] = w
        ahead(w) == {v \in Wares : key(v) < key(w) \/ (key(v) = key(w) /\ place(v) < place(w))}
    IN  [i \in DOMAIN DEFAULT_ORDER |-> CHOOSE w \in Wares : Cardinality(ahead(w)) = i - 1]

\* The flag the route window shows and, in another bit, the marker of the first stop.
FLAG_R == 1
FLAG_X == 0
FLAG_NONE == 9
FIRST_STOP_MARKER == 4
Action(flag, first) == flag + (IF first THEN FIRST_STOP_MARKER ELSE 0)

stop(t, action, price, amount) ==
    [town |-> t, action |-> action, price |-> price, amount |-> amount, order |-> cargo_order(amount)]
plain == Action(FLAG_X, FALSE)

all_trade_wares(amount) == [w \in Wares |-> amount]

bracketed_route(home, load, middle) ==
    <<stop(home, Action(FLAG_R, TRUE), Zero, load)>> \o middle \o <<stop(home, plain, Zero, all_trade_wares(-MAX_AMOUNT))>>

collecting_route(home, middle) ==
    <<stop(home, Action(FLAG_R, TRUE), Zero, all_trade_wares(-MAX_AMOUNT))>> \o middle

sell_max(load) == [w \in Wares |-> IF load[w] # 0 THEN MAX_AMOUNT ELSE 0]
take_supplied(load) == sell_max(load)

\* Faulty variant: everything taken is put back.
put_back_everything(load) ==
    [w \in Wares |-> IF load[w] # 0 THEN -MAX_AMOUNT ELSE MAX_AMOUNT]

\* Exactly the load of the wares supplied goes back, every other ware is collected.
put_back_and_collect(load) == [w \in Wares |-> IF load[w] # 0 THEN -load[w] ELSE MAX_AMOUNT]

five_stop_middle(t, load, prices) ==
    << stop(t, plain, prices, sell_max(load)),
       stop(t, plain, Zero, take_supplied(load)),
       stop(t, plain, Zero, put_back_and_collect(load)) >>

\* One category at a time, so that the exchange needs less of the hold.
six_stop_middle(t, load, prices) ==
    LET supplied == {w \in Wares : load[w] # 0}
    IN  << stop(t, plain, prices, sell_max(load)),
           stop(t, plain, Zero, [w \in Wares |-> IF w \notin Barrels THEN -MAX_AMOUNT
                                          ELSE IF w \in supplied THEN MAX_AMOUNT ELSE 0]),
           stop(t, plain, Zero, [w \in Wares |-> IF w \notin supplied THEN 0
                                          ELSE IF w \in Barrels THEN -load[w] ELSE MAX_AMOUNT]),
           stop(t, plain, Zero, [w \in Wares |-> IF w \notin supplied THEN MAX_AMOUNT
                                          ELSE IF w \in Barrels THEN 0 ELSE -load[w]]) >>

\* A target without an office: sell what is supplied and buy the rest in one stop.
trade_stop(t, load, sell, buy) ==
    stop(t, plain, [w \in Wares |-> IF load[w] # 0 THEN sell[w] ELSE -buy[w]],
            [w \in Wares |-> IF load[w] # 0 \/ buy[w] > 0 THEN MAX_AMOUNT ELSE 0])

buy_stop(t, buy) == stop(t, plain, [w \in Wares |-> -buy[w]], [w \in Wares |-> IF buy[w] > 0 THEN MAX_AMOUNT ELSE 0])

-----------------------------------------------------------------------------
(* The routes of one target that the command line writes.                  *)

five_stop_route(home, t, load, prices) == bracketed_route(home, load, five_stop_middle(t, load, prices))
six_stop_route(home, t, load, prices) == bracketed_route(home, load, six_stop_middle(t, load, prices))
suck_route(home, t, buy) == bracketed_route(home, Zero, <<buy_stop(t, buy)>>)
=============================================================================
