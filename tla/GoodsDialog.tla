----------------------------- MODULE GoodsDialog -----------------------------
(***************************************************************************)
(* The goods dialog of the auto-trade window and the keys trading-qol      *)
(* gives it (src/mod-trading-qol/src/goods_dialog.rs): they write into the *)
(* very record the dialog shows, while the dialog has edits of its own     *)
(* under way - a row being typed in, committed when it closes, and         *)
(* operations that clean the slots nobody uses, executed later.            *)
(*                                                                         *)
(* A record holds a price and an amount per ware and the order in which    *)
(* the wares are served. A slot is an instruction when its amount is not   *)
(* 0; the price is its level, negative to buy, 0 for a transfer from or to *)
(* the office. A slot that is none may still hold a price of the game's.   *)
(***************************************************************************)
EXTENDS Integers, SequencesExt

CONSTANTS
    Rows,          \* the wares, a row of the dialog each
    DEFAULT_ORDER, \* the game's display order, a sequence of all wares
    ValueKey,      \* ware -> its place in the builder's order
    PriceLevels,   \* positive
    Route,         \* the towns of the ship's stops, the first one home
    Production,    \* town -> the wares it produces
    NO_BUY_WARES,
    Demand,        \* town -> ware -> a week's consumption
    LapFactor,     \* what the lap time makes of it
    MAX_AMOUNT,
    Visited        \* bound: the stops the player looks at

ASSUME DialogAssumption ==
    /\ PriceLevels \subseteq Nat \ {0} /\ \E l \in PriceLevels : \A m \in PriceLevels : l <= m
    /\ 0 \notin DOMAIN Route
    /\ MAX_AMOUNT \in Nat \ {0}
    /\ Visited \subseteq DOMAIN Route

VARIABLES
    stops,   \* the records: [price, amount, order]
    display, \* the stop on display, 0 while the dialog is closed
    rowBoxes,   \* what the dialog's boxes show, by ware: [price, amount]
    row,     \* the row being typed in, not committed yet, 0 for none
    cleanUp, \* slots the dialog has enqueued to be cleaned, as <<stop, ware>>
    setUp,   \* history: the slots F1 has made an instruction of
    raced    \* history: those of them with a clean-up under way when F1 was pressed

dialogVars == <<stops, display, rowBoxes, row, cleanUp, setUp, raced>>

Blank == [w \in Rows |-> [price |-> 0, amount |-> 0]]
STOP_LEVEL == CHOOSE l \in PriceLevels : \A m \in PriceLevels : l <= m
Unused(s) == {w \in Rows : stops[s].amount[w] = 0}

\* The wares with an instruction by value, then the others, ties in the display order.
cargo_order(amount) ==
    LET key(w) == IF amount[w] = 0 THEN 255 ELSE ValueKey[w]
        place(w) == CHOOSE i \in DOMAIN DEFAULT_ORDER : DEFAULT_ORDER[i] = w
    IN  SortSeq(DEFAULT_ORDER, LAMBDA v, w : key(v) < key(w) \/ (key(v) = key(w) /\ place(v) < place(w)))

-----------------------------------------------------------------------------
(***************************************************************************)
(* The dialog, external.  Its rows follow the record's order, its boxes    *)
(* belong to wares.  Leaving a row or closing commits the row: the         *)
(* record's order, as it is then, says which ware the row stands for, and  *)
(* that ware's boxes are written, price and amount together.               *)
(***************************************************************************)
Committed(record) ==
    IF row = 0 THEN record
    ELSE LET w == record.order[row]
         IN  [record EXCEPT !.price[w] = rowBoxes[w].price, !.amount[w] = rowBoxes[w].amount]

\* The slot a commit writes.
Rewritten(record) == IF row = 0 THEN {} ELSE {<<display, record.order[row]>>}

RowOf(record, w) == CHOOSE i \in DOMAIN record.order : record.order[i] = w
BoxesOf(record) == [w \in Rows |-> [price |-> record.price[w], amount |-> record.amount[w]]]

\* The commit of the row left behind, if there is one.
LeaveRow ==
    /\ stops' = IF row = 0 THEN stops ELSE [stops EXCEPT ![display] = Committed(@)]
    /\ setUp' = IF row = 0 THEN setUp ELSE setUp \ Rewritten(stops[display])
    /\ raced' = raced \cap setUp'

\* Populate closes the dialog it finds open, shows the stop and enqueues the clean-up of
\* its unused slots that hold a price.
Enqueued(s, record) == {<<s, w>> : w \in {v \in Rows : record.amount[v] = 0 /\ record.price[v] # 0}}

populate(s) ==
    /\ LeaveRow
    /\ cleanUp' = cleanUp \cup Enqueued(s, stops'[s])
    /\ display' = s
    /\ rowBoxes' = BoxesOf(stops'[s])
    /\ row' = 0

close ==
    /\ display # 0
    /\ LeaveRow
    /\ display' = 0
    /\ rowBoxes' = Blank
    /\ row' = 0
    /\ UNCHANGED cleanUp

TypeInRow(w, p, a) ==
    /\ display # 0
    /\ row' = RowOf(stops[display], w)
    /\ rowBoxes' = [rowBoxes EXCEPT ![w] = [price |-> p, amount |-> a]]
    /\ IF row = row' THEN UNCHANGED <<stops, setUp, raced>> ELSE LeaveRow
    /\ UNCHANGED <<display, cleanUp>>

\* A clean-up executed takes the price of an unused slot.  What it makes of a slot that has
\* become an instruction since is not known: it may look at the amount again or not.
CleanSlot ==
    \E c \in cleanUp :
        /\ cleanUp' = cleanUp \ {c}
        /\ \/ stops' = [stops EXCEPT ![c[1]].price[c[2]] = 0]
           \/ stops[c[1]].amount[c[2]] # 0 /\ UNCHANGED stops
        /\ UNCHANGED <<display, rowBoxes, row, setUp, raced>>

-----------------------------------------------------------------------------
(* The keys.                                                               *)

\* refresh_goods_dialog: populate, called directly, over the record just written.  The row
\* left pending is committed by the order of that record, not by the one it was typed under.
refresh_goods_dialog(record, made, unmade) ==
    LET slots == {display} \X made
        after == Committed(record)
    IN  /\ stops' = [stops EXCEPT ![display] = after]
        /\ setUp' = ((setUp \cup slots) \ ({display} \X unmade)) \ Rewritten(record)
        /\ raced' = setUp' \cap ((raced \ slots) \cup (slots \cap cleanUp))
        /\ cleanUp' = cleanUp \cup Enqueued(display, after)
        /\ rowBoxes' = BoxesOf(after)
        /\ row' = 0
        /\ UNCHANGED display

\* CTRL / ALT + level: purchases or sales of the stop take the level's price.
repriced(record, sell, level) ==
    [w \in Rows |-> IF record.amount[w] # 0 /\ sell /\ record.price[w] > 0 THEN level
                     ELSE IF record.amount[w] # 0 /\ ~sell /\ record.price[w] < 0 THEN -level
                     ELSE record.price[w]]

reprice_dialog_stop(sell, level) ==
    /\ display # 0
    /\ LET record == stops[display]
           price == repriced(record, sell, level)
       IN  IF price = record.price THEN UNCHANGED dialogVars
           ELSE refresh_goods_dialog([record EXCEPT !.price = price], {}, {})

\* ALT+F1: the amounts of the stop become what the towns on the route, home excepted, need
\* in a week or in a lap.
supply_load_for_towns(towns, days) ==
    [w \in Rows |-> FoldSet(LAMBDA t, sum : sum + days * Demand[t][w], 0, towns)]

on_dialog_load_quantities_hotkey(days) ==
    LET towns == {Route[i] : i \in DOMAIN Route} \ {Route[1]}
    IN  /\ display # 0 /\ towns # {}
        /\ refresh_goods_dialog(
               [stops[display] EXCEPT !.amount = supply_load_for_towns(towns, days)], {}, Rows)

\* Faulty variant: a slot with a price is taken for an instruction.
freeByPrice(record) == {w \in Rows : record.price[w] = 0}

\* A slot without an instruction has amount 0, whatever its price still says.
free(record) == {w \in Rows : record.amount[w] = 0}

\* F1: fill the stop's free slots - buy what its town produces, sell the rest - and put the
\* instructions in the builder's order.
on_dialog_setup_hotkey(skip_no_buy_wares) ==
    /\ display # 0
    /\ LET record == stops[display]
           new == free(record)
           bought == {w \in Production[Route[display]] : ~(skip_no_buy_wares /\ w \in NO_BUY_WARES)}
           amount == [w \in Rows |-> IF w \in new THEN MAX_AMOUNT ELSE record.amount[w]]
       IN  refresh_goods_dialog(
               [price  |-> [w \in Rows |-> IF w \notin new THEN record.price[w]
                                            ELSE IF w \in bought THEN -STOP_LEVEL ELSE STOP_LEVEL],
                amount |-> amount,
                order  |-> cargo_order(amount)], Unused(display), {})

\* A level typed into a price box rewrites the box of a purchase or a sale; it is committed
\* with the row.
on_dialog_price_widget_key(w, level) ==
    /\ display # 0
    /\ rowBoxes[w].amount # 0 /\ rowBoxes[w].price # 0
    /\ TypeInRow(w, IF rowBoxes[w].price < 0 THEN -level ELSE level, rowBoxes[w].amount)

-----------------------------------------------------------------------------
\* A route as the route window leaves it: no instructions, prices left over in some slots.
DialogInit ==
    /\ stops = [s \in DOMAIN Route |->
                   [price |-> [w \in Rows |-> STOP_LEVEL], amount |-> [w \in Rows |-> 0], order |-> DEFAULT_ORDER]]
    /\ display = 0
    /\ rowBoxes = Blank
    /\ row = 0
    /\ cleanUp = {}
    /\ setUp = {}
    /\ raced = {}

DialogKey ==
    \/ \E sell \in BOOLEAN, l \in PriceLevels : reprice_dialog_stop(sell, l)
    \/ \E days \in {1, LapFactor} : on_dialog_load_quantities_hotkey(days)
    \/ \E skip \in BOOLEAN : on_dialog_setup_hotkey(skip)
    \/ \E w \in Rows, l \in PriceLevels : on_dialog_price_widget_key(w, l)

DialogNext ==
    \/ DialogKey
    \/ \E s \in Visited : populate(s)
    \/ close
    \/ \E w \in Rows, p \in {0, STOP_LEVEL}, a \in {0, MAX_AMOUNT} : TypeInRow(w, p, a)
    \/ CleanSlot

DialogSpec == DialogInit /\ [][DialogNext]_dialogVars

-----------------------------------------------------------------------------
(* Properties.                                                             *)

\* What F1 sets up is there and stays: every slot that was unused when F1 was pressed is an
\* instruction - whatever price the game had left in it, and whatever row was being typed in
\* or is typed in later - except a slot that a pending row is committed over, and until the
\* quantities of the stop are filled in.  It has a price as well, unless a clean-up of the
\* slot was still under way when F1 was pressed.
SetupHolds ==
    \A c \in setUp :
        /\ stops[c[1]].amount[c[2]] # 0
        /\ stops[c[1]].price[c[2]] # 0 \/ c \in raced
=============================================================================
