---------------------------- MODULE OfficeOrders ----------------------------
(***************************************************************************)
(* The administrator's orders of the player's trading offices: the keys    *)
(* and the sync column of trading-qol (src/mod-trading-qol/src/office.rs,  *)
(* sync.rs), which act at once, and the synchronisation that another mod   *)
(* enqueues whenever the office window closes                              *)
(* (src/mod-trading-office-prices-synchronization/src/lib.rs), which the   *)
(* game executes later.                                                    *)
(*                                                                         *)
(* An order's price is its level on the ladder of prices.rs, negative for  *)
(* a purchase and 0 for no order; its amount is in raw units, of which     *)
(* SCALING make one unit of the number boxes. The order of the rows, the widgets'  *)
(* places and what the notes say are left out.                             *)
(***************************************************************************)
EXTENDS Integers, Sequences, FiniteSets

CONSTANTS
    Offices,     \* the towns with an office of the player
    Goods,       \* the wares
    Levels,      \* the price levels, a set of positive integers; Q is the lowest
    Produced,    \* office -> the wares its town produces
    SCALING,     \* ware -> raw units per unit of a box
    BUY_AMOUNT,  \* ware -> units F1 buys up to where the amount is 0
    Required,    \* office -> ware -> raw units of a top-level celebration
    Materials,   \* ware -> units of building materials, 0 for other wares
    MAX_BOX,     \* the boxes clamp to this
    Typed,       \* the units a player types
    MaxQueued    \* bound: operations waiting when a window closes

VARIABLES
    price,    \* per office and ware
    stock,    \* per office and ware, raw units the administrator keeps
    locked,   \* per office, the wares whose amount is locked
    admin,    \* the offices that employ an administrator
    shown,    \* the office on screen
    page,     \* whether the administrator page is selected
    amountBoxes, \* the amount boxes of the page
    selected, \* the rows checked in the sync column
    queue,    \* operations enqueued and not yet executed
    covered,  \* history: what CTRL+F1 has provisioned and nobody has undone since
    overtaken \* history: what of it was provisioned with an older operation waiting

provisions == <<covered, overtaken>>
ordersVars == <<price, stock, locked, admin, shown, page, amountBoxes, selected, queue, provisions>>
window == <<shown, page, selected>>

Nowhere == "no office"
Prices == Levels \cup {-l : l \in Levels} \cup {0}
Q == CHOOSE l \in Levels : \A m \in Levels : l <= m
Sign(p) == IF p < 0 THEN -1 ELSE IF p > 0 THEN 1 ELSE 0
Pairs(o, ws) == {o} \X ws

ASSUME OrdersAssumption ==
    /\ IsFiniteSet(Offices) /\ IsFiniteSet(Goods)
    /\ Nowhere \notin Offices
    /\ Levels \subseteq Nat \ {0} /\ \E l \in Levels : \A m \in Levels : l <= m
    /\ SCALING \in [Goods -> Nat \ {0}]
    /\ BUY_AMOUNT \in [Goods -> Nat]
    /\ Required \in [Offices -> [Goods -> Nat]]
    /\ Materials \in [Goods -> Nat]
    /\ MAX_BOX \in Nat
    /\ Typed \subseteq Nat

Clamped(n) == IF n > MAX_BOX THEN MAX_BOX ELSE n
Boxes(stocks) == [w \in Goods |-> Clamped(stocks[w] \div SCALING[w])]

-----------------------------------------------------------------------------
(* The keys.                                                               *)

\* resolve_office: the keys act on the administrator page of a player's office only.
resolve_office == shown # Nowhere /\ page

\* Every key ends by filling the boxes again, because the window commits a focused box.
Change(p, s, l) ==
    /\ price' = [price EXCEPT ![shown] = p]
    /\ stock' = [stock EXCEPT ![shown] = s]
    /\ locked' = [locked EXCEPT ![shown] = l]
    /\ amountBoxes' = Boxes(s)
    /\ UNCHANGED <<window, queue>>

\* The pairs an enqueued operation is about.
Waiting == {<<queue[i].office, queue[i].ware>> : i \in DOMAIN queue}

\* What is undone is no provision any more.
Undone(pairs) ==
    /\ covered' = covered \ pairs
    /\ overtaken' = overtaken \ pairs

\* F1: employ an administrator; buy what the town produces, sell the rest, where there is
\* no order.
on_setup_hotkey ==
    LET free == {w \in Goods : price[shown][w] = 0}
        bought == free \cap Produced[shown]
    IN  /\ resolve_office
        /\ admin' = admin \cup {shown}
        /\ Change([w \in Goods |-> IF w \in bought THEN -Q ELSE IF w \in free THEN Q ELSE price[shown][w]],
                  [w \in Goods |-> IF w \in bought /\ stock[shown][w] = 0
                                   THEN BUY_AMOUNT[w] * SCALING[w] ELSE stock[shown][w]],
                  locked[shown])
        /\ UNCHANGED provisions

\* Amounts are raised, never lowered, and locked.
provision_and_lock(targets) ==
    /\ resolve_office
    /\ Change(price[shown],
              [w \in Goods |-> IF w \in DOMAIN targets /\ stock[shown][w] < targets[w]
                               THEN targets[w] ELSE stock[shown][w]],
              locked[shown] \cup DOMAIN targets)
    /\ UNCHANGED admin

\* Faulty variant: the requirement is provisioned as it is.
staplesUnrounded(o) == [w \in {v \in Goods : Required[o][v] > 0} |-> Required[o][w]]

\* CTRL+F1: the celebration's requirement, rounded up to whole units of the boxes.
staples(o) ==
    [w \in {v \in Goods : Required[o][v] > 0} |->
        ((Required[o][w] + SCALING[w] - 1) \div SCALING[w]) * SCALING[w]]

on_lock_staples_hotkey ==
    /\ provision_and_lock(staples(shown))
    /\ LET new == Pairs(shown, DOMAIN staples(shown)) \ covered
       IN  covered' = covered \cup new /\ overtaken' = overtaken \cup (new \cap Waiting)

\* ALT+F1.
on_lock_building_materials_hotkey ==
    /\ provision_and_lock([w \in {v \in Goods : Materials[v] > 0} |-> Materials[w] * SCALING[w]])
    /\ UNCHANGED provisions

\* DEL: no order, nothing kept, nothing locked; the administrator stays.
on_reset_office_hotkey ==
    /\ resolve_office
    /\ Change([w \in Goods |-> 0], [w \in Goods |-> 0], {})
    /\ Undone(Pairs(shown, Goods))
    /\ UNCHANGED admin

\* CTRL + level reprices the purchases, ALT + level the sales.
apply_prices(sell, level) ==
    /\ resolve_office
    /\ Change([w \in Goods |-> IF sell /\ price[shown][w] > 0 THEN level
                               ELSE IF ~sell /\ price[shown][w] < 0 THEN -level
                               ELSE price[shown][w]],
              stock[shown], locked[shown])
    /\ UNCHANGED <<admin, provisions>>

\* A level typed into a price box keeps the order's direction; a ware without one has none.
on_price_widget_key(w, level) ==
    /\ resolve_office
    /\ price' = [price EXCEPT ![shown][w] = Sign(@) * level]
    /\ UNCHANGED <<stock, locked, admin, window, amountBoxes, queue, provisions>>

-----------------------------------------------------------------------------
(* The sync column.                                                        *)

ToggleRow(w) ==
    /\ resolve_office /\ shown \in admin
    /\ selected' = IF w \in selected THEN selected \ {w} ELSE selected \cup {w}
    /\ UNCHANGED <<price, stock, locked, admin, shown, page, amountBoxes, queue, provisions>>

\* Faulty variant: any order is copied over any other.
synced_anyway(o, w) == o # shown /\ w \in selected /\ price[shown][w] # 0 /\ price[o][w] # 0

\* An order is copied where the same ware runs the same way.
synced(o, w) == o # shown /\ w \in selected /\ Sign(price[o][w]) = Sign(price[shown][w]) /\ price[o][w] # 0

on_sync ==
    /\ resolve_office /\ shown \in admin
    /\ price' = [o \in Offices |-> [w \in Goods |-> IF synced(o, w) THEN price[shown][w] ELSE price[o][w]]]
    /\ stock' = [o \in Offices |-> [w \in Goods |-> IF synced(o, w) THEN stock[shown][w] ELSE stock[o][w]]]
    /\ Undone({c \in covered : synced(c[1], c[2])})
    /\ UNCHANGED <<locked, admin, window, amountBoxes, queue>>

-----------------------------------------------------------------------------
(* The synchronisation on closing: the wares of which the office keeps an  *)
(* odd number of units get its price in every other office, with the       *)
(* amount the other office kept at the time.                               *)

Targets == (Offices \ {shown}) \X {w \in Goods : (stock[shown][w] \div SCALING[w]) % 2 = 1}

synchronize_autotrade_settings ==
    \E ops \in [1 .. Cardinality(Targets) -> Targets] :
        /\ \A i, j \in DOMAIN ops : i # j => ops[i] # ops[j]
        /\ queue' = queue \o [i \in DOMAIN ops |->
               [office |-> ops[i][1], ware |-> ops[i][2],
                stock |-> stock[ops[i][1]][ops[i][2]], price |-> price[shown][ops[i][2]]]]

\* The hook runs before the window's own close; then the selection is forgotten.
CloseWindow ==
    /\ shown # Nowhere
    /\ Len(queue) + Cardinality(Targets) <= MaxQueued
    /\ synchronize_autotrade_settings
    /\ shown' = Nowhere /\ page' = FALSE /\ selected' = {}
    /\ amountBoxes' = [w \in Goods |-> 0]
    /\ UNCHANGED <<price, stock, locked, admin, provisions>>

ExecuteOperation ==
    /\ queue # << >>
    /\ LET op == Head(queue)
       IN  /\ price' = [price EXCEPT ![op.office][op.ware] = op.price]
           /\ stock' = [stock EXCEPT ![op.office][op.ware] = op.stock]
           /\ Undone({<<op.office, op.ware>>} \cap overtaken)
    /\ queue' = Tail(queue)
    /\ UNCHANGED <<locked, admin, window, amountBoxes>>

-----------------------------------------------------------------------------
(* The player and the window.                                              *)

OpenWindow(o) ==
    /\ shown = Nowhere
    /\ shown' = o /\ page' = FALSE
    /\ amountBoxes' = Boxes(stock[o])
    /\ UNCHANGED <<price, stock, locked, admin, selected, queue, provisions>>

SelectPage(p) ==
    /\ shown # Nowhere /\ p # page
    /\ page' = p
    /\ UNCHANGED <<price, stock, locked, admin, shown, amountBoxes, selected, queue, provisions>>

\* The window commits the value of a focused box to the office every frame.
CommitBox(w) ==
    /\ resolve_office
    /\ stock' = [stock EXCEPT ![shown][w] = amountBoxes[w] * SCALING[w]]
    /\ UNCHANGED <<price, locked, admin, window, amountBoxes, queue, provisions>>

TypeAmount(w, n) ==
    /\ resolve_office
    /\ amountBoxes' = [amountBoxes EXCEPT ![w] = Clamped(n)]
    /\ stock' = [stock EXCEPT ![shown][w] = Clamped(n) * SCALING[w]]
    /\ Undone({<<shown, w>>})
    /\ UNCHANGED <<price, locked, admin, window, queue>>

SetOrder(w, p) ==
    /\ resolve_office
    /\ price' = [price EXCEPT ![shown][w] = p]
    /\ UNCHANGED <<stock, locked, admin, window, amountBoxes, queue, provisions>>

-----------------------------------------------------------------------------
OrdersInit ==
    /\ price = [o \in Offices |-> [w \in Goods |-> 0]]
    /\ stock = [o \in Offices |-> [w \in Goods |-> 0]]
    /\ locked = [o \in Offices |-> {}]
    /\ admin = {}
    /\ shown = Nowhere /\ page = FALSE
    /\ amountBoxes = [w \in Goods |-> 0]
    /\ selected = {}
    /\ queue = << >>
    /\ covered = {} /\ overtaken = {}

OfficeKey ==
    \/ on_setup_hotkey
    \/ on_lock_staples_hotkey
    \/ on_lock_building_materials_hotkey
    \/ on_reset_office_hotkey
    \/ \E sell \in BOOLEAN, l \in Levels : apply_prices(sell, l)
    \/ \E w \in Goods, l \in Levels : on_price_widget_key(w, l)

OrdersNext ==
    \/ OfficeKey
    \/ \E w \in Goods : ToggleRow(w)
    \/ on_sync
    \/ CloseWindow
    \/ ExecuteOperation
    \/ \E o \in Offices : OpenWindow(o)
    \/ \E p \in BOOLEAN : SelectPage(p)
    \/ \E w \in Goods : CommitBox(w)
    \/ \E w \in Goods, n \in Typed : TypeAmount(w, n)
    \/ \E w \in Goods, p \in Prices : SetOrder(w, p)

OrdersSpec == OrdersInit /\ [][OrdersNext]_ordersVars

-----------------------------------------------------------------------------
(* Properties.                                                             *)

\* "A buy stays a buy, a sell a sell" (sync.rs): apart from the enqueued synchronisation,
\* nothing done in one office's window gives another office an order, takes one from it or
\* turns one round; what changes there is the price and amount of the office on screen.
OthersKeepTheirOrders ==
    [][queue' = queue =>
        \A o \in Offices \ {shown} : \A w \in Goods :
            /\ Sign(price'[o][w]) = Sign(price[o][w])
            /\ <<price'[o][w], stock'[o][w]>> \in
                   {<<price[o][w], stock[o][w]>>} \cup
                   (IF shown = Nowhere THEN {} ELSE {<<price[shown][w], stock[shown][w]>>})]_ordersVars

\* What CTRL+F1 provisions stays locked and covers the requirement, whatever box the window
\* commits, whatever key is pressed and whatever windows are closed afterwards - the
\* operations enqueued by then carry the amount the office kept when they were enqueued -
\* until the player types another amount, resets the office or copies another one's orders
\* over it, or an operation is executed that was waiting before the key was pressed.
ProvisionsCover ==
    \A c \in covered : c[2] \in locked[c[1]] /\ stock[c[1]][c[2]] >= Required[c[1]][c[2]]
=============================================================================
