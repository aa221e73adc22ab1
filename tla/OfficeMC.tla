------------------------------- MODULE OfficeMC -------------------------------
(***************************************************************************)
(* What the player sets in windows of the trade: the locked amounts, once  *)
(* with one office and two saves and once with two offices and one save,   *)
(* the administrators' orders of two offices and the goods dialog of a     *)
(* route.  They share no state with one another here: a behaviour runs     *)
(* the one that `component` names.                                         *)
(***************************************************************************)
EXTENDS LockedAmounts, OfficeOrders, GoodsDialog, TLC

VARIABLE component

-----------------------------------------------------------------------------
\* One ware in barrels of two raw units.
MCScaling == [w \in Wares |-> 2]

\* Office orders: two offices, of which one's town produces the ware; 2 raw units make a
\* unit, 2 units cover the requirement.
MCProduced == [A |-> {"grain"}, B |-> {}]
MCSCALING == [grain |-> 2]
MCBuyAmount == [grain |-> 1]
MCRequired == [A |-> [grain |-> 3], B |-> [grain |-> 3]]
MCMaterials == [grain |-> 1]

\* The goods dialog: a route of two stops and two wares, one of them never bought by F1.
MCDefaultOrder == <<"grain", "beer">>
MCValueKey == [grain |-> 2, beer |-> 1]
MCRoute == <<"Home", "Town">>
MCProduction == [Home |-> {"grain"}, Town |-> {"beer"}]
MCDemand == [Home |-> [grain |-> 0, beer |-> 1], Town |-> [grain |-> 1, beer |-> 0]]

-----------------------------------------------------------------------------
MCInit ==
    /\ component \in {"one office", "one save", "orders", "dialog"}
    /\ Init /\ town = "A" /\ target = "s1"
    /\ OrdersInit
    /\ DialogInit

MCNext ==
    \/ component = "one office" /\ Next /\ town' = town /\ UNCHANGED <<component, ordersVars, dialogVars>>
    \/ component = "one save" /\ Next /\ target' = target /\ UNCHANGED <<component, ordersVars, dialogVars>>
    \/ component = "orders" /\ OrdersNext /\ UNCHANGED <<component, vars, dialogVars>>
    \/ component = "dialog" /\ DialogNext /\ UNCHANGED <<component, vars, ordersVars>>

MCSpec == MCInit /\ [][MCNext]_<<component, vars, ordersVars, dialogVars>>
=============================================================================
