-------------------------- MODULE RouteTemplatesMC --------------------------
(* Routes a player sets up by hand, for model checking RouteTemplates.     *)
EXTENDS RouteTemplates

buys(town) == [town |-> town, role |-> "buy"]
calls(town) == [town |-> town, role |-> "manual"]

SmallRoutes == {<<buys("Ros"), calls("Ste"), calls("Lue"), calls("Ros")>>}

\* One call at each town there is.
EveryTown == LET towns == Listed(Towns) IN {[i \in DOMAIN towns |-> calls(towns[i])]}
=============================================================================
