--------------------------- MODULE HotkeyScopesMC ---------------------------
(* One key of each class: F1 is claimed by all three groups of trading-qol, *)
(* DEL by the global and the office group, ALT+F4 by the global group       *)
(* only, 1 by the tavern page and PAGE DOWN by ui-tweaks.                   *)
EXTENDS HotkeyScopes

MCOwners == Groups

MCGroupKeys ==
    [global |-> <<"F1", "DEL", "ALT+F4">>, office |-> <<"F1", "DEL">>, dialog |-> <<"F1">>,
     page |-> <<"1">>, tweaks |-> <<"PgDn">>]
=============================================================================
