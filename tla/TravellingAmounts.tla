------------------------- MODULE TravellingAmounts -------------------------
(***************************************************************************)
(* What the README of src/mod-trading-qol promises about the locked        *)
(* amounts: the player sees one amount per office and ware, a save carries *)
(* the amounts as they are shown, and a load brings back those of the save *)
(* - no store, boxes, windows or sidecar files. A save whose sidecar could *)
(* not be written or read back carries nothing that can be relied on.      *)
(***************************************************************************)
EXTENDS Naturals

CONSTANTS Towns, Wares, BoxMax, Names

VARIABLES
    shown,   \* what the box of an office and ware shows, or would show when opened
    kept,    \* per save, the amounts shown when it was made
    reliable \* the saves that still carry them

vars == <<shown, kept, reliable>>

Amounts == [Towns -> [Wares -> 0 .. BoxMax]]
Nothing == [t \in Towns |-> [w \in Wares |-> 0]]

Init ==
    /\ shown = Nothing
    /\ kept = [n \in Names |-> Nothing]
    /\ reliable = {}

Edit(t, w, v) ==
    /\ shown' = [shown EXCEPT ![t] = [@ EXCEPT ![w] = v]]
    /\ UNCHANGED <<kept, reliable>>

\* The save takes effect in two steps: the old save of the name is given up, then the
\* new one stands, with the amounts shown now.
GiveUp(n) ==
    /\ reliable' = reliable \ {n}
    /\ kept' \in {kept, [kept EXCEPT ![n] = Nothing]}
    /\ UNCHANGED shown

Keep(n) ==
    /\ n \notin reliable
    /\ kept' = [kept EXCEPT ![n] = shown]
    /\ UNCHANGED <<shown, reliable>>

Vouch(n) ==
    /\ kept[n] = shown
    /\ reliable' = reliable \cup {n}
    /\ UNCHANGED <<shown, kept>>

\* Loading a reliable save brings its amounts back; nothing is back when the sidecar
\* cannot be read, the load fails or a new game begins.
Load(n) ==
    /\ n \in reliable
    /\ shown' = kept[n]
    /\ UNCHANGED <<kept, reliable>>

LoadUnreliable(n) ==
    /\ n \notin reliable
    /\ shown' \in Amounts
    /\ UNCHANGED <<kept, reliable>>

Forget ==
    /\ shown' = Nothing
    /\ UNCHANGED <<kept, reliable>>

Next ==
    \/ \E t \in Towns, w \in Wares, v \in 0 .. BoxMax : Edit(t, w, v)
    \/ \E n \in Names : GiveUp(n) \/ Keep(n) \/ Vouch(n) \/ Load(n) \/ LoadUnreliable(n)
    \/ Forget

Spec == Init /\ [][Next]_vars
=============================================================================
