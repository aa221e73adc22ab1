--------------------------- MODULE LockedAmounts ---------------------------
(***************************************************************************)
(* The locked amounts of trading-qol: the store and the office window's    *)
(* boxes (src/mod-trading-qol/src/locked_amounts.rs) and the sidecar file  *)
(* that carries them beside a save (src/mod-trading-qol/src/sidecar.rs).   *)
(*                                                                         *)
(* Everything runs on the game's main thread. The save handler is split    *)
(* where files change, so that the process can die in between; the load    *)
(* routine changes no file and is one step. Files survive a crash, the     *)
(* store and the boxes do not. Amounts are raw units in the store and in   *)
(* the sidecar, box units (raw \div Scaling) in the boxes.                 *)
(***************************************************************************)
EXTENDS Naturals

CONSTANTS
    Towns,
    Wares,
    Scaling, \* raw units per box unit of a ware
    BoxMax,  \* the largest value a box takes (OFFICE_BOX_MAX)
    Names,   \* save names, the autosave's among them
    None     \* no path captured

ASSUME AmountsAssumption ==
    /\ Scaling \in [Wares -> Nat \ {0}]
    /\ BoxMax \in Nat
    /\ None \notin Names

VARIABLES
    store,     \* STORE: the towns with amounts, and their amounts
    boxes,     \* the number boxes' values
    town,      \* the town whose boxes are on screen
    attached,  \* the office window is open and the boxes are in the scene
    SAVE_PATH, \* the .pat the game opened inside a bracket
    phase,     \* "menu", "play", or inside the save handler: "saving", "writing", "returned"
    target,    \* the name the save in progress writes to
    pat,       \* per name, the game's own file: "none", "torn" or "whole"
    sidecar,   \* per name, the .qol file beside it
    carried,   \* history: the store as it was when the save was made
    paired,    \* history: the saves whose sidecar was written with them
    cutRead    \* history: a sidecar cut short has been read

memory == <<store, boxes, town, attached>>
files == <<pat, sidecar>>
history == <<carried, paired>>
vars == <<store, boxes, town, attached, SAVE_PATH, phase, target, pat, sidecar, carried, paired, cutRead>>

Zero == [w \in Wares |-> 0]
IsRows(rows) == DOMAIN rows \subseteq Towns /\ rows \in [DOMAIN rows -> [Wares -> Nat]]
NoRows == [t \in {} |-> Zero]

-----------------------------------------------------------------------------
(* The store.                                                              *)

amounts_of(s, t) == IF t \in DOMAIN s THEN s[t] ELSE Zero

\* All zero forgets the town.
set_amounts(s, t, amounts) ==
    IF amounts = Zero
    THEN [u \in DOMAIN s \ {t} |-> s[u]]
    ELSE [u \in DOMAIN s \cup {t} |-> IF u = t THEN amounts ELSE s[u]]

\* The boxes' values for a town's amounts; the box clamps what it is given.
load(s, t) ==
    [w \in Wares |->
        LET value == amounts_of(s, t)[w] \div Scaling[w] IN IF value <= BoxMax THEN value ELSE BoxMax]

\* The boxes back into the store, in raw units.
save(s, t) == set_amounts(s, t, [w \in Wares |-> boxes[w] * Scaling[w]])

\* Faulty variant: the open window is left out.
flush_open_windowNever(s) == s

flush_open_window(s) == IF attached THEN save(s, town) ELSE s

\* Faulty variant: the stock may be less than the amount.
takeableUnchecked(s, t, w, stock, vanilla) ==
    IF amounts_of(s, t)[w] = 0 THEN vanilla ELSE stock - amounts_of(s, t)[w]

\* takeable_hook for a locked ware of an office with an administrator: what a route
\* ship may take of the stock. With no amount the game's own answer stands.
takeable(s, t, w, stock, vanilla) ==
    LET amount == amounts_of(s, t)[w]
    IN  IF amount = 0 THEN vanilla ELSE IF stock <= amount THEN 0 ELSE stock - amount

-----------------------------------------------------------------------------
(* The office window.                                                      *)

on_open(t) ==
    /\ phase = "play"
    /\ ~attached
    /\ attached' = TRUE
    /\ town' = t
    /\ boxes' = load(store, t)
    /\ UNCHANGED <<store, SAVE_PATH, phase, target, files, history, cutRead>>

\* The player types into a box.
Edit(w, v) ==
    /\ phase = "play"
    /\ attached
    /\ boxes' = [boxes EXCEPT ![w] = v]
    /\ UNCHANGED <<store, town, attached, SAVE_PATH, phase, target, files, history, cutRead>>

on_close ==
    /\ phase = "play"
    /\ attached
    /\ store' = save(store, town)
    /\ attached' = FALSE
    /\ UNCHANGED <<boxes, town, SAVE_PATH, phase, target, files, history, cutRead>>

-----------------------------------------------------------------------------
(* Saving.                                                                 *)

\* Up to the game's handler.
save_hook(n) ==
    /\ phase = "play"
    /\ phase' = "saving"
    /\ target' = n
    /\ SAVE_PATH' = None
    /\ store' = flush_open_window(store)
    /\ UNCHANGED <<boxes, town, attached, files, history, cutRead>>

\* The handler leaves the save to another player, and the bracket writes nothing.
Deferred ==
    /\ phase = "saving"
    /\ phase' = "play"
    /\ SAVE_PATH' = None
    /\ UNCHANGED <<memory, target, files, history, cutRead>>

\* CFile::Open of the .pat fails: the handler still returns 0.
OpenFails ==
    /\ phase = "saving"
    /\ phase' = "returned"
    /\ UNCHANGED <<memory, SAVE_PATH, target, files, history, cutRead>>

\* CFile::Open succeeds, which truncates the file: the old save is gone.
file_open_hook ==
    /\ phase = "saving"
    /\ phase' = "writing"
    /\ SAVE_PATH' = target
    /\ pat' = [pat EXCEPT ![target] = "torn"]
    /\ paired' = paired \ {target}
    /\ carried' = [carried EXCEPT ![target] = NoRows]
    /\ UNCHANGED <<memory, target, sidecar, cutRead>>

\* The handler serialises and writes the world, or fails; it returns 0 either way.
GameWrites(written) ==
    /\ phase = "writing"
    /\ phase' = "returned"
    /\ IF written
       THEN pat' = [pat EXCEPT ![target] = "whole"] /\ carried' = [carried EXCEPT ![target] = store]
       ELSE UNCHANGED <<pat, carried>>
    /\ UNCHANGED <<memory, SAVE_PATH, target, sidecar, paired, cutRead>>

\* An empty store removes the sidecar, another is written out. Either may fail; a failed
\* write leaves the old file or one cut short.
sidecar_contents(old, result) ==
    IF result = "failed"
    THEN old
    ELSE IF store = NoRows
         THEN [kind |-> "missing", rows |-> NoRows]
         ELSE [kind |-> IF result = "done" THEN "whole" ELSE "cut", rows |-> store]

\* Back in the bracket with a captured path.
write_sidecar(result) ==
    /\ phase = "returned"
    /\ SAVE_PATH # None
    /\ phase' = "play"
    /\ SAVE_PATH' = None
    /\ result = "cut" => store # NoRows
    /\ sidecar' = [sidecar EXCEPT ![SAVE_PATH] = sidecar_contents(@, result)]
    /\ paired' = IF result = "done" /\ SAVE_PATH = target /\ pat[target] = "whole"
                 THEN paired \cup {target}
                 ELSE paired
    /\ UNCHANGED <<memory, target, pat, carried, cutRead>>

NothingWritten ==
    /\ phase = "returned"
    /\ SAVE_PATH = None
    /\ phase' = "play"
    /\ UNCHANGED <<memory, SAVE_PATH, target, files, history, cutRead>>

-----------------------------------------------------------------------------
(* Loading. The settings screen closes the office window before it opens,  *)
(* and the menu has none.                                                  *)

\* What a file cut short may hold: some of the lines, an amount's last digits missing.
Shortened(rows) ==
    LET amounts == UNION {0 .. rows[t][w] : t \in DOMAIN rows, w \in Wares}
    IN  {short \in UNION {[D -> [Wares -> amounts]] : D \in SUBSET DOMAIN rows} :
        \A t \in DOMAIN short : short[t] # Zero /\ \A w \in Wares : short[t][w] <= rows[t][w]}

\* A sidecar that is missing or cannot be read or parsed leaves the store empty.
read_sidecar(sc) ==
    CASE sc.kind = "missing" -> {NoRows}
      [] sc.kind = "whole"   -> {sc.rows}
      [] sc.kind = "cut"     -> Shortened(sc.rows)

Loadable == phase \in {"menu", "play"} /\ ~attached

\* Faulty variant: the store is emptied after the sidecar has been read.
load_hookClearingLast(n) ==
    /\ Loadable
    /\ pat[n] = "whole"
    /\ SAVE_PATH' = None
    /\ store' = NoRows
    /\ phase' = "play"
    /\ cutRead' = (cutRead \/ sidecar[n].kind = "cut")
    /\ UNCHANGED <<boxes, town, attached, target, files, history>>

\* The load routine found and loaded the save; the store is emptied and refilled.
load_hook(n) ==
    /\ Loadable
    /\ pat[n] = "whole"
    /\ SAVE_PATH' = None
    /\ store' \in read_sidecar(sidecar[n])
    /\ phase' = "play"
    /\ cutRead' = (cutRead \/ sidecar[n].kind = "cut")
    /\ UNCHANGED <<boxes, town, attached, target, files, history>>

\* The same, but the sidecar cannot be read (a new game is a load with none beside it).
LoadsWithout(n) ==
    /\ Loadable
    /\ n # None => pat[n] = "whole"
    /\ SAVE_PATH' = None
    /\ store' = NoRows
    /\ phase' = "play"
    /\ UNCHANGED <<boxes, town, attached, target, files, history, cutRead>>

\* The load fails, with or without having found the file: a path it captured stays. The
\* game falls back to its menu or goes on with the world it has.
LoadFails(n) ==
    /\ Loadable
    /\ SAVE_PATH' = IF pat[n] = "none" THEN None ELSE n
    /\ store' = NoRows
    /\ phase' \in {"menu", phase}
    /\ UNCHANGED <<boxes, town, attached, target, files, history, cutRead>>

-----------------------------------------------------------------------------
(* The world around.                                                       *)

\* The save dialog deletes the .pat and its companion, not the sidecar.
DeleteSave(n) ==
    /\ Loadable
    /\ pat' = [pat EXCEPT ![n] = "none"]
    /\ paired' = paired \ {n}
    /\ UNCHANGED <<memory, SAVE_PATH, phase, target, sidecar, carried, cutRead>>

\* The process ends, at any point, and the program is started again.
Restart ==
    /\ store' = NoRows
    /\ attached' = FALSE
    /\ boxes' = Zero
    /\ SAVE_PATH' = None
    /\ phase' = "menu"
    /\ UNCHANGED <<town, target, files, history, cutRead>>

Init ==
    /\ store = NoRows
    /\ boxes = Zero
    /\ town \in Towns
    /\ attached = FALSE
    /\ SAVE_PATH = None
    /\ phase = "menu"
    /\ target \in Names
    /\ pat = [n \in Names |-> "none"]
    /\ sidecar = [n \in Names |-> [kind |-> "missing", rows |-> NoRows]]
    /\ carried = [n \in Names |-> NoRows]
    /\ paired = {}
    /\ cutRead = FALSE

Window ==
    \/ \E t \in Towns : on_open(t)
    \/ \E w \in Wares, v \in 0 .. BoxMax : Edit(w, v)
    \/ on_close

Saving ==
    \/ \E n \in Names : save_hook(n)
    \/ Deferred
    \/ OpenFails
    \/ file_open_hook
    \/ \E written \in BOOLEAN : GameWrites(written)
    \/ \E result \in {"done", "failed", "cut"} : write_sidecar(result)
    \/ NothingWritten

Loading ==
    \/ \E n \in Names : load_hook(n) \/ LoadFails(n)
    \/ \E n \in Names \cup {None} : LoadsWithout(n)

Next ==
    \/ Window
    \/ Saving
    \/ Loading
    \/ \E n \in Names : DeleteSave(n)
    \/ Restart

Spec == Init /\ [][Next]_vars

-----------------------------------------------------------------------------
(* Properties.                                                             *)

TypeOK ==
    /\ IsRows(store)
    /\ boxes \in [Wares -> 0 .. BoxMax]
    /\ town \in Towns
    /\ attached \in BOOLEAN
    /\ SAVE_PATH \in Names \cup {None}
    /\ phase \in {"menu", "play", "saving", "writing", "returned"}
    /\ target \in Names
    /\ pat \in [Names -> {"none", "torn", "whole"}]
    /\ DOMAIN sidecar = Names /\ DOMAIN carried = Names
    /\ \A n \in Names : IsRows(sidecar[n].rows) /\ sidecar[n].kind \in {"missing", "whole", "cut"}
    /\ \A n \in Names : IsRows(carried[n])
    /\ paired \subseteq Names
    /\ cutRead \in BOOLEAN

\* A town whose amounts have all been set back to 0 is forgotten, so that a save with
\* nothing locked removes its sidecar instead of writing an empty one.
NoZeroRows == \A t \in DOMAIN store : store[t] # Zero

\* A save made together with its sidecar keeps carrying the amounts it was made with,
\* whatever else is saved, fails, is deleted or crashes in between.
SavesKeepAmounts ==
    \A n \in paired : pat[n] = "whole" /\ read_sidecar(sidecar[n]) = {carried[n]}

\* Loading such a save brings exactly those amounts back.
LoadRestores ==
    [][\A n \in paired : load_hook(n) => store' = carried[n]]_vars

\* A sidecar is only ever touched by the save it belongs to, and only once the game has
\* opened that save's file for writing, which ends what it was paired with: a path captured
\* earlier is never written to.
OnlyBesideTheSave ==
    [][\A n \in Names : sidecar'[n] # sidecar[n] => n = target /\ phase = "returned" /\ n \notin paired]_vars

\* A route ship leaves exactly what the (closed) window would show for the ware, or the
\* whole stock if that is less: the raw units enforced are the box units displayed. A box
\* showing 0 leaves the game's own rule standing.
Stocks == 0 .. BoxMax * 4

ShipsLeaveWhatTheBoxShows ==
    ~cutRead => \A t \in Towns, w \in Wares, stock \in Stocks : \A vanilla \in 0 .. stock :
        LET shown == load(store, t)[w] * Scaling[w]
        IN  takeable(store, t, w, stock, vanilla) =
                IF shown = 0 THEN vanilla ELSE IF stock <= shown THEN 0 ELSE stock - shown

\* Store, window, save brackets and sidecars implement amounts that travel with the save
\* (TravellingAmounts): what is shown is the store with the open window's boxes on top.
Shown == [t \in Towns |-> IF attached /\ t = town THEN boxes ELSE load(store, t)]

Travelling == INSTANCE TravellingAmounts WITH
    shown <- Shown,
    kept <- [n \in Names |-> [t \in Towns |-> load(carried[n], t)]],
    reliable <- paired
TravellingSpec == Travelling!Spec
=============================================================================
