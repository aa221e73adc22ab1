---------------------------- MODULE OfficeProofs ----------------------------
(***************************************************************************)
(* Proofs about what the player sets in the windows of the trade, for all  *)
(* offices, wares, box sizes, save names, price levels and routes.         *)
(*                                                                         *)
(* LockedAmounts: a save keeps the amounts it was made with, a load brings *)
(* them back, a sidecar is touched only by the save it belongs to, and all *)
(* of it implements amounts that travel with the save. The argument is     *)
(* about the captured path. Inside the save handler it is either nothing   *)
(* or the save in progress - whatever a failed load left in it was         *)
(* forgotten when the handler was entered - and from the moment it is      *)
(* captured until the sidecar is written, the save of that name counts as  *)
(* unpaired and the store is the one the game's file was written with.     *)
(*                                                                         *)
(* OfficeOrders: a provisioned amount is one of full units, which a box    *)
(* shows and commits without losing any.                                   *)
(*                                                                         *)
(* GoodsDialog: whatever the dialog had left to commit or to clean up is   *)
(* about slots that are not instructions, or is the player's own edit.     *)
(***************************************************************************)
EXTENDS LockedAmounts, OfficeOrders, GoodsDialog, FiniteSetTheorems, TLAPS

Shapes ==
    /\ SAVE_PATH \in Names \cup {None}
    /\ target \in Names
    /\ pat \in [Names -> {"none", "torn", "whole"}]
    /\ DOMAIN sidecar = Names /\ DOMAIN carried = Names
    /\ paired \subseteq Names
    /\ phase \in {"menu", "play", "saving", "writing", "returned"}

\* What the captured path is at each point of the save handler.
PathIsTheSave ==
    /\ phase = "saving" => SAVE_PATH = None
    /\ phase = "writing" => SAVE_PATH = target /\ pat[target] = "torn"
    /\ phase = "returned" /\ SAVE_PATH # None => SAVE_PATH = target

\* While the path is held, the save is not vouched for, and what will be written beside
\* it is what it was made with.
WritingWhatWasSaved ==
    /\ phase = "writing" => target \notin paired
    /\ phase = "returned" /\ SAVE_PATH # None =>
         /\ target \notin paired
         /\ pat[target] = "whole" => carried[target] = store

IInv == Shapes /\ PathIsTheSave /\ WritingWhatWasSaved /\ SavesKeepAmounts

LEMMA InitInv == Init => IInv
BY AmountsAssumption DEF Init, IInv, Shapes, PathIsTheSave, WritingWhatWasSaved, SavesKeepAmounts

\* The steps that leave the files alone: SavesKeepAmounts cannot be disturbed.
LEMMA QuietStepsInv ==
    ASSUME IInv, UNCHANGED <<files, history>>, phase' \in {"menu", "play"}, target' = target,
           SAVE_PATH' \in Names \cup {None}
    PROVE  IInv'
BY DEF IInv, Shapes, PathIsTheSave, WritingWhatWasSaved, SavesKeepAmounts, files, history

LEMMA SaveEntryInv ==
    ASSUME IInv, NEW n \in Names, save_hook(n)
    PROVE  IInv'
BY DEF save_hook, IInv, Shapes, PathIsTheSave, WritingWhatWasSaved, SavesKeepAmounts, files, history

LEMMA FileOpenInv ==
    ASSUME IInv, file_open_hook
    PROVE  IInv'
<1>1. Shapes' /\ PathIsTheSave' /\ WritingWhatWasSaved'
  BY AmountsAssumption DEF file_open_hook, IInv, Shapes, PathIsTheSave, WritingWhatWasSaved
<1>2. ASSUME NEW n \in paired'
      PROVE  pat'[n] = "whole" /\ read_sidecar(sidecar'[n]) = {carried'[n]}
  <2>1. n \in paired /\ n # target /\ n \in Names
    BY <1>2 DEF file_open_hook, IInv, Shapes
  <2>2. pat'[n] = pat[n] /\ sidecar'[n] = sidecar[n] /\ carried'[n] = carried[n]
    BY <2>1 DEF file_open_hook, IInv, Shapes
  <2> QED
    BY <2>1, <2>2 DEF IInv, SavesKeepAmounts
<1> QED
  BY <1>1, <1>2 DEF IInv, SavesKeepAmounts

LEMMA GameWritesInv ==
    ASSUME IInv, NEW written \in BOOLEAN, GameWrites(written)
    PROVE  IInv'
<1>1. Shapes' /\ PathIsTheSave' /\ WritingWhatWasSaved'
  BY DEF GameWrites, memory, IInv, Shapes, PathIsTheSave, WritingWhatWasSaved
<1>2. ASSUME NEW n \in paired'
      PROVE  pat'[n] = "whole" /\ read_sidecar(sidecar'[n]) = {carried'[n]}
  <2>1. n \in paired /\ n # target /\ n \in Names
    BY <1>2 DEF GameWrites, IInv, Shapes, WritingWhatWasSaved
  <2>2. pat'[n] = pat[n] /\ sidecar'[n] = sidecar[n] /\ carried'[n] = carried[n]
    BY <2>1 DEF GameWrites, IInv, Shapes
  <2> QED
    BY <2>1, <2>2 DEF IInv, SavesKeepAmounts
<1> QED
  BY <1>1, <1>2 DEF IInv, SavesKeepAmounts

LEMMA WriteSidecarInv ==
    ASSUME IInv, NEW result \in {"done", "failed", "cut"}, write_sidecar(result)
    PROVE  IInv'
<1>1. SAVE_PATH = target /\ target \in Names /\ target \notin paired
  BY DEF write_sidecar, IInv, Shapes, PathIsTheSave, WritingWhatWasSaved
<1>2. Shapes' /\ PathIsTheSave' /\ WritingWhatWasSaved'
  BY <1>1, AmountsAssumption DEF write_sidecar, IInv, Shapes, PathIsTheSave, WritingWhatWasSaved
<1>3. ASSUME NEW n \in paired', n # target
      PROVE  pat'[n] = "whole" /\ read_sidecar(sidecar'[n]) = {carried'[n]}
  <2>1. n \in paired /\ n \in Names
    BY <1>3 DEF write_sidecar, IInv, Shapes
  <2>2. pat'[n] = pat[n] /\ sidecar'[n] = sidecar[n] /\ carried'[n] = carried[n]
    BY <1>1, <1>3, <2>1 DEF write_sidecar, IInv, Shapes
  <2> QED
    BY <2>1, <2>2 DEF IInv, SavesKeepAmounts
<1>4. ASSUME target \in paired'
      PROVE  pat'[target] = "whole" /\ read_sidecar(sidecar'[target]) = {carried'[target]}
  <2>1. result = "done" /\ pat[target] = "whole" /\ carried[target] = store
    BY <1>1, <1>4 DEF write_sidecar, IInv, WritingWhatWasSaved
  <2>2. pat'[target] = "whole" /\ carried'[target] = store
    BY <2>1 DEF write_sidecar
  <2>3. sidecar'[target] = sidecar_contents(sidecar[target], result)
    BY <1>1 DEF write_sidecar, IInv, Shapes
  <2>4. CASE store = NoRows
    <3>1. sidecar'[target] = [kind |-> "missing", rows |-> NoRows]
      BY <2>1, <2>3, <2>4 DEF sidecar_contents
    <3>2. read_sidecar(sidecar'[target]) = {NoRows}
      BY <3>1 DEF read_sidecar
    <3> QED
      BY <2>2, <2>4, <3>2
  <2>5. CASE store # NoRows
    <3>1. sidecar'[target] = [kind |-> "whole", rows |-> store]
      BY <2>1, <2>3, <2>5 DEF sidecar_contents
    <3>2. read_sidecar(sidecar'[target]) = {store}
      BY <3>1 DEF read_sidecar
    <3> QED
      BY <2>2, <3>2
  <2> QED
    BY <2>4, <2>5
<1>5. SavesKeepAmounts'
  BY <1>3, <1>4 DEF SavesKeepAmounts
<1> QED
  BY <1>2, <1>5 DEF IInv

LEMMA DeleteInv ==
    ASSUME IInv, NEW n \in Names, DeleteSave(n)
    PROVE  IInv'
<1>1. Shapes' /\ PathIsTheSave' /\ WritingWhatWasSaved'
  BY DEF DeleteSave, Loadable, memory, IInv, Shapes, PathIsTheSave, WritingWhatWasSaved
<1>2. ASSUME NEW m \in paired'
      PROVE  pat'[m] = "whole" /\ read_sidecar(sidecar'[m]) = {carried'[m]}
  <2>1. m \in paired /\ m # n /\ m \in Names
    BY <1>2 DEF DeleteSave, IInv, Shapes
  <2>2. pat'[m] = pat[m] /\ sidecar'[m] = sidecar[m] /\ carried'[m] = carried[m]
    BY <2>1 DEF DeleteSave, IInv, Shapes
  <2> QED
    BY <2>1, <2>2 DEF IInv, SavesKeepAmounts
<1> QED
  BY <1>1, <1>2 DEF IInv, SavesKeepAmounts

\* The handler's ways out and in that touch neither a file nor the store.
LEMMA OpenFailsInv ==
    ASSUME IInv, OpenFails
    PROVE  IInv'
BY DEF OpenFails, memory, IInv, Shapes, PathIsTheSave, WritingWhatWasSaved, SavesKeepAmounts, files, history

LEMMA NextInv == IInv /\ [Next]_vars => IInv'
<1> SUFFICES ASSUME IInv, [Next]_vars
             PROVE  IInv'
  OBVIOUS
<1>1. CASE Window
  <2>1. UNCHANGED <<files, history>> /\ phase' \in {"menu", "play"} /\ target' = target /\ SAVE_PATH' = SAVE_PATH
    BY <1>1 DEF Window, on_open, Edit, on_close
  <2> QED
    BY <2>1, QuietStepsInv DEF IInv, Shapes
<1>2. CASE Saving
  <2>1. CASE \E n \in Names : save_hook(n)
    BY <2>1, SaveEntryInv
  <2>2. CASE Deferred
    BY <2>2, QuietStepsInv DEF Deferred
  <2>3. CASE OpenFails
    BY <2>3, OpenFailsInv
  <2>4. CASE file_open_hook
    BY <2>4, FileOpenInv
  <2>5. CASE \E written \in BOOLEAN : GameWrites(written)
    BY <2>5, GameWritesInv
  <2>6. CASE \E result \in {"done", "failed", "cut"} : write_sidecar(result)
    BY <2>6, WriteSidecarInv
  <2>7. CASE NothingWritten
    <3>1. UNCHANGED <<files, history>> /\ phase' \in {"menu", "play"} /\ target' = target /\ SAVE_PATH' = SAVE_PATH
      BY <2>7 DEF NothingWritten
    <3> QED
      BY <3>1, QuietStepsInv DEF IInv, Shapes
  <2> QED
    BY <1>2, <2>1, <2>2, <2>3, <2>4, <2>5, <2>6, <2>7 DEF Saving
<1>3. CASE Loading
  <2>1. /\ UNCHANGED <<files, history>> /\ phase' \in {"menu", "play"} /\ target' = target
        /\ SAVE_PATH' \in Names \cup {None}
    BY <1>3 DEF Loading, Loadable, load_hook, LoadsWithout, LoadFails
  <2> QED
    BY <2>1, QuietStepsInv
<1>4. CASE \E n \in Names : DeleteSave(n)
  BY <1>4, DeleteInv
<1>5. CASE Restart
  BY <1>5, QuietStepsInv DEF Restart
<1>6. CASE UNCHANGED vars
  BY <1>6 DEF vars, IInv, Shapes, PathIsTheSave, WritingWhatWasSaved, SavesKeepAmounts
<1> QED
  BY <1>1, <1>2, <1>3, <1>4, <1>5, <1>6 DEF Next

LEMMA Invariance == Spec => []IInv
<1>1. Init => IInv
  BY InitInv
<1>2. IInv /\ [Next]_vars => IInv'
  BY NextInv
<1> QED
  BY <1>1, <1>2, PTL DEF Spec

-----------------------------------------------------------------------------
\* A save made together with its sidecar carries its amounts until it is overwritten or
\* deleted: for any number of saves, offices and wares.
THEOREM SavesAreKept == Spec => []SavesKeepAmounts
<1>1. IInv => SavesKeepAmounts
  BY DEF IInv
<1> QED
  BY <1>1, Invariance, PTL

\* Loading it brings exactly those amounts back.
THEOREM LoadsRestore == Spec => LoadRestores
<1>1. IInv /\ [Next]_vars => [\A n \in paired : load_hook(n) => store' = carried[n]]_vars
  <2> SUFFICES ASSUME IInv, NEW n \in paired, load_hook(n)
               PROVE  store' = carried[n]
    OBVIOUS
  <2>1. read_sidecar(sidecar[n]) = {carried[n]}
    BY DEF IInv, SavesKeepAmounts
  <2> QED
    BY <2>1 DEF load_hook
<1> QED
  BY <1>1, Invariance, PTL DEF Spec, LoadRestores

\* No sidecar but that of the save being made is ever written or removed.
THEOREM SidecarsStayWithTheirSaves == Spec => OnlyBesideTheSave
<1>1. IInv /\ [Next]_vars =>
        [\A n \in Names : sidecar'[n] # sidecar[n] => n = target /\ phase = "returned" /\ n \notin paired]_vars
  <2> SUFFICES ASSUME IInv, Next, NEW n \in Names, sidecar'[n] # sidecar[n]
               PROVE  n = target /\ phase = "returned" /\ n \notin paired
    BY DEF vars
  <2>1. PICK result \in {"done", "failed", "cut"} : write_sidecar(result)
    BY DEF Next, Window, Saving, Loading, on_open, Edit, on_close, save_hook, Deferred, OpenFails,
       file_open_hook, GameWrites, NothingWritten, load_hook, LoadsWithout, LoadFails, DeleteSave, Restart, files
  <2>2. SAVE_PATH = target /\ phase = "returned" /\ target \notin paired
    BY <2>1 DEF write_sidecar, IInv, PathIsTheSave, WritingWhatWasSaved
  <2>3. n = SAVE_PATH
    BY <2>1, <2>2 DEF write_sidecar, IInv, Shapes
  <2> QED
    BY <2>2, <2>3
<1> QED
  BY <1>1, Invariance, PTL DEF Spec, OnlyBesideTheSave

-----------------------------------------------------------------------------
(* Store, boxes and sidecars implement TravellingAmounts.                  *)

\* Raw units of whole box units are those box units.
LEMMA WholeUnits ==
    ASSUME NEW b \in Nat, NEW s \in Nat \ {0}
    PROVE  (b * s) \div s = b
<1> DEFINE q == (b * s) \div s
<1>1. b * s \in Nat
  OBVIOUS
<1>2. q \in Int /\ s * q <= b * s /\ b * s < s * q + s
  BY <1>1
<1> HIDE DEF q
<1>3. q < b => s * q + s <= b * s
  <2> SUFFICES ASSUME q < b PROVE s * q + s <= b * s
    OBVIOUS
  <2>1. b - q - 1 \in Nat
    BY <1>2
  <2>2. s * (b - q - 1) >= 0
    BY <2>1
  <2> QED
    BY <1>2, <2>2
<1>4. b < q => b * s < s * q
  <2> SUFFICES ASSUME b < q PROVE b * s < s * q
    OBVIOUS
  <2>1. q - b \in Nat \ {0}
    BY <1>2
  <2>2. s * (q - b) > 0
    BY <2>1
  <2> QED
    BY <1>2, <2>2
<1>5. q = b
  BY <1>2, <1>3, <1>4
<1> QED
  BY <1>5 DEF q

Box == 0 .. BoxMax

\* What the boxes hold, and that the open window has been flushed inside a save.
WindowInv ==
    /\ IsRows(store)
    /\ boxes \in [Wares -> Box]
    /\ town \in Towns
    /\ attached \in BOOLEAN
    /\ \A n \in Names : IsRows(sidecar[n].rows) /\ sidecar[n].kind \in {"missing", "whole", "cut"}
    /\ \A n \in Names : IsRows(carried[n])
    /\ phase \in {"saving", "writing", "returned"} /\ attached => load(store, town) = boxes

LEMMA NoRowsFacts ==
    IsRows(NoRows) /\ \A t \in Towns : load(NoRows, t) = [w \in Wares |-> 0]
<1>1. IsRows(NoRows)
  BY DEF IsRows, NoRows
<1>2. ASSUME NEW t \in Towns, NEW w \in Wares
      PROVE  load(NoRows, t)[w] = 0
  <2>1. Scaling[w] \in Nat \ {0} /\ BoxMax \in Nat
    BY AmountsAssumption
  <2>2. amounts_of(NoRows, t)[w] = 0
    BY DEF amounts_of, NoRows, Zero
  <2>3. 0 \div Scaling[w] = 0
    BY <2>1, WholeUnits
  <2> QED
    BY <2>1, <2>2, <2>3 DEF load
<1> QED
  BY <1>1, <1>2 DEF load

LEMMA LoadType ==
    ASSUME NEW s, IsRows(s), NEW t \in Towns
    PROVE  amounts_of(s, t) \in [Wares -> Nat] /\ load(s, t) \in [Wares -> Box]
<1>1. amounts_of(s, t) \in [Wares -> Nat]
  BY DEF IsRows, amounts_of, Zero
<1>2. ASSUME NEW w \in Wares
      PROVE  load(s, t)[w] \in Box
  <2>1. Scaling[w] \in Nat \ {0} /\ BoxMax \in Nat /\ amounts_of(s, t)[w] \in Nat
    BY <1>1, AmountsAssumption
  <2>2. amounts_of(s, t)[w] \div Scaling[w] \in Nat
    BY <2>1
  <2> QED
    BY <2>1, <2>2 DEF load, Box
<1> QED
  BY <1>1, <1>2 DEF load

\* Saving a window's boxes: its town shows them, the others what they showed.
LEMMA SaveFacts ==
    ASSUME WindowInv, NEW t \in Towns
    PROVE  /\ IsRows(save(store, t))
           /\ load(save(store, t), t) = boxes
           /\ \A u \in Towns \ {t} : amounts_of(save(store, t), u) = amounts_of(store, u)
           /\ amounts_of(save(store, t), t) = [w \in Wares |-> boxes[w] * Scaling[w]]
<1> DEFINE amounts == [w \in Wares |-> boxes[w] * Scaling[w]]
<1>1. amounts \in [Wares -> Nat]
  BY AmountsAssumption DEF WindowInv, Box
<1>2. save(store, t) = set_amounts(store, t, amounts)
  BY DEF save
<1> HIDE DEF amounts
<1>3. /\ IsRows(save(store, t))
      /\ \A u \in Towns \ {t} : amounts_of(save(store, t), u) = amounts_of(store, u)
      /\ amounts_of(save(store, t), t) = amounts
  <2>1. CASE amounts = Zero
    BY <1>2, <2>1 DEF set_amounts, WindowInv, IsRows, amounts_of
  <2>2. CASE amounts # Zero
    <3>1. save(store, t) = [u \in DOMAIN store \cup {t} |-> IF u = t THEN amounts ELSE store[u]]
      BY <1>2, <2>2 DEF set_amounts
    <3> QED
      BY <1>1, <3>1 DEF WindowInv, IsRows, amounts_of
  <2> QED
    BY <2>1, <2>2
<1>4. ASSUME NEW w \in Wares
      PROVE  load(save(store, t), t)[w] = boxes[w]
  <2>1. boxes[w] \in Nat /\ boxes[w] <= BoxMax /\ Scaling[w] \in Nat \ {0}
    BY AmountsAssumption DEF WindowInv, Box
  <2>2. amounts_of(save(store, t), t)[w] \div Scaling[w] = boxes[w]
    BY <1>3, <2>1, WholeUnits DEF amounts
  <2> QED
    BY <2>1, <2>2 DEF load
<1>5. load(save(store, t), t) = boxes
  BY <1>4 DEF load, WindowInv
<1> QED
  BY <1>3, <1>5 DEF amounts

\* What is read back from a sidecar are rows.
LEMMA ReadRows ==
    ASSUME WindowInv, NEW n \in Names, NEW rows \in read_sidecar(sidecar[n])
    PROVE  IsRows(rows)
<1>1. IsRows(sidecar[n].rows) /\ sidecar[n].kind \in {"missing", "whole", "cut"}
  BY DEF WindowInv
<1>2. CASE sidecar[n].kind \in {"missing", "whole"}
  BY <1>1, <1>2, NoRowsFacts DEF read_sidecar
<1>3. CASE sidecar[n].kind = "cut"
  <2> DEFINE old == sidecar[n].rows
             amounts == UNION {0 .. old[t][w] : t \in DOMAIN old, w \in Wares}
  <2>1. rows \in Shortened(old)
    BY <1>3 DEF read_sidecar
  <2>2. amounts \subseteq Nat
    BY <1>1 DEF IsRows
  <2>3. rows \in UNION {[D -> [Wares -> amounts]] : D \in SUBSET DOMAIN old}
    BY <2>1 DEF Shortened
  <2> HIDE DEF amounts
  <2>4. PICK D \in SUBSET DOMAIN old : rows \in [D -> [Wares -> amounts]]
    BY <2>3
  <2>5. DOMAIN rows = D /\ D \subseteq Towns /\ \A t \in D : rows[t] \in [Wares -> Nat]
    BY <1>1, <2>2, <2>4 DEF IsRows
  <2> QED
    BY <2>4, <2>5 DEF IsRows
<1> QED
  BY <1>1, <1>2, <1>3

LEMMA WindowStep == IInv /\ WindowInv /\ [Next]_vars => WindowInv'
<1> SUFFICES ASSUME IInv, WindowInv, [Next]_vars
             PROVE  WindowInv'
  OBVIOUS
<1>0. /\ target \in Names /\ DOMAIN sidecar = Names /\ DOMAIN carried = Names /\ SAVE_PATH \in Names \cup {None}
      /\ Zero \in [Wares -> Box]
  BY AmountsAssumption DEF IInv, Shapes, Zero, Box
<1>1. ASSUME NEW t \in Towns, on_open(t)
      PROVE  WindowInv'
  BY <1>1, LoadType DEF on_open, WindowInv, files, history
<1>2. ASSUME NEW w \in Wares, NEW v \in 0 .. BoxMax, Edit(w, v)
      PROVE  WindowInv'
  BY <1>2 DEF Edit, WindowInv, files, history, Box
<1>3. CASE on_close
  <2>1. IsRows(store')
    BY <1>3, SaveFacts DEF on_close, WindowInv
  <2> QED
    BY <1>3, <2>1 DEF on_close, WindowInv, files, history
<1>4. ASSUME NEW n \in Names, save_hook(n)
      PROVE  WindowInv'
  <2>1. IsRows(store') /\ (attached => load(store', town) = boxes)
    BY <1>4, SaveFacts DEF save_hook, flush_open_window, WindowInv
  <2> QED
    BY <1>4, <2>1 DEF save_hook, WindowInv, files, history
<1>5. CASE Deferred \/ OpenFails \/ NothingWritten
  BY <1>5 DEF Deferred, OpenFails, NothingWritten, WindowInv, memory, files, history
<1>6. CASE file_open_hook
  BY <1>0, <1>6, NoRowsFacts DEF file_open_hook, WindowInv, memory
<1>7. ASSUME NEW written \in BOOLEAN, GameWrites(written)
      PROVE  WindowInv'
  BY <1>0, <1>7 DEF GameWrites, WindowInv, memory
<1>8. ASSUME NEW result \in {"done", "failed", "cut"}, write_sidecar(result)
      PROVE  WindowInv'
  <2>1. SAVE_PATH \in Names
    BY <1>0, <1>8 DEF write_sidecar
  <2>2. sidecar' = [sidecar EXCEPT ![SAVE_PATH] = sidecar_contents(sidecar[SAVE_PATH], result)]
    BY <1>8 DEF write_sidecar
  <2> DEFINE new == sidecar_contents(sidecar[SAVE_PATH], result)
  <2>3. IsRows(new.rows) /\ new.kind \in {"missing", "whole", "cut"}
    BY <2>1, NoRowsFacts DEF sidecar_contents, WindowInv
  <2> HIDE DEF new
  <2>4. \A n \in Names : IsRows(sidecar'[n].rows) /\ sidecar'[n].kind \in {"missing", "whole", "cut"}
    BY <1>0, <2>1, <2>2, <2>3 DEF WindowInv, new
  <2> QED
    BY <1>8, <2>4 DEF write_sidecar, WindowInv, memory
<1>9. ASSUME NEW n \in Names, load_hook(n)
      PROVE  WindowInv'
  <2>1. IsRows(store')
    BY <1>9, ReadRows DEF load_hook
  <2> QED
    BY <1>9, <2>1 DEF load_hook, WindowInv, files, history
<1>10. CASE \/ \E n \in Names : LoadFails(n)
            \/ \E n \in Names \cup {None} : LoadsWithout(n)
  BY <1>10, NoRowsFacts DEF LoadFails, LoadsWithout, Loadable, WindowInv, files, history
<1>11. ASSUME NEW n \in Names, DeleteSave(n)
       PROVE  WindowInv'
  BY <1>11 DEF DeleteSave, WindowInv, memory
<1>12. CASE Restart
  BY <1>0, <1>12, NoRowsFacts DEF Restart, WindowInv, files, history
<1>13. CASE UNCHANGED vars
  BY <1>13 DEF vars, WindowInv
<1> QED
  BY <1>1, <1>2, <1>3, <1>4, <1>5, <1>6, <1>7, <1>8, <1>9, <1>10, <1>11, <1>12, <1>13
  DEF Next, Window, Saving, Loading

LEMMA WindowInit == Init => WindowInv
<1> SUFFICES ASSUME Init PROVE WindowInv
  OBVIOUS
<1>1. boxes \in [Wares -> Box]
  BY AmountsAssumption DEF Init, Zero, Box
<1>2. IsRows(store) /\ \A n \in Names : IsRows(sidecar[n].rows) /\ IsRows(carried[n])
  BY NoRowsFacts DEF Init
<1> QED
  BY <1>1, <1>2 DEF Init, WindowInv

\* The refinement mapping of TravellingSpec.
KeptShown == [n \in Names |-> [t \in Towns |-> load(carried[n], t)]]
Refined == <<Shown, KeptShown, paired>>

LEMMA ShownWithoutWindow == ~attached => Shown = [t \in Towns |-> load(store, t)]
BY DEF Shown

\* Inside a save the store shows what the windows show.
LEMMA ShownInSave ==
    ASSUME WindowInv, phase \in {"saving", "writing", "returned"}
    PROVE  Shown = [t \in Towns |-> load(store, t)]
BY DEF Shown, WindowInv

\* Saving the boxes, with the window left open or not, shows what it showed.
LEMMA ShownSaved ==
    ASSUME WindowInv, attached, store' = save(store, town), UNCHANGED <<boxes, town>>
    PROVE  Shown' = Shown
<1>1. town \in Towns
  BY DEF WindowInv
<1>2. load(store', town) = boxes /\ \A u \in Towns \ {town} : amounts_of(store', u) = amounts_of(store, u)
  BY <1>1, SaveFacts
<1>3. \A u \in Towns \ {town} : load(store', u) = load(store, u)
  BY <1>2 DEF load
<1> QED
  BY <1>1, <1>2, <1>3 DEF Shown

LEMMA WindowRefines ==
    ASSUME IInv, WindowInv, Window
    PROVE  Travelling!Next \/ UNCHANGED Refined
<1>1. UNCHANGED <<KeptShown, paired>>
  BY DEF Window, on_open, Edit, on_close, history, KeptShown
<1>2. ASSUME NEW t \in Towns, on_open(t)
      PROVE  UNCHANGED Shown
  BY <1>2 DEF on_open, Shown
<1>3. ASSUME on_close
      PROVE  UNCHANGED Shown
  BY <1>3, ShownSaved DEF on_close
<1>4. ASSUME NEW w \in Wares, NEW v \in 0 .. BoxMax, Edit(w, v)
      PROVE  Travelling!Edit(town, w, v)
  <2>1. town \in Towns /\ attached /\ UNCHANGED <<store, town, attached>> /\ boxes' = [boxes EXCEPT ![w] = v]
    BY <1>4 DEF Edit, WindowInv
  <2>2. Shown' = [Shown EXCEPT ![town] = [Shown[town] EXCEPT ![w] = v]]
    BY <2>1 DEF Shown
  <2> QED
    BY <1>1, <2>2 DEF Travelling!Edit, KeptShown
<1> QED
  <2>1. CASE \E t \in Towns : on_open(t)
    BY <1>1, <1>2, <2>1 DEF Refined
  <2>2. CASE on_close
    BY <1>1, <1>3, <2>2 DEF Refined
  <2>3. CASE \E w \in Wares, v \in 0 .. BoxMax : Edit(w, v)
    <3>1. town \in Towns
      BY DEF WindowInv
    <3> QED
      BY <1>4, <2>3, <3>1 DEF Travelling!Next
  <2> QED
    BY <2>1, <2>2, <2>3 DEF Window

LEMMA SavingRefines ==
    ASSUME IInv, WindowInv, Saving
    PROVE  Travelling!Next \/ UNCHANGED Refined
<1>0. target \in Names /\ DOMAIN carried = Names
  BY DEF IInv, Shapes
<1>1. ASSUME NEW n \in Names, save_hook(n)
      PROVE  UNCHANGED Refined
  <2>1. UNCHANGED <<boxes, town, attached, carried, paired>> /\ store' = flush_open_window(store)
    BY <1>1 DEF save_hook, history
  <2>2. Shown' = Shown
    BY <2>1, ShownSaved DEF flush_open_window, Shown
  <2> QED
    BY <2>1, <2>2 DEF Refined, KeptShown
<1>2. CASE Deferred \/ OpenFails \/ NothingWritten
  <2>1. UNCHANGED <<store, boxes, town, attached, carried, paired>>
    BY <1>2 DEF Deferred, OpenFails, NothingWritten, memory, history
  <2> QED
    BY <2>1 DEF Refined, KeptShown, Shown
<1>3. CASE file_open_hook
  <2>1. /\ UNCHANGED <<store, boxes, town, attached>> /\ paired' = paired \ {target}
        /\ carried' = [carried EXCEPT ![target] = NoRows]
    BY <1>3 DEF file_open_hook, memory
  <2>2. [t \in Towns |-> load(NoRows, t)] = Travelling!Nothing
    BY NoRowsFacts DEF Travelling!Nothing
  <2>3. \A n \in Names : KeptShown'[n] = IF n = target THEN Travelling!Nothing ELSE KeptShown[n]
    BY <1>0, <2>1, <2>2 DEF KeptShown
  <2>4. KeptShown' = [KeptShown EXCEPT ![target] = Travelling!Nothing]
    BY <1>0, <2>3 DEF KeptShown
  <2>5. Shown' = Shown
    BY <2>1 DEF Shown
  <2>6. Travelling!GiveUp(target)
    BY <2>1, <2>4, <2>5 DEF Travelling!GiveUp, KeptShown
  <2> QED
    BY <1>0, <2>6 DEF Travelling!Next
<1>4. ASSUME NEW written \in BOOLEAN, GameWrites(written)
      PROVE  Travelling!Next \/ UNCHANGED Refined
  <2>1. UNCHANGED <<store, boxes, town, attached, paired>> /\ phase = "writing"
    BY <1>4 DEF GameWrites, memory
  <2>2. Shown' = Shown
    BY <2>1 DEF Shown
  <2>3. CASE written
    <3>1. carried' = [carried EXCEPT ![target] = store] /\ target \notin paired
      BY <1>4, <2>1, <2>3 DEF GameWrites, IInv, WritingWhatWasSaved
    <3>2. Shown = [t \in Towns |-> load(store, t)]
      BY <2>1, ShownInSave
    <3>3. \A n \in Names : KeptShown'[n] = IF n = target THEN Shown ELSE KeptShown[n]
      BY <1>0, <3>1, <3>2 DEF KeptShown
    <3>4. KeptShown' = [KeptShown EXCEPT ![target] = Shown]
      BY <1>0, <3>3 DEF KeptShown
    <3>5. Travelling!Keep(target)
      BY <2>1, <2>2, <3>1, <3>4 DEF Travelling!Keep, KeptShown
    <3> QED
      BY <1>0, <3>5 DEF Travelling!Next
  <2>4. CASE ~written
    BY <1>4, <2>1, <2>2, <2>4 DEF GameWrites, Refined, KeptShown
  <2> QED
    BY <2>3, <2>4
<1>5. ASSUME NEW result \in {"done", "failed", "cut"}, write_sidecar(result)
      PROVE  Travelling!Next \/ UNCHANGED Refined
  <2>1. UNCHANGED <<store, boxes, town, attached, carried>> /\ phase = "returned" /\ SAVE_PATH # None
    BY <1>5 DEF write_sidecar, memory
  <2>2. Shown' = Shown /\ KeptShown' = KeptShown
    BY <2>1 DEF Shown, KeptShown
  <2>3. CASE paired' = paired
    BY <2>2, <2>3 DEF Refined
  <2>4. CASE paired' # paired
    <3>1. paired' = paired \cup {target} /\ pat[target] = "whole"
      BY <1>5, <2>4 DEF write_sidecar
    <3>2. carried[target] = store
      BY <2>1, <3>1 DEF IInv, WritingWhatWasSaved
    <3>3. KeptShown[target] = Shown
      BY <1>0, <2>1, <3>2, ShownInSave DEF KeptShown
    <3>4. Travelling!Vouch(target)
      BY <2>2, <3>1, <3>3 DEF Travelling!Vouch, KeptShown
    <3> QED
      BY <1>0, <3>4 DEF Travelling!Next
  <2> QED
    BY <2>3, <2>4
<1> QED
  BY <1>1, <1>2, <1>3, <1>4, <1>5 DEF Saving

LEMMA LoadingRefines ==
    ASSUME IInv, WindowInv, Loading \/ (\E n \in Names : DeleteSave(n)) \/ Restart
    PROVE  Travelling!Next \/ UNCHANGED Refined
<1>1. ASSUME NEW n \in Names, load_hook(n)
      PROVE  Travelling!Load(n) \/ Travelling!LoadUnreliable(n)
  <2>1. UNCHANGED <<paired, carried, attached>> /\ ~attached /\ store' \in read_sidecar(sidecar[n])
    BY <1>1 DEF load_hook, Loadable, history
  <2>2. Shown' = [t \in Towns |-> load(store', t)] /\ KeptShown' = KeptShown
    BY <2>1 DEF Shown, KeptShown
  <2>3. CASE n \in paired
    <3>1. store' = carried[n]
      BY <2>1, <2>3 DEF IInv, SavesKeepAmounts
    <3>2. Shown' = KeptShown[n]
      BY <2>2, <3>1 DEF KeptShown
    <3> QED
      BY <2>1, <2>2, <2>3, <3>2 DEF Travelling!Load, KeptShown
  <2>4. CASE n \notin paired
    <3>1. IsRows(store')
      BY <2>1, ReadRows
    <3>2. \A t \in Towns : load(store', t) \in [Wares -> Box]
      BY <3>1, LoadType
    <3>3. Shown' \in [Towns -> [Wares -> Box]]
      BY <2>2, <3>2
    <3>4. Shown' \in Travelling!Amounts
      BY <3>3 DEF Travelling!Amounts, Box
    <3> QED
      BY <2>1, <2>2, <2>4, <3>4 DEF Travelling!LoadUnreliable, KeptShown
  <2> QED
    BY <2>3, <2>4
<1>2. ASSUME store' = NoRows, ~attached', UNCHANGED <<carried, paired>>
      PROVE  Travelling!Forget
  <2>1. Shown' = Travelling!Nothing
    BY <1>2, NoRowsFacts DEF Shown, Travelling!Nothing
  <2> QED
    BY <1>2, <2>1 DEF Travelling!Forget
<1>3. (\E n \in Names : LoadFails(n)) \/ (\E n \in Names \cup {None} : LoadsWithout(n)) \/ Restart
        => Travelling!Forget
  BY <1>2 DEF LoadFails, LoadsWithout, Restart, Loadable, history
<1>4. ASSUME NEW n \in Names, DeleteSave(n)
      PROVE  Travelling!GiveUp(n)
  <2>1. UNCHANGED <<store, boxes, town, attached, carried>> /\ paired' = paired \ {n}
    BY <1>4 DEF DeleteSave, memory
  <2>2. Shown' = Shown /\ KeptShown' = KeptShown
    BY <2>1 DEF Shown, KeptShown
  <2> QED
    BY <2>1, <2>2 DEF Travelling!GiveUp, KeptShown
<1> QED
  BY <1>1, <1>3, <1>4 DEF Loading, Travelling!Next

\* What the README promises, for any offices, wares, box sizes and saves: the amounts the
\* player sees travel with the save, whatever the window, the store, the brackets around
\* the game's handlers and the files do to get them there.
THEOREM AmountsTravel == Spec => TravellingSpec
<1>1. Init => Travelling!Init
  <2> SUFFICES ASSUME Init PROVE Travelling!Init
    OBVIOUS
  <2>1. Shown = Travelling!Nothing
    BY NoRowsFacts DEF Init, Shown, Travelling!Nothing
  <2>2. \A n \in Names : KeptShown[n] = Travelling!Nothing
    BY NoRowsFacts DEF Init, KeptShown, Travelling!Nothing
  <2>3. KeptShown = [n \in Names |-> Travelling!Nothing]
    BY <2>2 DEF KeptShown
  <2> QED
    BY <2>1, <2>3 DEF Init, Travelling!Init, KeptShown
<1>2. IInv /\ WindowInv /\ [Next]_vars => [Travelling!Next]_Travelling!vars
  <2> SUFFICES ASSUME IInv, WindowInv, [Next]_vars
               PROVE  Travelling!Next \/ UNCHANGED Travelling!vars
    OBVIOUS
  <2>1. UNCHANGED Refined => UNCHANGED Travelling!vars
    BY DEF Refined, KeptShown, Travelling!vars
  <2>2. UNCHANGED vars => UNCHANGED Refined
    BY DEF vars, Refined, KeptShown, Shown
  <2> QED
    BY <2>1, <2>2, WindowRefines, SavingRefines, LoadingRefines DEF Next
<1>3. Spec => []WindowInv
  BY Invariance, WindowInit, WindowStep, PTL DEF Spec
<1> QED
  BY <1>1, <1>2, <1>3, Invariance, PTL DEF Spec, TravellingSpec, Travelling!Spec

\* Every variable keeps its type, for any offices, wares, box sizes and save names.
THEOREM TypeCorrect == Spec => []TypeOK
<1> DEFINE Flag == cutRead \in BOOLEAN
<1>1. Init => Flag
  BY DEF Init
<1>2. Flag /\ [Next]_vars => Flag'
  BY DEF Next, Window, Saving, Loading, on_open, Edit, on_close, save_hook, Deferred, OpenFails, file_open_hook,
     GameWrites, write_sidecar, NothingWritten, load_hook, LoadsWithout, LoadFails, DeleteSave, Restart, vars
<1>3. IInv /\ WindowInv /\ Flag => TypeOK
  BY DEF IInv, Shapes, WindowInv, TypeOK, Box
<1> HIDE DEF Flag
<1>4. Spec => []WindowInv
  BY Invariance, WindowInit, WindowStep, PTL DEF Spec
<1> QED
  BY <1>1, <1>2, <1>3, <1>4, Invariance, PTL DEF Spec

-----------------------------------------------------------------------------
(* What ships leave behind.                                                *)

\* Amounts of whole box units that fit the boxes. A sidecar cut short may hold others, and
\* ships then leave what the digits that survived say.
FitsBoxes(rows) ==
    \A t \in DOMAIN rows, w \in Wares : \E b \in Box : rows[t][w] = b * Scaling[w]

BoxedInv == ~cutRead => FitsBoxes(store) /\ \A n \in Names : FitsBoxes(sidecar[n].rows)

LEMMA BoxedSave ==
    ASSUME WindowInv, NEW t \in Towns, FitsBoxes(store)
    PROVE  FitsBoxes(save(store, t))
<1> DEFINE amounts == [w \in Wares |-> boxes[w] * Scaling[w]]
<1>1. \A w \in Wares : \E b \in Box : amounts[w] = b * Scaling[w]
  BY DEF WindowInv
<1>2. save(store, t) = set_amounts(store, t, amounts)
  BY DEF save
<1> HIDE DEF amounts
<1> QED
  BY <1>1, <1>2 DEF set_amounts, FitsBoxes

LEMMA BoxedStep == IInv /\ WindowInv /\ BoxedInv /\ [Next]_vars => BoxedInv'
<1> SUFFICES ASSUME IInv, WindowInv, BoxedInv, [Next]_vars, ~cutRead'
             PROVE  FitsBoxes(store') /\ \A n \in Names : FitsBoxes(sidecar'[n].rows)
  BY DEF BoxedInv
<1>0. FitsBoxes(NoRows)
  BY DEF FitsBoxes, NoRows
<1>1. ~cutRead
  BY DEF Next, Window, Saving, Loading, on_open, Edit, on_close, save_hook, Deferred, OpenFails, file_open_hook,
     GameWrites, write_sidecar, NothingWritten, load_hook, LoadsWithout, LoadFails, DeleteSave, Restart, vars
<1>2. FitsBoxes(store) /\ \A n \in Names : FitsBoxes(sidecar[n].rows)
  BY <1>1 DEF BoxedInv
<1>3. CASE UNCHANGED <<store, sidecar>>
  BY <1>2, <1>3
<1>4. CASE on_close \/ \E n \in Names : save_hook(n)
  <2>1. sidecar' = sidecar /\ (store' = save(store, town) \/ store' = store)
    BY <1>4 DEF on_close, save_hook, flush_open_window, files
  <2>2. town \in Towns
    BY DEF WindowInv
  <2> QED
    BY <1>2, <2>1, <2>2, BoxedSave
<1>5. ASSUME NEW result \in {"done", "failed", "cut"}, write_sidecar(result)
      PROVE  FitsBoxes(store') /\ \A n \in Names : FitsBoxes(sidecar'[n].rows)
  <2>1. store' = store /\ SAVE_PATH \in Names /\ DOMAIN sidecar = Names
    BY <1>5 DEF write_sidecar, memory, IInv, Shapes
  <2>2. sidecar' = [sidecar EXCEPT ![SAVE_PATH] = sidecar_contents(sidecar[SAVE_PATH], result)]
    BY <1>5 DEF write_sidecar
  <2>3. FitsBoxes(sidecar_contents(sidecar[SAVE_PATH], result).rows)
    BY <1>0, <1>2, <2>1 DEF sidecar_contents
  <2> QED
    BY <1>2, <2>1, <2>2, <2>3
<1>6. ASSUME NEW n \in Names, load_hook(n)
      PROVE  FitsBoxes(store')
  <2>1. sidecar[n].kind \in {"missing", "whole"} /\ store' \in read_sidecar(sidecar[n])
    BY <1>6 DEF load_hook, WindowInv
  <2> QED
    BY <1>0, <1>2, <2>1 DEF read_sidecar
<1>7. CASE Loading
  <2>1. sidecar' = sidecar
    BY <1>7 DEF Loading, load_hook, LoadFails, LoadsWithout, files
  <2>2. FitsBoxes(store')
    BY <1>0, <1>6, <1>7 DEF Loading, LoadFails, LoadsWithout
  <2> QED
    BY <1>2, <2>1, <2>2
<1>8. CASE Restart
  BY <1>0, <1>2, <1>8 DEF Restart, files
<1>9. ASSUME Next \/ UNCHANGED vars,
             ~on_close, ~(\E n \in Names : save_hook(n)), ~Loading, ~Restart,
             ~(\E result \in {"done", "failed", "cut"} : write_sidecar(result))
      PROVE  UNCHANGED <<store, sidecar>>
  BY <1>9 DEF Next, Window, Saving, on_open, Edit, Deferred, OpenFails, file_open_hook, GameWrites,
     NothingWritten, DeleteSave, vars, memory, files
<1> QED
  BY <1>3, <1>4, <1>5, <1>7, <1>8, <1>9

\* For any offices, wares, barrel sizes and box sizes, as long as no sidecar cut short has
\* been read: what the hook makes ships leave is what the box of that office and that ware
\* shows, although the store counts raw units and the boxes clamp.
THEOREM ShipsLeaveWhatIsShown == Spec => []ShipsLeaveWhatTheBoxShows
<1>1. Init => BoxedInv
  <2>1. FitsBoxes(NoRows)
    BY DEF FitsBoxes, NoRows
  <2> QED
    BY <2>1 DEF Init, BoxedInv
<1>2. IInv /\ WindowInv /\ BoxedInv => ShipsLeaveWhatTheBoxShows
  <2> SUFFICES ASSUME WindowInv, BoxedInv, ~cutRead, NEW t \in Towns, NEW w \in Wares,
                      NEW kept \in Stocks, NEW vanilla \in 0 .. kept
               PROVE  takeable(store, t, w, kept, vanilla) =
                        IF load(store, t)[w] * Scaling[w] = 0 THEN vanilla
                        ELSE IF kept <= load(store, t)[w] * Scaling[w] THEN 0
                        ELSE kept - load(store, t)[w] * Scaling[w]
    BY DEF ShipsLeaveWhatTheBoxShows
  <2>1. Scaling[w] \in Nat \ {0} /\ BoxMax \in Nat
    BY AmountsAssumption
  <2>2. PICK b \in Box : amounts_of(store, t)[w] = b * Scaling[w]
    <3>1. CASE t \in DOMAIN store
      BY <3>1 DEF BoxedInv, FitsBoxes, amounts_of
    <3>2. CASE t \notin DOMAIN store
      <4>1. 0 \in Box /\ 0 * Scaling[w] = 0 /\ amounts_of(store, t)[w] = 0
        BY <2>1, <3>2 DEF Box, amounts_of, Zero
      <4> QED
        BY <4>1
    <3> QED
      BY <3>1, <3>2
  <2>3. (b * Scaling[w]) \div Scaling[w] = b
    BY <2>1, WholeUnits DEF Box
  <2>4. load(store, t)[w] = b
    BY <2>1, <2>2, <2>3 DEF load, Box
  <2> QED
    BY <2>2, <2>4 DEF takeable
<1>3. Spec => []WindowInv
  BY Invariance, WindowInit, WindowStep, PTL DEF Spec
<1> QED
  BY <1>1, <1>2, <1>3, Invariance, BoxedStep, PTL DEF Spec

-----------------------------------------------------------------------------
(* The administrators' orders (OfficeOrders).                              *)

Op == [office : Offices, ware : Goods, stock : Nat, price : Int]

OrdersTypes ==
    /\ price \in [Offices -> [Goods -> Int]]
    /\ stock \in [Offices -> [Goods -> Nat]]
    /\ locked \in [Offices -> SUBSET Goods]
    /\ shown \in Offices \cup {Nowhere}
    /\ page => shown # Nowhere
    /\ amountBoxes \in [Goods -> Nat]
    /\ queue \in Seq(Op)
    /\ covered \subseteq Offices \X Goods

\* The units a locking key provisions for a requirement.
Units(o, w) == (Required[o][w] + SCALING[w] - 1) \div SCALING[w]

\* The boxes can show what has to be provisioned: a box commits no less than it was filled
\* with.
RequirementsFit == \A o \in Offices, w \in Goods : Units(o, w) <= MAX_BOX

\* What is covered is locked, kept in full units, and shown in full while its office is on
\* screen, for the window commits what the boxes show.
CoverInv == RequirementsFit =>
    \A o \in Offices, w \in Goods : <<o, w>> \in covered =>
        /\ w \in locked[o]
        /\ stock[o][w] >= Units(o, w) * SCALING[w]
        /\ o = shown => amountBoxes[w] >= Units(o, w)

\* And an operation that is enqueued for what is covered carries an amount that covers it,
\* unless it has been waiting since before.
QueuedInv == RequirementsFit =>
    \A i \in 1 .. Len(queue) :
        LET op == queue[i]
        IN  <<op.office, op.ware>> \in covered \ overtaken =>
                op.stock >= Units(op.office, op.ware) * SCALING[op.ware]

LEMMA FullUnits ==
    ASSUME NEW n \in Nat, NEW u \in Nat, NEW s \in Nat \ {0}, n >= u * s
    PROVE  n \div s \in Nat /\ n \div s >= u
<1> DEFINE q == n \div s
<1>1. q \in Nat /\ n < s * q + s
  OBVIOUS
<1> HIDE DEF q
<1>2. ~(q + 1 <= u)
  <2> SUFFICES ASSUME q + 1 <= u PROVE FALSE
    OBVIOUS
  <2>1. u - q - 1 \in Nat
    BY <1>1
  <2>2. s * (u - q - 1) >= 0
    BY <2>1
  <2> QED
    BY <1>1, <2>2
<1> QED
  BY <1>1, <1>2 DEF q

LEMMA RoundedUp ==
    ASSUME NEW o \in Offices, NEW w \in Goods
    PROVE  /\ Units(o, w) \in Nat /\ Units(o, w) * SCALING[w] \in Nat
           /\ Units(o, w) * SCALING[w] >= Required[o][w]
<1> DEFINE r == Required[o][w]
           s == SCALING[w]
           q == (r + s - 1) \div s
<1>1. r \in Nat /\ s \in Nat \ {0}
  BY OrdersAssumption
<1> HIDE DEF r, s
<1>2. r + s - 1 \in Nat
  BY <1>1
<1>3. q \in Nat /\ r + s - 1 < s * q + s
  BY <1>1, <1>2
<1>4. q * s \in Nat /\ q * s = s * q
  BY <1>1, <1>3
<1>5. q * s >= r
  BY <1>1, <1>3, <1>4
<1> QED
  BY <1>3, <1>4, <1>5 DEF Units, r, s

LEMMA BoxUnits ==
    ASSUME NEW s \in [Goods -> Nat]
    PROVE  \A v \in Goods : s[v] \in Nat /\ SCALING[v] \in Nat \ {0} /\ s[v] \div SCALING[v] \in Nat
<1> SUFFICES ASSUME NEW v \in Goods
             PROVE  s[v] \in Nat /\ SCALING[v] \in Nat \ {0} /\ s[v] \div SCALING[v] \in Nat
  OBVIOUS
<1>1. s[v] \in Nat /\ SCALING[v] \in Nat \ {0}
  BY OrdersAssumption
<1> DEFINE n == s[v]
           k == SCALING[v]
<1>2. n \in Nat /\ k \in Nat \ {0}
  BY <1>1
<1> HIDE DEF n, k
<1>3. n \div k \in Nat
  BY <1>2
<1> QED
  BY <1>1, <1>3 DEF n, k

LEMMA LowestLevel == Q \in Levels
<1>1. \E l \in Levels : \A m \in Levels : l <= m
  BY OrdersAssumption
<1> QED
  BY <1>1 DEF Q

\* Boxes filled from full units show them.
LEMMA BoxesShow ==
    ASSUME NEW s \in [Goods -> Nat], NEW o \in Offices, NEW w \in Goods
    PROVE  /\ Boxes(s) \in [Goods -> Nat]
           /\ RequirementsFit /\ s[w] >= Units(o, w) * SCALING[w] => Boxes(s)[w] >= Units(o, w)
<1>1. \A v \in Goods : s[v] \in Nat /\ SCALING[v] \in Nat \ {0} /\ s[v] \div SCALING[v] \in Nat
  BY BoxUnits
<1>2. Boxes(s) \in [Goods -> Nat]
  BY <1>1, OrdersAssumption DEF Boxes, Clamped
<1>3. Units(o, w) \in Nat /\ MAX_BOX \in Nat /\ (RequirementsFit => Units(o, w) <= MAX_BOX)
  BY RoundedUp, OrdersAssumption DEF RequirementsFit
<1>4. ASSUME RequirementsFit, s[w] >= Units(o, w) * SCALING[w]
      PROVE  Boxes(s)[w] >= Units(o, w)
  <2>1. s[w] \div SCALING[w] >= Units(o, w)
    BY <1>1, <1>3, <1>4, FullUnits
  <2> QED
    BY <1>1, <1>3, <1>4, <2>1 DEF Boxes, Clamped
<1> QED
  BY <1>2, <1>4

\* What every key does to the office on screen.
LEMMA ChangeFacts ==
    ASSUME OrdersTypes, resolve_office,
           NEW p \in [Goods -> Int], NEW s \in [Goods -> Nat], NEW l \in SUBSET Goods, Change(p, s, l)
    PROVE  /\ shown \in Offices
           /\ price' \in [Offices -> [Goods -> Int]] /\ stock' \in [Offices -> [Goods -> Nat]]
           /\ locked' \in [Offices -> SUBSET Goods]
           /\ price'[shown] = p /\ stock'[shown] = s /\ locked'[shown] = l
           /\ \A o \in Offices \ {shown} : price'[o] = price[o] /\ stock'[o] = stock[o] /\ locked'[o] = locked[o]
           /\ amountBoxes' = Boxes(s) /\ amountBoxes' \in [Goods -> Nat]
           /\ UNCHANGED <<shown, page, selected, queue>>
<1>1. shown \in Offices
  BY DEF OrdersTypes, resolve_office
<1>2. Boxes(s) \in [Goods -> Nat]
  <2>1. \A v \in Goods : s[v] \in Nat /\ SCALING[v] \in Nat \ {0} /\ s[v] \div SCALING[v] \in Nat
    BY BoxUnits
  <2> QED
    BY <2>1, OrdersAssumption DEF Boxes, Clamped
<1> QED
  BY <1>1, <1>2 DEF OrdersTypes, Change, window

\* The keys that raise amounts and unlock nothing.
LEMMA RaisingKeepsCover ==
    ASSUME OrdersTypes, CoverInv, resolve_office,
           NEW p \in [Goods -> Int], NEW s \in [Goods -> Nat], NEW l \in SUBSET Goods, Change(p, s, l),
           \A w \in Goods : s[w] >= stock[shown][w], locked[shown] \subseteq l,
           covered' \subseteq Offices \X Goods,
           \A o \in Offices, w \in Goods : <<o, w>> \in covered' =>
               \/ <<o, w>> \in covered
               \/ o = shown /\ w \in l /\ s[w] >= Units(o, w) * SCALING[w]
    PROVE  OrdersTypes' /\ CoverInv'
<1>1. /\ shown \in Offices
      /\ price' \in [Offices -> [Goods -> Int]] /\ stock' \in [Offices -> [Goods -> Nat]]
      /\ locked' \in [Offices -> SUBSET Goods]
      /\ stock'[shown] = s /\ locked'[shown] = l
      /\ \A o \in Offices \ {shown} : stock'[o] = stock[o] /\ locked'[o] = locked[o]
      /\ amountBoxes' = Boxes(s) /\ amountBoxes' \in [Goods -> Nat]
      /\ UNCHANGED <<shown, page, selected, queue>>
  BY ChangeFacts
<1>2. OrdersTypes'
  BY <1>1 DEF OrdersTypes
<1>3. ASSUME RequirementsFit, NEW o \in Offices, NEW w \in Goods, <<o, w>> \in covered'
      PROVE  /\ w \in locked'[o]
             /\ stock'[o][w] >= Units(o, w) * SCALING[w]
             /\ o = shown => amountBoxes'[w] >= Units(o, w)
  <2>1. CASE o = shown
    <3>1. w \in l /\ s[w] >= Units(o, w) * SCALING[w]
      <4>1. CASE <<o, w>> \in covered
        <5>1. w \in locked[o] /\ stock[o][w] >= Units(o, w) * SCALING[w]
          BY <1>3, <4>1 DEF CoverInv
        <5>2. stock[o][w] \in Nat /\ s[w] \in Nat /\ s[w] >= stock[o][w] /\ Units(o, w) * SCALING[w] \in Nat
          BY <2>1, RoundedUp DEF OrdersTypes
        <5> QED
          BY <2>1, <5>1, <5>2
      <4>2. CASE <<o, w>> \notin covered
        BY <1>3, <4>2
      <4> QED
        BY <4>1, <4>2
    <3> QED
      BY <1>1, <1>3, <2>1, <3>1, BoxesShow
  <2>2. CASE o # shown
    BY <1>1, <1>3, <2>2 DEF CoverInv
  <2> QED
    BY <2>1, <2>2
<1> QED
  BY <1>1, <1>2, <1>3 DEF CoverInv

\* F1, the locking keys and the price keys.
LEMMA SetupInv ==
    ASSUME OrdersTypes, CoverInv, on_setup_hotkey
    PROVE  OrdersTypes' /\ CoverInv'
<1> DEFINE free_ == {w \in Goods : price[shown][w] = 0}
           bought == free_ \cap Produced[shown]
           p == [w \in Goods |-> IF w \in bought THEN -Q ELSE IF w \in free_ THEN Q ELSE price[shown][w]]
           s == [w \in Goods |-> IF w \in bought /\ stock[shown][w] = 0
                                 THEN BUY_AMOUNT[w] * SCALING[w] ELSE stock[shown][w]]
<1>1. resolve_office /\ shown \in Offices /\ Change(p, s, locked[shown]) /\ covered' = covered
  BY DEF on_setup_hotkey, resolve_office, OrdersTypes, provisions
<1>2. Q \in Int
  BY LowestLevel, OrdersAssumption
<1>3. p \in [Goods -> Int]
  BY <1>1, <1>2 DEF OrdersTypes
<1>4. s \in [Goods -> Nat] /\ \A w \in Goods : s[w] >= stock[shown][w]
  <2>1. \A w \in Goods : stock[shown][w] \in Nat /\ BUY_AMOUNT[w] * SCALING[w] \in Nat
    BY <1>1, OrdersAssumption DEF OrdersTypes
  <2> QED
    BY <2>1
<1> HIDE DEF p, s
<1> QED
  BY <1>1, <1>3, <1>4, RaisingKeepsCover DEF OrdersTypes

LEMMA ProvisionInv ==
    ASSUME OrdersTypes, CoverInv, NEW targets, DOMAIN targets \subseteq Goods,
           \A w \in DOMAIN targets : targets[w] \in Nat, provision_and_lock(targets),
           covered' \subseteq Offices \X Goods,
           \A o \in Offices, w \in Goods : <<o, w>> \in covered' =>
               \/ <<o, w>> \in covered
               \/ o = shown /\ w \in DOMAIN targets /\ targets[w] >= Units(o, w) * SCALING[w]
    PROVE  OrdersTypes' /\ CoverInv'
<1> DEFINE s == [w \in Goods |-> IF w \in DOMAIN targets /\ stock[shown][w] < targets[w]
                                 THEN targets[w] ELSE stock[shown][w]]
           l == locked[shown] \cup DOMAIN targets
<1>1. resolve_office /\ shown \in Offices /\ Change(price[shown], s, l)
  BY DEF provision_and_lock, resolve_office, OrdersTypes
<1>2. \A w \in Goods : stock[shown][w] \in Nat
  BY <1>1 DEF OrdersTypes
<1>3. s \in [Goods -> Nat] /\ \A w \in Goods : s[w] >= stock[shown][w]
  BY <1>2
<1>4. \A w \in DOMAIN targets : s[w] >= targets[w]
  BY <1>2
<1>5. price[shown] \in [Goods -> Int] /\ l \in SUBSET Goods /\ locked[shown] \subseteq l
  BY <1>1 DEF OrdersTypes
<1>6. ASSUME NEW o \in Offices, NEW w \in Goods, <<o, w>> \in covered', <<o, w>> \notin covered
      PROVE  o = shown /\ w \in l /\ s[w] >= Units(o, w) * SCALING[w]
  <2>1. o = shown /\ w \in DOMAIN targets /\ targets[w] >= Units(o, w) * SCALING[w]
    BY <1>6
  <2>2. s[w] >= targets[w] /\ s[w] \in Nat /\ targets[w] \in Nat /\ Units(o, w) * SCALING[w] \in Nat
    BY <1>3, <1>4, <2>1, RoundedUp
  <2> QED
    BY <2>1, <2>2
<1> HIDE DEF s, l
<1> QED
  BY <1>1, <1>3, <1>5, <1>6, RaisingKeepsCover

LEMMA KeysInv ==
    ASSUME OrdersTypes, CoverInv, OfficeKey
    PROVE  OrdersTypes' /\ CoverInv'
<1>1. ASSUME on_lock_staples_hotkey
      PROVE  OrdersTypes' /\ CoverInv'
  <2>1. shown \in Offices
    BY <1>1 DEF on_lock_staples_hotkey, provision_and_lock, resolve_office, OrdersTypes
  <2>2. /\ DOMAIN staples(shown) \subseteq Goods
        /\ \A w \in DOMAIN staples(shown) : staples(shown)[w] = Units(shown, w) * SCALING[w]
    BY DEF staples, Units
  <2>3. \A w \in DOMAIN staples(shown) : staples(shown)[w] \in Nat
    BY <2>1, <2>2, RoundedUp
  <2>4. covered' = covered \cup {<<shown, w>> : w \in DOMAIN staples(shown)}
    BY <1>1 DEF on_lock_staples_hotkey, Pairs
  <2>5. covered' \subseteq Offices \X Goods
    BY <2>1, <2>2, <2>4 DEF OrdersTypes
  <2>6. \A o \in Offices, w \in Goods : <<o, w>> \in covered' =>
           \/ <<o, w>> \in covered
           \/ o = shown /\ w \in DOMAIN staples(shown) /\ staples(shown)[w] >= Units(o, w) * SCALING[w]
    BY <2>1, <2>2, <2>3, <2>4
  <2> QED
    BY <1>1, <2>2, <2>3, <2>5, <2>6, ProvisionInv DEF on_lock_staples_hotkey
<1>2. ASSUME on_lock_building_materials_hotkey
      PROVE  OrdersTypes' /\ CoverInv'
  <2> DEFINE targets == [w \in {v \in Goods : Materials[v] > 0} |-> Materials[w] * SCALING[w]]
  <2>1. DOMAIN targets \subseteq Goods /\ \A w \in DOMAIN targets : targets[w] \in Nat
    BY OrdersAssumption
  <2>2. provision_and_lock(targets) /\ covered' = covered
    BY <1>2 DEF on_lock_building_materials_hotkey, provisions
  <2> HIDE DEF targets
  <2> QED
    BY <2>1, <2>2, ProvisionInv DEF OrdersTypes
<1>3. ASSUME on_reset_office_hotkey
      PROVE  OrdersTypes' /\ CoverInv'
  <2> DEFINE z == [w \in Goods |-> 0]
  <2>1. resolve_office /\ Change(z, z, {}) /\ covered' = covered \ Pairs(shown, Goods)
    BY <1>3 DEF on_reset_office_hotkey, Undone
  <2>2. z \in [Goods -> Int] /\ z \in [Goods -> Nat]
    OBVIOUS
  <2> HIDE DEF z
  <2>3. /\ shown \in Offices
        /\ price' \in [Offices -> [Goods -> Int]] /\ stock' \in [Offices -> [Goods -> Nat]]
        /\ locked' \in [Offices -> SUBSET Goods]
        /\ \A o \in Offices \ {shown} : stock'[o] = stock[o] /\ locked'[o] = locked[o]
        /\ amountBoxes' \in [Goods -> Nat]
        /\ UNCHANGED <<shown, page, selected, queue>>
    BY <2>1, <2>2, ChangeFacts
  <2>4. OrdersTypes'
    BY <2>1, <2>3 DEF OrdersTypes
  <2>5. \A w \in Goods : <<shown, w>> \notin covered'
    BY <2>1 DEF Pairs
  <2> QED
    BY <2>1, <2>3, <2>4, <2>5 DEF CoverInv
<1>4. ASSUME NEW sell \in BOOLEAN, NEW level \in Levels, apply_prices(sell, level)
      PROVE  OrdersTypes' /\ CoverInv'
  <2> DEFINE p == [w \in Goods |-> IF sell /\ price[shown][w] > 0 THEN level
                                   ELSE IF ~sell /\ price[shown][w] < 0 THEN -level
                                   ELSE price[shown][w]]
  <2>1. resolve_office /\ shown \in Offices /\ Change(p, stock[shown], locked[shown]) /\ covered' = covered
    BY <1>4 DEF apply_prices, resolve_office, OrdersTypes, provisions
  <2>2. p \in [Goods -> Int]
    <3>1. level \in Int /\ \A w \in Goods : price[shown][w] \in Int
      BY <2>1, OrdersAssumption DEF OrdersTypes
    <3> QED
      BY <3>1
  <2> HIDE DEF p
  <2>3. stock[shown] \in [Goods -> Nat] /\ locked[shown] \in SUBSET Goods /\ covered \subseteq Offices \X Goods
    BY <2>1 DEF OrdersTypes
  <2>4. \A w \in Goods : stock[shown][w] >= stock[shown][w]
    BY <2>3
  <2> QED
    BY <2>1, <2>2, <2>3, <2>4, RaisingKeepsCover
<1>5. ASSUME NEW w \in Goods, NEW level \in Levels, on_price_widget_key(w, level)
      PROVE  OrdersTypes' /\ CoverInv'
  <2>1. shown \in Offices /\ Sign(price[shown][w]) * level \in Int
    BY <1>5, OrdersAssumption DEF on_price_widget_key, resolve_office, OrdersTypes, Sign, provisions
  <2>2. price' \in [Offices -> [Goods -> Int]]
    BY <1>5, <2>1 DEF on_price_widget_key, OrdersTypes, provisions
  <2> QED
    BY <1>5, <2>2 DEF on_price_widget_key, window, OrdersTypes, CoverInv, provisions
<1> QED
  BY <1>1, <1>2, <1>3, <1>4, <1>5, SetupInv DEF OfficeKey

LEMMA SyncInv ==
    ASSUME OrdersTypes, CoverInv, on_sync
    PROVE  OrdersTypes' /\ CoverInv'
<1>1. /\ shown \in Offices
      /\ price' = [o \in Offices |-> [w \in Goods |-> IF synced(o, w) THEN price[shown][w] ELSE price[o][w]]]
      /\ stock' = [o \in Offices |-> [w \in Goods |-> IF synced(o, w) THEN stock[shown][w] ELSE stock[o][w]]]
      /\ covered' = covered \ {c \in covered : synced(c[1], c[2])}
      /\ UNCHANGED <<locked, shown, page, amountBoxes, queue>>
  BY DEF on_sync, resolve_office, OrdersTypes, window, Undone
<1>2. OrdersTypes'
  BY <1>1 DEF OrdersTypes
<1>3. \A o \in Offices, w \in Goods : <<o, w>> \in covered' => <<o, w>> \in covered /\ ~synced(o, w)
  BY <1>1
<1>4. \A o \in Offices, w \in Goods : ~synced(o, w) => stock'[o][w] = stock[o][w]
  BY <1>1
<1> QED
  BY <1>1, <1>2, <1>3, <1>4 DEF CoverInv

\* What the window enqueues when it closes carries the amounts the other offices keep.
LEMMA Enqueues ==
    ASSUME OrdersTypes, CloseWindow
    PROVE  \E added \in Seq(Op) :
               /\ queue' = queue \o added
               /\ \A i \in 1 .. Len(added) : added[i].stock = stock[added[i].office][added[i].ware]
<1> DEFINE odd == {w \in Goods : (stock[shown][w] \div SCALING[w]) % 2 = 1}
           others == Offices \ {shown}
<1>1. shown \in Offices
  BY DEF CloseWindow, OrdersTypes
<1>2. IsFiniteSet(odd) /\ IsFiniteSet(others)
  BY OrdersAssumption, FS_Subset
<1>3. Targets = others \X odd /\ Targets \subseteq Offices \X Goods
  BY DEF Targets
<1>4. IsFiniteSet(Targets)
  BY <1>2, <1>3, FS_Product
<1>5. Cardinality(Targets) \in Nat
  BY <1>4, FS_CardinalityType
<1>6. PICK ops \in [1 .. Cardinality(Targets) -> Targets] :
          queue' = queue \o [i \in DOMAIN ops |->
               [office |-> ops[i][1], ware |-> ops[i][2],
                stock |-> stock[ops[i][1]][ops[i][2]], price |-> price[shown][ops[i][2]]]]
  BY DEF CloseWindow, synchronize_autotrade_settings
<1> DEFINE n == Cardinality(Targets)
           op(i) == [office |-> ops[i][1], ware |-> ops[i][2],
                     stock |-> stock[ops[i][1]][ops[i][2]], price |-> price[shown][ops[i][2]]]
           added == [i \in DOMAIN ops |-> op(i)]
<1>7. \A i \in 1 .. n : op(i) \in Op /\ op(i).stock = stock[op(i).office][op(i).ware]
  <2> SUFFICES ASSUME NEW i \in 1 .. Cardinality(Targets)
               PROVE  op(i) \in Op /\ op(i).stock = stock[op(i).office][op(i).ware]
    OBVIOUS
  <2>1. ops[i] \in Offices \X Goods
    BY <1>3
  <2>2. ops[i][1] \in Offices /\ ops[i][2] \in Goods
    BY <2>1
  <2> QED
    BY <1>1, <2>2 DEF OrdersTypes, Op
<1>8. queue' = queue \o added
  BY <1>6
<1>9. DOMAIN ops = 1 .. n /\ n \in Nat
  BY <1>5
<1> HIDE DEF op, n
<1>10. added \in [1 .. n -> Op] /\ \A i \in 1 .. n : added[i].stock = stock[added[i].office][added[i].ware]
  BY <1>7, <1>9
<1> HIDE DEF added
<1>11. added \in Seq(Op) /\ Len(added) = n
  BY <1>9, <1>10
<1> QED
  BY <1>8, <1>10, <1>11

LEMMA CloseInv ==
    ASSUME OrdersTypes, CoverInv, CloseWindow
    PROVE  OrdersTypes' /\ CoverInv'
<1>1. queue' \in Seq(Op)
  <2>1. PICK added \in Seq(Op) : queue' = queue \o added
    BY Enqueues
  <2> QED
    BY <2>1 DEF OrdersTypes
<1>2. /\ UNCHANGED <<price, stock, locked, covered>>
      /\ shown' = Nowhere /\ page' = FALSE /\ amountBoxes' = [w \in Goods |-> 0]
  BY DEF CloseWindow, provisions
<1>3. OrdersTypes'
  BY <1>1, <1>2 DEF OrdersTypes
<1>4. \A o \in Offices : o # shown'
  BY <1>2, OrdersAssumption
<1> QED
  BY <1>2, <1>3, <1>4 DEF CoverInv

LEMMA ExecuteInv ==
    ASSUME OrdersTypes, CoverInv, QueuedInv, ExecuteOperation
    PROVE  OrdersTypes' /\ CoverInv'
<1> DEFINE op == Head(queue)
<1>1. queue \in Seq(Op) /\ queue # << >>
  BY DEF OrdersTypes, ExecuteOperation
<1>2. op \in Op /\ Tail(queue) \in Seq(Op) /\ op = queue[1] /\ 1 \in 1 .. Len(queue)
  BY <1>1
<1>3. /\ price' = [price EXCEPT ![op.office][op.ware] = op.price]
      /\ stock' = [stock EXCEPT ![op.office][op.ware] = op.stock]
      /\ covered' = covered \ ({<<op.office, op.ware>>} \cap overtaken)
      /\ queue' = Tail(queue)
      /\ UNCHANGED <<locked, shown, page, amountBoxes>>
  BY DEF ExecuteOperation, Undone, window
<1>4. RequirementsFit /\ <<op.office, op.ware>> \in covered \ overtaken =>
          op.stock >= Units(op.office, op.ware) * SCALING[op.ware]
  BY <1>2 DEF QueuedInv
<1> HIDE DEF op
<1>5. op.office \in Offices /\ op.ware \in Goods /\ op.stock \in Nat /\ op.price \in Int
  BY <1>2 DEF Op
<1>6. OrdersTypes'
  BY <1>2, <1>3, <1>5 DEF OrdersTypes
<1>7. ASSUME RequirementsFit, NEW o \in Offices, NEW w \in Goods, <<o, w>> \in covered'
      PROVE  stock'[o][w] >= Units(o, w) * SCALING[w]
  <2>1. CASE o = op.office /\ w = op.ware
    <3>1. <<op.office, op.ware>> \in covered \ overtaken
      BY <1>3, <1>7, <2>1
    <3>2. stock'[o][w] = op.stock
      BY <1>3, <1>5, <2>1 DEF OrdersTypes
    <3> QED
      BY <1>4, <1>7, <2>1, <3>1, <3>2
  <2>2. CASE ~(o = op.office /\ w = op.ware)
    <3>1. stock'[o][w] = stock[o][w] /\ <<o, w>> \in covered
      BY <1>3, <1>5, <1>7, <2>2 DEF OrdersTypes
    <3> QED
      BY <1>7, <3>1 DEF CoverInv
  <2> QED
    BY <2>1, <2>2
<1>8. \A c \in covered' : c \in covered
  BY <1>3
<1> QED
  BY <1>3, <1>6, <1>7, <1>8 DEF CoverInv

LEMMA OpenInv ==
    ASSUME OrdersTypes, CoverInv, NEW o \in Offices, OpenWindow(o)
    PROVE  OrdersTypes' /\ CoverInv'
<1>1. /\ shown' = o /\ page' = FALSE /\ amountBoxes' = Boxes(stock[o])
      /\ UNCHANGED <<price, stock, locked, queue, covered>>
  BY DEF OpenWindow, provisions
<1>2. stock[o] \in [Goods -> Nat]
  BY DEF OrdersTypes
<1>3. \A w \in Goods : RequirementsFit /\ stock[o][w] >= Units(o, w) * SCALING[w] => Boxes(stock[o])[w] >= Units(o, w)
  BY <1>2, BoxesShow
<1>4. Boxes(stock[o]) \in [Goods -> Nat]
  BY <1>2, BoxUnits, OrdersAssumption DEF Boxes, Clamped
<1>5. OrdersTypes'
  BY <1>1, <1>4 DEF OrdersTypes
<1>6. ASSUME RequirementsFit, NEW t \in Offices, NEW w \in Goods, <<t, w>> \in covered
      PROVE  /\ w \in locked[t] /\ stock[t][w] >= Units(t, w) * SCALING[w]
             /\ t = o => amountBoxes'[w] >= Units(t, w)
  BY <1>1, <1>3, <1>6 DEF CoverInv
<1> QED
  BY <1>1, <1>5, <1>6 DEF CoverInv

LEMMA CommitInv ==
    ASSUME OrdersTypes, CoverInv, NEW v \in Goods, CommitBox(v)
    PROVE  OrdersTypes' /\ CoverInv'
<1> DEFINE a == amountBoxes[v]
           s == SCALING[v]
<1>1. /\ shown \in Offices
      /\ stock' = [stock EXCEPT ![shown][v] = a * s]
      /\ UNCHANGED <<price, locked, shown, page, amountBoxes, queue, covered>>
  BY DEF CommitBox, resolve_office, OrdersTypes, window, provisions
<1>2. a \in Nat /\ s \in Nat
  BY OrdersAssumption DEF OrdersTypes
<1>3. RequirementsFit /\ <<shown, v>> \in covered => a * s >= Units(shown, v) * s
  <2> SUFFICES ASSUME RequirementsFit, <<shown, v>> \in covered PROVE a * s >= Units(shown, v) * s
    OBVIOUS
  <2> DEFINE u == Units(shown, v)
  <2>1. a >= u /\ u \in Nat
    BY <1>1, RoundedUp DEF CoverInv
  <2> HIDE DEF a, s, u
  <2>2. a - u \in Nat /\ (a - u) * s >= 0
    <3>1. a - u \in Nat
      BY <1>2, <2>1
    <3> QED
      BY <1>2, <3>1
  <2>3. a * s >= u * s
    BY <1>2, <2>1, <2>2
  <2> QED
    BY <2>3 DEF u
<1> HIDE DEF a
<1>4. a * s \in Nat
  <2> HIDE DEF s
  <2> QED
    BY <1>2
<1>5. OrdersTypes'
  BY <1>1, <1>4 DEF OrdersTypes
<1>6. \A o \in Offices, w \in Goods : <<o, w>> # <<shown, v>> => stock'[o][w] = stock[o][w]
  BY <1>1 DEF OrdersTypes
<1>7. stock'[shown][v] = a * s
  BY <1>1 DEF OrdersTypes
<1>8. ASSUME RequirementsFit, NEW o \in Offices, NEW w \in Goods, <<o, w>> \in covered
      PROVE  stock'[o][w] >= Units(o, w) * SCALING[w]
  <2>1. CASE o = shown /\ w = v
    BY <1>3, <1>7, <1>8, <2>1
  <2>2. CASE ~(o = shown /\ w = v)
    BY <1>6, <1>8, <2>2 DEF CoverInv
  <2> QED
    BY <2>1, <2>2
<1> QED
  BY <1>1, <1>5, <1>8 DEF CoverInv

LEMMA TypeInv ==
    ASSUME OrdersTypes, CoverInv, NEW v \in Goods, NEW n \in Typed, TypeAmount(v, n)
    PROVE  OrdersTypes' /\ CoverInv'
<1>1. /\ shown \in Offices
      /\ amountBoxes' = [amountBoxes EXCEPT ![v] = Clamped(n)]
      /\ stock' = [stock EXCEPT ![shown][v] = Clamped(n) * SCALING[v]]
      /\ covered' = covered \ {<<shown, v>>}
      /\ UNCHANGED <<price, locked, shown, page, queue>>
  BY DEF TypeAmount, resolve_office, OrdersTypes, window, Undone
<1>2. Clamped(n) \in Nat /\ SCALING[v] \in Nat
  BY OrdersAssumption DEF Clamped
<1>3. Clamped(n) * SCALING[v] \in Nat
  BY <1>2
<1>4. OrdersTypes'
  BY <1>1, <1>2, <1>3 DEF OrdersTypes
<1>5. \A o \in Offices, w \in Goods : <<o, w>> \in covered' => <<o, w>> \in covered /\ <<o, w>> # <<shown, v>>
  BY <1>1
<1>6. \A o \in Offices, w \in Goods : <<o, w>> # <<shown, v>> =>
          stock'[o][w] = stock[o][w] /\ (o = shown => amountBoxes'[w] = amountBoxes[w])
  BY <1>1 DEF OrdersTypes
<1> QED
  BY <1>1, <1>4, <1>5, <1>6 DEF CoverInv

\* While the queue does not change, nothing that waits becomes covered without being
\* noted as overtaken.
LEMMA QueueKept ==
    ASSUME OrdersTypes, QueuedInv, queue' = queue,
           \A c \in Waiting : c \in covered' \ overtaken' => c \in covered \ overtaken
    PROVE  QueuedInv'
<1>1. ASSUME RequirementsFit, NEW i \in 1 .. Len(queue), NEW op, op = queue[i],
             <<op.office, op.ware>> \in covered' \ overtaken'
      PROVE  op.stock >= Units(op.office, op.ware) * SCALING[op.ware]
  <2>1. i \in DOMAIN queue
    BY DEF OrdersTypes
  <2>2. <<op.office, op.ware>> \in Waiting
    BY <1>1, <2>1 DEF Waiting
  <2> QED
    BY <1>1, <2>2 DEF QueuedInv
<1> QED
  BY <1>1 DEF QueuedInv

LEMMA QueuedStep ==
    ASSUME OrdersTypes, CoverInv, QueuedInv, [OrdersNext]_ordersVars
    PROVE  QueuedInv'
<1>1. CASE on_lock_staples_hotkey
  <2> DEFINE new == Pairs(shown, DOMAIN staples(shown)) \ covered
  <2>1. covered' = covered \cup new /\ overtaken' = overtaken \cup (new \cap Waiting)
    BY <1>1 DEF on_lock_staples_hotkey
  <2>2. queue' = queue
    BY <1>1 DEF on_lock_staples_hotkey, provision_and_lock, Change
  <2> HIDE DEF new
  <2> QED
    BY <2>1, <2>2, QueueKept
<1>2. ASSUME queue' = queue,
             \/ UNCHANGED provisions
             \/ \E pairs : Undone(pairs)
      PROVE  QueuedInv'
  <2>1. \A c : c \in covered' \ overtaken' => c \in covered /\ (c \in overtaken => c \notin covered')
    BY <1>2 DEF provisions, Undone
  <2> QED
    BY <1>2, <2>1, QueueKept
<1>3. CASE OfficeKey
  BY <1>1, <1>2, <1>3 DEF OfficeKey, on_setup_hotkey, on_lock_building_materials_hotkey, provision_and_lock,
     on_reset_office_hotkey, apply_prices, on_price_widget_key, Change
<1>4. CASE CloseWindow
  <2>1. PICK added \in Seq(Op) :
            /\ queue' = queue \o added
            /\ \A i \in 1 .. Len(added) : added[i].stock = stock[added[i].office][added[i].ware]
    BY <1>4, Enqueues
  <2>2. covered' = covered /\ overtaken' = overtaken
    BY <1>4 DEF CloseWindow, provisions
  <2>3. ASSUME RequirementsFit, NEW i \in 1 .. Len(queue'), NEW op, op = queue'[i],
               <<op.office, op.ware>> \in covered \ overtaken
        PROVE  op.stock >= Units(op.office, op.ware) * SCALING[op.ware]
    <3>1. queue \in Seq(Op) /\ Len(queue') = Len(queue) + Len(added)
      BY <2>1 DEF OrdersTypes
    <3>2. CASE i \in 1 .. Len(queue)
      <4>1. op = queue[i]
        BY <2>1, <2>3, <3>1, <3>2
      <4> QED
        BY <2>3, <3>2, <4>1 DEF QueuedInv
    <3>3. CASE i \notin 1 .. Len(queue)
      <4> DEFINE j == i - Len(queue)
      <4>1. j \in 1 .. Len(added) /\ op = added[j]
        BY <2>1, <2>3, <3>1, <3>3
      <4>2. op.stock = stock[op.office][op.ware] /\ op \in Op
        BY <2>1, <4>1
      <4> QED
        BY <2>3, <4>2 DEF CoverInv, Op
    <3> QED
      BY <3>2, <3>3
  <2> QED
    BY <2>2, <2>3 DEF QueuedInv
<1>5. CASE ExecuteOperation
  <2>1. queue \in Seq(Op) /\ queue # << >> /\ queue' = Tail(queue)
    BY <1>5 DEF OrdersTypes, ExecuteOperation
  <2>2. \A c : c \in covered' \ overtaken' => c \in covered \ overtaken
    BY <1>5 DEF ExecuteOperation, Undone
  <2>3. \A i \in 1 .. Len(queue') : queue'[i] = queue[i + 1] /\ i + 1 \in 1 .. Len(queue)
    BY <2>1
  <2>4. ASSUME RequirementsFit, NEW i \in 1 .. Len(queue'), NEW op, op = queue'[i],
               <<op.office, op.ware>> \in covered' \ overtaken'
        PROVE  op.stock >= Units(op.office, op.ware) * SCALING[op.ware]
    BY <2>2, <2>3, <2>4 DEF QueuedInv
  <2> QED
    BY <2>4 DEF QueuedInv
<1>6. ASSUME NEW w \in Goods, \/ ToggleRow(w)
                              \/ CommitBox(w)
                              \/ \E n \in Typed : TypeAmount(w, n)
                              \/ \E p \in Prices : SetOrder(w, p)
      PROVE  QueuedInv'
  BY <1>2, <1>6 DEF ToggleRow, CommitBox, TypeAmount, SetOrder, window
<1>7. ASSUME \/ on_sync
             \/ \E o \in Offices : OpenWindow(o)
             \/ \E p \in BOOLEAN : SelectPage(p)
             \/ UNCHANGED ordersVars
      PROVE  QueuedInv'
  BY <1>2, <1>7 DEF on_sync, OpenWindow, SelectPage, ordersVars
<1> QED
  BY <1>3, <1>4, <1>5, <1>6, <1>7 DEF OrdersNext

LEMMA OrdersStep ==
    OrdersTypes /\ CoverInv /\ QueuedInv /\ [OrdersNext]_ordersVars => OrdersTypes' /\ CoverInv' /\ QueuedInv'
<1> SUFFICES ASSUME OrdersTypes, CoverInv, QueuedInv, [OrdersNext]_ordersVars
             PROVE  OrdersTypes' /\ CoverInv'
  BY QueuedStep
<1>1. ASSUME NEW w \in Goods, ToggleRow(w)
      PROVE  OrdersTypes' /\ CoverInv'
  BY <1>1 DEF ToggleRow, OrdersTypes, CoverInv, provisions
<1>2. ASSUME NEW p \in BOOLEAN, SelectPage(p)
      PROVE  OrdersTypes' /\ CoverInv'
  BY <1>2 DEF SelectPage, OrdersTypes, CoverInv, provisions
<1>3. ASSUME NEW w \in Goods, NEW p \in Prices, SetOrder(w, p)
      PROVE  OrdersTypes' /\ CoverInv'
  <2>1. Levels \subseteq Int
    BY OrdersAssumption
  <2>2. ASSUME NEW l \in Levels, p = -l
        PROVE  p \in Int
    BY <2>1, <2>2
  <2>3. ASSUME p \in Levels \cup {0}
        PROVE  p \in Int
    BY <2>1, <2>3
  <2>4. p \in Int
    BY <2>2, <2>3 DEF Prices
  <2>5. shown \in Offices
    BY <1>3 DEF SetOrder, resolve_office, OrdersTypes, provisions
  <2>6. price' \in [Offices -> [Goods -> Int]]
    BY <1>3, <2>4, <2>5 DEF SetOrder, OrdersTypes, provisions
  <2> QED
    BY <1>3, <2>6 DEF SetOrder, OrdersTypes, CoverInv, window, provisions
<1>4. CASE UNCHANGED ordersVars
  BY <1>4 DEF ordersVars, OrdersTypes, CoverInv, provisions
<1> QED
  BY <1>1, <1>2, <1>3, <1>4, KeysInv, SyncInv, CloseInv, ExecuteInv, OpenInv, CommitInv, TypeInv DEF OrdersNext

LEMMA OrdersStart == OrdersInit => OrdersTypes /\ CoverInv /\ QueuedInv
<1> SUFFICES ASSUME OrdersInit
             PROVE  OrdersTypes /\ CoverInv /\ QueuedInv
  OBVIOUS
<1>1. [w \in Goods |-> 0] \in [Goods -> Int] /\ [w \in Goods |-> 0] \in [Goods -> Nat]
  OBVIOUS
<1> QED
  BY <1>1 DEF OrdersInit, OrdersTypes, CoverInv, QueuedInv

\* For any offices, wares, requirements and box sizes, as long as the boxes can show what has
\* to be provisioned: what CTRL+F1 provisions stays locked and covers the requirement,
\* whatever box the window commits, whatever key is pressed and whatever operations are
\* enqueued and executed later, until the player undoes it or an operation is executed that
\* was waiting before the key was pressed.
THEOREM ProvisionsLast == RequirementsFit => (OrdersSpec => []ProvisionsCover)
<1> SUFFICES ASSUME RequirementsFit
             PROVE  OrdersSpec => []ProvisionsCover
  OBVIOUS
<1>1. OrdersTypes /\ CoverInv => ProvisionsCover
  <2> SUFFICES ASSUME OrdersTypes, CoverInv, NEW c \in covered
               PROVE  c[2] \in locked[c[1]] /\ stock[c[1]][c[2]] >= Required[c[1]][c[2]]
    BY DEF ProvisionsCover
  <2>1. PICK o \in Offices, w \in Goods : c = <<o, w>>
    BY DEF OrdersTypes
  <2>2. w \in locked[o] /\ stock[o][w] >= Units(o, w) * SCALING[w]
    BY <2>1 DEF CoverInv
  <2>3. Units(o, w) * SCALING[w] \in Nat /\ Units(o, w) * SCALING[w] >= Required[o][w]
    BY RoundedUp
  <2>4. stock[o][w] \in Nat /\ Required[o][w] \in Nat
    BY OrdersAssumption DEF OrdersTypes
  <2>5. stock[o][w] >= Required[o][w]
    BY <2>2, <2>3, <2>4
  <2> QED
    BY <2>1, <2>2, <2>5
<1> QED
  BY <1>1, OrdersStart, OrdersStep, PTL DEF OrdersSpec

\* For any offices and wares: nothing that is done in one office's window turns another
\* office's order round, gives it one or takes it away, and what changes there is the price
\* and amount of the office on screen; only the enqueued operations may do more.
THEOREM OrdersRunTheSameWay == OrdersSpec => OthersKeepTheirOrders
<1>1. OrdersTypes /\ [OrdersNext]_ordersVars =>
        [queue' = queue =>
            \A o \in Offices \ {shown} : \A w \in Goods :
                /\ Sign(price'[o][w]) = Sign(price[o][w])
                /\ <<price'[o][w], stock'[o][w]>> \in
                       {<<price[o][w], stock[o][w]>>} \cup
                       (IF shown = Nowhere THEN {} ELSE {<<price[shown][w], stock[shown][w]>>})]_ordersVars
  <2> SUFFICES ASSUME OrdersTypes, OrdersNext, queue' = queue,
                      NEW o \in Offices \ {shown}, NEW w \in Goods
               PROVE  /\ Sign(price'[o][w]) = Sign(price[o][w])
                      /\ \/ price'[o][w] = price[o][w] /\ stock'[o][w] = stock[o][w]
                         \/ /\ shown # Nowhere
                            /\ price'[o][w] = price[shown][w] /\ stock'[o][w] = stock[shown][w]
    BY DEF ordersVars
  <2>1. ASSUME price'[o] = price[o], stock'[o] = stock[o]
        PROVE  /\ Sign(price'[o][w]) = Sign(price[o][w])
               /\ price'[o][w] = price[o][w] /\ stock'[o][w] = stock[o][w]
    BY <2>1
  <2>2. CASE on_sync
    <3>1. /\ shown # Nowhere
          /\ price'[o][w] = IF synced(o, w) THEN price[shown][w] ELSE price[o][w]
          /\ stock'[o][w] = IF synced(o, w) THEN stock[shown][w] ELSE stock[o][w]
      BY <2>2 DEF on_sync, resolve_office
    <3> QED
      BY <3>1 DEF synced
  <2>3. ASSUME NEW p, NEW s, NEW l, Change(p, s, l)
        PROVE  price'[o] = price[o] /\ stock'[o] = stock[o]
    BY <2>3 DEF Change, OrdersTypes
  <2>4. CASE OfficeKey
    <3>1. ASSUME NEW v \in Goods, NEW level \in Levels, on_price_widget_key(v, level)
          PROVE  price'[o] = price[o] /\ stock'[o] = stock[o]
      BY <3>1 DEF on_price_widget_key, OrdersTypes
    <3> QED
      BY <2>1, <2>3, <2>4, <3>1 DEF OfficeKey, on_setup_hotkey, on_lock_staples_hotkey,
         on_lock_building_materials_hotkey, provision_and_lock, on_reset_office_hotkey, apply_prices
  <2>5. ~ExecuteOperation
    <3>1. SUFFICES ASSUME ExecuteOperation PROVE FALSE
      OBVIOUS
    <3>2. queue \in Seq(Op) /\ queue # << >> /\ queue' = Tail(queue)
      BY <3>1 DEF ExecuteOperation, OrdersTypes
    <3>3. Len(queue') = Len(queue) - 1 /\ Len(queue) \in Nat
      BY <3>2
    <3> QED
      BY <3>3
  <2>6. ASSUME NEW v \in Goods, \/ ToggleRow(v)
                                \/ CommitBox(v)
                                \/ \E n \in Typed : TypeAmount(v, n)
                                \/ \E p \in Prices : SetOrder(v, p)
        PROVE  price'[o] = price[o] /\ stock'[o] = stock[o]
    BY <2>6 DEF ToggleRow, CommitBox, TypeAmount, SetOrder, OrdersTypes
  <2>7. ASSUME \/ CloseWindow
               \/ \E t \in Offices : OpenWindow(t)
               \/ \E p \in BOOLEAN : SelectPage(p)
        PROVE  price'[o] = price[o] /\ stock'[o] = stock[o]
    BY <2>7 DEF CloseWindow, OpenWindow, SelectPage
  <2> QED
    BY <2>1, <2>2, <2>4, <2>5, <2>6, <2>7 DEF OrdersNext
<1> QED
  BY <1>1, OrdersStart, OrdersStep, PTL DEF OrdersSpec, OthersKeepTheirOrders

-----------------------------------------------------------------------------
(* The goods dialog (GoodsDialog).                                         *)

Stops == DOMAIN Route

\* A record's fields and slots.
RecordShape(record) ==
    /\ DOMAIN record = {"price", "amount", "order"}
    /\ DOMAIN record.price = Rows /\ DOMAIN record.amount = Rows

Recorded(st) == DOMAIN st = Stops /\ \A s \in Stops : RecordShape(st[s])

\* Only an open dialog has a row being typed in, and no clean-up is under way for what F1
\* has set up, unless it was when F1 was pressed.
DialogShape ==
    /\ Recorded(stops)
    /\ display \in Stops \cup {0}
    /\ display = 0 => row = 0
    /\ setUp \subseteq Stops \X Rows
    /\ \A c \in setUp \cap cleanUp : c \in raced
    /\ \A c \in cleanUp : c = <<c[1], c[2]>>

Holds(st, slots, excused) ==
    \A c \in slots : st[c[1]].amount[c[2]] # 0 /\ (st[c[1]].price[c[2]] # 0 \/ c \in excused)

\* Committing a row writes one slot of the record.
LEMMA CommitKeeps ==
    ASSUME NEW record, RecordShape(record)
    PROVE  /\ RecordShape(Committed(record))
           /\ \A w \in Rows : <<display, w>> \notin Rewritten(record)
                  => /\ Committed(record).amount[w] = record.amount[w]
                     /\ Committed(record).price[w] = record.price[w]
<1>1. CASE row = 0
  BY <1>1 DEF Committed
<1>2. CASE row # 0
  <2> DEFINE v == record.order[row]
  <2>1. Committed(record) = [record EXCEPT !.price[v] = rowBoxes[v].price, !.amount[v] = rowBoxes[v].amount]
    BY <1>2 DEF Committed
  <2>2. Rewritten(record) = {<<display, v>>}
    BY <1>2 DEF Rewritten
  <2> HIDE DEF v
  <2> QED
    BY <2>1, <2>2 DEF RecordShape
<1> QED
  BY <1>1, <1>2

\* A record written over the one on display: the slots of the others are as they were.
LEMMA WrittenHolds ==
    ASSUME DialogShape, SetupHolds, display \in Stops,
           NEW record, RecordShape(record), NEW slots \in SUBSET (Stops \X Rows), NEW excused,
           \A c \in slots : c[1] # display => c \in setUp /\ (c \in raced => c \in excused),
           \A w \in Rows : <<display, w>> \in slots =>
               record.amount[w] # 0 /\ (record.price[w] # 0 \/ <<display, w>> \in excused)
    PROVE  /\ Recorded([stops EXCEPT ![display] = record])
           /\ Holds([stops EXCEPT ![display] = record], slots, excused)
<1> DEFINE after == [stops EXCEPT ![display] = record]
<1>1. Recorded(after) /\ after[display] = record /\ \A s \in Stops \ {display} : after[s] = stops[s]
  BY DEF DialogShape, Recorded
<1> HIDE DEF after
<1>2. ASSUME NEW c \in slots
      PROVE  after[c[1]].amount[c[2]] # 0 /\ (after[c[1]].price[c[2]] # 0 \/ c \in excused)
  <2>1. PICK s \in Stops, w \in Rows : c = <<s, w>>
    OBVIOUS
  <2>2. CASE s = display
    BY <1>1, <2>1, <2>2
  <2>3. CASE s # display
    <3>1. c \in setUp /\ (c \in raced => c \in excused) /\ after[s] = stops[s]
      BY <1>1, <2>1, <2>3
    <3>2. stops[s].amount[w] # 0 /\ (stops[s].price[w] # 0 \/ c \in raced)
      BY <2>1, <3>1 DEF SetupHolds
    <3> QED
      BY <2>1, <3>1, <3>2
  <2> QED
    BY <2>2, <2>3
<1>3. Holds(after, slots, excused)
  BY <1>2 DEF Holds
<1> QED
  BY <1>1, <1>3 DEF after

\* Leaving a row keeps the other slots.
LEMMA LeaveHolds ==
    ASSUME DialogShape, SetupHolds, LeaveRow
    PROVE  /\ Recorded(stops') /\ SetupHolds'
           /\ setUp' \subseteq Stops \X Rows
           /\ setUp' \cap cleanUp \subseteq raced'
           /\ \A s \in Stops, w \in Rows : <<s, w>> \in setUp' => stops'[s].amount[w] # 0
<1>1. setUp' \subseteq setUp /\ raced' = raced \cap setUp'
  BY DEF LeaveRow
<1>2. Recorded(stops') /\ Holds(stops', setUp', raced')
  <2>1. CASE row = 0
    BY <1>1, <2>1 DEF LeaveRow, DialogShape, SetupHolds, Holds
  <2>2. CASE row # 0
    <3> DEFINE record == Committed(stops[display])
    <3>1. display \in Stops /\ RecordShape(stops[display])
      BY <2>2 DEF DialogShape, Recorded
    <3>2. stops' = [stops EXCEPT ![display] = record] /\ setUp' = setUp \ Rewritten(stops[display])
      BY <2>2 DEF LeaveRow
    <3>3. /\ RecordShape(record)
          /\ \A w \in Rows : <<display, w>> \notin Rewritten(stops[display])
                 => record.amount[w] = stops[display].amount[w] /\ record.price[w] = stops[display].price[w]
      BY <3>1, CommitKeeps
    <3> HIDE DEF record
    <3>4. \A w \in Rows : <<display, w>> \in setUp' =>
              record.amount[w] # 0 /\ (record.price[w] # 0 \/ <<display, w>> \in raced')
      <4> SUFFICES ASSUME NEW w \in Rows, <<display, w>> \in setUp'
                   PROVE  record.amount[w] # 0 /\ (record.price[w] # 0 \/ <<display, w>> \in raced')
        OBVIOUS
      <4>1. <<display, w>> \in setUp /\ <<display, w>> \notin Rewritten(stops[display])
        BY <3>2
      <4> QED
        BY <1>1, <3>3, <4>1 DEF SetupHolds
    <3>5. setUp' \in SUBSET (Stops \X Rows)
      BY <1>1 DEF DialogShape
    <3>6. \A c \in setUp' : c \in setUp /\ (c \in raced => c \in raced')
      BY <1>1
    <3> QED
      BY <3>1, <3>2, <3>3, <3>4, <3>5, <3>6, WrittenHolds
  <2> QED
    BY <2>1, <2>2
<1>3. setUp' \subseteq Stops \X Rows /\ setUp' \cap cleanUp \subseteq raced'
  BY <1>1 DEF DialogShape
<1>4. SetupHolds'
  BY <1>2 DEF SetupHolds, Holds
<1>5. ASSUME NEW s \in Stops, NEW w \in Rows, <<s, w>> \in setUp' PROVE stops'[s].amount[w] # 0
  BY <1>2, <1>5 DEF Holds
<1> QED
  BY <1>2, <1>3, <1>4, <1>5

\* Writing a record and showing it again: the row left pending is committed over it.
LEMMA RefreshHolds ==
    ASSUME DialogShape, SetupHolds, display # 0,
           NEW record, RecordShape(record), NEW made \in SUBSET Rows, NEW unmade,
           refresh_goods_dialog(record, made, unmade),
           \A w \in Rows \ unmade :
               /\ w \in made => record.amount[w] # 0 /\ record.price[w] # 0
               /\ w \notin made /\ <<display, w>> \in setUp =>
                      record.amount[w] # 0 /\ (record.price[w] # 0 \/ <<display, w>> \in raced)
    PROVE  DialogShape' /\ SetupHolds'
<1>1. display \in Stops
  BY DEF DialogShape
<1> DEFINE after == Committed(record)
           slots == {display} \X made
<1>2. /\ stops' = [stops EXCEPT ![display] = after]
      /\ setUp' = ((setUp \cup slots) \ ({display} \X unmade)) \ Rewritten(record)
      /\ raced' = setUp' \cap ((raced \ slots) \cup (slots \cap cleanUp))
      /\ cleanUp' = cleanUp \cup Enqueued(display, after)
      /\ row' = 0 /\ display' = display
  BY DEF refresh_goods_dialog
<1>3. /\ RecordShape(after)
      /\ \A w \in Rows : <<display, w>> \notin Rewritten(record)
             => after.amount[w] = record.amount[w] /\ after.price[w] = record.price[w]
  BY CommitKeeps
<1> HIDE DEF after
<1>4. setUp' \in SUBSET (Stops \X Rows)
  BY <1>1, <1>2 DEF DialogShape
<1>5. \A w \in Rows : <<display, w>> \in setUp' =>
          after.amount[w] # 0 /\ (after.price[w] # 0 \/ <<display, w>> \in raced')
  <2> SUFFICES ASSUME NEW w \in Rows, <<display, w>> \in setUp'
               PROVE  after.amount[w] # 0 /\ (after.price[w] # 0 \/ <<display, w>> \in raced')
    OBVIOUS
  <2>1. w \in Rows \ unmade /\ <<display, w>> \notin Rewritten(record) /\ (<<display, w>> \in setUp \/ w \in made)
    BY <1>2
  <2>2. after.amount[w] = record.amount[w] /\ after.price[w] = record.price[w]
    BY <1>3, <2>1
  <2>3. CASE w \in made
    BY <2>1, <2>2, <2>3
  <2>4. CASE w \notin made
    <3>1. record.amount[w] # 0 /\ (record.price[w] # 0 \/ <<display, w>> \in raced)
      BY <2>1, <2>4
    <3>2. <<display, w>> \in raced => <<display, w>> \in raced'
      BY <1>2, <2>4
    <3> QED
      BY <2>2, <3>1, <3>2
  <2> QED
    BY <2>3, <2>4
<1>6. \A c \in setUp' : c[1] # display => c \in setUp /\ (c \in raced => c \in raced')
  <2> SUFFICES ASSUME NEW c \in setUp', c[1] # display PROVE c \in setUp /\ (c \in raced => c \in raced')
    OBVIOUS
  <2>1. c \notin slots
    OBVIOUS
  <2> QED
    BY <1>2, <2>1
<1>7. Recorded(stops') /\ Holds(stops', setUp', raced')
  <2>1. stops' = [stops EXCEPT ![display] = after] /\ RecordShape(after)
    BY <1>2, <1>3
  <2> QED
    BY ONLY DialogShape, SetupHolds, <1>1, <1>4, <1>5, <1>6, <2>1, WrittenHolds
<1>8. setUp' \cap cleanUp' \subseteq raced'
  <2> SUFFICES ASSUME NEW c \in setUp', c \in cleanUp' PROVE c \in raced'
    OBVIOUS
  <2>1. CASE c \in Enqueued(display, after)
    <3>1. PICK w \in Rows : c = <<display, w>> /\ after.amount[w] = 0
      BY <2>1 DEF Enqueued
    <3> QED
      BY <1>5, <3>1
  <2>2. CASE c \in cleanUp
    BY <1>2, <2>2 DEF DialogShape
  <2> QED
    BY <1>2, <2>1, <2>2
<1>9. \A c \in cleanUp' : c = <<c[1], c[2]>>
  BY <1>2 DEF DialogShape, Enqueued
<1> QED
  BY <1>1, <1>2, <1>4, <1>7, <1>8, <1>9 DEF DialogShape, SetupHolds, Holds

LEMMA StopLevel == STOP_LEVEL \in PriceLevels /\ STOP_LEVEL \in Nat \ {0}
<1>1. \E l \in PriceLevels : \A m \in PriceLevels : l <= m
  BY DialogAssumption
<1>2. STOP_LEVEL \in PriceLevels
  BY <1>1 DEF STOP_LEVEL
<1> QED
  BY <1>2, DialogAssumption

LEMMA DialogKeysHold ==
    ASSUME DialogShape, SetupHolds,
           \/ \E sell \in BOOLEAN, l \in PriceLevels : reprice_dialog_stop(sell, l)
           \/ \E days \in {1, LapFactor} : on_dialog_load_quantities_hotkey(days)
           \/ \E skip \in BOOLEAN : on_dialog_setup_hotkey(skip)
    PROVE  DialogShape' /\ SetupHolds'
<1> DEFINE record == stops[display]
<1>0. display # 0 => RecordShape(record)
  BY DEF DialogShape, Recorded
<1>1. ASSUME NEW sell \in BOOLEAN, NEW l \in PriceLevels, reprice_dialog_stop(sell, l)
      PROVE  DialogShape' /\ SetupHolds'
  <2> DEFINE price_ == repriced(record, sell, l)
             new == [record EXCEPT !.price = price_]
  <2>1. display # 0 /\ l # 0 /\ -l # 0
    BY <1>1, DialogAssumption DEF reprice_dialog_stop
  <2>2. CASE UNCHANGED dialogVars
    BY <2>2 DEF dialogVars, DialogShape, SetupHolds
  <2>3. CASE refresh_goods_dialog(new, {}, {})
    <3>1. DOMAIN price_ = Rows /\ \A w \in Rows : record.price[w] # 0 => price_[w] # 0
      BY <2>1 DEF repriced
    <3> HIDE DEF price_
    <3>2. RecordShape(new) /\ new.amount = record.amount /\ new.price = price_
      BY <1>0, <2>1, <3>1 DEF RecordShape
    <3>3. \A w \in Rows : <<display, w>> \in setUp =>
              new.amount[w] # 0 /\ (new.price[w] # 0 \/ <<display, w>> \in raced)
      BY <3>1, <3>2 DEF SetupHolds
    <3> HIDE DEF new
    <3> QED
      BY <2>1, <2>3, <3>2, <3>3, RefreshHolds
  <2> QED
    BY <1>1, <2>2, <2>3 DEF reprice_dialog_stop
<1>2. ASSUME NEW days \in {1, LapFactor}, on_dialog_load_quantities_hotkey(days)
      PROVE  DialogShape' /\ SetupHolds'
  <2> DEFINE towns == {Route[i] : i \in DOMAIN Route} \ {Route[1]}
             amount_ == supply_load_for_towns(towns, days)
             new == [record EXCEPT !.amount = amount_]
  <2>1. display # 0 /\ refresh_goods_dialog(new, {}, Rows)
    BY <1>2 DEF on_dialog_load_quantities_hotkey
  <2>2. DOMAIN amount_ = Rows
    BY Zenon DEF supply_load_for_towns
  <2> HIDE DEF amount_
  <2>3. RecordShape(new)
    BY <1>0, <2>1, <2>2 DEF RecordShape
  <2> HIDE DEF new
  <2> QED
    BY <2>1, <2>3, RefreshHolds
<1>3. ASSUME NEW skip \in BOOLEAN, on_dialog_setup_hotkey(skip)
      PROVE  DialogShape' /\ SetupHolds'
  <2> DEFINE unused == free(record)
             bought == {w \in Production[Route[display]] : ~(skip /\ w \in NO_BUY_WARES)}
             amount_ == [w \in Rows |-> IF w \in unused THEN MAX_AMOUNT ELSE record.amount[w]]
             price_ == [w \in Rows |-> IF w \notin unused THEN record.price[w]
                                       ELSE IF w \in bought THEN -STOP_LEVEL ELSE STOP_LEVEL]
             order_ == cargo_order(amount_)
             new == [price |-> price_, amount |-> amount_, order |-> order_]
  <2>1. display # 0 /\ refresh_goods_dialog(new, Unused(display), {})
    BY <1>3 DEF on_dialog_setup_hotkey
  <2>2. unused = Unused(display) /\ Unused(display) \in SUBSET Rows
    BY DEF free, Unused
  <2>3. MAX_AMOUNT # 0 /\ STOP_LEVEL # 0 /\ -STOP_LEVEL # 0
    BY StopLevel, DialogAssumption
  <2>4. \A w \in Rows :
            /\ w \in unused => amount_[w] # 0 /\ price_[w] # 0
            /\ w \notin unused /\ <<display, w>> \in setUp =>
                   amount_[w] # 0 /\ (price_[w] # 0 \/ <<display, w>> \in raced)
    BY <2>3 DEF SetupHolds
  <2> HIDE DEF order_
  <2>5. RecordShape(new)
    BY DEF RecordShape
  <2> HIDE DEF amount_, price_
  <2>6. \A w \in Rows :
            /\ w \in unused => new.amount[w] # 0 /\ new.price[w] # 0
            /\ w \notin unused /\ <<display, w>> \in setUp =>
                   new.amount[w] # 0 /\ (new.price[w] # 0 \/ <<display, w>> \in raced)
    BY <2>4
  <2> HIDE DEF new, unused
  <2> QED
    BY <2>1, <2>2, <2>5, <2>6, RefreshHolds
<1> QED
  BY <1>1, <1>2, <1>3

LEMMA DialogStep == DialogShape /\ SetupHolds /\ [DialogNext]_dialogVars => DialogShape' /\ SetupHolds'
<1> SUFFICES ASSUME DialogShape, SetupHolds, [DialogNext]_dialogVars
             PROVE  DialogShape' /\ SetupHolds'
  OBVIOUS
<1>1. ASSUME LeaveRow, display' \in Stops \cup {0}, display' = 0 => row' = 0,
             \/ cleanUp' = cleanUp
             \/ \E s \in Stops : cleanUp' = cleanUp \cup Enqueued(s, stops'[s])
      PROVE  DialogShape' /\ SetupHolds'
  <2>1. /\ Recorded(stops') /\ SetupHolds'
        /\ setUp' \subseteq Stops \X Rows
        /\ setUp' \cap cleanUp \subseteq raced'
        /\ \A s \in Stops, w \in Rows : <<s, w>> \in setUp' => stops'[s].amount[w] # 0
    BY <1>1, LeaveHolds
  <2>2. ASSUME NEW c \in setUp', c \in cleanUp' PROVE c \in raced'
    <3>1. CASE c \in cleanUp
      BY <2>1, <2>2, <3>1
    <3>2. CASE c \notin cleanUp
      <4>1. PICK s \in Stops : c \in Enqueued(s, stops'[s])
        BY <1>1, <2>2, <3>2
      <4>2. PICK w \in Rows : c = <<s, w>> /\ stops'[s].amount[w] = 0
        BY <4>1 DEF Enqueued
      <4> QED
        BY <2>1, <2>2, <4>2
    <3> QED
      BY <3>1, <3>2
  <2>3. \A c \in cleanUp' : c = <<c[1], c[2]>>
    BY <1>1 DEF DialogShape, Enqueued
  <2> QED
    BY <1>1, <2>1, <2>2, <2>3 DEF DialogShape
<1>2. ASSUME NEW s \in Visited, populate(s)
      PROVE  DialogShape' /\ SetupHolds'
  <2>1. s \in Stops
    BY DialogAssumption DEF Stops
  <2>2. LeaveRow /\ cleanUp' = cleanUp \cup Enqueued(s, stops'[s]) /\ display' = s /\ row' = 0
    BY <1>2 DEF populate
  <2> QED
    BY <1>1, <2>1, <2>2
<1>3. CASE close
  BY <1>1, <1>3 DEF close
<1>4. ASSUME NEW w \in Rows, NEW p, NEW a, TypeInRow(w, p, a)
      PROVE  DialogShape' /\ SetupHolds'
  <2>1. display # 0 /\ display' = display /\ cleanUp' = cleanUp /\ display \in Stops \cup {0}
    BY <1>4 DEF TypeInRow, DialogShape
  <2>2. CASE UNCHANGED <<stops, setUp, raced>>
    BY <2>1, <2>2 DEF DialogShape, SetupHolds
  <2>3. CASE LeaveRow
    BY <1>1, <2>1, <2>3
  <2> QED
    BY <1>4, <2>2, <2>3 DEF TypeInRow
<1>5. ASSUME NEW w \in Rows, NEW l \in PriceLevels, on_dialog_price_widget_key(w, l)
      PROVE  DialogShape' /\ SetupHolds'
  BY <1>4, <1>5 DEF on_dialog_price_widget_key
<1>6. ASSUME NEW c \in cleanUp, cleanUp' = cleanUp \ {c},
             \/ stops' = [stops EXCEPT ![c[1]].price[c[2]] = 0]
             \/ UNCHANGED stops,
             UNCHANGED <<display, row, setUp, raced>>
      PROVE  DialogShape' /\ SetupHolds'
  <2>1. CASE stops' = stops
    BY <1>6, <2>1 DEF DialogShape, SetupHolds
  <2>2. CASE stops' = [stops EXCEPT ![c[1]].price[c[2]] = 0]
    <3>1. Recorded(stops')
      BY <2>2 DEF DialogShape, Recorded, RecordShape
    <3>2. ASSUME NEW d \in setUp
          PROVE  stops'[d[1]].amount[d[2]] # 0 /\ (stops'[d[1]].price[d[2]] # 0 \/ d \in raced)
      <4>1. PICK s \in Stops, w \in Rows : d = <<s, w>>
        BY DEF DialogShape
      <4>2. stops'[s].amount[w] = stops[s].amount[w]
        BY <2>2 DEF DialogShape, Recorded, RecordShape
      <4>3. CASE d \in cleanUp
        BY <4>1, <4>2, <4>3 DEF DialogShape, SetupHolds
      <4>4. CASE d \notin cleanUp
        <5>2. ~(c[1] = s /\ c[2] = w)
          BY <1>6, <4>1, <4>4 DEF DialogShape
        <5>3. stops'[s].price[w] = stops[s].price[w]
          BY <2>2, <5>2 DEF DialogShape, Recorded, RecordShape
        <5> QED
          BY <4>1, <4>2, <5>3 DEF SetupHolds
      <4> QED
        BY <4>3, <4>4
    <3> QED
      BY <1>6, <3>1, <3>2 DEF DialogShape, SetupHolds
  <2> QED
    BY <1>6, <2>1, <2>2
<1>7. CASE CleanSlot
  BY <1>6, <1>7 DEF CleanSlot
<1>8. CASE UNCHANGED dialogVars
  BY <1>8 DEF dialogVars, DialogShape, SetupHolds
<1> QED
  BY <1>2, <1>3, <1>4, <1>5, <1>7, <1>8, DialogKeysHold DEF DialogNext, DialogKey

\* For any wares, price levels, routes and towns: what F1 sets up in the goods dialog stays
\* an instruction, whatever the dialog had left to commit or to clean up, except a slot the
\* pending row is committed over and until the quantities are filled in; it keeps a price
\* unless a clean-up of the slot was under way when F1 was pressed.
THEOREM SetupIsNotCleanedAway == DialogSpec => []SetupHolds
<1>1. DialogInit => DialogShape /\ SetupHolds
  BY DEF DialogInit, DialogShape, Recorded, RecordShape, SetupHolds, Stops
<1> QED
  BY <1>1, DialogStep, PTL DEF DialogSpec

=============================================================================
