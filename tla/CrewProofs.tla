----------------------------- MODULE CrewProofs -----------------------------
(***************************************************************************)
(* Proofs about who is aboard. The captains: their retirement, for any     *)
(* captains, ships and task slots, and their table on the tavern's page,   *)
(* for any captains, ranks and heights of the window. The crews: their     *)
(* rescue, for any ships, crews and taverns.                               *)
(***************************************************************************)
EXTENDS CaptainRetirement, CaptainsTable, CrewRescue, Induction, SequenceTheorems

\* What a step may do to captains, flags and tasks, free of the rest: the five ways the
\* invariant can be disturbed.
Quiet == UNCHANGED <<captain, flag, tasks, retired, searching>>

Scheduled(s, k) ==
    /\ captain[s] \in Captains /\ ~flag[captain[s]] /\ tasks[k] = None
    /\ tasks' = [tasks EXCEPT ![k] = [ship |-> s, captain |-> captain[s]]]
    /\ flag' = [flag EXCEPT ![captain[s]] = TRUE]
    /\ UNCHANGED <<captain, retired, searching>>

Postponed(k, s, c) ==
    /\ tasks[k] # None /\ tasks[k].captain = c /\ captain[s] = c
    /\ tasks' = [tasks EXCEPT ![k] = [ship |-> s, captain |-> c]]
    /\ UNCHANGED <<captain, flag, retired, searching>>

Retires(k, s, c) ==
    /\ tasks[k] # None /\ tasks[k].captain = c /\ captain[s] = c
    /\ captain' = [captain EXCEPT ![s] = None]
    /\ retired' = retired \cup {c}
    /\ flag' = [flag EXCEPT ![c] = FALSE]
    /\ tasks' = [tasks EXCEPT ![k] = None]
    /\ UNCHANGED searching

Dropped(k, c) ==
    /\ tasks[k] # None /\ tasks[k].captain = c /\ ~Aboard(c)
    /\ flag' = [flag EXCEPT ![c] = FALSE]
    /\ tasks' = [tasks EXCEPT ![k] = None]
    /\ UNCHANGED <<captain, retired, searching>>

Swapped ==
    /\ \E s \in Ships, c \in Captains \cup {None} :
          /\ c = None \/ (~Aboard(c) /\ c \notin retired)
          /\ captain' = [captain EXCEPT ![s] = c]
    /\ UNCHANGED <<flag, tasks, retired, searching>>

\* A captain is on one ship at most: without it a retired one might still be aboard.
OneShip == \A s, t \in Ships : captain[s] = captain[t] /\ captain[s] # None => s = t

Inv == TypeOK /\ NeverSearches /\ OneShip /\ FlagMeansQueued /\ RetiredForGood

\* A hook's run under the invariant is one of three things and never the search.
LEMMA HookOutcomes ==
    ASSUME TypeOK, NEW k \in Slots, retire_handler_hook(k)
    PROVE  \E c \in Captains :
              \/ \E s \in Ships : Postponed(k, s, c) \/ Retires(k, s, c)
              \/ Dropped(k, c)
<1> DEFINE c == tasks[k].captain
<1>1. tasks[k] # None /\ tasks[k] \in Task
  BY RetirementAssumption DEF retire_handler_hook, TypeOK
<1>2. c \in Captains /\ tasks[k].ship \in Ships
  BY <1>1 DEF Task
<1>3. ASSUME NEW s \in Ships, captain[s] = c, original(k, s, c)
      PROVE Postponed(k, s, c) \/ Retires(k, s, c)
  BY <1>1, <1>3 DEF original, Postponed, Retires
<1>4. CASE pair_matches(tasks[k].ship, c)
  <2>1. original(k, tasks[k].ship, c) /\ captain[tasks[k].ship] = c
    BY <1>4 DEF retire_handler_hook, pair_matches
  <2> QED
    BY <1>2, <1>3, <2>1
<1>5. CASE ~pair_matches(tasks[k].ship, c)
  <2>1. \/ \E s \in Ships : Found(c, s) /\ original(k, s, c)
        \/ ~Aboard(c) /\ Drop(k, c)
    BY <1>5 DEF retire_handler_hook
  <2>2. CASE \E s \in Ships : Found(c, s) /\ original(k, s, c)
    <3>1. PICK s \in Ships : Found(c, s) /\ original(k, s, c)
      BY <2>2
    <3>2. captain[s] = c
      BY <3>1 DEF Found
    <3> QED
      BY <1>2, <1>3, <3>1, <3>2
  <2>3. CASE ~Aboard(c) /\ Drop(k, c)
    <3>1. Dropped(k, c)
      BY <1>1, <2>3 DEF Drop, Dropped, clear_retirement_flag
    <3> QED
      BY <1>2, <3>1
  <2> QED
    BY <2>1, <2>2, <2>3
<1> QED
  BY <1>4, <1>5

LEMMA Outcomes ==
    ASSUME TypeOK, [Next]_vars
    PROVE  \/ Quiet \/ Swapped
           \/ \E s \in Ships, k \in Slots : Scheduled(s, k)
           \/ \E k \in Slots, c \in Captains :
                 \/ \E s \in Ships : Postponed(k, s, c) \/ Retires(k, s, c)
                 \/ Dropped(k, c)
<1>1. ASSUME NEW k \in Slots, retire_handler_hook(k)
      PROVE \E c \in Captains :
               \/ \E s \in Ships : Postponed(k, s, c) \/ Retires(k, s, c)
               \/ Dropped(k, c)
  BY <1>1, HookOutcomes
<1>2. ASSUME NEW c \in Captains, Ages(c) PROVE Quiet
  BY <1>2 DEF Ages, Quiet, ships
<1>3. ASSUME NEW s \in Ships, Scan(s) PROVE \E k \in Slots : Scheduled(s, k)
  <2>1. captain[s] \in Captains
    BY <1>3 DEF Scan, TypeOK
  <2> QED
    BY <1>3, <2>1 DEF Scan, Scheduled, ships
<1>4. ASSUME NEW s \in Ships, Leaves(s) PROVE Swapped
  BY <1>4 DEF Leaves, Moving, Swapped
<1>5. ASSUME NEW s \in Ships, ConvoyChanges(s) \/ OwnerChanges(s) PROVE Quiet
  BY <1>5 DEF ConvoyChanges, OwnerChanges, Moving, Quiet
<1>6. ASSUME NEW s \in Ships, NEW c \in Captains, Hired(c, s) PROVE Swapped
  BY <1>6 DEF Hired, Moving, Swapped
<1>7. CASE UNCHANGED vars
  BY <1>7 DEF vars, ships, Quiet
<1> QED
  BY <1>1, <1>2, <1>3, <1>4, <1>5, <1>6, <1>7 DEF Next

LEMMA StepTyped == TypeOK /\ [Next]_vars => TypeOK'
<1> SUFFICES ASSUME TypeOK, [Next]_vars PROVE TypeOK'
  OBVIOUS
<1>1. leading' \subseteq Ships /\ ownerless' \subseteq Ships /\ old' \subseteq Captains
      /\ moves' \in Nat
  <2>1. CASE \E k \in Slots : retire_handler_hook(k)
    BY <2>1 DEF retire_handler_hook, TypeOK
  <2>2. CASE \E c \in Captains : Ages(c)
    BY <2>2 DEF Ages, ships, TypeOK
  <2>3. CASE \E s \in Ships : Scan(s)
    BY <2>3 DEF Scan, ships, TypeOK
  <2>4. CASE \E s \in Ships : Leaves(s) \/ ConvoyChanges(s) \/ OwnerChanges(s)
                              \/ \E c \in Captains : Hired(c, s)
    BY <2>4 DEF Leaves, ConvoyChanges, OwnerChanges, Hired, Moving, TypeOK
  <2>5. CASE UNCHANGED vars
    BY <2>5 DEF vars, ships, TypeOK
  <2> QED
    BY <2>1, <2>2, <2>3, <2>4, <2>5 DEF Next
<1> DEFINE Rest == /\ captain' \in [Ships -> Captains \cup {None}] /\ retired' \subseteq Captains
                   /\ flag' \in [Captains -> BOOLEAN] /\ tasks' \in [Slots -> Task \cup {None}]
                   /\ searching' \in BOOLEAN
<1>2. CASE Quiet
  BY <1>1, <1>2 DEF Quiet, TypeOK
<1>3. CASE Swapped
  BY <1>1, <1>3 DEF Swapped, TypeOK
<1>4. ASSUME NEW s \in Ships, NEW k \in Slots, Scheduled(s, k) PROVE Rest
  <2>1. [ship |-> s, captain |-> captain[s]] \in Task
    BY <1>4 DEF Scheduled, Task
  <2> QED
    BY <1>4, <2>1 DEF Scheduled, TypeOK
<1>5. ASSUME NEW s \in Ships, NEW k \in Slots, NEW c \in Captains, Postponed(k, s, c) PROVE Rest
  <2>1. [ship |-> s, captain |-> c] \in Task
    BY DEF Task
  <2> QED
    BY <1>5, <2>1 DEF Postponed, TypeOK
<1>6. ASSUME NEW s \in Ships, NEW k \in Slots, NEW c \in Captains, Retires(k, s, c) PROVE Rest
  BY <1>6 DEF Retires, TypeOK
<1>7. ASSUME NEW k \in Slots, NEW c \in Captains, Dropped(k, c) PROVE Rest
  BY <1>7 DEF Dropped, TypeOK
<1>8. Rest => TypeOK'
  BY <1>1 DEF TypeOK
<1> QED
  BY Outcomes, <1>2, <1>3, <1>4, <1>5, <1>6, <1>7, <1>8

\* FlagMeansQueued without the set: what the slots say of a captain.
Named(k, c) == tasks[k] # None /\ tasks[k].captain = c
FlagAndSlots ==
    \A c \in Captains :
        /\ flag[c] => \E k \in Slots : Named(k, c)
        /\ \A k \in Slots : Named(k, c) => flag[c]
        /\ \A k, l \in Slots : Named(k, c) /\ Named(l, c) => k = l

LEMMA SameFlags == FlagMeansQueued <=> FlagAndSlots
BY DEF FlagMeansQueued, FlagAndSlots, Queued, Named

LEMMA FlagsKept == Inv /\ [Next]_vars => FlagAndSlots'
<1> SUFFICES ASSUME Inv, [Next]_vars PROVE FlagAndSlots'
  OBVIOUS
<1>a. TypeOK /\ TypeOK' /\ FlagAndSlots
  BY StepTyped, SameFlags DEF Inv
<1>t. tasks \in [Slots -> Task \cup {None}] /\ flag \in [Captains -> BOOLEAN]
  BY <1>a DEF TypeOK
<1>1. CASE Quiet \/ Swapped
  BY <1>1, <1>a DEF Quiet, Swapped, FlagAndSlots, Named
<1>2. ASSUME NEW s \in Ships, NEW k \in Slots, Scheduled(s, k) PROVE FlagAndSlots'
  <2> DEFINE new == [ship |-> s, captain |-> captain[s]]
  <2>1. new # None /\ new.captain = captain[s] /\ captain[s] \in Captains
    BY <1>2, RetirementAssumption DEF Scheduled
  <2>2. \A l \in Slots : tasks'[l] = IF l = k THEN new ELSE tasks[l]
    BY <1>2, <1>t DEF Scheduled
  <2>3. \A c \in Captains : flag'[c] = IF c = captain[s] THEN TRUE ELSE flag[c]
    BY <1>2, <1>t DEF Scheduled
  <2>4. tasks[k] = None /\ ~flag[captain[s]]
    BY <1>2 DEF Scheduled
  <2>5. \A l \in Slots, c \in Captains :
           Named(l, c)' <=> (IF l = k THEN c = captain[s] ELSE Named(l, c))
    BY <2>1, <2>2 DEF Named
  <2>6. \A l \in Slots : ~Named(l, captain[s])
    BY <1>a, <2>1, <2>4 DEF FlagAndSlots
  <2>7. \A c \in Captains : ~Named(k, c)
    BY <2>4 DEF Named
  <2> HIDE DEF new
  <2>8. ASSUME NEW d \in Captains, flag'[d] PROVE \E l \in Slots : Named(l, d)'
    <3>1. CASE d = captain[s]
      BY <2>5, <3>1
    <3>2. CASE d # captain[s]
      <4>1. flag[d]
        BY <2>3, <2>8, <3>2
      <4>2. PICK l \in Slots : Named(l, d)
        BY <1>a, <4>1 DEF FlagAndSlots
      <4>3. l # k
        BY <2>7, <4>2
      <4> QED
        BY <2>5, <4>2, <4>3
    <3> QED
      BY <3>1, <3>2
  <2>9. ASSUME NEW d \in Captains, NEW l \in Slots, Named(l, d)' PROVE flag'[d]
    <3>1. CASE l = k
      BY <2>3, <2>5, <2>9, <3>1
    <3>2. CASE l # k
      <4>1. Named(l, d)
        BY <2>5, <2>9, <3>2
      <4>2. flag[d] /\ d # captain[s]
        BY <1>a, <2>6, <4>1 DEF FlagAndSlots
      <4> QED
        BY <2>3, <4>2
    <3> QED
      BY <3>1, <3>2
  <2>10. ASSUME NEW d \in Captains, NEW l \in Slots, NEW m \in Slots, Named(l, d)', Named(m, d)'
         PROVE l = m
    <3>1. CASE d = captain[s]
      BY <2>5, <2>6, <2>10, <3>1
    <3>2. CASE d # captain[s]
      <4>1. Named(l, d) /\ Named(m, d)
        BY <2>5, <2>10, <3>2
      <4> QED
        BY <1>a, <4>1 DEF FlagAndSlots
    <3> QED
      BY <3>1, <3>2
  <2> QED
    BY <2>8, <2>9, <2>10 DEF FlagAndSlots
<1>3. ASSUME NEW s \in Ships, NEW k \in Slots, NEW c \in Captains, Postponed(k, s, c)
      PROVE FlagAndSlots'
  <2> DEFINE new == [ship |-> s, captain |-> c]
  <2>1. new # None /\ new.captain = c
    BY RetirementAssumption
  <2>2. \A l \in Slots : tasks'[l] = IF l = k THEN new ELSE tasks[l]
    BY <1>3, <1>t DEF Postponed
  <2>3. tasks[k] # None /\ tasks[k].captain = c /\ flag' = flag
    BY <1>3 DEF Postponed
  <2>4. \A l \in Slots, d \in Captains : Named(l, d)' <=> Named(l, d)
    BY <2>1, <2>2, <2>3 DEF Named
  <2> QED
    BY <1>a, <2>3, <2>4 DEF FlagAndSlots
<1>4. ASSUME NEW k \in Slots, NEW c \in Captains,
             Dropped(k, c) \/ \E s \in Ships : Retires(k, s, c)
      PROVE FlagAndSlots'
  <2>1. tasks' = [tasks EXCEPT ![k] = None] /\ flag' = [flag EXCEPT ![c] = FALSE]
        /\ Named(k, c)
    BY <1>4 DEF Dropped, Retires, Named
  <2>2. \A l \in Slots : tasks'[l] = IF l = k THEN None ELSE tasks[l]
    BY <2>1, <1>t
  <2>3. \A d \in Captains : flag'[d] = IF d = c THEN FALSE ELSE flag[d]
    BY <2>1, <1>t
  <2>4. \A l \in Slots, d \in Captains : Named(l, d)' <=> (l # k /\ Named(l, d))
    BY <2>2 DEF Named
  <2>5. \A l \in Slots : Named(l, c) => l = k
    BY <2>1, <1>a DEF FlagAndSlots
  <2>6. \A d \in Captains : Named(k, d) => d = c
    BY <2>1 DEF Named
  <2>7. ASSUME NEW d \in Captains, flag'[d] PROVE \E l \in Slots : Named(l, d)'
    <3>1. d # c /\ flag[d]
      BY <2>3, <2>7
    <3>2. PICK l \in Slots : Named(l, d)
      BY <1>a, <3>1 DEF FlagAndSlots
    <3>3. l # k
      BY <2>6, <3>1, <3>2
    <3> QED
      BY <2>4, <3>2, <3>3
  <2>8. ASSUME NEW d \in Captains, NEW l \in Slots, Named(l, d)' PROVE flag'[d]
    <3>1. l # k /\ Named(l, d)
      BY <2>4, <2>8
    <3>2. d # c
      BY <2>5, <3>1
    <3>3. flag[d]
      BY <1>a, <3>1 DEF FlagAndSlots
    <3> QED
      BY <2>3, <3>2, <3>3
  <2>9. \A d \in Captains : \A l, m \in Slots : Named(l, d)' /\ Named(m, d)' => l = m
    BY <1>a, <2>4 DEF FlagAndSlots
  <2> QED
    BY <2>7, <2>8, <2>9 DEF FlagAndSlots
<1> QED
  BY <1>a, Outcomes, <1>1, <1>2, <1>3, <1>4

LEMMA InvHolds == Spec => []Inv
<1>1. Init => Inv
  <2> SUFFICES ASSUME Init PROVE Inv
    OBVIOUS
  <2>1. TypeOK /\ NeverSearches /\ OneShip
    BY DEF Init, TypeOK, NeverSearches, OneShip
  <2>2. FlagMeansQueued /\ RetiredForGood
    BY DEF Init, FlagMeansQueued, RetiredForGood, Queued
  <2> QED
    BY <2>1, <2>2 DEF Inv
<1>2. Inv /\ [Next]_vars => Inv'
  <2> SUFFICES ASSUME Inv, [Next]_vars PROVE Inv'
    OBVIOUS
  <2>a. TypeOK /\ TypeOK' /\ FlagAndSlots'
    BY StepTyped, FlagsKept DEF Inv
  <2>t. captain \in [Ships -> Captains \cup {None}]
    BY <2>a DEF TypeOK
  <2>1. NeverSearches'
    BY <2>a, Outcomes DEF Inv, NeverSearches, Quiet, Swapped, Scheduled, Postponed, Retires,
                          Dropped
  <2>2. OneShip' /\ \A c \in retired' : ~Aboard(c)'
    <3>a. OneShip /\ \A c \in retired : ~Aboard(c)
      BY DEF Inv, RetiredForGood
    <3>1. CASE captain' = captain /\ retired' = retired
      BY <3>1, <3>a DEF OneShip, Aboard
    <3>2. CASE Swapped
      <4>1. PICK s \in Ships, c \in Captains \cup {None} :
               /\ c = None \/ (~Aboard(c) /\ c \notin retired)
               /\ captain' = [captain EXCEPT ![s] = c]
        BY <3>2 DEF Swapped
      <4>2. \A t \in Ships : captain'[t] = IF t = s THEN c ELSE captain[t]
        BY <4>1, <2>t
      <4>3. retired' = retired /\ None \notin retired
        BY <3>2, <2>a, RetirementAssumption DEF Swapped, TypeOK
      <4>4. OneShip'
        BY <4>1, <4>2, <3>a DEF OneShip, Aboard
      <4>5. ASSUME NEW d \in retired' PROVE ~Aboard(d)'
        <5>1. d \in retired /\ d # c
          BY <4>1, <4>3, <4>5
        <5> QED
          BY <4>2, <5>1, <3>a DEF Aboard
      <4> QED
        BY <4>4, <4>5
    <3>3. ASSUME NEW k \in Slots, NEW s \in Ships, NEW c \in Captains, Retires(k, s, c)
          PROVE OneShip' /\ \A d \in retired' : ~Aboard(d)'
      <4>1. \A t \in Ships : captain'[t] = IF t = s THEN None ELSE captain[t]
        BY <3>3, <2>t DEF Retires
      <4>2. captain[s] = c /\ retired' = retired \cup {c} /\ c # None
        BY <3>3, RetirementAssumption DEF Retires
      <4>3. retired \subseteq Captains /\ None \notin Captains
        BY <2>a, RetirementAssumption DEF TypeOK
      <4> QED
        BY <4>1, <4>2, <4>3, <3>a DEF OneShip, Aboard
    <3> QED
      BY <2>a, Outcomes, <3>1, <3>2, <3>3 DEF Quiet, Scheduled, Postponed, Dropped
  <2>3. FlagMeansQueued'
    <3>1. FlagAndSlots' => FlagMeansQueued'
      BY DEF FlagMeansQueued, FlagAndSlots, Queued, Named
    <3> QED
      BY <2>a, <3>1
  <2>4. \A c \in retired' : ~flag'[c]
    <3>a. \A c \in retired : ~flag[c] /\ c \in Captains
      BY DEF Inv, RetiredForGood, FlagMeansQueued, TypeOK
    <3>b. flag \in [Captains -> BOOLEAN]
      BY <2>a DEF TypeOK
    <3>1. CASE Quiet \/ Swapped
      BY <3>1, <3>a DEF Quiet, Swapped
    <3>2. ASSUME NEW s \in Ships, NEW k \in Slots, Scheduled(s, k)
          PROVE \A c \in retired' : ~flag'[c]
      <4>1. captain[s] \notin retired
        BY DEF Inv, RetiredForGood, Aboard
      <4> QED
        BY <3>2, <3>a, <3>b, <4>1 DEF Scheduled
    <3>3. ASSUME NEW k \in Slots, NEW c \in Captains,
                 \E s \in Ships : Postponed(k, s, c) \/ Retires(k, s, c)
          PROVE \A d \in retired' : ~flag'[d]
      BY <3>3, <3>a, <3>b DEF Postponed, Retires
    <3>4. ASSUME NEW k \in Slots, NEW c \in Captains, Dropped(k, c)
          PROVE \A d \in retired' : ~flag'[d]
      BY <3>4, <3>a, <3>b DEF Dropped
    <3> QED
      BY <2>a, Outcomes, <3>1, <3>2, <3>3, <3>4
  <2>5. RetiredForGood'
    BY <2>a, <2>2, <2>3, <2>4 DEF RetiredForGood, FlagMeansQueued, TypeOK
  <2> QED
    BY <2>a, <2>1, <2>2, <2>3, <2>5 DEF Inv
<1> QED
  BY <1>1, <1>2, PTL DEF Spec

\* The parts of the state keep their types.
THEOREM TypeCorrect == Spec => []TypeOK
<1>1. Inv => TypeOK
  BY DEF Inv
<1> QED
  BY <1>1, InvHolds, PTL

\* The handler's endless search is never entered, for any fleet: wherever the captain has
\* gone, the hook hands on a pair that matches or no task at all.
THEOREM SearchIsBypassed == Spec => []NeverSearches
<1>1. Inv => NeverSearches
  BY DEF Inv
<1> QED
  BY <1>1, InvHolds, PTL

\* Flags and tasks correspond one to one.
THEOREM FlagsAreTasks == Spec => []FlagMeansQueued
<1>1. Inv => FlagMeansQueued
  BY DEF Inv
<1> QED
  BY <1>1, InvHolds, PTL

\* A retired captain is aboard nowhere and no task is left for him.
THEOREM RetirementIsFinal == Spec => []RetiredForGood
<1>1. Inv => RetiredForGood
  BY DEF Inv
<1> QED
  BY <1>1, InvHolds, PTL

\* A flag is only taken back from a captain who retires or is aboard no ship.
THEOREM NobodyEscapes == Spec => NobodyIsLetOff
<1> DEFINE LetOff == \A c \in Captains : flag[c] /\ ~flag'[c] => c \in retired' \/ ~Aboard(c)
<1>1. Inv /\ [Next]_vars => [LetOff]_vars
  <2> SUFFICES ASSUME Inv, [Next]_vars PROVE LetOff
    OBVIOUS
  <2>a. TypeOK /\ flag \in [Captains -> BOOLEAN]
    BY DEF Inv, TypeOK
  <2>1. CASE Quiet \/ Swapped
    BY <2>1 DEF Quiet, Swapped
  <2>2. ASSUME NEW s \in Ships, NEW k \in Slots, Scheduled(s, k) PROVE LetOff
    BY <2>2, <2>a DEF Scheduled
  <2>3. ASSUME NEW k \in Slots, NEW c \in Captains, NEW s \in Ships,
               Postponed(k, s, c) \/ Retires(k, s, c)
        PROVE LetOff
    BY <2>3, <2>a DEF Postponed, Retires
  <2>4. ASSUME NEW k \in Slots, NEW c \in Captains, Dropped(k, c) PROVE LetOff
    BY <2>4, <2>a DEF Dropped
  <2> QED
    BY <2>a, Outcomes, <2>1, <2>2, <2>3, <2>4
<1> QED
  BY <1>1, InvHolds, PTL DEF Spec, NobodyIsLetOff

-----------------------------------------------------------------------------
(* CaptainsTable: the bar's last position shows the last captain.          *)

RowsOf(h) == (h - 60) \div ROW_HEIGHT

\* What table_area makes of a window so high.
AreaOf(h) ==
    [left |-> span(columns[1])[1], top |-> FIRST_ROW_Y + ROW_HEIGHT, right |-> bar_right,
     bottom |-> h - ROW_HEIGHT - 1 * ROW_HEIGHT - ROW_HEIGHT + ROW_HEIGHT]

Areas == {<<>>} \cup {AreaOf(h) : h \in Heights}

TableTypes ==
    /\ chain \in Seq(Applicants) /\ \A i, j \in 1 .. Len(chain) : chain[i] = chain[j] => i = j
    /\ tavern_window \in [open : BOOLEAN, height : Heights, page : {-1, 0}]
    /\ table_hooks \in 0 .. 7 /\ view \in {"crew", "missions", "captains"}
    /\ sort \in [column : 1 .. 5, reversed : BOOLEAN]
    /\ bar \in [attached : BOOLEAN, count : Nat, visible : Nat, first_row : Nat, area : Areas]

\* The captains are only chosen with all hooks there; a bar on screen was laid out from the
\* window that is open and is somewhere between its ends.
BarFits ==
    /\ view # "crew" => table_hooks = 7
    /\ bar.attached => /\ table_hooks = 7
                       /\ tavern_window.open
                       /\ bar.area = AreaOf(tavern_window.height)
                       /\ bar.visible = RowsOf(tavern_window.height)
                       /\ bar.first_row \in Positions(bar.count, bar.visible)

TableInv == TableTypes /\ BarFits

\* The registry is the last step: with it, everything is hooked.
LEMMA HooksThere == /\ Len(Steps) = 7 /\ (table_hooks \in 0 .. 7 => (Has("keys") <=> table_hooks = 7))
                    /\ (table_hooks = 7 => Has("draw") /\ Has("close"))
  BY DEF Has, Steps

\* The area the bar is laid out against holds a row at least.
LEMMA TheArea ==
    ASSUME TableTypes
    PROVE  /\ table_area = AreaOf(tavern_window.height)
           /\ (table_area.bottom - table_area.top) \div ROW_HEIGHT = RowsOf(tavern_window.height)
           /\ RowsOf(tavern_window.height) \in Nat \ {0} /\ tavern_window.height \in Nat
<1>1. tavern_window.height \in Heights
  BY DEF TableTypes
<1>2. tavern_window.height \in Nat /\ tavern_window.height >= 76
  BY <1>1, TableAssumption
<1>3. table_area = AreaOf(tavern_window.height)
  BY DEF table_area, AreaOf, captains_page, captains_table
<1>4. AreaOf(tavern_window.height).bottom - AreaOf(tavern_window.height).top = tavern_window.height - 60
  BY <1>2 DEF AreaOf, ROW_HEIGHT, FIRST_ROW_Y
<1> QED
  BY <1>2, <1>3, <1>4 DEF RowsOf, ROW_HEIGHT

\* A function on 1 .. n is a sequence of length n.
LEMMA IsASequence ==
    ASSUME NEW S, NEW n \in Nat, NEW f \in [1 .. n -> S]
    PROVE  f \in Seq(S) /\ Len(f) = n
  OBVIOUS

\* A click hits none of the columns or one of the five.
LEMMA HitIsAColumn == ASSUME NEW x, NEW y PROVE hit_test(x, y) \in 0 .. 5
<1> DEFINE hit == {i \in DOMAIN columns : span(columns[i])[1] <= x /\ x < span(columns[i])[2]}
           C == [x : Int, width : Int]
           first == <<column_at(bar_right - BAR_WIDTH - BAR_GAP - 4 * COLUMN_GAP, NAME_CELL_WIDTH)>>
           rest == [i \in 1 .. 4 |-> column_at(bar_right - BAR_WIDTH - BAR_GAP - (4 - i) * COLUMN_GAP, COLUMN_GAP)]
<1>1. columns = first \o rest
  BY DEF columns
<1>2. DOMAIN columns = 1 .. 5
  <2> DEFINE S == {first[1]} \cup {rest[i] : i \in 1 .. 4}
  <2>1. first \in [1 .. 1 -> S] /\ rest \in [1 .. 4 -> S]
    <3>1. \A i \in 1 .. 4 : rest[i] \in S
      OBVIOUS
    <3>2. first \in [1 .. 1 -> S]
      OBVIOUS
    <3> QED
      BY <3>1, <3>2
  <2> HIDE DEF first, rest, S
  <2>2. first \in Seq(S) /\ Len(first) = 1
    <3>1. first \in [1 .. 1 -> S]
      BY <2>1
    <3>2. 1 \in Nat
      OBVIOUS
    <3> QED
      BY ONLY <3>1, <3>2, IsASequence
  <2>3. rest \in Seq(S) /\ Len(rest) = 4
    <3>1. rest \in [1 .. 4 -> S]
      BY <2>1
    <3>2. 4 \in Nat
      OBVIOUS
    <3> QED
      BY ONLY <3>1, <3>2, IsASequence
  <2>4. first \o rest \in Seq(S) /\ Len(first \o rest) = Len(first) + Len(rest)
    <3>1. first \in Seq(S) /\ rest \in Seq(S)
      BY <2>2, <2>3
    <3> HIDE DEF S, first, rest
    <3> QED
      BY <3>1, ConcatProperties, Zenon
  <2> QED
    BY <1>1, <2>2, <2>3, <2>4
<1>3. hit \in SUBSET Nat /\ \A i \in hit : i \in 1 .. 5
  BY <1>2
<1>4. hit # {} => Min(hit) \in hit
  <2> HIDE DEF hit
  <2> SUFFICES ASSUME hit # {} PROVE Min(hit) \in hit
    OBVIOUS
  <2>1. \E n \in hit : \A m \in hit : n <= m
    BY <1>3, LeastNatural
  <2> QED
    BY <2>1 DEF Min
<1>5. hit_test(x, y) = IF captains_page.top <= y /\ y < captains_page.top + ROW_HEIGHT /\ hit # {} THEN Min(hit) ELSE 0
  BY DEF hit_test
<1>6. hit_test(x, y) = 0 \/ (hit # {} /\ hit_test(x, y) = Min(hit))
  BY <1>5, Zenon
<1>7. hit_test(x, y) = 0 \/ hit_test(x, y) \in 1 .. 5
  <2> HIDE DEF hit
  <2> QED
    BY <1>3, <1>4, <1>6
<1> QED
  BY <1>7

\* The invariant holds at first ...
LEMMA TableInitial == TableInit => TableInv
<1> SUFFICES ASSUME TableInit PROVE TableInv
  OBVIOUS
<1>1. chain \in Seq(Applicants) /\ Len(chain) = 0
  BY DEF TableInit
<1>2. tavern_window \in [open : BOOLEAN, height : Heights, page : {-1, 0}]
  BY DEF TableInit
<1>3. bar \in [attached : BOOLEAN, count : Nat, visible : Nat, first_row : Nat, area : Areas] /\ ~bar.attached
  BY DEF TableInit, NoBar, Areas
<1>4. sort \in [column : 1 .. 5, reversed : BOOLEAN]
  BY DEF TableInit, COLUMN_NAME
<1> QED
  BY <1>1, <1>2, <1>3, <1>4, HooksThere DEF TableInit, TableInv, TableTypes, BarFits

\* ... when a captain comes or goes, who is in the chain once at most ...
LEMMA FleetChangesKeep == ASSUME TableInv, FleetChanges PROVE TableInv'
<1>1. CASE \E c \in Applicants \ Range(chain) : chain' = <<c>> \o chain
  <2>1. PICK c \in Applicants \ Range(chain) : chain' = <<c>> \o chain
    BY <1>1
  <2>2. <<c>> \in Seq(Applicants) /\ Len(<<c>>) = 1 /\ <<c>>[1] = c /\ chain \in Seq(Applicants)
    BY DEF TableInv, TableTypes
  <2>3. chain' \in Seq(Applicants) /\ Len(chain') = 1 + Len(chain)
        /\ \A i \in 1 .. Len(chain') : chain'[i] = IF i <= 1 THEN c ELSE chain[i - 1]
    <3> DEFINE s == <<c>>
    <3>1. s \in Seq(Applicants) /\ Len(s) = 1 /\ s[1] = c /\ chain' = s \o chain
      BY <2>1, <2>2
    <3> HIDE DEF s
    <3>2. /\ s \o chain \in Seq(Applicants)
          /\ Len(s \o chain) = Len(s) + Len(chain)
          /\ \A i \in 1 .. Len(s) + Len(chain) : (s \o chain)[i] = IF i <= Len(s) THEN s[i] ELSE chain[i - Len(s)]
      BY <3>1, <2>2, ConcatProperties, Zenon
    <3> QED
      BY <3>1, <3>2
  <2>4. \A i \in 1 .. Len(chain) : chain[i] # c
    BY <2>2 DEF Range
  <2>5. \A i, j \in 1 .. Len(chain') : chain'[i] = chain'[j] => i = j
    <3> SUFFICES ASSUME NEW i \in 1 .. Len(chain'), NEW j \in 1 .. Len(chain'), chain'[i] = chain'[j] PROVE i = j
      OBVIOUS
    <3>1. \A k \in 1 .. Len(chain') : k = 1 \/ k - 1 \in 1 .. Len(chain)
      BY <2>2, <2>3
    <3>2. CASE i = 1 \/ j = 1
      BY <2>3, <2>4, <3>1, <3>2
    <3>3. CASE i # 1 /\ j # 1
      <4>1. chain[i - 1] = chain[j - 1] /\ i - 1 \in 1 .. Len(chain) /\ j - 1 \in 1 .. Len(chain)
        BY <2>2, <2>3, <3>1, <3>3
      <4>2. i - 1 = j - 1
        BY <4>1 DEF TableInv, TableTypes
      <4> QED
        BY <4>2
    <3> QED
      BY <3>2, <3>3
  <2> QED
    BY <2>3, <2>5 DEF TableInv, TableTypes, BarFits, FleetChanges
<1>2. CASE \E i \in DOMAIN chain : chain' = RemoveAt(chain, i)
  <2>1. PICK n \in DOMAIN chain : chain' = RemoveAt(chain, n)
    BY <1>2
  <2> DEFINE l == Len(chain)
             a == SubSeq(chain, 1, n - 1)
             b == SubSeq(chain, n + 1, l)
  <2>2. chain \in Seq(Applicants) /\ l \in Nat /\ n \in 1 .. l /\ \A i \in 1 .. l : chain[i] \in Applicants
    BY DEF TableInv, TableTypes
  <2>3. chain' = a \o b
    BY <2>1 DEF RemoveAt
  <2>4. a \in Seq(Applicants) /\ Len(a) = n - 1 /\ \A i \in 1 .. n - 1 : a[i] = chain[i]
    <3>1. \A i \in 1 .. n - 1 : chain[i] \in Applicants
      BY <2>2
    <3>2. /\ a \in Seq(Applicants) /\ Len(a) = IF 1 <= n - 1 THEN (n - 1) - 1 + 1 ELSE 0
          /\ \A i \in 1 .. (n - 1) - 1 + 1 : a[i] = chain[1 + i - 1]
      BY <2>2, <3>1, SubSeqProperties
    <3> HIDE DEF a
    <3> QED
      BY <2>2, <3>2
  <2>5. b \in Seq(Applicants) /\ Len(b) = l - n /\ \A i \in 1 .. l - n : b[i] = chain[n + i]
    <3>1. \A i \in n + 1 .. l : chain[i] \in Applicants
      BY <2>2
    <3>2. /\ b \in Seq(Applicants) /\ Len(b) = IF n + 1 <= l THEN l - (n + 1) + 1 ELSE 0
          /\ \A i \in 1 .. l - (n + 1) + 1 : b[i] = chain[(n + 1) + i - 1]
      BY <2>2, <3>1, SubSeqProperties
    <3> HIDE DEF b, l
    <3> QED
      BY <2>2, <3>2
  <2> HIDE DEF a, b
  <2>6. /\ a \o b \in Seq(Applicants)
        /\ Len(a \o b) = Len(a) + Len(b)
        /\ \A i \in 1 .. Len(a) + Len(b) : (a \o b)[i] = IF i <= Len(a) THEN a[i] ELSE b[i - Len(a)]
    BY <2>4, <2>5, ConcatProperties, Zenon
  <2> HIDE DEF l
  <2>7. Len(chain') = l - 1 /\ \A i \in 1 .. l - 1 : chain'[i] = IF i < n THEN chain[i] ELSE chain[i + 1]
    <3>1. Len(chain') = l - 1
      BY <2>2, <2>3, <2>4, <2>5, <2>6
    <3>2. ASSUME NEW i \in 1 .. l - 1 PROVE chain'[i] = IF i < n THEN chain[i] ELSE chain[i + 1]
      <4> DEFINE total == Len(a) + Len(b)
      <4>0. total = l - 1
        BY <2>2, <2>4, <2>5
      <4> HIDE DEF total
      <4>1. i \in 1 .. total /\ chain'[i] = IF i <= Len(a) THEN a[i] ELSE b[i - Len(a)]
        <5>1. i \in 1 .. total
          BY <4>0
        <5>2. \A k \in 1 .. total : (a \o b)[k] = IF k <= Len(a) THEN a[k] ELSE b[k - Len(a)]
          BY <2>6 DEF total
        <5> QED
          BY <2>3, <5>1, <5>2
      <4>2. CASE i < n
        BY <2>2, <2>4, <4>1, <4>2
      <4>3. CASE ~(i < n)
        <5>1. chain'[i] = b[i - (n - 1)] /\ i - (n - 1) \in 1 .. l - n /\ n + (i - (n - 1)) = i + 1
          BY <2>2, <2>4, <4>1, <4>3
        <5>2. b[i - (n - 1)] = chain[n + (i - (n - 1))]
          BY <2>5, <5>1
        <5> QED
          BY <4>3, <5>1, <5>2
      <4> QED
        BY <4>2, <4>3
    <3> QED
      BY <3>1, <3>2
  <2>8. \A i, j \in 1 .. Len(chain') : chain'[i] = chain'[j] => i = j
    <3> SUFFICES ASSUME NEW i \in 1 .. l - 1, NEW j \in 1 .. l - 1, chain'[i] = chain'[j] PROVE i = j
      BY <2>7
    <3>1. \A x, y \in 1 .. l : chain[x] = chain[y] => x = y
      BY DEF TableInv, TableTypes, l
    <3>2. i \in 1 .. l /\ i + 1 \in 1 .. l /\ j \in 1 .. l /\ j + 1 \in 1 .. l
      BY <2>2
    <3> DEFINE x == IF i < n THEN i ELSE i + 1
               y == IF j < n THEN j ELSE j + 1
    <3>3. chain[x] = chain[y] /\ x \in 1 .. l /\ y \in 1 .. l
      BY <2>7, <3>2
    <3>4. x = y
      BY <3>1, <3>3
    <3> QED
      BY <2>2, <3>4
  <2> QED
    BY <2>3, <2>6, <2>8 DEF TableInv, TableTypes, BarFits, FleetChanges
<1> QED
  BY <1>1, <1>2 DEF FleetChanges

\* A count that is applied puts the bar within its ends.
LEMMA AppliedIs ==
    ASSUME NEW b \in [attached : BOOLEAN, count : Nat, visible : Nat, first_row : Nat, area : Areas],
           NEW n \in Nat, NEW c \in applied(b, n)
    PROVE  /\ c \in [attached : BOOLEAN, count : Nat, visible : Nat, first_row : Nat, area : Areas]
           /\ c.attached = b.attached /\ c.area = b.area /\ c.visible = b.visible /\ c.count = n
           /\ c.first_row \in Positions(c.count, c.visible)
<1>1. PICK p \in Positions(n, b.visible) : c = [b EXCEPT !.count = n, !.first_row = p]
  BY DEF applied
<1>2. p \in Nat
  BY DEF Positions
<1> QED
  BY <1>1, <1>2

\* ... in a frame, which lays the bar out or takes it off ...
LEMMA UpdateKeeps == ASSUME TableInv, update_bar PROVE TableInv'
<1> DEFINE B == [attached : BOOLEAN, count : Nat, visible : Nat, first_row : Nat, area : Areas]
<1>1. bar \in B /\ Len(chain) \in Nat /\ TableTypes
  BY DEF TableInv, TableTypes
<1>2. CASE tavern_window.page # -1 \/ view # "captains"
  <2>1. bar' \in B /\ ~bar'.attached
    BY <1>1, <1>2 DEF update_bar, Detached
  <2> QED
    BY <2>1 DEF TableInv, TableTypes, BarFits, update_bar
<1>3. CASE ~(tavern_window.page # -1 \/ view # "captains")
  <2>1. PICK b \in (IF bar.attached THEN {bar} ELSE attached(table_area)) :
          \E c \in set_count(b, Len(chain)) : bar' \in poll(c)
    BY <1>3 DEF update_bar
  <2> DEFINE Fits(c) == /\ c \in B /\ c.attached
                        /\ c.area = AreaOf(tavern_window.height) /\ c.visible = RowsOf(tavern_window.height)
                        /\ c.first_row \in Positions(c.count, c.visible)
  <2>2. Fits(b)
    <3>1. CASE bar.attached
      BY <1>1, <2>1, <3>1 DEF TableInv, BarFits
    <3>2. CASE ~bar.attached
      <4> DEFINE laid == [bar EXCEPT !.attached = TRUE, !.area = table_area,
                                     !.visible = (table_area.bottom - table_area.top) \div ROW_HEIGHT]
      <4>1. b \in applied(laid, bar.count)
        BY <2>1, <3>2 DEF attached
      <4>2. table_area \in Areas
        <5>1. tavern_window.height \in Heights
          BY <1>1 DEF TableTypes
        <5> QED
          BY <1>1, <5>1, TheArea DEF Areas
      <4> DEFINE rows == (table_area.bottom - table_area.top) \div ROW_HEIGHT
      <4>3. rows \in Nat /\ rows = RowsOf(tavern_window.height) /\ table_area = AreaOf(tavern_window.height)
        BY <1>1, TheArea
      <4>4. laid = [bar EXCEPT !.attached = TRUE, !.area = table_area, !.visible = rows]
        OBVIOUS
      <4> HIDE DEF rows, laid
      <4>5. laid \in B /\ laid.attached /\ laid.area = table_area /\ laid.visible = rows
        BY <1>1, <4>2, <4>3, <4>4
      <4>6. bar.count \in Nat
        BY <1>1
      <4> QED
        BY <4>1, <4>3, <4>5, <4>6, AppliedIs
    <3> QED
      BY <3>1, <3>2
  <2>3. PICK c \in set_count(b, Len(chain)) : bar' \in poll(c)
    BY <2>1
  <2>4. Fits(c)
    <3>1. CASE c = b
      BY <2>2, <3>1
    <3>2. CASE c \in applied(b, Len(chain))
      BY <1>1, <2>2, <3>2, AppliedIs
    <3> QED
      BY <2>3, <3>1, <3>2 DEF set_count
  <2>5. Fits(bar')
    <3>1. CASE bar' = c
      BY <2>4, <3>1
    <3>2. CASE bar' \in {[c EXCEPT !.first_row = p] : p \in Positions(c.count, c.visible)}
      <4>1. PICK p \in Positions(c.count, c.visible) : bar' = [c EXCEPT !.first_row = p]
        BY <3>2
      <4>2. p \in Nat
        BY DEF Positions
      <4> QED
        BY <2>4, <4>1, <4>2
    <3> QED
      BY <2>3, <3>1, <3>2 DEF poll
  <2> HIDE DEF B
  <2> QED
    BY <1>3, <2>5 DEF TableInv, TableTypes, BarFits, update_bar, B
<1> QED
  BY <1>2, <1>3

\* ... and in every other step.
LEMMA TableStep == TableInv /\ [TableNext]_tableVars => TableInv'
<1> SUFFICES ASSUME TableInv, [TableNext]_tableVars PROVE TableInv'
  OBVIOUS
<1> DEFINE B == [attached : BOOLEAN, count : Nat, visible : Nat, first_row : Nat, area : Areas]
<1>1. CASE FleetChanges
  BY <1>1, FleetChangesKeep
<1>2. CASE open_tavern
  <2>1. tavern_window' \in [open : BOOLEAN, height : Heights, page : {-1, 0}] /\ ~bar.attached
    BY <1>2 DEF open_tavern, TableInv, TableTypes, BarFits
  <2> QED
    BY <1>2, <2>1 DEF open_tavern, TableInv, TableTypes, BarFits
<1>3. CASE window_close_hook
  <2>1. tavern_window' \in [open : BOOLEAN, height : Heights, page : {-1, 0}]
    BY <1>3 DEF window_close_hook, TableInv, TableTypes
  <2>2. bar' \in B /\ ~bar'.attached
    <3>1. CASE Has("close")
      <4>1. bar \in B
        BY DEF TableInv, TableTypes
      <4>2. bar' = [bar EXCEPT !.attached = FALSE]
        BY <1>3, <3>1 DEF window_close_hook, Detached
      <4> QED
        BY <4>1, <4>2
    <3>2. CASE ~Has("close")
      <4>1. table_hooks # 7
        BY <3>2, HooksThere
      <4>2. ~bar.attached
        BY <4>1 DEF TableInv, BarFits
      <4> QED
        BY <1>3, <3>2, <4>2 DEF window_close_hook, TableInv, TableTypes
    <3> QED
      BY <3>1, <3>2
  <2> HIDE DEF B
  <2> QED
    BY <1>3, <2>1, <2>2 DEF window_close_hook, TableInv, TableTypes, BarFits, B
<1>4. CASE set_tavern_page
  <2>1. tavern_window' \in [open : BOOLEAN, height : Heights, page : {-1, 0}]
        /\ tavern_window'.height = tavern_window.height /\ tavern_window'.open = tavern_window.open
    BY <1>4 DEF set_tavern_page, TableInv, TableTypes
  <2> QED
    BY <1>4, <2>1 DEF set_tavern_page, TableInv, TableTypes, BarFits
<1>5. CASE view_hotkeys
  <2>1. table_hooks = 7
    BY <1>5, HooksThere DEF view_hotkeys, TableInv, TableTypes
  <2> QED
    BY <1>5, <2>1 DEF view_hotkeys, TableInv, TableTypes, BarFits
<1>6. CASE update_bar
  BY <1>6, UpdateKeeps
<1>7. ASSUME NEW x \in Clicks, on_click(x, captains_page.top + 1) PROVE TableInv'
  <2> DEFINE column == hit_test(x, captains_page.top + 1)
  <2>1. column \in 0 .. 5
    BY HitIsAColumn
  <2>2. sort' = CASE column = 0 -> sort
                  [] column = sort.column -> [sort EXCEPT !.reversed = ~@]
                  [] OTHER -> [column |-> column, reversed |-> FALSE]
    BY <1>7 DEF on_click
  <2> HIDE DEF column
  <2>3. sort' \in [column : 1 .. 5, reversed : BOOLEAN]
    <3>1. sort \in [column : 1 .. 5, reversed : BOOLEAN]
      BY DEF TableInv, TableTypes
    <3>2. CASE column = 0
      BY <2>2, <3>1, <3>2
    <3>3. CASE column # 0 /\ column = sort.column
      <4>1. sort' = [sort EXCEPT !.reversed = ~sort.reversed]
        BY <2>2, <3>3
      <4>2. (~sort.reversed) \in BOOLEAN
        <5>1. sort.reversed \in BOOLEAN
          BY <3>1
        <5> QED
          BY <5>1, Zenon
      <4> QED
        BY <3>1, <4>1, <4>2
    <3>4. CASE column # 0 /\ column # sort.column
      <4>1. sort' = [column |-> column, reversed |-> FALSE]
        BY <2>2, <3>4
      <4>2. column \in 1 .. 5
        BY <2>1, <3>4
      <4> QED
        BY <4>1, <4>2
    <3> QED
      BY <3>2, <3>3, <3>4
  <2> QED
    BY <1>7, <2>3 DEF on_click, TableInv, TableTypes, BarFits
<1>8. CASE UNCHANGED tableVars
  BY <1>8 DEF tableVars, TableInv, TableTypes, BarFits
<1> QED
  BY <1>1, <1>2, <1>3, <1>4, <1>5, <1>6, <1>7, <1>8 DEF TableNext

\* Who goes before whom in the table: by rank, and by place in the chain where the rank is
\* the same.
PlaceOf(c) == CHOOSE i \in DOMAIN chain : chain[i] = c
GoesBefore == {e \in Range(chain) \X Range(chain) :
                 compare(e[1], e[2]) \/ (~compare(e[2], e[1]) /\ PlaceOf(e[1]) < PlaceOf(e[2]))}

\* The order of the captains' ranks that the marked column asks for.
Falling == (sort.column = COLUMN_NAME) <=> sort.reversed
RankOf(c) == ValueOf[sort.column][c]

\* Comparing two captains is comparing their ranks.
LEMMA RankDecides ==
    ASSUME TableTypes, NEW a \in Range(chain), NEW b \in Range(chain)
    PROVE  /\ RankOf(a) \in Int /\ RankOf(b) \in Int
           /\ compare(a, b) <=> IF Falling THEN RankOf(a) > RankOf(b) ELSE RankOf(a) < RankOf(b)
<1>1. a \in Applicants /\ b \in Applicants
  BY DEF TableTypes, Range
<1>2. sort.column \in 1 .. 5 /\ sort.reversed \in BOOLEAN
  BY DEF TableTypes
<1>3. ValueOf[sort.column] \in [Applicants -> Int]
  BY <1>2, TableAssumption
<1>4. RankOf(a) \in Int /\ RankOf(b) \in Int
  BY <1>1, <1>3 DEF RankOf
<1>5. CASE sort.column = COLUMN_NAME /\ sort.reversed
  BY <1>4, <1>5 DEF compare, Falling, RankOf
<1>6. CASE sort.column = COLUMN_NAME /\ ~sort.reversed
  BY <1>4, <1>6 DEF compare, Falling, RankOf
<1>7. CASE sort.column # COLUMN_NAME /\ sort.reversed
  BY <1>4, <1>7 DEF compare, Falling, RankOf
<1>8. CASE sort.column # COLUMN_NAME /\ ~sort.reversed
  BY <1>4, <1>8 DEF compare, Falling, RankOf
<1> QED
  BY <1>4, <1>5, <1>6, <1>7, <1>8

\* Of two captains one goes before the other.
LEMMA ChainIsAnOrder ==
    ASSUME TableTypes
    PROVE  /\ IsFiniteSet(Range(chain)) /\ Cardinality(Range(chain)) = Len(chain)
           /\ Len(chain) <= Cardinality(Applicants) /\ Cardinality(Applicants) \in Nat
           /\ IsOrder(GoesBefore, Range(chain))
<1> DEFINE l == Len(chain)
           S == Range(chain)
<1>1. l \in Nat /\ DOMAIN chain = 1 .. l /\ S \in SUBSET Applicants
  BY DEF TableTypes, Range
<1>2. chain \in Bijection(1 .. l, S)
  BY <1>1 DEF TableTypes, Range, Bijection, Injection, Surjection, IsInjective
<1>3. IsFiniteSet(1 .. l) /\ Cardinality(1 .. l) = l
  <2>1. IsFiniteSet(1 .. l) /\ Cardinality(1 .. l) = IF 1 > l THEN 0 ELSE l - 1 + 1
    BY <1>1, FS_Interval
  <2> QED
    BY <1>1, <2>1
<1>4. IsFiniteSet(S) /\ Cardinality(S) = l
  <2> DEFINE D == 1 .. l
  <2>1. IsFiniteSet(D) /\ Cardinality(D) = l /\ ExistsBijection(D, S)
    BY <1>2, <1>3 DEF ExistsBijection
  <2> HIDE DEF D, S
  <2> QED
    BY <2>1, FS_Bijection
<1>5. l <= Cardinality(Applicants) /\ Cardinality(Applicants) \in Nat
  <2> HIDE DEF S
  <2> QED
    BY <1>1, <1>4, FS_Subset, FS_CardinalityType, TableAssumption
<1>6. \A c \in S : PlaceOf(c) \in 1 .. l /\ chain[PlaceOf(c)] = c
  BY <1>1 DEF PlaceOf, Range
<1>7. \A a \in S : RankOf(a) \in Int
  BY RankDecides
<1>8. \A a, b \in S : a # b => PlaceOf(a) # PlaceOf(b)
  BY <1>6
<1>9. \A a, b \in S : <<a, b>> \in GoesBefore <=> (compare(a, b) \/ (~compare(b, a) /\ PlaceOf(a) < PlaceOf(b)))
  BY DEF GoesBefore
<1> HIDE DEF S
<1> DEFINE place(c) == PlaceOf(c)
           rank(c) == RankOf(c)
           G(a, b) == <<a, b>> \in GoesBefore
<1>10. \A c \in S : place(c) \in Int /\ rank(c) \in Int
  <2> SUFFICES ASSUME NEW c \in S PROVE place(c) \in Int /\ rank(c) \in Int
    OBVIOUS
  <2>1. PlaceOf(c) \in 1 .. l
    BY <1>6
  <2>2. RankOf(c) \in Int
    BY <1>7
  <2> QED
    BY <2>1, <2>2
<1>11. \A a, b \in S : a # b => place(a) # place(b)
  BY <1>8
<1>12. \A a, b \in S : G(a, b) <=> \/ (IF Falling THEN rank(a) > rank(b) ELSE rank(a) < rank(b))
                                   \/ rank(a) = rank(b) /\ place(a) < place(b)
  <2> SUFFICES ASSUME NEW a \in S, NEW b \in S
               PROVE  G(a, b) <=> \/ (IF Falling THEN rank(a) > rank(b) ELSE rank(a) < rank(b))
                                  \/ rank(a) = rank(b) /\ place(a) < place(b)
    OBVIOUS
  <2>1. rank(a) \in Int /\ rank(b) \in Int
    BY <1>10
  <2>2. compare(a, b) <=> IF Falling THEN rank(a) > rank(b) ELSE rank(a) < rank(b)
    BY RankDecides DEF S
  <2>3. compare(b, a) <=> IF Falling THEN rank(b) > rank(a) ELSE rank(b) < rank(a)
    BY RankDecides DEF S
  <2>4. G(a, b) <=> (compare(a, b) \/ (~compare(b, a) /\ place(a) < place(b)))
    BY <1>9
  <2> HIDE DEF rank, place, G
  <2> QED
    BY <2>1, <2>2, <2>3, <2>4
<1> HIDE DEF place, rank, G
<1>13. \A a, b \in S : a # b => G(a, b) \/ G(b, a)
  <2> SUFFICES ASSUME NEW a \in S, NEW b \in S, a # b PROVE G(a, b) \/ G(b, a)
    OBVIOUS
  <2>1. place(a) \in Int /\ place(b) \in Int /\ rank(a) \in Int /\ rank(b) \in Int /\ place(a) # place(b)
    BY <1>10, <1>11
  <2> QED
    BY <1>12, <2>1
<1>14. \A a, b \in S : G(a, b) => ~G(b, a)
  <2> SUFFICES ASSUME NEW a \in S, NEW b \in S, G(a, b), G(b, a) PROVE FALSE
    OBVIOUS
  <2>1. place(a) \in Int /\ place(b) \in Int /\ rank(a) \in Int /\ rank(b) \in Int
    BY <1>10
  <2> QED
    BY <1>12, <2>1
<1>15. \A a, b, c \in S : G(a, b) /\ G(b, c) => G(a, c)
  <2> SUFFICES ASSUME NEW a \in S, NEW b \in S, NEW c \in S, G(a, b), G(b, c) PROVE G(a, c)
    OBVIOUS
  <2>1. /\ place(a) \in Int /\ place(b) \in Int /\ place(c) \in Int
        /\ rank(a) \in Int /\ rank(b) \in Int /\ rank(c) \in Int
    BY <1>10
  <2> QED
    BY <1>12, <2>1
<1>16. IsOrder(GoesBefore, S)
  BY <1>13, <1>14, <1>15 DEF IsOrder, G
<1> QED
  BY <1>4, <1>5, <1>16 DEF S

\* The table has every captain in some row, and the rows in the order asked for.
LEMMA RowsInOrder ==
    ASSUME TableTypes
    PROVE  InARow(own_captains, GoesBefore, Range(chain)) /\ Cardinality(Range(chain)) = Len(chain)
<1> DEFINE S == Range(chain)
           R == GoesBefore
           n == Cardinality(S)
<1>1. IsFiniteSet(S) /\ n = Len(chain) /\ IsOrder(R, S)
  BY ChainIsAnOrder
<1>2. DOMAIN chain = 1 .. n
  BY <1>1 DEF TableTypes
<1>3. \A c \in S : AheadOf(c, R, S) = {b \in S : compare(b, c) \/ (~compare(c, b) /\ PlaceOf(b) < PlaceOf(c))}
  BY DEF AheadOf, GoesBefore
<1>4. own_captains = [i \in DOMAIN chain |-> CHOOSE c \in S :
                        Cardinality({b \in S : compare(b, c) \/ (~compare(c, b) /\ PlaceOf(b) < PlaceOf(c))}) = i - 1]
  BY DEF own_captains, PlaceOf
<1>5. own_captains = [i \in 1 .. n |-> CHOOSE c \in S : Cardinality(AheadOf(c, R, S)) = i - 1]
  <2> DEFINE ahead(c) == {b \in S : compare(b, c) \/ (~compare(c, b) /\ PlaceOf(b) < PlaceOf(c))}
  <2>1. \A c \in S : AheadOf(c, R, S) = ahead(c)
    BY <1>3
  <2>2. own_captains = [i \in 1 .. n |-> CHOOSE c \in S : Cardinality(ahead(c)) = i - 1]
    BY <1>2, <1>4
  <2> HIDE DEF ahead, S, R, n
  <2>3. ASSUME NEW i \in 1 .. n
        PROVE (CHOOSE c \in S : Cardinality(ahead(c)) = i - 1) = (CHOOSE c \in S : Cardinality(AheadOf(c, R, S)) = i - 1)
    <3>1. \A c : (c \in S /\ Cardinality(ahead(c)) = i - 1) <=> (c \in S /\ Cardinality(AheadOf(c, R, S)) = i - 1)
      BY <2>1
    <3> QED
      BY <3>1, Zenon
  <2> QED
    BY <2>2, <2>3
<1> HIDE DEF S, R, n
<1>6. InARow([i \in 1 .. n |-> CHOOSE c \in S : Cardinality(AheadOf(c, R, S)) = i - 1], R, S)
  BY <1>1, RankIsAPlace DEF n
<1>7. InARow(own_captains, R, S)
  BY <1>5, <1>6
<1> QED
  BY <1>1, <1>7 DEF S, R, n

\* From each of the bar's positions the table draws as many rows as the bar shows.
LEMMA DrawnIs ==
    ASSUME TableTypes, NEW p \in Positions(Len(chain), RowsOf(tavern_window.height))
    PROVE  LET k == IF RowsOf(tavern_window.height) < Len(chain) THEN RowsOf(tavern_window.height) ELSE Len(chain)
           IN  /\ Len(drawn(p)) = k /\ p + k <= Len(chain) /\ DOMAIN drawn(p) = 1 .. k
               /\ \A i \in 1 .. k : drawn(p)[i] = own_captains[p + i]
<1> DEFINE v == RowsOf(tavern_window.height)
           h == tavern_window.height
           l == Len(chain)
           c == Cardinality(Applicants)
           m == IF v < c THEN v ELSE c
           k == IF v < l THEN v ELSE l
           fit == {n \in 1 .. c : row_fits(captains_page.top + ROW_HEIGHT + (n - 1) * ROW_HEIGHT)}
<1>1. v \in Nat \ {0} /\ h \in Nat /\ l \in Nat /\ c \in Nat /\ l <= c
  BY TheArea, ChainIsAnOrder DEF TableTypes
<1>2. \A n \in Nat : row_fits(captains_page.top + ROW_HEIGHT + (n - 1) * ROW_HEIGHT) <=> n <= v
  BY <1>1 DEF row_fits, captains_page, captains_table, RowsOf, ROW_HEIGHT, FIRST_ROW_Y
<1>3. fit = 1 .. m
  <2> HIDE DEF v, c
  <2> QED
    BY <1>1, <1>2
<1>4. Cardinality(fit) = m
  <2>1. m \in Nat
    BY <1>1
  <2> HIDE DEF m
  <2> HIDE DEF fit
  <2>2. Cardinality(1 .. m) = IF 1 > m THEN 0 ELSE m - 1 + 1
    BY <2>1, FS_Interval
  <2>3. Cardinality(1 .. m) = m
    BY <2>1, <2>2
  <2> QED
    BY <1>3, <2>3
<1>5. drawn(p) = SubSeq(own_captains, p + 1, Min({l, p + m}))
  BY <1>4 DEF drawn
<1>6. p \in Nat /\ p + k <= l /\ (p + m <= l => p + m = p + k) /\ (~(p + m <= l) => l = p + k)
  <2> HIDE DEF v, l, c
  <2> QED
    BY <1>1 DEF Positions, v, l
<1>7. Min({l, p + m}) = p + k
  <2>1. p + m \in Int /\ p + k \in Int /\ p + k \in {l, p + m} /\ p + k <= l /\ p + k <= p + m
    <3> HIDE DEF v, l, c
    <3> QED
      BY <1>1, <1>6
  <2> HIDE DEF m, k
  <2>2. \A x \in {l, p + m} : (\A y \in {l, p + m} : x <= y) <=> x = p + k
    BY <1>1, <2>1
  <2>3. \E x \in {l, p + m} : \A y \in {l, p + m} : x <= y
    BY <2>1, <2>2
  <2> QED
    BY <2>2, <2>3 DEF Min
<1>8. k \in Nat
  BY <1>1
<1>9. \A i \in 1 .. l : own_captains[i] \in Range(chain)
  BY RowsInOrder DEF InARow
<1> HIDE DEF k, v, m, fit
<1>10. \A i \in p + 1 .. p + k : own_captains[i] \in Range(chain)
  BY <1>1, <1>6, <1>8, <1>9
<1> DEFINE d == SubSeq(own_captains, p + 1, p + k)
<1>11. /\ d \in Seq(Range(chain))
       /\ Len(d) = IF p + 1 <= p + k THEN (p + k) - (p + 1) + 1 ELSE 0
       /\ \A i \in 1 .. (p + k) - (p + 1) + 1 : d[i] = own_captains[(p + 1) + i - 1]
  <2>1. p + 1 \in Int /\ p + k \in Int
    BY <1>6, <1>8
  <2> QED
    BY <1>10, <2>1, SubSeqProperties
<1> HIDE DEF d
<1>12. Len(d) = k /\ (p + k) - (p + 1) + 1 = k /\ DOMAIN d = 1 .. k
  BY <1>6, <1>8, <1>11
<1>13. \A i \in 1 .. k : d[i] = own_captains[p + i]
  <2> SUFFICES ASSUME NEW i \in 1 .. k PROVE d[i] = own_captains[p + i]
    OBVIOUS
  <2>1. (p + 1) + i - 1 = p + i
    BY <1>6
  <2> QED
    BY <1>11, <1>12, <2>1
<1>14. drawn(p) = d
  BY <1>5, <1>7 DEF d
<1> QED
  BY <1>6, <1>12, <1>13, <1>14 DEF k, v

\* Between the first position and the last every row comes by.
LEMMA AllInReach ==
    ASSUME TableInv, bar.attached, bar.count = Len(chain)
    PROVE  InReach
<1> DEFINE v == RowsOf(tavern_window.height)
           l == Len(chain)
           k == IF v < l THEN v ELSE l
           o == own_captains
<1>1. TableTypes /\ bar.visible = v /\ bar.count = l /\ bar.first_row \in Positions(l, v)
  BY DEF TableInv, BarFits
<1>2. v \in Nat \ {0} /\ l \in Nat
  BY <1>1, TheArea DEF TableTypes
<1>3. InARow(o, GoesBefore, Range(chain)) /\ Cardinality(Range(chain)) = l
  BY <1>1, RowsInOrder
<1>4. \A p \in Positions(l, v) : /\ Len(drawn(p)) = k /\ p + k <= l /\ DOMAIN drawn(p) = 1 .. k
                                  /\ \A i \in 1 .. k : drawn(p)[i] = o[p + i]
  BY <1>1, DrawnIs
<1> HIDE DEF o, v, l
<1>5. Positions(l, v) \subseteq Nat
  BY DEF Positions
<1>6. UNION {Range(drawn(p)) : p \in Positions(l, v)} = Range(chain)
  <2>1. ASSUME NEW p \in Positions(l, v), NEW x \in Range(drawn(p)) PROVE x \in Range(chain)
    <3>1. PICK i \in 1 .. k : x = o[p + i]
      BY <1>4 DEF Range
    <3>2. p + i \in 1 .. l
      BY <1>2, <1>4, <1>5
    <3> QED
      BY <1>3, <3>1, <3>2 DEF InARow
  <2>2. ASSUME NEW x \in Range(chain) PROVE \E p \in Positions(l, v) : x \in Range(drawn(p))
    <3>1. PICK i \in 1 .. l : o[i] = x
      BY <1>3 DEF InARow
    <3>2. \E p \in Positions(l, v) : \E j \in 1 .. k : p + j = i
      <4>1. CASE l <= v
        <5>1. 0 \in Positions(l, v) /\ i \in 1 .. k /\ 0 + i = i
          BY <1>2, <4>1 DEF Positions
        <5> QED
          BY <5>1
      <4>2. CASE v < l /\ i - 1 <= l - v
        <5>1. i - 1 \in Positions(l, v) /\ 1 \in 1 .. k /\ (i - 1) + 1 = i
          BY <1>2, <4>2 DEF Positions
        <5> QED
          BY <5>1
      <4>3. CASE v < l /\ i - 1 > l - v
        <5>1. l - v \in Positions(l, v) /\ i - (l - v) \in 1 .. k /\ (l - v) + (i - (l - v)) = i
          BY <1>2, <4>3 DEF Positions
        <5> QED
          BY <5>1
      <4> QED
        BY <1>2, <4>1, <4>2, <4>3
    <3>3. PICK p \in Positions(l, v), j \in 1 .. k : p + j = i
      BY <3>2
    <3>4. drawn(p)[j] = x /\ j \in DOMAIN drawn(p)
      BY <1>4, <3>1, <3>3
    <3> QED
      BY <3>4 DEF Range
  <2> QED
    BY <2>1, <2>2
<1>7. Len(drawn(bar.first_row)) = Min({v, l})
  <2>1. Min({v, l}) = k
    <3>1. k \in {v, l} /\ k <= v /\ k <= l
      BY <1>2
    <3> HIDE DEF k
    <3>2. \A x \in {v, l} : (\A y \in {v, l} : x <= y) <=> x = k
      BY <1>2, <3>1
    <3> QED
      BY <3>1, <3>2 DEF Min
  <2> QED
    BY <1>1, <1>4, <2>1
<1>8. ASSUME NEW i \in 1 .. l - 1
      PROVE  IF Falling THEN RankOf(o[i]) >= RankOf(o[i + 1]) ELSE RankOf(o[i]) <= RankOf(o[i + 1])
  <2>1. i \in 1 .. l /\ i + 1 \in 1 .. l /\ i < i + 1
    BY <1>2
  <2>2. o[i] \in Range(chain) /\ o[i + 1] \in Range(chain) /\ <<o[i], o[i + 1]>> \in GoesBefore
    BY <1>3, <2>1 DEF InARow
  <2> DEFINE a == o[i]
             b == o[i + 1]
  <2> HIDE DEF a, b
  <2>3. compare(a, b) \/ ~compare(b, a)
    BY <2>2 DEF GoesBefore, a, b
  <2>4. /\ RankOf(a) \in Int /\ RankOf(b) \in Int
        /\ compare(a, b) <=> IF Falling THEN RankOf(a) > RankOf(b) ELSE RankOf(a) < RankOf(b)
    BY <1>1, <2>2, RankDecides DEF a, b
  <2>5. compare(b, a) <=> IF Falling THEN RankOf(b) > RankOf(a) ELSE RankOf(b) < RankOf(a)
    BY <1>1, <2>2, RankDecides DEF a, b
  <2>6. IF Falling THEN RankOf(a) >= RankOf(b) ELSE RankOf(a) <= RankOf(b)
    BY <2>3, <2>4, <2>5
  <2> QED
    BY <2>6 DEF a, b
<1> HIDE DEF k
<1> QED
  BY <1>1, <1>6, <1>7, <1>8 DEF InReach, Falling, RankOf, o, v, l

\* Every captain can be scrolled into view, however many there are and however high the
\* window, and the rows are in the order of the marked column.
THEOREM CaptainsAreInReach == TableSpec => []EveryoneIsInReach
<1>1. TableInv => EveryoneIsInReach
  <2> SUFFICES ASSUME TableInv PROVE EveryoneIsInReach
    OBVIOUS
  <2>1. OnScreen /\ bar.attached /\ bar.count = Len(chain) => InReach
    BY AllInReach
  <2>2. ASSUME bar.attached
        PROVE  bar.area.bottom <= bottom_row_y - ROW_HEIGHT /\ Has("draw") /\ (Has("close") \/ tavern_window.open)
    <3>1. bar.area = AreaOf(tavern_window.height) /\ tavern_window.height \in Nat /\ table_hooks = 7
      BY <2>2, TheArea DEF TableInv, BarFits
    <3>2. bar.area.bottom <= bottom_row_y - ROW_HEIGHT
      BY <3>1 DEF AreaOf, bottom_row_y, ROW_HEIGHT
    <3> QED
      BY <3>1, <3>2, HooksThere
  <2> QED
    BY <2>1, <2>2 DEF EveryoneIsInReach
<1> QED
  BY <1>1, TableInitial, TableStep, PTL DEF TableSpec

-----------------------------------------------------------------------------
(* CrewRescue: for any ships, crews and taverns.                           *)

\* Every lead is of a type whose full crew is enough to lead: without it a hire may fall short.
BigLeads == \A s \in Leads : FULL_CREW[s] >= LEADER_MIN

\* A ship that was rescued and has not left is where it was rescued: nothing raids it there.
InPort == resumed \subseteq port

RescueInv == CrewTypeOK /\ InPort /\ RescuedCanSail

\* What a ship can have aboard with its present cargo.
Berths(s) == IF s \in laden THEN Room ELSE FULL_CREW[s]

LEMMA Numbers ==
    ASSUME CrewTypeOK, NEW s \in Fleet
    PROVE  /\ crew[s] \in Nat /\ crew[s] <= Room /\ Room \in Nat
           /\ MIN_SAILORS[s] \in Nat /\ FULL_CREW[s] \in Nat /\ LEADER_MIN \in Nat
           /\ Berths(s) \in Nat /\ Berths(s) <= Room /\ MIN_SAILORS[s] <= Berths(s)
           /\ get_free_sailor_berths(s) = Berths(s) - crew[s]
           /\ available \in Nat /\ available <= MaxAvailable /\ MaxAvailable \in Nat
           /\ Wanted(s) \in Nat
<1>1. crew[s] \in 0 .. Room /\ available \in 0 .. MaxAvailable
  BY DEF CrewTypeOK
<1>2. /\ Room \in Nat /\ MaxAvailable \in Nat /\ LEADER_MIN \in Nat
      /\ MIN_SAILORS[s] \in Nat /\ FULL_CREW[s] \in Nat
      /\ MIN_SAILORS[s] <= FULL_CREW[s] /\ FULL_CREW[s] <= Room
  BY CrewAssumption
<1>3. Berths(s) \in Nat /\ Berths(s) <= Room /\ MIN_SAILORS[s] <= Berths(s)
  BY <1>2 DEF Berths
<1>4. get_free_sailor_berths(s) = Berths(s) - crew[s]
  BY DEF get_free_sailor_berths, Berths
<1>5. Wanted(s) \in Nat
  BY <1>2 DEF Wanted, Larger
<1> QED
  BY <1>1, <1>2, <1>3, <1>4, <1>5

\* A hire never takes more than there are berths and sailors, and never takes sailors away.
LEMMA HireTyped ==
    ASSUME CrewTypeOK, NEW s \in Fleet, NEW count \in Int, HireSailors(s, count)
    PROVE  crew' \in [Fleet -> 0 .. Room] /\ available' \in 0 .. MaxAvailable
<1>1. Hirable(s, count) \in Nat /\ Hirable(s, count) <= available
      /\ crew[s] + Hirable(s, count) <= Room
  BY Numbers DEF Hirable, Larger, Smaller
<1>2. crew[s] + Hirable(s, count) \in 0 .. Room
  BY <1>1, Numbers
<1>3. available' \in 0 .. MaxAvailable
  BY <1>1, Numbers DEF HireSailors
<1>4. crew' \in [Fleet -> 0 .. Room]
  BY <1>2 DEF HireSailors, CrewTypeOK
<1> QED
  BY <1>3, <1>4

\* The hook either files the note and leaves crew and tavern alone, or hires and resumes.
LEMMA RescueOutcomes ==
    ASSUME CrewTypeOK, NEW s \in Fleet, Stalls(s)
    PROVE  /\ UNCHANGED <<port, laden, unmet>>
           /\ \/ Files(s) /\ UNCHANGED <<crew, available>>
              \/ CanRescue(s) /\ Resumes(s) /\ HireSailors(s, Wanted(s) - crew[s])
BY DEF Stalls, route_note_hook, try_rescue

LEMMA CrewStepTyped == CrewTypeOK /\ [CrewNext]_crewVars => CrewTypeOK'
<1> SUFFICES ASSUME CrewTypeOK, [CrewNext]_crewVars PROVE CrewTypeOK'
  OBVIOUS
<1>1. ASSUME NEW s \in Fleet, Departs(s) PROVE CrewTypeOK'
  BY <1>1 DEF Departs, CrewTypeOK
<1>2. ASSUME NEW s \in Fleet, Stalls(s) PROVE CrewTypeOK'
  <2>1. CASE Files(s) /\ UNCHANGED <<crew, available>>
    BY <1>2, <2>1, RescueOutcomes DEF Files, CrewTypeOK
  <2>2. CASE CanRescue(s) /\ Resumes(s) /\ HireSailors(s, Wanted(s) - crew[s])
    <3>1. Wanted(s) - crew[s] \in Int
      BY Numbers
    <3>2. crew' \in [Fleet -> 0 .. Room] /\ available' \in 0 .. MaxAvailable
      BY <2>2, <3>1, HireTyped
    <3> QED
      BY <1>2, <2>2, <3>2, RescueOutcomes DEF Resumes, CrewTypeOK
  <2> QED
    BY <1>2, <2>1, <2>2, RescueOutcomes
<1>3. ASSUME NEW s \in Fleet, Arrives(s) PROVE CrewTypeOK'
  BY <1>3 DEF Arrives, CrewTypeOK
<1>4. ASSUME NEW s \in Fleet, Raided(s) PROVE CrewTypeOK'
  <2>1. PICK c \in 0 .. crew[s] - 1 : crew' = [crew EXCEPT ![s] = c]
    BY <1>4 DEF Raided
  <2>2. c \in 0 .. Room
    BY <2>1, Numbers
  <2> QED
    BY <1>4, <2>1, <2>2 DEF Raided, CrewTypeOK
<1>5. ASSUME NEW s \in Fleet, Hindered(s) PROVE CrewTypeOK'
  BY <1>5 DEF Hindered, CrewTypeOK
<1>6. ASSUME NEW s \in Fleet, PlayerStarts(s) \/ PlayerStops(s) PROVE CrewTypeOK'
  BY <1>6 DEF PlayerStarts, PlayerStops, CrewTypeOK
<1>7. ASSUME NEW s \in Fleet, NEW count \in 1 .. Room, PlayerHires(s, count) PROVE CrewTypeOK'
  <2>1. crew' \in [Fleet -> 0 .. Room] /\ available' \in 0 .. MaxAvailable
    BY <1>7, HireTyped DEF PlayerHires
  <2> QED
    BY <1>7, <2>1 DEF PlayerHires, CrewTypeOK
<1>8. CASE TavernChanges
  BY <1>8 DEF TavernChanges, CrewTypeOK
<1>9. CASE UNCHANGED crewVars
  BY <1>9 DEF crewVars, CrewTypeOK
<1> QED
  BY <1>1, <1>2, <1>3, <1>4, <1>5, <1>6, <1>7, <1>8, <1>9 DEF CrewNext, RouteTick

LEMMA TypeHolds == CrewSpec => []CrewTypeOK
<1>1. CrewInit => CrewTypeOK
  BY DEF CrewInit, CrewTypeOK
<1> QED
  BY <1>1, CrewStepTyped, PTL DEF CrewSpec

\* With leads big enough the clamp of the hire never bites.
LEMMA HireSuffices ==
    ASSUME BigLeads, CrewTypeOK, NEW s \in Fleet, CanRescue(s), HireSailors(s, Wanted(s) - crew[s])
    PROVE  crew'[s] = Wanted(s) /\ \A t \in Fleet : t # s => crew'[t] = crew[t]
<1>1. Wanted(s) <= Berths(s)
  <2>1. CASE s \in Leads
    BY <2>1, Numbers, CrewAssumption DEF BigLeads, Wanted, Larger, Berths
  <2>2. CASE s \notin Leads
    BY <2>2, Numbers DEF Wanted
  <2> QED
    BY <2>1, <2>2
<1>2. Hirable(s, Wanted(s) - crew[s]) = Wanted(s) - crew[s]
  BY <1>1, Numbers DEF CanRescue, Hirable, Larger, Smaller
<1>3. crew' = [crew EXCEPT ![s] = crew[s] + Hirable(s, Wanted(s) - crew[s])]
  BY DEF HireSailors
<1>4. crew \in [Fleet -> 0 .. Room]
  BY DEF CrewTypeOK
<1> QED
  BY <1>2, <1>3, <1>4, Numbers

LEMMA StepRescued == BigLeads /\ RescueInv /\ [CrewNext]_crewVars => RescuedCanSail'
<1> SUFFICES ASSUME BigLeads, RescueInv, [CrewNext]_crewVars PROVE RescuedCanSail'
  OBVIOUS
<1>a. CrewTypeOK /\ InPort /\ RescuedCanSail
  BY DEF RescueInv
<1>b. \A s \in Fleet : Wanted(s)' = Wanted(s)
  BY DEF Wanted
<1>c. resumed \subseteq Fleet
  BY <1>a DEF CrewTypeOK
<1>1. ASSUME NEW s \in Fleet, Departs(s) PROVE RescuedCanSail'
  BY <1>1, <1>a, <1>c DEF Departs, RescuedCanSail, Wanted
<1>2. ASSUME NEW s \in Fleet, Stalls(s) PROVE RescuedCanSail'
  <2>r. route \in [Fleet -> {"active", "stalled", "off"}]
    BY <1>a DEF CrewTypeOK
  <2>1. CASE Files(s) /\ UNCHANGED <<crew, available>>
    BY <2>1, <2>r, <1>a, <1>c DEF Files, RescuedCanSail, Wanted
  <2>2. CASE CanRescue(s) /\ Resumes(s) /\ HireSailors(s, Wanted(s) - crew[s])
    <3>1. crew'[s] = Wanted(s) /\ \A t \in Fleet : t # s => crew'[t] = crew[t]
      BY <2>2, <1>a, HireSuffices
    <3>2. \A t \in Fleet : route'[t] = IF t = s THEN "active" ELSE route[t]
      BY <2>2, <2>r DEF Resumes
    <3>3. resumed' = resumed \cup {s}
      BY <2>2 DEF Resumes
    <3>4. Wanted(s) \in Nat
      BY <1>a, Numbers
    <3>5. ASSUME NEW t \in resumed' PROVE route'[t] = "active" /\ crew'[t] >= Wanted(t)
      <4>1. CASE t = s
        BY <3>1, <3>2, <3>4, <4>1
      <4>2. CASE t # s
        BY <3>1, <3>2, <3>3, <3>5, <4>2, <1>a, <1>c DEF RescuedCanSail
      <4> QED
        BY <4>1, <4>2
    <3> QED
      BY <3>5 DEF RescuedCanSail, Wanted
  <2> QED
    BY <1>2, <1>a, <2>1, <2>2, RescueOutcomes
<1>3. ASSUME NEW s \in Fleet, Arrives(s) \/ Hindered(s) PROVE RescuedCanSail'
  BY <1>3, <1>a DEF Arrives, Hindered, RescuedCanSail, Wanted
<1>4. ASSUME NEW s \in Fleet, Raided(s) PROVE RescuedCanSail'
  <2>1. s \notin resumed
    BY <1>4, <1>a DEF Raided, InPort
  <2>2. \A t \in Fleet : t # s => crew'[t] = crew[t]
    BY <1>4, <1>a DEF Raided, CrewTypeOK
  <2> QED
    BY <1>4, <1>a, <1>c, <2>1, <2>2 DEF Raided, RescuedCanSail, Wanted
<1>5. ASSUME NEW s \in Fleet, NEW count \in 1 .. Room, PlayerHires(s, count) PROVE RescuedCanSail'
  <2>1. s \notin resumed
    BY <1>5, <1>a DEF PlayerHires, RescuedCanSail
  <2>2. \A t \in Fleet : t # s => crew'[t] = crew[t]
    BY <1>5, <1>a DEF PlayerHires, HireSailors, CrewTypeOK
  <2> QED
    BY <1>5, <1>a, <1>c, <2>1, <2>2 DEF PlayerHires, RescuedCanSail, Wanted
<1>6. ASSUME NEW s \in Fleet, PlayerStarts(s) PROVE RescuedCanSail'
  <2>1. s \notin resumed
    BY <1>6, <1>a DEF PlayerStarts, RescuedCanSail
  <2>2. \A t \in Fleet : t # s => route'[t] = route[t]
    BY <1>6, <1>a DEF PlayerStarts, CrewTypeOK
  <2> QED
    BY <1>6, <1>a, <1>c, <2>1, <2>2 DEF PlayerStarts, RescuedCanSail, Wanted
<1>7. ASSUME NEW s \in Fleet, PlayerStops(s) PROVE RescuedCanSail'
  <2>1. \A t \in Fleet : t # s => route'[t] = route[t]
    BY <1>7, <1>a DEF PlayerStops, CrewTypeOK
  <2> QED
    BY <1>7, <1>a, <1>c, <2>1 DEF PlayerStops, RescuedCanSail, Wanted
<1>8. CASE TavernChanges \/ UNCHANGED crewVars
  BY <1>8, <1>a DEF TavernChanges, crewVars, RescuedCanSail, Wanted
<1> QED
  BY <1>1, <1>2, <1>3, <1>4, <1>5, <1>6, <1>7, <1>8 DEF CrewNext, RouteTick

LEMMA StepInPort == CrewTypeOK /\ InPort /\ [CrewNext]_crewVars => InPort'
<1> SUFFICES ASSUME CrewTypeOK, InPort, [CrewNext]_crewVars PROVE InPort'
  OBVIOUS
<1>1. ASSUME NEW s \in Fleet, Departs(s) \/ Arrives(s) \/ Raided(s) \/ Hindered(s) PROVE InPort'
  BY <1>1 DEF Departs, Arrives, Raided, Hindered, InPort
<1>2. ASSUME NEW s \in Fleet, Stalls(s) PROVE InPort'
  BY <1>2, RescueOutcomes DEF Files, Resumes, CanRescue, InPort
<1>3. ASSUME NEW s \in Fleet, PlayerStarts(s) \/ PlayerStops(s) PROVE InPort'
  BY <1>3 DEF PlayerStarts, PlayerStops, InPort
<1>4. ASSUME NEW s \in Fleet, NEW count \in 1 .. Room, PlayerHires(s, count) PROVE InPort'
  BY <1>4 DEF PlayerHires, InPort
<1>5. CASE TavernChanges \/ UNCHANGED crewVars
  BY <1>5 DEF TavernChanges, crewVars, InPort
<1> QED
  BY <1>1, <1>2, <1>3, <1>4, <1>5 DEF CrewNext, RouteTick

-----------------------------------------------------------------------------

\* No hire overfills a ship or overdraws the tavern, for any ships, crews and taverns.
THEOREM CrewTypeCorrect == CrewSpec => []CrewTypeOK
BY TypeHolds

\* As long as every lead is of a type whose full crew is enough to lead, a ship whose note was
\* suppressed has the crew its route needs and the route running until it leaves, however the
\* ships share the tavern: crew_rescue.rs:28 "only hires when that copy would sail".
THEOREM RescueIsSound == BigLeads => (CrewSpec => []RescuedCanSail)
<1> SUFFICES ASSUME BigLeads PROVE CrewSpec => []RescuedCanSail
  OBVIOUS
<1>1. CrewInit => RescueInv
  BY DEF CrewInit, RescueInv, CrewTypeOK, InPort, RescuedCanSail
<1>2. RescueInv /\ [CrewNext]_crewVars => RescueInv'
  BY CrewStepTyped, StepInPort, StepRescued DEF RescueInv
<1>3. RescueInv => RescuedCanSail
  BY DEF RescueInv
<1> QED
  BY <1>1, <1>2, <1>3, PTL DEF CrewSpec

\* A note that passes has cost nothing: the whole of the rescue is decided before the hire.
THEOREM NothingIsTouched == CrewSpec => NothingTouched
<1> DEFINE Told(s) == s \notin told /\ s \in told'
<1>1. CrewTypeOK /\ [CrewNext]_crewVars => [\A s \in Fleet : Told(s) => UNCHANGED <<crew, available>>]_crewVars
  <2> SUFFICES ASSUME CrewTypeOK, [CrewNext]_crewVars, NEW s \in Fleet, Told(s)
               PROVE  UNCHANGED <<crew, available>>
    OBVIOUS
  <2>1. ASSUME NEW t \in Fleet, Departs(t) \/ Arrives(t) \/ Hindered(t) \/ PlayerStarts(t) \/ PlayerStops(t)
        PROVE  UNCHANGED <<crew, available>>
    BY <2>1 DEF Departs, Arrives, Hindered, PlayerStarts, PlayerStops
  <2>2. ASSUME NEW t \in Fleet, Stalls(t) PROVE UNCHANGED <<crew, available>>
    BY <2>2, RescueOutcomes DEF Resumes
  <2>3. ASSUME NEW t \in Fleet, Raided(t) PROVE UNCHANGED <<crew, available>>
    BY <2>3 DEF Raided
  <2>4. ASSUME NEW t \in Fleet, NEW count \in 1 .. Room, PlayerHires(t, count)
        PROVE  UNCHANGED <<crew, available>>
    BY <2>4 DEF PlayerHires
  <2>5. CASE TavernChanges \/ UNCHANGED crewVars
    BY <2>5 DEF TavernChanges, crewVars
  <2> QED
    BY <2>1, <2>2, <2>3, <2>4, <2>5 DEF CrewNext, RouteTick
<1> QED
  BY <1>1, TypeHolds, PTL DEF CrewSpec, NothingTouched
============================================================================
