------------------------------ MODULE PartsProofs ------------------------------
(***************************************************************************)
(* Proofs about components that share no state with one another: the       *)
(* church's animations, the harbour fill, the texture cache's profiler,    *)
(* the window probe, the mission linter, the drawing of pages, the order   *)
(* of a fetch route's towns, the crash reporter, the windows of mods in    *)
(* the game's scenes, the ships' navigation table and the ship keys.       *)
(***************************************************************************)
EXTENDS TourOrder, CrashReporter, ChurchAnimations, HarborFill, TextureProfiler, LifecycleProbe,
        MissionLint, PageDrawing, SceneWindows, NavpointMatrix, ShipKeys, Induction, SequenceTheorems

-----------------------------------------------------------------------------
(* ChurchAnimations: whatever the heap left behind, either of the two      *)
(* fixes keeps the tick from streaming into an array that is not its own.  *)

ChurchTypes ==
    /\ ctor_hooked \in BOOLEAN /\ patch \in 0 .. 5
    /\ mode \in Int /\ intro_flag \in BOOLEAN /\ blind \in BOOLEAN

\* The player's array belongs to its current animation; without one of the church's it is
\* not the loop's either.
ArrayIsCurrents ==
    IF current_anim \in {Loop, Intro} THEN frames = current_anim ELSE frames # Loop

\* The tavern shows its own.
InTheTavern == window = "tavern" => current_anim = Other

\* With the constructor hooked the tick is only awake in a church whose page has been set.
Asleep ==
    /\ ctor_hooked /\ mode > 0 => window = "church" /\ current_anim \in {Loop, Intro}
    /\ window = "none" => mode = MODE_NONE /\ ~blind

ChurchInv == ChurchTypes /\ ArrayIsCurrents /\ InTheTavern /\ Asleep /\ NeverStreamsBlind

LEMMA ChurchInitial == ChurchInit => ChurchInv
<1> SUFFICES ASSUME ChurchInit PROVE ChurchInv
  OBVIOUS
<1>1. ChurchTypes
  <2>1. patch \in 0 .. 5 /\ mode \in Int
    BY SMT DEF ChurchInit, MODE_NONE
  <2>2. ctor_hooked \in BOOLEAN /\ intro_flag \in BOOLEAN /\ blind \in BOOLEAN
    BY Zenon DEF ChurchInit
  <2> QED
    BY <2>1, <2>2 DEF ChurchTypes
<1>2. ArrayIsCurrents /\ InTheTavern
  BY ChurchAssumption DEF ChurchInit, ArrayIsCurrents, InTheTavern
<1>3. Asleep
  BY DEF ChurchInit, Asleep, MODE_NONE
<1>4. NeverStreamsBlind
  BY DEF ChurchInit, NeverStreamsBlind
<1> QED
  BY <1>1, <1>2, <1>3, <1>4 DEF ChurchInv

\* The tick: what it streams is the loop's own array, and it logs as healed what the game's
\* own tick would have streamed.
LEMMA TickKeeps == ChurchInv /\ Tick => ChurchInv'
<1> SUFFICES ASSUME ChurchInv, Tick PROVE ChurchInv'
  OBVIOUS
<1> USE DEF ChurchInv, ChurchTypes, ArrayIsCurrents, InTheTavern, Asleep, NeverStreamsBlind
<1> DEFINE does == IF patch >= 1 THEN patched(current_anim) ELSE vanilla(current_anim)
<1>1. CASE does = "play" /\ intro_flag' \in BOOLEAN /\ UNCHANGED <<frames, current_anim, blind, told, due>>
  BY <1>1, SMT DEF Tick
<1>2. CASE /\ does = "load"
           /\ blind' = (blind \/ (anim_player_guard /\ frames # Loop))
           /\ UNCHANGED <<intro_flag, frames, current_anim, told, due>>
  <2>1. ctor_hooked \/ patch >= 1 => frames = Loop
    BY ChurchAssumption, <1>2, SMT DEF Tick, patched, vanilla
  <2> QED
    BY <1>2, <2>1, SMT DEF Tick
<1>3. CASE /\ does = "switch"
           /\ told' = (patch >= 2 /\ ~vanilla_transition)
           /\ due' = (patch >= 2 /\ vanilla(current_anim) = "load" /\ frames # Loop)
           /\ frames' = Loop /\ current_anim' = Loop
           /\ UNCHANGED <<intro_flag, blind>>
  <2>1. told' = due'
    <3>1. CASE ~(patch >= 2)
      BY <1>3, <3>1
    <3>2. CASE patch >= 2
      <4>1. patched(current_anim) = "switch"
        BY <1>3, <3>2, SMT
      <4>2. current_anim # Loop /\ (current_anim = Intro => ~intro_flag)
        BY ChurchAssumption, <4>1, SMT DEF patched
      <4>3. CASE current_anim = Intro
        BY ChurchAssumption, <1>3, <3>2, <4>2, <4>3, SMT DEF vanilla, vanilla_transition
      <4>4. CASE current_anim # Intro
        BY ChurchAssumption, <1>3, <3>2, <4>2, <4>4, SMT DEF vanilla, vanilla_transition
      <4> QED
        BY <4>3, <4>4
    <3> QED
      BY <3>1, <3>2
  <2> QED
    BY ChurchAssumption, <1>3, <2>1, SMT DEF Tick
<1> QED
  BY <1>1, <1>2, <1>3 DEF Tick

LEMMA ChurchStep == ChurchInv /\ [ChurchNext]_churchVars => ChurchInv'
<1> SUFFICES ASSUME ChurchInv, [ChurchNext]_churchVars PROVE ChurchInv'
  OBVIOUS
<1> USE DEF ChurchInv, ChurchTypes, ArrayIsCurrents, InTheTavern, Asleep, NeverStreamsBlind
<1>1. CASE start_church
  BY <1>1, SMT DEF start_church, MODE_NONE
<1>2. CASE NewSession
  BY ChurchAssumption, <1>2, SMT DEF NewSession, constructor, MODE_NONE
<1>3. CASE Tick
  BY <1>3, TickKeeps
<1>4. CASE OpenChurch
  BY <1>4, SMT DEF OpenChurch
<1>5. CASE CloseChurch
  BY <1>5, SMT DEF CloseChurch, MODE_NONE
<1>6. CASE EnterTavern
  BY ChurchAssumption, <1>6, SMT DEF EnterTavern
<1>7. CASE CloseTavern
  BY ChurchAssumption, <1>7, SMT DEF CloseTavern
<1>8. CASE SetMode(1)
  BY ChurchAssumption, <1>8, SMT DEF SetMode
<1>9. CASE UNCHANGED churchVars
  BY <1>9 DEF churchVars
<1> QED
  BY <1>1, <1>2, <1>3, <1>4, <1>5, <1>6, <1>7, <1>8, <1>9 DEF ChurchNext

\* For any animations and any leftovers of the heap: with the constructor hooked, or the
\* tick patched however far, no frame goes into a missing or a foreign array, and the log
\* names exactly the switches that healed one (ffi.rs, tick_patch.rs).
THEOREM StreamsItsOwn == ChurchSpec => []NeverStreamsBlind
<1>1. ChurchInit => ChurchInv
  BY ChurchInitial
<1>2. ChurchInv /\ [ChurchNext]_churchVars => ChurchInv'
  BY ChurchStep
<1>3. ChurchInv => NeverStreamsBlind
  BY DEF ChurchInv
<1> QED
  BY <1>1, <1>2, <1>3, PTL DEF ChurchSpec

-----------------------------------------------------------------------------
(* HarborFill: the guarded fill marks its region.                          *)

Call == [site : {"seed", "recurse"}, x : Int, y : Int]
Tile(call) == <<call.x, call.y>>
CellOf(t) == stride * t[2] + t[1]
Marked == {t \in Tiles(water) : CellOf(t) \in matrix}
Due == {Tile(calls[n]) : n \in DOMAIN calls}

FillTypes ==
    /\ detours \in 0 .. 2
    /\ water \subseteq MapCells /\ matrix \subseteq MapCells
    /\ seed \in Int \X Int
    /\ calls \in Seq(Call)

\* Before a town view opens there is nothing to fill.
NothingYet == water = {} => matrix = {} /\ calls = << >> /\ ~outside

\* The fill is called for, and has marked, only what it can reach.
StaysInside ==
    /\ ~outside
    /\ water # {} => region = Region(seed, water)
    /\ \A t \in Due \cap Tiles(water) : CellOf(t) \in region
    /\ matrix \subseteq region /\ matrix \subseteq water

\* What it can reach is marked, or a call for it is still to be made.
ReachesAll ==
    /\ water # {} => {seed} \cap Tiles(water) \subseteq Marked \cup Due
    /\ \A t \in Marked : Neighbours(t) \cap Tiles(water) \subseteq Marked \cup Due

FillInv == FillTypes /\ NothingYet /\ (detours = 2 => StaysInside /\ ReachesAll)

\* Two tiles of the map have two cells.
LEMMA CellsDiffer ==
    ASSUME NEW x1 \in 0 .. stride - 1, NEW y1 \in Nat, NEW x2 \in 0 .. stride - 1, NEW y2 \in Nat,
           stride * y1 + x1 = stride * y2 + x2
    PROVE  x1 = x2 /\ y1 = y2
<1> USE HarborAssumption
<1>1. ASSUME NEW a \in Nat, NEW b \in Nat, NEW v \in 0 .. stride - 1, NEW w \in 0 .. stride - 1,
             a < b, stride * a + v = stride * b + w
      PROVE  FALSE
  <2>1. PICK d \in Nat : b = a + 1 + d
    <3>1. b - a - 1 \in Nat
      BY <1>1
    <3> QED
      BY <3>1
  <2>2. stride * b = stride * a + stride + stride * d
    BY <2>1
  <2>3. stride * d \in Nat /\ stride * a \in Nat
    OBVIOUS
  <2> QED
    BY <1>1, <2>2, <2>3
<1>2. y1 = y2
  <2>1. ~(y1 < y2)
    BY <1>1
  <2>2. ~(y2 < y1)
    BY <1>1
  <2> QED
    BY <2>1, <2>2
<1>3. stride * y1 = stride * y2
  BY <1>2
<1>4. stride * y1 \in Nat
  OBVIOUS
<1> QED
  BY <1>2, <1>3, <1>4

\* A tile of the map lies in the matrix.
LEMMA TilesAreCells ==
    ASSUME NEW x \in 0 .. stride - 1, NEW y \in 0 .. height - 1
    PROVE  stride * y + x \in MapCells
<1> USE HarborAssumption
<1>1. PICK d \in Nat : height = y + 1 + d
  <2>1. height - y - 1 \in Nat
    OBVIOUS
  <2> QED
    BY <2>1
<1>2. stride * height = stride * y + stride + stride * d
  BY <1>1
<1>3. stride * d \in Nat /\ stride * y \in Nat /\ stride * height \in Nat
  OBVIOUS
<1> QED
  BY <1>2, <1>3 DEF MapCells

LEMMA TileFacts ==
    ASSUME NEW w, NEW t \in Tiles(w)
    PROVE  /\ t[1] \in 0 .. stride - 1 /\ t[2] \in 0 .. height - 1
           /\ t = <<t[1], t[2]>>
           /\ CellOf(t) \in w
BY DEF Tiles, CellOf

\* Of two tiles with the same cell there is one.
LEMMA OneTile ==
    ASSUME NEW w, NEW t \in Tiles(w), NEW u \in Tiles(w), CellOf(t) = CellOf(u)
    PROVE  t = u
<1>1. t[1] = u[1] /\ t[2] = u[2]
  <2>1. t[2] \in Nat /\ u[2] \in Nat
    BY TileFacts, HarborAssumption
  <2>2. stride * t[2] + t[1] = stride * u[2] + u[1]
    BY DEF CellOf
  <2> QED
    BY <2>1, <2>2, TileFacts, CellsDiffer
<1> QED
  BY <1>1, TileFacts

\* The tiles whose cells the region holds are closed.
LEMMA RegionIsClosed ==
    ASSUME NEW w, NEW from
    PROVE  /\ from \in Tiles(w) => CellOf(from) \in Region(from, w)
           /\ \A t \in Tiles(w) : CellOf(t) \in Region(from, w) =>
                \A u \in Neighbours(t) \cap Tiles(w) : CellOf(u) \in Region(from, w)
           /\ Region(from, w) \subseteq w
<1> DEFINE reached == {u \in Tiles(w) : \A tiles \in SUBSET Tiles(w) : Closed(tiles, from, w) => u \in tiles}
<1>1. Region(from, w) = {CellOf(t) : t \in reached}
  BY DEF Region, CellOf
<1>2. from \in Tiles(w) => from \in reached
  BY DEF Closed
<1>3. ASSUME NEW t \in Tiles(w), CellOf(t) \in Region(from, w), NEW u \in Neighbours(t) \cap Tiles(w)
      PROVE  CellOf(u) \in Region(from, w)
  <2>1. PICK s \in reached : CellOf(s) = CellOf(t)
    BY <1>1, <1>3
  <2>2. s = t
    BY <2>1, OneTile
  <2>3. u \in reached
    BY <2>1, <2>2, <1>3 DEF Closed
  <2> QED
    BY <2>3, <1>1
<1>4. Region(from, w) \subseteq w
  BY <1>1, TileFacts
<1> HIDE DEF reached
<1> QED
  BY <1>1, <1>2, <1>3, <1>4

\* Whatever set of tiles is closed has the region.
LEMMA RegionIsLeast ==
    ASSUME NEW w, NEW from, NEW tiles \in SUBSET Tiles(w), Closed(tiles, from, w)
    PROVE  Region(from, w) \subseteq {CellOf(t) : t \in tiles}
BY DEF Region, CellOf

\* A call is gone through in the order it was made; what it leads to is due.
LEMMA DueFacts ==
    ASSUME calls \in Seq(Call), calls # << >>
    PROVE  /\ Head(calls) \in Call /\ Tail(calls) \in Seq(Call)
           /\ Tile(Head(calls)) \in Due
           /\ Due \subseteq {Tile(Head(calls))} \cup {Tile(Tail(calls)[n]) : n \in DOMAIN Tail(calls)}
           /\ {Tile(Tail(calls)[n]) : n \in DOMAIN Tail(calls)} \subseteq Due
<1>1. Head(calls) = calls[1] /\ 1 \in DOMAIN calls
  OBVIOUS
<1>2. \A n \in DOMAIN Tail(calls) : Tail(calls)[n] = calls[n + 1] /\ n + 1 \in DOMAIN calls
  OBVIOUS
<1>3. \A n \in DOMAIN calls : n # 1 => n - 1 \in DOMAIN Tail(calls) /\ Tail(calls)[n - 1] = calls[n]
  OBVIOUS
<1>4. Head(calls) \in Call /\ Tail(calls) \in Seq(Call)
  OBVIOUS
<1>5. Due \subseteq {Tile(Head(calls))} \cup {Tile(Tail(calls)[n]) : n \in DOMAIN Tail(calls)}
  <2> SUFFICES ASSUME NEW n \in DOMAIN calls, Tile(calls[n]) # Tile(Head(calls))
               PROVE  \E p \in DOMAIN Tail(calls) : Tile(calls[n]) = Tile(Tail(calls)[p])
    BY DEF Due
  <2> QED
    BY <1>1, <1>3
<1> QED
  BY <1>1, <1>2, <1>4, <1>5 DEF Due

\* The game's fill makes a call for every neighbour of the tile it is at.
LEMMA NextCalls ==
    ASSUME NEW call \in Call, NEW rest \in Seq(Call)
    PROVE  /\ around(call) \o rest \in Seq(Call)
           /\ {Tile((around(call) \o rest)[n]) : n \in DOMAIN (around(call) \o rest)} =
                Neighbours(Tile(call)) \cup {Tile(rest[n]) : n \in DOMAIN rest}
<1> DEFINE next == around(call)
<1>1. \A n \in 1 .. 4 : Deltas[n][1] \in Int /\ Deltas[n][2] \in Int
  BY DEF Deltas
<1>2. \A n \in 1 .. 4 : next[n] \in Call
  <2> SUFFICES ASSUME NEW n \in 1 .. 4 PROVE next[n] \in Call
    OBVIOUS
  <2>1. next[n] = [site |-> "recurse", x |-> call.x + Deltas[n][1], y |-> call.y + Deltas[n][2]]
    BY DEF around
  <2>2. call.x \in Int /\ call.y \in Int
    BY DEF Call
  <2>3. Deltas[n][1] \in Int /\ Deltas[n][2] \in Int
    BY <1>1
  <2>4. \A a, b \in Int : a + b \in Int
    OBVIOUS
  <2>5. call.x + Deltas[n][1] \in Int /\ call.y + Deltas[n][2] \in Int
    BY <2>2, <2>3, <2>4, Zenon
  <2> QED
    BY <2>1, <2>5 DEF Call
<1>3. next \in Seq(Call) /\ Len(next) = 4 /\ DOMAIN next = 1 .. 4
  <2>1. next \in [1 .. 4 -> Call]
    BY <1>2 DEF around
  <2>2. DOMAIN next = 1 .. 4
    BY DEF around
  <2> HIDE DEF next
  <2>3. next \in Seq(Call)
    <3>1. PICK n \in Nat : n = 4
      OBVIOUS
    <3>2. next \in [1 .. n -> Call]
      BY <2>1, <3>1
    <3> QED
      BY <3>2
  <2>4. Len(next) = 4
    BY <2>2, <2>3
  <2> QED
    BY <2>2, <2>3, <2>4
<1>4. Neighbours(Tile(call)) = {Tile(next[n]) : n \in 1 .. 4}
  BY DEF Neighbours, Tile, around
<1> HIDE DEF next
<1>5. /\ next \o rest \in Seq(Call)
      /\ DOMAIN (next \o rest) = 1 .. 4 + Len(rest)
      /\ \A n \in 1 .. 4 : (next \o rest)[n] = next[n]
      /\ \A n \in DOMAIN rest : (next \o rest)[n + 4] = rest[n] /\ n + 4 \in 1 .. 4 + Len(rest)
      /\ \A n \in 1 .. 4 + Len(rest) : n \notin 1 .. 4 => n - 4 \in DOMAIN rest /\ (next \o rest)[n] = rest[n - 4]
  <2> DEFINE whole == next \o rest
  <2>1. /\ whole \in Seq(Call) /\ Len(whole) = Len(next) + Len(rest)
        /\ \A n \in 1 .. Len(next) + Len(rest) :
             whole[n] = IF n <= Len(next) THEN next[n] ELSE rest[n - Len(next)]
    BY <1>3, ConcatProperties
  <2>2. DOMAIN whole = 1 .. Len(whole) /\ Len(rest) \in Nat /\ DOMAIN rest = 1 .. Len(rest)
    BY <2>1, LenProperties
  <2> HIDE DEF whole
  <2>3. DOMAIN whole = 1 .. 4 + Len(rest)
    BY <1>3, <2>1, <2>2
  <2>4. \A n \in 1 .. 4 + Len(rest) : whole[n] = IF n <= 4 THEN next[n] ELSE rest[n - 4]
    BY <1>3, <2>1
  <2>5. \A n \in 1 .. 4 : whole[n] = next[n]
    BY <2>2, <2>4
  <2>6. \A n \in DOMAIN rest : whole[n + 4] = rest[n] /\ n + 4 \in 1 .. 4 + Len(rest)
    BY <2>2, <2>4
  <2>7. \A n \in 1 .. 4 + Len(rest) : n \notin 1 .. 4 => n - 4 \in DOMAIN rest /\ whole[n] = rest[n - 4]
    BY <2>2, <2>4
  <2> QED
    BY <2>1, <2>3, <2>5, <2>6, <2>7 DEF whole
<1> DEFINE whole == next \o rest
<1> HIDE DEF whole
<1>6. {Tile(whole[n]) : n \in DOMAIN whole} = {Tile(next[n]) : n \in 1 .. 4} \cup {Tile(rest[n]) : n \in DOMAIN rest}
  <2>1. ASSUME NEW n \in DOMAIN whole
        PROVE  Tile(whole[n]) \in {Tile(next[p]) : p \in 1 .. 4} \cup {Tile(rest[p]) : p \in DOMAIN rest}
    <3>1. CASE n \in 1 .. 4
      BY <3>1, <1>5 DEF whole
    <3>2. CASE n \notin 1 .. 4
      <4>1. n - 4 \in DOMAIN rest /\ whole[n] = rest[n - 4]
        BY <3>2, <1>5 DEF whole
      <4> QED
        BY <4>1
    <3> QED
      BY <3>1, <3>2
  <2>2. ASSUME NEW n \in 1 .. 4
        PROVE  Tile(next[n]) \in {Tile(whole[p]) : p \in DOMAIN whole}
    <3>1. n \in DOMAIN whole /\ whole[n] = next[n]
      BY <1>5, <1>3 DEF whole
    <3> QED
      BY <3>1
  <2>3. ASSUME NEW n \in DOMAIN rest
        PROVE  Tile(rest[n]) \in {Tile(whole[p]) : p \in DOMAIN whole}
    <3>1. n + 4 \in DOMAIN whole /\ whole[n + 4] = rest[n]
      BY <1>5 DEF whole
    <3> QED
      BY <3>1
  <2> QED
    BY <2>1, <2>2, <2>3
<1> QED
  BY <1>4, <1>5, <1>6 DEF whole, next

\* A call inside the map is for a tile that matches exactly if its cell does.
LEMMA InRangeTile ==
    ASSUME NEW call \in Call, in_range(call.x, call.y)
    PROVE  /\ Tile(call) \in Tiles(water) <=> stride * call.y + call.x \in water
           /\ CellOf(Tile(call)) = stride * call.y + call.x
           /\ stride * call.y + call.x \in MapCells
<1>1. call.x \in 0 .. stride - 1 /\ call.y \in 0 .. height - 1
  BY HarborAssumption DEF in_range, Call
<1> QED
  BY <1>1, TilesAreCells DEF Tiles, Tile, CellOf

LEMMA FillKeeps ==
    ASSUME FillInv, fill
    PROVE  FillInv'
<1> USE DEF FillInv
<1> DEFINE call == Head(calls)
           index == stride * call.y + call.x
           next == around(call)
           rest == Tail(calls)
           restDue == {Tile(rest[n]) : n \in DOMAIN rest}
<1>1. calls # << >> /\ UNCHANGED <<detours, water, seed, region>>
  BY DEF fill
<1>2. /\ call \in Call /\ rest \in Seq(Call)
      /\ Tile(call) \in Due
      /\ Due \subseteq {Tile(call)} \cup restDue
      /\ restDue \subseteq Due
  BY <1>1, DueFacts DEF FillTypes
<1>3. \/ guarded(call.site) /\ ~in_range(call.x, call.y) /\ calls' = rest /\ UNCHANGED <<matrix, outside>>
      \/ /\ ~(guarded(call.site) /\ ~in_range(call.x, call.y))
         /\ matrix' = IF index \in water THEN matrix \cup {index} ELSE matrix
         /\ calls' = IF index \in water \ matrix THEN next \o rest ELSE rest
         /\ outside' = (outside \/ index \notin MapCells)
  BY DEF fill
<1>4. /\ next \o rest \in Seq(Call)
      /\ {Tile((next \o rest)[n]) : n \in DOMAIN (next \o rest)} = Neighbours(Tile(call)) \cup restDue
  <2> HIDE DEF call, rest
  <2> QED
    BY <1>2, NextCalls
<1> HIDE DEF call, index, next, rest, restDue
<1>5. FillTypes'
  BY <1>1, <1>2, <1>3, <1>4 DEF FillTypes
<1>6. NothingYet'
  BY <1>1 DEF NothingYet
<1>7. ASSUME detours = 2 PROVE StaysInside' /\ ReachesAll'
  <2>1. guarded(call.site)
    BY <1>7 DEF guarded
  <2>2. Tiles(water)' = Tiles(water) /\ water # {}
    BY <1>1 DEF Tiles, NothingYet
  <2>3. Due' = {Tile(calls'[n]) : n \in DOMAIN calls'}
    BY DEF Due, Tile
  <2>4. CASE ~in_range(call.x, call.y)
    <3>1. Tile(call) \notin Tiles(water)
      BY <2>4, <1>2, HarborAssumption DEF in_range, Tiles, Tile, Call
    <3>2. calls' = rest /\ UNCHANGED <<matrix, outside>> /\ Due' = restDue
      BY <2>1, <2>4, <1>3, <2>3 DEF restDue
    <3>3. Marked' = Marked
      BY <3>2, <2>2 DEF Marked, CellOf
    <3>4. StaysInside'
      BY <3>2, <1>1, <1>2, <1>7, <2>2 DEF StaysInside, Region, Tiles, Closed, CellOf
    <3>5. ReachesAll'
      BY <3>1, <3>2, <3>3, <1>1, <1>2, <1>7, <2>2 DEF ReachesAll
    <3> QED
      BY <3>4, <3>5
  <2>5. CASE in_range(call.x, call.y)
    <3>1. /\ Tile(call) \in Tiles(water) <=> index \in water
          /\ CellOf(Tile(call)) = index
          /\ index \in MapCells
      BY <2>5, <1>2, InRangeTile DEF index
    <3>2. /\ matrix' = IF index \in water THEN matrix \cup {index} ELSE matrix
          /\ calls' = IF index \in water \ matrix THEN next \o rest ELSE rest
          /\ ~outside'
      BY <2>5, <1>3, <3>1, <1>7 DEF StaysInside
    <3>3. Due' = IF index \in water \ matrix THEN Neighbours(Tile(call)) \cup restDue ELSE restDue
      BY <3>2, <1>4, <2>3 DEF restDue
    <3>4. CASE index \in water \ matrix
      <4>1. index \in region /\ Tile(call) \in Tiles(water)
        BY <3>4, <3>1, <1>2, <1>7 DEF StaysInside
      <4>2. region = Region(seed, water) /\ region' = Region(seed, water)
        BY <2>2, <1>1, <1>7 DEF StaysInside
      <4>3. \A u \in Neighbours(Tile(call)) \cap Tiles(water) : CellOf(u) \in region
        BY <4>1, <4>2, <3>1, RegionIsClosed
      <4>4. Marked' = Marked \cup {Tile(call)}
        <5>1. ASSUME NEW t \in Tiles(water) PROVE CellOf(t) \in matrix' <=> t \in Marked \cup {Tile(call)}
          <6>1. CellOf(t) = index => t = Tile(call)
            BY <4>1, <3>1, OneTile
          <6> QED
            BY <6>1, <3>1, <3>2, <3>4 DEF Marked
        <5>2. Marked' = {t \in Tiles(water) : CellOf(t) \in matrix'}
          BY <2>2 DEF Marked, CellOf
        <5>3. Marked \cup {Tile(call)} \subseteq Tiles(water)
          BY <4>1 DEF Marked
        <5> QED
          BY <5>1, <5>2, <5>3
      <4>5. StaysInside'
        <5>1. \A t \in Due' \cap Tiles(water) : CellOf(t) \in region
          BY <3>3, <3>4, <4>3, <1>2, <1>7 DEF StaysInside
        <5>2. matrix' \subseteq region /\ matrix' \subseteq water
          BY <3>2, <3>4, <4>1, <1>7 DEF StaysInside
        <5>3. (region = Region(seed, water))'
          BY <4>2, <1>1 DEF Region, Tiles, Closed
        <5> QED
          BY <5>1, <5>2, <5>3, <2>2, <3>2, <1>1, <1>7 DEF StaysInside, CellOf
      <4>6. ReachesAll'
        <5>1. Marked \cup Due \subseteq Marked' \cup Due'
          BY <4>4, <3>3, <3>4, <1>2
        <5>2. \A t \in Marked' : Neighbours(t) \cap Tiles(water) \subseteq Marked' \cup Due'
          BY <5>1, <4>4, <3>3, <3>4, <1>7 DEF ReachesAll
        <5> QED
          BY <5>1, <5>2, <2>2, <1>1, <1>7 DEF ReachesAll
      <4> QED
        BY <4>5, <4>6
    <3>5. CASE ~(index \in water \ matrix)
      <4>1. matrix' = matrix
        BY <3>2, <3>5
      <4>2. Marked' = Marked
        BY <4>1, <2>2 DEF Marked, CellOf
      <4>3. Tile(call) \in Tiles(water) => Tile(call) \in Marked
        BY <3>1, <3>5 DEF Marked
      <4>4. StaysInside'
        BY <4>1, <3>2, <3>3, <3>5, <1>1, <1>2, <1>7, <2>2 DEF StaysInside, Region, Tiles, Closed, CellOf
      <4>5. ReachesAll'
        BY <4>2, <4>3, <3>3, <3>5, <1>1, <1>2, <1>7, <2>2 DEF ReachesAll
      <4> QED
        BY <4>4, <4>5
    <3> QED
      BY <3>4, <3>5
  <2> QED
    BY <2>4, <2>5
<1> QED
  BY <1>1, <1>5, <1>6, <1>7

LEMMA OpenKeeps ==
    ASSUME FillInv, OpenTownView
    PROVE  FillInv'
<1> USE DEF FillInv
<1>1. PICK x \in 0 .. stride - 1, y \in 0 .. height - 1, dx \in {-1, 1}, dy \in {-1, 1} :
        /\ seed' = <<x + dx, y + dy>>
        /\ calls' = <<[site |-> "seed", x |-> x + dx, y |-> y + dy]>>
        /\ region' = Region(<<x + dx, y + dy>>, water')
  BY DEF OpenTownView
<1>2. /\ water = {} /\ water' \subseteq MapCells /\ water' # {} /\ matrix = {} /\ matrix' = {}
      /\ detours' = detours /\ outside' = outside
  BY DEF OpenTownView, NothingYet
<1>3. x + dx \in Int /\ y + dy \in Int
  BY HarborAssumption
<1>4. FillTypes'
  BY <1>1, <1>2, <1>3 DEF FillTypes, Call
<1>5. NothingYet'
  BY <1>2 DEF NothingYet
<1>6. Due' = {seed'}
  BY <1>1 DEF Due, Tile
<1>7. Marked' = {}
  BY <1>2 DEF Marked
<1>8. seed' \in Tiles(water)' => CellOf(seed)' \in region'
  <2>1. Tiles(water)' = Tiles(water') /\ CellOf(seed)' = CellOf(seed')
    BY DEF Tiles, CellOf
  <2> QED
    BY <1>1, <2>1, RegionIsClosed
<1>9. (region = Region(seed, water))'
  <2>1. Region(seed, water)' = Region(seed', water')
    BY DEF Region, Tiles, Closed
  <2> QED
    BY <1>1, <2>1
<1>10. detours = 2 => StaysInside' /\ ReachesAll'
  BY <1>2, <1>6, <1>7, <1>8, <1>9 DEF StaysInside, ReachesAll, CellOf
<1> QED
  BY <1>2, <1>4, <1>5, <1>10

\* With both detours in place, for a map of any size, any water and any seed: no fill touches
\* memory outside the matrix, none strays into a row it was not called for, and when the
\* last call has returned exactly the seed's region is marked (ffi.rs, harbor_fill_guard).
THEOREM FillsTheRegion == FillSpec => []FillsItsRegion
<1>1. FillInit => FillInv
  <2> SUFFICES ASSUME FillInit PROVE FillInv
    OBVIOUS
  <2>1. Due = {} /\ Marked = {}
    BY DEF FillInit, Due, Marked
  <2>2. FillTypes /\ NothingYet
    BY DEF FillInit, FillTypes, NothingYet
  <2> QED
    BY <2>1, <2>2 DEF FillInit, FillInv
<1>2. FillInv /\ [FillNext]_fillVars => FillInv'
  <2> SUFFICES ASSUME FillInv, [FillNext]_fillVars PROVE FillInv'
    OBVIOUS
  <2>1. CASE start_harbor
    <3>1. water = {} /\ matrix = {} /\ calls = << >> /\ ~outside => FillInv'
      BY <2>1 DEF start_harbor, FillInv, FillTypes, NothingYet, StaysInside, ReachesAll, Due, Marked
    <3> QED
      BY <2>1, <3>1 DEF start_harbor, FillInv, NothingYet
  <2>2. CASE OpenTownView
    BY <2>2, OpenKeeps
  <2>3. CASE fill
    BY <2>3, FillKeeps
  <2>4. CASE UNCHANGED fillVars
    BY <2>4 DEF fillVars, FillInv, FillTypes, NothingYet, StaysInside, ReachesAll, Due, Marked, Tile, CellOf,
                Region, Tiles, Closed
  <2> QED
    BY <2>1, <2>2, <2>3, <2>4 DEF FillNext
<1>3. FillInv => FillsItsRegion
  <2> SUFFICES ASSUME FillInv, detours = 2, calls = << >>, water # {} PROVE region \subseteq matrix
    BY DEF FillInv, StaysInside, FillsItsRegion
  <2>1. Due = {}
    BY DEF Due
  <2>2. Closed(Marked, seed, water)
    BY <2>1 DEF FillInv, ReachesAll, Closed
  <2>3. Marked \in SUBSET Tiles(water) /\ region = Region(seed, water)
    BY DEF Marked, FillInv, StaysInside
  <2>4. region \subseteq {CellOf(t) : t \in Marked}
    BY <2>2, <2>3, RegionIsLeast
  <2> QED
    BY <2>4 DEF Marked
<1> QED
  BY <1>1, <1>2, <1>3, PTL DEF FillSpec

-----------------------------------------------------------------------------
(* TextureProfiler: three threads and two mutexes.                         *)

\* Who holds a mutex is where it is let go again, and the main thread is suspended exactly
\* while the sampler reads its context.
MutexesAreHeld ==
    /\ "at" \in DOMAIN main
    /\ owner \in [{"PERF", "PERF_LOG"} -> {"main", "sampler", NoSite}]
    /\ owner["PERF"] = IF main.at \in {"counting", "bucket", "block"} THEN "main" ELSE NoSite
    /\ owner["PERF_LOG"] = "main" <=> main.at \in {"opened", "block"}
    /\ owner["PERF_LOG"] = "sampler" <=> sampler = "logging"
    /\ suspended <=> sampler = "looking"

\* Nobody holds a mutex at first.
LEMMA MutexStart == ProfilerInit => MutexesAreHeld
<1> SUFFICES ASSUME ProfilerInit PROVE MutexesAreHeld
  OBVIOUS
<1>1. main = [at |-> "idle"] /\ ~suspended
  BY DEF ProfilerInit
<1>2. sampler \in {"asleep", "not started"}
  BY Zenon DEF ProfilerInit
<1>3. owner = [m \in {"PERF", "PERF_LOG"} |-> NoSite]
  BY DEF ProfilerInit
<1>4. "at" \in DOMAIN main /\ main.at = "idle"
  BY <1>1
<1> QED
  BY <1>1, <1>2, <1>3, <1>4, ProfilerAssumption DEF MutexesAreHeld

LEMMA MutexStep ==
    ASSUME MutexesAreHeld, [ProfilerNext]_profilerVars
    PROVE  MutexesAreHeld'
<1> USE ProfilerAssumption DEF MutexesAreHeld
<1>1. CASE LibraryLoads
  BY <1>1 DEF LibraryLoads, threadVars
<1>2. CASE patch_when_loaded
  BY <1>2 DEF patch_when_loaded, threadVars
<1>3. CASE Main
  <2>1. CASE toggle_cache_budget
    BY <2>1 DEF toggle_cache_budget
  <2>2. CASE set_enabled
    BY <2>2 DEF set_enabled, Lock, Unlock
  <2>3. CASE perf_hook
    BY <2>3 DEF perf_hook, Lock, Unlock
  <2>4. CASE on_perf_frame
    BY <2>4 DEF on_perf_frame, Lock, Unlock
  <2> QED
    BY <1>3, <2>1, <2>2, <2>3, <2>4 DEF Main
<1>4. CASE Sampler
  BY <1>4 DEF Sampler, start_perf_sampler, Lock, Unlock
<1>5. CASE UNCHANGED profilerVars
  BY <1>5 DEF profilerVars, threadVars
<1> QED
  BY <1>1, <1>2, <1>3, <1>4, <1>5 DEF ProfilerNext

\* The main thread only ever waits for the sampler, and then the sampler waits for nobody.
LEMMA NoCircle ==
    ASSUME MutexesAreHeld
    PROVE  NobodyWaitsInACircle
<1> USE ProfilerAssumption DEF MutexesAreHeld
<1>1. ASSUME NEW m \in DOMAIN owner, m \in Wanted("main"), owner[m] # NoSite
      PROVE  m = "PERF_LOG" /\ owner[m] = "sampler"
  BY <1>1 DEF Wanted
<1>2. ASSUME NEW m \in DOMAIN owner, m \in Wanted("sampler"), owner[m] # NoSite
      PROVE  sampler = "log" /\ owner[m] = "main" /\ m = "PERF_LOG"
  BY <1>2 DEF Wanted
<1>3. ASSUME NEW p \in WaitsFor
      PROVE  \/ p = <<"main", "sampler">> /\ sampler \in {"logging", "looking"}
             \/ p = <<"sampler", "main">> /\ sampler = "log"
  <2>1. CASE suspended /\ p = <<"main", "sampler">>
    BY <2>1
  <2>2. CASE p \in {<<q[1], owner[q[2]]>> : q \in {r \in Callers \X DOMAIN owner : r[2] \in Wanted(r[1]) /\ owner[r[2]] # NoSite}}
    <3>1. PICK q \in Callers \X DOMAIN owner : q[2] \in Wanted(q[1]) /\ owner[q[2]] # NoSite /\ p = <<q[1], owner[q[2]]>>
      BY <2>2
    <3>2. CASE q[1] = "main"
      BY <3>1, <3>2, <1>1
    <3>3. CASE q[1] = "sampler"
      BY <3>1, <3>3, <1>2
    <3> QED
      BY <3>1, <3>2, <3>3 DEF Callers
  <2> QED
    BY <1>3, <2>1, <2>2 DEF WaitsFor
<1> SUFFICES ASSUME NEW p \in WaitsFor PROVE p[1] # p[2] /\ <<p[2], p[1]>> \notin WaitsFor
  BY DEF NobodyWaitsInACircle
<1>4. CASE p = <<"main", "sampler">> /\ sampler \in {"logging", "looking"}
  <2>1. <<"sampler", "main">> \notin WaitsFor
    BY <1>3, <1>4
  <2> QED
    BY <1>4, <2>1
<1>5. CASE p = <<"sampler", "main">> /\ sampler = "log"
  <2>1. <<"main", "sampler">> \notin WaitsFor
    BY <1>3, <1>5
  <2> QED
    BY <1>5, <2>1
<1> QED
  BY <1>3, <1>4, <1>5

\* For any hooks and sites, whatever is installed late or in part, through every suspension
\* of the main thread: no two threads wait for each other and none for itself
\* (profiler.rs, start_perf_sampler, on_perf_frame, set_enabled).
THEOREM NoDeadlock == ProfilerSpec => []NobodyWaitsInACircle
<1>1. MutexesAreHeld /\ [ProfilerNext]_profilerVars => MutexesAreHeld'
  BY MutexStep
<1>2. MutexesAreHeld => NobodyWaitsInACircle
  BY NoCircle
<1> QED
  BY MutexStart, <1>1, <1>2, PTL DEF ProfilerSpec

-----------------------------------------------------------------------------
(* TextureProfiler: the totals of a bucket are sums over its sites.        *)

\* Where a scan of the stack may end, and what a tally can be.
SitesSeen == Sites \cup {NoSite}
Tallies == UNION {[d -> Nat] : d \in SUBSET Sites}

\* A tally has every call of the sites it has, and misses one of another only when it is full.
Tallying(tally, happened) ==
    /\ tally \in Tallies /\ happened \in [SitesSeen -> Nat]
    /\ Cardinality(DOMAIN tally) <= LIMIT
    /\ \A s \in Sites : IF s \in DOMAIN tally THEN tally[s] = happened[s]
                        ELSE happened[s] = 0 \/ Cardinality(DOMAIN tally) = LIMIT

\* A call on its way to being counted is of a hooked kind.
ProfilerTypes ==
    /\ clock \in Nat
    /\ counted \in [Kinds -> [SitesSeen -> Nat]]
    /\ perf \in [calls : [Kinds \ {"decode"} -> Nat], sites : [Kinds -> Tallies], bucket_start_ms : Nat]
    /\ main.at \in {"count", "counting"} => main.kind \in Kinds /\ main.site \in SitesSeen

\* Between any two steps of any thread, total and tally of a kind say what happened.
TallyInv ==
    /\ ProfilerTypes
    /\ \A k \in Kinds : Tallying(perf.sites[k], counted[k])
    /\ \A k \in Kinds \ {"decode"} : perf.calls[k] = SumOf(counted[k], SitesSeen)

\* There are finitely many places, and no site is not one of them.
LEMMA SitesAreFinite ==
    IsFiniteSet(SitesSeen) /\ NoSite \in SitesSeen /\ NoSite \notin Sites /\ LIMIT \in Nat
  BY ProfilerAssumption, FS_AddElement DEF SitesSeen

\* Counting a call keeps a tally right.
LEMMA TalliedKeeps ==
    ASSUME NEW tally, NEW happened, Tallying(tally, happened), NEW site \in SitesSeen
    PROVE  Tallying(tallied(tally, site), [happened EXCEPT ![site] = @ + 1])
<1> DEFINE new == [happened EXCEPT ![site] = @ + 1]
           t == tallied(tally, site)
<1>1. /\ new \in [SitesSeen -> Nat] /\ new[site] = happened[site] + 1
      /\ \A s \in SitesSeen : s # site => new[s] = happened[s]
  BY DEF Tallying
<1>2. PICK d \in SUBSET Sites : tally \in [d -> Nat]
  BY DEF Tallying, Tallies
<1>3. IsFiniteSet(d) /\ Cardinality(d) \in Nat /\ d = DOMAIN tally
  BY <1>2, ProfilerAssumption, FS_Subset, FS_CardinalityType
<1>4. /\ Cardinality(d) <= LIMIT
      /\ \A s \in Sites : IF s \in d THEN tally[s] = happened[s] ELSE happened[s] = 0 \/ Cardinality(d) = LIMIT
  BY <1>3 DEF Tallying
<1>5. \A s \in Sites : s \in SitesSeen /\ happened[s] \in Nat
  BY DEF SitesSeen, Tallying
<1> HIDE DEF new
<1>6. CASE site \in d
  <2>1. t = [tally EXCEPT ![site] = @ + 1]
    BY <1>3, <1>6 DEF tallied
  <2>2. t \in [d -> Nat] /\ t[site] = tally[site] + 1 /\ \A s \in d : s # site => t[s] = tally[s]
    BY <1>2, <1>6, <2>1
  <2> HIDE DEF t
  <2>3. t \in Tallies /\ DOMAIN t = d
    BY <2>2 DEF Tallies
  <2>4. ASSUME NEW s \in Sites
        PROVE  IF s \in d THEN t[s] = new[s] ELSE new[s] = 0 \/ Cardinality(d) = LIMIT
    BY <1>1, <1>4, <1>5, <1>6, <2>2
  <2> QED
    BY <1>1, <1>4, <2>3, <2>4 DEF Tallying, t, new
<1>7. CASE site \notin d /\ site # NoSite /\ Cardinality(d) < LIMIT
  <2> DEFINE e == d \cup {site}
  <2>1. t = [s \in e |-> IF s = site THEN 1 ELSE tally[s]]
    BY <1>3, <1>7 DEF tallied
  <2>2. t \in [e -> Nat] /\ t[site] = 1 /\ \A s \in d : t[s] = tally[s]
    BY <1>2, <1>7, <2>1
  <2>3. e \in SUBSET Sites /\ Cardinality(e) = Cardinality(d) + 1
    BY <1>3, <1>7, FS_AddElement DEF SitesSeen
  <2> HIDE DEF t
  <2>4. t \in Tallies /\ DOMAIN t = e
    BY <2>2, <2>3 DEF Tallies
  <2>5. Cardinality(e) <= LIMIT
    BY <1>3, <1>7, <2>3, SitesAreFinite
  <2>6. happened[site] = 0 /\ site \in Sites
    BY <1>3, <1>4, <1>7, SitesAreFinite DEF SitesSeen
  <2>7. ASSUME NEW s \in Sites
        PROVE  IF s \in e THEN t[s] = new[s] ELSE new[s] = 0 \/ Cardinality(e) = LIMIT
    <3>1. CASE s = site
      BY <1>1, <2>2, <2>6, <3>1
    <3>2. CASE s # site /\ s \in d
      BY <1>1, <1>4, <1>5, <2>2, <3>2
    <3>3. CASE s # site /\ s \notin d
      BY <1>1, <1>3, <1>4, <1>5, <1>7, <3>3, SitesAreFinite
    <3> QED
      BY <3>1, <3>2, <3>3
  <2> HIDE DEF e
  <2> QED
    BY <1>1, <2>4, <2>5, <2>7 DEF Tallying, t, new
<1>8. CASE site \notin d /\ ~(site # NoSite /\ Cardinality(d) < LIMIT)
  <2>1. t = tally
    BY <1>3, <1>8 DEF tallied
  <2>2. ASSUME NEW s \in Sites
        PROVE  IF s \in d THEN t[s] = new[s] ELSE new[s] = 0 \/ Cardinality(d) = LIMIT
    <3>1. CASE s # site
      BY <1>1, <1>4, <1>5, <2>1, <3>1
    <3>2. CASE s = site
      BY <1>3, <1>4, <1>8, <3>2, SitesAreFinite
    <3> QED
      BY <3>1, <3>2
  <2> HIDE DEF t
  <2> QED
    BY <1>1, <1>3, <1>4, <2>1, <2>2 DEF Tallying, t, new
<1> QED
  BY <1>6, <1>7, <1>8

\* Nothing is counted yet.
Emptied ==
    /\ \E start \in Nat : perf = PerfState(start)
    /\ counted = [k \in Kinds |-> [s \in SitesSeen |-> 0]]
    /\ clock \in Nat /\ main.at \notin {"count", "counting"}

\* An empty bucket adds up.
LEMMA FreshBucket == Emptied => TallyInv
<1> SUFFICES ASSUME Emptied PROVE TallyInv
  OBVIOUS
<1>0. PICK start \in Nat : perf = PerfState(start)
  BY DEF Emptied
<1> DEFINE zeros == [s \in SitesSeen |-> 0]
<1>1. << >> \in Tallies /\ DOMAIN << >> = {} /\ Cardinality({}) = 0
  <2>1. << >> \in [{} -> Nat] /\ {} \in SUBSET Sites /\ DOMAIN << >> = {}
    OBVIOUS
  <2> QED
    BY <2>1, FS_EmptySet DEF Tallies
<1>2. Tallying(<< >>, zeros)
  <2>1. zeros \in [SitesSeen -> Nat] /\ \A s \in Sites : zeros[s] = 0
    BY DEF SitesSeen
  <2> HIDE DEF zeros
  <2>2. 0 <= LIMIT
    BY SitesAreFinite
  <2> QED
    BY <1>1, <2>1, <2>2 DEF Tallying
<1>3. SumOf(zeros, SitesSeen) = 0
  BY SitesAreFinite, SumOfZeros
<1>4. perf.calls = [k \in Kinds \ {"decode"} |-> 0] /\ perf.sites = [k \in Kinds |-> << >>] /\ perf.bucket_start_ms = start
  BY <1>0 DEF PerfState, NoTally
<1>5. perf \in [calls : [Kinds \ {"decode"} -> Nat], sites : [Kinds -> Tallies], bucket_start_ms : Nat]
  BY <1>0, <1>1 DEF PerfState, NoTally
<1>6. counted = [k \in Kinds |-> zeros] /\ counted \in [Kinds -> [SitesSeen -> Nat]]
  BY DEF Emptied
<1>7. \A k \in Kinds : Tallying(perf.sites[k], counted[k])
  BY <1>2, <1>4, <1>6
<1>8. \A k \in Kinds \ {"decode"} : perf.calls[k] = SumOf(counted[k], SitesSeen)
  BY <1>3, <1>4, <1>6
<1> HIDE DEF zeros
<1> QED
  BY <1>5, <1>6, <1>7, <1>8 DEF TallyInv, ProfilerTypes, Emptied

\* The first bucket is an empty one.
LEMMA TallyStart == ProfilerInit => TallyInv
<1>1. ASSUME ProfilerInit PROVE Emptied
  <2>1. perf = PerfState(0) /\ 0 \in Nat /\ clock \in Nat /\ main.at = "idle"
    BY <1>1 DEF ProfilerInit
  <2>2. counted = [k \in Kinds |-> [s \in SitesSeen |-> 0]]
    BY <1>1 DEF ProfilerInit, SitesSeen
  <2> QED
    BY <2>1, <2>2 DEF Emptied
<1> QED
  BY <1>1, FreshBucket

\* A call is counted in the total and in the tally of its kind.
LEMMA CountKeeps ==
    ASSUME TallyInv, main.at = "counting", CountCall(main.kind, main.site), clock' = clock,
           main'.at \notin {"count", "counting"}
    PROVE  TallyInv'
<1> DEFINE kind == main.kind
           site == main.site
           happened == [counted[kind] EXCEPT ![site] = @ + 1]
           total == IF kind = "decode" THEN 0 ELSE perf.calls[kind] + 1
<1>1. kind \in Kinds /\ site \in SitesSeen /\ clock' \in Nat
  BY DEF TallyInv, ProfilerTypes
<1>2. /\ perf'.calls = [k \in Kinds \ {"decode"} |-> IF k = kind THEN perf.calls[k] + 1 ELSE perf.calls[k]]
      /\ perf'.sites = [perf.sites EXCEPT ![kind] = tallied(perf.sites[kind], site)]
      /\ perf'.bucket_start_ms = perf.bucket_start_ms
      /\ perf' = [calls |-> perf'.calls, sites |-> perf'.sites, bucket_start_ms |-> perf'.bucket_start_ms]
  BY DEF CountCall, TallyInv, ProfilerTypes
<1>3. counted' = [counted EXCEPT ![kind] = happened]
  BY DEF CountCall
<1>4. counted \in [Kinds -> [SitesSeen -> Nat]] /\ perf.sites \in [Kinds -> Tallies] /\ perf.bucket_start_ms \in Nat
      /\ \A k \in Kinds \ {"decode"} : perf.calls[k] \in Nat
  BY DEF TallyInv, ProfilerTypes
<1> HIDE DEF kind, site
<1>5. /\ happened \in [SitesSeen -> Nat] /\ happened[site] = counted[kind][site] + 1
      /\ \A s \in SitesSeen : s # site => happened[s] = counted[kind][s]
  BY <1>1, <1>4
<1>6. Tallying(tallied(perf.sites[kind], site), happened)
  BY <1>1, TalliedKeeps DEF TallyInv
<1> HIDE DEF happened
<1>7. counted' \in [Kinds -> [SitesSeen -> Nat]] /\ counted'[kind] = happened
      /\ \A k \in Kinds : k # kind => counted'[k] = counted[k]
  BY <1>1, <1>3, <1>4, <1>5
<1>8. tallied(perf.sites[kind], site) \in Tallies
  BY <1>6 DEF Tallying
<1>9. perf'.sites \in [Kinds -> Tallies] /\ perf'.sites[kind] = tallied(perf.sites[kind], site)
      /\ \A k \in Kinds : k # kind => perf'.sites[k] = perf.sites[k]
  BY <1>1, <1>2, <1>4, <1>8
<1>10. perf' \in [calls : [Kinds \ {"decode"} -> Nat], sites : [Kinds -> Tallies], bucket_start_ms : Nat]
  <2>1. perf'.calls \in [Kinds \ {"decode"} -> Nat]
    BY <1>2, <1>4
  <2> QED
    BY <1>2, <1>4, <1>9, <2>1
<1>11. \A k \in Kinds : Tallying(perf'.sites[k], counted'[k])
  BY <1>6, <1>7, <1>9 DEF TallyInv
<1>12. \A k \in Kinds \ {"decode"} : perf'.calls[k] = SumOf(counted'[k], SitesSeen)
  <2> SUFFICES ASSUME NEW k \in Kinds \ {"decode"} PROVE perf'.calls[k] = SumOf(counted'[k], SitesSeen)
    OBVIOUS
  <2>1. perf.calls[k] = SumOf(counted[k], SitesSeen)
    BY DEF TallyInv
  <2>2. CASE k = kind
    <3>1. SumOf(happened, SitesSeen) = SumOf(counted[k], SitesSeen) + 1
      BY <1>1, <1>4, <1>5, <2>2, SitesAreFinite, SumOfOneMore
    <3>2. perf'.calls[k] = perf.calls[k] + 1
      BY <1>2, <2>2
    <3> QED
      BY <1>7, <2>1, <2>2, <3>1, <3>2
  <2>3. CASE k # kind
    BY <1>2, <1>7, <2>1, <2>3
  <2> QED
    BY <2>2, <2>3
<1> QED
  BY <1>1, <1>7, <1>10, <1>11, <1>12 DEF TallyInv, ProfilerTypes

\* Keys, frames and hooked calls keep the counts right; a closed bucket starts from nothing.
LEMMA TallyStep ==
    ASSUME MutexesAreHeld, TallyInv, [ProfilerNext]_profilerVars, MutexesAreHeld',
           Emptied' => TallyInv'
    PROVE  TallyInv'
<1>1. perf' = perf /\ counted' = counted /\ clock' \in Nat
      /\ (main'.at \in {"count", "counting"} => main'.kind \in Kinds /\ main'.site \in SitesSeen) => TallyInv'
  BY DEF TallyInv, ProfilerTypes
<1>2. clock \in Nat /\ (main.at \in {"count", "counting"} => main.kind \in Kinds /\ main.site \in SitesSeen)
      /\ perf.bucket_start_ms \in Nat
  BY DEF TallyInv, ProfilerTypes
<1>3. CASE LibraryLoads \/ patch_when_loaded \/ Sampler \/ UNCHANGED profilerVars
  <2>1. UNCHANGED perfVars /\ main' = main
    BY <1>3 DEF LibraryLoads, patch_when_loaded, Sampler, profilerVars, threadVars
  <2> QED
    BY <1>1, <1>2, <2>1 DEF perfVars
<1>4. CASE toggle_cache_budget
  <2>1. UNCHANGED perfVars /\ main'.at \in {"idle", "raise", "forget"}
    BY <1>4 DEF toggle_cache_budget
  <2> QED
    BY <1>1, <1>2, <2>1 DEF perfVars
<1>5. CASE set_enabled
  <2>1. UNCHANGED perfVars /\ main'.at \in {"idle", "open", "opened"}
    BY <1>5 DEF set_enabled, MutexesAreHeld
  <2> QED
    BY <1>1, <1>2, <2>1 DEF perfVars
<1>6. CASE perf_hook
  <2>1. CASE main.at = "counting"
    <3>1. CountCall(main.kind, main.site) /\ main'.at = "idle" /\ clock' = clock
      BY <1>6, <2>1 DEF perf_hook
    <3> QED
      BY <2>1, <3>1, CountKeeps
  <2>2. CASE main.at = "idle"
    <3>1. UNCHANGED perfVars
      BY <1>6, <2>2 DEF perf_hook, perfVars
    <3>2. main'.at \in {"count", "overflow"}
      BY <1>6, <2>2 DEF perf_hook
    <3>3. main'.at = "count" => main'.kind \in Kinds /\ main'.site \in SitesSeen
      BY <1>6, <2>2 DEF perf_hook, MaySite, SitesSeen, Kinds
    <3> QED
      BY <1>1, <1>2, <3>1, <3>2, <3>3 DEF perfVars
  <2>3. CASE main.at = "count"
    <3>1. UNCHANGED perfVars /\ main' = [main EXCEPT !.at = "counting"]
      BY <1>6, <2>3 DEF perf_hook, perfVars
    <3>2. main'.kind = main.kind /\ main'.site = main.site
      BY <3>1
    <3> QED
      BY <1>1, <1>2, <2>3, <3>1, <3>2 DEF perfVars
  <2> QED
    BY <1>6, <2>1, <2>2, <2>3 DEF perf_hook
<1>7. CASE on_perf_frame
  <2>0. main'.at \in {"frame", "bucket", "idle", "block"}
    BY <1>7 DEF on_perf_frame
  <2>1. CASE main.at \in {"idle", "frame"}
    <3>1. perf' = perf /\ counted' = counted /\ clock' \in {clock, (clock + 1) % WIDTH}
      BY <1>7, <2>1 DEF on_perf_frame, perfVars
    <3>2. clock' \in Nat
      BY <1>2, <3>1, ProfilerAssumption
    <3> QED
      BY <1>1, <2>0, <3>1, <3>2
  <2>2. CASE main.at \in {"bucket", "block"}
    <3>1. clock' = clock
      BY <1>7, <2>2 DEF on_perf_frame
    <3>2. \/ perf' = perf /\ counted' = counted
          \/ Close
          \/ perf' = [perf EXCEPT !.bucket_start_ms = clock] /\ counted' = counted
      BY <1>7, <2>2 DEF on_perf_frame
    <3>3. CASE perf' = perf /\ counted' = counted
      BY <1>1, <1>2, <2>0, <3>1, <3>3
    <3>4. CASE Close
      <4>1. perf' = PerfState(clock) /\ counted' = [k \in Kinds |-> [s \in SitesSeen |-> 0]]
        BY <3>4 DEF Close, SitesSeen
      <4>2. Emptied'
        BY <1>2, <2>0, <3>1, <4>1 DEF Emptied, PerfState, NoTally
      <4> QED
        BY <4>2
    <3>5. CASE perf' = [perf EXCEPT !.bucket_start_ms = clock] /\ counted' = counted
      <4>1. perf'.calls = perf.calls /\ perf'.sites = perf.sites
            /\ perf' \in [calls : [Kinds \ {"decode"} -> Nat], sites : [Kinds -> Tallies], bucket_start_ms : Nat]
        BY <1>2, <3>5 DEF TallyInv, ProfilerTypes
      <4> QED
        BY <1>2, <2>0, <3>1, <3>5, <4>1 DEF TallyInv, ProfilerTypes
    <3> QED
      BY <3>2, <3>3, <3>4, <3>5
  <2> QED
    BY <1>7, <2>1, <2>2 DEF on_perf_frame
<1> QED
  BY <1>3, <1>4, <1>5, <1>6, <1>7 DEF ProfilerNext, Main

\* The total of a kind is the sum over its sites.
LEMMA TallyAddsUp == TallyInv => BlocksAddUp
<1> SUFFICES ASSUME TallyInv, NEW k \in Kinds
             PROVE  /\ k # "decode" => perf.calls[k] = SumOf(counted[k], SitesSeen)
                    /\ \A s \in Sites : IF s \in DOMAIN perf.sites[k] THEN perf.sites[k][s] = counted[k][s]
                            ELSE counted[k][s] = 0 \/ Cardinality(DOMAIN perf.sites[k]) = LIMIT
  BY DEF BlocksAddUp, SumOf, SitesSeen
<1> QED
  BY DEF TallyInv, Tallying

\* For any hooks, sites and limits, however keys, frames and calls follow one another: totals
\* are exact, an entry of a tally has every call of its site, and only a full tally misses
\* a site (profiler.rs, on_perf_frame against the counting hooks).
THEOREM CountsAddUp == ProfilerSpec => []BlocksAddUp
<1>1. ProfilerSpec => []TallyInv
  <2>1. MutexesAreHeld /\ TallyInv /\ MutexesAreHeld' /\ (Emptied' => TallyInv') /\ [ProfilerNext]_profilerVars => TallyInv'
    BY TallyStep
  <2>2. MutexesAreHeld /\ [ProfilerNext]_profilerVars => MutexesAreHeld'
    BY MutexStep
  <2> QED
    BY TallyStart, FreshBucket, MutexStart, <2>1, <2>2, PTL DEF ProfilerSpec
<1> QED
  BY <1>1, TallyAddsUp, PTL

-----------------------------------------------------------------------------
(* LifecycleProbe: what a MISSED line says.                                *)

TavernMethods == {"tav-open", "tav-close", "tav-update", "tav-set"}
PageValues == Pages \cup {-1}
CallFrames == [method : TavernMethods, page : PageValues]

\* While no hooked call overlaps another one, there is at most one, and a set_page that has
\* been told is going to write what the shadow holds; and a page that has not escaped is the
\* one last seen, but while a hooked method runs, which looks again when it is left.
ShadowFollows ==
    /\ installed \in 0 .. Len(Hooks)
    /\ callStack \in Seq(CallFrames)
    /\ tavern_page \in PageValues
    /\ ~overlap =>
          /\ \A i \in DOMAIN callStack, k \in DOMAIN callStack :
                Hooked(callStack[i].method) /\ Hooked(callStack[k].method) => i = k
          /\ \A i \in DOMAIN callStack :
                callStack[i].method = "tav-set" /\ Hooked("tav-set") => TAVERN_PAGE_SHADOW = callStack[i].page
    /\ ~escaped /\ ~overlap /\ TAVERN_PAGE_SHADOW # Unset
          => tavern_page = TAVERN_PAGE_SHADOW \/ HookRuns(callStack)
    /\ MissedIsTrue

\* A step that leaves the tavern alone and reports no miss.
LEMMA OthersKeep ==
    ASSUME ShadowFollows, UNCHANGED <<tavernVars, installed>>, log_line' = log_line \/ log_line' # "tav-MISSED"
    PROVE  ShadowFollows'
<1>1. \A m : Hooked(m)' <=> Hooked(m)
  BY DEF Hooked
<1>2. HookRuns(callStack)' <=> HookRuns(callStack)
  BY <1>1 DEF HookRuns, tavernVars
<1> QED
  BY <1>1, <1>2 DEF ShadowFollows, tavernVars, MissedIsTrue

\* A call that begins.
LEMMA CallBegins ==
    ASSUME ShadowFollows, NEW m \in TavernMethods, NEW found \in PageValues, EnterCall(m, found),
           log_line' = "tav-MISSED" => Hooked(m) /\ m = "tav-update" /\ Missed,
           TAVERN_PAGE_SHADOW' = IF m = "tav-set" /\ Hooked(m) THEN found ELSE TAVERN_PAGE_SHADOW
    PROVE  ShadowFollows'
<1> DEFINE n == Len(callStack)
           frame == [method |-> m, page |-> found]
<1>1. /\ callStack' = Append(callStack, frame)
      /\ overlap' = (overlap \/ (Hooked(m) /\ HookRuns(callStack)))
      /\ tavern_page' = tavern_page /\ escaped' = escaped /\ installed' = installed
  BY DEF EnterCall
<1>2. \A x : Hooked(x)' <=> Hooked(x)
  BY <1>1 DEF Hooked
<1>3. callStack \in Seq(CallFrames) /\ n \in Nat /\ frame \in CallFrames
  BY DEF ShadowFollows, CallFrames
<1>4. /\ callStack' \in Seq(CallFrames)
      /\ DOMAIN callStack = 1 .. n /\ DOMAIN callStack' = 1 .. n + 1 /\ callStack'[n + 1] = frame
      /\ \A i \in 1 .. n : callStack'[i] = callStack[i]
      /\ \A i \in 1 .. n + 1 : i \in 1 .. n \/ i = n + 1
  BY <1>1, <1>3
<1> HIDE DEF n
<1>5. HookRuns(callStack)' <=> (HookRuns(callStack) \/ Hooked(m))
  <2>1. ASSUME HookRuns(callStack)' PROVE HookRuns(callStack) \/ Hooked(m)
    <3>1. PICK i \in 1 .. n + 1 : Hooked(callStack'[i].method)
      BY <1>2, <1>4, <2>1 DEF HookRuns
    <3> QED
      BY <1>4, <3>1 DEF HookRuns
  <2>2. ASSUME HookRuns(callStack) PROVE HookRuns(callStack)'
    <3>1. PICK i \in 1 .. n : Hooked(callStack[i].method)
      BY <1>4, <2>2 DEF HookRuns
    <3>2. i \in 1 .. n + 1
      BY <1>3, <3>1
    <3> QED
      BY <1>2, <1>4, <3>1, <3>2 DEF HookRuns
  <2>3. ASSUME Hooked(m) PROVE HookRuns(callStack)'
    <3>1. n + 1 \in 1 .. n + 1
      BY <1>3
    <3> QED
      BY <1>2, <1>4, <2>3, <3>1 DEF HookRuns
  <2> QED
    BY <2>1, <2>2, <2>3
<1>6. ASSUME ~overlap', NEW i \in 1 .. n + 1, NEW k \in 1 .. n + 1,
             Hooked(callStack'[i].method), Hooked(callStack'[k].method)
      PROVE  i = k
  <2>1. ~overlap /\ (~Hooked(m) \/ ~HookRuns(callStack))
    BY <1>1, <1>6
  <2>2. CASE i \in 1 .. n /\ k \in 1 .. n
    BY <1>4, <1>6, <2>1, <2>2 DEF ShadowFollows
  <2>3. CASE i = n + 1 /\ k \in 1 .. n
    BY <1>4, <1>6, <2>1, <2>3 DEF HookRuns
  <2>4. CASE k = n + 1 /\ i \in 1 .. n
    BY <1>4, <1>6, <2>1, <2>4 DEF HookRuns
  <2> QED
    BY <1>4, <2>2, <2>3, <2>4
<1>7. ASSUME ~overlap', NEW i \in 1 .. n + 1, callStack'[i].method = "tav-set", Hooked("tav-set")
      PROVE  TAVERN_PAGE_SHADOW' = callStack'[i].page
  <2>1. ~overlap /\ (~Hooked(m) \/ ~HookRuns(callStack))
    BY <1>1, <1>7
  <2>2. CASE i \in 1 .. n
    <3>1. HookRuns(callStack)
      BY <1>4, <1>7, <2>2 DEF HookRuns
    <3>2. TAVERN_PAGE_SHADOW = callStack[i].page
      BY <1>4, <1>7, <2>1, <2>2 DEF ShadowFollows
    <3> QED
      BY <1>4, <2>1, <2>2, <3>1, <3>2
  <2>3. CASE i = n + 1
    BY <1>4, <1>7, <2>3
  <2> QED
    BY <1>4, <2>2, <2>3
<1>8. ~escaped' /\ ~overlap' /\ TAVERN_PAGE_SHADOW' # Unset
         => tavern_page' = TAVERN_PAGE_SHADOW' \/ HookRuns(callStack)'
  BY <1>1, <1>5 DEF ShadowFollows
<1>9. MissedIsTrue'
  BY <1>1 DEF ShadowFollows, MissedIsTrue, Missed
<1>10. installed' \in 0 .. Len(Hooks) /\ tavern_page' \in PageValues
  BY <1>1 DEF ShadowFollows
<1> QED
  BY <1>2, <1>4, <1>6, <1>7, <1>8, <1>9, <1>10 DEF ShadowFollows

\* A call that ends: what is left of the stack.
LEMMA CallEnds ==
    ASSUME ShadowFollows, Innermost # "none", callStack' = Front(callStack), installed' = installed
    PROVE  \E n \in Nat :
           /\ DOMAIN callStack = 1 .. n + 1 /\ DOMAIN callStack' = 1 .. n /\ 1 .. n + 1 = 1 .. n \cup {n + 1}
           /\ \A i \in 1 .. n : callStack'[i] = callStack[i] /\ i # n + 1
           /\ callStack[n + 1] = Last(callStack) /\ Innermost = callStack[n + 1].method
           /\ callStack' \in Seq(CallFrames)
           /\ callStack[n + 1] \in CallFrames
           /\ HookRuns(callStack) <=> HookRuns(callStack)' \/ Hooked(Innermost)
           /\ HookRuns(Front(callStack)) <=> HookRuns(callStack)'
           /\ \A m : Hooked(m)' <=> Hooked(m)
<1>1. callStack \in Seq(CallFrames) /\ callStack # <<>>
  BY DEF ShadowFollows, Innermost
<1> DEFINE n == Len(callStack) - 1
<1>2. n \in Nat /\ Len(callStack) = n + 1
  BY <1>1
<1>4. callStack' = [i \in 1 .. n |-> callStack[i]]
  BY <1>1, <1>2 DEF Front
<1>9. 1 .. n + 1 = 1 .. n \cup {n + 1} /\ n + 1 \in 1 .. n + 1 /\ \A i \in 1 .. n : i \in 1 .. n + 1 /\ i # n + 1
  <2> HIDE DEF n
  <2> QED
    BY <1>2
<1>10. callStack[n + 1] = Last(callStack)
  BY <1>2 DEF Last
<1> HIDE DEF n
<1>3. /\ DOMAIN callStack = 1 .. n + 1 /\ 1 .. n + 1 = 1 .. n \cup {n + 1}
      /\ callStack[n + 1] = Last(callStack) /\ Innermost = callStack[n + 1].method
      /\ callStack[n + 1] \in CallFrames
  <2>1. DOMAIN callStack = 1 .. n + 1
    BY <1>1, <1>2
  <2>2. callStack[n + 1] \in CallFrames
    BY <1>1, <1>2, <1>9
  <2>3. Innermost = Last(callStack).method
    BY <1>1 DEF Innermost
  <2> QED
    BY <1>9, <1>10, <2>1, <2>2, <2>3
<1>11. callStack' \in Seq(CallFrames)
  <2> DEFINE shorter == [i \in 1 .. n |-> callStack[i]]
  <2>1. \A i \in 1 .. n : callStack[i] \in CallFrames
    BY <1>1, <1>2, <1>9
  <2>2. shorter \in Seq(CallFrames)
    <3>1. shorter \in [1 .. n -> CallFrames]
      BY <2>1
    <3> HIDE DEF shorter
    <3> QED
      BY <1>2, <3>1
  <2> QED
    BY <1>4, <2>2
<1>5. /\ DOMAIN callStack' = 1 .. n
      /\ \A i \in 1 .. n : callStack'[i] = callStack[i] /\ i # n + 1
      /\ callStack' \in Seq(CallFrames)
  BY <1>4, <1>9, <1>11
<1>6. \A m : Hooked(m)' <=> Hooked(m)
  BY DEF Hooked
<1>7. HookRuns(callStack) <=> HookRuns(callStack)' \/ Hooked(Innermost)
  BY <1>3, <1>5, <1>6 DEF HookRuns
<1>8. HookRuns(Front(callStack)) <=> HookRuns(callStack)'
  BY <1>6 DEF HookRuns
<1> QED
  BY <1>2, <1>3, <1>5, <1>6, <1>7, <1>8

LEMMA LeavingKeeps ==
    ASSUME ShadowFollows, LeaveMethod
    PROVE  ShadowFollows'
<1> DEFINE m == Innermost
<1>1. /\ Innermost \notin {"none", "tav-set"} /\ callStack' = Front(callStack)
      /\ TAVERN_PAGE_SHADOW' = IF Hooked(m) THEN tavern_page ELSE TAVERN_PAGE_SHADOW
      /\ escaped' = (escaped /\ ~Hooked(m))
      /\ overlap' = (overlap /\ (Hooked(m) => HookRuns(Front(callStack))))
      /\ tavern_page' = tavern_page /\ installed' = installed
  BY DEF LeaveMethod
<1>2. log_line' = "none" \/ log_line' = m
  BY DEF LeaveMethod, Log
<1>3. PICK n \in Nat :
           /\ DOMAIN callStack = 1 .. n + 1 /\ DOMAIN callStack' = 1 .. n /\ 1 .. n + 1 = 1 .. n \cup {n + 1}
           /\ \A i \in 1 .. n : callStack'[i] = callStack[i] /\ i # n + 1
           /\ callStack[n + 1] = Last(callStack) /\ m = callStack[n + 1].method
           /\ callStack' \in Seq(CallFrames)
           /\ callStack[n + 1] \in CallFrames
           /\ HookRuns(callStack) <=> HookRuns(callStack)' \/ Hooked(m)
           /\ HookRuns(Front(callStack)) <=> HookRuns(callStack)'
           /\ \A x : Hooked(x)' <=> Hooked(x)
  BY <1>1, CallEnds
<1>4. m \in TavernMethods
  BY <1>3 DEF CallFrames
<1> HIDE DEF m
<1>5. MissedIsTrue'
  BY <1>2, <1>4 DEF MissedIsTrue, TavernMethods
<1>6. ASSUME ~overlap'
      PROVE  ~HookRuns(callStack)' \/ (~overlap /\ ~Hooked(m))
  <2>1. CASE overlap
    BY <1>1, <1>3, <1>6, <2>1
  <2>2. CASE ~overlap /\ Hooked(m)
    <3>1. SUFFICES ASSUME NEW i \in 1 .. n, Hooked(callStack[i].method) PROVE FALSE
      BY <1>3, <2>2 DEF HookRuns
    <3> QED
      BY <1>3, <2>2, <3>1 DEF ShadowFollows
  <2> QED
    BY <2>1, <2>2
<1>7. ASSUME ~overlap', NEW i \in 1 .. n, NEW k \in 1 .. n, Hooked(callStack'[i].method), Hooked(callStack'[k].method)
      PROVE  i = k
  <2>1. HookRuns(callStack)'
    BY <1>3, <1>7 DEF HookRuns
  <2>2. ~overlap
    BY <1>6, <1>7, <2>1
  <2> QED
    BY <1>3, <1>7, <2>2 DEF ShadowFollows
<1>8. ASSUME ~overlap', NEW i \in 1 .. n, callStack'[i].method = "tav-set", Hooked("tav-set")
      PROVE  TAVERN_PAGE_SHADOW' = callStack'[i].page
  <2>1. HookRuns(callStack)'
    BY <1>3, <1>8 DEF HookRuns
  <2>2. ~overlap /\ ~Hooked(m)
    BY <1>6, <1>8, <2>1
  <2>3. TAVERN_PAGE_SHADOW = callStack[i].page
    BY <1>3, <1>8, <2>2 DEF ShadowFollows
  <2> QED
    BY <1>1, <1>3, <2>2, <2>3
<1>9. ~escaped' /\ ~overlap' /\ TAVERN_PAGE_SHADOW' # Unset
         => tavern_page' = TAVERN_PAGE_SHADOW' \/ HookRuns(callStack)'
  <2>1. CASE Hooked(m)
    BY <1>1, <2>1
  <2>2. CASE ~Hooked(m)
    BY <1>1, <1>3, <2>2 DEF ShadowFollows
  <2> QED
    BY <2>1, <2>2
<1>10. installed' \in 0 .. Len(Hooks) /\ tavern_page' \in PageValues
  BY <1>1 DEF ShadowFollows
<1> QED
  BY <1>3, <1>5, <1>7, <1>8, <1>9, <1>10 DEF ShadowFollows

LEMMA ReturningKeeps ==
    ASSUME ShadowFollows, SetPageReturns
    PROVE  ShadowFollows'
<1>1. /\ Innermost = "tav-set" /\ callStack' = Front(callStack) /\ tavern_page' = Last(callStack).page
      /\ escaped' = ((escaped \/ ~HookRuns(callStack)) /\ tavern_page' # TAVERN_PAGE_SHADOW)
      /\ log_line' = "none" /\ TAVERN_PAGE_SHADOW' = TAVERN_PAGE_SHADOW /\ overlap' = overlap /\ installed' = installed
  BY DEF SetPageReturns, PageSeen
<1>2. PICK n \in Nat :
           /\ DOMAIN callStack = 1 .. n + 1 /\ DOMAIN callStack' = 1 .. n /\ 1 .. n + 1 = 1 .. n \cup {n + 1}
           /\ \A i \in 1 .. n : callStack'[i] = callStack[i] /\ i # n + 1
           /\ callStack[n + 1] = Last(callStack) /\ Innermost = callStack[n + 1].method
           /\ callStack' \in Seq(CallFrames)
           /\ callStack[n + 1] \in CallFrames
           /\ HookRuns(callStack) <=> HookRuns(callStack)' \/ Hooked(Innermost)
           /\ HookRuns(Front(callStack)) <=> HookRuns(callStack)'
           /\ \A x : Hooked(x)' <=> Hooked(x)
  BY <1>1, CallEnds
<1>3. \A i \in 1 .. n : i \in 1 .. n + 1
  BY <1>2
<1>4. ~overlap' =>
          /\ \A i \in 1 .. n, k \in 1 .. n : Hooked(callStack'[i].method) /\ Hooked(callStack'[k].method) => i = k
          /\ \A i \in 1 .. n :
                callStack'[i].method = "tav-set" /\ Hooked("tav-set") => TAVERN_PAGE_SHADOW' = callStack'[i].page
  BY <1>1, <1>2, <1>3 DEF ShadowFollows
<1>5. ASSUME ~escaped', ~overlap', ~HookRuns(callStack)'
      PROVE  tavern_page' = TAVERN_PAGE_SHADOW'
  <2>1. tavern_page' = TAVERN_PAGE_SHADOW \/ HookRuns(callStack)
    BY <1>1, <1>5
  <2>2. ASSUME HookRuns(callStack) PROVE tavern_page' = TAVERN_PAGE_SHADOW
    <3>1. Hooked("tav-set")
      BY <1>1, <1>2, <1>5, <2>2
    <3>2. n + 1 \in DOMAIN callStack
      BY <1>2
    <3>3. TAVERN_PAGE_SHADOW = callStack[n + 1].page
      BY <1>1, <1>2, <1>5, <3>1, <3>2 DEF ShadowFollows
    <3> QED
      BY <1>1, <1>2, <3>3
  <2> QED
    BY <1>1, <2>1, <2>2
<1>6. tavern_page' \in PageValues
  BY <1>1, <1>2 DEF CallFrames
<1>7. MissedIsTrue' /\ installed' \in 0 .. Len(Hooks)
  BY <1>1 DEF MissedIsTrue, ShadowFollows
<1> QED
  BY <1>2, <1>4, <1>5, <1>6, <1>7 DEF ShadowFollows

LEMMA ShadowStep ==
    ASSUME ShadowFollows, [ProbeNext]_probeVars
    PROVE  ShadowFollows'
<1>1. ASSUME NEW hooks \in {{"push", "remove"}, {"open", "close", "dtor"}, {"dlg-show", "dlg-close", "dlg-dtor"}},
             OtherHook(hooks)
      PROVE  ShadowFollows'
  <2>1. log_line' # "tav-MISSED"
    BY <1>1 DEF OtherHook, Log
  <2>2. UNCHANGED <<tavernVars, installed>>
    BY <1>1 DEF OtherHook
  <2> QED
    BY <2>1, <2>2, OthersKeep
<1>2. CASE manager_transition \/ office_hooks \/ dialog_hooks
  BY <1>1, <1>2 DEF manager_transition, office_hooks, dialog_hooks
<1>3. ASSUME NEW m \in {"tav-open", "tav-close", "tav-update"}, EnterMethod(m) PROVE ShadowFollows'
  <2>1. m \in TavernMethods /\ m # "tav-set" /\ tavern_page \in PageValues
    BY DEF TavernMethods, ShadowFollows
  <2>2. EnterCall(m, tavern_page) /\ TAVERN_PAGE_SHADOW' = TAVERN_PAGE_SHADOW
        /\ (log_line' = "tav-MISSED" => Hooked(m) /\ m = "tav-update" /\ Missed)
    BY <1>3 DEF EnterMethod
  <2> QED
    BY <2>1, <2>2, CallBegins
<1>4. ASSUME NEW p \in Pages \cup {-1}, set_page(p) PROVE ShadowFollows'
  <2>1. p \in PageValues /\ "tav-set" \in TavernMethods
    BY DEF PageValues, TavernMethods
  <2>2. /\ EnterCall("tav-set", p)
        /\ TAVERN_PAGE_SHADOW' = IF Hooked("tav-set") THEN p ELSE TAVERN_PAGE_SHADOW
        /\ log_line' # "tav-MISSED"
    BY <1>4 DEF set_page, Log
  <2> QED
    BY <2>1, <2>2, CallBegins
<1>5. CASE WritePage
  <2>1. /\ tavern_page' \in PageValues /\ log_line' = "none" /\ UNCHANGED <<callStack, TAVERN_PAGE_SHADOW, overlap, installed>>
        /\ escaped' = ((escaped \/ ~HookRuns(callStack)) /\ tavern_page' # TAVERN_PAGE_SHADOW)
    BY <1>5 DEF WritePage, PageSeen, PageValues
  <2>2. \A m : Hooked(m)' <=> Hooked(m)
    BY <2>1 DEF Hooked
  <2>3. HookRuns(callStack)' <=> HookRuns(callStack)
    BY <2>1, <2>2 DEF HookRuns
  <2>4. ~escaped' => tavern_page' = TAVERN_PAGE_SHADOW' \/ HookRuns(callStack)'
    BY <2>1, <2>3
  <2> QED
    BY <2>1, <2>2, <2>4 DEF ShadowFollows, MissedIsTrue
<1>6. CASE UNCHANGED probeVars
  BY <1>6, OthersKeep DEF probeVars
<1> QED
  BY <1>2, <1>3, <1>4, <1>5, <1>6, LeavingKeeps, ReturningKeeps DEF ProbeNext

\* For any pages and any part of the hooks in place, however the game nests its methods: a
\* MISSED line is only written for a page that was changed past every hook, or after a hooked
\* method was called inside another one (tavern_update_hook).
THEOREM MissedLinesAreTrue == ProbeSpec => []MissedIsTrue
<1>1. ProbeInit => ShadowFollows
  BY DEF ProbeInit, ShadowFollows, MissedIsTrue, PageValues
<1>2. ShadowFollows /\ [ProbeNext]_probeVars => ShadowFollows'
  BY ShadowStep
<1>3. ShadowFollows => MissedIsTrue
  BY DEF ShadowFollows
<1> QED
  BY <1>1, <1>2, <1>3, PTL DEF ProbeSpec

-----------------------------------------------------------------------------
(* MissionLint: what the linter reports.                                   *)

\* Where a town lies, the linter knows a command that may have put it there.
TownsHaveWriters ==
    /\ DOMAIN variables = Variables
    /\ \A x \in Variables : variables[x].town => writers(script, x) \cap TOWNISH # {}

\* What a command of the script may write is among its variable's writers.
LEMMA WritersOf ==
    ASSUME NEW n \in DOMAIN script, NEW x, NEW what, <<x, what>> \in writes(script[n])
    PROVE  what \in writers(script, x)
<1>1. <<x, what>> \in UNION {writes(script[m]) : m \in DOMAIN script}
  OBVIOUS
<1> QED
  BY <1>1 DEF writers

LEMMA ComputeKeeps ==
    ASSUME TownsHaveWriters, Step
    PROVE  TownsHaveWriters'
<1> DEFINE o == Command.operands
<1>1. ip \in DOMAIN script /\ script' = script /\ Compute
  BY DEF Step
<1>2. ASSUME NEW target, NEW value, Assign(target, value),
             target \in Variables /\ value.town => writers(script, target) \cap TOWNISH # {}
      PROVE  TownsHaveWriters'
  <2>1. DOMAIN variables' = Variables
    BY <1>2 DEF Assign, TownsHaveWriters
  <2>2. \A x \in Variables : variables'[x] = IF x = target THEN value ELSE variables[x]
    BY <1>2 DEF Assign, TownsHaveWriters
  <2>3. \A x : writers(script', x) = writers(script, x)
    BY <1>1
  <2>4. \A x \in Variables : variables'[x].town => writers(script', x) \cap TOWNISH # {}
    BY <1>2, <2>2, <2>3 DEF TownsHaveWriters
  <2> QED
    BY <2>1, <2>4 DEF TownsHaveWriters, writers
<1>3. Command = script[ip]
  BY DEF Command
<1> USE DEF TOWNISH
<1>4. CASE Command.kind = "town" /\ \E t \in Towns : Assign(o[1], t)
  <2>1. <<o[1], "TOWN">> \in writes(script[ip])
    <3>1. WRITERS[Command.kind] = {<<1, "TOWN">>} /\ Command.kind \in DOMAIN WRITERS
      BY <1>4 DEF WRITERS
    <3> QED
      BY <1>3, <3>1 DEF writes, targets, Everywhere
  <2>2. "TOWN" \in writers(script, o[1])
    BY <1>1, <2>1, WritersOf
  <2> QED
    BY <1>2, <1>4, <2>2
<1>5. CASE Command.kind = "literal" /\ Assign(o[1], Value(o[2], FALSE))
  BY <1>2, <1>5 DEF Value
<1>6. CASE Command.kind = "sum" /\ \E n \in Numbers : Assign(o[1], n)
  BY <1>2, <1>6 DEF Numbers, Value
<1>7. CASE Command.kind = "load" /\ Assign(o[1], variables[variables[o[2]].n])
  <2>1. <<o[1], "indirect">> \in writes(script[ip])
    <3>1. WRITERS[Command.kind] = {<<1, "indirect">>} /\ Command.kind \in DOMAIN WRITERS
      BY <1>7 DEF WRITERS
    <3> QED
      BY <1>3, <3>1 DEF writes, targets, Everywhere
  <2>2. "indirect" \in writers(script, o[1])
    BY <1>1, <2>1, WritersOf
  <2> QED
    BY <1>2, <1>7, <2>2
<1>8. CASE Command.kind = "store" /\ Assign(variables[o[1]].n, variables[o[2]])
  <2>1. \A x \in Variables : <<x, "indirect">> \in writes(script[ip])
    <3>1. WRITERS[Command.kind] = {<<Everywhere, "indirect">>} /\ Command.kind \in DOMAIN WRITERS
      BY <1>8 DEF WRITERS, Everywhere
    <3> QED
      BY <1>3, <3>1 DEF writes, targets, Everywhere
  <2>2. \A x \in Variables : "indirect" \in writers(script, x)
    BY <1>1, <2>1, WritersOf
  <2> QED
    BY <1>2, <1>8, <2>2
<1>9. CASE Command.kind = "unknown" /\ \E x \in Numbers \cup Towns : \E n \in DOMAIN o : o[n] \in Variables /\ Assign(o[n], x)
  <2>1. PICK x \in Numbers \cup Towns, n \in DOMAIN o : o[n] \in Variables /\ Assign(o[n], x)
    BY <1>9
  <2>2. <<o[n], "unknown">> \in writes(script[ip])
    BY <1>3, <1>9, <2>1 DEF writes, WRITERS, Range
  <2>3. "unknown" \in writers(script, o[n])
    BY <1>1, <2>2, WritersOf
  <2> QED
    BY <1>2, <2>1, <2>3
<1>10. CASE Command.kind \in {"unknown", "letter"} /\ variables' = variables
  BY <1>1, <1>10 DEF TownsHaveWriters, writers
<1> QED
  BY <1>1, <1>4, <1>5, <1>6, <1>7, <1>8, <1>9, <1>10 DEF Compute

\* For any scripts and any number of variables, whatever its jumps, restarts, indirect stores
\* and unknown commands do: the town operand of a letter that the linter reports never holds
\* a town when the interpreter comes there (src/p2mcli/src/main.rs, lint_script).
THEOREM ReportsHold == LintSpec => []ReportsAreTrue
<1>1. LintInit => TownsHaveWriters
  BY DEF LintInit, TownsHaveWriters, Value
<1>2. TownsHaveWriters /\ [LintNext]_lintVars => TownsHaveWriters'
  <2> SUFFICES ASSUME TownsHaveWriters, [LintNext]_lintVars PROVE TownsHaveWriters'
    OBVIOUS
  <2>1. CASE Step
    BY <2>1, ComputeKeeps
  <2>2. CASE UNCHANGED <<script, variables>>
    BY <2>2 DEF TownsHaveWriters, writers
  <2> QED
    BY <2>1, <2>2 DEF LintNext, Branch, Restart, lintVars
<1>3. TownsHaveWriters => ReportsAreTrue
  BY DEF TownsHaveWriters, ReportsAreTrue, lint_reports, Command
<1> QED
  BY <1>1, <1>2, <1>3, PTL DEF LintSpec

-----------------------------------------------------------------------------
(* PageDrawing: each text comes out as it is meant.                        *)

\* Cells as they are drawn: an empty one in a coloured row has that row's colour, too.
DrawnCells == [kind : {"Text", "Rich", "Graphic", "Empty"}, color : {"black", Color}]
PlainCells == {cell \in DrawnCells : cell.kind # "Rich"}

\* A page's cells are such, and a header's plain ones.
LEMMA CellsAreDrawn == Cells \subseteq DrawnCells /\ HeaderCells \subseteq PlainCells
  BY DEF Cells, HeaderCells, DrawnCells, PlainCells

Text == [came : Renderers, meant : Renderers]

\* What a call of the page hands on: the page's own state, in the call's font, and texts
\* that came out as they were meant.
Sound(font) ==
    {d \in [renderer : {[reset_state EXCEPT !.font = font]}, ink : Seq(Text)] :
        \A n \in DOMAIN d.ink : d.ink[n].came = d.ink[n].meant}

LEMMA TextIsSound ==
    ASSUME NEW font \in {"normal", "header"}, NEW d \in Sound(font), NEW text \in Text, text.came = text.meant
    PROVE  [renderer |-> [reset_state EXCEPT !.font = font], ink |-> Append(d.ink, text)] \in Sound(font)
<1>1. d.ink \in Seq(Text) /\ \A n \in DOMAIN d.ink : d.ink[n].came = d.ink[n].meant
  BY DEF Sound
<1>2. Append(d.ink, text) \in Seq(Text)
  BY <1>1
<1>3. ASSUME NEW n \in DOMAIN Append(d.ink, text)
      PROVE  Append(d.ink, text)[n].came = Append(d.ink, text)[n].meant
  <2>1. DOMAIN d.ink = 1 .. Len(d.ink) /\ n \in 1 .. Len(d.ink) + 1
    BY <1>1
  <2>2. CASE n = Len(d.ink) + 1
    <3>1. Append(d.ink, text)[n] = text
      BY <1>1, <2>2
    <3> QED
      BY <3>1
  <2>3. CASE n \in 1 .. Len(d.ink)
    <3>1. Append(d.ink, text)[n] = d.ink[n]
      BY <1>1, <2>3
    <3> QED
      BY <1>1, <2>1, <2>3, <3>1
  <2> QED
    BY <2>1, <2>2, <2>3
<1> DEFINE more == Append(d.ink, text)
<1> HIDE DEF more
<1>4. more \in Seq(Text) /\ \A n \in DOMAIN more : more[n].came = more[n].meant
  BY <1>2, <1>3 DEF more
<1>5. [renderer |-> [reset_state EXCEPT !.font = font], ink |-> more] \in Sound(font)
  BY <1>4 DEF Sound
<1> QED
  BY <1>5 DEF more

LEMMA CellIsSound ==
    ASSUME NEW font \in {"normal", "header"}, NEW d \in Sound(font), NEW align \in Aligns,
           NEW cell \in DrawnCells, font = "header" => cell \in PlainCells
    PROVE  draw_cell(d, align, cell, font) \in Sound(font)
<1> DEFINE own == [reset_state EXCEPT !.font = font]
           meant == [color |-> cell.color, mode |-> align, font |-> font]
           colored == IF cell.color # "black" THEN set_constant_color(d, cell.color) ELSE d
           text == draw_text(colored, align, meant)
           black_again == IF cell.color # "black" THEN set_constant_color(text, "black") ELSE text
<1>1. d.renderer = own /\ own = [color |-> "black", mode |-> "Right", font |-> font] /\ d.ink \in Seq(Text)
      /\ d = [renderer |-> own, ink |-> d.ink]
  BY DEF Sound, reset_state
<1>2. cell.color \in {"black", Color} /\ cell.kind \in {"Text", "Rich", "Graphic", "Empty"}
  BY DEF DrawnCells
<1>3. meant \in Renderers /\ [came |-> meant, meant |-> meant] \in Text
  BY <1>2 DEF Renderers, Text
<1>4. black_again = [renderer |-> own, ink |-> Append(d.ink, [came |-> meant, meant |-> meant])]
  <2>1. colored = [renderer |-> [color |-> cell.color, mode |-> "Right", font |-> font], ink |-> d.ink]
    BY <1>1 DEF set_constant_color
  <2> HIDE DEF colored
  <2>2. colored.renderer = [color |-> cell.color, mode |-> "Right", font |-> font] /\ colored.ink = d.ink
    BY <2>1
  <2>3. IF align # "Right"
        THEN [colored.renderer EXCEPT !.mode = align] = meant /\ [colored.renderer EXCEPT !.mode = "Right"] = colored.renderer
        ELSE colored.renderer = meant
    BY <2>2
  <2>4. text = [renderer |-> colored.renderer, ink |-> Append(d.ink, [came |-> meant, meant |-> meant])]
    BY <2>2, <2>3 DEF draw_text
  <2> HIDE DEF text, meant
  <2>5. text.renderer = [color |-> cell.color, mode |-> "Right", font |-> font]
        /\ text.ink = Append(d.ink, [came |-> meant, meant |-> meant])
    BY <2>2, <2>4
  <2>6. CASE cell.color = "black"
    BY <1>1, <2>2, <2>4, <2>6
  <2>7. CASE cell.color # "black"
    <3>1. black_again = set_constant_color(text, "black")
      BY <2>7
    <3>2. [text.renderer EXCEPT !.color = "black"] = own
      BY <2>5, <1>1
    <3>3. ASSUME NEW r, NEW i
          PROVE  set_constant_color([renderer |-> r, ink |-> i], "black") = [renderer |-> [r EXCEPT !.color = "black"], ink |-> i]
      BY DEF set_constant_color
    <3>4. set_constant_color(text, "black") = [renderer |-> own, ink |-> text.ink]
      <4>1. text = [renderer |-> text.renderer, ink |-> text.ink]
        BY <2>4
      <4>2. set_constant_color([renderer |-> text.renderer, ink |-> text.ink], "black")
              = [renderer |-> [text.renderer EXCEPT !.color = "black"], ink |-> text.ink]
        BY <3>3
      <4> HIDE DEF own
      <4> QED
        BY <4>1, <4>2, <3>2
    <3> QED
      BY <3>1, <3>4, <2>5
  <2> QED
    BY <2>6, <2>7
<1>5. black_again \in Sound(font)
  <2> HIDE DEF black_again, meant
  <2>1. [renderer |-> own, ink |-> Append(d.ink, [came |-> meant, meant |-> meant])] \in Sound(font)
    BY <1>3, TextIsSound
  <2> QED
    BY <2>1, <1>4
<1>6. cell.kind = "Graphic" => set_constant_color(d, "black") = d
  <2>1. set_constant_color(d, "black") = [renderer |-> [own EXCEPT !.color = "black"], ink |-> d.ink]
    <3> HIDE DEF own
    <3> QED
      BY <1>1 DEF set_constant_color
  <2>2. [own EXCEPT !.color = "black"] = own
    BY <1>1
  <2> HIDE DEF own
  <2> QED
    BY <1>1, <2>1, <2>2
<1>7. cell.kind = "Rich" /\ layout =>
        [renderer |-> reset_state, ink |-> Append(d.ink, [came |-> [meant EXCEPT !.font = "normal"], meant |-> meant])] \in Sound(font)
  <2> SUFFICES ASSUME cell.kind = "Rich"
               PROVE [renderer |-> reset_state, ink |-> Append(d.ink, [came |-> [meant EXCEPT !.font = "normal"], meant |-> meant])] \in Sound(font)
    OBVIOUS
  <2>1. font = "normal"
    BY DEF PlainCells
  <2>2. own = reset_state /\ [meant EXCEPT !.font = "normal"] = meant
    BY <2>1 DEF reset_state
  <2> HIDE DEF meant
  <2>3. [renderer |-> own, ink |-> Append(d.ink, [came |-> meant, meant |-> meant])] \in Sound(font)
    BY <1>3, TextIsSound
  <2> QED
    BY <2>2, <2>3
<1> DEFINE rich == [renderer |-> reset_state, ink |-> Append(d.ink, [came |-> [meant EXCEPT !.font = "normal"], meant |-> meant])]
<1>8. draw_cell(d, align, cell, font) =
        CASE cell.kind = "Empty" -> d
          [] cell.kind = "Graphic" -> set_constant_color(d, "black")
          [] cell.kind = "Rich" /\ layout -> rich
          [] OTHER -> black_again
  BY DEF draw_cell
<1> HIDE DEF rich, black_again
<1>9. cell.kind = "Rich" /\ layout => rich \in Sound(font)
  BY <1>7 DEF rich
<1> QED
  BY <1>5, <1>6, <1>8, <1>9

\* A whole row of cells, one column after the other.
LEMMA CellsAreSound ==
    ASSUME NEW font \in {"normal", "header"}, NEW d \in Sound(font), NEW cells \in [DOMAIN Columns -> DrawnCells],
           font = "header" => cells \in [DOMAIN Columns -> PlainCells]
    PROVE  draw_cells(d, cells, font) \in Sound(font)
<1> DEFINE W == Len(Columns)
           one(n, e) == draw_cell(e, Columns[n], cells[n], font)
           drawn == CHOOSE f : f = [n \in 0 .. W |-> IF n = 0 THEN d ELSE one(n, f[n - 1])]
           step == [p \in (1 .. W) \X Sound(font) |-> one(p[1], p[2])]
<1>1. W \in Nat /\ DOMAIN Columns = 1 .. W /\ \A n \in 1 .. W : Columns[n] \in Aligns
  BY DrawingAssumption
<1>2. \A n \in 1 .. W : \A e \in Sound(font) : one(n, e) \in Sound(font)
  BY <1>1, CellIsSound
<1>3. draw_cells(d, cells, font) = drawn[W]
  BY DEF draw_cells
<1> HIDE DEF W, one
<1>4. step \in [(1 .. W) \X Sound(font) -> Sound(font)]
  BY <1>2
<1>5. PICK f \in [0 .. W -> Sound(font)] : f[0] = d /\ \A n \in 1 .. W : f[n] = step[<<n, f[n - 1]>>]
  <2> DEFINE D == Sound(font)
  <2> HIDE DEF step, D
  <2>1. W \in Nat /\ d \in D /\ step \in [(1 .. W) \X D -> D]
    BY <1>1, <1>4 DEF D
  <2>2. \E f : HandsOn(f, D, d, W, step)
    BY <2>1, Recursion
  <2> QED
    BY <2>2 DEF D, HandsOn
<1>6. f = [n \in 0 .. W |-> IF n = 0 THEN d ELSE one(n, f[n - 1])]
  <2>1. ASSUME NEW n \in 1 .. W PROVE f[n] = one(n, f[n - 1])
    <3>1. n - 1 \in 0 .. W
      BY <1>1
    <3> QED
      BY <1>5, <3>1
  <2> QED
    BY <1>1, <1>5, <2>1
<1>7. drawn = [n \in 0 .. W |-> IF n = 0 THEN d ELSE one(n, drawn[n - 1])]
  BY <1>6
<1> HIDE DEF drawn
<1> DEFINE T == {n \in Nat : n <= W => drawn[n] \in Sound(font)}
<1>8. 0 \in T
  BY <1>1, <1>7
<1>9. ASSUME NEW n \in Nat, n \in T PROVE n + 1 \in T
  <2> SUFFICES ASSUME n + 1 <= W PROVE drawn[n + 1] \in Sound(font)
    OBVIOUS
  <2>1. n + 1 \in 1 .. W /\ n + 1 \in 0 .. W /\ n + 1 # 0 /\ n + 1 - 1 = n
    BY <1>1
  <2> DEFINE m == n + 1
  <2>2. drawn[m] = one(m, drawn[n])
    <3>1. m \in 0 .. W /\ m # 0 /\ m - 1 = n
      BY <2>1
    <3> HIDE DEF m
    <3>2. drawn[m] = IF m = 0 THEN d ELSE one(m, drawn[m - 1])
      BY <1>7, <3>1
    <3> QED
      BY <3>1, <3>2
  <2> QED
    BY <2>1, <2>2, <1>1, <1>2, <1>9
<1> HIDE DEF T
<1>10. W \in T
  BY <1>1, <1>8, <1>9, SetInduction
<1> QED
  BY <1>1, <1>3, <1>10 DEF T

\* What has been drawn by a call came out right, and a page's call finds the page's own state.
DrawInv ==
    /\ drawing => renderer = reset_state
    /\ [renderer |-> reset_state, ink |-> ink] \in Sound("normal")

\* A call that hands back the page's own state, and texts as they were meant, keeps that.
LEMMA CallsKeep ==
    ASSUME NEW d \in Sound("normal"), Draws(d)
    PROVE  DrawInv'
<1>1. renderer' = d.renderer /\ ink' = d.ink
  BY DEF Draws
<1>2. d.renderer = [reset_state EXCEPT !.font = "normal"] /\ d = [renderer |-> d.renderer, ink |-> d.ink]
  BY DEF Sound
<1>3. [reset_state EXCEPT !.font = "normal"] = reset_state
  BY DEF reset_state
<1>4. [renderer |-> reset_state, ink |-> d.ink] \in Sound("normal")
  BY <1>2, <1>3
<1> QED
  BY <1>1, <1>2, <1>3, <1>4 DEF DrawInv, reset_state, Sound

\* The font is changed for a call, and changed back by it.
LEMMA FontIsSound ==
    ASSUME NEW font \in {"normal", "header"}, NEW other \in {"normal", "header"}, NEW d \in Sound(font)
    PROVE  set_font(d, other) \in Sound(other)
<1>1. d.renderer = [reset_state EXCEPT !.font = font] /\ d = [renderer |-> d.renderer, ink |-> d.ink]
      /\ d.ink \in Seq(Text) /\ \A n \in DOMAIN d.ink : d.ink[n].came = d.ink[n].meant
  BY DEF Sound
<1>2. ASSUME NEW r, NEW i
      PROVE  set_font([renderer |-> r, ink |-> i], other) = [renderer |-> [r EXCEPT !.font = other], ink |-> i]
  BY DEF set_font
<1>3. set_font(d, other) = [renderer |-> [d.renderer EXCEPT !.font = other], ink |-> d.ink]
  <2>1. set_font([renderer |-> d.renderer, ink |-> d.ink], other) = [renderer |-> [d.renderer EXCEPT !.font = other], ink |-> d.ink]
    BY <1>2
  <2> QED
    BY <2>1, <1>1
<1>4. [d.renderer EXCEPT !.font = other] = [reset_state EXCEPT !.font = other]
  BY <1>1 DEF reset_state
<1> QED
  BY <1>1, <1>3, <1>4 DEF Sound

\* A text of the page itself, black and in the call's font, comes out as it is meant.
LEMMA BlackTextIsSound ==
    ASSUME NEW font \in {"normal", "header"}, NEW d \in Sound(font), NEW align \in Aligns
    PROVE  draw_text(d, align, [color |-> "black", mode |-> align, font |-> font]) \in Sound(font)
<1> DEFINE cell == [kind |-> "Text", color |-> "black"]
           meant == [color |-> "black", mode |-> align, font |-> font]
           text == draw_text(d, align, meant)
<1>1. cell \in DrawnCells /\ cell \in PlainCells
  BY DEF DrawnCells, PlainCells
<1>2. cell.kind = "Text" /\ cell.color = "black"
  OBVIOUS
<1>3. draw_cell(d, align, cell, font) \in Sound(font)
  BY <1>1, CellIsSound
<1>4. draw_cell(d, align, cell, font) = text
  BY DEF draw_cell
<1> QED
  BY <1>3, <1>4

\* The page in its own state, with nothing drawn yet.
LEMMA StartIsSound ==
    ASSUME DrawInv, drawing
    PROVE  Start \in Sound("normal")
<1>1. renderer = reset_state /\ reset_state = [reset_state EXCEPT !.font = "normal"]
  BY DEF DrawInv, reset_state
<1>2. <<>> \in Seq(Text) /\ DOMAIN <<>> = {}
  OBVIOUS
<1> QED
  BY <1>1, <1>2 DEF Start, Sound

\* Every call of a page's draw, and whatever the game draws, leaves the next call its state.
LEMMA DrawKeeps ==
    ASSUME DrawInv, [DrawNext]_drawVars
    PROVE  DrawInv'
<1>1. CASE GameDraws
  <2>1. <<>> \in Seq(Text) /\ DOMAIN <<>> = {} /\ reset_state = [reset_state EXCEPT !.font = "normal"]
    BY DEF reset_state
  <2>2. [renderer |-> reset_state, ink |-> <<>>] \in Sound("normal")
    BY <2>1 DEF Sound
  <2> QED
    BY <1>1, <2>2 DEF GameDraws, DrawInv, reset_state, Sound
<1>2. CASE begin
  BY <1>2 DEF begin, DrawInv, reset_state, Sound
<1>3. ASSUME NEW cells \in [DOMAIN Columns -> HeaderCells], NEW sorted \in BOOLEAN, header(cells, sorted)
      PROVE  DrawInv'
  <2> DEFINE titled == draw_cells(set_font(Start, "header"), cells, "header")
             body == set_font(titled, "normal")
             marker == draw_text(body, "Left", [color |-> "black", mode |-> "Left", font |-> "normal"])
  <2>1. cells \in [DOMAIN Columns -> PlainCells] /\ cells \in [DOMAIN Columns -> DrawnCells]
    BY CellsAreDrawn DEF PlainCells
  <2>2. set_font(Start, "header") \in Sound("header")
    BY <1>3, StartIsSound, FontIsSound DEF header
  <2>3. titled \in Sound("header")
    BY <2>1, <2>2, CellsAreSound
  <2> HIDE DEF titled
  <2>4. body \in Sound("normal")
    BY <2>3, FontIsSound
  <2> HIDE DEF body
  <2>5. marker \in Sound("normal")
    <3>1. "Left" \in Aligns
      BY DEF Aligns
    <3> QED
      BY <2>4, <3>1, BlackTextIsSound
  <2>6. Draws(IF sorted THEN marker ELSE body)
    BY <1>3 DEF header, body, titled
  <2> HIDE DEF marker
  <2>7. CASE sorted
    <3>1. Draws(marker)
      BY <2>6, <2>7
    <3> QED
      BY <3>1, <2>5, CallsKeep
  <2>8. CASE ~sorted
    <3>1. Draws(body)
      BY <2>6, <2>8
    <3> QED
      BY <3>1, <2>4, CallsKeep
  <2> QED
    BY <2>7, <2>8
<1>4. ASSUME NEW cells \in [DOMAIN Columns -> Cells], table_row(cells)
      PROVE  DrawInv'
  <2>1. draw_cells(Start, cells, "normal") \in Sound("normal")
    <3>1. Start \in Sound("normal")
      BY <1>4, StartIsSound DEF table_row
    <3>2. cells \in [DOMAIN Columns -> DrawnCells]
      BY CellsAreDrawn
    <3> QED
      BY <3>1, <3>2, CellsAreSound
  <2>2. Draws(draw_cells(Start, cells, "normal"))
    BY <1>4 DEF table_row
  <2> QED
    BY <2>1, <2>2, CallsKeep
<1>5. ASSUME NEW cells \in [DOMAIN Columns -> Cells], row_colored(cells)
      PROVE  DrawInv'
  <2> DEFINE tinted == [i \in DOMAIN cells |-> Colored(Color, cells[i])]
  <2>1. tinted \in [DOMAIN Columns -> DrawnCells]
    <3>1. ASSUME NEW cell \in DrawnCells PROVE Colored(Color, cell) \in DrawnCells
      BY DEF Colored, DrawnCells
    <3> QED
      BY <3>1, CellsAreDrawn
  <2>2. Draws(draw_cells(Start, tinted, "normal"))
    BY <1>5 DEF row_colored
  <2>3. Start \in Sound("normal")
    BY <1>5, StartIsSound DEF row_colored
  <2> HIDE DEF tinted
  <2>4. draw_cells(Start, tinted, "normal") \in Sound("normal")
    BY <2>1, <2>3, CellsAreSound
  <2> QED
    BY <2>2, <2>4, CallsKeep
<1>6. ASSUME NEW align \in Aligns, heading(align)
      PROVE  DrawInv'
  <2> DEFINE written == draw_text(set_font(Start, "header"), align, [color |-> "black", mode |-> align, font |-> "header"])
  <2>1. set_font(Start, "header") \in Sound("header")
    BY <1>6, StartIsSound, FontIsSound DEF heading
  <2>2. written \in Sound("header")
    BY <2>1, BlackTextIsSound
  <2>3. Draws(set_font(written, "normal"))
    BY <1>6 DEF heading
  <2> HIDE DEF written
  <2>4. set_font(written, "normal") \in Sound("normal")
    BY <2>2, FontIsSound
  <2> QED
    BY <2>3, <2>4, CallsKeep
<1>7. ASSUME NEW align \in Aligns, NEW cell \in Cells, line(align, cell)
      PROVE  DrawInv'
  <2>1. Start \in Sound("normal") /\ Draws(draw_cell(Start, align, cell, "normal"))
    BY <1>7, StartIsSound DEF line
  <2>2. draw_cell(Start, align, cell, "normal") \in Sound("normal")
    <3>1. cell \in DrawnCells
      BY CellsAreDrawn
    <3> QED
      BY <2>1, <3>1, CellIsSound
  <2> QED
    BY <2>1, <2>2, CallsKeep
<1>8. CASE UNCHANGED drawVars
  BY <1>8 DEF drawVars, DrawInv, reset_state, Sound, Text, Renderers
<1> QED
  BY <1>1, <1>2, <1>3, <1>4, <1>5, <1>6, <1>7, <1>8 DEF DrawNext

\* Each text of a page comes out in its own colour, aligned as its column is and in the face
\* of its row, whatever was drawn before it and whatever the game does between two draws.
THEOREM InkComesOutRight == DrawSpec => []InkIsRight
<1>1. DrawInit => DrawInv
  <2> SUFFICES ASSUME DrawInit PROVE DrawInv
    OBVIOUS
  <2>1. <<>> \in Seq(Text) /\ DOMAIN <<>> = {} /\ reset_state = [reset_state EXCEPT !.font = "normal"]
    BY DEF reset_state
  <2>2. [renderer |-> reset_state, ink |-> <<>>] \in Sound("normal")
    BY <2>1 DEF Sound
  <2> QED
    BY <2>2 DEF DrawInit, DrawInv
<1>2. DrawInv /\ [DrawNext]_drawVars => DrawInv'
  BY DrawKeeps
<1>3. DrawInv => InkIsRight
  BY DEF DrawInv, InkIsRight, Sound
<1> QED
  BY <1>1, <1>2, <1>3, PTL DEF DrawSpec

-----------------------------------------------------------------------------
(* TourOrder: for any number of towns and any distances the tour starts at *)
(* home and never holds a town twice, and the indices stay within it.      *)

\* The mirror image of a stretch of a full tour is a tour of the same towns, each once, and
\* leaves what is before the stretch alone.
LEMMA ReversedIsATour ==
    ASSUME tour \in Seq(Nodes), Len(tour) = N,
           \A s, t \in 1 .. N : tour[s] = tour[t] => s = t,
           NEW p \in 2 .. N, NEW q \in p .. N
    PROVE  /\ Reversed(p, q) \in Seq(Nodes)
           /\ Len(Reversed(p, q)) = N
           /\ Reversed(p, q)[1] = tour[1]
           /\ \A s, t \in 1 .. N : Reversed(p, q)[s] = Reversed(p, q)[t] => s = t
<1> DEFINE from(s) == IF s \in p .. q THEN p + q - s ELSE s
<1>1. \A s \in 1 .. N : from(s) \in 1 .. N /\ Reversed(p, q)[s] = tour[from(s)]
  BY NodesAssumption, SMT DEF Reversed
<1>2. \A s, t \in 1 .. N : from(s) = from(t) => s = t
  BY NodesAssumption, SMT
<1>3. Reversed(p, q) \in [1 .. N -> Nodes]
  <2>1. \A s \in 1 .. N : tour[s] \in Nodes
    BY NodesAssumption
  <2>2. \A s \in 1 .. N : Reversed(p, q)[s] \in Nodes
    BY <1>1, <2>1
  <2> QED
    BY <2>2 DEF Reversed
<1>4. Reversed(p, q) \in Seq(Nodes) /\ Len(Reversed(p, q)) = N
  BY <1>3, NodesAssumption, SMT
<1>5. Reversed(p, q)[1] = tour[1]
  BY NodesAssumption, SMT DEF Reversed
<1>6. \A s, t \in 1 .. N : Reversed(p, q)[s] = Reversed(p, q)[t] => s = t
  BY <1>1, <1>2
<1> QED
  BY <1>4, <1>5, <1>6

\* What Append does to a sequence.
LEMMA Appended ==
    ASSUME NEW S, NEW s \in Seq(S), NEW e \in S
    PROVE  /\ Append(s, e) \in Seq(S)
           /\ Len(Append(s, e)) = Len(s) + 1
           /\ \A j \in 1 .. Len(s) : Append(s, e)[j] = s[j]
           /\ Append(s, e)[Len(s) + 1] = e
  OBVIOUS

-----------------------------------------------------------------------------
IsTour == tour \in Seq(Nodes) /\ Len(tour) \in 1 .. N

Indices == left \in 2 .. N /\ right \in 3 .. N + 1 /\ (left < N => left < right /\ right <= N)

Others ==
    /\ distance \in [Legs -> Lengths]
    /\ stage \in {"greedy", "2-opt", "ordered", "as discovered"}
    /\ improved \in BOOLEAN
    /\ pass \in 1 .. MAX_PASSES

LEMMA TypeParts == TourTypeOK <=> IsTour /\ Indices /\ Others
  BY DEF TourTypeOK, IsTour, Indices, Others

IInv == IsTour /\ Indices /\ Others /\ EveryTownOnce

LEMMA InitIInv == TourInit => IInv
<1> SUFFICES ASSUME TourInit PROVE IInv
  OBVIOUS
<1>1. 1 \in Nodes
  BY NodesAssumption DEF Nodes
<1>2. tour \in Seq(Nodes) /\ Len(tour) = 1 /\ tour[1] = 1
  BY <1>1 DEF TourInit
<1>3. EveryTownOnce
  BY <1>2 DEF TourInit, EveryTownOnce
<1>4. IsTour
  BY <1>2, NodesAssumption DEF IsTour
<1>5. Indices
  BY NodesAssumption DEF TourInit, Indices
<1>6. Others
  <2>1. 1 \in 1 .. MAX_PASSES
    BY PassesAssumption
  <2> QED
    BY <2>1 DEF TourInit, Others
<1> QED
  BY <1>3, <1>4, <1>5, <1>6 DEF IInv

LEMMA NextIInv == IInv /\ [TourNext]_tourVars => IInv'
<1> SUFFICES ASSUME IInv, [TourNext]_tourVars PROVE IInv'
  OBVIOUS
<1> USE NodesAssumption, PassesAssumption
<1>0. IsTour /\ Indices /\ Others /\ EveryTownOnce
  BY DEF IInv
<1>1. CASE KeepDiscoveryOrder
  <2>1. tour' \in Seq(Nodes) /\ Len(tour') = N
    <3>1. tour' = [s \in 1 .. N |-> s]
      BY <1>1 DEF KeepDiscoveryOrder
    <3>2. tour' \in [1 .. N -> Nodes]
      BY <3>1 DEF Nodes
    <3> QED
      BY <3>2
  <2>2. \A s \in 1 .. N : tour'[s] = s
    BY <1>1 DEF KeepDiscoveryOrder
  <2>3. EveryTownOnce'
    BY <2>1, <2>2 DEF EveryTownOnce
  <2>4. IsTour'
    BY <2>1 DEF IsTour
  <2>5. Indices' /\ Others'
    BY <1>0, <1>1 DEF KeepDiscoveryOrder, Indices, Others
  <2> QED
    BY <2>3, <2>4, <2>5 DEF IInv
<1>2. CASE VisitNearest
  <2>1. PICK n \in Nodes : IsNext(n) /\ tour' = Append(tour, n)
    BY <1>2 DEF VisitNearest
  <2>2. \A s \in 1 .. Len(tour) : tour[s] # n
    BY <2>1 DEF IsNext, Unvisited
  <2>3. tour' \in Seq(Nodes) /\ Len(tour') = Len(tour) + 1
    BY <1>0, <2>1, Appended DEF IsTour
  <2>4. \A s \in 1 .. Len(tour) : tour'[s] = tour[s]
    BY <1>0, <2>1, Appended DEF IsTour
  <2>5. tour'[Len(tour) + 1] = n
    BY <1>0, <2>1, Appended DEF IsTour
  <2>6. Len(tour) \in 1 .. N /\ Len(tour) < N /\ stage = "greedy" /\ stage' = stage
    BY <1>0, <1>2 DEF VisitNearest, IsTour
  <2>7. tour[1] = 1 /\ \A s, t \in 1 .. Len(tour) : tour[s] = tour[t] => s = t
    BY <1>0 DEF EveryTownOnce
  <2>8. EveryTownOnce'
    BY <2>2, <2>3, <2>4, <2>5, <2>6, <2>7 DEF EveryTownOnce
  <2>9. IsTour'
    BY <2>3, <2>6 DEF IsTour
  <2>10. Indices' /\ Others'
    BY <1>0, <1>2 DEF VisitNearest, Indices, Others
  <2> QED
    BY <2>8, <2>9, <2>10 DEF IInv
<1>3. CASE StartImproving
  BY <1>0, <1>3 DEF StartImproving, IInv, IsTour, Indices, Others, EveryTownOnce
<1>4. CASE Compare
  <2>1. tour' = Reversed(left, right) \/ tour' = tour
    BY <1>4 DEF Compare
  <2>2. left \in 2 .. N /\ right \in left .. N
    BY <1>0, <1>4 DEF Compare, Indices
  <2>3. tour \in Seq(Nodes) /\ Len(tour) = N /\ tour[1] = 1
    BY <1>0, <1>4 DEF Compare, IsTour, EveryTownOnce
  <2>4. \A s, t \in 1 .. N : tour[s] = tour[t] => s = t
    BY <1>0, <2>3 DEF EveryTownOnce
  <2>5. /\ tour' \in Seq(Nodes) /\ Len(tour') = N /\ tour'[1] = 1
        /\ \A s, t \in 1 .. N : tour'[s] = tour'[t] => s = t
    BY <2>1, <2>2, <2>3, <2>4, ReversedIsATour
  <2>6. IsTour' /\ EveryTownOnce'
    BY <2>5 DEF IsTour, EveryTownOnce
  <2>7. Indices'
    BY <1>0, <1>4 DEF Compare, NextStretch, Indices
  <2>8. improved' \in BOOLEAN
    BY <1>4 DEF Compare, Found, Shorter
  <2>9. Others'
    BY <1>0, <1>4, <2>8 DEF Compare, Others
  <2> QED
    BY <2>6, <2>7, <2>9 DEF IInv
<1>5. CASE EndPass
  <2>1. IsTour' /\ EveryTownOnce'
    BY <1>0, <1>5 DEF EndPass, IsTour, EveryTownOnce
  <2>2. Indices'
    BY <1>0, <1>5 DEF EndPass, Indices
  <2>3. Others'
    <3>1. CASE improved /\ pass < MAX_PASSES
      <4>0. pass \in 1 .. MAX_PASSES /\ pass < MAX_PASSES
        BY <1>0, <3>1 DEF Others
      <4>1. pass + 1 \in 1 .. MAX_PASSES
        BY <4>0
      <4> QED
        BY <1>0, <1>5, <3>1, <4>1 DEF EndPass, Others
    <3>2. CASE ~(improved /\ pass < MAX_PASSES)
      BY <1>0, <1>5, <3>2 DEF EndPass, Others
    <3> QED
      BY <3>1, <3>2
  <2> QED
    BY <2>1, <2>2, <2>3 DEF IInv
<1>6. CASE Return \/ UNCHANGED tourVars
  BY <1>0, <1>6 DEF Return, tourVars, IInv, IsTour, Indices, Others, EveryTownOnce
<1> QED
  BY <1>1, <1>2, <1>3, <1>4, <1>5, <1>6 DEF TourNext

LEMMA IInvHolds == TourSpec => []IInv
  BY InitIInv, NextIInv, PTL DEF TourSpec

\* The stretches compared and the stops read are inside the tour, for any number of towns.
THEOREM TourTypeCorrect == TourSpec => []TourTypeOK
  BY IInvHolds, TypeParts, PTL DEF IInv

\* Whatever the distances are, no reversal loses a town, doubles one or moves home.
THEOREM NoTownIsLost == TourSpec => []EveryTownOnce
  BY IInvHolds, PTL DEF IInv

-----------------------------------------------------------------------------
(* TourOrder: mirroring a stretch of a tour changes its length by the two  *)
(* legs at the stretch's ends, so a pass that reversed nothing found no    *)
(* reversal that would shorten the tour.                                   *)

\* The node a tour goes to from its s-th.
NextNode(t, s) == IF s = N THEN t[1] ELSE t[s + 1]

\* up sums the legs of a tour one by one.
LegsSum(up, t) ==
    /\ up \in [0 .. N -> Nat] /\ up[0] = 0
    /\ \A s \in 1 .. N : up[s] = up[s - 1] + leg(t[s], NextNode(t, s))

\* A leg is as long as the way back.
LEMMA LegsAreSymmetric ==
    ASSUME distance \in [Legs -> Lengths], NEW a \in Nodes, NEW b \in Nodes
    PROVE  leg(a, b) \in Nat /\ leg(a, b) = leg(b, a)
<1> USE NodesAssumption, LengthsAssumption
<1>1. a < b => <<a, b>> \in Legs /\ ~(b < a)
  BY DEF Legs, Nodes
<1>2. b < a => <<b, a>> \in Legs /\ ~(a < b)
  BY DEF Legs, Nodes
<1>3. \A l \in Legs : distance[l] \in Nat
  OBVIOUS
<1>4. a < b \/ b < a \/ a = b
  BY DEF Nodes
<1> QED
  BY <1>1, <1>2, <1>3, <1>4 DEF leg

\* The length of a tour is the sum of its legs.
LEMMA LengthIsASum ==
    ASSUME distance \in [Legs -> Lengths], NEW t \in [1 .. N -> Nodes]
    PROVE  \E up : LegsSum(up, t) /\ TourLength(t) = up[N]
<1> USE NodesAssumption
<1> DEFINE c(s) == leg(t[s], IF s = N THEN t[1] ELSE t[s + 1])
           upTo == CHOOSE f : f = [s \in 0 .. N |-> IF s = 0 THEN 0 ELSE f[s - 1] + c(s)]
           step == [p \in (1 .. N) \X Nat |-> p[2] + c(p[1])]
<1>1. \A s \in 1 .. N : c(s) \in Nat /\ c(s) = leg(t[s], NextNode(t, s))
  <2> SUFFICES ASSUME NEW s \in 1 .. N PROVE c(s) \in Nat /\ c(s) = leg(t[s], NextNode(t, s))
    OBVIOUS
  <2>1. t[s] \in Nodes /\ NextNode(t, s) \in Nodes /\ c(s) = leg(t[s], NextNode(t, s))
    BY DEF NextNode
  <2> HIDE DEF c
  <2> QED
    BY <2>1, LegsAreSymmetric
<1>2. TourLength(t) = upTo[N]
  BY DEF TourLength
<1> HIDE DEF c
<1>3. step \in [(1 .. N) \X Nat -> Nat]
  BY <1>1
<1>4. PICK f : HandsOn(f, Nat, 0, N, step)
  <2> HIDE DEF step
  <2> QED
    BY <1>3, Recursion
<1>5. f \in [0 .. N -> Nat] /\ f[0] = 0 /\ \A s \in 1 .. N : f[s] = f[s - 1] + c(s)
  <2>1. f \in [0 .. N -> Nat] /\ f[0] = 0 /\ \A s \in 1 .. N : f[s] = step[<<s, f[s - 1]>>]
    BY <1>4 DEF HandsOn
  <2>2. ASSUME NEW s \in 1 .. N PROVE f[s] = f[s - 1] + c(s)
    <3>1. s - 1 \in 0 .. N
      OBVIOUS
    <3> QED
      BY <2>1, <3>1
  <2> QED
    BY <2>1, <2>2
<1>6. f = [s \in 0 .. N |-> IF s = 0 THEN 0 ELSE f[s - 1] + c(s)]
  BY <1>5
<1>7. upTo = [s \in 0 .. N |-> IF s = 0 THEN 0 ELSE upTo[s - 1] + c(s)]
  BY <1>6
<1> HIDE DEF upTo
<1>8. \A n \in 0 .. N : n \in {m \in 0 .. N : upTo[m] = f[m]}
  <2> DEFINE T == {m \in 0 .. N : upTo[m] = f[m]}
  <2>1. 0 \in T
    BY <1>7, <1>5
  <2>2. ASSUME NEW n \in 0 .. N - 1, n \in T PROVE n + 1 \in T
    <3> DEFINE m == n + 1
    <3>1. m \in 1 .. N /\ m \in 0 .. N /\ m # 0 /\ m - 1 = n
      OBVIOUS
    <3> HIDE DEF m
    <3>2. upTo[m] = upTo[n] + c(m) /\ f[m] = f[n] + c(m)
      BY <3>1, <1>7, <1>5
    <3>3. m \in T
      BY <3>1, <3>2, <2>2
    <3> QED
      BY <3>3 DEF m
  <2> HIDE DEF T
  <2>3. \A n \in 0 .. N : n \in T
    BY <2>1, <2>2, IntervalInduction
  <2> QED
    BY <2>3 DEF T
<1>9. LegsSum(f, t)
  BY <1>1, <1>5 DEF LegsSum
<1>10. upTo[N] = f[N]
  BY <1>8
<1> QED
  BY <1>2, <1>9, <1>10

\* Reversing a stretch changes the length by its two outer legs and no other.
LEMMA MirroredLength ==
    ASSUME distance \in [Legs -> Lengths], tour \in [1 .. N -> Nodes],
           NEW p \in 2 .. N - 1, NEW q \in p + 1 .. N
    PROVE  /\ TourLength(Reversed(p, q)) \in Nat /\ TourLength(tour) \in Nat
           /\ TourLength(Reversed(p, q)) + leg(tour[p - 1], tour[p]) + leg(tour[q], Successor(q)) =
              TourLength(tour) + leg(tour[p - 1], tour[q]) + leg(tour[p], Successor(q))
<1> USE NodesAssumption
<1> DEFINE m == Reversed(p, q)
           d(s) == leg(tour[s], NextNode(tour, s))
           e(s) == leg(m[s], NextNode(m, s))
<1>0. p \in Nat /\ q \in Nat /\ 2 <= p /\ p < q /\ q <= N
  OBVIOUS
<1>1. m \in [1 .. N -> Nodes] /\ \A s \in 1 .. N : m[s] = IF s \in p .. q THEN tour[p + q - s] ELSE tour[s]
  BY DEF Reversed
<1> HIDE DEF m
<1>2. PICK u : LegsSum(u, tour) /\ TourLength(tour) = u[N]
  BY LengthIsASum
<1>3. PICK v : LegsSum(v, m) /\ TourLength(m) = v[N]
  BY LengthIsASum, <1>1
<1>4. /\ u \in [0 .. N -> Nat] /\ u[0] = 0 /\ v \in [0 .. N -> Nat] /\ v[0] = 0
      /\ \A s \in 1 .. N : u[s] = u[s - 1] + d(s) /\ v[s] = v[s - 1] + e(s)
  BY <1>2, <1>3 DEF LegsSum
<1>5. \A s \in 1 .. N : d(s) \in Nat
  <2> SUFFICES ASSUME NEW s \in 1 .. N PROVE d(s) \in Nat
    OBVIOUS
  <2>1. tour[s] \in Nodes /\ NextNode(tour, s) \in Nodes
    BY DEF NextNode
  <2> QED
    BY <2>1, LegsAreSymmetric
<1>6. \A s \in 1 .. N : s < p - 1 \/ s > q => e(s) = d(s)
  <2> SUFFICES ASSUME NEW s \in 1 .. N, s < p - 1 \/ s > q PROVE m[s] = tour[s] /\ NextNode(m, s) = NextNode(tour, s)
    OBVIOUS
  <2>1. m[s] = tour[s] /\ m[1] = tour[1]
    BY <1>0, <1>1
  <2>2. s # N => m[s + 1] = tour[s + 1]
    BY <1>0, <1>1
  <2> QED
    BY <2>1, <2>2 DEF NextNode
<1>7. e(p - 1) = leg(tour[p - 1], tour[q]) /\ d(p - 1) = leg(tour[p - 1], tour[p])
  <2>1. p - 1 \in 1 .. N /\ p - 1 # N /\ (p - 1) + 1 = p /\ p - 1 \notin p .. q /\ p + q - p = q /\ p \in p .. q /\ p \in 1 .. N
    BY <1>0
  <2>2. m[p - 1] = tour[p - 1] /\ m[p] = tour[q]
    BY <1>1, <2>1
  <2> QED
    BY <2>1, <2>2 DEF NextNode
<1>8. e(q) = leg(tour[p], Successor(q)) /\ d(q) = leg(tour[q], Successor(q))
  <2>1. m[q] = tour[p] /\ m[1] = tour[1]
    BY <1>0, <1>1
  <2>2. q # N => m[q + 1] = tour[q + 1]
    BY <1>0, <1>1
  <2> QED
    BY <2>1, <2>2 DEF NextNode, Successor
<1>9. ASSUME NEW s \in p .. q - 1 PROVE e(s) = d(p + q - s - 1) /\ p + q - s - 1 \in 1 .. N
  <2> DEFINE r == p + q - s - 1
  <2>1. r \in 1 .. N /\ r # N /\ r + 1 \in 1 .. N /\ s \in p .. q /\ s + 1 \in p .. q /\ s # N /\ s \in 1 .. N /\ s + 1 \in 1 .. N
        /\ p + q - s = r + 1 /\ p + q - (s + 1) = r
    BY <1>0
  <2> HIDE DEF r
  <2>2. m[s] = tour[r + 1] /\ m[s + 1] = tour[r]
    BY <1>1, <2>1
  <2>3. e(s) = leg(tour[r + 1], tour[r]) /\ d(r) = leg(tour[r], tour[r + 1])
    BY <2>1, <2>2 DEF NextNode
  <2>4. tour[r] \in Nodes /\ tour[r + 1] \in Nodes
    BY <2>1
  <2>5. e(s) = d(r)
    BY <2>3, <2>4, LegsAreSymmetric
  <2> QED
    BY <2>1, <2>5 DEF r
<1> HIDE DEF d, e
<1>10. v[p - 2] = u[p - 2]
  <2> DEFINE T == {s \in Nat : v[s] = u[s]}
  <2>1. 0 \in T
    BY <1>4
  <2>2. ASSUME NEW n \in 0 .. p - 2 - 1, n \in T PROVE n + 1 \in T
    <3> DEFINE s == n + 1
    <3>1. s \in 1 .. N /\ s - 1 = n /\ s < p - 1 /\ s \in Nat
      BY <1>0
    <3> HIDE DEF s
    <3>2. v[s] = u[s]
      BY <1>4, <1>6, <2>2, <3>1
    <3> QED
      BY <3>1, <3>2 DEF s
  <2> HIDE DEF T
  <2> DEFINE b == p - 2
  <2>3. b \in Nat /\ 0 \in Nat /\ b \in 0 .. b /\ \A n \in 0 .. b - 1 : n \in T => n + 1 \in T
    BY <1>0, <2>2
  <2> HIDE DEF b
  <2>4. \A n \in 0 .. b : n \in T
    BY <2>1, <2>3, IntervalInduction
  <2> QED
    BY <2>3, <2>4 DEF T, b
<1>11. v[q - 1] + u[p - 1] = v[p - 1] + u[q - 1]
  <2> DEFINE T == {s \in Nat : v[s] + u[p + q - s - 2] = v[p - 1] + u[q - 1]}
  <2>1. p - 1 \in T
    <3>1. p - 1 \in Nat /\ p + q - (p - 1) - 2 = q - 1
      BY <1>0
    <3> QED
      BY <3>1
  <2>2. ASSUME NEW n \in p - 1 .. q - 1 - 1, n \in T PROVE n + 1 \in T
    <3> DEFINE s == n + 1
               r == p + q - s - 1
    <3>1. /\ s \in p .. q - 1 /\ s \in 1 .. N /\ s - 1 = n /\ s \in Nat /\ n \in 0 .. N
          /\ r \in 1 .. N /\ r - 1 \in 0 .. N /\ p + q - n - 2 = r /\ p + q - s - 2 = r - 1
      BY <1>0
    <3>2. e(s) = d(r)
      BY <1>9, <3>1
    <3> HIDE DEF s, r
    <3>3. v[n] + u[r] = v[p - 1] + u[q - 1]
      BY <2>2, <3>1
    <3>4. v[s] = v[n] + d(r) /\ u[r] = u[r - 1] + d(r)
      BY <1>4, <3>1, <3>2
    <3>5. v[n] \in Nat /\ u[r - 1] \in Nat /\ d(r) \in Nat
      BY <1>4, <1>5, <3>1
    <3>6. v[s] + u[r - 1] = v[p - 1] + u[q - 1]
      BY <3>3, <3>4, <3>5
    <3> QED
      BY <3>1, <3>6 DEF s
  <2> HIDE DEF T
  <2>3. p - 1 \in Nat /\ q - 1 \in Nat /\ q - 1 \in p - 1 .. q - 1
    BY <1>0
  <2>4. \A n \in p - 1 .. q - 1 : n \in T
    BY <2>1, <2>2, <2>3, IntervalInduction
  <2>5. q - 1 \in T /\ p + q - (q - 1) - 2 = p - 1
    BY <2>3, <2>4, <1>0
  <2> QED
    BY <2>5 DEF T
<1>12. v[N] + u[q] = u[N] + v[q]
  <2> DEFINE T == {s \in Nat : v[s] + u[q] = u[s] + v[q]}
  <2>0. v[q] \in Nat /\ u[q] \in Nat
    BY <1>4, <1>0
  <2>1. q \in T
    BY <2>0
  <2>2. ASSUME NEW n \in q .. N - 1, n \in T PROVE n + 1 \in T
    <3> DEFINE s == n + 1
    <3>1. s \in 1 .. N /\ s - 1 = n /\ s > q /\ s \in Nat /\ n \in 0 .. N
      BY <1>0
    <3> HIDE DEF s
    <3>2. v[s] = v[n] + d(s) /\ u[s] = u[n] + d(s)
      BY <1>4, <1>6, <3>1
    <3>3. v[n] \in Nat /\ u[n] \in Nat /\ d(s) \in Nat
      BY <1>4, <1>5, <3>1
    <3>4. v[n] + u[q] = u[n] + v[q]
      BY <2>2
    <3>5. v[s] + u[q] = u[s] + v[q]
      <4> DEFINE a == v[n]
                 b == u[q]
                 c == u[n]
                 x == v[q]
                 y == d(s)
      <4>1. a \in Nat /\ b \in Nat /\ c \in Nat /\ x \in Nat /\ y \in Nat /\ a + b = c + x
        BY <2>0, <3>3, <3>4
      <4>2. v[s] = a + y /\ u[s] = c + y
        BY <3>2
      <4> HIDE DEF a, c, y
      <4> SUFFICES (a + y) + b = (c + y) + x
        BY <4>2
      <4> HIDE DEF b, x
      <4> QED
        BY <4>1
    <3> QED
      BY <3>1, <3>5 DEF s
  <2> HIDE DEF T
  <2>3. \A n \in q .. N : n \in T
    BY <2>1, <2>2, <1>0, IntervalInduction
  <2>4. N \in T
    BY <2>3, <1>0
  <2> QED
    BY <2>4 DEF T
<1>13. /\ p - 1 \in 1 .. N /\ q \in 1 .. N /\ p - 2 \in 0 .. N /\ q - 1 \in 0 .. N /\ N \in 0 .. N
       /\ (p - 1) - 1 = p - 2
  BY <1>0
<1>14. /\ v[p - 1] = v[p - 2] + e(p - 1) /\ u[p - 1] = u[p - 2] + d(p - 1)
       /\ v[q] = v[q - 1] + e(q) /\ u[q] = u[q - 1] + d(q)
  BY <1>4, <1>13
<1>15. /\ u[p - 2] \in Nat /\ u[q - 1] \in Nat /\ v[q - 1] \in Nat /\ u[N] \in Nat /\ v[N] \in Nat
       /\ d(p - 1) \in Nat /\ d(q) \in Nat
  BY <1>4, <1>5, <1>13
<1>16. e(p - 1) \in Nat /\ e(q) \in Nat
  <2>1. tour[p - 1] \in Nodes /\ tour[q] \in Nodes /\ tour[p] \in Nodes /\ Successor(q) \in Nodes
    BY <1>13, <1>0 DEF Successor
  <2> QED
    BY <2>1, <1>7, <1>8, LegsAreSymmetric
<1>17. v[N] + d(p - 1) + d(q) = u[N] + e(p - 1) + e(q)
  <2>1. /\ v[q - 1] + (u[p - 2] + d(p - 1)) = (u[p - 2] + e(p - 1)) + u[q - 1]
        /\ v[N] + (u[q - 1] + d(q)) = u[N] + (v[q - 1] + e(q))
    BY <1>10, <1>11, <1>12, <1>14
  <2> DEFINE a == u[p - 2]
             b == u[q - 1]
             c == v[q - 1]
             w == v[N]
             x == u[N]
             d1 == d(p - 1)
             d2 == d(q)
             e1 == e(p - 1)
             e2 == e(q)
  <2>2. /\ a \in Nat /\ b \in Nat /\ c \in Nat /\ w \in Nat /\ x \in Nat
        /\ d1 \in Nat /\ d2 \in Nat /\ e1 \in Nat /\ e2 \in Nat
    BY <1>15, <1>16
  <2>3. c + (a + d1) = (a + e1) + b /\ w + (b + d2) = x + (c + e2)
    BY <2>1
  <2> HIDE DEF a, b, c, w, x, d1, d2, e1, e2
  <2>4. w + d1 + d2 = x + e1 + e2
    BY <2>2, <2>3
  <2> QED
    BY <2>4 DEF w, x, d1, d2, e1, e2
<1> QED
  BY <1>2, <1>3, <1>7, <1>8, <1>15, <1>17 DEF m

\* The stretches a pass compares.
Stretch(p, q) == p \in 2 .. N - 1 /\ q \in p + 1 .. N

\* A pass without a reversal has compared every stretch before the next one, and on the very
\* tour that there is now.
ComparedSoFar ==
    stage \in {"2-opt", "ordered"} /\ ~improved =>
        \A p, q : Stretch(p, q) /\ (p < left \/ (p = left /\ q < right)) => ~Shorter(p, q)

\* The improving goes once through every stretch and stops after a pass without a reversal,
\* or at the cap.
PassesEnd ==
    /\ stage = "greedy" => left = 2 /\ right = 3 /\ ~improved
    /\ stage = "ordered" => left = N /\ (improved => pass = MAX_PASSES)

\* What the theorem rests on.
OptimalInv == ComparedSoFar /\ PassesEnd

\* A comparison without a reversal adds its stretch; a reversal makes the pass an improved one.
LEMMA OptimalStep ==
    ASSUME IInv, OptimalInv, [TourNext]_tourVars
    PROVE  OptimalInv'
<1> USE NodesAssumption, PassesAssumption
<1>0. IsTour /\ Indices /\ Others /\ ComparedSoFar /\ PassesEnd
  BY DEF IInv, OptimalInv
<1>1. CASE KeepDiscoveryOrder
  BY <1>1, <1>0 DEF KeepDiscoveryOrder, OptimalInv, ComparedSoFar, PassesEnd
<1>2. CASE VisitNearest
  BY <1>2, <1>0 DEF VisitNearest, OptimalInv, ComparedSoFar, PassesEnd
<1>3. CASE StartImproving
  <2>1. left' = 2 /\ right' = 3 /\ stage' = "2-opt"
    BY <1>3, <1>0 DEF StartImproving, PassesEnd
  <2>2. \A p, q : ~(Stretch(p, q) /\ (p < 2 \/ (p = 2 /\ q < 3)))
    BY DEF Stretch
  <2>3. ComparedSoFar'
    BY <2>1, <2>2 DEF ComparedSoFar, Stretch
  <2> QED
    BY <2>1, <2>3 DEF OptimalInv, PassesEnd
<1>4. CASE Compare
  <2>1. stage = "2-opt" /\ stage' = "2-opt" /\ left < N /\ left \in 2 .. N /\ right \in 3 .. N + 1 /\ left < right /\ right <= N
    BY <1>4, <1>0 DEF Compare, Indices
  <2>2. ASSUME ~improved' PROVE ~improved /\ ~Shorter(left, right) /\ tour' = tour /\ distance' = distance
    BY <1>4, <2>2 DEF Compare, Found
  <2>3. ASSUME NEW p, NEW q, Stretch(p, q), p < left' \/ (p = left' /\ q < right')
        PROVE  p < left \/ (p = left /\ q < right) \/ (p = left /\ q = right)
    <3>1. left' = NextStretch(left, right)[1] /\ right' = NextStretch(left, right)[2]
      BY <1>4 DEF Compare
    <3>2. CASE right = N
      <4>1. left' = left + 1 /\ right' = left + 2
        BY <3>1, <3>2 DEF NextStretch
      <4> QED
        BY <4>1, <3>2, <2>1, <2>3 DEF Stretch
    <3>3. CASE right # N
      <4>1. left' = left /\ right' = right + 1
        BY <3>1, <3>3 DEF NextStretch
      <4> QED
        BY <4>1, <3>3, <2>1, <2>3 DEF Stretch
    <3> QED
      BY <3>2, <3>3
  <2>4. ASSUME ~improved', NEW p, NEW q, Stretch(p, q), p < left' \/ (p = left' /\ q < right')
        PROVE  ~Shorter(p, q)'
    <3>1. ~Shorter(p, q)
      BY <2>1, <2>2, <2>3, <2>4, <1>0 DEF ComparedSoFar
    <3> QED
      BY <3>1, <2>2, <2>4 DEF Shorter, leg, Successor
  <2>5. ComparedSoFar'
    BY <2>4 DEF ComparedSoFar, Stretch
  <2> QED
    BY <2>1, <2>5 DEF OptimalInv, PassesEnd
<1>5. CASE EndPass
  <2>1. stage = "2-opt" /\ left = N /\ tour' = tour /\ distance' = distance
    BY <1>5 DEF EndPass
  <2>2. CASE improved /\ pass < MAX_PASSES
    <3>1. left' = 2 /\ right' = 3 /\ stage' = "2-opt"
      BY <1>5, <2>1, <2>2 DEF EndPass
    <3>2. \A p, q : ~(Stretch(p, q) /\ (p < 2 \/ (p = 2 /\ q < 3)))
      BY DEF Stretch
    <3>3. ComparedSoFar'
      BY <3>1, <3>2 DEF ComparedSoFar, Stretch
    <3> QED
      BY <3>1, <3>3 DEF OptimalInv, PassesEnd
  <2>3. CASE ~(improved /\ pass < MAX_PASSES)
    <3>1. stage' = "ordered" /\ left' = left /\ right' = right /\ improved' = improved /\ pass' = pass
      BY <1>5, <2>3 DEF EndPass
    <3>2. improved => pass = MAX_PASSES
      <4>1. pass \in 1 .. MAX_PASSES
        BY <1>0 DEF Others
      <4>2. improved => ~(pass < MAX_PASSES)
        BY <2>3
      <4> QED
        BY <4>1, <4>2
    <3>3. ComparedSoFar'
      <4>1. \A p, q : Shorter(p, q)' <=> Shorter(p, q)
        BY <2>1 DEF Shorter, leg, Successor
      <4>2. stage \in {"2-opt", "ordered"}
        BY <2>1
      <4> QED
        BY <1>0, <3>1, <4>1, <4>2 DEF ComparedSoFar, Stretch
    <3> QED
      BY <2>1, <3>1, <3>2, <3>3 DEF OptimalInv, PassesEnd
  <2> QED
    BY <2>2, <2>3
<1>6. CASE Return \/ UNCHANGED tourVars
  <2>1. UNCHANGED tourVars
    BY <1>6 DEF Return
  <2>2. \A p, q : Shorter(p, q)' <=> Shorter(p, q)
    BY <2>1 DEF tourVars, Shorter, leg, Successor
  <2>3. ComparedSoFar'
    BY <1>0, <2>1, <2>2 DEF tourVars, ComparedSoFar, Stretch
  <2>4. PassesEnd'
    BY <1>0, <2>1 DEF tourVars, PassesEnd
  <2> QED
    BY <2>3, <2>4 DEF OptimalInv
<1> QED
  BY <1>1, <1>2, <1>3, <1>4, <1>5, <1>6 DEF TourNext

\* Whatever the distances are, unless the last pass that is allowed still shortened the tour,
\* the one returned is not made shorter by the reversal of any stretch
\* (order_towns_by_distance).
THEOREM OptimalUnlessCapped == TourSpec => [](~(improved /\ pass = MAX_PASSES) => OrderedIsOptimal)
<1> USE NodesAssumption, PassesAssumption
<1>1. TourInit => OptimalInv
  BY DEF TourInit, OptimalInv, ComparedSoFar, PassesEnd, Stretch
<1>2. IInv /\ OptimalInv => (~(improved /\ pass = MAX_PASSES) => OrderedIsOptimal)
  <2> SUFFICES ASSUME IInv, OptimalInv, ~(improved /\ pass = MAX_PASSES), stage = "ordered" PROVE OrderedIsOptimal
    BY DEF OrderedIsOptimal
  <2>0. pass \in 1 .. MAX_PASSES /\ left = N /\ ~improved
    BY DEF IInv, Others, OptimalInv, PassesEnd
  <2>1. distance \in [Legs -> Lengths] /\ tour \in [1 .. N -> Nodes]
    BY DEF IInv, Others, IsTour, EveryTownOnce
  <2>2. ASSUME NEW p \in 2 .. N - 1, NEW q \in p + 1 .. N
        PROVE  TourLength(tour) <= TourLength(Reversed(p, q))
    <3>1. ~Shorter(p, q)
      BY <2>0 DEF OptimalInv, ComparedSoFar, Stretch
    <3> DEFINE a == leg(tour[p - 1], tour[q])
               b == leg(tour[p], Successor(q))
               c == leg(tour[p - 1], tour[p])
               d == leg(tour[q], Successor(q))
               x == TourLength(tour)
               y == TourLength(Reversed(p, q))
    <3>2. y \in Nat /\ x \in Nat /\ y + c + d = x + a + b
      BY <2>1, MirroredLength
    <3>3. a \in Nat /\ b \in Nat /\ c \in Nat /\ d \in Nat
      <4>1. tour[p - 1] \in Nodes /\ tour[q] \in Nodes /\ tour[p] \in Nodes /\ Successor(q) \in Nodes
        BY <2>1 DEF Successor
      <4> QED
        BY <2>1, <4>1, LegsAreSymmetric
    <3>4. ~(a + b < c + d)
      BY <3>1 DEF Shorter
    <3> HIDE DEF a, b, c, d, x, y
    <3>5. x <= y
      BY <3>2, <3>3, <3>4
    <3> QED
      BY <3>5 DEF x, y
  <2> QED
    BY <2>0, <2>2 DEF OrderedIsOptimal, Reversed
<1> QED
  BY <1>1, <1>2, IInvHolds, OptimalStep, PTL DEF TourSpec

-----------------------------------------------------------------------------
(* CrashReporter: for any number of threads and exceptions, one thread at  *)
(* a time writes a report, every mark is about the report it names, and    *)
(* what takes the process down is on file unless the routine was occupied  *)
(* or the file shut.                                                       *)

Stages == {"entered", "inside", "marking", "writing", "leaving"}
Staged == [at : Stages, chance : Chances]
Places == {Running, Searching, Crashed} \cup Staged
Raised == Faults \cup {NoFault}
Entries == [mark : BOOLEAN, index : Nat, fault : Raised, unhandled : BOOLEAN]

ReportTypes ==
    /\ pc \in [Threads -> Places]
    /\ fault \in [Threads -> Raised]
    /\ IN_HANDLER \in BOOLEAN
    /\ REPORT_COUNT \in Nat
    /\ log \in Seq(Entries)

\* Whoever is in the routine is alone there, and the flag says so.
Alone ==
    /\ \A t \in Threads : InRoutine(t) => IN_HANDLER
    /\ \A s, t \in Threads : InRoutine(s) /\ InRoutine(t) => s = t

\* The report written last is the one numbered last.
LastReport ==
    \/ LAST = NoReport /\ REPORT_COUNT = 0
    \/ LAST \in [index : Nat, fault : Raised] /\ REPORT_COUNT = LAST.index + 1

\* Who writes or marks does so about the report decided on.
Decided ==
    \A t \in Threads : pc[t].at \in {"marking", "writing"} =>
        REPORT_COUNT # 0 /\ LAST.fault = fault[t]

\* The file holds nothing newer than the last report, and of that number only its fault.
FileIsOlder ==
    \A i \in DOMAIN log :
        /\ REPORT_COUNT # 0
        /\ log[i].index <= LAST.index
        /\ log[i].index = LAST.index => log[i].fault = LAST.fault

\* What leaves the filter is on file or accounted for, and so is what the process dies of.
LeavesTold ==
    \A t \in Threads :
        pc[t].at = "leaving" /\ pc[t].chance = "unhandled" => Told(t) \/ t \in silent

DiesTold ==
    \A t \in Threads :
        pc[t].at = "crashed" /\ fault[t] \in fatal => Told(t) \/ t \in silent

ReportInv ==
    /\ ReportTypes /\ Alone /\ LastReport /\ Decided /\ FileIsOlder /\ MarksNameTheirReport
    /\ LeavesTold /\ DiesTold

-----------------------------------------------------------------------------
\* The places a thread can be in, by their fields.
LEMMA PlaceFields ==
    /\ Running \in Places /\ Running.at = "running"
    /\ Searching \in Places /\ Searching.at = "searching"
    /\ Crashed \in Places /\ Crashed.at = "crashed"
    /\ \A c \in Chances :
          /\ Entered(c) \in Places /\ Entered(c).at = "entered" /\ Entered(c).chance = c
          /\ Inside(c) \in Places /\ Inside(c).at = "inside" /\ Inside(c).chance = c
  BY DEF Places, Running, Searching, Crashed, Entered, Inside, Staged, Stages, Chances

LEMMA StagedPlaces ==
    \A p \in Places : p.at \in Stages => p \in Staged
  BY DEF Places, Running, Searching, Crashed, Stages

LEMMA Staging ==
    ASSUME NEW p \in Places, p.at \in Stages, NEW a \in Stages
    PROVE  /\ [p EXCEPT !.at = a] \in Places
           /\ [p EXCEPT !.at = a].at = a
           /\ [p EXCEPT !.at = a].chance = p.chance
<1>1. p \in Staged
  BY StagedPlaces
<1>2. [p EXCEPT !.at = a] \in Staged /\ [p EXCEPT !.at = a].at = a /\ [p EXCEPT !.at = a].chance = p.chance
  BY <1>1 DEF Staged
<1> QED
  BY <1>2 DEF Places

LEMMA CrashedAlone == \A p \in Places : p.at = "crashed" <=> p = Crashed
  BY DEF Places, Running, Searching, Crashed, Staged, Stages

-----------------------------------------------------------------------------
\* A step of one thread, as its place changes: where it goes, and nobody else moves.
Goes(t, a) ==
    /\ pc' \in [Threads -> Places]
    /\ pc'[t].at = a
    /\ \A s \in Threads \ {t} : pc'[s] = pc[s]

LEMMA GoesTo ==
    ASSUME ReportTypes, NEW t \in Threads, NEW p \in Places, pc' = [pc EXCEPT ![t] = p]
    PROVE  Goes(t, p.at) /\ pc'[t] = p
  BY DEF ReportTypes, Goes

LEMMA StageTo ==
    ASSUME ReportTypes, NEW t \in Threads, pc[t].at \in Stages, NEW a \in Stages,
           pc' = [pc EXCEPT ![t].at = a]
    PROVE  Goes(t, a) /\ pc'[t].chance = pc[t].chance
<1> DEFINE p == [pc[t] EXCEPT !.at = a]
<1>1. pc[t] \in Places
  BY DEF ReportTypes
<1>2. p \in Places /\ p.at = a /\ p.chance = pc[t].chance
  BY <1>1, Staging
<1>3. pc' = [pc EXCEPT ![t] = p]
  OBVIOUS
<1> HIDE DEF p
<1>4. Goes(t, p.at) /\ pc'[t] = p
  BY <1>2, <1>3, GoesTo
<1> QED
  BY <1>2, <1>4

-----------------------------------------------------------------------------
(* What a step does to the places, action by action.                       *)

\* The step keeps the reports as they are.
Quiet == UNCHANGED <<IN_HANDLER, LAST, REPORT_COUNT, log>>

LEMMA RaiseStep ==
    ASSUME ReportTypes, NEW t \in Threads, NEW f \in Faults, Raise(t, f) \/ NestedFault(t, f)
    PROVE  /\ pc[t].at \in {"running", "writing"} /\ Goes(t, "entered") /\ Quiet
           /\ fault' = [fault EXCEPT ![t] = f]
           /\ silent' \in {silent, silent \ {t}}
  BY GoesTo, PlaceFields DEF Raise, NestedFault, Quiet, Chances

LEMMA SkipStep ==
    ASSUME ReportTypes, NEW t \in Threads, Skip(t)
    PROVE  /\ pc[t].at = "entered" /\ Quiet /\ UNCHANGED <<fault, silent>>
           /\ \/ Goes(t, "searching")
              \/ Goes(t, "crashed") /\ fault[t] \notin fatal
<1>1. pc[t] \in Staged
  BY StagedPlaces DEF Skip, ReportTypes, Stages
<1>2. CASE pc[t].chance = "first chance"
  <2>1. pc' = [pc EXCEPT ![t] = Searching]
    BY <1>2 DEF Skip, After
  <2>2. Goes(t, Searching.at)
    BY <2>1, GoesTo, PlaceFields
  <2>3. Goes(t, "searching")
    BY <2>2, PlaceFields
  <2> QED
    BY <1>2, <2>3 DEF Skip, Quiet
<1>3. CASE pc[t].chance = "unhandled"
  <2>1. pc' = [pc EXCEPT ![t] = Crashed]
    BY <1>3 DEF Skip, After
  <2>2. Goes(t, Crashed.at)
    BY <2>1, GoesTo, PlaceFields
  <2>3. Goes(t, "crashed")
    BY <2>2, PlaceFields
  <2> QED
    BY <1>3, <2>3 DEF Skip, Quiet, skips
<1> QED
  BY <1>1, <1>2, <1>3 DEF Staged, Chances

LEMMA BailStep ==
    ASSUME ReportTypes, NEW t \in Threads, Bail(t)
    PROVE  /\ pc[t].at = "entered" /\ Quiet /\ UNCHANGED fault
           /\ silent' = silent \cup {t}
           /\ Goes(t, "searching") \/ Goes(t, "crashed")
<1>1. pc[t] \in Staged
  BY StagedPlaces DEF Bail, ReportTypes, Stages
<1>2. CASE pc[t].chance = "first chance"
  <2>1. pc' = [pc EXCEPT ![t] = Searching]
    BY <1>2 DEF Bail, After
  <2>2. Goes(t, Searching.at)
    BY <2>1, GoesTo, PlaceFields
  <2>3. Goes(t, "searching")
    BY <2>2, PlaceFields
  <2> QED
    BY <1>2, <2>3 DEF Bail, Quiet
<1>3. CASE pc[t].chance = "unhandled"
  <2>1. pc' = [pc EXCEPT ![t] = Crashed]
    BY <1>3 DEF Bail, After
  <2>2. Goes(t, Crashed.at)
    BY <2>1, GoesTo, PlaceFields
  <2>3. Goes(t, "crashed")
    BY <2>2, PlaceFields
  <2> QED
    BY <1>3, <2>3 DEF Bail, Quiet
<1> QED
  BY <1>1, <1>2, <1>3 DEF Staged, Chances

LEMMA EnterStep ==
    ASSUME ReportTypes, NEW t \in Threads, Enter(t)
    PROVE  /\ pc[t].at = "entered" /\ Goes(t, "inside")
           /\ IN_HANDLER = FALSE /\ IN_HANDLER' = TRUE
           /\ UNCHANGED <<LAST, REPORT_COUNT, log, fault, silent>>
<1>1. pc[t] \in Staged
  BY StagedPlaces DEF Enter, ReportTypes, Stages
<1>2. pc[t].chance \in Chances
  BY <1>1 DEF Staged
<1>3. pc' = [pc EXCEPT ![t] = Inside(pc[t].chance)]
  BY DEF Enter
<1>4. Goes(t, "inside")
  BY <1>2, <1>3, GoesTo, PlaceFields
<1> QED
  BY <1>4 DEF Enter, ReportTypes

LEMMA DecideStep ==
    ASSUME ReportTypes, NEW t \in Threads, Decide(t)
    PROVE  /\ pc[t].at = "inside" /\ UNCHANGED <<IN_HANDLER, log, fault, silent>>
           /\ \/ /\ Goes(t, "marking") /\ UNCHANGED <<LAST, REPORT_COUNT>>
                 /\ LAST # NoReport /\ LAST.fault = fault[t]
                 /\ pc'[t].chance = "unhandled"
              \/ /\ Goes(t, "writing")
                 /\ LAST' = [index |-> REPORT_COUNT, fault |-> fault[t]]
                 /\ REPORT_COUNT' = REPORT_COUNT + 1
<1>1. CASE repeat(fault[t], pc[t].chance)
  <2>1. pc' = [pc EXCEPT ![t].at = "marking"] /\ pc[t].at = "inside"
    BY <1>1 DEF Decide
  <2>2. Goes(t, "marking") /\ pc'[t].chance = pc[t].chance
    BY <2>1, StageTo DEF Stages
  <2> QED
    BY <1>1, <2>2 DEF Decide, repeat
<1>2. CASE ~repeat(fault[t], pc[t].chance)
  <2>1. pc' = [pc EXCEPT ![t].at = "writing"] /\ pc[t].at = "inside"
    BY <1>2 DEF Decide
  <2>2. Goes(t, "writing")
    BY <2>1, StageTo DEF Stages
  <2> QED
    BY <1>2, <2>2 DEF Decide
<1> QED
  BY <1>1, <1>2

LEMMA AppendStep ==
    ASSUME ReportTypes, LastReport, Decided, NEW t \in Threads, Mark(t) \/ write_report(t)
    PROVE  /\ pc[t].at \in {"marking", "writing"} /\ Goes(t, "leaving")
           /\ pc'[t].chance = pc[t].chance
           /\ UNCHANGED <<IN_HANDLER, LAST, REPORT_COUNT, fault>>
           /\ \/ log' = log /\ silent' = silent \cup {t}
              \/ \E e \in Entries :
                    /\ log' = Append(log, e) /\ UNCHANGED silent
                    /\ e.index = LAST.index /\ e.fault = fault[t]
                    /\ pc[t].chance = "unhandled" => e.unhandled
<1>1. pc' = [pc EXCEPT ![t].at = "leaving"] /\ pc[t].at \in {"marking", "writing"}
  BY DEF Mark, write_report, append
<1>2. Goes(t, "leaving") /\ pc'[t].chance = pc[t].chance
  BY <1>1, StageTo DEF Stages
<1>3. LAST.index \in Nat /\ fault[t] \in Raised
  BY <1>1 DEF LastReport, Decided, ReportTypes
<1>4. \A e \in Entries : log \o <<e>> = Append(log, e)
  BY DEF ReportTypes
<1>5. CASE Mark(t)
  <2> DEFINE e == [mark |-> TRUE, index |-> LAST.index, fault |-> fault[t], unhandled |-> TRUE]
  <2>1. e \in Entries
    BY <1>3 DEF Entries
  <2> QED
    BY <1>1, <1>2, <1>4, <1>5, <2>1 DEF Mark, append
<1>6. CASE write_report(t)
  <2> DEFINE e == [mark |-> FALSE, index |-> LAST.index, fault |-> fault[t],
                   unhandled |-> pc[t].chance = "unhandled"]
  <2>1. e \in Entries
    BY <1>3 DEF Entries
  <2> QED
    BY <1>1, <1>2, <1>4, <1>6, <2>1 DEF write_report, append
<1> QED
  BY <1>5, <1>6

LEMMA LeaveStep ==
    ASSUME ReportTypes, NEW t \in Threads, Leave(t)
    PROVE  /\ pc[t].at = "leaving" /\ IN_HANDLER' = FALSE
           /\ UNCHANGED <<LAST, REPORT_COUNT, log, fault, silent>>
           /\ \/ Goes(t, "searching")
              \/ Goes(t, "crashed") /\ pc[t].chance = "unhandled"
<1>1. pc[t] \in Staged
  BY StagedPlaces DEF Leave, ReportTypes, Stages
<1>2. CASE pc[t].chance = "first chance"
  <2>1. pc' = [pc EXCEPT ![t] = Searching]
    BY <1>2 DEF Leave, After
  <2>2. Goes(t, Searching.at)
    BY <2>1, GoesTo, PlaceFields
  <2>3. Goes(t, "searching")
    BY <2>2, PlaceFields
  <2> QED
    BY <1>2, <2>3 DEF Leave, Quiet
<1>3. CASE pc[t].chance = "unhandled"
  <2>1. pc' = [pc EXCEPT ![t] = Crashed]
    BY <1>3 DEF Leave, After
  <2>2. Goes(t, Crashed.at)
    BY <2>1, GoesTo, PlaceFields
  <2>3. Goes(t, "crashed")
    BY <2>2, PlaceFields
  <2> QED
    BY <1>3, <2>3 DEF Leave, Quiet
<1> QED
  BY <1>1, <1>2, <1>3 DEF Staged, Chances

LEMMA SearchStep ==
    ASSUME ReportTypes, NEW t \in Threads, SwallowFault(t) \/ Unhandled(t)
    PROVE  /\ pc[t].at = "searching" /\ Quiet /\ UNCHANGED silent
           /\ Goes(t, "running") \/ Goes(t, "entered")
           /\ fault' \in {fault, [fault EXCEPT ![t] = NoFault]}
  BY GoesTo, PlaceFields DEF SwallowFault, Unhandled, Quiet, Chances
-----------------------------------------------------------------------------
(* The invariant, action by action.                                        *)

LEMMA RaiseKeeps ==
    ASSUME ReportInv, NEW t \in Threads, NEW f \in Faults, Raise(t, f) \/ NestedFault(t, f)
    PROVE  ReportInv'
<1> USE DEF ReportInv
<1>1. ReportTypes'
  BY RaiseStep DEF ReportTypes, Goes, Quiet, Raised
<1>2. Alone'
  BY RaiseStep DEF Alone, InRoutine, Goes, Quiet, ReportTypes
<1>3. LastReport' /\ Decided'
  BY RaiseStep DEF LastReport, Decided, Goes, Quiet, ReportTypes
<1>4. FileIsOlder' /\ MarksNameTheirReport'
  BY RaiseStep DEF FileIsOlder, MarksNameTheirReport, Quiet
<1>5. LeavesTold' /\ DiesTold'
  BY RaiseStep DEF LeavesTold, DiesTold, Told, Goes, Quiet, ReportTypes
<1> QED
  BY <1>1, <1>2, <1>3, <1>4, <1>5

LEMMA SkipKeeps ==
    ASSUME ReportInv, NEW t \in Threads, Skip(t)
    PROVE  ReportInv'
<1> USE DEF ReportInv
<1>1. ReportTypes'
  BY SkipStep DEF ReportTypes, Goes, Quiet
<1>2. Alone'
  BY SkipStep DEF Alone, InRoutine, Goes, Quiet, ReportTypes
<1>3. LastReport' /\ Decided'
  BY SkipStep DEF LastReport, Decided, Goes, Quiet, ReportTypes
<1>4. FileIsOlder' /\ MarksNameTheirReport'
  BY SkipStep DEF FileIsOlder, MarksNameTheirReport, Quiet
<1>5. LeavesTold' /\ DiesTold'
  BY SkipStep DEF LeavesTold, DiesTold, Told, Goes, Quiet, ReportTypes
<1> QED
  BY <1>1, <1>2, <1>3, <1>4, <1>5

LEMMA BailKeeps ==
    ASSUME ReportInv, NEW t \in Threads, Bail(t)
    PROVE  ReportInv'
<1> USE DEF ReportInv
<1>1. ReportTypes'
  BY BailStep DEF ReportTypes, Goes, Quiet
<1>2. Alone'
  BY BailStep DEF Alone, InRoutine, Goes, Quiet, ReportTypes
<1>3. LastReport' /\ Decided'
  BY BailStep DEF LastReport, Decided, Goes, Quiet, ReportTypes
<1>4. FileIsOlder' /\ MarksNameTheirReport'
  BY BailStep DEF FileIsOlder, MarksNameTheirReport, Quiet
<1>5. LeavesTold' /\ DiesTold'
  BY BailStep DEF LeavesTold, DiesTold, Told, Goes, Quiet, ReportTypes
<1> QED
  BY <1>1, <1>2, <1>3, <1>4, <1>5

LEMMA EnterKeeps ==
    ASSUME ReportInv, NEW t \in Threads, Enter(t)
    PROVE  ReportInv'
<1> USE DEF ReportInv
<1>1. ReportTypes'
  BY EnterStep DEF ReportTypes, Goes, Quiet
<1>2. Alone'
  BY EnterStep DEF Alone, InRoutine, Goes, Quiet, ReportTypes
<1>3. LastReport' /\ Decided'
  BY EnterStep DEF LastReport, Decided, Goes, Quiet, ReportTypes
<1>4. FileIsOlder' /\ MarksNameTheirReport'
  BY EnterStep DEF FileIsOlder, MarksNameTheirReport
<1>5. LeavesTold' /\ DiesTold'
  BY EnterStep DEF LeavesTold, DiesTold, Told, Goes, Quiet, ReportTypes
<1> QED
  BY <1>1, <1>2, <1>3, <1>4, <1>5

LEMMA DecideKeeps ==
    ASSUME ReportInv, NEW t \in Threads, Decide(t)
    PROVE  ReportInv'
<1> USE DEF ReportInv
<1>1. ReportTypes'
  BY DecideStep DEF ReportTypes, Goes, Quiet
<1>2. Alone'
  BY DecideStep DEF Alone, InRoutine, Goes, Quiet, ReportTypes
<1>3. LastReport' /\ Decided'
  <2>1. CASE Goes(t, "marking") /\ UNCHANGED <<LAST, REPORT_COUNT>>
             /\ LAST # NoReport /\ LAST.fault = fault[t]
    <3>1. REPORT_COUNT # 0 /\ LastReport'
      BY <2>1, SMT DEF LastReport
    <3> QED
      BY <2>1, <3>1, DecideStep DEF Decided, Goes
  <2>2. CASE Goes(t, "writing") /\ LAST' = [index |-> REPORT_COUNT, fault |-> fault[t]]
             /\ REPORT_COUNT' = REPORT_COUNT + 1
    <3>1. LastReport' /\ REPORT_COUNT' # 0
      BY <2>2, SMT DEF LastReport, ReportTypes
    <3>2. \A s \in Threads \ {t} : pc'[s].at \notin {"marking", "writing"}
      BY <2>2, DecideStep DEF Alone, InRoutine, Goes
    <3>3. LAST'.fault = fault'[t]
      BY <2>2, DecideStep
    <3> QED
      BY <3>1, <3>2, <3>3 DEF Decided
  <2> QED
    BY <2>1, <2>2, DecideStep
<1>4. FileIsOlder' /\ MarksNameTheirReport'
  <2>1. log' = log
    BY DecideStep
  <2>2. MarksNameTheirReport'
    BY <2>1 DEF MarksNameTheirReport
  <2>3. CASE UNCHANGED <<LAST, REPORT_COUNT>>
    <3>1. log' = log /\ LAST' = LAST /\ REPORT_COUNT' = REPORT_COUNT
      BY <2>1, <2>3
    <3>2. FileIsOlder => FileIsOlder'
      BY <3>1 DEF FileIsOlder
    <3> QED
      BY <2>2, <3>2
  <2>4. CASE LAST' = [index |-> REPORT_COUNT, fault |-> fault[t]] /\ REPORT_COUNT' = REPORT_COUNT + 1
    <3>1. \A i \in DOMAIN log : log[i].index \in Nat
      <4>1. \A i \in DOMAIN log : log[i] \in Entries
        BY DEF ReportTypes
      <4> QED
        BY <4>1 DEF Entries
    <3>2. \A i \in DOMAIN log : log[i].index < REPORT_COUNT
      BY <3>1, SMT DEF FileIsOlder, LastReport
    <3>3. LAST'.index = REPORT_COUNT /\ REPORT_COUNT \in Nat /\ REPORT_COUNT' = REPORT_COUNT + 1
      BY <2>4 DEF ReportTypes
    <3> QED
      BY <2>1, <2>2, <3>1, <3>2, <3>3, SMT DEF FileIsOlder
  <2> QED
    BY <2>2, <2>3, <2>4, DecideStep
<1>5. LeavesTold' /\ DiesTold'
  BY DecideStep DEF LeavesTold, DiesTold, Told, Goes, Quiet, ReportTypes
<1> QED
  BY <1>1, <1>2, <1>3, <1>4, <1>5

LEMMA LeaveKeeps ==
    ASSUME ReportInv, NEW t \in Threads, Leave(t)
    PROVE  ReportInv'
<1> USE DEF ReportInv
<1>1. ReportTypes'
  BY LeaveStep DEF ReportTypes, Goes, Quiet
<1>2. Alone'
  <2>1. InRoutine(t) /\ ~InRoutine(t)'
    BY LeaveStep DEF Goes, InRoutine
  <2>2. \A s \in Threads \ {t} : ~InRoutine(s) /\ ~InRoutine(s)'
    BY <2>1, LeaveStep DEF Alone, Goes, InRoutine
  <2> QED
    BY <2>1, <2>2 DEF Alone
<1>3. LastReport' /\ Decided'
  BY LeaveStep DEF LastReport, Decided, Goes, Quiet, ReportTypes
<1>4. FileIsOlder' /\ MarksNameTheirReport'
  BY LeaveStep DEF FileIsOlder, MarksNameTheirReport, Quiet
<1>5. LeavesTold' /\ DiesTold'
  BY LeaveStep DEF LeavesTold, DiesTold, Told, Goes, Quiet, ReportTypes
<1> QED
  BY <1>1, <1>2, <1>3, <1>4, <1>5

LEMMA SearchKeeps ==
    ASSUME ReportInv, NEW t \in Threads, SwallowFault(t) \/ Unhandled(t)
    PROVE  ReportInv'
<1> USE DEF ReportInv
<1>1. ReportTypes'
  BY SearchStep DEF ReportTypes, Goes, Quiet, Raised
<1>2. Alone'
  BY SearchStep DEF Alone, InRoutine, Goes, Quiet, ReportTypes
<1>3. LastReport' /\ Decided'
  BY SearchStep DEF LastReport, Decided, Goes, Quiet, ReportTypes
<1>4. FileIsOlder' /\ MarksNameTheirReport'
  BY SearchStep DEF FileIsOlder, MarksNameTheirReport, Quiet
<1>5. LeavesTold' /\ DiesTold'
  BY SearchStep DEF LeavesTold, DiesTold, Told, Goes, Quiet, ReportTypes
<1> QED
  BY <1>1, <1>2, <1>3, <1>4, <1>5

\* Only this step writes: what it appends is about the last report, which nothing in the
\* file is newer than.
LEMMA AppendKeeps ==
    ASSUME ReportInv, NEW t \in Threads, Mark(t) \/ write_report(t)
    PROVE  ReportInv'
<1> USE DEF ReportInv
<1>1. /\ pc[t].at \in {"marking", "writing"} /\ Goes(t, "leaving")
      /\ pc'[t].chance = pc[t].chance
      /\ UNCHANGED <<IN_HANDLER, LAST, REPORT_COUNT, fault>>
  BY AppendStep
<1>2. Alone'
  BY <1>1 DEF Alone, InRoutine, Goes, ReportTypes
<1>3. LastReport' /\ Decided'
  BY <1>1 DEF LastReport, Decided, Goes, ReportTypes
<1>4. CASE log' = log /\ silent' = silent \cup {t}
  <2>1. ReportTypes'
    BY <1>1, <1>4 DEF ReportTypes, Goes
  <2>2. FileIsOlder' /\ MarksNameTheirReport'
    BY <1>1, <1>4 DEF FileIsOlder, MarksNameTheirReport
  <2>3. LeavesTold' /\ DiesTold'
    BY <1>1, <1>4 DEF LeavesTold, DiesTold, Told, Goes, ReportTypes
  <2> QED
    BY <1>2, <1>3, <2>1, <2>2, <2>3
<1>5. ASSUME NEW e \in Entries, log' = Append(log, e), UNCHANGED silent,
             e.index = LAST.index, e.fault = fault[t], pc[t].chance = "unhandled" => e.unhandled
      PROVE  ReportInv'
  <2>1. /\ log \in Seq(Entries) /\ log' \in Seq(Entries)
        /\ DOMAIN log = 1 .. Len(log) /\ DOMAIN log' = 1 .. Len(log) + 1
        /\ Len(log) \in Nat
        /\ \A i \in 1 .. Len(log) : log'[i] = log[i]
        /\ log'[Len(log) + 1] = e
    BY <1>5 DEF ReportTypes
  <2>2. ReportTypes'
    BY <1>1, <2>1 DEF ReportTypes, Goes
  <2>3. REPORT_COUNT # 0 /\ LAST.fault = fault[t] /\ LAST.index \in Nat
    BY <1>1 DEF Decided, LastReport
  <2>4. FileIsOlder'
    BY <1>1, <1>5, <2>1, <2>3 DEF FileIsOlder
  <2>5. \A j \in 1 .. Len(log) : log[j].index = LAST.index => log[j].fault = LAST.fault
    BY <2>1 DEF FileIsOlder
  <2>6. \A j \in 1 .. Len(log) : log[j].index <= LAST.index
    BY <2>1 DEF FileIsOlder
  <2>7. MarksNameTheirReport'
    <3> SUFFICES ASSUME NEW i \in DOMAIN log', log'[i].mark, NEW j \in 1 .. i - 1
                 PROVE  /\ log'[j].index = log'[i].index => log'[j].fault = log'[i].fault
                        /\ log'[j].index <= log'[i].index
      BY DEF MarksNameTheirReport
    <3>1. i \in 1 .. Len(log) + 1 /\ j \in 1 .. Len(log)
      BY <2>1
    <3>2. CASE i \in 1 .. Len(log)
      BY <2>1, <3>1, <3>2 DEF MarksNameTheirReport
    <3>3. CASE i = Len(log) + 1
      BY <1>5, <2>1, <2>3, <2>5, <2>6, <3>1, <3>3
    <3> QED
      BY <2>1, <3>1, <3>2, <3>3
  <2>8. \A s \in Threads : Told(s) => Told(s)'
    BY <1>1, <2>1 DEF Told
  <2>9. pc[t].chance = "unhandled" => Told(t)'
    BY <1>1, <1>5, <2>1 DEF Told
  <2>10. LeavesTold' /\ DiesTold'
    BY <1>1, <1>5, <2>8, <2>9 DEF LeavesTold, DiesTold, Goes
  <2> QED
    BY <1>2, <1>3, <2>2, <2>4, <2>7, <2>10
<1> QED
  BY <1>4, <1>5, AppendStep

-----------------------------------------------------------------------------
LEMMA ReportInitial == ReportInit => ReportInv
<1> SUFFICES ASSUME ReportInit PROVE ReportInv
  OBVIOUS
<1>1. pc \in [Threads -> Places] /\ fault \in [Threads -> Raised] /\ \A t \in Threads : pc[t].at = "running"
  BY PlaceFields DEF ReportInit, Raised
<1>2. log = << >> /\ DOMAIN log = {} /\ log \in Seq(Entries)
  BY DEF ReportInit
<1>3. ReportTypes
  BY <1>1, <1>2 DEF ReportInit, ReportTypes
<1>4. Alone /\ LastReport /\ Decided
  BY <1>1 DEF ReportInit, Alone, InRoutine, LastReport, Decided
<1>5. FileIsOlder /\ MarksNameTheirReport
  BY <1>2 DEF FileIsOlder, MarksNameTheirReport
<1>6. LeavesTold /\ DiesTold
  BY <1>1 DEF LeavesTold, DiesTold
<1> QED
  BY <1>3, <1>4, <1>5, <1>6 DEF ReportInv

LEMMA ReportStep == ReportInv /\ [ReportNext]_reportVars => ReportInv'
<1> SUFFICES ASSUME ReportInv, [ReportNext]_reportVars PROVE ReportInv'
  OBVIOUS
<1>1. ASSUME NEW t \in Threads, Die(t) PROVE ReportInv'
  <2>1. UNCHANGED <<pc, fault, IN_HANDLER, LAST, REPORT_COUNT, log, silent>>
    BY <1>1 DEF Die
  <2> QED
    BY <2>1 DEF ReportInv, ReportTypes, Alone, InRoutine, LastReport, Decided, FileIsOlder,
                MarksNameTheirReport, LeavesTold, DiesTold, Told
<1>2. CASE UNCHANGED reportVars
  <2>1. UNCHANGED <<pc, fault, IN_HANDLER, LAST, REPORT_COUNT, log, silent>>
    BY <1>2 DEF reportVars
  <2> QED
    BY <2>1 DEF ReportInv, ReportTypes, Alone, InRoutine, LastReport, Decided, FileIsOlder,
                MarksNameTheirReport, LeavesTold, DiesTold, Told
<1> QED
  BY <1>1, <1>2, RaiseKeeps, SkipKeeps, BailKeeps, EnterKeeps, DecideKeeps, AppendKeeps, LeaveKeeps,
     SearchKeeps DEF ReportNext, report

LEMMA InvHolds == ReportSpec => []ReportInv
  BY ReportInitial, ReportStep, PTL DEF ReportSpec

\* However many threads fault, one of them at a time decides on a report, writes or marks
\* (ffi.rs, IN_HANDLER): what is remembered of the last report is not torn.
THEOREM OneReportAtATime == ReportSpec => []Alone
<1>1. ReportInv => Alone
  BY DEF ReportInv
<1> QED
  BY <1>1, InvHolds, PTL

\* A mark "report n was UNHANDLED" is about the fault of report n, and report n is the last
\* one in the file, for any threads, exceptions and nested faults.
THEOREM MarksAreTrue == ReportSpec => []MarksNameTheirReport
<1>1. ReportInv => MarksNameTheirReport
  BY DEF ReportInv
<1> QED
  BY <1>1, InvHolds, PTL

\* What the process goes down on is in the file as unhandled, unless its report found the
\* routine occupied or the file shut.
THEOREM DeathsAreTold == ReportSpec => []DeathIsTold
<1>1. ReportInv => DeathIsTold
  <2>1. Crashed.at = "crashed"
    BY PlaceFields
  <2> QED
    BY <2>1 DEF ReportInv, DiesTold, DeathIsTold, Killers
<1> QED
  BY <1>1, InvHolds, PTL

-----------------------------------------------------------------------------
(* SceneWindows: what the mods remember of their windows is what the scene *)
(* on top holds, each window under its bar, and no other scene keeps       *)
(* anything of theirs.                                                     *)

\* What the mods put into scenes.
Widgets == {"config", "list", "tavern", "bar"}

\* r are the members of s that are not among these, in their order.
Filtered(r, s, these) ==
    /\ r \in Seq(Widgets)
    /\ \E e \in [1 .. Len(r) -> 1 .. Len(s)] :
         /\ \A i, j \in 1 .. Len(r) : i < j => e[i] < e[j]
         /\ \A i \in 1 .. Len(r) : r[i] = s[e[i]] /\ r[i] \notin these
         /\ \A m \in 1 .. Len(s) : s[m] \notin these => \E i \in 1 .. Len(r) : e[i] = m

\* What a scene keeps, told by positions: every other widget once, in its order.
LEMMA RemainingIs ==
    ASSUME NEW s \in Seq(Widgets), NEW these
    PROVE  Filtered(Remaining(s, these), s, these)
<1> DEFINE L == Len(s)
           D == Seq(Widgets)
           one(n, r) == IF s[n] \in these THEN r ELSE Append(r, s[n])
           upTo == CHOOSE f : f = [n \in 0 .. L |-> IF n = 0 THEN << >> ELSE IF s[n] \in these THEN f[n - 1] ELSE Append(f[n - 1], s[n])]
           step == [p \in (1 .. L) \X D |-> one(p[1], p[2])]
<1>1. L \in Nat /\ \A n \in 1 .. L : s[n] \in Widgets
  OBVIOUS
<1>2. \A n \in 1 .. L : \A r \in D : one(n, r) \in D
  BY <1>1
<1>3. Remaining(s, these) = upTo[L]
  BY DEF Remaining
<1> HIDE DEF L, D
<1>4. step \in [(1 .. L) \X D -> D]
  BY <1>2
<1>5. PICK f : f \in [0 .. L -> D] /\ f[0] = << >> /\ \A n \in 1 .. L : f[n] = step[<<n, f[n - 1]>>]
  <2> HIDE DEF step
  <2>1. << >> \in D
    BY DEF D
  <2>2. \E f : HandsOn(f, D, << >>, L, step)
    BY <2>1, <1>1, <1>4, Recursion
  <2> QED
    BY <2>2 DEF HandsOn
<1>6. \A n \in 1 .. L : f[n] = one(n, f[n - 1]) /\ f[n - 1] \in D
  <2> SUFFICES ASSUME NEW n \in 1 .. L PROVE f[n] = one(n, f[n - 1]) /\ f[n - 1] \in D
    OBVIOUS
  <2>1. n - 1 \in 0 .. L
    BY <1>1
  <2> QED
    BY <1>5, <2>1
<1>7. f = [n \in 0 .. L |-> IF n = 0 THEN << >> ELSE one(n, f[n - 1])]
  <2> HIDE DEF one
  <2>1. \A n \in 0 .. L : n # 0 => n \in 1 .. L
    BY <1>1
  <2>2. \A n \in 0 .. L : f[n] = IF n = 0 THEN << >> ELSE one(n, f[n - 1])
    BY <1>5, <1>6, <2>1
  <2> QED
    BY <1>5, <2>2
<1>8. upTo = [n \in 0 .. L |-> IF n = 0 THEN << >> ELSE one(n, upTo[n - 1])]
  BY <1>7
<1> HIDE DEF upTo, step
<1> DEFINE Holds(r, n) ==
             /\ r \in D
             /\ \E e \in [1 .. Len(r) -> 1 .. n] :
                  /\ \A i, j \in 1 .. Len(r) : i < j => e[i] < e[j]
                  /\ \A i \in 1 .. Len(r) : r[i] = s[e[i]] /\ r[i] \notin these
                  /\ \A m \in 1 .. n : s[m] \notin these => \E i \in 1 .. Len(r) : e[i] = m
           T == {n \in 0 .. L : Holds(upTo[n], n)}
<1>9. 0 \in T
  <2>1. upTo[0] = << >> /\ 0 \in 0 .. L
    BY <1>1, <1>8
  <2>2. Holds(<< >>, 0)
    <3>1. << >> \in [1 .. 0 -> 1 .. 0] /\ << >> \in D /\ Len(<< >>) = 0 /\ 1 .. 0 = {}
      BY DEF D
    <3> QED
      BY <3>1
  <2> HIDE DEF Holds
  <2> QED
    BY <2>1, <2>2
<1>10. ASSUME NEW n \in 0 .. L - 1, n \in T PROVE n + 1 \in T
  <2> DEFINE m == n + 1
             r == upTo[n]
  <2>1. m \in 1 .. L /\ m \in 0 .. L /\ m # 0 /\ m - 1 = n /\ n \in Nat
    BY <1>1
  <2>2. r \in D
    BY <1>10
  <2>3. PICK e \in [1 .. Len(r) -> 1 .. n] :
          /\ \A i, j \in 1 .. Len(r) : i < j => e[i] < e[j]
          /\ \A i \in 1 .. Len(r) : r[i] = s[e[i]] /\ r[i] \notin these
          /\ \A l \in 1 .. n : s[l] \notin these => \E i \in 1 .. Len(r) : e[i] = l
    BY <1>10
  <2> HIDE DEF m, r
  <2>4. upTo[m] = one(m, r)
    BY <1>8, <2>1 DEF r
  <2>5. 1 .. m = (1 .. n) \cup {m} /\ m \notin 1 .. n /\ \A l \in 1 .. n : l < m
    BY <2>1 DEF m
  <2>6. CASE s[m] \in these
    <3>1. upTo[m] = r
      BY <2>4, <2>6
    <3>2. e \in [1 .. Len(r) -> 1 .. m]
      BY <2>5
    <3>3. \A l \in 1 .. m : s[l] \notin these => \E i \in 1 .. Len(r) : e[i] = l
      BY <2>3, <2>5, <2>6
    <3>4. Holds(r, m)
      BY <2>2, <2>3, <3>2, <3>3
    <3> HIDE DEF Holds
    <3> QED
      BY <2>1, <3>1, <3>4 DEF m
  <2>7. CASE s[m] \notin these
    <3> DEFINE g == Append(r, s[m])
               k == Len(r)
               h == [i \in 1 .. k + 1 |-> IF i = k + 1 THEN m ELSE e[i]]
    <3>1. upTo[m] = g
      BY <2>4, <2>7
    <3>2. g \in D /\ k \in Nat /\ Len(g) = k + 1 /\ g[k + 1] = s[m] /\ \A i \in 1 .. k : g[i] = r[i]
      <4>1. s[m] \in Widgets /\ r \in Seq(Widgets)
        BY <1>1, <2>1, <2>2 DEF D
      <4> QED
        BY <4>1 DEF D
    <3> HIDE DEF g, k
    <3>3. 1 .. k + 1 = (1 .. k) \cup {k + 1} /\ k + 1 \notin 1 .. k /\ \A i \in 1 .. k : i < k + 1 /\ ~(k + 1 < i)
      BY <3>2
    <3>4. h \in [1 .. k + 1 -> 1 .. m] /\ h[k + 1] = m /\ \A i \in 1 .. k : h[i] = e[i] /\ h[i] \in 1 .. n
      BY <2>3, <2>5, <3>3 DEF k
    <3> HIDE DEF h
    <3>5. \A i, j \in 1 .. k + 1 : i < j => h[i] < h[j]
      <4> SUFFICES ASSUME NEW i \in 1 .. k + 1, NEW j \in 1 .. k + 1, i < j PROVE h[i] < h[j]
        OBVIOUS
      <4>1. i \in 1 .. k
        BY <3>2
      <4>2. CASE j \in 1 .. k
        BY <4>1, <4>2, <2>3, <3>4 DEF k
      <4>3. CASE j = k + 1
        BY <4>1, <4>3, <2>5, <3>4
      <4> QED
        BY <4>2, <4>3, <3>3
    <3>6. \A i \in 1 .. k + 1 : g[i] = s[h[i]] /\ g[i] \notin these
      BY <2>3, <2>7, <3>2, <3>3, <3>4 DEF k
    <3>7. \A l \in 1 .. m : s[l] \notin these => \E i \in 1 .. k + 1 : h[i] = l
      <4> SUFFICES ASSUME NEW l \in 1 .. m, s[l] \notin these PROVE \E i \in 1 .. k + 1 : h[i] = l
        OBVIOUS
      <4>1. CASE l = m
        BY <4>1, <3>3, <3>4
      <4>2. CASE l \in 1 .. n
        <5>1. PICK i \in 1 .. k : e[i] = l
          BY <2>3, <4>2 DEF k
        <5> QED
          BY <5>1, <3>3, <3>4
      <4> QED
        BY <4>1, <4>2, <2>5
    <3>8. Holds(g, m)
      <4>1. g \in D /\ Len(g) = k + 1
        BY <3>2
      <4>2. h \in [1 .. Len(g) -> 1 .. m]
        BY <4>1, <3>4
      <4>3. \A i, j \in 1 .. Len(g) : i < j => h[i] < h[j]
        BY <4>1, <3>5
      <4>4. \A i \in 1 .. Len(g) : g[i] = s[h[i]] /\ g[i] \notin these
        BY <4>1, <3>6
      <4>5. \A l \in 1 .. m : s[l] \notin these => \E i \in 1 .. Len(g) : h[i] = l
        BY <4>1, <3>7
      <4> QED
        BY <4>1, <4>2, <4>3, <4>4, <4>5, Zenon
    <3> HIDE DEF Holds
    <3> QED
      BY <2>1, <3>1, <3>8 DEF m
  <2> QED
    BY <2>6, <2>7
<1> HIDE DEF T
<1>11. L \in T
  <2>1. 0 \in Nat /\ L \in 0 .. L
    BY <1>1
  <2>2. \A n \in 0 .. L : n \in T
    BY <1>1, <1>9, <1>10, <2>1, IntervalInduction
  <2> QED
    BY <2>1, <2>2
<1> QED
  <2>1. Holds(upTo[L], L)
    <3> HIDE DEF Holds
    <3> QED
      BY <1>11 DEF T
  <2>2. Holds(Remaining(s, these), L)
    BY <2>1, <1>3
  <2> QED
    BY <2>2, Zenon DEF Filtered, L, D

\* No widget lies in a scene twice; a is somewhere below b in drawing order, so b covers it.
Once(s) == \A i, j \in 1 .. Len(s) : s[i] = s[j] => i = j
Above(s, a, b) == \E i, j \in 1 .. Len(s) : i < j /\ s[i] = a /\ s[j] = b

\* The widgets of a scene are those in some place of it.
LEMMA Members ==
    ASSUME NEW s \in Seq(Widgets)
    PROVE  /\ Len(s) \in Nat /\ \A i \in 1 .. Len(s) : s[i] \in Range(s) /\ s[i] \in Widgets
           /\ \A c \in Range(s) : \E i \in 1 .. Len(s) : s[i] = c
           /\ Range(s) \subseteq Widgets
  BY DEF Range

\* Widgets are taken out of a scene and the others stay as they lie.
LEMMA TakenOut ==
    ASSUME NEW s \in Seq(Widgets), Once(s), NEW these
    PROVE  /\ Remaining(s, these) \in Seq(Widgets)
           /\ Once(Remaining(s, these))
           /\ Range(Remaining(s, these)) = Range(s) \ these
           /\ \A a, b : Above(s, a, b) /\ a \notin these /\ b \notin these => Above(Remaining(s, these), a, b)
<1> DEFINE r == Remaining(s, these)
<1>1. Filtered(r, s, these)
  BY RemainingIs
<1> HIDE DEF r
<1>2. r \in Seq(Widgets)
  BY <1>1 DEF Filtered
<1>3. PICK e \in [1 .. Len(r) -> 1 .. Len(s)] :
         /\ \A i, j \in 1 .. Len(r) : i < j => e[i] < e[j]
         /\ \A i \in 1 .. Len(r) : r[i] = s[e[i]] /\ r[i] \notin these
         /\ \A m \in 1 .. Len(s) : s[m] \notin these => \E i \in 1 .. Len(r) : e[i] = m
  BY <1>1 DEF Filtered
<1>4. Len(r) \in Nat /\ Len(s) \in Nat /\ \A i \in 1 .. Len(r) : e[i] \in 1 .. Len(s)
  BY <1>2, <1>3
<1>5. Once(r)
  <2> SUFFICES ASSUME NEW i \in 1 .. Len(r), NEW j \in 1 .. Len(r), r[i] = r[j] PROVE i = j
    BY DEF Once
  <2>1. e[i] = e[j]
    BY <1>3, <1>4 DEF Once
  <2>2. ~(i < j) /\ ~(j < i)
    BY <2>1, <1>3, <1>4
  <2> QED
    BY <2>2, <1>4
<1>6. Range(r) \subseteq Range(s) \ these
  <2> SUFFICES ASSUME NEW c \in Range(r) PROVE c \in Range(s) \ these
    OBVIOUS
  <2>1. PICK i \in 1 .. Len(r) : r[i] = c
    BY <1>2, Members
  <2> QED
    BY <2>1, <1>3, <1>4, Members
<1>7. Range(s) \ these \subseteq Range(r)
  <2> SUFFICES ASSUME NEW c \in Range(s) \ these PROVE c \in Range(r)
    OBVIOUS
  <2>1. PICK m \in 1 .. Len(s) : s[m] = c
    BY Members
  <2>2. PICK i \in 1 .. Len(r) : e[i] = m
    BY <2>1, <1>3
  <2> QED
    BY <2>1, <2>2, <1>2, <1>3, Members
<1>8. ASSUME NEW a, NEW b, Above(s, a, b), a \notin these, b \notin these PROVE Above(r, a, b)
  <2>1. PICK m \in 1 .. Len(s), n \in 1 .. Len(s) : m < n /\ s[m] = a /\ s[n] = b
    BY <1>8 DEF Above
  <2>2. PICK i \in 1 .. Len(r) : e[i] = m
    BY <2>1, <1>3, <1>8
  <2>3. PICK j \in 1 .. Len(r) : e[j] = n
    BY <2>1, <1>3, <1>8
  <2>4. i # j /\ ~(j < i)
    BY <2>1, <2>2, <2>3, <1>3, <1>4
  <2>5. i < j
    BY <2>4, <1>4
  <2>6. r[i] = a /\ r[j] = b
    BY <2>1, <2>2, <2>3, <1>3
  <2> QED
    BY <2>5, <2>6 DEF Above
<1> QED
  BY <1>2, <1>5, <1>6, <1>7, <1>8 DEF r

\* Widgets are put on top of a scene.
LEMMA PutOnTop ==
    ASSUME NEW s \in Seq(Widgets), Once(s), NEW added \in Seq(Widgets), Once(added)
    PROVE  LET r == Remaining(s, Range(added)) \o added IN
           /\ r \in Seq(Widgets) /\ Once(r)
           /\ Range(r) = Range(s) \cup Range(added)
           /\ \A a, b : Above(s, a, b) /\ a \notin Range(added) /\ b \notin Range(added) => Above(r, a, b)
           /\ \A a, b : Above(added, a, b) => Above(r, a, b)
           /\ \A a, b : a \in Range(s) \ Range(added) /\ b \in Range(added) => Above(r, a, b)
<1> DEFINE t == Remaining(s, Range(added))
           k == Len(t)
           l == Len(added)
           r == t \o added
<1>1. /\ t \in Seq(Widgets) /\ Once(t) /\ Range(t) = Range(s) \ Range(added)
      /\ \A a, b : Above(s, a, b) /\ a \notin Range(added) /\ b \notin Range(added) => Above(t, a, b)
  BY TakenOut
<1> HIDE DEF t
<1>2. /\ r \in Seq(Widgets) /\ Len(r) = k + l /\ k \in Nat /\ l \in Nat
      /\ \A i \in 1 .. k : r[i] = t[i]
      /\ \A i \in 1 .. l : r[k + i] = added[i]
  BY <1>1
<1> HIDE DEF r, k, l
<1>3. /\ \A i \in 1 .. k : r[i] \in Range(t) /\ r[i] \notin Range(added) /\ i \in 1 .. k + l
      /\ \A i \in 1 .. l : r[k + i] \in Range(added) /\ k + i \in 1 .. k + l
  <2>1. ASSUME NEW i \in 1 .. k PROVE r[i] \in Range(t) /\ r[i] \notin Range(added) /\ i \in 1 .. k + l
    <3>1. t[i] \in Range(t)
      BY <1>1, Members DEF k
    <3> QED
      BY <3>1, <1>1, <1>2
  <2>2. ASSUME NEW i \in 1 .. l PROVE r[k + i] \in Range(added) /\ k + i \in 1 .. k + l
    <3>1. added[i] \in Range(added)
      BY Members DEF l
    <3> QED
      BY <3>1, <1>2
  <2> QED
    BY <2>1, <2>2
<1>4. \A i \in 1 .. k + l : i \in 1 .. k \/ (i - k \in 1 .. l /\ k + (i - k) = i)
  BY <1>2
<1>5. Once(r)
  <2> SUFFICES ASSUME NEW i \in 1 .. k + l, NEW j \in 1 .. k + l, r[i] = r[j] PROVE i = j
    BY <1>2 DEF Once
  <2>1. CASE i \in 1 .. k /\ j \in 1 .. k
    BY <2>1, <1>1, <1>2 DEF Once, k
  <2>2. CASE i \notin 1 .. k /\ j \notin 1 .. k
    <3> DEFINE x == i - k
               y == j - k
    <3>1. x \in 1 .. l /\ y \in 1 .. l /\ k + x = i /\ k + y = j
      BY <1>4, <2>2
    <3> HIDE DEF x, y
    <3>2. added[x] = added[y]
      BY <3>1, <1>2
    <3>3. x = y
      BY <3>1, <3>2 DEF Once, l
    <3> QED
      BY <3>1, <3>3
  <2>3. ASSUME NEW x \in 1 .. k + l, NEW y \in 1 .. k + l, x \in 1 .. k, y \notin 1 .. k, r[x] = r[y]
        PROVE FALSE
    <3> DEFINE z == y - k
    <3>1. z \in 1 .. l /\ k + z = y
      BY <1>4, <2>3
    <3> HIDE DEF z
    <3> QED
      BY <3>1, <2>3, <1>3
  <2> QED
    BY <2>1, <2>2, <2>3
<1>6. Range(r) = Range(s) \cup Range(added)
  <2>1. ASSUME NEW c \in Range(r) PROVE c \in Range(s) \cup Range(added)
    <3>1. PICK i \in 1 .. k + l : r[i] = c
      BY <1>2, Members
    <3>2. CASE i \in 1 .. k
      BY <3>1, <3>2, <1>1, <1>3
    <3>3. CASE i \notin 1 .. k
      <4>1. i - k \in 1 .. l /\ k + (i - k) = i
        BY <3>3, <1>4
      <4> QED
        BY <3>1, <4>1, <1>3
    <3> QED
      BY <3>2, <3>3
  <2>2. ASSUME NEW c \in Range(added) PROVE c \in Range(r)
    <3>1. PICK i \in 1 .. l : added[i] = c
      BY Members DEF l
    <3>2. r[k + i] = c /\ k + i \in 1 .. k + l
      BY <3>1, <1>2, <1>3
    <3> QED
      BY <3>2, <1>2, Members
  <2>3. ASSUME NEW c \in Range(t) PROVE c \in Range(r)
    <3>1. PICK i \in 1 .. k : t[i] = c
      BY <1>1, Members DEF k
    <3>2. r[i] = c /\ i \in 1 .. k + l
      BY <3>1, <1>2, <1>3
    <3> QED
      BY <3>2, <1>2, Members
  <2> QED
    BY <2>1, <2>2, <2>3, <1>1
<1>7. ASSUME NEW a, NEW b, Above(s, a, b), a \notin Range(added), b \notin Range(added) PROVE Above(r, a, b)
  <2>1. PICK i \in 1 .. k, j \in 1 .. k : i < j /\ t[i] = a /\ t[j] = b
    BY <1>1, <1>7 DEF Above, k
  <2>2. r[i] = a /\ r[j] = b /\ i \in 1 .. k + l /\ j \in 1 .. k + l
    BY <2>1, <1>2, <1>3
  <2> QED
    BY <2>1, <2>2, <1>2 DEF Above
<1>8. ASSUME NEW a, NEW b, Above(added, a, b) PROVE Above(r, a, b)
  <2>1. PICK i \in 1 .. l, j \in 1 .. l : i < j /\ added[i] = a /\ added[j] = b
    BY <1>8 DEF Above, l
  <2>2. r[k + i] = a /\ r[k + j] = b /\ k + i \in 1 .. k + l /\ k + j \in 1 .. k + l /\ k + i < k + j
    BY <2>1, <1>2, <1>3
  <2> QED
    BY <2>2, <1>2 DEF Above
<1>9. ASSUME NEW a \in Range(s) \ Range(added), NEW b \in Range(added) PROVE Above(r, a, b)
  <2>1. PICK i \in 1 .. k : t[i] = a
    BY <1>1, Members DEF k
  <2>2. PICK j \in 1 .. l : added[j] = b
    BY Members DEF l
  <2>3. r[i] = a /\ r[k + j] = b /\ i \in 1 .. k + l /\ k + j \in 1 .. k + l /\ i < k + j
    BY <2>1, <2>2, <1>2, <1>3
  <2> QED
    BY <2>3, <1>2 DEF Above
<1> QED
  BY <1>2, <1>5, <1>6, <1>7, <1>8, <1>9 DEF r, t

\* What closed, opened and current are: the scenes' children and what the mods remember.
AllScenes == Scenes \cup {Menu}
OnTop(st, sc) == st.kids[sc]
Holdings ==
    [kids : [AllScenes -> Seq(Widgets)], open : BOOLEAN, list : BOOLEAN, bar : BOOLEAN,
     shown : SUBSET {"config", "tavern"}]

\* What the mods remember is what the scene on top holds, in its order, and no other scene
\* holds anything.
Agrees(st, sc) ==
    /\ st \in Holdings
    /\ \A s \in AllScenes : s # sc => st.kids[s] = << >>
    /\ Once(OnTop(st, sc))
    /\ st.shown = Range(OnTop(st, sc)) \cap {"config", "tavern"}
    /\ (st.open <=> "config" \in Range(OnTop(st, sc)))
    /\ (st.list <=> "list" \in Range(OnTop(st, sc)))
    /\ (st.bar <=> "bar" \in Range(OnTop(st, sc)))
    /\ "list" \in Range(OnTop(st, sc)) => Above(OnTop(st, sc), "config", "list")
    /\ "bar" \in Range(OnTop(st, sc)) => Above(OnTop(st, sc), "tavern", "bar")

\* What is above and what is below are both in the scene.
LEMMA AboveInside ==
    ASSUME NEW s \in Seq(Widgets), NEW a, NEW b, Above(s, a, b) PROVE a \in Range(s) /\ b \in Range(s)
  BY Members DEF Above

\* Closing a window takes it and its widget out, and nothing else.
LEMMA ClosedAgrees ==
    ASSUME NEW st, scene \in AllScenes, Agrees(st, scene), NEW w \in {"config", "tavern"}
    PROVE  Agrees(closed(st, w), scene) /\ closed(st, w).shown = st.shown \ {w}
<1> DEFINE out == {w} \cup widgetsOf(w)
           s == OnTop(st, scene)
           new == closed(st, w)
           r == Remaining(s, out)
<1>0. s \in Seq(Widgets) /\ Once(s) /\ DOMAIN st.kids = AllScenes
  BY DEF Agrees, OnTop, Holdings
<1>1. /\ r \in Seq(Widgets) /\ Once(r) /\ Range(r) = Range(s) \ out
      /\ \A a, b : Above(s, a, b) /\ a \notin out /\ b \notin out => Above(r, a, b)
  BY <1>0, TakenOut
<1>2. new.kids = [st.kids EXCEPT ![scene] = r]
  BY DEF closed, without, OnTop
<1>3. /\ new.open \in BOOLEAN /\ (new.open <=> st.open /\ w # "config")
      /\ new.list \in BOOLEAN /\ (new.list <=> st.list /\ "list" \notin widgetsOf(w))
      /\ new.bar \in BOOLEAN /\ (new.bar <=> st.bar /\ "bar" \notin widgetsOf(w))
      /\ new.shown = st.shown \ {w}
  BY DEF closed
<1>4. OnTop(new, scene) = r /\ new.kids \in [AllScenes -> Seq(Widgets)] /\ \A z \in AllScenes : z # scene => new.kids[z] = << >>
  BY <1>1, <1>2 DEF Agrees, OnTop, Holdings
<1>5. out = IF w = "config" THEN {"config", "list"} ELSE {"tavern", "bar"}
  BY DEF widgetsOf
<1>6. /\ "list" \in Range(s) => Above(s, "config", "list")
      /\ "bar" \in Range(s) => Above(s, "tavern", "bar")
      /\ st.shown = Range(s) \cap {"config", "tavern"}
      /\ (st.open <=> "config" \in Range(s)) /\ (st.list <=> "list" \in Range(s)) /\ (st.bar <=> "bar" \in Range(s))
  BY DEF Agrees
<1>12. new \in Holdings
  <2>1. st.shown \ {w} \in SUBSET {"config", "tavern"}
    BY DEF Agrees, Holdings
  <2> QED
    BY <1>3, <1>4, <2>1 DEF closed, Holdings
<1> HIDE DEF out, s, new, r
<1>7. new.shown = Range(r) \cap {"config", "tavern"}
  BY <1>1, <1>3, <1>5, <1>6
<1>8. (new.open <=> "config" \in Range(r)) /\ (new.list <=> "list" \in Range(r)) /\ (new.bar <=> "bar" \in Range(r))
  BY <1>1, <1>3, <1>5, <1>6 DEF widgetsOf
<1>9. "list" \in Range(r) => Above(r, "config", "list")
  BY <1>1, <1>5, <1>6
<1>10. "bar" \in Range(r) => Above(r, "tavern", "bar")
  BY <1>1, <1>5, <1>6
<1>11. Agrees(new, scene)
  BY <1>1, <1>4, <1>7, <1>8, <1>9, <1>10, <1>12 DEF Agrees
<1> QED
  BY <1>11, <1>3 DEF new

\* Where no window is shown no widget is either.
LEMMA Bare ==
    ASSUME NEW st, NEW sc \in AllScenes, Agrees(st, sc), st.shown = {}
    PROVE  OnTop(st, sc) = << >>
<1> DEFINE s == OnTop(st, sc)
<1>1. s \in Seq(Widgets)
  BY DEF Agrees, OnTop, Holdings
<1>2. "config" \notin Range(s) /\ "tavern" \notin Range(s)
  BY DEF Agrees
<1>3. "list" \notin Range(s) /\ "bar" \notin Range(s)
  BY <1>1, <1>2, AboveInside DEF Agrees
<1>4. Range(s) = {}
  BY <1>1, <1>2, <1>3, Members DEF Widgets
<1> HIDE DEF s
<1>5. Len(s) = 0
  BY <1>1, <1>4, Members
<1> QED
  BY <1>1, <1>5 DEF s

\* Whichever windows are closed before another opens, the configuration's is; and all, when forced.
LEMMA AllClosed ==
    ASSUME scene \in AllScenes, Agrees(current, scene), NEW force \in BOOLEAN, NEW st \in closedAll(force)
    PROVE  Agrees(st, scene) /\ "config" \notin st.shown /\ (force => st.shown = {})
<1>0. openList \in SUBSET {"config", "tavern"} /\ current.shown = openList
  BY DEF Agrees, Holdings, current
<1>1. \/ openList = {"config"} /\ st = closed(current, "config")
      \/ openList = {} /\ st = current
      \/ st = closed(closed(current, "config"), "tavern")
      \/ ~force /\ st = IF "config" \in openList THEN closed(current, "config") ELSE current
  <2> DEFINE both(s) == closed(closed(s, "config"), "tavern")
             some(s) == IF "config" \in s.shown THEN closed(s, "config") ELSE s
  <2>1. closedAll(force) = IF openList = {"config"} THEN {some(current)}
                           ELSE IF openList = {} THEN {current}
                           ELSE {both(current)} \union (IF force THEN {} ELSE {some(current)})
    BY DEF closedAll
  <2>2. some(current) = IF "config" \in openList THEN closed(current, "config") ELSE current
    BY <1>0
  <2>3. both(current) = closed(closed(current, "config"), "tavern")
    OBVIOUS
  <2> HIDE DEF both, some
  <2>4. openList = {"config"} => st = some(current)
    BY <2>1
  <2>5. openList = {} => st = current
    BY <2>1
  <2>6. openList # {"config"} /\ openList # {} => st = both(current) \/ (~force /\ st = some(current))
    BY <2>1
  <2> QED
    BY <2>2, <2>3, <2>4, <2>5, <2>6
<1>2. Agrees(closed(current, "config"), scene) /\ closed(current, "config").shown = openList \ {"config"}
  BY <1>0, ClosedAgrees
<1>3. /\ Agrees(closed(closed(current, "config"), "tavern"), scene)
      /\ closed(closed(current, "config"), "tavern").shown = (openList \ {"config"}) \ {"tavern"}
  BY <1>2, ClosedAgrees
<1>4. (openList \ {"config"}) \ {"tavern"} = {}
  BY <1>0
<1> QED
  BY <1>0, <1>1, <1>2, <1>3, <1>4

\* Closing the others opens nothing.
LEMMA AllClosedShows ==
    ASSUME scene \in AllScenes, Agrees(current, scene), NEW st \in closedAll(FALSE)
    PROVE  st.shown \subseteq openList
<1>1. st \in {current, closed(current, "config"), closed(closed(current, "config"), "tavern")}
  <2> HIDE DEF closed, current
  <2> QED
    BY DEF closedAll
<1>2. current.shown = openList
  BY DEF current
<1>3. \A z, w : closed(z, w).shown = z.shown \ {w}
  BY DEF closed
<1> QED
  BY <1>1, <1>2, <1>3

\* A step to holdings that agree leaves the state in agreement.
LEMMA BecomesAgrees ==
    ASSUME NEW st, NEW sc, Agrees(st, sc), Becomes(st)
    PROVE  Agrees(current', sc)
<1>1. current' = st
  BY DEF Becomes, current, Agrees, Holdings
<1> QED
  BY <1>1

\* In a menu every window has been closed.
WindowsInv ==
    /\ scene \in AllScenes /\ Agrees(current, scene)
    /\ scene = Menu => openList = {}

\* The configuration window and its list on top of a scene from which it was closed.
LEMMA OpenedAgrees ==
    ASSUME scene \in AllScenes, Agrees(current, scene), NEW st \in opened
    PROVE  Agrees(st, scene)
<1>1. PICK old \in closedAll(FALSE) :
        st = [old EXCEPT !.kids = placed(old.kids, <<"config", "list">>), !.open = TRUE, !.list = TRUE,
                         !.shown = @ \union {"config"}]
  BY DEF opened
<1>2. Agrees(old, scene)
  BY AllClosed
<1> DEFINE s == OnTop(old, scene)
           added == <<"config", "list">>
           r == Remaining(s, Range(added)) \o added
<1>3. s \in Seq(Widgets) /\ Once(s) /\ old \in Holdings
  BY <1>2 DEF Agrees, OnTop, Holdings
<1>4. added \in Seq(Widgets) /\ Once(added) /\ Range(added) = {"config", "list"} /\ Above(added, "config", "list")
  <2>1. added \in Seq(Widgets) /\ Len(added) = 2 /\ added[1] = "config" /\ added[2] = "list"
    BY DEF Widgets
  <2> HIDE DEF added
  <2>2. 1 .. 2 = {1, 2}
    OBVIOUS
  <2>3. Once(added) /\ Above(added, "config", "list")
    BY <2>1, <2>2 DEF Once, Above
  <2>4. Range(added) = {"config", "list"}
    BY <2>1, <2>2, Members
  <2> QED
    BY <2>1, <2>3, <2>4
<1>5. st.kids = [old.kids EXCEPT ![scene] = r] /\ st.open = TRUE /\ st.list = TRUE /\ st.bar = old.bar /\ st.shown = old.shown \cup {"config"}
  BY <1>1, <1>3 DEF placed, OnTop, Holdings
<1> HIDE DEF added
<1>6. /\ r \in Seq(Widgets) /\ Once(r) /\ Range(r) = Range(s) \cup {"config", "list"}
      /\ \A a, b : Above(s, a, b) /\ a \notin Range(added) /\ b \notin Range(added) => Above(r, a, b)
      /\ Above(r, "config", "list")
  BY <1>3, <1>4, PutOnTop
<1>7. OnTop(st, scene) = r /\ st.kids \in [AllScenes -> Seq(Widgets)] /\ \A z \in AllScenes : z # scene => st.kids[z] = << >>
  BY <1>2, <1>5, <1>6 DEF Agrees, OnTop, Holdings
<1>8. st \in Holdings
  <2>1. st.shown \in SUBSET {"config", "tavern"} /\ st.open \in BOOLEAN /\ st.list \in BOOLEAN /\ st.bar \in BOOLEAN
    BY <1>3, <1>5 DEF Holdings
  <2>2. st = [kids |-> st.kids, open |-> st.open, list |-> st.list, bar |-> st.bar, shown |-> st.shown]
    BY <1>1, <1>3 DEF Holdings
  <2> QED
    BY <1>7, <2>1, <2>2 DEF Holdings
<1>9. /\ "list" \in Range(s) => Above(s, "config", "list")
      /\ "bar" \in Range(s) => Above(s, "tavern", "bar")
      /\ old.shown = Range(s) \cap {"config", "tavern"} /\ (old.bar <=> "bar" \in Range(s))
  BY <1>2 DEF Agrees
<1> HIDE DEF s, r
<1>10. "bar" \in Range(r) => Above(r, "tavern", "bar")
  BY <1>4, <1>6, <1>9
<1>11. st.shown = Range(r) \cap {"config", "tavern"}
  BY <1>5, <1>6, <1>9
<1>12. (st.open <=> "config" \in Range(r)) /\ (st.list <=> "list" \in Range(r)) /\ (st.bar <=> "bar" \in Range(r))
  BY <1>5, <1>6, <1>9
<1> QED
  BY <1>6, <1>7, <1>8, <1>10, <1>11, <1>12 DEF Agrees

\* One widget put on top of the scene.
LEMMA OneOnTop ==
    ASSUME NEW s \in Seq(Widgets), Once(s), NEW w \in Widgets
    PROVE  LET r == Remaining(s, Range(<<w>>)) \o <<w>> IN
           /\ r \in Seq(Widgets) /\ Once(r) /\ Range(r) = Range(s) \cup {w}
           /\ \A a, b : Above(s, a, b) /\ a # w /\ b # w => Above(r, a, b)
           /\ \A a : a \in Range(s) \ {w} => Above(r, a, w)
<1> DEFINE added == <<w>>
           r == Remaining(s, Range(added)) \o added
<1>1. added \in Seq(Widgets) /\ Len(added) = 1 /\ added[1] = w
  OBVIOUS
<1> HIDE DEF added
<1>2. 1 .. 1 = {1}
  OBVIOUS
<1>3. Once(added)
  BY <1>1, <1>2 DEF Once
<1>4. Range(added) = {w}
  BY <1>1, <1>2, Members
<1>5. /\ r \in Seq(Widgets) /\ Once(r) /\ Range(r) = Range(s) \cup Range(added)
      /\ \A a, b : Above(s, a, b) /\ a \notin Range(added) /\ b \notin Range(added) => Above(r, a, b)
      /\ \A a, b : a \in Range(s) \ Range(added) /\ b \in Range(added) => Above(r, a, b)
  BY <1>1, <1>3, PutOnTop
<1> HIDE DEF r
<1>6. /\ \A a, b : Above(s, a, b) /\ a # w /\ b # w => Above(r, a, b)
      /\ \A a : a \in Range(s) \ {w} => Above(r, a, w)
  BY <1>4, <1>5
<1> QED
  BY <1>4, <1>5, <1>6 DEF r, added

\* A scene's children replaced, the other scenes left empty.
LEMMA Replaced ==
    ASSUME scene \in AllScenes, NEW kids \in [AllScenes -> Seq(Widgets)], NEW r \in Seq(Widgets),
           \A z \in AllScenes : z # scene => kids[z] = << >>,
           NEW new, new = [kids EXCEPT ![scene] = r]
    PROVE  new[scene] = r /\ new \in [AllScenes -> Seq(Widgets)] /\ \A z \in AllScenes : z # scene => new[z] = << >>
  OBVIOUS

\* The tavern on top of a scene from which it was closed.
LEMMA TavernAgrees ==
    ASSUME scene \in AllScenes, NEW old, Agrees(old, scene), "tavern" \notin old.shown,
           NEW st, st = [old EXCEPT !.kids = placed(old.kids, <<"tavern">>), !.shown = @ \union {"tavern"}]
    PROVE  Agrees(st, scene)
<1> DEFINE s == OnTop(old, scene)
           r == Remaining(s, Range(<<"tavern">>)) \o <<"tavern">>
<1>1. s \in Seq(Widgets) /\ Once(s) /\ old \in Holdings /\ "tavern" \in Widgets
  BY DEF Agrees, OnTop, Holdings, Widgets
<1>2. /\ r \in Seq(Widgets) /\ Once(r) /\ Range(r) = Range(s) \cup {"tavern"}
      /\ \A a, b : Above(s, a, b) /\ a # "tavern" /\ b # "tavern" => Above(r, a, b)
  BY <1>1, OneOnTop
<1>3. /\ st.kids = [old.kids EXCEPT ![scene] = r] /\ st.open = old.open /\ st.list = old.list /\ st.bar = old.bar
      /\ st.shown = old.shown \cup {"tavern"}
  BY <1>1 DEF placed, OnTop, Holdings
<1>4. OnTop(st, scene) = r /\ st.kids \in [AllScenes -> Seq(Widgets)] /\ \A z \in AllScenes : z # scene => st.kids[z] = << >>
  <2>1. old.kids \in [AllScenes -> Seq(Widgets)] /\ \A z \in AllScenes : z # scene => old.kids[z] = << >>
    BY DEF Agrees, Holdings
  <2>2. r \in Seq(Widgets)
    BY <1>2
  <2> HIDE DEF r
  <2> QED
    BY <1>3, <2>1, <2>2, Replaced DEF OnTop
<1>5. st \in Holdings
  <2>1. st.shown \in SUBSET {"config", "tavern"} /\ st.open \in BOOLEAN /\ st.list \in BOOLEAN /\ st.bar \in BOOLEAN
    BY <1>1, <1>3 DEF Holdings
  <2>2. st = [kids |-> st.kids, open |-> st.open, list |-> st.list, bar |-> st.bar, shown |-> st.shown]
    BY <1>1 DEF Holdings
  <2> QED
    BY <1>4, <2>1, <2>2 DEF Holdings
<1>6. /\ "list" \in Range(s) => Above(s, "config", "list")
      /\ "bar" \in Range(s) => Above(s, "tavern", "bar")
      /\ old.shown = Range(s) \cap {"config", "tavern"}
      /\ (old.open <=> "config" \in Range(s)) /\ (old.list <=> "list" \in Range(s)) /\ (old.bar <=> "bar" \in Range(s))
  BY DEF Agrees
<1> HIDE DEF s, r
<1>7. "bar" \notin Range(s)
  BY <1>1, <1>6, AboveInside
<1>8. st.shown = Range(r) \cap {"config", "tavern"}
  BY <1>2, <1>3, <1>6
<1>9. (st.open <=> "config" \in Range(r)) /\ (st.list <=> "list" \in Range(r)) /\ (st.bar <=> "bar" \in Range(r))
  BY <1>2, <1>3, <1>6
<1>10. ("list" \in Range(r) => Above(r, "config", "list")) /\ ("bar" \in Range(r) => Above(r, "tavern", "bar"))
  BY <1>2, <1>6, <1>7
<1> QED
  BY <1>2, <1>4, <1>5, <1>8, <1>9, <1>10 DEF Agrees

\* The captains' bar on top of the scene the tavern is open in.
LEMMA BarAgrees ==
    ASSUME scene \in AllScenes, Agrees(current, scene), "tavern" \in openList,
           NEW st, st = [current EXCEPT !.kids = placed(children, <<"bar">>), !.bar = TRUE]
    PROVE  Agrees(st, scene)
<1> DEFINE s == OnTop(current, scene)
           r == Remaining(s, Range(<<"bar">>)) \o <<"bar">>
<1>1. s \in Seq(Widgets) /\ Once(s) /\ current \in Holdings /\ "bar" \in Widgets
  BY DEF Agrees, OnTop, Holdings, Widgets
<1>2. /\ r \in Seq(Widgets) /\ Once(r) /\ Range(r) = Range(s) \cup {"bar"}
      /\ \A a, b : Above(s, a, b) /\ a # "bar" /\ b # "bar" => Above(r, a, b)
      /\ \A a : a \in Range(s) \ {"bar"} => Above(r, a, "bar")
  BY <1>1, OneOnTop
<1>3. /\ st.kids = [children EXCEPT ![scene] = r] /\ st.open = open /\ st.list = listAttached /\ st.bar = TRUE
      /\ st.shown = openList
  BY <1>1 DEF placed, OnTop, Holdings, current
<1>4. OnTop(st, scene) = r /\ st.kids \in [AllScenes -> Seq(Widgets)] /\ \A z \in AllScenes : z # scene => st.kids[z] = << >>
  <2>1. children \in [AllScenes -> Seq(Widgets)] /\ \A z \in AllScenes : z # scene => children[z] = << >>
    BY DEF Agrees, Holdings, current
  <2>2. r \in Seq(Widgets)
    BY <1>2
  <2> HIDE DEF r
  <2> QED
    BY <1>3, <2>1, <2>2, Replaced DEF OnTop
<1>5. st \in Holdings
  <2>1. st.shown \in SUBSET {"config", "tavern"} /\ st.open \in BOOLEAN /\ st.list \in BOOLEAN /\ st.bar \in BOOLEAN
    BY <1>1, <1>3 DEF Holdings, current
  <2>2. st = [kids |-> st.kids, open |-> st.open, list |-> st.list, bar |-> st.bar, shown |-> st.shown]
    BY <1>1 DEF Holdings, current
  <2> QED
    BY <1>4, <2>1, <2>2 DEF Holdings
<1>6. /\ "list" \in Range(s) => Above(s, "config", "list")
      /\ openList = Range(s) \cap {"config", "tavern"}
      /\ (open <=> "config" \in Range(s)) /\ (listAttached <=> "list" \in Range(s))
  BY DEF Agrees, current
<1> HIDE DEF s, r
<1>8. st.shown = Range(r) \cap {"config", "tavern"}
  BY <1>2, <1>3, <1>6
<1>9. (st.open <=> "config" \in Range(r)) /\ (st.list <=> "list" \in Range(r)) /\ (st.bar <=> "bar" \in Range(r))
  BY <1>2, <1>3, <1>6
<1>10. "list" \in Range(r) => Above(r, "config", "list")
  BY <1>2, <1>6
<1>11. Above(r, "tavern", "bar")
  BY <1>2, <1>6
<1> QED
  BY <1>2, <1>4, <1>5, <1>8, <1>9, <1>10, <1>11 DEF Agrees

\* The captains' bar taken off again.
LEMMA BarOffAgrees ==
    ASSUME scene \in AllScenes, Agrees(current, scene),
           NEW st, st = [current EXCEPT !.kids = without(children, {"bar"}), !.bar = FALSE]
    PROVE  Agrees(st, scene)
<1> DEFINE s == OnTop(current, scene)
           out == {"bar"}
           r == Remaining(s, out)
<1>1. s \in Seq(Widgets) /\ Once(s) /\ current \in Holdings
  BY DEF Agrees, OnTop, Holdings
<1>2. /\ r \in Seq(Widgets) /\ Once(r) /\ Range(r) = Range(s) \ out
      /\ \A a, b : Above(s, a, b) /\ a \notin out /\ b \notin out => Above(r, a, b)
  BY <1>1, TakenOut
<1>3. /\ st.kids = [children EXCEPT ![scene] = r] /\ st.open = open /\ st.list = listAttached /\ st.bar = FALSE
      /\ st.shown = openList
  BY <1>1 DEF without, OnTop, Holdings, current
<1>4. OnTop(st, scene) = r /\ st.kids \in [AllScenes -> Seq(Widgets)] /\ \A z \in AllScenes : z # scene => st.kids[z] = << >>
  <2>1. children \in [AllScenes -> Seq(Widgets)] /\ \A z \in AllScenes : z # scene => children[z] = << >>
    BY DEF Agrees, Holdings, current
  <2>2. r \in Seq(Widgets)
    BY <1>2
  <2> HIDE DEF r
  <2> QED
    BY <1>3, <2>1, <2>2, Replaced DEF OnTop
<1>5. st \in Holdings
  <2>1. st.shown \in SUBSET {"config", "tavern"} /\ st.open \in BOOLEAN /\ st.list \in BOOLEAN /\ st.bar \in BOOLEAN
    BY <1>1, <1>3 DEF Holdings, current
  <2>2. st = [kids |-> st.kids, open |-> st.open, list |-> st.list, bar |-> st.bar, shown |-> st.shown]
    BY <1>1 DEF Holdings, current
  <2> QED
    BY <1>4, <2>1, <2>2 DEF Holdings
<1>6. /\ "list" \in Range(s) => Above(s, "config", "list")
      /\ openList = Range(s) \cap {"config", "tavern"}
      /\ (open <=> "config" \in Range(s)) /\ (listAttached <=> "list" \in Range(s))
  BY DEF Agrees, current
<1> HIDE DEF s, r
<1>8. st.shown = Range(r) \cap {"config", "tavern"}
  BY <1>2, <1>3, <1>6
<1>9. (st.open <=> "config" \in Range(r)) /\ (st.list <=> "list" \in Range(r)) /\ (st.bar <=> "bar" \in Range(r))
  BY <1>2, <1>3, <1>6
<1>10. ("list" \in Range(r) => Above(r, "config", "list")) /\ ("bar" \in Range(r) => Above(r, "tavern", "bar"))
  BY <1>2, <1>6
<1> QED
  BY <1>2, <1>4, <1>5, <1>8, <1>9, <1>10 DEF Agrees

\* A session starts with empty scenes and closed windows.
LEMMA WindowsStart == WindowsInit => WindowsInv
<1> SUFFICES ASSUME WindowsInit PROVE WindowsInv
  OBVIOUS
<1>1. scene \in AllScenes /\ openList = {} /\ children = [s \in AllScenes |-> << >>]
  BY ScenesAssumption DEF WindowsInit, AllScenes
<1>2. << >> \in Seq(Widgets) /\ Once(<< >>) /\ Range(<< >>) = {}
  <2>1. << >> \in Seq(Widgets) /\ Len(<< >>) = 0 /\ 1 .. 0 = {}
    OBVIOUS
  <2> QED
    BY <2>1, Members DEF Once
<1>3. current \in Holdings
  BY <1>1, <1>2 DEF WindowsInit, Holdings, current
<1>4. OnTop(current, scene) = << >> /\ \A z \in AllScenes : current.kids[z] = << >>
  BY <1>1 DEF OnTop, current
<1>5. ~current.open /\ ~current.list /\ ~current.bar /\ current.shown = {}
  BY DEF WindowsInit, current
<1> QED
  BY <1>1, <1>2, <1>3, <1>4, <1>5 DEF WindowsInv, Agrees

\* Every key, click, frame and change of scene keeps what the mods remember true.
LEMMA WindowsStep == WindowsInv /\ [WindowsNext]_windowVars => WindowsInv'
<1> SUFFICES ASSUME WindowsInv, [WindowsNext]_windowVars PROVE WindowsInv'
  OBVIOUS
<1>0. scene \in AllScenes /\ Agrees(current, scene) /\ (scene = Menu => openList = {})
      /\ openList \in SUBSET {"config", "tavern"}
  BY DEF WindowsInv, Agrees, Holdings, current
<1>1. CASE toggle
  <2>1. PICK st \in (IF open THEN {closed(current, "config")} ELSE opened) : Becomes(st)
    BY <1>1 DEF toggle
  <2>2. Agrees(st, scene)
    BY <1>0, <2>1, ClosedAgrees, OpenedAgrees
  <2> QED
    BY <1>0, <1>1, <2>1, <2>2, BecomesAgrees DEF toggle, WindowsInv
<1>2. CASE Escape
  <2>1. PICK w \in openList : Becomes(closed(current, w))
    BY <1>2 DEF Escape
  <2>2. Agrees(closed(current, w), scene)
    BY <1>0, ClosedAgrees
  <2>3. scene' = scene /\ scene # Menu
    BY <1>0, <1>2 DEF Escape
  <2> QED
    BY <1>0, <2>1, <2>2, <2>3, BecomesAgrees DEF WindowsInv
<1>3. CASE OpenTavern
  <2>1. PICK old \in closedAll(FALSE) :
          Becomes([old EXCEPT !.kids = placed(old.kids, <<"tavern">>), !.shown = @ \union {"tavern"}])
    BY <1>3 DEF OpenTavern
  <2>2. Agrees(old, scene)
    BY <1>0, AllClosed
  <2>3. "tavern" \notin old.shown
    <3>1. old.shown \subseteq openList
      BY <1>0, AllClosedShows
    <3> QED
      BY <1>3, <3>1 DEF OpenTavern
  <2>4. Agrees([old EXCEPT !.kids = placed(old.kids, <<"tavern">>), !.shown = @ \union {"tavern"}], scene)
    BY <1>0, <2>2, <2>3, TavernAgrees
  <2>5. scene' = scene /\ scene # Menu
    BY <1>3 DEF OpenTavern
  <2> QED
    BY <1>0, <2>1, <2>4, <2>5, BecomesAgrees DEF WindowsInv
<1>4. CASE update
  <2>1. "tavern" \in openList /\ scene' = scene /\ scene # Menu
    BY <1>0, <1>4 DEF update
  <2>2. \/ Becomes([current EXCEPT !.kids = placed(children, <<"bar">>), !.bar = TRUE])
        \/ Becomes([current EXCEPT !.kids = without(children, {"bar"}), !.bar = FALSE])
        \/ current' = current
    BY <1>4 DEF update, current
  <2>3. Agrees(current', scene)
    BY <1>0, <2>1, <2>2, BarAgrees, BarOffAgrees, BecomesAgrees
  <2> QED
    BY <1>0, <2>1, <2>3 DEF WindowsInv
<1>5. CASE SetPage \/ PageKey \/ UNCHANGED windowVars
  <2>1. current' = current /\ scene' = scene /\ openList' = openList
    BY <1>5 DEF SetPage, PageKey, windowVars, current
  <2> QED
    BY <1>0, <2>1 DEF WindowsInv
<1>6. CASE ChangeScene
  <2>1. PICK st \in closedAll(TRUE) : Becomes(st)
    BY <1>6 DEF ChangeScene
  <2>2. Agrees(st, scene) /\ st.shown = {}
    BY <1>0, AllClosed
  <2>3. \A z \in AllScenes : st.kids[z] = << >>
    BY <1>0, <2>2, Bare DEF Agrees, OnTop
  <2>4. scene' \in AllScenes
    BY <1>6 DEF ChangeScene, AllScenes
  <2>5. OnTop(st, scene') = OnTop(st, scene)
    BY <1>0, <2>3, <2>4 DEF OnTop
  <2>6. Agrees(st, scene')
    BY <2>2, <2>3, <2>4, <2>5 DEF Agrees
  <2>7. openList' = {}
    BY <2>1, <2>2 DEF Becomes
  <2> QED
    BY <2>1, <2>4, <2>6, <2>7, BecomesAgrees DEF WindowsInv
<1>7. CASE QuitToMenu
  <2>1. scene' = scene /\ openList' = {} /\ openList = {}
    BY <1>0, <1>7 DEF QuitToMenu
  <2>2. \A z \in AllScenes : children[z] = << >>
    BY <1>0, <2>1, Bare DEF Agrees, OnTop, current
  <2>3. children \in [AllScenes -> Seq(Widgets)]
    BY <1>0 DEF Agrees, Holdings, current
  <2>4. children' = children
    BY <1>7, <2>2, <2>3 DEF QuitToMenu, AllScenes
  <2>5. current' = current
    BY <1>7, <2>1, <2>4 DEF QuitToMenu, current
  <2> QED
    BY <1>0, <2>1, <2>5 DEF WindowsInv
<1> QED
  BY <1>1, <1>2, <1>3, <1>4, <1>5, <1>6, <1>7 DEF WindowsNext

\* A widget lies where it is the only one of its kind.
LEMMA PlaceIs ==
    ASSUME WindowsInv, NEW i \in 1 .. Len(children[scene])
    PROVE  place(children[scene][i]) = i
  BY DEF WindowsInv, Agrees, OnTop, current, Once, place

\* What is above lies in a later place.
LEMMA AbovePlace ==
    ASSUME WindowsInv, NEW a, NEW b, Above(children[scene], a, b)
    PROVE  place(a) < place(b)
<1>1. PICK i \in 1 .. Len(children[scene]), j \in 1 .. Len(children[scene]) :
        i < j /\ children[scene][i] = a /\ children[scene][j] = b
  BY DEF Above
<1> QED
  BY <1>1, PlaceIs

\* The order of the scene is the order of the places in it.
LEMMA WindowsAgree == WindowsInv => NothingLeftBehind
<1> SUFFICES ASSUME WindowsInv PROVE NothingLeftBehind
  OBVIOUS
<1> DEFINE s == children[scene]
<1>1. /\ scene \in AllScenes /\ \A z \in AllScenes : z # scene => children[z] = << >>
      /\ s \in Seq(Widgets)
      /\ openList = Range(s) \cap {"config", "tavern"}
      /\ open \in BOOLEAN /\ listAttached \in BOOLEAN /\ barAttached \in BOOLEAN
      /\ (open <=> "config" \in Range(s)) /\ (listAttached <=> "list" \in Range(s)) /\ (barAttached <=> "bar" \in Range(s))
      /\ ("list" \in Range(s) => Above(s, "config", "list")) /\ ("bar" \in Range(s) => Above(s, "tavern", "bar"))
  BY DEF WindowsInv, Agrees, OnTop, current, Holdings
<1>2. listAttached => open /\ place("config") < place("list")
  BY <1>1, AboveInside, AbovePlace
<1>3. barAttached => "tavern" \in openList /\ place("tavern") < place("bar")
  BY <1>1, AboveInside, AbovePlace
<1> QED
  BY <1>1, <1>2, <1>3 DEF NothingLeftBehind, shownIn, AllScenes

\* Toggles, ESC, windows that close one another, changes of scene and quitting to the menu in
\* any order leave no widget behind in a scene, none under its window, and the mods'
\* own flags true.
THEOREM WindowsLeaveNothing == WindowsSpec => []NothingLeftBehind
<1>1. WindowsSpec => []WindowsInv
  BY WindowsStart, WindowsStep, PTL DEF WindowsSpec
<1> QED
  BY <1>1, WindowsAgree, PTL

-----------------------------------------------------------------------------
(* NavpointMatrix: what the table declares is what is left to go, whatever *)
(* trees of shortest paths its rows were taken from.                       *)

\* The length of every leg.
IsLengths(len) ==
    /\ len \in [Navpoints \X Navpoints -> Nat]
    /\ \A a \in Navpoints, b \in Navpoints : a = b <=> len[<<a, b>>] = 0

\* A row of distances that no leg shortens.
NoShorter(dist, C, len) == \A a \in Navpoints, b \in Navpoints : <<a, b>> \in C => dist[b] <= dist[a] + len[<<a, b>>]

\* The row of s: distances along a tree of legs, and on every path its first node.
IsTree(parents, dist, next, s, C, len) ==
    /\ dist[s] = 0
    /\ next[s] = s
    /\ \A t \in Navpoints \ {s} :
          /\ parents[t] # t
          /\ <<parents[t], t>> \in C
          /\ dist[t] = dist[parents[t]] + len[<<parents[t], t>>]
          /\ next[t] = IF parents[t] = s THEN t ELSE next[parents[t]]

IsRow(dist, next, s, C, len) ==
    /\ dist \in [Navpoints -> Nat]
    /\ \E parents \in [Navpoints -> Navpoints] : IsTree(parents, dist, next, s, C, len)
    /\ NoShorter(dist, C, len)

\* What holds at the root and passes from the parent to the node holds at every node.
LEMMA DownTheTree ==
    ASSUME NEW s \in Navpoints, NEW C, NEW len, IsLengths(len),
           NEW dist \in [Navpoints -> Nat], NEW next, NEW parents \in [Navpoints -> Navpoints],
           IsTree(parents, dist, next, s, C, len),
           NEW T, s \in T, \A t \in Navpoints \ {s} : parents[t] \in T => t \in T
    PROVE  \A t \in Navpoints : t \in T
<1> SUFFICES ASSUME NEW u \in Navpoints \ T PROVE FALSE
  OBVIOUS
<1> DEFINE Far == {dist[t] : t \in Navpoints \ T}
<1>1. Far \in SUBSET Nat /\ Far # {}
  OBVIOUS
<1> HIDE DEF Far
<1>2. PICK n \in Far : \A m \in Far : n <= m
  BY <1>1, LeastNatural
<1>3. PICK t \in Navpoints \ T : n = dist[t]
  BY <1>2 DEF Far
<1>4. t \in Navpoints \ {s} /\ parents[t] \in Navpoints \ T /\ parents[t] # t
      /\ dist[t] = dist[parents[t]] + len[<<parents[t], t>>]
  BY <1>3 DEF IsTree
<1>5. dist[parents[t]] \in Far
  BY <1>4 DEF Far
<1> DEFINE a == dist[parents[t]]
           b == dist[t]
           c == len[<<parents[t], t>>]
<1>6. a \in Nat /\ b \in Nat /\ c \in Nat /\ c > 0
  BY <1>4 DEF IsLengths
<1>7. b = a + c /\ b <= a
  BY <1>2, <1>3, <1>4, <1>5
<1> HIDE DEF a, b, c
<1> QED
  BY <1>6, <1>7

\* No row without shortcuts gets further below a node than the tree does.
LEMMA NoFurtherThanTheTree ==
    ASSUME NEW s \in Navpoints, NEW C, NEW len, IsLengths(len), NEW dist, NEW next, IsRow(dist, next, s, C, len),
           NEW F \in [Navpoints -> Nat], NoShorter(F, C, len)
    PROVE  \A t \in Navpoints : F[t] <= F[s] + dist[t]
<1>1. PICK parents \in [Navpoints -> Navpoints] : IsTree(parents, dist, next, s, C, len)
  BY DEF IsRow
<1>2. dist \in [Navpoints -> Nat]
  BY DEF IsRow
<1> DEFINE T == {t \in Navpoints : F[t] <= F[s] + dist[t]}
<1>3. s \in T
  BY <1>1 DEF IsTree
<1>4. ASSUME NEW t \in Navpoints \ {s}, parents[t] \in T PROVE t \in T
  <2> DEFINE p == parents[t]
             l == len[<<p, t>>]
  <2>1. p \in Navpoints /\ <<p, t>> \in C /\ dist[t] = dist[p] + l
    BY <1>1 DEF IsTree
  <2>2. F[t] <= F[p] + l /\ F[p] <= F[s] + dist[p]
    BY <1>4, <2>1 DEF NoShorter
  <2>3. l \in Nat /\ F[t] \in Nat /\ F[p] \in Nat /\ F[s] \in Nat /\ dist[p] \in Nat
    BY <1>2, <2>1 DEF IsLengths
  <2> HIDE DEF p, l
  <2>4. F[t] <= F[s] + dist[t]
    BY <2>1, <2>2, <2>3
  <2> QED
    BY <2>4
<1> HIDE DEF T
<1>5. \A t \in Navpoints : t \in T
  BY <1>1, <1>2, <1>3, <1>4, DownTheTree
<1> QED
  BY <1>5 DEF T

\* The first node h of the path to t: a leg leads there, t is next on the way to h, and no
\* row without shortcuts gets further below h than the path does.
FirstNode(h, t, dist, next, s, C, len) ==
    /\ h \in Navpoints \ {s}
    /\ <<s, h>> \in C
    /\ dist[h] = len[<<s, h>>]
    /\ next[h] = h
    /\ \A F \in [Navpoints -> Nat] : NoShorter(F, C, len) => F[t] + dist[h] <= F[h] + dist[t]

LEMMA NextIsFirst ==
    ASSUME NEW s \in Navpoints, NEW C, NEW len, IsLengths(len), NEW dist, NEW next, IsRow(dist, next, s, C, len)
    PROVE  \A t \in Navpoints \ {s} : FirstNode(next[t], t, dist, next, s, C, len)
<1>1. PICK parents \in [Navpoints -> Navpoints] : IsTree(parents, dist, next, s, C, len)
  BY DEF IsRow
<1>2. dist \in [Navpoints -> Nat]
  BY DEF IsRow
<1> DEFINE T == {t \in Navpoints : t # s => FirstNode(next[t], t, dist, next, s, C, len)}
<1>3. s \in T
  OBVIOUS
<1>4. ASSUME NEW t \in Navpoints \ {s}, parents[t] \in T PROVE t \in T
  <2> DEFINE p == parents[t]
             l == len[<<p, t>>]
             h == next[t]
  <2>1. p \in Navpoints /\ <<p, t>> \in C /\ dist[t] = dist[p] + l /\ dist[s] = 0
        /\ next[t] = IF p = s THEN t ELSE next[p]
    BY <1>1 DEF IsTree
  <2>2. l \in Nat /\ dist[t] \in Nat /\ dist[p] \in Nat
    BY <1>2, <2>1 DEF IsLengths
  <2>3. CASE p = s
    <3>1. h = t /\ dist[h] = len[<<s, h>>]
      BY <2>1, <2>2, <2>3
    <3>2. \A F \in [Navpoints -> Nat] : F[t] + dist[t] <= F[t] + dist[t]
      BY <2>2
    <3> QED
      BY <2>1, <2>3, <3>1, <3>2 DEF FirstNode
  <2>4. CASE p # s
    <3>1. FirstNode(h, p, dist, next, s, C, len)
      BY <1>4, <2>1, <2>4
    <3>2. h \in Navpoints /\ dist[h] \in Nat
      BY <1>2, <3>1 DEF FirstNode
    <3>3. ASSUME NEW F \in [Navpoints -> Nat], NoShorter(F, C, len) PROVE F[t] + dist[h] <= F[h] + dist[t]
      <4>1. F[p] + dist[h] <= F[h] + dist[p] /\ F[t] <= F[p] + l
        BY <2>1, <3>1, <3>3 DEF FirstNode, NoShorter
      <4>2. F[p] \in Nat /\ F[t] \in Nat /\ F[h] \in Nat
        BY <2>1, <3>2
      <4> HIDE DEF p, l, h
      <4> QED
        BY <2>1, <2>2, <3>2, <4>1, <4>2
    <3> HIDE DEF p, l, h
    <3>4. FirstNode(h, t, dist, next, s, C, len)
      BY <3>1, <3>3 DEF FirstNode
    <3> QED
      BY <3>4 DEF h
  <2> QED
    BY <2>3, <2>4
<1> HIDE DEF T
<1>5. \A t \in Navpoints : t \in T
  BY <1>1, <1>2, <1>3, <1>4, DownTheTree
<1> QED
  BY <1>5 DEF T

\* Where two rows over the same legs meet: what is left at the next node is what was
\* declared less the leg to it.
IsLeft(onward, s, t, dist, next, len) == dist[t] = len[<<s, next[t]>>] + onward[t]

LEMMA WhatIsLeft ==
    ASSUME NEW s \in Navpoints, NEW t \in Navpoints \ {s}, NEW C, NEW len, IsLengths(len),
           NEW dist, NEW next, IsRow(dist, next, s, C, len),
           NEW onward, NEW after, IsRow(onward, after, next[t], C, len)
    PROVE  IsLeft(onward, s, t, dist, next, len)
<1> DEFINE h == next[t]
<1>1. FirstNode(h, t, dist, next, s, C, len)
  BY NextIsFirst
<1>2. h \in Navpoints
  BY <1>1 DEF FirstNode
<1>3. IsRow(onward, after, h, C, len)
  OBVIOUS
<1>4. dist \in [Navpoints -> Nat] /\ onward \in [Navpoints -> Nat] /\ NoShorter(dist, C, len) /\ NoShorter(onward, C, len)
  BY <1>3 DEF IsRow
<1>5. onward[h] = 0
  BY <1>3 DEF IsRow, IsTree
<1> HIDE DEF h
<1>6. onward[t] + dist[h] <= onward[h] + dist[t]
  BY <1>1, <1>4 DEF FirstNode
<1>7. dist[t] <= dist[h] + onward[t]
  BY <1>2, <1>3, <1>4, NoFurtherThanTheTree
<1>8. dist[h] = len[<<s, h>>]
  BY <1>1 DEF FirstNode
<1>9. dist[t] \in Nat /\ dist[h] \in Nat /\ onward[t] \in Nat
  BY <1>2, <1>4
<1>10. dist[t] = len[<<s, h>>] + onward[t]
  BY <1>5, <1>6, <1>7, <1>8, <1>9
<1> QED
  BY <1>10 DEF IsLeft, h

IsTable(D, X, C, len) == \A s \in Navpoints : IsRow(D[s], X[s], s, C, len)

\* The legs that a table goes by directly.
GoesBy(L, X) == \A a \in Navpoints, b \in Navpoints : <<a, b>> \in L <=> X[a][b] = b

\* A table made of the legs that another goes by directly declares what that one did.
LEMMA LegsOfATable ==
    ASSUME NEW C, NEW len, IsLengths(len),
           NEW D, NEW X, IsTable(D, X, C, len), NEW L, GoesBy(L, X),
           NEW s \in Navpoints, NEW dist, NEW next, IsRow(dist, next, s, L, len)
    PROVE  \A t \in Navpoints : dist[t] = D[s][t]
<1> USE DEF IsTable, GoesBy
<1>1. dist \in [Navpoints -> Nat] /\ NoShorter(dist, L, len) /\ dist[s] = 0
  BY DEF IsRow, IsTree
<1>2. \A a \in Navpoints : D[a] \in [Navpoints -> Nat] /\ D[a][a] = 0 /\ NoShorter(D[a], C, len)
  BY DEF IsRow, IsTree
<1>3. ASSUME NEW a \in Navpoints, NEW t \in Navpoints \ {a}
      PROVE  /\ X[a][t] \in Navpoints \ {a}
             /\ <<a, X[a][t]>> \in C
             /\ X[a][X[a][t]] = X[a][t]
             /\ D[a][t] = len[<<a, X[a][t]>>] + D[X[a][t]][t]
  <2> DEFINE d == D[a]
             x == X[a]
             onward == D[x[t]]
             after == X[x[t]]
  <2>1. IsRow(d, x, a, C, len)
    OBVIOUS
  <2> HIDE DEF d, x
  <2>2. FirstNode(x[t], t, d, x, a, C, len)
    BY <2>1, NextIsFirst
  <2>3. IsRow(onward, after, x[t], C, len)
    BY <2>2 DEF FirstNode
  <2> HIDE DEF onward, after
  <2>4. IsLeft(onward, a, t, d, x, len)
    BY <2>1, <2>3, WhatIsLeft
  <2> QED
    BY <2>2, <2>4 DEF IsLeft, FirstNode, d, x, onward
<1>4. NoShorter(D[s], L, len)
  <2> SUFFICES ASSUME NEW a \in Navpoints, NEW b \in Navpoints, <<a, b>> \in L
               PROVE  D[s][b] <= D[s][a] + len[<<a, b>>]
    BY DEF NoShorter
  <2>1. D[s][b] \in Nat /\ D[s][a] \in Nat /\ len[<<a, b>>] \in Nat
    BY <1>2 DEF IsLengths
  <2>2. CASE a = b
    BY <2>1, <2>2
  <2>3. CASE a # b
    <3>1. X[a][b] = b /\ b \in Navpoints \ {a}
      BY <2>3
    <3>2. <<a, b>> \in C
      BY <1>3, <3>1
    <3> QED
      BY <1>2, <3>2 DEF NoShorter
  <2> QED
    BY <2>2, <2>3
<1>5. \A t \in Navpoints : D[s][t] <= dist[t]
  <2>1. \A t \in Navpoints : D[s][t] <= D[s][s] + dist[t]
    BY <1>2, <1>4, NoFurtherThanTheTree
  <2> QED
    BY <1>1, <1>2, <2>1
<1> DEFINE Near(a, t) == dist[t] <= dist[a] + D[a][t]
           Bad == {n \in Nat : \E a \in Navpoints, t \in Navpoints : n = D[a][t] /\ ~Near(a, t)}
<1>6. Bad = {}
  <2> SUFFICES ASSUME Bad # {} PROVE FALSE
    OBVIOUS
  <2>1. PICK n \in Bad : \A m \in Bad : n <= m
    BY LeastNatural
  <2>2. PICK a \in Navpoints, t \in Navpoints : n = D[a][t] /\ ~Near(a, t)
    BY <2>1
  <2>3. a # t
    BY <1>1, <1>2, <2>2
  <2> DEFINE h == X[a][t]
             l == len[<<a, h>>]
             x == D[a][t]
             y == D[h][t]
  <2>4. h \in Navpoints /\ h # a /\ X[a][h] = h /\ x = l + y
    BY <1>3, <2>3
  <2>5. <<a, h>> \in L
    BY <2>4
  <2>6. dist[h] <= dist[a] + l
    BY <1>1, <2>4, <2>5 DEF NoShorter
  <2>7. l \in Nat /\ l > 0 /\ x \in Nat /\ y \in Nat
    BY <1>2, <2>4 DEF IsLengths
  <2> HIDE DEF h, l
  <2>8. CASE Near(h, t)
    <3>1. dist[t] \in Nat /\ dist[a] \in Nat /\ dist[h] \in Nat
      BY <1>1, <2>4
    <3>2. dist[t] <= dist[h] + y /\ ~(dist[t] <= dist[a] + x)
      BY <2>2, <2>8
    <3> HIDE DEF x, y
    <3> QED
      BY <2>4, <2>6, <2>7, <3>1, <3>2
  <2>9. CASE ~Near(h, t)
    <3>1. y \in Bad
      BY <2>4, <2>7, <2>9
    <3>2. x <= y
      BY <2>1, <2>2, <3>1
    <3> HIDE DEF x, y
    <3> QED
      BY <2>4, <2>7, <3>2
  <2> QED
    BY <2>8, <2>9
<1>7. ASSUME NEW t \in Navpoints PROVE dist[t] = D[s][t]
  <2>1. D[s][t] \in Nat /\ dist[t] \in Nat
    BY <1>1, <1>2
  <2>2. Near(s, t)
    BY <1>6, <2>1
  <2> QED
    BY <1>1, <1>5, <2>1, <2>2
<1> QED
  BY <1>7

\* The table's lengths are numbers, and only a point is no way from itself.
LEMMA RootIs ==
    ASSUME NEW k \in 0 .. MAP_WIDTH * MAP_WIDTH + MAP_HEIGHT * MAP_HEIGHT
    PROVE  Root[k] \in Nat /\ (k = 0 <=> Root[k] = 0)
<1> DEFINE q == 4 * SCALE * SCALE
           a == SCALE * (MAP_WIDTH + MAP_HEIGHT)
           IsRoot(d) == /\ q * k < (2 * d + 1) * (2 * d + 1)
                        /\ d = 0 \/ (2 * d - 1) * (2 * d - 1) <= q * k
           Overshoot == {d \in Nat : q * k < (2 * d + 1) * (2 * d + 1)}
<1>1. MAP_WIDTH \in Nat /\ MAP_HEIGHT \in Nat /\ SCALE \in Nat /\ SCALE > 0
  BY NavAssumption
<1>2. q \in Nat /\ q >= 4 /\ a \in Nat /\ k \in Nat
  <2>1. SCALE * SCALE >= 1 /\ SCALE * SCALE \in Nat
    BY <1>1
  <2>2. q = 4 * (SCALE * SCALE)
    BY <1>1
  <2>3. MAP_WIDTH + MAP_HEIGHT \in Nat
    BY <1>1
  <2> QED
    BY <1>1, <2>1, <2>2, <2>3
<1>3. a \in Overshoot
  <2> DEFINE m == MAP_WIDTH + MAP_HEIGHT
             squares == MAP_WIDTH * MAP_WIDTH + MAP_HEIGHT * MAP_HEIGHT
  <2>1. m \in Nat /\ squares \in Nat /\ squares <= m * m /\ m * m \in Nat
    <3>1. m * m = squares + 2 * (MAP_WIDTH * MAP_HEIGHT)
      BY <1>1
    <3>2. MAP_WIDTH * MAP_HEIGHT \in Nat /\ MAP_WIDTH * MAP_WIDTH \in Nat /\ MAP_HEIGHT * MAP_HEIGHT \in Nat
      BY <1>1
    <3> QED
      BY <1>1, <3>1, <3>2
  <2>2. k <= m * m
    BY <1>2, <2>1
  <2>3. q * k <= q * (m * m)
    BY <1>2, <2>1, <2>2
  <2>4. q * (m * m) = 4 * (a * a)
    BY <1>1, <2>1
  <2>5. (2 * a + 1) * (2 * a + 1) = 4 * (a * a) + 4 * a + 1
    BY <1>2
  <2>6. a * a \in Nat /\ q * k \in Nat
    BY <1>2
  <2> HIDE DEF q, a, m, squares
  <2>7. q * k < (2 * a + 1) * (2 * a + 1)
    BY <1>2, <2>3, <2>4, <2>5, <2>6
  <2> QED
    BY <1>2, <2>7 DEF Overshoot
<1>4. PICK d \in Overshoot : \A e \in Overshoot : d <= e
  BY <1>3, LeastNatural
<1>5. d \in 0 .. a /\ IsRoot(d)
  <2>1. d \in 0 .. a
    <3>1. d \in Nat /\ d <= a
      BY <1>3, <1>4
    <3> HIDE DEF a, Overshoot
    <3> QED
      BY <1>2, <3>1
  <2>2. d # 0 => (2 * d - 1) * (2 * d - 1) <= q * k
    <3> SUFFICES ASSUME d # 0 PROVE (2 * d - 1) * (2 * d - 1) <= q * k
      OBVIOUS
    <3>1. d - 1 \in Nat /\ ~(d <= d - 1) /\ 2 * (d - 1) + 1 = 2 * d - 1
      BY <2>1
    <3>2. ~(q * k < (2 * (d - 1) + 1) * (2 * (d - 1) + 1))
      BY <1>4, <3>1
    <3>3. q * k \in Nat /\ (2 * d - 1) * (2 * d - 1) \in Int
      BY <1>2, <2>1
    <3> QED
      BY <3>1, <3>2, <3>3
  <2> QED
    BY <1>4, <2>1, <2>2
<1> DEFINE r == Root[k]
<1>6. r \in 0 .. a /\ IsRoot(r)
  <2>1. r = CHOOSE e \in 0 .. a : IsRoot(e)
    BY DEF Root
  <2> HIDE DEF IsRoot, r, a
  <2> QED
    BY <1>5, <2>1
<1> HIDE DEF r, a
<1>7. k = 0 => r = 0
  <2> SUFFICES ASSUME k = 0, r # 0 PROVE FALSE
    OBVIOUS
  <2>1. (2 * r - 1) * (2 * r - 1) <= 0
    BY <1>2, <1>6
  <2>2. r \in Nat /\ 2 * r - 1 \in Nat /\ 2 * r - 1 >= 1
    BY <1>2, <1>6
  <2>3. (2 * r - 1) * (2 * r - 1) >= 1
    BY <2>2
  <2> QED
    BY <2>1, <2>2, <2>3
<1>8. r = 0 => k = 0
  <2> SUFFICES ASSUME r = 0, k # 0 PROVE FALSE
    OBVIOUS
  <2>1. q * k < 1
    BY <1>6
  <2>2. q * k >= 4
    BY <1>2
  <2> HIDE DEF q
  <2> QED
    BY <1>2, <2>1, <2>2
<1> QED
  BY <1>2, <1>6, <1>7, <1>8 DEF r

\* The length of every leg.
LegLengths == [pair \in Navpoints \X Navpoints |-> get_path_length(pair[1], pair[2])]

PointsApart ==
    /\ points \in [Navpoints -> Fields]
    /\ \A n \in Navpoints, m \in Navpoints : n # m => points[n] # points[m]

LEMMA SquareIs ==
    ASSUME NEW w \in Nat, NEW x \in Int, x < w, -w < x
    PROVE  x * x \in Nat /\ x * x <= w * w /\ (x * x = 0 <=> x = 0)
<1>1. CASE x >= 0
  <2>1. x \in Nat /\ x * x <= x * w /\ x * w <= w * w
    BY <1>1
  <2>2. x # 0 => x * x >= 1
    BY <1>1
  <2> QED
    BY <2>1, <2>2
<1>2. CASE x < 0
  <2> DEFINE y == -x
  <2>1. y \in Nat /\ y > 0 /\ y < w /\ x * x = y * y
    BY <1>2
  <2>2. y * y <= y * w /\ y * w <= w * w /\ y * y >= 1 /\ y * y \in Nat /\ w * w \in Nat /\ y * w \in Nat
    BY <2>1
  <2> HIDE DEF y
  <2> QED
    BY <1>2, <2>1, <2>2
<1> QED
  BY <1>1, <1>2

LEMMA LengthsAre ==
    ASSUME PointsApart
    PROVE  IsLengths(LegLengths)
<1>1. ASSUME NEW n \in Navpoints, NEW m \in Navpoints
      PROVE  /\ LegLengths[<<n, m>>] = get_path_length(n, m)
             /\ get_path_length(n, m) \in Nat
             /\ n = m <=> get_path_length(n, m) = 0
  <2> DEFINE p == points[n]
             q == points[m]
             dx == p[1] - q[1]
             dy == p[2] - q[2]
             k == dx * dx + dy * dy
  <2>1. p \in Fields /\ q \in Fields /\ (n = m <=> p = q)
    BY DEF PointsApart
  <2>2. MAP_WIDTH \in Nat /\ MAP_HEIGHT \in Nat
    BY NavAssumption
  <2>3. p = <<p[1], p[2]>> /\ q = <<q[1], q[2]>>
        /\ p[1] \in 0 .. MAP_WIDTH - 1 /\ q[1] \in 0 .. MAP_WIDTH - 1
        /\ p[2] \in 0 .. MAP_HEIGHT - 1 /\ q[2] \in 0 .. MAP_HEIGHT - 1
    BY <2>1 DEF Fields
  <2>4. dx \in Int /\ dx < MAP_WIDTH /\ -MAP_WIDTH < dx /\ (dx = 0 <=> p[1] = q[1])
    BY <2>2, <2>3
  <2>5. dy \in Int /\ dy < MAP_HEIGHT /\ -MAP_HEIGHT < dy /\ (dy = 0 <=> p[2] = q[2])
    BY <2>2, <2>3
  <2>6. p = q <=> p[1] = q[1] /\ p[2] = q[2]
    BY <2>3
  <2>7. get_path_length(n, m) = Root[k]
    BY DEF get_path_length
  <2> HIDE DEF p, q, dx, dy
  <2>8. dx * dx \in Nat /\ dx * dx <= MAP_WIDTH * MAP_WIDTH /\ (dx * dx = 0 <=> dx = 0)
    BY <2>2, <2>4, SquareIs
  <2>9. dy * dy \in Nat /\ dy * dy <= MAP_HEIGHT * MAP_HEIGHT /\ (dy * dy = 0 <=> dy = 0)
    BY <2>2, <2>5, SquareIs
  <2>10. k \in 0 .. MAP_WIDTH * MAP_WIDTH + MAP_HEIGHT * MAP_HEIGHT /\ (k = 0 <=> dx = 0 /\ dy = 0)
    <3> DEFINE x == dx * dx
               y == dy * dy
               w == MAP_WIDTH * MAP_WIDTH
               h == MAP_HEIGHT * MAP_HEIGHT
    <3>1. x \in Nat /\ y \in Nat /\ w \in Nat /\ h \in Nat /\ x <= w /\ y <= h /\ k = x + y
      BY <2>2, <2>8, <2>9
    <3>2. (x = 0 <=> dx = 0) /\ (y = 0 <=> dy = 0)
      BY <2>8, <2>9
    <3> HIDE DEF x, y, w, h, k
    <3>3. k \in 0 .. w + h /\ (k = 0 <=> x = 0 /\ y = 0)
      BY <3>1
    <3> QED
      BY <3>2, <3>3 DEF w, h
  <2> HIDE DEF k
  <2>11. Root[k] \in Nat /\ (k = 0 <=> Root[k] = 0)
    BY <2>10, RootIs
  <2>12. LegLengths[<<n, m>>] = get_path_length(n, m)
    BY DEF LegLengths
  <2>13. n = m <=> Root[k] = 0
    BY <2>1, <2>4, <2>5, <2>6, <2>10, <2>11
  <2> QED
    BY <2>7, <2>11, <2>12, <2>13
<1>2. LegLengths \in [Navpoints \X Navpoints -> Nat]
  <2>1. \A pair \in Navpoints \X Navpoints : get_path_length(pair[1], pair[2]) \in Nat
    BY <1>1
  <2> QED
    BY <2>1 DEF LegLengths
<1>3. \A a \in Navpoints, b \in Navpoints : a = b <=> LegLengths[<<a, b>>] = 0
  BY <1>1
<1> QED
  BY <1>2, <1>3 DEF IsLengths

\* How far the nodes are from the root in a tree, within so many legs.
Within(d, parents, s) ==
    /\ \A togo \in 0 .. Count : d[togo] \in [Navpoints -> Int]
    /\ \A n \in Navpoints : d[0][n] = IF n = s THEN 0 ELSE Nowhere
    /\ \A togo \in 1 .. Count, n \in Navpoints :
          d[togo][n] =
             IF n = s THEN 0
             ELSE IF parents[n] = n \/ d[togo - 1][parents[n]] = Nowhere THEN Nowhere
             ELSE d[togo - 1][parents[n]] + LegLengths[<<parents[n], n>>]

LEMMA DepthIs ==
    ASSUME PointsApart, NEW s \in Navpoints, NEW parents \in [Navpoints -> Navpoints]
    PROVE  \E d : Within(d, parents, s) /\ depth(parents, s) = d[Count]
<1> DEFINE D == [Navpoints -> Int]
           len(n) == get_path_length(parents[n], n)
           atFirst == [n \in Navpoints |-> IF n = s THEN 0 ELSE Nowhere]
           One(f) == [n \in Navpoints |-> IF n = s THEN 0
                                          ELSE IF parents[n] = n \/ f[parents[n]] = Nowhere THEN Nowhere
                                          ELSE f[parents[n]] + len(n)]
           step == [x \in (1 .. Count) \X D |-> One(x[2])]
           val(f, togo) == [n \in Navpoints |->
                              IF n = s THEN 0
                              ELSE IF togo = 0 \/ parents[n] = n \/ f[togo - 1][parents[n]] = Nowhere THEN Nowhere
                              ELSE f[togo - 1][parents[n]] + get_path_length(parents[n], n)]
           dd == CHOOSE d : d = [togo \in 0 .. Count |-> val(d, togo)]
<1>1. depth(parents, s) = dd[Count]
  BY DEF depth
<1> HIDE DEF dd
<1>2. \A n \in Navpoints : len(n) \in Int /\ len(n) = LegLengths[<<parents[n], n>>]
  <2>1. IsLengths(LegLengths)
    BY LengthsAre
  <2>2. \A n \in Navpoints : LegLengths[<<parents[n], n>>] \in Nat /\ LegLengths[<<parents[n], n>>] = len(n)
    BY <2>1 DEF IsLengths, LegLengths
  <2> QED
    BY <2>2
<1>0. ASSUME NEW f \in D PROVE One(f) \in D
  <2> HIDE DEF len
  <2>1. ASSUME NEW n \in Navpoints PROVE One(f)[n] \in Int
    <3>1. parents[n] \in Navpoints /\ f[parents[n]] \in Int /\ Nowhere \in Int
      BY DEF Nowhere
    <3>2. len(n) \in Int
      BY <1>2
    <3>3. f[parents[n]] + len(n) \in Int
      BY <3>1, <3>2
    <3> QED
      BY <3>1, <3>3
  <2> QED
    BY <2>1
<1>3. atFirst \in D /\ step \in [(1 .. Count) \X D -> D] /\ Count \in Nat
  <2>1. atFirst \in D
    BY DEF Nowhere
  <2>2. Count \in Nat
    BY NavAssumption
  <2>3. \A f \in D : One(f) \in D
    BY <1>0
  <2> HIDE DEF D, One
  <2>4. step \in [(1 .. Count) \X D -> D]
    BY <2>3
  <2> HIDE DEF step, atFirst
  <2> QED
    BY <2>1, <2>2, <2>4
<1>4. PICK f : HandsOn(f, D, atFirst, Count, step)
  <2> HIDE DEF D, atFirst, step
  <2> QED
    BY <1>3, Recursion
<1>5. f \in [0 .. Count -> D] /\ f[0] = atFirst /\ \A l \in 1 .. Count : f[l] = One(f[l - 1])
  <2>1. f \in [0 .. Count -> D] /\ f[0] = atFirst /\ \A l \in 1 .. Count : f[l] = step[<<l, f[l - 1]>>]
    BY <1>4 DEF HandsOn
  <2>2. \A l \in 1 .. Count : f[l - 1] \in D
    <3> HIDE DEF D
    <3> QED
      BY <2>1, <1>3
  <2>3. \A l \in 1 .. Count : step[<<l, f[l - 1]>>] = One(f[l - 1])
    <3> HIDE DEF One, D
    <3> QED
      BY <2>2
  <2> QED
    BY <2>1, <2>3
<1>6. \A togo \in 0 .. Count : f[togo] = val(f, togo)
  <2> SUFFICES ASSUME NEW togo \in 0 .. Count PROVE f[togo] = val(f, togo)
    OBVIOUS
  <2>1. CASE togo = 0
    <3>1. val(f, togo) = atFirst
      BY <2>1
    <3> QED
      BY <1>5, <2>1, <3>1
  <2>2. CASE togo \in 1 .. Count
    <3>1. val(f, togo) = One(f[togo - 1])
      BY <2>2
    <3> QED
      BY <1>5, <2>2, <3>1
  <2> QED
    BY <2>1, <2>2, <1>3
<1>7. dd = [togo \in 0 .. Count |-> val(dd, togo)]
  <2>1. f = [togo \in 0 .. Count |-> val(f, togo)]
    <3> HIDE DEF val, D
    <3> QED
      BY <1>5, <1>6
  <2> HIDE DEF val
  <2> QED
    BY <2>1 DEF dd
<1>8. \A togo \in 0 .. Count, n \in Navpoints : dd[togo][n] = val(dd, togo)[n]
  <2> HIDE DEF val
  <2> QED
    BY <1>7
<1> DEFINE T == {togo \in Nat : togo <= Count => dd[togo] \in D}
<1>9. 0 \in T
  <2>1. dd[0] = val(dd, 0)
    <3> HIDE DEF val
    <3> QED
      BY <1>3, <1>7
  <2> QED
    BY <2>1 DEF Nowhere
<1>10. ASSUME NEW l \in Nat, l \in T PROVE l + 1 \in T
  <2> SUFFICES ASSUME l + 1 <= Count PROVE dd[l + 1] \in D
    OBVIOUS
  <2> DEFINE k == l + 1
             e == dd[l]
  <2>1. k \in 0 .. Count /\ k # 0 /\ k - 1 = l /\ l <= Count
    BY <1>3
  <2>2. e \in D
    BY <1>10, <2>1
  <2>3. dd[k] = val(dd, k)
    <3> HIDE DEF val, k
    <3> QED
      BY <1>7, <2>1
  <2> HIDE DEF k
  <2>4. val(dd, k) = One(e)
    BY <2>1
  <2> HIDE DEF e
  <2>5. One(e) \in D
    BY <1>0, <2>2
  <2> QED
    BY <2>3, <2>4, <2>5 DEF k
<1> HIDE DEF T
<1>11. \A l \in Nat : l \in T
  BY <1>9, <1>10, SetInduction
<1>12. Within(dd, parents, s)
  <2>1. \A togo \in 0 .. Count : dd[togo] \in [Navpoints -> Int]
    BY <1>11, <1>3 DEF T
  <2>2. \A n \in Navpoints : dd[0][n] = IF n = s THEN 0 ELSE Nowhere
    BY <1>8, <1>3
  <2>3. ASSUME NEW togo \in 1 .. Count, NEW n \in Navpoints
        PROVE  dd[togo][n] =
             IF n = s THEN 0
             ELSE IF parents[n] = n \/ dd[togo - 1][parents[n]] = Nowhere THEN Nowhere
             ELSE dd[togo - 1][parents[n]] + LegLengths[<<parents[n], n>>]
    <3>1. togo \in 0 .. Count /\ togo # 0
      OBVIOUS
    <3>2. dd[togo][n] = val(dd, togo)[n]
      <4> HIDE DEF val
      <4> QED
        BY <1>8, <3>1
    <3> QED
      BY <1>2, <3>1, <3>2
  <2> QED
    BY <2>1, <2>2, <2>3 DEF Within
<1> QED
  BY <1>1, <1>12

\* What a node is from the root it stays however many legs more are allowed, and it is no
\* less than nothing.
LEMMA DepthStays ==
    ASSUME PointsApart, NEW s \in Navpoints, NEW parents \in [Navpoints -> Navpoints], NEW d, Within(d, parents, s)
    PROVE  \A l \in 0 .. Count, n \in Navpoints :
              d[l][n] # Nowhere => d[l][n] \in Nat /\ (l < Count => d[l + 1][n] = d[l][n])
<1> DEFINE Stays(l, n) == d[l][n] # Nowhere => d[l][n] \in Nat /\ (l < Count => d[l + 1][n] = d[l][n])
           T == {l \in Nat : l <= Count => \A n \in Navpoints : Stays(l, n)}
<1>1. Count \in Nat /\ Count > 0
  BY NavAssumption
<1>2. \A n \in Navpoints : LegLengths[<<parents[n], n>>] \in Nat
  BY LengthsAre DEF IsLengths
<1>3. 0 \in T
  <2> SUFFICES ASSUME NEW n \in Navpoints, d[0][n] # Nowhere PROVE d[0][n] \in Nat /\ d[0 + 1][n] = d[0][n]
    OBVIOUS
  <2>1. n = s /\ d[0][n] = 0
    BY DEF Within
  <2>2. 1 \in 1 .. Count
    BY <1>1
  <2>3. d[1][n] = 0
    BY <2>1, <2>2 DEF Within
  <2> QED
    BY <2>1, <2>3
<1>4. ASSUME NEW l \in Nat, l \in T PROVE l + 1 \in T
  <2> DEFINE k == l + 1
             m == k + 1
  <2> SUFFICES ASSUME k <= Count, NEW n \in Navpoints, d[k][n] # Nowhere
               PROVE  d[k][n] \in Nat /\ (k < Count => d[m][n] = d[k][n])
    OBVIOUS
  <2>1. l < Count /\ l <= Count /\ k \in 1 .. Count /\ k - 1 = l /\ (k < Count => m \in 1 .. Count) /\ m - 1 = k
    BY <1>1
  <2>2. \A x \in Navpoints : d[l][x] # Nowhere => d[l][x] \in Nat /\ d[k][x] = d[l][x]
    BY <1>4, <2>1
  <2> HIDE DEF k, m
  <2> DEFINE p == parents[n]
             w == LegLengths[<<p, n>>]
  <2>3. d[k][n] = IF n = s THEN 0 ELSE IF p = n \/ d[l][p] = Nowhere THEN Nowhere ELSE d[l][p] + w
    BY <2>1 DEF Within
  <2>4. k < Count => d[m][n] = IF n = s THEN 0 ELSE IF p = n \/ d[k][p] = Nowhere THEN Nowhere ELSE d[k][p] + w
    BY <2>1 DEF Within
  <2>5. CASE n = s
    BY <2>3, <2>4, <2>5
  <2>6. CASE n # s
    <3>1. p \in Navpoints /\ p # n /\ d[l][p] # Nowhere
      BY <2>3, <2>6
    <3>2. d[l][p] \in Nat /\ d[k][p] = d[l][p] /\ w \in Nat
      BY <1>2, <2>2, <3>1
    <3> HIDE DEF p, w
    <3> QED
      BY <2>3, <2>4, <2>6, <3>1, <3>2
  <2> QED
    BY <2>5, <2>6
<1> HIDE DEF T
<1>5. \A l \in Nat : l \in T
  BY <1>3, <1>4, SetInduction
<1> QED
  BY <1>5 DEF T

\* first_hop follows the parents up to the node below the root.
LEMMA HopIs ==
    ASSUME PointsApart, NEW s \in Navpoints, NEW parents \in [Navpoints -> Navpoints], parents[s] = s,
           NEW d, Within(d, parents, s), \A n \in Navpoints : d[Count][n] # Nowhere
    PROVE  \A n \in Navpoints :
              first_hop(parents, s, n) = IF parents[n] = s THEN n ELSE first_hop(parents, s, parents[n])
<1> DEFINE D == [Navpoints -> Navpoints]
           One(f) == [n \in Navpoints |-> IF parents[n] = s THEN n ELSE f[parents[n]]]
           atFirst == [n \in Navpoints |-> n]
           M == Count + 1
           step == [x \in (1 .. M) \X D |-> One(x[2])]
           hop == CHOOSE h : h = [n \in Navpoints |-> IF parents[n] = s THEN n ELSE h[parents[n]]]
<1>1. \A n : first_hop(parents, s, n) = hop[n]
  BY DEF first_hop
<1> HIDE DEF hop
<1>2. Count \in Nat /\ M \in Nat /\ Count > 0
  BY NavAssumption
<1>3. PICK f : HandsOn(f, D, atFirst, M, step)
  <2>1. atFirst \in D /\ \A e \in D : One(e) \in D
    OBVIOUS
  <2> HIDE DEF One, D, atFirst, M
  <2>2. step \in [(1 .. M) \X D -> D]
    BY <2>1
  <2> HIDE DEF step
  <2> QED
    BY <1>2, <2>1, <2>2, Recursion
<1>4. f \in [0 .. M -> D] /\ f[0] = atFirst /\ \A l \in 1 .. M : f[l] = One(f[l - 1])
  <2>1. f \in [0 .. M -> D] /\ f[0] = atFirst /\ \A l \in 1 .. M : f[l] = step[<<l, f[l - 1]>>]
    BY <1>3 DEF HandsOn
  <2> HIDE DEF D, M, One
  <2>2. \A l \in 1 .. M : f[l - 1] \in D
    BY <2>1, <1>2
  <2>3. \A l \in 1 .. M : step[<<l, f[l - 1]>>] = One(f[l - 1])
    BY <2>2
  <2> QED
    BY <2>1, <2>3
<1>5. \A l \in 0 .. Count, n \in Navpoints :
         f[l] \in D /\ f[l + 1][n] = IF parents[n] = s THEN n ELSE f[l][parents[n]]
  <2> SUFFICES ASSUME NEW l \in 0 .. Count, NEW n \in Navpoints
               PROVE  f[l] \in D /\ f[l + 1][n] = IF parents[n] = s THEN n ELSE f[l][parents[n]]
    OBVIOUS
  <2>1. l \in 0 .. M /\ l + 1 \in 1 .. M /\ (l + 1) - 1 = l
    BY <1>2
  <2>2. f[l] \in D
    BY <1>4, <2>1
  <2>3. f[l + 1] = One(f[l])
    <3> HIDE DEF One, M, D
    <3> QED
      BY <1>4, <2>1
  <2> QED
    BY <2>2, <2>3
<1> DEFINE T == {l \in Nat : l <= Count => \A n \in Navpoints : d[l][n] # Nowhere => f[l + 1][n] = f[l][n]}
<1>6. 0 \in T
  <2> SUFFICES ASSUME NEW n \in Navpoints, d[0][n] # Nowhere PROVE f[0 + 1][n] = f[0][n]
    OBVIOUS
  <2>1. n = s
    BY DEF Within
  <2>2. 0 \in 0 .. Count
    BY <1>2
  <2>3. f[0 + 1][n] = n
    BY <1>5, <2>1, <2>2
  <2>4. f[0][n] = n
    BY <1>4
  <2> QED
    BY <2>3, <2>4
<1>7. ASSUME NEW l \in Nat, l \in T PROVE l + 1 \in T
  <2> DEFINE k == l + 1
  <2> SUFFICES ASSUME k <= Count, NEW n \in Navpoints, d[k][n] # Nowhere PROVE f[k + 1][n] = f[k][n]
    OBVIOUS
  <2>1. k \in 0 .. Count /\ l \in 0 .. Count /\ k \in 1 .. Count /\ k - 1 = l
    BY <1>2
  <2>2. \A x \in Navpoints : d[l][x] # Nowhere => f[k][x] = f[l][x]
    BY <1>7, <2>1
  <2> DEFINE p == parents[n]
  <2>3. f[k][n] = IF p = s THEN n ELSE f[l][p]
    BY <1>5, <2>1
  <2> HIDE DEF k
  <2>4. f[k + 1][n] = IF p = s THEN n ELSE f[k][p]
    BY <1>5, <2>1
  <2>5. p = s \/ d[l][p] # Nowhere
    BY <2>1 DEF Within
  <2>6. p \in Navpoints
    OBVIOUS
  <2> QED
    BY <2>2, <2>3, <2>4, <2>5, <2>6
<1> HIDE DEF T
<1>8. \A n \in Navpoints : f[Count + 1][n] = f[Count][n]
  <2>1. Count \in T
    BY <1>2, <1>6, <1>7, SetInduction
  <2> QED
    BY <1>2, <2>1 DEF T
<1> DEFINE h == f[Count]
<1>9. h \in D /\ \A n \in Navpoints : h[n] = IF parents[n] = s THEN n ELSE h[parents[n]]
  <2>1. Count \in 0 .. Count
    BY <1>2
  <2> QED
    BY <1>5, <1>8, <2>1
<1> HIDE DEF h
<1>10. h = [n \in Navpoints |-> IF parents[n] = s THEN n ELSE h[parents[n]]]
  BY <1>9
<1>11. hop = [n \in Navpoints |-> IF parents[n] = s THEN n ELSE hop[parents[n]]]
  BY <1>10 DEF hop
<1> QED
  BY <1>1, <1>11

\* Any tree of shortest paths makes a row.
LEMMA RowIsBuilt ==
    ASSUME PointsApart, NEW s \in Navpoints, NEW parents \in dijkstra_all(s),
           \A t \in Navpoints : depth(parents, s)[t] # Nowhere
    PROVE  IsRow(depth(parents, s), [t \in Navpoints |-> IF t = s THEN s ELSE first_hop(parents, s, t)],
                 s, connected, LegLengths)
<1> DEFINE far == depth(parents, s)
           next == [t \in Navpoints |-> IF t = s THEN s ELSE first_hop(parents, s, t)]
<1>1. parents \in [Navpoints -> Navpoints] /\ parents[s] = s
      /\ \A n \in Navpoints \ {s} : parents[n] = n \/ <<parents[n], n>> \in connected
  BY DEF dijkstra_all
<1>2. \A pair \in connected : far[pair[1]] # Nowhere =>
         far[pair[2]] # Nowhere /\ far[pair[2]] <= far[pair[1]] + get_path_length(pair[1], pair[2])
  BY DEF dijkstra_all
<1>3. PICK d : Within(d, parents, s) /\ far = d[Count]
  BY <1>1, DepthIs
<1>4. \A t \in Navpoints : far[t] # Nowhere
  OBVIOUS
<1> HIDE DEF far
<1>5. Count \in Nat /\ Count \in 0 .. Count /\ Count \in 1 .. Count /\ Count - 1 \in 0 .. Count
      /\ Count - 1 < Count /\ (Count - 1) + 1 = Count
  BY NavAssumption
<1>6. far \in [Navpoints -> Nat]
  <2>1. far \in [Navpoints -> Int]
    BY <1>3, <1>5 DEF Within
  <2>2. \A t \in Navpoints : far[t] \in Nat
    BY <1>1, <1>3, <1>4, <1>5, DepthStays
  <2> QED
    BY <2>1, <2>2
<1>7. far[s] = 0
  BY <1>3, <1>5 DEF Within
<1>8. \A n \in Navpoints :
         first_hop(parents, s, n) = IF parents[n] = s THEN n ELSE first_hop(parents, s, parents[n])
  BY <1>1, <1>3, <1>4, HopIs
<1>9. ASSUME NEW t \in Navpoints \ {s}
      PROVE  /\ parents[t] # t
             /\ <<parents[t], t>> \in connected
             /\ far[t] = far[parents[t]] + LegLengths[<<parents[t], t>>]
             /\ next[t] = IF parents[t] = s THEN t ELSE next[parents[t]]
  <2> DEFINE p == parents[t]
  <2>1. p \in Navpoints
    BY <1>1
  <2>2. far[t] # Nowhere
    BY <1>4
  <2>3. far[t] = IF t = s THEN 0
                 ELSE IF parents[t] = t \/ d[Count - 1][p] = Nowhere THEN Nowhere
                 ELSE d[Count - 1][p] + LegLengths[<<p, t>>]
    BY <1>3, <1>5 DEF Within
  <2>4. p # t /\ d[Count - 1][p] # Nowhere /\ far[t] = d[Count - 1][p] + LegLengths[<<p, t>>]
    BY <2>2, <2>3
  <2>5. d[Count][p] = d[Count - 1][p]
    <3> HIDE DEF p
    <3>1. d[(Count - 1) + 1][p] = d[Count - 1][p]
      BY <1>1, <1>3, <1>5, <2>1, <2>4, DepthStays
    <3> QED
      BY <1>5, <3>1
  <2>6. next[t] = IF p = s THEN t ELSE next[p]
    BY <1>8, <2>1
  <2> QED
    BY <1>1, <1>3, <2>4, <2>5, <2>6
<1>10. IsTree(parents, far, next, s, connected, LegLengths)
  <2>1. next[s] = s
    OBVIOUS
  <2> HIDE DEF next
  <2> QED
    BY <1>7, <1>9, <2>1 DEF IsTree
<1>11. NoShorter(far, connected, LegLengths)
  <2> SUFFICES ASSUME NEW a \in Navpoints, NEW b \in Navpoints, <<a, b>> \in connected
               PROVE  far[b] <= far[a] + LegLengths[<<a, b>>]
    BY DEF NoShorter
  <2>1. LegLengths[<<a, b>>] = get_path_length(a, b)
    BY DEF LegLengths
  <2>2. far[b] <= far[a] + get_path_length(a, b)
    BY <1>2, <1>4
  <2> QED
    BY <2>1, <2>2
<1> HIDE DEF next
<1>12. IsRow(far, next, s, connected, LegLengths)
  BY <1>1, <1>6, <1>10, <1>11 DEF IsRow
<1> QED
  BY <1>12 DEF far, next

\* What the invariant says of the table, row by row.
TableCells == [distance : Int, next : Int]
Tables == [Navpoints -> [Navpoints -> TableCells]]

Distances(m, s) == [t \in Navpoints |-> m[s][t].distance]
Nexts(m, s) == [t \in Navpoints |-> m[s][t].next]
Stands(m, s, C, len) == IsRow(Distances(m, s), Nexts(m, s), s, C, len)

NavTypes ==
    /\ PointsApart
    /\ navMatrix \in Tables
    /\ source \in Navpoints \cup {Nowhere}
    /\ walk # NoWalk => walk \in [from : Navpoints, to : Navpoints, at : Navpoints, walked : Nat]

\* The rows that have been built stand; a table that is not all new is whole, and none is
\* walked before.
RowsStand ==
    /\ source \in Navpoints => walk = NoWalk /\ \A s \in Navpoints : s < source => Stands(navMatrix, s, connected, LegLengths)
    /\ source = Nowhere => \/ navMatrix = NewMatrix
                           \/ \A s \in Navpoints : Stands(navMatrix, s, connected, LegLengths)
    /\ walk # NoWalk => navMatrix # NewMatrix

\* The table that legs were read from stands on legs of its own.
OriginalStands ==
    original # <<>> =>
       /\ \E C : \A s \in Navpoints : Stands(original, s, C, LegLengths)
       /\ connected = {pair \in Navpoints \X Navpoints : original[pair[1]][pair[2]].next = pair[2]}

WalkAddsUp ==
    walk # NoWalk => walk.walked + navMatrix[walk.at][walk.to].distance = navMatrix[walk.from][walk.to].distance

NavInv == NavTypes /\ RowsStand /\ OriginalStands /\ WalkAddsUp

LEMMA NavStart == NavInit => NavInv
<1> SUFFICES ASSUME NavInit PROVE NavInv
  OBVIOUS
<1>1. PointsApart
  <2>1. points \in [Navpoints -> Fields]
    BY DEF NavInit
  <2>2. \A n \in Navpoints, m \in Navpoints : n < m => points[n] # points[m]
    <3> SUFFICES ASSUME NEW n \in Navpoints, NEW m \in Navpoints, n < m, points[n] = points[m] PROVE FALSE
      OBVIOUS
    <3> DEFINE x == points[n][1] + MAP_WIDTH * points[n][2]
    <3>1. x < points[m][1] + MAP_WIDTH * points[m][2]
      BY DEF NavInit
    <3>2. x < x
      BY <3>1
    <3>3. x \in Int
      <4>1. points[n] \in Fields /\ MAP_WIDTH \in Int
        BY <2>1, NavAssumption
      <4>2. points[n][1] \in Int /\ points[n][2] \in Int
        BY <4>1 DEF Fields
      <4> QED
        BY <4>1, <4>2
    <3> HIDE DEF x
    <3> QED
      BY <3>2, <3>3
  <2>3. \A n \in Navpoints, m \in Navpoints : n # m => n < m \/ m < n
    BY NavAssumption DEF Navpoints
  <2> QED
    BY <2>1, <2>2, <2>3 DEF PointsApart
<1>2. navMatrix \in Tables
  BY DEF NavInit, NewMatrix, NoCell, Tables, TableCells
<1>3. Nowhere \notin Navpoints
  BY NavAssumption DEF Nowhere, Navpoints
<1> QED
  BY <1>1, <1>2, <1>3 DEF NavInit, NavInv, NavTypes, RowsStand, OriginalStands, WalkAddsUp

LEMMA LegsFromTheMapKeep ==
    NavInv /\ build_connected_nodes_from_navigation_data => NavInv'
<1> SUFFICES ASSUME NavInv, build_connected_nodes_from_navigation_data PROVE NavInv'
  OBVIOUS
<1> USE DEF build_connected_nodes_from_navigation_data
<1>1. PointsApart' /\ LegLengths' = LegLengths
  BY DEF NavInv, NavTypes, PointsApart, LegLengths, get_path_length
<1>2. 0 \in Navpoints /\ ~\E s \in Navpoints : s < 0
  BY NavAssumption DEF Navpoints
<1>3. walk = NoWalk
  BY DEF NavInv, RowsStand
<1>4. NavTypes'
  BY <1>1, <1>2, <1>3 DEF NavInv, NavTypes
<1>5. RowsStand'
  BY <1>2, <1>3 DEF RowsStand, Nowhere
<1>6. OriginalStands'
  BY DEF OriginalStands
<1> QED
  BY <1>3, <1>4, <1>5, <1>6 DEF NavInv, WalkAddsUp

LEMMA RowKeeps == NavInv /\ build_row => NavInv'
<1> SUFFICES ASSUME NavInv, build_row PROVE NavInv'
  OBVIOUS
<1>1. source \in Navpoints /\ UNCHANGED <<points, land, connected, original, walk>>
      /\ source' = IF source = Count - 1 THEN Nowhere ELSE source + 1
  BY DEF build_row
<1>2. PICK parents \in dijkstra_all(source) :
         /\ \A t \in Navpoints : depth(parents, source)[t] # Nowhere
         /\ navMatrix' = [navMatrix EXCEPT ![source] =
               [t \in Navpoints |-> IF t = source THEN [distance |-> 0, next |-> source]
                                    ELSE [distance |-> depth(parents, source)[t], next |-> first_hop(parents, source, t)]]]
  BY DEF build_row
<1> DEFINE far == depth(parents, source)
           first(t) == first_hop(parents, source, t)
           next == [t \in Navpoints |-> IF t = source THEN source ELSE first(t)]
           cells == [t \in Navpoints |-> IF t = source THEN [distance |-> 0, next |-> source]
                                       ELSE [distance |-> far[t], next |-> first(t)]]
<1>3. PointsApart /\ PointsApart' /\ LegLengths' = LegLengths
  BY <1>1 DEF NavInv, NavTypes, PointsApart, LegLengths, get_path_length
<1>4. IsRow(far, next, source, connected, LegLengths)
  BY <1>1, <1>2, <1>3, RowIsBuilt
<1>5. navMatrix' = [navMatrix EXCEPT ![source] = cells]
  BY <1>2
<1> HIDE DEF far, first
<1>6. far \in [Navpoints -> Nat] /\ far[source] = 0
  BY <1>4 DEF IsRow, IsTree
<1>7. \A t \in Navpoints \ {source} : next[t] \in Navpoints
  <2> HIDE DEF next
  <2>1. IsLengths(LegLengths)
    BY <1>3, LengthsAre
  <2> QED
    BY <1>1, <1>4, <2>1, NextIsFirst DEF FirstNode
<1>8. \A t \in Navpoints : cells[t] = [distance |-> far[t], next |-> next[t]] /\ cells[t] \in TableCells
  <2>1. \A t \in Navpoints : cells[t] = [distance |-> far[t], next |-> next[t]]
    BY <1>6
  <2>2. \A t \in Navpoints : far[t] \in Int /\ next[t] \in Int
    <3>1. \A n \in Navpoints : n \in Int
      BY NavAssumption DEF Navpoints
    <3>2. next[source] \in Navpoints
      BY <1>1
    <3> HIDE DEF next
    <3>3. \A t \in Navpoints : next[t] \in Navpoints
      BY <1>7, <3>2
    <3>4. \A t \in Navpoints : far[t] \in Nat
      BY <1>6
    <3> QED
      BY <3>1, <3>3, <3>4
  <2> HIDE DEF cells, next
  <2> QED
    BY <2>1, <2>2 DEF TableCells
<1>9. cells \in [Navpoints -> TableCells]
  BY <1>8
<1>10. navMatrix \in Tables
  BY DEF NavInv, NavTypes
<1>11. navMatrix' \in Tables /\ navMatrix'[source] = cells /\ \A s \in Navpoints \ {source} : navMatrix'[s] = navMatrix[s]
  <2> HIDE DEF cells
  <2> QED
    BY <1>1, <1>5, <1>9, <1>10 DEF Tables
<1>12. Stands(navMatrix', source, connected, LegLengths)
  <2>1. Distances(navMatrix', source) = far
    <3>1. \A t \in Navpoints : navMatrix'[source][t].distance = far[t]
      <4> SUFFICES ASSUME NEW t \in Navpoints PROVE cells[t].distance = far[t]
        BY <1>11
      <4> HIDE DEF cells, next
      <4>1. cells[t] = [distance |-> far[t], next |-> next[t]]
        BY <1>8
      <4> QED
        BY <4>1
    <3> QED
      BY <1>6, <3>1 DEF Distances
  <2>2. Nexts(navMatrix', source) = next
    <3>1. \A t \in Navpoints : navMatrix'[source][t].next = next[t]
      <4> SUFFICES ASSUME NEW t \in Navpoints PROVE cells[t].next = next[t]
        BY <1>11
      <4> HIDE DEF cells, next
      <4>1. cells[t] = [distance |-> far[t], next |-> next[t]]
        BY <1>8
      <4> QED
        BY <4>1
    <3> QED
      BY <3>1 DEF Nexts
  <2> QED
    BY <1>4, <2>1, <2>2 DEF Stands
<1>13. \A s \in Navpoints : s < source => Stands(navMatrix', s, connected, LegLengths)
  <2> SUFFICES ASSUME NEW s \in Navpoints, s < source PROVE Stands(navMatrix', s, connected, LegLengths)
    OBVIOUS
  <2>1. Stands(navMatrix, s, connected, LegLengths)
    BY <1>1 DEF NavInv, RowsStand
  <2>2. s # source
    BY <1>1, NavAssumption DEF Navpoints
  <2>3. navMatrix'[s] = navMatrix[s]
    BY <1>11, <2>2
  <2> QED
    BY <2>1, <2>3 DEF Stands, Distances, Nexts
<1>14. walk = NoWalk /\ walk' = NoWalk
  BY <1>1 DEF NavInv, RowsStand
<1>15. /\ source' \in Navpoints => \A s \in Navpoints : s < source' => s < source \/ s = source
       /\ source' = Nowhere => \A s \in Navpoints : s < source \/ s = source
       /\ source' \in Navpoints \cup {Nowhere}
  BY <1>1, NavAssumption DEF Navpoints, Nowhere
<1>16. NavTypes'
  BY <1>3, <1>11, <1>14, <1>15 DEF NavTypes
<1>17. RowsStand'
  BY <1>1, <1>3, <1>12, <1>13, <1>14, <1>15 DEF RowsStand
<1>18. OriginalStands'
  BY <1>1, <1>3 DEF NavInv, OriginalStands
<1> QED
  BY <1>14, <1>16, <1>17, <1>18 DEF NavInv, WalkAddsUp

LEMMA LegsOfTheTableKeep ==
    NavInv /\ build_connected_nodes_from_navpoint_matrix => NavInv'
<1> SUFFICES ASSUME NavInv, build_connected_nodes_from_navpoint_matrix PROVE NavInv'
  OBVIOUS
<1> USE DEF build_connected_nodes_from_navpoint_matrix
<1>1. PointsApart' /\ LegLengths' = LegLengths
  BY DEF NavInv, NavTypes, PointsApart, LegLengths, get_path_length
<1>2. 0 \in Navpoints /\ ~\E s \in Navpoints : s < 0
  BY NavAssumption DEF Navpoints
<1>3. walk' = NoWalk
  OBVIOUS
<1>4. NavTypes'
  <2>1. NewMatrix \in Tables
    BY DEF NewMatrix, NoCell, Tables, TableCells
  <2> QED
    BY <1>1, <1>2, <1>3, <2>1 DEF NavTypes
<1>5. RowsStand'
  BY <1>2, <1>3 DEF RowsStand, Nowhere
<1>6. OriginalStands'
  <2>1. \A s \in Navpoints : Stands(navMatrix, s, connected, LegLengths)
    BY DEF NavInv, RowsStand, finished
  <2>2. connected' = {pair \in Navpoints \X Navpoints : original'[pair[1]][pair[2]].next = pair[2]}
    BY DEF from_navpoint_matrix
  <2>3. \A s \in Navpoints : Stands(original', s, connected, LegLengths')
    BY <1>1, <2>1
  <2> QED
    BY <2>2, <2>3 DEF OriginalStands
<1> QED
  BY <1>3, <1>4, <1>5, <1>6 DEF NavInv, WalkAddsUp

LEMMA ShowKeeps == NavInv /\ show_path => NavInv'
<1> SUFFICES ASSUME NavInv, show_path PROVE NavInv'
  OBVIOUS
<1>1. PICK from \in Navpoints, to \in Navpoints : walk' = [from |-> from, to |-> to, at |-> from, walked |-> 0]
  BY DEF show_path
<1>2. finished /\ UNCHANGED <<points, land, connected, navMatrix, source, original>>
  BY DEF show_path
<1>3. PointsApart' /\ LegLengths' = LegLengths
  BY <1>2 DEF NavInv, NavTypes, PointsApart, LegLengths, get_path_length
<1>4. NavTypes'
  <2>1. walk' \in [from : Navpoints, to : Navpoints, at : Navpoints, walked : Nat]
    BY <1>1
  <2> QED
    BY <1>2, <1>3, <2>1 DEF NavInv, NavTypes
<1>5. RowsStand'
  <2>1. source' \notin Navpoints
    BY <1>2, NavAssumption DEF finished, Nowhere, Navpoints
  <2> QED
    BY <1>2, <1>3, <2>1 DEF NavInv, RowsStand, finished
<1>6. OriginalStands'
  BY <1>2, <1>3 DEF NavInv, OriginalStands
<1>7. walk'.walked + navMatrix'[walk'.at][walk'.to].distance = navMatrix'[walk'.from][walk'.to].distance
  <2> DEFINE x == navMatrix[from][to].distance
  <2>1. x \in Int
    BY DEF NavInv, NavTypes, Tables, TableCells
  <2>2. walk'.walked = 0 /\ navMatrix'[walk'.at][walk'.to].distance = x /\ navMatrix'[walk'.from][walk'.to].distance = x
    BY <1>1, <1>2
  <2> HIDE DEF x
  <2> QED
    BY <2>1, <2>2
<1> QED
  BY <1>4, <1>5, <1>6, <1>7 DEF NavInv, WalkAddsUp

LEMMA HopKeeps == NavInv /\ Hop => NavInv'
<1> SUFFICES ASSUME NavInv, Hop PROVE NavInv'
  OBVIOUS
<1> DEFINE at == walk.at
           to == walk.to
           next == navMatrix[at][to].next
           len == get_path_length(at, next)
<1>1. at # to /\ walk' = [walk EXCEPT !.at = next, !.walked = @ + len]
      /\ UNCHANGED <<points, land, connected, navMatrix, source, original>>
  BY DEF Hop
<1>2. walk # NoWalk
  BY <1>1 DEF NoWalk
<1>3. walk \in [from : Navpoints, to : Navpoints, at : Navpoints, walked : Nat]
  BY <1>2 DEF NavInv, NavTypes
<1>4. PointsApart /\ PointsApart' /\ LegLengths' = LegLengths
  BY <1>1 DEF NavInv, NavTypes, PointsApart, LegLengths, get_path_length
<1>5. \A s \in Navpoints : Stands(navMatrix, s, connected, LegLengths)
  BY <1>2 DEF NavInv, RowsStand, NavTypes
<1>6. /\ next \in Navpoints \ {at}
      /\ navMatrix[at][to].distance = LegLengths[<<at, next>>] + navMatrix[next][to].distance
  <2> DEFINE dist == Distances(navMatrix, at)
             cells == Nexts(navMatrix, at)
             onward == Distances(navMatrix, next)
             after == Nexts(navMatrix, next)
  <2>1. at \in Navpoints /\ to \in Navpoints \ {at}
    BY <1>1, <1>3
  <2>2. cells[to] = next /\ dist[to] = navMatrix[at][to].distance /\ onward[to] = navMatrix[next][to].distance
    BY <2>1 DEF Distances, Nexts
  <2>3. IsRow(dist, cells, at, connected, LegLengths)
    BY <1>5, <2>1 DEF Stands
  <2>4. IsLengths(LegLengths)
    BY <1>4, LengthsAre
  <2>5. FirstNode(cells[to], to, dist, cells, at, connected, LegLengths)
    <3> HIDE DEF dist, cells, at, to
    <3> QED
      BY <2>1, <2>3, <2>4, NextIsFirst
  <2>6. next \in Navpoints \ {at}
    BY <2>2, <2>5 DEF FirstNode
  <2>7. IsRow(onward, after, cells[to], connected, LegLengths)
    BY <1>5, <2>2, <2>6 DEF Stands
  <2> HIDE DEF dist, cells, onward, after, next, at, to
  <2>8. IsLeft(onward, at, to, dist, cells, LegLengths)
    BY <2>1, <2>3, <2>4, <2>7, WhatIsLeft
  <2> QED
    BY <2>2, <2>6, <2>8 DEF IsLeft
<1>7. LegLengths[<<at, next>>] = len /\ len \in Nat
  <2>1. IsLengths(LegLengths) /\ at \in Navpoints
    BY <1>3, <1>4, LengthsAre
  <2> HIDE DEF next, at
  <2>2. LegLengths[<<at, next>>] \in Nat
    BY <1>6, <2>1 DEF IsLengths
  <2>3. LegLengths[<<at, next>>] = len
    BY <1>6, <2>1 DEF LegLengths
  <2> QED
    BY <2>2, <2>3
<1> HIDE DEF next, len
<1>8. /\ walk'.from = walk.from /\ walk'.to = to /\ walk'.at = next /\ walk'.walked = walk.walked + len
      /\ walk' \in [from : Navpoints, to : Navpoints, at : Navpoints, walked : Nat]
  <2>1. walk'.from = walk.from /\ walk'.to = walk.to /\ walk'.at = next /\ walk'.walked = walk.walked + len
    BY <1>1, <1>3
  <2>2. walk' = [from |-> walk.from, to |-> walk.to, at |-> next, walked |-> walk.walked + len]
    BY <1>1, <1>3
  <2>3. walk.from \in Navpoints /\ walk.to \in Navpoints /\ next \in Navpoints /\ walk.walked + len \in Nat
    BY <1>3, <1>6, <1>7
  <2> QED
    BY <2>1, <2>2, <2>3
<1>9. NavTypes'
  BY <1>1, <1>4, <1>8 DEF NavInv, NavTypes
<1>10. RowsStand'
  BY <1>1, <1>2, <1>4 DEF NavInv, RowsStand
<1>11. OriginalStands'
  BY <1>1, <1>4 DEF NavInv, OriginalStands
<1>12. walk'.walked + navMatrix'[walk'.at][walk'.to].distance = navMatrix'[walk'.from][walk'.to].distance
  <2> DEFINE w == walk.walked
             x == navMatrix[at][to].distance
             y == navMatrix[next][to].distance
             z == navMatrix[walk.from][to].distance
  <2>1. w + x = z /\ x = len + y
    BY <1>2, <1>6, <1>7 DEF NavInv, WalkAddsUp
  <2>2. w \in Nat /\ y \in Int
    BY <1>3, <1>6 DEF NavInv, NavTypes, Tables, TableCells
  <2>3. walk'.walked = w + len /\ navMatrix'[walk'.at][walk'.to].distance = y
        /\ navMatrix'[walk'.from][walk'.to].distance = z
    BY <1>1, <1>8
  <2> HIDE DEF w, x, y, z, at, to
  <2> QED
    BY <1>7, <2>1, <2>2, <2>3
<1> QED
  BY <1>9, <1>10, <1>11, <1>12 DEF NavInv, WalkAddsUp

LEMMA NavStutters == NavInv /\ UNCHANGED navVars => NavInv'
<1> SUFFICES ASSUME NavInv, UNCHANGED navVars PROVE NavInv'
  OBVIOUS
<1>1. UNCHANGED <<points, land, connected, navMatrix, source, original, walk>>
  BY DEF navVars
<1>2. PointsApart' /\ LegLengths' = LegLengths
  BY <1>1 DEF NavInv, NavTypes, PointsApart, LegLengths, get_path_length
<1>3. NavTypes'
  BY <1>1, <1>2 DEF NavInv, NavTypes
<1>4. RowsStand'
  BY <1>1, <1>2 DEF NavInv, RowsStand
<1>5. OriginalStands'
  BY <1>1, <1>2 DEF NavInv, OriginalStands
<1> QED
  BY <1>1, <1>3, <1>4, <1>5 DEF NavInv, WalkAddsUp

\* A table made of another's legs declares what that one did.
LEMMA TablesAgree ==
    ASSUME NavInv, finished, original # << >>, NEW s \in Navpoints, NEW t \in Navpoints
    PROVE  navMatrix[s][t].distance = original[s][t].distance
<1>1. PICK C : \A n \in Navpoints : Stands(original, n, C, LegLengths)
  BY DEF NavInv, OriginalStands
<1>2. Stands(navMatrix, s, connected, LegLengths)
  BY DEF NavInv, RowsStand, finished
<1>3. IsLengths(LegLengths)
  BY LengthsAre DEF NavInv, NavTypes
<1> DEFINE D == [n \in Navpoints |-> Distances(original, n)]
           X == [n \in Navpoints |-> Nexts(original, n)]
           L == connected
           dist == Distances(navMatrix, s)
           next == Nexts(navMatrix, s)
           len == LegLengths
<1>4. \A n \in Navpoints : IsRow(D[n], X[n], n, C, len)
  BY <1>1 DEF Stands
<1>5. \A a \in Navpoints, b \in Navpoints : <<a, b>> \in L <=> X[a][b] = b
  BY DEF NavInv, OriginalStands, Nexts
<1>6. IsRow(dist, next, s, L, len)
  BY <1>2 DEF Stands
<1>7. dist[t] = navMatrix[s][t].distance /\ D[s][t] = original[s][t].distance
  BY DEF Distances
<1>0. IsLengths(len)
  BY <1>3
<1> HIDE DEF D, X, L, dist, next, len
<1>8. \A u \in Navpoints : dist[u] = D[s][u]
  <2>1. IsTable(D, X, C, len)
    BY <1>4 DEF IsTable
  <2>2. GoesBy(L, X)
    BY <1>5 DEF GoesBy
  <2> QED
    BY <1>0, <1>6, <2>1, <2>2, LegsOfATable
<1> QED
  BY <1>7, <1>8

\* What show_path declares is what is left to go at every node it comes by, whatever trees of
\* shortest paths the rows were taken from, and a table made of the legs of another declares
\* what that one did: on every map, with every number of points.
THEOREM PathsAddUp == NavSpec => []PathsArrive
<1>1. NavInit => NavInv
  BY NavStart
<1>2. NavInv /\ [NavNext]_navVars => NavInv'
  BY LegsFromTheMapKeep, RowKeeps, LegsOfTheTableKeep, ShowKeeps, HopKeeps, NavStutters, Zenon DEF NavNext
<1>3. NavInv => PathsArrive
  BY TablesAgree DEF NavInv, WalkAddsUp, PathsArrive
<1> QED
  BY <1>1, <1>2, <1>3, PTL DEF NavSpec
-----------------------------------------------------------------------------
(* ShipKeys: a strip leaves nothing aboard, and nothing gets lost.         *)

Statuses == {Docked, Leaving, Entering, Repairing, AtSea}
Worlds == [ship : [Fleet -> [status : Statuses, crew : Nat, damaged : BOOLEAN]],
           aboard : [Fleet -> [Goods -> Nat]], store : [Goods -> Nat], tavern : Nat]
GoodsOrders == [kind : {"wares", "weapons"}, ship : Fleet, good : Goods, amount : Nat]
CrewOrders == [kind : {"dismiss", "hire", "repair"}, ship : Fleet, good : {NoGood}, amount : Nat]

ShipTypes == World \in Worlds /\ pending \in Seq(CrewOrders) /\ purse \in BOOLEAN

\* A convoy shares its status.
Together(w) == \A a \in Fleet, b \in Fleet : lead_of[a] = lead_of[b] => w.ship[a].status = w.ship[b].status

\* A ship with nothing and nobody aboard.
Bared(w, s) == w.ship[s].crew = 0 /\ \A g \in Goods : w.aboard[s][g] = 0

\* What a strip left in the yard is bare, and nobody is on the way to it.
LaidUpInv ==
    /\ Together(World)
    /\ laidUp \subseteq Fleet
    /\ \A s \in laidUp : fleet[s].status = Repairing /\ Bared(World, s) /\ ~HireWaits(s)

\* Goods and sailors of two worlds, in the office, in the town and aboard.
AllOf(w, g) == w.store[g] + SumOf([s \in Fleet |-> w.aboard[s][g]], Fleet)
AllHands(w) == w.tavern + SumOf([s \in Fleet |-> w.ship[s].crew], Fleet)
NothingLost(w, v) == (\A g \in Goods : AllOf(v, g) = AllOf(w, g)) /\ AllHands(v) = AllHands(w)

\* What an operation other than a hire makes less of, if anything.
Unloads(w, v) ==
    /\ \A s \in Fleet : v.ship[s].crew <= w.ship[s].crew
    /\ \A s \in Fleet, g \in Goods : v.aboard[s][g] <= w.aboard[s][g]

SameShips(w, v) ==
    \A s \in Fleet : v.ship[s].status = w.ship[s].status /\ v.ship[s].damaged = w.ship[s].damaged

\* The yard takes a ship in, with its convoy, or refuses it.
TakenIn(w, v, s) ==
    \A m \in Fleet : v.ship[m].status = IF m \in members(s) THEN Repairing ELSE w.ship[m].status
InOrNot(w, v, s) == TakenIn(w, v, s) \/ \A m \in Fleet : v.ship[m].status = w.ship[m].status

LEMMA MoveOfGoods ==
    ASSUME NEW w \in Worlds, NEW s \in Fleet, NEW good \in Goods, NEW amount \in Nat
    PROVE  LET v == unloaded(w, s, good, amount) IN
           /\ v \in Worlds /\ NothingLost(w, v) /\ Unloads(w, v) /\ v.ship = w.ship
           /\ amount >= w.aboard[s][good] => v.aboard[s][good] = 0
<1> DEFINE had == w.aboard[s][good]
           moved == least(amount, had)
           stored == w.store[good]
           v == unloaded(w, s, good, amount)
<1>1. had \in Nat /\ stored \in Nat
  BY DEF Worlds
<1>2. moved \in Nat /\ moved <= had /\ (amount >= had => moved = had)
  BY <1>1, SMT DEF least
<1> DEFINE kept == had - moved
           more == stored + moved
<1>3. kept \in Nat /\ more \in Nat /\ kept <= had /\ (amount >= had => kept = 0) /\ more + kept = stored + had
  <2> HIDE DEF had, moved, stored
  <2> QED
    BY <1>1, <1>2
<1> HIDE DEF kept, more
<1>4. /\ v.ship = w.ship /\ v.tavern = w.tavern
      /\ v.aboard = [w.aboard EXCEPT ![s][good] = kept]
      /\ v.store = [w.store EXCEPT ![good] = more]
      /\ v = [w EXCEPT !.aboard = v.aboard, !.store = v.store]
  BY DEF unloaded, Worlds, kept, more
<1> DEFINE load == [m \in Fleet |-> w.aboard[m][good]]
           rest == [m \in Fleet |-> v.aboard[m][good]]
<1>5. v \in Worlds
  <2> HIDE DEF v
  <2>1. [w.aboard EXCEPT ![s][good] = kept] \in [Fleet -> [Goods -> Nat]]
    BY <1>3 DEF Worlds
  <2>2. [w.store EXCEPT ![good] = more] \in [Goods -> Nat]
    BY <1>3 DEF Worlds
  <2> QED
    BY <1>4, <2>1, <2>2 DEF Worlds
<1>6. v.aboard[s][good] = kept /\ v.store[good] = more
  BY <1>4 DEF Worlds
<1>7. \A m \in Fleet, g \in Goods : m # s \/ g # good => v.aboard[m][g] = w.aboard[m][g]
  BY <1>4 DEF Worlds
<1>8. \A g \in Goods \ {good} : v.store[g] = w.store[g]
  BY <1>4 DEF Worlds
<1>9. AllOf(v, good) = AllOf(w, good)
  <2> HIDE DEF v, had, stored
  <2>1. load \in [Fleet -> Nat] /\ rest \in [Fleet -> Nat]
    BY <1>5 DEF Worlds
  <2>2. load[s] = had /\ rest[s] = kept /\ \A m \in Fleet : m # s => rest[m] = load[m]
    BY <1>6, <1>7 DEF had
  <2>3. AllOf(v, good) = more + SumOf(rest, Fleet) /\ AllOf(w, good) = stored + SumOf(load, Fleet)
    BY <1>6 DEF AllOf, stored
  <2> HIDE DEF load, rest
  <2>4. SumOf(load, Fleet) \in Nat /\ SumOf(rest, Fleet) \in Nat /\ SumOf(rest, Fleet) + had = SumOf(load, Fleet) + kept
    BY <2>1, <2>2, SumOfOneChange, ShipKeysAssumption
  <2> QED
    BY <1>1, <1>3, <2>3, <2>4
<1>10. ASSUME NEW g \in Goods, g # good PROVE AllOf(v, g) = AllOf(w, g)
  <2>1. [m \in Fleet |-> v.aboard[m][g]] = [m \in Fleet |-> w.aboard[m][g]]
    BY <1>7, <1>10
  <2> QED
    BY <1>8, <1>10, <2>1 DEF AllOf
<1>11. NothingLost(w, v)
  BY <1>4, <1>9, <1>10 DEF NothingLost, AllHands
<1>12. Unloads(w, v)
  <2>1. ASSUME NEW m \in Fleet PROVE v.ship[m].crew <= w.ship[m].crew
    <3>1. v.ship[m].crew = w.ship[m].crew /\ w.ship[m].crew \in Nat
      BY <1>4 DEF Worlds
    <3> QED
      BY <3>1
  <2>2. ASSUME NEW m \in Fleet, NEW g \in Goods PROVE v.aboard[m][g] <= w.aboard[m][g]
    <3>1. CASE m = s /\ g = good
      BY <1>1, <1>3, <1>6, <3>1
    <3>2. CASE m # s \/ g # good
      <4>1. v.aboard[m][g] = w.aboard[m][g] /\ w.aboard[m][g] \in Nat
        BY <1>7, <3>2 DEF Worlds
      <4> QED
        BY <4>1
    <3> QED
      BY <3>1, <3>2
  <2> QED
    BY <2>1, <2>2 DEF Unloads
<1> QED
  BY <1>3, <1>4, <1>5, <1>6, <1>11, <1>12

\* The world with another crew on a ship, and other sailors in the town.
staffed(w, s, crew, sailors) == [w EXCEPT !.ship[s].crew = crew, !.tavern = sailors]

\* A crew that changes together with the town's sailors.
LEMMA MoveOfHands ==
    ASSUME NEW w \in Worlds, NEW s \in Fleet, NEW crew \in Nat, NEW sailors \in Nat,
           crew + sailors = w.ship[s].crew + w.tavern
    PROVE  LET v == staffed(w, s, crew, sailors) IN
           /\ v \in Worlds /\ NothingLost(w, v) /\ SameShips(w, v) /\ v.ship[s].crew = crew /\ v.aboard = w.aboard
           /\ \A m \in Fleet : m # s => v.ship[m] = w.ship[m]
           /\ crew <= w.ship[s].crew => Unloads(w, v)
<1> DEFINE v == staffed(w, s, crew, sailors)
           had == w.ship[s].crew
           town == w.tavern
           hands == [m \in Fleet |-> w.ship[m].crew]
           rest == [m \in Fleet |-> v.ship[m].crew]
<1>1. v \in Worlds /\ v.aboard = w.aboard /\ v.store = w.store /\ v.tavern = sailors
  BY DEF staffed, Worlds
<1>2. \A m \in Fleet : m # s => v.ship[m] = w.ship[m]
  BY DEF staffed, Worlds
<1>3. v.ship[s].crew = crew /\ v.ship[s].status = w.ship[s].status /\ v.ship[s].damaged = w.ship[s].damaged
  BY DEF staffed, Worlds
<1>4. SameShips(w, v)
  BY <1>2, <1>3 DEF SameShips
<1>5. had \in Nat /\ town \in Nat /\ crew + sailors = had + town
  BY DEF Worlds
<1>6. AllHands(v) = AllHands(w)
  <2> HIDE DEF v, had, town
  <2>1. hands \in [Fleet -> Nat] /\ rest \in [Fleet -> Nat]
    BY <1>1 DEF Worlds
  <2>2. hands[s] = had /\ rest[s] = crew /\ \A m \in Fleet : m # s => rest[m] = hands[m]
    BY <1>2, <1>3 DEF had
  <2>3. AllHands(v) = sailors + SumOf(rest, Fleet) /\ AllHands(w) = town + SumOf(hands, Fleet)
    BY <1>1 DEF AllHands, town
  <2> HIDE DEF hands, rest
  <2>4. SumOf(hands, Fleet) \in Nat /\ SumOf(rest, Fleet) \in Nat /\ SumOf(rest, Fleet) + had = SumOf(hands, Fleet) + crew
    BY <2>1, <2>2, SumOfOneChange, ShipKeysAssumption
  <2> QED
    BY <1>5, <2>3, <2>4
<1>7. NothingLost(w, v)
  BY <1>1, <1>6 DEF NothingLost, AllOf
<1>8. ASSUME crew <= w.ship[s].crew PROVE Unloads(w, v)
  <2>1. ASSUME NEW m \in Fleet PROVE v.ship[m].crew <= w.ship[m].crew
    <3>1. CASE m = s
      BY <1>3, <1>8, <3>1
    <3>2. CASE m # s
      <4>1. v.ship[m].crew = w.ship[m].crew /\ w.ship[m].crew \in Nat
        BY <1>2, <3>2 DEF Worlds
      <4> QED
        BY <4>1
    <3> QED
      BY <3>1, <3>2
  <2>2. ASSUME NEW m \in Fleet, NEW g \in Goods PROVE v.aboard[m][g] <= w.aboard[m][g]
    <3>1. v.aboard[m][g] = w.aboard[m][g] /\ w.aboard[m][g] \in Nat
      BY <1>1 DEF Worlds
    <3> QED
      BY <3>1
  <2> QED
    BY <2>1, <2>2 DEF Unloads
<1> QED
  BY <1>1, <1>2, <1>3, <1>4, <1>7, <1>8

\* A world is not less than itself.
LEMMA Refusal ==
    ASSUME NEW w \in Worlds
    PROVE  NothingLost(w, w) /\ Unloads(w, w) /\ SameShips(w, w)
<1>1. \A s \in Fleet : w.ship[s].crew \in Nat
  BY DEF Worlds
<1>2. \A s \in Fleet, g \in Goods : w.aboard[s][g] \in Nat
  BY DEF Worlds
<1> QED
  BY <1>1, <1>2 DEF NothingLost, Unloads, SameShips

\* What the operations of a strip do, on a ship in port that leads no convoy; elsewhere they
\* may be refused.
LEMMA GoodsOperation ==
    ASSUME NEW w \in Worlds, NEW op \in GoodsOrders
    PROVE  LET v == execute_operation(w, op) IN
           /\ v \in Worlds /\ NothingLost(w, v) /\ Unloads(w, v) /\ SameShips(w, v)
           /\ w.ship[op.ship].status = Docked /\ has_office /\ ~is_lead(op.ship) /\ op.amount >= w.aboard[op.ship][op.good]
                 => v.aboard[op.ship][op.good] = 0
<1> DEFINE s == op.ship
           v == execute_operation(w, op)
           u == unloaded(w, s, op.good, op.amount)
<1>1. op.kind \in {"wares", "weapons"} /\ s \in Fleet /\ op.good \in Goods /\ op.amount \in Nat
  BY DEF GoodsOrders
<1>2. v = u \/ v = w
  BY <1>1 DEF execute_operation, ShipMoveWares, ShipMoveWeapons
<1>3. w.ship[s].status = Docked /\ has_office /\ ~is_lead(s) => v = u
  BY <1>1 DEF execute_operation, ShipMoveWares, ShipMoveWeapons, Docked, Repairing
<1> HIDE DEF v, u, s
<1>4. /\ u \in Worlds /\ NothingLost(w, u) /\ Unloads(w, u) /\ u.ship = w.ship
      /\ op.amount >= w.aboard[s][op.good] => u.aboard[s][op.good] = 0
  BY <1>1, MoveOfGoods DEF u
<1>5. SameShips(w, u)
  BY <1>4 DEF SameShips
<1> QED
  BY <1>2, <1>3, <1>4, <1>5, Refusal DEF v, s

\* Crews and repairs: a dismissal empties a ship in port, a repair takes the ship and its
\* damage into the yard, and neither touches the goods.
LEMMA CrewOperation ==
    ASSUME NEW w \in Worlds, NEW op \in CrewOrders
    PROVE  LET v == execute_operation(w, op) IN
           /\ v \in Worlds /\ NothingLost(w, v) /\ v.aboard = w.aboard
           /\ op.kind # "repair" => SameShips(w, v)
           /\ op.kind # "hire" => Unloads(w, v)
           /\ op.kind = "hire" => \A m \in Fleet : m # op.ship => v.ship[m] = w.ship[m]
           /\ op.kind = "repair" => InOrNot(w, v, op.ship)
           /\ w.ship[op.ship].status = Docked =>
                 /\ op.kind = "dismiss" /\ op.amount >= w.ship[op.ship].crew => v.ship[op.ship].crew = 0
                 /\ op.kind = "repair" /\ purse /\ (\E m \in members(op.ship) : w.ship[m].damaged)
                       => v.ship[op.ship].status = Repairing
<1> DEFINE s == op.ship
           v == execute_operation(w, op)
           had == w.ship[s].crew
           town == w.tavern
<1>1. op.kind \in {"dismiss", "hire", "repair"} /\ s \in Fleet /\ op.amount \in Nat
  BY DEF CrewOrders
<1>2. had \in Nat /\ town \in Nat
  BY <1>1 DEF Worlds
<1>3. CASE op.kind = "dismiss"
  <2> DEFINE gone == least(op.amount, had)
  <2>1. gone \in Nat /\ gone <= had /\ (op.amount >= had => gone = had)
    BY <1>1, <1>2, SMT DEF least
  <2> DEFINE crew == had - gone
             sailors == town + gone
             u == staffed(w, s, crew, sailors)
  <2>2. v = u \/ v = w
    BY <1>3 DEF staffed, execute_operation, DismissSailors, Worlds
  <2>3. w.ship[s].status = Docked => v = u
    BY <1>3 DEF staffed, execute_operation, DismissSailors, Worlds, Docked, Repairing
  <2> HIDE DEF v, gone
  <2>4. crew \in Nat /\ sailors \in Nat /\ crew <= had /\ crew + sailors = had + town /\ (op.amount >= had => crew = 0)
    <3> HIDE DEF had, town
    <3> QED
      BY <1>2, <2>1
  <2> HIDE DEF crew, sailors
  <2>5. /\ u \in Worlds /\ NothingLost(w, u) /\ SameShips(w, u) /\ u.ship[s].crew = crew /\ u.aboard = w.aboard
        /\ Unloads(w, u)
    BY <1>1, <2>4, MoveOfHands
  <2> HIDE DEF u
  <2> QED
    BY <1>3, <2>2, <2>3, <2>4, <2>5, Refusal DEF v
<1>4. CASE op.kind = "hire"
  <2> DEFINE room == get_free_sailor_berths(w, s)
             hired == least(op.amount, least(IF room < 0 THEN 0 ELSE room, w.tavern))
  <2>1. room \in Int
    BY <1>1, <1>2, ShipKeysAssumption DEF get_free_sailor_berths
  <2>2. hired \in Nat /\ hired <= town
    <3> HIDE DEF room
    <3> QED
      BY <1>1, <1>2, <2>1, SMT DEF least
  <2> DEFINE crew == had + hired
             sailors == town - hired
             u == staffed(w, s, crew, sailors)
  <2>3. v = u
    BY <1>4 DEF staffed, execute_operation, HireSailors, Worlds
  <2> HIDE DEF v, hired
  <2>4. crew \in Nat /\ sailors \in Nat /\ crew + sailors = had + town
    <3> HIDE DEF had, town
    <3> QED
      BY <1>2, <2>2
  <2> HIDE DEF crew, sailors
  <2>5. /\ u \in Worlds /\ NothingLost(w, u) /\ SameShips(w, u) /\ u.aboard = w.aboard
        /\ \A m \in Fleet : m # s => u.ship[m] = w.ship[m]
    BY <1>1, <2>4, MoveOfHands
  <2> HIDE DEF u
  <2> QED
    BY <1>4, <2>3, <2>5 DEF v
<1>5. CASE op.kind = "repair"
  <2> DEFINE u == [w EXCEPT !.ship = [m \in Fleet |->
                      IF m \in members(s) THEN [w.ship[m] EXCEPT !.status = Repairing] ELSE w.ship[m]]]
  <2>1. v = u \/ v = w
    BY <1>5 DEF execute_operation, RepairShip
  <2>2. w.ship[s].status = Docked /\ purse /\ (\E m \in members(s) : w.ship[m].damaged) => v = u
    BY <1>5 DEF execute_operation, RepairShip, Docked, Repairing
  <2> HIDE DEF v
  <2>3. u.aboard = w.aboard /\ u.store = w.store /\ u.tavern = w.tavern
    BY DEF Worlds
  <2>4. \A m \in Fleet : u.ship[m].crew = w.ship[m].crew
    BY DEF Worlds
  <2>11. Repairing \in Statuses
    BY DEF Statuses
  <2>5. u \in Worlds
    BY <2>11 DEF Worlds
  <2>6. u.ship[s].status = Repairing
    <3>1. s \in members(s)
      BY <1>1 DEF members
    <3> QED
      BY <1>1, <3>1 DEF Worlds
  <2>10. InOrNot(w, v, s)
    <3>1. \A m \in Fleet : u.ship[m].status = IF m \in members(s) THEN Repairing ELSE w.ship[m].status
      BY DEF Worlds
    <3> QED
      BY <2>1, <3>1 DEF InOrNot, TakenIn
  <2> HIDE DEF u
  <2>7. [m \in Fleet |-> u.ship[m].crew] = [m \in Fleet |-> w.ship[m].crew]
    BY <2>4
  <2>8. NothingLost(w, u)
    BY <2>3, <2>7 DEF NothingLost, AllOf, AllHands
  <2>9. Unloads(w, u)
    BY <2>3, <2>4, Refusal DEF Unloads
  <2> QED
    BY <1>5, <2>1, <2>2, <2>3, <2>5, <2>6, <2>8, <2>9, <2>10, Refusal DEF v
<1> QED
  BY <1>1, <1>3, <1>4, <1>5
\* What a list of operations makes of a world, one after the other.
Runs(done, w, operations) ==
    /\ done \in [0 .. Len(operations) -> Worlds] /\ done[0] = w
    /\ \A n \in 1 .. Len(operations) : done[n] = execute_operation(done[n - 1], operations[n])

\* There is such a course, and executed is where it ends.
LEMMA ExecutedIs ==
    ASSUME NEW w \in Worlds, NEW operations \in Seq(GoodsOrders \cup CrewOrders)
    PROVE  \E done : Runs(done, w, operations) /\ executed(w, operations) = done[Len(operations)]
<1> DEFINE L == Len(operations)
           one(x, n) == execute_operation(x, operations[n])
           after == CHOOSE f : f = [n \in 0 .. L |-> IF n = 0 THEN w ELSE execute_operation(f[n - 1], operations[n])]
           step == [p \in (1 .. L) \X Worlds |-> one(p[2], p[1])]
<1>1. L \in Nat /\ \A n \in 1 .. L : operations[n] \in GoodsOrders \/ operations[n] \in CrewOrders
  OBVIOUS
<1>2. ASSUME NEW n \in 1 .. L, NEW x \in Worlds PROVE one(x, n) \in Worlds
  <2>1. CASE operations[n] \in GoodsOrders
    BY <2>1, GoodsOperation
  <2>2. CASE operations[n] \in CrewOrders
    BY <2>2, CrewOperation
  <2> QED
    BY <1>1, <2>1, <2>2
<1>3. executed(w, operations) = after[L]
  BY DEF executed
<1> HIDE DEF L
<1>4. step \in [(1 .. L) \X Worlds -> Worlds]
  <2> HIDE DEF one
  <2> QED
    BY <1>2
<1>5. PICK f : f \in [0 .. L -> Worlds] /\ f[0] = w /\ \A n \in 1 .. L : f[n] = step[<<n, f[n - 1]>>]
  <2> HIDE DEF step
  <2>1. \E f : HandsOn(f, Worlds, w, L, step)
    BY <1>1, <1>4, Recursion
  <2> QED
    BY <2>1 DEF HandsOn
<1>6. \A n \in 1 .. L : f[n] = one(f[n - 1], n)
  <2> SUFFICES ASSUME NEW n \in 1 .. L PROVE f[n] = one(f[n - 1], n)
    OBVIOUS
  <2> HIDE DEF one
  <2>1. n - 1 \in 0 .. L
    BY <1>1
  <2> QED
    BY <1>5, <2>1
<1>7. f = [n \in 0 .. L |-> IF n = 0 THEN w ELSE one(f[n - 1], n)]
  <2> HIDE DEF one
  <2>1. \A n \in 0 .. L : n # 0 => n \in 1 .. L
    BY <1>1
  <2>2. \A n \in 0 .. L : f[n] = IF n = 0 THEN w ELSE one(f[n - 1], n)
    BY <1>5, <1>6, <2>1
  <2> QED
    BY <1>5, <2>2
<1>8. after = [n \in 0 .. L |-> IF n = 0 THEN w ELSE one(after[n - 1], n)]
  BY <1>7
<1> HIDE DEF after, step
<1>9. Runs(after, w, operations)
  <2> HIDE DEF one
  <2> DEFINE T == {n \in 0 .. L : after[n] \in Worlds}
  <2>1. 0 \in T
    BY <1>1, <1>8
  <2>2. ASSUME NEW n \in 0 .. L - 1, n \in T PROVE n + 1 \in T
    <3> DEFINE m == n + 1
    <3>1. m \in 1 .. L /\ m \in 0 .. L /\ m # 0 /\ m - 1 = n
      BY <1>1
    <3> HIDE DEF m
    <3>2. after[m] = one(after[n], m)
      BY <1>8, <3>1
    <3>3. m \in T
      BY <1>2, <2>2, <3>1, <3>2
    <3> QED
      BY <3>3 DEF m
  <2> HIDE DEF T
  <2>3. \A n \in 0 .. L : n \in T
    BY <1>1, <2>1, <2>2, IntervalInduction
  <2>4. after \in [0 .. L -> Worlds] /\ after[0] = w
    BY <1>1, <1>8, <2>3 DEF T
  <2>5. \A n \in 1 .. L : after[n] = one(after[n - 1], n)
    BY <1>1, <1>8
  <2> QED
    BY <2>4, <2>5 DEF Runs, one, L
<1> QED
  BY <1>3, <1>9 DEF L

\* The orders for what a ship holds of some goods.
Held(s, goods) == {g \in goods : aboard[s][g] > 0}
OrdersFor(kind, s, goods) == {Order(kind, s, g, aboard[s][g]) : g \in Held(s, goods)}

\* All orders of a list are for what the ship holds, and what it holds of these goods is ordered.
Unloading(list, s, goods) ==
    /\ list \in Seq(GoodsOrders)
    /\ \A i \in 1 .. Len(list) : list[i].ship = s /\ list[i].amount = aboard[s][list[i].good]
    /\ \A g \in goods : aboard[s][g] > 0 => \E i \in 1 .. Len(list) : list[i].good = g

LEMMA OrdersAreAList ==
    ASSUME World \in Worlds, NEW s \in Fleet, NEW goods \in SUBSET Goods, IsFiniteSet(goods),
           NEW kind \in {"wares", "weapons"}
    PROVE  Unloading(SetToSeq(OrdersFor(kind, s, goods)), s, goods)
<1> DEFINE H == Held(s, goods)
           T == OrdersFor(kind, s, goods)
           f == [g \in H |-> Order(kind, s, g, aboard[s][g])]
           list == SetToSeq(T)
<1>1. aboard \in [Fleet -> [Goods -> Nat]]
  BY DEF World, Worlds
<1>2. H \in SUBSET goods
  BY DEF Held
<1>3. IsFiniteSet(T)
  <2>1. f \in Surjection(H, T)
    BY DEF Surjection, OrdersFor
  <2>2. IsFiniteSet(H)
    BY <1>2, FS_Subset
  <2> QED
    BY <2>1, <2>2, FS_Surjection
<1>4. T \in SUBSET GoodsOrders /\ \A o \in T : o.ship = s /\ o.amount = aboard[s][o.good]
  BY <1>1, <1>2 DEF OrdersFor, Order, GoodsOrders
<1>5. \A g \in goods : aboard[s][g] > 0 => \E o \in T : o.good = g
  <2> SUFFICES ASSUME NEW g \in goods, aboard[s][g] > 0 PROVE \E o \in T : o.good = g
    OBVIOUS
  <2>1. Order(kind, s, g, aboard[s][g]) \in T /\ Order(kind, s, g, aboard[s][g]).good = g
    BY DEF OrdersFor, Held, Order
  <2> QED
    BY <2>1
<1> HIDE DEF T, list
<1>6. list \in Seq(T) /\ \A o \in T : \E i \in 1 .. Len(list) : list[i] = o
  BY <1>3, SetToSeqIs DEF ListOf, list
<1>7. \A i \in 1 .. Len(list) : list[i] \in T
  BY <1>6
<1>8. list \in Seq(GoodsOrders)
  <2>1. \A x \in T : x \in GoodsOrders
    BY <1>4
  <2> QED
    BY <1>6, <2>1
<1> QED
  BY <1>4, <1>5, <1>6, <1>7, <1>8 DEF Unloading, list, T

\* Two such lists, one after the other.
LEMMA UnloadingsAdd ==
    ASSUME NEW s, NEW a, NEW b, NEW A, NEW B, Unloading(a, s, A), Unloading(b, s, B)
    PROVE  Unloading(a \o b, s, A \cup B)
<1> DEFINE ab == a \o b
<1>1. a \in Seq(GoodsOrders) /\ b \in Seq(GoodsOrders) /\ Len(a) \in Nat /\ Len(b) \in Nat
  BY DEF Unloading
<1>2. /\ ab \in Seq(GoodsOrders) /\ Len(ab) = Len(a) + Len(b)
      /\ \A i \in 1 .. Len(a) : ab[i] = a[i]
      /\ \A i \in 1 .. Len(b) : ab[Len(a) + i] = b[i]
  BY <1>1
<1> HIDE DEF ab
<1>3. ASSUME NEW i \in 1 .. Len(ab) PROVE ab[i].ship = s /\ ab[i].amount = aboard[s][ab[i].good]
  <2>1. CASE i \in 1 .. Len(a)
    BY <1>2, <2>1 DEF Unloading
  <2>2. CASE i \notin 1 .. Len(a)
    <3>1. PICK j \in 1 .. Len(b) : i = Len(a) + j
      <4>1. i - Len(a) \in 1 .. Len(b) /\ i = Len(a) + (i - Len(a))
        BY <1>1, <1>2, <2>2
      <4> QED
        BY <4>1
    <3>2. ab[i] = b[j]
      BY <1>2, <3>1
    <3> QED
      BY <3>2 DEF Unloading
  <2> QED
    BY <2>1, <2>2
<1>4. ASSUME NEW g \in A \cup B, aboard[s][g] > 0 PROVE \E i \in 1 .. Len(ab) : ab[i].good = g
  <2>1. CASE g \in A
    <3>1. PICK i \in 1 .. Len(a) : a[i].good = g
      BY <1>4, <2>1 DEF Unloading
    <3>2. i \in 1 .. Len(ab)
      BY <1>1, <1>2
    <3> QED
      BY <1>2, <3>1, <3>2
  <2>2. CASE g \in B
    <3>1. PICK i \in 1 .. Len(b) : b[i].good = g
      BY <1>4, <2>2 DEF Unloading
    <3>2. Len(a) + i \in 1 .. Len(ab)
      BY <1>1, <1>2
    <3> QED
      BY <1>2, <3>1, <3>2
  <2> QED
    BY <2>1, <2>2
<1> QED
  BY <1>2, <1>3, <1>4 DEF Unloading, ab

\* The transfers of a strip order everything the ship holds, once each.
LEMMA TransfersAre ==
    ASSUME World \in Worlds, NEW s \in Fleet
    PROVE  Unloading(transfers(s), s, Goods)
<1> DEFINE wares == SetToSeq(OrdersFor("wares", s, WaresAboard))
           guns == SetToSeq(OrdersFor("weapons", s, Artillery))
           blades == IF aboard[s][Cutlasses] > 0
                     THEN <<Order("weapons", s, Cutlasses, aboard[s][Cutlasses])>> ELSE <<>>
<1>1. transfers(s) = (wares \o guns) \o blades
  BY DEF transfers, OrdersFor, Held
<1>2. Unloading(wares, s, WaresAboard)
  <2>1. WaresAboard \in SUBSET Goods
    BY DEF Goods
  <2> QED
    BY <2>1, OrdersAreAList, ShipKeysAssumption
<1>3. Unloading(guns, s, Artillery)
  <2>1. Artillery \in SUBSET Goods
    BY DEF Goods, Weapons
  <2> QED
    BY <2>1, OrdersAreAList, ShipKeysAssumption
<1>4. Unloading(blades, s, {Cutlasses})
  <2>1. aboard[s][Cutlasses] \in Nat /\ Cutlasses \in Goods
    BY DEF World, Worlds, Goods, Weapons
  <2>2. Order("weapons", s, Cutlasses, aboard[s][Cutlasses]) \in GoodsOrders
    BY <2>1 DEF Order, GoodsOrders
  <2> DEFINE o == Order("weapons", s, Cutlasses, aboard[s][Cutlasses])
  <2>3. o.ship = s /\ o.amount = aboard[s][o.good] /\ o.good = Cutlasses
    BY DEF Order
  <2> HIDE DEF o
  <2>4. CASE aboard[s][Cutlasses] > 0
    <3>1. blades = <<o>>
      BY <2>4 DEF o
    <3>2. <<o>> \in Seq(GoodsOrders) /\ Len(<<o>>) = 1 /\ <<o>>[1] = o
      BY <2>2 DEF o
    <3> HIDE DEF blades
    <3> QED
      BY <2>3, <3>1, <3>2 DEF Unloading
  <2>5. CASE ~(aboard[s][Cutlasses] > 0)
    <3>1. blades = <<>>
      BY <2>5
    <3>2. <<>> \in Seq(GoodsOrders) /\ Len(<<>>) = 0
      OBVIOUS
    <3> HIDE DEF blades
    <3> QED
      BY <2>5, <3>1, <3>2 DEF Unloading
  <2> QED
    BY <2>4, <2>5
<1>5. (WaresAboard \cup Artillery) \cup {Cutlasses} = Goods
  BY DEF Goods, Weapons
<1> HIDE DEF wares, guns, blades
<1>6. Unloading(wares \o guns, s, WaresAboard \cup Artillery)
  BY <1>2, <1>3, UnloadingsAdd
<1>7. Unloading((wares \o guns) \o blades, s, (WaresAboard \cup Artillery) \cup {Cutlasses})
  BY <1>4, <1>6, UnloadingsAdd
<1> QED
  BY <1>1, <1>5, <1>7

\* The list of a strip: goods and crew, all of both, and at its end the repair.
StripList(list, s) ==
    /\ list \in Seq(GoodsOrders \cup CrewOrders) /\ Len(list) > 0
    /\ list[Len(list)] = Order("repair", s, NoGood, 1)
    /\ \A i \in 1 .. Len(list) - 1 :
         \/ list[i] \in GoodsOrders /\ list[i].ship = s /\ list[i].amount = aboard[s][list[i].good]
         \/ list[i] = Order("dismiss", s, NoGood, fleet[s].crew)
    /\ \A g \in Goods : aboard[s][g] > 0 =>
         \E i \in 1 .. Len(list) - 1 : list[i] \in GoodsOrders /\ list[i].good = g
    /\ fleet[s].crew > 0 => \E i \in 1 .. Len(list) - 1 : list[i] = Order("dismiss", s, NoGood, fleet[s].crew)

LEMMA StripOperationsAre ==
    ASSUME World \in Worlds, NEW s \in Fleet
    PROVE  StripList(strip_operations(s), s)
<1> DEFINE a == transfers(s)
           d == Order("dismiss", s, NoGood, fleet[s].crew)
           r == Order("repair", s, NoGood, 1)
           b == discharge(s)
           c == <<r>>
           O == GoodsOrders \cup CrewOrders
           list == strip_operations(s)
           ab == a \o b
           crew == fleet[s].crew
<1>1. crew \in Nat
  BY DEF World, Worlds
<1>2. Unloading(a, s, Goods)
  BY TransfersAre
<1>3. d \in CrewOrders /\ r \in CrewOrders
  BY <1>1 DEF Order, CrewOrders
<1>4. b = IF crew > 0 THEN <<d>> ELSE <<>>
  BY DEF discharge
<1>5. list = ab \o c
  BY DEF strip_operations
<1> HIDE DEF a, b, d, r, list, crew
<1>6. a \in Seq(GoodsOrders) /\ a \in Seq(O)
  <2>1. a \in Seq(GoodsOrders)
    BY <1>2 DEF Unloading
  <2> QED
    BY <2>1
<1>7. b \in Seq(O) /\ (\A i \in 1 .. Len(b) : b[i] = d) /\ (crew > 0 => Len(b) = 1)
  <2>1. d \in O
    BY <1>3
  <2> HIDE DEF O
  <2>2. <<d>> \in Seq(O) /\ <<>> \in Seq(O) /\ Len(<<d>>) = 1 /\ Len(<<>>) = 0 /\ <<d>>[1] = d
    BY <2>1
  <2>3. CASE crew > 0
    <3>1. b = <<d>> /\ 1 .. Len(b) = {1}
      BY <1>4, <2>2, <2>3
    <3> QED
      BY <2>2, <3>1
  <2>4. CASE ~(crew > 0)
    <3>1. b = <<>> /\ 1 .. Len(b) = {}
      BY <1>4, <2>2, <2>4
    <3> QED
      BY <2>2, <2>4, <3>1
  <2> QED
    BY <2>3, <2>4
<1>8. c \in Seq(O) /\ Len(c) = 1 /\ c[1] = r
  <2>1. r \in O
    BY <1>3
  <2> HIDE DEF O
  <2> QED
    BY <2>1
<1> HIDE DEF O, c
<1>9. Len(a) \in Nat /\ Len(b) \in Nat
  BY <1>6, <1>7
<1>10. /\ ab \in Seq(O) /\ Len(ab) = Len(a) + Len(b)
       /\ \A i \in 1 .. Len(a) : ab[i] = a[i]
       /\ \A i \in 1 .. Len(b) : ab[Len(a) + i] = b[i]
  BY <1>6, <1>7
<1> HIDE DEF ab
<1>11. /\ list \in Seq(O) /\ Len(list) = Len(ab) + 1
       /\ \A i \in 1 .. Len(ab) : list[i] = ab[i]
       /\ list[Len(ab) + 1] = r
  <2> DEFINE abc == ab \o c
  <2>1. /\ abc \in Seq(O) /\ Len(abc) = Len(ab) + Len(c)
        /\ \A i \in 1 .. Len(ab) : abc[i] = ab[i]
        /\ \A i \in 1 .. Len(c) : abc[Len(ab) + i] = c[i]
    <3>1. ab \in Seq(O) /\ c \in Seq(O)
      BY <1>8, <1>10
    <3>2. Len(c) \in Nat /\ Len(ab) \in Nat
      BY <3>1
    <3> QED
      BY <3>1, <3>2
  <2> HIDE DEF abc
  <2>2. 1 \in 1 .. Len(c)
    BY <1>8
  <2> QED
    BY <1>5, <1>8, <2>1, <2>2 DEF abc
<1> DEFINE L == Len(list)
           n == Len(a)
           k == Len(b)
<1> HIDE DEF L, n, k
<1>12. L \in Nat /\ L = n + k + 1 /\ L - 1 = n + k /\ n \in Nat /\ k \in Nat /\ Len(ab) = n + k
  BY <1>9, <1>10, <1>11 DEF L, n, k
<1>13. \A i \in 1 .. n : i \in 1 .. L - 1 /\ list[i] = a[i]
  <2> SUFFICES ASSUME NEW i \in 1 .. n PROVE i \in 1 .. L - 1 /\ list[i] = a[i]
    OBVIOUS
  <2>1. i \in 1 .. n + k
    BY <1>12
  <2> QED
    BY <1>10, <1>11, <1>12, <2>1 DEF n
<1>14. \A i \in 1 .. k : n + i \in 1 .. L - 1 /\ list[n + i] = d
  <2> SUFFICES ASSUME NEW i \in 1 .. k PROVE n + i \in 1 .. L - 1 /\ list[n + i] = d
    OBVIOUS
  <2>1. n + i \in 1 .. n + k
    BY <1>12
  <2>2. ab[n + i] = b[i] /\ b[i] = d
    BY <1>7, <1>10 DEF n, k
  <2> QED
    BY <1>11, <1>12, <2>1, <2>2
<1>15. ASSUME NEW i \in 1 .. L - 1
       PROVE  \/ list[i] \in GoodsOrders /\ list[i].ship = s /\ list[i].amount = aboard[s][list[i].good]
              \/ list[i] = d
  <2>1. CASE i \in 1 .. n
    <3>1. list[i] = a[i] /\ i \in 1 .. Len(a)
      BY <1>13, <2>1 DEF n
    <3>2. a[i] \in GoodsOrders /\ a[i].ship = s /\ a[i].amount = aboard[s][a[i].good]
      BY <1>2, <1>6, <3>1 DEF Unloading
    <3> QED
      BY <3>1, <3>2
  <2>2. CASE i \notin 1 .. n
    <3>1. i - n \in 1 .. k /\ n + (i - n) = i
      BY <1>12, <2>2
    <3> QED
      BY <1>14, <3>1
  <2> QED
    BY <2>1, <2>2
<1>16. ASSUME NEW g \in Goods, aboard[s][g] > 0
       PROVE  \E i \in 1 .. L - 1 : list[i] \in GoodsOrders /\ list[i].good = g
  <2>1. PICK i \in 1 .. n : a[i].good = g
    BY <1>2, <1>16 DEF Unloading, n
  <2>2. a[i] \in GoodsOrders
    BY <1>6, <2>1 DEF n
  <2> QED
    BY <1>13, <2>1, <2>2
<1>17. ASSUME crew > 0 PROVE \E i \in 1 .. L - 1 : list[i] = d
  <2>1. 1 \in 1 .. k
    BY <1>7, <1>17 DEF k
  <2> QED
    BY <1>14, <2>1
<1>18. L > 0 /\ list[L] = r
  BY <1>11, <1>12 DEF L
<1> QED
  BY <1>11, <1>15, <1>16, <1>17, <1>18 DEF StripList, L, O, list, d, r, crew

\* A ship whose strip begins: in port, with an office, and no convoy's lead.
Strippable(s) == fleet[s].status = Docked /\ has_office /\ ~is_lead(s)

\* What a ship's strip leaves of a world once the first n operations are done.
StripUpto(done, list, s, n) ==
    /\ NothingLost(World, done[n]) /\ Unloads(World, done[n])
    /\ n < Len(list) => SameShips(World, done[n])
    /\ \A i \in 1 .. n : list[i] \in GoodsOrders => done[n].aboard[s][list[i].good] = 0
    /\ \A i \in 1 .. n : list[i].kind = "dismiss" => done[n].ship[s].crew = 0

\* Nothing gets lost on the way from one world to another and on.
LEMMA LossesAdd ==
    ASSUME NEW u \in Worlds, NEW v \in Worlds, NEW w \in Worlds
    PROVE  /\ NothingLost(u, v) /\ NothingLost(v, w) => NothingLost(u, w)
           /\ Unloads(u, v) /\ Unloads(v, w) => Unloads(u, w)
<1>1. ASSUME Unloads(u, v), Unloads(v, w) PROVE Unloads(u, w)
  <2>1. ASSUME NEW s \in Fleet PROVE w.ship[s].crew <= u.ship[s].crew
    <3> DEFINE a == u.ship[s].crew
               b == v.ship[s].crew
               c == w.ship[s].crew
    <3>1. a \in Nat /\ b \in Nat /\ c \in Nat
      BY DEF Worlds
    <3>2. b <= a /\ c <= b
      BY <1>1 DEF Unloads
    <3> HIDE DEF a, b, c
    <3>3. c <= a
      BY <3>1, <3>2
    <3> QED
      BY <3>3 DEF a, c
  <2>2. ASSUME NEW s \in Fleet, NEW g \in Goods PROVE w.aboard[s][g] <= u.aboard[s][g]
    <3> DEFINE a == u.aboard[s][g]
               b == v.aboard[s][g]
               c == w.aboard[s][g]
    <3>1. a \in Nat /\ b \in Nat /\ c \in Nat
      BY DEF Worlds
    <3>2. b <= a /\ c <= b
      BY <1>1 DEF Unloads
    <3> HIDE DEF a, b, c
    <3>3. c <= a
      BY <3>1, <3>2
    <3> QED
      BY <3>3 DEF a, c
  <2> QED
    BY <2>1, <2>2 DEF Unloads
<1> QED
  BY <1>1 DEF NothingLost

\* One operation of a strip does its part and undoes none that was done.
LEMMA StripStep ==
    ASSUME World \in Worlds, NEW s \in Fleet, Strippable(s), NEW list, StripList(list, s),
           NEW done, Runs(done, World, list), NEW n \in 0 .. Len(list) - 1, StripUpto(done, list, s, n)
    PROVE  StripUpto(done, list, s, n + 1)
<1> DEFINE m == n + 1
           u == done[n]
           v == done[m]
           op == list[m]
           L == Len(list)
<1>1. L \in Nat /\ L > 0
  BY DEF StripList
<1>2. m \in 1 .. L /\ m \in 0 .. L /\ n \in 0 .. L /\ m - 1 = n /\ n < L /\ 1 .. m = (1 .. n) \cup {m}
  BY <1>1
<1>3. u \in Worlds /\ v \in Worlds /\ v = execute_operation(u, op)
  BY <1>2 DEF Runs
<1>4. m < L => m \in 1 .. L - 1
  BY <1>1, <1>2
<1>5. m < L \/ m = L
  BY <1>1, <1>2
<1> HIDE DEF m, u, v, op, L
<1>6. /\ NothingLost(World, u) /\ Unloads(World, u)
      /\ SameShips(World, u)
      /\ \A i \in 1 .. n : list[i] \in GoodsOrders => u.aboard[s][list[i].good] = 0
      /\ \A i \in 1 .. n : list[i].kind = "dismiss" => u.ship[s].crew = 0
  BY <1>2 DEF StripUpto, u, L
<1>12. u.ship[s].status = Docked
  BY <1>6 DEF SameShips, Strippable, World
<1>7. /\ NothingLost(u, v) /\ Unloads(u, v) /\ (m < L => SameShips(u, v))
      /\ op \in GoodsOrders => v.aboard[s][op.good] = 0
      /\ op.kind = "dismiss" => v.ship[s].crew = 0
  <2>1. CASE op \in GoodsOrders /\ op.ship = s /\ op.amount = aboard[s][op.good]
    <3>1. NothingLost(u, v) /\ Unloads(u, v) /\ SameShips(u, v)
      BY <1>3, <2>1, GoodsOperation
    <3>2. op.good \in Goods /\ op.kind # "dismiss"
      BY <2>1 DEF GoodsOrders
    <3>3. op.amount >= u.aboard[s][op.good]
      <4>1. u.aboard[s][op.good] <= aboard[s][op.good] /\ u.aboard[s][op.good] \in Nat /\ aboard[s][op.good] \in Nat
        BY <1>3, <1>6, <3>2 DEF Unloads, World, Worlds
      <4> QED
        BY <2>1, <4>1
    <3>4. v.aboard[s][op.good] = 0
      BY <1>3, <1>12, <2>1, <3>3, GoodsOperation DEF Strippable
    <3> QED
      BY <3>1, <3>2, <3>4
  <2>2. CASE op = Order("dismiss", s, NoGood, fleet[s].crew)
    <3>1. fleet[s].crew \in Nat /\ u.ship[s].crew \in Nat /\ u.ship[s].crew <= fleet[s].crew
      BY <1>3, <1>6 DEF Unloads, World, Worlds
    <3>2. op \in CrewOrders /\ op.kind = "dismiss" /\ op.ship = s /\ op.amount = fleet[s].crew /\ op \notin GoodsOrders
      BY <2>2, <3>1 DEF Order, CrewOrders, GoodsOrders
    <3>3. op.amount >= u.ship[s].crew
      BY <3>1, <3>2
    <3>4. NothingLost(u, v) /\ Unloads(u, v) /\ SameShips(u, v) /\ v.ship[s].crew = 0
      BY <1>3, <1>12, <3>2, <3>3, CrewOperation
    <3> QED
      BY <3>2, <3>4
  <2>3. CASE m = L
    <3>1. op = Order("repair", s, NoGood, 1)
      BY <2>3 DEF StripList, op, L
    <3>2. op \in CrewOrders /\ op.kind = "repair" /\ op \notin GoodsOrders
      BY <3>1 DEF Order, CrewOrders, GoodsOrders
    <3>3. NothingLost(u, v) /\ Unloads(u, v)
      BY <1>3, <3>2, CrewOperation
    <3> QED
      BY <1>1, <2>3, <3>2, <3>3
  <2> QED
    BY <1>4, <1>5, <2>1, <2>2, <2>3 DEF StripList, op, L
<1>8. NothingLost(World, v) /\ Unloads(World, v)
  BY <1>3, <1>6, <1>7, LossesAdd
<1>9. m < L => SameShips(World, v)
  BY <1>6, <1>7 DEF SameShips
<1>10. ASSUME NEW i \in 1 .. m, list[i] \in GoodsOrders PROVE v.aboard[s][list[i].good] = 0
  <2>1. CASE i = m
    BY <1>7, <1>10, <2>1 DEF op
  <2>2. CASE i \in 1 .. n
    <3> DEFINE g == list[i].good
    <3>1. g \in Goods
      BY <1>10 DEF GoodsOrders
    <3>2. u.aboard[s][g] = 0
      BY <1>6, <1>10, <2>2
    <3> HIDE DEF g
    <3>3. v.aboard[s][g] <= 0 /\ v.aboard[s][g] \in Nat
      BY <1>3, <1>7, <3>1, <3>2 DEF Unloads, Worlds
    <3>4. v.aboard[s][g] = 0
      BY <3>3
    <3> QED
      BY <3>4 DEF g
  <2> QED
    BY <1>2, <2>1, <2>2
<1>11. ASSUME NEW i \in 1 .. m, list[i].kind = "dismiss" PROVE v.ship[s].crew = 0
  <2>1. CASE i = m
    BY <1>7, <1>11, <2>1 DEF op
  <2>2. CASE i \in 1 .. n
    <3>1. u.ship[s].crew = 0
      BY <1>6, <1>11, <2>2
    <3>2. v.ship[s].crew <= 0 /\ v.ship[s].crew \in Nat
      BY <1>3, <1>7, <3>1 DEF Unloads, Worlds
    <3> QED
      BY <3>2
  <2> QED
    BY <1>2, <2>1, <2>2
<1> QED
  BY <1>8, <1>9, <1>10, <1>11 DEF StripUpto, m, v, L

\* A strip leaves the ship bare and in the yard, and nothing is lost.
LEMMA StripLeavesBare ==
    ASSUME World \in Worlds, NEW s \in Fleet, Strippable(s), NEW w, w = executed(World, strip_operations(s))
    PROVE  /\ w \in Worlds /\ NothingLost(World, w)
           /\ \A g \in Goods : w.aboard[s][g] = 0
           /\ w.ship[s].crew = 0
           /\ purse /\ (\E m \in members(s) : fleet[m].damaged) => w.ship[s].status = Repairing
           /\ Unloads(World, w) /\ InOrNot(World, w, s)
<1> DEFINE list == strip_operations(s)
           L == Len(list)
<1>1. StripList(list, s)
  BY StripOperationsAre
<1>2. list \in Seq(GoodsOrders \cup CrewOrders) /\ L > 0 /\ L \in Nat
  BY <1>1 DEF StripList
<1> HIDE DEF list
<1>3. PICK done : Runs(done, World, list) /\ executed(World, list) = done[L]
  BY <1>2, ExecutedIs
<1>4. w = done[L]
  BY <1>3 DEF list
<1> HIDE DEF L
<1> DEFINE T == {n \in 0 .. L : StripUpto(done, list, s, n)}
<1>5. 0 \in T
  <2>1. done[0] = World
    BY <1>3 DEF Runs
  <2>2. NothingLost(World, World) /\ Unloads(World, World) /\ SameShips(World, World)
    BY Refusal
  <2>4. 1 .. 0 = {} /\ 0 \in 0 .. L
    BY <1>2
  <2> HIDE DEF T
  <2>5. StripUpto(done, list, s, 0)
    BY <2>1, <2>2, <2>4 DEF StripUpto
  <2> QED
    BY <2>4, <2>5 DEF T
<1>6. ASSUME NEW n \in 0 .. L - 1, n \in T PROVE n + 1 \in T
  <2>1. n + 1 \in 0 .. L
    BY <1>2
  <2>2. StripUpto(done, list, s, n + 1)
    BY <1>1, <1>3, <1>6, StripStep DEF L
  <2> QED
    BY <2>1, <2>2
<1> HIDE DEF T
<1>7. \A n \in 0 .. L : n \in T
  BY <1>2, <1>5, <1>6, IntervalInduction
<1>8. L \in 0 .. L /\ L - 1 \in 0 .. L /\ L - 1 < L /\ L \in 1 .. L /\ \A i \in 1 .. L - 1 : i \in 1 .. L
  BY <1>2
<1>9. StripUpto(done, list, s, L) /\ StripUpto(done, list, s, L - 1)
  BY <1>7, <1>8 DEF T
<1>10. w \in Worlds /\ done[L - 1] \in Worlds
  BY <1>3, <1>4, <1>8 DEF Runs, L
<1>11. ASSUME NEW g \in Goods PROVE w.aboard[s][g] = 0
  <2>1. aboard[s][g] \in Nat /\ w.aboard[s][g] \in Nat /\ w.aboard[s][g] <= aboard[s][g]
    BY <1>4, <1>9, <1>10 DEF StripUpto, Unloads, World, Worlds
  <2>2. CASE aboard[s][g] > 0
    <3>1. PICK i \in 1 .. L - 1 : list[i] \in GoodsOrders /\ list[i].good = g
      BY <1>1, <2>2 DEF StripList, L
    <3> QED
      BY <1>4, <1>8, <1>9, <3>1 DEF StripUpto
  <2>3. CASE ~(aboard[s][g] > 0)
    BY <2>1, <2>3
  <2> QED
    BY <2>2, <2>3
<1>12. w.ship[s].crew = 0
  <2>1. fleet[s].crew \in Nat /\ w.ship[s].crew \in Nat /\ w.ship[s].crew <= fleet[s].crew
    BY <1>4, <1>9, <1>10 DEF StripUpto, Unloads, World, Worlds
  <2>2. CASE fleet[s].crew > 0
    <3>1. PICK i \in 1 .. L - 1 : list[i] = Order("dismiss", s, NoGood, fleet[s].crew)
      BY <1>1, <2>2 DEF StripList, L
    <3>2. list[i].kind = "dismiss"
      BY <3>1 DEF Order
    <3> QED
      BY <1>4, <1>8, <1>9, <3>1, <3>2 DEF StripUpto
  <2>3. CASE ~(fleet[s].crew > 0)
    BY <2>1, <2>3
  <2> QED
    BY <2>2, <2>3
<1>13. /\ InOrNot(World, w, s)
       /\ purse /\ (\E m \in members(s) : fleet[m].damaged) => w.ship[s].status = Repairing
  <2> DEFINE op == Order("repair", s, NoGood, 1)
             u == done[L - 1]
  <2>1. op \in CrewOrders /\ op.kind = "repair" /\ op.ship = s
    BY DEF Order, CrewOrders
  <2>2. list[L] = op
    BY <1>1 DEF StripList, L
  <2> HIDE DEF op
  <2>3. w = execute_operation(u, op)
    BY <1>3, <1>4, <1>8, <2>2 DEF Runs, L
  <2>4. u \in Worlds /\ SameShips(World, u)
    BY <1>8, <1>9, <1>10 DEF StripUpto, L
  <2> HIDE DEF u
  <2>5. u.ship[s].status = Docked /\ \A m \in Fleet : u.ship[m].damaged = fleet[m].damaged /\ u.ship[m].status = fleet[m].status
    BY <2>4 DEF SameShips, World, Strippable
  <2>6. InOrNot(u, w, s)
    BY <2>1, <2>3, <2>4, CrewOperation
  <2>7. InOrNot(World, w, s)
    BY <2>5, <2>6 DEF InOrNot, TakenIn, World
  <2>8. ASSUME purse, \E m \in members(s) : fleet[m].damaged PROVE w.ship[s].status = Repairing
    <3>1. \E m \in members(s) : u.ship[m].damaged
      BY <2>5, <2>8 DEF members
    <3> QED
      BY <2>1, <2>3, <2>4, <2>5, <2>8, <3>1, CrewOperation
  <2> QED
    BY <2>7, <2>8
<1> QED
  BY <1>4, <1>9, <1>10, <1>11, <1>12, <1>13 DEF StripUpto

\* The types of everything the keys touch.
LEMMA ShipsBegin == ShipKeysInit => ShipTypes
<1> SUFFICES ASSUME ShipKeysInit PROVE ShipTypes
  OBVIOUS
<1>1. /\ fleet \in [Fleet -> [status : Statuses, crew : Nat, damaged : BOOLEAN]]
      /\ aboard \in [Fleet -> [Goods -> Nat]] /\ store \in [Goods -> Nat]
  BY DEF ShipKeysInit, Statuses, Docked
<1>2. inTavern \in Nat
  BY ShipKeysAssumption DEF ShipKeysInit
<1>3. pending = <<>> /\ <<>> \in Seq(CrewOrders)
  BY DEF ShipKeysInit
<1>4. purse \in BOOLEAN
  BY DEF ShipKeysInit
<1> QED
  BY <1>1, <1>2, <1>3, <1>4 DEF ShipTypes, World, Worlds

\* A world that becomes another one.
LEMMA WorldBecomesIs ==
    ASSUME NEW w \in Worlds, WorldBecomes(w)
    PROVE  World' = w
<1>1. World' = [ship |-> w.ship, aboard |-> w.aboard, store |-> w.store, tavern |-> w.tavern]
  BY DEF WorldBecomes, World
<1>2. w = [ship |-> w.ship, aboard |-> w.aboard, store |-> w.store, tavern |-> w.tavern]
  BY DEF Worlds
<1> QED
  BY <1>1, <1>2

\* What a step has to do for the types and the books.
Booked == ShipTypes' /\ NothingLost(World, World')

LEMMA StripIsBooked ==
    ASSUME ShipTypes, NEW s \in Fleet, strip_ship_hotkey(s)
    PROVE  /\ Booked
           /\ \A g \in Goods : aboard'[s][g] = 0
           /\ fleet'[s].crew = 0
           /\ purse /\ (\E m \in members(s) : fleet[m].damaged) => fleet'[s].status = Repairing
           /\ Unloads(World, World') /\ InOrNot(World, World', s)
           /\ laidUp' = IF fleet'[s].status = Repairing /\ ~HireWaits(s) THEN laidUp \cup {s} ELSE laidUp
<1> DEFINE w == executed(World, strip_operations(s))
<1>1. World \in Worlds /\ pending \in Seq(CrewOrders) /\ purse \in BOOLEAN
  BY DEF ShipTypes
<1>2. /\ Strippable(s) /\ WorldBecomes(w) /\ pending' = pending /\ purse' = purse
      /\ laidUp' = IF w.ship[s].status = Repairing /\ ~HireWaits(s) THEN laidUp \cup {s} ELSE laidUp
  BY DEF strip_ship_hotkey, Strippable
<1> HIDE DEF w
<1>3. /\ w \in Worlds /\ NothingLost(World, w)
      /\ \A g \in Goods : w.aboard[s][g] = 0
      /\ w.ship[s].crew = 0
      /\ purse /\ (\E m \in members(s) : fleet[m].damaged) => w.ship[s].status = Repairing
      /\ Unloads(World, w) /\ InOrNot(World, w, s)
  BY <1>1, <1>2, StripLeavesBare DEF w
<1>4. World' = w
  BY <1>2, <1>3, WorldBecomesIs
<1>5. fleet' = w.ship /\ aboard' = w.aboard
  BY <1>2 DEF WorldBecomes
<1> QED
  BY <1>1, <1>2, <1>3, <1>4, <1>5 DEF Booked, ShipTypes

\* An order that waits changes nothing yet.
LEMMA EnqueueIsBooked ==
    ASSUME ShipTypes, NEW op \in CrewOrders, enqueue(op)
    PROVE  Booked
<1>1. World' = World /\ World \in Worlds
  BY DEF enqueue, World, ShipTypes
<1>2. pending' \in Seq(CrewOrders) /\ purse' \in BOOLEAN
  BY DEF enqueue, ShipTypes
<1> QED
  BY <1>1, <1>2, Refusal DEF Booked, ShipTypes

\* Ships that only change their state.
LEMMA StatesAreBooked ==
    ASSUME ShipTypes, UNCHANGED <<aboard, store, inTavern, pending, purse>>,
           fleet' \in [Fleet -> [status : Statuses, crew : Nat, damaged : BOOLEAN]],
           \A m \in Fleet : fleet'[m].crew = fleet[m].crew
    PROVE  Booked
<1>1. World \in Worlds /\ pending \in Seq(CrewOrders) /\ purse \in BOOLEAN
  BY DEF ShipTypes
<1> DEFINE v == World'
<1>2. v \in Worlds
  BY <1>1 DEF Worlds, World
<1>3. v.store = World.store /\ v.aboard = World.aboard /\ v.tavern = World.tavern
      /\ v.ship = fleet' /\ World.ship = fleet
  BY DEF World
<1> HIDE DEF v
<1>4. [m \in Fleet |-> v.ship[m].crew] = [m \in Fleet |-> World.ship[m].crew]
  BY <1>3
<1>5. NothingLost(World, v)
  BY <1>3, <1>4 DEF NothingLost, AllOf, AllHands
<1> QED
  BY <1>1, <1>2, <1>5 DEF Booked, ShipTypes, v

\* A ship is fitted out from the office.
LEMMA FitOutIsBooked ==
    ASSUME ShipTypes, NEW s \in Fleet, FitOut(s)
    PROVE  Booked
<1>1. World \in Worlds /\ pending \in Seq(CrewOrders) /\ purse \in BOOLEAN
  BY DEF ShipTypes
<1>2. PICK good \in Goods : /\ store[good] > 0
                            /\ store' = [store EXCEPT ![good] = @ - 1]
                            /\ aboard' = [aboard EXCEPT ![s][good] = @ + 1]
  BY DEF FitOut
<1>3. fleet' = fleet /\ inTavern' = inTavern /\ pending' = pending /\ purse' = purse
  BY DEF FitOut
<1> DEFINE v == World'
           load == [m \in Fleet |-> aboard[m][good]]
           rest == [m \in Fleet |-> aboard'[m][good]]
           had == aboard[s][good]
           stored == store[good]
<1>4. store \in [Goods -> Nat] /\ aboard \in [Fleet -> [Goods -> Nat]]
  BY <1>1 DEF World, Worlds
<1>5. store' \in [Goods -> Nat] /\ aboard' \in [Fleet -> [Goods -> Nat]]
  BY <1>2, <1>4
<1>6. v \in Worlds
  BY <1>1, <1>3, <1>5 DEF World, Worlds
<1>7. /\ v.store = store' /\ v.aboard = aboard' /\ v.ship = fleet /\ v.tavern = inTavern
      /\ World.store = store /\ World.aboard = aboard /\ World.ship = fleet /\ World.tavern = inTavern
  BY <1>3 DEF World
<1> HIDE DEF v
<1>8. AllOf(v, good) = AllOf(World, good)
  <2>1. had \in Nat /\ stored \in Nat /\ stored > 0 /\ store'[good] = stored - 1 /\ aboard'[s][good] = had + 1
    BY <1>2, <1>4
  <2>2. load \in [Fleet -> Nat] /\ rest \in [Fleet -> Nat] /\ load[s] = had /\ rest[s] = had + 1
        /\ \A m \in Fleet : m # s => rest[m] = load[m]
    BY <1>2, <1>4, <1>5, <2>1
  <2>3. AllOf(v, good) = (stored - 1) + SumOf(rest, Fleet) /\ AllOf(World, good) = stored + SumOf(load, Fleet)
    BY <1>7, <2>1 DEF AllOf
  <2> HIDE DEF load, rest, had, stored
  <2>4. /\ SumOf(load, Fleet) \in Nat /\ SumOf(rest, Fleet) \in Nat
        /\ SumOf(rest, Fleet) + had = SumOf(load, Fleet) + (had + 1)
    BY <2>2, SumOfOneChange, ShipKeysAssumption
  <2> QED
    BY <2>1, <2>3, <2>4
<1>9. ASSUME NEW g \in Goods, g # good PROVE AllOf(v, g) = AllOf(World, g)
  <2>1. [m \in Fleet |-> v.aboard[m][g]] = [m \in Fleet |-> World.aboard[m][g]]
    BY <1>2, <1>4, <1>7, <1>9
  <2>2. v.store[g] = World.store[g]
    BY <1>2, <1>4, <1>7, <1>9
  <2> QED
    BY <2>1, <2>2 DEF AllOf
<1>10. NothingLost(World, v)
  BY <1>7, <1>8, <1>9 DEF NothingLost, AllHands
<1> QED
  BY <1>1, <1>3, <1>6, <1>10 DEF Booked, ShipTypes, v

\* What waits is executed when its turn comes.
LEMMA DrainIsBooked ==
    ASSUME ShipTypes, Drain
    PROVE  Booked
<1>1. World \in Worlds /\ pending \in Seq(CrewOrders) /\ pending # <<>> /\ purse \in BOOLEAN
  BY DEF ShipTypes, Drain
<1>2. Head(pending) \in CrewOrders /\ Tail(pending) \in Seq(CrewOrders)
  BY <1>1
<1> DEFINE w == execute_operation(World, Head(pending))
<1>3. WorldBecomes(w) /\ pending' = Tail(pending) /\ purse' = purse
  BY DEF Drain
<1> HIDE DEF w
<1>4. w \in Worlds /\ NothingLost(World, w)
  BY <1>1, <1>2, CrewOperation DEF w
<1>5. World' = w
  BY <1>3, <1>4, WorldBecomesIs
<1> QED
  BY <1>1, <1>2, <1>3, <1>4, <1>5 DEF Booked, ShipTypes

\* Every key and every step of the game keeps the types and the books.
LEMMA ShipsStep == ShipTypes /\ [ShipKeysNext]_shipKeysVars => Booked
<1> SUFFICES ASSUME ShipTypes, [ShipKeysNext]_shipKeysVars PROVE Booked
  OBVIOUS
<1>1. World \in Worlds /\ pending \in Seq(CrewOrders) /\ purse \in BOOLEAN
  BY DEF ShipTypes
<1>2. fleet \in [Fleet -> [status : Statuses, crew : Nat, damaged : BOOLEAN]] /\ inTavern \in Nat
  BY <1>1 DEF World, Worlds
<1>3. ASSUME NEW s \in Fleet, strip_ship_hotkey(s) PROVE Booked
  BY <1>3, StripIsBooked
<1>4. ASSUME NEW s \in Fleet, repair_ship_hotkey(s) PROVE Booked
  <2> DEFINE op == Order("repair", lead_of[s], NoGood, 1)
  <2>1. op \in CrewOrders
    BY ShipKeysAssumption DEF Order, CrewOrders
  <2>2. enqueue(op)
    BY <1>4 DEF repair_ship_hotkey
  <2> HIDE DEF op
  <2> QED
    BY <2>1, <2>2, EnqueueIsBooked
<1>5. ASSUME NEW s \in Fleet, dismiss_sailors_hotkey(s) PROVE Booked
  <2> DEFINE op == Order("dismiss", s, NoGood, fleet[s].crew)
  <2>1. op \in CrewOrders
    BY <1>2 DEF Order, CrewOrders
  <2>2. enqueue(op)
    BY <1>5 DEF dismiss_sailors_hotkey
  <2> HIDE DEF op
  <2> QED
    BY <2>1, <2>2, EnqueueIsBooked
<1>6. ASSUME NEW s \in Fleet, NEW to_minimum \in BOOLEAN, hire_sailors_hotkey(s, to_minimum) PROVE Booked
  <2> DEFINE wanted == IF to_minimum THEN MIN_CREW - fleet[s].crew ELSE get_free_sailor_berths(World, s)
             crew == fleet[s].crew
             some == least(wanted, inTavern)
             op == Order("hire", s, NoGood, some)
  <2>1. wanted > 0 /\ inTavern > 0 /\ enqueue(op)
    BY <1>6 DEF hire_sailors_hotkey
  <2>2. wanted \in Int
    <3>1. crew \in Nat /\ World.ship[s].crew = crew
      BY <1>2 DEF World
    <3>2. FULL_CREW - crew \in Int /\ MIN_CREW - crew \in Int
      <4> HIDE DEF crew
      <4> QED
        BY <3>1, ShipKeysAssumption
    <3> QED
      BY <3>1, <3>2 DEF get_free_sailor_berths
  <2> HIDE DEF wanted
  <2>3. some \in Nat
    BY <1>2, <2>1, <2>2, SMT DEF least
  <2> HIDE DEF some
  <2>4. op \in CrewOrders
    BY <2>3 DEF Order, CrewOrders
  <2> HIDE DEF op
  <2> QED
    BY <2>1, <2>4, EnqueueIsBooked
<1>7. ASSUME UNCHANGED <<fleet, aboard, store, inTavern, pending>>, purse' \in BOOLEAN PROVE Booked
  <2>1. World' = World /\ pending' = pending
    BY <1>7 DEF World
  <2>2. NothingLost(World, World')
    BY <1>1, <2>1, Refusal
  <2> QED
    BY <1>1, <1>7, <2>1, <2>2 DEF Booked, ShipTypes
<1>8. ASSUME NEW s \in Fleet, skip_route_stop_hotkey(s) \/ SwitchRoute(s) PROVE Booked
  BY <1>1, <1>7, <1>8 DEF skip_route_stop_hotkey, SwitchRoute
<1>9. ASSUME NEW s \in Fleet, NEW from, NEW to \in Statuses, Moves(s, from, to) PROVE Booked
  <2>1. UNCHANGED <<aboard, store, inTavern, pending, purse>>
    BY <1>9 DEF Moves
  <2>2. fleet' = [m \in Fleet |-> IF m \in members(s) THEN [fleet[m] EXCEPT !.status = to] ELSE fleet[m]]
    BY <1>9 DEF Moves
  <2>3. /\ fleet' \in [Fleet -> [status : Statuses, crew : Nat, damaged : BOOLEAN]]
        /\ \A m \in Fleet : fleet'[m].crew = fleet[m].crew
    BY <1>2, <2>2
  <2> QED
    BY <2>1, <2>3, StatesAreBooked
<1>10. ASSUME NEW s \in Fleet, Sail(s) PROVE Booked
  <2>1. Moves(s, Docked, Leaving) \/ Moves(s, Leaving, AtSea) \/ Moves(s, AtSea, Entering) \/ Moves(s, Entering, Docked)
    BY <1>10 DEF Sail
  <2>2. {Leaving, AtSea, Entering, Docked} \subseteq Statuses
    BY DEF Statuses
  <2> QED
    BY <1>9, <2>1, <2>2
<1>11. ASSUME NEW s \in Fleet, Repaired(s) PROVE Booked
  <2>1. UNCHANGED <<aboard, store, inTavern, pending, purse>>
    BY <1>11 DEF Repaired
  <2>2. fleet' = [m \in Fleet |-> IF m \in members(s)
                                  THEN [status |-> Docked, crew |-> fleet[m].crew, damaged |-> FALSE] ELSE fleet[m]]
    BY <1>11 DEF Repaired
  <2>3. /\ fleet' \in [Fleet -> [status : Statuses, crew : Nat, damaged : BOOLEAN]]
        /\ \A m \in Fleet : fleet'[m].crew = fleet[m].crew
    BY <1>2, <2>2 DEF Statuses
  <2> QED
    BY <2>1, <2>3, StatesAreBooked
<1>12. ASSUME NEW s \in Fleet, Storm(s) PROVE Booked
  <2>1. UNCHANGED <<aboard, store, inTavern, pending, purse>> /\ fleet' = [fleet EXCEPT ![s].damaged = TRUE]
    BY <1>12 DEF Storm
  <2>2. /\ fleet' \in [Fleet -> [status : Statuses, crew : Nat, damaged : BOOLEAN]]
        /\ \A m \in Fleet : fleet'[m].crew = fleet[m].crew
    BY <1>2, <2>1
  <2> QED
    BY <2>1, <2>2, StatesAreBooked
<1>13. ASSUME NEW s \in Fleet, FitOut(s) PROVE Booked
  BY <1>13, FitOutIsBooked
<1>14. ASSUME Drain PROVE Booked
  BY <1>14, DrainIsBooked
<1>15. ASSUME UNCHANGED shipKeysVars PROVE Booked
  BY <1>1, <1>7, <1>15 DEF shipKeysVars
<1>16. ASSUME Money PROVE Booked
  <2>1. UNCHANGED <<fleet, aboard, store, inTavern, pending>> /\ purse' \in BOOLEAN
    BY <1>1, <1>16 DEF Money
  <2> QED
    BY <1>7, <2>1
<1> QED
  BY <1>3, <1>4, <1>5, <1>6, <1>8, <1>10, <1>11, <1>12, <1>13, <1>14, <1>15, <1>16 DEF ShipKeysNext

\* What is in no danger of a crew stays bare in the yard.
LEMMA LaidUpKeeps ==
    ASSUME ShipTypes, LaidUpInv, Together(World'), laidUp' \subseteq laidUp,
           \A s \in laidUp' : /\ fleet'[s].status = fleet[s].status
                              /\ World'.ship[s].crew = World.ship[s].crew
                              /\ \A g \in Goods : World'.aboard[s][g] = World.aboard[s][g]
                              /\ HireWaits(s)' => HireWaits(s)
    PROVE  LaidUpInv'
<1>1. ASSUME NEW s \in laidUp' PROVE fleet'[s].status = Repairing /\ Bared(World', s) /\ ~HireWaits(s)'
  BY <1>1 DEF LaidUpInv, Bared
<1> QED
  BY <1>1 DEF LaidUpInv, Bared, Together

\* What the yard has of a convoy it has all of.
LEMMA TogetherStays ==
    ASSUME NEW w \in Worlds, NEW v, Together(w), NEW s \in Fleet, InOrNot(w, v, s)
    PROVE  Together(v)
<1>1. ASSUME NEW a \in Fleet, NEW b \in Fleet, lead_of[a] = lead_of[b] PROVE v.ship[a].status = v.ship[b].status
  <2>1. w.ship[a].status = w.ship[b].status
    BY <1>1 DEF Together
  <2>2. a \in members(s) <=> b \in members(s)
    BY <1>1 DEF members
  <2> QED
    BY <2>1, <2>2 DEF InOrNot, TakenIn
<1> QED
  BY <1>1 DEF Together

\* A strip lays its ship up, unless a hire waits for it, and takes nothing aboard another.
LEMMA StripLaysUp ==
    ASSUME ShipTypes, LaidUpInv, NEW s \in Fleet, strip_ship_hotkey(s)
    PROVE  LaidUpInv'
<1>1. World \in Worlds /\ World' \in Worlds /\ pending' = pending
  BY StripIsBooked DEF ShipTypes, Booked, strip_ship_hotkey
<1>2. /\ \A g \in Goods : aboard'[s][g] = 0
      /\ fleet'[s].crew = 0
      /\ Unloads(World, World') /\ InOrNot(World, World', s)
      /\ laidUp' = IF fleet'[s].status = Repairing /\ ~HireWaits(s) THEN laidUp \cup {s} ELSE laidUp
  BY StripIsBooked
<1>3. Together(World')
  BY <1>1, <1>2, TogetherStays DEF LaidUpInv
<1>4. World.ship = fleet /\ World.aboard = aboard /\ World'.ship = fleet' /\ World'.aboard = aboard'
  BY DEF World
<1>5. ASSUME NEW m \in laidUp PROVE fleet'[m].status = Repairing /\ Bared(World', m) /\ ~HireWaits(m)'
  <2>1. m \in Fleet /\ fleet[m].status = Repairing /\ Bared(World, m) /\ ~HireWaits(m)
    BY DEF LaidUpInv
  <2>2. fleet'[m].status = Repairing
    BY <1>2, <1>4, <2>1 DEF InOrNot, TakenIn
  <2>3. World'.ship[m].crew = 0
    <3>1. World'.ship[m].crew <= 0 /\ World'.ship[m].crew \in Nat
      BY <1>1, <1>2, <2>1 DEF Unloads, Bared, Worlds
    <3> QED
      BY <3>1
  <2>4. ASSUME NEW g \in Goods PROVE World'.aboard[m][g] = 0
    <3>1. World'.aboard[m][g] <= 0 /\ World'.aboard[m][g] \in Nat
      BY <1>1, <1>2, <2>1 DEF Unloads, Bared, Worlds
    <3> QED
      BY <3>1
  <2> QED
    BY <1>1, <2>1, <2>2, <2>3, <2>4 DEF Bared, HireWaits
<1>6. ASSUME fleet'[s].status = Repairing /\ ~HireWaits(s) PROVE fleet'[s].status = Repairing /\ Bared(World', s) /\ ~HireWaits(s)'
  BY <1>1, <1>2, <1>4, <1>6 DEF Bared, HireWaits
<1>7. laidUp' \subseteq Fleet
  BY <1>2 DEF LaidUpInv
<1> QED
  BY <1>2, <1>3, <1>5, <1>6, <1>7 DEF LaidUpInv, Bared

\* An order for a ship that is not laid up, or no hire, leaves the laid-up ships alone.
LEMMA EnqueueLaysNobodyUp ==
    ASSUME ShipTypes, LaidUpInv, NEW op \in CrewOrders, enqueue(op), op.kind # "hire" \/ op.ship \notin laidUp
    PROVE  LaidUpInv'
<1>1. World' = World /\ laidUp' = laidUp /\ fleet' = fleet /\ pending' = Append(pending, op)
  BY DEF enqueue, World
<1>2. ASSUME NEW s \in laidUp, HireWaits(s)' PROVE HireWaits(s)
  <2>1. pending \in Seq(CrewOrders)
    BY DEF ShipTypes
  <2>2. PICK i \in DOMAIN pending' : pending'[i].kind = "hire" /\ pending'[i].ship = s
    BY <1>2 DEF HireWaits
  <2>3. pending'[i] # op
    BY <2>2
  <2>4. i \in DOMAIN pending /\ pending'[i] = pending[i]
    BY <1>1, <2>1, <2>2, <2>3
  <2> QED
    BY <2>2, <2>4 DEF HireWaits
<1>3. Together(World')
  BY <1>1 DEF LaidUpInv
<1> QED
  BY <1>1, <1>2, <1>3, LaidUpKeeps

\* What is executed from the queue is no hire for a ship laid up.
LEMMA DrainLeavesLaidUp ==
    ASSUME ShipTypes, LaidUpInv, Drain
    PROVE  LaidUpInv'
<1>1. World \in Worlds /\ pending \in Seq(CrewOrders) /\ pending # <<>>
  BY DEF ShipTypes, Drain
<1> DEFINE op == Head(pending)
           w == execute_operation(World, op)
<1>2. op \in CrewOrders /\ 1 \in DOMAIN pending /\ op = pending[1]
  BY <1>1
<1>3. WorldBecomes(w) /\ pending' = Tail(pending) /\ laidUp' = laidUp
  BY DEF Drain
<1> HIDE DEF op, w
<1>4. /\ w \in Worlds /\ w.aboard = World.aboard
      /\ op.kind # "repair" => SameShips(World, w)
      /\ op.kind # "hire" => Unloads(World, w)
      /\ op.kind = "hire" => \A m \in Fleet : m # op.ship => w.ship[m] = World.ship[m]
      /\ op.kind = "repair" => InOrNot(World, w, op.ship)
  BY <1>1, <1>2, CrewOperation DEF w
<1>5. World' = w /\ fleet' = w.ship /\ World.ship = fleet
  BY <1>3, <1>4, WorldBecomesIs DEF WorldBecomes, World
<1>6. op.ship \in Fleet
  BY <1>2 DEF CrewOrders
<1>7. InOrNot(World, w, op.ship)
  BY <1>4 DEF SameShips, InOrNot
<1>8. Together(World')
  BY <1>1, <1>5, <1>6, <1>7, TogetherStays DEF LaidUpInv
<1>9. ASSUME NEW s \in laidUp
      PROVE  fleet'[s].status = fleet[s].status /\ w.ship[s].crew = World.ship[s].crew /\ (HireWaits(s)' => HireWaits(s))
  <2>1. s \in Fleet /\ fleet[s].status = Repairing /\ World.ship[s].crew = 0 /\ ~HireWaits(s)
    BY DEF LaidUpInv, Bared
  <2>2. fleet'[s].status = fleet[s].status
    BY <1>5, <1>7, <2>1 DEF InOrNot, TakenIn
  <2>3. w.ship[s].crew = World.ship[s].crew
    <3>1. CASE op.kind = "hire"
      <4>1. op.ship # s
        BY <1>2, <2>1, <3>1 DEF HireWaits
      <4> QED
        BY <1>4, <2>1, <3>1, <4>1
    <3>2. CASE op.kind # "hire"
      <4>1. w.ship[s].crew <= 0 /\ w.ship[s].crew \in Nat
        BY <1>4, <2>1, <3>2 DEF Unloads, Worlds
      <4> QED
        BY <2>1, <4>1
    <3> QED
      BY <3>1, <3>2
  <2>4. ASSUME HireWaits(s)' PROVE HireWaits(s)
    <3>1. PICK i \in DOMAIN pending' : pending'[i].kind = "hire" /\ pending'[i].ship = s
      BY <2>4 DEF HireWaits
    <3>2. i + 1 \in DOMAIN pending /\ pending[i + 1] = pending'[i]
      BY <1>1, <1>3, <3>1
    <3> QED
      BY <3>1, <3>2 DEF HireWaits
  <2> QED
    BY <2>2, <2>3, <2>4
<1> QED
  BY <1>3, <1>4, <1>5, <1>8, <1>9, LaidUpKeeps

\* A convoy that leaves the yard is laid up no more.
LEMMA StatusesMove ==
    ASSUME ShipTypes, LaidUpInv, NEW s \in Fleet, NEW to \in Statuses,
           UNCHANGED <<aboard, pending>>, laidUp' = {m \in laidUp : m \notin members(s)},
           \A m \in Fleet : /\ fleet'[m].status = IF m \in members(s) THEN to ELSE fleet[m].status
                           /\ fleet'[m].crew = fleet[m].crew
    PROVE  LaidUpInv'
<1>1. World.ship = fleet /\ World'.ship = fleet' /\ World.aboard = aboard /\ World'.aboard = aboard'
  BY DEF World
<1>2. ASSUME NEW a \in Fleet, NEW b \in Fleet, lead_of[a] = lead_of[b] PROVE World'.ship[a].status = World'.ship[b].status
  <2>1. a \in members(s) <=> b \in members(s)
    BY <1>2 DEF members
  <2>2. fleet[a].status = fleet[b].status
    BY <1>1, <1>2 DEF LaidUpInv, Together
  <2> QED
    BY <1>1, <2>1, <2>2
<1>3. Together(World')
  BY <1>2 DEF Together
<1>4. \A m \in laidUp' : m \in laidUp /\ m \in Fleet /\ m \notin members(s)
  BY DEF LaidUpInv
<1>5. \A m \in laidUp' : HireWaits(m)' => HireWaits(m)
  BY DEF HireWaits
<1>6. ASSUME NEW m \in laidUp'
      PROVE  /\ fleet'[m].status = fleet[m].status /\ World'.ship[m].crew = World.ship[m].crew
             /\ \A g \in Goods : World'.aboard[m][g] = World.aboard[m][g]
  BY <1>1, <1>4
<1> QED
  BY <1>3, <1>5, <1>6, LaidUpKeeps

LEMMA LaidUpStep == ShipTypes /\ LaidUpInv /\ [ShipKeysNext]_shipKeysVars => LaidUpInv'
<1> SUFFICES ASSUME ShipTypes, LaidUpInv, [ShipKeysNext]_shipKeysVars PROVE LaidUpInv'
  OBVIOUS
<1>1. World \in Worlds /\ laidUp \subseteq Fleet
  BY DEF ShipTypes, LaidUpInv
<1>2. fleet \in [Fleet -> [status : Statuses, crew : Nat, damaged : BOOLEAN]] /\ inTavern \in Nat /\ World.ship = fleet
  BY <1>1 DEF World, Worlds
<1>3. ASSUME NEW s \in Fleet, repair_ship_hotkey(s) PROVE LaidUpInv'
  <2> DEFINE op == Order("repair", lead_of[s], NoGood, 1)
  <2>1. op \in CrewOrders /\ op.kind # "hire"
    BY ShipKeysAssumption DEF Order, CrewOrders
  <2>2. enqueue(op)
    BY <1>3 DEF repair_ship_hotkey
  <2> HIDE DEF op
  <2> QED
    BY <2>1, <2>2, EnqueueLaysNobodyUp
<1>4. ASSUME NEW s \in Fleet, dismiss_sailors_hotkey(s) PROVE LaidUpInv'
  <2> DEFINE op == Order("dismiss", s, NoGood, fleet[s].crew)
  <2>1. op \in CrewOrders /\ op.kind # "hire"
    BY <1>2 DEF Order, CrewOrders
  <2>2. enqueue(op)
    BY <1>4 DEF dismiss_sailors_hotkey
  <2> HIDE DEF op
  <2> QED
    BY <2>1, <2>2, EnqueueLaysNobodyUp
<1>5. ASSUME NEW s \in Fleet, NEW to_minimum \in BOOLEAN, hire_sailors_hotkey(s, to_minimum) PROVE LaidUpInv'
  <2> DEFINE wanted == IF to_minimum THEN MIN_CREW - fleet[s].crew ELSE get_free_sailor_berths(World, s)
             crew == fleet[s].crew
             some == least(wanted, inTavern)
             op == Order("hire", s, NoGood, some)
  <2>1. wanted > 0 /\ inTavern > 0 /\ enqueue(op)
    BY <1>5 DEF hire_sailors_hotkey
  <2>2. wanted \in Int
    <3>1. crew \in Nat /\ World.ship[s].crew = crew
      BY <1>2
    <3>2. FULL_CREW - crew \in Int /\ MIN_CREW - crew \in Int
      <4> HIDE DEF crew
      <4> QED
        BY <3>1, ShipKeysAssumption
    <3> QED
      BY <3>1, <3>2 DEF get_free_sailor_berths
  <2>5. s \notin laidUp
    BY <1>5 DEF hire_sailors_hotkey, is_crewable_in_port, LaidUpInv, Repairing, Leaving
  <2> HIDE DEF wanted
  <2>3. some \in Nat
    BY <1>2, <2>1, <2>2, SMT DEF least
  <2> HIDE DEF some
  <2>4. op \in CrewOrders /\ op.ship = s
    BY <2>3 DEF Order, CrewOrders
  <2> HIDE DEF op
  <2> QED
    BY <2>1, <2>4, <2>5, EnqueueLaysNobodyUp
<1>6. ASSUME UNCHANGED <<fleet, aboard, store, inTavern, pending, laidUp>> PROVE LaidUpInv'
  <2>1. World' = World
    BY <1>6 DEF World
  <2>2. \A s : HireWaits(s)' <=> HireWaits(s)
    BY <1>6 DEF HireWaits
  <2> QED
    BY <1>6, <2>1, <2>2 DEF LaidUpInv, Bared
<1>7. ASSUME NEW s \in Fleet, skip_route_stop_hotkey(s) \/ SwitchRoute(s) PROVE LaidUpInv'
  BY <1>6, <1>7 DEF skip_route_stop_hotkey, SwitchRoute
<1>8. ASSUME NEW s \in Fleet, NEW from \in {Docked, Leaving, Entering, AtSea}, NEW to \in Statuses, Moves(s, from, to)
      PROVE  LaidUpInv'
  <2>1. /\ UNCHANGED <<aboard, pending>> /\ laidUp' = laidUp /\ fleet[s].status = from
        /\ fleet' = [m \in Fleet |-> IF m \in members(s) THEN [fleet[m] EXCEPT !.status = to] ELSE fleet[m]]
    BY <1>8 DEF Moves
  <2>2. ASSUME NEW m \in laidUp PROVE m \notin members(s)
    <3>1. fleet[m].status = Repairing /\ m \in Fleet
      BY DEF LaidUpInv
    <3>2. from # Repairing
      BY DEF Docked, Leaving, Entering, AtSea, Repairing
    <3> QED
      BY <1>2, <2>1, <3>1, <3>2 DEF LaidUpInv, Together, members
  <2>3. laidUp' = {m \in laidUp : m \notin members(s)}
    BY <2>1, <2>2
  <2>4. \A m \in Fleet : /\ fleet'[m].status = IF m \in members(s) THEN to ELSE fleet[m].status
                         /\ fleet'[m].crew = fleet[m].crew
    BY <1>2, <2>1
  <2> QED
    BY <2>1, <2>3, <2>4, StatusesMove
<1>9. ASSUME NEW s \in Fleet, Sail(s) PROVE LaidUpInv'
  <2>1. Moves(s, Docked, Leaving) \/ Moves(s, Leaving, AtSea) \/ Moves(s, AtSea, Entering) \/ Moves(s, Entering, Docked)
    BY <1>9 DEF Sail
  <2>2. {Leaving, AtSea, Entering, Docked} \subseteq Statuses
    BY DEF Statuses
  <2> QED
    BY <1>8, <2>1, <2>2
<1>10. ASSUME NEW s \in Fleet, Repaired(s) PROVE LaidUpInv'
  <2>1. /\ UNCHANGED <<aboard, pending>> /\ laidUp' = {m \in laidUp : m \notin members(s)}
        /\ fleet' = [m \in Fleet |-> IF m \in members(s)
                                      THEN [status |-> Docked, crew |-> fleet[m].crew, damaged |-> FALSE] ELSE fleet[m]]
    BY <1>10 DEF Repaired
  <2>2. \A m \in Fleet : /\ fleet'[m].status = IF m \in members(s) THEN Docked ELSE fleet[m].status
                         /\ fleet'[m].crew = fleet[m].crew
    BY <1>2, <2>1
  <2>3. Docked \in Statuses
    BY DEF Statuses
  <2> QED
    BY <2>1, <2>2, <2>3, StatusesMove
<1>11. ASSUME NEW s \in Fleet, Storm(s) \/ FitOut(s) PROVE LaidUpInv'
  <2>1. pending' = pending /\ laidUp' = laidUp
    BY <1>11 DEF Storm, FitOut
  <2>2. \A m \in Fleet : fleet'[m].status = fleet[m].status /\ fleet'[m].crew = fleet[m].crew
    BY <1>2, <1>11 DEF Storm, FitOut
  <2>3. World'.ship = fleet' /\ World.aboard = aboard /\ World'.aboard = aboard'
    BY DEF World
  <2>4. Together(World')
    BY <1>2, <2>2, <2>3 DEF LaidUpInv, Together
  <2>5. ASSUME NEW m \in laidUp, NEW g \in Goods PROVE aboard'[m][g] = aboard[m][g]
    <3>1. CASE Storm(s)
      BY <3>1 DEF Storm
    <3>2. CASE FitOut(s)
      <4>1. fleet[s].status = Docked /\ fleet[m].status = Repairing
        BY <3>2 DEF FitOut, LaidUpInv
      <4>2. m # s /\ m \in Fleet
        BY <1>1, <4>1 DEF Docked, Repairing
      <4>3. aboard \in [Fleet -> [Goods -> Nat]]
        BY <1>1, <2>3 DEF Worlds
      <4> QED
        BY <3>2, <4>2, <4>3 DEF FitOut
    <3> QED
      BY <1>11, <3>1, <3>2
  <2>6. \A m \in laidUp : HireWaits(m)' => HireWaits(m)
    BY <2>1 DEF HireWaits
  <2>7. ASSUME NEW m \in laidUp'
        PROVE  /\ fleet'[m].status = fleet[m].status /\ World'.ship[m].crew = World.ship[m].crew
               /\ \A g \in Goods : World'.aboard[m][g] = World.aboard[m][g]
    BY <1>1, <1>2, <2>1, <2>2, <2>3, <2>5
  <2> QED
    BY <2>1, <2>4, <2>6, <2>7, LaidUpKeeps
<1>12. ASSUME UNCHANGED shipKeysVars \/ Money PROVE LaidUpInv'
  BY <1>6, <1>12 DEF shipKeysVars, Money
<1> QED
  BY <1>3, <1>4, <1>5, <1>7, <1>9, <1>10, <1>11, <1>12, StripLaysUp, DrainLeavesLaidUp DEF ShipKeysNext

\* Nothing is laid up when the game begins.
LEMMA LaidUpBegins == ShipKeysInit => LaidUpInv
  BY DEF ShipKeysInit, LaidUpInv, Together, World

\* Whatever the keys enqueue is of an order's type, and no ship's books go below nothing.
THEOREM ShipTypeCorrect == ShipKeysSpec => []ShipTypes
<1>1. ShipTypes /\ [ShipKeysNext]_shipKeysVars => ShipTypes'
  BY ShipsStep DEF Booked
<1> QED
  BY ShipsBegin, <1>1, PTL DEF ShipKeysSpec

\* CTRL+X leaves a ship bare, and in the yard when its convoy is damaged and the purse covers
\* the repair, whatever the fleet, its convoys and its goods; in the yard it stays bare, unless
\* a hire was waiting for it, and no key loses goods or sailors: ShipKeys.StripIsComplete.
THEOREM StripsAreComplete == ShipKeysSpec => StripIsComplete
<1>1. ShipTypes /\ LaidUpInv /\ [ShipKeysNext]_shipKeysVars => ShipTypes' /\ LaidUpInv' /\ [Stripped]_shipKeysVars
  <2> SUFFICES ASSUME ShipTypes, LaidUpInv, [ShipKeysNext]_shipKeysVars PROVE ShipTypes' /\ LaidUpInv' /\ Stripped
    OBVIOUS
  <2>1. Booked
    BY ShipsStep
  <2>2. \A g \in Goods : store'[g] + Total([s \in Fleet |-> aboard'[s][g]])
                         = store[g] + Total([s \in Fleet |-> aboard[s][g]])
    <3> SUFFICES ASSUME NEW g \in Goods
                 PROVE  store'[g] + Total([s \in Fleet |-> aboard'[s][g]]) = store[g] + Total([s \in Fleet |-> aboard[s][g]])
      OBVIOUS
    <3>1. AllOf(World', g) = AllOf(World, g)
      BY <2>1 DEF Booked, NothingLost
    <3>2. World.store = store /\ World.aboard = aboard /\ World'.store = store' /\ World'.aboard = aboard'
      BY DEF World
    <3>3. AllOf(World', g) = store'[g] + SumOf([s \in Fleet |-> aboard'[s][g]], Fleet)
      BY <3>2 DEF AllOf
    <3>4. AllOf(World, g) = store[g] + SumOf([s \in Fleet |-> aboard[s][g]], Fleet)
      BY <3>2 DEF AllOf
    <3> QED
      BY <3>1, <3>3, <3>4 DEF Total, SumOf
  <2>3. inTavern' + Total([s \in Fleet |-> fleet'[s].crew]) = inTavern + Total([s \in Fleet |-> fleet[s].crew])
    BY <2>1 DEF Booked, NothingLost, AllHands, World, Total, SumOf
  <2>4. \A s \in Fleet : strip_ship_hotkey(s) =>
          /\ BareNext(s)
          /\ purse /\ (\E m \in members(s) : fleet[m].damaged) => fleet'[s].status = Repairing
    BY StripIsBooked DEF BareNext
  <2>5. LaidUpInv'
    BY LaidUpStep
  <2>6. \A s \in laidUp' : BareNext(s)
    BY <2>5 DEF LaidUpInv, Bared, BareNext, World
  <2> QED
    BY <2>1, <2>2, <2>3, <2>4, <2>5, <2>6 DEF Booked, Stripped
<1> DEFINE Complete == shipKeysVars' # shipKeysVars => Stripped
<1>2. [Stripped]_shipKeysVars => [Complete]_shipKeysVars
  OBVIOUS
<1> HIDE DEF Complete
<1>3. ShipKeysSpec => [][Complete]_shipKeysVars
  BY ShipsBegin, LaidUpBegins, <1>1, <1>2, PTL DEF ShipKeysSpec
<1> QED
  BY <1>3 DEF Complete, StripIsComplete

================================================================================
