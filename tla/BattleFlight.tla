---------------------------- MODULE BattleFlight ----------------------------
(***************************************************************************)
(* mod-battle-always-flee: the player's ships flee every sea battle the    *)
(* player neither started nor entered. The mod brackets the game's         *)
(* per-ship step: for such a ship the courage scale of its side is taken   *)
(* to zero for the ship's own evaluation and put back - except on the one  *)
(* step per ship that is left honest, so that the log can tell what the AI *)
(* would have decided.                                                     *)
(*                                                                         *)
(* A battle steps its ships one after the other on the game thread. The    *)
(* decision the AI takes inside a step is external, as p3-api/src/battle.rs *)
(* describes it. Ships keep their object over battles: an object freed at   *)
(* the end of a battle may be built again at its old address.               *)
(***************************************************************************)
EXTENDS Naturals, FiniteSets

CONSTANTS
    BattleShips,    \* the addresses of battle-ship objects
    battle_of,      \* address -> address of the battle
    side_of,        \* address -> 0 (attacker) or 1
    owner_of,       \* address -> merchant of the ship
    side_owner,     \* battle -> side -> merchant
    vtable_of,      \* address -> "main" or "twin"
    player,         \* OPERATIONS_PTR.get_player_merchant_index()
    GRACE_COUNTER_INITIAL,
    CourageAtStart, \* what the game may write as the scale of a side
    None

Fights == {battle_of[o] : o \in BattleShips}

\* What a ship has against it: a side of its battle. What is against a ship of an attacking player
\* is left open: the mod never takes its courage.
Opposite(o) == <<battle_of[o], 1 - side_of[o]>>
Opposites(b) ==
    {Opposite(o) : o \in {p \in BattleShips : battle_of[p] = b /\ side_owner[b][0] # player}}

VARIABLES
    hooked,          \* the vtables whose slot 0 leads to the mod; {"starting"} before start()
    entered,         \* the battle the player has entered, or None
    object,          \* address -> [grace, inFight, fleeing, damaged]
    latch,           \* battle -> somebody has panicked
    gunned,          \* the sides opposite a ship of the player's that have a gun left (+0xA90)
    scale,           \* battle -> side -> courage scale
    SAMPLED,
    ANNOUNCED_BATTLE,
    visit            \* the stepper's: address -> parity of the steps so far

flightVars == <<hooked, entered, object, latch, gunned, scale, SAMPLED, ANNOUNCED_BATTLE, visit>>

Fresh == [grace |-> GRACE_COUNTER_INITIAL, inFight |-> TRUE, fleeing |-> FALSE, damaged |-> FALSE]
\* Withdrawn or sunk: what else its flags say is not looked at again.
Out == [grace |-> 0, inFight |-> FALSE, fleeing |-> FALSE, damaged |-> FALSE]
Brave == [b \in Fights |-> [s \in {0, 1} |-> 1]]

FlightInit ==
    /\ hooked = {"starting"} /\ entered = None
    /\ object = [o \in BattleShips |-> Fresh]
    /\ latch = [b \in Fights |-> FALSE]
    /\ gunned = UNION {Opposites(b) : b \in Fights}
    /\ scale = Brave
    /\ SAMPLED = {} /\ ANNOUNCED_BATTLE = None
    /\ visit = [o \in BattleShips |-> FALSE]

-----------------------------------------------------------------------------
(* The mod.                                                                *)

\* Hooks the main vtable, the twin and the operation switch; stops at the first that fails.
start ==
    /\ hooked = {"starting"}
    /\ hooked' \in {{}, {"main"}, {"main", "twin"}}
    /\ UNCHANGED <<entered, object, latch, gunned, scale, SAMPLED, ANNOUNCED_BATTLE, visit>>

is_player_battle(b) == b = entered
is_attacker(b, merchant) == side_owner[b][0] = merchant

\* `s` is the state of the object: the ship may leave the fight in its own step.
should_flee(o, s) ==
    /\ s.inFight
    /\ owner_of[o] = player
    /\ ~is_player_battle(battle_of[o])
    /\ ~is_attacker(battle_of[o], player)

\* Faulty variant: a damaged ship is sampled again and again.
wants_verdict_again(o) == object[o].grace = 0 /\ (o \notin SAMPLED \/ object[o].damaged)

wants_verdict_sample(o) == object[o].grace = 0 /\ o \notin SAMPLED

\* External: the outcomes of the game's own step at courage `c`. No comparison of strengths can
\* be met without courage against guns; against none it is met all the same.
fight_or_flee(o, c) ==
    LET s == object[o]
        b == battle_of[o]
        stand == [object |-> [s EXCEPT !.fleeing = FALSE], latch |-> latch[b]]
        run   == [object |-> [s EXCEPT !.fleeing = TRUE], latch |-> TRUE]
        gone  == [object |-> Out, latch |-> TRUE]
    IN  IF ~s.inFight THEN {[object |-> s, latch |-> latch[b]]}
        ELSE IF s.grace > 0 THEN {[object |-> [s EXCEPT !.grace = @ - 1], latch |-> latch[b]]}
        ELSE IF ~s.damaged /\ ~latch[b] THEN {stand}
        ELSE IF c = 0 /\ Opposite(o) \in gunned THEN {run, gone}
        ELSE {stand, run, gone}

\* The ship's step between the hook's two halves.
step(o) ==
    LET b == battle_of[o]
        side == side_of[o]
        cowardly == vtable_of[o] \in hooked /\ should_flee(o, object[o])
        sample == cowardly /\ wants_verdict_sample(o)
        previous == scale[b][side]
        lowered == IF cowardly /\ ~sample THEN [scale EXCEPT ![b][side] = 0] ELSE scale
    IN  /\ hooked # {"starting"}
        /\ \E r \in fight_or_flee(o, lowered[b][side]) :
             /\ object' = [object EXCEPT ![o] = r.object]
             /\ latch' = [latch EXCEPT ![b] = r.latch]
             /\ ANNOUNCED_BATTLE' = IF vtable_of[o] \in hooked /\ should_flee(o, r.object)
                                    THEN b ELSE ANNOUNCED_BATTLE
        /\ SAMPLED' = IF sample THEN SAMPLED \cup {o} ELSE SAMPLED
        /\ scale' = IF cowardly /\ ~sample THEN [lowered EXCEPT ![b][side] = previous] ELSE lowered
        /\ visit' = [visit EXCEPT ![o] = ~@]
        /\ UNCHANGED <<hooked, entered, gunned>>

-----------------------------------------------------------------------------
(* The game around it, external.                                           *)

enter_or_decline(b) ==
    /\ entered' = IF entered = b THEN None ELSE b
    /\ UNCHANGED <<hooked, object, latch, gunned, scale, SAMPLED, ANNOUNCED_BATTLE, visit>>

Hit(o) ==
    /\ object[o].inFight /\ ~object[o].damaged
    /\ \E sunk \in BOOLEAN :
         object' = [object EXCEPT ![o] = IF sunk THEN Out ELSE [@ EXCEPT !.damaged = TRUE]]
    /\ UNCHANGED <<hooked, entered, latch, gunned, scale, SAMPLED, ANNOUNCED_BATTLE, visit>>

\* A side's last gun is shot away, or leaves with its ship.
LoseGuns(side) ==
    /\ gunned' = gunned \ {side}
    /\ UNCHANGED <<hooked, entered, object, latch, scale, SAMPLED, ANNOUNCED_BATTLE, visit>>

\* Operation 0x9B, open to the player in the battle entered.
FleeButton(o) ==
    /\ owner_of[o] = player /\ is_player_battle(battle_of[o])
    /\ object[o].inFight /\ ~object[o].fleeing
    /\ object' = [object EXCEPT ![o].fleeing = TRUE]
    /\ UNCHANGED <<hooked, entered, latch, gunned, scale, SAMPLED, ANNOUNCED_BATTLE, visit>>

\* The battle is over, and the next one is built where it was.
NextBattle(b) ==
    LET ships == {o \in BattleShips : battle_of[o] = b}
    IN  /\ \E s \in {0, 1} : \A o \in ships : side_of[o] = s => ~object[o].inFight
        /\ object' = [o \in BattleShips |-> IF o \in ships THEN Fresh ELSE object[o]]
        /\ latch' = [latch EXCEPT ![b] = FALSE]
        /\ \E sides \in SUBSET Opposites(b) : gunned' = (gunned \ Opposites(b)) \union sides
        /\ \E c \in CourageAtStart : scale' = [scale EXCEPT ![b] = [s \in {0, 1} |-> c]]
        /\ entered' = IF entered = b THEN None ELSE entered
        /\ UNCHANGED <<hooked, SAMPLED, ANNOUNCED_BATTLE, visit>>

FlightNext ==
    \/ start
    \/ \E o \in BattleShips : step(o) \/ Hit(o) \/ FleeButton(o)
    \/ \E b \in Fights : enter_or_decline(b) \/ NextBattle(b)
    \/ \E side \in gunned : LoseGuns(side)

\* The stepper visits every ship of a running battle on every tick; nothing else is promised.
\* A step that changes nothing is a visit all the same: `visit` keeps it from being a stutter,
\* and the fairness from choosing what the ship decides.
FlightSpec == FlightInit /\ [][FlightNext]_flightVars /\ \A o \in BattleShips : WF_flightVars(step(o))

-----------------------------------------------------------------------------

\* A hit ship of the player's, of a hooked kind, with guns against it.
MustRun(o) ==
    /\ object[o].damaged /\ should_flee(o, object[o])
    /\ vtable_of[o] \in hooked
    /\ Opposite(o) \in gunned

\* A ship of the player's that has been hit, in a battle he neither started nor entered, behind a
\* hooked vtable and against guns, runs, unless he enters the battle, the battle ends, the ship is
\* out of it or the other side loses its guns. The honest step may let it stand once, never for good.
HitShipsRun == \A o \in BattleShips : []<>(MustRun(o) => object[o].fleeing)
=============================================================================
