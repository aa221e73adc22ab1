----------------------------- MODULE CrewRescue -----------------------------
(***************************************************************************)
(* Crew rescue (mod-trading-qol/src/crew_rescue.rs).  A ship that lost     *)
(* sailors cannot leave its stop: the game stops its route and files a     *)
(* note.  The mod answers the note instead, by hiring the missing sailors  *)
(* in the tavern and starting the route again, if that is all it takes.    *)
(*                                                                         *)
(* Ships call at one town, whose tavern they share; a convoy is its lead.  *)
(***************************************************************************)
EXTENDS Integers

CONSTANTS
    Fleet,         \* ships with a route; the lead stands for its convoy
    Leads,         \* the leads among them
    Mine,          \* those of the player's merchant
    MIN_SAILORS,   \* crew each ship needs to sail
    FULL_CREW,     \* full crew of each ship's type
    LEADER_MIN,    \* CONVOY_LEADER_MIN_CREW
    Room,          \* crew a laden ship has room for
    MaxAvailable   \* bound: sailors the tavern holds

ASSUME CrewAssumption ==
    /\ Leads \subseteq Fleet /\ Mine \subseteq Fleet
    /\ MIN_SAILORS \in [Fleet -> Nat] /\ FULL_CREW \in [Fleet -> Nat]
    /\ LEADER_MIN \in Nat /\ Room \in Nat /\ MaxAvailable \in Nat
    /\ \A s \in Fleet : MIN_SAILORS[s] <= FULL_CREW[s] /\ FULL_CREW[s] <= Room
    /\ LEADER_MIN <= Room

VARIABLES
    crew,       \* sailors aboard (ship+0x40)
    port,       \* the ships in port (status <= 3)
    laden,      \* the ships whose cargo leaves them berths beyond their type's full crew
    unmet,      \* the ships kept from sailing by something other than the crew
    route,      \* "active", "stalled" by the game, or "off" by the player
    told,       \* the ships whose note has been filed since their route last started
    available,  \* sailors in the tavern
    resumed     \* history: ships rescued that have not left since

crewVars == <<crew, port, laden, unmet, route, told, available, resumed>>

CrewTypeOK ==
    /\ crew \in [Fleet -> 0 .. Room]
    /\ port \subseteq Fleet /\ laden \subseteq Fleet /\ unmet \subseteq Fleet
    /\ route \in [Fleet -> {"active", "stalled", "off"}]
    /\ told \subseteq Fleet /\ resumed \subseteq Fleet
    /\ available \in 0 .. MaxAvailable

\* Fitted out, in port, no route started yet.
CrewInit ==
    /\ crew \in [Fleet -> 0 .. Room]
    /\ \A s \in Fleet : crew[s] <= FULL_CREW[s]
    /\ port = Fleet
    /\ laden = {} /\ unmet = {} /\ told = {} /\ resumed = {}
    /\ route = [s \in Fleet |-> "off"]
    /\ available \in 0 .. MaxAvailable

-----------------------------------------------------------------------------
(* The game's predicates, as functions of the crew.                         *)

can_sail(s, c) == c >= MIN_SAILORS[s] /\ s \notin unmet
can_lead_convoy(s, c) == c >= LEADER_MIN /\ s \notin unmet
would_sail_with_crew(s, c) == (s \in Leads => can_lead_convoy(s, c)) /\ can_sail(s, c)

get_free_sailor_berths(s) == (IF s \in laden THEN Room ELSE FULL_CREW[s]) - crew[s]

Smaller(a, b) == IF a < b THEN a ELSE b
Larger(a, b) == IF a < b THEN b ELSE a
Hirable(s, count) == Larger(0, Smaller(count, Smaller(get_free_sailor_berths(s), available)))

\* The hire operation: clamped to the berths and to the tavern.
HireSailors(s, count) ==
    /\ crew' = [crew EXCEPT ![s] = @ + Hirable(s, count)]
    /\ available' = available - Hirable(s, count)

-----------------------------------------------------------------------------
(* The hook.                                                                *)

\* What the route needs: a lead answers to the leader's minimum as well.
Wanted(s) == IF s \in Leads THEN Larger(MIN_SAILORS[s], LEADER_MIN) ELSE MIN_SAILORS[s]

CanRescue(s) ==
    /\ s \in Mine /\ s \in port
    /\ Wanted(s) > crew[s]
    /\ s \in Leads => would_sail_with_crew(s, Wanted(s))
    /\ available >= Wanted(s) - crew[s]

Files(s) ==
    /\ route' = [route EXCEPT ![s] = "stalled"]
    /\ told' = told \cup {s}
    /\ resumed' = resumed \ {s}

Resumes(s) ==
    /\ route' = [route EXCEPT ![s] = "active"]
    /\ resumed' = resumed \cup {s}
    /\ UNCHANGED told

\* Hires the shortfall and starts the route again, or lets the note through.
try_rescue(s) ==
    IF CanRescue(s) THEN HireSailors(s, Wanted(s) - crew[s]) /\ Resumes(s)
    ELSE Files(s) /\ UNCHANGED <<crew, available>>

\* Faulty variant: no note ever passes.
route_note_hook_swallowing(s, stale) ==
    IF CanRescue(s) THEN try_rescue(s)
    ELSE /\ route' = [route EXCEPT ![s] = "stalled"]
         /\ resumed' = resumed \ {s}
         /\ UNCHANGED <<crew, available, told>>

\* The index is masked to its 16 bits before any use, so a stale upper half is no matter.
route_note_hook(s, stale) == try_rescue(s)

-----------------------------------------------------------------------------
(* The game.                                                                *)

\* The route goes on from a stop, or stops with a note; a lead is checked on any tick.
Departs(s) ==
    /\ route[s] = "active" /\ s \in port
    /\ would_sail_with_crew(s, crew[s])
    /\ port' = port \ {s} /\ resumed' = resumed \ {s}
    /\ UNCHANGED <<crew, laden, unmet, route, told, available>>

Stalls(s) ==
    /\ route[s] = "active"
    /\ IF s \in Leads THEN ~would_sail_with_crew(s, crew[s])
                      ELSE s \in port /\ crew[s] < MIN_SAILORS[s]
    /\ \E stale \in BOOLEAN : route_note_hook(s, stale)
    /\ UNCHANGED <<port, laden, unmet>>

Arrives(s) ==
    /\ s \notin port /\ port' = port \cup {s}
    /\ laden' \in {laden \cup {s}, laden \ {s}}
    /\ UNCHANGED <<crew, unmet, route, told, available, resumed>>

Raided(s) ==
    /\ s \notin port
    /\ \E c \in 0 .. crew[s] - 1 : crew' = [crew EXCEPT ![s] = c]
    /\ UNCHANGED <<port, laden, unmet, route, told, available, resumed>>

\* Guns lost, hull damaged, port frozen, and the reverse.
Hindered(s) ==
    /\ unmet' = IF s \in unmet THEN unmet \ {s} ELSE unmet \cup {s}
    /\ UNCHANGED <<crew, port, laden, route, told, available, resumed>>

TavernChanges ==
    /\ \E n \in 0 .. MaxAvailable : available' = n
    /\ UNCHANGED <<crew, port, laden, unmet, route, told, resumed>>

\* The player hires by hand, starts the route, stops it.
PlayerHires(s, count) ==
    /\ s \in port /\ route[s] # "active"
    /\ HireSailors(s, count)
    /\ UNCHANGED <<port, laden, unmet, route, told, resumed>>

PlayerStarts(s) ==
    /\ route[s] # "active" /\ route' = [route EXCEPT ![s] = "active"]
    /\ told' = told \ {s}
    /\ UNCHANGED <<crew, port, laden, unmet, available, resumed>>

PlayerStops(s) ==
    /\ route[s] = "active" /\ route' = [route EXCEPT ![s] = "off"]
    /\ resumed' = resumed \ {s}
    /\ UNCHANGED <<crew, port, laden, unmet, told, available>>

RouteTick(s) == Departs(s) \/ Stalls(s)

CrewNext ==
    \/ \E s \in Fleet :
          \/ RouteTick(s) \/ Arrives(s) \/ Raided(s) \/ Hindered(s)
          \/ PlayerStarts(s) \/ PlayerStops(s)
          \/ \E count \in 1 .. Room : PlayerHires(s, count)
    \/ TavernChanges

CrewSpec == CrewInit /\ [][CrewNext]_crewVars

\* The game ticks every ship with an active route.
FairCrewSpec == CrewSpec /\ \A s \in Fleet : WF_crewVars(RouteTick(s))

-----------------------------------------------------------------------------
(* Properties                                                               *)

\* A ship whose note was suppressed has the crew its route needs and the route running, until
\* it leaves: crew_rescue.rs:28 "only hires when that copy would sail".  The hire operation
\* clamps what the hook asked for, and other ships empty the same tavern.
RescuedCanSail ==
    \A s \in resumed : route[s] = "active" /\ crew[s] >= Wanted(s)

\* A note that passes leaves crew and tavern alone: README.md "If the tavern cannot cover the
\* shortfall, nothing is touched and the vanilla message shows."
NothingTouched ==
    [][\A s \in Fleet : s \notin told /\ s \in told' => UNCHANGED <<crew, available>>]_crewVars

\* A ship of the player's whose route is running and that lies in port sails in the end, or
\* the player hears of it: it never sits there with its note suppressed over and over.  Unless
\* he stops it himself or something that is no matter of crew keeps it.
NoSilentStall ==
    \A s \in Mine :
        route[s] = "active" /\ s \in port ~>
            s \notin port \/ s \in told \/ s \in unmet \/ route[s] = "off"

=============================================================================
