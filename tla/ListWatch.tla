----------------------------- MODULE ListWatch -----------------------------
(***************************************************************************)
(* The watch over d3d9's resource list (mod-crash-reporter/src/probes.rs). *)
(* A device keeps its resources on a doubly linked list.  Something lowers *)
(* the `prev` of a node by one, and when such a node is released d3d9's    *)
(* own unlink writes its predecessor's `next` one byte low; the release    *)
(* after that dies.  On the game's ticks the watch walks the list, puts    *)
(* the first wrong `prev` right and arms a data breakpoint (Dr0) on it, so *)
(* that the next visit of the writer is caught with its address.           *)
(*                                                                         *)
(* The list, its owner and the writer belong to the game: next, prev, low  *)
(* (the nodes whose `prev` is lowered), owner, head.  The rest is the      *)
(* watch's own: its cached device, what its last walk saw, the ticks since *)
(* it last worked, the watched node (armed = WRITE_WATCH_ADDRESS, watched  *)
(* = WRITE_WATCH_NODE), the processor's Dr0, and the buffer of hits.       *)
(***************************************************************************)
EXTENDS Naturals, FiniteSets

CONSTANTS
    Nodes,       \* the addresses resources are allocated at
    Devices,     \* the addresses devices are created at
    None,        \* the null pointer
    Wild,        \* a `next` that was stored one byte low
    HEARTBEAT,   \* D3D9_WATCH_HEARTBEAT: ticks until an unchanged list is handled anyway
    MAX_RAW      \* WRITE_WATCH_MAX_RAW: traps until the watch disarms itself

VARIABLES
    next, prev, low, owner, head, device,      \* the game's
    D3D9_DEVICE, WATCH_ON, lastKind, lastFaults, sinceLast,
    armed, watched, exhausted, HITS, dr0, pending

gameVars == <<next, prev, low, owner, head, device>>
walkVars == <<D3D9_DEVICE, WATCH_ON, lastKind, lastFaults, sinceLast>>
trapVars == <<armed, watched, exhausted, HITS, dr0, pending>>
listVars == <<gameVars, walkVars, trapVars>>

Kinds == {"nothing", "clean", "broken"}

ListInit ==
    /\ next = [n \in Nodes |-> None]
    /\ prev = [n \in Nodes |-> None]
    /\ low = {}
    /\ owner = [n \in Nodes |-> None]
    /\ head = None
    /\ device = (CHOOSE d \in Devices : TRUE)
    /\ D3D9_DEVICE = None
    /\ WATCH_ON = FALSE
    /\ lastKind = None
    /\ lastFaults = {}
    /\ sinceLast = HEARTBEAT
    /\ armed = None
    /\ watched = None
    /\ exhausted = None
    /\ HITS = 0
    /\ dr0 = None
    /\ pending = FALSE

(***************************************************************************)
(* write_watch_veh: a write of the game to the watched `prev` traps.  Dr0  *)
(* still set after a failed disarm (armed = None) is cleared by its first  *)
(* trap.  Of the hit buffer only whether it holds something is kept.       *)
(***************************************************************************)
write_watch_veh ==
    LET disarm == armed = None \/ HITS + 1 >= MAX_RAW IN
    /\ pending' = TRUE
    /\ HITS' = IF HITS < MAX_RAW THEN HITS + 1 ELSE HITS
    /\ dr0' = IF disarm THEN None ELSE dr0
    /\ armed' = IF disarm THEN None ELSE armed
    /\ exhausted' = IF disarm THEN watched ELSE exhausted
    /\ UNCHANGED watched

\* A write of the game to the `prev` of the nodes in `written`.
Trapping(written) ==
    /\ UNCHANGED walkVars
    /\ IF dr0 \in written \ {None} THEN write_watch_veh ELSE UNCHANGED trapVars

(***************************************************************************)
(* The game: d3d9 links a resource in at the head and unlinks it on        *)
(* release, a mode change frees every resource and may move the device,    *)
(* and the writer being hunted lowers a `prev`.                            *)
(***************************************************************************)
Create(n) ==
    /\ owner[n] = None
    /\ next' = [next EXCEPT ![n] = head]
    /\ prev' = [m \in Nodes |-> IF m = n THEN None ELSE IF m = head THEN n ELSE prev[m]]
    /\ low' = low \ {n, head}
    /\ owner' = [owner EXCEPT ![n] = device]
    /\ head' = n
    /\ UNCHANGED device
    /\ Trapping({n, head})

Release(n) ==
    /\ owner[n] = device
    /\ next[n] # Wild                      \* through a wild next the game dies
    /\ head' = IF head = n THEN next[n] ELSE head
    /\ next' = [m \in Nodes |->
                 IF m = n THEN None
                 ELSE IF head # n /\ m = prev[n] THEN (IF n \in low THEN Wild ELSE next[n])
                 ELSE next[m]]
    /\ prev' = [m \in Nodes |->
                 IF m = n THEN None ELSE IF m = next[n] THEN prev[n] ELSE prev[m]]
    /\ low' = IF n \in low /\ next[n] # None THEN (low \ {n}) \union {next[n]}
              ELSE low \ {n, next[n]}
    /\ owner' = [owner EXCEPT ![n] = None]
    /\ UNCHANGED device
    /\ Trapping({n, next[n]})

ModeChange ==
    /\ head' = None
    /\ next' = [n \in Nodes |-> None]
    /\ prev' = [n \in Nodes |-> None]
    /\ low' = {}
    /\ owner' = [n \in Nodes |-> None]
    /\ device' \in Devices
    /\ Trapping(Nodes)

Lower(n) ==
    /\ owner[n] = device
    /\ n \notin low
    /\ low' = low \union {n}
    /\ UNCHANGED <<next, prev, owner, head, device>>
    /\ Trapping({n})

(***************************************************************************)
(* device_check and d3d9_device: a device passes the round trip when its   *)
(* head belongs to it; torn down it only keeps its display name.  The      *)
(* cached device is used again only on the round trip.  Otherwise DDRAW's  *)
(* data is searched for a live device and, if none is come across, for an  *)
(* idle one; the search may also find nothing (None stands for the Err).   *)
(***************************************************************************)
RoundTrip(d) == d = device /\ head # None /\ owner[head] = d

reusable(cached) == cached # None /\ RoundTrip(cached)

d3d9_device ==
    IF reusable(D3D9_DEVICE) THEN {D3D9_DEVICE} ELSE Devices \union {None}

(***************************************************************************)
(* walk_resource_list: along `next` from the head, noting every node whose *)
(* `prev` is not the node it came from, until a wild `next`.  The walk     *)
(* counts a node after it has looked at its `next`, so behind a wild first *)
(* node it has counted nothing, whatever it noted; and of what it noted    *)
(* the sampler repairs only on a list of which something was counted.      *)
(***************************************************************************)
nothingCounted(d) == d # device \/ head \notin Nodes \/ next[head] = Wild

walk_resource_list(d) ==
    LET at[i \in Nat] ==          \* the i-th link followed
          IF i = 0 THEN IF d = device THEN head ELSE None
          ELSE LET n == at[i - 1] IN IF n \in Nodes THEN next[n] ELSE None
        met == {at[i] : i \in 0..Cardinality(Nodes)} \intersect Nodes
        from(n) == IF n = head THEN None ELSE CHOOSE m \in met : next[m] = n
        wrong == {n \in met : prev[n] # from(n) \/ n \in low}
        first == CHOOSE i \in 0..Cardinality(Nodes) :
                    at[i] \in wrong /\ \A j \in 0..(i - 1) : at[j] \notin wrong
        healable == wrong # {} /\ ~nothingCounted(d)
    IN [nothing |-> nothingCounted(d),
        faults  |-> ({"prev"} \X wrong)
                    \union ({"next"} \X {n \in met : next[n] = Wild}),
        back    |-> IF healable THEN at[first] ELSE None,
        to      |-> IF healable THEN from(at[first]) ELSE None]

kind(v) == IF v.nothing THEN "nothing" ELSE IF v.faults = {} THEN "clean" ELSE "broken"

(***************************************************************************)
(* The watch's part of one walk, on what it found.  `dr` says whether the  *)
(* thread's debug registers can be set this time (program_dr0).            *)
(***************************************************************************)
trap == [armed |-> armed, watched |-> watched, exhausted |-> exhausted,
         hits |-> HITS, dr0 |-> dr0, own |-> FALSE]

\* disarm_write_watch, arm_write_watch, repair_back_link and the drain, as
\* functions of the trap's state t.
disarm_write_watch(t, dr) ==
    IF t.armed = None THEN t
    ELSE [t EXCEPT !.armed = None, !.dr0 = IF dr THEN None ELSE t.dr0]

arm_write_watch(t, n, dr) ==
    IF dr THEN [t EXCEPT !.hits = 0, !.watched = n, !.armed = n, !.dr0 = n]
    ELSE [t EXCEPT !.hits = 0, !.watched = n]

gone(n) == n = None \/ owner[n] # device

\* The write that repairs n traps like any other when Dr0 could not be lifted
\* first: because it may not be set, or because the watch takes it for clear.
trapsItself(t, n, dr) == t.dr0 = n /\ (t.armed # n \/ ~dr)

repair_back_link(t, n, dr) ==
    IF n = None \/ ~trapsItself(t, n, dr) THEN t
    ELSE LET disarm == t.armed = None \/ t.hits + 1 >= MAX_RAW IN
         [t EXCEPT !.hits = IF t.hits < MAX_RAW THEN t.hits + 1 ELSE t.hits,
                   !.armed = IF disarm THEN None ELSE t.armed,
                   !.dr0 = IF disarm THEN None ELSE t.dr0,
                   !.exhausted = IF disarm THEN t.watched ELSE t.exhausted,
                   !.own = TRUE]

\* Faulty variant: no heartbeat, an unchanged list is never handled again.
skipsUnchanged(changed, due, out) == ~changed /\ ~out

skips(changed, due, out) == ~changed /\ ~due /\ ~out

\* The sampler's match on what the walk found, up to the repair.
released(t, v, dr) ==
    IF \/ kind(v) = "nothing"
       \/ kind(v) = "clean" /\ gone(t.watched)
       \/ v.back # None /\ gone(t.watched) /\ t.watched # v.back
    THEN disarm_write_watch(t, dr) ELSE t

\* And the watch on the repaired node after it; a clean list forgets the node
\* whose watch was used up.
rearmed(t, v, dr) ==
    IF v.back # None /\ t.armed = None /\ t.exhausted # v.back
    THEN arm_write_watch(t, v.back, dr)
    ELSE IF kind(v) = "clean" THEN [t EXCEPT !.exhausted = None] ELSE t

(***************************************************************************)
(* sample_d3d9_list on a tick that is not too soon after the last walk.    *)
(* The buffer is drained first; without a device that is all, and an       *)
(* unchanged list with nothing drained is left alone until the heartbeat   *)
(* is due.                                                                 *)
(***************************************************************************)
tickPasses == sinceLast' = IF sinceLast < HEARTBEAT THEN sinceLast + 1 ELSE sinceLast

NoDevice ==
    /\ None \in d3d9_device
    /\ pending' = FALSE
    /\ tickPasses
    /\ UNCHANGED <<gameVars, D3D9_DEVICE, WATCH_ON, lastKind, lastFaults,
                   armed, watched, exhausted, HITS, dr0>>

Walked ==
    /\ UNCHANGED <<WATCH_ON, next, owner, head, device>>
    /\ \E d \in d3d9_device \ {None} :
        /\ D3D9_DEVICE' = d
        /\ \E v \in {walk_resource_list(d)} :
            /\ lastKind' = kind(v)
            /\ lastFaults' = v.faults
            /\ IF skips(kind(v) # lastKind \/ v.faults # lastFaults,
                        sinceLast >= HEARTBEAT, pending)
               THEN /\ tickPasses
                    /\ UNCHANGED <<prev, low, armed, watched, exhausted, HITS, dr0, pending>>
               ELSE /\ sinceLast' = 0
                    /\ prev' = IF v.back = None THEN prev ELSE [prev EXCEPT ![v.back] = v.to]
                    /\ low' = low \ {v.back}
                    /\ \E dr \in BOOLEAN :
                         \E t1 \in {released(trap, v, dr)} :
                         \E t2 \in {repair_back_link(t1, v.back, dr)} :
                         \E t \in {rearmed(t2, v, dr)} :
                            /\ armed' = t.armed
                            /\ watched' = t.watched
                            /\ exhausted' = t.exhausted
                            /\ HITS' = t.hits
                            /\ dr0' = t.dr0
                            /\ pending' = t.own

Sample == WATCH_ON /\ (NoDevice \/ Walked)

\* A tick too soon after the last walk (d3d9_watch_due) only brings the
\* heartbeat nearer.
Hurry ==
    /\ WATCH_ON
    /\ sinceLast < HEARTBEAT
    /\ sinceLast' = sinceLast + 1
    /\ UNCHANGED <<gameVars, trapVars, D3D9_DEVICE, WATCH_ON, lastKind, lastFaults>>

\* toggle_probe_d3d9_watch; switched off it drains the buffer and disarms.
Toggle ==
    /\ WATCH_ON' = ~WATCH_ON
    /\ UNCHANGED <<gameVars, D3D9_DEVICE, lastKind, lastFaults, sinceLast>>
    /\ \/ /\ ~WATCH_ON
          /\ UNCHANGED trapVars
       \/ /\ WATCH_ON
          /\ pending' = FALSE
          /\ armed' = None
          /\ dr0' \in (IF armed = None THEN {dr0} ELSE {dr0, None})
          /\ UNCHANGED <<watched, exhausted, HITS>>

\* debug_probe_d3d9_list, the one-shot check: it takes the hits with it.
debug_probe_d3d9_list ==
    /\ D3D9_DEVICE' \in {IF d = None THEN D3D9_DEVICE ELSE d : d \in d3d9_device}
    /\ pending' = FALSE
    /\ UNCHANGED <<gameVars, WATCH_ON, lastKind, lastFaults, sinceLast,
                   armed, watched, exhausted, HITS, dr0>>

ListNext ==
    \/ \E n \in Nodes : Create(n) \/ Release(n) \/ Lower(n)
    \/ ModeChange
    \/ Sample
    \/ Hurry
    \/ Toggle
    \/ debug_probe_d3d9_list

\* The ships tick runs as long as the game does.
ListFairness == WF_listVars(Sample)

ListSpec == ListInit /\ [][ListNext]_listVars /\ ListFairness

-----------------------------------------------------------------------------
Wrecked == \E n \in Nodes : next[n] = Wild

(***************************************************************************)
(* A lowered `prev` is put right before long, whatever became of the data  *)
(* breakpoint: armed, failed to arm, used up, or its hits taken by the     *)
(* one-shot key ("the teardown crash is defused while the watch waits").   *)
(* A node stays broken only while others are broken again and again: a     *)
(* walk repairs the first one it meets.  That the search comes across the  *)
(* live device now and again is a premise: it may fail on any tick, and    *)
(* nothing in the code makes it succeed.  While the device stays live it   *)
(* is not searched for again.                                              *)
(***************************************************************************)
BrokenLinksHeal ==
    \A n \in Nodes :
        <>[](n \in low /\ WATCH_ON /\ ~Wrecked) /\ []<>(D3D9_DEVICE = device)
            => []<><<\E m \in low : m \notin low'>>_low
=============================================================================
