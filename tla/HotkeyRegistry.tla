--------------------------- MODULE HotkeyRegistry ---------------------------
(***************************************************************************)
(* The shared hotkey registry (src/mod-hotkey-registry/src/ffi.rs): one    *)
(* table of (key, handler) registrations, and the keyboard hook that walks *)
(* the registrations of a pressed key from the newest to the oldest.       *)
(*                                                                         *)
(* Everything runs on the game's main thread, so the only interleaving is  *)
(* re-entrance: a handler that the hook is calling may register and        *)
(* unregister keys, and the game's own callbacks do so between key events. *)
(* The hook is therefore split at exactly the points where foreign code    *)
(* runs: the snapshot (KeyDown), the step to the next match (CallNext,     *)
(* SkipStale), the return of a handler, and the end of the walk.           *)
(*                                                                         *)
(* A key stands for an exact (vk, mods) pair, a handler for its owner.     *)
(***************************************************************************)
EXTENDS Naturals, Sequences

CONSTANTS
    Owners,      \* the consumers' handlers
    Keys,        \* (vk, mods) combinations
    CAPACITY,    \* slots of the table
    MAX_MATCHES, \* matches one keystroke can snapshot
    MaxHandle    \* bound of the model on the handles given out

ASSUME RegistryAssumption ==
    /\ CAPACITY \in Nat \ {0}
    /\ MAX_MATCHES \in Nat \ {0}
    /\ MaxHandle \in Nat

VARIABLES
    entries,     \* the used part of the table, oldest registration first
    next_handle, \* the next handle to give out; 0 is "failure", never a handle
    matches,     \* what is left of the snapshot of the keystroke in progress
    running,     \* the handle of the registration whose handler is running, 0: none
    phase,       \* "idle", "walk" (inside the hook) or "handler" (inside a handler)
    outcome,     \* how the last key event ended
    pressed,     \* the key of the keystroke in progress or last walked
    called,      \* history: the handles called for that keystroke
    mark,        \* history: next_handle when it arrived
    floor        \* history: the oldest handle its snapshot had room for, 0: all of them

table == <<entries, next_handle>>
press == <<pressed, mark, floor>>
hook == <<matches, running, phase, outcome, pressed, called, mark, floor>>
registryVars == <<entries, next_handle, matches, running, phase, outcome, pressed, called, mark, floor>>

Entry == [handle : Nat \ {0}, owner : Owners, key : Keys]

Registered(h) == \E i \in DOMAIN entries : entries[i].handle = h

-----------------------------------------------------------------------------
(* The table.                                                              *)

RegistryInit ==
    /\ entries = << >>
    /\ next_handle = 1
    /\ matches = << >>
    /\ running = 0
    /\ phase = "idle"
    /\ outcome = "none"
    /\ pressed \in Keys
    /\ called = {}
    /\ mark = 1
    /\ floor = 0

\* Consumers run between key events or inside a handler, never inside the walk.
ConsumerRuns == phase \in {"idle", "handler"}

\* hotkeys_register on a table of slots es: a new registration goes on top, unless
\* the table is full.
Added(es, h, o, k) ==
    IF Len(es) = CAPACITY THEN es ELSE Append(es, [handle |-> h, owner |-> o, key |-> k])

\* Faulty variant: the last slot fills the hole.
DroppedSwapping(es, h) ==
    IF \A i \in DOMAIN es : es[i].handle # h
    THEN es
    ELSE LET slot == CHOOSE i \in DOMAIN es : es[i].handle = h
         IN  [j \in 1 .. Len(es) - 1 |-> IF j = slot THEN es[Len(es)] ELSE es[j]]

\* hotkeys_unregister on a table: the slots above the handle's move down by one; an
\* unknown handle is only logged.
Dropped(es, h) ==
    IF \A i \in DOMAIN es : es[i].handle # h
    THEN es
    ELSE LET slot == CHOOSE i \in DOMAIN es : es[i].handle = h
         IN  [j \in 1 .. Len(es) - 1 |-> IF j < slot THEN es[j] ELSE es[j + 1]]

hotkeys_register(o, k) ==
    /\ ConsumerRuns
    /\ next_handle <= MaxHandle
    /\ entries' = Added(entries, next_handle, o, k)
    /\ next_handle' = IF Len(entries) = CAPACITY THEN next_handle ELSE next_handle + 1
    /\ UNCHANGED hook

hotkeys_unregister(h) ==
    /\ ConsumerRuns
    /\ entries' = Dropped(entries, h)
    /\ UNCHANGED next_handle
    /\ UNCHANGED hook

-----------------------------------------------------------------------------
(* The keyboard hook.                                                      *)

Matching(k) == {i \in DOMAIN entries : entries[i].key = k}

\* The slots the snapshot takes: the registrations of k from the top down, all of
\* them or the newest MAX_MATCHES.
IsSnapshot(slots, k) ==
    /\ \A m, n \in DOMAIN slots : m < n => slots[m] > slots[n]
    /\ \A m \in DOMAIN slots : slots[m] \in Matching(k)
    /\ \A i \in Matching(k) :
         \/ \E m \in DOMAIN slots : slots[m] = i
         \/ Len(slots) = MAX_MATCHES /\ \A m \in DOMAIN slots : i < slots[m]

\* The initial key-down: the snapshot is taken before any handler is called.
KeyDown(k) ==
    /\ phase = "idle"
    /\ \E n \in 0 .. MAX_MATCHES : \E slots \in [1 .. n -> DOMAIN entries] :
         /\ IsSnapshot(slots, k)
         /\ matches' = [m \in 1 .. n |-> entries[slots[m]]]
         /\ floor' = IF n = MAX_MATCHES THEN entries[slots[n]].handle ELSE 0
    /\ phase' = "walk"
    /\ outcome' = "none"
    /\ pressed' = k
    /\ called' = {}
    /\ mark' = next_handle
    /\ UNCHANGED <<table, running>>

\* Autorepeats, releases and events with code < 0 go straight to the next hook.
OtherKeyEvent ==
    /\ phase = "idle"
    /\ outcome' = "passed"
    /\ called' = {}
    /\ UNCHANGED <<table, matches, running, phase, press>>

\* A match whose registration has gone since the snapshot is skipped.
SkipStale ==
    /\ phase = "walk"
    /\ matches # << >>
    /\ ~Registered(Head(matches).handle)
    /\ matches' = Tail(matches)
    /\ UNCHANGED <<table, running, phase, outcome, called, press>>

CallNext ==
    /\ phase = "walk"
    /\ matches # << >>
    /\ Registered(Head(matches).handle)
    /\ running' = Head(matches).handle
    /\ called' = called \cup {Head(matches).handle}
    /\ matches' = Tail(matches)
    /\ phase' = "handler"
    /\ UNCHANGED <<table, outcome, press>>

\* Faulty variant: a declining handler restarts the walk on the live table.
DeclineAndRescan ==
    /\ phase = "handler"
    /\ phase' = "walk"
    /\ running' = 0
    /\ \E n \in 0 .. MAX_MATCHES : \E slots \in [1 .. n -> DOMAIN entries] :
         /\ IsSnapshot(slots, pressed)
         /\ matches' = [m \in 1 .. n |-> entries[slots[m]]]
    /\ UNCHANGED <<table, outcome, called, press>>

\* The handler declines: the walk goes on.
Decline ==
    /\ phase = "handler"
    /\ phase' = "walk"
    /\ running' = 0
    /\ UNCHANGED <<table, matches, outcome, called, press>>

\* The handler returns nonzero: the keystroke is eaten and the walk stops.
Swallow ==
    /\ phase = "handler"
    /\ phase' = "idle"
    /\ running' = 0
    /\ matches' = << >>
    /\ outcome' = "swallowed"
    /\ UNCHANGED <<table, called, press>>

\* Nobody handled it: CallNextHookEx.
PassOn ==
    /\ phase = "walk"
    /\ matches = << >>
    /\ phase' = "idle"
    /\ outcome' = "passed"
    /\ UNCHANGED <<table, matches, running, called, press>>

-----------------------------------------------------------------------------
Consumer ==
    \/ \E o \in Owners, k \in Keys : hotkeys_register(o, k)
    \/ \E h \in 1 .. MaxHandle : hotkeys_unregister(h)

Hook == SkipStale \/ CallNext \/ PassOn

Next ==
    \/ Consumer
    \/ \E k \in Keys : KeyDown(k)
    \/ OtherKeyEvent
    \/ Hook
    \/ Decline
    \/ Swallow

\* The walk is a loop of the hook, and handlers return.
Fairness == WF_registryVars(Hook) /\ WF_registryVars(Decline \/ Swallow)

Spec == RegistryInit /\ [][Next]_registryVars
FairSpec == Spec /\ Fairness

-----------------------------------------------------------------------------
(* Properties.                                                             *)

TypeOK ==
    /\ entries \in Seq(Entry)
    /\ Len(entries) <= CAPACITY
    /\ next_handle \in Nat \ {0}
    /\ matches \in Seq(Entry)
    /\ Len(matches) <= MAX_MATCHES
    /\ running \in Nat
    /\ phase \in {"idle", "walk", "handler"}
    /\ outcome \in {"none", "swallowed", "passed"}
    /\ pressed \in Keys
    /\ called \subseteq Nat
    /\ mark \in Nat \ {0}
    /\ floor \in Nat

\* Table order is registration order: handles ascend, so no two slots share one, and
\* a handle once given out never comes back for another registration.
HandlesAscend ==
    /\ \A i, j \in DOMAIN entries : i < j => entries[i].handle < entries[j].handle
    /\ \A i \in DOMAIN entries : entries[i].handle < next_handle

\* The handle in a pending snapshot entry still means what it meant at the snapshot:
\* if it is registered, it is the same key and handler. The recheck before a call
\* compares handles only, so it is sound only because of this.
SnapshotMeansTheSame ==
    \A m \in DOMAIN matches : \A i \in DOMAIN entries :
        entries[i].handle = matches[m].handle => entries[i] = matches[m]

\* What is left of the snapshot is exactly what the keystroke may still be offered to,
\* newest first: registrations of its key made before it arrived, older than all it was
\* offered to - and none that is registered now is missing, unless the snapshot had no
\* room for it.
StillToOffer(r) ==
    r.key = pressed /\ floor <= r.handle /\ r.handle < mark /\ \A h \in called : r.handle < h

WalkInOrder ==
    /\ mark <= next_handle
    /\ \A m, n \in DOMAIN matches : m < n => matches[m].handle > matches[n].handle
    /\ \A m \in DOMAIN matches : StillToOffer(matches[m])

WalkComplete ==
    \A i \in DOMAIN entries : phase # "idle" /\ StillToOffer(entries[i]) =>
        \E m \in DOMAIN matches : matches[m] = entries[i]

\* A handler that unregisters a later match disarms it for this very keystroke: no
\* handler is entered once its registration is gone.
NeverCallsDisarmed ==
    [][phase' = "handler" /\ phase # "handler" => Registered(running')]_registryVars

\* Every keystroke ends, however its handlers re-arrange the table.
KeystrokeEnds == phase # "idle" ~> phase = "idle"

\* The table and its snapshot walk implement newest-first shadowing among whatever is
\* registered at the moment of each call (HotkeyShadowing).
Shadowing == INSTANCE HotkeyShadowing WITH
    live <- {entries[i] : i \in DOMAIN entries}
ShadowingSpec == Shadowing!Spec
=============================================================================
