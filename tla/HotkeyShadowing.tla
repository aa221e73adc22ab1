-------------------------- MODULE HotkeyShadowing --------------------------
(***************************************************************************)
(* What the hotkey registry promises its consumers (the module docs of     *)
(* src/mod-hotkey-registry/src/ffi.rs): a set of registrations without any *)
(* table or snapshot. A keystroke goes to the newest registration of its   *)
(* key that is registered at that moment; if it declines, to the newest    *)
(* one older than that; registrations made since the keystroke arrived do  *)
(* not take part. When nobody takes it, the key passes to the game.        *)
(***************************************************************************)
EXTENDS Naturals, FiniteSets

CONSTANTS Owners, Keys, MaxHandle

VARIABLES
    live,        \* the registrations
    next_handle, \* handles are given out in ascending order: newer is larger
    running,     \* the handle whose handler runs, 0: none
    phase,
    outcome,
    pressed,
    called,      \* the handles the keystroke has been offered to
    mark,        \* every registration from here on is newer than the keystroke
    floor        \* the oldest registration the keystroke will be offered to

press == <<pressed, mark, floor>>
vars == <<live, next_handle, running, phase, outcome, pressed, called, mark, floor>>

Init ==
    /\ live = {}
    /\ next_handle = 1
    /\ running = 0
    /\ phase = "idle"
    /\ outcome = "none"
    /\ pressed \in Keys
    /\ called = {}
    /\ mark = 1
    /\ floor = 0

ConsumerRuns == phase \in {"idle", "handler"}

Register(o, k) ==
    /\ ConsumerRuns
    /\ live' = live \cup {[handle |-> next_handle, owner |-> o, key |-> k]}
    /\ next_handle' = next_handle + 1
    /\ UNCHANGED <<running, phase, outcome, called, press>>

Unregister(h) ==
    /\ ConsumerRuns
    /\ live' = {r \in live : r.handle # h}
    /\ UNCHANGED <<next_handle, running, phase, outcome, called, press>>

Of(k) == {r \in live : r.key = k}

\* Either every registration of k takes part or the newest ones from some handle on.
Press(k) ==
    /\ phase = "idle"
    /\ phase' = "walk"
    /\ outcome' = "none"
    /\ pressed' = k
    /\ called' = {}
    /\ mark' = next_handle
    /\ floor' \in {0} \cup {r.handle : r \in Of(k)}
    /\ UNCHANGED <<live, next_handle, running>>

OtherKeyEvent ==
    /\ phase = "idle"
    /\ outcome' = "passed"
    /\ called' = {}
    /\ UNCHANGED <<live, next_handle, running, phase, press>>

\* The registrations the keystroke can still be offered to, as of now.
Candidates ==
    {r \in Of(pressed) : /\ floor <= r.handle /\ r.handle < mark
                         /\ \A h \in called : r.handle < h}

Offer(r) ==
    /\ phase = "walk"
    /\ r \in Candidates
    /\ \A other \in Candidates : other.handle <= r.handle
    /\ running' = r.handle
    /\ called' = called \cup {r.handle}
    /\ phase' = "handler"
    /\ UNCHANGED <<live, next_handle, outcome, press>>

Decline ==
    /\ phase = "handler"
    /\ phase' = "walk"
    /\ running' = 0
    /\ UNCHANGED <<live, next_handle, outcome, called, press>>

Swallow ==
    /\ phase = "handler"
    /\ phase' = "idle"
    /\ running' = 0
    /\ outcome' = "swallowed"
    /\ UNCHANGED <<live, next_handle, called, press>>

PassOn ==
    /\ phase = "walk"
    /\ Candidates = {}
    /\ phase' = "idle"
    /\ outcome' = "passed"
    /\ UNCHANGED <<live, next_handle, running, called, press>>

Next ==
    \/ \E o \in Owners, k \in Keys : Register(o, k)
    \/ \E h \in 1 .. MaxHandle : Unregister(h)
    \/ \E k \in Keys : Press(k)
    \/ OtherKeyEvent
    \/ \E r \in live : Offer(r)
    \/ Decline
    \/ Swallow
    \/ PassOn

Spec == Init /\ [][Next]_vars
=============================================================================
