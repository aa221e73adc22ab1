-------------------------- MODULE ChurchAnimations --------------------------
(***************************************************************************)
(* mod-fix-church-anim-crash. The building interiors share one animation   *)
(* player; the church window's tick decides by the current animation alone *)
(* whether to stream the next frame of its loop or to switch to it, and    *)
(* the window's constructor forgets to set the mode that lets the tick run *)
(* at all. The mod sets the mode where the constructor returns (ffi.rs);   *)
(* its former fix, three bytes in the tick with guards on the player, is   *)
(* kept beside it, dormant (tick_patch.rs) - either may be installed, or   *)
(* both: "the two are independent and can run together".                   *)
(*                                                                         *)
(* The game's side - player, windows, sessions - is external, as the two   *)
(* files describe it.                                                      *)
(***************************************************************************)
EXTENDS Integers

CONSTANTS
    Loop, Intro,    \* the church's pair of animations
    Other,          \* another building's
    NoAnim,         \* 0xFF as the current animation, NULL as the frame array
    StaleModes      \* what a recycled heap block may hold where the mode lies

ASSUME ChurchAssumption ==
    Loop # Intro /\ Other \notin {Loop, Intro} /\ NoAnim \notin {Loop, Intro} /\ StaleModes \subseteq Int

VARIABLES
    ctor_hooked, \* the constructor is hooked
    patch,      \* steps of install() done: 1 the bytes, 2 the switch, 3..5 load, tick and draw
    window,     \* "none" before the first session, "closed", "church" or "tavern" on screen
    mode,
    intro_flag,
    frames,     \* the animation the frame array was allocated for
    current_anim,
    blind,      \* history: a frame went through NULL or into another animation's array
    told,       \* history: the last switch of the tick was logged as healed
    due         \* history: the unpatched tick would have streamed blindly there

churchVars == <<ctor_hooked, patch, window, mode, intro_flag, frames, current_anim, blind, told, due>>

MODE_NONE == -1

ChurchInit ==
    /\ ctor_hooked = FALSE /\ patch = 0 /\ window = "none" /\ mode = MODE_NONE /\ intro_flag = FALSE
    /\ frames = NoAnim /\ current_anim = NoAnim /\ blind = FALSE /\ told = FALSE /\ due = FALSE

\* ffi.rs start() hooks the constructor or fails; a start() that calls tick_patch::install()
\* gets as far as the first of its steps that fails.
start_church ==
    /\ window = "none" /\ ~ctor_hooked /\ patch = 0
    /\ ctor_hooked' \in BOOLEAN /\ patch' \in 0 .. 5
    /\ UNCHANGED <<window, mode, intro_flag, frames, current_anim, blind, told, due>>

\* External: a session begins, after quitting to the menu or from the start; the player is
\* new and the window is built in a recycled block.
constructor(stale) == IF ctor_hooked THEN MODE_NONE ELSE stale

NewSession ==
    /\ \E stale \in StaleModes : mode' = constructor(stale)
    /\ window' = "closed" /\ intro_flag' \in BOOLEAN
    /\ frames' = NoAnim /\ current_anim' = NoAnim
    /\ UNCHANGED <<ctor_hooked, patch, blind, told, due>>

-----------------------------------------------------------------------------
(* The tick.                                                               *)

vanilla(c) == IF c = Intro THEN (IF intro_flag THEN "play" ELSE "switch") ELSE "load"

\* Faulty variant: the mismatch of the intro branch is retargeted, the comparison left alone.
patchedHalf(c) == IF c = Intro THEN (IF intro_flag THEN "play" ELSE "switch") ELSE "load"

\* The patched bytes: only the loop itself is streamed, anything else switches first.
patched(c) == IF intro_flag /\ c = Intro THEN "play" ELSE IF c = Loop THEN "load" ELSE "switch"

anim_player_guard == patch >= 3 => frames # NoAnim

\* switch_animation_hook: the hand-over from the intro is the one the game got right itself.
vanilla_transition == frames # NoAnim /\ current_anim = Intro

Tick ==
    /\ window = "church" /\ mode > 0
    /\ LET does == IF patch >= 1 THEN patched(current_anim) ELSE vanilla(current_anim)
       IN  \/ /\ does = "play"
              /\ intro_flag' \in BOOLEAN       \* the intro is over, or goes on
              /\ UNCHANGED <<frames, current_anim, blind, told, due>>
           \/ /\ does = "load"
              /\ blind' = (blind \/ (anim_player_guard /\ frames # Loop))
              /\ UNCHANGED <<intro_flag, frames, current_anim, told, due>>
           \/ /\ does = "switch"
              /\ told' = (patch >= 2 /\ ~vanilla_transition)
              /\ due' = (patch >= 2 /\ vanilla(current_anim) = "load" /\ frames # Loop)
              /\ frames' = Loop /\ current_anim' = Loop
              /\ UNCHANGED <<intro_flag, blind>>
    /\ UNCHANGED <<ctor_hooked, patch, window, mode>>

-----------------------------------------------------------------------------
(* The windows, external.                                                  *)

OpenChurch ==
    /\ window = "closed" /\ window' = "church"
    /\ UNCHANGED <<ctor_hooked, patch, mode, intro_flag, frames, current_anim, blind, told, due>>

\* set_mode switches the player to an animation of its own.
SetMode(m) ==
    /\ window = "church" /\ mode' = m
    /\ intro_flag' \in BOOLEAN
    /\ \E a \in {Loop, Intro} : (a = Intro => intro_flag') /\ frames' = a /\ current_anim' = a
    /\ UNCHANGED <<ctor_hooked, patch, window, blind, told, due>>

CloseChurch ==
    /\ window = "church" /\ window' = "closed" /\ mode' = MODE_NONE
    /\ UNCHANGED <<ctor_hooked, patch, intro_flag, frames, current_anim, blind, told, due>>

\* The tavern streams behind a check of the current animation and resets the id on closing.
EnterTavern ==
    /\ window = "closed" /\ window' = "tavern"
    /\ frames' = Other /\ current_anim' = Other
    /\ UNCHANGED <<ctor_hooked, patch, mode, intro_flag, blind, told, due>>

CloseTavern ==
    /\ window = "tavern" /\ window' = "closed" /\ current_anim' = NoAnim
    /\ UNCHANGED <<ctor_hooked, patch, mode, intro_flag, frames, blind, told, due>>

ChurchNext ==
    \/ start_church \/ NewSession \/ Tick
    \/ OpenChurch \/ CloseChurch \/ EnterTavern \/ CloseTavern
    \/ SetMode(1)

ChurchSpec == ChurchInit /\ [][ChurchNext]_churchVars

-----------------------------------------------------------------------------

\* With the constructor hooked, or the tick's bytes patched however far the installation
\* got beyond them, no tick of any session streams a frame through NULL or into another
\* building's array; and the evidence file names a switch exactly when the game's own tick
\* would have done so (tick_patch.rs: "anything else is the bug firing").
NeverStreamsBlind ==
    /\ (ctor_hooked \/ patch >= 1) => ~blind
    /\ told = due
=============================================================================
