---------------------------- MODULE HotkeyScopes ----------------------------
(***************************************************************************)
(* The mods whose keys share the registry, on top of HotkeyRegistry:       *)
(* trading-qol's three groups (src/mod-trading-qol/src/ffi.rs: the global  *)
(* route keys, the office window's keys, the goods dialog's keys), the     *)
(* tavern page's keys (src/mod-tavern-details/src/ffi.rs) and ui-tweaks'   *)
(* town keys (src/mod-ui-tweaks/src/town_cycle.rs), whose handler closes   *)
(* windows while a keystroke is being dispatched.                          *)
(*                                                                         *)
(* A group's owner in the table is the group. Registering or unregistering *)
(* a group is a loop over its keys; each turn of the loop is one step      *)
(* (Turn), and nothing but the loop runs until it is done.                 *)
(***************************************************************************)
EXTENDS HotkeyRegistry

CONSTANTS
    GroupKeys,       \* group -> the sequence of its keys
    CLEAR_ROUTE_KEY, \* DEL, a route key everywhere except in the office window
    CloseChords      \* the global keys whose handler swallows (ALT+F4)

Groups == {"global", "office", "dialog", "page", "tweaks"}
Windows == {"office", "dialog", "page"}
Slots(g) == DOMAIN GroupKeys[g]

ASSUME ScopesAssumption ==
    /\ Owners = Groups
    /\ GroupKeys \in [Groups -> Seq(Keys)]

VARIABLES
    handles, \* per group, the handle kept for each key; 0 when unregistered
    win,     \* the windows on screen; "page" is the tavern window on its -1 page
    hooked,  \* the window hooks trading-qol's start() managed to install
    tasks,   \* the turns of registration loops still to run
    reply,   \* what the running handler will return
    effects  \* history: what the handlers of this keystroke have done

scopeVars == <<handles, win, hooked, tasks, reply, effects>>
vars == <<registryVars, scopeVars>>

Idle == phase = "idle" /\ tasks = << >>

\* start() installs the hooks in this order and returns at the first failure, after
\* the global keys have been registered; the mod stays loaded with what it has. The goods
\* dialog is populated from three call sites, each hooked for itself.
HookOrder == <<"office open", "office close", "goods button", "previous stop", "next stop", "dialog close">>

OpenHooks(w) ==
    CASE w = "office" -> {"office open"}
      [] w = "dialog" -> {"goods button", "previous stop", "next stop"}
      [] OTHER -> {"none"}
CloseHook(w) == CASE w = "office" -> "office close" [] w = "dialog" -> "dialog close" [] OTHER -> "none"

\* The tavern page's hooks belong to another mod and are all there or none is.
Installed(h) == h = "none" \/ h \in hooked

\* Every hook of the window is installed.
Followed(w) == \A h \in OpenHooks(w) \cup {CloseHook(w)} : Installed(h)

-----------------------------------------------------------------------------
(* Groups.                                                                 *)

register_group(g) == [i \in Slots(g) |-> [op |-> "register", group |-> g, slot |-> i]]
unregister_group(g) == [i \in Slots(g) |-> [op |-> "unregister", group |-> g, slot |-> i]]

OpenTurns(w, opener) == IF Installed(opener) THEN register_group(w) ELSE << >>
CloseTurns(w) == IF Installed(CloseHook(w)) THEN unregister_group(w) ELSE << >>

\* Closing windows runs their close hooks one after the other.
CloseHooks(ws) ==
    LET Closing(w) == IF w \in ws THEN CloseTurns(w) ELSE << >>
    IN  Closing("office") \o Closing("dialog") \o Closing("page")

\* One turn of register_group: a stale handle is unregistered first, then the key is
\* registered and the handle (0 on a full table) kept.
RegisterTurn(g, i) ==
    LET cleared == Dropped(entries, handles[g][i])
        full == Len(cleared) = CAPACITY
    IN  /\ entries' = Added(cleared, next_handle, g, GroupKeys[g][i])
        /\ next_handle' = IF full THEN next_handle ELSE next_handle + 1
        /\ handles' = [handles EXCEPT ![g][i] = IF full THEN 0 ELSE next_handle]

\* Faulty variant: the handle is given back but stays in its slot.
UnregisterTurnKeepingSlot(g, i) ==
    /\ entries' = Dropped(entries, handles[g][i])
    /\ UNCHANGED <<handles, next_handle>>

\* One turn of unregister_group: the slot is zeroed and its handle given back.
UnregisterTurn(g, i) ==
    /\ entries' = Dropped(entries, handles[g][i])
    /\ handles' = [handles EXCEPT ![g][i] = 0]
    /\ UNCHANGED next_handle

Turn ==
    /\ tasks # << >>
    /\ tasks' = Tail(tasks)
    /\ LET t == Head(tasks)
       IN  IF t.op = "register" THEN RegisterTurn(t.group, t.slot) ELSE UnregisterTurn(t.group, t.slot)
    /\ UNCHANGED <<hook, win, hooked, reply, effects>>

-----------------------------------------------------------------------------
(* The game's callbacks. Opening a window may close others on the way, and *)
(* the hooks tolerate an open or a close that fires twice.                 *)

HandlesLeft(g) == next_handle + Len(GroupKeys[g]) <= MaxHandle

OpenWindow(w, opener, closing) ==
    /\ Idle
    /\ HandlesLeft(w)
    /\ win' = (win \ closing) \cup {w}
    /\ tasks' = CloseHooks(closing) \o OpenTurns(w, opener)
    /\ UNCHANGED <<registryVars, handles, hooked, reply, effects>>

office_window_open(closing) == OpenWindow("office", "office open", closing)

\* The tavern window opens on its -1 page, and set_page(-1) comes back to it.
page_shown(closing) == OpenWindow("page", "none", closing)

\* Populate closes the dialog it finds open before it opens it again, and the arrows exist
\* in an open dialog only.
dialog_populate(site, closing) ==
    /\ site = "goods button" \/ "dialog" \in win
    /\ OpenWindow("dialog", site, closing \cup (win \cap {"dialog"}))

\* Closing: the office, the dialog, the tavern window or its page.
CloseWindow(w) ==
    /\ Idle
    /\ win' = win \ {w}
    /\ tasks' = CloseTurns(w)
    /\ UNCHANGED <<registryVars, handles, hooked, reply, effects>>

-----------------------------------------------------------------------------
(* Keystrokes.                                                             *)

Press(k) ==
    /\ Idle
    /\ KeyDown(k)
    /\ effects' = {}
    /\ UNCHANGED <<handles, win, hooked, tasks, reply>>

Calls(g) == CallNext /\ Head(matches).owner = g

\* global_hotkeys: a route key acts; DEL refuses while the goods dialog shows a stop.
\* Everything but ALT+F4 is passed on.
global_hotkeys ==
    /\ Calls("global")
    /\ reply' = IF pressed \in CloseChords THEN "swallow" ELSE "decline"
    /\ effects' = IF pressed = CLEAR_ROUTE_KEY /\ "dialog" \in win
                  THEN effects
                  ELSE effects \cup {"global"}
    /\ UNCHANGED <<handles, win, hooked, tasks>>

\* Faulty variant: the office declines like every other handler.
office_hotkeysDeclining ==
    /\ Calls("office")
    /\ reply' = "decline"
    /\ effects' = effects \cup {"office"}
    /\ UNCHANGED <<handles, win, hooked, tasks>>

\* office_hotkeys: the key belongs to the window even when the action refuses.
office_hotkeys ==
    /\ Calls("office")
    /\ reply' = "swallow"
    /\ effects' = effects \cup {"office"}
    /\ UNCHANGED <<handles, win, hooked, tasks>>

\* Faulty variant: a refreshed dialog's keys are not registered anew.
dialog_hotkeysDisarming(refresh) ==
    /\ Calls("dialog")
    /\ reply' = "swallow"
    /\ refresh => "dialog" \in win /\ HandlesLeft("dialog")
    /\ effects' = IF "dialog" \in win THEN effects \cup {"dialog"} ELSE effects
    /\ tasks' = IF refresh THEN CloseTurns("dialog") ELSE << >>
    /\ UNCHANGED <<handles, win, hooked>>

\* dialog_hotkeys: the key belongs to the dialog. When it changed the stop, the dialog
\* is populated again, which runs the close hook, and its keys are registered anew.
dialog_hotkeys(refresh) ==
    /\ Calls("dialog")
    /\ reply' = "swallow"
    /\ refresh => "dialog" \in win /\ HandlesLeft("dialog")
    /\ effects' = IF "dialog" \in win THEN effects \cup {"dialog"} ELSE effects
    /\ tasks' = IF refresh
                THEN CloseTurns("dialog") \o register_group("dialog")
                ELSE << >>
    /\ UNCHANGED <<handles, win, hooked>>

\* page_hotkeys switches the page's view and declines.
page_hotkeys ==
    /\ Calls("page")
    /\ reply' = "decline"
    /\ effects' = effects \cup {"page"}
    /\ UNCHANGED <<handles, win, hooked, tasks>>

\* cycle_town_hotkey / go_home_hotkey: decline outside a town, otherwise close the open
\* windows (each may veto) and enter the other town.
town_hotkey(act, closing) ==
    /\ Calls("tweaks")
    /\ closing # {} => act
    /\ reply' = IF act THEN "swallow" ELSE "decline"
    /\ effects' = IF act THEN effects \cup {"tweaks"} ELSE effects
    /\ win' = win \ closing
    /\ tasks' = CloseHooks(closing)
    /\ UNCHANGED <<handles, hooked>>

HandlerReturns ==
    /\ tasks = << >>
    /\ IF reply = "swallow" THEN Swallow ELSE Decline
    /\ UNCHANGED scopeVars

KeyPassedOn == PassOn /\ UNCHANGED scopeVars

-----------------------------------------------------------------------------
\* The global groups are registered by start(), before any window can open.
Init ==
    /\ RegistryInit
    /\ handles = [g \in Groups |-> [i \in Slots(g) |-> 0]]
    /\ win = {}
    /\ \E n \in 0 .. Len(HookOrder) : hooked = {HookOrder[i] : i \in 1 .. n}
    /\ tasks = register_group("global") \o register_group("tweaks")
    /\ reply = "decline"
    /\ effects = {}

Callback ==
    \/ \E closing \in SUBSET win :
         \/ office_window_open(closing) \/ page_shown(closing)
         \/ \E site \in OpenHooks("dialog") : dialog_populate(site, closing)
    \/ \E w \in Windows : CloseWindow(w)

Handler ==
    \/ global_hotkeys
    \/ office_hotkeys
    \/ \E refresh \in BOOLEAN : dialog_hotkeys(refresh)
    \/ page_hotkeys
    \/ \E act \in BOOLEAN, closing \in SUBSET win : town_hotkey(act, closing)

\* No handler here both unregisters keys and declines, so no match goes stale: SkipStale
\* has no step, and a walk that needed it would deadlock.
HookStep == Handler \/ HandlerReturns \/ KeyPassedOn

ScopesNext ==
    \/ Turn
    \/ Callback
    \/ \E k \in Keys : Press(k)
    \/ HookStep

ScopesSpec == Init /\ [][ScopesNext]_vars

-----------------------------------------------------------------------------
(* Properties.                                                             *)

KeysOf(g) == {GroupKeys[g][i] : i \in Slots(g)}
Held(g, i) == handles[g][i] # 0

\* "A double-fired open cannot orphan" a registration (ffi.rs): every registration in
\* the table is reachable through the one slot that can give it back, and every handle
\* kept is a registration - on a full table, in the middle of a loop and with any of
\* the window hooks missing.
NoOrphans ==
    /\ \A n \in DOMAIN entries : \E i \in Slots(entries[n].owner) :
         /\ handles[entries[n].owner][i] = entries[n].handle
         /\ GroupKeys[entries[n].owner][i] = entries[n].key
    /\ \A g \in Groups : \A i \in Slots(g) : Held(g, i) => Registered(handles[g][i])

\* Window-scoped keys are registered exactly while their window is on screen: what a
\* window claims comes back to the global keys when it closes, whoever closed it - as long
\* as the window's own hooks are there, whichever others start() has not come to.
ScopesFollowWindows ==
    tasks = << >> =>
        \A w \in Windows : Followed(w) => \A i \in Slots(w) : Held(w, i) <=> w \in win

\* The global route keys yield to an open window's: a key an open office or dialog
\* claims never reaches the route handler, so a press in the office cannot build or
\* clear a ship's route.
WindowsShadowRouteKeys ==
    [][\A w \in win \cap {"office", "dialog"} :
        Followed(w) /\ "global" \in effects' \ effects => pressed \notin KeysOf(w)]_vars
=============================================================================
