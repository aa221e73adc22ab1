---------------------------- MODULE SceneWindows ---------------------------
(***************************************************************************)
(* Windows of the mods' own in the game's window system                    *)
(* (p3-api/src/ui/custom_window.rs, scroll_list.rs), as the configuration  *)
(* window of mod-trading-qol and the captains table of mod-tavern-details  *)
(* use them.                                                               *)
(*                                                                         *)
(* What is on screen are the children of the scene on top of the window    *)
(* stack, later ones above earlier ones; a window and its scrollbar are    *)
(* both direct children of it.  A list of open windows says which of them  *)
(* ESC, a right-click or another window that opens may close.  The mods    *)
(* remember beside that whether their window is open and their bars are    *)
(* attached.                                                               *)
(***************************************************************************)
EXTENDS Naturals, Sequences, SequencesExt, FiniteSets

CONSTANTS
    Scenes, Menu,  \* scenes windows open in; a full-screen menu
    Scene0         \* the scene a session starts in

ASSUME ScenesAssumption == Scene0 \in Scenes /\ Menu \notin Scenes

VARIABLES
    scene,         \* the scene on top of the stack
    children,      \* scene -> its children, bottom to top
    openList,      \* the open-window list
    built,         \* config_window's WINDOW is built
    open,          \* its State.open
    listAttached,  \* FIELD_ATTACHED of its scroll list
    barAttached,   \* FIELD_ATTACHED of the captains table's bar
    page, captains \* the tavern's page, and whether its view is the captains'

windowVars == <<scene, children, openList, built, open, listAttached, barAttached,
                page, captains>>

WindowsInit ==
    /\ scene = Scene0
    /\ children = [s \in Scenes \union {Menu} |-> <<>>]
    /\ openList = {}
    /\ built = FALSE
    /\ open = FALSE
    /\ listAttached = FALSE
    /\ barAttached = FALSE
    /\ page = -1
    /\ captains = FALSE

\* The others in their order: SelectSeq as a function over the positions.
Remaining(s, these) ==
    LET upTo[n \in 0..Len(s)] ==
            IF n = 0 THEN <<>> ELSE IF s[n] \in these THEN upTo[n - 1] ELSE Append(upTo[n - 1], s[n])
    IN  upTo[Len(s)]

\* CONTAINER_REMOVE and CONTAINER_ADD on the scene on top.
without(kids, these) == [kids EXCEPT ![scene] = Remaining(@, these)]
placed(kids, these) == [kids EXCEPT ![scene] = Remaining(@, Range(these)) \o these]

(***************************************************************************)
(* close_trampoline: off the list, the widgets in reverse, out of the      *)
(* scene, and the content is told.  The tavern's own close is the game's;  *)
(* the hook after it takes the bar off.                                    *)
(***************************************************************************)
\* Faulty variant: the window leaves, its widgets stay.
widgetsForgotten(w) == {}

widgetsOf(w) == IF w = "config" THEN {"list"} ELSE {"bar"}

closed(st, w) ==
    [kids |-> without(st.kids, {w} \union widgetsOf(w)),
     open |-> st.open /\ w # "config",
     list |-> st.list /\ ~("list" \in widgetsOf(w)),
     bar  |-> st.bar /\ ~("bar" \in widgetsOf(w)),
     shown |-> st.shown \ {w}]

current == [kids |-> children, open |-> open, list |-> listAttached, bar |-> barAttached,
            shown |-> openList]

Becomes(st) ==
    /\ children' = st.kids
    /\ open' = st.open
    /\ listAttached' = st.list
    /\ barAttached' = st.bar
    /\ openList' = st.shown

\* 0x00462280: every open window is asked and closed; only the tavern may
\* refuse, and not when it is forced.
closedAll(force) ==
    LET both(st) == closed(closed(st, "config"), "tavern")
        some(st) == IF "config" \in st.shown THEN closed(st, "config") ELSE st
    IN IF openList = {"config"} THEN {some(current)}
       ELSE IF openList = {} THEN {current}
       ELSE {both(current)} \union (IF force THEN {} ELSE {some(current)})

(***************************************************************************)
(* GameWindow::open: the other windows are closed, the window joins the    *)
(* scene, its widgets after it (attach_to_root), and the list.  Without a  *)
(* scene nothing is joined.  toggle() builds the window the first time.    *)
(***************************************************************************)
opened == {[st EXCEPT !.kids = placed(st.kids, <<"config", "list">>),
                      !.open = TRUE, !.list = TRUE,
                      !.shown = @ \union {"config"}] : st \in closedAll(FALSE)}

toggle ==
    /\ scene # Menu
    /\ built' = TRUE
    /\ \E st \in (IF open THEN {closed(current, "config")} ELSE opened) : Becomes(st)
    /\ UNCHANGED <<scene, page, captains>>

\* ESC and a right-click elsewhere close the topmost window.
Escape ==
    /\ openList # {}
    /\ \E w \in openList : Becomes(closed(current, w))
    /\ UNCHANGED <<scene, built, page, captains>>

\* The game opens the tavern, always on its details page.
OpenTavern ==
    /\ scene # Menu
    /\ "tavern" \notin openList
    /\ \E st \in closedAll(FALSE) :
         Becomes([st EXCEPT !.kids = placed(st.kids, <<"tavern">>),
                            !.shown = @ \union {"tavern"}])
    /\ page' = -1
    /\ UNCHANGED <<scene, built, captains>>

(***************************************************************************)
(* my_captains::update, on every frame of the open tavern: the bar is      *)
(* attached exactly while its view is on screen.                           *)
(***************************************************************************)
update ==
    /\ "tavern" \in openList
    /\ LET active == page = -1 /\ captains IN
       IF active /\ ~barAttached
       THEN Becomes([current EXCEPT !.kids = placed(children, <<"bar">>), !.bar = TRUE])
       ELSE IF ~active /\ barAttached
       THEN Becomes([current EXCEPT !.kids = without(children, {"bar"}), !.bar = FALSE])
       ELSE UNCHANGED <<children, open, listAttached, barAttached, openList>>
    /\ UNCHANGED <<scene, built, page, captains>>

SetPage ==
    /\ "tavern" \in openList
    /\ page' \in {-1, 0}
    /\ UNCHANGED <<scene, children, openList, built, open, listAttached, barAttached, captains>>

PageKey ==
    /\ "tavern" \in openList
    /\ page = -1
    /\ captains' \in BOOLEAN
    /\ UNCHANGED <<scene, children, openList, built, open, listAttached, barAttached, page>>

(***************************************************************************)
(* The game changes the scene on top, or goes into a menu, after closing   *)
(* every window.  Quitting to the main menu from there destroys what is    *)
(* left without closing it.                                                *)
(***************************************************************************)
ChangeScene ==
    /\ scene' \in (Scenes \union {Menu}) \ {scene}
    /\ \E st \in closedAll(TRUE) : Becomes(st)
    /\ UNCHANGED <<built, page, captains>>

QuitToMenu ==
    /\ scene = Menu
    /\ children' = [s \in Scenes \union {Menu} |-> <<>>]
    /\ openList' = {}
    /\ UNCHANGED <<scene, built, open, listAttached, barAttached, page, captains>>

WindowsNext ==
    \/ toggle \/ Escape
    \/ OpenTavern \/ update \/ SetPage \/ PageKey
    \/ ChangeScene \/ QuitToMenu

WindowsSpec == WindowsInit /\ [][WindowsNext]_windowVars

-----------------------------------------------------------------------------
(***************************************************************************)
(* Nothing of a closed window stays on screen, and nothing is drawn under  *)
(* the window it belongs to: a bar is a child of a scene only while its    *)
(* window is open there, above it; and what the mods remember of their     *)
(* window and bars is what the scene holds, also after windows closed by   *)
(* ESC, by each other, and after a session quit ("harmless, because the    *)
(* settings screen closes building windows before it opens").              *)
(***************************************************************************)
place(c) == CHOOSE i \in 1..Len(children[scene]) : children[scene][i] = c
shownIn(s) == Range(children[s])

NothingLeftBehind ==
    /\ \A s \in Scenes \union {Menu} : s # scene => children[s] = <<>>
    /\ shownIn(scene) \intersect {"config", "tavern"} = openList
    /\ open = ("config" \in shownIn(scene))
    /\ listAttached = ("list" \in shownIn(scene))
    /\ barAttached = ("bar" \in shownIn(scene))
    /\ listAttached => open /\ place("config") < place("list")
    /\ barAttached => "tavern" \in openList /\ place("tavern") < place("bar")
=============================================================================
