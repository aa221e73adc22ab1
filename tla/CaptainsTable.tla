---------------------------- MODULE CaptainsTable ----------------------------
(***************************************************************************)
(* The player's captains on the tavern's details page                      *)
(* (mod-tavern-details/src/my_captains.rs and ffi.rs, over p3-ui's page.rs,*)
(* table.rs and detours.rs and p3-api's scroll_list.rs).                   *)
(*                                                                         *)
(* The table is drawn from the fleet in every frame, from the row on that  *)
(* the game's scrollbar points to; the bar was given an area and a count   *)
(* of its own and is attached by the frame's update.  Both are laid out    *)
(* from the same window, by different code.  A click on a header sorts.    *)
(*                                                                         *)
(* Distances are the code's, windows are less high, so that a few captains *)
(* fill one; the window is at the screen's corner, every position being    *)
(* relative to it.  The bar itself is the game's.                          *)
(***************************************************************************)
EXTENDS Integers, Sequences, SequencesExt, FiniteSets, FiniteSetsExt

CONSTANTS
    Applicants,    \* who may be a captain of the merchant's
    ValueOf,       \* column -> captain -> its rank there: a name's place, a skill, a wage
    TAVERN_WIDTH,  \* of the tavern window
    Heights,       \* heights the window opens with
    Clicks         \* where the player clicks, as x

\* A window has room for a row between its header and the lines at its bottom.
ASSUME TableAssumption ==
    /\ IsFiniteSet(Applicants)
    /\ ValueOf \in [1..5 -> [Applicants -> Int]]
    /\ Heights \subseteq {h \in Nat : 76 <= h}

VARIABLES
    chain,          \* the captains in the order of the merchant's ship chain, newest first
    tavern_window,  \* the window: [open, height, page]
    table_hooks,    \* how far start() got
    view,           \* VIEW
    sort,           \* SORT_COLUMN and SORT_REVERSED
    bar             \* the scroll list

tableVars == <<chain, tavern_window, table_hooks, view, sort, bar>>

-----------------------------------------------------------------------------
(* page.rs, table.rs: where rows and columns are.                          *)

ROW_HEIGHT == 16
FIRST_ROW_Y == 12
HIT_SLACK == 6

\* Page::new and reserve_bottom_rows: the bottom row is the hint's.
captains_page == [top |-> FIRST_ROW_Y, last_y |-> tavern_window.height - ROW_HEIGHT - 1 * ROW_HEIGHT]
bottom_row_y == tavern_window.height - ROW_HEIGHT

column_at(x, width) == [x |-> x, width |-> width]
span(column) == <<column.x - column.width, column.x + HIT_SLACK>>

\* my_captains::columns: name, trade, navigation, combat and wage, from the window's right edge inwards.
RIGHT_MARGIN == 12
BAR_WIDTH == 27
BAR_GAP == 8
COLUMN_GAP == 36
NAME_CELL_WIDTH == 120
bar_right == TAVERN_WIDTH - RIGHT_MARGIN
columns ==
    LET pay == bar_right - BAR_WIDTH - BAR_GAP
    IN  <<column_at(pay - 4 * COLUMN_GAP, NAME_CELL_WIDTH)>>
        \o [i \in 1..4 |-> column_at(pay - (4 - i) * COLUMN_GAP, COLUMN_GAP)]

\* A row short of the page's last, so that the bar clears the close button.
captains_table == [last_y |-> captains_page.last_y - ROW_HEIGHT]
row_fits(y) == y <= captains_table.last_y

\* Faulty variant: the area ends where the last row starts.
table_areaShort == [left |-> span(columns[1])[1], top |-> captains_page.top + ROW_HEIGHT, right |-> bar_right, bottom |-> captains_table.last_y]

\* What the bar is laid out against, and where its wheel works.
table_area ==
    [left |-> span(columns[1])[1], top |-> captains_page.top + ROW_HEIGHT, right |-> bar_right,
     bottom |-> captains_table.last_y + ROW_HEIGHT]

\* Table::hit_test: the first column whose span the header click is in; 0 if none.
hit_test(x, y) ==
    LET hit == {i \in DOMAIN columns : span(columns[i])[1] <= x /\ x < span(columns[i])[2]}
    IN  IF captains_page.top <= y /\ y < captains_page.top + ROW_HEIGHT /\ hit # {} THEN Min(hit) ELSE 0

-----------------------------------------------------------------------------
(* my_captains.rs: the rows.                                               *)

COLUMN_NAME == 1

\* compare: names ascending, numbers descending, or reversed.
compare(a, b) ==
    LET v == ValueOf[sort.column]
        natural == IF sort.column = COLUMN_NAME THEN v[a] < v[b] ELSE v[b] < v[a]
        converse == IF sort.column = COLUMN_NAME THEN v[b] < v[a] ELSE v[a] < v[b]
    IN  IF sort.reversed THEN converse ELSE natural

\* The sort is stable: what compares equal stays in the order of the chain.
own_captains ==
    LET place(c) == CHOOSE i \in DOMAIN chain : chain[i] = c
        ahead(c) == {b \in Range(chain) : compare(b, c) \/ (~compare(c, b) /\ place(b) < place(c))}
    IN  [i \in DOMAIN chain |-> CHOOSE c \in Range(chain) : Cardinality(ahead(c)) = i - 1]

\* draw: the header on top, then row under row for as long as one fits.
drawn(first_row) ==
    LET fit == {n \in 1..Cardinality(Applicants) : row_fits(captains_page.top + ROW_HEIGHT + (n - 1) * ROW_HEIGHT)}
    IN  SubSeq(own_captains, first_row + 1, Min({Len(chain), first_row + Cardinality(fit)}))

-----------------------------------------------------------------------------
(* scroll_list.rs: our fields of the bar, and what the game makes of them. *)

NoBar == [attached |-> FALSE, count |-> 0, visible |-> 0, first_row |-> 0, area |-> <<>>]

\* Positions of a bar that counts `count` rows and shows `visible`.
Positions(count, visible) == 0..(IF count > visible THEN count - visible ELSE 0)

\* apply_count: the bar is hidden and given the count, and takes a position within it.
applied(b, count) == {[b EXCEPT !.count = count, !.first_row = p] : p \in Positions(count, b.visible)}

\* set_area and attach_to_root, with the count the bar had.
attached(area) ==
    applied([bar EXCEPT !.attached = TRUE, !.area = area, !.visible = (area.bottom - area.top) \div ROW_HEIGHT],
            bar.count)

set_count(b, count) == IF b.count = count /\ b.attached THEN {b} ELSE applied(b, count)

\* poll: the player may have dragged the thumb or turned the wheel.
poll(b) == {b} \cup {[b EXCEPT !.first_row = p] : p \in Positions(b.count, b.visible)}

Detached == bar' = [bar EXCEPT !.attached = FALSE]

-----------------------------------------------------------------------------
(***************************************************************************)
(* start(): the hooks one after the other, the key registry last.  It ends *)
(* at the first that fails, and the loader keeps what is there.            *)
(***************************************************************************)
Steps == <<"open", "update", "draw", "close", "set_page", "event", "keys">>
Has(hook) == \E i \in 1..table_hooks : Steps[i] = hook

\* Changes in a fleet: a captain is hired for the newest ship, or leaves.
FleetChanges ==
    /\ \/ \E c \in Applicants \ Range(chain) : chain' = <<c>> \o chain
       \/ \E i \in DOMAIN chain : chain' = RemoveAt(chain, i)
    /\ UNCHANGED <<tavern_window, table_hooks, view, sort, bar>>

\* The window opens on its page -1 and may be of another height each time.
open_tavern ==
    /\ ~tavern_window.open
    /\ tavern_window' \in [open : {TRUE}, height : Heights, page : {-1}]
    /\ UNCHANGED <<chain, table_hooks, view, sort, bar>>

\* window_close_hook takes the bar off, for there are no updates to come.
window_close_hook ==
    /\ tavern_window.open /\ tavern_window' = [tavern_window EXCEPT !.open = FALSE]
    /\ IF Has("close") THEN Detached ELSE UNCHANGED bar
    /\ UNCHANGED <<chain, table_hooks, view, sort>>

set_tavern_page ==
    /\ tavern_window.open /\ \E p \in {-1, 0} : tavern_window' = [tavern_window EXCEPT !.page = p]
    /\ UNCHANGED <<chain, table_hooks, view, sort, bar>>

\* The keys are armed on page -1, once there is a registry.
view_hotkeys ==
    /\ tavern_window.open /\ tavern_window.page = -1 /\ Has("keys")
    /\ view' \in {"crew", "missions", "captains"}
    /\ UNCHANGED <<chain, tavern_window, table_hooks, sort, bar>>

\* on_click, behind window_event_hook: another column, or the same one the other way round.
on_click(x, y) ==
    /\ tavern_window.open /\ tavern_window.page = -1 /\ view = "captains" /\ Has("event")
    /\ LET column == hit_test(x, y) IN
       sort' = CASE column = 0 -> sort
                 [] column = sort.column -> [sort EXCEPT !.reversed = ~@]
                 [] OTHER -> [column |-> column, reversed |-> FALSE]
    /\ UNCHANGED <<chain, tavern_window, table_hooks, view, bar>>

\* update, in every frame of the open window, on every page.
update_bar ==
    /\ tavern_window.open /\ Has("update")
    /\ IF tavern_window.page # -1 \/ view # "captains" THEN Detached
       ELSE \E b \in (IF bar.attached THEN {bar} ELSE attached(table_area)) :
                \E c \in set_count(b, Len(chain)) : bar' \in poll(c)
    /\ UNCHANGED <<chain, tavern_window, table_hooks, view, sort>>

TableInit ==
    /\ chain = <<>>
    /\ tavern_window \in [open : {FALSE}, height : Heights, page : {-1}]
    /\ table_hooks \in 0..Len(Steps)
    /\ view = "crew"
    /\ sort = [column |-> COLUMN_NAME, reversed |-> FALSE]
    /\ bar = NoBar

TableNext ==
    \/ FleetChanges \/ open_tavern \/ window_close_hook \/ set_tavern_page \/ view_hotkeys \/ update_bar
    \/ \E x \in Clicks : on_click(x, captains_page.top + 1)
TableSpec == TableInit /\ [][TableNext]_tableVars

-----------------------------------------------------------------------------
(***************************************************************************)
(* Every captain can be scrolled into view.  As long as the bar counts the *)
(* fleet that is drawn, the rows on screen are as many as the bar allows   *)
(* for, so at its last position the last captain is drawn; all of them in  *)
(* the order of the column that is marked.  Rows and bar stay above the    *)
(* hint, and a mod that got only part of its hooks never shows a bar       *)
(* without its table (table_area and draw against the game's bar).         *)
(***************************************************************************)
OnScreen == tavern_window.open /\ tavern_window.page = -1 /\ view = "captains" /\ Has("draw")

InReach ==
    LET shown == UNION {Range(drawn(p)) : p \in Positions(bar.count, bar.visible)}
        rank(c) == ValueOf[sort.column][c]
    IN  /\ shown = Range(chain)
        /\ Len(drawn(bar.first_row)) = Min({bar.visible, Len(chain)})
        /\ \A i \in 1..(Len(chain) - 1) :
              LET a == own_captains[i]  b == own_captains[i + 1] IN
              IF (sort.column = COLUMN_NAME) <=> sort.reversed THEN rank(a) >= rank(b) ELSE rank(a) <= rank(b)

EveryoneIsInReach ==
    /\ OnScreen /\ bar.attached /\ bar.count = Len(chain) => InReach
    /\ bar.attached => /\ bar.area.bottom <= bottom_row_y - ROW_HEIGHT
                       /\ Has("draw") /\ (Has("close") \/ tavern_window.open)
=============================================================================
