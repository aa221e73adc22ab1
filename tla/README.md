# Verification of p3-lib

p3-lib is a set of Rust libraries and mods for Patrician 3: 32-bit DLLs that a loader
brings into the game's process, that hook the game's routines and read and write its
memory. This directory holds TLA+ models of the parts that keep state and act on it, the
TLC configurations that check them, and proofs checked by the TLA+ proof system. Paths are
relative to the repository.

## The system

Almost everything runs on one thread, the game's. The exceptions are the multiplayer locks
(a session's thread), the remote agent (a server thread and one per client), the profiler of
the texture cache (a patcher and a sampler beside the game) and the crash reporter (any
thread of the process). A mod's code runs when the loader calls its `start()`, when the game
calls a routine the mod has hooked, and when the hotkey registry calls a handler. Most hard
behaviours are therefore not races but *re-entrance* (a handler opens a window whose hook
registers keys while the registry is dispatching), *order* (what runs before the original
routine and what after it), *deferral* (operations enqueued now and executed later),
*staleness* (a name, a handle, a path, an address or a pool index kept from an earlier
moment), *limits* (table slots, window rows, name bytes, tallies) and *partial failure* (hooks
installed up to the first that fails, files written beside a file that was not).

| Component | State it keeps | Operations | Interacts with | Correct when |
|---|---|---|---|---|
| Hotkey registry (`mod-hotkey-registry`) | table of (handle, key, handler), next handle | `hotkeys_register`, `hotkeys_unregister`, keyboard hook | every mod with keys, through `p3-api/src/hotkeys.rs` | newest registration wins, a key is offered to exactly what is registered, nothing is called after it has been unregistered |
| Key scopes (`mod-trading-qol/src/ffi.rs`, `mod-tavern-details/src/ffi.rs`, `mod-ui-tweaks/src/town_cycle.rs`) | the handles of each group | window open, populate, close, page hooks; the handlers | registry, the game's windows, each other through closing windows | a window's keys are registered exactly while it is open, and none is ever lost |
| Locked amounts (`locked_amounts.rs`, `sidecar.rs`) | amounts per town and ware, number boxes, captured save path, a `.qol` file per save | window open, close, save and load brackets, the auto-trader's question what it may take | the game's save and load routines, its files | amounts travel with the save they were made with; ships leave what the box shows |
| Office orders (`office.rs`, `prices.rs`) | orders, locks and boxes of an office | setup, both provisions, reset, prices | the office window | a provision covers its town, other offices are left alone |
| Order synchronisation (`sync.rs`, `mod-trading-office-prices-synchronization`) | selected rows | the copy to the other offices, at once or enqueued when the window closes | office orders, operations queue | what another office's administrator was told to do is not turned round |
| Goods dialog (`goods_dialog.rs`) | the stop on display | setup, reprice, load quantities, price boxes | stop pool, the dialog's own clean-up | what F1 set up stays instructions, whatever row was pending |
| Route keys (`routes.rs`, `p3-rou/src/builder.rs`) | the ship's chain of stops, its name, active flag, queued operations | F1-F4, DEL and their modifiers | the game's route loader, its operations queue, the thaw hook | a route reads back as what was written, fits the window, its name tells its towns, its laps leave a target with its supplies |
| Thaw (`thaw.rs`) | none | the unfreeze task's hook | ship names, operations queue | restarts the ships that serve the port |
| Crew rescue (`crew_rescue.rs`) | the creator's address | three note sites | hire and activate operations | a note is suppressed only if the route runs again |
| Windows of mods (`p3-api/src/ui/custom_window.rs`, `scroll_list.rs`, `config_window.rs`) | window, scroll lists, which of them a scene holds | open, toggle, close, attach, detach | the game's window stack and scenes | a scene left behind keeps none of their widgets |
| Ship keys (`mod-ui-tweaks`) | none | strip, repair, sailors, skip a stop | operations, at once or enqueued | strip leaves a bare ship, which stays bare in the yard unless a hire was enqueued before |
| Route files (`p3-rou`, `mod-fix-uncompressed-trade-route-loading`) | a file | describe, write, compress, decompress, print | the game's loader | a file means what was asked for |
| Captains (`mod-fix-captain-retire-hang`) | task, flag, ships' captains | retirement task, ten-day scan | scheduled tasks | the handler never searches, nobody becomes unretireable |
| Church animations (`mod-fix-church-anim-crash`) | window mode, the shared player | constructor hook, dormant tick patch | church and tavern windows | no frame is streamed into a missing array |
| Harbour fill (`mod-fix-harbor-fill-oob`) | map, fill stack | flood fill | town view | fills its region and stays on the map |
| Flight (`mod-battle-always-flee`) | ships sampled, battle announced | step hooks | sea battles | a hit ship of the player's runs |
| Multiplayer locks (`mod-fix-multiplayer-locks`) | two lock words; the mode of the game | lock, try, unlock around the game's sections, the drain's ending | the game's thread, the session's thread, the operations queues | one thread in a section, no operation lost or overtaken, no unlock panics, the spinning ends |
| Texture cache (`mod-fix-texture-cache-thrash`) | one limit; the profiler's counters | wait and raise; counting hooks, sampler, log | the library's budget, three threads | raised once; counters add up, nobody deadlocks |
| Pages and tables (`p3-ui`, `mod-*-details`) | renderer state, sort, scroll list | draw, header click, scroll | the game's windows and renderer | every text in its own ink, every captain in reach |
| Crash reporter (`mod-crash-reporter`) | last report, log file; the list watch | vectored handler, unhandled filter; walk, repair, breakpoint | every thread of the process, d3d9 | marks name their report, a death is told, broken links are healed |
| Window probe (`mod-debug-window-lifecycle`) | last page seen | hooks on windows | the game's windows | a page reported as changed outside all hooks was, or hooked methods nested |
| Remote agent (`p3-agent`, `p3-agent-loader`) | status, context, channel; a convoy's next action | start, serve, tick, stop; the hub shuttle | TCP clients, the game's tick | stop comes back, convoys that are not diverted keep shuttling |
| Operations (`p3-api/src/operation.rs`) | none | encode | queues, other machines of a session | two orders that differ are never the same bytes |
| File tools (`p2mcli`, `navpointmatrixcli`, others) | none | lint a script, build the navpoint matrix, convert formats | the game's files | reports are true, paths arrive |
| Loader, resolutions, single patches, other bindings | - | - | - | see "Not modelled" |

## Modules

| Module | What it is |
|---|---|
| `HotkeyShadowing` | What the registry promises: live registrations, and a keystroke offered to the newest first |
| `HotkeyRegistry` | The table and the keyboard hook; parameterised by owners, keys, capacities |
| `HotkeyScopes` | The mods' groups of keys on top of `HotkeyRegistry` (which it extends, so that a handler's registrations and the walk interleave as they do in the code) |
| `TravellingAmounts` | What store and sidecar promise: every reliable save keeps the amounts that were on screen when it was made |
| `LockedAmounts` | Store, boxes, save and load brackets, files, crashes |
| `OfficeOrders` | Orders of the offices, the keys, both synchronisations, the operations queue |
| `GoodsDialog` | A stop record under the dialog, with a row being typed in and clean-ups enqueued |
| `RouteTemplates` | One ship, its route as a chain of pool records, the keys, the queue, thawing ports |
| `RouteBuilder`, `SupplyRoute` | The stops the builder makes; what they do to ship and offices on a lap |
| `RouteFiles` | The command line of `p3-rou` and the decoder of the loader it writes for |
| `TourOrder` | Nearest neighbour and 2-opt, one comparison per step |
| `OperationLocks` | The two spin locks, the game's thread and the session's threads in the sections they guard |
| `CaptainRetirement` | The retirement hook between the game's scan and handler, while captains come and go |
| `CrewRescue` | The note hook between the ships tick, the hire operation, a tavern and the player |
| `SceneWindows` | Windows and scroll lists of mods in the game's scenes |
| `ShipKeys` | The keys of ui-tweaks for one ship, over the operations queue |
| `OperationCodec` | Operations as the twenty bytes they are sent as |
| `ChurchAnimations`, `HarborFill`, `BattleFlight` | The three fixes of that name |
| `CrashReporter`, `ListWatch` | Exception handlers of several threads; the watch over the device's resource list |
| `TextureProfiler`, `LifecycleProbe` | The budget's patcher and the profiler's three threads; the window probe |
| `RemoteAgent`, `HubRoutes` | Server, clients and game thread; the shuttle between hub and satellite |
| `CaptainsTable`, `PageDrawing` | The scrolled table of captains; pages drawn through one renderer |
| `MissionLint`, `NavpointMatrix` | The linter beside the interpreter it judges for; the ships' table of first hops |
| `HotkeyProofs`, `OfficeProofs`, `RouteProofs`, `PartsProofs` | Theorems about `HotkeyRegistry`, `HotkeyScopes` and `ListWatch`; about `LockedAmounts`, `OfficeOrders` and `GoodsDialog`; about `RouteTemplates`, `HubRoutes` and `RemoteAgent`; about `TourOrder`, `CrashReporter`, `ChurchAnimations`, `HarborFill`, `TextureProfiler`, `LifecycleProbe`, `MissionLint`, `PageDrawing`, `SceneWindows`, `NavpointMatrix` and `ShipKeys` |
| `RouteFileProofs`, `OperationLocksProofs`, `CrewProofs` | Theorems about `RouteFiles` and `SupplyRoute`; about `OperationLocks`, `OperationCodec` and `BattleFlight`; about `CaptainRetirement`, `CaptainsTable` and `CrewRescue` |
| `Induction` | Induction over numbers from the well-foundedness of finite sets, what it says of recursive functions, sums over finite sets and finite sets in a row; for the proofs of routes, cargoes, pages, tours, windows and captains |
| `HotkeyScopesMC`, `RouteTemplatesMC`, `CrewRescueMC`, `CrashReporterMC` | Constants for one component |
| `OfficeMC`, `PartsMC`, `ProgressMC` | Suites: several components, each on an instance given there |

A suite's components share no state. Its variable `component` is chosen in the initial state
and says which one a behaviour runs; the others keep their initial values. The suite's
properties are the components', named in the comment above each. Their state spaces add up
and do not multiply.

Operators whose comment begins with "Faulty variant" are not part of a model: each is a
plausible error in the operator defined after it. Checking the run's properties with the variant in its
place finds the property violated, which shows that the property depends on the code doing
what it does.

## How state and actions correspond

### The registry

`entries` is the used part of `Table::entries` (slots `0 .. len-1`), `next_handle` is
`Table::next_handle`. A key is an exact (vk, modifiers) pair, a handler is its owner.
`keyboard_hook` is split where foreign code runs: `KeyDown` takes the snapshot, `SkipStale`
and `CallNext` are the turns of the loop, `Decline` and `Swallow` the handler's two answers,
`PassOn` is `CallNextHookEx`. Between `CallNext` and the handler's answer any number of
registrations and removals can happen (`Consumer`), which is the re-entrance the snapshot
and the recheck exist for. Autorepeat and releases are `OtherKeyEvent`.

### Key scopes

A group's registration loop is a queue of `tasks`, one key a turn. `OpenWindow`,
`CloseWindow` are the game's callbacks with trading-qol's and tavern-details' hooks around
them; opening a window may close any of the others on the way. `hooked` holds the hooks
`start()` installed before it gave up, which is any prefix of their order. The handlers say
what they answer and which group acted (`effects`); what the action does to office or
route is not repeated here. `dialog_hotkeys(TRUE)` is a price key that populates the dialog
again from inside the handler; `town_hotkey` closes windows from inside the handler.

### Locked amounts

`store` is `STORE`, `boxes` the number boxes, `pat` and `sidecar` the files by name of the
save. `save_hook` is the code up to the game's handler; `Deferred`, `OpenFails`,
`file_open_hook` and `GameWrites` are what the handler may do; `write_sidecar` and
`NothingWritten` are the rest of the bracket. `Restart` may come between any two of them.
A write cut short leaves any subset of the lines, and amounts missing digits (`Shortened`).
`load_hook`, `LoadsWithout` and `LoadFails` are the load bracket's outcomes. `carried` and
`paired` remember what the store was when a save was written and which saves got their
sidecar with them; they exist for the properties.

### Route keys

`chain` is the ship's ring of pool records starting anywhere, with `first` for the marker
bit and `head` for the stop the ship is headed for; `Current` reads it the way
`read_ship_route` does. A stop is its town and its `role`; quantities and prices are
abstracted to the role, and the load of the home stop to the set of towns it is for
(`cargo`). `on_route_hotkey` is a whole key press: source of home and targets, template,
clamp, marker, loader, rename. `on_clear_route_hotkey` enqueues; `Execute` works off the
queue. Town names are their codes.

### Tour ordering

`Compare` is one turn of the inner loop, `EndPass` the end of the outer one. Distances are
any symmetric matrix over `Lengths`. `Return` is the choice between discovery order and
the improved tour.

### Multiplayer locks

`lock`, `try_lock` and `unlock` are the routines of `lib.rs` with the test of the game's mode
that `ffi.rs` puts around the last; both queues are the game's. A section is lock, a read
into `copy`, a write computed from that copy, unlock, each a step of its own, so that a
section that is not alone loses what somebody else wrote. The game's thread inserts (between
drains and from inside one) and drains; `DrainResets`, `DrainUnlocks` and `TransferRoute` are
`execute_operations_unlock_current` in its order: position, lock, loaded route. A session's
thread is a host's (`Host...`) or a client's (`Client...`). In a single player game
`lock_site` may pass the lock by, because whether a patched instruction sits behind the game's
own test for a session cannot be read off the repository; the comment on the unlock routines
says that some do and some do not. `underway` is everything between two queues, the wire
included: it delivers once and in order, as the game's transport is taken to.

### Captain retirement

`tasks` are the scheduled tasks of opcode `0x27`, `flag` is `auto_trader+0xE`, `captain` the
captain index of each ship; a ship with a live merchant is one not in `ownerless`.
`retire_handler_hook` is the whole hook, `original` the game's handler at the moment the hook
calls it: it re-reads the task, so the repaired ship index is an argument. Its endless search
is the variable `searching`, after which nothing moves, as in the hang. `Scan` is both
scheduling paths of the game (the operation a human owner's captain goes through is executed
within the tick and not a step of its own). Between scan and handler captains are dismissed,
drowned, hired again on any ship, ships change owners and convoys form.

### Crew rescue

`crew` is the crew word of each ship, `route` what its auto-trader does, `told` the ships
whose note has reached the player. `Stalls` is the ships tick stopping a route and calling the
hook within the same step, as the code does: `route_note_hook` either lets the note pass
(`Files`) or hires and starts the route again (`HireSailors`, `Resumes`). `unmet` stands for
every other clause of the two predicates. The berths are the type's full crew, or more with
cargo aboard; the hire operation clamps to them and to the tavern, and is told nothing of why
it is asked. A lone ship's note is filed for the crew alone, a lead's for any unmet requirement
and on any tick, at sea as well.

### Office orders and their synchronisation

An order is a price level (negative to buy, 0 for none) and an amount in raw units per office
and ware; `locked` and `admin` are the lock and whether an administrator obeys. `boxes` is
what the window's number boxes show: the window commits the focused one on its own
(`CommitBox`), before or after a key. `on_setup_hotkey`, `provision_and_lock` (staples and
building materials), `on_reset_office_hotkey`, `apply_prices` and `on_price_widget_key` act at
once, as does `on_sync` with the rows selected; `CloseWindow` is the other mod, which enqueues
one operation per office and ware for the game to execute later (`ExecuteOperation`), each with
the amount the other office has when the window closes. `covered` remembers what a provision was
made for, `overtaken` which of it was provisioned while an older operation for that office and
ware was still waiting: executed, that one puts the old amount back (`ExecuteOperation` takes the
pair out of both). Every other operation has to leave a provision alone.

### Goods dialog

`stops` are the records with price and amount per ware and the order the wares are in;
`rowBoxes` is what the dialog shows, `row` the row being typed in, `cleanUp` the clean-ups it has
enqueued. The dialog (external) commits the row when it is left, closed or populated, and the
record's order at *that* moment says which ware the row stands for (`Committed`): a key that
populates the dialog again after it has written a new order moves the pending edit
(`refresh_goods_dialog`). Whether a clean-up, when executed, looks again if its slot is unused is
not to be read off the source; `CleanSlot` may do either. `setUp` remembers the slots F1 turned
into instructions, `raced` those of them whose clean-up was under way at that moment.

### Supply routes and route files

`RouteBuilder` has the stops of `p3-rou/src/builder.rs` with their prices, amounts and order
of wares. `SupplyRoute.on_route_hotkey` builds the baskets of `routes.rs` from them, for a week
first and then for the lap those stops take; `Serve` is the game's executor at one stop, all
unloading and selling first, then what the hold has room for, ware by ware in the stop's
order. `RouteFiles` describes or writes a route as the command line does (`generate`,
`write_route`), lets the game save it compressed (`GameSaves`: every choice of copies its
format permits) and reads it back (`decompress`, `dump`). Integers have a width (`WORD`), so
that amounts can scale beyond it or to the sentinel.

### Windows, ship keys, operations

`SceneWindows` keeps the children of each scene in their order, the list of open windows and
what the mods remember about their own window and bars; ESC, the menu, another scene and other
windows close behind their backs. `ShipKeys` keeps one world of ships, stores and tavern:
`strip_ship_hotkey` executes its operations one by one on the spot, the other keys `enqueue`
theirs and `Drain` executes them whatever has become of the ship; an operation whose guard
fails does nothing, and a repair is refused when the money is short (`purse`). `laidUp` remembers
the ships a strip has brought to the yard without a hire waiting for them. `OperationCodec.to_raw` lays out every variant byte by byte, later writes
over earlier ones.

### The three fixes

`ChurchAnimations`: `ctor_hooked` and `patch` say which of the two fixes is installed and how far;
`Tick` is the church window's tick with the vanilla or the patched choice and the guards
that are in place; `constructor` may find anything in a recycled heap block. `HarborFill`: the
recursion is the sequence `calls`, and `in_range` is asked at the entries that are detoured.
`BattleFlight`: `step` is the game's step of one ship between the hook's two halves;
`SAMPLED` holds addresses, and `NextBattle` builds other ships at the same ones. At courage 0 a
ship runs for certain only from a side that has guns (`gunned`, which `LoseGuns` takes away), as
the mod's README has it; from another it may run or stay.

### Crash reporter and probes

`CrashReporter` has a program counter per thread: an exception enters by the vectored handler,
may be swallowed by a frame (external) and otherwise comes again through the unhandled filter.
The routine's parts are actions of their own (`Skip`, `Bail`, `Enter`, `Decide`, `Mark`,
`write_report`, `Leave`), so that two threads interleave in it; `NestedFault` is memory that
was found readable and is gone when the report reads it. `silent` remembers the threads whose
report was not written. `ListWatch` has d3d9's list with its broken back links, and the
watch's walk, repair, data breakpoint and hit buffer; `Lower` is the unknown writer. The search
for the device (`d3d9_device`) may find a device that is gone, or none, and then the sample is over
(`NoDevice`); a list whose first node is wild has no node counted and is reported as nothing
(`nothingCounted`). The watch is on no key in this build: a comment in `probes.rs` (59-61) says its
toggle is not bound. `Toggle` is the function that a key would call, and the run says what the watch
does once it is on.
`LifecycleProbe` nests the methods of the tavern window on a stack (`callStack`), with any prefix
of the probe's hooks installed; `set_page` remembers the page at entry, and the page is written
when the method returns (`SetPageReturns`). An update called inside another hooked method
therefore reports a page that nobody missed; `overlap` remembers that it was so. `TextureProfiler` has three threads with program counters and two
mutexes; `counted` is what happened, for comparison with what the block shows.

### Remote agent

`RemoteAgent` separates the loader's thread, a server per `start()`, a thread per client and the
game's tick; `CONTEXT`'s mutex is `lock`. `HubRoutes` runs one satellite's convoy through its
three actions over the offices' raw amounts. In between, at any time, the player may order the
convoy elsewhere, in port or at sea; it may be damaged, lost, and found again wherever another
ship has its name; offices are emptied, given up (the handlers unwrap theirs: `panics`) and built.
`diverted` remembers that the last order was the player's and not what the route needs: such a
convoy stands, since every handler returns in a foreign port and sends it nowhere. The other
satellites' convoys are among those that empty the hub (`Live`).

`p3-agent` is commented out of the workspace (`Cargo.toml`, line 44), its loader is not: what is
said here is about the crate as it lies in the repository, built on its own.

### Pages

`CaptainsTable` computes rows and bar from the window's height by the code's own two ways and
lets the fleet change under the bar; a click hits a column by its span. `PageDrawing` follows
colour, alignment and face through every call of a page and records what came out in `ink`.

### Tools

`MissionLint` runs each script through the interpreter (external) and compares with what the
linter says of it. `NavpointMatrix` builds the table from a map with up to `MaxLand` fields of
land, reads it back, builds it again and walks it.

## Runs

| Run | What it shows | Bounds and why they are enough |
|---|---|---|
| `registry` | Every keystroke ends (`KeystrokeEnds`); the walk under re-entrance implements `HotkeyShadowing` | Few slots so that the table fills, fewer matches than slots so that the snapshot overflows; handles enough for a registration to be replaced during a walk. Handles are the only unbounded counter |
| `scopes` | `ScopesFollowWindows`, `WindowsShadowRouteKeys`, with any of the hooks missing | One key per class of key (shared by three groups, by two, by none). Handles for every window opening at least twice; the table never fills |
| `office` | `TravellingSpec` (refinement), `LoadRestores`, `ShipsLeaveWhatTheBoxShows`, `ProvisionsCover`, `OthersKeepTheirOrders`, `SetupHolds` | Two save names with one town, because every hazard of files is about a path or a file of the *other* save; two towns with one save for boxes of the *other* office; a ware that one of two offices produces; a requirement that is no multiple of a unit; a dialog stop with a ware F1 buys and one it does not |
| `routes` | `ReadingIsStable`, `RebuildKeepsTheRoute`, `NameNamesTheRoute` | Three towns (one without office, one producing), 5 rows instead of 20 and 2 towns in a name instead of 10, so that every limit is reached by routes of one or two targets |
| `routes_home` | A documented statement the code does not keep (below) | The code's own 20 rows with 12 towns |
| `locks` | `NothingLostOrReordered`, `EveryOperationRuns` | One session thread, as in the game; three operations: one between drains, one inside a drain, one by a loaded route, in any order and through any change of session |
| `captains` | `FlagMeansQueued`, `OldCaptainsRetire` | Two captains and two tasks, so that a task of one can be mistaken for the other's; three ships, so that a captain can be on one that is neither recorded nor the other's; four changes are enough to leave, be hired again elsewhere, lose the owner and lead a convoy |
| `crew` | `NoSilentStall` | A lone ship and a lead, because they are checked by different rules; one tavern for both, with fewer sailors than they can lack together; a leader's minimum above the sailing minimum |
| `crew_leads` | The rescue of a lead too small to lead (below) | The same, with a lead whose full crew is below the leader's minimum |
| `crash` | What the comment on the unhandled filter leaves out (below) | As in `parts` |
| `parts` | Sixteen components, one behaviour each, and eighteen properties (below) | Below |
| `progress` | `HitShipsRun`, `BrokenLinksHeal`, `StopEnds`, `ShuttlesOn`, each under its component's fairness | One ship of each side and vtable, either side with guns or without; two resources and two devices, because a repair takes the first broken one; two servers and two clients, of which one can be waiting for the lock the other has; one ware at 4 raw units to the unit and stocks of up to 12, so that amounts lie on both sides of what a week needs and of what the hub keeps back, and a third port for the convoy to be sent to |

The properties of `parts`, with the instance each is checked on:

| Property | Says | Instance |
|---|---|---|
| `OrderedIsOptimal` | No reversal shortens the tour that is returned | All matrices of 5 nodes over 2 lengths: 5 nodes are the fewest where a reversal can be non-adjacent on both sides; `MAX_PASSES` 8 is never reached |
| `TargetIsReset` | A lap leaves a target office with its supplies and brings the rest on board, as far as hold and demand allow | Three towns, two with offices; holds smaller than, as large as and larger than the stock |
| `MarksNameTheirReport`, `DeathIsTold` | "Report n was UNHANDLED" is about the fault of report n, the last; a fatal death is told unless the routine was occupied or the file shut | Two threads, four kinds of exception, four raised |
| `FillsItsRegion` | The fill takes exactly the region it was seeded in, and nothing off the map | All maps of 2 by 3 with every seed one tile around them |
| `NeverStreamsBlind` | With either fix however far installed, no frame goes into a missing or foreign array | All modes a block may hold |
| `NothingLeftBehind` | A scene left behind keeps no widget of a mod | Two scenes and a menu |
| `StripIsComplete` | CTRL+X leaves the ship bare, and in the yard if it is damaged and can be paid for, where it stays bare unless a hire was waiting; everything is still somewhere | A convoy of two, one operation enqueued beforehand, money or none |
| `SameBytesSameOrder` | Two operations with the same bytes are the same order | Every variant, each field set at its first and at its last byte |
| `ReportsAreTrue` | A value the linter reports can be produced | All scripts of three commands and a letter over two variables |
| `PathsArrive` | On a walk by first hops the way covered and the distance declared add up to what was declared at the start; a table rebuilt from another's legs declares the same | Four points, up to two fields of land |
| `NoOrphans` | No registration without its handle and none with two, on a full table | 5 slots for 6 keys |
| `NobodyWaitsInACircle`, `BlocksAddUp` | The profiler's threads never deadlock; a block counts what happened since the last | Two sites for tallies of one; a clock that wraps |
| `MissedIsTrue` | A page reported as missed was written past every hook, unless hooked methods nested | One page beside none, two methods inside one another; every prefix of the hooks |
| `FilesSayWhatWasMeant` | What is printed of a file is what was described or asked for | Two wares of different units, amounts that fit, reach the sentinel and do not fit |
| `EveryoneIsInReach` | Scrolling shows every captain, in the order of the header | Three captains, windows for two or three, any part of the hooks |
| `InkIsRight` | Each text in its own colour, alignment and face | Two columns, coloured, rich and graphic cells, with and without a layout |

Deadlock is checked in the runs `registry`, `scopes`, `locks`, `crew` and `crew_leads`. The
others may really stop: a ship without a route and with no key pressed, captains who have all
retired, a process that has died, a script or a search that has ended.

The runs check what could really fail on a small instance; the type invariants, and what
follows for every value of the constants from an inductive invariant (see "Proofs"), is proved
and not checked again: `TypeOK` of each module with proofs, `WalkInOrder`, `WalkComplete`,
`SnapshotMeansTheSame`, `NeverCallsDisarmed`, `SavesKeepAmounts`, `OnlyBesideTheSave`,
`EveryTownOnce`, `ClearedIsClear`, `OneInside`, `NeverDirty`, `NeverSearches`, `RetiredForGood`,
`NobodyIsLetOff`, `NothingTouched`, and `RescuedCanSail` for fleets of big enough leads.

### Fairness

* `registry`: the walk is a loop of the hook (`WF(Hook)`), and handlers return
  (`WF(Decline \/ Swallow)`). Key events and consumers are not fair: nobody has to press a key.
* `locks`: threads go on with what they have begun (`WF`), and a thread spinning on a lock that
  is free again and again gets it in the end (`SF`: the loop has no queue, so this is the
  scheduler's promise and not the lock's); the game goes on draining and a host goes on
  serving, as their main loops do. Nobody has to enqueue, and no session has to start or end.
  Clients are excluded from `EveryOperationRuns`: nothing entitles their try-lock to succeed.
* `captains`: the dispatcher comes to every task (`WF`) and the ten-day scan to every ship again
  and again (`SF`: a captain may be flagged and let go between two scans). Nobody has to hire,
  dismiss or age.
* `crew`: the game ticks every ship with an active route (`WF(RouteTick)` for each).
* `progress`: a battle steps each of its ships; the game's ticks sample the list; the operating
  system runs the loader's, the server's and the clients' threads; convoys arrive, repairs end
  and the agent ticks. Nobody owes the agent a client, a line, a tick or an unload, and nobody
  has to hit, flee, break or trade. That the watch's search comes across the live device now and
  again is no fairness but a premise of `BrokenLinksHeal`, as is of `ShuttlesOn` that the convoy is
  neither lost nor left diverted and that no office is missed: nothing in the code sees to either.

## Proofs

Checked by tlapm for every value of the constants that the named assumptions allow. Each
invariant is a conjunction of named parts; what is said below is what the property needs beside
itself to be inductive.

### Keys (`HotkeyProofs`)

* The registry, from `RegistryAssumption` (capacities are positive). `TypeCorrect`;
  `TableInOrder` (handles ascend and are never reused), from which `RecheckIsSound`: a
  handle in the snapshot that is still registered is the *same* registration, so comparing
  handles is enough. `WalkIsNewestFirst` needs the order of the snapshot as well;
  `DisarmedIsNeverCalled` is an action property. `ImplementsShadowing` maps the table to
  the set of its entries: every step is a step of `HotkeyShadowing` or leaves it unchanged,
  under the inductive invariant that joins all of the above with what is left to offer.
* The scopes, from `ScopesAssumption` (each group is a sequence of keys). `EveryKeyIsHeld` is for a
  table of any size, full ones included: its invariant `ScopesInv` has the registry's and
  `HandlesDiffer` (no two slots keep the same handle; without it, removing one key could take
  away another's) and `LoopsSwallow` (no registration loop runs in the middle of a walk).
* `KeysFollowWindows` and `RouteKeysYield` are stated under `EveryKeyFits`: the table has a slot
  for every key of every group, as it has in the game (128 for some thirty). On a full table a
  window's key may be missing, and a route key below it acts. A loop under way registers one
  key a turn, so `WillFollow` says of each key what the last turn that concerns it will do.
  `RouteKeysFirst` (the route keys are older than any window's) and `WindowNotYetPassed` (while
  nobody has swallowed the keystroke, the open window's handler is still ahead) are what makes
  shadowing work.

### Office and its amounts (`OfficeProofs`)

* Locked amounts, from `AmountsAssumption`. The invariant joins `Shapes` (types of
  files and history), `PathIsTheSave` (inside a save the captured path is the one being
  saved), `WritingWhatWasSaved` (between the game's write and the sidecar the store has
  not moved) and `SavesKeepAmounts`. Without the second and third, `SavesKeepAmounts` is
  not inductive: the sidecar is written one step after the fact. `SavesAreKept`,
  `LoadsRestore` and `SidecarsStayWithTheirSaves` follow.
* `AmountsTravel` is the refinement of `TravellingAmounts`. Besides the above it needs `WindowInv`:
  within a save, what is on screen has been flushed to the store.
* `ShipsLeaveWhatIsShown`, for any barrel and box sizes. `BoxedInv`: every stored amount is of
  whole box units that fit a box; it holds until a sidecar cut short in the middle of a number
  is read.
* Orders, from `OrdersAssumption` (`TypeCorrect`: an operation never names an office that is not
  there). `ProvisionsLast` is stated under `RequirementsFit`: the boxes can show what has to be
  provisioned; otherwise the window commits the smaller number it shows. `CoverInv` relates
  what is covered to the lock, to the stock in full units, and to the box while the office is
  on screen; `QueuedInv` says that an operation waiting for a covered pair that is not overtaken carries
  enough to cover it, so that executing it does no harm.
  `OrdersRunTheSameWay` is an action property.
* The goods dialog, from `DialogAssumption`. `SetupIsNotCleanedAway`: a slot F1 has set up has a
  clean-up enqueued only if it had one when F1 was pressed, because populating the dialog enqueues
  none for an instruction; and which slot a pending row is committed to is a matter of the order
  the record has then (`CommitKeeps`), which takes that slot out of the claim.

### Routes (`RouteProofs`)

From `RoutesAssumption`: finitely many towns, home and producers among them, at least two rows
in the auto-trade window, and routes made by hand that fit it. The invariant `RouteInv` joins

* `ChainInv`: a route fits the window, its records differ, and exactly one stop carries the
  marker. `ReadingStaysStable` follows: reading from any stop and turning the result to the
  marker gives the same sequence (`RotationIs`, `ReadsFromTheMarker`), also while the removals of
  a clear take stops out of the middle and pass the marker on (`RemovalKeeps`);
* `PendingInv` and `ClearInv`: what is left of a clear is in its queue, each stop once, and the queue
  names nothing else. `ClearsAreComplete` follows when the queue has drained;
* `NameInv`: as long as a route is a key's, the marker is on its first record and its name is the
  one computed from its stops. `NamesAreTrue` follows from what listing a sequence's distinct
  towns does (`DistinctLists`, `ListsOnce`);
* `RebuildInv`: a supply, collect or trade route is its template for *some* home and targets, cut
  off at the window's last row. `RoutesRebuild` needs that the targets read back from it may be
  fewer than those it was built for, when it was cut off: `CutOffShows` says that what is left
  shows the first few targets, and that the template for these is cut off at the same place.

`RouteTypeCorrect` follows from `ChainInv` and `NameInv`.

### Fixes, reports, pages, tours, windows, paths and ship keys (`PartsProofs`)

* `StreamsItsOwn` (from `ChurchAssumption`) holds with the constructor hooked or the tick patched
  however far. The invariant joins `ArrayIsCurrents` (frames in the array are those of the
  current animation), `InTheTavern` (what the tavern leaves in the player) and `Asleep` (a window
  whose mode was never set does not tick): without the last, a church window of a recycled
  block could tick before anybody has switched its animation.
* `FillsTheRegion` (from `HarborAssumption`: a map has a width and a height). `StaysInside`: every
  call still to be made, once it is on the map, is for a cell of the region, which needs that two
  tiles of the map never share a cell (`CellsDiffer`). `ReachesAll`: every neighbour of a marked
  tile is marked or due, so that what is marked when nothing is due is closed, and the region
  is the least such set.
* `NoDeadlock` (from `ProfilerAssumption`): a thread that waits for the second mutex holds the
  first and nobody takes them the other way round, also while the sampler has the main thread
  suspended.
* `CountsAddUp` (any sites and any limit of a tally): `Tallying` relates a tally to what happened since
  the bucket was opened, site by site, `TalliedKeeps` carries it through a call, also one of a
  site for which there is no room; `SumOfOneMore` is what a counted call does to a total.
* `MissedLinesAreTrue`: `ShadowFollows`, the page last seen is the current one unless it has
  escaped or a hooked method is running, which looks again when it is left; called inside such a
  method, an update finds what it has not looked at yet, which is what `overlap` excepts.
* `ReportsHold`: `TownsHaveWriters`, where a town lies the linter knows a command that may have
  put it there. Steps that write and those that jump are followed one kind at a time
  (`ComputeKeeps` and the others).
* `InkComesOutRight` (from `DrawingAssumption`): drawing a row or a table is a recursive function
  over its columns; `Sound` is what each cell of it hands on, and the lemmas of `Induction` carry it
  along a row of any length.
* `NoTownIsLost` (any number of towns, any distances): `TourTypeCorrect` bounds the loop indices;
  `ReversedIsATour`: reversing a stretch that leaves position 1 alone keeps home in front and
  every town at most once.
* `OptimalUnlessCapped` (any distances): the code never computes a tour's length, it compares the
  two legs at the ends of a stretch. `MirroredLength` is what makes that enough: the legs within
  a mirrored stretch are the same ones backwards, so the lengths differ by those two.
  `ComparedSoFar`: a pass without a reversal has compared every stretch before the next one,
  on the very tour there is now. The theorem leaves out only the tour of a last allowed pass that
  still found a reversal.
* `WindowsLeaveNothing` (from `ScenesAssumption`: a session starts in a scene, and a menu is none).
  `Agrees` is the invariant: the flags, the open-window list and the children of the scene on top
  say the same, no child is there twice, a bar lies above its window, and other scenes are empty.
  `TakenOut` and `PutOnTop` say of one removal and one addition what stays and in which order;
  every close, open, attach and detach is made of these two. `WindowsInv` adds that nothing is
  open in a menu, which is why quitting from there has nothing to destroy.
* `PathsAddUp` (from `NavAssumption`: a map has a size, there are points, a field has a side):
  `RowIsBuilt`, any tree of shortest paths makes a row whose distances no leg shortens and whose
  entries lead to the first node of a path. The hard case is a walk, which changes rows at every
  hop, and rows may prefer different paths of one length: `NoFurtherThanTheTree` compares a row
  with any other by going down its tree (`DownTheTree`), `NextIsFirst` says what the first node
  keeps, and together they give that a leg is what two rows differ by (`WhatIsLeft`).
  `LegsOfATable`: the legs a table goes by directly are enough to get its distances back. Two
  distinct points are more than nothing apart (`RootIs`), or a tree could turn in a circle.
* `StripsAreComplete` (from `ShipKeysAssumption`: finitely many ships and goods, crews are numbers).
  `ShipTypeCorrect`: no hold, crew, store or tavern goes below zero. A strip executes a list of
  operations on the spot, so the argument is about the worlds after the first n of them:
  `StripUpto` says which goods and sailors are off by then, that the ship still lies in port
  unless the list is done, and that all there is adds up as before. `StripStep` carries it over
  one operation of any kind, and the last operation, the repair, is the one that takes the ship
  out of port if the money is there: put earlier in the list it would make the handlers refuse the
  rest. `LaidUpInv` follows the ship into the yard, where only a hire that was waiting reaches it. That nothing
  gets lost is about sums over ships (`SumOfOneChange`: a summand changed changes the sum by as
  much), and `Booked` says it of every key and of the drain, not of strips only.
* `OneReportAtATime` (any threads, faults and bounds): the parts of the reporting routine past
  the swap exclude each other. `MarksAreTrue` needs it and `LastReport` (what is remembered as
  last is the last in the file or about to be written), `Decided` and `FileIsOlder`;
  `DeathsAreTold` needs in addition `LeavesTold` and `DiesTold`, which follow a thread from its
  report to its death.

### Route files and laps (`RouteFileProofs`)

* `FilesMeanWhatWasAsked` (from `FilesAssumption`: whole units per ware, numbers in descriptions, and
  a table of masks each of which has one bit more than the one before, as far as a copy can
  reach). The invariant `FilesInv` (`FilesAreKept`) is that the file is made of the stops asked for, whether the
  game has saved it again or not, and that what has been read so far is the front of it. The
  game may compress as it likes: any mixture of literals and copies. `CopyContinues` is the step
  that takes the work, a copy that is longer than its distance repeats what it has just
  written; `LengthIsRead` and `DistanceIsRead` say that the two codes read back what was
  written, which is where the masks are needed. `FlattenedPieces`
  cuts the array into its stops again, `EntryIsPrinted` and `SentinelIsPrinted` say what the print of an
  amount is: a number of units, or "max" when the scaled amount happens to be the sentinel.
  `WrittenIsPrinted` adds what a written supply route needs (`EnoughUnits`: rounding up gives
  enough, and less than one unit more).
* `TargetsAreReset` (from `SupplyAssumption`: finitely many wares in an order that has each once, whole
  units, demands, stocks and offers that are numbers, each target once and home none of them, and
  no hold larger than "as much as possible"). `SupplyRight` types ship, offices and stops and says
  that the cargo fits the hold and that the route is `Framed`: every stop is at home or one of those
  made for a target, next to which there are other towns' (`MiddlesAre`, `NextTarget`: no target
  comes twice). That is not enough to be told what an office holds at the end of three or
  four stops, so `SupplyInv` adds `StagesRight`: after j stops of an exchange nothing is lost
  between office and ship since `before`, and of every ware not supplied, and of the others if the
  exchange has its `Room`, the ship has exactly what the stops up to j take and put back
  (`Aboard`). `ExchangeIs` says what a stop without prices does: it unloads what it is to, then
  loads up to what there is or up to the full hold (`TakenIs`, an induction over the
  wares in the order of the stop); `RoomIsEnough` that it is the former when the total fits;
  `LeftByFull` that the latter means a full ship. `AfterFits` shows that `Room` bounds the
  totals in between, `EndsWell` draws the conclusion at the last stop. The proof
  asks of the order of the wares only that each is listed (`CargoOrderIs`): their ranks do not matter.

### Locks, captains, crews

* `OperationLocksProofs` (from `LocksAssumption`, for any number of session threads and
  operations). The invariant `LocksInv` joins the types, `PendingSafe` and `CurrentSafe` (at
  most one thread is in a section, and in a session the lock is taken while one is), `Sober`
  (outside a session no session thread is in a section) and that nobody has panicked. Without
  `Sober` a lock passed by in a single player game would not exclude anybody.
  `MutualExclusion` and `NoPanic` follow from it. `InOrder` also needs `Copies`: what a
  thread read at the start of its section is still what the queue holds when it writes.
  `MessagesTellOperationsApart` (from `CodecAssumption`: a value is as many bytes as its field has,
  a town's sign bit is clear, and a town of one byte is not 255). `FieldsAreApart`: whatever the
  kind, no field overlaps another one or the opcode, so `BytesAre` can say of each byte which field
  it is of. Operations of one message then have the same opcode; `KindByCode` leaves two pairs
  of kinds that share one, which `ModeTells` and `TownTells` tell apart by a byte no field
  covers and by a town no stop can have; `FlagTells` does the same for the sign bit and the token.
  What is left are the same fields with the same bytes.
* `CrewProofs`, captains (from `RetirementAssumption`, for any fleet and any number of
  tasks). `Outcomes` reduces a step to the few ways it can touch captains, flags and tasks,
  `HookOutcomes` does so for the hook and is where the search is excluded. The invariant
  `Inv` adds to the checked properties that a captain is on one ship at most (`OneShip`):
  without it a captain retired from one ship could still be aboard another, and
  `RetirementIsFinal` would not be inductive; it also needs `FlagsAreTasks`, since a second
  task would outlive the first. `SearchIsBypassed`, `NobodyEscapes` follow.
  `CaptainsAreInReach` (from `TableAssumption`: finitely many captains, a rank in every column, a
  window with room for one row) needs no more of the state than its types and that a bar
  on screen was laid out for the window that is open and stands between its ends (`TableInv`). `RankDecides` and
  `ChainIsAnOrder` make the rank by a column, with the chain to settle ties, an order without
  ties, in either direction; `RowsInOrder` says that rows come in it, `DrawnIs` which rows a scroll
  position shows, and `AllInReach` that the positions of the bar reach from the first to the last.
* `CrewProofs`, rescue (from `CrewAssumption`, for any fleet and any crews). `CrewTypeCorrect`: no
  hire overfills a ship or overdraws the tavern. `RescueIsSound` is proved under `BigLeads`
  (every lead is of a type whose full crew is enough to lead), without which it is false, as
  `crew_leads` shows; `HireSuffices` is where that is used. The invariant adds `InPort`: a
  rescued ship has not left, so nothing raids it. `NothingIsTouched` follows from
  `RescueOutcomes`.

### What must get on (`HotkeyProofs`, `OperationLocksProofs`, `RouteProofs`)

The four parts of `progress` are there for liveness, which TLC checks. What their progress
rests on in every state is proved, for any value of the constants; each of these invariants and
action properties says more than the run, and none of them mentions fairness.

* `HubRoutes` (from `HubConstants`: the towns differ, a unit has raw units in it, needs and bound are
  numbers). `ShuttleInPlace`: the convoy's destination is the town its next action is for exactly
  when its player has not diverted it last, and in port it is in its destination; beside types it
  needs that only a convoy on a route is under repair. `DivertedConvoysStand` is the converse for
  the others: no handler, and so no tick, moves the route of a diverted convoy on.
  `ReserveIsKept` and `NeedIsServed` are about the rounding to units (`ReserveStays`,
  `NeedIsFilled`).
* `RemoteAgent` (from `AgentConstants`). `ContextIsHeldByOne` is mutual exclusion with its converse:
  whoever has the lock is in its section and will give it back. `StopIsHeard` is about the status
  alone: once shutdown has been asked for, only a server's end changes it, and it says finished
  only when, after one start(), that server has ended. It needs
  `ServersAreStarted`: without "finished is said by a server that has ended" the status would
  not tell that a thread is through. It does not say that the code outlives its threads: `Unload` may be
  refused while the server is accepting, and the loader frees the library all the same. Nor does it
  promise anything of a second start(), whose server may say finished for the first one, or of the
  clients of a server that an error of accept has ended.
* `BattleFlight` (from `FlightConstants`: every ship is on one of two sides). `FlightComesNearer` is the
  argument behind `HitShipsRun`: `countdown` is a number that every step of a hit ship that must run
  lowers unless it flees. `ScalesAreTheGames` needs the types only, but they are what makes lowering and restoring
  one entry of a table inside a table come out even.
* `ListWatch` (from `WatchConstants`). `ArmedTrapIsSet` follows the trap through the middle of a walk
  (`ReleasedStands`, `RepairStands`, `RearmedStands`), where disarming may have failed and left the register
  set; `TrapsAreKept` needs `WrongLinksAreFaults` besides: a list with a link to repair is not clean, so the
  watch does not forget a node it has just used up. One of its reasons is that the walk has counted
  no node, which a list with a wild first node brings about too (`NothingIsCounted`).

### Induction

The provers cannot instantiate a theorem that takes an operator, which rules out the library's
induction theorems. `Induction` states what is needed for *sets* of numbers: `LeastNatural` from
the well-foundedness of finite sets, `SetInduction` from it, and `HandsOn` and `Recursion` for
functions whose value at n is made from the one at n - 1; `IntervalInduction` is the form used
for positions in a sequence. A proof by induction then names the
set of the numbers for which its claim holds.

The same way it gives what the proofs need of sums and of lists. A sum over a finite set is one the
library computes by taking one member out after another: `SumExists` gives it a value, `BySize` is
induction over the subsets of a finite set, `SumOfOneChange`, `SumAdds` and `SumGrows` say how sums
change, add up and compare. `RankIsAPlace` puts a finite set in a row by counting, for each
member, those ahead of it: rows of a table and wares of a stop are ordered so. `SetToSeqIs` is
about a set listed in any order.

### Only model-checked

* Liveness, which these provers cannot do: `KeystrokeEnds`, `EveryOperationRuns`, `OldCaptainsRetire`,
  `NoSilentStall` and the four of `progress`, whose safety halves are proved as said above.
* That the improvement of a tour ends by itself, not at `MAX_PASSES`: it depends on the distances.
  The run's bound is one its instance does not reach.

## Where the code and its documentation disagree

1. `routes_home`: a supply route with more than six office targets is cut at 20 stops and
   loses the home stop that unloads it, so nothing is hauled home.
2. `crew_leads`: a convoy's lead of one of the two small types, with an empty hold, has no
   berths for the 20 sailors a leader needs. The hook asks the predicates about a copy of the
   ship with 20 aboard, the hire operation gives it fewer, and the note is suppressed; the
   route stalls again at the next tick.
3. `crash`: the comment on the filter says an exception that kills the process still gets its
   full report; when another report is under way, or the routine itself has faulted, the
   filter gives up before it writes anything.

Read off the source, with no run of their own:

* F1 in the goods dialog with a row being typed in: its comment (`goods_dialog.rs`, 229-235) speaks
  of "preserving every existing instruction", but F1 rewrites the record's order before the dialog
  is populated again, and the pending row is committed by the new order. The edit lands on another
  ware, over its instruction or over a slot just set up. `SetupHolds` excepts the slot it hits.
* The handlers of the hub shuttle return in a foreign port and order nothing, so that a convoy its
  player has once diverted never shuttles again of itself.
* An update of the tavern window called inside `open`, `close` or `set_page` logs a page as missed
  that was not (`mod-debug-window-lifecycle/src/ffi.rs`, 296-340).
* SHIFT+F1 reaches the route keys with an office window or the goods dialog open, although the
  comment above the dispatch in `mod-trading-qol/src/ffi.rs` says F1 does not.
* A ship's name has room for ten towns, so a ship that calls at an eleventh is not restarted
  when that port thaws, although `thaw.rs` calls the name reliable.
* The README of trading-qol speaks of one site that creates the crew note, the code hooks three.
* The third hook of `p3-agent` on the ship routine puts the ship's wrapper where the convoy's
  belongs.
* `navpointmatrixcli`'s `is_connected` passes the first point's row as the second's as well, so
  that the line it tests runs along the first point's row. The model does the same;
  `PathsArrive` is about the legs as they are built, whether or not they cross land.
* The list watch's buffer has 8 slots where its comment says "Same capacity as the hit budget".
* The flight mod says each battle is announced once; the announced battle is known by its
  address, which a later battle may have.
* The profiler's late hooks, installed by a second enabling, find their own hook as the
  original.
* `decompress.rs`: the 14th entry of `BITMASKS_TABLE_2` is `0x1ff`, out of line with its
  neighbours; a length of eight or more fields is outside the tables. The game writes neither;
  `FilesAssumption` asks for masks only where a copy can reach, and the 14th is beyond that.
* An amount that scales to exactly `MAX_AMOUNT` reads back as "as much as possible".
* The budget toggle of the texture cache pressed while the patcher writes can lose the raise.
* `p3-ui/src/enlarge.rs` calls itself idempotent; that holds for windows wider than vanilla.
* A table header with a rich cell would leave the heading face, and a header is drawn without
  the test that rows are; no page has either.
* A header click has 6 pixels of slack, which give a column's left edge to its neighbour.

## What is taken from outside

The game is not in `src/`. From how the code uses it: loading a route replaces the chain in
one go and stops automatic trade; removing a stop hands its marker to the successor
(`p3-api/src/operation.rs`); the executor moves from stop to stop, unloading before loading;
operations are executed in order, and one whose guard fails does nothing; the save handler
truncates when it opens and may fail or defer; the settings
screen closes the office window before a load or save dialog opens; the save dialog deletes
a save without its sidecar; number boxes clamp; the ship-name pool is not empty. For the locks:
the bodies of the guarded
sections, that the drain executes in order, that the wire delivers once and in order, and
that a session starts and ends while no thread is in a section. For captains: scan, handler
and flag as the hook's comments describe them, a captain on one ship at most, and a convoy's
leader put off and not retired. For crews: the two predicates as clauses over the record, the
berths and the clamps of the hire operation as their comments in `p3-api` give them, that a
ship loses sailors only at sea, and that cargo aboard gives berths beyond the full crew. For
the fixes: the tick, the player and the fill as the mods' comments describe them, and the AI's
decision to flee by courage alone. For the compressed files: any choice of copies the decoder's
tables can express. For exceptions: the order of vectored handler, frames and filter, and that
the process ends when the filter returns. For the matrix: Dijkstra's algorithm of the library.

## Not modelled

* *Parts of modelled components*: a dismissed captain's index given to another captain before
  his task runs; `_backup.rou`, which nothing reads back; route keys pressed before the queue
  has drained, and under an open goods dialog; a sidecar installed half-way; the profiler's
  timers and dumps; the text of a crash report and the probes that read memory and log it
  (most of `probes.rs`), each a single reading without an effect; notes to the player and the
  placing of widgets.
* *Mod loader and launcher* (`p3-modloader`, `mkloadercli`): loading is one pass over a
  directory, and its effect, a DLL that keeps only part of its hooks, is in the models of the
  mods; the launcher is a recipe of bytes that verifies its result by SHA-256.
* *Captain skill caps, single patches, letter pop-ups, route loading*: each replaces a decision or a few
  instructions of the game once, with no state of its own; there is no behaviour to check that
  the replaced instructions would not restate.
* *Screen resolutions* (`mod-high-res`, `mod-high-res-1664x936`): constants, layout tables, bitmaps.
* *Game bindings* (the rest of `p3-api`): getters, setters and addresses; what a model needs of
  them is in the module that uses them.
* *Details pages other than the captains' table*: they read the game's data and draw it through
  the calls `PageDrawing` has.
* *File tools* (`aimcli`, `cprcli`, `p3-aim`, the rest of `p2mcli`): conversions of formats that
  keep no state.
* *Used by nothing*: `p3-ui/src/enlarge.rs`, and `three_stop_route` of the builder.
