-------------------------------- MODULE PartsMC --------------------------------
(***************************************************************************)
(* Components that share no state with one another: a supply route, the    *)
(* order of a fetch route's towns, the ship keys, the crash reporter, the  *)
(* harbour fill, the church's animations, windows of mods in the game's    *)
(* scenes, what operations are sent as, the mission linter, the ships'     *)
(* navigation table, the keys of all mods on a table too small for them,   *)
(* the texture cache's profiler, the window probe, route files, the        *)
(* captains' table and the drawing of pages, each on a small instance.  A  *)
(* behaviour runs the one that `component` names; the variables of the     *)
(* others keep one initial value.                                          *)
(***************************************************************************)
EXTENDS TourOrder, CrashReporterMC, OperationCodec, HotkeyScopesMC, ChurchAnimations, HarborFill,
        TextureProfiler, LifecycleProbe, MissionLint, PageDrawing, SceneWindows, NavpointMatrix,
        CaptainsTable, ShipKeys, RouteFiles, SupplyRoute, TLC

VARIABLE component

-----------------------------------------------------------------------------
\* The wares of both route components: a load and two barrels.
Grain == 0
Beer == 1
Wine == 2
MCScaling == [w \in {Grain, Beer, Wine} |-> IF w = Grain THEN 2 ELSE 1]
MCRank == [w \in {Grain, Beer, Wine} |-> 2 - w]
MCDefaultOrder == <<Grain, Beer, Wine>>

\* Home, a town with an office and one without; each of them produces one of the wares and
\* consumes others, and offices start empty or stocked.
NoOffice == 9
MCProduces == Home :> {Wine} @@ Target :> {Beer} @@ NoOffice :> {Grain}
MCConsumes == [t \in {Home, Target, NoOffice} |-> [w \in Wares |-> IF t = NoOffice /\ w = Wine THEN 0 ELSE 1]]
SupplyStocks == {Home :> [w \in Wares |-> 2] @@ Target :> f : f \in [Wares -> {0, 2}]}

SupplyTargets == <<Target, NoOffice>>

-----------------------------------------------------------------------------
\* A convoy of two on a route of two stops.
MCRouteStops == <<1, 2>>
MCLeadOf == [s \in {"lead", "mate"} |-> "lead"]

\* Scripts of three commands and a letter, over two variables.
LintCommand(kind, operands) == [kind |-> kind, operands |-> operands]
LintCommands ==
    {LintCommand(op, <<x>>) : op \in {"town", "sum"}, x \in {0, 1}}
    \cup {LintCommand(op, <<x, y>>) : op \in {"literal", "load", "store"}, x \in {0, 1}, y \in {0, 1}}
    \cup {LintCommand("unknown", <<1, 9>>), LintCommand("branch", <<1>>), LintCommand("branch", <<4>>)}
LintEndings ==
    {LintCommand("store", <<x, y>>) : x \in {0, 1}, y \in {0, 1}} \cup {LintCommand("restart", <<>>)}

MCScripts ==
    {<<a, b, c, LintCommand("letter", <<x>>)>> :
        a \in LintCommands, b \in LintCommands, c \in LintEndings, x \in {0, 1, 9}}

\* A field takes one value that sets its first byte and one that sets its last: enough to
\* see two fields that overlap.
MCValues(name, bytes) ==
    IF bytes = 1 THEN {<<0>>, <<1>>}
    ELSE {[b \in 1..bytes |-> IF b = set THEN 1 ELSE 0] : set \in {1, bytes}}

\* Columns of a page's table.
MCColumns == <<"Right", "Left">>

\* Descriptions of two stops in a ware of each measure, a weapon among the wares asked for;
\* amounts that fit, that scale to the sentinel and that do not fit.
FileEntry(w, a, p) == [ware |-> w, amount |-> a, price |-> p]
FileLoads == {<<FileEntry(w, a, 0)>> : w \in {Grain, Beer, 20}, a \in {None, 0, 1, 10, 11}}
FileTrades == {<<>>} \cup {<<FileEntry(w, a, p)>> : w \in {Grain, Beer}, a \in {None, 1, 10}, p \in {0, 2}}
FileDescriptions ==
    {<<>>} \cup
    {<< [town |-> Home, flag |-> flag, load |-> l, unload |-> <<>>, sell |-> t, buy |-> <<>>],
        [town |-> Target, flag |-> None, load |-> <<>>, unload |-> u, sell |-> <<>>, buy |-> b] >> :
        flag \in {1, None}, l \in FileLoads, t \in FileTrades,
        u \in {<<>>, <<FileEntry(Beer, None, 0)>>}, b \in {<<>>, <<FileEntry(Grain, 1, 2)>>}}
FileTables ==
    {[citizens |-> c, goods |-> [w \in {Grain, Beer} |-> [supply |-> IF w = Beer THEN s ELSE 2, sell |-> 1, buy |-> 2]]] :
        c \in {0, 3}, s \in {None, 1}}

\* The code's table, with its slip at 13, which no copy reaches.
MCBitmasks == [n \in 0..30 |-> IF n = 13 THEN 511 ELSE 2 ^ n - 1]

\* What three captains rank as in each column.
MCValueOf == <<[a |-> 1, b |-> 2, c |-> 3], [a |-> 1, b |-> 1, c |-> 0], [a |-> 0, b |-> 1, c |-> 2],
               [a |-> 2, b |-> 0, c |-> 2], [a |-> 1, b |-> 1, c |-> 1]>>

-----------------------------------------------------------------------------
keys == <<routeVars, tourVars, shipKeysVars>>
fixes == <<reportVars, fillVars, churchVars, windowVars>>
tools == <<codecVars, lintVars, navVars>>
probes == <<profilerVars, probeVars>>
pages == <<fileVars, tableVars, drawVars>>

PartsInit ==
    /\ component \in {"supply", "tour", "crash", "fill", "church", "windows", "ships",
                      "codec", "lint", "nav", "scopes", "cache", "lifecycle", "files", "table", "drawing"}
    /\ (component # "tour" => distance = [pair \in Legs |-> 1]) /\ TourInit
    /\ RouteInit
    /\ ReportInit /\ FillInit /\ ChurchInit /\ WindowsInit
    /\ ShipKeysInit /\ CodecInit
    /\ IF component = "lint" THEN LintInit
       ELSE script = <<LintCommand("restart", <<>>)>> /\ ip = 1 /\ variables = [x \in Variables |-> Value(0, FALSE)]
    /\ IF component = "nav" THEN NavInit
       ELSE /\ points = <<>> /\ land = {} /\ connected = {} /\ navMatrix = NewMatrix
            /\ source = 0 /\ original = <<>> /\ walk = NoWalk
    /\ Init /\ (component # "scopes" => hooked = {} /\ pressed = "F1")
    /\ (component # "cache" => perf_installed = {"frame"}) /\ ProfilerInit
    /\ (component # "lifecycle" => installed = 0) /\ ProbeInit
    /\ FilesInit
    /\ TableInit /\ (component # "table" => table_hooks = 0 /\ tavern_window.height = 110)
    /\ DrawInit /\ (component # "drawing" => ~layout)

KeysNext ==
    \/ component = "supply" /\ RouteNext /\ UNCHANGED <<tourVars, shipKeysVars>>
    \/ component = "tour" /\ TourNext /\ UNCHANGED <<routeVars, shipKeysVars>>
    \/ component = "ships" /\ ShipKeysNext /\ UNCHANGED <<tourVars, routeVars>>

FixesNext ==
    \/ component = "crash" /\ ReportNext /\ UNCHANGED <<fillVars, churchVars, windowVars>>
    \/ component = "fill" /\ FillNext /\ UNCHANGED <<reportVars, churchVars, windowVars>>
    \/ component = "church" /\ ChurchNext /\ UNCHANGED <<reportVars, fillVars, windowVars>>
    \/ component = "windows" /\ WindowsNext /\ UNCHANGED <<reportVars, fillVars, churchVars>>

ToolsNext ==
    \/ component = "codec" /\ CodecNext /\ UNCHANGED <<lintVars, navVars>>
    \/ component = "lint" /\ LintNext /\ UNCHANGED <<codecVars, navVars>>
    \/ component = "nav" /\ NavNext /\ UNCHANGED <<codecVars, lintVars>>

ProbesNext ==
    \/ component = "cache" /\ ProfilerNext /\ UNCHANGED probeVars
    \/ component = "lifecycle" /\ ProbeNext /\ UNCHANGED profilerVars

PagesNext ==
    \/ component = "files" /\ FilesNext /\ UNCHANGED <<tableVars, drawVars>>
    \/ component = "table" /\ TableNext /\ UNCHANGED <<fileVars, drawVars>>
    \/ component = "drawing" /\ DrawNext /\ UNCHANGED <<fileVars, tableVars>>

PartsNext ==
    \/ KeysNext /\ UNCHANGED <<component, fixes, tools, vars, probes, pages>>
    \/ FixesNext /\ UNCHANGED <<component, keys, tools, vars, probes, pages>>
    \/ ToolsNext /\ UNCHANGED <<component, keys, fixes, vars, probes, pages>>
    \/ component = "scopes" /\ ScopesNext /\ UNCHANGED <<component, keys, fixes, tools, probes, pages>>
    \/ ProbesNext /\ UNCHANGED <<component, keys, fixes, tools, vars, pages>>
    \/ PagesNext /\ UNCHANGED <<component, keys, fixes, tools, vars, probes>>

PartsSpec == PartsInit /\ [][PartsNext]_<<component, keys, fixes, tools, vars, probes, pages>>

=============================================================================
