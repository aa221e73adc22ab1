--------------------------- MODULE TextureProfiler ---------------------------
(***************************************************************************)
(* The texture cache fix (mod-fix-texture-cache-thrash/src/ffi.rs) and the *)
(* profiler kept beside it (profiler.rs, called by nothing: `install` and  *)
(* `set_enabled` are what a developer calls from start() and a key).       *)
(*                                                                         *)
(* Three threads.  The patcher waits for the library and raises its budget *)
(* once.  The game's main thread runs the counting hooks, the frame hook   *)
(* that closes a bucket, and the developer's keys.  The sampler suspends   *)
(* the main thread, reads where it is, resumes it and logs once in a       *)
(* while.  Two mutexes, neither reentrant: PERF (the counters) and         *)
(* PERF_LOG (the file).                                                    *)
(*                                                                         *)
(* Areas, cycles and the wording of the lines are left out.  The tallies   *)
(* per site are kept with their limit: a site beyond it is counted in the  *)
(* total only.                                                             *)
(***************************************************************************)
EXTENDS Naturals, FiniteSets, FiniteSetsExt

CONSTANTS
    EntryHooks,  \* hooks of install() besides the frame hook: "submit", "dtor", "variant"
    LateHooks,   \* hooks of the first set_enabled: "convert" first, "decode", "free"
    Sites,       \* return addresses, records and assets the hooks tell apart
    NoSite,      \* no site found on the stack; no owner of a mutex; not hooked
    LIMIT,       \* entries of a tally (64 or 32)
    SECOND,      \* milliseconds of a bucket (1000)
    WIDTH,       \* values of the millisecond clock (2^32)
    MaxCalls     \* bound: calls counted in one bucket

ASSUME ProfilerAssumption ==
    /\ NoSite \notin Sites \cup {"main", "sampler"}
    /\ "convert" \in LateHooks /\ EntryHooks \cap LateHooks = {}
    /\ IsFiniteSet(EntryHooks) /\ IsFiniteSet(LateHooks) /\ IsFiniteSet(Sites)
    /\ LIMIT \in Nat /\ SECOND \in Nat /\ WIDTH \in Nat \ {0} /\ MaxCalls \in Nat

VARIABLES
    loaded, budget, saved, patcher,              \* ddraw_dll, its limit, SAVED_CACHE_LIMIT, the thread
    perf_installed, late,                        \* hooks in place; what the late ones call on to
    on, owner, main, sampler, suspended,         \* PERF_PROBE_ON, the mutexes, the threads
    clock, perf, counted                         \* PERF; the calls since the last bucket closed

budgetVars == <<loaded, budget, saved, patcher>>
threadVars == <<owner, main, sampler, suspended>>
perfVars == <<clock, perf, counted>>
profilerVars == <<budgetVars, perf_installed, late, on, threadVars, perfVars>>

-----------------------------------------------------------------------------
(***************************************************************************)
(* What is counted, in total and by site; the decodes have no total.       *)
(***************************************************************************)
Kinds == EntryHooks \cup LateHooks

NoTally == [k \in Kinds |-> <<>>]
PerfState(start) == [calls |-> [k \in Kinds \ {"decode"} |-> 0], sites |-> NoTally, bucket_start_ms |-> start]

\* One more for `site`, if it has an entry or there is room for one.
tallied(tally, site) ==
    CASE site \in DOMAIN tally -> [tally EXCEPT ![site] = @ + 1]
      [] site \notin DOMAIN tally /\ site # NoSite /\ Cardinality(DOMAIN tally) < LIMIT ->
            [s \in DOMAIN tally \cup {site} |-> IF s = site THEN 1 ELSE tally[s]]
      [] OTHER -> tally

\* Where a scan of the stack may find no site.
MaySite(kind) == IF kind \in {"dtor", "decode", "free"} THEN Sites \cup {NoSite} ELSE Sites

CountCall(kind, site) ==
    /\ perf' = [perf EXCEPT !.calls = [k \in DOMAIN @ |-> IF k = kind THEN @[k] + 1 ELSE @[k]],
                            !.sites[kind] = tallied(@, site)]
    /\ counted' = [counted EXCEPT ![kind][site] = @ + 1]

\* Faulty variant: one of the tallies is not cleared with the rest.
CloseKeepingSites ==
    /\ perf' = [PerfState(clock) EXCEPT !.sites = [k \in Kinds |-> IF k = "convert" THEN perf.sites[k] ELSE @[k]]]
    /\ counted' = [k \in Kinds |-> [s \in Sites \cup {NoSite} |-> 0]]

\* A bucket is closed: everything but the start of the next is cleared.
Close == perf' = PerfState(clock) /\ counted' = [k \in Kinds |-> [s \in Sites \cup {NoSite} |-> 0]]

CountedCalls == MapThenSumSet(LAMBDA k : MapThenSumSet(LAMBDA s : counted[k][s], Sites \cup {NoSite}), Kinds)

-----------------------------------------------------------------------------
Callers == {"main", "sampler"}
Lock(mutex, thread) == owner[mutex] = NoSite /\ owner' = [owner EXCEPT ![mutex] = thread]
Unlock(mutexes) == owner' = [m \in DOMAIN owner |-> IF m \in mutexes THEN NoSite ELSE owner[m]]

\* install() hooks in order and stops at the first that fails; with all of Entry in place it may
\* still fail at one of the timers it hooks after them, before it starts the sampler.
ProfilerInit ==
    /\ loaded = FALSE /\ budget = "default" /\ saved = "none" /\ patcher = "polling"
    /\ perf_installed \in {{"frame"} \cup (first \cap EntryHooks) : first \in {{}, {"submit"}, {"submit", "dtor"}, EntryHooks}}
    /\ late = [h \in LateHooks |-> NoSite]
    /\ on = FALSE
    /\ owner = [m \in {"PERF", "PERF_LOG"} |-> NoSite]
    /\ main = [at |-> "idle"]
    /\ sampler \in IF EntryHooks \subseteq perf_installed THEN {"asleep", "not started"} ELSE {"not started"}
    /\ suspended = FALSE
    /\ clock = 1
    /\ perf = PerfState(0)
    /\ counted = [k \in Kinds |-> [s \in Sites \cup {NoSite} |-> 0]]

LibraryLoads == ~loaded /\ loaded' = TRUE /\ UNCHANGED <<budget, saved, patcher, perf_installed, late, on, threadVars, perfVars>>

(***************************************************************************)
(* patch_when_loaded: one read and, if the default was read, one store;    *)
(* anything else is left alone.  It may also have stopped waiting.         *)
(***************************************************************************)
patch_when_loaded ==
    /\ \/ patcher = "polling" /\ loaded /\ patcher' = (IF budget = "default" THEN "raising" ELSE "done")
          /\ UNCHANGED budget
       \/ patcher = "polling" /\ ~loaded /\ patcher' = "done" /\ UNCHANGED budget
       \/ patcher = "raising" /\ patcher' = "done" /\ budget' = "raised"
    /\ UNCHANGED <<loaded, saved, perf_installed, late, on, threadVars, perfVars>>

(***************************************************************************)
(* toggle_cache_budget on the main thread: a load and two stores.          *)
(***************************************************************************)
toggle_cache_budget ==
    /\ loaded
    /\ \/ /\ main.at = "idle"
          /\ \/ saved = "none" /\ saved' = budget /\ main' = [at |-> "raise"] /\ UNCHANGED budget
             \/ saved # "none" /\ budget' = saved /\ main' = [at |-> "forget"] /\ UNCHANGED saved
       \/ main.at = "raise" /\ budget' = "big" /\ main' = [at |-> "idle"] /\ UNCHANGED saved
       \/ main.at = "forget" /\ saved' = "none" /\ main' = [at |-> "idle"] /\ UNCHANGED budget
    /\ UNCHANGED <<loaded, patcher, perf_installed, late, on, owner, sampler, suspended, perfVars>>

-----------------------------------------------------------------------------
(***************************************************************************)
(* install_perf_late_hooks: the first one stands for all of them; the      *)
(* others are hooked again if it was refused.  A hook put where it already *)
(* is has itself as the original.                                          *)
(***************************************************************************)
install_perf_late_hooks ==
    IF late["convert"] # NoSite THEN UNCHANGED late
    ELSE \E accepted \in SUBSET LateHooks :
            late' = [h \in LateHooks |->
                        IF h \notin accepted THEN late[h] ELSE IF late[h] = NoSite THEN "game" ELSE "itself"]

(***************************************************************************)
(* set_enabled: the file is opened or closed under its mutex, then the     *)
(* flag is set.                                                            *)
(***************************************************************************)
set_enabled ==
    /\ UNCHANGED <<budgetVars, perf_installed, sampler, suspended, perfVars>>
    /\ \/ /\ main.at = "idle"
          /\ \E enable \in BOOLEAN :
                /\ main' = [at |-> "open", enable |-> enable]
                /\ IF enable THEN install_perf_late_hooks ELSE UNCHANGED late
          /\ UNCHANGED <<on, owner>>
       \/ main.at = "open" /\ Lock("PERF_LOG", "main") /\ main' = [main EXCEPT !.at = "opened"] /\ UNCHANGED <<on, late>>
       \/ main.at = "opened" /\ Unlock({"PERF_LOG"}) /\ on' = main.enable /\ main' = [at |-> "idle"] /\ UNCHANGED late

(***************************************************************************)
(* A hooked call.  The free hook counts before it calls on, the convert    *)
(* and decode hooks after; a hook that calls itself never comes back.      *)
(***************************************************************************)
perf_hook ==
    /\ UNCHANGED <<budgetVars, perf_installed, late, on, sampler, suspended, clock>>
    /\ \/ /\ main.at = "idle" /\ CountedCalls < MaxCalls
          /\ \E kind \in (EntryHooks \cap perf_installed) \cup {h \in LateHooks : late[h] = "game"} :
                \E site \in MaySite(kind) : main' = [at |-> "count", kind |-> kind, site |-> site]
          /\ UNCHANGED <<owner, perf, counted>>
       \/ main.at = "idle" /\ (\E h \in LateHooks : late[h] = "itself") /\ main' = [at |-> "overflow"]
          /\ UNCHANGED <<owner, perf, counted>>
       \/ main.at = "count" /\ Lock("PERF", "main") /\ main' = [main EXCEPT !.at = "counting"]
          /\ UNCHANGED <<perf, counted>>
       \/ main.at = "counting" /\ CountCall(main.kind, main.site) /\ Unlock({"PERF"}) /\ main' = [at |-> "idle"]

(***************************************************************************)
(* on_perf_frame: a start of 0 means there is no bucket yet.  The lines    *)
(* are written under both mutexes; the bucket is closed whether or not the *)
(* probe is on.                                                            *)
(***************************************************************************)
elapsed == (clock + WIDTH - perf.bucket_start_ms) % WIDTH

on_perf_frame ==
    /\ UNCHANGED <<budgetVars, perf_installed, late, on, sampler, suspended>>
    /\ \/ /\ main.at = "idle" /\ "frame" \in perf_installed
          /\ clock' \in {clock, (clock + 1) % WIDTH} /\ main' = [at |-> "frame"] /\ UNCHANGED <<owner, perf, counted>>
       \/ main.at = "frame" /\ Lock("PERF", "main") /\ main' = [at |-> "bucket"] /\ UNCHANGED perfVars
       \/ /\ main.at = "bucket" /\ UNCHANGED clock
          /\ \/ /\ perf.bucket_start_ms = 0
                /\ perf' = [perf EXCEPT !.bucket_start_ms = clock]
                /\ Unlock({"PERF"}) /\ main' = [at |-> "idle"] /\ UNCHANGED counted
             \/ /\ perf.bucket_start_ms # 0 /\ elapsed < SECOND
                /\ Unlock({"PERF"}) /\ main' = [at |-> "idle"] /\ UNCHANGED <<perf, counted>>
             \/ /\ perf.bucket_start_ms # 0 /\ elapsed >= SECOND /\ on
                /\ Lock("PERF_LOG", "main") /\ main' = [at |-> "block"] /\ UNCHANGED <<perf, counted>>
             \/ /\ perf.bucket_start_ms # 0 /\ elapsed >= SECOND /\ ~on
                /\ Close /\ Unlock({"PERF"}) /\ main' = [at |-> "idle"]
       \/ main.at = "block" /\ Close /\ Unlock({"PERF", "PERF_LOG"}) /\ main' = [at |-> "idle"] /\ UNCHANGED clock

-----------------------------------------------------------------------------
\* Faulty variant: the sampler logs before it resumes the main thread.
start_perf_samplerLate ==
    \/ sampler = "asleep" /\ on /\ sampler' = "log" /\ suspended' = TRUE /\ UNCHANGED owner
    \/ sampler = "log" /\ Lock("PERF_LOG", "sampler") /\ sampler' = "logging" /\ UNCHANGED suspended
    \/ sampler = "logging" /\ Unlock({"PERF_LOG"}) /\ sampler' = "asleep" /\ suspended' = FALSE

(***************************************************************************)
(* start_perf_sampler: between suspending and resuming it only reads the   *)
(* context; names are looked up and the line is written afterwards.        *)
(***************************************************************************)
start_perf_sampler ==
    \/ sampler = "asleep" /\ on /\ sampler' = "looking" /\ suspended' = TRUE /\ UNCHANGED owner
    \/ sampler = "looking" /\ sampler' \in {"asleep", "log"} /\ suspended' = FALSE /\ UNCHANGED owner
    \/ sampler = "log" /\ Lock("PERF_LOG", "sampler") /\ sampler' = "logging" /\ UNCHANGED suspended
    \/ sampler = "logging" /\ Unlock({"PERF_LOG"}) /\ sampler' = "asleep" /\ UNCHANGED suspended

Main == ~suspended /\ (toggle_cache_budget \/ set_enabled \/ perf_hook \/ on_perf_frame)
Sampler == start_perf_sampler /\ UNCHANGED <<budgetVars, perf_installed, late, on, main, perfVars>>

ProfilerNext == LibraryLoads \/ patch_when_loaded \/ Main \/ Sampler
ProfilerSpec == ProfilerInit /\ [][ProfilerNext]_profilerVars

-----------------------------------------------------------------------------
(***************************************************************************)
(* Nobody waits for who waits for him: the main thread never wants a mutex *)
(* it holds, and the sampler never wants one from the thread it has        *)
(* suspended (the comment of start_perf_sampler).                          *)
(***************************************************************************)
Wanted(thread) ==
    IF thread = "main"
    THEN CASE main.at \in {"count", "frame"} -> {"PERF"}
           [] main.at = "open" -> {"PERF_LOG"}
           [] main.at = "bucket" /\ perf.bucket_start_ms # 0 /\ elapsed >= SECOND /\ on -> {"PERF_LOG"}
           [] OTHER -> {}
    ELSE IF sampler = "log" THEN {"PERF_LOG"} ELSE {}
WaitsFor ==
    {<<p[1], owner[p[2]]>> : p \in {q \in Callers \X DOMAIN owner : q[2] \in Wanted(q[1]) /\ owner[q[2]] # NoSite}}
    \cup (IF suspended THEN {<<"main", "sampler">>} ELSE {})
NobodyWaitsInACircle == \A p \in WaitsFor : p[1] # p[2] /\ <<p[2], p[1]>> \notin WaitsFor

(***************************************************************************)
(* A bucket holds what happened since the last one was closed, under every *)
(* order of keys and frames: the totals are exact, an entry of a tally has *)
(* every call of its site, and a site is missing from a full tally only    *)
(* (on_perf_frame's resets against the hooks).                             *)
(***************************************************************************)
BlocksAddUp ==
    \A k \in Kinds :
        LET tally == perf.sites[k]  happened == counted[k] IN
        /\ k # "decode" => perf.calls[k] = MapThenSumSet(LAMBDA s : happened[s], Sites \cup {NoSite})
        /\ \A s \in Sites : IF s \in DOMAIN tally THEN tally[s] = happened[s]
                            ELSE happened[s] = 0 \/ Cardinality(DOMAIN tally) = LIMIT
=============================================================================
