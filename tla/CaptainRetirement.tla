------------------------- MODULE CaptainRetirement -------------------------
(***************************************************************************)
(* Retiring captains (mod-fix-captain-retire-hang/src/ffi.rs).  The game's *)
(* scan flags an old captain and schedules a task with the ship he is on;  *)
(* by the time the task runs he may be elsewhere.  The game's handler then *)
(* searches for him and never returns, so the mod's hook settles where he  *)
(* is before the handler runs, or drops the task.                          *)
(*                                                                         *)
(* Scan, handler and everything that moves a captain are the game's,       *)
(* modelled from what the hook and its comments say of them.               *)
(***************************************************************************)
EXTENDS Naturals

CONSTANTS
    Captains, Ships, Slots,  \* indices of auto-traders, ships and scheduled tasks
    None,                    \* no captain, no task
    MaxMoves                 \* bound: how often captains and ships change

ASSUME RetirementAssumption ==
    None \notin Captains /\ None \notin [ship : Ships, captain : Captains] /\ MaxMoves \in Nat

VARIABLES
    captain,    \* the captain of each ship, or None
    leading,    \* the ships that lead a convoy
    ownerless,  \* the hulls without a live merchant
    old,        \* captains past the age of retirement
    flag,       \* their retirement flags (auto_trader+0xE)
    tasks,      \* the retirement tasks scheduled: a task or None in each slot
    retired,    \* captains retired
    searching,  \* the handler has entered its search
    moves

ships == <<captain, leading, ownerless>>
vars == <<ships, old, flag, tasks, retired, searching, moves>>

Task == [ship : Ships, captain : Captains]

TypeOK ==
    /\ captain \in [Ships -> Captains \cup {None}]
    /\ leading \subseteq Ships /\ ownerless \subseteq Ships
    /\ old \subseteq Captains /\ retired \subseteq Captains
    /\ flag \in [Captains -> BOOLEAN]
    /\ tasks \in [Slots -> Task \cup {None}]
    /\ searching \in BOOLEAN
    /\ moves \in Nat

Aboard(c) == \E s \in Ships : captain[s] = c
Queued(c) == {k \in Slots : tasks[k] # None /\ tasks[k].captain = c}

\* Every captain starts on at most one ship, nobody is old.
Init ==
    /\ captain \in [Ships -> Captains \cup {None}]
    /\ \A s, t \in Ships : captain[s] = captain[t] => s = t \/ captain[s] = None
    /\ leading = {} /\ ownerless = {}
    /\ old = {} /\ retired = {}
    /\ flag = [c \in Captains |-> FALSE]
    /\ tasks = [k \in Slots |-> None]
    /\ searching = FALSE
    /\ moves = 0

-----------------------------------------------------------------------------
(* The hook.                                                                *)

\* The recorded ship still carries the captain.
pair_matches(ship, c) == captain[ship] = c

\* The ship of a live merchant that carries the captain, or else a hull that does.
Found(c, s) ==
    /\ captain[s] = c
    /\ s \in ownerless => \A t \in Ships : captain[t] = c => t \in ownerless

\* Faulty variant: the flag stays set.
clear_retirement_flag_not(c) == UNCHANGED flag
clear_retirement_flag(c) == flag' = [flag EXCEPT ![c] = FALSE]

\* The game's handler, on the task in slot k now naming ship s: with another captain aboard
\* it enters its search, in front of a convoy it comes again later, else the captain retires.
original(k, s, c) ==
    \/ /\ captain[s] # c
       /\ searching' = TRUE
       /\ UNCHANGED <<captain, tasks, flag, retired>>
    \/ /\ captain[s] = c /\ s \in leading
       /\ tasks' = [tasks EXCEPT ![k] = [ship |-> s, captain |-> c]]
       /\ UNCHANGED <<captain, flag, retired, searching>>
    \/ /\ captain[s] = c /\ s \notin leading
       /\ captain' = [captain EXCEPT ![s] = None]
       /\ retired' = retired \cup {c}
       /\ flag' = [flag EXCEPT ![c] = FALSE]
       /\ tasks' = [tasks EXCEPT ![k] = None]
       /\ UNCHANGED searching

\* The captain is on no ship: his task and his flag go together.
Drop(k, c) ==
    /\ clear_retirement_flag(c)
    /\ tasks' = [tasks EXCEPT ![k] = None]
    /\ UNCHANGED <<captain, retired, searching>>

\* The dispatcher runs the task in slot k: its pair matches, or its captain is found on
\* another ship and the task rewritten to it, or it is dropped.
retire_handler_hook(k) ==
    LET c == tasks[k].captain IN
    /\ tasks[k] # None
    /\ IF pair_matches(tasks[k].ship, c) THEN original(k, tasks[k].ship, c)
       ELSE \/ \E s \in Ships : Found(c, s) /\ original(k, s, c)
            \/ ~Aboard(c) /\ Drop(k, c)
    /\ UNCHANGED <<leading, ownerless, old, moves>>

-----------------------------------------------------------------------------
(* The game.                                                                *)

Ages(c) ==
    /\ c \notin old
    /\ old' = old \cup {c}
    /\ UNCHANGED <<ships, flag, tasks, retired, searching, moves>>

\* The ten-day scan: a flagged captain is skipped.
Scan(s) ==
    LET c == captain[s] IN
    /\ c \in old /\ ~flag[c]
    /\ \E k \in Slots :
          /\ tasks[k] = None
          /\ tasks' = [tasks EXCEPT ![k] = [ship |-> s, captain |-> c]]
    /\ flag' = [flag EXCEPT ![c] = TRUE]
    /\ UNCHANGED <<ships, old, retired, searching, moves>>

Moving ==
    /\ moves < MaxMoves /\ moves' = moves + 1
    /\ UNCHANGED <<old, flag, tasks, retired, searching>>

\* Dismissed, or the ship is sunk; hired, again or for the first time.
Leaves(s) ==
    /\ captain[s] # None /\ captain' = [captain EXCEPT ![s] = None]
    /\ UNCHANGED <<leading, ownerless>> /\ Moving

Hired(c, s) ==
    /\ captain[s] = None /\ ~Aboard(c) /\ c \notin retired
    /\ captain' = [captain EXCEPT ![s] = c]
    /\ UNCHANGED <<leading, ownerless>> /\ Moving

ConvoyChanges(s) ==
    /\ leading' = IF s \in leading THEN leading \ {s} ELSE leading \cup {s}
    /\ UNCHANGED <<captain, ownerless>> /\ Moving

OwnerChanges(s) ==
    /\ ownerless' = IF s \in ownerless THEN ownerless \ {s} ELSE ownerless \cup {s}
    /\ UNCHANGED <<captain, leading>> /\ Moving

Next ==
    \/ \E k \in Slots : ~searching /\ retire_handler_hook(k)
    \/ \E c \in Captains : ~searching /\ Ages(c)
    \/ \E s \in Ships :
          /\ ~searching
          /\ \/ Scan(s) \/ Leaves(s) \/ ConvoyChanges(s) \/ OwnerChanges(s)
             \/ \E c \in Captains : Hired(c, s)

Spec == Init /\ [][Next]_vars

\* The scan comes round every ten days to every ship, the dispatcher to every task.
FairSpec ==
    /\ Spec
    /\ \A s \in Ships : SF_vars(~searching /\ Scan(s))
    /\ \A k \in Slots : WF_vars(~searching /\ retire_handler_hook(k))

-----------------------------------------------------------------------------
(* Properties                                                               *)

\* The game's search, which does not return, is never entered, wherever captains go between
\* the scheduling of a task and its run.
NeverSearches == ~searching

\* "The flag means a removal is already queued": a captain is flagged exactly while one task
\* names him, through tasks rewritten, postponed and dropped.
FlagMeansQueued ==
    \A c \in Captains :
        /\ flag[c] <=> Queued(c) # {}
        /\ \A k, l \in Queued(c) : k = l

\* Whoever has retired is aboard no ship, and no task is left to look for him.
RetiredForGood == \A c \in retired : ~Aboard(c) /\ Queued(c) = {}

\* A retirement once scheduled is carried out, or given up in a moment the captain is aboard
\* no ship; a captain who is only elsewhere is not let off.
NobodyIsLetOff ==
    [][\A c \in Captains : flag[c] /\ ~flag'[c] => c \in retired' \/ ~Aboard(c)]_vars

\* An old captain at sea retires in the end, unless he leaves his ship for good or leads a
\* convoy then: also one whose task was dropped while he was ashore and who was hired again.
OldCaptainsRetire ==
    \A c \in Captains :
        c \in old /\ Aboard(c) ~>
            \/ c \in retired
            \/ ~Aboard(c)
            \/ \E s \in leading : captain[s] = c

=============================================================================
