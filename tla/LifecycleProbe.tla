--------------------------- MODULE LifecycleProbe ---------------------------
(***************************************************************************)
(* The window probe (mod-debug-window-lifecycle/src/ffi.rs): hooks on the  *)
(* window manager, the office window, the goods dialog and the tavern      *)
(* window that write what they see to a log.  start() installs them in     *)
(* order and stops at the first that fails; the mod loader keeps the DLL.  *)
(*                                                                         *)
(* The windows belong to the game; of theirs only the tavern's page counts *)
(* here, and the tavern's methods that run, the innermost last.  The probe *)
(* keeps one value, TAVERN_PAGE_SHADOW, the last page a hook has seen, and *)
(* reports a page found changed at the start of an update.  `log_line` is  *)
(* the line that the last step wrote.  Two histories say why the shadow    *)
(* may be stale: `escaped`, the page was written past every hook since the *)
(* two agreed; `overlap`, a hooked method was called inside another one    *)
(* that has not looked since.                                              *)
(***************************************************************************)
EXTENDS Integers, Sequences, SequencesExt

CONSTANTS
    Pages,       \* pages of the tavern window
    MaxNesting   \* bound: methods of the tavern inside one another

VARIABLES tavern, tavern_page, callStack, installed, TAVERN_PAGE_SHADOW, log_line, escaped, overlap

tavernVars == <<tavern, tavern_page, callStack, TAVERN_PAGE_SHADOW, escaped, overlap>>
probeVars == <<tavernVars, installed, log_line>>

Unset == -2      \* no hook has seen a page yet
Hooks == <<"push", "remove", "open", "close", "dtor", "dlg-dtor", "dlg-show", "dlg-close",
           "tav-open", "tav-close", "tav-update", "tav-set">>
Hooked(hook) == \E i \in 1..installed : Hooks[i] = hook

ProbeInit ==
    /\ tavern = "closed" /\ tavern_page = -1 /\ callStack = <<>>
    /\ installed \in 0..Len(Hooks)
    /\ TAVERN_PAGE_SHADOW = Unset
    /\ log_line = "none"
    /\ escaped = FALSE /\ overlap = FALSE

\* A hook that is in place writes its line before it calls on.
Log(hook) == log_line' = IF Hooked(hook) THEN hook ELSE "none"

-----------------------------------------------------------------------------
(***************************************************************************)
(* The other windows' methods, external: called at any time and in any     *)
(* order, inside one of the tavern's as well; their hooks only write.      *)
(***************************************************************************)
OtherHook(hooks) == (\E hook \in hooks : Log(hook)) /\ UNCHANGED <<tavernVars, installed>>

manager_transition == OtherHook({"push", "remove"})
office_hooks == OtherHook({"open", "close", "dtor"})
dialog_hooks == OtherHook({"dlg-show", "dlg-close", "dlg-dtor"})

-----------------------------------------------------------------------------
(***************************************************************************)
(* The tavern's methods, entered and left, one inside another as the game  *)
(* likes; open, close and update write the page in between.  Their hooks   *)
(* look once the method is done, the update's before as well.              *)
(***************************************************************************)
Nested(m) == \E i \in DOMAIN callStack : callStack[i].method = m
Innermost == IF callStack = <<>> THEN "none" ELSE Last(callStack).method
HookRuns(s) == \E i \in DOMAIN s : Hooked(s[i].method)
Missed == tavern_page # TAVERN_PAGE_SHADOW /\ TAVERN_PAGE_SHADOW # Unset

Callable(m) ==
    CASE m = "tav-open" -> tavern = "closed" /\ ~Nested(m)
      [] m = "tav-close" -> tavern = "open" /\ ~Nested(m)
      [] m = "tav-update" -> tavern = "open" \/ callStack # <<>>

EnterCall(m, page) ==
    /\ Len(callStack) < MaxNesting
    /\ callStack' = Append(callStack, [method |-> m, page |-> page])
    /\ overlap' = (overlap \/ (Hooked(m) /\ HookRuns(callStack)))
    /\ UNCHANGED <<tavern, tavern_page, escaped, installed>>

EnterMethod(m) ==
    /\ Callable(m)
    /\ EnterCall(m, tavern_page)
    /\ log_line' = IF m = "tav-update" /\ Hooked(m) /\ Missed THEN "tav-MISSED" ELSE "none"
    /\ UNCHANGED TAVERN_PAGE_SHADOW

\* What is written inside a hooked method has not escaped; what agrees with the shadow is harmless.
PageSeen == escaped' = ((escaped \/ ~HookRuns(callStack)) /\ tavern_page' # TAVERN_PAGE_SHADOW)

\* An update that leaves the page as it found it writes no line.
LeaveMethod ==
    /\ Innermost \notin {"none", "tav-set"} /\ callStack' = Front(callStack)
    /\ \E m \in {Innermost} :
          /\ tavern' = CASE m = "tav-open" -> "open" [] m = "tav-close" -> "closed" [] OTHER -> tavern
          /\ TAVERN_PAGE_SHADOW' = IF Hooked(m) THEN tavern_page ELSE TAVERN_PAGE_SHADOW
          /\ escaped' = (escaped /\ ~Hooked(m))
          /\ overlap' = (overlap /\ (Hooked(m) => HookRuns(Front(callStack))))
          /\ IF m = "tav-update" /\ tavern_page = Last(callStack).page THEN log_line' = "none" ELSE Log(m)
    /\ UNCHANGED <<tavern_page, installed>>

\* The game writes the page in one of the three methods, or past them all.
WritePage ==
    /\ Innermost # "tav-set"
    /\ tavern_page' \in (Pages \cup {-1}) \ {tavern_page}
    /\ PageSeen
    /\ log_line' = "none"
    /\ UNCHANGED <<tavern, callStack, TAVERN_PAGE_SHADOW, overlap, installed>>

\* Faulty variant: set_page is logged and not remembered.
set_pageForgotten(argument) ==
    /\ EnterCall("tav-set", argument)
    /\ UNCHANGED TAVERN_PAGE_SHADOW
    /\ Log("tav-set")

\* set_page_logger remembers the argument at the method's entry.
set_page(argument) ==
    /\ EnterCall("tav-set", argument)
    /\ TAVERN_PAGE_SHADOW' = IF Hooked("tav-set") THEN argument ELSE TAVERN_PAGE_SHADOW
    /\ Log("tav-set")

\* The method itself, external: it writes the page and returns.
SetPageReturns ==
    /\ Innermost = "tav-set" /\ callStack' = Front(callStack)
    /\ tavern_page' = Last(callStack).page
    /\ PageSeen
    /\ log_line' = "none"
    /\ UNCHANGED <<tavern, TAVERN_PAGE_SHADOW, overlap, installed>>

ProbeNext ==
    \/ manager_transition \/ office_hooks \/ dialog_hooks
    \/ \E m \in {"tav-open", "tav-close", "tav-update"} : EnterMethod(m)
    \/ LeaveMethod \/ WritePage
    \/ \E p \in Pages \cup {-1} : set_page(p)
    \/ SetPageReturns
ProbeSpec == ProbeInit /\ [][ProbeNext]_probeVars

-----------------------------------------------------------------------------
(***************************************************************************)
(* A MISSED line means what it says, wherever the installation stopped:    *)
(* the page was written past every hook that is in place                   *)
(* (tavern_update_hook, set_page_logger, the comment of                    *)
(* TAVERN_VTABLE_OFFSET) - unless a hooked method was called inside        *)
(* another one.  An update inside open, close or set_page sees the page    *)
(* before their hooks have told, or before it is written, and reports a    *)
(* page that nobody missed.                                                *)
(***************************************************************************)
MissedIsTrue == log_line = "tav-MISSED" => escaped \/ overlap
=============================================================================
