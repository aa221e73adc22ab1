---------------------------- MODULE CrashReporter ----------------------------
(***************************************************************************)
(* When the crash reporter writes a report and when it stays silent        *)
(* (src/mod-crash-reporter/src/ffi.rs, report): threads of the game raise  *)
(* exceptions; the vectored handler sees each one first, then the frames   *)
(* of the thread may swallow it, and what nobody swallows reaches the      *)
(* unhandled filter and takes the process down. Both entries run the same  *)
(* routine, which one thread at a time may be in.                          *)
(*                                                                         *)
(* A fault is what the routine tells apart: whether its code is fatal,     *)
(* whether it is an access violation, what its address and the return      *)
(* address on the stack belong to, and an identity that stands for code,   *)
(* address and stack pointer together. The text of a report is left out:   *)
(* an entry of the log is the fault it is about.                           *)
(***************************************************************************)
EXTENDS Integers, Sequences, FiniteSets

CONSTANTS
    Threads,
    Faults,     \* the exceptions the game can raise
    fatal,      \* the faults of a fatal code that are not C++ throws
    av,         \* the access violations among them
    eip_in,     \* fault -> "windows", "game" or "nowhere"
    caller_in,  \* fault -> where the dword at the stack pointer points, or "unreadable"
    MaxReports, \* bound: reports written
    MaxFaults   \* bound: exceptions raised, nested ones included

ASSUME FaultsAssumption ==
    /\ fatal \subseteq Faults /\ av \subseteq fatal
    /\ eip_in \in [Faults -> {"windows", "game", "nowhere"}]
    /\ caller_in \in [Faults -> {"windows", "game", "unreadable"}]

VARIABLES
    pc,         \* where each thread is
    fault,      \* thread -> the exception being dispatched for it
    down,       \* the process is gone
    IN_HANDLER,
    LAST,       \* [index, fault] of the report written last
    REPORT_COUNT,
    log,        \* the file: [mark, index, fault, unhandled]
    raised,     \* exceptions raised so far
    silent      \* history: threads whose exception found the routine occupied or the file closed

reportVars == <<pc, fault, down, IN_HANDLER, LAST, REPORT_COUNT, log, raised, silent>>

NoFault == "no fault"
NoReport == [index |-> -1, fault |-> NoFault]
Chances == {"first chance", "unhandled"}

\* pc: running, at one of the two entries, inside the routine from one of them, or between
\* the two while the frames are searched.
Entered(c) == [at |-> "entered", chance |-> c]
Inside(c) == [at |-> "inside", chance |-> c]
Running == [at |-> "running"]
Searching == [at |-> "searching"]
Crashed == [at |-> "crashed"]

After(c) == IF c = "first chance" THEN Searching ELSE Crashed
InRoutine(t) == pc[t].at \in {"inside", "marking", "writing", "leaving"}

-----------------------------------------------------------------------------
Raise(t, f) ==
    /\ ~down /\ pc[t] = Running
    /\ raised < MaxFaults
    /\ raised' = raised + 1
    /\ fault' = [fault EXCEPT ![t] = f]
    /\ pc' = [pc EXCEPT ![t] = Entered("first chance")]
    /\ silent' = silent \ {t}
    /\ UNCHANGED <<down, IN_HANDLER, LAST, REPORT_COUNT, log>>

\* Whether what an address belongs to is a module loaded from the Windows directory; an
\* address in no module, or one that could not be read, is not.
is_windows_system_code(place) == place = "windows"

\* Faulty variant: the filter skips what the first chance skips.
skipsAlways(f, chance) ==
    \/ f \notin fatal
    \/ f \in av /\ (eip_in[f] = "windows" \/ (eip_in[f] = "nowhere" /\ caller_in[f] = "windows"))

\* Routine exceptions, and at the first chance the access violations of Windows' own code:
\* at an address in one of its modules, or in none with a return address in one.
skips(f, chance) ==
    \/ f \notin fatal
    \/ /\ chance = "first chance" /\ f \in av
       /\ \/ is_windows_system_code(eip_in[f])
          \/ eip_in[f] = "nowhere" /\ is_windows_system_code(caller_in[f])

Skip(t) ==
    /\ ~down /\ pc[t].at = "entered"
    /\ skips(fault[t], pc[t].chance)
    /\ pc' = [pc EXCEPT ![t] = After(pc[t].chance)]
    /\ UNCHANGED <<fault, down, IN_HANDLER, LAST, REPORT_COUNT, log, raised, silent>>

\* The swap finds the routine occupied, by this thread or another one.
Bail(t) ==
    /\ ~down /\ pc[t].at = "entered"
    /\ ~skips(fault[t], pc[t].chance)
    /\ IN_HANDLER
    /\ pc' = [pc EXCEPT ![t] = After(pc[t].chance)]
    /\ silent' = silent \cup {t}
    /\ UNCHANGED <<fault, down, IN_HANDLER, LAST, REPORT_COUNT, log, raised>>

Enter(t) ==
    /\ ~down /\ pc[t].at = "entered"
    /\ ~skips(fault[t], pc[t].chance)
    /\ ~IN_HANDLER
    /\ IN_HANDLER' = TRUE
    /\ pc' = [pc EXCEPT ![t] = Inside(pc[t].chance)]
    /\ UNCHANGED <<fault, down, LAST, REPORT_COUNT, log, raised, silent>>

\* Faulty variant: any report of this process is taken for the first chance's.
repeatsAny(f, chance) == chance = "unhandled" /\ LAST # NoReport

\* The filter sees a fault again that the first chance has reported.
repeat(f, chance) == chance = "unhandled" /\ LAST # NoReport /\ LAST.fault = f

\* The decision, and with it who was reported last; nobody else is in here meanwhile.
Decide(t) ==
    /\ ~down /\ pc[t].at = "inside"
    /\ IF repeat(fault[t], pc[t].chance)
       THEN /\ pc' = [pc EXCEPT ![t].at = "marking"]
            /\ UNCHANGED <<LAST, REPORT_COUNT>>
       ELSE /\ REPORT_COUNT < MaxReports
            /\ LAST' = [index |-> REPORT_COUNT, fault |-> fault[t]]
            /\ REPORT_COUNT' = REPORT_COUNT + 1
            /\ pc' = [pc EXCEPT ![t].at = "writing"]
    /\ UNCHANGED <<fault, down, IN_HANDLER, log, raised, silent>>

\* A file that cannot be opened is let be.
append(t, entry) ==
    /\ \/ log' = log \o <<entry>> /\ UNCHANGED silent
       \/ log' = log /\ silent' = silent \cup {t}
    /\ pc' = [pc EXCEPT ![t].at = "leaving"]
    /\ UNCHANGED <<fault, down, IN_HANDLER, LAST, REPORT_COUNT, raised>>

Mark(t) ==
    /\ ~down /\ pc[t].at = "marking"
    /\ append(t, [mark |-> TRUE, index |-> LAST.index, fault |-> fault[t], unhandled |-> TRUE])

write_report(t) ==
    /\ ~down /\ pc[t].at = "writing"
    /\ append(t, [mark |-> FALSE, index |-> LAST.index, fault |-> fault[t],
                  unhandled |-> pc[t].chance = "unhandled"])

Leave(t) ==
    /\ ~down /\ pc[t].at = "leaving"
    /\ IN_HANDLER' = FALSE
    /\ pc' = [pc EXCEPT ![t] = After(pc[t].chance)]
    /\ UNCHANGED <<fault, down, LAST, REPORT_COUNT, log, raised, silent>>

\* Memory found readable goes away before it is read: the routine itself faults, and is
\* unwound by whoever swallows that.
NestedFault(t, f) ==
    /\ ~down /\ pc[t].at = "writing"
    /\ raised < MaxFaults
    /\ f \in av /\ eip_in[f] = "game"
    /\ raised' = raised + 1
    /\ fault' = [fault EXCEPT ![t] = f]
    /\ pc' = [pc EXCEPT ![t] = Entered("first chance")]
    /\ UNCHANGED <<down, IN_HANDLER, LAST, REPORT_COUNT, log, silent>>

-----------------------------------------------------------------------------
(* The game and the system.                                                *)

SwallowFault(t) ==
    /\ ~down /\ pc[t] = Searching
    /\ pc' = [pc EXCEPT ![t] = Running]
    /\ fault' = [fault EXCEPT ![t] = NoFault]
    /\ UNCHANGED <<down, IN_HANDLER, LAST, REPORT_COUNT, log, raised, silent>>

\* No frame takes it. A C++ throw nobody catches ends here as well.
Unhandled(t) ==
    /\ ~down /\ pc[t] = Searching
    /\ pc' = [pc EXCEPT ![t] = Entered("unhandled")]
    /\ UNCHANGED <<fault, down, IN_HANDLER, LAST, REPORT_COUNT, log, raised, silent>>

\* The filter asks to go on searching: the process ends, whatever the other threads are at.
Die(t) ==
    /\ ~down /\ pc[t] = Crashed
    /\ down' = TRUE
    /\ UNCHANGED <<pc, fault, IN_HANDLER, LAST, REPORT_COUNT, log, raised, silent>>

ReportInit ==
    /\ pc = [t \in Threads |-> Running]
    /\ fault = [t \in Threads |-> NoFault]
    /\ down = FALSE
    /\ IN_HANDLER = FALSE
    /\ LAST = NoReport
    /\ REPORT_COUNT = 0
    /\ log = << >>
    /\ raised = 0
    /\ silent = {}

report(t) == Skip(t) \/ Bail(t) \/ Enter(t) \/ Decide(t) \/ Mark(t) \/ write_report(t) \/ Leave(t)

ReportNext ==
    \E t \in Threads :
        \/ \E f \in Faults : Raise(t, f) \/ NestedFault(t, f)
        \/ report(t)
        \/ SwallowFault(t) \/ Unhandled(t) \/ Die(t)

ReportSpec == ReportInit /\ [][ReportNext]_reportVars

-----------------------------------------------------------------------------
(* Properties.                                                             *)

\* A line "report n was UNHANDLED" is about the fault of report n, whatever other threads
\* have reported between the two chances, and report n is the last one in the file; only a
\* file that did not open at the time lacks it.
MarksNameTheirReport ==
    \A i \in DOMAIN log : log[i].mark =>
        \A j \in 1 .. i - 1 :
            /\ log[j].index = log[i].index => log[j].fault = log[i].fault
            /\ log[j].index <= log[i].index

Killers == {t \in Threads : pc[t] = Crashed}
Told(t) == \E i \in DOMAIN log : log[i].fault = fault[t] /\ log[i].unhandled

\* "An exception that actually kills the process still gets its full report from the
\* unhandled filter, which is never skipped" (ffi.rs): what goes past the filter and is of
\* a fatal code is in the file as what the process went down on, for every thread it happens
\* to, unless the routine was occupied or the file did not open.
DeathIsTold == \A t \in Killers : fault[t] \in fatal => Told(t) \/ t \in silent

\* As the comment has it, without an exception.
KillerIsReported == \A t \in Killers : fault[t] \in fatal => Told(t)
=============================================================================
