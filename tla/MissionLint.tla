------------------------------ MODULE MissionLint ------------------------------
(***************************************************************************)
(* The linter of mission scripts (src/p2mcli/src/main.rs) beside the       *)
(* interpreter whose scripts it judges without running them. The           *)
(* interpreter is the game's, external, as the decoder's table and its     *)
(* notes describe it.                                                      *)
(*                                                                         *)
(* Opcodes of one kind are one command; a value is a number, which an      *)
(* indirect command takes for a variable, and whether a command that       *)
(* yields towns has produced it.                                           *)
(***************************************************************************)
EXTENDS Integers, Sequences, SequencesExt, FiniteSetsExt

CONSTANTS
    Variables,   \* 0..n-1
    Scripts      \* bound: the scripts that are linted, sequences of commands

VARIABLES script, ip, variables

lintVars == <<script, ip, variables>>

-----------------------------------------------------------------------------
(* The linter.                                                             *)

\* Which operand a command writes, and the kind of what it writes; Everywhere stands for an
\* indirect store, which may hit every variable.
Everywhere == 0
WRITERS == [town |-> {<<1, "TOWN">>}, literal |-> {<<1, "immediate">>}, sum |-> {<<1, "arith">>},
            load |-> {<<1, "indirect">>}, store |-> {<<Everywhere, "indirect">>},
            letter |-> {}, branch |-> {}, restart |-> {}, end |-> {}]

TOWNISH == {"TOWN", "immediate", "indirect", "unknown"}

\* Faulty variant: a store writes the variable that holds the address.
writes_operand(c) == {<<c.operands[IF w[1] = Everywhere THEN 1 ELSE w[1]], w[2]>> : w \in WRITERS[c.kind]}

targets(c) ==
    UNION {IF w[1] = Everywhere THEN Variables \X {w[2]} ELSE {<<c.operands[w[1]], w[2]>>} : w \in WRITERS[c.kind]}

\* The variables a command may write, with the kind. In an unknown command every operand
\* that looks like a variable is one it may write.
writes(c) ==
    IF c.kind \in DOMAIN WRITERS THEN targets(c)
    ELSE {<<o, "unknown">> : o \in Range(c.operands) \cap Variables}

writers(s, var) == {w[2] : w \in {u \in UNION {writes(s[i]) : i \in DOMAIN s} : u[1] = var}}

\* The letter at i is reported: its town is no variable, none a command writes, or none a
\* command writes a town into.
lint_reports(s, i) ==
    /\ s[i].kind = "letter"
    /\ \/ s[i].operands[1] \notin Variables
       \/ writers(s, s[i].operands[1]) \cap TOWNISH = {}

-----------------------------------------------------------------------------
(* The interpreter.                                                        *)

Value(n, town) == [n |-> n, town |-> town]
Numbers == {Value(n, FALSE) : n \in Variables}
Towns == {Value(n, TRUE) : n \in Variables}

Command == script[ip]

Assign(var, value) == variables' = [variables EXCEPT ![var] = value]

\* What an unknown command does is unknown, but for what it writes.
Compute ==
    LET o == Command.operands
    IN  \/ Command.kind = "town" /\ \E t \in Towns : Assign(o[1], t)
        \/ Command.kind = "literal" /\ Assign(o[1], Value(o[2], FALSE))
        \/ Command.kind = "sum" /\ \E n \in Numbers : Assign(o[1], n)
        \/ Command.kind = "load" /\ Assign(o[1], variables[variables[o[2]].n])
        \/ Command.kind = "store" /\ Assign(variables[o[1]].n, variables[o[2]])
        \/ Command.kind = "unknown" /\ \E x \in Numbers \cup Towns : \E i \in DOMAIN o :
                                          o[i] \in Variables /\ Assign(o[i], x)
        \/ Command.kind \in {"unknown", "letter"} /\ variables' = variables

Step ==
    /\ ip \in DOMAIN script /\ ip # Len(script)
    /\ Compute
    /\ ip' = ip + 1
    /\ script' = script

\* A comparison goes either way; a goto is one that always goes.
Branch ==
    /\ Command.kind = "branch"
    /\ ip' \in {Command.operands[1], ip + 1}
    /\ UNCHANGED <<script, variables>>

\* The program counter goes back to the start, the variables stay.
Restart ==
    /\ Command.kind = "restart" \/ ip = Len(script)
    /\ ip' = 1
    /\ UNCHANGED <<script, variables>>

LintInit ==
    /\ script \in Scripts
    /\ ip = 1
    /\ variables = [var \in Variables |-> Value(0, FALSE)]

LintNext == Step \/ Branch \/ Restart

LintSpec == LintInit /\ [][LintNext]_lintVars

-----------------------------------------------------------------------------
\* "Report create-letter commands whose town variable never receives a town": when the
\* interpreter comes to a letter that the linter reports, its town operand does not hold
\* what a town-yielding command produced, over whatever jumps, restarts and indirect
\* stores it has got there. (A town that went through arithmetic counts as a number.)
ReportsAreTrue ==
    lint_reports(script, ip) => \/ Command.operands[1] \notin Variables
                                \/ ~variables[Command.operands[1]].town
=============================================================================
