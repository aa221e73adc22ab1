---------------------------- MODULE RemoteAgent ----------------------------
(***************************************************************************)
(* p3-agent: a library put into the running game by p3-agent-loader, which *)
(* takes commands over TCP.  Its threads: the loader's remote thread in    *)
(* start() or stop() (`agent`), a server thread per start() that accepts   *)
(* clients, one thread per client, and the game's own thread, which comes  *)
(* through the hooks and takes one command at a time from the channel.     *)
(*                                                                         *)
(* They share SERVER_STATUS and the CONTEXT mutex with the channel.  Of a  *)
(* command only its client is kept; a client's line is whole, or one the   *)
(* server refuses (wrong length, no hexadecimal, delivered in two parts,   *)
(* or a closed connection).                                                *)
(***************************************************************************)
EXTENDS Naturals, Sequences

CONSTANTS
    Clients,     \* client connections
    Servers,     \* 1..n: the n-th start() spawns server n
    HOOKS,       \* number of hooks start() installs, the first is the tick
    MAX_LINES    \* bound: lines a client sends

VARIABLES
    agent,         \* where the loader and start() or stop() are
    starts,        \* start() calls so far
    SERVER_STATUS, \* "initial", "running", "shutdown" or "finished"
    lock,          \* who holds CONTEXT: "none", "start" or a client
    queue,         \* commands in the channel
    hooks,         \* hooks that lead into the library
    server,        \* server thread n: "none", "spawned", "accepting", "joining", "ended"
    client,        \* client thread: "away", "reading", "sending", "ended"
    accepted,      \* the server that accepted the client, 0 before
    lines          \* lines each client may still send

agentVars == <<agent, starts, SERVER_STATUS, lock, queue, hooks, server, client,
               accepted, lines>>
shared == <<SERVER_STATUS, lock, queue>>
threads == <<server, client, accepted, lines>>

AgentInit ==
    /\ agent = "absent"
    /\ starts = 0
    /\ SERVER_STATUS = "initial"
    /\ lock = "none"
    /\ queue = <<>>
    /\ hooks = {}
    /\ server = [s \in Servers |-> "none"]
    /\ client = [c \in Clients |-> "away"]
    /\ accepted = [c \in Clients |-> 0]
    /\ lines = [c \in Clients |-> MAX_LINES]

(***************************************************************************)
(* start(): running again from here, then the context with a channel and a *)
(* server thread of its own, made under the lock and held to the end; the  *)
(* routes file may be missing and each hook refused, and what was done     *)
(* until then stays.  The loader does not look at the result.              *)
(***************************************************************************)
Load ==
    /\ agent \in {"absent", "failed"}
    /\ starts + 1 \in Servers
    /\ agent' = "locking"
    /\ starts' = starts + 1
    /\ SERVER_STATUS' = "running"
    /\ UNCHANGED <<lock, queue, hooks, threads>>

StartContext ==
    /\ agent = "locking"
    /\ lock = "none"
    /\ agent' = "hooking"
    /\ lock' = "start"
    /\ queue' = <<>>
    /\ server' = [server EXCEPT ![starts] = "spawned"]
    /\ UNCHANGED <<starts, SERVER_STATUS, hooks, client, accepted, lines>>

\* init_routes, then the hooks in their order; a second start() writes the
\* hooks the first one left once more.
StartHooks ==
    /\ agent = "hooking"
    /\ UNCHANGED <<starts, SERVER_STATUS, queue, threads>>
    /\ \E n \in 0..HOOKS :
        /\ hooks' = hooks \union 1..n
        /\ agent' = IF n = HOOKS THEN "started" ELSE "failed"
        /\ lock' = "none"

(***************************************************************************)
(* tick(): one command of the channel, under the lock; then the routes.    *)
(***************************************************************************)
Tick ==
    /\ agent # "freed"
    /\ 1 \in hooks
    /\ lock = "none"
    /\ queue # <<>>
    /\ queue' = Tail(queue)
    /\ UNCHANGED <<agent, starts, SERVER_STATUS, lock, hooks, threads>>

(***************************************************************************)
(* run_server: however accept_connections ends, the status says finished.  *)
(* An error of accept ends it without joining the clients' threads.        *)
(***************************************************************************)
Ends(s) ==
    /\ server' = [server EXCEPT ![s] = "ended"]
    /\ SERVER_STATUS' = "finished"

Bind(s) ==
    /\ server[s] = "spawned"
    /\ UNCHANGED <<lock, queue, client, accepted, lines>>
    /\ \/ /\ \A o \in Servers : server[o] # "accepting"
          /\ server' = [server EXCEPT ![s] = "accepting"]
          /\ UNCHANGED SERVER_STATUS
       \/ Ends(s)

Accept(s) ==
    /\ server[s] = "accepting"
    /\ UNCHANGED <<lock, queue, lines>>
    /\ \/ /\ SERVER_STATUS = "shutdown"
          /\ server' = [server EXCEPT ![s] = "joining"]
          /\ UNCHANGED <<SERVER_STATUS, client, accepted>>
       \/ /\ SERVER_STATUS # "shutdown"
          /\ \/ \E c \in Clients :
                 /\ client[c] = "away"
                 /\ client' = [client EXCEPT ![c] = "reading"]
                 /\ accepted' = [accepted EXCEPT ![c] = s]
                 /\ UNCHANGED <<SERVER_STATUS, server>>
             \/ Ends(s) /\ UNCHANGED <<client, accepted>>

Join(s) ==
    /\ server[s] = "joining"
    /\ \A c \in Clients : accepted[c] = s => client[c] = "ended"
    /\ Ends(s)
    /\ UNCHANGED <<lock, queue, client, accepted, lines>>

(***************************************************************************)
(* handle_client: the status is looked at before every read.  A whole line *)
(* goes into the channel under the lock and is answered under it; when the *)
(* answer cannot be written the command stays queued and the client is     *)
(* dropped.                                                                *)
(***************************************************************************)
\* Faulty variant: only the accept loop looks at the status.
noticesNothing(c) == FALSE

noticesShutdown(c) == SERVER_STATUS = "shutdown"

Leave(c) ==
    /\ client[c] = "reading"
    /\ noticesShutdown(c)
    /\ client' = [client EXCEPT ![c] = "ended"]
    /\ UNCHANGED <<SERVER_STATUS, lock, queue, server, accepted, lines>>

Read(c) ==
    /\ client[c] = "reading"
    /\ ~noticesShutdown(c)
    /\ \/ /\ lines[c] > 0
          /\ client' = [client EXCEPT ![c] = "locking"]
          /\ lines' = [lines EXCEPT ![c] = @ - 1]
       \/ /\ client' = [client EXCEPT ![c] = "ended"]       \* refused
          /\ UNCHANGED lines
    /\ UNCHANGED <<shared, server, accepted>>

Queue(c) ==
    /\ client[c] = "locking"
    /\ lock = "none"
    /\ lock' = c
    /\ queue' = Append(queue, c)
    /\ client' = [client EXCEPT ![c] = "answering"]
    /\ UNCHANGED <<SERVER_STATUS, server, accepted, lines>>

Answer(c) ==
    /\ client[c] = "answering"
    /\ lock' = "none"
    /\ \E after \in {"reading", "ended"} : client' = [client EXCEPT ![c] = after]
    /\ UNCHANGED <<SERVER_STATUS, queue, server, accepted, lines>>

ServerThread(s) ==
    /\ agent # "freed"
    /\ Bind(s) \/ Accept(s) \/ Join(s)
    /\ UNCHANGED <<agent, starts, hooks>>

ClientThread(c) ==
    /\ agent # "freed"
    /\ Leave(c) \/ Queue(c) \/ Answer(c)
    /\ UNCHANGED <<agent, starts, hooks>>

Incoming(c) ==
    /\ agent # "freed"
    /\ Read(c)
    /\ UNCHANGED <<agent, starts, hooks>>

(***************************************************************************)
(* stop(): the hooks in their order, any of them may be refused; then the  *)
(* status, and a wait for the server's thread to say finished.  The loader *)
(* frees the library whatever stop() said.                                 *)
(***************************************************************************)
Unload ==
    /\ agent \in {"started", "failed"}
    /\ \E n \in 0..HOOKS :
        /\ hooks' = hooks \ 1..n
        /\ IF n = HOOKS
           THEN agent' = "waiting" /\ SERVER_STATUS' = "shutdown"
           ELSE agent' = "stopped" /\ UNCHANGED SERVER_STATUS
    /\ UNCHANGED <<starts, lock, queue, threads>>

StopWait ==
    /\ agent = "waiting"
    /\ SERVER_STATUS = "finished"
    /\ agent' = "stopped"
    /\ UNCHANGED <<starts, shared, hooks, threads>>

FreeLibrary ==
    /\ agent = "stopped"
    /\ agent' = "freed"
    /\ UNCHANGED <<starts, shared, hooks, threads>>

AgentNext ==
    \/ Load \/ StartContext \/ StartHooks
    \/ Tick
    \/ \E s \in Servers : ServerThread(s)
    \/ \E c \in Clients : ClientThread(c) \/ Incoming(c)
    \/ Unload \/ StopWait \/ FreeLibrary

\* The operating system runs the library's threads; nobody owes it a client,
\* a line, a tick or an unload.
AgentFairness ==
    /\ WF_agentVars(StartContext) /\ WF_agentVars(StartHooks)
    /\ WF_agentVars(StopWait)
    /\ \A s \in Servers : WF_agentVars(ServerThread(s))
    /\ \A c \in Clients : WF_agentVars(ClientThread(c))

AgentSpec == AgentInit /\ [][AgentNext]_agentVars /\ AgentFairness

-----------------------------------------------------------------------------
(***************************************************************************)
(* stop() comes back when a server is still there to hear it: every client *)
(* thread leaves its connection, idle ones and those in the middle of a    *)
(* command included, the server joins them and says finished.  Without one *)
(* (its port was taken, or accept failed) nobody ever says it again.       *)
(***************************************************************************)
Listening == \E s \in Servers : server[s] \in {"spawned", "accepting", "joining"}

StopEnds == (agent = "waiting" /\ Listening) ~> (agent # "waiting")
=============================================================================
