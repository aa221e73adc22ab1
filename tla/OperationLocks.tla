--------------------------- MODULE OperationLocks ---------------------------
(***************************************************************************)
(* The two spin locks mod-fix-multiplayer-locks puts in place of the       *)
(* game's own (mod-fix-multiplayer-locks/src/lib.rs, ffi.rs): one around   *)
(* the operations pending to be sent, one around the operations about to   *)
(* be executed.  The game's thread inserts into the first and drains the   *)
(* second; the thread of a network session moves operations from one to    *)
(* the other.  Every critical section is a read and a write: what the lock *)
(* is for is that nobody else writes between the two.                      *)
(*                                                                         *)
(* The bodies of the sections are the game's and are modelled from what    *)
(* the patched sites are called in start().                                *)
(***************************************************************************)
EXTENDS Naturals, Sequences, SequencesExt

CONSTANTS
    Game,        \* the thread that runs the game
    Networkers,  \* the threads of a session
    MaxOps       \* bound: operations enqueued in a behaviour

\* One thread plays; it is none of the session's.
ASSUME LocksAssumption == Game \notin Networkers /\ MaxOps \in Nat

VARIABLES
    PENDING_OPS_LOCK, CURRENT_OPS_LOCK,
    session,     \* the mode bits of the operations object: is this a multiplayer game
    pending,     \* operations enqueued here
    current,     \* operations agreed on, to be executed
    position,    \* how many of current the drain has executed
    underway,    \* operations between the two: collected by the host, or on the wire
    gamePc,      \* where the game thread is: between drains or in one
    insertPc,    \* where it is in inserting an operation, in a drain or outside
    netPc,       \* where each networker is
    copy,        \* what each thread has read in the section it is in
    aborted,     \* a thread has panicked
    enqueued, executed  \* history

locks == <<PENDING_OPS_LOCK, CURRENT_OPS_LOCK>>
queues == <<pending, current, position, underway>>
history == <<enqueued, executed>>
vars == <<locks, session, queues, gamePc, insertPc, netPc, copy, aborted, history>>

Threads == {Game} \cup Networkers
multiplayer == session # "single"

GamePcs == {"idle", "executing", "drained", "transfer"}
InsertPcs == {"no", "calling", "read", "written"}
NetPcs == {"idle", "collecting", "collected", "move", "moving", "moved",
           "sending", "sent", "receiving", "received"}

TypeOK ==
    /\ PENDING_OPS_LOCK \in {0, 1} /\ CURRENT_OPS_LOCK \in {0, 1}
    /\ session \in {"single", "host", "client"}
    /\ pending \in Seq(Nat) /\ current \in Seq(Nat) /\ underway \in Seq(Nat)
    /\ position \in Nat
    /\ gamePc \in GamePcs /\ insertPc \in InsertPcs
    /\ netPc \in [Networkers -> NetPcs]
    /\ copy \in [Threads -> Seq(Nat)]
    /\ aborted \in BOOLEAN
    /\ enqueued \in Seq(Nat) /\ executed \in Seq(Nat)

Init ==
    /\ PENDING_OPS_LOCK = 0 /\ CURRENT_OPS_LOCK = 0
    /\ session = "single"
    /\ pending = <<>> /\ current = <<>> /\ underway = <<>> /\ position = 0
    /\ gamePc = "idle" /\ insertPc = "no"
    /\ netPc = [n \in Networkers |-> "idle"]
    /\ copy = [t \in Threads |-> <<>>]
    /\ aborted = FALSE
    /\ enqueued = <<>> /\ executed = <<>>

-----------------------------------------------------------------------------
(* The locks.  l and the lock's next value are passed as a pair because an  *)
(* operator cannot prime its argument.                                      *)

\* lock: a compare-and-exchange in a loop, so the caller waits for 0.
lock(l, next) == l = 0 /\ next = 1

\* try_lock: one compare-and-exchange.  When it fails the caller leaves its section out
\* and comes again later, so only the success is a step.
try_lock(l, next) == l = 0 /\ next = 1

\* unlock_pending, unlock_current: in a multiplayer game the exchange must have found the
\* lock taken, or the thread panics; otherwise the lock is cleared whatever it was.
unlock(l, next) ==
    /\ next = 0
    /\ aborted' = (multiplayer /\ l # 1)

\* Whether a patched site sits behind the game's own test for a multiplayer game is the
\* game's affair ("Unlock ops are often not guarded by the mp check"): in a single player
\* game the lock may be taken or passed by.
lock_site(l, next) == lock(l, next) \/ (~multiplayer /\ next = l)

lock_pending == lock_site(PENDING_OPS_LOCK, PENDING_OPS_LOCK') /\ UNCHANGED CURRENT_OPS_LOCK
lock_current == lock_site(CURRENT_OPS_LOCK, CURRENT_OPS_LOCK') /\ UNCHANGED PENDING_OPS_LOCK
try_lock_current == try_lock(CURRENT_OPS_LOCK, CURRENT_OPS_LOCK') /\ UNCHANGED PENDING_OPS_LOCK
unlock_pending == unlock(PENDING_OPS_LOCK, PENDING_OPS_LOCK') /\ UNCHANGED CURRENT_OPS_LOCK
unlock_current == unlock(CURRENT_OPS_LOCK, CURRENT_OPS_LOCK') /\ UNCHANGED PENDING_OPS_LOCK

-----------------------------------------------------------------------------
(* The game thread: inserting.                                              *)

\* Somebody enqueues: a click, a mod's key, or, in the middle of a drain, an operation
\* that advances the time and with it a hook such as the thaw's.
Enqueue ==
    /\ insertPc = "no" /\ gamePc \in {"idle", "executing"}
    /\ Len(enqueued) < MaxOps
    /\ insertPc' = "calling"
    /\ UNCHANGED <<locks, session, queues, gamePc, netPc, copy, aborted, history>>

\* insert_into_pending_operations_wrapper up to its write.
InsertLocks ==
    /\ insertPc = "calling"
    /\ lock_pending
    /\ copy' = [copy EXCEPT ![Game] = pending]
    /\ insertPc' = "read"
    /\ UNCHANGED <<session, queues, gamePc, netPc, aborted, history>>

InsertWrites ==
    LET op == Len(enqueued) + 1 IN
    /\ insertPc = "read"
    /\ pending' = Append(copy[Game], op)
    /\ enqueued' = Append(enqueued, op)
    /\ insertPc' = "written"
    /\ UNCHANGED <<locks, session, current, position, underway, gamePc, netPc, copy,
                   aborted, executed>>

InsertUnlocks ==
    /\ insertPc = "written"
    /\ unlock_pending
    /\ insertPc' = "no"
    /\ UNCHANGED <<session, queues, gamePc, netPc, copy, history>>

-----------------------------------------------------------------------------
(* The game thread: draining.                                               *)

\* A single player game has no session to move the operations, and nobody to lock out.
MoveAlone ==
    /\ ~multiplayer /\ gamePc = "idle" /\ insertPc = "no"
    /\ pending # <<>>
    /\ current' = current \o pending
    /\ pending' = <<>>
    /\ UNCHANGED <<locks, session, position, underway, gamePc, insertPc, netPc, copy,
                   aborted, history>>

\* execute_operations up to its loop.
DrainLocks ==
    /\ gamePc = "idle" /\ insertPc = "no"
    /\ lock_current
    /\ gamePc' = "executing"
    /\ UNCHANGED <<session, queues, insertPc, netPc, copy, aborted, history>>

ExecuteOne ==
    /\ gamePc = "executing" /\ insertPc = "no"
    /\ position < Len(current)
    /\ executed' = Append(executed, current[position + 1])
    /\ position' = position + 1
    /\ UNCHANGED <<locks, session, pending, current, underway, gamePc, insertPc, netPc,
                   copy, aborted, enqueued>>

\* Faulty variant: the array keeps its operations.
DrainResets_not ==
    /\ gamePc = "executing" /\ insertPc = "no"
    /\ position >= Len(current)
    /\ position' = 0
    /\ gamePc' = "drained"
    /\ UNCHANGED <<locks, session, pending, current, underway, insertPc, netPc, copy,
                   aborted, history>>
\* Faulty variant: the patched site is inside the loop, so an iteration may end the drain.
DrainResets_early ==
    /\ gamePc = "executing" /\ insertPc = "no"
    /\ current' = <<>> /\ position' = 0
    /\ gamePc' = "drained"
    /\ UNCHANGED <<locks, session, pending, underway, insertPc, netPc, copy, aborted,
                   history>>
\* The first half of execute_operations_unlock_current: the array is emptied under the
\* lock.
DrainResets ==
    /\ gamePc = "executing" /\ insertPc = "no"
    /\ position >= Len(current)
    /\ current' = <<>> /\ position' = 0
    /\ gamePc' = "drained"
    /\ UNCHANGED <<locks, session, pending, underway, insertPc, netPc, copy, aborted,
                   history>>

\* Its second half: the lock is given back, and only then a route that was loaded is
\* transferred.
DrainUnlocks ==
    /\ gamePc = "drained"
    /\ unlock_current
    /\ gamePc' = "idle" \/ (Len(enqueued) < MaxOps /\ gamePc' = "transfer")
    /\ UNCHANGED <<session, queues, insertPc, netPc, copy, history>>

\* transfer_loaded_traderoute enqueues the operations that replace the route.
TransferRoute ==
    /\ gamePc = "transfer"
    /\ gamePc' = "idle"
    /\ insertPc' = "calling"
    /\ UNCHANGED <<locks, session, queues, netPc, copy, aborted, history>>

GameStep ==
    \/ InsertLocks \/ InsertWrites \/ InsertUnlocks
    \/ ExecuteOne \/ DrainResets \/ DrainUnlocks \/ TransferRoute

-----------------------------------------------------------------------------
(* The session's thread in the host.                                        *)

\* Where networker n goes, with nothing but the named variables changing.
Goes(n, from, to) == netPc[n] = from /\ netPc' = [netPc EXCEPT ![n] = to]

\* receive_from_all_and_own_pending
HostLocksPending(n) ==
    /\ session = "host" /\ Goes(n, "idle", "collecting")
    /\ lock_pending
    /\ copy' = [copy EXCEPT ![n] = pending]
    /\ UNCHANGED <<session, queues, gamePc, insertPc, aborted, history>>

HostCollects(n) ==
    /\ Goes(n, "collecting", "collected")
    /\ pending' = <<>>
    /\ underway' = underway \o copy[n]
    /\ UNCHANGED <<locks, session, current, position, gamePc, insertPc, copy, aborted,
                   history>>

HostUnlocksPending(n) ==
    /\ Goes(n, "collected", "move")
    /\ unlock_pending
    /\ UNCHANGED <<session, queues, gamePc, insertPc, copy, history>>

\* send_to_all_and_move_to_current_ops
HostLocksCurrent(n) ==
    /\ Goes(n, "move", "moving")
    /\ lock_current
    /\ copy' = [copy EXCEPT ![n] = current]
    /\ UNCHANGED <<session, queues, gamePc, insertPc, aborted, history>>

HostMoves(n) ==
    /\ Goes(n, "moving", "moved")
    /\ current' = copy[n] \o underway
    /\ underway' = <<>>
    /\ UNCHANGED <<locks, session, pending, position, gamePc, insertPc, copy, aborted,
                   history>>

HostUnlocksCurrent(n) ==
    /\ Goes(n, "moved", "idle")
    /\ unlock_current
    /\ UNCHANGED <<session, queues, gamePc, insertPc, copy, history>>

-----------------------------------------------------------------------------
(* The session's thread in a client.                                        *)

\* client_send_pending_operations
ClientLocksPending(n) ==
    /\ session = "client" /\ Goes(n, "idle", "sending")
    /\ lock_pending
    /\ copy' = [copy EXCEPT ![n] = pending]
    /\ UNCHANGED <<session, queues, gamePc, insertPc, aborted, history>>

\* The host will send the operations back among everybody's.
ClientSends(n) ==
    /\ Goes(n, "sending", "sent")
    /\ pending' = <<>>
    /\ underway' = underway \o copy[n]
    /\ UNCHANGED <<locks, session, current, position, gamePc, insertPc, copy, aborted,
                   history>>

\* Two sites unlock: one after sending, one on the way out without having sent.
ClientUnlocksPending(n) ==
    /\ Goes(n, "sent", "idle") \/ Goes(n, "sending", "idle")
    /\ unlock_pending
    /\ UNCHANGED <<session, queues, gamePc, insertPc, copy, history>>

\* client_receive_from_host
ClientTriesCurrent(n) ==
    /\ session = "client" /\ Goes(n, "idle", "receiving")
    /\ underway # <<>>
    /\ try_lock_current
    /\ copy' = [copy EXCEPT ![n] = current]
    /\ UNCHANGED <<session, queues, gamePc, insertPc, aborted, history>>

ClientReceives(n) ==
    /\ Goes(n, "receiving", "received") /\ underway # <<>>
    /\ current' = Append(copy[n], Head(underway))
    /\ underway' = Tail(underway)
    /\ UNCHANGED <<locks, session, pending, position, gamePc, insertPc, copy, aborted,
                   history>>

ClientUnlocksCurrent(n) ==
    /\ Goes(n, "received", "idle")
    /\ unlock_current
    /\ UNCHANGED <<session, queues, gamePc, insertPc, copy, history>>

NetStep(n) ==
    \/ HostCollects(n) \/ HostUnlocksPending(n) \/ HostLocksCurrent(n)
    \/ HostMoves(n) \/ HostUnlocksCurrent(n)
    \/ ClientSends(n) \/ ClientUnlocksPending(n)
    \/ ClientReceives(n) \/ ClientUnlocksCurrent(n)

-----------------------------------------------------------------------------
\* A session starts or ends while no thread is in a section and nothing is on the wire.
AllIdle ==
    /\ gamePc = "idle" /\ insertPc = "no"
    /\ \A n \in Networkers : netPc[n] = "idle"

SessionChanges ==
    /\ AllIdle /\ underway = <<>>
    /\ IF multiplayer THEN session' = "single" ELSE session' \in {"host", "client"}
    /\ UNCHANGED <<locks, queues, gamePc, insertPc, netPc, copy, aborted, history>>

\* A panic cannot leave a function the game calls: it ends the process.
Next ==
    /\ ~aborted
    /\ \/ Enqueue \/ MoveAlone \/ DrainLocks \/ GameStep
       \/ \E n \in Networkers :
             HostLocksPending(n) \/ ClientLocksPending(n) \/ ClientTriesCurrent(n) \/ NetStep(n)
       \/ SessionChanges

Spec == Init /\ [][Next]_vars

(***************************************************************************)
(* Fairness.  Threads run on: what they have begun they go on with.  A     *)
(* thread that finds a lock free again and again gets it in the end (the   *)
(* loop of lock has no queue, so weak fairness would leave it out for      *)
(* ever), the game keeps draining, a host keeps serving.                   *)
(***************************************************************************)
FairSpec ==
    /\ Spec
    /\ SF_vars(~aborted /\ InsertLocks) /\ SF_vars(~aborted /\ DrainLocks)
    /\ WF_vars(~aborted /\ GameStep) /\ SF_vars(~aborted /\ MoveAlone)
    /\ \A n \in Networkers :
          /\ WF_vars(~aborted /\ NetStep(n))
          /\ SF_vars(~aborted /\ HostLocksPending(n))
          /\ SF_vars(~aborted /\ HostLocksCurrent(n))

-----------------------------------------------------------------------------
(* Properties                                                               *)

\* Thread t is between reading and unlocking the pending, the current operations.
InPending(t) ==
    IF t = Game THEN insertPc \in {"read", "written"}
    ELSE netPc[t] \in {"collecting", "collected", "sending", "sent"}
InCurrent(t) ==
    IF t = Game THEN gamePc \in {"executing", "drained"}
    ELSE netPc[t] \in {"moving", "moved", "receiving", "received"}

\* No two threads are ever in a section of the same lock, in whatever session.  What
\* breaks it is an unlock that is not matched by a lock: the single player branch clears
\* the lock without asking.
OneInside ==
    \A t, u \in Threads : t # u => /\ ~(InPending(t) /\ InPending(u))
                                   /\ ~(InCurrent(t) /\ InCurrent(u))

\* No thread ever unlocks what is not locked, although the sites lock without a look at
\* the session and unlock with one: "Cannot unlock, lock is dirty" never ends the game.
NeverDirty == ~aborted

\* Every operation enqueued is executed once, in the order of enqueueing: at any moment
\* those executed, those to be executed, those underway and those pending make up all
\* that were enqueued.
NothingLostOrReordered ==
    enqueued = executed \o SubSeq(current, position + 1, Len(current)) \o underway \o pending

\* Alone or as the host, whatever is enqueued is executed in the end, although the drain
\* holds one lock while the operations it executes wait for the other.  A client only tries
\* the lock the drain holds, and nothing makes it try in a moment when the lock is free.
EveryOperationRuns ==
    \A k \in 1..MaxOps :
        Len(enqueued) >= k ~> Len(executed) >= k \/ session = "client"

=============================================================================
