------------------------ MODULE OperationLocksProofs ------------------------
(* Proofs about OperationLocks, for any set of session threads, and about OperationCodec, for  *)
(* all values that the fields of an operation may hold; and about BattleFlight, for any ships *)
(* and battles.                                                                               *)
EXTENDS BattleFlight, OperationLocks, OperationCodec, SequenceTheorems, TLAPS

LEMMA InitTyped == Init => TypeOK
<1> SUFFICES ASSUME Init PROVE TypeOK
  OBVIOUS
<1>1. <<>> \in Seq(Nat)
  OBVIOUS
<1>2. copy \in [Threads -> Seq(Nat)]
  BY <1>1, Zenon DEF Init
<1>3. netPc \in [Networkers -> NetPcs]
  BY DEF Init, NetPcs
<1> QED
  BY <1>1, <1>2, <1>3 DEF Init, TypeOK, GamePcs, InsertPcs

LEMMA StepTyped == TypeOK /\ [Next]_vars => TypeOK'
<1> SUFFICES ASSUME TypeOK, [Next]_vars PROVE TypeOK'
  OBVIOUS
<1> USE DEF TypeOK, Threads, GamePcs, InsertPcs, NetPcs
<1>1. CASE Enqueue
  BY <1>1 DEF Enqueue, locks, queues, history
<1>2. CASE InsertLocks
  BY <1>2 DEF InsertLocks, lock_pending, lock_site, lock, queues, history
<1>3. CASE InsertWrites
  BY <1>3 DEF InsertWrites, locks
<1>4. CASE InsertUnlocks
  BY <1>4 DEF InsertUnlocks, unlock_pending, unlock, multiplayer, queues, history
<1>5. CASE MoveAlone
  BY <1>5 DEF MoveAlone, locks, history
<1>6. CASE DrainLocks
  BY <1>6 DEF DrainLocks, lock_current, lock_site, lock, queues, history
<1>7. CASE ExecuteOne
  BY <1>7 DEF ExecuteOne, locks
<1>8. CASE DrainResets
  BY <1>8 DEF DrainResets, locks, history
<1>9. CASE DrainUnlocks
  BY <1>9 DEF DrainUnlocks, unlock_current, unlock, multiplayer, queues, history
<1>10. CASE TransferRoute
  BY <1>10 DEF TransferRoute, locks, queues, history
<1>11. CASE SessionChanges
  BY <1>11 DEF SessionChanges, locks, queues, history
<1>12. CASE UNCHANGED vars
  BY <1>12 DEF vars, locks, queues, history
<1>13. ASSUME NEW n \in Networkers, HostLocksPending(n) \/ ClientLocksPending(n)
       PROVE TypeOK'
  BY <1>13 DEF HostLocksPending, ClientLocksPending, Goes, lock_pending, lock_site, lock,
               queues, history
<1>14. ASSUME NEW n \in Networkers, HostLocksCurrent(n) \/ ClientTriesCurrent(n)
       PROVE TypeOK'
  BY <1>14 DEF HostLocksCurrent, ClientTriesCurrent, Goes, lock_current, lock_site, lock,
               try_lock_current, try_lock, queues, history
<1>15. ASSUME NEW n \in Networkers, HostCollects(n) \/ ClientSends(n)
       PROVE TypeOK'
  <2>1. copy[n] \in Seq(Nat)
    OBVIOUS
  <2>2. underway \o copy[n] \in Seq(Nat)
    BY <2>1
  <2>3. netPc' \in [Networkers -> NetPcs]
    BY <1>15 DEF HostCollects, ClientSends, Goes
  <2>4. underway' = underway \o copy[n] /\ pending' = <<>>
    BY <1>15 DEF HostCollects, ClientSends
  <2>5. UNCHANGED <<locks, session, current, position, gamePc, insertPc, copy, aborted,
     history>>
    BY <1>15, Zenon DEF HostCollects, ClientSends
  <2>6. <<>> \in Seq(Nat)
    OBVIOUS
  <2> QED
    BY <2>2, <2>3, <2>4, <2>5, <2>6 DEF locks, history
<1>16. ASSUME NEW n \in Networkers, HostMoves(n) \/ ClientReceives(n)
       PROVE TypeOK'
  <2>1. CASE HostMoves(n)
    BY <2>1 DEF HostMoves, Goes, locks, history
  <2>2. CASE ClientReceives(n)
    <3>1. copy[n] \in Seq(Nat) /\ Head(underway) \in Nat /\ Tail(underway) \in Seq(Nat)
      BY <2>2 DEF ClientReceives
    <3>2. Append(copy[n], Head(underway)) \in Seq(Nat)
      BY <3>1
    <3>3. netPc' \in [Networkers -> NetPcs]
      BY <2>2 DEF ClientReceives, Goes
    <3> QED
      BY <2>2, <3>1, <3>2, <3>3 DEF ClientReceives, locks, history
  <2> QED BY <1>16, <2>1, <2>2
<1>17. ASSUME NEW n \in Networkers, HostUnlocksPending(n) \/ ClientUnlocksPending(n)
       PROVE TypeOK'
  BY <1>17 DEF HostUnlocksPending, ClientUnlocksPending, Goes, unlock_pending, unlock,
               multiplayer, queues, history
<1>18. ASSUME NEW n \in Networkers, HostUnlocksCurrent(n) \/ ClientUnlocksCurrent(n)
       PROVE TypeOK'
  BY <1>18 DEF HostUnlocksCurrent, ClientUnlocksCurrent, Goes, unlock_current, unlock,
               multiplayer, queues, history
<1> QED
  BY <1>1, <1>2, <1>3, <1>4, <1>5, <1>6, <1>7, <1>8, <1>9, <1>10, <1>11, <1>12, <1>13,
     <1>14, <1>15, <1>16, <1>17, <1>18 DEF Next, GameStep, NetStep

\* Every variable keeps its type: in particular no read of a queue is ever outside it.
THEOREM TypeCorrect == Spec => []TypeOK
BY InitTyped, StepTyped, PTL DEF Spec

-----------------------------------------------------------------------------
(* Mutual exclusion.  The invariant relates each lock to who is inside: a lock that is     *)
(* set has somebody inside in any session; in a multiplayer game the converse holds too;   *)
(* in a single player game only the game thread runs, so that passing a lock by is safe.   *)

PendingSafe ==
    /\ PENDING_OPS_LOCK = 1 => \E t \in Threads : InPending(t)
    /\ multiplayer => \A t \in Threads : InPending(t) => PENDING_OPS_LOCK = 1
    /\ \A t, u \in Threads : t # u => ~(InPending(t) /\ InPending(u))

CurrentSafe ==
    /\ CURRENT_OPS_LOCK = 1 => \E t \in Threads : InCurrent(t)
    /\ multiplayer => \A t \in Threads : InCurrent(t) => CURRENT_OPS_LOCK = 1
    /\ \A t, u \in Threads : t # u => ~(InCurrent(t) /\ InCurrent(u))

\* Alone, the session's threads rest; a drain that ends is not inserting.
Sober ==
    /\ ~multiplayer => \A n \in Networkers : netPc[n] = "idle"
    /\ gamePc \in {"drained", "transfer"} => insertPc = "no"

LocksInv == TypeOK /\ PendingSafe /\ CurrentSafe /\ Sober /\ ~aborted

\* Sober depends on the program counters and the session only.
LEMMA SoberKept == TypeOK /\ Sober /\ [Next]_vars => Sober'
<1> SUFFICES ASSUME TypeOK, Sober, [Next]_vars PROVE Sober'
  OBVIOUS
<1> USE DEF Sober, multiplayer
<1>1. CASE Enqueue \/ MoveAlone \/ DrainLocks \/ GameStep
  BY <1>1 DEF Enqueue, MoveAlone, DrainLocks, GameStep, InsertLocks, InsertWrites,
              InsertUnlocks, ExecuteOne, DrainResets, DrainUnlocks, TransferRoute
<1>2. ASSUME NEW n \in Networkers, HostLocksPending(n) \/ ClientLocksPending(n)
                                   \/ ClientTriesCurrent(n) \/ NetStep(n)
      PROVE Sober'
  <2>1. UNCHANGED <<session, gamePc, insertPc>>
    BY <1>2 DEF HostLocksPending, ClientLocksPending, ClientTriesCurrent, NetStep,
                HostCollects, HostUnlocksPending, HostLocksCurrent, HostMoves,
                HostUnlocksCurrent, ClientSends, ClientUnlocksPending, ClientReceives,
                ClientUnlocksCurrent
  <2>2. multiplayer
    BY <1>2 DEF HostLocksPending, ClientLocksPending, ClientTriesCurrent, NetStep,
                HostCollects, HostUnlocksPending, HostLocksCurrent, HostMoves,
                HostUnlocksCurrent, ClientSends, ClientUnlocksPending, ClientReceives,
                ClientUnlocksCurrent, Goes
  <2> QED
    BY <2>1, <2>2
<1>3. CASE SessionChanges
  BY <1>3 DEF SessionChanges, AllIdle
<1>4. CASE UNCHANGED vars
  BY <1>4 DEF vars
<1> QED
  BY <1>1, <1>2, <1>3, <1>4 DEF Next

\* t is the only thread whose sections a step may change.
OnlyMoves(t) ==
    /\ multiplayer' = multiplayer
    /\ \A u \in Threads \ {t} : /\ InPending(u)' <=> InPending(u)
                                /\ InCurrent(u)' <=> InCurrent(u)

LEMMA GameMoves == UNCHANGED <<session, netPc>> => OnlyMoves(Game)
BY LocksAssumption DEF OnlyMoves, multiplayer, InPending, InCurrent, Threads

LEMMA NetMoves ==
    ASSUME TypeOK, NEW n \in Networkers, NEW from, NEW to, Goes(n, from, to),
           UNCHANGED <<session, gamePc, insertPc>>
    PROVE OnlyMoves(n)
BY LocksAssumption DEF OnlyMoves, multiplayer, InPending, InCurrent, Threads, Goes, TypeOK

\* A step that neither enters nor leaves a section and leaves its lock alone.
LEMMA PendingKept ==
    ASSUME PendingSafe, NEW t \in Threads, OnlyMoves(t),
           PENDING_OPS_LOCK' = PENDING_OPS_LOCK, InPending(t)' <=> InPending(t)
    PROVE PendingSafe'
<1>1. \A u \in Threads : InPending(u)' <=> InPending(u)
  BY DEF OnlyMoves
<1> QED
  BY <1>1, Zenon DEF PendingSafe, OnlyMoves, Threads

LEMMA CurrentKept ==
    ASSUME CurrentSafe, NEW t \in Threads, OnlyMoves(t),
           CURRENT_OPS_LOCK' = CURRENT_OPS_LOCK, InCurrent(t)' <=> InCurrent(t)
    PROVE CurrentSafe'
<1>1. \A u \in Threads : InCurrent(u)' <=> InCurrent(u)
  BY DEF OnlyMoves
<1> QED
  BY <1>1, Zenon DEF CurrentSafe, OnlyMoves, Threads

\* A thread that passes the pending site, by taking the lock or alone, is the only one inside.
LEMMA PendingTaken ==
    ASSUME PendingSafe, Sober, NEW t \in Threads, OnlyMoves(t),
           lock_site(PENDING_OPS_LOCK, PENDING_OPS_LOCK'),
           multiplayer \/ t = Game, ~InPending(t), InPending(t)'
    PROVE PendingSafe'
<1>1. CASE multiplayer
  BY <1>1 DEF PendingSafe, lock_site, lock, OnlyMoves, Threads
<1>2. CASE ~multiplayer
  <2>1. \A u \in Threads \ {t} : ~InPending(u)
    BY <1>2, LocksAssumption DEF Sober, Threads, InPending
  <2> QED
    BY <1>2, <2>1 DEF PendingSafe, lock_site, lock, OnlyMoves, Threads
<1> QED
  BY <1>1, <1>2

\* The thread that was inside leaves: nobody is left, and the lock was found taken.
LEMMA PendingLeft ==
    ASSUME PendingSafe, NEW t \in Threads, OnlyMoves(t), InPending(t), ~InPending(t)',
           unlock(PENDING_OPS_LOCK, PENDING_OPS_LOCK')
    PROVE PendingSafe' /\ ~aborted'
<1>1. ~(multiplayer /\ PENDING_OPS_LOCK # 1)
  BY DEF PendingSafe
<1>2. PENDING_OPS_LOCK' = 0 /\ (aborted' <=> multiplayer /\ PENDING_OPS_LOCK # 1)
  BY DEF unlock
<1>3. ~aborted'
  BY <1>1, <1>2
<1>4. \A u \in Threads : ~InPending(u)'
  BY DEF PendingSafe, OnlyMoves
<1> QED
  BY <1>2, <1>3, <1>4 DEF PendingSafe

\* A thread that passes the current site, by taking the lock or alone, is the only one inside.
LEMMA CurrentTaken ==
    ASSUME CurrentSafe, Sober, NEW t \in Threads, OnlyMoves(t),
           lock_site(CURRENT_OPS_LOCK, CURRENT_OPS_LOCK'),
           multiplayer \/ t = Game, ~InCurrent(t), InCurrent(t)'
    PROVE CurrentSafe'
<1>1. CASE multiplayer
  BY <1>1 DEF CurrentSafe, lock_site, lock, OnlyMoves, Threads
<1>2. CASE ~multiplayer
  <2>1. \A u \in Threads \ {t} : ~InCurrent(u)
    BY <1>2, LocksAssumption DEF Sober, Threads, InCurrent
  <2> QED
    BY <1>2, <2>1 DEF CurrentSafe, lock_site, lock, OnlyMoves, Threads
<1> QED
  BY <1>1, <1>2

\* The thread that was inside leaves: nobody is left, and the lock was found taken.
LEMMA CurrentLeft ==
    ASSUME CurrentSafe, NEW t \in Threads, OnlyMoves(t), InCurrent(t), ~InCurrent(t)',
           unlock(CURRENT_OPS_LOCK, CURRENT_OPS_LOCK')
    PROVE CurrentSafe' /\ ~aborted'
<1>1. ~(multiplayer /\ CURRENT_OPS_LOCK # 1)
  BY DEF CurrentSafe
<1>2. CURRENT_OPS_LOCK' = 0 /\ (aborted' <=> multiplayer /\ CURRENT_OPS_LOCK # 1)
  BY DEF unlock
<1>3. ~aborted'
  BY <1>1, <1>2
<1>4. \A u \in Threads : ~InCurrent(u)'
  BY DEF CurrentSafe, OnlyMoves
<1> QED
  BY <1>2, <1>3, <1>4 DEF CurrentSafe

\* One step of any thread, in any session.  Each case says which section the thread
\* enters or leaves.
LEMMA LocksInvStep ==
    LocksInv /\ [Next]_vars /\ TypeOK' => PendingSafe' /\ CurrentSafe' /\ ~aborted'
<1> SUFFICES ASSUME LocksInv, [Next]_vars, TypeOK'
             PROVE PendingSafe' /\ CurrentSafe' /\ ~aborted'
  OBVIOUS
<1> USE DEF LocksInv
<1>a. Game \notin Networkers /\ Game \in Threads /\ Networkers \subseteq Threads
  BY LocksAssumption DEF Threads
<1>b. ASSUME NEW t \in Threads, OnlyMoves(t), UNCHANGED <<locks, aborted>>,
             InPending(t)' <=> InPending(t), InCurrent(t)' <=> InCurrent(t)
      PROVE PendingSafe' /\ CurrentSafe' /\ ~aborted'
  BY <1>b, PendingKept, CurrentKept, Zenon DEF locks
<1>1. CASE Enqueue \/ InsertWrites \/ MoveAlone \/ ExecuteOne \/ DrainResets \/ TransferRoute
  <2>1. OnlyMoves(Game) /\ UNCHANGED <<locks, aborted>>
    BY <1>1, GameMoves DEF Enqueue, InsertWrites, MoveAlone, ExecuteOne, DrainResets,
                           TransferRoute
  <2>2. (InPending(Game)' <=> InPending(Game)) /\ (InCurrent(Game)' <=> InCurrent(Game))
    BY <1>1 DEF Enqueue, InsertWrites, MoveAlone, ExecuteOne, DrainResets, TransferRoute,
                Sober, InPending, InCurrent
  <2> QED
    BY <2>1, <2>2, <1>a, <1>b
<1>2. CASE InsertLocks
  <2>1. OnlyMoves(Game) /\ CURRENT_OPS_LOCK' = CURRENT_OPS_LOCK /\ ~aborted'
    BY <1>2, GameMoves DEF InsertLocks, lock_pending
  <2>2. lock_site(PENDING_OPS_LOCK, PENDING_OPS_LOCK') /\ ~InPending(Game) /\ InPending(Game)'
    BY <1>2 DEF InsertLocks, lock_pending, InPending
  <2>3. InCurrent(Game)' <=> InCurrent(Game)
    BY <1>2 DEF InsertLocks, InCurrent
  <2> QED
    BY <2>1, <2>2, <2>3, <1>a, PendingTaken, CurrentKept, Zenon
<1>3. CASE InsertUnlocks
  <2>1. OnlyMoves(Game) /\ CURRENT_OPS_LOCK' = CURRENT_OPS_LOCK
    BY <1>3, GameMoves DEF InsertUnlocks, unlock_pending
  <2>2. unlock(PENDING_OPS_LOCK, PENDING_OPS_LOCK') /\ InPending(Game) /\ ~InPending(Game)'
    BY <1>3 DEF InsertUnlocks, unlock_pending, InPending
  <2>3. InCurrent(Game)' <=> InCurrent(Game)
    BY <1>3 DEF InsertUnlocks, InCurrent
  <2> QED
    BY <2>1, <2>2, <2>3, <1>a, PendingLeft, CurrentKept, Zenon
<1>4. CASE DrainLocks
  <2>1. OnlyMoves(Game) /\ PENDING_OPS_LOCK' = PENDING_OPS_LOCK /\ ~aborted'
    BY <1>4, GameMoves DEF DrainLocks, lock_current
  <2>2. lock_site(CURRENT_OPS_LOCK, CURRENT_OPS_LOCK') /\ ~InCurrent(Game) /\ InCurrent(Game)'
    BY <1>4 DEF DrainLocks, lock_current, InCurrent
  <2>3. InPending(Game)' <=> InPending(Game)
    BY <1>4 DEF DrainLocks, InPending
  <2> QED
    BY <2>1, <2>2, <2>3, <1>a, CurrentTaken, PendingKept, Zenon
<1>5. CASE DrainUnlocks
  <2>1. OnlyMoves(Game) /\ PENDING_OPS_LOCK' = PENDING_OPS_LOCK
    BY <1>5, GameMoves DEF DrainUnlocks, unlock_current
  <2>2. unlock(CURRENT_OPS_LOCK, CURRENT_OPS_LOCK') /\ InCurrent(Game) /\ ~InCurrent(Game)'
    BY <1>5 DEF DrainUnlocks, unlock_current, InCurrent
  <2>3. InPending(Game)' <=> InPending(Game)
    BY <1>5 DEF DrainUnlocks, InPending
  <2> QED
    BY <2>1, <2>2, <2>3, <1>a, CurrentLeft, PendingKept, Zenon
<1>6. ASSUME NEW n \in Networkers, HostCollects(n) \/ HostMoves(n) \/ ClientSends(n)
                                  \/ ClientReceives(n)
      PROVE PendingSafe' /\ CurrentSafe' /\ ~aborted'
  <2>1. OnlyMoves(n) /\ UNCHANGED <<locks, aborted>>
    BY <1>6, NetMoves DEF HostCollects, HostMoves, ClientSends, ClientReceives
  <2>2. (InPending(n)' <=> InPending(n)) /\ (InCurrent(n)' <=> InCurrent(n))
    BY <1>6, <1>a DEF HostCollects, HostMoves, ClientSends, ClientReceives, Goes, TypeOK,
                      InPending, InCurrent
  <2> QED
    BY <2>1, <2>2, <1>a, <1>b
<1>7. ASSUME NEW n \in Networkers, HostLocksPending(n) \/ ClientLocksPending(n)
      PROVE PendingSafe' /\ CurrentSafe' /\ ~aborted'
  <2>1. OnlyMoves(n) /\ CURRENT_OPS_LOCK' = CURRENT_OPS_LOCK /\ ~aborted'
    BY <1>7, NetMoves DEF HostLocksPending, ClientLocksPending, lock_pending
  <2>2. lock_site(PENDING_OPS_LOCK, PENDING_OPS_LOCK') /\ ~InPending(n) /\ InPending(n)'
    BY <1>7, <1>a DEF HostLocksPending, ClientLocksPending, lock_pending, Goes, TypeOK,
                      InPending
  <2>3. InCurrent(n)' <=> InCurrent(n)
    BY <1>7, <1>a DEF HostLocksPending, ClientLocksPending, Goes, TypeOK, InCurrent
  <2>4. multiplayer
    BY <1>7 DEF HostLocksPending, ClientLocksPending, Goes, Sober, multiplayer
  <2> QED
    BY <2>1, <2>2, <2>3, <2>4, <1>a, PendingTaken, CurrentKept, Zenon
<1>8. ASSUME NEW n \in Networkers, HostUnlocksPending(n) \/ ClientUnlocksPending(n)
      PROVE PendingSafe' /\ CurrentSafe' /\ ~aborted'
  <2>1. OnlyMoves(n) /\ CURRENT_OPS_LOCK' = CURRENT_OPS_LOCK
    BY <1>8, NetMoves DEF HostUnlocksPending, ClientUnlocksPending, unlock_pending
  <2>2. unlock(PENDING_OPS_LOCK, PENDING_OPS_LOCK') /\ InPending(n) /\ ~InPending(n)'
    BY <1>8, <1>a DEF HostUnlocksPending, ClientUnlocksPending, unlock_pending, Goes, TypeOK,
                      InPending
  <2>3. InCurrent(n)' <=> InCurrent(n)
    BY <1>8, <1>a DEF HostUnlocksPending, ClientUnlocksPending, Goes, TypeOK, InCurrent
  <2> QED
    BY <2>1, <2>2, <2>3, <1>a, PendingLeft, CurrentKept, Zenon
<1>9. ASSUME NEW n \in Networkers, HostLocksCurrent(n) \/ ClientTriesCurrent(n)
      PROVE PendingSafe' /\ CurrentSafe' /\ ~aborted'
  <2>1. OnlyMoves(n) /\ PENDING_OPS_LOCK' = PENDING_OPS_LOCK /\ ~aborted'
    BY <1>9, NetMoves DEF HostLocksCurrent, ClientTriesCurrent, lock_current,
                          try_lock_current, try_lock, lock_site, lock
  <2>2. lock_site(CURRENT_OPS_LOCK, CURRENT_OPS_LOCK') /\ ~InCurrent(n) /\ InCurrent(n)'
    BY <1>9, <1>a DEF HostLocksCurrent, ClientTriesCurrent, lock_current, try_lock_current,
                      try_lock, lock_site, lock, Goes, TypeOK, InCurrent
  <2>3. InPending(n)' <=> InPending(n)
    BY <1>9, <1>a DEF HostLocksCurrent, ClientTriesCurrent, Goes, TypeOK, InPending
  <2>4. multiplayer
    BY <1>9 DEF HostLocksCurrent, ClientTriesCurrent, Goes, Sober, multiplayer
  <2> QED
    BY <2>1, <2>2, <2>3, <2>4, <1>a, CurrentTaken, PendingKept, Zenon
<1>10. ASSUME NEW n \in Networkers, HostUnlocksCurrent(n) \/ ClientUnlocksCurrent(n)
      PROVE PendingSafe' /\ CurrentSafe' /\ ~aborted'
  <2>1. OnlyMoves(n) /\ PENDING_OPS_LOCK' = PENDING_OPS_LOCK
    BY <1>10, NetMoves DEF HostUnlocksCurrent, ClientUnlocksCurrent, unlock_current
  <2>2. unlock(CURRENT_OPS_LOCK, CURRENT_OPS_LOCK') /\ InCurrent(n) /\ ~InCurrent(n)'
    BY <1>10, <1>a DEF HostUnlocksCurrent, ClientUnlocksCurrent, unlock_current, Goes,
                       TypeOK, InCurrent
  <2>3. InPending(n)' <=> InPending(n)
    BY <1>10, <1>a DEF HostUnlocksCurrent, ClientUnlocksCurrent, Goes, TypeOK, InPending
  <2> QED
    BY <2>1, <2>2, <2>3, <1>a, CurrentLeft, PendingKept, Zenon
<1>11. CASE SessionChanges
  <2>1. \A t \in Threads : /\ ~InPending(t) /\ ~InPending(t)'
                           /\ ~InCurrent(t) /\ ~InCurrent(t)'
    BY <1>11, <1>a DEF SessionChanges, AllIdle, InPending, InCurrent, Threads
  <2>2. PENDING_OPS_LOCK # 1 /\ CURRENT_OPS_LOCK # 1
    BY <2>1 DEF PendingSafe, CurrentSafe
  <2> QED
    BY <1>11, <2>1, <2>2 DEF SessionChanges, locks, PendingSafe, CurrentSafe
<1>12. CASE UNCHANGED vars
  <2>1. OnlyMoves(Game)
    BY <1>12, GameMoves DEF vars
  <2>2. (InPending(Game)' <=> InPending(Game)) /\ (InCurrent(Game)' <=> InCurrent(Game))
    BY <1>12 DEF vars, InPending, InCurrent
  <2>3. UNCHANGED <<locks, aborted>>
    BY <1>12 DEF vars
  <2> QED
    BY <2>1, <2>2, <2>3, <1>a, <1>b
<1> QED
  BY <1>1, <1>2, <1>3, <1>4, <1>5, <1>6, <1>7, <1>8, <1>9, <1>10, <1>11, <1>12, Zenon
     DEF Next, GameStep, NetStep

LEMMA LocksInvHolds == Spec => []LocksInv
<1>1. Init => LocksInv
  <2> SUFFICES ASSUME Init PROVE PendingSafe /\ CurrentSafe /\ Sober /\ ~aborted
    BY InitTyped DEF LocksInv
  <2>1. \A t \in Threads : ~InPending(t) /\ ~InCurrent(t)
    BY LocksAssumption DEF Init, Threads, InPending, InCurrent
  <2> QED
    BY <2>1 DEF Init, PendingSafe, CurrentSafe, Sober
<1>2. LocksInv /\ [Next]_vars => LocksInv'
  BY StepTyped, SoberKept, LocksInvStep DEF LocksInv
<1> QED
  BY <1>1, <1>2, PTL DEF Spec

\* For any number of session threads: no two threads are in sections of the same lock,
\* through sessions that start and end.
THEOREM MutualExclusion == Spec => []OneInside
<1>1. LocksInv => OneInside
  BY DEF LocksInv, PendingSafe, CurrentSafe, OneInside
<1> QED
  BY <1>1, LocksInvHolds, PTL

\* The panic of unlock is never reached.
THEOREM NoPanic == Spec => []NeverDirty
<1>1. LocksInv => NeverDirty
  BY DEF LocksInv, NeverDirty
<1> QED
  BY <1>1, LocksInvHolds, PTL

-----------------------------------------------------------------------------
(* What the locks are for: a read at the start of a section is still true at its end.      *)

Copies ==
    /\ insertPc = "read" => copy[Game] = pending
    /\ \A n \in Networkers : /\ netPc[n] \in {"collecting", "sending"} => copy[n] = pending
                             /\ netPc[n] \in {"moving", "receiving"} => copy[n] = current
    /\ gamePc # "executing" => position = 0
    /\ ~multiplayer => underway = <<>>

LEMMA CopiesKept == LocksInv /\ Copies /\ [Next]_vars => Copies'
<1> SUFFICES ASSUME LocksInv, Copies, [Next]_vars PROVE Copies'
  OBVIOUS
<1> USE LocksAssumption DEF Copies, multiplayer
<1>a. Game \in Threads /\ Networkers \subseteq Threads /\ copy \in [Threads -> Seq(Nat)]
      /\ netPc \in [Networkers -> NetPcs]
  BY DEF LocksInv, TypeOK, Threads
<1>b. \A t, u \in Threads : t # u => /\ ~(InPending(t) /\ InPending(u))
                                     /\ ~(InCurrent(t) /\ InCurrent(u))
  BY DEF LocksInv, PendingSafe, CurrentSafe
<1>1. CASE Enqueue \/ InsertUnlocks \/ DrainLocks \/ ExecuteOne \/ DrainUnlocks
           \/ TransferRoute \/ SessionChanges
  BY <1>1, <1>a DEF Enqueue, InsertUnlocks, DrainLocks, ExecuteOne, DrainUnlocks,
                    TransferRoute, SessionChanges, AllIdle, queues
<1>2. CASE InsertLocks
  BY <1>2, <1>a DEF InsertLocks, queues, Threads
<1>3. CASE InsertWrites
  BY <1>3, <1>a, <1>b DEF InsertWrites, InPending
<1>4. CASE MoveAlone
  BY <1>4, <1>a DEF MoveAlone, LocksInv, Sober, multiplayer
<1>5. CASE DrainResets
  BY <1>5, <1>a, <1>b DEF DrainResets, InCurrent
<1>6. CASE UNCHANGED vars
  BY <1>6 DEF vars, queues
<1>7. ASSUME NEW n \in Networkers, HostLocksPending(n) \/ ClientLocksPending(n)
                                   \/ HostLocksCurrent(n) \/ ClientTriesCurrent(n)
      PROVE Copies'
  BY <1>7, <1>a DEF HostLocksPending, ClientLocksPending, HostLocksCurrent,
                    ClientTriesCurrent, Goes, queues, Threads
<1>8. ASSUME NEW n \in Networkers, HostUnlocksPending(n) \/ ClientUnlocksPending(n)
                                   \/ HostUnlocksCurrent(n) \/ ClientUnlocksCurrent(n)
      PROVE Copies'
  BY <1>8, <1>a DEF HostUnlocksPending, ClientUnlocksPending, HostUnlocksCurrent,
                    ClientUnlocksCurrent, Goes, queues
<1>9. ASSUME NEW n \in Networkers, HostCollects(n) \/ ClientSends(n)
      PROVE Copies'
  BY <1>9, <1>a, <1>b DEF HostCollects, ClientSends, Goes, InPending, LocksInv, Sober
<1>10. ASSUME NEW n \in Networkers, HostMoves(n) \/ ClientReceives(n)
       PROVE Copies'
  BY <1>10, <1>a, <1>b DEF HostMoves, ClientReceives, Goes, InCurrent, LocksInv, Sober
<1> QED
  BY <1>1, <1>2, <1>3, <1>4, <1>5, <1>6, <1>7, <1>8, <1>9, <1>10, Zenon
     DEF Next, GameStep, NetStep

-----------------------------------------------------------------------------
(* Facts about sequences: what happens to the equation when an operation moves.            *)

\* ConcatAssociative for the sequences at hand, in the form a leaf can instantiate.
LEMMA Joined == \A x, y, z \in Seq(Nat) : (x \o y) \o z = x \o (y \o z)
<1> TAKE x, y, z \in Seq(Nat)
<1> QED
  BY ConcatAssociative

LEMMA FromStart == \A c \in Seq(Nat) : SubSeq(c, 0 + 1, Len(c)) = c
<1> TAKE c \in Seq(Nat)
<1>1. SubSeq(c, 1, Len(c)) = c
  BY SubSeqFull
<1> QED
  BY <1>1

LEMMA AppendToLast ==
    ASSUME NEW x \in Seq(Nat), NEW p \in Seq(Nat), NEW op \in Nat
    PROVE Append(x \o p, op) = x \o Append(p, op)
<1>1. x \o p \in Seq(Nat) /\ <<op>> \in Seq(Nat)
  BY ConcatProperties
<1>2. Append(x \o p, op) = (x \o p) \o <<op>> /\ Append(p, op) = p \o <<op>>
  BY <1>1, AppendIsConcat
<1>3. (x \o p) \o <<op>> = x \o (p \o <<op>>)
  BY <1>1, ConcatAssociative
<1> QED
  BY <1>2, <1>3, Zenon

LEMMA NextIsExecuted ==
    ASSUME NEW x \in Seq(Nat), NEW c \in Seq(Nat), NEW k \in Nat, k < Len(c)
    PROVE Append(x, c[k + 1]) \o SubSeq(c, k + 2, Len(c)) = x \o SubSeq(c, k + 1, Len(c))
<1>1. Len(c) \in Nat /\ k + 1 \in 1..Len(c) /\ Len(c) \in (k + 1)..Len(c) /\ (k + 1) + 1 = k + 2
  OBVIOUS
<1>2. SubSeq(c, k + 1, Len(c)) = <<c[k + 1]>> \o SubSeq(c, k + 2, Len(c))
  BY <1>1, SubSeqRecursiveFirst
<1>3. c[k + 1] \in Nat /\ <<c[k + 1]>> \in Seq(Nat)
  BY <1>1, ElementOfSeq
<1>4. SubSeq(c, k + 2, Len(c)) \in Seq(Nat)
  BY <1>1
<1>5. Append(x, c[k + 1]) = x \o <<c[k + 1]>>
  BY <1>3, AppendIsConcat
<1>6. (x \o <<c[k + 1]>>) \o SubSeq(c, k + 2, Len(c))
          = x \o (<<c[k + 1]>> \o SubSeq(c, k + 2, Len(c)))
  BY <1>3, <1>4, Joined, Zenon
<1> QED
  BY <1>2, <1>5, <1>6, Zenon

LEMMA HeadMoves ==
    ASSUME NEW c \in Seq(Nat), NEW u \in Seq(Nat), u # <<>>
    PROVE Append(c, Head(u)) \o Tail(u) = c \o u
<1>1. Head(u) \in Nat /\ Tail(u) \in Seq(Nat) /\ <<Head(u)>> \in Seq(Nat)
  BY HeadTailProperties
<1>2. Append(c, Head(u)) = c \o <<Head(u)>>
  BY <1>1, AppendIsConcat
<1>3. u = <<Head(u)>> \o Tail(u)
  BY <1>1
<1>4. (c \o <<Head(u)>>) \o Tail(u) = c \o (<<Head(u)>> \o Tail(u))
  BY <1>1, ConcatAssociative
<1> QED
  BY <1>2, <1>3, <1>4

\* The operations of the drain that are still to be executed.
Waiting == SubSeq(current, position + 1, Len(current))

LEMMA WaitingTyped == TypeOK => Waiting \in Seq(Nat) /\ executed \o Waiting \in Seq(Nat)
<1> SUFFICES ASSUME TypeOK PROVE Waiting \in Seq(Nat) /\ executed \o Waiting \in Seq(Nat)
  OBVIOUS
<1>1. Waiting \in Seq(Nat)
  BY DEF TypeOK, Waiting
<1> QED
  BY <1>1, ConcatProperties DEF TypeOK

\* Each step moves at most the operations of one section, and the equation survives it.
LEMMA NothingLostStep ==
    LocksInv /\ Copies /\ NothingLostOrReordered /\ [Next]_vars => NothingLostOrReordered'
<1> SUFFICES ASSUME LocksInv, Copies, NothingLostOrReordered, [Next]_vars
             PROVE NothingLostOrReordered'
  OBVIOUS
<1>a. TypeOK /\ TypeOK'
  BY StepTyped DEF LocksInv
<1>b. enqueued = ((executed \o Waiting) \o underway) \o pending
  BY DEF NothingLostOrReordered, Waiting
<1>c. SUFFICES enqueued' = ((executed' \o Waiting') \o underway') \o pending'
  BY DEF NothingLostOrReordered, Waiting
<1>d. /\ executed \in Seq(Nat) /\ current \in Seq(Nat) /\ underway \in Seq(Nat)
      /\ pending \in Seq(Nat) /\ position \in Nat
      /\ Waiting \in Seq(Nat) /\ executed \o Waiting \in Seq(Nat)
  BY <1>a, WaitingTyped DEF TypeOK
<1>e. ((executed \o Waiting) \o underway) \in Seq(Nat)
  BY <1>d, ConcatProperties
<1>1. CASE UNCHANGED <<queues, history>>
  BY <1>1, <1>b DEF queues, history, Waiting
<1>2. CASE InsertWrites
  <2>1. copy[Game] = pending /\ Len(enqueued) + 1 \in Nat
    BY <1>2, <1>a DEF InsertWrites, Copies, TypeOK
  <2>2. /\ UNCHANGED <<executed, current, position, underway>>
        /\ pending' = Append(pending, Len(enqueued) + 1)
        /\ enqueued' = Append(enqueued, Len(enqueued) + 1)
    BY <1>2, <2>1 DEF InsertWrites
  <2>3. Append(enqueued, Len(enqueued) + 1)
          = ((executed \o Waiting) \o underway) \o Append(pending, Len(enqueued) + 1)
    BY <1>b, <1>d, <1>e, <2>1, AppendToLast
  <2> QED
    BY <2>2, <2>3 DEF Waiting
<1>3. CASE MoveAlone
  <2>1. position = 0 /\ underway = <<>>
    BY <1>3 DEF MoveAlone, Copies
  <2>2. current' = current \o pending /\ pending' = <<>>
        /\ UNCHANGED <<executed, enqueued, position, underway>>
    BY <1>3 DEF MoveAlone, history
  <2>3. Waiting = current /\ Waiting' = current \o pending
    <3>1. position' = 0 /\ current \o pending \in Seq(Nat)
      BY <1>d, <2>1, <2>2, ConcatProperties
    <3>2. SubSeq(current, 0 + 1, Len(current)) = current
          /\ SubSeq(current \o pending, 0 + 1, Len(current \o pending)) = current \o pending
      BY <1>d, <3>1, FromStart, Zenon
    <3> QED
      BY <2>1, <2>2, <3>1, <3>2, Zenon DEF Waiting
  <2>4. current \o pending \in Seq(Nat) /\ executed \o (current \o pending) \in Seq(Nat)
        /\ executed \o current \in Seq(Nat)
    BY <1>d, ConcatProperties
  <2>5. (executed \o current) \o <<>> = executed \o current
        /\ (executed \o (current \o pending)) \o <<>> = executed \o (current \o pending)
    BY <2>4, ConcatEmptySeq
  <2>6. (executed \o current) \o pending = executed \o (current \o pending)
    <3>1. executed \in Seq(Nat) /\ current \in Seq(Nat) /\ pending \in Seq(Nat)
      BY <1>d
    <3> QED
      BY <3>1, Joined
  <2> QED
    BY <1>b, <2>1, <2>2, <2>3, <2>5, <2>6, Zenon
<1>4. CASE ExecuteOne
  <2>1. position < Len(current) /\ executed' = Append(executed, current[position + 1])
        /\ position' = position + 1 /\ UNCHANGED <<current, underway, pending, enqueued>>
    BY <1>4 DEF ExecuteOne
  <2>2. Waiting' = SubSeq(current, position + 2, Len(current))
    BY <1>d, <2>1 DEF Waiting
  <2>3. executed' \o Waiting' = executed \o Waiting
    <3>1. Append(executed, current[position + 1]) \o SubSeq(current, position + 2, Len(current))
            = executed \o SubSeq(current, position + 1, Len(current))
      BY <1>d, <2>1, NextIsExecuted
    <3> QED
      BY <2>1, <2>2, <3>1, Zenon DEF Waiting
  <2> QED
    BY <1>b, <2>1, <2>3, Zenon
<1>5. CASE DrainResets
  <2>1. position >= Len(current) /\ current' = <<>> /\ position' = 0
        /\ UNCHANGED <<executed, underway, pending, enqueued>>
    BY <1>5 DEF DrainResets, history
  <2>2. Waiting = <<>> /\ Waiting' = <<>>
    BY <1>d, <2>1, SubSeqEmpty DEF Waiting
  <2> QED
    BY <1>b, <2>1, <2>2, Zenon
<1>6. ASSUME NEW n \in Networkers, HostCollects(n) \/ ClientSends(n)
      PROVE enqueued' = ((executed' \o Waiting') \o underway') \o pending'
  <2>1. copy[n] = pending
    BY <1>6 DEF HostCollects, ClientSends, Goes, Copies
  <2>2. pending' = <<>> /\ underway' = underway \o pending
        /\ UNCHANGED <<executed, current, position, enqueued>>
    BY <1>6, <2>1 DEF HostCollects, ClientSends, history
  <2>3. ((executed \o Waiting) \o underway) \o pending
          = (executed \o Waiting) \o (underway \o pending)
    BY <1>d, Joined, Zenon
  <2>4. (executed \o Waiting) \o (underway \o pending) \in Seq(Nat)
    BY <1>d, ConcatProperties
  <2>5. ((executed \o Waiting) \o (underway \o pending)) \o <<>>
          = (executed \o Waiting) \o (underway \o pending)
    BY <2>4, ConcatEmptySeq
  <2>6. Waiting' = Waiting
    BY <2>2 DEF Waiting
  <2> QED
    BY <1>b, <2>2, <2>3, <2>5, <2>6, Zenon
<1>7. ASSUME NEW n \in Networkers, HostMoves(n) \/ ClientReceives(n)
      PROVE enqueued' = ((executed' \o Waiting') \o underway') \o pending'
  <2>1. InCurrent(n) /\ n # Game
    BY <1>7, LocksAssumption DEF HostMoves, ClientReceives, Goes, InCurrent
  <2>2. ~InCurrent(Game)
    BY <2>1 DEF LocksInv, CurrentSafe, Threads
  <2>3. position = 0
    BY <2>2 DEF InCurrent, Copies
  <2>4. copy[n] = current
    BY <1>7 DEF HostMoves, ClientReceives, Goes, Copies
  <2>5. current' \o underway' = current \o underway /\ current' \in Seq(Nat)
        /\ underway' \in Seq(Nat)
    <3>1. CASE HostMoves(n)
      <4>1. current' = current \o underway /\ underway' = <<>>
        BY <3>1, <2>4 DEF HostMoves
      <4> QED
        BY <1>a, <1>d, <4>1, ConcatProperties, ConcatEmptySeq DEF TypeOK
    <3>2. CASE ClientReceives(n)
      <4>1. current' = Append(current, Head(underway)) /\ underway' = Tail(underway)
            /\ underway # <<>>
        BY <3>2, <2>4 DEF ClientReceives
      <4> QED
        BY <1>a, <1>d, <4>1, HeadMoves DEF TypeOK
    <3> QED
      BY <1>7, <3>1, <3>2
  <2>6. UNCHANGED <<executed, position, pending, enqueued>>
    BY <1>7 DEF HostMoves, ClientReceives, history
  <2>7. Waiting = current /\ Waiting' = current'
    <3>1. SubSeq(current, 0 + 1, Len(current)) = current
          /\ SubSeq(current', 0 + 1, Len(current')) = current'
      BY <1>d, <2>5, FromStart, Zenon
    <3> QED
      BY <2>3, <2>6, <3>1, Zenon DEF Waiting
  <2>8. (executed \o current) \o underway = executed \o (current \o underway)
        /\ (executed \o current') \o underway' = executed \o (current' \o underway')
    <3>1. executed \in Seq(Nat) /\ current \in Seq(Nat) /\ underway \in Seq(Nat)
          /\ current' \in Seq(Nat) /\ underway' \in Seq(Nat)
      BY <1>d, <2>5
    <3>2. (executed \o current) \o underway = executed \o (current \o underway)
      BY <3>1, Joined
    <3>3. (executed \o current') \o underway' = executed \o (current' \o underway')
      BY <3>1, Joined
    <3> QED
      BY <3>2, <3>3
  <2> QED
    BY <1>b, <2>5, <2>6, <2>7, <2>8, Zenon
<1> QED
  BY <1>1, <1>2, <1>3, <1>4, <1>5, <1>6, <1>7
     DEF Next, GameStep, NetStep, Enqueue, InsertLocks, InsertUnlocks, DrainLocks,
         DrainUnlocks, TransferRoute, SessionChanges, HostLocksPending, HostUnlocksPending,
         HostLocksCurrent, HostUnlocksCurrent, ClientLocksPending, ClientUnlocksPending,
         ClientTriesCurrent, ClientUnlocksCurrent, vars, queues, history

\* For any number of session threads and any number of operations: what is enqueued is
\* executed in order, and until then it is in exactly one of the queues.
THEOREM InOrder == Spec => []NothingLostOrReordered
<1>1. Init => Copies /\ NothingLostOrReordered
  <2> SUFFICES ASSUME Init PROVE Copies /\ NothingLostOrReordered
    OBVIOUS
  <2>1. Copies
    BY DEF Init, Copies, multiplayer
  <2>2. SubSeq(<<>>, 1, 0) = <<>> /\ <<>> \o <<>> = <<>>
    BY SubSeqEmpty, ConcatEmptySeq
  <2>3. Len(<<>>) = 0 /\ 0 + 1 = 1
    OBVIOUS
  <2> QED
    BY <2>1, <2>2, <2>3, Zenon DEF Init, NothingLostOrReordered
<1>2. LocksInv /\ Copies /\ NothingLostOrReordered /\ [Next]_vars
        => Copies' /\ NothingLostOrReordered'
  BY CopiesKept, NothingLostStep
<1> QED
  BY <1>1, <1>2, LocksInvHolds, PTL DEF Spec


-----------------------------------------------------------------------------
(* The bytes of an operation: which part of it each byte of the message tells. *)

\* The fields of a message lie behind its opcode, and no two of them overlap.
Apart(fields) ==
    /\ DOMAIN fields \subseteq Nat
    /\ \A n \in DOMAIN fields : fields[n].at \in 4 .. 19 /\ fields[n].bytes \in 1 .. 16 /\ fields[n].at + fields[n].bytes <= 20
    /\ \A m, n \in DOMAIN fields : m # n => \/ fields[m].at + fields[m].bytes <= fields[n].at
                                            \/ fields[n].at + fields[n].bytes <= fields[m].at

\* The kinds of operations, group by group.
TradeKinds == {"MoveShipToTown", "ShipSellWares", "ShipBuyWares", "ShipMoveWares", "ShipMoveWeapons", "MoveWaresConvoy"}
CrewKinds == {"RepairShip", "HireSailors", "DismissSailors", "RepairConvoy"}
OfficeKinds == {"OfficeAutotradeSettingChange", "SetCandidature", "AppointMayor"}
BattleKinds == {"BattleSetTarget", "BattleMoveTo", "BattleSetOrderMode", "BattleSetSail", "BattleDisengage", "BattleFlee"}
RouteLayoutKinds == {"HireAdministrator", "DismissAdministrator", "OfficeAutotradeLockChange", "SetTradeRouteActive",
              "RemoveTradeRouteStop", "InsertTradeRouteStop", "RenameShip", "AppendShipName", "SaveGame", "SetGameSpeed"}

\* Each group of layouts is for one group of kinds.
LEMMA KindsAre ==
    /\ DOMAIN TradeLayout = TradeKinds /\ DOMAIN CrewLayout = CrewKinds /\ DOMAIN OfficeLayout = OfficeKinds
    /\ DOMAIN BattleLayout = BattleKinds /\ DOMAIN RouteLayout = RouteLayoutKinds
<1>1. DOMAIN TradeLayout = TradeKinds
  BY DEF TradeLayout, TradeKinds
<1>2. DOMAIN CrewLayout = CrewKinds
  BY DEF CrewLayout, CrewKinds
<1>3. DOMAIN OfficeLayout = OfficeKinds
  BY DEF OfficeLayout, OfficeKinds
<1>4. DOMAIN BattleLayout = BattleKinds
  BY DEF BattleLayout, BattleKinds
<1>5. DOMAIN RouteLayout = RouteLayoutKinds
  BY DEF RouteLayout, RouteLayoutKinds
<1> QED
  BY <1>1, <1>2, <1>3, <1>4, <1>5

\* The layout of a kind is that of its group.
LEMMA LayoutIs ==
    /\ DOMAIN Layout = TradeKinds \cup CrewKinds \cup OfficeKinds \cup BattleKinds \cup RouteLayoutKinds
    /\ \A kind \in TradeKinds : Layout[kind] = TradeLayout[kind]
    /\ \A kind \in CrewKinds : Layout[kind] = CrewLayout[kind]
    /\ \A kind \in OfficeKinds : Layout[kind] = OfficeLayout[kind]
    /\ \A kind \in BattleKinds : Layout[kind] = BattleLayout[kind]
    /\ \A kind \in RouteLayoutKinds : Layout[kind] = RouteLayout[kind]
<1>1. DOMAIN Layout = TradeKinds \cup CrewKinds \cup OfficeKinds \cup BattleKinds \cup RouteLayoutKinds
  BY KindsAre DEF Layout
<1>2. ASSUME NEW kind \in DOMAIN Layout
      PROVE  Layout[kind] = CASE kind \in TradeKinds -> TradeLayout[kind]
                              [] kind \in CrewKinds -> CrewLayout[kind]
                              [] kind \in OfficeKinds -> OfficeLayout[kind]
                              [] kind \in BattleKinds -> BattleLayout[kind]
                              [] OTHER -> RouteLayout[kind]
  BY KindsAre DEF Layout
<1>3. ASSUME NEW kind \in TradeKinds PROVE Layout[kind] = TradeLayout[kind]
  <2>1. kind \notin CrewKinds \cup OfficeKinds \cup BattleKinds
    BY <1>3 DEF TradeKinds, CrewKinds, OfficeKinds, BattleKinds
  <2> QED
    BY <1>1, <1>2, <2>1
<1>4. ASSUME NEW kind \in CrewKinds PROVE Layout[kind] = CrewLayout[kind]
  <2>1. kind \notin TradeKinds \cup OfficeKinds \cup BattleKinds
    BY <1>4 DEF TradeKinds, CrewKinds, OfficeKinds, BattleKinds
  <2> QED
    BY <1>1, <1>2, <2>1
<1>5. ASSUME NEW kind \in OfficeKinds PROVE Layout[kind] = OfficeLayout[kind]
  <2>1. kind \notin CrewKinds \cup TradeKinds \cup BattleKinds
    BY <1>5 DEF TradeKinds, CrewKinds, OfficeKinds, BattleKinds
  <2> QED
    BY <1>1, <1>2, <2>1
<1>6. ASSUME NEW kind \in BattleKinds PROVE Layout[kind] = BattleLayout[kind]
  <2>1. kind \notin CrewKinds \cup OfficeKinds \cup TradeKinds
    BY <1>6 DEF TradeKinds, CrewKinds, OfficeKinds, BattleKinds
  <2> QED
    BY <1>1, <1>2, <2>1
<1>7. ASSUME NEW kind \in RouteLayoutKinds PROVE Layout[kind] = RouteLayout[kind]
  <2>1. kind \notin TradeKinds \cup CrewKinds \cup OfficeKinds \cup BattleKinds
    BY <1>7 DEF TradeKinds, CrewKinds, OfficeKinds, BattleKinds, RouteLayoutKinds
  <2> QED
    BY <1>1, <1>2, <2>1
<1> QED
  BY <1>1, <1>3, <1>4, <1>5, <1>6, <1>7

\* No field that is written overlaps another one or the opcode, whatever the kind.
LEMMA FieldsAreApart == \A kind \in DOMAIN Layout : Apart(Layout[kind].fields)
<1>1. ASSUME NEW kind \in TradeKinds PROVE Apart(TradeLayout[kind].fields)
  <2>1. CASE kind = "MoveShipToTown"
    BY <2>1 DEF TradeLayout, Put, Apart
  <2>2. CASE kind = "ShipSellWares"
    BY <2>2 DEF TradeLayout, Put, Apart
  <2>3. CASE kind = "ShipBuyWares"
    BY <2>3 DEF TradeLayout, Put, Apart
  <2>4. CASE kind = "ShipMoveWares"
    BY <2>4 DEF TradeLayout, Put, Apart
  <2>5. CASE kind = "ShipMoveWeapons"
    BY <2>5 DEF TradeLayout, Put, Apart
  <2>6. CASE kind = "MoveWaresConvoy"
    BY <2>6 DEF TradeLayout, Put, Apart
  <2> QED
    BY <1>1, <2>1, <2>2, <2>3, <2>4, <2>5, <2>6 DEF TradeKinds
<1>2. ASSUME NEW kind \in CrewKinds PROVE Apart(CrewLayout[kind].fields)
  BY <1>2 DEF CrewKinds, CrewLayout, Put, Apart
<1>3. ASSUME NEW kind \in OfficeKinds PROVE Apart(OfficeLayout[kind].fields)
  BY <1>3 DEF OfficeKinds, OfficeLayout, Put, Apart
<1>4. ASSUME NEW kind \in BattleKinds PROVE Apart(BattleLayout[kind].fields)
  <2>1. CASE kind = "BattleSetTarget"
    <3>1. BattleLayout[kind].fields = <<Put("slot", 4, 1), Put("group", 5, 1), Put("target", 6, 2), Put("mask_hi", 8, 4), Put("mask_lo", 12, 4)>>
      BY <2>1 DEF BattleLayout, MASKS, LateMasks, MoveMasks
    <3> QED
      BY <3>1 DEF Put, Apart
  <2>2. CASE kind = "BattleMoveTo"
    <3>1. BattleLayout[kind].fields = <<Put("slot", 4, 1), Put("group", 5, 1), Put("x", 6, 2), Put("y", 8, 2), Put("mask_hi", 12, 4), Put("mask_lo", 16, 4)>>
      BY <2>2 DEF BattleLayout, MASKS, LateMasks, MoveMasks
    <3> QED
      BY <3>1 DEF Put, Apart
  <2>3. CASE kind = "BattleSetOrderMode"
    <3>1. BattleLayout[kind].fields = <<Put("slot", 4, 1), Put("mode", 5, 1), Put("modifier", 6, 1), Put("group", 7, 1), Put("mask_hi", 8, 4), Put("mask_lo", 12, 4)>>
      BY <2>3 DEF BattleLayout, MASKS, LateMasks, MoveMasks
    <3> QED
      BY <3>1 DEF Put, Apart
  <2>4. CASE kind = "BattleSetSail"
    <3>1. BattleLayout[kind].fields = <<Put("slot", 4, 1), Put("value", 5, 1), Put("group", 6, 1), Put("mask_hi", 8, 4), Put("mask_lo", 12, 4)>>
      BY <2>4 DEF BattleLayout, MASKS, LateMasks, MoveMasks
    <3> QED
      BY <3>1 DEF Put, Apart
  <2>5. CASE kind = "BattleDisengage"
    <3>1. BattleLayout[kind].fields = <<Put("slot", 4, 1), Put("group", 5, 1), Put("mask_hi", 8, 4), Put("mask_lo", 12, 4)>>
      BY <2>5 DEF BattleLayout, MASKS, LateMasks, MoveMasks
    <3> QED
      BY <3>1 DEF Put, Apart
  <2>6. CASE kind = "BattleFlee"
    <3>1. BattleLayout[kind].fields = <<Put("slot", 4, 1), Put("flee", 5, 1), Put("group", 6, 1), Put("mask_hi", 8, 4), Put("mask_lo", 12, 4)>>
      BY <2>6 DEF BattleLayout, MASKS, LateMasks, MoveMasks
    <3> QED
      BY <3>1 DEF Put, Apart
  <2> QED
    BY <1>4, <2>1, <2>2, <2>3, <2>4, <2>5, <2>6 DEF BattleKinds
<1>5. ASSUME NEW kind \in RouteLayoutKinds PROVE Apart(RouteLayout[kind].fields)
  <2>1. CASE kind = "HireAdministrator"
    BY <2>1 DEF RouteLayout, Put, Apart, Administrator, Name
  <2>2. CASE kind = "DismissAdministrator"
    BY <2>2 DEF RouteLayout, Put, Apart, Administrator, Name
  <2>3. CASE kind = "OfficeAutotradeLockChange"
    BY <2>3 DEF RouteLayout, Put, Apart, Administrator, Name
  <2>4. CASE kind = "SetTradeRouteActive"
    BY <2>4 DEF RouteLayout, Put, Apart, Administrator, Name
  <2>5. CASE kind = "RemoveTradeRouteStop"
    BY <2>5 DEF RouteLayout, Put, Apart, Administrator, Name
  <2>6. CASE kind = "InsertTradeRouteStop"
    BY <2>6 DEF RouteLayout, Put, Apart, Administrator, Name
  <2>7. CASE kind = "RenameShip"
    BY <2>7 DEF RouteLayout, Put, Apart, Administrator, Name
  <2>8. CASE kind = "AppendShipName"
    BY <2>8 DEF RouteLayout, Put, Apart, Administrator, Name
  <2>9. CASE kind = "SaveGame"
    BY <2>9 DEF RouteLayout, Put, Apart, Administrator, Name
  <2>10. CASE kind = "SetGameSpeed"
    BY <2>10 DEF RouteLayout, Put, Apart, Administrator, Name
  <2> QED
    BY <1>5, <2>1, <2>2, <2>3, <2>4, <2>5, <2>6, <2>7, <2>8, <2>9, <2>10 DEF RouteLayoutKinds
<1> QED
  BY <1>1, <1>2, <1>3, <1>4, <1>5, LayoutIs

\* The fields of an operation, as they are written.
FieldsOf(op) == Layout[op.kind].fields

\* An operation by its parts.
LEMMA OperationIs ==
    ASSUME NEW op \in Operations
    PROVE  /\ op.kind \in DOMAIN Layout /\ op.flag \in Flags(op.kind)
           /\ op = [kind |-> op.kind, values |-> op.values, flag |-> op.flag]
           /\ DOMAIN op.values = DOMAIN FieldsOf(op)
           /\ op.values = [n \in DOMAIN FieldsOf(op) |-> op.values[n]]
           /\ \A n \in DOMAIN FieldsOf(op) : /\ op.values[n] \in Values(FieldsOf(op)[n].name, FieldsOf(op)[n].bytes)
                                             /\ op.values[n] \in [1 .. FieldsOf(op)[n].bytes -> 0 .. 255]
<1>0. PICK kind \in DOMAIN Layout :
          op \in {[kind |-> kind, values |-> v, flag |-> marked] :
                     v \in FieldValues(Layout[kind].fields), marked \in Flags(kind)}
  BY DEF Operations
<1>1. PICK v \in FieldValues(Layout[kind].fields), marked \in Flags(kind) :
          op = [kind |-> kind, values |-> v, flag |-> marked]
  BY <1>0
<1>2. op.kind = kind /\ op.values = v /\ op.flag = marked
  BY <1>1
<1> DEFINE fields == Layout[kind].fields
<1>3. /\ v \in [DOMAIN fields -> UNION {Values(fields[n].name, fields[n].bytes) : n \in DOMAIN fields}]
      /\ \A n \in DOMAIN fields : v[n] \in Values(fields[n].name, fields[n].bytes)
  BY DEF FieldValues
<1>4. \A n \in DOMAIN fields : Values(fields[n].name, fields[n].bytes) \subseteq [1 .. fields[n].bytes -> 0 .. 255]
  BY CodecAssumption
<1>5. FieldsOf(op) = fields
  BY <1>2 DEF FieldsOf
<1> HIDE DEF fields
<1>6. DOMAIN v = DOMAIN fields /\ v = [n \in DOMAIN fields |-> v[n]]
  BY <1>3
<1>7. \A n \in DOMAIN fields : v[n] \in [1 .. fields[n].bytes -> 0 .. 255]
  BY <1>3, <1>4
<1> QED
  BY <1>1, <1>2, <1>3, <1>5, <1>6, <1>7

\* The byte is one of the field's.
Covers(f, b) == b \in f.at .. f.at + f.bytes - 1

\* The bytes of a message: the opcode, the fields, and what has no field.
LEMMA BytesAre ==
    ASSUME NEW op \in Operations
    PROVE  /\ DOMAIN to_raw(op) = 0 .. 19 /\ to_raw(op)[0] = Layout[op.kind].code
           /\ \A n \in DOMAIN FieldsOf(op) : \A b \in 1 .. 19 :
                 Covers(FieldsOf(op)[n], b) =>
                    to_raw(op)[b] = op.values[n][b - FieldsOf(op)[n].at + 1] + Extra(op.kind, op.flag, b)
           /\ \A b \in 1 .. 19 : (\A n \in DOMAIN FieldsOf(op) : ~Covers(FieldsOf(op)[n], b)) =>
                 to_raw(op)[b] = 0 + Extra(op.kind, op.flag, b)
<1> DEFINE fields == Layout[op.kind].fields
           covering(b) == {n \in DOMAIN fields : b \in fields[n].at .. fields[n].at + fields[n].bytes - 1}
           last(b) == CHOOSE n \in covering(b) : \A l \in covering(b) : l <= n
           written(b) == IF covering(b) = {} THEN 0 ELSE op.values[last(b)][b - fields[last(b)].at + 1]
           extra(b) == Extra(op.kind, op.flag, b)
<1>1. to_raw(op) = [b \in 0 .. 19 |-> IF b = 0 THEN Layout[op.kind].code ELSE written(b) + extra(b)]
  BY DEF to_raw, MessageSize
<1>2. op.kind \in DOMAIN Layout /\ FieldsOf(op) = fields
  BY OperationIs DEF FieldsOf
<1>3. Apart(fields)
  BY <1>2, FieldsAreApart
<1>4. ASSUME NEW b \in 1 .. 19, NEW n \in DOMAIN fields, Covers(fields[n], b)
      PROVE  written(b) = op.values[n][b - fields[n].at + 1]
  <2>1. n \in covering(b)
    BY <1>4 DEF Covers
  <2>2. ASSUME NEW m \in covering(b) PROVE m = n
    <3> DEFINE f == fields[n]
               g == fields[m]
    <3>1. /\ f.at \in Int /\ f.bytes \in Int /\ g.at \in Int /\ g.bytes \in Int
          /\ m # n => g.at + g.bytes <= f.at \/ f.at + f.bytes <= g.at
      BY <1>3 DEF Apart
    <3>2. b >= f.at /\ b <= f.at + f.bytes - 1 /\ b >= g.at /\ b <= g.at + g.bytes - 1
      BY <1>4, <3>1 DEF Covers
    <3> HIDE DEF f, g
    <3> QED
      BY <3>1, <3>2
  <2>3. covering(b) = {n}
    <3> HIDE DEF covering
    <3> QED
      BY <2>1, <2>2
  <2> HIDE DEF covering
  <2>4. n \in Int
    BY <1>3 DEF Apart
  <2>5. last(b) = n
    BY <2>3, <2>4
  <2> HIDE DEF last
  <2> QED
    BY <2>3, <2>5
<1>5. ASSUME NEW b \in 1 .. 19, \A n \in DOMAIN fields : ~Covers(fields[n], b)
      PROVE  written(b) = 0
  <2>1. covering(b) = {}
    BY <1>5 DEF Covers
  <2> QED
    BY <2>1
<1> HIDE DEF written, extra, fields
<1>6. /\ DOMAIN to_raw(op) = 0 .. 19 /\ to_raw(op)[0] = Layout[op.kind].code
      /\ \A b \in 1 .. 19 : to_raw(op)[b] = written(b) + extra(b)
  BY <1>1
<1> QED
  BY <1>2, <1>4, <1>5, <1>6 DEF extra

\* The opcodes of two administrators' orders and of two orders about a route's stops are shared.
Shared == {{"HireAdministrator", "DismissAdministrator"}, {"RemoveTradeRouteStop", "InsertTradeRouteStop"}}

\* The opcodes, kind by kind.
CodesOf(kind) ==
    CASE kind = "MoveShipToTown" -> 0 [] kind = "ShipSellWares" -> 1 [] kind = "ShipBuyWares" -> 2
      [] kind = "ShipMoveWares" -> 8 [] kind = "ShipMoveWeapons" -> 9 [] kind = "MoveWaresConvoy" -> 27
      [] kind = "RepairShip" -> 3 [] kind = "HireSailors" -> 4 [] kind = "DismissSailors" -> 5
      [] kind = "RepairConvoy" -> 29
      [] kind = "OfficeAutotradeSettingChange" -> 91 [] kind = "SetCandidature" -> 69 [] kind = "AppointMayor" -> 70
      [] kind = "BattleSetTarget" -> 147 [] kind = "BattleMoveTo" -> 149 [] kind = "BattleSetOrderMode" -> 151
      [] kind = "BattleSetSail" -> 152 [] kind = "BattleDisengage" -> 154 [] kind = "BattleFlee" -> 155
      [] kind \in {"HireAdministrator", "DismissAdministrator"} -> 94
      [] kind = "OfficeAutotradeLockChange" -> 102 [] kind = "SetTradeRouteActive" -> 104
      [] kind \in {"RemoveTradeRouteStop", "InsertTradeRouteStop"} -> 106
      [] kind = "RenameShip" -> 45 [] kind = "AppendShipName" -> 46 [] kind = "SaveGame" -> 194
      [] kind = "SetGameSpeed" -> 200

\* A layout has the opcode of its kind.
LEMMA CodesAre == \A kind \in DOMAIN Layout : Layout[kind].code = CodesOf(kind)
<1>1. \A kind \in TradeKinds : TradeLayout[kind].code = CodesOf(kind)
  BY DEF TradeKinds, TradeLayout, CodesOf
<1>2. \A kind \in CrewKinds : CrewLayout[kind].code = CodesOf(kind)
  BY DEF CrewKinds, CrewLayout, CodesOf
<1>3. \A kind \in OfficeKinds : OfficeLayout[kind].code = CodesOf(kind)
  BY DEF OfficeKinds, OfficeLayout, CodesOf
<1>4. \A kind \in BattleKinds : BattleLayout[kind].code = CodesOf(kind)
  BY DEF BattleKinds, BattleLayout, CodesOf
<1>5. \A kind \in RouteLayoutKinds : RouteLayout[kind].code = CodesOf(kind)
  BY DEF RouteLayoutKinds, RouteLayout, CodesOf, Administrator
<1> QED
  BY <1>1, <1>2, <1>3, <1>4, <1>5, LayoutIs

\* Kinds with one opcode are the same or share it.
LEMMA KindByCode ==
    ASSUME NEW k \in DOMAIN Layout, NEW l \in DOMAIN Layout, CodesOf(k) = CodesOf(l)
    PROVE  k = l \/ {k, l} \in Shared
  BY LayoutIs DEF CodesOf, Shared, TradeKinds, CrewKinds, OfficeKinds, BattleKinds, RouteLayoutKinds

\* Hiring and dismissing an administrator differ in the mode.
LEMMA ModeTells ==
    ASSUME NEW p \in Operations, NEW q \in Operations, p.kind = "HireAdministrator", q.kind = "DismissAdministrator"
    PROVE  to_raw(p)[12] # to_raw(q)[12]
<1>1. Layout["HireAdministrator"] = Administrator /\ Layout["DismissAdministrator"] = Administrator
  BY LayoutIs DEF RouteLayoutKinds, RouteLayout
<1>2. \A n \in DOMAIN Administrator.fields : ~Covers(Administrator.fields[n], 12)
  BY DEF Administrator, Covers, Put
<1>3. to_raw(p)[12] = 0 + Extra(p.kind, p.flag, 12) /\ to_raw(q)[12] = 0 + Extra(q.kind, q.flag, 12)
  <2> DEFINE fields == Administrator.fields
  <2>1. FieldsOf(p) = fields /\ FieldsOf(q) = fields
    BY <1>1 DEF FieldsOf
  <2>2. \A n \in DOMAIN fields : ~Covers(fields[n], 12)
    BY <1>2
  <2> HIDE DEF fields
  <2>3. \A op \in Operations : FieldsOf(op) = fields => to_raw(op)[12] = 0 + Extra(op.kind, op.flag, 12)
    BY <2>2, BytesAre
  <2> QED
    BY <2>1, <2>3
<1>4. Extra(p.kind, p.flag, 12) = 0 /\ Extra(q.kind, q.flag, 12) = 1
  BY DEF Extra
<1> QED
  BY <1>3, <1>4

\* Removing a stop names 0xff for the town, which inserting one never does.
LEMMA TownTells ==
    ASSUME NEW p \in Operations, NEW q \in Operations, p.kind = "RemoveTradeRouteStop", q.kind = "InsertTradeRouteStop"
    PROVE  to_raw(p)[12] # to_raw(q)[12]
<1>1. /\ FieldsOf(p) = <<Put("stop", 4, 4), Put("ship", 16, 4)>>
      /\ FieldsOf(q) = <<Put("stop", 4, 4), Put("town", 12, 1), Put("ship", 16, 4)>>
  BY LayoutIs DEF RouteLayoutKinds, RouteLayout, FieldsOf
<1>2. \A n \in DOMAIN FieldsOf(p) : ~Covers(FieldsOf(p)[n], 12)
  BY <1>1 DEF Covers, Put
<1>3. 2 \in DOMAIN FieldsOf(q) /\ FieldsOf(q)[2].name = "town" /\ FieldsOf(q)[2].at = 12 /\ FieldsOf(q)[2].bytes = 1
  BY <1>1 DEF Put
<1>4. Covers(FieldsOf(q)[2], 12)
  BY <1>3 DEF Covers
<1>5. q.values[2][1] \in 0 .. 255 /\ q.values[2][1] # 255
  <2> DEFINE v == q.values[2]
  <2>1. v \in Values("town", 1) /\ v \in [1 .. 1 -> 0 .. 255]
    BY <1>3, OperationIs
  <2>2. \A u \in Values("town", 1) : u[1] # 255
    BY CodecAssumption
  <2> HIDE DEF v
  <2>3. v[1] \in 0 .. 255 /\ v[1] # 255
    BY <2>1, <2>2
  <2> QED
    BY <2>3 DEF v
<1>6. to_raw(q)[12] = q.values[2][1] + Extra(q.kind, q.flag, 12)
  <2>1. to_raw(q)[12] = q.values[2][12 - FieldsOf(q)[2].at + 1] + Extra(q.kind, q.flag, 12)
    BY <1>3, <1>4, BytesAre
  <2> QED
    BY <1>3, <2>1
<1>7. to_raw(p)[12] = 0 + Extra(p.kind, p.flag, 12)
  BY <1>2, BytesAre
<1>8. Extra(p.kind, p.flag, 12) = 255 /\ Extra(q.kind, q.flag, 12) = 0
  BY DEF Extra
<1> QED
  BY <1>5, <1>6, <1>7, <1>8

\* Of two flags that differ one is up.
LEMMA OneIsUp ==
    ASSUME NEW a \in BOOLEAN, NEW b \in BOOLEAN, a # b
    PROVE  (a /\ ~b) \/ (~a /\ b)
<1>1. CASE a = TRUE
  BY <1>1
<1>2. CASE a = FALSE
  BY <1>2
<1> QED
  BY <1>1, <1>2

\* What is told apart by a flag.
LEMMA FlagTells ==
    ASSUME NEW p \in Operations, NEW q \in Operations, p.kind = q.kind, p.flag # q.flag
    PROVE  to_raw(p) # to_raw(q)
<1>1. p.kind \in {"ShipMoveWeapons", "AppointMayor"} /\ p.flag \in BOOLEAN /\ q.flag \in BOOLEAN
  <2>1. p.flag \in Flags(p.kind) /\ q.flag \in Flags(p.kind)
    BY OperationIs
  <2> QED
    BY <2>1 DEF Flags
<1> DEFINE a == p.flag
           b == q.flag
<1>4. a \in BOOLEAN /\ b \in BOOLEAN /\ a # b
  BY <1>1
<1> HIDE DEF a, b
<1>5. (a /\ ~b) \/ (~a /\ b)
  BY <1>4, OneIsUp
<1>2. CASE p.kind = "ShipMoveWeapons"
  <2> DEFINE f == FieldsOf(p)
  <2>1. f = <<Put("weapon", 4, 4), Put("town", 8, 4), Put("ship", 12, 4), Put("amount", 16, 4)>>
    BY <1>2, LayoutIs DEF TradeKinds, TradeLayout, FieldsOf
  <2>2. 2 \in DOMAIN f /\ f[2].name = "town" /\ f[2].at = 8 /\ f[2].bytes = 4
    BY <2>1 DEF Put
  <2>3. Covers(f[2], 11)
    BY <2>2 DEF Covers
  <2>4. FieldsOf(q) = f
    BY DEF FieldsOf
  <2> HIDE DEF f
  <2>5. ASSUME NEW op \in Operations, FieldsOf(op) = f
        PROVE  op.values[2][4] \in 0 .. 127 /\ to_raw(op)[11] = op.values[2][4] + Extra(op.kind, op.flag, 11)
    <3>1. op.values[2] \in Values("town", 4) /\ op.values[2] \in [1 .. 4 -> 0 .. 255]
      BY <2>2, <2>5, OperationIs
    <3>2. op.values[2][4] \in 0 .. 255 /\ op.values[2][4] < 128
      BY <3>1, CodecAssumption DEF SignBit
    <3>3. to_raw(op)[11] = op.values[2][11 - f[2].at + 1] + Extra(op.kind, op.flag, 11)
      BY <2>2, <2>3, <2>5, BytesAre
    <3> QED
      BY <2>2, <3>2, <3>3
  <2>6. FieldsOf(p) = f
    BY DEF f
  <2>7. /\ p.values[2][4] \in 0 .. 127 /\ to_raw(p)[11] = p.values[2][4] + Extra(p.kind, p.flag, 11)
        /\ q.values[2][4] \in 0 .. 127 /\ to_raw(q)[11] = q.values[2][4] + Extra(q.kind, q.flag, 11)
    BY <2>4, <2>5, <2>6
  <2> DEFINE v == p.values[2][4]
             w == q.values[2][4]
  <2>8. v \in 0 .. 127 /\ w \in 0 .. 127
    BY <2>7
  <2>9. to_raw(p)[11] # to_raw(q)[11]
    <3>1. CASE a /\ ~b
      <4>1. Extra(p.kind, p.flag, 11) = 0 /\ Extra(q.kind, q.flag, 11) = 128
        BY <1>2, <3>1 DEF Extra, SignBit, a, b
      <4>2. to_raw(p)[11] = v + 0 /\ to_raw(q)[11] = w + 128
        BY <2>7, <4>1
      <4> HIDE DEF v, w
      <4>3. v + 0 # w + 128
        BY <2>8
      <4> QED
        BY <4>2, <4>3
    <3>2. CASE ~a /\ b
      <4>1. Extra(p.kind, p.flag, 11) = 128 /\ Extra(q.kind, q.flag, 11) = 0
        BY <1>2, <3>2 DEF Extra, SignBit, a, b
      <4>2. to_raw(p)[11] = v + 128 /\ to_raw(q)[11] = w + 0
        BY <2>7, <4>1
      <4> HIDE DEF v, w
      <4>3. v + 128 # w + 0
        BY <2>8
      <4> QED
        BY <4>2, <4>3
    <3> QED
      BY <1>5, <3>1, <3>2
  <2> QED
    BY <2>9
<1>3. CASE p.kind = "AppointMayor"
  <2>1. FieldsOf(p) = <<Put("merchant", 4, 4), Put("town", 8, 4)>> /\ FieldsOf(q) = FieldsOf(p)
    BY <1>3, LayoutIs DEF OfficeKinds, OfficeLayout, FieldsOf
  <2>2. \A n \in DOMAIN FieldsOf(p) : ~Covers(FieldsOf(p)[n], 16)
    BY <2>1 DEF Covers, Put
  <2>3. to_raw(p)[16] = 0 + Extra(p.kind, p.flag, 16) /\ to_raw(q)[16] = 0 + Extra(q.kind, q.flag, 16)
    BY <2>1, <2>2, BytesAre
  <2>4. to_raw(p)[16] # to_raw(q)[16]
    <3>1. CASE a /\ ~b
      <4>1. Extra(p.kind, p.flag, 16) = 254 /\ Extra(q.kind, q.flag, 16) = 0
        BY <1>3, <3>1 DEF Extra, a, b
      <4> QED
        BY <2>3, <4>1
    <3>2. CASE ~a /\ b
      <4>1. Extra(p.kind, p.flag, 16) = 0 /\ Extra(q.kind, q.flag, 16) = 254
        BY <1>3, <3>2 DEF Extra, a, b
      <4> QED
        BY <2>3, <4>1
    <3> QED
      BY <1>5, <3>1, <3>2
  <2> QED
    BY <2>4
<1> QED
  BY <1>1, <1>2, <1>3

\* No two operations are the same message.
LEMMA MessageTells ==
    ASSUME NEW p \in Operations, NEW q \in Operations, to_raw(p) = to_raw(q)
    PROVE  p = q
<1>1. p.kind \in DOMAIN Layout /\ q.kind \in DOMAIN Layout
  BY OperationIs
<1>2. p.kind = q.kind
  <2>1. CodesOf(p.kind) = CodesOf(q.kind)
    BY <1>1, BytesAre, CodesAre
  <2>2. p.kind = q.kind \/ {p.kind, q.kind} \in Shared
    BY <1>1, <2>1, KindByCode
  <2>3. {p.kind, q.kind} \in Shared =>
           \/ p.kind = q.kind
           \/ p.kind = "HireAdministrator" /\ q.kind = "DismissAdministrator"
           \/ q.kind = "HireAdministrator" /\ p.kind = "DismissAdministrator"
           \/ p.kind = "RemoveTradeRouteStop" /\ q.kind = "InsertTradeRouteStop"
           \/ q.kind = "RemoveTradeRouteStop" /\ p.kind = "InsertTradeRouteStop"
    BY DEF Shared
  <2> QED
    BY <2>2, <2>3, ModeTells, TownTells
<1>3. p.flag = q.flag
  BY <1>2, FlagTells
<1> DEFINE fields == FieldsOf(p)
<1>4. FieldsOf(q) = fields /\ Apart(fields)
  BY <1>1, <1>2, FieldsAreApart DEF FieldsOf
<1> HIDE DEF fields
<1>5. ASSUME NEW n \in DOMAIN fields PROVE p.values[n] = q.values[n]
  <2> DEFINE f == fields[n]
             at == f.at
             size == f.bytes
             v == p.values[n]
             w == q.values[n]
             e(b) == Extra(p.kind, p.flag, b)
  <2>1. v \in [1 .. size -> 0 .. 255] /\ w \in [1 .. size -> 0 .. 255]
    BY <1>4, OperationIs DEF fields
  <2>2. at \in 4 .. 19 /\ size \in 1 .. 16 /\ at + size <= 20
    BY <1>4 DEF Apart
  <2>3. \A b \in 1 .. 19 : b \in at .. at + size - 1 =>
           /\ to_raw(p)[b] = v[b - at + 1] + e(b)
           /\ to_raw(q)[b] = w[b - at + 1] + e(b)
    <3>1. \A b \in 1 .. 19 : Covers(f, b) =>
             /\ to_raw(p)[b] = v[b - at + 1] + Extra(p.kind, p.flag, b)
             /\ to_raw(q)[b] = w[b - at + 1] + Extra(q.kind, q.flag, b)
      BY <1>4, BytesAre DEF fields
    <3> QED
      BY <1>2, <1>3, <3>1 DEF Covers
  <2>4. \A b \in 1 .. 19 : e(b) \in Int
    BY DEF Extra, SignBit
  <2> HIDE DEF f, at, size, v, w, e
  <2>5. ASSUME NEW i \in 1 .. size PROVE v[i] = w[i]
    <3> DEFINE b == at + i - 1
               x == v[i]
               y == w[i]
    <3>1. b \in 1 .. 19 /\ b \in at .. at + size - 1 /\ b - at + 1 = i
      BY <2>2
    <3>2. to_raw(p)[b] = x + e(b) /\ to_raw(q)[b] = y + e(b) /\ e(b) \in Int
      BY <2>3, <2>4, <3>1
    <3>3. x \in Int /\ y \in Int
      <4>1. \A u \in [1 .. size -> 0 .. 255] : u[i] \in 0 .. 255
        OBVIOUS
      <4>2. x \in 0 .. 255 /\ y \in 0 .. 255
        BY <2>1, <4>1
      <4> HIDE DEF x, y
      <4> QED
        BY <4>2
    <3> HIDE DEF b, x, y
    <3>4. x = y
      BY <3>2, <3>3
    <3> QED
      BY <3>4 DEF x, y
  <2>6. v = w
    <3>1. v = [i \in 1 .. size |-> v[i]] /\ w = [i \in 1 .. size |-> w[i]]
      BY <2>1
    <3> QED
      BY <2>5, <3>1
  <2> QED
    BY <2>6 DEF v, w
<1>6. p.values = q.values
  <2>1. p.values = [n \in DOMAIN fields |-> p.values[n]] /\ q.values = [n \in DOMAIN fields |-> q.values[n]]
    BY <1>4, OperationIs DEF fields
  <2> QED
    BY <1>5, <2>1
<1> QED
  BY <1>2, <1>3, <1>6, OperationIs

\* What was sent last is the message of what was enqueued last.
CodecInv ==
    \/ operation = NoOperation /\ message = <<>>
    \/ operation \in Operations /\ message = to_raw(operation)

\* A message is the one operation it was made of, for all values that fields may hold.
THEOREM MessagesTellOperationsApart == CodecSpec => SameBytesSameOrder
<1>1. CodecInit => CodecInv
  BY DEF CodecInit, CodecInv
<1>2. ASSUME NEW op \in Operations, enqueue_operation(op)
      PROVE  operation' = op /\ message' = to_raw(op)
  BY <1>2 DEF enqueue_operation, Messages
<1>3. CodecInv /\ [CodecNext]_codecVars => CodecInv'
  <2>1. CASE UNCHANGED codecVars
    BY <2>1 DEF codecVars, CodecInv
  <2>2. ASSUME NEW op \in Operations, enqueue_operation(op) PROVE CodecInv'
    BY <1>2, <2>2 DEF CodecInv
  <2> QED
    BY <2>1, <2>2 DEF CodecNext
<1>4. CodecInv /\ [CodecNext]_codecVars => [message' = message => operation' = operation]_codecVars
  <2> SUFFICES ASSUME CodecInv, NEW op \in Operations, enqueue_operation(op), message' = message
               PROVE  operation' = operation
    BY DEF CodecNext
  <2>1. operation' = op /\ message' = to_raw(op)
    BY <1>2
  <2>2. message # <<>>
    <3>1. DOMAIN to_raw(op) = 0 .. 19
      BY BytesAre
    <3>2. 0 \in DOMAIN message
      BY <2>1, <3>1
    <3> QED
      BY <3>2
  <2>3. operation \in Operations /\ message = to_raw(operation)
    BY <2>2 DEF CodecInv
  <2> QED
    BY <2>1, <2>3, MessageTells
<1> QED
  BY <1>1, <1>3, <1>4, PTL DEF CodecSpec, SameBytesSameOrder

-----------------------------------------------------------------------------
(* BattleFlight: what the hook leaves behind, and how soon a hit ship runs. *)

\* Every ship is on one of two sides of a battle.
FlightConstants ==
    /\ side_of \in [BattleShips -> {0, 1}]
    /\ battle_of \in [BattleShips -> Fights]
    /\ GRACE_COUNTER_INITIAL \in Nat

\* The scales the game writes.
Courages == {1} \union CourageAtStart

\* What is kept of a ship.
Ship == [grace : 0..GRACE_COUNTER_INITIAL, inFight : BOOLEAN, fleeing : BOOLEAN, damaged : BOOLEAN]

\* A ship's grace counter only runs down, and every scale is one the game wrote.
FlightTypeOK ==
    /\ object \in [BattleShips -> Ship]
    /\ scale \in [Fights -> [{0, 1} -> Courages]]
    /\ SAMPLED \subseteq BattleShips

\* The hook takes the scale of a side to zero for one ship's step; when the step is over, whatever
\* the ship decided in it, every scale is what it was.
CourageIsPutBack == [][\A o \in BattleShips : step(o) => scale' = scale]_flightVars

\* The steps before a hit ship must run: its grace, and the honest step.
countdown(o) == object[o].grace + (IF o \in SAMPLED THEN 0 ELSE 1)

\* A step of a hit ship that should flee, behind a hooked vtable and against guns, makes it flee or
\* leave the fight, or brings it nearer to that: once its grace is over and it has had its honest
\* step, the very next one does, however its battles and those at the same address went before.
HitShipsCountDown ==
    [][\A o \in BattleShips :
          step(o) /\ MustRun(o)
          => \/ object'[o].fleeing \/ ~object'[o].inFight
             \/ countdown(o)' < countdown(o)]_flightVars


\* The invariant holds before start().
LEMMA FlightStart == ASSUME FlightConstants, FlightInit PROVE FlightTypeOK
<1>1. Fresh \in Ship
  BY DEF Fresh, Ship, FlightConstants
<1> QED
  BY <1>1 DEF FlightInit, FlightTypeOK, Brave, Courages

\* A ship that turns is a ship.
LEMMA ShipTurns ==
    ASSUME NEW s \in Ship, NEW way \in BOOLEAN
    PROVE  [s EXCEPT !.fleeing = way] \in Ship
  BY DEF Ship

\* The game's own step, at any courage, keeps it one.
LEMMA GameSteps ==
    ASSUME FlightConstants, FlightTypeOK, NEW o \in BattleShips, NEW c,
           NEW r \in fight_or_flee(o, c)
    PROVE  r.object \in Ship
<1>1. object[o] \in Ship
  BY DEF FlightTypeOK
<1>2. Out \in Ship
  BY DEF Out, Ship, FlightConstants
<1>3. CASE object[o].inFight /\ object[o].grace > 0
  <2>1. r.object = [object[o] EXCEPT !.grace = @ - 1]
    BY <1>3 DEF fight_or_flee
  <2>2. object[o].grace - 1 \in 0..GRACE_COUNTER_INITIAL
    BY <1>1, <1>3 DEF Ship, FlightConstants
  <2> QED
    BY <1>1, <2>1, <2>2 DEF Ship
<1>4. CASE ~object[o].inFight
  BY <1>1, <1>4 DEF fight_or_flee
<1>5. CASE object[o].inFight /\ ~(object[o].grace > 0)
  <2>1. r.object \in {[object[o] EXCEPT !.fleeing = FALSE], [object[o] EXCEPT !.fleeing = TRUE], Out}
    BY <1>5 DEF fight_or_flee
  <2>2. /\ [object[o] EXCEPT !.fleeing = FALSE] \in Ship
        /\ [object[o] EXCEPT !.fleeing = TRUE] \in Ship
    BY <1>1, ShipTurns
  <2> QED
    BY <1>2, <2>1, <2>2
<1> QED
  BY <1>3, <1>4, <1>5

\* What the hook lowers it puts back.
LEMMA CourageReturns ==
    ASSUME FlightConstants, FlightTypeOK, NEW o \in BattleShips, step(o)
    PROVE  scale' = scale
<1> DEFINE b == battle_of[o]
           side == side_of[o]
           lowered == [scale EXCEPT ![b][side] = 0]
<1>1. b \in Fights /\ side \in {0, 1} /\ scale \in [Fights -> [{0, 1} -> Courages]]
  BY DEF FlightConstants, FlightTypeOK
<1>2. [lowered EXCEPT ![b][side] = scale[b][side]] = scale
  <2>1. [scale[b] EXCEPT ![side] = 0] = [s \in {0, 1} |-> IF s = side THEN 0 ELSE scale[b][s]]
    BY <1>1
  <2>2. [[scale[b] EXCEPT ![side] = 0] EXCEPT ![side] = scale[b][side]] = scale[b]
    BY <1>1
  <2> QED
    BY <1>1, <2>2
<1>3. scale' = scale \/ scale' = [lowered EXCEPT ![b][side] = scale[b][side]]
  BY DEF step
<1> QED
  BY <1>2, <1>3

\* Every step preserves the invariant.
LEMMA FlightStep ==
    ASSUME FlightConstants, FlightTypeOK, [FlightNext]_flightVars PROVE FlightTypeOK'
<1>0. object \in [BattleShips -> Ship] /\ Fresh \in Ship /\ Out \in Ship
  BY DEF FlightTypeOK, FlightConstants, Fresh, Out, Ship
<1>1. CASE start
  BY <1>1 DEF start, FlightTypeOK
<1>2. ASSUME NEW o \in BattleShips, step(o) PROVE FlightTypeOK'
  <2>1. scale' = scale
    BY <1>2, CourageReturns
  <2>2. SAMPLED' \subseteq BattleShips
    BY <1>2 DEF step, FlightTypeOK
  <2>0. PICK c : \E r \in fight_or_flee(o, c) : object' = [object EXCEPT ![o] = r.object]
    BY <1>2 DEF step
  <2>3. PICK r \in fight_or_flee(o, c) : object' = [object EXCEPT ![o] = r.object]
    BY <2>0
  <2>4. r.object \in Ship
    BY <2>3, GameSteps
  <2> QED
    BY <1>0, <2>1, <2>2, <2>3, <2>4 DEF FlightTypeOK
<1>3. ASSUME NEW o \in BattleShips, Hit(o) PROVE FlightTypeOK'
  <2>1. [object[o] EXCEPT !.damaged = TRUE] \in Ship
    BY <1>0 DEF Ship
  <2> QED
    BY <1>0, <1>3, <2>1 DEF Hit, FlightTypeOK
<1>4. ASSUME NEW o \in BattleShips, FleeButton(o) PROVE FlightTypeOK'
  <2>1. [object[o] EXCEPT !.fleeing = TRUE] \in Ship
    BY <1>0, ShipTurns
  <2> QED
    BY <1>0, <1>4, <2>1 DEF FleeButton, FlightTypeOK
<1>5. ASSUME NEW b \in Fights, enter_or_decline(b) PROVE FlightTypeOK'
  BY <1>5 DEF enter_or_decline, FlightTypeOK
<1>6. ASSUME NEW b \in Fights, NextBattle(b) PROVE FlightTypeOK'
  <2>1. PICK c \in CourageAtStart : scale' = [scale EXCEPT ![b] = [s \in {0, 1} |-> c]]
    BY <1>6 DEF NextBattle
  <2>2. scale' \in [Fights -> [{0, 1} -> Courages]]
    BY <2>1 DEF FlightTypeOK, Courages
  <2>3. object' \in [BattleShips -> Ship] /\ UNCHANGED SAMPLED
    BY <1>0, <1>6 DEF NextBattle
  <2> QED
    BY <2>2, <2>3 DEF FlightTypeOK
<1>7. ASSUME NEW side \in gunned, LoseGuns(side) PROVE FlightTypeOK'
  BY <1>7 DEF LoseGuns, FlightTypeOK
<1>8. CASE UNCHANGED flightVars
  BY <1>8 DEF flightVars, FlightTypeOK
<1> QED
  BY <1>1, <1>2, <1>3, <1>4, <1>5, <1>6, <1>7, <1>8 DEF FlightNext

\* A step of a hit ship, by what is left of its countdown.
LEMMA HitShipNearsFlight ==
    ASSUME FlightConstants, FlightTypeOK, NEW o \in BattleShips, step(o), MustRun(o)
    PROVE  object'[o].fleeing \/ ~object'[o].inFight \/ countdown(o)' < countdown(o)
<1> DEFINE b == battle_of[o]
           side == side_of[o]
           sample == wants_verdict_sample(o)
           lowered == IF ~sample THEN [scale EXCEPT ![b][side] = 0] ELSE scale
<1>0. /\ object[o].inFight /\ object[o].grace \in Nat
      /\ b \in Fights /\ side \in {0, 1} /\ scale \in [Fights -> [{0, 1} -> Courages]]
  BY DEF FlightConstants, FlightTypeOK, Ship, should_flee, MustRun
<1>1. PICK r \in fight_or_flee(o, lowered[b][side]) : object' = [object EXCEPT ![o] = r.object]
  BY DEF step, MustRun
<1>2. SAMPLED' = IF sample THEN SAMPLED \union {o} ELSE SAMPLED
  BY DEF step, MustRun
<1>3. object'[o] = r.object
  BY <1>1 DEF FlightTypeOK
<1>4. CASE object[o].grace > 0
  <2>1. r.object = [object[o] EXCEPT !.grace = @ - 1]
    BY <1>0, <1>1, <1>4 DEF fight_or_flee
  <2>2. ~sample
    BY <1>0, <1>4 DEF wants_verdict_sample
  <2>3. object[o] \in Ship
    BY DEF FlightTypeOK
  <2>4. object'[o].grace = object[o].grace - 1 /\ SAMPLED' = SAMPLED
    BY <1>2, <1>3, <2>1, <2>2, <2>3 DEF Ship
  <2> QED
    BY <1>0, <2>4 DEF countdown
<1>5. CASE object[o].grace = 0 /\ o \in SAMPLED
  <2>1. ~sample
    BY <1>5 DEF wants_verdict_sample
  <2>2. lowered[b][side] = 0
    BY <1>0, <2>1
  <2>3. r.object \in {[object[o] EXCEPT !.fleeing = TRUE], Out}
    BY <1>0, <1>1, <1>5, <2>2 DEF fight_or_flee, MustRun
  <2>4. object[o] \in Ship
    BY DEF FlightTypeOK
  <2> QED
    BY <1>3, <2>3, <2>4 DEF Out, Ship
<1>6. CASE object[o].grace = 0 /\ o \notin SAMPLED
  <2>1. sample
    BY <1>6 DEF wants_verdict_sample
  <2>2. o \in SAMPLED'
    BY <1>2, <2>1
  <2>3. r.object.grace = 0
    <3>1. object[o] \in Ship
      BY DEF FlightTypeOK
    <3>2. r.object \in {[object[o] EXCEPT !.fleeing = FALSE], [object[o] EXCEPT !.fleeing = TRUE], Out}
      BY <1>0, <1>1, <1>6 DEF fight_or_flee
    <3> QED
      BY <1>6, <3>1, <3>2 DEF Out, Ship
  <2> QED
    BY <1>3, <1>6, <2>2, <2>3 DEF countdown
<1> QED
  BY <1>0, <1>4, <1>5, <1>6

\* The invariant of the battles.
LEMMA FlightTypes == ASSUME FlightConstants PROVE FlightSpec => []FlightTypeOK
<1>1. FlightInit => FlightTypeOK
  BY FlightStart
<1>2. FlightTypeOK /\ [FlightNext]_flightVars => FlightTypeOK'
  BY FlightStep
<1> QED
  BY <1>1, <1>2, PTL DEF FlightSpec

\* No other ship ever sees a scale that the hook has lowered, for any ships, sides and scales.
THEOREM ScalesAreTheGames == ASSUME FlightConstants PROVE FlightSpec => CourageIsPutBack
<1> DEFINE Back == \A o \in BattleShips : step(o) => scale' = scale
<1>1. FlightTypeOK => Back
  BY CourageReturns
<1> HIDE DEF Back
<1>2. FlightSpec => [][Back]_flightVars
  BY <1>1, FlightTypes, PTL DEF FlightSpec
<1> QED
  BY <1>2 DEF Back, CourageIsPutBack

\* For any ships, battles and grace: a hit ship that must run does so after as many steps as its
\* grace and one.
THEOREM FlightComesNearer == ASSUME FlightConstants PROVE FlightSpec => HitShipsCountDown
<1> DEFINE Nearer ==
      \A o \in BattleShips :
          step(o) /\ MustRun(o)
          => \/ object'[o].fleeing \/ ~object'[o].inFight
             \/ countdown(o)' < countdown(o)
<1>1. FlightTypeOK => Nearer
  BY HitShipNearsFlight
<1> HIDE DEF Nearer
<1>2. FlightSpec => [][Nearer]_flightVars
  BY <1>1, FlightTypes, PTL DEF FlightSpec
<1> QED
  BY <1>2 DEF Nearer, HitShipsCountDown

=============================================================================
