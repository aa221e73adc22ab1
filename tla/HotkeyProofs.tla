---------------------------- MODULE HotkeyProofs ----------------------------
(***************************************************************************)
(* Theorems about HotkeyRegistry, for any number of consumers and keys and *)
(* any size of the table and of the snapshot, and about HotkeyScopes, for  *)
(* any keys and any number of keys per group: registrations and the        *)
(* handles kept of them match one to one; with a table that has room for   *)
(* every key, the keys of a window are registered exactly while it is on   *)
(* screen, and an open window's keys never reach the route keys' handler.  *)
(* And about ListWatch, the probe whose one-shot check is such a key: its  *)
(* data breakpoint, for any resources and any number of hits.              *)
(***************************************************************************)
EXTENDS ListWatch, HotkeyScopes, FiniteSetTheorems, TLAPS

-----------------------------------------------------------------------------
(* The table operators.                                                    *)

Ascending(es) == \A i, j \in DOMAIN es : i < j => es[i].handle < es[j].handle

\* hotkeys_unregister on a table in handle order: what is left is in handle order, came
\* from the table, and is everything but the handle removed.
LEMMA DroppedFacts ==
    ASSUME NEW es \in Seq(Entry), Ascending(es), NEW h
    PROVE  /\ Dropped(es, h) \in Seq(Entry)
           /\ Len(Dropped(es, h)) <= Len(es)
           /\ Ascending(Dropped(es, h))
           /\ \A j \in DOMAIN Dropped(es, h) : \E i \in DOMAIN es :
                Dropped(es, h)[j] = es[i] /\ es[i].handle # h
           /\ \A i \in DOMAIN es : es[i].handle # h =>
                \E j \in DOMAIN Dropped(es, h) : Dropped(es, h)[j] = es[i]
<1>1. CASE \A i \in DOMAIN es : es[i].handle # h
  <2>1. Dropped(es, h) = es
    BY <1>1 DEF Dropped
  <2> QED
    BY <1>1, <2>1
<1>2. CASE \E i \in DOMAIN es : es[i].handle = h
  <2> DEFINE slot == CHOOSE i \in DOMAIN es : es[i].handle = h
             rest == [j \in 1 .. Len(es) - 1 |-> IF j < slot THEN es[j] ELSE es[j + 1]]
  <2>1. slot \in DOMAIN es /\ es[slot].handle = h
    BY <1>2
  <2>2. Dropped(es, h) = rest
    BY <1>2 DEF Dropped
  <2> HIDE DEF slot
  <2>3. slot \in 1 .. Len(es) /\ Len(es) \in Nat
    BY <2>1
  <2>4. rest \in Seq(Entry) /\ DOMAIN rest = 1 .. Len(es) - 1 /\ Len(rest) = Len(es) - 1
    <3>1. Len(es) - 1 \in Nat
      BY <2>3
    <3>2. \A j \in 1 .. Len(es) - 1 : rest[j] \in Entry
      BY <2>3
    <3>3. DOMAIN rest = 1 .. Len(es) - 1
      OBVIOUS
    <3>4. rest \in [1 .. Len(es) - 1 -> Entry]
      BY <3>2, <3>3
    <3> HIDE DEF rest
    <3> QED
      BY <3>1, <3>3, <3>4
  <2>5. Ascending(rest)
    <3> SUFFICES ASSUME NEW i \in 1 .. Len(es) - 1, NEW j \in 1 .. Len(es) - 1, i < j
                 PROVE  rest[i].handle < rest[j].handle
      BY <2>4 DEF Ascending
    <3>1. PICK a \in {i, i + 1} : rest[i] = es[a] /\ (a = i <=> i < slot)
      BY <2>3
    <3>2. PICK b \in {j, j + 1} : rest[j] = es[b] /\ (b = j <=> j < slot)
      BY <2>3
    <3>3. a \in DOMAIN es /\ b \in DOMAIN es /\ a < b
      BY <3>1, <3>2, <2>3
    <3> QED
      BY <3>1, <3>2, <3>3 DEF Ascending
  <2>6. \A i \in DOMAIN es : es[i].handle = h => i = slot
    <3> SUFFICES ASSUME NEW i \in DOMAIN es, es[i].handle = h, i # slot
                 PROVE  FALSE
      OBVIOUS
    <3>1. es[i].handle \in Nat /\ es[slot].handle \in Nat
      <4>1. es[i] \in Entry /\ es[slot] \in Entry
        BY <2>1
      <4> QED
        BY <4>1 DEF Entry
    <3>2. i < slot \/ slot < i
      BY <2>3
    <3> QED
      BY <2>1, <3>1, <3>2 DEF Ascending
  <2>7. \A j \in DOMAIN rest : \E i \in DOMAIN es : rest[j] = es[i] /\ es[i].handle # h
    <3> SUFFICES ASSUME NEW j \in 1 .. Len(es) - 1
                 PROVE  \E i \in DOMAIN es : rest[j] = es[i] /\ es[i].handle # h
      BY <2>4
    <3>1. CASE j < slot
      BY <3>1, <2>3, <2>6
    <3>2. CASE ~(j < slot)
      BY <3>2, <2>3, <2>6
    <3> QED
      BY <3>1, <3>2
  <2>8. \A i \in DOMAIN es : es[i].handle # h => \E j \in DOMAIN rest : rest[j] = es[i]
    <3> SUFFICES ASSUME NEW i \in DOMAIN es, es[i].handle # h
                 PROVE  \E j \in DOMAIN rest : rest[j] = es[i]
      OBVIOUS
    <3>1. CASE i < slot
      BY <3>1, <2>3, <2>4
    <3>2. CASE i > slot
      <4>1. i - 1 \in 1 .. Len(es) - 1 /\ rest[i - 1] = es[i]
        BY <3>2, <2>3
      <4> QED
        BY <4>1, <2>4
    <3> QED
      BY <3>1, <3>2, <2>1, <2>3
  <2> HIDE DEF rest
  <2>9. Len(rest) <= Len(es)
    BY <2>3, <2>4
  <2> QED
    BY <2>2, <2>4, <2>5, <2>7, <2>8, <2>9
<1> QED
  BY <1>1, <1>2

\* hotkeys_register with the next free handle keeps the table in handle order and adds
\* exactly the new registration, or nothing when the table is full.
LEMMA AddedFacts ==
    ASSUME NEW es \in Seq(Entry), Ascending(es), Len(es) <= CAPACITY,
           NEW h \in Nat \ {0}, \A i \in DOMAIN es : es[i].handle < h,
           NEW o \in Owners, NEW k \in Keys
    PROVE  /\ Added(es, h, o, k) \in Seq(Entry)
           /\ Len(Added(es, h, o, k)) <= CAPACITY
           /\ Ascending(Added(es, h, o, k))
           /\ \A i \in DOMAIN es : i \in DOMAIN Added(es, h, o, k) /\ Added(es, h, o, k)[i] = es[i]
           /\ Len(es) = CAPACITY => Added(es, h, o, k) = es
           /\ Len(es) # CAPACITY =>
                /\ Len(Added(es, h, o, k)) = Len(es) + 1
                /\ Added(es, h, o, k)[Len(es) + 1] = [handle |-> h, owner |-> o, key |-> k]
<1> DEFINE new == [handle |-> h, owner |-> o, key |-> k]
<1>1. CASE Len(es) = CAPACITY
  <2>1. Added(es, h, o, k) = es
    BY <1>1 DEF Added
  <2> QED
    BY <1>1, <2>1
<1>2. CASE Len(es) # CAPACITY
  <2>1. Added(es, h, o, k) = Append(es, new)
    BY <1>2 DEF Added
  <2>2. new \in Entry /\ new.handle = h
    BY DEF Entry
  <2> HIDE DEF new
  <2>3. /\ Append(es, new) \in Seq(Entry)
        /\ Len(Append(es, new)) = Len(es) + 1
        /\ \A i \in DOMAIN es : Append(es, new)[i] = es[i]
        /\ Append(es, new)[Len(es) + 1] = new
        /\ DOMAIN Append(es, new) = 1 .. Len(es) + 1
    BY <2>2
  <2>4. Ascending(Append(es, new))
    BY <2>2, <2>3 DEF Ascending
  <2>5. Len(es) + 1 <= CAPACITY
    BY <1>2, RegistryAssumption
  <2> QED
    BY <1>2, <2>1, <2>3, <2>4, <2>5 DEF new
<1> QED
  BY <1>1, <1>2

-----------------------------------------------------------------------------
(* The inductive invariant.                                                *)

IInv == TypeOK /\ HandlesAscend /\ SnapshotMeansTheSame /\ WalkInOrder /\ WalkComplete

\* What the type invariant says of single registrations and matches.
LEMMA Types ==
    ASSUME IInv
    PROVE  /\ entries \in Seq(Entry) /\ Len(entries) \in Nat /\ DOMAIN entries = 1 .. Len(entries)
           /\ Ascending(entries)
           /\ next_handle \in Nat \ {0}
           /\ \A i \in DOMAIN entries : entries[i] \in Entry /\ entries[i].handle \in Nat \ {0}
                                       /\ entries[i].handle < next_handle
           /\ \A m \in DOMAIN matches : matches[m] \in Entry /\ matches[m].handle \in Nat \ {0}
                                       /\ matches[m].handle < next_handle
<1>1. entries \in Seq(Entry) /\ matches \in Seq(Entry) /\ next_handle \in Nat \ {0} /\ mark \in Nat
  BY DEF IInv, TypeOK
<1>2. \A i \in DOMAIN entries : entries[i] \in Entry
  BY <1>1
<1>3. \A m \in DOMAIN matches : matches[m] \in Entry
  BY <1>1
<1>4. \A e \in Entry : e.handle \in Nat \ {0}
  BY DEF Entry
<1>5. \A i \in DOMAIN entries : entries[i].handle < next_handle
  BY DEF IInv, HandlesAscend
<1>6. \A m \in DOMAIN matches : matches[m].handle < mark
  BY DEF IInv, WalkInOrder, StillToOffer
<1>7. mark <= next_handle
  BY DEF IInv, WalkInOrder
<1>8. Ascending(entries)
  BY DEF IInv, HandlesAscend, Ascending
<1> HIDE DEF Entry
<1>9. \A m \in DOMAIN matches : matches[m].handle < next_handle
  BY <1>1, <1>3, <1>4, <1>6, <1>7
<1> QED
  BY <1>1, <1>2, <1>3, <1>4, <1>5, <1>8, <1>9

LEMMA InitInv == RegistryInit => IInv
BY RegistryAssumption DEF RegistryInit, IInv, TypeOK, HandlesAscend, SnapshotMeansTheSame, WalkInOrder, WalkComplete

LEMMA RegisterInv ==
    ASSUME IInv, NEW o \in Owners, NEW k \in Keys, hotkeys_register(o, k)
    PROVE  IInv'
<1> DEFINE es == Added(entries, next_handle, o, k)
<1>1. /\ es \in Seq(Entry)
      /\ Len(es) <= CAPACITY
      /\ Ascending(es)
      /\ \A i \in DOMAIN entries : i \in DOMAIN es /\ es[i] = entries[i]
      /\ Len(entries) = CAPACITY => es = entries
      /\ Len(entries) # CAPACITY =>
           /\ Len(es) = Len(entries) + 1
           /\ es[Len(entries) + 1] = [handle |-> next_handle, owner |-> o, key |-> k]
  <2>1. Len(entries) <= CAPACITY
    BY DEF IInv, TypeOK
  <2> QED
    BY <2>1, Types, AddedFacts
<1> HIDE DEF es
<1>2. entries' = es /\ UNCHANGED hook
  BY DEF hotkeys_register, es
<1>3. next_handle' = IF Len(entries) = CAPACITY THEN next_handle ELSE next_handle + 1
  BY DEF hotkeys_register
<1>4. CASE Len(entries) = CAPACITY
  BY <1>1, <1>2, <1>3, <1>4 DEF IInv, TypeOK, HandlesAscend, SnapshotMeansTheSame, WalkInOrder,
     WalkComplete, StillToOffer, hook
<1>5. CASE Len(entries) # CAPACITY
  <2>1. \A i \in DOMAIN es : es[i].handle = next_handle \/ (i \in DOMAIN entries /\ es[i] = entries[i])
    <3>1. DOMAIN es = 1 .. Len(entries) + 1
      BY <1>1, <1>5
    <3> QED
      BY <1>1, <1>5, <3>1, Types
  <2>2. TypeOK'
    BY <1>1, <1>2, <1>3 DEF IInv, TypeOK, hook
  <2>3. HandlesAscend'
    <3>1. \A i \in DOMAIN es : es[i].handle < next_handle + 1
      BY <2>1, Types
    <3> QED
      BY <1>1, <1>2, <1>3, <1>5, <3>1 DEF HandlesAscend, Ascending
  <2>4. \A m \in DOMAIN matches : matches[m].handle < next_handle
    BY Types
  <2>5. SnapshotMeansTheSame'
    BY <1>2, <2>1, <2>4, Types DEF IInv, SnapshotMeansTheSame, hook
  <2>6. WalkInOrder'
    BY <1>2, <1>3, <1>5 DEF IInv, TypeOK, WalkInOrder, StillToOffer, hook
  <2>7. WalkComplete'
    BY <1>2, <2>1 DEF IInv, TypeOK, WalkInOrder, WalkComplete, StillToOffer, hook
  <2> QED
    BY <2>2, <2>3, <2>5, <2>6, <2>7 DEF IInv
<1> QED
  BY <1>4, <1>5

LEMMA UnregisterInv ==
    ASSUME IInv, NEW h, hotkeys_unregister(h)
    PROVE  IInv'
<1> DEFINE es == Dropped(entries, h)
<1>1. /\ es \in Seq(Entry)
      /\ Len(es) <= Len(entries)
      /\ Ascending(es)
      /\ \A j \in DOMAIN es : \E i \in DOMAIN entries : es[j] = entries[i]
  BY DroppedFacts DEF IInv, TypeOK, HandlesAscend, Ascending
<1> HIDE DEF es
<1>2. entries' = es /\ UNCHANGED <<next_handle, hook>>
  BY DEF hotkeys_unregister, es
<1>3. TypeOK'
  BY <1>1, <1>2, RegistryAssumption DEF IInv, TypeOK, hook
<1>4. HandlesAscend'
  BY <1>1, <1>2 DEF IInv, HandlesAscend, Ascending
<1>5. SnapshotMeansTheSame'
  BY <1>1, <1>2 DEF IInv, SnapshotMeansTheSame, hook
<1>6. WalkInOrder'
  BY <1>2 DEF IInv, WalkInOrder, StillToOffer, hook
<1>7. WalkComplete'
  BY <1>1, <1>2 DEF IInv, WalkComplete, StillToOffer, hook
<1> QED
  BY <1>3, <1>4, <1>5, <1>6, <1>7 DEF IInv

LEMMA KeyDownInv ==
    ASSUME IInv, NEW k \in Keys, KeyDown(k)
    PROVE  IInv'
<1>0. PICK n \in 0 .. MAX_MATCHES : \E slots \in [1 .. n -> DOMAIN entries] :
        /\ IsSnapshot(slots, k)
        /\ matches' = [m \in 1 .. n |-> entries[slots[m]]]
        /\ floor' = IF n = MAX_MATCHES THEN entries[slots[n]].handle ELSE 0
  BY DEF KeyDown
<1>1. PICK slots \in [1 .. n -> DOMAIN entries] :
        /\ IsSnapshot(slots, k)
        /\ matches' = [m \in 1 .. n |-> entries[slots[m]]]
        /\ floor' = IF n = MAX_MATCHES THEN entries[slots[n]].handle ELSE 0
  BY <1>0
<1>2. /\ UNCHANGED <<table, running>>
      /\ pressed' = k /\ called' = {} /\ mark' = next_handle
      /\ phase' = "walk" /\ outcome' = "none"
  BY DEF KeyDown
<1>3. n \in Nat /\ \A m \in 1 .. n : slots[m] \in DOMAIN entries /\ entries[slots[m]] \in Entry
  BY RegistryAssumption DEF IInv, TypeOK
<1>4. /\ matches' \in Seq(Entry) /\ DOMAIN matches' = 1 .. n /\ Len(matches') = n
      /\ \A m \in 1 .. n : matches'[m] = entries[slots[m]]
  BY <1>1, <1>3
<1>5. TypeOK'
  <2>1. floor' \in Nat
    BY <1>1, <1>3, RegistryAssumption DEF Entry
  <2> QED
    BY <1>2, <1>3, <1>4, <2>1, RegistryAssumption DEF IInv, TypeOK, table
<1>6. HandlesAscend'
  BY <1>2 DEF IInv, HandlesAscend, table
<1>7. SnapshotMeansTheSame'
  <2>1. \A i, j \in DOMAIN entries : entries[i].handle = entries[j].handle => i = j
    BY Types DEF Ascending
  <2> QED
    BY <1>2, <1>3, <1>4, <2>1 DEF SnapshotMeansTheSame, table
<1>8. WalkInOrder'
  <2>1. \A m \in 1 .. n : slots[m] \in Matching(k)
    BY <1>1, <1>3 DEF IsSnapshot
  <2>2. \A m, o \in 1 .. n : m < o => slots[o] < slots[m]
    BY <1>1, <1>3 DEF IsSnapshot
  <2>3. \A m \in 1 .. n : floor' <= entries[slots[m]].handle
    <3> SUFFICES ASSUME NEW m \in 1 .. n, n = MAX_MATCHES
                 PROVE  entries[slots[n]].handle <= entries[slots[m]].handle
      BY <1>1, <1>3 DEF Entry
    <3>1. CASE m = n
      BY <3>1, <1>3 DEF Entry
    <3>2. CASE m < n
      BY <3>2, <1>3, <2>2 DEF IInv, HandlesAscend, Entry
    <3> QED
      BY <3>1, <3>2, <1>3
  <2>4. \A m \in 1 .. n : entries[slots[m]].handle < next_handle
    BY <1>3 DEF IInv, HandlesAscend
  <2>5. \A m, o \in 1 .. n : m < o => entries[slots[o]].handle < entries[slots[m]].handle
    BY <1>3, <2>2 DEF IInv, HandlesAscend
  <2> QED
    BY <1>2, <1>3, <1>4, <2>1, <2>3, <2>4, <2>5 DEF WalkInOrder, StillToOffer, Matching, IInv, TypeOK, table, Entry
<1>9. WalkComplete'
  <2> SUFFICES ASSUME NEW i \in DOMAIN entries, entries[i].key = k, floor' <= entries[i].handle
               PROVE  \E m \in 1 .. n : slots[m] = i
    BY <1>2, <1>4 DEF WalkComplete, StillToOffer, table
  <2>1. i \in Matching(k) /\ entries[i] \in Entry
    BY DEF Matching, IInv, TypeOK
  <2>2. ASSUME n = MAX_MATCHES, \A m \in 1 .. n : i < slots[m]
        PROVE  FALSE
    <3>1. n \in 1 .. n /\ i < slots[n] /\ floor' = entries[slots[n]].handle
      BY <2>2, <1>1, RegistryAssumption
    <3>2. entries[i].handle < entries[slots[n]].handle
      BY <3>1, <1>3 DEF IInv, HandlesAscend
    <3> QED
      BY <3>1, <3>2, <1>3, <2>1 DEF Entry
  <2>3. Len(slots) = n /\ DOMAIN slots = 1 .. n
    BY <1>3
  <2> QED
    BY <1>1, <2>1, <2>2, <2>3 DEF IsSnapshot
<1> QED
  BY <1>5, <1>6, <1>7, <1>8, <1>9 DEF IInv

\* Dropping the first match.
LEMMA TailFacts ==
    ASSUME IInv, matches # << >>
    PROVE  /\ Tail(matches) \in Seq(Entry) /\ Len(Tail(matches)) <= MAX_MATCHES
           /\ Head(matches) \in Entry /\ Head(matches) = matches[1] /\ 1 \in DOMAIN matches
           /\ DOMAIN Tail(matches) = 1 .. Len(matches) - 1
           /\ \A m \in DOMAIN Tail(matches) : m + 1 \in DOMAIN matches /\ Tail(matches)[m] = matches[m + 1]
           /\ \A m \in DOMAIN matches : m # 1 =>
                m - 1 \in DOMAIN Tail(matches) /\ Tail(matches)[m - 1] = matches[m]
<1>1. matches \in Seq(Entry) /\ Len(matches) <= MAX_MATCHES
  BY DEF IInv, TypeOK
<1> QED
  BY <1>1, RegistryAssumption

LEMMA SkipStaleInv == ASSUME IInv, SkipStale PROVE IInv'
<1>1. matches # << >> /\ matches' = Tail(matches) /\ ~Registered(matches[1].handle)
  BY TailFacts DEF SkipStale
<1>2. UNCHANGED <<entries, next_handle, running, phase, outcome, called, pressed, mark, floor>>
  BY DEF SkipStale, table, press
<1>3. TypeOK'
  BY <1>1, <1>2, TailFacts DEF IInv, TypeOK
<1>4. HandlesAscend' /\ SnapshotMeansTheSame'
  BY <1>1, <1>2, TailFacts DEF IInv, HandlesAscend, SnapshotMeansTheSame
<1>5. WalkInOrder'
  BY <1>1, <1>2, TailFacts DEF IInv, WalkInOrder, StillToOffer
<1>6. WalkComplete'
  <2> SUFFICES ASSUME NEW i \in DOMAIN entries, phase # "idle", StillToOffer(entries[i])
               PROVE  \E m \in DOMAIN Tail(matches) : Tail(matches)[m] = entries[i]
    BY <1>1, <1>2 DEF WalkComplete, StillToOffer
  <2>1. PICK m \in DOMAIN matches : matches[m] = entries[i]
    BY DEF IInv, WalkComplete
  <2>2. m # 1
    BY <1>1, <2>1 DEF Registered
  <2> QED
    BY <1>1, <2>1, <2>2, TailFacts
<1> QED
  BY <1>3, <1>4, <1>5, <1>6 DEF IInv

LEMMA CallNextInv == ASSUME IInv, CallNext PROVE IInv'
<1>1. /\ matches # << >> /\ matches' = Tail(matches) /\ phase = "walk"
      /\ running' = matches[1].handle /\ called' = called \cup {matches[1].handle} /\ phase' = "handler"
  BY TailFacts DEF CallNext
<1>2. UNCHANGED <<entries, next_handle, outcome, pressed, mark, floor>>
  BY DEF CallNext, table, press
<1>3. matches[1].handle \in Nat
  BY <1>1, TailFacts, Types
<1>4. TypeOK'
  BY <1>1, <1>2, <1>3, TailFacts DEF IInv, TypeOK
<1>5. HandlesAscend' /\ SnapshotMeansTheSame'
  BY <1>1, <1>2, TailFacts DEF IInv, HandlesAscend, SnapshotMeansTheSame
<1>6. WalkInOrder'
  <2>1. \A m \in DOMAIN Tail(matches) : Tail(matches)[m].handle < matches[1].handle
    BY <1>1, TailFacts, Types DEF IInv, WalkInOrder
  <2> QED
    BY <1>1, <1>2, <2>1, TailFacts DEF IInv, WalkInOrder, StillToOffer
<1>7. WalkComplete'
  <2> SUFFICES ASSUME NEW i \in DOMAIN entries, StillToOffer(entries[i]), entries[i].handle < matches[1].handle
               PROVE  \E m \in DOMAIN Tail(matches) : Tail(matches)[m] = entries[i]
    BY <1>1, <1>2 DEF WalkComplete, StillToOffer
  <2>1. PICK m \in DOMAIN matches : matches[m] = entries[i]
    BY <1>1 DEF IInv, WalkComplete
  <2>2. m # 1
    BY <2>1, <1>3
  <2> QED
    BY <1>1, <2>1, <2>2, TailFacts
<1> QED
  BY <1>4, <1>5, <1>6, <1>7 DEF IInv

LEMMA OtherStepsInv ==
    ASSUME IInv, OtherKeyEvent \/ PassOn \/ Decline \/ Swallow \/ UNCHANGED registryVars
    PROVE  IInv'
<1> USE DEF IInv, TypeOK, HandlesAscend, SnapshotMeansTheSame, WalkInOrder, WalkComplete, StillToOffer, table, press
<1>1. CASE OtherKeyEvent
  BY <1>1 DEF OtherKeyEvent
<1>2. CASE PassOn
  BY <1>2 DEF PassOn
<1>3. CASE Decline
  BY <1>3 DEF Decline
<1>4. CASE Swallow
  BY <1>4, RegistryAssumption DEF Swallow
<1>5. CASE UNCHANGED registryVars
  BY <1>5 DEF registryVars
<1> QED
  BY <1>1, <1>2, <1>3, <1>4, <1>5

LEMMA NextInv == IInv /\ [Next]_registryVars => IInv'
<1> SUFFICES ASSUME IInv, [Next]_registryVars
             PROVE  IInv'
  OBVIOUS
<1>1. ASSUME NEW o \in Owners, NEW k \in Keys, hotkeys_register(o, k)
      PROVE  IInv'
  BY <1>1, RegisterInv
<1>2. ASSUME NEW h \in 1 .. MaxHandle, hotkeys_unregister(h)
      PROVE  IInv'
  BY <1>2, UnregisterInv
<1>3. ASSUME NEW k \in Keys, KeyDown(k)
      PROVE  IInv'
  BY <1>3, KeyDownInv
<1> QED
  BY <1>1, <1>2, <1>3, SkipStaleInv, CallNextInv, OtherStepsInv DEF Next, Consumer, Hook

-----------------------------------------------------------------------------
(* The theorems.                                                           *)

LEMMA Invariance == Spec => []IInv
BY InitInv, NextInv, PTL DEF Spec

\* The registry's state is well formed: the table never exceeds its capacity, the
\* snapshot never exceeds its own.
THEOREM TypeCorrect == Spec => []TypeOK
<1>1. IInv => TypeOK
  BY DEF IInv
<1> QED
  BY <1>1, Invariance, PTL

\* Handles are never reused and the table stays in registration order.
THEOREM TableInOrder == Spec => []HandlesAscend
<1>1. IInv => HandlesAscend
  BY DEF IInv
<1> QED
  BY <1>1, Invariance, PTL

\* The handle-only recheck before a call identifies the registration.
THEOREM RecheckIsSound == Spec => []SnapshotMeansTheSame
<1>1. IInv => SnapshotMeansTheSame
  BY DEF IInv
<1> QED
  BY <1>1, Invariance, PTL

\* The rest of the snapshot is what the keystroke may still be offered to, newest first
\* and complete.
THEOREM WalkIsNewestFirst == Spec => [](WalkInOrder /\ WalkComplete)
<1>1. IInv => WalkInOrder /\ WalkComplete
  BY DEF IInv
<1> QED
  BY <1>1, Invariance, PTL

\* No handler is entered once its registration is gone.
THEOREM DisarmedIsNeverCalled == Spec => NeverCallsDisarmed
<1>1. ASSUME IInv, [Next]_registryVars, phase' = "handler", phase # "handler"
      PROVE  Registered(running')
  <2>1. CallNext
    BY <1>1 DEF Next, Consumer, Hook, hotkeys_register, hotkeys_unregister, KeyDown, OtherKeyEvent,
       SkipStale, PassOn, Decline, Swallow, hook, registryVars, IInv, TypeOK
  <2> QED
    BY <2>1 DEF CallNext
<1>2. IInv /\ [Next]_registryVars => [phase' = "handler" /\ phase # "handler" => Registered(running')]_registryVars
  BY <1>1
<1> QED
  BY <1>2, Invariance, PTL DEF Spec, NeverCallsDisarmed

-----------------------------------------------------------------------------
(* The registry implements HotkeyShadowing.                                *)

Live == {entries[i] : i \in DOMAIN entries}

\* What the abstract walk may still offer the keystroke to is the registered part of
\* the rest of the snapshot.
LEMMA CandidatesAreMatches ==
    ASSUME IInv, phase = "walk"
    PROVE  Shadowing!Candidates = {matches[m] : m \in {n \in DOMAIN matches : Registered(matches[n].handle)}}
<1>1. ASSUME NEW r \in Shadowing!Candidates
      PROVE  \E m \in DOMAIN matches : r = matches[m] /\ Registered(matches[m].handle)
  <2>1. PICK i \in DOMAIN entries : r = entries[i] /\ StillToOffer(entries[i])
    BY DEF Shadowing!Candidates, Shadowing!Of, StillToOffer
  <2>2. PICK m \in DOMAIN matches : matches[m] = entries[i]
    BY <2>1 DEF IInv, WalkComplete
  <2> QED
    BY <2>1, <2>2 DEF Registered
<1>2. ASSUME NEW m \in DOMAIN matches, Registered(matches[m].handle)
      PROVE  matches[m] \in Shadowing!Candidates
  <2>1. PICK i \in DOMAIN entries : entries[i].handle = matches[m].handle
    BY <1>2 DEF Registered
  <2>2. entries[i] = matches[m] /\ StillToOffer(matches[m])
    BY <2>1 DEF IInv, SnapshotMeansTheSame, WalkInOrder
  <2> QED
    BY <2>2 DEF Shadowing!Candidates, Shadowing!Of, StillToOffer
<1> QED
  BY <1>1, <1>2

LEMMA RegisterRefines ==
    ASSUME IInv, NEW o \in Owners, NEW k \in Keys, hotkeys_register(o, k)
    PROVE  Shadowing!Register(o, k) \/ UNCHANGED Shadowing!vars
<1> DEFINE new == [handle |-> next_handle, owner |-> o, key |-> k]
<1>1. CASE Len(entries) = CAPACITY
  BY <1>1 DEF hotkeys_register, Added, hook, Shadowing!vars
<1>2. CASE Len(entries) # CAPACITY
  <2>1. entries' = Append(entries, new) /\ next_handle' = next_handle + 1
    BY <1>2 DEF hotkeys_register, Added
  <2> HIDE DEF new
  <2>2. /\ DOMAIN entries' = 1 .. Len(entries) + 1 /\ entries'[Len(entries) + 1] = new
        /\ \A i \in DOMAIN entries : entries'[i] = entries[i]
        /\ DOMAIN entries = 1 .. Len(entries) /\ Len(entries) \in Nat
    BY <2>1, Types
  <2>3. Live' = Live \cup {new}
    BY <2>2 DEF Live
  <2> QED
    BY <2>1, <2>3 DEF Live, new, hotkeys_register, hook, Shadowing!Register, Shadowing!ConsumerRuns,
       ConsumerRuns, Shadowing!press
<1> QED
  BY <1>1, <1>2

LEMMA UnregisterRefines ==
    ASSUME IInv, NEW h, hotkeys_unregister(h)
    PROVE  Shadowing!Unregister(h)
<1>1. entries' = Dropped(entries, h)
  BY DEF hotkeys_unregister
<1>2. /\ \A j \in DOMAIN entries' : \E i \in DOMAIN entries : entries'[j] = entries[i] /\ entries[i].handle # h
      /\ \A i \in DOMAIN entries : entries[i].handle # h => \E j \in DOMAIN entries' : entries'[j] = entries[i]
  <2>1. entries \in Seq(Entry) /\ Ascending(entries)
    BY Types
  <2>2. /\ \A j \in DOMAIN Dropped(entries, h) : \E i \in DOMAIN entries :
             Dropped(entries, h)[j] = entries[i] /\ entries[i].handle # h
        /\ \A i \in DOMAIN entries : entries[i].handle # h =>
             \E j \in DOMAIN Dropped(entries, h) : Dropped(entries, h)[j] = entries[i]
    BY <2>1, DroppedFacts
  <2> QED
    BY <1>1, <2>2
<1>3. Live' = {r \in Live : r.handle # h}
  BY <1>2 DEF Live
<1> QED
  BY <1>3 DEF Live, hotkeys_unregister, hook, Shadowing!Unregister, Shadowing!ConsumerRuns, ConsumerRuns,
     Shadowing!press

LEMMA KeyDownRefines ==
    ASSUME IInv, NEW k \in Keys, KeyDown(k)
    PROVE  Shadowing!Press(k)
<1>1. PICK n \in 0 .. MAX_MATCHES : \E slots \in [1 .. n -> DOMAIN entries] :
        /\ IsSnapshot(slots, k)
        /\ floor' = IF n = MAX_MATCHES THEN entries[slots[n]].handle ELSE 0
  BY DEF KeyDown
<1>2. PICK slots \in [1 .. n -> DOMAIN entries] :
        /\ IsSnapshot(slots, k)
        /\ floor' = IF n = MAX_MATCHES THEN entries[slots[n]].handle ELSE 0
  BY <1>1
<1>3. floor' \in {0} \cup {r.handle : r \in Shadowing!Of(k)}
  <2>1. CASE n # MAX_MATCHES
    BY <1>2, <2>1
  <2>2. CASE n = MAX_MATCHES
    <3>1. n \in 1 .. n /\ DOMAIN slots = 1 .. n
      BY <2>2, RegistryAssumption
    <3>2. slots[n] \in Matching(k)
      BY <1>2, <3>1 DEF IsSnapshot
    <3> QED
      BY <1>2, <2>2, <3>2 DEF Matching, Shadowing!Of
  <2> QED
    BY <2>1, <2>2
<1> QED
  BY <1>3 DEF KeyDown, table, Shadowing!Press

LEMMA CallNextRefines ==
    ASSUME IInv, CallNext
    PROVE  \E r \in Live : Shadowing!Offer(r)
<1>1. phase = "walk" /\ matches # << >> /\ Registered(matches[1].handle) /\ 1 \in DOMAIN matches
  BY TailFacts DEF CallNext
<1>2. matches[1] \in Shadowing!Candidates
  BY <1>1, CandidatesAreMatches
<1>3. \A r \in Shadowing!Candidates : r.handle <= matches[1].handle
  <2> SUFFICES ASSUME NEW m \in DOMAIN matches
               PROVE  matches[m].handle <= matches[1].handle
    BY <1>1, CandidatesAreMatches
  <2>1. m \in Nat /\ 1 <= m
    BY DEF IInv, TypeOK
  <2>2. m # 1 => matches[m].handle < matches[1].handle
    BY <1>1, <2>1, Types DEF IInv, WalkInOrder
  <2> QED
    BY <1>1, <2>2, Types
<1>4. Head(matches) = matches[1]
  BY <1>1, TailFacts
<1>5. matches[1] \in Live
  BY <1>2 DEF Shadowing!Candidates, Shadowing!Of, Live
<1> QED
  BY <1>1, <1>2, <1>3, <1>4, <1>5 DEF CallNext, Shadowing!Offer, table, press, Shadowing!press, Live

LEMMA NextRefines == IInv /\ [Next]_registryVars => [Shadowing!Next]_Shadowing!vars
<1> SUFFICES ASSUME IInv, [Next]_registryVars
             PROVE  Shadowing!Next \/ UNCHANGED Shadowing!vars
  OBVIOUS
<1>1. ASSUME NEW o \in Owners, NEW k \in Keys, hotkeys_register(o, k)
      PROVE  Shadowing!Next \/ UNCHANGED Shadowing!vars
  BY <1>1, RegisterRefines DEF Shadowing!Next
<1>2. ASSUME NEW h \in 1 .. MaxHandle, hotkeys_unregister(h)
      PROVE  Shadowing!Next \/ UNCHANGED Shadowing!vars
  BY <1>2, UnregisterRefines DEF Shadowing!Next
<1>3. ASSUME NEW k \in Keys, KeyDown(k)
      PROVE  Shadowing!Next \/ UNCHANGED Shadowing!vars
  BY <1>3, KeyDownRefines DEF Shadowing!Next
<1>4. CASE OtherKeyEvent
  BY <1>4 DEF OtherKeyEvent, Shadowing!Next, Shadowing!OtherKeyEvent, table, press, Shadowing!press
<1>5. CASE SkipStale
  BY <1>5 DEF SkipStale, Shadowing!vars, table, press
<1>6. CASE CallNext
  BY <1>6, CallNextRefines DEF Shadowing!Next, Live
<1>7. CASE PassOn
  <2>1. Shadowing!Candidates = {}
    BY <1>7, CandidatesAreMatches DEF PassOn
  <2> QED
    BY <1>7, <2>1 DEF PassOn, Shadowing!Next, Shadowing!PassOn, table, press, Shadowing!press
<1>8. CASE Decline
  BY <1>8 DEF Decline, Shadowing!Next, Shadowing!Decline, table, press, Shadowing!press
<1>9. CASE Swallow
  BY <1>9 DEF Swallow, Shadowing!Next, Shadowing!Swallow, table, press, Shadowing!press
<1>10. CASE UNCHANGED registryVars
  BY <1>10 DEF registryVars, Shadowing!vars
<1> QED
  BY <1>1, <1>2, <1>3, <1>4, <1>5, <1>6, <1>7, <1>8, <1>9, <1>10 DEF Next, Consumer, Hook

\* The table, its shifting slots and the one-off snapshot with its recheck behave like
\* newest-first shadowing on the set of registrations live at each call.
THEOREM ImplementsShadowing == Spec => ShadowingSpec
<1>1. RegistryInit => Shadowing!Init
  BY DEF RegistryInit, Shadowing!Init
<1> QED
  BY <1>1, Invariance, NextRefines, PTL DEF Spec, ShadowingSpec, Shadowing!Spec

-----------------------------------------------------------------------------
(* What the mods add to the registry's inductive invariant.                *)

Task == [op : {"register", "unregister"}, group : Groups, slot : Nat]

ScopeTypes ==
    /\ handles \in [Groups -> UNION {[Slots(g) -> Nat] : g \in Groups}]
    /\ \A g \in Groups : handles[g] \in [Slots(g) -> Nat]
    /\ tasks \in Seq(Task)
    /\ \A n \in DOMAIN tasks : tasks[n].slot \in Slots(tasks[n].group)
    /\ win \subseteq Windows

\* Two slots never keep the same handle.
HandlesDiffer ==
    \A g, f \in Groups : \A i \in Slots(g), j \in Slots(f) :
        Held(g, i) /\ handles[g][i] = handles[f][j] => g = f /\ i = j

\* No loop runs inside the walk, and one inside a handler belongs to a handler that
\* swallows.
LoopsSwallow ==
    /\ phase = "walk" => tasks = << >>
    /\ phase = "handler" /\ tasks # << >> => reply = "swallow"

ScopesInv == IInv /\ ScopeTypes /\ HandlesDiffer /\ NoOrphans /\ LoopsSwallow

-----------------------------------------------------------------------------
(* One turn of a registration loop.                                        *)

New(g, i) == [handle |-> next_handle, owner |-> g, key |-> GroupKeys[g][i]]

\* What a turn over slot i of group g does: the registration the slot had is gone, the
\* others are still there, and the slot keeps either nothing or a new registration.
SlotStep(g, i) ==
    /\ \A j \in DOMAIN entries' :
         \/ entries'[j] = New(g, i) /\ handles'[g][i] = next_handle
         \/ \E n \in DOMAIN entries : entries'[j] = entries[n] /\ entries[n].handle # handles[g][i]
    /\ \A n \in DOMAIN entries : entries[n].handle # handles[g][i] =>
         \E j \in DOMAIN entries' : entries'[j] = entries[n]
    /\ handles'[g][i] # 0 =>
         handles'[g][i] = next_handle /\ \E j \in DOMAIN entries' : entries'[j] = New(g, i)
    /\ \A f \in Groups : \A j \in Slots(f) : f # g \/ j # i => handles'[f][j] = handles[f][j]

\* Writing one slot.
LEMMA SlotWritten ==
    ASSUME ScopeTypes, NEW g \in Groups, NEW i \in Slots(g), NEW h \in Nat,
           handles' = [handles EXCEPT ![g][i] = h]
    PROVE  /\ handles' \in [Groups -> UNION {[Slots(f) -> Nat] : f \in Groups}]
           /\ \A f \in Groups : handles'[f] \in [Slots(f) -> Nat]
           /\ handles'[g][i] = h
           /\ \A f \in Groups : \A j \in Slots(f) : f # g \/ j # i => handles'[f][j] = handles[f][j]
<1>1. DOMAIN handles = Groups /\ \A f \in Groups : handles[f] \in [Slots(f) -> Nat]
  BY DEF ScopeTypes
<1>2. handles'[g] = [handles[g] EXCEPT ![i] = h] /\ \A f \in Groups \ {g} : handles'[f] = handles[f]
  BY <1>1
<1>3. \A f \in Groups : handles'[f] \in [Slots(f) -> Nat]
  BY <1>1, <1>2
<1>4. handles' \in [Groups -> UNION {[Slots(f) -> Nat] : f \in Groups}]
  <2>1. handles' = [f \in Groups |-> handles'[f]]
    BY <1>1
  <2>2. \A f \in Groups : handles'[f] \in UNION {[Slots(e) -> Nat] : e \in Groups}
    BY <1>3
  <2> QED
    BY <2>1, <2>2
<1> QED
  BY <1>1, <1>2, <1>3, <1>4

\* A change of the table between key events or in a handler keeps the registry's
\* invariant when it only takes registrations away or adds some with handles of its own.
LEMMA TableStepInv ==
    ASSUME IInv, UNCHANGED hook,
           entries' \in Seq(Entry), Len(entries') <= CAPACITY, Ascending(entries'),
           next_handle' \in Nat, next_handle <= next_handle',
           \A j \in DOMAIN entries' : entries'[j].handle < next_handle',
           \A j \in DOMAIN entries' :
               \/ next_handle <= entries'[j].handle
               \/ \E n \in DOMAIN entries : entries'[j] = entries[n]
    PROVE  IInv'
<1>1. \A m \in DOMAIN matches : matches[m].handle \in Nat /\ matches[m].handle < next_handle
  BY Types
<1>2. next_handle \in Nat \ {0} /\ mark <= next_handle /\ mark \in Nat
  BY DEF IInv, TypeOK, WalkInOrder
<1>3. \A j \in DOMAIN entries' : entries'[j].handle \in Nat
  <2>1. \A j \in DOMAIN entries' : entries'[j] \in Entry
    OBVIOUS
  <2> QED
    BY <2>1 DEF Entry
<1>4. TypeOK'
  BY <1>2 DEF IInv, TypeOK, hook
<1>5. HandlesAscend'
  BY DEF HandlesAscend, Ascending
<1>6. SnapshotMeansTheSame'
  BY <1>1, <1>2, <1>3 DEF IInv, SnapshotMeansTheSame, hook
<1>7. WalkInOrder'
  BY <1>2 DEF IInv, WalkInOrder, StillToOffer, hook
<1>8. WalkComplete'
  BY <1>2, <1>3 DEF IInv, WalkComplete, StillToOffer, hook
<1> QED
  BY <1>4, <1>5, <1>6, <1>7, <1>8 DEF IInv

\* The table once a slot's registration has been given back.
LEMMA Cleared ==
    ASSUME IInv, NEW h
    PROVE  /\ Dropped(entries, h) \in Seq(Entry)
           /\ Len(Dropped(entries, h)) <= CAPACITY
           /\ Ascending(Dropped(entries, h))
           /\ \A j \in DOMAIN Dropped(entries, h) : \E n \in DOMAIN entries :
                Dropped(entries, h)[j] = entries[n] /\ entries[n].handle # h
           /\ \A n \in DOMAIN entries : entries[n].handle # h =>
                \E j \in DOMAIN Dropped(entries, h) : Dropped(entries, h)[j] = entries[n]
           /\ \A j \in DOMAIN Dropped(entries, h) :
                Dropped(entries, h)[j].handle \in Nat /\ Dropped(entries, h)[j].handle < next_handle
<1>1. entries \in Seq(Entry) /\ Ascending(entries) /\ Len(entries) <= CAPACITY
  BY Types DEF IInv, TypeOK
<1> DEFINE es == Dropped(entries, h)
<1>2. /\ es \in Seq(Entry) /\ Len(es) <= Len(entries) /\ Ascending(es)
      /\ \A j \in DOMAIN es : \E n \in DOMAIN entries : es[j] = entries[n] /\ entries[n].handle # h
      /\ \A n \in DOMAIN entries : entries[n].handle # h => \E j \in DOMAIN es : es[j] = entries[n]
  BY <1>1, DroppedFacts
<1> HIDE DEF es
<1>3. Len(es) <= CAPACITY
  BY <1>1, <1>2, RegistryAssumption
<1>4. \A j \in DOMAIN es : es[j].handle \in Nat /\ es[j].handle < next_handle
  BY <1>2, Types
<1> QED
  BY <1>2, <1>3, <1>4 DEF es

LEMMA UnregisterTurnFacts ==
    ASSUME IInv, ScopeTypes, NEW g \in Groups, NEW i \in Slots(g), UnregisterTurn(g, i), UNCHANGED hook
    PROVE  /\ IInv'
           /\ SlotStep(g, i)
           /\ handles'[g][i] = 0
           /\ handles' \in [Groups -> UNION {[Slots(f) -> Nat] : f \in Groups}]
           /\ \A f \in Groups : handles'[f] \in [Slots(f) -> Nat]
<1> DEFINE es == Dropped(entries, handles[g][i])
<1>1. entries' = es /\ next_handle' = next_handle /\ handles' = [handles EXCEPT ![g][i] = 0]
  BY DEF UnregisterTurn
<1>2. /\ es \in Seq(Entry) /\ Len(es) <= CAPACITY /\ Ascending(es)
      /\ \A j \in DOMAIN es : \E n \in DOMAIN entries : es[j] = entries[n] /\ entries[n].handle # handles[g][i]
      /\ \A n \in DOMAIN entries : entries[n].handle # handles[g][i] => \E j \in DOMAIN es : es[j] = entries[n]
      /\ \A j \in DOMAIN es : es[j].handle \in Nat /\ es[j].handle < next_handle
  BY Cleared
<1> HIDE DEF es
<1>3. IInv'
  <2>1. next_handle' \in Nat /\ next_handle <= next_handle'
    BY <1>1, Types
  <2> QED
    BY <1>1, <1>2, <2>1, TableStepInv
<1>4. /\ handles' \in [Groups -> UNION {[Slots(f) -> Nat] : f \in Groups}]
      /\ \A f \in Groups : handles'[f] \in [Slots(f) -> Nat]
      /\ handles'[g][i] = 0
      /\ \A f \in Groups : \A j \in Slots(f) : f # g \/ j # i => handles'[f][j] = handles[f][j]
  BY <1>1, SlotWritten
<1>5. SlotStep(g, i)
  BY <1>1, <1>2, <1>4 DEF SlotStep
<1> QED
  BY <1>3, <1>4, <1>5

LEMMA RegisterTurnFacts ==
    ASSUME IInv, ScopeTypes, NEW g \in Groups, NEW i \in Slots(g), RegisterTurn(g, i), UNCHANGED hook
    PROVE  /\ IInv'
           /\ SlotStep(g, i)
           /\ handles'[g][i] = 0 <=> Len(Dropped(entries, handles[g][i])) = CAPACITY
           /\ handles' \in [Groups -> UNION {[Slots(f) -> Nat] : f \in Groups}]
           /\ \A f \in Groups : handles'[f] \in [Slots(f) -> Nat]
<1> DEFINE es == Dropped(entries, handles[g][i])
           ns == Added(es, next_handle, g, GroupKeys[g][i])
<1>1. /\ entries' = ns
      /\ next_handle' = IF Len(es) = CAPACITY THEN next_handle ELSE next_handle + 1
      /\ handles' = [handles EXCEPT ![g][i] = IF Len(es) = CAPACITY THEN 0 ELSE next_handle]
  BY DEF RegisterTurn
<1>2. /\ es \in Seq(Entry) /\ Len(es) <= CAPACITY /\ Ascending(es)
      /\ \A j \in DOMAIN es : \E n \in DOMAIN entries : es[j] = entries[n] /\ entries[n].handle # handles[g][i]
      /\ \A n \in DOMAIN entries : entries[n].handle # handles[g][i] => \E j \in DOMAIN es : es[j] = entries[n]
      /\ \A j \in DOMAIN es : es[j].handle \in Nat /\ es[j].handle < next_handle
  BY Cleared
<1>3. g \in Owners /\ GroupKeys[g][i] \in Keys /\ next_handle \in Nat \ {0}
  BY ScopesAssumption, Types DEF Slots
<1> HIDE DEF es
<1>4. /\ ns \in Seq(Entry) /\ Len(ns) <= CAPACITY /\ Ascending(ns)
      /\ \A j \in DOMAIN es : j \in DOMAIN ns /\ ns[j] = es[j]
      /\ Len(es) = CAPACITY => ns = es
      /\ Len(es) # CAPACITY =>
           /\ Len(ns) = Len(es) + 1
           /\ ns[Len(es) + 1] = [handle |-> next_handle, owner |-> g, key |-> GroupKeys[g][i]]
  BY <1>2, <1>3, AddedFacts
<1> HIDE DEF ns
<1>5. DOMAIN es = 1 .. Len(es) /\ Len(es) \in Nat /\ DOMAIN ns = 1 .. Len(ns)
  BY <1>2, <1>4
<1>6. \A j \in DOMAIN ns : (j \in DOMAIN es /\ ns[j] = es[j]) \/ (Len(es) # CAPACITY /\ ns[j] = New(g, i))
  <2> SUFFICES ASSUME NEW j \in DOMAIN ns, j \notin DOMAIN es
               PROVE  Len(es) # CAPACITY /\ ns[j] = New(g, i)
    BY <1>4
  <2>1. Len(es) # CAPACITY
    BY <1>4
  <2>2. j = Len(es) + 1
    BY <1>4, <1>5, <2>1
  <2> QED
    BY <1>4, <2>1, <2>2 DEF New
<1>7. Len(es) # CAPACITY => \E j \in DOMAIN ns : ns[j] = New(g, i)
  BY <1>4, <1>5 DEF New
<1>8. IInv'
  <2>1. next_handle' \in Nat /\ next_handle <= next_handle'
    BY <1>1, <1>3
  <2>2. \A j \in DOMAIN ns : ns[j].handle < next_handle'
    BY <1>1, <1>2, <1>3, <1>6 DEF New
  <2>3. \A j \in DOMAIN ns : next_handle <= ns[j].handle \/ \E n \in DOMAIN entries : ns[j] = entries[n]
    BY <1>2, <1>3, <1>6 DEF New
  <2> QED
    BY <1>1, <1>4, <2>1, <2>2, <2>3, TableStepInv
<1>9. /\ handles' \in [Groups -> UNION {[Slots(f) -> Nat] : f \in Groups}]
      /\ \A f \in Groups : handles'[f] \in [Slots(f) -> Nat]
      /\ handles'[g][i] = IF Len(es) = CAPACITY THEN 0 ELSE next_handle
      /\ \A f \in Groups : \A j \in Slots(f) : f # g \/ j # i => handles'[f][j] = handles[f][j]
  <2> DEFINE kept == IF Len(es) = CAPACITY THEN 0 ELSE next_handle
  <2>1. kept \in Nat
    BY <1>3
  <2>2. handles' = [handles EXCEPT ![g][i] = kept]
    BY <1>1
  <2> HIDE DEF kept
  <2>3. /\ handles' \in [Groups -> UNION {[Slots(f) -> Nat] : f \in Groups}]
        /\ \A f \in Groups : handles'[f] \in [Slots(f) -> Nat]
        /\ handles'[g][i] = kept
        /\ \A f \in Groups : \A j \in Slots(f) : f # g \/ j # i => handles'[f][j] = handles[f][j]
    BY <2>1, <2>2, SlotWritten
  <2> QED
    BY <2>3 DEF kept
<1>10. SlotStep(g, i)
  BY <1>1, <1>2, <1>4, <1>6, <1>7, <1>9 DEF SlotStep
<1>11. handles'[g][i] = 0 <=> Len(es) = CAPACITY
  BY <1>3, <1>9
<1> QED
  BY <1>8, <1>9, <1>10, <1>11 DEF es

\* One to one: a turn keeps every registration reachable through its slot.
LEMMA SlotStepMatches ==
    ASSUME IInv, ScopeTypes, HandlesDiffer, NoOrphans, NEW g \in Groups, NEW i \in Slots(g), SlotStep(g, i)
    PROVE  NoOrphans' /\ HandlesDiffer'
<1>1. \A f \in Groups : \A j \in Slots(f) : handles[f][j] \in Nat /\ handles[f][j] < next_handle
  <2> SUFFICES ASSUME NEW f \in Groups, NEW j \in Slots(f)
               PROVE  handles[f][j] \in Nat /\ handles[f][j] < next_handle
    OBVIOUS
  <2>1. handles[f][j] \in Nat /\ next_handle \in Nat \ {0}
    BY Types DEF ScopeTypes
  <2>2. CASE Held(f, j)
    BY <2>1, <2>2, Types DEF NoOrphans, Registered
  <2>3. CASE ~Held(f, j)
    BY <2>1, <2>3 DEF Held
  <2> QED
    BY <2>2, <2>3
<1>2. \A n \in DOMAIN entries : entries[n].owner \in Groups
  BY Types, ScopesAssumption DEF Entry
<1>3. HandlesDiffer'
  <2> SUFFICES ASSUME NEW f \in Groups, NEW e \in Groups, NEW j \in Slots(f), NEW k \in Slots(e),
                      handles'[f][j] # 0, handles'[f][j] = handles'[e][k]
               PROVE  f = e /\ j = k
    BY DEF HandlesDiffer, Held
  <2>1. CASE (f = g /\ j = i) \/ (e = g /\ k = i)
    BY <2>1, <1>1 DEF SlotStep
  <2>2. CASE ~(f = g /\ j = i) /\ ~(e = g /\ k = i)
    BY <2>2 DEF SlotStep, HandlesDiffer, Held
  <2> QED
    BY <2>1, <2>2
<1>4. ASSUME NEW m \in DOMAIN entries'
      PROVE  \E j \in Slots(entries'[m].owner) : /\ handles'[entries'[m].owner][j] = entries'[m].handle
                                                /\ GroupKeys[entries'[m].owner][j] = entries'[m].key
  <2>1. CASE entries'[m] = New(g, i) /\ handles'[g][i] = next_handle
    BY <2>1 DEF New
  <2>2. CASE \E n \in DOMAIN entries : entries'[m] = entries[n] /\ entries[n].handle # handles[g][i]
    <3>1. PICK n \in DOMAIN entries : entries'[m] = entries[n] /\ entries[n].handle # handles[g][i]
      BY <2>2
    <3>2. PICK j \in Slots(entries[n].owner) : /\ handles[entries[n].owner][j] = entries[n].handle
                                              /\ GroupKeys[entries[n].owner][j] = entries[n].key
      BY DEF NoOrphans
    <3>3. handles'[entries[n].owner][j] = handles[entries[n].owner][j]
      BY <1>2, <3>1, <3>2 DEF SlotStep
    <3> QED
      BY <3>1, <3>2, <3>3
  <2> QED
    BY <2>1, <2>2 DEF SlotStep
<1>5. ASSUME NEW f \in Groups, NEW j \in Slots(f), handles'[f][j] # 0
      PROVE  \E m \in DOMAIN entries' : entries'[m].handle = handles'[f][j]
  <2>1. CASE f = g /\ j = i
    BY <1>5, <2>1 DEF SlotStep, New
  <2>2. CASE ~(f = g /\ j = i)
    <3>1. handles'[f][j] = handles[f][j] /\ Held(f, j)
      BY <1>5, <2>2 DEF SlotStep, Held
    <3>2. PICK n \in DOMAIN entries : entries[n].handle = handles[f][j]
      BY <3>1 DEF NoOrphans, Registered
    <3>3. handles[f][j] # handles[g][i]
      BY <2>2, <3>1 DEF HandlesDiffer
    <3> QED
      BY <3>1, <3>2, <3>3 DEF SlotStep
  <2> QED
    BY <2>1, <2>2
<1> QED
  BY <1>3, <1>4, <1>5 DEF NoOrphans, Held, Registered

-----------------------------------------------------------------------------
(* The loops that callbacks and handlers start.                            *)

IsTasks(ts) == ts \in Seq(Task) /\ \A n \in DOMAIN ts : ts[n].slot \in Slots(ts[n].group)

LEMMA EmptyTasks == IsTasks(<< >>)
BY DEF IsTasks

LEMMA GroupTasks ==
    ASSUME NEW g \in Groups
    PROVE  /\ IsTasks(register_group(g)) /\ IsTasks(unregister_group(g))
           /\ DOMAIN register_group(g) = Slots(g) /\ DOMAIN unregister_group(g) = Slots(g)
<1>1. Slots(g) = 1 .. Len(GroupKeys[g]) /\ Len(GroupKeys[g]) \in Nat
  BY ScopesAssumption DEF Slots
<1>2. register_group(g) \in [1 .. Len(GroupKeys[g]) -> Task] /\ unregister_group(g) \in [1 .. Len(GroupKeys[g]) -> Task]
  BY <1>1 DEF register_group, unregister_group, Task
<1>3. register_group(g) \in Seq(Task) /\ unregister_group(g) \in Seq(Task)
  BY <1>1, <1>2
<1>4. \A i \in Slots(g) : register_group(g)[i].slot \in Slots(register_group(g)[i].group)
  BY DEF register_group
<1>5. \A i \in Slots(g) : unregister_group(g)[i].slot \in Slots(unregister_group(g)[i].group)
  BY DEF unregister_group
<1> QED
  BY <1>1, <1>2, <1>3, <1>4, <1>5 DEF IsTasks

LEMMA JoinedTasks ==
    ASSUME NEW s, NEW t, IsTasks(s), IsTasks(t)
    PROVE  IsTasks(s \o t)
<1>1. s \in Seq(Task) /\ t \in Seq(Task) /\ s \o t \in Seq(Task)
  BY DEF IsTasks
<1>2. \A n \in DOMAIN (s \o t) :
        \/ n \in DOMAIN s /\ (s \o t)[n] = s[n]
        \/ n - Len(s) \in DOMAIN t /\ (s \o t)[n] = t[n - Len(s)]
  BY <1>1
<1> QED
  BY <1>1, <1>2 DEF IsTasks

LEMMA WindowTasks ==
    /\ \A w \in Windows : \A opener : IsTasks(OpenTurns(w, opener))
    /\ \A w \in Windows : IsTasks(CloseTurns(w))
    /\ \A ws : IsTasks(CloseHooks(ws))
    /\ CloseHooks({}) = << >>
<1>1. \A w \in Windows : w \in Groups
  BY DEF Windows, Groups
<1>2. \A w \in Windows : \A opener : IsTasks(OpenTurns(w, opener))
  BY <1>1, GroupTasks, EmptyTasks DEF OpenTurns
<1>3. \A w \in Windows : IsTasks(CloseTurns(w))
  BY <1>1, GroupTasks, EmptyTasks DEF CloseTurns
<1>4. ASSUME NEW ws
      PROVE  IsTasks(CloseHooks(ws))
  <2> DEFINE Closing(w) == IF w \in ws THEN CloseTurns(w) ELSE << >>
  <2>1. IsTasks(Closing("office")) /\ IsTasks(Closing("dialog")) /\ IsTasks(Closing("page"))
    BY <1>3, EmptyTasks DEF Windows
  <2>2. CloseHooks(ws) = Closing("office") \o Closing("dialog") \o Closing("page")
    BY DEF CloseHooks
  <2> HIDE DEF Closing
  <2>3. IsTasks(Closing("office") \o Closing("dialog"))
    BY <2>1, JoinedTasks
  <2> QED
    BY <2>1, <2>2, <2>3, JoinedTasks
<1>5. CloseHooks({}) = << >>
  BY DEF CloseHooks
<1> QED
  BY <1>2, <1>3, <1>4, <1>5

-----------------------------------------------------------------------------
(* The steps.                                                              *)

\* What a handler does apart from being called.
LEMMA HandlerFacts ==
    ASSUME ScopesInv, Handler
    PROVE  /\ CallNext
           /\ IsTasks(tasks')
           /\ tasks' # << >> => reply' = "swallow"
           /\ win' \subseteq win
           /\ UNCHANGED <<handles, hooked>>
<1>1. CallNext
  BY DEF Handler, global_hotkeys, office_hotkeys, dialog_hotkeys, page_hotkeys, town_hotkey, Calls
<1>2. tasks = << >>
  BY <1>1 DEF CallNext, ScopesInv, LoopsSwallow
<1>3. CASE global_hotkeys \/ office_hotkeys \/ page_hotkeys
  BY <1>1, <1>2, <1>3, EmptyTasks DEF global_hotkeys, office_hotkeys, page_hotkeys
<1>4. ASSUME NEW refresh \in BOOLEAN, dialog_hotkeys(refresh)
      PROVE  IsTasks(tasks') /\ reply' = "swallow" /\ UNCHANGED <<win, handles, hooked>>
  <2>1. IsTasks(CloseTurns("dialog")) /\ IsTasks(register_group("dialog"))
    BY WindowTasks, GroupTasks DEF Windows, Groups
  <2>2. IsTasks(CloseTurns("dialog") \o register_group("dialog"))
    BY <2>1, JoinedTasks
  <2> QED
    BY <1>4, <2>2, EmptyTasks DEF dialog_hotkeys
<1>5. ASSUME NEW act \in BOOLEAN, NEW closing \in SUBSET win, town_hotkey(act, closing)
      PROVE  IsTasks(tasks') /\ (tasks' # << >> => reply' = "swallow") /\ win' \subseteq win
             /\ UNCHANGED <<handles, hooked>>
  <2>1. CASE closing = {}
    BY <1>5, <2>1, WindowTasks, EmptyTasks DEF town_hotkey
  <2>2. CASE closing # {}
    BY <1>5, <2>2, WindowTasks DEF town_hotkey
  <2> QED
    BY <2>1, <2>2
<1> QED
  BY <1>1, <1>3, <1>4, <1>5 DEF Handler

\* The turn at the head of the queue.
LEMMA TurnFacts ==
    ASSUME ScopesInv, Turn
    PROVE  \E t \in Task :
             /\ tasks # << >> /\ t = tasks[1] /\ t.slot \in Slots(t.group) /\ t.group \in Groups
             /\ IsTasks(tasks') /\ Len(tasks') = Len(tasks) - 1
             /\ \A n \in DOMAIN tasks' : n + 1 \in DOMAIN tasks /\ tasks'[n] = tasks[n + 1]
             /\ \A n \in DOMAIN tasks : n # 1 => n - 1 \in DOMAIN tasks' /\ tasks'[n - 1] = tasks[n]
             /\ t.op = "register" => RegisterTurn(t.group, t.slot)
             /\ t.op = "unregister" => UnregisterTurn(t.group, t.slot)
             /\ UNCHANGED <<hook, win, hooked, reply, effects>>
<1>1. tasks # << >> /\ tasks' = Tail(tasks) /\ UNCHANGED <<hook, win, hooked, reply, effects>>
  BY DEF Turn
<1>2. tasks \in Seq(Task) /\ \A n \in DOMAIN tasks : tasks[n].slot \in Slots(tasks[n].group)
  BY DEF ScopesInv, ScopeTypes
<1>3. 1 \in DOMAIN tasks /\ Head(tasks) = tasks[1] /\ tasks[1] \in Task
  BY <1>1, <1>2
<1>4. tasks[1].group \in Groups /\ tasks[1].op \in {"register", "unregister"}
  BY <1>3 DEF Task
<1>5. tasks' \in Seq(Task) /\ Len(tasks') = Len(tasks) - 1 /\ DOMAIN tasks' = 1 .. Len(tasks) - 1
  BY <1>1, <1>2
<1>6. \A n \in DOMAIN tasks' : n + 1 \in DOMAIN tasks /\ tasks'[n] = tasks[n + 1]
  BY <1>1, <1>2, <1>5
<1>7. \A n \in DOMAIN tasks : n # 1 => n - 1 \in DOMAIN tasks' /\ tasks'[n - 1] = tasks[n]
  <2> SUFFICES ASSUME NEW n \in DOMAIN tasks, n # 1
               PROVE  n - 1 \in DOMAIN tasks' /\ tasks'[n - 1] = tasks[n]
    OBVIOUS
  <2>1. n - 1 \in DOMAIN tasks' /\ n - 1 + 1 = n
    BY <1>2, <1>5
  <2> QED
    BY <1>6, <2>1
<1>8. IsTasks(tasks')
  BY <1>2, <1>5, <1>6 DEF IsTasks
<1>9. /\ tasks[1].op = "register" => RegisterTurn(tasks[1].group, tasks[1].slot)
      /\ tasks[1].op = "unregister" => UnregisterTurn(tasks[1].group, tasks[1].slot)
  BY <1>3 DEF Turn
<1> QED
  BY <1>1, <1>2, <1>3, <1>4, <1>5, <1>6, <1>7, <1>8, <1>9

\* Steps that leave the table and the slots alone.
LEMMA SlotsUntouched ==
    ASSUME ScopesInv, UNCHANGED <<entries, handles>>, IsTasks(tasks'), win' \subseteq Windows
    PROVE  ScopeTypes' /\ HandlesDiffer' /\ NoOrphans'
BY DEF ScopesInv, ScopeTypes, IsTasks, HandlesDiffer, NoOrphans, Held, Registered

LEMMA TurnInv == ASSUME ScopesInv, Turn PROVE ScopesInv'
<1>1. PICK t \in Task :
        /\ tasks # << >> /\ t = tasks[1] /\ t.slot \in Slots(t.group) /\ t.group \in Groups
        /\ IsTasks(tasks')
        /\ t.op = "register" => RegisterTurn(t.group, t.slot)
        /\ t.op = "unregister" => UnregisterTurn(t.group, t.slot)
        /\ UNCHANGED <<hook, win, hooked, reply, effects>>
  BY TurnFacts
<1>2. IInv' /\ SlotStep(t.group, t.slot)
      /\ handles' \in [Groups -> UNION {[Slots(f) -> Nat] : f \in Groups}]
      /\ \A f \in Groups : handles'[f] \in [Slots(f) -> Nat]
  <2>1. IInv /\ ScopeTypes /\ t.op \in {"register", "unregister"}
    BY DEF Task, ScopesInv
  <2>2. CASE t.op = "register"
    BY <1>1, <2>1, <2>2, RegisterTurnFacts
  <2>3. CASE t.op = "unregister"
    BY <1>1, <2>1, <2>3, UnregisterTurnFacts
  <2> QED
    BY <2>1, <2>2, <2>3
<1>3. ScopeTypes'
  BY <1>1, <1>2 DEF ScopesInv, ScopeTypes, IsTasks
<1>4. NoOrphans' /\ HandlesDiffer'
  BY <1>1, <1>2, SlotStepMatches DEF ScopesInv
<1>5. LoopsSwallow'
  BY <1>1 DEF ScopesInv, LoopsSwallow, hook
<1> QED
  BY <1>2, <1>3, <1>4, <1>5 DEF ScopesInv

LEMMA CallbackFacts ==
    ASSUME ScopesInv, Callback
    PROVE  Idle /\ IsTasks(tasks') /\ win' \subseteq Windows
           /\ UNCHANGED <<registryVars, handles, hooked, reply, effects>>
<1>1. ASSUME NEW w \in Windows, NEW opener, NEW closing, OpenWindow(w, opener, closing)
      PROVE  Idle /\ IsTasks(tasks') /\ win' \subseteq Windows
             /\ UNCHANGED <<registryVars, handles, hooked, reply, effects>>
  <2>1. IsTasks(CloseHooks(closing) \o OpenTurns(w, opener))
    BY WindowTasks, JoinedTasks
  <2> QED
    BY <1>1, <2>1 DEF OpenWindow, ScopesInv, ScopeTypes
<1>2. ASSUME NEW w \in Windows, CloseWindow(w)
      PROVE  Idle /\ IsTasks(tasks') /\ win' \subseteq Windows
             /\ UNCHANGED <<registryVars, handles, hooked, reply, effects>>
  BY <1>2, WindowTasks DEF CloseWindow, ScopesInv, ScopeTypes
<1> QED
  BY <1>1, <1>2 DEF Callback, office_window_open, page_shown, dialog_populate, Windows

LEMMA ScopesStepInv == ASSUME ScopesInv, [ScopesNext]_vars PROVE ScopesInv'
<1>0. ScopeTypes /\ IsTasks(tasks) /\ win \subseteq Windows
  BY DEF ScopesInv, ScopeTypes, IsTasks
<1>1. CASE Turn
  BY <1>1, TurnInv
<1>2. CASE Callback
  <2>1. Idle /\ IsTasks(tasks') /\ win' \subseteq Windows
        /\ UNCHANGED <<registryVars, handles, hooked, reply, effects>>
    BY <1>2, CallbackFacts
  <2>2. IInv'
    BY <2>1, OtherStepsInv DEF ScopesInv
  <2>3. LoopsSwallow'
    BY <2>1 DEF LoopsSwallow, Idle, registryVars
  <2> QED
    BY <2>1, <2>2, <2>3, SlotsUntouched DEF ScopesInv, registryVars
<1>3. ASSUME NEW k \in Keys, Press(k)
      PROVE  ScopesInv'
  <2>1. KeyDown(k) /\ tasks = << >> /\ UNCHANGED <<handles, win, hooked, tasks, reply>> /\ entries' = entries
    BY <1>3 DEF Press, Idle, KeyDown, table
  <2>2. IInv'
    BY <2>1, KeyDownInv DEF ScopesInv
  <2>3. LoopsSwallow'
    BY <2>1 DEF LoopsSwallow
  <2> QED
    BY <1>0, <2>1, <2>2, <2>3, SlotsUntouched DEF ScopesInv
<1>4. CASE Handler
  <2>1. CallNext /\ IsTasks(tasks') /\ (tasks' # << >> => reply' = "swallow") /\ win' \subseteq win
        /\ UNCHANGED <<handles, hooked>> /\ entries' = entries /\ phase' = "handler"
    BY <1>4, HandlerFacts DEF CallNext, table
  <2>2. IInv'
    BY <2>1, CallNextInv DEF ScopesInv
  <2>3. LoopsSwallow'
    BY <2>1 DEF LoopsSwallow
  <2> QED
    BY <1>0, <2>1, <2>2, <2>3, SlotsUntouched DEF ScopesInv
<1>5. CASE HandlerReturns \/ KeyPassedOn
  <2>1. (Decline \/ Swallow \/ PassOn) /\ UNCHANGED scopeVars /\ entries' = entries
    BY <1>5 DEF HandlerReturns, KeyPassedOn, Decline, Swallow, PassOn, table
  <2>2. IInv'
    BY <2>1, OtherStepsInv DEF ScopesInv
  <2>3. LoopsSwallow'
    BY <1>5 DEF HandlerReturns, KeyPassedOn, Decline, Swallow, PassOn, LoopsSwallow, scopeVars
  <2> QED
    BY <1>0, <2>1, <2>2, <2>3, SlotsUntouched DEF ScopesInv, scopeVars
<1>6. CASE UNCHANGED vars
  <2>1. IInv'
    BY <1>6, OtherStepsInv DEF ScopesInv, vars
  <2>2. UNCHANGED <<entries, handles, tasks, win, phase, reply>>
    BY <1>6 DEF vars, registryVars, scopeVars
  <2>3. LoopsSwallow'
    BY <2>2 DEF ScopesInv, LoopsSwallow
  <2> QED
    BY <1>0, <2>1, <2>2, <2>3, SlotsUntouched DEF ScopesInv
<1> QED
  BY <1>1, <1>2, <1>3, <1>4, <1>5, <1>6 DEF ScopesNext, HookStep

LEMMA ScopesInitInv == Init => ScopesInv
<1> SUFFICES ASSUME Init PROVE ScopesInv
  OBVIOUS
<1>1. IInv
  BY InitInv DEF Init
<1>2. IsTasks(tasks)
  <2>1. IsTasks(register_group("global")) /\ IsTasks(register_group("tweaks"))
    BY GroupTasks DEF Groups
  <2> QED
    BY <2>1, JoinedTasks DEF Init
<1>3. \A g \in Groups : \A i \in Slots(g) : handles[g][i] = 0
  BY DEF Init
<1>4. ScopeTypes
  <2>1. handles = [g \in Groups |-> [i \in Slots(g) |-> 0]] /\ win = {}
    BY DEF Init
  <2>2. \A g \in Groups : [i \in Slots(g) |-> 0] \in [Slots(g) -> Nat]
    OBVIOUS
  <2>3. handles \in [Groups -> UNION {[Slots(g) -> Nat] : g \in Groups}]
    BY <2>1, <2>2
  <2> QED
    BY <1>2, <2>1, <2>2, <2>3 DEF ScopeTypes, IsTasks
<1>5. NoOrphans /\ HandlesDiffer
  <2>1. DOMAIN entries = {}
    BY DEF Init, RegistryInit
  <2> QED
    BY <1>3, <2>1 DEF NoOrphans, HandlesDiffer, Held
<1>6. LoopsSwallow
  BY DEF Init, RegistryInit, LoopsSwallow
<1> QED
  BY <1>1, <1>4, <1>5, <1>6 DEF ScopesInv

LEMMA ScopesInvariance == ScopesSpec => []ScopesInv
<1>1. ScopesInv /\ [ScopesNext]_vars => ScopesInv'
  BY ScopesStepInv
<1> QED
  BY <1>1, ScopesInitInv, PTL DEF ScopesSpec

-----------------------------------------------------------------------------
\* For any keys and groups and a table of any size, also one that is full: every
\* registration of a mod's group is reachable through the one slot that can give it back,
\* and every handle kept is a registration, in the middle of every loop (ffi.rs of
\* trading-qol: "a double-fired open cannot orphan" a registration).
THEOREM EveryKeyIsHeld == ScopesSpec => []NoOrphans
<1>1. ScopesInv => NoOrphans
  BY DEF ScopesInv
<1> QED
  BY <1>1, ScopesInvariance, PTL

-----------------------------------------------------------------------------
(* The keys of windows, on a table with room for every key.                *)

Concerns(t, g, i) == t.group = g /\ t.slot = i
Mentions(ts, g, i) == \E n \in DOMAIN ts : Concerns(ts[n], g, i)

\* The last turn that concerns the slot is of this kind.
EndsWith(ts, g, i, op) ==
    \E n \in DOMAIN ts : /\ Concerns(ts[n], g, i) /\ ts[n].op = op
                         /\ \A m \in DOMAIN ts : n < m => ~Concerns(ts[m], g, i)

\* When the loops under way have run, the keys of a window whose hooks are there will be
\* registered if and only if it is on screen.
WillFollow ==
    \A w \in Windows : Followed(w) => \A i \in Slots(w) :
        /\ w \in win => EndsWith(tasks, w, i, "register") \/ (~Mentions(tasks, w, i) /\ Held(w, i))
        /\ w \notin win => EndsWith(tasks, w, i, "unregister") \/ (~Mentions(tasks, w, i) /\ ~Held(w, i))

\* The route keys are registered before any window's, and never again.
RouteKeysFirst ==
    /\ (\E n \in DOMAIN tasks : tasks[n].group = "global") =>
         /\ \A n \in DOMAIN tasks : tasks[n].group \notin Windows
         /\ \A n \in DOMAIN entries : entries[n].owner \notin Windows
    /\ \A m, n \in DOMAIN entries :
         entries[m].owner = "global" /\ entries[n].owner \in Windows => entries[m].handle < entries[n].handle

\* As long as nobody has swallowed the keystroke, an open office or dialog that claims the
\* key has yet to be called, and everybody called so far was registered after it.
WindowNotYetPassed ==
    phase # "idle" /\ ~(phase = "handler" /\ reply = "swallow") =>
        \A w \in win \cap {"office", "dialog"} : Followed(w) =>
            \A i \in Slots(w) : GroupKeys[w][i] = pressed =>
                Held(w, i) /\ handles[w][i] < mark /\ \A h \in called : handles[w][i] < h

FollowInv == ScopesInv /\ WillFollow /\ RouteKeysFirst /\ WindowNotYetPassed

\* The registry's table has a slot for every key of every group (128 for some 30 keys).
AllSlots == UNION {{g} \X Slots(g) : g \in Groups}
EveryKeyFits == Cardinality(AllSlots) <= CAPACITY

LEMMA AllSlotsFinite == IsFiniteSet(AllSlots)
<1> DEFINE Of(g) == {g} \X Slots(g)
<1>1. ASSUME NEW g \in Groups
      PROVE  IsFiniteSet(Of(g))
  <2>1. Slots(g) = 1 .. Len(GroupKeys[g]) /\ Len(GroupKeys[g]) \in Nat
    BY ScopesAssumption DEF Slots
  <2>2. IsFiniteSet(1 .. Len(GroupKeys[g]))
    <3>1. 1 \in Int /\ Len(GroupKeys[g]) \in Int
      BY <2>1
    <3> QED
      BY <3>1, FS_Interval
  <2>3. IsFiniteSet({g})
    BY FS_Singleton
  <2> QED
    BY <2>1, <2>2, <2>3, FS_Product
<1>2. AllSlots = Of("global") \cup (Of("office") \cup (Of("dialog") \cup (Of("page") \cup Of("tweaks"))))
  BY DEF AllSlots, Groups
<1>3. /\ IsFiniteSet(Of("global")) /\ IsFiniteSet(Of("office")) /\ IsFiniteSet(Of("dialog"))
      /\ IsFiniteSet(Of("page")) /\ IsFiniteSet(Of("tweaks"))
  BY <1>1 DEF Groups
<1> HIDE DEF Of
<1>4. IsFiniteSet(Of("page") \cup Of("tweaks"))
  BY <1>3, FS_Union
<1>5. IsFiniteSet(Of("dialog") \cup (Of("page") \cup Of("tweaks")))
  BY <1>3, <1>4, FS_Union
<1>6. IsFiniteSet(Of("office") \cup (Of("dialog") \cup (Of("page") \cup Of("tweaks"))))
  BY <1>3, <1>5, FS_Union
<1> QED
  BY <1>2, <1>3, <1>6, FS_Union

\* Then a turn never finds it full: the registrations left occupy different slots, and
\* none of them the slot of the turn.
LEMMA RoomForAll ==
    ASSUME EveryKeyFits, ScopesInv, NEW g \in Groups, NEW i \in Slots(g)
    PROVE  Len(Dropped(entries, handles[g][i])) # CAPACITY
<1> DEFINE es == Dropped(entries, handles[g][i])
<1>1. /\ es \in Seq(Entry) /\ Len(es) <= CAPACITY /\ Ascending(es)
      /\ \A j \in DOMAIN es : \E n \in DOMAIN entries : es[j] = entries[n] /\ entries[n].handle # handles[g][i]
      /\ \A j \in DOMAIN es : es[j].handle \in Nat /\ es[j].handle < next_handle
  BY Cleared DEF ScopesInv
<1> HIDE DEF es
<1> SUFFICES ASSUME Len(es) = CAPACITY
             PROVE  FALSE
  BY DEF es
<1>2. CAPACITY \in Nat \ {0} /\ DOMAIN es = 1 .. CAPACITY
  BY <1>1, RegistryAssumption
<1> DEFINE IsSlotOf(n, j) == handles[es[n].owner][j] = es[n].handle
           f == [n \in 1 .. CAPACITY |-> <<es[n].owner, CHOOSE j \in Slots(es[n].owner) : IsSlotOf(n, j)>>]
           Free == AllSlots \ {<<g, i>>}
<1>3. ASSUME NEW n \in 1 .. CAPACITY
      PROVE  f[n] \in Free /\ handles[f[n][1]][f[n][2]] = es[n].handle
  <2>1. PICK m \in DOMAIN entries : es[n] = entries[m] /\ entries[m].handle # handles[g][i]
    BY <1>1, <1>2
  <2>2. es[n].owner \in Groups
    BY <2>1, Types, ScopesAssumption DEF ScopesInv, Entry
  <2>3. \E j \in Slots(es[n].owner) : IsSlotOf(n, j)
    BY <2>1 DEF ScopesInv, NoOrphans
  <2> DEFINE slot == CHOOSE j \in Slots(es[n].owner) : IsSlotOf(n, j)
  <2>4. slot \in Slots(es[n].owner) /\ handles[es[n].owner][slot] = es[n].handle
    BY <2>3
  <2>5. f[n] = <<es[n].owner, slot>>
    OBVIOUS
  <2> HIDE DEF slot, f
  <2>6. f[n] # <<g, i>>
    BY <2>1, <2>4, <2>5
  <2>7. f[n] \in AllSlots
    BY <2>2, <2>4, <2>5 DEF AllSlots
  <2> QED
    BY <2>4, <2>5, <2>6, <2>7
<1>4. f \in [1 .. CAPACITY -> Free]
  BY <1>3
<1>5. IsFiniteSet(Free) /\ Cardinality(Free) < Cardinality(1 .. CAPACITY) /\ IsFiniteSet(1 .. CAPACITY)
  <2>1. <<g, i>> \in AllSlots
    BY DEF AllSlots
  <2>2. IsFiniteSet(Free) /\ Cardinality(Free) = Cardinality(AllSlots) - 1
    BY <2>1, AllSlotsFinite, FS_RemoveElement
  <2>3. IsFiniteSet(1 .. CAPACITY) /\ Cardinality(1 .. CAPACITY) = CAPACITY
    BY <1>2, FS_Interval
  <2>4. Cardinality(AllSlots) \in Nat
    BY AllSlotsFinite, FS_CardinalityType
  <2> QED
    BY <1>2, <2>2, <2>3, <2>4 DEF EveryKeyFits
<1> HIDE DEF f, Free
<1>6. \E m, n \in 1 .. CAPACITY : m # n /\ f[m] = f[n]
  BY <1>4, <1>5, FS_PigeonHole
<1>7. PICK m \in 1 .. CAPACITY, n \in 1 .. CAPACITY : m # n /\ f[m] = f[n]
  BY <1>6
<1>8. es[m].handle = es[n].handle
  BY <1>3, <1>7
<1>9. (m < n \/ n < m) /\ es[m].handle \in Nat /\ es[n].handle \in Nat
  BY <1>1, <1>2, <1>7
<1> QED
  BY <1>1, <1>2, <1>8, <1>9 DEF Ascending

-----------------------------------------------------------------------------
(* Which turn comes last.                                                  *)

LEMMA JoinedEnds ==
    ASSUME NEW s, NEW t, IsTasks(s), IsTasks(t), NEW g, NEW i, NEW op
    PROVE  /\ Mentions(s \o t, g, i) => Mentions(s, g, i) \/ Mentions(t, g, i)
           /\ EndsWith(t, g, i, op) => EndsWith(s \o t, g, i, op)
           /\ EndsWith(s, g, i, op) /\ ~Mentions(t, g, i) => EndsWith(s \o t, g, i, op)
<1> DEFINE st == s \o t
<1>1. s \in Seq(Task) /\ t \in Seq(Task)
  BY DEF IsTasks
<1>2. /\ DOMAIN st = 1 .. Len(s) + Len(t) /\ Len(s) \in Nat /\ Len(t) \in Nat
      /\ DOMAIN s = 1 .. Len(s) /\ DOMAIN t = 1 .. Len(t)
      /\ \A n \in DOMAIN s : n \in DOMAIN st /\ st[n] = s[n]
      /\ \A n \in DOMAIN t : n + Len(s) \in DOMAIN st /\ st[n + Len(s)] = t[n]
  BY <1>1
<1> HIDE DEF st
<1>3. \A n \in DOMAIN st :
        \/ n \in DOMAIN s /\ st[n] = s[n]
        \/ n - Len(s) \in DOMAIN t /\ st[n] = t[n - Len(s)]
  <2> SUFFICES ASSUME NEW n \in DOMAIN st, n \notin DOMAIN s
               PROVE  n - Len(s) \in DOMAIN t /\ st[n] = t[n - Len(s)]
    BY <1>2
  <2>1. n - Len(s) \in DOMAIN t /\ n - Len(s) + Len(s) = n
    BY <1>2
  <2> QED
    BY <1>2, <2>1
<1>4. Mentions(st, g, i) => Mentions(s, g, i) \/ Mentions(t, g, i)
  BY <1>3 DEF Mentions
<1>5. ASSUME EndsWith(t, g, i, op)
      PROVE  EndsWith(st, g, i, op)
  <2>1. PICK n \in DOMAIN t : /\ Concerns(t[n], g, i) /\ t[n].op = op
                             /\ \A m \in DOMAIN t : n < m => ~Concerns(t[m], g, i)
    BY <1>5 DEF EndsWith
  <2>2. n + Len(s) \in DOMAIN st /\ st[n + Len(s)] = t[n]
    BY <1>2
  <2>3. ASSUME NEW m \in DOMAIN st, n + Len(s) < m
        PROVE  ~Concerns(st[m], g, i)
    <3>1. m \notin DOMAIN s /\ n < m - Len(s)
      BY <1>2, <2>3
    <3>2. m - Len(s) \in DOMAIN t /\ st[m] = t[m - Len(s)]
      BY <1>3, <3>1
    <3> QED
      BY <2>1, <3>1, <3>2
  <2> QED
    BY <2>1, <2>2, <2>3 DEF EndsWith
<1>6. ASSUME EndsWith(s, g, i, op), ~Mentions(t, g, i)
      PROVE  EndsWith(st, g, i, op)
  <2>1. PICK n \in DOMAIN s : /\ Concerns(s[n], g, i) /\ s[n].op = op
                             /\ \A m \in DOMAIN s : n < m => ~Concerns(s[m], g, i)
    BY <1>6 DEF EndsWith
  <2>2. \A m \in DOMAIN st : n < m => ~Concerns(st[m], g, i)
    BY <1>3, <1>6, <2>1 DEF Mentions
  <2> QED
    BY <1>2, <2>1, <2>2 DEF EndsWith
<1> QED
  BY <1>4, <1>5, <1>6 DEF st

LEMMA GroupEnds ==
    ASSUME NEW g \in Groups
    PROVE  /\ \A i \in Slots(g) : /\ EndsWith(register_group(g), g, i, "register")
                                  /\ EndsWith(unregister_group(g), g, i, "unregister")
           /\ \A f, i : (Mentions(register_group(g), f, i) \/ Mentions(unregister_group(g), f, i)) => f = g
<1> DEFINE rs == register_group(g)
           us == unregister_group(g)
<1>1. /\ DOMAIN rs = Slots(g) /\ \A i \in Slots(g) : rs[i].op = "register" /\ rs[i].group = g /\ rs[i].slot = i
      /\ DOMAIN us = Slots(g) /\ \A i \in Slots(g) : us[i].op = "unregister" /\ us[i].group = g /\ us[i].slot = i
  BY DEF register_group, unregister_group
<1>2. Slots(g) \subseteq Nat
  BY ScopesAssumption DEF Slots
<1> HIDE DEF rs, us
<1>3. ASSUME NEW i \in Slots(g)
      PROVE  EndsWith(rs, g, i, "register") /\ EndsWith(us, g, i, "unregister")
  <2>1. \A m \in Slots(g) : i < m => m # i
    BY <1>2
  <2> QED
    BY <1>1, <2>1 DEF EndsWith, Concerns
<1>4. \A f, i : (Mentions(rs, f, i) \/ Mentions(us, f, i)) => f = g
  BY <1>1 DEF Mentions, Concerns
<1> QED
  BY <1>3, <1>4 DEF rs, us

\* The close hooks of the windows in ws give back those windows' keys and nobody else's.
LEMMA CloseHooksEnd ==
    ASSUME NEW ws
    PROVE  /\ \A g, i : Mentions(CloseHooks(ws), g, i) => g \in ws \cap Windows
           /\ \A w \in Windows \cap ws : Followed(w) =>
                \A i \in Slots(w) : EndsWith(CloseHooks(ws), w, i, "unregister")
<1> DEFINE Closing(w) == IF w \in ws THEN CloseTurns(w) ELSE << >>
           first == Closing("office")
           second == Closing("dialog")
           third == Closing("page")
<1>1. IsTasks(first) /\ IsTasks(second) /\ IsTasks(third)
  BY WindowTasks, EmptyTasks DEF Windows
<1>2. CloseHooks(ws) = (first \o second) \o third
  BY DEF CloseHooks
<1>3. ASSUME NEW w \in Windows
      PROVE  /\ \A g, i : Mentions(Closing(w), g, i) => g = w /\ w \in ws
             /\ w \in ws /\ Followed(w) => \A i \in Slots(w) : EndsWith(Closing(w), w, i, "unregister")
  <2>1. w \in Groups /\ \A g, i : ~Mentions(<< >>, g, i)
    BY DEF Windows, Groups, Mentions
  <2>2. Followed(w) => CloseTurns(w) = unregister_group(w)
    BY DEF Followed, CloseTurns
  <2>3. CloseTurns(w) \in {unregister_group(w), << >>}
    BY DEF CloseTurns
  <2> QED
    BY <2>1, <2>2, <2>3, GroupEnds
<1>4. /\ \A g, i : Mentions(first, g, i) => g = "office" /\ "office" \in ws
      /\ \A g, i : Mentions(second, g, i) => g = "dialog" /\ "dialog" \in ws
      /\ \A g, i : Mentions(third, g, i) => g = "page" /\ "page" \in ws
      /\ "office" \in ws /\ Followed("office") => \A i \in Slots("office") : EndsWith(first, "office", i, "unregister")
      /\ "dialog" \in ws /\ Followed("dialog") => \A i \in Slots("dialog") : EndsWith(second, "dialog", i, "unregister")
      /\ "page" \in ws /\ Followed("page") => \A i \in Slots("page") : EndsWith(third, "page", i, "unregister")
  BY <1>3 DEF Windows
<1> HIDE DEF first, second, third
<1>5. IsTasks(first \o second)
  BY <1>1, JoinedTasks
<1>6. \A g, i : Mentions(CloseHooks(ws), g, i) => g \in ws \cap Windows
  <2> SUFFICES ASSUME NEW g, NEW i, Mentions(CloseHooks(ws), g, i)
               PROVE  g \in ws \cap Windows
    OBVIOUS
  <2>1. Mentions(first \o second, g, i) \/ Mentions(third, g, i)
    BY <1>1, <1>2, <1>5, JoinedEnds
  <2>2. Mentions(first, g, i) \/ Mentions(second, g, i) \/ Mentions(third, g, i)
    BY <1>1, <2>1, JoinedEnds
  <2> QED
    BY <1>4, <2>2 DEF Windows
<1>7. ASSUME NEW w \in Windows \cap ws, Followed(w), NEW i \in Slots(w)
      PROVE  EndsWith(CloseHooks(ws), w, i, "unregister")
  <2>1. CASE w = "office"
    <3>1. EndsWith(first, w, i, "unregister") /\ ~Mentions(second, w, i) /\ ~Mentions(third, w, i)
      BY <1>4, <1>7, <2>1
    <3>2. EndsWith(first \o second, w, i, "unregister")
      BY <1>1, <3>1, JoinedEnds
    <3> QED
      BY <1>1, <1>2, <1>5, <3>1, <3>2, JoinedEnds
  <2>2. CASE w = "dialog"
    <3>1. EndsWith(second, w, i, "unregister") /\ ~Mentions(third, w, i)
      BY <1>4, <1>7, <2>2
    <3>2. EndsWith(first \o second, w, i, "unregister")
      BY <1>1, <3>1, JoinedEnds
    <3> QED
      BY <1>1, <1>2, <1>5, <3>1, <3>2, JoinedEnds
  <2>3. CASE w = "page"
    <3>1. EndsWith(third, w, i, "unregister")
      BY <1>4, <1>7, <2>3
    <3> QED
      BY <1>1, <1>2, <1>5, <3>1, JoinedEnds
  <2> QED
    BY <2>1, <2>2, <2>3 DEF Windows
<1> QED
  BY <1>6, <1>7

-----------------------------------------------------------------------------
(* The keys of a window follow it.                                         *)

\* What is settled about a slot stays settled over a turn: the last turn that concerns
\* it leaves it registered, or given back, because the table has room.
LEMMA TurnSettles ==
    ASSUME EveryKeyFits, ScopesInv, Turn, NEW w \in Groups, NEW i \in Slots(w)
    PROVE  /\ EndsWith(tasks, w, i, "register") =>
                EndsWith(tasks', w, i, "register") \/ (~Mentions(tasks', w, i) /\ handles'[w][i] # 0)
           /\ EndsWith(tasks, w, i, "unregister") =>
                EndsWith(tasks', w, i, "unregister") \/ (~Mentions(tasks', w, i) /\ handles'[w][i] = 0)
           /\ ~Mentions(tasks, w, i) => ~Mentions(tasks', w, i) /\ handles'[w][i] = handles[w][i]
<1>1. PICK t \in Task :
        /\ tasks # << >> /\ t = tasks[1] /\ t.slot \in Slots(t.group) /\ t.group \in Groups
        /\ IsTasks(tasks') /\ Len(tasks') = Len(tasks) - 1
        /\ \A n \in DOMAIN tasks' : n + 1 \in DOMAIN tasks /\ tasks'[n] = tasks[n + 1]
        /\ \A n \in DOMAIN tasks : n # 1 => n - 1 \in DOMAIN tasks' /\ tasks'[n - 1] = tasks[n]
        /\ t.op = "register" => RegisterTurn(t.group, t.slot)
        /\ t.op = "unregister" => UnregisterTurn(t.group, t.slot)
        /\ UNCHANGED <<hook, win, hooked, reply, effects>>
  BY TurnFacts
<1>2. IInv /\ ScopeTypes /\ t.op \in {"register", "unregister"}
  BY DEF Task, ScopesInv
<1>3. /\ SlotStep(t.group, t.slot)
      /\ t.op = "register" => handles'[t.group][t.slot] # 0
      /\ t.op = "unregister" => handles'[t.group][t.slot] = 0
  <2>1. CASE t.op = "register"
    BY <1>1, <1>2, <2>1, RegisterTurnFacts, RoomForAll
  <2>2. CASE t.op = "unregister"
    BY <1>1, <1>2, <2>2, UnregisterTurnFacts
  <2> QED
    BY <1>2, <2>1, <2>2
<1>4. 1 \in DOMAIN tasks /\ DOMAIN tasks \subseteq Nat \ {0} /\ DOMAIN tasks' \subseteq Nat \ {0}
  BY <1>1, <1>2 DEF ScopeTypes, IsTasks
<1>5. Mentions(tasks', w, i) => \E n \in DOMAIN tasks : n # 1 /\ Concerns(tasks[n], w, i)
  BY <1>1, <1>4 DEF Mentions
<1>6. ASSUME NEW op, EndsWith(tasks, w, i, op)
      PROVE  \/ EndsWith(tasks', w, i, op)
             \/ ~Mentions(tasks', w, i) /\ Concerns(t, w, i) /\ t.op = op
  <2>1. PICK n \in DOMAIN tasks : /\ Concerns(tasks[n], w, i) /\ tasks[n].op = op
                                 /\ \A m \in DOMAIN tasks : n < m => ~Concerns(tasks[m], w, i)
    BY <1>6 DEF EndsWith
  <2>2. CASE n = 1
    BY <1>1, <1>4, <1>5, <2>1, <2>2
  <2>3. CASE n # 1
    <3>1. n - 1 \in DOMAIN tasks' /\ tasks'[n - 1] = tasks[n]
      BY <1>1, <2>3
    <3>2. \A m \in DOMAIN tasks' : n - 1 < m => ~Concerns(tasks'[m], w, i)
      BY <1>1, <1>4, <2>1
    <3> QED
      BY <2>1, <3>1, <3>2 DEF EndsWith
  <2> QED
    BY <2>2, <2>3
<1>7. ~Mentions(tasks, w, i) => ~Mentions(tasks', w, i) /\ handles'[w][i] = handles[w][i]
  BY <1>1, <1>3, <1>4, <1>5 DEF SlotStep, Mentions, Concerns
<1>8. /\ EndsWith(tasks, w, i, "register") =>
           EndsWith(tasks', w, i, "register") \/ (~Mentions(tasks', w, i) /\ handles'[w][i] # 0)
      /\ EndsWith(tasks, w, i, "unregister") =>
           EndsWith(tasks', w, i, "unregister") \/ (~Mentions(tasks', w, i) /\ handles'[w][i] = 0)
  BY <1>3, <1>6 DEF Concerns
<1> QED
  BY <1>7, <1>8

\* The loops a callback or a handler starts: those of the windows it closes, then those
\* of a window it opens.
LEMMA OpenSettles ==
    ASSUME WillFollow, tasks = << >>, UNCHANGED <<handles, hooked>>,
           NEW w \in Windows, NEW closing, NEW opener,
           Followed(w) => Installed(opener),
           win' = (win \ closing) \cup {w},
           tasks' = CloseHooks(closing) \o OpenTurns(w, opener)
    PROVE  WillFollow'
<1> SUFFICES ASSUME NEW v \in Windows, Followed(v), NEW i \in Slots(v)
             PROVE  /\ v \in win' => EndsWith(tasks', v, i, "register") \/ (~Mentions(tasks', v, i) /\ Held(v, i))
                    /\ v \notin win' => EndsWith(tasks', v, i, "unregister") \/ (~Mentions(tasks', v, i) /\ ~Held(v, i))
  BY DEF WillFollow, Followed, Installed, Held
<1>1. v \in win <=> Held(v, i)
  BY DEF WillFollow, EndsWith, Mentions
<1>2. IsTasks(CloseHooks(closing)) /\ IsTasks(OpenTurns(w, opener)) /\ w \in Groups
  BY WindowTasks DEF Windows, Groups
<1>3. OpenTurns(w, opener) \in {register_group(w), << >>} /\ (Followed(w) => OpenTurns(w, opener) = register_group(w))
  BY DEF OpenTurns
<1>4. CASE v = w
  <2>1. EndsWith(OpenTurns(w, opener), v, i, "register")
    BY <1>2, <1>3, <1>4, GroupEnds
  <2> QED
    BY <1>2, <1>4, <2>1, JoinedEnds
<1>5. CASE v # w
  <2>1. ~Mentions(OpenTurns(w, opener), v, i)
    <3>1. ~Mentions(<< >>, v, i)
      BY DEF Mentions
    <3>2. ~Mentions(register_group(w), v, i)
      BY <1>2, <1>5, GroupEnds
    <3> QED
      BY <1>3, <3>1, <3>2
  <2>2. CASE v \in closing
    <3>1. EndsWith(CloseHooks(closing), v, i, "unregister")
      BY <2>2, CloseHooksEnd
    <3>2. EndsWith(tasks', v, i, "unregister")
      BY <1>2, <2>1, <3>1, JoinedEnds
    <3> QED
      BY <1>5, <2>2, <3>2
  <2>3. CASE v \notin closing
    <3>1. ~Mentions(CloseHooks(closing), v, i)
      BY <2>3, CloseHooksEnd
    <3>2. ~Mentions(tasks', v, i)
      BY <1>2, <2>1, <3>1, JoinedEnds
    <3> QED
      BY <1>1, <1>5, <2>3, <3>2
  <2> QED
    BY <2>2, <2>3
<1> QED
  BY <1>4, <1>5

LEMMA CloseSettles ==
    ASSUME WillFollow, tasks = << >>, UNCHANGED <<handles, hooked>>, NEW closing,
           win' = win \ closing,
           \A v, i : Mentions(tasks', v, i) => v \in closing,
           \A v \in Windows \cap closing : Followed(v) =>
               \A i \in Slots(v) : EndsWith(tasks', v, i, "unregister")
    PROVE  WillFollow'
<1> SUFFICES ASSUME NEW v \in Windows, Followed(v), NEW i \in Slots(v)
             PROVE  /\ v \in win' => EndsWith(tasks', v, i, "register") \/ (~Mentions(tasks', v, i) /\ Held(v, i))
                    /\ v \notin win' => EndsWith(tasks', v, i, "unregister") \/ (~Mentions(tasks', v, i) /\ ~Held(v, i))
  BY DEF WillFollow, Followed, Installed, Held
<1>1. v \in win <=> Held(v, i)
  BY DEF WillFollow, EndsWith, Mentions
<1>2. CASE v \in closing
  BY <1>2
<1>3. CASE v \notin closing
  BY <1>1, <1>3
<1> QED
  BY <1>2, <1>3

\* The handlers: the dialog's populates the dialog again, the town keys' closes windows.
LEMMA HandlerSettles ==
    ASSUME ScopesInv, WillFollow, Handler
    PROVE  WillFollow'
<1>1. CallNext /\ UNCHANGED <<handles, hooked>>
  BY HandlerFacts
<1>2. tasks = << >>
  BY <1>1 DEF CallNext, ScopesInv, LoopsSwallow
<1>3. ASSUME UNCHANGED <<win, tasks>>
      PROVE  WillFollow'
  BY <1>1, <1>3 DEF WillFollow, Followed, Installed, Held
<1>4. CASE global_hotkeys \/ office_hotkeys \/ page_hotkeys
  BY <1>3, <1>4 DEF global_hotkeys, office_hotkeys, page_hotkeys
<1>5. ASSUME NEW refresh \in BOOLEAN, dialog_hotkeys(refresh)
      PROVE  WillFollow'
  <2>1. CASE refresh
    <3>1. "dialog" \in win /\ tasks' = CloseTurns("dialog") \o register_group("dialog") /\ win' = win
      BY <1>5, <2>1 DEF dialog_hotkeys
    <3>2. CloseHooks({"dialog"}) = CloseTurns("dialog")
      <4>1. IsTasks(CloseTurns("dialog"))
        BY WindowTasks DEF Windows
      <4> QED
        BY <4>1 DEF CloseHooks, IsTasks
    <3>3. OpenTurns("dialog", "none") = register_group("dialog")
      BY DEF OpenTurns, Installed
    <3>4. win' = (win \ {"dialog"}) \cup {"dialog"} /\ Installed("none") /\ "dialog" \in Windows
      BY <3>1 DEF Installed, Windows
    <3> QED
      BY <1>1, <1>2, <3>1, <3>2, <3>3, <3>4, OpenSettles
  <2>2. CASE ~refresh
    BY <1>2, <1>3, <1>5, <2>2 DEF dialog_hotkeys
  <2> QED
    BY <2>1, <2>2
<1>6. ASSUME NEW act \in BOOLEAN, NEW closing \in SUBSET win, town_hotkey(act, closing)
      PROVE  WillFollow'
  <2>1. win' = win \ closing /\ tasks' = CloseHooks(closing)
    BY <1>6 DEF town_hotkey
  <2>2. \A v, i : Mentions(tasks', v, i) => v \in closing
    BY <2>1, CloseHooksEnd
  <2>3. \A v \in Windows \cap closing : Followed(v) => \A i \in Slots(v) : EndsWith(tasks', v, i, "unregister")
    BY <2>1, CloseHooksEnd
  <2> QED
    BY <1>1, <1>2, <2>1, <2>2, <2>3, CloseSettles
<1> QED
  BY <1>4, <1>5, <1>6 DEF Handler

LEMMA CallbackSettles ==
    ASSUME ScopesInv, WillFollow, Callback
    PROVE  WillFollow'
<1>1. tasks = << >> /\ UNCHANGED <<handles, hooked>>
  BY CallbackFacts DEF Idle
<1>2. ASSUME NEW w \in Windows, NEW opener, NEW closing, OpenWindow(w, opener, closing),
             Followed(w) => Installed(opener)
      PROVE  WillFollow'
  BY <1>1, <1>2, OpenSettles DEF OpenWindow
<1>3. ASSUME NEW w \in Windows, CloseWindow(w)
      PROVE  WillFollow'
  <2>1. win' = win \ {w} /\ tasks' = CloseTurns(w) /\ w \in Groups
    BY <1>3 DEF CloseWindow, Windows, Groups
  <2>2. CloseTurns(w) \in {unregister_group(w), << >>} /\ (Followed(w) => CloseTurns(w) = unregister_group(w))
    BY DEF CloseTurns, Followed
  <2>3. \A v, i : ~Mentions(<< >>, v, i)
    BY DEF Mentions
  <2>4. \A v, i : Mentions(tasks', v, i) => v \in {w}
    BY <2>1, <2>2, <2>3, GroupEnds
  <2>5. \A v \in Windows \cap {w} : Followed(v) => \A i \in Slots(v) : EndsWith(tasks', v, i, "unregister")
    BY <2>1, <2>2, GroupEnds
  <2> QED
    BY <1>1, <2>1, <2>4, <2>5, CloseSettles
<1>4. ASSUME NEW closing \in SUBSET win, office_window_open(closing) \/ page_shown(closing)
      PROVE  WillFollow'
  <2>1. Followed("office") => Installed("office open")
    BY DEF Followed, OpenHooks
  <2>2. Installed("none")
    BY DEF Installed
  <2> QED
    BY <1>2, <1>4, <2>1, <2>2 DEF office_window_open, page_shown, Windows
<1>5. ASSUME NEW closing \in SUBSET win, NEW site \in OpenHooks("dialog"), dialog_populate(site, closing)
      PROVE  WillFollow'
  <2>1. Followed("dialog") => Installed(site)
    BY DEF Followed
  <2> QED
    BY <1>2, <1>5, <2>1 DEF dialog_populate, Windows
<1> QED
  BY <1>3, <1>4, <1>5 DEF Callback

\* What a queue started by a callback or a handler is about: windows.
LEMMA OnlyWindows ==
    ASSUME ScopesInv, Callback \/ Handler
    PROVE  tasks = << >> /\ \A n \in DOMAIN tasks' : tasks'[n].group \in Windows
<1>1. \A w \in Windows : w \in Groups /\ \A v, i :
        /\ Mentions(register_group(w), v, i) => v \in Windows
        /\ Mentions(unregister_group(w), v, i) => v \in Windows
  BY GroupEnds DEF Windows, Groups
<1>2. \A v, i : ~Mentions(<< >>, v, i)
  BY DEF Mentions
<1>3. \A w \in Windows : \A opener : \A v, i : Mentions(OpenTurns(w, opener), v, i) => v \in Windows
  BY <1>1, <1>2 DEF OpenTurns
<1>4. \A w \in Windows : \A v, i : Mentions(CloseTurns(w), v, i) => v \in Windows
  BY <1>1, <1>2 DEF CloseTurns
<1>5. ASSUME NEW w \in Windows, NEW opener, NEW closing, tasks' = CloseHooks(closing) \o OpenTurns(w, opener)
      PROVE  \A v, i : Mentions(tasks', v, i) => v \in Windows
  <2>1. IsTasks(CloseHooks(closing)) /\ IsTasks(OpenTurns(w, opener))
    BY WindowTasks
  <2> QED
    <3> SUFFICES ASSUME NEW v, NEW i, Mentions(tasks', v, i)
                 PROVE  v \in Windows
      OBVIOUS
    <3>1. Mentions(CloseHooks(closing), v, i) \/ Mentions(OpenTurns(w, opener), v, i)
      BY <1>5, <2>1, JoinedEnds
    <3> QED
      BY <1>3, <3>1, CloseHooksEnd
<1>6. CASE Callback
  <2>1. tasks = << >>
    BY <1>6, CallbackFacts DEF Idle
  <2>2. \A v, i : Mentions(tasks', v, i) => v \in Windows
    BY <1>4, <1>5, <1>6 DEF Callback, office_window_open, page_shown, dialog_populate, OpenWindow,
                           CloseWindow, Windows
  <2> QED
    BY <2>1, <2>2 DEF Mentions, Concerns
<1>7. CASE Handler
  <2>1. tasks = << >>
    BY <1>7, HandlerFacts DEF CallNext, ScopesInv, LoopsSwallow
  <2>2. ASSUME NEW refresh \in BOOLEAN, dialog_hotkeys(refresh)
        PROVE  \A v, i : Mentions(tasks', v, i) => v \in Windows
    <3>1. IsTasks(CloseTurns("dialog")) /\ IsTasks(register_group("dialog")) /\ "dialog" \in Windows
      BY WindowTasks, GroupTasks DEF Windows, Groups
    <3>2. tasks' \in {CloseTurns("dialog") \o register_group("dialog"), << >>}
      BY <2>2 DEF dialog_hotkeys
    <3> SUFFICES ASSUME NEW v, NEW i, Mentions(tasks', v, i)
                 PROVE  v \in Windows
      OBVIOUS
    <3>3. Mentions(CloseTurns("dialog") \o register_group("dialog"), v, i)
      BY <1>2, <3>2
    <3>4. Mentions(CloseTurns("dialog"), v, i) \/ Mentions(register_group("dialog"), v, i)
      BY <3>1, <3>3, JoinedEnds
    <3> QED
      BY <1>1, <1>4, <3>1, <3>4
  <2>3. ASSUME NEW act \in BOOLEAN, NEW closing \in SUBSET win, town_hotkey(act, closing)
        PROVE  \A v, i : Mentions(tasks', v, i) => v \in Windows
    BY <2>3, CloseHooksEnd DEF town_hotkey
  <2>4. global_hotkeys \/ office_hotkeys \/ page_hotkeys => tasks' = << >>
    BY <2>1 DEF global_hotkeys, office_hotkeys, page_hotkeys
  <2>5. \A v, i : Mentions(tasks', v, i) => v \in Windows
    BY <1>2, <1>7, <2>2, <2>3, <2>4 DEF Handler
  <2> QED
    BY <2>1, <2>5 DEF Mentions, Concerns
<1> QED
  BY <1>6, <1>7

LEMMA WillFollowStep ==
    ASSUME EveryKeyFits, ScopesInv, WillFollow, [ScopesNext]_vars
    PROVE  WillFollow'
<1>1. CASE Turn
  <2>1. UNCHANGED <<win, hooked>>
    BY <1>1 DEF Turn
  <2> SUFFICES ASSUME NEW v \in Windows, Followed(v), NEW i \in Slots(v)
               PROVE  /\ v \in win => \/ EndsWith(tasks', v, i, "register")
                                      \/ ~Mentions(tasks', v, i) /\ handles'[v][i] # 0
                      /\ v \notin win => \/ EndsWith(tasks', v, i, "unregister")
                                         \/ ~Mentions(tasks', v, i) /\ handles'[v][i] = 0
    BY <2>1 DEF WillFollow, Followed, Installed, Held
  <2>2. v \in Groups
    BY DEF Windows, Groups
  <2> QED
    BY <1>1, <2>2, TurnSettles DEF WillFollow, Held
<1>2. CASE UNCHANGED <<win, hooked, tasks, handles>>
  BY <1>2 DEF WillFollow, Followed, Installed, Held
<1>3. CASE (\E k \in Keys : Press(k)) \/ HandlerReturns \/ KeyPassedOn \/ UNCHANGED vars
  BY <1>2, <1>3 DEF Press, HandlerReturns, KeyPassedOn, vars, scopeVars
<1> QED
  BY <1>1, <1>3, CallbackSettles, HandlerSettles DEF ScopesNext, HookStep

LEMMA RouteKeysFirstStep ==
    ASSUME ScopesInv, RouteKeysFirst, [ScopesNext]_vars
    PROVE  RouteKeysFirst'
<1>0. "global" \notin Windows
  BY DEF Windows
<1>1. CASE Turn
  <2>1. PICK t \in Task :
          /\ tasks # << >> /\ t = tasks[1] /\ t.slot \in Slots(t.group) /\ t.group \in Groups
          /\ \A n \in DOMAIN tasks' : n + 1 \in DOMAIN tasks /\ tasks'[n] = tasks[n + 1]
          /\ t.op = "register" => RegisterTurn(t.group, t.slot)
          /\ t.op = "unregister" => UnregisterTurn(t.group, t.slot)
          /\ UNCHANGED hook
    BY <1>1, TurnFacts
  <2>2. SlotStep(t.group, t.slot)
    <3>1. IInv /\ ScopeTypes /\ t.op \in {"register", "unregister"}
      BY DEF Task, ScopesInv
    <3> QED
      BY <2>1, <3>1, RegisterTurnFacts, UnregisterTurnFacts
  <2>3. \A j \in DOMAIN entries' :
          \/ entries'[j].handle = next_handle /\ entries'[j].owner = t.group
          \/ \E n \in DOMAIN entries : entries'[j] = entries[n]
    BY <2>2 DEF SlotStep, New
  <2>4. 1 \in DOMAIN tasks
    BY <2>1 DEF ScopesInv, ScopeTypes
  <2>5. ASSUME NEW m \in DOMAIN tasks', tasks'[m].group = "global"
        PROVE  /\ \A n \in DOMAIN tasks' : tasks'[n].group \notin Windows
               /\ \A n \in DOMAIN entries' : entries'[n].owner \notin Windows
    <3>1. \E n \in DOMAIN tasks : tasks[n].group = "global"
      BY <2>1, <2>5
    <3> QED
      BY <2>1, <2>3, <2>4, <3>1 DEF RouteKeysFirst
  <2>6. ASSUME NEW m \in DOMAIN entries', NEW n \in DOMAIN entries',
               entries'[m].owner = "global", entries'[n].owner \in Windows
        PROVE  entries'[m].handle < entries'[n].handle
    <3>1. CASE \E k \in DOMAIN entries : entries'[n] = entries[k]
      <4>1. PICK k \in DOMAIN entries : entries'[n] = entries[k]
        BY <3>1
      <4>2. t.group # "global"
        BY <2>1, <2>4, <2>6, <4>1 DEF RouteKeysFirst
      <4>3. \E l \in DOMAIN entries : entries'[m] = entries[l]
        BY <2>3, <2>6, <4>2
      <4> QED
        BY <2>6, <4>1, <4>3 DEF RouteKeysFirst
    <3>2. CASE entries'[n].handle = next_handle /\ entries'[n].owner = t.group
      <4>1. \E l \in DOMAIN entries : entries'[m] = entries[l]
        BY <1>0, <2>3, <2>6, <3>2
      <4> QED
        BY <3>2, <4>1, Types DEF ScopesInv
    <3> QED
      BY <2>3, <3>1, <3>2
  <2> QED
    BY <2>5, <2>6 DEF RouteKeysFirst
<1>2. CASE Callback \/ Handler
  <2>1. \A n \in DOMAIN tasks' : tasks'[n].group \in Windows
    BY <1>2, OnlyWindows
  <2>2. entries' = entries
    BY <1>2, CallbackFacts, HandlerFacts DEF registryVars, CallNext, table
  <2> QED
    BY <1>0, <2>1, <2>2 DEF RouteKeysFirst
<1>3. CASE (\E k \in Keys : Press(k)) \/ HandlerReturns \/ KeyPassedOn \/ UNCHANGED vars
  <2>1. UNCHANGED <<tasks, entries>>
    BY <1>3 DEF Press, KeyDown, HandlerReturns, KeyPassedOn, Decline, Swallow, PassOn, table, vars,
                registryVars, scopeVars
  <2> QED
    BY <2>1 DEF RouteKeysFirst
<1> QED
  BY <1>1, <1>2, <1>3 DEF ScopesNext, HookStep

\* A window's registration that nobody called so far was registered after is still ahead
\* of the walk, unless it is the one called now.
LEMMA StillAhead ==
    ASSUME ScopesInv, WindowNotYetPassed, CallNext, NEW w \in win \cap {"office", "dialog"}, Followed(w),
           NEW i \in Slots(w), GroupKeys[w][i] = pressed, Head(matches).owner # w
    PROVE  /\ Held(w, i) /\ handles[w][i] < mark /\ \A h \in called : handles[w][i] < h
           /\ handles[w][i] < Head(matches).handle
           /\ \E n \in DOMAIN entries : entries[n].handle = handles[w][i] /\ entries[n].owner = w
<1>1. phase = "walk" /\ matches # << >>
  BY DEF CallNext
<1>2. Held(w, i) /\ handles[w][i] < mark /\ \A h \in called : handles[w][i] < h
  BY <1>1 DEF WindowNotYetPassed
<1>3. w \in Groups /\ IInv
  BY DEF Groups, ScopesInv
<1>4. PICK n \in DOMAIN entries : entries[n].handle = handles[w][i]
  BY <1>2, <1>3 DEF ScopesInv, NoOrphans, Registered
<1>5. entries[n].owner = w /\ entries[n].key = pressed
  <2>1. PICK j \in Slots(entries[n].owner) : /\ handles[entries[n].owner][j] = entries[n].handle
                                            /\ GroupKeys[entries[n].owner][j] = entries[n].key
    BY DEF ScopesInv, NoOrphans
  <2>2. entries[n].owner \in Groups
    BY <1>3, Types, ScopesAssumption DEF Entry
  <2>3. w = entries[n].owner /\ i = j
    BY <1>2, <1>3, <1>4, <2>1, <2>2 DEF ScopesInv, HandlesDiffer
  <2> QED
    BY <2>1, <2>3
<1>6. matches[1] = Head(matches) /\ 1 \in DOMAIN matches /\ DOMAIN matches \subseteq Nat \ {0}
  BY <1>1, <1>3, TailFacts DEF IInv, TypeOK
<1>7. handles[w][i] \in Nat /\ matches[1].handle \in Nat /\ floor \in Nat
  BY <1>3, <1>4, <1>6, Types DEF IInv, TypeOK
<1>8. handles[w][i] < matches[1].handle
  <2>1. CASE floor <= handles[w][i]
    <3>1. StillToOffer(entries[n])
      BY <1>2, <1>4, <1>5, <2>1 DEF StillToOffer
    <3>2. PICK m \in DOMAIN matches : matches[m] = entries[n]
      BY <1>1, <1>3, <3>1 DEF IInv, WalkComplete
    <3>3. m # 1
      BY <1>5, <1>6, <3>2
    <3> QED
      BY <1>3, <1>4, <1>6, <1>7, <3>2, <3>3 DEF IInv, WalkInOrder
  <2>2. CASE handles[w][i] < floor
    BY <1>3, <1>6, <1>7, <2>2 DEF IInv, WalkInOrder, StillToOffer
  <2> QED
    BY <1>7, <2>1, <2>2
<1> QED
  BY <1>2, <1>4, <1>5, <1>6, <1>8

LEMMA WindowNotYetPassedStep ==
    ASSUME ScopesInv, WillFollow, WindowNotYetPassed, [ScopesNext]_vars
    PROVE  WindowNotYetPassed'
<1>1. ASSUME NEW k \in Keys, Press(k)
      PROVE  WindowNotYetPassed'
  <2>1. /\ tasks = << >> /\ UNCHANGED <<handles, win, hooked>>
        /\ mark' = next_handle /\ called' = {}
    BY <1>1 DEF Press, Idle, KeyDown
  <2> SUFFICES ASSUME NEW w \in win \cap {"office", "dialog"}, Followed(w), NEW i \in Slots(w)
               PROVE  handles[w][i] # 0 /\ handles[w][i] < next_handle
    BY <2>1 DEF WindowNotYetPassed, Followed, Installed, Held
  <2>2. w \in Windows /\ w \in Groups
    BY DEF Windows, Groups
  <2>3. Held(w, i)
    BY <2>1, <2>2 DEF WillFollow, EndsWith, Mentions
  <2>4. PICK n \in DOMAIN entries : entries[n].handle = handles[w][i]
    BY <2>2, <2>3 DEF ScopesInv, NoOrphans, Registered
  <2> QED
    BY <2>3, <2>4, Types DEF ScopesInv, Held
<1>2. CASE Handler
  <2>1. /\ CallNext /\ phase = "walk" /\ win' \subseteq win /\ UNCHANGED <<handles, hooked, mark, pressed>>
        /\ called' = called \cup {Head(matches).handle}
    BY <1>2, HandlerFacts DEF CallNext, press
  <2>2. CASE office_hotkeys \/ \E refresh \in BOOLEAN : dialog_hotkeys(refresh)
    <3>1. reply' = "swallow" /\ phase' = "handler"
      BY <2>2 DEF office_hotkeys, dialog_hotkeys, Calls, CallNext
    <3> QED
      BY <3>1 DEF WindowNotYetPassed
  <2>3. CASE Head(matches).owner \in {"global", "page", "tweaks"}
    <3> SUFFICES ASSUME NEW w \in win \cap {"office", "dialog"}, Followed(w),
                        NEW i \in Slots(w), GroupKeys[w][i] = pressed
                 PROVE  Held(w, i) /\ handles[w][i] < mark /\ \A h \in called' : handles[w][i] < h
      BY <2>1 DEF WindowNotYetPassed, Followed, Installed, Held
    <3>1. Head(matches).owner # w
      BY <2>3
    <3> QED
      BY <2>1, <3>1, StillAhead
  <2> QED
    BY <1>2, <2>2, <2>3 DEF Handler, global_hotkeys, page_hotkeys, town_hotkey, Calls
<1>3. CASE HandlerReturns
  <2>1. CASE reply = "swallow"
    BY <1>3, <2>1 DEF HandlerReturns, Swallow, WindowNotYetPassed
  <2>2. CASE reply # "swallow"
    <3>1. Decline /\ UNCHANGED <<handles, win, hooked, reply>>
      BY <1>3, <2>2 DEF HandlerReturns, scopeVars
    <3> QED
      BY <2>2, <3>1 DEF WindowNotYetPassed, Decline, press, Followed, Installed, Held
  <2> QED
    BY <2>1, <2>2
<1>4. CASE Turn
  <2>1. UNCHANGED <<phase, reply>> /\ tasks # << >>
    BY <1>4 DEF Turn, hook
  <2>2. phase # "idle" => phase = "handler" /\ reply = "swallow"
    <3>1. phase \in {"idle", "walk", "handler"}
      BY DEF ScopesInv, IInv, TypeOK
    <3> QED
      BY <2>1, <3>1 DEF ScopesInv, LoopsSwallow
  <2> QED
    BY <2>1, <2>2 DEF WindowNotYetPassed
<1>5. CASE Callback
  <2>1. phase' = "idle"
    BY <1>5, CallbackFacts DEF Idle, registryVars
  <2> QED
    BY <2>1 DEF WindowNotYetPassed
<1>6. CASE KeyPassedOn
  BY <1>6 DEF KeyPassedOn, PassOn, WindowNotYetPassed
<1>7. CASE UNCHANGED vars
  BY <1>7 DEF vars, registryVars, scopeVars, WindowNotYetPassed, Followed, Installed, Held
<1> QED
  BY <1>1, <1>2, <1>3, <1>4, <1>5, <1>6, <1>7 DEF ScopesNext, HookStep

LEMMA FollowInitInv == Init => FollowInv
<1> SUFFICES ASSUME Init PROVE FollowInv
  OBVIOUS
<1>1. /\ entries = << >> /\ win = {} /\ phase = "idle"
      /\ \A g \in Groups : \A i \in Slots(g) : ~Held(g, i)
  BY DEF Init, RegistryInit, Held
<1>2. tasks = register_group("global") \o register_group("tweaks") /\ "global" \in Groups /\ "tweaks" \in Groups
  BY DEF Init, Groups
<1>3. \A v, i : Mentions(tasks, v, i) => v \in {"global", "tweaks"}
  <2> SUFFICES ASSUME NEW v, NEW i, Mentions(tasks, v, i)
               PROVE  v \in {"global", "tweaks"}
    OBVIOUS
  <2>1. IsTasks(register_group("global")) /\ IsTasks(register_group("tweaks"))
    BY <1>2, GroupTasks
  <2>2. Mentions(register_group("global"), v, i) \/ Mentions(register_group("tweaks"), v, i)
    BY <1>2, <2>1, JoinedEnds
  <2> QED
    BY <1>2, <2>2, GroupEnds
<1>4. WillFollow
  BY <1>1, <1>3 DEF WillFollow, Windows, Groups
<1>5. RouteKeysFirst
  <2>1. \A n \in DOMAIN tasks : tasks[n].group \in {"global", "tweaks"}
    BY <1>3 DEF Mentions, Concerns
  <2> QED
    BY <1>1, <2>1 DEF RouteKeysFirst, Windows
<1>6. WindowNotYetPassed
  BY <1>1 DEF WindowNotYetPassed
<1> QED
  BY <1>4, <1>5, <1>6, ScopesInitInv DEF FollowInv

LEMMA FollowInvariance == ASSUME EveryKeyFits PROVE ScopesSpec => []FollowInv
<1>1. FollowInv /\ [ScopesNext]_vars => FollowInv'
  BY ScopesStepInv, WillFollowStep, RouteKeysFirstStep, WindowNotYetPassedStep DEF FollowInv
<1> QED
  BY <1>1, FollowInitInv, PTL DEF ScopesSpec

-----------------------------------------------------------------------------
\* On a table with room for every key, whatever windows open and close in one go, open
\* twice, or are closed by a key's handler: between two loops the keys of a window whose
\* hooks are there are registered exactly while it is on screen (ffi.rs of trading-qol).
THEOREM KeysFollowWindows == EveryKeyFits => (ScopesSpec => []ScopesFollowWindows)
<1> SUFFICES ASSUME EveryKeyFits
             PROVE  ScopesSpec => []ScopesFollowWindows
  OBVIOUS
<1>1. FollowInv => ScopesFollowWindows
  BY DEF FollowInv, WillFollow, ScopesFollowWindows, EndsWith, Mentions
<1> QED
  BY <1>1, FollowInvariance, PTL

\* And however many registrations of one key there are, and whatever the handlers called
\* before did to the windows: a key that an open office or dialog claims is never acted
\* on by the route keys' handler.
THEOREM RouteKeysYield == EveryKeyFits => (ScopesSpec => WindowsShadowRouteKeys)
<1> SUFFICES ASSUME EveryKeyFits
             PROVE  ScopesSpec => WindowsShadowRouteKeys
  OBVIOUS
<1>1. ASSUME FollowInv, ScopesNext, NEW w \in win \cap {"office", "dialog"}, Followed(w),
             "global" \in effects' \ effects
      PROVE  pressed \notin KeysOf(w)
  <2>1. global_hotkeys
    BY <1>1, CallbackFacts DEF FollowInv, ScopesNext, HookStep, Turn, Press, Handler, office_hotkeys,
       dialog_hotkeys, page_hotkeys, town_hotkey, HandlerReturns, KeyPassedOn, scopeVars
  <2>2. CallNext /\ Head(matches).owner = "global" /\ matches # << >> /\ Registered(Head(matches).handle)
    BY <2>1 DEF global_hotkeys, Calls, CallNext
  <2>3. ScopesInv /\ IInv /\ RouteKeysFirst /\ WindowNotYetPassed
    BY <1>1 DEF FollowInv, ScopesInv
  <2> SUFFICES ASSUME NEW i \in Slots(w), GroupKeys[w][i] = pressed
               PROVE  FALSE
    BY DEF KeysOf
  <2>4. PICK n \in DOMAIN entries : entries[n].handle = handles[w][i] /\ entries[n].owner = w
    BY <1>1, <2>2, <2>3, StillAhead
  <2>5. handles[w][i] < Head(matches).handle
    BY <1>1, <2>2, <2>3, StillAhead
  <2>6. 1 \in DOMAIN matches /\ Head(matches) = matches[1]
    BY <2>2, <2>3, TailFacts DEF IInv, TypeOK
  <2>7. PICK m \in DOMAIN entries : entries[m].handle = matches[1].handle
    BY <2>2, <2>6 DEF Registered
  <2>8. entries[m].owner = "global"
    BY <2>2, <2>3, <2>6, <2>7 DEF IInv, SnapshotMeansTheSame
  <2>9. entries[m].handle < entries[n].handle
    BY <2>3, <2>4, <2>8 DEF RouteKeysFirst, Windows
  <2> QED
    BY <2>3, <2>4, <2>5, <2>6, <2>7, <2>9, Types
<1>2. FollowInv /\ [ScopesNext]_vars =>
        [\A w \in win \cap {"office", "dialog"} :
            Followed(w) /\ "global" \in effects' \ effects => pressed \notin KeysOf(w)]_vars
  BY <1>1
<1> QED
  BY <1>2, FollowInvariance, PTL DEF ScopesSpec, WindowsShadowRouteKeys

-----------------------------------------------------------------------------
(* ListWatch: the data breakpoint of the watch.                            *)

\* The watch takes at least one hit, and the null pointer is no resource.
WatchConstants == MAX_RAW \in Nat \ {0} /\ None \notin Nodes

\* While WRITE_WATCH_ADDRESS names a node, Dr0 is set on it, WRITE_WATCH_NODE names the same node,
\* and the hits are below the limit: the three are written one after the other, on the tick, in
\* the trap and by the key, and a register may refuse to be set at each of them.
ArmedTrapStands ==
    armed # None => dr0 = armed /\ watched = armed /\ HITS < MAX_RAW

\* With the range of the counter this is inductive.
TrapInv == HITS \in 0..MAX_RAW /\ ArmedTrapStands

\* A walk counted no node: it was given another device than the live one, or the list is empty or
\* wild from its first node on.
NothingWalked ==
    lastKind' = "nothing" /\ (D3D9_DEVICE' # device \/ head \notin Nodes \/ next[head] = Wild)

\* A data breakpoint on a node goes away only when its hits are used up, when the node is released,
\* when a walk counts no node, or when the watch is off - never because the list was healed,
\* another node broke, the search for the device failed or the repair itself tripped it.
TrapGoesForAReason ==
    [][\A n \in Nodes : armed = n /\ dr0' # n =>
          \/ exhausted' = n
          \/ gone(n)' \/ NothingWalked
          \/ ~WATCH_ON']_listVars

\* The state of the trap in the middle of a walk.
IsTrap(t) ==
    t = [armed |-> t.armed, watched |-> t.watched, exhausted |-> t.exhausted,
         hits |-> t.hits, dr0 |-> t.dr0, own |-> t.own]

\* And its invariant.
Stands(t) ==
    /\ t.hits \in 0..MAX_RAW
    /\ t.armed # None => t.dr0 = t.armed /\ t.watched = t.armed /\ t.hits < MAX_RAW

\* The walk starts from a trap that stands.
LEMMA TrapStands == ASSUME TrapInv PROVE IsTrap(trap) /\ Stands(trap)
  BY DEF TrapInv, ArmedTrapStands, trap, IsTrap, Stands

\* disarm_write_watch.
LEMMA DisarmStands ==
    ASSUME WatchConstants, NEW t, IsTrap(t), Stands(t), NEW dr \in BOOLEAN,
           NEW u, u = disarm_write_watch(t, dr)
    PROVE  /\ IsTrap(u) /\ Stands(u)
           /\ u.armed = None /\ u.exhausted = t.exhausted /\ u.watched = t.watched
           /\ u.dr0 \in {t.dr0, None}
<1>1. CASE t.armed = None
  BY <1>1 DEF disarm_write_watch
<1>2. CASE t.armed # None
  <2>1. u = [armed |-> None, watched |-> t.watched, exhausted |-> t.exhausted, hits |-> t.hits,
             dr0 |-> IF dr THEN None ELSE t.dr0, own |-> t.own]
    BY <1>2, Zenon DEF disarm_write_watch, IsTrap
  <2> QED
    BY <2>1 DEF IsTrap, Stands
<1> QED
  BY <1>1, <1>2

\* What the walk found makes the watch let go of a node that is gone, or of everything.
LEMMA ReleasedStands ==
    ASSUME WatchConstants, NEW t, IsTrap(t), Stands(t), NEW v, NEW dr \in BOOLEAN,
           NEW u, u = released(t, v, dr)
    PROVE  /\ IsTrap(u) /\ Stands(u)
           /\ u.exhausted = t.exhausted /\ u.watched = t.watched
           /\ \/ u = t
              \/ kind(v) = "nothing"
              \/ gone(t.watched)
<1>1. CASE u = t
  BY <1>1
<1>2. CASE u # t
  <2>1. /\ u = disarm_write_watch(t, dr)
        /\ \/ kind(v) = "nothing"
           \/ kind(v) = "clean" /\ gone(t.watched)
           \/ v.back # None /\ gone(t.watched) /\ t.watched # v.back
    BY <1>2 DEF released
  <2> QED
    BY <2>1, DisarmStands
<1> QED
  BY <1>1, <1>2

\* repair_back_link trips the trap at most once.
LEMMA RepairStands ==
    ASSUME WatchConstants, NEW t, IsTrap(t), Stands(t), NEW n, NEW dr \in BOOLEAN,
           NEW u, u = repair_back_link(t, n, dr)
    PROVE  /\ IsTrap(u) /\ Stands(u)
           /\ \/ u.dr0 = t.dr0 /\ u.armed = t.armed /\ u.exhausted = t.exhausted
              \/ u.dr0 = None /\ u.armed = None /\ u.exhausted = t.watched /\ t.dr0 = n /\ n # None
           /\ u.watched = t.watched
<1> DEFINE off == t.armed = None \/ t.hits + 1 >= MAX_RAW
<1>1. CASE n = None \/ ~trapsItself(t, n, dr)
  BY <1>1 DEF repair_back_link
<1>2. CASE ~(n = None \/ ~trapsItself(t, n, dr))
  <2>1. u = [armed |-> IF off THEN None ELSE t.armed, watched |-> t.watched,
             exhausted |-> IF off THEN t.watched ELSE t.exhausted,
             hits |-> IF t.hits < MAX_RAW THEN t.hits + 1 ELSE t.hits,
             dr0 |-> IF off THEN None ELSE t.dr0, own |-> TRUE]
    BY <1>2, Zenon DEF repair_back_link, IsTrap
  <2>2. t.dr0 = n /\ n # None
    BY <1>2 DEF trapsItself
  <2>3. IsTrap(u) /\ u.watched = t.watched
    BY <2>1 DEF IsTrap
  <2>4. CASE off
    BY <2>1, <2>2, <2>3, <2>4 DEF Stands, WatchConstants
  <2>5. CASE ~off
    BY <2>1, <2>2, <2>3, <2>5 DEF Stands, WatchConstants
  <2> QED
    BY <2>4, <2>5
<1> QED
  BY <1>1, <1>2

\* A trap that is armed, or has used up the node, stays as it is.
LEMMA RearmedStands ==
    ASSUME WatchConstants, NEW t, IsTrap(t), Stands(t), NEW v, NEW dr \in BOOLEAN,
           NEW u, u = rearmed(t, v, dr)
    PROVE  /\ IsTrap(u) /\ Stands(u)
           /\ t.armed # None \/ t.exhausted = v.back => u.dr0 = t.dr0
           /\ t.exhausted = v.back /\ kind(v) # "clean" => u.exhausted = t.exhausted
<1>1. CASE v.back # None /\ t.armed = None /\ t.exhausted # v.back
  <2>1. u = arm_write_watch(t, v.back, dr)
    BY <1>1 DEF rearmed
  <2>2. u = [armed |-> IF dr THEN v.back ELSE t.armed, watched |-> v.back,
             exhausted |-> t.exhausted, hits |-> 0,
             dr0 |-> IF dr THEN v.back ELSE t.dr0, own |-> t.own]
    BY <2>1, Zenon DEF arm_write_watch, IsTrap
  <2>3. IsTrap(u)
    BY <2>2 DEF IsTrap
  <2> QED
    BY <1>1, <2>2, <2>3 DEF Stands, WatchConstants
<1>2. CASE ~(v.back # None /\ t.armed = None /\ t.exhausted # v.back) /\ kind(v) = "clean"
  <2>1. u = [t EXCEPT !.exhausted = None]
    BY <1>2 DEF rearmed
  <2>2. u = [armed |-> t.armed, watched |-> t.watched, exhausted |-> None, hits |-> t.hits,
             dr0 |-> t.dr0, own |-> t.own]
    BY <2>1, Zenon DEF IsTrap
  <2> QED
    BY <1>2, <2>2 DEF Stands, IsTrap
<1>3. CASE ~(v.back # None /\ t.armed = None /\ t.exhausted # v.back) /\ kind(v) # "clean"
  BY <1>3 DEF rearmed
<1> QED
  BY <1>1, <1>2, <1>3

\* What is put right was seen to be wrong.
LEMMA WrongLinksAreFaults ==
    ASSUME NEW d, walk_resource_list(d).back # None
    PROVE  kind(walk_resource_list(d)) # "clean"
<1>1. ASSUME NEW bad, NEW wild, bad # {}
      PROVE  ({"prev"} \X bad) \union ({"next"} \X wild) # {}
  <2>1. PICK n \in bad : TRUE
    BY <1>1
  <2>2. <<"prev", n>> \in {"prev"} \X bad
    OBVIOUS
  <2> QED
    BY <2>2
<1> DEFINE at[i \in Nat] ==
             IF i = 0 THEN IF d = device THEN head ELSE None
             ELSE LET n == at[i - 1] IN IF n \in Nodes THEN next[n] ELSE None
           met == {at[i] : i \in 0..Cardinality(Nodes)} \intersect Nodes
           from(n) == IF n = head THEN None ELSE CHOOSE m \in met : next[m] = n
           wrong == {n \in met : prev[n] # from(n) \/ n \in low}
           first == CHOOSE i \in 0..Cardinality(Nodes) :
                       at[i] \in wrong /\ \A j \in 0..(i - 1) : at[j] \notin wrong
           healable == wrong # {} /\ ~nothingCounted(d)
<1>0. walk_resource_list(d) =
        [nothing |-> nothingCounted(d),
         faults  |-> ({"prev"} \X wrong) \union ({"next"} \X {n \in met : next[n] = Wild}),
         back    |-> IF healable THEN at[first] ELSE None,
         to      |-> IF healable THEN from(at[first]) ELSE None]
  BY Zenon DEF walk_resource_list
<1> HIDE DEF at, met, from, wrong, first
<1>2. walk_resource_list(d).back = (IF healable THEN at[first] ELSE None)
  BY <1>0
<1>3. wrong # {}
  BY <1>2
<1>4. walk_resource_list(d).faults = ({"prev"} \X wrong) \union ({"next"} \X {n \in met : next[n] = Wild})
  BY <1>0
<1>5. walk_resource_list(d).faults # {}
  BY <1>1, <1>3, <1>4, Zenon
<1> QED
  BY <1>5 DEF kind

\* A walk that counts nothing has a reason to.
LEMMA NothingIsCounted ==
    ASSUME NEW d, kind(walk_resource_list(d)) = "nothing"
    PROVE  nothingCounted(d)
<1>1. \E f, b, t : walk_resource_list(d) =
                     [nothing |-> nothingCounted(d), faults |-> f, back |-> b, to |-> t]
  BY Zenon DEF walk_resource_list
<1> QED
  BY <1>1 DEF kind

\* A walk keeps the trap, or has a reason not to.
LEMMA WalkStands ==
    ASSUME WatchConstants, TrapInv, Sample
    PROVE  /\ TrapInv'
           /\ \A n \in Nodes : armed = n /\ dr0' # n =>
                 exhausted' = n \/ gone(n)' \/ NothingWalked
<1>0. CASE NoDevice
  BY <1>0 DEF NoDevice, TrapInv, ArmedTrapStands, WatchConstants
<1> SUFFICES ASSUME Walked PROVE /\ TrapInv'
                                 /\ \A n \in Nodes : armed = n /\ dr0' # n =>
                                       exhausted' = n \/ gone(n)' \/ NothingWalked
  BY <1>0 DEF Sample
<1>1. PICK d \in d3d9_device \ {None} : \E v \in {walk_resource_list(d)} :
        /\ lastKind' = kind(v) /\ D3D9_DEVICE' = d
        /\ UNCHANGED <<owner, device>>
        /\ \/ UNCHANGED <<armed, watched, exhausted, HITS, dr0>>
           \/ \E dr \in BOOLEAN :
                \E t1 \in {released(trap, v, dr)} :
                \E t2 \in {repair_back_link(t1, v.back, dr)} :
                \E t \in {rearmed(t2, v, dr)} :
                   /\ armed' = t.armed /\ watched' = t.watched /\ exhausted' = t.exhausted
                   /\ HITS' = t.hits /\ dr0' = t.dr0
  BY DEF Walked
<1> DEFINE v == walk_resource_list(d)
<1>2. CASE UNCHANGED <<armed, watched, exhausted, HITS, dr0>>
  BY <1>2 DEF TrapInv, ArmedTrapStands, WatchConstants
<1>3. ASSUME NEW dr \in BOOLEAN, NEW t1, t1 = released(trap, v, dr),
             NEW t2, t2 = repair_back_link(t1, v.back, dr), NEW t, t = rearmed(t2, v, dr),
             lastKind' = kind(v), D3D9_DEVICE' = d, UNCHANGED <<owner, device>>,
             armed' = t.armed, watched' = t.watched, exhausted' = t.exhausted,
             HITS' = t.hits, dr0' = t.dr0
      PROVE  /\ TrapInv'
             /\ \A n \in Nodes : armed = n /\ dr0' # n =>
                   exhausted' = n \/ gone(n)' \/ NothingWalked
  <2>0. v.back # None => kind(v) # "clean"
    BY WrongLinksAreFaults
  <2>8. kind(v) = "nothing" => NothingWalked
    BY <1>3, NothingIsCounted DEF NothingWalked, nothingCounted
  <2> HIDE DEF v
  <2>1. IsTrap(trap) /\ Stands(trap)
    BY TrapStands
  <2>2. /\ IsTrap(t1) /\ Stands(t1) /\ t1.watched = trap.watched
        /\ t1 = trap \/ kind(v) = "nothing" \/ gone(trap.watched)
    BY <1>3, <2>1, ReleasedStands
  <2>3. /\ IsTrap(t2) /\ Stands(t2)
        /\ \/ t2.dr0 = t1.dr0 /\ t2.armed = t1.armed /\ t2.exhausted = t1.exhausted
           \/ /\ t2.dr0 = None /\ t2.armed = None /\ t2.exhausted = t1.watched
              /\ t1.dr0 = v.back /\ v.back # None
    BY <1>3, <2>2, RepairStands
  <2>4. /\ IsTrap(t) /\ Stands(t)
        /\ t2.armed # None \/ t2.exhausted = v.back => t.dr0 = t2.dr0
        /\ t2.exhausted = v.back /\ kind(v) # "clean" => t.exhausted = t2.exhausted
    BY <1>3, <2>3, RearmedStands
  <2>5. TrapInv'
    BY <1>3, <2>4 DEF TrapInv, ArmedTrapStands, Stands
  <2>6. ASSUME NEW n \in Nodes, armed = n, dr0' # n, kind(v) # "nothing", ~gone(n)
        PROVE  exhausted' = n
    <3>1. trap.armed = n /\ trap.dr0 = n /\ trap.watched = n /\ n # None
      BY <2>6 DEF trap, TrapInv, ArmedTrapStands, WatchConstants
    <3>2. t1 = trap
      BY <2>2, <2>6, <3>1
    <3>3. CASE t2.dr0 = t1.dr0 /\ t2.armed = t1.armed
      BY <1>3, <2>4, <2>6, <3>1, <3>2, <3>3
    <3>4. CASE t2.exhausted = t1.watched /\ t1.dr0 = v.back /\ v.back # None
      BY <1>3, <2>0, <2>4, <3>1, <3>2, <3>4
    <3> QED
      BY <2>3, <3>3, <3>4
  <2>7. \A n \in Nodes : gone(n)' = gone(n)
    BY <1>3 DEF gone
  <2> QED
    BY <1>3, <2>5, <2>6, <2>7, <2>8
<1> QED
  BY <1>1, <1>2, <1>3

\* So does the game's own write.
LEMMA GameTraps ==
    ASSUME WatchConstants, TrapInv, NEW written, Trapping(written)
    PROVE  /\ TrapInv'
           /\ \A n \in Nodes : armed = n /\ dr0' # n => exhausted' = n
  BY DEF Trapping, write_watch_veh, trapVars, TrapInv, ArmedTrapStands, WatchConstants

\* And every other step.
LEMMA WatchStep ==
    ASSUME WatchConstants, TrapInv, [ListNext]_listVars
    PROVE  /\ TrapInv'
           /\ [\A n \in Nodes : armed = n /\ dr0' # n =>
                 \/ exhausted' = n
                 \/ gone(n)' \/ NothingWalked
                 \/ ~WATCH_ON']_listVars
<1>1. CASE \E n \in Nodes : Create(n) \/ Release(n) \/ Lower(n)
  <2>1. \E written : Trapping(written)
    BY <1>1, Zenon DEF Create, Release, Lower
  <2> QED
    BY <2>1, GameTraps
<1>2. CASE ModeChange
  BY <1>2, GameTraps DEF ModeChange
<1>3. CASE Sample
  BY <1>3, WalkStands
<1>4. CASE Hurry
  BY <1>4 DEF Hurry, trapVars, TrapInv, ArmedTrapStands, WatchConstants
<1>5. CASE Toggle
  BY <1>5 DEF Toggle, trapVars, TrapInv, ArmedTrapStands, WatchConstants
<1>6. CASE debug_probe_d3d9_list
  BY <1>6 DEF debug_probe_d3d9_list, TrapInv, ArmedTrapStands, WatchConstants
<1>7. CASE UNCHANGED listVars
  BY <1>7 DEF listVars, trapVars, TrapInv, ArmedTrapStands
<1> QED
  BY <1>1, <1>2, <1>3, <1>4, <1>5, <1>6, <1>7 DEF ListNext

\* For any resources, devices, heartbeat and limit: an armed watch is a set register.
THEOREM ArmedTrapIsSet == ASSUME WatchConstants PROVE ListSpec => []TrapInv
<1>1. ListInit => TrapInv
  BY DEF ListInit, TrapInv, ArmedTrapStands, WatchConstants
<1>2. TrapInv /\ [ListNext]_listVars => TrapInv'
  BY WatchStep
<1> QED
  BY <1>1, <1>2, PTL DEF ListSpec

\* For any resources, devices, heartbeat and limit: no breakpoint is lost without a reason.
THEOREM TrapsAreKept == ASSUME WatchConstants PROVE ListSpec => TrapGoesForAReason
<1> DEFINE Kept == \A n \in Nodes : armed = n /\ dr0' # n =>
                      \/ exhausted' = n
                      \/ gone(n)' \/ NothingWalked
                      \/ ~WATCH_ON'
<1>1. TrapInv /\ [ListNext]_listVars => [Kept]_listVars
  BY WatchStep
<1> HIDE DEF Kept
<1>2. ListSpec => [][Kept]_listVars
  BY <1>1, ArmedTrapIsSet, PTL DEF ListSpec
<1> QED
  BY <1>2 DEF Kept, TrapGoesForAReason

=============================================================================
