-------------------------- MODULE ResourceCacheProofs --------------------------
(***************************************************************************)
(* The resource cache is a keyed store, for every set of keys, resources   *)
(* and locks: a key never has two live resources, no slot hides a live     *)
(* one, and the manager owns each live resource exactly once.              *)
(*                                                                         *)
(* The two invariants hold each other up.  That a resource is alive if and *)
(* only if the manager owns it (ManagedOnce) is what makes every step but  *)
(* a creation and a collection leave the slots' meaning alone; and a new   *)
(* slot does not come to lie behind or before a live one of its key only   *)
(* because the first free slot and the first slot of a key are taken.      *)
(***************************************************************************)
EXTENDS ResourceCache, FiniteSetTheorems, SequenceTheorems, TLAPS

CacheInv == TypeOK /\ LiveIsFirst /\ ManagedOnce

\* pfind_if finds the first.
LEMMA FirstIsLeast ==
  ASSUME NEW S, S \subseteq Nat, S # {}
  PROVE  FirstOf(S) \in S /\ \A j \in S : FirstOf(S) <= j
<1>1. PICK i \in S : \A j \in S : ~ (<<j, i>> \in OpToRel(<, Nat))
  BY WFMin, NatLessThanWellFounded
<1>2. \A j \in S : ~ (j < i)
  BY <1>1, Zenon DEF OpToRel
<1>3. \A j \in S : i <= j
  BY <1>2
<1> QED
  BY <1>3 DEF FirstOf

-----------------------------------------------------------------------------
(* Where the searches end                                                    *)

\* The search for a key finds its first slot,
LEMMA SlotIsFirst ==
  ASSUME TypeOK, NEW k
  PROVE  \/ SlotOf(k) = 0 /\ \A i \in DOMAIN slots : slots[i].key # k
         \/ /\ SlotOf(k) \in DOMAIN slots /\ slots[SlotOf(k)].key = k
            /\ \A i \in DOMAIN slots : slots[i].key = k => SlotOf(k) <= i
<1> DEFINE S == {i \in DOMAIN slots : slots[i].key = k}
<1>1. S \subseteq Nat
  BY DEF TypeOK
<1>2. SlotOf(k) = FirstOf(S)
  BY DEF SlotOf
<1>3. CASE S = {}
  BY <1>2, <1>3 DEF FirstOf
<1>4. CASE S # {}
  <2>1. FirstOf(S) \in S /\ \A j \in S : FirstOf(S) <= j
    BY <1>1, <1>4, FirstIsLeast
  <2> QED
    BY <1>2, <2>1
<1> QED
  BY <1>3, <1>4

\* the search for room finds the first slot of a dead resource,
LEMMA FreeIsFirst ==
  ASSUME TypeOK
  PROVE  \/ FreeSlot = 0 /\ \A i \in DOMAIN slots : Alive(slots[i].res)
         \/ /\ FreeSlot \in DOMAIN slots /\ ~ Alive(slots[FreeSlot].res)
            /\ \A i \in DOMAIN slots : ~ Alive(slots[i].res) => FreeSlot <= i
<1> DEFINE S == {i \in DOMAIN slots : ~ Alive(slots[i].res)}
<1>1. S \subseteq Nat
  BY DEF TypeOK
<1>2. FreeSlot = FirstOf(S)
  BY DEF FreeSlot
<1>3. CASE S = {}
  BY <1>2, <1>3 DEF FirstOf
<1>4. CASE S # {}
  <2>1. FirstOf(S) \in S /\ \A j \in S : FirstOf(S) <= j
    BY <1>1, <1>4, FirstIsLeast
  <2> QED
    BY <1>2, <2>1
<1> QED
  BY <1>3, <1>4

\* and the manager takes an entry that is free.
LEMMA EntryIsFree ==
  ASSUME TypeOK
  PROVE  \/ FreeEntry = 0
         \/ FreeEntry \in DOMAIN managed /\ managed[FreeEntry] = None
<1> DEFINE S == {i \in DOMAIN managed : managed[i] = None}
<1>1. S \subseteq Nat
  BY DEF TypeOK
<1>2. FreeEntry = FirstOf(S)
  BY DEF FreeEntry
<1>3. S # {} => FirstOf(S) \in S
  BY <1>1, FirstIsLeast
<1> QED
  BY <1>2, <1>3 DEF FirstOf

\* The index at which PutAt puts.
Spot(s, i) == IF i = 0 THEN Len(s) + 1 ELSE i

\* What a sequence is after an element was put over another, or behind the last.
LEMMA PutAtIs ==
  ASSUME NEW T, NEW s \in Seq(T), NEW x \in T, NEW i, i = 0 \/ i \in DOMAIN s
  PROVE  /\ PutAt(s, i, x) \in Seq(T)
         /\ DOMAIN PutAt(s, i, x) = DOMAIN s \cup {Spot(s, i)}
         /\ PutAt(s, i, x)[Spot(s, i)] = x
         /\ \A j \in DOMAIN s : j # Spot(s, i) => PutAt(s, i, x)[j] = s[j]
         /\ i = 0 => \A j \in DOMAIN s : j < Spot(s, i)
<1>1. CASE i = 0
  <2>1. PutAt(s, i, x) = Append(s, x) /\ Spot(s, i) = Len(s) + 1
    BY <1>1 DEF PutAt, Spot
  <2>2. /\ Append(s, x) \in Seq(T)
        /\ Len(Append(s, x)) = Len(s) + 1
        /\ \A j \in 1..Len(s) : Append(s, x)[j] = s[j]
        /\ Append(s, x)[Len(s) + 1] = x
    BY AppendProperties
  <2>3. DOMAIN Append(s, x) = 1..(Len(s) + 1) /\ DOMAIN s = 1..Len(s) /\ Len(s) \in Nat
    BY <2>2
  <2>4. DOMAIN Append(s, x) = DOMAIN s \cup {Len(s) + 1}
    BY <2>3
  <2>5. \A j \in DOMAIN s : j < Len(s) + 1
    BY <2>3
  <2> QED
    BY <2>1, <2>2, <2>3, <2>4, <2>5
<1>2. CASE i # 0
  <2>1. PutAt(s, i, x) = [s EXCEPT ![i] = x] /\ Spot(s, i) = i
    BY <1>2 DEF PutAt, Spot
  <2>2. [s EXCEPT ![i] = x] \in Seq(T) /\ DOMAIN [s EXCEPT ![i] = x] = DOMAIN s
    BY <1>2, ExceptSeq
  <2> QED
    BY <1>2, <2>1, <2>2
<1> QED
  BY <1>1, <1>2

\* Making a resource anew takes nothing but its name out of the slots.
LEMMA FreshIs ==
  ASSUME TypeOK, NEW r \in Resources
  PROVE  /\ Fresh(r) \in Seq(Slot)
         /\ DOMAIN Fresh(r) = DOMAIN slots /\ Len(Fresh(r)) = Len(slots)
         /\ \A i \in DOMAIN slots :
              /\ Fresh(r)[i].key = slots[i].key
              /\ Fresh(r)[i].res = IF slots[i].res = r THEN None ELSE slots[i].res
<1>1. \A i \in DOMAIN slots : slots[i] \in Slot
  BY DEF TypeOK
<1>2. \A i \in DOMAIN slots : Fresh(r)[i] \in Slot
  BY <1>1 DEF Fresh, Slot
<1>3. DOMAIN slots = 1..Len(slots) /\ Len(slots) \in Nat /\ DOMAIN Fresh(r) = DOMAIN slots
  BY DEF TypeOK, Fresh
<1>4. Fresh(r) \in Seq(Slot) /\ Len(Fresh(r)) = Len(slots)
  BY <1>2, <1>3, IsASeq DEF Fresh
<1> QED
  BY <1>1, <1>3, <1>4 DEF Fresh, Slot

\* What find gives is alive.
LEMMA FoundIsAlive ==
  ASSUME TypeOK, NEW k
  PROVE  /\ Find(k) \in Resources \cup {None}
         /\ Find(k) # None => Alive(Find(k))
<1>1. CASE SlotOf(k) = 0
  BY <1>1 DEF Find
<1>2. CASE SlotOf(k) \in DOMAIN slots
  <2>1. \A i \in DOMAIN slots : slots[i] \in Slot
    BY DEF TypeOK
  <2>2. slots[SlotOf(k)].res \in Resources \cup {None}
    BY <1>2, <2>1 DEF Slot
  <2> QED
    BY <2>2 DEF Find
<1> QED
  BY <1>1, <1>2, SlotIsFirst

-----------------------------------------------------------------------------
(* The invariant                                                             *)

\* An empty cache keeps nothing.
LEMMA InitCache == Init => CacheInv
<1> SUFFICES ASSUME Init PROVE CacheInv
  OBVIOUS
<1>1. TypeOK
  BY CacheAssumption DEF Init, TypeOK
<1>2. \A r \in Resources : ~ Alive(r)
  BY CacheAssumption DEF Init, Alive, Held, Managed
<1> QED
  BY <1>1, <1>2 DEF Init, CacheInv, LiveIsFirst, ManagedOnce

\* The steps that only pass locks around: find into a lock, copy, move and destroy.
\* Whatever a lock comes to hold was alive before.
PassesLocks ==
  /\ UNCHANGED <<slots, managed, maxAge>>
  /\ \A r \in Resources : Held(r)' => Alive(r)

\* The steps that touch neither locks nor pointers.
OnlyAges == UNCHANGED <<slots, managed, holder>>

PassLock ==
  \/ \E l \in Locks, k \in Keys : FindInto(l, k)
  \/ \E l, m \in Locks : Copy(l, m) \/ Move(l, m)
  \/ \E l \in Locks : Destroy(l)

\* Locks are passed on and dropped, but only what lives is locked.
LEMMA LockSteps ==
  ASSUME TypeOK, PassLock
  PROVE  PassesLocks /\ holder' \in [Locks -> Resources \cup {None}]
<1> SUFFICES /\ holder' \in [Locks -> Resources \cup {None}]
             /\ \A r \in Resources, n \in Locks : holder'[n] = r => Alive(r)
  BY DEF PassLock, PassesLocks, Held, FindInto, Copy, Move, Destroy
<1>0. \A n \in Locks, r \in Resources : holder[n] = r => Alive(r)
  BY CacheAssumption DEF Alive, Held
<1>1. ASSUME NEW l \in Locks, NEW k \in Keys, FindInto(l, k)
      PROVE  /\ holder' \in [Locks -> Resources \cup {None}]
             /\ \A r \in Resources, n \in Locks : holder'[n] = r => Alive(r)
  BY <1>0, <1>1, FoundIsAlive, CacheAssumption DEF FindInto, TypeOK
<1>2. ASSUME NEW l \in Locks, NEW m \in Locks, Copy(l, m) \/ Move(l, m)
      PROVE  /\ holder' \in [Locks -> Resources \cup {None}]
             /\ \A r \in Resources, n \in Locks : holder'[n] = r => Alive(r)
  BY <1>0, <1>2, CacheAssumption DEF Copy, Move, TypeOK
<1>3. ASSUME NEW l \in Locks, Destroy(l)
      PROVE  /\ holder' \in [Locks -> Resources \cup {None}]
             /\ \A r \in Resources, n \in Locks : holder'[n] = r => Alive(r)
  BY <1>0, <1>3, CacheAssumption DEF Destroy, TypeOK
<1> QED
  BY <1>1, <1>2, <1>3 DEF PassLock

Aging ==
  \/ \E l \in Locks : Reset(l) \/ \E a \in 0..MaxAge : SetMaxAge(l, a)
  \/ Tick

\* Resetting, limiting and passing of ages change nothing else.
LEMMA AgeSteps ==
  ASSUME Aging PROVE OnlyAges
BY DEF Aging, Reset, SetMaxAge, Tick, OnlyAges

\* What a creation does, seen from the outside: r, dead until now, takes a place in
\* the slots and one in the manager.
LEMMA Creation ==
  ASSUME TypeOK, NEW l \in Locks, NEW k \in Keys, NEW r \in Resources, Create(l, k, r)
  PROVE  /\ slots' = PutAt(Fresh(r), FreeSlot, [key |-> k, res |-> r])
         /\ managed' = PutAt(managed, FreeEntry, r)
         /\ slots' \in Seq(Slot) /\ managed' \in Seq(Resources \cup {None})
         /\ DOMAIN slots' = DOMAIN slots \cup {Spot(slots, FreeSlot)}
         /\ slots'[Spot(slots, FreeSlot)] = [key |-> k, res |-> r]
         /\ \A j \in DOMAIN slots : j # Spot(slots, FreeSlot) =>
              /\ slots'[j].key = slots[j].key
              /\ slots'[j].res = IF slots[j].res = r THEN None ELSE slots[j].res
         /\ FreeSlot = 0 => \A j \in DOMAIN slots : j < Spot(slots, FreeSlot)
         /\ DOMAIN managed' = DOMAIN managed \cup {Spot(managed, FreeEntry)}
         /\ managed'[Spot(managed, FreeEntry)] = r
         /\ \A j \in DOMAIN managed :
              j # Spot(managed, FreeEntry) => managed'[j] = managed[j]
<1> DEFINE x == [key |-> k, res |-> r]
<1>1. slots' = PutAt(Fresh(r), FreeSlot, x) /\ managed' = PutAt(managed, FreeEntry, r)
  BY DEF Create, Add, Manage
<1>2. /\ Fresh(r) \in Seq(Slot)
      /\ DOMAIN Fresh(r) = DOMAIN slots /\ Spot(Fresh(r), FreeSlot) = Spot(slots, FreeSlot)
      /\ \A i \in DOMAIN slots :
           /\ Fresh(r)[i].key = slots[i].key
           /\ Fresh(r)[i].res = IF slots[i].res = r THEN None ELSE slots[i].res
  BY FreshIs DEF Spot
<1>3. x \in Slot
  BY DEF Slot
<1>4. FreeSlot = 0 \/ FreeSlot \in DOMAIN Fresh(r)
  BY <1>2, FreeIsFirst
<1>5. /\ PutAt(Fresh(r), FreeSlot, x) \in Seq(Slot)
      /\ DOMAIN PutAt(Fresh(r), FreeSlot, x) = DOMAIN Fresh(r) \cup {Spot(Fresh(r), FreeSlot)}
      /\ PutAt(Fresh(r), FreeSlot, x)[Spot(Fresh(r), FreeSlot)] = x
      /\ \A j \in DOMAIN Fresh(r) : j # Spot(Fresh(r), FreeSlot) =>
                                  PutAt(Fresh(r), FreeSlot, x)[j] = Fresh(r)[j]
      /\ FreeSlot = 0 => \A j \in DOMAIN Fresh(r) : j < Spot(Fresh(r), FreeSlot)
  <2> HIDE DEF x
  <2> QED
    BY <1>2, <1>3, <1>4, PutAtIs, Zenon
<1> DEFINE Entry == Resources \cup {None}
<1>6. managed \in Seq(Entry) /\ r \in Entry
  BY DEF TypeOK
<1>7. FreeEntry = 0 \/ FreeEntry \in DOMAIN managed
  BY EntryIsFree
<1>8. /\ PutAt(managed, FreeEntry, r) \in Seq(Entry)
      /\ DOMAIN PutAt(managed, FreeEntry, r) = DOMAIN managed \cup {Spot(managed, FreeEntry)}
      /\ PutAt(managed, FreeEntry, r)[Spot(managed, FreeEntry)] = r
      /\ \A j \in DOMAIN managed : j # Spot(managed, FreeEntry) =>
                                 PutAt(managed, FreeEntry, r)[j] = managed[j]
      /\ FreeEntry = 0 => \A j \in DOMAIN managed : j < Spot(managed, FreeEntry)
  <2> HIDE DEF Entry
  <2> QED
    BY <1>6, <1>7, PutAtIs, Zenon
<1> QED
  BY <1>1, <1>2, <1>5, <1>8

\* The pointers and the ages keep their types.
LEMMA TypeStep == TypeOK /\ [Next]_vars => TypeOK'
<1> SUFFICES ASSUME TypeOK, [Next]_vars PROVE TypeOK'
  OBVIOUS
<1>1. CASE PassLock
  <2>1. left' \in [Resources -> 0..MaxAge]
    BY <1>1 DEF PassLock, FindInto, Copy, Move, Destroy, Touch, TypeOK
  <2> QED
    BY <1>1, <2>1, LockSteps DEF PassesLocks, TypeOK
<1>2. ASSUME NEW l \in Locks, NEW k \in Keys, NEW r \in Resources, Create(l, k, r)
      PROVE  TypeOK'
  <2>1. slots' \in Seq(Slot) /\ managed' \in Seq(Resources \cup {None})
    BY <1>2, Creation
  <2> QED
    BY <1>2, <2>1, CacheAssumption DEF Create, Add, TypeOK
<1>3. ASSUME NEW l \in Locks, Reset(l) PROVE TypeOK'
  BY <1>3 DEF Reset, Touch, TypeOK
<1>4. ASSUME NEW l \in Locks, NEW a \in 0..MaxAge, SetMaxAge(l, a) PROVE TypeOK'
  BY <1>4 DEF SetMaxAge, TypeOK
<1>5. CASE Tick
  <2>1. \A r \in Resources : left[r] \in 0..MaxAge
    BY DEF TypeOK
  <2> QED
    BY <1>5, <2>1, CacheAssumption DEF Tick, TypeOK
<1>6. ASSUME NEW force \in BOOLEAN, GarbageCollect(force) PROVE TypeOK'
  <2>1. DOMAIN managed = 1..Len(managed) /\ Len(managed) \in Nat
    BY DEF TypeOK
  <2>2. \A i \in DOMAIN managed : managed[i] \in Resources \cup {None}
    BY DEF TypeOK
  <2>3. managed' \in Seq(Resources \cup {None})
    BY <1>6, <2>1, <2>2, IsASeq DEF GarbageCollect
  <2> QED
    BY <1>6, <2>3 DEF GarbageCollect, TypeOK
<1>7. CASE UNCHANGED vars
  BY <1>7 DEF vars, TypeOK
<1> QED
  BY <1>1, <1>2, <1>3, <1>4, <1>5, <1>6, <1>7 DEF Next, PassLock

\* Being alive is being owned by the manager.
OwnedIsAlive == \A r \in Resources : Alive(r) <=> Managed(r)

\* Where each resource is managed once, what lives is what is managed.
LEMMA AliveIsOwned == ManagedOnce => OwnedIsAlive
BY CacheAssumption DEF ManagedOnce, OwnedIsAlive, Alive

\* A creation makes one resource alive and leaves the life of the others alone.
LEMMA CreationMakesAlive ==
  ASSUME TypeOK, NEW l \in Locks, NEW k \in Keys, NEW r \in Resources, Create(l, k, r)
  PROVE  /\ ~ Alive(r) /\ Alive(r)'
         /\ \A x \in Resources : x # r => (Alive(x)' <=> Alive(x))
<1> USE CacheAssumption
<1> DEFINE q == Spot(managed, FreeEntry)
<1>1. /\ DOMAIN managed' = DOMAIN managed \cup {q} /\ managed'[q] = r
      /\ \A j \in DOMAIN managed : j # q => managed'[j] = managed[j]
  BY Creation
<1>2. q \notin DOMAIN managed \/ managed[q] = None
  <2>1. DOMAIN managed = 1..Len(managed) /\ Len(managed) \in Nat
    BY DEF TypeOK
  <2> QED
    BY <2>1, EntryIsFree DEF Spot
<1>3. /\ ~ Alive(r) /\ holder[l] = None /\ holder' = [holder EXCEPT ![l] = r]
  BY DEF Create, Add
<1>4. Held(r)'
  BY <1>3 DEF Held, TypeOK
<1>5. ASSUME NEW x \in Resources, x # r
      PROVE  (Held(x)' <=> Held(x)) /\ (Managed(x)' <=> Managed(x))
  <2>1. Held(x)' <=> Held(x)
    BY <1>3, <1>5 DEF Held, TypeOK
  <2>2. Managed(x)' <=> Managed(x)
    <3> HIDE DEF q
    <3> QED
      BY <1>1, <1>2, <1>5 DEF Managed
  <2> QED
    BY <2>1, <2>2
<1> QED
  BY <1>3, <1>4, <1>5 DEF Alive

\* A collection takes nothing that is held, and what it takes dies.
LEMMA CollectionSpares ==
  ASSUME TypeOK, NEW force \in BOOLEAN, GarbageCollect(force)
  PROVE  /\ \A r \in Resources : Held(r)' <=> Held(r)
         /\ \A r \in Resources : Managed(r) /\ Held(r) => Managed(r)'
         /\ DOMAIN managed' = DOMAIN managed
         /\ \A i \in DOMAIN managed : managed'[i] \in {managed[i], None}
<1>1. /\ DOMAIN managed' = DOMAIN managed /\ holder' = holder
      /\ \A i \in DOMAIN managed :
           managed'[i] = IF Collectable(managed[i], force) THEN None ELSE managed[i]
  BY DEF GarbageCollect
<1>2. ASSUME NEW r \in Resources, Managed(r), Held(r) PROVE Managed(r)'
  <2>1. PICK i \in DOMAIN managed : managed[i] = r
    BY <1>2 DEF Managed
  <2>2. managed'[i] = r
    BY <1>1, <1>2, <2>1 DEF Collectable
  <2> QED
    BY <1>1, <2>1, <2>2 DEF Managed
<1> QED
  BY <1>1, <1>2 DEF Held

\* The manager keeps owning each live resource once.
LEMMA ManagedOnceStep == TypeOK /\ ManagedOnce /\ [Next]_vars => ManagedOnce'
<1> SUFFICES ASSUME TypeOK, ManagedOnce, [Next]_vars PROVE ManagedOnce'
  OBVIOUS
<1> USE CacheAssumption
<1>0. OwnedIsAlive
  BY AliveIsOwned
<1>1. CASE PassLock
  <2>1. managed' = managed /\ \A r \in Resources : Held(r)' => Alive(r)
    BY <1>1, LockSteps DEF PassesLocks
  <2> QED
    BY <2>1 DEF ManagedOnce, Alive, Managed
<1>2. ASSUME NEW l \in Locks, NEW k \in Keys, NEW r \in Resources, Create(l, k, r)
      PROVE  ManagedOnce'
  <2> DEFINE q == Spot(managed, FreeEntry)
  <2>1. /\ DOMAIN managed' = DOMAIN managed \cup {q} /\ managed'[q] = r
        /\ \A j \in DOMAIN managed : j # q => managed'[j] = managed[j]
    BY <1>2, Creation
  <2>2. q \notin DOMAIN managed \/ managed[q] = None
    <3>1. DOMAIN managed = 1..Len(managed) /\ Len(managed) \in Nat
      BY DEF TypeOK
    <3> QED
      BY <3>1, EntryIsFree DEF Spot
  <2>3. ~ Managed(r) /\ \A x \in Resources : x # r => (Alive(x)' <=> Alive(x))
    BY <1>0, <1>2, CreationMakesAlive DEF OwnedIsAlive
  <2> HIDE DEF q
  <2>4. Managed(r)' /\ \A i, j \in DOMAIN managed' : managed'[i] = r /\ managed'[j] = r => i = j
    BY <2>1, <2>3 DEF Managed
  <2>5. ASSUME NEW x \in Resources, x # r, Alive(x)
        PROVE  /\ Managed(x)'
               /\ \A i, j \in DOMAIN managed' : managed'[i] = x /\ managed'[j] = x => i = j
    BY <2>1, <2>2, <2>5 DEF ManagedOnce, Managed
  <2> QED
    BY <2>3, <2>4, <2>5 DEF ManagedOnce
<1>3. CASE Aging
  BY <1>3, AgeSteps DEF OnlyAges, ManagedOnce, Alive, Managed, Held
<1>4. ASSUME NEW force \in BOOLEAN, GarbageCollect(force) PROVE ManagedOnce'
  <2>1. /\ \A r \in Resources : Held(r)' <=> Held(r)
        /\ \A r \in Resources : Managed(r) /\ Held(r) => Managed(r)'
        /\ DOMAIN managed' = DOMAIN managed
        /\ \A i \in DOMAIN managed : managed'[i] \in {managed[i], None}
    BY <1>4, CollectionSpares
  <2>2. \A r \in Resources : Managed(r)' => Managed(r)
    BY <2>1 DEF Managed
  <2>3. \A r \in Resources : Alive(r)' => Alive(r) /\ Managed(r)'
    BY <1>0, <2>1, <2>2 DEF Alive, OwnedIsAlive
  <2> QED
    BY <2>1, <2>3 DEF ManagedOnce
<1>5. CASE UNCHANGED vars
  BY <1>5 DEF vars, ManagedOnce, Alive, Managed, Held
<1> QED
  BY <1>1, <1>2, <1>3, <1>4, <1>5 DEF Next, PassLock, Aging

\* No step gives life to what a slot points to, except the creation that makes the
\* slot.
LEMMA OthersMakeNothingAlive ==
  ASSUME TypeOK, ManagedOnce,
         \/ PassLock \/ Aging \/ UNCHANGED vars
         \/ \E force \in BOOLEAN : GarbageCollect(force)
  PROVE  slots' = slots /\ \A r \in Resources : Alive(r)' => Alive(r)
<1> USE CacheAssumption
<1>0. OwnedIsAlive
  BY AliveIsOwned
<1>1. CASE PassLock
  BY <1>1, <1>0, LockSteps DEF PassesLocks, OwnedIsAlive, Alive, Managed
<1>2. CASE Aging
  BY <1>2, AgeSteps DEF OnlyAges, Alive, Managed, Held
<1>3. CASE UNCHANGED vars
  BY <1>3 DEF vars, Alive, Managed, Held
<1>4. ASSUME NEW force \in BOOLEAN, GarbageCollect(force)
      PROVE  slots' = slots /\ \A r \in Resources : Alive(r)' => Alive(r)
  <2>1. /\ \A r \in Resources : Held(r)' <=> Held(r)
        /\ DOMAIN managed' = DOMAIN managed
        /\ \A i \in DOMAIN managed : managed'[i] \in {managed[i], None}
    BY <1>4, CollectionSpares
  <2>2. \A r \in Resources : Managed(r)' => Managed(r)
    BY <2>1 DEF Managed
  <2> QED
    BY <1>4, <2>1, <2>2 DEF Alive, GarbageCollect
<1> QED
  BY <1>1, <1>2, <1>3, <1>4

\* The slots of live resources stay the first of their keys.
LEMMA LiveIsFirstStep == CacheInv /\ [Next]_vars => LiveIsFirst'
<1> SUFFICES ASSUME CacheInv, [Next]_vars PROVE LiveIsFirst'
  OBVIOUS
<1> USE CacheAssumption
<1>0. /\ TypeOK /\ LiveIsFirst /\ ManagedOnce
      /\ \A i \in DOMAIN slots : slots[i].res \in Resources \cup {None}
  <2>1. \A i \in DOMAIN slots : slots[i] \in Slot
    BY DEF CacheInv, TypeOK
  <2> QED
    BY <2>1 DEF CacheInv, Slot
<1>a. ~ Alive(None) /\ ~ Alive(None)'
  BY DEF Alive
<1>1. CASE \/ PassLock \/ Aging \/ UNCHANGED vars
           \/ \E force \in BOOLEAN : GarbageCollect(force)
  <2>1. slots' = slots /\ \A r \in Resources : Alive(r)' => Alive(r)
    BY <1>0, <1>1, OthersMakeNothingAlive
  <2>2. \A j \in DOMAIN slots : Alive(slots[j].res)' => Alive(slots[j].res)
    BY <1>0, <1>a, <2>1
  <2> QED
    BY <1>0, <2>1, <2>2 DEF LiveIsFirst
<1>2. ASSUME NEW l \in Locks, NEW k \in Keys, NEW r \in Resources, Create(l, k, r)
      PROVE  LiveIsFirst'
  <2> DEFINE p == Spot(slots, FreeSlot)
  <2>1. /\ DOMAIN slots' = DOMAIN slots \cup {p}
        /\ slots'[p] = [key |-> k, res |-> r]
        /\ \A j \in DOMAIN slots : j # p =>
             /\ slots'[j].key = slots[j].key
             /\ slots'[j].res = IF slots[j].res = r THEN None ELSE slots[j].res
        /\ FreeSlot = 0 => \A j \in DOMAIN slots : j < p
    <3>1. TypeOK
      BY <1>0
    <3>2. /\ DOMAIN slots' = DOMAIN slots \cup {p}
          /\ slots'[p] = [key |-> k, res |-> r]
      BY <3>1, <1>2, Creation
    <3>3. \A j \in DOMAIN slots : j # p =>
             /\ slots'[j].key = slots[j].key
             /\ slots'[j].res = IF slots[j].res = r THEN None ELSE slots[j].res
      BY <3>1, <1>2, Creation
    <3>4. FreeSlot = 0 => \A j \in DOMAIN slots : j < p
      BY <3>1, <1>2, Creation
    <3> QED
      BY <3>2, <3>3, <3>4
  <2>2. ~ Alive(r) /\ \A x \in Resources : x # r => (Alive(x)' <=> Alive(x))
    BY <1>0, <1>2, CreationMakesAlive
  <2>3. /\ DOMAIN slots = 1..Len(slots) /\ Len(slots) \in Nat
        /\ p \in Nat /\ p <= Len(slots) + 1 /\ DOMAIN slots' \subseteq Nat \ {0}
    BY <1>0, <2>1, FreeIsFirst DEF TypeOK, Spot
  <2>4. \A j \in DOMAIN slots : j # p /\ Alive(slots[j].res)' =>
           /\ Alive(slots[j].res) /\ slots[j].res # r
           /\ slots'[j].res = slots[j].res
    BY <1>0, <1>a, <2>1, <2>2
  \* The key has no live slot, and the first slot of it, if any, is free.
  <2>5. \A j \in DOMAIN slots : Alive(slots[j].res) => slots[j].key # k
    <3> SUFFICES ASSUME NEW j \in DOMAIN slots, Alive(slots[j].res), slots[j].key = k
                 PROVE  FALSE
      OBVIOUS
    <3>1. SlotOf(k) = j
      BY <1>0, <2>3, SlotIsFirst DEF LiveIsFirst
    <3>2. j # 0
      BY <2>3
    <3>3. Find(k) # None
      BY <1>a, <3>1, <3>2 DEF Find
    <3> QED
      BY <1>2, <3>3 DEF Create
  <2>6. \A i \in DOMAIN slots : i < p => slots[i].key # k
    <3>1. CASE FreeSlot = 0
      BY <1>0, <2>3, <2>5, <3>1, FreeIsFirst
    <3>2. CASE FreeSlot # 0
      <4>1. \A i \in DOMAIN slots : ~ Alive(slots[i].res) => p <= i
        BY <1>0, <3>2, FreeIsFirst DEF Spot
      <4> QED
        BY <2>3, <2>5, <4>1
    <3> QED
      BY <3>1, <3>2
  <2> HIDE DEF p
  <2> SUFFICES ASSUME NEW j \in DOMAIN slots', Alive(slots[j].res)'
               PROVE  /\ \A i \in 1..(j - 1) : slots'[i].key # slots'[j].key
                      /\ \A i \in DOMAIN slots' : slots'[i].res = slots'[j].res => i = j
    BY DEF LiveIsFirst
  <2>7. CASE j = p
    <3>1. \A i \in 1..(j - 1) : i \in DOMAIN slots /\ i < p
      BY <2>3, <2>7
    <3>2. \A i \in 1..(j - 1) : slots'[i].key # slots'[j].key
      BY <2>1, <2>3, <2>6, <2>7, <3>1
    <3>3. \A i \in DOMAIN slots' : slots'[i].res = slots'[j].res => i = j
      BY <2>1, <2>7
    <3> QED
      BY <3>2, <3>3
  <2>8. CASE j # p
    <3>1. /\ j \in DOMAIN slots /\ Alive(slots[j].res) /\ slots[j].res # r
          /\ slots'[j].res = slots[j].res /\ slots'[j].key = slots[j].key
      BY <2>1, <2>4, <2>8
    <3>2. \A i \in 1..(j - 1) : i \in DOMAIN slots
      BY <2>3, <3>1
    <3>3. \A i \in 1..(j - 1) : slots'[i].key # slots'[j].key
      BY <1>0, <2>1, <2>5, <3>1, <3>2 DEF LiveIsFirst
    <3>4. \A i \in DOMAIN slots' : slots'[i].res = slots'[j].res => i = j
      BY <1>0, <1>a, <2>1, <3>1 DEF LiveIsFirst
    <3> QED
      BY <3>3, <3>4
  <2> QED
    BY <2>7, <2>8
<1> QED
  BY <1>1, <1>2 DEF Next, PassLock, Aging

\* Every step keeps the invariant: one lemma per part.
LEMMA CacheInvStep == CacheInv /\ [Next]_vars => CacheInv'
BY TypeStep, LiveIsFirstStep, ManagedOnceStep DEF CacheInv

\* So it holds in every state that can be reached.
LEMMA CacheInvHolds == Spec => []CacheInv
BY InitCache, CacheInvStep, PTL DEF Spec

\* The pointers, the locks and the ages have their types, whatever the program does
\* with its locks.
THEOREM TypesHold == Spec => []TypeOK
<1>1. CacheInv => TypeOK
  BY DEF CacheInv
<1> QED
  BY <1>1, CacheInvHolds, PTL

\* add's choice of a slot and find's choice of a slot fit together: a live resource
\* is in one slot, and no older slot of its key comes before it.
THEOREM LiveIsAlwaysFirst == Spec => []LiveIsFirst
<1>1. CacheInv => LiveIsFirst
  BY DEF CacheInv
<1> QED
  BY <1>1, CacheInvHolds, PTL

\* Whatever locks hold is owned by the manager too, and once: garbageCollect's
\* use_count() == 1 does mean that no lock is left.
THEOREM AlwaysManagedOnce == Spec => []ManagedOnce
<1>1. CacheInv => ManagedOnce
  BY DEF CacheInv
<1> QED
  BY <1>1, CacheInvHolds, PTL

-----------------------------------------------------------------------------
(* The cache is a keyed store.  Its state shows through find alone, so what  *)
(* a step does to the store is what it does to the live slots.               *)

LiveUnder(k, r) ==
  \E j \in DOMAIN slots : slots[j].key = k /\ slots[j].res = r /\ Alive(r)

\* find gives the live resource of a key, although it only looks at one slot.
FindsLive ==
  \A k \in Keys : /\ Find(k) \in Resources \cup {None}
                  /\ Find(k) # None => Alive(Find(k))
                  /\ \A r \in Resources : Find(k) = r <=> LiveUnder(k, r)

\* The search finds what lives under the key, and nothing else.
LEMMA FindMeaning == CacheInv => FindsLive
<1> SUFFICES ASSUME CacheInv, NEW k \in Keys
             PROVE  /\ Find(k) \in Resources \cup {None}
                    /\ Find(k) # None => Alive(Find(k))
                    /\ \A r \in Resources : Find(k) = r <=> LiveUnder(k, r)
  BY DEF FindsLive
<1>1. TypeOK /\ LiveIsFirst
  BY DEF CacheInv
<1>2. /\ Find(k) \in Resources \cup {None}
      /\ Find(k) # None => Alive(Find(k))
  BY <1>1, FoundIsAlive
<1>3. ASSUME NEW r \in Resources, Find(k) = r PROVE LiveUnder(k, r)
  <2>1. r # None
    BY CacheAssumption
  <2>2. SlotOf(k) # 0 /\ Alive(slots[SlotOf(k)].res) /\ slots[SlotOf(k)].res = r
    BY <1>3, <2>1 DEF Find
  <2>3. SlotOf(k) \in DOMAIN slots /\ slots[SlotOf(k)].key = k
    BY <1>1, <2>2, SlotIsFirst
  <2> QED
    BY <2>2, <2>3 DEF LiveUnder
<1>4. ASSUME NEW r \in Resources, LiveUnder(k, r) PROVE Find(k) = r
  <2>1. PICK j \in DOMAIN slots : slots[j].key = k /\ slots[j].res = r /\ Alive(r)
    BY <1>4 DEF LiveUnder
  <2>2. DOMAIN slots = 1..Len(slots) /\ Len(slots) \in Nat
    BY <1>1 DEF TypeOK
  <2>3. \A i \in 1..(j - 1) : slots[i].key # k
    BY <1>1, <2>1 DEF LiveIsFirst
  <2>4. SlotOf(k) \in DOMAIN slots /\ slots[SlotOf(k)].key = k /\ SlotOf(k) <= j
    BY <1>1, <2>1, SlotIsFirst
  <2>5. SlotOf(k) = j /\ j # 0
    BY <2>2, <2>3, <2>4
  <2> QED
    BY <2>1, <2>5 DEF Find
<1> QED
  BY <1>2, <1>3, <1>4

\* The two sides of a step look at their stores the same way.
LEMMA SameStore ==
  ASSUME FindsLive, FindsLive', slots' = slots,
         \A r \in Resources : Alive(r)' <=> Alive(r)
  PROVE  \A k \in Keys : Find(k)' = Find(k)
<1> SUFFICES ASSUME NEW k \in Keys PROVE Find(k)' = Find(k)
  OBVIOUS
<1>1. \A r \in Resources : LiveUnder(k, r)' <=> LiveUnder(k, r)
  BY DEF LiveUnder
<1> QED
  BY <1>1 DEF FindsLive

\* Neither locks that are passed on nor ages end or begin a life.
LEMMA LocksKeepLife ==
  ASSUME TypeOK, ManagedOnce, PassLock \/ Aging
  PROVE  slots' = slots /\ \A r \in Resources : Alive(r)' <=> Alive(r)
<1> USE CacheAssumption
<1>0. OwnedIsAlive
  BY AliveIsOwned
<1>1. CASE PassLock
  <2>1. /\ UNCHANGED <<slots, managed>> /\ \A r \in Resources : Held(r)' => Alive(r)
    BY <1>1, LockSteps DEF PassesLocks
  <2>2. \A r \in Resources : Managed(r)' <=> Managed(r)
    BY <2>1 DEF Managed
  <2> QED
    BY <1>0, <2>1, <2>2 DEF OwnedIsAlive, Alive
<1>2. CASE Aging
  BY <1>2, AgeSteps DEF OnlyAges, Alive, Managed, Held
<1> QED
  BY <1>1, <1>2

\* A creation puts its resource under its key and leaves the other keys theirs.
LEMMA CreationIsMake ==
  ASSUME CacheInv, FindsLive, FindsLive',
         NEW l \in Locks, NEW k \in Keys, NEW r \in Resources, Create(l, k, r)
  PROVE  /\ \A j \in Keys : Find(j) # r
         /\ Find(k)' = r
         /\ \A j \in Keys : j # k => Find(j)' = Find(j)
<1> USE CacheAssumption
<1> DEFINE p == Spot(slots, FreeSlot)
<1>0. TypeOK
  BY DEF CacheInv
<1>1. /\ DOMAIN slots' = DOMAIN slots \cup {p}
      /\ slots'[p] = [key |-> k, res |-> r]
  BY <1>0, Creation
<1>2. \A j \in DOMAIN slots : j # p =>
         /\ slots'[j].key = slots[j].key
         /\ slots'[j].res = IF slots[j].res = r THEN None ELSE slots[j].res
  BY <1>0, Creation
<1>3. ~ Alive(r) /\ Alive(r)' /\ \A x \in Resources : x # r => (Alive(x)' <=> Alive(x))
  BY <1>0, CreationMakesAlive
<1>4. p \notin DOMAIN slots \/ ~ Alive(slots[p].res)
  <2>1. DOMAIN slots = 1..Len(slots) /\ Len(slots) \in Nat
    BY <1>0 DEF TypeOK
  <2> QED
    BY <1>0, <2>1, FreeIsFirst DEF Spot
<1> HIDE DEF p
<1>5. \A j \in Keys : Find(j) # r
  BY <1>3 DEF FindsLive
<1>6. Find(k)' = r
  <2>1. LiveUnder(k, r)'
    BY <1>1, <1>3 DEF LiveUnder
  <2> QED
    BY <2>1 DEF FindsLive
<1>7. ASSUME NEW j \in Keys, j # k PROVE Find(j)' = Find(j)
  <2>1. ASSUME NEW x \in Resources, LiveUnder(j, x) PROVE LiveUnder(j, x)'
    <3>1. PICK i \in DOMAIN slots : slots[i].key = j /\ slots[i].res = x /\ Alive(x)
      BY <2>1 DEF LiveUnder
    <3>2. i # p /\ x # r
      BY <1>3, <1>4, <3>1
    <3> QED
      BY <1>1, <1>2, <1>3, <3>1, <3>2 DEF LiveUnder
  <2>2. ASSUME NEW x \in Resources, LiveUnder(j, x)' PROVE LiveUnder(j, x)
    <3>1. PICK i \in DOMAIN slots' : slots'[i].key = j /\ slots'[i].res = x /\ Alive(x)'
      BY <2>2 DEF LiveUnder
    <3>2. i # p /\ i \in DOMAIN slots
      BY <1>1, <1>7, <3>1
    <3>3. slots[i].key = j /\ slots[i].res = x /\ x # r
      BY <1>2, <3>1, <3>2
    <3> QED
      BY <1>3, <3>1, <3>2, <3>3 DEF LiveUnder
  <2> QED
    BY <2>1, <2>2 DEF FindsLive
<1> QED
  BY <1>5, <1>6, <1>7

\* A collection takes from the store only what nobody holds.
LEMMA CollectionForgets ==
  ASSUME CacheInv, FindsLive, FindsLive', NEW force \in BOOLEAN, GarbageCollect(force)
  PROVE  \A k \in Keys : \/ Find(k)' = Find(k)
                         \/ Find(k)' = None /\ Find(k) # None /\ ~ Held(Find(k))
<1> USE CacheAssumption
<1>0. TypeOK /\ ManagedOnce
  BY DEF CacheInv
<1>1. slots' = slots /\ \A r \in Resources : Alive(r)' => Alive(r)
  BY <1>0, OthersMakeNothingAlive
<1>2. \A r \in Resources : Held(r) => Alive(r)'
  BY <1>0, CollectionSpares DEF Alive
<1> SUFFICES ASSUME NEW k \in Keys, Find(k)' # Find(k)
             PROVE  Find(k)' = None /\ Find(k) # None /\ ~ Held(Find(k))
  OBVIOUS
<1>3. \A r \in Resources : LiveUnder(k, r)' => LiveUnder(k, r)
  BY <1>1 DEF LiveUnder
<1>4. \A r \in Resources : LiveUnder(k, r) /\ Alive(r)' => LiveUnder(k, r)'
  BY <1>1 DEF LiveUnder
<1>5. Find(k)' = None /\ Find(k) \in Resources
  BY <1>3 DEF FindsLive
<1>6. PICK r \in Resources : r = Find(k)
  BY <1>5
<1>7. LiveUnder(k, r) /\ ~ LiveUnder(k, r)'
  BY <1>5, <1>6 DEF FindsLive
<1>8. ~ Held(r)
  BY <1>2, <1>4, <1>7
<1> QED
  BY <1>5, <1>6, <1>8

\* An empty cache is an empty store.
LEMMA InitIsStoreInit == Init => Store!StoreInit
<1> SUFFICES ASSUME Init PROVE Store!StoreInit
  OBVIOUS
<1>1. \A k : Find(k) = None
  BY CacheAssumption DEF Init, Find, Alive, Held, Managed
<1> QED
  BY <1>1 DEF Init, Store!StoreInit

\* Each of the cache's operations is one of the store's, or none.
LEMMA CacheStepIsStoreStep ==
  CacheInv /\ FindsLive /\ FindsLive' /\ [Next]_vars => [Store!StoreNext]_Store!storeVars
<1> SUFFICES ASSUME CacheInv, FindsLive, FindsLive', [Next]_vars
             PROVE  Store!StoreNext \/ UNCHANGED Store!storeVars
  OBVIOUS
<1> USE CacheAssumption
<1>0. TypeOK /\ ManagedOnce
  BY DEF CacheInv
<1>1. ASSUME PassLock \/ Aging PROVE \A k \in Keys : Find(k)' = Find(k)
  BY <1>0, <1>1, LocksKeepLife, SameStore
<1>2. ASSUME NEW l \in Locks, NEW k \in Keys, FindInto(l, k) PROVE Store!StoreNext
  <2>1. \A j \in Keys : Find(j)' = Find(j)
    BY <1>1, <1>2 DEF PassLock
  <2>2. Store!Get(l, k)
    BY <1>2, <2>1 DEF FindInto, Store!Get
  <2> QED
    BY <2>2 DEF Store!StoreNext
<1>3. ASSUME NEW l \in Locks, NEW k \in Keys, NEW r \in Resources, Create(l, k, r)
      PROVE  Store!StoreNext
  <2>1. /\ \A j \in Keys : Find(j) # r
        /\ Find(k)' = r
        /\ \A j \in Keys : j # k => Find(j)' = Find(j)
    BY <1>3, CreationIsMake
  <2>2. Store!Make(l, k, r)
    BY <1>3, <2>1 DEF Create, Add, Store!Make
  <2> QED
    BY <2>2 DEF Store!StoreNext
<1>4. ASSUME NEW l \in Locks, NEW m \in Locks, Copy(l, m) \/ Move(l, m)
      PROVE  Store!StoreNext
  <2>1. \A j \in Keys : Find(j)' = Find(j)
    BY <1>1, <1>4 DEF PassLock
  <2>2. Store!Pass(l, m)
    BY <1>4, <2>1 DEF Copy, Move, Store!Pass
  <2> QED
    BY <2>2 DEF Store!StoreNext
<1>5. ASSUME NEW l \in Locks, Destroy(l) PROVE Store!StoreNext
  <2>1. \A j \in Keys : Find(j)' = Find(j)
    BY <1>1, <1>5 DEF PassLock
  <2>2. Store!Drop(l)
    BY <1>5, <2>1 DEF Destroy, Store!Drop
  <2> QED
    BY <2>2 DEF Store!StoreNext
<1>6. CASE Aging
  <2>1. \A j \in Keys : Find(j)' = Find(j)
    BY <1>1, <1>6
  <2>2. holder' = holder
    BY <1>6, AgeSteps DEF OnlyAges
  <2> QED
    BY <2>1, <2>2 DEF Store!storeVars
<1>7. ASSUME NEW force \in BOOLEAN, GarbageCollect(force) PROVE Store!StoreNext
  <2> DEFINE K == {k \in Keys : Find(k)' # Find(k)}
  <2>1. \A k \in Keys : \/ Find(k)' = Find(k)
                        \/ Find(k)' = None /\ Find(k) # None /\ ~ Held(Find(k))
    BY <1>7, CollectionForgets
  <2>2. Store!Forget(K)
    <3>1. \A k \in K : Find(k) # None /\ ~ Store!Held(Find(k))
      BY <2>1 DEF Held, Store!Held
    <3>2. [k \in Keys |-> Find(k)]' = [k \in Keys |-> IF k \in K THEN None ELSE Find(k)]
      BY <2>1
    <3>3. holder' = holder
      BY <1>7 DEF GarbageCollect
    <3> QED
      BY <3>1, <3>2, <3>3 DEF Store!Forget
  <2>3. K \in SUBSET Keys
    OBVIOUS
  <2> HIDE DEF K
  <2> QED
    BY <2>2, <2>3 DEF Store!StoreNext
<1>8. CASE UNCHANGED vars
  BY <1>8 DEF vars, Store!storeVars, Find, SlotOf, Alive, Held, Managed
<1> QED
  BY <1>2, <1>3, <1>4, <1>5, <1>6, <1>7, <1>8 DEF Next, Aging

\* Seen through find, the cache is a keyed store: a key has one resource at a time,
\* everybody who asks for it meanwhile is given that one, and it goes only when
\* nobody holds it.  When it goes, and in which slot it was, does not show.
THEOREM CacheImplementsStore == Spec => ImplementsStore
<1>1. CacheInv => FindsLive
  BY FindMeaning
<1> QED
  BY <1>1, InitIsStoreInit, InitCache, CacheInvStep, CacheStepIsStoreStep, PTL
  DEF Spec, ImplementsStore, Store!StoreSpec
=============================================================================
