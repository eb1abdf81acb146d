---------------------------- MODULE ResourceCache ----------------------------
(***************************************************************************)
(* ResourceCache, its ResourceManager and the ResourceLocks handed out.    *)
(*                                                                         *)
(* The cache keeps weak pointers by key in a sparse vector, the manager    *)
(* keeps one strong pointer per resource in another, and a lock is a       *)
(* strong pointer that restarts the resource's age when it is destroyed.   *)
(* Nothing here is locked by a mutex: all of it runs on one strand, so     *)
(* each call is a step.                                                    *)
(*                                                                         *)
(* Resources are few and used again: one that has died may be built anew,  *)
(* and then the weak pointers to its earlier life stay expired (None).     *)
(* Time is how long is left until m_expireTime.                            *)
(***************************************************************************)
EXTENDS Naturals, Sequences, FiniteSets

CONSTANTS
  Keys, Resources, None,
  Locks,     \* the ResourceLock objects of the program
  MaxAge     \* bound: the largest maxAge a holder sets; new resources have it

ASSUME CacheAssumption ==
  /\ None \notin Resources
  /\ IsFiniteSet(Locks)
  /\ MaxAge \in Nat

VARIABLES
  slots,     \* ResourceCache::m_resources: key and weak pointer
  managed,   \* ResourceManager::m_resources: strong pointers, None where reset
  holder,    \* the resource each lock holds, or None
  left,      \* per resource, time until it expires; 0 also before any touch
  maxAge     \* Resource::maxAge

vars == <<slots, managed, holder, left, maxAge>>

Slot == [key : Keys, res : Resources \cup {None}]

Init ==
  /\ slots = <<>> /\ managed = <<>>
  /\ holder = [l \in Locks |-> None]
  /\ left = [r \in Resources |-> 0]
  /\ maxAge = [r \in Resources |-> MaxAge]

-----------------------------------------------------------------------------
Held(r) == \E l \in Locks : holder[l] = r
Managed(r) == \E i \in DOMAIN managed : managed[i] = r

\* Some shared_ptr owns r: weak pointers to it are not expired.
Alive(r) == r # None /\ (Held(r) \/ Managed(r))

\* pfind_if: the least of the indices in S, 0 when there is none.
FirstOf(S) == IF S = {} THEN 0 ELSE CHOOSE i \in S : \A j \in S : i <= j

SlotOf(k) == FirstOf({i \in DOMAIN slots : slots[i].key = k})

\* Faulty variant of FreeSlot: the last one.
FreeSlotLast ==
  LET S == {i \in DOMAIN slots : ~Alive(slots[i].res)}
  IN  IF S = {} THEN 0 ELSE CHOOSE i \in S : \A j \in S : i >= j
FreeSlot == FirstOf({i \in DOMAIN slots : ~Alive(slots[i].res)})
FreeEntry == FirstOf({i \in DOMAIN managed : managed[i] = None})

\* find: the first slot with the key decides, whatever it points to.
Find(k) ==
  IF SlotOf(k) # 0 /\ Alive(slots[SlotOf(k)].res) THEN slots[SlotOf(k)].res ELSE None

\* Put x at index i of s, or at its end when i is 0.
PutAt(s, i, x) == IF i = 0 THEN Append(s, x) ELSE [s EXCEPT ![i] = x]

\* ResourceManager::add: the first empty slot.
Manage(r) == managed' = PutAt(managed, FreeEntry, r)

\* r is a new object: no slot points to it.
Fresh(r) == [i \in DOMAIN slots |-> IF slots[i].res = r
                                   THEN [slots[i] EXCEPT !.res = None] ELSE slots[i]]

\* Faulty variant of Add: the first slot is used even when another resource still
\* lives there.
AddOverFirst(l, k, r) ==
  /\ slots' = PutAt(Fresh(r), IF slots = <<>> THEN 0 ELSE 1, [key |-> k, res |-> r])
  /\ Manage(r)
  /\ holder' = [holder EXCEPT ![l] = r]

\* add: the first slot whose resource is gone, or a new one.
Add(l, k, r) ==
  /\ slots' = PutAt(Fresh(r), FreeSlot, [key |-> k, res |-> r])
  /\ Manage(r)
  /\ holder' = [holder EXCEPT ![l] = r]

\* find, into a lock.
FindInto(l, k) ==
  /\ holder[l] = None /\ Find(k) # None
  /\ holder' = [holder EXCEPT ![l] = Find(k)]
  /\ UNCHANGED <<slots, managed, left, maxAge>>

\* findOrCreate when the key is not there: the factory makes a fresh resource.
Create(l, k, r) ==
  /\ holder[l] = None /\ Find(k) = None
  /\ ~Alive(r)
  /\ Add(l, k, r)
  /\ left' = [left EXCEPT ![r] = 0]
  /\ maxAge' = [maxAge EXCEPT ![r] = MaxAge]

Touch(r) == left' = [left EXCEPT ![r] = maxAge[r]]

\* ~ResourceLock: restart the age, then release.
Destroy(l) ==
  /\ holder[l] # None
  /\ Touch(holder[l])
  /\ holder' = [holder EXCEPT ![l] = None]
  /\ UNCHANGED <<slots, managed, maxAge>>

\* reset: restarts the age and, unlike what the name says, goes on holding.
Reset(l) ==
  /\ holder[l] # None
  /\ Touch(holder[l])
  /\ UNCHANGED <<slots, managed, holder, maxAge>>

\* Copying and moving, by construction or by assignment: what the target held
\* is released without a touch, and a moved-from lock is empty.
Copy(l, m) ==
  /\ l # m /\ holder[l] # None
  /\ holder' = [holder EXCEPT ![m] = holder[l]]
  /\ UNCHANGED <<slots, managed, left, maxAge>>

Move(l, m) ==
  /\ l # m /\ holder[l] # None
  /\ holder' = [holder EXCEPT ![m] = holder[l], ![l] = None]
  /\ UNCHANGED <<slots, managed, left, maxAge>>

\* A holder changes the public maxAge of the resource.
SetMaxAge(l, a) ==
  /\ holder[l] # None
  /\ maxAge' = [maxAge EXCEPT ![holder[l]] = a]
  /\ UNCHANGED <<slots, managed, holder, left>>

Tick ==
  /\ \E r \in Resources : left[r] > 0
  /\ left' = [r \in Resources |-> IF left[r] > 0 THEN left[r] - 1 ELSE 0]
  /\ UNCHANGED <<slots, managed, holder, maxAge>>

\* Faulty variants of Collectable: the use count is not looked at; the resource
\* must not have expired.
CollectableInUse(r, force) == r # None /\ (force \/ left[r] = 0)
CollectableNotExpired(r, force) == r # None /\ ~Held(r) /\ (force \/ left[r] > 0)

\* use_count() == 1, that is no lock holds it, and expired or forced.
Collectable(r, force) == r # None /\ ~Held(r) /\ (force \/ left[r] = 0)

GarbageCollect(force) ==
  /\ managed' = [i \in DOMAIN managed |->
                   IF Collectable(managed[i], force) THEN None ELSE managed[i]]
  /\ UNCHANGED <<slots, holder, left, maxAge>>

Next ==
  \/ \E l \in Locks, k \in Keys : FindInto(l, k) \/ \E r \in Resources : Create(l, k, r)
  \/ \E l, m \in Locks : Copy(l, m) \/ Move(l, m)
  \/ \E l \in Locks : Destroy(l) \/ Reset(l) \/ \E a \in 0..MaxAge : SetMaxAge(l, a)
  \/ Tick
  \/ \E force \in BOOLEAN : GarbageCollect(force)

Spec == Init /\ [][Next]_vars

\* The worker strand's gc coroutine collects again and again, and time passes.
FairSpec == Spec /\ WF_vars(Tick) /\ WF_vars(GarbageCollect(FALSE))

-----------------------------------------------------------------------------
TypeOK ==
  /\ slots \in Seq(Slot)
  /\ managed \in Seq(Resources \cup {None})
  /\ holder \in [Locks -> Resources \cup {None}]
  /\ left \in [Resources -> 0..MaxAge]
  /\ maxAge \in [Resources -> 0..MaxAge]

\* The slot of a live resource is the first one with its key, so find cannot be
\* stopped by an older slot whose resource is gone, and a key has at most one
\* live resource; a live resource is in one slot only.
LiveIsFirst ==
  \A j \in DOMAIN slots : Alive(slots[j].res) =>
    /\ \A i \in 1..(j - 1) : slots[i].key # slots[j].key
    /\ \A i \in DOMAIN slots : slots[i].res = slots[j].res => i = j

\* The manager owns every resource that is alive, once: a held resource never
\* drops out of it, so it stays findable and is collected some day, and a use
\* count of 1 does mean that only the manager is left.
ManagedOnce ==
  \A r \in Resources : Alive(r) =>
    /\ Managed(r)
    /\ \A i, j \in DOMAIN managed : managed[i] = r /\ managed[j] = r => i = j

\* A resource nobody holds any more is collected, unless it is asked for again.
IdleIsCollected == \A r \in Resources : (Alive(r) /\ ~Held(r)) ~> (~Alive(r) \/ Held(r))

\* The cache is a keyed store: which resource is found under a key, and when it
\* may go, do not depend on the slots.
Store == INSTANCE KeyedStore WITH store <- [k \in Keys |-> Find(k)]
ImplementsStore == Store!StoreSpec
=============================================================================
