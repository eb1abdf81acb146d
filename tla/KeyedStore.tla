------------------------------ MODULE KeyedStore ------------------------------
(***************************************************************************)
(* What a resource cache promises: at most one resource under a key at a   *)
(* time, everybody who asks for the key while it is there is given that    *)
(* one, and it goes away only when nobody holds it.                        *)
(***************************************************************************)
CONSTANTS Keys, Resources, Locks, None

VARIABLES
  store,   \* the resource under each key, or None
  holder   \* the resource each lock holds, or None

storeVars == <<store, holder>>

StoreInit ==
  /\ store = [k \in Keys |-> None]
  /\ holder = [l \in Locks |-> None]

Held(r) == \E l \in Locks : holder[l] = r

Get(l, k) ==
  /\ store[k] # None /\ holder[l] = None
  /\ holder' = [holder EXCEPT ![l] = store[k]]
  /\ UNCHANGED store

\* A resource is made only for a key that has none, and it is a new one.
Make(l, k, r) ==
  /\ store[k] = None /\ holder[l] = None
  /\ \A j \in Keys : store[j] # r
  /\ store' = [store EXCEPT ![k] = r]
  /\ holder' = [holder EXCEPT ![l] = r]

\* Locks are copied, moved and dropped.
Pass(l, m) ==
  /\ l # m
  /\ holder' \in { [holder EXCEPT ![m] = holder[l]],
                   [holder EXCEPT ![m] = holder[l], ![l] = None] }
  /\ UNCHANGED store

Drop(l) ==
  /\ holder' = [holder EXCEPT ![l] = None]
  /\ UNCHANGED store

Forget(K) ==
  /\ \A k \in K : store[k] # None /\ ~Held(store[k])
  /\ store' = [k \in Keys |-> IF k \in K THEN None ELSE store[k]]
  /\ UNCHANGED holder

StoreNext ==
  \/ \E l \in Locks, k \in Keys : Get(l, k) \/ \E r \in Resources : Make(l, k, r)
  \/ \E l, m \in Locks : Pass(l, m)
  \/ \E l \in Locks : Drop(l)
  \/ \E K \in SUBSET Keys : Forget(K)

StoreSpec == StoreInit /\ [][StoreNext]_storeVars
=============================================================================
