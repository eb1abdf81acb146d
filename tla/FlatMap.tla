------------------------------- MODULE FlatMap -------------------------------
(***************************************************************************)
(* astl::flat_map: the interface of a map over a vector of pairs that is   *)
(* kept sorted by key.  Every operation finds its place with a binary      *)
(* search, which works only while the vector is strictly sorted.           *)
(***************************************************************************)
EXTENDS Integers, SequencesExt

CONSTANTS
  FlatMaps,     \* the maps of the program
  FmKeys,       \* keys: integers, for they are compared
  FmValues,     \* mapped values
  FmInit        \* bound: pairs in an initialiser

ASSUME FmAssumption == FmKeys \subseteq Int /\ FmValues \subseteq Nat /\ FmInit \in Nat

VARIABLES
  fm,           \* the containers
  fmRef         \* history: what a std::map would map to what

fmVars == <<fm, fmRef>>

Empty == [k \in {} |-> 0]
FmStart == fm = [m \in FlatMaps |-> <<>>] /\ fmRef = [m \in FlatMaps |-> Empty]

-----------------------------------------------------------------------------
Pairs == FmKeys \X FmValues
KeyAt(c, i) == c[i][1]
Sorted(c) == \A i \in 1..Len(c) - 1 : KeyAt(c, i) <= KeyAt(c, i + 1)

\* std::lower_bound and std::upper_bound: positions count from 1, the end is
\* Len + 1.  They halve the range, and trust it to be sorted, with the keys `before'
\* the place in front.
Bound(c, before) ==
  LET search[range \in (1..Len(c) + 1) \X (1..Len(c) + 1)] ==
        LET lo == range[1]
            hi == range[2]
            mid == (lo + hi) \div 2
        IN IF lo >= hi THEN lo
           ELSE IF KeyAt(c, mid) \in before THEN search[<<mid + 1, hi>>] ELSE search[<<lo, mid>>]
  IN search[<<1, Len(c) + 1>>]
LowerBound(c, k) == Bound(c, {at \in FmKeys : at < k})
UpperBound(c, k) == Bound(c, {at \in FmKeys : at <= k})

\* !cmp()(k, *i): what lower_bound found is k itself.
IsAt(c, i, k) == i <= Len(c) /\ ~(k < KeyAt(c, i))

FindKey(c, k) == LET i == LowerBound(c, k) IN IF IsAt(c, i, k) THEN i ELSE Len(c) + 1
CountKey(c, k) == IF FindKey(c, k) = Len(c) + 1 THEN 0 ELSE 1

\* at: the mapped value, or the exception.
NoSuchKey == -1
At(c, k) ==
  LET i == LowerBound(c, k)
  IN IF i = Len(c) + 1 \/ (i <= Len(c) /\ k < KeyAt(c, i)) THEN NoSuchKey ELSE c[i][2]

\* Faulty variant of Inserted: the search is for the place behind the key.
InsertedBehind(c, k, val) ==
  LET i == UpperBound(c, k) IN IF IsAt(c, i, k) THEN c ELSE InsertAt(c, i, <<k, val>>)

\* insert and emplace: nothing happens when the key is there.
Inserted(c, k, val) ==
  LET i == LowerBound(c, k) IN IF IsAt(c, i, k) THEN c ELSE InsertAt(c, i, <<k, val>>)

\* operator[] and the assignment of a value to what it refers to.
Subscripted(c, k, val) ==
  LET d == Inserted(c, k, 0) IN [d EXCEPT ![LowerBound(d, k)] = <<k, val>>]

Erased(c, k) == LET i == FindKey(c, k) IN IF i = Len(c) + 1 THEN c ELSE RemoveAt(c, i)

\* std::unique and erase: the first pair of each run of equal keys stays.
Unique(c) == FoldLeft(LAMBDA d, p : IF d # <<>> /\ Last(d)[1] = p[1] THEN d ELSE Append(d, p), <<>>, c)

-----------------------------------------------------------------------------
(* The member functions.                                                     *)

\* What a std::map maps after an assignment to a key, and after an insertion of one.
MapAssigned(ref, k, val) == [j \in DOMAIN ref \cup {k} |-> IF j = k THEN val ELSE ref[j]]
MapAdded(ref, k, val) == IF k \in DOMAIN ref THEN ref ELSE MapAssigned(ref, k, val)

FmUpdate(m, c, ref) ==
  /\ fm' = [fm EXCEPT ![m] = c]
  /\ fmRef' = [fmRef EXCEPT ![m] = ref]

\* std::sort may leave equal keys in any order, so the one that stays is any.
FmConstruct(m) ==
  \E c \in BoundedSeq(Pairs, FmInit) :
    /\ Sorted(c)
    /\ FmUpdate(m, Unique(c),
                [k \in {p[1] : p \in ToSet(c)} |-> c[SelectInSeq(c, LAMBDA p : p[1] = k)][2]])

FmInsert(m) ==
  \E k \in FmKeys, val \in FmValues :
    FmUpdate(m, Inserted(fm[m], k, val), MapAdded(fmRef[m], k, val))

FmSubscript(m) ==
  \E k \in FmKeys, val \in FmValues :
    FmUpdate(m, Subscripted(fm[m], k, val), MapAssigned(fmRef[m], k, val))

\* operator[] on its own.
FmLookUp(m) ==
  \E k \in FmKeys : FmUpdate(m, Inserted(fm[m], k, 0), MapAdded(fmRef[m], k, 0))

FmErase(m) ==
  \E k \in FmKeys :
    FmUpdate(m, Erased(fm[m], k), [j \in DOMAIN fmRef[m] \ {k} |-> fmRef[m][j]])

FmEraseAt(m) ==
  \E i \in DOMAIN fm[m] :
    FmUpdate(m, RemoveAt(fm[m], i),
             [j \in DOMAIN fmRef[m] \ {KeyAt(fm[m], i)} |-> fmRef[m][j]])

FmClear(m) == FmUpdate(m, <<>>, Empty)

FmCopy(m, n) == m # n /\ FmUpdate(m, fm[n], fmRef[n])

FmMove(m, n) ==
  /\ m # n
  /\ fm' = [fm EXCEPT ![m] = fm[n], ![n] = <<>>]
  /\ fmRef' = [fmRef EXCEPT ![m] = fmRef[n], ![n] = Empty]

FmSwap(m, n) ==
  /\ m # n
  /\ fm' = [fm EXCEPT ![m] = fm[n], ![n] = fm[m]]
  /\ fmRef' = [fmRef EXCEPT ![m] = fmRef[n], ![n] = fmRef[m]]

FmNext ==
  \/ \E m \in FlatMaps :
       \/ FmConstruct(m) \/ FmInsert(m) \/ FmSubscript(m) \/ FmLookUp(m)
       \/ FmErase(m) \/ FmEraseAt(m) \/ FmClear(m)
  \/ \E m, n \in FlatMaps : FmCopy(m, n) \/ FmMove(m, n) \/ FmSwap(m, n)

FmSpec == FmStart /\ [][FmNext]_fmVars

-----------------------------------------------------------------------------
\* A flat_map is a std::map: in whatever order keys came and went, the binary
\* search finds exactly the keys a map holds and the value each was given, a key
\* is there once, and the bounds of a key enclose it and nothing else.
LikeStdMap ==
  \A m \in FlatMaps :
    LET c == fm[m]
        ref == fmRef[m]
    IN /\ Len(c) = Cardinality(DOMAIN ref)
       /\ \A k \in FmKeys :
            /\ CountKey(c, k) = (IF k \in DOMAIN ref THEN 1 ELSE 0)
            /\ At(c, k) = (IF k \in DOMAIN ref THEN ref[k] ELSE NoSuchKey)
            /\ UpperBound(c, k) - LowerBound(c, k) = CountKey(c, k)
=============================================================================
