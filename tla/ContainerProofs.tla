---------------------------- MODULE ContainerProofs ----------------------------
(***************************************************************************)
(* Theorems about the parts MCParts checks side by side whose calls are    *)
(* loops over sequences: the plugin manager (PluginManager) and the        *)
(* containers of astl (FlatMap, PodVector, SmallVector).  Each is proved   *)
(* by an inductive invariant of its own, for every value of its constants. *)
(*                                                                         *)
(* A loop or a search is a recursive function, on the length of what it    *)
(* goes over or on how much is left to search.  First it is shown, by      *)
(* AllNumbers, that a function of that kind exists, so that the CHOOSE     *)
(* behind it names one; then, by AllNumbers again, what it computes.  The  *)
(* loops of small_vector are folds, and what they compute is a memory      *)
(* after each round: the cells each buffer then has.                       *)
(***************************************************************************)
EXTENDS FlatMap, PodVector, SmallVector, PluginManager, SequenceTheorems, FiniteSetTheorems,
        WellFoundedInduction, TLAPS

-----------------------------------------------------------------------------
(* Numbers and sequences                                                     *)

\* A set of numbers that has an element has a least one.
LEMMA LeastOf ==
  ASSUME NEW I \in SUBSET Nat, I # {}
  PROVE  \E m \in I : \A j \in I : m <= j
<1>1. PICK n \in I : TRUE
  OBVIOUS
<1> DEFINE J == {i \in I : i <= n}
           T == {1..i : i \in J}
           R == StrictSubsetOrdering(1..n)
           S == FiniteSubsetsOf(1..n)
<1>2. \A i \in J : i \in Nat /\ IsFiniteSet(1..i) /\ 1..i \in SUBSET (1..n)
  BY FS_Interval
<1>3. T \subseteq S /\ T # {}
  BY <1>1, <1>2 DEF FiniteSubsetsOf
<1>4. IsWellFoundedOn(R, S)
  BY FS_StrictSubsetOrderingWellFounded
<1>5. PICK x \in T : \A y \in T : ~(<<y, x>> \in R)
  <2> HIDE DEF T, R, S
  <2> QED
    BY <1>3, <1>4, WFMin
<1>6. PICK m \in J : x = 1..m
  BY <1>5
<1>7. \A j \in J : m <= j
  <2> SUFFICES ASSUME NEW j \in J, j < m PROVE FALSE
    BY <1>2
  <2>1. 1..j \in T /\ 1..j \in SUBSET (1..n) /\ 1..m \in SUBSET (1..n)
    BY <1>2
  <2>2. 1..j \subseteq 1..m /\ m \in 1..m /\ m \notin 1..j
    BY <1>2
  <2>3. <<1..j, 1..m>> \in R
    BY <2>1, <2>2 DEF StrictSubsetOrdering
  <2> QED
    BY <1>5, <1>6, <2>1, <2>3
<1>8. \A j \in I : m <= j
  BY <1>1, <1>7
<1> QED
  BY <1>8

\* A set that has 0, and with a number the next, has all numbers up to any.
LEMMA AllNumbers ==
  ASSUME NEW T, 0 \in T, NEW k \in Nat, \A n \in Nat : n < k /\ n \in T => n + 1 \in T
  PROVE  \A n \in 0..k : n \in T
<1> DEFINE I == {n \in 0..k : n \notin T}
<1> SUFFICES ASSUME I # {} PROVE FALSE
  OBVIOUS
<1>0. I \in SUBSET Nat
  OBVIOUS
<1>1. PICK m \in I : \A j \in I : m <= j
  <2> HIDE DEF I
  <2> QED
    BY <1>0, LeastOf
<1>2. m # 0 /\ m - 1 \in Nat /\ m - 1 < k /\ m - 1 \notin I /\ (m - 1) + 1 = m
  BY <1>1
<1> QED
  BY <1>2

\* What a fold over a sequence takes last.
LEMMA LastOfInterval ==
  ASSUME NEW n \in Nat
  PROVE  /\ \A s \in SUBSET (1..n + 1) : n + 1 \in s => Max(s) = n + 1
         /\ \A s \in SUBSET (1..n) : s # {} => Max(s) \in s
<1>1. ASSUME NEW k \in Nat, NEW s \in SUBSET (1..k), k \in s
      PROVE  Max(s) = k
  <2>1. \A y \in s : k >= y /\ y \in Nat
    OBVIOUS
  <2>2. Max(s) \in s /\ \A y \in s : Max(s) >= y
    BY <1>1, <2>1, Zenon DEF Max
  <2> DEFINE m == Max(s)
  <2>3. m \in s /\ m \in Nat /\ k >= m /\ m >= k
    <3> HIDE DEF m
    <3> QED
      BY <1>1, <2>1, <2>2 DEF m
  <2> HIDE DEF m
  <2> QED
    BY <2>3 DEF m
<1>2. ASSUME NEW s \in SUBSET (1..n), s # {}
      PROVE  Max(s) \in s
  <2> DEFINE I == {n - i : i \in s}
  <2>1. I \in SUBSET Nat /\ I # {}
    <3>1. \A i \in s : n - i \in Nat
      OBVIOUS
    <3> QED
      BY <1>2, <3>1
  <2>2. PICK m \in I : \A j \in I : m <= j
    BY <2>1, LeastOf
  <2>3. PICK x \in s : m = n - x
    BY <2>2
  <2>4. \A y \in s : x >= y
    BY <2>2, <2>3
  <2> QED
    BY <2>4 DEF Max
<1> QED
  BY <1>1, <1>2

\* The interval that a fold over one element more starts from.
LEMMA OneMore ==
  ASSUME NEW n \in Nat
  PROVE  Max(1..n + 1) = n + 1 /\ 1..n + 1 # {} /\ (1..n + 1) \ {n + 1} = 1..n
<1>1. 1..n + 1 \in SUBSET (1..n + 1) /\ n + 1 \in 1..n + 1
  OBVIOUS
<1>2. Max(1..n + 1) = n + 1
  BY <1>1, LastOfInterval
<1>3. \A i : i \in (1..n + 1) \ {n + 1} <=> i \in 1..n
  OBVIOUS
<1> QED
  BY <1>1, <1>2, <1>3

\* Where the elements of two sequences are in the one after the other.
LEMMA ConcatIs ==
  ASSUME NEW S, NEW a \in Seq(S), NEW b \in Seq(S)
  PROVE  /\ a \o b \in Seq(S) /\ Len(a \o b) = Len(a) + Len(b)
         /\ \A j \in 1..Len(a) : (a \o b)[j] = a[j]
         /\ \A j \in 1..Len(b) : (a \o b)[Len(a) + j] = b[j]
<1>1. Len(a) \in Nat /\ Len(b) \in Nat
  OBVIOUS
<1>2. a \o b \in Seq(S) /\ Len(a \o b) = Len(a) + Len(b)
  OBVIOUS
<1>3. \A j \in 1..Len(a) : (a \o b)[j] = a[j]
  OBVIOUS
<1>4. ASSUME NEW j \in 1..Len(b) PROVE (a \o b)[Len(a) + j] = b[j]
  <2>1. Len(a) + j \in 1..Len(a) + Len(b) /\ ~(Len(a) + j <= Len(a)) /\ Len(a) + j - Len(a) = j
    BY <1>1
  <2> QED
    BY <1>1, <2>1
<1> QED
  BY <1>2, <1>3, <1>4

-----------------------------------------------------------------------------
(* PluginManager                                                             *)

\* What the plugin manager can hold, and how often libraries can be open.
PluginSeq == Seq([path : Libraries \cup {InProcess}, handle : Libraries \cup {NoHandle}])

\* A plugin holds the library.
Held(ps, l) == \E i \in DOMAIN ps : ps[i].handle = l

\* The calls of dlopen without one of dlclose, for each library.
Counts == [Libraries -> Int]

\* Each library is held once, under its own path, and open for its holder and for
\* what was given up, but for what was closed under its holder.
HandlesOf(ps, opn, lkd, erl) ==
  /\ ps \in PluginSeq /\ opn \in Counts /\ lkd \in Counts /\ erl \in Counts
  /\ \A i \in DOMAIN ps : ps[i].handle \in Libraries => ps[i].path = ps[i].handle
  /\ \A i, j \in DOMAIN ps :
       ps[i].handle \in Libraries /\ ps[i].handle = ps[j].handle => i = j
  /\ \A l \in Libraries : /\ opn[l] = (IF Held(ps, l) THEN 1 ELSE 0) + lkd[l] - erl[l]
                          /\ erl[l] <= IF Held(ps, l) THEN 1 ELSE 0

\* The states a call goes through, and those that account for all handles.
PmStates ==
  [plugins : PluginSeq, opened : Counts, leaked : Counts, closedEarly : Counts, thrown : BOOLEAN]
PmGood(st) == st \in PmStates /\ HandlesOf(st.plugins, st.opened, st.leaked, st.closedEarly)

\* The invariant of the plugin manager: when it is gone, there are no holders.
PmInv ==
  /\ pluginDirs \in Seq(Directories)
  /\ pmState # "gone" => HandlesOf(plugins, opened, leaked, closedEarly)
  /\ pmState = "gone" => /\ plugins = <<>>
                         /\ \A l \in Libraries : /\ opened[l] = leaked[l] - closedEarly[l]
                                                 /\ leaked[l] \in Int /\ closedEarly[l] \in Int
                                                 /\ closedEarly[l] <= 1

\* One library more is held, and open or closed under its holder.
LEMMA OneMoreHeld ==
  ASSUME NEW ps, NEW opn, NEW lkd, NEW erl, NEW l \in Libraries, HandlesOf(ps, opn, lkd, erl),
         ~Held(ps, l), NEW o \in Counts, NEW e \in Counts, e[l] <= erl[l] + 1,
         \A k \in Libraries \ {l} : o[k] = opn[k] /\ e[k] = erl[k],
         o[l] + e[l] = opn[l] + erl[l] + 1
  PROVE  HandlesOf(Append(ps, [path |-> l, handle |-> l]), o, lkd, e)
<1> DEFINE p == [path |-> l, handle |-> l]
           qs == Append(ps, p)
           n == Len(ps)
<1>1. /\ ps \in PluginSeq /\ n \in Nat /\ DOMAIN ps = 1..n
      /\ p \in [path : Libraries \cup {InProcess}, handle : Libraries \cup {NoHandle}]
  BY DEF HandlesOf, PluginSeq
<1>2. qs \in PluginSeq /\ DOMAIN qs = 1..n + 1 /\ qs[n + 1] = p /\ \A i \in 1..n : qs[i] = ps[i]
  BY <1>1 DEF PluginSeq
<1>3. \A i \in DOMAIN qs : qs[i].handle \in Libraries => qs[i].path = qs[i].handle
  <2> SUFFICES ASSUME NEW i \in 1..n + 1, qs[i].handle \in Libraries PROVE qs[i].path = qs[i].handle
    BY <1>2
  <2>1. CASE i = n + 1
    BY <1>2, <2>1
  <2>2. CASE i \in 1..n
    BY <1>1, <1>2, <2>2 DEF HandlesOf
  <2> QED
    BY <1>1, <2>1, <2>2
<1>4. \A i \in 1..n : qs[i].handle # l
  BY <1>1, <1>2 DEF Held
<1>5. \A i, j \in DOMAIN qs : qs[i].handle \in Libraries /\ qs[i].handle = qs[j].handle => i = j
  <2> SUFFICES ASSUME NEW i \in 1..n + 1, NEW j \in 1..n + 1, qs[i].handle \in Libraries,
                      qs[i].handle = qs[j].handle
               PROVE  i = j
    BY <1>2
  <2>1. CASE i = n + 1 \/ j = n + 1
    BY <1>1, <1>2, <1>4, <2>1
  <2>2. CASE i \in 1..n /\ j \in 1..n
    BY <1>1, <1>2, <2>2 DEF HandlesOf
  <2> QED
    BY <1>1, <2>1, <2>2
<1>6. Held(qs, l) /\ \A k \in Libraries \ {l} : Held(qs, k) <=> Held(ps, k)
  <2>1. Held(qs, l)
    BY <1>1, <1>2 DEF Held
  <2>2. \A k \in Libraries \ {l} : Held(ps, k) => Held(qs, k)
    BY <1>1, <1>2 DEF Held
  <2>3. ASSUME NEW k \in Libraries \ {l}, Held(qs, k) PROVE Held(ps, k)
    <3>1. PICK i \in 1..n + 1 : qs[i].handle = k
      BY <1>2, <2>3 DEF Held
    <3>2. i \in 1..n
      BY <1>1, <1>2, <3>1
    <3> QED
      BY <1>1, <1>2, <3>1, <3>2 DEF Held
  <2> QED
    BY <2>1, <2>2, <2>3
<1>7. /\ opn \in Counts /\ lkd \in Counts /\ erl \in Counts
      /\ \A m \in Libraries : /\ opn[m] = (IF Held(ps, m) THEN 1 ELSE 0) + lkd[m] - erl[m]
                              /\ erl[m] <= IF Held(ps, m) THEN 1 ELSE 0
  BY DEF HandlesOf
<1> HIDE DEF qs, p
<1>8. ASSUME NEW k \in Libraries
      PROVE  /\ o[k] = (IF Held(qs, k) THEN 1 ELSE 0) + lkd[k] - e[k]
             /\ e[k] <= IF Held(qs, k) THEN 1 ELSE 0
  <2>1. /\ opn[k] \in Int /\ lkd[k] \in Int /\ erl[k] \in Int /\ o[k] \in Int /\ e[k] \in Int
        /\ opn[k] = (IF Held(ps, k) THEN 1 ELSE 0) + lkd[k] - erl[k]
        /\ erl[k] <= IF Held(ps, k) THEN 1 ELSE 0
    BY <1>7 DEF Counts
  <2>2. CASE k = l
    <3>1. Held(qs, k) /\ ~Held(ps, k)
      BY <1>6, <2>2
    <3>2. opn[k] = lkd[k] - erl[k] /\ erl[k] <= 0
      BY <2>1, <3>1
    <3>3. o[k] + e[k] = opn[k] + erl[k] + 1 /\ e[k] <= erl[k] + 1
      BY <2>2
    <3>4. ASSUME NEW x \in Int, NEW y \in Int, NEW z \in Int, NEW u \in Int, NEW v \in Int,
                 x = y - z, z <= 0, u + v = x + z + 1, v <= z + 1
          PROVE  u = 1 + y - v /\ v <= 1
      BY ONLY <3>4
    <3>5. o[k] = 1 + lkd[k] - e[k] /\ e[k] <= 1
      BY ONLY <2>1, <3>2, <3>3, <3>4
    <3> QED
      BY <3>1, <3>5
  <2>3. CASE k # l
    BY <1>6, <2>1, <2>3
  <2> QED
    BY <2>2, <2>3
<1>9. HandlesOf(qs, o, lkd, e)
  BY <1>2, <1>3, <1>5, <1>7, <1>8 DEF HandlesOf
<1> QED
  BY <1>9 DEF qs, p

\* A handle that is given up counts as leaked.
LEMMA OneMoreLeaked ==
  ASSUME NEW ps, NEW opn, NEW lkd, NEW erl, NEW l \in Libraries, HandlesOf(ps, opn, lkd, erl)
  PROVE  HandlesOf(ps, [opn EXCEPT ![l] = @ + 1], [lkd EXCEPT ![l] = @ + 1], erl)
<1>1. [opn EXCEPT ![l] = @ + 1] \in Counts /\ [lkd EXCEPT ![l] = @ + 1] \in Counts
  BY DEF HandlesOf, Counts
<1>2. ASSUME NEW k \in Libraries
      PROVE  [opn EXCEPT ![l] = @ + 1][k]
               = (IF Held(ps, k) THEN 1 ELSE 0) + [lkd EXCEPT ![l] = @ + 1][k] - erl[k]
  BY DEF HandlesOf, Counts
<1> QED
  BY <1>1, <1>2 DEF HandlesOf

\* The parts of a good state.
LEMMA GoodParts ==
  ASSUME NEW st, PmGood(st)
  PROVE  /\ st = [plugins |-> st.plugins, opened |-> st.opened, leaked |-> st.leaked,
                  closedEarly |-> st.closedEarly, thrown |-> st.thrown]
         /\ st.plugins \in PluginSeq /\ st.opened \in Counts /\ st.leaked \in Counts
         /\ st.closedEarly \in Counts /\ st.thrown \in BOOLEAN
         /\ HandlesOf(st.plugins, st.opened, st.leaked, st.closedEarly)
BY DEF PmGood, PmStates

\* A library is closed as often as it was opened.
LEMMA OpenAndClose ==
  ASSUME NEW c \in Counts, NEW l \in Libraries
  PROVE  [[c EXCEPT ![l] = @ + 1] EXCEPT ![l] = @ - 1] = c
<1>1. c = [k \in Libraries |-> c[k]] /\ \A k \in Libraries : c[k] \in Int
  BY DEF Counts
<1>2. [[c EXCEPT ![l] = @ + 1] EXCEPT ![l] = @ - 1]
        = [k \in Libraries |-> IF k = l THEN c[k] + 1 - 1 ELSE c[k]]
  BY <1>1
<1>3. @ = [k \in Libraries |-> c[k]]
  BY <1>1
<1> QED
  BY <1>1, <1>2, <1>3

\* An attempt to load keeps the handles accounted for, however it ends.
LEMMA AttemptKeeps ==
  ASSUME NEW st, PmGood(st), NEW l \in Libraries, NEW answer \in Answers
  PROVE  PmGood(TryLoad(st, l, answer))
<1> DEFINE ps == st.plugins
           qs == Append(ps, [path |-> l, handle |-> l])
           o == [st.opened EXCEPT ![l] = @ + 1]
           State(p, c, k, e, t) ==
             [plugins |-> p, opened |-> c, leaked |-> k, closedEarly |-> e, thrown |-> t]
           ok == State(ps, o, st.leaked, st.closedEarly, st.thrown)
           how == Outcome(l, answer)
           res == TryLoad(st, l, answer)
<1>0. /\ st = State(ps, st.opened, st.leaked, st.closedEarly, st.thrown)
      /\ ps \in PluginSeq /\ st.opened \in Counts /\ st.leaked \in Counts
      /\ st.closedEarly \in Counts /\ st.thrown \in BOOLEAN
      /\ HandlesOf(ps, st.opened, st.leaked, st.closedEarly)
  BY GoodParts
<1>1. OpenHandle(st, l) = ok
  BY <1>0 DEF OpenHandle
<1>2. CASE answer = "filter throws"
  <2>1. res = [st EXCEPT !.thrown = TRUE]
    BY <1>2 DEF TryLoad
  <2>2. res = State(ps, st.opened, st.leaked, st.closedEarly, TRUE)
    BY <1>0, <2>1
  <2> QED
    BY <1>0, <2>2 DEF PmGood, PmStates
<1>3. CASE /\ answer # "filter throws"
           /\ answer = "skip" \/ FindByPath(st, l) \/ LibraryKind[l] = "broken"
  BY <1>3 DEF TryLoad
<1>4. CASE /\ answer # "filter throws"
           /\ ~(answer = "skip" \/ FindByPath(st, l) \/ LibraryKind[l] = "broken")
  <2>0. ~Held(ps, l)
    <3> SUFFICES ASSUME NEW i \in DOMAIN ps, ps[i].handle = l PROVE FALSE
      BY DEF Held
    <3>1. ps[i].path = l
      BY <1>0 DEF HandlesOf
    <3> QED
      BY <1>4, <3>1 DEF FindByPath
  <2>1. CASE LibraryKind[l] = "foreign"
    <3>1. res = CloseHandle(ok, l)
      BY <1>1, <1>4, <2>1 DEF TryLoad
    <3>2. CloseHandle(ok, l) = State(ps, [o EXCEPT ![l] = @ - 1], st.leaked, st.closedEarly,
                                     st.thrown)
      BY DEF CloseHandle
    <3>3. CloseHandle(ok, l) = st
      BY <1>0, <3>2, OpenAndClose
    <3> QED
      BY <3>1, <3>3
  <2>2. CASE LibraryKind[l] # "foreign"
    <3>1. res = Loaded(ok, l, how)
      BY <1>1, <1>4, <2>2 DEF TryLoad
    <3>2. how \in {"rejected", "created", "thrown"}
      BY DEF Outcome
    <3>3. o \in Counts /\ \A k \in Libraries : o[k] = st.opened[k] + IF k = l THEN 1 ELSE 0
      BY <1>0 DEF Counts
    <3>4. CASE how = "rejected"
      <4> DEFINE k == [st.leaked EXCEPT ![l] = @ + 1]
      <4>1. res = [ok EXCEPT !.leaked[l] = @ + 1]
        BY <3>1, <3>4 DEF Loaded, TryCreate
      <4>2. res = State(ps, o, k, st.closedEarly, st.thrown)
        BY <1>0, <4>1
      <4>3. HandlesOf(ps, o, k, st.closedEarly)
        BY <1>0, OneMoreLeaked
      <4>4. k \in Counts
        BY <4>3 DEF HandlesOf
      <4> HIDE DEF o, k, ps, res
      <4>5. PmGood(res)
        BY <1>0, <3>3, <4>2, <4>3, <4>4 DEF PmGood, PmStates
      <4> QED
        BY <4>5 DEF res
    <3>5. CASE how = "created"
      <4>1. res = Entry(ok, l, l)
        BY <3>1, <3>5 DEF Loaded, TryCreate
      <4>2. res = State(qs, o, st.leaked, st.closedEarly, st.thrown)
        BY <1>0, <4>1 DEF Entry
      <4>3. st.closedEarly[l] \in Int /\ st.opened[l] \in Int
        BY <1>0 DEF Counts
      <4>4. /\ st.closedEarly[l] <= st.closedEarly[l] + 1
            /\ \A k \in Libraries \ {l} : /\ o[k] = st.opened[k]
                                         /\ st.closedEarly[k] = st.closedEarly[k]
            /\ o[l] + st.closedEarly[l] = st.opened[l] + st.closedEarly[l] + 1
        <5>1. \A k \in Libraries : st.opened[k] \in Int
          BY <1>0 DEF Counts
        <5> QED
          BY <3>3, <4>3, <5>1
      <4> HIDE DEF o
      <4>5. HandlesOf(qs, o, st.leaked, st.closedEarly)
        BY <1>0, <2>0, <3>3, <4>4, OneMoreHeld
      <4>6. qs \in PluginSeq
        BY <4>5 DEF HandlesOf
      <4> HIDE DEF qs, res
      <4>7. PmGood(res)
        BY <1>0, <3>3, <4>2, <4>5, <4>6 DEF PmGood, PmStates
      <4> QED
        BY <4>7 DEF res
    <3>6. CASE how = "thrown"
      <4> DEFINE e == [st.closedEarly EXCEPT ![l] = @ + 1]
      <4>1. res = [CloseHandle([Entry(ok, l, l) EXCEPT !.thrown = TRUE], l)
                     EXCEPT !.closedEarly[l] = @ + 1]
        BY <3>1, <3>6 DEF Loaded, TryCreate
      <4>2. res = State(qs, [o EXCEPT ![l] = @ - 1], st.leaked, e, TRUE)
        BY <1>0, <4>1 DEF Entry, CloseHandle
      <4>3. res = State(qs, st.opened, st.leaked, e, TRUE)
        BY <1>0, <4>2, OpenAndClose
      <4>4. e \in Counts /\ st.closedEarly[l] \in Int /\ st.opened[l] \in Int
        BY <1>0 DEF Counts
      <4>5. \A k \in Libraries : e[k] = IF k = l THEN st.closedEarly[k] + 1 ELSE st.closedEarly[k]
        BY <1>0 DEF Counts
      <4> HIDE DEF e
      <4>6. /\ e[l] <= st.closedEarly[l] + 1
            /\ \A k \in Libraries \ {l} : st.opened[k] = st.opened[k] /\ e[k] = st.closedEarly[k]
            /\ st.opened[l] + e[l] = st.opened[l] + st.closedEarly[l] + 1
        BY <4>4, <4>5
      <4>7. HandlesOf(qs, st.opened, st.leaked, e)
        BY <1>0, <2>0, <4>4, <4>6, OneMoreHeld
      <4>8. qs \in PluginSeq
        BY <4>7 DEF HandlesOf
      <4> HIDE DEF qs, res
      <4>9. PmGood(res)
        BY <1>0, <4>3, <4>4, <4>7, <4>8 DEF PmGood, PmStates
      <4> QED
        BY <4>9 DEF res
    <3> QED
      BY <3>2, <3>4, <3>5, <3>6
  <2> QED
    BY <2>1, <2>2
<1> QED
  BY <1>2, <1>3, <1>4

\* One step of each of the two loops.
InDir(s, l, cb) == IF s.thrown THEN s ELSE TryLoad(s, l, cb[l])
InDirs(st, libs, cb) == FoldLeft(LAMBDA s, l : InDir(s, l, cb), st, libs)
OneDir(s, d, cb) ==
  IF s.thrown THEN s
  ELSE IF d \in MissingDirs THEN [s EXCEPT !.thrown = TRUE]
  ELSE InDirs(s, PluginDirs[d], cb)

\* Loading what is in a directory, library by library, keeps the handles accounted for.
LEMMA DirectoryKeeps ==
  ASSUME NEW st, PmGood(st), NEW libs \in Seq(Libraries), NEW cb \in Callbacks
  PROVE  PmGood(InDirs(st, libs, cb))
<1> DEFINE E(it, n) == [s \in SUBSET (1..n) |->
                          IF s = {} THEN st ELSE InDir(it[s \ {Max(s)}], libs[Max(s)], cb)]
           iter == CHOOSE it : it = E(it, Len(libs))
           T == {n \in Nat : \E it : it = E(it, n)}
           G == {n \in Nat : PmGood(iter[1..n])}
<1>0. Len(libs) \in Nat /\ DOMAIN libs = 1..Len(libs)
  OBVIOUS
<1>1. InDirs(st, libs, cb) = iter[1..Len(libs)]
  BY <1>0 DEF InDirs, FoldLeft, MapThenFoldSet
<1>2. 0 \in T
  <2> DEFINE h == [s \in SUBSET (1..0) |-> st]
  <2>1. \A s \in SUBSET (1..0) : s = {}
    OBVIOUS
  <2>2. h = E(h, 0)
    BY <2>1
  <2> QED
    BY <2>2
<1>3. ASSUME NEW n \in Nat, n \in T PROVE n + 1 \in T
  <2>1. PICK it : it = E(it, n)
    BY <1>3
  <2> DEFINE h == [s \in SUBSET (1..n + 1) |->
                     IF n + 1 \in s THEN InDir(it[s \ {n + 1}], libs[n + 1], cb) ELSE it[s]]
  <2>2. ASSUME NEW s \in SUBSET (1..n + 1), n + 1 \in s
        PROVE  h[s] = InDir(h[s \ {Max(s)}], libs[Max(s)], cb)
    <3>1. Max(s) = n + 1
      BY <2>2, LastOfInterval
    <3>2. s \ {n + 1} \in SUBSET (1..n) /\ s \ {n + 1} \in SUBSET (1..n + 1)
      OBVIOUS
    <3>3. h[s \ {n + 1}] = it[s \ {n + 1}]
      BY <3>2
    <3> QED
      BY <2>2, <3>1, <3>3
  <2>3. ASSUME NEW s \in SUBSET (1..n + 1), n + 1 \notin s, s # {}
        PROVE  h[s] = InDir(h[s \ {Max(s)}], libs[Max(s)], cb)
    <3>1. \A i \in s : i \in 1..n
      BY <2>3
    <3>2. it[s] = InDir(it[s \ {Max(s)}], libs[Max(s)], cb)
      BY <2>1, <2>3, <3>1
    <3>3. h[s] = it[s] /\ h[s \ {Max(s)}] = it[s \ {Max(s)}]
      BY <2>3, <3>1
    <3> QED
      BY <3>2, <3>3
  <2>4. h[{}] = st
    <3>1. {} \in SUBSET (1..n) /\ {} \in SUBSET (1..n + 1)
      OBVIOUS
    <3>2. it[{}] = st
      BY <2>1, <3>1
    <3> QED
      BY <3>1, <3>2
  <2>5. \A s \in SUBSET (1..n + 1) : h[s] = E(h, n + 1)[s]
    BY <2>2, <2>3, <2>4
  <2>6. h = E(h, n + 1)
    BY <2>5
  <2>7. \E f : f = E(f, n + 1)
    <3> HIDE DEF h
    <3> QED
      BY <2>6
  <2>8. n + 1 \in Nat
    OBVIOUS
  <2> QED
    BY <2>7, <2>8, Zenon
<1>4. Len(libs) \in T
  <2> HIDE DEF T
  <2>1. \A n \in Nat : n < Len(libs) /\ n \in T => n + 1 \in T
    BY <1>3
  <2>2. \A n \in 0..Len(libs) : n \in T
    BY <1>0, <1>2, <2>1, AllNumbers
  <2> QED
    BY <1>0, <2>2
<1>5. iter = E(iter, Len(libs))
  BY <1>4
<1> HIDE DEF iter
<1>6. 0 \in G
  <2>1. {} \in SUBSET (1..Len(libs)) /\ 1..0 = {}
    OBVIOUS
  <2>2. iter[{}] = st
    BY <1>5, <2>1
  <2> QED
    BY <2>1, <2>2
<1>7. ASSUME NEW n \in Nat, n < Len(libs), n \in G PROVE n + 1 \in G
  <2>1. Max(1..n + 1) = n + 1 /\ 1..n + 1 # {} /\ (1..n + 1) \ {n + 1} = 1..n
    BY OneMore
  <2>2. 1..n + 1 \in SUBSET (1..Len(libs)) /\ libs[n + 1] \in Libraries
    BY <1>0, <1>7
  <2>3. iter[1..n + 1] = InDir(iter[1..n], libs[n + 1], cb)
    BY <1>5, <2>1, <2>2
  <2>4. PmGood(InDir(iter[1..n], libs[n + 1], cb))
    <3>1. cb[libs[n + 1]] \in Answers
      BY <2>2 DEF Callbacks
    <3> QED
      BY <1>7, <2>2, <3>1, AttemptKeeps DEF InDir
  <2> QED
    BY <2>3, <2>4
<1>8. Len(libs) \in G
  <2> HIDE DEF G
  <2>1. \A n \in Nat : n < Len(libs) /\ n \in G => n + 1 \in G
    BY <1>7
  <2>2. \A n \in 0..Len(libs) : n \in G
    BY <1>0, <1>6, <2>1, AllNumbers
  <2> QED
    BY <1>0, <2>2
<1> QED
  BY <1>1, <1>8

\* A directory that is not there ends the call with what was loaded before.
LEMMA OneDirKeeps ==
  ASSUME NEW st, PmGood(st), NEW d \in Directories, NEW cb \in Callbacks
  PROVE  PmGood(OneDir(st, d, cb))
<1>1. CASE st.thrown
  BY <1>1 DEF OneDir
<1>2. CASE ~st.thrown /\ d \in MissingDirs
  <2>1. OneDir(st, d, cb) = [st EXCEPT !.thrown = TRUE]
    BY <1>2 DEF OneDir
  <2> QED
    BY <2>1 DEF PmGood, PmStates
<1>3. CASE ~st.thrown /\ d \notin MissingDirs
  <2>1. PluginDirs[d] \in Seq(Libraries)
    BY <1>3, PmAssumption DEF Directories
  <2> QED
    BY <1>3, <2>1, DirectoryKeeps DEF OneDir
<1> QED
  BY <1>1, <1>2, <1>3

\* So does loading what is in all directories, up to one that is not there.
LEMMA DirectoriesKeep ==
  ASSUME NEW st, PmGood(st), pluginDirs \in Seq(Directories), NEW cb \in Callbacks
  PROVE  PmGood(LoadDirs(st, cb))
<1> DEFINE E(it, n) == [s \in SUBSET (1..n) |->
                          IF s = {} THEN st ELSE OneDir(it[s \ {Max(s)}], pluginDirs[Max(s)], cb)]
           iter == CHOOSE it : it = E(it, Len(pluginDirs))
           T == {n \in Nat : \E it : it = E(it, n)}
           G == {n \in Nat : PmGood(iter[1..n])}
<1>0. Len(pluginDirs) \in Nat /\ DOMAIN pluginDirs = 1..Len(pluginDirs)
  OBVIOUS
<1>1. LoadDirs(st, cb) = iter[1..Len(pluginDirs)]
  BY <1>0 DEF LoadDirs, InDirs, OneDir, InDir, FoldLeft, MapThenFoldSet
<1>2. 0 \in T
  <2> DEFINE h == [s \in SUBSET (1..0) |-> st]
  <2>1. \A s \in SUBSET (1..0) : s = {}
    OBVIOUS
  <2>2. h = E(h, 0)
    BY <2>1
  <2> QED
    BY <2>2
<1>3. ASSUME NEW n \in Nat, n \in T PROVE n + 1 \in T
  <2>1. PICK it : it = E(it, n)
    BY <1>3
  <2> DEFINE h == [s \in SUBSET (1..n + 1) |->
                     IF n + 1 \in s THEN OneDir(it[s \ {n + 1}], pluginDirs[n + 1], cb) ELSE it[s]]
  <2>2. ASSUME NEW s \in SUBSET (1..n + 1), n + 1 \in s
        PROVE  h[s] = OneDir(h[s \ {Max(s)}], pluginDirs[Max(s)], cb)
    <3>1. Max(s) = n + 1
      BY <2>2, LastOfInterval
    <3>2. s \ {n + 1} \in SUBSET (1..n) /\ s \ {n + 1} \in SUBSET (1..n + 1)
      OBVIOUS
    <3>3. h[s \ {n + 1}] = it[s \ {n + 1}]
      BY <3>2
    <3> QED
      BY <2>2, <3>1, <3>3
  <2>3. ASSUME NEW s \in SUBSET (1..n + 1), n + 1 \notin s, s # {}
        PROVE  h[s] = OneDir(h[s \ {Max(s)}], pluginDirs[Max(s)], cb)
    <3>1. \A i \in s : i \in 1..n
      BY <2>3
    <3>2. it[s] = OneDir(it[s \ {Max(s)}], pluginDirs[Max(s)], cb)
      BY <2>1, <2>3, <3>1
    <3>3. h[s] = it[s] /\ h[s \ {Max(s)}] = it[s \ {Max(s)}]
      BY <2>3, <3>1
    <3> QED
      BY <3>2, <3>3
  <2>4. h[{}] = st
    <3>1. {} \in SUBSET (1..n) /\ {} \in SUBSET (1..n + 1)
      OBVIOUS
    <3>2. it[{}] = st
      BY <2>1, <3>1
    <3> QED
      BY <3>1, <3>2
  <2>5. \A s \in SUBSET (1..n + 1) : h[s] = E(h, n + 1)[s]
    BY <2>2, <2>3, <2>4
  <2>6. h = E(h, n + 1)
    BY <2>5
  <2>7. \E f : f = E(f, n + 1)
    <3> HIDE DEF h
    <3> QED
      BY <2>6
  <2>8. n + 1 \in Nat
    OBVIOUS
  <2> QED
    BY <2>7, <2>8, Zenon
<1>4. Len(pluginDirs) \in T
  <2> HIDE DEF T
  <2>1. \A n \in Nat : n < Len(pluginDirs) /\ n \in T => n + 1 \in T
    BY <1>3
  <2>2. \A n \in 0..Len(pluginDirs) : n \in T
    BY <1>0, <1>2, <2>1, AllNumbers
  <2> QED
    BY <1>0, <2>2
<1>5. iter = E(iter, Len(pluginDirs))
  BY <1>4
<1> HIDE DEF iter
<1>6. 0 \in G
  <2>1. {} \in SUBSET (1..Len(pluginDirs)) /\ 1..0 = {}
    OBVIOUS
  <2>2. iter[{}] = st
    BY <1>5, <2>1
  <2> QED
    BY <2>1, <2>2
<1>7. ASSUME NEW n \in Nat, n < Len(pluginDirs), n \in G PROVE n + 1 \in G
  <2>1. Max(1..n + 1) = n + 1 /\ 1..n + 1 # {} /\ (1..n + 1) \ {n + 1} = 1..n
    BY OneMore
  <2>2. 1..n + 1 \in SUBSET (1..Len(pluginDirs)) /\ pluginDirs[n + 1] \in Directories
    BY <1>0, <1>7
  <2>3. iter[1..n + 1] = OneDir(iter[1..n], pluginDirs[n + 1], cb)
    BY <1>5, <2>1, <2>2
  <2>4. PmGood(OneDir(iter[1..n], pluginDirs[n + 1], cb))
    <3>1. PmGood(iter[1..n])
      BY <1>7
    <3> QED
      BY <2>2, <3>1, OneDirKeeps
  <2> QED
    BY <2>3, <2>4
<1>8. Len(pluginDirs) \in G
  <2> HIDE DEF G
  <2>1. \A n \in Nat : n < Len(pluginDirs) /\ n \in G => n + 1 \in G
    BY <1>7
  <2>2. \A n \in 0..Len(pluginDirs) : n \in G
    BY <1>0, <1>6, <2>1, AllNumbers
  <2> QED
    BY <1>0, <2>2
<1> QED
  BY <1>1, <1>8

\* A plugin of the program itself has no handle.
LEMMA InProcessKeeps ==
  ASSUME NEW st, PmGood(st), NEW how \in Outcomes
  PROVE  PmGood(TryCreate(st, InProcess, NoHandle, how))
<1> DEFINE p == [path |-> InProcess, handle |-> NoHandle]
           ps == st.plugins
           qs == Append(ps, p)
           n == Len(ps)
           H(f, k) == f[k].handle
<1>0. /\ st = [plugins |-> ps, opened |-> st.opened, leaked |-> st.leaked,
                closedEarly |-> st.closedEarly, thrown |-> st.thrown]
      /\ ps \in PluginSeq /\ st.opened \in Counts /\ st.leaked \in Counts
      /\ st.closedEarly \in Counts /\ st.thrown \in BOOLEAN
      /\ HandlesOf(ps, st.opened, st.leaked, st.closedEarly)
  BY GoodParts
<1>1. /\ n \in Nat /\ DOMAIN ps = 1..n
      /\ p \in [path : Libraries \cup {InProcess}, handle : Libraries \cup {NoHandle}]
  BY <1>0 DEF PluginSeq
<1>2. qs \in PluginSeq /\ DOMAIN qs = 1..n + 1 /\ qs[n + 1] = p /\ \A i \in 1..n : qs[i] = ps[i]
  BY <1>0, <1>1 DEF PluginSeq
<1>3. H(qs, n + 1) \notin Libraries
  BY <1>2, PmAssumption
<1>4. ASSUME NEW i \in DOMAIN qs, H(qs, i) \in Libraries PROVE i \in 1..n
  BY <1>1, <1>2, <1>3, <1>4
<1>5. \A i \in DOMAIN qs : H(qs, i) \in Libraries => qs[i].path = H(qs, i)
  BY <1>0, <1>1, <1>2, <1>4 DEF HandlesOf
<1>6. \A i, j \in DOMAIN qs : H(qs, i) \in Libraries /\ H(qs, i) = H(qs, j) => i = j
  BY <1>0, <1>1, <1>2, <1>4 DEF HandlesOf
<1>7. \A l \in Libraries : Held(qs, l) <=> Held(ps, l)
  <2> SUFFICES ASSUME NEW l \in Libraries PROVE Held(qs, l) <=> Held(ps, l)
    OBVIOUS
  <2>1. Held(ps, l) => Held(qs, l)
    BY <1>1, <1>2 DEF Held
  <2>2. ASSUME Held(qs, l) PROVE Held(ps, l)
    <3>1. PICK i \in DOMAIN qs : H(qs, i) = l
      BY <2>2 DEF Held
    <3>2. i \in 1..n
      BY <1>4, <3>1
    <3> QED
      BY <1>1, <1>2, <3>1, <3>2 DEF Held
  <2> QED
    BY <2>1, <2>2
<1>8. HandlesOf(qs, st.opened, st.leaked, st.closedEarly)
  <2> HIDE DEF qs
  <2> QED
    BY <1>0, <1>2, <1>5, <1>6, <1>7 DEF HandlesOf
<1>9. CASE how = "rejected"
  BY <1>9 DEF TryCreate
<1>10. CASE how # "rejected"
  <2> DEFINE x == TryCreate(st, InProcess, NoHandle, how)
             t == IF how = "thrown" THEN TRUE ELSE st.thrown
  <2>1. x = [[st EXCEPT !.plugins = qs] EXCEPT !.thrown = t]
    <3>1. CASE how = "thrown"
      BY <3>1 DEF TryCreate, Entry
    <3>2. CASE how = "created"
      <4>1. x = [st EXCEPT !.plugins = qs] /\ t = st.thrown
        BY <3>2 DEF TryCreate, Entry
      <4> HIDE DEF x, qs, t
      <4> QED
        BY <1>0, <4>1
    <3> QED
      BY <1>10, <3>1, <3>2 DEF Outcomes
  <2>2. t \in BOOLEAN
    BY <1>0
  <2> HIDE DEF qs, t, x
  <2>3. x = [plugins |-> qs, opened |-> st.opened, leaked |-> st.leaked,
             closedEarly |-> st.closedEarly, thrown |-> t]
    BY <1>0, <2>1
  <2>4. PmGood(x)
    BY <1>0, <1>2, <1>8, <2>2, <2>3 DEF PmGood, PmStates
  <2> QED
    BY <2>4 DEF x
<1> QED
  BY <1>9, <1>10

\* A library that is held once is counted once.
LEMMA HoldersCounted ==
  ASSUME NEW ps, NEW opn, NEW lkd, NEW erl, HandlesOf(ps, opn, lkd, erl), NEW l \in Libraries
  PROVE  LET holders == {i \in DOMAIN ps : ps[i].handle = l}
         IN Cardinality(holders) = IF Held(ps, l) THEN 1 ELSE 0
<1> DEFINE holders == {i \in DOMAIN ps : ps[i].handle = l}
<1>1. CASE Held(ps, l)
  <2>1. PICK i \in DOMAIN ps : ps[i].handle = l
    BY <1>1 DEF Held
  <2>2. holders = {i}
    BY <2>1 DEF HandlesOf
  <2> QED
    BY <1>1, <2>2, FS_Singleton
<1>2. CASE ~Held(ps, l)
  <2>1. holders = {}
    BY <1>2 DEF Held
  <2> QED
    BY <1>2, <2>1, FS_EmptySet
<1> QED
  BY <1>1, <1>2

\* Where the handles are accounted for, they are so as the run checks it.
LEMMA PmInvTells == PmInv => HandlesAccountedFor
<1> SUFFICES ASSUME PmInv, NEW l \in Libraries
             PROVE  LET held == Cardinality({i \in DOMAIN plugins : plugins[i].handle = l})
                    IN /\ held <= 1 /\ opened[l] = held + leaked[l] - closedEarly[l]
                       /\ closedEarly[l] <= IF pmState = "gone" THEN 1 ELSE held
  BY DEF HandlesAccountedFor
<1> DEFINE held == Cardinality({i \in DOMAIN plugins : plugins[i].handle = l})
<1>1. CASE pmState = "gone"
  <2>1. {i \in DOMAIN plugins : plugins[i].handle = l} = {}
    BY <1>1 DEF PmInv
  <2>2. held = 0
    BY <2>1, FS_EmptySet
  <2> HIDE DEF held
  <2> QED
    BY <1>1, <2>2 DEF PmInv, held
<1>2. CASE pmState # "gone"
  <2>1. HandlesOf(plugins, opened, leaked, closedEarly)
    BY <1>2 DEF PmInv
  <2>2. held = IF Held(plugins, l) THEN 1 ELSE 0
    BY <2>1, HoldersCounted
  <2> HIDE DEF held
  <2>3. /\ opened[l] = held + leaked[l] - closedEarly[l] /\ closedEarly[l] <= held
        /\ held <= 1
    BY <2>1, <2>2 DEF HandlesOf
  <2> QED
    BY <1>2, <2>3 DEF held
<1> QED
  BY <1>1, <1>2

\* A call that loads ends as the attempts left it.
LEMMA LoadKeeps ==
  ASSUME PmInv, NEW st, PmGood(st), Load(st)
  PROVE  PmInv'
BY DEF PmGood, PmInv, Load

\* The destructor closes what is held, also what was closed before.
LEMMA DestroyKeeps ==
  ASSUME PmInv, DestroyManager
  PROVE  PmInv'
<1>0. pmState = "up" /\ pmState' = "gone" /\ plugins' = <<>>
      /\ UNCHANGED <<pluginDirs, leaked, closedEarly>>
  BY DEF DestroyManager
<1>1. HandlesOf(plugins, opened, leaked, closedEarly)
  BY <1>0 DEF PmInv
<1>2. ASSUME NEW l \in Libraries
      PROVE  /\ opened'[l] = leaked[l] - closedEarly[l]
             /\ leaked[l] \in Int /\ closedEarly[l] \in Int /\ closedEarly[l] <= 1
  <2> DEFINE c == Cardinality({i \in DOMAIN plugins : plugins[i].handle = l})
  <2>1. c = IF Held(plugins, l) THEN 1 ELSE 0
    BY <1>1, HoldersCounted
  <2>2. opened'[l] = opened[l] - c
    BY DEF DestroyManager
  <2>3. /\ opened[l] = (IF Held(plugins, l) THEN 1 ELSE 0) + leaked[l] - closedEarly[l]
        /\ leaked[l] \in Int /\ closedEarly[l] \in Int
        /\ closedEarly[l] <= IF Held(plugins, l) THEN 1 ELSE 0
    BY <1>1 DEF HandlesOf, Counts
  <2> HIDE DEF c
  <2> QED
    BY <2>1, <2>2, <2>3
<1> QED
  BY <1>0, <1>2 DEF PmInv

\* Every step keeps the handles accounted for.
LEMMA PmStep == PmInv /\ [PmNext]_pmVars => PmInv'
<1> SUFFICES ASSUME PmInv, [PmNext]_pmVars PROVE PmInv'
  OBVIOUS
<1>0. pluginDirs \in Seq(Directories) /\ (pmState = "up" => PmGood(Now))
  BY DEF PmInv, PmGood, PmStates, Now, HandlesOf
<1>1. CASE LoadPlugin
  <2>1. PICK l \in Libraries, answer \in Answers : Load(TryLoad(Now, l, answer))
    BY <1>1 DEF LoadPlugin
  <2>2. PmGood(TryLoad(Now, l, answer))
    BY <1>0, <2>1, AttemptKeeps DEF Load
  <2> QED
    BY <2>1, <2>2, LoadKeeps
<1>2. CASE LoadPlugins
  <2>1. PICK cb \in Callbacks : Load(LoadDirs(Now, cb))
    BY <1>2 DEF LoadPlugins
  <2>2. PmGood(LoadDirs(Now, cb))
    BY <1>0, <2>1, DirectoriesKeep DEF Load
  <2> QED
    BY <2>1, <2>2, LoadKeeps
<1>3. CASE LoadPlib
  <2>1. PICK how \in Outcomes : Load(TryCreate(Now, InProcess, NoHandle, how))
    BY <1>3 DEF LoadPlib
  <2>2. PmGood(TryCreate(Now, InProcess, NoHandle, how))
    BY <1>0, <2>1, InProcessKeeps DEF Load
  <2> QED
    BY <2>1, <2>2, LoadKeeps
<1>4. ASSUME NEW dirs \in Seq(Directories), AddDirs(dirs), pmState' # "gone" PROVE PmInv'
  <2>1. pluginDirs \o dirs \in Seq(Directories)
    BY <1>0
  <2> QED
    BY <1>4, <2>1 DEF AddDirs, PmInv
<1>5. CASE AddPluginDir
  <2>1. PICK d \in Directories : AddDirs(<<d>>)
    BY <1>5 DEF AddPluginDir
  <2>2. <<d>> \in Seq(Directories) /\ pmState' # "gone"
    BY <1>5, <2>1 DEF AddPluginDir, AddDirs
  <2> QED
    BY <1>4, <2>1, <2>2
<1>6. CASE AddPluginDirsFromEnvVar
  <2>1. PICK dirs \in BoundedSeq(Directories, PmMaxDirs), terminated \in BOOLEAN :
          /\ ~terminated => dirs # <<>>
          /\ AddDirs(dirs)
          /\ pmState' = IF terminated THEN "up" ELSE "overrun"
    BY <1>6 DEF AddPluginDirsFromEnvVar
  <2>2. dirs \in Seq(Directories)
    <3>1. PmMaxDirs \in Nat
      BY PmAssumption
    <3>2. PICK k \in 0..PmMaxDirs : dirs \in [1..k -> Directories]
      BY <2>1, Zenon DEF BoundedSeq, SeqOf
    <3> QED
      BY <3>1, <3>2
  <2> QED
    BY <1>4, <2>1, <2>2
<1>7. CASE DestroyManager
  BY <1>7, DestroyKeeps
<1>8. CASE UNCHANGED pmVars
  BY <1>8 DEF PmInv, pmVars
<1> QED
  BY <1>1, <1>2, <1>3, <1>5, <1>6, <1>7, <1>8 DEF PmNext

\* However attempts to load end, in whatever order directories are searched, found
\* missing and left by exceptions, no two plugins hold the same library, and it is open
\* as often as they hold it, once more for each late rejection, and once less if an
\* exception has closed it under its plugin (PluginManager::tryLoadPlugin,
\* tryCreatePluginInfo).
THEOREM HandlesAreAccountedFor == PmSpec => []HandlesAccountedFor
<1>1. PmInit => PmInv
  <2> SUFFICES ASSUME PmInit PROVE PmInv
    OBVIOUS
  <2>1. plugins = <<>> /\ plugins \in PluginSeq /\ \A l \in Libraries : ~Held(plugins, l)
    BY DEF PmInit, PluginSeq, Held
  <2>2. /\ opened \in Counts /\ leaked \in Counts /\ closedEarly \in Counts
        /\ \A l \in Libraries : opened[l] = 0 /\ leaked[l] = 0 /\ closedEarly[l] = 0
    BY DEF PmInit, Counts
  <2>3. pluginDirs \in Seq(Directories) /\ pmState = "up"
    BY DEF PmInit
  <2> QED
    BY <2>1, <2>2, <2>3 DEF PmInv, HandlesOf
<1> QED
  BY <1>1, PmStep, PmInvTells, PTL DEF PmSpec

-----------------------------------------------------------------------------
(* FlatMap                                                                   *)

\* The vectors of a flat_map.
FmSeq == Seq(FmKeys \X Nat)

\* The binary search finds the place before which the keys are `before', if there is one.
LEMMA BoundFinds ==
  ASSUME NEW c \in FmSeq, NEW before, NEW p \in 1..Len(c) + 1,
         \A i \in 1..Len(c) : KeyAt(c, i) \in before <=> i < p
  PROVE  Bound(c, before) = p
<1> DEFINE n == Len(c) + 1
           R == (1..n) \X (1..n)
           E(f) == [range \in R |->
                      LET lo == range[1]
                          hi == range[2]
                          mid == (lo + hi) \div 2
                      IN IF lo >= hi THEN lo
                         ELSE IF KeyAt(c, mid) \in before THEN f[<<mid + 1, hi>>]
                         ELSE f[<<lo, mid>>]]
           search == CHOOSE f : f = E(f)
           g == [range \in R |->
                   IF range[1] >= range[2] \/ p < range[1] THEN range[1]
                   ELSE IF p > range[2] THEN range[2] ELSE p]
           M(lo, hi) == (lo + hi) \div 2
<1>0. Len(c) \in Nat /\ n \in Nat /\ n >= 1 /\ n = Len(c) + 1 /\ p \in 1..n
  BY DEF FmSeq
<1>1. Bound(c, before) = search[<<1, n>>]
  BY Zenon DEF Bound
<1>2. \A lo, hi \in 1..n : lo < hi =>
        M(lo, hi) \in 1..Len(c) /\ lo <= M(lo, hi) /\ M(lo, hi) < hi /\ M(lo, hi) + 1 \in 1..n
  BY <1>0
<1>3. \A lo, hi \in 1..n : g[<<lo, hi>>] = E(g)[<<lo, hi>>]
  <2> SUFFICES ASSUME NEW lo \in 1..n, NEW hi \in 1..n
               PROVE  g[<<lo, hi>>] = E(g)[<<lo, hi>>]
    OBVIOUS
  <2> DEFINE mid == M(lo, hi)
  <2>1. CASE lo >= hi
    BY <2>1
  <2>2. CASE lo < hi /\ KeyAt(c, mid) \in before
    <3>1. mid \in 1..Len(c) /\ lo <= mid /\ mid < hi /\ mid + 1 \in 1..n /\ mid < p
      BY <1>2, <2>2
    <3>2. E(g)[<<lo, hi>>] = g[<<mid + 1, hi>>]
      BY <1>0, <2>2
    <3>3. g[<<mid + 1, hi>>] = IF p > hi THEN hi ELSE p
      BY <1>0, <3>1
    <3>4. g[<<lo, hi>>] = IF p > hi THEN hi ELSE p
      BY <1>0, <2>2, <3>1
    <3> QED
      BY <3>2, <3>3, <3>4
  <2>3. CASE lo < hi /\ KeyAt(c, mid) \notin before
    <3>1. mid \in 1..Len(c) /\ lo <= mid /\ mid < hi /\ mid \in 1..n /\ ~(mid < p)
      BY <1>0, <1>2, <2>3
    <3>2. E(g)[<<lo, hi>>] = g[<<lo, mid>>]
      <4>1. <<lo, hi>> \in R /\ <<lo, hi>>[1] = lo /\ <<lo, hi>>[2] = hi
        BY <1>0
      <4>2. E(g)[<<lo, hi>>] = IF lo >= hi THEN lo
                               ELSE IF KeyAt(c, mid) \in before THEN g[<<mid + 1, hi>>]
                               ELSE g[<<lo, mid>>]
        <5> HIDE DEF g
        <5> QED
          BY <4>1
      <4>3. ~(lo >= hi)
        BY <2>3
      <4> QED
        BY <2>3, <4>2, <4>3
    <3>3. g[<<lo, mid>>] = IF p < lo THEN lo ELSE p
      BY <1>0, <3>1
    <3>4. g[<<lo, hi>>] = IF p < lo THEN lo ELSE p
      BY <1>0, <2>3, <3>1
    <3> QED
      BY <3>2, <3>3, <3>4
  <2> QED
    BY <1>0, <2>1, <2>2, <2>3
<1>4. search = E(search)
  <2>1. g = E(g)
    <3>1. ASSUME NEW r \in R PROVE g[r] = E(g)[r]
      <4>1. PICK lo \in 1..n, hi \in 1..n : r = <<lo, hi>>
        OBVIOUS
      <4> HIDE DEF g, E
      <4> QED
        BY <1>3, <4>1
    <3>2. g = [r \in R |-> g[r]] /\ E(g) = [r \in R |-> E(g)[r]]
      <4> HIDE DEF n, R
      <4> QED
        OBVIOUS
    <3> HIDE DEF g, E, R
    <3> QED
      BY <3>1, <3>2
  <2>2. \E f : f = E(f)
    <3> HIDE DEF g
    <3> QED
      BY <2>1
  <2> QED
    BY <2>2
<1> HIDE DEF search, g
<1> DEFINE D == {d \in 0..n :
                   \A lo, hi \in 1..n : hi - lo <= d => search[<<lo, hi>>] = g[<<lo, hi>>]}
<1>5. \A lo, hi \in 1..n : lo >= hi => search[<<lo, hi>>] = g[<<lo, hi>>]
  BY <1>4 DEF g
<1>6. 0 \in D
  BY <1>0, <1>5
<1>7. ASSUME NEW d \in Nat, d < n, d \in D PROVE d + 1 \in D
  <2> SUFFICES ASSUME NEW lo \in 1..n, NEW hi \in 1..n, hi - lo <= d + 1
               PROVE  search[<<lo, hi>>] = g[<<lo, hi>>]
    BY <1>0, <1>7
  <2> DEFINE mid == M(lo, hi)
  <2>1. CASE lo >= hi
    BY <1>5, <2>1
  <2>2. CASE lo < hi
    <3>1. mid \in 1..n /\ mid + 1 \in 1..n /\ hi - (mid + 1) <= d /\ mid - lo <= d
      BY <1>0, <1>2, <2>2
    <3>2. search[<<mid + 1, hi>>] = g[<<mid + 1, hi>>] /\ search[<<lo, mid>>] = g[<<lo, mid>>]
      BY <1>7, <3>1
    <3>3. search[<<lo, hi>>] =
            IF KeyAt(c, mid) \in before THEN search[<<mid + 1, hi>>] ELSE search[<<lo, mid>>]
      <4>1. <<lo, hi>> \in R /\ <<lo, hi>>[1] = lo /\ <<lo, hi>>[2] = hi /\ ~(lo >= hi)
        BY <2>2
      <4>2. search[<<lo, hi>>] = E(search)[<<lo, hi>>]
        BY <1>4
      <4>3. E(search)[<<lo, hi>>]
              = IF KeyAt(c, mid) \in before THEN search[<<mid + 1, hi>>] ELSE search[<<lo, mid>>]
        BY <4>1
      <4> QED
        BY <4>2, <4>3
    <3>4. g[<<lo, hi>>] = IF KeyAt(c, mid) \in before THEN g[<<mid + 1, hi>>] ELSE g[<<lo, mid>>]
      <4>1. <<lo, hi>> \in R /\ <<lo, hi>>[1] = lo /\ <<lo, hi>>[2] = hi /\ ~(lo >= hi)
        BY <2>2
      <4>2. g[<<lo, hi>>] = E(g)[<<lo, hi>>]
        <5> HIDE DEF E, g
        <5> QED
          BY <1>3
      <4>3. E(g)[<<lo, hi>>]
              = IF KeyAt(c, mid) \in before THEN g[<<mid + 1, hi>>] ELSE g[<<lo, mid>>]
        BY <4>1
      <4> QED
        BY <4>2, <4>3
    <3> QED
      BY <3>2, <3>3, <3>4
  <2> QED
    BY <2>1, <2>2
<1>8. n \in D
  <2> HIDE DEF D
  <2>1. \A d \in Nat : d < n /\ d \in D => d + 1 \in D
    BY <1>7
  <2>2. \A d \in 0..n : d \in D
    BY <1>0, <1>6, <2>1, AllNumbers
  <2> QED
    BY <1>0, <2>2
<1>9. search[<<1, n>>] = g[<<1, n>>]
  BY <1>0, <1>8
<1>10. g[<<1, n>>] = p
  BY <1>0 DEF g
<1> QED
  BY <1>1, <1>9, <1>10

\* The keys are in order and none is there twice; and the keys.
Strict(c) == \A i, j \in 1..Len(c) : i < j => KeyAt(c, i) < KeyAt(c, j)
KeysOf(c) == {KeyAt(c, i) : i \in 1..Len(c)}

\* The vector holds what the map maps, in the order of the keys.
MapOf(c, ref) ==
  /\ c \in FmSeq /\ Strict(c)
  /\ DOMAIN ref = KeysOf(c)
  /\ \A i \in 1..Len(c) : ref[KeyAt(c, i)] = c[i][2]

\* Every container holds what the std::map holds.
FmInv == /\ DOMAIN fm = FlatMaps /\ DOMAIN fmRef = FlatMaps
         /\ \A m \in FlatMaps : MapOf(fm[m], fmRef[m])

\* Keys are integers, values numbers.
LEMMA FmTypes ==
  ASSUME NEW c \in FmSeq
  PROVE  /\ Len(c) \in Nat /\ DOMAIN c = 1..Len(c)
         /\ \A i \in 1..Len(c) :
               c[i] \in FmKeys \X Nat /\ KeyAt(c, i) \in FmKeys /\ KeyAt(c, i) \in Int
                                 /\ c[i][2] \in Nat
<1>1. Len(c) \in Nat /\ DOMAIN c = 1..Len(c)
  BY DEF FmSeq
<1>2. \A i \in 1..Len(c) : c[i] \in FmKeys \X Nat
  BY DEF FmSeq
<1> QED
  BY <1>1, <1>2, FmAssumption DEF KeyAt

\* The bounds of a key: what is in front of them is smaller, and not larger.
LEMMA LowerBoundIs ==
  ASSUME NEW c \in FmSeq, Strict(c), NEW k \in FmKeys
  PROVE  /\ LowerBound(c, k) \in 1..Len(c) + 1
         /\ \A i \in 1..Len(c) : KeyAt(c, i) < k <=> i < LowerBound(c, k)
<1> DEFINE I == {i \in 1..Len(c) + 1 : i = Len(c) + 1 \/ ~(KeyAt(c, i) < k)}
           before == {at \in FmKeys : at < k}
<1>0. Len(c) \in Nat /\ \A i \in 1..Len(c) : KeyAt(c, i) \in FmKeys /\ KeyAt(c, i) \in Int
  BY FmTypes
<1>1. I \in SUBSET Nat /\ Len(c) + 1 \in I
  BY <1>0
<1>2. PICK p \in I : \A j \in I : p <= j
  <2> HIDE DEF I
  <2> QED
    BY <1>1, LeastOf
<1>3. \A i \in 1..Len(c) : i < p => KeyAt(c, i) < k
  BY <1>0, <1>2
<1>4. ASSUME NEW i \in 1..Len(c), ~(i < p) PROVE ~(KeyAt(c, i) < k)
  <2>1. p \in 1..Len(c) /\ ~(KeyAt(c, p) < k) /\ p <= i
    BY <1>0, <1>2, <1>4
  <2>2. p < i => KeyAt(c, p) < KeyAt(c, i)
    BY <2>1 DEF Strict
  <2>3. KeyAt(c, i) \in Int /\ KeyAt(c, p) \in Int /\ k \in Int
    BY <1>0, <2>1, FmAssumption
  <2>4. CASE p = i
    BY <2>1, <2>4
  <2>5. CASE p # i
    BY <1>0, <2>1, <2>2, <2>3, <2>5
  <2> QED
    BY <2>4, <2>5
<1>5. \A i \in 1..Len(c) : KeyAt(c, i) \in before <=> i < p
  BY <1>0, <1>3, <1>4
<1>6. p \in 1..Len(c) + 1
  BY <1>2
<1>7. LowerBound(c, k) = p
  <2> HIDE DEF before
  <2>1. Bound(c, before) = p
    BY <1>5, <1>6, BoundFinds
  <2> QED
    BY <2>1 DEF LowerBound, before
<1> QED
  BY <1>3, <1>4, <1>6, <1>7

\* The same of the other bound.
LEMMA UpperBoundIs ==
  ASSUME NEW c \in FmSeq, Strict(c), NEW k \in FmKeys
  PROVE  /\ UpperBound(c, k) \in 1..Len(c) + 1
         /\ \A i \in 1..Len(c) : KeyAt(c, i) <= k <=> i < UpperBound(c, k)
<1> DEFINE I == {i \in 1..Len(c) + 1 : i = Len(c) + 1 \/ ~(KeyAt(c, i) <= k)}
           before == {at \in FmKeys : at <= k}
<1>0. Len(c) \in Nat /\ \A i \in 1..Len(c) : KeyAt(c, i) \in FmKeys /\ KeyAt(c, i) \in Int
  BY FmTypes
<1>1. I \in SUBSET Nat /\ Len(c) + 1 \in I
  BY <1>0
<1>2. PICK p \in I : \A j \in I : p <= j
  <2> HIDE DEF I
  <2> QED
    BY <1>1, LeastOf
<1>3. \A i \in 1..Len(c) : i < p => KeyAt(c, i) <= k
  BY <1>0, <1>2
<1>4. ASSUME NEW i \in 1..Len(c), ~(i < p) PROVE ~(KeyAt(c, i) <= k)
  <2>1. p \in 1..Len(c) /\ ~(KeyAt(c, p) <= k) /\ p <= i
    BY <1>0, <1>2, <1>4
  <2>2. p < i => KeyAt(c, p) < KeyAt(c, i)
    BY <2>1 DEF Strict
  <2>3. KeyAt(c, i) \in Int /\ KeyAt(c, p) \in Int /\ k \in Int
    BY <1>0, <2>1, FmAssumption
  <2>4. CASE p = i
    BY <2>1, <2>4
  <2>5. CASE p # i
    BY <1>0, <2>1, <2>2, <2>3, <2>5
  <2> QED
    BY <2>4, <2>5
<1>5. \A i \in 1..Len(c) : KeyAt(c, i) \in before <=> i < p
  BY <1>0, <1>3, <1>4
<1>6. p \in 1..Len(c) + 1
  BY <1>2
<1>7. UpperBound(c, k) = p
  <2> HIDE DEF before
  <2>1. Bound(c, before) = p
    BY <1>5, <1>6, BoundFinds
  <2> QED
    BY <2>1 DEF UpperBound, before
<1> QED
  BY <1>3, <1>4, <1>6, <1>7

\* A key that is there is found where it is.
LEMMA FoundAt ==
  ASSUME NEW c \in FmSeq, Strict(c), NEW i \in 1..Len(c)
  PROVE  /\ LowerBound(c, KeyAt(c, i)) = i /\ UpperBound(c, KeyAt(c, i)) = i + 1
         /\ IsAt(c, i, KeyAt(c, i))
<1> DEFINE k == KeyAt(c, i)
           lo == LowerBound(c, k)
           hi == UpperBound(c, k)
<1>0. Len(c) \in Nat /\ k \in FmKeys /\ \A j \in 1..Len(c) : KeyAt(c, j) \in Int
  BY FmTypes
<1>1. /\ \A j \in 1..Len(c) : i < j => k < KeyAt(c, j)
      /\ \A j \in 1..Len(c) : j < i => KeyAt(c, j) < k
  BY DEF Strict
<1>2. lo \in 1..Len(c) + 1 /\ \A j \in 1..Len(c) : KeyAt(c, j) < k <=> j < lo
  <2> HIDE DEF k
  <2> QED
    BY <1>0, LowerBoundIs
<1>3. hi \in 1..Len(c) + 1 /\ \A j \in 1..Len(c) : KeyAt(c, j) <= k <=> j < hi
  <2> HIDE DEF k
  <2> QED
    BY <1>0, UpperBoundIs
<1> HIDE DEF lo, hi
<1>4. lo = i
  <2>1. ~(i < lo)
    BY <1>0, <1>2
  <2>2. lo < i => FALSE
    BY <1>0, <1>1, <1>2
  <2> QED
    BY <1>0, <1>2, <2>1, <2>2
<1>5. hi = i + 1
  <2>1. i < hi
    BY <1>0, <1>3
  <2>2. i + 1 < hi => FALSE
    <3> SUFFICES ASSUME i + 1 < hi PROVE FALSE
      OBVIOUS
    <3>1. i + 1 \in 1..Len(c) /\ k < KeyAt(c, i + 1)
      BY <1>0, <1>1, <1>3
    <3> QED
      BY <1>0, <1>3, <3>1
  <2> QED
    BY <1>0, <1>3, <2>1, <2>2
<1>6. IsAt(c, i, k)
  BY <1>0 DEF IsAt
<1> QED
  BY <1>4, <1>5, <1>6 DEF lo, hi

\* A key that is not there is missed, and both bounds are the place it would have.
LEMMA NotFound ==
  ASSUME NEW c \in FmSeq, Strict(c), NEW k \in FmKeys \ KeysOf(c)
  PROVE  LowerBound(c, k) = UpperBound(c, k) /\ ~IsAt(c, LowerBound(c, k), k)
<1> DEFINE lo == LowerBound(c, k)
           hi == UpperBound(c, k)
<1>0. Len(c) \in Nat /\ k \in Int /\ \A j \in 1..Len(c) : KeyAt(c, j) \in Int
  BY FmTypes, FmAssumption
<1>1. \A j \in 1..Len(c) : KeyAt(c, j) # k
  BY DEF KeysOf
<1>2. lo \in 1..Len(c) + 1 /\ \A j \in 1..Len(c) : KeyAt(c, j) < k <=> j < lo
  BY LowerBoundIs
<1>3. hi \in 1..Len(c) + 1 /\ \A j \in 1..Len(c) : KeyAt(c, j) <= k <=> j < hi
  BY UpperBoundIs
<1> HIDE DEF lo, hi
<1>4. \A j \in 1..Len(c) : j < lo <=> j < hi
  BY <1>0, <1>1, <1>2, <1>3
<1>5. lo = hi
  <2>1. ~(lo < hi)
    BY <1>0, <1>2, <1>3, <1>4
  <2>2. ~(hi < lo)
    BY <1>0, <1>2, <1>3, <1>4
  <2> QED
    BY <1>2, <1>3, <2>1, <2>2
<1>6. ~IsAt(c, lo, k)
  <2> SUFFICES ASSUME lo <= Len(c), ~(k < KeyAt(c, lo)) PROVE FALSE
    BY DEF IsAt
  <2>1. lo \in 1..Len(c)
    BY <1>0, <1>2
  <2>2. KeyAt(c, lo) <= k /\ KeyAt(c, lo) # k /\ KeyAt(c, lo) \in Int
    BY <1>0, <1>1, <2>1
  <2>3. KeyAt(c, lo) < k
    BY <1>0, <2>2
  <2> QED
    BY <1>0, <1>2, <2>1, <2>3
<1> QED
  BY <1>5, <1>6 DEF lo, hi

\* What an insertion into a sequence leaves where.
LEMMA InsertAtIs ==
  ASSUME NEW c \in FmSeq, NEW i \in 1..Len(c) + 1, NEW e \in FmKeys \X Nat
  PROVE  LET d == InsertAt(c, i, e)
         IN /\ d \in FmSeq /\ Len(d) = Len(c) + 1 /\ d[i] = e
            /\ \A j \in 1..Len(c) : IF j < i THEN d[j] = c[j] ELSE d[j + 1] = c[j]
<1> DEFINE a == SubSeq(c, 1, i - 1)
           b == SubSeq(c, i, Len(c))
           d == InsertAt(c, i, e)
           S == FmKeys \X Nat
<1>0. c \in Seq(S) /\ Len(c) \in Nat /\ i \in Nat /\ i >= 1 /\ i <= Len(c) + 1 /\ e \in S
  BY DEF FmSeq
<1> HIDE DEF S
<1>1. a \in Seq(S) /\ Len(a) = i - 1 /\ \A j \in 1..i - 1 : a[j] = c[j]
  BY <1>0
<1>2. b \in Seq(S) /\ Len(b) = Len(c) - i + 1 /\ \A j \in 1..Len(c) - i + 1 : b[j] = c[i + j - 1]
  BY <1>0
<1>3. d = a \o <<e>> \o b
  BY DEF InsertAt
<1> HIDE DEF a, b, d
<1> DEFINE h == a \o <<e>>
<1>4. h \in Seq(S) /\ Len(h) = i /\ h[i] = e /\ \A j \in 1..i - 1 : h[j] = c[j]
  BY <1>0, <1>1
<1> HIDE DEF h
<1>5. /\ d \in Seq(S) /\ Len(d) = Len(c) + 1 /\ \A j \in 1..i : d[j] = h[j]
      /\ \A j \in 1..Len(b) : d[i + j] = b[j]
  <2>1. /\ h \o b \in Seq(S) /\ Len(h \o b) = Len(h) + Len(b)
        /\ \A j \in 1..Len(h) : (h \o b)[j] = h[j]
        /\ \A j \in 1..Len(b) : (h \o b)[Len(h) + j] = b[j]
    <3>1. h \in Seq(S) /\ b \in Seq(S)
      BY <1>2, <1>4
    <3> QED
      BY ONLY <3>1, ConcatIs
  <2>2. d = h \o b
    BY <1>3 DEF h
  <2>3. d \in Seq(S) /\ Len(d) = Len(c) + 1
    BY <1>0, <1>2, <1>4, <2>1, <2>2
  <2>4. \A j \in 1..i : d[j] = h[j]
    BY <1>0, <1>4, <2>1, <2>2
  <2>5. \A j \in 1..Len(b) : d[i + j] = b[j]
    BY <1>0, <1>4, <2>1, <2>2
  <2> QED
    BY <2>3, <2>4, <2>5
<1>6. d[i] = e /\ \A j \in 1..i - 1 : d[j] = c[j]
  BY <1>0, <1>4, <1>5
<1>7. ASSUME NEW j \in 1..Len(c), ~(j < i) PROVE d[j + 1] = c[j]
  <2>1. j - i + 1 \in 1..Len(b) /\ i + (j - i + 1) = j + 1 /\ i + (j - i + 1) - 1 = j
    BY <1>0, <1>2, <1>7
  <2>2. d[i + (j - i + 1)] = b[j - i + 1] /\ b[j - i + 1] = c[i + (j - i + 1) - 1]
    BY <1>2, <1>5, <2>1
  <2> QED
    BY <2>1, <2>2
<1>8. \A j \in 1..Len(c) : j < i => d[j] = c[j]
  BY <1>0, <1>6
<1> QED
  BY <1>5, <1>6, <1>7, <1>8 DEF d, FmSeq, S

\* What the removal of an element leaves where.
LEMMA RemoveAtIs ==
  ASSUME NEW c \in FmSeq, NEW i \in 1..Len(c)
  PROVE  LET d == RemoveAt(c, i)
         IN /\ d \in FmSeq /\ Len(d) = Len(c) - 1
            /\ \A j \in 1..Len(c) - 1 : d[j] = IF j < i THEN c[j] ELSE c[j + 1]
<1> DEFINE a == SubSeq(c, 1, i - 1)
           b == SubSeq(c, i + 1, Len(c))
           d == RemoveAt(c, i)
           S == FmKeys \X Nat
<1>0. c \in Seq(S) /\ Len(c) \in Nat /\ i \in Nat /\ i >= 1 /\ i <= Len(c)
  BY DEF FmSeq
<1> HIDE DEF S
<1>1. a \in Seq(S) /\ Len(a) = i - 1 /\ \A j \in 1..i - 1 : a[j] = c[j]
  BY <1>0
<1>2. b \in Seq(S) /\ Len(b) = Len(c) - i /\ \A j \in 1..Len(c) - i : b[j] = c[i + j]
  BY <1>0
<1>3. d = a \o b
  BY DEF RemoveAt
<1> HIDE DEF a, b, d
<1>5. /\ d \in Seq(S) /\ Len(d) = Len(c) - 1 /\ \A j \in 1..i - 1 : d[j] = a[j]
      /\ \A j \in 1..Len(b) : d[i - 1 + j] = b[j]
  <2>0. a \in Seq(S) /\ b \in Seq(S)
    BY <1>1, <1>2
  <2>1. /\ a \o b \in Seq(S) /\ Len(a \o b) = Len(a) + Len(b)
        /\ \A j \in 1..Len(a) : (a \o b)[j] = a[j]
        /\ \A j \in 1..Len(b) : (a \o b)[Len(a) + j] = b[j]
    BY <2>0, ConcatIs
  <2> QED
    BY <1>0, <1>1, <1>2, <1>3, <2>1
<1>7. ASSUME NEW j \in 1..Len(c) - 1, ~(j < i) PROVE d[j] = c[j + 1]
  <2>1. j - i + 1 \in 1..Len(b) /\ i - 1 + (j - i + 1) = j /\ i + (j - i + 1) = j + 1
    BY <1>0, <1>2, <1>7
  <2>2. d[i - 1 + (j - i + 1)] = b[j - i + 1] /\ b[j - i + 1] = c[i + (j - i + 1)]
    BY <1>2, <1>5, <2>1
  <2> QED
    BY <2>1, <2>2
<1>8. \A j \in 1..Len(c) - 1 : j < i => d[j] = c[j]
  BY <1>0, <1>1, <1>5
<1> QED
  BY <1>5, <1>7, <1>8 DEF d, FmSeq, S

\* A pair that is put at the lower bound of its key keeps the vector what it is.
LEMMA InsertMaps ==
  ASSUME NEW c, NEW ref, MapOf(c, ref), NEW k \in FmKeys \ KeysOf(c), NEW val \in Nat,
         NEW ref2, DOMAIN ref2 = DOMAIN ref \cup {k}, ref2[k] = val,
         \A j \in DOMAIN ref : ref2[j] = ref[j]
  PROVE  MapOf(InsertAt(c, LowerBound(c, k), <<k, val>>), ref2)
<1> DEFINE p == LowerBound(c, k)
           d == InsertAt(c, p, <<k, val>>)
           n == Len(c)
<1>0. /\ c \in FmSeq /\ n \in Nat /\ k \in Int /\ Strict(c)
      /\ \A i \in 1..n : KeyAt(c, i) \in Int /\ KeyAt(c, i) # k
  BY FmTypes, FmAssumption DEF MapOf, KeysOf
<1>1. p \in 1..n + 1 /\ \A i \in 1..n : KeyAt(c, i) < k <=> i < p
  BY <1>0, LowerBoundIs
<1> HIDE DEF p
<1>2. /\ d \in FmSeq /\ Len(d) = n + 1 /\ d[p] = <<k, val>>
      /\ \A j \in 1..n : IF j < p THEN d[j] = c[j] ELSE d[j + 1] = c[j]
  BY <1>0, <1>1, InsertAtIs
<1> HIDE DEF d
<1>3. KeyAt(d, p) = k /\ d[p][2] = val
  BY <1>2 DEF KeyAt
\* Which pair of the old vector a pair of the new one is.
<1>4. ASSUME NEW j \in 1..n + 1, j # p
      PROVE  \E i \in 1..n : d[j] = c[i] /\ KeyAt(d, j) = KeyAt(c, i)
                             /\ (j < p <=> i < p) /\ i = IF j < p THEN j ELSE j - 1
  <2>1. CASE j < p
    <3>1. j \in 1..n /\ d[j] = c[j]
      BY <1>0, <1>1, <1>2, <2>1
    <3> QED
      BY <2>1, <3>1 DEF KeyAt
  <2>2. CASE ~(j < p)
    <3>0. n \in Nat /\ p \in 1..n + 1 /\ j \in 1..n + 1 /\ j # p
      BY <1>0, <1>1, <1>4
    <3> HIDE DEF n
    <3>1. j - 1 \in 1..n /\ ~(j - 1 < p) /\ j - 1 + 1 = j
      BY ONLY <2>2, <3>0
    <3>2. d[j - 1 + 1] = c[j - 1]
      BY ONLY <1>2, <3>1
    <3> QED
      BY <2>2, <3>1, <3>2 DEF KeyAt
  <2> QED
    BY <2>1, <2>2
<1>5. Strict(d)
  <2> SUFFICES ASSUME NEW i \in 1..n + 1, NEW j \in 1..n + 1, i < j
               PROVE  KeyAt(d, i) < KeyAt(d, j)
    BY <1>2 DEF Strict
  <2>1. CASE i = p
    <3>1. PICK h \in 1..n : KeyAt(d, j) = KeyAt(c, h) /\ ~(h < p)
      BY <1>1, <1>4, <2>1
    <3> QED
      BY <1>0, <1>1, <1>3, <2>1, <3>1
  <2>2. CASE j = p
    <3>1. PICK h \in 1..n : KeyAt(d, i) = KeyAt(c, h) /\ h < p
      BY <1>1, <1>4, <2>2
    <3> QED
      BY <1>0, <1>1, <1>3, <2>2, <3>1
  <2>3. CASE i # p /\ j # p
    <3>1. PICK g \in 1..n : KeyAt(d, i) = KeyAt(c, g) /\ g = IF i < p THEN i ELSE i - 1
      BY <1>4, <2>3
    <3>2. PICK h \in 1..n : KeyAt(d, j) = KeyAt(c, h) /\ h = IF j < p THEN j ELSE j - 1
      BY <1>4, <2>3
    <3>3. g < h
      BY <1>1, <2>3, <3>1, <3>2
    <3> QED
      BY <1>0, <3>1, <3>2, <3>3 DEF Strict
  <2> QED
    BY <2>1, <2>2, <2>3
<1>6. KeysOf(d) = KeysOf(c) \cup {k}
  <2>1. ASSUME NEW j \in 1..n + 1 PROVE KeyAt(d, j) \in KeysOf(c) \cup {k}
    BY <1>3, <1>4 DEF KeysOf
  <2>2. ASSUME NEW i \in 1..n PROVE KeyAt(c, i) \in KeysOf(d)
    <3>1. i \in 1..n + 1 /\ i + 1 \in 1..n + 1 /\ (d[i] = c[i] \/ d[i + 1] = c[i])
      BY <1>0, <1>2
    <3> QED
      BY <1>2, <3>1 DEF KeysOf, KeyAt
  <2>3. k \in KeysOf(d)
    BY <1>1, <1>2, <1>3 DEF KeysOf
  <2>4. KeysOf(c) \subseteq KeysOf(d)
    BY <2>2 DEF KeysOf
  <2>5. KeysOf(d) \subseteq KeysOf(c) \cup {k}
    BY <1>2, <2>1 DEF KeysOf
  <2> QED
    BY <2>3, <2>4, <2>5
<1>7. ASSUME NEW j \in 1..n + 1 PROVE ref2[KeyAt(d, j)] = d[j][2]
  <2>1. CASE j = p
    BY <1>3, <2>1
  <2>2. CASE j # p
    <3>1. PICK i \in 1..n : d[j] = c[i] /\ KeyAt(d, j) = KeyAt(c, i)
      BY <1>4, <2>2
    <3>2. KeyAt(c, i) \in DOMAIN ref /\ ref[KeyAt(c, i)] = c[i][2]
      BY DEF MapOf, KeysOf
    <3> QED
      BY <3>1, <3>2
  <2> QED
    BY <2>1, <2>2
<1>8. DOMAIN ref2 = KeysOf(d)
  BY <1>6 DEF MapOf
<1> QED
  BY <1>2, <1>5, <1>7, <1>8 DEF MapOf, d, p

\* A pair that is taken out leaves the vector what it is.
LEMMA RemoveMaps ==
  ASSUME NEW c, NEW ref, MapOf(c, ref), NEW p \in 1..Len(c),
         NEW ref2, DOMAIN ref2 = DOMAIN ref \ {KeyAt(c, p)},
         \A k \in DOMAIN ref2 : ref2[k] = ref[k]
  PROVE  MapOf(RemoveAt(c, p), ref2)
<1> DEFINE d == RemoveAt(c, p)
           n == Len(c)
           From(j) == IF j < p THEN j ELSE j + 1
<1>0. c \in FmSeq /\ n \in Nat /\ Strict(c) /\ \A i \in 1..n : KeyAt(c, i) \in Int
  BY FmTypes DEF MapOf
<1>1. d \in FmSeq /\ Len(d) = n - 1 /\ \A j \in 1..n - 1 : d[j] = IF j < p THEN c[j] ELSE c[j + 1]
  BY <1>0, RemoveAtIs
<1> HIDE DEF d
<1>2. \A j \in 1..n - 1 : From(j) \in 1..n /\ From(j) # p
  BY <1>0
<1>3. \A j \in 1..n - 1 : d[j] = c[From(j)] /\ KeyAt(d, j) = KeyAt(c, From(j))
  BY <1>0, <1>1 DEF KeyAt
<1>4. \A i, j \in 1..n - 1 : i < j => From(i) < From(j)
  BY <1>0
<1>5. \A i \in 1..n : i # p => \E j \in 1..n - 1 : From(j) = i
  <2> SUFFICES ASSUME NEW i \in 1..n, i # p PROVE \E j \in 1..n - 1 : From(j) = i
    OBVIOUS
  <2>1. CASE i < p
    BY <1>0, <2>1
  <2>2. CASE ~(i < p)
    <3>1. i - 1 \in 1..n - 1 /\ From(i - 1) = i
      BY <1>0, <2>2
    <3> QED
      BY <3>1
  <2> QED
    BY <2>1, <2>2
<1>6. \A i \in 1..n : KeyAt(c, i) = KeyAt(c, p) => i = p
  BY <1>0 DEF Strict
<1> HIDE DEF From
<1>7. Strict(d)
  BY <1>0, <1>1, <1>2, <1>3, <1>4 DEF Strict
<1>8. KeysOf(d) = KeysOf(c) \ {KeyAt(c, p)}
  <2>1. ASSUME NEW j \in 1..n - 1 PROVE KeyAt(d, j) \in KeysOf(c) \ {KeyAt(c, p)}
    BY <1>2, <1>3, <1>6 DEF KeysOf
  <2>2. ASSUME NEW i \in 1..n, i # p PROVE KeyAt(c, i) \in KeysOf(d)
    <3>1. PICK j \in 1..n - 1 : From(j) = i
      BY <1>5, <2>2
    <3> QED
      BY <1>1, <1>3, <3>1 DEF KeysOf
  <2>3. KeysOf(d) \subseteq KeysOf(c) \ {KeyAt(c, p)}
    BY <1>1, <2>1 DEF KeysOf
  <2>4. KeysOf(c) \ {KeyAt(c, p)} \subseteq KeysOf(d)
    BY <2>2 DEF KeysOf
  <2> QED
    BY <2>3, <2>4
<1>9. ASSUME NEW j \in 1..n - 1 PROVE ref2[KeyAt(d, j)] = d[j][2]
  <2>1. KeyAt(d, j) \in DOMAIN ref2
    BY <1>1, <1>8 DEF KeysOf, MapOf
  <2>2. ref2[KeyAt(d, j)] = ref[KeyAt(c, From(j))]
    BY <1>3, <2>1
  <2> QED
    BY <1>2, <1>3, <2>2 DEF MapOf
<1> QED
  BY <1>1, <1>7, <1>8, <1>9 DEF MapOf, d

\* So does another value for a key that is there.
LEMMA ReplaceMaps ==
  ASSUME NEW c, NEW ref, MapOf(c, ref), NEW p \in 1..Len(c), NEW val \in Nat,
         NEW ref2, DOMAIN ref2 = DOMAIN ref, ref2[KeyAt(c, p)] = val,
         \A k \in DOMAIN ref \ {KeyAt(c, p)} : ref2[k] = ref[k]
  PROVE  MapOf([c EXCEPT ![p] = <<KeyAt(c, p), val>>], ref2)
<1> DEFINE d == [c EXCEPT ![p] = <<KeyAt(c, p), val>>]
           n == Len(c)
<1>0. /\ c \in FmSeq /\ n \in Nat /\ Strict(c) /\ DOMAIN c = 1..n
      /\ \A i \in 1..n : KeyAt(c, i) \in Int /\ KeyAt(c, i) \in FmKeys
  BY FmTypes DEF MapOf
<1>1. d \in FmSeq /\ Len(d) = n
  BY <1>0 DEF FmSeq
<1>2. d[p] = <<KeyAt(c, p), val>> /\ \A j \in 1..n : j # p => d[j] = c[j]
  BY <1>0 DEF FmSeq
<1> HIDE DEF d
<1>3. \A j \in 1..n : KeyAt(d, j) = KeyAt(c, j)
  BY <1>2 DEF KeyAt
<1>4. \A i \in 1..n : i # p => KeyAt(c, i) # KeyAt(c, p)
  BY <1>0 DEF Strict
<1>5. Strict(d) /\ KeysOf(d) = KeysOf(c)
  BY <1>0, <1>1, <1>3 DEF Strict, KeysOf
<1>6. ASSUME NEW j \in 1..n PROVE ref2[KeyAt(d, j)] = d[j][2]
  <2>1. CASE j = p
    BY <1>2, <1>3, <2>1
  <2>2. CASE j # p
    <3>1. KeyAt(c, j) \in DOMAIN ref /\ ref[KeyAt(c, j)] = c[j][2]
      BY DEF MapOf, KeysOf
    <3> QED
      BY <1>2, <1>3, <1>4, <2>2, <3>1
  <2> QED
    BY <2>1, <2>2
<1>7. DOMAIN ref2 = KeysOf(d)
  BY <1>5 DEF MapOf
<1> QED
  BY <1>1, <1>5, <1>6, <1>7 DEF MapOf, d

\* Where the vector holds what the map maps, every query answers as the map does.
LEMMA MapTells ==
  ASSUME NEW c, NEW ref, MapOf(c, ref)
  PROVE  /\ Len(c) = Cardinality(DOMAIN ref)
         /\ \A k \in FmKeys :
            /\ CountKey(c, k) = (IF k \in DOMAIN ref THEN 1 ELSE 0)
            /\ At(c, k) = (IF k \in DOMAIN ref THEN ref[k] ELSE NoSuchKey)
            /\ UpperBound(c, k) - LowerBound(c, k) = CountKey(c, k)
<1> DEFINE n == Len(c)
<1>0. /\ c \in FmSeq /\ n \in Nat /\ Strict(c) /\ DOMAIN ref = KeysOf(c)
      /\ \A i \in 1..n : KeyAt(c, i) \in Int
  BY FmTypes DEF MapOf
<1>1. Len(c) = Cardinality(DOMAIN ref)
  <2> DEFINE f == [i \in 1..n |-> KeyAt(c, i)]
  <2>1. \A i, j \in 1..n : KeyAt(c, i) = KeyAt(c, j) => i = j
    BY <1>0 DEF Strict
  <2>2. f \in Bijection(1..n, KeysOf(c))
    BY <2>1 DEF Bijection, Injection, IsInjective, Surjection, KeysOf
  <2>3. IsFiniteSet(1..n) /\ Cardinality(1..n) = n
    <3> HIDE DEF n
    <3>1. 1 \in Int /\ n \in Int /\ (IF 1 > n THEN 0 ELSE n - 1 + 1) = n
      BY <1>0
    <3> QED
      BY <3>1, FS_Interval
  <2>4. Cardinality(1..n) = Cardinality(KeysOf(c))
    BY <2>2, <2>3, FS_Bijection DEF ExistsBijection
  <2> QED
    BY <1>0, <2>3, <2>4
<1>2. ASSUME NEW i \in 1..n, NEW k, k = KeyAt(c, i)
      PROVE  /\ CountKey(c, k) = 1 /\ At(c, k) = ref[k]
             /\ UpperBound(c, k) - LowerBound(c, k) = 1
  <2>1. LowerBound(c, k) = i /\ UpperBound(c, k) = i + 1 /\ IsAt(c, i, k)
    BY <1>0, <1>2, FoundAt
  <2>2. i # n + 1 /\ i <= n /\ ~(k < KeyAt(c, i))
    BY <1>0, <2>1 DEF IsAt
  <2>3. CountKey(c, k) = 1
    BY <2>1, <2>2 DEF CountKey, FindKey
  <2>4. At(c, k) = c[i][2]
    BY <2>1, <2>2 DEF At
  <2>5. ref[k] = c[i][2]
    BY <1>2 DEF MapOf
  <2> QED
    BY <2>1, <2>3, <2>4, <2>5
<1>3. ASSUME NEW k \in FmKeys, k \notin KeysOf(c)
      PROVE  /\ CountKey(c, k) = 0 /\ At(c, k) = NoSuchKey
             /\ UpperBound(c, k) - LowerBound(c, k) = 0
  <2>1. LowerBound(c, k) = UpperBound(c, k) /\ ~IsAt(c, LowerBound(c, k), k)
    BY <1>0, <1>3, NotFound
  <2>2. LowerBound(c, k) \in 1..n + 1
    BY <1>0, LowerBoundIs
  <2>3. CountKey(c, k) = 0
    BY <2>1 DEF CountKey, FindKey
  <2>4. At(c, k) = NoSuchKey
    BY <1>0, <2>1, <2>2 DEF At, IsAt
  <2> QED
    BY <2>1, <2>2, <2>3, <2>4
<1>4. ASSUME NEW k \in FmKeys
      PROVE  /\ CountKey(c, k) = (IF k \in DOMAIN ref THEN 1 ELSE 0)
             /\ At(c, k) = (IF k \in DOMAIN ref THEN ref[k] ELSE NoSuchKey)
             /\ UpperBound(c, k) - LowerBound(c, k) = CountKey(c, k)
  <2>1. CASE k \in KeysOf(c)
    <3>1. PICK i \in 1..n : k = KeyAt(c, i)
      BY <2>1 DEF KeysOf
    <3> QED
      BY <1>0, <1>2, <2>1, <3>1
  <2>2. CASE k \notin KeysOf(c)
    BY <1>0, <1>3, <2>2
  <2> QED
    BY <2>1, <2>2
<1> QED
  BY <1>1, <1>4

\* One step of std::unique.
Once(d, p) == IF d # <<>> /\ Last(d)[1] = p[1] THEN d ELSE Append(d, p)

\* What std::unique has made of the first n pairs: the first of each key.
FirstsOf(c, n, d) ==
  /\ d \in FmSeq /\ Strict(d) /\ (n = 0 <=> d = <<>>)
  /\ \A j \in 1..Len(d) :
        \E i \in 1..n : d[j] = c[i] /\ \A h \in 1..i - 1 : KeyAt(c, h) # KeyAt(c, i)
  /\ \A i \in 1..n : KeyAt(c, i) \in KeysOf(d)
  /\ n > 0 => KeyAt(d, Len(d)) = KeyAt(c, n)

\* A pair with the key of the last one is left out, any other is put behind it.
LEMMA OnceKeeps ==
  ASSUME NEW c \in FmSeq, Sorted(c), NEW n \in Nat, n < Len(c), NEW d, FirstsOf(c, n, d)
  PROVE  FirstsOf(c, n + 1, Once(d, c[n + 1]))
<1> DEFINE p == c[n + 1]
           m == Len(d)
<1>0. /\ d \in FmSeq /\ m \in Nat /\ Strict(d) /\ (n = 0 <=> d = <<>>) /\ p \in FmKeys \X Nat
      /\ n + 1 \in 1..Len(c) /\ p[1] = KeyAt(c, n + 1) /\ Len(c) \in Nat
      /\ \A i \in 1..Len(c) : KeyAt(c, i) \in Int
      /\ \A i \in 1..m : KeyAt(d, i) \in Int
  <2>1. d \in FmSeq /\ Strict(d) /\ (n = 0 <=> d = <<>>)
    BY DEF FirstsOf
  <2>2. /\ Len(c) \in Nat
        /\ \A i \in 1..Len(c) : c[i] \in FmKeys \X Nat /\ KeyAt(c, i) \in Int
    BY FmTypes
  <2>3. m \in Nat /\ \A i \in 1..m : KeyAt(d, i) \in Int
    BY <2>1, FmTypes
  <2>4. n + 1 \in 1..Len(c)
    BY <2>2
  <2>5. p \in FmKeys \X Nat /\ p[1] = KeyAt(c, n + 1)
    BY <2>2, <2>4 DEF KeyAt
  <2> QED
    BY <2>1, <2>2, <2>3, <2>4, <2>5
<1>1. m = 0 <=> d = <<>>
  BY <1>0 DEF FmSeq
<1>2. d # <<>> => Last(d)[1] = KeyAt(d, m) /\ KeyAt(d, m) = KeyAt(c, n)
  BY <1>0 DEF Last, KeyAt, FirstsOf
<1>3. CASE d # <<>> /\ Last(d)[1] = p[1]
  <2>1. Once(d, p) = d /\ KeyAt(d, m) = KeyAt(c, n + 1)
    BY <1>0, <1>2, <1>3 DEF Once
  <2>2. \A i \in 1..n : i \in 1..n + 1
    OBVIOUS
  <2>3. KeyAt(c, n + 1) \in KeysOf(d)
    BY <1>0, <1>1, <1>3, <2>1 DEF KeysOf
  <2>4. \A i \in 1..n + 1 : KeyAt(c, i) \in KeysOf(d)
    BY <2>3 DEF FirstsOf
  <2>5. \A j \in 1..Len(d) : \E i \in 1..n + 1 :
          d[j] = c[i] /\ \A h \in 1..i - 1 : KeyAt(c, h) # KeyAt(c, i)
    BY <2>2 DEF FirstsOf
  <2>6. FirstsOf(c, n + 1, d)
    BY <1>0, <1>3, <2>1, <2>4, <2>5 DEF FirstsOf
  <2> QED
    BY <2>1, <2>6
<1>4. CASE ~(d # <<>> /\ Last(d)[1] = p[1])
  <2> DEFINE e == Append(d, p)
  <2>1. Once(d, p) = e
    BY <1>4 DEF Once
  <2>2. e \in FmSeq /\ Len(e) = m + 1 /\ e[m + 1] = p /\ \A j \in 1..m : e[j] = d[j]
    BY <1>0 DEF FmSeq
  <2> HIDE DEF e
  <2>3. KeyAt(e, m + 1) = KeyAt(c, n + 1) /\ \A j \in 1..m : KeyAt(e, j) = KeyAt(d, j)
    BY <1>0, <2>2 DEF KeyAt
  <2>4. n > 0 => KeyAt(c, n) < KeyAt(c, n + 1)
    <3> SUFFICES ASSUME n > 0 PROVE KeyAt(c, n) < KeyAt(c, n + 1)
      OBVIOUS
    <3>1. n \in 1..Len(c) - 1 /\ n \in 1..Len(c) /\ d # <<>>
      BY <1>0
    <3>2. KeyAt(c, n) <= KeyAt(c, n + 1)
      BY <3>1 DEF Sorted
    <3>3. KeyAt(c, n) # KeyAt(c, n + 1)
      BY <1>0, <1>2, <1>4, <3>1
    <3> QED
      BY <1>0, <3>1, <3>2, <3>3
  <2>5. \A j \in 1..m : KeyAt(d, j) < KeyAt(c, n + 1)
    <3> SUFFICES ASSUME NEW j \in 1..m PROVE KeyAt(d, j) < KeyAt(c, n + 1)
      OBVIOUS
    <3>1. n > 0 /\ KeyAt(d, m) = KeyAt(c, n) /\ m \in 1..m
      BY <1>0, <1>1, <1>2
    <3>2. j < m => KeyAt(d, j) < KeyAt(d, m)
      BY <1>0, <3>1 DEF Strict
    <3>3. KeyAt(d, j) \in Int /\ KeyAt(d, m) \in Int /\ KeyAt(c, n + 1) \in Int
      BY <1>0, <3>1
    <3>4. CASE j = m
      BY <2>4, <3>1, <3>4
    <3>5. CASE j # m
      BY <1>0, <2>4, <3>1, <3>2, <3>3, <3>5
    <3> QED
      BY <3>4, <3>5
  <2>6. Strict(e)
    <3> SUFFICES ASSUME NEW i \in 1..m + 1, NEW j \in 1..m + 1, i < j
                 PROVE  KeyAt(e, i) < KeyAt(e, j)
      BY <2>2 DEF Strict
    <3>1. i \in 1..m
      BY <1>0
    <3>2. CASE j = m + 1
      BY <2>3, <2>5, <3>1, <3>2
    <3>3. CASE j # m + 1
      <4>1. i \in 1..Len(d) /\ j \in 1..Len(d)
        BY <1>0, <3>1, <3>3
      <4>2. KeyAt(d, i) < KeyAt(d, j)
        BY <1>0, <4>1 DEF Strict
      <4> QED
        BY <2>3, <4>1, <4>2
    <3> QED
      BY <3>2, <3>3
  <2>7. ASSUME NEW h \in 1..n PROVE KeyAt(c, h) # KeyAt(c, n + 1)
    <3>1. PICK j \in 1..m : KeyAt(c, h) = KeyAt(d, j)
      BY DEF FirstsOf, KeysOf
    <3> QED
      BY <1>0, <2>5, <3>1
  <2>8. ASSUME NEW j \in 1..m + 1
        PROVE  \E i \in 1..n + 1 : e[j] = c[i] /\ \A h \in 1..i - 1 : KeyAt(c, h) # KeyAt(c, i)
    <3>1. CASE j = m + 1
      <4>1. n + 1 \in 1..n + 1 /\ 1..n + 1 - 1 = 1..n /\ e[j] = c[n + 1]
        BY <2>2, <3>1
      <4> QED
        BY <2>7, <4>1
    <3>2. CASE j # m + 1
      <4>1. j \in 1..m /\ e[j] = d[j]
        BY <1>0, <2>2, <3>2
      <4>2. PICK i \in 1..n : d[j] = c[i] /\ \A h \in 1..i - 1 : KeyAt(c, h) # KeyAt(c, i)
        BY <4>1 DEF FirstsOf
      <4>3. i \in 1..n + 1
        OBVIOUS
      <4> QED
        BY <4>1, <4>2, <4>3
    <3> QED
      BY <3>1, <3>2
  <2>9. ASSUME NEW i \in 1..n + 1 PROVE KeyAt(c, i) \in KeysOf(e)
    <3>1. CASE i = n + 1
      <4>1. m + 1 \in 1..Len(e)
        BY <1>0, <2>2
      <4> QED
        BY <2>3, <3>1, <4>1 DEF KeysOf
    <3>2. CASE i # n + 1
      <4>1. i \in 1..n
        BY <3>2
      <4>2. PICK j \in 1..m : KeyAt(c, i) = KeyAt(d, j)
        BY <4>1 DEF FirstsOf, KeysOf
      <4>3. j \in 1..Len(e) /\ KeyAt(e, j) = KeyAt(d, j)
        BY <1>0, <2>2, <2>3
      <4> QED
        BY <4>2, <4>3 DEF KeysOf
    <3> QED
      BY <3>1, <3>2
  <2>10. e # <<>> /\ ~(n + 1 = 0) /\ KeyAt(e, Len(e)) = KeyAt(c, n + 1)
    BY <1>0, <2>2, <2>3
  <2>11. FirstsOf(c, n + 1, e)
    BY <2>2, <2>6, <2>8, <2>9, <2>10 DEF FirstsOf
  <2> QED
    BY <2>1, <2>11
<1> QED
  BY <1>3, <1>4

\* std::unique over a sorted vector leaves the first pair of each key.
LEMMA UniqueIs ==
  ASSUME NEW c \in FmSeq, Sorted(c)
  PROVE  FirstsOf(c, Len(c), Unique(c))
<1> DEFINE E(it, n) == [s \in SUBSET (1..n) |->
                          IF s = {} THEN <<>> ELSE Once(it[s \ {Max(s)}], c[Max(s)])]
           iter == CHOOSE it : it = E(it, Len(c))
           T == {n \in Nat : \E it : it = E(it, n)}
           G == {n \in Nat : FirstsOf(c, n, iter[1..n])}
<1>0. Len(c) \in Nat /\ DOMAIN c = 1..Len(c)
  BY FmTypes
<1>1. Unique(c) = iter[1..Len(c)]
  BY <1>0 DEF Unique, Once, FoldLeft, MapThenFoldSet
<1>2. 0 \in T
  <2> DEFINE h == [s \in SUBSET (1..0) |-> <<>>]
  <2>1. \A s \in SUBSET (1..0) : s = {}
    OBVIOUS
  <2>2. h = E(h, 0)
    BY <2>1
  <2> QED
    BY <2>2
<1>3. ASSUME NEW n \in Nat, n \in T PROVE n + 1 \in T
  <2>1. PICK it : it = E(it, n)
    BY <1>3
  <2> DEFINE h == [s \in SUBSET (1..n + 1) |->
                     IF n + 1 \in s THEN Once(it[s \ {n + 1}], c[n + 1]) ELSE it[s]]
  <2>2. ASSUME NEW s \in SUBSET (1..n + 1), n + 1 \in s
        PROVE  h[s] = Once(h[s \ {Max(s)}], c[Max(s)])
    <3>1. Max(s) = n + 1
      BY <2>2, LastOfInterval
    <3>2. s \ {n + 1} \in SUBSET (1..n) /\ s \ {n + 1} \in SUBSET (1..n + 1)
      OBVIOUS
    <3>3. h[s \ {n + 1}] = it[s \ {n + 1}]
      BY <3>2
    <3> QED
      BY <2>2, <3>1, <3>3
  <2>3. ASSUME NEW s \in SUBSET (1..n + 1), n + 1 \notin s, s # {}
        PROVE  h[s] = Once(h[s \ {Max(s)}], c[Max(s)])
    <3>1. \A i \in s : i \in 1..n
      BY <2>3
    <3>2. it[s] = Once(it[s \ {Max(s)}], c[Max(s)])
      BY <2>1, <2>3, <3>1
    <3>3. h[s] = it[s] /\ h[s \ {Max(s)}] = it[s \ {Max(s)}]
      BY <2>3, <3>1
    <3> QED
      BY <3>2, <3>3
  <2>4. h[{}] = <<>>
    <3>1. {} \in SUBSET (1..n) /\ {} \in SUBSET (1..n + 1)
      OBVIOUS
    <3>2. it[{}] = <<>>
      BY <2>1, <3>1
    <3> QED
      BY <3>1, <3>2
  <2>5. \A s \in SUBSET (1..n + 1) : h[s] = E(h, n + 1)[s]
    BY <2>2, <2>3, <2>4
  <2>6. h = E(h, n + 1)
    BY <2>5
  <2>7. \E f : f = E(f, n + 1)
    <3> HIDE DEF h
    <3> QED
      BY <2>6
  <2>8. n + 1 \in Nat
    OBVIOUS
  <2> QED
    BY <2>7, <2>8, Zenon
<1>4. Len(c) \in T
  <2> HIDE DEF T
  <2>1. \A n \in Nat : n < Len(c) /\ n \in T => n + 1 \in T
    BY <1>3
  <2>2. \A n \in 0..Len(c) : n \in T
    BY <1>0, <1>2, <2>1, AllNumbers
  <2> QED
    BY <1>0, <2>2
<1>5. iter = E(iter, Len(c))
  BY <1>4
<1> HIDE DEF iter
<1>6. 0 \in G
  <2>1. {} \in SUBSET (1..Len(c)) /\ 1..0 = {}
    OBVIOUS
  <2>2. iter[1..0] = <<>>
    BY <1>5, <2>1
  <2>3. <<>> \in FmSeq /\ Len(<<>>) = 0
    BY DEF FmSeq
  <2>4. FirstsOf(c, 0, <<>>)
    BY <2>3 DEF FirstsOf, Strict
  <2> QED
    BY <2>2, <2>4
<1>7. ASSUME NEW n \in Nat, n < Len(c), n \in G PROVE n + 1 \in G
  <2>1. Max(1..n + 1) = n + 1 /\ 1..n + 1 # {} /\ (1..n + 1) \ {n + 1} = 1..n
    BY OneMore
  <2>2. 1..n + 1 \in SUBSET (1..Len(c))
    BY <1>0, <1>7
  <2>3. iter[1..n + 1] = Once(iter[1..n], c[n + 1])
    BY <1>5, <2>1, <2>2
  <2>4. FirstsOf(c, n, iter[1..n])
    BY <1>7
  <2>5. FirstsOf(c, n + 1, iter[1..n + 1])
    BY <1>7, <2>3, <2>4, OnceKeeps
  <2> QED
    BY <2>5
<1>8. Len(c) \in G
  <2> HIDE DEF G
  <2>1. \A n \in Nat : n < Len(c) /\ n \in G => n + 1 \in G
    BY <1>7
  <2>2. \A n \in 0..Len(c) : n \in G
    BY <1>0, <1>6, <2>1, AllNumbers
  <2> QED
    BY <1>0, <2>2
<1> QED
  BY <1>1, <1>8

\* A place where a key is not, in a vector that has it, is not its lower bound.
LEMMA AtIffThere ==
  ASSUME NEW c \in FmSeq, Strict(c), NEW k \in FmKeys
  PROVE  /\ IsAt(c, LowerBound(c, k), k) <=> k \in KeysOf(c)
         /\ k \in KeysOf(c) => /\ LowerBound(c, k) \in 1..Len(c)
                               /\ KeyAt(c, LowerBound(c, k)) = k
                               /\ FindKey(c, k) = LowerBound(c, k)
         /\ k \notin KeysOf(c) => FindKey(c, k) = Len(c) + 1
<1>1. CASE k \in KeysOf(c)
  <2>1. PICK i \in 1..Len(c) : k = KeyAt(c, i)
    BY <1>1 DEF KeysOf
  <2>2. LowerBound(c, k) = i /\ IsAt(c, i, k)
    BY <2>1, FoundAt
  <2>3. FindKey(c, k) = i
    BY <2>2 DEF FindKey
  <2> QED
    BY <1>1, <2>1, <2>2, <2>3
<1>2. CASE k \notin KeysOf(c)
  <2>1. ~IsAt(c, LowerBound(c, k), k)
    BY <1>2, NotFound
  <2>2. FindKey(c, k) = Len(c) + 1
    BY <2>1 DEF FindKey
  <2> QED
    BY <1>2, <2>1, <2>2
<1> QED
  BY <1>1, <1>2

\* insert: the map that had the key keeps what it had.
LEMMA InsertedMaps ==
  ASSUME NEW c, NEW ref, MapOf(c, ref), NEW k \in FmKeys, NEW val \in Nat
  PROVE  MapOf(Inserted(c, k, val), MapAdded(ref, k, val))
<1> DEFINE ref2 == MapAdded(ref, k, val)
<1>0. c \in FmSeq /\ Strict(c) /\ DOMAIN ref = KeysOf(c)
  BY DEF MapOf
<1>1. /\ DOMAIN ref2 = DOMAIN ref \cup {k} /\ \A j \in DOMAIN ref : ref2[j] = ref[j]
      /\ k \notin DOMAIN ref => ref2[k] = val
  BY DEF MapAdded, MapAssigned
<1> HIDE DEF ref2
<1>2. CASE k \in KeysOf(c)
  <2>1. Inserted(c, k, val) = c
    BY <1>0, <1>2, AtIffThere DEF Inserted
  <2>2. DOMAIN ref2 = DOMAIN ref
    BY <1>0, <1>1, <1>2
  <2>3. \A i \in 1..Len(c) : KeyAt(c, i) \in DOMAIN ref
    BY <1>0 DEF KeysOf
  <2>4. MapOf(c, ref2)
    BY <1>1, <2>2, <2>3 DEF MapOf
  <2> QED
    BY <2>1, <2>4 DEF ref2
<1>3. CASE k \notin KeysOf(c)
  <2>1. Inserted(c, k, val) = InsertAt(c, LowerBound(c, k), <<k, val>>)
    BY <1>0, <1>3, AtIffThere DEF Inserted
  <2>2. ref2[k] = val /\ k \in FmKeys \ KeysOf(c)
    BY <1>0, <1>1, <1>3
  <2>3. MapOf(InsertAt(c, LowerBound(c, k), <<k, val>>), ref2)
    BY <1>1, <2>2, InsertMaps
  <2> QED
    BY <2>1, <2>3 DEF ref2
<1> QED
  BY <1>2, <1>3

\* operator[]: the key is there in any case and its value is the new one.
LEMMA SubscriptedMaps ==
  ASSUME NEW c, NEW ref, MapOf(c, ref), NEW k \in FmKeys, NEW val \in Nat
  PROVE  MapOf(Subscripted(c, k, val), MapAssigned(ref, k, val))
<1> DEFINE d == Inserted(c, k, 0)
           ref1 == MapAdded(ref, k, 0)
           ref2 == MapAssigned(ref, k, val)
           p == LowerBound(d, k)
<1>1. MapOf(d, ref1)
  BY InsertedMaps
<1>2. DOMAIN ref1 = DOMAIN ref \cup {k} /\ \A j \in DOMAIN ref : ref1[j] = ref[j]
  BY DEF MapAdded, MapAssigned
<1>3. /\ DOMAIN ref2 = DOMAIN ref \cup {k} /\ ref2[k] = val
      /\ \A j \in DOMAIN ref \ {k} : ref2[j] = ref[j]
  BY DEF MapAssigned
<1> HIDE DEF d, ref1, ref2
<1>4. d \in FmSeq /\ Strict(d) /\ k \in KeysOf(d)
  BY <1>1, <1>2 DEF MapOf
<1>5. p \in 1..Len(d) /\ KeyAt(d, p) = k
  BY <1>4, AtIffThere
<1>6. Subscripted(c, k, val) = [d EXCEPT ![p] = <<KeyAt(d, p), val>>]
  BY <1>5 DEF Subscripted, d
<1> HIDE DEF p
<1>7. DOMAIN ref2 = DOMAIN ref1 /\ ref2[KeyAt(d, p)] = val
  BY <1>2, <1>3, <1>5
<1>8. \A j \in DOMAIN ref1 \ {KeyAt(d, p)} : ref2[j] = ref1[j]
  BY <1>2, <1>3, <1>5
<1>9. MapOf([d EXCEPT ![p] = <<KeyAt(d, p), val>>], ref2)
  BY <1>1, <1>5, <1>7, <1>8, ReplaceMaps
<1> QED
  BY <1>6, <1>9 DEF ref2

\* erase of a key.
LEMMA ErasedMaps ==
  ASSUME NEW c, NEW ref, MapOf(c, ref), NEW k \in FmKeys
  PROVE  MapOf(Erased(c, k), [j \in DOMAIN ref \ {k} |-> ref[j]])
<1> DEFINE ref2 == [j \in DOMAIN ref \ {k} |-> ref[j]]
           p == LowerBound(c, k)
<1>0. c \in FmSeq /\ Strict(c) /\ DOMAIN ref = KeysOf(c) /\ Len(c) \in Nat
  BY FmTypes DEF MapOf
<1>1. CASE k \in KeysOf(c)
  <2>1. p \in 1..Len(c) /\ KeyAt(c, p) = k /\ FindKey(c, k) = p
    BY <1>0, <1>1, AtIffThere
  <2>2. Erased(c, k) = RemoveAt(c, p)
    BY <1>0, <2>1 DEF Erased
  <2> HIDE DEF p
  <2>3. DOMAIN ref2 = DOMAIN ref \ {KeyAt(c, p)} /\ \A j \in DOMAIN ref2 : ref2[j] = ref[j]
    BY <2>1
  <2> HIDE DEF ref2
  <2>4. MapOf(RemoveAt(c, p), ref2)
    BY <2>1, <2>3, RemoveMaps
  <2> QED
    BY <2>2, <2>4 DEF ref2
<1>2. CASE k \notin KeysOf(c)
  <2>1. Erased(c, k) = c
    BY <1>0, <1>2, AtIffThere DEF Erased
  <2>2. DOMAIN ref2 = DOMAIN ref /\ \A j \in DOMAIN ref : ref2[j] = ref[j]
    BY <1>0, <1>2
  <2> HIDE DEF ref2
  <2>3. \A i \in 1..Len(c) : KeyAt(c, i) \in DOMAIN ref
    BY <1>0 DEF KeysOf
  <2>4. MapOf(c, ref2)
    BY <2>2, <2>3 DEF MapOf
  <2> QED
    BY <2>1, <2>4 DEF ref2
<1> QED
  BY <1>1, <1>2

\* The constructor from pairs in any order: what the first pair of each key says.
LEMMA UniqueMaps ==
  ASSUME NEW c \in FmSeq, Sorted(c)
  PROVE  MapOf(Unique(c),
               [k \in {p[1] : p \in ToSet(c)} |-> c[SelectInSeq(c, LAMBDA p : p[1] = k)][2]])
<1> DEFINE d == Unique(c)
           first(k) == SelectInSeq(c, LAMBDA p : p[1] = k)
           ref == [k \in {p[1] : p \in ToSet(c)} |-> c[first(k)][2]]
           n == Len(c)
<1>0. /\ n \in Nat /\ DOMAIN c = 1..n
      /\ \A i \in 1..n : KeyAt(c, i) \in Int
  BY FmTypes
<1>1. FirstsOf(c, n, d)
  BY UniqueIs
<1> HIDE DEF d
<1>2. {p[1] : p \in ToSet(c)} = KeysOf(c)
  BY <1>0 DEF ToSet, KeysOf, KeyAt
<1>3. KeysOf(d) = KeysOf(c)
  <2>1. KeysOf(c) \subseteq KeysOf(d)
    BY <1>1 DEF FirstsOf, KeysOf
  <2>2. ASSUME NEW j \in 1..Len(d) PROVE KeyAt(d, j) \in KeysOf(c)
    BY <1>1 DEF FirstsOf, KeysOf, KeyAt
  <2>3. KeysOf(d) \subseteq KeysOf(c)
    BY <2>2 DEF KeysOf
  <2> QED
    BY <2>1, <2>3
<1>4. ASSUME NEW i \in 1..n, \A h \in 1..i - 1 : KeyAt(c, h) # KeyAt(c, i)
      PROVE  first(KeyAt(c, i)) = i
  <2> DEFINE k == KeyAt(c, i)
             I == {j \in 1..Len(c) : c[j][1] = k}
  <2>1. i \in I /\ \A j \in I : j \in Int
    BY DEF KeyAt
  <2>2. \A j \in I : i <= j
    BY <1>0, <1>4 DEF KeyAt
  <2>3. Min(I) = i
    <3> HIDE DEF I
    <3>1. Min(I) \in I /\ \A j \in I : Min(I) <= j
      BY <2>1, <2>2, Zenon DEF Min
    <3> DEFINE m == Min(I)
    <3>2. m \in Int /\ m <= i /\ i <= m
      BY <2>1, <2>2, <3>1
    <3> HIDE DEF m
    <3> QED
      BY <3>2 DEF m
  <2>4. first(k) = IF I # {} THEN Min(I) ELSE 0
    BY DEF SelectInSeq
  <2> HIDE DEF I
  <2> QED
    BY <2>1, <2>3, <2>4
<1>5. ASSUME NEW j \in 1..Len(d) PROVE ref[KeyAt(d, j)] = d[j][2]
  <2>1. PICK i \in 1..n : d[j] = c[i] /\ \A h \in 1..i - 1 : KeyAt(c, h) # KeyAt(c, i)
    BY <1>1 DEF FirstsOf
  <2>2. KeyAt(d, j) = KeyAt(c, i) /\ KeyAt(c, i) \in KeysOf(c) /\ first(KeyAt(c, i)) = i
    BY <1>4, <2>1 DEF KeyAt, KeysOf
  <2> HIDE DEF first
  <2>3. ref[KeyAt(c, i)] = c[first(KeyAt(c, i))][2]
    BY <1>2, <2>2
  <2> QED
    BY <2>1, <2>2, <2>3
<1>6. DOMAIN ref = KeysOf(d)
  BY <1>2, <1>3
<1>7. MapOf(d, ref)
  <2> HIDE DEF ref, first
  <2> QED
    BY <1>1, <1>5, <1>6 DEF FirstsOf, MapOf
<1> QED
  BY <1>7 DEF d

\* A call on one container leaves the others.
LEMMA UpdateMaps ==
  ASSUME FmInv, NEW m \in FlatMaps, NEW c, NEW ref, MapOf(c, ref), FmUpdate(m, c, ref)
  PROVE  FmInv'
<1>1. fm' = [fm EXCEPT ![m] = c] /\ fmRef' = [fmRef EXCEPT ![m] = ref]
  BY DEF FmUpdate
<1>2. fm'[m] = c /\ fmRef'[m] = ref
  BY <1>1 DEF FmInv
<1>3. \A n \in FlatMaps : n # m => fm'[n] = fm[n] /\ fmRef'[n] = fmRef[n]
  BY <1>1 DEF FmInv
<1>4. DOMAIN fm' = FlatMaps /\ DOMAIN fmRef' = FlatMaps
  BY <1>1 DEF FmInv
<1>5. ASSUME NEW n \in FlatMaps PROVE MapOf(fm'[n], fmRef'[n])
  <2>1. CASE n = m
    BY <1>2, <2>1
  <2>2. CASE n # m
    BY <1>3, <2>2 DEF FmInv
  <2> QED
    BY <2>1, <2>2
<1> QED
  BY <1>4, <1>5 DEF FmInv

\* The calls on one container.
LEMMA OneMapStep ==
  ASSUME FmInv, NEW m \in FlatMaps,
         \/ FmConstruct(m) \/ FmInsert(m) \/ FmSubscript(m) \/ FmLookUp(m)
         \/ FmErase(m) \/ FmEraseAt(m) \/ FmClear(m)
  PROVE  FmInv'
<1>0. MapOf(fm[m], fmRef[m]) /\ FmValues \subseteq Nat
  BY FmAssumption DEF FmInv
<1>1. CASE FmConstruct(m)
  <2> DEFINE ref(c) == [k \in {p[1] : p \in ToSet(c)} |-> c[SelectInSeq(c, LAMBDA p : p[1] = k)][2]]
  <2>1. PICK c \in BoundedSeq(Pairs, FmInit) : Sorted(c) /\ FmUpdate(m, Unique(c), ref(c))
    BY <1>1 DEF FmConstruct
  <2>2. c \in FmSeq
    <3>1. PICK k \in 0..FmInit : c \in [1..k -> Pairs]
      BY <2>1, Zenon DEF BoundedSeq, SeqOf
    <3>2. k \in Nat /\ c \in [1..k -> Pairs]
      BY <3>1, FmAssumption
    <3>3. \A p \in Pairs : p \in FmKeys \X Nat
      BY <1>0 DEF Pairs
    <3>4. c \in [1..k -> FmKeys \X Nat]
      BY <3>2, <3>3
    <3> QED
      BY <3>2, <3>4 DEF FmSeq
  <2>3. MapOf(Unique(c), ref(c))
    BY <2>1, <2>2, UniqueMaps
  <2> HIDE DEF ref
  <2> QED
    BY <2>1, <2>3, UpdateMaps
<1>2. CASE FmInsert(m)
  <2>1. PICK k \in FmKeys, val \in FmValues :
          FmUpdate(m, Inserted(fm[m], k, val), MapAdded(fmRef[m], k, val))
    BY <1>2 DEF FmInsert
  <2>2. MapOf(Inserted(fm[m], k, val), MapAdded(fmRef[m], k, val))
    BY <1>0, InsertedMaps
  <2> QED
    BY <2>1, <2>2, UpdateMaps
<1>3. CASE FmSubscript(m)
  <2>1. PICK k \in FmKeys, val \in FmValues :
          FmUpdate(m, Subscripted(fm[m], k, val), MapAssigned(fmRef[m], k, val))
    BY <1>3 DEF FmSubscript
  <2>2. MapOf(Subscripted(fm[m], k, val), MapAssigned(fmRef[m], k, val))
    BY <1>0, SubscriptedMaps
  <2> QED
    BY <2>1, <2>2, UpdateMaps
<1>4. CASE FmLookUp(m)
  <2>1. PICK k \in FmKeys : FmUpdate(m, Inserted(fm[m], k, 0), MapAdded(fmRef[m], k, 0))
    BY <1>4 DEF FmLookUp
  <2>2. MapOf(Inserted(fm[m], k, 0), MapAdded(fmRef[m], k, 0))
    BY <1>0, InsertedMaps
  <2> QED
    BY <2>1, <2>2, UpdateMaps
<1>5. CASE FmErase(m)
  <2> DEFINE ref(k) == [j \in DOMAIN fmRef[m] \ {k} |-> fmRef[m][j]]
  <2>1. PICK k \in FmKeys : FmUpdate(m, Erased(fm[m], k), ref(k))
    BY <1>5 DEF FmErase
  <2>2. MapOf(Erased(fm[m], k), ref(k))
    BY <1>0, ErasedMaps
  <2> HIDE DEF ref
  <2> QED
    BY <2>1, <2>2, UpdateMaps
<1>6. CASE FmEraseAt(m)
  <2> DEFINE ref(i) == [j \in DOMAIN fmRef[m] \ {KeyAt(fm[m], i)} |-> fmRef[m][j]]
  <2>1. PICK i \in DOMAIN fm[m] : FmUpdate(m, RemoveAt(fm[m], i), ref(i))
    BY <1>6 DEF FmEraseAt
  <2>2. i \in 1..Len(fm[m])
    BY <1>0, FmTypes DEF MapOf
  <2>3. /\ DOMAIN ref(i) = DOMAIN fmRef[m] \ {KeyAt(fm[m], i)}
        /\ \A k \in DOMAIN ref(i) : ref(i)[k] = fmRef[m][k]
    OBVIOUS
  <2> HIDE DEF ref
  <2>4. MapOf(RemoveAt(fm[m], i), ref(i))
    BY <1>0, <2>2, <2>3, RemoveMaps
  <2> QED
    BY <2>1, <2>4, UpdateMaps
<1>7. CASE FmClear(m)
  <2>1. <<>> \in FmSeq /\ Len(<<>>) = 0 /\ DOMAIN Empty = {}
    BY DEF FmSeq, Empty
  <2>2. MapOf(<<>>, Empty)
    BY <2>1 DEF MapOf, Strict, KeysOf
  <2> QED
    BY <1>7, <2>2, UpdateMaps DEF FmClear
<1> QED
  BY <1>1, <1>2, <1>3, <1>4, <1>5, <1>6, <1>7

\* The calls on two containers.
LEMMA TwoMapsStep ==
  ASSUME FmInv, NEW m \in FlatMaps, NEW n \in FlatMaps, FmCopy(m, n) \/ FmMove(m, n) \/ FmSwap(m, n)
  PROVE  FmInv'
<1>0. MapOf(fm[m], fmRef[m]) /\ MapOf(fm[n], fmRef[n])
  BY DEF FmInv
<1>1. CASE FmCopy(m, n)
  BY <1>0, <1>1, UpdateMaps DEF FmCopy
<1>2. ASSUME NEW x, NEW rx, NEW y, NEW ry, MapOf(x, rx), MapOf(y, ry), m # n,
             fm' = [fm EXCEPT ![m] = x, ![n] = y], fmRef' = [fmRef EXCEPT ![m] = rx, ![n] = ry]
      PROVE  FmInv'
  <2>1. /\ fm'[m] = x /\ fmRef'[m] = rx /\ fm'[n] = y /\ fmRef'[n] = ry
        /\ DOMAIN fm' = FlatMaps /\ DOMAIN fmRef' = FlatMaps
        /\ \A l \in FlatMaps \ {m, n} : fm'[l] = fm[l] /\ fmRef'[l] = fmRef[l]
    BY <1>2 DEF FmInv
  <2>2. ASSUME NEW l \in FlatMaps PROVE MapOf(fm'[l], fmRef'[l])
    <3>1. CASE l = m
      BY <1>2, <2>1, <3>1
    <3>2. CASE l = n
      BY <1>2, <2>1, <3>2
    <3>3. CASE l \notin {m, n}
      BY <2>1, <3>3 DEF FmInv
    <3> QED
      BY <3>1, <3>2, <3>3
  <2> QED
    BY <2>1, <2>2 DEF FmInv
<1>3. CASE FmMove(m, n)
  <2>1. <<>> \in FmSeq /\ Len(<<>>) = 0 /\ DOMAIN Empty = {}
    BY DEF FmSeq, Empty
  <2>2. MapOf(<<>>, Empty)
    BY <2>1 DEF MapOf, Strict, KeysOf
  <2> QED
    BY <1>0, <1>2, <1>3, <2>2 DEF FmMove
<1>4. CASE FmSwap(m, n)
  BY <1>0, <1>2, <1>4 DEF FmSwap
<1> QED
  BY <1>1, <1>3, <1>4

\* A flat_map answers as a std::map does, after any calls: the vector stays strictly
\* sorted by key, so that the binary search, proved here to find the place it looks for,
\* finds each key and nothing else.
THEOREM FlatMapIsAMap == FmSpec => []LikeStdMap
<1>1. FmStart => FmInv
  <2> SUFFICES ASSUME FmStart PROVE FmInv
    OBVIOUS
  <2>1. <<>> \in FmSeq /\ Len(<<>>) = 0 /\ DOMAIN Empty = {}
    BY DEF FmSeq, Empty
  <2>2. MapOf(<<>>, Empty)
    BY <2>1 DEF MapOf, Strict, KeysOf
  <2> QED
    BY <2>2 DEF FmStart, FmInv
<1>2. FmInv /\ [FmNext]_fmVars => FmInv'
  <2> SUFFICES ASSUME FmInv, [FmNext]_fmVars PROVE FmInv'
    OBVIOUS
  <2>1. CASE FmNext
    BY <2>1, OneMapStep, TwoMapsStep DEF FmNext
  <2>2. CASE UNCHANGED fmVars
    BY <2>2 DEF FmInv, fmVars
  <2> QED
    BY <2>1, <2>2
<1>3. FmInv => LikeStdMap
  BY MapTells DEF FmInv, LikeStdMap
<1> QED
  BY <1>1, <1>2, <1>3, PTL DEF FmSpec

-----------------------------------------------------------------------------
(* PodVector                                                                 *)

\* The capacity that is grown until it is enough is enough.
LEMMA NewCapacityIs ==
  ASSUME NEW cap \in Nat, NEW want \in Nat, cap < want
  PROVE  NewCapacity(cap, want) \in Nat /\ NewCapacity(cap, want) >= want
<1> DEFINE top == 3 * want + 1
           next(c) == (3 * c + 1) \div 2
           E(f, low) == [c \in low..top |-> IF c >= want THEN c ELSE f[next(c)]]
           grown == CHOOSE f : f = [c \in 0..top |-> IF c >= want THEN c ELSE f[(3 * c + 1) \div 2]]
           T == {n \in 0..want : \E f : f = E(f, want - n)}
<1>1. NewCapacity(cap, want) = IF cap = 0 THEN want ELSE grown[cap]
  BY DEF NewCapacity
<1>2. /\ next(0) = 0
      /\ \A c \in 1..want : next(c) \in Nat /\ c < next(c) /\ next(c) <= top
  OBVIOUS
<1>3. 0 \in T
  <2> DEFINE h == [c \in want - 0..top |-> c]
  <2>1. \A c \in want - 0..top : c >= want
    OBVIOUS
  <2>2. h = E(h, want - 0)
    BY <2>1
  <2>3. \E f : f = E(f, want - 0)
    <3> HIDE DEF h
    <3> QED
      BY <2>2
  <2>4. 0 \in 0..want
    OBVIOUS
  <2> HIDE DEF E
  <2> QED
    BY <2>3, <2>4, Zenon
<1>4. ASSUME NEW n \in Nat, n < want, n \in T PROVE n + 1 \in T
  <2> DEFINE low == want - n
             low1 == want - (n + 1)
  <2>1. PICK f : f = E(f, low)
    BY <1>4
  <2>2. low1 \in Nat /\ low = low1 + 1 /\ low1 < want /\ low \in Nat /\ low <= want
    BY <1>4
  <2> HIDE DEF low, low1
  <2> DEFINE h == [c \in low1..top |-> IF c = low1 THEN (IF c = 0 THEN 0 ELSE f[next(c)]) ELSE f[c]]
  <2>3. ASSUME NEW c \in low1..top PROVE h[c] = IF c >= want THEN c ELSE h[next(c)]
    <3>1. CASE c >= want
      <4>1. c \in low..top /\ c # low1
        BY <2>2, <3>1
      <4>2. h[c] = f[c] /\ f[c] = c
        BY <2>1, <3>1, <4>1
      <4> QED
        BY <3>1, <4>2
    <3>2. CASE c < want /\ c # low1
      <4>1. c \in low..top /\ c \in 1..want /\ ~(c >= want)
        BY <2>2, <3>2
      <4>2. next(c) \in low..top /\ next(c) # low1 /\ next(c) \in low1..top
        BY <1>2, <2>2, <4>1
      <4> HIDE DEF next
      <4>3. h[c] = f[c] /\ f[c] = f[next(c)] /\ h[next(c)] = f[next(c)]
        BY <2>1, <3>2, <4>1, <4>2
      <4> QED
        BY <4>1, <4>3
    <3>3. CASE c = low1 /\ c # 0
      <4>1. c \in 1..want /\ ~(c >= want)
        BY <2>2, <3>3
      <4>2. next(c) # low1 /\ next(c) \in low1..top
        BY <1>2, <2>2, <3>3, <4>1
      <4> HIDE DEF next
      <4>3. h[c] = f[next(c)] /\ h[next(c)] = f[next(c)]
        BY <3>3, <4>2
      <4> QED
        BY <4>1, <4>3
    <3>4. CASE c = low1 /\ c = 0
      <4>1. next(c) = c /\ ~(c >= want)
        BY <1>2, <2>2, <3>4
      <4> HIDE DEF next, h
      <4> QED
        BY <4>1
    <3> QED
      BY <2>2, <3>1, <3>2, <3>3, <3>4
  <2>4. h = E(h, low1)
    <3> HIDE DEF next
    <3> QED
      BY <2>3
  <2>5. \E g : g = E(g, want - (n + 1))
    <3> HIDE DEF h
    <3> QED
      BY <2>4 DEF low1
  <2>6. n + 1 \in 0..want
    BY <1>4
  <2> HIDE DEF E
  <2> QED
    BY <2>5, <2>6, Zenon
<1>5. \E f : f = E(f, 0)
  <2>1. want \in T
    <3> HIDE DEF T
    <3>1. \A n \in Nat : n < want /\ n \in T => n + 1 \in T
      BY <1>4
    <3>2. \A n \in 0..want : n \in T
      BY <1>3, <3>1, AllNumbers
    <3> QED
      BY <3>2
  <2>2. want - want = 0
    OBVIOUS
  <2> HIDE DEF E
  <2> QED
    BY <2>1, <2>2
<1>6. grown = E(grown, 0)
  BY <1>5, Zenon
<1> HIDE DEF grown
<1> DEFINE D == {d \in 0..want :
                   \A c \in 1..top : want - c <= d => grown[c] \in Nat /\ grown[c] >= want}
<1>7. 0 \in D
  <2>1. ASSUME NEW c \in 1..top, want - c <= 0 PROVE grown[c] = c /\ c \in Nat /\ c >= want
    <3>1. c \in 0..top /\ c >= want
      BY <2>1
    <3> QED
      BY <1>6, <3>1
  <2> QED
    BY <2>1
<1>8. ASSUME NEW d \in Nat, d < want, d \in D PROVE d + 1 \in D
  <2>1. ASSUME NEW c \in 1..top, want - c <= d + 1 PROVE grown[c] \in Nat /\ grown[c] >= want
    <3>1. CASE c >= want
      <4>1. c \in 0..top
        OBVIOUS
      <4> QED
        BY <1>6, <3>1, <4>1
    <3>2. CASE c < want
      <4>1. c \in 1..want /\ c \in 0..top /\ ~(c >= want)
        BY <3>2
      <4>2. next(c) \in 1..top /\ want - next(c) <= d
        BY <1>2, <2>1, <4>1
      <4> HIDE DEF next
      <4>3. grown[c] = grown[next(c)]
        BY <1>6, <4>1
      <4> QED
        BY <1>8, <4>2, <4>3
    <3> QED
      BY <3>1, <3>2
  <2>2. d + 1 \in 0..want
    BY <1>8
  <2> QED
    BY <2>1, <2>2
<1>9. want \in D
  <2> HIDE DEF D
  <2>1. \A d \in Nat : d < want /\ d \in D => d + 1 \in D
    BY <1>8
  <2>2. \A d \in 0..want : d \in D
    BY <1>7, <2>1, AllNumbers
  <2> QED
    BY <2>2
<1>10. CASE cap = 0
  BY <1>1, <1>10
<1>11. CASE cap # 0
  <2>1. cap \in 1..top /\ want - cap <= want
    BY <1>11
  <2> QED
    BY <1>1, <1>9, <1>11, <2>1
<1> QED
  BY <1>10, <1>11

\* The bytes of so many elements.
BytesOf(n, w) == n * w

\* What a vector is, in the allocated memory.
PodRec == [width : Nat, buf : Seq(Int), cap : Nat, size : Nat, sound : BOOLEAN]

\* The buffer is as large as the vector believes.
Sized(x) == x \in PodRec /\ x.sound /\ x.size <= x.cap /\ BytesOf(x.cap, x.width) <= Len(x.buf)

\* The vector holds the bytes, in such a buffer.
PodHolds(x, ref) ==
  /\ Sized(x)
  /\ ref \in Seq(Nat) /\ Len(ref) = BytesOf(x.size, x.width)
  /\ \A i \in 1..Len(ref) : x.buf[i] = ref[i]

\* Counts of elements and of bytes.
LEMMA Bytes ==
  ASSUME NEW w \in Nat
  PROVE  /\ \A a \in Nat : BytesOf(a, w) \in Nat
         /\ \A a, b \in Nat : BytesOf(a + b, w) = BytesOf(a, w) + BytesOf(b, w)
         /\ \A a, b \in Nat : a <= b => BytesOf(a, w) <= BytesOf(b, w)
         /\ BytesOf(0, w) = 0
         /\ w > 0 => \A a \in Nat : a <= BytesOf(a, w)
<1>1. \A a \in Nat : BytesOf(a, w) \in Nat
  BY DEF BytesOf
<1>2. \A a, b \in Nat : BytesOf(a + b, w) = BytesOf(a, w) + BytesOf(b, w)
  BY DEF BytesOf
<1>3. ASSUME NEW a \in Nat, NEW b \in Nat, a <= b PROVE BytesOf(a, w) <= BytesOf(b, w)
  <2>1. PICK d \in Nat : b = a + d
    <3>1. b - a \in Nat /\ b = a + (b - a)
      BY <1>3
    <3> QED
      BY <3>1
  <2>2. BytesOf(b, w) = BytesOf(a, w) + BytesOf(d, w)
        /\ BytesOf(a, w) \in Nat /\ BytesOf(d, w) \in Nat
    BY <1>1, <1>2, <2>1
  <2> QED
    BY <2>2
<1>4. BytesOf(0, w) = 0
  BY DEF BytesOf
<1>5. ASSUME w > 0, NEW a \in Nat PROVE a <= BytesOf(a, w)
  <2>1. w - 1 \in Nat /\ a * (w - 1) \in Nat
    BY <1>5
  <2>2. a * w = a + a * (w - 1)
    OBVIOUS
  <2> QED
    BY <2>1, <2>2 DEF BytesOf
<1> QED
  BY <1>1, <1>2, <1>3, <1>4, <1>5

\* A record of a vector is what its fields are.
LEMMA PodFields ==
  /\ \A x \in PodRec : /\ x = [width |-> x.width, buf |-> x.buf, cap |-> x.cap, size |-> x.size,
                               sound |-> x.sound]
                       /\ x.width \in Nat /\ x.buf \in Seq(Int) /\ x.cap \in Nat /\ x.size \in Nat
                       /\ x.sound \in BOOLEAN
                       /\ Len(x.buf) \in Nat /\ DOMAIN x.buf = 1..Len(x.buf)
  /\ \A w \in Nat, b \in Seq(Int), c \in Nat, s \in Nat, t \in BOOLEAN :
       [width |-> w, buf |-> b, cap |-> c, size |-> s, sound |-> t] \in PodRec
BY DEF PodRec

\* A write leaves the bytes where it was told, and says whether they were inside.
LEMMA WriteIs ==
  ASSUME NEW x \in PodRec, NEW at \in Nat, NEW bytes \in Seq(Int)
  PROVE  LET y == Write(x, at, bytes)
             from == BytesOf(at, x.width)
         IN /\ y \in PodRec /\ y.width = x.width /\ y.cap = x.cap /\ y.size = x.size
            /\ Len(y.buf) = Len(x.buf)
            /\ y.sound = (x.sound /\ from + Len(bytes) <= Len(x.buf))
            /\ \A i \in 1..Len(x.buf) :
                 y.buf[i] = IF from < i /\ i <= from + Len(bytes) THEN bytes[i - from] ELSE x.buf[i]
<1> DEFINE y == Write(x, at, bytes)
           from == BytesOf(at, x.width)
           n == Len(x.buf)
           b == [i \in 1..n |-> IF i - from \in DOMAIN bytes THEN bytes[i - from] ELSE x.buf[i]]
           t == x.sound /\ from + Len(bytes) <= n
<1>0. /\ from \in Nat /\ n \in Nat /\ Len(bytes) \in Nat /\ DOMAIN bytes = 1..Len(bytes)
      /\ DOMAIN x.buf = 1..n
  <2>1. x.width \in Nat
    BY PodFields
  <2>2. from \in Nat
    BY <2>1, Bytes
  <2>3. n \in Nat /\ DOMAIN x.buf = 1..n
    BY PodFields
  <2>4. Len(bytes) \in Nat /\ DOMAIN bytes = 1..Len(bytes)
    OBVIOUS
  <2> QED
    BY <2>2, <2>3, <2>4
<1>1. x = [width |-> x.width, buf |-> x.buf, cap |-> x.cap, size |-> x.size, sound |-> x.sound]
  BY PodFields
<1>2. y = [x EXCEPT !.sound = t, !.buf = b]
  BY <1>0 DEF Write, BytesOf
<1> HIDE DEF b, y, t
<1>3. y = [width |-> x.width, buf |-> b, cap |-> x.cap, size |-> x.size, sound |-> t]
  BY <1>1, <1>2
<1> HIDE DEF from, n
<1>4. \A i \in 1..n : i - from \in DOMAIN bytes <=> from < i /\ i <= from + Len(bytes)
  BY <1>0
<1>5. \A i \in 1..n :
        b[i] = IF from < i /\ i <= from + Len(bytes) THEN bytes[i - from] ELSE x.buf[i]
  BY <1>4 DEF b
<1>6. b \in Seq(Int) /\ Len(b) = n
  <2>1. \A i \in 1..n : x.buf[i] \in Int
    BY PodFields DEF n
  <2>2. \A j \in DOMAIN bytes : bytes[j] \in Int
    OBVIOUS
  <2>3. b \in [1..n -> Int]
    BY <2>1, <2>2 DEF b
  <2> QED
    BY <1>0, <2>3
<1>7. t \in BOOLEAN
  BY PodFields DEF t
<1>8. y \in PodRec
  BY <1>3, <1>6, <1>7, PodFields
<1>9. y.width = x.width /\ y.cap = x.cap /\ y.size = x.size /\ y.buf = b /\ y.sound = t
  BY <1>3
<1> QED
  BY <1>5, <1>6, <1>8, <1>9 DEF n, from, y, t

\* Setting the end keeps what is in front of it.
LEMMA SetSizeIs ==
  ASSUME NEW x \in PodRec, NEW n \in Nat
  PROVE  LET y == SetSize(x, n)
         IN /\ y \in PodRec /\ y.width = x.width /\ y.cap = x.cap /\ y.size = n
            /\ Len(y.buf) = Len(x.buf)
            /\ y.sound = (x.sound /\ BytesOf(n, x.width) <= Len(x.buf))
            /\ \A i \in 1..Len(x.buf) : i <= BytesOf(n, x.width) => y.buf[i] = x.buf[i]
<1> DEFINE y == SetSize(x, n)
           k == Len(x.buf)
           to == BytesOf(n, x.width)
           b == [i \in 1..k |-> IF i <= to THEN x.buf[i] ELSE Junk]
           t == x.sound /\ InBuffer(x, 0, n)
<1>0. to \in Nat /\ k \in Nat /\ DOMAIN x.buf = 1..k /\ (0 + n) * x.width = to
  <2>1. x.width \in Nat /\ 0 + n = n
    BY PodFields
  <2>2. to \in Nat
    BY <2>1, Bytes
  <2>3. k \in Nat /\ DOMAIN x.buf = 1..k
    BY PodFields
  <2> QED
    BY <2>1, <2>2, <2>3 DEF BytesOf
<1>1. x = [width |-> x.width, buf |-> x.buf, cap |-> x.cap, size |-> x.size, sound |-> x.sound]
  BY PodFields
<1>2. y = [x EXCEPT !.size = n, !.sound = t, !.buf = b]
  BY <1>0 DEF SetSize, BytesOf
<1> HIDE DEF b, y, t
<1>3. y = [width |-> x.width, buf |-> b, cap |-> x.cap, size |-> n, sound |-> t]
  BY <1>1, <1>2
<1>4. t = (x.sound /\ to <= k)
  BY <1>0 DEF t, InBuffer
<1> HIDE DEF to, k
<1>5. \A i \in 1..k : i <= to => b[i] = x.buf[i]
  BY DEF b
<1>6. b \in Seq(Int) /\ Len(b) = k
  <2>1. \A i \in 1..k : x.buf[i] \in Int
    BY PodFields DEF k
  <2>2. b \in [1..k -> Int]
    BY <2>1 DEF b, Junk
  <2> QED
    BY <1>0, <2>2
<1>7. t \in BOOLEAN
  BY <1>4, PodFields
<1>8. y \in PodRec
  BY <1>3, <1>6, <1>7, PodFields
<1>9. y.width = x.width /\ y.cap = x.cap /\ y.size = n /\ y.buf = b /\ y.sound = t
  BY <1>3
<1> QED
  BY <1>4, <1>5, <1>6, <1>8, <1>9 DEF k, to, y

\* A reallocation brings along what is in front of the end.
LEMMA ReallocatedIs ==
  ASSUME NEW x \in PodRec, NEW n \in Nat, x.size <= n, BytesOf(x.size, x.width) <= Len(x.buf)
  PROVE  LET y == Reallocated(x, n)
         IN /\ y \in PodRec /\ y.width = x.width /\ y.cap = n /\ y.size = x.size
            /\ Len(y.buf) = BytesOf(n, x.width) /\ y.sound = x.sound
            /\ \A i \in 1..BytesOf(x.size, x.width) : y.buf[i] = x.buf[i]
<1> DEFINE y == Reallocated(x, n)
           k == BytesOf(x.size, x.width)
           kept == SubSeq(x.buf, 1, k)
           more == BytesOf(n, x.width) - Len(kept)
           junk == JunkBytes(more)
           b == kept \o junk
<1>0. /\ k \in Nat /\ BytesOf(n, x.width) \in Nat /\ k <= BytesOf(n, x.width)
      /\ x.buf \in Seq(Int) /\ k <= Len(x.buf)
  BY PodFields, Bytes
<1>1. x = [width |-> x.width, buf |-> x.buf, cap |-> x.cap, size |-> x.size, sound |-> x.sound]
  BY PodFields
<1>2. y = [x EXCEPT !.buf = b, !.cap = n]
  BY DEF Reallocated, BytesOf
<1> HIDE DEF b, y
<1>3. y = [width |-> x.width, buf |-> b, cap |-> n, size |-> x.size, sound |-> x.sound]
  BY <1>1, <1>2
<1> HIDE DEF k
<1>4. kept \in Seq(Int) /\ Len(kept) = k /\ \A i \in 1..k : kept[i] = x.buf[i]
  BY <1>0
<1> HIDE DEF kept
<1>5. more \in Nat /\ Len(kept) + more = BytesOf(n, x.width)
  BY <1>0, <1>4
<1> HIDE DEF more
<1>6. junk \in Seq(Int) /\ Len(junk) = more
  <2>1. junk \in [1..more -> Int]
    BY DEF JunkBytes, Junk
  <2> QED
    BY <1>5, <2>1
<1> HIDE DEF junk
<1>7. b \in Seq(Int) /\ Len(b) = BytesOf(n, x.width) /\ \A i \in 1..k : b[i] = x.buf[i]
  <2>1. /\ b \in Seq(Int) /\ Len(b) = Len(kept) + Len(junk)
        /\ \A j \in 1..Len(kept) : b[j] = kept[j]
    <3>1. PICK S : S = Int
      OBVIOUS
    <3>2. kept \in Seq(S) /\ junk \in Seq(S)
      BY ONLY <1>4, <1>6, <3>1
    <3>3. /\ kept \o junk \in Seq(S) /\ Len(kept \o junk) = Len(kept) + Len(junk)
          /\ \A j \in 1..Len(kept) : (kept \o junk)[j] = kept[j]
      BY ONLY <3>2, ConcatIs
    <3> QED
      BY ONLY <3>1, <3>3 DEF b
  <2> QED
    BY <1>4, <1>5, <1>6, <2>1
<1>8. y \in PodRec
  BY <1>3, <1>7, PodFields
<1>9. y.width = x.width /\ y.cap = n /\ y.size = x.size /\ y.buf = b /\ y.sound = x.sound
  BY <1>3
<1> QED
  BY <1>7, <1>8, <1>9 DEF y, k

\* What is known of a buffer that is as large as the vector believes.
LEMMA SizedFacts ==
  ASSUME NEW x, Sized(x)
  PROVE  /\ x \in PodRec /\ x.sound /\ x.width \in Nat /\ x.size \in Nat /\ x.cap \in Nat
         /\ x.buf \in Seq(Int) /\ Len(x.buf) \in Nat /\ x.size <= x.cap
         /\ \A n \in Nat : n <= x.cap => /\ BytesOf(n, x.width) \in Nat
                                         /\ BytesOf(n, x.width) <= Len(x.buf)
<1>1. x \in PodRec /\ x.sound /\ x.size <= x.cap /\ BytesOf(x.cap, x.width) <= Len(x.buf)
  BY DEF Sized
<1>2. /\ x.width \in Nat /\ x.size \in Nat /\ x.cap \in Nat /\ x.buf \in Seq(Int)
      /\ Len(x.buf) \in Nat
  BY <1>1, PodFields
<1>3. ASSUME NEW n \in Nat, n <= x.cap
      PROVE  BytesOf(n, x.width) \in Nat /\ BytesOf(n, x.width) <= Len(x.buf)
  <2>1. /\ BytesOf(n, x.width) \in Nat /\ BytesOf(x.cap, x.width) \in Nat
        /\ BytesOf(n, x.width) <= BytesOf(x.cap, x.width)
    BY <1>2, <1>3, Bytes
  <2> QED
    BY <1>1, <1>2, <2>1
<1> QED
  BY <1>1, <1>2, <1>3

\* What is known of a vector that holds the bytes.
LEMMA HoldsFacts ==
  ASSUME NEW x, NEW ref, PodHolds(x, ref)
  PROVE  /\ Sized(x) /\ x.width \in Nat /\ x.size \in Nat
         /\ ref \in Seq(Nat) /\ Len(ref) \in Nat /\ Len(ref) = BytesOf(x.size, x.width)
         /\ Len(ref) <= Len(x.buf)
         /\ \A i \in 1..Len(ref) : x.buf[i] = ref[i]
<1>1. /\ Sized(x) /\ ref \in Seq(Nat) /\ Len(ref) = BytesOf(x.size, x.width)
      /\ \A i \in 1..Len(ref) : x.buf[i] = ref[i]
  BY DEF PodHolds
<1>2. x.size \in Nat /\ x.width \in Nat /\ x.size <= x.cap
  BY <1>1, SizedFacts
<1>3. BytesOf(x.size, x.width) \in Nat /\ BytesOf(x.size, x.width) <= Len(x.buf)
  BY <1>1, <1>2, SizedFacts
<1> QED
  BY <1>1, <1>2, <1>3

\* A reallocation to at least the size keeps the contents.
LEMMA ReallocatedHolds ==
  ASSUME NEW x, NEW ref, PodHolds(x, ref), NEW n \in Nat, x.size <= n
  PROVE  LET y == Reallocated(x, n)
         IN PodHolds(y, ref) /\ y.width = x.width /\ y.size = x.size /\ y.cap = n
<1> DEFINE y == Reallocated(x, n)
           k == BytesOf(x.size, x.width)
           m == BytesOf(n, x.width)
<1>1. /\ Sized(x) /\ x.width \in Nat /\ x.size \in Nat
      /\ ref \in Seq(Nat) /\ Len(ref) \in Nat /\ Len(ref) = k /\ k <= Len(x.buf)
      /\ \A i \in 1..Len(ref) : x.buf[i] = ref[i]
  BY HoldsFacts
<1>2. x \in PodRec /\ x.sound
  BY <1>1, SizedFacts
<1>3. m \in Nat
  BY <1>1, Bytes
<1>4. /\ y \in PodRec /\ y.width = x.width /\ y.cap = n /\ y.size = x.size
      /\ Len(y.buf) = m /\ y.sound = x.sound
      /\ \A i \in 1..k : y.buf[i] = x.buf[i]
  BY <1>1, <1>2, ReallocatedIs
<1> HIDE DEF y, k, m
<1>5. BytesOf(y.cap, y.width) = m /\ BytesOf(y.size, y.width) = k
  BY <1>4 DEF m, k
<1>6. Sized(y)
  BY <1>2, <1>3, <1>4, <1>5 DEF Sized
<1>7. PodHolds(y, ref)
  BY <1>1, <1>4, <1>5, <1>6 DEF PodHolds
<1> QED
  BY <1>4, <1>7 DEF y

\* reserve keeps the contents, and there is room for what was asked.
LEMMA ReservedHolds ==
  ASSUME NEW x, NEW ref, PodHolds(x, ref), NEW want \in Nat
  PROVE  LET y == PodReserved(x, want)
         IN PodHolds(y, ref) /\ y.width = x.width /\ y.size = x.size /\ y.cap >= want
<1> DEFINE y == PodReserved(x, want)
           n == NewCapacity(x.cap, want)
<1>0. x.size \in Nat /\ x.cap \in Nat /\ x.size <= x.cap
  BY HoldsFacts, SizedFacts
<1>1. CASE want <= x.cap
  <2>1. y = x
    BY <1>1 DEF PodReserved
  <2> HIDE DEF y
  <2> QED
    BY <1>0, <1>1, <2>1 DEF y
<1>2. CASE ~(want <= x.cap)
  <2>1. n \in Nat /\ n >= want
    BY <1>0, <1>2, NewCapacityIs
  <2>2. y = Reallocated(x, n)
    BY <1>2 DEF PodReserved
  <2> HIDE DEF y, n
  <2>3. x.size <= n
    BY <1>0, <1>2, <2>1
  <2>4. PodHolds(y, ref) /\ y.width = x.width /\ y.size = x.size /\ y.cap = n
    BY <2>1, <2>2, <2>3, ReallocatedHolds
  <2> QED
    BY <2>1, <2>4 DEF y
<1> QED
  BY <1>1, <1>2

\* The bytes of the buffer with those from a place on replaced.
WrittenBy(ref, x, from, bytes) ==
  \A i \in 1..Len(ref) :
    ref[i] = IF from < i /\ i <= from + Len(bytes) THEN bytes[i - from] ELSE x.buf[i]

\* A write within the capacity leaves the buffer as large as it was believed to be.
LEMMA WrittenSized ==
  ASSUME NEW x, Sized(x), NEW at \in Nat, NEW bytes \in Seq(Int),
         \E n \in Nat : n <= x.cap /\ BytesOf(at, x.width) + Len(bytes) <= BytesOf(n, x.width)
  PROVE  LET y == Write(x, at, bytes)
             from == BytesOf(at, x.width)
         IN /\ Sized(y) /\ y.width = x.width /\ y.cap = x.cap /\ y.size = x.size
            /\ Len(y.buf) = Len(x.buf)
            /\ \A i \in 1..Len(x.buf) :
                 y.buf[i] = IF from < i /\ i <= from + Len(bytes) THEN bytes[i - from] ELSE x.buf[i]
<1> DEFINE y == Write(x, at, bytes)
           from == BytesOf(at, x.width)
<1>1. x \in PodRec /\ x.sound /\ x.width \in Nat /\ Len(x.buf) \in Nat /\ x.size <= x.cap
      /\ BytesOf(x.cap, x.width) <= Len(x.buf)
  BY SizedFacts DEF Sized
<1>2. from \in Nat /\ Len(bytes) \in Nat
  <2>1. from \in Nat
    BY <1>1, Bytes
  <2>2. Len(bytes) \in Nat
    OBVIOUS
  <2> QED
    BY <2>1, <2>2
<1>3. /\ y \in PodRec /\ y.width = x.width /\ y.cap = x.cap /\ y.size = x.size
      /\ Len(y.buf) = Len(x.buf)
      /\ y.sound = (x.sound /\ from + Len(bytes) <= Len(x.buf))
      /\ \A i \in 1..Len(x.buf) :
           y.buf[i] = IF from < i /\ i <= from + Len(bytes) THEN bytes[i - from] ELSE x.buf[i]
  <2>1. x \in PodRec /\ at \in Nat /\ bytes \in Seq(Int)
    BY <1>1
  <2>2. /\ y \in PodRec /\ y.width = x.width /\ y.cap = x.cap /\ y.size = x.size
        /\ Len(y.buf) = Len(x.buf)
    BY ONLY <2>1, WriteIs
  <2>3. y.sound = (x.sound /\ from + Len(bytes) <= Len(x.buf))
    BY ONLY <2>1, WriteIs
  <2>4. \A i \in 1..Len(x.buf) :
          y.buf[i] = IF from < i /\ i <= from + Len(bytes) THEN bytes[i - from] ELSE x.buf[i]
    BY ONLY <2>1, WriteIs
  <2> HIDE DEF y, from
  <2> QED
    BY ONLY <2>2, <2>3, <2>4
<1>4. from + Len(bytes) <= Len(x.buf)
  <2>1. PICK n \in Nat : n <= x.cap /\ from + Len(bytes) <= BytesOf(n, x.width)
    OBVIOUS
  <2>2. BytesOf(n, x.width) \in Nat /\ BytesOf(n, x.width) <= Len(x.buf)
    BY <2>1, SizedFacts
  <2> HIDE DEF from
  <2> QED
    BY <1>1, <1>2, <2>1, <2>2
<1> HIDE DEF y, from
<1>5. Sized(y)
  BY <1>1, <1>3, <1>4 DEF Sized
<1> QED
  BY <1>3, <1>5 DEF y, from

\* Once the end is set, what is in front of it is what the vector holds.
LEMMA EndedHolds ==
  ASSUME NEW x, Sized(x), NEW n \in Nat, n <= x.cap,
         NEW ref \in Seq(Nat), Len(ref) = BytesOf(n, x.width),
         \A i \in 1..Len(ref) : x.buf[i] = ref[i]
  PROVE  LET y == SetSize(x, n)
         IN PodHolds(y, ref) /\ y.width = x.width /\ y.size = n /\ y.cap = x.cap
<1> DEFINE y == SetSize(x, n)
           to == BytesOf(n, x.width)
<1>1. /\ x \in PodRec /\ x.sound /\ Len(x.buf) \in Nat /\ to \in Nat /\ to <= Len(x.buf)
      /\ BytesOf(x.cap, x.width) <= Len(x.buf)
  BY SizedFacts DEF Sized
<1>2. /\ y \in PodRec /\ y.width = x.width /\ y.cap = x.cap /\ y.size = n
      /\ Len(y.buf) = Len(x.buf)
      /\ y.sound = (x.sound /\ to <= Len(x.buf))
      /\ \A i \in 1..Len(x.buf) : i <= to => y.buf[i] = x.buf[i]
  BY <1>1, SetSizeIs
<1> HIDE DEF y
<1>3. Sized(y)
  BY <1>1, <1>2 DEF Sized
<1>4. Len(ref) = BytesOf(y.size, y.width)
  BY <1>2
<1> HIDE DEF to
<1>5. ASSUME NEW i \in 1..Len(ref) PROVE y.buf[i] = ref[i]
  <2>1. i \in 1..Len(x.buf) /\ i <= to
    BY <1>1 DEF to
  <2> QED
    BY <1>2, <2>1
<1>6. PodHolds(y, ref)
  BY <1>3, <1>4, <1>5 DEF PodHolds
<1> QED
  BY <1>2, <1>6 DEF y

\* An element, several times.
LEMMA RepeatIs ==
  ASSUME NEW w \in Nat \ {0}, NEW elem \in [1..w -> Nat], NEW m \in Int
  PROVE  LET b == Repeat(m, elem)
         IN /\ b \in Seq(Nat) /\ b \in Seq(Int)
            /\ Len(b) = IF m >= 0 THEN BytesOf(m, w) ELSE 0
            /\ \A i \in Int : ((i - 1) % w) + 1 \in 1..w
            /\ \A i \in 1..Len(b) : b[i] = elem[((i - 1) % w) + 1]
<1> DEFINE b == Repeat(m, elem)
           n == IF m >= 0 THEN m * w ELSE 0
<1>1. elem \in Seq(Nat) /\ Len(elem) = w
  OBVIOUS
<1>2. \A i \in Int : ((i - 1) % w) + 1 \in 1..w
  OBVIOUS
<1>3. n \in Nat /\ 1..m * w = 1..n
  <2>1. CASE m >= 0
    BY <2>1
  <2>2. CASE ~(m >= 0)
    <3>1. m * w <= 0
      <4>1. -m \in Nat /\ (-m) * w \in Nat
        BY <2>2
      <4>2. m * w = -((-m) * w)
        OBVIOUS
      <4> QED
        BY <4>1, <4>2
    <3>2. m * w \in Int
      OBVIOUS
    <3> QED
      BY <2>2, <3>1, <3>2
  <2> QED
    BY <2>1, <2>2
<1>4. b = [i \in 1..m * w |-> elem[((i - 1) % w) + 1]]
  BY <1>1 DEF Repeat
<1>5. n = IF m >= 0 THEN BytesOf(m, w) ELSE 0
  BY DEF BytesOf
<1> HIDE DEF b, n
<1>6. \A i \in 1..n : b[i] = elem[((i - 1) % w) + 1] /\ i \in Int
  BY <1>3, <1>4
<1>7. b \in [1..n -> Nat]
  <2>1. \A i \in 1..n : b[i] \in Nat
    BY <1>2, <1>6
  <2>2. b = [i \in 1..n |-> b[i]]
    BY <1>3, <1>4
  <2> QED
    BY <2>1, <2>2
<1>8. b \in Seq(Nat) /\ b \in Seq(Int) /\ Len(b) = n
  BY <1>3, <1>7
<1> QED
  BY <1>2, <1>5, <1>6, <1>8 DEF b

\* Bytes are moved to where they are wanted, and the others stay.
LEMMA MoveIs ==
  ASSUME NEW x, Sized(x), NEW from \in Nat, NEW to \in Nat, NEW n \in Nat,
         from + n <= x.cap, to + n <= x.cap
  PROVE  LET y == MoveBytes(x, from, to, n)
             a == BytesOf(from, x.width)
             b == BytesOf(to, x.width)
             l == BytesOf(n, x.width)
         IN /\ Sized(y) /\ y.width = x.width /\ y.cap = x.cap /\ y.size = x.size
            /\ Len(y.buf) = Len(x.buf)
            /\ \A i \in 1..Len(x.buf) :
                 y.buf[i] = IF b < i /\ i <= b + l THEN x.buf[i - b + a] ELSE x.buf[i]
<1> DEFINE y == MoveBytes(x, from, to, n)
           a == BytesOf(from, x.width)
           b == BytesOf(to, x.width)
           l == BytesOf(n, x.width)
           bytes == SubSeq(x.buf, a + 1, a + l)
           z == Write(x, to, bytes)
<1>1. /\ x \in PodRec /\ x.sound /\ x.width \in Nat /\ Len(x.buf) \in Nat /\ x.size <= x.cap
      /\ x.buf \in Seq(Int)
  BY SizedFacts
<1>2. a \in Nat /\ b \in Nat /\ l \in Nat
  BY <1>1, Bytes
<1>3. a + l = BytesOf(from + n, x.width) /\ b + l = BytesOf(to + n, x.width)
  BY <1>1, Bytes
<1>4. a + l <= Len(x.buf)
  BY <1>3, SizedFacts
<1>5. bytes \in Seq(Int) /\ Len(bytes) = l /\ \A i \in 1..l : bytes[i] = x.buf[i + a]
  <2> HIDE DEF a, l
  <2>1. bytes \in Seq(Int) /\ Len(bytes) = l
    BY <1>1, <1>2, <1>4
  <2>2. ASSUME NEW i \in 1..l PROVE bytes[i] = x.buf[i + a]
    BY <1>1, <1>2, <1>4
  <2> QED
    BY <2>1, <2>2
<1>6. /\ Sized(z) /\ z.width = x.width /\ z.cap = x.cap /\ z.size = x.size
      /\ Len(z.buf) = Len(x.buf)
      /\ \A i \in 1..Len(x.buf) :
           z.buf[i] = IF b < i /\ i <= b + Len(bytes) THEN bytes[i - b] ELSE x.buf[i]
  <2>1. \E k \in Nat : k <= x.cap /\ BytesOf(to, x.width) + Len(bytes) <= BytesOf(k, x.width)
    <3>1. to + n \in Nat /\ to + n <= x.cap
      OBVIOUS
    <3>2. BytesOf(to, x.width) + Len(bytes) <= BytesOf(to + n, x.width)
      BY <1>2, <1>3, <1>5
    <3> HIDE DEF bytes
    <3> QED
      BY <3>1, <3>2
  <2> HIDE DEF bytes
  <2> QED
    BY <1>5, <2>1, WrittenSized
<1>7. y = IF n = 0 THEN x ELSE [z EXCEPT !.sound = @ /\ x.sound /\ InBuffer(x, from, n)]
  <2>1. from * x.width = a /\ (from + n) * x.width = a + l
    BY <1>3 DEF BytesOf
  <2> HIDE DEF a, l
  <2> QED
    BY <2>1 DEF MoveBytes
<1>8. InBuffer(x, from, n)
  BY <1>1, <1>3, <1>4 DEF InBuffer, BytesOf
<1>9. CASE n = 0
  <2>1. y = x /\ l = 0
    BY <1>1, <1>7, <1>9, Bytes
  <2> HIDE DEF y, a, b, l
  <2>2. \A i \in 1..Len(x.buf) : ~(b < i /\ i <= b + l)
    BY <1>2, <2>1
  <2> QED
    BY <2>1, <2>2 DEF y, b, l
<1>10. CASE n # 0
  <2>1. y = z
    <3> HIDE DEF z
    <3>1. z.sound = TRUE /\ z = [width |-> z.width, buf |-> z.buf, cap |-> z.cap,
                                 size |-> z.size, sound |-> z.sound]
      BY <1>6, PodFields DEF Sized, PodRec
    <3>2. y = [z EXCEPT !.sound = TRUE]
      BY <1>1, <1>7, <1>8, <1>10, <3>1
    <3> QED
      BY <3>1, <3>2
  <2> HIDE DEF y, z, a, b, l, bytes
  <2>2. ASSUME NEW i \in 1..Len(x.buf)
        PROVE  y.buf[i] = IF b < i /\ i <= b + l THEN x.buf[i - b + a] ELSE x.buf[i]
    <3>1. CASE b < i /\ i <= b + l
      <4>1. i - b \in 1..l
        BY <1>1, <1>2, <3>1
      <4>2. y.buf[i] = bytes[i - b] /\ bytes[i - b] = x.buf[i - b + a]
        BY <1>5, <1>6, <2>1, <3>1, <4>1
      <4> QED
        BY <3>1, <4>2
    <3>2. CASE ~(b < i /\ i <= b + l)
      BY <1>5, <1>6, <2>1, <3>2
    <3> QED
      BY <3>1, <3>2
  <2> QED
    BY <1>6, <2>1, <2>2 DEF y, a, b, l
<1> QED
  BY <1>9, <1>10

\* A vector that has written behind the end and moved it holds what it wrote as well.
LEMMA WrittenHolds ==
  ASSUME NEW x, Sized(x), NEW at \in Nat, NEW n \in Nat, n <= x.cap, NEW bytes \in Seq(Int),
         \E k \in Nat : k <= x.cap /\ BytesOf(at, x.width) + Len(bytes) <= BytesOf(k, x.width),
         NEW ref \in Seq(Nat), Len(ref) = BytesOf(n, x.width),
         WrittenBy(ref, x, BytesOf(at, x.width), bytes)
  PROVE  LET y == SetSize(Write(x, at, bytes), n)
         IN PodHolds(y, ref) /\ y.width = x.width /\ y.size = n
<1> DEFINE z == Write(x, at, bytes)
           from == BytesOf(at, x.width)
<1>1. /\ Sized(z) /\ z.width = x.width /\ z.cap = x.cap /\ z.size = x.size
      /\ Len(z.buf) = Len(x.buf)
      /\ \A i \in 1..Len(x.buf) :
           z.buf[i] = IF from < i /\ i <= from + Len(bytes) THEN bytes[i - from] ELSE x.buf[i]
  BY WrittenSized
<1> HIDE DEF z
<1>2. \A i \in 1..Len(ref) : i \in 1..Len(x.buf)
  <2>1. /\ BytesOf(n, x.width) \in Nat /\ BytesOf(n, x.width) <= Len(x.buf)
        /\ Len(x.buf) \in Nat
    BY SizedFacts
  <2> QED
    BY <2>1
<1>3. \A i \in 1..Len(ref) : z.buf[i] = ref[i]
  BY <1>1, <1>2 DEF WrittenBy
<1>4. n <= z.cap /\ Len(ref) = BytesOf(n, z.width)
  BY <1>1
<1>5. PodHolds(SetSize(z, n), ref) /\ SetSize(z, n).width = z.width /\ SetSize(z, n).size = n
  BY <1>1, <1>3, <1>4, EndedHolds
<1> QED
  BY <1>1, <1>5 DEF z

\* The bytes of a vector after resize: what is new is the element, again and again.
Extended(ref, to, elem, w) ==
  [i \in 1..to |-> IF i <= Len(ref) THEN ref[i] ELSE elem[((i - 1) % w) + 1]]

\* Both forms of resize: with zeros, or with an element in a vector that was empty.
LEMMA ExtendedHolds ==
  ASSUME NEW x, NEW ref, PodHolds(x, ref), x.width > 0, NEW n \in Nat,
         NEW elem \in [1..x.width -> Nat],
         x.size = 0 \/ \A i \in 1..x.width : elem[i] = 0
  PROVE  LET r == PodReserved(x, n)
             y == SetSize(Write(r, r.size, Repeat(n - r.size, elem)), n)
         IN /\ PodHolds(y, Extended(ref, BytesOf(n, x.width), elem, x.width))
            /\ y.width = x.width /\ y.size = n
<1> DEFINE w == x.width
           s == x.size
           r == PodReserved(x, n)
           bytes == Repeat(n - r.size, elem)
           to == BytesOf(n, w)
           from == BytesOf(s, w)
           ref2 == Extended(ref, to, elem, w)
<1>1. /\ w \in Nat \ {0} /\ s \in Nat /\ ref \in Seq(Nat) /\ Len(ref) \in Nat /\ Len(ref) = from
      /\ x.cap \in Nat
  BY HoldsFacts, SizedFacts
<1>2. PodHolds(r, ref) /\ r.width = w /\ r.size = s /\ r.cap >= n
  BY ReservedHolds
<1> HIDE DEF r
<1>3. /\ Sized(r) /\ r.cap \in Nat /\ s <= r.cap /\ n <= r.cap
      /\ \A i \in 1..Len(ref) : r.buf[i] = ref[i]
  BY <1>2, HoldsFacts, SizedFacts
<1>4. to \in Nat /\ from \in Nat
  BY <1>1, Bytes
<1>5. /\ bytes \in Seq(Int)
      /\ Len(bytes) = IF n - s >= 0 THEN BytesOf(n - s, w) ELSE 0
      /\ \A i \in Int : ((i - 1) % w) + 1 \in 1..w
      /\ \A i \in 1..Len(bytes) : bytes[i] = elem[((i - 1) % w) + 1]
  <2>1. n - s \in Int
    BY <1>1
  <2>2. bytes = Repeat(n - s, elem)
    BY <1>2
  <2> HIDE DEF bytes, w, s
  <2>3. elem \in [1..w -> Nat]
    BY DEF w
  <2> DEFINE m == n - s
             b == Repeat(m, elem)
  <2>4. /\ b \in Seq(Int)
        /\ Len(b) = IF m >= 0 THEN BytesOf(m, w) ELSE 0
        /\ \A i \in Int : ((i - 1) % w) + 1 \in 1..w
        /\ \A i \in 1..Len(b) : b[i] = elem[((i - 1) % w) + 1]
    <3>1. m \in Int /\ w \in Nat \ {0}
      BY <1>1, <2>1
    <3> HIDE DEF m, w
    <3> QED
      BY ONLY <2>3, <3>1, RepeatIs
  <2> QED
    BY <2>2, <2>4
<1> HIDE DEF bytes
<1>6. ref2 \in Seq(Nat) /\ Len(ref2) = to
      /\ \A i \in 1..to : ref2[i] = IF i <= Len(ref) THEN ref[i] ELSE elem[((i - 1) % w) + 1]
  <2> HIDE DEF to, w
  <2>1. ASSUME NEW i \in 1..to
        PROVE  (IF i <= Len(ref) THEN ref[i] ELSE elem[((i - 1) % w) + 1]) \in Nat
    <3>1. CASE i <= Len(ref)
      BY <1>1, <1>4, <3>1
    <3>2. CASE ~(i <= Len(ref))
      <4>1. ((i - 1) % w) + 1 \in 1..w
        BY <1>4, <1>5
      <4> QED
        BY <3>2, <4>1 DEF w
    <3> QED
      BY <3>1, <3>2
  <2>2. ref2 \in [1..to -> Nat]
    BY <2>1 DEF Extended
  <2> QED
    BY <1>4, <2>2 DEF Extended
<1>7. /\ from + Len(bytes) <= to \/ Len(bytes) = 0
      /\ s <= n => from + Len(bytes) = to
      /\ n <= s => to <= from /\ Len(bytes) = 0
  <2>1. CASE n <= s
    <3>1. to <= from
      BY <1>1, <2>1, Bytes
    <3>2. BytesOf(0, w) = 0
      BY <1>1, Bytes
    <3>3. Len(bytes) = 0
      <4>1. n - s = 0 \/ n - s < 0
        BY <1>1, <2>1
      <4> HIDE DEF w, s, bytes
      <4> QED
        BY <1>1, <1>5, <3>2, <4>1
    <3>4. s <= n => to = from
      <4>1. s <= n => s = n
        BY <1>1, <2>1
      <4> QED
        BY <4>1
    <3> HIDE DEF to, from, s, w
    <3> QED
      BY <1>4, <3>1, <3>3, <3>4
  <2>2. CASE ~(n <= s)
    <3>1. n - s \in Nat /\ n - s >= 0 /\ s + (n - s) = n
      BY <1>1, <2>2
    <3>2. BytesOf(s + (n - s), w) = BytesOf(s, w) + BytesOf(n - s, w)
      BY <1>1, <3>1, Bytes
    <3>3. Len(bytes) = BytesOf(n - s, w)
      BY <1>5, <3>1
    <3>4. from + Len(bytes) = to
      BY <3>1, <3>2, <3>3
    <3> HIDE DEF to, from, s, w
    <3> QED
      BY <1>4, <2>2, <3>4
  <2> QED
    BY <2>1, <2>2
<1>8. \E k \in Nat : k <= r.cap /\ BytesOf(s, r.width) + Len(bytes) <= BytesOf(k, r.width)
  <2>1. CASE s <= n
    <3>1. BytesOf(s, r.width) + Len(bytes) <= BytesOf(n, r.width)
      BY <1>2, <1>4, <1>7, <2>1
    <3> QED
      BY <1>3, <3>1
  <2>2. CASE ~(s <= n)
    <3>1. Len(bytes) = 0
      BY <1>1, <1>7, <2>2
    <3>2. BytesOf(s, r.width) + Len(bytes) <= BytesOf(s, r.width)
      BY <1>2, <1>4, <3>1
    <3> QED
      BY <1>1, <1>3, <3>2
  <2> QED
    BY <2>1, <2>2
<1>9. WrittenBy(ref2, r, BytesOf(s, r.width), bytes)
  <2> HIDE DEF ref2
  <2>1. ASSUME NEW i \in 1..Len(ref2)
        PROVE  ref2[i] = IF from < i /\ i <= from + Len(bytes) THEN bytes[i - from] ELSE r.buf[i]
    <3>0. i \in 1..to /\ i \in Nat /\ Len(bytes) \in Nat
      <4> HIDE DEF to
      <4>1. Len(bytes) \in Nat
        BY <1>5
      <4> QED
        BY <1>4, <1>6, <4>1
    <3> HIDE DEF to, from, w, s
    <3>1. CASE i <= Len(ref)
      <4>1. ref2[i] = ref[i] /\ i \in 1..Len(ref) /\ ~(from < i)
        BY <1>1, <1>4, <1>6, <3>0, <3>1
      <4> QED
        BY <1>3, <4>1
    <3>2. CASE ~(i <= Len(ref))
      <4>1. ref2[i] = elem[((i - 1) % w) + 1] /\ from < i
        BY <1>1, <1>4, <1>6, <3>0, <3>2
      <4>2. i <= from + Len(bytes) /\ i - from \in 1..Len(bytes)
        <5>1. s <= n
          BY <1>1, <1>4, <1>7, <3>0, <4>1
        <5> QED
          BY <1>4, <1>7, <3>0, <4>1, <5>1
      <4>3. bytes[i - from] = elem[((i - from - 1) % w) + 1]
        BY <1>5, <4>2
      <4>4. elem[((i - from - 1) % w) + 1] = elem[((i - 1) % w) + 1]
        <5>1. CASE s = 0
          <6>1. from = 0
            BY <1>1, <5>1, Bytes DEF from
          <6> QED
            BY <3>0, <6>1
        <5>2. CASE \A j \in 1..w : elem[j] = 0
          <6>1. ((i - from - 1) % w) + 1 \in 1..w /\ ((i - 1) % w) + 1 \in 1..w
            <7>1. i - from \in Int /\ i \in Int
              BY <1>4, <3>0
            <7> QED
              BY <1>5, <7>1
          <6> QED
            BY <5>2, <6>1
        <5> QED
          BY <5>1, <5>2 DEF s, w
      <4> QED
        BY <4>1, <4>2, <4>3, <4>4
    <3> QED
      BY <3>1, <3>2
  <2> QED
    BY <1>2, <2>1 DEF WrittenBy
<1> HIDE DEF ref2
<1>10. LET y == SetSize(Write(r, s, bytes), n)
       IN PodHolds(y, ref2) /\ y.width = r.width /\ y.size = n
  <2>1. Len(ref2) = BytesOf(n, r.width)
    BY <1>2, <1>6
  <2>2. /\ Sized(r) /\ s \in Nat /\ n \in Nat /\ n <= r.cap /\ bytes \in Seq(Int)
        /\ ref2 \in Seq(Nat)
    BY <1>1, <1>3, <1>5, <1>6
  <2> HIDE DEF to, from, w, s, bytes, ref2
  <2>3. PodHolds(SetSize(Write(r, s, bytes), n), ref2)
    BY ONLY <1>8, <1>9, <2>1, <2>2, WrittenHolds
  <2>4. SetSize(Write(r, s, bytes), n).width = r.width /\ SetSize(Write(r, s, bytes), n).size = n
    BY ONLY <1>8, <1>9, <2>1, <2>2, WrittenHolds
  <2> QED
    BY <2>3, <2>4
<1> QED
  BY <1>2, <1>10 DEF ref2, r, bytes

\* So many bytes are so many elements.
LEMMA WholeElements ==
  ASSUME NEW w \in Nat \ {0}
  PROVE  /\ \A n \in Nat : BytesOf(n, w) \div w = n
         /\ \A k \in Nat : k \div w \in Nat /\ BytesOf(k \div w, w) <= k
<1>1. ASSUME NEW n \in Nat PROVE BytesOf(n, w) \div w = n
  <2>1. (n * w) \div w = n
    OBVIOUS
  <2> QED
    BY <2>1 DEF BytesOf
<1>2. ASSUME NEW k \in Nat PROVE k \div w \in Nat /\ BytesOf(k \div w, w) <= k
  <2>1. k \div w \in Nat /\ k % w \in Nat /\ k = w * (k \div w) + (k % w)
    OBVIOUS
  <2>2. w * (k \div w) = (k \div w) * w
    BY <2>1
  <2>3. BytesOf(k \div w, w) = w * (k \div w)
    BY <2>2 DEF BytesOf
  <2>4. w * (k \div w) \in Nat
    BY <2>1
  <2> QED
    BY <2>1, <2>3, <2>4
<1> QED
  BY <1>1, <1>2

\* safe_grow: a buffer with the capacity for what was asked, with nothing in it.
LEMMA SafeGrownSized ==
  ASSUME NEW x, Sized(x), NEW want \in Nat
  PROVE  LET y == SafeGrown(x, want)
         IN Sized(y) /\ y.width = x.width /\ y.cap >= want
<1> DEFINE y == SafeGrown(x, want)
           c == NewCapacity(x.cap, want)
           b == JunkBytes(BytesOf(c, x.width))
<1>1. x \in PodRec /\ x.sound /\ x.width \in Nat /\ x.cap \in Nat
  BY SizedFacts
<1>2. CASE want <= x.cap
  <2>1. y = x
    BY <1>2 DEF SafeGrown
  <2> HIDE DEF y
  <2> QED
    BY <1>1, <1>2, <2>1 DEF y
<1>3. CASE ~(want <= x.cap)
  <2>1. c \in Nat /\ c >= want
    BY <1>1, <1>3, NewCapacityIs
  <2>2. y = [x EXCEPT !.cap = c, !.size = 0, !.buf = b]
    BY <1>3 DEF SafeGrown, BytesOf
  <2>3. BytesOf(c, x.width) \in Nat
    BY <1>1, <2>1, Bytes
  <2>4. b \in Seq(Int) /\ Len(b) = BytesOf(c, x.width)
    <3>1. b \in [1..BytesOf(c, x.width) -> Int]
      BY DEF JunkBytes, Junk
    <3> QED
      BY <2>3, <3>1
  <2>5. x = [width |-> x.width, buf |-> x.buf, cap |-> x.cap, size |-> x.size, sound |-> x.sound]
    BY <1>1, PodFields
  <2> HIDE DEF y, c, b
  <2>6. y = [width |-> x.width, buf |-> b, cap |-> c, size |-> 0, sound |-> x.sound]
    BY <2>2, <2>5
  <2>7. /\ y.width = x.width /\ y.buf = b /\ y.cap = c /\ y.size = 0 /\ y.sound = x.sound
    BY <2>6
  <2>8. y \in PodRec
    BY <1>1, <2>1, <2>4, <2>6, PodFields
  <2>9. Sized(y)
    BY <1>1, <2>1, <2>3, <2>4, <2>7, <2>8 DEF Sized
  <2> QED
    BY <2>1, <2>7, <2>9 DEF y
<1> QED
  BY <1>2, <1>3

\* assign: the vector holds what it was given.
LEMMA AssignedHolds ==
  ASSUME NEW x, Sized(x), x.width > 0, NEW bytes \in Seq(Nat),
         NEW n \in Nat, Len(bytes) = BytesOf(n, x.width)
  PROVE  LET y == PodAssigned(x, bytes)
         IN PodHolds(y, bytes) /\ y.width = x.width
<1> DEFINE g == SafeGrown(x, n)
           w == x.width
<1>1. w \in Nat \ {0}
  BY SizedFacts
<1>2. PodAssigned(x, bytes) = SetSize(Write(g, 0, bytes), n)
  <2>1. Len(bytes) \div x.width = n
    BY <1>1, WholeElements
  <2> QED
    BY <2>1 DEF PodAssigned
<1>3. Sized(g) /\ g.width = w /\ g.cap >= n
  BY SafeGrownSized
<1> HIDE DEF g
<1>4. BytesOf(0, g.width) = 0 /\ BytesOf(n, g.width) \in Nat /\ g.cap \in Nat
  BY <1>1, <1>3, Bytes, SizedFacts
<1>5. Len(bytes) = BytesOf(n, g.width) /\ bytes \in Seq(Int)
  <2>1. bytes \in Seq(Int)
    OBVIOUS
  <2> QED
    BY <1>3, <2>1
<1>6. n <= g.cap /\ BytesOf(0, g.width) + Len(bytes) <= BytesOf(n, g.width)
  BY <1>3, <1>4, <1>5
<1>7. WrittenBy(bytes, g, BytesOf(0, g.width), bytes)
  <2>1. \A i \in 1..Len(bytes) : 0 < i /\ i <= 0 + Len(bytes) /\ i - 0 = i
    OBVIOUS
  <2> QED
    BY <1>4, <2>1 DEF WrittenBy
<1>8. LET y == SetSize(Write(g, 0, bytes), n)
      IN PodHolds(y, bytes) /\ y.width = g.width /\ y.size = n
  <2>1. \E k \in Nat : k <= g.cap /\ BytesOf(0, g.width) + Len(bytes) <= BytesOf(k, g.width)
    BY <1>6
  <2>2. n \in Nat /\ 0 \in Nat /\ bytes \in Seq(Nat)
    OBVIOUS
  <2> QED
    BY ONLY <1>3, <1>5, <1>6, <1>7, <2>1, <2>2, WrittenHolds
<1> QED
  BY <1>2, <1>3, <1>8

\* push_back: the element is behind what was there.
LEMMA PushedHolds ==
  ASSUME NEW x, NEW ref, PodHolds(x, ref), NEW elem \in [1..x.width -> Nat]
  PROVE  LET y == Write(SetSize(PodReserved(x, x.size + 1), x.size + 1), x.size, elem)
         IN PodHolds(y, ref \o elem) /\ y.width = x.width
<1> DEFINE s == x.size
           w == x.width
           r == PodReserved(x, s + 1)
           z == SetSize(r, s + 1)
           y == Write(z, s, elem)
           k == Len(ref)
<1>1. s \in Nat /\ w \in Nat /\ ref \in Seq(Nat) /\ k \in Nat /\ k = BytesOf(s, w)
  BY HoldsFacts
<1>2. s + 1 \in Nat
  BY <1>1
<1>3. PodHolds(r, ref) /\ r.width = w /\ r.size = s /\ r.cap >= s + 1
  <2> HIDE DEF s
  <2>1. PodHolds(r, ref) /\ r.width = x.width /\ r.size = x.size /\ r.cap >= s + 1
    BY <1>2, ReservedHolds
  <2> QED
    BY <2>1 DEF s
<1> HIDE DEF r
<1>4. Sized(r) /\ r \in PodRec /\ r.sound /\ r.cap \in Nat /\ \A i \in 1..k : r.buf[i] = ref[i]
  BY <1>3, HoldsFacts, SizedFacts
<1>5. elem \in Seq(Int) /\ elem \in Seq(Nat) /\ Len(elem) = w
  <2>1. w \in Nat /\ elem \in [1..w -> Nat]
    BY <1>1
  <2> HIDE DEF w
  <2>2. elem \in Seq(Nat) /\ Len(elem) = w
    BY ONLY <2>1
  <2>3. elem \in Seq(Int)
    BY ONLY <2>2
  <2> QED
    BY ONLY <2>2, <2>3
<1>6. BytesOf(1, w) = w /\ BytesOf(s + 1, w) = k + w
  <2>1. BytesOf(1, w) = w
    BY <1>1 DEF BytesOf
  <2>2. BytesOf(s + 1, w) = BytesOf(s, w) + BytesOf(1, w)
    BY <1>1, Bytes
  <2> QED
    BY <1>1, <2>1, <2>2
<1>7. k + w <= Len(r.buf) /\ Len(r.buf) \in Nat
  <2>1. BytesOf(s + 1, r.width) <= Len(r.buf)
    BY <1>2, <1>3, <1>4, SizedFacts
  <2>2. Len(r.buf) \in Nat
    BY <1>4, SizedFacts
  <2> QED
    BY <1>3, <1>6, <2>1, <2>2
<1>8. /\ z \in PodRec /\ z.width = w /\ z.cap = r.cap /\ z.size = s + 1
      /\ Len(z.buf) = Len(r.buf) /\ z.sound
      /\ \A i \in 1..Len(r.buf) : i <= k + w => z.buf[i] = r.buf[i]
  <2> DEFINE n == s + 1
             u == SetSize(r, n)
  <2>1. /\ u \in PodRec /\ u.width = r.width /\ u.cap = r.cap /\ u.size = n
        /\ Len(u.buf) = Len(r.buf)
        /\ u.sound = (r.sound /\ BytesOf(n, r.width) <= Len(r.buf))
        /\ \A i \in 1..Len(r.buf) : i <= BytesOf(n, r.width) => u.buf[i] = r.buf[i]
    <3>1. n \in Nat
      BY <1>2
    <3> HIDE DEF n
    <3> QED
      BY ONLY <1>4, <3>1, SetSizeIs
  <2>2. BytesOf(n, r.width) = k + w
    BY <1>3, <1>6
  <2>3. z = u
    OBVIOUS
  <2> HIDE DEF n, u, z
  <2> QED
    BY <1>3, <1>4, <1>7, <2>1, <2>2, <2>3 DEF n
<1> HIDE DEF z
<1>9. Sized(z)
  <2>1. z.size <= z.cap /\ BytesOf(z.cap, z.width) <= Len(z.buf)
    BY <1>3, <1>4, <1>8 DEF Sized
  <2> QED
    BY <1>8, <2>1 DEF Sized
<1>10. /\ Sized(y) /\ y.width = w /\ y.cap = z.cap /\ y.size = s + 1
       /\ \A i \in 1..Len(z.buf) :
            y.buf[i] = IF k < i /\ i <= k + w THEN elem[i - k] ELSE z.buf[i]
  <2> DEFINE from == BytesOf(s, z.width)
  <2>1. \E n \in Nat : n <= z.cap /\ from + Len(elem) <= BytesOf(n, z.width)
    <3>1. from + Len(elem) <= BytesOf(s + 1, z.width)
      BY <1>1, <1>5, <1>6, <1>8
    <3>2. s + 1 <= z.cap
      BY <1>3, <1>8
    <3> QED
      BY <1>2, <3>1, <3>2
  <2>2. /\ Sized(y) /\ y.width = z.width /\ y.cap = z.cap /\ y.size = z.size
        /\ \A i \in 1..Len(z.buf) :
             y.buf[i] = IF from < i /\ i <= from + Len(elem) THEN elem[i - from] ELSE z.buf[i]
    <3>1. s \in Nat
      BY <1>1
    <3> HIDE DEF s, w
    <3> QED
      BY ONLY <1>5, <1>9, <2>1, <3>1, WrittenSized
  <2>3. from = k /\ Len(elem) = w
    BY <1>1, <1>5, <1>8
  <2> HIDE DEF from, y, s, w, k
  <2> QED
    BY <1>8, <2>2, <2>3
<1> HIDE DEF y
<1>11. /\ ref \o elem \in Seq(Nat) /\ Len(ref \o elem) = k + w
       /\ \A i \in 1..k + w : (ref \o elem)[i] = IF k < i THEN elem[i - k] ELSE ref[i]
  <2>1. ref \in Seq(Nat) /\ elem \in Seq(Nat) /\ Len(ref) = k /\ Len(elem) = w /\ k \in Nat
        /\ w \in Nat
    BY <1>1, <1>5
  <2> HIDE DEF k, w
  <2> DEFINE both == ref \o elem
  <2>2. /\ both \in Seq(Nat) /\ Len(both) = Len(ref) + Len(elem)
        /\ \A j \in 1..Len(ref) : both[j] = ref[j]
        /\ \A j \in 1..Len(elem) : both[Len(ref) + j] = elem[j]
    <3>1. PICK S : S = Nat
      OBVIOUS
    <3>2. ref \in Seq(S) /\ elem \in Seq(S)
      BY ONLY <2>1, <3>1
    <3>3. /\ ref \o elem \in Seq(S) /\ Len(ref \o elem) = Len(ref) + Len(elem)
          /\ \A j \in 1..Len(ref) : (ref \o elem)[j] = ref[j]
          /\ \A j \in 1..Len(elem) : (ref \o elem)[Len(ref) + j] = elem[j]
      BY ONLY <3>2, ConcatIs
    <3> QED
      BY ONLY <3>1, <3>3
  <2> HIDE DEF both
  <2>3. \A i \in 1..k + w : both[i] = IF k < i THEN elem[i - k] ELSE ref[i]
    <3>1. ASSUME NEW i \in 1..k + w PROVE both[i] = IF k < i THEN elem[i - k] ELSE ref[i]
      <4>1. CASE k < i
        <5>1. i - k \in 1..Len(elem) /\ Len(ref) + (i - k) = i
          BY ONLY <2>1, <4>1, i \in 1..k + w
        <5> QED
          BY ONLY <2>2, <4>1, <5>1
      <4>2. CASE ~(k < i)
        <5>1. i \in 1..Len(ref)
          BY ONLY <2>1, <4>2, i \in 1..k + w
        <5> QED
          BY ONLY <2>2, <4>2, <5>1
      <4> QED
        BY <4>1, <4>2
    <3> QED
      BY ONLY <3>1
  <2>4. both \in Seq(Nat) /\ Len(both) = k + w
    BY ONLY <2>1, <2>2
  <2> QED
    BY ONLY <2>3, <2>4 DEF both
<1>12. \A i \in 1..Len(ref \o elem) : y.buf[i] = (ref \o elem)[i]
  <2>1. ASSUME NEW i \in 1..k + w PROVE y.buf[i] = (ref \o elem)[i]
    <3>1. i \in 1..Len(r.buf) /\ i <= k + w
      BY <1>1, <1>7
    <3>2. y.buf[i] = IF k < i THEN elem[i - k] ELSE r.buf[i]
      BY <1>8, <1>10, <3>1
    <3>3. ~(k < i) => r.buf[i] = ref[i]
      BY <1>1, <1>4
    <3> QED
      BY <1>11, <3>2, <3>3
  <2> QED
    BY <1>11, <2>1
<1>13. Len(ref \o elem) = BytesOf(y.size, y.width)
  BY <1>6, <1>10, <1>11
<1> HIDE DEF k
<1>14. PodHolds(y, ref \o elem)
  BY <1>10, <1>11, <1>12, <1>13 DEF PodHolds
<1> QED
  BY <1>10, <1>14 DEF y, z, r

\* A sequence of three parts.
LEMMA ThreeParts ==
  ASSUME NEW S, NEW a \in Seq(S), NEW b \in Seq(S), NEW c \in Seq(S)
  PROVE  LET d == a \o b \o c
         IN /\ d \in Seq(S) /\ Len(d) = Len(a) + Len(b) + Len(c)
            /\ \A i \in 1..Len(a) : d[i] = a[i]
            /\ \A i \in 1..Len(b) : d[Len(a) + i] = b[i]
            /\ \A i \in 1..Len(c) : d[Len(a) + Len(b) + i] = c[i]
<1> DEFINE ab == a \o b
           d == ab \o c
<1>0. Len(a) \in Nat /\ Len(b) \in Nat /\ Len(c) \in Nat
  OBVIOUS
<1>1. /\ ab \in Seq(S) /\ Len(ab) = Len(a) + Len(b)
      /\ \A i \in 1..Len(a) : ab[i] = a[i]
      /\ \A i \in 1..Len(b) : ab[Len(a) + i] = b[i]
  BY ConcatIs
<1> HIDE DEF ab
<1>2. /\ d \in Seq(S) /\ Len(d) = Len(ab) + Len(c)
      /\ \A i \in 1..Len(ab) : d[i] = ab[i]
      /\ \A i \in 1..Len(c) : d[Len(ab) + i] = c[i]
  <2>1. ab \in Seq(S) /\ c \in Seq(S)
    BY <1>1
  <2> QED
    BY ONLY <2>1, ConcatIs
<1>3. d = a \o b \o c
  BY DEF ab
<1> HIDE DEF d
<1>4. ASSUME NEW i \in 1..Len(a) PROVE d[i] = a[i]
  <2>1. i \in 1..Len(ab)
    BY <1>0, <1>1
  <2> QED
    BY <1>1, <1>2, <2>1
<1>5. ASSUME NEW i \in 1..Len(b) PROVE d[Len(a) + i] = b[i]
  <2>1. Len(a) + i \in 1..Len(ab)
    BY <1>0, <1>1
  <2> QED
    BY <1>1, <1>2, <2>1
<1>6. \A i \in 1..Len(c) : d[Len(a) + Len(b) + i] = c[i]
  BY <1>1, <1>2
<1>7. d \in Seq(S) /\ Len(d) = Len(a) + Len(b) + Len(c)
  BY <1>1, <1>2
<1> QED
  BY <1>3, <1>4, <1>5, <1>6, <1>7

\* The buffer holds the bytes with a hole of g bytes behind the first a of them.
Gapped(buf, ref, a, g) ==
  /\ \A i \in 1..a : buf[i] = ref[i]
  /\ \A i \in a + 1..Len(ref) : buf[i + g] = ref[i]

\* Moving what is behind a place leaves a hole there.
LEMMA GapMade ==
  ASSUME NEW x, NEW ref, PodHolds(x, ref), NEW pos \in Nat, pos <= x.size,
         NEW num \in Nat, x.size + num <= x.cap
  PROVE  LET y == MakeGap(x, pos, num)
             a == BytesOf(pos, x.width)
             g == BytesOf(num, x.width)
         IN /\ Sized(y) /\ y.width = x.width /\ y.cap = x.cap
            /\ Gapped(y.buf, ref, a, g)
<1> DEFINE s == x.size
           w == x.width
           l == BytesOf(s - pos, w)
           a == BytesOf(pos, w)
           g == BytesOf(num, w)
           b == BytesOf(pos + num, w)
           y == MakeGap(x, pos, num)
<1>1. /\ Sized(x) /\ s \in Nat /\ w \in Nat /\ Len(ref) \in Nat /\ Len(ref) = BytesOf(s, w)
      /\ Len(ref) <= Len(x.buf) /\ \A i \in 1..Len(ref) : x.buf[i] = ref[i]
  BY HoldsFacts
<1>2. x.cap \in Nat /\ Len(x.buf) \in Nat
  BY <1>1, SizedFacts
<1>3. s - pos \in Nat /\ pos + (s - pos) = s /\ (pos + num) + (s - pos) = s + num
  BY <1>1
<1>4. a \in Nat /\ g \in Nat /\ l \in Nat /\ b = a + g /\ a + l = Len(ref)
      /\ b + l = BytesOf(s + num, w)
  <2>1. a \in Nat /\ g \in Nat /\ l \in Nat /\ b = a + g
    <3> DEFINE n == s - pos
    <3>1. w \in Nat /\ pos \in Nat /\ num \in Nat /\ n \in Nat
      BY <1>1, <1>3
    <3> HIDE DEF n, w
    <3>2. BytesOf(pos, w) \in Nat /\ BytesOf(num, w) \in Nat /\ BytesOf(n, w) \in Nat
      BY ONLY <3>1, Bytes
    <3>3. BytesOf(pos + num, w) = BytesOf(pos, w) + BytesOf(num, w)
      BY ONLY <3>1, Bytes
    <3> QED
      BY ONLY <3>2, <3>3 DEF n
  <2>2. BytesOf(pos + (s - pos), w) = a + l
    BY <1>1, <1>3, Bytes
  <2>3. BytesOf((pos + num) + (s - pos), w) = b + l
    <3> DEFINE n == s - pos
               to == pos + num
    <3>1. n \in Nat /\ to \in Nat /\ w \in Nat
      BY <1>1, <1>3
    <3> HIDE DEF n, to, w
    <3>2. BytesOf(to + n, w) = BytesOf(to, w) + BytesOf(n, w)
      BY ONLY <3>1, Bytes
    <3> QED
      BY <3>2 DEF n, to
  <2> QED
    BY <1>1, <1>3, <2>1, <2>2, <2>3
<1>5. b + l <= Len(x.buf)
  BY <1>1, <1>4, SizedFacts
<1>6. /\ Sized(y) /\ y.width = x.width /\ y.cap = x.cap
      /\ \A i \in 1..Len(x.buf) :
           y.buf[i] = IF b < i /\ i <= b + l THEN x.buf[i - b + a] ELSE x.buf[i]
  <2> DEFINE n == s - pos
             to == pos + num
             z == MoveBytes(x, pos, to, n)
             d == BytesOf(to, w)
             k == BytesOf(n, w)
  <2>1. n \in Nat /\ to \in Nat /\ pos + n <= x.cap /\ to + n <= x.cap
    BY <1>1, <1>2, <1>3, SizedFacts
  <2>2. /\ Sized(z) /\ z.width = x.width /\ z.cap = x.cap
        /\ \A i \in 1..Len(x.buf) :
             z.buf[i] = IF d < i /\ i <= d + k THEN x.buf[i - d + a] ELSE x.buf[i]
    <3>1. pos \in Nat
      OBVIOUS
    <3> HIDE DEF n, to
    <3> QED
      BY ONLY <1>1, <2>1, <3>1, MoveIs
  <2>3. y = z /\ d = b /\ k = l
    BY DEF MakeGap
  <2> HIDE DEF z, y, d, k, b, l
  <2> QED
    BY <2>2, <2>3
<1> HIDE DEF y, a, b, g, l
<1>7. ASSUME NEW i \in 1..a PROVE y.buf[i] = ref[i]
  <2>1. i \in 1..Len(x.buf) /\ i \in 1..Len(ref) /\ ~(b < i)
    BY <1>1, <1>2, <1>4, <1>5
  <2> QED
    BY <1>1, <1>6, <2>1
<1>8. ASSUME NEW i \in a + 1..Len(ref) PROVE y.buf[i + g] = ref[i]
  <2>1. /\ i + g \in 1..Len(x.buf) /\ i \in 1..Len(ref) /\ b < i + g /\ i + g <= b + l
        /\ i + g - b + a = i
    BY <1>1, <1>2, <1>4, <1>5
  <2> DEFINE j == i + g
  <2>2. j \in 1..Len(x.buf) /\ b < j /\ j <= b + l /\ j - b + a = i
    BY <1>1, <1>4, <2>1
  <2> HIDE DEF j
  <2>3. y.buf[j] = x.buf[j - b + a]
    BY <1>6, <2>2
  <2>4. y.buf[j] = ref[i]
    BY <1>1, <2>1, <2>2, <2>3
  <2> QED
    BY <2>4 DEF j
<1>9. Gapped(y.buf, ref, a, g)
  BY <1>7, <1>8 DEF Gapped
<1> QED
  BY <1>6, <1>9 DEF y, a, g

\* A new buffer that what is behind the hole is copied to directly.
LEMMA GapCopied ==
  ASSUME NEW x, NEW ref, PodHolds(x, ref), NEW pos \in Nat, pos <= x.size,
         NEW num \in Nat, x.cap < x.size + num
  PROVE  LET y == GrowCopied(x, pos, num)
             a == BytesOf(pos, x.width)
             g == BytesOf(num, x.width)
         IN /\ Sized(y) /\ y.width = x.width /\ y.cap >= x.size + num
            /\ Gapped(y.buf, ref, a, g)
<1> DEFINE s == x.size
           w == x.width
           a == BytesOf(pos, w)
           g == BytesOf(num, w)
           e == BytesOf(s, w)
           c == NewCapacity(x.cap, s + num)
           rest == BytesOf(c - s - num, w)
           head == SubSeq(x.buf, 1, a)
           tail == SubSeq(x.buf, a + 1, e)
           b == head \o JunkBytes(g) \o tail \o JunkBytes(rest)
           y == GrowCopied(x, pos, num)
<1>1. /\ Sized(x) /\ s \in Nat /\ w \in Nat /\ Len(ref) \in Nat /\ Len(ref) = e
      /\ Len(ref) <= Len(x.buf) /\ \A i \in 1..Len(ref) : x.buf[i] = ref[i]
  BY HoldsFacts
<1>2. /\ x \in PodRec /\ x.sound /\ x.cap \in Nat /\ Len(x.buf) \in Nat /\ x.buf \in Seq(Int)
      /\ s <= x.cap
  BY <1>1, SizedFacts
<1>3. c \in Nat /\ c >= s + num
  <2>1. s + num \in Nat
    BY <1>1
  <2> QED
    BY <1>2, <2>1, NewCapacityIs
<1> HIDE DEF c
<1>4. y = [x EXCEPT !.cap = c, !.buf = b]
  BY DEF GrowCopied, BytesOf, c
<1> HIDE DEF y
<1>5. /\ a \in Nat /\ g \in Nat /\ e \in Nat /\ rest \in Nat /\ a <= e
      /\ e + g + rest = BytesOf(c, w)
  <2>1. c - s - num \in Nat /\ (s + num) + (c - s - num) = c /\ s + num \in Nat
    <3>1. s \in Nat /\ num \in Nat /\ c \in Nat /\ c >= s + num
      BY <1>1, <1>3
    <3> HIDE DEF s
    <3> QED
      BY ONLY <3>1
  <2>2. a \in Nat /\ g \in Nat /\ e \in Nat /\ rest \in Nat /\ a <= e
    BY <1>1, <2>1, Bytes
  <2>3. BytesOf((s + num) + (c - s - num), w) = BytesOf(s + num, w) + rest
    <3> DEFINE i == s + num
               j == c - s - num
    <3>1. i \in Nat /\ j \in Nat /\ w \in Nat
      BY <1>1, <2>1
    <3> HIDE DEF i, j, w
    <3>2. BytesOf(i + j, w) = BytesOf(i, w) + BytesOf(j, w)
      BY ONLY <3>1, Bytes
    <3> QED
      BY <3>2 DEF i, j
  <2>4. BytesOf(s + num, w) = e + g
    BY <1>1, Bytes
  <2> QED
    BY <2>1, <2>2, <2>3, <2>4
<1> HIDE DEF a, g, e, rest
<1>6. /\ head \in Seq(Int) /\ Len(head) = a /\ \A i \in 1..a : head[i] = x.buf[i]
  <2>1. head \in Seq(Int) /\ Len(head) = a
    BY <1>1, <1>2, <1>5
  <2>2. \A i \in 1..a : head[i] = x.buf[i]
    BY <1>1, <1>2, <1>5
  <2> QED
    BY <2>1, <2>2
<1>7. /\ tail \in Seq(Int) /\ Len(tail) = e - a /\ \A i \in 1..e - a : tail[i] = x.buf[i + a]
  <2>1. tail \in Seq(Int) /\ Len(tail) = e - a
    BY <1>1, <1>2, <1>5
  <2>2. \A i \in 1..e - a : tail[i] = x.buf[i + a]
    BY <1>1, <1>2, <1>5
  <2> QED
    BY <2>1, <2>2
<1>8. \A n \in Nat : JunkBytes(n) \in Seq(Int) /\ Len(JunkBytes(n)) = n
  <2>1. \A n \in Nat : JunkBytes(n) \in [1..n -> Int]
    BY DEF JunkBytes, Junk
  <2>2. ASSUME NEW n \in Nat PROVE JunkBytes(n) \in Seq(Int) /\ Len(JunkBytes(n)) = n
    BY <2>1
  <2> QED
    BY <2>2
<1> HIDE DEF head, tail
<1>9. /\ b \in Seq(Int) /\ Len(b) = e + g + rest
      /\ \A i \in 1..a : b[i] = head[i]
      /\ \A i \in 1..e - a : b[a + g + i] = tail[i]
  <2> DEFINE j == JunkBytes(g)
             k == JunkBytes(rest)
             hjt == head \o j \o tail
  <2>1. j \in Seq(Int) /\ Len(j) = g /\ k \in Seq(Int) /\ Len(k) = rest
    BY <1>5, <1>8
  <2>4. b = hjt \o k
    OBVIOUS
  <2> HIDE DEF j, k, b
  <2>2. /\ hjt \in Seq(Int) /\ Len(hjt) = Len(head) + Len(j) + Len(tail)
        /\ \A i \in 1..Len(head) : hjt[i] = head[i]
        /\ \A i \in 1..Len(tail) : hjt[Len(head) + Len(j) + i] = tail[i]
    <3>1. head \in Seq(Int) /\ j \in Seq(Int) /\ tail \in Seq(Int)
      BY <1>6, <1>7, <2>1
    <3>2. hjt = head \o j \o tail
      OBVIOUS
    <3> HIDE DEF hjt
    <3>3. /\ head \o j \o tail \in Seq(Int)
          /\ Len(head \o j \o tail) = Len(head) + Len(j) + Len(tail)
      BY ONLY <3>1, ThreeParts
    <3>4. \A i \in 1..Len(head) : (head \o j \o tail)[i] = head[i]
      BY ONLY <3>1, ThreeParts
    <3>5. \A i \in 1..Len(tail) : (head \o j \o tail)[Len(head) + Len(j) + i] = tail[i]
      BY ONLY <3>1, ThreeParts
    <3> QED
      BY ONLY <3>2, <3>3, <3>4, <3>5
  <2> HIDE DEF hjt
  <2>3. /\ hjt \in Seq(Int) /\ Len(hjt) = e + g
        /\ \A i \in 1..a : hjt[i] = head[i]
        /\ \A i \in 1..e - a : hjt[a + g + i] = tail[i]
    BY <1>5, <1>6, <1>7, <2>1, <2>2
  <2>9. /\ b \in Seq(Int) /\ Len(b) = Len(hjt) + Len(k)
        /\ \A i \in 1..Len(hjt) : b[i] = hjt[i]
    <3>1. hjt \in Seq(Int) /\ k \in Seq(Int)
      BY <2>1, <2>2
    <3>2. /\ hjt \o k \in Seq(Int) /\ Len(hjt \o k) = Len(hjt) + Len(k)
          /\ \A i \in 1..Len(hjt) : (hjt \o k)[i] = hjt[i]
      BY ONLY <3>1, ConcatIs
    <3> QED
      BY <2>4, <3>2
  <2>5. b \in Seq(Int) /\ Len(b) = e + g + rest
    BY <2>1, <2>3, <2>9
  <2>6. \A i \in 1..e + g : b[i] = hjt[i]
    BY <2>3, <2>9
  <2>7. ASSUME NEW i \in 1..a PROVE b[i] = head[i]
    <3>1. i \in 1..e + g
      BY <1>5
    <3> QED
      BY <2>3, <2>6, <3>1
  <2>8. ASSUME NEW i \in 1..e - a PROVE b[a + g + i] = tail[i]
    <3>1. a + g + i \in 1..e + g
      BY <1>5
    <3> QED
      BY <2>3, <2>6, <3>1
  <2> QED
    BY <2>5, <2>7, <2>8
<1> HIDE DEF b
<1>10. x = [width |-> w, buf |-> x.buf, cap |-> x.cap, size |-> s, sound |-> x.sound]
  BY <1>2, PodFields
<1>11. y = [width |-> w, buf |-> b, cap |-> c, size |-> s, sound |-> x.sound]
  BY <1>4, <1>10
<1>12. y \in PodRec
  <2>1. x.sound \in BOOLEAN
    BY <1>2, PodFields
  <2> HIDE DEF w, s
  <2> QED
    BY <1>1, <1>3, <1>9, <1>11, <2>1, PodFields
<1>13. y.width = w /\ y.buf = b /\ y.cap = c /\ y.size = s /\ y.sound = x.sound
  BY <1>11
<1>14. Sized(y)
  BY <1>1, <1>2, <1>3, <1>5, <1>9, <1>12, <1>13 DEF Sized
<1>15. ASSUME NEW i \in 1..a PROVE b[i] = ref[i]
  <2>1. i \in 1..Len(ref)
    BY <1>1, <1>5
  <2>2. b[i] = head[i]
    BY <1>9
  <2>3. head[i] = x.buf[i]
    BY <1>6
  <2>4. x.buf[i] = ref[i]
    BY <1>1, <2>1
  <2> QED
    BY <2>2, <2>3, <2>4
<1>16. ASSUME NEW i \in a + 1..Len(ref) PROVE b[i + g] = ref[i]
  <2>1. i - a \in 1..e - a /\ a + g + (i - a) = i + g /\ (i - a) + a = i /\ i \in 1..Len(ref)
    <3>1. a \in Nat /\ g \in Nat /\ e \in Nat /\ Len(ref) = e
      BY <1>1, <1>5
    <3>2. i \in a + 1..e
      BY <3>1
    <3> HIDE DEF a, g, e
    <3> QED
      BY ONLY <3>1, <3>2
  <2>2. b[a + g + (i - a)] = tail[i - a] /\ tail[i - a] = x.buf[(i - a) + a]
    BY <1>7, <1>9, <2>1
  <2> QED
    BY <1>1, <2>1, <2>2
<1>17. Gapped(y.buf, ref, a, g)
  BY <1>13, <1>15, <1>16 DEF Gapped
<1> QED
  BY <1>3, <1>13, <1>14, <1>17 DEF y, a, g

\* The end of a vector is set to within the capacity.
LEMMA ResizedSized ==
  ASSUME NEW x, Sized(x), NEW n \in Nat, n <= x.cap
  PROVE  LET y == [x EXCEPT !.size = n]
         IN Sized(y) /\ y.width = x.width /\ y.size = n /\ y.buf = x.buf
<1> DEFINE y == [x EXCEPT !.size = n]
<1>1. x \in PodRec /\ x.sound /\ x.width \in Nat /\ x.cap \in Nat /\ x.buf \in Seq(Int)
  BY SizedFacts
<1>2. x = [width |-> x.width, buf |-> x.buf, cap |-> x.cap, size |-> x.size, sound |-> x.sound]
  BY <1>1, PodFields
<1>3. y = [width |-> x.width, buf |-> x.buf, cap |-> x.cap, size |-> n, sound |-> x.sound]
  BY <1>2
<1> HIDE DEF y
<1>4. y.width = x.width /\ y.size = n /\ y.buf = x.buf /\ y.cap = x.cap /\ y.sound = x.sound
  BY <1>3
<1>5. y \in PodRec
  BY <1>1, <1>3, PodFields
<1>6. Sized(y)
  BY <1>1, <1>4, <1>5 DEF Sized
<1> QED
  BY <1>4, <1>6 DEF y

\* grow_at leaves a hole where it was asked to, however it got its room.
LEMMA GrownGapped ==
  ASSUME NEW x, NEW ref, PodHolds(x, ref), x.width > 0, NEW pos \in Nat, pos <= x.size,
         NEW num \in Nat, NEW copies \in BOOLEAN
  PROVE  LET y == PodGrown(x, pos, num, copies)
         IN /\ Sized(y) /\ y.width = x.width /\ y.size = x.size + num
            /\ Gapped(y.buf, ref, BytesOf(pos, x.width), BytesOf(num, x.width))
<1> DEFINE s == x.size
           w == x.width
           a == BytesOf(pos, w)
           g == BytesOf(num, w)
           c == NewCapacity(x.cap, s + num)
           resized == PodResized(x, s + num)
           gap == MakeGap(x, pos, num)
           copied == GrowCopied(x, pos, num)
           moved == MakeGap(Reallocated(x, c), pos, num)
           x1 == CASE pos = s -> resized
                   [] pos < s /\ s + num <= x.cap -> gap
                   [] pos < s /\ s + num > x.cap /\ copies -> copied
                   [] OTHER -> moved
           Fine(z) == /\ Sized(z) /\ z.width = w /\ z.cap >= s + num
                      /\ Gapped(z.buf, ref, a, g)
<1>1. /\ Sized(x) /\ s \in Nat /\ w \in Nat \ {0} /\ x.cap \in Nat /\ s + num \in Nat /\ s <= x.cap
      /\ Len(ref) = BytesOf(s, w) /\ Len(ref) \in Nat
  BY HoldsFacts, SizedFacts
<1>2. PodGrown(x, pos, num, copies) = [x1 EXCEPT !.size = s + num]
  BY DEF PodGrown
<1>3. ASSUME pos = s PROVE Fine(resized)
  <2> DEFINE n == s + num
             elem == Zero(w)
             y == PodResized(x, n)
             ref2 == Extended(ref, BytesOf(n, w), elem, w)
  <2>1. elem \in [1..x.width -> Nat] /\ \A i \in 1..x.width : elem[i] = 0
    BY DEF Zero
  <2>2. y = SetSize(Write(PodReserved(x, n), PodReserved(x, n).size,
                          Repeat(n - PodReserved(x, n).size, elem)), n)
    <3>1. PodReserved(x, n).width = w
      BY <1>1, ReservedHolds
    <3> QED
      BY <3>1 DEF PodResized
  <2>3. n \in Nat
    BY <1>1
  <2> HIDE DEF elem, n, y
  <2>4. PodHolds(y, ref2) /\ y.width = x.width /\ y.size = n
    <3> DEFINE q == PodReserved(x, n)
    <3>1. /\ PodHolds(SetSize(Write(q, q.size, Repeat(n - q.size, elem)), n), ref2)
          /\ SetSize(Write(q, q.size, Repeat(n - q.size, elem)), n).width = x.width
          /\ SetSize(Write(q, q.size, Repeat(n - q.size, elem)), n).size = n
      <4>1. /\ PodHolds(x, ref) /\ x.width > 0
            /\ x.size = 0 \/ \A i \in 1..x.width : elem[i] = 0
        BY <2>1
      <4> DEFINE z == SetSize(Write(q, q.size, Repeat(n - q.size, elem)), n)
      <4>2. PodHolds(z, ref2)
        BY ONLY <2>1, <2>3, <4>1, ExtendedHolds
      <4>3. z.width = x.width
        BY ONLY <2>1, <2>3, <4>1, ExtendedHolds
      <4>4. z.size = n
        BY DEF SetSize
      <4> HIDE DEF ref2, q
      <4> QED
        BY ONLY <4>2, <4>3, <4>4 DEF z
    <3>2. y = SetSize(Write(q, q.size, Repeat(n - q.size, elem)), n)
      BY <2>2
    <3> HIDE DEF q, ref2
    <3> QED
      BY <3>1, <3>2
  <2>5. /\ Sized(y) /\ y.cap \in Nat /\ n <= y.cap
        /\ Len(ref2) = BytesOf(n, w) /\ \A i \in 1..Len(ref2) : y.buf[i] = ref2[i]
    BY <2>4, HoldsFacts, SizedFacts
  <2>6. a = Len(ref) /\ a \in Nat /\ BytesOf(n, w) \in Nat /\ a <= BytesOf(n, w)
    <3>1. s <= n
      BY <1>1 DEF n
    <3> QED
      BY <1>1, <1>3, <2>3, <3>1, Bytes
  <2>7. ASSUME NEW i \in 1..a PROVE y.buf[i] = ref[i]
    <3>1. i \in 1..BytesOf(n, w) /\ i <= Len(ref)
      BY <2>6
    <3>2. ref2[i] = ref[i]
      BY <3>1 DEF Extended
    <3> QED
      BY <2>5, <3>1, <3>2
  <2>8. \A i \in a + 1..Len(ref) : y.buf[i + g] = ref[i]
    BY <2>6
  <2>9. Gapped(y.buf, ref, a, g)
    BY <2>7, <2>8 DEF Gapped
  <2>10. y.cap >= s + num /\ y = resized
    BY <2>3, <2>5 DEF y, n
  <2> HIDE DEF resized
  <2> QED
    BY <2>4, <2>5, <2>9, <2>10
<1>4. ASSUME s + num <= x.cap PROVE Fine(gap)
  <2>1. Sized(gap) /\ gap.width = w /\ gap.cap = x.cap /\ Gapped(gap.buf, ref, a, g)
    BY <1>4, GapMade
  <2> QED
    BY <1>1, <1>4, <2>1
<1>5. ASSUME ~(s + num <= x.cap) PROVE Fine(copied)
  <2>1. x.cap < x.size + num
    BY <1>1, <1>5
  <2> QED
    BY <2>1, GapCopied
<1>6. ASSUME ~(s + num <= x.cap) PROVE Fine(moved)
  <2> DEFINE r == Reallocated(x, c)
             z == MakeGap(r, pos, num)
  <2>1. c \in Nat /\ c >= s + num
    BY <1>1, <1>6, NewCapacityIs
  <2> HIDE DEF c
  <2>2. s <= c
    BY <1>1, <2>1
  <2>3. PodHolds(r, ref) /\ r.width = x.width /\ r.size = x.size /\ r.cap = c
    BY <2>1, <2>2, ReallocatedHolds
  <2>4. moved = z
    OBVIOUS
  <2> HIDE DEF r
  <2>5. r.size + num <= r.cap /\ pos <= r.size
    BY <2>1, <2>3
  <2>6. /\ Sized(z) /\ z.width = r.width /\ z.cap = r.cap
        /\ Gapped(z.buf, ref, BytesOf(pos, r.width), BytesOf(num, r.width))
    BY <2>3, <2>5, GapMade
  <2> HIDE DEF z, moved
  <2> QED
    BY <2>1, <2>3, <2>4, <2>6
<1>7. Fine(x1)
  <2> HIDE DEF resized, gap, copied, moved, Fine
  <2>1. CASE pos = s
    BY <1>3, <2>1
  <2>2. CASE pos # s /\ s + num <= x.cap
    <3>1. pos < s /\ ~(pos = s) /\ ~(s + num > x.cap)
      BY <1>1, <2>2
    <3>2. x1 = gap
      BY <2>2, <3>1
    <3> QED
      BY Zenon, <1>4, <2>2, <3>2
  <2>3. CASE pos # s /\ ~(s + num <= x.cap)
    <3>1. pos < s /\ s + num > x.cap
      BY <1>1, <2>3
    <3>2. CASE copies
      BY <1>5, <2>3, <3>1, <3>2
    <3>3. CASE ~copies
      BY <1>6, <2>3, <3>1, <3>3
    <3> QED
      BY <3>2, <3>3
  <2> QED
    BY <2>1, <2>2, <2>3
<1> HIDE DEF x1
<1>8. LET y == [x1 EXCEPT !.size = s + num]
      IN Sized(y) /\ y.width = x1.width /\ y.size = s + num /\ y.buf = x1.buf
  <2> DEFINE n == s + num
  <2>1. n \in Nat /\ n <= x1.cap /\ Sized(x1)
    BY <1>1, <1>7, SizedFacts
  <2> HIDE DEF n
  <2>2. LET y == [x1 EXCEPT !.size = n]
        IN Sized(y) /\ y.width = x1.width /\ y.size = n /\ y.buf = x1.buf
    BY <2>1, ResizedSized
  <2> QED
    BY <2>2 DEF n
<1> QED
  BY <1>2, <1>7, <1>8

\* A sequence with what is between two places replaced.
Replaced(ref, a, c, bytes) == SubSeq(ref, 1, a) \o bytes \o SubSeq(ref, c + 1, Len(ref))

\* What such a sequence is made of.
ReplacedWith(d, ref, a, c, bytes) ==
  /\ d \in Seq(Nat) /\ Len(d) = a + Len(bytes) + (Len(ref) - c)
  /\ \A i \in 1..a : d[i] = ref[i]
  /\ \A i \in 1..Len(bytes) : d[a + i] = bytes[i]
  /\ \A i \in c + 1..Len(ref) : d[a + Len(bytes) + (i - c)] = ref[i]

\* It is made of that.
LEMMA SplicedIs ==
  ASSUME NEW ref \in Seq(Nat), NEW bytes \in Seq(Nat), NEW a \in Nat, NEW c \in Nat,
         a <= c, c <= Len(ref)
  PROVE  ReplacedWith(Replaced(ref, a, c, bytes), ref, a, c, bytes)
<1> DEFINE b == Len(bytes)
           k == Len(ref)
           head == SubSeq(ref, 1, a)
           tail == SubSeq(ref, c + 1, k)
           d == head \o bytes \o tail
<1>1. k \in Nat /\ b \in Nat
  OBVIOUS
<1>2. head \in Seq(Nat) /\ Len(head) = a /\ \A i \in 1..a : head[i] = ref[i]
  BY <1>1
<1>3. tail \in Seq(Nat) /\ Len(tail) = k - c /\ \A i \in 1..k - c : tail[i] = ref[i + c]
  <2>1. tail \in Seq(Nat) /\ Len(tail) = k - c
    BY <1>1
  <2>2. \A i \in 1..k - c : tail[i] = ref[i + c]
    BY <1>1
  <2> QED
    BY <2>1, <2>2
<1> HIDE DEF head, tail
<1>4. /\ d \in Seq(Nat) /\ Len(d) = Len(head) + Len(bytes) + Len(tail)
      /\ \A i \in 1..Len(head) : d[i] = head[i]
      /\ \A i \in 1..Len(bytes) : d[Len(head) + i] = bytes[i]
      /\ \A i \in 1..Len(tail) : d[Len(head) + Len(bytes) + i] = tail[i]
  <2>1. PICK S : S = Nat
    OBVIOUS
  <2>2. head \in Seq(S) /\ bytes \in Seq(S) /\ tail \in Seq(S)
    BY <1>2, <1>3, <2>1
  <2>3. LET all == head \o bytes \o tail
        IN /\ all \in Seq(S) /\ Len(all) = Len(head) + Len(bytes) + Len(tail)
           /\ \A i \in 1..Len(head) : all[i] = head[i]
           /\ \A i \in 1..Len(bytes) : all[Len(head) + i] = bytes[i]
           /\ \A i \in 1..Len(tail) : all[Len(head) + Len(bytes) + i] = tail[i]
    BY ONLY <2>2, ThreeParts
  <2>4. d = head \o bytes \o tail
    OBVIOUS
  <2> HIDE DEF d
  <2> QED
    BY ONLY <2>1, <2>3, <2>4
<1>5. d = Replaced(ref, a, c, bytes)
  BY DEF head, tail, Replaced
<1> HIDE DEF d, b, k
<1>6. \A i \in c + 1..k : d[a + b + (i - c)] = ref[i]
  <2>1. ASSUME NEW i \in c + 1..k PROVE d[a + b + (i - c)] = ref[i]
    <3>1. i - c \in 1..k - c /\ (i - c) + c = i
      BY <1>1
    <3>2. d[a + b + (i - c)] = tail[i - c]
      BY <1>2, <1>3, <1>4, <3>1 DEF b
    <3>3. tail[i - c] = ref[i]
      BY <1>3, <3>1
    <3> QED
      BY <3>2, <3>3
  <2> QED
    BY <2>1
<1>7. d \in Seq(Nat) /\ Len(d) = a + b + (k - c)
  BY <1>2, <1>3, <1>4 DEF b, k
<1>8. \A i \in 1..a : d[i] = ref[i]
  BY <1>2, <1>4
<1>9. \A i \in 1..b : d[a + i] = bytes[i]
  BY <1>2, <1>4 DEF b
<1>10. ReplacedWith(d, ref, a, c, bytes)
  BY ONLY <1>6, <1>7, <1>8, <1>9 DEF b, k, ReplacedWith
<1> QED
  BY ONLY <1>5, <1>10

\* insert: the bytes are in the hole, and the others around it.
LEMMA InsertedHolds ==
  ASSUME NEW x, NEW ref, PodHolds(x, ref), x.width > 0, NEW pos \in Nat, pos <= x.size,
         NEW num \in Nat, NEW copies \in BOOLEAN,
         NEW bytes \in Seq(Nat), Len(bytes) = BytesOf(num, x.width)
  PROVE  LET y == Write(PodGrown(x, pos, num, copies), pos, bytes)
             a == BytesOf(pos, x.width)
         IN /\ PodHolds(y, Replaced(ref, a, a, bytes))
            /\ y.width = x.width
<1> DEFINE s == x.size
           w == x.width
           a == BytesOf(pos, w)
           g == BytesOf(num, w)
           k == Len(ref)
           n == s + num
           z == PodGrown(x, pos, num, copies)
           y == Write(z, pos, bytes)
           d == Replaced(ref, a, a, bytes)
<1>1. /\ s \in Nat /\ w \in Nat /\ n \in Nat /\ k \in Nat /\ k = BytesOf(s, w) /\ ref \in Seq(Nat)
      /\ pos <= s
  BY HoldsFacts
<1>2. Sized(z) /\ z.width = w /\ z.size = n /\ Gapped(z.buf, ref, a, g)
  BY GrownGapped
<1> HIDE DEF z
<1>3. /\ a \in Nat /\ g \in Nat /\ a <= k /\ BytesOf(n, w) = k + g
  <2> HIDE DEF s, w, k
  <2>1. a \in Nat /\ g \in Nat /\ a <= k
    BY <1>1, Bytes
  <2>2. BytesOf(s + num, w) = BytesOf(s, w) + g
    BY <1>1, Bytes
  <2> QED
    BY <1>1, <2>1, <2>2
<1>4. n <= z.cap /\ z.cap \in Nat /\ k + g <= Len(z.buf) /\ Len(z.buf) \in Nat
  <2>1. n <= z.cap /\ z.cap \in Nat /\ Len(z.buf) \in Nat
    BY <1>2, SizedFacts
  <2>2. BytesOf(n, z.width) <= Len(z.buf)
    BY <1>1, <1>2, <2>1, SizedFacts
  <2> QED
    BY <1>2, <1>3, <2>1, <2>2
<1>5. Len(bytes) = g /\ bytes \in Seq(Int)
  OBVIOUS
<1>6. /\ Sized(y) /\ y.width = w /\ y.size = n
      /\ \A i \in 1..Len(z.buf) :
           y.buf[i] = IF a < i /\ i <= a + g THEN bytes[i - a] ELSE z.buf[i]
  <2> DEFINE from == BytesOf(pos, z.width)
  <2>1. from = a
    BY <1>2
  <2>2. \E m \in Nat : m <= z.cap /\ from + Len(bytes) <= BytesOf(m, z.width)
    <3>1. from + Len(bytes) <= BytesOf(n, z.width)
      BY <1>1, <1>2, <1>3, <1>5, <2>1
    <3> HIDE DEF n
    <3> QED
      BY <1>1, <1>4, <3>1
  <2>3. /\ Sized(y) /\ y.width = z.width /\ y.size = z.size
        /\ \A i \in 1..Len(z.buf) :
             y.buf[i] = IF from < i /\ i <= from + Len(bytes) THEN bytes[i - from] ELSE z.buf[i]
    <3>1. pos \in Nat
      OBVIOUS
    <3> QED
      BY ONLY <1>2, <1>5, <2>2, <3>1, WrittenSized
  <2> HIDE DEF y, from, a, g, n, w
  <2> QED
    BY <1>2, <1>5, <2>1, <2>3
<1> HIDE DEF y
<1>7. /\ d \in Seq(Nat) /\ Len(d) = a + Len(bytes) + (k - a)
      /\ \A i \in 1..a : d[i] = ref[i]
      /\ \A i \in 1..Len(bytes) : d[a + i] = bytes[i]
      /\ \A i \in a + 1..k : d[a + Len(bytes) + (i - a)] = ref[i]
  <2>1. ref \in Seq(Nat) /\ bytes \in Seq(Nat) /\ a \in Nat /\ a <= a /\ a <= Len(ref)
    BY <1>1, <1>3
  <2> HIDE DEF a
  <2>2. ReplacedWith(d, ref, a, a, bytes)
    BY ONLY <2>1, SplicedIs
  <2> HIDE DEF d
  <2> QED
    BY ONLY <2>2 DEF ReplacedWith
<1> HIDE DEF d, a, g, k, n, s, w
<1>8. Len(d) = k + g
  BY <1>1, <1>3, <1>5, <1>7
<1>9. ASSUME NEW i \in 1..k + g PROVE y.buf[i] = d[i]
  <2>0. i \in 1..Len(z.buf)
    BY <1>1, <1>3, <1>4
  <2>1. CASE i <= a
    <3>1. i \in 1..a /\ ~(a < i) /\ i \in 1..k
      BY <1>1, <1>3, <2>1
    <3>2. z.buf[i] = ref[i]
      BY <1>2, <3>1 DEF Gapped
    <3> QED
      BY <1>6, <1>7, <2>0, <3>1, <3>2
  <2>2. CASE a < i /\ i <= a + g
    <3> DEFINE j == i - a
    <3>1. j \in 1..g /\ a + j = i
      BY <1>1, <1>3, <2>2
    <3>2. y.buf[i] = bytes[j]
      BY <1>6, <2>0, <2>2
    <3> HIDE DEF j
    <3>3. d[a + j] = bytes[j]
      BY <1>5, <1>7, <3>1
    <3> QED
      BY <3>1, <3>2, <3>3
  <2>3. CASE a + g < i
    <3> DEFINE j == i - g
    <3>1. j \in a + 1..k /\ a + g + (j - a) = i /\ j + g = i /\ ~(i <= a + g)
      BY <1>1, <1>3, <2>3
    <3> HIDE DEF j
    <3>2. d[a + g + (j - a)] = ref[j]
      BY <1>5, <1>7, <3>1
    <3>3. z.buf[j + g] = ref[j]
      BY <1>2, <3>1 DEF Gapped, k
    <3>4. y.buf[i] = z.buf[i]
      BY <1>6, <2>0, <3>1
    <3> QED
      BY <3>1, <3>2, <3>3, <3>4
  <2> QED
    BY <1>1, <1>3, <2>1, <2>2, <2>3
<1>10. PodHolds(y, d)
  <2>1. Len(d) = BytesOf(y.size, y.width)
    BY <1>3, <1>6, <1>8
  <2>2. \A i \in 1..Len(d) : y.buf[i] = d[i]
    BY <1>8, <1>9
  <2> QED
    BY <1>6, <1>7, <2>1, <2>2 DEF PodHolds
<1> QED
  BY <1>6, <1>10 DEF y, z, d, a, k, w

\* erase: what was behind the erased elements has moved to their place.
LEMMA ErasedHolds ==
  ASSUME NEW x, NEW ref, PodHolds(x, ref), NEW pos \in Nat, NEW num \in Nat,
         pos + num <= x.size
  PROVE  LET y == PodShrunk(x, pos, num)
             a == BytesOf(pos, x.width)
             c == BytesOf(pos + num, x.width)
         IN /\ PodHolds(y, Replaced(ref, a, c, <<>>))
            /\ y.width = x.width
<1> DEFINE s == x.size
           w == x.width
           a == BytesOf(pos, w)
           c == BytesOf(pos + num, w)
           k == Len(ref)
           n == s - num
           m == s - pos - num
           l == BytesOf(m, w)
           none == <<>>
           d == Replaced(ref, a, c, none)
<1>1. /\ Sized(x) /\ s \in Nat /\ w \in Nat /\ k \in Nat /\ k = BytesOf(s, w) /\ ref \in Seq(Nat)
      /\ k <= Len(x.buf) /\ pos + num <= s /\ \A i \in 1..k : x.buf[i] = ref[i]
  BY HoldsFacts
<1>2. x.cap \in Nat /\ s <= x.cap /\ Len(x.buf) \in Nat
  BY <1>1, SizedFacts
<1>3. n \in Nat /\ m \in Nat /\ (pos + num) + m = s /\ pos + m = n /\ pos + num \in Nat
  <2>1. s \in Nat /\ pos \in Nat /\ num \in Nat /\ pos + num <= s
    BY <1>1
  <2> HIDE DEF s
  <2> QED
    BY ONLY <2>1 DEF n, m
<1> HIDE DEF n, m
<1>4. /\ a \in Nat /\ c \in Nat /\ l \in Nat /\ a <= c /\ c + l = k /\ a + l = BytesOf(n, w)
  <2> DEFINE p == pos + num
  <2>2. p \in Nat /\ p + m = s /\ pos <= p
    BY <1>3
  <2>6. c = BytesOf(p, w)
    OBVIOUS
  <2> HIDE DEF p, w, s, k, c
  <2>1. a \in Nat /\ c \in Nat /\ l \in Nat /\ a <= c
    BY <1>1, <1>3, <2>2, <2>6, Bytes
  <2>3. BytesOf(p + m, w) = BytesOf(p, w) + l
    BY <1>1, <1>3, <2>2, Bytes
  <2>4. BytesOf(pos + m, w) = a + l
    BY <1>1, <1>3, Bytes
  <2> QED
    BY <1>1, <1>3, <2>1, <2>2, <2>3, <2>4, <2>6
<1>5. none \in Seq(Nat) /\ Len(none) = 0
  OBVIOUS
<1> HIDE DEF none
<1>6. /\ d \in Seq(Nat) /\ Len(d) = a + l
      /\ \A i \in 1..a : d[i] = ref[i]
      /\ \A i \in c + 1..k : d[a + (i - c)] = ref[i]
  <2> HIDE DEF a, c
  <2>1. /\ d \in Seq(Nat) /\ Len(d) = a + Len(none) + (k - c)
        /\ \A i \in 1..a : d[i] = ref[i]
        /\ \A i \in c + 1..k : d[a + Len(none) + (i - c)] = ref[i]
    <3>1. ref \in Seq(Nat) /\ none \in Seq(Nat) /\ a \in Nat /\ c \in Nat /\ a <= c /\ c <= Len(ref)
      BY <1>1, <1>4, <1>5
    <3>2. ReplacedWith(d, ref, a, c, none)
      BY ONLY <3>1, SplicedIs
    <3> HIDE DEF d
    <3> QED
      BY ONLY <3>2 DEF ReplacedWith
  <2> HIDE DEF d
  <2>2. ASSUME NEW i \in c + 1..k PROVE d[a + (i - c)] = ref[i]
    <3>1. a + Len(none) + (i - c) = a + (i - c)
      BY <1>1, <1>4, <1>5
    <3> QED
      BY <2>1, <3>1
  <2>3. a + Len(none) + (k - c) = a + l
    BY <1>1, <1>4, <1>5
  <2> QED
    BY <2>1, <2>2, <2>3
<1>7. d = Replaced(ref, a, c, <<>>)
  BY DEF none
<1> HIDE DEF d, a, c, k, l
<1>8. CASE s = num
  <2>1. pos = 0 /\ n = 0 /\ num = s /\ m = 0
    BY <1>1, <1>3, <1>8
  <2>2. a + l = BytesOf(0, w) /\ BytesOf(0, w) = 0
    BY <1>1, <1>4, <2>1, Bytes
  <2>3. Len(d) = 0 /\ Len(d) = BytesOf(0, x.width)
    BY <1>6, <2>2
  <2>4. \A i \in 1..Len(d) : x.buf[i] = d[i]
    BY <2>3
  <2>5. PodHolds(SetSize(x, 0), d) /\ SetSize(x, 0).width = x.width
    <3>1. 0 <= x.cap /\ 0 \in Nat
      BY <1>2
    <3> QED
      BY <1>1, <1>6, <2>3, <2>4, <3>1, EndedHolds
  <2>6. PodShrunk(x, pos, num) = SetSize(x, 0)
    BY <1>8 DEF PodShrunk
  <2> QED
    BY <1>7, <2>5, <2>6 DEF a, c, k
<1>9. CASE s # num
  <2> DEFINE p == pos + num
             z == MoveBytes(x, p, pos, m)
             b == BytesOf(p, w)
  <2>1. p \in Nat /\ p + m <= x.cap /\ pos + m <= x.cap /\ b = c
    BY <1>1, <1>2, <1>3 DEF c
  <2>2. /\ Sized(z) /\ z.width = w /\ z.cap = x.cap
        /\ \A i \in 1..Len(x.buf) :
             z.buf[i] = IF a < i /\ i <= a + l THEN x.buf[i - a + b] ELSE x.buf[i]
    <3> HIDE DEF p
    <3>1. /\ Sized(z) /\ z.width = x.width /\ z.cap = x.cap
          /\ \A i \in 1..Len(x.buf) :
               z.buf[i] = IF BytesOf(pos, x.width) < i
                             /\ i <= BytesOf(pos, x.width) + BytesOf(m, x.width)
                          THEN x.buf[i - BytesOf(pos, x.width) + BytesOf(p, x.width)]
                          ELSE x.buf[i]
      <4>1. /\ Sized(x) /\ p \in Nat /\ pos \in Nat /\ m \in Nat
            /\ p + m <= x.cap /\ pos + m <= x.cap
        BY <1>1, <1>3, <2>1
      <4> QED
        BY ONLY <4>1, MoveIs
    <3> QED
      BY <3>1 DEF a, l
  <2>3. PodShrunk(x, pos, num) = SetSize(z, n)
    BY <1>9 DEF PodShrunk, n, m
  <2> HIDE DEF z, b, p
  <2>4. ASSUME NEW i \in 1..Len(d) PROVE z.buf[i] = d[i]
    <3>1. i \in 1..a + l /\ i \in 1..Len(x.buf)
      <4> DEFINE B == Len(x.buf)
      <4>1. i \in 1..a + l
        BY <1>6
      <4>2. /\ B \in Nat /\ k \in Nat /\ a \in Nat /\ c \in Nat /\ l \in Nat
            /\ k <= B /\ a <= c /\ c + l = k
        BY ONLY <1>1, <1>2, <1>4 DEF B
      <4> HIDE DEF a, c, k, l, B
      <4>3. i \in 1..B
        BY ONLY <4>1, <4>2
      <4> QED
        BY ONLY <4>1, <4>3 DEF B
    <3>2. CASE i <= a
      <4>1. ~(a < i) /\ i \in 1..a /\ i \in 1..k
        BY <1>1, <1>4, <3>1, <3>2
      <4> QED
        BY <1>1, <1>6, <2>2, <3>1, <4>1
    <3>3. CASE ~(i <= a)
      <4> DEFINE j == i - a + c
      <4>1. a < i /\ i <= a + l /\ j \in c + 1..k /\ j \in 1..k /\ a + (j - c) = i
        BY <1>1, <1>4, <3>1, <3>3
      <4>2. z.buf[i] = x.buf[j]
        BY <2>1, <2>2, <3>1, <4>1
      <4> HIDE DEF j
      <4>3. x.buf[j] = ref[j] /\ d[a + (j - c)] = ref[j]
        BY <1>1, <1>6, <4>1
      <4> QED
        BY <4>1, <4>2, <4>3
    <3> QED
      BY <3>2, <3>3
  <2>5. n <= z.cap /\ Len(d) = BytesOf(n, z.width)
    BY <1>1, <1>2, <1>3, <1>4, <1>6, <2>2 DEF n
  <2>6. PodHolds(SetSize(z, n), d) /\ SetSize(z, n).width = z.width
    BY <1>3, <1>6, <2>2, <2>4, <2>5, EndedHolds
  <2> QED
    BY <1>7, <2>2, <2>3, <2>6 DEF a, c, k, w
<1> QED
  BY <1>8, <1>9

\* A vector without a buffer holds nothing.
LEMMA FreshHolds ==
  ASSUME NEW w \in Nat
  PROVE  PodHolds(FreshPod(w), <<>>) /\ FreshPod(w).width = w
<1> DEFINE x == FreshPod(w)
<1>1. x = [width |-> w, buf |-> <<>>, cap |-> 0, size |-> 0, sound |-> TRUE]
  <2>1. NoPod = [width |-> 0, buf |-> <<>>, cap |-> 0, size |-> 0, sound |-> TRUE]
    BY DEF NoPod
  <2>2. x = [NoPod EXCEPT !.width = w]
    BY DEF FreshPod
  <2> HIDE DEF x
  <2> QED
    BY <2>1, <2>2
<1>2. x \in PodRec
  <2>1. <<>> \in Seq(Int)
    OBVIOUS
  <2> HIDE DEF x
  <2> QED
    BY <1>1, <2>1, PodFields
<1>3. /\ x.width = w /\ x.buf = <<>> /\ x.cap = 0 /\ x.size = 0 /\ x.sound = TRUE
  BY <1>1
<1> HIDE DEF x
<1>4. BytesOf(0, w) = 0
  BY Bytes
<1>5. Sized(x)
  <2>1. Len(x.buf) = 0
    BY <1>3
  <2> QED
    BY <1>2, <1>3, <1>4, <2>1 DEF Sized
<1>6. PodHolds(x, <<>>)
  <2>1. Len(<<>>) = BytesOf(x.size, x.width) /\ <<>> \in Seq(Nat)
    BY <1>3, <1>4
  <2>2. \A i \in 1..Len(<<>>) : x.buf[i] = <<>>[i]
    OBVIOUS
  <2> QED
    BY <1>5, <2>1, <2>2 DEF PodHolds
<1> QED
  BY <1>3, <1>6 DEF x

\* The bytes in front of the end are what the vector holds.
LEMMA ContentsAre ==
  ASSUME NEW x, NEW ref, PodHolds(x, ref)
  PROVE  PodContents(x) = ref
<1> DEFINE k == Len(ref)
           b == SubSeq(x.buf, 1, k)
<1>1. /\ Sized(x) /\ ref \in Seq(Nat) /\ k \in Nat /\ k = BytesOf(x.size, x.width)
      /\ k <= Len(x.buf) /\ \A i \in 1..k : x.buf[i] = ref[i]
  BY HoldsFacts
<1>2. x.buf \in Seq(Int) /\ Len(x.buf) \in Nat
  BY <1>1, SizedFacts
<1>3. PodContents(x) = b
  BY <1>1 DEF PodContents, BytesOf
<1> HIDE DEF k
<1>4. Len(b) = k /\ b \in Seq(Int) /\ \A i \in 1..k : b[i] = x.buf[i]
  BY <1>1, <1>2
<1> HIDE DEF b
<1>5. b = ref
  <2>1. b = [i \in 1..k |-> b[i]]
    BY <1>4
  <2>2. ref = [i \in 1..k |-> ref[i]]
    BY <1>1 DEF k
  <2>3. \A i \in 1..k : b[i] = ref[i]
    BY <1>1, <1>4
  <2> QED
    BY <2>1, <2>2, <2>3
<1> QED
  BY <1>3, <1>5

\* clear
LEMMA ClearedHolds ==
  ASSUME NEW x, Sized(x)
  PROVE  PodHolds(SetSize(x, 0), <<>>) /\ SetSize(x, 0).width = x.width
<1>1. x.width \in Nat /\ x.cap \in Nat
  BY SizedFacts
<1> DEFINE none == <<>>
<1>2. none \in Seq(Nat) /\ Len(none) = 0
  OBVIOUS
<1> HIDE DEF none
<1>3. Len(none) = 0 /\ Len(none) = BytesOf(0, x.width)
  BY <1>1, <1>2, Bytes
<1>4. \A i \in 1..Len(none) : x.buf[i] = none[i]
  BY <1>3
<1>5. 0 <= x.cap /\ 0 \in Nat
  BY <1>1
<1>6. PodHolds(SetSize(x, 0), none) /\ SetSize(x, 0).width = x.width
  BY <1>2, <1>3, <1>4, <1>5, EndedHolds
<1> QED
  BY <1>6 DEF none

\* shrink_to_fit keeps the contents.
LEMMA ShrunkHolds ==
  ASSUME NEW x, NEW ref, PodHolds(x, ref)
  PROVE  PodHolds(PodShrunkToFit(x), ref) /\ PodShrunkToFit(x).width = x.width
<1> DEFINE y == PodShrunkToFit(x)
<1>1. /\ Sized(x) /\ x.size \in Nat /\ x.width \in Nat /\ ref \in Seq(Nat)
      /\ Len(ref) = BytesOf(x.size, x.width)
  BY HoldsFacts
<1>2. CASE x.size = x.cap
  <2>1. y = x
    BY <1>2 DEF PodShrunkToFit
  <2> HIDE DEF y
  <2> QED
    BY <2>1 DEF y
<1>3. CASE x.size # x.cap /\ x.size = 0
  <2>1. y = FreshPod(x.width)
    BY <1>3 DEF PodShrunkToFit
  <2> HIDE DEF y
  <2>2. ref = <<>>
    <3>1. Len(ref) = 0
      BY <1>1, <1>3, Bytes
    <3> QED
      BY <1>1, <3>1
  <2>3. PodHolds(FreshPod(x.width), <<>>) /\ FreshPod(x.width).width = x.width
    BY <1>1, FreshHolds
  <2> QED
    BY <2>1, <2>2, <2>3 DEF y
<1>4. CASE x.size # x.cap /\ x.size # 0
  <2>1. y = Reallocated(x, x.size)
    BY <1>4 DEF PodShrunkToFit
  <2> HIDE DEF y
  <2>2. x.size <= x.size
    BY <1>1
  <2>3. LET z == Reallocated(x, x.size) IN PodHolds(z, ref) /\ z.width = x.width
    BY <1>1, <2>2, ReallocatedHolds
  <2> QED
    BY <2>1, <2>3 DEF y
<1> QED
  BY <1>2, <1>3, <1>4

\* The whole elements in a sequence of bytes.
LEMMA WholeIs ==
  ASSUME NEW bytes \in Seq(Nat), NEW w \in Nat \ {0}
  PROVE  LET b == Whole(bytes, w)
             n == Len(bytes) \div w
         IN /\ b \in Seq(Nat) /\ n \in Nat /\ Len(b) = BytesOf(n, w) /\ Len(b) <= Len(bytes)
            /\ \A i \in 1..Len(b) : b[i] = bytes[i]
<1> DEFINE n == Len(bytes) \div w
           k == BytesOf(n, w)
           b == SubSeq(bytes, 1, k)
<1>1. Len(bytes) \in Nat
  OBVIOUS
<1>2. n \in Nat /\ k <= Len(bytes)
  BY <1>1, WholeElements
<1>3. k \in Nat
  BY <1>2, Bytes
<1>4. Whole(bytes, w) = b
  BY DEF Whole, BytesOf
<1> HIDE DEF k
<1>5. b \in Seq(Nat) /\ Len(b) = k /\ \A i \in 1..k : b[i] = bytes[i]
  BY <1>1, <1>2, <1>3
<1> HIDE DEF b
<1> QED
  BY <1>2, <1>4, <1>5 DEF k

\* What fits into fewer bytes is not more elements.
LEMMA FewerElements ==
  ASSUME NEW w \in Nat \ {0}, NEW j \in Nat, NEW k \in Nat, j <= k
  PROVE  j \div w <= k \div w
<1> DEFINE p == j \div w
           q == k \div w
<1>1. /\ p \in Nat /\ q \in Nat
      /\ j = w * p + (j % w) /\ k = w * q + (k % w) /\ j % w \in 0..w - 1 /\ k % w \in 0..w - 1
  OBVIOUS
<1> DEFINE r == j % w
           t == k % w
<1>2. ASSUME q < p PROVE FALSE
  <2>1. PICK d \in Nat : p = q + 1 + d
    <3>1. p - q - 1 \in Nat /\ p = q + 1 + (p - q - 1)
      BY <1>1, <1>2
    <3> QED
      BY <3>1
  <2> HIDE DEF p, q, r, t
  <2>2. w * p = w * q + w + w * d /\ w * d \in Nat /\ w * q \in Nat
    BY <1>1, <2>1
  <2>3. j = w * p + r /\ k = w * q + t /\ r \in 0..w - 1 /\ t \in 0..w - 1
    BY <1>1 DEF p, q, r, t
  <2> DEFINE wq == w * q
             wd == w * d
             wp == w * p
  <2>4. wp = wq + w + wd /\ wd \in Nat /\ wq \in Nat /\ j = wp + r /\ k = wq + t
    BY <2>2, <2>3
  <2> HIDE DEF wq, wd, wp
  <2> QED
    BY <2>3, <2>4
<1> QED
  BY <1>1, <1>2

\* recast_take_from: the elements of the new type that are whole in what the other held.
LEMMA TakenHolds ==
  ASSUME NEW x, Sized(x), x.width > 0, NEW y, NEW ref, PodHolds(y, ref)
  PROVE  LET z == RecastTaken(x, y)
         IN PodHolds(z, Whole(ref, x.width)) /\ z.width = x.width
<1> DEFINE w == x.width
           have == BytesOf(y.cap, y.width)
           c == have \div w
           s == Len(ref) \div w
           whole == Whole(ref, w)
           z == RecastTaken(x, y)
<1>1. x \in PodRec /\ x.sound /\ w \in Nat \ {0}
  BY SizedFacts
<1>2. /\ Sized(y) /\ ref \in Seq(Nat) /\ Len(ref) \in Nat /\ Len(ref) = BytesOf(y.size, y.width)
      /\ y.size \in Nat /\ y.width \in Nat
      /\ Len(ref) <= Len(y.buf) /\ \A i \in 1..Len(ref) : y.buf[i] = ref[i]
  BY HoldsFacts
<1>3. /\ y.cap \in Nat /\ y.size <= y.cap /\ y.buf \in Seq(Int) /\ Len(y.buf) \in Nat
      /\ have \in Nat /\ have <= Len(y.buf)
  <2>1. y.cap \in Nat /\ y.size <= y.cap /\ y.buf \in Seq(Int) /\ Len(y.buf) \in Nat
    BY <1>2, SizedFacts
  <2>2. y.cap <= y.cap
    BY <2>1
  <2>3. have \in Nat /\ have <= Len(y.buf)
    BY <1>2, <2>1, <2>2, SizedFacts
  <2> QED
    BY <2>1, <2>3
<1>4. Len(ref) <= have
  <2>1. BytesOf(y.size, y.width) <= BytesOf(y.cap, y.width)
    BY ONLY <1>2, <1>3, Bytes
  <2> QED
    BY <1>2, <2>1
<1>5. z = [x EXCEPT !.buf = y.buf, !.cap = c, !.size = s]
  <2>1. y.width * y.cap = have
    BY <1>2, <1>3 DEF BytesOf
  <2>2. y.size * y.width = Len(ref)
    BY <1>2 DEF BytesOf
  <2> QED
    BY <2>1, <2>2 DEF RecastTaken
<1> HIDE DEF z
<1>6. /\ c \in Nat /\ BytesOf(c, w) <= have /\ s \in Nat /\ s <= c
      /\ BytesOf(c, w) \in Nat
  <2> HIDE DEF have
  <2>1. c \in Nat /\ BytesOf(c, w) <= have /\ s \in Nat
    BY <1>1, <1>2, <1>3, WholeElements
  <2>2. s <= c
    BY <1>1, <1>2, <1>3, <1>4, FewerElements
  <2>3. BytesOf(c, w) \in Nat
    BY <1>1, <2>1, Bytes
  <2> QED
    BY <2>1, <2>2, <2>3
<1> HIDE DEF c, s, have
<1>7. x = [width |-> x.width, buf |-> x.buf, cap |-> x.cap, size |-> x.size, sound |-> x.sound]
  BY <1>1, PodFields
<1>8. z = [width |-> x.width, buf |-> y.buf, cap |-> c, size |-> s, sound |-> x.sound]
  BY <1>5, <1>7
<1>9. z.width = w /\ z.buf = y.buf /\ z.cap = c /\ z.size = s /\ z.sound = x.sound
  BY <1>8
<1>10. z \in PodRec
  BY <1>1, <1>3, <1>6, <1>8, PodFields
<1>11. Sized(z)
  BY <1>1, <1>3, <1>6, <1>9, <1>10 DEF Sized
<1>12. /\ whole \in Seq(Nat) /\ Len(whole) = BytesOf(s, w) /\ Len(whole) <= Len(ref)
       /\ \A i \in 1..Len(whole) : whole[i] = ref[i]
  BY <1>1, <1>2, WholeIs DEF s
<1> HIDE DEF whole
<1>13. \A i \in 1..Len(whole) : z.buf[i] = whole[i]
  <2>1. ASSUME NEW i \in 1..Len(whole) PROVE z.buf[i] = whole[i]
    <3>1. i \in 1..Len(ref)
      BY <1>2, <1>12
    <3> QED
      BY <1>2, <1>9, <1>12, <3>1
  <2> QED
    BY <2>1
<1>14. PodHolds(z, whole)
  BY <1>9, <1>11, <1>12, <1>13 DEF PodHolds
<1> QED
  BY <1>9, <1>14 DEF z, whole

\* resize(n)
LEMMA ResizedHolds ==
  ASSUME NEW x, NEW ref, PodHolds(x, ref), x.width > 0, NEW n \in Nat
  PROVE  LET y == PodResized(x, n)
         IN /\ PodHolds(y, Extended(ref, BytesOf(n, x.width), Zero(x.width), x.width))
            /\ y.width = x.width
<1> DEFINE r == PodReserved(x, n)
           elem == Zero(x.width)
           ref2 == Extended(ref, BytesOf(n, x.width), elem, x.width)
           z == SetSize(Write(r, r.size, Repeat(n - r.size, elem)), n)
<1>1. elem \in [1..x.width -> Nat] /\ \A i \in 1..x.width : elem[i] = 0
  BY DEF Zero
<1>2. r.width = x.width
  BY ReservedHolds
<1>3. PodResized(x, n) = z
  BY <1>2 DEF PodResized
<1>4. PodHolds(z, ref2) /\ z.width = x.width
  <2>1. PodHolds(x, ref) /\ x.width > 0 /\ n \in Nat
    OBVIOUS
  <2> HIDE DEF elem
  <2> QED
    BY ONLY <1>1, <2>1, ExtendedHolds
<1> HIDE DEF z
<1> QED
  BY <1>3, <1>4

\* resize(n, val) of a vector that holds nothing.
LEMMA FilledHolds ==
  ASSUME NEW x, NEW ref, PodHolds(x, ref), x.width > 0, x.size = 0, NEW n \in Nat,
         NEW elem \in [1..x.width -> Nat]
  PROVE  LET y == PodFilledUp(x, n, elem)
         IN PodHolds(y, Extended(ref, BytesOf(n, x.width), elem, x.width)) /\ y.width = x.width
<1> DEFINE r == PodReserved(x, n)
           ref2 == Extended(ref, BytesOf(n, x.width), elem, x.width)
           z == SetSize(Write(r, r.size, Repeat(n - r.size, elem)), n)
<1>1. r.size = 0 /\ n - 0 = n
  BY ReservedHolds
<1>2. PodFilledUp(x, n, elem) = z
  BY <1>1 DEF PodFilledUp
<1>3. PodHolds(z, ref2) /\ z.width = x.width
  <2>1. PodHolds(x, ref) /\ x.width > 0 /\ x.size = 0 /\ n \in Nat /\ elem \in [1..x.width -> Nat]
    OBVIOUS
  <2> QED
    BY ONLY <2>1, ExtendedHolds
<1> HIDE DEF z
<1> QED
  BY <1>2, <1>3

\* The arguments of the calls are whole elements.
LEMMA ValuesAre ==
  ASSUME NEW w \in Nat \ {0}, NEW bytes \in Values(w)
  PROVE  /\ bytes \in Seq(Nat) /\ Len(bytes) \div w \in Nat
         /\ Len(bytes) = BytesOf(Len(bytes) \div w, w)
<1>1. PICK n \in 0..2 : bytes \in [1..n * w -> PodBytes]
  BY DEF Values
<1>2. n \in Nat /\ n * w = BytesOf(n, w) /\ BytesOf(n, w) \in Nat
  BY Bytes DEF BytesOf
<1> DEFINE k == BytesOf(n, w)
<1>3. BytesOf(n, w) \div w = n
  BY <1>2, WholeElements
<1>4. bytes \in [1..k -> Nat] /\ k \in Nat
  BY <1>1, <1>2, PodAssumption
<1> HIDE DEF k
<1>5. bytes \in Seq(Nat) /\ Len(bytes) = k
  BY <1>4
<1> QED
  BY <1>2, <1>3, <1>5 DEF k

-----------------------------------------------------------------------------

\* Every vector holds what the standard's vector holds, in a buffer of its own.
PodInv ==
  /\ DOMAIN pv = PodVectors /\ DOMAIN pvRef = PodVectors
  /\ \A v \in PodVectors : PodHolds(pv[v], pvRef[v])

\* A call on one vector.
LEMMA OnePodStep ==
  ASSUME PodInv, NEW v \in PodVectors, NEW x, NEW ref, PodHolds(x, ref), PodUpdate(v, x, ref)
  PROVE  PodInv'
<1>1. pv' = [pv EXCEPT ![v] = x] /\ pvRef' = [pvRef EXCEPT ![v] = ref]
  BY DEF PodUpdate
<1>2. DOMAIN pv' = PodVectors /\ DOMAIN pvRef' = PodVectors
  BY <1>1 DEF PodInv
<1>3. ASSUME NEW u \in PodVectors PROVE PodHolds(pv'[u], pvRef'[u])
  <2>1. CASE u = v
    <3>1. pv'[u] = x /\ pvRef'[u] = ref
      BY <1>1, <2>1 DEF PodInv
    <3> QED
      BY <3>1
  <2>2. CASE u # v
    <3>1. pv'[u] = pv[u] /\ pvRef'[u] = pvRef[u]
      BY <1>1, <2>2 DEF PodInv
    <3>2. PodHolds(pv[u], pvRef[u])
      BY DEF PodInv
    <3> QED
      BY <3>1, <3>2
  <2> QED
    BY <2>1, <2>2
<1> QED
  BY <1>2, <1>3 DEF PodInv

\* A call on two.
LEMMA TwoPodsStep ==
  ASSUME PodInv, NEW v \in PodVectors, NEW u \in PodVectors, v # u,
         NEW x, NEW ref, PodHolds(x, ref), NEW y, NEW ref2, PodHolds(y, ref2),
         pv' = [pv EXCEPT ![v] = x, ![u] = y], pvRef' = [pvRef EXCEPT ![v] = ref, ![u] = ref2]
  PROVE  PodInv'
<1>2. DOMAIN pv' = PodVectors /\ DOMAIN pvRef' = PodVectors
  BY DEF PodInv
<1>3. ASSUME NEW t \in PodVectors PROVE PodHolds(pv'[t], pvRef'[t])
  <2>1. CASE t = v
    <3>1. pv'[t] = x /\ pvRef'[t] = ref
      BY <2>1 DEF PodInv
    <3> QED
      BY <3>1
  <2>2. CASE t = u
    <3>1. pv'[t] = y /\ pvRef'[t] = ref2
      BY <2>2 DEF PodInv
    <3> QED
      BY <3>1
  <2>3. CASE t # v /\ t # u
    <3>1. pv'[t] = pv[t] /\ pvRef'[t] = pvRef[t]
      BY <2>3 DEF PodInv
    <3>2. PodHolds(pv[t], pvRef[t])
      BY DEF PodInv
    <3> QED
      BY <3>1, <3>2
  <2> QED
    BY <2>1, <2>2, <2>3
<1> QED
  BY <1>2, <1>3 DEF PodInv

\* What is known of a vector that exists.
LEMMA ExistsFacts ==
  ASSUME PodInv, NEW v \in PodVectors
  PROVE  /\ PodHolds(pv[v], pvRef[v]) /\ Sized(pv[v]) /\ pv[v].width \in Nat /\ pv[v].size \in Nat
         /\ pvRef[v] \in Seq(Nat)
         /\ Exists(v) => pv[v].width \in Nat \ {0} /\ pv[v].width > 0
<1>1. PodHolds(pv[v], pvRef[v])
  BY DEF PodInv
<1>2. Sized(pv[v]) /\ pv[v].width \in Nat /\ pv[v].size \in Nat /\ pvRef[v] \in Seq(Nat)
  BY <1>1, HoldsFacts
<1> QED
  BY <1>1, <1>2 DEF Exists

\* The vectors that come into being with contents.
LEMMA ConstructedHolds ==
  ASSUME PodInv, NEW v \in PodVectors, PodConstruct(v) \/ PodConstructCount(v) \/ PodDestruct(v)
  PROVE  PodInv'
<1>1. CASE PodConstruct(v)
  <2>0. PICK w \in Widths :
          \E bytes \in Values(w) : PodUpdate(v, PodAssigned(FreshPod(w), bytes), bytes)
    BY <1>1 DEF PodConstruct
  <2>1. PICK bytes \in Values(w) : PodUpdate(v, PodAssigned(FreshPod(w), bytes), bytes)
    BY <2>0
  <2> DEFINE n == Len(bytes) \div w
             x == FreshPod(w)
  <2>2. w \in Nat \ {0}
    BY PodAssumption
  <2>3. bytes \in Seq(Nat) /\ n \in Nat /\ Len(bytes) = BytesOf(n, w)
    BY <2>2, ValuesAre
  <2> HIDE DEF n
  <2>4. PodHolds(x, <<>>) /\ x.width = w
    BY <2>2, FreshHolds
  <2> HIDE DEF x
  <2>5. Sized(x) /\ x.width > 0 /\ Len(bytes) = BytesOf(n, x.width)
    BY <2>2, <2>3, <2>4, HoldsFacts
  <2>6. PodHolds(PodAssigned(x, bytes), bytes)
    BY <2>3, <2>5, AssignedHolds
  <2>7. PodHolds(PodAssigned(FreshPod(w), bytes), bytes)
    BY <2>6 DEF x
  <2> QED
    BY <2>1, <2>7, OnePodStep
<1>2. CASE PodConstructCount(v)
  <2>1. PICK w \in Widths, n \in 1..2 :
          PodUpdate(v, PodResized(FreshPod(w), n), Repeat(n, Zero(w)))
    BY <1>2 DEF PodConstructCount
  <2> DEFINE x == FreshPod(w)
             none == <<>>
             elem == Zero(w)
  <2>2. w \in Nat \ {0} /\ n \in Nat
    BY PodAssumption
  <2>3. PodHolds(x, none) /\ x.width = w
    BY <2>2, FreshHolds
  <2> HIDE DEF x
  <2>4. x.width > 0
    BY <2>2, <2>3
  <2>5. PodHolds(PodResized(x, n), Extended(none, BytesOf(n, w), elem, w))
    <3> HIDE DEF none
    <3>1. PodHolds(PodResized(x, n), Extended(none, BytesOf(n, x.width), Zero(x.width), x.width))
      BY <2>2, <2>3, <2>4, ResizedHolds
    <3> QED
      BY <2>3, <3>1
  <2>6. elem \in [1..w -> Nat]
    BY DEF Zero
  <2>7. Extended(none, BytesOf(n, w), elem, w) = Repeat(n, elem)
    <3>1. Len(none) = 0 /\ Len(elem) = w
      BY <2>2, <2>6
    <3> HIDE DEF none, elem
    <3>2. \A i \in 1..n * w : ~(i <= Len(none))
      BY <3>1
    <3> QED
      BY <3>1, <3>2 DEF Extended, Repeat, BytesOf
  <2>8. PodHolds(PodResized(FreshPod(w), n), Repeat(n, Zero(w)))
    BY <2>5, <2>7 DEF x
  <2> QED
    BY <2>1, <2>8, OnePodStep
<1>3. CASE PodDestruct(v)
  <2>1. PodUpdate(v, NoPod, <<>>)
    BY <1>3 DEF PodDestruct
  <2>2. FreshPod(0) = NoPod
    BY DEF FreshPod, NoPod
  <2>3. PodHolds(FreshPod(0), <<>>)
    BY FreshHolds
  <2> QED
    BY <2>1, <2>2, <2>3, OnePodStep
<1> QED
  BY <1>1, <1>2, <1>3

\* The calls on one vector whose elements move in the buffer or to another.
LEMMA ChangedHolds ==
  ASSUME PodInv, NEW v \in PodVectors,
         PodAssign(v) \/ PodReserve(v) \/ PodShrinkToFit(v) \/ PodClear(v) \/ PodInsert(v)
  PROVE  PodInv'
<1> DEFINE x == pv[v]
           ref == pvRef[v]
           w == x.width
<1>1. PodHolds(x, ref) /\ Sized(x) /\ w \in Nat /\ x.size \in Nat
  BY ExistsFacts
<1>2. Exists(v) => w \in Nat \ {0} /\ w > 0
  BY ExistsFacts
<1>3. CASE PodAssign(v)
  <2>1. PICK bytes \in Values(w) : PodUpdate(v, PodAssigned(x, bytes), bytes)
    BY <1>3 DEF PodAssign, Width
  <2> DEFINE n == Len(bytes) \div w
  <2>2. w \in Nat \ {0} /\ w > 0
    BY <1>2, <1>3 DEF PodAssign
  <2>3. bytes \in Seq(Nat) /\ n \in Nat /\ Len(bytes) = BytesOf(n, w)
    BY <2>2, ValuesAre
  <2> HIDE DEF n
  <2>4. PodHolds(PodAssigned(x, bytes), bytes)
    BY <1>1, <2>2, <2>3, AssignedHolds
  <2> QED
    BY <2>1, <2>4, OnePodStep
<1>4. CASE PodReserve(v)
  <2>1. PICK n \in 1..PodMaxBytes : PodUpdate(v, PodReserved(x, n), ref)
    BY <1>4 DEF PodReserve
  <2>2. n \in Nat
    BY PodAssumption
  <2>3. PodHolds(PodReserved(x, n), ref)
    BY <1>1, <2>2, ReservedHolds
  <2> QED
    BY <2>1, <2>3, OnePodStep
<1>5. CASE PodShrinkToFit(v)
  <2>1. PodUpdate(v, PodShrunkToFit(x), ref)
    BY <1>5 DEF PodShrinkToFit
  <2>2. PodHolds(PodShrunkToFit(x), ref)
    BY <1>1, ShrunkHolds
  <2> QED
    BY <2>1, <2>2, OnePodStep
<1>6. CASE PodClear(v)
  <2>1. PodUpdate(v, SetSize(x, 0), <<>>)
    BY <1>6 DEF PodClear
  <2>2. PodHolds(SetSize(x, 0), <<>>)
    BY <1>1, ClearedHolds
  <2> QED
    BY <2>1, <2>2, OnePodStep
<1>7. CASE PodInsert(v)
  <2>0. PICK pos \in 0..Size(v) :
          \E bytes \in Values(w), copies \in BOOLEAN :
            LET num == Len(bytes) \div w
            IN PodUpdate(v, Write(PodGrown(x, pos, num, copies), pos, bytes),
                         Spliced(v, pos, pos, bytes))
    BY <1>7 DEF PodInsert, Width
  <2>1. PICK bytes \in Values(w) :
          \E copies \in BOOLEAN :
            LET num == Len(bytes) \div w
            IN PodUpdate(v, Write(PodGrown(x, pos, num, copies), pos, bytes),
                         Spliced(v, pos, pos, bytes))
    BY <2>0
  <2> DEFINE num == Len(bytes) \div w
             a == BytesOf(pos, w)
  <2>2. PICK copies \in BOOLEAN :
          PodUpdate(v, Write(PodGrown(x, pos, num, copies), pos, bytes),
                    Spliced(v, pos, pos, bytes))
    BY <2>1
  <2>3. w \in Nat \ {0} /\ w > 0
    BY <1>2, <1>7 DEF PodInsert
  <2>4. bytes \in Seq(Nat) /\ num \in Nat /\ Len(bytes) = BytesOf(num, w)
    BY <2>3, ValuesAre
  <2> HIDE DEF num
  <2>5. pos \in Nat /\ pos <= x.size
    BY <1>1 DEF Size
  <2>6. Spliced(v, pos, pos, bytes) = Replaced(ref, a, a, bytes)
    BY DEF Spliced, Replaced, Width, BytesOf
  <2>7. PodHolds(Write(PodGrown(x, pos, num, copies), pos, bytes), Replaced(ref, a, a, bytes))
    BY <1>1, <2>3, <2>4, <2>5, InsertedHolds
  <2> QED
    BY <2>2, <2>6, <2>7, OnePodStep
<1> QED
  BY <1>3, <1>4, <1>5, <1>6, <1>7

\* Those that add at the end or take away.
LEMMA EndedOrErasedHolds ==
  ASSUME PodInv, ~FillsUp, NEW v \in PodVectors,
         PodPushBack(v) \/ PodErase(v) \/ PodPopBack(v) \/ PodResize(v) \/ PodResizeValue(v)
  PROVE  PodInv'
<1> DEFINE x == pv[v]
           ref == pvRef[v]
           w == x.width
<1>1. PodHolds(x, ref) /\ Sized(x) /\ w \in Nat /\ x.size \in Nat
  BY ExistsFacts
<1>2. Exists(v) => w \in Nat \ {0} /\ w > 0
  BY ExistsFacts
<1>3. \A elem \in Elems(v) : elem \in [1..w -> Nat]
  BY PodAssumption DEF Elems, Width
<1>4. CASE PodPushBack(v)
  <2> DEFINE y(elem) == Write(SetSize(PodReserved(x, x.size + 1), x.size + 1), x.size, elem)
  <2>1. PICK elem \in Elems(v) : PodUpdate(v, y(elem), ref \o elem)
    BY <1>4 DEF PodPushBack, Size
  <2>2. PodHolds(y(elem), ref \o elem)
    BY <1>1, <1>3, PushedHolds
  <2> HIDE DEF y
  <2> QED
    BY <2>1, <2>2, OnePodStep
<1>5. \A pos \in Nat, num \in Nat :
        pos + num <= x.size =>
          PodHolds(PodShrunk(x, pos, num), Spliced(v, pos, pos + num, <<>>))
  <2>1. ASSUME NEW pos \in Nat, NEW num \in Nat, pos + num <= x.size
        PROVE  PodHolds(PodShrunk(x, pos, num), Spliced(v, pos, pos + num, <<>>))
    <3> DEFINE a == BytesOf(pos, w)
               c == BytesOf(pos + num, w)
    <3>1. Spliced(v, pos, pos + num, <<>>) = Replaced(ref, a, c, <<>>)
      BY DEF Spliced, Replaced, Width, BytesOf
    <3>2. PodHolds(PodShrunk(x, pos, num), Replaced(ref, a, c, <<>>))
      BY <1>1, <2>1, ErasedHolds
    <3> QED
      BY <3>1, <3>2
  <2> QED
    BY <2>1
<1>6. CASE PodErase(v)
  <2>1. PICK pos \in 0..Size(v), num \in 0..Size(v) :
          /\ pos + num <= Size(v)
          /\ PodUpdate(v, PodShrunk(x, pos, num), Spliced(v, pos, pos + num, <<>>))
    BY <1>6 DEF PodErase
  <2>2. pos \in Nat /\ num \in Nat /\ pos + num <= x.size
    BY <1>1, <2>1 DEF Size
  <2>3. PodHolds(PodShrunk(x, pos, num), Spliced(v, pos, pos + num, <<>>))
    BY <1>5, <2>2
  <2> QED
    BY <2>1, <2>3, OnePodStep
<1>7. CASE PodPopBack(v)
  <2> DEFINE pos == x.size - 1
  <2>1. /\ x.size > 0
        /\ PodUpdate(v, PodShrunk(x, pos, 1), Spliced(v, pos, x.size, <<>>))
    BY <1>7 DEF PodPopBack, Size
  <2>2. pos \in Nat /\ 1 \in Nat /\ pos + 1 <= x.size /\ pos + 1 = x.size
    BY <1>1, <2>1
  <2> HIDE DEF pos
  <2>3. PodHolds(PodShrunk(x, pos, 1), Spliced(v, pos, pos + 1, <<>>))
    BY <1>5, <2>2
  <2> QED
    BY <2>1, <2>2, <2>3, OnePodStep
<1>8. CASE PodResize(v)
  <2>1. PICK n \in 0..PodMaxBytes :
          PodUpdate(v, PodResized(x, n), RefResized(v, n, Zero(w)))
    BY <1>8 DEF PodResize, Width
  <2>2. n \in Nat /\ w > 0
    BY <1>2, <1>8, PodAssumption DEF PodResize
  <2>3. RefResized(v, n, Zero(w)) = Extended(ref, BytesOf(n, w), Zero(w), w)
    BY DEF RefResized, Extended, BytesOf, Width
  <2>4. PodHolds(PodResized(x, n), Extended(ref, BytesOf(n, w), Zero(w), w))
    BY <1>1, <2>2, ResizedHolds
  <2> QED
    BY <2>1, <2>3, <2>4, OnePodStep
<1>9. CASE PodResizeValue(v)
  <2>1. PICK n \in 0..PodMaxBytes, elem \in Elems(v) :
          PodUpdate(v, PodFilledUp(x, n, elem), RefResized(v, n, elem))
    BY <1>9 DEF PodResizeValue
  <2>2. n \in Nat /\ w > 0 /\ x.size = 0 /\ elem \in [1..w -> Nat]
    BY <1>2, <1>3, <1>9, PodAssumption DEF PodResizeValue, Size
  <2>3. RefResized(v, n, elem) = Extended(ref, BytesOf(n, w), elem, w)
    BY DEF RefResized, Extended, BytesOf, Width
  <2>4. PodHolds(PodFilledUp(x, n, elem), Extended(ref, BytesOf(n, w), elem, w))
    BY <1>1, <2>2, FilledHolds
  <2> QED
    BY <2>1, <2>3, <2>4, OnePodStep
<1> QED
  BY <1>4, <1>6, <1>7, <1>8, <1>9

\* The calls with another vector.
LEMMA BothHold ==
  ASSUME PodInv, NEW v \in PodVectors, NEW u \in PodVectors,
         \/ PodCopyConstruct(v, u) \/ PodMove(v, u) \/ PodCopyAssign(v, u)
         \/ RecastCopyFrom(v, u) \/ RecastTakeFrom(v, u) \/ PodSwap(v, u)
  PROVE  PodInv'
<1> DEFINE x == pv[v]
           y == pv[u]
           ref == pvRef[u]
           k == y.size
<1>1. PodHolds(x, pvRef[v]) /\ Sized(x) /\ x.width \in Nat
  BY ExistsFacts
<1>2. /\ PodHolds(y, ref) /\ Sized(y) /\ y.width \in Nat /\ k \in Nat /\ ref \in Seq(Nat)
      /\ Len(ref) = BytesOf(k, y.width)
  BY ExistsFacts, HoldsFacts
<1>3. /\ Exists(v) => x.width \in Nat \ {0} /\ x.width > 0
      /\ Exists(u) => y.width \in Nat \ {0} /\ y.width > 0
  BY ExistsFacts
<1>4. PodContents(y) = ref
  BY <1>2, ContentsAre
<1>5. PodHolds(FreshPod(y.width), <<>>) /\ FreshPod(y.width).width = y.width
  BY <1>2, FreshHolds
<1>6. PodHolds(SetSize(x, 0), <<>>) /\ SetSize(x, 0).width = x.width
  BY <1>1, ClearedHolds
<1>7. CASE PodCopyConstruct(v, u)
  <2> DEFINE z == FreshPod(y.width)
  <2>1. PodUpdate(v, PodAssigned(z, ref), ref)
    BY <1>4, <1>7 DEF PodCopyConstruct, Width
  <2>2. Sized(z) /\ z.width > 0 /\ Len(ref) = BytesOf(k, z.width)
    BY <1>2, <1>3, <1>5, <1>7, HoldsFacts DEF PodCopyConstruct
  <2> HIDE DEF z
  <2>3. PodHolds(PodAssigned(z, ref), ref)
    BY <1>2, <2>2, AssignedHolds
  <2> QED
    BY <2>1, <2>3, OnePodStep
<1>8. CASE PodMove(v, u)
  <2>1. /\ v # u /\ pv' = [pv EXCEPT ![v] = y, ![u] = FreshPod(y.width)]
        /\ pvRef' = [pvRef EXCEPT ![v] = ref, ![u] = <<>>]
    BY <1>8 DEF PodMove, Width
  <2> QED
    BY <1>2, <1>5, <2>1, TwoPodsStep
<1>9. CASE PodCopyAssign(v, u)
  <2> DEFINE z == SetSize(x, 0)
  <2>1. PodUpdate(v, PodAssigned(z, ref), ref)
    BY <1>4, <1>9 DEF PodCopyAssign
  <2>2. Sized(z) /\ z.width > 0 /\ Len(ref) = BytesOf(k, z.width)
    BY <1>2, <1>3, <1>6, <1>9, HoldsFacts DEF PodCopyAssign, Width
  <2> HIDE DEF z
  <2>3. PodHolds(PodAssigned(z, ref), ref)
    BY <1>2, <2>2, AssignedHolds
  <2> QED
    BY <2>1, <2>3, OnePodStep
<1>10. CASE RecastCopyFrom(v, u)
  <2> DEFINE z == SetSize(x, 0)
             n == Len(ref) \div x.width
             whole == Whole(ref, x.width)
  <2>1. PodUpdate(v, PodAssigned(z, whole), whole)
    BY <1>4, <1>10 DEF RecastCopyFrom, Width
  <2>2. x.width \in Nat \ {0} /\ x.width > 0
    BY <1>3, <1>10 DEF RecastCopyFrom
  <2>3. whole \in Seq(Nat) /\ n \in Nat /\ Len(whole) = BytesOf(n, x.width)
    BY <1>2, <2>2, WholeIs
  <2> HIDE DEF whole, n
  <2>4. Sized(z) /\ z.width > 0 /\ Len(whole) = BytesOf(n, z.width)
    BY <1>6, <2>2, <2>3, HoldsFacts
  <2> HIDE DEF z
  <2>5. PodHolds(PodAssigned(z, whole), whole)
    BY <2>3, <2>4, AssignedHolds
  <2> QED
    BY <2>1, <2>5, OnePodStep
<1>11. CASE RecastTakeFrom(v, u)
  <2>1. /\ v # u /\ Exists(v)
        /\ pv' = [pv EXCEPT ![v] = RecastTaken(x, y), ![u] = FreshPod(y.width)]
        /\ pvRef' = [pvRef EXCEPT ![v] = Whole(ref, x.width), ![u] = <<>>]
    BY <1>11 DEF RecastTakeFrom, Width
  <2>2. PodHolds(RecastTaken(x, y), Whole(ref, x.width))
    BY <1>1, <1>2, <1>3, <2>1, TakenHolds
  <2> QED
    BY <1>5, <2>1, <2>2, TwoPodsStep
<1>12. CASE PodSwap(v, u)
  <2>1. /\ v # u /\ pv' = [pv EXCEPT ![v] = y, ![u] = x]
        /\ pvRef' = [pvRef EXCEPT ![v] = ref, ![u] = pvRef[v]]
    BY <1>12 DEF PodSwap
  <2> QED
    BY <1>1, <1>2, <2>1, TwoPodsStep
<1> QED
  BY <1>7, <1>8, <1>9, <1>10, <1>11, <1>12

\* The capacity the vectors believe in is there, and their bytes are the standard's vector's.
THEOREM PodVectorsAreStandard ==
  ASSUME ~FillsUp
  PROVE  PodSpec => []PodLikeStdVector
<1>1. PodInit => PodInv
  <2> SUFFICES ASSUME PodInit PROVE PodInv
    OBVIOUS
  <2>1. pv = [v \in PodVectors |-> NoPod] /\ pvRef = [v \in PodVectors |-> <<>>]
    BY DEF PodInit
  <2>2. FreshPod(0) = NoPod
    BY DEF FreshPod, NoPod
  <2>3. PodHolds(NoPod, <<>>)
    BY <2>2, FreshHolds
  <2> QED
    BY <2>1, <2>3 DEF PodInv
<1>2. PodInv /\ [PodNext]_podVars => PodInv'
  <2> SUFFICES ASSUME PodInv, [PodNext]_podVars PROVE PodInv'
    OBVIOUS
  <2>1. ASSUME NEW v \in PodVectors, PodCall(v) PROVE PodInv'
    <3>1. CASE PodConstruct(v) \/ PodConstructCount(v) \/ PodDestruct(v)
      BY <3>1, ConstructedHolds
    <3>2. CASE PodAssign(v) \/ PodReserve(v) \/ PodShrinkToFit(v) \/ PodClear(v) \/ PodInsert(v)
      BY <3>2, ChangedHolds
    <3>3. CASE \/ PodPushBack(v) \/ PodErase(v) \/ PodPopBack(v) \/ PodResize(v)
               \/ PodResizeValue(v)
      BY <3>3, EndedOrErasedHolds
    <3> QED
      BY <2>1, <3>1, <3>2, <3>3 DEF PodCall
  <2>2. ASSUME NEW v \in PodVectors, NEW u \in PodVectors,
               \/ PodCopyConstruct(v, u) \/ PodMove(v, u) \/ PodCopyAssign(v, u)
               \/ RecastCopyFrom(v, u) \/ RecastTakeFrom(v, u) \/ PodSwap(v, u)
        PROVE  PodInv'
    BY <2>2, BothHold
  <2>3. CASE UNCHANGED podVars
    BY <2>3 DEF podVars, PodInv
  <2> QED
    BY <2>1, <2>2, <2>3 DEF PodNext
<1>3. PodInv => PodLikeStdVector
  <2> SUFFICES ASSUME PodInv, NEW v \in PodVectors
               PROVE  LET x == pv[v] IN
                        /\ x.sound /\ x.size <= x.cap /\ x.cap * x.width <= Len(x.buf)
                        /\ PodContents(x) = pvRef[v]
    BY DEF PodLikeStdVector
  <2>1. PodHolds(pv[v], pvRef[v])
    BY DEF PodInv
  <2>2. PodContents(pv[v]) = pvRef[v]
    BY <2>1, ContentsAre
  <2> QED
    BY <2>1, <2>2 DEF PodHolds, Sized, BytesOf
<1> QED
  BY <1>1, <1>2, <1>3, PTL DEF PodSpec

-----------------------------------------------------------------------------
(* SmallVector                                                               *)

Bufs == {"static", "heap", "new"}
Mem == [static : Seq(Int), heap : Seq(Int), new : Seq(Int), sound : BOOLEAN]

\* The memory after each of the n rounds of a loop.
Rounds(w, m, n, rounds) ==
  /\ w[0] = m /\ Loop(m, rounds) = w[n]
  /\ \A k \in 1..n : w[k] = Round(w[k - 1], rounds[k])

\* A loop is its rounds, one after the other.
LEMMA LoopIs ==
  ASSUME NEW m, NEW n \in Nat, NEW rounds, DOMAIN rounds = 1..n
  PROVE  \E w : Rounds(w, m, n, rounds)
<1> DEFINE E(it, q) == [s \in SUBSET (1..q) |->
                          IF s = {} THEN m ELSE Round(it[s \ {Max(s)}], rounds[Max(s)])]
           iter == CHOOSE it : it = E(it, n)
           T == {q \in Nat : \E it : it = E(it, q)}
<1>1. Loop(m, rounds) = iter[1..n]
  BY DEF Loop, FoldLeft, MapThenFoldSet
<1>2. 0 \in T
  <2> DEFINE h == [s \in SUBSET (1..0) |-> m]
  <2>1. \A s \in SUBSET (1..0) : s = {}
    OBVIOUS
  <2>2. h = E(h, 0)
    BY <2>1
  <2> QED
    BY <2>2
<1>3. ASSUME NEW q \in Nat, q \in T PROVE q + 1 \in T
  <2>1. PICK it : it = E(it, q)
    BY <1>3
  <2> DEFINE h == [s \in SUBSET (1..q + 1) |->
                     IF q + 1 \in s THEN Round(it[s \ {q + 1}], rounds[q + 1]) ELSE it[s]]
  <2>2. ASSUME NEW s \in SUBSET (1..q + 1), q + 1 \in s
        PROVE  h[s] = Round(h[s \ {Max(s)}], rounds[Max(s)])
    <3>1. Max(s) = q + 1
      BY <2>2, LastOfInterval
    <3>2. s \ {q + 1} \in SUBSET (1..q) /\ s \ {q + 1} \in SUBSET (1..q + 1)
      OBVIOUS
    <3>3. h[s \ {q + 1}] = it[s \ {q + 1}]
      BY <3>2
    <3> QED
      BY <2>2, <3>1, <3>3
  <2>3. ASSUME NEW s \in SUBSET (1..q + 1), q + 1 \notin s, s # {}
        PROVE  h[s] = Round(h[s \ {Max(s)}], rounds[Max(s)])
    <3>1. \A i \in s : i \in 1..q
      BY <2>3
    <3>2. it[s] = Round(it[s \ {Max(s)}], rounds[Max(s)])
      BY <2>1, <2>3, <3>1
    <3>3. h[s] = it[s] /\ h[s \ {Max(s)}] = it[s \ {Max(s)}]
      BY <2>3, <3>1
    <3> QED
      BY <3>2, <3>3
  <2>4. h[{}] = m
    <3>1. {} \in SUBSET (1..q) /\ {} \in SUBSET (1..q + 1)
      OBVIOUS
    <3>2. it[{}] = m
      BY <2>1, <3>1
    <3> QED
      BY <3>1, <3>2
  <2>5. \A s \in SUBSET (1..q + 1) : h[s] = E(h, q + 1)[s]
    BY <2>2, <2>3, <2>4
  <2>6. h = E(h, q + 1)
    BY <2>5
  <2>7. \E f : f = E(f, q + 1)
    <3> HIDE DEF h
    <3> QED
      BY <2>6
  <2>8. q + 1 \in Nat
    OBVIOUS
  <2> QED
    BY <2>7, <2>8, Zenon
<1>4. n \in T
  <2> HIDE DEF T
  <2>1. \A q \in Nat : q < n /\ q \in T => q + 1 \in T
    BY <1>3
  <2>2. \A q \in 0..n : q \in T
    BY <1>2, <2>1, AllNumbers
  <2> QED
    BY <2>2
<1>5. iter = E(iter, n)
  BY <1>4
<1> HIDE DEF iter
<1> DEFINE w == [k \in 0..n |-> iter[1..k]]
<1>6. w[0] = m
  <2>1. {} \in SUBSET (1..n) /\ 1..0 = {} /\ 0 \in 0..n
    OBVIOUS
  <2>2. iter[{}] = m
    BY <1>5, <2>1
  <2> QED
    BY <2>1, <2>2
<1>7. ASSUME NEW k \in 1..n PROVE w[k] = Round(w[k - 1], rounds[k])
  <2> DEFINE q == k - 1
  <2>0. q \in Nat /\ q + 1 = k /\ q \in 0..n /\ k \in 0..n
    OBVIOUS
  <2> HIDE DEF q
  <2>1. Max(1..q + 1) = q + 1 /\ 1..q + 1 # {} /\ (1..q + 1) \ {q + 1} = 1..q
    BY <2>0, OneMore
  <2>2. 1..q + 1 \in SUBSET (1..n)
    BY <2>0
  <2>3. iter[1..q + 1] = Round(iter[1..q], rounds[q + 1])
    BY <1>5, <2>1, <2>2
  <2>4. w[k] = iter[1..q + 1] /\ w[q] = iter[1..q]
    BY <2>0
  <2> QED
    BY <2>0, <2>3, <2>4 DEF q
<1>8. Loop(m, rounds) = w[n]
  BY <1>1
<1> HIDE DEF w
<1>9. Rounds(w, m, n, rounds)
  BY <1>6, <1>7, <1>8 DEF Rounds
<1> QED
  BY <1>9

\* Memory in which nothing has been done that may not be done.
Fine(m) == m \in Mem /\ m.sound

\* Memory of the same size, in which cell j of buffer b is now x and cell i of buffer a is y.
Altered(n, m, b, j, x, a, i, y) ==
  /\ Fine(n)
  /\ \A c \in Bufs :
       /\ Len(n[c]) = Len(m[c])
       /\ \A k \in 1..Len(m[c]) :
            n[c][k] = IF c = b /\ k = j THEN x ELSE IF c = a /\ k = i THEN y ELSE m[c][k]

\* What memory consists of.
LEMMA MemFacts ==
  ASSUME NEW m \in Mem, NEW a \in Bufs
  PROVE  /\ m[a] \in Seq(Int) /\ Len(m[a]) \in Nat /\ DOMAIN m[a] = 1..Len(m[a])
         /\ \A i \in 1..Len(m[a]) : m[a][i] \in Int
BY DEF Mem, Bufs

\* One cell is written, and it was right to do so.
LEMMA CellIs ==
  ASSUME NEW m, Fine(m), NEW a \in Bufs, NEW i \in 1..Len(m[a]), NEW x \in Int, NEW s, s = TRUE
  PROVE  Altered([m EXCEPT !.sound = s, ![a][i] = x], m, a, i, x, a, i, x)
<1> DEFINE n == [m EXCEPT !.sound = s, ![a][i] = x]
<1>1. \A c \in Bufs : n[c] = IF c = a THEN [m[a] EXCEPT ![i] = x] ELSE m[c]
  BY DEF Fine, Mem, Bufs
<1>2. m[a] \in Seq(Int) /\ [m[a] EXCEPT ![i] = x] \in Seq(Int)
  BY MemFacts DEF Fine
<1>3. n \in Mem
  <2>1. n = [static |-> n.static, heap |-> n.heap, new |-> n.new, sound |-> n.sound]
    <3>1. m = [static |-> m.static, heap |-> m.heap, new |-> m.new, sound |-> m.sound]
      BY DEF Fine, Mem
    <3>2. DOMAIN n = DOMAIN m
      BY DEF Fine, Mem
    <3>3. DOMAIN m = {"static", "heap", "new", "sound"}
      BY <3>1
    <3>4. n = [f \in DOMAIN n |-> n[f]]
      BY DEF Fine, Mem
    <3> HIDE DEF n
    <3> QED
      BY <3>2, <3>3, <3>4
  <2>2. \A c \in Bufs : n[c] \in Seq(Int)
    BY <1>1, <1>2, MemFacts DEF Fine
  <2>3. n.static \in Seq(Int) /\ n.heap \in Seq(Int) /\ n.new \in Seq(Int)
    BY <2>2 DEF Bufs
  <2>4. n.sound = TRUE
    BY DEF Fine, Mem, Bufs
  <2> HIDE DEF n
  <2> QED
    BY <2>1, <2>3, <2>4 DEF Mem
<1>4. n.sound
  BY DEF Fine, Mem, Bufs
<1> HIDE DEF n
<1>5. ASSUME NEW c \in Bufs
      PROVE  /\ Len(n[c]) = Len(m[c])
             /\ \A k \in 1..Len(m[c]) : n[c][k] = IF c = a /\ k = i THEN x ELSE m[c][k]
  <2> DEFINE t == m[a]
             e == [t EXCEPT ![i] = x]
  <2>1. t \in Seq(Int) /\ i \in 1..Len(t) /\ x \in Int
    BY <1>2
  <2>2. n[c] = IF c = a THEN e ELSE m[c]
    BY ONLY <1>1, c \in Bufs
  <2>3. c = a => m[c] = t
    OBVIOUS
  <2> HIDE DEF t
  <2>4. Len(e) = Len(t) /\ \A k \in 1..Len(t) : e[k] = IF k = i THEN x ELSE t[k]
    BY ONLY <2>1
  <2> HIDE DEF e
  <2> QED
    BY ONLY <2>2, <2>3, <2>4
<1>6. Altered(n, m, a, i, x, a, i, x)
  BY <1>3, <1>4, <1>5 DEF Altered, Fine
<1> QED
  BY <1>6 DEF n

\* The rounds of the loops.
LEMMA ConstructIs ==
  ASSUME NEW m, Fine(m), NEW a \in Bufs, NEW i \in 1..Len(m[a]), NEW x \in Int, m[a][i] = Raw
  PROVE  Altered(Construct(m, a, i, x), m, a, i, x, a, i, x)
BY CellIs, MemFacts DEF Construct, Fine

\* Destroying an object leaves a raw cell.
LEMMA DestroyIs ==
  ASSUME NEW m, Fine(m), NEW a \in Bufs, NEW i \in 1..Len(m[a]), m[a][i] # Raw
  PROVE  Altered(Destroy(m, a, i), m, a, i, Raw, a, i, Raw)
<1>1. Raw \in Int
  BY DEF Raw
<1> QED
  BY <1>1, CellIs, MemFacts DEF Destroy, Fine

\* The object moves, and one moved from stays behind.
LEMMA MovedIs ==
  ASSUME NEW m, Fine(m), NEW a \in Bufs, NEW i \in 1..Len(m[a]), IsValue(m[a][i]),
         NEW b \in Bufs, NEW j \in 1..Len(m[b]), m[b][j] = Raw
  PROVE  Altered(Move(m, a, i, b, j), m, b, j, m[a][i], a, i, MovedFrom)
<1> DEFINE n == [m EXCEPT !.sound = @ /\ IsValue(m[a][i]), ![a][i] = MovedFrom]
           x == m[a][i]
           p == Construct(n, b, j, x)
<1>1. MovedFrom \in Int /\ x \in Int /\ m.sound /\ x # Raw
  BY MemFacts DEF Fine, MovedFrom, IsValue
<1>2. Altered(n, m, a, i, MovedFrom, a, i, MovedFrom)
  BY <1>1, CellIs
<1>3. p = Move(m, a, i, b, j)
  BY DEF Move
<1> HIDE DEF n, x
<1>4. Fine(n) /\ j \in 1..Len(n[b]) /\ n[b][j] = Raw
  BY <1>1, <1>2 DEF Altered, x
<1>5. Altered(p, n, b, j, x, b, j, x)
  BY <1>1, <1>4, ConstructIs
<1> HIDE DEF p
<1>6. Altered(p, m, b, j, x, a, i, MovedFrom)
  BY <1>2, <1>5 DEF Altered
<1> QED
  BY <1>3, <1>6 DEF x

\* The object moves, and nothing stays behind.
LEMMA CarriedIs ==
  ASSUME NEW m, Fine(m), NEW a \in Bufs, NEW i \in 1..Len(m[a]), IsValue(m[a][i]),
         NEW b \in Bufs, NEW j \in 1..Len(m[b]), m[b][j] = Raw
  PROVE  Altered(Destroy(Move(m, a, i, b, j), a, i), m, b, j, m[a][i], a, i, Raw)
<1> DEFINE n == Move(m, a, i, b, j)
           p == Destroy(n, a, i)
<1>1. Altered(n, m, b, j, m[a][i], a, i, MovedFrom)
  BY MovedIs
<1> HIDE DEF n
<1>2. ~(a = b /\ i = j) /\ MovedFrom # Raw
  BY DEF IsValue, MovedFrom, Raw
<1>3. Fine(n) /\ i \in 1..Len(n[a]) /\ n[a][i] # Raw
  BY <1>1, <1>2 DEF Altered
<1>4. Altered(p, n, a, i, Raw, a, i, Raw)
  BY <1>3, DestroyIs
<1> HIDE DEF p
<1>5. Altered(p, m, b, j, m[a][i], a, i, Raw)
  BY <1>1, <1>2, <1>4 DEF Altered
<1> QED
  BY <1>5 DEF n, p

\* The object moves over the one that is there.
LEMMA ReplacedIs ==
  ASSUME NEW m, Fine(m), NEW a \in Bufs, NEW i \in 1..Len(m[a]), IsValue(m[a][i]),
         NEW b \in Bufs, NEW j \in 1..Len(m[b]), m[b][j] # Raw, ~(a = b /\ i = j)
  PROVE  Altered(Move(Destroy(m, b, j), a, i, b, j), m, b, j, m[a][i], a, i, MovedFrom)
<1> DEFINE n == Destroy(m, b, j)
           p == Move(n, a, i, b, j)
<1>1. Altered(n, m, b, j, Raw, b, j, Raw)
  BY DestroyIs
<1> HIDE DEF n
<1>3. /\ Fine(n) /\ i \in 1..Len(n[a]) /\ n[a][i] = m[a][i]
      /\ j \in 1..Len(n[b]) /\ n[b][j] = Raw
  BY <1>1 DEF Altered
<1>4. Altered(p, n, b, j, m[a][i], a, i, MovedFrom)
  BY <1>3, MovedIs
<1> HIDE DEF p
<1>5. Altered(p, m, b, j, m[a][i], a, i, MovedFrom)
  BY <1>1, <1>4 DEF Altered
<1> QED
  BY <1>5 DEF n, p

\* Memory in which the k cells of b behind `to' are now what xs has and the k cells of a
\* behind `from' are y; "none" stands for no buffer.
Rewritten(w, m, k, b, to, xs, a, from, y) ==
  /\ Fine(w)
  /\ \A c \in Bufs :
       /\ Len(w[c]) = Len(m[c])
       /\ \A l \in 1..Len(m[c]) :
            w[c][l] = IF c = b /\ to < l /\ l <= to + k THEN xs[l - to]
                      ELSE IF c = a /\ from < l /\ l <= from + k THEN y ELSE m[c][l]

\* One more cell of each.
LEMMA OneMoreCell ==
  ASSUME NEW m, Fine(m), NEW w, NEW k \in Nat, NEW b, NEW to \in Nat, NEW xs,
         NEW a, NEW from \in Nat, NEW y, a # b, Rewritten(w, m, k, b, to, xs, a, from, y),
         NEW n, Altered(n, w, b, to + (k + 1), xs[k + 1], a, from + (k + 1), y)
  PROVE  Rewritten(n, m, k + 1, b, to, xs, a, from, y)
<1>1. Fine(n) /\ \A c \in Bufs : Len(n[c]) = Len(m[c]) /\ Len(m[c]) \in Nat
  BY MemFacts DEF Altered, Rewritten, Fine
<1>2. ASSUME NEW c \in Bufs, NEW l \in 1..Len(m[c])
      PROVE  n[c][l] = IF c = b /\ to < l /\ l <= to + (k + 1) THEN xs[l - to]
                       ELSE IF c = a /\ from < l /\ l <= from + (k + 1) THEN y ELSE m[c][l]
  <2>1. /\ l \in 1..Len(w[c])
        /\ w[c][l] = IF c = b /\ to < l /\ l <= to + k THEN xs[l - to]
                     ELSE IF c = a /\ from < l /\ l <= from + k THEN y ELSE m[c][l]
    BY DEF Rewritten
  <2>2. n[c][l] = IF c = b /\ l = to + (k + 1) THEN xs[k + 1]
                  ELSE IF c = a /\ l = from + (k + 1) THEN y ELSE w[c][l]
    BY <2>1 DEF Altered
  <2>3. l \in Nat /\ (l = to + (k + 1) => l - to = k + 1)
    BY <1>1
  <2>4. CASE c = b
    BY <2>1, <2>2, <2>3, <2>4
  <2>5. CASE c = a
    BY <2>1, <2>2, <2>3, <2>5
  <2>6. CASE c # a /\ c # b
    BY <2>1, <2>2, <2>6
  <2> QED
    BY <2>4, <2>5, <2>6
<1> QED
  BY <1>1, <1>2 DEF Rewritten

\* What each round keeps is true after the loop.
LEMMA LoopKeeps ==
  ASSUME NEW m, NEW n \in Nat, NEW rounds, DOMAIN rounds = 1..n, NEW G, m \in G[0],
         \A k \in Nat : k < n => \A w \in G[k] : Round(w, rounds[k + 1]) \in G[k + 1]
  PROVE  Loop(m, rounds) \in G[n]
<1>1. PICK w : Rounds(w, m, n, rounds)
  BY LoopIs
<1> DEFINE T == {k \in Nat : w[k] \in G[k]}
<1>2. 0 \in T
  BY <1>1 DEF Rounds
<1>3. ASSUME NEW k \in Nat, k < n, k \in T PROVE k + 1 \in T
  <2>1. k + 1 \in 1..n /\ (k + 1) - 1 = k
    BY <1>3
  <2>2. w[k + 1] = Round(w[k], rounds[k + 1])
    BY <1>1, <2>1 DEF Rounds
  <2> QED
    BY <1>3, <2>2
<1>4. n \in T
  <2> HIDE DEF T
  <2>1. \A k \in Nat : k < n /\ k \in T => k + 1 \in T
    BY <1>3
  <2>2. \A k \in 0..n : k \in T
    BY <1>2, <2>1, AllNumbers
  <2> QED
    BY <2>2
<1> QED
  BY <1>1, <1>4 DEF Rounds

\* A loop that goes through cells one by one rewrites them.
LEMMA LoopRewrites ==
  ASSUME NEW m, Fine(m), NEW n \in Nat, NEW rounds, DOMAIN rounds = 1..n,
         NEW b, NEW to \in Nat, NEW xs, NEW a, NEW from \in Nat, NEW y, a # b,
         \A k \in Nat : k < n => \A w :
           Rewritten(w, m, k, b, to, xs, a, from, y) =>
             Altered(Round(w, rounds[k + 1]), w, b, to + (k + 1), xs[k + 1],
                     a, from + (k + 1), y)
  PROVE  Rewritten(Loop(m, rounds), m, n, b, to, xs, a, from, y)
<1> DEFINE G == [k \in 0..n |-> {w \in Mem : Rewritten(w, m, k, b, to, xs, a, from, y)}]
<1>1. m \in G[0]
  <2>1. \A c \in Bufs : Len(m[c]) \in Nat
    BY MemFacts DEF Fine
  <2>2. Rewritten(m, m, 0, b, to, xs, a, from, y)
    BY <2>1 DEF Rewritten
  <2> QED
    BY <2>2 DEF Fine
<1>2. ASSUME NEW k \in Nat, k < n, NEW w \in G[k] PROVE Round(w, rounds[k + 1]) \in G[k + 1]
  <2> DEFINE v == Round(w, rounds[k + 1])
  <2>1. k \in 0..n /\ k + 1 \in 0..n
    BY <1>2
  <2>2. Rewritten(w, m, k, b, to, xs, a, from, y)
    BY <2>1
  <2>3. Altered(v, w, b, to + (k + 1), xs[k + 1], a, from + (k + 1), y)
    BY <1>2, <2>2
  <2> HIDE DEF v
  <2>4. Rewritten(v, m, k + 1, b, to, xs, a, from, y)
    BY <2>2, <2>3, OneMoreCell
  <2>5. v \in Mem
    BY <2>4 DEF Rewritten, Fine
  <2>6. v \in G[k + 1]
    BY <2>1, <2>4, <2>5
  <2> QED
    BY <2>6 DEF v
<1>3. Loop(m, rounds) \in G[n]
  <2> HIDE DEF G
  <2> QED
    BY <1>1, <1>2, LoopKeeps
<1> QED
  BY <1>3

\* construct, one value after the other
LEMMA ConstructAllIs ==
  ASSUME NEW m, Fine(m), NEW b \in Bufs, NEW to \in Nat, NEW xs \in Seq(Int),
         to + Len(xs) <= Len(m[b]),
         \A l \in 1..Len(m[b]) : to < l /\ l <= to + Len(xs) => m[b][l] = Raw
  PROVE  Rewritten(ConstructAll(m, b, to, xs), m, Len(xs), b, to, xs, "none", 0, Raw)
<1> DEFINE n == Len(xs)
           rounds == [k \in 1..n |-> [does |-> "construct", b |-> b, j |-> to + k, x |-> xs[k]]]
<1>1. n \in Nat /\ Len(m[b]) \in Nat /\ DOMAIN rounds = 1..n /\ "none" # b /\ Raw \in Int
  BY MemFacts DEF Fine, Bufs, Raw
<1>2. ASSUME NEW k \in Nat, k < n, NEW w, Rewritten(w, m, k, b, to, xs, "none", 0, Raw)
      PROVE  Altered(Round(w, rounds[k + 1]), w, b, to + (k + 1), xs[k + 1],
                     "none", 0 + (k + 1), Raw)
  <2> DEFINE j == to + (k + 1)
  <2>1. k + 1 \in 1..n /\ j \in 1..Len(m[b]) /\ ~(j <= to + k) /\ xs[k + 1] \in Int
    BY <1>1, <1>2
  <2>2. Round(w, rounds[k + 1]) = Construct(w, b, j, xs[k + 1])
    BY <2>1 DEF Round
  <2>3. m[b][j] = Raw
    BY <1>1, <1>2, <2>1
  <2> HIDE DEF j
  <2>4. Fine(w) /\ j \in 1..Len(w[b]) /\ w[b][j] = Raw
    BY <1>1, <1>2, <2>1, <2>3 DEF Rewritten
  <2>5. Altered(Construct(w, b, j, xs[k + 1]), w, b, j, xs[k + 1], b, j, xs[k + 1])
    BY <2>1, <2>4, ConstructIs
  <2>6. Altered(Construct(w, b, j, xs[k + 1]), w, b, j, xs[k + 1], "none", 0 + (k + 1), Raw)
    BY <2>5 DEF Altered, Bufs
  <2> QED
    BY <2>2, <2>6 DEF j
<1>3. ConstructAll(m, b, to, xs) = Loop(m, rounds)
  BY DEF ConstructAll
<1> HIDE DEF rounds, n
<1>4. Rewritten(Loop(m, rounds), m, n, b, to, xs, "none", 0, Raw)
  BY <1>1, <1>2, LoopRewrites
<1> QED
  BY <1>3, <1>4 DEF n

\* destroy, one object after the other
LEMMA DestroyAllIs ==
  ASSUME NEW m, Fine(m), NEW a \in Bufs, NEW from \in Nat, NEW n \in Nat,
         from + n <= Len(m[a]),
         \A l \in 1..Len(m[a]) : from < l /\ l <= from + n => m[a][l] # Raw
  PROVE  Rewritten(DestroyAll(m, a, from, n), m, n, "none", 0, <<>>, a, from, Raw)
<1> DEFINE rounds == [k \in 1..n |-> [does |-> "destroy", a |-> a, i |-> from + k]]
<1>1. Len(m[a]) \in Nat /\ DOMAIN rounds = 1..n /\ a # "none"
  BY MemFacts DEF Fine, Bufs
<1>2. ASSUME NEW k \in Nat, k < n, NEW w,
             Rewritten(w, m, k, "none", 0, <<>>, a, from, Raw)
      PROVE  Altered(Round(w, rounds[k + 1]), w, "none", 0 + (k + 1), <<>>[k + 1],
                     a, from + (k + 1), Raw)
  <2> DEFINE i == from + (k + 1)
  <2>1. k + 1 \in 1..n /\ i \in 1..Len(m[a]) /\ ~(i <= from + k)
    BY <1>1, <1>2
  <2>2. Round(w, rounds[k + 1]) = Destroy(w, a, i)
    BY <2>1 DEF Round
  <2>3. m[a][i] # Raw
    BY <1>1, <1>2, <2>1
  <2> HIDE DEF i
  <2>4. Fine(w) /\ i \in 1..Len(w[a]) /\ w[a][i] # Raw
    BY <1>1, <1>2, <2>1, <2>3 DEF Rewritten
  <2>5. Altered(Destroy(w, a, i), w, a, i, Raw, a, i, Raw)
    BY <2>4, DestroyIs
  <2>6. Altered(Destroy(w, a, i), w, "none", 0 + (k + 1), <<>>[k + 1], a, i, Raw)
    BY <2>5 DEF Altered, Bufs
  <2> QED
    BY <2>2, <2>6 DEF i
<1>3. DestroyAll(m, a, from, n) = Loop(m, rounds)
  BY DEF DestroyAll
<1> HIDE DEF rounds
<1>4. Rewritten(Loop(m, rounds), m, n, "none", 0, <<>>, a, from, Raw)
  BY <1>1, <1>2, LoopRewrites
<1> QED
  BY <1>3, <1>4

\* What a transfer leaves behind.
Behind(does) == IF does = "move" THEN MovedFrom ELSE Raw

\* Elements move to another buffer.
LEMMA TransferIs ==
  ASSUME NEW m, Fine(m), NEW does \in {"move", "carry"}, NEW n \in Nat,
         NEW a \in Bufs, NEW from \in Nat, from + n <= Len(m[a]),
         NEW b \in Bufs, NEW to \in Nat, to + n <= Len(m[b]), a # b,
         \A l \in 1..Len(m[a]) : from < l /\ l <= from + n => IsValue(m[a][l]),
         \A l \in 1..Len(m[b]) : to < l /\ l <= to + n => m[b][l] = Raw
  PROVE  Rewritten(Transfer(m, does, a, from, b, to, n), m, n,
                   b, to, [k \in 1..n |-> m[a][from + k]], a, from, Behind(does))
<1> DEFINE rounds == [k \in 1..n |-> [does |-> does, a |-> a, i |-> from + k,
                                                     b |-> b, j |-> to + k]]
           xs == [k \in 1..n |-> m[a][from + k]]
           y == Behind(does)
<1>1. Len(m[a]) \in Nat /\ Len(m[b]) \in Nat /\ DOMAIN rounds = 1..n
  BY MemFacts DEF Fine
<1>2. ASSUME NEW k \in Nat, k < n, NEW w, Rewritten(w, m, k, b, to, xs, a, from, y)
      PROVE  Altered(Round(w, rounds[k + 1]), w, b, to + (k + 1), xs[k + 1],
                     a, from + (k + 1), y)
  <2> DEFINE i == from + (k + 1)
             j == to + (k + 1)
  <2>1. /\ k + 1 \in 1..n /\ i \in 1..Len(m[a]) /\ ~(i <= from + k)
        /\ j \in 1..Len(m[b]) /\ ~(j <= to + k)
    BY <1>1, <1>2
  <2>2. /\ does = "move" => Round(w, rounds[k + 1]) = Move(w, a, i, b, j)
        /\ does = "carry" => Round(w, rounds[k + 1]) = Destroy(Move(w, a, i, b, j), a, i)
    BY <2>1 DEF Round
  <2>3. IsValue(m[a][i]) /\ m[b][j] = Raw /\ xs[k + 1] = m[a][i]
    BY <1>1, <1>2, <2>1
  <2> HIDE DEF i, j, rounds, xs, y
  <2>4. /\ Fine(w) /\ i \in 1..Len(w[a]) /\ w[a][i] = m[a][i]
        /\ j \in 1..Len(w[b]) /\ w[b][j] = m[b][j]
    BY <1>1, <1>2, <2>1 DEF Rewritten
  <2>5. Altered(Round(w, rounds[k + 1]), w, b, j, w[a][i], a, i, y)
    <3>1. CASE does = "move"
      BY <2>2, <2>3, <2>4, <3>1, MovedIs DEF y, Behind
    <3>2. CASE does = "carry"
      BY <2>2, <2>3, <2>4, <3>2, CarriedIs DEF y, Behind
    <3> QED
      BY <3>1, <3>2
  <2> QED
    BY <2>3, <2>4, <2>5 DEF i, j
<1>3. Transfer(m, does, a, from, b, to, n) = Loop(m, rounds)
  BY DEF Transfer
<1> HIDE DEF rounds, xs, y
<1>4. Rewritten(Loop(m, rounds), m, n, b, to, xs, a, from, y)
  BY <1>1, <1>2, LoopRewrites
<1> QED
  BY <1>3, <1>4 DEF xs, y

\* The n cells of a buffer behind `from'.
Cells(m, a, from, n) == [k \in 1..n |-> m[a][from + k]]

\* Elements move to another buffer and leave themselves behind, moved from.
LEMMA MoveAllIs ==
  ASSUME NEW m, Fine(m), NEW n \in Nat,
         NEW a \in Bufs, NEW from \in Nat, from + n <= Len(m[a]),
         NEW b \in Bufs, NEW to \in Nat, to + n <= Len(m[b]), a # b,
         \A l \in 1..Len(m[a]) : from < l /\ l <= from + n => IsValue(m[a][l]),
         \A l \in 1..Len(m[b]) : to < l /\ l <= to + n => m[b][l] = Raw
  PROVE  Rewritten(MoveAll(m, a, from, b, to, n), m, n,
                   b, to, Cells(m, a, from, n), a, from, MovedFrom)
<1>1. Rewritten(Transfer(m, "move", a, from, b, to, n), m, n,
                b, to, [k \in 1..n |-> m[a][from + k]], a, from, Behind("move"))
  BY TransferIs
<1> QED
  BY <1>1 DEF MoveAll, Behind, Cells

\* They move there and nothing is left behind.
LEMMA CarryAllIs ==
  ASSUME NEW m, Fine(m), NEW n \in Nat,
         NEW a \in Bufs, NEW from \in Nat, from + n <= Len(m[a]),
         NEW b \in Bufs, NEW to \in Nat, to + n <= Len(m[b]), a # b,
         \A l \in 1..Len(m[a]) : from < l /\ l <= from + n => IsValue(m[a][l]),
         \A l \in 1..Len(m[b]) : to < l /\ l <= to + n => m[b][l] = Raw
  PROVE  Rewritten(CarryAll(m, a, from, b, to, n), m, n,
                   b, to, Cells(m, a, from, n), a, from, Raw)
<1>0. /\ Fine(m) /\ n \in Nat /\ a \in Bufs /\ from \in Nat /\ from + n <= Len(m[a])
      /\ b \in Bufs /\ to \in Nat /\ to + n <= Len(m[b]) /\ a # b
      /\ \A l \in 1..Len(m[a]) : from < l /\ l <= from + n => IsValue(m[a][l])
      /\ \A l \in 1..Len(m[b]) : to < l /\ l <= to + n => m[b][l] = Raw
  OBVIOUS
<1>1. PICK does \in {"move", "carry"} : does = "carry"
  OBVIOUS
<1>2. Rewritten(Transfer(m, does, a, from, b, to, n), m, n,
                b, to, [k \in 1..n |-> m[a][from + k]], a, from, Behind(does))
  BY ONLY <1>0, <1>1, TransferIs
<1> QED
  BY <1>1, <1>2 DEF CarryAll, Behind, Cells

\* Memory of the same size whose cells are what f has for them.
Holding(w, m, f) ==
  /\ Fine(w)
  /\ \A c \in Bufs :
       /\ Len(w[c]) = Len(m[c])
       /\ \A l \in 1..Len(m[c]) : w[c][l] = f[c][l]

\* After k rounds that pull elements num cells down.
Pulled(m, k, a, pos, num) ==
  [c \in Bufs |-> [l \in 1..Len(m[c]) |->
     IF c = a /\ pos < l /\ l <= pos + k THEN m[a][l + num]
     ELSE IF c = a /\ pos + num < l /\ l <= pos + num + k THEN MovedFrom ELSE m[c][l]]]

\* After k rounds that push elements num cells up, from the last one down.
Pushed(m, k, a, size, num) ==
  [c \in Bufs |-> [l \in 1..Len(m[c]) |->
     IF c = a /\ size - k + num < l /\ l <= size + num THEN m[a][l - num]
     ELSE IF c = a /\ size - k < l /\ l <= size - k + num THEN Raw ELSE m[c][l]]]

\* After k rounds that destroy from the last one down.
Popped(m, k, a, size) ==
  [c \in Bufs |-> [l \in 1..Len(m[c]) |->
     IF c = a /\ size - k < l /\ l <= size THEN Raw ELSE m[c][l]]]

\* A loop whose memories are known, round by round.
LEMMA LoopHolds ==
  ASSUME NEW m, NEW n \in Nat, NEW rounds, DOMAIN rounds = 1..n, NEW f,
         Holding(m, m, f[0]),
         \A k \in Nat : k < n => \A w :
           Holding(w, m, f[k]) => Holding(Round(w, rounds[k + 1]), m, f[k + 1])
  PROVE  Holding(Loop(m, rounds), m, f[n])
<1> DEFINE G == [k \in 0..n |-> {w \in Mem : Holding(w, m, f[k])}]
<1>1. m \in G[0]
  BY DEF Holding, Fine
<1>2. ASSUME NEW k \in Nat, k < n, NEW w \in G[k] PROVE Round(w, rounds[k + 1]) \in G[k + 1]
  <2> DEFINE v == Round(w, rounds[k + 1])
  <2>1. k \in 0..n /\ k + 1 \in 0..n
    BY <1>2
  <2>2. Holding(v, m, f[k + 1])
    BY <1>2, <2>1
  <2> HIDE DEF v
  <2>5. v \in Mem
    BY <2>2 DEF Holding, Fine
  <2>6. v \in G[k + 1]
    BY <2>1, <2>2, <2>5
  <2> QED
    BY <2>6 DEF v
<1>3. Loop(m, rounds) \in G[n]
  <2> HIDE DEF G
  <2> QED
    BY <1>1, <1>2, LoopKeeps
<1> QED
  BY <1>3

\* The loop of shrink_at in place.
LEMMA PulledIs ==
  ASSUME NEW m, Fine(m), NEW a \in Bufs, NEW pos \in Nat, NEW num \in Nat \ {0}, NEW n \in Nat,
         pos + num + n <= Len(m[a]),
         \A l \in 1..Len(m[a]) : pos < l /\ l <= pos + num + n => IsValue(m[a][l])
  PROVE  Holding(Transfer(m, "replace", a, pos + num, a, pos, n), m, Pulled(m, n, a, pos, num))
<1> DEFINE rounds == [k \in 1..n |-> [does |-> "replace", a |-> a, i |-> pos + num + k,
                                                           b |-> a, j |-> pos + k]]
           f == [k \in 0..n |-> Pulled(m, k, a, pos, num)]
<1>1. /\ DOMAIN rounds = 1..n /\ \A c \in Bufs : Len(m[c]) \in Nat
      /\ MovedFrom # Raw
  BY MemFacts DEF Fine, MovedFrom, Raw
<1>2. Holding(m, m, f[0])
  BY <1>1 DEF Holding, Pulled
<1>3. ASSUME NEW k \in Nat, k < n, NEW w, Holding(w, m, f[k])
      PROVE  Holding(Round(w, rounds[k + 1]), m, f[k + 1])
  <2> DEFINE i == pos + num + (k + 1)
             j == pos + (k + 1)
  <2>1. /\ k + 1 \in 1..n /\ k + 1 \in 0..n /\ k \in 0..n
        /\ i \in 1..Len(m[a]) /\ ~(i <= pos + num + k) /\ ~(i <= pos + k) /\ i <= pos + num + n
        /\ j \in 1..Len(m[a]) /\ ~(j <= pos + k) /\ j <= pos + num + n /\ i # j /\ pos < i
        /\ pos < j /\ j + num = i
    BY <1>1, <1>3
  <2>2. Round(w, rounds[k + 1]) = Move(Destroy(w, a, j), a, i, a, j)
    BY <2>1 DEF Round
  <2>3. IsValue(m[a][i]) /\ IsValue(m[a][j])
    BY <2>1
  <2>4. Holding(w, m, Pulled(m, k, a, pos, num))
    BY <1>3, <2>1
  <2> HIDE DEF i, j, rounds
  <2>5. /\ Fine(w) /\ i \in 1..Len(w[a]) /\ w[a][i] = m[a][i]
        /\ j \in 1..Len(w[a]) /\ w[a][j] # Raw
    BY <1>1, <2>1, <2>3, <2>4 DEF Holding, Pulled, IsValue
  <2> DEFINE v == Move(Destroy(w, a, j), a, i, a, j)
  <2>6. Altered(v, w, a, j, m[a][i], a, i, MovedFrom)
    BY <2>1, <2>3, <2>5, ReplacedIs
  <2> HIDE DEF v
  <2>7. ASSUME NEW c \in Bufs, NEW l \in 1..Len(m[c])
        PROVE  v[c][l] = Pulled(m, k + 1, a, pos, num)[c][l]
    <3>1. /\ w[c][l] = Pulled(m, k, a, pos, num)[c][l] /\ l \in 1..Len(w[c]) /\ l \in Nat
      BY <1>1, <2>4 DEF Holding
    <3>2. v[c][l] = IF c = a /\ l = j THEN m[a][i]
                    ELSE IF c = a /\ l = i THEN MovedFrom ELSE w[c][l]
      BY <2>6, <3>1 DEF Altered
    <3>3. CASE c # a
      BY <3>1, <3>2, <3>3 DEF Pulled
    <3>4. CASE c = a /\ l = j
      BY <2>1, <3>2, <3>4 DEF Pulled, j
    <3>5. CASE c = a /\ l = i
      BY <2>1, <3>2, <3>5 DEF Pulled, i
    <3>6. CASE c = a /\ l # i /\ l # j
      <4>1. l <= pos + (k + 1) <=> l <= pos + k
        BY <3>1, <3>6 DEF j
      <4>2. l <= pos + num + (k + 1) <=> l <= pos + num + k
        BY <3>1, <3>6 DEF i
      <4> QED
        BY <3>1, <3>2, <3>6, <4>1, <4>2 DEF Pulled
    <3> QED
      BY <3>3, <3>4, <3>5, <3>6
  <2>8. Fine(v) /\ \A c \in Bufs : Len(v[c]) = Len(m[c])
    BY <2>4, <2>6 DEF Altered, Holding
  <2>9. Holding(v, m, f[k + 1])
    BY <2>1, <2>7, <2>8 DEF Holding
  <2> QED
    BY <2>2, <2>9 DEF v
<1>4. Transfer(m, "replace", a, pos + num, a, pos, n) = Loop(m, rounds)
  BY DEF Transfer
<1> HIDE DEF rounds
<1>5. Holding(Loop(m, rounds), m, f[n])
  <2> HIDE DEF f
  <2> QED
    BY <1>1, <1>2, <1>3, LoopHolds
<1> QED
  BY <1>4, <1>5

\* The loop of grow_at in place.
LEMMA PushedIs ==
  ASSUME NEW m, Fine(m), NEW a \in Bufs, NEW size \in Nat, NEW num \in Nat \ {0}, NEW n \in Nat,
         n <= size, size + num <= Len(m[a]),
         \A l \in 1..Len(m[a]) : size - n < l /\ l <= size => IsValue(m[a][l]),
         \A l \in 1..Len(m[a]) : size < l /\ l <= size + num => m[a][l] = Raw
  PROVE  LET rounds == [k \in 1..n |-> [does |-> "carry", a |-> a, i |-> size + 1 - k,
                                        b |-> a, j |-> size + 1 - k + num]]
         IN Holding(Loop(m, rounds), m, Pushed(m, n, a, size, num))
<1> DEFINE rounds == [k \in 1..n |-> [does |-> "carry", a |-> a, i |-> size + 1 - k,
                                      b |-> a, j |-> size + 1 - k + num]]
           f == [k \in 0..n |-> Pushed(m, k, a, size, num)]
<1>1. DOMAIN rounds = 1..n /\ \A c \in Bufs : Len(m[c]) \in Nat
  BY MemFacts DEF Fine
<1>2. Holding(m, m, f[0])
  <2>1. ASSUME NEW c \in Bufs, NEW l \in 1..Len(m[c])
        PROVE  m[c][l] = Pushed(m, 0, a, size, num)[c][l]
    <3>1. /\ ~(size - 0 + num < l /\ l <= size + num)
          /\ size - 0 < l /\ l <= size - 0 + num => size < l /\ l <= size + num
      BY <1>1
    <3> QED
      BY <3>1 DEF Pushed
  <2> QED
    BY <2>1 DEF Holding
<1>3. ASSUME NEW k \in Nat, k < n, NEW w, Holding(w, m, f[k])
      PROVE  Holding(Round(w, rounds[k + 1]), m, f[k + 1])
  <2> DEFINE i == size + 1 - (k + 1)
             j == i + num
  <2>1. /\ k + 1 \in 1..n /\ k + 1 \in 0..n /\ k \in 0..n
        /\ i = size - k /\ i \in 1..Len(m[a]) /\ size - n < i /\ i <= size
        /\ j \in 1..Len(m[a]) /\ i # j /\ i < j /\ i \in Nat /\ j \in Nat /\ j - num = i
        /\ j <= size + num
    BY <1>1, <1>3
  <2>2. Round(w, rounds[k + 1]) = Destroy(Move(w, a, i, a, j), a, i)
    BY <2>1 DEF Round
  <2>3. IsValue(m[a][i])
    BY <2>1
  <2>4. Holding(w, m, Pushed(m, k, a, size, num))
    BY <1>3, <2>1
  <2> HIDE DEF i, rounds
  <2>5. ASSUME NEW c \in Bufs, NEW l \in 1..Len(m[c])
        PROVE  /\ Pushed(m, k, a, size, num)[c][l] =
                    IF c = a /\ j < l /\ l <= size + num THEN m[a][l - num]
                    ELSE IF c = a /\ i < l /\ l <= j THEN Raw ELSE m[c][l]
               /\ Pushed(m, k + 1, a, size, num)[c][l] =
                    IF c = a /\ j <= l /\ l <= size + num THEN m[a][l - num]
                    ELSE IF c = a /\ i <= l /\ l < j THEN Raw ELSE m[c][l]
    <3>1. /\ size - k + num < l <=> j < l
          /\ size - k < l <=> i < l
          /\ l <= size - k + num <=> l <= j
          /\ size - (k + 1) + num < l <=> j <= l
          /\ size - (k + 1) < l <=> i <= l
          /\ l <= size - (k + 1) + num <=> l < j
      <4>1. /\ size \in Nat /\ k \in Nat /\ num \in Nat /\ i \in Nat /\ j \in Nat /\ l \in Int
            /\ i = size - k /\ j = i + num
        BY <1>1, <2>1
      <4> HIDE DEF j
      <4> QED
        BY ONLY <4>1
    <3> QED
      BY <3>1 DEF Pushed
  <2> HIDE DEF j
  <2>6. /\ Fine(w) /\ i \in 1..Len(w[a]) /\ w[a][i] = m[a][i]
        /\ j \in 1..Len(w[a]) /\ w[a][j] = Raw
    <3>0. a \in Bufs
      OBVIOUS
    <3>1. w[a][i] = m[a][i]
      BY ONLY <2>1, <2>4, <2>5, <3>0 DEF Holding
    <3>2. w[a][j] = Raw
      BY ONLY <2>1, <2>4, <2>5, <3>0 DEF Holding
    <3> QED
      BY ONLY <2>1, <2>4, <3>0, <3>1, <3>2 DEF Holding
  <2> DEFINE v == Destroy(Move(w, a, i, a, j), a, i)
  <2>7. Altered(v, w, a, j, m[a][i], a, i, Raw)
    BY <2>3, <2>6, CarriedIs
  <2> HIDE DEF v
  <2>8. ASSUME NEW c \in Bufs, NEW l \in 1..Len(m[c])
        PROVE  v[c][l] = Pushed(m, k + 1, a, size, num)[c][l]
    <3>1. /\ w[c][l] = Pushed(m, k, a, size, num)[c][l] /\ l \in 1..Len(w[c]) /\ l \in Nat
      BY <1>1, <2>4 DEF Holding
    <3>2. v[c][l] = IF c = a /\ l = j THEN m[a][i]
                    ELSE IF c = a /\ l = i THEN Raw ELSE w[c][l]
      BY <2>7, <3>1 DEF Altered
    <3>3. CASE c # a
      BY <2>5, <3>1, <3>2, <3>3
    <3>4. CASE c = a /\ l = j
      BY <2>1, <2>5, <3>2, <3>4
    <3>5. CASE c = a /\ l = i
      <4>1. ~(j <= l) /\ i <= l /\ l < j /\ l # j
        BY <2>1, <3>5
      <4>2. Pushed(m, k + 1, a, size, num)[c][l] = Raw
        BY <2>5, <3>5, <4>1
      <4> QED
        BY <3>2, <3>5, <4>1, <4>2
    <3>6. CASE c = a /\ l # i /\ l # j
      <4>1. (j <= l <=> j < l) /\ (i <= l <=> i < l) /\ (l < j <=> l <= j)
        <5>1. i \in Nat /\ j \in Nat /\ l \in Nat /\ l # i /\ l # j
          BY <2>1, <3>1, <3>6
        <5> QED
          BY ONLY <5>1
      <4> QED
        BY <2>5, <3>1, <3>2, <3>6, <4>1
    <3> QED
      BY <3>3, <3>4, <3>5, <3>6
  <2>9. Fine(v) /\ \A c \in Bufs : Len(v[c]) = Len(m[c])
    BY <2>4, <2>7 DEF Altered, Holding
  <2>10. Holding(v, m, f[k + 1])
    BY <2>1, <2>8, <2>9 DEF Holding
  <2> QED
    BY <2>2, <2>10 DEF v
<1> HIDE DEF rounds
<1>4. Holding(Loop(m, rounds), m, f[n])
  <2> HIDE DEF f
  <2> QED
    BY <1>1, <1>2, <1>3, LoopHolds
<1> QED
  BY <1>4 DEF rounds

\* The loop of resize that destroys what is too much.
LEMMA PoppedIs ==
  ASSUME NEW m, Fine(m), NEW a \in Bufs, NEW size \in Nat, NEW n \in Nat,
         n <= size, size <= Len(m[a]),
         \A l \in 1..Len(m[a]) : size - n < l /\ l <= size => m[a][l] # Raw
  PROVE  LET rounds == [k \in 1..n |-> [does |-> "destroy", a |-> a, i |-> size + 1 - k]]
         IN Holding(Loop(m, rounds), m, Popped(m, n, a, size))
<1> DEFINE rounds == [k \in 1..n |-> [does |-> "destroy", a |-> a, i |-> size + 1 - k]]
           f == [k \in 0..n |-> Popped(m, k, a, size)]
<1>1. DOMAIN rounds = 1..n /\ \A c \in Bufs : Len(m[c]) \in Nat
  BY MemFacts DEF Fine
<1>2. Holding(m, m, f[0])
  <2>1. ASSUME NEW c \in Bufs, NEW l \in 1..Len(m[c])
        PROVE  m[c][l] = Popped(m, 0, a, size)[c][l]
    <3>1. ~(size - 0 < l /\ l <= size)
      BY <1>1
    <3> QED
      BY <3>1 DEF Popped
  <2> QED
    BY <2>1 DEF Holding
<1>3. ASSUME NEW k \in Nat, k < n, NEW w, Holding(w, m, f[k])
      PROVE  Holding(Round(w, rounds[k + 1]), m, f[k + 1])
  <2> DEFINE i == size + 1 - (k + 1)
  <2>1. /\ k + 1 \in 1..n /\ k + 1 \in 0..n /\ k \in 0..n
        /\ i = size - k /\ i \in 1..Len(m[a]) /\ size - n < i /\ i <= size /\ i \in Nat
    BY <1>1, <1>3
  <2>2. Round(w, rounds[k + 1]) = Destroy(w, a, i)
    BY <2>1 DEF Round
  <2>3. m[a][i] # Raw
    BY <2>1
  <2>4. Holding(w, m, Popped(m, k, a, size))
    BY <1>3, <2>1
  <2> HIDE DEF i, rounds
  <2>5. ASSUME NEW c \in Bufs, NEW l \in 1..Len(m[c])
        PROVE  /\ Popped(m, k, a, size)[c][l] =
                    IF c = a /\ i < l /\ l <= size THEN Raw ELSE m[c][l]
               /\ Popped(m, k + 1, a, size)[c][l] =
                    IF c = a /\ i <= l /\ l <= size THEN Raw ELSE m[c][l]
    <3>1. (size - k < l <=> i < l) /\ (size - (k + 1) < l <=> i <= l)
      BY <1>1, <2>1
    <3> QED
      BY <3>1 DEF Popped
  <2>6. Fine(w) /\ i \in 1..Len(w[a]) /\ w[a][i] # Raw
    BY <2>1, <2>3, <2>4, <2>5 DEF Holding
  <2> DEFINE v == Destroy(w, a, i)
  <2>7. Altered(v, w, a, i, Raw, a, i, Raw)
    BY <2>6, DestroyIs
  <2> HIDE DEF v
  <2>8. ASSUME NEW c \in Bufs, NEW l \in 1..Len(m[c])
        PROVE  v[c][l] = Popped(m, k + 1, a, size)[c][l]
    <3>1. /\ w[c][l] = Popped(m, k, a, size)[c][l] /\ l \in 1..Len(w[c]) /\ l \in Nat
      BY <1>1, <2>4 DEF Holding
    <3>2. v[c][l] = IF c = a /\ l = i THEN Raw ELSE w[c][l]
      BY <2>7, <3>1 DEF Altered
    <3>3. l = i \/ (i <= l <=> i < l)
      BY <2>1, <3>1
    <3> QED
      BY <2>1, <2>5, <3>1, <3>2, <3>3
  <2>9. Fine(v) /\ \A c \in Bufs : Len(v[c]) = Len(m[c])
    BY <2>4, <2>7 DEF Altered, Holding
  <2>10. Holding(v, m, f[k + 1])
    BY <2>1, <2>8, <2>9 DEF Holding
  <2> QED
    BY <2>2, <2>10 DEF v
<1> HIDE DEF rounds
<1>4. Holding(Loop(m, rounds), m, f[n])
  <2> HIDE DEF f
  <2> QED
    BY <1>1, <1>2, <1>3, LoopHolds
<1> QED
  BY <1>4 DEF rounds

\* What a vector is; its two buffers.
SvRec == [alive : BOOLEAN, revert : 0..StaticCapacity + 1, dyn : BOOLEAN, cap : Nat, size : Nat,
          static : Seq(Int), heap : Seq(Int), sound : BOOLEAN]
OwnBufs == {"static", "heap"}

\* A vector that has an allocation of its capacity exactly when it is not in its own buffer.
Built(x) ==
  /\ x \in SvRec /\ x.sound /\ x.size <= x.cap /\ Len(x.static) = StaticCapacity
  /\ IF x.dyn THEN x.cap > 0 /\ Len(x.heap) = x.cap
              ELSE x.cap = StaticCapacity /\ Len(x.heap) = 0

\* The cells of a buffer with the elements of a vector, with these and a hole of num cells
\* behind pos of them, and with nothing.
Elements(ref) == [l \in Nat |-> IF l <= Len(ref) THEN ref[l] ELSE Raw]
WithHole(ref, pos, num) ==
  [l \in Nat |-> IF l <= pos THEN ref[l] ELSE IF l <= pos + num THEN Raw
                 ELSE IF l <= Len(ref) + num THEN ref[l - num] ELSE Raw]
Nothing == [l \in Nat |-> Raw]

\* The memory has the cells f in one buffer, and no object anywhere else.
Keeps(m, a, f) ==
  Fine(m) /\ \A c \in Bufs : \A l \in 1..Len(m[c]) : m[c][l] = IF c = a THEN f[l] ELSE Raw

\* So does the vector, in the buffer where its elements are.
Keeping(x, f) ==
  Built(x) /\ \A c \in OwnBufs : \A l \in 1..Len(x[c]) : x[c][l] = IF c = Here(x) THEN f[l] ELSE Raw

\* The capacity of the buffer inside a vector.
LEMMA Static ==
  StaticCapacity \in Nat /\ StaticCapacity > 0 /\ Reverts \subseteq 0..StaticCapacity + 1
BY SvAssumption

\* The fields of a vector.
LEMMA SvFields ==
  /\ \A x \in SvRec :
       /\ x = [alive |-> x.alive, revert |-> x.revert, dyn |-> x.dyn, cap |-> x.cap,
               size |-> x.size, static |-> x.static, heap |-> x.heap, sound |-> x.sound]
       /\ x.alive \in BOOLEAN /\ x.revert \in 0..StaticCapacity + 1 /\ x.dyn \in BOOLEAN
       /\ x.cap \in Nat /\ x.size \in Nat /\ x.static \in Seq(Int) /\ x.heap \in Seq(Int)
       /\ x.sound \in BOOLEAN
       /\ Len(x.static) \in Nat /\ Len(x.heap) \in Nat
  /\ \A a \in BOOLEAN, r \in 0..StaticCapacity + 1, d \in BOOLEAN, c \in Nat, s \in Nat,
        t \in Seq(Int), h \in Seq(Int), u \in BOOLEAN :
       [alive |-> a, revert |-> r, dyn |-> d, cap |-> c, size |-> s, static |-> t, heap |-> h,
        sound |-> u] \in SvRec
BY DEF SvRec

\* The buffers of a memory.
LEMMA MemFields ==
  /\ \A m \in Mem :
       /\ m = [static |-> m.static, heap |-> m.heap, new |-> m.new, sound |-> m.sound]
       /\ m.static \in Seq(Int) /\ m.heap \in Seq(Int) /\ m.new \in Seq(Int)
       /\ m.sound \in BOOLEAN
       /\ Len(m.static) \in Nat /\ Len(m.heap) \in Nat /\ Len(m.new) \in Nat
  /\ \A s \in Seq(Int), h \in Seq(Int), n \in Seq(Int), u \in BOOLEAN :
       [static |-> s, heap |-> h, new |-> n, sound |-> u] \in Mem
BY DEF Mem

\* A sequence without elements is the empty one.
LEMMA NoCells ==
  ASSUME NEW S, NEW s \in Seq(S), Len(s) = 0
  PROVE  s = <<>>
OBVIOUS

\* Raw cells.
LEMMA RawCellsAre ==
  ASSUME NEW n \in Nat
  PROVE  RawCells(n) \in Seq(Int) /\ Len(RawCells(n)) = n /\ \A l \in 1..n : RawCells(n)[l] = Raw
<1>1. RawCells(n) = [i \in 1..n |-> Raw] /\ Raw \in Int
  BY DEF RawCells, Raw
<1> QED
  BY <1>1

\* Where the elements are, there are as many cells as the capacity says.
LEMMA HereIs ==
  ASSUME NEW x, Built(x)
  PROVE  /\ Here(x) \in OwnBufs /\ Here(x) \in Bufs /\ OwnBufs \subseteq Bufs
         /\ x[Here(x)] \in Seq(Int) /\ Len(x[Here(x)]) = x.cap
         /\ (x.dyn <=> Here(x) = "heap") /\ (~x.dyn <=> Here(x) = "static")
         /\ x.cap \in Nat /\ x.size \in Nat /\ x.size <= x.cap
BY SvFields DEF Built, Here, OwnBufs, Bufs

\* The memory a call starts with.
LEMMA MemoryIs ==
  ASSUME NEW x, NEW f, Keeping(x, f), NEW new \in Nat
  PROVE  LET m == Memory(x, new)
         IN /\ Keeps(m, Here(x), f) /\ m.static = x.static /\ m.heap = x.heap
            /\ Len(m.static) = StaticCapacity /\ Len(m.heap) = Len(x.heap) /\ Len(m.new) = new
            /\ Len(m[Here(x)]) = x.cap
<1> DEFINE m == Memory(x, new)
<1>1. m = [static |-> x.static, heap |-> x.heap, new |-> RawCells(new), sound |-> x.sound]
  BY DEF Memory
<1>2. x \in SvRec /\ x.sound /\ Len(x.static) = StaticCapacity
  BY DEF Keeping, Built
<1>3. /\ RawCells(new) \in Seq(Int) /\ Len(RawCells(new)) = new
      /\ \A l \in 1..new : RawCells(new)[l] = Raw
  BY RawCellsAre
<1> HIDE DEF m
<1>4. m \in Mem
  <2>1. x.static \in Seq(Int) /\ x.heap \in Seq(Int) /\ x.sound \in BOOLEAN
    BY <1>2, SvFields
  <2> QED
    BY <1>1, <1>3, <2>1, MemFields
<1>5. m.static = x.static /\ m.heap = x.heap /\ m.new = RawCells(new) /\ m.sound
  BY <1>1, <1>2
<1>6. Here(x) \in OwnBufs /\ Len(x[Here(x)]) = x.cap
  BY HereIs DEF Keeping
<1>7. \A c \in OwnBufs : m[c] = x[c]
  BY <1>5 DEF OwnBufs
<1>8. ASSUME NEW c \in Bufs, NEW l \in 1..Len(m[c])
      PROVE  m[c][l] = IF c = Here(x) THEN f[l] ELSE Raw
  <2>1. CASE c \in OwnBufs
    BY <1>7, <2>1 DEF Keeping
  <2>2. CASE c = "new"
    <3>1. m[c] = RawCells(new) /\ c # Here(x)
      BY <1>5, <1>6, <2>2 DEF OwnBufs
    <3> QED
      BY <1>3, <3>1
  <2> QED
    BY <2>1, <2>2 DEF Bufs, OwnBufs
<1>9. Keeps(m, Here(x), f)
  BY <1>4, <1>5, <1>8 DEF Keeps, Fine
<1>10. Len(m[Here(x)]) = x.cap
  BY <1>6, <1>7
<1> QED
  BY <1>2, <1>3, <1>5, <1>9, <1>10 DEF m

\* The allocation is given back.
LEMMA DeallocateIs ==
  ASSUME NEW m, NEW a, NEW f, Keeps(m, a, f), a # "heap", Len(m.heap) > 0
  PROVE  LET n == Deallocate(m)
         IN Keeps(n, a, f) /\ n.static = m.static /\ n.new = m.new /\ n.heap = <<>>
<1> DEFINE n == Deallocate(m)
           s == m.sound /\ m.heap # <<>> /\ \A i \in DOMAIN m.heap : m.heap[i] = Raw
<1>1. m \in Mem /\ m.sound
  BY DEF Keeps, Fine
<1>2. n = [m EXCEPT !.sound = s, !.heap = <<>>]
  BY DEF Deallocate
<1>3. s
  <2>1. m.heap \in Seq(Int) /\ DOMAIN m.heap = 1..Len(m.heap)
    BY <1>1, MemFields
  <2>2. m.heap # <<>>
    BY <2>1
  <2>3. "heap" \in Bufs /\ m["heap"] = m.heap
    BY DEF Bufs
  <2>4. \A i \in DOMAIN m.heap : m.heap[i] = Raw
    BY <2>1, <2>3 DEF Keeps
  <2> QED
    BY <1>1, <2>2, <2>4
<1> HIDE DEF s, n
<1>4. n = [static |-> m.static, heap |-> <<>>, new |-> m.new, sound |-> s]
  <2>1. m = [static |-> m.static, heap |-> m.heap, new |-> m.new, sound |-> m.sound]
    BY <1>1, MemFields
  <2> QED
    BY <1>2, <2>1
<1>5. n \in Mem
  <2>1. <<>> \in Seq(Int) /\ s \in BOOLEAN
    BY <1>3
  <2> QED
    BY <1>1, <1>4, <2>1, MemFields
<1>6. n.static = m.static /\ n.new = m.new /\ n.heap = <<>> /\ n.sound
  BY <1>3, <1>4
<1>7. ASSUME NEW c \in Bufs, NEW l \in 1..Len(n[c])
      PROVE  n[c][l] = IF c = a THEN f[l] ELSE Raw
  <2>1. CASE c = "heap"
    <3>1. n[c] = <<>> /\ Len(n[c]) = 0
      BY <1>6, <2>1
    <3> QED
      BY <3>1
  <2>2. CASE c # "heap"
    <3>1. n[c] = m[c]
      BY <1>6, <2>2 DEF Bufs
    <3> QED
      BY <3>1 DEF Keeps
  <2> QED
    BY <2>1, <2>2
<1>8. Keeps(n, a, f)
  BY <1>5, <1>6, <1>7 DEF Keeps, Fine
<1> QED
  BY <1>6, <1>8 DEF n

\* An allocation without objects in it is given back, where there is one.
LEMMA DeallocateIfDynIs ==
  ASSUME NEW x, Built(x), NEW m, NEW a, NEW f, Keeps(m, a, f), a # "heap",
         Len(m.heap) = Len(x.heap)
  PROVE  LET n == DeallocateIfDyn(x, m)
         IN Keeps(n, a, f) /\ n.static = m.static /\ n.new = m.new /\ n.heap = <<>>
<1>1. CASE x.dyn
  <2>1. Len(m.heap) > 0
    BY <1>1 DEF Built
  <2> QED
    BY <1>1, <2>1, DeallocateIs DEF DeallocateIfDyn
<1>2. CASE ~x.dyn
  <2>1. m.heap \in Seq(Int) /\ Len(m.heap) = 0
    BY <1>2, MemFields DEF Built, Keeps, Fine
  <2>2. m.heap = <<>>
    BY <2>1, NoCells
  <2> QED
    BY <1>2, <2>2 DEF DeallocateIfDyn
<1> QED
  BY <1>1, <1>2

\* The vector has settled in a buffer of the memory.
LEMMA SettleIs ==
  ASSUME NEW x, Built(x), NEW a \in Bufs, NEW m, NEW f, Keeps(m, a, f),
         Len(m.static) = StaticCapacity, NEW cap \in Nat, NEW size \in Nat, size <= cap,
         Len(m[a]) = cap, a # "static" => cap > 0, a # "heap" => m.heap = <<>>
  PROVE  LET y == Settle(x, m, a, cap, size)
         IN /\ Keeping(y, f) /\ y.size = size /\ y.cap = cap /\ y.alive = x.alive
            /\ y.revert = x.revert
            /\ Here(y) = IF a = "static" THEN "static" ELSE "heap"
<1> DEFINE y == Settle(x, m, a, cap, size)
           h == IF a = "new" THEN m.new ELSE m.heap
           u == m.sound /\ (a = "new" => m.heap = <<>>)
           d == a # "static"
<1>1. x \in SvRec /\ m \in Mem /\ m.sound
  BY DEF Built, Keeps, Fine
<1>2. y = [x EXCEPT !.static = m.static, !.dyn = d, !.cap = cap, !.size = size,
                    !.heap = h, !.sound = u]
  BY DEF Settle
<1>3. u /\ u \in BOOLEAN /\ d \in BOOLEAN
  BY <1>1
<1>4. h \in Seq(Int) /\ m.static \in Seq(Int)
  BY <1>1, MemFields
<1>5. (a # "static" => h = m[a]) /\ (a = "static" => h = <<>> /\ m[a] = m.static)
  BY DEF Bufs
<1> HIDE DEF h, u, d, y
<1>6. y = [alive |-> x.alive, revert |-> x.revert, dyn |-> d, cap |-> cap, size |-> size,
           static |-> m.static, heap |-> h, sound |-> u]
  <2>1. x = [alive |-> x.alive, revert |-> x.revert, dyn |-> x.dyn, cap |-> x.cap, size |-> x.size,
             static |-> x.static, heap |-> x.heap, sound |-> x.sound]
    BY <1>1, SvFields
  <2> QED
    BY <1>2, <2>1
<1>7. x.alive \in BOOLEAN /\ x.revert \in 0..StaticCapacity + 1
  BY <1>1, SvFields
<1>8. y \in SvRec
  BY <1>3, <1>4, <1>6, <1>7, SvFields
<1>9. /\ y.alive = x.alive /\ y.revert = x.revert /\ y.dyn = d /\ y.cap = cap /\ y.size = size
      /\ y.static = m.static /\ y.heap = h /\ y.sound = u
  BY <1>6
<1>10. Here(y) = IF a = "static" THEN "static" ELSE "heap"
  BY <1>9 DEF Here, d
<1>11. Built(y)
  <2>1. CASE a = "static"
    <3>1. Len(h) = 0
      BY <1>5, <2>1
    <3> QED
      BY <1>3, <1>5, <1>8, <1>9, <2>1, <3>1 DEF Built, d
  <2>2. CASE a # "static"
    BY <1>3, <1>5, <1>8, <1>9, <2>2 DEF Built, d
  <2> QED
    BY <2>1, <2>2
<1>12. ASSUME NEW c \in OwnBufs, NEW l \in 1..Len(y[c])
       PROVE  y[c][l] = IF c = Here(y) THEN f[l] ELSE Raw
  <2>1. CASE c = "static" /\ a = "static"
    <3>1. y[c] = m[a] /\ c = Here(y)
      BY <1>5, <1>9, <1>10, <2>1
    <3> QED
      BY <3>1 DEF Keeps
  <2>2. CASE c = "static" /\ a # "static"
    <3>1. y[c] = m[c] /\ c # Here(y) /\ c # a /\ c \in Bufs
      BY <1>9, <1>10, <2>2 DEF Bufs
    <3> QED
      BY <3>1 DEF Keeps
  <2>3. CASE c = "heap" /\ a = "static"
    <3>1. y[c] = <<>> /\ Len(<<>>) = 0
      BY <1>5, <1>9, <2>3
    <3> QED
      BY <3>1
  <2>4. CASE c = "heap" /\ a # "static"
    <3>1. y[c] = m[a] /\ c = Here(y)
      BY <1>5, <1>9, <1>10, <2>4
    <3> QED
      BY <3>1 DEF Keeps
  <2> QED
    BY <2>1, <2>2, <2>3, <2>4 DEF OwnBufs
<1>13. Keeping(y, f)
  BY <1>11, <1>12 DEF Keeping
<1> QED
  BY <1>9, <1>10, <1>13 DEF y

\* A vector grows like a pod_vector that has a buffer.
LEMMA GrownCapacityIs ==
  ASSUME NEW cap \in Nat, NEW want \in Nat, cap > 0, cap < want
  PROVE  GrownCapacity(cap, want) \in Nat /\ GrownCapacity(cap, want) >= want
<1>1. GrownCapacity(cap, want) = NewCapacity(cap, want)
  BY DEF GrownCapacity, NewCapacity
<1> QED
  BY <1>1, NewCapacityIs

\* choose_data finds a buffer with room.
LEMMA ChooseDataIs ==
  ASSUME NEW x, Built(x), NEW want \in Nat
  PROVE  LET d == ChooseData(x, want)
         IN /\ d.at \in Bufs /\ d.cap \in Nat /\ want <= d.cap /\ d.cap > 0
            /\ d.at = "static" => d.cap = StaticCapacity
            /\ d.at = "heap" => x.dyn
            /\ d.at = Here(x) => d.cap = x.cap
            /\ want > x.cap => d.at = "new"
            /\ want <= x.cap /\ ~x.dyn => d.at = "static"
            /\ want <= x.cap => d.at # "new"
            /\ NewCells(d) \in Nat /\ (d.at = "new" => NewCells(d) = d.cap)
<1> DEFINE d == ChooseData(x, want)
<1>0. x \in SvRec /\ x.cap \in Nat /\ x.revert \in 0..StaticCapacity + 1 /\ x.dyn \in BOOLEAN
  BY SvFields DEF Built
<1>1. CASE x.dyn /\ want > x.cap
  <2>1. d = [at |-> "new", cap |-> GrownCapacity(x.cap, want)]
    BY <1>0, <1>1 DEF ChooseData
  <2>2. GrownCapacity(x.cap, want) \in Nat /\ GrownCapacity(x.cap, want) >= want
    BY <1>0, <1>1, GrownCapacityIs DEF Built
  <2> QED
    BY <1>0, <1>1, <2>1, <2>2 DEF Bufs, Here, NewCells, Built
<1>2. CASE x.dyn /\ want <= x.cap /\ want < x.revert
  <2>1. d = [at |-> "static", cap |-> StaticCapacity]
    BY <1>0, <1>2 DEF ChooseData
  <2>2. want <= StaticCapacity
    BY <1>0, <1>2, Static
  <2> QED
    BY <1>0, <1>2, <2>1, <2>2, Static DEF Bufs, Here, NewCells
<1>3. CASE x.dyn /\ want <= x.cap /\ ~(want < x.revert)
  <2>1. d = [at |-> "heap", cap |-> x.cap]
    BY <1>0, <1>3 DEF ChooseData
  <2> QED
    BY <1>0, <1>3, <2>1 DEF Bufs, Here, NewCells, Built
<1>4. CASE ~x.dyn /\ want > StaticCapacity
  <2>1. d = [at |-> "new", cap |-> want]
    BY <1>4 DEF ChooseData
  <2> QED
    BY <1>0, <1>4, <2>1, Static DEF Bufs, Here, NewCells, Built
<1>5. CASE ~x.dyn /\ ~(want > StaticCapacity)
  <2>1. d = [at |-> "static", cap |-> x.cap]
    BY <1>5 DEF ChooseData
  <2> QED
    BY <1>0, <1>5, <2>1, Static DEF Bufs, Here, NewCells, Built
<1> QED
  BY <1>0, <1>1, <1>2, <1>3, <1>4, <1>5

\* What a vector holds is values.
ValueSeq(ref) == ref \in Seq(Nat) /\ \A i \in 1..Len(ref) : ref[i] > 0

\* Elements are numbers, and none is a raw cell or an object moved from.
LEMMA ValuesAreValues ==
  ASSUME NEW ref, ValueSeq(ref)
  PROVE  /\ Len(ref) \in Nat /\ ref \in Seq(Int)
         /\ \A i \in 1..Len(ref) : ref[i] \in Nat /\ IsValue(ref[i]) /\ ref[i] # Raw
BY DEF ValueSeq, IsValue, Raw, MovedFrom

\* The buffers of a memory that was rewritten are as long as before.
LEMMA SameSize ==
  ASSUME NEW w, NEW m, Fine(m), Fine(w), \A c \in Bufs : Len(w[c]) = Len(m[c])
  PROVE  /\ Len(w.static) = Len(m.static) /\ Len(w.heap) = Len(m.heap) /\ Len(w.new) = Len(m.new)
<1>1. "static" \in Bufs /\ "heap" \in Bufs /\ "new" \in Bufs
  BY DEF Bufs
<1> QED
  BY <1>1

\* The n elements move to another buffer, leaving a hole there, and are destroyed.
MovedTo(m, a, n, b, pos, num) ==
  LET m1 == MoveAll(m, a, 0, b, 0, pos)
      m2 == MoveAll(m1, a, pos, b, pos + num, n - pos)
  IN DestroyAll(m2, a, 0, n)

\* All elements move to another buffer, with a hole between them.
LEMMA MovedOver ==
  ASSUME NEW ref, ValueSeq(ref), NEW a \in Bufs, NEW b \in Bufs, a # b,
         NEW m, Keeps(m, a, Elements(ref)), NEW pos \in Nat, pos <= Len(ref), NEW num \in Nat,
         Len(ref) <= Len(m[a]), Len(ref) + num <= Len(m[b])
  PROVE  LET w == MovedTo(m, a, Len(ref), b, pos, num)
         IN Keeps(w, b, WithHole(ref, pos, num)) /\ \A c \in Bufs : Len(w[c]) = Len(m[c])
<1> DEFINE n == Len(ref)
           m1 == MoveAll(m, a, 0, b, 0, pos)
           m2 == MoveAll(m1, a, pos, b, pos + num, n - pos)
           w == DestroyAll(m2, a, 0, n)
           xs1 == Cells(m, a, 0, pos)
           xs2 == Cells(m1, a, pos, n - pos)
<1>0. /\ n \in Nat /\ n - pos \in Nat /\ \A c \in Bufs : Len(m[c]) \in Nat
      /\ MovedFrom # Raw
  BY ValuesAreValues, MemFacts DEF Keeps, Fine, MovedFrom, Raw
<1>1. /\ \A l \in 1..n : IsValue(ref[l]) /\ Elements(ref)[l] = ref[l]
      /\ \A l \in Nat : l > n => Elements(ref)[l] = Raw
  BY <1>0, ValuesAreValues DEF Elements
<1>2. /\ Fine(m) /\ \A l \in 1..Len(m[a]) : m[a][l] = IF l <= n THEN ref[l] ELSE Raw
      /\ \A c \in Bufs : c # a => \A l \in 1..Len(m[c]) : m[c][l] = Raw
  <2>1. /\ Fine(m)
        /\ \A c \in Bufs : \A l \in 1..Len(m[c]) :
             m[c][l] = IF c = a THEN Elements(ref)[l] ELSE Raw
    BY DEF Keeps
  <2> HIDE DEF n
  <2>2. ASSUME NEW l \in 1..Len(m[a]) PROVE m[a][l] = IF l <= n THEN ref[l] ELSE Raw
    <3>1. l \in Nat /\ l >= 1
      OBVIOUS
    <3>2. m[a][l] = Elements(ref)[l]
      <4>1. a \in Bufs /\ l \in 1..Len(m[a])
        OBVIOUS
      <4> QED
        BY ONLY <2>1, <4>1
    <3>3. CASE l <= n
      <4>1. l \in 1..n
        BY ONLY <1>0, <3>1, <3>3
      <4> QED
        BY ONLY <1>1, <3>2, <3>3, <4>1
    <3>4. CASE ~(l <= n)
      <4>1. l > n
        BY ONLY <1>0, <3>1, <3>4
      <4> QED
        BY ONLY <1>1, <3>1, <3>2, <3>4, <4>1
    <3> QED
      BY ONLY <3>3, <3>4
  <2>3. \A c \in Bufs : c # a => \A l \in 1..Len(m[c]) : m[c][l] = Raw
    BY ONLY <2>1
  <2> QED
    BY ONLY <2>1, <2>2, <2>3
<1> HIDE DEF n
<1>3. Rewritten(m1, m, pos, b, 0, xs1, a, 0, MovedFrom)
  <2>1. /\ 0 + pos <= Len(m[a]) /\ 0 + pos <= Len(m[b])
        /\ \A l \in 1..Len(m[a]) : 0 < l /\ l <= 0 + pos => IsValue(m[a][l])
        /\ \A l \in 1..Len(m[b]) : 0 < l /\ l <= 0 + pos => m[b][l] = Raw
    <3>1. pos \in Nat /\ n \in Nat /\ pos <= n /\ n <= Len(m[a]) /\ n <= Len(m[b])
          /\ Len(m[a]) \in Nat /\ Len(m[b]) \in Nat
      BY <1>0 DEF n
    <3>2. ASSUME NEW l \in 1..Len(m[a]), l <= 0 + pos PROVE IsValue(m[a][l])
      <4>1. l \in Nat /\ l \in 1..n /\ l <= n
        BY <3>1, <3>2
      <4>2. m[a][l] = ref[l]
        BY <1>2, <4>1
      <4> QED
        BY <1>1, <4>1, <4>2
    <3>3. \A l \in 1..Len(m[b]) : m[b][l] = Raw
      BY <1>2
    <3> QED
      BY <3>1, <3>2, <3>3
  <2>2. /\ Fine(m) /\ pos \in Nat /\ 0 \in Nat /\ a \in Bufs /\ b \in Bufs /\ a # b
        /\ 0 + pos <= Len(m[a]) /\ 0 + pos <= Len(m[b])
        /\ \A l \in 1..Len(m[a]) : 0 < l /\ l <= 0 + pos => IsValue(m[a][l])
        /\ \A l \in 1..Len(m[b]) : 0 < l /\ l <= 0 + pos => m[b][l] = Raw
    BY <1>2, <2>1
  <2> QED
    BY ONLY <2>2, MoveAllIs DEF xs1, m1
<1> HIDE DEF xs1, m1
<1>4. /\ Fine(m1) /\ \A c \in Bufs : Len(m1[c]) = Len(m[c])
      /\ \A l \in 1..Len(m[a]) : m1[a][l] = IF l <= pos THEN MovedFrom
                                            ELSE IF l <= n THEN ref[l] ELSE Raw
      /\ \A l \in 1..Len(m[b]) : m1[b][l] = IF l <= pos THEN ref[l] ELSE Raw
      /\ \A c \in Bufs : c \notin {a, b} => \A l \in 1..Len(m[c]) : m1[c][l] = Raw
  <2>1. Fine(m1) /\ \A c \in Bufs : Len(m1[c]) = Len(m[c])
    BY <1>3 DEF Rewritten
  <2>2. \A l \in 1..Len(m[a]) : m1[a][l] = IF l <= pos THEN MovedFrom
                                           ELSE IF l <= n THEN ref[l] ELSE Raw
    BY <1>0, <1>2, <1>3 DEF Rewritten
  <2>3. ASSUME NEW l \in 1..Len(m[b]) PROVE m1[b][l] = IF l <= pos THEN ref[l] ELSE Raw
    <3>1. CASE l <= pos
      <4>1. m1[b][l] = xs1[l - 0] /\ l - 0 = l /\ l \in 1..pos /\ l \in 1..Len(m[a]) /\ l <= n
        BY <1>0, <1>3, <3>1 DEF Rewritten, n
      <4>2. xs1[l] = m[a][l]
        BY <4>1 DEF xs1, Cells
      <4> QED
        BY <1>2, <3>1, <4>1, <4>2
    <3>2. CASE ~(l <= pos)
      BY <1>0, <1>2, <1>3, <3>2 DEF Rewritten
    <3> QED
      BY <3>1, <3>2
  <2>4. \A c \in Bufs : c \notin {a, b} => \A l \in 1..Len(m[c]) : m1[c][l] = Raw
    BY <1>2, <1>3 DEF Rewritten
  <2> QED
    BY <2>1, <2>2, <2>3, <2>4
<1>5. Rewritten(m2, m1, n - pos, b, pos + num, xs2, a, pos, MovedFrom)
  <2>1. /\ pos + (n - pos) <= Len(m1[a]) /\ (pos + num) + (n - pos) <= Len(m1[b])
        /\ pos + num \in Nat
    BY <1>0, <1>4 DEF n
  <2>2. \A l \in 1..Len(m1[a]) : pos < l /\ l <= pos + (n - pos) => IsValue(m1[a][l])
    BY <1>0, <1>1, <1>4
  <2>3. \A l \in 1..Len(m1[b]) : pos + num < l /\ l <= (pos + num) + (n - pos) => m1[b][l] = Raw
    BY <1>0, <1>4
  <2> DEFINE r == n - pos
             t == pos + num
  <2>4. /\ Fine(m1) /\ r \in Nat /\ pos \in Nat
        /\ a \in Bufs /\ b \in Bufs /\ a # b /\ t \in Nat
        /\ pos + r <= Len(m1[a]) /\ t + r <= Len(m1[b])
        /\ \A l \in 1..Len(m1[a]) : pos < l /\ l <= pos + r => IsValue(m1[a][l])
        /\ \A l \in 1..Len(m1[b]) : t < l /\ l <= t + r => m1[b][l] = Raw
    BY <1>0, <1>4, <2>1, <2>2, <2>3
  <2>5. xs2 = Cells(m1, a, pos, r) /\ m2 = MoveAll(m1, a, pos, b, t, r)
    BY DEF xs2
  <2> HIDE DEF r, t, m2, xs2
  <2>6. Rewritten(MoveAll(m1, a, pos, b, t, r), m1, r, b, t,
                  Cells(m1, a, pos, r), a, pos, MovedFrom)
    BY ONLY <2>4, MoveAllIs
  <2>7. Rewritten(m2, m1, r, b, t, xs2, a, pos, MovedFrom)
    BY <2>5, <2>6
  <2> QED
    BY <2>7 DEF r, t
<1> HIDE DEF xs2, m2
<1>6. /\ Fine(m2) /\ \A c \in Bufs : Len(m2[c]) = Len(m[c])
      /\ \A l \in 1..Len(m[a]) : m2[a][l] = IF l <= n THEN MovedFrom ELSE Raw
      /\ \A l \in 1..Len(m[b]) : m2[b][l] = WithHole(ref, pos, num)[l]
      /\ \A c \in Bufs : c \notin {a, b} => \A l \in 1..Len(m[c]) : m2[c][l] = Raw
  <2>1. Fine(m2) /\ \A c \in Bufs : Len(m2[c]) = Len(m[c])
    BY <1>4, <1>5 DEF Rewritten
  <2>2. ASSUME NEW l \in 1..Len(m[a]) PROVE m2[a][l] = IF l <= n THEN MovedFrom ELSE Raw
    <3>1. m2[a][l] = IF pos < l /\ l <= pos + (n - pos) THEN MovedFrom ELSE m1[a][l]
      BY <1>4, <1>5 DEF Rewritten
    <3> QED
      BY <1>0, <1>4, <3>1 DEF n
  <2>3. ASSUME NEW l \in 1..Len(m[b]) PROVE m2[b][l] = WithHole(ref, pos, num)[l]
    <3>0. l \in Nat /\ l >= 1
      BY <1>0
    <3>1. m2[b][l] = IF pos + num < l /\ l <= (pos + num) + (n - pos) THEN xs2[l - (pos + num)]
                     ELSE m1[b][l]
      BY <1>4, <1>5 DEF Rewritten
    <3>2. CASE pos + num < l /\ l <= n + num
      <4>1. /\ l - (pos + num) \in 1..n - pos /\ pos + (l - (pos + num)) = l - num
            /\ l - num \in 1..Len(m[a]) /\ ~(l - num <= pos) /\ l - num <= n
            /\ l <= (pos + num) + (n - pos) /\ ~(l <= pos) /\ ~(l <= pos + num)
        BY <1>0, <3>0, <3>2 DEF n
      <4>2. xs2[l - (pos + num)] = m1[a][l - num]
        BY <4>1 DEF xs2, Cells
      <4>3. m1[a][l - num] = ref[l - num]
        BY <1>4, <4>1
      <4> QED
        BY <3>0, <3>1, <3>2, <4>1, <4>2, <4>3 DEF WithHole, n
    <3>3. CASE ~(pos + num < l /\ l <= n + num)
      <4>1. ~(pos + num < l /\ l <= (pos + num) + (n - pos))
        BY <1>0, <3>0, <3>3
      <4>2. WithHole(ref, pos, num)[l] = IF l <= pos THEN ref[l] ELSE Raw
        BY <1>0, <3>0, <3>3 DEF WithHole, n
      <4> QED
        BY <1>4, <3>1, <4>1, <4>2
    <3> QED
      BY <3>2, <3>3
  <2>4. \A c \in Bufs : c \notin {a, b} => \A l \in 1..Len(m[c]) : m2[c][l] = Raw
    <3> SUFFICES ASSUME NEW c \in Bufs, c \notin {a, b}, NEW l \in 1..Len(m[c])
                 PROVE  m2[c][l] = Raw
      OBVIOUS
    <3>1. l \in 1..Len(m1[c]) /\ m1[c][l] = Raw
      BY <1>4
    <3>2. m2[c][l] = m1[c][l]
      BY <1>5, <3>1 DEF Rewritten
    <3> QED
      BY ONLY <3>1, <3>2
  <2> QED
    BY <2>1, <2>2, <2>3, <2>4
<1>7. Rewritten(w, m2, n, "none", 0, <<>>, a, 0, Raw)
  <2>1. 0 + n <= Len(m2[a]) /\ \A l \in 1..Len(m2[a]) : 0 < l /\ l <= 0 + n => m2[a][l] # Raw
    BY <1>0, <1>6 DEF n
  <2> QED
    BY <1>0, <1>6, <2>1, DestroyAllIs
<1> HIDE DEF w
<1>8. Fine(w) /\ \A c \in Bufs : Len(w[c]) = Len(m[c])
  BY <1>6, <1>7 DEF Rewritten
<1>9. ASSUME NEW c \in Bufs, NEW l \in 1..Len(w[c])
      PROVE  w[c][l] = IF c = b THEN WithHole(ref, pos, num)[l] ELSE Raw
  <2>0. l \in 1..Len(m2[c]) /\ l \in 1..Len(m[c]) /\ l \in Nat /\ l >= 1 /\ c # "none"
    <3>1. c \in Bufs /\ l \in 1..Len(w[c])
      OBVIOUS
    <3>2. l \in 1..Len(m[c]) /\ l \in 1..Len(m2[c])
      BY ONLY <1>6, <1>8, <3>1
    <3>3. c # "none"
      BY ONLY <3>1 DEF Bufs
    <3> QED
      BY ONLY <1>0, <3>1, <3>2, <3>3
  <2>1. w[c][l] = IF c = a /\ 0 < l /\ l <= 0 + n THEN Raw ELSE m2[c][l]
    BY <1>7, <2>0 DEF Rewritten
  <2>2. CASE c = b
    BY <1>6, <2>0, <2>1, <2>2
  <2>3. CASE c = a
    BY <1>0, <1>6, <2>0, <2>1, <2>3
  <2>4. CASE c \notin {a, b}
    BY <1>6, <2>0, <2>1, <2>4
  <2> QED
    BY <2>2, <2>3, <2>4
<1>10. Keeps(w, b, WithHole(ref, pos, num))
  BY <1>8, <1>9 DEF Keeps
<1> QED
  BY <1>8, <1>10 DEF w, m2, m1, n, MovedTo

\* The vector stays in the buffer it was in.
LEMMA SettledHere ==
  ASSUME NEW x, Built(x), NEW m, NEW f, Keeps(m, Here(x), f), NEW size \in Nat, size <= x.cap,
         Len(m.static) = StaticCapacity, Len(m.heap) = Len(x.heap)
  PROVE  LET y == Settle(x, m, Here(x), x.cap, size)
         IN /\ Keeping(y, f) /\ y.size = size /\ y.cap = x.cap /\ y.alive = x.alive
            /\ y.revert = x.revert /\ Here(y) = Here(x)
<1> DEFINE a == Here(x)
           c == x.cap
<1>1. /\ a \in OwnBufs /\ a \in Bufs /\ c \in Nat /\ (x.dyn <=> a = "heap")
      /\ (~x.dyn <=> a = "static")
  BY HereIs
<1>2. m \in Mem
  BY DEF Keeps, Fine
<1>3. Len(m[a]) = c /\ (a # "static" => c > 0)
  BY <1>1 DEF Built, OwnBufs
<1>4. a # "heap" => m.heap = <<>>
  <2>1. m.heap \in Seq(Int)
    BY <1>2, MemFields
  <2>2. a # "heap" => Len(m.heap) = 0
    BY <1>1 DEF Built
  <2> QED
    BY <2>1, <2>2, NoCells
<1> HIDE DEF a, c
<1>5. /\ Built(x) /\ a \in Bufs /\ Keeps(m, a, f) /\ Len(m.static) = StaticCapacity
      /\ c \in Nat /\ size \in Nat /\ size <= c /\ Len(m[a]) = c /\ (a # "static" => c > 0)
      /\ (a # "heap" => m.heap = <<>>)
  BY <1>1, <1>3, <1>4 DEF a, c
<1> DEFINE y == Settle(x, m, a, c, size)
<1>6. /\ Keeping(y, f) /\ y.size = size /\ y.cap = c /\ y.alive = x.alive
      /\ y.revert = x.revert /\ Here(y) = IF a = "static" THEN "static" ELSE "heap"
  BY ONLY <1>5, SettleIs
<1> QED
  BY <1>1, <1>6 DEF a, c, OwnBufs

\* The vector goes over to another buffer and gives back what it had allocated.
LEMMA SettledOver ==
  ASSUME NEW x, Built(x), NEW a \in {"static", "new"}, NEW w, NEW f, Keeps(w, a, f),
         Len(w.static) = StaticCapacity, Len(w.heap) = Len(x.heap),
         NEW cap \in Nat, NEW size \in Nat, size <= cap, Len(w[a]) = cap, a = "new" => cap > 0
  PROVE  LET y == Settle(x, DeallocateIfDyn(x, w), a, cap, size)
         IN /\ Keeping(y, f) /\ y.size = size /\ y.cap = cap /\ y.alive = x.alive
            /\ y.revert = x.revert /\ Here(y) = IF a = "static" THEN "static" ELSE "heap"
<1> DEFINE m == DeallocateIfDyn(x, w)
<1>1. a \in Bufs /\ a # "heap" /\ (a # "static" => cap > 0)
  BY DEF Bufs
<1>2. Keeps(m, a, f) /\ m.static = w.static /\ m.new = w.new /\ m.heap = <<>>
  BY <1>1, DeallocateIfDynIs
<1> HIDE DEF m
<1>3. m[a] = w[a]
  BY <1>2
<1>4. /\ Built(x) /\ a \in Bufs /\ Keeps(m, a, f) /\ Len(m.static) = StaticCapacity
      /\ cap \in Nat /\ size \in Nat /\ size <= cap /\ Len(m[a]) = cap /\ (a # "static" => cap > 0)
      /\ (a # "heap" => m.heap = <<>>)
  BY <1>1, <1>2, <1>3
<1> DEFINE y == Settle(x, m, a, cap, size)
<1>5. /\ Keeping(y, f) /\ y.size = size /\ y.cap = cap /\ y.alive = x.alive
      /\ y.revert = x.revert /\ Here(y) = IF a = "static" THEN "static" ELSE "heap"
  BY ONLY <1>4, SettleIs
<1> QED
  BY <1>5 DEF m

\* The cells where the elements are change, and nothing else.
LEMMA RefilledIs ==
  ASSUME NEW x, Built(x), NEW m, NEW f, Keeps(m, Here(x), f),
         Len(m.static) = StaticCapacity, Len(m.heap) = Len(x.heap)
  PROVE  LET y == [x EXCEPT !.static = m.static, !.heap = m.heap, !.sound = m.sound]
         IN /\ Keeping(y, f) /\ y.size = x.size /\ y.cap = x.cap /\ y.alive = x.alive
            /\ y.revert = x.revert /\ y.dyn = x.dyn /\ Here(y) = Here(x)
<1> DEFINE y == [x EXCEPT !.static = m.static, !.heap = m.heap, !.sound = m.sound]
<1>1. x \in SvRec /\ m \in Mem /\ m.sound
  BY DEF Built, Keeps, Fine
<1>2. x = [alive |-> x.alive, revert |-> x.revert, dyn |-> x.dyn, cap |-> x.cap,
           size |-> x.size, static |-> x.static, heap |-> x.heap, sound |-> x.sound]
  BY <1>1, SvFields
<1> DEFINE t == m.static
           h == m.heap
           u == m.sound
<1>3. t \in Seq(Int) /\ h \in Seq(Int) /\ u \in BOOLEAN
  BY <1>1, MemFields
<1>4. y = [alive |-> x.alive, revert |-> x.revert, dyn |-> x.dyn, cap |-> x.cap,
           size |-> x.size, static |-> t, heap |-> h, sound |-> u]
  <2>1. y = [x EXCEPT !.static = t, !.heap = h, !.sound = u]
    OBVIOUS
  <2> HIDE DEF y, t, h, u
  <2> QED
    BY ONLY <1>2, <2>1
<1> HIDE DEF y, t, h, u
<1>5. y \in SvRec
  <2>1. /\ x.alive \in BOOLEAN /\ x.revert \in 0..StaticCapacity + 1 /\ x.dyn \in BOOLEAN
        /\ x.cap \in Nat /\ x.size \in Nat
    BY <1>1, SvFields
  <2>2. [alive |-> x.alive, revert |-> x.revert, dyn |-> x.dyn, cap |-> x.cap,
         size |-> x.size, static |-> t, heap |-> h, sound |-> u] \in SvRec
    BY ONLY <1>3, <2>1, SvFields
  <2> QED
    BY ONLY <1>4, <2>2
<1>6. /\ y.alive = x.alive /\ y.revert = x.revert /\ y.dyn = x.dyn /\ y.cap = x.cap
      /\ y.size = x.size /\ y.static = m.static /\ y.heap = m.heap /\ y.sound = m.sound
  BY <1>4 DEF t, h, u
<1>7. Built(y)
  BY <1>1, <1>5, <1>6 DEF Built
<1>8. Here(y) = Here(x)
  BY <1>6 DEF Here
<1>9. \A c \in OwnBufs : y[c] = m[c] /\ c \in Bufs
  BY <1>6 DEF OwnBufs, Bufs
<1>10. Keeping(y, f)
  BY <1>7, <1>8, <1>9 DEF Keeping, Keeps
<1> QED
  BY <1>6, <1>8, <1>10 DEF y

\* What a vector holds, with its elements where they belong.
SvHolds(x, ref) == Keeping(x, Elements(ref)) /\ ValueSeq(ref) /\ Len(ref) = x.size

\* What is known of a vector that holds the elements ref.
LEMMA SvHoldsFacts ==
  ASSUME NEW x, NEW ref, SvHolds(x, ref)
  PROVE  /\ Built(x) /\ Keeping(x, Elements(ref)) /\ ValueSeq(ref) /\ Len(ref) = x.size
         /\ x.size \in Nat /\ x.cap \in Nat /\ x.size <= x.cap
<1>1. Built(x) /\ Keeping(x, Elements(ref)) /\ ValueSeq(ref) /\ Len(ref) = x.size
  BY DEF SvHolds, Keeping
<1>2. x.size \in Nat /\ x.cap \in Nat /\ x.size <= x.cap
  BY <1>1, HereIs
<1> QED
  BY <1>1, <1>2

\* The cells of a buffer with the elements of a vector.
LEMMA ElementCells ==
  ASSUME NEW ref, ValueSeq(ref), NEW a \in Bufs, NEW m, Keeps(m, a, Elements(ref))
  PROVE  /\ \A l \in 1..Len(m[a]) : m[a][l] = IF l <= Len(ref) THEN ref[l] ELSE Raw
         /\ Len(m[a]) \in Nat
<1>1. Len(m[a]) \in Nat
  BY MemFacts DEF Keeps, Fine
<1>2. ASSUME NEW l \in 1..Len(m[a]) PROVE m[a][l] = IF l <= Len(ref) THEN ref[l] ELSE Raw
  <2>1. l \in Nat
    BY <1>1
  <2>2. m[a][l] = Elements(ref)[l]
    BY DEF Keeps
  <2> QED
    BY <2>1, <2>2 DEF Elements
<1> QED
  BY <1>1, <1>2

\* grow_at in place.
LEMMA GrowInPlaceIs ==
  ASSUME NEW x, NEW ref, SvHolds(x, ref), NEW pos \in Nat, pos <= x.size,
         NEW num \in Nat \ {0}, x.size + num <= x.cap
  PROVE  LET y == GrowInPlace(x, pos, num)
         IN /\ Keeping(y, WithHole(ref, pos, num)) /\ y.size = x.size + num
            /\ y.alive = x.alive /\ y.revert = x.revert
<1> DEFINE a == Here(x)
           s == x.size
           n == s - pos
           o == Memory(x, 0)
           rounds == [k \in 1..n |-> [does |-> "carry", a |-> a, i |-> s + 1 - k,
                                      b |-> a, j |-> s + 1 - k + num]]
           m == Loop(o, rounds)
<1>0. GrowInPlace(x, pos, num) = Settle(x, m, a, x.cap, s + num)
  BY DEF GrowInPlace
<1>1. /\ Built(x) /\ Keeping(x, Elements(ref)) /\ ValueSeq(ref) /\ Len(ref) = s
      /\ s \in Nat /\ x.cap \in Nat /\ n \in Nat /\ n <= s /\ s - n = pos /\ 0 \in Nat
  <2>1. /\ Built(x) /\ Keeping(x, Elements(ref)) /\ ValueSeq(ref) /\ Len(ref) = x.size
        /\ x.size \in Nat /\ x.cap \in Nat
    BY SvHoldsFacts
  <2> QED
    BY <2>1
<1>2. /\ a \in Bufs
  BY <1>1, HereIs
<1>3. /\ Keeps(o, a, Elements(ref)) /\ Len(o.static) = StaticCapacity
      /\ Len(o.heap) = Len(x.heap) /\ Len(o[a]) = x.cap
  <2>1. Keeping(x, Elements(ref)) /\ 0 \in Nat
    BY <1>1
  <2> QED
    BY ONLY <2>1, MemoryIs
<1>4. m = Loop(o, rounds)
  OBVIOUS
<1> HIDE DEF o, a, n, m
<1>5. \A l \in 1..Len(o[a]) : o[a][l] = IF l <= s THEN ref[l] ELSE Raw
  <2>1. ValueSeq(ref) /\ a \in Bufs /\ Keeps(o, a, Elements(ref)) /\ Len(ref) = s
    BY <1>1, <1>2, <1>3
  <2> HIDE DEF s
  <2> QED
    BY ONLY <2>1, ElementCells
<1>6. Holding(m, o, Pushed(o, n, a, s, num))
  <2>1. \A l \in 1..Len(o[a]) : s - n < l /\ l <= s => IsValue(o[a][l])
    <3>1. \A l \in 1..s : IsValue(ref[l])
      BY <1>1, ValuesAreValues
    <3> QED
      BY <1>1, <1>3, <1>5, <3>1
  <2>2. \A l \in 1..Len(o[a]) : s < l /\ l <= s + num => o[a][l] = Raw
    BY <1>1, <1>3, <1>5
  <2>3. /\ Fine(o) /\ a \in Bufs /\ s \in Nat /\ num \in Nat \ {0} /\ n \in Nat /\ n <= s
        /\ s + num <= Len(o[a])
    BY <1>1, <1>2, <1>3 DEF Keeps
  <2> HIDE DEF s, rounds
  <2>4. LET r == [k \in 1..n |-> [does |-> "carry", a |-> a, i |-> s + 1 - k,
                                  b |-> a, j |-> s + 1 - k + num]]
        IN Holding(Loop(o, r), o, Pushed(o, n, a, s, num))
    BY ONLY <2>1, <2>2, <2>3, PushedIs
  <2> QED
    BY <1>4, <2>4 DEF rounds
<1> HIDE DEF rounds
<1>7. Fine(m) /\ \A c \in Bufs : Len(m[c]) = Len(o[c])
  BY <1>6 DEF Holding
<1>8. Len(m.static) = StaticCapacity /\ Len(m.heap) = Len(x.heap)
  BY <1>3, <1>7, SameSize DEF Keeps
<1>9. ASSUME NEW c \in Bufs, NEW l \in 1..Len(m[c])
      PROVE  m[c][l] = IF c = a THEN WithHole(ref, pos, num)[l] ELSE Raw
  <2>1. /\ l \in 1..Len(o[c]) /\ l \in Nat /\ l >= 1
        /\ m[c][l] = Pushed(o, n, a, s, num)[c][l]
    <3>1. l \in 1..Len(o[c]) /\ Len(o[c]) \in Nat
      BY <1>3, <1>7, MemFacts DEF Keeps, Fine
    <3> QED
      BY <1>6, <3>1 DEF Holding
  <2>2. Pushed(o, n, a, s, num)[c][l] =
          IF c = a /\ pos + num < l /\ l <= s + num THEN o[a][l - num]
          ELSE IF c = a /\ pos < l /\ l <= pos + num THEN Raw ELSE o[c][l]
    BY <1>1, <2>1 DEF Pushed
  <2>3. CASE c # a
    BY <1>3, <2>1, <2>2, <2>3 DEF Keeps
  <2>4. CASE c = a /\ pos + num < l /\ l <= s + num
    <3>1. l - num \in 1..Len(o[a]) /\ l - num <= s
      BY <1>1, <1>3, <2>1, <2>4
    <3>2. m[c][l] = ref[l - num]
      BY <1>5, <2>1, <2>2, <2>4, <3>1
    <3>3. WithHole(ref, pos, num)[l] = ref[l - num]
      BY <1>1, <2>1, <2>4 DEF WithHole
    <3> QED
      BY <2>4, <3>2, <3>3
  <2>5. CASE c = a /\ ~(pos + num < l /\ l <= s + num)
    <3>1. m[c][l] = IF pos < l /\ l <= pos + num THEN Raw
                    ELSE IF l <= s THEN ref[l] ELSE Raw
      BY <1>5, <2>1, <2>2, <2>5
    <3>2. WithHole(ref, pos, num)[l] = IF l <= pos THEN ref[l] ELSE Raw
      BY <1>1, <2>1, <2>5 DEF WithHole
    <3>3. l <= pos => l <= s
      BY <1>1, <2>1
    <3>4. l <= s => l <= pos + num
      BY <1>1, <2>1, <2>5
    <3>5. l <= pos \/ pos < l
      BY <2>1
    <3>6. ~(l <= pos /\ pos < l)
      BY <2>1
    <3> QED
      BY <2>5, <3>1, <3>2, <3>3, <3>4, <3>5, <3>6
  <2> QED
    BY <2>3, <2>4, <2>5
<1>10. Keeps(m, a, WithHole(ref, pos, num))
  BY <1>7, <1>9 DEF Keeps
<1>11. s + num \in Nat /\ s + num <= x.cap
  BY <1>1
<1> HIDE DEF s
<1> DEFINE t == s + num
<1> HIDE DEF t
<1> DEFINE y == Settle(x, m, a, x.cap, t)
<1>12. Keeping(y, WithHole(ref, pos, num)) /\ y.size = t /\ y.alive = x.alive /\ y.revert = x.revert
  <2>1. /\ Built(x) /\ Keeps(m, Here(x), WithHole(ref, pos, num)) /\ t \in Nat /\ t <= x.cap
        /\ Len(m.static) = StaticCapacity /\ Len(m.heap) = Len(x.heap)
    BY <1>1, <1>8, <1>10, <1>11 DEF a, t
  <2> QED
    BY ONLY <2>1, SettledHere DEF a
<1> QED
  BY <1>0, <1>12 DEF t, s

\* The buffer choose_data finds when it is another one.
LEMMA RoomIs ==
  ASSUME NEW x, NEW f, Keeping(x, f), NEW want \in Nat, ChooseData(x, want).at # Here(x)
  PROVE  LET d == ChooseData(x, want)
             o == Memory(x, NewCells(d))
         IN /\ d.at \in {"static", "new"} /\ d.cap \in Nat /\ d.cap > 0 /\ want <= d.cap
            /\ Keeps(o, Here(x), f) /\ Len(o.static) = StaticCapacity
            /\ Len(o.heap) = Len(x.heap) /\ Len(o[Here(x)]) = x.cap /\ Len(o[d.at]) = d.cap
<1> DEFINE d == ChooseData(x, want)
           n == NewCells(d)
           o == Memory(x, n)
<1>1. Built(x)
  BY DEF Keeping
<1>2. /\ d.at \in Bufs /\ d.cap \in Nat /\ want <= d.cap /\ d.cap > 0
      /\ (d.at = "static" => d.cap = StaticCapacity) /\ (d.at = "heap" => x.dyn)
      /\ n \in Nat /\ (d.at = "new" => n = d.cap)
  BY <1>1, ChooseDataIs
<1>3. d.at # Here(x)
  OBVIOUS
<1> HIDE DEF d, n
<1>4. d.at \in {"static", "new"}
  BY <1>1, <1>2, <1>3, HereIs DEF Bufs
<1>5. /\ Keeps(o, Here(x), f) /\ Len(o.static) = StaticCapacity
      /\ Len(o.heap) = Len(x.heap) /\ Len(o[Here(x)]) = x.cap /\ Len(o.new) = n
  BY <1>2, MemoryIs
<1> HIDE DEF o
<1>6. Len(o[d.at]) = d.cap
  BY <1>2, <1>4, <1>5
<1> QED
  BY <1>2, <1>4, <1>5, <1>6 DEF o, n, d

\* grow_at into another buffer.
LEMMA GrowOverIs ==
  ASSUME NEW x, NEW ref, SvHolds(x, ref), NEW pos \in Nat, pos <= x.size,
         NEW num \in Nat \ {0}, ChooseData(x, x.size + num).at # Here(x)
  PROVE  LET y == GrowOver(x, pos, num, ChooseData(x, x.size + num))
         IN /\ Keeping(y, WithHole(ref, pos, num)) /\ y.size = x.size + num
            /\ y.alive = x.alive /\ y.revert = x.revert
<1> DEFINE a == Here(x)
           s == x.size
           t == s + num
           d == ChooseData(x, t)
           b == d.at
           c == d.cap
           f == WithHole(ref, pos, num)
           o == Memory(x, NewCells(d))
           w == MovedTo(o, a, s, b, pos, num)
<1>0. GrowOver(x, pos, num, d) = Settle(x, DeallocateIfDyn(x, w), b, c, t)
  BY DEF GrowOver, MovedTo
<1>1. /\ Built(x) /\ Keeping(x, Elements(ref)) /\ ValueSeq(ref) /\ Len(ref) = s
      /\ s \in Nat /\ x.cap \in Nat /\ s <= x.cap
  BY SvHoldsFacts
<1>2. a \in Bufs
  BY <1>1, HereIs
<1>3. t \in Nat
  BY <1>1
<1>4. b # a
  OBVIOUS
<1>5. /\ b \in {"static", "new"} /\ c \in Nat /\ c > 0 /\ t <= c
      /\ Keeps(o, a, Elements(ref)) /\ Len(o.static) = StaticCapacity
      /\ Len(o.heap) = Len(x.heap) /\ Len(o[a]) = x.cap /\ Len(o[b]) = c
  <2> HIDE DEF t
  <2> QED
    BY <1>1, <1>3, <1>4, RoomIs
<1> HIDE DEF o, b, c, a, d
<1>6. Keeps(w, b, f) /\ \A e \in Bufs : Len(w[e]) = Len(o[e])
  <2>1. /\ ValueSeq(ref) /\ a \in Bufs /\ b \in Bufs /\ a # b /\ Keeps(o, a, Elements(ref))
        /\ pos \in Nat /\ pos <= Len(ref) /\ num \in Nat
        /\ Len(ref) <= Len(o[a]) /\ Len(ref) + num <= Len(o[b])
    BY <1>1, <1>2, <1>4, <1>5 DEF Bufs
  <2>2. LET q == MovedTo(o, a, Len(ref), b, pos, num)
        IN Keeps(q, b, WithHole(ref, pos, num)) /\ \A e \in Bufs : Len(q[e]) = Len(o[e])
    BY ONLY <2>1, MovedOver
  <2> QED
    BY <1>1, <2>2
<1> HIDE DEF w, f
<1>7. Len(w.static) = StaticCapacity /\ Len(w.heap) = Len(x.heap) /\ Len(w[b]) = c
  <2>1. Fine(o) /\ Fine(w) /\ b \in Bufs
    BY <1>5, <1>6 DEF Keeps, Bufs
  <2> QED
    BY <1>5, <1>6, <2>1, SameSize
<1> HIDE DEF t
<1> DEFINE y == Settle(x, DeallocateIfDyn(x, w), b, c, t)
<1>8. Keeping(y, f) /\ y.size = t /\ y.alive = x.alive /\ y.revert = x.revert
  <2>1. /\ Built(x) /\ b \in {"static", "new"} /\ Keeps(w, b, f) /\ c \in Nat /\ t \in Nat
        /\ Len(w.static) = StaticCapacity /\ Len(w.heap) = Len(x.heap) /\ t <= c
        /\ Len(w[b]) = c /\ (b = "new" => c > 0)
    BY <1>1, <1>3, <1>5, <1>6, <1>7
  <2> QED
    BY ONLY <2>1, SettledOver
<1> QED
  BY <1>0, <1>8 DEF t, f, s, d

\* grow_at leaves the hole it was asked for, wherever the elements end up.
LEMMA GrowAtIs ==
  ASSUME NEW x, NEW ref, SvHolds(x, ref), NEW pos \in Nat, pos <= x.size,
         NEW num \in Nat \ {0}
  PROVE  LET y == GrowAt(x, pos, num)
         IN /\ Keeping(y, WithHole(ref, pos, num)) /\ y.size = x.size + num
            /\ y.alive = x.alive /\ y.revert = x.revert
<1> DEFINE d == ChooseData(x, x.size + num)
<1>1. CASE d.at = Here(x)
  <2>1. GrowAt(x, pos, num) = GrowInPlace(x, pos, num)
    BY <1>1 DEF GrowAt
  <2>2. x.size + num <= x.cap
    <3>1. Built(x) /\ x.size + num \in Nat
      BY SvHoldsFacts
    <3>2. x.size + num <= d.cap /\ (d.at = Here(x) => d.cap = x.cap)
      BY <3>1, ChooseDataIs
    <3> QED
      BY <1>1, <3>2
  <2> QED
    BY <2>1, <2>2, GrowInPlaceIs
<1>2. CASE d.at # Here(x)
  <2>1. GrowAt(x, pos, num) = GrowOver(x, pos, num, d)
    BY <1>2 DEF GrowAt
  <2> QED
    BY <1>2, <2>1, GrowOverIs
<1> QED
  BY <1>1, <1>2

\* Part of a sequence of values is replaced by others.
LEMMA PartReplaced ==
  ASSUME NEW ref, ValueSeq(ref), NEW xs, ValueSeq(xs), NEW a \in Nat, NEW c \in Nat,
         a <= c, c <= Len(ref)
  PROVE  LET d == Replaced(ref, a, c, xs)
             b == Len(xs)
         IN /\ ValueSeq(d) /\ Len(d) = a + b + (Len(ref) - c)
            /\ \A l \in 1..Len(d) :
                 d[l] = IF l <= a THEN ref[l] ELSE IF l <= a + b THEN xs[l - a]
                        ELSE ref[c + (l - (a + b))]
<1> DEFINE d == Replaced(ref, a, c, xs)
           b == Len(xs)
           n == Len(ref)
<1>0. ref \in Seq(Nat) /\ xs \in Seq(Nat) /\ n \in Nat /\ b \in Nat /\ n - c \in Nat
  BY DEF ValueSeq
<1>1. /\ d \in Seq(Nat) /\ Len(d) = a + b + (n - c)
      /\ \A i \in 1..a : d[i] = ref[i]
      /\ \A i \in 1..b : d[a + i] = xs[i]
      /\ \A i \in c + 1..n : d[a + b + (i - c)] = ref[i]
  <2>1. /\ ref \in Seq(Nat) /\ xs \in Seq(Nat) /\ a \in Nat /\ c \in Nat
        /\ a <= c /\ c <= Len(ref)
    BY <1>0
  <2>2. ReplacedWith(Replaced(ref, a, c, xs), ref, a, c, xs)
    BY ONLY <2>1, SplicedIs
  <2> QED
    BY ONLY <2>2 DEF ReplacedWith
<1> HIDE DEF d, b, n
<1>2. ASSUME NEW l \in 1..Len(d)
      PROVE  /\ d[l] = IF l <= a THEN ref[l] ELSE IF l <= a + b THEN xs[l - a]
                       ELSE ref[c + (l - (a + b))]
             /\ d[l] > 0
  <2>0. l \in Nat /\ l >= 1 /\ l <= a + b + (n - c)
    BY <1>0, <1>1
  <2>1. CASE l <= a
    <3>1. l \in 1..a /\ l \in 1..n
      BY <1>0, <2>0, <2>1 DEF n
    <3>2. d[l] = ref[l] /\ ref[l] > 0
      BY <1>1, <3>1 DEF ValueSeq, n
    <3> QED
      BY <2>1, <3>2
  <2>2. CASE ~(l <= a) /\ l <= a + b
    <3>1. l - a \in 1..b /\ a + (l - a) = l
      BY <1>0, <2>0, <2>2
    <3>2. d[l] = xs[l - a] /\ xs[l - a] > 0
      BY <1>1, <3>1 DEF ValueSeq, b
    <3> QED
      BY <2>2, <3>2
  <2>3. CASE ~(l <= a + b)
    <3> DEFINE i == c + (l - (a + b))
    <3>1. i \in c + 1..n /\ a + b + (i - c) = l /\ i \in 1..n /\ ~(l <= a)
      BY <1>0, <2>0, <2>3
    <3> HIDE DEF i
    <3>2. d[l] = ref[i] /\ ref[i] > 0
      BY <1>1, <3>1 DEF ValueSeq, n
    <3> QED
      BY <2>3, <3>1, <3>2 DEF i
  <2> QED
    BY <2>1, <2>2, <2>3
<1>3. ValueSeq(d)
  BY <1>1, <1>2 DEF ValueSeq
<1> QED
  BY <1>1, <1>2, <1>3 DEF d, b, n

\* The hole is filled.
LEMMA FillHoleIs ==
  ASSUME NEW x, NEW ref, ValueSeq(ref), NEW xs, ValueSeq(xs), NEW pos \in Nat, pos <= Len(ref),
         Keeping(x, WithHole(ref, pos, Len(xs))), x.size = Len(ref) + Len(xs)
  PROVE  LET y == FillHole(x, pos, xs)
         IN /\ SvHolds(y, Replaced(ref, pos, pos, xs)) /\ y.alive = x.alive /\ y.revert = x.revert
<1> DEFINE a == Here(x)
           num == Len(xs)
           n == Len(ref)
           o == Memory(x, 0)
           m == ConstructAll(o, a, pos, xs)
           d == Replaced(ref, pos, pos, xs)
           f == WithHole(ref, pos, num)
<1>1. n \in Nat /\ num \in Nat /\ xs \in Seq(Int)
  BY ValuesAreValues
<1>2. Built(x)
  BY DEF Keeping
<1>3. a \in Bufs /\ x.size <= x.cap /\ x.cap \in Nat
  BY <1>2, HereIs
<1>4. /\ Keeps(o, a, f) /\ Len(o.static) = StaticCapacity
      /\ Len(o.heap) = Len(x.heap) /\ Len(o[a]) = x.cap
  <2>1. Keeping(x, f) /\ 0 \in Nat
    OBVIOUS
  <2> HIDE DEF f
  <2> QED
    BY ONLY <2>1, MemoryIs
<1>5. /\ ValueSeq(d) /\ Len(d) = n + num
      /\ \A l \in 1..Len(d) :
           d[l] = IF l <= pos THEN ref[l] ELSE IF l <= pos + num THEN xs[l - pos]
                  ELSE ref[l - num]
  <2>1. /\ ValueSeq(d) /\ Len(d) = pos + num + (n - pos)
        /\ \A l \in 1..Len(d) :
             d[l] = IF l <= pos THEN ref[l] ELSE IF l <= pos + num THEN xs[l - pos]
                    ELSE ref[pos + (l - (pos + num))]
    BY PartReplaced
  <2>2. Len(d) = n + num
    BY <1>1, <2>1
  <2>3. \A l \in 1..Len(d) : pos + (l - (pos + num)) = l - num
    BY <1>1, <2>2
  <2> QED
    BY <2>1, <2>2, <2>3
<1> HIDE DEF o, a, d
<1>6. \A l \in 1..Len(o[a]) :
        o[a][l] = IF l <= pos THEN ref[l] ELSE IF l <= pos + num THEN Raw
                  ELSE IF l <= n + num THEN ref[l - num] ELSE Raw
  <2>1. ASSUME NEW l \in 1..Len(o[a]) PROVE l \in Nat /\ o[a][l] = f[l]
    BY <1>3, <1>4 DEF Keeps
  <2>2. \A l \in Nat : f[l] = IF l <= pos THEN ref[l] ELSE IF l <= pos + num THEN Raw
                              ELSE IF l <= n + num THEN ref[l - num] ELSE Raw
    BY DEF WithHole
  <2> HIDE DEF f, n, num
  <2> QED
    BY <2>1, <2>2
<1> HIDE DEF num, n
<1>7. Rewritten(m, o, num, a, pos, xs, "none", 0, Raw)
  <2>1. /\ Fine(o) /\ a \in Bufs /\ pos \in Nat /\ xs \in Seq(Int)
        /\ pos + Len(xs) <= Len(o[a])
        /\ \A l \in 1..Len(o[a]) : pos < l /\ l <= pos + Len(xs) => o[a][l] = Raw
    <3>1. pos + num <= Len(o[a])
      BY <1>1, <1>3, <1>4 DEF n, num
    <3>2. \A l \in 1..Len(o[a]) : pos < l /\ l <= pos + num => o[a][l] = Raw
      BY <1>1, <1>3, <1>4, <1>6
    <3> QED
      BY <1>1, <1>3, <1>4, <3>1, <3>2 DEF num, Keeps
  <2> QED
    BY ONLY <2>1, ConstructAllIs DEF num
<1> HIDE DEF m
<1>8. Fine(m) /\ \A e \in Bufs : Len(m[e]) = Len(o[e])
  BY <1>7 DEF Rewritten
<1>9. ASSUME NEW c \in Bufs, NEW l \in 1..Len(m[c])
      PROVE  m[c][l] = IF c = a THEN Elements(d)[l] ELSE Raw
  <2>0. l \in 1..Len(o[c]) /\ l \in Nat /\ l >= 1 /\ c # "none"
    <3>1. Len(o[c]) \in Nat
      BY <1>4, MemFacts DEF Keeps, Fine
    <3> QED
      BY <1>8, <3>1 DEF Bufs
  <2>1. m[c][l] = IF c = a /\ pos < l /\ l <= pos + num THEN xs[l - pos] ELSE o[c][l]
    BY <1>7, <2>0 DEF Rewritten
  <2>2. CASE c # a
    BY <1>4, <2>0, <2>1, <2>2 DEF Keeps
  <2>3. CASE c = a
    <3>1. o[c][l] = IF l <= pos THEN ref[l] ELSE IF l <= pos + num THEN Raw
                    ELSE IF l <= n + num THEN ref[l - num] ELSE Raw
      BY <1>6, <2>0, <2>3
    <3>2. Elements(d)[l] = IF l <= n + num THEN d[l] ELSE Raw
      BY <1>5, <2>0 DEF Elements
    <3>3. l <= n + num =>
            d[l] = IF l <= pos THEN ref[l] ELSE IF l <= pos + num THEN xs[l - pos]
                   ELSE ref[l - num]
      <4>1. l <= n + num => l \in 1..Len(d)
        BY <1>1, <1>5, <2>0
      <4> QED
        BY <1>5, <4>1
    <3>4. (l <= pos => l <= n + num) /\ (l <= pos + num => l <= n + num)
          /\ (pos < l <=> ~(l <= pos)) /\ (l <= pos => l <= pos + num)
      BY <1>1, <2>0 DEF n
    <3> QED
      BY <2>1, <2>3, <3>1, <3>2, <3>3, <3>4
  <2> QED
    BY <2>2, <2>3
<1>10. Keeps(m, a, Elements(d))
  BY <1>8, <1>9 DEF Keeps
<1>11. Len(m.static) = StaticCapacity /\ Len(m.heap) = Len(x.heap)
  BY <1>4, <1>8, SameSize DEF Keeps
<1> DEFINE y == [x EXCEPT !.static = m.static, !.heap = m.heap, !.sound = m.sound]
<1>12. Keeping(y, Elements(d)) /\ y.size = x.size /\ y.alive = x.alive /\ y.revert = x.revert
  <2>1. /\ Built(x) /\ Keeps(m, Here(x), Elements(d)) /\ Len(m.static) = StaticCapacity
        /\ Len(m.heap) = Len(x.heap)
    BY <1>2, <1>10, <1>11 DEF a
  <2> QED
    BY ONLY <2>1, RefilledIs
<1>13. FillHole(x, pos, xs) = y
  BY DEF FillHole, m, o, a
<1> HIDE DEF y
<1>14. SvHolds(y, d)
  BY <1>1, <1>5, <1>12 DEF SvHolds, n, num
<1> QED
  BY <1>12, <1>13, <1>14 DEF d

\* insert, emplace and push_back.
LEMMA SvInsertedHolds ==
  ASSUME NEW x, NEW ref, SvHolds(x, ref), NEW pos \in Nat, pos <= x.size,
         NEW xs, ValueSeq(xs), Len(xs) > 0
  PROVE  LET y == FillHole(GrowAt(x, pos, Len(xs)), pos, xs)
         IN SvHolds(y, Replaced(ref, pos, pos, xs)) /\ y.alive = x.alive /\ y.revert = x.revert
<1> DEFINE g == GrowAt(x, pos, Len(xs))
<1>1. Len(xs) \in Nat \ {0}
  BY ValuesAreValues
<1>2. /\ Keeping(g, WithHole(ref, pos, Len(xs))) /\ g.size = x.size + Len(xs)
      /\ g.alive = x.alive /\ g.revert = x.revert
  BY <1>1, GrowAtIs
<1> HIDE DEF g
<1>3. ValueSeq(ref) /\ pos <= Len(ref) /\ g.size = Len(ref) + Len(xs)
  BY <1>2, SvHoldsFacts
<1>4. LET y == FillHole(g, pos, xs)
      IN SvHolds(y, Replaced(ref, pos, pos, xs)) /\ y.alive = g.alive /\ y.revert = g.revert
  BY <1>2, <1>3, FillHoleIs
<1> QED
  BY <1>2, <1>4 DEF g

\* A vector without elements.
LEMMA NothingHeld ==
  ASSUME NEW x, Keeping(x, Nothing), x.size = 0
  PROVE  SvHolds(x, <<>>)
<1>1. Built(x) /\ ValueSeq(<<>>) /\ Len(<<>>) = x.size
  BY DEF Keeping, ValueSeq
<1>2. ASSUME NEW c \in OwnBufs, NEW l \in 1..Len(x[c])
      PROVE  x[c][l] = IF c = Here(x) THEN Elements(<<>>)[l] ELSE Raw
  <2>1. x[c] \in Seq(Int)
    BY <1>1 DEF Built, SvRec, OwnBufs
  <2>2. l \in Nat /\ l > 0
    BY <2>1
  <2>3. Elements(<<>>)[l] = Raw /\ Nothing[l] = Raw
    BY <2>2 DEF Elements, Nothing
  <2> QED
    BY <2>3 DEF Keeping
<1> QED
  BY <1>1, <1>2 DEF SvHolds, Keeping

\* Memory without objects keeps nothing in any of its buffers.
LEMMA NothingAnywhere ==
  ASSUME NEW m, NEW a, Keeps(m, a, Nothing), NEW b \in Bufs
  PROVE  Keeps(m, b, Nothing) /\ \A c \in Bufs : \A l \in 1..Len(m[c]) : m[c][l] = Raw
<1>1. ASSUME NEW c \in Bufs, NEW l \in 1..Len(m[c]) PROVE m[c][l] = Raw /\ Nothing[l] = Raw
  <2>1. Len(m[c]) \in Nat
    BY MemFacts DEF Keeps, Fine
  <2>2. Nothing[l] = Raw
    BY <2>1 DEF Nothing
  <2> QED
    BY <2>2 DEF Keeps
<1> QED
  BY <1>1 DEF Keeps

\* destroy_all
LEMMA DestroyElementsIs ==
  ASSUME NEW x, NEW ref, SvHolds(x, ref)
  PROVE  LET y == DestroyElements(x)
         IN /\ Keeping(y, Nothing) /\ y.alive = x.alive /\ y.revert = x.revert
            /\ y.size = x.size /\ y.cap = x.cap /\ y.dyn = x.dyn /\ Here(y) = Here(x)
            /\ Len(y.heap) = Len(x.heap)
<1> DEFINE a == Here(x)
           s == x.size
           o == Memory(x, 0)
           m == DestroyAll(o, a, 0, s)
<1>1. /\ Built(x) /\ Keeping(x, Elements(ref)) /\ ValueSeq(ref) /\ Len(ref) = s
      /\ s \in Nat /\ x.cap \in Nat /\ s <= x.cap
  BY SvHoldsFacts
<1>2. a \in Bufs
  BY <1>1, HereIs
<1>3. /\ Keeps(o, a, Elements(ref)) /\ Len(o.static) = StaticCapacity
      /\ Len(o.heap) = Len(x.heap) /\ Len(o[a]) = x.cap
  <2>1. Keeping(x, Elements(ref)) /\ 0 \in Nat
    BY <1>1
  <2> QED
    BY ONLY <2>1, MemoryIs
<1> HIDE DEF o, a
<1>4. \A l \in 1..Len(o[a]) : o[a][l] = IF l <= s THEN ref[l] ELSE Raw
  BY <1>1, <1>2, <1>3, ElementCells
<1>5. Rewritten(m, o, s, "none", 0, <<>>, a, 0, Raw)
  <2>1. \A l \in 1..Len(o[a]) : 0 < l /\ l <= 0 + s => o[a][l] # Raw
    <3>1. \A l \in 1..s : ref[l] # Raw
      BY <1>1, ValuesAreValues
    <3> QED
      BY <1>1, <1>3, <1>4, <3>1
  <2>2. Fine(o) /\ a \in Bufs /\ 0 \in Nat /\ s \in Nat /\ 0 + s <= Len(o[a])
    BY <1>1, <1>2, <1>3 DEF Keeps
  <2> HIDE DEF s
  <2> QED
    BY ONLY <2>1, <2>2, DestroyAllIs
<1> HIDE DEF m
<1>6. Fine(m) /\ \A e \in Bufs : Len(m[e]) = Len(o[e])
  BY <1>5 DEF Rewritten
<1>7. ASSUME NEW c \in Bufs, NEW l \in 1..Len(m[c])
      PROVE  m[c][l] = IF c = a THEN Nothing[l] ELSE Raw
  <2>0. l \in 1..Len(o[c]) /\ l \in Nat /\ l >= 1 /\ c # "none"
    <3>1. Len(o[c]) \in Nat
      BY <1>3, MemFacts DEF Keeps, Fine
    <3> QED
      BY <1>6, <3>1 DEF Bufs
  <2>1. m[c][l] = IF c = a /\ 0 < l /\ l <= 0 + s THEN Raw ELSE o[c][l]
    BY <1>5, <2>0 DEF Rewritten
  <2>2. Nothing[l] = Raw
    BY <2>0 DEF Nothing
  <2>3. CASE c # a
    BY <1>3, <2>0, <2>1, <2>3 DEF Keeps
  <2>4. CASE c = a
    BY <1>1, <1>4, <2>0, <2>1, <2>2, <2>4
  <2> QED
    BY <2>3, <2>4
<1>8. Keeps(m, a, Nothing)
  BY <1>6, <1>7 DEF Keeps
<1>9. Len(m.static) = StaticCapacity /\ Len(m.heap) = Len(x.heap)
  BY <1>3, <1>6, SameSize DEF Keeps
<1> DEFINE y == [x EXCEPT !.static = m.static, !.heap = m.heap, !.sound = m.sound]
<1>10. /\ Keeping(y, Nothing) /\ y.size = s /\ y.cap = x.cap /\ y.alive = x.alive
       /\ y.revert = x.revert /\ y.dyn = x.dyn /\ Here(y) = Here(x)
  <2>1. /\ Built(x) /\ Keeps(m, Here(x), Nothing) /\ Len(m.static) = StaticCapacity
        /\ Len(m.heap) = Len(x.heap)
    BY <1>1, <1>8, <1>9 DEF a
  <2> QED
    BY ONLY <2>1, RefilledIs
<1>11. Len(y.heap) = Len(x.heap)
  <2>1. x \in SvRec
    BY <1>1 DEF Built
  <2>2. x = [alive |-> x.alive, revert |-> x.revert, dyn |-> x.dyn, cap |-> x.cap,
             size |-> x.size, static |-> x.static, heap |-> x.heap, sound |-> x.sound]
    BY <2>1, SvFields
  <2>3. y.heap = m.heap
    BY <2>2
  <2> QED
    BY <1>9, <2>3
<1>12. DestroyElements(x) = y
  BY DEF DestroyElements, m, o, a
<1> QED
  BY <1>10, <1>11, <1>12

\* Elements are constructed where there is nothing.
LEMMA ConstructedIs ==
  ASSUME NEW o, NEW a, Keeps(o, a, Nothing), NEW b \in Bufs, NEW xs, ValueSeq(xs),
         Len(xs) <= Len(o[b])
  PROVE  LET m == ConstructAll(o, b, 0, xs)
         IN Keeps(m, b, Elements(xs)) /\ \A c \in Bufs : Len(m[c]) = Len(o[c])
<1> DEFINE m == ConstructAll(o, b, 0, xs)
           n == Len(xs)
<1>1. n \in Nat /\ xs \in Seq(Int)
  BY ValuesAreValues
<1>2. Fine(o) /\ \A c \in Bufs : Len(o[c]) \in Nat /\ \A l \in 1..Len(o[c]) : o[c][l] = Raw
  <2>1. Fine(o)
    BY DEF Keeps
  <2>2. \A c \in Bufs : Len(o[c]) \in Nat
    BY <2>1, MemFacts DEF Fine
  <2>3. \A c \in Bufs : \A l \in 1..Len(o[c]) : o[c][l] = Raw
    BY NothingAnywhere
  <2> QED
    BY <2>1, <2>2, <2>3
<1>3. Rewritten(m, o, n, b, 0, xs, "none", 0, Raw)
  <2>1. /\ Fine(o) /\ b \in Bufs /\ 0 \in Nat /\ xs \in Seq(Int) /\ 0 + Len(xs) <= Len(o[b])
        /\ \A l \in 1..Len(o[b]) : 0 < l /\ l <= 0 + Len(xs) => o[b][l] = Raw
    BY <1>1, <1>2
  <2> QED
    BY ONLY <2>1, ConstructAllIs
<1> HIDE DEF m
<1>4. Fine(m) /\ \A c \in Bufs : Len(m[c]) = Len(o[c])
  BY <1>3 DEF Rewritten
<1>5. ASSUME NEW c \in Bufs, NEW l \in 1..Len(m[c])
      PROVE  m[c][l] = IF c = b THEN Elements(xs)[l] ELSE Raw
  <2>0. l \in 1..Len(o[c]) /\ l \in Nat /\ l >= 1 /\ c # "none" /\ l - 0 = l /\ 0 + n = n
    BY <1>1, <1>2, <1>4 DEF Bufs
  <2>1. m[c][l] = IF c = b /\ 0 < l /\ l <= 0 + n THEN xs[l - 0] ELSE o[c][l]
    BY <1>3, <2>0 DEF Rewritten
  <2>2. Elements(xs)[l] = IF l <= n THEN xs[l] ELSE Raw
    BY <2>0 DEF Elements
  <2> HIDE DEF n
  <2> QED
    BY <1>2, <2>0, <2>1, <2>2
<1>6. Keeps(m, b, Elements(xs))
  BY <1>4, <1>5 DEF Keeps
<1> QED
  BY <1>4, <1>6 DEF m

\* The cells of a memory after a loop are as many as before.
LEMMA SizesKept ==
  ASSUME NEW w, NEW o, NEW a, NEW f, NEW b, NEW g, Keeps(o, a, f), Keeps(w, b, g),
         \A c \in Bufs : Len(w[c]) = Len(o[c])
  PROVE  Len(w.static) = Len(o.static) /\ Len(w.heap) = Len(o.heap) /\ Len(w.new) = Len(o.new)
BY SameSize DEF Keeps

\* assign, and what a constructor does with its arguments.
LEMMA AssignedIs ==
  ASSUME NEW x, Keeping(x, Nothing), NEW xs, ValueSeq(xs)
  PROVE  LET y == Assigned(x, xs)
         IN SvHolds(y, xs) /\ y.alive = x.alive /\ y.revert = x.revert
<1> DEFINE n == Len(xs)
           d == ChooseData(x, n)
           a == Here(x)
           o == Memory(x, NewCells(d))
           m == ConstructAll(o, d.at, 0, xs)
<1>1. Built(x) /\ n \in Nat
  BY ValuesAreValues DEF Keeping
<1>2. a \in Bufs
  BY <1>1, HereIs
<1>3. /\ d.at \in Bufs /\ d.cap \in Nat /\ n <= d.cap /\ d.cap > 0 /\ (d.at = a => d.cap = x.cap)
      /\ NewCells(d) \in Nat
  <2> HIDE DEF n
  <2> QED
    BY <1>1, ChooseDataIs
<1>4. CASE d.at = a
  <2>1. Assigned(x, xs) = Settle(x, m, a, x.cap, n)
    BY <1>3, <1>4 DEF Assigned
  <2>2. /\ Keeps(o, a, Nothing) /\ Len(o.static) = StaticCapacity
        /\ Len(o.heap) = Len(x.heap) /\ Len(o[a]) = x.cap
    <3>1. Keeping(x, Nothing) /\ NewCells(d) \in Nat
      BY <1>3
    <3> HIDE DEF d
    <3> QED
      BY ONLY <3>1, MemoryIs
  <2>3. m = ConstructAll(o, a, 0, xs)
    BY <1>4
  <2>4. n <= x.cap
    BY <1>3, <1>4
  <2> HIDE DEF o, m, d, a
  <2>5. Keeps(m, a, Elements(xs)) /\ \A c \in Bufs : Len(m[c]) = Len(o[c])
    <3>1. Len(xs) <= Len(o[a])
      BY <2>2, <2>4
    <3> QED
      BY <1>2, <2>2, <2>3, <3>1, ConstructedIs
  <2>6. Len(m.static) = StaticCapacity /\ Len(m.heap) = Len(x.heap)
    BY <2>2, <2>5, SizesKept
  <2> HIDE DEF n
  <2> DEFINE y == Settle(x, m, a, x.cap, n)
  <2>7. Keeping(y, Elements(xs)) /\ y.size = n /\ y.alive = x.alive /\ y.revert = x.revert
    <3>1. /\ Built(x) /\ Keeps(m, Here(x), Elements(xs)) /\ n \in Nat /\ n <= x.cap
          /\ Len(m.static) = StaticCapacity /\ Len(m.heap) = Len(x.heap)
      BY <1>1, <2>4, <2>5, <2>6 DEF a
    <3> QED
      BY ONLY <3>1, SettledHere DEF a
  <2> QED
    BY <2>1, <2>7 DEF SvHolds, n
<1>5. CASE d.at # a
  <2> DEFINE b == d.at
             c == d.cap
  <2>1. Assigned(x, xs) = Settle(x, DeallocateIfDyn(x, m), b, c, n)
    BY <1>5 DEF Assigned
  <2>2. /\ b \in {"static", "new"} /\ c \in Nat /\ c > 0 /\ n <= c
        /\ Keeps(o, a, Nothing) /\ Len(o.static) = StaticCapacity
        /\ Len(o.heap) = Len(x.heap) /\ Len(o[b]) = c
    <3> HIDE DEF n
    <3> QED
      BY <1>1, <1>5, RoomIs
  <2>3. m = ConstructAll(o, b, 0, xs)
    OBVIOUS
  <2> HIDE DEF o, m, d, a, b, c
  <2>4. b \in Bufs
    BY <2>2 DEF Bufs
  <2>5. Keeps(m, b, Elements(xs)) /\ \A e \in Bufs : Len(m[e]) = Len(o[e])
    <3>1. Len(xs) <= Len(o[b])
      BY <2>2
    <3> QED
      BY <2>2, <2>3, <2>4, <3>1, ConstructedIs
  <2>6. Len(m.static) = StaticCapacity /\ Len(m.heap) = Len(x.heap) /\ Len(m[b]) = c
    BY <2>2, <2>4, <2>5, SizesKept
  <2> HIDE DEF n
  <2> DEFINE y == Settle(x, DeallocateIfDyn(x, m), b, c, n)
  <2>7. Keeping(y, Elements(xs)) /\ y.size = n /\ y.alive = x.alive /\ y.revert = x.revert
    <3>1. /\ Built(x) /\ b \in {"static", "new"} /\ Keeps(m, b, Elements(xs)) /\ c \in Nat
          /\ n \in Nat /\ n <= c /\ Len(m.static) = StaticCapacity /\ Len(m.heap) = Len(x.heap)
          /\ Len(m[b]) = c /\ (b = "new" => c > 0)
      BY <1>1, <2>2, <2>5, <2>6
    <3> QED
      BY ONLY <3>1, SettledOver
  <2> QED
    BY <2>1, <2>7 DEF SvHolds, n
<1> QED
  BY <1>4, <1>5

\* clear
LEMMA ClearedIs ==
  ASSUME NEW x, NEW ref, SvHolds(x, ref)
  PROVE  LET y == Cleared(x)
         IN SvHolds(y, <<>>) /\ y.alive = x.alive /\ y.revert = x.revert
<1> DEFINE e == DestroyElements(x)
           m == Memory(e, 0)
<1>1. Built(x) /\ x.cap \in Nat
  BY SvHoldsFacts
<1>2. Keeping(e, Nothing) /\ Here(e) = Here(x) /\ Len(e.heap) = Len(x.heap)
  BY DestroyElementsIs
<1>3. /\ Keeps(m, Here(x), Nothing) /\ Len(m.static) = StaticCapacity
      /\ Len(m.heap) = Len(x.heap)
  <2> HIDE DEF e
  <2>1. Keeping(e, Nothing) /\ 0 \in Nat
    BY <1>2
  <2>2. Keeps(m, Here(e), Nothing) /\ Len(m.static) = StaticCapacity /\ Len(m.heap) = Len(e.heap)
    BY ONLY <2>1, MemoryIs
  <2> QED
    BY <1>2, <2>2
<1>4. CASE x.revert > 0 /\ x.dyn
  <2>1. Cleared(x) = Settle(x, DeallocateIfDyn(x, m), "static", StaticCapacity, 0)
    BY <1>4 DEF Cleared, DeallocateIfDyn
  <2> HIDE DEF m
  <2>2. Keeps(m, "static", Nothing)
    BY <1>3, NothingAnywhere DEF Bufs
  <2> DEFINE b == "static"
             c == StaticCapacity
  <2>3. /\ Built(x) /\ b \in {"static", "new"} /\ Keeps(m, b, Nothing) /\ c \in Nat
        /\ 0 \in Nat /\ 0 <= c /\ Len(m.static) = StaticCapacity /\ Len(m.heap) = Len(x.heap)
        /\ Len(m[b]) = c /\ (b = "new" => c > 0)
    BY <1>1, <1>3, <2>2, Static
  <2> DEFINE y == Settle(x, DeallocateIfDyn(x, m), b, c, 0)
  <2>4. Keeping(y, Nothing) /\ y.size = 0 /\ y.alive = x.alive /\ y.revert = x.revert
    <3> HIDE DEF b, c
    <3> QED
      BY ONLY <2>3, SettledOver
  <2> QED
    BY <2>1, <2>4, NothingHeld
<1>5. CASE ~(x.revert > 0 /\ x.dyn)
  <2>1. Cleared(x) = Settle(x, m, Here(x), x.cap, 0)
    BY <1>5 DEF Cleared
  <2> HIDE DEF m
  <2>2. /\ Built(x) /\ Keeps(m, Here(x), Nothing) /\ 0 \in Nat /\ 0 <= x.cap
        /\ Len(m.static) = StaticCapacity /\ Len(m.heap) = Len(x.heap)
    BY <1>1, <1>3
  <2> DEFINE y == Settle(x, m, Here(x), x.cap, 0)
  <2>3. Keeping(y, Nothing) /\ y.size = 0 /\ y.alive = x.alive /\ y.revert = x.revert
    BY ONLY <2>2, SettledHere
  <2> QED
    BY <2>1, <2>3, NothingHeld
<1> QED
  BY <1>4, <1>5

\* What a vector is given up as.
LEMMA ReleasedIs ==
  ASSUME NEW x, NEW ref, SvHolds(x, ref)
  PROVE  LET y == Released(x)
         IN /\ Keeping(y, Nothing) /\ y.size = 0 /\ y.alive = x.alive /\ y.revert = x.revert
            /\ Here(y) = "static" /\ y.cap = StaticCapacity
<1> DEFINE e == DestroyElements(x)
           m == Memory(e, 0)
<1>1. Built(x) /\ x.cap \in Nat
  BY SvHoldsFacts
<1>2. Keeping(e, Nothing) /\ Here(e) = Here(x) /\ Len(e.heap) = Len(x.heap)
  BY DestroyElementsIs
<1>3. /\ Keeps(m, Here(x), Nothing) /\ Len(m.static) = StaticCapacity
      /\ Len(m.heap) = Len(x.heap)
  <2> HIDE DEF e
  <2>1. Keeping(e, Nothing) /\ 0 \in Nat
    BY <1>2
  <2>2. Keeps(m, Here(e), Nothing) /\ Len(m.static) = StaticCapacity /\ Len(m.heap) = Len(e.heap)
    BY ONLY <2>1, MemoryIs
  <2> QED
    BY <1>2, <2>2
<1>4. Released(x) = Settle(x, DeallocateIfDyn(x, m), "static", StaticCapacity, 0)
  BY DEF Released
<1> HIDE DEF m
<1>5. Keeps(m, "static", Nothing)
  BY <1>3, NothingAnywhere DEF Bufs
<1> DEFINE b == "static"
           c == StaticCapacity
<1>6. /\ Built(x) /\ b \in {"static", "new"} /\ Keeps(m, b, Nothing) /\ c \in Nat
      /\ 0 \in Nat /\ 0 <= c /\ Len(m.static) = StaticCapacity /\ Len(m.heap) = Len(x.heap)
      /\ Len(m[b]) = c /\ (b = "new" => c > 0)
  BY <1>1, <1>3, <1>5, Static
<1> DEFINE y == Settle(x, DeallocateIfDyn(x, m), b, c, 0)
<1>7. /\ Keeping(y, Nothing) /\ y.size = 0 /\ y.cap = c /\ y.alive = x.alive /\ y.revert = x.revert
      /\ Here(y) = IF b = "static" THEN "static" ELSE "heap"
  <2> HIDE DEF b, c
  <2> QED
    BY ONLY <1>6, SettledOver
<1> QED
  BY <1>4, <1>7

\* Elements are taken out of a sequence of values.
LEMMA PartErased ==
  ASSUME NEW ref, ValueSeq(ref), NEW a \in Nat, NEW num \in Nat, a + num <= Len(ref)
  PROVE  LET d == Replaced(ref, a, a + num, <<>>)
         IN /\ ValueSeq(d) /\ Len(d) = Len(ref) - num
            /\ \A l \in 1..Len(d) : d[l] = IF l <= a THEN ref[l] ELSE ref[l + num]
<1> DEFINE c == a + num
           d == Replaced(ref, a, c, <<>>)
           n == Len(ref)
<1>1. ValueSeq(<<>>) /\ Len(<<>>) = 0 /\ n \in Nat /\ c \in Nat /\ a <= c /\ c <= n
  BY ValuesAreValues DEF ValueSeq
<1> HIDE DEF c
<1>2. /\ ValueSeq(d) /\ Len(d) = a + Len(<<>>) + (n - c)
      /\ \A l \in 1..Len(d) :
           d[l] = IF l <= a THEN ref[l] ELSE IF l <= a + Len(<<>>) THEN <<>>[l - a]
                  ELSE ref[c + (l - (a + Len(<<>>)))]
  <2>1. /\ ValueSeq(ref) /\ ValueSeq(<<>>) /\ a \in Nat /\ c \in Nat /\ a <= c
        /\ c <= Len(ref)
    BY <1>1
  <2> DEFINE e == <<>>
  <2>2. e = <<>>
    OBVIOUS
  <2> HIDE DEF e
  <2>3. /\ ValueSeq(ref) /\ ValueSeq(e) /\ a \in Nat /\ c \in Nat /\ a <= c
        /\ c <= Len(ref)
    BY <2>1, <2>2
  <2> DEFINE f == Replaced(ref, a, c, e)
  <2>4. ValueSeq(f)
    BY ONLY <2>3, PartReplaced
  <2>5. Len(f) = a + Len(e) + (Len(ref) - c)
    BY ONLY <2>3, PartReplaced
  <2>6. \A l \in 1..Len(f) :
          f[l] = IF l <= a THEN ref[l] ELSE IF l <= a + Len(e) THEN e[l - a]
                 ELSE ref[c + (l - (a + Len(e)))]
    BY ONLY <2>3, PartReplaced
  <2>7. f = d
    BY <2>2
  <2> QED
    BY <2>2, <2>4, <2>5, <2>6, <2>7
<1> HIDE DEF d, n
<1>3. Len(d) = n - num
  BY <1>1, <1>2 DEF c
<1>4. ASSUME NEW l \in 1..Len(d) PROVE d[l] = IF l <= a THEN ref[l] ELSE ref[l + num]
  <2>1. l \in Nat /\ (l <= a + Len(<<>>) <=> l <= a) /\ c + (l - (a + Len(<<>>))) = l + num
    BY <1>1, <1>3 DEF c
  <2> QED
    BY <1>2, <2>1
<1> QED
  BY <1>2, <1>3, <1>4 DEF d, n, c

\* shrink_at in place.
LEMMA ShrinkInPlaceIs ==
  ASSUME NEW x, NEW ref, SvHolds(x, ref), NEW pos \in Nat, NEW num \in Nat \ {0},
         pos + num <= x.size
  PROVE  LET y == ShrinkInPlace(x, pos, num)
         IN /\ SvHolds(y, Replaced(ref, pos, pos + num, <<>>)) /\ y.alive = x.alive
            /\ y.revert = x.revert
<1> DEFINE a == Here(x)
           s == x.size
           n == s - pos - num
           k == s - num
           o == Memory(x, 0)
           m1 == Transfer(o, "replace", a, pos + num, a, pos, n)
           m == DestroyAll(m1, a, k, num)
           d == Replaced(ref, pos, pos + num, <<>>)
<1>0. ShrinkInPlace(x, pos, num) = Settle(x, m, a, x.cap, k)
  BY DEF ShrinkInPlace
<1>1. /\ Built(x) /\ Keeping(x, Elements(ref)) /\ ValueSeq(ref) /\ Len(ref) = s
      /\ s \in Nat /\ x.cap \in Nat /\ s <= x.cap
  BY SvHoldsFacts
<1>2. a \in Bufs
  BY <1>1, HereIs
<1>3. n \in Nat /\ k \in Nat /\ pos + num + n = s /\ pos + n = k /\ k + num = s
  BY <1>1
<1>4. /\ Keeps(o, a, Elements(ref)) /\ Len(o.static) = StaticCapacity
      /\ Len(o.heap) = Len(x.heap) /\ Len(o[a]) = x.cap
  <2>1. Keeping(x, Elements(ref)) /\ 0 \in Nat
    BY <1>1
  <2> QED
    BY ONLY <2>1, MemoryIs
<1>5. /\ ValueSeq(d) /\ Len(d) = k
      /\ \A l \in 1..Len(d) : d[l] = IF l <= pos THEN ref[l] ELSE ref[l + num]
  <2>1. ValueSeq(ref) /\ pos \in Nat /\ num \in Nat /\ pos + num <= Len(ref)
    BY <1>1
  <2>2. LET e == Replaced(ref, pos, pos + num, <<>>)
        IN /\ ValueSeq(e) /\ Len(e) = Len(ref) - num
           /\ \A l \in 1..Len(e) : e[l] = IF l <= pos THEN ref[l] ELSE ref[l + num]
    BY ONLY <2>1, PartErased
  <2> QED
    BY <1>1, <2>2
<1> HIDE DEF o, a, d, n, k
<1>6. \A l \in 1..Len(o[a]) : o[a][l] = IF l <= s THEN ref[l] ELSE Raw
  BY <1>1, <1>2, <1>4, ElementCells
<1>7. \A l \in 1..s : IsValue(ref[l]) /\ ref[l] # Raw
  BY <1>1, ValuesAreValues
<1> HIDE DEF s
<1>8. Holding(m1, o, Pulled(o, n, a, pos, num))
  <2>1. \A l \in 1..Len(o[a]) : pos < l /\ l <= pos + num + n => IsValue(o[a][l])
    BY <1>1, <1>3, <1>4, <1>6, <1>7
  <2>2. /\ Fine(o) /\ a \in Bufs /\ pos \in Nat /\ num \in Nat \ {0} /\ n \in Nat
        /\ pos + num + n <= Len(o[a])
    BY <1>1, <1>2, <1>3, <1>4 DEF Keeps
  <2> QED
    BY ONLY <2>1, <2>2, PulledIs
<1> HIDE DEF m1
<1>9. /\ Fine(m1) /\ \A e \in Bufs : Len(m1[e]) = Len(o[e])
  BY <1>8 DEF Holding
<1>10. ASSUME NEW l \in 1..Len(o[a])
       PROVE  /\ l <= k => m1[a][l] = d[l]
              /\ k < l /\ l <= s => m1[a][l] # Raw
              /\ s < l => m1[a][l] = Raw
  <2>0. l \in Nat /\ l >= 1
    BY <1>1, <1>4
  <2>1. m1[a][l] = IF pos < l /\ l <= k THEN o[a][l + num]
                   ELSE IF pos + num < l /\ l <= s THEN MovedFrom ELSE o[a][l]
    <3>1. m1[a][l] = Pulled(o, n, a, pos, num)[a][l]
      BY <1>2, <1>8 DEF Holding
    <3>2. Pulled(o, n, a, pos, num)[a][l] =
            IF pos < l /\ l <= pos + n THEN o[a][l + num]
            ELSE IF pos + num < l /\ l <= pos + num + n THEN MovedFrom ELSE o[a][l]
      BY <1>2 DEF Pulled
    <3> QED
      BY <1>3, <3>1, <3>2
  <2>2. CASE l <= pos
    <3>1. l <= k /\ l <= s /\ ~(pos < l) /\ ~(pos + num < l) /\ l \in 1..Len(d)
      BY <1>1, <1>3, <1>5, <2>0, <2>2
    <3>2. m1[a][l] = ref[l] /\ d[l] = ref[l]
      BY <1>5, <1>6, <2>1, <2>2, <3>1
    <3>3. ~(k < l) /\ ~(s < l)
      BY <1>1, <1>3, <2>0, <3>1
    <3> QED
      BY <3>2, <3>3
  <2>3. CASE pos < l /\ l <= k
    <3>1. l + num \in 1..Len(o[a]) /\ l + num <= s /\ l \in 1..Len(d) /\ ~(l <= pos)
      BY <1>1, <1>3, <1>4, <1>5, <2>0, <2>3
    <3>2. m1[a][l] = ref[l + num] /\ d[l] = ref[l + num]
      BY <1>5, <1>6, <2>1, <2>3, <3>1
    <3>3. ~(k < l) /\ ~(s < l)
      BY <1>1, <1>3, <2>0, <2>3
    <3> QED
      BY <3>2, <3>3
  <2>4. CASE k < l
    <3>1. ~(l <= k)
      BY <1>3, <2>0, <2>4
    <3>2. l <= s => l \in 1..s /\ ref[l] # Raw
      BY <1>1, <1>7, <2>0
    <3>3. m1[a][l] = IF pos + num < l /\ l <= s THEN MovedFrom
                     ELSE IF l <= s THEN ref[l] ELSE Raw
      BY <1>6, <2>1, <3>1
    <3>4. s < l => ~(l <= s)
      BY <1>1, <2>0
    <3>5. MovedFrom # Raw
      BY DEF MovedFrom, Raw
    <3> QED
      BY <3>1, <3>2, <3>3, <3>4, <3>5
  <2> QED
    BY <1>3, <2>0, <2>2, <2>3, <2>4
<1>11. Rewritten(m, m1, num, "none", 0, <<>>, a, k, Raw)
  <2>1. \A l \in 1..Len(m1[a]) : k < l /\ l <= k + num => m1[a][l] # Raw
    BY <1>2, <1>3, <1>9, <1>10
  <2>2. Fine(m1) /\ a \in Bufs /\ k \in Nat /\ num \in Nat /\ k + num <= Len(m1[a])
    BY <1>1, <1>2, <1>3, <1>4, <1>9
  <2> QED
    BY ONLY <2>1, <2>2, DestroyAllIs
<1> HIDE DEF m
<1>12. Fine(m) /\ \A e \in Bufs : Len(m[e]) = Len(o[e])
  BY <1>9, <1>11 DEF Rewritten
<1>13. ASSUME NEW c \in Bufs, NEW l \in 1..Len(m[c])
       PROVE  m[c][l] = IF c = a THEN Elements(d)[l] ELSE Raw
  <2>0. l \in 1..Len(m1[c]) /\ l \in 1..Len(o[c]) /\ l \in Nat /\ l >= 1 /\ c # "none"
    <3>1. Len(o[c]) \in Nat
      BY <1>4, MemFacts DEF Keeps, Fine
    <3> QED
      BY <1>9, <1>12, <3>1 DEF Bufs
  <2>1. m[c][l] = IF c = a /\ k < l /\ l <= k + num THEN Raw ELSE m1[c][l]
    BY <1>11, <2>0 DEF Rewritten
  <2>2. CASE c # a
    <3>1. m1[c][l] = o[c][l]
      BY <1>8, <2>0, <2>2 DEF Holding, Pulled
    <3> QED
      BY <1>4, <2>0, <2>1, <2>2, <3>1 DEF Keeps
  <2>3. CASE c = a
    <3>1. Elements(d)[l] = IF l <= k THEN d[l] ELSE Raw
      BY <1>5, <2>0 DEF Elements
    <3>2. m1[a][l] = IF l <= k THEN d[l] ELSE m1[a][l]
      BY <1>10, <2>0, <2>3
    <3>3. s < l => m1[a][l] = Raw
      BY <1>10, <2>0, <2>3
    <3>4. (l <= k => ~(k < l)) /\ (~(l <= k) => k < l) /\ (~(l <= k + num) => s < l)
      BY <1>1, <1>3, <2>0
    <3> QED
      BY <2>1, <2>3, <3>1, <3>2, <3>3, <3>4
  <2> QED
    BY <2>2, <2>3
<1>14. Keeps(m, a, Elements(d))
  BY <1>12, <1>13 DEF Keeps
<1>15. Len(m.static) = StaticCapacity /\ Len(m.heap) = Len(x.heap)
  BY <1>4, <1>12, <1>14, SizesKept
<1> DEFINE y == Settle(x, m, a, x.cap, k)
<1>16. Keeping(y, Elements(d)) /\ y.size = k /\ y.alive = x.alive /\ y.revert = x.revert
  <2>1. /\ Built(x) /\ Keeps(m, Here(x), Elements(d)) /\ k \in Nat /\ k <= x.cap
        /\ Len(m.static) = StaticCapacity /\ Len(m.heap) = Len(x.heap)
    BY <1>1, <1>3, <1>14, <1>15 DEF a
  <2> QED
    BY ONLY <2>1, SettledHere DEF a
<1> HIDE DEF y
<1>17. SvHolds(y, d)
  BY <1>5, <1>16 DEF SvHolds
<1> QED
  BY <1>0, <1>16, <1>17 DEF y, d

\* Some of n elements are brought to another buffer, and num of them destroyed.
BroughtTo(m, a, n, b, pos, num) ==
  LET m1 == CarryAll(m, a, 0, b, 0, pos)
      m2 == DestroyAll(m1, a, pos, num)
  IN CarryAll(m2, a, pos + num, b, pos, n - pos - num)

\* What is left of the elements is in the other buffer, and nothing behind.
LEMMA BroughtOver ==
  ASSUME NEW ref, ValueSeq(ref), NEW a \in Bufs, NEW b \in Bufs, a # b,
         NEW m, Keeps(m, a, Elements(ref)), NEW pos \in Nat, NEW num \in Nat,
         pos + num <= Len(ref), Len(ref) <= Len(m[a]), Len(ref) - num <= Len(m[b])
  PROVE  LET w == BroughtTo(m, a, Len(ref), b, pos, num)
         IN /\ Keeps(w, b, Elements(Replaced(ref, pos, pos + num, <<>>)))
            /\ \A c \in Bufs : Len(w[c]) = Len(m[c])
<1> DEFINE n == Len(ref)
           rest == n - num
           r == n - pos - num
           t == pos + num
           d == Replaced(ref, pos, pos + num, <<>>)
           m1 == CarryAll(m, a, 0, b, 0, pos)
           m2 == DestroyAll(m1, a, pos, num)
           w == CarryAll(m2, a, t, b, pos, r)
           xs1 == Cells(m, a, 0, pos)
           xs2 == Cells(m2, a, t, r)
<1>0. /\ n \in Nat /\ rest \in Nat /\ r \in Nat /\ t \in Nat /\ t + r = n /\ pos + r = rest
      /\ pos + num = t /\ pos <= n /\ pos <= rest /\ pos <= t
      /\ \A c \in Bufs : Len(m[c]) \in Nat
  <2>1. n \in Nat /\ \A c \in Bufs : Len(m[c]) \in Nat
    BY ValuesAreValues, MemFacts DEF Keeps, Fine
  <2> QED
    BY <2>1
<1>1. /\ ValueSeq(d) /\ Len(d) = rest
      /\ \A l \in 1..Len(d) : d[l] = IF l <= pos THEN ref[l] ELSE ref[l + num]
  <2>1. ValueSeq(ref) /\ pos \in Nat /\ num \in Nat /\ pos + num <= Len(ref)
    OBVIOUS
  <2>2. LET e == Replaced(ref, pos, pos + num, <<>>)
        IN /\ ValueSeq(e) /\ Len(e) = Len(ref) - num
           /\ \A l \in 1..Len(e) : e[l] = IF l <= pos THEN ref[l] ELSE ref[l + num]
    BY ONLY <2>1, PartErased
  <2> QED
    BY <2>2
<1>2. n <= Len(m[a]) /\ rest <= Len(m[b])
  OBVIOUS
<1>w. BroughtTo(m, a, n, b, pos, num) = w
  BY DEF BroughtTo
<1>3. \A l \in 1..n : IsValue(ref[l]) /\ ref[l] # Raw
  BY ValuesAreValues
<1>4. /\ Fine(m) /\ \A l \in 1..Len(m[a]) : m[a][l] = IF l <= n THEN ref[l] ELSE Raw
      /\ \A c \in Bufs : c # a => \A l \in 1..Len(m[c]) : m[c][l] = Raw
  BY ElementCells DEF Keeps
<1> HIDE DEF n, rest, r, t, d
<1>5. Rewritten(m1, m, pos, b, 0, xs1, a, 0, Raw)
  <2>1. /\ 0 + pos <= Len(m[a]) /\ 0 + pos <= Len(m[b])
    BY <1>0, <1>2
  <2>2. \A l \in 1..Len(m[a]) : 0 < l /\ l <= 0 + pos => IsValue(m[a][l])
    BY <1>0, <1>3, <1>4
  <2>3. /\ Fine(m) /\ pos \in Nat /\ 0 \in Nat /\ a \in Bufs /\ b \in Bufs /\ a # b
        /\ \A l \in 1..Len(m[b]) : 0 < l /\ l <= 0 + pos => m[b][l] = Raw
    BY <1>4
  <2> QED
    BY ONLY <2>1, <2>2, <2>3, CarryAllIs DEF xs1, m1
<1> HIDE DEF m1
<1>6. /\ Fine(m1) /\ \A c \in Bufs : Len(m1[c]) = Len(m[c])
      /\ \A l \in 1..Len(m[a]) : m1[a][l] = IF pos < l /\ l <= n THEN ref[l] ELSE Raw
      /\ \A l \in 1..Len(m[b]) : m1[b][l] = IF l <= pos THEN ref[l] ELSE Raw
      /\ \A c \in Bufs : c \notin {a, b} => \A l \in 1..Len(m[c]) : m1[c][l] = Raw
  <2>1. Fine(m1) /\ \A c \in Bufs : Len(m1[c]) = Len(m[c])
    BY <1>5 DEF Rewritten
  <2>2. ASSUME NEW l \in 1..Len(m[a])
        PROVE  m1[a][l] = IF pos < l /\ l <= n THEN ref[l] ELSE Raw
    <3>1. m1[a][l] = IF 0 < l /\ l <= 0 + pos THEN Raw ELSE m[a][l]
      BY <1>5 DEF Rewritten
    <3>2. l \in Nat /\ l > 0 /\ (l <= pos <=> ~(pos < l)) /\ 0 + pos = pos
      BY <1>0
    <3> QED
      BY <1>4, <3>1, <3>2
  <2>3. ASSUME NEW l \in 1..Len(m[b]) PROVE m1[b][l] = IF l <= pos THEN ref[l] ELSE Raw
    <3>1. CASE l <= pos
      <4>1. l - 0 = l /\ l \in 1..pos /\ l \in 1..Len(m[a]) /\ l <= n /\ 0 < l /\ 0 + pos = pos
            /\ 0 + l = l
        BY <1>0, <1>2, <3>1
      <4>2. m1[b][l] = xs1[l - 0]
        BY <1>5, <3>1, <4>1 DEF Rewritten
      <4>3. xs1[l] = m[a][l]
        BY <4>1 DEF Cells
      <4> QED
        BY <1>4, <3>1, <4>1, <4>2, <4>3
    <3>2. CASE ~(l <= pos)
      <4>1. ~(l <= 0 + pos)
        BY <3>2
      <4>2. m1[b][l] = m[b][l]
        BY <1>5, <4>1 DEF Rewritten
      <4> QED
        BY <1>4, <3>2, <4>2
    <3> QED
      BY <3>1, <3>2
  <2>4. \A c \in Bufs : c \notin {a, b} => \A l \in 1..Len(m[c]) : m1[c][l] = Raw
    BY <1>4, <1>5 DEF Rewritten
  <2> QED
    BY <2>1, <2>2, <2>3, <2>4
<1> HIDE DEF xs1
<1>7. Rewritten(m2, m1, num, "none", 0, <<>>, a, pos, Raw)
  <2>1. \A l \in 1..Len(m1[a]) : pos < l /\ l <= pos + num => m1[a][l] # Raw
    <3>1. ASSUME NEW l \in 1..Len(m1[a]), pos < l, l <= pos + num
          PROVE  m1[a][l] = ref[l] /\ l \in 1..n
      BY <1>0, <1>6, <3>1
    <3> QED
      BY <1>3, <3>1
  <2>2. Fine(m1) /\ a \in Bufs /\ pos \in Nat /\ num \in Nat /\ pos + num <= Len(m1[a])
    BY <1>0, <1>2, <1>6
  <2> QED
    BY ONLY <2>1, <2>2, DestroyAllIs DEF m2
<1> HIDE DEF m2
<1>8. /\ Fine(m2) /\ \A c \in Bufs : Len(m2[c]) = Len(m[c])
      /\ \A l \in 1..Len(m[a]) : m2[a][l] = IF t < l /\ l <= n THEN ref[l] ELSE Raw
      /\ \A l \in 1..Len(m[b]) : m2[b][l] = IF l <= pos THEN ref[l] ELSE Raw
      /\ \A c \in Bufs : c \notin {a, b} => \A l \in 1..Len(m[c]) : m2[c][l] = Raw
  <2>1. Fine(m2) /\ \A c \in Bufs : Len(m2[c]) = Len(m[c])
    BY <1>6, <1>7 DEF Rewritten
  <2>2. ASSUME NEW l \in 1..Len(m[a])
        PROVE  m2[a][l] = IF t < l /\ l <= n THEN ref[l] ELSE Raw
    <3>1. m2[a][l] = IF pos < l /\ l <= pos + num THEN Raw ELSE m1[a][l]
      BY <1>6, <1>7 DEF Rewritten, Bufs
    <3>2. l \in Nat /\ (l <= pos + num <=> ~(t < l)) /\ (t < l => pos < l)
      <4>1. l \in Nat /\ t \in Nat /\ pos + num = t /\ pos <= t
        BY <1>0
      <4> QED
        BY ONLY <4>1
    <3> QED
      BY <1>6, <3>1, <3>2
  <2>3. a # "none" /\ \A c \in Bufs : c # a => \A l \in 1..Len(m[c]) : m2[c][l] = m1[c][l]
    BY <1>6, <1>7 DEF Rewritten, Bufs
  <2> QED
    BY <1>6, <2>1, <2>2, <2>3
<1>9. Rewritten(w, m2, r, b, pos, xs2, a, t, Raw)
  <2>1. t + r <= Len(m2[a]) /\ pos + r <= Len(m2[b])
    BY <1>0, <1>2, <1>8
  <2>2. \A l \in 1..Len(m2[a]) : t < l /\ l <= t + r => IsValue(m2[a][l])
    <3>1. ASSUME NEW l \in 1..Len(m2[a]), t < l, l <= t + r
          PROVE  m2[a][l] = ref[l] /\ l \in 1..n
      BY <1>0, <1>8, <3>1
    <3> QED
      BY <1>3, <3>1
  <2>3. \A l \in 1..Len(m2[b]) : pos < l /\ l <= pos + r => m2[b][l] = Raw
    <3>1. /\ Len(m2[b]) = Len(m[b]) /\ pos \in Nat
          /\ \A l \in 1..Len(m[b]) : m2[b][l] = IF l <= pos THEN ref[l] ELSE Raw
      BY <1>0, <1>8
    <3>2. Len(m[b]) \in Nat
      BY <1>0
    <3> QED
      BY ONLY <3>1, <3>2
  <2>4. Fine(m2) /\ r \in Nat /\ t \in Nat /\ pos \in Nat /\ a \in Bufs /\ b \in Bufs /\ a # b
    BY <1>0, <1>8
  <2>5. xs2 = Cells(m2, a, t, r) /\ w = CarryAll(m2, a, t, b, pos, r)
    OBVIOUS
  <2> HIDE DEF xs2, w
  <2>6. /\ Fine(m2) /\ r \in Nat /\ a \in Bufs /\ t \in Nat /\ t + r <= Len(m2[a])
        /\ b \in Bufs /\ pos \in Nat /\ pos + r <= Len(m2[b]) /\ a # b
        /\ \A l \in 1..Len(m2[a]) : t < l /\ l <= t + r => IsValue(m2[a][l])
        /\ \A l \in 1..Len(m2[b]) : pos < l /\ l <= pos + r => m2[b][l] = Raw
    BY <2>1, <2>2, <2>3, <2>4
  <2>7. Rewritten(CarryAll(m2, a, t, b, pos, r), m2, r, b, pos,
                  Cells(m2, a, t, r), a, t, Raw)
    BY ONLY <2>6, CarryAllIs
  <2> QED
    BY <2>5, <2>7
<1> HIDE DEF w
<1>10. Fine(w) /\ \A c \in Bufs : Len(w[c]) = Len(m[c])
  BY <1>8, <1>9 DEF Rewritten
<1>11. ASSUME NEW c \in Bufs, NEW l \in 1..Len(w[c])
       PROVE  w[c][l] = IF c = b THEN Elements(d)[l] ELSE Raw
  <2>0. l \in 1..Len(m2[c]) /\ l \in 1..Len(m[c]) /\ l \in Nat /\ l >= 1
    BY <1>0, <1>8, <1>10
  <2>1. w[c][l] = IF c = b /\ pos < l /\ l <= pos + r THEN xs2[l - pos]
                  ELSE IF c = a /\ t < l /\ l <= t + r THEN Raw ELSE m2[c][l]
    BY <1>9, <2>0 DEF Rewritten
  <2>2. CASE c = a
    <3>1. w[c][l] = IF t < l /\ l <= n THEN Raw ELSE m2[a][l]
      BY <1>0, <2>1, <2>2
    <3> QED
      BY <1>8, <2>0, <2>2, <3>1
  <2>3. CASE c \notin {a, b}
    BY <1>8, <2>0, <2>1, <2>3
  <2>4. CASE c = b /\ pos < l /\ l <= rest
    <3>1. l - pos \in 1..r /\ t + (l - pos) = l + num /\ l + num \in 1..Len(m[a])
          /\ t < l + num /\ l + num <= n /\ l \in 1..Len(d) /\ ~(l <= pos) /\ l <= pos + r
      BY <1>0, <1>1, <1>2, <2>0, <2>4
    <3>2. w[c][l] = xs2[l - pos]
      BY <2>1, <2>4, <3>1
    <3>3. xs2[l - pos] = m2[a][l + num]
      BY <3>1 DEF Cells
    <3>4. m2[a][l + num] = ref[l + num]
      BY <1>8, <3>1
    <3>5. d[l] = ref[l + num]
      BY <1>1, <3>1
    <3>6. Elements(d)[l] = d[l]
      BY <1>1, <2>0, <2>4 DEF Elements
    <3> QED
      BY <2>4, <3>2, <3>3, <3>4, <3>5, <3>6
  <2>5. CASE c = b /\ ~(pos < l /\ l <= rest)
    <3>1. w[c][l] = IF l <= pos THEN ref[l] ELSE Raw
      <4>1. ~(pos < l /\ l <= pos + r)
        BY <1>0, <2>5
      <4>2. w[c][l] = m2[b][l]
        BY <2>1, <2>5, <4>1
      <4> QED
        BY <1>8, <2>0, <2>5, <4>2
    <3>2. CASE l <= pos
      <4>1. l <= rest /\ l \in 1..Len(d)
        BY <1>0, <1>1, <2>0, <3>2
      <4>2. Elements(d)[l] = d[l] /\ d[l] = ref[l]
        BY <1>1, <2>0, <3>2, <4>1 DEF Elements
      <4> QED
        BY <2>5, <3>1, <3>2, <4>2
    <3>3. CASE ~(l <= pos)
      <4>1. ~(l <= rest)
        BY <1>0, <2>0, <2>5, <3>3
      <4>2. Elements(d)[l] = Raw
        BY <1>1, <2>0, <4>1 DEF Elements
      <4> QED
        BY <2>5, <3>1, <3>3, <4>2
    <3> QED
      BY <3>2, <3>3
  <2> QED
    BY <2>2, <2>3, <2>4, <2>5
<1>12. Keeps(w, b, Elements(d))
  BY <1>10, <1>11 DEF Keeps
<1> QED
  BY <1>w, <1>10, <1>12 DEF n, d

\* shrink_at back into the buffer of the vector.
LEMMA ShrinkOverIs ==
  ASSUME NEW x, NEW ref, SvHolds(x, ref), x.dyn, NEW pos \in Nat, NEW num \in Nat,
         pos + num <= x.size, x.size - num <= StaticCapacity
  PROVE  LET y == ShrinkOver(x, pos, num)
         IN /\ SvHolds(y, Replaced(ref, pos, pos + num, <<>>)) /\ y.alive = x.alive
            /\ y.revert = x.revert
<1> DEFINE s == x.size
           k == s - num
           o == Memory(x, 0)
           d == Replaced(ref, pos, pos + num, <<>>)
           m == BroughtTo(o, "heap", s, "static", pos, num)
<1>0. ShrinkOver(x, pos, num) = Settle(x, DeallocateIfDyn(x, m), "static", StaticCapacity, k)
  BY DEF ShrinkOver, BroughtTo, DeallocateIfDyn
<1>1. /\ Built(x) /\ Keeping(x, Elements(ref)) /\ ValueSeq(ref) /\ Len(ref) = s
      /\ s \in Nat /\ x.cap \in Nat /\ s <= x.cap
  BY SvHoldsFacts
<1>2. Here(x) = "heap" /\ "heap" \in Bufs /\ "static" \in Bufs /\ "heap" # "static"
  BY <1>1, HereIs DEF Bufs
<1>3. k \in Nat
  BY <1>1
<1>4. /\ Keeps(o, "heap", Elements(ref)) /\ Len(o.static) = StaticCapacity
      /\ Len(o.heap) = Len(x.heap) /\ Len(o["heap"]) = x.cap
  <2>1. Keeping(x, Elements(ref)) /\ 0 \in Nat
    BY <1>1
  <2>2. /\ Keeps(o, Here(x), Elements(ref)) /\ Len(o.static) = StaticCapacity
        /\ Len(o.heap) = Len(x.heap) /\ Len(o[Here(x)]) = x.cap
    BY ONLY <2>1, MemoryIs
  <2> QED
    BY <1>2, <2>2
<1>5. ValueSeq(d) /\ Len(d) = k
  <2>1. ValueSeq(ref) /\ pos \in Nat /\ num \in Nat /\ pos + num <= Len(ref)
    BY <1>1
  <2>2. LET e == Replaced(ref, pos, pos + num, <<>>)
        IN ValueSeq(e) /\ Len(e) = Len(ref) - num
    BY ONLY <2>1, PartErased
  <2> QED
    BY <1>1, <2>2
<1> HIDE DEF o
<1>6. Keeps(m, "static", Elements(d)) /\ \A c \in Bufs : Len(m[c]) = Len(o[c])
  <2>1. /\ ValueSeq(ref) /\ "heap" \in Bufs /\ "static" \in Bufs /\ "heap" # "static"
        /\ Keeps(o, "heap", Elements(ref)) /\ pos \in Nat /\ num \in Nat
        /\ pos + num <= Len(ref) /\ Len(ref) <= Len(o["heap"])
        /\ Len(ref) - num <= Len(o["static"])
    BY <1>1, <1>2, <1>4
  <2> DEFINE a == "heap"
             b == "static"
  <2>2. /\ ValueSeq(ref) /\ a \in Bufs /\ b \in Bufs /\ a # b
        /\ Keeps(o, a, Elements(ref)) /\ pos \in Nat /\ num \in Nat
        /\ pos + num <= Len(ref) /\ Len(ref) <= Len(o[a])
        /\ Len(ref) - num <= Len(o[b])
    BY <2>1
  <2> HIDE DEF a, b
  <2>3. LET w == BroughtTo(o, a, Len(ref), b, pos, num)
        IN /\ Keeps(w, b, Elements(Replaced(ref, pos, pos + num, <<>>)))
           /\ \A c \in Bufs : Len(w[c]) = Len(o[c])
    BY ONLY <2>2, BroughtOver
  <2> QED
    BY <1>1, <2>3 DEF a, b
<1> HIDE DEF m, d, k
<1>7. Len(m.static) = StaticCapacity /\ Len(m.heap) = Len(x.heap)
  BY <1>4, <1>6, SizesKept
<1> DEFINE b == "static"
           c == StaticCapacity
<1>8. /\ Built(x) /\ b \in {"static", "new"} /\ Keeps(m, b, Elements(d)) /\ c \in Nat
      /\ k \in Nat /\ k <= c /\ Len(m.static) = StaticCapacity /\ Len(m.heap) = Len(x.heap)
      /\ Len(m[b]) = c /\ (b = "new" => c > 0)
  BY <1>1, <1>3, <1>6, <1>7, Static DEF k
<1> DEFINE y == Settle(x, DeallocateIfDyn(x, m), b, c, k)
<1>9. Keeping(y, Elements(d)) /\ y.size = k /\ y.alive = x.alive /\ y.revert = x.revert
  <2> HIDE DEF b, c
  <2> QED
    BY ONLY <1>8, SettledOver
<1> QED
  BY <1>0, <1>5, <1>9 DEF SvHolds, d

\* erase and pop_back.
LEMMA SvErasedHolds ==
  ASSUME NEW x, NEW ref, SvHolds(x, ref), NEW pos \in Nat, NEW num \in Nat \ {0},
         pos + num <= x.size
  PROVE  LET y == ShrinkAt(x, pos, num)
         IN /\ SvHolds(y, Replaced(ref, pos, pos + num, <<>>)) /\ y.alive = x.alive
            /\ y.revert = x.revert
<1> DEFINE want == x.size - num
           d == ChooseData(x, want)
           r == Replaced(ref, pos, pos + num, <<>>)
<1>0. /\ Built(x) /\ x.size \in Nat /\ want \in Nat /\ want <= x.cap /\ ValueSeq(ref)
      /\ Len(ref) = x.size
  <2>1. Built(x) /\ x.size \in Nat /\ x.cap \in Nat /\ x.size <= x.cap /\ ValueSeq(ref)
        /\ Len(ref) = x.size
    BY SvHoldsFacts
  <2> QED
    BY <2>1
<1>1. CASE x.size = num
  <2>1. ShrinkAt(x, pos, num) = Cleared(x)
    BY <1>1 DEF ShrinkAt
  <2>2. r = <<>>
    <3>a. ValueSeq(ref) /\ pos \in Nat /\ num \in Nat /\ pos + num <= Len(ref) /\ Len(ref) = num
      BY <1>0, <1>1
    <3>b. r = Replaced(ref, pos, pos + num, <<>>)
      OBVIOUS
    <3> HIDE DEF r
    <3>c. ValueSeq(r) /\ Len(r) = Len(ref) - num
      BY ONLY <3>a, <3>b, PartErased
    <3>1. ValueSeq(r) /\ Len(r) = 0
      BY ONLY <3>a, <3>c
    <3> QED
      BY <3>1, NoCells DEF ValueSeq
  <2> QED
    BY <2>1, <2>2, ClearedIs
<1>2. CASE x.size # num /\ d.at = Here(x)
  <2>1. ShrinkAt(x, pos, num) = ShrinkInPlace(x, pos, num)
    BY <1>2 DEF ShrinkAt
  <2> QED
    BY <2>1, ShrinkInPlaceIs
<1>3. CASE x.size # num /\ d.at # Here(x)
  <2>1. ShrinkAt(x, pos, num) = ShrinkOver(x, pos, num)
    BY <1>3 DEF ShrinkAt
  <2>2. /\ d.at \in Bufs /\ d.cap \in Nat /\ want <= d.cap
        /\ (d.at = "static" => d.cap = StaticCapacity) /\ (d.at = "heap" => x.dyn)
        /\ (want <= x.cap /\ ~x.dyn => d.at = "static") /\ (want <= x.cap => d.at # "new")
    <3> HIDE DEF want
    <3> QED
      BY <1>0, ChooseDataIs
  <2> HIDE DEF d
  <2>3. x.dyn /\ d.at = "static"
    BY <1>0, <1>3, <2>2, HereIs DEF Bufs, OwnBufs
  <2>4. x.size - num <= StaticCapacity
    BY <2>2, <2>3
  <2> QED
    BY <2>1, <2>3, <2>4, ShrinkOverIs
<1> QED
  BY <1>1, <1>2, <1>3

\* Sequences of values with the same elements are the same.
LEMMA SameValues ==
  ASSUME NEW r, ValueSeq(r), NEW s, ValueSeq(s), Len(r) = Len(s),
         \A l \in 1..Len(r) : r[l] = s[l]
  PROVE  r = s
BY DEF ValueSeq

\* A loop of no rounds does nothing.
LEMMA NoRounds ==
  ASSUME NEW m, NEW rounds, DOMAIN rounds = 1..0
  PROVE  Loop(m, rounds) = m
<1>1. \E w : Rounds(w, m, 0, rounds)
  BY LoopIs
<1> QED
  BY <1>1 DEF Rounds

\* Nor do the loops over no elements.
LEMMA NoneTransferred ==
  ASSUME NEW m, NEW a, NEW from, NEW b, NEW to
  PROVE  MoveAll(m, a, from, b, to, 0) = m /\ CarryAll(m, a, from, b, to, 0) = m
         /\ DestroyAll(m, a, from, 0) = m
BY NoRounds DEF MoveAll, CarryAll, Transfer, DestroyAll

\* All elements move to another buffer.
LEMMA MovedWhole ==
  ASSUME NEW ref, ValueSeq(ref), NEW a \in Bufs, NEW b \in Bufs, a # b,
         NEW m, Keeps(m, a, Elements(ref)), Len(ref) <= Len(m[a]), Len(ref) <= Len(m[b])
  PROVE  LET w == DestroyAll(MoveAll(m, a, 0, b, 0, Len(ref)), a, 0, Len(ref))
         IN Keeps(w, b, Elements(ref)) /\ \A c \in Bufs : Len(w[c]) = Len(m[c])
<1> DEFINE n == Len(ref)
           w == DestroyAll(MoveAll(m, a, 0, b, 0, n), a, 0, n)
<1>1. n \in Nat /\ n - n = 0 /\ n + 0 = n
  BY ValuesAreValues
<1>2. w = MovedTo(m, a, n, b, n, 0)
  BY <1>1, NoneTransferred DEF MovedTo
<1>3. WithHole(ref, n, 0) = Elements(ref)
  BY <1>1 DEF WithHole, Elements
<1>4. /\ ValueSeq(ref) /\ a \in Bufs /\ b \in Bufs /\ a # b /\ Keeps(m, a, Elements(ref))
      /\ n \in Nat /\ n <= Len(ref) /\ 0 \in Nat
      /\ Len(ref) <= Len(m[a]) /\ Len(ref) + 0 <= Len(m[b])
  BY <1>1
<1> DEFINE z == 0
<1>5. /\ ValueSeq(ref) /\ a \in Bufs /\ b \in Bufs /\ a # b /\ Keeps(m, a, Elements(ref))
      /\ n \in Nat /\ n <= Len(ref) /\ z \in Nat
      /\ Len(ref) <= Len(m[a]) /\ Len(ref) + z <= Len(m[b])
  BY <1>4
<1> HIDE DEF n, z, w
<1>6. LET u == MovedTo(m, a, Len(ref), b, n, z)
      IN Keeps(u, b, WithHole(ref, n, z)) /\ \A c \in Bufs : Len(u[c]) = Len(m[c])
  BY ONLY <1>5, MovedOver
<1> QED
  BY <1>2, <1>3, <1>6 DEF n, z, w

\* All elements are brought to another buffer.
LEMMA BroughtWhole ==
  ASSUME NEW ref, ValueSeq(ref), NEW a \in Bufs, NEW b \in Bufs, a # b,
         NEW m, Keeps(m, a, Elements(ref)), Len(ref) <= Len(m[a]), Len(ref) <= Len(m[b])
  PROVE  LET w == CarryAll(m, a, 0, b, 0, Len(ref))
         IN Keeps(w, b, Elements(ref)) /\ \A c \in Bufs : Len(w[c]) = Len(m[c])
<1> DEFINE n == Len(ref)
           w == CarryAll(m, a, 0, b, 0, n)
           z == 0
           d == Replaced(ref, n, n + z, <<>>)
<1>1. n \in Nat /\ n - n - 0 = 0 /\ n + 0 = n
  BY ValuesAreValues
<1>2. w = BroughtTo(m, a, n, b, n, 0)
  <2> DEFINE p == n + 0
             q == n - n - 0
  <2>1. BroughtTo(m, a, n, b, n, 0) = CarryAll(DestroyAll(w, a, n, 0), a, p, b, n, q)
    BY DEF BroughtTo
  <2>2. p = n /\ q = 0
    BY <1>1
  <2> HIDE DEF p, q, w
  <2> QED
    BY <2>1, <2>2, NoneTransferred
<1>3. /\ ValueSeq(ref) /\ a \in Bufs /\ b \in Bufs /\ a # b /\ Keeps(m, a, Elements(ref))
      /\ n \in Nat /\ z \in Nat /\ n + z <= Len(ref)
      /\ Len(ref) <= Len(m[a]) /\ Len(ref) - z <= Len(m[b])
  BY <1>1
<1> HIDE DEF n, z, w
<1>4. d = ref
  <2>1. LET e == Replaced(ref, n, n + z, <<>>)
        IN /\ ValueSeq(e) /\ Len(e) = Len(ref) - z
           /\ \A l \in 1..Len(e) : e[l] = IF l <= n THEN ref[l] ELSE ref[l + z]
    BY ONLY <1>3, PartErased
  <2>2. ValueSeq(d) /\ Len(d) = Len(ref) - z
        /\ \A l \in 1..Len(d) : d[l] = IF l <= n THEN ref[l] ELSE ref[l + z]
    BY <2>1
  <2> HIDE DEF d
  <2>3. Len(d) = Len(ref)
    BY <1>1, <2>2 DEF z, n
  <2>4. \A l \in 1..Len(d) : d[l] = ref[l]
    BY <1>1, <2>2, <2>3 DEF n
  <2> QED
    BY <2>2, <2>3, <2>4, SameValues
<1> HIDE DEF d
<1>5. LET u == BroughtTo(m, a, Len(ref), b, n, z)
      IN /\ Keeps(u, b, Elements(Replaced(ref, n, n + z, <<>>)))
         /\ \A c \in Bufs : Len(u[c]) = Len(m[c])
  BY ONLY <1>3, BroughtOver
<1> QED
  BY <1>2, <1>4, <1>5 DEF n, z, w, d

\* reserve
LEMMA SvReservedHolds ==
  ASSUME NEW x, NEW ref, SvHolds(x, ref), NEW want \in Nat
  PROVE  LET y == Reserved(x, want)
         IN /\ SvHolds(y, ref) /\ y.alive = x.alive /\ y.revert = x.revert
            /\ y.size = x.size /\ want <= y.cap
<1> DEFINE d == ChooseData(x, want)
           a == Here(x)
           s == x.size
           b == d.at
           c == d.cap
           o == Memory(x, NewCells(d))
           m == DestroyAll(MoveAll(o, a, 0, b, 0, s), a, 0, s)
<1>1. /\ Built(x) /\ Keeping(x, Elements(ref)) /\ ValueSeq(ref) /\ Len(ref) = s
      /\ s \in Nat /\ x.cap \in Nat /\ s <= x.cap
  BY SvHoldsFacts
<1>2. CASE want <= x.cap
  BY <1>2 DEF Reserved
<1>3. CASE ~(want <= x.cap)
  <2>0. Reserved(x, want) = Settle(x, DeallocateIfDyn(x, m), b, c, s)
    BY <1>3 DEF Reserved
  <2>1. a \in Bufs /\ a \in OwnBufs
    BY <1>1, HereIs
  <2>2. want > x.cap /\ b = "new"
    <3>1. want > x.cap
      BY <1>1, <1>3
    <3>2. want > x.cap => d.at = "new"
      BY <1>1, ChooseDataIs
    <3> QED
      BY <3>1, <3>2
  <2>3. b # a
    BY <2>1, <2>2 DEF OwnBufs
  <2>4. /\ b \in {"static", "new"} /\ c \in Nat /\ c > 0 /\ want <= c
        /\ Keeps(o, a, Elements(ref)) /\ Len(o.static) = StaticCapacity
        /\ Len(o.heap) = Len(x.heap) /\ Len(o[a]) = x.cap /\ Len(o[b]) = c
    BY <1>1, <2>3, RoomIs
  <2> HIDE DEF o, a, b, c, d
  <2>5. Keeps(m, b, Elements(ref)) /\ \A e \in Bufs : Len(m[e]) = Len(o[e])
    <3>1. /\ ValueSeq(ref) /\ a \in Bufs /\ b \in Bufs /\ a # b /\ Keeps(o, a, Elements(ref))
          /\ Len(ref) <= Len(o[a]) /\ Len(ref) <= Len(o[b])
      BY <1>1, <1>3, <2>1, <2>3, <2>4 DEF Bufs
    <3>2. LET w == DestroyAll(MoveAll(o, a, 0, b, 0, Len(ref)), a, 0, Len(ref))
          IN Keeps(w, b, Elements(ref)) /\ \A e \in Bufs : Len(w[e]) = Len(o[e])
      BY ONLY <3>1, MovedWhole
    <3> QED
      BY <1>1, <3>2
  <2> HIDE DEF m
  <2>6. Len(m.static) = StaticCapacity /\ Len(m.heap) = Len(x.heap) /\ Len(m[b]) = c
    <3>1. b \in Bufs
      BY <2>4 DEF Bufs
    <3> QED
      BY <2>4, <2>5, <3>1, SizesKept
  <2> HIDE DEF s
  <2> DEFINE y == Settle(x, DeallocateIfDyn(x, m), b, c, s)
  <2>7. /\ Keeping(y, Elements(ref)) /\ y.size = s /\ y.cap = c /\ y.alive = x.alive
        /\ y.revert = x.revert
    <3>1. /\ Built(x) /\ b \in {"static", "new"} /\ Keeps(m, b, Elements(ref)) /\ c \in Nat
          /\ s \in Nat /\ s <= c /\ Len(m.static) = StaticCapacity /\ Len(m.heap) = Len(x.heap)
          /\ Len(m[b]) = c /\ (b = "new" => c > 0)
      BY <1>1, <1>3, <2>4, <2>5, <2>6
    <3> QED
      BY ONLY <3>1, SettledOver
  <2> QED
    BY <1>1, <2>0, <2>4, <2>7 DEF SvHolds, s
<1> QED
  BY <1>2, <1>3

\* shrink_to_fit and revert_to_static
LEMMA ShrunkToFitHolds ==
  ASSUME NEW x, NEW ref, SvHolds(x, ref)
  PROVE  LET y == ShrunkToFit(x)
         IN SvHolds(y, ref) /\ y.alive = x.alive /\ y.revert = x.revert
<1> DEFINE s == x.size
           b == IF s < StaticCapacity THEN "static" ELSE "new"
           n == IF b = "new" THEN s ELSE 0
           c == IF b = "new" THEN s ELSE StaticCapacity
           o == Memory(x, n)
           m == CarryAll(o, "heap", 0, b, 0, s)
<1>1. /\ Built(x) /\ Keeping(x, Elements(ref)) /\ ValueSeq(ref) /\ Len(ref) = s
      /\ s \in Nat /\ x.cap \in Nat /\ s <= x.cap
  BY SvHoldsFacts
<1>2. CASE s = x.cap \/ ~x.dyn
  BY <1>2 DEF ShrunkToFit
<1>3. CASE ~(s = x.cap \/ ~x.dyn)
  <2>0. ShrunkToFit(x) = Settle(x, DeallocateIfDyn(x, m), b, c, s)
    BY <1>3 DEF ShrunkToFit, DeallocateIfDyn
  <2>1. Here(x) = "heap" /\ "heap" \in Bufs
    BY <1>1, <1>3, HereIs DEF Bufs
  <2>2. /\ b \in {"static", "new"} /\ b \in Bufs /\ b # "heap" /\ n \in Nat /\ c \in Nat
        /\ s <= c /\ c > 0 /\ (b = "new" => n = c) /\ (b = "static" => c = StaticCapacity)
    BY <1>1, Static DEF Bufs
  <2> HIDE DEF b, n, c
  <2>3. /\ Keeps(o, "heap", Elements(ref)) /\ Len(o.static) = StaticCapacity
        /\ Len(o.heap) = Len(x.heap) /\ Len(o["heap"]) = x.cap /\ Len(o.new) = n
    <3>1. Keeping(x, Elements(ref)) /\ n \in Nat
      BY <1>1, <2>2
    <3>2. /\ Keeps(o, Here(x), Elements(ref)) /\ Len(o.static) = StaticCapacity
          /\ Len(o.heap) = Len(x.heap) /\ Len(o[Here(x)]) = x.cap /\ Len(o.new) = n
      BY ONLY <3>1, MemoryIs
    <3> QED
      BY <2>1, <3>2
  <2> HIDE DEF o
  <2>4. Len(o[b]) = c
    BY <2>2, <2>3
  <2>5. Keeps(m, b, Elements(ref)) /\ \A e \in Bufs : Len(m[e]) = Len(o[e])
    <3> DEFINE a == "heap"
    <3>1. /\ ValueSeq(ref) /\ a \in Bufs /\ b \in Bufs /\ a # b /\ Keeps(o, a, Elements(ref))
          /\ Len(ref) <= Len(o[a]) /\ Len(ref) <= Len(o[b])
      BY <1>1, <2>1, <2>2, <2>3, <2>4
    <3> HIDE DEF a
    <3>2. LET w == CarryAll(o, a, 0, b, 0, Len(ref))
          IN Keeps(w, b, Elements(ref)) /\ \A e \in Bufs : Len(w[e]) = Len(o[e])
      BY ONLY <3>1, BroughtWhole
    <3> QED
      BY <1>1, <3>2 DEF a
  <2> HIDE DEF m
  <2>6. Len(m.static) = StaticCapacity /\ Len(m.heap) = Len(x.heap) /\ Len(m[b]) = c
    BY <2>2, <2>3, <2>4, <2>5, SizesKept
  <2> HIDE DEF s
  <2> DEFINE y == Settle(x, DeallocateIfDyn(x, m), b, c, s)
  <2>7. Keeping(y, Elements(ref)) /\ y.size = s /\ y.alive = x.alive /\ y.revert = x.revert
    <3>1. /\ Built(x) /\ b \in {"static", "new"} /\ Keeps(m, b, Elements(ref)) /\ c \in Nat
          /\ s \in Nat /\ s <= c /\ Len(m.static) = StaticCapacity /\ Len(m.heap) = Len(x.heap)
          /\ Len(m[b]) = c /\ (b = "new" => c > 0)
      BY <1>1, <2>2, <2>5, <2>6
    <3> QED
      BY ONLY <3>1, SettledOver
  <2> QED
    BY <1>1, <2>0, <2>7 DEF SvHolds, s
<1> QED
  BY <1>2, <1>3

\* What resize leaves.
ResizedTo(ref, n, val) == [i \in 1..n |-> IF i <= Len(ref) THEN ref[i] ELSE val]

\* It keeps the elements it has room for, and the rest are the value given.
LEMMA ResizedToIs ==
  ASSUME NEW ref, ValueSeq(ref), NEW n \in Nat, NEW val \in Nat \ {0}
  PROVE  LET d == ResizedTo(ref, n, val)
         IN /\ ValueSeq(d) /\ Len(d) = n
            /\ \A l \in 1..n : d[l] = IF l <= Len(ref) THEN ref[l] ELSE val
<1> DEFINE d == ResizedTo(ref, n, val)
<1>1. ref \in Seq(Nat) /\ Len(ref) \in Nat /\ \A i \in 1..Len(ref) : ref[i] \in Nat /\ ref[i] > 0
  BY DEF ValueSeq
<1>2. ASSUME NEW i \in 1..n
      PROVE  (IF i <= Len(ref) THEN ref[i] ELSE val) \in Nat
             /\ (IF i <= Len(ref) THEN ref[i] ELSE val) > 0
  <2>1. i <= Len(ref) => i \in 1..Len(ref)
    BY <1>1
  <2> QED
    BY <1>1, <2>1
<1>3. d = [i \in 1..n |-> IF i <= Len(ref) THEN ref[i] ELSE val]
  BY DEF ResizedTo
<1> HIDE DEF d
<1>4. d \in [1..n -> Nat] /\ \A i \in 1..n : d[i] > 0
  BY <1>2, <1>3
<1>5. d \in Seq(Nat) /\ Len(d) = n
  BY <1>4
<1> QED
  BY <1>3, <1>4, <1>5 DEF ValueSeq, d

\* resize down: from the last element on they are destroyed.
LEMMA PoppedHolds ==
  ASSUME NEW x, NEW ref, SvHolds(x, ref), NEW n \in Nat, n < x.size, NEW val \in Nat \ {0}
  PROVE  LET rounds == [k \in 1..x.size - n |-> [does |-> "destroy", a |-> Here(x),
                                                 i |-> x.size + 1 - k]]
             y == Settle(x, Loop(Memory(x, 0), rounds), Here(x), x.cap, n)
         IN SvHolds(y, ResizedTo(ref, n, val)) /\ y.alive = x.alive /\ y.revert = x.revert
<1> DEFINE a == Here(x)
           s == x.size
           q == s - n
           o == Memory(x, 0)
           rounds == [k \in 1..q |-> [does |-> "destroy", a |-> a, i |-> s + 1 - k]]
           m == Loop(o, rounds)
           d == ResizedTo(ref, n, val)
<1>1. /\ Built(x) /\ Keeping(x, Elements(ref)) /\ ValueSeq(ref) /\ Len(ref) = s
      /\ s \in Nat /\ x.cap \in Nat /\ s <= x.cap
  BY SvHoldsFacts
<1>2. a \in Bufs
  BY <1>1, HereIs
<1>3. q \in Nat /\ q <= s /\ s - q = n
  BY <1>1
<1>4. /\ Keeps(o, a, Elements(ref)) /\ Len(o.static) = StaticCapacity
      /\ Len(o.heap) = Len(x.heap) /\ Len(o[a]) = x.cap
  <2>1. Keeping(x, Elements(ref)) /\ 0 \in Nat
    BY <1>1
  <2> QED
    BY ONLY <2>1, MemoryIs
<1>5. /\ ValueSeq(d) /\ Len(d) = n
      /\ \A l \in 1..n : d[l] = IF l <= Len(ref) THEN ref[l] ELSE val
  <2>1. ValueSeq(ref) /\ n \in Nat /\ val \in Nat \ {0}
    BY <1>1
  <2> QED
    BY ONLY <2>1, ResizedToIs
<1> HIDE DEF o, a, q, d
<1>6. \A l \in 1..Len(o[a]) : o[a][l] = IF l <= s THEN ref[l] ELSE Raw
  BY <1>1, <1>2, <1>4, ElementCells
<1>7. Holding(m, o, Popped(o, q, a, s))
  <2>1. \A l \in 1..Len(o[a]) : s - q < l /\ l <= s => o[a][l] # Raw
    <3>1. \A l \in 1..s : ref[l] # Raw
      BY <1>1, ValuesAreValues
    <3> QED
      BY <1>1, <1>4, <1>6, <3>1
  <2>2. Fine(o) /\ a \in Bufs /\ s \in Nat /\ q \in Nat /\ q <= s /\ s <= Len(o[a])
    BY <1>1, <1>2, <1>3, <1>4 DEF Keeps
  <2> HIDE DEF s
  <2> QED
    BY ONLY <2>1, <2>2, PoppedIs DEF m, rounds
<1> HIDE DEF m, rounds
<1>8. Fine(m) /\ \A e \in Bufs : Len(m[e]) = Len(o[e])
  BY <1>7 DEF Holding
<1>9. ASSUME NEW c \in Bufs, NEW l \in 1..Len(m[c])
      PROVE  m[c][l] = IF c = a THEN Elements(d)[l] ELSE Raw
  <2>0. l \in 1..Len(o[c]) /\ l \in Nat /\ l >= 1
    <3>1. Len(o[c]) \in Nat
      BY <1>4, MemFacts DEF Keeps, Fine
    <3> QED
      BY <1>8, <3>1
  <2>1. m[c][l] = IF c = a /\ n < l /\ l <= s THEN Raw ELSE o[c][l]
    <3>1. m[c][l] = Popped(o, q, a, s)[c][l]
      BY <1>7, <2>0 DEF Holding
    <3>2. Popped(o, q, a, s)[c][l] = IF c = a /\ s - q < l /\ l <= s THEN Raw ELSE o[c][l]
      BY <2>0 DEF Popped
    <3> QED
      BY <1>3, <3>1, <3>2
  <2>2. CASE c # a
    BY <1>4, <2>0, <2>1, <2>2 DEF Keeps
  <2>3. CASE c = a
    <3>1. Elements(d)[l] = IF l <= n THEN d[l] ELSE Raw
      BY <1>5, <2>0 DEF Elements
    <3>2. l <= n => d[l] = ref[l] /\ l <= s /\ ~(n < l)
      BY <1>1, <1>5, <2>0
    <3>3. ~(l <= n) => n < l
      BY <2>0
    <3> QED
      BY <1>6, <2>0, <2>1, <2>3, <3>1, <3>2, <3>3
  <2> QED
    BY <2>2, <2>3
<1>10. Keeps(m, a, Elements(d))
  BY <1>8, <1>9 DEF Keeps
<1>11. Len(m.static) = StaticCapacity /\ Len(m.heap) = Len(x.heap)
  BY <1>4, <1>8, <1>10, SizesKept
<1> DEFINE y == Settle(x, m, a, x.cap, n)
<1>12. Keeping(y, Elements(d)) /\ y.size = n /\ y.alive = x.alive /\ y.revert = x.revert
  <2>1. /\ Built(x) /\ Keeps(m, Here(x), Elements(d)) /\ n \in Nat /\ n <= x.cap
        /\ Len(m.static) = StaticCapacity /\ Len(m.heap) = Len(x.heap)
    BY <1>1, <1>10, <1>11 DEF a
  <2> QED
    BY ONLY <2>1, SettledHere DEF a
<1> HIDE DEF y
<1>13. SvHolds(y, d)
  BY <1>5, <1>12 DEF SvHolds
<1> QED
  BY <1>12, <1>13 DEF y, m, rounds, o, q, a, d

\* resize up: the new ones are constructed behind the others.
LEMMA TopUpHolds ==
  ASSUME NEW x, NEW ref, SvHolds(x, ref), NEW n \in Nat, x.size <= n, n <= x.cap,
         NEW val \in Nat \ {0}
  PROVE  LET m == ConstructAll(Memory(x, 0), Here(x), x.size, [i \in 1..(n - x.size) |-> val])
             y == Settle(x, m, Here(x), x.cap, n)
         IN SvHolds(y, ResizedTo(ref, n, val)) /\ y.alive = x.alive /\ y.revert = x.revert
<1> DEFINE a == Here(x)
           s == x.size
           q == n - s
           xs == [i \in 1..q |-> val]
           o == Memory(x, 0)
           m == ConstructAll(o, a, s, xs)
           d == ResizedTo(ref, n, val)
<1>1. /\ Built(x) /\ Keeping(x, Elements(ref)) /\ ValueSeq(ref) /\ Len(ref) = s
      /\ s \in Nat /\ x.cap \in Nat /\ s <= x.cap
  BY SvHoldsFacts
<1>2. a \in Bufs
  BY <1>1, HereIs
<1>3. q \in Nat /\ s + q = n
  BY <1>1
<1>4. /\ Keeps(o, a, Elements(ref)) /\ Len(o.static) = StaticCapacity
      /\ Len(o.heap) = Len(x.heap) /\ Len(o[a]) = x.cap
  <2>1. Keeping(x, Elements(ref)) /\ 0 \in Nat
    BY <1>1
  <2> QED
    BY ONLY <2>1, MemoryIs
<1>5. /\ ValueSeq(d) /\ Len(d) = n
      /\ \A l \in 1..n : d[l] = IF l <= Len(ref) THEN ref[l] ELSE val
  <2>1. ValueSeq(ref) /\ n \in Nat /\ val \in Nat \ {0}
    BY <1>1
  <2> QED
    BY ONLY <2>1, ResizedToIs
<1> HIDE DEF o, a, q, d
<1>6. \A l \in 1..Len(o[a]) : o[a][l] = IF l <= s THEN ref[l] ELSE Raw
  BY <1>1, <1>2, <1>4, ElementCells
<1>7. xs \in Seq(Int) /\ Len(xs) = q /\ \A i \in 1..q : xs[i] = val
  BY <1>3
<1> HIDE DEF xs
<1>8. Rewritten(m, o, q, a, s, xs, "none", 0, Raw)
  <2>1. \A l \in 1..Len(o[a]) : s < l /\ l <= s + Len(xs) => o[a][l] = Raw
    BY <1>1, <1>3, <1>4, <1>6, <1>7
  <2>2. Fine(o) /\ a \in Bufs /\ s \in Nat /\ xs \in Seq(Int) /\ s + Len(xs) <= Len(o[a])
    BY <1>1, <1>2, <1>3, <1>4, <1>7 DEF Keeps
  <2>3. Rewritten(ConstructAll(o, a, s, xs), o, Len(xs), a, s, xs, "none", 0, Raw)
    <3> HIDE DEF s
    <3> QED
      BY ONLY <2>1, <2>2, ConstructAllIs
  <2> QED
    BY <1>7, <2>3
<1> HIDE DEF m
<1>9. Fine(m) /\ \A e \in Bufs : Len(m[e]) = Len(o[e])
  BY <1>8 DEF Rewritten
<1>10. ASSUME NEW c \in Bufs, NEW l \in 1..Len(m[c])
       PROVE  m[c][l] = IF c = a THEN Elements(d)[l] ELSE Raw
  <2>0. l \in 1..Len(o[c]) /\ l \in Nat /\ l >= 1 /\ c # "none"
    <3>1. Len(o[c]) \in Nat
      BY <1>4, MemFacts DEF Keeps, Fine
    <3> QED
      BY <1>9, <3>1 DEF Bufs
  <2>1. m[c][l] = IF c = a /\ s < l /\ l <= s + q THEN xs[l - s] ELSE o[c][l]
    BY <1>8, <2>0 DEF Rewritten
  <2>2. CASE c # a
    BY <1>4, <2>0, <2>1, <2>2 DEF Keeps
  <2>3. CASE c = a
    <3>1. Elements(d)[l] = IF l <= n THEN d[l] ELSE Raw
      BY <1>5, <2>0 DEF Elements
    <3>2. l <= n => d[l] = IF l <= s THEN ref[l] ELSE val
      BY <1>1, <1>5, <2>0
    <3>3. s < l /\ l <= n => xs[l - s] = val
      <4>1. s < l /\ l <= n => l - s \in 1..q
        BY <1>1, <1>3, <2>0
      <4> QED
        BY <1>7, <4>1
    <3>4. o[c][l] = IF l <= s THEN ref[l] ELSE Raw
      BY <1>6, <2>0, <2>3
    <3>5. (l <= s <=> ~(s < l)) /\ (l <= s => l <= n) /\ (l <= s + q <=> l <= n)
      BY <1>1, <1>3, <2>0
    <3> HIDE DEF s
    <3> QED
      BY <2>1, <2>3, <3>1, <3>2, <3>3, <3>4, <3>5
  <2> QED
    BY <2>2, <2>3
<1>11. Keeps(m, a, Elements(d))
  BY <1>9, <1>10 DEF Keeps
<1>12. Len(m.static) = StaticCapacity /\ Len(m.heap) = Len(x.heap)
  BY <1>4, <1>9, <1>11, SizesKept
<1> DEFINE y == Settle(x, m, a, x.cap, n)
<1>13. Keeping(y, Elements(d)) /\ y.size = n /\ y.alive = x.alive /\ y.revert = x.revert
  <2>1. /\ Built(x) /\ Keeps(m, Here(x), Elements(d)) /\ n \in Nat /\ n <= x.cap
        /\ Len(m.static) = StaticCapacity /\ Len(m.heap) = Len(x.heap)
    BY <1>1, <1>11, <1>12 DEF a
  <2> QED
    BY ONLY <2>1, SettledHere DEF a
<1> HIDE DEF y
<1>14. SvHolds(y, d)
  BY <1>5, <1>13 DEF SvHolds
<1> QED
  BY <1>13, <1>14 DEF y, m, xs, o, q, a, d

\* resize
LEMMA SvResizedHolds ==
  ASSUME NEW x, NEW ref, SvHolds(x, ref), NEW n \in Nat, NEW val \in Nat \ {0}
  PROVE  LET y == Resized(x, n, val)
         IN SvHolds(y, ResizedTo(ref, n, val)) /\ y.alive = x.alive /\ y.revert = x.revert
<1> DEFINE r == Reserved(x, n)
<1>1. SvHolds(r, ref) /\ r.alive = x.alive /\ r.revert = x.revert /\ n <= r.cap
  BY SvReservedHolds
<1>2. r.size \in Nat
  BY <1>1, SvHoldsFacts
<1> DEFINE rounds == [k \in 1..r.size - n |-> [does |-> "destroy", a |-> Here(r),
                                               i |-> r.size + 1 - k]]
           down == Loop(Memory(r, 0), rounds)
           up == ConstructAll(Memory(r, 0), Here(r), r.size, [i \in 1..(n - r.size) |-> val])
<1>3. Resized(x, n, val) = Settle(r, IF n < r.size THEN down ELSE up, Here(r), r.cap, n)
  BY DEF Resized
<1> HIDE DEF r
<1>4. CASE n < r.size
  <2>1. LET y == Settle(r, down, Here(r), r.cap, n)
        IN SvHolds(y, ResizedTo(ref, n, val)) /\ y.alive = r.alive /\ y.revert = r.revert
    BY <1>1, <1>4, PoppedHolds
  <2> HIDE DEF down
  <2> QED
    BY <1>1, <1>3, <1>4, <2>1
<1>5. CASE ~(n < r.size)
  <2>0. r.size <= n
    BY <1>2, <1>5
  <2>1. LET y == Settle(r, up, Here(r), r.cap, n)
        IN SvHolds(y, ResizedTo(ref, n, val)) /\ y.alive = r.alive /\ y.revert = r.revert
    BY <1>1, <2>0, TopUpHolds
  <2> HIDE DEF up
  <2> QED
    BY <1>1, <1>3, <1>5, <2>1
<1> QED
  BY <1>4, <1>5

\* The elements of a vector are what it holds.
LEMMA ContentsIs ==
  ASSUME NEW x, NEW ref, SvHolds(x, ref)
  PROVE  Contents(x) = ref
<1> DEFINE b == x[Here(x)]
<1>1. /\ Built(x) /\ Keeping(x, Elements(ref)) /\ ValueSeq(ref) /\ Len(ref) = x.size
      /\ x.size \in Nat /\ x.cap \in Nat /\ x.size <= x.cap
  BY SvHoldsFacts
<1>2. Here(x) \in OwnBufs /\ b \in Seq(Int) /\ Len(b) = x.cap
  BY <1>1, HereIs
<1>3. \A l \in 1..x.size : b[l] = ref[l]
  <2>1. ASSUME NEW l \in 1..x.size PROVE b[l] = ref[l]
    <3>1. l \in 1..Len(b) /\ l \in Nat /\ l <= Len(ref)
      BY <1>1, <1>2
    <3>2. b[l] = Elements(ref)[l]
      BY <1>1, <1>2, <3>1 DEF Keeping
    <3> QED
      BY <3>1, <3>2 DEF Elements
  <2> QED
    BY <2>1
<1>4. Contents(x) = SubSeq(b, 1, x.size)
  BY DEF Contents
<1> HIDE DEF b
<1> DEFINE c == Contents(x)
<1>5. c \in Seq(Int) /\ Len(c) = x.size /\ \A l \in 1..x.size : c[l] = b[l]
  <2> DEFINE s == x.size
  <2>1. b \in Seq(Int) /\ s \in Nat /\ s <= Len(b) /\ c = SubSeq(b, 1, s)
    BY <1>1, <1>2, <1>4
  <2> HIDE DEF c, s
  <2>2. SubSeq(b, 1, s) \in Seq(Int) /\ Len(SubSeq(b, 1, s)) = s
    BY ONLY <2>1
  <2>3. \A l \in 1..s : SubSeq(b, 1, s)[l] = b[l]
    BY ONLY <2>1
  <2> QED
    BY <2>1, <2>2, <2>3 DEF s
<1>6. ref \in Seq(Int)
  BY <1>1, ValuesAreValues
<1> HIDE DEF c
<1>7. /\ c \in Seq(Int) /\ ref \in Seq(Int) /\ Len(c) = Len(ref)
      /\ \A l \in 1..Len(ref) : c[l] = ref[l]
  BY <1>1, <1>3, <1>5, <1>6
<1>8. c = ref
  <2>1. c \in [1..Len(ref) -> Int] /\ ref \in [1..Len(ref) -> Int]
    BY ONLY <1>7
  <2>2. \A l \in 1..Len(ref) : c[l] = ref[l]
    BY ONLY <1>7
  <2> QED
    BY ONLY <2>1, <2>2
<1> QED
  BY <1>8 DEF c

\* A vector that has just been constructed.
LEMMA FreshIs ==
  ASSUME NEW r \in 0..StaticCapacity + 1
  PROVE  LET y == Fresh(r)
         IN /\ Keeping(y, Nothing) /\ SvHolds(y, <<>>) /\ y.alive = TRUE /\ y.revert = r
            /\ y.size = 0 /\ y.cap = StaticCapacity /\ Here(y) = "static" /\ y.dyn = FALSE
<1> DEFINE y == Fresh(r)
<1>1. y = [alive |-> TRUE, revert |-> r, dyn |-> FALSE, cap |-> StaticCapacity, size |-> 0,
           static |-> RawCells(StaticCapacity), heap |-> <<>>, sound |-> TRUE]
  <2> DEFINE c == StaticCapacity
             t == RawCells(c)
  <2>1. NoVector = [alive |-> FALSE, revert |-> 0, dyn |-> FALSE, cap |-> c, size |-> 0,
                    static |-> t, heap |-> <<>>, sound |-> TRUE]
    BY DEF NoVector
  <2>2. y = [NoVector EXCEPT !.alive = TRUE, !.revert = r]
    BY DEF Fresh
  <2> HIDE DEF y, c, t
  <2>3. y = [alive |-> TRUE, revert |-> r, dyn |-> FALSE, cap |-> c, size |-> 0,
             static |-> t, heap |-> <<>>, sound |-> TRUE]
    BY ONLY <2>1, <2>2
  <2> QED
    BY <2>3 DEF c, t
<1>2. /\ RawCells(StaticCapacity) \in Seq(Int) /\ Len(RawCells(StaticCapacity)) = StaticCapacity
      /\ \A l \in 1..StaticCapacity : RawCells(StaticCapacity)[l] = Raw
  BY Static, RawCellsAre
<1>3. y \in SvRec
  <2>1. TRUE \in BOOLEAN /\ FALSE \in BOOLEAN /\ 0 \in Nat /\ <<>> \in Seq(Int)
        /\ StaticCapacity \in Nat
    BY Static
  <2> DEFINE t == RawCells(StaticCapacity)
  <2>2. t \in Seq(Int) /\ y = [alive |-> TRUE, revert |-> r, dyn |-> FALSE,
                               cap |-> StaticCapacity, size |-> 0,
                               static |-> t, heap |-> <<>>, sound |-> TRUE]
    BY <1>1, <1>2
  <2> HIDE DEF y, t
  <2> QED
    BY <2>1, <2>2 DEF SvRec
<1> HIDE DEF y
<1>4. /\ y.alive = TRUE /\ y.revert = r /\ y.dyn = FALSE /\ y.cap = StaticCapacity /\ y.size = 0
      /\ y.static = RawCells(StaticCapacity) /\ y.heap = <<>> /\ y.sound = TRUE
  BY <1>1
<1>5. Built(y)
  BY <1>2, <1>3, <1>4, Static DEF Built
<1>6. Here(y) = "static"
  BY <1>4 DEF Here
<1>7. ASSUME NEW c \in OwnBufs, NEW l \in 1..Len(y[c])
      PROVE  y[c][l] = IF c = Here(y) THEN Nothing[l] ELSE Raw
  <2>1. CASE c = "static"
    <3>1. y[c] = RawCells(StaticCapacity)
      BY <1>4, <2>1
    <3>2. y[c][l] = Raw /\ l \in Nat
      BY <1>2, <3>1, Static
    <3> QED
      BY <3>2 DEF Nothing
  <2>2. CASE c = "heap"
    <3>1. y[c] = <<>> /\ Len(<<>>) = 0
      BY <1>4, <2>2
    <3> QED
      BY <3>1
  <2> QED
    BY <2>1, <2>2 DEF OwnBufs
<1>8. Keeping(y, Nothing)
  BY <1>5, <1>7 DEF Keeping
<1> QED
  BY <1>4, <1>6, <1>8, NothingHeld DEF y

\* An allocation changes hands.
LEMMA TakenDynIs ==
  ASSUME NEW x, Keeping(x, Nothing), Here(x) = "static", NEW w, NEW ref, SvHolds(w, ref), w.dyn
  PROVE  LET y == Taken(x, w)
         IN SvHolds(y, ref) /\ y.alive = x.alive /\ y.revert = x.revert
<1> DEFINE y == Taken(x, w)
<1>1. Built(x) /\ x \in SvRec /\ x.sound /\ Len(x.static) = StaticCapacity
  BY DEF Keeping, Built
<1>2. /\ Built(w) /\ w \in SvRec /\ Keeping(w, Elements(ref)) /\ ValueSeq(ref)
      /\ Len(ref) = w.size /\ w.size <= w.cap /\ w.cap > 0 /\ Len(w.heap) = w.cap
  BY SvHoldsFacts DEF Built
<1>3. y = [alive |-> x.alive, revert |-> x.revert, dyn |-> TRUE, cap |-> w.cap,
           size |-> w.size, static |-> x.static, heap |-> w.heap, sound |-> x.sound]
  <2>1. x = [alive |-> x.alive, revert |-> x.revert, dyn |-> x.dyn, cap |-> x.cap,
             size |-> x.size, static |-> x.static, heap |-> x.heap, sound |-> x.sound]
    BY <1>1, SvFields
  <2>2. y = [x EXCEPT !.dyn = TRUE, !.cap = w.cap, !.size = w.size, !.heap = w.heap]
    BY DEF Taken
  <2> HIDE DEF y
  <2> QED
    BY <2>1, <2>2
<1> HIDE DEF y
<1>4. y \in SvRec
  <2>1. /\ x.alive \in BOOLEAN /\ x.revert \in 0..StaticCapacity + 1 /\ x.static \in Seq(Int)
        /\ x.sound \in BOOLEAN
    BY <1>1, SvFields
  <2>2. w.cap \in Nat /\ w.size \in Nat /\ w.heap \in Seq(Int)
    BY <1>2, SvFields
  <2> DEFINE t == x.static
             h == w.heap
             c == w.cap
             s == w.size
             u == x.sound
  <2>3. /\ x.alive \in BOOLEAN /\ x.revert \in 0..StaticCapacity + 1 /\ t \in Seq(Int)
        /\ u \in BOOLEAN /\ c \in Nat /\ s \in Nat /\ h \in Seq(Int) /\ TRUE \in BOOLEAN
    BY <2>1, <2>2
  <2>4. y = [alive |-> x.alive, revert |-> x.revert, dyn |-> TRUE, cap |-> c, size |-> s,
             static |-> t, heap |-> h, sound |-> u]
    BY <1>3
  <2> HIDE DEF t, h, c, s, u
  <2>5. [alive |-> x.alive, revert |-> x.revert, dyn |-> TRUE, cap |-> c, size |-> s,
         static |-> t, heap |-> h, sound |-> u] \in SvRec
    BY ONLY <2>3, SvFields
  <2> QED
    BY ONLY <2>4, <2>5
<1>5. /\ y.alive = x.alive /\ y.revert = x.revert /\ y.dyn = TRUE /\ y.cap = w.cap
      /\ y.size = w.size /\ y.static = x.static /\ y.heap = w.heap /\ y.sound = x.sound
  BY <1>3
<1>6. Built(y)
  BY <1>1, <1>2, <1>4, <1>5 DEF Built
<1>7. Here(y) = "heap" /\ Here(w) = "heap"
  BY <1>5 DEF Here
<1>8. ASSUME NEW c \in OwnBufs, NEW l \in 1..Len(y[c])
      PROVE  y[c][l] = IF c = Here(y) THEN Elements(ref)[l] ELSE Raw
  <2>1. CASE c = "static"
    <3>1. y[c] = x[c] /\ c = Here(x) /\ c # Here(y) /\ x[c] \in Seq(Int)
      BY <1>1, <1>5, <1>7, <2>1, SvFields
    <3>2. y[c][l] = Nothing[l] /\ l \in Nat
      BY <3>1 DEF Keeping
    <3> QED
      BY <3>1, <3>2 DEF Nothing
  <2>2. CASE c = "heap"
    <3>1. y[c] = w[c] /\ c = Here(y) /\ c = Here(w)
      BY <1>5, <1>7, <2>2
    <3> QED
      BY <1>2, <3>1 DEF Keeping
  <2> QED
    BY <2>1, <2>2 DEF OwnBufs
<1>9. SvHolds(y, ref)
  BY <1>2, <1>5, <1>6, <1>8 DEF SvHolds, Keeping
<1> QED
  BY <1>5, <1>9 DEF y

\* The elements move from one buffer inside a vector to the other.
LEMMA TakenStaticIs ==
  ASSUME NEW x, Keeping(x, Nothing), Here(x) = "static", NEW w, NEW ref, SvHolds(w, ref), ~w.dyn
  PROVE  LET y == Taken(x, w)
         IN SvHolds(y, ref) /\ y.alive = x.alive /\ y.revert = x.revert
<1> DEFINE s == w.size
           m == [static |-> x.static, heap |-> x.heap, new |-> w.static, sound |-> x.sound]
           n == DestroyAll(MoveAll(m, "new", 0, "static", 0, s), "new", 0, s)
           e == [n EXCEPT !.new = <<>>]
           z == Settle(x, e, "static", w.cap, s)
           clean == n.sound /\ \A i \in DOMAIN n.new : n.new[i] = Raw
           y == [z EXCEPT !.sound = clean]
<1>0. Taken(x, w) = y
  BY DEF Taken
<1>1. /\ Built(x) /\ x \in SvRec /\ x.sound /\ Len(x.static) = StaticCapacity
      /\ Len(x.heap) = 0
  BY HereIs DEF Keeping, Built
<1>2. /\ Built(w) /\ w \in SvRec /\ Keeping(w, Elements(ref)) /\ ValueSeq(ref)
      /\ Len(ref) = s /\ s \in Nat /\ s <= w.cap /\ w.cap = StaticCapacity
      /\ Len(w.static) = StaticCapacity /\ Here(w) = "static"
  BY SvHoldsFacts, HereIs DEF Built
<1>3. x.static \in Seq(Int) /\ x.heap \in Seq(Int) /\ w.static \in Seq(Int)
  BY <1>1, <1>2, SvFields
<1>4. /\ m \in Mem /\ m.static = x.static /\ m.heap = x.heap /\ m.new = w.static /\ m.sound
  <2>1. x.sound \in BOOLEAN
    BY <1>1
  <2> QED
    BY <1>1, <1>3, <2>1, MemFields
<1> HIDE DEF m
<1>5. Keeps(m, "new", Elements(ref))
  <2>1. ASSUME NEW c \in Bufs, NEW l \in 1..Len(m[c])
        PROVE  m[c][l] = IF c = "new" THEN Elements(ref)[l] ELSE Raw
    <3>1. CASE c = "new"
      <4>1. m[c] = w["static"] /\ "static" \in OwnBufs /\ "static" = Here(w)
        BY <1>2, <1>4, <3>1 DEF OwnBufs
      <4> QED
        BY <1>2, <3>1, <4>1 DEF Keeping
    <3>2. CASE c = "static"
      <4>1. m[c] = x["static"] /\ "static" \in OwnBufs /\ l \in Nat
        BY <1>3, <1>4, <3>2 DEF OwnBufs
      <4>2. m[c][l] = Nothing[l]
        BY <4>1 DEF Keeping
      <4> QED
        BY <3>2, <4>1, <4>2 DEF Nothing
    <3>3. CASE c = "heap"
      <4>1. m[c] = x.heap
        BY <1>4, <3>3
      <4> QED
        BY <1>1, <4>1
    <3> QED
      BY <3>1, <3>2, <3>3 DEF Bufs
  <2> QED
    BY <1>4, <2>1 DEF Keeps, Fine
<1>6. Keeps(n, "static", Elements(ref)) /\ \A c \in Bufs : Len(n[c]) = Len(m[c])
  <2> DEFINE a == "new"
             b == "static"
  <2>1. /\ ValueSeq(ref) /\ a \in Bufs /\ b \in Bufs /\ a # b /\ Keeps(m, a, Elements(ref))
        /\ Len(ref) <= Len(m[a]) /\ Len(ref) <= Len(m[b])
    BY <1>1, <1>2, <1>4, <1>5 DEF Bufs
  <2> HIDE DEF a, b
  <2>2. LET v == DestroyAll(MoveAll(m, a, 0, b, 0, Len(ref)), a, 0, Len(ref))
        IN Keeps(v, b, Elements(ref)) /\ \A c \in Bufs : Len(v[c]) = Len(m[c])
    BY ONLY <2>1, MovedWhole
  <2> QED
    BY <1>2, <2>2 DEF a, b
<1> HIDE DEF n
<1>7. Len(n.static) = StaticCapacity /\ Len(n.heap) = 0 /\ n \in Mem /\ n.sound
  <2>1. n \in Mem /\ n.sound
    BY <1>6 DEF Keeps, Fine
  <2>2. Len(n.static) = Len(m.static) /\ Len(n.heap) = Len(m.heap)
    BY <1>5, <1>6, SizesKept
  <2> QED
    BY <1>1, <1>4, <2>1, <2>2
<1>8. clean = TRUE
  <2>1. "new" \in Bufs /\ "new" # "static" /\ n.new \in Seq(Int)
    BY <1>7, MemFields DEF Bufs
  <2>2. \A i \in DOMAIN n.new : n.new[i] = Raw
    BY <1>6, <2>1 DEF Keeps
  <2> QED
    BY <1>7, <2>2
<1>9. e = [static |-> n.static, heap |-> n.heap, new |-> <<>>, sound |-> n.sound]
  <2>1. n = [static |-> n.static, heap |-> n.heap, new |-> n.new, sound |-> n.sound]
    BY <1>7, MemFields
  <2> QED
    BY <2>1
<1> HIDE DEF e
<1>10. e \in Mem /\ e.static = n.static /\ e.heap = n.heap /\ e.new = <<>> /\ e.sound
  <2>1. n.static \in Seq(Int) /\ n.heap \in Seq(Int) /\ n.sound \in BOOLEAN /\ <<>> \in Seq(Int)
    BY <1>7, MemFields
  <2> QED
    BY <1>7, <1>9, <2>1, MemFields
<1>11. Keeps(e, "static", Elements(ref))
  <2>1. ASSUME NEW c \in Bufs, NEW l \in 1..Len(e[c])
        PROVE  e[c][l] = IF c = "static" THEN Elements(ref)[l] ELSE Raw
    <3>1. CASE c = "new"
      <4>1. e[c] = <<>> /\ Len(<<>>) = 0
        BY <1>10, <3>1
      <4> QED
        BY <4>1
    <3>2. CASE c # "new"
      <4>1. e[c] = n[c]
        BY <1>10, <3>2 DEF Bufs
      <4> QED
        BY <1>6, <4>1 DEF Keeps
    <3> QED
      BY <3>1, <3>2
  <2> QED
    BY <1>10, <2>1 DEF Keeps, Fine
<1>12. /\ Keeping(z, Elements(ref)) /\ z.size = s /\ z.alive = x.alive /\ z.revert = x.revert
  <2> DEFINE a == "static"
             c == w.cap
  <2>1. /\ Built(x) /\ a \in Bufs /\ Keeps(e, a, Elements(ref)) /\ Len(e.static) = StaticCapacity
        /\ c \in Nat /\ s \in Nat /\ s <= c /\ Len(e[a]) = c /\ (a # "static" => c > 0)
        /\ (a # "heap" => e.heap = <<>>)
    <3>1. n.heap \in Seq(Int) /\ n.heap = <<>>
      BY <1>7, MemFields, NoCells
    <3> QED
      BY <1>1, <1>2, <1>7, <1>10, <1>11, <3>1, Static DEF Bufs
  <2> HIDE DEF a, c, s
  <2>2. LET v == Settle(x, e, a, c, s)
        IN Keeping(v, Elements(ref)) /\ v.size = s /\ v.alive = x.alive /\ v.revert = x.revert
    BY ONLY <2>1, SettleIs
  <2> QED
    BY <2>2 DEF a, c
<1> HIDE DEF z, clean
<1>13. y = z
  <2>1. z \in SvRec /\ z.sound = TRUE
    BY <1>12 DEF Keeping, Built, SvRec
  <2>2. z = [alive |-> z.alive, revert |-> z.revert, dyn |-> z.dyn, cap |-> z.cap,
             size |-> z.size, static |-> z.static, heap |-> z.heap, sound |-> z.sound]
    BY <2>1, SvFields
  <2> QED
    BY <1>8, <2>1, <2>2
<1>14. SvHolds(z, ref)
  BY <1>2, <1>12 DEF SvHolds
<1> QED
  BY <1>0, <1>12, <1>13, <1>14

\* take_impl
LEMMA TakenIs ==
  ASSUME NEW x, Keeping(x, Nothing), Here(x) = "static", NEW w, NEW ref, SvHolds(w, ref)
  PROVE  LET y == Taken(x, w)
         IN SvHolds(y, ref) /\ y.alive = x.alive /\ y.revert = x.revert
BY TakenDynIs, TakenStaticIs

\* Sequences of numbers with the same elements are the same.
LEMMA SameElements ==
  ASSUME NEW s \in Seq(Nat), NEW t \in Seq(Nat), Len(s) = Len(t), \A i \in 1..Len(s) : s[i] = t[i]
  PROVE  s = t
OBVIOUS

\* What is left when a range is taken out.
LEMMA TakenOut ==
  ASSUME NEW ref \in Seq(Nat), NEW a \in Nat, NEW c \in Nat, a <= c, c <= Len(ref)
  PROVE  Replaced(ref, a, c, <<>>) = SubSeq(ref, 1, a) \o SubSeq(ref, c + 1, Len(ref))
<1> DEFINE head == SubSeq(ref, 1, a)
           tail == SubSeq(ref, c + 1, Len(ref))
<1>1. head \in Seq(Nat)
  OBVIOUS
<1>2. Replaced(ref, a, c, <<>>) = head \o <<>> \o tail
  BY DEF Replaced
<1> HIDE DEF head, tail
<1>3. head \o <<>> = head
  BY <1>1
<1> QED
  BY <1>2, <1>3 DEF head, tail

\* What is left without the last element.
LEMMA FrontIs ==
  ASSUME NEW ref \in Seq(Nat), Len(ref) > 0
  PROVE  Front(ref) = Replaced(ref, Len(ref) - 1, Len(ref), <<>>)
<1> DEFINE n == Len(ref)
           head == SubSeq(ref, 1, n - 1)
           tail == SubSeq(ref, n + 1, n)
<1>1. n \in Nat /\ n - 1 \in Nat /\ n - 1 <= n
  OBVIOUS
<1>2. Replaced(ref, n - 1, n, <<>>) = head \o tail
  <2> DEFINE a == n - 1
  <2>1. ref \in Seq(Nat) /\ a \in Nat /\ n \in Nat /\ a <= n /\ n <= Len(ref)
    BY <1>1
  <2> HIDE DEF a, n
  <2>2. Replaced(ref, a, n, <<>>) = SubSeq(ref, 1, a) \o SubSeq(ref, n + 1, Len(ref))
    BY ONLY <2>1, TakenOut
  <2> QED
    BY <2>2 DEF a, n
<1>3. head \in Seq(Nat) /\ tail = <<>>
  BY <1>1
<1>4. Front(ref) = head
  BY DEF Front
<1> HIDE DEF head, tail
<1>5. head \o <<>> = head
  BY <1>3
<1> QED
  BY <1>2, <1>3, <1>4, <1>5

\* What there is with one more element.
LEMMA AppendIs ==
  ASSUME NEW ref \in Seq(Nat), NEW val \in Nat
  PROVE  Append(ref, val) = Replaced(ref, Len(ref), Len(ref), <<val>>)
<1> DEFINE n == Len(ref)
           one == <<val>>
           d == Replaced(ref, n, n, one)
           e == Append(ref, val)
<1>1. n \in Nat /\ n <= Len(ref) /\ one \in Seq(Nat) /\ Len(one) = 1 /\ one[1] = val
  OBVIOUS
<1>2. /\ d \in Seq(Nat) /\ Len(d) = n + Len(one) + (Len(ref) - n)
      /\ (\A i \in 1..n : d[i] = ref[i])
      /\ (\A i \in 1..Len(one) : d[n + i] = one[i])
  <2> DEFINE k == Len(ref)
  <2> HIDE DEF one, d, n
  <2>1. ref \in Seq(Nat) /\ one \in Seq(Nat) /\ n \in Nat /\ n <= n /\ n <= Len(ref)
    BY <1>1
  <2>2. ReplacedWith(Replaced(ref, n, n, one), ref, n, n, one)
    BY ONLY <2>1, SplicedIs
  <2> QED
    BY ONLY <2>2 DEF d, ReplacedWith
<1> HIDE DEF d
<1>3. Len(d) = n + 1 /\ d[n + 1] = val
  BY <1>1, <1>2
<1>4. e \in Seq(Nat) /\ Len(e) = n + 1 /\ e[n + 1] = val /\ \A i \in 1..n : e[i] = ref[i]
  OBVIOUS
<1> HIDE DEF e
<1>5. \A i \in 1..n + 1 : d[i] = e[i]
  <2>1. ASSUME NEW i \in 1..n + 1 PROVE d[i] = e[i]
    <3>1. CASE i = n + 1
      BY <1>3, <1>4, <3>1
    <3>2. CASE i # n + 1
      <4>1. i \in 1..n
        BY <1>1, <3>2
      <4> QED
        BY <1>2, <1>4, <4>1
    <3> QED
      BY <3>1, <3>2
  <2> QED
    BY <2>1
<1> HIDE DEF n
<1> HIDE DEF one
<1>6. d \in Seq(Nat) /\ e \in Seq(Nat) /\ Len(d) = Len(e) /\ \A i \in 1..Len(d) : d[i] = e[i]
  BY <1>2, <1>3, <1>4, <1>5
<1>7. d = e
  BY ONLY <1>6, SameElements
<1> QED
  BY <1>7 DEF d, e, n, one

\* What calls are given.
LEMMA RangesAre ==
  ASSUME NEW xs \in BoundedSeq(SvValues, 2)
  PROVE  ValueSeq(xs) /\ Len(xs) \in Nat /\ (xs # <<>> => Len(xs) > 0)
<1>1. PICK n \in 0..2 : xs \in [1..n -> SvValues]
  BY Zenon DEF BoundedSeq, SeqOf
<1>2. SvValues \subseteq Nat \ {0}
  BY SvAssumption
<1>3. n \in Nat /\ xs \in [1..n -> Nat \ {0}]
  <2>1. n \in Nat
    BY <1>1
  <2> DEFINE T == Nat \ {0}
             I == 1..n
  <2>2. SvValues \subseteq T /\ xs \in [I -> SvValues]
    BY <1>1, <1>2
  <2> HIDE DEF T, I
  <2>3. xs \in [I -> T]
    BY ONLY <2>2
  <2> QED
    BY <2>1, <2>3 DEF T, I
<1>4. xs \in Seq(Nat \ {0}) /\ Len(xs) = n
  BY <1>3
<1>5. xs \in Seq(Nat) /\ \A i \in 1..Len(xs) : xs[i] > 0
  BY <1>4
<1>6. xs # <<>> => Len(xs) > 0
  BY <1>4
<1> QED
  BY <1>4, <1>5, <1>6, <1>3 DEF ValueSeq

\* The destructor leaves what was there before the constructor.
LEMMA DestructedIs ==
  ASSUME NEW x, NEW ref, SvHolds(x, ref)
  PROVE  [Released(x) EXCEPT !.alive = FALSE, !.revert = 0] = NoVector
<1> DEFINE y == Released(x)
<1>1. /\ Keeping(y, Nothing) /\ y.size = 0 /\ Here(y) = "static" /\ y.cap = StaticCapacity
  BY ReleasedIs
<1> HIDE DEF y
<1>2. Built(y) /\ y \in SvRec /\ y.sound /\ Len(y.static) = StaticCapacity
  BY <1>1 DEF Keeping, Built
<1>3. /\ y.static \in Seq(Int) /\ y.heap \in Seq(Int) /\ y.sound = TRUE
  BY <1>2, SvFields
<1>4. y.dyn = FALSE
  <2>1. ~y.dyn /\ y.dyn \in BOOLEAN
    BY <1>1, <1>2, HereIs, SvFields
  <2> QED
    BY <2>1
<1>5. y.heap = <<>>
  BY <1>2, <1>3, <1>4, NoCells DEF Built
<1>6. y.static = RawCells(StaticCapacity)
  <2> DEFINE s == y.static
             t == RawCells(StaticCapacity)
  <2>1. /\ t \in Seq(Int) /\ Len(t) = StaticCapacity
        /\ \A l \in 1..StaticCapacity : t[l] = Raw
    BY Static, RawCellsAre
  <2>2. \A l \in 1..Len(s) : s[l] = Raw
    <3>1. ASSUME NEW l \in 1..Len(s) PROVE s[l] = Raw
      <4>1. "static" \in OwnBufs /\ s = y["static"] /\ l \in Nat
        BY <1>2, Static DEF OwnBufs
      <4>2. s[l] = Nothing[l]
        BY <1>1, <4>1 DEF Keeping
      <4> QED
        BY <4>1, <4>2 DEF Nothing
    <3> QED
      BY <3>1
  <2>3. s \in Seq(Int) /\ Len(s) = StaticCapacity
    BY <1>2, <1>3
  <2> HIDE DEF s, t
  <2>5. t \in Seq(Int) /\ s \in Seq(Int) /\ Len(t) = Len(s) /\ \A l \in 1..Len(s) : t[l] = s[l]
    BY <2>1, <2>2, <2>3
  <2>4. s = t
    BY ONLY <2>5
  <2> QED
    BY <2>4 DEF s, t
<1>7. y = [alive |-> y.alive, revert |-> y.revert, dyn |-> y.dyn, cap |-> y.cap,
           size |-> y.size, static |-> y.static, heap |-> y.heap, sound |-> y.sound]
  BY <1>2, SvFields
<1> DEFINE c == StaticCapacity
           t == RawCells(StaticCapacity)
<1>8. y.cap = c /\ y.static = t /\ y.size = 0 /\ y.heap = <<>> /\ y.dyn = FALSE /\ y.sound = TRUE
  BY <1>1, <1>3, <1>4, <1>5, <1>6
<1>9. NoVector = [alive |-> FALSE, revert |-> 0, dyn |-> FALSE, cap |-> c, size |-> 0,
                  static |-> t, heap |-> <<>>, sound |-> TRUE]
  BY DEF NoVector
<1> HIDE DEF c, t
<1>10. [y EXCEPT !.alive = FALSE, !.revert = 0] = NoVector
  <2> DEFINE h == <<>>
             u == TRUE
             z == 0
             a == y.alive
             r == y.revert
             e == FALSE
  <2>1. y = [alive |-> a, revert |-> r, dyn |-> e, cap |-> c, size |-> z, static |-> t,
             heap |-> h, sound |-> u]
    BY ONLY <1>7, <1>8
  <2>2. NoVector = [alive |-> e, revert |-> z, dyn |-> e, cap |-> c, size |-> z,
                    static |-> t, heap |-> h, sound |-> u]
    BY <1>9
  <2> DEFINE q == [y EXCEPT !.alive = e, !.revert = z]
  <2>3. q = [y EXCEPT !.alive = e, !.revert = z]
    OBVIOUS
  <2> HIDE DEF h, u, z, a, r, e, q
  <2>4. q = [alive |-> e, revert |-> z, dyn |-> e, cap |-> c, size |-> z, static |-> t,
             heap |-> h, sound |-> u]
    BY ONLY <2>1, <2>3
  <2>5. q = NoVector
    BY ONLY <2>2, <2>4
  <2> QED
    BY ONLY <2>5 DEF e, z, q
<1> QED
  BY <1>10 DEF y

-----------------------------------------------------------------------------
\* The inductive invariant: a vector holds what a standard vector would, or is not there.
SvIs(x, ref) == IF x.alive THEN SvHolds(x, ref) ELSE x = NoVector /\ ref = <<>>
SvInv ==
  /\ DOMAIN sv = Vectors /\ DOMAIN svRef = Vectors
  /\ \A v \in Vectors : SvIs(sv[v], svRef[v])

\* What is known of a vector that is there.
LEMMA LiveFacts ==
  ASSUME SvInv, NEW v \in Vectors, Live(v)
  PROVE  /\ SvHolds(sv[v], svRef[v]) /\ sv[v].alive = TRUE /\ ValueSeq(svRef[v])
         /\ Len(svRef[v]) = Len0(v) /\ sv[v].size = Len0(v) /\ Len0(v) \in Nat
         /\ svRef[v] \in Seq(Nat) /\ sv[v].revert \in 0..StaticCapacity + 1
         /\ Contents(sv[v]) = svRef[v]
<1>1. SvHolds(sv[v], svRef[v])
  BY DEF SvInv, SvIs, Live
<1>2. /\ Built(sv[v]) /\ ValueSeq(svRef[v]) /\ Len(svRef[v]) = Len0(v) /\ sv[v].size = Len0(v)
      /\ Len0(v) \in Nat
  BY <1>1, SvHoldsFacts DEF Len0
<1>3. sv[v].alive = TRUE /\ sv[v].revert \in 0..StaticCapacity + 1
  <2>1. sv[v] \in SvRec
    BY <1>2 DEF Built
  <2>2. sv[v].alive \in BOOLEAN /\ sv[v].revert \in 0..StaticCapacity + 1
    BY <2>1, SvFields
  <2> QED
    BY <2>2 DEF Live
<1>4. svRef[v] \in Seq(Nat)
  BY <1>2 DEF ValueSeq
<1>5. Contents(sv[v]) = svRef[v]
  BY <1>1, ContentsIs
<1> QED
  BY <1>1, <1>2, <1>3, <1>4, <1>5

\* A call on one vector.
LEMMA OneSvStep ==
  ASSUME SvInv, NEW v \in Vectors, NEW x, NEW ref, SvIs(x, ref), SvUpdate(v, x, ref)
  PROVE  SvInv'
<1>1. sv' = [sv EXCEPT ![v] = x] /\ svRef' = [svRef EXCEPT ![v] = ref]
  BY DEF SvUpdate
<1>2. DOMAIN sv' = Vectors /\ DOMAIN svRef' = Vectors
  BY <1>1 DEF SvInv
<1>3. ASSUME NEW u \in Vectors PROVE SvIs(sv'[u], svRef'[u])
  <2>1. CASE u = v
    <3>1. sv'[u] = x /\ svRef'[u] = ref
      BY <1>1, <2>1 DEF SvInv
    <3> QED
      BY <3>1
  <2>2. CASE u # v
    <3>1. sv'[u] = sv[u] /\ svRef'[u] = svRef[u]
      BY <1>1, <2>2 DEF SvInv
    <3>2. SvIs(sv[u], svRef[u])
      BY DEF SvInv
    <3> QED
      BY <3>1, <3>2
  <2> QED
    BY <2>1, <2>2
<1> QED
  BY <1>2, <1>3 DEF SvInv

\* A call that leaves the vector holding something.
LEMMA HeldStep ==
  ASSUME SvInv, NEW v \in Vectors, NEW x, NEW ref, SvHolds(x, ref), x.alive, SvUpdate(v, x, ref)
  PROVE  SvInv'
<1>1. SvIs(x, ref)
  BY DEF SvIs
<1> QED
  BY <1>1, OneSvStep

\* A call that takes what another vector has.
LEMMA TwoSvStep ==
  ASSUME SvInv, NEW v \in Vectors, NEW w \in Vectors, v # w, NEW x, NEW ref, SvHolds(x, ref),
         x.alive, NEW y, SvHolds(y, <<>>), y.alive,
         sv' = [sv EXCEPT ![v] = x, ![w] = y], svRef' = [svRef EXCEPT ![v] = ref, ![w] = <<>>]
  PROVE  SvInv'
<1>1. SvIs(x, ref) /\ SvIs(y, <<>>)
  BY DEF SvIs
<1>2. DOMAIN sv' = Vectors /\ DOMAIN svRef' = Vectors
  BY DEF SvInv
<1>3. ASSUME NEW u \in Vectors PROVE SvIs(sv'[u], svRef'[u])
  <2>1. CASE u = v
    <3>1. sv'[u] = x /\ svRef'[u] = ref
      BY <2>1 DEF SvInv
    <3> QED
      BY <1>1, <3>1
  <2>2. CASE u = w
    <3>1. sv'[u] = y /\ svRef'[u] = <<>>
      BY <2>2 DEF SvInv
    <3> QED
      BY <1>1, <3>1
  <2>3. CASE u # v /\ u # w
    <3>1. sv'[u] = sv[u] /\ svRef'[u] = svRef[u]
      BY <2>3 DEF SvInv
    <3>2. SvIs(sv[u], svRef[u])
      BY DEF SvInv
    <3> QED
      BY <3>1, <3>2
  <2> QED
    BY <2>1, <2>2, <2>3
<1> QED
  BY <1>2, <1>3 DEF SvInv

\* The constructors from values, and the destructor.
LEMMA SvMadeHolds ==
  ASSUME SvInv, NEW v \in Vectors, SvConstructFrom(v) \/ SvDestruct(v)
  PROVE  SvInv'
<1>1. CASE SvConstructFrom(v)
  <2>1. PICK r \in Reverts, xs \in BoundedSeq(SvValues, 2) : SvUpdate(v, Assigned(Fresh(r), xs), xs)
    BY <1>1 DEF SvConstructFrom
  <2>2. r \in 0..StaticCapacity + 1 /\ ValueSeq(xs)
    BY Static, RangesAre
  <2> DEFINE y == Fresh(r)
  <2>3. Keeping(y, Nothing) /\ y.alive = TRUE
    BY <2>2, FreshIs
  <2> HIDE DEF y
  <2>4. SvHolds(Assigned(y, xs), xs) /\ Assigned(y, xs).alive
    BY <2>2, <2>3, AssignedIs
  <2> QED
    BY <2>1, <2>4, HeldStep DEF y
<1>2. CASE SvDestruct(v)
  <2>1. /\ Live(v)
        /\ SvUpdate(v, [Released(sv[v]) EXCEPT !.alive = FALSE, !.revert = 0], <<>>)
    BY <1>2 DEF SvDestruct
  <2>2. [Released(sv[v]) EXCEPT !.alive = FALSE, !.revert = 0] = NoVector
    BY <2>1, LiveFacts, DestructedIs
  <2>3. SvIs(NoVector, <<>>)
    BY DEF SvIs, NoVector
  <2> QED
    BY <2>1, <2>2, <2>3, OneSvStep
<1> QED
  BY <1>1, <1>2

\* The calls on one vector that keep or replace all its elements.
LEMMA SvKeptHolds ==
  ASSUME SvInv, NEW v \in Vectors,
         SvAssign(v) \/ SvReserve(v) \/ SvShrinkToFit(v) \/ SvRevertToStatic(v) \/ SvClear(v)
  PROVE  SvInv'
<1> DEFINE x == sv[v]
           ref == svRef[v]
<1>1. Live(v)
  BY DEF SvAssign, SvReserve, SvShrinkToFit, SvRevertToStatic, SvClear
<1>2. SvHolds(x, ref) /\ x.alive
  BY <1>1, LiveFacts
<1>3. CASE SvAssign(v)
  <2>1. PICK xs \in BoundedSeq(SvValues, 2) : SvUpdate(v, Assigned(DestroyElements(x), xs), xs)
    BY <1>3 DEF SvAssign
  <2>2. ValueSeq(xs)
    BY RangesAre
  <2> DEFINE y == DestroyElements(x)
  <2>3. Keeping(y, Nothing) /\ y.alive
    BY <1>2, DestroyElementsIs
  <2> HIDE DEF y
  <2>4. SvHolds(Assigned(y, xs), xs) /\ Assigned(y, xs).alive
    BY <2>2, <2>3, AssignedIs
  <2> QED
    BY <2>1, <2>4, HeldStep DEF y
<1>4. CASE SvReserve(v)
  <2>1. PICK n \in 1..SvMaxSize : SvUpdate(v, Reserved(x, n), ref)
    BY <1>4 DEF SvReserve
  <2>2. n \in Nat
    BY SvAssumption
  <2>3. SvHolds(Reserved(x, n), ref) /\ Reserved(x, n).alive
    BY <1>2, <2>2, SvReservedHolds
  <2> QED
    BY <2>1, <2>3, HeldStep
<1>5. CASE SvShrinkToFit(v) \/ SvRevertToStatic(v)
  <2>1. SvUpdate(v, ShrunkToFit(x), ref)
    BY <1>5 DEF SvShrinkToFit, SvRevertToStatic
  <2>2. SvHolds(ShrunkToFit(x), ref) /\ ShrunkToFit(x).alive
    BY <1>2, ShrunkToFitHolds
  <2> QED
    BY <2>1, <2>2, HeldStep
<1>6. CASE SvClear(v)
  <2>1. SvUpdate(v, Cleared(x), <<>>)
    BY <1>6 DEF SvClear
  <2>2. SvHolds(Cleared(x), <<>>) /\ Cleared(x).alive
    BY <1>2, ClearedIs
  <2> QED
    BY <2>1, <2>2, HeldStep
<1> QED
  BY <1>3, <1>4, <1>5, <1>6

\* Those that add elements.
LEMMA SvAddedHolds ==
  ASSUME SvInv, ~EmptyRanges, NEW v \in Vectors, SvInsert(v) \/ SvPushBack(v)
  PROVE  SvInv'
<1> DEFINE x == sv[v]
           ref == svRef[v]
<1>1. Live(v)
  BY DEF SvInsert, SvPushBack
<1>2. /\ SvHolds(x, ref) /\ x.alive /\ ref \in Seq(Nat) /\ Len(ref) = Len0(v)
      /\ x.size = Len0(v) /\ Len0(v) \in Nat
  BY <1>1, LiveFacts
<1>3. CASE SvInsert(v)
  <2>1. PICK pos \in 0..Len0(v), xs \in Ranges :
          SvUpdate(v, FillHole(GrowAt(x, pos, Len(xs)), pos, xs),
                 SubSeq(ref, 1, pos) \o xs \o SubSeq(ref, pos + 1, Len(ref)))
    BY <1>3 DEF SvInsert
  <2>2. xs \in BoundedSeq(SvValues, 2) /\ xs # <<>>
    BY DEF Ranges
  <2>3. ValueSeq(xs) /\ Len(xs) > 0
    BY <2>2, RangesAre
  <2>4. pos \in Nat /\ pos <= x.size
    BY <1>2
  <2> DEFINE y == FillHole(GrowAt(x, pos, Len(xs)), pos, xs)
  <2>5. SvHolds(y, Replaced(ref, pos, pos, xs)) /\ y.alive
    BY <1>2, <2>3, <2>4, SvInsertedHolds
  <2>6. Replaced(ref, pos, pos, xs) = SubSeq(ref, 1, pos) \o xs \o SubSeq(ref, pos + 1, Len(ref))
    BY DEF Replaced
  <2> HIDE DEF y
  <2>7. SvUpdate(v, y, Replaced(ref, pos, pos, xs))
    BY <2>1, <2>6 DEF y
  <2> QED
    BY <2>5, <2>7, HeldStep
<1>4. CASE SvPushBack(v)
  <2>1. PICK val \in SvValues :
          SvUpdate(v, FillHole(GrowAt(x, Len0(v), 1), Len0(v), <<val>>), Append(ref, val))
    BY <1>4 DEF SvPushBack
  <2> DEFINE xs == <<val>>
             pos == Len(ref)
             y == FillHole(GrowAt(x, pos, Len(xs)), pos, xs)
  <2>2. val \in Nat /\ val > 0
    BY SvAssumption
  <2>3. xs \in Seq(Nat) /\ Len(xs) = 1 /\ xs[1] = val
    BY <2>2
  <2>4. ValueSeq(xs) /\ Len(xs) > 0
    BY <2>2, <2>3 DEF ValueSeq
  <2>5. Append(ref, val) = Replaced(ref, pos, pos, xs)
    BY <1>2, <2>2, AppendIs
  <2>6. SvUpdate(v, y, Replaced(ref, pos, pos, xs))
    BY <1>2, <2>1, <2>3, <2>5
  <2>7. pos \in Nat /\ pos <= x.size
    BY <1>2
  <2> HIDE DEF xs, pos
  <2>8. SvHolds(y, Replaced(ref, pos, pos, xs)) /\ y.alive
    BY <1>2, <2>4, <2>7, SvInsertedHolds
  <2> HIDE DEF y
  <2> QED
    BY <2>6, <2>8, HeldStep
<1> QED
  BY <1>3, <1>4

\* Those that take elements away, and resize.
LEMMA SvCutHolds ==
  ASSUME SvInv, ~EmptyRanges, NEW v \in Vectors, SvErase(v) \/ SvPopBack(v) \/ SvResize(v)
  PROVE  SvInv'
<1> DEFINE x == sv[v]
           ref == svRef[v]
<1>1. Live(v)
  BY DEF SvErase, SvPopBack, SvResize
<1>2. /\ SvHolds(x, ref) /\ x.alive /\ ref \in Seq(Nat) /\ Len(ref) = Len0(v)
      /\ x.size = Len0(v) /\ Len0(v) \in Nat
  BY <1>1, LiveFacts
<1>3. CASE SvErase(v)
  <2>1. PICK pos \in 0..Len0(v), num \in 0..Len0(v) :
          /\ pos + num <= Len0(v) /\ num > 0
          /\ SvUpdate(v, ShrinkAt(x, pos, num),
                    SubSeq(ref, 1, pos) \o SubSeq(ref, pos + num + 1, Len(ref)))
    BY <1>3 DEF SvErase
  <2>2. pos \in Nat /\ num \in Nat \ {0} /\ pos + num <= x.size
    BY <1>2, <2>1
  <2> DEFINE c == pos + num
             y == ShrinkAt(x, pos, num)
  <2>3. SvHolds(y, Replaced(ref, pos, c, <<>>)) /\ y.alive
    BY <1>2, <2>2, SvErasedHolds
  <2>4. c \in Nat /\ pos <= c /\ c <= Len(ref)
    BY <1>2, <2>2
  <2>5. SvUpdate(v, y, SubSeq(ref, 1, pos) \o SubSeq(ref, c + 1, Len(ref)))
    BY <2>1
  <2> HIDE DEF c, y
  <2>6. Replaced(ref, pos, c, <<>>) = SubSeq(ref, 1, pos) \o SubSeq(ref, c + 1, Len(ref))
    BY <1>2, <2>2, <2>4, TakenOut
  <2> QED
    BY <2>3, <2>5, <2>6, HeldStep
<1>4. CASE SvPopBack(v)
  <2> DEFINE n == Len(ref)
             pos == n - 1
             y == ShrinkAt(x, pos, 1)
  <2>1. n > 0 /\ SvUpdate(v, y, Front(ref))
    BY <1>2, <1>4 DEF SvPopBack
  <2>2. n \in Nat /\ pos \in Nat /\ 1 \in Nat \ {0} /\ pos + 1 = n /\ pos + 1 <= x.size
    BY <1>2, <2>1
  <2>3. Front(ref) = Replaced(ref, pos, n, <<>>)
    BY <1>2, <2>1, FrontIs
  <2> HIDE DEF pos, n
  <2>4. SvHolds(y, Replaced(ref, pos, pos + 1, <<>>)) /\ y.alive
    BY <1>2, <2>2, SvErasedHolds
  <2> HIDE DEF y
  <2> QED
    BY <2>1, <2>2, <2>3, <2>4, HeldStep
<1>5. CASE SvResize(v)
  <2>1. PICK n \in 0..SvMaxSize, val \in SvValues :
          SvUpdate(v, Resized(x, n, val), [i \in 1..n |-> IF i <= Len0(v) THEN ref[i] ELSE val])
    BY <1>5 DEF SvResize
  <2>2. n \in Nat /\ val \in Nat \ {0}
    BY SvAssumption
  <2> DEFINE y == Resized(x, n, val)
             f == [i \in 1..n |-> IF i <= Len0(v) THEN ref[i] ELSE val]
  <2>3. f = ResizedTo(ref, n, val)
    BY <1>2 DEF ResizedTo
  <2>4. SvHolds(y, ResizedTo(ref, n, val)) /\ y.alive
    BY <1>2, <2>2, SvResizedHolds
  <2> HIDE DEF y, f
  <2>5. SvUpdate(v, y, f)
    BY <2>1 DEF y, f
  <2> QED
    BY <2>3, <2>4, <2>5, HeldStep
<1> QED
  BY <1>3, <1>4, <1>5

\* The calls with another vector.
LEMMA SvBothHold ==
  ASSUME SvInv, NEW v \in Vectors, NEW w \in Vectors,
         \/ SvCopyConstruct(v, w) \/ SvMoveConstruct(v, w)
         \/ SvCopyAssign(v, w) \/ SvMoveAssign(v, w)
  PROVE  SvInv'
<1> DEFINE x == sv[v]
           y == sv[w]
           ref == svRef[w]
           z == Fresh(y.revert)
<1>1. Live(w)
  BY DEF SvCopyConstruct, SvMoveConstruct, SvCopyAssign, SvMoveAssign, SameType
<1>2. /\ SvHolds(y, ref) /\ ValueSeq(ref) /\ y.revert \in 0..StaticCapacity + 1
      /\ Contents(y) = ref
  BY <1>1, LiveFacts
<1>3. Keeping(z, Nothing) /\ SvHolds(z, <<>>) /\ z.alive /\ Here(z) = "static"
  BY <1>2, FreshIs
<1>4. Live(v) => SvHolds(x, svRef[v]) /\ x.alive
  BY LiveFacts
<1>5. CASE SvCopyConstruct(v, w)
  <2>1. SvUpdate(v, Assigned(z, ref), ref)
    BY <1>2, <1>5 DEF SvCopyConstruct
  <2> HIDE DEF z
  <2>2. SvHolds(Assigned(z, ref), ref) /\ Assigned(z, ref).alive
    BY <1>2, <1>3, AssignedIs
  <2> QED
    BY <2>1, <2>2, HeldStep
<1>6. CASE SvMoveConstruct(v, w)
  <2>1. v # w
    BY <1>6 DEF SvMoveConstruct
  <2>2. /\ sv' = [sv EXCEPT ![v] = Taken(z, y), ![w] = z]
        /\ svRef' = [svRef EXCEPT ![v] = ref, ![w] = <<>>]
    BY <1>6 DEF SvMoveConstruct
  <2> HIDE DEF z
  <2>3. SvHolds(Taken(z, y), ref) /\ Taken(z, y).alive
    BY <1>2, <1>3, TakenIs
  <2> QED
    BY <1>3, <2>1, <2>2, <2>3, TwoSvStep
<1>7. CASE SvCopyAssign(v, w)
  <2> DEFINE d == DestroyElements(x)
  <2>1. Live(v) /\ SvUpdate(v, Assigned(d, ref), ref)
    BY <1>2, <1>7 DEF SvCopyAssign, SameType
  <2>2. Keeping(d, Nothing) /\ d.alive
    BY <1>4, <2>1, DestroyElementsIs
  <2> HIDE DEF d
  <2>3. SvHolds(Assigned(d, ref), ref) /\ Assigned(d, ref).alive
    BY <1>2, <2>2, AssignedIs
  <2> QED
    BY <2>1, <2>3, HeldStep
<1>8. CASE SvMoveAssign(v, w)
  <2> DEFINE d == Released(x)
  <2>1. /\ Live(v) /\ v # w /\ sv' = [sv EXCEPT ![v] = Taken(d, y), ![w] = z]
        /\ svRef' = [svRef EXCEPT ![v] = ref, ![w] = <<>>]
    BY <1>8 DEF SvMoveAssign, SameType
  <2>2. Keeping(d, Nothing) /\ d.alive /\ Here(d) = "static"
    BY <1>4, <2>1, ReleasedIs
  <2> HIDE DEF d, z
  <2>3. SvHolds(Taken(d, y), ref) /\ Taken(d, y).alive
    BY <1>2, <2>2, TakenIs
  <2> QED
    BY <1>3, <2>1, <2>3, TwoSvStep
<1> QED
  BY <1>5, <1>6, <1>7, <1>8

\* The cells of a vector hold its elements, from the first on, and nothing else.
LEMMA CellsTell ==
  ASSUME NEW x, NEW ref, SvHolds(x, ref), NEW c \in OwnBufs, NEW i \in DOMAIN x[c]
  PROVE  x[c][i] # MovedFrom /\ (IsValue(x[c][i]) <=> c = Here(x) /\ i <= x.size)
<1>1. /\ Built(x) /\ Keeping(x, Elements(ref)) /\ ValueSeq(ref) /\ Len(ref) = x.size
      /\ x.size \in Nat
  BY SvHoldsFacts
<1>2. x[c] \in Seq(Int)
  BY <1>1, SvFields DEF Built, OwnBufs
<1>3. i \in 1..Len(x[c]) /\ i \in Nat /\ i > 0
  BY <1>2
<1>4. x[c][i] = IF c = Here(x) THEN Elements(ref)[i] ELSE Raw
  BY <1>1, <1>3 DEF Keeping
<1>5. CASE c = Here(x) /\ i <= x.size
  <2>1. x[c][i] = ref[i] /\ i \in 1..Len(ref)
    BY <1>1, <1>3, <1>4, <1>5 DEF Elements
  <2>2. ref[i] \in Nat /\ IsValue(ref[i])
    BY <1>1, <2>1, ValuesAreValues
  <2> QED
    BY <1>5, <2>1, <2>2 DEF MovedFrom
<1>6. CASE ~(c = Here(x) /\ i <= x.size)
  <2>1. x[c][i] = Raw
    BY <1>1, <1>3, <1>4, <1>6 DEF Elements
  <2> QED
    BY <1>6, <2>1 DEF MovedFrom, Raw, IsValue
<1> QED
  BY <1>5, <1>6

\* A vector that holds something is accounted for, and so is one that is not there.
LEMMA HeldAccounted ==
  ASSUME NEW x, NEW ref, SvHolds(x, ref)
  PROVE  /\ x.sound /\ x.size <= x.cap
         /\ \A i \in DOMAIN x.static : IsValue(x.static[i]) = (~x.dyn /\ i <= x.size)
         /\ \A i \in DOMAIN x.heap : IsValue(x.heap[i]) = (x.dyn /\ i <= x.size)
         /\ \A i \in DOMAIN x.static : x.static[i] # MovedFrom
         /\ \A i \in DOMAIN x.heap : x.heap[i] # MovedFrom
         /\ Len(x.heap) = (IF x.dyn THEN x.cap ELSE 0)
<1>1. Built(x)
  BY SvHoldsFacts
<1>2. (x.dyn <=> Here(x) = "heap") /\ (~x.dyn <=> Here(x) = "static")
  BY <1>1, HereIs
<1>3. ASSUME NEW i \in DOMAIN x.static
      PROVE  x.static[i] # MovedFrom /\ IsValue(x.static[i]) = (~x.dyn /\ i <= x.size)
  <2>1. "static" \in OwnBufs /\ x.static = x["static"]
    BY DEF OwnBufs
  <2>2. /\ x["static"][i] # MovedFrom
        /\ IsValue(x["static"][i]) <=> "static" = Here(x) /\ i <= x.size
    BY <2>1, CellsTell
  <2>3. IsValue(x.static[i]) \in BOOLEAN
    BY DEF IsValue
  <2> QED
    BY <1>2, <2>1, <2>2, <2>3
<1>4. ASSUME NEW i \in DOMAIN x.heap
      PROVE  x.heap[i] # MovedFrom /\ IsValue(x.heap[i]) = (x.dyn /\ i <= x.size)
  <2>1. "heap" \in OwnBufs /\ x.heap = x["heap"]
    BY DEF OwnBufs
  <2>2. /\ x["heap"][i] # MovedFrom
        /\ IsValue(x["heap"][i]) <=> "heap" = Here(x) /\ i <= x.size
    BY <2>1, CellsTell
  <2>3. IsValue(x.heap[i]) \in BOOLEAN
    BY DEF IsValue
  <2> QED
    BY <1>2, <2>1, <2>2, <2>3
<1>5. x.sound /\ x.size <= x.cap /\ Len(x.heap) = (IF x.dyn THEN x.cap ELSE 0)
  BY <1>1 DEF Built
<1> QED
  BY <1>3, <1>4, <1>5

\* What is not there has no objects and no allocation.
LEMMA NoneAccounted ==
  /\ Contents(NoVector) = <<>>
  /\ LET x == NoVector IN
       /\ x.sound /\ x.size <= x.cap
       /\ \A i \in DOMAIN x.static : IsValue(x.static[i]) = (~x.dyn /\ i <= x.size)
       /\ \A i \in DOMAIN x.heap : IsValue(x.heap[i]) = (x.dyn /\ i <= x.size)
       /\ \A i \in DOMAIN x.static : x.static[i] # MovedFrom
       /\ \A i \in DOMAIN x.heap : x.heap[i] # MovedFrom
       /\ Len(x.heap) = (IF x.dyn THEN x.cap ELSE 0)
<1> DEFINE x == NoVector
           t == RawCells(StaticCapacity)
<1>1. /\ x.sound = TRUE /\ x.size = 0 /\ x.cap = StaticCapacity /\ x.dyn = FALSE
      /\ x.static = t /\ x.heap = <<>>
  BY DEF NoVector
<1>2. t \in Seq(Int) /\ Len(t) = StaticCapacity /\ \A l \in 1..StaticCapacity : t[l] = Raw
  BY Static, RawCellsAre
<1> HIDE DEF x, t
<1>3. \A i \in DOMAIN t : t[i] = Raw /\ i > 0 /\ i \in Nat
  BY <1>2, Static
<1>4. \A i \in DOMAIN x.static :
        x.static[i] # MovedFrom /\ IsValue(x.static[i]) = (~x.dyn /\ i <= x.size)
  <2>1. ASSUME NEW i \in DOMAIN x.static
        PROVE  x.static[i] # MovedFrom /\ IsValue(x.static[i]) = (~x.dyn /\ i <= x.size)
    <3>1. x.static[i] = Raw /\ ~(i <= x.size)
      BY <1>1, <1>3
    <3> QED
      BY <3>1 DEF Raw, MovedFrom, IsValue
  <2> QED
    BY <2>1
<1>5. x.heap = <<>> /\ Len(x.heap) = 0 /\ DOMAIN x.heap = {}
  BY <1>1
<1>6. Contents(x) = <<>>
  <2>1. Contents(x) = SubSeq(t, 1, 0)
    BY <1>1 DEF Contents, Here
  <2> QED
    BY <1>2, <2>1
<1>7. x.sound /\ x.size <= x.cap
  BY <1>1, Static
<1> QED
  BY <1>1, <1>4, <1>5, <1>6, <1>7 DEF x

\* The invariant tells both properties.
LEMMA SvInvTells ==
  ASSUME SvInv
  PROVE  ObjectsAccountedFor /\ LikeStdVector
<1>1. ASSUME NEW v \in Vectors
      PROVE  LET x == sv[v] IN
               /\ x.sound /\ x.size <= x.cap
               /\ \A i \in DOMAIN x.static : IsValue(x.static[i]) = (~x.dyn /\ i <= x.size)
               /\ \A i \in DOMAIN x.heap : IsValue(x.heap[i]) = (x.dyn /\ i <= x.size)
               /\ \A i \in DOMAIN x.static : x.static[i] # MovedFrom
               /\ \A i \in DOMAIN x.heap : x.heap[i] # MovedFrom
               /\ Len(x.heap) = (IF x.dyn THEN x.cap ELSE 0)
               /\ x.alive \/ x = NoVector
  <2>1. CASE sv[v].alive
    <3>1. SvHolds(sv[v], svRef[v])
      BY <2>1 DEF SvInv, SvIs
    <3> QED
      BY <2>1, <3>1, HeldAccounted
  <2>2. CASE ~sv[v].alive
    <3>1. sv[v] = NoVector
      BY <2>2 DEF SvInv, SvIs
    <3> QED
      BY <3>1, NoneAccounted
  <2> QED
    BY <2>1, <2>2
<1>2. ASSUME NEW v \in Vectors PROVE Contents(sv[v]) = svRef[v]
  <2>1. CASE sv[v].alive
    <3>1. SvHolds(sv[v], svRef[v])
      BY <2>1 DEF SvInv, SvIs
    <3> QED
      BY <3>1, ContentsIs
  <2>2. CASE ~sv[v].alive
    <3>1. sv[v] = NoVector /\ svRef[v] = <<>>
      BY <2>2 DEF SvInv, SvIs
    <3> QED
      BY <3>1, NoneAccounted
  <2> QED
    BY <2>1, <2>2
<1> QED
  BY <1>1, <1>2 DEF ObjectsAccountedFor, LikeStdVector

\* Every call keeps the invariant.
LEMMA SvInvKept ==
  ASSUME ~EmptyRanges, SvInv, [SvNext]_svVars
  PROVE  SvInv'
<1>1. ASSUME NEW v \in Vectors, SvCall(v) PROVE SvInv'
  <2>1. CASE SvConstructFrom(v) \/ SvDestruct(v)
    BY <2>1, SvMadeHolds
  <2>2. CASE \/ SvAssign(v) \/ SvReserve(v) \/ SvShrinkToFit(v) \/ SvRevertToStatic(v)
             \/ SvClear(v)
    BY <2>2, SvKeptHolds
  <2>3. CASE SvInsert(v) \/ SvPushBack(v)
    BY <2>3, SvAddedHolds
  <2>4. CASE SvErase(v) \/ SvPopBack(v) \/ SvResize(v)
    BY <2>4, SvCutHolds
  <2> QED
    BY <1>1, <2>1, <2>2, <2>3, <2>4 DEF SvCall
<1>2. ASSUME NEW v \in Vectors, NEW w \in Vectors,
             \/ SvCopyConstruct(v, w) \/ SvMoveConstruct(v, w)
             \/ SvCopyAssign(v, w) \/ SvMoveAssign(v, w)
      PROVE  SvInv'
  BY <1>2, SvBothHold
<1>3. CASE UNCHANGED svVars
  BY <1>3 DEF svVars, SvInv, SvIs
<1> QED
  BY <1>1, <1>2, <1>3 DEF SvNext

\* The vectors as the program starts.
LEMMA SvInvStarts == SvInit => SvInv
<1> SUFFICES ASSUME SvInit PROVE SvInv
  OBVIOUS
<1>1. sv = [v \in Vectors |-> NoVector] /\ svRef = [v \in Vectors |-> <<>>]
  BY DEF SvInit
<1>2. SvIs(NoVector, <<>>)
  BY DEF SvIs, NoVector
<1> QED
  BY <1>1, <1>2 DEF SvInv

\* No object is constructed twice, lost or used after its end, and no memory leaks.
THEOREM SmallVectorsAccountForObjects ==
  ASSUME ~EmptyRanges
  PROVE  SvSpec => []ObjectsAccountedFor
<1>1. SvInit => SvInv
  BY SvInvStarts
<1>2. SvInv /\ [SvNext]_svVars => SvInv'
  BY SvInvKept
<1>3. SvInv => ObjectsAccountedFor
  BY SvInvTells
<1> QED
  BY <1>1, <1>2, <1>3, PTL DEF SvSpec

\* The elements are those of the standard's vector, in whichever buffer they are.
THEOREM SmallVectorsAreStandard ==
  ASSUME ~EmptyRanges
  PROVE  SvSpec => []LikeStdVector
<1>1. SvInit => SvInv
  BY SvInvStarts
<1>2. SvInv /\ [SvNext]_svVars => SvInv'
  BY SvInvKept
<1>3. SvInv => LikeStdVector
  BY SvInvTells
<1> QED
  BY <1>1, <1>2, <1>3, PTL DEF SvSpec

=============================================================================
