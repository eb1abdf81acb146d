----------------------------- MODULE SmallVector -----------------------------
(***************************************************************************)
(* astl::small_vector: a vector that keeps its elements in a buffer of its *)
(* own while they fit and in allocated memory otherwise.                   *)
(*                                                                         *)
(* Memory is modelled to the point where object lifetimes are visible.  A  *)
(* cell is raw, holds a value, or holds an object that has been moved      *)
(* from; constructing over an object, destroying or moving what is not     *)
(* there, and giving back memory with objects in it make the vector        *)
(* unsound.  Every loop of the code is the sequence of what its rounds do, *)
(* to the same cells in the same order.  Positions count from 0, as        *)
(* iterators do; cells from 1.                                             *)
(***************************************************************************)
EXTENDS Integers, SequencesExt

CONSTANTS
  Vectors,         \* the vectors of the program
  StaticCapacity,  \* size of the buffer inside a vector
  Reverts,         \* the RevertToStaticBelow a vector may be declared with
  SvValues,        \* element values
  SvMaxSize,       \* bound: a vector does not get longer
  EmptyRanges      \* whether the program also inserts and erases nothing

ASSUME SvAssumption ==
  /\ StaticCapacity \in Nat \ {0} /\ SvMaxSize \in Nat
  /\ Reverts \subseteq 0..StaticCapacity + 1
  /\ SvValues \subseteq Nat \ {0}

VARIABLES
  sv,              \* the vectors
  svRef            \* history: what a std::vector would hold after the same calls

svVars == <<sv, svRef>>

Raw == 0
MovedFrom == -1
IsValue(x) == x \notin {Raw, MovedFrom}
RawCells(n) == [i \in 1..n |-> Raw]

\* What is there before a constructor and after the destructor.
NoVector == [alive |-> FALSE, revert |-> 0, dyn |-> FALSE, cap |-> StaticCapacity, size |-> 0,
             static |-> RawCells(StaticCapacity), heap |-> <<>>, sound |-> TRUE]

\* small_vector(): m_begin and m_end point to the static buffer.
Fresh(r) == [NoVector EXCEPT !.alive = TRUE, !.revert = r]

SvInit == sv = [v \in Vectors |-> NoVector] /\ svRef = [v \in Vectors |-> <<>>]

-----------------------------------------------------------------------------
(* Objects in memory.  m has the static buffer, the allocated one and, while *)
(* a call changes over, the new one.                                         *)

Construct(m, a, i, x) ==
  [m EXCEPT !.sound = @ /\ i \in DOMAIN m[a] /\ m[a][i] = Raw, ![a][i] = x]

Destroy(m, a, i) ==
  [m EXCEPT !.sound = @ /\ i \in DOMAIN m[a] /\ m[a][i] # Raw, ![a][i] = Raw]

Move(m, a, i, b, j) ==
  LET taken == [m EXCEPT !.sound = @ /\ IsValue(m[a][i]), ![a][i] = MovedFrom]
  IN Construct(taken, b, j, m[a][i])

\* A round of a loop constructs x in cell j of buffer b, destroys the object in cell i
\* of buffer a, moves the one from there to here, destroys it behind the move as well
\* (carry), or destroys what is here before it (replace).
Round(m, r) ==
  CASE r.does = "construct" -> Construct(m, r.b, r.j, r.x)
    [] r.does = "destroy" -> Destroy(m, r.a, r.i)
    [] r.does = "move" -> Move(m, r.a, r.i, r.b, r.j)
    [] r.does = "carry" -> Destroy(Move(m, r.a, r.i, r.b, r.j), r.a, r.i)
    [] r.does = "replace" -> Move(Destroy(m, r.b, r.j), r.a, r.i, r.b, r.j)

Loop(m, rounds) == FoldLeft(Round, m, rounds)

ConstructAll(m, a, from, xs) ==
  Loop(m, [k \in 1..Len(xs) |-> [does |-> "construct", b |-> a, j |-> from + k, x |-> xs[k]]])

DestroyAll(m, a, from, n) ==
  Loop(m, [k \in 1..n |-> [does |-> "destroy", a |-> a, i |-> from + k]])

\* Elements move, or move and are destroyed behind it, from the first to the last.
Transfer(m, does, a, from, b, to, n) ==
  Loop(m, [k \in 1..n |-> [does |-> does, a |-> a, i |-> from + k, b |-> b, j |-> to + k]])

MoveAll(m, a, from, b, to, n) == Transfer(m, "move", a, from, b, to, n)
CarryAll(m, a, from, b, to, n) == Transfer(m, "carry", a, from, b, to, n)

Deallocate(m) ==
  [m EXCEPT !.sound = @ /\ m.heap # <<>> /\ \A i \in DOMAIN m.heap : m.heap[i] = Raw,
            !.heap = <<>>]

Memory(x, new) ==
  [static |-> x.static, heap |-> x.heap, new |-> RawCells(new), sound |-> x.sound]

\* The vector takes over memory m and keeps its elements in buffer a.
Settle(x, m, a, cap, size) ==
  [x EXCEPT !.static = m.static, !.dyn = a # "static", !.cap = cap, !.size = size,
            !.heap = IF a = "new" THEN m.new ELSE m.heap,
            !.sound = m.sound /\ (a = "new" => m.heap = <<>>)]

-----------------------------------------------------------------------------
Here(x) == IF x.dyn THEN "heap" ELSE "static"
Contents(x) == SubSeq(x[Here(x)], 1, x.size)

\* Grow by roughly 1.5 until the size fits.
GrownCapacity(cap, want) ==
  LET grown[c \in 0..3 * want + 1] == IF c >= want THEN c ELSE grown[(3 * c + 1) \div 2]
  IN grown[cap]

\* choose_data: the buffer for a size, and its capacity.
ChooseData(x, want) ==
  IF x.dyn
  THEN CASE want > x.cap -> [at |-> "new", cap |-> GrownCapacity(x.cap, want)]
         [] want <= x.cap /\ want < x.revert -> [at |-> "static", cap |-> StaticCapacity]
         [] OTHER -> [at |-> "heap", cap |-> x.cap]
  ELSE IF want > StaticCapacity THEN [at |-> "new", cap |-> want]
                                ELSE [at |-> "static", cap |-> x.cap]

NewCells(d) == IF d.at = "new" THEN d.cap ELSE 0

DeallocateIfDyn(x, m) == IF x.dyn THEN Deallocate(m) ELSE m

DestroyElements(x) ==
  LET m == DestroyAll(Memory(x, 0), Here(x), 0, x.size)
  IN [x EXCEPT !.static = m.static, !.heap = m.heap, !.sound = m.sound]

\* grow_at in place: from the last element down to position, each moves up by num.
GrowInPlace(x, pos, num) ==
  LET a == Here(x)
      m == Loop(Memory(x, 0), [k \in 1..x.size - pos |->
                  [does |-> "carry", a |-> a, i |-> x.size + 1 - k,
                   b |-> a, j |-> x.size + 1 - k + num]])
  IN Settle(x, m, a, x.cap, x.size + num)

\* grow_at into another buffer, leaving the hole there.
GrowOver(x, pos, num, d) ==
  LET a == Here(x)
      m1 == MoveAll(Memory(x, NewCells(d)), a, 0, d.at, 0, pos)
      m2 == MoveAll(m1, a, pos, d.at, pos + num, x.size - pos)
      m3 == DeallocateIfDyn(x, DestroyAll(m2, a, 0, x.size))
  IN Settle(x, m3, d.at, d.cap, x.size + num)

GrowAt(x, pos, num) ==
  LET d == ChooseData(x, x.size + num)
  IN IF d.at = Here(x) THEN GrowInPlace(x, pos, num) ELSE GrowOver(x, pos, num, d)

\* The hole is filled after grow_at has returned.
FillHole(x, pos, xs) ==
  LET m == ConstructAll(Memory(x, 0), Here(x), pos, xs)
  IN [x EXCEPT !.static = m.static, !.heap = m.heap, !.sound = m.sound]

Cleared(x) ==
  LET m == Memory(DestroyElements(x), 0)
  IN IF x.revert > 0 /\ x.dyn
     THEN Settle(x, Deallocate(m), "static", StaticCapacity, 0)
     ELSE Settle(x, m, Here(x), x.cap, 0)

\* Faulty variant of ShrinkInPlace: the element just behind moves in, however many go.
ShrinkInPlaceByOne(x, pos, num) ==
  LET a == Here(x)
      m1 == Transfer(Memory(x, 0), "replace", a, pos + 1, a, pos, x.size - pos - num)
      m2 == DestroyAll(m1, a, x.size - num, num)
  IN Settle(x, m2, a, x.cap, x.size - num)

\* shrink_at in place: a hole is destroyed and the element num further on moves in.
ShrinkInPlace(x, pos, num) ==
  LET a == Here(x)
      m1 == Transfer(Memory(x, 0), "replace", a, pos + num, a, pos, x.size - pos - num)
      m2 == DestroyAll(m1, a, x.size - num, num)
  IN Settle(x, m2, a, x.cap, x.size - num)

\* shrink_at back into the static buffer.
ShrinkOver(x, pos, num) ==
  LET m1 == CarryAll(Memory(x, 0), "heap", 0, "static", 0, pos)
      m2 == DestroyAll(m1, "heap", pos, num)
      m3 == CarryAll(m2, "heap", pos + num, "static", pos, x.size - pos - num)
  IN Settle(x, Deallocate(m3), "static", StaticCapacity, x.size - num)

ShrinkAt(x, pos, num) ==
  LET d == ChooseData(x, x.size - num)
  IN IF x.size = num THEN Cleared(x)
     ELSE IF d.at = Here(x) THEN ShrinkInPlace(x, pos, num) ELSE ShrinkOver(x, pos, num)

\* Faulty variant of Assigned: the old allocation is forgotten.
AssignedLeaking(x, xs) ==
  LET d == ChooseData(x, Len(xs))
      m == ConstructAll(Memory(x, NewCells(d)), d.at, 0, xs)
  IN Settle(x, m, d.at, d.cap, Len(xs))

\* assign_fill, assign_copy, assign_move: called with the elements destroyed.
Assigned(x, xs) ==
  LET d == ChooseData(x, Len(xs))
      m == ConstructAll(Memory(x, NewCells(d)), d.at, 0, xs)
  IN Settle(x, IF d.at # Here(x) THEN DeallocateIfDyn(x, m) ELSE m, d.at, d.cap, Len(xs))

Reserved(x, want) ==
  LET d == ChooseData(x, want)
      a == Here(x)
      m == DestroyAll(MoveAll(Memory(x, NewCells(d)), a, 0, d.at, 0, x.size), a, 0, x.size)
  IN IF want <= x.cap THEN x ELSE Settle(x, DeallocateIfDyn(x, m), d.at, d.cap, x.size)

Resized(x, n, val) ==
  LET r == Reserved(x, n)
      a == Here(r)
      m == IF n < r.size
           THEN Loop(Memory(r, 0), [k \in 1..r.size - n |->
                       [does |-> "destroy", a |-> a, i |-> r.size + 1 - k]])
           ELSE ConstructAll(Memory(r, 0), a, r.size, [i \in 1..(n - r.size) |-> val])
  IN Settle(r, m, a, r.cap, n)

\* shrink_to_fit: static below the static capacity, else as much as is needed.
ShrunkToFit(x) ==
  LET a == IF x.size < StaticCapacity THEN "static" ELSE "new"
      m == CarryAll(Memory(x, IF a = "new" THEN x.size ELSE 0), "heap", 0, a, 0, x.size)
  IN IF x.size = x.cap \/ ~x.dyn THEN x
     ELSE Settle(x, Deallocate(m), a, IF a = "new" THEN x.size ELSE StaticCapacity, x.size)

\* take_impl: an allocation changes hands, elements in the static buffer move.
Taken(x, w) ==
  IF w.dyn
  THEN [x EXCEPT !.dyn = TRUE, !.cap = w.cap, !.size = w.size, !.heap = w.heap]
  ELSE LET m == [static |-> x.static, heap |-> x.heap, new |-> w.static, sound |-> x.sound]
           n == DestroyAll(MoveAll(m, "new", 0, "static", 0, w.size), "new", 0, w.size)
       IN [Settle(x, [n EXCEPT !.new = <<>>], "static", w.cap, w.size)
             EXCEPT !.sound = n.sound /\ \A i \in DOMAIN n.new : n.new[i] = Raw]

\* What a vector is given up as before it takes another one, or for good.
Released(x) ==
  LET m == DeallocateIfDyn(x, Memory(DestroyElements(x), 0))
  IN Settle(x, m, "static", StaticCapacity, 0)

-----------------------------------------------------------------------------
(* The member functions.                                                     *)

SvUpdate(v, x, ref) ==
  /\ sv' = [sv EXCEPT ![v] = x]
  /\ svRef' = [svRef EXCEPT ![v] = ref]

\* The arguments of a call.
Ranges == IF EmptyRanges THEN BoundedSeq(SvValues, 2) ELSE BoundedSeq(SvValues, 2) \ {<<>>}
Live(v) == sv[v].alive
Len0(v) == sv[v].size

SvConstructFrom(v) ==
  /\ ~Live(v)
  /\ \E r \in Reverts, xs \in BoundedSeq(SvValues, 2) : SvUpdate(v, Assigned(Fresh(r), xs), xs)

SvCopyConstruct(v, w) ==
  /\ ~Live(v) /\ Live(w)
  /\ SvUpdate(v, Assigned(Fresh(sv[w].revert), Contents(sv[w])), svRef[w])

SvMoveConstruct(v, w) ==
  /\ ~Live(v) /\ Live(w)
  /\ sv' = [sv EXCEPT ![v] = Taken(Fresh(sv[w].revert), sv[w]), ![w] = Fresh(sv[w].revert)]
  /\ svRef' = [svRef EXCEPT ![v] = svRef[w], ![w] = <<>>]

SvDestruct(v) ==
  /\ Live(v)
  /\ SvUpdate(v, [Released(sv[v]) EXCEPT !.alive = FALSE, !.revert = 0], <<>>)

SvAssign(v) ==
  /\ Live(v)
  /\ \E xs \in BoundedSeq(SvValues, 2) : SvUpdate(v, Assigned(DestroyElements(sv[v]), xs), xs)

\* Both assignments are between vectors of one type; assigning itself does nothing.
SameType(v, w) == v # w /\ Live(v) /\ Live(w) /\ sv[v].revert = sv[w].revert

SvCopyAssign(v, w) ==
  /\ SameType(v, w)
  /\ SvUpdate(v, Assigned(DestroyElements(sv[v]), Contents(sv[w])), svRef[w])

SvMoveAssign(v, w) ==
  /\ SameType(v, w)
  /\ sv' = [sv EXCEPT ![v] = Taken(Released(sv[v]), sv[w]), ![w] = Fresh(sv[w].revert)]
  /\ svRef' = [svRef EXCEPT ![v] = svRef[w], ![w] = <<>>]

SvReserve(v) ==
  /\ Live(v)
  /\ \E n \in 1..SvMaxSize : SvUpdate(v, Reserved(sv[v], n), svRef[v])

SvShrinkToFit(v) == Live(v) /\ SvUpdate(v, ShrunkToFit(sv[v]), svRef[v])

\* revert_to_static: a call of shrink_to_fit when the elements fit.
SvRevertToStatic(v) ==
  /\ Live(v) /\ sv[v].dyn /\ Len0(v) <= StaticCapacity
  /\ SvUpdate(v, ShrunkToFit(sv[v]), svRef[v])

SvClear(v) == Live(v) /\ SvUpdate(v, Cleared(sv[v]), <<>>)

\* insert of one value, count values or a range, and emplace.
SvInsert(v) ==
  /\ Live(v)
  /\ \E pos \in 0..Len0(v), xs \in Ranges :
       /\ Len0(v) + Len(xs) <= SvMaxSize
       /\ SvUpdate(v, FillHole(GrowAt(sv[v], pos, Len(xs)), pos, xs),
                 SubSeq(svRef[v], 1, pos) \o xs \o SubSeq(svRef[v], pos + 1, Len(svRef[v])))

SvPushBack(v) ==
  /\ Live(v) /\ Len0(v) < SvMaxSize
  /\ \E x \in SvValues :
       SvUpdate(v, FillHole(GrowAt(sv[v], Len0(v), 1), Len0(v), <<x>>), Append(svRef[v], x))

SvErase(v) ==
  /\ Live(v)
  /\ \E pos \in 0..Len0(v), num \in 0..Len0(v) :
       /\ pos + num <= Len0(v) /\ (EmptyRanges \/ num > 0)
       /\ SvUpdate(v, ShrinkAt(sv[v], pos, num),
                 SubSeq(svRef[v], 1, pos) \o SubSeq(svRef[v], pos + num + 1, Len(svRef[v])))

SvPopBack(v) ==
  /\ Live(v) /\ Len0(v) > 0
  /\ SvUpdate(v, ShrinkAt(sv[v], Len0(v) - 1, 1), Front(svRef[v]))

SvResize(v) ==
  /\ Live(v)
  /\ \E n \in 0..SvMaxSize, x \in SvValues :
       SvUpdate(v, Resized(sv[v], n, x),
              [i \in 1..n |-> IF i <= Len0(v) THEN svRef[v][i] ELSE x])

SvCall(v) ==
  \/ SvConstructFrom(v) \/ SvDestruct(v) \/ SvAssign(v)
  \/ SvReserve(v) \/ SvShrinkToFit(v) \/ SvRevertToStatic(v) \/ SvClear(v)
  \/ SvInsert(v) \/ SvPushBack(v) \/ SvErase(v) \/ SvPopBack(v) \/ SvResize(v)

SvNext ==
  \/ \E v \in Vectors : SvCall(v)
  \/ \E v, w \in Vectors : \/ SvCopyConstruct(v, w) \/ SvMoveConstruct(v, w)
                           \/ SvCopyAssign(v, w) \/ SvMoveAssign(v, w)

SvSpec == SvInit /\ [][SvNext]_svVars

-----------------------------------------------------------------------------
\* No object is constructed twice, lost or used after its end, in any sequence of
\* calls: exactly the cells from begin to end hold values, every other cell is
\* raw, and there is an allocation, of the size the vector believes, just while
\* it is in use.  A vector that is gone has left nothing behind.
ObjectsAccountedFor ==
  \A v \in Vectors :
    LET x == sv[v] IN
      /\ x.sound /\ x.size <= x.cap
      /\ \A i \in DOMAIN x.static : IsValue(x.static[i]) = (~x.dyn /\ i <= x.size)
      /\ \A i \in DOMAIN x.heap : IsValue(x.heap[i]) = (x.dyn /\ i <= x.size)
      /\ \A i \in DOMAIN x.static : x.static[i] # MovedFrom
      /\ \A i \in DOMAIN x.heap : x.heap[i] # MovedFrom
      /\ Len(x.heap) = (IF x.dyn THEN x.cap ELSE 0)
      /\ x.alive \/ x = NoVector

\* A small_vector is "fully compatible with std::vector" (small_vector.hpp, lines
\* 84 and 85): wherever its elements are kept, and however they got there, they
\* are the ones a std::vector holds after the same calls, in the same order.
LikeStdVector == \A v \in Vectors : Contents(sv[v]) = svRef[v]
=============================================================================
