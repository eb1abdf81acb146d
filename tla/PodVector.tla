------------------------------ MODULE PodVector ------------------------------
(***************************************************************************)
(* astl::pod_vector: a vector of trivial elements that manages its memory  *)
(* as bytes, with memcpy, memmove and realloc, and that can change the     *)
(* type of its elements (recast).  The text buffers of asynchronous        *)
(* logging are such vectors.                                               *)
(*                                                                         *)
(* A buffer is a sequence of bytes, an element is `width' of them; only    *)
(* the bytes up to the end mean something, the others are Junk.  A write   *)
(* or a read outside the buffer makes the vector unsound.  Whether an      *)
(* allocation can be extended where it is (realloc, expand) or is copied   *)
(* to a new one is for the allocator to say: `copies' stands for its       *)
(* answer, its alignment and realloc_wasteful_copy_size.                   *)
(***************************************************************************)
EXTENDS Integers, SequencesExt

CONSTANTS
  PodVectors,     \* the vectors of the program
  Widths,         \* sizes of the element types, in bytes
  PodBytes,       \* values of a byte
  PodMaxBytes,    \* bound: the contents do not get longer
  FillsUp         \* whether the program resizes vectors that hold something with a value

ASSUME PodAssumption ==
  /\ Widths \subseteq Nat \ {0} /\ PodBytes \subseteq Nat /\ 0 \in PodBytes
  /\ PodMaxBytes \in Nat

VARIABLES
  pv,             \* the vectors
  pvRef           \* history: the bytes a std::vector would hold after the same calls

podVars == <<pv, pvRef>>

Junk == -1
JunkBytes(n) == [i \in 1..n |-> Junk]

\* m_begin is null and there is no capacity; width 0 before a vector exists.
NoPod == [width |-> 0, buf |-> <<>>, cap |-> 0, size |-> 0, sound |-> TRUE]
FreshPod(w) == [NoPod EXCEPT !.width = w]
PodInit == pv = [v \in PodVectors |-> NoPod] /\ pvRef = [v \in PodVectors |-> <<>>]

-----------------------------------------------------------------------------
(* Bytes in memory; positions and counts are of elements, as in the code.    *)

InBuffer(x, at, n) == at >= 0 /\ (at + n) * x.width <= Len(x.buf)

\* std::fill, std::copy and memcpy into the buffer.
Write(x, at, bytes) ==
  LET from == at * x.width
  IN [x EXCEPT !.sound = @ /\ from + Len(bytes) <= Len(x.buf),
               !.buf = [i \in DOMAIN @ |->
                          IF i - from \in DOMAIN bytes THEN bytes[i - from] ELSE @[i]]]

\* memmove within the buffer.
MoveBytes(x, from, to, n) ==
  LET moved == [Write(x, to, SubSeq(x.buf, from * x.width + 1, (from + n) * x.width))
                  EXCEPT !.sound = @ /\ x.sound /\ InBuffer(x, from, n)]
  IN IF n = 0 THEN x ELSE moved

Zero(w) == [i \in 1..w |-> 0]
Repeat(n, elem) == [i \in 1..n * Len(elem) |-> elem[((i - 1) % Len(elem)) + 1]]

\* The end is set; what is behind it no longer means anything.
SetSize(x, n) ==
  [x EXCEPT !.size = n, !.sound = @ /\ InBuffer(x, 0, n),
            !.buf = [i \in DOMAIN @ |-> IF i <= n * x.width THEN @[i] ELSE Junk]]

\* a_realloc_begin, a_expand_begin or malloc_copy to a capacity of n elements:
\* at least the bytes up to the end come along.
Reallocated(x, n) ==
  LET kept == SubSeq(x.buf, 1, x.size * x.width)
  IN [x EXCEPT !.buf = kept \o JunkBytes(n * x.width - Len(kept)), !.cap = n]

\* get_new_capacity: what is asked for, or grown by roughly 1.5 until it fits.
NewCapacity(cap, want) ==
  LET grown[c \in 0..3 * want + 1] == IF c >= want THEN c ELSE grown[(3 * c + 1) \div 2]
  IN IF cap = 0 THEN want ELSE grown[cap]

PodReserved(x, want) ==
  IF want <= x.cap THEN x ELSE Reallocated(x, NewCapacity(x.cap, want))

\* resize(n): new elements are zero.
PodResized(x, n) ==
  LET r == PodReserved(x, n)
  IN SetSize(Write(r, r.size, Repeat(n - r.size, Zero(r.width))), n)

\* resize(n, val): fills n elements from the end on, whatever the size was.
PodFilledUp(x, n, elem) == LET r == PodReserved(x, n)
                           IN SetSize(Write(r, r.size, Repeat(n, elem)), n)

MakeGap(x, pos, num) == MoveBytes(x, pos, pos + num, x.size - pos)

\* grow_at beyond the capacity, to a new buffer: what is behind the hole goes
\* behind it at once.
GrowCopied(x, pos, num) ==
  LET w == x.width
      head == SubSeq(x.buf, 1, pos * w)
      tail == SubSeq(x.buf, pos * w + 1, x.size * w)
      cap == NewCapacity(x.cap, x.size + num)
  IN [x EXCEPT !.cap = cap,
               !.buf = head \o JunkBytes(num * w) \o tail
                         \o JunkBytes((cap - x.size - num) * w)]

\* Faulty variant of PodGrown: the elements behind the hole are not moved when
\* the buffer was extended where it is.
PodGrownNoGap(x, pos, num, copies) ==
  LET s == x.size
      x1 == CASE pos = s -> PodResized(x, s + num)
              [] pos < s /\ s + num <= x.cap -> MakeGap(x, pos, num)
              [] pos < s /\ s + num > x.cap /\ copies -> GrowCopied(x, pos, num)
              [] OTHER -> Reallocated(x, NewCapacity(x.cap, s + num))
  IN [x1 EXCEPT !.size = s + num]

\* grow_at: leaves a hole of num elements at the position.
PodGrown(x, pos, num, copies) ==
  LET s == x.size
      x1 == CASE pos = s -> PodResized(x, s + num)
              [] pos < s /\ s + num <= x.cap -> MakeGap(x, pos, num)
              [] pos < s /\ s + num > x.cap /\ copies -> GrowCopied(x, pos, num)
              [] OTHER -> MakeGap(Reallocated(x, NewCapacity(x.cap, s + num)), pos, num)
  IN [x1 EXCEPT !.size = s + num]

\* shrink_at
PodShrunk(x, pos, num) ==
  IF x.size = num THEN SetSize(x, 0)
  ELSE SetSize(MoveBytes(x, pos + num, pos, x.size - pos - num), x.size - num)

\* safe_grow: the contents are not needed any more, so they are not copied.
SafeGrown(x, want) ==
  LET cap == NewCapacity(x.cap, want)
  IN IF want <= x.cap THEN x
     ELSE [x EXCEPT !.cap = cap, !.size = 0, !.buf = JunkBytes(cap * x.width)]

\* assign_fill and assign_copy
PodAssigned(x, bytes) ==
  LET n == Len(bytes) \div x.width
  IN SetSize(Write(SafeGrown(x, n), 0, bytes), n)

PodShrunkToFit(x) ==
  CASE x.size = x.cap -> x
    [] x.size # x.cap /\ x.size = 0 -> FreshPod(x.width)
    [] OTHER -> Reallocated(x, x.size)

PodContents(x) == SubSeq(x.buf, 1, x.size * x.width)

\* Whole elements of width w in a sequence of bytes: the rest is lost in a recast.
Whole(bytes, w) == SubSeq(bytes, 1, (Len(bytes) \div w) * w)

\* recast_take_from: the buffer of a vector of other elements.
RecastTaken(x, y) ==
  [x EXCEPT !.buf = y.buf, !.cap = (y.width * y.cap) \div x.width,
            !.size = (y.size * y.width) \div x.width]

-----------------------------------------------------------------------------
(* The member functions.                                                     *)

PodUpdate(v, x, ref) ==
  /\ pv' = [pv EXCEPT ![v] = x]
  /\ pvRef' = [pvRef EXCEPT ![v] = ref]

Exists(v) == pv[v].width > 0
Width(v) == pv[v].width
Size(v) == pv[v].size
Fits(v, n) == n * Width(v) <= PodMaxBytes
Elems(v) == [1..Width(v) -> PodBytes]

\* Arguments: at most two elements.
Values(w) == UNION {[1..n * w -> PodBytes] : n \in 0..2}

\* The bytes of a sequence with those from element pos to element to replaced.
Spliced(v, pos, to, bytes) ==
  SubSeq(pvRef[v], 1, pos * Width(v)) \o bytes
    \o SubSeq(pvRef[v], to * Width(v) + 1, Len(pvRef[v]))

RefResized(v, n, elem) ==
  [i \in 1..n * Width(v) |->
     IF i <= Len(pvRef[v]) THEN pvRef[v][i] ELSE elem[((i - 1) % Width(v)) + 1]]

PodConstruct(v) ==
  /\ ~Exists(v)
  /\ \E w \in Widths : \E bytes \in Values(w) :
       Len(bytes) <= PodMaxBytes /\ PodUpdate(v, PodAssigned(FreshPod(w), bytes), bytes)

PodConstructCount(v) ==
  /\ ~Exists(v)
  /\ \E w \in Widths, n \in 1..2 :
       n * w <= PodMaxBytes /\ PodUpdate(v, PodResized(FreshPod(w), n), Repeat(n, Zero(w)))

PodCopyConstruct(v, u) ==
  /\ ~Exists(v) /\ Exists(u)
  /\ PodUpdate(v, PodAssigned(FreshPod(Width(u)), PodContents(pv[u])), pvRef[u])

\* The move constructor, and with an existing vector the move assignment.
PodMove(v, u) ==
  /\ v # u /\ Exists(u) /\ (Exists(v) => Width(v) = Width(u))
  /\ pv' = [pv EXCEPT ![v] = pv[u], ![u] = FreshPod(Width(u))]
  /\ pvRef' = [pvRef EXCEPT ![v] = pvRef[u], ![u] = <<>>]

PodCopyAssign(v, u) ==
  /\ v # u /\ Exists(v) /\ Exists(u) /\ Width(v) = Width(u)
  /\ PodUpdate(v, PodAssigned(SetSize(pv[v], 0), PodContents(pv[u])), pvRef[u])

RecastCopyFrom(v, u) ==
  /\ v # u /\ Exists(v) /\ Exists(u) /\ Width(v) # Width(u)
  /\ PodUpdate(v, PodAssigned(SetSize(pv[v], 0), Whole(PodContents(pv[u]), Width(v))),
               Whole(pvRef[u], Width(v)))

RecastTakeFrom(v, u) ==
  /\ v # u /\ Exists(v) /\ Exists(u) /\ Width(v) # Width(u)
  /\ pv' = [pv EXCEPT ![v] = RecastTaken(pv[v], pv[u]), ![u] = FreshPod(Width(u))]
  /\ pvRef' = [pvRef EXCEPT ![v] = Whole(pvRef[u], Width(v)), ![u] = <<>>]

PodDestruct(v) == Exists(v) /\ PodUpdate(v, NoPod, <<>>)

PodAssign(v) ==
  /\ Exists(v)
  /\ \E bytes \in Values(Width(v)) :
       Len(bytes) <= PodMaxBytes /\ PodUpdate(v, PodAssigned(pv[v], bytes), bytes)

PodReserve(v) ==
  /\ Exists(v)
  /\ \E n \in 1..PodMaxBytes : Fits(v, n) /\ PodUpdate(v, PodReserved(pv[v], n), pvRef[v])

PodShrinkToFit(v) == Exists(v) /\ PodUpdate(v, PodShrunkToFit(pv[v]), pvRef[v])
PodClear(v) == Exists(v) /\ PodUpdate(v, SetSize(pv[v], 0), <<>>)

PodInsert(v) ==
  /\ Exists(v)
  /\ \E pos \in 0..Size(v), bytes \in Values(Width(v)), copies \in BOOLEAN :
       LET num == Len(bytes) \div Width(v) IN
       /\ Fits(v, Size(v) + num)
       /\ PodUpdate(v, Write(PodGrown(pv[v], pos, num, copies), pos, bytes),
                    Spliced(v, pos, pos, bytes))

\* push_back and emplace_back
PodPushBack(v) ==
  /\ Exists(v) /\ Fits(v, Size(v) + 1)
  /\ \E elem \in Elems(v) :
       LET r == PodReserved(pv[v], Size(v) + 1)
       IN PodUpdate(v, Write(SetSize(r, Size(v) + 1), Size(v), elem), pvRef[v] \o elem)

PodErase(v) ==
  /\ Exists(v)
  /\ \E pos \in 0..Size(v), num \in 0..Size(v) :
       /\ pos + num <= Size(v)
       /\ PodUpdate(v, PodShrunk(pv[v], pos, num), Spliced(v, pos, pos + num, <<>>))

PodPopBack(v) ==
  /\ Exists(v) /\ Size(v) > 0
  /\ PodUpdate(v, PodShrunk(pv[v], Size(v) - 1, 1), Spliced(v, Size(v) - 1, Size(v), <<>>))

PodResize(v) ==
  /\ Exists(v)
  /\ \E n \in 0..PodMaxBytes :
       /\ Fits(v, n)
       /\ PodUpdate(v, PodResized(pv[v], n),
                    RefResized(v, n, Zero(Width(v))))

PodResizeValue(v) ==
  /\ Exists(v) /\ (FillsUp \/ Size(v) = 0)
  /\ \E n \in 0..PodMaxBytes, elem \in Elems(v) :
       /\ Fits(v, n)
       /\ PodUpdate(v, PodFilledUp(pv[v], n, elem),
                    RefResized(v, n, elem))

PodSwap(v, u) ==
  /\ v # u /\ Exists(v) /\ Exists(u) /\ Width(v) = Width(u)
  /\ pv' = [pv EXCEPT ![v] = pv[u], ![u] = pv[v]]
  /\ pvRef' = [pvRef EXCEPT ![v] = pvRef[u], ![u] = pvRef[v]]

PodCall(v) ==
  \/ PodConstruct(v) \/ PodConstructCount(v) \/ PodDestruct(v) \/ PodAssign(v)
  \/ PodReserve(v) \/ PodShrinkToFit(v) \/ PodClear(v) \/ PodInsert(v)
  \/ PodPushBack(v) \/ PodErase(v) \/ PodPopBack(v) \/ PodResize(v) \/ PodResizeValue(v)

PodNext ==
  \/ \E v \in PodVectors : PodCall(v)
  \/ \E v, u \in PodVectors :
       \/ PodCopyConstruct(v, u) \/ PodMove(v, u) \/ PodCopyAssign(v, u)
       \/ RecastCopyFrom(v, u) \/ RecastTakeFrom(v, u) \/ PodSwap(v, u)

PodSpec == PodInit /\ [][PodNext]_podVars

-----------------------------------------------------------------------------
\* "Similar to std::vector" with "the same public methods" (pod_vector.hpp, lines
\* 52 to 54): no call touches a byte outside the allocation, the capacity the
\* vector believes is there, and through every reallocation, gap and recast its
\* bytes are those of a std::vector after the same calls, none of them Junk.
PodLikeStdVector ==
  \A v \in PodVectors :
    LET x == pv[v] IN
      /\ x.sound /\ x.size <= x.cap /\ x.cap * x.width <= Len(x.buf)
      /\ PodContents(x) = pvRef[v]
=============================================================================
