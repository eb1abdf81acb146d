------------------------ MODULE BufferedChannelProofs ------------------------
(***************************************************************************)
(* The safety of buffered_channel for every capacity, every number of      *)
(* messages and every set of closing threads.                              *)
(*                                                                         *)
(* The invariants the runs check are not inductive one by one: that no     *)
(* wakeup is lost rests on what a stored task says of the queue (NotifyInv)*)
(* and that in turn on the critical sections taking the task whenever they *)
(* change what it stands for.                                              *)
(***************************************************************************)
EXTENDS BufferedChannel, SequenceTheorems, FiniteSetTheorems, TLAPS

\* What a stored task says of the channel: the reader's is there only while the
\* queue is empty, the writer's only while it is full, and neither once closed.
NotifyInv ==
  /\ notify = Reader => queue = <<>> /\ ~closed
  /\ notify = Writer => Len(queue) = MaxSize /\ ~closed

Safety == TypeOK /\ NotifyInv /\ NoLostWakeup

\* A new channel is empty, open and holds no callback.
LEMMA InitSafety == ChanInit => Safety
<1> SUFFICES ASSUME ChanInit PROVE Safety
  OBVIOUS
<1> USE ThreadsAssumption, SizeAssumption
<1>1. TypeOK
  <2>1. queue \in Seq(Nat) /\ Len(queue) = 0
    BY DEF ChanInit
  <2>2. Len(queue) <= MaxSize
    BY <2>1
  <2>3. outcome \in [Sides -> Outcome]
    BY DEF ChanInit, Outcome
  <2> QED
    BY <2>1, <2>2, <2>3 DEF ChanInit, TypeOK, Task
<1>2. NotifyInv /\ NoLostWakeup
  BY DEF ChanInit, NotifyInv, NoLostWakeup, Sides
<1> QED
  BY <1>1, <1>2 DEF Safety

\* The type invariant is preserved on its own.
LEMMA TypeStep == TypeOK /\ [ChanNext]_chanVars => TypeOK'
<1> SUFFICES ASSUME TypeOK, [ChanNext]_chanVars PROVE TypeOK'
  OBVIOUS
<1> USE ThreadsAssumption, SizeAssumption DEF TypeOK, Task, Sides, Threads, Outcome
<1>1. CASE WriteClosed
  BY <1>1 DEF WriteClosed, Ends
<1>2. CASE WriteSuccess
  <2>1. /\ queue' \in Seq(Nat)
        /\ Len(queue') = Len(queue) + 1
    BY <1>2 DEF WriteSuccess
  <2>2. Len(queue') <= MaxSize
    BY <1>2, <2>1 DEF WriteSuccess
  <2> QED
    BY <1>2, <2>1, <2>2 DEF WriteSuccess, UnlockNotify, Ends
<1>3. ASSUME NEW cb \in {Writer, None}, WriteBlocked(cb) PROVE TypeOK'
  BY <1>3 DEF WriteBlocked, Block, Ends
<1>4. CASE ReadSuccess
  <2>1. /\ queue' \in Seq(Nat)
        /\ Len(queue') = Len(queue) - 1
        /\ lastRead' \in Nat
    BY <1>4 DEF ReadSuccess
  <2>2. Len(queue') <= MaxSize
    BY <2>1
  <2> QED
    BY <1>4, <2>1, <2>2 DEF ReadSuccess, UnlockNotify, Ends
<1>5. CASE ReadClosed
  BY <1>5 DEF ReadClosed, Ends
<1>6. ASSUME NEW cb \in {Reader, None}, ReadBlocked(cb) PROVE TypeOK'
  BY <1>6 DEF ReadBlocked, Block, Ends
<1>7. ASSUME NEW t \in Threads, Close(t) PROVE TypeOK'
  BY <1>7 DEF Close, UnlockNotify
<1>8. ASSUME NEW t \in Threads, Deliver(t) PROVE TypeOK'
  BY <1>8 DEF Deliver, Free
<1>9. CASE UNCHANGED chanVars
  BY <1>9 DEF chanVars
<1> QED
  BY <1>1, <1>2, <1>3, <1>4, <1>5, <1>6, <1>7, <1>8, <1>9 DEF ChanNext

\* Every step of buffered_channel, taken under m_mutex or on the way to it,
\* keeps the safety invariant.
LEMMA SafetyStep == Safety /\ [ChanNext]_chanVars => Safety'
<1> SUFFICES ASSUME Safety, [ChanNext]_chanVars PROVE Safety'
  OBVIOUS
<1> USE ThreadsAssumption, SizeAssumption DEF Safety
<1>0. TypeOK /\ TypeOK'
  BY TypeStep
<1>1. CASE WriteClosed
  BY <1>0, <1>1 DEF WriteClosed, Ends, NotifyInv, NoLostWakeup, CanGoOn, TypeOK, Sides
<1>2. CASE WriteSuccess
  <2>1. NotifyInv'
    BY <1>2 DEF WriteSuccess, UnlockNotify, NotifyInv
  <2>2. ASSUME NEW s \in Sides, outcome'[s] = "waiting"
        PROVE \E t \in Threads : inflight'[t] = s
    <3>1. s = Reader /\ outcome[Reader] = "waiting"
      BY <1>0, <1>2, <2>2 DEF WriteSuccess, Ends, TypeOK, Sides
    <3>2. CASE notify = Reader
      BY <1>0, <1>2, <3>1, <3>2 DEF WriteSuccess, UnlockNotify, TypeOK, Threads, Sides
    <3>3. CASE \E t \in Threads : inflight[t] = Reader
      <4>1. PICK t \in Threads : inflight[t] = Reader
        BY <3>3
      <4>2. t # Writer
        BY <1>2, <4>1 DEF WriteSuccess, Free
      <4> QED
        BY <1>0, <1>2, <3>1, <4>1, <4>2 DEF WriteSuccess, UnlockNotify, TypeOK
    <3> QED
      BY <3>1, <3>2, <3>3 DEF NoLostWakeup, Sides
  <2> QED
    BY <1>0, <2>1, <2>2 DEF NoLostWakeup
<1>3. ASSUME NEW cb \in {Writer, None}, WriteBlocked(cb) PROVE Safety'
  <2>1. Len(queue) = MaxSize /\ queue # <<>> /\ ~closed /\ notify # Reader
    BY <1>0, <1>3 DEF WriteBlocked, NotifyInv, TypeOK
  <2>2. NotifyInv'
    BY <1>3, <2>1 DEF WriteBlocked, Block, NotifyInv
  <2>3. NoLostWakeup'
    BY <1>0, <1>3, <2>1
       DEF WriteBlocked, Block, Ends, NoLostWakeup, CanGoOn, TypeOK, Sides
  <2> QED
    BY <1>0, <2>2, <2>3
<1>4. CASE ReadSuccess
  <2>1. NotifyInv'
    BY <1>4 DEF ReadSuccess, UnlockNotify, NotifyInv
  <2>2. ASSUME NEW s \in Sides, outcome'[s] = "waiting"
        PROVE \E t \in Threads : inflight'[t] = s
    <3>1. s = Writer /\ outcome[Writer] = "waiting"
      BY <1>0, <1>4, <2>2 DEF ReadSuccess, Ends, TypeOK, Sides
    <3>2. CASE notify = Writer
      BY <1>0, <1>4, <3>1, <3>2 DEF ReadSuccess, UnlockNotify, TypeOK, Threads, Sides
    <3>3. CASE \E t \in Threads : inflight[t] = Writer
      <4>1. PICK t \in Threads : inflight[t] = Writer
        BY <3>3
      <4>2. t # Reader
        BY <1>4, <4>1 DEF ReadSuccess, Free
      <4> QED
        BY <1>0, <1>4, <3>1, <4>1, <4>2 DEF ReadSuccess, UnlockNotify, TypeOK
    <3> QED
      BY <3>1, <3>2, <3>3 DEF NoLostWakeup, Sides
  <2> QED
    BY <1>0, <2>1, <2>2 DEF NoLostWakeup
<1>5. CASE ReadClosed
  BY <1>0, <1>5 DEF ReadClosed, Ends, NotifyInv, NoLostWakeup, CanGoOn, TypeOK, Sides
<1>6. ASSUME NEW cb \in {Reader, None}, ReadBlocked(cb) PROVE Safety'
  <2>1. queue = <<>> /\ Len(queue) # MaxSize /\ ~closed /\ notify # Writer
    BY <1>0, <1>6 DEF ReadBlocked, NotifyInv, TypeOK
  <2>2. NotifyInv'
    BY <1>6, <2>1 DEF ReadBlocked, Block, NotifyInv
  <2>3. NoLostWakeup'
    BY <1>0, <1>6, <2>1
       DEF ReadBlocked, Block, Ends, NoLostWakeup, CanGoOn, TypeOK, Sides
  <2> QED
    BY <1>0, <2>2, <2>3
<1>7. ASSUME NEW t \in Threads, Close(t) PROVE Safety'
  <2>1. NotifyInv'
    BY <1>7 DEF Close, UnlockNotify, NotifyInv
  <2>2. ASSUME NEW s \in Sides, outcome'[s] = "waiting"
        PROVE \E u \in Threads : inflight'[u] = s
    <3>1. outcome[s] = "waiting"
      BY <1>7, <2>2 DEF Close
    <3>2. CASE notify = s
      BY <1>0, <1>7, <3>2 DEF Close, UnlockNotify, TypeOK
    <3>3. CASE \E u \in Threads : inflight[u] = s
      <4>1. PICK u \in Threads : inflight[u] = s
        BY <3>3
      <4>2. u # t
        BY <1>7, <4>1 DEF Close, Free, Sides
      <4> QED
        BY <1>0, <1>7, <4>1, <4>2 DEF Close, UnlockNotify, TypeOK
    <3> QED
      BY <3>1, <3>2, <3>3 DEF NoLostWakeup
  <2> QED
    BY <1>0, <2>1, <2>2 DEF NoLostWakeup
<1>8. ASSUME NEW t \in Threads, Deliver(t) PROVE Safety'
  <2>1. NotifyInv'
    BY <1>8 DEF Deliver, NotifyInv
  <2>2. inflight[t] \in Sides
    BY <1>0, <1>8 DEF Deliver, Free, TypeOK, Task
  <2>3. ASSUME NEW s \in Sides, outcome'[s] = "waiting"
        PROVE /\ outcome[s] = "waiting"
              /\ \A u \in Threads : inflight[u] = s => inflight'[u] = s
    BY <1>0, <1>8, <2>2, <2>3 DEF Deliver, TypeOK
  <2>4. NoLostWakeup'
    BY <1>8, <2>3 DEF Deliver, NoLostWakeup, CanGoOn
  <2> QED
    BY <1>0, <2>1, <2>4
<1>9. CASE UNCHANGED chanVars
  BY <1>0, <1>9 DEF chanVars, NotifyInv, NoLostWakeup, CanGoOn
<1> QED
  BY <1>1, <1>2, <1>3, <1>4, <1>5, <1>6, <1>7, <1>8, <1>9 DEF ChanNext

\* The variables always hold what buffered_channel can hold; in particular the
\* queue never exceeds m_max_size.
THEOREM TypeCorrect == ChanSpec => []TypeOK
<1>1. ChanInit => TypeOK
  BY InitSafety DEF Safety
<1> QED
  BY <1>1, TypeStep, PTL DEF ChanSpec

\* The asserts of write and read and the stored callbacks agree with the queue
\* in every reachable state.
THEOREM SafetyCorrect == ChanSpec => []Safety
BY InitSafety, SafetyStep, PTL DEF ChanSpec

\* The asserts of write and read never fire for one reader and one writer.
THEOREM AssertsHold == ChanSpec => []ChannelAsserts
<1>1. Safety => ChannelAsserts
  BY ThreadsAssumption DEF Safety, TypeOK, Task, Sides, NotifyInv, ChannelAsserts
<1> QED
  BY <1>1, SafetyCorrect, PTL

\* No callback left in the channel is forgotten while its operation could go on.
THEOREM NoWakeupLost == ChanSpec => []NoLostWakeup
<1>1. Safety => NoLostWakeup
  BY DEF Safety
<1> QED
  BY <1>1, SafetyCorrect, PTL

-----------------------------------------------------------------------------
\* Order and end of stream.
Stream == TypeOK /\ FifoOrder /\ ClosedAfterDrain

\* Nothing has been sent or received when a channel is made.
LEMMA InitStream == ChanInit => Stream
<1> SUFFICES ASSUME ChanInit PROVE FifoOrder /\ ClosedAfterDrain
  BY InitSafety DEF Stream, Safety
<1>1. Len(queue) = 0
  BY DEF ChanInit
<1> QED
  BY <1>1 DEF ChanInit, FifoOrder, ClosedAfterDrain, Sides

\* Every read, write and close of the channel keeps the order of messages and
\* the end of the stream.
LEMMA StreamStep == Stream /\ [ChanNext]_chanVars => Stream'
<1> SUFFICES ASSUME Stream, [ChanNext]_chanVars PROVE FifoOrder' /\ ClosedAfterDrain'
  BY TypeStep DEF Stream
<1> USE ThreadsAssumption, SizeAssumption DEF Stream
<1>0. TypeOK
  OBVIOUS
<1>1. CASE WriteClosed
  BY <1>0, <1>1 DEF WriteClosed, Ends, FifoOrder, ClosedAfterDrain, TypeOK, Sides
<1>2. CASE WriteSuccess
  <2>1. queue' = Append(queue, written + 1) /\ written' = written + 1 /\ lastRead' = lastRead
    BY <1>2 DEF WriteSuccess
  <2>2. Len(queue') = Len(queue) + 1
    BY <1>0, <2>1 DEF TypeOK
  <2>3. ASSUME NEW i \in 1..Len(queue') PROVE queue'[i] = lastRead' + i
    <3>1. CASE i = Len(queue) + 1
      BY <1>0, <2>1, <3>1 DEF TypeOK, FifoOrder
    <3>2. CASE i # Len(queue) + 1
      <4>1. i \in 1..Len(queue)
        BY <1>0, <2>2, <3>2 DEF TypeOK
      <4>2. queue'[i] = queue[i]
        BY <1>0, <2>1, <4>1 DEF TypeOK
      <4> QED
        BY <2>1, <4>1, <4>2 DEF FifoOrder
    <3> QED
      BY <3>1, <3>2
  <2>4. FifoOrder'
    BY <1>0, <2>1, <2>2, <2>3 DEF FifoOrder, TypeOK
  <2>5. ClosedAfterDrain'
    BY <1>0, <1>2 DEF WriteSuccess, Ends, ClosedAfterDrain, TypeOK, Sides
  <2> QED
    BY <2>4, <2>5
<1>3. ASSUME NEW cb \in {Writer, None}, WriteBlocked(cb)
      PROVE FifoOrder' /\ ClosedAfterDrain'
  BY <1>0, <1>3
     DEF WriteBlocked, Block, Ends, FifoOrder, ClosedAfterDrain, TypeOK, Sides
<1>4. CASE ReadSuccess
  <2>1. queue # <<>> /\ lastRead' = Head(queue) /\ queue' = Tail(queue) /\ written' = written
    BY <1>4 DEF ReadSuccess
  <2>2. Len(queue) >= 1 /\ Len(queue') = Len(queue) - 1
    BY <1>0, <2>1 DEF TypeOK
  <2>3. lastRead' = lastRead + 1
    BY <1>0, <2>1, <2>2 DEF TypeOK, FifoOrder
  <2>4. ASSUME NEW i \in 1..Len(queue') PROVE queue'[i] = lastRead' + i
    <3>1. i + 1 \in 1..Len(queue)
      BY <1>0, <2>2 DEF TypeOK
    <3>2. queue'[i] = queue[i + 1]
      BY <1>0, <2>1, <2>2, <3>1 DEF TypeOK
    <3> QED
      BY <1>0, <2>3, <3>1, <3>2 DEF FifoOrder, TypeOK
  <2>5. FifoOrder'
    BY <1>0, <2>1, <2>2, <2>3, <2>4 DEF FifoOrder, TypeOK
  <2>6. ClosedAfterDrain'
    BY <1>0, <1>4 DEF ReadSuccess, Ends, ClosedAfterDrain, TypeOK, Sides
  <2> QED
    BY <2>5, <2>6
<1>5. CASE ReadClosed
  <2>1. closed /\ written = lastRead
    <3>1. Len(queue) = 0
      BY <1>5 DEF ReadClosed
    <3> QED
      BY <1>0, <1>5, <3>1 DEF ReadClosed, FifoOrder, TypeOK
  <2> QED
    BY <1>5, <2>1 DEF ReadClosed, FifoOrder, ClosedAfterDrain
<1>6. ASSUME NEW cb \in {Reader, None}, ReadBlocked(cb)
      PROVE FifoOrder' /\ ClosedAfterDrain'
  BY <1>0, <1>6
     DEF ReadBlocked, Block, Ends, FifoOrder, ClosedAfterDrain, TypeOK, Sides
<1>7. ASSUME NEW t \in Threads, Close(t) PROVE FifoOrder' /\ ClosedAfterDrain'
  BY <1>7 DEF Close, FifoOrder, ClosedAfterDrain
<1>8. ASSUME NEW t \in Threads, Deliver(t) PROVE FifoOrder' /\ ClosedAfterDrain'
  BY <1>0, <1>8 DEF Deliver, FifoOrder, ClosedAfterDrain, TypeOK, Sides
<1>9. CASE UNCHANGED chanVars
  BY <1>9 DEF chanVars, FifoOrder, ClosedAfterDrain
<1> QED
  BY <1>1, <1>2, <1>3, <1>4, <1>5, <1>6, <1>7, <1>8, <1>9 DEF ChanNext

\* The stream of one writer arrives in order and ends only once it is drained.
THEOREM StreamCorrect == ChanSpec => []Stream
BY InitStream, StreamStep, PTL DEF ChanSpec

\* No message is lost, repeated or overtaken, however reads, writes and closes
\* interleave.
THEOREM FifoHolds == ChanSpec => []FifoOrder
<1>1. Stream => FifoOrder
  BY DEF Stream
<1> QED
  BY <1>1, StreamCorrect, PTL

\* The end of the stream is reported only when the queue has been drained, and
\* nothing is accepted afterwards.
THEOREM EndIsFinal == ChanSpec => []ClosedAfterDrain
<1>1. Stream => ClosedAfterDrain
  BY DEF Stream
<1> QED
  BY <1>1, StreamCorrect, PTL

-----------------------------------------------------------------------------
\* For the modules that put wait objects on top of a channel.

\* An operation of one side leaves what the other side was told alone.
LEMMA OpsTouchOwnOutcome ==
  ASSUME TypeOK, NEW s \in Sides, NEW r \in Sides, r # s, NEW cb,
         OpSuccess(s) \/ OpClosed(s) \/ OpBlocked(s, cb)
  PROVE  outcome'[r] = outcome[r]
<1>1. \E o : Ends(s, o)
  BY DEF Sides, OpSuccess, OpClosed, OpBlocked, WriteSuccess, WriteClosed,
         WriteBlocked, ReadSuccess, ReadClosed, ReadBlocked, Block
<1> QED
  BY <1>1 DEF TypeOK, Ends

\* A blocked try with a callback leaves it.
LEMMA BlockedLeavesCallback ==
  ASSUME TypeOK, NEW s \in Sides, OpBlocked(s, s)
  PROVE  outcome'[s] = "waiting"
BY ThreadsAssumption
   DEF TypeOK, Sides, OpBlocked, WriteBlocked, ReadBlocked, Block, Ends

-----------------------------------------------------------------------------
(***************************************************************************)
(* Accounting for callbacks.  A callback of side s is stored in the        *)
(* channel, or taken by threads that are about to call it; there may be    *)
(* several, because a side that gave up leaves one behind.  The channel    *)
(* makes one only when an operation blocks and loses one only by calling   *)
(* it or by dropping the stored one.                                       *)
(***************************************************************************)
Takers(s) == {t \in Threads : inflight[t] = s}
Callbacks(s) == Cardinality(Takers(s)) + (IF notify = s THEN 1 ELSE 0)

\* Any number of threads may close, but only finitely many have done so.
FewTakers == \A s \in Sides : IsFiniteSet(Takers(s))

\* Taking the stored task makes its taker one of those who will call it.
LEMMA UnlockKeepsCallbacks ==
  ASSUME TypeOK, FewTakers, NEW t \in Threads, Free(t), UnlockNotify(t)
  PROVE  FewTakers' /\ \A s \in Sides : Callbacks(s)' = Callbacks(s)
<1> SUFFICES ASSUME NEW s \in Sides
             PROVE  IsFiniteSet(Takers(s)') /\ Callbacks(s)' = Callbacks(s)
  BY DEF FewTakers
<1>1. IsFiniteSet(Takers(s)) /\ s # None /\ t \notin Takers(s)
  BY ThreadsAssumption DEF FewTakers, Free, Sides, Takers
<1>2. notify' # s
  BY <1>1 DEF UnlockNotify
<1>3. Cardinality(Takers(s)) \in Nat
  BY <1>1, FS_CardinalityType
<1>4. CASE notify = s
  <2>1. Takers(s)' = Takers(s) \cup {t}
    BY <1>4 DEF UnlockNotify, TypeOK, Takers
  <2>2. IsFiniteSet(Takers(s)') /\ Cardinality(Takers(s)') = Cardinality(Takers(s)) + 1
    BY <1>1, <2>1, FS_AddElement
  <2> QED
    BY <1>2, <1>3, <1>4, <2>2 DEF Callbacks
<1>5. CASE notify # s
  <2>1. Takers(s)' = Takers(s)
    BY <1>1, <1>5 DEF UnlockNotify, TypeOK, Takers
  <2> QED
    BY <1>1, <1>2, <1>5, <2>1 DEF Callbacks
<1> QED
  BY <1>4, <1>5

\* A read or a write that goes through keeps every callback, and so does one that
\* only reports the end.
LEMMA OpsKeepCallbacks ==
  ASSUME TypeOK, FewTakers, NEW r \in Sides, OpSuccess(r) \/ OpClosed(r)
  PROVE  FewTakers' /\ \A s \in Sides : Callbacks(s)' = Callbacks(s)
<1>1. CASE OpSuccess(r)
  <2>1. r \in Threads /\ Free(r) /\ UnlockNotify(r)
    BY <1>1 DEF OpSuccess, ReadSuccess, WriteSuccess, Sides, Threads
  <2> QED
    BY <2>1, UnlockKeepsCallbacks
<1>2. CASE OpClosed(r)
  BY <1>2 DEF OpClosed, ReadClosed, WriteClosed, FewTakers, Callbacks, Takers
<1> QED
  BY <1>1, <1>2

\* A close keeps every callback.
LEMMA CloseKeepsCallbacks ==
  ASSUME TypeOK, FewTakers, NEW t \in Threads, Close(t)
  PROVE  FewTakers' /\ \A s \in Sides : Callbacks(s)' = Callbacks(s)
BY UnlockKeepsCallbacks DEF Close

\* A blocked operation puts its callback, or nothing, in the place of the task
\* that was stored.
LEMMA BlockedReplacesCallback ==
  ASSUME TypeOK, FewTakers, NEW r \in Sides, NEW cb, OpBlocked(r, cb)
  PROVE  /\ FewTakers'
         /\ \A s \in Sides : /\ notify = s => Callbacks(s) = Cardinality(Takers(s)) + 1
                             /\ Cardinality(Takers(s)) \in Nat
                             /\ Callbacks(s) >= Cardinality(Takers(s))
                             /\ Callbacks(s)' = Cardinality(Takers(s))
                                               + (IF cb = s THEN 1 ELSE 0)
<1>1. notify' = cb /\ inflight' = inflight
  BY DEF OpBlocked, ReadBlocked, WriteBlocked, Block
<1>2. \A s \in Sides : Cardinality(Takers(s)) \in Nat
  BY FS_CardinalityType DEF FewTakers
<1> QED
  BY <1>1, <1>2 DEF FewTakers, Callbacks, Takers

\* Calling a task uses it up.
LEMMA DeliverUsesCallback ==
  ASSUME TypeOK, FewTakers, NEW t \in Threads, Deliver(t)
  PROVE  /\ FewTakers'
         /\ \A s \in Sides :
              Callbacks(s)' = IF inflight[t] = s THEN Callbacks(s) - 1 ELSE Callbacks(s)
<1> SUFFICES ASSUME NEW s \in Sides
             PROVE  /\ IsFiniteSet(Takers(s)')
                    /\ Callbacks(s)' = IF inflight[t] = s THEN Callbacks(s) - 1
                                                          ELSE Callbacks(s)
  BY DEF FewTakers
<1>1. IsFiniteSet(Takers(s)) /\ s # None
  BY ThreadsAssumption DEF FewTakers, Sides
<1>2. Takers(s)' = Takers(s) \ {t} /\ notify' = notify
  BY <1>1 DEF Deliver, TypeOK, Takers
<1>3. Cardinality(Takers(s)) \in Nat
  BY <1>1, FS_CardinalityType
<1>4. /\ IsFiniteSet(Takers(s)')
      /\ Cardinality(Takers(s)') = IF t \in Takers(s) THEN Cardinality(Takers(s)) - 1
                                                     ELSE Cardinality(Takers(s))
  BY <1>1, <1>2, FS_RemoveElement
<1>5. t \in Takers(s) <=> inflight[t] = s
  BY DEF Takers
<1> QED
  BY <1>2, <1>3, <1>4, <1>5 DEF Callbacks

\* The callback of a side that waits for it is one of them.
LEMMA WaitingHasCallback ==
  ASSUME FewTakers, NoLostWakeup, NEW s \in Sides, outcome[s] = "waiting"
  PROVE  Callbacks(s) \in Nat /\ Callbacks(s) >= 1
<1>1. IsFiniteSet(Takers(s)) /\ Cardinality(Takers(s)) \in Nat
  BY FS_CardinalityType DEF FewTakers
<1>2. notify = s \/ Takers(s) # {}
  BY DEF NoLostWakeup, Takers
<1>3. Takers(s) # {} => Cardinality(Takers(s)) # 0
  BY <1>1, FS_EmptySet
<1> QED
  BY <1>1, <1>2, <1>3 DEF Callbacks

\* At the start there are none.
LEMMA InitCallbacks == ChanInit => FewTakers /\ \A s \in Sides : Callbacks(s) = 0
<1> SUFFICES ASSUME ChanInit, NEW s \in Sides
             PROVE  IsFiniteSet(Takers(s)) /\ Callbacks(s) = 0
  BY DEF FewTakers
<1>1. Takers(s) = {} /\ notify # s
  BY ThreadsAssumption DEF ChanInit, Takers, Sides
<1> QED
  BY <1>1, FS_EmptySet DEF Callbacks

\* While side s itself keeps still, its stored callback stays where it is for as
\* long as s could not go on: whoever takes it or puts another in its place does
\* so because s can go on.
Standing(s) == notify = s \/ CanGoOn(s)

\* What one side does leaves the claim of the other side standing.
LEMMA StandingStays ==
  ASSUME TypeOK, NEW s \in Sides, NEW r \in Sides, r # s, NEW cb,
         Standing(s), OpSuccess(r) \/ OpClosed(r) \/ OpBlocked(r, cb)
  PROVE  Standing(s)'
<1> USE ThreadsAssumption, SizeAssumption DEF Standing, CanGoOn
<1>1. CASE OpSuccess(r)
  <2>1. CASE r = Reader
    <3>1. s = Writer /\ queue # <<>> /\ queue' = Tail(queue)
      BY <1>1, <2>1 DEF OpSuccess, ReadSuccess, Sides
    <3>2. Len(queue') < MaxSize
      BY <3>1 DEF TypeOK
    <3> QED
      BY <3>1, <3>2
  <2>2. CASE r = Writer
    <3>1. s = Reader /\ queue' = Append(queue, written + 1)
      BY <1>1, <2>2 DEF OpSuccess, WriteSuccess, Sides
    <3>2. queue' # <<>>
      BY <3>1 DEF TypeOK
    <3> QED
      BY <3>1, <3>2
  <2> QED
    BY <2>1, <2>2 DEF Sides
<1>2. CASE OpClosed(r)
  BY <1>2 DEF OpClosed, ReadClosed, WriteClosed
<1>3. CASE OpBlocked(r, cb)
  <2>1. CASE r = Reader
    <3>1. s = Writer /\ queue = <<>> /\ queue' = queue
      BY <1>3, <2>1 DEF OpBlocked, ReadBlocked, Block, Sides
    <3> QED
      BY <3>1
  <2>2. CASE r = Writer
    <3>1. s = Reader /\ Len(queue) >= MaxSize /\ queue' = queue
      BY <1>3, <2>2 DEF OpBlocked, WriteBlocked, Block, Sides
    <3>2. queue # <<>>
      BY <3>1
    <3> QED
      BY <3>1, <3>2
  <2> QED
    BY <2>1, <2>2 DEF Sides
<1> QED
  BY <1>1, <1>2, <1>3

\* A try of s that blocks although s stands finds its own callback still stored.
LEMMA BlockedStands ==
  ASSUME TypeOK, NEW s \in Sides, NEW cb, Standing(s), OpBlocked(s, cb)
  PROVE  notify = s
BY ThreadsAssumption, SizeAssumption
   DEF TypeOK, Sides, Standing, CanGoOn, OpBlocked, ReadBlocked, WriteBlocked, Block
=============================================================================
