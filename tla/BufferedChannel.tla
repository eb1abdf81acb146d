--------------------------- MODULE BufferedChannel ---------------------------
(***************************************************************************)
(* ac::io::buffered_channel: the bounded queue behind every local          *)
(* connection of the SDK, with one reader and one writer, the use that     *)
(* make_buffered_channel_streams sets up.                                  *)
(*                                                                         *)
(* Every member function runs under m_mutex, so it is one step, except for *)
(* the end of unlock_notify: the task found in m_notify is taken under the *)
(* lock but called after it is released.  inflight[t] is the task thread t *)
(* has taken and not called yet; in between any other thread may run any   *)
(* operation, and t can do nothing else.                                   *)
(*                                                                         *)
(* The client is the most general one: reader and writer call their        *)
(* operation whenever they like, with a callback or with nullptr, and any  *)
(* thread may close.  A task is named by the side whose callback made it.  *)
(***************************************************************************)
EXTENDS Naturals, Sequences

CONSTANTS
  Reader,      \* the thread that owns the channel_read_stream
  Writer,      \* the thread that owns the channel_write_stream
  Others,      \* threads that may only close the channel
  None,        \* a null xec::task
  MaxSize,     \* m_max_size
  MaxWritten   \* bound: how many messages are ever written

ASSUME ThreadsAssumption ==
  /\ Reader # Writer
  /\ {Reader, Writer} \cap Others = {}
  /\ None \notin {Reader, Writer} \cup Others
\* A capacity of 0 makes every operation block for ever; the SDK uses 1 to 10.
ASSUME SizeAssumption == MaxSize \in Nat \ {0} /\ MaxWritten \in Nat

VARIABLES
  queue,       \* m_queue; message n is the n-th message written
  notify,      \* m_notify: the side whose task is stored, or None
  closed,      \* m_closed
  inflight,    \* per thread, the task taken by unlock_notify and not yet called
  written,     \* history: messages accepted so far
  lastRead,    \* history: the message the last successful read returned
  outcome      \* history: what the last operation of each side came to

chanVars == <<queue, notify, closed, inflight, written, lastRead, outcome>>

Sides == {Reader, Writer}
Threads == Sides \cup Others
Task == Sides \cup {None}

\* "waiting": the operation blocked and left a callback; "woken": and that
\* callback was called; "blocked": it blocked and left none.
Outcome == {"idle", "success", "closed", "blocked", "waiting", "woken"}

ChanInit ==
  /\ queue = <<>>
  /\ notify = None
  /\ closed = FALSE
  /\ inflight = [t \in Threads |-> None]
  /\ written = 0
  /\ lastRead = 0
  /\ outcome = [s \in Sides |-> "idle"]

-----------------------------------------------------------------------------
\* Thread t is not between taking a task and returning from it.
Free(t) == inflight[t] = None

\* Faulty variant of UnlockNotify: the task is cleared and never called.
UnlockForgets(t) == notify' = None /\ UNCHANGED inflight

\* unlock_notify: take the task and leave the critical section with it.
UnlockNotify(t) ==
  /\ notify' = None
  /\ inflight' = [inflight EXCEPT ![t] = notify]

Ends(s, o) == outcome' = [outcome EXCEPT ![s] = o]

\* block: store the caller's callback, or clear the slot for nullptr.  The
\* task that was there goes back to the caller, and stream_op drops it.
Block(s, cb) ==
  /\ notify' = cb
  /\ Ends(s, IF cb = None THEN "blocked" ELSE "waiting")
  /\ UNCHANGED <<queue, closed, inflight, written, lastRead>>

\* Faulty variants.  Each one is an operation below with a plausible mistake,
\* kept to show that the properties at the end can fail.
WriteSilently ==
  /\ Free(Writer) /\ ~closed
  /\ Len(queue) < MaxSize /\ written < MaxWritten
  /\ written' = written + 1
  /\ queue' = Append(queue, written + 1)
  /\ Ends(Writer, "success")
  /\ UNCHANGED <<closed, lastRead, notify, inflight>>

ReadClosedEarly ==
  /\ Free(Reader) /\ closed
  /\ Ends(Reader, "closed")
  /\ UNCHANGED <<queue, notify, closed, inflight, written, lastRead>>

CloseSilently(t) ==
  /\ Free(t)
  /\ closed' = TRUE
  /\ UNCHANGED <<queue, notify, inflight, written, lastRead, outcome>>

\* The operations.
WriteClosed ==
  /\ Free(Writer) /\ closed
  /\ Ends(Writer, "closed")
  /\ UNCHANGED <<queue, notify, closed, inflight, written, lastRead>>

WriteSuccess ==
  /\ Free(Writer) /\ ~closed
  /\ Len(queue) < MaxSize
  /\ written < MaxWritten
  /\ written' = written + 1
  /\ queue' = Append(queue, written + 1)
  /\ UnlockNotify(Writer)
  /\ Ends(Writer, "success")
  /\ UNCHANGED <<closed, lastRead>>

WriteBlocked(cb) ==
  /\ Free(Writer) /\ ~closed
  /\ Len(queue) >= MaxSize
  /\ written < MaxWritten   \* it has a message to write
  /\ Block(Writer, cb)

ReadSuccess ==
  /\ Free(Reader)
  /\ queue # <<>>
  /\ lastRead' = Head(queue)
  /\ queue' = Tail(queue)
  /\ UnlockNotify(Reader)
  /\ Ends(Reader, "success")
  /\ UNCHANGED <<closed, written>>

ReadClosed ==
  /\ Free(Reader)
  /\ queue = <<>> /\ closed
  /\ Ends(Reader, "closed")
  /\ UNCHANGED <<queue, notify, closed, inflight, written, lastRead>>

ReadBlocked(cb) ==
  /\ Free(Reader)
  /\ queue = <<>> /\ ~closed
  /\ Block(Reader, cb)

\* close: also what the destructor of either stream does.
Close(t) ==
  /\ Free(t)
  /\ closed' = TRUE
  /\ UnlockNotify(t)
  /\ UNCHANGED <<queue, written, lastRead, outcome>>

\* notify(), outside the lock.
Deliver(t) ==
  /\ ~Free(t)
  /\ inflight' = [inflight EXCEPT ![t] = None]
  /\ outcome' = [outcome EXCEPT ![inflight[t]] =
                   IF @ = "waiting" THEN "woken" ELSE @]
  /\ UNCHANGED <<queue, notify, closed, written, lastRead>>

\* stream_op for the stream of side s, by its three results.
OpSuccess(s) == IF s = Reader THEN ReadSuccess ELSE WriteSuccess
OpClosed(s) == IF s = Reader THEN ReadClosed ELSE WriteClosed
OpBlocked(s, cb) == IF s = Reader THEN ReadBlocked(cb) ELSE WriteBlocked(cb)

ChanNext ==
  \/ WriteClosed
  \/ WriteSuccess
  \/ \E cb \in {Writer, None} : WriteBlocked(cb)
  \/ ReadSuccess
  \/ ReadClosed
  \/ \E cb \in {Reader, None} : ReadBlocked(cb)
  \/ \E t \in Threads : Close(t) \/ Deliver(t)

ChanSpec == ChanInit /\ [][ChanNext]_chanVars

-----------------------------------------------------------------------------
TypeOK ==
  /\ queue \in Seq(Nat)
  /\ Len(queue) <= MaxSize
  /\ notify \in Task
  /\ closed \in BOOLEAN
  /\ inflight \in [Threads -> Task]
  /\ written \in Nat
  /\ lastRead \in Nat
  /\ outcome \in [Sides -> Outcome]

\* The operation of side s would not block if it were tried now.
CanGoOn(s) ==
  \/ closed
  \/ s = Reader /\ queue # <<>>
  \/ s = Writer /\ Len(queue) < MaxSize

\* The four asserts on m_notify in write (lines 50 and 54) and read (68 and 75)
\* hold whenever the operation that contains them runs.
ChannelAsserts ==
  /\ closed => notify = None
  /\ ~closed /\ Len(queue) < MaxSize => queue = <<>> \/ notify = None
  /\ queue # <<>> => Len(queue) = MaxSize \/ notify = None
  /\ queue = <<>> /\ closed => notify = None

\* No lost wakeup: a side that blocked leaving a callback has its task stored
\* in the channel, or taken by a thread that is about to call it; and when its
\* operation could go on, it is the second: nobody else will come to take it.
NoLostWakeup ==
  \A s \in Sides : outcome[s] = "waiting" =>
     \/ \E t \in Threads : inflight[t] = s
     \/ notify = s /\ ~CanGoOn(s)

\* Nothing is lost, repeated or reordered: what is in the queue is exactly the
\* messages accepted after the last one read, in the order they were written.
FifoOrder ==
  /\ written = lastRead + Len(queue)
  /\ \A i \in 1..Len(queue) : queue[i] = lastRead + i

\* A reader is told "closed" only after it has read every message that was
\* accepted, and no message is accepted after that: end of stream is final.
ClosedAfterDrain ==
  outcome[Reader] = "closed" => closed /\ lastRead = written

=============================================================================
