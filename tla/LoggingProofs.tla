---------------------------- MODULE LoggingProofs -----------------------------
(***************************************************************************)
(* What becomes of a log entry on its way.                                 *)
(*                                                                         *)
(* AsyncLogging, for any number of threads, sinks and tasks: a flush that  *)
(* returned and the end of the logging thread mean that the entries before *)
(* them were recorded, and the two buffers that are swapped are one line   *)
(* of tasks that is applied in order (SyncLog).                            *)
(*                                                                         *)
(* LogText, for any texts, numbers and capacities: the text of an entry is *)
(* what the program wrote.  Its buffer is a small_vector of characters,    *)
(* and what is said of loops and sequences is in ContainerProofs.  The     *)
(* digits of a number are a recursive function of the number, and powers   *)
(* one of their exponent.                                                  *)
(***************************************************************************)
EXTENDS AsyncLogging, LogText, ContainerProofs

-----------------------------------------------------------------------------
(* AsyncLogging                                                              *)
(* The inductive invariant.  Its clauses speak of the two buffers task by    *)
(* task; Pending, of which the properties speak, is put together from them   *)
(* by PendingMeaning below.                                                  *)

\* The part of TypeOK the arguments below need.  They say nothing of the sinks and
\* of what the sinks were given: SelectSeq means nothing to the provers.
LogTypes ==
  /\ queue \in Seq(Task) /\ text \in Seq(Nat)
  /\ executing \in Seq(Task) /\ loggingText \in Seq(Nat)
  /\ executed \in 0..Len(executing)
  /\ running \in BOOLEAN
  /\ worker \in {"loop", "update", "asleep", "executing", "finalize", "lastBatch", "exited"}
  /\ user \in [Users -> {"idle", "pushed", "flushPushed", "flushing"}]
  /\ owner \in {"up", "cleared", "pushed", "join", "gone"}
  /\ promise \in [Users -> BOOLEAN]
  /\ pushed \in Nat /\ logged \in Nat
  /\ mustSee \in [Users \cup {None} -> Nat]

\* The tasks of the batch in execution that are still to be done.
Rest == (executed + 1)..Len(executing)

IsLog(t) == t.kind = "log"
IsSyncOf(t, u) == t.kind = "sync" /\ t.by = u

\* Whatever entry is in the queue, or is left of the batch, was pushed as more
\* than the n-th.
QueueAfter(n) ==
  \A i \in DOMAIN queue : IsLog(queue[i]) => TextAt(text, queue[i].ibegin) > n
BatchAfter(n) ==
  \A i \in Rest : IsLog(executing[i]) => TextAt(loggingText, executing[i].ibegin) > n

\* No synchronization of u is in the queue, or is left of the batch.
QueueFree(u) == \A i \in DOMAIN queue : ~IsSyncOf(queue[i], u)
BatchFree(u) == \A i \in Rest : ~IsSyncOf(executing[i], u)

\* Between two batches there is no batch: update and finalize swap the queue
\* with buffers that are empty.
NoBatchBetween ==
  worker \notin {"executing", "lastBatch"}
    => executing = <<>> /\ executed = 0 /\ loggingText = <<>>

\* An index in a task is that of a text of its own buffer.
TextsThere ==
  /\ \A i \in DOMAIN queue : IsLog(queue[i]) => queue[i].ibegin < Len(text)
  /\ \A i \in DOMAIN executing : IsLog(executing[i]) => executing[i].ibegin < Len(loggingText)

\* mustSee is what had been pushed at some time.
SeenWasPushed == \A u \in Users \cup {None} : mustSee[u] <= logged

\* A thread has at most one synchronization on its way: none before it asks for
\* one, and none once its promise is set.
OneSync(u) ==
  /\ user[u] \in {"idle", "pushed"} \/ promise[u] => QueueFree(u) /\ BatchFree(u)
  /\ \A i, j \in DOMAIN queue :
       IsSyncOf(queue[i], u) /\ IsSyncOf(queue[j], u) => i = j
  /\ \A i, j \in Rest :
       IsSyncOf(executing[i], u) /\ IsSyncOf(executing[j], u) => i = j
  /\ BatchFree(u) \/ QueueFree(u)

\* What stands behind a synchronization of u was pushed after it.
BehindSync(u) ==
  /\ \A k, i \in DOMAIN queue :
       k < i /\ IsSyncOf(queue[k], u) /\ IsLog(queue[i])
         => TextAt(text, queue[i].ibegin) > mustSee[u]
  /\ \A k, i \in Rest :
       k < i /\ IsSyncOf(executing[k], u) /\ IsLog(executing[i])
         => TextAt(loggingText, executing[i].ibegin) > mustSee[u]
  /\ BatchFree(u) \/ QueueAfter(mustSee[u])

\* And once the promise is set, so was all that is still to be done.
FlushDone(u) == promise[u] => QueueAfter(mustSee[u]) /\ BatchAfter(mustSee[u])

\* The thread leaves its loop for the destructor only, which waits for its end;
\* by then it has taken all that was pushed before the destructor.
LeavesAtEnd ==
  /\ owner = "up" => running /\ worker \notin {"finalize", "lastBatch", "exited"}
  /\ owner = "gone" => worker = "exited"
  /\ worker \in {"lastBatch", "exited"} => QueueAfter(mustSee[None])

LogInv ==
  /\ LogTypes
  /\ NoBatchBetween /\ TextsThere /\ SeenWasPushed
  /\ \A u \in Users : OneSync(u) /\ BehindSync(u) /\ FlushDone(u)
  /\ LeavesAtEnd

-----------------------------------------------------------------------------
(* The invariant is kept.                                                    *)

\* A text that was added behind the others changes none of them.
LEMMA TextAdded ==
  ASSUME NEW buffer \in Seq(Nat), NEW x \in Nat
  PROVE  /\ Append(buffer, x) \in Seq(Nat)
         /\ Len(Append(buffer, x)) = Len(buffer) + 1
         /\ \A i \in Nat : i < Len(buffer) => TextAt(Append(buffer, x), i) = TextAt(buffer, i)
         /\ TextAt(Append(buffer, x), Len(buffer)) = x
BY DEF TextAt

\* A task in the queue, with what pushing it does to the texts.
Enqueue(t) ==
  /\ queue' = Append(queue, t)
  /\ \/ /\ IsLog(t) /\ t.ibegin = Len(text)
        /\ logged' = logged + 1 /\ text' = Append(text, logged + 1)
     \/ ~IsLog(t) /\ UNCHANGED <<text, logged>>

\* Every push is an Enqueue of a task.
LEMMA PushesEnqueue ==
  ASSUME LogTypes
  PROVE  /\ \A u \in Users : Push(u) =>
              \E t \in Task : Enqueue(t) /\ \A v \in Users : ~IsSyncOf(t, v)
         /\ \A u \in Users : FlushPush(u) =>
              \E t \in Task : Enqueue(t) /\ IsSyncOf(t, u)
                              /\ \A v \in Users : v # u => ~IsSyncOf(t, v)
         /\ WakeUpPush =>
              \E t \in Task : Enqueue(t) /\ \A v \in Users : ~IsSyncOf(t, v)
<1>1. ASSUME NEW u \in Users, Push(u)
      PROVE  \E t \in Task : Enqueue(t) /\ \A v \in Users : ~IsSyncOf(t, v)
  <2>1. CASE PushEntry
    <3> DEFINE t == [kind |-> "log", ibegin |-> Len(text)]
    <3>1. t \in Task
      BY DEF LogTypes, Task
    <3>2. Enqueue(t) /\ \A v \in Users : ~IsSyncOf(t, v)
      BY <2>1 DEF PushEntry, Enqueue, IsLog, IsSyncOf
    <3> QED
      BY <3>1, <3>2
  <2>2. ASSUME NEW s \in Sinks, NEW k \in {"add", "remove"}, PushTask([kind |-> k, sink |-> s])
        PROVE  \E t \in Task : Enqueue(t) /\ \A v \in Users : ~IsSyncOf(t, v)
    <3> DEFINE t == [kind |-> k, sink |-> s]
    <3>1. t \in Task
      BY DEF Task
    <3>2. Enqueue(t) /\ \A v \in Users : ~IsSyncOf(t, v)
      BY <2>2 DEF PushTask, Enqueue, IsLog, IsSyncOf
    <3> QED
      BY <3>1, <3>2
  <2> QED
    BY <1>1, <2>1, <2>2 DEF Push
<1>2. ASSUME NEW u \in Users, FlushPush(u)
      PROVE  \E t \in Task : Enqueue(t) /\ IsSyncOf(t, u)
                             /\ \A v \in Users : v # u => ~IsSyncOf(t, v)
  <2> DEFINE t == [kind |-> "sync", by |-> u]
  <2>1. t \in Task
    BY DEF Task
  <2>2. Enqueue(t) /\ IsSyncOf(t, u) /\ \A v \in Users : v # u => ~IsSyncOf(t, v)
    BY <1>2 DEF FlushPush, PushTask, Enqueue, IsLog, IsSyncOf
  <2> QED
    BY <2>1, <2>2
<1>3. ASSUME WakeUpPush
      PROVE  \E t \in Task : Enqueue(t) /\ \A v \in Users : ~IsSyncOf(t, v)
  <2> DEFINE t == [kind |-> "sync", by |-> None]
  <2>1. t \in Task
    BY DEF Task
  <2>2. Enqueue(t) /\ \A v \in Users : ~IsSyncOf(t, v)
    BY <1>3, LoggingAssumption DEF WakeUpPush, PushTask, Enqueue, IsLog, IsSyncOf
  <2> QED
    BY <2>1, <2>2
<1> QED
  BY <1>1, <1>2, <1>3

\* It keeps the types of what it changes.
LEMMA EnqueueTypes ==
  ASSUME LogTypes, NEW t \in Task, Enqueue(t)
  PROVE  queue' \in Seq(Task) /\ text' \in Seq(Nat) /\ logged' \in Nat
<1>1. /\ queue \in Seq(Task) /\ text \in Seq(Nat) /\ logged \in Nat
      /\ queue' = Append(queue, t)
  BY DEF LogTypes, Enqueue
<1>2. queue' \in Seq(Task)
  BY <1>1
<1>3. logged' \in Nat
  BY <1>1 DEF Enqueue
<1>4. text' \in Seq(Nat)
  <2>1. CASE text' = Append(text, logged + 1)
    BY <1>1, <2>1
  <2> QED
    BY <1>1, <2>1 DEF Enqueue
<1> QED
  BY <1>2, <1>3, <1>4

\* What an Enqueue leaves as it was, and what it puts behind it.
LEMMA EnqueueMeans ==
  ASSUME LogTypes, TextsThere, NEW t \in Task, Enqueue(t)
  PROVE  /\ queue' \in Seq(Task) /\ Len(queue') = Len(queue) + 1
         /\ \A i \in DOMAIN queue : i \in DOMAIN queue' /\ queue'[i] = queue[i]
         /\ Len(queue') \in DOMAIN queue' /\ queue'[Len(queue')] = t
         /\ \A i \in DOMAIN queue' : i \in DOMAIN queue \/ i = Len(queue')
         /\ text' \in Seq(Nat) /\ Len(text') >= Len(text)
         /\ logged' \in Nat /\ logged' >= logged
         /\ \A i \in DOMAIN queue : IsLog(queue[i]) =>
              /\ queue[i].ibegin < Len(text')
              /\ TextAt(text', queue[i].ibegin) = TextAt(text, queue[i].ibegin)
         /\ IsLog(t) => t.ibegin < Len(text') /\ TextAt(text', t.ibegin) = logged + 1
<1>1. /\ queue \in Seq(Task) /\ text \in Seq(Nat) /\ logged \in Nat
      /\ queue' = Append(queue, t)
  BY DEF LogTypes, Enqueue
<1>2. /\ queue' \in Seq(Task) /\ Len(queue') = Len(queue) + 1
      /\ \A i \in DOMAIN queue : i \in DOMAIN queue' /\ queue'[i] = queue[i]
      /\ Len(queue') \in DOMAIN queue' /\ queue'[Len(queue')] = t
      /\ \A i \in DOMAIN queue' : i \in DOMAIN queue \/ i = Len(queue')
  BY <1>1
<1>3. ASSUME NEW i \in DOMAIN queue, IsLog(queue[i])
      PROVE  queue[i].ibegin \in Nat /\ queue[i].ibegin < Len(text)
  <2>1. queue[i] \in Task
    BY <1>1
  <2> QED
    BY <2>1, <1>3 DEF Task, IsLog, TextsThere
<1>4. CASE /\ IsLog(t) /\ t.ibegin = Len(text)
           /\ logged' = logged + 1 /\ text' = Append(text, logged + 1)
  <2>1. /\ text' \in Seq(Nat) /\ Len(text') = Len(text) + 1
        /\ \A i \in Nat : i < Len(text) => TextAt(text', i) = TextAt(text, i)
        /\ TextAt(text', Len(text)) = logged + 1
    BY <1>1, <1>4, TextAdded
  <2>2. Len(text) \in Nat
    BY <1>1
  <2> QED
    BY <1>1, <1>2, <1>3, <1>4, <2>1, <2>2
<1>5. CASE ~IsLog(t) /\ UNCHANGED <<text, logged>>
  BY <1>1, <1>2, <1>3, <1>5
<1> QED
  BY <1>4, <1>5 DEF Enqueue

\* A push is seen by a thread that does not push it as entries behind all others.
LEMMA PushedByAnother ==
  ASSUME LogInv, NEW t \in Task, Enqueue(t), NEW v \in Users, ~IsSyncOf(t, v),
         UNCHANGED <<executing, executed, loggingText>>,
         user'[v] \in {"idle", "pushed"} => user[v] \in {"idle", "pushed"},
         promise'[v] = promise[v], mustSee'[v] = mustSee[v]
  PROVE  OneSync(v)' /\ BehindSync(v)' /\ FlushDone(v)'
<1>1. /\ LogTypes /\ TextsThere /\ mustSee[v] <= logged
      /\ OneSync(v) /\ BehindSync(v) /\ FlushDone(v)
      /\ mustSee[v] \in Nat /\ logged \in Nat
  BY DEF LogInv, SeenWasPushed, LogTypes
<1> HIDE DEF LogInv
<1>2. /\ queue' \in Seq(Task) /\ Len(queue') = Len(queue) + 1
      /\ \A i \in DOMAIN queue : i \in DOMAIN queue' /\ queue'[i] = queue[i]
      /\ Len(queue') \in DOMAIN queue' /\ queue'[Len(queue')] = t
      /\ \A i \in DOMAIN queue' : i \in DOMAIN queue \/ i = Len(queue')
      /\ \A i \in DOMAIN queue : IsLog(queue[i]) =>
           TextAt(text', queue[i].ibegin) = TextAt(text, queue[i].ibegin)
      /\ IsLog(t) => TextAt(text', t.ibegin) = logged + 1
  BY <1>1, EnqueueMeans
<1>3. /\ QueueFree(v) => QueueFree(v)'
      /\ BatchFree(v) => BatchFree(v)'
      /\ QueueAfter(mustSee[v]) => QueueAfter(mustSee[v])'
      /\ BatchAfter(mustSee[v]) => BatchAfter(mustSee[v])'
  BY <1>1, <1>2 DEF QueueFree, BatchFree, QueueAfter, BatchAfter, Rest
<1>4. OneSync(v)'
  BY <1>1, <1>2, <1>3 DEF OneSync, Rest
<1>5. BehindSync(v)'
  <2>1. ASSUME NEW k \in DOMAIN queue', NEW i \in DOMAIN queue', k < i,
               IsSyncOf(queue'[k], v), IsLog(queue'[i])
        PROVE  TextAt(text', queue'[i].ibegin) > mustSee[v]
    <3>1. CASE i = Len(queue')
      BY <1>1, <1>2, <2>1, <3>1
    <3>2. CASE i \in DOMAIN queue
      <4>1. k \in DOMAIN queue
        BY <1>2, <2>1
      <4> QED
        BY <1>1, <1>2, <2>1, <3>2, <4>1 DEF BehindSync
    <3> QED
      BY <1>2, <3>1, <3>2
  <2> QED
    BY <1>1, <1>3, <2>1 DEF BehindSync, Rest
<1>6. FlushDone(v)'
  BY <1>1, <1>3 DEF FlushDone
<1> QED
  BY <1>4, <1>5, <1>6

\* The thread that begins a flush finds its synchronization alone, and at the end.
LEMMA FlushBegins ==
  ASSUME LogInv, NEW u \in Users, FlushPush(u), NEW t \in Task, Enqueue(t), IsSyncOf(t, u)
  PROVE  OneSync(u)' /\ BehindSync(u)' /\ FlushDone(u)'
<1>1. /\ LogTypes /\ TextsThere /\ OneSync(u)
      /\ user[u] = "idle" /\ user'[u] = "flushPushed" /\ promise'[u] = FALSE
      /\ UNCHANGED <<executing, executed, loggingText>>
  BY DEF LogInv, LogTypes, FlushPush
<1>2. /\ queue' \in Seq(Task) /\ Len(queue') = Len(queue) + 1
      /\ \A i \in DOMAIN queue : i \in DOMAIN queue' /\ queue'[i] = queue[i]
      /\ \A i \in DOMAIN queue' : i \in DOMAIN queue \/ i = Len(queue')
  BY <1>1, EnqueueMeans
<1>3. QueueFree(u) /\ BatchFree(u)
  BY <1>1 DEF OneSync
<1>4. BatchFree(u)'
  BY <1>1, <1>3 DEF BatchFree, Rest
<1>5. \A i \in DOMAIN queue' : IsSyncOf(queue'[i], u) => i = Len(queue')
  BY <1>2, <1>3 DEF QueueFree
<1>6. \A i \in Rest' : ~IsSyncOf(executing'[i], u)
  BY <1>4 DEF BatchFree
<1> QED
  BY <1>1, <1>2, <1>4, <1>5, <1>6 DEF OneSync, BehindSync, FlushDone

\* The clauses of LogInv that speak of no single thread, under a push.
LEMMA PushKeepsTheRest ==
  ASSUME LogInv, NEW t \in Task, Enqueue(t), LogTypes',
         UNCHANGED <<executing, executed, loggingText, worker, running>>,
         mustSee'[None] = mustSee[None],
         \A u \in Users : mustSee'[u] \in {mustSee[u], logged},
         owner' = owner \/ (owner = "cleared" /\ owner' = "pushed")
  PROVE  NoBatchBetween' /\ TextsThere' /\ SeenWasPushed' /\ LeavesAtEnd'
<1>1. /\ LogTypes /\ TextsThere /\ NoBatchBetween /\ SeenWasPushed /\ LeavesAtEnd
      /\ logged \in Nat /\ mustSee \in [Users \cup {None} -> Nat]
  BY DEF LogInv, LogTypes
<1> HIDE DEF LogInv
<1>2. /\ \A i \in DOMAIN queue' : i \in DOMAIN queue \/ i = Len(queue')
      /\ \A i \in DOMAIN queue : queue'[i] = queue[i]
      /\ queue'[Len(queue')] = t
      /\ logged' \in Nat /\ logged' >= logged
      /\ \A i \in DOMAIN queue : IsLog(queue[i]) =>
           /\ queue[i].ibegin < Len(text')
           /\ TextAt(text', queue[i].ibegin) = TextAt(text, queue[i].ibegin)
      /\ IsLog(t) => t.ibegin < Len(text') /\ TextAt(text', t.ibegin) = logged + 1
  BY <1>1, EnqueueMeans
<1>3. NoBatchBetween'
  BY <1>1 DEF NoBatchBetween
<1>4. TextsThere'
  BY <1>1, <1>2 DEF TextsThere
<1>5. SeenWasPushed'
  <2>1. ASSUME NEW u \in Users \cup {None}
        PROVE  mustSee'[u] <= logged'
    <3>1. mustSee[u] \in Nat /\ mustSee[u] <= logged
      BY <1>1 DEF SeenWasPushed
    <3>2. mustSee'[u] \in {mustSee[u], logged}
      OBVIOUS
    <3> QED
      BY <1>1, <1>2, <3>1, <3>2
  <2> QED
    BY <2>1 DEF SeenWasPushed
<1>6. QueueAfter(mustSee[None]) => QueueAfter(mustSee[None])'
  <2>1. mustSee[None] \in Nat /\ mustSee[None] <= logged
    BY <1>1 DEF SeenWasPushed
  <2> QED
    BY <1>1, <1>2, <2>1 DEF QueueAfter
<1>7. LeavesAtEnd'
  BY <1>1, <1>6 DEF LeavesAtEnd
<1> QED
  BY <1>3, <1>4, <1>5, <1>7

\* Types are kept by every step; a swap needs the batch to be empty.
LEMMA TypesStep == LogTypes /\ NoBatchBetween /\ Next => LogTypes'
<1> SUFFICES ASSUME LogTypes, NoBatchBetween, Next PROVE LogTypes'
  OBVIOUS
<1>1. ASSUME NEW u \in Users, Push(u) PROVE LogTypes'
  <2>1. PICK t \in Task : Enqueue(t)
    BY <1>1, PushesEnqueue
  <2>2. queue' \in Seq(Task) /\ text' \in Seq(Nat) /\ logged' \in Nat
    BY <2>1, EnqueueTypes
  <2>3. UNCHANGED <<executing, executed, loggingText, running, worker, owner, promise, mustSee>>
        /\ user' = [user EXCEPT ![u] = "pushed"] /\ pushed' = pushed + 1
    BY <1>1 DEF Push
  <2> QED
    BY <2>2, <2>3 DEF LogTypes
<1>2. ASSUME NEW u \in Users, FlushPush(u) PROVE LogTypes'
  <2>1. PICK t \in Task : Enqueue(t)
    BY <1>2, PushesEnqueue
  <2>2. queue' \in Seq(Task) /\ text' \in Seq(Nat) /\ logged' \in Nat
    BY <2>1, EnqueueTypes
  <2>3. /\ UNCHANGED <<executing, executed, loggingText, running, worker, owner>>
        /\ user' = [user EXCEPT ![u] = "flushPushed"] /\ pushed' = pushed + 1
        /\ promise' = [promise EXCEPT ![u] = FALSE]
        /\ mustSee' = [mustSee EXCEPT ![u] = logged]
    BY <1>2 DEF FlushPush
  <2> QED
    BY <2>2, <2>3 DEF LogTypes
<1>3. CASE WakeUpPush
  <2>1. PICK t \in Task : Enqueue(t)
    BY <1>3, PushesEnqueue
  <2>2. queue' \in Seq(Task) /\ text' \in Seq(Nat) /\ logged' \in Nat
    BY <2>1, EnqueueTypes
  <2> QED
    BY <1>3, <2>2 DEF WakeUpPush, LogTypes
<1>4. ASSUME NEW u \in Users, NotifyCv(u) \/ FlushReturn(u) PROVE LogTypes'
  <2>1. user' \in [Users -> {"idle", "pushed", "flushPushed", "flushing"}]
    BY <1>4 DEF NotifyCv, FlushReturn, LogTypes
  <2>2. worker' \in {worker, "update"}
    BY <1>4 DEF NotifyCv, FlushReturn, WakeWorker
  <2>3. UNCHANGED <<queue, text, executing, executed, loggingText, running, owner, promise,
                    pushed, logged, mustSee>>
    BY <1>4 DEF NotifyCv, FlushReturn, bufVars
  <2>4. worker' \in {"loop", "update", "asleep", "executing", "finalize", "lastBatch", "exited"}
    BY <1>4, <2>2 DEF LogTypes, FlushReturn
  <2> QED
    BY <2>1, <2>3, <2>4 DEF LogTypes
<1>5. CASE LoopTest \/ Sleep \/ SpuriousWakeup \/ WakeUpNotify \/ Join \/ ClearRunning
  BY <1>5 DEF LoopTest, Sleep, SpuriousWakeup, WakeUpNotify, Join, ClearRunning, WakeWorker,
       LogTypes, bufVars, sinkVars, userVars
<1>6. CASE Update \/ Finalize
  <2>1. executed = 0
    BY <1>6 DEF Update, Finalize, NoBatchBetween
  <2> QED
    BY <1>6, <2>1 DEF Update, Finalize, SwapBuffers, LogTypes, sinkVars, userVars
<1>7. CASE ExecuteTask
  <2>1. promise' = promise \/ \E w : promise' = [u \in Users |-> promise[u] \/ u = w]
    BY <1>7 DEF ExecuteTask, Record
  <2>2. promise' \in [Users -> BOOLEAN]
    BY <2>1 DEF LogTypes
  <2>3. executed' \in 0..Len(executing)
    BY <1>7 DEF ExecuteTask, LogTypes
  <2> QED
    BY <1>7, <2>2, <2>3 DEF ExecuteTask, LogTypes
<1>8. CASE ClearExecuted
  BY <1>8 DEF ClearExecuted, LogTypes, sinkVars, userVars
<1> QED
  BY <1>1, <1>2, <1>3, <1>4, <1>5, <1>6, <1>7, <1>8 DEF Next, Worker


\* Every push keeps the invariant.
LEMMA PushesKeep ==
  LogInv /\ ((\E u \in Users : Push(u) \/ FlushPush(u)) \/ WakeUpPush) => LogInv'
<1> SUFFICES ASSUME LogInv, (\E u \in Users : Push(u) \/ FlushPush(u)) \/ WakeUpPush
             PROVE  LogInv'
  OBVIOUS
<1>1. LogTypes /\ LogTypes'
  BY TypesStep DEF LogInv, Next
<1>2. ASSUME NEW u \in Users, Push(u) PROVE LogInv'
  <2>1. PICK t \in Task : Enqueue(t) /\ \A v \in Users : ~IsSyncOf(t, v)
    BY <1>1, <1>2, PushesEnqueue
  <2>2. /\ UNCHANGED <<executing, executed, loggingText, worker, running, owner, promise, mustSee>>
        /\ \A v \in Users : user'[v] \in {"idle", "pushed"} => user[v] \in {"idle", "pushed"}
    BY <1>1, <1>2 DEF Push, LogTypes
  <2>3. \A v \in Users : OneSync(v)' /\ BehindSync(v)' /\ FlushDone(v)'
    BY <2>1, <2>2, PushedByAnother
  <2>4. NoBatchBetween' /\ TextsThere' /\ SeenWasPushed' /\ LeavesAtEnd'
    <3>1. \A v \in Users : mustSee'[v] \in {mustSee[v], logged}
      BY <2>2
    <3>2. owner' = owner \/ (owner = "cleared" /\ owner' = "pushed")
      BY <2>2
    <3> QED
      BY <1>1, <2>1, <2>2, <3>1, <3>2, PushKeepsTheRest
  <2> QED
    BY <1>1, <2>3, <2>4 DEF LogInv
<1>3. ASSUME NEW u \in Users, FlushPush(u) PROVE LogInv'
  <2>1. PICK t \in Task : /\ Enqueue(t) /\ IsSyncOf(t, u)
                          /\ \A v \in Users : v # u => ~IsSyncOf(t, v)
    BY <1>1, <1>3, PushesEnqueue
  <2>2. /\ UNCHANGED <<executing, executed, loggingText, worker, running, owner>>
        /\ \A v \in Users \ {u} :
             user'[v] = user[v] /\ promise'[v] = promise[v] /\ mustSee'[v] = mustSee[v]
        /\ mustSee'[u] = logged /\ mustSee'[None] = mustSee[None]
    BY <1>1, <1>3, LoggingAssumption DEF FlushPush, LogTypes
  <2>3. ASSUME NEW v \in Users PROVE OneSync(v)' /\ BehindSync(v)' /\ FlushDone(v)'
    <3>1. CASE v = u
      BY <1>3, <2>1, <3>1, FlushBegins
    <3>2. CASE v # u
      BY <2>1, <2>2, <3>2, PushedByAnother
    <3> QED
      BY <3>1, <3>2
  <2>4. NoBatchBetween' /\ TextsThere' /\ SeenWasPushed' /\ LeavesAtEnd'
    <3>1. \A v \in Users : mustSee'[v] \in {mustSee[v], logged}
      BY <2>2
    <3>2. owner' = owner \/ (owner = "cleared" /\ owner' = "pushed")
      BY <2>2
    <3> QED
      BY <1>1, <2>1, <2>2, <3>1, <3>2, PushKeepsTheRest
  <2> QED
    BY <1>1, <2>3, <2>4 DEF LogInv
<1>4. CASE WakeUpPush
  <2>1. PICK t \in Task : Enqueue(t) /\ \A v \in Users : ~IsSyncOf(t, v)
    BY <1>1, <1>4, PushesEnqueue
  <2>2. /\ UNCHANGED <<executing, executed, loggingText, worker, running, user, promise, mustSee>>
        /\ owner = "cleared" /\ owner' = "pushed"
    BY <1>4 DEF WakeUpPush, sinkVars
  <2>3. \A v \in Users : OneSync(v)' /\ BehindSync(v)' /\ FlushDone(v)'
    BY <2>1, <2>2, PushedByAnother
  <2>4. NoBatchBetween' /\ TextsThere' /\ SeenWasPushed' /\ LeavesAtEnd'
    <3>1. \A v \in Users : mustSee'[v] \in {mustSee[v], logged}
      BY <2>2
    <3>2. owner' = owner \/ (owner = "cleared" /\ owner' = "pushed")
      BY <2>2
    <3> QED
      BY <1>1, <2>1, <2>2, <3>1, <3>2, PushKeepsTheRest
  <2> QED
    BY <1>1, <2>3, <2>4 DEF LogInv
<1> QED
  BY <1>2, <1>3, <1>4

\* Where nothing happens to the tasks and to what was seen of them, the clauses that
\* speak of tasks stay as they are.
LEMMA TasksUntouched ==
  ASSUME LogInv, UNCHANGED <<bufVars, promise, logged>>,
         \A u \in Users : /\ mustSee'[u] = mustSee[u]
                          /\ user'[u] \in {"idle", "pushed"} =>
                               user[u] \in {"idle", "pushed"} \/ promise[u]
  PROVE  TextsThere' /\ \A u \in Users : OneSync(u)' /\ BehindSync(u)' /\ FlushDone(u)'
<1>1. TextsThere' /\ \A n : (QueueAfter(n)' <=> QueueAfter(n)) /\ (BatchAfter(n)' <=> BatchAfter(n))
  BY DEF LogInv, TextsThere, QueueAfter, BatchAfter, bufVars, Rest
<1>2. ASSUME NEW u \in Users PROVE OneSync(u)' /\ BehindSync(u)' /\ FlushDone(u)'
  <2>1. /\ OneSync(u) /\ BehindSync(u) /\ FlushDone(u) /\ mustSee'[u] = mustSee[u]
        /\ UNCHANGED <<queue, text, executing, executed, loggingText, promise>>
        /\ user'[u] \in {"idle", "pushed"} => user[u] \in {"idle", "pushed"} \/ promise[u]
    BY DEF LogInv, bufVars
  <2>2. /\ QueueFree(u)' <=> QueueFree(u)
        /\ BatchFree(u)' <=> BatchFree(u)
        /\ QueueAfter(mustSee[u])' <=> QueueAfter(mustSee[u])
        /\ BatchAfter(mustSee[u])' <=> BatchAfter(mustSee[u])
    BY <2>1 DEF QueueFree, BatchFree, QueueAfter, BatchAfter, Rest
  <2>3. OneSync(u)'
    BY <2>1, <2>2 DEF OneSync, Rest
  <2>4. BehindSync(u)'
    BY <2>1, <2>2 DEF BehindSync, Rest
  <2>5. FlushDone(u)'
    BY <2>1, <2>2 DEF FlushDone
  <2> QED
    BY <2>3, <2>4, <2>5
<1> QED
  BY <1>1, <1>2

\* The steps that only move the threads keep the invariant.
LEMMA MovesKeep ==
  LogInv /\ ( \/ \E u \in Users : NotifyCv(u) \/ FlushReturn(u)
              \/ LoopTest \/ Sleep \/ SpuriousWakeup \/ WakeUpNotify \/ Join )
    => LogInv'
<1> SUFFICES ASSUME LogInv,
                    \/ \E u \in Users : NotifyCv(u) \/ FlushReturn(u)
                    \/ LoopTest \/ Sleep \/ SpuriousWakeup \/ WakeUpNotify \/ Join
             PROVE  LogInv'
  OBVIOUS
<1>1. LogTypes /\ LogTypes'
  BY TypesStep DEF LogInv, Next, Worker
<1>2. UNCHANGED <<bufVars, promise, logged, mustSee>>
  BY DEF NotifyCv, FlushReturn, LoopTest, Sleep, SpuriousWakeup, WakeUpNotify, Join, userVars
<1>3. \A u \in Users : user'[u] \in {"idle", "pushed"} =>
                         user[u] \in {"idle", "pushed"} \/ promise[u]
  BY <1>1 DEF NotifyCv, FlushReturn, LoopTest, Sleep, SpuriousWakeup, WakeUpNotify, Join,
       userVars, LogTypes
<1>4. TextsThere' /\ \A u \in Users : OneSync(u)' /\ BehindSync(u)' /\ FlushDone(u)'
  BY <1>2, <1>3, TasksUntouched
<1>5. /\ worker' \in {worker, "update", "asleep", "finalize"}
      /\ worker' # worker => worker \in {"loop", "update", "asleep"}
      /\ worker' = "finalize" => worker = "finalize" \/ ~running
      /\ running' = running \/ running'
      /\ owner' = "gone" => owner = "gone" \/ worker = "exited"
      /\ owner' = "up" <=> owner = "up"
  BY <1>1 DEF NotifyCv, FlushReturn, LoopTest, Sleep, SpuriousWakeup, WakeUpNotify, Join,
       WakeWorker, LogTypes
<1>6. NoBatchBetween' /\ SeenWasPushed'
  BY <1>2, <1>5 DEF LogInv, NoBatchBetween, SeenWasPushed, bufVars
<1>7. QueueAfter(mustSee[None]) <=> QueueAfter(mustSee[None])'
  BY <1>2 DEF QueueAfter, bufVars
<1>8. LeavesAtEnd'
  BY <1>1, <1>5, <1>7 DEF LogInv, LeavesAtEnd
<1> QED
  BY <1>1, <1>4, <1>6, <1>8 DEF LogInv


\* Clearing the flag begins the destructor: what must be recorded is what has been pushed.
LEMMA ClearKeeps == LogInv /\ ClearRunning => LogInv'
<1> SUFFICES ASSUME LogInv, ClearRunning PROVE LogInv'
  OBVIOUS
<1>1. LogTypes /\ LogTypes'
  BY TypesStep DEF LogInv, Next
<1>2. /\ UNCHANGED <<bufVars, promise, logged, user, worker>>
      /\ owner = "up" /\ owner' = "cleared"
      /\ mustSee' = [mustSee EXCEPT ![None] = logged]
  BY DEF ClearRunning
<1>3. \A u \in Users : mustSee'[u] = mustSee[u]
  BY <1>1, <1>2, LoggingAssumption DEF LogTypes
<1>4. TextsThere' /\ \A u \in Users : OneSync(u)' /\ BehindSync(u)' /\ FlushDone(u)'
  BY <1>2, <1>3, TasksUntouched
<1>5. NoBatchBetween'
  BY <1>2 DEF LogInv, NoBatchBetween, bufVars
<1>6. SeenWasPushed'
  BY <1>1, <1>2, <1>3 DEF LogInv, SeenWasPushed, LogTypes
<1>7. LeavesAtEnd'
  BY <1>2 DEF LogInv, LeavesAtEnd
<1> QED
  BY <1>1, <1>4, <1>5, <1>6, <1>7 DEF LogInv

\* The swap makes the queue the batch, and leaves an empty queue.
LEMMA SwapKeeps == LogInv /\ (Update \/ Finalize) => LogInv'
<1> SUFFICES ASSUME LogInv, Update \/ Finalize PROVE LogInv'
  OBVIOUS
<1>1. LogTypes /\ LogTypes'
  BY TypesStep DEF LogInv, Next, Worker
<1>2. /\ executing = <<>> /\ executed = 0 /\ loggingText = <<>>
      /\ queue' = <<>> /\ text' = <<>> /\ executing' = queue /\ loggingText' = text
      /\ executed' = 0
      /\ UNCHANGED <<user, promise, logged, mustSee, owner, running>>
      /\ worker \in {"update", "finalize"}
      /\ worker' = IF worker = "update" THEN "executing" ELSE "lastBatch"
  BY DEF LogInv, NoBatchBetween, Update, Finalize, SwapBuffers, userVars
<1>3. DOMAIN queue' = {} /\ DOMAIN queue = 1..Len(queue) /\ Rest' = DOMAIN queue
  BY <1>1, <1>2 DEF Rest, LogTypes
<1>4. NoBatchBetween' /\ SeenWasPushed'
  BY <1>2 DEF LogInv, NoBatchBetween, SeenWasPushed
<1>5. TextsThere'
  BY <1>2, <1>3 DEF LogInv, TextsThere
<1>6. ASSUME NEW u \in Users PROVE OneSync(u)' /\ BehindSync(u)' /\ FlushDone(u)'
  <2>1. OneSync(u) /\ BehindSync(u) /\ FlushDone(u)
    BY DEF LogInv
  <2>2. QueueFree(u)' /\ QueueAfter(mustSee[u])'
    BY <1>3 DEF QueueFree, QueueAfter
  <2>3. /\ QueueFree(u) => BatchFree(u)'
        /\ QueueAfter(mustSee[u]) => BatchAfter(mustSee[u])'
    BY <1>2, <1>3 DEF QueueFree, QueueAfter, BatchFree, BatchAfter
  <2>4. OneSync(u)'
    BY <1>2, <1>3, <2>1, <2>2, <2>3 DEF OneSync
  <2>5. BehindSync(u)'
    BY <1>2, <1>3, <2>1, <2>2, <2>3 DEF BehindSync
  <2>6. FlushDone(u)'
    BY <1>2, <2>1, <2>2, <2>3 DEF FlushDone
  <2> QED
    BY <2>4, <2>5, <2>6
<1>7. LeavesAtEnd'
  BY <1>2, <1>3 DEF LogInv, LeavesAtEnd, QueueAfter
<1> QED
  BY <1>1, <1>4, <1>5, <1>6, <1>7 DEF LogInv

\* The task that is executed leaves the batch; if it is a synchronization, what it
\* stood in front of is all that is left.
LEMMA ExecuteKeeps == LogInv /\ ExecuteTask => LogInv'
<1> SUFFICES ASSUME LogInv, ExecuteTask PROVE LogInv'
  OBVIOUS
<1>1. LogTypes /\ LogTypes'
  BY TypesStep DEF LogInv, Next, Worker
<1> DEFINE t == executing[executed + 1]
<1>2. /\ UNCHANGED <<queue, text, executing, loggingText, running, worker, user, owner,
                     pushed, logged, mustSee>>
      /\ worker \in {"executing", "lastBatch"} /\ executed < Len(executing)
      /\ executed' = executed + 1
  BY DEF ExecuteTask
<1>3. \A u \in Users : promise'[u] => promise[u] \/ IsSyncOf(t, u)
  BY <1>1 DEF ExecuteTask, Record, IsSyncOf, LogTypes
<1>4. /\ Rest' \subseteq Rest /\ executed + 1 \in Rest
      /\ \A i \in Rest : i \in Rest' \/ i = executed + 1
      /\ \A i \in Rest' : executed + 1 < i /\ i # executed + 1
  BY <1>1, <1>2 DEF Rest, LogTypes
<1> HIDE DEF t
<1>5. NoBatchBetween' /\ SeenWasPushed' /\ TextsThere'
  BY <1>2 DEF LogInv, NoBatchBetween, SeenWasPushed, TextsThere
<1>6. ASSUME NEW u \in Users PROVE OneSync(u)' /\ BehindSync(u)' /\ FlushDone(u)'
  <2>1. OneSync(u) /\ BehindSync(u) /\ FlushDone(u)
    BY DEF LogInv
  <2>2. /\ QueueFree(u)' <=> QueueFree(u)
        /\ QueueAfter(mustSee[u])' <=> QueueAfter(mustSee[u])
        /\ BatchFree(u) => BatchFree(u)'
        /\ BatchAfter(mustSee[u]) => BatchAfter(mustSee[u])'
    BY <1>2, <1>4 DEF QueueFree, QueueAfter, BatchFree, BatchAfter
  <2>3. ASSUME IsSyncOf(t, u)
        PROVE  /\ ~BatchFree(u) /\ QueueFree(u) /\ BatchFree(u)'
               /\ QueueAfter(mustSee[u]) /\ BatchAfter(mustSee[u])'
    <3>1. ~BatchFree(u)
      BY <1>4, <2>3 DEF BatchFree, t
    <3>2. QueueFree(u) /\ QueueAfter(mustSee[u])
      BY <2>1, <3>1 DEF OneSync, BehindSync
    <3>3. BatchFree(u)'
      BY <1>2, <1>4, <2>1, <2>3 DEF OneSync, BatchFree, t
    <3>4. BatchAfter(mustSee[u])'
      BY <1>2, <1>4, <2>1, <2>3 DEF BehindSync, BatchAfter, t
    <3> QED
      BY <3>1, <3>2, <3>3, <3>4
  <2>4. OneSync(u)'
    <3>1. promise'[u] => QueueFree(u)' /\ BatchFree(u)'
      BY <1>3, <2>1, <2>2, <2>3 DEF OneSync
    <3> QED
      BY <1>2, <1>4, <2>1, <2>2, <3>1 DEF OneSync
  <2>5. BehindSync(u)'
    BY <1>2, <1>4, <2>1, <2>2 DEF BehindSync
  <2>6. FlushDone(u)'
    BY <1>3, <2>1, <2>2, <2>3 DEF FlushDone
  <2> QED
    BY <2>4, <2>5, <2>6
<1>7. LeavesAtEnd'
  BY <1>2 DEF LogInv, LeavesAtEnd, QueueAfter
<1> QED
  BY <1>1, <1>5, <1>6, <1>7 DEF LogInv

\* A batch that has been executed is cleared.
LEMMA BatchEndKeeps == LogInv /\ ClearExecuted => LogInv'
<1> SUFFICES ASSUME LogInv, ClearExecuted PROVE LogInv'
  OBVIOUS
<1>1. LogTypes /\ LogTypes'
  BY TypesStep DEF LogInv, Next, Worker
<1>2. /\ UNCHANGED <<queue, text, user, promise, logged, mustSee, owner, running>>
      /\ executed = Len(executing)
      /\ executing' = <<>> /\ executed' = 0 /\ loggingText' = <<>>
      /\ worker \in {"executing", "lastBatch"}
      /\ worker' = IF worker = "executing" THEN "loop" ELSE "exited"
  BY DEF ClearExecuted, userVars
<1>3. Rest' = {} /\ DOMAIN executing' = {}
  BY <1>1, <1>2 DEF Rest, LogTypes
<1>4. NoBatchBetween' /\ SeenWasPushed' /\ TextsThere'
  BY <1>2, <1>3 DEF LogInv, NoBatchBetween, SeenWasPushed, TextsThere
<1>5. ASSUME NEW u \in Users PROVE OneSync(u)' /\ BehindSync(u)' /\ FlushDone(u)'
  <2>1. OneSync(u) /\ BehindSync(u) /\ FlushDone(u)
    BY DEF LogInv
  <2>2. /\ QueueFree(u)' <=> QueueFree(u)
        /\ QueueAfter(mustSee[u])' <=> QueueAfter(mustSee[u])
        /\ BatchFree(u)' /\ BatchAfter(mustSee[u])'
    BY <1>2, <1>3 DEF QueueFree, QueueAfter, BatchFree, BatchAfter
  <2>3. OneSync(u)'
    BY <1>2, <1>3, <2>1, <2>2 DEF OneSync
  <2>4. BehindSync(u)'
    BY <1>2, <1>3, <2>1, <2>2 DEF BehindSync
  <2>5. FlushDone(u)'
    BY <1>2, <2>1, <2>2 DEF FlushDone
  <2> QED
    BY <2>3, <2>4, <2>5
<1>6. LeavesAtEnd'
  BY <1>2 DEF LogInv, LeavesAtEnd, QueueAfter
<1> QED
  BY <1>1, <1>4, <1>5, <1>6 DEF LogInv

\* LogInv is inductive.
LEMMA LogInvStep == LogInv /\ [Next]_vars => LogInv'
<1>1. LogInv /\ Next => LogInv'
  BY PushesKeep, MovesKeep, ClearKeeps, SwapKeeps, ExecuteKeeps, BatchEndKeeps
     DEF Next, Worker
<1>2. ASSUME LogInv, UNCHANGED vars PROVE LogInv'
  <2>1. UNCHANGED <<bufVars, promise, logged, mustSee, user, worker, owner, running, pushed>>
    BY <1>2 DEF vars, bufVars
  <2>2. TextsThere' /\ \A u \in Users : OneSync(u)' /\ BehindSync(u)' /\ FlushDone(u)'
    BY <1>2, <2>1, TasksUntouched
  <2>3. LogTypes' /\ NoBatchBetween' /\ SeenWasPushed' /\ LeavesAtEnd'
    BY <1>2, <2>1 DEF LogInv, LogTypes, NoBatchBetween, SeenWasPushed, LeavesAtEnd,
         QueueAfter, bufVars
  <2> QED
    BY <2>2, <2>3 DEF LogInv
<1> QED
  BY <1>1, <1>2

\* It holds before the first entry is pushed.
LEMMA LogInitially == Init => LogInv
<1> SUFFICES ASSUME Init PROVE LogInv
  OBVIOUS
<1>1. /\ queue = <<>> /\ text = <<>> /\ executing = <<>> /\ executed = 0 /\ loggingText = <<>>
      /\ running = TRUE /\ worker = "loop" /\ owner = "up"
      /\ user = [u \in Users |-> "idle"] /\ promise = [u \in Users |-> FALSE]
      /\ pushed = 0 /\ logged = 0 /\ mustSee = [u \in Users \cup {None} |-> 0]
  BY DEF Init
<1>2. DOMAIN queue = {} /\ DOMAIN executing = {} /\ Rest = {}
  BY <1>1 DEF Rest
<1>3. LogTypes
  BY <1>1 DEF LogTypes
<1> QED
  BY <1>1, <1>2, <1>3 DEF LogInv, NoBatchBetween, TextsThere, SeenWasPushed, OneSync,
       BehindSync, FlushDone, LeavesAtEnd, QueueFree, BatchFree, QueueAfter, BatchAfter

\* LogInv always holds.
LEMMA LogInvHolds == Spec => []LogInv
BY LogInitially, LogInvStep, PTL DEF Spec

-----------------------------------------------------------------------------
(* The line of tasks.                                                        *)

\* A task as SyncLog has it: an entry with its text.
Out(t, buffer) ==
  IF IsLog(t) THEN [kind |-> "log", text |-> TextAt(buffer, t.ibegin)] ELSE t

OutTask == [kind : {"log"}, text : Nat] \cup [kind : {"add", "remove"}, sink : Sinks]
           \cup [kind : {"sync"}, by : Users \cup {None}]

\* Out gives tasks of SyncLog, of the same kind.
LEMMA OutIsTask ==
  ASSUME NEW t \in Task, NEW buffer \in Seq(Nat)
  PROVE  Out(t, buffer) \in OutTask /\ Out(t, buffer).kind = t.kind
<1>1. CASE IsLog(t)
  <2>1. t.ibegin \in Nat
    BY <1>1 DEF IsLog, Task
  <2>2. TextAt(buffer, t.ibegin) \in Nat
    BY <2>1 DEF TextAt
  <2> QED
    BY <1>1, <2>2 DEF Out, OutTask, IsLog
<1>2. CASE ~IsLog(t)
  BY <1>2 DEF Out, OutTask, IsLog, Task
<1> QED
  BY <1>1, <1>2

\* Rebuilt translates a queue task by task.
LEMMA RebuiltMeans ==
  ASSUME NEW tasks \in Seq(Task), NEW buffer \in Seq(Nat)
  PROVE  /\ Rebuilt(tasks, buffer) \in Seq(OutTask)
         /\ Len(Rebuilt(tasks, buffer)) = Len(tasks)
         /\ \A i \in 1..Len(tasks) : Rebuilt(tasks, buffer)[i] = Out(tasks[i], buffer)
<1>1. Rebuilt(tasks, buffer) = [i \in 1..Len(tasks) |-> Out(tasks[i], buffer)]
  BY DEF Rebuilt, Out, IsLog
<1>2. \A i \in 1..Len(tasks) : Out(tasks[i], buffer) \in OutTask
  BY OutIsTask
<1> QED
  BY <1>1, <1>2

\* One sequence behind another.
LEMMA Joined ==
  ASSUME NEW S, NEW a \in Seq(S), NEW b \in Seq(S)
  PROVE  /\ a \o b \in Seq(S) /\ Len(a \o b) = Len(a) + Len(b)
         /\ \A i \in 1..Len(a) : (a \o b)[i] = a[i]
         /\ \A i \in 1..Len(b) : (a \o b)[Len(a) + i] = b[i]
OBVIOUS

\* Pending for any batch and any queue: what is left of the one, and then the other.
Line(batch, done, batchText, tasks, buffer) ==
  Rebuilt(SubSeq(batch, done + 1, Len(batch)), batchText) \o Rebuilt(tasks, buffer)

\* The same, task by task: n are left of the batch.
LineIs(line, n, batch, done, batchText, tasks, buffer) ==
  /\ n \in Nat /\ Len(tasks) \in Nat
  /\ line \in Seq(OutTask) /\ Len(line) = n + Len(tasks)
  /\ \A i \in 1..n : line[i] = Out(batch[done + i], batchText)
  /\ \A i \in 1..Len(tasks) : line[n + i] = Out(tasks[i], buffer)

\* Line puts a line together.
LEMMA LineMeans ==
  ASSUME NEW batch \in Seq(Task), NEW done \in 0..Len(batch), NEW batchText \in Seq(Nat),
         NEW tasks \in Seq(Task), NEW buffer \in Seq(Nat)
  PROVE  LineIs(Line(batch, done, batchText, tasks, buffer), Len(batch) - done,
                batch, done, batchText, tasks, buffer)
<1> DEFINE n == Len(batch) - done
           line == Line(batch, done, batchText, tasks, buffer)
<1> DEFINE rest == SubSeq(batch, done + 1, Len(batch))
<1>1. /\ rest \in Seq(Task) /\ Len(rest) = n /\ n \in Nat
      /\ \A i \in 1..n : rest[i] = batch[done + i]
  OBVIOUS
<1>2. line = Rebuilt(rest, batchText) \o Rebuilt(tasks, buffer)
  BY DEF Line
<1> HIDE DEF rest, line, n
<1> DEFINE a == Rebuilt(rest, batchText)
           b == Rebuilt(tasks, buffer)
<1>3. /\ a \in Seq(OutTask) /\ Len(a) = n
      /\ \A i \in 1..n : a[i] = Out(batch[done + i], batchText)
  BY <1>1, RebuiltMeans
<1>4. /\ b \in Seq(OutTask) /\ Len(b) = Len(tasks)
      /\ \A i \in 1..Len(tasks) : b[i] = Out(tasks[i], buffer)
  BY RebuiltMeans
<1>5. line = a \o b
  BY <1>2
<1> HIDE DEF a, b
<1> HIDE DEF OutTask
<1>6. a \in Seq(OutTask) /\ b \in Seq(OutTask)
  BY <1>3, <1>4
<1>7. /\ a \o b \in Seq(OutTask) /\ Len(a \o b) = Len(a) + Len(b)
      /\ \A i \in 1..Len(a) : (a \o b)[i] = a[i]
      /\ \A i \in 1..Len(b) : (a \o b)[Len(a) + i] = b[i]
  BY <1>6, Joined
<1>8. Len(tasks) \in Nat
  OBVIOUS
<1>9. line \in Seq(OutTask) /\ Len(line) = n + Len(tasks)
  BY <1>3, <1>4, <1>5, <1>7
<1>10. \A i \in 1..n : line[i] = Out(batch[done + i], batchText)
  BY <1>3, <1>5, <1>7
<1>11. \A i \in 1..Len(tasks) : line[n + i] = Out(tasks[i], buffer)
  BY <1>3, <1>4, <1>5, <1>7
<1>12. LineIs(line, n, batch, done, batchText, tasks, buffer)
  BY <1>1, <1>8, <1>9, <1>10, <1>11 DEF LineIs
<1> QED
  BY <1>12 DEF line, n

\* How many tasks of the batch are left.
RestLen == Len(executing) - executed

\* Pending is the line of the state.
LEMMA PendingMeans ==
  ASSUME LogTypes
  PROVE  /\ RestLen \in Nat /\ Len(queue) \in Nat
         /\ Pending \in Seq(OutTask) /\ Len(Pending) = RestLen + Len(queue)
         /\ \A i \in 1..RestLen : Pending[i] = Out(executing[executed + i], loggingText)
         /\ \A i \in 1..Len(queue) : Pending[RestLen + i] = Out(queue[i], text)
<1>1. Pending = Line(executing, executed, loggingText, queue, text)
  BY DEF Pending, Line
<1>2. /\ executing \in Seq(Task) /\ executed \in 0..Len(executing) /\ loggingText \in Seq(Nat)
      /\ queue \in Seq(Task) /\ text \in Seq(Nat) /\ RestLen = Len(executing) - executed
  BY DEF LogTypes, RestLen
<1>3. LineIs(Line(executing, executed, loggingText, queue, text),
             Len(executing) - executed, executing, executed, loggingText, queue, text)
  BY <1>2, LineMeans, Zenon
<1>4. LineIs(Pending, RestLen, executing, executed, loggingText, queue, text)
  BY <1>1, <1>2, <1>3
<1> QED
  BY <1>4 DEF LineIs

\* What Recorded says of the line, said of the two buffers.
LEMMA RecordedMeans ==
  ASSUME LogTypes, NEW n \in Nat, QueueAfter(n), BatchAfter(n)
  PROVE  Recorded(n)
<1> SUFFICES ASSUME NEW i \in DOMAIN Pending, Pending[i].kind = "log"
             PROVE  Pending[i].text > n
  BY DEF Recorded
<1>1. CASE i \in 1..RestLen
  <2> DEFINE t == executing[executed + i]
  <2>1. executed + i \in Rest /\ t \in Task
    BY <1>1 DEF Rest, RestLen, LogTypes
  <2>2. Pending[i] = Out(t, loggingText)
    BY <1>1, PendingMeans
  <2>3. IsLog(t)
    BY <2>1, <2>2, OutIsTask DEF IsLog, LogTypes
  <2> QED
    BY <2>1, <2>2, <2>3 DEF BatchAfter, Out
<1>2. CASE i \notin 1..RestLen
  <2>1. PICK j \in 1..Len(queue) : i = RestLen + j
    <3>1. i \in 1..(RestLen + Len(queue)) /\ RestLen \in Nat /\ Len(queue) \in Nat
      BY PendingMeans
    <3>2. i - RestLen \in 1..Len(queue) /\ i = RestLen + (i - RestLen)
      BY <1>2, <3>1
    <3> QED
      BY <3>2
  <2>2. Pending[i] = Out(queue[j], text) /\ queue[j] \in Task /\ j \in DOMAIN queue
    BY <2>1, PendingMeans DEF LogTypes
  <2>3. IsLog(queue[j])
    BY <2>2, OutIsTask DEF IsLog, LogTypes
  <2> QED
    BY <2>2, <2>3 DEF QueueAfter, Out
<1> QED
  BY <1>1, <1>2

\* A flush that returned means that every entry pushed before it has been given to
\* the sinks (AsyncLogging::flush).
THEOREM FlushesRecord == Spec => []FlushMeansRecorded
<1>1. LogInv => FlushMeansRecorded
  <2> SUFFICES ASSUME LogInv, NEW u \in Users, promise[u]
               PROVE  Recorded(mustSee[u])
    BY DEF FlushMeansRecorded
  <2>1. LogTypes /\ mustSee[u] \in Nat /\ QueueAfter(mustSee[u]) /\ BatchAfter(mustSee[u])
    BY DEF LogInv, LogTypes, FlushDone
  <2> QED
    BY <2>1, RecordedMeans
<1> QED
  BY <1>1, LogInvHolds, PTL

\* Every entry pushed before the destructor of AsyncLoggingThread has been given to
\* the sinks when it returns (~Impl).
THEOREM ExitRecords == Spec => []NothingLostAtExit
<1>1. LogInv => NothingLostAtExit
  <2> SUFFICES ASSUME LogInv, owner = "gone"
               PROVE  Recorded(mustSee[None])
    BY DEF NothingLostAtExit
  <2>1. LogTypes /\ mustSee[None] \in Nat
    BY DEF LogInv, LogTypes
  <2>2. worker = "exited" /\ QueueAfter(mustSee[None])
    BY DEF LogInv, LeavesAtEnd
  <2>3. executing = <<>> /\ executed = 0
    BY <2>2 DEF LogInv, NoBatchBetween
  <2>4. BatchAfter(mustSee[None])
    BY <2>3 DEF BatchAfter, Rest
  <2> QED
    BY <2>1, <2>2, <2>4, RecordedMeans
<1> QED
  BY <1>1, LogInvHolds, PTL

-----------------------------------------------------------------------------
(* The two buffers implement the line.                                       *)

\* PendingMeans after a step.
LEMMA PendingAfter ==
  ASSUME LogTypes'
  PROVE  /\ RestLen' \in Nat /\ Len(queue') \in Nat
         /\ Pending' \in Seq(OutTask) /\ Len(Pending') = RestLen' + Len(queue')
         /\ \A i \in 1..RestLen' : Pending'[i] = Out(executing'[executed' + i], loggingText')
         /\ \A i \in 1..Len(queue') : Pending'[RestLen' + i] = Out(queue'[i], text')
<1>1. Pending' = Line(executing', executed', loggingText', queue', text')
  BY DEF Pending, Line
<1>2. /\ executing' \in Seq(Task) /\ executed' \in 0..Len(executing')
      /\ loggingText' \in Seq(Nat) /\ queue' \in Seq(Task) /\ text' \in Seq(Nat)
      /\ RestLen' = Len(executing') - executed'
  BY DEF LogTypes, RestLen
<1>3. LineIs(Line(executing', executed', loggingText', queue', text'),
             Len(executing') - executed', executing', executed', loggingText', queue', text')
  BY <1>2, LineMeans, Zenon
<1>4. LineIs(Pending', RestLen', executing', executed', loggingText', queue', text')
  BY <1>1, <1>2, <1>3
<1> QED
  BY <1>4 DEF LineIs

\* Two sequences of one length with the same elements are one.
LEMMA SameSeq ==
  ASSUME NEW S, NEW a \in Seq(S), NEW b \in Seq(S), Len(a) = Len(b),
         \A i \in 1..Len(a) : a[i] = b[i]
  PROVE  a = b
OBVIOUS

\* A push adds its task, with its text, at the end of the line.
LEMMA EnqueueAtEnd ==
  ASSUME LogTypes, LogTypes', TextsThere, NEW t \in Task, Enqueue(t),
         UNCHANGED <<executing, executed, loggingText>>
  PROVE  /\ Len(Pending') = Len(Pending) + 1
         /\ SubSeq(Pending', 1, Len(Pending)) = Pending
         /\ Pending'[Len(Pending')] = Out(t, text')
<1> DEFINE m == Len(queue)
<1>1. /\ RestLen \in Nat /\ m \in Nat
      /\ Pending \in Seq(OutTask) /\ Len(Pending) = RestLen + m
      /\ \A i \in 1..RestLen : Pending[i] = Out(executing[executed + i], loggingText)
      /\ \A i \in 1..m : Pending[RestLen + i] = Out(queue[i], text)
  BY PendingMeans
<1>2. /\ queue' \in Seq(Task) /\ Len(queue') = m + 1 /\ queue'[m + 1] = t
      /\ \A i \in 1..m : queue'[i] = queue[i]
      /\ \A i \in 1..m : IsLog(queue[i]) =>
           TextAt(text', queue[i].ibegin) = TextAt(text, queue[i].ibegin)
  <2>1. LogTypes /\ TextsThere /\ t \in Task /\ Enqueue(t)
    OBVIOUS
  <2>2. /\ queue' \in Seq(Task) /\ Len(queue') = m + 1
        /\ \A i \in DOMAIN queue : i \in DOMAIN queue' /\ queue'[i] = queue[i]
        /\ queue'[Len(queue')] = t
        /\ \A i \in DOMAIN queue : IsLog(queue[i]) =>
             TextAt(text', queue[i].ibegin) = TextAt(text, queue[i].ibegin)
    BY ONLY <2>1, EnqueueMeans
  <2>3. DOMAIN queue = 1..m
    BY DEF LogTypes
  <2> QED
    BY <2>2, <2>3
<1>3. /\ RestLen' = RestLen
      /\ Pending' \in Seq(OutTask) /\ Len(Pending') = RestLen + Len(queue')
      /\ \A i \in 1..RestLen : Pending'[i] = Out(executing[executed + i], loggingText)
      /\ \A i \in 1..Len(queue') : Pending'[RestLen + i] = Out(queue'[i], text')
  BY PendingAfter DEF RestLen
<1>4. \A i \in 1..m : Out(queue'[i], text') = Out(queue[i], text)
  BY <1>2 DEF Out
<1> HIDE DEF m
<1>5. Len(Pending') = Len(Pending) + 1 /\ Pending'[Len(Pending')] = Out(t, text')
  BY <1>1, <1>2, <1>3
<1>6. ASSUME NEW i \in 1..Len(Pending) PROVE Pending'[i] = Pending[i]
  <2>1. CASE i \in 1..RestLen
    BY <1>1, <1>3, <2>1
  <2>2. CASE i \notin 1..RestLen
    <3>1. i - RestLen \in 1..m /\ i = RestLen + (i - RestLen)
      BY <1>1, <2>2
    <3> DEFINE j == i - RestLen
    <3> HIDE DEF j
    <3>2. j \in 1..m /\ i = RestLen + j /\ j \in 1..(m + 1)
      BY <1>1, <3>1 DEF j
    <3> QED
      BY <1>1, <1>2, <1>3, <1>4, <3>2
  <2> QED
    BY <2>1, <2>2
<1>7. SubSeq(Pending', 1, Len(Pending)) = Pending
  <2> DEFINE s == SubSeq(Pending', 1, Len(Pending))
  <2>1. /\ s \in Seq(OutTask) /\ Len(s) = Len(Pending)
        /\ \A i \in 1..Len(s) : s[i] = Pending'[i]
    BY <1>1, <1>3, <1>5
  <2> HIDE DEF s
  <2>2. s = Pending
    BY <1>1, <1>6, <2>1, SameSeq
  <2> QED
    BY <2>2 DEF s
<1> QED
  BY <1>5, <1>7

\* A push is an Accept of SyncLog.
LEMMA PushIsAccept ==
  ASSUME LogTypes, LogTypes', TextsThere, NEW t \in Task, Enqueue(t),
         UNCHANGED <<executing, executed, loggingText, sinks, received>>,
         \A u \in Users : promise'[u] = (promise[u] /\ ~IsSyncOf(t, u))
  PROVE  SyncLog!Accept
<1> DEFINE o == Pending'[Len(Pending')]
<1>1. /\ Len(Pending') = Len(Pending) + 1
      /\ SubSeq(Pending', 1, Len(Pending)) = Pending
      /\ o = Out(t, text')
  BY EnqueueAtEnd
<1>2. \A u \in Users : (o.kind = "sync" /\ o.by = u) <=> IsSyncOf(t, u)
  BY <1>1 DEF Out, IsLog, IsSyncOf
<1> HIDE DEF o
<1>3. promise' = [u \in Users |-> promise[u] /\ ~(o.kind = "sync" /\ o.by = u)]
  BY <1>2 DEF LogTypes
<1> QED
  BY <1>1, <1>3 DEF SyncLog!Accept, o

\* Executing a task takes it, with its text, from the head of the line.
LEMMA ExecuteFromHead ==
  ASSUME LogTypes, LogTypes', ExecuteTask
  PROVE  /\ Pending # <<>> /\ Pending' = Tail(Pending)
         /\ Head(Pending) = Out(executing[executed + 1], loggingText)
<1>1. /\ UNCHANGED <<queue, text, executing, loggingText>>
      /\ executed < Len(executing) /\ executed' = executed + 1
      /\ executed \in Nat /\ Len(executing) \in Nat
  BY DEF ExecuteTask, LogTypes
<1>2. /\ RestLen \in Nat /\ Len(queue) \in Nat
      /\ Pending \in Seq(OutTask) /\ Len(Pending) = RestLen + Len(queue)
      /\ \A i \in 1..RestLen : Pending[i] = Out(executing[executed + i], loggingText)
      /\ \A i \in 1..Len(queue) : Pending[RestLen + i] = Out(queue[i], text)
  BY PendingMeans
<1>3. RestLen > 0 /\ RestLen' = RestLen - 1
  BY <1>1 DEF RestLen
<1>4. /\ Pending' \in Seq(OutTask) /\ Len(Pending') = RestLen' + Len(queue)
      /\ \A i \in 1..RestLen' : Pending'[i] = Out(executing[executed' + i], loggingText)
      /\ \A i \in 1..Len(queue) : Pending'[RestLen' + i] = Out(queue[i], text)
  BY <1>1, PendingAfter
<1>5. Pending # <<>> /\ Head(Pending) = Out(executing[executed + 1], loggingText)
  BY <1>2, <1>3
<1>6. ASSUME NEW i \in 1..Len(Pending') PROVE Pending'[i] = Pending[i + 1]
  <2>1. CASE i \in 1..RestLen'
    <3>1. i + 1 \in 1..RestLen /\ executed' + i = executed + (i + 1)
      BY <1>1, <1>2, <1>3, <2>1
    <3> QED
      BY <1>2, <1>4, <2>1, <3>1
  <2>2. CASE i \notin 1..RestLen'
    <3> DEFINE j == i - RestLen'
    <3>1. j \in 1..Len(queue) /\ i = RestLen' + j /\ i + 1 = RestLen + j
      BY <1>2, <1>3, <1>4, <2>2
    <3> HIDE DEF j
    <3> QED
      BY <1>2, <1>4, <3>1
  <2> QED
    BY <2>1, <2>2
<1>7. Pending' = Tail(Pending)
  <2> DEFINE s == Tail(Pending)
  <2>1. /\ s \in Seq(OutTask) /\ Len(s) = Len(Pending')
        /\ \A i \in 1..Len(s) : s[i] = Pending[i + 1]
    BY <1>2, <1>3, <1>4, <1>5
  <2> HIDE DEF s
  <2>2. Pending' = s
    BY <1>4, <1>6, <2>1, SameSeq
  <2> QED
    BY <2>2 DEF s
<1> QED
  BY <1>5, <1>7

\* Executing a task is an Apply of SyncLog.
LEMMA ExecuteIsApply ==
  ASSUME LogTypes, LogTypes', ExecuteTask
  PROVE  SyncLog!Apply
<1> DEFINE t == executing[executed + 1]
           o == Head(Pending)
<1>1. Pending # <<>> /\ Pending' = Tail(Pending) /\ o = Out(t, loggingText)
  BY ExecuteFromHead
<1>2. t \in Task
  BY DEF ExecuteTask, LogTypes
<1>3. o.kind = t.kind /\ (t.kind # "log" => o = t)
      /\ (t.kind = "log" => o.text = TextAt(loggingText, t.ibegin))
  BY <1>1 DEF Out, IsLog
<1>4. \/ t.kind = "log" /\ Record(TextAt(loggingText, t.ibegin))
      \/ t.kind = "add" /\ sinks' = Append(sinks, t.sink) /\ UNCHANGED <<received, promise>>
      \/ /\ t.kind = "remove"
         /\ sinks' = SelectSeq(sinks, LAMBDA s : s # t.sink)
         /\ UNCHANGED <<received, promise>>
      \/ /\ t.kind = "sync"
         /\ promise' = [u \in Users |-> promise[u] \/ u = t.by]
         /\ UNCHANGED <<received, sinks>>
  BY DEF ExecuteTask
<1>5. CASE t.kind = "log" /\ Record(TextAt(loggingText, t.ibegin))
  <2> DEFINE Given(x) ==
        [s \in Sinks |-> received[s] \o
           [i \in 1..Cardinality({j \in DOMAIN sinks : sinks[j] = s}) |-> x]]
  <2>1. received' = Given(TextAt(loggingText, t.ibegin)) /\ UNCHANGED <<sinks, promise>>
    BY <1>5 DEF Record
  <2>2. o.text = TextAt(loggingText, t.ibegin)
    BY <1>3, <1>5
  <2> HIDE DEF Given, o, t
  <2>3. received' = Given(o.text)
    BY <2>1, <2>2
  <2>4. received' = [s \in Sinks |-> received[s] \o
           [i \in 1..Cardinality({j \in DOMAIN sinks : sinks[j] = s}) |-> o.text]]
    BY <2>3 DEF Given
  <2>5. SyncLog!Record(o)
    BY <2>1, <2>4 DEF SyncLog!Record, Cardinality, SyncLog!Cardinality
  <2> QED
    BY <1>1, <1>3, <1>5, <2>5 DEF SyncLog!Apply, o
<1>6. CASE t.kind # "log"
  <2> DEFINE Without(x) == SelectSeq(sinks, LAMBDA s : s # x.sink)
  <2>1. o = t
    BY <1>3, <1>6
  <2>2. \/ t.kind = "add" /\ sinks' = Append(sinks, t.sink) /\ UNCHANGED <<received, promise>>
        \/ t.kind = "remove" /\ sinks' = Without(t) /\ UNCHANGED <<received, promise>>
        \/ /\ t.kind = "sync"
           /\ promise' = [u \in Users |-> promise[u] \/ u = t.by]
           /\ UNCHANGED <<received, sinks>>
    BY <1>4, <1>6
  <2> HIDE DEF Without, o, t
  <2>3. \/ o.kind = "add" /\ sinks' = Append(sinks, o.sink) /\ UNCHANGED <<received, promise>>
        \/ o.kind = "remove" /\ sinks' = Without(o) /\ UNCHANGED <<received, promise>>
        \/ /\ o.kind = "sync"
           /\ promise' = [u \in Users |-> promise[u] \/ u = o.by]
           /\ UNCHANGED <<received, sinks>>
    BY <2>1, <2>2
  <2> QED
    BY <1>1, <2>3 DEF SyncLog!Apply, Without, o
<1> QED
  BY <1>4, <1>5, <1>6

\* Swapping the buffers does not move the line.
LEMMA SwapLeavesLine ==
  ASSUME LogTypes, LogTypes', NoBatchBetween, Update \/ Finalize
  PROVE  Pending' = Pending
<1>1. /\ executing = <<>> /\ executed = 0
      /\ queue' = <<>> /\ executing' = queue /\ loggingText' = text /\ executed' = 0
  BY DEF NoBatchBetween, Update, Finalize, SwapBuffers
<1>2. RestLen = 0 /\ RestLen' = Len(queue) /\ Len(queue') = 0 /\ Len(queue) \in Nat
  BY <1>1 DEF RestLen, LogTypes
<1>3. /\ Pending \in Seq(OutTask) /\ Len(Pending) = Len(queue)
      /\ \A i \in 1..Len(queue) : Pending[i] = Out(queue[i], text)
  BY <1>2, PendingMeans
<1>4. /\ Pending' \in Seq(OutTask) /\ Len(Pending') = Len(queue)
      /\ \A i \in 1..Len(queue) : Pending'[i] = Out(queue[i], text)
  BY <1>1, <1>2, PendingAfter
<1> QED
  BY <1>3, <1>4, SameSeq

\* Clearing a batch that is done does not move the line.
LEMMA ClearLeavesLine ==
  ASSUME LogTypes, LogTypes', ClearExecuted
  PROVE  Pending' = Pending
<1>1. /\ executed = Len(executing) /\ executing' = <<>> /\ executed' = 0
      /\ queue' = queue /\ text' = text
  BY DEF ClearExecuted
<1>2. RestLen = 0 /\ RestLen' = 0 /\ Len(queue) \in Nat
  BY <1>1 DEF RestLen, LogTypes
<1>3. /\ Pending \in Seq(OutTask) /\ Len(Pending) = Len(queue)
      /\ \A i \in 1..Len(queue) : Pending[i] = Out(queue[i], text)
  BY <1>2, PendingMeans
<1>4. /\ Pending' \in Seq(OutTask) /\ Len(Pending') = Len(queue)
      /\ \A i \in 1..Len(queue) : Pending'[i] = Out(queue[i], text)
  BY <1>1, <1>2, PendingAfter
<1> QED
  BY <1>3, <1>4, SameSeq

\* The line is empty in the initial states, like the buffers.
LEMMA InitIsLogInit == Init => SyncLog!LogInit
<1> SUFFICES ASSUME Init PROVE SyncLog!LogInit
  OBVIOUS
<1>1. LogTypes
  BY LogInitially DEF LogInv
<1>2. RestLen = 0 /\ Len(queue) = 0
  BY DEF Init, RestLen
<1>3. Pending = <<>>
  BY <1>1, <1>2, PendingMeans
<1> QED
  BY <1>3 DEF Init, SyncLog!LogInit

\* Every step of the threads accepts a task, applies one, or leaves the line alone.
LEMMA StepIsLogStep ==
  LogInv /\ [Next]_vars => [SyncLog!LogNext]_(SyncLog!logVars)
<1> SUFFICES ASSUME LogInv, [Next]_vars
             PROVE  SyncLog!LogNext \/ UNCHANGED SyncLog!logVars
  OBVIOUS
<1>1. LogTypes /\ LogTypes' /\ TextsThere /\ NoBatchBetween
  BY LogInvStep DEF LogInv
<1> HIDE DEF LogInv
<1>2. ASSUME NEW u \in Users, Push(u) PROVE SyncLog!Accept
  <2>1. PICK t \in Task : Enqueue(t) /\ \A v \in Users : ~IsSyncOf(t, v)
    BY <1>1, <1>2, PushesEnqueue
  <2>2. /\ UNCHANGED <<executing, executed, loggingText, sinks, received, promise>>
    BY <1>2 DEF Push
  <2>3. \A v \in Users : promise'[v] = (promise[v] /\ ~IsSyncOf(t, v))
    BY <1>1, <2>1, <2>2 DEF LogTypes
  <2> QED
    BY <1>1, <2>1, <2>2, <2>3, PushIsAccept
<1>3. ASSUME NEW u \in Users, FlushPush(u) PROVE SyncLog!Accept
  <2>1. PICK t \in Task : /\ Enqueue(t) /\ IsSyncOf(t, u)
                          /\ \A v \in Users : v # u => ~IsSyncOf(t, v)
    BY <1>1, <1>3, PushesEnqueue
  <2>2. /\ UNCHANGED <<executing, executed, loggingText, sinks, received>>
        /\ promise' = [promise EXCEPT ![u] = FALSE]
    BY <1>3 DEF FlushPush
  <2>3. \A v \in Users : promise'[v] = (promise[v] /\ ~IsSyncOf(t, v))
    BY <1>1, <2>1, <2>2 DEF LogTypes
  <2> QED
    BY <1>1, <2>1, <2>2, <2>3, PushIsAccept
<1>4. ASSUME WakeUpPush PROVE SyncLog!Accept
  <2>1. PICK t \in Task : Enqueue(t) /\ \A v \in Users : ~IsSyncOf(t, v)
    BY <1>1, <1>4, PushesEnqueue
  <2>2. /\ UNCHANGED <<executing, executed, loggingText, sinks, received, promise>>
    BY <1>4 DEF WakeUpPush, sinkVars
  <2>3. \A v \in Users : promise'[v] = (promise[v] /\ ~IsSyncOf(t, v))
    BY <1>1, <2>1, <2>2 DEF LogTypes
  <2> QED
    BY <1>1, <2>1, <2>2, <2>3, PushIsAccept
<1>5. ASSUME UNCHANGED <<bufVars, sinkVars, promise>>
      PROVE  UNCHANGED SyncLog!logVars
  BY <1>5 DEF bufVars, sinkVars, Pending, SyncLog!logVars
<1>6. CASE \/ \E u \in Users : NotifyCv(u) \/ FlushReturn(u)
           \/ LoopTest \/ Sleep \/ SpuriousWakeup \/ WakeUpNotify \/ Join \/ ClearRunning
           \/ UNCHANGED vars
  BY <1>5, <1>6 DEF NotifyCv, FlushReturn, LoopTest, Sleep, SpuriousWakeup, WakeUpNotify,
       Join, ClearRunning, userVars, vars, bufVars, sinkVars
<1>7. CASE Update \/ Finalize
  BY <1>1, <1>7, SwapLeavesLine DEF Update, Finalize, sinkVars, userVars, SyncLog!logVars
<1>8. CASE ExecuteTask
  BY <1>1, <1>8, ExecuteIsApply DEF SyncLog!LogNext
<1>9. CASE ClearExecuted
  BY <1>1, <1>9, ClearLeavesLine DEF ClearExecuted, sinkVars, userVars, SyncLog!logVars
<1> QED
  BY <1>2, <1>3, <1>4, <1>6, <1>7, <1>8, <1>9 DEF Next, Worker, SyncLog!LogNext

\* The two buffers and their indices are one line of tasks, applied in order, each
\* entry with its own text (AsyncLogging.cpp).
THEOREM LoggingImplementsLine == Spec => ImplementsSyncLog
<1>1. Init => SyncLog!LogInit
  BY InitIsLogInit
<1>2. LogInv /\ [Next]_vars => [SyncLog!LogNext]_(SyncLog!logVars)
  BY StepIsLogStep
<1> QED
  BY <1>1, <1>2, LogInvHolds, PTL DEF Spec, ImplementsSyncLog, SyncLog!SyncLogSpec

-----------------------------------------------------------------------------
(* LogText                                                                   *)

\* A number and what is left of it, in parts of b.
LEMMA DivIs ==
  ASSUME NEW a \in Nat, NEW b \in Nat \ {0}
  PROVE  a \div b \in Nat /\ a % b \in 0..b - 1 /\ a = b * (a \div b) + (a % b)
<1>1. a \div b \in Nat
  OBVIOUS
<1>2. a % b \in 0..b - 1
  OBVIOUS
<1>3. a = b * (a \div b) + (a % b)
  OBVIOUS
<1> QED
  BY <1>1, <1>2, <1>3

\* There is only one such number of parts.
LEMMA DivUnique ==
  ASSUME NEW a \in Nat, NEW b \in Nat \ {0}, NEW q \in Nat, NEW r \in 0..b - 1, a = b * q + r
  PROVE  a \div b = q
OBVIOUS

\* Parts of parts.
LEMMA DivDiv ==
  ASSUME NEW a \in Nat, NEW b \in Nat \ {0}, NEW c \in Nat \ {0}
  PROVE  b * c \in Nat \ {0} /\ (a \div b) \div c = a \div (b * c)
<1> DEFINE q == a \div b
           r == a % b
           s == q \div c
           t == q % c
<1>1. q \in Nat /\ r \in 0..b - 1 /\ a = b * q + r
  BY DivIs
<1>2. s \in Nat /\ t \in 0..c - 1 /\ q = c * s + t
  <2> HIDE DEF q
  <2> QED
    BY <1>1, DivIs
<1> HIDE DEF q, r, s, t
<1> DEFINE bc == b * c
           w == b * t + r
<1>3. bc \in Nat /\ bc > 0
  OBVIOUS
<1>4. b * t \in Nat /\ r \in Nat /\ w \in Nat
  BY <1>1, <1>2
<1>5. w < bc
  <2>1. t + 1 \in Nat /\ t + 1 <= c
    BY <1>2
  <2>2. b * (t + 1) <= b * c
    BY <2>1
  <2>3. b * (t + 1) = b * t + b
    BY <1>2
  <2> QED
    BY <1>1, <1>4, <2>2, <2>3
<1>6. a = bc * s + w
  <2>1. b * q = b * (c * s) + b * t
    BY <1>2
  <2>2. b * (c * s) = bc * s
    BY <1>2
  <2>3. b * q \in Nat /\ bc * s \in Nat
    BY <1>1, <1>2, <1>3
  <2> QED
    BY <1>1, <1>4, <2>1, <2>2, <2>3
<1>7. w \in 0..bc - 1
  BY <1>3, <1>4, <1>5
<1> HIDE DEF bc, w
<1>8. a \div bc = s
  BY <1>2, <1>3, <1>6, <1>7, DivUnique
<1> QED
  BY <1>3, <1>8 DEF bc, s, q

-----------------------------------------------------------------------------
\* The first n powers.
PowersOf(b, n, f) == f = [k \in 0..n |-> IF k = 0 THEN 1 ELSE b * f[k - 1]]

\* There is such a function.
LEMMA PowersExist ==
  ASSUME NEW b \in Nat, NEW n \in Nat
  PROVE  \E f : PowersOf(b, n, f)
<1> DEFINE T == {m \in Nat : \E f : PowersOf(b, m, f)}
<1>1. 0 \in T
  <2> DEFINE f == [k \in 0..0 |-> 1]
  <2>1. f[0] = 1 /\ DOMAIN f = 0..0 /\ \A k \in 0..0 : k = 0
    OBVIOUS
  <2>2. f = [k \in 0..0 |-> IF k = 0 THEN 1 ELSE b * f[k - 1]]
    BY <2>1
  <2> HIDE DEF f
  <2>3. PowersOf(b, 0, f)
    BY <2>2 DEF PowersOf
  <2> QED
    BY <2>3
<1>2. ASSUME NEW m \in Nat, m < n /\ m \in T PROVE m + 1 \in T
  <2>1. PICK f : PowersOf(b, m, f)
    BY <1>2
  <2>2. f = [k \in 0..m |-> IF k = 0 THEN 1 ELSE b * f[k - 1]]
    BY <2>1 DEF PowersOf
  <2> DEFINE g == [k \in 0..m + 1 |-> IF k = m + 1 THEN b * f[m] ELSE f[k]]
             h == [k \in 0..m + 1 |-> IF k = 0 THEN 1 ELSE b * g[k - 1]]
  <2>3. ASSUME NEW k \in 0..m + 1 PROVE g[k] = h[k]
    <3>1. CASE k = m + 1
      <4>1. k - 1 = m /\ m \in 0..m + 1 /\ m # m + 1 /\ k # 0
        BY <3>1
      <4>2. g[k] = b * f[m] /\ g[k - 1] = f[m]
        BY <3>1, <4>1
      <4>3. h[k] = b * g[k - 1]
        BY <4>1
      <4> QED
        BY <4>2, <4>3
    <3>2. CASE k # m + 1 /\ k # 0
      <4>1. k \in 0..m /\ k - 1 \in 0..m + 1 /\ k - 1 # m + 1
        BY <3>2
      <4>2. g[k] = f[k] /\ g[k - 1] = f[k - 1] /\ f[k] = b * f[k - 1]
        BY <2>2, <3>2, <4>1
      <4>3. h[k] = b * g[k - 1]
        BY <3>2
      <4> QED
        BY <4>2, <4>3
    <3>3. CASE k = 0
      <4>1. 0 \in 0..m /\ 0 # m + 1
        OBVIOUS
      <4>2. g[0] = f[0] /\ f[0] = 1
        BY <2>2, <4>1
      <4> QED
        BY <3>3, <4>2
    <3> QED
      BY <3>1, <3>2, <3>3
  <2>4. g = h
    BY <2>3
  <2> HIDE DEF g
  <2>5. PowersOf(b, m + 1, g)
    BY <2>4 DEF PowersOf
  <2> QED
    BY <2>5
<1> HIDE DEF T
<1>3. \A m \in 0..n : m \in T
  BY <1>1, <1>2, AllNumbers
<1>4. n \in T
  BY <1>3
<1> QED
  BY <1>4 DEF T

\* However many there are, they are the same.
LEMMA PowersAgree ==
  ASSUME NEW b \in Nat, NEW n \in Nat, NEW m \in Nat, n <= m, NEW f, NEW g,
         PowersOf(b, n, f), PowersOf(b, m, g)
  PROVE  f[n] = g[n] /\ f[n] \in Nat
<1> DEFINE T == {k \in Nat : k <= n => f[k] = g[k] /\ f[k] \in Nat}
<1>0. /\ f = [k \in 0..n |-> IF k = 0 THEN 1 ELSE b * f[k - 1]]
      /\ g = [k \in 0..m |-> IF k = 0 THEN 1 ELSE b * g[k - 1]]
  BY DEF PowersOf
<1>1. 0 \in T
  <2>1. 0 \in 0..n /\ 0 \in 0..m
    OBVIOUS
  <2>2. f[0] = 1 /\ g[0] = 1
    BY <1>0, <2>1
  <2> QED
    BY <2>2
<1>2. ASSUME NEW k \in Nat, k < n /\ k \in T PROVE k + 1 \in T
  <2>1. k + 1 \in 0..n /\ k + 1 \in 0..m /\ k + 1 # 0 /\ (k + 1) - 1 = k
    BY <1>2
  <2>2. f[k + 1] = b * f[k] /\ g[k + 1] = b * g[k]
    BY <1>0, <2>1
  <2>3. f[k] = g[k] /\ f[k] \in Nat
    BY <1>2
  <2>4. b * f[k] \in Nat
    BY <2>3
  <2> QED
    BY <2>2, <2>3, <2>4
<1> HIDE DEF T
<1>3. \A k \in 0..n : k \in T
  BY <1>1, <1>2, AllNumbers
<1>4. n \in T
  BY <1>3
<1> QED
  BY <1>4 DEF T

\* Powers are what they should be.
LEMMA PowerIs ==
  ASSUME NEW b \in Nat, NEW n \in Nat
  PROVE  Power(b, n) \in Nat /\ Power(b, 0) = 1 /\ Power(b, n + 1) = b * Power(b, n)
<1> DEFINE F(m) == CHOOSE f : f = [k \in 0..m |-> IF k = 0 THEN 1 ELSE b * f[k - 1]]
<1>1. \A m \in Nat : Power(b, m) = F(m)[m]
  BY DEF Power
<1>2. ASSUME NEW m \in Nat PROVE PowersOf(b, m, F(m))
  <2>1. \E f : f = [k \in 0..m |-> IF k = 0 THEN 1 ELSE b * f[k - 1]]
    BY PowersExist DEF PowersOf
  <2>2. F(m) = [k \in 0..m |-> IF k = 0 THEN 1 ELSE b * F(m)[k - 1]]
    BY <2>1
  <2> QED
    BY <2>2 DEF PowersOf
<1> HIDE DEF F
<1>3. Power(b, n) \in Nat /\ F(n)[n] = F(n + 1)[n]
  <2>1. n + 1 \in Nat /\ n <= n + 1
    OBVIOUS
  <2>2. PowersOf(b, n, F(n)) /\ PowersOf(b, n + 1, F(n + 1))
    BY <1>2, <2>1
  <2>3. F(n)[n] = F(n + 1)[n] /\ F(n)[n] \in Nat
    BY <2>1, <2>2, PowersAgree
  <2> QED
    BY <1>1, <2>3
<1>4. Power(b, 0) = 1
  <2>1. F(0) = [k \in 0..0 |-> IF k = 0 THEN 1 ELSE b * F(0)[k - 1]]
    BY <1>2 DEF PowersOf
  <2>2. F(0)[0] = 1
    BY <2>1
  <2> QED
    BY <1>1, <2>2
<1>5. Power(b, n + 1) = b * Power(b, n)
  <2>1. n + 1 \in Nat /\ n + 1 \in 0..n + 1 /\ n + 1 # 0 /\ (n + 1) - 1 = n
    OBVIOUS
  <2>2. F(n + 1) = [k \in 0..n + 1 |-> IF k = 0 THEN 1 ELSE b * F(n + 1)[k - 1]]
    BY <1>2, <2>1 DEF PowersOf
  <2>3. F(n + 1)[n + 1] = b * F(n + 1)[n]
    BY <2>1, <2>2
  <2> QED
    BY <1>1, <1>3, <2>1, <2>3
<1> QED
  BY <1>3, <1>4, <1>5

\* Powers grow.
LEMMA PowerGrows ==
  ASSUME NEW b \in Nat, b >= 2, NEW n \in Nat
  PROVE  Power(b, n) \in Nat \ {0} /\ Power(b, n) >= n + 1
<1> DEFINE T == {k \in Nat : Power(b, k) >= k + 1}
<1>1. 0 \in T
  BY PowerIs
<1>2. ASSUME NEW k \in Nat, k < n /\ k \in T PROVE k + 1 \in T
  <2> DEFINE p == Power(b, k)
  <2>1. p \in Nat /\ p >= k + 1 /\ Power(b, k + 1) = b * p
    BY <1>2, PowerIs
  <2> HIDE DEF p
  <2>2. b * p >= 2 * p
    BY <2>1
  <2>3. b * p >= (k + 1) + 1
    BY <2>1, <2>2
  <2> QED
    BY <2>1, <2>3
<1> HIDE DEF T
<1>3. \A k \in 0..n : k \in T
  BY <1>1, <1>2, AllNumbers
<1>4. n \in T
  BY <1>3
<1>5. Power(b, n) >= n + 1
  BY <1>4 DEF T
<1> QED
  BY <1>5, PowerIs

\* More of them make no less.
LEMMA PowerOrder ==
  ASSUME NEW b \in Nat, b >= 2, NEW n \in Nat, NEW m \in Nat, n <= m
  PROVE  Power(b, n) <= Power(b, m)
<1> DEFINE T == {k \in Nat : Power(b, n) <= Power(b, n + k)}
<1>1. 0 \in T
  <2>1. n + 0 = n /\ Power(b, n) \in Nat
    BY PowerIs
  <2> QED
    BY <2>1
<1>2. ASSUME NEW k \in Nat, k < m - n /\ k \in T PROVE k + 1 \in T
  <2> DEFINE p == Power(b, n)
             q == Power(b, n + k)
  <2>1. n + k \in Nat /\ n + (k + 1) = (n + k) + 1
    OBVIOUS
  <2>2. p \in Nat /\ q \in Nat /\ p <= q /\ Power(b, (n + k) + 1) = b * q
    BY <1>2, <2>1, PowerIs
  <2> HIDE DEF p, q
  <2>3. b * q >= q
    BY <2>2
  <2>4. b * q \in Nat
    BY <2>2
  <2>5. p <= b * q
    BY <2>2, <2>3, <2>4
  <2> QED
    BY <2>1, <2>2, <2>5 DEF p
<1> HIDE DEF T
<1>3. m - n \in Nat /\ n + (m - n) = m
  OBVIOUS
<1>4. \A k \in 0..m - n : k \in T
  BY <1>1, <1>2, <1>3, AllNumbers
<1>5. m - n \in T
  BY <1>3, <1>4
<1> QED
  BY <1>3, <1>5 DEF T

\* And more makes powers that are greater.
LEMMA PowerBases ==
  ASSUME NEW b \in Nat, b >= 2, NEW n \in Nat
  PROVE  Power(2, n) <= Power(b, n) /\ (b > 2 /\ n > 0 => Power(2, n) < Power(b, n))
<1> DEFINE T == {k \in Nat : /\ Power(2, k) <= Power(b, k)
                             /\ b > 2 /\ k > 0 => Power(2, k) < Power(b, k)}
<1>1. 0 \in T
  <2>1. Power(2, 0) = 1 /\ Power(b, 0) = 1
    BY PowerIs
  <2> QED
    BY <2>1
<1>2. ASSUME NEW k \in Nat, k < n /\ k \in T PROVE k + 1 \in T
  <2> DEFINE p == Power(2, k)
             q == Power(b, k)
  <2>1. p \in Nat \ {0} /\ q \in Nat \ {0} /\ p <= q
    BY <1>2, PowerGrows
  <2>2. Power(2, k + 1) = 2 * p /\ Power(b, k + 1) = b * q
    BY PowerIs
  <2> HIDE DEF p, q
  <2>3. 2 * p <= 2 * q /\ 2 * q <= b * q /\ b * q \in Nat
    BY <2>1
  <2>4. b > 2 => 2 * q < b * q
    BY <2>1
  <2> QED
    BY <2>1, <2>2, <2>3, <2>4
<1> HIDE DEF T
<1>3. \A k \in 0..n : k \in T
  BY <1>1, <1>2, AllNumbers
<1>4. n \in T
  BY <1>3
<1> QED
  BY <1>4 DEF T

-----------------------------------------------------------------------------
\* A number has n places in base b.
HasPlaces(u, b, n) == n > 0 /\ u < Power(b, n) /\ (n = 1 \/ u >= Power(b, n - 1))

\* It has, for one n.
LEMMA PlacesExist ==
  ASSUME NEW u \in Nat, NEW b \in Nat, b >= 2
  PROVE  \E n \in Nat : HasPlaces(u, b, n)
<1> DEFINE I == {n \in Nat : u < Power(b, n) /\ n > 0}
<1>1. I \in SUBSET Nat
  OBVIOUS
<1>2. u + 1 \in I
  <2>1. Power(b, u + 1) \in Nat /\ Power(b, u + 1) >= (u + 1) + 1
    BY PowerGrows
  <2> QED
    BY <2>1
<1> HIDE DEF I
<1>3. PICK n \in I : \A j \in I : n <= j
  BY <1>1, <1>2, LeastOf
<1>4. n \in Nat /\ u < Power(b, n) /\ n > 0
  BY <1>3 DEF I
<1>5. n # 1 => u >= Power(b, n - 1)
  <2> SUFFICES ASSUME n # 1, ~(u >= Power(b, n - 1)) PROVE FALSE
    OBVIOUS
  <2>1. n - 1 \in Nat /\ n - 1 > 0 /\ ~(n <= n - 1)
    BY <1>4
  <2>2. Power(b, n - 1) \in Nat
    BY <2>1, PowerIs
  <2>3. u < Power(b, n - 1)
    BY <2>2
  <2>4. n - 1 \in I
    BY <2>1, <2>3 DEF I
  <2> QED
    BY <1>3, <2>1, <2>4
<1> QED
  BY <1>4, <1>5 DEF HasPlaces

\* What is less than a power has no more places.
LEMMA PlacesBound ==
  ASSUME NEW u \in Nat, NEW b \in Nat, b >= 2, NEW n \in Nat, HasPlaces(u, b, n),
         NEW k \in Nat \ {0}, u < Power(b, k)
  PROVE  n <= k
<1> SUFFICES ASSUME ~(n <= k) PROVE FALSE
  OBVIOUS
<1>1. n - 1 \in Nat /\ k <= n - 1 /\ n # 1
  OBVIOUS
<1>2. u >= Power(b, n - 1)
  BY <1>1 DEF HasPlaces
<1>3. Power(b, k) <= Power(b, n - 1)
  BY <1>1, PowerOrder
<1>4. Power(b, k) \in Nat /\ Power(b, n - 1) \in Nat
  BY <1>1, PowerIs
<1> QED
  BY <1>2, <1>3, <1>4

\* So there is only one number of places.
LEMMA PlacesUnique ==
  ASSUME NEW u \in Nat, NEW b \in Nat, b >= 2, NEW n \in Nat, HasPlaces(u, b, n),
         NEW m \in Nat, HasPlaces(u, b, m)
  PROVE  n = m
<1>1. n \in Nat \ {0} /\ m \in Nat \ {0} /\ u < Power(b, n) /\ u < Power(b, m)
  BY DEF HasPlaces
<1>2. u \in Nat /\ b \in Nat /\ b >= 2 /\ HasPlaces(u, b, n) /\ HasPlaces(u, b, m)
  OBVIOUS
<1>3. n <= m
  BY ONLY <1>1, <1>2, PlacesBound
<1>4. m <= n
  BY ONLY <1>1, <1>2, PlacesBound
<1> QED
  BY <1>3, <1>4

\* A digit more is a place more.
LEMMA PlacesStep ==
  ASSUME NEW u \in Nat, NEW b \in Nat, b >= 2, u >= b, NEW n \in Nat, HasPlaces(u \div b, b, n)
  PROVE  HasPlaces(u, b, n + 1)
<1>0. u \in Nat /\ b \in Nat \ {0}
  OBVIOUS
<1>d. u \div b \in Nat /\ u % b \in 0..b - 1 /\ u = b * (u \div b) + (u % b)
  BY ONLY <1>0, DivIs
<1> DEFINE q == u \div b
           r == u % b
           p == Power(b, n)
<1>1. q \in Nat /\ r \in 0..b - 1 /\ u = b * q + r
  BY ONLY <1>d
<1>2. p \in Nat /\ n > 0 /\ q < p /\ Power(b, n + 1) = b * p /\ n + 1 # 1 /\ (n + 1) - 1 = n
  BY PowerIs DEF HasPlaces
<1>3. n = 1 \/ (n - 1 \in Nat /\ q >= Power(b, n - 1) /\ p = b * Power(b, n - 1))
  <2>1. CASE n = 1
    BY <2>1
  <2>2. CASE n # 1
    <3>1. n - 1 \in Nat /\ (n - 1) + 1 = n
      BY <1>2, <2>2
    <3>2. q >= Power(b, n - 1)
      BY <2>2 DEF HasPlaces
    <3>3. Power(b, (n - 1) + 1) = b * Power(b, n - 1)
      BY <3>1, PowerIs
    <3> QED
      BY <3>1, <3>2, <3>3
  <2> QED
    BY <2>1, <2>2
<1>4. p = b \/ n # 1
  <2>1. Power(b, 0) = 1 /\ Power(b, 0 + 1) = b * Power(b, 0)
    BY PowerIs
  <2>2. 0 + 1 = 1
    OBVIOUS
  <2> QED
    BY <2>1, <2>2
<1>5. u < b * p
  <2> HIDE DEF p, q, r
  <2>1. q + 1 \in Nat /\ q + 1 <= p
    BY <1>1, <1>2
  <2>2. b * (q + 1) <= b * p
    BY <1>2, <2>1
  <2>3. b * (q + 1) = b * q + b /\ b * q \in Nat /\ b * p \in Nat
    BY <1>1, <1>2
  <2> QED
    BY <1>1, <2>2, <2>3
<1>6. u >= p
  <2>1. CASE n = 1
    BY <1>4, <2>1
  <2>2. CASE n # 1
    <3> DEFINE t == Power(b, n - 1)
    <3>1. t \in Nat /\ q >= t /\ p = b * t
      BY <1>3, <2>2, PowerIs
    <3> HIDE DEF p, q, r, t
    <3>2. b * q >= b * t /\ b * q \in Nat /\ b * t \in Nat
      BY <1>1, <3>1
    <3> QED
      BY <1>1, <1>2, <3>1, <3>2
  <2> QED
    BY <2>1, <2>2
<1> QED
  BY <1>2, <1>5, <1>6 DEF HasPlaces

\* The last n digits of a number in base b.
DigitSeq(u, b, n) == [p \in 1..n |-> Digit((u \div Power(b, n - p)) % b)]

\* They are characters.
LEMMA DigitSeqIs ==
  ASSUME NEW u \in Nat, NEW b \in Nat, b >= 2, NEW n \in Nat
  PROVE  DigitSeq(u, b, n) \in Seq(Nat) /\ Len(DigitSeq(u, b, n)) = n
<1>1. ASSUME NEW p \in 1..n PROVE Digit((u \div Power(b, n - p)) % b) \in Nat
  <2> DEFINE q == Power(b, n - p)
  <2>1. n - p \in Nat
    OBVIOUS
  <2>2. q \in Nat \ {0}
    BY <2>1, PowerGrows
  <2> HIDE DEF q
  <2>3. u \div q \in Nat
    BY <2>2
  <2> DEFINE d == u \div q
  <2> HIDE DEF d
  <2>4. d \in Nat
    BY <2>3 DEF d
  <2>5. d % b \in Nat
    BY <2>4
  <2>6. (d % b) + 1 \in Nat
    BY <2>5
  <2> QED
    BY <2>6 DEF Digit, d, q
<1>2. DigitSeq(u, b, n) \in [1..n -> Nat]
  BY <1>1 DEF DigitSeq
<1> QED
  BY ONLY <1>2, n \in Nat

\* One digit more is the remainder behind the digits of the quotient.
LEMMA DigitsStep ==
  ASSUME NEW u \in Nat, NEW b \in Nat, b >= 2, NEW n \in Nat
  PROVE  DigitSeq(u, b, n + 1) = Append(DigitSeq(u \div b, b, n), Digit(u % b))
<1>0. u \in Nat /\ b \in Nat \ {0} /\ b >= 2
  OBVIOUS
<1>1. u \div b \in Nat /\ u % b \in Nat
  BY ONLY <1>0
<1> DEFINE s == DigitSeq(u, b, n + 1)
           v == DigitSeq(u \div b, b, n)
           t == Append(v, Digit(u % b))
<1>2. s \in Seq(Nat) /\ Len(s) = n + 1
  <2>1. n + 1 \in Nat
    OBVIOUS
  <2> QED
    BY ONLY <1>0, <2>1, DigitSeqIs
<1>3. v \in Seq(Nat) /\ Len(v) = n
  BY ONLY <1>0, <1>1, n \in Nat, DigitSeqIs
<1>4. Digit(u % b) \in Nat
  BY ONLY <1>1 DEF Digit
<1>5. t \in Seq(Nat) /\ Len(t) = n + 1 /\ t[n + 1] = Digit(u % b)
      /\ \A p \in 1..n : t[p] = v[p]
  <2> HIDE DEF v
  <2> QED
    BY ONLY <1>3, <1>4
<1>6. ASSUME NEW p \in 1..n PROVE s[p] = v[p]
  <2> DEFINE q == Power(b, n - p)
  <2>1. n - p \in Nat /\ (n + 1) - p = (n - p) + 1 /\ p \in 1..n + 1
    OBVIOUS
  <2>2. q \in Nat \ {0} /\ Power(b, (n - p) + 1) = b * q
    BY ONLY <1>0, <2>1, PowerGrows, PowerIs
  <2>3. (u \div b) \div q = u \div (b * q)
    BY ONLY <1>0, <2>2, DivDiv
  <2>4. s[p] = Digit((u \div Power(b, (n + 1) - p)) % b)
    BY <2>1 DEF DigitSeq
  <2>5. v[p] = Digit(((u \div b) \div q) % b)
    BY DEF DigitSeq
  <2> QED
    BY ONLY <2>1, <2>2, <2>3, <2>4, <2>5
<1>7. s[n + 1] = Digit(u % b)
  <2>1. n + 1 \in 1..n + 1 /\ (n + 1) - (n + 1) = 0
    OBVIOUS
  <2>2. s[n + 1] = Digit((u \div Power(b, (n + 1) - (n + 1))) % b)
    BY <2>1 DEF DigitSeq
  <2>3. Power(b, 0) = 1
    BY ONLY <1>0, PowerIs, 0 \in Nat
  <2>4. u \div 1 = u
    BY ONLY <1>0
  <2> QED
    BY ONLY <2>1, <2>2, <2>3, <2>4
<1>8. \A p \in 1..n + 1 : s[p] = t[p]
  <2> SUFFICES ASSUME NEW p \in 1..n + 1 PROVE s[p] = t[p]
    OBVIOUS
  <2>1. p \in 1..n \/ p = n + 1
    OBVIOUS
  <2> HIDE DEF s, t, v
  <2> QED
    BY ONLY <2>1, <1>5, <1>6, <1>7
<1> HIDE DEF s, t
<1>9. s \in Seq(Nat) /\ t \in Seq(Nat) /\ Len(s) = Len(t) /\ \A p \in 1..Len(s) : s[p] = t[p]
  BY ONLY <1>2, <1>5, <1>8
<1>10. s = t
  BY ONLY <1>9, SameElements
<1> QED
  BY <1>10 DEF s, t

\* As many places as a number has, and its digits.
Places(u, b) == CHOOSE n \in Nat : HasPlaces(u, b, n)
Digits(u, b) == DigitSeq(u, b, Places(u, b))

\* Every number has places.
LEMMA PlacesIs ==
  ASSUME NEW u \in Nat, NEW b \in Nat, b >= 2
  PROVE  Places(u, b) \in Nat \ {0} /\ HasPlaces(u, b, Places(u, b))
<1>1. \E n \in Nat : HasPlaces(u, b, n)
  BY PlacesExist
<1>2. Places(u, b) \in Nat /\ HasPlaces(u, b, Places(u, b))
  BY ONLY <1>1 DEF Places
<1> QED
  BY ONLY <1>2 DEF HasPlaces

\* Whatever number of places it has is that one.
LEMMA PlacesAre ==
  ASSUME NEW u \in Nat, NEW b \in Nat, b >= 2, NEW n \in Nat, HasPlaces(u, b, n)
  PROVE  Places(u, b) = n
<1>1. Places(u, b) \in Nat \ {0} /\ HasPlaces(u, b, Places(u, b))
  BY PlacesIs
<1> DEFINE m == Places(u, b)
<1>2. u \in Nat /\ b \in Nat /\ b >= 2 /\ n \in Nat /\ HasPlaces(u, b, n) /\ m \in Nat
      /\ HasPlaces(u, b, m)
  BY <1>1
<1> HIDE DEF m
<1>3. m = n
  BY ONLY <1>2, PlacesUnique
<1> QED
  BY <1>3 DEF m

\* A digit of its own.
LEMMA OneDigit ==
  ASSUME NEW u \in Nat, NEW b \in Nat, b >= 2, u < b
  PROVE  Digits(u, b) = <<Digit(u)>>
<1>0. u \in Nat /\ b \in Nat /\ b >= 2 /\ u < b /\ 0 \in Nat /\ 1 \in Nat
  OBVIOUS
<1>1. Power(b, 0) = 1 /\ Power(b, 0 + 1) = b * Power(b, 0)
  BY ONLY <1>0, PowerIs
<1>2. Power(b, 1) = b
  <2>1. 0 + 1 = 1 /\ b * 1 = b
    BY ONLY <1>0
  <2> QED
    BY ONLY <1>1, <2>1
<1>3. HasPlaces(u, b, 1)
  BY ONLY <1>0, <1>2 DEF HasPlaces
<1>4. Places(u, b) = 1
  BY ONLY <1>0, <1>3, PlacesAre
<1>5. DigitSeq(u, b, 1) = [p \in 1..1 |-> Digit(u)]
  <2>1. \A p \in 1..1 : Digit((u \div Power(b, 1 - p)) % b) = Digit(u)
    <3> SUFFICES ASSUME NEW p \in 1..1
                 PROVE  Digit((u \div Power(b, 1 - p)) % b) = Digit(u)
      OBVIOUS
    <3>1. 1 - p = 0
      OBVIOUS
    <3>2. (u \div 1) % b = u
      BY ONLY <1>0
    <3> QED
      BY ONLY <1>1, <3>1, <3>2
  <2> QED
    BY ONLY <2>1 DEF DigitSeq
<1>6. <<Digit(u)>> = [p \in 1..1 |-> Digit(u)]
  OBVIOUS
<1> QED
  BY ONLY <1>4, <1>5, <1>6 DEF Digits

\* One more.
LEMMA MoreDigits ==
  ASSUME NEW u \in Nat, NEW b \in Nat, b >= 2, u >= b
  PROVE  Digits(u, b) = Append(Digits(u \div b, b), Digit(u % b))
<1>0. u \in Nat /\ b \in Nat /\ b >= 2 /\ u >= b /\ b \in Nat \ {0}
  OBVIOUS
<1>1. u \div b \in Nat
  BY ONLY <1>0
<1> DEFINE n == Places(u \div b, b)
<1>2. n \in Nat /\ HasPlaces(u \div b, b, n)
  BY ONLY <1>0, <1>1, PlacesIs
<1> HIDE DEF n
<1>3. HasPlaces(u, b, n + 1)
  BY ONLY <1>0, <1>2, PlacesStep
<1>4. n + 1 \in Nat
  BY ONLY <1>2
<1>5. Places(u, b) = n + 1
  BY ONLY <1>0, <1>3, <1>4, PlacesAre
<1>6. DigitSeq(u, b, n + 1) = Append(DigitSeq(u \div b, b, n), Digit(u % b))
  BY ONLY <1>0, <1>2, DigitsStep
<1> QED
  BY ONLY <1>5, <1>6 DEF Digits, n

-----------------------------------------------------------------------------
\* Digits by division, as write_integer makes them.
DividedUp(f, b, N) ==
  f = [u \in 0..N - 1 |-> IF u < b THEN <<Digit(u)>> ELSE Append(f[u \div b], Digit(u % b))]

\* The digits are such a function.
LEMMA DigitsDivideUp ==
  ASSUME NEW b \in Nat, b >= 2, NEW N \in Nat
  PROVE  \E f : DividedUp(f, b, N)
<1>0. b \in Nat /\ b >= 2 /\ N \in Nat
  OBVIOUS
<1> DEFINE f == [u \in 0..N - 1 |-> Digits(u, b)]
           g == [u \in 0..N - 1 |->
                  IF u < b THEN <<Digit(u)>> ELSE Append(f[u \div b], Digit(u % b))]
<1>1. ASSUME NEW u \in 0..N - 1 PROVE f[u] = g[u]
  <2>0. u \in Nat /\ f[u] = Digits(u, b)
    OBVIOUS
  <2>1. CASE u < b
    <3>1. Digits(u, b) = <<Digit(u)>>
      BY ONLY <1>0, <2>0, <2>1, OneDigit
    <3>2. g[u] = <<Digit(u)>>
      BY <2>1
    <3> QED
      BY ONLY <2>0, <3>1, <3>2
  <2>2. CASE ~(u < b)
    <3>0. u >= b
      BY <2>2
    <3>1. Digits(u, b) = Append(Digits(u \div b, b), Digit(u % b))
      BY ONLY <1>0, <2>0, <3>0, MoreDigits
    <3>2. u \div b \in 0..N - 1
      <4>1. u \div b \in Nat /\ u \div b <= u
        BY ONLY <1>0, <2>0
      <4>2. u <= N - 1
        OBVIOUS
      <4> DEFINE d == u \div b
      <4> HIDE DEF d
      <4>3. d \in Nat /\ d <= u
        BY ONLY <4>1 DEF d
      <4>4. d \in 0..N - 1
        BY ONLY <1>0, <2>0, <4>2, <4>3
      <4> QED
        BY ONLY <4>4 DEF d
    <3>3. f[u \div b] = Digits(u \div b, b)
      BY ONLY <3>2 DEF f
    <3>4. g[u] = Append(f[u \div b], Digit(u % b))
      <4> HIDE DEF f
      <4> QED
        BY <2>2 DEF g
    <3> QED
      BY ONLY <2>0, <3>1, <3>3, <3>4
  <2> QED
    BY <2>1, <2>2
<1>2. f = g
  BY <1>1
<1> HIDE DEF f
<1>3. DividedUp(f, b, N)
  BY <1>2 DEF DividedUp
<1> QED
  BY <1>3

\* Every function that is gives the digits.
LEMMA DividedUpAgree ==
  ASSUME NEW b \in Nat, b >= 2, NEW N \in Nat, NEW f, DividedUp(f, b, N), NEW u \in 0..N - 1
  PROVE  f[u] = Digits(u, b)
<1>0. b \in Nat /\ b >= 2 /\ N \in Nat /\ u \in Nat /\ u + 1 \in Nat
  OBVIOUS
<1> DEFINE T == {m \in Nat : \A k \in 0..N - 1 : k < m => f[k] = Digits(k, b)}
<1>1. 0 \in T
  OBVIOUS
<1>2. ASSUME NEW m \in Nat, m < u + 1 /\ m \in T PROVE m + 1 \in T
  <2>1. ASSUME NEW k \in 0..N - 1, k < m + 1 PROVE f[k] = Digits(k, b)
    <3>a. k \in Nat /\ k \in 0..N - 1
      OBVIOUS
    <3>b. DividedUp(f, b, N)
      OBVIOUS
    <3>c. f[k] = IF k < b THEN <<Digit(k)>> ELSE Append(f[k \div b], Digit(k % b))
      BY ONLY <3>a, <3>b DEF DividedUp
    <3>0. k \in Nat /\ f[k] = IF k < b THEN <<Digit(k)>> ELSE Append(f[k \div b], Digit(k % b))
      BY ONLY <3>a, <3>c
    <3>1. CASE k < b
      <4>1. Digits(k, b) = <<Digit(k)>>
        BY ONLY <1>0, <3>0, <3>1, OneDigit
      <4> QED
        BY ONLY <3>0, <3>1, <4>1
    <3>2. CASE ~(k < b)
      <4>0. k >= b
        BY <3>2
      <4>1. Digits(k, b) = Append(Digits(k \div b, b), Digit(k % b))
        BY ONLY <1>0, <3>0, <4>0, MoreDigits
      <4>2. k \div b \in 0..N - 1 /\ k \div b < m
        <5>1. k \div b \in Nat /\ k \div b < k
          BY ONLY <1>0, <3>0, <4>0
        <5>2. k <= N - 1 /\ k < m + 1 /\ m \in Nat
          BY <2>1
        <5> DEFINE d == k \div b
        <5> HIDE DEF d
        <5>3. d \in Nat /\ d < k
          BY ONLY <5>1 DEF d
        <5>4. d \in 0..N - 1 /\ d < m
          BY ONLY <1>0, <3>0, <5>2, <5>3
        <5> QED
          BY ONLY <5>4 DEF d
      <4>3. f[k \div b] = Digits(k \div b, b)
        BY <1>2, <4>2
      <4> QED
        BY ONLY <3>0, <3>2, <4>1, <4>3
    <3> QED
      BY <3>1, <3>2
  <2> QED
    BY <2>1
<1> HIDE DEF T
<1>3. \A m \in 0..u + 1 : m \in T
  BY ONLY <1>0, <1>1, <1>2, AllNumbers
<1>4. u + 1 \in T
  BY <1>0, <1>3
<1> QED
  BY <1>0, <1>4 DEF T

\* How far an integer is from zero, and its sign.
Distance(i) == IF i < 0 THEN -i ELSE i
Sign(i) == IF i < 0 THEN <<Minus>> ELSE <<>>

\* What is assumed of the constants, one fact at a time.
LEMMA LtConstants ==
  /\ LtBits \in Nat \ {0, 1} /\ PrintfBuffer \in Nat \ {0}
  /\ \A b \in LtBases : b \in Nat /\ b >= 2 /\ b <= 36
  /\ \A pad \in LtPads : pad.size \in Int /\ pad.type \in {"left", "right", "inner"}
<1>1. LtBits \in Nat \ {0, 1}
  BY LtAssumption
<1>2. PrintfBuffer \in Nat \ {0}
  BY LtAssumption
<1>3. LtBases \subseteq 2..36
  BY LtAssumption
<1>4. LtPads \subseteq [size : Int, type : {"left", "right", "inner"}]
  BY LtAssumption
<1>5. \A b \in LtBases : b \in Nat /\ b >= 2 /\ b <= 36
  BY ONLY <1>3
<1>6. \A pad \in LtPads : pad.size \in Int /\ pad.type \in {"left", "right", "inner"}
  BY ONLY <1>4
<1> QED
  BY ONLY <1>1, <1>2, <1>5, <1>6

\* An integer is in reach of the unsigned numbers of its width.
LEMMA DistanceIs ==
  ASSUME NEW i \in Integer
  PROVE  /\ i \in Int /\ Distance(i) \in Nat /\ LtBits - 1 \in Nat \ {0} /\ LtBits \in Nat
         /\ Power(2, LtBits - 1) \in Nat /\ Distance(i) <= Power(2, LtBits - 1)
         /\ Distance(i) = Power(2, LtBits - 1) => i = -Power(2, LtBits - 1) \/ i >= 0
         /\ i >= 0 => Distance(i) < Power(2, LtBits - 1)
         /\ Power(2, LtBits) \in Nat /\ Distance(i) < Power(2, LtBits)
         /\ Unsigned(i) = Distance(i)
<1>1. LtBits \in Nat /\ LtBits - 1 \in Nat \ {0} /\ (LtBits - 1) + 1 = LtBits /\ 2 \in Nat /\ 2 >= 2
  BY LtConstants
<1> DEFINE p == Power(2, LtBits - 1)
           q == Power(2, LtBits)
<1>2. p \in Nat \ {0}
  BY ONLY <1>1, PowerGrows
<1>3. q = 2 * p
  BY ONLY <1>1, PowerIs
<1>4. i \in -p..p - 1
  BY DEF Integer
<1> HIDE DEF p, q
<1>5. i \in Int /\ i >= 0 - p /\ i <= p - 1 /\ -p = 0 - p
  BY ONLY <1>2, <1>4
<1>6. Distance(i) = IF i < 0 THEN 0 - i ELSE i
  BY ONLY <1>5 DEF Distance
<1>7. Distance(i) \in Nat /\ Distance(i) <= p /\ (i >= 0 => Distance(i) < p)
      /\ (Distance(i) = p => i = -p \/ i >= 0)
  BY ONLY <1>2, <1>5, <1>6
<1>8. q \in Nat \ {0} /\ Distance(i) < q
  BY ONLY <1>2, <1>3, <1>7
<1>9. Unsigned(i) = Distance(i) % q
  BY ONLY <1>6 DEF Unsigned, q
<1>10. Distance(i) % q = Distance(i)
  <2> DEFINE d == Distance(i)
  <2>1. d \in Nat /\ q \in Nat \ {0} /\ d < q
    BY ONLY <1>7, <1>8
  <2> HIDE DEF d
  <2>2. d % q = d
    BY ONLY <2>1
  <2> QED
    BY ONLY <2>2 DEF d
<1> QED
  BY ONLY <1>1, <1>2, <1>5, <1>7, <1>8, <1>9, <1>10 DEF p, q

\* What write_integer makes of an integer.
LEMMA DigitsOfIs ==
  ASSUME NEW i \in Integer, NEW b \in LtBases
  PROVE  DigitsOf(i, b) = Sign(i) \o Digits(Distance(i), b)
<1>1. b \in Nat /\ b >= 2
  BY LtConstants
<1> DEFINE N == Power(2, LtBits)
           F == CHOOSE f : f = [u \in 0..N - 1 |->
                  IF u < b THEN <<Digit(u)>> ELSE Append(f[u \div b], Digit(u % b))]
<1>2. DigitsOf(i, b) = Sign(i) \o F[Unsigned(i)]
  BY DEF DigitsOf, Sign
<1>3. N \in Nat /\ Distance(i) \in Nat /\ Distance(i) < N /\ Unsigned(i) = Distance(i)
  BY DistanceIs
<1> HIDE DEF N
<1>4. \E f : f = [u \in 0..N - 1 |->
                IF u < b THEN <<Digit(u)>> ELSE Append(f[u \div b], Digit(u % b))]
  BY ONLY <1>1, <1>3, DigitsDivideUp DEF DividedUp
<1>5. F = [u \in 0..N - 1 |-> IF u < b THEN <<Digit(u)>> ELSE Append(F[u \div b], Digit(u % b))]
  BY ONLY <1>4
<1> HIDE DEF F
<1>6. DividedUp(F, b, N)
  BY ONLY <1>5 DEF DividedUp
<1>7. Distance(i) \in 0..N - 1
  BY ONLY <1>3
<1>8. F[Distance(i)] = Digits(Distance(i), b)
  BY ONLY <1>1, <1>3, <1>6, <1>7, DividedUpAgree
<1> QED
  BY ONLY <1>2, <1>3, <1>8

\* It has room for them.
LEMMA PlacesFit ==
  ASSUME NEW i \in Integer, NEW b \in LtBases
  PROVE  /\ Places(Distance(i), b) \in 1..LtBits
         /\ i < 0 /\ ~(i = -Power(2, LtBits - 1) /\ b = 2) => Places(Distance(i), b) + 1 <= LtBits
<1>1. b \in Nat /\ b >= 2
  BY LtConstants
<1> DEFINE u == Distance(i)
           B == LtBits
           n == Places(u, b)
<1>2. /\ i \in Int /\ u \in Nat /\ B - 1 \in Nat \ {0} /\ B \in Nat
      /\ Power(2, B - 1) \in Nat /\ u <= Power(2, B - 1)
      /\ u = Power(2, B - 1) => i = -Power(2, B - 1) \/ i >= 0
      /\ Power(2, B) \in Nat /\ u < Power(2, B)
  BY DistanceIs
<1> HIDE DEF u
<1>3. n \in Nat \ {0} /\ HasPlaces(u, b, n)
  BY ONLY <1>1, <1>2, PlacesIs
<1> HIDE DEF n, B
<1>4. B \in Nat \ {0} /\ B - 1 \in Nat
  BY ONLY <1>2
<1>5. Power(2, B) <= Power(b, B) /\ Power(b, B) \in Nat
  BY ONLY <1>1, <1>4, PowerBases, PowerIs
<1>6. u < Power(b, B)
  BY ONLY <1>2, <1>5
<1>7. n <= B
  BY ONLY <1>1, <1>2, <1>3, <1>4, <1>6, PlacesBound
<1>8. ASSUME i < 0, ~(i = -Power(2, B - 1) /\ b = 2) PROVE n + 1 <= B
  <2>1. /\ Power(2, B - 1) <= Power(b, B - 1)
        /\ b > 2 /\ B - 1 > 0 => Power(2, B - 1) < Power(b, B - 1)
        /\ Power(b, B - 1) \in Nat
    BY ONLY <1>1, <1>4, PowerBases, PowerIs
  <2>2. b = 2 => u # Power(2, B - 1)
    BY ONLY <1>2, <1>8
  <2>3. u < Power(b, B - 1)
    BY ONLY <1>1, <1>2, <2>1, <2>2
  <2>4. n <= B - 1
    BY ONLY <1>1, <1>2, <1>3, <2>3, PlacesBound
  <2> QED
    BY ONLY <1>2, <1>3, <2>4
<1>9. n \in 1..B
  BY ONLY <1>2, <1>3, <1>7
<1> QED
  BY ONLY <1>8, <1>9 DEF n, B, u

\* The digits of a number, none of which is a minus.
LEMMA DigitsAre ==
  ASSUME NEW u \in Nat, NEW b \in LtBases
  PROVE  /\ Digits(u, b) \in Seq(Nat) /\ Len(Digits(u, b)) = Places(u, b)
         /\ Places(u, b) \in Nat \ {0}
         /\ \A p \in 1..Len(Digits(u, b)) : Digits(u, b)[p] # Minus
<1>1. b \in Nat /\ b >= 2 /\ b <= 36 /\ u \in Nat
  BY LtConstants
<1> DEFINE n == Places(u, b)
<1>2. n \in Nat \ {0}
  BY ONLY <1>1, PlacesIs
<1> HIDE DEF n
<1>3. Digits(u, b) = DigitSeq(u, b, n)
  BY DEF Digits, n
<1>4. DigitSeq(u, b, n) \in Seq(Nat) /\ Len(DigitSeq(u, b, n)) = n
  BY ONLY <1>1, <1>2, DigitSeqIs
<1>5. ASSUME NEW p \in 1..n PROVE DigitSeq(u, b, n)[p] # Minus
  <2> DEFINE q == Power(b, n - p)
  <2>1. n - p \in Nat
    BY ONLY <1>2, <1>5
  <2>2. q \in Nat \ {0}
    BY ONLY <1>1, <2>1, PowerGrows
  <2>3. DigitSeq(u, b, n)[p] = Digit((u \div q) % b)
    BY DEF DigitSeq
  <2> HIDE DEF q
  <2> DEFINE d == u \div q
  <2>4. d \in Nat
    BY ONLY <1>1, <2>2
  <2> HIDE DEF d
  <2>5. d % b \in 0..b - 1
    BY ONLY <1>1, <2>4
  <2> DEFINE r == d % b
  <2> HIDE DEF r
  <2>6. r \in 0..b - 1
    BY ONLY <2>5 DEF r
  <2>7. Digit(r) # Minus
    BY ONLY <1>1, <2>6 DEF Digit, Minus
  <2> QED
    BY ONLY <2>3, <2>7 DEF r, d
<1> QED
  BY ONLY <1>2, <1>3, <1>4, <1>5 DEF n

\* What an integer should look like is made of the same digits.
LEMMA WrittenIs ==
  ASSUME NEW i \in Integer, NEW b \in LtBases, NEW pad \in LtPads
  PROVE  LET num == Digits(Distance(i), b)
             fill == Spaces(pad.size - Len(Sign(i) \o num))
         IN Written(i, b, pad) = CASE pad.type = "right" -> Sign(i) \o num \o fill
                                   [] pad.type = "inner" -> Sign(i) \o fill \o num
                                   [] pad.type = "left" -> fill \o Sign(i) \o num
<1> DEFINE u == Distance(i)
           P == {n \in 1..LtBits : u < Power(b, n) /\ (n = 1 \/ u >= Power(b, n - 1))}
           n == CHOOSE m \in 1..LtBits : u < Power(b, m) /\ (m = 1 \/ u >= Power(b, m - 1))
<1>1. b \in Nat /\ b >= 2
  BY LtConstants
<1>2. u \in Nat /\ LtBits \in Nat
  BY DistanceIs
<1>3. Places(u, b) \in 1..LtBits
  BY PlacesFit
<1> HIDE DEF u
<1>4. HasPlaces(u, b, Places(u, b))
  BY ONLY <1>1, <1>2, PlacesIs
<1>5. n \in 1..LtBits /\ u < Power(b, n) /\ (n = 1 \/ u >= Power(b, n - 1))
  <2>1. \E m \in 1..LtBits : u < Power(b, m) /\ (m = 1 \/ u >= Power(b, m - 1))
    BY ONLY <1>3, <1>4 DEF HasPlaces
  <2> QED
    BY ONLY <2>1
<1> HIDE DEF n
<1>6. n \in Nat /\ n > 0
  BY ONLY <1>2, <1>5
<1>7. HasPlaces(u, b, n)
  BY ONLY <1>5, <1>6 DEF HasPlaces
<1>8. Places(u, b) = n
  BY ONLY <1>1, <1>2, <1>6, <1>7, PlacesAre
<1> DEFINE num == [p \in 1..n |-> Digit((u \div Power(b, n - p)) % b)]
<1>9. Digits(u, b) = num
  BY ONLY <1>8 DEF Digits, DigitSeq
<1> HIDE DEF num
<1>10. Written(i, b, pad) =
         LET fill == Spaces(pad.size - Len(Sign(i) \o num))
         IN CASE pad.type = "right" -> Sign(i) \o num \o fill
              [] pad.type = "inner" -> Sign(i) \o fill \o num
              [] pad.type = "left" -> fill \o Sign(i) \o num
  BY ONLY DEF Written, Sign, Distance, u, n, num
<1> QED
  BY ONLY <1>9, <1>10 DEF u

-----------------------------------------------------------------------------
\* A vector of characters.
CharVectors == [dyn : BOOLEAN, cap : Nat \ {0}, revert : {0}, chars : Seq(Nat)]

\* One that fits where it is.
CharsFit(x) ==
  /\ x \in CharVectors /\ Len(x.chars) <= x.cap
  /\ x.dyn \/ x.cap = StaticCapacity

\* A stream buffer over it.
StreamBufs == [data : CharVectors, base : BOOLEAN \X Nat, pptr : Nat, epptr : Nat, sound : BOOLEAN]

\* It holds a text: its pointers are into the vector, and the text is before them.
BufHolds(b, t) ==
  /\ b \in StreamBufs /\ CharsFit(b.data) /\ t \in Seq(Nat)
  /\ b.sound /\ b.base = Data(b.data)
  /\ b.pptr = Len(t) /\ b.pptr <= b.epptr /\ b.epptr = Len(b.data.chars)
  /\ \A l \in 1..Len(t) : b.data.chars[l] = t[l]

\* resize gives a vector of characters the size it should have, and loses none that stay.
LEMMA CharsResizedIs ==
  ASSUME NEW x, CharsFit(x), NEW n \in Nat
  PROVE  LET y == CharsResized(x, n)
         IN /\ CharsFit(y) /\ Len(y.chars) = n /\ n <= y.cap /\ x.cap <= y.cap
            /\ \A l \in 1..n : y.chars[l] = IF l <= Len(x.chars) THEN x.chars[l] ELSE Nul
<1> DEFINE cap == IF n > x.cap THEN ChooseData(x, n).cap ELSE x.cap
           dyn == x.dyn \/ n > x.cap
           chars == [i \in 1..n |-> IF i \in DOMAIN x.chars THEN x.chars[i] ELSE Nul]
           y == [x EXCEPT !.dyn = dyn, !.cap = cap, !.chars = chars]
<1>1. /\ x \in CharVectors /\ x.dyn \in BOOLEAN /\ x.cap \in Nat \ {0} /\ x.revert = 0
      /\ x.chars \in Seq(Nat) /\ Len(x.chars) \in Nat /\ Len(x.chars) <= x.cap
      /\ DOMAIN x.chars = 1..Len(x.chars)
      /\ x.dyn \/ x.cap = StaticCapacity
  BY DEF CharsFit, CharVectors
<1>2. cap \in Nat \ {0} /\ n <= cap /\ x.cap <= cap
  <2>1. CASE n > x.cap /\ x.dyn
    <3>1. ChooseData(x, n) = [at |-> "new", cap |-> GrownCapacity(x.cap, n)]
      BY <1>1, <2>1 DEF ChooseData
    <3>2. x.cap \in Nat /\ x.cap > 0 /\ x.cap < n
      BY <1>1, <2>1
    <3> DEFINE c == x.cap
    <3> HIDE DEF c
    <3>3. c \in Nat /\ c > 0 /\ c < n
      BY ONLY <3>2 DEF c
    <3>4. GrownCapacity(c, n) \in Nat /\ GrownCapacity(c, n) >= n
      BY ONLY <3>3, n \in Nat, GrownCapacityIs
    <3>5. cap = GrownCapacity(c, n)
      BY <2>1, <3>1 DEF c
    <3> HIDE DEF cap
    <3> QED
      BY ONLY <3>3, <3>4, <3>5, n \in Nat DEF c
  <2>2. CASE n > x.cap /\ ~x.dyn
    <3>1. n > StaticCapacity
      BY <1>1, <2>2
    <3>2. ChooseData(x, n) = [at |-> "new", cap |-> n]
      BY <1>1, <2>2, <3>1 DEF ChooseData
    <3>3. cap = n
      BY <2>2, <3>2
    <3> HIDE DEF cap
    <3> QED
      BY <1>1, <2>2, <3>3
  <2>3. CASE ~(n > x.cap)
    BY <1>1, <2>3
  <2> QED
    BY <2>1, <2>2, <2>3
<1>3. dyn \in BOOLEAN /\ (dyn \/ cap = StaticCapacity)
  BY <1>1
<1>4. chars \in Seq(Nat) /\ Len(chars) = n
      /\ \A l \in 1..n : chars[l] = IF l <= Len(x.chars) THEN x.chars[l] ELSE Nul
  <2> DEFINE c == x.chars
  <2>1. c \in Seq(Nat) /\ Len(c) \in Nat /\ DOMAIN c = 1..Len(c)
    BY <1>1
  <2> HIDE DEF c
  <2>2. \A i \in 1..n : c[i] \in Nat \/ i \notin DOMAIN c
    BY <2>1
  <2>3. [i \in 1..n |-> IF i \in DOMAIN c THEN c[i] ELSE Nul] \in [1..n -> Nat]
    BY <2>2 DEF Nul
  <2>4. chars = [i \in 1..n |-> IF i \in DOMAIN c THEN c[i] ELSE Nul]
    BY DEF c
  <2> HIDE DEF chars
  <2>5. chars \in Seq(Nat) /\ Len(chars) = n
    BY <2>3, <2>4
  <2>6. \A l \in 1..n : chars[l] = IF l <= Len(c) THEN c[l] ELSE Nul
    BY <2>1, <2>4
  <2> QED
    BY <2>5, <2>6 DEF c
<1>5. CharsResized(x, n) = y
  BY DEF CharsResized
<1> HIDE DEF cap, dyn, chars
<1>a. y = [x EXCEPT !.dyn = dyn, !.cap = cap, !.chars = chars]
  OBVIOUS
<1>b. x \in [dyn : BOOLEAN, cap : Nat \ {0}, revert : {0}, chars : Seq(Nat)]
  BY <1>1 DEF CharVectors
<1> HIDE DEF y
<1>6. y = [dyn |-> dyn, cap |-> cap, revert |-> 0, chars |-> chars]
  BY ONLY <1>a, <1>b
<1>7. y \in CharVectors /\ y.dyn = dyn /\ y.cap = cap /\ y.chars = chars
  BY <1>2, <1>3, <1>4, <1>6 DEF CharVectors
<1>8. CharsFit(y)
  BY <1>2, <1>3, <1>4, <1>7 DEF CharsFit
<1> QED
  BY <1>2, <1>4, <1>5, <1>7, <1>8

\* What is behind a text, and what text it is.
Begins(c, t) == Len(t) <= Len(c) /\ \A l \in 1..Len(t) : c[l] = t[l]

\* Resized twice, it is as long as it can be.
LEMMA ResizedTwiceIs ==
  ASSUME NEW x, CharsFit(x), NEW by \in Nat, NEW t \in Seq(Nat), Begins(x.chars, t)
  PROVE  LET y == ResizedTwice(x, by)
         IN /\ CharsFit(y) /\ Len(y.chars) = y.cap /\ Len(x.chars) + by <= y.cap
            /\ Begins(y.chars, t)
<1> DEFINE n == Len(x.chars) + by
           once == CharsResized(x, n)
           y == CharsResized(once, once.cap)
<1>1. x.chars \in Seq(Nat) /\ Len(x.chars) \in Nat
  BY DEF CharsFit, CharVectors
<1>2. n \in Nat
  BY <1>1
<1>3. ResizedTwice(x, by) = y
  BY DEF ResizedTwice
<1> HIDE DEF n
<1>4. CharsFit(x) /\ n \in Nat
  BY <1>2
<1>5. /\ CharsFit(once) /\ Len(once.chars) = n /\ n <= once.cap
      /\ \A l \in 1..n : once.chars[l] = IF l <= Len(x.chars) THEN x.chars[l] ELSE Nul
  BY ONLY <1>4, CharsResizedIs
<1> HIDE DEF once
<1>6. once.cap \in Nat
  BY <1>5 DEF CharsFit, CharVectors
<1>7. /\ CharsFit(y) /\ Len(y.chars) = once.cap /\ once.cap <= y.cap
      /\ \A l \in 1..once.cap : y.chars[l] = IF l <= Len(once.chars) THEN once.chars[l] ELSE Nul
  <2> DEFINE c == once.cap
             z == CharsResized(once, c)
  <2>1. CharsFit(once) /\ c \in Nat
    BY ONLY <1>5, <1>6 DEF c
  <2>2. y = z
    OBVIOUS
  <2>3. c <= once.cap /\ once.cap <= c
    BY ONLY <1>6 DEF c
  <2> HIDE DEF c
  <2>4. CharsFit(z) /\ Len(z.chars) = c /\ once.cap <= z.cap
    BY ONLY <2>1, CharsResizedIs
  <2>5. \A l \in 1..c : z.chars[l] = IF l <= Len(once.chars) THEN once.chars[l] ELSE Nul
    BY ONLY <2>1, CharsResizedIs
  <2> HIDE DEF z, y
  <2> QED
    BY ONLY <2>2, <2>4, <2>5 DEF c
<1>8. y.cap = once.cap
  <2>1. CharsResized(once, once.cap) =
          [once EXCEPT !.dyn = once.dyn \/ once.cap > once.cap,
                       !.cap = IF once.cap > once.cap THEN ChooseData(once, once.cap).cap
                               ELSE once.cap,
                       !.chars = [i \in 1..once.cap |->
                         IF i \in DOMAIN once.chars THEN once.chars[i] ELSE Nul]]
    BY DEF CharsResized
  <2>2. once \in CharVectors /\ ~(once.cap > once.cap)
    BY <1>5, <1>6 DEF CharsFit
  <2> QED
    BY <2>1, <2>2 DEF CharVectors
<1> HIDE DEF y
<1>9. Begins(y.chars, t)
  <2>1. Len(t) \in Nat /\ Len(t) <= Len(x.chars) /\ \A l \in 1..Len(t) : x.chars[l] = t[l]
    BY DEF Begins
  <2>2. Len(x.chars) <= n /\ n <= once.cap
    BY <1>1, <1>5 DEF n
  <2>3. ASSUME NEW l \in 1..Len(t) PROVE y.chars[l] = t[l]
    <3>1. l \in 1..n /\ l \in 1..once.cap /\ l <= Len(x.chars) /\ l <= n
      BY ONLY <1>1, <1>2, <1>6, <2>1, <2>2, l \in 1..Len(t)
    <3> QED
      BY <1>5, <1>7, <2>1, <3>1
  <2>4. Len(t) <= Len(y.chars)
    BY <1>1, <1>2, <1>6, <1>7, <2>1, <2>2
  <2> QED
    BY <2>3, <2>4 DEF Begins
<1>10. Len(x.chars) + by <= y.cap
  BY <1>5, <1>8 DEF n
<1> QED
  BY <1>3, <1>7, <1>8, <1>9, <1>10

\* What a buffer that holds a text is.
LEMMA BufFacts ==
  ASSUME NEW b, NEW t, BufHolds(b, t)
  PROVE  /\ CharsFit(b.data) /\ t \in Seq(Nat) /\ Len(t) \in Nat /\ Begins(b.data.chars, t)
         /\ b.data \in CharVectors /\ b.data.chars \in Seq(Nat) /\ Len(b.data.chars) \in Nat
         /\ DOMAIN b.data.chars = 1..Len(b.data.chars)
         /\ b.data.cap \in Nat /\ b.data.dyn \in BOOLEAN
         /\ b.sound = TRUE /\ b.base = Data(b.data) /\ b.pptr = Len(t)
         /\ b.epptr = Len(b.data.chars) /\ b.pptr <= b.epptr
         /\ b = [data |-> b.data, base |-> b.base, pptr |-> b.pptr, epptr |-> b.epptr,
                 sound |-> b.sound]
<1>1. b \in [data : CharVectors, base : BOOLEAN \X Nat, pptr : Nat, epptr : Nat, sound : BOOLEAN]
  BY DEF BufHolds, StreamBufs
<1>2. b = [data |-> b.data, base |-> b.base, pptr |-> b.pptr, epptr |-> b.epptr,
           sound |-> b.sound]
  BY ONLY <1>1
<1>3. b.data \in CharVectors /\ b.sound \in BOOLEAN
  BY ONLY <1>1
<1>4. b.data.chars \in Seq(Nat) /\ b.data.cap \in Nat /\ b.data.dyn \in BOOLEAN
  BY ONLY <1>3 DEF CharVectors
<1>5. Len(b.data.chars) \in Nat /\ DOMAIN b.data.chars = 1..Len(b.data.chars)
  BY ONLY <1>4
<1>6. /\ CharsFit(b.data) /\ t \in Seq(Nat) /\ b.sound /\ b.base = Data(b.data)
      /\ b.pptr = Len(t) /\ b.pptr <= b.epptr /\ b.epptr = Len(b.data.chars)
      /\ \A l \in 1..Len(t) : b.data.chars[l] = t[l]
  BY DEF BufHolds
<1>7. Begins(b.data.chars, t)
  BY ONLY <1>6 DEF Begins
<1>8. Len(t) \in Nat
  BY ONLY <1>6
<1> QED
  BY ONLY <1>2, <1>3, <1>4, <1>5, <1>6, <1>7, <1>8

\* How one is made.
LEMMA BufMade ==
  ASSUME NEW d, CharsFit(d), NEW t \in Seq(Nat), Begins(d.chars, t), NEW b,
         b = [data |-> d, base |-> Data(d), pptr |-> Len(t), epptr |-> Len(d.chars),
              sound |-> TRUE]
  PROVE  BufHolds(b, t)
<1>1. d \in CharVectors /\ d.chars \in Seq(Nat) /\ Len(d.chars) \in Nat
  BY DEF CharsFit, CharVectors
<1>2. Data(d) \in BOOLEAN \X Nat
  BY <1>1 DEF Data, CharVectors
<1>3. Len(t) \in Nat
  OBVIOUS
<1>4. b = [data |-> d, base |-> Data(d), pptr |-> Len(t), epptr |-> Len(d.chars), sound |-> TRUE]
  OBVIOUS
<1>5. b \in StreamBufs
  BY ONLY <1>1, <1>2, <1>3, <1>4 DEF StreamBufs
<1>6. /\ b.data = d /\ b.base = Data(d) /\ b.pptr = Len(t) /\ b.epptr = Len(d.chars)
      /\ b.sound = TRUE
  BY ONLY <1>4
<1>7. CharsFit(d) /\ t \in Seq(Nat) /\ Len(t) <= Len(d.chars)
      /\ \A l \in 1..Len(t) : d.chars[l] = t[l]
  BY DEF Begins
<1> QED
  BY ONLY <1>5, <1>6, <1>7 DEF BufHolds

\* Growing leaves the text where it is, now in the new memory.
LEMMA CapResizeByHolds ==
  ASSUME NEW b, NEW t, BufHolds(b, t), NEW by \in Nat
  PROVE  BufHolds(CapResizeBy(b, by), t) /\ b.epptr + by <= CapResizeBy(b, by).epptr
<1> DEFINE d == ResizedTwice(b.data, by)
           c == CapResizeBy(b, by)
<1>1. /\ CharsFit(b.data) /\ t \in Seq(Nat) /\ Begins(b.data.chars, t) /\ b.sound = TRUE
      /\ b.pptr = Len(t) /\ b.epptr = Len(b.data.chars)
      /\ b = [data |-> b.data, base |-> b.base, pptr |-> b.pptr, epptr |-> b.epptr,
              sound |-> b.sound]
  BY BufFacts
<1>2. /\ CharsFit(d) /\ Len(d.chars) = d.cap /\ Len(b.data.chars) + by <= d.cap
      /\ Begins(d.chars, t)
  BY ONLY <1>1, by \in Nat, ResizedTwiceIs
<1>3. c = [[b EXCEPT !.data = d] EXCEPT !.base = Data([b EXCEPT !.data = d].data),
                                        !.pptr = b.pptr, !.epptr = d.cap]
  BY ONLY DEF CapResizeBy, SetP, c, d
<1> HIDE DEF c, d
<1> DEFINE e == [b EXCEPT !.data = d]
<1>4. e = [b EXCEPT !.data = d]
  OBVIOUS
<1> HIDE DEF e
<1>5. e = [data |-> d, base |-> b.base, pptr |-> b.pptr, epptr |-> b.epptr, sound |-> b.sound]
  BY ONLY <1>1, <1>4
<1>6. c = [e EXCEPT !.base = Data(e.data), !.pptr = b.pptr, !.epptr = d.cap]
  BY ONLY <1>3, <1>4
<1>7. c = [data |-> d, base |-> Data(d), pptr |-> b.pptr, epptr |-> d.cap, sound |-> b.sound]
  BY ONLY <1>5, <1>6
<1>8. c = [data |-> d, base |-> Data(d), pptr |-> Len(t), epptr |-> Len(d.chars), sound |-> TRUE]
  BY ONLY <1>1, <1>2, <1>7
<1>9. BufHolds(c, t)
  BY ONLY <1>1, <1>2, <1>8, BufMade
<1>10. c.epptr = d.cap
  BY ONLY <1>7
<1> QED
  BY <1>1, <1>2, <1>9, <1>10 DEF c

\* What is copied to pptr is behind the text, where there is room.
LEMMA StoreHolds ==
  ASSUME NEW b, NEW t, BufHolds(b, t), NEW more \in Seq(Nat), b.pptr + Len(more) <= b.epptr
  PROVE  BufHolds(Store(b, more), t \o more)
<1> DEFINE x == b.data
           p == b.pptr
           chars == [i \in DOMAIN x.chars |->
                       IF i - p \in DOMAIN more THEN more[i - p] ELSE x.chars[i]]
           d == [x EXCEPT !.chars = chars]
           c == Store(b, more)
           all == t \o more
<1>1. /\ CharsFit(x) /\ t \in Seq(Nat) /\ Len(t) \in Nat /\ Begins(x.chars, t)
      /\ x \in CharVectors /\ x.chars \in Seq(Nat) /\ Len(x.chars) \in Nat
      /\ DOMAIN x.chars = 1..Len(x.chars)
      /\ b.sound = TRUE /\ b.base = Data(x) /\ p = Len(t) /\ b.epptr = Len(x.chars)
      /\ b = [data |-> x, base |-> b.base, pptr |-> p, epptr |-> b.epptr, sound |-> b.sound]
  BY BufFacts
<1>2. /\ more \in Seq(Nat) /\ Len(more) \in Nat /\ DOMAIN more = 1..Len(more)
      /\ p + Len(more) <= Len(x.chars)
  BY <1>1
<1>3. c = [b EXCEPT !.pptr = p + Len(more),
                    !.sound = b.sound /\ b.base = Data(x) /\ p + Len(more) <= Len(x.chars),
                    !.data = d]
  BY DEF Store
<1>4. d = [x EXCEPT !.chars = chars]
  OBVIOUS
<1> HIDE DEF c, d
<1>5. c = [data |-> d, base |-> b.base, pptr |-> p + Len(more), epptr |-> b.epptr, sound |-> TRUE]
  <2> HIDE DEF x, p
  <2>1. (b.sound /\ b.base = Data(x) /\ p + Len(more) <= Len(x.chars)) = TRUE
    BY ONLY <1>1, <1>2
  <2>2. c = [b EXCEPT !.pptr = p + Len(more), !.sound = TRUE, !.data = d]
    BY ONLY <1>3, <2>1
  <2> QED
    BY ONLY <1>1, <2>2
<1>6. /\ chars \in Seq(Nat) /\ Len(chars) = Len(x.chars)
      /\ \A i \in 1..Len(x.chars) :
           chars[i] = IF p < i /\ i <= p + Len(more) THEN more[i - p] ELSE x.chars[i]
  <2> DEFINE q == x.chars
  <2>1. q \in Seq(Nat) /\ Len(q) \in Nat /\ DOMAIN q = 1..Len(q) /\ p \in Nat
    BY <1>1
  <2>2. chars = [i \in 1..Len(q) |-> IF i - p \in DOMAIN more THEN more[i - p] ELSE q[i]]
    BY <2>1
  <2> HIDE DEF chars, q, p, x
  <2>3. \A i \in 1..Len(q) : i - p \in DOMAIN more <=> p < i /\ i <= p + Len(more)
    BY ONLY <1>2, <2>1
  <2>4. \A i \in 1..Len(q) :
           chars[i] = IF p < i /\ i <= p + Len(more) THEN more[i - p] ELSE q[i]
    BY ONLY <2>2, <2>3
  <2>5. \A i \in 1..Len(q) : chars[i] \in Nat
    BY ONLY <1>2, <2>1, <2>3, <2>4
  <2>6. chars \in [1..Len(q) -> Nat]
    BY ONLY <2>2, <2>5
  <2>7. chars \in Seq(Nat) /\ Len(chars) = Len(q)
    <3> DEFINE n == Len(q)
    <3>1. n \in Nat /\ chars \in [1..n -> Nat]
      BY ONLY <2>1, <2>6
    <3> HIDE DEF n
    <3>2. chars \in Seq(Nat) /\ Len(chars) = n
      BY ONLY <3>1
    <3> QED
      BY ONLY <3>2 DEF n
  <2> QED
    BY ONLY <2>4, <2>7 DEF q
<1> HIDE DEF chars
<1>7. d = [dyn |-> x.dyn, cap |-> x.cap, revert |-> x.revert, chars |-> chars]
  <2>1. x \in [dyn : BOOLEAN, cap : Nat \ {0}, revert : {0}, chars : Seq(Nat)]
    BY ONLY <1>1 DEF CharVectors
  <2> HIDE DEF x
  <2> QED
    BY ONLY <1>4, <2>1
<1>8. /\ d.chars = chars /\ d.dyn = x.dyn /\ d.cap = x.cap
  BY ONLY <1>7
<1>9. CharsFit(d)
  <2>1. x.dyn \in BOOLEAN /\ x.cap \in Nat \ {0} /\ x.revert \in {0} /\ Len(x.chars) <= x.cap
        /\ (x.dyn \/ x.cap = StaticCapacity)
    BY ONLY <1>1 DEF CharVectors, CharsFit
  <2>2. d \in CharVectors
    BY ONLY <1>6, <1>7, <2>1 DEF CharVectors
  <2> QED
    BY ONLY <1>6, <1>8, <2>1, <2>2 DEF CharsFit
<1>10. Data(d) = Data(x)
  BY ONLY <1>8 DEF Data
<1>11. /\ all \in Seq(Nat) /\ Len(all) = Len(t) + Len(more)
       /\ \A j \in 1..Len(t) : all[j] = t[j]
       /\ \A j \in 1..Len(more) : all[Len(t) + j] = more[j]
  <2>1. PICK S : S = Nat
    OBVIOUS
  <2>2. t \in Seq(S) /\ more \in Seq(S)
    BY ONLY <1>1, <1>2, <2>1
  <2>3. /\ t \o more \in Seq(S) /\ Len(t \o more) = Len(t) + Len(more)
        /\ \A j \in 1..Len(t) : (t \o more)[j] = t[j]
        /\ \A j \in 1..Len(more) : (t \o more)[Len(t) + j] = more[j]
    BY ONLY <2>2, ConcatIs
  <2> QED
    BY ONLY <2>1, <2>3 DEF all
<1> HIDE DEF all
<1>12. Begins(d.chars, all)
  <2> HIDE DEF x, p
  <2>1. ASSUME NEW l \in 1..Len(all) PROVE chars[l] = all[l]
    <3>1. l \in 1..Len(x.chars) /\ l \in Nat /\ l <= p + Len(more) /\ l >= 1
      <4> DEFINE N == Len(all)
                 T == Len(t)
                 U == Len(more)
                 M == Len(x.chars)
      <4>1. T \in Nat /\ U \in Nat /\ M \in Nat /\ N = T + U /\ p = T /\ p + U <= M /\ l \in 1..N
        BY ONLY <1>1, <1>2, <1>11, l \in 1..Len(all)
      <4> HIDE DEF N, T, U, M
      <4>2. l \in 1..M /\ l \in Nat /\ l <= p + U /\ l >= 1
        BY ONLY <4>1
      <4> QED
        BY ONLY <4>2 DEF M, U
    <3>2. CASE p < l
      <4>1. l - p \in 1..Len(more) /\ Len(t) + (l - p) = l
        BY ONLY <1>1, <1>2, <3>1, <3>2
      <4>2. chars[l] = more[l - p]
        BY ONLY <1>6, <3>1, <3>2
      <4> QED
        BY ONLY <1>11, <4>1, <4>2
    <3>3. CASE ~(p < l)
      <4>1. l \in 1..Len(t)
        BY ONLY <1>1, <3>1, <3>3
      <4>2. chars[l] = x.chars[l]
        BY ONLY <1>6, <3>1, <3>3
      <4>3. x.chars[l] = t[l]
        BY ONLY <1>1, <4>1 DEF Begins
      <4> QED
        BY ONLY <1>11, <4>1, <4>2, <4>3
    <3> QED
      BY <3>2, <3>3
  <2>2. Len(all) <= Len(chars)
    BY ONLY <1>1, <1>2, <1>6, <1>11
  <2> QED
    BY ONLY <1>8, <2>1, <2>2 DEF Begins
<1>13. c = [data |-> d, base |-> Data(d), pptr |-> Len(all), epptr |-> Len(d.chars), sound |-> TRUE]
  BY ONLY <1>1, <1>5, <1>6, <1>8, <1>10, <1>11
<1>14. BufHolds(c, all)
  BY ONLY <1>9, <1>11, <1>12, <1>13, BufMade
<1> QED
  BY ONLY <1>14 DEF c, all

\* So does xsputn, which makes room where there is none.
LEMMA SputnHolds ==
  ASSUME NEW b, NEW t, BufHolds(b, t), NEW more \in Seq(Nat)
  PROVE  BufHolds(Sputn(b, more), t \o more)
<1> DEFINE rem == b.epptr - b.pptr
           c == CapResizeBy(b, Len(more) - rem)
<1>1. b.pptr \in Nat /\ b.epptr \in Nat /\ b.pptr <= b.epptr /\ Len(more) \in Nat /\ b.pptr = Len(t)
  <2>1. /\ Len(t) \in Nat /\ Len(b.data.chars) \in Nat /\ b.pptr = Len(t)
        /\ b.epptr = Len(b.data.chars) /\ b.pptr <= b.epptr
    BY BufFacts
  <2> QED
    BY ONLY <2>1, more \in Seq(Nat)
<1>2. CASE rem < Len(more)
  <2>1. Len(more) - rem \in Nat /\ BufHolds(b, t)
    BY <1>1, <1>2
  <2>2. BufHolds(c, t) /\ b.epptr + (Len(more) - rem) <= c.epptr
    <3> HIDE DEF rem
    <3> QED
      BY ONLY <2>1, CapResizeByHolds DEF c
  <2>3. c.pptr = b.pptr /\ c.epptr \in Nat
    BY <1>1, <2>2, BufFacts
  <2>4. c.pptr + Len(more) <= c.epptr
    <3> HIDE DEF c
    <3> QED
      BY <1>1, <2>2, <2>3
  <2>5. Sputn(b, more) = Store(c, more)
    BY <1>2 DEF Sputn
  <2> HIDE DEF c
  <2>6. BufHolds(Store(c, more), t \o more)
    BY ONLY <2>2, <2>4, more \in Seq(Nat), StoreHolds
  <2> QED
    BY ONLY <2>5, <2>6
<1>3. CASE ~(rem < Len(more))
  <2>1. b.pptr + Len(more) <= b.epptr /\ BufHolds(b, t)
    BY <1>1, <1>3
  <2>2. Sputn(b, more) = Store(b, more)
    BY <1>3 DEF Sputn
  <2>3. BufHolds(Store(b, more), t \o more)
    BY ONLY <2>1, more \in Seq(Nat), StoreHolds
  <2> QED
    BY ONLY <2>2, <2>3
<1> QED
  BY <1>2, <1>3

\* A new one holds no text.
LEMMA StreamBufHolds == BufHolds(StreamBuf, <<>>)
<1> DEFINE b == [data |-> NoChars, base |-> Data(NoChars), pptr |-> 0, epptr |-> 0, sound |-> TRUE]
<1>1. StaticCapacity \in Nat \ {0}
  BY SvAssumption
<1>2. /\ NoChars.dyn = FALSE /\ NoChars.cap = StaticCapacity /\ NoChars.chars = <<>>
      /\ NoChars.revert = 0
  BY DEF NoChars
<1>3. NoChars \in CharVectors
  BY <1>1 DEF NoChars, CharVectors
<1>4. <<>> \in Seq(Nat) /\ Len(<<>>) = 0
  OBVIOUS
<1>5. CharsFit(NoChars)
  BY ONLY <1>1, <1>2, <1>3, <1>4 DEF CharsFit
<1>6. Begins(NoChars.chars, <<>>)
  BY ONLY <1>2, <1>4 DEF Begins
<1>7. b = [data |-> NoChars, base |-> Data(NoChars), pptr |-> Len(<<>>),
           epptr |-> Len(NoChars.chars), sound |-> TRUE]
  BY ONLY <1>2, <1>4 DEF b
<1> HIDE DEF b
<1>8. BufHolds(b, <<>>)
  BY ONLY <1>4, <1>5, <1>6, <1>7, BufMade
<1>9. 0 \in Nat
  OBVIOUS
<1>10. BufHolds(CapResizeBy(b, 0), <<>>)
  BY ONLY <1>8, <1>9, CapResizeByHolds
<1>11. StreamBuf = CapResizeBy(b, 0)
  BY DEF StreamBuf, b
<1> QED
  BY ONLY <1>10, <1>11

\* The text that is there.
LEMMA TextIs ==
  ASSUME NEW b, NEW t, BufHolds(b, t)
  PROVE  Text(b) = t
<1> DEFINE c == b.data.chars
           n == Len(t)
           s == SubSeq(c, 1, n)
<1>1. /\ c \in Seq(Nat) /\ Len(c) \in Nat /\ t \in Seq(Nat) /\ n \in Nat /\ b.pptr = n
      /\ Begins(c, t)
  BY BufFacts
<1>2. n <= Len(c) /\ \A l \in 1..n : c[l] = t[l]
  BY ONLY <1>1 DEF Begins
<1>3. Text(b) = s
  BY <1>1 DEF Text
<1> HIDE DEF c, n
<1>4. s \in Seq(Nat) /\ Len(s) = n
  BY ONLY <1>1, <1>2
<1>5. \A l \in 1..n : s[l] = c[l]
  BY ONLY <1>1, <1>2
<1> HIDE DEF s
<1>6. s \in Seq(Nat) /\ t \in Seq(Nat) /\ Len(s) = Len(t) /\ \A l \in 1..Len(s) : s[l] = t[l]
  BY ONLY <1>1, <1>2, <1>4, <1>5 DEF n
<1>7. s = t
  BY ONLY <1>6, SameElements
<1> QED
  BY <1>3, <1>7

\* A vector with other characters.
LEMMA OtherChars ==
  ASSUME NEW x, CharsFit(x), NEW c \in Seq(Nat), Len(c) <= x.cap
  PROVE  /\ CharsFit([x EXCEPT !.chars = c]) /\ [x EXCEPT !.chars = c].chars = c
         /\ Data([x EXCEPT !.chars = c]) = Data(x)
<1> DEFINE d == [x EXCEPT !.chars = c]
<1>1. x \in [dyn : BOOLEAN, cap : Nat \ {0}, revert : {0}, chars : Seq(Nat)]
  BY DEF CharsFit, CharVectors
<1>2. x.dyn \in BOOLEAN /\ x.cap \in Nat \ {0} /\ x.revert \in {0}
  BY ONLY <1>1
<1>3. d = [x EXCEPT !.chars = c]
  OBVIOUS
<1> HIDE DEF d
<1>4. d = [dyn |-> x.dyn, cap |-> x.cap, revert |-> x.revert, chars |-> c]
  BY ONLY <1>1, <1>3
<1>5. d.chars = c /\ d.dyn = x.dyn /\ d.cap = x.cap
  BY ONLY <1>4
<1>6. c \in Seq(Nat) /\ Len(c) <= x.cap /\ (x.dyn \/ x.cap = StaticCapacity)
  BY DEF CharsFit
<1>7. d \in CharVectors
  BY ONLY <1>2, <1>4, <1>6 DEF CharVectors
<1>8. CharsFit(d)
  BY ONLY <1>5, <1>6, <1>7 DEF CharsFit
<1>9. Data(d) = Data(x)
  BY ONLY <1>5 DEF Data
<1> QED
  BY ONLY <1>5, <1>8, <1>9 DEF d

\* Pointers set into a vector that is there.
LEMMA SetPHolds ==
  ASSUME NEW b, NEW t, BufHolds(b, t), NEW c \in Seq(Nat), Len(c) <= b.data.cap,
         NEW u \in Seq(Nat), Begins(c, u)
  PROVE  BufHolds(SetP([b EXCEPT !.data.chars = c], Len(u), Len(c)), u)
<1> DEFINE x == b.data
           d == [x EXCEPT !.chars = c]
           e == [b EXCEPT !.data.chars = c]
           f == SetP(e, Len(u), Len(c))
<1>1. /\ CharsFit(x) /\ b.sound = TRUE
      /\ b = [data |-> x, base |-> b.base, pptr |-> b.pptr, epptr |-> b.epptr,
              sound |-> b.sound]
  BY BufFacts
<1>2. CharsFit(d) /\ d.chars = c /\ Data(d) = Data(x)
  <2>1. CharsFit(x) /\ c \in Seq(Nat) /\ Len(c) <= x.cap
    BY <1>1
  <2> HIDE DEF x
  <2> QED
    BY ONLY <2>1, OtherChars DEF d
<1>3. e = [b EXCEPT !.data = d]
  OBVIOUS
<1>4. f = [e EXCEPT !.base = Data(e.data), !.pptr = Len(u), !.epptr = Len(c)]
  BY ONLY DEF SetP, f
<1> HIDE DEF d, e, f, x
<1>5. e = [data |-> d, base |-> b.base, pptr |-> b.pptr, epptr |-> b.epptr, sound |-> b.sound]
  BY ONLY <1>1, <1>3
<1>6. f = [data |-> d, base |-> Data(d), pptr |-> Len(u), epptr |-> Len(c), sound |-> b.sound]
  BY ONLY <1>4, <1>5
<1>7. f = [data |-> d, base |-> Data(d), pptr |-> Len(u), epptr |-> Len(d.chars), sound |-> TRUE]
  BY ONLY <1>1, <1>2, <1>6
<1>8. Begins(d.chars, u) /\ u \in Seq(Nat)
  BY <1>2
<1>9. BufHolds(f, u)
  BY ONLY <1>2, <1>7, <1>8, BufMade
<1> QED
  BY ONLY <1>9 DEF f, e

\* clear leaves no text.
LEMMA ClearBufHolds ==
  ASSUME NEW b, NEW t, BufHolds(b, t)
  PROVE  BufHolds(ClearBuf(b), <<>>)
<1>1. <<>> \in Seq(Nat) /\ Len(<<>>) = 0
  OBVIOUS
<1>2. Begins(<<>>, <<>>)
  BY <1>1 DEF Begins
<1>3. b.data.cap \in Nat /\ Len(<<>>) <= b.data.cap
  <2>1. b.data.cap \in Nat
    BY BufFacts
  <2> QED
    BY ONLY <1>1, <2>1
<1>4. BufHolds(b, t)
  OBVIOUS
<1> DEFINE e == [b EXCEPT !.data.chars = <<>>]
           f(n) == SetP(e, n, n)
<1>5. BufHolds(SetP([b EXCEPT !.data.chars = <<>>], Len(<<>>), Len(<<>>)), <<>>)
  BY ONLY <1>1, <1>2, <1>3, <1>4, SetPHolds
<1>6. BufHolds(f(Len(<<>>)), <<>>)
  BY ONLY <1>5 DEF e, f
<1>7. ClearBuf(b) = f(0)
  BY DEF ClearBuf
<1> HIDE DEF e, f
<1> QED
  BY ONLY <1>1, <1>6, <1>7

\* Going back leaves the beginning of the text.
LEMMA SeekHolds ==
  ASSUME NEW b, NEW t, BufHolds(b, t), NEW pos \in Nat, pos <= Len(t)
  PROVE  BufHolds(Seek(b, pos), SubSeq(t, 1, pos)) /\ SubSeq(t, 1, pos) \in Seq(Nat)
         /\ Len(SubSeq(t, 1, pos)) = pos
<1> DEFINE q == b.data.chars
           c == [i \in DOMAIN q |-> IF i > pos THEN Nul ELSE q[i]]
           u == SubSeq(t, 1, pos)
<1>1. /\ CharsFit(b.data) /\ t \in Seq(Nat) /\ Len(t) \in Nat /\ Begins(q, t)
      /\ q \in Seq(Nat) /\ Len(q) \in Nat /\ DOMAIN q = 1..Len(q)
      /\ b.data.cap \in Nat
  BY BufFacts
<1>2. Len(q) <= b.data.cap
  BY <1>1 DEF CharsFit
<1> DEFINE e == [b EXCEPT !.data.chars = c]
<1>3. Seek(b, pos) = SetP(e, pos, Len(q))
  BY DEF Seek
<1> HIDE DEF e
<1>4. c \in Seq(Nat) /\ Len(c) = Len(q) /\ \A i \in 1..Len(q) : i <= pos => c[i] = q[i]
  <2>1. c = [i \in 1..Len(q) |-> IF i > pos THEN Nul ELSE q[i]]
    BY <1>1
  <2> DEFINE n == Len(q)
  <2>2. q \in Seq(Nat) /\ n \in Nat /\ n = Len(q)
    BY <1>1
  <2>3. Nul \in Nat
    BY DEF Nul
  <2> HIDE DEF c, q, n
  <2>4. c = [i \in 1..n |-> IF i > pos THEN Nul ELSE q[i]]
    BY ONLY <2>1, <2>2
  <2>5. \A i \in 1..n : q[i] \in Nat
    BY ONLY <2>2
  <2>6. c \in [1..n -> Nat]
    BY ONLY <2>3, <2>4, <2>5
  <2>7. c \in Seq(Nat) /\ Len(c) = n
    BY ONLY <2>2, <2>6
  <2>8. \A i \in 1..n : i <= pos => c[i] = q[i]
    BY ONLY <2>2, <2>4, pos \in Nat
  <2> QED
    BY ONLY <2>2, <2>7, <2>8
<1>5. u \in Seq(Nat) /\ Len(u) = pos /\ \A i \in 1..pos : u[i] = t[i]
  <2>1. t \in Seq(Nat) /\ pos \in Nat /\ pos <= Len(t)
    BY <1>1
  <2>2. u \in Seq(Nat) /\ Len(u) = pos
    BY ONLY <2>1 DEF u
  <2>3. \A i \in 1..pos : u[i] = t[i]
    BY ONLY <2>1 DEF u
  <2> QED
    BY ONLY <2>2, <2>3
<1> HIDE DEF c, u
<1>6. Begins(c, u)
  <2>1. Len(t) <= Len(q) /\ (\A l \in 1..Len(t) : q[l] = t[l]) /\ pos \in Nat /\ pos <= Len(t)
    BY <1>1 DEF Begins
  <2>2. Len(t) \in Nat /\ Len(q) \in Nat
    BY <1>1
  <2> HIDE DEF q
  <2>3. \A l \in 1..pos : l \in 1..Len(t) /\ l \in 1..Len(q) /\ l <= pos
    BY ONLY <2>1, <2>2
  <2>4. \A l \in 1..Len(u) : c[l] = u[l]
    BY ONLY <1>4, <1>5, <2>1, <2>3
  <2> QED
    BY ONLY <1>4, <1>5, <2>1, <2>2, <2>4 DEF Begins
<1>7. BufHolds(b, t) /\ Len(c) <= b.data.cap
  BY <1>2, <1>4
<1>8. BufHolds(SetP([b EXCEPT !.data.chars = c], Len(u), Len(c)), u)
  BY ONLY <1>4, <1>5, <1>6, <1>7, SetPHolds
<1>9. BufHolds(SetP(e, pos, Len(q)), u)
  <2>1. BufHolds(SetP(e, Len(u), Len(c)), u)
    BY ONLY <1>8 DEF e
  <2> HIDE DEF q
  <2> QED
    BY ONLY <1>4, <1>5, <2>1
<1> QED
  BY <1>3, <1>5, <1>9 DEF u

-----------------------------------------------------------------------------
\* Texts one behind another.
LEMMA JoinIs ==
  ASSUME NEW a \in Seq(Nat), NEW b \in Seq(Nat)
  PROVE  /\ a \o b \in Seq(Nat) /\ Len(a \o b) = Len(a) + Len(b)
         /\ \A j \in 1..Len(a) : (a \o b)[j] = a[j]
         /\ \A j \in 1..Len(b) : (a \o b)[Len(a) + j] = b[j]
<1>1. PICK S : S = Nat
  OBVIOUS
<1>2. a \in Seq(S) /\ b \in Seq(S)
  BY <1>1
<1>3. /\ a \o b \in Seq(S) /\ Len(a \o b) = Len(a) + Len(b)
      /\ \A j \in 1..Len(a) : (a \o b)[j] = a[j]
      /\ \A j \in 1..Len(b) : (a \o b)[Len(a) + j] = b[j]
  BY ONLY <1>2, ConcatIs
<1> QED
  BY ONLY <1>1, <1>3

\* In whatever order they are put together.
LEMMA JoinThree ==
  ASSUME NEW a \in Seq(Nat), NEW b \in Seq(Nat), NEW c \in Seq(Nat)
  PROVE  (a \o b) \o c = a \o (b \o c)
<1> DEFINE ab == a \o b
           bc == b \o c
           x == ab \o c
           y == a \o bc
<1>0. a \in Seq(Nat) /\ b \in Seq(Nat) /\ c \in Seq(Nat)
      /\ Len(a) \in Nat /\ Len(b) \in Nat /\ Len(c) \in Nat
  OBVIOUS
<1>1. /\ ab \in Seq(Nat) /\ Len(ab) = Len(a) + Len(b)
      /\ \A j \in 1..Len(a) : ab[j] = a[j]
      /\ \A j \in 1..Len(b) : ab[Len(a) + j] = b[j]
  BY ONLY <1>0, JoinIs
<1>2. /\ bc \in Seq(Nat) /\ Len(bc) = Len(b) + Len(c)
      /\ \A j \in 1..Len(b) : bc[j] = b[j]
      /\ \A j \in 1..Len(c) : bc[Len(b) + j] = c[j]
  BY ONLY <1>0, JoinIs
<1> HIDE DEF ab, bc
<1>3. /\ x \in Seq(Nat) /\ Len(x) = Len(ab) + Len(c)
      /\ \A j \in 1..Len(ab) : x[j] = ab[j]
      /\ \A j \in 1..Len(c) : x[Len(ab) + j] = c[j]
  BY ONLY <1>0, <1>1, JoinIs
<1>4. /\ y \in Seq(Nat) /\ Len(y) = Len(a) + Len(bc)
      /\ \A j \in 1..Len(a) : y[j] = a[j]
      /\ \A j \in 1..Len(bc) : y[Len(a) + j] = bc[j]
  BY ONLY <1>0, <1>2, JoinIs
<1> HIDE DEF x, y
<1>5. Len(x) = Len(a) + Len(b) + Len(c) /\ Len(x) = Len(y)
  BY ONLY <1>0, <1>1, <1>2, <1>3, <1>4
<1>6. ASSUME NEW l \in 1..Len(x) PROVE x[l] = y[l]
  <2>0. l \in Nat /\ l >= 1 /\ l <= Len(a) + Len(b) + Len(c)
    BY ONLY <1>0, <1>5, l \in 1..Len(x)
  <2>1. CASE l <= Len(a)
    <3>1. l \in 1..Len(a) /\ l \in 1..Len(ab)
      BY ONLY <1>0, <1>1, <2>0, <2>1
    <3> QED
      BY ONLY <1>1, <1>3, <1>4, <3>1
  <2>2. CASE Len(a) < l /\ l <= Len(a) + Len(b)
    <3> DEFINE j == l - Len(a)
    <3>1. j \in 1..Len(b) /\ j \in 1..Len(bc) /\ l \in 1..Len(ab) /\ Len(a) + j = l
      BY ONLY <1>0, <1>1, <1>2, <2>0, <2>2
    <3> HIDE DEF j
    <3> QED
      BY ONLY <1>1, <1>2, <1>3, <1>4, <3>1
  <2>3. CASE Len(a) + Len(b) < l
    <3> DEFINE j == l - Len(a) - Len(b)
               k == l - Len(a)
    <3>1. j \in 1..Len(c) /\ k \in 1..Len(bc) /\ Len(ab) + j = l /\ Len(a) + k = l /\ Len(b) + j = k
      BY ONLY <1>0, <1>1, <1>2, <2>0, <2>3
    <3> HIDE DEF j, k
    <3>2. x[l] = c[j]
      BY ONLY <1>3, <3>1
    <3>3. y[l] = bc[k] /\ bc[k] = c[j]
      BY ONLY <1>2, <1>4, <3>1
    <3> QED
      BY ONLY <3>2, <3>3
  <2> QED
    BY <1>0, <2>0, <2>1, <2>2, <2>3
<1>7. x \in Seq(Nat) /\ y \in Seq(Nat) /\ Len(x) = Len(y) /\ \A l \in 1..Len(x) : x[l] = y[l]
  BY ONLY <1>3, <1>4, <1>5, <1>6
<1>8. x = y
  BY ONLY <1>7, SameElements
<1> QED
  BY ONLY <1>8 DEF x, y, ab, bc

\* Or with nothing.
LEMMA JoinNothing ==
  ASSUME NEW a \in Seq(Nat)
  PROVE  <<>> \o a = a /\ a \o <<>> = a /\ <<>> \in Seq(Nat)
<1> DEFINE e == <<>>
           x == e \o a
           y == a \o e
<1>0. a \in Seq(Nat) /\ e \in Seq(Nat) /\ Len(e) = 0 /\ Len(a) \in Nat
  OBVIOUS
<1> HIDE DEF e
<1>1. /\ x \in Seq(Nat) /\ Len(x) = Len(e) + Len(a)
      /\ \A j \in 1..Len(a) : x[Len(e) + j] = a[j]
  BY ONLY <1>0, JoinIs
<1>2. /\ y \in Seq(Nat) /\ Len(y) = Len(a) + Len(e)
      /\ \A j \in 1..Len(a) : y[j] = a[j]
  BY ONLY <1>0, JoinIs
<1> HIDE DEF x, y
<1>3. Len(x) = Len(a) /\ Len(y) = Len(a)
  BY ONLY <1>0, <1>1, <1>2
<1>4. \A j \in 1..Len(x) : x[j] = a[j]
  <2>1. ASSUME NEW j \in 1..Len(a) PROVE x[j] = a[j]
    <3>1. Len(e) + j = j
      BY ONLY <1>0, j \in 1..Len(a)
    <3> QED
      BY ONLY <1>1, <3>1, j \in 1..Len(a)
  <2> QED
    BY ONLY <1>3, <2>1
<1>5. \A j \in 1..Len(y) : y[j] = a[j]
  BY ONLY <1>2, <1>3
<1>6. x \in Seq(Nat) /\ a \in Seq(Nat) /\ Len(x) = Len(a) /\ \A j \in 1..Len(x) : x[j] = a[j]
  BY ONLY <1>0, <1>1, <1>3, <1>4
<1>7. y \in Seq(Nat) /\ a \in Seq(Nat) /\ Len(y) = Len(a) /\ \A j \in 1..Len(y) : y[j] = a[j]
  BY ONLY <1>0, <1>2, <1>3, <1>5
<1>8. x = a /\ y = a
  BY ONLY <1>6, <1>7, SameElements
<1> QED
  BY ONLY <1>0, <1>8 DEF x, y, e

\* Spaces, and one more.
LEMMA SpacesIs ==
  ASSUME NEW n \in Nat
  PROVE  /\ Spaces(n) \in Seq(Nat) /\ Len(Spaces(n)) = n /\ <<Space>> \in Seq(Nat)
         /\ Spaces(n + 1) = Spaces(n) \o <<Space>>
<1> DEFINE s == Spaces(n)
           t == Spaces(n + 1)
           o == <<Space>>
           x == s \o o
<1>0. n \in Nat /\ n + 1 \in Nat /\ Space \in Nat
  BY DEF Space
<1>1. o \in Seq(Nat) /\ Len(o) = 1 /\ o[1] = Space
  BY <1>0
<1>2. s = [i \in 1..n |-> Space] /\ t = [i \in 1..n + 1 |-> Space]
  BY DEF Spaces
<1> HIDE DEF s, t, o
<1>3. s \in Seq(Nat) /\ Len(s) = n /\ \A i \in 1..n : s[i] = Space
  BY ONLY <1>0, <1>2
<1>4. t \in Seq(Nat) /\ Len(t) = n + 1 /\ \A i \in 1..n + 1 : t[i] = Space
  BY ONLY <1>0, <1>2
<1>5. /\ x \in Seq(Nat) /\ Len(x) = Len(s) + Len(o)
      /\ \A j \in 1..Len(s) : x[j] = s[j]
      /\ \A j \in 1..Len(o) : x[Len(s) + j] = o[j]
  BY ONLY <1>1, <1>3, JoinIs
<1> HIDE DEF x
<1>6. \A i \in 1..n + 1 : x[i] = Space
  <2>1. ASSUME NEW i \in 1..n + 1 PROVE x[i] = Space
    <3>1. i \in 1..n \/ i = n + 1
      BY ONLY <1>0, i \in 1..n + 1
    <3>2. 1 \in 1..1
      OBVIOUS
    <3> QED
      BY ONLY <1>1, <1>3, <1>5, <3>1, <3>2
  <2> QED
    BY ONLY <2>1
<1>7. t \in Seq(Nat) /\ x \in Seq(Nat) /\ Len(t) = Len(x) /\ \A i \in 1..Len(t) : t[i] = x[i]
  BY ONLY <1>1, <1>3, <1>4, <1>5, <1>6
<1>8. t = x
  BY ONLY <1>7, SameElements
<1> QED
  BY ONLY <1>1, <1>3, <1>8 DEF s, t, o, x

-----------------------------------------------------------------------------
\* Pieces written one by one.
WrittenUp(b, pieces, N, f) ==
  f = [n \in 0..N |-> IF n = 0 THEN b ELSE Sputn(f[n - 1], pieces[n])]

AfterPieces(b, pieces) ==
  LET after[n \in 0..Len(pieces)] == IF n = 0 THEN b ELSE Sputn(after[n - 1], pieces[n])
  IN after[Len(pieces)]

\* There is such a function.
LEMMA WrittenUpExists ==
  ASSUME NEW b, NEW pieces, NEW N \in Nat
  PROVE  \E f : WrittenUp(b, pieces, N, f)
<1> DEFINE T == {m \in Nat : \E f : WrittenUp(b, pieces, m, f)}
<1>1. 0 \in T
  <2> DEFINE f == [k \in 0..0 |-> b]
  <2>1. f[0] = b /\ DOMAIN f = 0..0 /\ \A k \in 0..0 : k = 0
    OBVIOUS
  <2>2. f = [k \in 0..0 |-> IF k = 0 THEN b ELSE Sputn(f[k - 1], pieces[k])]
    BY <2>1
  <2> HIDE DEF f
  <2>3. WrittenUp(b, pieces, 0, f)
    BY <2>2 DEF WrittenUp
  <2> QED
    BY <2>3
<1>2. ASSUME NEW m \in Nat, m < N /\ m \in T PROVE m + 1 \in T
  <2>1. PICK f : WrittenUp(b, pieces, m, f)
    BY <1>2
  <2>2. f = [k \in 0..m |-> IF k = 0 THEN b ELSE Sputn(f[k - 1], pieces[k])]
    BY <2>1 DEF WrittenUp
  <2> DEFINE g == [k \in 0..m + 1 |-> IF k = m + 1 THEN Sputn(f[m], pieces[k]) ELSE f[k]]
             h == [k \in 0..m + 1 |-> IF k = 0 THEN b ELSE Sputn(g[k - 1], pieces[k])]
  <2>3. ASSUME NEW k \in 0..m + 1 PROVE g[k] = h[k]
    <3>1. CASE k = m + 1
      <4>1. k - 1 = m /\ m \in 0..m + 1 /\ m # m + 1 /\ k # 0
        BY <3>1
      <4>2. g[k] = Sputn(f[m], pieces[k]) /\ g[k - 1] = f[m]
        BY <3>1, <4>1
      <4>3. h[k] = Sputn(g[k - 1], pieces[k])
        BY <4>1
      <4> QED
        BY <4>2, <4>3
    <3>2. CASE k # m + 1 /\ k # 0
      <4>1. k \in 0..m /\ k - 1 \in 0..m + 1 /\ k - 1 # m + 1
        BY <3>2
      <4>2. g[k] = f[k] /\ g[k - 1] = f[k - 1] /\ f[k] = Sputn(f[k - 1], pieces[k])
        BY <2>2, <3>2, <4>1
      <4>3. h[k] = Sputn(g[k - 1], pieces[k])
        BY <3>2
      <4> QED
        BY <4>2, <4>3
    <3>3. CASE k = 0
      <4>1. 0 \in 0..m /\ 0 # m + 1
        OBVIOUS
      <4>2. g[0] = f[0] /\ f[0] = b
        BY <2>2, <4>1
      <4> QED
        BY <3>3, <4>2
    <3> QED
      BY <3>1, <3>2, <3>3
  <2>4. g = h
    BY <2>3
  <2> HIDE DEF g
  <2>5. WrittenUp(b, pieces, m + 1, g)
    BY <2>4 DEF WrittenUp
  <2> QED
    BY <2>5
<1> HIDE DEF T
<1>3. \A m \in 0..N : m \in T
  BY <1>1, <1>2, AllNumbers
<1>4. N \in T
  BY <1>3
<1> QED
  BY <1>4 DEF T

\* Written, they are behind the text, joined: texts[n] are the first n.
LEMMA PiecesHold ==
  ASSUME NEW b, NEW t, BufHolds(b, t), NEW pieces, NEW N \in Nat, Len(pieces) = N,
         NEW texts, texts[0] = <<>>,
         \A n \in 0..N : texts[n] \in Seq(Nat),
         \A n \in 1..N : pieces[n] \in Seq(Nat) /\ texts[n] = texts[n - 1] \o pieces[n]
  PROVE  BufHolds(AfterPieces(b, pieces), t \o texts[N])
<1> DEFINE F == CHOOSE f : f = [n \in 0..Len(pieces) |->
                                 IF n = 0 THEN b ELSE Sputn(f[n - 1], pieces[n])]
           T == {n \in Nat : n <= N => BufHolds(F[n], t \o texts[n])}
<1>0. /\ N \in Nat /\ Len(pieces) = N /\ BufHolds(b, t) /\ texts[0] = <<>>
      /\ \A n \in 0..N : texts[n] \in Seq(Nat)
      /\ \A n \in 1..N : pieces[n] \in Seq(Nat) /\ texts[n] = texts[n - 1] \o pieces[n]
  OBVIOUS
<1>1. AfterPieces(b, pieces) = F[N]
  BY <1>0 DEF AfterPieces
<1>2. F = [n \in 0..N |-> IF n = 0 THEN b ELSE Sputn(F[n - 1], pieces[n])]
  <2>1. \E f : f = [n \in 0..N |-> IF n = 0 THEN b ELSE Sputn(f[n - 1], pieces[n])]
    <3>1. \E f : WrittenUp(b, pieces, N, f)
      BY ONLY <1>0, WrittenUpExists
    <3> QED
      BY ONLY <3>1 DEF WrittenUp
  <2>2. \E f : f = [n \in 0..Len(pieces) |-> IF n = 0 THEN b ELSE Sputn(f[n - 1], pieces[n])]
    BY ONLY <1>0, <2>1
  <2>3. F = [n \in 0..Len(pieces) |-> IF n = 0 THEN b ELSE Sputn(F[n - 1], pieces[n])]
    BY ONLY <2>2 DEF F
  <2> HIDE DEF F
  <2> QED
    BY ONLY <1>0, <2>3
<1> HIDE DEF F
<1>3. t \in Seq(Nat)
  BY ONLY <1>0, BufFacts
<1>4. 0 \in T
  <2>1. F[0] = b
    BY ONLY <1>0, <1>2
  <2>2. t \o <<>> = t
    BY ONLY <1>3, JoinNothing
  <2>3. BufHolds(F[0], t \o texts[0])
    BY ONLY <1>0, <2>1, <2>2
  <2> QED
    BY ONLY <2>3 DEF T
<1>5. ASSUME NEW n \in Nat, n < N /\ n \in T PROVE n + 1 \in T
  <2>1. n \in 0..N /\ n + 1 \in 0..N /\ n + 1 \in 1..N /\ n + 1 # 0 /\ (n + 1) - 1 = n
        /\ n + 1 \in Nat
    BY ONLY <1>0, <1>5, n \in Nat
  <2>2. BufHolds(F[n], t \o texts[n])
    BY <1>5
  <2>3. F[n + 1] = Sputn(F[n], pieces[n + 1])
    BY ONLY <1>2, <2>1
  <2>4. /\ pieces[n + 1] \in Seq(Nat) /\ texts[n] \in Seq(Nat)
        /\ texts[n + 1] = texts[n] \o pieces[n + 1]
    BY ONLY <1>0, <2>1
  <2>5. BufHolds(Sputn(F[n], pieces[n + 1]), (t \o texts[n]) \o pieces[n + 1])
    BY ONLY <2>2, <2>4, SputnHolds
  <2>6. (t \o texts[n]) \o pieces[n + 1] = t \o (texts[n] \o pieces[n + 1])
    BY ONLY <1>3, <2>4, JoinThree
  <2>7. BufHolds(F[n + 1], t \o texts[n + 1])
    BY ONLY <2>3, <2>4, <2>5, <2>6
  <2> QED
    BY ONLY <2>1, <2>7 DEF T
<1> HIDE DEF T
<1>6. \A n \in 0..N : n \in T
  BY ONLY <1>0, <1>4, <1>5, AllNumbers
<1>7. N \in T
  BY ONLY <1>0, <1>6
<1> QED
  BY <1>0, <1>1, <1>7 DEF T

\* Spaces, each a piece of its own.
Fill(K) == [n \in 1..K |-> <<Space>>]

\* No spaces at all.
LEMMA NoSpaces == Spaces(0) = <<>>
<1> DEFINE s == Spaces(0)
           e == <<>>
<1>1. s \in Seq(Nat) /\ Len(s) = 0
  <2>1. 0 \in Nat
    OBVIOUS
  <2> QED
    BY ONLY <2>1, SpacesIs
<1>2. e \in Seq(Nat) /\ Len(e) = 0
  OBVIOUS
<1> HIDE DEF s, e
<1>3. s \in Seq(Nat) /\ e \in Seq(Nat) /\ Len(s) = Len(e) /\ \A l \in 1..Len(s) : s[l] = e[l]
  BY ONLY <1>1, <1>2
<1>4. s = e
  BY ONLY <1>3, SameElements
<1> QED
  BY ONLY <1>4 DEF s, e

\* The pieces with the fill behind the one it begins with.
LEMMA BehindOne ==
  ASSUME NEW a \in Seq(Nat), NEW K \in Nat
  PROVE  LET p == <<a>> \o Fill(K)
         IN /\ p \in Seq(Seq(Nat)) /\ Len(p) = K + 1 /\ p[1] = a
            /\ \A n \in 2..K + 1 : p[n] = <<Space>>
<1> DEFINE o == <<a>>
           f == Fill(K)
           p == o \o f
<1>0. <<Space>> \in Seq(Nat) /\ K \in Nat
  BY SpacesIs
<1>1. PICK S : S = Seq(Nat)
  OBVIOUS
<1>2. o \in Seq(S) /\ Len(o) = 1 /\ o[1] = a
  BY <1>1
<1>3. f \in Seq(S) /\ Len(f) = K /\ \A n \in 1..K : f[n] = <<Space>>
  <2>1. f = [n \in 1..K |-> <<Space>>]
    BY DEF Fill
  <2>2. <<Space>> \in S
    BY ONLY <1>0, <1>1
  <2> DEFINE x == <<Space>>
  <2> HIDE DEF f, x
  <2>3. f = [n \in 1..K |-> x] /\ x \in S
    BY ONLY <2>1, <2>2 DEF x
  <2>4. f \in Seq(S) /\ Len(f) = K /\ \A n \in 1..K : f[n] = x
    BY ONLY <1>0, <2>3
  <2> QED
    BY ONLY <2>4 DEF x
<1> HIDE DEF o, f
<1>c. o \in Seq(S) /\ f \in Seq(S)
  BY ONLY <1>2, <1>3
<1>4. /\ p \in Seq(S) /\ Len(p) = Len(o) + Len(f)
      /\ \A j \in 1..Len(o) : p[j] = o[j]
      /\ \A j \in 1..Len(f) : p[Len(o) + j] = f[j]
  BY ONLY <1>c, ConcatIs
<1> HIDE DEF p
<1>5. Len(p) = K + 1
  BY ONLY <1>0, <1>2, <1>3, <1>4
<1>6. p[1] = a
  <2>1. 1 \in 1..1
    OBVIOUS
  <2> QED
    BY ONLY <1>2, <1>4, <2>1
<1>7. \A n \in 2..K + 1 : p[n] = <<Space>>
  <2>1. ASSUME NEW n \in 2..K + 1 PROVE p[n] = <<Space>>
    <3> DEFINE j == n - 1
    <3>1. j \in 1..K /\ 1 + j = n
      BY ONLY <1>0, n \in 2..K + 1
    <3> HIDE DEF j
    <3>2. p[1 + j] = f[j] /\ f[j] = <<Space>>
      BY ONLY <1>2, <1>3, <1>4, <3>1
    <3> QED
      BY ONLY <3>1, <3>2
  <2> QED
    BY ONLY <2>1
<1> QED
  BY ONLY <1>1, <1>4, <1>5, <1>6, <1>7 DEF p, o, f

\* And with one more behind them.
LEMMA AndOne ==
  ASSUME NEW p \in Seq(Seq(Nat)), NEW c \in Seq(Nat)
  PROVE  LET q == p \o <<c>>
         IN /\ q \in Seq(Seq(Nat)) /\ Len(q) = Len(p) + 1 /\ q[Len(p) + 1] = c
            /\ \A n \in 1..Len(p) : q[n] = p[n]
<1> DEFINE o == <<c>>
           q == p \o o
<1>1. PICK S : S = Seq(Nat)
  OBVIOUS
<1>2. o \in Seq(S) /\ Len(o) = 1 /\ o[1] = c
  BY <1>1
<1>3. p \in Seq(S) /\ Len(p) \in Nat
  BY <1>1
<1> HIDE DEF o
<1>c. p \in Seq(S) /\ o \in Seq(S)
  BY ONLY <1>2, <1>3
<1>4. /\ q \in Seq(S) /\ Len(q) = Len(p) + Len(o)
      /\ \A j \in 1..Len(p) : q[j] = p[j]
      /\ \A j \in 1..Len(o) : q[Len(p) + j] = o[j]
  BY ONLY <1>c, ConcatIs
<1> HIDE DEF q
<1>5. q[Len(p) + 1] = c
  <2>1. 1 \in 1..1
    OBVIOUS
  <2> QED
    BY ONLY <1>2, <1>4, <2>1
<1> QED
  BY ONLY <1>1, <1>2, <1>4, <1>5 DEF q, o

\* Written, the spaces are behind the first piece.
LEMMA FillBehind ==
  ASSUME NEW b, NEW t, BufHolds(b, t), NEW a \in Seq(Nat), NEW K \in Nat
  PROVE  BufHolds(AfterPieces(b, <<a>> \o Fill(K)), t \o (a \o Spaces(K)))
<1> DEFINE p == <<a>> \o Fill(K)
           N == K + 1
           texts == [n \in 0..N |-> IF n = 0 THEN <<>> ELSE a \o Spaces(n - 1)]
<1>0. /\ BufHolds(b, t) /\ a \in Seq(Nat) /\ K \in Nat /\ N \in Nat /\ N = K + 1
      /\ <<>> \in Seq(Nat) /\ <<Space>> \in Seq(Nat)
  BY SpacesIs
<1>1. Len(p) = N /\ p[1] = a /\ \A n \in 2..N : p[n] = <<Space>>
  BY ONLY <1>0, BehindOne DEF p, N
<1>2. texts[0] = <<>>
  BY <1>0
<1>3. ASSUME NEW n \in 1..N PROVE texts[n] = a \o Spaces(n - 1) /\ texts[n] \in Seq(Nat)
  <2>1. n - 1 \in Nat /\ n \in 0..N /\ n # 0
    BY ONLY <1>0, n \in 1..N
  <2>2. texts[n] = a \o Spaces(n - 1)
    BY <2>1
  <2>3. Spaces(n - 1) \in Seq(Nat)
    BY ONLY <2>1, SpacesIs
  <2>4. a \o Spaces(n - 1) \in Seq(Nat)
    BY ONLY <1>0, <2>3, JoinIs
  <2> QED
    BY <2>2, <2>4
<1> HIDE DEF texts, p, N
<1>4. \A n \in 0..N : texts[n] \in Seq(Nat)
  <2>1. ASSUME NEW n \in 0..N PROVE texts[n] \in Seq(Nat)
    <3>1. n = 0 \/ n \in 1..N
      BY ONLY <1>0, n \in 0..N
    <3> QED
      BY ONLY <1>0, <1>2, <1>3, <3>1
  <2> QED
    BY ONLY <2>1
<1>5. \A n \in 1..N : p[n] \in Seq(Nat) /\ texts[n] = texts[n - 1] \o p[n]
  <2>1. ASSUME NEW n \in 1..N PROVE p[n] \in Seq(Nat) /\ texts[n] = texts[n - 1] \o p[n]
    <3>1. CASE n = 1
      <4>1. n - 1 = 0
        BY ONLY <3>1
      <4>2. texts[n] = a \o Spaces(0)
        BY ONLY <1>3, <4>1, n \in 1..N
      <4>3. <<>> \o a = a /\ a \o <<>> = a
        BY ONLY <1>0, JoinNothing
      <4>4. texts[n] = a
        BY ONLY <4>2, <4>3, NoSpaces
      <4> QED
        BY ONLY <1>0, <1>1, <1>2, <3>1, <4>1, <4>3, <4>4
    <3>2. CASE n # 1
      <4> DEFINE k == n - 2
      <4>1. k \in Nat /\ n - 1 = k + 1 /\ (n - 1) - 1 = k /\ n - 1 \in 1..N /\ n \in 2..N
        BY ONLY <1>0, <3>2, n \in 1..N
      <4> HIDE DEF k
      <4>2. texts[n] = a \o Spaces(k + 1)
        BY ONLY <1>3, <4>1, n \in 1..N
      <4>3. texts[n - 1] = a \o Spaces(k)
        BY ONLY <1>3, <4>1
      <4>4. Spaces(k) \in Seq(Nat) /\ Spaces(k + 1) = Spaces(k) \o <<Space>>
        BY ONLY <4>1, SpacesIs
      <4>5. (a \o Spaces(k)) \o <<Space>> = a \o (Spaces(k) \o <<Space>>)
        BY ONLY <1>0, <4>4, JoinThree
      <4>6. p[n] = <<Space>>
        BY ONLY <1>1, <4>1
      <4> QED
        BY ONLY <1>0, <4>2, <4>3, <4>4, <4>5, <4>6
    <3> QED
      BY <3>1, <3>2
  <2> QED
    BY ONLY <2>1
<1>6. BufHolds(AfterPieces(b, p), t \o texts[N])
  BY ONLY <1>0, <1>1, <1>2, <1>4, <1>5, PiecesHold
<1>7. texts[N] = a \o Spaces(K)
  <2>1. N \in 1..N /\ N - 1 = K
    BY ONLY <1>0
  <2> QED
    BY ONLY <1>3, <2>1
<1> QED
  BY ONLY <1>6, <1>7 DEF p

\* In front of the last one.
LEMMA FillBefore ==
  ASSUME NEW b, NEW t, BufHolds(b, t), NEW c \in Seq(Nat), NEW K \in Nat
  PROVE  BufHolds(AfterPieces(b, Fill(K) \o <<c>>), t \o (Spaces(K) \o c))
<1> DEFINE f == Fill(K)
           p == f \o <<c>>
           N == K + 1
           texts == [n \in 0..N |-> IF n <= K THEN Spaces(n) ELSE Spaces(K) \o c]
<1>0. /\ BufHolds(b, t) /\ c \in Seq(Nat) /\ K \in Nat /\ N \in Nat /\ N = K + 1
      /\ <<Space>> \in Seq(Nat)
  BY SpacesIs
<1>1. f \in Seq(Seq(Nat)) /\ Len(f) = K /\ \A n \in 1..K : f[n] = <<Space>>
  <2> DEFINE x == <<Space>>
             S == Seq(Nat)
  <2>1. f = [n \in 1..K |-> x] /\ x \in S
    BY <1>0 DEF Fill
  <2> HIDE DEF f, x, S
  <2>2. f \in Seq(S) /\ Len(f) = K /\ \A n \in 1..K : f[n] = x
    BY ONLY <1>0, <2>1
  <2> QED
    BY ONLY <2>2 DEF x, S
<1> HIDE DEF f
<1>2. Len(p) = N /\ p[N] = c /\ \A n \in 1..K : p[n] = <<Space>>
  <2>1. /\ p \in Seq(Seq(Nat)) /\ Len(p) = Len(f) + 1 /\ p[Len(f) + 1] = c
        /\ \A n \in 1..Len(f) : p[n] = f[n]
    BY ONLY <1>0, <1>1, AndOne DEF p
  <2> HIDE DEF p
  <2> QED
    BY ONLY <1>0, <1>1, <2>1
<1>3. /\ \A n \in 0..N : n <= K => texts[n] = Spaces(n)
      /\ texts[N] = Spaces(K) \o c
  <2>1. N \in 0..N /\ ~(N <= K)
    BY ONLY <1>0
  <2> QED
    BY <2>1
<1> HIDE DEF texts, p, N
<1>4. \A n \in 0..N : texts[n] \in Seq(Nat)
  <2>1. ASSUME NEW n \in 0..N PROVE texts[n] \in Seq(Nat)
    <3>1. CASE n <= K
      <4>1. n \in Nat
        BY ONLY <1>0, n \in 0..N
      <4>2. Spaces(n) \in Seq(Nat)
        BY ONLY <4>1, SpacesIs
      <4> QED
        BY ONLY <1>3, <3>1, <4>2, n \in 0..N
    <3>2. CASE ~(n <= K)
      <4>1. n = N
        BY ONLY <1>0, <3>2, n \in 0..N
      <4>2. Spaces(K) \in Seq(Nat)
        BY ONLY <1>0, SpacesIs
      <4>3. Spaces(K) \o c \in Seq(Nat)
        BY ONLY <1>0, <4>2, JoinIs
      <4> QED
        BY ONLY <1>3, <4>1, <4>3
    <3> QED
      BY <3>1, <3>2
  <2> QED
    BY ONLY <2>1
<1>5. \A n \in 1..N : p[n] \in Seq(Nat) /\ texts[n] = texts[n - 1] \o p[n]
  <2>1. ASSUME NEW n \in 1..N PROVE p[n] \in Seq(Nat) /\ texts[n] = texts[n - 1] \o p[n]
    <3> DEFINE k == n - 1
    <3>1. k \in Nat /\ k + 1 = n /\ k <= K /\ k \in 0..N /\ n \in 0..N
      BY ONLY <1>0, n \in 1..N
    <3>2. texts[k] = Spaces(k)
      BY ONLY <1>3, <3>1
    <3>3. CASE n <= K
      <4>1. texts[n] = Spaces(n) /\ n \in 1..K
        BY ONLY <1>0, <1>3, <3>1, <3>3, n \in 1..N
      <4>2. Spaces(k + 1) = Spaces(k) \o <<Space>>
        BY ONLY <3>1, SpacesIs
      <4>3. p[n] = <<Space>>
        BY ONLY <1>2, <4>1
      <4> QED
        BY ONLY <1>0, <3>1, <3>2, <4>1, <4>2, <4>3
    <3>4. CASE ~(n <= K)
      <4>1. n = N /\ k = K
        BY ONLY <1>0, <3>1, <3>4, n \in 1..N
      <4> QED
        BY ONLY <1>0, <1>2, <1>3, <3>2, <4>1
    <3> QED
      BY <3>3, <3>4
  <2> QED
    BY ONLY <2>1
<1>6. texts[0] = <<>>
  <2>1. 0 \in 0..N /\ 0 <= K
    BY ONLY <1>0
  <2> QED
    BY ONLY <1>3, <2>1, NoSpaces
<1>7. BufHolds(AfterPieces(b, p), t \o texts[N])
  BY ONLY <1>0, <1>2, <1>4, <1>5, <1>6, PiecesHold
<1> QED
  BY ONLY <1>3, <1>7 DEF p, f

\* Between two.
LEMMA FillWithin ==
  ASSUME NEW b, NEW t, BufHolds(b, t), NEW a \in Seq(Nat), NEW c \in Seq(Nat), NEW K \in Nat
  PROVE  BufHolds(AfterPieces(b, <<a>> \o Fill(K) \o <<c>>), t \o ((a \o Spaces(K)) \o c))
<1> DEFINE r == <<a>> \o Fill(K)
           p == r \o <<c>>
           M == K + 1
           N == K + 2
           texts == [n \in 0..N |-> IF n = 0 THEN <<>>
                                    ELSE IF n <= M THEN a \o Spaces(n - 1)
                                    ELSE (a \o Spaces(K)) \o c]
<1>0. /\ BufHolds(b, t) /\ a \in Seq(Nat) /\ c \in Seq(Nat) /\ K \in Nat /\ N \in Nat /\ N = K + 2
      /\ M \in Nat /\ M = K + 1 /\ <<>> \in Seq(Nat) /\ <<Space>> \in Seq(Nat)
  BY SpacesIs
<1>1. r \in Seq(Seq(Nat)) /\ Len(r) = M /\ r[1] = a /\ \A n \in 2..M : r[n] = <<Space>>
  BY ONLY <1>0, BehindOne DEF r, M
<1> HIDE DEF r
<1>2. Len(p) = N /\ p[N] = c /\ p[1] = a /\ \A n \in 2..M : p[n] = <<Space>>
  <2>1. /\ p \in Seq(Seq(Nat)) /\ Len(p) = Len(r) + 1 /\ p[Len(r) + 1] = c
        /\ \A n \in 1..Len(r) : p[n] = r[n]
    BY ONLY <1>0, <1>1, AndOne DEF p
  <2> HIDE DEF p, M, N
  <2>2. M + 1 = N /\ 1 \in 1..M /\ \A n \in 2..M : n \in 1..M
    BY ONLY <1>0
  <2> QED
    BY ONLY <1>1, <2>1, <2>2
<1>3. ASSUME NEW n \in 1..M PROVE texts[n] = a \o Spaces(n - 1) /\ texts[n] \in Seq(Nat)
  <2>1. n - 1 \in Nat /\ n \in 0..N /\ n # 0 /\ n <= M
    BY ONLY <1>0, n \in 1..M
  <2>2. texts[n] = a \o Spaces(n - 1)
    BY <2>1
  <2>3. Spaces(n - 1) \in Seq(Nat)
    BY ONLY <2>1, SpacesIs
  <2>4. a \o Spaces(n - 1) \in Seq(Nat)
    BY ONLY <1>0, <2>3, JoinIs
  <2> QED
    BY <2>2, <2>4
<1>4. texts[0] = <<>>
  BY <1>0
<1>5. texts[N] = (a \o Spaces(K)) \o c /\ texts[N] \in Seq(Nat)
  <2>1. N \in 0..N /\ N # 0 /\ ~(N <= M)
    BY ONLY <1>0
  <2>2. texts[N] = (a \o Spaces(K)) \o c
    BY <2>1
  <2>3. Spaces(K) \in Seq(Nat)
    BY ONLY <1>0, SpacesIs
  <2>4. a \o Spaces(K) \in Seq(Nat)
    BY ONLY <1>0, <2>3, JoinIs
  <2>5. (a \o Spaces(K)) \o c \in Seq(Nat)
    BY ONLY <1>0, <2>4, JoinIs
  <2> QED
    BY <2>2, <2>5
<1> HIDE DEF texts, p, M, N
<1>6. \A n \in 0..N : texts[n] \in Seq(Nat)
  <2>1. ASSUME NEW n \in 0..N PROVE texts[n] \in Seq(Nat)
    <3>1. n = 0 \/ n \in 1..M \/ n = N
      BY ONLY <1>0, n \in 0..N
    <3> QED
      BY ONLY <1>0, <1>3, <1>4, <1>5, <3>1
  <2> QED
    BY ONLY <2>1
<1>7. \A n \in 1..N : p[n] \in Seq(Nat) /\ texts[n] = texts[n - 1] \o p[n]
  <2>1. ASSUME NEW n \in 1..N PROVE p[n] \in Seq(Nat) /\ texts[n] = texts[n - 1] \o p[n]
    <3>1. CASE n = 1
      <4>1. n - 1 = 0 /\ 1 \in 1..M /\ 1 - 1 = 0
        BY ONLY <1>0, <3>1
      <4>2. texts[1] = a \o Spaces(0)
        BY ONLY <1>3, <4>1
      <4>3. <<>> \o a = a /\ a \o <<>> = a
        BY ONLY <1>0, JoinNothing
      <4>4. texts[1] = a
        BY ONLY <4>2, <4>3, NoSpaces
      <4> QED
        BY ONLY <1>0, <1>2, <1>4, <3>1, <4>1, <4>3, <4>4
    <3>2. CASE n \in 2..M
      <4> DEFINE k == n - 2
      <4>1. k \in Nat /\ n - 1 = k + 1 /\ (n - 1) - 1 = k /\ n - 1 \in 1..M /\ n \in 1..M
        BY ONLY <1>0, <3>2
      <4> HIDE DEF k
      <4>2. texts[n] = a \o Spaces(k + 1)
        BY ONLY <1>3, <4>1
      <4>3. texts[n - 1] = a \o Spaces(k)
        BY ONLY <1>3, <4>1
      <4>4. Spaces(k) \in Seq(Nat) /\ Spaces(k + 1) = Spaces(k) \o <<Space>>
        BY ONLY <4>1, SpacesIs
      <4>5. (a \o Spaces(k)) \o <<Space>> = a \o (Spaces(k) \o <<Space>>)
        BY ONLY <1>0, <4>4, JoinThree
      <4>6. p[n] = <<Space>>
        BY ONLY <1>2, <3>2
      <4> QED
        BY ONLY <1>0, <4>2, <4>3, <4>4, <4>5, <4>6
    <3>3. CASE n = N
      <4>1. n - 1 = M /\ M \in 1..M /\ M - 1 = K
        BY ONLY <1>0, <3>3
      <4>2. texts[n - 1] = a \o Spaces(K)
        BY ONLY <1>3, <4>1
      <4> QED
        BY ONLY <1>0, <1>2, <1>5, <3>3, <4>2
    <3>4. n = 1 \/ n \in 2..M \/ n = N
      BY ONLY <1>0, n \in 1..N
    <3> QED
      BY <3>1, <3>2, <3>3, <3>4
  <2> QED
    BY ONLY <2>1
<1>8. BufHolds(AfterPieces(b, p), t \o texts[N])
  BY ONLY <1>0, <1>2, <1>4, <1>6, <1>7, PiecesHold
<1> QED
  BY ONLY <1>5, <1>8 DEF p, r

\* Or there are no spaces.
LEMMA NoFill ==
  ASSUME NEW b, NEW t, BufHolds(b, t), NEW a \in Seq(Nat)
  PROVE  BufHolds(AfterPieces(b, <<a>>), t \o a)
<1> DEFINE p == <<a>>
           N == 1
           texts == [n \in 0..N |-> IF n = 0 THEN <<>> ELSE a]
<1>0. BufHolds(b, t) /\ a \in Seq(Nat) /\ N \in Nat /\ N = 1 /\ Len(p) = N /\ p[1] = a
      /\ <<>> \in Seq(Nat)
  OBVIOUS
<1>1. texts[0] = <<>> /\ texts[1] = a
  BY <1>0
<1> HIDE DEF p, N, texts
<1>2. \A n \in 0..N : n = 0 \/ n = 1
  BY ONLY <1>0
<1>3. \A n \in 0..N : texts[n] \in Seq(Nat)
  BY ONLY <1>0, <1>1, <1>2
<1>4. \A n \in 1..N : p[n] \in Seq(Nat) /\ texts[n] = texts[n - 1] \o p[n]
  <2>1. ASSUME NEW n \in 1..N PROVE p[n] \in Seq(Nat) /\ texts[n] = texts[n - 1] \o p[n]
    <3>1. n = 1 /\ n - 1 = 0
      BY ONLY <1>0, n \in 1..N
    <3>2. <<>> \o a = a
      BY ONLY <1>0, JoinNothing
    <3> QED
      BY ONLY <1>0, <1>1, <3>1, <3>2
  <2> QED
    BY ONLY <2>1
<1>5. BufHolds(AfterPieces(b, p), t \o texts[N])
  BY ONLY <1>0, <1>1, <1>3, <1>4, PiecesHold
<1> QED
  BY ONLY <1>0, <1>1, <1>5 DEF p

\* What is left behind a first character.
LEMMA TailOf ==
  ASSUME NEW m \in Nat, NEW d \in Seq(Nat)
  PROVE  Head(<<m>> \o d) = m /\ Tail(<<m>> \o d) = d
<1> DEFINE o == <<m>>
           n == o \o d
           r == Tail(n)
<1>0. o \in Seq(Nat) /\ Len(o) = 1 /\ o[1] = m /\ d \in Seq(Nat) /\ Len(d) \in Nat
  OBVIOUS
<1> HIDE DEF o
<1>1. /\ n \in Seq(Nat) /\ Len(n) = Len(o) + Len(d)
      /\ \A j \in 1..Len(o) : n[j] = o[j]
      /\ \A j \in 1..Len(d) : n[Len(o) + j] = d[j]
  BY ONLY <1>0, JoinIs
<1> HIDE DEF n
<1>2. Len(n) = Len(d) + 1 /\ Len(n) \in Nat /\ n # <<>>
  <2>1. Len(n) = Len(d) + 1 /\ Len(n) \in Nat
    BY ONLY <1>0, <1>1
  <2>2. Len(<<>>) = 0
    OBVIOUS
  <2> QED
    BY ONLY <1>0, <2>1, <2>2
<1>3. Head(n) = m
  <2>1. Head(n) = n[1] /\ 1 \in 1..1
    BY ONLY <1>1, <1>2
  <2> QED
    BY ONLY <1>0, <1>1, <2>1
<1>4. r \in Seq(Nat) /\ Len(r) = Len(d)
  BY ONLY <1>0, <1>1, <1>2
<1>5. \A j \in 1..Len(d) : r[j] = d[j]
  <2>1. ASSUME NEW j \in 1..Len(d) PROVE r[j] = d[j]
    <3>1. r[j] = n[j + 1]
      BY ONLY <1>0, <1>1, <1>2, j \in 1..Len(d)
    <3>2. Len(o) + j = j + 1
      BY ONLY <1>0, j \in 1..Len(d)
    <3> QED
      BY ONLY <1>1, <3>1, <3>2, j \in 1..Len(d)
  <2> QED
    BY ONLY <2>1
<1> HIDE DEF r
<1>6. r \in Seq(Nat) /\ d \in Seq(Nat) /\ Len(r) = Len(d) /\ \A l \in 1..Len(r) : r[l] = d[l]
  BY ONLY <1>0, <1>4, <1>5
<1>7. r = d
  BY ONLY <1>6, SameElements
<1> QED
  BY ONLY <1>3, <1>7 DEF r, n, o

-----------------------------------------------------------------------------
\* An integer, padded, is what it should look like.
LEMMA WriteIntegerHolds ==
  ASSUME NEW b, NEW t, BufHolds(b, t), NEW i \in Integer, NEW base \in LtBases, NEW pad \in LtPads
  PROVE  /\ BufHolds(WriteInteger(b, i, base, pad), t \o Written(i, base, pad))
         /\ ~(i = -Power(2, LtBits - 1) /\ base = 2) => Len(DigitsOf(i, base)) <= LtBits
<1> DEFINE s == Sign(i)
           d == Digits(Distance(i), base)
           num == s \o d
           K == pad.size - Len(num)
           w == Written(i, base, pad)
           pieces == Pieces(num, pad)
<1>1. /\ d \in Seq(Nat) /\ Len(d) = Places(Distance(i), base)
      /\ Places(Distance(i), base) \in Nat \ {0}
      /\ \A p \in 1..Len(d) : d[p] # Minus
  <2>1. Distance(i) \in Nat
    BY DistanceIs
  <2> QED
    BY ONLY <2>1, base \in LtBases, DigitsAre DEF d
<1>2. i \in Int /\ LtBits \in Nat
  BY DistanceIs
<1>3. /\ s \in Seq(Nat) /\ (i < 0 => s = <<Minus>> /\ Len(s) = 1 /\ s[1] = Minus)
      /\ (~(i < 0) => s = <<>> /\ Len(s) = 0)
  BY DEF Sign, Minus
<1>4. DigitsOf(i, base) = num
  BY DigitsOfIs
<1>5. pad.size \in Int /\ pad.type \in {"left", "right", "inner"}
  BY LtConstants
<1>6. w = CASE pad.type = "right" -> s \o d \o Spaces(K)
            [] pad.type = "inner" -> s \o Spaces(K) \o d
            [] pad.type = "left" -> Spaces(K) \o s \o d
  BY WrittenIs
<1>7. WriteInteger(b, i, base, pad) = AfterPieces(b, pieces)
  BY <1>4 DEF WriteInteger, WritePadded, AfterPieces
<1>8. /\ num \in Seq(Nat) /\ Len(num) = Len(s) + Len(d) /\ Len(num) \in Nat
      /\ \A j \in 1..Len(s) : num[j] = s[j]
      /\ \A j \in 1..Len(d) : num[Len(s) + j] = d[j]
  <2> HIDE DEF s, d
  <2>1. s \in Seq(Nat) /\ d \in Seq(Nat)
    BY ONLY <1>1, <1>3
  <2>2. /\ num \in Seq(Nat) /\ Len(num) = Len(s) + Len(d)
        /\ \A j \in 1..Len(s) : num[j] = s[j]
        /\ \A j \in 1..Len(d) : num[Len(s) + j] = d[j]
    BY ONLY <2>1, JoinIs DEF num
  <2> HIDE DEF num
  <2>3. Len(num) \in Nat
    BY ONLY <2>2
  <2> QED
    BY ONLY <2>2, <2>3
<1>9. ASSUME ~(i = -Power(2, LtBits - 1) /\ base = 2) PROVE Len(num) <= LtBits
  <2>1. /\ Places(Distance(i), base) \in 1..LtBits
        /\ i < 0 /\ ~(i = -Power(2, LtBits - 1) /\ base = 2) =>
             Places(Distance(i), base) + 1 <= LtBits
    BY PlacesFit
  <2>2. i < 0 => Places(Distance(i), base) + 1 <= LtBits
    BY ONLY <1>9, <2>1
  <2> DEFINE n == Places(Distance(i), base)
  <2>3. n \in 1..LtBits /\ (i < 0 => n + 1 <= LtBits) /\ Len(d) = n
    BY <1>1, <2>1, <2>2
  <2> DEFINE ls == Len(s)
             ln == Len(num)
  <2>4. i \in Int /\ (i < 0 => ls = 1) /\ (~(i < 0) => ls = 0)
    BY ONLY <1>2, <1>3 DEF ls
  <2>5. ln = ls + n
    BY ONLY <1>8, <2>3 DEF ls, ln
  <2>6. LtBits \in Nat
    BY ONLY <1>2
  <2>7. n \in 1..LtBits /\ (i < 0 => n + 1 <= LtBits)
    BY ONLY <2>3
  <2> HIDE DEF n, ls, ln
  <2>8. ln <= LtBits
    <3>1. CASE i < 0
      BY ONLY <2>4, <2>5, <2>6, <2>7, <3>1
    <3>2. CASE ~(i < 0)
      BY ONLY <2>4, <2>5, <2>6, <2>7, <3>2
    <3> QED
      BY ONLY <3>1, <3>2
  <2> QED
    BY ONLY <2>8 DEF ln
<1>10. K \in Int /\ pieces = Pieces(num, pad) /\ BufHolds(b, t)
  <2> HIDE DEF num
  <2> QED
    BY <1>5, <1>8
<1> HIDE DEF s, d, num
<1>11. CASE pad.size <= Len(num)
  <2>1. pieces = <<num>>
    BY ONLY <1>5, <1>8, <1>10, <1>11 DEF Pieces
  <2>2. K \in Int /\ K <= 0
    BY ONLY <1>5, <1>8, <1>11 DEF K
  <2>3. Spaces(K) = <<>>
    <3>1. 1..K = 1..0
      <4> HIDE DEF K
      <4> QED
        BY ONLY <2>2
    <3>2. Spaces(K) = Spaces(0)
      BY ONLY <3>1 DEF Spaces
    <3> QED
      BY ONLY <3>2, NoSpaces
  <2>4. /\ num \o <<>> = num /\ s \o <<>> = s /\ <<>> \o s = s
    BY ONLY <1>3, <1>8, JoinNothing
  <2>5. num = s \o d
    BY DEF num
  <2>6. w = num
    <3> HIDE DEF K, w
    <3> DEFINE e == Spaces(K)
    <3>1. w = CASE pad.type = "right" -> s \o d \o e
                [] pad.type = "inner" -> s \o e \o d
                [] pad.type = "left" -> e \o s \o d
      BY ONLY <1>6 DEF e
    <3>2. e = <<>>
      BY ONLY <2>3 DEF e
    <3>3. num \o e = num /\ s \o e = s /\ e \o s = s
      BY ONLY <2>4, <3>2
    <3>4. s \o d \o e = num /\ s \o e \o d = num /\ e \o s \o d = num
      BY ONLY <2>5, <3>3
    <3> HIDE DEF e
    <3> DEFINE x == s \o d \o e
               y == s \o e \o d
               z == e \o s \o d
    <3> HIDE DEF x, y, z
    <3>5. w = CASE pad.type = "right" -> x [] pad.type = "inner" -> y [] pad.type = "left" -> z
      BY ONLY <3>1 DEF x, y, z
    <3>6. x = num /\ y = num /\ z = num
      BY ONLY <3>4 DEF x, y, z
    <3> QED
      BY ONLY <1>5, <3>5, <3>6
  <2>7. BufHolds(AfterPieces(b, <<num>>), t \o num)
    BY ONLY <1>8, <1>10, NoFill
  <2>8. BufHolds(WriteInteger(b, i, base, pad), t \o w)
    BY ONLY <1>7, <2>1, <2>6, <2>7
  <2> QED
    BY ONLY <1>4, <1>9, <2>8 DEF w
<1>12. CASE pad.size > Len(num)
  <2>1. K \in Nat
    BY ONLY <1>5, <1>8, <1>12 DEF K
  <2>2. Fill(K) = [n \in 1..pad.size - Len(num) |-> <<Space>>]
    BY ONLY DEF Fill, K
  <2>3. ~(pad.size <= Len(num))
    BY ONLY <1>5, <1>8, <1>12
  <2>4. pieces = CASE pad.size <= Len(num) -> <<num>>
                   [] pad.size > Len(num) /\ pad.type = "right" -> <<num>> \o Fill(K)
                   [] pad.size > Len(num) /\ pad.type = "inner" /\ Head(num) = Minus ->
                        <<<<Minus>>>> \o Fill(K) \o <<Tail(num)>>
                   [] OTHER -> Fill(K) \o <<num>>
    BY ONLY <2>2 DEF Pieces, pieces
  <2> HIDE DEF K, w, pieces
  <2>5. BufHolds(AfterPieces(b, pieces), t \o w)
    <3>1. CASE pad.type = "right"
      <4>1. pieces = <<num>> \o Fill(K)
        BY ONLY <1>12, <2>3, <2>4, <3>1
      <4>2. w = num \o Spaces(K)
        BY ONLY <1>6, <3>1 DEF num
      <4>3. BufHolds(AfterPieces(b, <<num>> \o Fill(K)), t \o (num \o Spaces(K)))
        BY ONLY <1>8, <1>10, <2>1, FillBehind
      <4> QED
        BY ONLY <4>1, <4>2, <4>3
    <3>2. CASE pad.type = "inner" /\ i < 0
      <4>1. s = <<Minus>> /\ Minus \in Nat /\ <<Minus>> \in Seq(Nat) /\ d \in Seq(Nat)
        BY ONLY <1>1, <1>3, <3>2 DEF Minus
      <4>2. Head(num) = Minus /\ Tail(num) = d
        BY ONLY <4>1, TailOf DEF num
      <4>3. pieces = <<<<Minus>>>> \o Fill(K) \o <<d>>
        <5>1. pad.type # "right" /\ pad.type = "inner"
          BY ONLY <3>2
        <5> QED
          BY ONLY <1>12, <2>3, <2>4, <4>2, <5>1
      <4>4. w = s \o Spaces(K) \o d
        <5>1. pad.type # "right" /\ pad.type = "inner"
          BY ONLY <3>2
        <5> QED
          BY ONLY <1>6, <5>1
      <4>5. BufHolds(AfterPieces(b, <<<<Minus>>>> \o Fill(K) \o <<d>>),
                     t \o ((<<Minus>> \o Spaces(K)) \o d))
        BY ONLY <1>10, <2>1, <4>1, FillWithin
      <4> QED
        BY ONLY <4>1, <4>3, <4>4, <4>5
    <3>3. CASE pad.type = "inner" /\ ~(i < 0)
      <4>1. s = <<>> /\ d \in Seq(Nat) /\ Spaces(K) \in Seq(Nat)
        BY ONLY <1>1, <1>3, <2>1, <3>3, SpacesIs
      <4>2. num = d
        BY ONLY <4>1, JoinNothing DEF num
      <4>3. s \o Spaces(K) = Spaces(K)
        BY ONLY <4>1, JoinNothing
      <4>4. Head(num) # Minus
        <5>1. Len(d) \in Nat \ {0}
          BY ONLY <1>1
        <5>2. d # <<>>
          <6>1. Len(<<>>) = 0
            OBVIOUS
          <6> QED
            BY ONLY <5>1, <6>1
        <5>3. Head(d) = d[1] /\ 1 \in 1..Len(d)
          BY ONLY <4>1, <5>1, <5>2
        <5> QED
          BY ONLY <1>1, <4>2, <5>3
      <4>5. pad.type # "right" /\ pad.type = "inner"
        BY ONLY <3>3
      <4>6. pieces = Fill(K) \o <<num>>
        BY ONLY <1>12, <2>3, <2>4, <4>4, <4>5
      <4>7. w = s \o Spaces(K) \o d
        BY ONLY <1>6, <4>5
      <4>8. BufHolds(AfterPieces(b, Fill(K) \o <<num>>), t \o (Spaces(K) \o num))
        BY ONLY <1>8, <1>10, <2>1, FillBefore
      <4> QED
        BY ONLY <4>2, <4>3, <4>6, <4>7, <4>8
    <3>4. CASE pad.type = "left"
      <4>1. pad.type # "right" /\ pad.type # "inner" /\ pad.type = "left"
        BY ONLY <3>4
      <4>2. pieces = Fill(K) \o <<num>>
        BY ONLY <2>3, <2>4, <4>1
      <4>3. w = Spaces(K) \o s \o d
        BY ONLY <1>6, <4>1
      <4>4. s \in Seq(Nat) /\ d \in Seq(Nat) /\ Spaces(K) \in Seq(Nat)
        BY ONLY <1>1, <1>3, <2>1, SpacesIs
      <4>5. (Spaces(K) \o s) \o d = Spaces(K) \o num
        BY ONLY <4>4, JoinThree DEF num
      <4>6. BufHolds(AfterPieces(b, Fill(K) \o <<num>>), t \o (Spaces(K) \o num))
        BY ONLY <1>8, <1>10, <2>1, FillBefore
      <4> QED
        BY ONLY <4>2, <4>3, <4>5, <4>6
    <3> QED
      BY ONLY <1>5, <3>1, <3>2, <3>3, <3>4
  <2>6. BufHolds(WriteInteger(b, i, base, pad), t \o w)
    BY ONLY <1>7, <2>5
  <2> QED
    BY ONLY <1>4, <1>9, <2>6 DEF w
<1> QED
  <2>1. pad.size <= Len(num) \/ pad.size > Len(num)
    BY ONLY <1>5, <1>8
  <2> QED
    BY <1>11, <1>12, <2>1

\* The streams of the program.
LtStreams == [buf : StreamBufs, level : LtLevels \cup {"none"}, enabled : BOOLEAN, fits : {TRUE}]

\* They hold a text, and an entry is what it should be.
LtHolds(l, t, e) == l \in LtStreams /\ BufHolds(l.buf, t) /\ e.recorded = e.expected

\* The invariant: the buffer of the stream holds what was written since the last entry.
LtInv == LtHolds(lt, ltRef, ltEntry)

\* A vector that begins with a text and a zero gives the text back.
LEMMA FlushedTextIs ==
  ASSUME NEW b, NEW t, BufHolds(b, t)
  PROVE  FlushedText(b) = t /\ BufHolds(Flushed(b), <<>>) /\ (b.pptr = 0 => t = <<>>)
<1> DEFINE z == <<Nul>>
           u == t \o z
           y == Sputc(b, Nul)
           c == y.data.chars
           n == Len(t)
           s == SubSeq(c, 1, n)
<1>1. z \in Seq(Nat) /\ Len(z) = 1
  BY DEF Nul
<1>2. t \in Seq(Nat) /\ n \in Nat /\ b.pptr = n
  BY BufFacts
<1>3. BufHolds(y, u)
  <2>1. BufHolds(b, t) /\ z \in Seq(Nat)
    BY <1>1
  <2>2. y = Sputn(b, z)
    BY DEF Sputc
  <2> HIDE DEF y, z
  <2>3. BufHolds(Sputn(b, z), t \o z)
    BY ONLY <2>1, SputnHolds
  <2> QED
    BY ONLY <2>2, <2>3 DEF u
<1>4. Flushed(b) = ClearBuf(y)
  BY DEF Flushed
<1>5. FlushedText(b) = s
  BY <1>2 DEF FlushedText
<1> HIDE DEF z, y
<1>6. Len(u) = n + 1 /\ \A l \in 1..n : u[l] = t[l]
  <2>1. t \in Seq(Nat) /\ z \in Seq(Nat)
    BY <1>1, <1>2
  <2>2. Len(u) = Len(t) + Len(z) /\ \A l \in 1..Len(t) : u[l] = t[l]
    BY ONLY <2>1, JoinIs DEF u
  <2> QED
    BY ONLY <1>1, <2>2 DEF n
<1> HIDE DEF u
<1>7. c \in Seq(Nat) /\ Len(c) \in Nat /\ Begins(c, u)
  BY ONLY <1>3, BufFacts DEF c
<1>8. Len(u) <= Len(c) /\ \A l \in 1..Len(u) : c[l] = u[l]
  BY ONLY <1>7 DEF Begins
<1> HIDE DEF c
<1>9. n <= Len(c) /\ \A l \in 1..n : c[l] = t[l]
  <2>1. n \in Nat
    BY ONLY <1>2
  <2> HIDE DEF n
  <2>2. n <= Len(c) /\ \A l \in 1..n : l \in 1..Len(u)
    BY ONLY <1>6, <1>7, <1>8, <2>1
  <2> QED
    BY ONLY <1>6, <1>8, <2>2
<1>10. s = t
  <2>1. n \in Nat /\ n = Len(t) /\ t \in Seq(Nat)
    BY ONLY <1>2 DEF n
  <2> HIDE DEF n
  <2>2. s \in Seq(Nat) /\ Len(s) = n
    BY ONLY <1>7, <1>9, <2>1 DEF s
  <2>3. \A l \in 1..n : s[l] = c[l]
    BY ONLY <1>7, <1>9, <2>1 DEF s
  <2> HIDE DEF s
  <2>4. s \in Seq(Nat) /\ t \in Seq(Nat) /\ Len(s) = Len(t) /\ \A l \in 1..Len(s) : s[l] = t[l]
    BY ONLY <1>9, <2>1, <2>2, <2>3
  <2> QED
    BY ONLY <2>4, SameElements
<1>11. BufHolds(ClearBuf(y), <<>>)
  BY ONLY <1>3, ClearBufHolds
<1>12. b.pptr = 0 => t = <<>>
  <2>1. t \in Seq(Nat) /\ Len(t) = b.pptr
    BY ONLY <1>2 DEF n
  <2> QED
    BY ONLY <2>1
<1> HIDE DEF s
<1> QED
  BY ONLY <1>4, <1>5, <1>10, <1>11, <1>12

\* What an operator<< writes, or the level keeps out.
LEMMA StreamedHolds ==
  ASSUME LtInv, NEW b, NEW t, BufHolds(b, t), NEW f, f = TRUE, Streamed(b, t, f)
  PROVE  LtInv'
<1> DEFINE q == [lt EXCEPT !.buf = b, !.fits = @ /\ f]
<1>1. lt \in LtStreams /\ BufHolds(lt.buf, ltRef)
  BY DEF LtInv, LtHolds
<1>2. lt' = IF lt.enabled THEN q ELSE lt
  BY DEF Streamed
<1>3. ltRef' = IF lt.enabled THEN t ELSE ltRef
  BY DEF Streamed
<1>4. ltEntry'.recorded = ltEntry'.expected
  <2>1. ltEntry' = NoEntry
    BY DEF Streamed
  <2> QED
    BY ONLY <2>1 DEF NoEntry
<1>5. q = [lt EXCEPT !.buf = b, !.fits = lt.fits /\ f]
  OBVIOUS
<1> HIDE DEF q
<1>6. q \in LtStreams /\ q.buf = b
  <2>0. f = TRUE
    OBVIOUS
  <2>1. b \in StreamBufs
    BY DEF BufHolds
  <2>2. lt \in [buf : StreamBufs, level : LtLevels \cup {"none"}, enabled : BOOLEAN, fits : {TRUE}]
    BY ONLY <1>1 DEF LtStreams
  <2>3. (lt.fits /\ f) = TRUE
    BY ONLY <2>0, <2>2
  <2>4. q = [lt EXCEPT !.buf = b, !.fits = TRUE]
    BY ONLY <1>5, <2>3
  <2>5. q \in [buf : StreamBufs, level : LtLevels \cup {"none"}, enabled : BOOLEAN, fits : {TRUE}]
    BY ONLY <2>1, <2>2, <2>4
  <2>6. q.buf = b
    BY ONLY <2>2, <2>4
  <2> QED
    BY ONLY <2>5, <2>6 DEF LtStreams
<1>7. lt' \in LtStreams /\ BufHolds(lt'.buf, ltRef')
  <2>1. BufHolds(b, t)
    OBVIOUS
  <2>2. CASE lt.enabled
    BY ONLY <1>2, <1>3, <1>6, <2>1, <2>2
  <2>3. CASE ~lt.enabled
    BY ONLY <1>1, <1>2, <1>3, <2>3
  <2> QED
    BY ONLY <2>2, <2>3
<1> QED
  BY ONLY <1>4, <1>7 DEF LtInv, LtHolds

\* A stream with another buffer, at another level.
OnLevel(l, b, lvl) == [l EXCEPT !.buf = b, !.level = lvl, !.enabled = lvl \in LtEnabled]

\* It is a stream again.
LEMMA OnLevelIs ==
  ASSUME NEW l \in LtStreams, NEW b \in StreamBufs, NEW lvl \in LtLevels \cup {"none"}
  PROVE  OnLevel(l, b, lvl) \in LtStreams /\ OnLevel(l, b, lvl).buf = b
<1> DEFINE on == lvl \in LtEnabled
           L == LtLevels \cup {"none"}
           q == OnLevel(l, b, lvl)
<1>1. on \in BOOLEAN /\ lvl \in L /\ b \in StreamBufs
  OBVIOUS
<1>2. l \in [buf : StreamBufs, level : L, enabled : BOOLEAN, fits : {TRUE}]
  BY DEF LtStreams
<1>3. q = [l EXCEPT !.buf = b, !.level = lvl, !.enabled = on]
  BY DEF OnLevel
<1> HIDE DEF on, L, q
<1>4. q \in [buf : StreamBufs, level : L, enabled : BOOLEAN, fits : {TRUE}] /\ q.buf = b
  BY ONLY <1>1, <1>2, <1>3
<1> QED
  BY ONLY <1>4 DEF LtStreams, L, q

\* With its own buffer, it is the stream at another level.
LEMMA SameBuffer ==
  ASSUME NEW l \in LtStreams, NEW lvl
  PROVE  [l EXCEPT !.level = lvl, !.enabled = lvl \in LtEnabled] = OnLevel(l, l.buf, lvl)
<1> DEFINE on == lvl \in LtEnabled
<1>1. l \in [buf : StreamBufs, level : LtLevels \cup {"none"}, enabled : BOOLEAN, fits : {TRUE}]
  BY DEF LtStreams
<1> HIDE DEF on
<1>2. [l EXCEPT !.level = lvl, !.enabled = on] =
        [l EXCEPT !.buf = l.buf, !.level = lvl, !.enabled = on]
  BY ONLY <1>1
<1> QED
  BY ONLY <1>2 DEF OnLevel, on

\* An entry, and the stream at a level again.
LEMMA FlushHolds ==
  ASSUME LtInv, NEW lvl \in LtLevels \cup {"none"}, LtFlush(lvl)
  PROVE  LtInv'
<1> DEFINE q == [lt EXCEPT !.buf = Flushed(lt.buf), !.level = lvl, !.enabled = lvl \in LtEnabled]
<1>0. lvl \in LtLevels \cup {"none"}
  OBVIOUS
<1>1. lt \in LtStreams /\ BufHolds(lt.buf, ltRef)
  BY DEF LtInv, LtHolds
<1>2. FlushedText(lt.buf) = ltRef /\ BufHolds(Flushed(lt.buf), <<>>)
  BY ONLY <1>1, FlushedTextIs
<1>3. lt' = q
  BY DEF LtFlush
<1>4. ltRef' = <<>>
  BY DEF LtFlush
<1>5. ltEntry'.recorded = ltEntry'.expected
  <2>1. ltEntry' = [recorded |-> <<lt.level, FlushedText(lt.buf)>>,
                    expected |-> <<lt.level, ltRef>>]
    BY DEF LtFlush
  <2> QED
    BY ONLY <1>2, <2>1
<1> DEFINE b == Flushed(lt.buf)
<1> HIDE DEF b
<1>6. q = OnLevel(lt, b, lvl)
  BY DEF b, OnLevel
<1>7. BufHolds(b, <<>>)
  BY <1>2 DEF b
<1> HIDE DEF q
<1>8. q \in LtStreams /\ q.buf = b
  <2>1. b \in StreamBufs
    BY <1>7 DEF BufHolds
  <2>2. lt \in LtStreams /\ b \in StreamBufs /\ lvl \in LtLevels \cup {"none"}
    BY ONLY <1>0, <1>1, <2>1
  <2> QED
    BY ONLY <1>6, <2>2, OnLevelIs
<1> QED
  BY ONLY <1>3, <1>4, <1>5, <1>7, <1>8 DEF LtInv, LtHolds

\* Nothing is written before the first stream.
LEMMA LtInvInit == LtInit => LtInv
<1> SUFFICES ASSUME LtInit PROVE LtInv
  OBVIOUS
<1> DEFINE b == StreamBuf
<1>1. BufHolds(b, <<>>)
  BY StreamBufHolds
<1>2. lt = [buf |-> b, level |-> "none", enabled |-> FALSE, fits |-> TRUE]
  BY DEF LtInit
<1>3. ltRef = <<>> /\ ltEntry = NoEntry
  BY DEF LtInit
<1> HIDE DEF b
<1>4. b \in StreamBufs
  BY <1>1 DEF BufHolds
<1>5. lt \in LtStreams /\ lt.buf = b
  BY ONLY <1>2, <1>4 DEF LtStreams
<1>6. ltEntry.recorded = ltEntry.expected
  BY ONLY <1>3 DEF NoEntry
<1> QED
  BY ONLY <1>1, <1>3, <1>5, <1>6 DEF LtInv, LtHolds

\* Letters are characters.
LEMMA LettersAre == \A n \in Nat : Letters(n) \in Seq(Nat)
<1> SUFFICES ASSUME NEW n \in Nat PROVE Letters(n) \in Seq(Nat)
  OBVIOUS
<1>1. \A l \in 1..n : Letter + l \in Nat
  BY DEF Letter
<1>2. Letters(n) = [l \in 1..n |-> Letter + l]
  BY DEF Letters
<1> HIDE DEF Letters
<1>3. Letters(n) \in [1..n -> Nat]
  BY ONLY <1>1, <1>2
<1> QED
  BY ONLY <1>3, n \in Nat

\* A text that printf-style calls do not lose the end of is the text.
LEMMA PrintfTextIs ==
  ASSUME NEW n \in Nat, n # PrintfBuffer
  PROVE  PrintfText(n) = Letters(n)
<1>1. PrintfBuffer \in Nat
  BY LtConstants
<1>2. CASE n > PrintfBuffer
  <2>1. ~(n <= PrintfBuffer)
    BY <1>1, <1>2
  <2> QED
    BY <2>1 DEF PrintfText
<1>3. CASE n < PrintfBuffer
  <2>1. n <= PrintfBuffer /\ \A l \in 1..n : l < PrintfBuffer
    BY ONLY <1>1, <1>3, n \in Nat
  <2>2. PrintfText(n) = [l \in 1..n |-> IF l < PrintfBuffer THEN Letters(n)[l] ELSE Nul]
    BY <2>1 DEF PrintfText
  <2>3. PrintfText(n) = [l \in 1..n |-> Letters(n)[l]]
    BY ONLY <2>1, <2>2
  <2>4. Letters(n) = [l \in 1..n |-> Letters(n)[l]]
    <3>1. Letters(n) = [l \in 1..n |-> Letter + l]
      BY DEF Letters
    <3> HIDE DEF Letters
    <3> QED
      BY ONLY <3>1
  <2> QED
    BY ONLY <2>3, <2>4
<1> QED
  BY ONLY <1>1, <1>2, <1>3, n \in Nat, n # PrintfBuffer

\* Every call keeps the invariant, where no edge case is met.
LEMMA LtInvNext ==
  ASSUME LtEdges = {}
  PROVE  LtInv /\ [LtNext]_ltVars => LtInv'
<1> SUFFICES ASSUME LtInv, [LtNext]_ltVars PROVE LtInv'
  OBVIOUS
<1> DEFINE b == lt.buf
           t == ltRef
<1>1. lt \in LtStreams /\ BufHolds(b, t)
  BY DEF LtInv, LtHolds
<1>2. t \in Seq(Nat) /\ Len(t) \in Nat
  BY ONLY <1>1, BufFacts
<1>3. ltEntry.recorded = ltEntry.expected
  BY DEF LtInv, LtHolds
<1>4. NoEntry.recorded = NoEntry.expected
  BY DEF NoEntry
<1>5. LtInv /\ TRUE = TRUE
  OBVIOUS
<1> HIDE DEF b, t
<1>6. b = lt.buf /\ t = ltRef
  BY DEF b, t
<1>7. ASSUME NEW lvl \in LtLevels, LtOpen(lvl) PROVE LtInv'
  <2> DEFINE q == [lt EXCEPT !.level = lvl, !.enabled = lvl \in LtEnabled]
  <2>1. lt' = q
    BY <1>7 DEF LtOpen
  <2>2. ltEntry' = NoEntry /\ ltRef' = ltRef
    BY <1>7 DEF LtOpen
  <2>3. lt \in LtStreams /\ lt.buf \in StreamBufs /\ lvl \in LtLevels \cup {"none"}
    BY <1>1 DEF LtStreams
  <2>4. q = OnLevel(lt, lt.buf, lvl)
    BY ONLY <2>3, SameBuffer DEF q
  <2> HIDE DEF q
  <2>5. q \in LtStreams /\ q.buf = lt.buf
    BY ONLY <2>3, <2>4, OnLevelIs
  <2> QED
    BY ONLY <1>1, <1>4, <1>6, <2>1, <2>2, <2>5 DEF LtInv, LtHolds
<1>8. ASSUME NEW n \in 0..LtMaxText, LtString(n) PROVE LtInv'
  <2> DEFINE x == Letters(n)
  <2>1. n \in Nat
    BY LtAssumption
  <2>2. x \in Seq(Nat)
    BY ONLY <2>1, LettersAre
  <2>3. Streamed(Sputn(lt.buf, x), ltRef \o x, TRUE)
    BY <1>8 DEF LtString
  <2> HIDE DEF x
  <2>4. BufHolds(lt.buf, ltRef)
    BY ONLY <1>1, <1>6
  <2>5. BufHolds(Sputn(lt.buf, x), ltRef \o x)
    BY ONLY <2>2, <2>4, SputnHolds
  <2> QED
    BY ONLY <1>5, <2>3, <2>5, StreamedHolds
<1>9. ASSUME LtChar PROVE LtInv'
  <2> DEFINE x == <<Letter>>
  <2>1. x \in Seq(Nat)
    BY DEF Letter
  <2>2. Streamed(Sputc(lt.buf, Letter), Append(ltRef, Letter), TRUE)
    BY <1>9 DEF LtChar
  <2>3. Append(ltRef, Letter) = ltRef \o x
    <3>1. ltRef \in Seq(Nat) /\ Letter \in Nat
      BY <1>2, <1>6 DEF Letter
    <3> QED
      BY ONLY <3>1 DEF x
  <2>4. Sputc(lt.buf, Letter) = Sputn(lt.buf, x)
    BY DEF Sputc
  <2> HIDE DEF x
  <2>5. BufHolds(lt.buf, ltRef)
    BY ONLY <1>1, <1>6
  <2>6. BufHolds(Sputn(lt.buf, x), ltRef \o x)
    BY ONLY <2>1, <2>5, SputnHolds
  <2>7. Streamed(Sputn(lt.buf, x), ltRef \o x, TRUE)
    BY ONLY <2>2, <2>3, <2>4
  <2> QED
    BY ONLY <1>5, <2>6, <2>7, StreamedHolds
<1>10. ASSUME NEW i \in Integer, NEW base \in LtBases, NEW pad \in LtPads,
              LtInteger(i, base, pad)
       PROVE  LtInv'
  <2> DEFINE c == WriteInteger(lt.buf, i, base, pad)
             u == ltRef \o Written(i, base, pad)
             f == Len(DigitsOf(i, base)) <= LtBits
  <2>1. Streamed(c, u, f)
    BY <1>10 DEF LtInteger
  <2>2. ~(i = -Power(2, LtBits - 1) /\ base = 2)
    <3>1. i = -Power(2, LtBits - 1) /\ base = 2 => "smallest integer in base 2" \in LtEdges
      BY <1>10 DEF LtInteger
    <3>2. LtEdges = {}
      OBVIOUS
    <3> QED
      BY ONLY <3>1, <3>2
  <2>3. BufHolds(lt.buf, ltRef)
    BY ONLY <1>1, <1>6
  <2>4. /\ BufHolds(WriteInteger(lt.buf, i, base, pad), ltRef \o Written(i, base, pad))
        /\ ~(i = -Power(2, LtBits - 1) /\ base = 2) => Len(DigitsOf(i, base)) <= LtBits
    BY ONLY <2>3, i \in Integer, base \in LtBases, pad \in LtPads, WriteIntegerHolds
  <2>5. BufHolds(c, u) /\ f
    BY ONLY <2>2, <2>4 DEF c, u, f
  <2> HIDE DEF c, u, f
  <2>6. Streamed(c, u, TRUE)
    <3>1. f = TRUE
      BY ONLY <2>5
    <3> QED
      BY ONLY <2>1, <3>1
  <2> QED
    BY ONLY <1>5, <2>5, <2>6, StreamedHolds
<1>11. ASSUME NEW pos \in 0..LtMaxText, LtSeek(pos) PROVE LtInv'
  <2> DEFINE c == Seek(lt.buf, pos)
             u == SubSeq(ltRef, 1, pos)
  <2>1. Streamed(c, u, TRUE)
    BY <1>11 DEF LtSeek
  <2>2. pos \in Nat /\ pos <= Len(ltRef)
    BY <1>11, LtAssumption DEF LtSeek
  <2>3. BufHolds(lt.buf, ltRef)
    BY ONLY <1>1, <1>6
  <2>4. BufHolds(Seek(lt.buf, pos), SubSeq(ltRef, 1, pos))
    BY ONLY <2>2, <2>3, SeekHolds
  <2>5. BufHolds(c, u)
    BY ONLY <2>4 DEF c, u
  <2> HIDE DEF c, u
  <2> QED
    BY ONLY <1>5, <2>1, <2>5, StreamedHolds
<1>12. ASSUME NEW lvl \in LtLevels \cup {"none"}, LtLevel(lvl) PROVE LtInv'
  <2>1. CASE lt.buf.pptr # 0
    <3>1. LtFlush(lvl)
      BY <1>12, <2>1 DEF LtLevel
    <3> QED
      BY ONLY <1>5, <3>1, lvl \in LtLevels \cup {"none"}, FlushHolds
  <2>2. CASE lt.buf.pptr = 0
    <3> DEFINE q == [lt EXCEPT !.level = lvl, !.enabled = lvl \in LtEnabled]
    <3>1. lt' = q
      BY <1>12, <2>2 DEF LtLevel
    <3>2. ltRef' = ltRef
      BY <1>12, <2>2 DEF LtLevel
    <3>3. ltEntry' = [recorded |-> <<>>,
                      expected |-> IF ltRef = <<>> THEN <<>> ELSE <<lt.level, ltRef>>]
      BY <1>12, <2>2 DEF LtLevel
    <3>4. BufHolds(lt.buf, ltRef)
      BY ONLY <1>1, <1>6
    <3>5. ltRef = <<>>
      BY ONLY <2>2, <3>4, FlushedTextIs
    <3>6. ltEntry'.recorded = ltEntry'.expected
      BY ONLY <3>3, <3>5
    <3>7. lt \in LtStreams /\ lt.buf \in StreamBufs /\ lvl \in LtLevels \cup {"none"}
      BY <1>1 DEF LtStreams
    <3>8. q = OnLevel(lt, lt.buf, lvl)
      BY ONLY <3>7, SameBuffer DEF q
    <3> HIDE DEF q
    <3>9. q \in LtStreams /\ q.buf = lt.buf
      BY ONLY <3>7, <3>8, OnLevelIs
    <3> QED
      BY ONLY <3>1, <3>2, <3>4, <3>6, <3>9 DEF LtInv, LtHolds
  <2> QED
    BY ONLY <2>1, <2>2
<1>13. ASSUME LtEndl PROVE LtInv'
  <2>1. LtFlush(lt.level)
    BY <1>13 DEF LtEndl
  <2>2. lt.level \in LtLevels \cup {"none"}
    BY ONLY <1>1 DEF LtStreams
  <2> QED
    BY ONLY <1>5, <2>1, <2>2, FlushHolds
<1>14. ASSUME NEW lvl \in LtLevels, NEW n \in 0..LtMaxText, LtPrintf(lvl, n) PROVE LtInv'
  <2>1. n \in Nat
    BY LtAssumption
  <2>2. n # PrintfBuffer
    <3>1. n = PrintfBuffer => "full printf buffer" \in LtEdges
      BY <1>14 DEF LtPrintf
    <3>2. LtEdges = {}
      OBVIOUS
    <3> QED
      BY ONLY <3>1, <3>2
  <2>3. PrintfText(n) = Letters(n)
    BY ONLY <2>1, <2>2, PrintfTextIs
  <2>4. lt' = lt /\ ltRef' = ltRef
    BY <1>14 DEF LtPrintf
  <2>5. ltEntry' = IF lvl \in LtEnabled
                   THEN [recorded |-> <<lvl, PrintfText(n)>>, expected |-> <<lvl, Letters(n)>>]
                   ELSE NoEntry
    BY <1>14 DEF LtPrintf
  <2>6. ltEntry'.recorded = ltEntry'.expected
    BY ONLY <1>4, <2>3, <2>5
  <2> QED
    BY ONLY <1>1, <1>6, <2>4, <2>6 DEF LtInv, LtHolds
<1>15. CASE UNCHANGED ltVars
  <2>1. lt' = lt /\ ltRef' = ltRef /\ ltEntry' = ltEntry
    BY <1>15 DEF ltVars
  <2> QED
    BY ONLY <1>1, <1>3, <1>6, <2>1 DEF LtInv, LtHolds
<1>16. LtNext \/ UNCHANGED ltVars
  OBVIOUS
<1> QED
  BY ONLY <1>7, <1>8, <1>9, <1>10, <1>11, <1>12, <1>13, <1>14, <1>15, <1>16 DEF LtNext

\* What is streamed into a log statement is what the sinks get.
LEMMA LtInvTextArrives == LtInv => TextArrives
<1> SUFFICES ASSUME LtInv PROVE TextArrives
  OBVIOUS
<1>1. lt \in LtStreams /\ BufHolds(lt.buf, ltRef) /\ ltEntry.recorded = ltEntry.expected
  BY DEF LtInv, LtHolds
<1>2. lt.fits = TRUE
  BY ONLY <1>1 DEF LtStreams
<1>3. Text(lt.buf) = ltRef
  BY ONLY <1>1, TextIs
<1>4. lt.buf.sound = TRUE /\ lt.buf.base = Data(lt.buf.data)
  BY ONLY <1>1, BufFacts
<1>5. lt.buf.epptr = Len(lt.buf.data.chars) /\ lt.buf.pptr <= lt.buf.epptr
  BY ONLY <1>1, BufFacts
<1>6. Len(lt.buf.data.chars) \in Nat
  BY ONLY <1>1, BufFacts
<1>7. lt.buf.epptr <= Len(lt.buf.data.chars)
  BY ONLY <1>5, <1>6
<1> QED
  BY ONLY <1>1, <1>2, <1>3, <1>4, <1>5, <1>7 DEF TextArrives, DigitsFit

\* What a program streams into a log statement or formats is what the sinks get, at
\* the level of the statement, and the stream stays within its vector: whatever is
\* written, formatted, gone back over or flushed, in whatever order, where the two
\* edge cases do not occur in which the program itself falls short (LtEdges).
THEOREM TextAlwaysArrives ==
  ASSUME LtEdges = {}
  PROVE  LtSpec => []TextArrives
<1>1. LtInit => LtInv
  BY LtInvInit
<1>2. LtInv /\ [LtNext]_ltVars => LtInv'
  BY LtInvNext
<1>3. LtInv => TextArrives
  BY LtInvTextArrives
<1> QED
  BY <1>1, <1>2, <1>3, PTL DEF LtSpec

=============================================================================
