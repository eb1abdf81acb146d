----------------------------- MODULE AsyncLogging -----------------------------
(***************************************************************************)
(* ac::jalog::AsyncLogging and the AsyncLoggingThread that serves it.      *)
(*                                                                         *)
(* Any thread turns its call into a task and pushes it under m_tasksMutex; *)
(* the notification of the condition variable comes after the unlock, so   *)
(* it is a step of its own.  The serving thread swaps the task queue with  *)
(* an empty one under the same mutex and executes the tasks outside it.    *)
(* The text of an entry is copied to a buffer that is swapped together     *)
(* with the queue, and the entry keeps its index there (one element of the *)
(* buffer is the whole text of an entry here).                             *)
(*                                                                         *)
(* The destructor of AsyncLoggingThread stops the thread; the other        *)
(* threads may go on logging, for the Logger still has the sink.           *)
(***************************************************************************)
EXTENDS Naturals, Sequences, FiniteSets

CONSTANTS
  Users,      \* the threads that log
  Sinks,      \* the sinks that can be added and removed
  None,       \* nobody waits for this synchronization
  MaxTasks    \* bound: how many tasks the users push in all

ASSUME LoggingAssumption == None \notin Users /\ MaxTasks \in Nat

VARIABLES
  queue,        \* m_taskQueue
  text,         \* m_textBuffer
  executing,    \* m_executingTasks
  executed,     \* how many of them the loop of executeTasks has done
  loggingText,  \* m_loggingTextBuffer
  sinks,        \* m_sinks
  running,      \* m_running
  worker,       \* where the serving thread is
  user,         \* per user: "idle", "pushed", "flushPushed" or "flushing"
  owner,        \* where ~AsyncLoggingThread is
  received,     \* history: the texts each sink was given
  promise,      \* the promise of the user's last flush is set
  pushed,       \* bound: tasks pushed by users
  logged,       \* history: entries pushed; the n-th one has the text n
  mustSee       \* history: entries pushed before the user's flush, and before
                \* the destructor (at None)

vars == <<queue, text, executing, executed, loggingText, sinks, running, worker,
          user, owner, received, promise, pushed, logged, mustSee>>

bufVars == <<queue, text, executing, executed, loggingText>>
sinkVars == <<sinks, received>>
userVars == <<user, promise, pushed, logged, mustSee>>

Init ==
  /\ queue = <<>> /\ text = <<>>
  /\ executing = <<>> /\ executed = 0 /\ loggingText = <<>>
  /\ sinks = <<>> /\ running = TRUE
  /\ worker = "loop" /\ owner = "up"
  /\ user = [u \in Users |-> "idle"]
  /\ received = [s \in Sinks |-> <<>>]
  /\ promise = [u \in Users |-> FALSE]
  /\ pushed = 0 /\ logged = 0
  /\ mustSee = [u \in Users \cup {None} |-> 0]

-----------------------------------------------------------------------------
\* Faulty variant of PushEntry: the index is taken after the text was added.
PushEntryLate ==
  /\ logged' = logged + 1
  /\ text' = Append(text, logged + 1)
  /\ queue' = Append(queue, [kind |-> "log", ibegin |-> Len(text')])

\* pushTaskL, for an entry: its text goes to the buffer, its index to the task.
PushEntry ==
  /\ logged' = logged + 1
  /\ text' = Append(text, logged + 1)
  /\ queue' = Append(queue, [kind |-> "log", ibegin |-> Len(text)])

PushTask(task) == queue' = Append(queue, task) /\ UNCHANGED <<text, logged>>

\* The critical section of pushTask, for record, add and remove.
Push(u) ==
  /\ user[u] = "idle" /\ pushed < MaxTasks
  /\ \/ PushEntry
     \/ \E s \in Sinks, k \in {"add", "remove"} : PushTask([kind |-> k, sink |-> s])
  /\ user' = [user EXCEPT ![u] = "pushed"]
  /\ pushed' = pushed + 1
  /\ UNCHANGED <<executing, executed, loggingText, sinks, running, worker, owner,
                 received, promise, mustSee>>

\* Faulty variant of FlushPush: the synchronization goes to the head of the line.
FlushPushFirst(u) ==
  /\ user[u] = "idle" /\ pushed < MaxTasks
  /\ queue' = <<[kind |-> "sync", by |-> u]>> \o queue
  /\ user' = [user EXCEPT ![u] = "flushPushed"]
  /\ promise' = [promise EXCEPT ![u] = FALSE]
  /\ pushed' = pushed + 1
  /\ mustSee' = [mustSee EXCEPT ![u] = logged]
  /\ UNCHANGED <<text, logged, executing, executed, loggingText, sinks, running, worker,
                 owner, received>>

\* flush: a promise of its own, set when the synchronization is executed.
FlushPush(u) ==
  /\ user[u] = "idle" /\ pushed < MaxTasks
  /\ PushTask([kind |-> "sync", by |-> u])
  /\ user' = [user EXCEPT ![u] = "flushPushed"]
  /\ promise' = [promise EXCEPT ![u] = FALSE]
  /\ pushed' = pushed + 1
  /\ mustSee' = [mustSee EXCEPT ![u] = logged]
  /\ UNCHANGED <<executing, executed, loggingText, sinks, running, worker, owner, received>>

\* m_tasksCv.notify_one: only the serving thread ever waits.
WakeWorker == worker' = IF worker = "asleep" THEN "update" ELSE worker

\* Faulty variant of NotifyCv: nobody is notified.
NotifyNobody(u) ==
  /\ user[u] \in {"pushed", "flushPushed"}
  /\ user' = [user EXCEPT ![u] = IF @ = "pushed" THEN "idle" ELSE "flushing"]
  /\ UNCHANGED <<bufVars, sinkVars, running, worker, owner, promise, pushed, logged, mustSee>>

NotifyCv(u) ==
  /\ user[u] \in {"pushed", "flushPushed"}
  /\ WakeWorker
  /\ user' = [user EXCEPT ![u] = IF @ = "pushed" THEN "idle" ELSE "flushing"]
  /\ UNCHANGED <<bufVars, sinkVars, running, owner, promise, pushed, logged, mustSee>>

FlushReturn(u) ==
  /\ user[u] = "flushing" /\ promise[u]
  /\ user' = [user EXCEPT ![u] = "idle"]
  /\ UNCHANGED <<bufVars, sinkVars, running, worker, owner, promise, pushed, logged, mustSee>>

-----------------------------------------------------------------------------
\* Faulty variant of LoopTest: the thread ends without a last look.
LoopJustEnds ==
  /\ worker = "loop"
  /\ worker' = IF running THEN "update" ELSE "exited"
  /\ running' = TRUE
  /\ UNCHANGED <<bufVars, sinkVars, userVars, owner>>

\* The loop condition of the thread: m_running.test_and_set.
LoopTest ==
  /\ worker = "loop"
  /\ worker' = IF running THEN "update" ELSE "finalize"
  /\ running' = TRUE
  /\ UNCHANGED <<bufVars, sinkVars, userVars, owner>>

SwapBuffers ==
  /\ queue' = executing /\ executing' = queue
  /\ text' = loggingText /\ loggingText' = text

\* update: the wait for a task, with the mutex held from the test of the
\* predicate to the sleep or to the swap.
Sleep ==
  /\ worker = "update" /\ queue = <<>>
  /\ worker' = "asleep"
  /\ UNCHANGED <<bufVars, sinkVars, userVars, running, owner>>

SpuriousWakeup ==
  /\ worker = "asleep"
  /\ worker' = "update"
  /\ UNCHANGED <<bufVars, sinkVars, userVars, running, owner>>

Update ==
  /\ worker = "update" /\ queue # <<>>
  /\ SwapBuffers
  /\ worker' = "executing"
  /\ UNCHANGED <<executed, sinkVars, userVars, running, owner>>

\* finalize: no wait.
Finalize ==
  /\ worker = "finalize"
  /\ SwapBuffers
  /\ worker' = "lastBatch"
  /\ UNCHANGED <<executed, sinkVars, userVars, running, owner>>

\* The text found at index i of a buffer, 0 for what lies behind its end.
TextAt(buffer, i) == IF i < Len(buffer) THEN buffer[i + 1] ELSE 0

\* Each sink is given the entry once for each time it is in m_sinks.
Record(txt) ==
  /\ received' = [s \in Sinks |-> received[s] \o
                   [i \in 1..Cardinality({j \in DOMAIN sinks : sinks[j] = s}) |-> txt]]
  /\ UNCHANGED <<sinks, promise>>

\* One turn of the loop of executeTasks.
ExecuteTask ==
  /\ worker \in {"executing", "lastBatch"} /\ executed < Len(executing)
  /\ executed' = executed + 1
  /\ LET t == executing[executed + 1] IN
     \/ t.kind = "log" /\ Record(TextAt(loggingText, t.ibegin))
     \/ t.kind = "add" /\ sinks' = Append(sinks, t.sink) /\ UNCHANGED <<received, promise>>
     \/ /\ t.kind = "remove"
        /\ sinks' = SelectSeq(sinks, LAMBDA s : s # t.sink)
        /\ UNCHANGED <<received, promise>>
     \/ /\ t.kind = "sync"
        /\ promise' = [u \in Users |-> promise[u] \/ u = t.by]
        /\ UNCHANGED <<received, sinks>>
  /\ UNCHANGED <<queue, text, executing, loggingText, running, worker, user, owner,
                 pushed, logged, mustSee>>

\* The end of executeTasks.
ClearExecuted ==
  /\ worker \in {"executing", "lastBatch"} /\ executed = Len(executing)
  /\ executing' = <<>> /\ executed' = 0 /\ loggingText' = <<>>
  /\ worker' = IF worker = "executing" THEN "loop" ELSE "exited"
  /\ UNCHANGED <<queue, text, sinkVars, userVars, running, owner>>

Worker ==
  LoopTest \/ Sleep \/ Update \/ Finalize \/ ExecuteTask \/ ClearExecuted

-----------------------------------------------------------------------------
\* ~AsyncLoggingThread::Impl: clear the flag, wakeUp, join.
ClearRunning ==
  /\ owner = "up"
  /\ running' = FALSE
  /\ owner' = "cleared"
  /\ mustSee' = [mustSee EXCEPT ![None] = logged]
  /\ UNCHANGED <<bufVars, sinkVars, worker, user, promise, pushed, logged>>

\* Faulty variant of WakeUpPush: the notification alone, with nothing pushed.
WakeUpWithoutTask ==
  /\ owner = "cleared"
  /\ WakeWorker
  /\ owner' = "join"
  /\ UNCHANGED <<bufVars, sinkVars, userVars, running>>

WakeUpPush ==
  /\ owner = "cleared"
  /\ PushTask([kind |-> "sync", by |-> None])
  /\ owner' = "pushed"
  /\ UNCHANGED <<executing, executed, loggingText, sinkVars, running, worker, user,
                 promise, pushed, mustSee>>

WakeUpNotify ==
  /\ owner = "pushed"
  /\ WakeWorker
  /\ owner' = "join"
  /\ UNCHANGED <<bufVars, sinkVars, userVars, running>>

Join ==
  /\ owner = "join" /\ worker = "exited"
  /\ owner' = "gone"
  /\ UNCHANGED <<bufVars, sinkVars, userVars, running, worker>>

Next ==
  \/ \E u \in Users : Push(u) \/ FlushPush(u) \/ NotifyCv(u) \/ FlushReturn(u)
  \/ Worker \/ SpuriousWakeup
  \/ ClearRunning \/ WakeUpPush \/ WakeUpNotify \/ Join

Spec == Init /\ [][Next]_vars

\* The threads run; calls that were begun go on, and nobody has to make one.
FairSpec ==
  /\ Spec
  /\ WF_vars(Worker)
  /\ \A u \in Users : WF_vars(NotifyCv(u)) /\ WF_vars(FlushReturn(u))
  /\ WF_vars(WakeUpPush) /\ WF_vars(WakeUpNotify) /\ WF_vars(Join)

-----------------------------------------------------------------------------
Task == [kind : {"log"}, ibegin : Nat] \cup [kind : {"add", "remove"}, sink : Sinks]
        \cup [kind : {"sync"}, by : Users \cup {None}]

TypeOK ==
  /\ queue \in Seq(Task) /\ text \in Seq(Nat)
  /\ executing \in Seq(Task) /\ loggingText \in Seq(Nat)
  /\ executed \in 0..Len(executing)
  /\ sinks \in Seq(Sinks) /\ running \in BOOLEAN
  /\ worker \in {"loop", "update", "asleep", "executing", "finalize", "lastBatch", "exited"}
  /\ user \in [Users -> {"idle", "pushed", "flushPushed", "flushing"}]
  /\ owner \in {"up", "cleared", "pushed", "join", "gone"}
  /\ received \in [Sinks -> Seq(Nat)]
  /\ promise \in [Users -> BOOLEAN]
  /\ pushed \in Nat /\ logged \in Nat
  /\ mustSee \in [Users \cup {None} -> Nat]

\* The tasks of a queue with the texts their entries will be given.
Rebuilt(tasks, buffer) ==
  [i \in DOMAIN tasks |-> IF tasks[i].kind = "log"
                          THEN [kind |-> "log", text |-> TextAt(buffer, tasks[i].ibegin)]
                          ELSE tasks[i]]

Pending ==
  Rebuilt(SubSeq(executing, executed + 1, Len(executing)), loggingText) \o Rebuilt(queue, text)

Recorded(n) ==
  \A i \in DOMAIN Pending : Pending[i].kind = "log" => Pending[i].text > n

\* A flush that returned means that every entry pushed before it, by any thread,
\* has been given to the sinks.
FlushMeansRecorded ==
  \A u \in Users : promise[u] => Recorded(mustSee[u])

\* Every entry pushed before the destructor of AsyncLoggingThread began has been
\* given to the sinks when it returns: the last batch is not lost.
NothingLostAtExit == owner = "gone" => Recorded(mustSee[None])

\* A flush returns, unless the thread is being stopped; and it can be stopped.
FlushReturns ==
  \A u \in Users : user[u] # "idle" ~> (user[u] = "idle" \/ owner # "up")
DestructorReturns == owner # "up" ~> owner = "gone"

\* The two buffers and their indices are one line of tasks, applied in order,
\* each entry with its own text.
SyncLog == INSTANCE SyncLog WITH pending <- Pending
ImplementsSyncLog == SyncLog!SyncLogSpec
=============================================================================
