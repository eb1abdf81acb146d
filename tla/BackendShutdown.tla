--------------------------- MODULE BackendShutdown ---------------------------
(***************************************************************************)
(* DefaultBackend from its construction to the end of its destructor: the  *)
(* worker strands, the gc coroutine on each, its timer_wobj, and the       *)
(* threads that run them.                                                  *)
(*                                                                         *)
(* The gc coroutine waits ten seconds at a time and collects whenever a    *)
(* wait ends by its timeout; a wait that is cancelled ends the coroutine.  *)
(* ~Backend posts one cancellation to each strand.  Then the execution     *)
(* contexts go, last member first: each drops its work guard and joins its *)
(* thread, which leaves context::run when nothing is left to run or to     *)
(* wait for.                                                               *)
(***************************************************************************)
EXTENDS Naturals, Sequences

CONSTANTS
  Strands      \* the worker strands in the order ~Backend notifies them

ASSUME StrandsAssumption == Strands \in Seq(STRING) /\ Strands # <<>>

VARIABLES
  gc,          \* per strand: "spawned", "waiting" or "done"
  timer,       \* "idle", "armed", or how the wait ended: "cancelled", "expired"
  cancels,     \* posted cancel_one handlers that have not run
  guard,       \* the context_work_guard is held
  thread,      \* the thread of the context: "running" or "exited"
  owned,       \* Backend still owns the strand's state
  main,        \* the destructor: <<phase, how many strands it has handled>>
  lost         \* history: a cancellation ran while nothing was waiting

vars == <<gc, timer, cancels, guard, thread, owned, main, lost>>

N == Len(Strands)
Ids == 1..N

Init ==
  /\ gc = [s \in Ids |-> "spawned"]
  /\ timer = [s \in Ids |-> "idle"]
  /\ cancels = [s \in Ids |-> 0]
  /\ guard = [s \in Ids |-> TRUE]
  /\ thread = [s \in Ids |-> "running"]
  /\ owned = [s \in Ids |-> TRUE]
  /\ main = <<"alive", 0>>
  /\ lost = [s \in Ids |-> FALSE]

-----------------------------------------------------------------------------
Set(f, s, x) == [f EXCEPT ![s] = x]

\* The handler posted by co_spawn: the coroutine runs to its first wait.
StartGc(s) ==
  /\ thread[s] = "running" /\ gc[s] = "spawned"
  /\ gc' = Set(gc, s, "waiting") /\ timer' = Set(timer, s, "armed")
  /\ UNCHANGED <<cancels, guard, thread, owned, main, lost>>

\* Ten seconds are over.  The wait is over too, but its handler has yet to run.
TimerExpires(s) ==
  /\ timer[s] = "armed"
  /\ timer' = Set(timer, s, "expired")
  /\ UNCHANGED <<gc, cancels, guard, thread, owned, main, lost>>

\* The handler posted by notify_one.  The strand runs what is posted to it in
\* order, so it comes after the coroutine has started.
RunCancel(s) ==
  /\ thread[s] = "running" /\ cancels[s] > 0 /\ gc[s] # "spawned"
  /\ cancels' = Set(cancels, s, cancels[s] - 1)
  /\ timer' = Set(timer, s, IF timer[s] = "armed" THEN "cancelled" ELSE timer[s])
  /\ lost' = Set(lost, s, lost[s] \/ timer[s] # "armed")
  /\ UNCHANGED <<gc, guard, thread, owned, main>>

\* Faulty variant of GcLoop: the result of the wait is read the wrong way round.
GcLoopInverted(s) ==
  /\ thread[s] = "running" /\ gc[s] = "waiting"
  /\ timer[s] \in {"cancelled", "expired"}
  /\ IF timer[s] = "expired"
     THEN gc' = Set(gc, s, "done") /\ timer' = Set(timer, s, "idle")
     ELSE UNCHANGED gc /\ timer' = Set(timer, s, "armed")
  /\ UNCHANGED <<cancels, guard, thread, owned, main, lost>>

\* The wait's handler resumes the coroutine: the end, or a collection and the
\* next wait.
GcLoop(s) ==
  /\ thread[s] = "running" /\ gc[s] = "waiting"
  /\ timer[s] \in {"cancelled", "expired"}
  /\ IF timer[s] = "cancelled"
     THEN gc' = Set(gc, s, "done") /\ timer' = Set(timer, s, "idle")
     ELSE UNCHANGED gc /\ timer' = Set(timer, s, "armed")
  /\ UNCHANGED <<cancels, guard, thread, owned, main, lost>>

\* context::run returns: no guard, no handler to run, nothing to wait for.
ThreadExits(s) ==
  /\ thread[s] = "running" /\ ~guard[s]
  /\ gc[s] = "done" /\ cancels[s] = 0 /\ timer[s] = "idle"
  /\ thread' = Set(thread, s, "exited")
  /\ UNCHANGED <<gc, timer, cancels, guard, owned, main, lost>>

\* Faulty variant of Notify: notified once more than there are waits.
NotifyTwice ==
  \E s \in Ids :
    /\ main = IF s = 1 THEN <<"alive", 0>> ELSE <<"notify", s - 1>>
    /\ cancels' = Set(cancels, s, cancels[s] + 2)
    /\ main' = <<"notify", s>>
    /\ UNCHANGED <<gc, timer, guard, thread, owned, lost>>

\* ~Backend, one strand after the other.
Notify ==
  \E s \in Ids :
    /\ main = IF s = 1 THEN <<"alive", 0>> ELSE <<"notify", s - 1>>
    /\ cancels' = Set(cancels, s, cancels[s] + 1)
    /\ main' = <<"notify", s>>
    /\ UNCHANGED <<gc, timer, guard, thread, owned, lost>>

\* The members of Backend are destroyed: its references to the strand states go.
DropMembers ==
  /\ main = <<"notify", N>>
  /\ owned' = [s \in Ids |-> FALSE]
  /\ main' = <<"join", N>>
  /\ UNCHANGED <<gc, timer, cancels, guard, thread, lost>>

\* ~XctxHelper of the next context, in reverse order: the guard is reset, ...
ResetGuard ==
  \E s \in Ids :
    /\ main = <<"join", s>> /\ guard[s]
    /\ guard' = Set(guard, s, FALSE)
    /\ UNCHANGED <<gc, timer, cancels, thread, owned, main, lost>>

\* ... and then the member thread_runner joins its thread.
Join ==
  \E s \in Ids :
    /\ main = <<"join", s>> /\ ~guard[s] /\ thread[s] = "exited"
    /\ main' = <<"join", s - 1>>
    /\ UNCHANGED <<gc, timer, cancels, guard, thread, owned, lost>>

Strand(s) == StartGc(s) \/ RunCancel(s) \/ GcLoop(s) \/ ThreadExits(s)
Destructor == Notify \/ DropMembers \/ ResetGuard \/ Join

Next == (\E s \in Ids : Strand(s) \/ TimerExpires(s)) \/ Destructor

Spec == Init /\ [][Next]_vars

\* The threads run, timers run out, and a destructor that has begun goes on;
\* whether the backend is ever destroyed is up to the program.
FairSpec ==
  /\ Spec
  /\ \A s \in Ids : WF_vars(StartGc(s)) /\ WF_vars(RunCancel(s)) /\ WF_vars(GcLoop(s))
                    /\ WF_vars(ThreadExits(s)) /\ WF_vars(TimerExpires(s))
  /\ WF_vars(main[1] # "alive" /\ Destructor)

-----------------------------------------------------------------------------
TypeOK ==
  /\ gc \in [Ids -> {"spawned", "waiting", "done"}]
  /\ timer \in [Ids -> {"idle", "armed", "cancelled", "expired"}]
  /\ cancels \in [Ids -> Nat]
  /\ guard \in [Ids -> BOOLEAN]
  /\ thread \in [Ids -> {"running", "exited"}]
  /\ owned \in [Ids -> BOOLEAN]
  /\ main \in {"alive", "notify", "join"} \X (0..N)
  /\ lost \in [Ids -> BOOLEAN]

Destroying == main[1] # "alive"
Returned == main = <<"join", 0>>

\* The strand's state, and the wait object in it, lives while the backend or the
\* gc coroutine holds it.  The posted cancellation refers to the wait object by
\* its address only, and must not run after that.
CancelFindsWobj == \A s \in Ids : cancels[s] > 0 => owned[s] \/ gc[s] # "done"

\* gc stops only because the backend is being destroyed, and nothing of it is
\* left when its thread is gone.
GcEndsWithBackend ==
  \A s \in Ids :
    /\ gc[s] = "done" => Destroying
    /\ thread[s] = "exited" => gc[s] = "done" /\ ~owned[s]

\* A destructor that has begun returns, unless a cancellation came in the window
\* between the end of one wait and the beginning of the next.
ReturnsUnlessLost == Destroying ~> (Returned \/ \E s \in Ids : lost[s])

\* A notification sent to a loop of timed waits is always noticed, as the worker
\* in t-coro-mt.cpp (lines 27-35, 52 and 53) relies on; here: the destructor
\* returns.
DestructorReturns == Destroying ~> Returned
=============================================================================
