------------------------------ MODULE Coroutines ------------------------------
(***************************************************************************)
(* xec::coro and the strand its coroutines run on.  A coroutine is a frame *)
(* whose promise knows who awaits it (m_prev) and where on the stack of    *)
(* that awaiter its answers go (m_result, m_generated).  Control moves by  *)
(* symmetric transfer: to the coroutine that is awaited, and back when it  *)
(* yields or ends.  A coroutine that waits for a strand_wobj leaves the    *)
(* strand, and a job of the strand resumes it.                             *)
(*                                                                         *)
(* A body may do anything it could be written to do, CoSteps times; what   *)
(* it yields is the number of its step.                                    *)
(***************************************************************************)
EXTENDS Integers, SequencesExt

CONSTANTS
  CoFrames,       \* coroutine frames
  CoSteps,        \* bound: steps of a body
  CoRoots,        \* bound: coroutines spawned
  CoQueue,        \* bound: jobs on the strand when somebody notifies
  MixesAwaits     \* whether a body awaits the end of what it has called next() on

Nobody == "nobody"

ASSUME CoAssumption ==
  /\ {CoSteps, CoRoots, CoQueue} \subseteq Nat /\ MixesAwaits \in BOOLEAN
  /\ Nobody \notin CoFrames

VARIABLES
  co,             \* the frames
  running,        \* the coroutine the strand is running, or Nobody
  waiter,         \* m_cb of the strand_wobj: the coroutine whose callback it holds
  jobs,           \* the queue of the strand
  intact          \* whether nothing was written or resumed that is not there

coVars == <<co, running, waiter, jobs, intact>>

Nothing == <<"nothing">>
NoSlot == <<Nobody, 0>>

\* An awaitable on the stack of a frame: the number tells it from earlier ones.
NoAwaitable == [number |-> 0, of |-> Nobody, kind |-> "none", result |-> Nothing, gen |-> Nothing]

NoFrameYet == [state |-> "none", owner |-> Nobody, prev |-> Nobody, result |-> NoSlot,
               generated |-> NoSlot, awaitable |-> NoAwaitable, said |-> Nothing, steps |-> 0]

CoInit ==
  /\ co = [f \in CoFrames |-> NoFrameYet]
  /\ running = Nobody /\ waiter = Nobody /\ jobs = <<>> /\ intact = TRUE

-----------------------------------------------------------------------------
\* The frame of a new coroutine; which one it is does not matter.
NewFrame == CHOOSE f \in CoFrames : co[f].state = "none"
MayCreate == \E f \in CoFrames : co[f].state = "none"

\* initial_suspend: a coroutine that is called does not run yet.
Called(owner) == [NoFrameYet EXCEPT !.state = "created", !.owner = owner]

Step(f) == running = f /\ co[f].state = "active" /\ co[f].steps < CoSteps
Stepped(f) == [co EXCEPT ![f].steps = @ + 1]

\* A pointer to an awaitable is good while its frame is suspended on that awaitable.
Points(frames, slot) ==
  /\ slot # NoSlot
  /\ frames[slot[1]].state = "awaiting" /\ frames[slot[1]].awaitable.number = slot[2]

\* Whom a coro object's end takes along: its frame, what that owns and so on, which is
\* the smallest set of frames that has it and whatever is owned in the set.
Owned(frames, f) ==
  {g \in CoFrames :
     \A S \in SUBSET CoFrames :
       f \in S /\ (\A h \in CoFrames : frames[h].owner \in S => h \in S) => g \in S}

\* A frame may be destroyed while it is suspended where nobody will resume it.
MayGo(frames, f) == frames[f].state \in {"created", "yielded", "done"}
DestroyedAll(frames, fs) ==
  [f \in CoFrames |-> IF f \in fs THEN [NoFrameYet EXCEPT !.state = "destroyed"] ELSE frames[f]]

-----------------------------------------------------------------------------
(* Bodies                                                                    *)

\* A new coroutine, kept in a coro object of the body.
Call(f) ==
  /\ Step(f) /\ MayCreate
  /\ co' = [Stepped(f) EXCEPT ![NewFrame] = Called(f)]
  /\ UNCHANGED <<running, waiter, jobs, intact>>

\* Who a body can await: what it has called, and through a coro_iterator what its
\* caller holds.
Awaitable(f, g) ==
  /\ co[g].owner # Nobody /\ co[g].owner \in {f, co[f].prev}
  /\ co[g].state \in {"created", "yielded"}

\* Faulty variant of Await: m_generated is set by the first next() only.
AwaitFirstNext(f, g, kind) ==
  LET number == co[f].awaitable.number + 1
  IN /\ Step(f) /\ Awaitable(f, g)
     /\ kind # "next" /\ co[g].generated # NoSlot => MixesAwaits
     /\ co' = [Stepped(f) EXCEPT
                 ![f].state = "awaiting",
                 ![f].awaitable = [NoAwaitable EXCEPT !.number = number, !.of = g, !.kind = kind],
                 ![g].state = "active", ![g].prev = f, ![g].result = <<f, number>>,
                 ![g].generated = IF kind = "next" /\ @ = NoSlot THEN <<f, number>> ELSE @]
     /\ running' = g
     /\ UNCHANGED <<waiter, jobs, intact>>

\* co_await of a coroutine (kind "value" or "safe"), or of its next().
Await(f, g, kind) ==
  LET number == co[f].awaitable.number + 1
  IN /\ Step(f) /\ Awaitable(f, g)
     /\ kind # "next" /\ co[g].generated # NoSlot => MixesAwaits
     /\ co' = [Stepped(f) EXCEPT
                 ![f].state = "awaiting",
                 ![f].awaitable = [NoAwaitable EXCEPT !.number = number, !.of = g, !.kind = kind],
                 ![g].state = "active", ![g].prev = f, ![g].result = <<f, number>>,
                 ![g].generated = IF kind = "next" THEN <<f, number>> ELSE @]
     /\ running' = g
     /\ UNCHANGED <<waiter, jobs, intact>>

\* await_resume: what the awaiter makes of what it finds.
Heard(a) ==
  CASE a.kind = "next" /\ a.gen # Nothing -> a.gen
    [] a.result # Nothing -> a.result
    [] OTHER -> <<"null exception">>

AwaitResumes(f) ==
  /\ running = f /\ co[f].state = "awaiting"
  /\ co' = [co EXCEPT ![f].state = "active"]
  /\ UNCHANGED <<running, waiter, jobs, intact>>

\* co_yield in a coroutine whose next() is awaited: back to the awaiter.
YieldValue(f) ==
  LET slot == co[f].generated
      value == <<"yield", co[f].steps>>
      told == [Stepped(f) EXCEPT ![f].state = "yielded", ![f].said = value]
  IN /\ Step(f) /\ slot # NoSlot
     /\ co' = IF Points(co, slot) THEN [told EXCEPT ![slot[1]].awaitable.gen = value] ELSE told
     /\ intact' = (intact /\ Points(co, slot))
     /\ running' = co[f].prev
     /\ UNCHANGED <<waiter, jobs>>

\* co_yield elsewhere: the value is thrown away.
YieldIgnored(f) ==
  /\ Step(f) /\ co[f].generated = NoSlot
  /\ co' = Stepped(f)
  /\ UNCHANGED <<running, waiter, jobs, intact>>

\* The end of a coroutine that is awaited: its objects go, those of them it returns
\* excepted, and its awaiter is resumed.
Finish(f, what, kept) ==
  LET slot == co[f].result
      mine == {g \in CoFrames : co[g].owner = f}
      gone == UNION {Owned(co, g) : g \in mine \ kept}
      told == [DestroyedAll(co, gone) EXCEPT ![f].state = "done", ![f].said = what]
      given == [g \in CoFrames |-> IF g \in kept THEN [told[g] EXCEPT !.owner = co[f].prev] ELSE told[g]]
  IN /\ running = f /\ co[f].state = "active" /\ co[f].prev # Nobody
     /\ kept \subseteq mine
     /\ co' = IF Points(co, slot) THEN [given EXCEPT ![slot[1]].awaitable.result = what] ELSE given
     /\ intact' = (intact /\ Points(co, slot) /\ \A g \in gone : MayGo(co, g))
     /\ running' = co[f].prev
     /\ UNCHANGED <<waiter, jobs>>

ReturnValue(f) == \E kept \in SUBSET CoFrames : Finish(f, <<"value">>, kept)
UnhandledException(f) == Finish(f, <<"error">>, {})

\* The end of a spawned coroutine: nobody is there to resume, and its frame goes.
RootEnds(f) ==
  LET gone == Owned(co, f) \ {f}
  IN /\ running = f /\ co[f].state = "active" /\ co[f].prev = Nobody
     /\ co' = DestroyedAll(co, gone \cup {f})
     /\ intact' = (intact /\ \A g \in gone : MayGo(co, g))
     /\ running' = Nobody
     /\ UNCHANGED <<waiter, jobs>>

\* A coro object of the body goes.
Drop(f) ==
  /\ Step(f)
  /\ \E g \in CoFrames :
       /\ co[g].owner = f
       /\ co' = DestroyedAll(Stepped(f), Owned(co, g))
       /\ intact' = (intact /\ \A h \in Owned(co, g) : MayGo(co, h))
  /\ UNCHANGED <<running, waiter, jobs>>

-----------------------------------------------------------------------------
(* The strand and the strand_wobj                                            *)

CoSpawn ==
  /\ Cardinality({f \in CoFrames : co[f].state # "none" /\ co[f].owner = Nobody}) < CoRoots
  /\ MayCreate
  /\ co' = [co EXCEPT ![NewFrame] = Called(Nobody)]
  /\ jobs' = Append(jobs, <<"resume", NewFrame>>)
  /\ UNCHANGED <<running, waiter, intact>>

\* Faulty variant of Wait: a callback that is replaced is forgotten.
WaitForgets(f) ==
  /\ Step(f)
  /\ co' = [Stepped(f) EXCEPT ![f].state = "waiting"]
  /\ waiter' = f
  /\ running' = Nobody
  /\ UNCHANGED <<jobs, intact>>

\* co_await of the strand_wobj: the callback of an earlier waiter is posted.
Wait(f) ==
  /\ Step(f)
  /\ co' = [Stepped(f) EXCEPT ![f].state = "waiting"]
  /\ jobs' = IF waiter # Nobody THEN Append(jobs, <<"resume", waiter>>) ELSE jobs
  /\ waiter' = f
  /\ running' = Nobody
  /\ UNCHANGED intact

NotifyWobj ==
  /\ Len(jobs) < CoQueue
  /\ jobs' = Append(jobs, <<"notify">>)
  /\ UNCHANGED <<co, running, waiter, intact>>

\* h.resume(), of a frame suspended at its beginning or in a wait.
ResumeFrame(f) ==
  /\ running' = f
  /\ co' = [co EXCEPT ![f].state = "active"]
  /\ intact' = (intact /\ co[f].state \in {"created", "waiting"})

RunJob ==
  /\ running = Nobody /\ jobs # <<>>
  /\ jobs' = Tail(jobs)
  /\ \/ Head(jobs)[1] = "resume" /\ ResumeFrame(Head(jobs)[2]) /\ UNCHANGED waiter
     \/ Head(jobs)[1] = "notify" /\ waiter # Nobody /\ ResumeFrame(waiter) /\ waiter' = Nobody
     \/ Head(jobs)[1] = "notify" /\ waiter = Nobody /\ UNCHANGED <<co, running, waiter, intact>>

CoNext ==
  \/ CoSpawn \/ NotifyWobj \/ RunJob
  \/ \E f \in CoFrames :
       \/ Call(f) \/ AwaitResumes(f) \/ YieldValue(f) \/ YieldIgnored(f)
       \/ ReturnValue(f) \/ UnhandledException(f) \/ RootEnds(f) \/ Drop(f) \/ Wait(f)
       \/ \E g \in CoFrames, kind \in {"value", "safe", "next"} : Await(f, g, kind)

CoSpec == CoInit /\ [][CoNext]_coVars

-----------------------------------------------------------------------------
\* A coroutine that is resumed in a co_await finds there what the coroutine it
\* awaited said last, and no other: a value it yielded only if next() was asked
\* for, its return or its exception if it has ended.  No answer is written to an
\* awaitable that has gone (coro.hpp, lines 103 to 106: pointers into the stack).
HearsWhatWasSaid ==
  /\ intact
  /\ \A f \in CoFrames :
       running = f /\ co[f].state = "awaiting"
         => LET a == co[f].awaitable
            IN Heard(a) = co[a.of].said /\ (Heard(a)[1] = "yield" => a.kind = "next")

\* Jobs and callbacks that will resume a coroutine.
Resumers(f) == (IF waiter = f THEN 1 ELSE 0)
                 + Cardinality({i \in DOMAIN jobs : jobs[i] = <<"resume", f>>})

\* Whoever is suspended has exactly one who resumes it: a coroutine in a wait the
\* wobj or one job, a coroutine in a co_await the one it awaits.  So none is
\* resumed twice, none is forgotten when a wobj changes waiters, and when nothing
\* is left to run or to wait for all frames are gone.
ResumedExactlyOnce ==
  /\ \A f \in CoFrames :
       LET started == co[f].state = "created" /\ co[f].owner = Nobody
       IN Resumers(f) = (IF co[f].state = "waiting" \/ started THEN 1 ELSE 0)
  /\ \A f \in CoFrames :
       co[f].state = "awaiting" /\ running # f
         => LET g == co[f].awaitable.of
            IN co[g].prev = f /\ co[g].state \in {"active", "awaiting", "waiting"}
  /\ \A f \in CoFrames : co[f].state = "active" => running = f
  /\ running = Nobody /\ waiter = Nobody /\ jobs = <<>>
       => \A f \in CoFrames : co[f].state \in {"none", "destroyed"}
=============================================================================
