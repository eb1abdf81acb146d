--------------------------- MODULE BlockingIoProofs ---------------------------
(***************************************************************************)
(* No thread sleeps in poll or push past the moment its operation becomes  *)
(* possible, for every capacity, number of messages, set of closing        *)
(* threads and choice of the sides that use timeouts.                      *)
(*                                                                         *)
(* Every step of blocking_io is a step of the channel or leaves it alone,  *)
(* so the channel's invariant holds here too.  What joins the two layers   *)
(* is Link: a sleeping thread has its callback in the channel (or on its   *)
(* way) or its flag up.                                                    *)
(*                                                                         *)
(* A call that is told "aborted" was woken by a notification meant for a   *)
(* wait that had expired.  Owed counts those on their way against the      *)
(* waits that expired.  Last, every step is one of BlockingPipe.           *)
(***************************************************************************)
EXTENDS BlockingIo, BufferedChannelProofs

\* The flag of a sleeping thread is up unless its callback is still to come.
Link == \A s \in Sides : pc[s] = "waiting" => flag[s] \/ outcome[s] = "waiting"

\* A timed wait is within the bound on expired waits.
Budget == \A s \in Sides : pc[s] = "waiting" /\ timeout[s] => expiries[s] < MaxExpiries

IoInv == IoTypeOK /\ Budget /\ Safety /\ Link

\* Every step of blocking_io is one of buffered_channel, or does not touch it.
LEMMA IoStepIsChanStep == [Next]_vars => [ChanNext]_chanVars
<1> SUFFICES ASSUME [Next]_vars PROVE [ChanNext]_chanVars
  OBVIOUS
<1> USE DEF ChanNext, OpSuccess, OpClosed, OpBlocked, Sides, Threads
<1>1. ASSUME NEW s \in Sides, NEW timed \in BOOLEAN, Start(s, timed)
      PROVE [ChanNext]_chanVars
  BY <1>1 DEF Start
<1>2. ASSUME NEW s \in Sides, WaitNotified(s) \/ WaitExpires(s)
      PROVE [ChanNext]_chanVars
  BY <1>2 DEF WaitNotified, WaitExpires
<1>3. ASSUME NEW s \in Sides, Retry(s) \/ TryOnly(s) PROVE [ChanNext]_chanVars
  BY <1>3 DEF Retry, TryOnly
<1>4. ASSUME NEW t \in Threads, CloseIo(t) \/ NotifyOne(t) PROVE [ChanNext]_chanVars
  BY <1>4 DEF CloseIo, NotifyOne
<1>5. CASE UNCHANGED vars
  BY <1>5 DEF vars
<1> QED
  BY <1>1, <1>2, <1>3, <1>4, <1>5 DEF Next

\* All flags are down and nobody is in a call when a channel is made.
LEMMA InitIo == Init => IoInv
<1> SUFFICES ASSUME Init PROVE IoInv
  OBVIOUS
<1>1. Safety
  BY InitSafety DEF Init
<1>2. IoTypeOK
  BY <1>1, TimedAssumption DEF Safety, Init, IoTypeOK
<1>3. Budget /\ Link
  BY DEF Init, Budget, Link
<1> QED
  BY <1>1, <1>2, <1>3 DEF IoInv

\* The types, with the bound on expired waits, are preserved.
LEMMA IoTypeStep == IoTypeOK /\ Budget /\ [Next]_vars => IoTypeOK' /\ Budget'
<1> SUFFICES ASSUME IoTypeOK, Budget, [Next]_vars PROVE IoTypeOK' /\ Budget'
  OBVIOUS
<1>1. TypeOK'
  BY IoStepIsChanStep, TypeStep DEF IoTypeOK
<1> USE <1>1, TimedAssumption DEF IoTypeOK, Budget, Goto, Return, ioVars
<1>2. ASSUME NEW s \in Sides, NEW timed \in BOOLEAN, Start(s, timed)
      PROVE IoTypeOK' /\ Budget'
  BY <1>2 DEF Start
<1>3. ASSUME NEW s \in Sides, WaitNotified(s) PROVE IoTypeOK' /\ Budget'
  BY <1>3 DEF WaitNotified
<1>4. ASSUME NEW s \in Sides, WaitExpires(s) PROVE IoTypeOK' /\ Budget'
  BY <1>4 DEF WaitExpires
<1>5. ASSUME NEW s \in Sides, Retry(s) PROVE IoTypeOK' /\ Budget'
  BY <1>5 DEF Retry
<1>6. ASSUME NEW s \in Sides, TryOnly(s) PROVE IoTypeOK' /\ Budget'
  BY <1>6 DEF TryOnly
<1>7. ASSUME NEW t \in Threads, CloseIo(t) PROVE IoTypeOK' /\ Budget'
  BY <1>7 DEF CloseIo
<1>8. ASSUME NEW t \in Threads, NotifyOne(t) PROVE IoTypeOK' /\ Budget'
  BY <1>8 DEF NotifyOne
<1>9. CASE UNCHANGED vars
  BY <1>9 DEF vars
<1> QED
  BY <1>2, <1>3, <1>4, <1>5, <1>6, <1>7, <1>8, <1>9 DEF Next

\* A thread goes to sleep with its callback left in the channel, and the callback
\* raises its flag before it counts as called.
LEMMA LinkStep == IoTypeOK /\ Link /\ [Next]_vars => Link'
<1> SUFFICES ASSUME IoTypeOK, Link, [Next]_vars PROVE Link'
  OBVIOUS
<1> USE DEF IoTypeOK, Link, Goto, Return
<1>1. ASSUME NEW s \in Sides, NEW timed \in BOOLEAN, Start(s, timed) PROVE Link'
  <2> SUFFICES ASSUME NEW r \in Sides, pc'[r] = "waiting"
               PROVE  flag'[r] \/ outcome'[r] = "waiting"
    OBVIOUS
  <2>1. CASE r # s
    BY <1>1, <2>1, OpsTouchOwnOutcome DEF Start
  <2>2. CASE r = s
    BY <1>1, <2>2, BlockedLeavesCallback DEF Start
  <2> QED
    BY <2>1, <2>2
<1>2. ASSUME NEW s \in Sides, WaitNotified(s) \/ WaitExpires(s) PROVE Link'
  BY <1>2 DEF WaitNotified, WaitExpires, chanVars
<1>3. ASSUME NEW s \in Sides, Retry(s) PROVE Link'
  <2> SUFFICES ASSUME NEW r \in Sides, pc'[r] = "waiting"
               PROVE  flag'[r] \/ outcome'[r] = "waiting"
    OBVIOUS
  <2>1. r # s
    BY <1>3 DEF Retry
  <2> QED
    BY <1>3, <2>1, OpsTouchOwnOutcome DEF Retry
<1>4. ASSUME NEW s \in Sides, TryOnly(s) PROVE Link'
  <2> SUFFICES ASSUME NEW r \in Sides, pc'[r] = "waiting"
               PROVE  flag'[r] \/ outcome'[r] = "waiting"
    OBVIOUS
  <2>1. r # s
    BY <1>4 DEF TryOnly
  <2> QED
    BY <1>4, <2>1, OpsTouchOwnOutcome DEF TryOnly
<1>5. ASSUME NEW t \in Threads, CloseIo(t) PROVE Link'
  BY <1>5 DEF CloseIo, Close, ioVars
<1>6. ASSUME NEW t \in Threads, NotifyOne(t) PROVE Link'
  BY <1>6 DEF NotifyOne, Deliver, Free, TypeOK, Task
<1>7. CASE UNCHANGED vars
  BY <1>7 DEF vars, chanVars, ioVars
<1> QED
  BY <1>1, <1>2, <1>3, <1>4, <1>5, <1>6, <1>7 DEF Next

\* The two layers together.
LEMMA IoInvStep == IoInv /\ [Next]_vars => IoInv'
BY IoTypeStep, LinkStep, IoStepIsChanStep, SafetyStep DEF IoInv

\* All of it holds in every reachable state of blocking_io.
THEOREM IoCorrect == Spec => []IoInv
BY InitIo, IoInvStep, PTL DEF Spec

\* The variables of blocking_io and of the channel under it keep their types,
\* and no more waits expire than the bound allows.
THEOREM IoTypeCorrect == Spec => []IoTypeOK
<1>1. IoInv => IoTypeOK
  BY DEF IoInv
<1> QED
  BY <1>1, IoCorrect, PTL

\* A thread asleep in poll or push whose operation could go on has its flag up,
\* or some thread is about to raise it: cvar_wobj loses no wakeup.
THEOREM NoSleeperForgotten == Spec => []SleeperIsWoken
<1>1. IoInv => SleeperIsWoken
  BY DEF IoInv, Safety, NoLostWakeup, Link, SleeperIsWoken
<1> QED
  BY <1>1, IoCorrect, PTL

-----------------------------------------------------------------------------
(***************************************************************************)
(* Aborted calls.  A call comes back without any bit when a notification   *)
(* meant for an earlier wait ends it.  Every wait makes one notification   *)
(* (the callback it leaves in the channel), and a wait that is notified    *)
(* uses one up, so those left over when nobody waits come from waits that  *)
(* expired.  An aborted call makes up for the one that ended it: it finds  *)
(* its own callback still stored (Standing) and takes it back.             *)
(***************************************************************************)

\* The notifications of side s on their way: stored, taken, or raised.
Notifications(s) == Callbacks(s) + (IF flag[s] THEN 1 ELSE 0)

\* Aborted calls and notifications on their way never outnumber the waits that
\* expired, but for the one that the wait in progress is entitled to.
Owed ==
  \A s \in Sides :
    aborts[s] + Notifications(s) <= expiries[s] + (IF pc[s] = "waiting" THEN 1 ELSE 0)

\* Until a call returns, its callback is stored or its operation can go on.
Stands == \A s \in Sides : pc[s] \in {"waiting", "retry"} => Standing(s)

AbortInv == IoInv /\ FewTakers /\ Stands /\ Owed

\* What is on its way can be counted.
LEMMA NotificationsCounted ==
  ASSUME FewTakers, NEW s \in Sides
  PROVE  Callbacks(s) \in Nat /\ Notifications(s) \in Nat
<1>1. Cardinality(Takers(s)) \in Nat
  BY FS_CardinalityType DEF FewTakers
<1> QED
  BY <1>1 DEF Callbacks, Notifications

\* Nothing is on its way when a channel is made.
LEMMA InitAborts == Init => AbortInv
<1> SUFFICES ASSUME Init PROVE AbortInv
  OBVIOUS
<1>1. IoInv
  BY InitIo
<1>2. FewTakers /\ \A s \in Sides : Callbacks(s) = 0
  BY InitCallbacks DEF Init
<1>3. Stands /\ Owed
  BY <1>2 DEF Init, Stands, Owed, Notifications
<1> QED
  BY <1>1, <1>2, <1>3 DEF AbortInv

\* A side in a call stands through everything the others do.
LEMMA StandsStep == IoTypeOK /\ Stands /\ [Next]_vars => Stands'
<1> SUFFICES ASSUME IoTypeOK, Stands, [Next]_vars,
                    NEW r \in Sides, pc'[r] \in {"waiting", "retry"}
             PROVE  Standing(r)'
  BY DEF Stands
<1> USE DEF IoTypeOK, Stands, Goto, Return
<1>0. pc[r] \in {"waiting", "retry"} /\ UNCHANGED chanVars => Standing(r)'
  BY DEF Standing, CanGoOn, chanVars
<1>1. ASSUME NEW s \in Sides, NEW timed \in BOOLEAN, Start(s, timed) PROVE Standing(r)'
  <2>1. CASE r # s
    BY <1>1, <2>1, StandingStays DEF Start
  <2>2. CASE r = s
    <3>1. OpBlocked(s, s)
      BY <1>1, <2>2 DEF Start
    <3> QED
      BY <2>2, <3>1 DEF OpBlocked, ReadBlocked, WriteBlocked, Block, Standing
  <2> QED
    BY <2>1, <2>2
<1>2. ASSUME NEW s \in Sides, WaitNotified(s) \/ WaitExpires(s) PROVE Standing(r)'
  BY <1>0, <1>2 DEF WaitNotified, WaitExpires
<1>3. ASSUME NEW s \in Sides, Retry(s) PROVE Standing(r)'
  <2>1. r # s
    BY <1>3 DEF Retry
  <2> QED
    BY <1>3, <2>1, StandingStays DEF Retry
<1>4. ASSUME NEW s \in Sides, TryOnly(s) PROVE Standing(r)'
  <2>1. r # s
    BY <1>4 DEF TryOnly
  <2> QED
    BY <1>4, <2>1, StandingStays DEF TryOnly
<1>5. ASSUME NEW t \in Threads, CloseIo(t) PROVE Standing(r)'
  BY <1>5 DEF CloseIo, Close, Standing, CanGoOn
<1>6. ASSUME NEW t \in Threads, NotifyOne(t) PROVE Standing(r)'
  BY <1>6 DEF NotifyOne, Deliver, Standing, CanGoOn
<1>7. CASE UNCHANGED vars
  BY <1>0, <1>7 DEF vars, ioVars
<1> QED
  BY <1>1, <1>2, <1>3, <1>4, <1>5, <1>6, <1>7 DEF Next

\* Each step of blocking_io keeps the accounts.
LEMMA OwedStep == AbortInv /\ [Next]_vars => FewTakers' /\ Owed'
<1> SUFFICES ASSUME AbortInv, [Next]_vars PROVE FewTakers' /\ Owed'
  OBVIOUS
<1>0. /\ \A s \in Sides : Callbacks(s) \in Nat /\ aborts[s] \in Nat /\ expiries[s] \in Nat
      /\ Sides \subseteq Threads
      /\ TypeOK /\ FewTakers
  BY NotificationsCounted, TimedAssumption DEF AbortInv, IoInv, IoTypeOK, Threads
<1>a. UNCHANGED chanVars => FewTakers' /\ \A s \in Sides : Callbacks(s)' = Callbacks(s)
  BY <1>0 DEF chanVars, FewTakers, Callbacks, Takers
<1> USE DEF AbortInv, IoInv, IoTypeOK, Owed, Notifications, Goto, Return
<1>1. ASSUME NEW s \in Sides, NEW timed \in BOOLEAN, Start(s, timed)
      PROVE FewTakers' /\ Owed'
  <2>1. CASE OpBlocked(s, s) /\ Goto(s, "waiting") /\ UNCHANGED aborts
    <3>1. /\ FewTakers'
          /\ \A r \in Sides : /\ Callbacks(r)' <= IF r = s THEN Callbacks(r) + 1
                                                          ELSE Callbacks(r)
                              /\ Callbacks(r)' \in Nat
      BY <1>0, <2>1, BlockedReplacesCallback
    <3> QED
      BY <1>0, <1>1, <2>1, <3>1 DEF Start
  <2>2. CASE \/ OpSuccess(s) /\ Return(s, {"SUCCESS"})
             \/ OpClosed(s) /\ Return(s, {"CLOSED"})
    <3>1. FewTakers' /\ \A r \in Sides : Callbacks(r)' = Callbacks(r)
      BY <1>0, <2>2, OpsKeepCallbacks
    <3>2. aborts' = aborts
      BY <2>2
    <3> QED
      BY <1>0, <1>1, <2>2, <3>1, <3>2 DEF Start
  <2> QED
    BY <1>1, <2>1, <2>2 DEF Start
<1>2. ASSUME NEW s \in Sides, WaitNotified(s) PROVE FewTakers' /\ Owed'
  BY <1>0, <1>a, <1>2 DEF WaitNotified
<1>3. ASSUME NEW s \in Sides, WaitExpires(s) PROVE FewTakers' /\ Owed'
  BY <1>0, <1>a, <1>3 DEF WaitExpires
<1>4. ASSUME NEW s \in Sides, Retry(s) PROVE FewTakers' /\ Owed'
  <2> DEFINE late == IF expired[s] THEN {"TIMEOUT"} ELSE {}
  <2>1. CASE \/ OpSuccess(s) /\ Return(s, {"SUCCESS"} \cup late)
             \/ OpClosed(s) /\ Return(s, {"CLOSED"} \cup late)
    <3>1. FewTakers' /\ \A r \in Sides : Callbacks(r)' = Callbacks(r)
      BY <1>0, <2>1, OpsKeepCallbacks
    <3>2. aborts' = aborts
      BY <2>1
    <3> QED
      BY <1>0, <1>4, <2>1, <3>1, <3>2 DEF Retry
  <2>2. CASE OpBlocked(s, None) /\ Return(s, late)
    <3>1. Standing(s)
      BY <1>4 DEF Retry, Stands
    <3>2. notify = s /\ s # None
      BY <1>0, <2>2, <3>1, BlockedStands, ThreadsAssumption DEF Sides
    <3>3. /\ FewTakers'
          /\ \A r \in Sides : /\ Callbacks(r)' <= IF r = s THEN Callbacks(r) - 1
                                                          ELSE Callbacks(r)
                              /\ Callbacks(r)' \in Nat
      BY <1>0, <2>2, <3>2, BlockedReplacesCallback, ThreadsAssumption DEF Sides
    <3>4. \A r \in Sides : aborts'[r] <= IF r = s THEN aborts[r] + 1 ELSE aborts[r]
      BY <1>0, <2>2
    <3>5. aborts' \in [Sides -> Nat]
      BY <2>2
    <3> QED
      BY <1>0, <1>4, <2>2, <3>3, <3>4, <3>5 DEF Retry
  <2> QED
    BY <1>4, <2>1, <2>2 DEF Retry
<1>5. ASSUME NEW s \in Sides, TryOnly(s) PROVE FewTakers' /\ Owed'
  <2>1. CASE OpBlocked(s, None) /\ UNCHANGED pc
    <3>1. /\ FewTakers'
          /\ \A r \in Sides : Callbacks(r)' <= Callbacks(r) /\ Callbacks(r)' \in Nat
      BY <1>0, <2>1, BlockedReplacesCallback, ThreadsAssumption DEF Sides
    <3> QED
      BY <1>0, <1>5, <2>1, <3>1 DEF TryOnly
  <2>2. CASE \/ OpSuccess(s) /\ UNCHANGED pc
             \/ OpClosed(s) /\ Goto(s, "done")
    <3>1. FewTakers' /\ \A r \in Sides : Callbacks(r)' = Callbacks(r)
      BY <1>0, <2>2, OpsKeepCallbacks
    <3> QED
      BY <1>0, <1>5, <2>2, <3>1 DEF TryOnly
  <2> QED
    BY <1>5, <2>1, <2>2 DEF TryOnly
<1>6. ASSUME NEW t \in Threads, CloseIo(t) PROVE FewTakers' /\ Owed'
  <2>1. FewTakers' /\ \A r \in Sides : Callbacks(r)' = Callbacks(r)
    BY <1>0, <1>6, CloseKeepsCallbacks DEF CloseIo
  <2> QED
    BY <1>0, <1>6, <2>1 DEF CloseIo, ioVars
<1>7. ASSUME NEW t \in Threads, NotifyOne(t) PROVE FewTakers' /\ Owed'
  <2>1. /\ FewTakers'
        /\ \A r \in Sides :
             Callbacks(r)' = IF inflight[t] = r THEN Callbacks(r) - 1 ELSE Callbacks(r)
    BY <1>0, <1>7, DeliverUsesCallback DEF NotifyOne
  <2>2. inflight[t] \in Sides
    BY <1>7 DEF NotifyOne, Deliver, Free, TypeOK, Task
  <2> QED
    BY <1>0, <1>7, <2>1, <2>2 DEF NotifyOne
<1>8. CASE UNCHANGED vars
  BY <1>0, <1>a, <1>8 DEF vars, ioVars
<1> QED
  BY <1>1, <1>2, <1>3, <1>4, <1>5, <1>6, <1>7, <1>8 DEF Next

\* The accounts with the types they need.
LEMMA AbortInvStep == AbortInv /\ [Next]_vars => AbortInv'
BY IoInvStep, StandsStep, OwedStep DEF AbortInv, IoInv

\* The wait in progress has its own notification still to come, so the others
\* and the aborted calls are covered by the waits that expired.
LEMMA AbortsCovered == AbortInv => AbortsArePaidFor
<1> SUFFICES ASSUME AbortInv, NEW s \in Sides PROVE aborts[s] <= expiries[s]
  BY DEF AbortsArePaidFor
<1>1. Callbacks(s) \in Nat /\ aborts[s] \in Nat /\ expiries[s] \in Nat
  BY NotificationsCounted, TimedAssumption DEF AbortInv, IoInv, IoTypeOK
<1>2. pc[s] = "waiting" => Notifications(s) >= 1
  BY <1>1, WaitingHasCallback DEF AbortInv, IoInv, Safety, Link, Notifications
<1> QED
  BY <1>1, <1>2 DEF AbortInv, Owed, Notifications

\* Each call that comes back without any bit is paid for by a wait of the same
\* side that expired: the "aborted" of status.hpp is left to those who use
\* timeouts, however notifications are delayed.
THEOREM AbortsNeedExpiries == Spec => []AbortsArePaidFor
BY AbortsCovered, InitAborts, AbortInvStep, PTL DEF Spec

\* Only the sides that use timeouts have waits that expire.
TimedOnly == \A s \in Sides \ Timed : ~timeout[s] /\ ~expired[s] /\ expiries[s] = 0

\* Nobody has a deadline before the first call.
LEMMA InitTimedOnly == Init => TimedOnly
BY DEF Init, TimedOnly

\* Every step keeps that: one case per action.
LEMMA TimedOnlyStep == IoTypeOK /\ TimedOnly /\ [Next]_vars => TimedOnly'
<1> SUFFICES ASSUME IoTypeOK, TimedOnly, [Next]_vars PROVE TimedOnly'
  OBVIOUS
<1> USE DEF IoTypeOK, TimedOnly
<1>1. ASSUME NEW s \in Sides, NEW timed \in BOOLEAN, Start(s, timed) PROVE TimedOnly'
  BY <1>1 DEF Start
<1>2. ASSUME NEW s \in Sides, WaitNotified(s) PROVE TimedOnly'
  BY <1>2 DEF WaitNotified
<1>3. ASSUME NEW s \in Sides, WaitExpires(s) PROVE TimedOnly'
  BY <1>3 DEF WaitExpires
<1>4. ASSUME NEW s \in Sides, Retry(s) \/ TryOnly(s) PROVE TimedOnly'
  BY <1>4 DEF Retry, TryOnly
<1>5. ASSUME NEW t \in Threads, CloseIo(t) \/ NotifyOne(t) PROVE TimedOnly'
  BY <1>5 DEF CloseIo, NotifyOne, ioVars
<1>6. CASE UNCHANGED vars
  BY <1>6 DEF vars, ioVars
<1> QED
  BY <1>1, <1>2, <1>3, <1>4, <1>5, <1>6 DEF Next

\* poll and push with no timeout never return an empty status: a thread that only
\* waits without limit gets a message or the end of the stream.
THEOREM UntimedSideNeverAborted == Spec => [](\A s \in Sides \ Timed : aborts[s] = 0)
<1> DEFINE Untouched == \A s \in Sides \ Timed : aborts[s] = 0
<1>2. AbortInv /\ TimedOnly => Untouched
  <2> SUFFICES ASSUME AbortInv, TimedOnly, NEW s \in Sides \ Timed PROVE aborts[s] = 0
    OBVIOUS
  <2>1. aborts[s] \in Nat /\ aborts[s] <= expiries[s] /\ expiries[s] = 0
    BY AbortsCovered DEF AbortInv, IoInv, IoTypeOK, AbortsArePaidFor, TimedOnly
  <2> QED
    BY <2>1
<1>3. AbortInv => IoTypeOK
  BY DEF AbortInv, IoInv
<1> HIDE DEF Untouched
<1>4. Spec => []Untouched
  BY <1>2, <1>3, InitAborts, AbortInvStep, InitTimedOnly, TimedOnlyStep, PTL DEF Spec
<1> QED
  BY <1>4 DEF Untouched

-----------------------------------------------------------------------------
(***************************************************************************)
(* The refinement: with the condition variable and its flag hidden, a step *)
(* of blocking_io is a step of BlockingPipe or changes nothing there.      *)
(***************************************************************************)

\* What the pipe sees of a side.
PipeOp == [s \in Sides |-> IF pc[s] \in {"waiting", "retry"} THEN "pending" ELSE pc[s]]

\* The safety of the accounts is what keeps a side without timeouts from giving
\* up, and that is all the pipe needs to know about notifications.
PipeInv == AbortInv /\ TimedOnly

\* A read that succeeds is a poll, a write that succeeds a push.
LEMMA SuccessIsPipeStep ==
  ASSUME NEW s \in Sides, OpSuccess(s),
         PipeOp[s] # "done", PipeOp' = [PipeOp EXCEPT ![s] = "ready"]
  PROVE  Pipe!PipeNext
<1>1. CASE s = Reader
  <2>1. Pipe!Poll
    BY <1>1, ThreadsAssumption
       DEF Pipe!Poll, Pipe!Now, PipeOp, OpSuccess, ReadSuccess, Sides
  <2> QED
    BY <2>1 DEF Pipe!PipeNext
<1>2. CASE s = Writer
  <2>1. Pipe!Push
    BY <1>2, ThreadsAssumption
       DEF Pipe!Push, Pipe!Now, PipeOp, OpSuccess, WriteSuccess, Sides
  <2> QED
    BY <2>1 DEF Pipe!PipeNext
<1> QED
  BY <1>1, <1>2 DEF Sides

\* An operation that finds the channel closed learns of the end.
LEMMA ClosedIsPipeStep ==
  ASSUME NEW s \in Sides, OpClosed(s),
         PipeOp[s] # "done", PipeOp' = [PipeOp EXCEPT ![s] = "done"]
  PROVE  Pipe!PipeNext
<1>1. Pipe!LearnEnd(s)
  BY ThreadsAssumption
     DEF Pipe!LearnEnd, Pipe!Now, PipeOp, OpClosed, ReadClosed, WriteClosed, Sides
<1> QED
  BY <1>1 DEF Pipe!PipeNext, Sides

\* An operation blocks exactly when the pipe cannot do it.
LEMMA BlockedIsImpossible ==
  ASSUME TypeOK, NEW s \in Sides, NEW cb, OpBlocked(s, cb)
  PROVE  /\ Pipe!Impossible(s)
         /\ UNCHANGED <<queue, closed, written, lastRead>>
BY ThreadsAssumption, SizeAssumption
   DEF TypeOK, Sides, Pipe!Impossible, OpBlocked, ReadBlocked, WriteBlocked, Block

\* The initial states of blocking_io are initial states of the pipe.
LEMMA InitIsPipeInit == Init => Pipe!PipeInit
BY DEF Init, ChanInit, Pipe!PipeInit, Sides

\* Every step of blocking_io is a step of the pipe or leaves it alone.
LEMMA IoStepIsPipeStep == PipeInv /\ PipeInv' /\ [Next]_vars => [Pipe!PipeNext]_Pipe!pipeVars
<1> SUFFICES ASSUME PipeInv, PipeInv', [Next]_vars
             PROVE  [Pipe!PipeNext]_Pipe!pipeVars
  OBVIOUS
<1>0. IoTypeOK /\ TypeOK /\ IoTypeOK'
  BY DEF PipeInv, AbortInv, IoInv, IoTypeOK
<1>a. UNCHANGED <<queue, closed, written, lastRead, PipeOp>> => [Pipe!PipeNext]_Pipe!pipeVars
  BY DEF Pipe!pipeVars, PipeOp
<1>1. ASSUME NEW s \in Sides, NEW timed \in BOOLEAN, Start(s, timed)
      PROVE Pipe!PipeNext
  <2>0. PipeOp[s] = "ready"
    BY <1>1 DEF Start, PipeOp
  <2>1. CASE OpSuccess(s) /\ Return(s, {"SUCCESS"})
    <3>1. PipeOp' = [PipeOp EXCEPT ![s] = "ready"]
      BY <1>0, <2>1 DEF Return, Goto, PipeOp, IoTypeOK
    <3> QED
      BY <2>0, <2>1, <3>1, SuccessIsPipeStep
  <2>2. CASE OpClosed(s) /\ Return(s, {"CLOSED"})
    <3>1. PipeOp' = [PipeOp EXCEPT ![s] = "done"]
      BY <1>0, <2>2 DEF Return, Goto, PipeOp, IoTypeOK
    <3> QED
      BY <2>0, <2>2, <3>1, ClosedIsPipeStep
  <2>3. CASE OpBlocked(s, s) /\ Goto(s, "waiting")
    <3>1. PipeOp' = [PipeOp EXCEPT ![s] = "pending"]
      BY <1>0, <2>3 DEF Goto, PipeOp, IoTypeOK
    <3>2. Pipe!Suspend(s)
      BY <1>0, <2>0, <2>3, <3>1, BlockedIsImpossible DEF Pipe!Suspend, Pipe!Now, PipeOp
    <3> QED
      BY <3>2 DEF Pipe!PipeNext, Sides
  <2> QED
    BY <1>1, <2>1, <2>2, <2>3 DEF Start
<1>2. ASSUME NEW s \in Sides, WaitNotified(s) \/ WaitExpires(s)
      PROVE [Pipe!PipeNext]_Pipe!pipeVars
  <2>1. PipeOp' = PipeOp
    BY <1>0, <1>2 DEF WaitNotified, WaitExpires, Goto, PipeOp, IoTypeOK
  <2> QED
    BY <1>a, <1>2, <2>1 DEF WaitNotified, WaitExpires, chanVars
<1>3. ASSUME NEW s \in Sides, Retry(s) PROVE Pipe!PipeNext
  <2> DEFINE late == IF expired[s] THEN {"TIMEOUT"} ELSE {}
  <2>0. PipeOp[s] = "pending"
    BY <1>3 DEF Retry, PipeOp
  <2>1. CASE OpSuccess(s) /\ Return(s, {"SUCCESS"} \cup late)
    <3>1. PipeOp' = [PipeOp EXCEPT ![s] = "ready"]
      BY <1>0, <2>1 DEF Return, Goto, PipeOp, IoTypeOK
    <3> QED
      BY <2>0, <2>1, <3>1, SuccessIsPipeStep
  <2>2. CASE OpClosed(s) /\ Return(s, {"CLOSED"} \cup late)
    <3>1. PipeOp' = [PipeOp EXCEPT ![s] = "done"]
      BY <1>0, <2>2 DEF Return, Goto, PipeOp, IoTypeOK
    <3> QED
      BY <2>0, <2>2, <3>1, ClosedIsPipeStep
  <2>3. CASE OpBlocked(s, None) /\ Return(s, late)
    <3>1. PipeOp' = [PipeOp EXCEPT ![s] = "ready"]
      BY <1>0, <2>3 DEF Return, Goto, PipeOp, IoTypeOK
    <3>2. s \in Timed
      <4> SUFFICES ASSUME s \notin Timed PROVE FALSE
        OBVIOUS
      <4>1. ~expired[s] /\ expiries'[s] = 0
        BY DEF PipeInv, TimedOnly
      <4>2. aborts'[s] = aborts[s] + 1 /\ aborts[s] \in Nat
        BY <1>0, <2>3, <4>1 DEF Return, IoTypeOK
      <4>3. aborts'[s] <= expiries'[s]
        <5>1. AbortsArePaidFor'
          BY AbortsCovered, PTL DEF PipeInv
        <5> QED
          BY <5>1 DEF AbortsArePaidFor
      <4> QED
        BY <4>1, <4>2, <4>3
    <3>3. Pipe!GiveUp(s)
      BY <1>0, <2>0, <2>3, <3>1, <3>2, BlockedIsImpossible DEF Pipe!GiveUp, Pipe!Now, PipeOp
    <3> QED
      BY <3>3 DEF Pipe!PipeNext, Sides
  <2> QED
    BY <1>3, <2>1, <2>2, <2>3 DEF Retry
<1>4. ASSUME NEW s \in Sides, TryOnly(s) PROVE [Pipe!PipeNext]_Pipe!pipeVars
  <2>0. PipeOp[s] = "ready" /\ pc[s] = "ready"
    BY <1>4 DEF TryOnly, PipeOp
  <2>1. CASE OpSuccess(s) /\ UNCHANGED pc
    <3>1. PipeOp' = [PipeOp EXCEPT ![s] = "ready"]
      BY <2>0, <2>1 DEF PipeOp
    <3> QED
      BY <2>0, <2>1, <3>1, SuccessIsPipeStep
  <2>2. CASE OpClosed(s) /\ Goto(s, "done")
    <3>1. PipeOp' = [PipeOp EXCEPT ![s] = "done"]
      BY <1>0, <2>2 DEF Goto, PipeOp, IoTypeOK
    <3> QED
      BY <2>0, <2>2, <3>1, ClosedIsPipeStep
  <2>3. CASE OpBlocked(s, None) /\ UNCHANGED pc
    BY <1>0, <1>a, <2>3, BlockedIsImpossible DEF PipeOp
  <2> QED
    BY <1>4, <2>1, <2>2, <2>3 DEF TryOnly
<1>5. ASSUME NEW t \in Threads, CloseIo(t) PROVE Pipe!PipeNext
  <2>1. Pipe!End
    BY <1>5 DEF CloseIo, Close, ioVars, Pipe!End
  <2> QED
    BY <2>1 DEF Pipe!PipeNext
<1>6. ASSUME NEW t \in Threads, NotifyOne(t) PROVE [Pipe!PipeNext]_Pipe!pipeVars
  BY <1>a, <1>6 DEF NotifyOne, Deliver, PipeOp
<1>7. CASE UNCHANGED vars
  BY <1>a, <1>7 DEF vars, chanVars, ioVars, PipeOp
<1> QED
  BY <1>1, <1>2, <1>3, <1>4, <1>5, <1>6, <1>7 DEF Next

\* The safety half of ImplementsPipe: the two users of poll and push see a bounded
\* first-in first-out pipe that ends once, whatever wakes them.
THEOREM IoImplementsPipe == Spec => Pipe!PipeSpec
<1>1. Init => PipeInv
  BY InitAborts, InitTimedOnly DEF PipeInv
<1>2. PipeInv /\ [Next]_vars => PipeInv'
  BY AbortInvStep, TimedOnlyStep DEF PipeInv, AbortInv, IoInv
<1> QED
  BY <1>1, <1>2, InitIsPipeInit, IoStepIsPipeStep, PTL DEF Spec, Pipe!PipeSpec
=============================================================================
