---------------------------- MODULE TimerXioProofs ----------------------------
(***************************************************************************)
(* No coroutine stays suspended in poll or push past the moment its        *)
(* operation becomes possible, for every capacity, number of messages, set *)
(* of closing threads and choice of the sides that use timeouts.           *)
(*                                                                         *)
(* The argument is that of BlockingIoProofs with one stage more: between   *)
(* the callback in the channel and the end of the wait there is a posted   *)
(* cancellation.                                                           *)
(*                                                                         *)
(* So is that of the accounts: a cancellation that comes too late is owed  *)
(* to a wait that expired.  Last, every step is one of BlockingPipe.       *)
(***************************************************************************)
EXTENDS TimerXio, BufferedChannelProofs

\* A suspended coroutine whose wait goes on has a cancellation posted, unless its
\* callback is still to come.
Link ==
  \A s \in Sides : pc[s] = "waiting" =>
     timer[s] # "armed" \/ cancels[s] > 0 \/ outcome[s] = "waiting"

\* A timed wait is within the bound on expired waits.
Budget == \A s \in Sides : timer[s] = "armed" /\ timeout[s] => expiries[s] < MaxExpiries

XioInv == XioTypeOK /\ Budget /\ Safety /\ Link

\* Every step of xio is one of buffered_channel, or does not touch it.
LEMMA XioStepIsChanStep == [Next]_vars => [ChanNext]_chanVars
<1> SUFFICES ASSUME [Next]_vars PROVE [ChanNext]_chanVars
  OBVIOUS
<1> USE DEF ChanNext, OpSuccess, OpClosed, OpBlocked, Sides, Threads
<1>1. ASSUME NEW s \in Sides, NEW timed \in BOOLEAN, Start(s, timed)
      PROVE [ChanNext]_chanVars
  BY <1>1 DEF Start
<1>2. ASSUME NEW s \in Sides, RunCallback(s) \/ RunCancel(s) \/ TimerExpires(s)
      PROVE [ChanNext]_chanVars
  BY <1>2 DEF RunCallback, RunCancel, TimerExpires
<1>3. ASSUME NEW s \in Sides, RunWait(s) \/ TryOnly(s) PROVE [ChanNext]_chanVars
  BY <1>3 DEF RunWait, TryOnly
<1>4. ASSUME NEW t \in Threads, CloseXio(t) \/ NotifyOne(t) PROVE [ChanNext]_chanVars
  BY <1>4 DEF CloseXio, NotifyOne
<1>5. CASE UNCHANGED vars
  BY <1>5 DEF vars
<1> QED
  BY <1>1, <1>2, <1>3, <1>4, <1>5 DEF Next

\* All timers are idle and nobody is in a call when a channel is made.
LEMMA InitXio == Init => XioInv
<1> SUFFICES ASSUME Init PROVE XioInv
  OBVIOUS
<1>1. Safety
  BY InitSafety DEF Init
<1>2. XioTypeOK
  BY <1>1, TimedAssumption DEF Safety, Init, XioTypeOK, Status
<1>3. Budget /\ Link
  BY DEF Init, Budget, Link
<1> QED
  BY <1>1, <1>2, <1>3 DEF XioInv

\* The types, with the bound on expired waits, are preserved.
LEMMA XioTypeStep == XioTypeOK /\ Budget /\ [Next]_vars => XioTypeOK' /\ Budget'
<1> SUFFICES ASSUME XioTypeOK, Budget, [Next]_vars PROVE XioTypeOK' /\ Budget'
  OBVIOUS
<1>1. TypeOK'
  BY XioStepIsChanStep, TypeStep DEF XioTypeOK
<1>0. /\ NoStatus \in Status
      /\ \A late \in {{}, {"TIMEOUT"}} :
           late \in Status /\ {"SUCCESS"} \cup late \in Status /\ {"CLOSED"} \cup late \in Status
      /\ {"SUCCESS"} \in Status /\ {"CLOSED"} \in Status
  BY DEF Status, Bits
<1> USE <1>1, TimedAssumption
        DEF XioTypeOK, Budget, Goto, SetTimer, SetStatus, xioVars
<1>2. ASSUME NEW s \in Sides, NEW timed \in BOOLEAN, Start(s, timed)
      PROVE XioTypeOK' /\ Budget'
  <2>1. PICK bits \in Status : SetStatus(s, bits)
    BY <1>0, <1>2 DEF Start
  <2> QED
    BY <1>2, <2>1 DEF Start
<1>3. ASSUME NEW s \in Sides, RunCallback(s) PROVE XioTypeOK' /\ Budget'
  BY <1>3 DEF RunCallback
<1>4. ASSUME NEW s \in Sides, RunCancel(s) PROVE XioTypeOK' /\ Budget'
  BY <1>4 DEF RunCancel
<1>5. ASSUME NEW s \in Sides, TimerExpires(s) PROVE XioTypeOK' /\ Budget'
  BY <1>5 DEF TimerExpires
<1>6. ASSUME NEW s \in Sides, RunWait(s) PROVE XioTypeOK' /\ Budget'
  <2>1. PICK late \in {{}, {"TIMEOUT"}} :
          late = IF timer[s] = "expired" THEN {"TIMEOUT"} ELSE {}
    OBVIOUS
  <2>2. PICK bits \in Status : SetStatus(s, bits)
    BY <1>0, <1>6, <2>1 DEF RunWait
  <2> QED
    BY <1>6, <2>2 DEF RunWait
<1>7. ASSUME NEW s \in Sides, TryOnly(s) PROVE XioTypeOK' /\ Budget'
  BY <1>7 DEF TryOnly
<1>8. ASSUME NEW t \in Threads, CloseXio(t) PROVE XioTypeOK' /\ Budget'
  BY <1>8 DEF CloseXio
<1>9. ASSUME NEW t \in Threads, NotifyOne(t) PROVE XioTypeOK' /\ Budget'
  <2>1. inflight[t] \in Sides
    BY <1>9 DEF NotifyOne, Deliver, Free, TypeOK, Task
  <2> QED
    BY <1>9, <2>1 DEF NotifyOne
<1>10. CASE UNCHANGED vars
  BY <1>10 DEF vars
<1> QED
  BY <1>2, <1>3, <1>4, <1>5, <1>6, <1>7, <1>8, <1>9, <1>10 DEF Next

\* A coroutine is suspended with its callback left in the channel, and the
\* callback posts a cancellation, which ends the wait if it is still going on.
LEMMA LinkStep == XioTypeOK /\ Link /\ [Next]_vars => Link'
<1> SUFFICES ASSUME XioTypeOK, Link, [Next]_vars,
                    NEW r \in Sides, pc'[r] = "waiting"
             PROVE  timer'[r] # "armed" \/ cancels'[r] > 0 \/ outcome'[r] = "waiting"
  BY DEF Link
<1> USE DEF XioTypeOK, Link, Goto, SetTimer, SetStatus
<1> DEFINE Goal == timer'[r] # "armed" \/ cancels'[r] > 0 \/ outcome'[r] = "waiting"
<1>1. ASSUME NEW s \in Sides, NEW timed \in BOOLEAN, Start(s, timed) PROVE Goal
  <2>1. CASE r # s
    BY <1>1, <2>1, OpsTouchOwnOutcome DEF Start
  <2>2. CASE r = s
    BY <1>1, <2>2, BlockedLeavesCallback DEF Start
  <2> QED
    BY <2>1, <2>2
<1>2. ASSUME NEW s \in Sides, RunCallback(s) PROVE Goal
  BY <1>2 DEF RunCallback, chanVars
<1>3. ASSUME NEW s \in Sides, RunCancel(s) PROVE Goal
  BY <1>3 DEF RunCancel, chanVars
<1>4. ASSUME NEW s \in Sides, TimerExpires(s) PROVE Goal
  BY <1>4 DEF TimerExpires, chanVars
<1>5. ASSUME NEW s \in Sides, RunWait(s) PROVE Goal
  <2>1. r # s
    BY <1>5 DEF RunWait
  <2> QED
    BY <1>5, <2>1, OpsTouchOwnOutcome DEF RunWait
<1>6. ASSUME NEW s \in Sides, TryOnly(s) PROVE Goal
  <2>1. r # s
    BY <1>6 DEF TryOnly
  <2> QED
    BY <1>6, <2>1, OpsTouchOwnOutcome DEF TryOnly
<1>7. ASSUME NEW t \in Threads, CloseXio(t) PROVE Goal
  BY <1>7 DEF CloseXio, Close, xioVars
<1>8. ASSUME NEW t \in Threads, NotifyOne(t) PROVE Goal
  BY <1>8 DEF NotifyOne, Deliver, Free, TypeOK, Task
<1>9. CASE UNCHANGED vars
  BY <1>9 DEF vars, chanVars, xioVars
<1> QED
  BY <1>1, <1>2, <1>3, <1>4, <1>5, <1>6, <1>7, <1>8, <1>9 DEF Next

\* The two layers together.
LEMMA XioInvStep == XioInv /\ [Next]_vars => XioInv'
BY XioTypeStep, LinkStep, XioStepIsChanStep, SafetyStep DEF XioInv

\* All of it holds in every reachable state of xio over timer_wobj.
THEOREM XioCorrect == Spec => []XioInv
BY InitXio, XioInvStep, PTL DEF Spec

\* The variables of xio and of the channel under it keep their types, and no
\* more waits expire than the bound allows.
THEOREM XioTypeCorrect == Spec => []XioTypeOK
<1>1. XioInv => XioTypeOK
  BY DEF XioInv
<1> QED
  BY <1>1, XioCorrect, PTL

\* A coroutine suspended in poll or push whose operation could go on is going to
\* be resumed: timer_wobj loses no wakeup.
THEOREM NoCoroutineForgotten == Spec => []SuspendedIsResumed
<1>1. XioInv => SuspendedIsResumed
  BY DEF XioInv, Safety, NoLostWakeup, Link, SuspendedIsResumed
<1> QED
  BY <1>1, XioCorrect, PTL

-----------------------------------------------------------------------------
(***************************************************************************)
(* Aborted calls, by the accounts of BlockingIoProofs.  Here a             *)
(* notification is stored, taken, or a posted cancellation, and these can  *)
(* pile up: a count takes the place of the flag.                           *)
(***************************************************************************)

\* The notifications of side s on their way.
Notifications(s) == Callbacks(s) + cancels[s]

\* Aborted calls and notifications on their way never outnumber the waits that
\* expired, but for the one that the armed timer is entitled to.
Owed ==
  \A s \in Sides :
    aborts[s] + Notifications(s) <= expiries[s] + (IF timer[s] = "armed" THEN 1 ELSE 0)

\* Until a call returns, its callback is stored or its operation can go on.
Stands == \A s \in Sides : pc[s] = "waiting" => Standing(s)

\* The timer is in use exactly as long as a call is suspended.
TimerInUse == \A s \in Sides : pc[s] = "waiting" <=> timer[s] # "idle"

\* Only the sides that use timeouts have waits that expire.
TimedOnly ==
  \A s \in Sides \ Timed : ~timeout[s] /\ timer[s] # "expired" /\ expiries[s] = 0

AbortInv == XioInv /\ FewTakers /\ Stands /\ TimerInUse /\ Owed /\ TimedOnly

\* What is on its way can be counted.
LEMMA NotificationsCounted ==
  ASSUME XioTypeOK, FewTakers, NEW s \in Sides
  PROVE  /\ Callbacks(s) \in Nat /\ cancels[s] \in Nat
         /\ aborts[s] \in Nat /\ expiries[s] \in Nat
<1>1. Cardinality(Takers(s)) \in Nat
  BY FS_CardinalityType DEF FewTakers
<1> QED
  BY <1>1, TimedAssumption DEF Callbacks, XioTypeOK

\* Nothing is on its way when a channel is made.
LEMMA InitAborts == Init => AbortInv
<1> SUFFICES ASSUME Init PROVE AbortInv
  OBVIOUS
<1>1. XioInv
  BY InitXio
<1>2. FewTakers /\ \A s \in Sides : Callbacks(s) = 0
  BY InitCallbacks DEF Init
<1>3. Stands /\ TimerInUse /\ Owed /\ TimedOnly
  BY <1>2 DEF Init, Stands, TimerInUse, Owed, Notifications, TimedOnly
<1> QED
  BY <1>1, <1>2, <1>3 DEF AbortInv

\* The timer is armed when a call suspends and idle again when it returns.
LEMMA TimerInUseStep == XioTypeOK /\ TimerInUse /\ [Next]_vars => TimerInUse'
<1> SUFFICES ASSUME XioTypeOK, TimerInUse, [Next]_vars PROVE TimerInUse'
  OBVIOUS
<1> USE DEF XioTypeOK, TimerInUse, Goto, SetTimer
<1>1. ASSUME NEW s \in Sides, NEW timed \in BOOLEAN, Start(s, timed) PROVE TimerInUse'
  BY <1>1 DEF Start
<1>2. ASSUME NEW s \in Sides, RunCallback(s) PROVE TimerInUse'
  BY <1>2 DEF RunCallback
<1>3. ASSUME NEW s \in Sides, RunCancel(s) PROVE TimerInUse'
  BY <1>3 DEF RunCancel
<1>4. ASSUME NEW s \in Sides, TimerExpires(s) PROVE TimerInUse'
  BY <1>4 DEF TimerExpires
<1>5. ASSUME NEW s \in Sides, RunWait(s) PROVE TimerInUse'
  BY <1>5 DEF RunWait
<1>6. ASSUME NEW s \in Sides, TryOnly(s) PROVE TimerInUse'
  BY <1>6 DEF TryOnly
<1>7. ASSUME NEW t \in Threads, CloseXio(t) \/ NotifyOne(t) PROVE TimerInUse'
  BY <1>7 DEF CloseXio, NotifyOne, xioVars
<1>8. CASE UNCHANGED vars
  BY <1>8 DEF vars, xioVars
<1> QED
  BY <1>1, <1>2, <1>3, <1>4, <1>5, <1>6, <1>7, <1>8 DEF Next

\* A suspended side stands through everything the others do.
LEMMA StandsStep == XioTypeOK /\ Stands /\ [Next]_vars => Stands'
<1> SUFFICES ASSUME XioTypeOK, Stands, [Next]_vars,
                    NEW r \in Sides, pc'[r] = "waiting"
             PROVE  Standing(r)'
  BY DEF Stands
<1> USE DEF XioTypeOK, Stands, Goto
<1>0. pc[r] = "waiting" /\ UNCHANGED chanVars => Standing(r)'
  BY DEF Standing, CanGoOn, chanVars
<1>1. ASSUME NEW s \in Sides, NEW timed \in BOOLEAN, Start(s, timed) PROVE Standing(r)'
  <2>1. CASE r # s
    BY <1>1, <2>1, StandingStays DEF Start
  <2>2. CASE r = s
    <3>1. OpBlocked(s, s)
      BY <1>1, <2>2 DEF Start
    <3> QED
      BY <2>2, <3>1 DEF OpBlocked, ReadBlocked, WriteBlocked, Block, Standing
  <2> QED
    BY <2>1, <2>2
<1>2. ASSUME NEW s \in Sides, RunCallback(s) \/ RunCancel(s) \/ TimerExpires(s)
      PROVE Standing(r)'
  BY <1>0, <1>2 DEF RunCallback, RunCancel, TimerExpires
<1>3. ASSUME NEW s \in Sides, RunWait(s) PROVE Standing(r)'
  <2>1. r # s
    BY <1>3 DEF RunWait
  <2> QED
    BY <1>3, <2>1, StandingStays DEF RunWait
<1>4. ASSUME NEW s \in Sides, TryOnly(s) PROVE Standing(r)'
  <2>1. r # s
    BY <1>4 DEF TryOnly
  <2> QED
    BY <1>4, <2>1, StandingStays DEF TryOnly
<1>5. ASSUME NEW t \in Threads, CloseXio(t) PROVE Standing(r)'
  BY <1>5 DEF CloseXio, Close, xioVars, Standing, CanGoOn
<1>6. ASSUME NEW t \in Threads, NotifyOne(t) PROVE Standing(r)'
  BY <1>6 DEF NotifyOne, Deliver, Standing, CanGoOn
<1>7. CASE UNCHANGED vars
  BY <1>0, <1>7 DEF vars, xioVars
<1> QED
  BY <1>1, <1>2, <1>3, <1>4, <1>5, <1>6, <1>7 DEF Next

\* A side outside Timed never gets a timer that may run out.
LEMMA TimedOnlyStep == XioTypeOK /\ TimedOnly /\ [Next]_vars => TimedOnly'
<1> SUFFICES ASSUME XioTypeOK, TimedOnly, [Next]_vars PROVE TimedOnly'
  OBVIOUS
<1> USE DEF XioTypeOK, TimedOnly, SetTimer
<1>1. ASSUME NEW s \in Sides, NEW timed \in BOOLEAN, Start(s, timed) PROVE TimedOnly'
  BY <1>1 DEF Start
<1>2. ASSUME NEW s \in Sides, RunCallback(s) \/ RunCancel(s) PROVE TimedOnly'
  BY <1>2 DEF RunCallback, RunCancel
<1>3. ASSUME NEW s \in Sides, TimerExpires(s) PROVE TimedOnly'
  BY <1>3 DEF TimerExpires
<1>4. ASSUME NEW s \in Sides, RunWait(s) \/ TryOnly(s) PROVE TimedOnly'
  BY <1>4 DEF RunWait, TryOnly
<1>5. ASSUME NEW t \in Threads, CloseXio(t) \/ NotifyOne(t) PROVE TimedOnly'
  BY <1>5 DEF CloseXio, NotifyOne, xioVars
<1>6. CASE UNCHANGED vars
  BY <1>6 DEF vars, xioVars
<1> QED
  BY <1>1, <1>2, <1>3, <1>4, <1>5, <1>6 DEF Next

\* Each step of xio keeps the accounts.
LEMMA OwedStep == AbortInv /\ [Next]_vars => FewTakers' /\ Owed'
<1> SUFFICES ASSUME AbortInv, [Next]_vars PROVE FewTakers' /\ Owed'
  OBVIOUS
<1>0. /\ \A s \in Sides : /\ Callbacks(s) \in Nat /\ cancels[s] \in Nat
                          /\ aborts[s] \in Nat /\ expiries[s] \in Nat
      /\ Sides \subseteq Threads
      /\ TypeOK /\ FewTakers
  BY NotificationsCounted DEF AbortInv, XioInv, XioTypeOK, Threads
<1>a. UNCHANGED chanVars => FewTakers' /\ \A s \in Sides : Callbacks(s)' = Callbacks(s)
  BY <1>0 DEF chanVars, FewTakers, Callbacks, Takers
<1> USE DEF AbortInv, XioInv, XioTypeOK, Owed, Notifications, Goto, SetTimer
<1>1. ASSUME NEW s \in Sides, NEW timed \in BOOLEAN, Start(s, timed)
      PROVE FewTakers' /\ Owed'
  <2>0. timer[s] = "idle"
    BY <1>1 DEF Start, TimerInUse
  <2>1. CASE OpBlocked(s, s) /\ SetTimer(s, "armed")
    <3>1. /\ FewTakers'
          /\ \A r \in Sides : /\ Callbacks(r)' <= IF r = s THEN Callbacks(r) + 1
                                                          ELSE Callbacks(r)
                              /\ Callbacks(r)' \in Nat
      BY <1>0, <2>1, BlockedReplacesCallback
    <3> QED
      BY <1>0, <1>1, <2>0, <2>1, <3>1 DEF Start
  <2>2. CASE (OpSuccess(s) \/ OpClosed(s)) /\ UNCHANGED timer
    <3>1. FewTakers' /\ \A r \in Sides : Callbacks(r)' = Callbacks(r)
      BY <1>0, <2>2, OpsKeepCallbacks
    <3> QED
      BY <1>0, <1>1, <2>2, <3>1 DEF Start
  <2> QED
    BY <1>1, <2>1, <2>2 DEF Start
<1>2. ASSUME NEW s \in Sides, RunCallback(s) PROVE FewTakers' /\ Owed'
  BY <1>0, <1>a, <1>2 DEF RunCallback
<1>3. ASSUME NEW s \in Sides, RunCancel(s) PROVE FewTakers' /\ Owed'
  BY <1>0, <1>a, <1>3 DEF RunCancel
<1>4. ASSUME NEW s \in Sides, TimerExpires(s) PROVE FewTakers' /\ Owed'
  BY <1>0, <1>a, <1>4 DEF TimerExpires
<1>5. ASSUME NEW s \in Sides, RunWait(s) PROVE FewTakers' /\ Owed'
  <2> DEFINE late == IF timer[s] = "expired" THEN {"TIMEOUT"} ELSE {}
  <2>1. CASE (OpSuccess(s) \/ OpClosed(s)) /\ UNCHANGED aborts
    <3>1. FewTakers' /\ \A r \in Sides : Callbacks(r)' = Callbacks(r)
      BY <1>0, <2>1, OpsKeepCallbacks
    <3> QED
      BY <1>0, <1>5, <2>1, <3>1 DEF RunWait
  <2>2. CASE /\ OpBlocked(s, None)
             /\ aborts' = [aborts EXCEPT ![s] = IF late = {} THEN @ + 1 ELSE @]
    <3>1. Standing(s)
      BY <1>5 DEF RunWait, Stands, TimerInUse
    <3>2. notify = s /\ s # None
      BY <1>0, <2>2, <3>1, BlockedStands, ThreadsAssumption DEF Sides
    <3>3. /\ FewTakers'
          /\ \A r \in Sides : /\ Callbacks(r)' <= IF r = s THEN Callbacks(r) - 1
                                                          ELSE Callbacks(r)
                              /\ Callbacks(r)' \in Nat
      BY <1>0, <2>2, <3>2, BlockedReplacesCallback, ThreadsAssumption DEF Sides
    <3>4. \A r \in Sides : /\ aborts'[r] <= IF r = s THEN aborts[r] + 1 ELSE aborts[r]
                          /\ aborts'[r] \in Nat
      BY <1>0, <2>2
    <3>5. \A r \in Sides : /\ timer'[r] = "armed" <=> r # s /\ timer[r] = "armed"
                          /\ cancels'[r] = cancels[r] /\ expiries'[r] = expiries[r]
      BY <1>5 DEF RunWait
    <3>6. timer[s] # "armed"
      BY <1>5 DEF RunWait
    <3> QED
      BY <1>0, <3>3, <3>4, <3>5, <3>6
  <2> QED
    BY <1>5, <2>1, <2>2 DEF RunWait
<1>6. ASSUME NEW s \in Sides, TryOnly(s) PROVE FewTakers' /\ Owed'
  <2>1. CASE OpBlocked(s, None)
    <3>1. /\ FewTakers'
          /\ \A r \in Sides : Callbacks(r)' <= Callbacks(r) /\ Callbacks(r)' \in Nat
      BY <1>0, <2>1, BlockedReplacesCallback, ThreadsAssumption DEF Sides
    <3> QED
      BY <1>0, <1>6, <3>1 DEF TryOnly
  <2>2. CASE OpSuccess(s) \/ OpClosed(s)
    <3>1. FewTakers' /\ \A r \in Sides : Callbacks(r)' = Callbacks(r)
      BY <1>0, <2>2, OpsKeepCallbacks
    <3> QED
      BY <1>0, <1>6, <3>1 DEF TryOnly
  <2> QED
    BY <1>6, <2>1, <2>2 DEF TryOnly
<1>7. ASSUME NEW t \in Threads, CloseXio(t) PROVE FewTakers' /\ Owed'
  <2>1. FewTakers' /\ \A r \in Sides : Callbacks(r)' = Callbacks(r)
    BY <1>0, <1>7, CloseKeepsCallbacks DEF CloseXio
  <2> QED
    BY <1>0, <1>7, <2>1 DEF CloseXio, xioVars
<1>8. ASSUME NEW t \in Threads, NotifyOne(t) PROVE FewTakers' /\ Owed'
  <2>1. /\ FewTakers'
        /\ \A r \in Sides :
             Callbacks(r)' = IF inflight[t] = r THEN Callbacks(r) - 1 ELSE Callbacks(r)
    BY <1>0, <1>8, DeliverUsesCallback DEF NotifyOne
  <2>2. inflight[t] \in Sides
    BY <1>8 DEF NotifyOne, Deliver, Free, TypeOK, Task
  <2> QED
    BY <1>0, <1>8, <2>1, <2>2 DEF NotifyOne
<1>9. CASE UNCHANGED vars
  BY <1>0, <1>a, <1>9 DEF vars, xioVars
<1> QED
  BY <1>1, <1>2, <1>3, <1>4, <1>5, <1>6, <1>7, <1>8, <1>9 DEF Next

\* The accounts with what they rest on.
LEMMA AbortInvStep == AbortInv /\ [Next]_vars => AbortInv'
BY XioInvStep, StandsStep, TimerInUseStep, TimedOnlyStep, OwedStep DEF AbortInv, XioInv

\* The wait in progress has its own notification still to come, so the others
\* and the aborted calls are covered by the waits that expired.
LEMMA AbortsCovered == AbortInv => AbortsArePaidFor
<1> SUFFICES ASSUME AbortInv, NEW s \in Sides PROVE aborts[s] <= expiries[s]
  BY DEF AbortsArePaidFor
<1>1. /\ Callbacks(s) \in Nat /\ cancels[s] \in Nat
      /\ aborts[s] \in Nat /\ expiries[s] \in Nat
  BY NotificationsCounted DEF AbortInv, XioInv
<1>2. timer[s] = "armed" => Notifications(s) >= 1
  <2> SUFFICES ASSUME timer[s] = "armed" PROVE Notifications(s) >= 1
    OBVIOUS
  <2>1. pc[s] = "waiting"
    BY DEF AbortInv, TimerInUse
  <2>2. cancels[s] > 0 \/ outcome[s] = "waiting"
    BY <2>1 DEF AbortInv, XioInv, Link
  <2>3. outcome[s] = "waiting" => Callbacks(s) >= 1
    BY WaitingHasCallback DEF AbortInv, XioInv, Safety
  <2> QED
    BY <1>1, <2>2, <2>3 DEF Notifications
<1> QED
  BY <1>1, <1>2 DEF AbortInv, Owed, Notifications

\* A late cancellation that ends a later wait is paid for by a wait of the same
\* side that expired, however many of them are posted and however late they run.
THEOREM AbortsNeedExpiries == Spec => []AbortsArePaidFor
BY AbortsCovered, InitAborts, AbortInvStep, PTL DEF Spec

\* A coroutine that polls and pushes without timeouts is never told "aborted".
THEOREM UntimedSideNeverAborted == Spec => [](\A s \in Sides \ Timed : aborts[s] = 0)
<1> DEFINE Untouched == \A s \in Sides \ Timed : aborts[s] = 0
<1>1. AbortInv => Untouched
  <2> SUFFICES ASSUME AbortInv, NEW s \in Sides \ Timed PROVE aborts[s] = 0
    OBVIOUS
  <2>1. aborts[s] \in Nat /\ aborts[s] <= expiries[s] /\ expiries[s] = 0
    BY AbortsCovered DEF AbortInv, XioInv, XioTypeOK, AbortsArePaidFor, TimedOnly
  <2> QED
    BY <2>1
<1> HIDE DEF Untouched
<1>2. Spec => []Untouched
  BY <1>1, InitAborts, AbortInvStep, PTL DEF Spec
<1> QED
  BY <1>2 DEF Untouched

-----------------------------------------------------------------------------
(***************************************************************************)
(* The refinement: with timers and posted handlers hidden, a step of xio   *)
(* is a step of BlockingPipe or changes nothing there.  A side is told the *)
(* result when it is posted, before its callback runs.                     *)
(***************************************************************************)

\* What the pipe sees of a side.
PipeOp ==
  [s \in Sides |-> CASE pc[s] = "waiting" -> "pending"
                     [] pc[s] = "posted" /\ "CLOSED" \in status[s] -> "done"
                     [] pc[s] = "posted" /\ "CLOSED" \notin status[s] -> "ready"
                     [] OTHER -> pc[s]]

\* A read that succeeds is a poll, a write that succeeds a push.
LEMMA SuccessIsPipeStep ==
  ASSUME NEW s \in Sides, OpSuccess(s),
         PipeOp[s] # "done", PipeOp' = [PipeOp EXCEPT ![s] = "ready"]
  PROVE  Pipe!PipeNext
<1>1. CASE s = Reader
  <2>1. Pipe!Poll
    BY <1>1, ThreadsAssumption
       DEF Pipe!Poll, Pipe!Now, PipeOp, OpSuccess, ReadSuccess, Sides
  <2> QED
    BY <2>1 DEF Pipe!PipeNext
<1>2. CASE s = Writer
  <2>1. Pipe!Push
    BY <1>2, ThreadsAssumption
       DEF Pipe!Push, Pipe!Now, PipeOp, OpSuccess, WriteSuccess, Sides
  <2> QED
    BY <2>1 DEF Pipe!PipeNext
<1> QED
  BY <1>1, <1>2 DEF Sides

\* An operation that finds the channel closed learns of the end.
LEMMA ClosedIsPipeStep ==
  ASSUME NEW s \in Sides, OpClosed(s),
         PipeOp[s] # "done", PipeOp' = [PipeOp EXCEPT ![s] = "done"]
  PROVE  Pipe!PipeNext
<1>1. Pipe!LearnEnd(s)
  BY ThreadsAssumption
     DEF Pipe!LearnEnd, Pipe!Now, PipeOp, OpClosed, ReadClosed, WriteClosed, Sides
<1> QED
  BY <1>1 DEF Pipe!PipeNext, Sides

\* An operation blocks exactly when the pipe cannot do it.
LEMMA BlockedIsImpossible ==
  ASSUME TypeOK, NEW s \in Sides, NEW cb, OpBlocked(s, cb)
  PROVE  /\ Pipe!Impossible(s)
         /\ UNCHANGED <<queue, closed, written, lastRead>>
BY ThreadsAssumption, SizeAssumption
   DEF TypeOK, Sides, Pipe!Impossible, OpBlocked, ReadBlocked, WriteBlocked, Block

\* The initial states of xio are initial states of the pipe.
LEMMA InitIsPipeInit == Init => Pipe!PipeInit
BY DEF Init, ChanInit, Pipe!PipeInit, Sides

\* Every step of xio is a step of the pipe or leaves it alone.
LEMMA XioStepIsPipeStep ==
  AbortInv /\ AbortInv' /\ [Next]_vars => [Pipe!PipeNext]_Pipe!pipeVars
<1> SUFFICES ASSUME AbortInv, AbortInv', [Next]_vars
             PROVE  [Pipe!PipeNext]_Pipe!pipeVars
  OBVIOUS
<1>0. XioTypeOK /\ TypeOK /\ XioTypeOK' /\ TimerInUse
  BY DEF AbortInv, XioInv, XioTypeOK
<1>a. UNCHANGED <<queue, closed, written, lastRead, PipeOp>> => [Pipe!PipeNext]_Pipe!pipeVars
  BY DEF Pipe!pipeVars, PipeOp
<1>1. ASSUME NEW s \in Sides, NEW timed \in BOOLEAN, Start(s, timed)
      PROVE Pipe!PipeNext
  <2>0. PipeOp[s] = "ready"
    BY <1>1 DEF Start, PipeOp
  <2>1. CASE OpSuccess(s) /\ SetStatus(s, {"SUCCESS"}) /\ Goto(s, "posted")
    <3>1. PipeOp' = [PipeOp EXCEPT ![s] = "ready"]
      BY <1>0, <2>1 DEF SetStatus, Goto, PipeOp, XioTypeOK
    <3> QED
      BY <2>0, <2>1, <3>1, SuccessIsPipeStep
  <2>2. CASE OpClosed(s) /\ SetStatus(s, {"CLOSED"}) /\ Goto(s, "posted")
    <3>1. PipeOp' = [PipeOp EXCEPT ![s] = "done"]
      BY <1>0, <2>2 DEF SetStatus, Goto, PipeOp, XioTypeOK
    <3> QED
      BY <2>0, <2>2, <3>1, ClosedIsPipeStep
  <2>3. CASE OpBlocked(s, s) /\ SetStatus(s, NoStatus) /\ Goto(s, "waiting")
    <3>1. PipeOp' = [PipeOp EXCEPT ![s] = "pending"]
      BY <1>0, <2>3 DEF SetStatus, Goto, PipeOp, XioTypeOK
    <3>2. Pipe!Suspend(s)
      BY <1>0, <2>0, <2>3, <3>1, BlockedIsImpossible DEF Pipe!Suspend, Pipe!Now, PipeOp
    <3> QED
      BY <3>2 DEF Pipe!PipeNext, Sides
  <2> QED
    BY <1>1, <2>1, <2>2, <2>3 DEF Start
<1>2. ASSUME NEW s \in Sides, RunCallback(s) PROVE [Pipe!PipeNext]_Pipe!pipeVars
  <2>1. PipeOp' = PipeOp
    BY <1>0, <1>2 DEF RunCallback, Goto, PipeOp, XioTypeOK
  <2> QED
    BY <1>a, <1>2, <2>1 DEF RunCallback, chanVars
<1>3. ASSUME NEW s \in Sides, RunCancel(s) \/ TimerExpires(s)
      PROVE [Pipe!PipeNext]_Pipe!pipeVars
  BY <1>a, <1>3 DEF RunCancel, TimerExpires, chanVars, PipeOp
<1>4. ASSUME NEW s \in Sides, RunWait(s) PROVE Pipe!PipeNext
  <2> DEFINE late == IF timer[s] = "expired" THEN {"TIMEOUT"} ELSE {}
  <2>0. pc[s] = "waiting" /\ PipeOp[s] = "pending"
    BY <1>0, <1>4 DEF RunWait, TimerInUse, PipeOp
  <2>1. CASE OpSuccess(s) /\ SetStatus(s, {"SUCCESS"} \cup late) /\ Goto(s, "ready")
    <3>1. PipeOp' = [PipeOp EXCEPT ![s] = "ready"]
      BY <1>0, <2>1 DEF SetStatus, Goto, PipeOp, XioTypeOK
    <3> QED
      BY <2>0, <2>1, <3>1, SuccessIsPipeStep
  <2>2. CASE OpClosed(s) /\ SetStatus(s, {"CLOSED"} \cup late) /\ Goto(s, "done")
    <3>1. PipeOp' = [PipeOp EXCEPT ![s] = "done"]
      BY <1>0, <2>2 DEF SetStatus, Goto, PipeOp, XioTypeOK
    <3> QED
      BY <2>0, <2>2, <3>1, ClosedIsPipeStep
  <2>3. CASE /\ OpBlocked(s, None) /\ SetStatus(s, late) /\ Goto(s, "ready")
             /\ aborts' = [aborts EXCEPT ![s] = IF late = {} THEN @ + 1 ELSE @]
    <3>1. PipeOp' = [PipeOp EXCEPT ![s] = "ready"]
      BY <1>0, <2>3 DEF SetStatus, Goto, PipeOp, XioTypeOK
    <3>2. s \in Timed
      <4> SUFFICES ASSUME s \notin Timed PROVE FALSE
        OBVIOUS
      <4>1. timer[s] # "expired" /\ expiries'[s] = 0
        BY DEF AbortInv, TimedOnly
      <4>2. aborts'[s] = aborts[s] + 1 /\ aborts[s] \in Nat
        BY <1>0, <2>3, <4>1 DEF XioTypeOK
      <4>3. AbortsArePaidFor'
        BY AbortsCovered, PTL
      <4> QED
        BY <4>1, <4>2, <4>3 DEF AbortsArePaidFor
    <3>3. Pipe!GiveUp(s)
      BY <1>0, <2>0, <2>3, <3>1, <3>2, BlockedIsImpossible DEF Pipe!GiveUp, Pipe!Now, PipeOp
    <3> QED
      BY <3>3 DEF Pipe!PipeNext, Sides
  <2> QED
    BY <1>4, <2>1, <2>2, <2>3 DEF RunWait
<1>5. ASSUME NEW s \in Sides, TryOnly(s) PROVE [Pipe!PipeNext]_Pipe!pipeVars
  <2>0. PipeOp[s] = "ready" /\ pc[s] = "ready" /\ status' = status
    BY <1>5 DEF TryOnly, PipeOp
  <2>1. CASE OpSuccess(s) /\ UNCHANGED pc
    <3>1. PipeOp' = [PipeOp EXCEPT ![s] = "ready"]
      BY <2>0, <2>1 DEF PipeOp
    <3> QED
      BY <2>0, <2>1, <3>1, SuccessIsPipeStep
  <2>2. CASE OpClosed(s) /\ Goto(s, "done")
    <3>1. PipeOp' = [PipeOp EXCEPT ![s] = "done"]
      BY <1>0, <2>0, <2>2 DEF Goto, PipeOp, XioTypeOK
    <3> QED
      BY <2>0, <2>2, <3>1, ClosedIsPipeStep
  <2>3. CASE OpBlocked(s, None) /\ UNCHANGED pc
    BY <1>0, <1>a, <2>0, <2>3, BlockedIsImpossible DEF PipeOp
  <2> QED
    BY <1>5, <2>1, <2>2, <2>3 DEF TryOnly
<1>6. ASSUME NEW t \in Threads, CloseXio(t) PROVE Pipe!PipeNext
  <2>1. Pipe!End
    BY <1>6 DEF CloseXio, Close, xioVars, Pipe!End
  <2> QED
    BY <2>1 DEF Pipe!PipeNext
<1>7. ASSUME NEW t \in Threads, NotifyOne(t) PROVE [Pipe!PipeNext]_Pipe!pipeVars
  BY <1>a, <1>7 DEF NotifyOne, Deliver, PipeOp
<1>8. CASE UNCHANGED vars
  BY <1>a, <1>8 DEF vars, chanVars, xioVars, PipeOp
<1> QED
  BY <1>1, <1>2, <1>3, <1>4, <1>5, <1>6, <1>7, <1>8 DEF Next

\* The safety half of ImplementsPipe: two coroutines that poll and push see the
\* same pipe as two threads that block.
THEOREM XioImplementsPipe == Spec => Pipe!PipeSpec
BY InitAborts, AbortInvStep, InitIsPipeInit, XioStepIsPipeStep, PTL
   DEF Spec, Pipe!PipeSpec
=============================================================================
