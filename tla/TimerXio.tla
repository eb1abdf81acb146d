------------------------------ MODULE TimerXio ------------------------------
(***************************************************************************)
(* xio over one buffered channel with timer_wobj as the wait object: how   *)
(* coroutines on strands poll and push (strand_io).                        *)
(*                                                                         *)
(* Each side runs on its own strand, so its handlers run one at a time and *)
(* a handler is a step, split only where it calls the task taken from the  *)
(* channel (the strand of that side is the thread t of BufferedChannel and *)
(* stays busy until Deliver).  Waiting is an asio timer: notify_one does   *)
(* not touch it but posts a handler that cancels one wait, and the end of  *)
(* a wait, cancelled or expired, is a handler posted in turn.  Posted      *)
(* cancellations are a count: they are all alike.  They and the end of a   *)
(* wait reach the strand by different ways and may run in either order.    *)
(***************************************************************************)
EXTENDS BufferedChannel

CONSTANTS
  Timed,        \* the sides that may pass a timeout that is not infinite
  MaxExpiries   \* bound: how many waits of a side may end by their timeout

ASSUME TimedAssumption ==
  Timed \subseteq {Reader, Writer} /\ MaxExpiries \in Nat

VARIABLES
  pc,          \* "ready" (the coroutine runs), "posted" (its callback is in the
               \* strand's queue), "waiting" (in the timer), "done"
  timer,       \* "idle", "armed", or how the wait ended: "cancelled", "expired"
  cancels,     \* handlers posted by notify_one and not run yet
  timeout,     \* the call in progress has a finite timeout
  status,      \* the bits of the last poll or push, NoStatus while it waits
  expiries,    \* history: how many waits of the side ended by their timeout
  aborts       \* history: how many of its calls returned no bit at all

xioVars == <<pc, timer, cancels, timeout, status, expiries, aborts>>
vars == <<chanVars, xioVars>>

Bits == {"SUCCESS", "CLOSED", "TIMEOUT"}
NoStatus == {"none yet"}
Status == {NoStatus} \cup SUBSET Bits

Init ==
  /\ ChanInit
  /\ pc = [s \in Sides |-> "ready"]
  /\ timer = [s \in Sides |-> "idle"]
  /\ cancels = [s \in Sides |-> 0]
  /\ timeout = [s \in Sides |-> FALSE]
  /\ status = [s \in Sides |-> NoStatus]
  /\ expiries = [s \in Sides |-> 0]
  /\ aborts = [s \in Sides |-> 0]

-----------------------------------------------------------------------------
Goto(s, l) == pc' = [pc EXCEPT ![s] = l]
SetTimer(s, x) == timer' = [timer EXCEPT ![s] = x]
SetStatus(s, bits) == status' = [status EXCEPT ![s] = bits]

\* async_io: the first try.  A complete one posts the caller's callback; one
\* that blocked arms the timer.  Nothing was waiting in it, so resetting its
\* expiry cancels nothing.
Start(s, timed) ==
  /\ pc[s] = "ready"
  /\ timed => s \in Timed /\ expiries[s] < MaxExpiries
  /\ \/ OpSuccess(s) /\ SetStatus(s, {"SUCCESS"})
        /\ Goto(s, "posted") /\ UNCHANGED <<timer, timeout>>
     \/ OpClosed(s) /\ SetStatus(s, {"CLOSED"})
        /\ Goto(s, "posted") /\ UNCHANGED <<timer, timeout>>
     \/ OpBlocked(s, s) /\ SetStatus(s, NoStatus)
        /\ Goto(s, "waiting") /\ SetTimer(s, "armed")
        /\ timeout' = [timeout EXCEPT ![s] = timed]
  /\ UNCHANGED <<cancels, expiries, aborts>>

\* The posted callback resumes the coroutine.
RunCallback(s) ==
  /\ pc[s] = "posted" /\ Free(s)
  /\ Goto(s, IF "CLOSED" \in status[s] THEN "done" ELSE "ready")
  /\ UNCHANGED <<chanVars, timer, cancels, timeout, status, expiries, aborts>>

\* A posted cancel_one: it ends the wait in progress, if there is one.
RunCancel(s) ==
  /\ cancels[s] > 0 /\ Free(s)
  /\ cancels' = [cancels EXCEPT ![s] = @ - 1]
  /\ SetTimer(s, IF timer[s] = "armed" THEN "cancelled" ELSE timer[s])
  /\ UNCHANGED <<chanVars, pc, timeout, status, expiries, aborts>>

\* The timer runs out, at any time: another thread runs the asio reactor.
TimerExpires(s) ==
  /\ timer[s] = "armed" /\ timeout[s]
  /\ SetTimer(s, "expired")
  /\ expiries' = [expiries EXCEPT ![s] = @ + 1]
  /\ UNCHANGED <<chanVars, pc, cancels, timeout, status, aborts>>

\* Faulty variant of RunWait: an expired wait is not tried again.
WaitGivesUp(s) ==
  /\ timer[s] = "expired" /\ Free(s)
  /\ SetTimer(s, "idle") /\ SetStatus(s, {"TIMEOUT"}) /\ Goto(s, "ready")
  /\ UNCHANGED <<chanVars, cancels, timeout, expiries, aborts>>

\* Faulty variant of RunWait: a wait that was cancelled starts over.
WaitStartsOver(s) ==
  /\ timer[s] = "cancelled"
  /\ OpBlocked(s, s) /\ SetTimer(s, "armed")
  /\ UNCHANGED <<pc, cancels, timeout, status, expiries, aborts>>

\* Faulty variant of RunWait: the second try is forgotten.
WaitJustReturns(s) ==
  /\ timer[s] \in {"cancelled", "expired"} /\ Free(s)
  /\ SetTimer(s, "idle") /\ SetStatus(s, {}) /\ Goto(s, "ready")
  /\ aborts' = [aborts EXCEPT ![s] = @ + 1]
  /\ UNCHANGED <<chanVars, cancels, timeout, expiries>>

\* The handler of the wait: one more try, with nullptr, then the callback.
RunWait(s) ==
  /\ timer[s] \in {"cancelled", "expired"}
  /\ SetTimer(s, "idle")
  /\ LET late == IF timer[s] = "expired" THEN {"TIMEOUT"} ELSE {} IN
     \/ OpSuccess(s) /\ SetStatus(s, {"SUCCESS"} \cup late)
        /\ Goto(s, "ready") /\ UNCHANGED aborts
     \/ OpClosed(s) /\ SetStatus(s, {"CLOSED"} \cup late)
        /\ Goto(s, "done") /\ UNCHANGED aborts
     \/ OpBlocked(s, None) /\ SetStatus(s, late) /\ Goto(s, "ready")
        /\ aborts' = [aborts EXCEPT ![s] = IF late = {} THEN @ + 1 ELSE @]
  /\ UNCHANGED <<cancels, timeout, expiries>>

\* get and put, from the coroutine.
TryOnly(s) ==
  /\ pc[s] = "ready"
  /\ \/ OpSuccess(s) /\ UNCHANGED pc
     \/ OpClosed(s) /\ Goto(s, "done")
     \/ OpBlocked(s, None) /\ UNCHANGED pc
  /\ UNCHANGED <<timer, cancels, timeout, status, expiries, aborts>>

\* close: any thread, and any coroutine of a strand, also while another one of
\* the same strand waits in poll.
CloseXio(t) == Close(t) /\ UNCHANGED xioVars

\* timer_wobj::notify_one, run as the task of the channel.
NotifyOne(t) ==
  /\ Deliver(t)
  /\ cancels' = [cancels EXCEPT ![inflight[t]] = @ + 1]
  /\ UNCHANGED <<pc, timer, timeout, status, expiries, aborts>>

Next ==
  \/ \E s \in Sides :
       \/ \E timed \in BOOLEAN : Start(s, timed)
       \/ RunCallback(s) \/ RunCancel(s) \/ TimerExpires(s) \/ RunWait(s)
       \/ TryOnly(s)
  \/ \E t \in Threads : CloseXio(t) \/ NotifyOne(t)

\* The executor runs every handler that is queued, and timers run out; nobody
\* has to start an operation.
Fairness ==
  /\ \A s \in Sides : /\ WF_vars(RunCallback(s)) /\ WF_vars(RunCancel(s))
                      /\ WF_vars(RunWait(s)) /\ WF_vars(TimerExpires(s))
  /\ \A t \in Threads : WF_vars(NotifyOne(t))

Spec == Init /\ [][Next]_vars
FairSpec == Spec /\ Fairness

-----------------------------------------------------------------------------
XioTypeOK ==
  /\ TypeOK
  /\ pc \in [Sides -> {"ready", "posted", "waiting", "done"}]
  /\ timer \in [Sides -> {"idle", "armed", "cancelled", "expired"}]
  /\ cancels \in [Sides -> Nat]
  /\ timeout \in [Sides -> BOOLEAN]
  /\ status \in [Sides -> Status]
  /\ expiries \in [Sides -> 0..MaxExpiries]
  /\ aborts \in [Sides -> Nat]

\* A coroutine suspended in poll or push whose operation could go on is resumed:
\* the end of its wait is queued, or a cancellation is, or some thread is about
\* to post one.
SuspendedIsResumed ==
  \A s \in Sides : pc[s] = "waiting" /\ CanGoOn(s) =>
     \/ timer[s] # "armed"
     \/ cancels[s] > 0
     \/ \E t \in Threads : inflight[t] = s

\* A late cancellation may end a later wait: at most one for each wait that
\* expired, so a side without timeouts is never aborted.
AbortsArePaidFor == \A s \in Sides : aborts[s] <= expiries[s]

\* A call without a timeout never comes back aborted (async_io asserts that such
\* a wait was cancelled, so whoever cancelled it made the operation possible).
UntimedNeverAborted == \A s \in Sides : status[s] = {} => timeout[s]

\* A call whose operation becomes possible comes back, and so does one with a
\* timeout even if nothing ever happens on the channel.
CallReturns ==
  \A s \in Sides :
    (pc[s] = "waiting" /\ (CanGoOn(s) \/ timeout[s])) ~> pc[s] \in {"ready", "done"}

\* The two users of the channel see a blocking pipe.
Pipe == INSTANCE BlockingPipe WITH
  pipe <- queue, ended <- closed, accepted <- written, delivered <- lastRead,
  op <- [s \in Sides |-> CASE pc[s] = "waiting" -> "pending"
                           [] pc[s] = "posted" /\ "CLOSED" \in status[s] -> "done"
                           [] pc[s] = "posted" /\ "CLOSED" \notin status[s] -> "ready"
                           [] OTHER -> pc[s]]

ImplementsPipe == Pipe!FairPipeSpec
=============================================================================
