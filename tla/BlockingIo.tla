----------------------------- MODULE BlockingIo -----------------------------
(***************************************************************************)
(* ac::io::blocking_io over one buffered channel: a reading thread that    *)
(* calls poll and get, a writing thread that calls push and put.           *)
(*                                                                         *)
(* poll and push are basic_xio::async_io with cvar_wobj as the wait object *)
(* and an executor whose post is a call: the operation is tried with a     *)
(* callback that notifies the wait object; when it blocks, the thread      *)
(* waits on the condition variable, and when the wait ends, notified or    *)
(* timed out, it tries once more with nullptr and returns what that gave.  *)
(* Input and output have a wait object each, so flag has one entry a side. *)
(***************************************************************************)
EXTENDS BufferedChannel

CONSTANTS
  Timed,        \* the sides that may pass a timeout that is not infinite
  MaxExpiries   \* bound: how many waits of a side may end by their timeout

ASSUME TimedAssumption ==
  Timed \subseteq {Reader, Writer} /\ MaxExpiries \in Nat

VARIABLES
  flag,       \* cvar_wobj::m_flag
  pc,         \* "ready" between calls, "waiting" in the cvar, "retry" after it,
              \* "done" when the side has been told of the end and calls no more
  timeout,    \* the call in progress has a finite timeout
  expired,    \* the wait ended by its timeout
  expiries,   \* history: how many waits of the side ended by their timeout
  aborts      \* history: how many of its calls returned no bit at all

ioVars == <<flag, pc, timeout, expired, expiries, aborts>>
vars == <<chanVars, ioVars>>

Init ==
  /\ ChanInit
  /\ flag = [s \in Sides |-> FALSE]
  /\ pc = [s \in Sides |-> "ready"]
  /\ timeout = [s \in Sides |-> FALSE]
  /\ expired = [s \in Sides |-> FALSE]
  /\ expiries = [s \in Sides |-> 0]
  /\ aborts = [s \in Sides |-> 0]

-----------------------------------------------------------------------------
Goto(s, l) == pc' = [pc EXCEPT ![s] = l]
\* The call returns: a status without any bit means aborted.
Return(s, bits) ==
  /\ aborts' = [aborts EXCEPT ![s] = IF bits = {} THEN @ + 1 ELSE @]
  /\ Goto(s, IF "CLOSED" \in bits THEN "done" ELSE "ready")

\* init_async_io: the first try, with notify_one_on_blocked(m_wobj).
Start(s, timed) ==
  /\ pc[s] = "ready"
  /\ timed => s \in Timed /\ expiries[s] < MaxExpiries
  /\ \/ OpSuccess(s) /\ Return(s, {"SUCCESS"}) /\ UNCHANGED timeout
     \/ OpClosed(s) /\ Return(s, {"CLOSED"}) /\ UNCHANGED timeout
     \/ /\ OpBlocked(s, s)
        /\ Goto(s, "waiting")
        /\ timeout' = [timeout EXCEPT ![s] = timed]
        /\ UNCHANGED aborts
  /\ UNCHANGED <<flag, expired, expiries>>

\* Faulty variants of the next three: a predicate that reads the flag and
\* leaves it, the test of is_infinite inverted, a notification that only wakes.
WaitKeepsFlag(s) ==
  /\ pc[s] = "waiting" /\ flag[s]
  /\ expired' = [expired EXCEPT ![s] = FALSE]
  /\ Goto(s, "retry")
  /\ UNCHANGED <<chanVars, flag, timeout, expiries, aborts>>

WaitInverted(s) ==
  /\ pc[s] = "waiting" /\ ~timeout[s] /\ ~flag[s]
  /\ expired' = [expired EXCEPT ![s] = TRUE]
  /\ expiries' = [expiries EXCEPT ![s] = @ + 1]
  /\ Goto(s, "retry")
  /\ UNCHANGED <<chanVars, flag, timeout, aborts>>

NotifyWithoutFlag(t) ==
  Deliver(t) /\ UNCHANGED ioVars

\* just_wait: the predicate takes the flag; it is looked at once more when the
\* time is up, so a wait times out only with the flag down.
WaitNotified(s) ==
  /\ pc[s] = "waiting" /\ flag[s]
  /\ flag' = [flag EXCEPT ![s] = FALSE]
  /\ expired' = [expired EXCEPT ![s] = FALSE]
  /\ Goto(s, "retry")
  /\ UNCHANGED <<chanVars, timeout, expiries, aborts>>

WaitExpires(s) ==
  /\ pc[s] = "waiting" /\ timeout[s] /\ ~flag[s]
  /\ expired' = [expired EXCEPT ![s] = TRUE]
  /\ expiries' = [expiries EXCEPT ![s] = @ + 1]
  /\ Goto(s, "retry")
  /\ UNCHANGED <<chanVars, flag, timeout, aborts>>

\* The handler of the wait: one more try, with nullptr.
Retry(s) ==
  /\ pc[s] = "retry"
  /\ LET late == IF expired[s] THEN {"TIMEOUT"} ELSE {} IN
     \/ OpSuccess(s) /\ Return(s, {"SUCCESS"} \cup late)
     \/ OpClosed(s) /\ Return(s, {"CLOSED"} \cup late)
     \/ OpBlocked(s, None) /\ Return(s, late)
  /\ UNCHANGED <<flag, timeout, expired, expiries>>

\* get and put: one try with nullptr; the caller looks at the result at once.
TryOnly(s) ==
  /\ pc[s] = "ready"
  /\ \/ OpSuccess(s) /\ UNCHANGED pc
     \/ OpClosed(s) /\ Goto(s, "done")
     \/ OpBlocked(s, None) /\ UNCHANGED pc
  /\ UNCHANGED <<flag, timeout, expired, expiries, aborts>>

\* close, or the destructor of the endpoint: a thread in poll does neither.
CloseIo(t) ==
  /\ t \in Sides => pc[t] \in {"ready", "done"}
  /\ Close(t)
  /\ UNCHANGED ioVars

\* cvar_wobj::notify_one, run as the task of the channel.
NotifyOne(t) ==
  /\ Deliver(t)
  /\ flag' = [flag EXCEPT ![inflight[t]] = TRUE]
  /\ UNCHANGED <<pc, timeout, expired, expiries, aborts>>

Next ==
  \/ \E s \in Sides :
       \/ \E timed \in BOOLEAN : Start(s, timed)
       \/ WaitNotified(s) \/ WaitExpires(s) \/ Retry(s)
       \/ TryOnly(s)
  \/ \E t \in Threads : CloseIo(t) \/ NotifyOne(t)

\* Every thread inside a call keeps running; nobody has to make a call.
Fairness ==
  /\ \A s \in Sides : WF_vars(WaitNotified(s)) /\ WF_vars(Retry(s))
  /\ \A s \in Timed : WF_vars(WaitExpires(s))
  /\ \A t \in Threads : WF_vars(NotifyOne(t))

Spec == Init /\ [][Next]_vars
FairSpec == Spec /\ Fairness

-----------------------------------------------------------------------------
IoTypeOK ==
  /\ TypeOK
  /\ flag \in [Sides -> BOOLEAN]
  /\ pc \in [Sides -> {"ready", "waiting", "retry", "done"}]
  /\ timeout \in [Sides -> BOOLEAN]
  /\ expired \in [Sides -> BOOLEAN]
  /\ expiries \in [Sides -> 0..MaxExpiries]
  /\ aborts \in [Sides -> Nat]

\* A thread asleep in poll or push whose operation could go on is going to be
\* woken: the flag is up, or some thread is about to raise it.
SleeperIsWoken ==
  \A s \in Sides : pc[s] = "waiting" /\ CanGoOn(s) =>
     flag[s] \/ \E t \in Threads : inflight[t] = s

\* "Aborted" (no bit at all) belongs to the sides that use timeouts, as the
\* comment in status.hpp says: there a notification can come after the wait it
\* was meant for and end a later one.  Each expired wait costs at most one call,
\* and a side that never waits with a timeout is never aborted.
AbortsArePaidFor == \A s \in Sides : aborts[s] <= expiries[s]

\* A poll or push that can be completed returns, and so does one with a timeout
\* even if nothing ever happens on the channel.
CallReturns ==
  \A s \in Sides :
    (pc[s] = "waiting" /\ (CanGoOn(s) \/ timeout[s])) ~> pc[s] \in {"ready", "done"}

\* The two users of the channel see a blocking pipe.
Pipe == INSTANCE BlockingPipe WITH
  pipe <- queue, ended <- closed, accepted <- written, delivered <- lastRead,
  op <- [s \in Sides |-> IF pc[s] \in {"waiting", "retry"} THEN "pending" ELSE pc[s]]

ImplementsPipe == Pipe!FairPipeSpec
=============================================================================
