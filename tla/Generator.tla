------------------------------ MODULE Generator ------------------------------
(***************************************************************************)
(* astl::generator: a coroutine that yields values to whoever resumes it,  *)
(* through next() or through the iterators of a range-for.  A generator    *)
(* owns the frame of its coroutine; the promise in the frame holds the     *)
(* yielded value, the returned one and the exception that ended the body.  *)
(***************************************************************************)
EXTENDS Integers, SequencesExt

CONSTANTS
  Generators,    \* the generator objects of the program
  Frames,        \* the coroutine frames it may allocate
  Bodies         \* what a coroutine does: [yields |-> values, ends |-> "return" or "throw"]

\* The handle of a generator without a coroutine.
NoFrame == "no frame"

ASSUME GnAssumption ==
  /\ \A b \in Bodies : b.yields \in Seq(Nat \ {0}) /\ b.ends \in {"return", "throw"}
  /\ NoFrame \notin Frames

VARIABLES
  gen,           \* m_handle of every generator: a frame or NoFrame
  frame,         \* the frames
  consumed       \* history: what the consumer was given from each frame

gnVars == <<gen, frame, consumed>>

NoValue == 0
MovedOut == -1
Threw == -2
Finished == -3

NoCoroutine == [state |-> "none", body |-> <<>>, yielded |-> 0, yval |-> NoValue, threw |-> FALSE]
Created(b) == [NoCoroutine EXCEPT !.state = "suspended", !.body = <<b>>]
Body(f) == frame[f].body[1]
Done(f) == frame[f].state = "done"

GnInit ==
  /\ gen = [g \in Generators |-> NoFrame]
  /\ frame = [f \in Frames |-> NoCoroutine]
  /\ consumed = [f \in Frames |-> <<>>]

-----------------------------------------------------------------------------
\* The body runs from where it is to its next co_yield or to its end:
\* yield_value, return_value and unhandled_exception, final_suspend.
RunBody(x) ==
  LET b == x.body[1]
  IN IF x.yielded < Len(b.yields)
     THEN [x EXCEPT !.yielded = @ + 1, !.yval = b.yields[x.yielded + 1]]
     ELSE [x EXCEPT !.state = "done", !.threw = b.ends = "throw"]

\* Faulty variant of Resumed: the value of the last yield is left in the promise.
ResumedUncleared(x) == RunBody(x)

\* safe_resume: what was yielded before is gone, then the body runs.
Resumed(x) == RunBody([x EXCEPT !.yval = NoValue])

\* What the consumer sees of a resumed coroutine.
Seen(x) == IF x.threw THEN Threw ELSE IF x.yval = NoValue THEN Finished ELSE x.yval

DestroyFrame(f, frames) ==
  IF f = NoFrame THEN frames
  ELSE [frames EXCEPT ![f].state = IF @ \in {"suspended", "done"} THEN "destroyed" ELSE "corrupt"]

-----------------------------------------------------------------------------
GnCreate(g) ==
  /\ gen[g] = NoFrame
  /\ \E f \in Frames, b \in Bodies :
       /\ frame[f].state = "none"
       /\ gen' = [gen EXCEPT ![g] = f]
       /\ frame' = [frame EXCEPT ![f] = Created(b)]
  /\ UNCHANGED consumed

\* next(): the value is moved out of the promise; empty when the body has ended.
GnNextValue(g) ==
  LET f == gen[g]
      x == Resumed(frame[f])
  IN /\ f # NoFrame
     /\ IF Done(f)
        THEN /\ consumed' = [consumed EXCEPT ![f] = IF Last(@) = Finished THEN @ ELSE Append(@, Finished)]
             /\ UNCHANGED frame
        ELSE /\ frame' = [frame EXCEPT ![f] =
                            IF x.yval = NoValue THEN x ELSE [x EXCEPT !.yval = MovedOut]]
             /\ consumed' = [consumed EXCEPT ![f] = Append(@, Seen(x))]
     /\ UNCHANGED gen

\* begin() and operator++, for a loop that has not come to its end; operator* reads
\* the value where it is.
GnIterate(g) ==
  LET f == gen[g]
      x == Resumed(frame[f])
  IN /\ f # NoFrame /\ ~Done(f)
     /\ frame' = [frame EXCEPT ![f] = x]
     /\ consumed' = [consumed EXCEPT ![f] = Append(@, Seen(x))]
     /\ UNCHANGED gen

\* The move constructor and the move assignment.
GnMove(g, h) ==
  /\ g # h
  /\ frame' = DestroyFrame(gen[g], frame)
  /\ gen' = [gen EXCEPT ![g] = gen[h], ![h] = NoFrame]
  /\ UNCHANGED consumed

\* reset() and the destructor.
GnReset(g) ==
  /\ gen[g] # NoFrame
  /\ frame' = DestroyFrame(gen[g], frame)
  /\ gen' = [gen EXCEPT ![g] = NoFrame]
  /\ UNCHANGED consumed

GnNext ==
  \/ \E g \in Generators : GnCreate(g) \/ GnNextValue(g) \/ GnIterate(g) \/ GnReset(g)
  \/ \E g, h \in Generators : GnMove(g, h)

GnSpec == GnInit /\ [][GnNext]_gnVars

-----------------------------------------------------------------------------
\* All a consumer can get from a coroutine: its values in order, its exception if
\* it ends with one, and that it has ended.
Promised(f) ==
  Body(f).yields \o (IF Body(f).ends = "throw" THEN <<Threw>> ELSE <<>>) \o <<Finished>>

\* However a generator is consumed and moved about, the consumer gets each value
\* once and in order, never one that was moved out before, learns of the exception
\* exactly once and of the end only when there is nothing left; and a frame lives
\* while exactly one generator owns it, no longer, and is destroyed once.
GeneratesItsBody ==
  /\ \A f \in Frames : frame[f].state # "none" => IsPrefix(consumed[f], Promised(f))
  /\ \A f \in Frames :
       Cardinality({g \in Generators : gen[g] = f})
         = (IF frame[f].state \in {"suspended", "done"} THEN 1 ELSE 0)
  /\ \A f \in Frames : frame[f].state # "corrupt"
=============================================================================
