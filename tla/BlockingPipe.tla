----------------------------- MODULE BlockingPipe -----------------------------
(***************************************************************************)
(* What the two users of poll and push on one channel are promised,        *)
(* whatever wakes them: a bounded first-in first-out pipe with an end.     *)
(* An operation that cannot be done is pending, and a pending operation    *)
(* comes back by moving a message or by finding the pipe closed; it does   *)
(* come back when it can.  A side that uses timeouts may also give up, but *)
(* not while the operation is possible.                                    *)
(***************************************************************************)
EXTENDS Naturals, Sequences

CONSTANTS
  Reader, Writer, MaxSize, MaxWritten,
  Timed      \* the sides that use timeouts

VARIABLES
  pipe,      \* messages accepted and not yet delivered; they are numbered
  ended,     \* the pipe has been closed
  accepted,  \* number of messages pushed so far
  delivered, \* the last message polled
  op         \* per side: "ready", "pending", or "done": it was told of the end

pipeVars == <<pipe, ended, accepted, delivered, op>>

PipeInit ==
  /\ pipe = <<>> /\ ended = FALSE
  /\ accepted = 0 /\ delivered = 0
  /\ op = [s \in {Reader, Writer} |-> "ready"]

Now(s, o) == op' = [op EXCEPT ![s] = o]

Push ==
  /\ op[Writer] # "done" /\ ~ended
  /\ Len(pipe) < MaxSize /\ accepted < MaxWritten
  /\ accepted' = accepted + 1
  /\ pipe' = Append(pipe, accepted')
  /\ Now(Writer, "ready")
  /\ UNCHANGED <<ended, delivered>>

Poll ==
  /\ op[Reader] # "done"
  /\ pipe # <<>>
  /\ delivered' = Head(pipe)
  /\ pipe' = Tail(pipe)
  /\ Now(Reader, "ready")
  /\ UNCHANGED <<ended, accepted>>

\* A pushing side learns of the end at once, a polling side when it has drained
\* the pipe.
LearnEnd(s) ==
  /\ op[s] # "done" /\ ended
  /\ s = Reader => pipe = <<>>
  /\ Now(s, "done")
  /\ UNCHANGED <<pipe, ended, accepted, delivered>>

Impossible(s) == ~ended /\ IF s = Reader THEN pipe = <<>> ELSE Len(pipe) = MaxSize

Suspend(s) ==
  /\ op[s] = "ready" /\ Impossible(s)
  /\ Now(s, "pending")
  /\ UNCHANGED <<pipe, ended, accepted, delivered>>

GiveUp(s) ==
  /\ s \in Timed /\ op[s] = "pending" /\ Impossible(s)
  /\ Now(s, "ready")
  /\ UNCHANGED <<pipe, ended, accepted, delivered>>

End ==
  /\ ended' = TRUE
  /\ UNCHANGED <<pipe, accepted, delivered, op>>

PipeNext ==
  \/ Push \/ Poll \/ End
  \/ \E s \in {Reader, Writer} : LearnEnd(s) \/ Suspend(s) \/ GiveUp(s)

\* A pending operation that stays possible is completed.
Complete(s) ==
  /\ op[s] = "pending"
  /\ \/ s = Writer /\ Push
     \/ s = Reader /\ Poll
     \/ LearnEnd(s)

PipeSpec == PipeInit /\ [][PipeNext]_pipeVars
FairPipeSpec == PipeSpec /\ \A s \in {Reader, Writer} : WF_pipeVars(Complete(s))
=============================================================================
