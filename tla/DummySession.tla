----------------------------- MODULE DummySession -----------------------------
(***************************************************************************)
(* A session of the dummy service: the coroutine Dummy::run on a worker    *)
(* strand and a thread that uses BlockingIoHelper, joined by two channels. *)
(*                                                                         *)
(* The coroutine goes from state to state of the schema (dummy,            *)
(* model_loaded, instance) and never back.  It runs alone between two of   *)
(* its awaits except for put and get, which look at a channel once.        *)
(* BufferedChannel and TimerXio say that a channel used this way is a      *)
(* bounded queue with an end, and that is what each direction is here.     *)
(*                                                                         *)
(* A frame carries the number of the request it was made for, which the    *)
(* program does not have: it is there to tell a late frame from a good one.*)
(***************************************************************************)
EXTENDS Naturals, Sequences

CONSTANTS
  ToServer,      \* BackendIoBufferSizes::localToRemote
  ToClient,      \* BackendIoBufferSizes::remoteToLocal
  MaxRequests,   \* bound: requests of the client
  MaxTokens,     \* bound: tokens of a stream, and files to fetch
  Failing,       \* the operations that may end in an exception of the service
  Drops          \* the user of a stream may abandon it

Ops == {"load_model", "create_instance", "run", "stream"}

ASSUME SessionAssumption ==
  /\ ToServer \in Nat \ {0} /\ ToClient \in Nat \ {0}
  /\ MaxRequests \in Nat /\ MaxTokens \in Nat
  /\ Failing \subseteq Ops /\ Drops \in BOOLEAN

VARIABLES
  in,       \* frames for the service
  out,      \* frames for the client
  closed,   \* both channels are closed
  at,       \* where the coroutine is
  state,    \* which of runSession, runModel and runInstance is innermost
  reply,    \* the frame it is about to push
  left,     \* tokens, or files, still to come
  client,   \* where the client is
  op,       \* its request in progress, or the last one
  request,  \* the number of that request
  known,    \* the state it was told last
  stale,    \* history: it took a frame made for an earlier request
  aborted   \* history: it pushed an abort

serverVars == <<at, state, reply, left>>
clientVars == <<client, op, request, known, stale, aborted>>
vars == <<in, out, closed, serverVars, clientVars>>

States == {"dummy", "model_loaded", "instance"}

\* The operation each state accepts.
Accepts(s) ==
  CASE s = "dummy" -> {"load_model"}
    [] s = "model_loaded" -> {"create_instance"}
    [] s = "instance" -> {"run", "stream"}
    [] OTHER -> {}

Frame(f, n) == [op |-> f, id |-> n]
StateChange(s, n) == [op |-> "state", id |-> n, to |-> s]

Init ==
  /\ in = <<>> /\ out = <<>> /\ closed = FALSE
  /\ at = "push" /\ state = "dummy" /\ left = 0
  /\ reply = StateChange("dummy", 0)
  /\ client = "connect" /\ op = "none" /\ request = 0
  /\ known = "none" /\ stale = FALSE /\ aborted = FALSE

-----------------------------------------------------------------------------
\* The coroutine.  stream_closed_error is no runtime_error: wherever it comes
\* from, it ends run, whose endpoint closes both channels again.
End == at' = "ended" /\ UNCHANGED <<state, reply, left>>

Reply(frame) == at' = "push" /\ reply' = frame
Fail == Reply(Frame("error", reply.id)) /\ UNCHANGED <<state, left>>

\* co_await push: it waits for room.
Push(frame, next) ==
  \/ closed /\ UNCHANGED out /\ End
  \/ /\ ~closed /\ Len(out) < ToClient
     /\ out' = Append(out, frame)
     /\ next

\* put: a frame that finds no room is dropped.
Put(frame, next) ==
  \/ closed /\ UNCHANGED out /\ End
  \/ /\ ~closed
     /\ out' = IF Len(out) < ToClient THEN Append(out, frame) ELSE out
     /\ next

\* Abort_check: whatever frame is there is taken, and only an abort is allowed.
AbortCheck(none, abort) ==
  \/ in = <<>> /\ ~closed /\ UNCHANGED in /\ none
  \/ in = <<>> /\ closed /\ UNCHANGED in /\ End
  \/ in # <<>> /\ in' = Tail(in)
     /\ IF Head(in).op = "abort" THEN abort ELSE Fail

\* co_await push of what an operation came to, or of a state change; then the
\* innermost loop polls.
SendReply ==
  /\ at = "push"
  /\ Push(reply, at' = "poll" /\ UNCHANGED <<state, reply, left>>)
  /\ UNCHANGED <<in, closed, clientVars>>

\* What follows a request: each operation is accepted in its own state only.
LoadModel(n) ==
  /\ at' \in {"fetch", "load"} /\ left' \in 0..MaxTokens
  /\ reply' = Frame("error", n)   \* nothing is pushed yet
  /\ UNCHANGED state

\* Faulty variant of CreateInstance: the state changes before what may throw.
CreateInstanceEarly(n) ==
  /\ state' = "instance" /\ UNCHANGED left
  /\ \/ Reply(StateChange("instance", n))
     \/ "create_instance" \in Failing /\ Reply(Frame("error", n))

\* runInstance, once the instance has been constructed.
CreateInstance(n) ==
  state' = "instance" /\ Reply(StateChange("instance", n)) /\ UNCHANGED left

Run(n) == Reply(Frame("run", n)) /\ UNCHANGED <<state, left>>

StartStream(n) ==
  /\ at' = "tokens" /\ left' \in 0..MaxTokens
  /\ reply' = Frame("stream", n)
  /\ UNCHANGED state

\* An operation of another state, or an abort, is unknown here; parameters that
\* cannot be read throw like the operation itself.
Dispatch(f) ==
  \/ /\ f.op \in Accepts(state)
     /\ \/ f.op = "load_model" /\ LoadModel(f.id)
        \/ f.op = "create_instance" /\ CreateInstance(f.id)
        \/ f.op = "run" /\ Run(f.id)
        \/ f.op = "stream" /\ StartStream(f.id)
  \/ /\ f.op \in Accepts(state) => f.op \in Failing
     /\ Reply(Frame("error", f.id)) /\ UNCHANGED <<state, left>>

\* Faulty variant of PollRequest: the end of the channel is not noticed.
PollWithoutEnd ==
  /\ at = "poll" /\ in # <<>>
  /\ in' = Tail(in) /\ Dispatch(Head(in))
  /\ UNCHANGED <<out, closed, clientVars>>

\* co_await poll at the head of a loop.
PollRequest ==
  /\ at = "poll"
  /\ \/ in = <<>> /\ closed /\ UNCHANGED in /\ End
     \/ in # <<>> /\ in' = Tail(in) /\ Dispatch(Head(in))
  /\ UNCHANGED <<out, closed, clientVars>>

\* AssetMgr_makeAssetsAvailable: frames of the asset manager, one by one.
Fetch ==
  /\ at = "fetch"
  /\ \/ left = 0 /\ at' = "load" /\ UNCHANGED <<out, state, reply, left>>
     \/ "load_model" \in Failing /\ Fail /\ UNCHANGED out
     \/ left > 0 /\ Put(Frame("progress", reply.id),
                        at' = "fetchCheck" /\ left' = left - 1 /\ UNCHANGED <<state, reply>>)
  /\ UNCHANGED <<in, closed, clientVars>>

FetchCheck ==
  /\ at = "fetchCheck"
  /\ AbortCheck(at' = "fetch" /\ UNCHANGED <<state, reply, left>>, Fail)
  /\ UNCHANGED <<out, closed, clientVars>>

\* The rest of the beginning of runModel: the model is in the cache, or is made.
ModelReady ==
  /\ state' = "model_loaded" /\ UNCHANGED left
  /\ Reply(StateChange("model_loaded", reply.id))

Load ==
  /\ at = "load"
  /\ Put(Frame("progress", reply.id),
         ModelReady \/ (at' = "make" /\ UNCHANGED <<state, reply, left>>))
  /\ UNCHANGED <<in, closed, clientVars>>

Make ==
  /\ at = "make"
  /\ Put(Frame("progress", reply.id), ModelReady \/ ("load_model" \in Failing /\ Fail))
  /\ UNCHANGED <<in, closed, clientVars>>

\* runStream: the next token, which may throw, and a look for an abort.
StreamLoop ==
  /\ at = "tokens"
  /\ \/ left = 0 /\ at' = "push" /\ UNCHANGED <<in, state, reply, left>>
     \/ left > 0 /\ "stream" \in Failing /\ Fail /\ UNCHANGED in
     \/ left > 0 /\ AbortCheck(at' = "token" /\ UNCHANGED <<state, reply, left>>,
                               at' = "push" /\ UNCHANGED <<state, reply, left>>)
  /\ UNCHANGED <<out, closed, clientVars>>

PushToken ==
  /\ at = "token"
  /\ Push(Frame("token", reply.id),
          at' = "tokens" /\ left' = left - 1 /\ UNCHANGED <<state, reply>>)
  /\ UNCHANGED <<in, closed, clientVars>>

Server ==
  SendReply \/ PollRequest \/ Fetch \/ FetchCheck \/ Load \/ Make \/ StreamLoop \/ PushToken

-----------------------------------------------------------------------------
\* The client.  Operations with a stream of frames before their return.
Streamed == {"load_model", "stream"}
StreamFrame(o) == IF o = "stream" THEN "token" ELSE "progress"
ReturnFrame(o) == IF o \in {"run", "stream"} THEN o ELSE "state"

\* What poll does once there is a frame.
Take(f) ==
  /\ out' = Tail(out)
  /\ stale' = (stale \/ f.id # request)
  /\ UNCHANGED <<in, closed, serverVars, aborted>>

Learn(f) == known' = IF f.op = "state" THEN f.to ELSE known

Connect ==
  /\ client = "connect" /\ out # <<>>
  /\ \E f \in {Head(out)} : Take(f) /\ Learn(f)
  /\ client' = "idle"
  /\ UNCHANGED <<op, request>>

Request ==
  /\ client = "idle" /\ request < MaxRequests
  /\ op' \in Accepts(known)
  /\ request' = request + 1
  /\ client' = "initiate"
  /\ UNCHANGED <<in, out, closed, serverVars, known, stale, aborted>>

\* initiate: the blocking push of the parameters.
Initiate ==
  /\ client = "initiate" /\ Len(in) < ToServer
  /\ in' = Append(in, Frame(op, request))
  /\ client' = IF op \in Streamed THEN "stream" ELSE "call"
  /\ UNCHANGED <<out, closed, serverVars, op, request, known, stale, aborted>>

\* Faulty variant of CallPoll: a frame of another kind is skipped.
CallPollSkips ==
  /\ client = "call" /\ out # <<>>
  /\ \E f \in {Head(out)} :
       /\ Take(f)
       /\ IF f.op = ReturnFrame(op) THEN Learn(f) /\ client' = "idle"
          ELSE UNCHANGED <<known, client>>
  /\ UNCHANGED <<op, request>>

\* call: one frame decides, the return, an error, or one that is not expected
\* (the last two throw).
CallPoll ==
  /\ client = "call" /\ out # <<>>
  /\ \E f \in {Head(out)} :
       /\ Take(f)
       /\ IF f.op = ReturnFrame(op) THEN Learn(f) ELSE UNCHANGED known
  /\ client' = "idle"
  /\ UNCHANGED <<op, request>>

\* stream: frames are yielded until the return; anything else throws, and what
\* is thrown, like the end of a generator that was abandoned at a yield, runs
\* the sentry that pushes an abort.
StreamPoll ==
  /\ client = "stream" /\ out # <<>>
  /\ \E f \in {Head(out)} :
       /\ Take(f)
       /\ \/ f.op = StreamFrame(op) /\ UNCHANGED known
             /\ client' \in {"stream"} \cup (IF Drops THEN {"abort"} ELSE {})
          \/ f.op = ReturnFrame(op) /\ Learn(f) /\ client' = "idle"
          \/ f.op \notin {StreamFrame(op), ReturnFrame(op)}
             /\ client' = "abort" /\ UNCHANGED known
  /\ UNCHANGED <<op, request>>

Abort ==
  /\ client = "abort" /\ Len(in) < ToServer
  /\ in' = Append(in, Frame("abort", request))
  /\ client' = "idle" /\ aborted' = TRUE
  /\ UNCHANGED <<out, closed, serverVars, op, request, known, stale>>

\* close, or the destructor: between calls.
CloseClient ==
  /\ client = "idle"
  /\ closed' = TRUE /\ client' = "closed"
  /\ UNCHANGED <<in, out, serverVars, op, request, known, stale, aborted>>

Calling == Connect \/ Initiate \/ CallPoll \/ StreamPoll \/ Abort

Next == Server \/ Calling \/ Request \/ CloseClient

Spec == Init /\ [][Next]_vars

\* The strand runs the coroutine, and a call of the client goes on; it need not
\* make one.
FairSpec == Spec /\ WF_vars(Server) /\ WF_vars(Calling)

-----------------------------------------------------------------------------
FrameType ==
  [op : Ops \cup {"abort", "error", "progress", "token"}, id : Nat]
  \cup [op : {"state"}, id : Nat, to : States]

TypeOK ==
  /\ in \in Seq(FrameType) /\ Len(in) <= ToServer
  /\ out \in Seq(FrameType) /\ Len(out) <= ToClient
  /\ closed \in BOOLEAN
  /\ at \in {"push", "poll", "fetch", "fetchCheck", "load", "make", "tokens", "token", "ended"}
  /\ state \in States /\ reply \in FrameType /\ left \in 0..MaxTokens
  /\ client \in {"connect", "idle", "initiate", "call", "stream", "abort", "closed"}
  /\ op \in Ops \cup {"none"} /\ request \in 0..MaxRequests
  /\ known \in States \cup {"none"} /\ stale \in BOOLEAN /\ aborted \in BOOLEAN

\* After a call that failed the session can be used again: every frame a call
\* takes was made for that call (t-dummy-schema.cpp, lines 47 to 53, makes a
\* call that fails and then one that must succeed).
AnswersBelong == ~stale

\* Until the client pushes an abort, every frame a call takes was made for it,
\* and between two calls, failed ones too, the client knows which state the
\* service is in and nothing is left over in either channel.
InStep ==
  aborted \/ /\ ~stale
             /\ client = "idle" => in = <<>> /\ out = <<>> /\ at = "poll" /\ state = known

\* Until then, although client and service may both wait for room in a channel of one
\* frame, they do not wait for each other: a call comes back, with its return or with an exception.
CallReturns == client \notin {"idle", "closed"} ~> client \in {"idle", "closed"} \/ aborted

\* The coroutine, and with it the instance and the lock of the model, ends when
\* the client has closed, wherever it was.
SessionEnds == client = "closed" ~> at = "ended"
=============================================================================
