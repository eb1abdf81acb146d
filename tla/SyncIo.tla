-------------------------------- MODULE SyncIo --------------------------------
(***************************************************************************)
(* io::sync_io: a client without threads.  Its calls run the tasks of the  *)
(* execution context themselves, and with them the service, a coroutine    *)
(* that is suspended in a poll or push of its xio and resumed by a task.   *)
(*                                                                         *)
(* The service answers each request with some frames, pushing and polling  *)
(* as a session does.  That channels keep their order is BufferedChannel's *)
(* business, so here they are counted.                                     *)
(***************************************************************************)
EXTENDS Naturals

CONSTANTS
  OutSize,       \* capacity of the channel to the service
  InSize,        \* capacity of the channel to the client
  Replies        \* how many frames the service may push before it polls again

ASSUME SyncAssumption ==
  OutSize \in Nat \ {0} /\ InSize \in Nat \ {0} /\ Replies \subseteq Nat

VARIABLES
  call,          \* what the client is in: "none", "get", "put" or "close"
  result,        \* what its last call returned: "start", of get "frame" or "nothing",
                 \* of put "accepted" or "full", of close "end"
  outgoing,      \* frames in the channel to the service
  incoming,      \* frames in the channel to the client
  isClosed,      \* the client has closed both
  service,       \* "polling", "pushing" or "ended"
  toPush,        \* frames the service has to push before it polls
  ready          \* a task of the context will resume the service

syncVars == <<call, result, outgoing, incoming, isClosed, service, toPush, ready>>
servVars == <<service, toPush, ready>>

\* The service is spawned: it greets its client with a frame, as every session does.
SyncInit ==
  /\ call = "none" /\ result = "start"
  /\ outgoing = 0 /\ incoming = 0 /\ isClosed = FALSE
  /\ service = "pushing" /\ toPush = 1 /\ ready = TRUE

-----------------------------------------------------------------------------
\* An operation of the client that the suspended service waits for, or its close,
\* calls the callback, which posts a task.
Notifies(at) == ready' = (ready \/ service = at)

\* get: the tasks first, then one try.
BeginGet ==
  /\ call = "none" /\ ~isClosed
  /\ call' = "get"
  /\ UNCHANGED <<result, outgoing, incoming, isClosed, servVars>>

\* Faulty variant of FinishGet: one try, whatever there is to run.
FinishGetUnrun ==
  /\ call = "get"
  /\ call' = "none"
  /\ IF incoming > 0
     THEN /\ result' = "frame" /\ incoming' = incoming - 1
          /\ Notifies("pushing")
     ELSE /\ result' = "nothing" /\ UNCHANGED <<incoming, ready>>
  /\ UNCHANGED <<outgoing, isClosed, service, toPush>>

FinishGet ==
  /\ call = "get" /\ ~ready
  /\ call' = "none"
  /\ IF incoming > 0
     THEN /\ result' = "frame" /\ incoming' = incoming - 1
          /\ Notifies("pushing")
     ELSE /\ result' = "nothing" /\ UNCHANGED <<incoming, ready>>
  /\ UNCHANGED <<outgoing, isClosed, service, toPush>>

\* put: one try, then the tasks.
BeginPut ==
  /\ call = "none" /\ ~isClosed
  /\ call' = "put"
  /\ IF outgoing < OutSize
     THEN /\ result' = "accepted" /\ outgoing' = outgoing + 1
          /\ Notifies("polling")
     ELSE /\ result' = "full" /\ UNCHANGED <<outgoing, ready>>
  /\ UNCHANGED <<incoming, isClosed, service, toPush>>

\* close, also from the destructor: both channels, then the tasks.  Nobody will read
\* what is in the channel to the client.
BeginClose ==
  /\ call = "none" /\ ~isClosed
  /\ call' = "close" /\ isClosed' = TRUE
  /\ ready' = (service # "ended")
  /\ UNCHANGED <<result, outgoing, incoming, service, toPush>>

FinishCall ==
  /\ call \in {"put", "close"} /\ ~ready
  /\ call' = "none"
  /\ result' = IF call = "close" THEN "end" ELSE result
  /\ UNCHANGED <<outgoing, incoming, isClosed, servVars>>

-----------------------------------------------------------------------------
(* run_tasks, one step of the service at a time                              *)

Running == call # "none" /\ ready

TakeRequest ==
  /\ Running /\ service = "polling" /\ outgoing > 0
  /\ outgoing' = outgoing - 1
  /\ toPush' \in Replies
  /\ service' = IF toPush' = 0 THEN "polling" ELSE "pushing"
  /\ UNCHANGED <<call, result, incoming, isClosed, ready>>

PushReply ==
  /\ Running /\ service = "pushing" /\ ~isClosed /\ incoming < InSize
  /\ incoming' = incoming + 1
  /\ toPush' = toPush - 1
  /\ service' = IF toPush' = 0 THEN "polling" ELSE "pushing"
  /\ UNCHANGED <<call, result, outgoing, isClosed, ready>>

\* The operation blocks, and its callback is stored.
Suspend ==
  /\ Running /\ ~isClosed
  /\ \/ service = "polling" /\ outgoing = 0
     \/ service = "pushing" /\ incoming = InSize
  /\ ready' = FALSE
  /\ UNCHANGED <<call, result, outgoing, incoming, isClosed, service, toPush>>

\* stream_closed_error; what was accepted before is polled first.
EndService ==
  /\ Running /\ isClosed
  /\ service = "pushing" \/ (service = "polling" /\ outgoing = 0)
  /\ service' = "ended" /\ ready' = FALSE
  /\ UNCHANGED <<call, result, outgoing, incoming, isClosed, toPush>>

SyncNext ==
  \/ BeginGet \/ FinishGet \/ BeginPut \/ BeginClose \/ FinishCall
  \/ TakeRequest \/ PushReply \/ Suspend \/ EndService
  \/ result = "end" /\ UNCHANGED syncVars

SyncSpec == SyncInit /\ [][SyncNext]_syncVars

-----------------------------------------------------------------------------
SyncTypeOK ==
  /\ call \in {"none", "get", "put", "close"}
  /\ result \in {"start", "frame", "nothing", "accepted", "full", "end"}
  /\ outgoing \in 0..OutSize /\ incoming \in 0..InSize
  /\ isClosed \in BOOLEAN /\ ready \in BOOLEAN
  /\ service \in {"polling", "pushing", "ended"}
  /\ toPush \in Nat

\* The client has no thread that would run the service later, so a call must not
\* leave behind what it waits for: a get that returns without a frame has left the
\* service waiting for a request, with nothing on its way to either side; a put
\* leaves it waiting for a request, or for room because the client has not read;
\* and when close has returned, the service has ended.
NothingLeftBehind ==
  call = "none" =>
    /\ result = "nothing" => ~ready /\ service = "polling" /\ outgoing = 0 /\ incoming = 0
    /\ result \in {"accepted", "full"} =>
         ~ready /\ (\/ service = "polling" /\ outgoing = 0
                    \/ service = "pushing" /\ incoming = InSize)
    /\ result = "end" => service = "ended"
=============================================================================
