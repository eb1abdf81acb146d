--------------------------- MODULE BackendServices ---------------------------
(***************************************************************************)
(* The services of a DefaultBackend: clients on threads of their own find  *)
(* or instantiate the asset manager service and connect to it, its strand  *)
(* in the io context runs one coroutine for each session and one that      *)
(* keeps the manager alive, and the destructor of BackendShutdown takes    *)
(* the services down before it joins the threads.                          *)
(*                                                                         *)
(* A request is for the one op of the manager, with parameters that can be *)
(* read, lack a field or have a field of another type, or for another op.  *)
(* A frame is a record of its kind and of the request it belongs to.  What *)
(* poll and push do while they wait is in TimerXio; here they go on when   *)
(* there is a frame, or room, or the channel is closed.                    *)
(***************************************************************************)
EXTENDS BackendShutdown, SequencesExt

CONSTANTS
  Clients,      \* threads that use the backend
  Requests,     \* what a client may ask for: the assets are "file" or "bad"
  MaxRequests,  \* bound: requests of each client
  InSize,       \* remoteToLocal: frames in the channel to the client
  OutSize       \* localToRemote: frames in the channel to the service

NoClient == "nobody"
RequestKinds == {"assets", "unknown op", "incomplete", "mistyped"}

ASSUME ServicesAssumption ==
  /\ NoClient \notin Clients
  /\ Requests \subseteq [kind : RequestKinds, assets : Seq({"file", "bad"})]
  /\ MaxRequests \in [Clients -> Nat]
  /\ {InSize, OutSize} \subseteq Nat \ {0}

VARIABLES
  mutex,        \* m_mutex of Backend: who holds it
  instances,    \* services the factory has created
  service,      \* the unique_ptr of the service: "none", "live" or "gone"
  manager,      \* coroutine and service hold the AssetManager: the set of them
  strand,       \* jobs of the manager's strand, in order
  keeper,       \* runService: "none", "waiting" or "done"
  client,       \* per client: how far it is
  session,      \* per client: the coroutine runSession
  requests,     \* frames on their way to the service
  frames,       \* frames on their way to the client
  told,         \* history: frames sent since the session began its last request
  asked,        \* how many requests the client has sent
  io            \* the io context: "up", "no guard", "exited" or "joined"; "terminated"
                \* when std::terminate has ended the program

svcVars == <<mutex, instances, service, manager, strand, keeper, client, session,
             requests, frames, told, asked, io>>
allVars == <<vars, svcVars>>

NoSession == [at |-> "none", number |-> 0, kind |-> "assets", assets |-> <<>>, asset |-> 0]

ServicesInit ==
  /\ Init
  /\ mutex = NoClient /\ instances = 0 /\ service = "none" /\ manager = {}
  /\ strand = <<>> /\ keeper = "none" /\ io = "up"
  /\ client = [c \in Clients |-> "idle"]
  /\ session = [c \in Clients |-> NoSession]
  /\ requests = [c \in Clients |-> <<>>] /\ frames = [c \in Clients |-> <<>>]
  /\ told = [c \in Clients |-> <<>>] /\ asked = [c \in Clients |-> 0]

-----------------------------------------------------------------------------
(* Clients.  The program calls the backend only while it is not destroying it *)

\* Faulty variant of LockServices: without the lock.
LockNothing(c) ==
  /\ client[c] = "idle" /\ ~Destroying
  /\ client' = [client EXCEPT ![c] = "looking"]
  /\ UNCHANGED <<vars, mutex, instances, service, manager, strand, keeper, session, requests,
                 frames, told, asked, io>>

\* getService: under the lock, the service that matches.
LockServices(c) ==
  /\ client[c] = "idle" /\ mutex = NoClient /\ ~Destroying
  /\ mutex' = c /\ client' = [client EXCEPT ![c] = "looking"]
  /\ UNCHANGED <<vars, instances, service, manager, strand, keeper, session, requests, frames,
                 told, asked, io>>

FindInstance(c) ==
  /\ client[c] = "looking"
  /\ IF service = "live" THEN mutex' = NoClient /\ client' = [client EXCEPT ![c] = "found"]
                         ELSE UNCHANGED mutex /\ client' = [client EXCEPT ![c] = "creating"]
  /\ UNCHANGED <<vars, instances, service, manager, strand, keeper, session, requests, frames,
                 told, asked, io>>

\* createService: the constructor of the service spawns the keeper.
CreateService(c) ==
  /\ client[c] = "creating"
  /\ instances' = instances + 1
  /\ service' = "live" /\ manager' = {"service", "keeper"}
  /\ strand' = Append(strand, <<"start keeper">>)
  /\ mutex' = NoClient /\ client' = [client EXCEPT ![c] = "found"]
  /\ UNCHANGED <<vars, keeper, session, requests, frames, told, asked, io>>

\* connect: the endpoints, and createSession with one of them.
Attach(c) ==
  /\ client[c] = "found"
  /\ client' = [client EXCEPT ![c] = "open"]
  /\ strand' = Append(strand, <<"start session", c>>)
  /\ UNCHANGED <<vars, mutex, instances, service, manager, keeper, session, requests, frames,
                 told, asked, io>>

Ask(c) ==
  /\ client[c] = "open" /\ Len(requests[c]) < OutSize /\ asked[c] < MaxRequests[c]
  /\ asked' = [asked EXCEPT ![c] = @ + 1]
  /\ \E r \in Requests : requests' = [requests EXCEPT ![c] = Append(@, r)]
  /\ UNCHANGED <<vars, mutex, instances, service, manager, strand, keeper, client, session,
                 frames, told, io>>

Hear(c) ==
  /\ client[c] = "open" /\ frames[c] # <<>>
  /\ frames' = [frames EXCEPT ![c] = Tail(@)]
  /\ UNCHANGED <<vars, mutex, instances, service, manager, strand, keeper, client, session,
                 requests, told, asked, io>>

\* The client closes its endpoint, or the endpoint goes: the frames for it are lost,
\* its requests can still be read.
Leave(c) ==
  /\ client[c] = "open"
  /\ client' = [client EXCEPT ![c] = "closed"]
  /\ frames' = [frames EXCEPT ![c] = <<>>]
  /\ UNCHANGED <<vars, mutex, instances, service, manager, strand, keeper, session, requests,
                 told, asked, io>>

-----------------------------------------------------------------------------
(* The strand of the manager: the keeper and the sessions                    *)

\* The jobs of a strand run one by one, in the order they were posted.
RunStrand ==
  /\ io \in {"up", "no guard"} /\ strand # <<>>
  /\ strand' = Tail(strand)
  /\ CASE Head(strand)[1] = "start keeper" ->
            keeper' = "waiting" /\ UNCHANGED <<manager, session>>
       [] Head(strand)[1] = "start session" ->
            /\ session' = [session EXCEPT ![Head(strand)[2]].at = "greeting"]
            /\ UNCHANGED <<keeper, manager>>
       [] Head(strand)[1] = "cancel" ->   \* the wait has no timeout, and the keeper waits
            keeper' = "done" /\ manager' = manager \ {"keeper"} /\ UNCHANGED session
  /\ UNCHANGED <<vars, mutex, instances, service, client, requests, frames, told, asked, io>>

Closed(c) == client[c] = "closed"
Goes(c, s) ==
  /\ io \in {"up", "no guard"}
  /\ session' = [session EXCEPT ![c] = s]
  /\ UNCHANGED <<vars, mutex, instances, service, manager, strand, keeper, client, asked, io>>

\* stream_closed_error ends the coroutine, from wherever it is thrown, and with it the
\* channels go.
Ends(c) ==
  /\ Goes(c, [NoSession EXCEPT !.at = "ended"])
  /\ requests' = [requests EXCEPT ![c] = <<>>] /\ told' = [told EXCEPT ![c] = <<>>]
  /\ UNCHANGED frames

Send(c, frame) ==
  /\ frames' = [frames EXCEPT ![c] = Append(@, frame)]
  /\ told' = [told EXCEPT ![c] = Append(@, frame)]
  /\ UNCHANGED requests

\* io.push: waits for room.
PushFrame(c, frame, next) ==
  \/ Closed(c) /\ Ends(c)
  \/ ~Closed(c) /\ Len(frames[c]) < InSize /\ Send(c, frame) /\ Goes(c, next)

\* io.put: a frame for which there is no room is dropped.
PutFrame(c, frame, next) ==
  \/ Closed(c) /\ Ends(c)
  \/ ~Closed(c) /\ Len(frames[c]) < InSize /\ Send(c, frame) /\ Goes(c, next)
  \/ ~Closed(c) /\ Len(frames[c]) = InSize /\ Goes(c, next) /\ UNCHANGED <<requests, frames, told>>

Frame(kind, s) == [kind |-> kind, number |-> s.number, asset |-> s.asset]

Greet(c) ==
  /\ session[c].at = "greeting"
  /\ PushFrame(c, Frame("state", session[c]), [session[c] EXCEPT !.at = "polling"])

\* The parameters have been read, or the error that the inner catch makes of a field
\* that is not there, or that answers another op, is all there is to send.
Begin(s, r) ==
  [s EXCEPT !.at = IF r.kind # "assets" THEN "error"
                   ELSE IF r.assets = <<>> THEN "reply" ELSE "fetch",
            !.number = @ + 1, !.kind = r.kind, !.assets = r.assets, !.asset = 1]

\* What reading a field of another type throws is no runtime_error: neither catch takes
\* it, it leaves the top coroutine of its strand, and that ends the program (coro.hpp:79).
Terminate ==
  /\ io \in {"up", "no guard"} /\ io' = "terminated"
  /\ UNCHANGED <<vars, mutex, instances, service, manager, strand, keeper, client, session,
                 requests, frames, told, asked>>

\* io.poll: a request, or the end.
PollRequest(c) ==
  LET s == session[c] IN
  /\ s.at = "polling"
  /\ \/ /\ requests[c] # <<>> /\ Head(requests[c]).kind # "mistyped"
        /\ Goes(c, Begin(s, Head(requests[c])))
        /\ requests' = [requests EXCEPT ![c] = Tail(@)]
        /\ told' = [told EXCEPT ![c] = <<>>]
        /\ UNCHANGED frames
     \/ requests[c] # <<>> /\ Head(requests[c]).kind = "mistyped" /\ Terminate
     \/ requests[c] = <<>> /\ Closed(c) /\ Ends(c)

NextAsset(s) ==
  IF s.asset < Len(s.assets) THEN [s EXCEPT !.at = "fetch", !.asset = @ + 1]
                           ELSE [s EXCEPT !.at = "reply"]

\* Faulty variant of FetchAsset: nobody looks whether the asset is there.
FetchAnything(c) ==
  LET s == session[c] IN
  s.at = "fetch" /\ PutFrame(c, Frame("begin", s), [s EXCEPT !.at = "fetched"])

\* makeAssetsAvailable: a frame before and one after each asset, up to one that is
\* not there or is not a file.
FetchAsset(c) ==
  LET s == session[c] IN
  /\ s.at = "fetch"
  /\ PutFrame(c, Frame("begin", s),
              [s EXCEPT !.at = IF s.assets[s.asset] = "file" THEN "fetched" ELSE "error"])

AssetFetched(c) ==
  LET s == session[c] IN
  s.at = "fetched" /\ PutFrame(c, Frame("end", s), NextAsset(s))

\* The return, or the error that the inner catch makes of the exception.
Reply(c) ==
  LET s == session[c] IN
  /\ s.at \in {"reply", "error"}
  /\ PushFrame(c, Frame(IF s.at = "reply" THEN "return" ELSE "error", s),
               [s EXCEPT !.at = "polling"])

RunSession(c) == Greet(c) \/ PollRequest(c) \/ FetchAsset(c) \/ AssetFetched(c) \/ Reply(c)

-----------------------------------------------------------------------------
(* The destructor                                                            *)

NotInCall == \A c \in Clients : client[c] \notin {"looking", "creating", "found"}

NotifyStrands == NotInCall /\ Notify /\ UNCHANGED svcVars

\* Faulty variant of DropServices: the service goes without a word to its keeper.
DropSilently ==
  /\ DropMembers
  /\ service' = "gone" /\ manager' = manager \ {"service"}
  /\ UNCHANGED <<strand, mutex, instances, keeper, client, session, requests, frames, told, asked, io>>

\* With the members of Backend the service goes: its destructor notifies the keeper.
DropServices ==
  /\ DropMembers
  /\ service' = "gone" /\ manager' = manager \ {"service"}
  /\ strand' = IF service = "live" THEN Append(strand, <<"cancel">>) ELSE strand
  /\ UNCHANGED <<mutex, instances, keeper, client, session, requests, frames, told, asked, io>>

IoGuard ==
  /\ Returned /\ io = "up"
  /\ io' = "no guard"
  /\ UNCHANGED <<vars, mutex, instances, service, manager, strand, keeper, client, session,
                 requests, frames, told, asked>>

\* The threads of the io context leave run when no coroutine waits on its strands.
IoExits ==
  /\ io = "no guard" /\ strand = <<>> /\ keeper # "waiting"
  /\ \A c \in Clients : session[c].at \in {"none", "ended"}
  /\ io' = "exited"
  /\ UNCHANGED <<vars, mutex, instances, service, manager, strand, keeper, client, session,
                 requests, frames, told, asked>>

IoJoin ==
  /\ io = "exited"
  /\ io' = "joined"
  /\ UNCHANGED <<vars, mutex, instances, service, manager, strand, keeper, client, session,
                 requests, frames, told, asked>>

Rest == (\E s \in Ids : Strand(s) \/ TimerExpires(s)) \/ ResetGuard \/ Join

Calls(c) == LockServices(c) \/ FindInstance(c) \/ CreateService(c) \/ Attach(c)

\* Nothing runs in a program that has been terminated.
Running == io # "terminated"

ServicesNext ==
  /\ Running
  /\ \/ Rest /\ UNCHANGED svcVars
     \/ NotifyStrands \/ DropServices \/ IoGuard \/ IoExits \/ IoJoin
     \/ RunStrand
     \/ \E c \in Clients : Calls(c) \/ Ask(c) \/ Hear(c) \/ Leave(c) \/ RunSession(c)

\* As in BackendShutdown; and the threads of the io context run.  Clients need not
\* do anything.
ServicesSpec ==
  /\ ServicesInit /\ [][ServicesNext]_allVars
  /\ \A s \in Ids : /\ WF_allVars(Running /\ StartGc(s) /\ UNCHANGED svcVars)
                    /\ WF_allVars(Running /\ RunCancel(s) /\ UNCHANGED svcVars)
                    /\ WF_allVars(Running /\ GcLoop(s) /\ UNCHANGED svcVars)
                    /\ WF_allVars(Running /\ ThreadExits(s) /\ UNCHANGED svcVars)
                    /\ WF_allVars(Running /\ TimerExpires(s) /\ UNCHANGED svcVars)
  /\ WF_allVars(/\ Running /\ Destroying
                /\ \/ NotifyStrands \/ DropServices
                   \/ (ResetGuard \/ Join) /\ UNCHANGED svcVars
                   \/ IoGuard \/ IoJoin)
  /\ WF_allVars(RunStrand) /\ WF_allVars(IoExits)
  /\ \A c \in Clients : WF_allVars(RunSession(c))

-----------------------------------------------------------------------------
\* However many clients look for it at once, one service is instantiated; the
\* AssetManager lives until the cancellation that refers to its wait object has
\* run, goes with the service and its keeper, and when the destructor has
\* returned no coroutine of a service is left on its strand.
ServicesLiveAndGo ==
  /\ instances <= 1
  /\ Contains(strand, <<"cancel">>) => "keeper" \in manager
  /\ "service" \in manager <=> service = "live"
  /\ keeper = "done" => service = "gone"
  /\ io = "joined" => /\ manager = {} /\ strand = <<>>
                      /\ \A c \in Clients : session[c].at \in {"none", "ended"}

Answers == {"return", "error"}

\* The place of a frame among those of its request.
Place(f) ==
  CASE f.kind = "begin" -> 2 * f.asset
    [] f.kind = "end" -> 2 * f.asset + 1
    [] f.kind \in Answers -> 2 * f.asset + 2
    [] f.kind = "state" -> 0

Answer(s) == IF s.kind # "assets" \/ "bad" \in ToSet(s.assets) THEN "error" ELSE "return"

\* Although frames of progress are dropped when the client is slow, each request is
\* answered once, behind its own progress in the order of the assets and before
\* anything of the next: by a return if and only if it is for the op of the manager,
\* can be read and every asset is there.  Only a request with a field of another type
\* has no answer, as there is no program left to give it.
EachRequestAnswered ==
  /\ \A c \in Clients :
       LET s == session[c]
           n == Len(told[c])
       IN /\ \A i \in 1..n : told[c][i].number = s.number
          /\ \A i \in 1..n - 1 : /\ Place(told[c][i]) < Place(told[c][i + 1])
                                /\ told[c][i].kind \notin Answers
          /\ s.at = "polling" => n > 0
          /\ s.at = "polling" /\ s.number > 0 => told[c][n].kind = Answer(s)
  /\ io = "terminated" =>
       \E c \in Clients : /\ session[c].at = "polling" /\ requests[c] # <<>>
                         /\ Head(requests[c]).kind = "mistyped"

\* The destructor of DefaultBackend returns when all clients have left, unless a request
\* ends the program first: it waits for them, and for nothing else but a lost
\* cancellation.
BackendReturns ==
  (Destroying /\ \A c \in Clients : client[c] \in {"idle", "closed"})
    ~> (io \in {"joined", "terminated"} \/ \E s \in Ids : lost[s])
=============================================================================
