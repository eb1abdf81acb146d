----------------------------- MODULE BackendProofs -----------------------------
(***************************************************************************)
(* Theorems about BackendShutdown and BackendServices, for any number of   *)
(* strands, clients and requests of any length.                            *)
(*                                                                         *)
(* The first part is about the destructor alone.  The services run beside  *)
(* it and take nothing from it, so its theorems carry over.  What is       *)
(* added: m_mutex lets one client create the service, the strand runs the  *)
(* keeper's start first and its cancellation last, and what a session has  *)
(* sent lies before what it sends next.                                    *)
(***************************************************************************)
EXTENDS BackendServices, SequenceTheorems, TLAPS

\* How many strands ~Backend has notified.
Notified == IF main[1] = "join" THEN N ELSE main[2]

\* Where the destructor is decides what is still owned and guarded.
PhaseInv ==
  /\ main[1] = "alive" => main[2] = 0
  /\ \A s \in Ids : /\ owned[s] <=> main[1] # "join"
                    /\ ~guard[s] => main[1] = "join"

\* A strand is notified once: its cancellation is posted, or has been spent on the
\* wait of a coroutine that then ends, or was lost; before, the coroutine runs.
OnceInv ==
  \A s \in Ids :
    /\ s > Notified => cancels[s] = 0 /\ timer[s] # "cancelled" /\ gc[s] # "done"
    /\ cancels[s] # 0 => cancels[s] = 1 /\ timer[s] # "cancelled" /\ gc[s] # "done"
    /\ timer[s] = "cancelled" => gc[s] = "waiting"
    /\ thread[s] = "exited" => gc[s] = "done" /\ ~guard[s]

ShutdownInv == TypeOK /\ PhaseInv /\ OnceInv

-----------------------------------------------------------------------------
\* There is a strand.
LEMMA StrandsCounted == N \in Nat /\ N > 0
BY StrandsAssumption DEF N

\* Nothing is posted and nobody has been told to stop when Backend is constructed.
LEMMA ShutdownInitially == Init => ShutdownInv
<1> SUFFICES ASSUME Init PROVE ShutdownInv
  OBVIOUS
<1>1. Ids \subseteq Nat \ {0} /\ main[1] = "alive" /\ main[2] = 0
  BY StrandsCounted DEF Ids, Init
<1>2. TypeOK
  BY StrandsCounted DEF Init, TypeOK
<1>3. PhaseInv
  BY <1>1 DEF Init, PhaseInv
<1>4. OnceInv
  BY <1>1 DEF Init, OnceInv, Notified
<1> QED
  BY <1>2, <1>3, <1>4 DEF ShutdownInv

\* Every step keeps the invariant: one case per action.
LEMMA ShutdownStep == ShutdownInv /\ [Next]_vars => ShutdownInv'
<1> USE StrandsCounted DEF ShutdownInv, TypeOK, PhaseInv, OnceInv, Notified, Ids, Set
<1> SUFFICES ASSUME ShutdownInv, [Next]_vars
             PROVE  ShutdownInv'
  OBVIOUS
<1>1. ASSUME NEW s \in Ids, StartGc(s) PROVE ShutdownInv'
  BY <1>1 DEF StartGc
<1>2. ASSUME NEW s \in Ids, TimerExpires(s) PROVE ShutdownInv'
  BY <1>2 DEF TimerExpires
<1>3. ASSUME NEW s \in Ids, RunCancel(s) PROVE ShutdownInv'
  BY <1>3 DEF RunCancel
<1>4. ASSUME NEW s \in Ids, GcLoop(s) PROVE ShutdownInv'
  BY <1>4 DEF GcLoop
<1>5. ASSUME NEW s \in Ids, ThreadExits(s) PROVE ShutdownInv'
  BY <1>5 DEF ThreadExits
<1>6. CASE Notify
  BY <1>6 DEF Notify
<1>7. CASE DropMembers
  BY <1>7 DEF DropMembers
<1>8. CASE ResetGuard
  BY <1>8 DEF ResetGuard
<1>9. CASE Join
  BY <1>9 DEF Join
<1>10. CASE UNCHANGED vars
  BY <1>10 DEF vars
<1> QED
  BY <1>1, <1>2, <1>3, <1>4, <1>5, <1>6, <1>7, <1>8, <1>9, <1>10 DEF Next, Strand, Destructor

\* The posted cancellation never outlives the wait object it refers to
\* (timer_wobj::notify_one, called by ~Backend).
THEOREM WobjOutlivesCancel == Spec => []CancelFindsWobj
<1>1. ShutdownInv => CancelFindsWobj
  BY DEF ShutdownInv, TypeOK, OnceInv, CancelFindsWobj
<1> QED
  BY <1>1, ShutdownInitially, ShutdownStep, PTL DEF Spec

\* A gc coroutine ends only when the backend is being destroyed, and its thread
\* leaves nothing behind (BackendWorkerStrandState::gc).
THEOREM GcStopsInTime == Spec => []GcEndsWithBackend
<1>1. ShutdownInv => GcEndsWithBackend
  BY StrandsCounted DEF ShutdownInv, TypeOK, PhaseInv, OnceInv, Notified, GcEndsWithBackend,
     Destroying, Ids
<1> QED
  BY <1>1, ShutdownInitially, ShutdownStep, PTL DEF Spec

-----------------------------------------------------------------------------
\* The jobs of the strand.
StartKeeper == <<"start keeper">>
Cancel == <<"cancel">>
StartSession(c) == <<"start session", c>>

Jobs == {StartKeeper, Cancel} \cup {StartSession(c) : c \in Clients}
Sessions ==
  [at : {"none", "greeting", "polling", "fetch", "fetched", "reply", "error", "ended"},
   number : Nat, kind : RequestKinds, assets : Seq({"file", "bad"}), asset : Nat]
Frames == [kind : {"state", "begin", "end"} \cup Answers, number : Nat, asset : Nat]

LifeTypes ==
  /\ mutex \in Clients \cup {NoClient} /\ instances \in Nat
  /\ service \in {"none", "live", "gone"} /\ manager \subseteq {"service", "keeper"}
  /\ strand \in Seq(Jobs) /\ keeper \in {"none", "waiting", "done"}
  /\ client \in [Clients -> {"idle", "looking", "creating", "found", "open", "closed"}]
  /\ io \in {"up", "no guard", "exited", "joined", "terminated"}

\* One client at a time looks for the service, under the lock, and the one that
\* creates it has seen that there is none; when the destructor begins nobody is in a
\* call, so that later the service is gone for good.
LockInv ==
  /\ \A c \in Clients : /\ client[c] \in {"looking", "creating"} <=> mutex = c
                        /\ client[c] = "creating" => service = "none"
                        /\ client[c] \in {"found", "open", "closed"} => service # "none"
  /\ Destroying => NotInCall
  /\ service = "none" => instances = 0
  /\ service = "live" => instances = 1
  /\ instances <= 1
  /\ service = "gone" <=> main[1] = "join"

\* The strand runs the start of the keeper before everything else, and the
\* cancellation after everything else.
KeeperInv ==
  /\ "service" \in manager <=> service = "live"
  /\ "keeper" \in manager <=> (instances = 1 /\ keeper # "done")
  /\ instances = 0 => strand = <<>> /\ keeper = "none"
  /\ instances = 1 /\ keeper = "none" => strand # <<>> /\ strand[1] = StartKeeper
  /\ \A i \in DOMAIN strand :
       /\ strand[i] = StartKeeper => i = 1 /\ keeper = "none"
       /\ strand[i] = Cancel => /\ service = "gone" /\ keeper # "done"
                                     /\ i = Len(strand)
  /\ keeper = "done" => service = "gone"

IoInv ==
  /\ io \in {"no guard", "exited", "joined"} => Returned
  /\ io \in {"exited", "joined"} =>
       /\ strand = <<>> /\ keeper # "waiting"
       /\ \A c \in Clients : session[c].at \in {"none", "ended"}

LifeInv == LifeTypes /\ LockInv /\ KeeperInv /\ IoInv

-----------------------------------------------------------------------------
\* A session is started once, by the job its client has posted.
StartInv ==
  \A c \in Clients :
    /\ \A i \in DOMAIN strand : strand[i] = StartSession(c) =>
         /\ session[c] = NoSession /\ client[c] \in {"open", "closed"}
         /\ \A j \in DOMAIN strand : strand[j] = StartSession(c) => j = i
    /\ session[c].at # "none" => client[c] \in {"open", "closed"}
    /\ session[c].at \in {"none", "greeting", "ended"} =>
         session[c] = [NoSession EXCEPT !.at = session[c].at]

\* What has been sent for a request lies before this place.
NextPlace(s) ==
  CASE s.at = "fetch" -> 2 * s.asset
    [] s.at = "fetched" -> 2 * s.asset + 1
    [] s.at \in {"reply", "error"} -> 2 * s.asset + 2
    [] OTHER -> 0

\* The assets up to the one a session is at are there, if it is about assets.
AssetsThere(s) ==
  /\ s.at \in {"fetch", "fetched", "reply"} => s.kind = "assets"
  /\ s.at \in {"fetch", "fetched"} => s.asset \in 1..Len(s.assets)
  /\ s.at \in {"fetch", "fetched"} => \A i \in 1..(s.asset - 1) : s.assets[i] = "file"
  /\ s.at = "fetched" => s.assets[s.asset] = "file"
  /\ s.at = "error" /\ s.kind = "assets" =>
       s.asset \in 1..Len(s.assets) /\ s.assets[s.asset] = "bad"
  /\ s.at = "reply" => \A i \in 1..Len(s.assets) : s.assets[i] = "file"

\* What a session at s has told for its request is in order, and behind it is room for
\* what comes next.
SentInOrder(s, t) ==
  /\ \A i \in 1..Len(t) : t[i].number = s.number
  /\ \A i \in 1..(Len(t) - 1) : Place(t[i]) < Place(t[i + 1]) /\ t[i].kind \notin Answers
  /\ s.at = "polling" => /\ Len(t) > 0
                         /\ s.number > 0 => t[Len(t)].kind = Answer(s)
  /\ s.at # "polling" =>
       \A i \in 1..Len(t) : Place(t[i]) < NextPlace(s) /\ t[i].kind \notin Answers

Sound(s, t) == s \in Sessions /\ t \in Seq(Frames) /\ AssetsThere(s) /\ SentInOrder(s, t)

RequestInv ==
  /\ requests \in [Clients -> Seq(Requests)]
  /\ session \in [Clients -> Sessions] /\ told \in [Clients -> Seq(Frames)]
  /\ StartInv
  /\ \A c \in Clients : Sound(session[c], told[c])

\* A mistyped request was at the head of a channel when the program ended.
ThrownInv ==
  io = "terminated" =>
    \E c \in Clients : /\ session[c].at = "polling" /\ requests[c] # <<>>
                      /\ Head(requests[c]).kind = "mistyped"

-----------------------------------------------------------------------------
(* The services take nothing from the shutdown                               *)

\* A backend that was just constructed is one of BackendShutdown.
LEMMA ServicesInitially == ServicesInit => Init
BY DEF ServicesInit

\* Every step here is one of BackendShutdown, or none of its.
LEMMA ServicesStepIsShutdownStep == [ServicesNext]_allVars => [Next]_vars
<1> SUFFICES ASSUME [ServicesNext]_allVars PROVE [Next]_vars
  OBVIOUS
<1>1. CASE Rest
  BY <1>1 DEF Rest, Next, Destructor
<1>2. CASE NotifyStrands
  BY <1>2 DEF NotifyStrands, Next, Destructor
<1>3. CASE DropServices
  BY <1>3 DEF DropServices, Next, Destructor
<1>4. CASE IoGuard \/ IoExits \/ IoJoin
  BY <1>4 DEF IoGuard, IoExits, IoJoin
<1>5. CASE RunStrand
  BY <1>5 DEF RunStrand
<1>6. ASSUME NEW c \in Clients, Calls(c) \/ Ask(c) \/ Hear(c) \/ Leave(c) PROVE UNCHANGED vars
  BY <1>6 DEF Calls, LockServices, FindInstance, CreateService, Attach, Ask, Hear, Leave
<1>7. ASSUME NEW c \in Clients, RunSession(c) PROVE UNCHANGED vars
  BY <1>7 DEF RunSession, Greet, PollRequest, Terminate, FetchAsset, AssetFetched, Reply,
     PushFrame, PutFrame, Ends, Goes
<1>8. CASE UNCHANGED allVars
  BY <1>8 DEF allVars
<1> QED
  BY <1>1, <1>2, <1>3, <1>4, <1>5, <1>6, <1>7, <1>8 DEF ServicesNext

\* What BackendShutdown says of the destructor, its threads and their strands, is
\* true of a backend with services and clients.
THEOREM ServicesRefineShutdown == ServicesSpec => Spec
<1>1. ServicesSpec => ServicesInit /\ [][ServicesNext]_allVars
  BY PTL DEF ServicesSpec
<1> QED
  BY <1>1, ServicesInitially, ServicesStepIsShutdownStep, PTL DEF Spec

\* The cancellation posted by ~Backend to a strand finds the wait object of its gc
\* coroutine, services or not.
THEOREM ServicesLeaveWobj == ServicesSpec => []CancelFindsWobj
BY ServicesRefineShutdown, WobjOutlivesCancel, PTL

\* The gc coroutines end with the backend, services or not.
THEOREM ServicesLeaveGc == ServicesSpec => []GcEndsWithBackend
BY ServicesRefineShutdown, GcStopsInTime, PTL

\* So what was proved of the shutdown holds with services and clients too.
LEMMA ShutdownUnderServices == ServicesSpec => []ShutdownInv
<1>1. Spec => []ShutdownInv
  BY ShutdownInitially, ShutdownStep, PTL DEF Spec
<1> QED
  BY <1>1, ServicesRefineShutdown, PTL

-----------------------------------------------------------------------------
(* The life of the service                                                   *)

\* The jobs of the strand are told apart, and each session has its own.
LEMMA JobsAreApart ==
  /\ StartKeeper # Cancel
  /\ \A c \in Clients : /\ StartSession(c) # StartKeeper /\ StartSession(c) # Cancel
                        /\ \A d \in Clients : StartSession(c) = StartSession(d) => c = d
  /\ StartKeeper \in Jobs /\ Cancel \in Jobs /\ \A c \in Clients : StartSession(c) \in Jobs
<1>1. StartKeeper[1] = "start keeper" /\ Cancel[1] = "cancel"
  BY DEF StartKeeper, Cancel
<1>2. \A c \in Clients : StartSession(c)[1] = "start session" /\ StartSession(c)[2] = c
  BY DEF StartSession
<1>3. StartKeeper # Cancel
  BY <1>1
<1>4. ASSUME NEW c \in Clients
      PROVE  /\ StartSession(c) # StartKeeper /\ StartSession(c) # Cancel
             /\ \A d \in Clients : StartSession(c) = StartSession(d) => c = d
  BY <1>1, <1>2
<1> QED
  BY <1>3, <1>4 DEF Jobs

\* A job that is posted is the last of the strand,
LEMMA AppendJob ==
  ASSUME strand \in Seq(Jobs), NEW j \in Jobs, strand' = Append(strand, j)
  PROVE  /\ strand' \in Seq(Jobs) /\ Len(strand') = Len(strand) + 1 /\ Len(strand) \in Nat
         /\ DOMAIN strand = 1..Len(strand) /\ DOMAIN strand' = 1..(Len(strand) + 1)
         /\ \A i \in 1..Len(strand) : strand'[i] = strand[i]
         /\ strand'[Len(strand) + 1] = j
OBVIOUS

\* and the one that runs is the first.
LEMMA RunJob ==
  ASSUME strand \in Seq(Jobs), strand # <<>>, strand' = Tail(strand)
  PROVE  /\ strand' \in Seq(Jobs) /\ Len(strand) \in Nat /\ Len(strand') = Len(strand) - 1
         /\ Len(strand) > 0 /\ Head(strand) = strand[1] /\ Head(strand) \in Jobs
         /\ DOMAIN strand = 1..Len(strand) /\ DOMAIN strand' = 1..(Len(strand) - 1)
         /\ \A i \in 1..(Len(strand) - 1) : strand'[i] = strand[i + 1]
OBVIOUS

\* What running a job does, by the kind of the job.
LEMMA JobRuns ==
  ASSUME RunStrand, strand \in Seq(Jobs)
  PROVE  \/ /\ Head(strand) = StartKeeper
            /\ keeper' = "waiting" /\ UNCHANGED <<manager, session>>
         \/ /\ Head(strand) = Cancel
            /\ keeper' = "done" /\ manager' = manager \ {"keeper"} /\ UNCHANGED session
         \/ \E c \in Clients : /\ Head(strand) = StartSession(c)
                               /\ session' = [session EXCEPT ![c].at = "greeting"]
                               /\ UNCHANGED <<keeper, manager>>
<1>1. Head(strand) \in Jobs
  BY RunJob DEF RunStrand
<1>2. CASE Head(strand) = StartKeeper
  <2>1. StartKeeper[1] = "start keeper"
    BY DEF StartKeeper
  <2> QED
    BY <1>2, <2>1 DEF RunStrand
<1>3. CASE Head(strand) = Cancel
  <2>1. Cancel[1] = "cancel"
    BY DEF Cancel
  <2> QED
    BY <1>3, <2>1 DEF RunStrand
<1>4. ASSUME NEW c \in Clients, Head(strand) = StartSession(c)
      PROVE  /\ session' = [session EXCEPT ![c].at = "greeting"]
             /\ UNCHANGED <<keeper, manager>>
  <2>1. StartSession(c)[1] = "start session" /\ StartSession(c)[2] = c
    BY DEF StartSession
  <2> QED
    BY <1>4, <2>1 DEF RunStrand
<1> QED
  BY <1>1, <1>2, <1>3, <1>4 DEF Jobs

\* Nothing was created yet.
LEMMA LifeInitially == ServicesInit => LifeInv
<1> SUFFICES ASSUME ServicesInit PROVE LifeInv
  OBVIOUS
<1>1. LifeTypes
  BY DEF ServicesInit, LifeTypes
<1>2. LockInv
  BY ServicesAssumption DEF ServicesInit, Init, LockInv, Destroying, NotInCall
<1>3. KeeperInv
  BY DEF ServicesInit, KeeperInv
<1>4. IoInv
  BY DEF ServicesInit, IoInv
<1> QED
  BY <1>1, <1>2, <1>3, <1>4 DEF LifeInv

\* The steps that a session and its client take without the strand's queue and the
\* service.
Talk == \E c \in Clients : Ask(c) \/ Hear(c) \/ RunSession(c)

\* What a session and its client say to each other is none of the service's life, but
\* that it may end the program.
LEMMA TalkKeepsLife ==
  Talk => /\ UNCHANGED <<vars, mutex, instances, service, manager, strand, keeper, client>>
          /\ UNCHANGED io \/ io' = "terminated"
BY DEF Talk, Ask, Hear, RunSession, Greet, PollRequest, Terminate, FetchAsset, AssetFetched,
   Reply, PushFrame, PutFrame, Ends, Goes

\* Every step keeps the types.
LEMMA LifeTypesStep == LifeTypes /\ [ServicesNext]_allVars => LifeTypes'
<1> SUFFICES ASSUME LifeTypes, [ServicesNext]_allVars PROVE LifeTypes'
  OBVIOUS
<1> USE DEF LifeTypes
<1>1. CASE \/ Rest /\ UNCHANGED svcVars
           \/ NotifyStrands
           \/ UNCHANGED allVars
  BY <1>1 DEF NotifyStrands, svcVars, allVars
<1>2. CASE Talk
  BY <1>2, TalkKeepsLife
<1>3. CASE DropServices
  <2>1. strand' = strand \/ strand' = Append(strand, Cancel)
    BY <1>3 DEF DropServices, Cancel
  <2>2. strand' \in Seq(Jobs)
    BY <2>1, JobsAreApart, AppendJob
  <2> QED
    BY <1>3, <2>2 DEF DropServices
<1>4. CASE IoGuard \/ IoExits \/ IoJoin
  BY <1>4 DEF IoGuard, IoExits, IoJoin
<1>5. CASE RunStrand
  <2>1. strand' \in Seq(Jobs) /\ Head(strand) \in Jobs
    BY <1>5, RunJob DEF RunStrand
  <2>2. manager' \subseteq {"service", "keeper"} /\ keeper' \in {"none", "waiting", "done"}
    BY <1>5, JobRuns
  <2> QED
    BY <1>5, <2>1, <2>2 DEF RunStrand
<1>6. ASSUME NEW c \in Clients, Calls(c) \/ Leave(c) PROVE LifeTypes'
  <2>1. CASE LockServices(c)
    BY <2>1 DEF LockServices
  <2>2. CASE FindInstance(c)
    BY <2>2 DEF FindInstance
  <2>3. CASE CreateService(c)
    <3>1. strand' = Append(strand, StartKeeper)
      BY <2>3 DEF CreateService, StartKeeper
    <3>2. strand' \in Seq(Jobs)
      BY <3>1, JobsAreApart, AppendJob
    <3>3. client' \in [Clients -> {"idle", "looking", "creating", "found", "open", "closed"}]
      BY <2>3 DEF CreateService
    <3>4. /\ mutex' = NoClient /\ service' = "live" /\ manager' = {"service", "keeper"}
          /\ keeper' = keeper /\ io' = io /\ instances' = instances + 1
      BY <2>3, Zenon DEF CreateService
    <3>5. instances' \in Nat
      <4>1. instances \in Nat /\ instances' = instances + 1
        BY <3>4
      <4> HIDE DEF LifeTypes
      <4> QED
        BY <4>1
    <3>6. manager' \subseteq {"service", "keeper"}
      BY <3>4
    <3>7. mutex' \in Clients \cup {NoClient} /\ service' \in {"none", "live", "gone"}
      BY <3>4
    <3> QED
      BY <3>2, <3>3, <3>4, <3>5, <3>6, <3>7
  <2>4. CASE Attach(c)
    <3>1. strand' = Append(strand, StartSession(c))
      BY <2>4 DEF Attach, StartSession
    <3>2. strand' \in Seq(Jobs)
      BY <3>1, JobsAreApart, AppendJob
    <3>3. client' \in [Clients -> {"idle", "looking", "creating", "found", "open", "closed"}]
      BY <2>4 DEF Attach
    <3> QED
      BY <2>4, <3>2, <3>3 DEF Attach
  <2>5. CASE Leave(c)
    BY <2>5 DEF Leave
  <2> QED
    BY <1>6, <2>1, <2>2, <2>3, <2>4, <2>5 DEF Calls
<1> QED
  BY <1>1, <1>2, <1>3, <1>4, <1>5, <1>6 DEF ServicesNext, Talk

\* The destructor of BackendShutdown goes on behind the services' backs, but for the
\* two steps that concern them.
LEMMA RestKeepsPhase ==
  ASSUME Rest, UNCHANGED svcVars
  PROVE  /\ main'[1] = main[1] /\ (Returned => Returned')
         /\ UNCHANGED <<mutex, instances, service, manager, strand, keeper, client, session, io>>
<1>1. UNCHANGED <<mutex, instances, service, manager, strand, keeper, client, session, io>>
  BY DEF svcVars
<1>2. CASE \E s \in Ids : Strand(s) \/ TimerExpires(s)
  BY <1>1, <1>2 DEF Strand, StartGc, RunCancel, GcLoop, ThreadExits, TimerExpires, Returned
<1>3. CASE ResetGuard
  BY <1>1, <1>3 DEF ResetGuard, Returned
<1>4. CASE Join
  <2>1. PICK s \in Ids : main = <<"join", s>> /\ main' = <<"join", s - 1>>
    BY <1>4 DEF Join
  <2>2. s # 0
    BY StrandsCounted DEF Ids
  <2> QED
    BY <1>1, <2>1, <2>2 DEF Returned
<1> QED
  BY <1>2, <1>3, <1>4 DEF Rest

\* The destructor notifies before it drops the members,
LEMMA NotifyPhase ==
  ASSUME Notify
  PROVE  main[1] \in {"alive", "notify"} /\ main'[1] = "notify" /\ ~ Returned
<1>1. PICK s \in Ids : /\ main = IF s = 1 THEN <<"alive", 0>> ELSE <<"notify", s - 1>>
                      /\ main' = <<"notify", s>>
  BY DEF Notify
<1>2. CASE s = 1
  BY <1>1, <1>2 DEF Returned
<1>3. CASE s # 1
  BY <1>1, <1>3 DEF Returned
<1> QED
  BY <1>2, <1>3

\* and drops them only after it has notified.
LEMMA DropPhase ==
  ASSUME DropMembers
  PROVE  main[1] = "notify" /\ main'[1] = "join" /\ ~ Returned
BY DEF DropMembers, Returned

\* The lock and what it guards.
LEMMA LockStep == LifeTypes /\ LockInv /\ [ServicesNext]_allVars => LockInv'
<1> SUFFICES ASSUME LifeTypes, LockInv, [ServicesNext]_allVars PROVE LockInv'
  OBVIOUS
<1>1. CASE Rest /\ UNCHANGED svcVars
  <2>1. main'[1] = main[1] /\ UNCHANGED <<mutex, instances, service, client>>
    BY <1>1, RestKeepsPhase
  <2> QED
    BY <2>1 DEF LockInv, Destroying, NotInCall
<1>2. CASE NotifyStrands
  <2>1. main[1] \in {"alive", "notify"} /\ main'[1] = "notify"
    BY <1>2, NotifyPhase DEF NotifyStrands
  <2>2. NotInCall /\ UNCHANGED <<mutex, instances, service, client>>
    BY <1>2 DEF NotifyStrands, svcVars
  <2> QED
    BY <2>1, <2>2 DEF LockInv, Destroying, NotInCall
<1>3. CASE DropServices
  <2>1. main[1] = "notify" /\ main'[1] = "join"
    BY <1>3, DropPhase DEF DropServices
  <2>2. service' = "gone" /\ UNCHANGED <<mutex, instances, client>>
    BY <1>3 DEF DropServices
  <2>3. NotInCall
    BY <2>1 DEF LockInv, Destroying
  <2> QED
    BY <2>1, <2>2, <2>3 DEF LockInv, Destroying, NotInCall
<1>4. CASE IoGuard \/ IoExits \/ IoJoin \/ RunStrand \/ UNCHANGED allVars
  <2>1. UNCHANGED <<main, mutex, instances, service, client>>
    BY <1>4 DEF IoGuard, IoExits, IoJoin, RunStrand, allVars, vars, svcVars
  <2> QED
    BY <2>1 DEF LockInv, Destroying, NotInCall
<1>5. CASE Talk
  <2>1. UNCHANGED <<main, mutex, instances, service, client>>
    BY <1>5, TalkKeepsLife DEF vars
  <2> QED
    BY <2>1 DEF LockInv, Destroying, NotInCall
<1>6. ASSUME NEW c \in Clients, LockServices(c) PROVE LockInv'
  <2>1. /\ client[c] = "idle" /\ mutex = NoClient /\ ~ Destroying
        /\ mutex' = c /\ client' = [client EXCEPT ![c] = "looking"]
        /\ UNCHANGED <<main, instances, service>>
    BY <1>6 DEF LockServices, vars
  <2> QED
    BY <2>1, ServicesAssumption DEF LifeTypes, LockInv, Destroying, NotInCall
<1>7. ASSUME NEW c \in Clients, FindInstance(c) PROVE LockInv'
  <2>1. client[c] = "looking" /\ UNCHANGED <<main, instances, service>> /\ ~ Destroying
    BY <1>7 DEF FindInstance, vars, LockInv, NotInCall
  <2>2. mutex = c /\ service # "gone"
    BY <2>1 DEF LockInv, Destroying
  <2>3. CASE service = "live"
    <3>1. mutex' = NoClient /\ client' = [client EXCEPT ![c] = "found"]
      BY <1>7, <2>3 DEF FindInstance
    <3> QED
      BY <2>1, <2>2, <2>3, <3>1, ServicesAssumption DEF LifeTypes, LockInv, Destroying, NotInCall
  <2>4. CASE service # "live"
    <3>1. mutex' = mutex /\ client' = [client EXCEPT ![c] = "creating"]
      BY <1>7, <2>4 DEF FindInstance
    <3>2. service = "none"
      BY <2>2, <2>4 DEF LifeTypes
    <3> QED
      BY <2>1, <2>2, <3>1, <3>2 DEF LifeTypes, LockInv, Destroying, NotInCall
  <2> QED
    BY <2>3, <2>4
<1>8. ASSUME NEW c \in Clients, CreateService(c) PROVE LockInv'
  <2>1. /\ client[c] = "creating" /\ instances' = instances + 1 /\ service' = "live"
        /\ mutex' = NoClient /\ client' = [client EXCEPT ![c] = "found"]
        /\ UNCHANGED main
    BY <1>8, Zenon DEF CreateService, vars
  <2>2. mutex = c /\ service = "none" /\ instances = 0 /\ ~ Destroying
    BY <2>1 DEF LockInv, NotInCall
  <2>3. instances' = 1 /\ instances' <= 1
    BY <2>1, <2>2
  <2>4. \A d \in Clients : client'[d] = IF d = c THEN "found" ELSE client[d]
    BY <2>1 DEF LifeTypes
  <2>5. service' = "live" /\ mutex' = NoClient /\ UNCHANGED main
    BY <2>1
  <2> QED
    BY <2>2, <2>3, <2>4, <2>5, ServicesAssumption DEF LockInv, Destroying, NotInCall
<1>9. ASSUME NEW c \in Clients, Attach(c) \/ Leave(c) PROVE LockInv'
  <2>1. PICK to \in {"open", "closed"} : client' = [client EXCEPT ![c] = to]
    BY <1>9 DEF Attach, Leave
  <2>2. client[c] \in {"found", "open"} /\ UNCHANGED <<main, mutex, instances, service>>
    BY <1>9 DEF Attach, Leave, vars
  <2>3. \A d \in Clients : client'[d] = IF d = c THEN to ELSE client[d]
    BY <2>1 DEF LifeTypes
  <2> QED
    BY <2>2, <2>3 DEF LockInv, Destroying, NotInCall
<1> QED
  BY <1>1, <1>2, <1>3, <1>4, <1>5, <1>6, <1>7, <1>8, <1>9 DEF ServicesNext, Calls, Talk

\* A client that is in a call keeps the destructor from beginning.
LEMMA CallMeansUp ==
  ASSUME LockInv, NEW c \in Clients, client[c] \in {"creating", "found"}
  PROVE  /\ ~ Destroying /\ service # "gone" /\ ~ Returned
         /\ client[c] = "found" => service # "none"
BY DEF LockInv, NotInCall, Destroying, Returned

\* The keeper's jobs.
LEMMA KeeperStep == LifeTypes /\ LockInv /\ KeeperInv /\ [ServicesNext]_allVars => KeeperInv'
<1> SUFFICES ASSUME LifeTypes, LockInv, KeeperInv, [ServicesNext]_allVars PROVE KeeperInv'
  OBVIOUS
<1>0. strand \in Seq(Jobs)
  BY DEF LifeTypes
<1>1. CASE UNCHANGED <<instances, service, manager, strand, keeper>>
  BY <1>1 DEF KeeperInv
<1>2. CASE DropServices
  <2>1. /\ service' = "gone" /\ manager' = manager \ {"service"} /\ UNCHANGED <<instances, keeper>>
        /\ strand' = IF service = "live" THEN Append(strand, Cancel) ELSE strand
    BY <1>2 DEF DropServices, Cancel
  <2>2. service # "gone"
    BY <1>2, DropPhase DEF DropServices, LockInv
  <2>3. CASE service = "live"
    <3>1. Cancel \in Jobs /\ Cancel # StartKeeper /\ strand' = Append(strand, Cancel)
      BY <2>1, <2>3, JobsAreApart
    <3>2. /\ Len(strand') = Len(strand) + 1 /\ Len(strand) \in Nat
          /\ DOMAIN strand = 1..Len(strand) /\ DOMAIN strand' = 1..(Len(strand) + 1)
          /\ \A i \in 1..Len(strand) : strand'[i] = strand[i]
          /\ strand'[Len(strand) + 1] = Cancel
      BY <1>0, <3>1, AppendJob
    <3>3. /\ instances = 1 /\ keeper # "done"
          /\ \A i \in DOMAIN strand : strand[i] # Cancel
      BY <2>3 DEF LockInv, KeeperInv
    <3>4. keeper = "none" => strand' # <<>> /\ strand'[1] = StartKeeper
      <4>1. keeper = "none" => Len(strand) # 0 /\ strand[1] = StartKeeper
        BY <1>0, <3>3 DEF KeeperInv
      <4> QED
        BY <3>2, <4>1
    <3>5. \A i \in DOMAIN strand' :
             /\ strand'[i] = StartKeeper => i = 1 /\ keeper = "none"
             /\ strand'[i] = Cancel => i = Len(strand')
      BY <3>1, <3>2, <3>3 DEF KeeperInv
    <3> QED
      BY <2>1, <3>3, <3>4, <3>5 DEF KeeperInv
  <2>4. CASE service # "live"
    <3>1. service = "none" /\ instances = 0
      BY <2>2, <2>4 DEF LifeTypes, LockInv
    <3> QED
      BY <2>1, <2>4, <3>1 DEF KeeperInv
  <2> QED
    BY <2>3, <2>4
<1>3. CASE RunStrand
  <2>1. strand # <<>> /\ strand' = Tail(strand) /\ UNCHANGED <<instances, service>>
    BY <1>3 DEF RunStrand
  <2>2. /\ Len(strand) \in Nat /\ Len(strand') = Len(strand) - 1
        /\ Len(strand) > 0 /\ Head(strand) = strand[1] /\ Head(strand) \in Jobs
        /\ DOMAIN strand = 1..Len(strand) /\ DOMAIN strand' = 1..(Len(strand) - 1)
        /\ \A i \in 1..(Len(strand) - 1) : strand'[i] = strand[i + 1]
    BY <1>0, <2>1, RunJob
  <2>3. instances = 1
    <3>1. instances # 0
      BY <2>1 DEF KeeperInv
    <3>2. instances \in Nat /\ instances <= 1
      BY DEF LifeTypes, LockInv
    <3> QED
      BY <3>1, <3>2
  <2>4. \A i \in DOMAIN strand' : /\ i + 1 \in DOMAIN strand /\ strand'[i] = strand[i + 1]
                                  /\ i # 0 /\ (i + 1 = Len(strand) => i = Len(strand'))
    BY <2>2
  <2>5. \A i \in DOMAIN strand' : /\ strand'[i] # StartKeeper
                                  /\ strand'[i] = Cancel =>
                                       /\ service = "gone" /\ keeper # "done"
                                       /\ i = Len(strand') /\ Len(strand) # 1
    BY <2>2, <2>4 DEF KeeperInv
  <2>6. CASE Head(strand) = StartKeeper
    <3>1. keeper' = "waiting" /\ UNCHANGED manager /\ keeper = "none"
      BY <1>0, <1>3, <2>2, <2>6, JobRuns, JobsAreApart DEF KeeperInv
    <3> QED
      BY <2>1, <2>3, <2>5, <3>1 DEF KeeperInv
  <2>7. CASE Head(strand) = Cancel
    <3>1. keeper' = "done" /\ manager' = manager \ {"keeper"}
      BY <1>0, <1>3, <2>7, JobRuns, JobsAreApart
    <3>2. service = "gone" /\ Len(strand) = 1
      BY <2>2, <2>7 DEF KeeperInv
    <3>3. DOMAIN strand' = {}
      BY <2>2, <3>2
    <3> QED
      BY <2>1, <2>3, <3>1, <3>2, <3>3 DEF KeeperInv
  <2>8. ASSUME NEW c \in Clients, Head(strand) = StartSession(c) PROVE KeeperInv'
    <3>1. UNCHANGED <<keeper, manager>>
      BY <1>0, <1>3, <2>8, JobRuns, JobsAreApart
    <3>2. keeper # "none"
      BY <2>2, <2>3, <2>8, JobsAreApart DEF KeeperInv
    <3> QED
      BY <2>1, <2>3, <2>5, <3>1, <3>2 DEF KeeperInv
  <2> QED
    BY <2>2, <2>6, <2>7, <2>8 DEF Jobs
<1>4. ASSUME NEW c \in Clients, CreateService(c) PROVE KeeperInv'
  <2>1. /\ client[c] = "creating" /\ instances' = instances + 1 /\ service' = "live"
        /\ manager' = {"service", "keeper"} /\ keeper' = keeper
        /\ strand' = Append(strand, StartKeeper)
    BY <1>4, Zenon DEF CreateService, StartKeeper
  <2>2. instances = 0 /\ strand = <<>> /\ keeper = "none"
    BY <2>1 DEF LockInv, KeeperInv
  <2>3. instances' = 1
    BY <2>1, <2>2
  <2>4. DOMAIN strand' = {1} /\ strand'[1] = StartKeeper /\ Cancel # StartKeeper
    BY <2>1, <2>2, JobsAreApart
  <2>5. /\ service' = "live" /\ manager' = {"service", "keeper"} /\ keeper' = "none"
    BY <2>1, <2>2
  <2> QED
    BY <2>3, <2>4, <2>5 DEF KeeperInv
<1>5. ASSUME NEW c \in Clients, Attach(c) PROVE KeeperInv'
  <2> DEFINE job == StartSession(c)
  <2>1. /\ client[c] = "found" /\ UNCHANGED <<instances, service, manager, keeper>>
        /\ strand' = Append(strand, job)
    BY <1>5 DEF Attach, StartSession
  <2>2. job \in Jobs /\ job # Cancel /\ job # StartKeeper
    BY JobsAreApart
  <2> HIDE DEF job
  <2>3. /\ Len(strand') = Len(strand) + 1 /\ Len(strand) \in Nat
        /\ DOMAIN strand = 1..Len(strand) /\ DOMAIN strand' = 1..(Len(strand) + 1)
        /\ \A i \in 1..Len(strand) : strand'[i] = strand[i]
        /\ strand'[Len(strand) + 1] = job
    BY <1>0, <2>1, <2>2, AppendJob
  <2>4. service = "live" /\ instances = 1
    BY <2>1, CallMeansUp DEF LifeTypes, LockInv
  <2>5. \A i \in DOMAIN strand' :
           /\ strand'[i] = StartKeeper => i = 1 /\ keeper = "none"
           /\ strand'[i] # Cancel
    BY <2>2, <2>3, <2>4 DEF KeeperInv
  <2>6. keeper = "none" => strand' # <<>> /\ strand'[1] = StartKeeper
    <3>1. keeper = "none" => Len(strand) # 0 /\ strand[1] = StartKeeper
      BY <1>0, <2>4 DEF KeeperInv
    <3> QED
      BY <2>3, <3>1
  <2> QED
    BY <2>1, <2>4, <2>5, <2>6 DEF KeeperInv
<1>6. CASE \/ Rest /\ UNCHANGED svcVars
           \/ NotifyStrands \/ IoGuard \/ IoExits \/ IoJoin
           \/ UNCHANGED allVars
  BY <1>1, <1>6 DEF NotifyStrands, IoGuard, IoExits, IoJoin, svcVars, allVars
<1>7. CASE Talk
  BY <1>1, <1>7, TalkKeepsLife
<1>8. ASSUME NEW c \in Clients, LockServices(c) \/ FindInstance(c) \/ Leave(c)
      PROVE  KeeperInv'
  BY <1>1, <1>8 DEF LockServices, FindInstance, Leave
<1> QED
  BY <1>2, <1>3, <1>4, <1>5, <1>6, <1>7, <1>8 DEF ServicesNext, Calls, Talk

\* The io context.
LEMMA IoStep == LifeTypes /\ LockInv /\ IoInv /\ [ServicesNext]_allVars => IoInv'
<1> SUFFICES ASSUME LifeTypes, LockInv, IoInv, [ServicesNext]_allVars PROVE IoInv'
  OBVIOUS
<1>1. CASE Rest /\ UNCHANGED svcVars
  <2>1. (Returned => Returned') /\ UNCHANGED <<strand, keeper, session, io>>
    BY <1>1, RestKeepsPhase
  <2> QED
    BY <2>1 DEF IoInv
<1>2. CASE NotifyStrands \/ DropServices
  <2>1. ~ Returned /\ io' = io
    BY <1>2, NotifyPhase, DropPhase DEF NotifyStrands, DropServices, svcVars
  <2> QED
    BY <2>1 DEF IoInv
<1>3. CASE IoGuard
  BY <1>3 DEF IoGuard, IoInv, vars, Returned
<1>4. CASE IoExits
  BY <1>4 DEF IoExits, IoInv, vars, Returned
<1>5. CASE IoJoin
  BY <1>5 DEF IoJoin, IoInv, vars, Returned
<1>6. CASE RunStrand
  <2>1. io \in {"up", "no guard"} /\ UNCHANGED <<main, io>>
    BY <1>6 DEF RunStrand, vars
  <2> QED
    BY <2>1 DEF IoInv, Returned
<1>7. ASSUME NEW c \in Clients, RunSession(c) PROVE IoInv'
  <2>1. io \in {"up", "no guard"} /\ UNCHANGED main /\ io' \in {io, "terminated"}
    BY <1>7 DEF RunSession, Greet, PollRequest, Terminate, FetchAsset, AssetFetched, Reply,
       PushFrame, PutFrame, Ends, Goes, vars
  <2> QED
    BY <2>1 DEF IoInv, Returned
<1>8. ASSUME NEW c \in Clients, CreateService(c) \/ Attach(c) PROVE IoInv'
  <2>1. ~ Returned /\ io' = io
    BY <1>8, CallMeansUp DEF CreateService, Attach
  <2> QED
    BY <2>1 DEF IoInv
<1>9. CASE UNCHANGED <<main, strand, keeper, session, io>>
  BY <1>9 DEF IoInv, Returned
<1>10. ASSUME NEW c \in Clients,
              LockServices(c) \/ FindInstance(c) \/ Ask(c) \/ Hear(c) \/ Leave(c)
       PROVE  IoInv'
  BY <1>9, <1>10 DEF LockServices, FindInstance, Ask, Hear, Leave, vars
<1>11. CASE UNCHANGED allVars
  BY <1>9, <1>11 DEF allVars, vars, svcVars
<1> QED
  BY <1>1, <1>2, <1>3, <1>4, <1>5, <1>6, <1>7, <1>8, <1>10, <1>11 DEF ServicesNext, Calls

\* Every step keeps the life of the service in order: one lemma per part.
LEMMA LifeStep == LifeInv /\ [ServicesNext]_allVars => LifeInv'
BY LifeTypesStep, LockStep, KeeperStep, IoStep DEF LifeInv

\* So it is in order in every state that can be reached.
LEMMA LifeHolds == ServicesSpec => []LifeInv
BY LifeInitially, LifeStep, PTL DEF ServicesSpec

\* However many clients ask for it at once, there is one service; the cancellation
\* its destructor posts finds the manager it refers to, and nothing of it is left on
\* the strand when the destructor of the backend has returned.
THEOREM ServicesComeAndGo == ServicesSpec => []ServicesLiveAndGo
<1>1. LifeInv => ServicesLiveAndGo
  <2> SUFFICES ASSUME LifeInv PROVE ServicesLiveAndGo
    OBVIOUS
  <2>1. Contains(strand, <<"cancel">>) => "keeper" \in manager
    <3> SUFFICES ASSUME Contains(strand, Cancel) PROVE "keeper" \in manager
      BY DEF Cancel
    <3>1. strand \in Seq(Jobs) /\ instances \in Nat /\ LockInv /\ KeeperInv
      BY DEF LifeInv, LifeTypes
    <3>2. DOMAIN strand = 1..Len(strand)
      BY <3>1
    <3>3. PICK i \in DOMAIN strand : strand[i] = Cancel
      BY <3>2 DEF Contains
    <3>4. keeper # "done"
      BY <3>1, <3>3 DEF KeeperInv
    <3>5. instances # 0
      BY <3>1, <3>2, <3>3 DEF KeeperInv
    <3>6. instances = 1
      BY <3>1, <3>5 DEF LockInv
    <3> QED
      BY <3>1, <3>4, <3>6 DEF KeeperInv
  <2>2. io = "joined" => manager = {}
    <3> SUFFICES ASSUME io = "joined" PROVE manager = {}
      OBVIOUS
    <3>1. strand = <<>> /\ keeper # "waiting" /\ Returned
      BY DEF LifeInv, IoInv
    <3>2. service = "gone"
      BY <3>1 DEF LifeInv, LockInv, Returned
    <3>3. ~ (instances = 1 /\ keeper # "done")
      BY <3>1 DEF LifeInv, LifeTypes, KeeperInv
    <3> QED
      BY <3>2, <3>3 DEF LifeInv, LifeTypes, KeeperInv
  <2> QED
    BY <2>1, <2>2 DEF LifeInv, LockInv, KeeperInv, IoInv, ServicesLiveAndGo
<1> QED
  BY <1>1, LifeHolds, PTL

-----------------------------------------------------------------------------
(* The answers                                                               *)

\* Places are compared as numbers.
LEMMA PlacesAreNumbers ==
  /\ \A f \in Frames : Place(f) \in Nat
  /\ \A s \in Sessions : NextPlace(s) \in Nat
<1>1. \A f \in Frames : Place(f) \in Nat
  BY DEF Place, Frames, Answers
<1>2. \A s \in Sessions : NextPlace(s) \in Nat
  BY DEF NextPlace, Sessions
<1> QED
  BY <1>1, <1>2

\* A frame behind all that was told is told last.
LEMMA TellMore ==
  ASSUME NEW s \in Sessions, NEW t \in Seq(Frames), SentInOrder(s, t), s.at # "polling",
         NEW f \in Frames, f.number = s.number, NextPlace(s) <= Place(f)
  PROVE  /\ Append(t, f) \in Seq(Frames) /\ Len(Append(t, f)) = Len(t) + 1 /\ Len(t) \in Nat
         /\ Append(t, f)[Len(t) + 1] = f
         /\ \A i \in 1..Len(t) : Append(t, f)[i] = t[i]
         /\ \A i \in 1..(Len(t) + 1) : Append(t, f)[i].number = s.number
         /\ \A i \in 1..Len(t) : /\ Place(Append(t, f)[i]) < Place(Append(t, f)[i + 1])
                                 /\ Append(t, f)[i].kind \notin Answers
<1> DEFINE u == Append(t, f)
<1>1. /\ u \in Seq(Frames) /\ Len(u) = Len(t) + 1 /\ Len(t) \in Nat
      /\ u[Len(t) + 1] = f /\ \A i \in 1..Len(t) : u[i] = t[i]
  BY AppendProperties
<1> HIDE DEF u
<1>2. \A g \in Frames : Place(g) \in Nat
  BY PlacesAreNumbers
<1>3. \A i \in 1..Len(t) : t[i] \in Frames
  BY <1>1
<1>4. \A i \in 1..Len(t) : Place(t[i]) < Place(f)
  <2>1. NextPlace(s) \in Nat
    BY PlacesAreNumbers
  <2> QED
    BY <1>2, <1>3, <2>1 DEF SentInOrder
<1>5. \A i \in 1..(Len(t) + 1) : u[i].number = s.number
  <2>1. \A i \in 1..(Len(t) + 1) : i \in 1..Len(t) \/ i = Len(t) + 1
    BY <1>1
  <2> QED
    BY <1>1, <2>1 DEF SentInOrder
<1>6. ASSUME NEW i \in 1..Len(t)
      PROVE  Place(u[i]) < Place(u[i + 1]) /\ u[i].kind \notin Answers
  <2>1. u[i].kind \notin Answers
    BY <1>1 DEF SentInOrder
  <2>2. CASE i = Len(t)
    BY <1>1, <1>4, <2>1, <2>2
  <2>3. CASE i # Len(t)
    <3>1. i \in 1..(Len(t) - 1) /\ i + 1 \in 1..Len(t)
      BY <1>1, <2>3
    <3>2. Place(t[i]) < Place(t[i + 1])
      BY <3>1 DEF SentInOrder
    <3> QED
      BY <1>1, <2>1, <3>1, <3>2
  <2> QED
    BY <2>2, <2>3
<1> QED
  BY <1>1, <1>5, <1>6 DEF u

\* A session that has ended, or not begun, has told nothing.
LEMMA SilentIsSound ==
  ASSUME NEW a \in {"none", "ended", "greeting"}
  PROVE  Sound([NoSession EXCEPT !.at = a], <<>>)
<1> DEFINE n == [NoSession EXCEPT !.at = a]
<1>1. n = [at |-> a, number |-> 0, kind |-> "assets", assets |-> <<>>, asset |-> 0]
  BY DEF NoSession
<1>2. n \in Sessions
  <2>1. <<>> \in Seq({"file", "bad"}) /\ 0 \in Nat /\ "assets" \in RequestKinds
    BY DEF RequestKinds
  <2> QED
    BY <1>1, <2>1, Zenon DEF Sessions
<1>3. AssetsThere(n)
  BY <1>1 DEF AssetsThere
<1>4. n.at # "polling"
  BY <1>1
<1> HIDE DEF n
<1>5. SentInOrder(n, <<>>) /\ <<>> \in Seq(Frames)
  BY <1>4 DEF SentInOrder
<1> QED
  BY <1>2, <1>3, <1>5 DEF Sound, n

\* A frame of progress that is sent, or dropped.
LEMMA ProgressIsSound ==
  ASSUME NEW s, NEW t, Sound(s, t), s.at # "polling",
         NEW n \in Sessions, n.at # "polling", n.number = s.number, AssetsThere(n),
         NEW f \in Frames, f.number = s.number, f.kind \notin Answers,
         NextPlace(s) <= Place(f), Place(f) < NextPlace(n)
  PROVE  Sound(n, t) /\ Sound(n, Append(t, f))
<1> DEFINE u == Append(t, f)
<1>1. s \in Sessions /\ t \in Seq(Frames) /\ SentInOrder(s, t)
  BY DEF Sound
<1>2. /\ Append(t, f) \in Seq(Frames) /\ Len(Append(t, f)) = Len(t) + 1 /\ Len(t) \in Nat
      /\ Append(t, f)[Len(t) + 1] = f
      /\ \A i \in 1..Len(t) : Append(t, f)[i] = t[i]
      /\ \A i \in 1..(Len(t) + 1) : Append(t, f)[i].number = s.number
      /\ \A i \in 1..Len(t) : /\ Place(Append(t, f)[i]) < Place(Append(t, f)[i + 1])
                              /\ Append(t, f)[i].kind \notin Answers
  BY <1>1, TellMore, Zenon
<1>3. /\ \A g \in Frames : Place(g) \in Nat
      /\ NextPlace(s) \in Nat /\ NextPlace(n) \in Nat
  BY <1>1, PlacesAreNumbers
<1>4. \A i \in 1..Len(t) : /\ t[i] \in Frames /\ t[i].kind \notin Answers
                           /\ Place(t[i]) < NextPlace(s)
  BY <1>1 DEF SentInOrder
<1>5. \A i \in 1..Len(t) : Place(t[i]) < NextPlace(n)
  BY <1>3, <1>4
<1>6. Sound(n, t)
  BY <1>1, <1>4, <1>5 DEF Sound, SentInOrder
<1>7. \A i \in 1..(Len(t) + 1) : Place(u[i]) < NextPlace(n) /\ u[i].kind \notin Answers
  <2>1. \A i \in 1..(Len(t) + 1) : i \in 1..Len(t) \/ i = Len(t) + 1
    BY <1>2
  <2>2. \A i \in 1..Len(t) : u[i] = t[i]
    BY <1>2
  <2>3. u[Len(t) + 1] = f
    BY <1>2
  <2> HIDE DEF u
  <2> QED
    BY <1>4, <1>5, <2>1, <2>2, <2>3
<1>8. /\ u \in Seq(Frames) /\ Len(u) = Len(t) + 1 /\ Len(t) \in Nat
      /\ \A i \in 1..(Len(t) + 1) : u[i].number = s.number
      /\ \A i \in 1..Len(t) : Place(u[i]) < Place(u[i + 1]) /\ u[i].kind \notin Answers
  BY <1>2
<1> HIDE DEF u
<1>9. Sound(n, u)
  BY <1>7, <1>8 DEF Sound, SentInOrder
<1> QED
  BY <1>6, <1>9 DEF u

\* The frame with which a session goes to poll: the greeting or the answer.
LEMMA AnswerIsSound ==
  ASSUME NEW s, NEW t, Sound(s, t), s.at # "polling",
         NEW n \in Sessions, n.at = "polling", n.number = s.number,
         NEW f \in Frames, f.number = s.number, NextPlace(s) <= Place(f),
         n.number > 0 => f.kind = Answer(n)
  PROVE  Sound(n, Append(t, f))
<1> DEFINE u == Append(t, f)
<1>1. s \in Sessions /\ t \in Seq(Frames) /\ SentInOrder(s, t)
  BY DEF Sound
<1>2. /\ Append(t, f) \in Seq(Frames) /\ Len(Append(t, f)) = Len(t) + 1 /\ Len(t) \in Nat
      /\ Append(t, f)[Len(t) + 1] = f
      /\ \A i \in 1..Len(t) : Append(t, f)[i] = t[i]
      /\ \A i \in 1..(Len(t) + 1) : Append(t, f)[i].number = s.number
      /\ \A i \in 1..Len(t) : /\ Place(Append(t, f)[i]) < Place(Append(t, f)[i + 1])
                              /\ Append(t, f)[i].kind \notin Answers
  BY <1>1, TellMore, Zenon
<1>3. /\ u \in Seq(Frames) /\ Len(u) = Len(t) + 1 /\ Len(t) \in Nat /\ u[Len(t) + 1] = f
      /\ \A i \in 1..(Len(t) + 1) : u[i].number = s.number
      /\ \A i \in 1..Len(t) : Place(u[i]) < Place(u[i + 1]) /\ u[i].kind \notin Answers
  BY <1>2
<1> HIDE DEF u
<1>4. AssetsThere(n)
  BY DEF AssetsThere
<1>5. SentInOrder(n, u)
  BY <1>3 DEF SentInOrder
<1> QED
  BY <1>3, <1>4, <1>5 DEF Sound, u

\* The session tells its client the state it starts in,
LEMMA GreetIsSound ==
  ASSUME NEW s, s = [NoSession EXCEPT !.at = "greeting"], NEW t, Sound(s, t)
  PROVE  Sound([s EXCEPT !.at = "polling"], Append(t, Frame("state", s)))
<1> DEFINE f == Frame("state", s)
           n == [s EXCEPT !.at = "polling"]
<1>1. s \in Sessions
  BY DEF Sound
<1>2. s.at = "greeting" /\ s.number = 0 /\ s.asset = 0 /\ s.assets = <<>>
  BY DEF NoSession
<1>3. f \in Frames /\ f.number = s.number /\ Place(f) = 0
  BY <1>2 DEF Frame, Frames, Place, Answers
<1>4. NextPlace(s) <= Place(f) /\ s.at # "polling"
  BY <1>2, <1>3 DEF NextPlace
<1>5. n \in Sessions /\ n.at = "polling" /\ n.number = s.number /\ ~ (n.number > 0)
  <2>1. n \in Sessions
    BY <1>1 DEF Sessions
  <2>2. n.at = "polling" /\ n.number = 0
    BY <1>1, <1>2 DEF Sessions
  <2> QED
    BY <1>2, <2>1, <2>2
<1> HIDE DEF f, n
<1>6. Sound(n, Append(t, f))
  BY <1>3, <1>4, <1>5, AnswerIsSound
<1> QED
  BY <1>6 DEF f, n

\* What Reply sends is what the request deserves.
LEMMA ReplyIsSound ==
  ASSUME NEW s, s.at \in {"reply", "error"}, NEW t, Sound(s, t),
         NEW kind, kind = IF s.at = "reply" THEN "return" ELSE "error"
  PROVE  Sound([s EXCEPT !.at = "polling"], Append(t, Frame(kind, s)))
<1> DEFINE f == Frame(kind, s)
           n == [s EXCEPT !.at = "polling"]
<1>1. s \in Sessions /\ AssetsThere(s)
  BY DEF Sound
<1>2. f \in Frames /\ f.number = s.number /\ Place(f) = 2 * s.asset + 2
  BY <1>1 DEF Frame, Frames, Place, Answers, Sessions
<1>3. NextPlace(s) <= Place(f) /\ s.at # "polling"
  BY <1>1, <1>2 DEF NextPlace, Sessions
<1>4. /\ n \in Sessions /\ n.at = "polling" /\ n.number = s.number
      /\ n.kind = s.kind /\ n.assets = s.assets
  BY <1>1 DEF Sessions
<1>5. f.kind = Answer(n)
  <2>1. s.assets \in Seq({"file", "bad"}) /\ DOMAIN s.assets = 1..Len(s.assets)
    BY <1>1 DEF Sessions
  <2>2. CASE s.at = "reply"
    <3>1. "bad" \notin ToSet(s.assets) /\ s.kind = "assets"
      BY <1>1, <2>1, <2>2 DEF AssetsThere, ToSet
    <3> QED
      BY <1>4, <2>2, <3>1 DEF Answer, Frame
  <2>3. CASE s.at = "error"
    <3>1. s.kind # "assets" \/ "bad" \in ToSet(s.assets)
      BY <1>1, <2>1, <2>3 DEF AssetsThere, ToSet
    <3> QED
      BY <1>4, <2>3, <3>1 DEF Answer, Frame
  <2> QED
    BY <2>2, <2>3
<1> HIDE DEF f, n
<1>6. Sound(n, Append(t, f))
  BY <1>2, <1>3, <1>4, <1>5, AnswerIsSound
<1> QED
  BY <1>6 DEF f, n

\* then begins to answer a request, of which nothing was told yet,
LEMMA RequestIsSound ==
  ASSUME NEW s \in Sessions, NEW r \in Requests
  PROVE  Sound(Begin(s, r), <<>>) /\ Begin(s, r).at \in {"error", "reply", "fetch"}
<1> DEFINE at == IF r.kind # "assets" THEN "error"
                 ELSE IF r.assets = <<>> THEN "reply" ELSE "fetch"
           number == s.number + 1
           n == [s EXCEPT !.at = at, !.number = number, !.kind = r.kind,
                          !.assets = r.assets, !.asset = 1]
<1>1. r.kind \in RequestKinds /\ r.assets \in Seq({"file", "bad"})
  BY ServicesAssumption
<1>2. n = Begin(s, r)
  BY DEF Begin
<1>3. /\ number \in Nat
      /\ \/ at = "error" /\ r.kind # "assets"
         \/ at = "reply" /\ r.kind = "assets" /\ r.assets = <<>>
         \/ at = "fetch" /\ r.kind = "assets" /\ r.assets # <<>>
  <2>1. number \in Nat
    BY DEF Sessions
  <2>2. CASE r.kind # "assets"
    BY <2>1, <2>2
  <2>3. CASE r.kind = "assets" /\ r.assets = <<>>
    BY <2>1, <2>3
  <2>4. CASE r.kind = "assets" /\ r.assets # <<>>
    BY <2>1, <2>4
  <2> QED
    BY <2>2, <2>3, <2>4
<1> HIDE DEF at, number
<1>4. n \in Sessions
  BY <1>1, <1>3 DEF Sessions
<1>5. n.at = at /\ n.kind = r.kind /\ n.assets = r.assets /\ n.asset = 1
  BY DEF Sessions
<1> HIDE DEF n
<1>6. AssetsThere(n)
  <2>1. r.assets # <<>> => 1 \in 1..Len(r.assets)
    BY <1>1
  <2>2. r.assets = <<>> => 1..Len(r.assets) = {}
    OBVIOUS
  <2>3. 1..(1 - 1) = {}
    OBVIOUS
  <2> QED
    BY <1>3, <1>5, <2>1, <2>2, <2>3 DEF AssetsThere
<1>7. SentInOrder(n, <<>>) /\ <<>> \in Seq(Frames)
  BY <1>3, <1>5 DEF SentInOrder
<1> QED
  BY <1>2, <1>3, <1>4, <1>5, <1>6, <1>7 DEF Sound

\* tells of a file that it begins to be fetched,
LEMMA FetchIsSound ==
  ASSUME NEW s, s.at = "fetch", NEW t, Sound(s, t)
  PROVE  LET n == [s EXCEPT !.at = IF s.assets[s.asset] = "file" THEN "fetched" ELSE "error"]
         IN  Sound(n, t) /\ Sound(n, Append(t, Frame("begin", s)))
<1> DEFINE f == Frame("begin", s)
           n == [s EXCEPT !.at = IF s.assets[s.asset] = "file" THEN "fetched" ELSE "error"]
<1>1. s \in Sessions /\ AssetsThere(s)
  BY DEF Sound
<1>2. f \in Frames /\ f.number = s.number /\ Place(f) = 2 * s.asset /\ f.kind \notin Answers
  BY <1>1 DEF Frame, Frames, Place, Answers, Sessions
<1>3. n \in Sessions
  BY <1>1 DEF Sessions
<1>4. /\ n.at = (IF s.assets[s.asset] = "file" THEN "fetched" ELSE "error")
      /\ n.number = s.number /\ n.kind = s.kind /\ n.assets = s.assets
      /\ n.asset = s.asset /\ s.asset \in Nat
  BY <1>1 DEF Sessions
<1>5. s.assets[s.asset] \in {"file", "bad"}
  <2>1. s.assets \in Seq({"file", "bad"}) /\ s.asset \in 1..Len(s.assets)
    BY <1>1 DEF Sessions, AssetsThere
  <2> QED
    BY <2>1
<1> HIDE DEF f, n
<1>6. AssetsThere(n)
  BY <1>1, <1>4, <1>5 DEF AssetsThere
<1>7. NextPlace(s) <= Place(f) /\ Place(f) < NextPlace(n) /\ n.at # "polling"
  BY <1>2, <1>4 DEF NextPlace
<1>8. Sound(n, t) /\ Sound(n, Append(t, f))
  BY <1>2, <1>3, <1>4, <1>6, <1>7, ProgressIsSound
<1> QED
  BY <1>8 DEF f, n

\* and that it was, before it goes on to the next.
LEMMA FetchedIsSound ==
  ASSUME NEW s, s.at = "fetched", NEW t, Sound(s, t)
  PROVE  Sound(NextAsset(s), t) /\ Sound(NextAsset(s), Append(t, Frame("end", s)))
<1> DEFINE f == Frame("end", s)
           n == NextAsset(s)
<1>1. s \in Sessions /\ AssetsThere(s)
  BY DEF Sound
<1>2. f \in Frames /\ f.number = s.number /\ Place(f) = 2 * s.asset + 1 /\ f.kind \notin Answers
  BY <1>1 DEF Frame, Frames, Place, Answers, Sessions
<1>3. /\ s.assets \in Seq({"file", "bad"}) /\ s.asset \in 1..Len(s.assets)
      /\ s.asset \in Nat /\ Len(s.assets) \in Nat
      /\ \A i \in 1..s.asset : s.assets[i] = "file"
  <2>1. s.assets \in Seq({"file", "bad"}) /\ s.asset \in 1..Len(s.assets) /\ s.asset \in Nat
    BY <1>1 DEF Sessions, AssetsThere
  <2>2. \A i \in 1..s.asset : i = s.asset \/ i \in 1..(s.asset - 1)
    BY <2>1
  <2> QED
    BY <1>1, <2>1, <2>2 DEF AssetsThere
<1>4. /\ n \in Sessions /\ n.number = s.number
      /\ n.kind = "assets" /\ n.assets = s.assets
  <2>1. CASE s.asset < Len(s.assets)
    <3>1. n = [s EXCEPT !.at = "fetch", !.asset = @ + 1]
      BY <2>1 DEF NextAsset
    <3>2. s.asset + 1 \in Nat
      BY <1>3
    <3> QED
      BY <1>1, <3>1, <3>2 DEF Sessions, AssetsThere
  <2>2. CASE ~ (s.asset < Len(s.assets))
    <3>1. n = [s EXCEPT !.at = "reply"]
      BY <2>2 DEF NextAsset
    <3> QED
      BY <1>1, <3>1 DEF Sessions, AssetsThere
  <2> QED
    BY <2>1, <2>2
<1>5. CASE s.asset < Len(s.assets)
  <2>1. n.at = "fetch" /\ n.asset = s.asset + 1
    BY <1>1, <1>5 DEF NextAsset, Sessions
  <2> HIDE DEF f, n
  <2>2. AssetsThere(n)
    BY <1>3, <1>4, <1>5, <2>1 DEF AssetsThere
  <2>3. NextPlace(s) <= Place(f) /\ Place(f) < NextPlace(n) /\ n.at # "polling"
    BY <1>2, <1>3, <2>1 DEF NextPlace
  <2>4. Sound(n, t) /\ Sound(n, Append(t, f))
    BY <1>2, <1>4, <2>2, <2>3, ProgressIsSound
  <2> QED
    BY <2>4 DEF f, n
<1>6. CASE ~ (s.asset < Len(s.assets))
  <2>1. n.at = "reply" /\ n.asset = s.asset
    BY <1>1, <1>6 DEF NextAsset, Sessions
  <2> HIDE DEF f, n
  <2>2. AssetsThere(n)
    BY <1>3, <1>4, <1>6, <2>1 DEF AssetsThere
  <2>3. NextPlace(s) <= Place(f) /\ Place(f) < NextPlace(n) /\ n.at # "polling"
    BY <1>2, <1>3, <2>1 DEF NextPlace
  <2>4. Sound(n, t) /\ Sound(n, Append(t, f))
    BY <1>2, <1>4, <2>2, <2>3, ProgressIsSound
  <2> QED
    BY <2>4 DEF f, n
<1> QED
  BY <1>5, <1>6

-----------------------------------------------------------------------------
(* The sessions                                                              *)

\* The session of c has been started and goes on, or ends.
Turn(c) ==
  /\ session[c].at # "none"
  /\ \E s \in Sessions, t \in Seq(Frames) :
       /\ session' = [session EXCEPT ![c] = s] /\ told' = [told EXCEPT ![c] = t]
       /\ Sound(s, t)
       /\ s.at \notin {"none", "greeting"}
       /\ s.at = "ended" => s = [NoSession EXCEPT !.at = "ended"]

\* A session that ends,
LEMMA EndTurns ==
  ASSUME NEW c \in Clients, session[c].at # "none", Ends(c)
  PROVE  Turn(c)
<1> DEFINE s == [NoSession EXCEPT !.at = "ended"]
<1>1. Sound(s, <<>>) /\ s.at = "ended"
  BY SilentIsSound DEF NoSession
<1>2. session' = [session EXCEPT ![c] = s] /\ told' = [told EXCEPT ![c] = <<>>]
  BY DEF Ends, Goes
<1>3. s \in Sessions /\ <<>> \in Seq(Frames)
  BY <1>1 DEF Sound
<1>4. s.at \notin {"none", "greeting"}
  BY <1>1
<1> QED
  BY <1>1, <1>2, <1>3, <1>4, Zenon DEF Turn

\* Going on to n, having told f, or nothing.
LEMMA GoTurns ==
  ASSUME NEW c \in Clients, session[c].at # "none", NEW n, NEW t,
         Goes(c, n), told' = [told EXCEPT ![c] = t], Sound(n, t),
         n.at \notin {"none", "greeting", "ended"}
  PROVE  Turn(c)
<1>1. session' = [session EXCEPT ![c] = n]
  BY DEF Goes
<1>2. n \in Sessions /\ t \in Seq(Frames)
  BY DEF Sound
<1> QED
  BY <1>1, <1>2 DEF Turn

\* one that pushes a frame,
LEMMA PushTurns ==
  ASSUME NEW c \in Clients, session[c].at # "none", NEW f, NEW n, PushFrame(c, f, n),
         Sound(n, Append(told[c], f)), n.at \notin {"none", "greeting", "ended"}
  PROVE  Turn(c)
<1>1. CASE Ends(c)
  BY <1>1, EndTurns
<1>2. CASE Send(c, f) /\ Goes(c, n)
  <2>1. told' = [told EXCEPT ![c] = Append(told[c], f)]
    BY <1>2 DEF Send
  <2> QED
    BY <1>2, <2>1, GoTurns
<1> QED
  BY <1>1, <1>2 DEF PushFrame

\* and one that puts a frame, which may be lost, each take a turn.
LEMMA PutTurns ==
  ASSUME NEW c \in Clients, session[c].at # "none", NEW f, NEW n, PutFrame(c, f, n),
         Sound(n, told[c]), Sound(n, Append(told[c], f)),
         told \in [Clients -> Seq(Frames)], n.at \notin {"none", "greeting", "ended"}
  PROVE  Turn(c)
<1>1. CASE Ends(c)
  BY <1>1, EndTurns
<1>2. CASE Send(c, f) /\ Goes(c, n)
  <2>1. told' = [told EXCEPT ![c] = Append(told[c], f)]
    BY <1>2 DEF Send
  <2> QED
    BY <1>2, <2>1, GoTurns
<1>3. CASE Goes(c, n) /\ UNCHANGED told
  <2>1. told' = [told EXCEPT ![c] = told[c]]
    BY <1>3
  <2> QED
    BY <1>3, <2>1, GoTurns
<1> QED
  BY <1>1, <1>2, <1>3 DEF PutFrame

\* Each resumption of a session is a turn, or ends the program.
LEMMA SessionTurns ==
  ASSUME RequestInv, NEW c \in Clients, RunSession(c)
  PROVE  Turn(c) \/ Terminate
<1> DEFINE s == session[c]
           t == told[c]
<1>0. /\ s \in Sessions /\ Sound(s, t) /\ told \in [Clients -> Seq(Frames)]
      /\ requests[c] \in Seq(Requests)
      /\ s.at = "greeting" => s = [NoSession EXCEPT !.at = "greeting"]
  BY DEF RequestInv, StartInv
<1>1. CASE Greet(c)
  <2>1. s.at = "greeting" /\ PushFrame(c, Frame("state", s), [s EXCEPT !.at = "polling"])
    BY <1>1 DEF Greet
  <2>2. Sound([s EXCEPT !.at = "polling"], Append(t, Frame("state", s)))
    BY <1>0, <2>1, GreetIsSound
  <2>3. [s EXCEPT !.at = "polling"].at = "polling"
    BY <1>0 DEF Sessions
  <2> QED
    BY <2>1, <2>2, <2>3, PushTurns
<1>2. CASE PollRequest(c)
  <2>1. s.at = "polling"
    BY <1>2 DEF PollRequest
  <2>2. CASE Ends(c)
    BY <2>1, <2>2, EndTurns
  <2>3. CASE Terminate
    BY <2>3
  <2>4. CASE ~ Ends(c) /\ ~ Terminate
    <3> DEFINE r == Head(requests[c])
    <3>1. requests[c] # <<>> /\ Goes(c, Begin(s, r)) /\ told' = [told EXCEPT ![c] = <<>>]
      BY <1>2, <2>4, Zenon DEF PollRequest
    <3>2. r \in Requests
      BY <1>0, <3>1
    <3>3. Sound(Begin(s, r), <<>>) /\ Begin(s, r).at \in {"error", "reply", "fetch"}
      BY <1>0, <3>2, RequestIsSound
    <3> QED
      BY <2>1, <3>1, <3>3, GoTurns
  <2> QED
    BY <2>2, <2>3, <2>4
<1>3. CASE FetchAsset(c)
  <2> DEFINE n == [s EXCEPT !.at = IF s.assets[s.asset] = "file" THEN "fetched" ELSE "error"]
  <2>1. s.at = "fetch" /\ PutFrame(c, Frame("begin", s), n)
    BY <1>3 DEF FetchAsset
  <2>2. Sound(n, t) /\ Sound(n, Append(t, Frame("begin", s)))
    BY <1>0, <2>1, FetchIsSound
  <2>3. n.at \in {"fetched", "error"}
    BY <1>0 DEF Sessions
  <2> HIDE DEF n
  <2> QED
    BY <1>0, <2>1, <2>2, <2>3, PutTurns
<1>4. CASE AssetFetched(c)
  <2>1. s.at = "fetched" /\ PutFrame(c, Frame("end", s), NextAsset(s))
    BY <1>4 DEF AssetFetched
  <2>2. Sound(NextAsset(s), t) /\ Sound(NextAsset(s), Append(t, Frame("end", s)))
    BY <1>0, <2>1, FetchedIsSound
  <2>3. NextAsset(s).at \in {"fetch", "reply"}
    BY <1>0 DEF NextAsset, Sessions
  <2> QED
    BY <1>0, <2>1, <2>2, <2>3, PutTurns
<1>5. CASE Reply(c)
  <2> DEFINE kind == IF s.at = "reply" THEN "return" ELSE "error"
             f == Frame(kind, s)
             n == [s EXCEPT !.at = "polling"]
  <2>1. s.at \in {"reply", "error"} /\ PushFrame(c, f, n)
    BY <1>5 DEF Reply
  <2>2. Sound(n, Append(t, f))
    <3>1. kind = IF s.at = "reply" THEN "return" ELSE "error"
      OBVIOUS
    <3>2. s.at \in {"reply", "error"} /\ Sound(s, t)
      BY <1>0, <2>1
    <3> HIDE DEF kind, s, t
    <3> QED
      BY <3>1, <3>2, ReplyIsSound
  <2>3. n.at = "polling"
    BY <1>0 DEF Sessions
  <2> HIDE DEF f, n
  <2> QED
    BY <2>1, <2>2, <2>3, PushTurns
<1> QED
  BY <1>1, <1>2, <1>3, <1>4, <1>5 DEF RunSession

\* The requests a session has not read stay requests.
LEMMA RequestsKeepType ==
  ASSUME RequestInv, NEW c \in Clients, RunSession(c)
  PROVE  requests' \in [Clients -> Seq(Requests)]
<1>0. requests \in [Clients -> Seq(Requests)]
  BY DEF RequestInv
<1>1. \/ UNCHANGED requests
      \/ requests' = [requests EXCEPT ![c] = <<>>]
      \/ requests[c] # <<>> /\ requests' = [requests EXCEPT ![c] = Tail(@)]
  BY DEF RunSession, Greet, PollRequest, Terminate, FetchAsset, AssetFetched, Reply, PushFrame,
     PutFrame, Ends, Send
<1>2. <<>> \in Seq(Requests) /\ (requests[c] # <<>> => Tail(requests[c]) \in Seq(Requests))
  BY <1>0
<1> QED
  BY <1>0, <1>1, <1>2

\* No session has begun.
LEMMA RequestsInitially == ServicesInit => RequestInv
<1> SUFFICES ASSUME ServicesInit PROVE RequestInv
  OBVIOUS
<1>1. NoSession = [NoSession EXCEPT !.at = "none"] /\ NoSession.at = "none"
  BY DEF NoSession
<1>2. Sound(NoSession, <<>>)
  <2>1. Sound([NoSession EXCEPT !.at = "none"], <<>>)
    BY SilentIsSound
  <2> QED
    BY <1>1, <2>1
<1>3. NoSession \in Sessions /\ <<>> \in Seq(Frames) /\ <<>> \in Seq(Requests)
  BY <1>2 DEF Sound
<1>4. /\ strand = <<>> /\ session = [c \in Clients |-> NoSession]
      /\ told = [c \in Clients |-> <<>>] /\ requests = [c \in Clients |-> <<>>]
  BY DEF ServicesInit
<1>5. StartInv
  <2>1. DOMAIN strand = {} /\ \A c \in Clients : session[c] = NoSession
    BY <1>4
  <2> QED
    BY <1>1, <2>1 DEF StartInv
<1> QED
  BY <1>2, <1>3, <1>4, <1>5 DEF RequestInv

\* A turn of one session leaves the others and the jobs of the strand alone.
LEMMA TurnStep ==
  ASSUME RequestInv, NEW c \in Clients, RunSession(c), Turn(c)
  PROVE  RequestInv'
<1>1. Turn(c)
  OBVIOUS
<1>2. PICK s \in Sessions, t \in Seq(Frames) :
        /\ session' = [session EXCEPT ![c] = s] /\ told' = [told EXCEPT ![c] = t]
        /\ Sound(s, t)
        /\ s.at \notin {"none", "greeting"}
        /\ s.at = "ended" => s = [NoSession EXCEPT !.at = "ended"]
  BY <1>1 DEF Turn
<1>3. session[c].at # "none"
  BY <1>1 DEF Turn
<1>4. UNCHANGED <<strand, client>>
  <2>1. Talk
    BY DEF Talk
  <2> QED
    BY <2>1, TalkKeepsLife
<1>5. session \in [Clients -> Sessions] /\ told \in [Clients -> Seq(Frames)]
  BY DEF RequestInv
<1>6. session' \in [Clients -> Sessions] /\ told' \in [Clients -> Seq(Frames)]
  BY <1>2, <1>5
<1>7. /\ session'[c] = s /\ told'[c] = t
      /\ \A d \in Clients : d # c => session'[d] = session[d] /\ told'[d] = told[d]
  BY <1>2, <1>5
<1>8. \A d \in Clients : Sound(session'[d], told'[d])
  BY <1>2, <1>7 DEF RequestInv
<1>9. StartInv'
  <2> SUFFICES ASSUME NEW d \in Clients
               PROVE  /\ \A i \in DOMAIN strand : strand[i] = StartSession(d) =>
                           /\ session'[d] = NoSession /\ client[d] \in {"open", "closed"}
                           /\ \A j \in DOMAIN strand : strand[j] = StartSession(d) => j = i
                      /\ session'[d].at # "none" => client[d] \in {"open", "closed"}
                      /\ session'[d].at \in {"none", "greeting", "ended"} =>
                           session'[d] = [NoSession EXCEPT !.at = session'[d].at]
    BY <1>4 DEF StartInv
  <2>1. CASE d # c
    BY <1>7, <2>1 DEF RequestInv, StartInv
  <2>2. CASE d = c
    <3>1. client[c] \in {"open", "closed"}
      BY <1>3 DEF RequestInv, StartInv
    <3>2. \A i \in DOMAIN strand : strand[i] # StartSession(c)
      BY <1>3 DEF RequestInv, StartInv, NoSession
    <3> QED
      BY <1>2, <1>7, <2>2, <3>1, <3>2
  <2> QED
    BY <2>1, <2>2
<1> QED
  BY <1>6, <1>8, <1>9, RequestsKeepType DEF RequestInv

\* A client moves on: only Attach posts the start of a session.
LEMMA ClientStep ==
  ASSUME LifeTypes, RequestInv, NEW c \in Clients,
         UNCHANGED <<strand, session, told>>, requests' \in [Clients -> Seq(Requests)],
         \/ UNCHANGED client
         \/ /\ client[c] \notin {"open", "closed"}
            /\ \E to \in {"looking", "creating", "found"} : client' = [client EXCEPT ![c] = to]
         \/ client' = [client EXCEPT ![c] = "closed"]
  PROVE  RequestInv'
<1>1. \A d \in Clients : client[d] \in {"open", "closed"} => client'[d] \in {"open", "closed"}
  BY DEF LifeTypes
<1>2. StartInv'
  BY <1>1 DEF RequestInv, StartInv
<1> QED
  BY <1>2 DEF RequestInv

\* A client that attaches has its session started by a job of its own.
LEMMA AttachStep ==
  ASSUME LifeTypes, RequestInv, NEW c \in Clients, Attach(c)
  PROVE  RequestInv'
<1> DEFINE job == StartSession(c)
<1>1. /\ client[c] = "found" /\ client' = [client EXCEPT ![c] = "open"]
      /\ strand' = Append(strand, job) /\ UNCHANGED <<session, told, requests>>
  BY DEF Attach, StartSession
<1>2. job \in Jobs /\ \A d \in Clients : StartSession(d) = job => d = c
  BY JobsAreApart
<1>3. \A i \in DOMAIN strand : strand[i] # job
  BY <1>1 DEF RequestInv, StartInv
<1>4. session[c].at = "none" /\ session[c] = NoSession
  <2>1. session[c].at = "none"
    BY <1>1 DEF RequestInv, StartInv
  <2>2. NoSession = [NoSession EXCEPT !.at = "none"]
    BY DEF NoSession
  <2> QED
    BY <2>1, <2>2 DEF RequestInv, StartInv
<1>5. \A d \in Clients : client'[d] = IF d = c THEN "open" ELSE client[d]
  BY <1>1 DEF LifeTypes
<1> HIDE DEF job
<1>6. /\ Len(strand) \in Nat
      /\ DOMAIN strand = 1..Len(strand) /\ DOMAIN strand' = 1..(Len(strand) + 1)
      /\ \A i \in 1..Len(strand) : strand'[i] = strand[i]
      /\ strand'[Len(strand) + 1] = job
  BY <1>1, <1>2, AppendJob DEF LifeTypes
<1>7. ASSUME NEW d \in Clients, NEW i \in DOMAIN strand', strand'[i] = StartSession(d)
      PROVE  /\ session[d] = NoSession /\ client'[d] \in {"open", "closed"}
             /\ \A j \in DOMAIN strand' : strand'[j] = StartSession(d) => j = i
  <2>1. CASE d = c
    <3>1. \A j \in DOMAIN strand' : strand'[j] = job => j = Len(strand) + 1
      BY <1>3, <1>6
    <3> QED
      BY <1>4, <1>5, <1>7, <2>1, <3>1 DEF job
  <2>2. CASE d # c
    <3>1. \A j \in DOMAIN strand' : strand'[j] = StartSession(d) =>
             j \in DOMAIN strand /\ strand[j] = StartSession(d)
      BY <1>2, <1>6, <2>2
    <3> QED
      BY <1>5, <1>7, <2>2, <3>1 DEF RequestInv, StartInv
  <2> QED
    BY <2>1, <2>2
<1>8. StartInv'
  BY <1>1, <1>5, <1>7 DEF RequestInv, StartInv
<1> QED
  BY <1>1, <1>8 DEF RequestInv

\* The other jobs that are posted start no session.
LEMMA PostStep ==
  ASSUME LifeTypes, RequestInv, NEW job \in {StartKeeper, Cancel}, strand' = Append(strand, job),
         UNCHANGED <<session, told, requests>>,
         \A d \in Clients : client[d] \in {"open", "closed"} => client'[d] = client[d]
  PROVE  RequestInv'
<1>1. job \in Jobs /\ \A d \in Clients : StartSession(d) # job
  BY JobsAreApart
<1>2. /\ Len(strand) \in Nat
      /\ DOMAIN strand = 1..Len(strand) /\ DOMAIN strand' = 1..(Len(strand) + 1)
      /\ \A i \in 1..Len(strand) : strand'[i] = strand[i]
      /\ strand'[Len(strand) + 1] = job
  BY <1>1, AppendJob DEF LifeTypes
<1>3. \A d \in Clients, i \in DOMAIN strand' : strand'[i] = StartSession(d) =>
         i \in DOMAIN strand /\ strand[i] = StartSession(d)
  BY <1>1, <1>2
<1>4. StartInv'
  BY <1>3 DEF RequestInv, StartInv
<1> QED
  BY <1>4 DEF RequestInv

\* The strand runs a job: a session begins once.
LEMMA StrandStep == LifeTypes /\ RequestInv /\ RunStrand => RequestInv'
<1> SUFFICES ASSUME LifeTypes, RequestInv, RunStrand PROVE RequestInv'
  OBVIOUS
<1>1. strand # <<>> /\ strand' = Tail(strand) /\ UNCHANGED <<client, told, requests>>
  BY DEF RunStrand
<1>2. /\ Len(strand) \in Nat /\ Len(strand) > 0 /\ Head(strand) = strand[1]
      /\ DOMAIN strand = 1..Len(strand) /\ DOMAIN strand' = 1..(Len(strand) - 1)
      /\ \A i \in 1..(Len(strand) - 1) : strand'[i] = strand[i + 1]
  BY <1>1, RunJob DEF LifeTypes
<1>3. \A i \in DOMAIN strand' : i + 1 \in DOMAIN strand /\ strand'[i] = strand[i + 1] /\ i + 1 # 1
  BY <1>2
<1>4. \A d \in Clients : \A i \in DOMAIN strand' : strand'[i] = StartSession(d) =>
         /\ session[d] = NoSession /\ client[d] \in {"open", "closed"}
         /\ \A j \in DOMAIN strand' : strand'[j] = StartSession(d) => j = i
         /\ Head(strand) # StartSession(d)
  <2> SUFFICES ASSUME NEW d \in Clients, NEW i \in DOMAIN strand', strand'[i] = StartSession(d)
               PROVE  /\ session[d] = NoSession /\ client[d] \in {"open", "closed"}
                      /\ \A j \in DOMAIN strand' : strand'[j] = StartSession(d) => j = i
                      /\ Head(strand) # StartSession(d)
    OBVIOUS
  <2>1. i + 1 \in DOMAIN strand /\ strand[i + 1] = StartSession(d) /\ i + 1 # 1
    BY <1>3
  <2>2. /\ session[d] = NoSession /\ client[d] \in {"open", "closed"}
        /\ \A j \in DOMAIN strand : strand[j] = StartSession(d) => j = i + 1
    BY <2>1 DEF RequestInv, StartInv
  <2>3. \A j \in DOMAIN strand' : strand'[j] = StartSession(d) => j + 1 = i + 1
    BY <1>3, <2>2
  <2>4. 1 \in DOMAIN strand
    BY <1>2
  <2> QED
    BY <1>2, <2>1, <2>2, <2>3, <2>4
<1>5. CASE UNCHANGED session
  <2>1. StartInv'
    BY <1>1, <1>4, <1>5 DEF RequestInv, StartInv
  <2> QED
    BY <1>1, <1>5, <2>1 DEF RequestInv
<1>6. ASSUME NEW c \in Clients, Head(strand) = StartSession(c),
             session' = [session EXCEPT ![c].at = "greeting"]
      PROVE  RequestInv'
  <2> DEFINE s == [NoSession EXCEPT !.at = "greeting"]
  <2>1. 1 \in DOMAIN strand /\ strand[1] = StartSession(c)
    BY <1>2, <1>6
  <2>2. session[c] = NoSession /\ client[c] \in {"open", "closed"}
    BY <2>1 DEF RequestInv, StartInv
  <2>3. session \in [Clients -> Sessions]
    BY DEF RequestInv
  <2>4. session'[c] = s /\ \A d \in Clients : d # c => session'[d] = session[d]
    BY <1>6, <2>2, <2>3
  <2>5. s \in Sessions
    BY SilentIsSound DEF Sound
  <2>6. session' \in [Clients -> Sessions]
    BY <1>6, <2>3, <2>4, <2>5
  <2>7. Sound(s, told[c])
    <3>1. Sound(NoSession, told[c])
      BY <2>2 DEF RequestInv
    <3>2. /\ s.at = "greeting" /\ NoSession.at = "none" /\ s.number = NoSession.number
          /\ NextPlace(s) = NextPlace(NoSession)
      BY DEF NoSession, NextPlace
    <3>3. AssetsThere(s)
      BY <3>2 DEF AssetsThere
    <3> HIDE DEF s
    <3>4. SentInOrder(s, told[c])
      BY <3>1, <3>2 DEF Sound, SentInOrder
    <3> QED
      BY <2>5, <3>1, <3>3, <3>4 DEF Sound
  <2>8. s.at = "greeting" /\ s = [NoSession EXCEPT !.at = s.at]
    BY DEF NoSession
  <2> HIDE DEF s
  <2>9. StartInv'
    <3> SUFFICES ASSUME NEW d \in Clients
                 PROVE  /\ \A i \in DOMAIN strand' : strand'[i] = StartSession(d) =>
                             /\ session'[d] = NoSession /\ client[d] \in {"open", "closed"}
                             /\ \A j \in DOMAIN strand' : strand'[j] = StartSession(d) => j = i
                        /\ session'[d].at # "none" => client[d] \in {"open", "closed"}
                        /\ session'[d].at \in {"none", "greeting", "ended"} =>
                             session'[d] = [NoSession EXCEPT !.at = session'[d].at]
      BY <1>1 DEF StartInv
    <3>1. CASE d # c
      BY <1>4, <2>4, <3>1 DEF RequestInv, StartInv
    <3>2. CASE d = c
      BY <1>4, <1>6, <2>2, <2>4, <2>8, <3>2
    <3> QED
      BY <3>1, <3>2
  <2>10. \A d \in Clients : Sound(session'[d], told'[d])
    BY <1>1, <2>4, <2>7 DEF RequestInv
  <2> QED
    BY <1>1, <2>6, <2>9, <2>10 DEF RequestInv
<1> QED
  BY <1>5, <1>6, JobRuns DEF LifeTypes

\* Every step keeps the sessions sound.
LEMMA RequestStep == LifeInv /\ RequestInv /\ [ServicesNext]_allVars => RequestInv'
<1> SUFFICES ASSUME LifeInv, RequestInv, [ServicesNext]_allVars PROVE RequestInv'
  OBVIOUS
<1>0. LifeTypes /\ requests \in [Clients -> Seq(Requests)]
  BY DEF LifeInv, RequestInv
<1>1. CASE UNCHANGED <<strand, session, told, requests, client>>
  BY <1>1 DEF RequestInv, StartInv
<1>2. CASE \/ Rest /\ UNCHANGED svcVars
           \/ NotifyStrands \/ IoGuard \/ IoExits \/ IoJoin
           \/ UNCHANGED allVars
  BY <1>1, <1>2 DEF NotifyStrands, IoGuard, IoExits, IoJoin, svcVars, allVars
<1>3. CASE DropServices
  <2>1. /\ UNCHANGED <<session, told, requests, client>>
        /\ strand' = strand \/ strand' = Append(strand, Cancel)
    BY <1>3 DEF DropServices, Cancel
  <2> QED
    BY <1>0, <1>1, <2>1, PostStep
<1>4. CASE RunStrand
  BY <1>0, <1>4, StrandStep
<1>5. ASSUME NEW c \in Clients, RunSession(c) PROVE RequestInv'
  <2>1. CASE Turn(c)
    BY <1>5, <2>1, TurnStep
  <2>2. CASE Terminate
    BY <1>1, <2>2 DEF Terminate
  <2> QED
    BY <1>5, <2>1, <2>2, SessionTurns
<1>6. ASSUME NEW c \in Clients, Attach(c) PROVE RequestInv'
  BY <1>0, <1>6, AttachStep
<1>7. ASSUME NEW c \in Clients, CreateService(c) PROVE RequestInv'
  <2>1. /\ UNCHANGED <<session, told, requests>> /\ client[c] = "creating"
        /\ client' = [client EXCEPT ![c] = "found"] /\ strand' = Append(strand, StartKeeper)
    BY <1>7 DEF CreateService, StartKeeper
  <2>2. \A d \in Clients : client[d] \in {"open", "closed"} => client'[d] = client[d]
    BY <1>0, <2>1 DEF LifeTypes
  <2> QED
    BY <1>0, <2>1, <2>2, PostStep
<1>8. ASSUME NEW c \in Clients, Ask(c) PROVE RequestInv'
  <2>1. PICK r \in Requests : requests' = [requests EXCEPT ![c] = Append(@, r)]
    BY <1>8 DEF Ask
  <2>2. requests' \in [Clients -> Seq(Requests)]
    BY <1>0, <2>1
  <2>3. UNCHANGED <<strand, session, told, client>>
    BY <1>8 DEF Ask
  <2> QED
    BY <1>0, <2>2, <2>3, ClientStep
<1>9. ASSUME NEW c \in Clients, LockServices(c) \/ FindInstance(c) \/ Hear(c) \/ Leave(c)
      PROVE  RequestInv'
  <2>1. UNCHANGED <<strand, session, told, requests>>
    BY <1>9 DEF LockServices, FindInstance, Hear, Leave
  <2>2. \/ UNCHANGED client
        \/ /\ client[c] \notin {"open", "closed"}
           /\ \E to \in {"looking", "creating", "found"} : client' = [client EXCEPT ![c] = to]
        \/ client' = [client EXCEPT ![c] = "closed"]
    BY <1>9 DEF LockServices, FindInstance, Hear, Leave
  <2>3. requests' \in [Clients -> Seq(Requests)]
    BY <1>0, <2>1
  <2> QED
    BY <1>0, <2>1, <2>2, <2>3, ClientStep
<1> QED
  BY <1>2, <1>3, <1>4, <1>5, <1>6, <1>7, <1>8, <1>9 DEF ServicesNext, Calls

\* The program ends only by a request that throws, and that is the last step.
LEMMA ThrownStep == ThrownInv /\ [ServicesNext]_allVars => ThrownInv'
<1> SUFFICES ASSUME ThrownInv, [ServicesNext]_allVars, io' = "terminated"
             PROVE  \E c \in Clients : /\ session'[c].at = "polling" /\ requests'[c] # <<>>
                                      /\ Head(requests'[c]).kind = "mistyped"
  BY DEF ThrownInv
<1>1. CASE UNCHANGED allVars
  BY <1>1 DEF ThrownInv, allVars, svcVars
<1>2. ASSUME NEW c \in Clients, RunSession(c), io # "terminated"
      PROVE  /\ session[c].at = "polling" /\ requests[c] # <<>>
             /\ Head(requests[c]).kind = "mistyped" /\ UNCHANGED <<session, requests>>
  BY <1>2 DEF RunSession, Greet, PollRequest, Terminate, FetchAsset, AssetFetched, Reply,
     PushFrame, PutFrame, Ends, Goes
<1>3. ASSUME io # "terminated"
      PROVE  ~ (\/ Rest /\ UNCHANGED svcVars
                \/ NotifyStrands \/ DropServices \/ IoGuard \/ IoExits \/ IoJoin \/ RunStrand
                \/ \E c \in Clients : Calls(c) \/ Ask(c) \/ Hear(c) \/ Leave(c))
  BY <1>3 DEF NotifyStrands, DropServices, IoGuard, IoExits, IoJoin, RunStrand, Calls,
     LockServices, FindInstance, CreateService, Attach, Ask, Hear, Leave, svcVars
<1> QED
  BY <1>1, <1>2, <1>3 DEF ServicesNext, Running

\* Although what is put may be dropped, each request of each client is answered by one
\* frame behind all its progress, and by the right one, however long the request and
\* however small the channels, one for another op or with a field missing by an error;
\* a program that ends before it has answered was sent a field of another type
\* (AssetManager::runSession, makeAssetsAvailable).
THEOREM RequestsAreAnswered == ServicesSpec => []EachRequestAnswered
<1>1. RequestInv /\ ThrownInv => EachRequestAnswered
  BY DEF RequestInv, Sound, SentInOrder, ThrownInv, EachRequestAnswered
<1>2. ServicesInit => ThrownInv
  BY DEF ServicesInit, ThrownInv
<1> QED
  BY <1>1, <1>2, LifeHolds, RequestsInitially, RequestStep, ThrownStep, PTL DEF ServicesSpec
=============================================================================
