----------------------------- MODULE PartsProofs ------------------------------
(***************************************************************************)
(* Theorems about the smaller parts: a client without threads (SyncIo),    *)
(* the scopes of the logger (LoggerScopes), astl::expected (Expected),     *)
(* astl::generator (Generator), the coroutines of a strand (Coroutines)    *)
(* and the dummy service's sessions (DummySession).  Each is proved by an  *)
(* inductive invariant of its own, for every value of its constants.       *)
(***************************************************************************)
EXTENDS DummySession, SyncIo, LoggerScopes, Expected, Generator, Coroutines,
        SequenceTheorems, FiniteSetTheorems, WellFoundedInduction, TLAPS

-----------------------------------------------------------------------------
(* SyncIo                                                                    *)

\* A suspended service is suspended for a reason that still holds, because whatever
\* takes the reason away posts the task; and what the client remembers of its last
\* call is still so.
Suspended ==
  /\ ~ready /\ service = "polling" => outgoing = 0 /\ ~isClosed
  /\ ~ready /\ service = "pushing" => incoming = InSize /\ ~isClosed
  /\ service = "pushing" => toPush > 0
  /\ service = "ended" => isClosed /\ ~ready
  /\ isClosed <=> call = "close" \/ result = "end"
  /\ result = "end" => call = "none"
  /\ call = "put" => result \in {"accepted", "full"}

SyncInv == SyncTypeOK /\ Suspended /\ NothingLeftBehind

-----------------------------------------------------------------------------
\* Both channels have room for a frame.
LEMMA Sizes == OutSize \in Nat /\ OutSize > 0 /\ InSize \in Nat /\ InSize > 0
BY SyncAssumption

\* A service that has just been spawned is ready, and nothing was called yet.
LEMMA SyncInitially == SyncInit => SyncInv
<1> SUFFICES ASSUME SyncInit
             PROVE  SyncInv
  OBVIOUS
<1>1. SyncTypeOK
  <2>1. /\ call \in {"none", "get", "put", "close"}
        /\ result \in {"start", "frame", "nothing", "accepted", "full", "end"}
        /\ service \in {"polling", "pushing", "ended"}
    BY DEF SyncInit
  <2>2. outgoing \in 0..OutSize /\ incoming \in 0..InSize
    BY Sizes DEF SyncInit
  <2>3. isClosed \in BOOLEAN /\ ready \in BOOLEAN /\ toPush \in Nat
    BY DEF SyncInit
  <2> QED
    BY <2>1, <2>2, <2>3 DEF SyncTypeOK
<1>2. Suspended
  BY Sizes DEF SyncInit, Suspended
<1>3. NothingLeftBehind
  BY DEF SyncInit, NothingLeftBehind
<1> QED
  BY <1>1, <1>2, <1>3 DEF SyncInv

\* Every step keeps the invariant: one case per action.
LEMMA SyncStep == SyncInv /\ [SyncNext]_syncVars => SyncInv'
<1> USE Sizes DEF SyncInv, SyncTypeOK, Suspended, NothingLeftBehind, servVars
<1> SUFFICES ASSUME SyncInv, [SyncNext]_syncVars
             PROVE  SyncInv'
  OBVIOUS
<1>1. CASE BeginGet
  BY <1>1 DEF BeginGet
<1>2. CASE FinishGet
  <2>1. CASE incoming > 0
    <3>1. /\ ready' \in BOOLEAN
          /\ ready' <=> service = "pushing"
      BY <1>2, <2>1, Zenon DEF FinishGet, Notifies
    <3> QED
      BY <1>2, <2>1, <3>1 DEF FinishGet
  <2>2. CASE ~(incoming > 0)
    BY <1>2, <2>2 DEF FinishGet
  <2> QED
    BY <2>1, <2>2
<1>3. CASE BeginPut
  <2>1. CASE outgoing < OutSize
    <3>1. /\ ready' \in BOOLEAN
          /\ ready' <=> ready \/ service = "polling"
      BY <1>3, <2>1, Zenon DEF BeginPut, Notifies
    <3> QED
      BY <1>3, <2>1, <3>1 DEF BeginPut
  <2>2. CASE ~(outgoing < OutSize)
    BY <1>3, <2>2 DEF BeginPut
  <2> QED
    BY <2>1, <2>2
<1>4. CASE BeginClose
  BY <1>4 DEF BeginClose
<1>5. CASE FinishCall
  BY <1>5 DEF FinishCall
<1>6. CASE TakeRequest
  BY <1>6, SyncAssumption DEF TakeRequest, Running
<1>7. CASE PushReply
  BY <1>7 DEF PushReply, Running
<1>8. CASE Suspend
  BY <1>8 DEF Suspend, Running
<1>9. CASE EndService
  BY <1>9 DEF EndService, Running
<1>10. CASE UNCHANGED syncVars
  BY <1>10 DEF syncVars
<1> QED
  BY <1>1, <1>2, <1>3, <1>4, <1>5, <1>6, <1>7, <1>8, <1>9, <1>10 DEF SyncNext

\* No call of a client without threads leaves behind what it waits for
\* (sync_io::get, put and close, with sync_io_ctx::run_tasks).
THEOREM NothingIsLeftBehind == SyncSpec => []NothingLeftBehind
<1>1. SyncInv => NothingLeftBehind
  BY DEF SyncInv
<1> QED
  BY <1>1, SyncInitially, SyncStep, PTL DEF SyncSpec

-----------------------------------------------------------------------------
(* LoggerScopes                                                              *)

LgScopes == LogScopes \cup {NoScope}
Slot == initializing[1]
Part == initializing[2]

SinkSeq == Seq(STRING)
LoggerRec ==
  [sinks : SinkSeq, scopeSinks : SinkSeq, initialized : BOOLEAN, level : EntryLevels]
ScopeRec == [alive : BOOLEAN, level : EntryLevels \cup {Off}, sinks : SinkSeq]
EntryRec ==
  [at : {"idle", "enabled", "recording", "added"}, scope : LgScopes,
   left : SinkSeq, recorded : SinkSeq]

LgTypes ==
  /\ logger \in LoggerRec
  /\ registry \in Seq(LgScopes)
  /\ scope \in [LogScopes -> ScopeRec]
  /\ \/ initializing = NotRunning
     \/ \E n \in Nat \ {0}, p \in {"sinks", "level"} : initializing = <<n, p>>
  /\ logging \in [LogThreads -> EntryRec]

\* A scope that lets entries in has the sinks of an initialized logger, and so has
\* every scope when initialize() is through.
HasSinks(s) == logger.initialized /\ scope[s].sinks = logger.scopeSinks
Admits(s) == scope[s].alive => scope[s].level = Off \/ HasSinks(s)
Reached(s) == scope[s].alive /\ logger.initialized /\ MutexFree => HasSinks(s)

\* The registry has each living scope in one slot, and no other scope.
Registered(s) ==
  /\ scope[s].alive <=> \E i \in DOMAIN registry : registry[i] = s
  /\ \A i, j \in DOMAIN registry : registry[i] = s /\ registry[j] = s => i = j

\* initialize() has given the sinks to the scopes in the slots it has passed.
Passed ==
  ~MutexFree =>
    /\ logger.initialized
    /\ \A i \in DOMAIN registry : i < Slot /\ registry[i] # NoScope => HasSinks(registry[i])
    /\ Part = "level" =>
         Slot \in DOMAIN registry /\ registry[Slot] # NoScope /\ HasSinks(registry[Slot])

\* A thread that adds an entry does it to a living scope that has its sinks, and what
\* it has recorded and what is left are all of them.
Adding(t) ==
  LET e == logging[t] IN
    /\ e.at = "idle" => e.scope = NoScope
    /\ e.at # "idle" =>
         e.scope \in LogScopes /\ scope[e.scope].alive /\ HasSinks(e.scope)
    /\ e.at = "recording" => e.recorded \o e.left = logger.scopeSinks
    /\ e.at = "added" => e.recorded = logger.scopeSinks
    /\ e.at \in {"idle", "enabled"} => e.recorded = <<>>

LgInv ==
  /\ LgTypes /\ Passed
  /\ \A s \in LogScopes : Admits(s) /\ Reached(s) /\ Registered(s)
  /\ \A t \in LogThreads : Adding(t)

\* The intervals from 1 that end in I, by inclusion, find its smallest element.
LEMMA SmallestOf ==
  ASSUME NEW n \in Nat, NEW I \in SUBSET (1..n), I # {}
  PROVE  Min(I) \in I
<1> DEFINE T == {1..i : i \in I}
           R == StrictSubsetOrdering(1..n)
           S == FiniteSubsetsOf(1..n)
<1>1. \A i \in I : i \in Nat /\ i >= 1 /\ i <= n
  OBVIOUS
<1>2. \A i \in I : IsFiniteSet(1..i) /\ 1..i \in SUBSET (1..n)
  BY <1>1, FS_Interval
<1>3. T \subseteq S /\ T # {}
  BY <1>2 DEF FiniteSubsetsOf
<1>4. IsWellFoundedOn(R, S)
  BY FS_StrictSubsetOrderingWellFounded
<1>5. PICK x \in T : \A y \in T : ~(<<y, x>> \in R)
  <2> HIDE DEF T, R, S
  <2> QED
    BY <1>3, <1>4, WFMin
<1>6. PICK m \in I : x = 1..m
  BY <1>5
<1>7. \A j \in I : m <= j
  <2> SUFFICES ASSUME NEW j \in I, j < m PROVE FALSE
    BY <1>1
  <2>1. 1..j \in T /\ 1..j \in SUBSET (1..n) /\ 1..m \in SUBSET (1..n)
    BY <1>2
  <2>2. 1..j \subseteq 1..m /\ m \in 1..m /\ m \notin 1..j
    BY <1>1
  <2>3. <<1..j, 1..m>> \in R
    BY <2>1, <2>2 DEF StrictSubsetOrdering
  <2> QED
    BY <1>5, <1>6, <2>1, <2>3
<1> QED
  BY <1>7 DEF Min

\* Sequences of sinks.
LEMMA SinkSeqs ==
  /\ <<>> \in SinkSeq
  /\ \A n : SubSeq(LogSinks, 1, n) \in SinkSeq \/ n \notin 0..Len(LogSinks)
  /\ \A r \in SinkSeq : Len(r) \in Nat
  /\ \A l, r \in SinkSeq : l # <<>> =>
       /\ Tail(l) \in SinkSeq /\ Append(r, Head(l)) \in SinkSeq
       /\ Append(r, Head(l)) \o Tail(l) = r \o l
  /\ \A r \in SinkSeq : r \o <<>> = r /\ <<>> \o r = r
<1>1. <<>> \in SinkSeq /\ \A r \in SinkSeq : Len(r) \in Nat
  BY DEF SinkSeq
<1>2. \A n : SubSeq(LogSinks, 1, n) \in SinkSeq \/ n \notin 0..Len(LogSinks)
  BY LoggerAssumption DEF SinkSeq
<1>3. \A l, r \in SinkSeq : l # <<>> => Tail(l) \in SinkSeq /\ Append(r, Head(l)) \in SinkSeq
  BY DEF SinkSeq
<1>4. ASSUME NEW l \in SinkSeq, NEW r \in SinkSeq, l # <<>>
      PROVE  Append(r, Head(l)) \o Tail(l) = r \o l
  <2> DEFINE a == Append(r, Head(l))
  <2>1. /\ a \in Seq(STRING) /\ Len(a) = Len(r) + 1 /\ a[Len(r) + 1] = Head(l)
        /\ \A i \in 1..Len(r) : a[i] = r[i]
        /\ Tail(l) \in Seq(STRING) /\ Len(Tail(l)) = Len(l) - 1
        /\ \A i \in 1..Len(Tail(l)) : Tail(l)[i] = l[i + 1]
        /\ Head(l) = l[1] /\ Len(l) \in Nat \ {0} /\ Len(r) \in Nat
    BY <1>4 DEF SinkSeq
  <2> QED
    BY <1>4, <2>1 DEF SinkSeq
<1>5. \A r \in SinkSeq : r \o <<>> = r /\ <<>> \o r = r
  BY DEF SinkSeq
<1> QED
  BY <1>1, <1>2, <1>3, <1>4, <1>5

\* Registering a scope takes the first slot that is free, or a new one.
LEMMA FreeSlot ==
  ASSUME LgTypes
  PROVE  LET free == SelectInSeq(registry, LAMBDA r : r = NoScope)
         IN IF free = 0 THEN \A i \in DOMAIN registry : registry[i] # NoScope
            ELSE free \in DOMAIN registry /\ registry[free] = NoScope
<1> DEFINE I == {i \in 1..Len(registry) : registry[i] = NoScope}
<1>1. Len(registry) \in Nat /\ DOMAIN registry = 1..Len(registry)
  BY DEF LgTypes
<1>2. I # {} => Min(I) \in I
  BY <1>1, SmallestOf
<1>3. SelectInSeq(registry, LAMBDA r : r = NoScope) = IF I # {} THEN Min(I) ELSE 0
  BY DEF SelectInSeq
<1> QED
  BY <1>1, <1>2, <1>3

\* A living scope is found in its slot.
LEMMA OwnSlot ==
  ASSUME LgTypes, NEW s \in LogScopes, Registered(s), scope[s].alive
  PROVE  LET slot == SelectInSeq(registry, LAMBDA r : r = s)
         IN slot \in DOMAIN registry /\ registry[slot] = s
<1> DEFINE I == {i \in 1..Len(registry) : registry[i] = s}
<1>1. Len(registry) \in Nat /\ DOMAIN registry = 1..Len(registry)
  BY DEF LgTypes
<1>2. I # {}
  BY <1>1 DEF Registered
<1>4. Min(I) \in I
  BY <1>1, <1>2, SmallestOf
<1>3. SelectInSeq(registry, LAMBDA r : r = s) = IF I # {} THEN Min(I) ELSE 0
  BY DEF SelectInSeq
<1> QED
  BY <1>1, <1>2, <1>3, <1>4

\* What the actions write are records of the right kind: the logger,
LEMMA LoggerRecords ==
  ASSUME NEW l \in LoggerRec
  PROVE  /\ l.sinks \in SinkSeq /\ l.scopeSinks \in SinkSeq /\ l.level \in EntryLevels
         /\ l.initialized \in BOOLEAN
         /\ \A q \in SinkSeq : [l EXCEPT !.sinks = q] \in LoggerRec
         /\ \A k \in EntryLevels : [l EXCEPT !.level = k] \in LoggerRec
         /\ [l EXCEPT !.initialized = TRUE, !.scopeSinks = l.sinks] \in LoggerRec
<1> HIDE DEF SinkSeq
<1> QED
  BY DEF LoggerRec

\* a scope,
LEMMA ScopeRecords ==
  /\ NotAlive \in ScopeRec
  /\ \A q \in SinkSeq, k \in EntryLevels \cup {Off} :
       [alive |-> TRUE, level |-> k, sinks |-> q] \in ScopeRec
  /\ \A x \in ScopeRec :
       /\ x.sinks \in SinkSeq /\ x.level \in EntryLevels \cup {Off} /\ x.alive \in BOOLEAN
       /\ \A q \in SinkSeq : [x EXCEPT !.sinks = q] \in ScopeRec
       /\ \A k \in EntryLevels \cup {Off} : [x EXCEPT !.level = k] \in ScopeRec
<1>1. <<>> \in SinkSeq
  BY SinkSeqs
<1> HIDE DEF SinkSeq
<1> QED
  BY <1>1 DEF ScopeRec, NotAlive, EntryLevels

\* and the entry a thread is adding.
LEMMA EntryRecords ==
  /\ NotLogging \in EntryRec
  /\ \A s \in LogScopes : [NotLogging EXCEPT !.at = "enabled", !.scope = s] \in EntryRec
  /\ \A e \in EntryRec :
       /\ e.left \in SinkSeq /\ e.recorded \in SinkSeq /\ e.scope \in LgScopes
       /\ e.at \in {"idle", "enabled", "recording", "added"}
       /\ \A q \in SinkSeq : [e EXCEPT !.at = "recording", !.left = q] \in EntryRec
       /\ [e EXCEPT !.at = "added"] \in EntryRec
       /\ \A q, r \in SinkSeq : [e EXCEPT !.left = q, !.recorded = r] \in EntryRec
<1>1. <<>> \in SinkSeq
  BY SinkSeqs
<1> HIDE DEF SinkSeq
<1> QED
  BY <1>1 DEF EntryRec, NotLogging, LgScopes

\* The logger's own operations, before initialize().
LEMMA LoggerSteps == LgInv /\ (AddSink \/ SetDefaultLevel \/ Initialize) => LgInv'
<1> SUFFICES ASSUME LgInv, AddSink \/ SetDefaultLevel \/ Initialize PROVE LgInv'
  OBVIOUS
<1>1. /\ LgTypes /\ Passed
      /\ \A s \in LogScopes : Admits(s) /\ Reached(s) /\ Registered(s)
      /\ \A t \in LogThreads : Adding(t)
  BY DEF LgInv
<1> HIDE DEF LgInv
<1>2. UNCHANGED <<registry, scope, logging>> /\ MutexFree
  BY DEF AddSink, SetDefaultLevel, Initialize
<1>3. CASE AddSink \/ SetDefaultLevel
  <2>1. logger' \in LoggerRec /\ initializing' = initializing
        /\ logger'.initialized = logger.initialized /\ logger'.scopeSinks = logger.scopeSinks
    <3>1. CASE AddSink
      <4> DEFINE q == SubSeq(LogSinks, 1, Len(logger.sinks) + 1)
      <4>1. Len(logger.sinks) \in Nat /\ Len(logger.sinks) < Len(LogSinks)
        BY <1>1, <3>1, LoggerRecords, SinkSeqs DEF AddSink, LgTypes
      <4>2. q \in SinkSeq
        BY <4>1, SinkSeqs, LoggerAssumption
      <4> HIDE DEF q
      <4>3. logger' = [logger EXCEPT !.sinks = q]
        BY <3>1 DEF AddSink, q
      <4>4. logger' \in LoggerRec
        BY <1>1, <4>2, <4>3, LoggerRecords DEF LgTypes
      <4> QED
        BY <1>1, <3>1, <4>3, <4>4 DEF LgTypes, LoggerRec, AddSink
    <3>2. CASE SetDefaultLevel
      <4>1. PICK k \in EntryLevels : logger' = [logger EXCEPT !.level = k]
        BY <3>2 DEF SetDefaultLevel
      <4>2. logger' \in LoggerRec
        BY <1>1, <4>1, LoggerRecords DEF LgTypes
      <4> QED
        BY <1>1, <3>2, <4>1, <4>2 DEF LgTypes, LoggerRec, SetDefaultLevel
    <3> QED
      BY <1>3, <3>1, <3>2
  <2>2. LgTypes'
    BY <1>1, <1>2, <2>1 DEF LgTypes
  <2>3. \A s : HasSinks(s)' <=> HasSinks(s)
    BY <1>2, <2>1 DEF HasSinks
  <2>4. Passed'
    BY <1>1, <1>2, <2>1 DEF Passed, MutexFree
  <2>5. \A s \in LogScopes : Admits(s)' /\ Reached(s)' /\ Registered(s)'
    BY <1>1, <1>2, <2>1, <2>3 DEF Admits, Reached, Registered, MutexFree
  <2>6. \A t \in LogThreads : Adding(t)'
    BY <1>1, <1>2, <2>1, <2>3 DEF Adding
  <2> QED
    BY <2>2, <2>4, <2>5, <2>6 DEF LgInv
<1>4. CASE Initialize
  <2>1. /\ logger' = [logger EXCEPT !.initialized = TRUE, !.scopeSinks = logger.sinks]
        /\ initializing' = <<1, "sinks">> /\ ~logger.initialized
    BY <1>4 DEF Initialize
  <2>2. logger' \in LoggerRec
    BY <1>1, <2>1, LoggerRecords DEF LgTypes
  <2>3. LgTypes'
    BY <1>1, <1>2, <2>1, <2>2 DEF LgTypes
  <2>4. logger'.initialized /\ Slot' = 1 /\ Part' = "sinks" /\ ~MutexFree'
    BY <1>1, <2>1 DEF LgTypes, LoggerRec, Slot, Part, MutexFree, NotRunning
  <2>5. Passed'
    BY <1>1, <1>2, <2>4 DEF Passed, LgTypes
  <2>6. \A s \in LogScopes : Admits(s)' /\ Reached(s)' /\ Registered(s)'
    BY <1>1, <1>2, <2>1, <2>4 DEF Admits, Reached, Registered, HasSinks
  <2>7. \A t \in LogThreads : logging[t].at = "idle"
    BY <1>1, <2>1 DEF Adding, HasSinks
  <2>8. \A t \in LogThreads : Adding(t)'
    BY <1>1, <1>2, <2>7 DEF Adding
  <2> QED
    BY <2>3, <2>5, <2>6, <2>8 DEF LgInv
<1> QED
  BY <1>3, <1>4

\* A step of initialize() gives a scope its sinks, and then its level.
LEMMA InitializeStep == LgInv /\ InitializeScopes => LgInv'
<1> SUFFICES ASSUME LgInv, InitializeScopes PROVE LgInv'
  OBVIOUS
<1>1. /\ LgTypes /\ Passed
      /\ \A s \in LogScopes : Admits(s) /\ Reached(s) /\ Registered(s)
      /\ \A t \in LogThreads : Adding(t)
  BY DEF LgInv
<1> HIDE DEF LgInv
<1>2. /\ UNCHANGED <<logger, registry, logging>> /\ ~MutexFree
      /\ Slot \in Nat \ {0} /\ Part \in {"sinks", "level"}
  BY <1>1 DEF InitializeScopes, Slot, Part, LgTypes, MutexFree
<1>3. DOMAIN registry = 1..Len(registry) /\ Len(registry) \in Nat
      /\ \A i \in DOMAIN registry : registry[i] \in LgScopes
  BY <1>1 DEF LgTypes
<1>4. /\ logger \in LoggerRec /\ logger.scopeSinks \in SinkSeq /\ logger.level \in EntryLevels
      /\ logger.initialized
      /\ scope \in [LogScopes -> ScopeRec]
      /\ \A i \in DOMAIN registry : i < Slot /\ registry[i] # NoScope => HasSinks(registry[i])
      /\ Part = "level" =>
           Slot \in DOMAIN registry /\ registry[Slot] # NoScope /\ HasSinks(registry[Slot])
  <2>1. logger \in LoggerRec /\ scope \in [LogScopes -> ScopeRec]
    BY <1>1 DEF LgTypes
  <2> QED
    BY <1>1, <1>2, <2>1, LoggerRecords DEF Passed
<1>5. CASE Slot \notin DOMAIN registry \/ registry[Slot] = NoScope
  <2>1. scope' = scope
    BY <1>2, <1>3, <1>5 DEF InitializeScopes, Slot
  <2>2. Part = "sinks"
    BY <1>2, <1>4, <1>5
  <2>3. \/ initializing' = NotRunning /\ Slot >= Len(registry)
        \/ initializing' = <<Slot + 1, "sinks">> /\ Slot < Len(registry)
    BY <1>2, <1>3, <1>5 DEF InitializeScopes, Slot, Part
  <2>4. LgTypes'
    BY <1>1, <1>2, <2>1, <2>3 DEF LgTypes
  <2>5. \A s : HasSinks(s)' <=> HasSinks(s)
    BY <1>2, <2>1 DEF HasSinks
  <2>6. \A i \in DOMAIN registry : i < Slot + 1 /\ registry[i] # NoScope => HasSinks(registry[i])
    BY <1>2, <1>3, <1>4, <1>5
  <2>7. Passed'
    <3>1. ~MutexFree' => Slot' = Slot + 1 /\ Part' = "sinks"
      BY <2>3 DEF MutexFree, Slot, Part
    <3> QED
      BY <1>2, <1>4, <2>5, <2>6, <3>1 DEF Passed
  <2>8. ASSUME NEW s \in LogScopes PROVE Admits(s)' /\ Reached(s)' /\ Registered(s)'
    <3>1. Admits(s)' /\ Registered(s)'
      BY <1>1, <1>2, <2>1, <2>5 DEF Admits, Registered
    <3>2. Reached(s)'
      <4> SUFFICES ASSUME scope[s].alive, MutexFree' PROVE HasSinks(s)
        BY <1>2, <2>1, <2>5 DEF Reached
      <4>1. Slot >= Len(registry)
        BY <1>2, <2>3 DEF MutexFree, NotRunning
      <4>2. PICK i \in DOMAIN registry : registry[i] = s
        BY <1>1 DEF Registered
      <4>3. i < Slot + 1 /\ s # NoScope
        BY <1>2, <1>3, <4>1, LoggerAssumption
      <4> QED
        BY <2>6, <4>2, <4>3
    <3> QED
      BY <3>1, <3>2
  <2>9. \A t \in LogThreads : Adding(t)'
    BY <1>1, <1>2, <2>1, <2>5 DEF Adding
  <2> QED
    BY <2>4, <2>7, <2>8, <2>9 DEF LgInv
<1>6. CASE Slot \in DOMAIN registry /\ registry[Slot] # NoScope
  <2>1. PICK r \in LogScopes : r = registry[Slot]
    BY <1>3, <1>6 DEF LgScopes
  <2>2. scope' = [scope EXCEPT ![r] = IF Part = "sinks"
                                       THEN [scope[r] EXCEPT !.sinks = logger.scopeSinks]
                                       ELSE [scope[r] EXCEPT !.level = logger.level]]
    BY <1>3, <1>6, <2>1 DEF InitializeScopes, InitScope, Slot, Part
  <2> DEFINE x == IF Part = "sinks" THEN [scope[r] EXCEPT !.sinks = logger.scopeSinks]
                                     ELSE [scope[r] EXCEPT !.level = logger.level]
  <2>3. scope[r] \in ScopeRec /\ x \in ScopeRec
    BY <1>4, <2>1, ScopeRecords
  <2>4. /\ x.alive = scope[r].alive
        /\ x.sinks = logger.scopeSinks
    BY <1>2, <1>4, <1>6, <2>1, <2>3 DEF ScopeRec, HasSinks
  <2> HIDE DEF x
  <2>5. scope' = [scope EXCEPT ![r] = x]
    BY <2>2 DEF x
  <2>6. scope' \in [LogScopes -> ScopeRec] /\ scope'[r] = x
        /\ \A s \in LogScopes : s # r => scope'[s] = scope[s]
    BY <1>4, <2>1, <2>3, <2>5
  <2>7. \/ initializing' = <<Slot, "level">>
        \/ initializing' = NotRunning /\ Slot = Len(registry)
        \/ initializing' = <<Slot + 1, "sinks">> /\ Slot < Len(registry)
    BY <1>2, <1>3, <1>6, <2>1 DEF InitializeScopes, Slot, Part
  <2>8. LgTypes'
    BY <1>1, <1>2, <2>6, <2>7 DEF LgTypes
  <2>9. /\ HasSinks(r)'
        /\ \A s \in LogScopes : /\ HasSinks(s) => HasSinks(s)'
                                /\ scope'[s].alive = scope[s].alive
                                /\ s # r => scope'[s].level = scope[s].level
    <3>1. HasSinks(r)' /\ scope'[r].alive = scope[r].alive
      BY <1>2, <1>4, <2>4, <2>6 DEF HasSinks
    <3>2. \A s \in LogScopes : s # r => (HasSinks(s)' <=> HasSinks(s))
      BY <1>2, <2>6 DEF HasSinks
    <3> QED
      BY <2>6, <3>1, <3>2
  <2>10. \A i \in DOMAIN registry : i < Slot + 1 /\ registry[i] # NoScope => HasSinks(registry[i])'
    <3> SUFFICES ASSUME NEW i \in DOMAIN registry, i < Slot + 1, registry[i] # NoScope
                 PROVE  HasSinks(registry[i])'
      BY <1>2
    <3>1. registry[i] \in LogScopes /\ i \in Nat
      BY <1>3 DEF LgScopes
    <3>2. CASE i = Slot
      BY <1>2, <2>1, <2>9, <3>2
    <3>3. CASE i < Slot
      BY <1>2, <1>4, <2>9, <3>1, <3>3
    <3> QED
      BY <1>2, <3>1, <3>2, <3>3
  <2>11. Passed'
    <3>1. ~MutexFree' => \/ Slot' = Slot /\ Part' = "level"
                         \/ Slot' = Slot + 1 /\ Part' = "sinks"
      BY <2>7 DEF MutexFree, Slot, Part
    <3> QED
      BY <1>2, <1>3, <1>4, <1>6, <2>9, <2>10, <3>1, <2>1 DEF Passed
  <2>12. ASSUME NEW s \in LogScopes PROVE Admits(s)' /\ Reached(s)' /\ Registered(s)'
    <3>1. Admits(s)'
      BY <1>1, <2>1, <2>9 DEF Admits
    <3>3. Registered(s)'
      BY <1>1, <1>2, <2>9 DEF Registered
    <3>2. Reached(s)'
      <4> SUFFICES ASSUME scope[s].alive, MutexFree' PROVE HasSinks(s)'
        BY <1>2, <2>9 DEF Reached
      <4>1. Slot = Len(registry)
        BY <1>2, <2>7 DEF MutexFree, NotRunning
      <4>2. PICK i \in DOMAIN registry : registry[i] = s
        BY <1>1 DEF Registered
      <4>3. i < Slot + 1 /\ s # NoScope
        BY <1>2, <1>3, <4>1, LoggerAssumption
      <4> QED
        BY <1>2, <2>10, <4>2, <4>3
    <3> QED
      BY <3>1, <3>2, <3>3
  <2>13. \A t \in LogThreads : Adding(t)'
    BY <1>1, <1>2, <2>9 DEF Adding
  <2> QED
    BY <2>8, <2>11, <2>12, <2>13 DEF LgInv
<1> QED
  BY <1>5, <1>6

\* A scope that is registered, or unregistered, leaves the others as they are.
LEMMA OthersStay ==
  ASSUME LgInv, NEW s \in LogScopes, NEW x \in ScopeRec, NEW n \in Nat,
         UNCHANGED <<logger, initializing, logging>>, MutexFree,
         scope' = [scope EXCEPT ![s] = x],
         registry' \in Seq(LgScopes),
         \A i \in DOMAIN registry : i # n => i \in DOMAIN registry' /\ registry'[i] = registry[i],
         \A i \in DOMAIN registry' : i # n => i \in DOMAIN registry,
         n \in DOMAIN registry => registry[n] \in {s, NoScope},
         n \in DOMAIN registry' /\ registry'[n] = (IF x.alive THEN s ELSE NoScope),
         \A i \in DOMAIN registry : registry[i] = s => i = n,
         x.alive => \/ ~logger.initialized /\ x.level = Off
                    \/ logger.initialized /\ x.sinks = logger.scopeSinks,
         \A t \in LogThreads : logging[t].scope # s
  PROVE  LgInv'
<1>1. /\ LgTypes /\ \A t \in LogThreads : Adding(t)
      /\ \A r \in LogScopes : Admits(r) /\ Reached(r) /\ Registered(r)
      /\ scope \in [LogScopes -> ScopeRec]
  BY DEF LgInv, LgTypes
<1> HIDE DEF LgInv
<1>2. /\ scope' \in [LogScopes -> ScopeRec] /\ scope'[s] = x
      /\ \A r \in LogScopes : r # s => scope'[r] = scope[r]
  BY <1>1
<1>3. LgTypes'
  BY <1>1, <1>2 DEF LgTypes
<1>4. Passed' /\ MutexFree'
  BY DEF Passed, MutexFree
<1>5. x.alive \in BOOLEAN /\ s # NoScope
  BY ScopeRecords, LoggerAssumption
<1>6. ASSUME NEW r \in LogScopes, r # s PROVE Admits(r)' /\ Reached(r)' /\ Registered(r)'
  <2>1. Admits(r) /\ Reached(r) /\ scope'[r] = scope[r] /\ (HasSinks(r)' <=> HasSinks(r))
    BY <1>1, <1>2, <1>6 DEF HasSinks
  <2>2. Admits(r)' /\ Reached(r)'
    BY <2>1 DEF Admits, Reached, MutexFree
  <2>3. r # NoScope
    BY LoggerAssumption
  <2>4. \A i \in DOMAIN registry' : registry'[i] = r => i # n
    BY <1>6, <2>3
  <2>5. \A i \in DOMAIN registry : registry[i] = r => i # n
    BY <1>6, <2>3
  <2>6. Registered(r)
    BY <1>1
  <2>7. Registered(r)'
    BY <2>1, <2>4, <2>5, <2>6 DEF Registered
  <2> QED
    BY <2>2, <2>7
<1>7. Admits(s)' /\ Reached(s)'
  BY <1>2 DEF Admits, Reached, HasSinks
<1>8. Registered(s)'
  BY <1>2, <1>5 DEF Registered
<1>9. \A t \in LogThreads : Adding(t)'
  BY <1>1, <1>2 DEF Adding, HasSinks
<1> QED
  BY <1>3, <1>4, <1>6, <1>7, <1>8, <1>9 DEF LgInv

\* registerScope and unregisterScope.
LEMMA RegistrySteps ==
  ASSUME LgInv, NEW s \in LogScopes, RegisterScope(s) \/ UnregisterScope(s)
  PROVE  LgInv'
<1>1. /\ LgTypes /\ Registered(s) /\ \A t \in LogThreads : Adding(t)
      /\ registry \in Seq(LgScopes) /\ Len(registry) \in Nat /\ DOMAIN registry = 1..Len(registry)
      /\ logger \in LoggerRec /\ s \in LgScopes /\ NoScope \in LgScopes
  BY DEF LgInv, LgTypes, LgScopes
<1>2. UNCHANGED <<logger, initializing, logging>> /\ MutexFree
  BY DEF RegisterScope, UnregisterScope
<1>3. ASSUME RegisterScope(s) PROVE LgInv'
  <2> DEFINE free == SelectInSeq(registry, LAMBDA r : r = NoScope)
             x == IF logger.initialized
                  THEN [alive |-> TRUE, level |-> logger.level, sinks |-> logger.scopeSinks]
                  ELSE [alive |-> TRUE, level |-> Off, sinks |-> <<>>]
             n == IF free = 0 THEN Len(registry) + 1 ELSE free
  <2>1. IF free = 0 THEN \A i \in DOMAIN registry : registry[i] # NoScope
        ELSE free \in DOMAIN registry /\ registry[free] = NoScope
    BY <1>1, FreeSlot
  <2>2. /\ ~scope[s].alive /\ scope' = [scope EXCEPT ![s] = x]
        /\ registry' = IF free = 0 THEN Append(registry, s) ELSE [registry EXCEPT ![free] = s]
    BY <1>3 DEF RegisterScope
  <2>3. x \in ScopeRec /\ x.alive
        /\ (x.alive => \/ ~logger.initialized /\ x.level = Off
                       \/ logger.initialized /\ x.sinks = logger.scopeSinks)
    BY <1>1, LoggerRecords, ScopeRecords, SinkSeqs
  <2> HIDE DEF free, x
  <2>4. /\ n \in Nat /\ registry' \in Seq(LgScopes)
        /\ \A i \in DOMAIN registry : i # n => i \in DOMAIN registry' /\ registry'[i] = registry[i]
        /\ \A i \in DOMAIN registry' : i # n => i \in DOMAIN registry
        /\ n \in DOMAIN registry => registry[n] \in {s, NoScope}
        /\ n \in DOMAIN registry' /\ registry'[n] = s
    <3>1. CASE free = 0
      BY <1>1, <2>2, <3>1
    <3>2. CASE free # 0
      BY <1>1, <2>1, <2>2, <3>2
    <3> QED
      BY <3>1, <3>2
  <2>5. \A i \in DOMAIN registry : registry[i] # s
    BY <1>1, <2>2 DEF Registered
  <2>6. \A t \in LogThreads : logging[t].scope # s
    BY <1>1, <2>2, LoggerAssumption DEF Adding
  <2> HIDE DEF n
  <2>7. registry'[n] = (IF x.alive THEN s ELSE NoScope)
        /\ (\A i \in DOMAIN registry : registry[i] = s => i = n)
    BY <2>3, <2>4, <2>5
  <2> QED
    BY <1>2, <2>2, <2>3, <2>4, <2>6, <2>7, OthersStay
<1>4. ASSUME UnregisterScope(s) PROVE LgInv'
  <2> DEFINE n == SelectInSeq(registry, LAMBDA r : r = s)
  <2>1. /\ scope[s].alive /\ \A t \in LogThreads : logging[t].scope # s
        /\ registry' = [registry EXCEPT ![n] = NoScope]
        /\ scope' = [scope EXCEPT ![s] = NotAlive]
    BY <1>4 DEF UnregisterScope
  <2>2. n \in DOMAIN registry /\ registry[n] = s
    BY <1>1, <2>1, OwnSlot
  <2> HIDE DEF n
  <2>3. /\ n \in Nat /\ registry' \in Seq(LgScopes)
        /\ \A i \in DOMAIN registry : i # n => i \in DOMAIN registry' /\ registry'[i] = registry[i]
        /\ \A i \in DOMAIN registry' : i # n => i \in DOMAIN registry
        /\ n \in DOMAIN registry' /\ registry'[n] = NoScope
    BY <1>1, <2>1, <2>2
  <2>4. \A i \in DOMAIN registry : registry[i] = s => i = n
    BY <1>1, <2>2 DEF Registered
  <2>5. NotAlive \in ScopeRec /\ ~NotAlive.alive
    BY ScopeRecords DEF NotAlive
  <2> HIDE DEF NotAlive
  <2>6. registry'[n] = (IF NotAlive.alive THEN s ELSE NoScope)
    BY <2>3, <2>5
  <2> QED
    BY <1>2, <2>1, <2>2, <2>3, <2>4, <2>5, <2>6, OthersStay
<1> QED
  BY <1>3, <1>4

\* setLevel, and what the threads do with scopes.
LEMMA ScopeSteps ==
  ASSUME ~LevelsEarly, LgInv,
         \/ \E s \in LogScopes : SetLevel(s)
         \/ \E t \in LogThreads : \/ \E s \in LogScopes : CheckEnabled(t, s)
                                  \/ ReadSinks(t) \/ Record(t) \/ Forget(t)
  PROVE  LgInv'
<1>1. /\ LgTypes /\ Passed /\ \A t \in LogThreads : Adding(t)
      /\ \A r \in LogScopes : Admits(r) /\ Reached(r) /\ Registered(r)
      /\ scope \in [LogScopes -> ScopeRec] /\ logging \in [LogThreads -> EntryRec]
  BY DEF LgInv, LgTypes
<1> HIDE DEF LgInv
<1>2. ASSUME NEW s \in LogScopes, SetLevel(s) PROVE LgInv'
  <2>1. PICK k \in EntryLevels \cup {Off} :
          scope' = [scope EXCEPT ![s] = [scope[s] EXCEPT !.level = k]]
    BY <1>2 DEF SetLevel
  <2>2. /\ scope[s].alive /\ logger.initialized /\ MutexFree
        /\ UNCHANGED <<logger, registry, initializing, logging>>
    BY <1>2 DEF SetLevel
  <2> DEFINE x == [scope[s] EXCEPT !.level = k]
  <2>3. x \in ScopeRec /\ scope[s] \in ScopeRec
    BY <1>1, ScopeRecords
  <2>4. x.alive = scope[s].alive /\ x.sinks = scope[s].sinks
    BY <2>3 DEF ScopeRec
  <2>5. scope' = [scope EXCEPT ![s] = x]
    BY <2>1
  <2> HIDE DEF x
  <2>6. /\ scope' \in [LogScopes -> ScopeRec] /\ scope'[s] = x
        /\ \A r \in LogScopes : r # s => scope'[r] = scope[r]
    BY <1>1, <2>3, <2>5
  <2>7. \A r \in LogScopes : scope'[r].alive = scope[r].alive /\ scope'[r].sinks = scope[r].sinks
    BY <2>4, <2>6
  <2>8. LgTypes'
    BY <1>1, <2>2, <2>6 DEF LgTypes
  <2>9. Passed' /\ MutexFree'
    BY <2>2 DEF Passed, MutexFree
  <2>10. \A r \in LogScopes : HasSinks(r)' <=> HasSinks(r)
    BY <2>2, <2>7 DEF HasSinks
  <2>11. \A r \in LogScopes : Admits(r)' /\ Reached(r)' /\ Registered(r)'
    BY <1>1, <2>2, <2>7, <2>9, <2>10 DEF Admits, Reached, Registered
  <2>12. \A t \in LogThreads : Adding(t)'
    BY <1>1, <2>2, <2>7, <2>10 DEF Adding
  <2> QED
    BY <2>8, <2>9, <2>11, <2>12 DEF LgInv
<1>3. ASSUME NEW t \in LogThreads, NEW e \in EntryRec, logging' = [logging EXCEPT ![t] = e],
             UNCHANGED <<logger, registry, scope, initializing>>,
             logging'[t] = e => Adding(t)'
      PROVE  LgInv'
  <2>1. /\ logging' \in [LogThreads -> EntryRec] /\ logging'[t] = e
        /\ \A r \in LogThreads : r # t => logging'[r] = logging[r]
    BY <1>1, <1>3
  <2>2. LgTypes' /\ Passed'
    BY <1>1, <1>3, <2>1 DEF LgTypes, Passed, MutexFree, Slot, Part, HasSinks
  <2>3. \A s \in LogScopes : Admits(s)' /\ Reached(s)' /\ Registered(s)'
    BY <1>1, <1>3 DEF Admits, Reached, Registered, HasSinks, MutexFree
  <2>4. \A r \in LogThreads : r # t => Adding(r)'
    BY <1>1, <1>3, <2>1 DEF Adding, HasSinks
  <2> QED
    BY <1>3, <2>1, <2>2, <2>3, <2>4 DEF LgInv
<1>4. ASSUME NEW t \in LogThreads, NEW s \in LogScopes, CheckEnabled(t, s) PROVE LgInv'
  <2> DEFINE e == [NotLogging EXCEPT !.at = "enabled", !.scope = s]
  <2>1. /\ logging' = [logging EXCEPT ![t] = e] /\ e \in EntryRec
        /\ UNCHANGED <<logger, registry, scope, initializing>>
        /\ e.at = "enabled" /\ e.scope = s /\ e.recorded = <<>>
    BY <1>4, EntryRecords DEF CheckEnabled, NotLogging
  <2>2. scope[s].alive /\ scope[s].level # Off
    <3>1. scope[s] \in ScopeRec
      BY <1>1
    <3>2. scope[s].level \in EntryLevels \cup {Off}
      BY <3>1, ScopeRecords
    <3>3. PICK lvl \in EntryLevels : lvl >= scope[s].level
      BY <1>4 DEF CheckEnabled
    <3>4. scope[s].level # Off
      BY <3>2, <3>3 DEF EntryLevels, Off
    <3> QED
      BY <1>4, <3>4 DEF CheckEnabled
  <2>3. HasSinks(s)
    BY <1>1, <2>2 DEF Admits
  <2> HIDE DEF e
  <2>4. logging'[t] = e => Adding(t)'
    BY <2>1, <2>2, <2>3 DEF Adding, HasSinks
  <2> QED
    BY <1>3, <2>1, <2>4
<1>5. ASSUME NEW t \in LogThreads, ReadSinks(t) PROVE LgInv'
  <2>1. PICK o \in EntryRec : o = logging[t]
    BY <1>1
  <2>2. /\ o.at = "enabled" /\ o.recorded = <<>> /\ o.scope \in LogScopes
        /\ scope[o.scope].alive /\ HasSinks(o.scope)
    BY <1>1, <1>5, <2>1 DEF ReadSinks, Adding
  <2>3. PICK q \in SinkSeq : q = scope[o.scope].sinks
    BY <1>1, <2>2, ScopeRecords
  <2> DEFINE e == [o EXCEPT !.at = "recording", !.left = q]
  <2>4. /\ logging' = [logging EXCEPT ![t] = e] /\ e \in EntryRec
        /\ UNCHANGED <<logger, registry, scope, initializing>>
    BY <1>5, <2>1, <2>3, EntryRecords DEF ReadSinks
  <2>5. e.at = "recording" /\ e.scope = o.scope /\ e.recorded = <<>> /\ e.left = q
    BY <2>2 DEF EntryRec
  <2>6. e.recorded \o e.left = logger.scopeSinks
    BY <2>2, <2>3, <2>5, SinkSeqs DEF HasSinks
  <2> HIDE DEF e
  <2>7. logging'[t] = e => Adding(t)'
    BY <2>2, <2>4, <2>5, <2>6 DEF Adding, HasSinks
  <2> QED
    BY <1>3, <2>4, <2>7
<1>6. ASSUME NEW t \in LogThreads, Record(t) PROVE LgInv'
  <2>1. PICK o \in EntryRec : o = logging[t]
    BY <1>1
  <2>2. /\ o.at = "recording" /\ o.scope \in LogScopes
        /\ scope[o.scope].alive /\ HasSinks(o.scope)
        /\ o.recorded \o o.left = logger.scopeSinks
        /\ o.left \in SinkSeq /\ o.recorded \in SinkSeq
        /\ UNCHANGED <<logger, registry, scope, initializing>>
    BY <1>1, <1>6, <2>1, EntryRecords DEF Record, Adding
  <2>3. CASE o.left = <<>>
    <3> DEFINE e == [o EXCEPT !.at = "added"]
    <3>1. logging' = [logging EXCEPT ![t] = e] /\ e \in EntryRec
      BY <1>6, <2>1, <2>3, EntryRecords DEF Record
    <3>2. e.at = "added" /\ e.scope = o.scope /\ e.recorded = o.recorded
      BY DEF EntryRec
    <3>3. e.recorded = logger.scopeSinks
      BY <2>2, <2>3, <3>2, SinkSeqs
    <3> HIDE DEF e
    <3>4. logging'[t] = e => Adding(t)'
      BY <2>2, <3>1, <3>2, <3>3 DEF Adding, HasSinks
    <3> QED
      BY <1>3, <2>2, <3>1, <3>4
  <2>4. CASE o.left # <<>>
    <3>1. PICK q \in SinkSeq, r \in SinkSeq :
            q = Tail(o.left) /\ r = Append(o.recorded, Head(o.left))
      BY <2>2, <2>4, SinkSeqs
    <3> DEFINE e == [o EXCEPT !.left = q, !.recorded = r]
    <3>2. logging' = [logging EXCEPT ![t] = e] /\ e \in EntryRec
      <4>1. logging' = [logging EXCEPT ![t] =
              [o EXCEPT !.left = Tail(o.left), !.recorded = Append(o.recorded, Head(o.left))]]
        BY <1>6, <2>1, <2>4 DEF Record
      <4> QED
        BY <3>1, <4>1, EntryRecords
    <3>3. e.at = "recording" /\ e.scope = o.scope /\ e.recorded = r /\ e.left = q
      BY <2>2 DEF EntryRec
    <3>4. e.recorded \o e.left = logger.scopeSinks
      <4>1. Append(o.recorded, Head(o.left)) \o Tail(o.left) = o.recorded \o o.left
        BY <2>2, <2>4, SinkSeqs
      <4> QED
        BY <2>2, <3>1, <3>3, <4>1
    <3> HIDE DEF e
    <3>5. logging'[t] = e => Adding(t)'
      BY <2>2, <3>2, <3>3, <3>4 DEF Adding, HasSinks
    <3> QED
      BY <1>3, <2>2, <3>2, <3>5
  <2> QED
    BY <2>3, <2>4
<1>7. ASSUME NEW t \in LogThreads, Forget(t) PROVE LgInv'
  <2>1. /\ logging' = [logging EXCEPT ![t] = NotLogging] /\ NotLogging \in EntryRec
        /\ UNCHANGED <<logger, registry, scope, initializing>>
    BY <1>7, EntryRecords DEF Forget
  <2>2. logging'[t] = NotLogging => Adding(t)'
    BY DEF Adding, NotLogging
  <2> QED
    BY <1>3, <2>1, <2>2
<1> QED
  BY <1>2, <1>4, <1>5, <1>6, <1>7

\* An entry that finds its scope enabled is recorded once by each sink of the logger,
\* in their order, while the logger is being initialized and scopes come and go
\* (Logger::initialize, registerScope and Scope::addEntryUnchecked), provided that no
\* level is set before the logger has its sinks.
THEOREM EnabledIsRecorded ==
  ASSUME ~LevelsEarly
  PROVE  LgSpec => []EnabledMeansRecorded
<1>1. LgInit => LgInv
  <2> SUFFICES ASSUME LgInit PROVE LgInv
    OBVIOUS
  <2>1. <<>> \in SinkSeq /\ NotAlive \in ScopeRec /\ NotLogging \in EntryRec
    BY SinkSeqs, ScopeRecords, EntryRecords
  <2>2. LgTypes
    BY <2>1 DEF LgTypes, LgInit, LoggerRec, EntryLevels
  <2>3. Passed /\ registry = <<>>
    BY DEF Passed, LgInit, MutexFree
  <2>4. \A s \in LogScopes : Admits(s) /\ Reached(s) /\ Registered(s)
    BY <2>3 DEF LgInit, Admits, Reached, Registered, NotAlive
  <2>5. \A t \in LogThreads : Adding(t)
    BY DEF LgInit, Adding, NotLogging
  <2> QED
    BY <2>2, <2>3, <2>4, <2>5 DEF LgInv
<1>2. LgInv /\ [LgNext]_lgVars => LgInv'
  <2>1. LgInv /\ LgNext => LgInv'
    BY LoggerSteps, InitializeStep, RegistrySteps, ScopeSteps DEF LgNext
  <2>2. ASSUME LgInv, UNCHANGED lgVars PROVE LgInv'
    <3>1. UNCHANGED <<logger, registry, scope, initializing, logging>>
      BY <2>2 DEF lgVars
    <3>2. LgTypes' /\ Passed'
      BY <2>2, <3>1 DEF LgInv, LgTypes, Passed, HasSinks, MutexFree, Slot, Part
    <3>3. \A s \in LogScopes : Admits(s)' /\ Reached(s)' /\ Registered(s)'
      BY <2>2, <3>1 DEF LgInv, Admits, Reached, Registered, HasSinks, MutexFree
    <3>4. \A t \in LogThreads : Adding(t)'
      BY <2>2, <3>1 DEF LgInv, Adding, HasSinks
    <3> QED
      BY <3>2, <3>3, <3>4 DEF LgInv
  <2> QED
    BY <2>1, <2>2
<1>3. LgInv => EnabledMeansRecorded
  <2> SUFFICES ASSUME LgInv PROVE EnabledMeansRecorded
    OBVIOUS
  <2>1. \A t \in LogThreads :
          logging[t].at = "added" => logger.initialized /\ logging[t].recorded = logger.scopeSinks
    BY DEF LgInv, Adding, HasSinks
  <2>2. logger.initialized /\ MutexFree
          => \A s \in LogScopes : scope[s].alive => scope[s].sinks = logger.scopeSinks
    BY DEF LgInv, Reached, HasSinks
  <2>3. ASSUME NEW s \in LogScopes
        PROVE  Cardinality({i \in DOMAIN registry : registry[i] = s})
                 = (IF scope[s].alive THEN 1 ELSE 0)
    <3> DEFINE I == {i \in DOMAIN registry : registry[i] = s}
    <3>1. Registered(s)
      BY DEF LgInv
    <3>2. CASE scope[s].alive
      <4>1. PICK i \in DOMAIN registry : registry[i] = s
        BY <3>1, <3>2 DEF Registered
      <4>2. I = {i}
        BY <3>1, <4>1 DEF Registered
      <4> QED
        BY <3>2, <4>2, FS_Singleton
    <3>3. CASE ~scope[s].alive
      <4>1. I = {}
        BY <3>1, <3>3 DEF Registered
      <4> QED
        BY <3>3, <4>1, FS_EmptySet
    <3> QED
      BY <3>2, <3>3
  <2> QED
    BY <2>1, <2>2, <2>3 DEF EnabledMeansRecorded
<1> QED
  BY <1>1, <1>2, <1>3, PTL DEF LgSpec

-----------------------------------------------------------------------------
(* Expected                                                                  *)

ExRecord == [kind : Kinds, has : BOOLEAN, val : Int, err : Int, sound : BOOLEAN]

\* An object that is alive and sound, and what its flag and its members are.
Is(x, kind, has, val, err) ==
  /\ x \in ExRecord /\ x.sound = TRUE
  /\ x.kind = kind /\ x.has = has /\ x.val = val /\ x.err = err

\* What may be in an object of a kind: the member the flag names, and no other.
Fits(kind, has, val, err) ==
  /\ kind \in Kinds /\ has \in BOOLEAN /\ val \in Int /\ err \in Int
  /\ val # NoObject <=> has /\ kind \in ValueKinds \cup RefKinds
  /\ err # NoObject <=> ~has /\ kind \in ErrorKinds

\* An object holds what std::expected would.
Holds(x, held) ==
  \E kind \in Kinds, has \in BOOLEAN, val, err \in Int :
    /\ Is(x, kind, has, val, err) /\ Fits(kind, has, val, err)
    /\ held = IF has THEN Value(kind, val) ELSE Error(kind, err)

\* An object before its construction and after its end, if nothing went wrong in it.
Gone(x) == x.kind = "none" /\ x.sound = TRUE

ExInv ==
  /\ DOMAIN ex = Objects /\ DOMAIN exRef = Objects
  /\ \A o \in Objects : Gone(ex[o]) \/ Holds(ex[o], exRef[o])

\* What is put into an object is there.
LEMMA ExValuesAre == \A v \in ExValues : v \in Int /\ v # NoObject
<1>1. ExValues \subseteq Nat \ {0}
  BY ExAssumption
<1> QED
  BY <1>1 DEF NoObject

\* An object that was moved from is there, unlike no object.
LEMMA NoObjectIs == NoObject \in Int /\ Moved \in Int /\ Moved # NoObject
BY DEF NoObject, Moved

\* The kinds, and what is there in each.
LEMMA KindsAre ==
  /\ "T, E" \in Kinds /\ "T&, E" \in Kinds /\ "void, E" \in Kinds
  /\ "T, void" \in Kinds /\ "T&, void" \in Kinds /\ "void, void" \in Kinds
  /\ \A k \in Kinds : \/ k = "T, E" \/ k = "T&, E" \/ k = "void, E"
                      \/ k = "T, void" \/ k = "T&, void" \/ k = "void, void"
BY DEF Kinds

\* The same, kind by kind.
FitsKind(k, h, v, e) ==
  /\ h \in BOOLEAN /\ v \in Int /\ e \in Int
  /\ \/ k = "T, E" /\ (IF h THEN v # NoObject /\ e = NoObject
                            ELSE v = NoObject /\ e # NoObject)
     \/ k = "T&, E" /\ (h <=> v # NoObject) /\ (h <=> e = NoObject)
     \/ k = "void, E" /\ v = NoObject /\ (h <=> e = NoObject)
     \/ k \in {"T, void", "T&, void"} /\ e = NoObject /\ (h <=> v # NoObject)
     \/ k = "void, void" /\ e = NoObject /\ v = NoObject

\* Both say the same.
LEMMA FitsByKind ==
  ASSUME NEW k, NEW h, NEW v, NEW e, Fits(k, h, v, e)
  PROVE  FitsKind(k, h, v, e)
BY KindsAre DEF Fits, FitsKind, ValueKinds, RefKinds, ErrorKinds

\* What making, setting and deleting a member does to an object: a new value is made
\* where there is none,
LEMMA NewValue ==
  ASSUME NEW x, NEW k, NEW h, NEW e, NEW v \in Int, Is(x, k, h, NoObject, e)
  PROVE  Is(New(x, "val", v), k, h, v, e)
BY DEF Is, New, ExRecord

\* A new error is made where there is none,
LEMMA NewError ==
  ASSUME NEW x, NEW k, NEW h, NEW v, NEW e \in Int, Is(x, k, h, v, NoObject)
  PROVE  Is(New(x, "err", e), k, h, v, e)
BY DEF Is, New, ExRecord

\* a value is assigned to one that is there,
LEMMA SetValue ==
  ASSUME NEW x, NEW k, NEW h, NEW u, NEW e, NEW v \in Int, u # NoObject, Is(x, k, h, u, e)
  PROVE  Is(Set(x, "val", v), k, h, v, e)
BY DEF Is, Set, ExRecord

\* and so is an error;
LEMMA SetError ==
  ASSUME NEW x, NEW k, NEW h, NEW v, NEW u, NEW e \in Int, u # NoObject, Is(x, k, h, v, u)
  PROVE  Is(Set(x, "err", e), k, h, v, e)
BY DEF Is, Set, ExRecord

\* a value that is there can be destroyed,
LEMMA DeleteValue ==
  ASSUME NEW x, NEW k, NEW h, NEW v, NEW e, v # NoObject, Is(x, k, h, v, e)
  PROVE  Is(Delete(x, "val"), k, h, NoObject, e)
BY NoObjectIs DEF Is, Delete, ExRecord

\* and so can an error;
LEMMA DeleteError ==
  ASSUME NEW x, NEW k, NEW h, NEW v, NEW e, e # NoObject, Is(x, k, h, v, e)
  PROVE  Is(Delete(x, "err"), k, h, v, NoObject)
BY NoObjectIs DEF Is, Delete, ExRecord

\* the flag is set without the members,
LEMMA FlagSet ==
  ASSUME NEW x, NEW k, NEW h, NEW v, NEW e, NEW b \in BOOLEAN, Is(x, k, h, v, e)
  PROVE  Is(Flag(x, b), k, b, v, e)
BY DEF Is, Flag, ExRecord

\* and a pointer is its own flag.
LEMMA PointsTo ==
  ASSUME NEW x, NEW k, NEW h, NEW u, NEW e, NEW v \in Int, NEW b \in BOOLEAN, b <=> v # NoObject,
         Is(x, k, h, u, e)
  PROVE  Is(Point(x, v), k, b, v, e)
BY DEF Is, Point, ExRecord

\* The object a move constructor starts from.
LEMMA Blank ==
  ASSUME NEW k \in Kinds
  PROVE  Is([Dead EXCEPT !.kind = k], k, FALSE, NoObject, NoObject)
<1> HIDE DEF Kinds
<1> QED
  BY NoObjectIs DEF Is, Dead, ExRecord

\* The object a constructor makes from a value or an error.
LEMMA HoldIs ==
  ASSUME NEW k \in Kinds, NEW h \in BOOLEAN, NEW v \in Int, NEW e \in Int
  PROVE  Is(Hold(k, h, v, e), k, h, v, e)
BY DEF Is, Hold, ExRecord

\* The constructors from a value or an error.
LEMMA ConstructedHolds ==
  ASSUME NEW kind \in Kinds, NEW has \in BOOLEAN, NEW v \in ExValues
  PROVE  Holds(Constructed(kind, has, v), IF has THEN Value(kind, v) ELSE Error(kind, v))
<1>1. v \in Int /\ v # NoObject
  BY ExValuesAre
<1> DEFINE val == IF has /\ kind \in ValueKinds \cup RefKinds THEN v ELSE NoObject
           err == IF ~has /\ kind \in ErrorKinds THEN v ELSE NoObject
<1>2. Constructed(kind, has, v) = Hold(kind, has, val, err)
  <2> HIDE DEF Hold
  <2> QED
    BY KindsAre DEF Constructed, ConstructTE, ConstructRefE, ConstructVoidE, ConstructT,
         ConstructRef, ConstructVoid, ValueKinds, RefKinds, ErrorKinds
<1>3. val \in Int /\ err \in Int
  BY <1>1, NoObjectIs
<1>4. Fits(kind, has, val, err)
  BY <1>1, <1>3 DEF Fits
<1>6. (IF has THEN Value(kind, v) ELSE Error(kind, v))
        = (IF has THEN Value(kind, val) ELSE Error(kind, err))
  BY DEF Value, Error
<1> HIDE DEF val, err, Hold
<1> QED
  BY <1>2, <1>3, <1>4, <1>6, HoldIs DEF Holds

\* The move constructor makes an object like the one it moves from,
LEMMA MoveConstructedHolds ==
  ASSUME NEW y, NEW held, Holds(y, held)
  PROVE  Holds(MoveConstructed(y), held)
<1>1. PICK k \in Kinds, h \in BOOLEAN, v \in Int, e \in Int :
        /\ Is(y, k, h, v, e) /\ Fits(k, h, v, e)
        /\ held = IF h THEN Value(k, v) ELSE Error(k, e)
  BY DEF Holds
<1>2. y.kind = k /\ y.has = h /\ y.val = v /\ y.err = e
  BY <1>1 DEF Is
<1>3. Is(MoveConstructed(y), k, h, v, e)
  <2> DEFINE b == [Dead EXCEPT !.kind = k]
  <2>0. Is(b, k, FALSE, NoObject, NoObject)
    BY Blank
  <2>f. Is(Flag(b, h), k, h, NoObject, NoObject)
    BY <2>0, FlagSet
  <2> HIDE DEF b
  <2>g. FitsKind(k, h, v, e)
    BY <1>1, FitsByKind
  <2>1. CASE k = "T, E"
    <3>1. MoveConstructed(y) = IF h THEN New(Flag(b, h), "val", v) ELSE New(Flag(b, h), "err", e)
      BY <1>2, <2>1 DEF MoveConstructed, MoveConstructTE, b
    <3> QED
      BY <1>1, <2>1, <2>f, <2>g, <3>1, NewValue, NewError DEF FitsKind
  <2>2. CASE k = "T&, E"
    <3>1. MoveConstructed(y) = IF Point(b, v).has THEN Point(b, v) ELSE New(Point(b, v), "err", e)
      BY <1>2, <2>2 DEF MoveConstructed, MoveConstructRefE, b
    <3>2. Is(Point(b, v), k, h, v, NoObject)
      BY <1>1, <2>0, <2>2, <2>g, PointsTo DEF FitsKind
    <3>3. Point(b, v).has = h
      BY <3>2 DEF Is
    <3> QED
      BY <1>1, <2>2, <2>g, <3>1, <3>2, <3>3, NewError DEF FitsKind
  <2>3. CASE k = "void, E"
    <3>1. MoveConstructed(y) = IF h THEN Flag(b, h) ELSE New(Flag(b, h), "err", e)
      BY <1>2, <2>3 DEF MoveConstructed, MoveConstructVoidE, b
    <3> QED
      BY <1>1, <2>3, <2>f, <2>g, <3>1, NewError DEF FitsKind
  <2>4. CASE k = "T, void"
    <3>1. MoveConstructed(y) = IF h THEN New(Flag(b, h), "val", v) ELSE Flag(b, h)
      BY <1>2, <2>4 DEF MoveConstructed, TransferConstructT, b
    <3> QED
      BY <1>1, <2>4, <2>f, <2>g, <3>1, NewValue DEF FitsKind
  <2>5. CASE k \in {"T&, void", "void, void"}
    <3>1. MoveConstructed(y) = y
      BY <1>2, <2>5 DEF MoveConstructed
    <3> QED
      BY <1>1, <3>1
  <2> QED
    BY <2>1, <2>2, <2>3, <2>4, <2>5, KindsAre
<1> QED
  BY <1>1, <1>3 DEF Holds

\* and leaves behind one that still has its flag.
LEMMA MovedAwayHolds ==
  ASSUME NEW y, NEW held, Holds(y, held)
  PROVE  Holds(MovedAway(y), LeftBehind(y.kind, held))
<1>1. PICK k \in Kinds, h \in BOOLEAN, v \in Int, e \in Int :
        /\ Is(y, k, h, v, e) /\ Fits(k, h, v, e)
        /\ held = IF h THEN Value(k, v) ELSE Error(k, e)
  BY DEF Holds
<1> DEFINE v1 == IF k \in ValueKinds /\ h THEN Moved ELSE v
           e1 == IF k \in ErrorKinds /\ ~h THEN Moved ELSE e
<1>2. v1 \in Int /\ e1 \in Int
  BY NoObjectIs
<1>3. Fits(k, h, v1, e1)
  BY <1>1, <1>2, NoObjectIs DEF Fits
<1>4. MovedAway(y) = [y EXCEPT !.val = v1, !.err = e1]
  BY <1>1 DEF MovedAway, Is
<1>5. LeftBehind(y.kind, held) = IF h THEN Value(k, v1) ELSE Error(k, e1)
  <2>1. y.kind = k
    BY <1>1 DEF Is
  <2>2. CASE h
    <3>1. held = Value(k, v) /\ held[1] = "value"
      BY <1>1, <2>2 DEF Value
    <3> QED
      BY <2>1, <2>2, <3>1 DEF LeftBehind, Value
  <2>3. CASE ~h
    <3>1. held = Error(k, e) /\ held[1] = "error"
      BY <1>1, <2>3 DEF Error
    <3> QED
      BY <2>1, <2>3, <3>1 DEF LeftBehind, Error
  <2> QED
    BY <2>2, <2>3
<1> HIDE DEF v1, e1
<1>6. Is(MovedAway(y), k, h, v1, e1)
  BY <1>1, <1>2, <1>4 DEF Is, ExRecord
<1> QED
  BY <1>2, <1>3, <1>5, <1>6 DEF Holds

\* The assignments make an object like the one they are given.
LEMMA MoveAssignedHolds ==
  ASSUME NEW x, NEW was, Holds(x, was), NEW y, NEW held, Holds(y, held), x.kind = y.kind
  PROVE  Holds(MoveAssigned(x, y), held)
<1>1. PICK k \in Kinds, h \in BOOLEAN, v \in Int, e \in Int :
        /\ Is(y, k, h, v, e) /\ Fits(k, h, v, e)
        /\ held = IF h THEN Value(k, v) ELSE Error(k, e)
  BY DEF Holds
<1>2. PICK h0 \in BOOLEAN, v0 \in Int, e0 \in Int : Is(x, k, h0, v0, e0) /\ Fits(k, h0, v0, e0)
  <2>1. PICK k0 \in Kinds, h0 \in BOOLEAN, v0 \in Int, e0 \in Int :
          Is(x, k0, h0, v0, e0) /\ Fits(k0, h0, v0, e0)
    BY DEF Holds
  <2>2. k0 = k
    BY <1>1, <2>1 DEF Is
  <2> QED
    BY <2>1, <2>2
<1>3. /\ y.kind = k /\ y.has = h /\ y.val = v /\ y.err = e
      /\ x.kind = k /\ x.has = h0 /\ x.val = v0 /\ x.err = e0
  BY <1>1, <1>2 DEF Is
<1>4. Is(MoveAssigned(x, y), k, h, v, e)
  <2>1. FitsKind(k, h, v, e) /\ FitsKind(k, h0, v0, e0)
    BY <1>1, <1>2, FitsByKind
  <2>2. Is(Flag(x, TRUE), k, TRUE, v0, e0) /\ Is(Flag(x, FALSE), k, FALSE, v0, e0)
    BY <1>2, FlagSet
  <2>3. CASE k = "T, E"
    <3>1. MoveAssigned(x, y) =
            CASE h0 /\ h   -> Set(x, "val", v)
              [] h0 /\ ~h  -> New(Delete(Flag(x, FALSE), "val"), "err", e)
              [] ~h0 /\ h  -> New(Delete(Flag(x, TRUE), "err"), "val", v)
              [] ~h0 /\ ~h -> Set(x, "err", e)
      BY <1>3, <2>3 DEF MoveAssigned, AssignTE
    <3>2. CASE h0 /\ h
      BY <1>2, <2>1, <2>3, <3>1, <3>2, SetValue DEF FitsKind
    <3>3. CASE h0 /\ ~h
      <4>1. Is(Delete(Flag(x, FALSE), "val"), k, FALSE, NoObject, NoObject)
        BY <2>1, <2>2, <2>3, <3>3, DeleteValue DEF FitsKind
      <4> QED
        BY <2>1, <2>3, <3>1, <3>3, <4>1, NewError DEF FitsKind
    <3>4. CASE ~h0 /\ h
      <4>1. Is(Delete(Flag(x, TRUE), "err"), k, TRUE, NoObject, NoObject)
        BY <2>1, <2>2, <2>3, <3>4, DeleteError DEF FitsKind
      <4> QED
        BY <2>1, <2>3, <3>1, <3>4, <4>1, NewValue DEF FitsKind
    <3>5. CASE ~h0 /\ ~h
      BY <1>2, <2>1, <2>3, <3>1, <3>5, SetError DEF FitsKind
    <3> QED
      BY <3>2, <3>3, <3>4, <3>5
  <2>4. CASE k = "T&, E"
    <3>1. MoveAssigned(x, y) =
            CASE h0 /\ h   -> Point(x, v)
              [] h0 /\ ~h  -> New(Point(x, NoObject), "err", e)
              [] ~h0 /\ h  -> Delete(Point(x, v), "err")
              [] ~h0 /\ ~h -> Set(x, "err", e)
      BY <1>3, <2>4 DEF MoveAssigned, AssignRefE
    <3>2. Is(Point(x, v), k, h, v, e0) /\ Is(Point(x, NoObject), k, FALSE, NoObject, e0)
      BY <1>2, <2>1, <2>4, PointsTo, NoObjectIs DEF FitsKind
    <3>3. CASE h0 /\ h
      BY <2>1, <2>4, <3>1, <3>2, <3>3 DEF FitsKind
    <3>4. CASE h0 /\ ~h
      BY <2>1, <2>4, <3>1, <3>2, <3>4, NewError DEF FitsKind
    <3>5. CASE ~h0 /\ h
      BY <2>1, <2>4, <3>1, <3>2, <3>5, DeleteError DEF FitsKind
    <3>6. CASE ~h0 /\ ~h
      BY <1>2, <2>1, <2>4, <3>1, <3>6, SetError DEF FitsKind
    <3> QED
      BY <3>3, <3>4, <3>5, <3>6
  <2>5. CASE k = "void, E"
    <3>1. MoveAssigned(x, y) =
            CASE h0 /\ ~h  -> New(Flag(x, FALSE), "err", e)
              [] ~h0 /\ h  -> Delete(Flag(x, TRUE), "err")
              [] ~h0 /\ ~h -> Set(x, "err", e)
              [] OTHER -> x
      BY <1>3, <2>5 DEF MoveAssigned, AssignVoidE
    <3>2. CASE h0 /\ h
      BY <1>2, <2>1, <2>5, <3>1, <3>2 DEF FitsKind
    <3>3. CASE h0 /\ ~h
      BY <2>1, <2>2, <2>5, <3>1, <3>3, NewError DEF FitsKind
    <3>4. CASE ~h0 /\ h
      BY <2>1, <2>2, <2>5, <3>1, <3>4, DeleteError DEF FitsKind
    <3>5. CASE ~h0 /\ ~h
      BY <1>2, <2>1, <2>5, <3>1, <3>5, SetError DEF FitsKind
    <3> QED
      BY <3>2, <3>3, <3>4, <3>5
  <2>6. CASE k = "T, void"
    <3>1. MoveAssigned(x, y) =
            CASE h0 /\ h  -> Set(x, "val", v)
              [] h0 /\ ~h -> Delete(Flag(x, FALSE), "val")
              [] ~h0 /\ h -> New(Flag(x, TRUE), "val", v)
              [] OTHER -> x
      BY <1>3, <2>6 DEF MoveAssigned, AssignT, NewOrThrow
    <3>2. CASE h0 /\ h
      BY <1>2, <2>1, <2>6, <3>1, <3>2, SetValue DEF FitsKind
    <3>3. CASE h0 /\ ~h
      BY <2>1, <2>2, <2>6, <3>1, <3>3, DeleteValue DEF FitsKind
    <3>4. CASE ~h0 /\ h
      BY <2>1, <2>2, <2>6, <3>1, <3>4, NewValue DEF FitsKind
    <3>5. CASE ~h0 /\ ~h
      BY <1>2, <2>1, <2>6, <3>1, <3>5 DEF FitsKind
    <3> QED
      BY <3>2, <3>3, <3>4, <3>5
  <2>7. CASE k \in {"T&, void", "void, void"}
    <3>1. MoveAssigned(x, y) = [x EXCEPT !.has = h, !.val = v]
      BY <1>3, <2>7 DEF MoveAssigned
    <3>2. e0 = NoObject /\ e = NoObject
      BY <2>1, <2>7 DEF FitsKind
    <3> QED
      BY <1>2, <3>1, <3>2 DEF Is, ExRecord
  <2> QED
    BY <2>3, <2>4, <2>5, <2>6, <2>7, KindsAre
<1> QED
  BY <1>1, <1>4 DEF Holds

\* The destructor leaves nothing alive and destroys nothing that is not there.
LEMMA DestroyedIsEmpty ==
  ASSUME NEW x, NEW held, Holds(x, held)
  PROVE  \E k, h : Is(Destroyed(x), k, h, NoObject, NoObject)
<1>1. PICK k \in Kinds, h \in BOOLEAN, v \in Int, e \in Int : Is(x, k, h, v, e) /\ Fits(k, h, v, e)
  BY DEF Holds
<1>2. x.kind = k /\ x.has = h /\ FitsKind(k, h, v, e)
  BY <1>1, FitsByKind DEF Is
<1>3. CASE k = "T, E"
  <2>1. Destroyed(x) = IF h THEN Delete(x, "val") ELSE Delete(x, "err")
    BY <1>2, <1>3 DEF Destroyed, DestroyTE
  <2> QED
    BY <1>1, <1>2, <1>3, <2>1, DeleteValue, DeleteError DEF FitsKind
<1>4. CASE k = "T&, E"
  <2>1. Destroyed(x) = IF h THEN Point(x, NoObject) ELSE Delete(x, "err")
    BY <1>2, <1>4 DEF Destroyed, DestroyRefE
  <2>2. Is(Point(x, NoObject), k, FALSE, NoObject, e)
    BY <1>1, PointsTo, NoObjectIs
  <2> QED
    BY <1>1, <1>2, <1>4, <2>1, <2>2, DeleteError DEF FitsKind
<1>5. CASE k = "void, E"
  <2>1. Destroyed(x) = IF h THEN x ELSE Delete(x, "err")
    BY <1>2, <1>5 DEF Destroyed, DestroyVoidE
  <2> QED
    BY <1>1, <1>2, <1>5, <2>1, DeleteError DEF FitsKind
<1>6. CASE k = "T, void"
  <2>1. Destroyed(x) = IF h THEN Delete(x, "val") ELSE x
    BY <1>2, <1>6 DEF Destroyed, DestroyT
  <2> QED
    BY <1>1, <1>2, <1>6, <2>1, DeleteValue DEF FitsKind
<1>7. CASE k \in {"T&, void", "void, void"}
  <2>1. Destroyed(x) = [x EXCEPT !.val = NoObject] /\ e = NoObject
    BY <1>2, <1>7 DEF Destroyed, FitsKind
  <2> QED
    BY <1>1, <2>1, NoObjectIs DEF Is, ExRecord
<1> QED
  BY <1>3, <1>4, <1>5, <1>6, <1>7, KindsAre

\* An optional and a reference can be cleared,
LEMMA ClearedHolds ==
  ASSUME NEW x, NEW held, Holds(x, held), x.kind \notin ErrorKinds
  PROVE  Holds(ExCleared(x), Error(x.kind, NoObject))
<1>1. PICK k \in Kinds, h \in BOOLEAN, v \in Int, e \in Int : Is(x, k, h, v, e) /\ Fits(k, h, v, e)
  BY DEF Holds
<1>2. x.kind = k /\ x.has = h /\ FitsKind(k, h, v, e) /\ k \notin ErrorKinds
  BY <1>1, FitsByKind DEF Is
<1>3. Is(ExCleared(x), k, FALSE, NoObject, NoObject)
  <2>1. CASE k = "T, void"
    <3>1. ExCleared(x) = IF h THEN Flag(Delete(x, "val"), FALSE) ELSE x
      BY <1>2, <2>1 DEF ExCleared, ClearT
    <3>2. CASE h
      <4>1. Is(Delete(x, "val"), k, TRUE, NoObject, NoObject)
        BY <1>1, <1>2, <2>1, <3>2, DeleteValue DEF FitsKind
      <4> QED
        BY <3>1, <3>2, <4>1, FlagSet
    <3>3. CASE ~h
      BY <1>1, <1>2, <2>1, <3>1, <3>3 DEF FitsKind
    <3> QED
      BY <3>2, <3>3
  <2>2. CASE k = "T&, void"
    <3>1. ExCleared(x) = Point(x, NoObject)
      BY <1>2, <2>2 DEF ExCleared, ClearRef
    <3> QED
      BY <1>1, <1>2, <2>2, <3>1, PointsTo, NoObjectIs DEF FitsKind
  <2>3. CASE k = "void, void"
    <3>1. ExCleared(x) = Flag(x, FALSE)
      BY <1>2, <2>3 DEF ExCleared, ClearVoid
    <3> QED
      BY <1>1, <1>2, <2>3, <3>1, FlagSet DEF FitsKind
  <2> QED
    BY <1>2, <2>1, <2>2, <2>3, KindsAre DEF ErrorKinds
<1>4. Fits(k, FALSE, NoObject, NoObject)
  BY <1>2, NoObjectIs DEF Fits
<1> QED
  BY <1>2, <1>3, <1>4, NoObjectIs DEF Holds

\* and every object can be given a value; an optional whose value throws is left empty.
LEMMA EmplacedHolds ==
  ASSUME NEW x, NEW held, Holds(x, held), NEW v \in ExValues
  PROVE  /\ Holds(Emplaced(x, v, FALSE), Value(x.kind, v))
         /\ x.kind = "T, void" => Holds(Emplaced(x, v, TRUE), Error(x.kind, NoObject))
<1>0. v \in Int /\ v # NoObject
  BY ExValuesAre
<1>1. PICK k \in Kinds, h \in BOOLEAN, u \in Int, e \in Int : Is(x, k, h, u, e) /\ Fits(k, h, u, e)
  BY DEF Holds
<1>2. x.kind = k /\ x.has = h /\ FitsKind(k, h, u, e)
  BY <1>1, FitsByKind DEF Is
<1> DEFINE w == IF k \in ValueKinds \cup RefKinds THEN v ELSE NoObject
<1>3. w \in Int /\ Fits(k, TRUE, w, NoObject) /\ Value(k, v) = Value(k, w)
  BY <1>0, NoObjectIs DEF Fits, Value
<1>4. CASE k = "T, E"
  <2>1. Is(DestroyTE(x), k, h, NoObject, NoObject)
    BY <1>1, <1>2, <1>4, DeleteValue, DeleteError DEF FitsKind, DestroyTE
  <2>2. Is(New(DestroyTE(x), "val", v), k, h, v, NoObject)
    BY <1>0, <2>1, NewValue
  <2>3. Is(Flag(New(DestroyTE(x), "val", v), TRUE), k, TRUE, v, NoObject)
    BY <2>2, FlagSet
  <2>4. Emplaced(x, v, FALSE) = Flag(New(DestroyTE(x), "val", v), TRUE)
    BY <1>2, <1>4 DEF Emplaced, EmplaceTE, NewOrThrow
  <2>5. w = v
    BY <1>4 DEF ValueKinds
  <2> HIDE DEF w
  <2> QED
    BY <1>2, <1>3, <1>4, <2>3, <2>4, <2>5, NoObjectIs DEF Holds
<1>5. CASE k = "T&, E"
  <2>1. Is(IF h THEN x ELSE Delete(x, "err"), k, h, u, NoObject)
    BY <1>1, <1>2, <1>5, DeleteError DEF FitsKind
  <2>2. Is(Point(IF h THEN x ELSE Delete(x, "err"), v), k, TRUE, v, NoObject)
    BY <1>0, <2>1, PointsTo
  <2>4. Emplaced(x, v, FALSE) = Point(IF h THEN x ELSE Delete(x, "err"), v)
    BY <1>2, <1>5 DEF Emplaced, EmplaceRefE
  <2>5. w = v
    BY <1>5 DEF RefKinds
  <2> HIDE DEF w
  <2> QED
    BY <1>2, <1>3, <1>5, <2>2, <2>4, <2>5, NoObjectIs DEF Holds
<1>6. CASE k = "void, E"
  <2>1. Is(IF h THEN x ELSE Delete(x, "err"), k, h, u, NoObject) /\ u = NoObject
    BY <1>1, <1>2, <1>6, DeleteError DEF FitsKind
  <2>2. Is(Flag(IF h THEN x ELSE Delete(x, "err"), TRUE), k, TRUE, NoObject, NoObject)
    BY <2>1, FlagSet
  <2>4. Emplaced(x, v, FALSE) = Flag(IF h THEN x ELSE Delete(x, "err"), TRUE)
    BY <1>2, <1>6 DEF Emplaced, EmplaceVoidE
  <2>5. w = NoObject
    BY <1>6 DEF ValueKinds, RefKinds
  <2> HIDE DEF w
  <2> QED
    BY <1>2, <1>3, <1>6, <2>2, <2>4, <2>5, NoObjectIs DEF Holds
<1>7. CASE k = "T, void"
  <2>1. Is(ClearT(x), k, FALSE, NoObject, NoObject)
    <3>1. CASE h
      <4>1. Is(Delete(x, "val"), k, TRUE, NoObject, NoObject)
        BY <1>1, <1>2, <1>7, <3>1, DeleteValue DEF FitsKind
      <4>2. ClearT(x) = Flag(Delete(x, "val"), FALSE)
        BY <1>2, <3>1 DEF ClearT
      <4> QED
        BY <4>1, <4>2, FlagSet
    <3>2. CASE ~h
      BY <1>1, <1>2, <1>7, <3>2 DEF FitsKind, ClearT
    <3> QED
      BY <3>1, <3>2
  <2>2. Is(New(ClearT(x), "val", v), k, FALSE, v, NoObject)
    BY <1>0, <2>1, NewValue
  <2>3. Is(Flag(New(ClearT(x), "val", v), TRUE), k, TRUE, v, NoObject)
    BY <2>2, FlagSet
  <2>4. /\ Emplaced(x, v, FALSE) = Flag(New(ClearT(x), "val", v), TRUE)
        /\ Emplaced(x, v, TRUE) = ClearT(x)
    BY <1>2, <1>7 DEF Emplaced, EmplaceT, NewOrThrow
  <2>5. w = v
    BY <1>7 DEF ValueKinds
  <2>6. Fits(k, FALSE, NoObject, NoObject)
    BY <1>7, NoObjectIs DEF Fits, ErrorKinds
  <2> HIDE DEF w
  <2>7. Holds(Emplaced(x, v, FALSE), Value(x.kind, v))
    BY <1>2, <1>3, <1>7, <2>3, <2>4, <2>5, NoObjectIs DEF Holds
  <2>8. Holds(Emplaced(x, v, TRUE), Error(x.kind, NoObject))
    BY <1>2, <2>1, <2>4, <2>6, NoObjectIs DEF Holds
  <2> QED
    BY <2>7, <2>8
<1>8. CASE k = "T&, void"
  <2>1. Emplaced(x, v, FALSE) = Point(x, v) /\ e = NoObject
    BY <1>2, <1>8 DEF Emplaced, EmplaceRef, FitsKind
  <2>2. Is(Point(x, v), k, TRUE, v, NoObject)
    BY <1>0, <1>1, <2>1, PointsTo
  <2>5. w = v
    BY <1>8 DEF RefKinds
  <2> HIDE DEF w
  <2> QED
    BY <1>2, <1>3, <1>8, <2>1, <2>2, <2>5, NoObjectIs DEF Holds
<1>9. CASE k = "void, void"
  <2>1. Emplaced(x, v, FALSE) = Flag(x, TRUE) /\ e = NoObject /\ u = NoObject
    BY <1>2, <1>9 DEF Emplaced, EmplaceVoid, FitsKind
  <2>2. Is(Flag(x, TRUE), k, TRUE, NoObject, NoObject)
    BY <1>1, <2>1, FlagSet
  <2>5. w = NoObject
    BY <1>9 DEF RefKinds, ValueKinds
  <2> HIDE DEF w
  <2> QED
    BY <1>2, <1>3, <1>9, <2>1, <2>2, <2>5, NoObjectIs DEF Holds
<1> QED
  BY <1>4, <1>5, <1>6, <1>7, <1>8, <1>9, KindsAre

\* What is there holds something.
LEMMA ThereHolds ==
  ASSUME ExInv, NEW o \in Objects
  PROVE  /\ IsThere(o) => Holds(ex[o], exRef[o]) /\ ex[o].kind \in Kinds
         /\ ~IsThere(o) => Gone(ex[o])
<1>1. ASSUME Holds(ex[o], exRef[o]) PROVE ex[o].kind \in Kinds
  BY <1>1 DEF Holds, Is
<1>2. "none" \notin Kinds
  BY DEF Kinds
<1> QED
  BY <1>1, <1>2 DEF ExInv, IsThere, Gone

\* A step that gives one object what it should hold keeps the invariant,
LEMMA OneUpdated ==
  ASSUME ExInv, NEW o \in Objects, NEW x, NEW held, ExUpdate(o, x, held),
         Gone(x) \/ Holds(x, held)
  PROVE  ExInv'
BY DEF ExInv, ExUpdate

\* and so does one that moves from another object.
LEMMA TwoUpdated ==
  ASSUME ExInv, NEW o \in Objects, NEW p \in Objects, o # p, NEW x, NEW y, NEW held, NEW rest,
         ex' = [ex EXCEPT ![o] = x, ![p] = y],
         exRef' = [exRef EXCEPT ![o] = held, ![p] = rest],
         Holds(x, held), Holds(y, rest)
  PROVE  ExInv'
BY DEF ExInv

\* The steps of one object.
LEMMA OwnSteps ==
  ASSUME Throwing \subseteq {"emplace T, void"}, ExInv, NEW o \in Objects,
         ExConstruct(o) \/ ExEmplace(o) \/ ExClear(o) \/ ExDestruct(o)
  PROVE  ExInv'
<1>1. CASE ExConstruct(o)
  <2>1. PICK kind \in Kinds, has \in BOOLEAN, v \in ExValues :
          ExUpdate(o, Constructed(kind, has, v), IF has THEN Value(kind, v) ELSE Error(kind, v))
    BY <1>1 DEF ExConstruct
  <2> QED
    BY <2>1, ConstructedHolds, OneUpdated
<1>2. CASE ExEmplace(o)
  <2>1. IsThere(o) /\ Holds(ex[o], exRef[o])
    BY <1>2, ThereHolds DEF ExEmplace
  <2>2. PICK v \in ExValues,
             throws \in {FALSE, \/ "emplace T, E" \in Throwing /\ ex[o].kind = "T, E"
                                \/ "emplace T, void" \in Throwing /\ ex[o].kind = "T, void"} :
          ExUpdate(o, Emplaced(ex[o], v, throws),
                   IF throws THEN Error(ex[o].kind, NoObject) ELSE Value(ex[o].kind, v))
    BY <1>2 DEF ExEmplace
  <2>3. throws = FALSE \/ (throws = TRUE /\ ex[o].kind = "T, void")
    BY <2>2
  <2>4. CASE throws = FALSE
    <3>1. ExUpdate(o, Emplaced(ex[o], v, FALSE), Value(ex[o].kind, v))
      BY <2>2, <2>4
    <3> QED
      BY <2>1, <3>1, EmplacedHolds, OneUpdated
  <2>5. CASE throws = TRUE /\ ex[o].kind = "T, void"
    <3>1. ExUpdate(o, Emplaced(ex[o], v, TRUE), Error(ex[o].kind, NoObject))
      BY <2>2, <2>5
    <3> QED
      BY <2>1, <2>5, <3>1, EmplacedHolds, OneUpdated
  <2> QED
    BY <2>3, <2>4, <2>5
<1>3. CASE ExClear(o)
  <2>1. /\ Holds(ex[o], exRef[o]) /\ ex[o].kind \notin ErrorKinds
        /\ ExUpdate(o, ExCleared(ex[o]), Error(ex[o].kind, NoObject))
    BY <1>3, ThereHolds DEF ExClear
  <2> QED
    BY <2>1, ClearedHolds, OneUpdated
<1>4. CASE ExDestruct(o)
  <2>1. Holds(ex[o], exRef[o])
    BY <1>4, ThereHolds DEF ExDestruct
  <2>2. PICK x : /\ x = Destroyed(ex[o]) /\ x.sound = TRUE
                 /\ x.val = NoObject /\ x.err = NoObject
    BY <2>1, DestroyedIsEmpty DEF Is
  <2>3. ExUpdate(o, [Dead EXCEPT !.sound = x.sound /\ {x.val, x.err} = {NoObject}], <<>>)
    BY <1>4, <2>2 DEF ExDestruct
  <2>4. Gone([Dead EXCEPT !.sound = x.sound /\ {x.val, x.err} = {NoObject}])
    <3>1. (x.sound /\ {x.val, x.err} = {NoObject}) = TRUE
      BY <2>2
    <3>2. Gone([Dead EXCEPT !.sound = TRUE])
      BY DEF Gone, Dead
    <3> QED
      BY <3>1, <3>2
  <2> QED
    BY <2>3, <2>4, OneUpdated
<1> QED
  BY <1>1, <1>2, <1>3, <1>4

\* The steps that take what another object holds.
LEMMA SharedSteps ==
  ASSUME Throwing \subseteq {"emplace T, void"}, ExInv, NEW o \in Objects, NEW p \in Objects,
         \/ ExMoveConstruct(o, p) \/ ExMoveAssign(o, p)
         \/ ExCopyConstruct(o, p) \/ ExCopyAssign(o, p)
  PROVE  ExInv'
<1>1. CASE ExMoveConstruct(o, p)
  <2>1. o # p /\ Holds(ex[p], exRef[p])
    BY <1>1, ThereHolds DEF ExMoveConstruct
  <2>2. /\ ex' = [ex EXCEPT ![o] = MoveConstructed(ex[p]), ![p] = MovedAway(ex[p])]
        /\ exRef' = [exRef EXCEPT ![o] = exRef[p], ![p] = LeftBehind(ex[p].kind, exRef[p])]
    BY <1>1 DEF ExMoveConstruct
  <2> QED
    BY <2>1, <2>2, MoveConstructedHolds, MovedAwayHolds, TwoUpdated
<1>2. CASE ExMoveAssign(o, p)
  <2>1. /\ o # p /\ ex[o].kind = ex[p].kind
        /\ Holds(ex[p], exRef[p]) /\ Holds(ex[o], exRef[o])
    BY <1>2, ThereHolds DEF ExMoveAssign, OfOneKind, IsThere
  <2>2. /\ ex' = [ex EXCEPT ![o] = MoveAssigned(ex[o], ex[p]), ![p] = MovedAway(ex[p])]
        /\ exRef' = [exRef EXCEPT ![o] = exRef[p], ![p] = LeftBehind(ex[p].kind, exRef[p])]
    BY <1>2 DEF ExMoveAssign
  <2> QED
    BY <2>1, <2>2, MoveAssignedHolds, MovedAwayHolds, TwoUpdated
<1>3. CASE ExCopyConstruct(o, p)
  <2>1. Holds(ex[p], exRef[p]) /\ ExUpdate(o, MoveConstructed(ex[p]), exRef[p])
    BY <1>3, ThereHolds DEF ExCopyConstruct
  <2> QED
    BY <2>1, MoveConstructedHolds, OneUpdated
<1>4. CASE ExCopyAssign(o, p)
  <2>1. /\ ex[o].kind = ex[p].kind
        /\ Holds(ex[p], exRef[p]) /\ Holds(ex[o], exRef[o])
    BY <1>4, ThereHolds DEF ExCopyAssign, OfOneKind, IsThere
  <2>2. ExUpdate(o, MoveAssigned(ex[o], ex[p]), exRef[p])
    BY <1>4 DEF ExCopyAssign
  <2> QED
    BY <2>1, <2>2, MoveAssignedHolds, OneUpdated
<1> QED
  BY <1>1, <1>2, <1>3, <1>4

\* astl::expected holds either a value or an error, in each of its six specialisations and
\* after any sequence of calls (expected.hpp), provided that of the constructors a call runs
\* only that of an optional's emplace throws.
THEOREM HoldsEither ==
  ASSUME Throwing \subseteq {"emplace T, void"}
  PROVE  ExSpec => []HoldsOne
<1>1. ExInit => ExInv
  <2>1. Gone(Dead)
    BY DEF Gone, Dead
  <2> QED
    BY <2>1 DEF ExInit, ExInv
<1>2. ExInv /\ [ExNext]_exVars => ExInv'
  <2>1. ExInv /\ ExNext => ExInv'
    BY OwnSteps, SharedSteps DEF ExNext
  <2>2. ExInv /\ UNCHANGED exVars => ExInv'
    BY DEF ExInv, exVars
  <2> QED
    BY <2>1, <2>2
<1>3. ExInv => HoldsOne
  <2> SUFFICES ASSUME ExInv, NEW o \in Objects
               PROVE  /\ ex[o].sound
                      /\ ex[o].kind \in Kinds =>
                           /\ (ex[o].val # NoObject)
                                = (ex[o].has /\ ex[o].kind \in ValueKinds \cup RefKinds)
                           /\ (ex[o].err # NoObject) = (~ex[o].has /\ ex[o].kind \in ErrorKinds)
                           /\ Held(ex[o]) = exRef[o]
    BY DEF HoldsOne
  <2>1. CASE ~IsThere(o)
    BY <2>1, ThereHolds DEF Gone, Kinds
  <2>2. CASE IsThere(o)
    <3>1. PICK k \in Kinds, h \in BOOLEAN, v \in Int, e \in Int :
            /\ Is(ex[o], k, h, v, e) /\ Fits(k, h, v, e)
            /\ exRef[o] = IF h THEN Value(k, v) ELSE Error(k, e)
      BY <2>2, ThereHolds DEF Holds
    <3> QED
      BY <3>1 DEF Is, Fits, Held
  <2> QED
    BY <2>1, <2>2
<1> QED
  BY <1>1, <1>2, <1>3, PTL DEF ExSpec

-----------------------------------------------------------------------------
(* Generator                                                                 *)

GnSeq == Seq(Int)
BodySeq == Seq(Bodies)
FrameRec ==
  [state : {"none", "suspended", "done", "destroyed"}, body : BodySeq,
   yielded : Nat, yval : Int, threw : BOOLEAN]

\* All a consumer can get from a coroutine with this body.
AllOf(b) == b.yields \o (IF b.ends = "throw" THEN <<Threw>> ELSE <<>>) \o <<Finished>>

\* What the consumer was given is a beginning of that; all but the end while the body is
\* suspended, and the exception or the end once it is done.
Told(x, c) ==
  /\ x \in FrameRec /\ c \in GnSeq
  /\ x.state = "none" => c = <<>>
  /\ x.state # "none" =>
       \E b \in Bodies :
         /\ x.body = <<b>> /\ IsPrefix(c, AllOf(b))
         /\ x.state = "suspended" =>
              ~x.threw /\ Len(c) = x.yielded /\ x.yielded <= Len(b.yields)
         /\ x.state = "done" => Len(c) > Len(b.yields)

HasGenerator(f) == \E g \in Generators : gen[g] = f

GnInv ==
  /\ gen \in [Generators -> Frames \cup {NoFrame}]
  /\ DOMAIN frame = Frames /\ DOMAIN consumed = Frames
  /\ \A f \in Frames : Told(frame[f], consumed[f])
  /\ \A f \in Frames : HasGenerator(f) <=> frame[f].state \in {"suspended", "done"}
  /\ \A g, h \in Generators : gen[g] = gen[h] /\ gen[g] # NoFrame => g = h

\* The sequence of all there is to tell, by its positions.
LEMMA AllOfBody ==
  ASSUME NEW b \in Bodies
  PROVE  /\ AllOf(b) \in GnSeq /\ Len(b.yields) \in Nat
         /\ Len(AllOf(b)) = Len(b.yields) + (IF b.ends = "throw" THEN 2 ELSE 1)
         /\ \A i \in 1..Len(b.yields) : /\ b.yields[i] \in Nat \ {0}
                                        /\ AllOf(b)[i] = b.yields[i]
         /\ AllOf(b)[Len(b.yields) + 1] = IF b.ends = "throw" THEN Threw ELSE Finished
         /\ AllOf(b)[Len(AllOf(b))] = Finished
<1>1. b.yields \in Seq(Nat \ {0}) /\ b.ends \in {"return", "throw"}
  BY GnAssumption
<1>2. Threw \in Int /\ Finished \in Int
  BY DEF Threw, Finished
<1>3. PICK y \in Seq(Nat \ {0}) : y = b.yields
  BY <1>1
<1>4. y \in Seq(Int)
  BY <1>3
<1>5. CASE b.ends = "throw"
  <2>1. AllOf(b) = y \o <<Threw>> \o <<Finished>>
    BY <1>3, <1>5 DEF AllOf
  <2> QED
    BY <1>2, <1>3, <1>4, <1>5, <2>1 DEF GnSeq
<1>6. CASE b.ends # "throw"
  <2>1. AllOf(b) = y \o <<>> \o <<Finished>>
    BY <1>3, <1>6 DEF AllOf
  <2> QED
    BY <1>2, <1>3, <1>4, <1>6, <2>1 DEF GnSeq
<1> QED
  BY <1>5, <1>6

\* It is longer than the values.
LEMMA AllOfLength ==
  ASSUME NEW b \in Bodies
  PROVE  /\ Len(AllOf(b)) \in Nat /\ Len(b.yields) \in Nat
         /\ Len(b.yields) < Len(AllOf(b)) /\ Len(AllOf(b)) <= Len(b.yields) + 2
<1>1. Len(b.yields) \in Nat
  BY AllOfBody
<1>2. Len(AllOf(b)) = Len(b.yields) + 1 \/ Len(AllOf(b)) = Len(b.yields) + 2
  BY AllOfBody
<1> QED
  BY <1>1, <1>2

\* A beginning grows by what comes next.
LEMMA LongerPrefix ==
  ASSUME NEW c \in GnSeq, NEW t \in GnSeq, IsPrefix(c, t), Len(c) < Len(t),
         NEW v, v = t[Len(c) + 1]
  PROVE  Append(c, v) \in GnSeq /\ IsPrefix(Append(c, v), t) /\ Len(Append(c, v)) = Len(c) + 1
<1>1. c \in Seq(Int) /\ t \in Seq(Int) /\ Len(c) \in Nat /\ Len(t) \in Nat
  BY DEF GnSeq
<1>2. \A i \in 1..Len(c) : c[i] = t[i]
  <2>1. SubSeq(c, 1, Len(c)) = SubSeq(t, 1, Len(c))
    BY DEF IsPrefix
  <2>2. \A i \in 1..Len(c) : SubSeq(c, 1, Len(c))[i] = c[i] /\ SubSeq(t, 1, Len(c))[i] = t[i]
    BY <1>1
  <2> QED
    BY <2>1, <2>2
<1>3. v \in Int
  BY <1>1
<1>a. Append(c, v) \in Seq(Int)
  BY <1>1, <1>3
<1>4. PICK d \in Seq(Int) : d = Append(c, v)
  BY <1>a
<1>5. Len(d) = Len(c) + 1 /\ \A i \in 1..Len(d) : d[i] = t[i]
  BY <1>1, <1>2, <1>3, <1>4
<1>6. SubSeq(d, 1, Len(d)) = SubSeq(t, 1, Len(d))
  <2>1. SubSeq(d, 1, Len(d)) \in Seq(Int) /\ SubSeq(t, 1, Len(d)) \in Seq(Int)
        /\ Len(SubSeq(d, 1, Len(d))) = Len(d) /\ Len(SubSeq(t, 1, Len(d))) = Len(d)
    BY <1>1, <1>5
  <2>2. \A i \in 1..Len(d) : SubSeq(d, 1, Len(d))[i] = SubSeq(t, 1, Len(d))[i]
    BY <1>1, <1>5
  <2> QED
    BY <2>1, <2>2, SeqEqual
<1> QED
  BY <1>1, <1>4, <1>5, <1>6 DEF GnSeq, IsPrefix

\* The last of a beginning is where it ends in the whole.
LEMMA LastOfPrefix ==
  ASSUME NEW c \in GnSeq, NEW t \in GnSeq, IsPrefix(c, t), c # <<>>
  PROVE  Last(c) = t[Len(c)] /\ Len(c) <= Len(t) /\ Len(c) \in Nat /\ Len(t) \in Nat
<1>1. c \in Seq(Int) /\ t \in Seq(Int) /\ Len(c) \in Nat \ {0} /\ Len(t) \in Nat
  BY DEF GnSeq
<1>2. SubSeq(c, 1, Len(c)) = SubSeq(t, 1, Len(c))
  BY DEF IsPrefix
<1>3. SubSeq(c, 1, Len(c))[Len(c)] = c[Len(c)] /\ SubSeq(t, 1, Len(c))[Len(c)] = t[Len(c)]
  BY <1>1
<1> QED
  BY <1>1, <1>2, <1>3 DEF Last, IsPrefix

\* What the actions write are frames: a coroutine that yields a value,
LEMMA YieldedFrame ==
  ASSUME NEW x \in FrameRec, NEW m \in Nat, NEW v \in Int,
         NEW y, y = [x EXCEPT !.yielded = m, !.yval = v]
  PROVE  /\ y \in FrameRec /\ y.state = x.state /\ y.body = x.body
         /\ y.threw = x.threw /\ y.yielded = m /\ y.yval = v
BY DEF FrameRec

\* one that comes to its end,
LEMMA EndedFrame ==
  ASSUME NEW x \in FrameRec, NEW t \in BOOLEAN,
         NEW y, y = [x EXCEPT !.state = "done", !.threw = t]
  PROVE  /\ y \in FrameRec /\ y.state = "done" /\ y.body = x.body
         /\ y.threw = t /\ y.yielded = x.yielded /\ y.yval = x.yval
BY DEF FrameRec

\* one whose value is taken,
LEMMA TakenFrame ==
  ASSUME NEW x \in FrameRec, NEW v \in Int, NEW y, y = [x EXCEPT !.yval = v]
  PROVE  /\ y \in FrameRec /\ y.state = x.state /\ y.body = x.body
         /\ y.threw = x.threw /\ y.yielded = x.yielded /\ y.yval = v
BY DEF FrameRec

\* and one that is destroyed.
LEMMA DestroyedFrame ==
  ASSUME NEW x \in FrameRec, NEW y, y = [x EXCEPT !.state = "destroyed"]
  PROVE  y \in FrameRec /\ y.state = "destroyed" /\ y.body = x.body
BY DEF FrameRec

\* A coroutine that is resumed goes to its next yield or to its end.
LEMMA ResumedIs ==
  ASSUME NEW x \in FrameRec, NEW b \in Bodies, x.body = <<b>>, x.state = "suspended", ~x.threw,
         x.yielded <= Len(b.yields)
  PROVE  /\ Resumed(x) \in FrameRec /\ Resumed(x).body = <<b>>
         /\ Seen(Resumed(x)) = AllOf(b)[x.yielded + 1]
         /\ \/ /\ Resumed(x).state = "suspended" /\ ~Resumed(x).threw
               /\ Resumed(x).yielded = x.yielded + 1 /\ x.yielded < Len(b.yields)
            \/ Resumed(x).state = "done" /\ x.yielded = Len(b.yields)
<1>1. b.yields \in Seq(Nat \ {0}) /\ b.ends \in {"return", "throw"} /\ Len(b.yields) \in Nat
  BY GnAssumption
<1>2. x.yielded \in Nat /\ x.body[1] = b
  BY DEF FrameRec
<1> DEFINE z == [x EXCEPT !.yval = NoValue]
<1>3. /\ z \in FrameRec /\ z.body = x.body /\ z.yielded = x.yielded /\ z.state = "suspended"
      /\ z.threw = FALSE /\ z.yval = NoValue
  BY DEF FrameRec, NoValue
<1> HIDE DEF z
<1>4. CASE x.yielded < Len(b.yields)
  <2>1. Resumed(x) = [z EXCEPT !.yielded = z.yielded + 1, !.yval = b.yields[z.yielded + 1]]
    BY <1>2, <1>3, <1>4 DEF Resumed, RunBody, z
  <2>a. x.yielded + 1 \in 1..Len(b.yields)
    BY <1>1, <1>2, <1>4
  <2>d. /\ b.yields[x.yielded + 1] \in Nat \ {0}
        /\ b.yields[x.yielded + 1] = AllOf(b)[x.yielded + 1]
    BY <2>a, AllOfBody
  <2>2. PICK v \in Int : /\ v # NoValue /\ v = b.yields[x.yielded + 1]
                        /\ v = AllOf(b)[x.yielded + 1]
    BY <2>d DEF NoValue
  <2>b. PICK m \in Nat : m = z.yielded + 1
    BY <1>2, <1>3
  <2>3. Resumed(x) = [z EXCEPT !.yielded = m, !.yval = v]
    BY <1>3, <2>1, <2>2, <2>b
  <2>4. /\ Resumed(x) \in FrameRec /\ Resumed(x).body = z.body /\ Resumed(x).state = z.state
        /\ Resumed(x).yielded = m /\ Resumed(x).yval = v
        /\ Resumed(x).threw = z.threw
    <3>1. PICK y : y = Resumed(x)
      OBVIOUS
    <3>2. y = [z EXCEPT !.yielded = m, !.yval = v]
      BY <2>3, <3>1
    <3>3. /\ y \in FrameRec /\ y.state = z.state /\ y.body = z.body
          /\ y.threw = z.threw /\ y.yielded = m /\ y.yval = v
      BY <1>3, <3>2 DEF FrameRec
    <3> QED
      BY <3>1, <3>3
  <2>5. Seen(Resumed(x)) = v
    BY <1>3, <2>2, <2>4 DEF Seen
  <2> QED
    BY <1>2, <1>3, <1>4, <2>2, <2>b, <2>4, <2>5
<1>5. CASE x.yielded = Len(b.yields)
  <2>a. ~(z.yielded < Len(b.yields)) /\ z.body[1] = b
    BY <1>1, <1>2, <1>3, <1>5
  <2>b. Resumed(x) = [z EXCEPT !.state = "done", !.threw = (b.ends = "throw")]
    BY <2>a DEF Resumed, RunBody, z
  <2>c. PICK t \in BOOLEAN : t = (b.ends = "throw")
    OBVIOUS
  <2>1. Resumed(x) = [z EXCEPT !.state = "done", !.threw = t]
    BY <2>b, <2>c
  <2>4. /\ Resumed(x) \in FrameRec /\ Resumed(x).body = z.body /\ Resumed(x).state = "done"
        /\ Resumed(x).yval = NoValue /\ Resumed(x).threw = t
    BY <1>3, <2>1 DEF FrameRec
  <2>5. Seen(Resumed(x)) = AllOf(b)[x.yielded + 1]
    BY <1>1, <1>5, <2>c, <2>4, AllOfBody DEF Seen
  <2> QED
    BY <1>2, <1>3, <1>5, <2>4, <2>5
<1> QED
  BY <1>1, <1>2, <1>4, <1>5

\* A frame that was never used, and one that is: nothing was told yet.
LEMMA FreshFrames ==
  /\ NoCoroutine \in FrameRec /\ NoCoroutine.state = "none" /\ <<>> \in GnSeq
  /\ \A b \in Bodies : Told(Created(b), <<>>) /\ Created(b).state = "suspended"
<1>1. /\ NoCoroutine \in FrameRec /\ NoCoroutine.state = "none" /\ NoCoroutine.yielded = 0
      /\ NoCoroutine.threw = FALSE /\ <<>> \in GnSeq
  <2>1. <<>> \in BodySeq /\ <<>> \in GnSeq
    BY DEF BodySeq, GnSeq
  <2> QED
    BY <2>1 DEF NoCoroutine, FrameRec, NoValue
<1>2. ASSUME NEW b \in Bodies PROVE Told(Created(b), <<>>) /\ Created(b).state = "suspended"
  <2>a. <<b>> \in BodySeq
    BY DEF BodySeq
  <2>1. PICK q \in BodySeq : q = <<b>>
    BY <2>a
  <2>2. Created(b) = [NoCoroutine EXCEPT !.state = "suspended", !.body = q]
    BY <2>1 DEF Created
  <2> HIDE DEF NoCoroutine
  <2>3. /\ Created(b) \in FrameRec /\ Created(b).state = "suspended" /\ Created(b).body = q
        /\ Created(b).yielded = 0 /\ Created(b).threw = FALSE
    BY <1>1, <2>2 DEF FrameRec
  <2>4. IsPrefix(<<>>, AllOf(b))
    <3>1. AllOf(b) \in Seq(Int)
      BY AllOfBody DEF GnSeq
    <3> QED
      BY <3>1 DEF IsPrefix
  <2>5. Len(b.yields) \in Nat /\ Len(<<>>) = 0
    BY AllOfBody
  <2> QED
    BY <1>1, <2>1, <2>3, <2>4, <2>5 DEF Told
<1> QED
  BY <1>1, <1>2

\* A step that changes one frame and what was told from it, and leaves it to its owner.
LEMMA OneFrame ==
  ASSUME GnInv, NEW f \in Frames, NEW x, NEW c, Told(x, c),
         frame[f].state \in {"suspended", "done"}, x.state \in {"suspended", "done"},
         gen' = gen, DOMAIN frame' = Frames, DOMAIN consumed' = Frames,
         \A r \in Frames : frame'[r] = IF r = f THEN x ELSE frame[r],
         \A r \in Frames : consumed'[r] = IF r = f THEN c ELSE consumed[r]
  PROVE  GnInv'
<1>1. \A r \in Frames : Told(frame'[r], consumed'[r])
  BY DEF GnInv
<1>2. \A r \in Frames : HasGenerator(r)' <=> HasGenerator(r)
  BY DEF HasGenerator
<1>3. \A r \in Frames : HasGenerator(r)' <=> frame'[r].state \in {"suspended", "done"}
  BY <1>2 DEF GnInv
<1> QED
  BY <1>1, <1>3 DEF GnInv, Told

\* A generator that has a frame owns it.
LEMMA OwnsFrame ==
  ASSUME GnInv, NEW g \in Generators, gen[g] # NoFrame
  PROVE  /\ gen[g] \in Frames /\ frame[gen[g]].state \in {"suspended", "done"}
         /\ Told(frame[gen[g]], consumed[gen[g]])
BY DEF GnInv, HasGenerator

\* next() and the iterators.
LEMMA ResumeSteps ==
  ASSUME GnInv, NEW g \in Generators, GnNextValue(g) \/ GnIterate(g)
  PROVE  GnInv'
<1> DEFINE x == frame[gen[g]]
           c == consumed[gen[g]]
           y == Resumed(x)
<1>1. PICK f \in Frames : f = gen[g]
  BY OwnsFrame DEF GnNextValue, GnIterate
<1>2. x.state \in {"suspended", "done"} /\ Told(x, c) /\ gen[g] # NoFrame /\ gen' = gen
  BY OwnsFrame DEF GnNextValue, GnIterate
<1>3. PICK b \in Bodies :
        /\ x.body = <<b>> /\ IsPrefix(c, AllOf(b)) /\ x \in FrameRec /\ c \in GnSeq
        /\ x.state = "suspended" => ~x.threw /\ Len(c) = x.yielded /\ x.yielded <= Len(b.yields)
        /\ x.state = "done" => Len(c) > Len(b.yields)
  BY <1>2 DEF Told
<1>a. AllOf(b) \in GnSeq
  BY AllOfBody
<1>4. /\ Len(c) \in Nat /\ AllOf(b) \in GnSeq
      /\ Len(AllOf(b)) \in Nat /\ Len(b.yields) \in Nat
      /\ Len(b.yields) < Len(AllOf(b)) /\ Len(AllOf(b)) <= Len(b.yields) + 2
  BY <1>3, <1>a, AllOfLength DEF GnSeq
<1>5. DOMAIN frame = Frames /\ DOMAIN consumed = Frames
  BY DEF GnInv
<1>6. CASE x.state = "suspended"
  <2>1. /\ y \in FrameRec /\ y.body = <<b>> /\ Seen(y) = AllOf(b)[x.yielded + 1]
        /\ \/ /\ y.state = "suspended" /\ ~y.threw
              /\ y.yielded = x.yielded + 1 /\ x.yielded < Len(b.yields)
           \/ y.state = "done" /\ x.yielded = Len(b.yields)
    BY <1>3, <1>6, ResumedIs
  <2>2. PICK v : v = Seen(y)
    OBVIOUS
  <2> HIDE DEF y
  <2>3. /\ Append(c, v) \in GnSeq /\ IsPrefix(Append(c, v), AllOf(b))
        /\ Len(Append(c, v)) = Len(c) + 1
    <3>1. Len(c) < Len(AllOf(b))
      BY <1>3, <1>4, <1>6
    <3> QED
      BY <1>3, <1>4, <1>6, <2>1, <2>2, <3>1, LongerPrefix
  <2>4. ASSUME NEW z, z \in FrameRec, z.state = y.state, z.body = y.body,
               z.threw = y.threw, z.yielded = y.yielded
        PROVE  Told(z, Append(c, v)) /\ z.state \in {"suspended", "done"}
    BY <1>3, <1>4, <1>6, <2>1, <2>3, <2>4 DEF Told
  <2>5. consumed' = [consumed EXCEPT ![f] = Append(c, v)]
        /\ \E z : /\ frame' = [frame EXCEPT ![f] = z]
                  /\ \/ z = y
                     \/ z = [y EXCEPT !.yval = MovedOut]
    BY <1>1, <1>6, <2>2 DEF GnNextValue, GnIterate, Done, y
  <2>6. PICK z : /\ frame' = [frame EXCEPT ![f] = z]
                 /\ \/ z = y
                    \/ z = [y EXCEPT !.yval = MovedOut]
    BY <2>5
  <2>7. z \in FrameRec /\ z.state = y.state /\ z.body = y.body /\ z.threw = y.threw
        /\ z.yielded = y.yielded
    <3>1. MovedOut \in Int
      BY DEF MovedOut
    <3> QED
      BY <2>1, <2>6, <3>1, TakenFrame
  <2>8. Told(z, Append(c, v)) /\ z.state \in {"suspended", "done"}
    BY <2>4, <2>7
  <2> QED
    BY <1>1, <1>2, <1>5, <2>5, <2>6, <2>8, OneFrame
<1>7. CASE x.state = "done"
  <2>1. /\ frame' = frame
        /\ consumed' = [consumed EXCEPT ![f] =
                          IF Last(c) = Finished THEN c ELSE Append(c, Finished)]
    BY <1>1, <1>7 DEF GnNextValue, GnIterate, Done
  <2>2. Last(c) = AllOf(b)[Len(c)] /\ Len(c) <= Len(AllOf(b)) /\ Len(AllOf(b)) \in Nat
    <3>1. c # <<>>
      BY <1>3, <1>4, <1>7
    <3> QED
      BY <1>3, <1>4, <3>1, LastOfPrefix
  <2>3. ASSUME Last(c) # Finished
        PROVE  /\ Append(c, Finished) \in GnSeq /\ IsPrefix(Append(c, Finished), AllOf(b))
               /\ Len(Append(c, Finished)) = Len(c) + 1
    <3>1. Len(c) # Len(AllOf(b)) /\ AllOf(b)[Len(AllOf(b))] = Finished
      BY <2>2, <2>3, AllOfBody
    <3>2. Len(AllOf(b)) <= Len(b.yields) + 2
      BY <1>4
    <3>3. Len(c) + 1 = Len(AllOf(b))
      BY <1>3, <1>4, <1>7, <2>2, <3>1, <3>2
    <3>4. Len(c) < Len(AllOf(b)) /\ Finished = AllOf(b)[Len(c) + 1]
      BY <1>4, <2>2, <3>1, <3>3
    <3> QED
      BY <1>3, <1>4, <3>4, LongerPrefix
  <2> DEFINE d == IF Last(c) = Finished THEN c ELSE Append(c, Finished)
  <2>4. d \in GnSeq /\ IsPrefix(d, AllOf(b)) /\ Len(d) > Len(b.yields)
    BY <1>3, <1>4, <1>7, <2>3
  <2> HIDE DEF d
  <2>5. Told(x, d)
    BY <1>3, <1>7, <2>4 DEF Told
  <2>6. consumed' = [consumed EXCEPT ![f] = d]
    BY <2>1 DEF d
  <2> QED
    BY <1>1, <1>2, <1>5, <2>1, <2>5, <2>6, OneFrame
<1> QED
  BY <1>2, <1>6, <1>7

\* A new coroutine.
LEMMA CreateStep ==
  ASSUME GnInv, NEW g \in Generators, GnCreate(g)
  PROVE  GnInv'
<1>1. PICK f \in Frames, b \in Bodies :
        /\ gen[g] = NoFrame /\ frame[f].state = "none" /\ consumed' = consumed
        /\ gen' = [gen EXCEPT ![g] = f]
        /\ frame' = [frame EXCEPT ![f] = Created(b)]
  BY DEF GnCreate
<1>2. /\ gen \in [Generators -> Frames \cup {NoFrame}]
      /\ DOMAIN frame = Frames /\ DOMAIN consumed = Frames
  BY DEF GnInv
<1>3. \A r \in Frames : Told(frame'[r], consumed'[r])
  <2>1. consumed[f] = <<>>
    BY <1>1 DEF GnInv, Told
  <2> QED
    BY <1>1, <1>2, <2>1, FreshFrames DEF GnInv
<1>4. \A h \in Generators : gen[h] # f
  BY <1>1 DEF GnInv, HasGenerator
<1>5. \A r \in Frames : HasGenerator(r)' <=> r = f \/ HasGenerator(r)
  BY <1>1, <1>2, GnAssumption DEF HasGenerator
<1>6. \A r \in Frames : HasGenerator(r)' <=> frame'[r].state \in {"suspended", "done"}
  BY <1>1, <1>2, <1>5, FreshFrames DEF GnInv
<1>7. \A h, k \in Generators : gen'[h] = gen'[k] /\ gen'[h] # NoFrame => h = k
  BY <1>1, <1>2, <1>4 DEF GnInv
<1> QED
  BY <1>1, <1>2, <1>3, <1>6, <1>7 DEF GnInv

\* Moves, reset and the destructor.
LEMMA LeaveSteps ==
  ASSUME GnInv, NEW g \in Generators,
         GnReset(g) \/ \E h \in Generators : GnMove(g, h)
  PROVE  GnInv'
<1>1. /\ gen \in [Generators -> Frames \cup {NoFrame}]
      /\ DOMAIN frame = Frames /\ DOMAIN consumed = Frames
  BY DEF GnInv
<1>2. frame' = DestroyFrame(gen[g], frame) /\ consumed' = consumed
  BY DEF GnReset, GnMove
<1>3. /\ DOMAIN frame' = Frames
      /\ \A r \in Frames : /\ r # gen[g] => frame'[r] = frame[r]
                           /\ r = gen[g] => /\ Told(frame'[r], consumed[r])
                                            /\ frame'[r].state = "destroyed"
  <2>1. CASE gen[g] = NoFrame
    BY <1>1, <1>2, <2>1, GnAssumption DEF DestroyFrame
  <2>2. CASE gen[g] # NoFrame
    <3>1. PICK f \in Frames : f = gen[g]
      BY <2>2, OwnsFrame
    <3>2. frame[f].state \in {"suspended", "done"} /\ Told(frame[f], consumed[f])
      BY <2>2, <3>1, OwnsFrame
    <3> DEFINE x == [frame[f] EXCEPT !.state = "destroyed"]
    <3>3. frame' = [frame EXCEPT ![f] = x]
      BY <1>1, <1>2, <2>2, <3>1, <3>2 DEF DestroyFrame
    <3>4. x \in FrameRec /\ x.state = "destroyed" /\ x.body = frame[f].body
      BY <3>2, DestroyedFrame DEF Told
    <3> HIDE DEF x
    <3>5. Told(x, consumed[f])
      BY <3>2, <3>4 DEF Told
    <3> QED
      BY <1>1, <3>1, <3>3, <3>4, <3>5
  <2> QED
    BY <2>1, <2>2
<1>4. \A r \in Frames : Told(frame'[r], consumed'[r])
  BY <1>2, <1>3 DEF GnInv
<1>5. /\ gen' \in [Generators -> Frames \cup {NoFrame}]
      /\ \A r \in Frames : HasGenerator(r)' <=> HasGenerator(r) /\ r # gen[g]
      /\ \A h, k \in Generators : gen'[h] = gen'[k] /\ gen'[h] # NoFrame => h = k
  <2>1. CASE GnReset(g)
    <3>1. gen' = [gen EXCEPT ![g] = NoFrame]
      BY <2>1 DEF GnReset
    <3> QED
      BY <1>1, <3>1, GnAssumption DEF GnInv, HasGenerator
  <2>2. ASSUME NEW h \in Generators, GnMove(g, h)
        PROVE  /\ gen' \in [Generators -> Frames \cup {NoFrame}]
               /\ \A r \in Frames : HasGenerator(r)' <=> HasGenerator(r) /\ r # gen[g]
               /\ \A k, j \in Generators : gen'[j] = gen'[k] /\ gen'[j] # NoFrame => j = k
    <3>1. gen' = [gen EXCEPT ![g] = gen[h], ![h] = NoFrame] /\ g # h
      BY <2>2 DEF GnMove
    <3>2. /\ gen' \in [Generators -> Frames \cup {NoFrame}]
          /\ gen'[g] = gen[h] /\ gen'[h] = NoFrame
          /\ \A k \in Generators : k \notin {g, h} => gen'[k] = gen[k]
      BY <1>1, <3>1
    <3>3. \A k, j \in Generators : gen[j] = gen[k] /\ gen[j] # NoFrame => j = k
      BY DEF GnInv
    <3>4. \A k, j \in Generators : gen'[j] = gen'[k] /\ gen'[j] # NoFrame => j = k
      BY <3>2, <3>3
    <3>5. ASSUME NEW r \in Frames PROVE HasGenerator(r)' <=> HasGenerator(r) /\ r # gen[g]
      <4>1. r # NoFrame
        BY GnAssumption
      <4>2. ASSUME NEW k \in Generators, gen'[k] = r PROVE HasGenerator(r) /\ r # gen[g]
        <5>1. CASE k = g
          BY <3>1, <3>2, <3>3, <4>1, <4>2, <5>1 DEF HasGenerator
        <5>2. CASE k # g
          BY <3>2, <3>3, <4>1, <4>2, <5>2 DEF HasGenerator
        <5> QED
          BY <5>1, <5>2
      <4>3. ASSUME NEW k \in Generators, gen[k] = r, r # gen[g] PROVE HasGenerator(r)'
        BY <3>2, <4>3 DEF HasGenerator
      <4> QED
        BY <4>2, <4>3 DEF HasGenerator
    <3> QED
      BY <3>2, <3>4, <3>5
  <2> QED
    BY <2>1, <2>2
<1>6. \A r \in Frames : HasGenerator(r)' <=> frame'[r].state \in {"suspended", "done"}
  BY <1>3, <1>5 DEF GnInv
<1> QED
  BY <1>1, <1>2, <1>3, <1>4, <1>5, <1>6 DEF GnInv

\* However a generator is consumed and moved about, the consumer is told its values, its
\* exception and its end once each and in this order, and a frame lives while exactly one
\* generator owns it (astl::generator: next, begin, operator++, reset and the moves).
THEOREM GeneratorTellsAll == GnSpec => []GeneratesItsBody
<1>1. GnInit => GnInv
  <2> SUFFICES ASSUME GnInit PROVE GnInv
    OBVIOUS
  <2> HIDE DEF NoCoroutine
  <2>1. \A f \in Frames : frame[f] = NoCoroutine /\ consumed[f] = <<>>
    BY DEF GnInit
  <2>2. \A f \in Frames : Told(frame[f], consumed[f]) /\ frame[f].state = "none"
    BY <2>1, FreshFrames DEF Told
  <2>3. \A g \in Generators : gen[g] = NoFrame
    BY DEF GnInit
  <2>4. \A f \in Frames : ~HasGenerator(f)
    BY <2>3, GnAssumption DEF HasGenerator
  <2> QED
    BY <2>2, <2>3, <2>4 DEF GnInit, GnInv
<1>2. GnInv /\ [GnNext]_gnVars => GnInv'
  <2>1. GnInv /\ GnNext => GnInv'
    BY CreateStep, ResumeSteps, LeaveSteps DEF GnNext
  <2>2. GnInv /\ UNCHANGED gnVars => GnInv'
    BY DEF gnVars, GnInv, HasGenerator
  <2> QED
    BY <2>1, <2>2
<1>3. GnInv => GeneratesItsBody
  <2> SUFFICES ASSUME GnInv, NEW f \in Frames
               PROVE  /\ frame[f].state # "none" => IsPrefix(consumed[f], Promised(f))
                      /\ Cardinality({g \in Generators : gen[g] = f})
                           = (IF frame[f].state \in {"suspended", "done"} THEN 1 ELSE 0)
                      /\ frame[f].state # "corrupt"
    BY DEF GeneratesItsBody
  <2>1. Told(frame[f], consumed[f])
    BY DEF GnInv
  <2>2. frame[f].state # "corrupt"
    BY <2>1 DEF Told, FrameRec
  <2>3. ASSUME frame[f].state # "none" PROVE IsPrefix(consumed[f], Promised(f))
    <3>1. PICK b \in Bodies : frame[f].body = <<b>> /\ IsPrefix(consumed[f], AllOf(b))
      BY <2>1, <2>3 DEF Told
    <3>2. Body(f) = b
      BY <3>1 DEF Body
    <3> QED
      BY <3>1, <3>2 DEF Promised, AllOf
  <2>4. Cardinality({g \in Generators : gen[g] = f})
          = (IF frame[f].state \in {"suspended", "done"} THEN 1 ELSE 0)
    <3> DEFINE G == {g \in Generators : gen[g] = f}
    <3>1. CASE frame[f].state \in {"suspended", "done"}
      <4>1. PICK g \in Generators : gen[g] = f
        BY <3>1 DEF GnInv, HasGenerator
      <4>2. G = {g}
        BY <4>1, GnAssumption DEF GnInv
      <4> QED
        BY <3>1, <4>2, FS_Singleton
    <3>2. CASE frame[f].state \notin {"suspended", "done"}
      <4>1. G = {}
        BY <3>2 DEF GnInv, HasGenerator
      <4> QED
        BY <3>2, <4>1, FS_EmptySet
    <3> QED
      BY <3>1, <3>2
  <2> QED
    BY <2>2, <2>3, <2>4
<1> QED
  BY <1>1, <1>2, <1>3, PTL DEF GnSpec

-----------------------------------------------------------------------------
(* Coroutines                                                                *)

\* Frames in control are the stack of the coroutine that runs, or of one that waits:
\* each but the first is awaited by the next.  The others are suspended where only
\* their owner may resume or destroy them.
Control == {"active", "awaiting", "waiting"}
CoStates == {"none", "created", "yielded", "done", "destroyed"} \cup Control
CoPeople == CoFrames \cup {Nobody}
CoSlots == (CoFrames \X Nat) \cup {NoSlot}
CoKinds == {"none", "value", "safe", "next"}
CoWords == {Nothing, <<"value">>, <<"error">>} \cup {<<"yield", n>> : n \in Nat}
AwaitableRec == [number : Nat, of : CoPeople, kind : CoKinds, result : CoWords, gen : CoWords]
CoRec == [state : CoStates, owner : CoPeople, prev : CoPeople, result : CoSlots,
          generated : CoSlots, awaitable : AwaitableRec, said : CoWords, steps : Nat]
Resume(f) == <<"resume", f>>
CoJobs == {Resume(f) : f \in CoFrames} \cup {<<"notify">>}

CoTypes ==
  /\ co \in [CoFrames -> CoRec]
  /\ running \in CoPeople /\ waiter \in CoPeople /\ jobs \in Seq(CoJobs) /\ intact \in BOOLEAN

InControl(h) == co[h].state \in Control
Alive(h) == co[h].state \notin {"none", "destroyed"}

\* Who is owned is there and so is its owner; without an owner are the spawned, which
\* are in control from their first step to their last.
Owners(h) ==
  /\ co[h].owner # Nobody => Alive(h) /\ Alive(co[h].owner)
  /\ Alive(h) /\ co[h].owner = Nobody => co[h].state = "created" \/ InControl(h)
  /\ co[h].state = "created" => co[h].generated = NoSlot /\ co[h].prev = Nobody

\* A frame in control is the bottom of the stack, or the next above its awaiter, whose it
\* is or whose caller's.
Stack(h) ==
  InControl(h) =>
    IF co[h].owner = Nobody THEN co[h].prev = Nobody /\ co[h].generated = NoSlot
    ELSE LET p == co[h].prev
         IN /\ p \in CoFrames /\ co[p].state = "awaiting" /\ co[p].awaitable.of = h
            /\ running # p /\ co[h].owner \in {p, co[p].prev}

\* Who awaits has the awaited above it, or is about to go on as that has paused.
Waits(h) ==
  co[h].state = "awaiting" =>
    LET g == co[h].awaitable.of
    IN /\ g \in CoFrames
       /\ IF running = h THEN co[g].state \in {"yielded", "done"}
          ELSE InControl(g) /\ co[g].prev = h

\* No circle, and no endless chain, of owners, ...
Rooted == \A S \in SUBSET CoFrames : (\A h \in S : co[h].owner \in S) => S = {}
\* ... and none of awaiting frames.
Chained == \A S \in SUBSET CoFrames :
   (\A h \in S : co[h].state = "awaiting" /\ co[h].awaitable.of \in S) => S = {}

\* The strand runs the top of the stack.
Runs ==
  /\ running # Nobody => co[running].state \in {"active", "awaiting"}
  /\ \A h \in CoFrames : co[h].state = "active" => running = h

\* Frames that the wobj or a job has to resume, each of them once.
Due(h) == co[h].state = "waiting" \/ (co[h].state = "created" /\ co[h].owner = Nobody)
ResumedOnce(h) == Resumers(h) = (IF Due(h) THEN 1 ELSE 0)

\* What resuming needs, ...
CoInv ==
  /\ CoTypes /\ Rooted /\ Chained /\ Runs
  /\ \A h \in CoFrames : Owners(h) /\ Stack(h) /\ Waits(h) /\ ResumedOnce(h)

\* Where a frame in control writes its answers: the awaitable of its awaiter, and values
\* it yields only if next() was called.
Pointed(h) ==
  InControl(h) /\ co[h].prev # Nobody =>
    LET a == co[co[h].prev].awaitable
    IN /\ co[h].result = <<co[h].prev, a.number>>
       /\ co[h].generated = IF a.kind = "next" THEN co[h].result ELSE NoSlot
\* What the awaiter finds there: nothing until it is resumed, and then the answer.
Listens(h) ==
  co[h].state = "awaiting" =>
    LET a == co[h].awaitable
    IN IF running = h
       THEN Heard(a) = co[a.of].said /\ (Heard(a)[1] = "yield" => a.kind = "next")
       ELSE a.result = Nothing /\ a.gen = Nothing
\* ... and what hearing needs beyond it, when awaits are not mixed.
HearInv == intact /\ \A h \in CoFrames : Pointed(h) /\ Listens(h)

\* What the steps make of a frame is a frame again: one step more,
LEMMA RecSteps ==
  ASSUME NEW x \in CoRec, NEW n \in Nat, NEW y, y = [x EXCEPT !.steps = n]
  PROVE  y \in CoRec
BY DEF CoRec, CoStates, Control, AwaitableRec
\* a wait for the wobj,
LEMMA RecWaits ==
  ASSUME NEW x \in CoRec, NEW n \in Nat, NEW y, y = [x EXCEPT !.steps = n, !.state = "waiting"]
  PROVE  y \in CoRec
BY DEF CoRec, CoStates, Control, AwaitableRec
\* an awaitable,
LEMMA RecAwaits ==
  ASSUME NEW x \in CoRec, NEW n \in Nat, NEW a \in AwaitableRec, NEW y,
         y = [x EXCEPT !.steps = n, !.state = "awaiting", !.awaitable = a]
  PROVE  y \in CoRec
BY DEF CoRec, CoStates, Control, AwaitableRec
\* an awaiter,
LEMMA RecRuns ==
  ASSUME NEW x \in CoRec, NEW f \in CoPeople, NEW r \in CoSlots, NEW q \in CoSlots, NEW y,
         y = [x EXCEPT !.state = "active", !.prev = f, !.result = r, !.generated = q]
  PROVE  y \in CoRec
BY DEF CoRec, CoStates, Control, AwaitableRec
\* control,
LEMMA RecActive ==
  ASSUME NEW x \in CoRec, NEW y, y = [x EXCEPT !.state = "active"]
  PROVE  y \in CoRec
BY DEF CoRec, CoStates, Control, AwaitableRec
\* a value yielded,
LEMMA RecYields ==
  ASSUME NEW x \in CoRec, NEW n \in Nat, NEW w \in CoWords, NEW y,
         y = [x EXCEPT !.steps = n, !.state = "yielded", !.said = w]
  PROVE  y \in CoRec
BY DEF CoRec, CoStates, Control, AwaitableRec
\* an end,
LEMMA RecDone ==
  ASSUME NEW x \in CoRec, NEW w \in CoWords, NEW y, y = [x EXCEPT !.state = "done", !.said = w]
  PROVE  y \in CoRec
BY DEF CoRec, CoStates, Control, AwaitableRec
\* another owner,
LEMMA RecGiven ==
  ASSUME NEW x \in CoRec, NEW o \in CoPeople, NEW y, y = [x EXCEPT !.owner = o]
  PROVE  y \in CoRec
BY DEF CoRec, CoStates, Control, AwaitableRec
\* an answer.
LEMMA RecHears ==
  ASSUME NEW x \in CoRec, NEW a \in AwaitableRec, NEW y, y = [x EXCEPT !.awaitable = a]
  PROVE  y \in CoRec
BY DEF CoRec, CoStates, Control, AwaitableRec

\* What Await and the answers make of an awaitable is one.
LEMMA AwaitRecs ==
  /\ \A n \in Nat, g \in CoPeople, k \in CoKinds :
       [NoAwaitable EXCEPT !.number = n, !.of = g, !.kind = k] \in AwaitableRec
  /\ \A a \in AwaitableRec, w \in CoWords :
       [a EXCEPT !.gen = w] \in AwaitableRec /\ [a EXCEPT !.result = w] \in AwaitableRec
BY DEF AwaitableRec, NoAwaitable, CoWords, CoPeople, CoKinds

\* Frames that are new, called or destroyed are frames.
LEMMA NewRecs ==
  /\ NoFrameYet \in CoRec
  /\ \A o \in CoPeople : Called(o) \in CoRec
  /\ [NoFrameYet EXCEPT !.state = "destroyed"] \in CoRec
<1>1. NoAwaitable \in AwaitableRec
  BY DEF NoAwaitable, AwaitableRec, CoWords, CoPeople, CoKinds
<1>2. Nothing \in CoWords /\ NoSlot \in CoSlots /\ Nobody \in CoPeople
  BY DEF CoWords, CoSlots, CoPeople
<1>3. NoFrameYet \in CoRec
  <2> HIDE DEF NoAwaitable, AwaitableRec, CoWords, Nothing, CoSlots, NoSlot, CoPeople, Nobody
  <2> QED
    BY <1>1, <1>2 DEF NoFrameYet, CoRec, CoStates
<1>4. PICK x \in CoRec : x = NoFrameYet
  BY <1>3
<1>5. ASSUME NEW o \in CoPeople PROVE Called(o) \in CoRec
  <2>1. PICK y : y = [x EXCEPT !.state = "created", !.owner = o]
    OBVIOUS
  <2>2. y \in CoRec
    BY <2>1 DEF CoRec, CoStates
  <2> QED
    BY <1>4, <2>1, <2>2 DEF Called
<1>6. [NoFrameYet EXCEPT !.state = "destroyed"] \in CoRec
  <2>1. PICK y : y = [x EXCEPT !.state = "destroyed"]
    OBVIOUS
  <2>2. y \in CoRec
    BY <2>1 DEF CoRec, CoStates
  <2> QED
    BY <1>4, <2>1, <2>2
<1> QED
  BY <1>3, <1>5, <1>6

\* What frames keep.
Kept(x, y) ==
  /\ y.owner = x.owner /\ y.prev = x.prev /\ y.result = x.result /\ y.generated = x.generated
  /\ y.awaitable = x.awaitable /\ y.said = x.said
Alike(x, y) == y.state = x.state /\ Kept(x, y)

\* The fields of a frame.
LEMMA CoFields ==
  ASSUME CoTypes, NEW h \in CoFrames
  PROVE  /\ co[h] \in CoRec
         /\ co[h].state \in CoStates /\ co[h].owner \in CoPeople /\ co[h].prev \in CoPeople
         /\ co[h].result \in CoSlots /\ co[h].generated \in CoSlots /\ co[h].said \in CoWords
         /\ co[h].steps \in Nat /\ co[h].awaitable \in AwaitableRec
         /\ co[h].awaitable.number \in Nat /\ co[h].awaitable.of \in CoPeople
<1>1. co[h] \in CoRec
  BY DEF CoTypes
<1>2. co[h].awaitable \in AwaitableRec
  BY <1>1 DEF CoRec
<1> QED
  BY <1>1, <1>2 DEF CoRec, AwaitableRec

\* A frame that is left alone stays alike.
LEMMA UntouchedAlike == \A x : Alike(x, x)
BY DEF Alike, Kept

\* A step of a body counts, and changes nothing else.
LEMMA SteppedFrame ==
  ASSUME CoTypes, NEW f \in CoFrames
  PROVE  /\ Stepped(f) \in [CoFrames -> CoRec]
         /\ \A h \in CoFrames \ {f} : Stepped(f)[h] = co[h]
         /\ Alike(co[f], Stepped(f)[f])
<1>1. PICK x \in CoRec : x = co[f]
  BY CoFields
<1>2. PICK n \in Nat : n = x.steps + 1
  BY <1>1, CoFields
<1>3. PICK y : y = [x EXCEPT !.steps = n]
  OBVIOUS
<1>4. y \in CoRec
  BY <1>3, RecSteps
<1>5. Stepped(f) = [co EXCEPT ![f] = y]
  BY <1>1, <1>2, <1>3 DEF Stepped
<1>6. Alike(x, y)
  BY <1>3 DEF CoRec, Alike, Kept
<1> QED
  BY <1>1, <1>4, <1>5, <1>6 DEF CoTypes

\* Wait: the frame waits and the others stay as they were.
LEMMA WaitFrame ==
  ASSUME CoTypes, NEW f \in CoFrames, Wait(f)
  PROVE  /\ co' \in [CoFrames -> CoRec]
         /\ \A h \in CoFrames \ {f} : co'[h] = co[h]
         /\ Kept(co[f], co'[f]) /\ co'[f].state = "waiting"
<1>1. PICK x \in CoRec : x = co[f]
  BY CoFields
<1>2. PICK n \in Nat : n = x.steps + 1
  BY <1>1, CoFields
<1>3. PICK y : y = [x EXCEPT !.steps = n, !.state = "waiting"]
  OBVIOUS
<1>4. y \in CoRec
  BY <1>3, RecWaits
<1>5. co' = [co EXCEPT ![f] = y]
  BY <1>1, <1>2, <1>3 DEF Stepped, Wait, CoTypes
<1>6. Kept(x, y) /\ y.state = "waiting"
  BY <1>3 DEF CoRec, Kept
<1> QED
  BY <1>1, <1>4, <1>5, <1>6 DEF CoTypes

\* Await: one frame awaits, the other runs and knows whom to answer.
LEMMA AwaitFrames ==
  ASSUME CoTypes, NEW f \in CoFrames, NEW g \in CoFrames, NEW kind \in {"value", "safe", "next"},
         Await(f, g, kind), NEW number, number = co[f].awaitable.number + 1
  PROVE  /\ f # g
         /\ co' \in [CoFrames -> CoRec]
         /\ \A h \in CoFrames \ {f, g} : co'[h] = co[h]
         /\ co'[f].state = "awaiting" /\ co'[f].owner = co[f].owner /\ co'[f].prev = co[f].prev
         /\ co'[f].result = co[f].result /\ co'[f].generated = co[f].generated
         /\ co'[f].awaitable.number = number /\ co'[f].awaitable.of = g
         /\ co'[f].awaitable.kind = kind /\ co'[f].awaitable.result = Nothing
         /\ co'[f].awaitable.gen = Nothing
         /\ co'[g].state = "active" /\ co'[g].prev = f /\ co'[g].owner = co[g].owner
         /\ co'[g].result = <<f, number>>
         /\ co'[g].generated = IF kind = "next" THEN <<f, number>> ELSE co[g].generated
<1>1. PICK x \in CoRec : x = co[f]
  BY CoFields
<1>2. PICK n \in Nat : n = x.steps + 1
  BY <1>1, CoFields
<1>3. PICK a \in AwaitableRec : a = [NoAwaitable EXCEPT !.number = number, !.of = g, !.kind = kind]
  <2>1. number \in Nat /\ g \in CoPeople /\ kind \in CoKinds
    BY CoFields DEF CoPeople, CoKinds
  <2> QED
    BY <2>1, AwaitRecs
<1>4. PICK y : y = [x EXCEPT !.steps = n, !.state = "awaiting", !.awaitable = a]
  OBVIOUS
<1>5. PICK v \in CoRec : v = co[g]
  BY CoFields
<1>6. PICK r \in CoSlots : r = <<f, number>>
  <2>1. number \in Nat
    BY CoFields
  <2>2. <<f, number>> \in CoFrames \X Nat
    BY <2>1
  <2> QED
    BY <2>2 DEF CoSlots
<1>7. PICK q \in CoSlots : q = IF kind = "next" THEN r ELSE v.generated
  BY <1>5, CoFields
<1>8. PICK z : z = [v EXCEPT !.state = "active", !.prev = f, !.result = r, !.generated = q]
  OBVIOUS
<1>9. f # g
  BY DEF Await, Step, Awaitable
<1>10. co' = [co EXCEPT ![f] = y, ![g] = z]
  BY <1>1, <1>2, <1>3, <1>4, <1>5, <1>6, <1>7, <1>8, <1>9 DEF Stepped, Await, CoTypes
<1>11. y \in CoRec
  BY <1>4, RecAwaits
<1>12. z \in CoRec
  BY <1>8, RecRuns DEF CoPeople
<1>13. /\ y.state = "awaiting" /\ y.owner = x.owner /\ y.prev = x.prev /\ y.result = x.result
       /\ y.generated = x.generated /\ y.awaitable = a
  BY <1>4 DEF CoRec
<1>14. /\ z.state = "active" /\ z.prev = f /\ z.result = r /\ z.generated = q /\ z.owner = v.owner
  BY <1>8 DEF CoRec
<1>15. /\ a.number = number /\ a.of = g /\ a.kind = kind /\ a.result = Nothing /\ a.gen = Nothing
  BY <1>3 DEF NoAwaitable
<1>16. co'[f] = y /\ co'[g] = z /\ \A h \in CoFrames \ {f, g} : co'[h] = co[h]
  BY <1>9, <1>10 DEF CoTypes
<1>17. co' \in [CoFrames -> CoRec]
  BY <1>10, <1>11, <1>12 DEF CoTypes
<1> QED
  BY <1>1, <1>5, <1>6, <1>7, <1>9, <1>13, <1>14, <1>15, <1>16, <1>17

\* A frame that is resumed is active and otherwise as it was.
LEMMA ActiveFrame ==
  ASSUME CoTypes, NEW f \in CoFrames, NEW c, c = [co EXCEPT ![f].state = "active"]
  PROVE  /\ c \in [CoFrames -> CoRec]
         /\ \A h \in CoFrames \ {f} : c[h] = co[h]
         /\ Kept(co[f], c[f]) /\ c[f].state = "active"
<1>1. PICK x \in CoRec : x = co[f]
  BY CoFields
<1>2. PICK y : y = [x EXCEPT !.state = "active"]
  OBVIOUS
<1>3. y \in CoRec
  BY <1>2, RecActive
<1>4. c = [co EXCEPT ![f] = y]
  BY <1>1, <1>2 DEF CoTypes
<1>5. Kept(x, y) /\ y.state = "active"
  BY <1>2 DEF CoRec, Kept
<1> QED
  BY <1>1, <1>3, <1>4, <1>5 DEF CoTypes

\* What the steps that write an answer tell a frame that listens.
Hears(x, y, yielded, ended) ==
  /\ y.state = x.state /\ y.owner = x.owner /\ y.prev = x.prev /\ y.result = x.result
  /\ y.generated = x.generated /\ y.said = x.said
  /\ y.awaitable.number = x.awaitable.number /\ y.awaitable.of = x.awaitable.of
  /\ y.awaitable.kind = x.awaitable.kind
  /\ y.awaitable.gen = yielded /\ y.awaitable.result = ended

\* A frame that is told a value that was yielded.
LEMMA HeardGen ==
  ASSUME NEW x \in CoRec, NEW w \in CoWords, NEW y, y = [x EXCEPT !.awaitable.gen = w]
  PROVE  y \in CoRec /\ Hears(x, y, w, x.awaitable.result)
<1>1. PICK a \in AwaitableRec : a = x.awaitable
  BY DEF CoRec
<1>2. PICK b \in AwaitableRec : b = [a EXCEPT !.gen = w]
  BY AwaitRecs
<1>3. y = [x EXCEPT !.awaitable = b]
  BY <1>1, <1>2
<1>4. y \in CoRec
  BY <1>3, RecHears
<1>5. /\ y.state = x.state /\ y.owner = x.owner /\ y.prev = x.prev /\ y.result = x.result
      /\ y.generated = x.generated /\ y.said = x.said /\ y.awaitable = b
  BY <1>3 DEF CoRec
<1>6. b.number = a.number /\ b.of = a.of /\ b.kind = a.kind /\ b.gen = w /\ b.result = a.result
  BY <1>2 DEF AwaitableRec
<1> QED
  BY <1>1, <1>4, <1>5, <1>6 DEF Hears

\* A frame that is told how a coroutine ended.
LEMMA HeardResult ==
  ASSUME NEW x \in CoRec, NEW w \in CoWords, NEW y, y = [x EXCEPT !.awaitable.result = w]
  PROVE  y \in CoRec /\ Hears(x, y, x.awaitable.gen, w)
<1>1. PICK a \in AwaitableRec : a = x.awaitable
  BY DEF CoRec
<1>2. PICK b \in AwaitableRec : b = [a EXCEPT !.result = w]
  BY AwaitRecs
<1>3. y = [x EXCEPT !.awaitable = b]
  BY <1>1, <1>2
<1>4. y \in CoRec
  BY <1>3, RecHears
<1>5. /\ y.state = x.state /\ y.owner = x.owner /\ y.prev = x.prev /\ y.result = x.result
      /\ y.generated = x.generated /\ y.said = x.said /\ y.awaitable = b
  BY <1>3 DEF CoRec
<1>6. b.number = a.number /\ b.of = a.of /\ b.kind = a.kind /\ b.gen = a.gen /\ b.result = w
  BY <1>2 DEF AwaitableRec
<1> QED
  BY <1>1, <1>4, <1>5, <1>6 DEF Hears

\* YieldValue: one frame has yielded, and the one its answer points to is told.
LEMMA YieldFrames ==
  ASSUME CoTypes, NEW f \in CoFrames, YieldValue(f),
         NEW slot, slot = co[f].generated, NEW p, p = slot[1],
         NEW value, value = <<"yield", co[f].steps>>
  PROVE  /\ p \in CoFrames /\ value \in CoWords
         /\ Points(co, slot) => p # f
         /\ co' \in [CoFrames -> CoRec]
         /\ \A h \in CoFrames \ {f} : h # p \/ ~Points(co, slot) => co'[h] = co[h]
         /\ co'[f].state = "yielded" /\ co'[f].owner = co[f].owner /\ co'[f].prev = co[f].prev
         /\ co'[f].result = co[f].result /\ co'[f].generated = co[f].generated
         /\ co'[f].awaitable = co[f].awaitable /\ co'[f].said = value
         /\ Points(co, slot) => Hears(co[p], co'[p], value, co[p].awaitable.result)
<1>1. PICK x \in CoRec : x = co[f]
  BY CoFields
<1>2. PICK n \in Nat : n = x.steps + 1
  BY <1>1, CoFields
<1>3. PICK w \in CoWords : w = value
  BY CoFields DEF CoWords
<1>4. PICK y : y = [x EXCEPT !.steps = n, !.state = "yielded", !.said = w]
  OBVIOUS
<1>5. p \in CoFrames /\ (Points(co, slot) => p # f)
  BY CoFields DEF YieldValue, Points, Step, CoSlots
<1>6. PICK v \in CoRec : v = co[p]
  BY <1>5, CoFields
<1>7. PICK z : z = [v EXCEPT !.awaitable.gen = w]
  OBVIOUS
<1>8. y \in CoRec
  BY <1>4, RecYields
<1>9. z \in CoRec /\ Hears(v, z, w, v.awaitable.result)
  BY <1>7, HeardGen
<1>10. /\ y.state = "yielded" /\ y.owner = x.owner /\ y.prev = x.prev /\ y.result = x.result
       /\ y.generated = x.generated /\ y.awaitable = x.awaitable /\ y.said = w
  BY <1>4 DEF CoRec
<1>11. PICK told : told = [co EXCEPT ![f] = y]
  OBVIOUS
<1>12. told = [Stepped(f) EXCEPT ![f].state = "yielded", ![f].said = value]
  BY <1>1, <1>2, <1>3, <1>4, <1>11 DEF Stepped, CoTypes
<1>13. co' = IF Points(co, slot) THEN [told EXCEPT ![slot[1]].awaitable.gen = value] ELSE told
  BY <1>12 DEF YieldValue
<1>14. ASSUME Points(co, slot) PROVE co' = [told EXCEPT ![p] = z]
  BY <1>3, <1>5, <1>6, <1>7, <1>11, <1>13, <1>14 DEF CoTypes
<1>15. told \in [CoFrames -> CoRec] /\ told[f] = y /\ \A h \in CoFrames \ {f} : told[h] = co[h]
  BY <1>8, <1>11 DEF CoTypes
<1>16. CASE Points(co, slot)
  BY <1>1, <1>3, <1>5, <1>6, <1>9, <1>10, <1>14, <1>15, <1>16
<1>17. CASE ~Points(co, slot)
  BY <1>1, <1>3, <1>5, <1>10, <1>13, <1>15, <1>17
<1> QED
  BY <1>16, <1>17

\* A new coroutine takes a frame that was never used.
LEMMA NewFrameIsNew == MayCreate => NewFrame \in CoFrames /\ co[NewFrame].state = "none"
BY DEF MayCreate, NewFrame

\* A coroutine that was called belongs to its caller and answers nobody yet.
LEMMA CalledFields ==
  \A o : /\ Called(o).state = "created" /\ Called(o).owner = o /\ Called(o).prev = Nobody
         /\ Called(o).result = NoSlot /\ Called(o).generated = NoSlot
BY DEF Called, NoFrameYet

\* Call: one frame is new and the others stay alike.
LEMMA CallFrames ==
  ASSUME CoTypes, NEW f \in CoFrames, Call(f), NEW n, n = NewFrame
  PROVE  /\ n \in CoFrames /\ n # f /\ co[n].state = "none"
         /\ co' \in [CoFrames -> CoRec] /\ co'[n] = Called(f)
         /\ \A h \in CoFrames \ {n} : Alike(co[h], co'[h])
<1>1. n \in CoFrames /\ co[n].state = "none"
  BY NewFrameIsNew DEF Call
<1>2. n # f
  BY <1>1 DEF Call, Step
<1>3. co' = [Stepped(f) EXCEPT ![n] = Called(f)]
  BY DEF Call
<1>4. Called(f) \in CoRec
  BY NewRecs DEF CoPeople
<1> QED
  BY <1>1, <1>2, <1>3, <1>4, SteppedFrame, UntouchedAlike

\* CoSpawn: one frame is new, without an owner, and the others stay alike.
LEMMA SpawnFrames ==
  ASSUME CoTypes, CoSpawn, NEW n, n = NewFrame
  PROVE  /\ n \in CoFrames /\ co[n].state = "none"
         /\ co' \in [CoFrames -> CoRec] /\ co'[n] = Called(Nobody)
         /\ \A h \in CoFrames \ {n} : Alike(co[h], co'[h])
<1>1. n \in CoFrames /\ co[n].state = "none"
  BY NewFrameIsNew DEF CoSpawn
<1>2. co' = [co EXCEPT ![n] = Called(Nobody)]
  BY DEF CoSpawn
<1>3. Called(Nobody) \in CoRec
  BY NewRecs DEF CoPeople
<1> QED
  BY <1>1, <1>2, <1>3, UntouchedAlike DEF CoTypes

\* What a frame owns is owned with it, ...
LEMMA OwnedIsClosed ==
  ASSUME NEW g \in CoFrames
  PROVE  /\ Owned(co, g) \in SUBSET CoFrames /\ g \in Owned(co, g)
         /\ \A h \in CoFrames : co[h].owner \in Owned(co, g) => h \in Owned(co, g)
BY DEF Owned

\* ... and nothing else is: any set that has the frame and is closed has it all.
LEMMA OwnedIsLeast ==
  ASSUME NEW g \in CoFrames, NEW S \in SUBSET CoFrames, g \in S,
         \A h \in CoFrames : co[h].owner \in S => h \in S
  PROVE  Owned(co, g) \subseteq S
BY DEF Owned

Idle == {h \in CoFrames : MayGo(co, h) /\ co[h].owner # Nobody}

\* Nobody is no frame.
LEMMA NobodyIsNoFrame == \A f \in CoFrames : f # Nobody
BY CoAssumption DEF CoAssumption

\* What is owned by an idle frame or by the one that runs is idle.
LEMMA OwnedIdle ==
  ASSUME CoInv, NEW f \in CoFrames, running = f, co[f].state = "active"
  PROVE  /\ f \notin Idle /\ Idle \in SUBSET CoFrames
         /\ \A h \in CoFrames : co[h].owner = f \/ co[h].owner \in Idle => h \in Idle
<1>1. f \notin Idle /\ Idle \in SUBSET CoFrames
  BY DEF Idle, MayGo
<1>2. ASSUME NEW h \in CoFrames, co[h].owner = f \/ co[h].owner \in Idle
      PROVE  h \in Idle
  <2>1. co[h].owner \in CoFrames /\ co[h].owner # Nobody
    BY <1>2, NobodyIsNoFrame DEF Idle
  <2>2. ASSUME InControl(h) PROVE FALSE
    <3>1. PICK p \in CoFrames : /\ p = co[h].prev /\ co[p].state = "awaiting" /\ running # p
                                /\ co[h].owner \in {p, co[p].prev}
      BY <2>1, <2>2 DEF CoInv, Stack
    <3>2. co[h].owner = co[p].prev
      BY <1>2, <3>1 DEF Idle, MayGo
    <3>3. co[p].owner # Nobody
      BY <2>1, <3>1, <3>2 DEF CoInv, Stack, InControl, Control
    <3>4. co[co[p].prev].state = "awaiting"
      BY <3>1, <3>3 DEF CoInv, Stack, InControl, Control
    <3> QED
      BY <1>2, <3>2, <3>4 DEF Idle, MayGo
  <2>3. Alive(h) /\ co[h].state \in CoStates
    BY <2>1, CoFields DEF CoInv, Owners
  <2> QED
    BY <2>1, <2>2, <2>3 DEF Idle, MayGo, Alive, InControl, CoStates
<1> QED
  BY <1>1, <1>2

Buried == [NoFrameYet EXCEPT !.state = "destroyed"]
\* A destroyed frame has no owner and answers nobody.
LEMMA BuriedFields ==
  /\ Buried \in CoRec /\ Buried.state = "destroyed" /\ Buried.owner = Nobody /\ Buried.prev = Nobody
  /\ Buried.generated = NoSlot
<1>1. Buried \in CoRec
  BY NewRecs DEF Buried
<1> QED
  BY <1>1 DEF Buried, NoFrameYet

\* What an end takes along: idle frames, with whatever they own.
Taken(D) ==
  /\ D \in SUBSET Idle
  /\ \A h \in CoFrames : co[h].owner \in D => h \in D

\* Drop: what goes is idle, so that nothing is destroyed that would be resumed.
LEMMA DropFrames ==
  ASSUME CoInv, NEW f \in CoFrames, Drop(f)
  PROVE  \E D : /\ Taken(D) /\ f \notin D
                /\ co' \in [CoFrames -> CoRec]
                /\ \A h \in D : co'[h] = Buried
                /\ \A h \in CoFrames \ D : Alike(co[h], co'[h])
                /\ intact' = intact
<1>1. PICK g \in CoFrames : /\ co[g].owner = f
                            /\ co' = DestroyedAll(Stepped(f), Owned(co, g))
                            /\ intact' = (intact /\ \A h \in Owned(co, g) : MayGo(co, h))
  BY DEF Drop
<1>2. running = f /\ co[f].state = "active" /\ CoTypes
  BY DEF Drop, Step, CoInv
<1>3. PICK D : D = Owned(co, g)
  OBVIOUS
<1>4. D \subseteq Idle
  BY <1>1, <1>2, <1>3, OwnedIdle, OwnedIsLeast
<1>5. Taken(D)
  BY <1>3, <1>4, OwnedIsClosed DEF Taken
<1>6. f \notin D
  BY <1>2, <1>4, OwnedIdle
<1>7. co' = [h \in CoFrames |-> IF h \in D THEN Buried ELSE Stepped(f)[h]]
  BY <1>1, <1>3 DEF DestroyedAll, Buried
<1>8. co' \in [CoFrames -> CoRec]
  BY <1>2, <1>7, SteppedFrame, BuriedFields
<1>9. \A h \in CoFrames \ D : Alike(co[h], co'[h])
  BY <1>2, <1>7, SteppedFrame, UntouchedAlike
<1>10. \A h \in D : co'[h] = Buried
  BY <1>4, <1>7 DEF Idle
<1>11. intact' = intact
  BY <1>1, <1>2, <1>3, <1>4 DEF Idle, CoTypes
<1> QED
  BY <1>5, <1>6, <1>8, <1>9, <1>10, <1>11

\* RootEnds: the frame goes with all it owns, which is idle.
LEMMA RootEndsFrames ==
  ASSUME CoInv, NEW f \in CoFrames, RootEnds(f)
  PROVE  \E D : /\ D \in SUBSET CoFrames /\ f \in D /\ D \subseteq Idle \cup {f}
                /\ \A h \in CoFrames : co[h].owner \in D => h \in D
                /\ co' \in [CoFrames -> CoRec]
                /\ \A h \in D : co'[h] = Buried
                /\ \A h \in CoFrames \ D : co'[h] = co[h]
                /\ intact' = intact
<1>1. running = f /\ co[f].state = "active" /\ CoTypes
  BY DEF RootEnds, CoInv
<1>2. PICK D : D = Owned(co, f)
  OBVIOUS
<1>3. D \subseteq Idle \cup {f}
  <2> DEFINE S == Idle \cup {f}
  <2>1. S \in SUBSET CoFrames /\ f \in S
    BY <1>1, OwnedIdle
  <2>2. \A h \in CoFrames : co[h].owner \in S => h \in S
    BY <1>1, OwnedIdle
  <2> QED
    BY <1>2, <2>1, <2>2, OwnedIsLeast
<1>4. D \in SUBSET CoFrames /\ f \in D /\ \A h \in CoFrames : co[h].owner \in D => h \in D
  BY <1>2, OwnedIsClosed
<1>5. co' = [h \in CoFrames |-> IF h \in D THEN Buried ELSE co[h]]
  <2>1. (Owned(co, f) \ {f}) \cup {f} = D
    BY <1>2, <1>4
  <2> QED
    BY <2>1 DEF RootEnds, DestroyedAll, Buried
<1>6. intact' = intact
  BY <1>1, <1>2, <1>3 DEF RootEnds, Idle, CoTypes
<1>7. co' \in [CoFrames -> CoRec]
  BY <1>1, <1>5, BuriedFields DEF CoTypes
<1> QED
  BY <1>3, <1>4, <1>5, <1>6, <1>7

\* The end of an awaited coroutine: what it does not return goes and is idle, what it
\* returns changes owner, and the awaitable its answer points to is told.
LEMMA FinishFrames ==
  ASSUME CoInv, NEW f \in CoFrames, NEW what \in CoWords, NEW kept \in SUBSET CoFrames,
         Finish(f, what, kept),
         NEW slot, slot = co[f].result, NEW p, p = slot[1]
  PROVE  \E D : /\ Taken(D) /\ f \notin D /\ kept \cap D = {} /\ kept \subseteq Idle
                /\ f \notin kept
                /\ Points(co, slot) => p \in CoFrames /\ p # f /\ p \notin D /\ p \notin kept
                /\ co' \in [CoFrames -> CoRec]
                /\ \A h \in D : co'[h] = Buried
                /\ \A h \in kept : /\ co'[h].owner = co[f].prev /\ co'[h].state = co[h].state
                                   /\ co'[h].prev = co[h].prev /\ co'[h].result = co[h].result
                                   /\ co'[h].generated = co[h].generated /\ co'[h].said = co[h].said
                                   /\ co'[h].awaitable = co[h].awaitable
                /\ \A h \in CoFrames \ {f} :
                     h \notin D /\ h \notin kept /\ (h # p \/ ~Points(co, slot)) => co'[h] = co[h]
                /\ Points(co, slot) => Hears(co[p], co'[p], co[p].awaitable.gen, what)
                /\ co'[f].state = "done" /\ co'[f].owner = co[f].owner /\ co'[f].prev = co[f].prev
                /\ co'[f].result = co[f].result /\ co'[f].generated = co[f].generated
                /\ co'[f].said = what
                /\ intact' = (intact /\ Points(co, slot))
<1> DEFINE mine == {g \in CoFrames : co[g].owner = f}
           D == UNION {Owned(co, g) : g \in mine \ kept}
<1>1. running = f /\ co[f].state = "active" /\ CoTypes /\ kept \subseteq mine
  BY DEF Finish, CoInv
<1>2. D \in SUBSET Idle /\ kept \cap D = {}
  <2>1. ASSUME NEW g \in mine \ kept PROVE Owned(co, g) \subseteq Idle \ kept
    <3> DEFINE S == Idle \ kept
    <3>1. S \in SUBSET CoFrames /\ g \in S
      BY <1>1, OwnedIdle
    <3>2. \A h \in CoFrames : co[h].owner \in S => h \in S
      BY <1>1, OwnedIdle
    <3> QED
      BY <3>1, <3>2, OwnedIsLeast
  <2> QED
    BY <2>1
<1>3. \A h \in CoFrames : co[h].owner \in D => h \in D
  <2>1. ASSUME NEW h \in CoFrames, co[h].owner \in D PROVE h \in D
    <3>1. PICK g \in mine \ kept : co[h].owner \in Owned(co, g)
      BY <2>1
    <3>2. h \in Owned(co, g)
      BY <3>1, OwnedIsClosed
    <3> QED
      BY <3>2
  <2> QED
    BY <2>1
<1>4. kept \subseteq Idle /\ f \notin D /\ f \notin kept
  BY <1>1, <1>2, OwnedIdle
<1>5. Taken(D)
  BY <1>2, <1>3 DEF Taken
<1>6. ASSUME Points(co, slot)
      PROVE  p \in CoFrames /\ p # f /\ p \notin D /\ p \notin kept
  <2>1. p \in CoFrames
    BY <1>1, <1>6, CoFields DEF Points, CoSlots
  <2>2. co[p].state = "awaiting"
    BY <1>6 DEF Points
  <2> QED
    BY <1>1, <1>2, <1>4, <2>1, <2>2 DEF Idle, MayGo
<1>7. PICK x \in CoRec : x = co[f]
  BY <1>1, CoFields
<1>8. PICK y : y = [x EXCEPT !.state = "done", !.said = what]
  OBVIOUS
<1>9. y \in CoRec
  BY <1>8, RecDone
<1>10. /\ y.state = "done" /\ y.owner = x.owner /\ y.prev = x.prev /\ y.result = x.result
       /\ y.generated = x.generated /\ y.said = what
  BY <1>8 DEF CoRec
<1>11. PICK told : told = [h \in CoFrames |-> IF h = f THEN y
                                            ELSE IF h \in D THEN Buried ELSE co[h]]
  OBVIOUS
<1>12. told = [DestroyedAll(co, D) EXCEPT ![f].state = "done", ![f].said = what]
  <2>1. PICK e : e = DestroyedAll(co, D)
    OBVIOUS
  <2>2. e = [h \in CoFrames |-> IF h \in D THEN Buried ELSE co[h]]
    BY <2>1 DEF DestroyedAll, Buried
  <2>3. e[f] = x
    BY <1>4, <1>7, <2>2
  <2>4. [e EXCEPT ![f].state = "done", ![f].said = what] = [e EXCEPT ![f] = y]
    BY <1>8, <2>2, <2>3
  <2> QED
    BY <1>11, <2>1, <2>2, <2>4
<1>13. PICK given : given = [g \in CoFrames |-> IF g \in kept
                                               THEN [told[g] EXCEPT !.owner = co[f].prev]
                                               ELSE told[g]]
  OBVIOUS
<1>14. /\ co' = IF Points(co, slot) THEN [given EXCEPT ![p].awaitable.result = what] ELSE given
       /\ intact' = (intact /\ Points(co, slot) /\ \A g \in D : MayGo(co, g))
  <2> DEFINE toldHere == [DestroyedAll(co, D) EXCEPT ![f].state = "done", ![f].said = what]
             givenHere == [g \in CoFrames |-> IF g \in kept
                                               THEN [toldHere[g] EXCEPT !.owner = co[f].prev]
                                               ELSE toldHere[g]]
  <2>1. /\ co' = IF Points(co, co[f].result)
               THEN [givenHere EXCEPT ![co[f].result[1]].awaitable.result = what] ELSE givenHere
        /\ intact' = (intact /\ Points(co, co[f].result) /\ \A g \in D : MayGo(co, g))
    BY DEF Finish
  <2>2. toldHere = told
    BY <1>12
  <2> HIDE DEF toldHere
  <2>3. givenHere = given
    BY <1>13, <2>2
  <2> HIDE DEF givenHere, D
  <2> QED
    BY <2>1, <2>3
<1>15. intact' = (intact /\ Points(co, slot))
  BY <1>1, <1>2, <1>14 DEF Idle, CoTypes
<1>16. told \in [CoFrames -> CoRec]
  BY <1>1, <1>9, <1>11, BuriedFields DEF CoTypes
<1>17. \A g \in kept : told[g] = co[g]
  BY <1>1, <1>2, <1>4, <1>11
<1>18. ASSUME NEW g \in kept
       PROVE  /\ given[g] \in CoRec
              /\ given[g].owner = co[f].prev /\ given[g].state = co[g].state
              /\ given[g].prev = co[g].prev /\ given[g].result = co[g].result
              /\ given[g].generated = co[g].generated /\ given[g].said = co[g].said
              /\ given[g].awaitable = co[g].awaitable
  <2>1. PICK v \in CoRec : v = co[g]
    BY <1>1, CoFields
  <2>2. PICK o \in CoPeople : o = co[f].prev
    BY <1>1, CoFields
  <2>3. PICK z : z = [v EXCEPT !.owner = o]
    OBVIOUS
  <2>4. given[g] = z
    BY <1>13, <1>17, <2>1, <2>2, <2>3
  <2>5. z \in CoRec
    BY <2>3, RecGiven
  <2>6. /\ z.owner = o /\ z.state = v.state /\ z.prev = v.prev /\ z.result = v.result
        /\ z.generated = v.generated /\ z.said = v.said /\ z.awaitable = v.awaitable
    BY <2>3 DEF CoRec
  <2> QED
    BY <2>1, <2>2, <2>4, <2>5, <2>6
<1>19. \A g \in CoFrames \ kept : given[g] = told[g]
  BY <1>13
<1>20. given \in [CoFrames -> CoRec]
  <2>1. given = [g \in CoFrames |-> given[g]]
    BY <1>13
  <2>2. \A g \in CoFrames : given[g] \in CoRec
    BY <1>16, <1>18, <1>19
  <2> QED
    BY <2>1, <2>2
<1>21. ASSUME Points(co, slot)
       PROVE  \E z \in CoRec : /\ co' = [given EXCEPT ![p] = z]
                               /\ Hears(co[p], z, co[p].awaitable.gen, what)
  <2>1. PICK v \in CoRec : v = co[p]
    BY <1>1, <1>6, <1>21, CoFields
  <2>2. given[p] = v
    BY <1>6, <1>11, <1>19, <1>21, <2>1
  <2>3. PICK z : z = [v EXCEPT !.awaitable.result = what]
    OBVIOUS
  <2>4. z \in CoRec /\ Hears(v, z, v.awaitable.gen, what)
    BY <2>3, HeardResult
  <2>5. co' = [given EXCEPT ![p] = z]
    BY <1>6, <1>14, <1>20, <1>21, <2>2, <2>3
  <2> QED
    BY <2>1, <2>4, <2>5
<1>22. /\ co' \in [CoFrames -> CoRec]
       /\ \A h \in CoFrames : h # p \/ ~Points(co, slot) => co'[h] = given[h]
  <2>1. CASE Points(co, slot)
    BY <1>20, <1>21, <2>1
  <2>2. CASE ~Points(co, slot)
    BY <1>14, <1>20, <2>2
  <2> QED
    BY <2>1, <2>2
<1>23. Points(co, slot) => Hears(co[p], co'[p], co[p].awaitable.gen, what)
  BY <1>6, <1>20, <1>21
<1>24. given[f] = y /\ \A h \in D : given[h] = Buried
  BY <1>2, <1>4, <1>11, <1>19 DEF Idle
<1>25. \A h \in CoFrames \ {f} : h \notin D /\ h \notin kept => given[h] = co[h]
  BY <1>11, <1>19
<1>26. co'[f] = y /\ (\A h \in D : co'[h] = Buried) /\ (\A h \in kept : co'[h] = given[h])
  BY <1>2, <1>6, <1>22, <1>24 DEF Idle
<1>27. \A h \in CoFrames \ {f} :
         h \notin D /\ h \notin kept /\ (h # p \/ ~Points(co, slot)) => co'[h] = co[h]
  BY <1>22, <1>25
<1> HIDE DEF D
<1> QED
  BY <1>2, <1>4, <1>5, <1>6, <1>7, <1>10, <1>15, <1>18, <1>22, <1>23, <1>26, <1>27

Resumes(js, h) == {i \in DOMAIN js : js[i] = Resume(h)}

\* The resumers of a frame: the callback of the wobj and the jobs.
LEMMA ResumersCount ==
  ASSUME CoTypes, NEW h
  PROVE  /\ Cardinality(Resumes(jobs, h)) \in Nat
         /\ Resumers(h) = (IF waiter = h THEN 1 ELSE 0) + Cardinality(Resumes(jobs, h))
<1>1. IsFiniteSet(1..Len(jobs)) /\ Resumes(jobs, h) \in SUBSET (1..Len(jobs))
  BY FS_Interval DEF CoTypes, Resumes
<1>2. IsFiniteSet(Resumes(jobs, h))
  BY <1>1, FS_Subset
<1> QED
  BY <1>2, FS_CardinalityType DEF Resumers, Resumes, Resume

\* A job that is posted resumes one frame once more.
LEMMA PostCount ==
  ASSUME NEW js \in Seq(CoJobs), NEW j \in CoJobs, NEW h
  PROVE  Cardinality(Resumes(Append(js, j), h))
           = Cardinality(Resumes(js, h)) + (IF j = Resume(h) THEN 1 ELSE 0)
<1>1. IsFiniteSet(1..Len(js)) /\ Resumes(js, h) \in SUBSET (1..Len(js))
  BY FS_Interval DEF Resumes
<1>2. IsFiniteSet(Resumes(js, h)) /\ Cardinality(Resumes(js, h)) \in Nat
  BY <1>1, FS_Subset, FS_CardinalityType
<1>3. Len(js) + 1 \notin Resumes(js, h)
  BY <1>1
<1>4. CASE j = Resume(h)
  <2>1. Resumes(Append(js, j), h) = Resumes(js, h) \cup {Len(js) + 1}
    BY <1>4 DEF Resumes
  <2> QED
    BY <1>2, <1>3, <1>4, <2>1, FS_AddElement
<1>5. CASE j # Resume(h)
  <2>1. Resumes(Append(js, j), h) = Resumes(js, h)
    BY <1>5 DEF Resumes
  <2> QED
    BY <1>2, <1>5, <2>1
<1> QED
  BY <1>4, <1>5

\* A job that is taken resumes one frame once less.
LEMMA TakeCount ==
  ASSUME NEW js \in Seq(CoJobs), js # <<>>, NEW h
  PROVE  Cardinality(Resumes(js, h))
           = Cardinality(Resumes(Tail(js), h)) + (IF Head(js) = Resume(h) THEN 1 ELSE 0)
<1> DEFINE T == Resumes(Tail(js), h)
           U == {i \in Resumes(js, h) : i # 1}
<1>1. /\ Tail(js) \in Seq(CoJobs) /\ Len(Tail(js)) = Len(js) - 1
      /\ \A i \in 1..Len(js)-1 : Tail(js)[i] = js[i+1]
      /\ Len(js) \in Nat \ {0} /\ Head(js) = js[1]
  OBVIOUS
<1>2. T \in SUBSET (1..Len(js)-1) /\ U \in SUBSET (1..Len(js))
  BY <1>1 DEF Resumes
<1>3. IsFiniteSet(T) /\ IsFiniteSet(U)
  <2>1. IsFiniteSet(1..Len(js)-1) /\ IsFiniteSet(1..Len(js))
    BY <1>1, FS_Interval
  <2> HIDE DEF T, U
  <2> QED
    BY <1>2, <2>1, FS_Subset
<1>4. Cardinality(U) = Cardinality(T)
  <2> DEFINE s == [i \in T |-> i + 1]
  <2>1. \A i \in T : i + 1 \in U
    BY <1>1, <1>2 DEF Resumes
  <2>2. \A k \in U : k - 1 \in T /\ s[k - 1] = k
    BY <1>1, <1>2 DEF Resumes
  <2>3. s \in [T -> U]
    BY <2>1
  <2>4. s \in Surjection(T, U)
    BY <2>2, <2>3 DEF Surjection
  <2>5. s \in Injection(T, U)
    <3>1. \A i, k \in T : s[i] = s[k] => i = k
      BY <1>2
    <3> QED
      BY <2>3, <3>1 DEF Injection, IsInjective
  <2>6. ExistsBijection(T, U)
    BY <2>4, <2>5 DEF ExistsBijection, Bijection
  <2> QED
    BY <1>3, <2>6, FS_Bijection
<1>5. Cardinality(T) \in Nat
  BY <1>3, FS_CardinalityType
<1> SUFFICES Cardinality(Resumes(js, h)) = Cardinality(T) + (IF Head(js) = Resume(h) THEN 1 ELSE 0)
  OBVIOUS
<1>6. CASE Head(js) = Resume(h)
  <2>1. Resumes(js, h) = U \cup {1} /\ 1 \notin U
    BY <1>1, <1>6 DEF Resumes
  <2> QED
    BY <1>3, <1>4, <1>5, <1>6, <2>1, FS_AddElement
<1>7. CASE Head(js) # Resume(h)
  <2>1. Resumes(js, h) = U
    BY <1>1, <1>7 DEF Resumes
  <2> QED
    <3> HIDE DEF T, U
    <3> QED
      BY <1>4, <1>5, <1>7, <2>1
<1> QED
  BY <1>6, <1>7

\* Frames that are the same to whoever asks where control is.
Shape(x, y) ==
  /\ y.state = x.state /\ y.owner = x.owner /\ y.prev = x.prev /\ y.generated = x.generated
  /\ y.awaitable.of = x.awaitable.of

\* Frames that are alike, or that are told an answer, have the same shape.
LEMMA Shapes ==
  /\ \A x : Shape(x, x)
  /\ \A x, y : Alike(x, y) => Shape(x, y)
  /\ \A x, y, g, r : Hears(x, y, g, r) => Shape(x, y)
BY DEF Shape, Alike, Kept, Hears

\* A step that leaves every owner as it is, or lets a frame go, leaves no circle of owners.
LEMMA RootedKept ==
  ASSUME Rooted, \A h \in CoFrames : co'[h].owner \in {co[h].owner, Nobody}
  PROVE  Rooted'
<1>1. ASSUME NEW S \in SUBSET CoFrames, \A h \in S : co'[h].owner \in S
      PROVE  S = {}
  <2>1. \A h \in S : co[h].owner \in S
    BY <1>1, NobodyIsNoFrame
  <2> QED
    BY <2>1 DEF Rooted
<1> QED
  BY <1>1 DEF Rooted

\* A step after which nobody awaits who did not await the same before makes no
\* circle of awaiting frames.
LEMMA ChainedKept ==
  ASSUME Chained,
         \A h \in CoFrames : co'[h].state = "awaiting"
           => co[h].state = "awaiting" /\ co'[h].awaitable.of = co[h].awaitable.of
  PROVE  Chained'
<1>1. ASSUME NEW S \in SUBSET CoFrames,
             \A h \in S : co'[h].state = "awaiting" /\ co'[h].awaitable.of \in S
      PROVE  S = {}
  <2>1. \A h \in S : co[h].state = "awaiting" /\ co[h].awaitable.of \in S
    BY <1>1
  <2> QED
    BY <2>1 DEF Chained
<1> QED
  BY <1>1 DEF Chained

-----------------------------------------------------------------------------
\* What the invariant says of one frame.
LEMMA Asked ==
  ASSUME CoInv, NEW h \in CoFrames
  PROVE  Owners(h) /\ Stack(h) /\ Waits(h) /\ ResumedOnce(h)
BY DEF CoInv

\* If the wobj and the jobs stay as they are and the same frames are due, each still
\* has its resumer.
LEMMA SameCount ==
  ASSUME CoInv, CoTypes', waiter' = waiter, jobs' = jobs,
         \A h \in CoFrames : Due(h)' <=> Due(h)
  PROVE  \A h \in CoFrames : ResumedOnce(h)'
BY Asked DEF ResumedOnce, Resumers

\* Steps that only a body's own count or what is said tell from no step at all.
LEMMA SameShape ==
  ASSUME CoInv, CoTypes', running' = running,
         \A h \in CoFrames : Shape(co[h], co'[h]), \A h \in CoFrames : ResumedOnce(h)'
  PROVE  CoInv'
<1>1. Rooted'
  BY RootedKept DEF CoInv, Shape
<1>2. Chained'
  BY ChainedKept DEF CoInv, Shape
<1>3. Runs'
  BY DEF CoInv, Runs, CoTypes, CoPeople, Shape
<1>4. ASSUME NEW h \in CoFrames PROVE Owners(h)' /\ Stack(h)' /\ Waits(h)'
  <2>1. Owners(h) /\ Stack(h) /\ Waits(h) /\ co[h].owner \in CoPeople
    BY Asked, CoFields DEF CoInv
  <2>2. Owners(h)'
    BY <2>1 DEF Owners, Alive, InControl, Shape, CoPeople
  <2>3. Stack(h)'
    BY <2>1 DEF Stack, InControl, Shape
  <2>4. Waits(h)'
    BY <2>1 DEF Waits, InControl, Shape
  <2> QED
    BY <2>2, <2>3, <2>4
<1> QED
  BY <1>1, <1>2, <1>3, <1>4 DEF CoInv

\* co_yield without a next() keeps the invariant.
LEMMA SilentSteps ==
  ASSUME CoInv, NEW f \in CoFrames, YieldIgnored(f)
  PROVE  CoInv'
<1>1. running' = running /\ waiter' = waiter /\ jobs' = jobs /\ intact' = intact /\ co' = Stepped(f)
  BY DEF YieldIgnored
<1>2. CoTypes'
  BY <1>1, SteppedFrame DEF CoInv, CoTypes
<1>3. \A h \in CoFrames : Shape(co[h], co'[h])
  BY <1>1, SteppedFrame, Shapes DEF CoInv
<1>4. \A h \in CoFrames : Due(h)' <=> Due(h)
  BY <1>3 DEF Due, Shape
<1> QED
  BY <1>1, <1>2, <1>3, <1>4, SameCount, SameShape

\* NotifyWobj keeps it: that job resumes no frame by its name.
LEMMA NotifyKeeps ==
  ASSUME CoInv, NotifyWobj
  PROVE  CoInv'
<1>1. /\ running' = running /\ waiter' = waiter /\ intact' = intact /\ co' = co
      /\ jobs' = Append(jobs, <<"notify">>) /\ <<"notify">> \in CoJobs
  BY DEF NotifyWobj, CoJobs
<1>2. CoTypes'
  BY <1>1 DEF CoInv, CoTypes
<1>3. \A h \in CoFrames : Shape(co[h], co'[h])
  BY <1>1, Shapes
<1>4. ASSUME NEW h \in CoFrames PROVE ResumedOnce(h)'
  <2>1. Cardinality(Resumes(jobs', h)) = Cardinality(Resumes(jobs, h))
    <3>1. <<"notify">> # Resume(h)
      BY DEF Resume
    <3>2. Cardinality(Resumes(jobs, h)) \in Nat /\ jobs \in Seq(CoJobs)
      BY ResumersCount DEF CoInv, CoTypes
    <3> QED
      BY <1>1, <3>1, <3>2, PostCount
  <2>2. Resumers(h)' = Resumers(h)
    <3>1. Resumers(h)' = (IF waiter' = h THEN 1 ELSE 0) + Cardinality(Resumes(jobs', h))
      BY <1>2, ResumersCount DEF Resumers, Resumes, Resume
    <3> QED
      BY <1>1, <2>1, <3>1, ResumersCount DEF CoInv
  <2> QED
    BY <1>1, <2>2, Asked DEF ResumedOnce, Due
<1> QED
  BY <1>1, <1>2, <1>3, <1>4, SameShape

\* Await keeps it: the stack grows by a frame that was not in control.
LEMMA AwaitKeeps ==
  ASSUME CoInv, NEW f \in CoFrames, NEW g \in CoFrames, NEW kind \in {"value", "safe", "next"},
         Await(f, g, kind)
  PROVE  CoInv'
<1>1. /\ running = f /\ running' = g /\ waiter' = waiter /\ jobs' = jobs /\ intact' = intact
      /\ co[f].state = "active" /\ co[g].state \in {"created", "yielded"}
      /\ co[g].owner # Nobody /\ co[g].owner \in {f, co[f].prev} /\ CoTypes
  BY DEF Await, Step, Awaitable, CoInv
<1>2. PICK number : number = co[f].awaitable.number + 1
  OBVIOUS
<1>3. /\ f # g
      /\ co' \in [CoFrames -> CoRec]
      /\ \A h \in CoFrames \ {f, g} : co'[h] = co[h]
      /\ co'[f].state = "awaiting" /\ co'[f].owner = co[f].owner /\ co'[f].prev = co[f].prev
      /\ co'[f].generated = co[f].generated /\ co'[f].awaitable.of = g
      /\ co'[g].state = "active" /\ co'[g].prev = f /\ co'[g].owner = co[g].owner
  BY <1>1, <1>2, AwaitFrames
<1>4. CoTypes'
  BY <1>1, <1>3 DEF CoTypes, CoPeople
<1>5. Rooted'
  BY <1>3, RootedKept DEF CoInv
<1>6. Chained'
  <2>1. ASSUME NEW S \in SUBSET CoFrames,
               \A h \in S : co'[h].state = "awaiting" /\ co'[h].awaitable.of \in S
        PROVE  S = {}
    <3>1. g \notin S /\ f \notin S
      BY <1>3, <2>1
    <3>2. \A h \in S : co[h].state = "awaiting" /\ co[h].awaitable.of \in S
      BY <1>3, <2>1, <3>1
    <3> QED
      BY <3>2 DEF CoInv, Chained
  <2> QED
    BY <2>1 DEF Chained
<1>7. Runs'
  BY <1>1, <1>3 DEF CoInv, Runs
<1>8. \A h \in CoFrames : Due(h)' <=> Due(h)
  BY <1>1, <1>3 DEF Due
<1>9. ASSUME NEW h \in CoFrames PROVE Owners(h)' /\ Stack(h)' /\ Waits(h)'
  <2>1. Owners(h) /\ Stack(h) /\ Waits(h) /\ co[h].owner \in CoPeople /\ Owners(f) /\ Stack(f)
    BY <1>1, Asked, CoFields
  <2>2. Owners(h)'
    BY <1>1, <1>3, <2>1 DEF Owners, Alive, InControl, Control, CoPeople
  <2>3. Stack(h)'
    BY <1>1, <1>3, <2>1 DEF Stack, InControl, Control
  <2>4. Waits(h)'
    BY <1>1, <1>3, <2>1 DEF Waits, InControl, Control
  <2> QED
    BY <2>2, <2>3, <2>4
<1> QED
  BY <1>1, <1>4, <1>5, <1>6, <1>7, <1>8, <1>9, SameCount DEF CoInv

\* AwaitResumes keeps it: the stack has shrunk, and its top goes on.
LEMMA AwaitResumesKeeps ==
  ASSUME CoInv, NEW f \in CoFrames, AwaitResumes(f)
  PROVE  CoInv'
<1>1. /\ running = f /\ running' = f /\ waiter' = waiter /\ jobs' = jobs /\ intact' = intact
      /\ co[f].state = "awaiting" /\ CoTypes
  BY DEF AwaitResumes, CoInv
<1>2. /\ co' \in [CoFrames -> CoRec] /\ \A h \in CoFrames \ {f} : co'[h] = co[h]
      /\ Kept(co[f], co'[f]) /\ co'[f].state = "active"
  BY <1>1, ActiveFrame DEF AwaitResumes
<1>3. CoTypes'
  BY <1>1, <1>2 DEF CoTypes
<1>4. Rooted'
  BY <1>2, RootedKept DEF CoInv, Kept
<1>5. Chained'
  BY <1>2, ChainedKept DEF CoInv
<1>6. Runs'
  BY <1>1, <1>2 DEF CoInv, Runs
<1>7. \A h \in CoFrames : Due(h)' <=> Due(h)
  BY <1>1, <1>2 DEF Due
<1>8. ASSUME NEW h \in CoFrames PROVE Owners(h)' /\ Stack(h)' /\ Waits(h)'
  <2>1. Owners(h) /\ Stack(h) /\ Waits(h) /\ co[h].owner \in CoPeople /\ Waits(f)
    BY <1>1, Asked, CoFields
  <2>2. Owners(h)'
    BY <1>1, <1>2, <2>1 DEF Owners, Alive, InControl, Control, CoPeople, Kept
  <2>3. Stack(h)'
    BY <1>1, <1>2, <2>1 DEF Stack, InControl, Control, Kept
  <2>4. Waits(h)'
    BY <1>1, <1>2, <2>1 DEF Waits, InControl, Control, Kept
  <2> QED
    BY <2>2, <2>3, <2>4
<1> QED
  BY <1>1, <1>3, <1>4, <1>5, <1>6, <1>7, <1>8, SameCount DEF CoInv

\* YieldValue keeps it: control goes back to the awaiter, which is on the stack.
LEMMA YieldKeeps ==
  ASSUME CoInv, NEW f \in CoFrames, YieldValue(f)
  PROVE  CoInv'
<1>1. /\ running = f /\ running' = co[f].prev /\ waiter' = waiter /\ jobs' = jobs
      /\ intact' \in BOOLEAN
      /\ co[f].state = "active" /\ co[f].generated # NoSlot /\ CoTypes
  BY DEF YieldValue, Step, CoInv, CoTypes
<1>2. /\ co' \in [CoFrames -> CoRec]
      /\ \A h \in CoFrames \ {f} : Shape(co[h], co'[h])
      /\ co'[f].state = "yielded" /\ co'[f].owner = co[f].owner /\ co'[f].prev = co[f].prev
      /\ co'[f].generated = co[f].generated
  <2>1. PICK slot : slot = co[f].generated
    OBVIOUS
  <2>2. PICK p : p = slot[1]
    OBVIOUS
  <2>3. PICK value : value = <<"yield", co[f].steps>>
    OBVIOUS
  <2> QED
    BY <1>1, <2>1, <2>2, <2>3, YieldFrames, Shapes
<1>3. /\ co[f].owner # Nobody /\ co[f].prev \in CoFrames /\ co[co[f].prev].state = "awaiting"
      /\ co[co[f].prev].awaitable.of = f
  BY <1>1, Asked DEF Stack, InControl, Control
<1>4. CoTypes'
  BY <1>1, <1>2, <1>3 DEF CoTypes, CoPeople
<1>5. Rooted'
  BY <1>2, RootedKept DEF CoInv, Shape
<1>6. Chained'
  BY <1>2, ChainedKept DEF CoInv, Shape
<1>7. Runs'
  BY <1>1, <1>2, <1>3 DEF CoInv, Runs, Shape
<1>8. \A h \in CoFrames : Due(h)' <=> Due(h)
  BY <1>1, <1>2 DEF Due, Shape
<1>9. ASSUME NEW h \in CoFrames PROVE Owners(h)' /\ Stack(h)' /\ Waits(h)'
  <2>1. Owners(h) /\ Stack(h) /\ Waits(h) /\ co[h].owner \in CoPeople
    BY <1>1, Asked, CoFields
  <2>2. Owners(h)'
    BY <1>1, <1>2, <1>3, <2>1 DEF Owners, Alive, InControl, Control, CoPeople, Shape
  <2>3. Stack(h)'
    BY <1>1, <1>2, <1>3, <2>1 DEF Stack, InControl, Control, Shape
  <2>4. Waits(h)'
    BY <1>1, <1>2, <1>3, <2>1 DEF Waits, InControl, Control, Shape
  <2> QED
    BY <2>2, <2>3, <2>4
<1> QED
  BY <1>1, <1>4, <1>5, <1>6, <1>7, <1>8, <1>9, SameCount DEF CoInv

\* A new frame keeps the invariant: it owns nothing, and nothing owns it but the one
\* that runs.
LEMMA CreatedKeeps ==
  ASSUME CoInv, CoTypes', NEW n \in CoFrames, co[n].state = "none",
         NEW o \in CoPeople, co'[n] = Called(o),
         running' = running, o # Nobody => o = running,
         \A h \in CoFrames \ {n} : Shape(co[h], co'[h]), \A h \in CoFrames : ResumedOnce(h)'
  PROVE  CoInv'
<1>1. /\ co'[n].state = "created" /\ co'[n].owner = o /\ co'[n].prev = Nobody
      /\ co'[n].generated = NoSlot
  BY CalledFields
<1>2. Runs /\ CoTypes /\ Rooted
  BY DEF CoInv
<1>3. o # Nobody => o \in CoFrames /\ o # n /\ Alive(o)
  BY <1>2 DEF CoPeople, Runs, Alive
<1>4. \A h \in CoFrames : co[h].owner # n /\ (co[h].state # "none" \/ co[h].owner = Nobody)
  BY Asked, NobodyIsNoFrame DEF Owners, Alive
<1>5. Rooted'
  <2>1. ASSUME NEW S \in SUBSET CoFrames, \A h \in S : co'[h].owner \in S
        PROVE  S = {}
    <3> DEFINE T == S \ {n}
    <3>1. ASSUME NEW h \in T PROVE co[h].owner \in T
      <4>1. co[h].owner = co'[h].owner /\ h \in CoFrames
        BY DEF Shape
      <4> QED
        BY <1>4, <2>1, <4>1
    <3>2. T = {}
      BY <1>2, <3>1 DEF Rooted
    <3>3. n \notin S
      BY <1>1, <1>3, <2>1, <3>2, NobodyIsNoFrame
    <3> QED
      BY <3>2, <3>3
  <2> QED
    BY <2>1 DEF Rooted
<1>6. Chained'
  BY <1>1, ChainedKept DEF CoInv, Shape
<1>7. Runs'
  BY <1>1, <1>2 DEF Runs, Shape, CoTypes, CoPeople
<1>8. ASSUME NEW h \in CoFrames PROVE Owners(h)' /\ Stack(h)' /\ Waits(h)'
  <2>1. Owners(h) /\ Stack(h) /\ Waits(h) /\ co[h].owner \in CoPeople
    BY <1>2, Asked, CoFields
  <2>2. Owners(h)'
    BY <1>1, <1>3, <1>4, <2>1 DEF Owners, Alive, InControl, Control, CoPeople, Shape
  <2>3. Stack(h)'
    BY <1>1, <2>1 DEF Stack, InControl, Control, Shape
  <2>4. Waits(h)'
    BY <1>1, <2>1 DEF Waits, InControl, Control, Shape
  <2> QED
    BY <2>2, <2>3, <2>4
<1> QED
  BY <1>5, <1>6, <1>7, <1>8 DEF CoInv

\* Call keeps the invariant.
LEMMA CallKeeps ==
  ASSUME CoInv, NEW f \in CoFrames, Call(f)
  PROVE  CoInv'
<1>1. PICK n : n = NewFrame
  OBVIOUS
<1>2. /\ running = f /\ running' = running /\ waiter' = waiter /\ jobs' = jobs /\ intact' = intact
      /\ CoTypes
  BY DEF Call, Step, CoInv
<1>3. /\ n \in CoFrames /\ n # f /\ co[n].state = "none"
      /\ co' \in [CoFrames -> CoRec] /\ co'[n] = Called(f)
      /\ \A h \in CoFrames \ {n} : Shape(co[h], co'[h])
  BY <1>1, <1>2, CallFrames, Shapes
<1>4. CoTypes'
  BY <1>2, <1>3 DEF CoTypes
<1>5. \A h \in CoFrames : Due(h)' <=> Due(h)
  <2>1. co'[n].owner = f /\ co'[n].state = "created"
    BY <1>3, CalledFields
  <2> QED
    BY <1>3, <2>1, NobodyIsNoFrame DEF Due, Shape
<1>6. \A h \in CoFrames : ResumedOnce(h)'
  BY <1>2, <1>4, <1>5, SameCount
<1>7. f \in CoPeople
  BY DEF CoPeople
<1> QED
  BY <1>2, <1>3, <1>4, <1>6, <1>7, CreatedKeeps

\* CoSpawn keeps it: with the frame comes the one job that resumes it.
LEMMA SpawnKeeps ==
  ASSUME CoInv, CoSpawn
  PROVE  CoInv'
<1>1. PICK n : n = NewFrame
  OBVIOUS
<1>2. /\ running' = running /\ waiter' = waiter /\ intact' = intact
      /\ jobs' = Append(jobs, Resume(n))
      /\ CoTypes
  BY <1>1 DEF CoSpawn, CoInv, Resume
<1>3. /\ n \in CoFrames /\ co[n].state = "none"
      /\ co' \in [CoFrames -> CoRec] /\ co'[n] = Called(Nobody)
      /\ \A h \in CoFrames \ {n} : Shape(co[h], co'[h])
  BY <1>1, <1>2, SpawnFrames, Shapes
<1>4. Resume(n) \in CoJobs /\ jobs \in Seq(CoJobs)
  BY <1>2, <1>3 DEF CoJobs, CoTypes
<1>5. CoTypes'
  BY <1>2, <1>3, <1>4 DEF CoTypes
<1>6. ASSUME NEW h \in CoFrames PROVE ResumedOnce(h)'
  <2>1. Resumers(h)' = (IF waiter' = h THEN 1 ELSE 0) + Cardinality(Resumes(jobs', h))
    BY <1>5, ResumersCount DEF Resumers, Resumes, Resume
  <2>2. Cardinality(Resumes(jobs', h)) = Cardinality(Resumes(jobs, h)) + (IF h = n THEN 1 ELSE 0)
    <3>1. Resume(n) = Resume(h) <=> h = n
      BY DEF Resume
    <3> QED
      BY <1>2, <1>4, <3>1, PostCount
  <2>3. Resumers(h)' = Resumers(h) + (IF h = n THEN 1 ELSE 0)
    BY <1>2, <2>1, <2>2, ResumersCount
  <2>4. Due(h)' <=> (h = n \/ Due(h))
    <3>1. co'[n].owner = Nobody /\ co'[n].state = "created"
      BY <1>3, CalledFields
    <3> QED
      BY <1>3, <3>1 DEF Due, Shape
  <2>5. ~Due(n)
    BY <1>3 DEF Due
  <2> QED
    BY <2>3, <2>4, <2>5, Asked DEF ResumedOnce
<1>7. Nobody \in CoPeople
  BY DEF CoPeople
<1> QED
  BY <1>2, <1>3, <1>5, <1>6, <1>7, CreatedKeeps

\* Wait keeps it: an earlier waiter is posted and the new one is in the wobj.
LEMMA WaitKeeps ==
  ASSUME CoInv, NEW f \in CoFrames, Wait(f)
  PROVE  CoInv'
<1>1. /\ running = f /\ running' = Nobody /\ waiter' = f /\ intact' = intact
      /\ jobs' = IF waiter # Nobody THEN Append(jobs, Resume(waiter)) ELSE jobs
      /\ co[f].state = "active" /\ CoTypes
  BY DEF Wait, Step, CoInv, Resume
<1>2. /\ co' \in [CoFrames -> CoRec] /\ \A h \in CoFrames \ {f} : co'[h] = co[h]
      /\ Kept(co[f], co'[f]) /\ co'[f].state = "waiting"
  BY <1>1, WaitFrame
<1>3. waiter # Nobody => Resume(waiter) \in CoJobs
  BY <1>1 DEF CoTypes, CoPeople, CoJobs
<1>4. CoTypes'
  BY <1>1, <1>2, <1>3 DEF CoTypes, CoPeople
<1>5. Rooted'
  BY <1>2, RootedKept DEF CoInv, Kept
<1>6. Chained'
  BY <1>2, ChainedKept DEF CoInv
<1>7. Runs'
  BY <1>1, <1>2 DEF CoInv, Runs
<1>8. waiter # f
  <2>1. Resumers(f) = 0 /\ Cardinality(Resumes(jobs, f)) \in Nat
    BY <1>1, Asked, ResumersCount DEF ResumedOnce, Due
  <2> QED
    BY <1>1, <2>1, ResumersCount
<1>9. ASSUME NEW h \in CoFrames PROVE ResumedOnce(h)'
  <2>1. Resumers(h)' = (IF waiter' = h THEN 1 ELSE 0) + Cardinality(Resumes(jobs', h))
    BY <1>4, ResumersCount DEF Resumers, Resumes, Resume
  <2>2. Cardinality(Resumes(jobs', h))
          = Cardinality(Resumes(jobs, h)) + (IF h = waiter THEN 1 ELSE 0)
    <3>1. Resume(waiter) = Resume(h) <=> h = waiter
      BY DEF Resume
    <3>2. CASE waiter # Nobody
      BY <1>1, <1>3, <3>1, <3>2, PostCount DEF CoTypes
    <3>3. CASE waiter = Nobody
      BY <1>1, <3>3, NobodyIsNoFrame, ResumersCount
    <3> QED
      BY <3>2, <3>3
  <2>3. Resumers(h)' = Resumers(h) + (IF h = f THEN 1 ELSE 0)
    BY <1>1, <1>8, <2>1, <2>2, ResumersCount
  <2>4. Due(h)' <=> (h = f \/ Due(h))
    BY <1>2 DEF Due
  <2>5. ~Due(f)
    BY <1>1 DEF Due
  <2> QED
    BY <2>3, <2>4, <2>5, Asked DEF ResumedOnce
<1>10. ASSUME NEW h \in CoFrames PROVE Owners(h)' /\ Stack(h)' /\ Waits(h)'
  <2>1. Owners(h) /\ Stack(h) /\ Waits(h) /\ co[h].owner \in CoPeople
    BY <1>1, Asked, CoFields
  <2>2. Owners(h)'
    BY <1>1, <1>2, <2>1 DEF Owners, Alive, InControl, Control, CoPeople, Kept
  <2>3. Stack(h)'
    BY <1>1, <1>2, <2>1, NobodyIsNoFrame DEF Stack, InControl, Control, Kept
  <2>4. Waits(h)'
    BY <1>1, <1>2, <2>1, NobodyIsNoFrame DEF Waits, InControl, Control, Kept
  <2> QED
    BY <2>2, <2>3, <2>4
<1> QED
  BY <1>4, <1>5, <1>6, <1>7, <1>9, <1>10 DEF CoInv

\* A frame that was due and whose resumer is used up keeps the invariant.
LEMMA ResumeKeeps ==
  ASSUME CoInv, NEW f \in CoFrames, running = Nobody, ResumeFrame(f), Due(f),
         waiter' \in CoPeople, jobs' \in Seq(CoJobs),
         \A h \in CoFrames : Resumers(h)' = Resumers(h) - (IF h = f THEN 1 ELSE 0)
  PROVE  CoInv' /\ intact' = intact
<1>1. /\ running' = f /\ intact' = intact /\ co' = [co EXCEPT ![f].state = "active"] /\ CoTypes
      /\ co[f].state \in {"created", "waiting"}
  BY DEF ResumeFrame, Due, CoInv, CoTypes
<1>2. /\ co' \in [CoFrames -> CoRec] /\ \A h \in CoFrames \ {f} : co'[h] = co[h]
      /\ Kept(co[f], co'[f]) /\ co'[f].state = "active"
  BY <1>1, ActiveFrame
<1>4. CoTypes'
  BY <1>1, <1>2 DEF CoTypes, CoPeople
<1>5. Rooted'
  BY <1>2, RootedKept DEF CoInv, Kept
<1>6. Chained'
  BY <1>2, ChainedKept DEF CoInv
<1>7. Runs'
  BY <1>1, <1>2, NobodyIsNoFrame DEF CoInv, Runs
<1>8. ASSUME NEW h \in CoFrames PROVE ResumedOnce(h)'
  <2>1. Due(h)' <=> (h # f /\ Due(h))
    BY <1>2 DEF Due
  <2> QED
    BY <2>1, Asked DEF ResumedOnce
<1>9. ASSUME NEW h \in CoFrames PROVE Owners(h)' /\ Stack(h)' /\ Waits(h)'
  <2>1. Owners(h) /\ Stack(h) /\ Waits(h) /\ co[h].owner \in CoPeople
    BY <1>1, Asked, CoFields
  <2>2. Owners(h)'
    BY <1>1, <1>2, <2>1 DEF Owners, Alive, InControl, Control, CoPeople, Kept
  <2>3. Stack(h)'
    <3>1. CASE h = f
      <4>1. CASE co[f].state = "created"
        BY <1>1, <1>2, <2>1, <3>1, <4>1 DEF Stack, Owners, Due, Kept
      <4>2. CASE co[f].state = "waiting"
        <5>1. InControl(f)
          BY <4>2 DEF InControl, Control
        <5> QED
          BY <1>1, <1>2, <2>1, <3>1, <5>1, <4>2 DEF Stack, Kept
      <4> QED
        BY <1>1, <4>1, <4>2
    <3>2. CASE h # f
      BY <1>1, <1>2, <2>1, <3>2 DEF Stack, InControl, Kept
    <3> QED
      BY <3>1, <3>2
  <2>4. Waits(h)'
    BY <1>1, <1>2, <2>1, NobodyIsNoFrame DEF Waits, InControl, Control, Kept
  <2> QED
    BY <2>2, <2>3, <2>4
<1> QED
  BY <1>1, <1>4, <1>5, <1>6, <1>7, <1>8, <1>9 DEF CoInv

\* RunJob keeps it, and resumes only a frame that is due.
LEMMA RunJobKeeps ==
  ASSUME CoInv, RunJob
  PROVE  /\ CoInv' /\ intact' = intact
         /\ \/ \E f \in CoFrames : ResumeFrame(f) /\ Due(f)
            \/ co' = co /\ running' = running
<1>1. running = Nobody /\ jobs # <<>> /\ jobs' = Tail(jobs) /\ CoTypes /\ jobs \in Seq(CoJobs)
  BY DEF RunJob, CoInv, CoTypes
<1>2. jobs' \in Seq(CoJobs) /\ Head(jobs) \in CoJobs
  BY <1>1
<1>3. \A h : Resumers(h) = (IF waiter = h THEN 1 ELSE 0) + Cardinality(Resumes(jobs', h))
                             + (IF Head(jobs) = Resume(h) THEN 1 ELSE 0)
  <2>1. ASSUME NEW h
        PROVE  Resumers(h) = (IF waiter = h THEN 1 ELSE 0) + Cardinality(Resumes(jobs', h))
                               + (IF Head(jobs) = Resume(h) THEN 1 ELSE 0)
    <3>1. Cardinality(Resumes(jobs, h))
            = Cardinality(Resumes(jobs', h)) + (IF Head(jobs) = Resume(h) THEN 1 ELSE 0)
      BY <1>1, TakeCount
    <3>2. Cardinality(Resumes(jobs', h)) \in Nat
      <4>1. IsFiniteSet(1..Len(jobs')) /\ Resumes(jobs', h) \in SUBSET (1..Len(jobs'))
        BY <1>2, FS_Interval DEF Resumes
      <4> QED
        BY <4>1, FS_Subset, FS_CardinalityType
    <3> QED
      BY <1>1, <3>1, <3>2, ResumersCount
  <2> QED
    BY <2>1
<1>4. \A h : Cardinality(Resumes(jobs', h)) \in Nat
  <2>1. ASSUME NEW h PROVE Cardinality(Resumes(jobs', h)) \in Nat
    <3>1. IsFiniteSet(1..Len(jobs')) /\ Resumes(jobs', h) \in SUBSET (1..Len(jobs'))
      BY <1>2, FS_Interval DEF Resumes
    <3> QED
      BY <3>1, FS_Subset, FS_CardinalityType
  <2> QED
    BY <2>1
<1>5. \A h : Resumers(h)' = (IF waiter' = h THEN 1 ELSE 0) + Cardinality(Resumes(jobs', h))
  BY DEF Resumers, Resumes, Resume
<1>6. \A h \in CoFrames : Resumers(h) \in {0, 1} /\ (Resumers(h) = 1 => Due(h))
  BY Asked DEF ResumedOnce
<1>7. CASE Head(jobs)[1] = "resume" /\ ResumeFrame(Head(jobs)[2]) /\ UNCHANGED waiter
  <2>1. PICK f \in CoFrames : Head(jobs) = Resume(f)
    BY <1>2, <1>7 DEF CoJobs
  <2>2. ResumeFrame(f)
    BY <1>7, <2>1 DEF Resume
  <2>3. \A h : Resume(f) = Resume(h) <=> h = f
    BY DEF Resume
  <2>4. \A h \in CoFrames : Resumers(h)' = Resumers(h) - (IF h = f THEN 1 ELSE 0)
    BY <1>3, <1>4, <1>5, <1>7, <2>1, <2>3
  <2>5. Due(f)
    <3>1. Resumers(f) = (IF waiter = f THEN 1 ELSE 0) + Cardinality(Resumes(jobs', f)) + 1
      BY <1>3, <2>1
    <3>2. Resumers(f) # 0
      BY <1>4, <3>1
    <3> QED
      BY <1>6, <3>2
  <2> QED
    BY <1>1, <1>2, <1>7, <2>2, <2>4, <2>5, ResumeKeeps DEF CoTypes
<1>8. CASE Head(jobs)[1] = "notify" /\ waiter # Nobody /\ ResumeFrame(waiter) /\ waiter' = Nobody
  <2>1. PICK f \in CoFrames : waiter = f
    BY <1>1, <1>8 DEF CoTypes, CoPeople
  <2>2. \A h : Head(jobs) # Resume(h)
    BY <1>8 DEF Resume
  <2>3. \A h \in CoFrames : Resumers(h)' = Resumers(h) - (IF h = f THEN 1 ELSE 0)
    BY <1>3, <1>4, <1>5, <1>8, <2>1, <2>2, NobodyIsNoFrame
  <2>4. Due(f)
    <3>1. Resumers(f) = 1 + Cardinality(Resumes(jobs', f))
      BY <1>3, <1>4, <2>1, <2>2
    <3>2. Resumers(f) # 0
      BY <1>4, <3>1
    <3> QED
      BY <1>6, <3>2
  <2>5. ResumeFrame(f) /\ waiter' \in CoPeople
    BY <1>8, <2>1 DEF CoPeople
  <2> QED
    BY <1>1, <1>2, <2>3, <2>4, <2>5, ResumeKeeps
<1>9. CASE Head(jobs)[1] = "notify" /\ waiter = Nobody /\ UNCHANGED <<co, running, waiter, intact>>
  <2>1. \A h : Head(jobs) # Resume(h)
    BY <1>9 DEF Resume
  <2>2. \A h \in CoFrames : Resumers(h)' = Resumers(h)
    BY <1>3, <1>4, <1>5, <1>9, <2>1
  <2>3. \A h \in CoFrames : ResumedOnce(h)'
    BY <1>9, <2>2, Asked DEF ResumedOnce, Due
  <2>4. CoTypes'
    BY <1>1, <1>2, <1>9 DEF CoTypes
  <2>5. \A h \in CoFrames : Shape(co[h], co'[h])
    BY <1>9, Shapes
  <2>6. running' = running
    BY <1>9
  <2>7. CoInv'
    BY <2>3, <2>4, <2>5, <2>6, SameShape
  <2> QED
    BY <1>9, <2>7
<1> QED
  BY <1>7, <1>8, <1>9 DEF RunJob

\* Frames that nobody can reach any more do not matter to those that are left.
LEMMA DropKeeps ==
  ASSUME CoInv, NEW f \in CoFrames, Drop(f)
  PROVE  CoInv' /\ intact' = intact
<1>1. PICK D : /\ Taken(D) /\ f \notin D /\ intact' = intact
               /\ co' \in [CoFrames -> CoRec]
               /\ \A h \in D : co'[h] = Buried
               /\ \A h \in CoFrames \ D : Shape(co[h], co'[h])
  BY DropFrames, Shapes
<1>2. /\ running = f /\ running' = f /\ waiter' = waiter /\ jobs' = jobs
      /\ co[f].state = "active" /\ CoTypes
  BY DEF Drop, Step, CoInv
<1>3. /\ D \in SUBSET CoFrames
      /\ \A h \in D : /\ co[h].state \in {"created", "yielded", "done"} /\ co[h].owner # Nobody
                      /\ co'[h].state = "destroyed" /\ co'[h].owner = Nobody
      /\ \A h \in CoFrames : co[h].owner \in D => h \in D
  BY <1>1, BuriedFields DEF Taken, Idle, MayGo
<1>4. CoTypes'
  BY <1>1, <1>2 DEF CoTypes
<1>5. Rooted'
  BY <1>1, <1>3, RootedKept DEF CoInv, Shape
<1>6. Chained'
  BY <1>1, <1>3, ChainedKept DEF CoInv, Shape
<1>7. Runs'
  BY <1>1, <1>2, <1>3 DEF CoInv, Runs, Shape
<1>8. \A h \in CoFrames : Due(h)' <=> Due(h)
  BY <1>1, <1>3 DEF Due, Shape
<1>9. ASSUME NEW h \in CoFrames PROVE Owners(h)' /\ Stack(h)' /\ Waits(h)'
  <2>1. Owners(h) /\ Stack(h) /\ Waits(h) /\ co[h].owner \in CoPeople
    BY <1>2, Asked, CoFields
  <2>2. Owners(h)'
    BY <1>1, <1>3, <2>1 DEF Owners, Alive, InControl, Control, CoPeople, Shape
  <2>3. Stack(h)'
    BY <1>1, <1>2, <1>3, <2>1 DEF Stack, InControl, Control, Shape
  <2>4. Waits(h)'
    BY <1>1, <1>2, <1>3, <2>1 DEF Waits, InControl, Control, Shape
  <2> QED
    BY <2>2, <2>3, <2>4
<1> QED
  BY <1>1, <1>2, <1>4, <1>5, <1>6, <1>7, <1>8, <1>9, SameCount DEF CoInv

\* RootEnds keeps the invariant.
LEMMA RootEndsKeeps ==
  ASSUME CoInv, NEW f \in CoFrames, RootEnds(f)
  PROVE  CoInv' /\ intact' = intact
<1>1. PICK D : /\ D \in SUBSET CoFrames /\ f \in D /\ D \subseteq Idle \cup {f} /\ intact' = intact
               /\ \A h \in CoFrames : co[h].owner \in D => h \in D
               /\ co' \in [CoFrames -> CoRec]
               /\ \A h \in D : co'[h] = Buried
               /\ \A h \in CoFrames \ D : co'[h] = co[h]
  BY RootEndsFrames
<1>2. /\ running = f /\ running' = Nobody /\ waiter' = waiter /\ jobs' = jobs
      /\ co[f].state = "active" /\ co[f].prev = Nobody /\ CoTypes
  BY DEF RootEnds, Step, CoInv
<1>3. \A h \in D : /\ h # f => /\ co[h].state \in {"created", "yielded", "done"}
                               /\ co[h].owner # Nobody
                   /\ co'[h].state = "destroyed" /\ co'[h].owner = Nobody
  BY <1>1, BuriedFields DEF Idle, MayGo
<1>4. CoTypes'
  BY <1>1, <1>2 DEF CoTypes, CoPeople
<1>5. Rooted'
  BY <1>1, <1>3, RootedKept DEF CoInv
<1>6. Chained'
  BY <1>1, <1>3, ChainedKept DEF CoInv
<1>7. Runs'
  BY <1>1, <1>2, <1>3 DEF CoInv, Runs
<1>8. \A h \in CoFrames : Due(h)' <=> Due(h)
  BY <1>1, <1>2, <1>3 DEF Due
<1>9. ASSUME NEW h \in CoFrames PROVE Owners(h)' /\ Stack(h)' /\ Waits(h)'
  <2>1. Owners(h) /\ Stack(h) /\ Waits(h) /\ co[h].owner \in CoPeople
    BY <1>2, Asked, CoFields
  <2>2. Owners(h)'
    BY <1>1, <1>2, <1>3, <2>1 DEF Owners, Alive, InControl, Control, CoPeople
  <2>3. Stack(h)'
    BY <1>1, <1>2, <1>3, <2>1, NobodyIsNoFrame DEF Stack, InControl, Control
  <2>4. Waits(h)'
    BY <1>1, <1>2, <1>3, <2>1, NobodyIsNoFrame DEF Waits, InControl, Control
  <2> QED
    BY <2>2, <2>3, <2>4
<1> QED
  BY <1>1, <1>2, <1>4, <1>5, <1>6, <1>7, <1>8, <1>9, SameCount DEF CoInv

\* The end of an awaited coroutine keeps it.  No circle of owners arises from what it
\* returns: owners of what is in control are in control, those of the rest are not.
LEMMA FinishKeeps ==
  ASSUME CoInv, NEW f \in CoFrames, NEW what \in CoWords, NEW kept \in SUBSET CoFrames,
         Finish(f, what, kept)
  PROVE  CoInv'
<1>1. PICK slot : slot = co[f].result
  OBVIOUS
<1>2. PICK p : p = slot[1]
  OBVIOUS
<1>3. PICK D : /\ Taken(D) /\ f \notin D /\ kept \cap D = {} /\ kept \subseteq Idle /\ f \notin kept
               /\ co' \in [CoFrames -> CoRec]
               /\ \A h \in D : co'[h] = Buried
               /\ \A h \in kept : /\ co'[h].owner = co[f].prev /\ co'[h].state = co[h].state
                                  /\ co'[h].prev = co[h].prev /\ co'[h].generated = co[h].generated
                                  /\ co'[h].awaitable = co[h].awaitable
               /\ \A h \in CoFrames \ {f} :
                    h \notin D /\ h \notin kept /\ (h # p \/ ~Points(co, slot)) => co'[h] = co[h]
               /\ Points(co, slot) => Hears(co[p], co'[p], co[p].awaitable.gen, what)
               /\ co'[f].state = "done" /\ co'[f].owner = co[f].owner /\ co'[f].prev = co[f].prev
               /\ co'[f].generated = co[f].generated
               /\ intact' = (intact /\ Points(co, slot))
  BY <1>1, <1>2, FinishFrames
<1>4. \A h \in CoFrames \ {f} : h \notin D /\ h \notin kept => Shape(co[h], co'[h])
  BY <1>3, Shapes
<1>5. /\ running = f /\ running' = co[f].prev /\ waiter' = waiter /\ jobs' = jobs
      /\ co[f].state = "active" /\ co[f].prev # Nobody /\ CoTypes
      /\ \A h \in kept : co[h].owner = f
  BY DEF Finish, CoInv
<1>6. /\ co[f].owner # Nobody /\ co[f].prev \in CoFrames /\ co[co[f].prev].state = "awaiting"
      /\ co[co[f].prev].awaitable.of = f
  BY <1>5, Asked DEF Stack, InControl, Control
<1>7. /\ D \in SUBSET CoFrames
      /\ \A h \in D : /\ co[h].state \in {"created", "yielded", "done"} /\ co[h].owner # Nobody
                      /\ co'[h].state = "destroyed" /\ co'[h].owner = Nobody
      /\ \A h \in CoFrames : co[h].owner \in D => h \in D
      /\ \A h \in kept : co[h].state \in {"created", "yielded", "done"} /\ co[h].owner # Nobody
  BY <1>3, BuriedFields DEF Taken, Idle, MayGo
<1>8. CoTypes'
  BY <1>3, <1>5, <1>6 DEF CoTypes, CoPeople
<1>9. Rooted'
  <2>1. ASSUME NEW S \in SUBSET CoFrames, \A h \in S : co'[h].owner \in S
        PROVE  S = {}
    <3> DEFINE T == {h \in S : InControl(h)}
    <3>1. S \cap D = {}
      BY <1>7, <2>1, NobodyIsNoFrame
    <3>2. \A h \in S : h \notin kept => co[h].owner \in S
      BY <1>3, <1>4, <2>1, <3>1 DEF Shape
    <3>3. ASSUME NEW h \in T PROVE co[h].owner \in T
      <4>1. h \in CoFrames /\ InControl(h) /\ h \notin kept
        BY <1>7 DEF InControl, Control
      <4>2. co[h].owner \in S /\ co[h].owner # Nobody
        BY <3>2, <4>1, NobodyIsNoFrame
      <4>3. PICK q \in CoFrames : /\ q = co[h].prev /\ co[q].state = "awaiting"
                                  /\ co[h].owner \in {q, co[q].prev}
        BY <4>1, <4>2, Asked DEF Stack
      <4>4. co[q].owner # Nobody => co[co[q].prev].state = "awaiting"
        BY <4>3, Asked DEF Stack, InControl, Control
      <4>5. co[q].owner = Nobody => co[q].prev = Nobody
        BY <4>3, Asked DEF Stack, InControl, Control
      <4> QED
        BY <4>2, <4>3, <4>4, <4>5 DEF InControl, Control
    <3>4. T = {}
      <4>1. T \in SUBSET CoFrames
        OBVIOUS
      <4> HIDE DEF T
      <4> QED
        BY <3>3, <4>1 DEF CoInv, Rooted
    <3>5. \A h \in S : h \notin kept
      BY <1>3, <1>6, <2>1, <3>4 DEF InControl, Control
    <3> QED
      BY <3>2, <3>5 DEF CoInv, Rooted
  <2> QED
    BY <2>1 DEF Rooted
<1>10. Chained'
  BY <1>3, <1>4, <1>7, ChainedKept DEF CoInv, Shape
<1>11. Runs'
  BY <1>3, <1>4, <1>5, <1>6, <1>7 DEF CoInv, Runs, Shape
<1>12. \A h \in CoFrames : Due(h)' <=> Due(h)
  BY <1>3, <1>4, <1>5, <1>6, <1>7, NobodyIsNoFrame DEF Due, Shape
<1>13. ASSUME NEW h \in CoFrames PROVE Owners(h)' /\ Stack(h)' /\ Waits(h)'
  <2>1. Owners(h) /\ Stack(h) /\ Waits(h) /\ co[h].owner \in CoPeople
    BY <1>5, Asked, CoFields
  <2>2. Owners(h)'
    <3>1. CASE h = f
      BY <1>3, <1>4, <1>5, <1>6, <1>7, <2>1, <3>1
         DEF Owners, Alive, InControl, Control, CoPeople, Shape
    <3>2. CASE h \in D
      BY <1>7, <3>2 DEF Owners, Alive
    <3>3. CASE h \in kept
      BY <1>3, <1>4, <1>5, <1>6, <1>7, <2>1, <3>3, NobodyIsNoFrame
         DEF Owners, Alive, InControl, Control, Shape
    <3>4. CASE h # f /\ h \notin D /\ h \notin kept
      <4>1. Shape(co[h], co'[h])
        BY <1>4, <3>4
      <4>2. ASSUME co[h].owner # Nobody PROVE Alive(co[h].owner)'
        <5>1. co[h].owner \in CoFrames /\ co[h].owner \notin D /\ Alive(co[h].owner)
          BY <1>7, <2>1, <3>4, <4>2 DEF Owners, CoPeople
        <5> QED
          BY <1>3, <1>4, <4>1, <5>1 DEF Alive, Shape
      <4> QED
        BY <2>1, <4>1, <4>2 DEF Owners, Alive, InControl, Shape
    <3> QED
      BY <3>1, <3>2, <3>3, <3>4
  <2>3. Stack(h)'
    <3>1. CASE h = f \/ h \in D \/ h \in kept
      BY <1>3, <1>7, <3>1 DEF Stack, InControl, Control
    <3>2. CASE h # f /\ h \notin D /\ h \notin kept
      BY <1>3, <1>4, <1>5, <1>6, <1>7, <2>1, <3>2 DEF Stack, InControl, Control, Shape
    <3> QED
      BY <3>1, <3>2
  <2>4. Waits(h)'
    <3>1. CASE h = f \/ h \in D \/ h \in kept
      BY <1>3, <1>7, <3>1 DEF Waits
    <3>2. CASE h # f /\ h \notin D /\ h \notin kept
      BY <1>3, <1>4, <1>5, <1>6, <1>7, <2>1, <3>2 DEF Waits, InControl, Control, Shape
    <3> QED
      BY <3>1, <3>2
  <2> QED
    BY <2>2, <2>3, <2>4
<1> QED
  BY <1>5, <1>8, <1>9, <1>10, <1>11, <1>12, <1>13, SameCount DEF CoInv

\* What the invariants say of one frame.
LEMMA Pointing ==
  ASSUME CoInv, HearInv, NEW h \in CoFrames
  PROVE  intact /\ Pointed(h) /\ Listens(h) /\ Stack(h) /\ Waits(h)
BY DEF CoInv, HearInv

-----------------------------------------------------------------------------
\* Steps that let no frame listen that did not, and give nobody another awaiter.
LEMMA AlikeHears ==
  ASSUME CoInv, HearInv, intact' = intact, NEW D \in SUBSET CoFrames,
         \A h \in CoFrames \ D : Kept(co[h], co'[h]),
         \A h \in CoFrames \ D :
           \/ co'[h].state = co[h].state
           \/ co'[h].state # "awaiting" /\ (InControl(h) \/ co[h].prev = Nobody),
         \A h \in D : co'[h].state \notin Control,
         \A h \in D :
           /\ co[h].state # "awaiting"
           /\ \A k \in CoFrames : running = k /\ co[k].state = "awaiting" => co[k].awaitable.of # h,
         \A h \in CoFrames : co'[h].state = "awaiting" => (running' = h <=> running = h)
  PROVE  HearInv'
<1>1. ASSUME NEW h \in CoFrames PROVE Pointed(h)'
  <2>1. SUFFICES ASSUME h \notin D, InControl(h)', co'[h].prev # Nobody PROVE Pointed(h)'
    BY DEF Pointed, InControl
  <2>2. Kept(co[h], co'[h]) /\ Pointed(h) /\ Stack(h)
    BY <2>1, Pointing
  <2>3. InControl(h) /\ co[h].prev # Nobody
    BY <2>1, <2>2 DEF InControl, Kept
  <2>4. co[h].prev \in CoFrames /\ co[co[h].prev].state = "awaiting"
    BY <2>2, <2>3 DEF Stack
  <2>5. co'[co[h].prev].awaitable = co[co[h].prev].awaitable
    BY <2>4 DEF Kept
  <2> QED
    BY <2>1, <2>2, <2>3, <2>5 DEF Pointed, Kept
<1>2. ASSUME NEW h \in CoFrames PROVE Listens(h)'
  <2>1. SUFFICES ASSUME h \notin D, co'[h].state = "awaiting" PROVE Listens(h)'
    BY DEF Listens, Control
  <2>2. Kept(co[h], co'[h]) /\ Listens(h) /\ Waits(h) /\ co[h].state = "awaiting"
    BY <2>1, Pointing
  <2>3. CASE running = h
    <3>1. co[h].awaitable.of \in CoFrames /\ co[h].awaitable.of \notin D
      BY <2>2, <2>3 DEF Waits
    <3>2. Kept(co[co[h].awaitable.of], co'[co[h].awaitable.of])
      BY <3>1
    <3> QED
      BY <2>1, <2>2, <2>3, <3>2 DEF Listens, Kept, Heard
  <2>4. CASE running # h
    BY <2>1, <2>2, <2>4 DEF Listens, Kept
  <2> QED
    BY <2>3, <2>4
<1> QED
  BY <1>1, <1>2 DEF HearInv

\* A new frame hears nothing and is heard by nobody.
LEMMA NewHears ==
  ASSUME CoInv, HearInv, intact' = intact, NEW n \in CoFrames, co[n].state = "none",
         co'[n].state = "created", running' = running,
         \A h \in CoFrames \ {n} : Alike(co[h], co'[h])
  PROVE  HearInv'
<1>1. PICK D \in SUBSET CoFrames : D = {n}
  OBVIOUS
<1>2. \A k \in CoFrames : running = k /\ co[k].state = "awaiting" => co[k].awaitable.of # n
  BY Pointing DEF Waits
<1> QED
  BY <1>1, <1>2, AlikeHears DEF Alike, Control

\* Call keeps it.
LEMMA CallHears ==
  ASSUME CoInv, HearInv, NEW f \in CoFrames, Call(f)
  PROVE  HearInv'
<1>1. PICK n : n = NewFrame
  OBVIOUS
<1>2. running' = running /\ intact' = intact /\ CoTypes
  BY DEF Call, CoInv
<1> QED
  BY <1>1, <1>2, CallFrames, CalledFields, NewHears

\* CoSpawn keeps it.
LEMMA SpawnHears ==
  ASSUME CoInv, HearInv, CoSpawn
  PROVE  HearInv'
<1>1. PICK n : n = NewFrame
  OBVIOUS
<1>2. running' = running /\ intact' = intact /\ CoTypes
  BY DEF CoSpawn, CoInv
<1> QED
  BY <1>1, <1>2, SpawnFrames, CalledFields, NewHears

\* co_yield without a next() keeps it.
LEMMA IgnoredHears ==
  ASSUME CoInv, HearInv, NEW f \in CoFrames, YieldIgnored(f)
  PROVE  HearInv'
<1>1. /\ running' = running /\ intact' = intact
      /\ \A h \in CoFrames : co'[h].state = co[h].state /\ Kept(co[h], co'[h])
  BY SteppedFrame, UntouchedAlike DEF YieldIgnored, Alike, CoInv
<1>2. PICK D \in SUBSET CoFrames : D = {}
  OBVIOUS
<1> QED
  BY <1>1, <1>2, AlikeHears

\* Steps that leave the frames alone keep it.
LEMMA UntouchedHears ==
  ASSUME CoInv, HearInv, co' = co, intact' = intact, running' = running
  PROVE  HearInv'
<1>1. PICK D \in SUBSET CoFrames : D = {}
  OBVIOUS
<1> QED
  BY <1>1, UntouchedAlike, AlikeHears DEF Alike

\* Wait keeps it.
LEMMA WaitHears ==
  ASSUME CoInv, HearInv, NEW f \in CoFrames, Wait(f)
  PROVE  HearInv'
<1>1. /\ running = f /\ running' = Nobody /\ intact' = intact /\ co[f].state = "active" /\ CoTypes
  BY DEF Wait, Step, CoInv
<1>2. /\ \A h \in CoFrames \ {f} : co'[h].state = co[h].state /\ Kept(co[h], co'[h])
      /\ Kept(co[f], co'[f]) /\ co'[f].state = "waiting"
  BY <1>1, WaitFrame, UntouchedAlike DEF Alike
<1>3. PICK D \in SUBSET CoFrames : D = {}
  OBVIOUS
<1>4. InControl(f)
  BY <1>1 DEF InControl, Control
<1> QED
  BY <1>1, <1>2, <1>3, <1>4, AlikeHears, NobodyIsNoFrame

\* AwaitResumes keeps it.
LEMMA AwaitResumesHears ==
  ASSUME CoInv, HearInv, NEW f \in CoFrames, AwaitResumes(f)
  PROVE  HearInv'
<1>1. /\ running' = running /\ intact' = intact /\ co[f].state = "awaiting" /\ CoTypes
  BY DEF AwaitResumes, CoInv
<1>2. /\ \A h \in CoFrames \ {f} : co'[h].state = co[h].state /\ Kept(co[h], co'[h])
      /\ Kept(co[f], co'[f]) /\ co'[f].state = "active"
  BY <1>1, ActiveFrame, UntouchedAlike DEF Alike, AwaitResumes
<1>3. PICK D \in SUBSET CoFrames : D = {}
  OBVIOUS
<1>4. InControl(f)
  BY <1>1 DEF InControl, Control
<1> QED
  BY <1>1, <1>2, <1>3, <1>4, AlikeHears

\* A resumed frame that was due keeps it: it awaits nobody.
LEMMA ResumeHears ==
  ASSUME CoInv, HearInv, NEW f \in CoFrames, running = Nobody, ResumeFrame(f), Due(f),
         intact' = intact
  PROVE  HearInv'
<1>1. /\ running' = f /\ CoTypes /\ co[f].state # "awaiting"
      /\ (InControl(f) \/ co[f].prev = Nobody)
  BY Asked DEF ResumeFrame, CoInv, Due, Owners, InControl, Control
<1>2. /\ \A h \in CoFrames \ {f} : co'[h].state = co[h].state /\ Kept(co[h], co'[h])
      /\ Kept(co[f], co'[f]) /\ co'[f].state = "active"
  BY <1>1, ActiveFrame, UntouchedAlike DEF Alike, ResumeFrame
<1>3. PICK D \in SUBSET CoFrames : D = {}
  OBVIOUS
<1> QED
  BY <1>1, <1>2, <1>3, AlikeHears, NobodyIsNoFrame

\* Drop keeps it: nobody that goes awaits or is awaited.
LEMMA DropHears ==
  ASSUME CoInv, HearInv, NEW f \in CoFrames, Drop(f)
  PROVE  HearInv'
<1>1. PICK D : /\ Taken(D) /\ f \notin D /\ intact' = intact
               /\ \A h \in D : co'[h] = Buried
               /\ \A h \in CoFrames \ D : Alike(co[h], co'[h])
  BY DropFrames
<1>2. running = f /\ running' = f /\ co[f].state = "active"
  BY DEF Drop, Step
<1>3. /\ D \in SUBSET CoFrames
      /\ \A h \in D : co'[h].state \notin Control /\ co[h].state # "awaiting"
  BY <1>1, BuriedFields DEF Taken, Idle, MayGo, Control
<1> QED
  BY <1>1, <1>2, <1>3, AlikeHears DEF Alike

\* RootEnds keeps it for the same reason.
LEMMA RootEndsHears ==
  ASSUME CoInv, HearInv, NEW f \in CoFrames, RootEnds(f)
  PROVE  HearInv'
<1>1. PICK D : /\ D \in SUBSET CoFrames /\ f \in D /\ D \subseteq Idle \cup {f} /\ intact' = intact
               /\ \A h \in D : co'[h] = Buried
               /\ \A h \in CoFrames \ D : co'[h] = co[h]
  BY RootEndsFrames
<1>2. running = f /\ running' = Nobody /\ co[f].state = "active"
  BY DEF RootEnds, Step
<1>3. \A h \in D : co'[h].state \notin Control /\ co[h].state # "awaiting"
  BY <1>1, <1>2, BuriedFields DEF Idle, MayGo, Control
<1>4. \A h \in CoFrames \ D : Alike(co[h], co'[h])
  BY <1>1, UntouchedAlike
<1>5. \A h \in CoFrames : co'[h].state = "awaiting" => (running' = h <=> running = h)
  BY <1>1, <1>2, <1>3, NobodyIsNoFrame DEF Control
<1> QED
  BY <1>1, <1>2, <1>3, <1>4, <1>5, AlikeHears DEF Alike

\* RunJob keeps it.
LEMMA RunJobHears ==
  ASSUME CoInv, HearInv, RunJob
  PROVE  HearInv'
<1>1. running = Nobody /\ intact' = intact
  BY RunJobKeeps DEF RunJob
<1> QED
  BY <1>1, RunJobKeeps, ResumeHears, UntouchedHears

\* A body that awaits goes on knowing where its answer will be, and has none yet.
LEMMA AwaitHears ==
  ASSUME ~MixesAwaits, CoInv, HearInv, NEW f \in CoFrames, NEW g \in CoFrames,
         NEW kind \in {"value", "safe", "next"}, Await(f, g, kind)
  PROVE  HearInv'
<1>1. /\ running = f /\ running' = g /\ intact' = intact /\ co[f].state = "active"
      /\ co[g].state \in {"created", "yielded"} /\ CoTypes
      /\ kind # "next" => co[g].generated = NoSlot
  BY DEF Await, Step, Awaitable, CoInv
<1>2. PICK number : number = co[f].awaitable.number + 1
  OBVIOUS
<1>3. /\ f # g
      /\ \A h \in CoFrames \ {f, g} : co'[h] = co[h]
      /\ co'[f].state = "awaiting" /\ co'[f].prev = co[f].prev
      /\ co'[f].result = co[f].result /\ co'[f].generated = co[f].generated
      /\ co'[f].awaitable.number = number /\ co'[f].awaitable.kind = kind
      /\ co'[f].awaitable.result = Nothing /\ co'[f].awaitable.gen = Nothing
      /\ co'[g].state = "active" /\ co'[g].prev = f /\ co'[g].result = <<f, number>>
      /\ co'[g].generated = IF kind = "next" THEN <<f, number>> ELSE co[g].generated
  BY <1>1, <1>2, AwaitFrames
<1>4. ASSUME NEW h \in CoFrames PROVE Pointed(h)'
  <2>1. CASE h = g
    BY <1>1, <1>3, <2>1 DEF Pointed
  <2>2. CASE h # g
    <3>1. SUFFICES ASSUME InControl(h)', co'[h].prev # Nobody PROVE Pointed(h)'
      BY DEF Pointed
    <3>2. InControl(h) /\ co[h].prev # Nobody
      BY <1>1, <1>3, <2>2, <3>1 DEF InControl, Control
    <3>3. co[h].prev \in CoFrames \ {f, g}
      BY <1>1, <3>2, Pointing DEF Stack
    <3>4. co'[co[h].prev] = co[co[h].prev]
      BY <1>3, <3>3
    <3>5. Pointed(h)
      BY Pointing
    <3>6. /\ co'[h].prev = co[h].prev /\ co'[h].result = co[h].result
          /\ co'[h].generated = co[h].generated
      BY <1>3, <2>2
    <3> QED
      BY <3>2, <3>4, <3>5, <3>6 DEF Pointed
  <2> QED
    BY <2>1, <2>2
<1>5. ASSUME NEW h \in CoFrames PROVE Listens(h)'
  <2>1. Listens(h)
    BY Pointing
  <2> QED
    BY <1>1, <1>3, <2>1 DEF Listens
<1> QED
  BY <1>1, <1>4, <1>5, Pointing DEF HearInv

\* The one that is answered listens, at the place the answer is written to.
LEMMA AnswerArrives ==
  ASSUME CoInv, HearInv, NEW f \in CoFrames, co[f].state = "active",
         running = f, co[f].prev # Nobody,
         NEW p, p = co[f].result[1]
  PROVE  /\ p = co[f].prev /\ p \in CoFrames /\ p # f /\ Points(co, co[f].result)
         /\ co[p].state = "awaiting" /\ co[p].awaitable.of = f
         /\ co[p].awaitable.gen = Nothing /\ co[p].awaitable.result = Nothing
         /\ co[f].generated = IF co[p].awaitable.kind = "next" THEN co[f].result ELSE NoSlot
<1>1. InControl(f) /\ CoTypes
  BY DEF InControl, Control, CoInv
<1>2. Stack(f) /\ Pointed(f)
  BY Pointing
<1>3. PICK q \in CoFrames : q = co[f].prev /\ co[q].state = "awaiting" /\ co[q].awaitable.of = f
  BY <1>1, <1>2 DEF Stack
<1>4. /\ co[f].result = <<q, co[q].awaitable.number>>
      /\ co[f].generated = IF co[q].awaitable.kind = "next" THEN co[f].result ELSE NoSlot
  BY <1>1, <1>2, <1>3 DEF Pointed
<1>5. Points(co, co[f].result)
  BY <1>3, <1>4, NobodyIsNoFrame DEF Points, NoSlot
<1>6. Listens(q) /\ q # f
  BY <1>3, Pointing
<1> QED
  BY <1>3, <1>4, <1>5, <1>6 DEF Listens

\* What else a frame is told leaves it: who has its answer from whom.
LEMMA OthersPointed ==
  ASSUME CoInv, HearInv, NEW f \in CoFrames, NEW h \in CoFrames, InControl(h),
         co[f].state = "active",
         co'[h].prev = co[h].prev, co'[h].result = co[h].result, co'[h].generated = co[h].generated,
         \A q \in CoFrames \ {f} : co[q].state = "awaiting"
           => /\ co'[q].awaitable.number = co[q].awaitable.number
              /\ co'[q].awaitable.kind = co[q].awaitable.kind
  PROVE  Pointed(h)'
<1>1. SUFFICES ASSUME co[h].prev # Nobody PROVE Pointed(h)'
  BY DEF Pointed
<1>2. Pointed(h) /\ Stack(h)
  BY Pointing
<1>3. PICK q \in CoFrames : q = co[h].prev /\ co[q].state = "awaiting"
  BY <1>1, <1>2 DEF Stack
<1>4. /\ co'[q].awaitable.number = co[q].awaitable.number
      /\ co'[q].awaitable.kind = co[q].awaitable.kind
  BY <1>3
<1> QED
  BY <1>1, <1>2, <1>3, <1>4 DEF Pointed

\* YieldValue keeps it: next() was asked for, so the value lies where it will be read.
LEMMA YieldHears ==
  ASSUME CoInv, HearInv, NEW f \in CoFrames, YieldValue(f)
  PROVE  HearInv'
<1>1. PICK slot : slot = co[f].generated
  OBVIOUS
<1>2. PICK p : p = slot[1]
  OBVIOUS
<1>3. PICK value : value = <<"yield", co[f].steps>>
  OBVIOUS
<1>4. /\ running = f /\ running' = co[f].prev /\ co[f].state = "active" /\ slot # NoSlot /\ CoTypes
      /\ intact' = (intact /\ Points(co, slot))
  BY <1>1 DEF YieldValue, Step, CoInv
<1>5. co[f].prev # Nobody
  BY <1>1, <1>4, Asked, NobodyIsNoFrame DEF Stack, InControl, Control
<1>6. /\ slot = co[f].result /\ p = co[f].prev /\ p \in CoFrames /\ p # f /\ Points(co, slot)
      /\ co[p].awaitable.of = f /\ co[p].awaitable.kind = "next" /\ co[p].state = "awaiting"
      /\ co[p].awaitable.result = Nothing
  BY <1>1, <1>2, <1>4, <1>5, AnswerArrives
<1>7. /\ \A h \in CoFrames \ {f} : h # p => co'[h] = co[h]
      /\ co'[f].state = "yielded" /\ co'[f].said = value
      /\ Hears(co[p], co'[p], value, co[p].awaitable.result)
  <2>1. /\ \A h \in CoFrames \ {f} : h # p \/ ~Points(co, slot) => co'[h] = co[h]
        /\ co'[f].state = "yielded" /\ co'[f].said = value
        /\ Points(co, slot) => Hears(co[p], co'[p], value, co[p].awaitable.result)
    BY <1>1, <1>2, <1>3, <1>4, YieldFrames
  <2> QED
    BY <1>6, <2>1
<1>8. ASSUME NEW h \in CoFrames PROVE Pointed(h)'
  <2>1. CASE h = f \/ ~InControl(h)
    BY <1>7, <2>1 DEF Pointed, InControl, Control, Hears
  <2>2. CASE h # f /\ InControl(h)
    <3>1. \A q \in CoFrames \ {f} :
            /\ co'[q].prev = co[q].prev /\ co'[q].result = co[q].result
            /\ co'[q].generated = co[q].generated
            /\ co'[q].awaitable.number = co[q].awaitable.number
            /\ co'[q].awaitable.kind = co[q].awaitable.kind
      BY <1>7 DEF Hears
    <3> QED
      BY <1>4, <2>2, <3>1, OthersPointed
  <2> QED
    BY <2>1, <2>2
<1>9. ASSUME NEW h \in CoFrames PROVE Listens(h)'
  <2>1. CASE h = p
    <3>1. /\ co'[h].awaitable.gen = value /\ co'[h].awaitable.kind = "next"
          /\ co'[h].awaitable.of = f
          /\ co'[h].awaitable.result = Nothing
      BY <1>6, <1>7, <2>1 DEF Hears
    <3>4. value # Nothing
      BY <1>3, CoFields, <1>4 DEF Nothing
    <3>2. Heard(co'[h].awaitable) = value
      BY <3>1, <3>4 DEF Heard
    <3>3. running' = h
      BY <1>4, <1>6, <2>1
    <3> QED
      BY <1>7, <3>1, <3>2, <3>3 DEF Listens
  <2>2. CASE h # p
    <3>1. Listens(h) /\ running' # h
      BY <1>4, <1>6, <2>2, Pointing
    <3> QED
      BY <1>4, <1>7, <2>2, <3>1 DEF Listens
  <2> QED
    BY <2>1, <2>2
<1>10. intact'
  BY <1>4, <1>6, Pointing
<1> QED
  BY <1>8, <1>9, <1>10 DEF HearInv

\* The end of an awaited coroutine keeps it: its awaiter finds the result and no value.
LEMMA FinishHears ==
  ASSUME CoInv, HearInv, NEW f \in CoFrames, NEW what \in {<<"value">>, <<"error">>},
         NEW kept \in SUBSET CoFrames, Finish(f, what, kept)
  PROVE  HearInv'
<1>1. PICK slot : slot = co[f].result
  OBVIOUS
<1>2. PICK p : p = slot[1]
  OBVIOUS
<1>3. /\ running = f /\ running' = co[f].prev /\ co[f].state = "active" /\ co[f].prev # Nobody
      /\ what \in CoWords
  BY DEF Finish, CoWords
<1>4. /\ p = co[f].prev /\ p \in CoFrames /\ p # f /\ Points(co, slot) /\ co[p].state = "awaiting"
      /\ co[p].awaitable.of = f
      /\ co[p].awaitable.gen = Nothing
  BY <1>1, <1>2, <1>3, AnswerArrives
<1>5. PICK D : /\ Taken(D) /\ f \notin D /\ kept \subseteq Idle
               /\ Points(co, slot) => p \notin D /\ p \notin kept
               /\ \A h \in D : co'[h] = Buried
               /\ \A h \in kept : co'[h].state = co[h].state
               /\ \A h \in CoFrames \ {f} :
                    h \notin D /\ h \notin kept /\ (h # p \/ ~Points(co, slot)) => co'[h] = co[h]
               /\ Points(co, slot) => Hears(co[p], co'[p], co[p].awaitable.gen, what)
               /\ co'[f].state = "done" /\ co'[f].said = what
               /\ intact' = (intact /\ Points(co, slot))
  BY <1>1, <1>2, <1>3, FinishFrames
<1>10. /\ p \notin D /\ p \notin kept /\ Hears(co[p], co'[p], co[p].awaitable.gen, what)
       /\ \A h \in CoFrames \ {f} : h \notin D /\ h \notin kept /\ h # p => co'[h] = co[h]
  BY <1>4, <1>5
<1>6. /\ \A h \in D : co'[h].state \notin Control /\ co[h].state \notin Control
      /\ \A h \in kept : co'[h].state \notin Control /\ co[h].state \notin Control
  BY <1>5, BuriedFields DEF Taken, Idle, MayGo, Control
<1>7. ASSUME NEW h \in CoFrames PROVE Pointed(h)'
  <2>1. CASE h = f \/ h \in D \/ h \in kept \/ ~InControl(h)
    BY <1>5, <1>10, <1>6, <2>1 DEF Pointed, InControl, Control, Hears
  <2>2. CASE h # f /\ h \notin D /\ h \notin kept /\ InControl(h)
    <3>1. \A q \in CoFrames \ {f} : q \notin D /\ q \notin kept =>
            /\ co'[q].prev = co[q].prev /\ co'[q].result = co[q].result
            /\ co'[q].generated = co[q].generated
            /\ co'[q].awaitable.number = co[q].awaitable.number
            /\ co'[q].awaitable.kind = co[q].awaitable.kind
      BY <1>5, <1>10 DEF Hears
    <3>2. \A q \in CoFrames : co[q].state = "awaiting" => q \notin D /\ q \notin kept
      BY <1>6 DEF Control
    <3> QED
      BY <1>3, <2>2, <3>1, <3>2, OthersPointed
  <2> QED
    BY <2>1, <2>2
<1>8. ASSUME NEW h \in CoFrames PROVE Listens(h)'
  <2>1. CASE h = p
    <3>1. /\ co'[h].awaitable.gen = Nothing /\ co'[h].awaitable.result = what
          /\ co'[h].awaitable.of = f
          /\ what # Nothing /\ what[1] # "yield"
      BY <1>4, <1>5, <1>10, <2>1 DEF Hears, Nothing
    <3>2. Heard(co'[h].awaitable) = what
      BY <3>1 DEF Heard
    <3>3. running' = h
      BY <1>3, <1>4, <2>1
    <3> QED
      BY <1>5, <3>1, <3>2, <3>3 DEF Listens
  <2>2. CASE h # p /\ (h = f \/ h \in D \/ h \in kept)
    BY <1>5, <1>6, <2>2 DEF Listens, Control
  <2>3. CASE h # p /\ h # f /\ h \notin D /\ h \notin kept
    <3>1. Listens(h) /\ running' # h /\ co'[h] = co[h]
      BY <1>3, <1>4, <1>10, <2>3, Pointing
    <3> QED
      BY <1>3, <2>3, <3>1 DEF Listens
  <2> QED
    BY <2>1, <2>2, <2>3
<1>9. intact'
  BY <1>4, <1>5, Pointing
<1> QED
  BY <1>7, <1>8, <1>9 DEF HearInv

-----------------------------------------------------------------------------
\* No frame exists at the start.
LEMMA InvAtStart == CoInit => CoInv
<1> SUFFICES ASSUME CoInit PROVE CoInv
  OBVIOUS
<1>1. /\ \A h \in CoFrames : co[h] = NoFrameYet
      /\ running = Nobody /\ waiter = Nobody /\ jobs = <<>> /\ intact = TRUE
  BY DEF CoInit
<1>2. /\ NoFrameYet.state = "none" /\ NoFrameYet.owner = Nobody
  BY DEF NoFrameYet
<1>3. CoTypes
  BY NewRecs DEF CoInit, CoTypes, CoPeople
<1>4. Rooted
  BY <1>1, <1>2, NobodyIsNoFrame DEF Rooted
<1>5. Chained
  BY <1>1, <1>2 DEF Chained
<1>6. Runs
  BY <1>1, <1>2 DEF Runs
<1>7. ASSUME NEW h \in CoFrames PROVE Owners(h) /\ Stack(h) /\ Waits(h)
  BY <1>1, <1>2 DEF Owners, Stack, Waits, Alive, InControl, Control
<1>8. ASSUME NEW h \in CoFrames PROVE ResumedOnce(h)
  <2>1. Resumes(jobs, h) = {}
    BY <1>1 DEF Resumes
  <2>2. Resumers(h) = 0
    BY <1>1, <1>3, <2>1, ResumersCount, FS_EmptySet, NobodyIsNoFrame
  <2> QED
    BY <1>1, <1>2, <2>2 DEF ResumedOnce, Due
<1> QED
  BY <1>3, <1>4, <1>5, <1>6, <1>7, <1>8 DEF CoInv

\* Every step keeps the invariant.
LEMMA InvStep == CoInv /\ [CoNext]_coVars => CoInv'
<1> SUFFICES ASSUME CoInv, [CoNext]_coVars PROVE CoInv'
  OBVIOUS
<1>1. CASE UNCHANGED coVars
  <2>1. /\ co' = co /\ running' = running /\ waiter' = waiter /\ jobs' = jobs /\ intact' = intact
    BY <1>1 DEF coVars
  <2>2. CoTypes' /\ \A h \in CoFrames : Shape(co[h], co'[h])
    BY <2>1, Shapes DEF CoInv, CoTypes
  <2>3. \A h \in CoFrames : ResumedOnce(h)'
    BY <2>1, <2>2, SameCount DEF Due
  <2> QED
    BY <2>1, <2>2, <2>3, SameShape
<1>2. CASE CoSpawn \/ NotifyWobj \/ RunJob
  BY <1>2, SpawnKeeps, NotifyKeeps, RunJobKeeps
<1>3. ASSUME NEW f \in CoFrames,
             \/ Call(f) \/ AwaitResumes(f) \/ YieldValue(f) \/ YieldIgnored(f)
             \/ RootEnds(f) \/ Drop(f) \/ Wait(f)
      PROVE  CoInv'
  BY <1>3, CallKeeps, AwaitResumesKeeps, YieldKeeps, SilentSteps,
     RootEndsKeeps, DropKeeps, WaitKeeps
<1>4. ASSUME NEW f \in CoFrames, ReturnValue(f) \/ UnhandledException(f)
      PROVE  CoInv'
  <2>1. <<"value">> \in CoWords /\ <<"error">> \in CoWords
    BY DEF CoWords
  <2>2. PICK what \in CoWords, kept \in SUBSET CoFrames : Finish(f, what, kept)
    BY <1>4, <2>1 DEF ReturnValue, UnhandledException
  <2> QED
    BY <2>2, FinishKeeps
<1>5. ASSUME NEW f \in CoFrames, NEW g \in CoFrames, NEW kind \in {"value", "safe", "next"},
             Await(f, g, kind)
      PROVE  CoInv'
  BY <1>5, AwaitKeeps
<1> QED
  BY <1>1, <1>2, <1>3, <1>4, <1>5 DEF CoNext

\* The invariant has one resumer for whoever is suspended.  When nothing is left to run,
\* nobody is due; then nobody awaits, as the chain of awaited frames would have no end;
\* and then no frame is there, as its chain of owners would have none.
LEMMA InvResumes == CoInv => ResumedExactlyOnce
<1> SUFFICES ASSUME CoInv PROVE ResumedExactlyOnce
  OBVIOUS
<1>1. \A f \in CoFrames : Resumers(f) = (IF Due(f) THEN 1 ELSE 0)
  BY Asked DEF ResumedOnce
<1>2. ASSUME NEW f \in CoFrames, co[f].state = "awaiting", running # f
      PROVE  /\ co[co[f].awaitable.of].prev = f
             /\ co[co[f].awaitable.of].state \in {"active", "awaiting", "waiting"}
  BY <1>2, Asked DEF Waits, InControl, Control
<1>3. \A f \in CoFrames : co[f].state = "active" => running = f
  BY DEF CoInv, Runs
<1>4. ASSUME running = Nobody, waiter = Nobody, jobs = <<>>
      PROVE  \A f \in CoFrames : co[f].state \in {"none", "destroyed"}
  <2>1. ASSUME NEW f \in CoFrames PROVE ~Due(f)
    <3>1. Resumes(jobs, f) = {}
      BY <1>4 DEF Resumes
    <3>2. Resumers(f) = 0
      BY <1>4, <3>1, ResumersCount, FS_EmptySet, NobodyIsNoFrame DEF CoInv
    <3> QED
      BY <1>1, <3>2
  <2>2. ASSUME NEW f \in CoFrames, InControl(f) PROVE co[f].state = "awaiting"
    BY <1>3, <1>4, <2>1, <2>2, NobodyIsNoFrame DEF InControl, Control, Due
  <2>3. \A f \in CoFrames : ~InControl(f)
    <3> DEFINE S == {f \in CoFrames : co[f].state = "awaiting"}
    <3>1. ASSUME NEW f \in S PROVE co[f].awaitable.of \in S
      BY <1>4, <2>2, Asked, NobodyIsNoFrame DEF Waits
    <3>2. S = {}
      <4>1. /\ S \in SUBSET CoFrames
            /\ \A h \in S : co[h].state = "awaiting" /\ co[h].awaitable.of \in S
        BY <3>1
      <4> HIDE DEF S
      <4> QED
        BY <4>1 DEF CoInv, Chained
    <3> QED
      BY <2>2, <3>2
  <2>4. \A f \in CoFrames : ~Alive(f)
    <3> DEFINE S == {f \in CoFrames : Alive(f)}
    <3>1. ASSUME NEW f \in S PROVE co[f].owner \in S
      <4>1. co[f].owner # Nobody
        BY <2>1, <2>3, Asked DEF Owners, Due
      <4> QED
        BY <4>1, Asked, CoFields DEF Owners, CoPeople, CoInv
    <3>2. S = {}
      <4>1. S \in SUBSET CoFrames /\ \A h \in S : co[h].owner \in S
        BY <3>1
      <4> HIDE DEF S
      <4> QED
        BY <4>1 DEF CoInv, Rooted
    <3> QED
      BY <3>2
  <2> QED
    BY <2>4 DEF Alive
<1> QED
  BY <1>1, <1>2, <1>3, <1>4 DEF ResumedExactlyOnce, Due

\* For every number of frames, steps, roots and jobs, and whatever bodies await: every
\* suspended coroutine has exactly one who resumes it, and a quiet strand has no frames.
THEOREM EachResumedOnce == CoSpec => []ResumedExactlyOnce
<1>1. CoInit => CoInv
  BY InvAtStart
<1>2. CoInv /\ [CoNext]_coVars => CoInv'
  BY InvStep
<1>3. CoInv => ResumedExactlyOnce
  BY InvResumes
<1> QED
  BY <1>1, <1>2, <1>3, PTL DEF CoSpec

\* Nobody has heard anything at the start.
LEMMA HearAtStart == CoInit => HearInv
<1> SUFFICES ASSUME CoInit PROVE HearInv
  OBVIOUS
<1>1. intact /\ \A h \in CoFrames : co[h] = NoFrameYet
  BY DEF CoInit
<1>2. NoFrameYet.state = "none"
  BY DEF NoFrameYet
<1> QED
  BY <1>1, <1>2 DEF HearInv, Pointed, Listens, InControl, Control

\* Every step keeps what is heard.
LEMMA HearStep == ~MixesAwaits /\ CoInv /\ HearInv /\ [CoNext]_coVars => HearInv'
<1> SUFFICES ASSUME ~MixesAwaits, CoInv, HearInv, [CoNext]_coVars PROVE HearInv'
  OBVIOUS
<1>1. CASE UNCHANGED coVars
  <2>1. co' = co /\ running' = running /\ intact' = intact
    BY <1>1 DEF coVars
  <2> QED
    BY <2>1, UntouchedHears
<1>2. CASE NotifyWobj
  <2>1. co' = co /\ running' = running /\ intact' = intact
    BY <1>2 DEF NotifyWobj
  <2> QED
    BY <2>1, UntouchedHears
<1>3. CASE CoSpawn \/ RunJob
  BY <1>3, SpawnHears, RunJobHears
<1>4. ASSUME NEW f \in CoFrames,
             \/ Call(f) \/ AwaitResumes(f) \/ YieldValue(f) \/ YieldIgnored(f)
             \/ RootEnds(f) \/ Drop(f) \/ Wait(f)
      PROVE  HearInv'
  BY <1>4, CallHears, AwaitResumesHears, YieldHears, IgnoredHears,
     RootEndsHears, DropHears, WaitHears
<1>5. ASSUME NEW f \in CoFrames, ReturnValue(f) \/ UnhandledException(f)
      PROVE  HearInv'
  <2>1. PICK what \in {<<"value">>, <<"error">>}, kept \in SUBSET CoFrames : Finish(f, what, kept)
    BY <1>5 DEF ReturnValue, UnhandledException
  <2> QED
    BY <2>1, FinishHears
<1>6. ASSUME NEW f \in CoFrames, NEW g \in CoFrames, NEW kind \in {"value", "safe", "next"},
             Await(f, g, kind)
      PROVE  HearInv'
  BY <1>6, AwaitHears
<1> QED
  BY <1>1, <1>2, <1>3, <1>4, <1>5, <1>6 DEF CoNext

\* As long as no body awaits the end of what it has called next() on, a coroutine hears
\* what the one it awaited said last, and no answer is written to an awaitable that is
\* gone.  Without the hypothesis this fails: see MixesAwaits in the README.
THEOREM AnswersAreHeard ==
  ASSUME ~MixesAwaits
  PROVE  CoSpec => []HearsWhatWasSaid
<1>1. CoInit => CoInv /\ HearInv
  BY InvAtStart, HearAtStart
<1>2. (CoInv /\ HearInv) /\ [CoNext]_coVars => (CoInv /\ HearInv)'
  BY InvStep, HearStep
<1>3. HearInv => HearsWhatWasSaid
  BY DEF HearInv, Listens, HearsWhatWasSaid
<1> QED
  BY <1>1, <1>2, <1>3, PTL DEF CoSpec

-----------------------------------------------------------------------------
(* DummySession, for queues of any capacity, any number of requests, tokens and *)
(* files, whichever operations fail.                                            *)
(*                                                                              *)
(* InStep speaks of the moments between two calls.  It follows from what is on  *)
(* its way in the others: a request, then frames of its stream, then one frame  *)
(* that ends it, which tells the client what the service made of its state.     *)
(* Everything rests on this order, and an abort breaks it.                      *)

\* The sequences of frames, kept folded in the proofs.
FrameSeq == Seq(FrameType)
Steps == {"push", "poll", "fetch", "fetchCheck", "load", "make", "tokens", "token", "ended"}

Places == {"connect", "idle", "initiate", "call", "stream", "abort", "closed"}

\* TypeOK, and that there is a token to push and an operation to initiate.
Types ==
  /\ in \in FrameSeq /\ Len(in) <= ToServer
  /\ out \in FrameSeq /\ Len(out) <= ToClient
  /\ closed \in BOOLEAN
  /\ at \in Steps
  /\ state \in States /\ reply \in FrameType /\ left \in 0..MaxTokens
  /\ client \in Places
  /\ op \in Ops \cup {"none"} /\ request \in 0..MaxRequests
  /\ known \in States \cup {"none"} /\ stale \in BOOLEAN /\ aborted \in BOOLEAN
  /\ at = "token" => left > 0
  /\ client = "initiate" => op \in Ops

\* Frames of the request in progress: one of its stream, and the one that ends it, an
\* error or a return that tells the client where the service is now.
Partial(f) == op \in Streamed /\ f.op = StreamFrame(op) /\ f.id = request
Final(f) ==
  /\ f.id = request
  /\ \/ f.op = "error" /\ state = known
     \/ f.op = ReturnFrame(op) /\ state = IF f.op = "state" THEN f.to ELSE known

AllPartial(n) == \A i \in 1..n : Partial(out[i])

\* How far the service is with the request in progress.
Requested == at = "poll" /\ in = <<Frame(op, request)>> /\ out = <<>> /\ state = known
Working ==
  /\ in = <<>> /\ AllPartial(Len(out)) /\ state = known /\ reply.id = request
  /\ \/ op = "load_model" /\ at \in {"fetch", "fetchCheck", "load", "make"}
     \/ op = "stream" /\ at \in {"tokens", "token"} /\ Final(reply)
Answering == in = <<>> /\ at = "push" /\ AllPartial(Len(out)) /\ Final(reply)
Answered ==
  /\ in = <<>> /\ at = "poll" /\ out # <<>>
  /\ AllPartial(Len(out) - 1) /\ Final(out[Len(out)])

Quiet == in = <<>> /\ out = <<>> /\ at = "poll" /\ state = known

\* Client and service agree, as long as the client has aborted nothing.
Agreed ==
  /\ ~stale
  /\ closed => client = "closed"
  /\ client = "connect" =>
       /\ in = <<>> /\ request = 0 /\ state = "dummy"
       /\ \/ at = "push" /\ out = <<>> /\ reply = StateChange("dummy", 0)
          \/ at = "poll" /\ out = <<StateChange("dummy", 0)>>
  /\ client = "idle" => Quiet
  /\ client = "initiate" => Quiet /\ op \in Accepts(known)
  /\ client \in {"call", "stream"} =>
       /\ client = "stream" <=> op \in Streamed
       /\ op \in Accepts(known)
       /\ Requested \/ Working \/ Answering \/ Answered

SessionInv == Types /\ (aborted \/ Agreed)

\* Frames.
LEMMA FramesAre ==
  /\ \A n \in Nat, o \in Ops \cup {"abort", "error", "progress", "token"} :
       Frame(o, n) \in FrameType
  /\ \A n \in Nat, s \in States : StateChange(s, n) \in FrameType
  /\ \A n \in Nat : \A o : Frame(o, n).op = o /\ Frame(o, n).id = n
  /\ \A n \in Nat : \A s : /\ StateChange(s, n).op = "state" /\ StateChange(s, n).id = n
                       /\ StateChange(s, n).to = s
  /\ \A f \in FrameType : /\ f.id \in Nat
                          /\ f.op \in Ops \cup {"abort", "error", "progress", "token", "state"}
                          /\ f.op = "state" => f.to \in States
BY DEF Frame, StateChange, FrameType, Ops, States

\* Sequences of frames.
LEMMA FrameSeqs ==
  /\ <<>> \in FrameSeq /\ Len(<<>>) = 0
  /\ \A s \in FrameSeq : Len(s) \in Nat /\ (s = <<>> <=> Len(s) = 0)
  /\ \A s \in FrameSeq : \A i \in 1..Len(s) : s[i] \in FrameType
  /\ \A s \in FrameSeq, f \in FrameType :
       /\ Append(s, f) \in FrameSeq /\ Len(Append(s, f)) = Len(s) + 1
       /\ \A i \in 1..Len(s) : Append(s, f)[i] = s[i]
       /\ Append(s, f)[Len(s) + 1] = f /\ Append(s, f) # <<>>
       /\ s = <<>> => Append(s, f) = <<f>>
  /\ \A s \in FrameSeq : s # <<>> =>
       /\ Head(s) \in FrameType /\ Head(s) = s[1]
       /\ Tail(s) \in FrameSeq /\ Len(Tail(s)) = Len(s) - 1
       /\ \A i \in 1..Len(s) - 1 : Tail(s)[i] = s[i + 1]
  /\ \A f \in FrameType : <<f>> # <<>> /\ Head(<<f>>) = f /\ Tail(<<f>>) = <<>> /\ Len(<<f>>) = 1
<1> HIDE DEF FrameType
<1>1. <<>> \in FrameSeq /\ Len(<<>>) = 0
  BY DEF FrameSeq
<1>2. \A s \in FrameSeq : Len(s) \in Nat /\ (s = <<>> <=> Len(s) = 0)
  BY DEF FrameSeq
<1>3. \A s \in FrameSeq : \A i \in 1..Len(s) : s[i] \in FrameType
  BY DEF FrameSeq
<1>4. ASSUME NEW s \in FrameSeq, NEW f \in FrameType
      PROVE  /\ Append(s, f) \in FrameSeq /\ Len(Append(s, f)) = Len(s) + 1
             /\ \A i \in 1..Len(s) : Append(s, f)[i] = s[i]
             /\ Append(s, f)[Len(s) + 1] = f /\ Append(s, f) # <<>>
             /\ s = <<>> => Append(s, f) = <<f>>
  <2>1. Append(s, f) \in FrameSeq
    BY DEF FrameSeq
  <2>2. Len(Append(s, f)) = Len(s) + 1
    BY DEF FrameSeq
  <2>3. \A i \in 1..Len(s) : Append(s, f)[i] = s[i]
    BY DEF FrameSeq
  <2>4. Append(s, f)[Len(s) + 1] = f
    BY DEF FrameSeq
  <2>5. s = <<>> => Append(s, f) = <<f>>
    OBVIOUS
  <2>6. Append(s, f) # <<>>
    <3>1. Len(Append(s, f)) # 0
      BY <1>2, <2>2
    <3> QED
      BY <1>1, <3>1
  <2> QED
    BY <2>1, <2>2, <2>3, <2>4, <2>5, <2>6
<1>5. ASSUME NEW s \in FrameSeq, s # <<>>
      PROVE  /\ Head(s) \in FrameType /\ Head(s) = s[1]
             /\ Tail(s) \in FrameSeq /\ Len(Tail(s)) = Len(s) - 1
             /\ \A i \in 1..Len(s) - 1 : Tail(s)[i] = s[i + 1]
  BY <1>5 DEF FrameSeq
<1>6. \A f \in FrameType : <<f>> # <<>> /\ Head(<<f>>) = f /\ Tail(<<f>>) = <<>> /\ Len(<<f>>) = 1
  OBVIOUS
<1> QED
  BY <1>1, <1>2, <1>3, <1>4, <1>5, <1>6

\* Types gives TypeOK and holds at first.
LEMMA TypesTypeOK == Types => TypeOK
BY DEF Types, TypeOK, FrameSeq, Steps, Places

\* Every step keeps the types.
LEMMA TypesInit == Init => Types
<1>1. <<>> \in FrameSeq /\ Len(<<>>) = 0
  BY FrameSeqs
<1>2. StateChange("dummy", 0) \in FrameType
  BY FramesAre DEF States
<1>3. 0 <= ToServer /\ 0 <= ToClient /\ 0 \in 0..MaxTokens /\ 0 \in 0..MaxRequests
  BY SessionAssumption
<1> QED
  BY <1>1, <1>2, <1>3 DEF Init, Types, Steps, Places, States

LEMMA TypesServer == ASSUME Types, Server PROVE Types'
<1> USE SessionAssumption
<1>1. reply.id \in Nat
  BY FramesAre DEF Types
<1>2. Frame("error", reply.id) \in FrameType /\ Frame("progress", reply.id) \in FrameType
      /\ Frame("token", reply.id) \in FrameType
  BY <1>1, FramesAre
<1>3. \A s \in States : StateChange(s, reply.id) \in FrameType
  BY <1>1, FramesAre
<1>4. \A f \in FrameType : Len(out) < ToClient =>
        Append(out, f) \in FrameSeq /\ Len(Append(out, f)) <= ToClient
  BY FrameSeqs DEF Types
<1>5. in # <<>> => Head(in) \in FrameType /\ Tail(in) \in FrameSeq /\ Len(Tail(in)) <= ToServer
  BY FrameSeqs DEF Types
<1>5a. left > 0 => left - 1 \in 0..MaxTokens
  BY DEF Types
<1>6. CASE SendReply
  BY <1>4, <1>6 DEF SendReply, Push, End, Types, Steps, clientVars
<1>7. CASE PollRequest
  <2>1. CASE in = <<>>
    BY <1>7, <2>1 DEF PollRequest, End, Types, Steps, clientVars
  <2>2. CASE in # <<>>
    <3>1. PICK f \in FrameType : f = Head(in)
      BY <1>5, <2>2
    <3>2. f.id \in Nat
      BY FramesAre
    <3>3. /\ \A o \in {"error", "run", "stream"} : Frame(o, f.id) \in FrameType
          /\ \A s \in States : StateChange(s, f.id) \in FrameType
      BY <3>2, FramesAre DEF Ops
    <3>4. Dispatch(f) /\ in' = Tail(in) /\ at = "poll" /\ UNCHANGED <<out, closed, clientVars>>
      BY <1>7, <2>2, <3>1 DEF PollRequest
    <3>5. /\ at' \in Steps \ {"token"} /\ state' \in States /\ reply' \in FrameType
          /\ left' \in 0..MaxTokens
      BY <3>3, <3>4 DEF Dispatch, LoadModel, CreateInstance, Run, StartStream, Reply, Types,
         Steps, States
    <3> QED
      BY <1>5, <2>2, <3>4, <3>5 DEF Types, clientVars
  <2> QED
    BY <2>1, <2>2
<1>8. CASE Fetch
  BY <1>2, <1>4, <1>5a, <1>8 DEF Fetch, Fail, Reply, Put, End, Types, Steps, clientVars
<1>9. CASE FetchCheck
  BY <1>2, <1>5, <1>9 DEF FetchCheck, AbortCheck, Fail, Reply, End, Types, Steps, clientVars
<1>10. CASE Load
  BY <1>2, <1>3, <1>4, <1>10 DEF Load, ModelReady, Reply, Put, End, Types, Steps, States, clientVars
<1>11. CASE Make
  BY <1>2, <1>3, <1>4, <1>11 DEF Make, ModelReady, Fail, Reply, Put, End, Types, Steps, States,
     clientVars
<1>12. CASE StreamLoop
  BY <1>2, <1>5, <1>12 DEF StreamLoop, AbortCheck, Fail, Reply, End, Types, Steps, clientVars
<1>13. CASE PushToken
  BY <1>2, <1>4, <1>5a, <1>13 DEF PushToken, Push, End, Types, Steps, clientVars
<1> QED
  BY <1>6, <1>7, <1>8, <1>9, <1>10, <1>11, <1>12, <1>13 DEF Server

LEMMA TypesClient == ASSUME Types, Calling \/ Request \/ CloseClient PROVE Types'
<1> USE SessionAssumption
<1>1. \A o \in Ops \cup {"abort"} : Len(in) < ToServer =>
        Append(in, Frame(o, request)) \in FrameSeq /\ Len(Append(in, Frame(o, request))) <= ToServer
  <2> TAKE o \in Ops \cup {"abort"}
  <2>1. request \in Nat
    BY DEF Types
  <2>2. Frame(o, request) \in FrameType
    BY <2>1, FramesAre
  <2> QED
    BY <2>2, FrameSeqs DEF Types
<1>2. out # <<>> => Head(out) \in FrameType /\ Tail(out) \in FrameSeq /\ Len(Tail(out)) <= ToClient
  BY FrameSeqs DEF Types
<1>3. ASSUME NEW f, out # <<>>, f = Head(out), Take(f), Learn(f) \/ UNCHANGED known,
             client' \in Places \ {"initiate"}, UNCHANGED <<op, request>>
      PROVE Types'
  <2>1. f \in FrameType /\ (f.op = "state" => f.to \in States)
    BY <1>2, <1>3, FramesAre
  <2>2. known' \in States \cup {"none"}
    BY <1>3, <2>1 DEF Learn, Types
  <2>3. stale' \in BOOLEAN
    BY <1>3 DEF Take, Types
  <2>4. client' = "initiate" => op' \in Ops
    BY <1>3 DEF Types
  <2> QED
    BY <1>2, <1>3, <2>2, <2>3, <2>4 DEF Take, Types, serverVars
<1>4. CASE Connect
  BY <1>3, <1>4 DEF Connect, Places
<1>5. CASE Request
  <2>1. op' \in Ops
    BY <1>5 DEF Request, Accepts, Ops
  <2> QED
    BY <1>5, <2>1 DEF Request, Types, Places, serverVars
<1>6. CASE Initiate
  BY <1>1, <1>6 DEF Initiate, Types, Places, serverVars
<1>7. CASE CallPoll
  BY <1>3, <1>7 DEF CallPoll, Places
<1>8. CASE StreamPoll
  BY <1>3, <1>8 DEF StreamPoll, Places, Types
<1>9. CASE Abort
  BY <1>1, <1>9 DEF Abort, Types, Places, serverVars
<1>10. CASE CloseClient
  BY <1>10 DEF CloseClient, Types, Places, serverVars
<1> QED
  BY <1>4, <1>5, <1>6, <1>7, <1>8, <1>9, <1>10 DEF Calling


\* What pushing a frame makes of a channel that holds parts of an answer only: such
\* a channel again when it is one more part, and in any case its last frame is the
\* one pushed, behind parts only.
LEMMA PushPartial ==
  ASSUME Types, AllPartial(Len(out)), NEW f \in FrameType, out' = Append(out, f),
         UNCHANGED <<op, request>>
  PROVE  /\ out' # <<>> /\ out'[Len(out')] = f
         /\ AllPartial(Len(out) - 1)'
         /\ Partial(f) => AllPartial(Len(out))'
<1>1. /\ Len(out') = Len(out) + 1 /\ Len(out) \in Nat
      /\ \A i \in 1..Len(out) : out'[i] = out[i]
      /\ out'[Len(out) + 1] = f
      /\ out' # <<>>
  BY FrameSeqs DEF Types
<1>2. \A i \in 1..Len(out) : Partial(out[i])'
  BY <1>1 DEF AllPartial, Partial
<1>3. AllPartial(Len(out) - 1)'
  BY <1>1, <1>2 DEF AllPartial
<1>4. ASSUME Partial(f) PROVE AllPartial(Len(out))'
  <2>1. Partial(out[Len(out)])'
    BY <1>1, <1>4 DEF Partial
  <2>2. \A i \in 1..Len(out') : i \in 1..Len(out) \/ i = Len(out')
    BY <1>1
  <2> QED
    BY <1>2, <2>1, <2>2 DEF AllPartial
<1> QED
  BY <1>1, <1>3, <1>4

\* A service that has nothing to do takes no step.
LEMMA QuietServer == ASSUME Quiet, ~closed PROVE ~Server
BY DEF Quiet, Server, SendReply, PollRequest, Fetch, FetchCheck, Load, Make, StreamLoop, PushToken

\* The answer the service is about to give: the steps of a request from its poll to
\* the push of what ends it.
LEMMA RequestServer ==
  ASSUME Types, ~closed, Requested \/ Working \/ Answering \/ Answered,
         op \in Accepts(known), Server
  PROVE  (Requested \/ Working \/ Answering \/ Answered)'
<1>1. /\ UNCHANGED <<closed, op, request, known>>
      /\ request \in Nat /\ op \in Ops /\ state \in States
  <2>1. UNCHANGED <<closed, op, request, known>>
    BY DEF Server, SendReply, PollRequest, Fetch, FetchCheck, Load, Make, StreamLoop,
           PushToken, clientVars
  <2> QED
    BY <2>1 DEF Types, Accepts, Ops
<1>2. CASE Requested
  <2>1. PollRequest
    BY <1>2 DEF Requested, Server, SendReply, Fetch, FetchCheck, Load, Make, StreamLoop, PushToken
  <2>2. Frame(op, request) \in FrameType
    BY <1>1, FramesAre
  <2>3. in # <<>> /\ Head(in) = Frame(op, request) /\ Tail(in) = <<>>
    BY <1>2, <2>2, FrameSeqs DEF Requested
  <2>4. PICK f \in FrameType : f = Frame(op, request)
    BY <2>2
  <2>5. f.op = op /\ f.id = request
    BY <1>1, <2>4, FramesAre
  <2>6. in' = <<>> /\ Dispatch(f) /\ out' = <<>> /\ state = known
    BY <1>2, <2>1, <2>3, <2>4 DEF PollRequest, Requested
  <2>7. AllPartial(Len(out))'
    BY <2>6, FrameSeqs DEF AllPartial
  <2>8. CASE LoadModel(request) /\ op = "load_model"
    <3>1. reply'.id = request
      BY <1>1, <2>8, FramesAre DEF LoadModel
    <3> QED
      BY <1>1, <2>6, <2>7, <2>8, <3>1 DEF LoadModel, Working
  <2>9. CASE CreateInstance(request) /\ op = "create_instance"
    <3>1. reply'.op = "state" /\ reply'.id = request /\ reply'.to = "instance"
      BY <1>1, <2>9, FramesAre DEF CreateInstance, Reply, States
    <3> QED
      BY <1>1, <2>6, <2>7, <2>9, <3>1 DEF CreateInstance, Reply, Answering, Final, ReturnFrame
  <2>10. CASE Run(request) /\ op = "run"
    <3>1. reply'.op = "run" /\ reply'.id = request
      BY <1>1, <2>10, FramesAre DEF Run, Reply
    <3> QED
      BY <1>1, <2>6, <2>7, <2>10, <3>1 DEF Run, Reply, Answering, Final, ReturnFrame
  <2>11. CASE StartStream(request) /\ op = "stream"
    <3>1. reply'.op = "stream" /\ reply'.id = request
      BY <1>1, <2>11, FramesAre DEF StartStream
    <3> QED
      BY <1>1, <2>6, <2>7, <2>11, <3>1 DEF StartStream, Working, Final, ReturnFrame
  <2>12. CASE Reply(Frame("error", request)) /\ UNCHANGED <<state, left>>
    <3>1. reply'.op = "error" /\ reply'.id = request
      BY <1>1, <2>12, FramesAre DEF Reply
    <3> QED
      BY <1>1, <2>6, <2>7, <2>12, <3>1 DEF Reply, Answering, Final
  <2> QED
    BY <2>5, <2>6, <2>8, <2>9, <2>10, <2>11, <2>12 DEF Dispatch
<1>3. CASE Working
  <2>1. /\ in = <<>> /\ AllPartial(Len(out)) /\ state = known /\ reply.id = request
        /\ at \notin {"push", "poll"}
    BY <1>3 DEF Working
  <2>2. /\ Frame("progress", request) \in FrameType /\ Frame("token", request) \in FrameType
        /\ op = "load_model" => Partial(Frame("progress", request))
        /\ op = "stream" => Partial(Frame("token", request))
    BY <1>1, FramesAre DEF Partial, Streamed, StreamFrame
  <2>3. ASSUME UNCHANGED out PROVE AllPartial(Len(out))'
    BY <1>1, <2>1, <2>3 DEF AllPartial, Partial
  <2>4. ASSUME NEW f \in FrameType, Partial(f), out' = Append(out, f) PROVE AllPartial(Len(out))'
    BY <1>1, <2>1, <2>4, PushPartial
  <2>5. ASSUME op = "load_model", NEW ACTION next, Put(Frame("progress", reply.id), next)
        PROVE  AllPartial(Len(out))' /\ next
    BY <2>1, <2>2, <2>3, <2>4, <2>5 DEF Put
  <2>6. ASSUME Fail, AllPartial(Len(out))', in' = in PROVE Answering'
    <3>1. reply'.op = "error" /\ reply'.id = request
      BY <1>1, <2>1, <2>6, FramesAre DEF Fail, Reply
    <3> QED
      BY <1>1, <2>1, <2>6, <3>1 DEF Fail, Reply, Answering, Final
  <2>7. ASSUME ModelReady, op = "load_model", AllPartial(Len(out))', in' = in PROVE Answering'
    <3>1. reply'.op = "state" /\ reply'.id = request /\ reply'.to = "model_loaded"
      BY <1>1, <2>1, <2>7, FramesAre DEF ModelReady, Reply, States
    <3> QED
      BY <1>1, <2>1, <2>7, <3>1 DEF ModelReady, Reply, Answering, Final, ReturnFrame
  <2>8. CASE Fetch
    <3>1. op = "load_model" /\ in' = in
      BY <1>3, <2>8 DEF Working, Fetch
    <3>2. CASE Fail /\ UNCHANGED out
      BY <2>3, <2>6, <3>1, <3>2
    <3>3. CASE at' \in {"load", "fetchCheck"} /\ UNCHANGED <<state, reply>> /\ AllPartial(Len(out))'
      BY <1>1, <2>1, <3>1, <3>3 DEF Working
    <3> QED
      BY <2>3, <2>5, <2>8, <3>1, <3>2, <3>3 DEF Fetch
  <2>9. CASE FetchCheck
    <3>1. op = "load_model" /\ UNCHANGED <<in, out>> /\ at' = "fetch" /\ UNCHANGED <<state, reply>>
      BY <1>3, <2>1, <2>9 DEF Working, FetchCheck, AbortCheck
    <3> QED
      BY <1>1, <2>1, <2>3, <3>1 DEF Working
  <2>10. CASE Load
    <3>1. op = "load_model" /\ in' = in
      BY <1>3, <2>10 DEF Working, Load
    <3>2. /\ AllPartial(Len(out))'
          /\ ModelReady \/ (at' = "make" /\ UNCHANGED <<state, reply, left>>)
      BY <2>5, <2>10, <3>1 DEF Load
    <3> QED
      BY <1>1, <2>1, <2>7, <3>1, <3>2 DEF Working
  <2>11. CASE Make
    <3>1. op = "load_model" /\ in' = in
      BY <1>3, <2>11 DEF Working, Make
    <3>2. AllPartial(Len(out))' /\ (ModelReady \/ Fail)
      BY <2>5, <2>11, <3>1 DEF Make
    <3> QED
      BY <2>6, <2>7, <3>1, <3>2
  <2>12. CASE StreamLoop
    <3>1. op = "stream" /\ Final(reply) /\ UNCHANGED <<in, out>>
      BY <1>3, <2>1, <2>12 DEF Working, StreamLoop, AbortCheck
    <3>2. AllPartial(Len(out))'
      BY <2>3, <3>1
    <3>3. CASE Fail
      BY <2>6, <3>1, <3>2, <3>3
    <3>4. CASE at' \in {"push", "token"} /\ UNCHANGED <<state, reply>>
      BY <1>1, <2>1, <3>1, <3>2, <3>4 DEF Working, Answering, Final
    <3> QED
      BY <2>1, <2>12, <3>3, <3>4 DEF StreamLoop, AbortCheck
  <2>13. CASE PushToken
    <3>1. op = "stream" /\ Final(reply) /\ in' = in
      BY <1>3, <2>13 DEF Working, PushToken
    <3>2. /\ out' = Append(out, Frame("token", request)) /\ at' = "tokens"
          /\ UNCHANGED <<state, reply>>
      BY <2>1, <2>13 DEF PushToken, Push
    <3>3. AllPartial(Len(out))'
      BY <2>2, <2>4, <3>1, <3>2
    <3> QED
      BY <1>1, <2>1, <3>1, <3>2, <3>3 DEF Working, Final
  <2> QED
    BY <2>1, <2>8, <2>9, <2>10, <2>11, <2>12, <2>13 DEF Server, SendReply, PollRequest
<1>4. CASE Answering
  <2>1. SendReply
    BY <1>4 DEF Answering, Server, PollRequest, Fetch, FetchCheck, Load, Make, StreamLoop, PushToken
  <2>2. /\ out' = Append(out, reply) /\ at' = "poll" /\ UNCHANGED <<in, state, reply>>
        /\ reply \in FrameType
    BY <2>1 DEF SendReply, Push, Types
  <2>3. out' # <<>> /\ out'[Len(out')] = reply /\ AllPartial(Len(out) - 1)'
    BY <1>1, <1>4, <2>2, PushPartial DEF Answering
  <2>4. Final(out[Len(out)])'
    BY <1>1, <1>4, <2>2, <2>3 DEF Answering, Final
  <2> QED
    BY <1>4, <2>2, <2>3, <2>4 DEF Answering, Answered
<1>5. CASE Answered
  BY <1>5 DEF Answered, Server, SendReply, PollRequest, Fetch, FetchCheck, Load, Make, StreamLoop,
     PushToken
<1> QED
  BY <1>2, <1>3, <1>4, <1>5

\* A step of the service leaves the two in step.
LEMMA ServerAgrees == ASSUME Types, Agreed, Server PROVE Agreed'
<1>1. UNCHANGED clientVars /\ UNCHANGED closed
  BY DEF Server, SendReply, PollRequest, Fetch, FetchCheck, Load, Make, StreamLoop, PushToken
<1>2. CASE client \in {"abort", "closed"}
  BY <1>1, <1>2 DEF Agreed, clientVars
<1>3. CASE client \in {"idle", "initiate"}
  BY <1>3, QuietServer DEF Agreed
<1>4. CASE client = "connect"
  <2>1. at # "poll" /\ ~closed /\ at = "push" /\ out = <<>> /\ reply = StateChange("dummy", 0)
    BY <1>4 DEF Agreed, Server, SendReply, PollRequest, Fetch, FetchCheck, Load, Make, StreamLoop,
       PushToken
  <2>2. SendReply
    BY <2>1 DEF Server, PollRequest, Fetch, FetchCheck, Load, Make, StreamLoop, PushToken
  <2>3. out' = <<reply>>
    BY <2>1, <2>2, FrameSeqs DEF SendReply, Push, Types
  <2> QED
    BY <1>1, <1>4, <2>1, <2>2, <2>3 DEF SendReply, Push, Agreed, clientVars
<1>5. CASE client \in {"call", "stream"}
  <2>1. ~closed
    BY <1>5 DEF Agreed
  <2>2. (Requested \/ Working \/ Answering \/ Answered)'
    BY <1>5, <2>1, RequestServer DEF Agreed
  <2> QED
    BY <1>1, <1>5, <2>1, <2>2 DEF Agreed, clientVars
<1> QED
  BY <1>2, <1>3, <1>4, <1>5 DEF Types, Places

\* What taking a frame leaves of a channel of parts, or of parts with an answer.
LEMMA TakePartial ==
  ASSUME Types, out # <<>>, out' = Tail(out), UNCHANGED <<op, request>>
  PROVE  /\ AllPartial(Len(out)) => Partial(Head(out)) /\ AllPartial(Len(out))'
         /\ AllPartial(Len(out) - 1) /\ out' # <<>> =>
              Partial(Head(out)) /\ AllPartial(Len(out) - 1)' /\ out'[Len(out')] = out[Len(out)]
         /\ out' = <<>> => Head(out) = out[Len(out)]
<1>1. /\ Len(out) \in Nat \ {0} /\ Len(out') = Len(out) - 1 /\ Head(out) = out[1]
      /\ \A i \in 1..Len(out) - 1 : out'[i] = out[i + 1]
      /\ out' = <<>> <=> Len(out') = 0
  BY FrameSeqs DEF Types
<1>2. ASSUME AllPartial(Len(out)) PROVE Partial(Head(out)) /\ AllPartial(Len(out))'
  <2>1. Partial(out[1])
    BY <1>1, <1>2 DEF AllPartial
  <2>2. \A i \in 1..Len(out) - 1 : Partial(out[i + 1])
    BY <1>1, <1>2 DEF AllPartial
  <2>3. \A i \in 1..Len(out') : Partial(out[i])'
    BY <1>1, <2>2 DEF Partial
  <2> QED
    BY <1>1, <2>1, <2>3 DEF AllPartial
<1>3. ASSUME AllPartial(Len(out) - 1), out' # <<>>
      PROVE  /\ Partial(Head(out)) /\ AllPartial(Len(out) - 1)'
             /\ out'[Len(out')] = out[Len(out)]
  <2>1. Len(out) - 1 \in Nat \ {0}
    BY <1>1, <1>3
  <2>2. Partial(out[1])
    BY <1>3, <2>1 DEF AllPartial
  <2>3. \A i \in 1..Len(out) - 2 : Partial(out[i + 1])
    BY <1>3, <2>1 DEF AllPartial
  <2>4. \A i \in 1..Len(out') - 1 : Partial(out[i])'
    BY <1>1, <2>1, <2>3 DEF Partial
  <2>5. out'[Len(out')] = out[Len(out)]
    BY <1>1, <2>1
  <2> QED
    BY <1>1, <2>2, <2>4, <2>5 DEF AllPartial
<1>4. ASSUME out' = <<>> PROVE Head(out) = out[Len(out)]
  BY <1>1, <1>4
<1> QED
  BY <1>2, <1>3, <1>4

\* A frame that ends a request tells the client where the service is.
LEMMA LearnFinal ==
  ASSUME NEW f, Final(f), op \in Ops, UNCHANGED state,
         IF f.op = ReturnFrame(op) THEN Learn(f) ELSE UNCHANGED known
  PROVE  state' = known'
BY DEF Final, Learn, ReturnFrame, Ops

\* A step of the client leaves the two in step, or is its first abort.
LEMMA ClientAgrees ==
  ASSUME Types, Agreed, ~aborted, Calling \/ Request \/ CloseClient
  PROVE  (aborted \/ Agreed)'
<1>1. CASE Connect
  <2>1. /\ out = <<StateChange("dummy", 0)>> /\ in = <<>> /\ request = 0
        /\ state = "dummy" /\ at = "poll" /\ ~closed /\ ~stale
    BY <1>1 DEF Connect, Agreed
  <2>2. PICK f \in FrameType : f = StateChange("dummy", 0)
    <3>1. StateChange("dummy", 0) \in FrameType
      BY FramesAre DEF States
    <3> QED
      BY <3>1
  <2>3. f.op = "state" /\ f.id = 0 /\ f.to = "dummy"
    BY <2>2, FramesAre
  <2>4. Head(out) = f /\ Tail(out) = <<>>
    BY <2>1, <2>2, FrameSeqs
  <2>5. Take(f) /\ Learn(f) /\ client' = "idle" /\ UNCHANGED <<op, request>>
    BY <1>1, <2>4 DEF Connect
  <2> QED
    BY <2>1, <2>3, <2>4, <2>5 DEF Take, Learn, Agreed, Quiet, serverVars
<1>2. CASE Request
  BY <1>2 DEF Request, Agreed, Quiet, serverVars
<1>3. CASE Initiate
  <2>1. in' = <<Frame(op, request)>>
    <3>1. Frame(op, request) \in FrameType
      BY <1>3, FramesAre DEF Initiate, Types
    <3> QED
      BY <1>3, <3>1, FrameSeqs DEF Initiate, Agreed, Quiet
  <2>2. Requested'
    BY <1>3, <2>1 DEF Initiate, Agreed, Quiet, Requested, serverVars
  <2> QED
    BY <1>3, <2>2 DEF Initiate, Agreed, serverVars
<1>4. CASE CallPoll
  <2>1. /\ client = "call" /\ out # <<>> /\ op \notin Streamed /\ op \in Ops /\ ~closed /\ ~stale
        /\ Requested \/ Working \/ Answering \/ Answered
    BY <1>4 DEF CallPoll, Agreed, Accepts, Ops
  <2>2. PICK f : f = Head(out)
    OBVIOUS
  <2>3. Take(f) /\ (IF f.op = ReturnFrame(op) THEN Learn(f) ELSE UNCHANGED known)
        /\ client' = "idle" /\ UNCHANGED <<op, request>>
    BY <1>4, <2>2 DEF CallPoll
  <2>4. out' = Tail(out)
    BY <2>2, <2>3 DEF Take
  <2>5. Answered /\ out' = <<>>
    BY <2>1, <2>3, <2>4, TakePartial DEF Requested, Working, Answering, Answered, Partial
  <2>6. Final(f)
    BY <2>1, <2>2, <2>3, <2>4, <2>5, TakePartial DEF Answered
  <2>7. state' = known'
    <3>1. UNCHANGED state
      BY <2>3 DEF Take, serverVars
    <3> QED
      BY <2>1, <2>3, <2>6, <3>1, LearnFinal
  <2> QED
    BY <2>1, <2>3, <2>5, <2>6, <2>7 DEF Take, Answered, Final, Agreed, Quiet, serverVars
<1>5. CASE StreamPoll
  <2>1. /\ client = "stream" /\ out # <<>> /\ op \in Streamed /\ op \in Accepts(known) /\ op \in Ops
        /\ ~closed /\ ~stale
        /\ Requested \/ Working \/ Answering \/ Answered
    BY <1>5 DEF StreamPoll, Agreed, Streamed, Ops
  <2>2. PICK f : f = Head(out)
    OBVIOUS
  <2>3. /\ Take(f) /\ UNCHANGED <<op, request>>
        /\ \/ f.op = StreamFrame(op) /\ UNCHANGED known /\ client' \in {"stream", "abort"}
           \/ f.op = ReturnFrame(op) /\ Learn(f) /\ client' = "idle"
           \/ f.op \notin {StreamFrame(op), ReturnFrame(op)} /\ client' = "abort" /\ UNCHANGED known
    BY <1>5, <2>2 DEF StreamPoll
  <2>4. out' = Tail(out)
    BY <2>2, <2>3 DEF Take
  <2>5. CASE Answered /\ out' = <<>>
    <3>1. Final(f)
      BY <2>1, <2>2, <2>3, <2>4, <2>5, TakePartial DEF Answered
    <3>2. f.op # StreamFrame(op)
      BY <2>1, <3>1 DEF Final, ReturnFrame, StreamFrame, Streamed
    <3>3. state' = known' \/ client' = "abort"
      <4>1. UNCHANGED state
        BY <2>3 DEF Take, serverVars
      <4> QED
        BY <2>1, <2>3, <3>1, <3>2, <4>1, LearnFinal
    <3> QED
      BY <2>1, <2>3, <2>5, <3>1, <3>2, <3>3 DEF Take, Answered, Final, Agreed, Quiet, serverVars
  <2>6. CASE ~(Answered /\ out' = <<>>)
    <3>1. Partial(f) /\ (Working \/ Answering \/ Answered)'
      <4>1. /\ UNCHANGED <<in, at, state, reply, left, op, request>>
        BY <2>3 DEF Take, serverVars
      <4>2. known' = known
        <5>1. Partial(f)
          BY <2>1, <2>2, <2>3, <2>4, <2>6, TakePartial DEF Requested, Working, Answering, Answered
        <5> QED
          BY <2>1, <2>3, <5>1 DEF Partial, ReturnFrame, StreamFrame, Streamed
      <4>3. CASE Working
        BY <2>1, <2>2, <2>3, <2>4, <4>1, <4>2, <4>3, TakePartial DEF Working, Final
      <4>4. CASE Answering
        BY <2>1, <2>2, <2>3, <2>4, <4>1, <4>2, <4>4, TakePartial DEF Answering, Final
      <4>5. CASE Answered
        BY <2>1, <2>2, <2>3, <2>4, <2>6, <4>1, <4>2, <4>5, TakePartial DEF Answered, Final
      <4> QED
        BY <2>1, <4>3, <4>4, <4>5 DEF Requested
    <3>2. f.id = request /\ known' = known /\ client' \in {"stream", "abort"}
      BY <2>1, <2>3, <3>1 DEF Partial, ReturnFrame, StreamFrame, Streamed
    <3> QED
      BY <2>1, <2>3, <3>1, <3>2 DEF Take, Agreed, serverVars
  <2> QED
    BY <2>5, <2>6
<1>6. CASE Abort
  BY <1>6 DEF Abort
<1>7. CASE CloseClient
  BY <1>7 DEF CloseClient, Agreed
<1> QED
  BY <1>1, <1>2, <1>3, <1>4, <1>5, <1>6, <1>7 DEF Calling

\* The invariant holds at first and after every step.
LEMMA SessionInvInit == Init => SessionInv
BY TypesInit DEF Init, SessionInv, Agreed

LEMMA SessionInvNext == SessionInv /\ [Next]_vars => SessionInv'
<1> SUFFICES ASSUME SessionInv, [Next]_vars PROVE SessionInv'
  OBVIOUS
<1>1. CASE UNCHANGED vars
  BY <1>1 DEF vars, serverVars, clientVars, SessionInv, Types, Agreed, Quiet, Requested, Working,
              Answering, Answered, AllPartial, Partial, Final
<1>2. CASE Next
  <2>1. Types'
    BY <1>2, TypesServer, TypesClient DEF Next, SessionInv
  <2>2. CASE aborted
    <3>1. aborted'
      BY <1>2, <2>2 DEF Next, Server, SendReply, PollRequest, Fetch, FetchCheck, Load, Make,
                       StreamLoop, PushToken, Calling, Connect, Initiate, CallPoll, StreamPoll,
                       Abort, Request, CloseClient, Take, clientVars
    <3> QED
      BY <2>1, <3>1 DEF SessionInv
  <2>3. CASE ~aborted
    BY <1>2, <2>1, <2>3, ServerAgrees, ClientAgrees DEF Next, SessionInv
  <2> QED
    BY <2>2, <2>3
<1> QED
  BY <1>1, <1>2

\* The variables of a session keep their types.
THEOREM SessionTypes == Spec => []TypeOK
<1>1. SessionInv => TypeOK
  BY TypesTypeOK DEF SessionInv
<1> QED
  BY <1>1, SessionInvInit, SessionInvNext, PTL DEF Spec

\* Until the client pushes an abort it takes no frame made for another request, and
\* between two calls client and service agree on the state and both channels are empty.
THEOREM StaysInStep == Spec => []InStep
<1>1. SessionInv => InStep
  BY DEF SessionInv, Agreed, Quiet, InStep
<1> QED
  BY <1>1, SessionInvInit, SessionInvNext, PTL DEF Spec
=============================================================================
