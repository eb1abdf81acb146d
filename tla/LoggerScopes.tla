---------------------------- MODULE LoggerScopes -----------------------------
(***************************************************************************)
(* jalog::Logger and its scopes: threads log through scopes while the      *)
(* logger is initialized, which gives the scopes their sinks, and while    *)
(* other scopes come and go.  The logger works under its mutex; a scope is *)
(* read without it, its level with acquire and written with release, its   *)
(* span of sinks as it is.                                                 *)
(***************************************************************************)
EXTENDS Integers, SequencesExt

CONSTANTS
  LogScopes,     \* the scopes of the program
  LogThreads,    \* threads that log through them
  LogSinks,      \* sinks, as a sequence: the order in which they are added
  LevelsEarly    \* whether a level may be set before the logger is initialized

\* A free slot of the registry.
NoScope == "no scope"

ASSUME LoggerAssumption ==
  LogSinks \in Seq(STRING) /\ LevelsEarly \in BOOLEAN /\ NoScope \notin LogScopes

VARIABLES
  logger,        \* m_sinks, m_scopeSinks, m_initialized and m_defaultLevel
  registry,      \* m_scopes, the sparse vector
  scope,         \* per scope: alive, m_level and m_sinks
  initializing,  \* how far initialize() is: NotRunning, or a slot and what it sets there
  logging        \* per thread: the entry it is adding

lgVars == <<logger, registry, scope, initializing, logging>>

\* Levels of entries, and the one no entry has.
EntryLevels == 0..1
Off == 2
NotRunning == <<0, "">>

NotAlive == [alive |-> FALSE, level |-> 0, sinks |-> <<>>]
NotLogging == [at |-> "idle", scope |-> NoScope, left |-> <<>>, recorded |-> <<>>]

LgInit ==
  /\ logger = [sinks |-> <<>>, scopeSinks |-> <<>>, initialized |-> FALSE, level |-> 0]
  /\ registry = <<>> /\ initializing = NotRunning
  /\ scope = [s \in LogScopes |-> NotAlive]
  /\ logging = [t \in LogThreads |-> NotLogging]

-----------------------------------------------------------------------------
(* The logger.  initialize() holds the mutex from its first step to its last *)

MutexFree == initializing = NotRunning

AddSink ==
  /\ MutexFree /\ ~logger.initialized /\ Len(logger.sinks) < Len(LogSinks)
  /\ logger' = [logger EXCEPT !.sinks = SubSeq(LogSinks, 1, Len(@) + 1)]
  /\ UNCHANGED <<registry, scope, initializing, logging>>

SetDefaultLevel ==
  /\ MutexFree
  /\ \E l \in EntryLevels : logger' = [logger EXCEPT !.level = l]
  /\ UNCHANGED <<registry, scope, initializing, logging>>

Initialize ==
  /\ MutexFree /\ ~logger.initialized
  /\ logger' = [logger EXCEPT !.initialized = TRUE, !.scopeSinks = logger.sinks]
  /\ initializing' = <<1, "sinks">>
  /\ UNCHANGED <<registry, scope, logging>>

\* Faulty variant of InitScope: the level is set before the sinks.
InitScopeLevelFirst(s, part) ==
  scope' = [scope EXCEPT ![s] = IF part = "sinks" THEN [@ EXCEPT !.level = logger.level]
                                ELSE [@ EXCEPT !.sinks = logger.scopeSinks]]

\* initScope: the sinks, and in a step of its own the level that lets others in.
InitScope(s, part) ==
  scope' = [scope EXCEPT ![s] = IF part = "sinks" THEN [@ EXCEPT !.sinks = logger.scopeSinks]
                                ELSE [@ EXCEPT !.level = logger.level]]

InitializeScopes ==
  LET slot == initializing[1]
      part == initializing[2]
      after == IF slot = Len(registry) THEN NotRunning ELSE <<slot + 1, "sinks">>
  IN /\ ~MutexFree
     /\ IF slot > Len(registry) \/ registry[slot] = NoScope THEN UNCHANGED scope
                                                             ELSE InitScope(registry[slot], part)
     /\ initializing' = IF slot > Len(registry) THEN NotRunning
                        ELSE IF registry[slot] # NoScope /\ part = "sinks" THEN <<slot, "level">>
                        ELSE after
     /\ UNCHANGED <<logger, registry, logging>>

\* registerScope, called by the constructor, before anybody knows of the scope.
RegisterScope(s) ==
  LET free == SelectInSeq(registry, LAMBDA r : r = NoScope)
  IN /\ MutexFree /\ ~scope[s].alive
     /\ scope' = [scope EXCEPT ![s] =
                    IF logger.initialized
                    THEN [alive |-> TRUE, level |-> logger.level, sinks |-> logger.scopeSinks]
                    ELSE [alive |-> TRUE, level |-> Off, sinks |-> <<>>]]
     /\ registry' = IF free = 0 THEN Append(registry, s) ELSE [registry EXCEPT ![free] = s]
     /\ UNCHANGED <<logger, initializing, logging>>

\* unregisterScope, called by the destructor, when nobody logs through the scope.
UnregisterScope(s) ==
  LET slot == SelectInSeq(registry, LAMBDA r : r = s)
  IN /\ MutexFree /\ scope[s].alive /\ \A t \in LogThreads : logging[t].scope # s
     /\ registry' = [registry EXCEPT ![slot] = NoScope]
     /\ scope' = [scope EXCEPT ![s] = NotAlive]
     /\ UNCHANGED <<logger, initializing, logging>>

-----------------------------------------------------------------------------
(* Scopes, without the mutex                                                 *)

SetLevel(s) ==
  /\ scope[s].alive
  /\ LevelsEarly \/ (logger.initialized /\ MutexFree)
  /\ \E l \in EntryLevels \cup {Off} : scope' = [scope EXCEPT ![s].level = l]
  /\ UNCHANGED <<logger, registry, initializing, logging>>

\* enabled(): one read of the level.
CheckEnabled(t, s) ==
  /\ logging[t].at = "idle" /\ scope[s].alive
  /\ \E lvl \in EntryLevels : lvl >= scope[s].level
  /\ logging' = [logging EXCEPT ![t] = [NotLogging EXCEPT !.at = "enabled", !.scope = s]]
  /\ UNCHANGED <<logger, registry, scope, initializing>>

\* addEntryUnchecked: the loop over m_sinks, which are read once, and record.
ReadSinks(t) ==
  /\ logging[t].at = "enabled"
  /\ logging' = [logging EXCEPT ![t].at = "recording", ![t].left = scope[logging[t].scope].sinks]
  /\ UNCHANGED <<logger, registry, scope, initializing>>

Record(t) ==
  LET e == logging[t] IN
  /\ e.at = "recording"
  /\ logging' = [logging EXCEPT ![t] =
       IF e.left = <<>> THEN [e EXCEPT !.at = "added"]
       ELSE [e EXCEPT !.left = Tail(e.left), !.recorded = Append(e.recorded, Head(e.left))]]
  /\ UNCHANGED <<logger, registry, scope, initializing>>

Forget(t) ==
  /\ logging[t].at = "added"
  /\ logging' = [logging EXCEPT ![t] = NotLogging]
  /\ UNCHANGED <<logger, registry, scope, initializing>>

LgNext ==
  \/ AddSink \/ SetDefaultLevel \/ Initialize \/ InitializeScopes
  \/ \E s \in LogScopes : RegisterScope(s) \/ UnregisterScope(s) \/ SetLevel(s)
  \/ \E t \in LogThreads :
       \/ \E s \in LogScopes : CheckEnabled(t, s)
       \/ ReadSinks(t) \/ Record(t) \/ Forget(t)

LgSpec == LgInit /\ [][LgNext]_lgVars

-----------------------------------------------------------------------------
\* An entry that finds its scope enabled is recorded once by each sink of the
\* logger, in their order, even while the logger is being initialized and scopes
\* come and go; and once initialize() is through no living scope was left out,
\* because each is in the registry exactly once.
EnabledMeansRecorded ==
  /\ \A t \in LogThreads :
       logging[t].at = "added" => logger.initialized /\ logging[t].recorded = logger.scopeSinks
  /\ logger.initialized /\ MutexFree
       => \A s \in LogScopes : scope[s].alive => scope[s].sinks = logger.scopeSinks
  /\ \A s \in LogScopes :
       Cardinality({i \in DOMAIN registry : registry[i] = s}) = (IF scope[s].alive THEN 1 ELSE 0)
=============================================================================
