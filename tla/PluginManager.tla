---------------------------- MODULE PluginManager ----------------------------
(***************************************************************************)
(* local::PluginManager: it searches directories for libraries, opens them *)
(* with the loader of the platform, and keeps a handle for each plugin     *)
(* until its destructor.  An attempt to load can end in many ways, and not *)
(* in all of them the handle goes with it.                                 *)
(*                                                                         *)
(* Of the loader only its count matters: how often a library was opened    *)
(* and not closed.                                                         *)
(***************************************************************************)
EXTENDS Integers, SequencesExt

CONSTANTS
  Libraries,     \* paths of libraries
  LibraryKind,   \* per library: "broken" (does not open), "foreign" (a symbol is not
                 \* there or the version is another), "failing" (init throws), "fine"
  PluginDirs,    \* per directory that exists: the libraries in it, in order
  MissingDirs,   \* directories that do not exist
  PmLoads,       \* bound: calls that load
  PmMaxDirs      \* bound: length of m_pluginDirs

NoHandle == "no handle"
InProcess == "<in-process>"

ASSUME PmAssumption ==
  /\ LibraryKind \in [Libraries -> {"broken", "foreign", "failing", "fine"}]
  /\ \A d \in DOMAIN PluginDirs : PluginDirs[d] \in Seq(Libraries)
  /\ MissingDirs \cap DOMAIN PluginDirs = {}
  /\ NoHandle \notin Libraries
  /\ {PmLoads, PmMaxDirs} \subseteq Nat

VARIABLES
  pluginDirs,    \* m_pluginDirs
  plugins,       \* m_plugins: [path, handle]
  opened,        \* the loader: how often each library is open
  leaked,        \* history: handles that were given up without being closed
  closedEarly,   \* history: handles that were closed while a plugin holds them
  loads,         \* calls that loaded
  pmState        \* "up"; "gone" when the destructor has run; "overrun" when a search path
                 \* was read beyond its end, after which anything may happen

pmVars == <<pluginDirs, plugins, opened, leaked, closedEarly, loads, pmState>>

PmInit ==
  /\ pluginDirs = <<>> /\ plugins = <<>> /\ loads = 0 /\ pmState = "up"
  /\ opened = [l \in Libraries |-> 0]
  /\ leaked = [l \in Libraries |-> 0] /\ closedEarly = [l \in Libraries |-> 0]

-----------------------------------------------------------------------------
(* One attempt, from a state st of [plugins, opened, leaked, closedEarly,    *)
(* thrown]                                                                   *)

OpenHandle(st, l) == [st EXCEPT !.opened[l] = @ + 1]
CloseHandle(st, l) == [st EXCEPT !.opened[l] = @ - 1]
Entry(st, path, handle) == [st EXCEPT !.plugins = Append(@, [path |-> path, handle |-> handle])]
FindByPath(st, path) == \E i \in DOMAIN st.plugins : st.plugins[i].path = path

\* What the callbacks of a call say to a library: a filter of paths or names skips it,
\* that of interfaces rejects it, one of them throws, or, when the plugin has its
\* place in m_plugins, getServiceFactories or onPluginLoaded throws.
Answers == {"keep", "skip", "reject", "filter throws", "throw"}
Callbacks == [Libraries -> Answers]

\* How tryCreatePluginInfo ends: without a plugin, with one, or with one it does not
\* get to return.
Outcomes == {"rejected", "created", "thrown"}
Outcome(l, answer) ==
  IF answer = "reject" \/ LibraryKind[l] = "failing" THEN "rejected"
  ELSE IF answer = "throw" THEN "thrown" ELSE "created"

TryCreate(st, path, handle, how) ==
  CASE how = "rejected" -> st
    [] how = "created" -> Entry(st, path, handle)
    [] how = "thrown" -> [Entry(st, path, handle) EXCEPT !.thrown = TRUE]

\* Faulty variant of Loaded: the sentry is not released.
LoadedAndClosed(st, l, how) == CloseHandle(TryCreate(st, l, l, how), l)

\* The sentry is released when tryCreatePluginInfo returns, with or without a plugin;
\* when it throws, it closes the handle the plugin holds.
Loaded(st, l, how) ==
  LET tried == TryCreate(st, l, l, how)
  IN CASE how = "rejected" -> [tried EXCEPT !.leaked[l] = @ + 1]
       [] how = "created" -> tried
       [] how = "thrown" -> [CloseHandle(tried, l) EXCEPT !.closedEarly[l] = @ + 1]

\* tryLoadPlugin.  Of a filter that throws nothing is left: it is asked before the
\* library is opened, or the sentry closes it.
TryLoad(st, l, answer) ==
  IF answer = "filter throws" THEN [st EXCEPT !.thrown = TRUE]
  ELSE IF answer = "skip" \/ FindByPath(st, l) \/ LibraryKind[l] = "broken" THEN st
  ELSE IF LibraryKind[l] = "foreign" THEN CloseHandle(OpenHandle(st, l), l)
  ELSE Loaded(OpenHandle(st, l), l, Outcome(l, answer))

\* loadPlugins: an exception, or a directory that is not there, ends it.
LoadDirs(st, cb) ==
  LET inDir(s, l) == IF s.thrown THEN s ELSE TryLoad(s, l, cb[l])
      dir(s, d) == IF s.thrown THEN s
                   ELSE IF d \in MissingDirs THEN [s EXCEPT !.thrown = TRUE]
                   ELSE FoldLeft(inDir, s, PluginDirs[d])
  IN FoldLeft(dir, st, pluginDirs)

Now == [plugins |-> plugins, opened |-> opened, leaked |-> leaked,
        closedEarly |-> closedEarly, thrown |-> FALSE]

Load(st) ==
  /\ pmState = "up" /\ loads < PmLoads
  /\ plugins' = st.plugins /\ opened' = st.opened
  /\ leaked' = st.leaked /\ closedEarly' = st.closedEarly
  /\ loads' = loads + 1
  /\ UNCHANGED <<pluginDirs, pmState>>

-----------------------------------------------------------------------------
LoadPlugin == \E l \in Libraries, answer \in Answers : Load(TryLoad(Now, l, answer))
LoadPlugins == \E cb \in Callbacks : Load(LoadDirs(Now, cb))

\* A plugin of the program itself has no library, and no filter is asked; its init and
\* its factories may throw like those of any other.
LoadPlib == \E how \in Outcomes : Load(TryCreate(Now, InProcess, NoHandle, how))

AddDirs(dirs) ==
  /\ pmState = "up" /\ Len(pluginDirs) + Len(dirs) <= PmMaxDirs
  /\ pluginDirs' = pluginDirs \o dirs
  /\ UNCHANGED <<plugins, opened, leaked, closedEarly, loads>>

Directories == DOMAIN PluginDirs \cup MissingDirs

AddPluginDir == (\E d \in Directories : AddDirs(<<d>>)) /\ UNCHANGED pmState

\* A search path: the loop takes each directory with the separator behind it, and the
\* last also when there is none.
AddPluginDirsFromEnvVar ==
  \E dirs \in BoundedSeq(Directories, PmMaxDirs), terminated \in BOOLEAN :
    /\ ~terminated => dirs # <<>>
    /\ AddDirs(dirs)
    /\ pmState' = IF terminated THEN "up" ELSE "overrun"

\* ~PluginManager
DestroyManager ==
  /\ pmState = "up"
  /\ pmState' = "gone" /\ plugins' = <<>>
  /\ opened' = [l \in Libraries |->
                  opened[l] - Cardinality({i \in DOMAIN plugins : plugins[i].handle = l})]
  /\ UNCHANGED <<pluginDirs, leaked, closedEarly, loads>>

PmNext ==
  \/ LoadPlugin \/ LoadPlugins \/ LoadPlib
  \/ AddPluginDir \/ AddPluginDirsFromEnvVar
  \/ DestroyManager
  \/ pmState # "up" /\ UNCHANGED pmVars

PmSpec == PmInit /\ [][PmNext]_pmVars

-----------------------------------------------------------------------------
\* However attempts to load end and wherever they throw, no file is held by two
\* plugins (fullPath is the "only unique member", PluginInfo.hpp), and a library is open
\* as often as plugins hold it, but for two things and no others: one that is rejected
\* after its interface was read stays open, again at each attempt (leaked), and one
\* whose factories or whose callback throw is closed under its plugin, once
\* (closedEarly), and then again by the destructor.
HandlesAccountedFor ==
  \A l \in Libraries :
    LET held == Cardinality({i \in DOMAIN plugins : plugins[i].handle = l})
    IN /\ held <= 1 /\ opened[l] = held + leaked[l] - closedEarly[l]
       /\ closedEarly[l] <= IF pmState = "gone" THEN 1 ELSE held
=============================================================================
