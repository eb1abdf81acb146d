------------------------------- MODULE MCParts -------------------------------
(***************************************************************************)
(* The smaller parts of the SDK, which share nothing: the containers of    *)
(* astl, the text of a log entry, the scopes of a logger, the plugin       *)
(* manager, the coroutines of a strand and the io of a client without      *)
(* threads.  One of them runs in each behaviour and the others stay as     *)
(* they were, so that their state spaces add up instead of multiplying.    *)
(***************************************************************************)
EXTENDS LogText, PodVector, FlatMap, Expected, Generator, Coroutines,
        LoggerScopes, PluginManager, SyncIo

CONSTANTS v1, v2    \* the two objects each component of astl has

VARIABLE part       \* the part that runs

\* Which object is which does not matter to an invariant.
MCSymmetry == Permutations({v1, v2})

MCPads == {[size |-> 0, type |-> "left"], [size |-> 3, type |-> "left"],
           [size |-> 3, type |-> "right"], [size |-> 3, type |-> "inner"]}

MCBodies == {[yields |-> y, ends |-> e] : y \in {<<>>, <<1>>, <<1, 2>>}, e \in {"return", "throw"}}

MCLogSinks == <<"file", "console">>

MCLibraryKind == [l \in Libraries |-> l]
MCPluginDirs == [first |-> <<"fine", "failing">>, second |-> <<"foreign", "broken", "fine">>]

MCInit ==
  /\ part \in {"small_vector", "log text", "pod_vector", "flat_map", "expected",
              "generator", "coroutines", "logger", "plugins", "sync io"}
  /\ SvInit /\ LtInit /\ PodInit /\ FmStart /\ ExInit /\ GnInit
  /\ CoInit /\ LgInit /\ PmInit /\ SyncInit

MCNext ==
  \/ /\ part = "small_vector" /\ SvNext
     /\ UNCHANGED <<part, ltVars, podVars, fmVars, exVars, gnVars, coVars,
                    lgVars, pmVars, syncVars>>
  \/ /\ part = "log text" /\ LtNext
     /\ UNCHANGED <<part, svVars, podVars, fmVars, exVars, gnVars, coVars,
                    lgVars, pmVars, syncVars>>
  \/ /\ part = "pod_vector" /\ PodNext
     /\ UNCHANGED <<part, svVars, ltVars, fmVars, exVars, gnVars, coVars,
                    lgVars, pmVars, syncVars>>
  \/ /\ part = "flat_map" /\ FmNext
     /\ UNCHANGED <<part, svVars, ltVars, podVars, exVars, gnVars, coVars,
                    lgVars, pmVars, syncVars>>
  \/ /\ part = "expected" /\ ExNext
     /\ UNCHANGED <<part, svVars, ltVars, podVars, fmVars, gnVars, coVars,
                    lgVars, pmVars, syncVars>>
  \/ /\ part = "generator" /\ GnNext
     /\ UNCHANGED <<part, svVars, ltVars, podVars, fmVars, exVars, coVars,
                    lgVars, pmVars, syncVars>>
  \/ /\ part = "coroutines" /\ CoNext
     /\ UNCHANGED <<part, svVars, ltVars, podVars, fmVars, exVars, gnVars,
                    lgVars, pmVars, syncVars>>
  \/ /\ part = "logger" /\ LgNext
     /\ UNCHANGED <<part, svVars, ltVars, podVars, fmVars, exVars, gnVars,
                    coVars, pmVars, syncVars>>
  \/ /\ part = "plugins" /\ PmNext
     /\ UNCHANGED <<part, svVars, ltVars, podVars, fmVars, exVars, gnVars,
                    coVars, lgVars, syncVars>>
  \/ /\ part = "sync io" /\ SyncNext
     /\ UNCHANGED <<part, svVars, ltVars, podVars, fmVars, exVars, gnVars,
                    coVars, lgVars, pmVars>>

MCSpec ==
  MCInit /\ [][MCNext]_<<part, svVars, ltVars, podVars, fmVars, exVars, gnVars,
                           coVars, lgVars, pmVars, syncVars>>
=============================================================================
