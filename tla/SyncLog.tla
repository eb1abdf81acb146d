-------------------------------- MODULE SyncLog --------------------------------
(***************************************************************************)
(* What asynchronous logging promises: the tasks of all threads form one   *)
(* line and are applied one by one, in that order.  An entry goes, with    *)
(* its own text, to the sinks that are there when its turn comes.          *)
(***************************************************************************)
EXTENDS Naturals, Sequences, FiniteSets

CONSTANTS Sinks, Users

VARIABLES
  pending,   \* tasks accepted and not applied; a log task carries its text
  sinks,     \* the sinks in use
  received,  \* the texts each sink was given
  promise    \* per user, the synchronization it asked for last was applied

logVars == <<pending, sinks, received, promise>>

LogInit ==
  /\ pending = <<>> /\ sinks = <<>>
  /\ received = [s \in Sinks |-> <<>>]
  /\ promise = [u \in Users |-> FALSE]

\* What applying task t does.
Record(t) ==
  /\ received' = [s \in Sinks |-> received[s] \o
                   [i \in 1..Cardinality({j \in DOMAIN sinks : sinks[j] = s}) |-> t.text]]
  /\ UNCHANGED <<sinks, promise>>

Apply ==
  /\ pending # <<>>
  /\ pending' = Tail(pending)
  /\ LET t == Head(pending) IN
     \/ t.kind = "log" /\ Record(t)
     \/ t.kind = "add" /\ sinks' = Append(sinks, t.sink) /\ UNCHANGED <<received, promise>>
     \/ /\ t.kind = "remove"
        /\ sinks' = SelectSeq(sinks, LAMBDA s : s # t.sink)
        /\ UNCHANGED <<received, promise>>
     \/ /\ t.kind = "sync"
        /\ promise' = [u \in Users |-> promise[u] \/ u = t.by]
        /\ UNCHANGED <<received, sinks>>

Accept ==
  /\ Len(pending') = Len(pending) + 1 /\ SubSeq(pending', 1, Len(pending)) = pending
  /\ LET t == pending'[Len(pending')] IN
       promise' = [u \in Users |-> promise[u] /\ ~(t.kind = "sync" /\ t.by = u)]
  /\ UNCHANGED <<sinks, received>>

LogNext == Accept \/ Apply

SyncLogSpec == LogInit /\ [][LogNext]_logVars
=============================================================================
