-------------------------- MODULE MCBackendServices --------------------------
(***************************************************************************)
(* The two worker strands of DefaultBackend, a client that makes a request *)
(* of any kind and one that only connects.  The system stops when the      *)
(* destructor has returned or the program was terminated, so deadlock is   *)
(* not an error.                                                           *)
(***************************************************************************)
EXTENDS BackendServices

CpuGpu == <<"cpu", "gpu">>
MCRequests ==
  [kind : {"assets"}, assets : {<<"file", "bad">>, <<"file">>}]
    \cup [kind : RequestKinds \ {"assets"}, assets : {<<>>}]
MCMaxRequests == [c \in Clients |-> IF c = "asks" THEN 1 ELSE 0]
=============================================================================
