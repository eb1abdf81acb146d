-------------------------- MODULE MCBackendShutdown --------------------------
(***************************************************************************)
(* The two worker strands of DefaultBackend.  The system stops when the    *)
(* destructor has returned, so deadlock is not an error.                   *)
(***************************************************************************)
EXTENDS BackendShutdown

CpuGpu == <<"cpu", "gpu">>
=============================================================================
