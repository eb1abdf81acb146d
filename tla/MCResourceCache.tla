--------------------------- MODULE MCResourceCache ---------------------------
(***************************************************************************)
(* Two keys and two locks, so that a key is asked for while its resource   *)
(* is held, idle and gone, and three resources, so that one can be made    *)
(* while the slots of two earlier ones are still there.                    *)
(***************************************************************************)
EXTENDS ResourceCache
=============================================================================
