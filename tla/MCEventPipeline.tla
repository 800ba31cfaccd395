-------------------------- MODULE MCEventPipeline --------------------------
(***************************************************************************)
(* Instances of EventPipeline for TLC: the objects on one path, and a path *)
(* that is only watched.                                                   *)
(***************************************************************************)
EXTENDS EventPipeline

CONSTANTS thePath

OnePathOf == [o \in Objects |-> thePath]
=============================================================================
