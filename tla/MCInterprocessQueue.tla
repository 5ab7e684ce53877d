------------------------ MODULE MCInterprocessQueue ------------------------
(* InterprocessQueue on small instances.                                   *)
EXTENDS InterprocessQueue
=============================================================================
