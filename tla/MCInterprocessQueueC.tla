----------------------- MODULE MCInterprocessQueueC -----------------------
(* InterprocessQueueC with two clients and a queue of two slots.           *)
EXTENDS InterprocessQueueC
=============================================================================
