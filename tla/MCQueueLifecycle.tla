-------------------------- MODULE MCQueueLifecycle --------------------------
(* QueueLifecycle on small instances.                                      *)
EXTENDS QueueLifecycle
=============================================================================
