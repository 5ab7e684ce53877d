-------------------------- MODULE MCQueueShutdown --------------------------
(* QueueShutdown with two senders and a receiver: the threads of two       *)
(* processes that are in calls when one of the two exits.                  *)
EXTENDS QueueShutdown
=============================================================================
