----------------------------- MODULE MCThreads -----------------------------
(* The programs that run threads in one process: the two test programs of  *)
(* the queue, the federate's threads and timer, and the federate's links.  *)
(* They share nothing: a behavior is one of one of them (subject), and the *)
(* variables of the others keep one of their initial values.               *)
EXTENDS ThreadQueue, QtQueueTest, FederateThreads, FederateLinks

VARIABLE subject

Subjects == {"console", "qt", "threads", "links"}

(* Where the initial state leaves a choice, a program that stands aside    *)
(* has one of them.                                                        *)
StandAside ==
  /\ subject # "console" => numberOfItems = 1 /\ myMutex = "free"
  /\ subject # "qt" => qtCapacity = 1 /\ qtSignal = "free"
  /\ subject # "threads" => kind = "timer" /\ ~timerActive

ThreadsInit ==
  /\ subject \in Subjects
  /\ Init
  /\ QtInit
  /\ FederateInit
  /\ LinksInit
  /\ StandAside

ThreadsNext ==
  \/ subject = "console" /\ Next /\ UNCHANGED <<qtVars, fedVars, linkVars>>
  \/ subject = "qt" /\ QtNext /\ UNCHANGED <<vars, fedVars, linkVars>>
  \/ subject = "threads" /\ FederateNext /\ UNCHANGED <<vars, qtVars, linkVars>>
  \/ subject = "links" /\ LinksNext /\ UNCHANGED <<vars, qtVars, fedVars>>

(* Each program's own fairness.  It asks nothing of one that stands aside  *)
(* but of what is enabled in its initial state, which is nothing.          *)
ThreadsSpec ==
  /\ ThreadsInit
  /\ [][ThreadsNext /\ UNCHANGED subject]_<<subject, vars, qtVars, fedVars, linkVars>>
  /\ WF_vars(StartConsumer) /\ WF_vars(MainStop) /\ WF_vars(ConsumerStep)
  /\ WF_qtVars(WindowWorks) /\ WF_qtVars(Take)
  /\ WF_fedVars(AddEnds)
  /\ \A t \in Threads : WF_fedVars(Round(t) \/ TimerStep(t)) /\ SF_fedVars(PassOn(t))
----------------------------------------------------------------------------
(* Properties *)

(* A stop that the user asks for comes to its end, in both test programs:  *)
(* every wait of a consumer has a timeout, and a producer, which may be    *)
(* stuck on a full queue, is not waited for.                               *)
EveryStopEnds == ProgramEnds /\ StopReturns
=============================================================================
