---------------------------- MODULE ThreadQueue ----------------------------
(***************************************************************************)
(* The queue between two threads of one process, with the program that     *)
(* tests it (QueueTestConsole-Win32): a producer that numbers messages, a  *)
(* consumer that checks the numbers, and the main thread that starts and   *)
(* stops them.  A message is a pointer into a fixed pool; myMutex is a     *)
(* mutex that the queue uses as a signal.  Each action is what a thread    *)
(* does between two points at which another thread can be seen.            *)
(***************************************************************************)
EXTENDS Integers, Sequences

CONSTANTS
  Capacities,     \* bound: values of numberOfItems (1048576 in the program)
  MAX_MSG_COUNT,  \* size of the pool (1048576 in the program)
  MaxMsgs         \* bound: messages produced

ASSUME QueueAssumption ==
  /\ Capacities \subseteq Nat \ {0}
  /\ MAX_MSG_COUNT \in Nat \ {0}
  /\ MaxMsgs \in Nat

Pool == 0..(MAX_MSG_COUNT - 1)
NULL == -1

VARIABLES
  numberOfItems, \* capacity of myQueue
  myQueue,       \* the circular buffer: pointers into the pool
  myMutex,       \* "free" or "held"
  msg,           \* the pool: pointer -> MsgNumber
  msgCount,      \* of the producer
  prevMsgCount,  \* of the consumer
  pointer,       \* what getMessage returned to the consumer, or NULL
  exitProducer, exitConsumer,    \* exitFlag of each thread object
  main, producer, consumer,      \* where each thread stands
  problem,       \* history: the consumer saw a number out of sequence
  reused         \* history: a message was overwritten before it was checked

buffer == <<numberOfItems, myQueue, myMutex>>
flags == <<exitProducer, exitConsumer>>
checked == <<prevMsgCount, pointer, problem>>
vars == <<buffer, msg, msgCount, checked, flags, main, producer, consumer, reused>>

(* Unlocking a mutex that is not locked is undefined: it stays free, or    *)
(* its lock bit is flipped.                                                *)
Unlocked(m) == IF m = "held" THEN {"free"} ELSE {"free", "held"}

(* Queue::Queue unlocks the mutex it has just made.                        *)
Init ==
  /\ numberOfItems \in Capacities
  /\ myQueue = <<>>
  /\ myMutex \in Unlocked("free")
  /\ msg = [p \in Pool |-> 0]
  /\ msgCount = 0
  /\ prevMsgCount = -1
  /\ pointer = NULL
  /\ exitProducer = FALSE
  /\ exitConsumer = FALSE
  /\ main = "start"
  /\ producer = "none"
  /\ consumer = "none"
  /\ problem = FALSE
  /\ reused = FALSE
----------------------------------------------------------------------------
(* The main thread.  It starts both threads, and on a key stops both:      *)
(* only the consumer is waited for.                                        *)

MainGoes(from, to) == main = from /\ main' = to

StartProducer ==
  /\ MainGoes("start", "startConsumer")
  /\ producer' = "loop"
  /\ UNCHANGED <<buffer, msg, msgCount, checked, flags, consumer, reused>>

StartConsumer ==
  /\ MainGoes("startConsumer", "run")
  /\ consumer' = "loop"
  /\ UNCHANGED <<buffer, msg, msgCount, checked, flags, producer, reused>>

StopProducer ==
  /\ MainGoes("run", "stopConsumer")
  /\ exitProducer' = TRUE
  /\ UNCHANGED <<buffer, msg, msgCount, checked, exitConsumer, producer, consumer, reused>>

(* Mutant: the consumer is joined without having been told to exit.        *)
StopConsumerMutant ==
  /\ MainGoes("stopConsumer", "join")
  /\ UNCHANGED <<buffer, msg, msgCount, checked, flags, producer, consumer, reused>>

StopConsumer ==
  /\ MainGoes("stopConsumer", "join")
  /\ exitConsumer' = TRUE
  /\ UNCHANGED <<buffer, msg, msgCount, checked, exitProducer, producer, consumer, reused>>

(* The thread objects are deleted next.                                    *)
JoinConsumer ==
  /\ MainGoes("join", "delete")
  /\ consumer = "ended"
  /\ UNCHANGED <<buffer, msg, msgCount, checked, flags, producer, consumer, reused>>

(* Queue::~Queue.  Then main returns, which ends every thread.             *)
DeleteQueue ==
  /\ MainGoes("delete", "deleted")
  /\ myMutex' \in Unlocked(myMutex)
  /\ myQueue' = <<>>
  /\ UNCHANGED <<numberOfItems, msg, msgCount, checked, flags, producer, consumer, reused>>

Return ==
  /\ MainGoes("deleted", "returned")
  /\ UNCHANGED <<buffer, msg, msgCount, checked, flags, producer, consumer, reused>>

Queue_there == main \notin {"deleted", "returned"}
----------------------------------------------------------------------------
(* ProducerThread::threadOperation.  Its object may be deleted under it:   *)
(* what it then reads in exitFlag is anything.                             *)

(* Mutant: the pool is taken to be one smaller than it is.                 *)
SlotMutant(n) == IF MAX_MSG_COUNT = 1 THEN 0 ELSE n % (MAX_MSG_COUNT - 1)
Slot(n) == n % MAX_MSG_COUNT

InUse(p) == p = pointer \/ \E i \in 1..Len(myQueue) : myQueue[i] = p

WriteMessage ==
  /\ producer = "loop"
  /\ ~exitProducer \/ main \in {"delete", "deleted"}
  /\ main # "returned"
  /\ msgCount < MaxMsgs
  /\ msg' = [msg EXCEPT ![Slot(msgCount)] = msgCount]
  /\ msgCount' = msgCount + 1
  /\ reused' = (reused \/ InUse(Slot(msgCount)))
  /\ producer' = "add"
  /\ UNCHANGED <<buffer, checked, flags, main, consumer>>

ProducerEnds ==
  /\ producer = "loop"
  /\ exitProducer
  /\ main # "returned"
  /\ producer' = "ended"
  /\ UNCHANGED <<buffer, msg, msgCount, checked, flags, main, consumer, reused>>

FullMutant == Len(myQueue) > numberOfItems
Full == Len(myQueue) >= numberOfItems

(* addMessage of the last message written.  A full queue refuses it and    *)
(* the thread yields and tries again: a stuttering step.  On a queue that  *)
(* is deleted the call is undefined; here the thread gets no further, and  *)
(* a process that it brings down there has ended as well.                  *)
addMessage ==
  /\ producer = "add"
  /\ Queue_there
  /\ ~Full
  /\ myQueue' = Append(myQueue, Slot(msgCount - 1))
  /\ myMutex' \in Unlocked(myMutex)
  /\ producer' = "loop"
  /\ UNCHANGED <<numberOfItems, msg, msgCount, checked, flags, main, consumer, reused>>
----------------------------------------------------------------------------
(* ConsumerThread::threadOperation, and getMessage in three parts: a first *)
(* look, the wait for the signal, a second look.                           *)

ConsumerGoes(from, to) == consumer = from /\ consumer' = to

(* CheckForItemsInQueue.  Mutant: the newest message is returned.          *)
CheckForItemsInQueueMutant(none) ==
  IF myQueue = <<>>
    THEN pointer' = NULL /\ myQueue' = myQueue /\ consumer' = none
    ELSE /\ pointer' = myQueue[Len(myQueue)]
         /\ myQueue' = SubSeq(myQueue, 1, Len(myQueue) - 1)
         /\ consumer' = "use"

CheckForItemsInQueue(none) ==
  IF myQueue = <<>>
    THEN pointer' = NULL /\ myQueue' = myQueue /\ consumer' = none
    ELSE pointer' = Head(myQueue) /\ myQueue' = Tail(myQueue) /\ consumer' = "use"

ConsumerLoop ==
  /\ consumer = "loop"
  /\ consumer' = IF exitConsumer THEN "ended" ELSE "look"
  /\ UNCHANGED <<buffer, msg, msgCount, checked, flags, main, producer, reused>>

Look ==
  /\ consumer = "look"
  /\ CheckForItemsInQueue("wait")
  /\ UNCHANGED <<numberOfItems, myMutex, msg, msgCount, prevMsgCount, problem, flags,
                 main, producer, reused>>

Signalled ==
  /\ ConsumerGoes("wait", "lookAgain")
  /\ myMutex = "free"
  /\ myMutex' = "held"
  /\ UNCHANGED <<numberOfItems, myQueue, msg, msgCount, checked, flags, main, producer, reused>>

(* Mutant: the wait has no timeout.                                        *)
TimedOutMutant == FALSE
TimedOut ==
  /\ ConsumerGoes("wait", "loop")
  /\ myMutex = "held"
  /\ UNCHANGED <<buffer, msg, msgCount, checked, flags, main, producer, reused>>

(* Mutant: the message taken after the wait stays in the queue.            *)
LookAgainMutant ==
  /\ consumer = "lookAgain"
  /\ myQueue # <<>>
  /\ pointer' = Head(myQueue)
  /\ consumer' = "use"
  /\ UNCHANGED <<buffer, msg, msgCount, prevMsgCount, problem, flags, main, producer, reused>>

LookAgain ==
  /\ consumer = "lookAgain"
  /\ CheckForItemsInQueue("loop")
  /\ UNCHANGED <<numberOfItems, myMutex, msg, msgCount, prevMsgCount, problem, flags,
                 main, producer, reused>>

CheckNumber ==
  /\ consumer = "use"
  /\ pointer' = NULL
  /\ IF msg[pointer] = prevMsgCount + 1
       THEN consumer' = "loop" /\ prevMsgCount' = prevMsgCount + 1 /\ problem' = problem
       ELSE consumer' = "ended" /\ prevMsgCount' = prevMsgCount /\ problem' = TRUE
  /\ UNCHANGED <<buffer, msg, msgCount, flags, main, producer, reused>>
----------------------------------------------------------------------------
MainStop == StopConsumer \/ JoinConsumer \/ DeleteQueue \/ Return
ProducerStep == WriteMessage \/ ProducerEnds \/ addMessage
ConsumerStep ==
  \/ ConsumerLoop
  \/ Look
  \/ Signalled
  \/ TimedOut
  \/ LookAgain
  \/ CheckNumber

Next ==
  \/ StartProducer
  \/ StartConsumer
  \/ StopProducer
  \/ MainStop
  \/ ProducerStep
  \/ ConsumerStep

(* Threads run, and every wait of the consumer has a timeout; the user     *)
(* need not press a key.                                                   *)
Spec ==
  /\ Init
  /\ [][Next]_vars
  /\ WF_vars(StartConsumer)
  /\ WF_vars(MainStop)
  /\ WF_vars(ConsumerStep)
----------------------------------------------------------------------------
(* Properties *)

(* The pointers between the producer's count and the consumer's are those  *)
(* of the messages produced and not yet checked, in order and none twice;  *)
(* they fit in the queue, which would overwrite its oldest otherwise.      *)
InHand == IF consumer = "use" THEN <<pointer>> ELSE <<>>
InTransit == InHand \o myQueue
NothingLost ==
  ~problem /\ Queue_there =>
    /\ Len(myQueue) <= numberOfItems
    /\ msgCount = prevMsgCount + 1 + Len(InTransit) + (IF producer = "add" THEN 1 ELSE 0)
    /\ \A i \in 1..Len(InTransit) : InTransit[i] = (prevMsgCount + i) % MAX_MSG_COUNT

(* What the consumer checks: messages arrive in sequence, unless one was   *)
(* overwritten in the pool while its pointer was in the queue or in the    *)
(* consumer's hand.  That happens only when the queue can hold all but one *)
(* of the pool's messages, as it can in the program: both are 1048576.     *)
InSequence ==
  /\ problem => reused
  /\ reused => numberOfItems > MAX_MSG_COUNT - 2

(* A message that is in the queue reaches the consumer, unless it is       *)
(* stopped or has seen a problem: a signal that is lost delays it only.    *)
Delivered ==
  \A n \in 0..(MaxMsgs - 1) :
    (\E i \in 1..Len(myQueue) : InTransit[i] = Slot(n) /\ prevMsgCount + i = n)
      ~> prevMsgCount >= n \/ exitConsumer \/ problem

(* Once the user has stopped the producer the program ends.                *)
ProgramEnds == main = "stopConsumer" ~> main = "returned"
=============================================================================
