---------------------------- MODULE QtQueueTest ----------------------------
(***************************************************************************)
(* The Qt test program of the queue between threads: a window with one     *)
(* button that starts and stops a producer and a consumer on the window's  *)
(* own queue.  Unlike the console program it can be started again; each    *)
(* message is an object of its own, deleted by the consumer; the producer  *)
(* counts in a static variable, the consumer anew in every start.  Stop    *)
(* waits for the consumer only and deletes the producer's object under its *)
(* thread: what the thread then reads in exitFlag is anything.             *)
(***************************************************************************)
EXTENDS Integers, Sequences

CONSTANTS
  QtCapacities,  \* bound: capacity of the queue (262144)
  MaxSessions,   \* bound: times the user presses Start
  MaxNumber      \* bound: messages numbered

ASSUME QtAssumption ==
  /\ QtCapacities \subseteq Nat \ {0}
  /\ MaxSessions \in Nat \ {0}
  /\ MaxNumber \in Nat

Sessions == 1..MaxSessions

VARIABLES
  qtCapacity,
  qtQueue,      \* the messages in the queue, by their numbers
  qtSignal,     \* the queue's myMutex: "free" or "held"
  qtCount,      \* msgCount, static in the producer's file
  window,       \* where the main thread stands
  session,      \* the number of starts
  qtExit,       \* the exit flags: [consumer, producer] of the current objects
  maker,        \* session -> where its producer thread stands
  making,       \* session -> the number in the producer's hand
  taker,        \* where the consumer thread stands
  taken,        \* the message in its hand, or 0
  accepted,     \* session -> prevMsgCount of its consumer
  mismatch,     \* history: sessions whose consumer saw a number out of sequence
  doubled       \* history: two producers gave the same number

qtBuffer == <<qtCapacity, qtQueue, qtSignal>>
qtChecked == <<taken, accepted, mismatch>>
qtVars == <<qtBuffer, qtCount, window, session, qtExit, maker, making, taker,
            qtChecked, doubled>>

Opened(signal) == IF signal = "held" THEN {"free"} ELSE {"free", "held"}

QtInit ==
  /\ qtCapacity \in QtCapacities
  /\ qtQueue = <<>>
  /\ qtSignal \in Opened("free")
  /\ qtCount = 1
  /\ window = "idle"
  /\ session = 0
  /\ qtExit = [consumer |-> FALSE, producer |-> FALSE]
  /\ maker = [s \in Sessions |-> "none"]
  /\ making = [s \in Sessions |-> 0]
  /\ taker = "none"
  /\ taken = 0
  /\ accepted = [s \in Sessions |-> 0]
  /\ mismatch = {}
  /\ doubled = FALSE

WindowGoes(from, to) == window = from /\ window' = to
----------------------------------------------------------------------------
(* MainWindow::ProcessDataClicked *)

ClickStart ==
  /\ session < MaxSessions
  /\ WindowGoes("idle", "starting")
  /\ session' = session + 1
  /\ qtExit' = [qtExit EXCEPT !.consumer = FALSE]
  /\ taker' = "loop"
  /\ UNCHANGED <<qtBuffer, qtCount, maker, making, qtChecked, doubled>>

StartMaker ==
  /\ WindowGoes("starting", "running")
  /\ qtExit' = [qtExit EXCEPT !.producer = FALSE]
  /\ maker' = [maker EXCEPT ![session] = "loop"]
  /\ UNCHANGED <<qtBuffer, qtCount, session, making, taker, qtChecked, doubled>>

ClickStop ==
  /\ WindowGoes("running", "joining")
  /\ qtExit' = [qtExit EXCEPT !.consumer = TRUE]
  /\ UNCHANGED <<qtBuffer, qtCount, session, maker, making, taker, qtChecked, doubled>>

JoinTaker ==
  /\ WindowGoes("joining", "stopping")
  /\ taker = "ended"
  /\ UNCHANGED <<qtBuffer, qtCount, session, qtExit, maker, making, taker, qtChecked, doubled>>

(* The thread is not waited for.                                           *)
StopMaker ==
  /\ WindowGoes("stopping", "deleting")
  /\ qtExit' = [qtExit EXCEPT !.producer = TRUE]
  /\ UNCHANGED <<qtBuffer, qtCount, session, maker, making, taker, qtChecked, doubled>>

DeleteThreads ==
  /\ WindowGoes("deleting", "idle")
  /\ UNCHANGED <<qtBuffer, qtCount, session, qtExit, maker, making, taker, qtChecked, doubled>>
----------------------------------------------------------------------------
(* ProducerThread::threadOperation of session s *)

Deleted(s) == s < session \/ window = "idle"
MakerGoes(s, from, to) == maker[s] = from /\ maker' = [maker EXCEPT ![s] = to]

MakerEnds(s) ==
  /\ Deleted(s) \/ qtExit.producer
  /\ MakerGoes(s, "loop", "ended")
  /\ UNCHANGED <<qtBuffer, qtCount, window, session, qtExit, making, taker, qtChecked, doubled>>

(* msgCount++ reads and writes in two steps: producers of two sessions may *)
(* read the same number.                                                   *)
ReadNumber(s) ==
  /\ Deleted(s) \/ ~qtExit.producer
  /\ qtCount <= MaxNumber
  /\ MakerGoes(s, "loop", "number")
  /\ making' = [making EXCEPT ![s] = qtCount]
  /\ doubled' = (doubled \/ \E r \in Sessions \ {s} : maker[r] = "number")
  /\ UNCHANGED <<qtBuffer, qtCount, window, session, qtExit, taker, qtChecked>>

(* Mutant: the count begins anew in every start.                           *)
WriteNumberMutant(s) ==
  /\ MakerGoes(s, "number", "add")
  /\ qtCount' = making[s]
  /\ UNCHANGED <<qtBuffer, window, session, qtExit, making, taker, qtChecked, doubled>>

WriteNumber(s) ==
  /\ MakerGoes(s, "number", "add")
  /\ qtCount' = making[s] + 1
  /\ UNCHANGED <<qtBuffer, window, session, qtExit, making, taker, qtChecked, doubled>>

(* addMessage is tried until the queue has room, also by a thread that has *)
(* been told to exit.                                                      *)
QtAddMessage(s) ==
  /\ Len(qtQueue) < qtCapacity
  /\ MakerGoes(s, "add", "loop")
  /\ qtQueue' = Append(qtQueue, making[s])
  /\ qtSignal' \in Opened(qtSignal)
  /\ UNCHANGED <<qtCapacity, qtCount, window, session, qtExit, making, taker, qtChecked, doubled>>
----------------------------------------------------------------------------
(* ConsumerThread::threadOperation and Queue::getMessage *)

TakerGoes(from, to) == taker = from /\ taker' = to

TakerLoops ==
  /\ TakerGoes("loop", IF qtExit.consumer THEN "ended" ELSE "look")
  /\ UNCHANGED <<qtBuffer, qtCount, window, session, qtExit, maker, making, qtChecked, doubled>>

TakeFirst(from, none) ==
  /\ IF qtQueue = <<>>
       THEN TakerGoes(from, none) /\ UNCHANGED <<qtQueue, taken>>
       ELSE TakerGoes(from, "check") /\ taken' = Head(qtQueue) /\ qtQueue' = Tail(qtQueue)
  /\ UNCHANGED <<qtCapacity, qtSignal, qtCount, window, session, qtExit, maker, making,
                 accepted, mismatch, doubled>>

FirstLook == TakeFirst("look", "wait")
SecondLook == TakeFirst("lookAgain", "loop")

TakerSignalled ==
  /\ qtSignal = "free"
  /\ qtSignal' = "held"
  /\ TakerGoes("wait", "lookAgain")
  /\ UNCHANGED <<qtCapacity, qtQueue, qtCount, window, session, qtExit, maker, making,
                 qtChecked, doubled>>

(* Mutant: the consumer waits until there is a message.                    *)
TakerTimesOutMutant == FALSE
TakerTimesOut ==
  /\ qtSignal = "held"
  /\ TakerGoes("wait", "loop")
  /\ UNCHANGED <<qtBuffer, qtCount, window, session, qtExit, maker, making, qtChecked, doubled>>

(* A message in sequence is deleted; the thread ends at any other.         *)
Check ==
  /\ taker = "check"
  /\ IF taken = accepted[session] + 1
       THEN /\ TakerGoes("check", "loop")
            /\ accepted' = [accepted EXCEPT ![session] = taken]
            /\ UNCHANGED mismatch
       ELSE /\ TakerGoes("check", "ended")
            /\ mismatch' = mismatch \cup {session}
            /\ UNCHANGED accepted
  /\ taken' = 0
  /\ UNCHANGED <<qtBuffer, qtCount, window, session, qtExit, maker, making, doubled>>
----------------------------------------------------------------------------
WindowWorks == StartMaker \/ JoinTaker \/ StopMaker \/ DeleteThreads
Make(s) == MakerEnds(s) \/ ReadNumber(s) \/ WriteNumber(s) \/ QtAddMessage(s)
Take ==
  \/ TakerLoops \/ FirstLook \/ TakerSignalled \/ TakerTimesOut \/ SecondLook \/ Check

QtNext ==
  \/ ClickStart
  \/ ClickStop
  \/ WindowWorks
  \/ \E s \in Sessions : Make(s)
  \/ Take

(* The main thread and the consumer run.  The user need not press the      *)
(* button, and a producer whose object is deleted may be stopped for good. *)
QtSpec ==
  /\ QtInit
  /\ [][QtNext]_qtVars
  /\ WF_qtVars(WindowWorks)
  /\ WF_qtVars(Take)
----------------------------------------------------------------------------
(* Properties *)

(* The numbers are in sequence in the first start.  Of all starts only one *)
(* accepts any message: a later consumer expects number 1 while the        *)
(* producer counts on, so that it ends at the first message it gets -      *)
(* unless producers of two starts ran at once and gave a number twice.     *)
OneSessionAccepts ==
  ~doubled =>
    /\ 1 \notin mismatch
    /\ \A r, s \in Sessions : r # s => accepted[r] = 0 \/ accepted[s] = 0

(* A press on Stop returns: the consumer's wait has a timeout, and a       *)
(* producer that is stuck on a full queue is not waited for.               *)
StopReturns == window = "joining" ~> window = "idle"
=============================================================================
