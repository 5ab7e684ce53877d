--------------------------- MODULE ThreadsProofs ---------------------------
(***************************************************************************)
(* The programs that run threads in one process, for any capacity, pool,   *)
(* number of threads, starts and messages, and the links between a         *)
(* federate, its handler and its post office, for any of them.             *)
(*                                                                         *)
(* The console test program (NothingLost, InSequence): the invariant       *)
(* counts from the producer's end: the number of the oldest message in the *)
(* queue is Oldest, and pointers and contents of what is in transit follow *)
(* from it.  That also holds after a problem, when the consumer's count    *)
(* says nothing any more.                                                  *)
(*                                                                         *)
(* The links (LinksAgree): a link is good (Good) when its two sides agree  *)
(* and it joins only objects that are there; every setter and both         *)
(* clean-ups, as functions of a link, keep it good, although the calls     *)
(* inside them pass through links that are not.                            *)
(***************************************************************************)
EXTENDS ThreadQueue, QtQueueTest, FederateThreads, FederateLinks,
        WellFoundedInduction, TLAPS
----------------------------------------------------------------------------
(* The console test program.                                               *)
Added == IF producer = "add" THEN msgCount - 1 ELSE msgCount
Oldest == Added - Len(myQueue)

ThreadTypes ==
  /\ numberOfItems \in Capacities
  /\ myQueue \in Seq(Pool)
  /\ msg \in [Pool -> Int]
  /\ msgCount \in Nat
  /\ prevMsgCount \in Int
  /\ problem \in BOOLEAN
  /\ reused \in BOOLEAN

(* Where each thread may stand.                                            *)
Standing ==
  /\ producer = "add" => msgCount > 0
  /\ consumer # "use" => pointer = NULL
  /\ problem => consumer = "ended"
  /\ main = "start" => producer = "none"
  /\ main \in {"start", "startConsumer"} => consumer = "none"
  /\ main \in {"delete", "deleted", "returned"} => consumer = "ended"

PointersFollow ==
  /\ Len(myQueue) <= numberOfItems
  /\ Oldest >= 0
  /\ \A i \in 1..Len(myQueue) : myQueue[i] = Slot(Oldest + i - 1)
  /\ consumer = "use" => Oldest >= 1 /\ pointer = Slot(Oldest - 1)

CountsAgree ==
  ~problem /\ Queue_there =>
    prevMsgCount + 1 = IF consumer = "use" THEN Oldest - 1 ELSE Oldest

ContentsFollow ==
  ~reused =>
    /\ \A i \in 1..Len(myQueue) : msg[myQueue[i]] = Oldest + i - 1
    /\ consumer = "use" => msg[pointer] = Oldest - 1
    /\ producer = "add" => msg[Slot(msgCount - 1)] = msgCount - 1

ThreadInv ==
  ThreadTypes /\ Standing /\ PointersFollow /\ CountsAgree /\ ContentsFollow /\ InSequence
----------------------------------------------------------------------------
LEMMA SlotInPool == \A n \in Nat : Slot(n) \in Pool
  BY QueueAssumption DEF Slot, Pool

(* Two messages in one slot are a whole pool apart.                        *)
LEMMA SameSlot ==
  ASSUME NEW a \in Nat, NEW b \in Nat, b < a, Slot(a) = Slot(b)
  PROVE  a - b >= MAX_MSG_COUNT
<1> DEFINE M == MAX_MSG_COUNT
           qa == a \div M
           qb == b \div M
<1>1. M \in Nat /\ M > 0
  BY QueueAssumption
<1>2. qa \in Int /\ qb \in Int /\ a = (M * qa) + (a % M) /\ b = (M * qb) + (b % M)
  BY <1>1
<1>3. a % M = b % M /\ a % M \in Int
  BY <1>1 DEF Slot
<1> HIDE DEF M, qa, qb
<1>4. a - b = M * (qa - qb)
  BY <1>1, <1>2, <1>3
<1>5. qa - qb >= 1
  <2>1. CASE qa - qb <= 0
    BY <1>1, <1>2, <1>4, <2>1
  <2> QED
    BY <1>2, <2>1
<1>6. M * (qa - qb) >= M
  BY <1>1, <1>2, <1>5
<1> QED
  BY <1>4, <1>6 DEF M

(* A step that leaves messages, pointers and counts alone.                 *)
Quiet ==
  /\ UNCHANGED <<numberOfItems, myQueue, msg, msgCount, prevMsgCount, pointer, problem, reused>>
  /\ producer' = "add" <=> producer = "add"
  /\ consumer' = "use" <=> consumer = "use"
  /\ Queue_there' => Queue_there
  /\ Standing'

LEMMA QuietKeeps == ASSUME ThreadInv, Quiet PROVE ThreadInv'
<1>1. Added' = Added /\ Oldest' = Oldest
  BY DEF Quiet, Added, Oldest
<1>2. ThreadTypes' /\ InSequence'
  BY DEF ThreadInv, ThreadTypes, InSequence, Quiet
<1>3. PointersFollow'
  BY <1>1 DEF ThreadInv, PointersFollow, Quiet
<1>4. CountsAgree'
  BY <1>1 DEF ThreadInv, CountsAgree, Quiet
<1>5. ContentsFollow'
  BY <1>1 DEF ThreadInv, ContentsFollow, Quiet
<1> QED
  BY <1>2, <1>3, <1>4, <1>5 DEF ThreadInv, Quiet
----------------------------------------------------------------------------
LEMMA MainKeeps ==
  ASSUME ThreadInv, StartProducer \/ StartConsumer \/ StopProducer \/ MainStop
  PROVE  ThreadInv'
<1>0. Standing /\ ThreadTypes
  BY DEF ThreadInv
<1>1. CASE StartProducer
  <2>1. Quiet
    BY <1>0, <1>1 DEF StartProducer, Quiet, Standing, MainGoes, buffer, checked, flags, Queue_there
  <2> QED
    BY <2>1, QuietKeeps
<1>2. CASE StartConsumer
  <2>1. Quiet
    BY <1>0, <1>2 DEF StartConsumer, Quiet, Standing, MainGoes, buffer, checked, flags, Queue_there
  <2> QED
    BY <2>1, QuietKeeps
<1>3. CASE StopProducer
  <2>1. Quiet
    BY <1>0, <1>3 DEF StopProducer, Quiet, Standing, MainGoes, buffer, checked, Queue_there
  <2> QED
    BY <2>1, QuietKeeps
<1>4. CASE StopConsumer
  <2>1. Quiet
    BY <1>0, <1>4 DEF StopConsumer, Quiet, Standing, MainGoes, buffer, checked, Queue_there
  <2> QED
    BY <2>1, QuietKeeps
<1>5. CASE JoinConsumer
  <2>1. Quiet
    BY <1>0, <1>5 DEF JoinConsumer, Quiet, Standing, MainGoes, buffer, checked, flags, Queue_there
  <2> QED
    BY <2>1, QuietKeeps
<1>6. CASE Return
  <2>1. Quiet
    BY <1>0, <1>6 DEF Return, Quiet, Standing, MainGoes, buffer, checked, flags, Queue_there
  <2> QED
    BY <2>1, QuietKeeps
<1>7. CASE DeleteQueue
  <2>1. /\ myQueue' = <<>> /\ consumer = "ended" /\ main' = "deleted"
        /\ UNCHANGED <<numberOfItems, msg, msgCount, prevMsgCount, pointer, problem, reused, producer, consumer>>
    BY <1>0, <1>7 DEF DeleteQueue, MainGoes, Standing, checked
  <2>2. ThreadTypes' /\ Standing' /\ InSequence' /\ CountsAgree'
    BY <1>0, <2>1 DEF ThreadInv, ThreadTypes, Standing, InSequence, CountsAgree, Queue_there
  <2>3. Len(myQueue') = 0 /\ Added' = Added /\ Added \in Nat
    BY <1>0, <2>1 DEF Added, Standing, ThreadTypes
  <2>4. PointersFollow' /\ ContentsFollow'
    BY <1>0, <2>1, <2>3, QueueAssumption
    DEF ThreadInv, PointersFollow, ContentsFollow, Oldest, Standing, ThreadTypes, Added
  <2> QED
    BY <2>2, <2>4 DEF ThreadInv
<1> QED
  BY <1>1, <1>2, <1>3, <1>4, <1>5, <1>6, <1>7 DEF MainStop
----------------------------------------------------------------------------
LEMMA WriteKeeps == ASSUME ThreadInv, WriteMessage PROVE ThreadInv'
<1>0. ThreadTypes /\ Standing /\ PointersFollow /\ CountsAgree /\ ContentsFollow /\ InSequence
  BY DEF ThreadInv
<1> DEFINE new == Slot(msgCount)
<1>1. new \in Pool /\ msgCount \in Nat
  BY <1>0, SlotInPool DEF ThreadTypes
<1>2. /\ producer = "loop" /\ producer' = "add"
      /\ msgCount' = msgCount + 1
      /\ msg' = [msg EXCEPT ![new] = msgCount]
      /\ reused' = (reused \/ InUse(new))
      /\ UNCHANGED <<numberOfItems, myQueue, prevMsgCount, pointer, problem, main, consumer>>
  BY DEF WriteMessage, buffer, checked
<1> HIDE DEF new
<1>3. Added = msgCount /\ Added' = Added /\ Oldest' = Oldest
  BY <1>1, <1>2 DEF Added, Oldest
<1>4. ThreadTypes' /\ Standing'
  <2>1. msg' \in [Pool -> Int]
    BY <1>0, <1>1, <1>2 DEF ThreadTypes
  <2>2. reused' \in BOOLEAN
    BY <1>2
  <2> QED
    BY <1>0, <1>1, <1>2, <2>1, <2>2 DEF ThreadTypes, Standing
<1>5. PointersFollow' /\ CountsAgree'
  BY <1>0, <1>2, <1>3 DEF PointersFollow, CountsAgree, Queue_there
<1>6. Len(myQueue) \in Nat /\ (\A i \in 1..Len(myQueue) : myQueue[i] \in Pool) /\ numberOfItems \in Nat
  BY <1>0, QueueAssumption DEF ThreadTypes
<1>7. ContentsFollow'
  <2>1. ~reused' => ~reused /\ ~InUse(new)
    BY <1>2
  <2>2. Slot(msgCount' - 1) = new
    <3>1. msgCount' - 1 = msgCount
      BY <1>1, <1>2
    <3> QED
      BY <3>1 DEF new
  <2> SUFFICES ASSUME ~reused, ~InUse(new) PROVE
        /\ \A i \in 1..Len(myQueue) : msg'[myQueue[i]] = Oldest + i - 1
        /\ consumer = "use" => msg'[pointer] = Oldest - 1
        /\ msg'[new] = msgCount' - 1
    BY <1>2, <1>3, <2>1, <2>2 DEF ContentsFollow
  <2>3. msg \in [Pool -> Int]
    BY <1>0 DEF ThreadTypes
  <2>4. ASSUME NEW i \in 1..Len(myQueue) PROVE msg'[myQueue[i]] = Oldest + i - 1
    BY <1>0, <1>1, <1>2, <1>6, <2>3 DEF ContentsFollow, InUse
  <2>5. ASSUME consumer = "use" PROVE msg'[pointer] = Oldest - 1
    <3>1. pointer \in Pool
      <4>1. Oldest \in Int /\ Oldest >= 1 /\ pointer = Slot(Oldest - 1)
        BY <1>0, <1>1, <1>3, <1>6, <2>5 DEF PointersFollow, Oldest
      <4> QED
        BY <4>1, SlotInPool
    <3> QED
      BY <1>0, <1>1, <1>2, <2>3, <2>5, <3>1 DEF ContentsFollow, InUse
  <2>6. msg'[new] = msgCount' - 1
    BY <1>1, <1>2, <2>3
  <2> QED
    BY <2>4, <2>5, <2>6
<1>8. InSequence'
  <2>1. InUse(new) => numberOfItems > MAX_MSG_COUNT - 2
    <3> SUFFICES ASSUME InUse(new) PROVE numberOfItems > MAX_MSG_COUNT - 2
      OBVIOUS
    <3>1. CASE new = pointer
      <4>1. new # NULL
        BY <1>1, QueueAssumption DEF NULL, Pool
      <4>2. Oldest >= 1 /\ pointer = Slot(Oldest - 1)
        BY <1>0, <3>1, <4>1 DEF Standing, PointersFollow
      <4>3. Oldest - 1 \in Nat /\ Oldest - 1 < msgCount
        BY <1>1, <1>3, <1>6, <4>2 DEF Oldest
      <4>4. msgCount - (Oldest - 1) >= MAX_MSG_COUNT
        BY <1>1, <3>1, <4>2, <4>3, SameSlot DEF new
      <4> QED
        BY <1>0, <1>1, <1>3, <1>6, <4>4, QueueAssumption DEF PointersFollow, Oldest
    <3>2. CASE \E i \in 1..Len(myQueue) : myQueue[i] = new
      <4>1. PICK i \in 1..Len(myQueue) : myQueue[i] = new
        BY <3>2
      <4> DEFINE b == Oldest + i - 1
      <4>2. new = Slot(b)
        BY <1>0, <4>1 DEF PointersFollow
      <4>3. b \in Nat /\ b < msgCount
        BY <1>0, <1>1, <1>3, <1>6 DEF Oldest, PointersFollow
      <4> HIDE DEF b
      <4>4. msgCount - b >= MAX_MSG_COUNT
        BY <1>1, <4>2, <4>3, SameSlot DEF new
      <4> QED
        BY <1>0, <1>1, <1>3, <1>6, <4>4, QueueAssumption DEF PointersFollow, Oldest, b
    <3> QED
      BY <3>1, <3>2 DEF InUse
  <2> QED
    BY <1>0, <1>2, <2>1 DEF InSequence
<1> QED
  BY <1>4, <1>5, <1>7, <1>8 DEF ThreadInv

LEMMA AddKeeps == ASSUME ThreadInv, addMessage PROVE ThreadInv'
<1>0. ThreadTypes /\ Standing /\ PointersFollow /\ CountsAgree /\ ContentsFollow /\ InSequence
  BY DEF ThreadInv
<1> DEFINE last == Slot(msgCount - 1)
           n == Len(myQueue)
<1>1. /\ producer = "add" /\ producer' = "loop"
      /\ n < numberOfItems
      /\ myQueue' = Append(myQueue, last)
      /\ UNCHANGED <<numberOfItems, msg, msgCount, prevMsgCount, pointer, problem, reused, main, consumer>>
  <2>1. n \in Nat /\ numberOfItems \in Nat
    BY <1>0, QueueAssumption DEF ThreadTypes
  <2> QED
    BY <2>1 DEF addMessage, Full, checked
<1>2. msgCount \in Nat /\ msgCount > 0 /\ last \in Pool
  BY <1>0, <1>1, SlotInPool DEF ThreadTypes, Standing
<1>3. /\ myQueue' \in Seq(Pool) /\ Len(myQueue') = n + 1 /\ n \in Nat
      /\ \A i \in 1..n : myQueue'[i] = myQueue[i]
      /\ myQueue'[n + 1] = last
  BY <1>0, <1>1, <1>2 DEF ThreadTypes
<1> HIDE DEF last, n
<1>4. /\ Added = msgCount - 1 /\ Added' = msgCount /\ Oldest = msgCount - 1 - n /\ Oldest' = Oldest
  BY <1>1, <1>2, <1>3 DEF Added, Oldest, n
<1>5. ThreadTypes' /\ Standing' /\ InSequence' /\ CountsAgree'
  BY <1>0, <1>1, <1>3, <1>4 DEF ThreadTypes, Standing, InSequence, CountsAgree, Queue_there
<1>6. PointersFollow'
  <2>1. n + 1 <= numberOfItems
    BY <1>0, <1>1, <1>3, QueueAssumption DEF ThreadTypes
  <2>2. ASSUME NEW i \in 1..(n + 1) PROVE myQueue'[i] = Slot(Oldest + i - 1)
    <3>1. CASE i = n + 1
      <4>1. Oldest + i - 1 = msgCount - 1
        BY <1>2, <1>3, <1>4, <3>1
      <4> QED
        BY <1>3, <3>1, <4>1 DEF last
    <3>2. CASE i # n + 1
      <4>1. i \in 1..n
        BY <1>3, <3>2
      <4> QED
        BY <1>0, <1>3, <4>1 DEF PointersFollow, n
    <3> QED
      BY <3>1, <3>2
  <2> QED
    BY <1>0, <1>1, <1>3, <1>4, <2>1, <2>2 DEF PointersFollow
<1>7. ContentsFollow'
  <2> SUFFICES ASSUME ~reused
               PROVE  /\ \A i \in 1..(n + 1) : msg[myQueue'[i]] = Oldest + i - 1
                      /\ consumer = "use" => msg[pointer] = Oldest - 1
    BY <1>1, <1>3, <1>4 DEF ContentsFollow
  <2>1. ASSUME NEW i \in 1..(n + 1) PROVE msg[myQueue'[i]] = Oldest + i - 1
    <3>1. CASE i = n + 1
      <4>1. msg[last] = msgCount - 1
        BY <1>0, <1>1 DEF ContentsFollow, last
      <4> QED
        BY <1>2, <1>3, <1>4, <3>1, <4>1
    <3>2. CASE i # n + 1
      <4>1. i \in 1..n
        BY <1>3, <3>2
      <4> QED
        BY <1>0, <1>3, <4>1 DEF ContentsFollow, n
    <3> QED
      BY <3>1, <3>2
  <2> QED
    BY <1>0, <2>1 DEF ContentsFollow
<1> QED
  BY <1>5, <1>6, <1>7 DEF ThreadInv
----------------------------------------------------------------------------
(* A look at the queue takes the oldest message into the hand.             *)
LEMMA TakeKeeps ==
  ASSUME ThreadInv, consumer # "use", consumer # "ended", consumer # "none",
         myQueue # <<>>, consumer' = "use",
         pointer' = Head(myQueue), myQueue' = Tail(myQueue),
         UNCHANGED <<numberOfItems, msg, msgCount, prevMsgCount, problem, reused, main, producer>>
  PROVE  ThreadInv'
<1>0. ThreadTypes /\ Standing /\ PointersFollow /\ CountsAgree /\ ContentsFollow /\ InSequence
  BY DEF ThreadInv
<1> DEFINE n == Len(myQueue)
<1>1. /\ n \in Nat /\ n > 0
      /\ myQueue' \in Seq(Pool) /\ Len(myQueue') = n - 1
      /\ \A i \in 1..(n - 1) : myQueue'[i] = myQueue[i + 1]
      /\ pointer' = myQueue[1]
  BY <1>0 DEF ThreadTypes
<1> HIDE DEF n
<1>2. Added \in Int /\ Oldest = Added - n /\ Oldest \in Int /\ Oldest' = Oldest + 1
  BY <1>0, <1>1 DEF Added, Oldest, ThreadTypes, n
<1>3. ThreadTypes' /\ Standing' /\ InSequence'
  BY <1>0, <1>1 DEF ThreadTypes, Standing, InSequence
<1>4. CountsAgree'
  BY <1>0, <1>2 DEF CountsAgree, Queue_there
<1>5. PointersFollow'
  <2>1. n - 1 <= numberOfItems
    BY <1>0, <1>1, QueueAssumption DEF ThreadTypes, PointersFollow, n
  <2>2. pointer' = Slot(Oldest' - 1)
    <3>1. Oldest' - 1 = Oldest + 1 - 1
      BY <1>2
    <3> QED
      BY <1>0, <1>1, <3>1 DEF PointersFollow, n
  <2>3. ASSUME NEW i \in 1..(n - 1) PROVE myQueue'[i] = Slot(Oldest' + i - 1)
    <3>1. i + 1 \in 1..n /\ Oldest' + i - 1 = Oldest + (i + 1) - 1
      BY <1>1, <1>2
    <3> QED
      BY <1>0, <1>1, <3>1 DEF PointersFollow, n
  <2> QED
    BY <1>0, <1>1, <1>2, <2>1, <2>2, <2>3 DEF PointersFollow
<1>6. ContentsFollow'
  <2> SUFFICES ASSUME ~reused
               PROVE  /\ \A i \in 1..(n - 1) : msg[myQueue'[i]] = Oldest' + i - 1
                      /\ msg[pointer'] = Oldest' - 1
                      /\ producer = "add" => msg[Slot(msgCount - 1)] = msgCount - 1
    BY <1>1 DEF ContentsFollow
  <2>1. ASSUME NEW i \in 1..(n - 1) PROVE msg[myQueue'[i]] = Oldest' + i - 1
    <3>1. i + 1 \in 1..n /\ Oldest' + i - 1 = Oldest + (i + 1) - 1
      BY <1>1, <1>2
    <3> QED
      BY <1>0, <1>1, <3>1 DEF ContentsFollow, n
  <2>2. msg[pointer'] = Oldest' - 1
    <3>1. 1 \in 1..n /\ Oldest' - 1 = Oldest + 1 - 1
      BY <1>1, <1>2
    <3> QED
      BY <1>0, <1>1, <3>1 DEF ContentsFollow, n
  <2> QED
    BY <1>0, <2>1, <2>2 DEF ContentsFollow
<1> QED
  BY <1>3, <1>4, <1>5, <1>6 DEF ThreadInv

(* A number out of sequence can only be that of a message overwritten.     *)
LEMMA CheckKeeps == ASSUME ThreadInv, CheckNumber PROVE ThreadInv'
<1>0. ThreadTypes /\ Standing /\ PointersFollow /\ CountsAgree /\ ContentsFollow /\ InSequence
  BY DEF ThreadInv
<1>1. /\ consumer = "use" /\ pointer' = NULL
      /\ UNCHANGED <<numberOfItems, myQueue, msg, msgCount, reused, main, producer>>
  BY DEF CheckNumber, buffer
<1>2. ~problem /\ Queue_there
  BY <1>0, <1>1 DEF Standing, Queue_there
<1>3. Oldest' = Oldest /\ prevMsgCount + 1 = Oldest - 1 /\ Oldest \in Int
  <2>1. Added \in Int /\ Len(myQueue) \in Nat
    BY <1>0 DEF Added, ThreadTypes
  <2> QED
    BY <1>0, <1>1, <1>2, <2>1 DEF CountsAgree, Added, Oldest
<1>4. \/ consumer' = "loop" /\ prevMsgCount' = prevMsgCount + 1 /\ problem' = problem
      \/ consumer' = "ended" /\ prevMsgCount' = prevMsgCount /\ problem' = TRUE /\ reused
  BY <1>0, <1>1, <1>3 DEF CheckNumber, ContentsFollow
<1>5. ThreadTypes' /\ Standing'
  <2>1. prevMsgCount' \in Int
    BY <1>0, <1>4 DEF ThreadTypes
  <2>2. problem \in BOOLEAN
    BY <1>0 DEF ThreadTypes
  <2>3. problem' \in BOOLEAN
    BY <1>4, <2>2, Zenon
  <2>4. main \notin {"start", "startConsumer", "delete", "deleted", "returned"}
    BY <1>0, <1>1 DEF Standing
  <2>5. Standing'
    BY <1>0, <1>1, <1>2, <1>4, <2>4 DEF Standing
  <2> QED
    BY <1>0, <1>1, <2>3, <2>5, <2>1 DEF ThreadTypes
<1>6. PointersFollow'
  BY <1>0, <1>1, <1>3, <1>4 DEF PointersFollow
<1>7. CountsAgree'
  BY <1>0, <1>1, <1>3, <1>4 DEF CountsAgree, ThreadTypes
<1>8. ContentsFollow'
  BY <1>0, <1>1, <1>3, <1>4 DEF ContentsFollow
<1>9. InSequence'
  BY <1>0, <1>1, <1>2, <1>4 DEF InSequence
<1> QED
  BY <1>5, <1>6, <1>7, <1>8, <1>9 DEF ThreadInv
----------------------------------------------------------------------------
LEMMA ProducerKeeps == ASSUME ThreadInv, ProducerStep PROVE ThreadInv'
<1>1. CASE ProducerEnds
  <2>1. Quiet
    BY <1>1 DEF ThreadInv, ProducerEnds, Quiet, Standing, buffer, checked, Queue_there
  <2> QED
    BY <2>1, QuietKeeps
<1> QED
  BY <1>1, WriteKeeps, AddKeeps DEF ProducerStep

LEMMA ConsumerKeeps == ASSUME ThreadInv, ConsumerStep PROVE ThreadInv'
<1>0. Standing
  BY DEF ThreadInv
<1>1. CASE ConsumerLoop
  <2>1. Quiet
    BY <1>0, <1>1 DEF ConsumerLoop, Quiet, Standing, buffer, checked, Queue_there
  <2> QED
    BY <2>1, QuietKeeps
<1>2. CASE Signalled
  <2>1. Quiet
    BY <1>0, <1>2 DEF Signalled, ConsumerGoes, Quiet, Standing, checked, Queue_there
  <2> QED
    BY <2>1, QuietKeeps
<1>3. CASE TimedOut
  <2>1. Quiet
    BY <1>0, <1>3 DEF TimedOut, ConsumerGoes, Quiet, Standing, buffer, checked, Queue_there
  <2> QED
    BY <2>1, QuietKeeps
<1>4. ASSUME NEW none \in {"wait", "loop"}, consumer \in {"look", "lookAgain"},
             CheckForItemsInQueue(none),
             UNCHANGED <<numberOfItems, msg, msgCount, prevMsgCount, problem, reused, main, producer>>
      PROVE  ThreadInv'
  <2>1. CASE myQueue = <<>>
    <3>1. Quiet
      BY <1>0, <1>4, <2>1 DEF CheckForItemsInQueue, Quiet, Standing, Queue_there
    <3> QED
      BY <3>1, QuietKeeps
  <2>2. CASE myQueue # <<>>
    BY <1>4, <2>2, TakeKeeps DEF CheckForItemsInQueue
  <2> QED
    BY <2>1, <2>2
<1>5. CASE Look
  BY <1>4, <1>5 DEF Look
<1>6. CASE LookAgain
  BY <1>4, <1>6 DEF LookAgain
<1> QED
  BY <1>1, <1>2, <1>3, <1>5, <1>6, CheckKeeps DEF ConsumerStep

LEMMA ThreadStart == Init => ThreadInv
<1> SUFFICES ASSUME Init PROVE ThreadInv
  OBVIOUS
<1>0. Len(myQueue) = 0 /\ myQueue \in Seq(Pool)
  BY DEF Init
<1>1. Added = 0 /\ Oldest = 0
  <2>1. Added = 0
    BY DEF Init, Added
  <2> QED
    BY <1>0, <2>1 DEF Oldest
<1>2. ThreadTypes /\ Standing /\ InSequence
  <2>1. /\ msg \in [Pool -> Int] /\ prevMsgCount \in Int /\ msgCount \in Nat
        /\ numberOfItems \in Capacities
    BY DEF Init
  <2>2. problem = FALSE /\ reused = FALSE
    BY DEF Init
  <2>3. ThreadTypes
    BY <1>0, <2>1, <2>2 DEF ThreadTypes
  <2>4. Standing
    BY DEF Init, Standing
  <2> QED
    BY <2>2, <2>3, <2>4 DEF InSequence
<1>3. PointersFollow
  BY <1>0, <1>1, QueueAssumption DEF Init, PointersFollow
<1>4. CountsAgree /\ ContentsFollow
  BY <1>0, <1>1 DEF Init, CountsAgree, ContentsFollow
<1> QED
  BY <1>2, <1>3, <1>4 DEF ThreadInv

LEMMA ThreadStep == ThreadInv /\ [Next]_vars => ThreadInv'
<1> SUFFICES ASSUME ThreadInv, [Next]_vars PROVE ThreadInv'
  OBVIOUS
<1>1. CASE UNCHANGED vars
  <2>1. Quiet
    BY <1>1 DEF ThreadInv, vars, buffer, checked, Quiet, Standing, Queue_there
  <2> QED
    BY <2>1, QuietKeeps
<1> QED
  BY <1>1, MainKeeps, ProducerKeeps, ConsumerKeeps DEF Next

(* What the invariant counts from the producer's end is what NothingLost   *)
(* counts from the consumer's.                                             *)
LEMMA NothingIsLost == ThreadInv => NothingLost
<1> SUFFICES ASSUME ThreadInv, ~problem, Queue_there
             PROVE  /\ Len(myQueue) <= numberOfItems
                    /\ msgCount = prevMsgCount + 1 + Len(InTransit) + (IF producer = "add" THEN 1 ELSE 0)
                    /\ \A i \in 1..Len(InTransit) : InTransit[i] = (prevMsgCount + i) % MAX_MSG_COUNT
  BY DEF NothingLost
<1>0. ThreadTypes /\ PointersFollow /\ CountsAgree
  BY DEF ThreadInv
<1> DEFINE n == Len(myQueue)
<1>1. n \in Nat /\ msgCount \in Nat /\ prevMsgCount \in Int
  BY <1>0 DEF ThreadTypes
<1>2. /\ Oldest = msgCount - (IF producer = "add" THEN 1 ELSE 0) - n
      /\ prevMsgCount + 1 = IF consumer = "use" THEN Oldest - 1 ELSE Oldest
  BY <1>0, <1>1 DEF CountsAgree, Oldest, Added
<1>3. CASE consumer = "use"
  <2>1. InTransit = <<pointer>> \o myQueue
    BY <1>3 DEF InTransit, InHand
  <2>2. /\ Len(InTransit) = n + 1 /\ InTransit[1] = pointer
        /\ \A i \in 2..(n + 1) : InTransit[i] = myQueue[i - 1]
    <3>1. <<pointer>> \in Seq({pointer} \cup Pool) /\ myQueue \in Seq({pointer} \cup Pool)
      BY <1>0 DEF ThreadTypes
    <3> QED
      BY <2>1, <3>1
  <2>3. ASSUME NEW i \in 1..(n + 1) PROVE InTransit[i] = Slot(prevMsgCount + i)
    <3>1. CASE i = 1
      <4>1. Oldest - 1 = prevMsgCount + i
        BY <1>1, <1>2, <1>3, <3>1
      <4> QED
        BY <1>0, <1>3, <2>2, <3>1, <4>1 DEF PointersFollow
    <3>2. CASE i # 1
      <4>1. i \in 2..(n + 1) /\ i - 1 \in 1..n /\ Oldest + (i - 1) - 1 = prevMsgCount + i
        BY <1>1, <1>2, <1>3, <3>2
      <4>2. myQueue[i - 1] = Slot(Oldest + (i - 1) - 1)
        BY <1>0, <4>1 DEF PointersFollow
      <4> QED
        BY <2>2, <4>1, <4>2
    <3> QED
      BY <3>1, <3>2
  <2> HIDE DEF n
  <2> QED
    BY <1>0, <1>1, <1>2, <1>3, <2>2, <2>3 DEF PointersFollow, Slot, n
<1>4. CASE consumer # "use"
  <2>1. InTransit = myQueue
    BY <1>0, <1>4 DEF InTransit, InHand, ThreadTypes
  <2>2. ASSUME NEW i \in 1..n PROVE myQueue[i] = Slot(prevMsgCount + i)
    <3>1. Oldest + i - 1 = prevMsgCount + i
      BY <1>1, <1>2, <1>4
    <3> QED
      BY <1>0, <3>1 DEF PointersFollow
  <2>3. Len(InTransit) = n /\ n <= numberOfItems
    BY <1>0, <2>1 DEF PointersFollow
  <2>4. \A i \in 1..n : InTransit[i] = (prevMsgCount + i) % MAX_MSG_COUNT
    BY <2>1, <2>2 DEF Slot
  <2>5. msgCount = prevMsgCount + 1 + n + (IF producer = "add" THEN 1 ELSE 0)
    BY <1>1, <1>2, <1>4
  <2> QED
    BY <2>3, <2>4, <2>5
<1> QED
  BY <1>3, <1>4

(* Whatever the capacity and the pool: no pointer is lost, doubled or out  *)
(* of order on its way (Queue::addMessage, getMessage).                    *)
THEOREM PointersKept == Spec => []NothingLost
<1> QED
  BY ThreadStart, ThreadStep, NothingIsLost, PTL DEF Spec

(* The consumer's error needs a pool slot that was written too early, and  *)
(* that needs a queue that can hold all but one of the pool's messages     *)
(* (ProducerThread::threadOperation, ConsumerThread::threadOperation).     *)
THEOREM NumbersInSequence == Spec => []InSequence
<1>1. ThreadInv => InSequence
  BY DEF ThreadInv
<1> QED
  BY <1>1, ThreadStart, ThreadStep, PTL DEF Spec
----------------------------------------------------------------------------
(* The Qt test program.  While producers of no two starts take a number at *)
(* once every number is given once, so that message 1 is in one place      *)
(* (FirstIsOnce); in the first start the consumer gets the numbers in      *)
(* order (FirstInOrder).                                                   *)
QtTypes ==
  /\ session \in 0..MaxSessions
  /\ qtQueue \in Seq(Nat)
  /\ qtCount \in Nat \ {0}
  /\ maker \in [Sessions -> {"none", "loop", "number", "add", "ended"}]
  /\ making \in [Sessions -> Nat]
  /\ accepted \in [Sessions -> Nat]
  /\ taken \in Nat

(* Where the window, the consumer and the producers may stand.             *)
QtStanding ==
  /\ taker # "check" => taken = 0
  /\ window \in {"idle", "stopping", "deleting"} => taker \in {"none", "ended"}
  /\ \A s \in Sessions : s > session => maker[s] = "none" /\ accepted[s] = 0
  /\ window = "starting" => session \in Sessions /\ maker[session] = "none"
  /\ window # "idle" => session \in Sessions

NumberOnce ==
  \A r, s \in Sessions : maker[r] = "number" /\ maker[s] = "number" => r = s

Numbers ==
  /\ \A s \in Sessions : maker[s] = "number" => making[s] = qtCount
  /\ \A s \in Sessions : maker[s] = "add" => making[s] < qtCount /\ making[s] > 0
  /\ \A i \in 1..Len(qtQueue) : qtQueue[i] < qtCount
  /\ taken < qtCount
  /\ \A s \in Sessions : accepted[s] < qtCount

MadeOne(s) == maker[s] = "add" /\ making[s] = 1
OneQueued == \E i \in 1..Len(qtQueue) : qtQueue[i] = 1
OneAccepted == \E s \in Sessions : accepted[s] > 0

FirstIsOnce ==
  /\ \A r, s \in Sessions : MadeOne(r) /\ MadeOne(s) => r = s
  /\ \A i, j \in 1..Len(qtQueue) : qtQueue[i] = 1 /\ qtQueue[j] = 1 => i = j
  /\ \A r, s \in Sessions : accepted[r] > 0 /\ accepted[s] > 0 => r = s
  /\ (\E s \in Sessions : MadeOne(s)) => ~OneQueued /\ taken # 1 /\ ~OneAccepted
  /\ OneQueued => taken # 1 /\ ~OneAccepted
  /\ taken = 1 => ~OneAccepted

AcceptedOnce == \A r, s \in Sessions : accepted[r] > 0 /\ accepted[s] > 0 => r = s
AcceptedAlone == OneAccepted => ~OneQueued /\ \A s \in Sessions : ~MadeOne(s)

Held1 == IF taker = "check" THEN 1 ELSE 0
FirstInOrder ==
  session <= 1 =>
    /\ taker = "check" => taken = accepted[1] + 1
    /\ \A i \in 1..Len(qtQueue) : qtQueue[i] = accepted[1] + Held1 + i
    /\ maker[1] = "number" => making[1] = qtCount
    /\ maker[1] = "add" => making[1] = qtCount - 1
    /\ qtCount - 1 = accepted[1] + Held1 + Len(qtQueue) + (IF maker[1] = "add" THEN 1 ELSE 0)

QtInv ==
  /\ QtTypes /\ QtStanding /\ FirstInOrder /\ 1 \notin mismatch
  /\ ~doubled => NumberOnce /\ Numbers /\ FirstIsOnce

(* A step that moves no number.                                            *)
LEMMA NumbersStay ==
  ASSUME QtInv, QtTypes', QtStanding',
         UNCHANGED <<qtQueue, qtCount, making, taken, accepted, doubled>>,
         \A s \in Sessions : /\ maker'[s] = "number" <=> maker[s] = "number"
                             /\ maker'[s] = "add" <=> maker[s] = "add",
         taker' = "check" <=> taker = "check", session' <= 1 => session <= 1, mismatch' = mismatch
  PROVE  QtInv'
<1>1. 1 \in Sessions
  BY QtAssumption DEF Sessions
<1>2. FirstInOrder'
  BY <1>1 DEF QtInv, FirstInOrder, Held1
<1>3. ASSUME ~doubled PROVE NumberOnce' /\ Numbers' /\ FirstIsOnce'
  <2>1. NumberOnce'
    BY <1>3 DEF QtInv, NumberOnce
  <2>2. Numbers'
    BY <1>3 DEF QtInv, Numbers
  <2>3. \A s \in Sessions : MadeOne(s)' <=> MadeOne(s)
    BY DEF MadeOne
  <2>4. (OneQueued' <=> OneQueued) /\ (OneAccepted' <=> OneAccepted)
    BY DEF OneQueued, OneAccepted
  <2>5. FirstIsOnce'
    BY <1>3, <2>3, <2>4 DEF QtInv, FirstIsOnce
  <2> QED
    BY <2>1, <2>2, <2>5
<1> QED
  BY <1>2, <1>3 DEF QtInv

LEMMA WindowKeeps == ASSUME QtInv, ClickStart \/ ClickStop \/ WindowWorks PROVE QtInv'
<1>0. QtTypes /\ QtStanding
  BY DEF QtInv
<1>1. CASE ClickStart
  <2>1. /\ session < MaxSessions /\ window = "idle" /\ window' = "starting"
        /\ session' = session + 1 /\ taker' = "loop"
        /\ UNCHANGED <<qtQueue, qtCount, maker, making, taken, accepted, doubled, mismatch>>
    BY <1>1 DEF ClickStart, WindowGoes, qtBuffer, qtChecked
  <2>2. session' \in Sessions /\ session' \in 0..MaxSessions /\ session' > session
    BY <1>0, <2>1, QtAssumption DEF QtTypes, Sessions
  <2>3. QtTypes'
    BY <1>0, <2>1, <2>2 DEF QtTypes
  <2>4. \A s \in Sessions : s > session' => s > session
    BY <1>0, <2>1 DEF QtTypes, Sessions
  <2>5. taken = 0 /\ taker # "check"
    BY <1>0, <2>1 DEF QtStanding
  <2>6. QtStanding'
    BY <1>0, <2>1, <2>2, <2>4, <2>5 DEF QtStanding
  <2>7. session' <= 1 => session <= 1
    BY <1>0, <2>1 DEF QtTypes
  <2> QED
    BY <2>1, <2>3, <2>5, <2>6, <2>7, NumbersStay
<1>2. CASE StartMaker
  <2>1. /\ window = "starting" /\ window' = "running"
        /\ maker' = [maker EXCEPT ![session] = "loop"]
        /\ UNCHANGED <<qtQueue, qtCount, session, making, taker, taken, accepted, doubled, mismatch>>
    BY <1>2 DEF StartMaker, WindowGoes, qtBuffer, qtChecked
  <2>2. session \in Sessions /\ maker[session] = "none"
    BY <1>0, <2>1 DEF QtStanding
  <2>3. /\ maker' \in [Sessions -> {"none", "loop", "number", "add", "ended"}]
        /\ \A s \in Sessions : maker'[s] = IF s = session THEN "loop" ELSE maker[s]
    BY <1>0, <2>1, <2>2 DEF QtTypes
  <2>4. QtTypes'
    BY <1>0, <2>1, <2>3 DEF QtTypes
  <2>5. \A s \in Sessions : s > session => s # session
    BY <2>2, QtAssumption DEF Sessions
  <2>6. QtStanding'
    BY <1>0, <2>1, <2>2, <2>3, <2>5 DEF QtStanding
  <2> QED
    BY <2>1, <2>2, <2>3, <2>4, <2>6, NumbersStay
<1>3. CASE ClickStop \/ JoinTaker \/ StopMaker \/ DeleteThreads
  <2>1. UNCHANGED <<qtQueue, qtCount, session, maker, making, taker, taken, accepted, doubled, mismatch>>
    BY <1>3 DEF ClickStop, JoinTaker, StopMaker, DeleteThreads, qtBuffer, qtChecked
  <2>2. QtTypes'
    BY <1>0, <2>1 DEF QtTypes
  <2>3. QtStanding'
    BY <1>0, <1>3, <2>1 DEF QtStanding, ClickStop, JoinTaker, StopMaker, DeleteThreads, WindowGoes
  <2> QED
    BY <2>1, <2>2, <2>3, NumbersStay
<1> QED
  BY <1>1, <1>2, <1>3 DEF WindowWorks

(* Only a producer that has been started takes a step.                     *)
LEMMA MakerIs ==
  ASSUME QtTypes, QtStanding, NEW s \in Sessions, NEW from,
         NEW to \in {"loop", "number", "add", "ended"},
         MakerGoes(s, from, to), from # "none", UNCHANGED <<session, window, taker, taken, accepted>>
  PROVE  /\ maker[s] = from /\ maker'[s] = to
         /\ \A r \in Sessions : r # s => maker'[r] = maker[r]
         /\ maker' \in [Sessions -> {"none", "loop", "number", "add", "ended"}]
         /\ QtStanding' /\ ~ (s > session)
<1>1. /\ maker[s] = from /\ maker'[s] = to
      /\ \A r \in Sessions : r # s => maker'[r] = maker[r]
      /\ maker' \in [Sessions -> {"none", "loop", "number", "add", "ended"}]
  BY DEF MakerGoes, QtTypes
<1>2. ~ (s > session)
  BY <1>1 DEF QtStanding
<1>3. window = "starting" => s # session
  BY <1>1 DEF QtStanding
<1>4. QtStanding'
  BY <1>1, <1>2, <1>3 DEF QtStanding
<1> QED
  BY <1>1, <1>2, <1>4

LEMMA MakerEndsKeeps == ASSUME QtInv, NEW s \in Sessions, MakerEnds(s) PROVE QtInv'
<1>0. QtTypes /\ QtStanding
  BY DEF QtInv
<1>1. /\ MakerGoes(s, "loop", "ended")
      /\ UNCHANGED <<qtQueue, qtCount, window, session, making, taker, taken, accepted, doubled, mismatch>>
  BY DEF MakerEnds, qtBuffer, qtChecked
<1>2. /\ maker[s] = "loop" /\ maker'[s] = "ended" /\ QtStanding'
      /\ \A r \in Sessions : r # s => maker'[r] = maker[r]
      /\ maker' \in [Sessions -> {"none", "loop", "number", "add", "ended"}]
  BY <1>0, <1>1, MakerIs
<1>3. QtTypes'
  BY <1>0, <1>1, <1>2 DEF QtTypes
<1> QED
  BY <1>1, <1>2, <1>3, NumbersStay

LEMMA ReadNumberKeeps == ASSUME QtInv, NEW s \in Sessions, ReadNumber(s) PROVE QtInv'
<1>0. QtTypes /\ QtStanding
  BY DEF QtInv
<1>1. /\ MakerGoes(s, "loop", "number")
      /\ making' = [making EXCEPT ![s] = qtCount]
      /\ doubled' = (doubled \/ \E r \in Sessions \ {s} : maker[r] = "number")
      /\ UNCHANGED <<qtQueue, qtCount, window, session, taker, taken, accepted, mismatch>>
  BY DEF ReadNumber, qtBuffer, qtChecked
<1>2. /\ maker[s] = "loop" /\ maker'[s] = "number" /\ QtStanding' /\ ~ (s > session)
      /\ \A r \in Sessions : r # s => maker'[r] = maker[r]
      /\ maker' \in [Sessions -> {"none", "loop", "number", "add", "ended"}]
  BY <1>0, <1>1, MakerIs
<1>3. making' \in [Sessions -> Nat] /\ making'[s] = qtCount /\ \A r \in Sessions : r # s => making'[r] = making[r]
  BY <1>0, <1>1 DEF QtTypes
<1>4. QtTypes'
  BY <1>0, <1>1, <1>2, <1>3 DEF QtTypes
<1>5. FirstInOrder'
  <2>1. 1 \in Sessions
    BY QtAssumption DEF Sessions
  <2>2. maker'[1] = "add" <=> maker[1] = "add"
    BY <1>2, <2>1
  <2>3. maker'[1] = "number" => making'[1] = qtCount \/ (maker[1] = "number" /\ making'[1] = making[1])
    BY <1>2, <1>3, <2>1
  <2>4. maker'[1] = "add" => making'[1] = making[1]
    BY <1>2, <1>3, <2>1
  <2> QED
    BY <1>1, <2>2, <2>3, <2>4 DEF QtInv, FirstInOrder, Held1
<1>6. ASSUME ~doubled' PROVE NumberOnce' /\ Numbers' /\ FirstIsOnce'
  <2>1. ~doubled /\ \A r \in Sessions : r # s => maker[r] # "number"
    BY <1>1, <1>6
  <2>2. NumberOnce'
    BY <1>2, <2>1 DEF NumberOnce
  <2>3. Numbers'
    BY <1>1, <1>2, <1>3, <2>1 DEF QtInv, Numbers
  <2>4. \A r \in Sessions : MadeOne(r)' <=> MadeOne(r)
    BY <1>2, <1>3 DEF MadeOne
  <2>5. (OneQueued' <=> OneQueued) /\ (OneAccepted' <=> OneAccepted)
    BY <1>1 DEF OneQueued, OneAccepted
  <2>6. FirstIsOnce'
    BY <1>1, <2>1, <2>4, <2>5 DEF QtInv, FirstIsOnce
  <2> QED
    BY <2>2, <2>3, <2>6
<1> QED
  BY <1>1, <1>2, <1>4, <1>5, <1>6 DEF QtInv

LEMMA WriteNumberKeeps == ASSUME QtInv, NEW s \in Sessions, WriteNumber(s) PROVE QtInv'
<1>0. QtTypes /\ QtStanding
  BY DEF QtInv
<1>1. /\ MakerGoes(s, "number", "add")
      /\ qtCount' = making[s] + 1
      /\ UNCHANGED <<qtQueue, window, session, making, taker, taken, accepted, doubled, mismatch>>
  BY DEF WriteNumber, qtBuffer, qtChecked
<1>2. /\ maker[s] = "number" /\ maker'[s] = "add" /\ QtStanding' /\ ~ (s > session)
      /\ \A r \in Sessions : r # s => maker'[r] = maker[r]
      /\ maker' \in [Sessions -> {"none", "loop", "number", "add", "ended"}]
  BY <1>0, <1>1, MakerIs
<1>3. making[s] \in Nat /\ qtCount' \in Nat \ {0}
  BY <1>0, <1>1 DEF QtTypes
<1>4. QtTypes'
  BY <1>0, <1>1, <1>2, <1>3 DEF QtTypes
<1>5. FirstInOrder'
  <2> SUFFICES ASSUME session <= 1 PROVE FirstInOrder'
    BY <1>1 DEF FirstInOrder
  <2>1. s = 1 /\ 1 \in Sessions
    BY <1>0, <1>2, QtAssumption DEF Sessions, QtTypes
  <2>2. making[1] = qtCount /\ qtCount' = qtCount + 1 /\ qtCount \in Nat
    BY <1>0, <1>1, <1>2, <2>1 DEF QtInv, FirstInOrder, QtTypes
  <2>3. accepted[1] \in Nat /\ Held1 \in Nat /\ Len(qtQueue) \in Nat /\ Held1' = Held1
    BY <1>0, <1>1, <2>1 DEF QtTypes, Held1
  <2>4. qtCount - 1 = accepted[1] + Held1 + Len(qtQueue)
    BY <1>2, <2>1, <2>2, <2>3 DEF QtInv, FirstInOrder
  <2>5. maker'[1] = "add" /\ making' = making /\ accepted' = accepted /\ taken' = taken /\ taker' = taker
        /\ qtQueue' = qtQueue
    BY <1>1, <1>2, <2>1
  <2>6. /\ taker = "check" => taken = accepted[1] + 1
        /\ \A i \in 1..Len(qtQueue) : qtQueue[i] = accepted[1] + Held1 + i
    BY DEF QtInv, FirstInOrder
  <2>7. making[1] = qtCount' - 1 /\ qtCount' - 1 = accepted[1] + Held1 + Len(qtQueue) + 1
    BY <2>2, <2>3, <2>4
  <2> QED
    BY <2>3, <2>5, <2>6, <2>7 DEF FirstInOrder
<1>6. ASSUME ~doubled PROVE NumberOnce' /\ Numbers' /\ FirstIsOnce'
  <2>0. NumberOnce /\ Numbers /\ FirstIsOnce
    BY <1>6 DEF QtInv
  <2>1. making[s] = qtCount /\ qtCount' = qtCount + 1 /\ qtCount \in Nat \ {0}
    BY <1>0, <1>1, <1>2, <2>0 DEF Numbers, QtTypes
  <2>2. \A r \in Sessions : maker'[r] # "number"
    BY <1>2, <2>0 DEF NumberOnce
  <2>3. /\ \A r \in Sessions : making[r] \in Nat /\ accepted[r] \in Nat
        /\ \A i \in 1..Len(qtQueue) : qtQueue[i] \in Nat
        /\ taken \in Nat
    BY <1>0 DEF QtTypes
  <2>4. Numbers'
    BY <1>1, <1>2, <2>0, <2>1, <2>2, <2>3 DEF Numbers
  <2>5. (OneQueued' <=> OneQueued) /\ (OneAccepted' <=> OneAccepted)
    BY <1>1 DEF OneQueued, OneAccepted
  <2>6. FirstIsOnce'
    <3>1. CASE making[s] = 1
      <4>1. ~OneQueued /\ ~OneAccepted /\ taken # 1 /\ \A r \in Sessions : ~MadeOne(r)
        BY <2>0, <2>1, <2>3, <3>1 DEF Numbers, OneQueued, OneAccepted, MadeOne
      <4>2. \A r \in Sessions : MadeOne(r)' => r = s
        BY <1>1, <1>2, <4>1 DEF MadeOne
      <4> QED
        BY <1>1, <2>0, <2>5, <4>1, <4>2 DEF FirstIsOnce
    <3>2. CASE making[s] # 1
      <4>1. \A r \in Sessions : MadeOne(r)' <=> MadeOne(r)
        BY <1>1, <1>2, <3>2 DEF MadeOne
      <4> QED
        BY <1>1, <2>0, <2>5, <4>1 DEF FirstIsOnce
    <3> QED
      BY <3>1, <3>2
  <2> QED
    BY <2>2, <2>4, <2>6 DEF NumberOnce
<1> QED
  BY <1>1, <1>2, <1>4, <1>5, <1>6 DEF QtInv

LEMMA QtAddKeeps == ASSUME QtInv, NEW s \in Sessions, QtAddMessage(s) PROVE QtInv'
<1>0. QtTypes /\ QtStanding
  BY DEF QtInv
<1> DEFINE n == Len(qtQueue)
<1>1. /\ MakerGoes(s, "add", "loop")
      /\ qtQueue' = Append(qtQueue, making[s])
      /\ UNCHANGED <<qtCount, window, session, making, taker, taken, accepted, doubled, mismatch>>
  BY DEF QtAddMessage, qtChecked
<1>2. /\ maker[s] = "add" /\ maker'[s] = "loop" /\ QtStanding' /\ ~ (s > session)
      /\ \A r \in Sessions : r # s => maker'[r] = maker[r]
      /\ maker' \in [Sessions -> {"none", "loop", "number", "add", "ended"}]
  BY <1>0, <1>1, MakerIs
<1>3. /\ making[s] \in Nat /\ qtQueue' \in Seq(Nat) /\ n \in Nat /\ Len(qtQueue') = n + 1
      /\ qtQueue'[n + 1] = making[s] /\ \A i \in 1..n : qtQueue'[i] = qtQueue[i]
  BY <1>0, <1>1 DEF QtTypes
<1>4. QtTypes'
  BY <1>0, <1>1, <1>2, <1>3 DEF QtTypes
<1>5. FirstInOrder'
  <2> SUFFICES ASSUME session <= 1 PROVE FirstInOrder'
    BY <1>1 DEF FirstInOrder
  <2>1. s = 1 /\ 1 \in Sessions
    BY <1>0, <1>2, QtAssumption DEF Sessions, QtTypes
  <2>2. making[1] = qtCount - 1 /\ qtCount \in Nat
    BY <1>0, <1>2, <2>1 DEF QtInv, FirstInOrder, QtTypes
  <2>3. accepted[1] \in Nat /\ Held1 \in Nat /\ Held1' = Held1
    BY <1>0, <1>1, <2>1 DEF QtTypes, Held1
  <2>4. qtCount - 1 = accepted[1] + Held1 + n + 1
    BY <1>2, <2>1, <2>2, <2>3 DEF QtInv, FirstInOrder
  <2>5. ASSUME NEW i \in 1..(n + 1) PROVE qtQueue'[i] = accepted[1] + Held1 + i
    <3>1. CASE i = n + 1
      BY <1>3, <2>1, <2>2, <2>3, <2>4, <3>1
    <3>2. CASE i # n + 1
      <4>1. i \in 1..n
        BY <1>3, <3>2
      <4> QED
        BY <1>3, <4>1 DEF QtInv, FirstInOrder
    <3> QED
      BY <3>1, <3>2
  <2>6. taker = "check" => taken = accepted[1] + 1
    BY DEF QtInv, FirstInOrder
  <2>7. qtCount - 1 = accepted[1] + Held1 + Len(qtQueue')
    BY <1>3, <2>3, <2>4
  <2>8. maker'[1] = "loop" /\ Len(qtQueue') = n + 1
    BY <1>2, <1>3, <2>1
  <2>9. accepted' = accepted /\ taken' = taken /\ taker' = taker /\ qtCount' = qtCount
    BY <1>1
  <2> HIDE DEF n
  <2> QED
    BY <2>2, <2>3, <2>5, <2>6, <2>7, <2>8, <2>9 DEF FirstInOrder
<1>6. ASSUME ~doubled PROVE NumberOnce' /\ Numbers' /\ FirstIsOnce'
  <2>0. NumberOnce /\ Numbers /\ FirstIsOnce
    BY <1>6 DEF QtInv
  <2>1. NumberOnce'
    BY <1>2, <2>0 DEF NumberOnce
  <2>2. \A i \in 1..(n + 1) : i = n + 1 \/ i \in 1..n
    BY <1>3
  <2>3. making[s] < qtCount
    BY <1>2, <2>0 DEF Numbers
  <2>4. Numbers'
    BY <1>1, <1>2, <1>3, <2>0, <2>2, <2>3 DEF Numbers
  <2>5. \A r \in Sessions : MadeOne(r)' <=> r # s /\ MadeOne(r)
    BY <1>1, <1>2 DEF MadeOne
  <2>6. OneAccepted' <=> OneAccepted
    BY <1>1 DEF OneAccepted
  <2>7. OneQueued' <=> OneQueued \/ making[s] = 1
    BY <1>3, <2>2 DEF OneQueued
  <2>8. FirstIsOnce'
    <3>1. CASE making[s] = 1
      <4>1. MadeOne(s) /\ ~OneQueued /\ ~OneAccepted /\ taken # 1
        BY <1>2, <2>0, <3>1 DEF MadeOne, FirstIsOnce
      <4>2. \A r \in Sessions : ~MadeOne(r)'
        BY <2>0, <2>5, <4>1 DEF FirstIsOnce
      <4>3. \A i \in 1..(n + 1) : qtQueue'[i] = 1 => i = n + 1
        BY <1>3, <2>2, <4>1 DEF OneQueued
      <4> HIDE DEF n
      <4> QED
        BY <1>1, <1>3, <2>0, <2>6, <4>1, <4>2, <4>3 DEF FirstIsOnce
    <3>2. CASE making[s] # 1
      <4>1. \A i, j \in 1..(n + 1) : qtQueue'[i] = 1 /\ qtQueue'[j] = 1 => i = j
        BY <1>3, <2>0, <2>2, <3>2 DEF FirstIsOnce
      <4> HIDE DEF n
      <4> QED
        BY <1>1, <1>3, <2>0, <2>5, <2>6, <2>7, <3>2, <4>1 DEF FirstIsOnce
    <3> QED
      BY <3>1, <3>2
  <2> QED
    BY <2>1, <2>4, <2>8
<1> QED
  BY <1>1, <1>2, <1>4, <1>5, <1>6 DEF QtInv

LEMMA TakerQuiet ==
  ASSUME QtInv, taker \notin {"none", "ended", "check"}, taker' # "check",
         UNCHANGED <<qtQueue, qtCount, window, session, maker, making, taken, accepted, doubled, mismatch>>
  PROVE  QtInv'
<1>1. QtTypes'
  BY DEF QtInv, QtTypes
<1>2. QtStanding'
  BY DEF QtInv, QtStanding
<1> QED
  BY <1>1, <1>2, NumbersStay

(* The first number of the queue comes into the consumer's hand.           *)
LEMMA TakeFirstKeeps ==
  ASSUME QtInv, taker \in {"look", "lookAgain"}, taker' = "check", qtQueue # <<>>,
         taken' = Head(qtQueue), qtQueue' = Tail(qtQueue),
         UNCHANGED <<qtCount, window, session, maker, making, accepted, doubled, mismatch>>
  PROVE  QtInv'
<1>0. QtTypes /\ QtStanding
  BY DEF QtInv
<1> DEFINE n == Len(qtQueue)
<1>1. /\ n \in Nat /\ n > 0 /\ qtQueue' \in Seq(Nat) /\ Len(qtQueue') = n - 1
      /\ taken' = qtQueue[1] /\ qtQueue[1] \in Nat
      /\ \A i \in 1..(n - 1) : qtQueue'[i] = qtQueue[i + 1] /\ i + 1 \in 1..n
      /\ 1 \in 1..n
  BY <1>0 DEF QtTypes
<1>2. taken = 0 /\ QtTypes' /\ QtStanding'
  BY <1>0, <1>1 DEF QtTypes, QtStanding
<1>3. FirstInOrder'
  <2> SUFFICES ASSUME session <= 1 PROVE FirstInOrder'
    BY DEF FirstInOrder
  <2>1. 1 \in Sessions /\ accepted[1] \in Nat
    BY <1>0, QtAssumption DEF Sessions, QtTypes
  <2>2. Held1' = 1 /\ Held1 = 0
    BY DEF Held1
  <2>3. \A i \in 1..n : qtQueue[i] = accepted[1] + i
    BY <2>1, <2>2 DEF QtInv, FirstInOrder
  <2>4. taken' = accepted[1] + 1
    BY <1>1, <2>1, <2>3
  <2>5. ASSUME NEW i \in 1..(n - 1) PROVE qtQueue'[i] = accepted[1] + 1 + i
    <3>1. qtQueue'[i] = accepted[1] + (i + 1)
      BY <1>1, <2>3
    <3>2. i \in Int /\ accepted[1] \in Int
      BY <1>1, <2>1
    <3> QED
      BY <3>1, <3>2
  <2>6. /\ maker[1] = "number" => making[1] = qtCount
        /\ maker[1] = "add" => making[1] = qtCount - 1
        /\ qtCount - 1 = accepted[1] + Held1 + n + (IF maker[1] = "add" THEN 1 ELSE 0)
    BY DEF QtInv, FirstInOrder
  <2>7. qtCount - 1 = accepted[1] + 1 + (n - 1) + (IF maker[1] = "add" THEN 1 ELSE 0)
    BY <1>1, <2>1, <2>2, <2>6
  <2> HIDE DEF n
  <2> QED
    BY <1>1, <2>2, <2>4, <2>5, <2>6, <2>7 DEF FirstInOrder
<1>4. ASSUME ~doubled PROVE NumberOnce' /\ Numbers' /\ FirstIsOnce'
  <2>0. NumberOnce /\ Numbers /\ FirstIsOnce
    BY <1>4 DEF QtInv
  <2>1. NumberOnce'
    BY <2>0 DEF NumberOnce
  <2>2. Numbers'
    BY <1>1, <2>0 DEF Numbers
  <2>3. (\A r \in Sessions : MadeOne(r)' <=> MadeOne(r)) /\ (OneAccepted' <=> OneAccepted)
    BY DEF MadeOne, OneAccepted
  <2>4. OneQueued' => OneQueued /\ taken' # 1
    <3> SUFFICES ASSUME OneQueued' PROVE OneQueued /\ taken' # 1
      OBVIOUS
    <3>1. PICK i \in 1..(n - 1) : qtQueue'[i] = 1
      BY <1>1 DEF OneQueued
    <3>2. qtQueue[i + 1] = 1 /\ i + 1 \in 1..n /\ i + 1 # 1
      BY <1>1, <3>1
    <3> QED
      BY <1>1, <2>0, <3>2 DEF FirstIsOnce, OneQueued
  <2>5. taken' = 1 => OneQueued
    BY <1>1 DEF OneQueued
  <2>6. \A i, j \in 1..(n - 1) : qtQueue'[i] = 1 /\ qtQueue'[j] = 1 => i = j
    BY <1>1, <2>0 DEF FirstIsOnce
  <2> HIDE DEF n
  <2>7. FirstIsOnce'
    BY <1>1, <2>0, <2>3, <2>4, <2>5, <2>6 DEF FirstIsOnce
  <2> QED
    BY <2>1, <2>2, <2>7
<1> QED
  BY <1>2, <1>3, <1>4 DEF QtInv

LEMMA CheckNumberKeeps == ASSUME QtInv, Check PROVE QtInv'
<1>0. QtTypes /\ QtStanding
  BY DEF QtInv
<1>1. /\ taker = "check" /\ taken' = 0 /\ taker' \in {"loop", "ended"}
      /\ UNCHANGED <<qtQueue, qtCount, window, session, maker, making, doubled>>
  BY DEF Check, TakerGoes, qtBuffer
<1>2. session \in Sessions /\ accepted[session] \in Nat
  BY <1>0, <1>1 DEF QtStanding, QtTypes
<1>3. \/ taken = accepted[session] + 1 /\ accepted' = [accepted EXCEPT ![session] = taken] /\ mismatch' = mismatch
      \/ taken # accepted[session] + 1 /\ accepted' = accepted /\ mismatch' = mismatch \cup {session}
  BY DEF Check
<1>4. accepted' \in [Sessions -> Nat] /\ \A s \in Sessions : s # session => accepted'[s] = accepted[s]
  BY <1>0, <1>2, <1>3 DEF QtTypes
<1>5. QtTypes'
  BY <1>0, <1>1, <1>4 DEF QtTypes
<1>6. QtStanding'
  <2>1. \A s \in Sessions : s > session => s # session
    BY <1>2, QtAssumption DEF Sessions
  <2> QED
    BY <1>0, <1>1, <1>4, <2>1 DEF QtStanding
<1>7. FirstInOrder' /\ 1 \notin mismatch'
  <2>1. CASE session = 1
    <3>1. taken = accepted[1] + 1
      BY <1>1, <2>1 DEF QtInv, FirstInOrder
    <3>2. accepted' = [accepted EXCEPT ![1] = taken] /\ mismatch' = mismatch
      BY <1>2, <1>3, <2>1, <3>1
    <3>3. accepted'[1] = accepted[1] + 1 /\ Held1 = 1 /\ Held1' = 0
      BY <1>0, <1>1, <1>2, <2>1, <3>1, <3>2 DEF QtTypes, Held1
    <3>4. /\ \A i \in 1..Len(qtQueue) : qtQueue[i] = accepted[1] + 1 + i
          /\ maker[1] = "number" => making[1] = qtCount
          /\ maker[1] = "add" => making[1] = qtCount - 1
          /\ qtCount - 1 = accepted[1] + 1 + Len(qtQueue) + (IF maker[1] = "add" THEN 1 ELSE 0)
      BY <2>1, <3>3 DEF QtInv, FirstInOrder
    <3>5. accepted[1] + 1 + 0 = accepted[1] + 1
      BY <1>2, <2>1
    <3>6. FirstInOrder'
      BY <1>1, <3>3, <3>4, <3>5 DEF FirstInOrder
    <3> QED
      BY <3>2, <3>6 DEF QtInv
  <2>2. CASE session # 1
    <3>1. ~ (session <= 1)
      BY <1>2, <2>2, QtAssumption DEF Sessions
    <3> QED
      BY <1>1, <1>3, <2>2, <3>1 DEF QtInv, FirstInOrder
  <2> QED
    BY <2>1, <2>2
<1>8. ASSUME ~doubled PROVE NumberOnce' /\ Numbers' /\ FirstIsOnce'
  <2>0. NumberOnce /\ Numbers /\ FirstIsOnce
    BY <1>8 DEF QtInv
  <2>1. NumberOnce'
    BY <1>1, <2>0 DEF NumberOnce
  <2>2. \A s \in Sessions : accepted'[s] = accepted[s] \/ accepted'[s] = taken
    BY <1>0, <1>3, <1>4 DEF QtTypes
  <2>3. Numbers'
    <3>1. 0 < qtCount
      BY <1>0 DEF QtTypes
    <3>2. \A s \in Sessions : accepted'[s] < qtCount
      BY <2>0, <2>2 DEF Numbers
    <3> QED
      BY <1>1, <2>0, <3>1, <3>2 DEF Numbers
  <2>4. (\A r \in Sessions : MadeOne(r)' <=> MadeOne(r)) /\ (OneQueued' <=> OneQueued)
    BY <1>1 DEF MadeOne, OneQueued
  <2>5. AcceptedOnce' /\ AcceptedAlone' => FirstIsOnce'
    <3>1. \A r, s \in Sessions : MadeOne(r)' /\ MadeOne(s)' => r = s
      BY <2>0, <2>4 DEF FirstIsOnce
    <3>2. \A i, j \in 1..Len(qtQueue') : qtQueue'[i] = 1 /\ qtQueue'[j] = 1 => i = j
      BY <1>1, <2>0 DEF FirstIsOnce
    <3>3. (\E s \in Sessions : MadeOne(s)') => ~OneQueued'
      BY <2>0, <2>4 DEF FirstIsOnce
    <3>4. taken' # 1
      BY <1>1
    <3> QED
      BY <2>4, <3>1, <3>2, <3>3, <3>4 DEF FirstIsOnce, AcceptedOnce, AcceptedAlone
  <2>6. CASE \A s \in Sessions : accepted'[s] > 0 => accepted[s] > 0
    <3>1. OneAccepted' => OneAccepted
      BY <2>6 DEF OneAccepted
    <3>2. AcceptedOnce' /\ AcceptedAlone'
      BY <2>0, <2>4, <2>6, <3>1 DEF FirstIsOnce, AcceptedOnce, AcceptedAlone
    <3> QED
      BY <2>1, <2>3, <2>5, <3>2
  <2>7. CASE taken = 1 /\ \A s \in Sessions : s # session => accepted'[s] = accepted[s]
    <3>1. ~OneAccepted /\ ~OneQueued /\ \A r \in Sessions : ~MadeOne(r)
      BY <2>0, <2>7 DEF FirstIsOnce
    <3>2. \A s \in Sessions : accepted'[s] > 0 => s = session
      BY <2>7, <3>1 DEF OneAccepted
    <3>3. AcceptedOnce' /\ AcceptedAlone'
      BY <2>4, <3>1, <3>2 DEF AcceptedOnce, AcceptedAlone
    <3> QED
      BY <2>1, <2>3, <2>5, <3>3
  <2>8. taken = 1 \/ \A s \in Sessions : accepted'[s] > 0 => accepted[s] > 0
    <3>1. CASE accepted' = accepted
      BY <3>1
    <3>2. CASE taken = accepted[session] + 1 /\ taken # 1
      <4>1. accepted[session] > 0
        BY <1>2, <3>2
      <4> QED
        BY <1>4, <4>1
    <3> QED
      BY <1>3, <3>1, <3>2
  <2> QED
    BY <1>4, <2>6, <2>7, <2>8
<1> QED
  BY <1>1, <1>5, <1>6, <1>7, <1>8 DEF QtInv

LEMMA QtTakeKeeps == ASSUME QtInv, Take PROVE QtInv'
<1>1. CASE TakerLoops \/ TakerSignalled \/ TakerTimesOut
  <2>1. /\ taker \notin {"none", "ended", "check"} /\ taker' # "check"
        /\ UNCHANGED <<qtQueue, qtCount, window, session, maker, making, taken, accepted, doubled, mismatch>>
    BY <1>1 DEF TakerLoops, TakerSignalled, TakerTimesOut, TakerGoes, qtBuffer, qtChecked
  <2> QED
    BY <2>1, TakerQuiet
<1>2. CASE FirstLook \/ SecondLook
  <2>1. PICK from \in {"look", "lookAgain"}, none \in {"wait", "loop"} : TakeFirst(from, none)
    BY <1>2, Zenon DEF FirstLook, SecondLook
  <2>2. UNCHANGED <<qtCount, window, session, maker, making, accepted, doubled, mismatch>>
    BY <2>1 DEF TakeFirst
  <2>3. CASE qtQueue = <<>>
    <3>1. taker = from /\ taker' = none /\ UNCHANGED <<qtQueue, taken>>
      BY <2>1, <2>3 DEF TakeFirst, TakerGoes
    <3> QED
      BY <2>1, <2>2, <3>1, TakerQuiet
  <2>4. CASE qtQueue # <<>>
    <3>1. taker = from /\ taker' = "check" /\ taken' = Head(qtQueue) /\ qtQueue' = Tail(qtQueue)
      BY <2>1, <2>4 DEF TakeFirst, TakerGoes
    <3> QED
      BY <2>1, <2>2, <2>4, <3>1, TakeFirstKeeps
  <2> QED
    BY <2>3, <2>4
<1> QED
  BY <1>1, <1>2, CheckNumberKeeps DEF Take

LEMMA QtStart == QtInit => QtInv
<1> SUFFICES ASSUME QtInit PROVE QtInv
  OBVIOUS
<1>1. /\ session = 0 /\ qtQueue = <<>> /\ qtCount = 1 /\ window = "idle" /\ taker = "none" /\ taken = 0
      /\ mismatch = {}
      /\ maker = [s \in Sessions |-> "none"] /\ making = [s \in Sessions |-> 0]
      /\ accepted = [s \in Sessions |-> 0]
  BY DEF QtInit
<1>2. 1 \in Sessions
  BY QtAssumption DEF Sessions
<1>3. QtTypes
  BY <1>1, QtAssumption DEF QtTypes
<1>4. QtStanding
  BY <1>1 DEF QtStanding
<1>5. FirstInOrder
  BY <1>1, <1>2 DEF FirstInOrder, Held1
<1>6. NumberOnce /\ Numbers /\ FirstIsOnce
  BY <1>1 DEF NumberOnce, Numbers, FirstIsOnce, MadeOne, OneQueued, OneAccepted
<1> QED
  BY <1>1, <1>3, <1>4, <1>5, <1>6 DEF QtInv

LEMMA QtStep == QtInv /\ [QtNext]_qtVars => QtInv'
<1> SUFFICES ASSUME QtInv, [QtNext]_qtVars PROVE QtInv'
  OBVIOUS
<1>1. CASE ClickStart \/ ClickStop \/ WindowWorks
  BY <1>1, WindowKeeps
<1>2. CASE \E s \in Sessions : Make(s)
  BY <1>2, MakerEndsKeeps, ReadNumberKeeps, WriteNumberKeeps, QtAddKeeps DEF Make
<1>3. CASE Take
  BY <1>3, QtTakeKeeps
<1>4. CASE UNCHANGED qtVars
  <2>1. UNCHANGED <<qtQueue, qtCount, window, session, maker, making, taker, taken, accepted, doubled, mismatch>>
    BY <1>4 DEF qtVars, qtBuffer, qtChecked
  <2>2. QtTypes' /\ QtStanding'
    BY <2>1 DEF QtInv, QtTypes, QtStanding
  <2> QED
    BY <2>1, <2>2, NumbersStay
<1> QED
  BY <1>1, <1>2, <1>3, <1>4 DEF QtNext

LEMMA QtAccepts == QtInv => OneSessionAccepts
<1> SUFFICES ASSUME QtInv, ~doubled PROVE \A r, s \in Sessions : r # s => accepted[r] = 0 \/ accepted[s] = 0
  BY DEF OneSessionAccepts, QtInv
<1>1. \A s \in Sessions : accepted[s] \in Nat
  BY DEF QtInv, QtTypes
<1> QED
  BY <1>1 DEF QtInv, FirstIsOnce

(* Whatever the capacity, the number of starts and of messages: the first  *)
(* start's consumer sees every number in sequence, and the consumers of    *)
(* all starts but one accept nothing, unless producers of two starts gave  *)
(* one number (ConsumerThread and ProducerThread::threadOperation of the   *)
(* Qt program).                                                            *)
THEOREM OneStartAccepts == QtSpec => []OneSessionAccepts
<1> QED
  BY QtStart, QtStep, QtAccepts, PTL DEF QtSpec
----------------------------------------------------------------------------
(* The federate's threads.  Only one thread is in the section until two    *)
(* have been; then it is that thread's step that moves the list, and the   *)
(* list goes on where what was passed on ends (ListFollows).               *)
Removing == \E t \in Threads : at[t] = "remove"
Behind == IF Removing THEN 0 ELSE 1

FedPlaces == Inside \cup {"unborn", "loop", "asleep", "expire", "ended"}

FedTypes ==
  /\ started \in 0..MaxStarts
  /\ at \in [Threads -> FedPlaces]
  /\ \A t \in Threads : t > started => at[t] = "unborn"
  /\ itsFederateMessage \in Seq(Nat)
  /\ seenByAdd \in Seq(Nat)
  /\ passedOn \in Seq(Nat)
  /\ fm_Ptr \in [Threads -> Nat]
  /\ posted \in Nat

(* Until the receiver throws, a thread in the section holds the mutex.     *)
HoldsMutex ==
  ~threw =>
    /\ ~twoInside
    /\ \A t \in Threads : at[t] # "catch" /\ (at[t] \in Inside => fedMutex = t)

OneInSection ==
  ~twoInside => \A s, t \in Threads : at[s] \in Inside /\ at[t] \in Inside => s = t

FirstInHand(t) ==
  /\ at[t] \in {"send", "remove"} => itsFederateMessage # <<>> /\ fm_Ptr[t] = itsFederateMessage[1]
  /\ at[t] = "remove" => fm_Ptr[t] = Len(passedOn)

ListFollows ==
  /\ \A t \in Threads : FirstInHand(t)
  /\ app = "adding" => seenByAdd = itsFederateMessage
  /\ Len(passedOn) + Behind + Len(itsFederateMessage) = posted + 1
  /\ \A i \in 1..Len(passedOn) : passedOn[i] = i
  /\ \A i \in 1..Len(itsFederateMessage) : itsFederateMessage[i] = Len(passedOn) + Behind + i - 1

FedInv ==
  /\ FedTypes /\ HoldsMutex /\ OneInSection
  /\ ~overlapped /\ ~twoInside => ListFollows

fedData == <<itsFederateMessage, fm_Ptr, posted, passedOn>>

(* A step that moves no thread within the section, into it or out of it.   *)
LEMMA OutsideKeeps ==
  ASSUME FedInv, FedTypes',
         UNCHANGED <<fedMutex, fedData, overlapped, threw, twoInside>>,
         \A t \in Threads : at'[t] = at[t] \/ {at[t], at'[t]} \cap Inside = {},
         app' = "adding" => seenByAdd' = itsFederateMessage \/ (app = "adding" /\ seenByAdd' = seenByAdd)
  PROVE  FedInv'
<1>1. \A t \in Threads : /\ at'[t] \in Inside <=> at[t] \in Inside
                         /\ at'[t] = "catch" <=> at[t] = "catch"
                         /\ at'[t] = "send" <=> at[t] = "send"
                         /\ at'[t] = "remove" <=> at[t] = "remove"
  BY DEF Inside
<1>2. HoldsMutex'
  BY <1>1 DEF FedInv, HoldsMutex
<1>3. OneInSection'
  BY <1>1 DEF FedInv, OneInSection
<1>4. Behind' = Behind
  BY <1>1 DEF Behind, Removing
<1>5. ASSUME ListFollows PROVE ListFollows'
  <2>1. \A t \in Threads : FirstInHand(t)'
    BY <1>1, <1>5 DEF ListFollows, FirstInHand, fedData
  <2> QED
    BY <1>4, <1>5, <2>1 DEF ListFollows, fedData
<1> QED
  BY <1>2, <1>3, <1>5 DEF FedInv

LEMMA ApplicationKeeps == ASSUME FedInv, Application PROVE FedInv'
<1>0. FedTypes
  BY DEF FedInv
<1>1. CASE Start \/ StartTimer
  <2>1. NewThread /\ app = "free" /\ app' = app /\ UNCHANGED <<fedMutex, fedList, overlapped, threw, twoInside>>
    BY <1>1 DEF Start, StartTimer, fedFlags
  <2>2. FedTypes' /\ \A t \in Threads : at'[t] = at[t] \/ {at[t], at'[t]} \cap Inside = {}
    <3>1. CASE theThread # NoThread
      <4>1. UNCHANGED <<started, at>>
        BY <2>1, <3>1 DEF NewThread
      <4> QED
        BY <1>0, <2>1, <4>1 DEF FedTypes, fedList
    <3>2. CASE theThread = NoThread
      <4> DEFINE n == started + 1
      <4>1. started < MaxStarts /\ started' = n /\ at' = [at EXCEPT ![n] = "loop"]
        BY <2>1, <3>2 DEF NewThread
      <4>2. n \in Threads /\ started' \in 0..MaxStarts /\ at[n] = "unborn"
        BY <1>0, <4>1, FederateAssumption DEF FedTypes, Threads
      <4>3. at' \in [Threads -> FedPlaces] /\ \A t \in Threads : at'[t] = IF t = n THEN "loop" ELSE at[t]
        BY <1>0, <4>1, <4>2 DEF FedTypes, FedPlaces
      <4>4. \A t \in Threads : t > started' => at'[t] = "unborn"
        BY <1>0, <4>1, <4>2, <4>3 DEF FedTypes, Threads
      <4>5. FedTypes'
        BY <1>0, <2>1, <4>2, <4>3, <4>4 DEF FedTypes, fedList
      <4> QED
        BY <4>2, <4>3, <4>5 DEF Inside
    <3> QED
      BY <3>1, <3>2
  <2> QED
    BY <2>1, <2>2, OutsideKeeps DEF fedList, fedData
<1>2. CASE stopPeriodicTimer \/ Stop \/ Join \/ Joined
  <2>1. /\ UNCHANGED <<started, at, fedMutex, fedList, overlapped, threw, twoInside>>
        /\ app' = "adding" => app = "adding"
    BY <1>2 DEF stopPeriodicTimer, Stop, Join, Joined, fedFlags, fedThread
  <2>2. FedTypes'
    BY <1>0, <2>1 DEF FedTypes, fedList
  <2> QED
    BY <2>1, <2>2, OutsideKeeps DEF fedList, fedData
<1>3. CASE AddBegins
  <2>1. /\ UNCHANGED <<started, at, fedMutex, fedData, overlapped, threw, twoInside>>
        /\ seenByAdd' = itsFederateMessage
    BY <1>3 DEF AddBegins, fedFlags, fedThread, fedData
  <2>2. FedTypes'
    BY <1>0, <2>1 DEF FedTypes, fedData
  <2> QED
    BY <2>1, <2>2, OutsideKeeps DEF fedList, fedData
<1> QED
  BY <1>1, <1>2, <1>3 DEF Application

LEMMA TimerStepKeeps == ASSUME FedInv, NEW t \in Threads, TimerStep(t) PROVE FedInv'
<1>0. FedTypes
  BY DEF FedInv
<1>1. PICK to \in {"asleep", "expire", "ended"} :
        at[t] \in {"loop", "asleep", "expire"} /\ at' = [at EXCEPT ![t] = to]
  BY DEF TimerStep, TimerSleeps, TimerWakes, TimerExpires, Steps
<1>2. UNCHANGED <<started, fedMutex, app, fedList, overlapped, threw, twoInside>>
  BY DEF TimerStep, TimerSleeps, TimerWakes, TimerExpires, fedThread, fedFlags
<1>3. at' \in [Threads -> FedPlaces] /\ \A s \in Threads : at'[s] = IF s = t THEN to ELSE at[s]
  <2>1. to \in FedPlaces
    BY <1>1 DEF FedPlaces
  <2>2. at \in [Threads -> FedPlaces]
    BY <1>0 DEF FedTypes
  <2> QED
    BY <1>1, <2>1, <2>2
<1>4. ~ (t > started)
  BY <1>0, <1>1 DEF FedTypes
<1>5. FedTypes'
  BY <1>0, <1>2, <1>3, <1>4 DEF FedTypes, fedList
<1> QED
  BY <1>1, <1>2, <1>3, <1>5, OutsideKeeps DEF Inside, fedList, fedData

(* The message goes behind the list as the call found it, or as it is.     *)
LEMMA AddEndsKeeps == ASSUME FedInv, AddEnds PROVE FedInv'
<1>0. FedTypes
  BY DEF FedInv
<1>1. PICK list \in {itsFederateMessage, seenByAdd} : itsFederateMessage' = Append(list, posted')
  BY DEF AddEnds
<1>2. /\ app = "adding" /\ app' = "free" /\ posted' = posted + 1
      /\ UNCHANGED <<started, at, fedMutex, fm_Ptr, seenByAdd, passedOn, overlapped, threw, twoInside>>
  BY DEF AddEnds, fedThread, fedFlags
<1>3. /\ list \in Seq(Nat) /\ posted \in Nat /\ posted' \in Nat
      /\ itsFederateMessage' \in Seq(Nat) /\ Len(itsFederateMessage') = Len(list) + 1
      /\ \A i \in 1..Len(list) : itsFederateMessage'[i] = list[i]
      /\ itsFederateMessage'[Len(list) + 1] = posted'
  BY <1>0, <1>1, <1>2 DEF FedTypes
<1>4. FedTypes'
  BY <1>0, <1>2, <1>3 DEF FedTypes
<1>5. HoldsMutex' /\ OneInSection'
  BY <1>2 DEF FedInv, HoldsMutex, OneInSection
<1>6. ASSUME ListFollows PROVE ListFollows'
  <2>1. list = itsFederateMessage /\ Behind' = Behind /\ Behind \in Nat /\ Len(passedOn) \in Nat /\ Len(list) \in Nat
    BY <1>0, <1>2, <1>3, <1>6 DEF ListFollows, Behind, Removing, FedTypes
  <2>2. \A t \in Threads : FirstInHand(t)'
    <3> SUFFICES ASSUME NEW t \in Threads PROVE FirstInHand(t)'
      OBVIOUS
    <3>1. FirstInHand(t)
      BY <1>6 DEF ListFollows
    <3>2. itsFederateMessage # <<>> => itsFederateMessage' # <<>> /\ itsFederateMessage'[1] = itsFederateMessage[1]
      BY <1>3, <2>1
    <3> QED
      BY <1>2, <3>1, <3>2 DEF FirstInHand
  <2>3. Len(passedOn) + Behind + Len(list) = posted + 1
    BY <1>6, <2>1 DEF ListFollows
  <2>4. ASSUME NEW i \in 1..Len(itsFederateMessage')
        PROVE  itsFederateMessage'[i] = Len(passedOn) + Behind + i - 1
    <3>1. CASE i = Len(list) + 1
      BY <1>2, <1>3, <2>1, <2>3, <3>1
    <3>2. CASE i # Len(list) + 1
      <4>1. i \in 1..Len(list)
        BY <1>3, <2>1, <3>2
      <4> QED
        BY <1>3, <1>6, <2>1, <4>1 DEF ListFollows
    <3> QED
      BY <3>1, <3>2
  <2>5. Len(passedOn) + Behind + Len(itsFederateMessage') = posted' + 1
    BY <1>2, <1>3, <2>1, <2>3
  <2>6. \A i \in 1..Len(passedOn) : passedOn[i] = i
    BY <1>6 DEF ListFollows
  <2> QED
    BY <1>2, <2>1, <2>2, <2>4, <2>5, <2>6 DEF ListFollows
<1> QED
  BY <1>2, <1>4, <1>5, <1>6 DEF FedInv

(* A thread's step from within the section.                                *)
LEMMA StepIs ==
  ASSUME FedTypes, NEW t \in Threads, NEW from, NEW to \in FedPlaces,
         Steps(t, from, to), from # "unborn", started' = started
  PROVE  /\ at[t] = from /\ at'[t] = to
         /\ \A s \in Threads : s # t => at'[s] = at[s]
         /\ at' \in [Threads -> FedPlaces]
         /\ \A s \in Threads : s > started' => at'[s] = "unborn"
  BY DEF Steps, FedTypes

LEMMA SectionStep ==
  ASSUME FedInv, NEW t \in Threads, NEW from \in Inside, NEW to \in FedPlaces,
         Steps(t, from, to), UNCHANGED <<started, twoInside>>, threw' = threw \/ threw' = TRUE,
         ~threw' => to # "catch" /\ (to \in Inside => fedMutex' = fedMutex)
  PROVE  HoldsMutex' /\ OneInSection'
<1>1. /\ at[t] = from /\ at'[t] = to
      /\ \A s \in Threads : s # t => at'[s] = at[s]
  BY StepIs DEF FedInv, Inside
<1>2. OneInSection'
  BY <1>1 DEF FedInv, OneInSection
<1>3. HoldsMutex'
  BY <1>1 DEF FedInv, HoldsMutex
<1> QED
  BY <1>2, <1>3

(* A step that neither takes a message into the hand nor passes it on.     *)
LEMMA ListStays ==
  ASSUME FedTypes, ListFollows, NEW t \in Threads, NEW from \in FedPlaces, NEW to \in FedPlaces,
         Steps(t, from, to), from \notin {"unborn", "remove"}, to \notin {"send", "remove"},
         UNCHANGED <<started, app, fedList>>
  PROVE  ListFollows'
<1>1. /\ at[t] = from /\ at'[t] = to
      /\ \A s \in Threads : s # t => at'[s] = at[s]
  BY StepIs
<1>2. Behind' = Behind
  BY <1>1 DEF Behind, Removing
<1>3. \A s \in Threads : FirstInHand(s)'
  BY <1>1 DEF ListFollows, FirstInHand, fedList
<1> QED
  BY <1>2, <1>3 DEF ListFollows, fedList

LEMMA LockKeeps == ASSUME FedInv, NEW t \in Threads, LockList(t) PROVE FedInv'
<1>0. FedTypes /\ HoldsMutex /\ OneInSection
  BY DEF FedInv
<1>1. /\ Steps(t, "loop", "locked") /\ fedMutex = NoThread /\ fedMutex' = t
      /\ twoInside' = (twoInside \/ \E s \in Threads \ {t} : at[s] \in Inside)
      /\ UNCHANGED <<started, app, fedList, overlapped, threw>>
  BY DEF LockList, fedThread
<1>2. /\ at[t] = "loop" /\ at'[t] = "locked"
      /\ \A s \in Threads : s # t => at'[s] = at[s]
      /\ at' \in [Threads -> FedPlaces]
      /\ \A s \in Threads : s > started' => at'[s] = "unborn"
  <2>1. "locked" \in FedPlaces /\ "loop" # "unborn"
    BY DEF FedPlaces, Inside
  <2> QED
    BY <1>0, <1>1, <2>1, StepIs
<1>3. FedTypes'
  BY <1>0, <1>1, <1>2 DEF FedTypes, fedList
<1>4. HoldsMutex'
  <2>1. ASSUME ~threw PROVE ~twoInside /\ \A s \in Threads : at[s] \notin Inside
    <3>1. \A s \in Threads : s # NoThread
      BY FederateAssumption DEF Threads, NoThread
    <3> QED
      BY <1>0, <1>1, <2>1, <3>1 DEF HoldsMutex
  <2>2. \A s \in Threads : at[s] # "catch" => at'[s] # "catch"
    BY <1>2
  <2> QED
    BY <1>0, <1>1, <1>2, <2>1, <2>2 DEF HoldsMutex
<1>5. OneInSection'
  BY <1>0, <1>1, <1>2 DEF OneInSection
<1>6. ASSUME ListFollows PROVE ListFollows'
  <2>1. "locked" \in FedPlaces /\ "loop" \in FedPlaces
    BY DEF FedPlaces, Inside
  <2> QED
    BY <1>0, <1>1, <1>6, <2>1, ListStays
<1> QED
  BY <1>1, <1>3, <1>4, <1>5, <1>6 DEF FedInv

(* Steps in the section that leave the list and the hands alone.           *)
LEMMA NoMessageKeeps ==
  ASSUME FedInv, NEW t \in Threads, FindsNone(t) \/ Refuse(t) \/ Throw(t) \/ Catch(t) \/ EndRound(t)
  PROVE  FedInv'
<1>0. FedTypes /\ HoldsMutex
  BY DEF FedInv
<1>1. PICK from \in Inside \ {"remove"}, to \in {"loop", "unlock", "catch"} :
        /\ Steps(t, from, to)
        /\ to = "catch" => threw'
        /\ to # "loop" => fedMutex' = fedMutex \/ from = "catch"
  <2>1. CASE FindsNone(t)
    BY <2>1, Zenon DEF FindsNone, Inside
  <2>2. CASE Refuse(t)
    BY <2>2, Zenon DEF Refuse, Inside
  <2>3. CASE Throw(t)
    BY <2>3, Zenon DEF Throw, Inside
  <2>4. CASE Catch(t)
    BY <2>4, Zenon DEF Catch, Inside
  <2>5. CASE EndRound(t)
    BY <2>5, Zenon DEF EndRound, Inside
  <2> QED
    BY <2>1, <2>2, <2>3, <2>4, <2>5, Zenon
<1>2. /\ UNCHANGED <<started, app, fedList, overlapped, twoInside>>
      /\ threw' = threw \/ threw' = TRUE
  BY DEF FindsNone, Refuse, Throw, Catch, EndRound, fedThread, fedFlags
<1>3. to \in FedPlaces /\ from \in FedPlaces /\ from # "unborn" /\ to \notin {"send", "remove"} /\ from \in Inside
  BY <1>1 DEF Inside, FedPlaces
<1>4. at[t] = from /\ at' \in [Threads -> FedPlaces] /\ \A s \in Threads : s > started' => at'[s] = "unborn"
  BY <1>0, <1>1, <1>2, <1>3, StepIs
<1>5. FedTypes'
  BY <1>0, <1>2, <1>4 DEF FedTypes, fedList
<1>6. ~threw' => to # "catch" /\ (to \in Inside => fedMutex' = fedMutex)
  BY <1>0, <1>1, <1>2, <1>4 DEF HoldsMutex, Inside
<1>7. HoldsMutex' /\ OneInSection'
  BY <1>1, <1>2, <1>3, <1>6, SectionStep
<1>8. ASSUME ListFollows PROVE ListFollows'
  BY <1>0, <1>1, <1>2, <1>3, <1>8, ListStays
<1> QED
  BY <1>2, <1>5, <1>7, <1>8 DEF FedInv

LEMMA FindsOneKeeps == ASSUME FedInv, NEW t \in Threads, FindsOne(t) PROVE FedInv'
<1>0. FedTypes /\ OneInSection
  BY DEF FedInv
<1>1. /\ itsFederateMessage # <<>> /\ Steps(t, "locked", "send")
      /\ fm_Ptr' = [fm_Ptr EXCEPT ![t] = Head(itsFederateMessage)]
      /\ overlapped' = (overlapped \/ app = "adding")
      /\ UNCHANGED <<started, fedMutex, app, itsFederateMessage, posted, seenByAdd, passedOn, threw, twoInside>>
  BY DEF FindsOne, fedThread
<1>2. "locked" \in Inside /\ "send" \in FedPlaces /\ "locked" # "unborn" /\ "send" # "catch"
  BY DEF Inside, FedPlaces
<1>3. /\ at[t] = "locked" /\ at'[t] = "send"
      /\ \A s \in Threads : s # t => at'[s] = at[s]
      /\ at' \in [Threads -> FedPlaces]
      /\ \A s \in Threads : s > started' => at'[s] = "unborn"
  BY <1>0, <1>1, <1>2, StepIs
<1>4. HoldsMutex' /\ OneInSection'
  BY <1>1, <1>2, SectionStep
<1>5. /\ itsFederateMessage[1] \in Nat /\ Head(itsFederateMessage) = itsFederateMessage[1]
      /\ fm_Ptr'[t] = itsFederateMessage[1] /\ fm_Ptr' \in [Threads -> Nat]
  BY <1>0, <1>1 DEF FedTypes
<1>6. FedTypes'
  BY <1>0, <1>1, <1>3, <1>5 DEF FedTypes
<1>7. ASSUME ListFollows, ~overlapped', ~twoInside' PROVE ListFollows'
  <2>1. \A s \in Threads : s # t => at'[s] \notin Inside
    BY <1>0, <1>1, <1>2, <1>3, <1>7 DEF OneInSection
  <2>2. \A s \in Threads : FirstInHand(s)'
    BY <1>1, <1>3, <1>5, <2>1 DEF FirstInHand, Inside
  <2>3. Behind' = Behind
    BY <1>3 DEF Behind, Removing
  <2> QED
    BY <1>1, <1>7, <2>2, <2>3 DEF ListFollows
<1> QED
  BY <1>1, <1>4, <1>6, <1>7 DEF FedInv

(* The receiver takes the message that follows what it has taken.          *)
LEMMA PassOnKeeps == ASSUME FedInv, NEW t \in Threads, PassOn(t) PROVE FedInv'
<1>0. FedTypes /\ OneInSection
  BY DEF FedInv
<1>1. /\ Steps(t, "send", "remove")
      /\ passedOn' = Append(passedOn, fm_Ptr[t])
      /\ UNCHANGED <<started, fedMutex, app, itsFederateMessage, fm_Ptr, posted, seenByAdd,
                     overlapped, threw, twoInside>>
  BY DEF PassOn, fedThread, fedFlags
<1>2. "send" \in Inside /\ "remove" \in FedPlaces /\ "send" # "unborn" /\ "remove" # "catch"
  BY DEF Inside, FedPlaces
<1>3. /\ at[t] = "send" /\ at'[t] = "remove"
      /\ \A s \in Threads : s # t => at'[s] = at[s]
      /\ at' \in [Threads -> FedPlaces]
      /\ \A s \in Threads : s > started' => at'[s] = "unborn"
  BY <1>0, <1>1, <1>2, StepIs
<1>4. HoldsMutex' /\ OneInSection'
  BY <1>1, <1>2, SectionStep
<1>5. /\ passedOn' \in Seq(Nat) /\ Len(passedOn) \in Nat /\ Len(passedOn') = Len(passedOn) + 1
      /\ passedOn'[Len(passedOn) + 1] = fm_Ptr[t]
      /\ \A i \in 1..Len(passedOn) : passedOn'[i] = passedOn[i]
      /\ Len(itsFederateMessage) \in Nat
  BY <1>0, <1>1 DEF FedTypes
<1>6. FedTypes'
  BY <1>0, <1>1, <1>3, <1>5 DEF FedTypes
<1>7. ASSUME ListFollows, ~twoInside' PROVE ListFollows'
  <2>1. \A s \in Threads : s # t => at[s] \notin Inside
    BY <1>0, <1>1, <1>2, <1>3, <1>7 DEF OneInSection
  <2>2. Behind = 1 /\ Behind' = 0
    BY <1>3, <2>1 DEF Behind, Removing, Inside
  <2>3. Len(passedOn') + Behind' = Len(passedOn) + Behind
    BY <1>5, <2>2
  <2>4. itsFederateMessage # <<>> /\ fm_Ptr[t] = itsFederateMessage[1]
    BY <1>3, <1>7 DEF ListFollows, FirstInHand
  <2>5. fm_Ptr[t] = Len(passedOn')
    <3>1. 1 \in 1..Len(itsFederateMessage)
      BY <1>0, <2>4 DEF FedTypes
    <3>2. itsFederateMessage[1] = Len(passedOn) + 1 + 1 - 1
      BY <1>7, <2>2, <3>1 DEF ListFollows
    <3> QED
      BY <1>5, <2>4, <3>2
  <2>6. \A s \in Threads : FirstInHand(s)'
    BY <1>1, <1>3, <2>1, <2>4, <2>5 DEF FirstInHand, Inside
  <2>7. ASSUME NEW i \in 1..Len(passedOn') PROVE passedOn'[i] = i
    <3>1. CASE i = Len(passedOn) + 1
      BY <1>5, <2>5, <3>1
    <3>2. CASE i # Len(passedOn) + 1
      <4>1. i \in 1..Len(passedOn)
        BY <1>5, <3>2
      <4> QED
        BY <1>5, <1>7, <4>1 DEF ListFollows
    <3> QED
      BY <3>1, <3>2
  <2> QED
    BY <1>1, <1>7, <2>3, <2>6, <2>7 DEF ListFollows
<1> QED
  BY <1>1, <1>4, <1>6, <1>7 DEF FedInv

LEMMA LeastElement ==
  ASSUME NEW I \in SUBSET Nat, I # {}
  PROVE  \E x \in I : \A y \in I : x <= y
<1> DEFINE R == {ss \in Nat \X Nat : ss[1] < ss[2]}
<1>1. IsWellFoundedOn(R, Nat)
  BY NatLessThanWellFounded DEF OpToRel
<1>2. \A x, y \in Nat : y < x => <<y, x>> \in R
  OBVIOUS
<1> HIDE DEF R
<1>3. PICK x \in I : \A y \in I : ~ (<<y, x>> \in R)
  BY <1>1, WFMin
<1>4. ASSUME NEW y \in I PROVE x <= y
  <2>1. x \in Nat /\ y \in Nat
    OBVIOUS
  <2>2. ~ (y < x)
    BY <1>2, <1>3, <2>1
  <2> QED
    BY <2>1, <2>2
<1> QED
  BY <1>4

(* removeItsFederateMessage leaves a list, and without its first message   *)
(* when it is given that one.                                              *)
LEMMA RemoveIs ==
  ASSUME NEW s \in Seq(Nat), NEW m \in Nat
  PROVE  \/ Seqs!RemoveFirst(s, m) = s /\ \A i \in 1..Len(s) : s[i] # m
         \/ \E k \in 1..Len(s) :
              /\ s[k] = m /\ \A i \in 1..Len(s) : s[i] = m => k <= i
              /\ Seqs!RemoveFirst(s, m) = SubSeq(s, 1, k - 1) \o SubSeq(s, k + 1, Len(s))
<1> DEFINE I == {i \in 1..Len(s) : s[i] = m}
<1>1. CASE I = {}
  <2>1. ~ \E i \in 1..Len(s) : s[i] = m
    BY <1>1
  <2>2. Seqs!RemoveFirst(s, m) = s
    BY <2>1, Zenon DEF Seqs!RemoveFirst
  <2> QED
    BY <2>1, <2>2
<1>2. CASE I # {}
  <2>1. \E i \in 1..Len(s) : s[i] = m
    BY <1>2
  <2>2. Seqs!RemoveFirst(s, m) =
          LET k == IF I # {} THEN Seqs!Min(I) ELSE 0
          IN  SubSeq(s, 1, k - 1) \o SubSeq(s, k + 1, Len(s))
    BY <2>1, Zenon DEF Seqs!RemoveFirst, Seqs!RemoveAt, Seqs!SelectInSeq
  <2>3. I \in SUBSET Nat
    OBVIOUS
  <2>4. \A i \in I : i \in 1..Len(s) /\ s[i] = m
    OBVIOUS
  <2>5. \A i \in 1..Len(s) : s[i] = m => i \in I
    OBVIOUS
  <2> HIDE DEF I
  <2>6. PICK k \in I : k = Seqs!Min(I) /\ \A i \in I : k <= i
    BY <1>2, <2>3, LeastElement DEF Seqs!Min
  <2>7. Seqs!RemoveFirst(s, m) = SubSeq(s, 1, k - 1) \o SubSeq(s, k + 1, Len(s))
    BY <1>2, <2>2, <2>6
  <2> QED
    BY <2>4, <2>5, <2>6, <2>7
<1> QED
  BY <1>1, <1>2

LEMMA RemoveStays ==
  ASSUME NEW s \in Seq(Nat), NEW m \in Nat
  PROVE  Seqs!RemoveFirst(s, m) \in Seq(Nat)
<1>1. \A k \in 1..Len(s) : SubSeq(s, 1, k - 1) \o SubSeq(s, k + 1, Len(s)) \in Seq(Nat)
  OBVIOUS
<1> QED
  BY <1>1, RemoveIs

LEMMA RemoveHead ==
  ASSUME NEW s \in Seq(Nat), s # <<>>
  PROVE  Seqs!RemoveFirst(s, s[1]) = Tail(s)
<1>1. s[1] \in Nat /\ 1 \in 1..Len(s)
  OBVIOUS
<1>2. SubSeq(s, 1, 1 - 1) \o SubSeq(s, 1 + 1, Len(s)) = Tail(s)
  OBVIOUS
<1>3. \A k \in 1..Len(s) : k <= 1 => k = 1
  OBVIOUS
<1> QED
  BY <1>1, <1>2, <1>3, RemoveIs

LEMMA EraseKeeps == ASSUME FedInv, NEW t \in Threads, Erase(t) PROVE FedInv'
<1>0. FedTypes /\ OneInSection
  BY DEF FedInv
<1> DEFINE list == Seqs!RemoveFirst(itsFederateMessage, fm_Ptr[t])
<1>1. /\ Steps(t, "remove", "unlock")
      /\ itsFederateMessage' = list
      /\ overlapped' = (overlapped \/ app = "adding")
      /\ UNCHANGED <<started, fedMutex, app, fm_Ptr, posted, seenByAdd, passedOn, threw, twoInside>>
  BY DEF Erase, EraseFrom, fedThread
<1>2. "remove" \in Inside /\ "unlock" \in FedPlaces /\ "remove" # "unborn" /\ "unlock" # "catch"
  BY DEF Inside, FedPlaces
<1>3. /\ at[t] = "remove" /\ at'[t] = "unlock"
      /\ \A s \in Threads : s # t => at'[s] = at[s]
      /\ at' \in [Threads -> FedPlaces]
      /\ \A s \in Threads : s > started' => at'[s] = "unborn"
  BY <1>0, <1>1, <1>2, StepIs
<1>4. HoldsMutex' /\ OneInSection'
  BY <1>1, <1>2, SectionStep
<1>5. list \in Seq(Nat)
  BY <1>0, RemoveStays DEF FedTypes
<1>6. FedTypes'
  BY <1>0, <1>1, <1>3, <1>5 DEF FedTypes
<1>7. ASSUME ListFollows, ~overlapped', ~twoInside' PROVE ListFollows'
  <2>1. \A s \in Threads : s # t => at[s] \notin Inside
    BY <1>0, <1>1, <1>2, <1>3, <1>7 DEF OneInSection
  <2>2. Behind = 0 /\ Behind' = 1
    BY <1>3, <2>1 DEF Behind, Removing, Inside
  <2>3. itsFederateMessage # <<>> /\ fm_Ptr[t] = itsFederateMessage[1]
    BY <1>3, <1>7 DEF ListFollows, FirstInHand
  <2>4. itsFederateMessage' = Tail(itsFederateMessage)
    BY <1>0, <1>1, <2>3, RemoveHead DEF FedTypes
  <2> DEFINE n == Len(itsFederateMessage)
  <2>5. /\ n \in Nat /\ n > 0 /\ Len(itsFederateMessage') = n - 1
        /\ \A i \in 1..(n - 1) : itsFederateMessage'[i] = itsFederateMessage[i + 1]
        /\ Len(passedOn) \in Nat
    BY <1>0, <2>3, <2>4 DEF FedTypes
  <2>6. \A s \in Threads : FirstInHand(s)'
    BY <1>1, <1>3, <2>1 DEF FirstInHand, Inside
  <2>7. Len(passedOn) + Behind + n = posted + 1
    BY <1>7 DEF ListFollows
  <2>8. ASSUME NEW i \in 1..(n - 1) PROVE itsFederateMessage'[i] = Len(passedOn) + 1 + i - 1
    <3>1. i + 1 \in 1..n
      BY <2>5
    <3>2. itsFederateMessage[i + 1] = Len(passedOn) + Behind + (i + 1) - 1
      BY <1>7, <3>1 DEF ListFollows
    <3> QED
      BY <2>2, <2>5, <3>2
  <2> HIDE DEF n
  <2>9. Len(passedOn) + Behind' + (n - 1) = posted + 1
    BY <2>2, <2>5, <2>7
  <2>10. app' # "adding"
    BY <1>1, <1>7
  <2> QED
    BY <1>1, <1>7, <2>2, <2>5, <2>6, <2>8, <2>9, <2>10 DEF ListFollows
<1> QED
  BY <1>1, <1>4, <1>6, <1>7 DEF FedInv

LEMMA FedStart == FederateInit => FedInv
<1> SUFFICES ASSUME FederateInit PROVE FedInv
  OBVIOUS
<1>1. \A t \in Threads : at[t] = "unborn"
  BY DEF FederateInit
<1>2. FedTypes
  <2>1. "unborn" \in FedPlaces
    BY DEF FedPlaces
  <2> QED
    BY <2>1, FederateAssumption DEF FederateInit, FedTypes
<1>3. HoldsMutex /\ OneInSection
  BY <1>1 DEF FederateInit, HoldsMutex, OneInSection, Inside
<1>4. ListFollows
  BY <1>1 DEF FederateInit, ListFollows, FirstInHand, Behind, Removing
<1> QED
  BY <1>2, <1>3, <1>4 DEF FedInv

LEMMA FedStep == FedInv /\ [FederateNext]_fedVars => FedInv'
<1> SUFFICES ASSUME FedInv, [FederateNext]_fedVars PROVE FedInv'
  OBVIOUS
<1>1. CASE Application
  BY <1>1, ApplicationKeeps
<1>2. CASE AddEnds
  BY <1>2, AddEndsKeeps
<1>3. CASE \E t \in Threads : Round(t) \/ TimerStep(t)
  <2>1. PICK t \in Threads : Round(t) \/ TimerStep(t)
    BY <1>3
  <2>2. CASE Round(t)
    BY <2>2, LockKeeps, NoMessageKeeps, FindsOneKeeps, PassOnKeeps, EraseKeeps DEF Round
  <2> QED
    BY <2>1, <2>2, TimerStepKeeps
<1>4. CASE UNCHANGED fedVars
  <2>1. UNCHANGED <<started, at, fedMutex, app, fedList, overlapped, threw, twoInside>>
    BY <1>4 DEF fedVars, fedThread, fedFlags
  <2>2. FedTypes'
    BY <2>1 DEF FedInv, FedTypes, fedList
  <2> QED
    BY <2>1, <2>2, OutsideKeeps DEF fedList, fedData
<1> QED
  BY <1>1, <1>2, <1>3, <1>4 DEF FederateNext

LEMMA FedPasses == FedInv => PassedOnce
<1> SUFFICES ASSUME FedInv PROVE PassedOnce
  OBVIOUS
<1>1. twoInside => threw
  BY DEF FedInv, HoldsMutex
<1>2. (StillListed = {}) <=> ~Removing
  BY DEF StillListed, Removing
<1>3. ASSUME ListFollows PROVE StillListed \subseteq {Len(passedOn)}
  BY <1>3 DEF ListFollows, FirstInHand, StillListed
<1>4. Behind = IF StillListed = {} THEN 1 ELSE 0
  BY <1>2 DEF Behind
<1> QED
  BY <1>1, <1>3, <1>4 DEF FedInv, ListFollows, PassedOnce

(* However many threads run on the object, are let go and started again,   *)
(* and whatever the receiver refuses or throws: until an add meets a use   *)
(* of the list or two threads are in the section, every message is passed  *)
(* on once and in order (FederateIO_OutputThread::threadOperation and      *)
(* FederateIO_InputThread::threadOperation).                               *)
THEOREM PassedOnceAlways == FederateSpec => []PassedOnce
<1> QED
  BY FedStart, FedStep, FedPasses, PTL DEF FederateSpec
----------------------------------------------------------------------------
(* The links.                                                              *)
Pairs(F, P) ==
  [ours : [F -> P \cup {NoObject}], theirs : [P -> F \cup {NoObject}]]

(* Only objects in S take part in the link.                                *)
Held(l, F, S) == \A f \in F : l.ours[f] # NoObject => f \in S /\ l.ours[f] \in S

Good(l, F, P, S) ==
  /\ l \in Pairs(F, P)
  /\ \A f \in F, p \in P : l.ours[f] = p <=> l.theirs[p] = f
  /\ Held(l, F, S)
----------------------------------------------------------------------------
(* The two elementary writes.                                              *)
LEMMA PointToIs ==
  ASSUME NEW F, NEW P, NEW l \in Pairs(F, P), NEW f \in F, NEW p \in P \cup {NoObject}
  PROVE  /\ PointTo(l, f, p) \in Pairs(F, P)
         /\ PointTo(l, f, p).theirs = l.theirs
         /\ \A g \in F : PointTo(l, f, p).ours[g] = IF g = f THEN p ELSE l.ours[g]
  BY DEF Pairs, PointTo

LEMMA PointBackIs ==
  ASSUME NEW F, NEW P, NEW l \in Pairs(F, P), NEW p \in P, NEW f \in F \cup {NoObject}
  PROVE  /\ PointBack(l, p, f) \in Pairs(F, P)
         /\ PointBack(l, p, f).ours = l.ours
         /\ \A q \in P : PointBack(l, p, f).theirs[q] = IF q = p THEN f ELSE l.theirs[q]
  BY DEF Pairs, PointBack

(* The setters that leave an old partner, on any link, agreeing or not.    *)
LEMMA LeaveAndPointIs ==
  ASSUME NEW F, NEW P, NoObject \notin F \cup P,
         NEW l \in Pairs(F, P), NEW f \in F, NEW p \in P \cup {NoObject}
  PROVE  LET r == LeaveAndPoint(l, f, p) IN
         /\ r \in Pairs(F, P)
         /\ \A g \in F : r.ours[g] = IF g = f THEN p ELSE l.ours[g]
         /\ \A q \in P : r.theirs[q] = IF l.ours[f] = q THEN NoObject ELSE l.theirs[q]
<1> DEFINE left == IF l.ours[f] # NoObject THEN PointBack(l, l.ours[f], NoObject) ELSE l
<1>1. l.ours[f] \in P \cup {NoObject}
  BY DEF Pairs
<1>2. /\ left \in Pairs(F, P)
      /\ left.ours = l.ours
      /\ \A q \in P : left.theirs[q] = IF l.ours[f] = q THEN NoObject ELSE l.theirs[q]
  <2>1. CASE l.ours[f] # NoObject
    <3>1. l.ours[f] \in P
      BY <1>1, <2>1
    <3> QED
      BY <2>1, <3>1, PointBackIs
  <2>2. CASE l.ours[f] = NoObject
    BY <2>2
  <2> QED
    BY <2>1, <2>2
<1>3. LeaveAndPoint(l, f, p) = PointTo(left, f, p)
  BY DEF LeaveAndPoint
<1> HIDE DEF left
<1> QED
  BY <1>2, <1>3, PointToIs

LEMMA LeaveAndPointBackIs ==
  ASSUME NEW F, NEW P, NoObject \notin F \cup P,
         NEW l \in Pairs(F, P), NEW p \in P, NEW f \in F \cup {NoObject}
  PROVE  LET r == LeaveAndPointBack(l, p, f) IN
         /\ r \in Pairs(F, P)
         /\ \A q \in P : r.theirs[q] = IF q = p THEN f ELSE l.theirs[q]
         /\ \A g \in F : r.ours[g] = IF l.theirs[p] = g THEN NoObject ELSE l.ours[g]
<1> DEFINE left == IF l.theirs[p] # NoObject THEN PointTo(l, l.theirs[p], NoObject) ELSE l
<1>1. l.theirs[p] \in F \cup {NoObject}
  BY DEF Pairs
<1>2. /\ left \in Pairs(F, P)
      /\ left.theirs = l.theirs
      /\ \A g \in F : left.ours[g] = IF l.theirs[p] = g THEN NoObject ELSE l.ours[g]
  <2>1. CASE l.theirs[p] # NoObject
    <3>1. l.theirs[p] \in F
      BY <1>1, <2>1
    <3> QED
      BY <2>1, <3>1, PointToIs
  <2>2. CASE l.theirs[p] = NoObject
    BY <2>2
  <2> QED
    BY <2>1, <2>2
<1>3. LeaveAndPointBack(l, p, f) = PointBack(left, p, f)
  BY DEF LeaveAndPointBack
<1> HIDE DEF left
<1> QED
  BY <1>2, <1>3, PointBackIs
----------------------------------------------------------------------------
(* The public setter of either side keeps a link good and makes it.        *)
LEMMA SetPartnerKeeps ==
  ASSUME NEW F, NEW P, NEW S, NoObject \notin F \cup P,
         NEW l, Good(l, F, P, S), NEW f \in F, NEW p \in P \cup {NoObject},
         p # NoObject => f \in S /\ p \in S
  PROVE  Good(SetPartner(l, f, p), F, P, S)
<1> DEFINE first == IF p # NoObject THEN LeaveAndPointBack(l, p, f) ELSE l
           r == SetPartner(l, f, p)
<1>0. l \in Pairs(F, P) /\ (\A g \in F, q \in P : l.ours[g] = q <=> l.theirs[q] = g) /\ Held(l, F, S)
  BY DEF Good
<1>1. /\ first \in Pairs(F, P)
      /\ \A q \in P : first.theirs[q] = IF q = p THEN f ELSE l.theirs[q]
      /\ \A g \in F : first.ours[g] = IF l.ours[g] = p THEN NoObject ELSE l.ours[g]
  <2>1. CASE p # NoObject
    BY <1>0, <2>1, LeaveAndPointBackIs
  <2>2. CASE p = NoObject
    BY <1>0, <2>2
  <2> QED
    BY <2>1, <2>2
<1>2. r = LeaveAndPoint(first, f, p)
  BY DEF SetPartner
<1> HIDE DEF first
<1>3. /\ r \in Pairs(F, P)
      /\ \A g \in F : r.ours[g] = IF g = f THEN p ELSE first.ours[g]
      /\ \A q \in P : r.theirs[q] = IF first.ours[f] = q THEN NoObject ELSE first.theirs[q]
  BY <1>1, <1>2, LeaveAndPointIs
<1> HIDE DEF r
<1>4. ASSUME NEW g \in F, NEW q \in P PROVE r.ours[g] = q <=> r.theirs[q] = g
  BY <1>0, <1>1, <1>3, <1>4
<1>5. Held(r, F, S)
  BY <1>0, <1>1, <1>3 DEF Held
<1> QED
  BY <1>3, <1>4, <1>5 DEF Good, r

LEMMA SetFederateKeeps ==
  ASSUME NEW F, NEW P, NEW S, NoObject \notin F \cup P,
         NEW l, Good(l, F, P, S), NEW p \in P, NEW f \in F \cup {NoObject},
         f # NoObject => f \in S /\ p \in S
  PROVE  Good(SetFederate(l, p, f), F, P, S)
<1> DEFINE first == IF f # NoObject THEN LeaveAndPoint(l, f, p) ELSE l
           r == SetFederate(l, p, f)
<1>0. l \in Pairs(F, P) /\ (\A g \in F, q \in P : l.ours[g] = q <=> l.theirs[q] = g) /\ Held(l, F, S)
  BY DEF Good
<1>1. /\ first \in Pairs(F, P)
      /\ \A g \in F : first.ours[g] = IF g = f THEN p ELSE l.ours[g]
      /\ \A q \in P : first.theirs[q] = IF l.theirs[q] = f THEN NoObject ELSE l.theirs[q]
  <2>1. CASE f # NoObject
    BY <1>0, <2>1, LeaveAndPointIs
  <2>2. CASE f = NoObject
    BY <1>0, <2>2
  <2> QED
    BY <2>1, <2>2
<1>2. r = LeaveAndPointBack(first, p, f)
  BY DEF SetFederate
<1> HIDE DEF first
<1>3. /\ r \in Pairs(F, P)
      /\ \A q \in P : r.theirs[q] = IF q = p THEN f ELSE first.theirs[q]
      /\ \A g \in F : r.ours[g] = IF first.theirs[p] = g THEN NoObject ELSE first.ours[g]
  BY <1>1, <1>2, LeaveAndPointBackIs
<1> HIDE DEF r
<1>4. ASSUME NEW g \in F, NEW q \in P PROVE r.ours[g] = q <=> r.theirs[q] = g
  BY <1>0, <1>1, <1>3, <1>4
<1>5. Held(r, F, S)
  BY <1>0, <1>1, <1>3 DEF Held
<1> QED
  BY <1>3, <1>4, <1>5 DEF Good, r
----------------------------------------------------------------------------
(* Cleaning up either side clears its own pointer and its partner's.       *)
LEMMA CleanUpKeeps ==
  ASSUME NEW F, NEW P, NEW S, NoObject \notin F \cup P,
         NEW l, Good(l, F, P, S), NEW f \in F
  PROVE  /\ Good(CleanUp(l, f), F, P, S)
         /\ CleanUp(l, f).ours[f] = NoObject
         /\ \A g \in F : CleanUp(l, f).ours[g] \in {l.ours[g], NoObject}
<1> DEFINE left == IF l.ours[f] # NoObject /\ l.theirs[l.ours[f]] # NoObject
                     THEN PointBack(l, l.ours[f], NoObject) ELSE l
           r == CleanUp(l, f)
<1>0. l \in Pairs(F, P) /\ (\A g \in F, q \in P : l.ours[g] = q <=> l.theirs[q] = g) /\ Held(l, F, S)
  BY DEF Good
<1>1. l.ours[f] \in P \cup {NoObject}
  BY <1>0 DEF Pairs
<1>2. /\ left \in Pairs(F, P)
      /\ left.ours = l.ours
      /\ \A q \in P : left.theirs[q] = IF l.ours[f] = q THEN NoObject ELSE l.theirs[q]
  <2>1. CASE l.ours[f] # NoObject
    <3>1. l.ours[f] \in P /\ l.theirs[l.ours[f]] = f
      BY <1>0, <1>1, <2>1
    <3>2. left = PointBack(l, l.ours[f], NoObject)
      BY <2>1, <3>1
    <3> HIDE DEF left
    <3> QED
      BY <1>0, <3>1, <3>2, PointBackIs
  <2>2. CASE l.ours[f] = NoObject
    BY <1>0, <2>2
  <2> QED
    BY <2>1, <2>2
<1>3. r = PointTo(left, f, NoObject)
  BY DEF CleanUp
<1> HIDE DEF left
<1>4. /\ r \in Pairs(F, P)
      /\ \A g \in F : r.ours[g] = IF g = f THEN NoObject ELSE l.ours[g]
      /\ \A q \in P : r.theirs[q] = IF l.ours[f] = q THEN NoObject ELSE l.theirs[q]
  BY <1>2, <1>3, PointToIs
<1> HIDE DEF r
<1>5. ASSUME NEW g \in F, NEW q \in P PROVE r.ours[g] = q <=> r.theirs[q] = g
  BY <1>0, <1>4, <1>5
<1>6. Held(r, F, S)
  BY <1>0, <1>4 DEF Held
<1> QED
  BY <1>4, <1>5, <1>6 DEF Good, r

LEMMA CleanUpBackKeeps ==
  ASSUME NEW F, NEW P, NEW S, NoObject \notin F \cup P,
         NEW l, Good(l, F, P, S), NEW p \in P
  PROVE  /\ Good(CleanUpBack(l, p), F, P, S)
         /\ \A g \in F : CleanUpBack(l, p).ours[g] # p
<1> DEFINE left == IF l.theirs[p] # NoObject /\ l.ours[l.theirs[p]] # NoObject
                     THEN PointTo(l, l.theirs[p], NoObject) ELSE l
           r == CleanUpBack(l, p)
<1>0. l \in Pairs(F, P) /\ (\A g \in F, q \in P : l.ours[g] = q <=> l.theirs[q] = g) /\ Held(l, F, S)
  BY DEF Good
<1>1. l.theirs[p] \in F \cup {NoObject}
  BY <1>0 DEF Pairs
<1>2. /\ left \in Pairs(F, P)
      /\ left.theirs = l.theirs
      /\ \A g \in F : left.ours[g] = IF l.theirs[p] = g THEN NoObject ELSE l.ours[g]
  <2>1. CASE l.theirs[p] # NoObject
    <3>1. l.theirs[p] \in F /\ l.ours[l.theirs[p]] = p
      BY <1>0, <1>1, <2>1
    <3>2. left = PointTo(l, l.theirs[p], NoObject)
      BY <2>1, <3>1
    <3> HIDE DEF left
    <3> QED
      BY <1>0, <3>1, <3>2, PointToIs
  <2>2. CASE l.theirs[p] = NoObject
    BY <1>0, <2>2
  <2> QED
    BY <2>1, <2>2
<1>3. r = PointBack(left, p, NoObject)
  BY DEF CleanUpBack
<1> HIDE DEF left
<1>4. /\ r \in Pairs(F, P)
      /\ \A q \in P : r.theirs[q] = IF q = p THEN NoObject ELSE l.theirs[q]
      /\ \A g \in F : r.ours[g] = IF l.theirs[p] = g THEN NoObject ELSE l.ours[g]
  BY <1>2, <1>3, PointBackIs
<1> HIDE DEF r
<1>5. ASSUME NEW g \in F, NEW q \in P PROVE r.ours[g] = q <=> r.theirs[q] = g
  BY <1>0, <1>4, <1>5
<1>6. Held(r, F, S)
  BY <1>0, <1>4 DEF Held
<1>7. \A g \in F : r.ours[g] # p
  BY <1>0, <1>4
<1> QED
  BY <1>4, <1>5, <1>6, <1>7 DEF Good, r

(* A good link stays good when objects that it does not use come or go.    *)
LEMMA GoodElsewhere ==
  ASSUME NEW F, NEW P, NEW S, NEW T, NEW l, Good(l, F, P, S),
         \A f \in F : l.ours[f] # NoObject => (f \in S => f \in T) /\ (l.ours[f] \in S => l.ours[f] \in T)
  PROVE  Good(l, F, P, T)
  BY DEF Good, Held
----------------------------------------------------------------------------
LinksInv ==
  /\ Good(HandlerLink, Federates, Handlers, there)
  /\ Good(OfficeLink, Federates, PostOffices, there)
  /\ itsFederate \in [Partners -> Federates \cup {NoObject}]

LEMMA BecomeIs ==
  ASSUME NEW hl \in Pairs(Federates, Handlers), NEW ol \in Pairs(Federates, PostOffices),
         Become(hl, ol)
  PROVE  /\ HandlerLink' = hl
         /\ OfficeLink' = ol
         /\ itsFederate' \in [Partners -> Federates \cup {NoObject}]
<1>1. \A h \in Handlers : itsFederate'[h] = hl.theirs[h]
  BY DEF Become, Partners
<1>2. \A o \in PostOffices : itsFederate'[o] = ol.theirs[o]
  BY LinksAssumption DEF Become, Partners
<1>3. HandlerLink' = [ours |-> hl.ours, theirs |-> [h \in Handlers |-> itsFederate'[h]]]
  BY DEF HandlerLink, Link, Become
<1>4. OfficeLink' = [ours |-> ol.ours, theirs |-> [o \in PostOffices |-> itsFederate'[o]]]
  BY DEF OfficeLink, Link, Become
<1>5. [h \in Handlers |-> itsFederate'[h]] = hl.theirs
  BY <1>1 DEF Pairs
<1>6. [o \in PostOffices |-> itsFederate'[o]] = ol.theirs
  BY <1>2 DEF Pairs
<1>7. hl = [ours |-> hl.ours, theirs |-> hl.theirs] /\ ol = [ours |-> ol.ours, theirs |-> ol.theirs]
  BY DEF Pairs
<1>8. itsFederate' \in [Partners -> Federates \cup {NoObject}]
  <2>1. ASSUME NEW p \in Partners
        PROVE (IF p \in Handlers THEN hl.theirs[p] ELSE ol.theirs[p]) \in Federates \cup {NoObject}
    BY DEF Pairs, Partners
  <2> QED
    BY <2>1 DEF Become
<1> QED
  BY <1>3, <1>4, <1>5, <1>6, <1>7, <1>8

(* Two good links, made the present ones, restore the invariant.           *)
LEMMA BecomeKeeps ==
  ASSUME NEW hl, NEW ol, Become(hl, ol),
         Good(hl, Federates, Handlers, there'), Good(ol, Federates, PostOffices, there')
  PROVE  LinksInv'
<1>1. hl \in Pairs(Federates, Handlers) /\ ol \in Pairs(Federates, PostOffices)
  BY DEF Good
<1>2. HandlerLink' = hl /\ OfficeLink' = ol /\ itsFederate' \in [Partners -> Federates \cup {NoObject}]
  BY <1>1, BecomeIs
<1>3. LinksInv' = (/\ Good(HandlerLink', Federates, Handlers, there')
                  /\ Good(OfficeLink', Federates, PostOffices, there')
                  /\ itsFederate' \in [Partners -> Federates \cup {NoObject}])
  BY DEF LinksInv, Good, Held, Pairs
<1> QED
  BY <1>2, <1>3
----------------------------------------------------------------------------
LEMMA LinksStart == LinksInit => LinksInv
<1> SUFFICES ASSUME LinksInit PROVE LinksInv
  OBVIOUS
<1>1. /\ HandlerLink = [ours |-> itsFederateIO_Handler, theirs |-> [h \in Handlers |-> itsFederate[h]]]
      /\ OfficeLink = [ours |-> thePostOffice, theirs |-> [o \in PostOffices |-> itsFederate[o]]]
  BY DEF HandlerLink, OfficeLink, Link
<1>2. \A p \in Partners : itsFederate[p] = NoObject
  BY DEF LinksInit
<1>3. Good(HandlerLink, Federates, Handlers, there)
  BY <1>1, <1>2, LinksAssumption DEF LinksInit, Good, Pairs, Held, Partners
<1>4. Good(OfficeLink, Federates, PostOffices, there)
  BY <1>1, <1>2, LinksAssumption DEF LinksInit, Good, Pairs, Held, Partners
<1> QED
  BY <1>3, <1>4 DEF LinksInit, LinksInv

LEMMA LinksStep == LinksInv /\ [LinksNext]_linkVars => LinksInv'
<1> SUFFICES ASSUME LinksInv, [LinksNext]_linkVars PROVE LinksInv'
  OBVIOUS
<1> USE LinksAssumption
<1>0. /\ NoObject \notin Federates \cup Handlers
      /\ NoObject \notin Federates \cup PostOffices
  BY DEF Partners
<1>00. /\ Good(HandlerLink, Federates, Handlers, there)
       /\ Good(OfficeLink, Federates, PostOffices, there)
  BY DEF LinksInv
<1>1. ASSUME NEW f \in Federates, NEW h \in Handlers, NEW o \in PostOffices,
             NEW type \in FrameworkTypes, ConstructFederate(f, h, o, type)
      PROVE  LinksInv'
  <2> DEFINE hl == SetFederate(SetPartner(HandlerLink, f, h), h, f)
             ol == IF type = "HLA" THEN SetPartner(OfficeLink, f, o) ELSE OfficeLink
  <2>1. there \subseteq there' /\ f \in there' /\ h \in there' /\ (type = "HLA" => o \in there')
    BY <1>1 DEF ConstructFederate
  <2>2. /\ Good(HandlerLink, Federates, Handlers, there')
        /\ Good(OfficeLink, Federates, PostOffices, there')
    BY <1>00, <2>1, GoodElsewhere
  <2>3. Good(SetPartner(HandlerLink, f, h), Federates, Handlers, there')
    BY <1>0, <2>1, <2>2, SetPartnerKeeps
  <2>4. Good(hl, Federates, Handlers, there')
    BY <1>0, <2>1, <2>3, SetFederateKeeps
  <2>5. Good(ol, Federates, PostOffices, there')
    BY <1>0, <2>1, <2>2, SetPartnerKeeps
  <2>6. Become(hl, ol)
    BY <1>1 DEF ConstructFederate
  <2> QED
    BY <2>4, <2>5, <2>6, BecomeKeeps
<1>2. ASSUME NEW f \in Federates, DestroyFederate(f)
      PROVE  LinksInv'
  <2> DEFINE h == itsFederateIO_Handler[f]
             o == IF federateFrameworkType[f] = "HLA" THEN thePostOffice[f] ELSE NoObject
             hb == IF h # NoObject THEN CleanUpBack(HandlerLink, h) ELSE HandlerLink
             ob == IF o # NoObject THEN CleanUpBack(OfficeLink, o) ELSE OfficeLink
             hl == CleanUp(hb, f)
             ol == CleanUp(ob, f)
  <2>1. Become(hl, ol) /\ there' = there \ {f, h, o}
    BY <1>2 DEF DestroyFederate
  <2>2. h \in Handlers \cup {NoObject} /\ o \in PostOffices \cup {NoObject}
    BY <1>00 DEF Good, Pairs, HandlerLink, OfficeLink, Link
  <2>3. Good(hb, Federates, Handlers, there) /\ \A g \in Federates : h # NoObject => hb.ours[g] # h
    BY <1>0, <1>00, <2>2, CleanUpBackKeeps
  <2>4. Good(ob, Federates, PostOffices, there) /\ \A g \in Federates : o # NoObject => ob.ours[g] # o
    BY <1>0, <1>00, <2>2, CleanUpBackKeeps
  <2> HIDE DEF hb, ob, h, o
  <2>5. /\ Good(hl, Federates, Handlers, there)
        /\ hl.ours[f] = NoObject
        /\ \A g \in Federates : hl.ours[g] \in {hb.ours[g], NoObject}
    BY <1>0, <2>3, CleanUpKeeps
  <2>6. /\ Good(ol, Federates, PostOffices, there)
        /\ ol.ours[f] = NoObject
        /\ \A g \in Federates : ol.ours[g] \in {ob.ours[g], NoObject}
    BY <1>0, <2>4, CleanUpKeeps
  <2> HIDE DEF hl, ol
  <2>7. Good(hl, Federates, Handlers, there')
    <3>1. \A g \in Federates : hl.ours[g] \in Handlers \cup {NoObject}
      BY <2>5 DEF Good, Pairs
    <3>2. ASSUME NEW g \in Federates, hl.ours[g] # NoObject
          PROVE  /\ g \in there => g \in there'
                 /\ hl.ours[g] \in there => hl.ours[g] \in there'
      BY <2>1, <2>2, <2>3, <2>5, <3>1, <3>2 DEF Partners
    <3> QED
      BY <2>5, <3>2, GoodElsewhere
  <2>8. Good(ol, Federates, PostOffices, there')
    <3>1. \A g \in Federates : ol.ours[g] \in PostOffices \cup {NoObject}
      BY <2>6 DEF Good, Pairs
    <3>2. ASSUME NEW g \in Federates, ol.ours[g] # NoObject
          PROVE  /\ g \in there => g \in there'
                 /\ ol.ours[g] \in there => ol.ours[g] \in there'
      BY <2>1, <2>2, <2>4, <2>6, <3>1, <3>2 DEF Partners
    <3> QED
      BY <2>6, <3>2, GoodElsewhere
  <2> QED
    BY <2>1, <2>7, <2>8, BecomeKeeps
<1>3. ASSUME NEW p \in Partners, ConstructPartner(p)
      PROVE  LinksInv'
  <2>1. HandlerLink' = HandlerLink /\ OfficeLink' = OfficeLink /\ itsFederate' = itsFederate
    BY <1>3 DEF ConstructPartner, pointers, HandlerLink, OfficeLink, Link
  <2>2. there \subseteq there'
    BY <1>3 DEF ConstructPartner
  <2>3. /\ Good(HandlerLink, Federates, Handlers, there')
        /\ Good(OfficeLink, Federates, PostOffices, there')
    BY <1>00, <2>2, GoodElsewhere
  <2> QED
    BY <2>1, <2>3 DEF LinksInv, Good, Held
<1>4. ASSUME NEW f \in Federates, NEW h \in Handlers \cup {NoObject}, setItsFederateIO_Handler(f, h)
      PROVE  LinksInv'
  <2>1. /\ Become(SetPartner(HandlerLink, f, h), OfficeLink) /\ there' = there
        /\ f \in there /\ (h # NoObject => h \in there)
    BY <1>4 DEF setItsFederateIO_Handler, There
  <2>2. Good(SetPartner(HandlerLink, f, h), Federates, Handlers, there)
    BY <1>0, <1>00, <2>1, SetPartnerKeeps
  <2> QED
    BY <1>00, <2>1, <2>2, BecomeKeeps
<1>5. ASSUME NEW f \in Federates, NEW o \in PostOffices \cup {NoObject}, setThePostOffice(f, o)
      PROVE  LinksInv'
  <2>1. /\ Become(HandlerLink, SetPartner(OfficeLink, f, o)) /\ there' = there
        /\ f \in there /\ (o # NoObject => o \in there)
    BY <1>5 DEF setThePostOffice, There
  <2>2. Good(SetPartner(OfficeLink, f, o), Federates, PostOffices, there)
    BY <1>0, <1>00, <2>1, SetPartnerKeeps
  <2> QED
    BY <1>00, <2>1, <2>2, BecomeKeeps
<1>6. ASSUME NEW p \in Partners, NEW f \in Federates \cup {NoObject}, setItsFederate(p, f)
      PROVE  LinksInv'
  <2>1. there' = there /\ p \in there /\ (f # NoObject => f \in there)
    BY <1>6 DEF setItsFederate, There
  <2>2. CASE p \in Handlers
    <3>1. Good(SetFederate(HandlerLink, p, f), Federates, Handlers, there)
      BY <1>0, <1>00, <2>1, <2>2, SetFederateKeeps
    <3> QED
      BY <1>00, <1>6, <2>1, <2>2, <3>1, BecomeKeeps DEF setItsFederate
  <2>3. CASE p \notin Handlers
    <3>1. p \in PostOffices
      BY <2>3 DEF Partners
    <3>2. Good(SetFederate(OfficeLink, p, f), Federates, PostOffices, there)
      BY <1>0, <1>00, <2>1, <3>1, SetFederateKeeps
    <3> QED
      BY <1>00, <1>6, <2>1, <2>3, <3>2, BecomeKeeps DEF setItsFederate
  <2> QED
    BY <2>2, <2>3
<1>7. ASSUME NEW f \in Federates, NEW type \in FrameworkTypes, setFederateFrameworkType(f, type)
      PROVE  LinksInv'
  BY <1>7 DEF setFederateFrameworkType, pointers, LinksInv, Good, Held, HandlerLink, OfficeLink, Link
<1>8. CASE UNCHANGED linkVars
  BY <1>8 DEF linkVars, pointers, LinksInv, Good, Held, HandlerLink, OfficeLink, Link
<1> QED
  BY <1>1, <1>2, <1>3, <1>4, <1>5, <1>6, <1>7, <1>8 DEF LinksNext

LEMMA LinksInvImplies == LinksInv => LinksAgree
<1> SUFFICES ASSUME LinksInv PROVE LinksAgree
  OBVIOUS
<1>1. /\ HandlerLink.ours = itsFederateIO_Handler /\ OfficeLink.ours = thePostOffice
      /\ \A h \in Handlers : HandlerLink.theirs[h] = itsFederate[h]
      /\ \A o \in PostOffices : OfficeLink.theirs[o] = itsFederate[o]
  BY DEF HandlerLink, OfficeLink, Link
<1>2. Mutual(HandlerLink) /\ Mutual(OfficeLink)
  BY DEF LinksInv, Good, Pairs, Mutual
<1>3. \A f \in There(Federates) :
        {itsFederateIO_Handler[f], thePostOffice[f]} \subseteq there \cup {NoObject}
  <2> SUFFICES ASSUME NEW f \in There(Federates)
               PROVE  /\ itsFederateIO_Handler[f] \in there \cup {NoObject}
                      /\ thePostOffice[f] \in there \cup {NoObject}
    OBVIOUS
  <2>1. f \in Federates
    BY DEF There
  <2>2. /\ HandlerLink.ours[f] # NoObject => HandlerLink.ours[f] \in there
        /\ OfficeLink.ours[f] # NoObject => OfficeLink.ours[f] \in there
    BY <2>1 DEF LinksInv, Good, Held
  <2> QED
    BY <1>1, <2>2
<1>4. ASSUME NEW p \in There(Partners) PROVE itsFederate[p] \in there \cup {NoObject}
  <2>1. p \in Partners /\ itsFederate[p] \in Federates \cup {NoObject}
    BY DEF LinksInv, There
  <2>2. CASE p \in Handlers
    BY <1>1, <2>1, <2>2, LinksAssumption DEF LinksInv, Good, Held, Partners
  <2>3. CASE p \in PostOffices
    BY <1>1, <2>1, <2>3, LinksAssumption DEF LinksInv, Good, Held, Partners
  <2> QED
    BY <2>1, <2>2, <2>3 DEF Partners
<1> QED
  BY <1>2, <1>3, <1>4 DEF LinksAgree

(* However federates and their partners are linked from either side,       *)
(* relinked, cleared and destroyed (Federate.cpp), the pointers of a link  *)
(* agree and lead only to objects that are there.                          *)
THEOREM LinksMutual == LinksSpec => []LinksAgree
<1>1. LinksInit => LinksInv
  BY LinksStart
<1>2. LinksInv /\ [LinksNext]_linkVars => LinksInv'
  BY LinksStep
<1> QED
  BY <1>1, <1>2, LinksInvImplies, PTL DEF LinksSpec
=============================================================================
