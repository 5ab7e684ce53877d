------------------------- MODULE InterprocessQueue -------------------------
(***************************************************************************)
(* The shared-memory queue framework::utils::InterprocessQueue while its   *)
(* two users are attached: the second user's constructor, getQueueState,   *)
(* timedAddMessage and timedGetMessage, called by any number of threads.   *)
(*                                                                         *)
(* A step is one critical section of myDataAccessMutex, or one operation   *)
(* on a semaphore: the code never waits while it holds the mutex, so a     *)
(* section runs as if it were atomic, and every interleaving of two calls  *)
(* is an interleaving of these steps.  A timed wait gives up only when its *)
(* semaphore is zero, and may do so at any such moment.  The destructor,   *)
(* which breaks this discipline, is in QueueShutdown and QueueLifecycle.   *)
(***************************************************************************)
EXTENDS Integers, Sequences, FiniteSets

CONSTANTS
  Senders,      \* threads that call timedAddMessage
  Receivers,    \* threads that call timedGetMessage
  MaxMsgs,      \* maxMsgs: the number of slots
  Modulus,      \* NumberMessagesInQueue counts modulo this (2^32 in the build)
  MaxCalls,     \* bound: calls of timedAddMessage in a behaviour
  NoMsg         \* the content of a slot that no call has written

ASSUME QueueAssumption ==
  /\ IsFiniteSet(Senders)
  /\ IsFiniteSet(Receivers)
  /\ Senders \cap Receivers = {}
  /\ MaxMsgs \in Nat \ {0}
  /\ Modulus \in Nat
  /\ MaxMsgs < Modulus
  /\ MaxCalls \in Nat
  /\ NoMsg \notin 1..MaxCalls

VARIABLES
  InterfaceStatus,        \* TRUE once the second user has opened the queue
  getMsgSemaphore,        \* the count of each semaphore
  addMessageSemaphore,
  CurrentReadSlot,
  CurrentWriteSlot,
  NumberMessagesInQueue,
  myQueue,                \* slot -> the message copied there
  pc,                     \* thread -> where its call stands
  arg,                    \* sender -> the message of its latest call
  calls,                  \* calls of timedAddMessage so far
  accepted,               \* history: the messages stored, in order
  removed,                \* history: what was taken out of a slot, in order,
                          \*   and whether it was received or dropped
  drops,                  \* history: how many of these were dropped
  misread                 \* history: a receiver has read an empty queue

control == <<InterfaceStatus, getMsgSemaphore, addMessageSemaphore,
             CurrentReadSlot, CurrentWriteSlot, NumberMessagesInQueue>>
history == <<accepted, removed, drops, misread>>
vars == <<control, myQueue, pc, arg, calls, history>>

Slots == 0..(MaxMsgs - 1)
Messages == 1..MaxCalls
Threads == Senders \cup Receivers

----------------------------------------------------------------------------
(* The arithmetic of the control data: a slot index wraps at maxMsgs, the  *)
(* message count is an unsigned int.                                       *)

Inc(n) == (n + 1) % Modulus
Dec(n) == (n + Modulus - 1) % Modulus

(* Mutants: the index does not wrap; room is made one message too early.   *)
NextSlotMutant(slot) == slot + 1
NextSlot(slot) == (slot + 1) % MaxMsgs

QueueFullMutant == NumberMessagesInQueue + 1 >= MaxMsgs
QueueFull == NumberMessagesInQueue >= MaxMsgs

----------------------------------------------------------------------------
(* The creator's constructor has run.                                      *)
Init ==
  /\ InterfaceStatus = FALSE
  /\ getMsgSemaphore = 0
  /\ addMessageSemaphore = MaxMsgs
  /\ CurrentReadSlot = 0
  /\ CurrentWriteSlot = 0
  /\ NumberMessagesInQueue = 0
  /\ myQueue = [s \in Slots |-> NoMsg]
  /\ pc = [t \in Threads |-> "idle"]
  /\ arg = [s \in Senders |-> NoMsg]
  /\ calls = 0
  /\ accepted = <<>>
  /\ removed = <<>>
  /\ drops = 0
  /\ misread = FALSE

(* The second user's constructor constructs the control data again, which  *)
(* sets both semaphores anew, and declares the interface up.               *)
OpenQueue ==
  /\ ~InterfaceStatus
  /\ InterfaceStatus' = TRUE
  /\ getMsgSemaphore' = 0
  /\ addMessageSemaphore' = MaxMsgs
  /\ UNCHANGED <<CurrentReadSlot, CurrentWriteSlot, NumberMessagesInQueue,
                 myQueue, pc, arg, calls, history>>

Goto(t, from, to) == pc[t] = from /\ pc' = [pc EXCEPT ![t] = to]

(* getQueueState, and the return of FALSE while the interface is down.     *)
CheckState(t, from, to) ==
  /\ Goto(t, from, IF InterfaceStatus THEN to ELSE "idle")
  /\ UNCHANGED <<control, myQueue, arg, calls, history>>

(* A message leaves the slot at CurrentReadSlot, for a receiver or because *)
(* a sender makes room: the statements the two functions share.            *)
Unload(how) ==
  /\ NumberMessagesInQueue' = Dec(NumberMessagesInQueue)
  /\ CurrentReadSlot' = NextSlot(CurrentReadSlot)
  /\ removed' = Append(removed, [msg |-> myQueue[CurrentReadSlot], how |-> how])

TakeOut(how) == Unload(how) /\ addMessageSemaphore' = addMessageSemaphore + 1

----------------------------------------------------------------------------
(* timedAddMessage *)

AddCall(s) ==
  /\ calls < MaxCalls
  /\ Goto(s, "idle", "addCheck")
  /\ calls' = calls + 1
  /\ arg' = [arg EXCEPT ![s] = calls + 1]
  /\ UNCHANGED <<control, myQueue, history>>

AddCheckState(s) == CheckState(s, "addCheck", "makeRoom")

(* Mutant: the room made is not announced.                                 *)
MakeRoomMutant(s) ==
  /\ Goto(s, "makeRoom", "addWait")
  /\ IF QueueFull
       THEN Unload("dropped") /\ drops' = drops + 1
       ELSE UNCHANGED <<CurrentReadSlot, NumberMessagesInQueue, removed, drops>>
  /\ UNCHANGED <<InterfaceStatus, getMsgSemaphore, addMessageSemaphore,
                 CurrentWriteSlot, myQueue, arg, calls, accepted, misread>>

(* A full queue gives up its oldest message; getMsgSemaphore keeps the     *)
(* token that was posted for it.                                           *)
MakeRoom(s) ==
  /\ Goto(s, "makeRoom", "addWait")
  /\ IF QueueFull
       THEN TakeOut("dropped") /\ drops' = drops + 1
       ELSE UNCHANGED <<addMessageSemaphore, CurrentReadSlot,
                        NumberMessagesInQueue, removed, drops>>
  /\ UNCHANGED <<InterfaceStatus, getMsgSemaphore, CurrentWriteSlot, myQueue,
                 arg, calls, accepted, misread>>

TakeRoom(s) ==
  /\ addMessageSemaphore > 0
  /\ Goto(s, "addWait", "store")
  /\ addMessageSemaphore' = addMessageSemaphore - 1
  /\ UNCHANGED <<InterfaceStatus, getMsgSemaphore, CurrentReadSlot,
                 CurrentWriteSlot, NumberMessagesInQueue, myQueue, arg, calls,
                 history>>

(* Mutant: the result of the timed wait is not looked at.                  *)
AddTimeoutMutant(s) ==
  /\ addMessageSemaphore = 0
  /\ Goto(s, "addWait", "store")
  /\ UNCHANGED <<control, myQueue, arg, calls, history>>

AddTimeout(s) ==
  /\ addMessageSemaphore = 0
  /\ Goto(s, "addWait", "idle")
  /\ UNCHANGED <<control, myQueue, arg, calls, history>>

PutIn(s, slot, post) ==
  /\ Goto(s, "store", "idle")
  /\ myQueue' = [myQueue EXCEPT ![slot] = arg[s]]
  /\ NumberMessagesInQueue' = Inc(NumberMessagesInQueue)
  /\ CurrentWriteSlot' = NextSlot(CurrentWriteSlot)
  /\ getMsgSemaphore' = getMsgSemaphore + post
  /\ accepted' = Append(accepted, arg[s])
  /\ UNCHANGED <<InterfaceStatus, addMessageSemaphore, CurrentReadSlot, arg,
                 calls, removed, drops, misread>>

(* Mutants: the slot is advanced before the copy; no receiver is woken.    *)
StoreLateMutant(s) == PutIn(s, NextSlot(CurrentWriteSlot), 1)
StoreSilentMutant(s) == PutIn(s, CurrentWriteSlot, 0)

Store(s) == PutIn(s, CurrentWriteSlot, 1)

----------------------------------------------------------------------------
(* timedGetMessage *)

GetCall(r) ==
  /\ Goto(r, "idle", "getCheck")
  /\ UNCHANGED <<control, myQueue, arg, calls, history>>

GetCheckState(r) == CheckState(r, "getCheck", "getWait")

TakeMsg(r) ==
  /\ getMsgSemaphore > 0
  /\ Goto(r, "getWait", "copy")
  /\ getMsgSemaphore' = getMsgSemaphore - 1
  /\ UNCHANGED <<InterfaceStatus, addMessageSemaphore, CurrentReadSlot,
                 CurrentWriteSlot, NumberMessagesInQueue, myQueue, arg, calls,
                 history>>

(* Mutant: the result of the timed wait is not looked at.                  *)
GetTimeoutMutant(r) ==
  /\ getMsgSemaphore = 0
  /\ Goto(r, "getWait", "copy")
  /\ UNCHANGED <<control, myQueue, arg, calls, history>>

GetTimeout(r) ==
  /\ getMsgSemaphore = 0
  /\ Goto(r, "getWait", "idle")
  /\ UNCHANGED <<control, myQueue, arg, calls, history>>

Copy(r) ==
  /\ Goto(r, "copy", "idle")
  /\ TakeOut("received")
  /\ misread' = (misread \/ NumberMessagesInQueue = 0)
  /\ UNCHANGED <<InterfaceStatus, getMsgSemaphore, CurrentWriteSlot, myQueue,
                 arg, calls, accepted, drops>>

----------------------------------------------------------------------------
SenderStep(s) ==
  \/ AddCheckState(s)
  \/ MakeRoom(s)
  \/ TakeRoom(s)
  \/ AddTimeout(s)
  \/ Store(s)

ReceiverStep(r) ==
  \/ GetCall(r)
  \/ GetCheckState(r)
  \/ TakeMsg(r)
  \/ GetTimeout(r)
  \/ Copy(r)

Next ==
  \/ OpenQueue
  \/ \E s \in Senders : AddCall(s) \/ SenderStep(s)
  \/ \E r \in Receivers : ReceiverStep(r)

Spec == Init /\ [][Next]_vars

(* A call in progress goes on (every wait in it has a timeout), and the    *)
(* receivers poll for ever, as Recv_NTDS_Mesg does with WAIT_FOREVER.      *)
Fairness ==
  /\ \A s \in Senders : WF_vars(SenderStep(s))
  /\ \A r \in Receivers : WF_vars(ReceiverStep(r))

FairSpec == Spec /\ Fairness
----------------------------------------------------------------------------
(* Properties *)

Calling(T, stage) == {t \in T : pc[t] = stage}

(* Messages stored and not yet taken out; negative after a misread.        *)
Backlog == Len(accepted) - Len(removed)

(* The place `n` slots after `slot` (n at most MaxMsgs).                   *)
Ahead(slot, n) == IF slot + n >= MaxMsgs THEN slot + n - MaxMsgs ELSE slot + n

(* Type invariant.                                                         *)
TypeOK ==
  /\ InterfaceStatus \in BOOLEAN
  /\ getMsgSemaphore \in Nat
  /\ addMessageSemaphore \in Nat
  /\ CurrentReadSlot \in Slots
  /\ CurrentWriteSlot \in Slots
  /\ NumberMessagesInQueue \in 0..(Modulus - 1)
  /\ myQueue \in [Slots -> Messages \cup {NoMsg}]
  /\ pc \in [Threads -> {"idle", "addCheck", "makeRoom", "addWait", "store",
                         "getCheck", "getWait", "copy"}]
  /\ arg \in [Senders -> Messages \cup {NoMsg}]
  /\ calls \in 0..MaxCalls
  /\ accepted \in Seq(Messages)
  /\ removed \in Seq([msg : Messages \cup {NoMsg}, how : {"received", "dropped"}])
  /\ drops \in Nat
  /\ misread \in BOOLEAN

(* The tokens of the two semaphores and those held by calls in progress    *)
(* account for every slot: each accepted message left one token in         *)
(* getMsgSemaphore that only a receiver takes, and each drop adds one      *)
(* token to the total for good.                                            *)
TokenBalance ==
  /\ getMsgSemaphore + Cardinality(Calling(Receivers, "copy"))
       = Backlog + drops
  /\ addMessageSemaphore + Cardinality(Calling(Senders, "store")) + Backlog
       = MaxMsgs

(* A receiver is given something that is not in the queue only after the   *)
(* queue has overflowed at least once.                                     *)
MisreadOnlyAfterOverflow == misread => drops > 0

(* Until then the control data is exact: the count is the backlog, the     *)
(* slots between the read and the write slot hold the backlog in order,    *)
(* and no unread message is overwritten, whatever the calls in progress.   *)
RingHoldsBacklog ==
  ~misread =>
    /\ Backlog \in 0..MaxMsgs
    /\ NumberMessagesInQueue = Backlog
    /\ CurrentWriteSlot = Ahead(CurrentReadSlot, Backlog)
    /\ \A i \in 0..(Backlog - 1) :
         myQueue[Ahead(CurrentReadSlot, i)] = accepted[Len(removed) + i + 1]

(* Until then messages leave the queue once each, in the order in which    *)
(* they were accepted, by being received or by being dropped.              *)
LeaveInOrder ==
  ~misread =>
    \A i \in 1..Len(removed) : i <= Len(accepted) /\ removed[i].msg = accepted[i]

(* The content of the queue, read from the ring.                           *)
Waiting ==
  IF misread THEN <<>>
  ELSE [i \in 1..Backlog |-> myQueue[Ahead(CurrentReadSlot, i - 1)]]

(* The queue implements a FIFO of capacity MaxMsgs that drops its oldest   *)
(* message when full, as long as no receiver has read it empty.            *)
Promise == INSTANCE LossyFifo WITH
  Capacity <- MaxMsgs,
  Payloads <- Messages,
  queue <- Waiting,
  overflowed <- drops > 0

KeepsPromise == Promise!Spec

(* Every accepted message is received or dropped, unless a misread has     *)
(* put the read slot out of step.                                          *)
Stored(m) == \E i \in 1..Len(accepted) : accepted[i] = m
Left(m) == \E i \in 1..Len(removed) : removed[i].msg = m
AcceptedLeaves ==
  \A m \in Messages : Stored(m) /\ ~misread ~> Left(m) \/ misread

(* What the header of timedGetMessage says: a call that returns TRUE gives *)
(* its caller a message that was in the queue.                             *)
ReturnsOnlyQueuedMessages == ~misread
=============================================================================
