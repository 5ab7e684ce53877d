------------------------ MODULE InterprocessQueueC ------------------------
(***************************************************************************)
(* The C queue framework_utils_InterprocessQueue: clients that open,       *)
(* use and delete one queue, each from one thread.  The first client's     *)
(* create2 has run; the model ends when the last client deletes the queue  *)
(* (a client that is opening it then is left with a destroyed mutex).      *)
(*                                                                         *)
(* Its differences from the C++ queue are the point: the second create2    *)
(* keeps the semaphores, a full queue refuses, InterfaceStatus is 0 when   *)
(* both clients are there, flushQueue resets the queue, and both timed     *)
(* calls unlock the mutex on every return, whether they hold it or not.    *)
(* What a mutex does when a thread that does not hold it unlocks it is the *)
(* library's choice: it stays as it is, or it opens.                       *)
(***************************************************************************)
EXTENDS Integers, Sequences, FiniteSets

CONSTANTS
  Clients,
  First,        \* the client that created the queue
  MaxMsgs,      \* context->maxMsgs
  MaxCalls,     \* bound: messages added
  NoMsg, Free   \* an unwritten slot; the mutex held by nobody

ASSUME CQueueAssumption ==
  /\ IsFiniteSet(Clients)
  /\ First \in Clients
  /\ MaxMsgs \in Nat \ {0}
  /\ MaxCalls \in Nat
  /\ NoMsg \notin 1..MaxCalls
  /\ Free \notin Clients

VARIABLES
  myDataAccessMutex,   \* the client that holds it, or Free
  InterfaceStatus,     \* 0: both clients are there; 1: one
  getMsgSemaphore, addMessageSemaphore,
  NumberMessagesInQueue, CurrentReadSlot, CurrentWriteSlot,
  myQueue,             \* slot -> message
  removed,             \* the last client has deleted the shared memory
  pc,                  \* client -> where its call stands
  calls,               \* messages added so far
  backlog,             \* history: the messages that should be in the queue
  strayed,             \* history: an unlock has opened somebody else's section
  flushRaced           \* history: a flush met a receiver that held a token

tokens == <<getMsgSemaphore, addMessageSemaphore>>
ring == <<NumberMessagesInQueue, CurrentReadSlot, CurrentWriteSlot, myQueue>>
vars == <<myDataAccessMutex, InterfaceStatus, tokens, ring, removed, pc, calls,
          backlog, strayed, flushRaced>>

Slots == 0..(MaxMsgs - 1)
Messages == 1..MaxCalls

(* Mutant: the index does not wrap.                                        *)
NextSlotMutant(slot) == slot + 1
NextSlot(slot) == (slot + 1) % MaxMsgs

Init ==
  /\ myDataAccessMutex = Free
  /\ InterfaceStatus = 1
  /\ getMsgSemaphore = 0
  /\ addMessageSemaphore = MaxMsgs
  /\ NumberMessagesInQueue = 0
  /\ CurrentReadSlot = 0
  /\ CurrentWriteSlot = 0
  /\ myQueue = [s \in Slots |-> NoMsg]
  /\ removed = FALSE
  /\ pc = [c \in Clients |-> IF c = First THEN "idle" ELSE "out"]
  /\ calls = 0
  /\ backlog = <<>>
  /\ strayed = FALSE
  /\ flushRaced = FALSE

Goto(c, from, to) == pc[c] = from /\ pc' = [pc EXCEPT ![c] = to]
Lock(c) == myDataAccessMutex = Free /\ myDataAccessMutex' = c
IsFree == myDataAccessMutex = Free /\ UNCHANGED myDataAccessMutex

(* An unlock by a client that may not hold the mutex.                      *)
Unlock(c) ==
  \/ /\ myDataAccessMutex \in {c, Free}
     /\ myDataAccessMutex' = Free
     /\ UNCHANGED strayed
  \/ /\ myDataAccessMutex \notin {c, Free}
     /\ \/ UNCHANGED <<myDataAccessMutex, strayed>>
        \/ myDataAccessMutex' = Free /\ strayed' = TRUE
----------------------------------------------------------------------------
(* create2 by a client that finds the shared memory, and delete *)

Open(c) ==
  /\ ~removed
  /\ Goto(c, "out", "opening")
  /\ UNCHANGED <<myDataAccessMutex, InterfaceStatus, tokens, ring, removed,
                 calls, backlog, strayed, flushRaced>>

(* The condition is notified: every waiting client wakes.                  *)
Announce(c) ==
  /\ ~removed
  /\ IsFree
  /\ pc[c] = "opening"
  /\ pc' = [d \in Clients |-> IF d = c THEN "idle"
                              ELSE IF pc[d] = "syncWait" THEN "syncWoken" ELSE pc[d]]
  /\ InterfaceStatus' = 0
  /\ UNCHANGED <<tokens, ring, removed, calls, backlog, strayed, flushRaced>>

(* The only client left removes the shared memory; one of two leaves it.   *)
LeaveQueue(c, alone) ==
  /\ ~removed
  /\ IsFree
  /\ Goto(c, "idle", "out")
  /\ removed' = (InterfaceStatus = alone)
  /\ InterfaceStatus' = 1
  /\ UNCHANGED <<tokens, ring, calls, backlog, strayed, flushRaced>>

(* Mutant: the status is read the way the enumeration names it.            *)
DeleteMutant(c) == LeaveQueue(c, 0)
Delete(c) == LeaveQueue(c, 1)
----------------------------------------------------------------------------
(* waitOnQueueSynchronization, which begins with getQueueState *)

CheckSync(c) ==
  /\ ~removed
  /\ IsFree
  /\ Goto(c, "idle", IF InterfaceStatus = 0 THEN "syncLock" ELSE "idle")
  /\ UNCHANGED <<InterfaceStatus, tokens, ring, removed, calls, backlog, strayed,
                 flushRaced>>

WaitSync(c) ==
  /\ IsFree
  /\ Goto(c, "syncLock", "syncWait")
  /\ UNCHANGED <<InterfaceStatus, tokens, ring, removed, calls, backlog, strayed,
                 flushRaced>>

SyncTimeout(c) ==
  /\ Goto(c, "syncWait", "syncWoken")
  /\ UNCHANGED <<myDataAccessMutex, InterfaceStatus, tokens, ring, removed,
                 calls, backlog, strayed, flushRaced>>

SyncReturn(c) ==
  /\ IsFree
  /\ Goto(c, "syncWoken", "idle")
  /\ UNCHANGED <<InterfaceStatus, tokens, ring, removed, calls, backlog, strayed,
                 flushRaced>>
----------------------------------------------------------------------------
(* timedAddMessage and timedGetMessage *)

Call(c, stage) ==
  /\ ~removed
  /\ Goto(c, "idle", stage)
  /\ UNCHANGED <<myDataAccessMutex, InterfaceStatus, tokens, ring, removed,
                 calls, backlog, strayed, flushRaced>>

Adding == {c \in Clients : pc[c] \in {"addWait", "store", "storing"}}
AddCall(c) == calls + Cardinality(Adding) < MaxCalls /\ Call(c, "addWait")
GetCall(c) == Call(c, "getWait")

TakeRoom(c) ==
  /\ addMessageSemaphore > 0
  /\ addMessageSemaphore' = addMessageSemaphore - 1
  /\ Goto(c, "addWait", "store")
  /\ UNCHANGED <<myDataAccessMutex, InterfaceStatus, getMsgSemaphore, ring,
                 removed, calls, backlog, strayed, flushRaced>>

TakeMsg(c) ==
  /\ getMsgSemaphore > 0
  /\ getMsgSemaphore' = getMsgSemaphore - 1
  /\ Goto(c, "getWait", "copy")
  /\ UNCHANGED <<myDataAccessMutex, InterfaceStatus, addMessageSemaphore, ring,
                 removed, calls, backlog, strayed, flushRaced>>

Timeout(c) ==
  /\ \/ addMessageSemaphore = 0 /\ Goto(c, "addWait", "return")
     \/ getMsgSemaphore = 0 /\ Goto(c, "getWait", "return")
  /\ UNCHANGED <<myDataAccessMutex, InterfaceStatus, tokens, ring, removed,
                 calls, backlog, strayed, flushRaced>>

(* Every call ends with an unlock, also when it never locked.              *)
Return(c) ==
  /\ Goto(c, "return", "idle")
  /\ Unlock(c)
  /\ UNCHANGED <<InterfaceStatus, tokens, ring, removed, calls, backlog,
                 flushRaced>>

Enter(c) ==
  /\ \/ Goto(c, "store", "storing")
     \/ Goto(c, "copy", "copying")
     \/ Goto(c, "flush", "flushing")
  /\ Lock(c)
  /\ UNCHANGED <<InterfaceStatus, tokens, ring, removed, calls, backlog, strayed,
                 flushRaced>>

PutIn(c, slot) ==
  /\ Goto(c, "storing", "idle")
  /\ calls' = calls + 1
  /\ myQueue' = [myQueue EXCEPT ![slot] = calls']
  /\ backlog' = Append(backlog, calls')
  /\ NumberMessagesInQueue' = NumberMessagesInQueue + 1
  /\ CurrentWriteSlot' = NextSlot(CurrentWriteSlot)
  /\ getMsgSemaphore' = getMsgSemaphore + 1
  /\ Unlock(c)
  /\ UNCHANGED <<InterfaceStatus, addMessageSemaphore, CurrentReadSlot, removed,
                 flushRaced>>

(* Mutant: the message goes where the next one is read.                    *)
StoreMutant(c) == PutIn(c, CurrentReadSlot)
Store(c) == PutIn(c, CurrentWriteSlot)

Copy(c) ==
  /\ Goto(c, "copying", "idle")
  /\ backlog' = IF backlog = <<>> THEN <<>> ELSE Tail(backlog)
  /\ NumberMessagesInQueue' = NumberMessagesInQueue - 1
  /\ CurrentReadSlot' = NextSlot(CurrentReadSlot)
  /\ addMessageSemaphore' = addMessageSemaphore + 1
  /\ Unlock(c)
  /\ UNCHANGED <<InterfaceStatus, getMsgSemaphore, CurrentWriteSlot, myQueue,
                 removed, calls, flushRaced>>
----------------------------------------------------------------------------
(* flushQueue: one try_wait and one post for each message in the queue.    *)

FlushCall(c) == Call(c, "flush")

LeastOf(m, n) == IF m <= n THEN m ELSE n

Empty(c) ==
  /\ Goto(c, "flushing", "idle")
  /\ NumberMessagesInQueue' = 0
  /\ CurrentReadSlot' = 0
  /\ CurrentWriteSlot' = 0
  /\ backlog' = <<>>
  /\ flushRaced' = (flushRaced \/ \E d \in Clients : pc[d] = "copy")
  /\ Unlock(c)
  /\ UNCHANGED <<InterfaceStatus, myQueue, removed, calls>>

(* Mutant: the room of the flushed messages is not given back.             *)
FlushMutant(c) ==
  /\ Empty(c)
  /\ getMsgSemaphore' = getMsgSemaphore - LeastOf(getMsgSemaphore, NumberMessagesInQueue)
  /\ UNCHANGED addMessageSemaphore

Flush(c) ==
  /\ Empty(c)
  /\ getMsgSemaphore' = getMsgSemaphore - LeastOf(getMsgSemaphore, NumberMessagesInQueue)
  /\ addMessageSemaphore' = addMessageSemaphore + NumberMessagesInQueue
----------------------------------------------------------------------------
Next ==
  \E c \in Clients :
    \/ Open(c) \/ Announce(c) \/ Delete(c)
    \/ CheckSync(c) \/ WaitSync(c) \/ SyncTimeout(c) \/ SyncReturn(c)
    \/ AddCall(c) \/ TakeRoom(c) \/ Enter(c) \/ Store(c)
    \/ GetCall(c) \/ TakeMsg(c) \/ Copy(c)
    \/ Timeout(c) \/ Return(c)
    \/ FlushCall(c) \/ Flush(c)

Spec == Init /\ [][Next]_vars
----------------------------------------------------------------------------
(* Properties *)

At(stages) == {c \in Clients : pc[c] \in stages}
There == Clients \ At({"out", "opening"})

(* The tokens account for every message and every slot, and the slots from *)
(* the read slot on hold the backlog in order: nothing is lost, doubled or *)
(* overwritten.                                                            *)
TokensAccount ==
  /\ getMsgSemaphore + Cardinality(At({"copy", "copying"})) = NumberMessagesInQueue
  /\ addMessageSemaphore + Cardinality(At({"store", "storing"}))
       + NumberMessagesInQueue = MaxMsgs

RingHoldsBacklog ==
  /\ NumberMessagesInQueue = Len(backlog)
  /\ \A i \in 1..Len(backlog) :
       myQueue[(CurrentReadSlot + i - 1) % MaxMsgs] = backlog[i]

(* Both hold through flushes and through clients that leave and come back, *)
(* unless an unlock strayed or a flush met a receiver that held a token.   *)
BacklogKept == ~strayed /\ ~flushRaced => TokensAccount /\ RingHoldsBacklog

(* delete removes the shared memory only when no other client is there:    *)
(* the status says "one client" whenever only one is.                      *)
RemovedOnlyByLast == [][removed' /\ ~removed => There' = {}]_vars

(* What the comments say of the lock: it protects the queue itself.        *)
OneInside == Cardinality(At({"storing", "copying", "flushing"})) <= 1
=============================================================================
