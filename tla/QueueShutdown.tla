--------------------------- MODULE QueueShutdown ---------------------------
(***************************************************************************)
(* The mutex of framework::utils::InterprocessQueue while one user         *)
(* destroys the queue and threads of either process are still in calls.    *)
(* The destructor unlocks myDataAccessMutex itself and its scoped_lock     *)
(* unlocks it again at the end of the scope: an interprocess_mutex does    *)
(* not know its owner, so the second unlock opens whatever section another *)
(* thread is in.  A critical section is two steps here, because            *)
(* ++NumberMessagesInQueue is a read and a write.                          *)
(***************************************************************************)
EXTENDS Integers

CONSTANTS
  Senders,     \* threads in timedAddMessage
  Receivers,   \* threads in timedGetMessage
  MaxCalls     \* bound: calls begun

ASSUME ShutdownAssumption ==
  /\ Senders \cap Receivers = {}
  /\ MaxCalls \in Nat

VARIABLES
  locked,                  \* myDataAccessMutex
  InterfaceStatus,
  getMsgSemaphore,
  NumberMessagesInQueue,
  destructor,              \* where the destructor stands
  pc,                      \* thread -> where its call stands
  seen,                    \* thread -> the count it has read in its section
  calls,
  stored, taken            \* history: sections of each kind completed

vars == <<locked, InterfaceStatus, getMsgSemaphore, NumberMessagesInQueue,
          destructor, pc, seen, calls, stored, taken>>

Threads == Senders \cup Receivers

(* The queue is up and empty, and the destructor has not been called.      *)
Init ==
  /\ locked = FALSE
  /\ InterfaceStatus = TRUE
  /\ getMsgSemaphore = 0
  /\ NumberMessagesInQueue = 0
  /\ destructor = "alive"
  /\ pc = [t \in Threads |-> "idle"]
  /\ seen = [t \in Threads |-> 0]
  /\ calls = 0
  /\ stored = 0
  /\ taken = 0

Goto(t, from, to) == pc[t] = from /\ pc' = [pc EXCEPT ![t] = to]
Lock == ~locked /\ locked' = TRUE
Unlock == locked' = FALSE
----------------------------------------------------------------------------
(* A call: getQueueState (a section that changes nothing), then the section*)
(* that moves a message.  A receiver needs a token for its section.        *)

Call(t) ==
  /\ calls < MaxCalls
  /\ calls' = calls + 1
  /\ ~locked
  /\ InterfaceStatus
  /\ Goto(t, "idle", IF t \in Senders THEN "ready" ELSE "wait")
  /\ UNCHANGED <<locked, InterfaceStatus, getMsgSemaphore,
                 NumberMessagesInQueue, destructor, seen, stored, taken>>

TakeToken(r) ==
  /\ getMsgSemaphore > 0
  /\ getMsgSemaphore' = getMsgSemaphore - 1
  /\ Goto(r, "wait", "ready")
  /\ UNCHANGED <<locked, InterfaceStatus, NumberMessagesInQueue, destructor,
                 seen, calls, stored, taken>>

GiveUp(r) ==
  /\ getMsgSemaphore = 0
  /\ Goto(r, "wait", "idle")
  /\ UNCHANGED <<locked, InterfaceStatus, getMsgSemaphore,
                 NumberMessagesInQueue, destructor, seen, calls, stored, taken>>

ReadCount(t) ==
  /\ Goto(t, "ready", "inside")
  /\ seen' = [seen EXCEPT ![t] = NumberMessagesInQueue]
  /\ UNCHANGED <<InterfaceStatus, getMsgSemaphore, NumberMessagesInQueue,
                 destructor, calls, stored, taken>>

(* Mutant: the section is entered without the lock.                        *)
EnterMutant(t) == locked' = TRUE /\ ReadCount(t)

Enter(t) == Lock /\ ReadCount(t)

LeaveStore(s) ==
  /\ Goto(s, "inside", "idle")
  /\ NumberMessagesInQueue' = seen[s] + 1
  /\ stored' = stored + 1
  /\ getMsgSemaphore' = getMsgSemaphore + 1
  /\ Unlock
  /\ UNCHANGED <<InterfaceStatus, destructor, seen, calls, taken>>

LeaveCopy(r) ==
  /\ Goto(r, "inside", "idle")
  /\ NumberMessagesInQueue' = seen[r] - 1
  /\ taken' = taken + 1
  /\ Unlock
  /\ UNCHANGED <<InterfaceStatus, getMsgSemaphore, destructor, seen, calls, stored>>
----------------------------------------------------------------------------
(* The destructor *)

StartDestroying ==
  /\ destructor = "alive"
  /\ destructor' = "holding"
  /\ UNCHANGED <<InterfaceStatus, getMsgSemaphore, NumberMessagesInQueue, pc,
                 seen, calls, stored, taken>>

(* Mutant: the destructor does not wait for the lock that it then unlocks. *)
DestroyMutant == locked' = TRUE /\ StartDestroying

Destroy == Lock /\ StartDestroying

PostAndUnlock ==
  /\ destructor = "holding"
  /\ getMsgSemaphore' = getMsgSemaphore + 1
  /\ Unlock
  /\ destructor' = "unlocked"
  /\ UNCHANGED <<InterfaceStatus, NumberMessagesInQueue, pc, seen, calls,
                 stored, taken>>

(* The interface goes down outside any section ...                         *)
TakeDown ==
  /\ destructor = "unlocked"
  /\ InterfaceStatus' = FALSE
  /\ destructor' = "down"
  /\ UNCHANGED <<locked, getMsgSemaphore, NumberMessagesInQueue, pc, seen,
                 calls, stored, taken>>

(* ... and the end of the scope unlocks once more.                         *)
UnlockAgain ==
  /\ destructor = "down"
  /\ Unlock
  /\ destructor' = "done"
  /\ UNCHANGED <<InterfaceStatus, getMsgSemaphore, NumberMessagesInQueue, pc,
                 seen, calls, stored, taken>>

Next ==
  \/ \E t \in Threads : Call(t) \/ Enter(t)
  \/ \E s \in Senders : LeaveStore(s)
  \/ \E r \in Receivers : TakeToken(r) \/ GiveUp(r) \/ LeaveCopy(r)
  \/ Destroy
  \/ PostAndUnlock
  \/ TakeDown
  \/ UnlockAgain

Spec == Init /\ [][Next]_vars
----------------------------------------------------------------------------
(* Properties *)

(* Type invariant.                                                         *)
TypeOK ==
  /\ locked \in BOOLEAN
  /\ InterfaceStatus \in BOOLEAN
  /\ getMsgSemaphore \in Nat
  /\ NumberMessagesInQueue \in Int
  /\ destructor \in {"alive", "holding", "unlocked", "down", "done"}
  /\ pc \in [Threads -> {"idle", "wait", "ready", "inside"}]
  /\ seen \in [Threads -> Int]
  /\ calls \in 0..MaxCalls
  /\ stored \in Nat
  /\ taken \in Nat

Inside == {t \in Threads : pc[t] = "inside"}

(* Until the second unlock the lock protects the queue: one thread at most *)
(* is in a section, and nobody is while the destructor holds the lock.     *)
OneInside ==
  destructor # "done" =>
    /\ \A t, u \in Inside : t = u
    /\ destructor = "holding" => Inside = {}

(* Until the second unlock no update of the message count is lost.         *)
CountKept == destructor # "done" => NumberMessagesInQueue = stored - taken

(* What the destructor's comment says of its lock: it protects the queue.  *)
CountAlwaysKept == NumberMessagesInQueue = stored - taken
=============================================================================
