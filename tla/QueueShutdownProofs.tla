------------------------ MODULE QueueShutdownProofs ------------------------
(***************************************************************************)
(* Proofs about QueueShutdown, for any sets of threads: until the          *)
(* destructor's second unlock the mutex is exact and no update of the      *)
(* message count is lost.                                                  *)
(***************************************************************************)
EXTENDS QueueShutdown, TLAPS

(* The mutex is locked whenever somebody is in a section, and whoever is   *)
(* in one has read the present count.                                      *)
LockHeld ==
  destructor # "done" =>
    /\ destructor = "holding" => locked
    /\ \A t \in Threads :
         pc[t] = "inside" => locked /\ seen[t] = NumberMessagesInQueue

Inv == TypeOK /\ OneInside /\ CountKept /\ LockHeld

USE DEF Goto

(* The initial states satisfy the invariant.                               *)
LEMMA InitInv == Init => Inv
<1> SUFFICES ASSUME Init PROVE Inv
  OBVIOUS
<1>1. TypeOK
  <2>1. locked \in BOOLEAN /\ InterfaceStatus \in BOOLEAN
    BY Zenon DEF Init
  <2>2. /\ pc \in [Threads -> {"idle", "wait", "ready", "inside"}]
        /\ seen \in [Threads -> Int]
    BY DEF Init
  <2>3. /\ getMsgSemaphore \in Nat /\ NumberMessagesInQueue \in Int
        /\ calls \in 0..MaxCalls /\ stored \in Nat /\ taken \in Nat
    BY ShutdownAssumption DEF Init
  <2>4. destructor \in {"alive", "holding", "unlocked", "down", "done"}
    BY DEF Init
  <2> QED
    BY <2>1, <2>2, <2>3, <2>4 DEF TypeOK
<1>2. Inside = {}
  BY DEF Init, Inside
<1> QED
  BY <1>1, <1>2 DEF Init, Inv, OneInside, CountKept, LockHeld

(* Every step of a thread keeps the types.                                 *)
LEMMA NextTypeOK == TypeOK /\ [Next]_vars => TypeOK'
<1> SUFFICES ASSUME TypeOK, [Next]_vars PROVE TypeOK'
  OBVIOUS
<1> USE ShutdownAssumption DEF TypeOK
<1>1. ASSUME NEW t \in Threads, Call(t) PROVE TypeOK'
  <2>1. calls' \in 0..MaxCalls
    BY <1>1 DEF Call
  <2> QED
    BY <1>1, <2>1 DEF Call
<1>2. ASSUME NEW t \in Threads, Enter(t) PROVE TypeOK'
  <2>1. locked' \in BOOLEAN
    BY <1>2, Zenon DEF Enter, Lock
  <2> QED
    BY <1>2, <2>1 DEF Enter, ReadCount
<1>3. ASSUME NEW s \in Senders, LeaveStore(s) PROVE TypeOK'
  <2>1. s \in Threads /\ seen[s] \in Int
    BY DEF Threads
  <2>2. locked' \in BOOLEAN
    BY <1>3, Zenon DEF LeaveStore, Unlock
  <2> QED
    BY <1>3, <2>1, <2>2 DEF LeaveStore
<1>4. ASSUME NEW r \in Receivers, TakeToken(r) PROVE TypeOK'
  <2>1. getMsgSemaphore' \in Nat
    BY <1>4 DEF TakeToken
  <2>2. pc' \in [Threads -> {"idle", "wait", "ready", "inside"}]
    BY <1>4 DEF TakeToken
  <2> QED
    BY <1>4, <2>1, <2>2 DEF TakeToken
<1>5. ASSUME NEW r \in Receivers, GiveUp(r) PROVE TypeOK'
  BY <1>5 DEF GiveUp
<1>6. ASSUME NEW r \in Receivers, LeaveCopy(r) PROVE TypeOK'
  <2>1. r \in Threads /\ seen[r] \in Int
    BY DEF Threads
  <2>2. locked' \in BOOLEAN
    BY <1>6, Zenon DEF LeaveCopy, Unlock
  <2> QED
    BY <1>6, <2>1, <2>2 DEF LeaveCopy
<1>7. CASE Destroy
  <2>1. locked' \in BOOLEAN
    BY <1>7, Zenon DEF Destroy, Lock
  <2> QED
    BY <1>7, <2>1 DEF Destroy, StartDestroying
<1>8. CASE PostAndUnlock
  <2>1. locked' \in BOOLEAN
    BY <1>8, Zenon DEF PostAndUnlock, Unlock
  <2> QED
    BY <1>8, <2>1 DEF PostAndUnlock
<1>9. CASE TakeDown
  BY <1>9 DEF TakeDown
<1>10. CASE UnlockAgain
  <2>1. locked' \in BOOLEAN
    BY <1>10, Zenon DEF UnlockAgain, Unlock
  <2> QED
    BY <1>10, <2>1 DEF UnlockAgain
<1>11. CASE UNCHANGED vars
  BY <1>11 DEF vars
<1> QED
  BY <1>1, <1>2, <1>3, <1>4, <1>5, <1>6, <1>7, <1>8, <1>9, <1>10, <1>11 DEF Next

(* A step outside any section keeps the mutual exclusion: it neither       *)
(* enters nor leaves one, nor touches the count.                           *)
LEMMA OutsideStep ==
  ASSUME Inv, TypeOK', destructor' # "done" => destructor # "done",
         \A t \in Threads : pc'[t] = "inside" => pc[t] = "inside",
         UNCHANGED <<NumberMessagesInQueue, seen, stored, taken>>,
         \/ UNCHANGED <<locked, destructor>>
         \/ Inside = {} /\ locked' = (destructor' = "holding")
         \/ locked' = locked /\ destructor' # "holding"
  PROVE  Inv'
BY DEF Inv, TypeOK, OneInside, Inside, CountKept, LockHeld

(* Every step keeps the invariant.                                         *)
LEMMA NextInv == Inv /\ [Next]_vars => Inv'
<1> SUFFICES ASSUME Inv, [Next]_vars PROVE Inv'
  OBVIOUS
<1> TypeOK /\ TypeOK'
  BY NextTypeOK DEF Inv
<1>1. ASSUME NEW t \in Threads, Call(t) PROVE Inv'
  <2>1. \A u \in Threads : pc'[u] = "inside" => pc[u] = "inside"
    BY <1>1 DEF Call, TypeOK
  <2> QED
    BY <1>1, <2>1, OutsideStep DEF Call
<1>2. ASSUME NEW t \in Threads, Enter(t) PROVE Inv'
  <2>1. destructor # "done" => Inside = {}
    BY <1>2 DEF Inv, LockHeld, Inside, Enter, Lock
  <2>2. Inside' = Inside \cup {t}
    BY <1>2 DEF Inside, Enter, ReadCount, TypeOK
  <2>3. destructor # "done" => destructor # "holding"
    BY <1>2 DEF Inv, LockHeld, Enter, Lock
  <2>4. OneInside'
    BY <1>2, <2>1, <2>2, <2>3 DEF OneInside, Enter, ReadCount
  <2>5. LockHeld'
    BY <1>2, <2>1, <2>2 DEF LockHeld, Inside, Enter, ReadCount, Lock, TypeOK
  <2>6. CountKept'
    BY <1>2 DEF Inv, CountKept, Enter, ReadCount
  <2> QED
    BY <2>4, <2>5, <2>6 DEF Inv
<1>3. ASSUME NEW s \in Senders, LeaveStore(s) PROVE Inv'
  <2>1. destructor # "done" => Inside = {s} /\ destructor # "holding"
    BY <1>3 DEF Inv, OneInside, Inside, LeaveStore, Unlock, Threads
  <2>2. Inside' = Inside \ {s}
    BY <1>3 DEF Inside, LeaveStore, TypeOK
  <2>3. CountKept'
    BY <1>3 DEF Inv, CountKept, LockHeld, LeaveStore, TypeOK, Threads
  <2> QED
    BY <1>3, <2>1, <2>2, <2>3 DEF Inv, OneInside, LockHeld, Inside, LeaveStore, Unlock, Threads
<1>4. ASSUME NEW r \in Receivers, TakeToken(r) PROVE Inv'
  <2>1. \A u \in Threads : pc'[u] = "inside" => pc[u] = "inside"
    BY <1>4 DEF TakeToken, TypeOK
  <2> QED
    BY <1>4, <2>1, OutsideStep DEF TakeToken
<1>5. ASSUME NEW r \in Receivers, GiveUp(r) PROVE Inv'
  <2>1. \A u \in Threads : pc'[u] = "inside" => pc[u] = "inside"
    BY <1>5 DEF GiveUp, TypeOK
  <2> QED
    BY <1>5, <2>1, OutsideStep DEF GiveUp
<1>6. ASSUME NEW r \in Receivers, LeaveCopy(r) PROVE Inv'
  <2>1. destructor # "done" => Inside = {r} /\ destructor # "holding"
    BY <1>6 DEF Inv, OneInside, Inside, LeaveCopy, Unlock, Threads
  <2>2. Inside' = Inside \ {r}
    BY <1>6 DEF Inside, LeaveCopy, TypeOK
  <2>3. CountKept'
    BY <1>6 DEF Inv, CountKept, LockHeld, LeaveCopy, TypeOK, Threads
  <2> QED
    BY <1>6, <2>1, <2>2, <2>3 DEF Inv, OneInside, LockHeld, Inside, LeaveCopy, Unlock, Threads
<1>7. CASE Destroy
  <2>1. Inside = {}
    BY <1>7 DEF Inv, LockHeld, Inside, Destroy, Lock, StartDestroying
  <2> QED
    BY <1>7, <2>1, OutsideStep DEF Destroy, Lock, StartDestroying
<1>8. CASE PostAndUnlock
  <2>1. Inside = {}
    BY <1>8 DEF Inv, OneInside, Inside, PostAndUnlock
  <2> QED
    BY <1>8, <2>1, OutsideStep DEF PostAndUnlock, Unlock
<1>9. CASE TakeDown
  BY <1>9, OutsideStep DEF TakeDown
<1>10. CASE UnlockAgain
  BY <1>10 DEF UnlockAgain, Inv, OneInside, CountKept, LockHeld
<1>11. CASE UNCHANGED vars
  BY <1>11, OutsideStep DEF vars
<1> QED
  BY <1>1, <1>2, <1>3, <1>4, <1>5, <1>6, <1>7, <1>8, <1>9, <1>10, <1>11 DEF Next

(* The invariant holds in every reachable state.                           *)
THEOREM Invariance == Spec => []Inv
<1>1. Init => Inv
  BY InitInv
<1>2. Inv /\ [Next]_vars => Inv'
  BY NextInv
<1> QED
  BY <1>1, <1>2, PTL DEF Spec

(* Until the destructor's second unlock at most one thread is in a section *)
(* of myDataAccessMutex, for any number of threads in calls.               *)
THEOREM MutualExclusion == Spec => []OneInside
<1>1. Inv => OneInside
  BY DEF Inv
<1> QED
  BY <1>1, Invariance, PTL

(* Until then NumberMessagesInQueue counts every section exactly once.     *)
THEOREM NoLostUpdate == Spec => []CountKept
<1>1. Inv => CountKept
  BY DEF Inv
<1> QED
  BY <1>1, Invariance, PTL
=============================================================================
