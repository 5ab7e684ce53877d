------------------------ MODULE QueueVariantsProofs ------------------------
(***************************************************************************)
(* The two other implementations of the shared-memory queue, for any       *)
(* clients or users, any number of slots, any values and any width of the  *)
(* count: that the ring holds the backlog and the tokens account for it    *)
(* (both queues), which client removes the C queue, and that users of the  *)
(* Win32 queue that are synchronized have met.                             *)
(***************************************************************************)
EXTENDS InterprocessQueueC, Win32Queue, FiniteSetTheorems, TLAPS

(* A ring of M slots that holds a sequence from slot r on.                 *)
Holds(slots, r, s, M) == \A i \in 1..Len(s) : slots[(r + i - 1) % M] = s[i]

(* Walking round the ring.                                                 *)
LEMMA Walk ==
  ASSUME NEW M \in Nat \ {0}, NEW r \in 0..(M - 1), NEW n \in 0..M
  PROVE  /\ (r + n) % M = IF r + n < M THEN r + n ELSE r + n - M
         /\ (r + n) % M \in 0..(M - 1)
         /\ n < M => (((r + n) % M) + 1) % M = (r + n + 1) % M
         /\ n > 0 => (((r + 1) % M) + n - 1) % M = (r + n) % M
<1>1. \A x \in 0..(M - 1) : x % M = x
  OBVIOUS
<1>2. \A x \in M..(2 * M - 1) : x % M = x - M
  <2> SUFFICES ASSUME NEW x \in M..(2 * M - 1) PROVE x % M = x - M
    OBVIOUS
  <2>1. x - M \in 0..(M - 1)
    OBVIOUS
  <2> QED
    BY <2>1
<1>3. (r + n) % M = IF r + n < M THEN r + n ELSE r + n - M
  BY <1>1, <1>2
<1>4. (r + 1) % M = IF r + 1 < M THEN r + 1 ELSE 0
  BY <1>1, <1>2
<1>5. n < M => (r + n + 1) % M = IF r + n + 1 < M THEN r + n + 1 ELSE r + n + 1 - M
  BY <1>1, <1>2
<1>6. n < M => (((r + n) % M) + 1) % M = (r + n + 1) % M
  BY <1>1, <1>2, <1>3, <1>5
<1>7. n > 0 => (((r + 1) % M) + n - 1) % M = (r + n) % M
  BY <1>1, <1>2, <1>3, <1>4
<1> QED
  BY <1>3, <1>6, <1>7

(* A message put behind the last one.                                      *)
LEMMA RingPut ==
  ASSUME NEW M \in Nat \ {0}, NEW V, NEW f \in [0..(M - 1) -> V], NEW r \in 0..(M - 1),
         NEW s \in Seq(V), Len(s) < M, Holds(f, r, s, M), NEW x \in V
  PROVE  Holds([f EXCEPT ![(r + Len(s)) % M] = x], r, Append(s, x), M)
<1> DEFINE g == [f EXCEPT ![(r + Len(s)) % M] = x]
           t == Append(s, x)
<1>1. Len(s) \in 0..(M - 1) /\ Len(t) = Len(s) + 1 /\ t[Len(s) + 1] = x /\ \A i \in 1..Len(s) : t[i] = s[i]
  OBVIOUS
<1>2. \A i \in 1..Len(t) : (r + i - 1) % M \in 0..(M - 1)
                           /\ (r + i - 1) % M = IF r + (i - 1) < M THEN r + (i - 1) ELSE r + (i - 1) - M
  <2> SUFFICES ASSUME NEW i \in 1..Len(t)
               PROVE  (r + i - 1) % M \in 0..(M - 1)
                      /\ (r + i - 1) % M = IF r + (i - 1) < M THEN r + (i - 1) ELSE r + (i - 1) - M
    OBVIOUS
  <2>1. PICK n \in 0..M : n = i - 1
    BY <1>1
  <2>2. (r + n) % M \in 0..(M - 1) /\ (r + n) % M = IF r + n < M THEN r + n ELSE r + n - M
    BY Walk, Zenon
  <2>3. r + i - 1 = r + n /\ r + (i - 1) = r + n
    BY <1>1, <2>1
  <2> QED
    BY <2>2, <2>3
<1>3. (r + Len(s)) % M \in 0..(M - 1)
      /\ (r + Len(s)) % M = IF r + Len(s) < M THEN r + Len(s) ELSE r + Len(s) - M
  <2>1. PICK n \in 0..M : n = Len(s)
    BY <1>1
  <2>2. (r + n) % M \in 0..(M - 1) /\ (r + n) % M = IF r + n < M THEN r + n ELSE r + n - M
    BY Walk, Zenon
  <2> QED
    BY <2>1, <2>2
<1>4. \A k \in 0..(M - 1) : g[k] = IF k = (r + Len(s)) % M THEN x ELSE f[k]
  BY <1>3
<1> HIDE DEF g, t
<1>5. ASSUME NEW i \in 1..Len(t) PROVE g[(r + i - 1) % M] = t[i]
  <2>1. CASE i = Len(s) + 1
    <3>1. r + i - 1 = r + Len(s)
      BY <1>1, <2>1
    <3> QED
      BY <1>1, <1>3, <1>4, <2>1, <3>1
  <2>2. CASE i # Len(s) + 1
    <3>1. i \in 1..Len(s)
      BY <1>1, <2>2
    <3>2. (r + i - 1) % M # (r + Len(s)) % M
      <4>1. PICK n \in 0..(M - 1) : n = i - 1 /\ n < Len(s)
        BY <1>1, <3>1
      <4>2. (r + i - 1) % M = IF r + n < M THEN r + n ELSE r + n - M
        BY <1>2, <4>1
      <4>3. PICK m \in 0..(M - 1) : m = Len(s)
        BY <1>1
      <4>4. (r + Len(s)) % M = IF r + m < M THEN r + m ELSE r + m - M
        BY <1>3, <4>3
      <4> DEFINE a == (r + i - 1) % M
                 b == (r + Len(s)) % M
      <4>5. n < m
        BY <4>1, <4>3
      <4> HIDE DEF a, b
      <4>6. a = (IF r + n < M THEN r + n ELSE r + n - M) /\ b = (IF r + m < M THEN r + m ELSE r + m - M)
        BY <4>2, <4>4 DEF a, b
      <4>7. a # b
        BY <4>5, <4>6
      <4> QED
        BY <4>7 DEF a, b
    <3>3. (r + i - 1) % M \in 0..(M - 1)
      BY <1>2
    <3>4. f[(r + i - 1) % M] = s[i]
      BY <3>1 DEF Holds
    <3> QED
      BY <1>1, <1>4, <3>1, <3>2, <3>3, <3>4
  <2> QED
    BY <2>1, <2>2
<1> QED
  BY <1>5 DEF Holds, g, t

(* The first message taken out.                                            *)
LEMMA RingTake ==
  ASSUME NEW M \in Nat \ {0}, NEW V, NEW f, NEW r \in 0..(M - 1),
         NEW s \in Seq(V), s # <<>>, Len(s) <= M, Holds(f, r, s, M)
  PROVE  Holds(f, (r + 1) % M, Tail(s), M) /\ Len(Tail(s)) = Len(s) - 1 /\ Tail(s) \in Seq(V)
<1>1. Len(s) \in 1..M /\ Len(Tail(s)) = Len(s) - 1 /\ Tail(s) \in Seq(V)
      /\ \A i \in 1..Len(Tail(s)) : Tail(s)[i] = s[i + 1]
  OBVIOUS
<1>2. ASSUME NEW i \in 1..Len(Tail(s)) PROVE f[(((r + 1) % M) + i - 1) % M] = Tail(s)[i]
  <2>1. i \in 1..M /\ i + 1 \in 1..Len(s)
    BY <1>1
  <2>2. (((r + 1) % M) + i - 1) % M = (r + i) % M
    BY <2>1, Walk
  <2>3. f[(r + (i + 1) - 1) % M] = s[i + 1]
    BY <2>1 DEF Holds
  <2>4. r + (i + 1) - 1 = r + i
    BY <2>1
  <2> QED
    BY <1>1, <2>2, <2>3, <2>4
<1> QED
  BY <1>1, <1>2 DEF Holds

(* Two finite sets that differ in one member at most: how many are in each.*)
LEMMA MoveCounts ==
  ASSUME NEW F, NEW G, NEW t, IsFiniteSet(F), IsFiniteSet(G),
         \A u : u # t => (u \in F <=> u \in G)
  PROVE  /\ Cardinality(F) \in Nat /\ Cardinality(G) \in Nat
         /\ (t \in F <=> t \in G) => G = F
         /\ t \notin F /\ t \in G => Cardinality(G) = Cardinality(F) + 1
         /\ t \in F /\ t \notin G => Cardinality(F) = Cardinality(G) + 1
<1>1. Cardinality(F) \in Nat /\ Cardinality(G) \in Nat
  BY FS_CardinalityType
<1>2. t \notin F /\ t \in G => G = F \cup {t}
  OBVIOUS
<1>3. t \in F /\ t \notin G => F = G \cup {t}
  OBVIOUS
<1>4. (t \in F <=> t \in G) => G = F
  OBVIOUS
<1>5. t \notin F => Cardinality(F \cup {t}) = Cardinality(F) + 1
  BY FS_AddElement
<1>6. t \notin G => Cardinality(G \cup {t}) = Cardinality(G) + 1
  BY FS_AddElement
<1> QED
  BY <1>1, <1>2, <1>3, <1>4, <1>5, <1>6
----------------------------------------------------------------------------
(* The C queue.                                                            *)

Inside == {"storing", "copying", "flushing"}
Storing == {"store", "storing"}
Copying == {"copy", "copying"}
Contents == Nat \cup {NoMsg}

CTypes == pc = [c \in Clients |-> pc[c]] /\ calls \in Nat

(* Until an unlock strays or a flush meets a receiver that holds a token:  *)
(* who is in a section holds the mutex, and the write slot is as many      *)
(* slots after the read slot as there are messages.                        *)
MutexHeld == \A c \in Clients : pc[c] \in Inside => myDataAccessMutex = c
QueueTypes ==
  /\ getMsgSemaphore \in Nat /\ addMessageSemaphore \in Nat /\ NumberMessagesInQueue \in Nat
  /\ CurrentReadSlot \in Slots
  /\ myQueue \in [Slots -> Contents]
  /\ backlog \in Seq(Contents)
WriteFollows == CurrentWriteSlot = (CurrentReadSlot + NumberMessagesInQueue) % MaxMsgs

Kept == MutexHeld /\ QueueTypes /\ WriteFollows /\ TokensAccount /\ RingHoldsBacklog
BacklogInv == CTypes /\ (~strayed /\ ~flushRaced => Kept)

(* How many clients hold a token, when one of them moves.                  *)
LEMMA TokenHolders ==
  ASSUME CTypes, NEW c \in Clients, NEW to, pc' = [pc EXCEPT ![c] = to], NEW S
  PROVE  /\ Cardinality(At(S)) \in Nat /\ Cardinality(At(S)') \in Nat
         /\ (pc[c] \in S <=> to \in S) => At(S)' = At(S)
         /\ pc[c] \notin S /\ to \in S => Cardinality(At(S)') = Cardinality(At(S)) + 1
         /\ pc[c] \in S /\ to \notin S => Cardinality(At(S)) = Cardinality(At(S)') + 1
<1>1. IsFiniteSet(At(S)) /\ IsFiniteSet(At(S)')
  BY CQueueAssumption, FS_Subset DEF At
<1>2. pc'[c] = to /\ \A u \in Clients : u # c => pc'[u] = pc[u]
  BY DEF CTypes
<1>3. /\ \A u : u # c => (u \in At(S) <=> u \in At(S)')
      /\ c \in At(S) <=> pc[c] \in S
      /\ c \in At(S)' <=> to \in S
  BY <1>2 DEF At
<1> DEFINE F == At(S)
           G == At(S)'
<1> HIDE DEF F, G
<1>4. /\ Cardinality(F) \in Nat /\ Cardinality(G) \in Nat
      /\ (c \in F <=> c \in G) => G = F
      /\ c \notin F /\ c \in G => Cardinality(G) = Cardinality(F) + 1
      /\ c \in F /\ c \notin G => Cardinality(F) = Cardinality(G) + 1
  <2>1. /\ IsFiniteSet(F) /\ IsFiniteSet(G)
        /\ \A u : u # c => (u \in F <=> u \in G)
    BY <1>1, <1>3 DEF F, G
  <2> QED
    BY <2>1, MoveCounts
<1> QED
  BY <1>3, <1>4 DEF F, G

(* What is kept, from what a step does to the parts of it.                 *)
LEMMA KeptFrom ==
  ASSUME CTypes', (~strayed' /\ ~flushRaced') => Kept'
  PROVE  BacklogInv'
BY DEF BacklogInv

(* A step that touches neither semaphores nor ring, of clients that are    *)
(* not adding, getting or flushing.                                        *)
Busy == Inside \cup Storing \cup Copying
LEMMA QuietKeeps ==
  ASSUME BacklogInv, CTypes',
         \A d \in Clients : pc'[d] = pc[d] \/ (pc[d] \notin Busy /\ pc'[d] \notin Busy),
         UNCHANGED <<tokens, ring, backlog, flushRaced>>,
         ~strayed' => /\ ~strayed
                      /\ \A d \in Clients : pc[d] \in Inside /\ myDataAccessMutex = d => myDataAccessMutex' = d
  PROVE  BacklogInv'
<1> SUFFICES ASSUME ~strayed', ~flushRaced' PROVE Kept'
  BY KeptFrom
<1>1. Kept
  BY DEF BacklogInv
<1>2. MutexHeld'
  BY <1>1 DEF Kept, MutexHeld, Busy
<1>3. At(Copying)' = At(Copying) /\ At(Storing)' = At(Storing)
  BY DEF At, Busy
<1>4. QueueTypes' /\ WriteFollows' /\ RingHoldsBacklog'
  BY <1>1 DEF Kept, QueueTypes, WriteFollows, RingHoldsBacklog, tokens, ring
<1>5. TokensAccount'
  BY <1>1, <1>3 DEF Kept, TokensAccount, Copying, Storing, tokens, ring
<1> QED
  BY <1>2, <1>4, <1>5 DEF Kept

LEMMA QuietSteps ==
  ASSUME BacklogInv, NEW c \in Clients,
         \/ Open(c) \/ Announce(c) \/ Delete(c)
         \/ CheckSync(c) \/ WaitSync(c) \/ SyncTimeout(c) \/ SyncReturn(c)
         \/ AddCall(c) \/ GetCall(c) \/ FlushCall(c) \/ Timeout(c)
  PROVE  BacklogInv'
<1>0. CTypes
  BY DEF BacklogInv
<1>1. UNCHANGED <<tokens, ring, backlog, flushRaced, strayed, myDataAccessMutex, calls>>
  BY DEF Open, Announce, Delete, LeaveQueue, CheckSync, WaitSync, SyncTimeout, SyncReturn, AddCall, GetCall,
    FlushCall, Call, Timeout, IsFree
<1>2. CASE Announce(c)
  <2>1. pc' = [d \in Clients |-> IF d = c THEN "idle" ELSE IF pc[d] = "syncWait" THEN "syncWoken" ELSE pc[d]]
        /\ pc[c] = "opening"
    BY <1>2 DEF Announce
  <2>2. CTypes'
    BY <1>0, <1>1, <2>1 DEF CTypes
  <2>3. \A d \in Clients : pc'[d] = pc[d] \/ (pc[d] \notin Busy /\ pc'[d] \notin Busy)
    BY <2>1 DEF Busy, Inside, Storing, Copying
  <2> QED
    BY <1>1, <2>2, <2>3, QuietKeeps
<1>3. CASE ~Announce(c)
  <2>1. PICK to \in {"out", "opening", "idle", "syncLock", "syncWait", "syncWoken", "addWait", "getWait", "flush",
                     "return"} :
          pc' = [pc EXCEPT ![c] = to]
    BY <1>3 DEF Open, Delete, LeaveQueue, CheckSync, WaitSync, SyncTimeout, SyncReturn, AddCall, GetCall,
      FlushCall, Call, Timeout, Goto
  <2>2. pc[c] \in {"out", "opening", "idle", "syncLock", "syncWait", "syncWoken", "addWait", "getWait"}
    BY <1>3 DEF Open, Delete, LeaveQueue, CheckSync, WaitSync, SyncTimeout, SyncReturn, AddCall, GetCall,
      FlushCall, Call, Timeout, Goto
  <2>3. CTypes'
    BY <1>0, <1>1, <2>1 DEF CTypes
  <2>4. \A d \in Clients : pc'[d] = pc[d] \/ (pc[d] \notin Busy /\ pc'[d] \notin Busy)
    BY <1>0, <2>1, <2>2 DEF Busy, Inside, Storing, Copying, CTypes
  <2> QED
    BY <1>1, <2>3, <2>4, QuietKeeps
<1> QED
  BY <1>2, <1>3

LEMMA ReturnStep == ASSUME BacklogInv, NEW c \in Clients, Return(c) PROVE BacklogInv'
<1>0. CTypes
  BY DEF BacklogInv
<1>1. pc[c] = "return" /\ pc' = [pc EXCEPT ![c] = "idle"]
      /\ UNCHANGED <<tokens, ring, backlog, flushRaced, calls>>
  BY DEF Return, Goto
<1>2. CTypes'
  BY <1>0, <1>1 DEF CTypes
<1>3. \A d \in Clients : pc'[d] = pc[d] \/ (pc[d] \notin Busy /\ pc'[d] \notin Busy)
  BY <1>0, <1>1 DEF Busy, Inside, Storing, Copying, CTypes
<1>4. ~strayed' => /\ ~strayed
                   /\ \A d \in Clients : pc[d] \in Inside /\ myDataAccessMutex = d => myDataAccessMutex' = d
  BY <1>1, CQueueAssumption DEF Return, Unlock, Inside
<1> QED
  BY <1>1, <1>2, <1>3, <1>4, QuietKeeps

(* A client that takes a token, and one that takes the mutex.              *)
LEMMA TakeSteps ==
  ASSUME BacklogInv, NEW c \in Clients, TakeRoom(c) \/ TakeMsg(c) \/ Enter(c)
  PROVE  BacklogInv'
<1>0. CTypes
  BY DEF BacklogInv
<1>1. UNCHANGED <<ring, backlog, flushRaced, strayed, calls>>
  BY DEF TakeRoom, TakeMsg, Enter
<1> SUFFICES ASSUME CTypes', ~strayed, ~flushRaced PROVE Kept'
  <2>1. CTypes'
    BY <1>0, <1>1 DEF CTypes, TakeRoom, TakeMsg, Enter, Goto
  <2> QED
    BY <1>1, <2>1, KeptFrom
<1>2. Kept
  BY DEF BacklogInv
<1>3. WriteFollows' /\ RingHoldsBacklog'
  BY <1>1, <1>2 DEF Kept, WriteFollows, RingHoldsBacklog, ring
<1>4. QueueTypes'
  BY <1>1, <1>2 DEF Kept, QueueTypes, ring, tokens, TakeRoom, TakeMsg, Enter
<1>5. CASE TakeRoom(c)
  <2>1. /\ pc[c] = "addWait" /\ pc' = [pc EXCEPT ![c] = "store"]
        /\ addMessageSemaphore' = addMessageSemaphore - 1
        /\ UNCHANGED <<myDataAccessMutex, getMsgSemaphore, NumberMessagesInQueue>>
    BY <1>5 DEF TakeRoom, Goto, ring
  <2>2. MutexHeld'
    BY <1>0, <1>2, <2>1 DEF Kept, MutexHeld, CTypes, Inside
  <2>3. At(Copying)' = At(Copying) /\ Cardinality(At(Storing)') = Cardinality(At(Storing)) + 1
        /\ Cardinality(At(Storing)) \in Nat /\ Cardinality(At(Copying)) \in Nat
    <3>1. pc[c] \notin Copying /\ "store" \notin Copying /\ pc[c] \notin Storing /\ "store" \in Storing
      BY <2>1 DEF Copying, Storing
    <3> QED
      BY <1>0, <2>1, <3>1, TokenHolders
  <2>4. TokensAccount'
    BY <1>2, <2>1, <2>3, CQueueAssumption DEF Kept, TokensAccount, Copying, Storing, QueueTypes
  <2> QED
    BY <1>3, <1>4, <2>2, <2>4 DEF Kept
<1>6. CASE TakeMsg(c)
  <2>1. /\ pc[c] = "getWait" /\ pc' = [pc EXCEPT ![c] = "copy"]
        /\ getMsgSemaphore' = getMsgSemaphore - 1
        /\ UNCHANGED <<myDataAccessMutex, addMessageSemaphore, NumberMessagesInQueue>>
    BY <1>6 DEF TakeMsg, Goto, ring
  <2>2. MutexHeld'
    BY <1>0, <1>2, <2>1 DEF Kept, MutexHeld, CTypes, Inside
  <2>3. At(Storing)' = At(Storing) /\ Cardinality(At(Copying)') = Cardinality(At(Copying)) + 1
        /\ Cardinality(At(Storing)) \in Nat /\ Cardinality(At(Copying)) \in Nat
    <3>1. pc[c] \notin Copying /\ "copy" \in Copying /\ pc[c] \notin Storing /\ "copy" \notin Storing
      BY <2>1 DEF Copying, Storing
    <3> QED
      BY <1>0, <2>1, <3>1, TokenHolders
  <2>4. TokensAccount'
    BY <1>2, <2>1, <2>3, CQueueAssumption DEF Kept, TokensAccount, Copying, Storing, QueueTypes
  <2> QED
    BY <1>3, <1>4, <2>2, <2>4 DEF Kept
<1>7. CASE Enter(c)
  <2>1. PICK to \in Inside : pc' = [pc EXCEPT ![c] = to] /\ (pc[c] \in Copying <=> to \in Copying)
                             /\ (pc[c] \in Storing <=> to \in Storing)
    BY <1>7 DEF Enter, Goto, Inside, Copying, Storing
  <2>2. myDataAccessMutex = Free /\ myDataAccessMutex' = c
    BY <1>7 DEF Enter, Lock
  <2>3. MutexHeld'
    BY <1>0, <1>2, <2>1, <2>2, CQueueAssumption DEF Kept, MutexHeld, CTypes
  <2>4. At(Copying)' = At(Copying) /\ At(Storing)' = At(Storing)
    BY <1>0, <2>1, TokenHolders
  <2>5. TokensAccount'
    BY <1>2, <1>7, <2>4 DEF Kept, TokensAccount, Copying, Storing, Enter, tokens, ring
  <2> QED
    BY <1>3, <1>4, <2>3, <2>5 DEF Kept
<1> QED
  BY <1>5, <1>6, <1>7

(* A client in a section holds the mutex, alone, and its unlock is its own.*)
LEMMA OwnUnlock ==
  ASSUME CTypes, MutexHeld, ~strayed, NEW c \in Clients, pc[c] \in Inside, Unlock(c), pc' = [pc EXCEPT ![c] = "idle"]
  PROVE  /\ \A d \in Clients : d # c => pc[d] \notin Inside
         /\ strayed' = strayed /\ MutexHeld'
<1>1. myDataAccessMutex = c /\ \A d \in Clients : d # c => pc[d] \notin Inside
  BY DEF MutexHeld
<1>2. strayed' = strayed
  BY <1>1 DEF Unlock
<1>3. \A d \in Clients : pc'[d] \notin Inside
  BY <1>1 DEF CTypes, Inside
<1> QED
  BY <1>1, <1>2, <1>3 DEF MutexHeld

LEMMA SlotsRing == MaxMsgs \in Nat \ {0} /\ Slots = 0..(MaxMsgs - 1)
BY CQueueAssumption DEF Slots

LEMMA StoreStep == ASSUME BacklogInv, NEW c \in Clients, Store(c) PROVE BacklogInv'
<1>0. CTypes
  BY DEF BacklogInv
<1>1. /\ pc[c] = "storing" /\ pc' = [pc EXCEPT ![c] = "idle"]
      /\ calls' = calls + 1
      /\ myQueue' = [myQueue EXCEPT ![CurrentWriteSlot] = calls']
      /\ backlog' = Append(backlog, calls')
      /\ NumberMessagesInQueue' = NumberMessagesInQueue + 1
      /\ CurrentWriteSlot' = (CurrentWriteSlot + 1) % MaxMsgs
      /\ getMsgSemaphore' = getMsgSemaphore + 1
      /\ Unlock(c)
      /\ UNCHANGED <<addMessageSemaphore, CurrentReadSlot, flushRaced>>
  BY DEF Store, PutIn, Goto, NextSlot
<1>2. CTypes' /\ calls' \in Contents
  <2>1. calls' \in Nat /\ pc' = [d \in Clients |-> pc'[d]]
    BY SMTT(30), <1>0, <1>1 DEF CTypes
  <2> QED
    BY <2>1 DEF CTypes, Contents
<1> SUFFICES ASSUME ~strayed', ~flushRaced PROVE Kept'
  BY <1>1, <1>2, KeptFrom
<1>3. ~strayed
  BY <1>1 DEF Unlock
<1>4. Kept
  BY <1>3 DEF BacklogInv
<1>5. MutexHeld'
  BY <1>0, <1>1, <1>3, <1>4, OwnUnlock DEF Kept, Inside
<1>6. At(Copying)' = At(Copying) /\ Cardinality(At(Storing)) = Cardinality(At(Storing)') + 1
      /\ Cardinality(At(Storing)') \in Nat /\ Cardinality(At(Copying)) \in Nat
  <2>1. pc[c] \in Storing /\ "idle" \notin Storing /\ pc[c] \notin Copying /\ "idle" \notin Copying
    BY <1>1 DEF Copying, Storing
  <2> QED
    BY <1>0, <1>1, <2>1, TokenHolders
<1>7. TokensAccount' /\ NumberMessagesInQueue < MaxMsgs
  BY SMTT(30), <1>1, <1>4, <1>6, CQueueAssumption DEF Kept, TokensAccount, Copying, Storing, QueueTypes
<1> DEFINE n == Len(backlog)
<1>8. n \in 0..(MaxMsgs - 1) /\ n = NumberMessagesInQueue
  BY <1>4, <1>7, CQueueAssumption DEF Kept, QueueTypes, RingHoldsBacklog
<1>9. CurrentWriteSlot = (CurrentReadSlot + n) % MaxMsgs
  BY <1>4, <1>8 DEF Kept, WriteFollows
<1>10. CurrentReadSlot \in 0..(MaxMsgs - 1) /\ myQueue \in [0..(MaxMsgs - 1) -> Contents] /\ backlog \in Seq(Contents)
  BY <1>4, SlotsRing DEF Kept, QueueTypes
<1>11. WriteFollows'
  <2>1. PICK m \in 0..MaxMsgs : m = n /\ m < MaxMsgs
    BY <1>8, CQueueAssumption
  <2>2. (((CurrentReadSlot + m) % MaxMsgs) + 1) % MaxMsgs = (CurrentReadSlot + m + 1) % MaxMsgs
    BY <1>10, <2>1, SlotsRing, Walk, Zenon
  <2>3. CurrentWriteSlot' = (CurrentReadSlot + m + 1) % MaxMsgs
    BY <1>1, <1>9, <2>1, <2>2
  <2>4. CurrentReadSlot + m + 1 = CurrentReadSlot' + NumberMessagesInQueue'
    BY <1>1, <1>8, <1>10, <2>1
  <2> QED
    BY <2>3, <2>4 DEF WriteFollows
<1> HIDE DEF n
<1>12. QueueTypes'
  <2>1. backlog' \in Seq(Contents) /\ myQueue' \in [Slots -> Contents]
    <3>1. backlog' \in Seq(Contents)
      BY <1>1, <1>2, <1>10
    <3>2. myQueue' \in [Slots -> Contents]
      BY <1>1, <1>2, <1>10, SlotsRing, Zenon
    <3> QED
      BY <3>1, <3>2
  <2> QED
    BY <1>1, <1>4, <2>1 DEF Kept, QueueTypes
<1>13. RingHoldsBacklog'
  <2>1. Holds(myQueue, CurrentReadSlot, backlog, MaxMsgs)
    BY <1>4 DEF Kept, RingHoldsBacklog, Holds
  <2>2. Holds([myQueue EXCEPT ![(CurrentReadSlot + n) % MaxMsgs] = calls'], CurrentReadSlot,
              Append(backlog, calls'), MaxMsgs)
    <3> DEFINE x == calls'
    <3>1. x \in Contents /\ Len(backlog) < MaxMsgs
      BY <1>2, <1>8, SlotsRing DEF n
    <3> HIDE DEF x
    <3>2. Holds([myQueue EXCEPT ![(CurrentReadSlot + Len(backlog)) % MaxMsgs] = x], CurrentReadSlot,
                Append(backlog, x), MaxMsgs)
      BY <1>10, <2>1, <3>1, SlotsRing, RingPut, Zenon
    <3> QED
      BY <3>2 DEF n, x
  <2>3. Holds(myQueue', CurrentReadSlot', backlog', MaxMsgs)
    BY <1>1, <1>9, <2>2
  <2>4. NumberMessagesInQueue' = Len(backlog')
    BY <1>1, <1>2, <1>8, <1>10 DEF n
  <2> QED
    BY <2>3, <2>4 DEF RingHoldsBacklog, Holds
<1> QED
  BY <1>5, <1>7, <1>11, <1>12, <1>13 DEF Kept

LEMMA CopyStep == ASSUME BacklogInv, NEW c \in Clients, Copy(c) PROVE BacklogInv'
<1>0. CTypes
  BY DEF BacklogInv
<1>1. /\ pc[c] = "copying" /\ pc' = [pc EXCEPT ![c] = "idle"]
      /\ backlog' = IF backlog = <<>> THEN <<>> ELSE Tail(backlog)
      /\ NumberMessagesInQueue' = NumberMessagesInQueue - 1
      /\ CurrentReadSlot' = (CurrentReadSlot + 1) % MaxMsgs
      /\ addMessageSemaphore' = addMessageSemaphore + 1
      /\ Unlock(c)
      /\ UNCHANGED <<getMsgSemaphore, CurrentWriteSlot, myQueue, calls, flushRaced>>
  BY DEF Copy, Goto, NextSlot
<1>2. CTypes'
  BY <1>0, <1>1 DEF CTypes
<1> SUFFICES ASSUME ~strayed', ~flushRaced PROVE Kept'
  BY <1>1, <1>2, KeptFrom
<1>3. ~strayed
  BY <1>1 DEF Unlock
<1>4. Kept
  BY <1>3 DEF BacklogInv
<1>5. MutexHeld'
  BY <1>0, <1>1, <1>3, <1>4, OwnUnlock DEF Kept, Inside
<1>6. At(Storing)' = At(Storing) /\ Cardinality(At(Copying)) = Cardinality(At(Copying)') + 1
      /\ Cardinality(At(Copying)') \in Nat /\ Cardinality(At(Storing)) \in Nat
  <2>1. pc[c] \in Copying /\ "idle" \notin Copying /\ pc[c] \notin Storing /\ "idle" \notin Storing
    BY <1>1 DEF Copying, Storing
  <2> QED
    BY <1>0, <1>1, <2>1, TokenHolders
<1>7. TokensAccount' /\ NumberMessagesInQueue \in 1..MaxMsgs
  <2>1. /\ getMsgSemaphore + Cardinality(At(Copying)) = NumberMessagesInQueue
        /\ addMessageSemaphore + Cardinality(At(Storing)) + NumberMessagesInQueue = MaxMsgs
        /\ getMsgSemaphore \in Nat /\ addMessageSemaphore \in Nat /\ NumberMessagesInQueue \in Nat
    BY <1>4 DEF Kept, TokensAccount, Copying, Storing, QueueTypes
  <2>2. NumberMessagesInQueue \in 1..MaxMsgs
    BY <1>6, <2>1, CQueueAssumption
  <2>3. /\ getMsgSemaphore' + Cardinality(At(Copying)') = NumberMessagesInQueue'
        /\ addMessageSemaphore' + Cardinality(At(Storing)') + NumberMessagesInQueue' = MaxMsgs
    BY <1>1, <1>6, <2>1
  <2> QED
    BY <2>2, <2>3 DEF TokensAccount, Copying, Storing
<1> DEFINE n == Len(backlog)
<1>8. n = NumberMessagesInQueue /\ n \in 0..MaxMsgs /\ n > 0
  BY <1>4, <1>7 DEF Kept, RingHoldsBacklog
<1>9. CurrentWriteSlot = (CurrentReadSlot + n) % MaxMsgs
  BY <1>4, <1>8 DEF Kept, WriteFollows
<1>10. CurrentReadSlot \in 0..(MaxMsgs - 1) /\ backlog \in Seq(Contents) /\ backlog # <<>>
  BY <1>4, <1>8, SlotsRing DEF Kept, QueueTypes
<1>11. backlog' = Tail(backlog)
  BY <1>1, <1>10
<1>12. /\ Holds(myQueue, (CurrentReadSlot + 1) % MaxMsgs, Tail(backlog), MaxMsgs)
       /\ Len(Tail(backlog)) = n - 1 /\ Tail(backlog) \in Seq(Contents)
  <2>1. Holds(myQueue, CurrentReadSlot, backlog, MaxMsgs) /\ Len(backlog) <= MaxMsgs
    BY <1>4, <1>8, SlotsRing DEF Kept, RingHoldsBacklog, Holds
  <2> QED
    BY <1>10, <2>1, SlotsRing, RingTake
<1>13. RingHoldsBacklog'
  <2>1. Holds(myQueue', CurrentReadSlot', backlog', MaxMsgs) /\ NumberMessagesInQueue' = Len(backlog')
    BY <1>1, <1>8, <1>11, <1>12
  <2> QED
    BY <2>1 DEF RingHoldsBacklog, Holds
<1> HIDE DEF n
<1>14. WriteFollows'
  <2>1. (((CurrentReadSlot + 1) % MaxMsgs) + n - 1) % MaxMsgs = (CurrentReadSlot + n) % MaxMsgs
    BY <1>8, <1>10, SlotsRing, Walk, Zenon
  <2>2. (CurrentReadSlot + 1) % MaxMsgs \in Int
    BY <1>10, SlotsRing
  <2>3. ((CurrentReadSlot + 1) % MaxMsgs) + n - 1 = CurrentReadSlot' + NumberMessagesInQueue'
    <3> DEFINE a == (CurrentReadSlot + 1) % MaxMsgs
    <3> HIDE DEF a
    <3>1. a \in Int /\ CurrentReadSlot' = a
      BY <1>1, <2>2 DEF a
    <3>2. a + n - 1 = CurrentReadSlot' + NumberMessagesInQueue'
      BY <1>1, <1>8, <3>1
    <3> QED
      BY <3>2 DEF a
  <2> QED
    BY <1>1, <1>9, <2>1, <2>3 DEF WriteFollows
<1>15. QueueTypes'
  <2>1. CurrentReadSlot' \in Slots
    BY <1>1, <1>10, SlotsRing
  <2>2. NumberMessagesInQueue' \in Nat
    BY <1>1, <1>7
  <2> QED
    BY <1>1, <1>4, <1>11, <1>12, <2>1, <2>2 DEF Kept, QueueTypes
<1> QED
  BY <1>5, <1>7, <1>13, <1>14, <1>15 DEF Kept

(* flushQueue takes every token that is there, if no receiver has one.     *)
LEMMA FlushStep == ASSUME BacklogInv, NEW c \in Clients, Flush(c) PROVE BacklogInv'
<1>0. CTypes
  BY DEF BacklogInv
<1>1. /\ pc[c] = "flushing" /\ pc' = [pc EXCEPT ![c] = "idle"]
      /\ NumberMessagesInQueue' = 0 /\ CurrentReadSlot' = 0 /\ CurrentWriteSlot' = 0 /\ backlog' = <<>>
      /\ flushRaced' = (flushRaced \/ \E d \in Clients : pc[d] = "copy")
      /\ Unlock(c)
      /\ getMsgSemaphore' = getMsgSemaphore - LeastOf(getMsgSemaphore, NumberMessagesInQueue)
      /\ addMessageSemaphore' = addMessageSemaphore + NumberMessagesInQueue
      /\ UNCHANGED <<myQueue, calls>>
  BY DEF Flush, Empty, Goto
<1>2. CTypes'
  BY <1>0, <1>1 DEF CTypes
<1> SUFFICES ASSUME ~strayed', ~flushRaced' PROVE Kept'
  BY <1>2, KeptFrom
<1>3. ~strayed /\ ~flushRaced /\ \A d \in Clients : pc[d] # "copy"
  <2>1. ~strayed
    BY <1>1 DEF Unlock
  <2>2. flushRaced' = (flushRaced \/ \E d \in Clients : pc[d] = "copy")
    BY <1>1
  <2> QED
    BY <2>1, <2>2, Zenon
<1>4. Kept
  BY <1>3 DEF BacklogInv
<1>5. MutexHeld' /\ \A d \in Clients : pc[d] # "copying"
  BY <1>0, <1>1, <1>3, <1>4, OwnUnlock DEF Kept, Inside
<1>6. /\ At(Storing)' = At(Storing) /\ At(Copying)' = At(Copying) /\ Cardinality(At(Storing)) \in Nat
      /\ Cardinality(At(Copying)) = 0
  <2>1. At(Copying) = {}
    BY <1>3, <1>5 DEF At, Copying
  <2>2. pc[c] \notin Copying /\ "idle" \notin Copying /\ pc[c] \notin Storing /\ "idle" \notin Storing
    BY <1>1 DEF Copying, Storing
  <2>3. Cardinality(At(Copying)) = 0
    BY <2>1, FS_EmptySet
  <2> QED
    BY <1>0, <1>1, <2>2, <2>3, TokenHolders
<1>7. TokensAccount' /\ getMsgSemaphore' = 0 /\ addMessageSemaphore' \in Nat
  <2>1. getMsgSemaphore = NumberMessagesInQueue /\ getMsgSemaphore \in Nat /\ addMessageSemaphore \in Nat
    BY <1>4, <1>6 DEF Kept, TokensAccount, Copying, Storing, QueueTypes
  <2>2. getMsgSemaphore' = 0 /\ addMessageSemaphore' \in Nat
    BY <1>1, <2>1 DEF LeastOf
  <2> QED
    BY <1>1, <1>4, <1>6, <2>1, <2>2, CQueueAssumption DEF Kept, TokensAccount, Copying, Storing
<1>8. QueueTypes'
  <2>1. 0 \in Slots
    BY SlotsRing
  <2> QED
    BY <1>1, <1>4, <1>7, <2>1 DEF Kept, QueueTypes
<1>9. WriteFollows'
  <2>1. (0 + 0) % MaxMsgs = 0
    BY SlotsRing
  <2> QED
    BY <1>1, <2>1 DEF WriteFollows
<1>10. RingHoldsBacklog'
  BY <1>1 DEF RingHoldsBacklog
<1> QED
  BY <1>5, <1>7, <1>8, <1>9, <1>10 DEF Kept

LEMMA BacklogStart == Init => BacklogInv
<1> SUFFICES ASSUME Init PROVE BacklogInv
  OBVIOUS
<1>1. CTypes
  BY DEF Init, CTypes
<1>2. \A d \in Clients : pc[d] \in {"idle", "out"}
  BY DEF Init
<1>3. MutexHeld
  BY <1>2 DEF MutexHeld, Inside
<1>4. At({"copy", "copying"}) = {} /\ At({"store", "storing"}) = {}
  BY <1>2 DEF At
<1>5. TokensAccount
  <2>1. Cardinality(At({"copy", "copying"})) = 0 /\ Cardinality(At({"store", "storing"})) = 0
    BY <1>4, FS_EmptySet
  <2> QED
    BY <2>1, CQueueAssumption DEF TokensAccount, Init
<1>6. QueueTypes /\ WriteFollows
  <2>1. 0 \in Slots /\ (0 + 0) % MaxMsgs = 0 /\ MaxMsgs \in Nat
    BY SlotsRing
  <2> QED
    BY <2>1 DEF Init, QueueTypes, WriteFollows, Contents
<1>7. RingHoldsBacklog
  BY DEF Init, RingHoldsBacklog
<1> QED
  BY <1>1, <1>3, <1>5, <1>6, <1>7 DEF BacklogInv, Kept

(* The C queue: however clients come and go, add, get, time out and flush, *)
(* until an unlock strays or a flush meets a receiver that holds a token   *)
(* the tokens account for messages and room, and the ring holds exactly    *)
(* what was added and not taken out, in order.                             *)
THEOREM CBacklogKept == Spec => []BacklogKept
<1>1. ASSUME BacklogInv, [Next]_vars PROVE BacklogInv'
  <2>1. CASE UNCHANGED vars
    <3>1. UNCHANGED <<tokens, ring, backlog, flushRaced, strayed, myDataAccessMutex, calls, pc>>
      BY <2>1 DEF vars
    <3>2. CTypes'
      BY <1>1, <3>1 DEF BacklogInv, CTypes
    <3> QED
      BY <1>1, <3>1, <3>2, QuietKeeps
  <2> QED
    BY <1>1, <2>1, QuietSteps, ReturnStep, TakeSteps, StoreStep, CopyStep, FlushStep DEF Next
<1>2. BacklogInv => BacklogKept
  BY DEF BacklogInv, BacklogKept, Kept
<1> QED
  BY <1>1, <1>2, BacklogStart, PTL DEF Spec
----------------------------------------------------------------------------
(* Of two clients at most one is there when the status says "one client".  *)
StatusInv ==
  /\ CTypes
  /\ InterfaceStatus \in {0, 1}
  /\ InterfaceStatus = 1 => \A c, d \in There : c = d

(* delete: only the last of the two clients removes the queue.             *)
THEOREM CRemovedOnlyByLast ==
  ASSUME NEW other, Clients = {First, other}
  PROVE  Spec => RemovedOnlyByLast
<1>1. Init => StatusInv
  BY DEF Init, StatusInv, CTypes, There, At
<1>2. ASSUME StatusInv, [Next]_vars
      PROVE  StatusInv' /\ (removed' /\ ~removed => There' = {})
  <2>1. ASSUME NEW c \in Clients, Delete(c)
        PROVE  StatusInv' /\ (removed' /\ ~removed => There' = {})
    <3>1. /\ pc[c] = "idle" /\ pc' = [pc EXCEPT ![c] = "out"] /\ calls' = calls
          /\ removed' = (InterfaceStatus = 1) /\ InterfaceStatus' = 1
      BY <2>1 DEF Delete, LeaveQueue, Goto
    <3>2. c \in There /\ There' = There \ {c}
      BY <1>2, <3>1 DEF StatusInv, CTypes, There, At
    <3>3. CTypes'
      BY <1>2, <3>1 DEF StatusInv, CTypes
    <3>4. \A d, e \in There' : d = e
      BY <2>1, <3>2 DEF There
    <3>5. InterfaceStatus = 1 => There' = {}
      BY <1>2, <3>2 DEF StatusInv
    <3> QED
      BY <3>1, <3>3, <3>4, <3>5, Zenon DEF StatusInv
  <2>2. ASSUME NEW c \in Clients, Announce(c) PROVE StatusInv' /\ removed' = removed
    BY <1>2, <2>2 DEF Announce, StatusInv, CTypes
  <2>3. ASSUME NEW c \in Clients, NEW to, pc' = [pc EXCEPT ![c] = to],
               pc[c] \in {"out", "opening"} <=> to \in {"out", "opening"},
               UNCHANGED <<InterfaceStatus, removed>>, calls' \in Nat
        PROVE  StatusInv' /\ removed' = removed
    <3>1. CTypes' /\ There' = There
      BY <1>2, <2>3 DEF StatusInv, CTypes, There, At
    <3> QED
      BY <1>2, <2>3, <3>1 DEF StatusInv
  <2>4. ASSUME NEW c \in Clients, Open(c) PROVE StatusInv' /\ removed' = removed
    BY <1>2, <2>3, <2>4 DEF Open, Goto, StatusInv, CTypes
  <2>5. ASSUME NEW c \in Clients, CheckSync(c) \/ WaitSync(c) \/ SyncTimeout(c) \/ SyncReturn(c)
                                  \/ AddCall(c) \/ GetCall(c) \/ FlushCall(c)
        PROVE  StatusInv' /\ removed' = removed
    <3>1. UNCHANGED <<InterfaceStatus, removed, calls>> /\ calls \in Nat
      BY <1>2, <2>5 DEF StatusInv, CTypes, CheckSync, WaitSync, SyncTimeout, SyncReturn, AddCall, GetCall, FlushCall, Call
    <3>2. PICK to \in {"idle", "syncLock", "syncWait", "syncWoken", "addWait", "getWait", "flush"} :
            pc' = [pc EXCEPT ![c] = to]
      BY <2>5 DEF CheckSync, WaitSync, SyncTimeout, SyncReturn, AddCall, GetCall, FlushCall, Call, Goto
    <3>3. pc[c] \notin {"out", "opening"}
      BY <2>5 DEF CheckSync, WaitSync, SyncTimeout, SyncReturn, AddCall, GetCall, FlushCall, Call, Goto
    <3> QED
      BY <2>3, <3>1, <3>2, <3>3
  <2>6. ASSUME NEW c \in Clients, TakeRoom(c) \/ TakeMsg(c) \/ Timeout(c) \/ Return(c) \/ Enter(c)
                                  \/ Store(c) \/ Copy(c) \/ Flush(c)
        PROVE  StatusInv' /\ removed' = removed
    <3>1. UNCHANGED <<InterfaceStatus, removed>> /\ calls' \in Nat
      BY <1>2, <2>6 DEF StatusInv, CTypes, TakeRoom, TakeMsg, Timeout, Return, Enter, Store, PutIn, Copy, Flush, Empty
    <3>2. PICK to \in {"idle", "store", "copy", "return", "storing", "copying", "flushing"} :
            pc' = [pc EXCEPT ![c] = to]
      BY <2>6 DEF TakeRoom, TakeMsg, Timeout, Return, Enter, Store, PutIn, Copy, Flush, Empty, Goto
    <3>3. pc[c] \notin {"out", "opening"}
      BY <2>6 DEF TakeRoom, TakeMsg, Timeout, Return, Enter, Store, PutIn, Copy, Flush, Empty, Goto
    <3> QED
      BY <2>3, <3>1, <3>2, <3>3
  <2>7. CASE UNCHANGED vars
    BY <1>2, <2>7 DEF vars, StatusInv, CTypes, There, At
  <2> QED
    BY <1>2, <2>1, <2>2, <2>4, <2>5, <2>6, <2>7 DEF Next
<1>3. StatusInv /\ [Next]_vars => StatusInv' /\ [removed' /\ ~removed => There' = {}]_vars
  BY <1>2
<1> QED
  BY <1>1, <1>3, PTL DEF Spec, RemovedOnlyByLast
----------------------------------------------------------------------------
(* The Win32 queue.                                                        *)

(* SynchronizeQueueUsers.  The shared word decides: a user that waits       *)
(* either still finds its own value there, or the partner has written      *)
(* since.  All other steps leave the word, the values and the handshake's  *)
(* states alone (NoHandshake).                                             *)
ControlData ==
  [getMsgSemaphore : Int, addMessageSemaphore : Int,
   myDataAccessMutex : {"free", "held"}, NumberMessagesInQueue : Int,
   CurrentReadSlot : Int, CurrentWriteSlot : Int,
   UniqueValue : Int, InterfaceStatus : BOOLEAN]

Stands ==
  {"none", "create", "created", "opened", "mapped", "broken", "idle",
   "syncWait", "syncMark", "addWait", "addStore", "getWait", "getCopy", "closing", "gone"}

HandshakeTypes ==
  /\ myControlData \in ControlData
  /\ place \in [Users -> Stands]
  /\ queueState \in [Users -> {"Synchronizing", "Synchronized"}]
  /\ uniqueValue \in [Users -> Int]

WordKept ==
  \A u \in Users :
    place[u] = "syncWait" => myControlData.UniqueValue = uniqueValue[u] \/ u \in met

MetInv == HandshakeTypes /\ WordKept /\ MetPartner

(* A step of one user that does not take part in the handshake.            *)
NoHandshake(u, from, to) ==
  /\ Moves(u, from, to)
  /\ to \notin {"syncWait", "syncMark"}
  /\ to = "none" \/ from # "none"
  /\ myControlData' \in ControlData
  /\ myControlData'.UniqueValue = myControlData.UniqueValue
  /\ UNCHANGED <<queueState, uniqueValue, met>>

LEMMA NoHandshakeKeeps ==
  ASSUME MetInv, NEW u \in Users, NEW from, NEW to \in Stands, NoHandshake(u, from, to)
  PROVE  MetInv'
<1>1. HandshakeTypes'
  BY DEF MetInv, HandshakeTypes, NoHandshake, Moves
<1>2. ASSUME NEW v \in Users PROVE place'[v] = IF v = u THEN to ELSE place[v]
  BY DEF MetInv, HandshakeTypes, NoHandshake, Moves
<1>3. WordKept'
  BY <1>2 DEF MetInv, WordKept, NoHandshake
<1>4. MetPartner'
  BY <1>2 DEF MetInv, MetPartner, NoHandshake, Moves
<1> QED
  BY <1>1, <1>3, <1>4 DEF MetInv

(* What the steps write into the control data, as the lemma needs it.      *)
LEMMA SlotType == \A slot \in Int : NextPlace(slot) \in Int
  BY Win32Assumption DEF NextPlace

LEMMA ConstructKeeps ==
  ASSUME MetInv, NEW u \in Users, Win32Construct(u) PROVE MetInv'
<1>0. myControlData \in ControlData /\ place \in [Users -> Stands]
  BY DEF MetInv, HandshakeTypes
<1>1. CASE OpenData(u)
  <2>1. /\ HandshakeTypes'
        /\ \A v \in Users : place'[v] = IF v = u THEN place'[u] ELSE place[v]
        /\ place'[u] \in {"opened", "create"}
        /\ queueState'[u] = "Synchronizing"
        /\ \A v \in Users : v # u => queueState'[v] = queueState[v]
    BY <1>1 DEF OpenData, Moves, MetInv, HandshakeTypes, Stands, shared
  <2> QED
    BY <1>1, <2>1 DEF OpenData, MetInv, WordKept, MetPartner, shared, history
<1>2. CASE CreateData(u)
  <2>1. PICK to \in {"broken", "created"} : NoHandshake(u, "create", to)
    BY <1>0, <1>2 DEF CreateData, NoHandshake, Moves, history
  <2> QED
    BY <2>1, NoHandshakeKeeps DEF Stands
<1>3. CASE CreateControl(u)
  <2>1. PICK to \in {"broken", "mapped"} : NoHandshake(u, "created", to)
    BY <1>0, <1>3 DEF CreateControl, NoHandshake, Moves, history
  <2> QED
    BY <2>1, NoHandshakeKeeps DEF Stands
<1>4. CASE OpenControl(u)
  <2>1. PICK to \in {"broken", "mapped"} : NoHandshake(u, "opened", to)
    BY <1>0, <1>4 DEF OpenControl, NoHandshake, Moves, history, shared
  <2> QED
    BY <2>1, NoHandshakeKeeps DEF Stands
<1>5. CASE ConstructControl(u)
  <2>1. NoHandshake(u, "mapped", "idle")
    BY <1>0, <1>5, Win32Assumption DEF ConstructControl, NoHandshake, Fresh, ControlData
  <2> QED
    BY <2>1, NoHandshakeKeeps DEF Stands
<1> QED
  BY <1>1, <1>2, <1>3, <1>4, <1>5 DEF Win32Construct
----------------------------------------------------------------------------
LEMMA SyncWriteKeeps == ASSUME MetInv, NEW u \in Users, SyncWrite(u) PROVE MetInv'
<1>1. PICK value \in FirstValues : WriteValue(u, value)
  BY DEF SyncWrite
<1>2. value \in Int
  BY Win32Assumption
<1>3. /\ HandshakeTypes'
      /\ \A v \in Users : place'[v] = IF v = u THEN "syncWait" ELSE place[v]
      /\ queueState'[u] = "Synchronizing"
      /\ uniqueValue'[u] = value /\ myControlData'.UniqueValue = value
      /\ met' = Users \ {u}
  BY <1>1, <1>2 DEF SyncWrite, WriteValue, Moves, MetInv, HandshakeTypes, Stands, ControlData
<1> QED
  BY <1>3 DEF MetInv, WordKept, MetPartner

LEMMA SyncReadKeeps == ASSUME MetInv, NEW u \in Users, SyncRead(u) PROVE MetInv'
<1>1. /\ HandshakeTypes'
      /\ \A v \in Users : v # u => place'[v] = place[v]
      /\ place[u] = "syncWait"
      /\ place'[u] = IF myControlData.UniqueValue # uniqueValue[u] THEN "syncMark" ELSE "idle"
      /\ UNCHANGED <<myControlData, queueState, uniqueValue, met>>
  BY DEF SyncRead, Moves, MetInv, HandshakeTypes, Stands, shared, history
<1> QED
  BY <1>1 DEF MetInv, WordKept, MetPartner

LEMMA SyncMarkKeeps == ASSUME MetInv, NEW u \in Users, SyncMark(u) PROVE MetInv'
<1>1. PICK value \in LaterValues :
        myControlData' = [myControlData EXCEPT !.InterfaceStatus = TRUE, !.UniqueValue = value]
  BY DEF SyncMark
<1>2. value \in Int
  BY Win32Assumption
<1>3. myControlData' \in ControlData
  BY <1>1, <1>2 DEF MetInv, HandshakeTypes, ControlData
<1>4. /\ HandshakeTypes'
      /\ \A v \in Users : place'[v] = IF v = u THEN "idle" ELSE place[v]
      /\ place[u] = "syncMark"
      /\ met' = met \cup (Users \ {u})
  BY <1>3 DEF SyncMark, Moves, MetInv, HandshakeTypes, Stands
<1> QED
  BY <1>4 DEF MetInv, WordKept, MetPartner

LEMMA CallKeeps == ASSUME MetInv, NEW u \in Users, Win32Call(u) PROVE MetInv'
<1>0. myControlData \in ControlData /\ place \in [Users -> Stands]
  BY DEF MetInv, HandshakeTypes
<1>1. CASE AddCheck(u)
  <2>1. NoHandshake(u, "idle", "addWait")
    BY <1>0, <1>1 DEF AddCheck, NoHandshake, shared, history
  <2> QED
    BY <2>1, NoHandshakeKeeps DEF Stands
<1>2. CASE AddTake(u)
  <2>1. NoHandshake(u, "addWait", "addStore")
    BY <1>0, <1>2 DEF AddTake, NoHandshake, ControlData, history
  <2> QED
    BY <2>1, NoHandshakeKeeps DEF Stands
<1>3. CASE AddRefused(u)
  <2>1. NoHandshake(u, "addStore", "idle")
    BY <1>0, <1>3 DEF AddRefused, NoHandshake, shared
  <2> QED
    BY <2>1, NoHandshakeKeeps DEF Stands
<1>4. CASE AddStore(u)
  <2> DEFINE n == myControlData.NumberMessagesInQueue + 1
             slot == NextPlace(myControlData.CurrentWriteSlot)
             token == myControlData.getMsgSemaphore + 1
  <2>1. n \in Int /\ slot \in Int /\ token \in Int
    BY <1>0, SlotType DEF ControlData
  <2>2. myControlData' = [myControlData EXCEPT !.NumberMessagesInQueue = n,
                            !.CurrentWriteSlot = slot, !.getMsgSemaphore = token]
    BY <1>4 DEF AddStore, StoreAt
  <2> HIDE DEF n, slot, token
  <2>3. NoHandshake(u, "addStore", "idle")
    <3>1. myControlData' \in ControlData /\ myControlData'.UniqueValue = myControlData.UniqueValue
      BY <1>0, <2>1, <2>2 DEF ControlData
    <3> QED
      BY <1>4, <3>1 DEF AddStore, StoreAt, NoHandshake
  <2> QED
    BY <2>3, NoHandshakeKeeps DEF Stands
<1>5. CASE GetCalled(u)
  <2>1. NoHandshake(u, "idle", "getWait")
    BY <1>0, <1>5 DEF GetCalled, NoHandshake, shared, history
  <2> QED
    BY <2>1, NoHandshakeKeeps DEF Stands
<1>6. CASE GetTake(u)
  <2>1. NoHandshake(u, "getWait", "getCopy")
    BY <1>0, <1>6 DEF GetTake, NoHandshake, ControlData, history
  <2> QED
    BY <2>1, NoHandshakeKeeps DEF Stands
<1>7. CASE GetRefused(u)
  <2>1. NoHandshake(u, "getCopy", "idle")
    BY <1>0, <1>7 DEF GetRefused, NoHandshake, shared
  <2> QED
    BY <2>1, NoHandshakeKeeps DEF Stands
<1>8. CASE GetCopy(u)
  <2> DEFINE n == (myControlData.NumberMessagesInQueue - 1) % CountSize
             slot == NextPlace(myControlData.CurrentReadSlot)
             token == myControlData.addMessageSemaphore + 1
  <2>1. n \in Int /\ slot \in Int /\ token \in Int
    BY <1>0, SlotType, Win32Assumption DEF ControlData
  <2>2. myControlData' = [myControlData EXCEPT !.NumberMessagesInQueue = n,
                            !.CurrentReadSlot = slot, !.addMessageSemaphore = token]
    BY <1>8 DEF GetCopy
  <2> HIDE DEF n, slot, token
  <2>3. NoHandshake(u, "getCopy", "idle")
    <3>1. myControlData' \in ControlData /\ myControlData'.UniqueValue = myControlData.UniqueValue
      BY <1>0, <2>1, <2>2 DEF ControlData
    <3> QED
      BY <1>8, <3>1 DEF GetCopy, NoHandshake
  <2> QED
    BY <2>3, NoHandshakeKeeps DEF Stands
<1>9. CASE WaitTimedOut(u)
  <2>1. PICK from \in {"addWait", "getWait"} : NoHandshake(u, from, "idle")
    BY <1>0, <1>9 DEF WaitTimedOut, NoHandshake, shared, history
  <2> QED
    BY <2>1, NoHandshakeKeeps DEF Stands
<1> QED
  BY <1>1, <1>2, <1>3, <1>4, <1>5, <1>6, <1>7, <1>8, <1>9,
     SyncWriteKeeps, SyncReadKeeps, SyncMarkKeeps DEF Win32Call
----------------------------------------------------------------------------
LEMMA EndKeeps ==
  ASSUME MetInv, NEW u \in Users, Destroy(u) \/ RemoveControl(u) \/ Die(u) \/ DieInside(u)
  PROVE  MetInv'
<1>0. myControlData \in ControlData /\ place \in [Users -> Stands]
  BY DEF MetInv, HandshakeTypes
<1>1. CASE Destroy(u)
  <2> DEFINE token == myControlData.getMsgSemaphore + 1
             room == myControlData.addMessageSemaphore + 1
  <2>1. token \in Int /\ room \in Int
    BY <1>0 DEF ControlData
  <2>2. myControlData' = [myControlData EXCEPT !.getMsgSemaphore = token,
                            !.addMessageSemaphore = room, !.myDataAccessMutex = "free"]
    BY <1>1 DEF Destroy
  <2> HIDE DEF token, room
  <2>3. NoHandshake(u, "idle", "closing")
    <3>1. myControlData' \in ControlData /\ myControlData'.UniqueValue = myControlData.UniqueValue
      BY <1>0, <2>1, <2>2 DEF ControlData
    <3> QED
      BY <1>1, <3>1 DEF Destroy, NoHandshake
  <2> QED
    BY <2>3, NoHandshakeKeeps DEF Stands
<1>2. CASE RemoveControl(u)
  <2>1. NoHandshake(u, "closing", "gone")
    BY <1>0, <1>2 DEF RemoveControl, NoHandshake, history
  <2> QED
    BY <2>1, NoHandshakeKeeps DEF Stands
<1>3. CASE Die(u)
  <2>1. NoHandshake(u, place[u], "none")
    BY <1>0, <1>3 DEF Die, NoHandshake, shared
  <2> QED
    BY <1>0, <2>1, NoHandshakeKeeps DEF Stands
<1>4. CASE DieInside(u)
  <2>1. PICK posted \in 0..1 :
          myControlData' = [myControlData EXCEPT
            !.myDataAccessMutex = "held",
            !.getMsgSemaphore = @ + (IF place[u] = "addStore" THEN posted ELSE 0),
            !.addMessageSemaphore = @ + (IF place[u] = "getCopy" THEN posted ELSE 0)]
    BY <1>4 DEF DieInside
  <2> DEFINE token == myControlData.getMsgSemaphore + (IF place[u] = "addStore" THEN posted ELSE 0)
             room == myControlData.addMessageSemaphore + (IF place[u] = "getCopy" THEN posted ELSE 0)
  <2>2. token \in Int /\ room \in Int
    BY <1>0 DEF ControlData
  <2>3. myControlData' = [myControlData EXCEPT !.getMsgSemaphore = token,
                            !.addMessageSemaphore = room, !.myDataAccessMutex = "held"]
    BY <1>0, <2>1 DEF ControlData
  <2> HIDE DEF token, room
  <2>4. myControlData' \in ControlData /\ myControlData'.UniqueValue = myControlData.UniqueValue
    BY <1>0, <2>2, <2>3 DEF ControlData
  <2>5. NoHandshake(u, place[u], "none")
    BY <1>4, <2>4 DEF DieInside, NoHandshake, history
  <2> QED
    BY <1>0, <2>5, NoHandshakeKeeps DEF Stands
<1> QED
  BY <1>1, <1>2, <1>3, <1>4

LEMMA MetStart == Win32Init => MetInv
<1> SUFFICES ASSUME Win32Init PROVE MetInv
  OBVIOUS
<1>1. myControlData \in ControlData
  BY Win32Assumption DEF Win32Init, Fresh, ControlData
<1>2. /\ place = [u \in Users |-> "none"]
      /\ queueState = [u \in Users |-> "Synchronizing"]
      /\ uniqueValue = [u \in Users |-> 0]
  BY DEF Win32Init
<1> QED
  BY <1>1, <1>2 DEF MetInv, HandshakeTypes, Stands, WordKept, MetPartner

LEMMA MetStep == MetInv /\ [Win32Next]_winVars => MetInv'
<1> SUFFICES ASSUME MetInv, [Win32Next]_winVars PROVE MetInv'
  OBVIOUS
<1>1. ASSUME NEW u \in Users, Win32Construct(u) PROVE MetInv'
  BY <1>1, ConstructKeeps
<1>2. ASSUME NEW u \in Users, Win32Call(u) PROVE MetInv'
  BY <1>2, CallKeeps
<1>3. ASSUME NEW u \in Users, Destroy(u) \/ RemoveControl(u) \/ Die(u) \/ DieInside(u) PROVE MetInv'
  BY <1>3, EndKeeps
<1>4. CASE UNCHANGED winVars
  BY <1>4 DEF winVars, shared, history, MetInv, HandshakeTypes, WordKept, MetPartner
<1> QED
  BY <1>1, <1>2, <1>3, <1>4 DEF Win32Next

(* SynchronizeQueueUsers: whoever takes itself to be synchronized has been *)
(* answered, whatever values are drawn, however often processes die and    *)
(* start again, and whenever constructors make the control data anew.      *)
THEOREM SynchronizedHaveMet == Win32Spec => []MetPartner
<1>1. MetInv => MetPartner
  BY DEF MetInv
<1> QED
  BY <1>1, MetStart, MetStep, PTL DEF Win32Spec
----------------------------------------------------------------------------
(* The store of the Win32 queue.                                           *)

Tokens == myControlData.getMsgSemaphore
Rooms == myControlData.addMessageSemaphore
Count == myControlData.NumberMessagesInQueue
ReadAt == myControlData.CurrentReadSlot
WriteAt == myControlData.CurrentWriteSlot
Copiers == Cardinality(Standing({"getCopy"}))
Storers == Cardinality(Standing({"addStore"}))

StoreTypes ==
  /\ Tokens \in Nat /\ Rooms \in Nat
  /\ Count \in 0..(CountSize - 1)
  /\ ReadAt \in Places /\ WriteAt \in Places
  /\ contents \in [Places -> Nat] /\ waiting \in Seq(Nat) /\ added \in Nat /\ posts \in Nat
  /\ lost \in [rooms : Nat, messages : Nat]

(* What TokensFit says is a multiple of the width is zero until a          *)
(* destructor posts.                                                       *)
MessageBalance == Tokens + Copiers + lost.messages - posts - Count
RoomBalance == Rooms + Storers + lost.rooms + Count - posts - maxMsgs

StoreInOrder ==
  /\ MessageBalance = 0 /\ RoomBalance = 0
  /\ RingInOrder
  /\ WriteAt = (ReadAt + Count) % maxMsgs
StoreFits ==
  /\ MessageBalance % CountSize = 0 /\ RoomBalance % CountSize = 0
  /\ posts = 0 => StoreInOrder

StoreInv == MetInv /\ StoreTypes /\ (~torn /\ Section => StoreFits)

StoreData == <<Tokens, Rooms, Count, ReadAt, WriteAt>>

(* How many users hold a token, when one of them moves.                    *)
LEMMA StandMoves ==
  ASSUME HandshakeTypes, NEW u \in Users, NEW from, NEW to, Moves(u, from, to)
  PROVE  /\ Copiers \in Nat /\ Copiers' \in Nat /\ Storers \in Nat /\ Storers' \in Nat
         /\ (from = "getCopy" <=> to = "getCopy") => Copiers' = Copiers
         /\ (from = "addStore" <=> to = "addStore") => Storers' = Storers
         /\ from # "getCopy" /\ to = "getCopy" => Copiers' = Copiers + 1
         /\ from = "getCopy" /\ to # "getCopy" => Copiers = Copiers' + 1
         /\ from # "addStore" /\ to = "addStore" => Storers' = Storers + 1
         /\ from = "addStore" /\ to # "addStore" => Storers = Storers' + 1
<1>1. ASSUME NEW S
      PROVE  /\ Cardinality(Standing(S)) \in Nat /\ Cardinality(Standing(S)') \in Nat
             /\ (from \in S <=> to \in S) => Cardinality(Standing(S)') = Cardinality(Standing(S))
             /\ from \notin S /\ to \in S => Cardinality(Standing(S)') = Cardinality(Standing(S)) + 1
             /\ from \in S /\ to \notin S => Cardinality(Standing(S)) = Cardinality(Standing(S)') + 1
  <2>1. IsFiniteSet(Standing(S)) /\ IsFiniteSet(Standing(S)')
    BY Win32Assumption, FS_Subset DEF Standing
  <2>2. place[u] = from /\ place'[u] = to /\ \A v \in Users : v # u => place'[v] = place[v]
    BY DEF Moves, HandshakeTypes
  <2>3. /\ \A v : v # u => (v \in Standing(S) <=> v \in Standing(S)')
        /\ u \in Standing(S) <=> from \in S
        /\ u \in Standing(S)' <=> to \in S
    BY <2>2 DEF Standing
  <2> DEFINE F == Standing(S)
             G == Standing(S)'
  <2> HIDE DEF F, G
  <2>4. /\ IsFiniteSet(F) /\ IsFiniteSet(G) /\ \A v : v # u => (v \in F <=> v \in G)
    BY <2>1, <2>3 DEF F, G
  <2>5. /\ Cardinality(F) \in Nat /\ Cardinality(G) \in Nat
        /\ (u \in F <=> u \in G) => G = F
        /\ u \notin F /\ u \in G => Cardinality(G) = Cardinality(F) + 1
        /\ u \in F /\ u \notin G => Cardinality(F) = Cardinality(G) + 1
    BY <2>4, MoveCounts
  <2>6. (u \in F <=> from \in S) /\ (u \in G <=> to \in S)
    BY <2>3 DEF F, G
  <2>7. /\ Cardinality(F) \in Nat /\ Cardinality(G) \in Nat
        /\ (from \in S <=> to \in S) => Cardinality(G) = Cardinality(F)
        /\ from \notin S /\ to \in S => Cardinality(G) = Cardinality(F) + 1
        /\ from \in S /\ to \notin S => Cardinality(F) = Cardinality(G) + 1
    BY <2>5, <2>6
  <2> QED
    BY <2>7 DEF F, G
<1> QED
  BY <1>1 DEF Copiers, Storers

LEMMA StoreFitsIs == StoreFits => TokensFit /\ (posts = 0 => RingInOrder)
BY DEF StoreFits, StoreInOrder, TokensFit, MessageBalance, RoomBalance, Tokens, Rooms, Count, Copiers, Storers

LEMMA SpanShift ==
  ASSUME NEW m \in Nat \ {0}, NEW x \in Int, x % m = 0
  PROVE  (x - m) % m = 0 /\ (x + m) % m = 0
<1> DEFINE k == x \div m
<1>1. k \in Int /\ x = m * k
  OBVIOUS
<1> HIDE DEF k
<1>2. x - m = (k - 1) * m /\ x + m = (k + 1) * m
  BY <1>1
<1>3. \A j \in Int : (j * m) % m = 0
  OBVIOUS
<1>4. k - 1 \in Int /\ k + 1 \in Int
  BY <1>1
<1>5. ((k - 1) * m) % m = 0 /\ ((k + 1) * m) % m = 0
  BY <1>3, <1>4
<1> QED
  BY <1>2, <1>5

(* A step of one user that leaves the store and the balances as they are.  *)
LEMMA StoreUntouched ==
  ASSUME StoreInv, MetInv', NEW u \in Users, NEW from, NEW to, Moves(u, from, to),
         UNCHANGED <<Count, ReadAt, WriteAt, contents, waiting, added, posts, torn>>,
         Tokens' \in Nat, Rooms' \in Nat, lost' \in [rooms : Nat, messages : Nat],
         Section' => /\ Section
                     /\ Tokens' + Copiers' + lost'.messages = Tokens + Copiers + lost.messages
                     /\ Rooms' + Storers' + lost'.rooms = Rooms + Storers + lost.rooms
  PROVE  StoreInv'
<1>1. StoreTypes'
  BY DEF StoreInv, StoreTypes
<1>2. ASSUME ~torn', Section' PROVE StoreFits'
  <2>1. StoreFits
    BY <1>2 DEF StoreInv
  <2>2. /\ Copiers \in Nat /\ Copiers' \in Nat /\ Storers \in Nat /\ Storers' \in Nat
    BY StandMoves DEF StoreInv, MetInv
  <2>3. /\ Tokens \in Nat /\ Rooms \in Nat /\ Count \in Int /\ posts \in Nat /\ maxMsgs \in Nat
        /\ lost.messages \in Nat /\ lost.rooms \in Nat /\ lost'.messages \in Nat /\ lost'.rooms \in Nat
    BY Win32Assumption DEF StoreInv, StoreTypes
  <2>4. MessageBalance' = MessageBalance
    BY <1>2, <2>2, <2>3 DEF MessageBalance
  <2>5. RoomBalance' = RoomBalance
    BY <1>2, <2>2, <2>3 DEF RoomBalance
  <2>6. RingInOrder => RingInOrder'
    BY DEF RingInOrder, Count, ReadAt
  <2> QED
    BY <2>1, <2>4, <2>5, <2>6 DEF StoreFits, StoreInOrder
<1> QED
  BY <1>1, <1>2 DEF StoreInv

(* Steps of one user that touch no control data but the shared word.       *)
LEMMA StoreAlone ==
  ASSUME StoreInv, MetInv', NEW u \in Users, NEW from, NEW to, Moves(u, from, to),
         from \notin {"getCopy", "addStore"}, to \notin {"getCopy", "addStore"},
         UNCHANGED <<StoreData, myControlData.myDataAccessMutex, contents, waiting, added, posts, torn, lost>>
  PROVE  StoreInv'
<1>1. Copiers' = Copiers /\ Storers' = Storers
  BY StandMoves DEF StoreInv, MetInv
<1>2. Tokens' \in Nat /\ Rooms' \in Nat /\ lost' \in [rooms : Nat, messages : Nat]
      /\ Tokens' = Tokens /\ Rooms' = Rooms
      /\ UNCHANGED <<Count, ReadAt, WriteAt, contents, waiting, added, posts, torn>>
  BY DEF StoreInv, StoreTypes, StoreData
<1>3. Section' => Section
  BY DEF Section
<1> QED
  BY <1>1, <1>2, <1>3, StoreUntouched

LEMMA AloneSteps ==
  ASSUME StoreInv, MetInv', NEW u \in Users,
         \/ OpenData(u) \/ CreateData(u) \/ CreateControl(u) \/ OpenControl(u)
         \/ SyncWrite(u) \/ SyncRead(u) \/ SyncMark(u)
         \/ AddCheck(u) \/ GetCalled(u) \/ WaitTimedOut(u) \/ RemoveControl(u)
  PROVE  StoreInv'
<1>0. myControlData \in ControlData
  BY DEF StoreInv, MetInv, HandshakeTypes
<1>1. UNCHANGED <<contents, waiting, added, posts, torn, lost>>
  BY DEF OpenData, CreateData, CreateControl, OpenControl, SyncWrite, SyncRead, SyncMark, AddCheck, GetCalled,
    WaitTimedOut, RemoveControl, shared, history
<1>2. UNCHANGED <<StoreData, myControlData.myDataAccessMutex>>
  <2>1. CASE SyncWrite(u)
    <3>1. PICK value : myControlData' = [myControlData EXCEPT !.InterfaceStatus = FALSE, !.UniqueValue = value]
      BY <2>1 DEF SyncWrite, WriteValue
    <3> QED
      BY <1>0, <3>1 DEF ControlData, StoreData, Tokens, Rooms, Count, ReadAt, WriteAt
  <2>2. CASE SyncMark(u)
    <3>1. PICK value : myControlData' = [myControlData EXCEPT !.InterfaceStatus = TRUE, !.UniqueValue = value]
      BY <2>2 DEF SyncMark
    <3> QED
      BY <1>0, <3>1 DEF ControlData, StoreData, Tokens, Rooms, Count, ReadAt, WriteAt
  <2>3. CASE ~SyncWrite(u) /\ ~SyncMark(u)
    <3>1. myControlData' = myControlData
      BY <2>3 DEF OpenData, CreateData, CreateControl, OpenControl, SyncRead, AddCheck, GetCalled,
        WaitTimedOut, RemoveControl, shared
    <3> QED
      BY <3>1 DEF StoreData, Tokens, Rooms, Count, ReadAt, WriteAt
  <2> QED
    BY <2>1, <2>2, <2>3
<1>3. PICK from \in {"none", "create", "created", "opened", "idle", "syncWait", "syncMark", "addWait", "getWait", "closing"},
           to \in {"opened", "create", "broken", "created", "mapped", "syncWait", "syncMark", "idle", "addWait",
                   "getWait", "gone"} : Moves(u, from, to)
  BY DEF OpenData, CreateData, CreateControl, OpenControl, SyncWrite, SyncRead, SyncMark, AddCheck, GetCalled,
    WaitTimedOut, RemoveControl
<1> QED
  BY <1>1, <1>2, <1>3, StoreAlone

LEMMA LostRoom ==
  ASSUME NEW l \in [rooms : Nat, messages : Nat], NEW k, k = [l EXCEPT !.rooms = l.rooms + 1]
  PROVE  /\ k \in [rooms : Nat, messages : Nat]
         /\ k.rooms = l.rooms + 1 /\ k.messages = l.messages /\ l.rooms \in Nat
  OBVIOUS

LEMMA LostMessage ==
  ASSUME NEW l \in [rooms : Nat, messages : Nat], NEW k, k = [l EXCEPT !.messages = l.messages + 1]
  PROVE  /\ k \in [rooms : Nat, messages : Nat]
         /\ k.rooms = l.rooms /\ k.messages = l.messages + 1 /\ l.messages \in Nat
  OBVIOUS

(* A token is taken, or goes with a caller that is refused or dies.        *)
LEMMA TokenSteps ==
  ASSUME StoreInv, MetInv', NEW u \in Users, AddTake(u) \/ GetTake(u) \/ AddRefused(u) \/ GetRefused(u)
  PROVE  StoreInv'
<1>0. myControlData \in ControlData /\ HandshakeTypes /\ StoreTypes
  BY DEF StoreInv, MetInv, HandshakeTypes
<1>1. UNCHANGED <<contents, waiting, added, posts, torn>>
  BY DEF AddTake, GetTake, AddRefused, GetRefused, shared, history
<1>2. CASE AddTake(u)
  <2>1. Moves(u, "addWait", "addStore") /\ lost' = lost /\ Rooms > 0
        /\ myControlData' = [myControlData EXCEPT !.addMessageSemaphore = myControlData.addMessageSemaphore - 1]
    BY <1>2 DEF AddTake, Rooms, history
  <2>2. Tokens' = Tokens /\ Rooms' = Rooms - 1 /\ UNCHANGED <<Count, ReadAt, WriteAt>> /\ (Section' <=> Section)
    BY <1>0, <2>1 DEF ControlData, Tokens, Rooms, Count, ReadAt, WriteAt, Section
  <2>3. Copiers' = Copiers /\ Storers' = Storers + 1 /\ Storers \in Nat
    BY <1>0, <2>1, StandMoves
  <2>4. Tokens' \in Nat /\ Rooms' \in Nat /\ lost' \in [rooms : Nat, messages : Nat]
    BY <1>0, <2>1, <2>2 DEF StoreTypes
  <2>5. Tokens' + Copiers' + lost'.messages = Tokens + Copiers + lost.messages
    BY <2>1, <2>2, <2>3
  <2>6. Rooms' + Storers' + lost'.rooms = Rooms + Storers + lost.rooms
    BY <1>0, <2>1, <2>2, <2>3 DEF StoreTypes
  <2> QED
    BY <1>1, <2>1, <2>2, <2>4, <2>5, <2>6, StoreUntouched
<1>3. CASE GetTake(u)
  <2>1. Moves(u, "getWait", "getCopy") /\ lost' = lost /\ Tokens > 0
        /\ myControlData' = [myControlData EXCEPT !.getMsgSemaphore = myControlData.getMsgSemaphore - 1]
    BY <1>3 DEF GetTake, Tokens, history
  <2>2. Rooms' = Rooms /\ Tokens' = Tokens - 1 /\ UNCHANGED <<Count, ReadAt, WriteAt>> /\ (Section' <=> Section)
    BY <1>0, <2>1 DEF ControlData, Tokens, Rooms, Count, ReadAt, WriteAt, Section
  <2>3. Storers' = Storers /\ Copiers' = Copiers + 1 /\ Copiers \in Nat
    BY <1>0, <2>1, StandMoves
  <2>4. Tokens' \in Nat /\ Rooms' \in Nat /\ lost' \in [rooms : Nat, messages : Nat]
    BY <1>0, <2>1, <2>2 DEF StoreTypes
  <2>5. Tokens' + Copiers' + lost'.messages = Tokens + Copiers + lost.messages
    BY <1>0, <2>1, <2>2, <2>3 DEF StoreTypes
  <2>6. Rooms' + Storers' + lost'.rooms = Rooms + Storers + lost.rooms
    BY <2>1, <2>2, <2>3
  <2> QED
    BY <1>1, <2>1, <2>2, <2>4, <2>5, <2>6, StoreUntouched
<1>4. CASE AddRefused(u)
  <2>1. Moves(u, "addStore", "idle") /\ lost' = [lost EXCEPT !.rooms = lost.rooms + 1] /\ myControlData' = myControlData
    BY <1>4 DEF AddRefused, shared
  <2>2. Rooms' = Rooms /\ Tokens' = Tokens /\ UNCHANGED <<Count, ReadAt, WriteAt>> /\ (Section' <=> Section)
    BY <2>1 DEF Tokens, Rooms, Count, ReadAt, WriteAt, Section
  <2>3. Copiers' = Copiers /\ Storers = Storers' + 1 /\ Storers' \in Nat
    BY <1>0, <2>1, StandMoves
  <2>4. Tokens' \in Nat /\ Rooms' \in Nat /\ lost' \in [rooms : Nat, messages : Nat]
        /\ lost'.rooms = lost.rooms + 1 /\ lost'.messages = lost.messages /\ lost.rooms \in Nat
    <3>1. lost \in [rooms : Nat, messages : Nat] /\ Tokens \in Nat /\ Rooms \in Nat
      BY <1>0 DEF StoreTypes
    <3>2. Tokens' \in Nat /\ Rooms' \in Nat
      BY <2>2, <3>1
    <3> QED
      BY <2>1, <3>1, <3>2, LostRoom
  <2>5. Tokens' + Copiers' + lost'.messages = Tokens + Copiers + lost.messages
    BY <2>2, <2>3, <2>4
  <2>6. Rooms' + Storers' + lost'.rooms = Rooms + Storers + lost.rooms
    BY <2>2, <2>3, <2>4
  <2> QED
    BY <1>1, <2>1, <2>2, <2>4, <2>5, <2>6, StoreUntouched
<1>5. CASE GetRefused(u)
  <2>1. Moves(u, "getCopy", "idle") /\ lost' = [lost EXCEPT !.messages = lost.messages + 1] /\ myControlData' = myControlData
    BY <1>5 DEF GetRefused, shared
  <2>2. Rooms' = Rooms /\ Tokens' = Tokens /\ UNCHANGED <<Count, ReadAt, WriteAt>> /\ (Section' <=> Section)
    BY <2>1 DEF Tokens, Rooms, Count, ReadAt, WriteAt, Section
  <2>3. Storers' = Storers /\ Copiers = Copiers' + 1 /\ Copiers' \in Nat
    BY <1>0, <2>1, StandMoves
  <2>4. Tokens' \in Nat /\ Rooms' \in Nat /\ lost' \in [rooms : Nat, messages : Nat]
        /\ lost'.rooms = lost.rooms /\ lost'.messages = lost.messages + 1 /\ lost.messages \in Nat
    <3>1. lost \in [rooms : Nat, messages : Nat] /\ Tokens \in Nat /\ Rooms \in Nat
      BY <1>0 DEF StoreTypes
    <3>2. Tokens' \in Nat /\ Rooms' \in Nat
      BY <2>2, <3>1
    <3> QED
      BY <2>1, <3>1, <3>2, LostMessage
  <2>5. Tokens' + Copiers' + lost'.messages = Tokens + Copiers + lost.messages
    BY <2>2, <2>3, <2>4
  <2>6. Rooms' + Storers' + lost'.rooms = Rooms + Storers + lost.rooms
    BY <2>2, <2>3, <2>4
  <2> QED
    BY <1>1, <2>1, <2>2, <2>4, <2>5, <2>6, StoreUntouched
<1> QED
  BY <1>2, <1>3, <1>4, <1>5

LEMMA DieSteps ==
  ASSUME StoreInv, MetInv', NEW u \in Users, Die(u) \/ DieInside(u)
  PROVE  StoreInv'
<1>0. myControlData \in ControlData /\ HandshakeTypes /\ StoreTypes
  BY DEF StoreInv, MetInv, HandshakeTypes
<1>1. UNCHANGED <<contents, waiting, added, posts, torn>> /\ Moves(u, place[u], "none")
  BY DEF Die, DieInside, shared, history
<1>2. CASE Die(u)
  <2>1. /\ myControlData' = myControlData
        /\ lost' = [rooms |-> lost.rooms + (IF place[u] = "addStore" THEN 1 ELSE 0),
                    messages |-> lost.messages + (IF place[u] = "getCopy" THEN 1 ELSE 0)]
    BY <1>2 DEF Die, shared
  <2>2. Rooms' = Rooms /\ Tokens' = Tokens /\ UNCHANGED <<Count, ReadAt, WriteAt>> /\ (Section' <=> Section)
    BY <2>1 DEF Tokens, Rooms, Count, ReadAt, WriteAt, Section
  <2>3. /\ Copiers = Copiers' + (IF place[u] = "getCopy" THEN 1 ELSE 0) /\ Copiers' \in Nat
        /\ Storers = Storers' + (IF place[u] = "addStore" THEN 1 ELSE 0) /\ Storers' \in Nat
    BY <1>0, <1>1, StandMoves
  <2>4. Tokens' \in Nat /\ Rooms' \in Nat /\ lost' \in [rooms : Nat, messages : Nat]
        /\ lost'.rooms = lost.rooms + (IF place[u] = "addStore" THEN 1 ELSE 0) /\ lost.rooms \in Nat
        /\ lost'.messages = lost.messages + (IF place[u] = "getCopy" THEN 1 ELSE 0) /\ lost.messages \in Nat
    BY <1>0, <2>1, <2>2 DEF StoreTypes
  <2>5. Tokens' + Copiers' + lost'.messages = Tokens + Copiers + lost.messages
    BY <2>2, <2>3, <2>4
  <2>6. Rooms' + Storers' + lost'.rooms = Rooms + Storers + lost.rooms
    BY <2>2, <2>3, <2>4
  <2> QED
    BY <1>1, <2>2, <2>4, <2>5, <2>6, StoreUntouched
<1>3. CASE DieInside(u)
  <2>1. PICK posted \in 0..1 :
          myControlData' = [myControlData EXCEPT
            !.myDataAccessMutex = "held",
            !.getMsgSemaphore = @ + (IF place[u] = "addStore" THEN posted ELSE 0),
            !.addMessageSemaphore = @ + (IF place[u] = "getCopy" THEN posted ELSE 0)]
    BY <1>3 DEF DieInside
  <2> DEFINE token == Tokens + (IF place[u] = "addStore" THEN posted ELSE 0)
             room == Rooms + (IF place[u] = "getCopy" THEN posted ELSE 0)
  <2>2. token \in Nat /\ room \in Nat
    BY <1>0 DEF StoreTypes
  <2>3. myControlData' = [myControlData EXCEPT !.getMsgSemaphore = token,
                            !.addMessageSemaphore = room, !.myDataAccessMutex = "held"]
    BY <1>0, <2>1 DEF ControlData, Tokens, Rooms
  <2> HIDE DEF token, room
  <2>4. Tokens' = token /\ Rooms' = room /\ UNCHANGED <<Count, ReadAt, WriteAt>> /\ ~Section'
    BY <1>0, <2>3 DEF ControlData, Tokens, Rooms, Count, ReadAt, WriteAt, Section
  <2>5. lost' = lost
    BY <1>3 DEF DieInside, history
  <2>6. lost' \in [rooms : Nat, messages : Nat]
    BY <1>0, <2>5 DEF StoreTypes
  <2> QED
    BY <1>1, <2>2, <2>4, <2>6, StoreUntouched
<1> QED
  BY <1>2, <1>3

(* The constructor makes the control data anew, with nobody in a call.     *)
LEMMA ConstructStep == ASSUME StoreInv, MetInv', NEW u \in Users, ConstructControl(u) PROVE StoreInv'
<1>0. HandshakeTypes /\ StoreTypes
  BY DEF StoreInv, MetInv
<1>1. /\ Moves(u, "mapped", "idle") /\ myControlData' = Fresh(myControlData.UniqueValue)
      /\ torn' = (torn \/ Standing(Calling) # {})
      /\ waiting' = <<>> /\ lost' = [rooms |-> 0, messages |-> 0] /\ posts' = 0
      /\ UNCHANGED <<contents, added>>
  BY DEF ConstructControl, NothingLostYet
<1>2. Tokens' = 0 /\ Rooms' = maxMsgs /\ Count' = 0 /\ ReadAt' = 0 /\ WriteAt' = 0
  BY <1>1 DEF Fresh, Tokens, Rooms, Count, ReadAt, WriteAt
<1>3. maxMsgs \in Nat \ {0} /\ CountSize \in Nat \ {0} /\ 0 \in Places /\ 0 \in 0..(CountSize - 1)
  BY Win32Assumption DEF Places
<1>4. StoreTypes'
  BY <1>0, <1>1, <1>2, <1>3 DEF StoreTypes
<1>5. ASSUME ~torn' PROVE StoreFits'
  <2>1. Standing(Calling) = {}
    BY <1>1, <1>5, Zenon
  <2>2. Standing({"getCopy"}) = {} /\ Standing({"addStore"}) = {}
    BY <2>1 DEF Standing, Calling
  <2>3. Copiers = 0 /\ Storers = 0
    BY <2>2, FS_EmptySet DEF Copiers, Storers
  <2>4. Copiers' = 0 /\ Storers' = 0
    BY <1>0, <1>1, <2>3, StandMoves
  <2>5. MessageBalance' = 0 /\ RoomBalance' = 0
    BY <1>1, <1>2, <1>3, <2>4 DEF MessageBalance, RoomBalance
  <2>6. 0 % CountSize = 0 /\ (0 + 0) % maxMsgs = 0
    BY <1>3
  <2>7. RingInOrder'
    BY <1>1, <1>2 DEF RingInOrder, Count
  <2> QED
    BY <1>2, <2>5, <2>6, <2>7 DEF StoreFits, StoreInOrder
<1> QED
  BY <1>4, <1>5 DEF StoreInv

(* The destructor posts both semaphores.                                   *)
LEMMA DestroyStep == ASSUME StoreInv, MetInv', NEW u \in Users, Destroy(u) PROVE StoreInv'
<1>0. myControlData \in ControlData /\ HandshakeTypes /\ StoreTypes
  BY DEF StoreInv, MetInv, HandshakeTypes
<1>1. /\ Moves(u, "idle", "closing") /\ torn' = (torn \/ ~Section)
      /\ posts' = posts + 1
      /\ UNCHANGED <<contents, added, waiting, lost>>
  BY DEF Destroy
<1> DEFINE token == Tokens + 1
           room == Rooms + 1
<1>2. myControlData' = [myControlData EXCEPT !.getMsgSemaphore = token,
                          !.addMessageSemaphore = room, !.myDataAccessMutex = "free"]
  BY DEF Destroy, Tokens, Rooms
<1> HIDE DEF token, room
<1>3. Tokens' = token /\ Rooms' = room /\ UNCHANGED <<Count, ReadAt, WriteAt>>
  BY <1>0, <1>2 DEF ControlData, Tokens, Rooms, Count, ReadAt, WriteAt
<1>4. Tokens' = Tokens + 1 /\ Rooms' = Rooms + 1
  BY <1>3 DEF token, room
<1>5. StoreTypes'
  BY <1>0, <1>1, <1>3, <1>4 DEF StoreTypes
<1>6. ASSUME ~torn' PROVE StoreFits'
  <2>1. ~torn /\ Section
    BY <1>1, <1>6, Zenon
  <2>2. StoreFits
    BY <2>1 DEF StoreInv
  <2>3. Copiers' = Copiers /\ Storers' = Storers /\ Copiers \in Nat /\ Storers \in Nat
    BY <1>0, <1>1, StandMoves
  <2>4. /\ Tokens \in Nat /\ Rooms \in Nat /\ Count \in Int /\ posts \in Nat /\ maxMsgs \in Nat
        /\ lost.messages \in Nat /\ lost.rooms \in Nat
    BY <1>0, Win32Assumption DEF StoreTypes
  <2>5. MessageBalance' = MessageBalance
    BY <1>1, <1>3, <1>4, <2>3, <2>4 DEF MessageBalance
  <2>6. RoomBalance' = RoomBalance
    BY <1>1, <1>3, <1>4, <2>3, <2>4 DEF RoomBalance
  <2>7. posts' # 0
    BY <1>1, <2>4
  <2> QED
    BY <2>2, <2>5, <2>6, <2>7 DEF StoreFits
<1> QED
  BY <1>5, <1>6 DEF StoreInv

LEMMA PlacesRing == maxMsgs \in Nat \ {0} /\ Places = 0..(maxMsgs - 1)
BY Win32Assumption DEF Places

LEMMA AddStoreStep == ASSUME StoreInv, MetInv', NEW u \in Users, AddStore(u) PROVE StoreInv'
<1>0. myControlData \in ControlData /\ HandshakeTypes /\ StoreTypes
  BY DEF StoreInv, MetInv, HandshakeTypes
<1> DEFINE n == Count + 1
           slot == (WriteAt + 1) % maxMsgs
           token == Tokens + 1
<1>1. /\ Moves(u, "addStore", "idle") /\ Section /\ Count < maxMsgs
      /\ added' = added + 1
      /\ contents' = [contents EXCEPT ![WriteAt] = added']
      /\ waiting' = Append(waiting, added')
      /\ UNCHANGED <<lost, posts, torn>>
      /\ myControlData' = [myControlData EXCEPT !.NumberMessagesInQueue = n,
                            !.CurrentWriteSlot = slot, !.getMsgSemaphore = token]
  BY DEF AddStore, StoreAt, Count, WriteAt, Tokens, NextPlace
<1> HIDE DEF n, slot, token
<1>2. Tokens' = token /\ Rooms' = Rooms /\ Count' = n /\ ReadAt' = ReadAt /\ WriteAt' = slot
  BY <1>0, <1>1 DEF ControlData, Tokens, Rooms, Count, ReadAt, WriteAt
<1>3. Tokens' = Tokens + 1 /\ Count' = Count + 1 /\ WriteAt' = (WriteAt + 1) % maxMsgs
  BY <1>2 DEF token, n, slot
<1>4. added' \in Nat /\ Count' \in 1..maxMsgs /\ Count' \in 0..(CountSize - 1) /\ Count \in 0..(maxMsgs - 1)
  BY SMTT(30), <1>0, <1>1, <1>3, Win32Assumption DEF StoreTypes
<1>5. WriteAt' \in Places /\ Tokens' \in Nat
  BY <1>0, <1>3, PlacesRing DEF StoreTypes
<1>6. contents' \in [Places -> Nat] /\ waiting' \in Seq(Nat)
  <2>1. contents' \in [Places -> Nat]
    BY <1>0, <1>1, <1>4 DEF StoreTypes
  <2>2. waiting' \in Seq(Nat)
    BY <1>0, <1>1, <1>4 DEF StoreTypes
  <2> QED
    BY <2>1, <2>2
<1>7. StoreTypes'
  BY <1>0, <1>1, <1>2, <1>4, <1>5, <1>6 DEF StoreTypes
<1>8. ASSUME ~torn PROVE StoreFits'
  <2>1. StoreFits
    BY <1>1, <1>8 DEF StoreInv
  <2>2. Copiers' = Copiers /\ Storers = Storers' + 1 /\ Copiers \in Nat /\ Storers' \in Nat
    BY <1>0, <1>1, StandMoves
  <2>3. /\ Tokens \in Nat /\ Rooms \in Nat /\ Count \in Int /\ posts \in Nat /\ maxMsgs \in Nat
        /\ lost.messages \in Nat /\ lost.rooms \in Nat
    BY <1>0, Win32Assumption DEF StoreTypes
  <2>4. MessageBalance' = MessageBalance
    <3>1. lost'.messages = lost.messages /\ posts' = posts
      BY <1>1
    <3>2. Tokens' = Tokens + 1 /\ Count' = Count + 1
      BY <1>3
    <3> QED
      BY <2>2, <2>3, <3>1, <3>2 DEF MessageBalance
  <2>5. RoomBalance' = RoomBalance
    BY SMTT(30), <1>1, <1>2, <1>3, <2>2, <2>3 DEF RoomBalance
  <2>6. ASSUME posts = 0 PROVE RingInOrder' /\ WriteAt' = (ReadAt' + Count') % maxMsgs
    <3>1. StoreInOrder
      BY <2>1, <2>6 DEF StoreFits
    <3>2. Len(waiting) = Count /\ WriteAt = (ReadAt + Len(waiting)) % maxMsgs
          /\ Holds(contents, ReadAt, waiting, maxMsgs)
      BY <3>1 DEF StoreInOrder, RingInOrder, Count, ReadAt, Holds
    <3>3. /\ ReadAt \in 0..(maxMsgs - 1) /\ contents \in [0..(maxMsgs - 1) -> Nat] /\ waiting \in Seq(Nat)
          /\ Len(waiting) < maxMsgs
      BY <1>0, <1>1, <3>2, PlacesRing DEF StoreTypes
    <3> DEFINE x == added'
    <3>4. x \in Nat
      BY <1>4
    <3> HIDE DEF x
    <3>5. Holds([contents EXCEPT ![(ReadAt + Len(waiting)) % maxMsgs] = x], ReadAt, Append(waiting, x), maxMsgs)
      BY <3>2, <3>3, <3>4, PlacesRing, RingPut, Zenon
    <3>6. Holds(contents', ReadAt', waiting', maxMsgs) /\ Count' = Len(waiting')
      BY <1>1, <1>2, <1>3, <1>4, <3>2, <3>3, <3>5 DEF x
    <3>7. (((ReadAt + Count) % maxMsgs) + 1) % maxMsgs = (ReadAt + Count + 1) % maxMsgs
      <4>1. PICK k \in 0..maxMsgs : k = Count /\ k < maxMsgs
        BY <1>4, PlacesRing
      <4>2. (((ReadAt + k) % maxMsgs) + 1) % maxMsgs = (ReadAt + k + 1) % maxMsgs
        BY <3>3, <4>1, PlacesRing, Walk, Zenon
      <4> QED
        BY <4>1, <4>2
    <3>8. ReadAt + Count + 1 = ReadAt' + Count'
      BY <1>2, <1>3, <2>3, <3>3
    <3>9. WriteAt' = (ReadAt' + Count') % maxMsgs
      BY <1>3, <3>2, <3>7, <3>8
    <3> QED
      BY <3>6, <3>9 DEF RingInOrder, Holds, Count, ReadAt
  <2> QED
    BY <1>1, <2>1, <2>4, <2>5, <2>6 DEF StoreFits, StoreInOrder
<1> QED
  BY <1>1, <1>7, <1>8 DEF StoreInv

(* Until a destructor posts a receiver with a token finds a message; then  *)
(* the count may wrap.                                                     *)
LEMMA GetCopyStep == ASSUME StoreInv, MetInv', NEW u \in Users, GetCopy(u) PROVE StoreInv'
<1>0. myControlData \in ControlData /\ HandshakeTypes /\ StoreTypes
  BY DEF StoreInv, MetInv, HandshakeTypes
<1> DEFINE n == (Count - 1) % CountSize
           slot == (ReadAt + 1) % maxMsgs
           room == Rooms + 1
<1>1. /\ Moves(u, "getCopy", "idle") /\ Section
      /\ waiting' = IF waiting = <<>> THEN <<>> ELSE Tail(waiting)
      /\ UNCHANGED <<contents, added, lost, posts, torn>>
      /\ myControlData' = [myControlData EXCEPT !.NumberMessagesInQueue = n,
                            !.CurrentReadSlot = slot, !.addMessageSemaphore = room]
  BY DEF GetCopy, Count, ReadAt, Rooms, NextPlace
<1> HIDE DEF n, slot, room
<1>2. Tokens' = Tokens /\ Rooms' = room /\ Count' = n /\ ReadAt' = slot /\ WriteAt' = WriteAt
  BY <1>0, <1>1 DEF ControlData, Tokens, Rooms, Count, ReadAt, WriteAt
<1>3. Rooms' = Rooms + 1 /\ ReadAt' = (ReadAt + 1) % maxMsgs
      /\ Count' = IF Count = 0 THEN CountSize - 1 ELSE Count - 1
  <2>1. Count \in 0..(CountSize - 1) /\ CountSize \in Nat \ {0}
    BY <1>0, Win32Assumption DEF StoreTypes
  <2>2. (Count - 1) % CountSize = IF Count = 0 THEN CountSize - 1 ELSE Count - 1
    <3>1. CASE Count = 0
      <4>1. (0 - 1) % CountSize = CountSize - 1
        BY <2>1
      <4> QED
        BY <3>1, <4>1
    <3>2. CASE Count # 0
      <4>1. Count - 1 \in 0..(CountSize - 1)
        BY <2>1, <3>2
      <4> QED
        BY <2>1, <3>2, <4>1
    <3> QED
      BY <3>1, <3>2
  <2> QED
    BY <1>2, <2>2 DEF n, slot, room
<1>4. Count' \in 0..(CountSize - 1) /\ Rooms' \in Nat
  BY <1>0, <1>3, Win32Assumption DEF StoreTypes
<1>5. ReadAt' \in Places /\ waiting' \in Seq(Nat)
  <2>1. ReadAt' \in Places
    BY <1>0, <1>3, PlacesRing DEF StoreTypes
  <2>2. waiting' \in Seq(Nat)
    BY <1>0, <1>1 DEF StoreTypes
  <2> QED
    BY <2>1, <2>2
<1>6. StoreTypes'
  BY <1>0, <1>1, <1>2, <1>4, <1>5 DEF StoreTypes
<1>7. ASSUME ~torn PROVE StoreFits'
  <2>1. StoreFits
    BY <1>1, <1>7 DEF StoreInv
  <2>2. Storers' = Storers /\ Copiers = Copiers' + 1 /\ Storers \in Nat /\ Copiers' \in Nat
    BY <1>0, <1>1, StandMoves
  <2>3. /\ Tokens \in Nat /\ Rooms \in Nat /\ Count \in Nat /\ posts \in Nat /\ maxMsgs \in Nat \ {0}
        /\ lost.messages \in Nat /\ lost.rooms \in Nat /\ CountSize \in Nat \ {0} /\ maxMsgs < CountSize
    BY <1>0, Win32Assumption DEF StoreTypes
  <2>4. MessageBalance \in Int /\ RoomBalance \in Int
    BY <2>2, <2>3 DEF MessageBalance, RoomBalance
  <2>5. CASE Count # 0
    <3>1. Count' = Count - 1
      BY <1>3, <2>5
    <3>2. MessageBalance' = MessageBalance
      <4>1. lost'.messages = lost.messages /\ posts' = posts
        BY <1>1
      <4> QED
        BY <1>2, <2>2, <2>3, <3>1, <4>1 DEF MessageBalance
    <3>3. RoomBalance' = RoomBalance
      <4>1. lost'.rooms = lost.rooms /\ posts' = posts
        BY <1>1
      <4>2. Rooms' = Rooms + 1
        BY <1>3
      <4> QED
        BY <2>2, <2>3, <3>1, <4>1, <4>2 DEF RoomBalance
    <3>4. ASSUME posts = 0 PROVE RingInOrder' /\ WriteAt' = (ReadAt' + Count') % maxMsgs
      <4>1. StoreInOrder
        BY <2>1, <3>4 DEF StoreFits
      <4>2. Len(waiting) = Count /\ WriteAt = (ReadAt + Count) % maxMsgs /\ Holds(contents, ReadAt, waiting, maxMsgs)
        BY <4>1 DEF StoreInOrder, RingInOrder, Count, ReadAt, Holds
      <4>3. Count <= maxMsgs
        BY <2>2, <2>3, <3>4, <4>1 DEF StoreInOrder, RoomBalance
      <4>4. ReadAt \in 0..(maxMsgs - 1) /\ waiting \in Seq(Nat) /\ waiting # <<>> /\ Len(waiting) <= maxMsgs
        BY <1>0, <2>5, <4>2, <4>3, PlacesRing DEF StoreTypes
      <4>5. /\ Holds(contents, (ReadAt + 1) % maxMsgs, Tail(waiting), maxMsgs)
            /\ Len(Tail(waiting)) = Len(waiting) - 1
        BY <4>2, <4>4, PlacesRing, RingTake
      <4>6. Holds(contents', ReadAt', waiting', maxMsgs) /\ Count' = Len(waiting')
        BY <1>1, <1>3, <3>1, <4>2, <4>4, <4>5
      <4>7. (((ReadAt + 1) % maxMsgs) + Count - 1) % maxMsgs = (ReadAt + Count) % maxMsgs
        <5>1. PICK k \in 0..maxMsgs : k = Count /\ k > 0
          BY <2>3, <2>5, <4>3
        <5>2. (((ReadAt + 1) % maxMsgs) + k - 1) % maxMsgs = (ReadAt + k) % maxMsgs
          BY <4>4, <5>1, PlacesRing, Walk, Zenon
        <5> QED
          BY <5>1, <5>2
      <4>8. ((ReadAt + 1) % maxMsgs) + Count - 1 = ReadAt' + Count'
        <5> DEFINE a == (ReadAt + 1) % maxMsgs
        <5>1. a \in Int /\ ReadAt' = a
          BY <1>3, <2>3, <4>4
        <5> HIDE DEF a
        <5>2. a + Count - 1 = ReadAt' + Count'
          BY <2>3, <3>1, <5>1
        <5> QED
          BY <5>2 DEF a
      <4>9. WriteAt' = (ReadAt' + Count') % maxMsgs
        BY <1>2, <4>2, <4>7, <4>8
      <4> QED
        BY <4>6, <4>9 DEF RingInOrder, Holds, Count, ReadAt
    <3> QED
      BY <1>1, <2>1, <3>2, <3>3, <3>4 DEF StoreFits, StoreInOrder
  <2>6. CASE Count = 0
    <3>1. Count' = CountSize - 1
      BY <1>3, <2>6
    <3>2. MessageBalance' = MessageBalance - CountSize
      BY <1>1, <1>2, <2>2, <2>3, <2>6, <3>1 DEF MessageBalance
    <3>3. RoomBalance' = RoomBalance + CountSize
      BY SMTT(30), <1>1, <1>3, <2>2, <2>3, <2>6, <3>1 DEF RoomBalance
    <3>4. posts # 0
      <4>1. posts = 0 => MessageBalance = 0
        BY <2>1 DEF StoreFits, StoreInOrder
      <4> QED
        BY <2>2, <2>3, <2>6, <4>1 DEF MessageBalance
    <3>5. MessageBalance % CountSize = 0 /\ RoomBalance % CountSize = 0
      BY <2>1 DEF StoreFits
    <3>6. (MessageBalance - CountSize) % CountSize = 0 /\ (RoomBalance + CountSize) % CountSize = 0
      BY <2>3, <2>4, <3>5, SpanShift
    <3> QED
      BY <1>1, <3>2, <3>3, <3>4, <3>6 DEF StoreFits
  <2> QED
    BY <2>5, <2>6
<1> QED
  BY <1>1, <1>6, <1>7 DEF StoreInv

LEMMA StoreStart == Win32Init => StoreInv
<1> SUFFICES ASSUME Win32Init PROVE StoreInv
  OBVIOUS
<1>0. maxMsgs \in Nat \ {0} /\ CountSize \in Nat \ {0} /\ 0 \in Places /\ 0 \in 0..(CountSize - 1)
  BY Win32Assumption DEF Places
<1>1. /\ Tokens = 0 /\ Rooms = maxMsgs /\ Count = 0 /\ ReadAt = 0 /\ WriteAt = 0
      /\ waiting = <<>> /\ posts = 0 /\ lost.rooms = 0 /\ lost.messages = 0
  BY DEF Win32Init, Fresh, NothingLostYet, Tokens, Rooms, Count, ReadAt, WriteAt
<1>2. StoreTypes
  BY <1>0, <1>1 DEF Win32Init, StoreTypes, NothingLostYet
<1>3. Copiers = 0 /\ Storers = 0
  <2>1. Standing({"getCopy"}) = {} /\ Standing({"addStore"}) = {}
    BY DEF Win32Init, Standing
  <2> QED
    BY <2>1, FS_EmptySet DEF Copiers, Storers
<1>4. MessageBalance = 0 /\ RoomBalance = 0
  BY <1>0, <1>1, <1>3 DEF MessageBalance, RoomBalance
<1>5. 0 % CountSize = 0 /\ (0 + 0) % maxMsgs = 0
  BY <1>0
<1>6. RingInOrder
  BY <1>1 DEF RingInOrder, Count
<1> QED
  BY <1>1, <1>2, <1>4, <1>5, <1>6, MetStart DEF StoreInv, StoreFits, StoreInOrder

(* The Win32 queue: whatever order calls, deaths, restarts and destructors *)
(* come in, unless a constructor or a destructor changed the data under a  *)
(* call, each token is accounted for modulo the width of the count and,    *)
(* until a destructor posts, the ring holds the messages in order.         *)
THEOREM Win32StoreKept == Win32Spec => []StoreKept
<1>1. ASSUME StoreInv, [Win32Next]_winVars PROVE StoreInv'
  <2>0. MetInv'
    BY <1>1, MetStep DEF StoreInv
  <2>1. CASE UNCHANGED winVars
    <3>1. UNCHANGED <<myControlData, place, contents, waiting, added, posts, torn, lost>>
      BY <2>1 DEF winVars, shared, history
    <3>2. UNCHANGED <<Tokens, Rooms, Count, ReadAt, WriteAt, Copiers, Storers>> /\ Section' = Section
      BY <3>1 DEF Tokens, Rooms, Count, ReadAt, WriteAt, Copiers, Storers, Standing, Section
    <3>3. StoreTypes'
      BY <1>1, <3>1, <3>2 DEF StoreInv, StoreTypes
    <3>4. StoreFits => StoreFits'
      BY <3>1, <3>2 DEF StoreFits, StoreInOrder, RingInOrder, MessageBalance, RoomBalance
    <3> QED
      BY <1>1, <2>0, <3>1, <3>2, <3>3, <3>4 DEF StoreInv
  <2>2. ASSUME NEW u \in Users, Win32Construct(u) PROVE StoreInv'
    BY <1>1, <2>0, <2>2, AloneSteps, ConstructStep DEF Win32Construct
  <2>3. ASSUME NEW u \in Users, Win32Call(u) PROVE StoreInv'
    BY <1>1, <2>0, <2>3, AloneSteps, TokenSteps, AddStoreStep, GetCopyStep DEF Win32Call
  <2>4. ASSUME NEW u \in Users, Destroy(u) \/ RemoveControl(u) \/ Die(u) \/ DieInside(u) PROVE StoreInv'
    BY <1>1, <2>0, <2>4, AloneSteps, DestroyStep, DieSteps
  <2> QED
    BY <1>1, <2>1, <2>2, <2>3, <2>4 DEF Win32Next
<1>2. StoreInv => StoreKept
  BY StoreFitsIs DEF StoreInv, StoreKept
<1> QED
  BY <1>1, <1>2, StoreStart, PTL DEF Win32Spec
=============================================================================
