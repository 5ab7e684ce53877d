---------------------- MODULE InterprocessQueueProofs ----------------------
(***************************************************************************)
(* Theorems about InterprocessQueue, for any number of threads, any queue  *)
(* size and any width of the message count.                                *)
(***************************************************************************)
EXTENDS InterprocessQueue, FiniteSetTheorems, SequenceTheorems, TLAPS

(* A call holds its message from its first step on.                        *)
ArgOK == \A s \in Senders : pc[s] # "idle" => arg[s] \in Messages

(* While the interface is down no call gets past getQueueState, so that    *)
(* constructing the semaphores again takes no token from anybody.          *)
DownMeansUnused ==
  ~InterfaceStatus =>
    /\ \A t \in Threads : pc[t] \in {"idle", "addCheck", "getCheck"}
    /\ getMsgSemaphore = 0
    /\ addMessageSemaphore = MaxMsgs

IndInv ==
  /\ TypeOK
  /\ ArgOK
  /\ DownMeansUnused
  /\ TokenBalance
  /\ MisreadOnlyAfterOverflow
  /\ RingHoldsBacklog
  /\ LeaveInOrder

----------------------------------------------------------------------------
(* A slot index stays in the ring and wraps at MaxMsgs.                    *)
LEMMA NextSlotWraps ==
  ASSUME NEW x \in Slots
  PROVE  /\ NextSlot(x) \in Slots
         /\ NextSlot(x) = IF x + 1 = MaxMsgs THEN 0 ELSE x + 1
  BY QueueAssumption DEF NextSlot, Slots

(* The count wraps only at its ends.                                       *)
LEMMA CountWraps ==
  ASSUME NEW n \in 0..(Modulus - 1)
  PROVE  /\ Inc(n) \in 0..(Modulus - 1)
         /\ Dec(n) \in 0..(Modulus - 1)
         /\ n + 1 < Modulus => Inc(n) = n + 1
         /\ n > 0 => Dec(n) = n - 1
<1>1. Modulus \in Nat /\ Modulus > 0
  BY QueueAssumption
<1>2. n + 1 < Modulus => (n + 1) % Modulus = n + 1
  BY <1>1
<1>3. n > 0 => (n + Modulus - 1) % Modulus = n - 1
  <2>1. SUFFICES ASSUME n > 0
                 PROVE  (n + Modulus - 1) % Modulus = n - 1
    OBVIOUS
  <2>2. n + Modulus - 1 = 1 * Modulus + (n - 1) /\ n - 1 \in 0..(Modulus - 1)
    BY <1>1, <2>1
  <2> QED
    BY <1>1, <2>2
<1>4. (n + 1) % Modulus \in 0..(Modulus - 1)
  BY <1>1
<1>5. (n + Modulus - 1) % Modulus \in 0..(Modulus - 1)
  BY <1>1
<1> QED
  BY <1>2, <1>3, <1>4, <1>5 DEF Inc, Dec

(* How a step of thread t from one stage of its call to another changes    *)
(* the number of threads of a finite set at each stage.                    *)
LEMMA CountMoves ==
  ASSUME NEW T, IsFiniteSet(T), T \subseteq Threads, NEW t \in Threads,
         NEW from, NEW to, NEW stage, DOMAIN pc = Threads, pc = [u \in Threads |-> pc[u]],
         Goto(t, from, to)
  PROVE  /\ Cardinality(Calling(T, stage)) \in Nat
         /\ (t \notin T \/ (stage # from /\ stage # to)) =>
              Cardinality(Calling(T, stage))' = Cardinality(Calling(T, stage))
         /\ (t \in T /\ stage # from /\ stage = to) =>
              Cardinality(Calling(T, stage))' = Cardinality(Calling(T, stage)) + 1
         /\ (t \in T /\ stage = from /\ stage # to) =>
              /\ Cardinality(Calling(T, stage)) > 0
              /\ Cardinality(Calling(T, stage))' = Cardinality(Calling(T, stage)) - 1
<1> DEFINE C == Calling(T, stage)
           D == {u \in T : pc'[u] = stage}
<1>1. C' = D
  BY DEF Calling
<1>2. \A u \in T : pc'[u] = IF u = t THEN to ELSE pc[u]
  BY DEF Goto
<1>3. IsFiniteSet(C) /\ Cardinality(C) \in Nat
  BY FS_Subset, FS_CardinalityType DEF Calling
<1>4. Cardinality(Calling(T, stage))' = Cardinality(D)
  BY <1>1
<1>5. ASSUME t \notin T \/ (stage # from /\ stage # to)
      PROVE  D = C
  BY <1>2, <1>5 DEF Calling, Goto
<1>6. ASSUME t \in T, stage # from, stage = to
      PROVE  D = C \cup {t} /\ t \notin C
  BY <1>2, <1>6 DEF Calling, Goto
<1>7. ASSUME t \in T, stage = from, stage # to
      PROVE  D = C \ {t} /\ t \in C
  BY <1>2, <1>7 DEF Calling, Goto
<1>8. t \in T /\ stage # from /\ stage = to => Cardinality(D) = Cardinality(C) + 1
  <2>1. Cardinality(C \cup {t}) = IF t \in C THEN Cardinality(C) ELSE Cardinality(C) + 1
    BY <1>3, FS_AddElement
  <2> QED
    BY <1>6, <2>1
<1>9. t \in T /\ stage = from /\ stage # to =>
        Cardinality(C) > 0 /\ Cardinality(D) = Cardinality(C) - 1
  <2> SUFFICES ASSUME t \in T, stage = from, stage # to
               PROVE  Cardinality(C) > 0 /\ Cardinality(D) = Cardinality(C) - 1
    OBVIOUS
  <2>1. D = C \ {t} /\ t \in C
    BY <1>7
  <2>2. Cardinality(D) = Cardinality(C) - 1
    BY <1>3, <2>1, FS_RemoveElement
  <2>3. Cardinality(D) \in Nat
    BY <1>3, <2>1, FS_RemoveElement, FS_CardinalityType
  <2> QED
    BY <1>3, <2>2, <2>3
<1> QED
  BY <1>3, <1>4, <1>5, <1>8, <1>9

(* Walking round the ring.                                                 *)
LEMMA AheadWalks ==
  ASSUME NEW slot \in Slots, NEW i \in 0..(MaxMsgs - 1)
  PROVE  /\ Ahead(slot, 0) = slot
         /\ Ahead(slot, i) \in Slots
         /\ NextSlot(Ahead(slot, i)) = Ahead(slot, i + 1)
         /\ Ahead(NextSlot(slot), i) = Ahead(slot, i + 1)
         /\ \A j \in 0..(MaxMsgs - 1) : j # i => Ahead(slot, j) # Ahead(slot, i)
<1>1. MaxMsgs \in Nat /\ MaxMsgs > 0
  BY QueueAssumption
<1>2. Ahead(slot, i) \in Slots
  BY <1>1 DEF Ahead, Slots
<1>3. Ahead(slot, 0) = slot
  BY <1>1 DEF Ahead, Slots
<1>4. NextSlot(Ahead(slot, i)) = Ahead(slot, i + 1)
  BY <1>1, <1>2, NextSlotWraps DEF Ahead, Slots
<1>5. Ahead(NextSlot(slot), i) = Ahead(slot, i + 1)
  BY <1>1, NextSlotWraps DEF Ahead, Slots
<1>6. \A j \in 0..(MaxMsgs - 1) : j # i => Ahead(slot, j) # Ahead(slot, i)
  BY <1>1 DEF Ahead, Slots
<1> QED
  BY <1>2, <1>3, <1>4, <1>5, <1>6

----------------------------------------------------------------------------
LEMMA InitEstablishes == Init => IndInv
<1> SUFFICES ASSUME Init PROVE IndInv
  OBVIOUS
<1> USE QueueAssumption DEF Init
<1>1. TypeOK
  <2>1. /\ NumberMessagesInQueue \in 0..(Modulus - 1)
        /\ CurrentReadSlot \in Slots /\ CurrentWriteSlot \in Slots
        /\ addMessageSemaphore \in Nat
    BY DEF Slots
  <2>2. /\ myQueue \in [Slots -> Messages \cup {NoMsg}]
        /\ arg \in [Senders -> Messages \cup {NoMsg}]
    OBVIOUS
  <2>3. /\ accepted \in Seq(Messages)
        /\ removed \in Seq([msg : Messages \cup {NoMsg}, how : {"received", "dropped"}])
    OBVIOUS
  <2> QED
    BY <2>1, <2>2, <2>3 DEF TypeOK
<1>2. ArgOK /\ DownMeansUnused /\ MisreadOnlyAfterOverflow
  BY DEF ArgOK, DownMeansUnused, MisreadOnlyAfterOverflow, Threads
<1>3. Backlog = 0
  BY DEF Backlog
<1>4. TokenBalance
  <2>1. Calling(Receivers, "copy") = {} /\ Calling(Senders, "store") = {}
    BY DEF Calling, Threads
  <2>2. /\ Cardinality(Calling(Receivers, "copy")) = 0
        /\ Cardinality(Calling(Senders, "store")) = 0
    BY <2>1, FS_EmptySet, Zenon
  <2> QED
    BY <1>3, <2>2 DEF TokenBalance
<1>5. RingHoldsBacklog /\ LeaveInOrder
  BY <1>3 DEF RingHoldsBacklog, LeaveInOrder, Ahead, Slots
<1> QED
  BY <1>1, <1>2, <1>4, <1>5 DEF IndInv

(* A step that touches neither the ring nor the histories.                 *)
LEMMA RingUntouched ==
  ASSUME MisreadOnlyAfterOverflow, RingHoldsBacklog, LeaveInOrder,
         UNCHANGED <<CurrentReadSlot, CurrentWriteSlot, NumberMessagesInQueue,
                     myQueue, history>>
  PROVE  /\ (MisreadOnlyAfterOverflow /\ RingHoldsBacklog /\ LeaveInOrder)'
         /\ Backlog' = Backlog
<1>1. Backlog' = Backlog
  BY DEF Backlog, history
<1>2. RingHoldsBacklog'
  BY <1>1 DEF RingHoldsBacklog, history, Ahead
<1> QED
  BY <1>1, <1>2 DEF MisreadOnlyAfterOverflow, LeaveInOrder, history

(* A step of one call between two stages at which it holds no token, that  *)
(* changes nothing shared.                                                 *)
LEMMA PureMove ==
  ASSUME IndInv, NEW t \in Threads, NEW from, NEW to,
         Goto(t, from, to), UNCHANGED <<control, myQueue, history>>,
         from \notin {"store", "copy"}, to \notin {"store", "copy"},
         ~InterfaceStatus => to \in {"idle", "addCheck", "getCheck"},
         (TypeOK /\ ArgOK)'
  PROVE  IndInv'
<1> USE DEF IndInv
<1>1. (MisreadOnlyAfterOverflow /\ RingHoldsBacklog /\ LeaveInOrder)'
      /\ Backlog' = Backlog
  BY RingUntouched DEF control
<1>2. DownMeansUnused'
  BY DEF DownMeansUnused, control, Goto, TypeOK
<1>3. TokenBalance'
  <2>1. /\ Cardinality(Calling(Receivers, "copy"))' = Cardinality(Calling(Receivers, "copy"))
        /\ Cardinality(Calling(Senders, "store"))' = Cardinality(Calling(Senders, "store"))
    BY CountMoves, QueueAssumption DEF TypeOK, Threads
  <2> QED
    BY <1>1, <2>1 DEF TokenBalance, control, history
<1> QED
  BY <1>1, <1>2, <1>3

----------------------------------------------------------------------------
(* One lemma per step that changes the shared data.                        *)

LEMMA OpenQueuePreserves == IndInv /\ OpenQueue => IndInv'
<1> SUFFICES ASSUME IndInv, OpenQueue PROVE IndInv'
  OBVIOUS
<1> USE DEF IndInv, OpenQueue
<1>1. getMsgSemaphore' = getMsgSemaphore /\ addMessageSemaphore' = addMessageSemaphore
  BY DEF DownMeansUnused
<1>2. TypeOK'
  BY <1>1 DEF TypeOK, history
<1>3. (MisreadOnlyAfterOverflow /\ RingHoldsBacklog /\ LeaveInOrder)'
      /\ Backlog' = Backlog
  BY RingUntouched
<1>4. TokenBalance'
  BY <1>1, <1>3 DEF TokenBalance, Calling, history
<1> QED
  BY <1>2, <1>3, <1>4 DEF ArgOK, DownMeansUnused

(* What TakeOut does to the ring when it is not empty.                     *)
LEMMA TakeOutKeepsRing ==
  ASSUME TypeOK, RingHoldsBacklog, LeaveInOrder, NEW how, TakeOut(how),
         ~misread, NumberMessagesInQueue # 0,
         UNCHANGED <<myQueue, CurrentWriteSlot, accepted, misread>>
  PROVE  (RingHoldsBacklog /\ LeaveInOrder)'
<1> USE QueueAssumption
<1>1. /\ Backlog \in 0..MaxMsgs /\ Backlog > 0
      /\ NumberMessagesInQueue = Backlog
  BY DEF RingHoldsBacklog
<1>2. /\ Len(removed') = Len(removed) + 1 /\ Len(removed) \in Nat /\ Len(accepted) \in Nat
      /\ \A i \in 1..Len(removed) : removed'[i] = removed[i]
      /\ removed'[Len(removed) + 1].msg = myQueue[CurrentReadSlot]
  BY DEF TakeOut, Unload, TypeOK
<1>3. Backlog' = Backlog - 1
  BY <1>2 DEF Backlog
<1>4. NumberMessagesInQueue' = Backlog'
  BY <1>1, <1>3, CountWraps DEF TakeOut, Unload, TypeOK
<1>5. CurrentWriteSlot' = Ahead(CurrentReadSlot', Backlog')
  <2>1. CurrentWriteSlot = Ahead(CurrentReadSlot, (Backlog - 1) + 1)
    BY <1>1 DEF RingHoldsBacklog
  <2>2. Backlog - 1 \in 0..(MaxMsgs - 1)
    BY <1>1
  <2> QED
    BY <1>3, <2>1, <2>2, AheadWalks DEF TakeOut, Unload, TypeOK
<1>6. ASSUME NEW i \in 0..(Backlog' - 1)
      PROVE  myQueue'[Ahead(CurrentReadSlot', i)] = accepted'[Len(removed') + i + 1]
  <2>1. i \in 0..(MaxMsgs - 1) /\ i + 1 \in 0..(Backlog - 1)
    BY <1>1, <1>3
  <2>2. Ahead(CurrentReadSlot', i) = Ahead(CurrentReadSlot, i + 1)
    BY <2>1, AheadWalks DEF TakeOut, Unload, TypeOK
  <2>3. myQueue[Ahead(CurrentReadSlot, i + 1)] = accepted[Len(removed) + (i + 1) + 1]
    BY <2>1 DEF RingHoldsBacklog
  <2> QED
    BY <1>2, <2>1, <2>2, <2>3
<1>7. RingHoldsBacklog'
  <2>1. Backlog' \in 0..MaxMsgs
    BY <1>1, <1>3
  <2>2. Ahead(CurrentReadSlot, Backlog)' = Ahead(CurrentReadSlot', Backlog')
    BY DEF Ahead
  <2>3. \A i : Ahead(CurrentReadSlot, i)' = Ahead(CurrentReadSlot', i)
    BY DEF Ahead
  <2> QED
    BY <1>4, <1>5, <1>6, <2>1, <2>2, <2>3 DEF RingHoldsBacklog
<1>8. LeaveInOrder'
  <2>1. myQueue[CurrentReadSlot] = accepted[Len(removed) + 1]
    BY <1>1, <1>2, AheadWalks DEF RingHoldsBacklog, TypeOK
  <2>2. Len(removed) + 1 <= Len(accepted)
    BY <1>1, <1>2 DEF Backlog
  <2> QED
    BY <1>2, <2>1, <2>2 DEF LeaveInOrder
<1> QED
  BY <1>7, <1>8

(* TakeOut keeps the types.                                                *)
LEMMA TakeOutTypes ==
  ASSUME TypeOK, NEW how \in {"received", "dropped"}, TakeOut(how)
  PROVE  /\ NumberMessagesInQueue' \in 0..(Modulus - 1)
         /\ CurrentReadSlot' \in Slots
         /\ addMessageSemaphore' \in Nat
         /\ removed' \in Seq([msg : Messages \cup {NoMsg}, how : {"received", "dropped"}])
         /\ accepted' = accepted => Backlog' = Backlog - 1
<1>1. myQueue[CurrentReadSlot] \in Messages \cup {NoMsg}
  BY DEF TypeOK
<1>2. [msg |-> myQueue[CurrentReadSlot], how |-> how]
        \in [msg : Messages \cup {NoMsg}, how : {"received", "dropped"}]
  BY <1>1
<1>3. removed' \in Seq([msg : Messages \cup {NoMsg}, how : {"received", "dropped"}])
  BY <1>2 DEF TakeOut, Unload, TypeOK
<1>4. Len(removed') = Len(removed) + 1 /\ Len(removed) \in Nat /\ Len(accepted) \in Nat
  BY DEF TakeOut, Unload, TypeOK
<1>5. accepted' = accepted => Backlog' = Backlog - 1
  BY <1>4 DEF Backlog
<1> QED
  BY <1>3, <1>5, CountWraps, NextSlotWraps DEF TakeOut, Unload, TypeOK

LEMMA MakeRoomPreserves ==
  ASSUME IndInv, NEW s \in Senders, MakeRoom(s)
  PROVE  IndInv'
<1> USE DEF IndInv
<1>1. Goto(s, "makeRoom", "addWait") /\ s \in Threads
  BY DEF MakeRoom, Threads
<1>2. /\ Cardinality(Calling(Receivers, "copy"))' = Cardinality(Calling(Receivers, "copy"))
      /\ Cardinality(Calling(Senders, "store"))' = Cardinality(Calling(Senders, "store"))
  BY <1>1, CountMoves, QueueAssumption DEF TypeOK, Threads
<1>3. InterfaceStatus
  BY <1>1 DEF DownMeansUnused, Goto
<1>4. ArgOK' /\ DownMeansUnused'
  BY <1>1, <1>3 DEF ArgOK, DownMeansUnused, MakeRoom, Goto, TypeOK
<1>5. pc' \in [Threads -> {"idle", "addCheck", "makeRoom", "addWait", "store",
                          "getCheck", "getWait", "copy"}]
  BY <1>1 DEF Goto, TypeOK
<1>6. CASE QueueFull
  <2>1. TakeOut("dropped") /\ drops' = drops + 1
    BY <1>6 DEF MakeRoom
  <2>2. TypeOK'
    BY <1>5, <2>1, TakeOutTypes DEF MakeRoom, TypeOK
  <2>3. NumberMessagesInQueue # 0
    BY <1>6, QueueAssumption DEF QueueFull
  <2>4. (RingHoldsBacklog /\ LeaveInOrder)'
    <3>1. CASE misread
      BY <3>1 DEF RingHoldsBacklog, LeaveInOrder, MakeRoom
    <3>2. CASE ~misread
      BY <2>1, <2>3, <3>2, TakeOutKeepsRing DEF MakeRoom
    <3> QED
      BY <3>1, <3>2
  <2>5. MisreadOnlyAfterOverflow'
    BY <2>1 DEF MisreadOnlyAfterOverflow, TypeOK
  <2>6. TokenBalance'
    <3>1. Backlog' = Backlog - 1 /\ addMessageSemaphore' = addMessageSemaphore + 1
          /\ getMsgSemaphore' = getMsgSemaphore
      BY <2>1, TakeOutTypes DEF MakeRoom, TakeOut, Unload
    <3>2. Backlog \in Int
      BY DEF Backlog, TypeOK
    <3>3. /\ Cardinality(Calling(Receivers, "copy")) \in Nat
          /\ Cardinality(Calling(Senders, "store")) \in Nat
      BY <1>1, CountMoves, QueueAssumption DEF TypeOK, Threads
    <3> QED
      BY <1>2, <2>1, <3>1, <3>2, <3>3 DEF TokenBalance, TypeOK
  <2> QED
    BY <1>4, <2>2, <2>4, <2>5, <2>6
<1>7. CASE ~QueueFull
  <2>1. UNCHANGED <<control, myQueue, arg, calls, history>>
    BY <1>7 DEF MakeRoom, control, history
  <2>2. TypeOK'
    BY <1>5, <2>1 DEF TypeOK, control, history
  <2> QED
    BY <1>1, <1>3, <1>4, <2>1, <2>2, PureMove
<1> QED
  BY <1>6, <1>7

LEMMA TakeRoomPreserves ==
  ASSUME IndInv, NEW s \in Senders, TakeRoom(s)
  PROVE  IndInv'
<1> USE DEF IndInv
<1>1. Goto(s, "addWait", "store") /\ s \in Threads
  BY DEF TakeRoom, Threads
<1>2. /\ Cardinality(Calling(Receivers, "copy"))' = Cardinality(Calling(Receivers, "copy"))
      /\ Cardinality(Calling(Senders, "store"))' = Cardinality(Calling(Senders, "store")) + 1
      /\ Cardinality(Calling(Senders, "store")) \in Nat
  BY <1>1, CountMoves, QueueAssumption DEF TypeOK, Threads
<1>3. InterfaceStatus
  BY <1>1 DEF DownMeansUnused, Goto
<1>4. ArgOK' /\ DownMeansUnused'
  BY <1>1, <1>3 DEF ArgOK, DownMeansUnused, TakeRoom, Goto, TypeOK
<1>5. TypeOK'
  BY <1>1 DEF TypeOK, TakeRoom, Goto, history
<1>6. (MisreadOnlyAfterOverflow /\ RingHoldsBacklog /\ LeaveInOrder)'
      /\ Backlog' = Backlog
  BY RingUntouched DEF TakeRoom
<1>7. TokenBalance'
  <2>1. Backlog \in Int
    BY DEF Backlog, TypeOK
  <2> QED
    BY <1>2, <1>6, <2>1 DEF TokenBalance, TakeRoom, TypeOK, history
<1> QED
  BY <1>4, <1>5, <1>6, <1>7

LEMMA TakeMsgPreserves ==
  ASSUME IndInv, NEW r \in Receivers, TakeMsg(r)
  PROVE  IndInv'
<1> USE DEF IndInv
<1>1. Goto(r, "getWait", "copy") /\ r \in Threads /\ r \notin Senders
  BY QueueAssumption DEF TakeMsg, Threads
<1>2. /\ Cardinality(Calling(Senders, "store"))' = Cardinality(Calling(Senders, "store"))
      /\ Cardinality(Calling(Receivers, "copy"))' = Cardinality(Calling(Receivers, "copy")) + 1
      /\ Cardinality(Calling(Receivers, "copy")) \in Nat
  BY <1>1, CountMoves, QueueAssumption DEF TypeOK, Threads
<1>3. InterfaceStatus
  BY <1>1 DEF DownMeansUnused, Goto
<1>4. ArgOK' /\ DownMeansUnused'
  BY <1>1, <1>3 DEF ArgOK, DownMeansUnused, TakeMsg, Goto, TypeOK
<1>5. TypeOK'
  BY <1>1 DEF TypeOK, TakeMsg, Goto, history
<1>6. (MisreadOnlyAfterOverflow /\ RingHoldsBacklog /\ LeaveInOrder)'
      /\ Backlog' = Backlog
  BY RingUntouched DEF TakeMsg
<1>7. TokenBalance'
  <2>1. Backlog \in Int
    BY DEF Backlog, TypeOK
  <2> QED
    BY <1>2, <1>6, <2>1 DEF TokenBalance, TakeMsg, TypeOK, history
<1> QED
  BY <1>4, <1>5, <1>6, <1>7

LEMMA StorePreserves ==
  ASSUME IndInv, NEW s \in Senders, Store(s)
  PROVE  IndInv'
<1> USE QueueAssumption DEF IndInv
<1>1. Goto(s, "store", "idle") /\ s \in Threads /\ s \notin Receivers
  BY DEF Store, PutIn, Threads
<1>2. /\ Cardinality(Calling(Receivers, "copy"))' = Cardinality(Calling(Receivers, "copy"))
      /\ Cardinality(Calling(Senders, "store"))' = Cardinality(Calling(Senders, "store")) - 1
      /\ Cardinality(Calling(Senders, "store")) > 0
      /\ Cardinality(Calling(Senders, "store")) \in Nat
      /\ Cardinality(Calling(Receivers, "copy")) \in Nat
  BY <1>1, CountMoves DEF TypeOK, Threads
<1>3. InterfaceStatus
  BY <1>1 DEF DownMeansUnused, Goto
<1>4. arg[s] \in Messages
  BY <1>1 DEF ArgOK, Goto
<1>5. ArgOK' /\ DownMeansUnused'
  BY <1>1, <1>3 DEF ArgOK, DownMeansUnused, Store, PutIn, Goto, TypeOK
<1>6. /\ Len(accepted') = Len(accepted) + 1 /\ Len(accepted) \in Nat /\ Len(removed) \in Nat
      /\ \A i \in 1..Len(accepted) : accepted'[i] = accepted[i]
      /\ accepted'[Len(accepted) + 1] = arg[s]
      /\ accepted' \in Seq(Messages)
  BY <1>4 DEF Store, PutIn, TypeOK
<1>7. Backlog' = Backlog + 1 /\ Backlog \in Int
  BY <1>6 DEF Store, PutIn, Backlog
<1>8. TypeOK'
  <2>1. pc' \in [Threads -> {"idle", "addCheck", "makeRoom", "addWait", "store",
                            "getCheck", "getWait", "copy"}]
    BY <1>1 DEF Goto, TypeOK
  <2>2. NumberMessagesInQueue' \in 0..(Modulus - 1) /\ CurrentWriteSlot' \in Slots
    BY CountWraps, NextSlotWraps DEF Store, PutIn, TypeOK
  <2> QED
    BY <1>4, <1>6, <2>1, <2>2 DEF Store, PutIn, TypeOK
<1>9. TokenBalance'
  <2>1. /\ getMsgSemaphore' = getMsgSemaphore + 1 /\ getMsgSemaphore \in Nat
        /\ addMessageSemaphore' = addMessageSemaphore /\ addMessageSemaphore \in Nat
        /\ drops' = drops /\ drops \in Nat
    BY DEF Store, PutIn, TypeOK
  <2>2. /\ getMsgSemaphore + Cardinality(Calling(Receivers, "copy")) = Backlog + drops
        /\ addMessageSemaphore + Cardinality(Calling(Senders, "store")) + Backlog = MaxMsgs
    BY DEF TokenBalance
  <2>3. getMsgSemaphore' + Cardinality(Calling(Receivers, "copy"))' = Backlog' + drops'
    BY <1>2, <1>7, <2>1, <2>2
  <2>4. addMessageSemaphore' + Cardinality(Calling(Senders, "store"))' + Backlog' = MaxMsgs
    BY <1>2, <1>7, <2>1, <2>2
  <2> QED
    BY <2>3, <2>4 DEF TokenBalance
<1>10. MisreadOnlyAfterOverflow'
  BY DEF MisreadOnlyAfterOverflow, Store, PutIn
<1>11. LeaveInOrder'
  BY <1>6 DEF LeaveInOrder, Store, PutIn
<1>12. RingHoldsBacklog'
  <2> SUFFICES ASSUME ~misread
               PROVE  RingHoldsBacklog'
    BY DEF RingHoldsBacklog, Store, PutIn
  <2>1. Backlog \in 0..(MaxMsgs - 1)
    BY <1>2, <1>7 DEF TokenBalance, RingHoldsBacklog, TypeOK
  <2>2. Backlog' \in 0..MaxMsgs
    BY <1>7, <2>1
  <2>3. NumberMessagesInQueue' = Backlog'
    BY <1>7, <2>1, CountWraps DEF RingHoldsBacklog, Store, PutIn, TypeOK
  <2>4. CurrentWriteSlot = Ahead(CurrentReadSlot, Backlog)
    BY DEF RingHoldsBacklog
  <2>5. CurrentWriteSlot' = Ahead(CurrentReadSlot', Backlog')
    BY <1>7, <2>1, <2>4, AheadWalks DEF Store, PutIn, TypeOK
  <2>6. ASSUME NEW i \in 0..(Backlog' - 1)
        PROVE  myQueue'[Ahead(CurrentReadSlot', i)] = accepted'[Len(removed') + i + 1]
    <3>1. i \in 0..(MaxMsgs - 1) /\ Ahead(CurrentReadSlot, i) \in Slots
      BY <1>7, <2>1, AheadWalks DEF TypeOK
    <3>2. CASE i = Backlog
      <4>1. myQueue'[Ahead(CurrentReadSlot', i)] = arg[s]
        BY <2>4, <3>1, <3>2 DEF Store, PutIn, TypeOK
      <4>2. Len(removed) + i + 1 = Len(accepted) + 1
        BY <1>6, <3>2 DEF Backlog
      <4> QED
        BY <1>6, <4>1, <4>2 DEF Store, PutIn
    <3>3. CASE i # Backlog
      <4>1. i \in 0..(Backlog - 1)
        BY <1>7, <2>1, <3>3
      <4>2. Ahead(CurrentReadSlot, i) # CurrentWriteSlot
        BY <2>1, <2>4, <3>1, <3>3, AheadWalks DEF TypeOK
      <4>3. myQueue'[Ahead(CurrentReadSlot', i)] = myQueue[Ahead(CurrentReadSlot, i)]
        BY <3>1, <4>2 DEF Store, PutIn, TypeOK
      <4>4. Len(removed) + i + 1 \in 1..Len(accepted)
        BY <1>6, <4>1 DEF Backlog
      <4> QED
        BY <1>6, <4>1, <4>3, <4>4 DEF RingHoldsBacklog, Store, PutIn
    <3> QED
      BY <3>2, <3>3
  <2>7. /\ Ahead(CurrentReadSlot, Backlog)' = Ahead(CurrentReadSlot', Backlog')
        /\ \A i : Ahead(CurrentReadSlot, i)' = Ahead(CurrentReadSlot', i)
    BY DEF Ahead
  <2> QED
    BY <2>2, <2>3, <2>5, <2>6, <2>7 DEF RingHoldsBacklog
<1> QED
  BY <1>5, <1>8, <1>9, <1>10, <1>11, <1>12

LEMMA CopyPreserves ==
  ASSUME IndInv, NEW r \in Receivers, Copy(r)
  PROVE  IndInv'
<1> USE QueueAssumption DEF IndInv
<1>1. Goto(r, "copy", "idle") /\ r \in Threads /\ r \notin Senders
  BY DEF Copy, Threads
<1>2. /\ Cardinality(Calling(Senders, "store"))' = Cardinality(Calling(Senders, "store"))
      /\ Cardinality(Calling(Receivers, "copy"))' = Cardinality(Calling(Receivers, "copy")) - 1
      /\ Cardinality(Calling(Receivers, "copy")) > 0
      /\ Cardinality(Calling(Senders, "store")) \in Nat
      /\ Cardinality(Calling(Receivers, "copy")) \in Nat
  BY <1>1, CountMoves DEF TypeOK, Threads
<1>3. InterfaceStatus
  BY <1>1 DEF DownMeansUnused, Goto
<1>4. ArgOK' /\ DownMeansUnused'
  BY <1>1, <1>3 DEF ArgOK, DownMeansUnused, Copy, Goto, TypeOK
<1>5. TakeOut("received") /\ Backlog' = Backlog - 1 /\ Backlog \in Int
  BY TakeOutTypes DEF Copy, Backlog, TypeOK
<1>6. TypeOK'
  <2>1. pc' \in [Threads -> {"idle", "addCheck", "makeRoom", "addWait", "store",
                            "getCheck", "getWait", "copy"}]
    BY <1>1 DEF Goto, TypeOK
  <2> QED
    BY <1>5, <2>1, TakeOutTypes DEF Copy, TypeOK
<1>7. TokenBalance'
  <2>1. /\ getMsgSemaphore' = getMsgSemaphore /\ getMsgSemaphore \in Nat
        /\ addMessageSemaphore' = addMessageSemaphore + 1 /\ addMessageSemaphore \in Nat
        /\ drops' = drops /\ drops \in Nat
    BY DEF Copy, TakeOut, Unload, TypeOK
  <2> QED
    BY <1>2, <1>5, <2>1 DEF TokenBalance
<1>8. MisreadOnlyAfterOverflow'
  <2>1. ~misread /\ NumberMessagesInQueue = 0 => drops > 0
    BY <1>2, <1>5 DEF RingHoldsBacklog, TokenBalance, TypeOK
  <2> QED
    BY <2>1 DEF MisreadOnlyAfterOverflow, Copy
<1>9. (RingHoldsBacklog /\ LeaveInOrder)'
  <2>1. CASE misread'
    BY <2>1 DEF RingHoldsBacklog, LeaveInOrder
  <2>2. CASE ~misread'
    <3>1. ~misread /\ NumberMessagesInQueue # 0 /\ misread' = misread
      BY <2>2 DEF Copy, TypeOK
    <3> QED
      BY <1>5, <3>1, TakeOutKeepsRing DEF Copy
  <2> QED
    BY <2>1, <2>2
<1> QED
  BY <1>4, <1>6, <1>7, <1>8, <1>9

LEMMA StepPreserves == IndInv /\ [Next]_vars => IndInv'
<1> SUFFICES ASSUME IndInv, [Next]_vars PROVE IndInv'
  OBVIOUS
<1>1. CASE OpenQueue
  BY <1>1, OpenQueuePreserves
<1>2. ASSUME NEW s \in Senders, AddCall(s)
      PROVE  IndInv'
  <2>1. Goto(s, "idle", "addCheck") /\ s \in Threads
    BY <1>2 DEF AddCall, Threads
  <2>2. calls + 1 \in Messages
    BY <1>2, QueueAssumption DEF AddCall, Messages, IndInv, TypeOK
  <2>3. TypeOK'
    BY <1>2, <2>1, <2>2 DEF AddCall, Goto, IndInv, TypeOK, Messages, control, history
  <2>4. ArgOK'
    BY <1>2, <2>1, <2>2 DEF AddCall, Goto, IndInv, TypeOK, ArgOK
  <2> QED
    BY <1>2, <2>1, <2>3, <2>4, PureMove DEF AddCall
<1>3. ASSUME NEW t \in Threads, NEW from, NEW to,
             Goto(t, from, to), UNCHANGED <<control, myQueue, arg, calls, history>>,
             from \notin {"store", "copy", "idle"} \/ (from = "idle" /\ to = "getCheck" /\ t \in Receivers),
             to \in {"idle", "makeRoom", "getCheck", "getWait"},
             ~InterfaceStatus => to \in {"idle", "getCheck"}
      PROVE  IndInv'
  <2>1. TypeOK'
    BY <1>3 DEF Goto, IndInv, TypeOK, control, history
  <2>2. ArgOK'
    BY <1>3, QueueAssumption DEF Goto, IndInv, TypeOK, ArgOK, Threads
  <2>3. /\ from \notin {"store", "copy"} /\ to \notin {"store", "copy"}
        /\ ~InterfaceStatus => to \in {"idle", "addCheck", "getCheck"}
    BY <1>3
  <2> QED
    BY <1>3, <2>1, <2>2, <2>3, PureMove
<1>4. ASSUME NEW s \in Senders, AddCheckState(s)
      PROVE  IndInv'
  BY <1>3, <1>4 DEF AddCheckState, CheckState, Threads
<1>5. ASSUME NEW s \in Senders, AddTimeout(s)
      PROVE  IndInv'
  BY <1>3, <1>5 DEF AddTimeout, Threads
<1>6. ASSUME NEW r \in Receivers, GetCall(r)
      PROVE  IndInv'
  BY <1>3, <1>6 DEF GetCall, Threads
<1>7. ASSUME NEW r \in Receivers, GetCheckState(r)
      PROVE  IndInv'
  BY <1>3, <1>7 DEF GetCheckState, CheckState, Threads
<1>8. ASSUME NEW r \in Receivers, GetTimeout(r)
      PROVE  IndInv'
  BY <1>3, <1>8 DEF GetTimeout, Threads
<1>9. CASE UNCHANGED vars
  BY <1>9 DEF vars, control, history, IndInv, TypeOK, ArgOK, DownMeansUnused,
     TokenBalance, MisreadOnlyAfterOverflow, RingHoldsBacklog, LeaveInOrder,
     Backlog, Calling, Ahead
<1> QED
  BY <1>1, <1>2, <1>4, <1>5, <1>6, <1>7, <1>8, <1>9, MakeRoomPreserves,
     TakeRoomPreserves, StorePreserves, TakeMsgPreserves, CopyPreserves
     DEF Next, SenderStep, ReceiverStep

(* The inductive invariant holds in every state the queue reaches.         *)
THEOREM Invariance == Spec => []IndInv
<1>1. Init => IndInv
  BY InitEstablishes
<1>2. IndInv /\ [Next]_vars => IndInv'
  BY StepPreserves
<1> QED
  BY <1>1, <1>2, PTL DEF Spec

(* Type correctness.                                                       *)
THEOREM TypeCorrect == Spec => []TypeOK
BY Invariance, PTL DEF IndInv

(* The semaphores' tokens account for every slot at every moment, whatever *)
(* calls are in progress.                                                  *)
THEOREM TokensBalance == Spec => []TokenBalance
BY Invariance, PTL DEF IndInv

(* A receiver reads an empty queue only after an overflow.                 *)
THEOREM ExactUntilOverflow == Spec => []MisreadOnlyAfterOverflow
BY Invariance, PTL DEF IndInv

(* Until a misread the ring holds the backlog, in order and unharmed.      *)
THEOREM RingCorrect == Spec => []RingHoldsBacklog
BY Invariance, PTL DEF IndInv

(* Until a misread messages leave once each, in the order of acceptance.   *)
THEOREM OrderKept == Spec => []LeaveInOrder
BY Invariance, PTL DEF IndInv

----------------------------------------------------------------------------
(* Refinement.  What waits in the ring is what was accepted and has not    *)
(* left.                                                                   *)
LEMMA WaitingIsBacklog ==
  IndInv /\ ~misread =>
    /\ Waiting \in Seq(Messages)
    /\ Len(Waiting) = Backlog
    /\ Waiting = [i \in 1..Backlog |-> accepted[Len(removed) + i]]
<1> SUFFICES ASSUME IndInv, ~misread
             PROVE  /\ Waiting \in Seq(Messages)
                    /\ Len(Waiting) = Backlog
                    /\ Waiting = [i \in 1..Backlog |-> accepted[Len(removed) + i]]
  OBVIOUS
<1> USE DEF IndInv
<1>1. Backlog \in Nat /\ Len(removed) \in Nat /\ Len(accepted) \in Nat
      /\ Len(accepted) = Len(removed) + Backlog
  BY QueueAssumption DEF RingHoldsBacklog, TypeOK, Backlog
<1>2. ASSUME NEW i \in 1..Backlog
      PROVE  /\ myQueue[Ahead(CurrentReadSlot, i - 1)] = accepted[Len(removed) + i]
             /\ accepted[Len(removed) + i] \in Messages
  <2>1. i - 1 \in 0..(Backlog - 1) /\ Len(removed) + (i - 1) + 1 = Len(removed) + i
        /\ Len(removed) + i \in 1..Len(accepted)
    BY <1>1
  <2> QED
    BY <2>1 DEF RingHoldsBacklog, TypeOK
<1>3. Waiting = [i \in 1..Backlog |-> accepted[Len(removed) + i]]
  BY <1>2 DEF Waiting
<1>4. Waiting \in [1..Backlog -> Messages]
  BY <1>2, <1>3
<1>5. Waiting \in Seq(Messages) /\ Len(Waiting) = Backlog
  <2> HIDE DEF IndInv
  <2>1. ASSUME NEW f \in [1..Backlog -> Messages]
        PROVE  f \in Seq(Messages) /\ Len(f) = Backlog
    BY <1>1
  <2> QED
    BY <1>4, <2>1
<1> QED
  BY <1>3, <1>5

(* The same of the state after a step.                                     *)
LEMMA WaitingIsBacklogNext ==
  IndInv' /\ ~misread' =>
    /\ Waiting' \in Seq(Messages)
    /\ Len(Waiting') = Backlog'
    /\ Waiting' = [i \in 1..Backlog' |-> accepted'[Len(removed') + i]]
<1>1. (IndInv /\ ~misread =>
         /\ Waiting \in Seq(Messages)
         /\ Len(Waiting) = Backlog
         /\ Waiting = [i \in 1..Backlog |-> accepted[Len(removed) + i]])'
  BY WaitingIsBacklog, PTL
<1> QED
  BY <1>1

(* A step that takes a message out, seen from outside.                     *)
LEMMA TakeOutIsTail ==
  ASSUME IndInv, IndInv', ~misread, ~misread', NEW how, TakeOut(how),
         NumberMessagesInQueue # 0, UNCHANGED accepted
  PROVE  /\ Waiting # <<>>
         /\ Waiting' = Tail(Waiting)
         /\ removed' = Append(removed, [msg |-> Head(Waiting), how |-> how])
<1> USE DEF IndInv
<1>1. /\ Backlog \in Nat /\ Backlog > 0 /\ Len(removed) \in Nat
      /\ Len(removed') = Len(removed) + 1 /\ Backlog' = Backlog - 1
  BY QueueAssumption DEF RingHoldsBacklog, TypeOK, Backlog, TakeOut, Unload
<1>2. /\ Waiting \in Seq(Messages) /\ Len(Waiting) = Backlog
      /\ Waiting = [i \in 1..Backlog |-> accepted[Len(removed) + i]]
  BY WaitingIsBacklog
<1>3. /\ Waiting' \in Seq(Messages) /\ Len(Waiting') = Backlog'
      /\ Waiting' = [i \in 1..Backlog' |-> accepted[Len(removed') + i]]
  BY WaitingIsBacklogNext
<1>4. Waiting # <<>>
  BY <1>1, <1>2
<1>5. Head(Waiting) = myQueue[CurrentReadSlot]
  <2>1. Head(Waiting) = accepted[Len(removed) + 1]
    BY <1>1, <1>2
  <2>2. Ahead(CurrentReadSlot, 0) = CurrentReadSlot
    BY AheadWalks, QueueAssumption DEF TypeOK
  <2>3. 0 \in 0..(Backlog - 1) /\ Len(removed) + 0 + 1 = Len(removed) + 1
    BY <1>1
  <2>4. myQueue[Ahead(CurrentReadSlot, 0)] = accepted[Len(removed) + 1]
    BY <2>3 DEF RingHoldsBacklog
  <2> QED
    BY <2>1, <2>2, <2>4
<1>6. Waiting' = Tail(Waiting)
  <2>1. /\ Tail(Waiting) \in Seq(Messages) /\ Len(Tail(Waiting)) = Len(Waiting) - 1
        /\ \A i \in 1..Len(Tail(Waiting)) : Tail(Waiting)[i] = Waiting[i + 1]
    BY <1>2, <1>4, HeadTailProperties
  <2>2. Len(Waiting') = Len(Tail(Waiting))
    BY <1>1, <1>2, <1>3, <2>1
  <2>3. \A i \in 1..Len(Waiting') : Waiting'[i] = Waiting[i + 1]
    BY <1>1, <1>2, <1>3
  <2> QED
    BY <1>3, <2>1, <2>2, <2>3, SeqEqual
<1> QED
  BY <1>4, <1>5, <1>6 DEF TakeOut, Unload

LEMMA StepKeepsPromise ==
  IndInv /\ IndInv' /\ [Next]_vars => [Promise!Next]_(Promise!vars)
<1> SUFFICES ASSUME IndInv, IndInv', [Next]_vars
             PROVE  Promise!Next \/ UNCHANGED <<Waiting, removed, drops > 0, misread>>
  BY DEF Promise!vars
<1>1. CASE misread
  <2>1. misread'
    BY <1>1 DEF Next, vars, history, SenderStep, ReceiverStep, OpenQueue, AddCall,
       AddCheckState, CheckState, MakeRoom, TakeRoom, AddTimeout, Store, PutIn, GetCall,
       GetCheckState, TakeMsg, GetTimeout, Copy
  <2> QED
    BY <1>1, <2>1 DEF Promise!Next, Promise!Unspecified
<1>2. CASE ~misread /\ UNCHANGED <<CurrentReadSlot, myQueue, history>>
  BY <1>2 DEF Waiting, Backlog, Ahead, history
<1>3. ASSUME ~misread, NEW s \in Senders, MakeRoom(s)
      PROVE  Promise!Drop \/ UNCHANGED <<CurrentReadSlot, myQueue, history>>
  <2>1. CASE ~QueueFull
    BY <1>3, <2>1 DEF MakeRoom, history
  <2>2. CASE QueueFull
    <3>1. TakeOut("dropped") /\ drops' = drops + 1 /\ UNCHANGED <<accepted, misread>>
      BY <1>3, <2>2 DEF MakeRoom
    <3>2. NumberMessagesInQueue # 0 /\ Len(Waiting) = MaxMsgs
      BY <1>3, <2>2, WaitingIsBacklog, QueueAssumption
         DEF QueueFull, IndInv, RingHoldsBacklog
    <3>3. /\ Waiting' = Tail(Waiting)
          /\ removed' = Append(removed, [msg |-> Head(Waiting), how |-> "dropped"])
      BY <1>3, <3>1, <3>2, TakeOutIsTail
    <3>4. (drops > 0)' = TRUE
      BY <3>1 DEF IndInv, TypeOK
    <3> QED
      BY <1>3, <3>1, <3>2, <3>3, <3>4 DEF Promise!Drop, Promise!Leave
  <2> QED
    BY <2>1, <2>2
<1>4. ASSUME ~misread, NEW s \in Senders, Store(s)
      PROVE  \E m \in Messages : Promise!Put(m)
  <2>1. arg[s] \in Messages
    BY <1>4 DEF IndInv, ArgOK, Store, PutIn, Goto
  <2>2. UNCHANGED <<removed, drops, misread>> /\ accepted' = Append(accepted, arg[s])
        /\ accepted \in Seq(Messages) /\ Len(removed) \in Nat
    BY <1>4 DEF Store, PutIn, IndInv, TypeOK
  <2>3. /\ Waiting \in Seq(Messages) /\ Len(Waiting) = Backlog
        /\ Waiting = [i \in 1..Backlog |-> accepted[Len(removed) + i]]
    BY <1>4, WaitingIsBacklog
  <2>4. /\ Waiting' \in Seq(Messages) /\ Len(Waiting') = Backlog'
        /\ Waiting' = [i \in 1..Backlog' |-> accepted'[Len(removed) + i]]
    BY <1>4, <2>2, WaitingIsBacklogNext
  <2>5. Backlog' = Backlog + 1 /\ Backlog \in Nat /\ Len(accepted) = Len(removed) + Backlog
    <3>1. Backlog \in Nat
      BY <1>4, QueueAssumption DEF IndInv, RingHoldsBacklog
    <3>2. Len(accepted') = Len(accepted) + 1 /\ Len(accepted) \in Nat /\ removed' = removed
      BY <2>1, <2>2
    <3> QED
      BY <2>2, <3>1, <3>2 DEF Backlog
  <2>6. Len(Waiting) < MaxMsgs
    BY <1>4, <2>2, <2>3, <2>5, QueueAssumption DEF IndInv, RingHoldsBacklog
  <2>7. Waiting' = Append(Waiting, arg[s])
    BY <2>1, <2>2, <2>3, <2>4, <2>5
  <2>8. Promise!Put(arg[s])
    BY <1>4, <2>2, <2>6, <2>7 DEF Promise!Put
  <2> QED
    BY <2>1, <2>8
<1>5. ASSUME ~misread, NEW r \in Receivers, Copy(r)
      PROVE  Promise!Take \/ Promise!Misread
  <2>1. TakeOut("received") /\ UNCHANGED <<accepted, drops>>
    BY <1>5 DEF Copy
  <2>2. CASE NumberMessagesInQueue = 0
    <3>1. misread' /\ drops > 0
      BY <1>5, <2>1, <2>2 DEF Copy, IndInv, MisreadOnlyAfterOverflow
    <3>2. Waiting = <<>>
      <4>1. Len(Waiting) = 0 /\ Waiting \in Seq(Messages)
        BY <1>5, <2>2, WaitingIsBacklog DEF IndInv, RingHoldsBacklog
      <4> QED
        BY <4>1
    <3> QED
      BY <3>1, <3>2 DEF Promise!Misread
  <2>3. CASE NumberMessagesInQueue # 0
    <3>1. ~misread' /\ misread' = misread
      BY <1>5, <2>3 DEF Copy, IndInv, TypeOK
    <3>2. /\ Waiting # <<>>
          /\ Waiting' = Tail(Waiting)
          /\ removed' = Append(removed, [msg |-> Head(Waiting), how |-> "received"])
      BY <1>5, <2>1, <2>3, <3>1, TakeOutIsTail
    <3> QED
      BY <1>5, <2>1, <3>1, <3>2 DEF Promise!Take, Promise!Leave
  <2> QED
    BY <2>2, <2>3
<1>6. CASE ~misread /\ ~UNCHANGED <<CurrentReadSlot, myQueue, history>>
  <2>1. \/ \E s \in Senders : MakeRoom(s) \/ Store(s)
        \/ \E r \in Receivers : Copy(r)
    BY <1>6 DEF Next, vars, control, history, SenderStep, ReceiverStep, OpenQueue,
       AddCall, AddCheckState, CheckState, TakeRoom, AddTimeout, GetCall,
       GetCheckState, TakeMsg, GetTimeout
  <2> QED
    BY <1>3, <1>4, <1>5, <1>6, <2>1 DEF Promise!Next
<1> QED
  BY <1>1, <1>2, <1>6

(* The queue implements the drop-oldest FIFO of module LossyFifo.          *)
THEOREM Refinement == Spec => KeepsPromise
<1>1. Init => Promise!Init
  <2> SUFFICES ASSUME Init PROVE Promise!Init
    OBVIOUS
  <2>1. Len(Waiting) = 0 /\ Waiting \in Seq(Messages)
    BY InitEstablishes, WaitingIsBacklog DEF Init, Backlog
  <2>2. Waiting = <<>>
    BY <2>1
  <2> QED
    BY <2>2 DEF Init, Promise!Init
<1>2. IndInv /\ IndInv' /\ [Next]_vars => [Promise!Next]_(Promise!vars)
  BY StepKeepsPromise
<1> QED
  BY <1>1, <1>2, Invariance, PTL DEF Spec, KeepsPromise, Promise!Spec
=============================================================================
