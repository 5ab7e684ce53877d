------------------------ MODULE QueueLifecycleProofs ------------------------
(***************************************************************************)
(* The three safety invariants of QueueLifecycle, for any bounds: what the *)
(* two processes share when they have come up on the same control data.    *)
(* The inductive invariant IInv has four parts.  Base: which objects a     *)
(* process holds at each point of its constructor and destructor.  Names:  *)
(* while no name was torn, control data stands for one data object.        *)
(* Together: two processes attached to the same control data have an       *)
(* interface that is up.  Balanced: tokens and messages agree, modulo the  *)
(* width of the count, from the moment control data is constructed.        *)
(***************************************************************************)
EXTENDS QueueLifecycle, TLAPS

Data(p) == my[p]["data"]
Ctl(p) == my[p]["control"]

PcStates == {"gone", "create", "size", "open", "map", "construct", "announce",
             "up", "room", "add", "store", "wait", "copy", "down", "remove", "failed"}
Counts == 0..(Modulus - 1)
ControlData == [InterfaceStatus : BOOLEAN, getMsgSemaphore : Int,
                addMessageSemaphore : Int, NumberMessagesInQueue : Counts,
                abandoned : BOOLEAN]
Account == [stray : Int, unpromised : Int]
TypeOK ==
  /\ name \in [Kinds -> 0..MaxObjects]
  /\ created \in [Kinds -> 0..MaxObjects]
  /\ sized \in [Kinds -> SUBSET Int]
  /\ ctl \in [Objects -> ControlData]
  /\ pc \in [Procs -> PcStates]
  /\ kind \in [Procs -> Kinds]
  /\ my \in [Procs -> [Kinds -> 0..MaxObjects]]
  /\ owner \in [Procs -> BOOLEAN]
  /\ sends \in Nat /\ crashes \in Nat
  /\ torn \in BOOLEAN /\ overlapped \in BOOLEAN
  /\ ledger \in [Objects -> Account]

(* From the moment a constructor has its control object until it has       *)
(* announced itself, and from then until the destructor has removed the    *)
(* name.                                                                   *)
Entering(p) ==
  \/ pc[p] \in {"construct", "announce"}
  \/ pc[p] \in {"size", "map"} /\ kind[p] = "control"
Past(p) == pc[p] \in {"up", "room", "add", "store", "wait", "copy", "down", "remove"}
HasControl(p) == Entering(p) \/ Past(p)
(* Where a process has opened its data object.                             *)
HasData(p) ==
  \/ pc[p] \in {"construct", "announce", "up", "room", "add", "store", "wait", "copy", "down"}
  \/ pc[p] \in {"create", "open", "size", "map"} /\ kind[p] = "control"
  \/ pc[p] \in {"size", "map", "remove"} /\ kind[p] = "data"
Holding(p) == Entering(p) \/ Attached(p)

(* No object is named or held before it is created, and its memory is      *)
(* blank until then.                                                       *)
Known ==
  /\ \A k \in Kinds : name[k] <= created[k]
  /\ \A p \in Procs, k \in Kinds : my[p][k] <= created[k]
  /\ \A o \in Objects : o > created["control"] => ctl[o] = Blank
(* A process holds exactly the objects that its constructor or destructor  *)
(* has reached.                                                            *)
Held ==
  \A p \in Procs :
    pc[p] # "failed" =>
      /\ HasData(p) <=> Data(p) # None
      /\ HasControl(p) <=> Ctl(p) # None
(* A process is the owner until it finds the control object existing; two  *)
(* processes are not both the owner of one.                                *)
Ownership ==
  /\ \A p \in Procs :
       \/ pc[p] \in {"create", "size"}
       \/ pc[p] \in {"open", "map"} /\ kind[p] = "data"
       => owner[p]
  /\ \A p \in Procs : pc[p] = "open" /\ kind[p] = "control" => ~owner[p]
  /\ \A p \in Procs :
       pc[p] = "map" /\ kind[p] = "control" /\ owner[p] => Ctl(p) \in sized["control"]
  /\ \A p, q \in Procs :
       p # q /\ HasControl(p) /\ HasControl(q) /\ owner[p] /\ owner[q] => Ctl(p) # Ctl(q)

(* While nothing was torn: a constructor between the two objects still     *)
(* finds the name of the data object where it left it.                     *)
NamesHeld ==
  ~torn => \A p \in Procs :
    /\ HalfBuilt(p) => name["data"] = Data(p)
    /\ pc[p] \in {"size", "map"} /\ kind[p] = "control" => name["control"] = Ctl(p)
    /\ Holding(p) /\ name["control"] = Ctl(p) => name["data"] \in {None, Data(p)}
Paired ==
  ~torn => \A p, q \in Procs :
    Holding(p) /\ Holding(q) /\ Ctl(p) = Ctl(q) => Data(p) = Data(q)

(* While constructors did not overlap: nobody is past a constructor on     *)
(* control data whose owner is still entering.                             *)
OwnerFirst ==
  ~overlapped => \A p, q \in Procs :
    p # q /\ owner[p] /\ Entering(p) /\ Past(q) => Ctl(p) # Ctl(q)
UpWhenBoth ==
  ~overlapped => \A p, q \in Procs :
    p # q /\ Attached(p) /\ Attached(q) /\ Ctl(p) = Ctl(q) => Control(p).InterfaceStatus

(* What a control object has in tokens, beside the messages that wait and  *)
(* the tokens that answer to none.                                         *)
Promises(o) == ctl[o].getMsgSemaphore + InHand(o) + ledger[o].unpromised
Messages(o) == ctl[o].NumberMessagesInQueue + ledger[o].stray
Surplus(o) == Promises(o) - Messages(o)
(* Control data on which a constructor is about to announce itself, or     *)
(* whose interface is up and somebody attached.                            *)
Claimed(o) ==
  \/ \E p \in Procs : pc[p] = "announce" /\ Ctl(p) = o
  \/ ctl[o].InterfaceStatus /\ \E p \in Procs : Attached(p) /\ Ctl(p) = o
Balanced ==
  ~overlapped => \A o \in Objects : Claimed(o) => Surplus(o) % Modulus = 0
(* A token is in the hand of the receiver and nobody else.                 *)
InReceiver == pc[Sender] # "copy"

IInv ==
  /\ TypeOK /\ Known /\ Held /\ Ownership
  /\ NamesHeld /\ Paired
  /\ OwnerFirst /\ UpWhenBoth
  /\ InReceiver /\ Balanced
----------------------------------------------------------------------------
(* The initial states.                                                     *)
LEMMA InitInv == Init => IInv
<1> SUFFICES ASSUME Init PROVE IInv
  OBVIOUS
<1>1. TypeOK
  <2>1. Blank \in ControlData
    BY LifecycleAssumption DEF Blank, ControlData, Counts
  <2>4. ledger \in [Objects -> Account]
    BY DEF Init, Account, NoAccount
  <2>2. 0 \in 0..MaxObjects /\ {} \in SUBSET Int
    BY LifecycleAssumption
  <2>3. "gone" \in PcStates /\ "data" \in Kinds
    BY DEF PcStates, Kinds
  <2> QED
    BY <2>1, <2>2, <2>3, <2>4 DEF Init, TypeOK, None
<1>2. Known /\ Held /\ Ownership
  BY LifecycleAssumption DEF Init, Known, Held, Ownership, HasData, HasControl, Entering, Past, Kinds, Data, Ctl, None
<1>3. NamesHeld /\ Paired /\ OwnerFirst /\ UpWhenBoth
  <2>1. \A p \in Procs : pc[p] = "gone"
    BY DEF Init
  <2> QED
    BY <2>1 DEF NamesHeld, HalfBuilt, Paired, OwnerFirst, UpWhenBoth, Holding, Entering, Past, Attached
<1>4. InReceiver /\ Balanced
  <2>1. \A p \in Procs : pc[p] = "gone"
    BY DEF Init
  <2> QED
    BY <2>1 DEF InReceiver, Balanced, Claimed, Attached, Procs
<1> QED
  BY <1>1, <1>2, <1>3, <1>4 DEF IInv
----------------------------------------------------------------------------
(* What each step writes into the control data it works on.                *)
LEMMA Writes ==
  ASSUME TypeOK, NEW p \in Procs, Ctl(p) # None, NEW data \in ControlData, SetControl(p, data)
  PROVE  /\ ctl' \in [Objects -> ControlData]
         /\ Ctl(p) \in Objects
         /\ ctl'[Ctl(p)] = data
         /\ \A o \in Objects : o # Ctl(p) => ctl'[o] = ctl[o]
BY LifecycleAssumption DEF TypeOK, Ctl, SetControl, Objects, None, Kinds

Others(c) == \A o \in Objects : o # c => ctl'[o] = ctl[o]
SameStatus(c) == ctl'[c].InterfaceStatus = ctl[c].InterfaceStatus
SameTokens(c) == ctl'[c].getMsgSemaphore = ctl[c].getMsgSemaphore
SameNumber(c) == ctl'[c].NumberMessagesInQueue = ctl[c].NumberMessagesInQueue

LEMMA OnObject ==
  ASSUME TypeOK, Held, NEW p \in Procs, HasControl(p)
  PROVE  Ctl(p) \in Objects /\ Ctl(p) # None /\ Control(p) = ctl[Ctl(p)] /\ Control(p) \in ControlData
BY LifecycleAssumption DEF TypeOK, Held, Ctl, Objects, None, Kinds, Control, HasControl, Entering, Past

(* The count stays within its width and is changed by one, modulo that.    *)
LEMMA CountWraps ==
  ASSUME NEW n \in Counts
  PROVE  /\ Inc(n) \in Counts /\ Inc(n) \in {n + 1, n + 1 - Modulus}
         /\ Dec(n) \in Counts /\ Dec(n) \in {n - 1, n - 1 + Modulus}
<1>1. Modulus \in Nat /\ Modulus > 1 /\ n \in 0..(Modulus - 1)
  BY LifecycleAssumption DEF Counts
<1>2. \A m \in Nat : m > 1 => \A x \in 0..(m - 1) : x % m = x /\ (x + m) % m = x
  OBVIOUS
<1>3. Inc(n) \in {n + 1, n + 1 - Modulus} /\ Inc(n) \in Counts
  <2>1. CASE n + 1 < Modulus
    <3>1. n + 1 \in 0..(Modulus - 1)
      BY <1>1, <2>1
    <3>2. (n + 1) % Modulus = n + 1
      BY <1>1, <1>2, <3>1
    <3> QED
      BY <3>1, <3>2 DEF Inc, Counts
  <2>2. CASE ~(n + 1 < Modulus)
    <3>1. n + 1 = 0 + Modulus /\ 0 \in 0..(Modulus - 1)
      BY <1>1, <2>2
    <3>2. (n + 1) % Modulus = 0
      BY <1>1, <1>2, <3>1
    <3>3. n + 1 - Modulus = 0
      BY <1>1, <3>1
    <3> QED
      BY <3>1, <3>2, <3>3 DEF Inc, Counts
  <2> QED
    BY <2>1, <2>2
<1>4. Dec(n) \in {n - 1, n - 1 + Modulus} /\ Dec(n) \in Counts
  <2>1. CASE n > 0
    <3>1. n - 1 \in 0..(Modulus - 1) /\ n + Modulus - 1 = (n - 1) + Modulus
      BY <1>1, <2>1
    <3>2. (n + Modulus - 1) % Modulus = n - 1
      BY <1>1, <1>2, <3>1
    <3> QED
      BY <3>1, <3>2 DEF Dec, Counts
  <2>2. CASE ~(n > 0)
    <3>1. n + Modulus - 1 = Modulus - 1 /\ Modulus - 1 \in 0..(Modulus - 1) /\ n - 1 + Modulus = Modulus - 1
      BY <1>1, <2>2
    <3>2. (n + Modulus - 1) % Modulus = Modulus - 1
      BY <1>1, <1>2, <3>1
    <3> QED
      BY <3>1, <3>2 DEF Dec, Counts
  <2> QED
    BY <2>1, <2>2
<1> QED
  BY <1>3, <1>4

(* The writes that sections are made of, and the mark of an abandoned one. *)
Marked(data) == [data EXCEPT !.abandoned = TRUE]
SameWord(d, e) == d.InterfaceStatus = e.InterfaceStatus
SameToken(d, e) == d.getMsgSemaphore = e.getMsgSemaphore
SameCount(d, e) == d.NumberMessagesInQueue = e.NumberMessagesInQueue
LEMMA Edits ==
  ASSUME NEW d \in ControlData
  PROVE  /\ Longer(d) \in ControlData /\ SameWord(Longer(d), d) /\ SameToken(Longer(d), d)
         /\ Longer(d).NumberMessagesInQueue = Inc(d.NumberMessagesInQueue)
         /\ Shorter(d) \in ControlData /\ SameWord(Shorter(d), d) /\ SameToken(Shorter(d), d)
         /\ Shorter(d).NumberMessagesInQueue = Dec(d.NumberMessagesInQueue)
         /\ PostGet(d) \in ControlData /\ SameWord(PostGet(d), d) /\ SameCount(PostGet(d), d)
         /\ PostGet(d).getMsgSemaphore = d.getMsgSemaphore + 1
         /\ PostAdd(d) \in ControlData /\ SameWord(PostAdd(d), d) /\ SameCount(PostAdd(d), d)
         /\ SameToken(PostAdd(d), d)
         /\ Marked(d) \in ControlData /\ SameWord(Marked(d), d) /\ SameCount(Marked(d), d)
         /\ SameToken(Marked(d), d)
<1>1. d.NumberMessagesInQueue \in Counts /\ Inc(d.NumberMessagesInQueue) \in Counts
      /\ Dec(d.NumberMessagesInQueue) \in Counts
  BY CountWraps DEF ControlData
<1>2. /\ Longer(d) \in ControlData /\ SameWord(Longer(d), d) /\ SameToken(Longer(d), d)
      /\ Longer(d).NumberMessagesInQueue = Inc(d.NumberMessagesInQueue)
  BY <1>1 DEF Longer, ControlData, SameWord, SameToken
<1>3. /\ Shorter(d) \in ControlData /\ SameWord(Shorter(d), d) /\ SameToken(Shorter(d), d)
      /\ Shorter(d).NumberMessagesInQueue = Dec(d.NumberMessagesInQueue)
  BY <1>1 DEF Shorter, ControlData, SameWord, SameToken
<1>4. /\ PostGet(d) \in ControlData /\ SameWord(PostGet(d), d) /\ SameCount(PostGet(d), d)
      /\ PostGet(d).getMsgSemaphore = d.getMsgSemaphore + 1
  BY DEF PostGet, ControlData, SameWord, SameCount
<1>5. /\ PostAdd(d) \in ControlData /\ SameWord(PostAdd(d), d) /\ SameCount(PostAdd(d), d)
      /\ SameToken(PostAdd(d), d)
  BY DEF PostAdd, ControlData, SameWord, SameCount, SameToken
<1>6. /\ Marked(d) \in ControlData /\ SameWord(Marked(d), d) /\ SameCount(Marked(d), d)
      /\ SameToken(Marked(d), d)
  BY DEF Marked, ControlData, SameWord, SameCount, SameToken
<1> QED
  BY <1>2, <1>3, <1>4, <1>5, <1>6

LEMMA ConstructWrites ==
  ASSUME TypeOK, Held, NEW p \in Procs, ConstructControl(p)
  PROVE  /\ ctl' \in [Objects -> ControlData] /\ Others(Ctl(p))
         /\ SameStatus(Ctl(p)) /\ SameNumber(Ctl(p))
         /\ ctl'[Ctl(p)].getMsgSemaphore = 0
<1>1. HasControl(p)
  BY DEF ConstructControl, Goto, HasControl, Entering
<1> DEFINE old == Control(p)
           first == [old EXCEPT !.getMsgSemaphore = 0]
           second == [first EXCEPT !.addMessageSemaphore = MaxMsgs]
           data == [second EXCEPT !.abandoned = FALSE]
<1>2. old \in ControlData /\ old = ctl[Ctl(p)] /\ old = Control(p)
  BY <1>1, OnObject
<1>3. SetControl(p, data)
  BY <1>2 DEF ConstructControl, ControlData
<1> HIDE DEF old
<1>4. first \in ControlData /\ first.InterfaceStatus = old.InterfaceStatus
      /\ first.NumberMessagesInQueue = old.NumberMessagesInQueue /\ first.getMsgSemaphore = 0
  BY <1>2 DEF ControlData
<1> HIDE DEF first
<1>5. second \in ControlData /\ second.InterfaceStatus = first.InterfaceStatus
      /\ second.NumberMessagesInQueue = first.NumberMessagesInQueue
      /\ second.getMsgSemaphore = first.getMsgSemaphore
  BY <1>4, LifecycleAssumption DEF ControlData
<1> HIDE DEF second
<1>6. data \in ControlData /\ data.InterfaceStatus = second.InterfaceStatus
      /\ data.NumberMessagesInQueue = second.NumberMessagesInQueue
      /\ data.getMsgSemaphore = second.getMsgSemaphore
  BY <1>5 DEF ControlData
<1> HIDE DEF data
<1> QED
  BY <1>1, <1>2, <1>3, <1>4, <1>5, <1>6, OnObject, Writes DEF Others, SameStatus, SameNumber

LEMMA AnnounceWrites ==
  ASSUME TypeOK, Held, NEW p \in Procs, Announce(p)
  PROVE  /\ ctl' \in [Objects -> ControlData] /\ Others(Ctl(p)) /\ SameTokens(Ctl(p))
         /\ owner[p] => /\ ctl'[Ctl(p)].NumberMessagesInQueue = 0
                        /\ ctl'[Ctl(p)].InterfaceStatus = FALSE
         /\ ~owner[p] => /\ ctl'[Ctl(p)].InterfaceStatus = TRUE
                         /\ SameNumber(Ctl(p))
<1>1. HasControl(p) /\ owner[p] \in BOOLEAN
  BY DEF Announce, Goto, HasControl, Entering, TypeOK
<1>2. CASE owner[p]
  <2> DEFINE first == [Control(p) EXCEPT !.InterfaceStatus = FALSE]
             data == [first EXCEPT !.NumberMessagesInQueue = 0]
  <2>1. first \in ControlData /\ first.InterfaceStatus = FALSE
        /\ first.getMsgSemaphore = Control(p).getMsgSemaphore
    BY <1>1, OnObject DEF ControlData
  <2>2. SetControl(p, data)
    BY <1>1, <1>2, OnObject DEF Announce, DeclareDown, ControlData
  <2> HIDE DEF first
  <2>3. data \in ControlData /\ data.InterfaceStatus = first.InterfaceStatus
        /\ data.NumberMessagesInQueue = 0 /\ data.getMsgSemaphore = first.getMsgSemaphore
    BY <2>1, LifecycleAssumption DEF ControlData, Counts
  <2> HIDE DEF data
  <2> QED
    BY <1>1, <1>2, <2>1, <2>2, <2>3, OnObject, Writes DEF Others, SameTokens
<1>3. CASE ~owner[p]
  <2> DEFINE data == [Control(p) EXCEPT !.InterfaceStatus = TRUE]
  <2>1. data \in ControlData /\ data.InterfaceStatus = TRUE
        /\ data.NumberMessagesInQueue = Control(p).NumberMessagesInQueue
        /\ data.getMsgSemaphore = Control(p).getMsgSemaphore
    BY <1>1, OnObject DEF ControlData
  <2>2. SetControl(p, data)
    BY <1>1, <1>3, OnObject DEF Announce, DeclareUp, ControlData
  <2> HIDE DEF data
  <2> QED
    BY <1>1, <1>3, <2>1, <2>2, OnObject, Writes DEF Others, SameTokens, SameNumber
<1> QED
  BY <1>2, <1>3

LEMMA DropWrites ==
  ASSUME TypeOK, Held, HasControl(Sender), Drop
  PROVE  /\ ctl' \in [Objects -> ControlData] /\ Others(Ctl(Sender))
         /\ SameStatus(Ctl(Sender)) /\ SameTokens(Ctl(Sender))
         /\ ctl'[Ctl(Sender)].NumberMessagesInQueue = Dec(Control(Sender).NumberMessagesInQueue)
<1>1. Sender \in Procs
  BY DEF Procs
<1> DEFINE old == Control(Sender)
           data == PostAdd(Shorter(old))
<1>2. old \in ControlData /\ old = ctl[Ctl(Sender)] /\ SetControl(Sender, data)
  BY <1>1, OnObject DEF Drop
<1>3. data \in ControlData /\ SameWord(data, old) /\ SameToken(data, old)
      /\ data.NumberMessagesInQueue = Dec(old.NumberMessagesInQueue)
  BY <1>2, Edits DEF SameWord, SameToken, SameCount
<1> HIDE DEF data
<1> QED
  BY <1>1, <1>2, <1>3, OnObject, Writes DEF Others, SameStatus, SameTokens, SameWord, SameToken

LEMMA TakeRoomWrites ==
  ASSUME TypeOK, Held, TakeRoom
  PROVE  /\ ctl' \in [Objects -> ControlData] /\ Others(Ctl(Sender))
         /\ SameStatus(Ctl(Sender)) /\ SameTokens(Ctl(Sender)) /\ SameNumber(Ctl(Sender))
<1>1. HasControl(Sender) /\ Sender \in Procs
  BY DEF TakeRoom, Goto, HasControl, Past, Procs
<1> DEFINE old == Control(Sender)
           data == [old EXCEPT !.addMessageSemaphore = @ - 1]
<1>2. old \in ControlData /\ old = ctl[Ctl(Sender)] /\ old = Control(Sender)
  BY <1>1, OnObject
<1>3. SetControl(Sender, data)
  BY DEF TakeRoom
<1> HIDE DEF old
<1>4. data \in ControlData /\ data.InterfaceStatus = old.InterfaceStatus
      /\ data.NumberMessagesInQueue = old.NumberMessagesInQueue
      /\ data.getMsgSemaphore = old.getMsgSemaphore
  BY <1>2 DEF ControlData
<1> HIDE DEF data
<1> QED
  BY <1>1, <1>2, <1>3, <1>4, OnObject, Writes DEF Others, SameStatus, SameTokens, SameNumber

LEMMA StoreWrites ==
  ASSUME TypeOK, Held, Store
  PROVE  /\ ctl' \in [Objects -> ControlData] /\ Others(Ctl(Sender))
         /\ SameStatus(Ctl(Sender))
         /\ ctl'[Ctl(Sender)].NumberMessagesInQueue = Inc(Control(Sender).NumberMessagesInQueue)
         /\ ctl'[Ctl(Sender)].getMsgSemaphore = Control(Sender).getMsgSemaphore + 1
<1>1. HasControl(Sender) /\ Sender \in Procs
  BY DEF Store, Goto, HasControl, Past, Procs
<1> DEFINE old == Control(Sender)
           data == PostGet(Longer(old))
<1>2. old \in ControlData /\ old = ctl[Ctl(Sender)] /\ SetControl(Sender, data)
  BY <1>1, OnObject DEF Store
<1>3. data \in ControlData /\ SameWord(data, old)
      /\ data.NumberMessagesInQueue = Inc(old.NumberMessagesInQueue)
      /\ data.getMsgSemaphore = old.getMsgSemaphore + 1
  BY <1>2, Edits DEF SameWord, SameToken, SameCount
<1> HIDE DEF data
<1> QED
  BY <1>1, <1>2, <1>3, OnObject, Writes DEF Others, SameStatus, SameWord

LEMMA TakeWrites ==
  ASSUME TypeOK, Held, TakeMsg
  PROVE  /\ ctl' \in [Objects -> ControlData] /\ Others(Ctl(Receiver))
         /\ SameStatus(Ctl(Receiver)) /\ SameNumber(Ctl(Receiver))
         /\ ctl'[Ctl(Receiver)].getMsgSemaphore = Control(Receiver).getMsgSemaphore - 1
<1>1. HasControl(Receiver) /\ Receiver \in Procs
  BY DEF TakeMsg, Goto, HasControl, Past, Procs
<1> DEFINE old == Control(Receiver)
           data == [old EXCEPT !.getMsgSemaphore = @ - 1]
<1>2. old \in ControlData /\ old = ctl[Ctl(Receiver)] /\ old = Control(Receiver)
  BY <1>1, OnObject
<1>3. SetControl(Receiver, data)
  BY DEF TakeMsg
<1> HIDE DEF old
<1>4. data \in ControlData /\ data.InterfaceStatus = old.InterfaceStatus
      /\ data.NumberMessagesInQueue = old.NumberMessagesInQueue
      /\ data.getMsgSemaphore = old.getMsgSemaphore - 1
  BY <1>2 DEF ControlData
<1> HIDE DEF data
<1> QED
  BY <1>1, <1>2, <1>3, <1>4, OnObject, Writes DEF Others, SameStatus, SameNumber

LEMMA CopyWrites ==
  ASSUME TypeOK, Held, Copy
  PROVE  /\ ctl' \in [Objects -> ControlData] /\ Others(Ctl(Receiver))
         /\ SameStatus(Ctl(Receiver)) /\ SameTokens(Ctl(Receiver))
         /\ ctl'[Ctl(Receiver)].NumberMessagesInQueue = Dec(Control(Receiver).NumberMessagesInQueue)
<1>1. HasControl(Receiver) /\ Receiver \in Procs
  BY DEF Copy, Goto, HasControl, Past, Procs
<1> DEFINE old == Control(Receiver)
           data == PostAdd(Shorter(old))
<1>2. old \in ControlData /\ old = ctl[Ctl(Receiver)] /\ SetControl(Receiver, data)
  BY <1>1, OnObject DEF Copy
<1>3. data \in ControlData /\ SameWord(data, old) /\ SameToken(data, old)
      /\ data.NumberMessagesInQueue = Dec(old.NumberMessagesInQueue)
  BY <1>2, Edits DEF SameWord, SameToken, SameCount
<1> HIDE DEF data
<1> QED
  BY <1>1, <1>2, <1>3, OnObject, Writes DEF Others, SameStatus, SameTokens, SameWord, SameToken

LEMMA WakeWrites ==
  ASSUME TypeOK, Held, NEW p \in Procs, Wake(p)
  PROVE  /\ ctl' \in [Objects -> ControlData] /\ Others(Ctl(p))
         /\ SameStatus(Ctl(p)) /\ SameNumber(Ctl(p))
         /\ ctl'[Ctl(p)].getMsgSemaphore = Control(p).getMsgSemaphore + 1
<1>1. HasControl(p)
  BY DEF Wake, Goto, HasControl, Past
<1> DEFINE old == Control(p)
           data == PostGet(old)
<1>2. old \in ControlData /\ old = ctl[Ctl(p)] /\ SetControl(p, data)
  BY <1>1, OnObject DEF Wake
<1>3. data \in ControlData /\ SameWord(data, old) /\ SameCount(data, old)
      /\ data.getMsgSemaphore = old.getMsgSemaphore + 1
  BY <1>2, Edits
<1> HIDE DEF data
<1> QED
  BY <1>1, <1>2, <1>3, OnObject, Writes DEF Others, SameStatus, SameNumber, SameWord, SameCount

LEMMA TakeDownWrites ==
  ASSUME TypeOK, Held, NEW p \in Procs, TakeDown(p)
  PROVE  /\ ctl' \in [Objects -> ControlData] /\ Others(Ctl(p))
         /\ ctl'[Ctl(p)].InterfaceStatus = FALSE
<1>1. HasControl(p)
  BY DEF TakeDown, Goto, HasControl, Past
<1> DEFINE old == PostAdd(Control(p))
           first == [old EXCEPT !.InterfaceStatus = FALSE]
           data == [first EXCEPT !.abandoned = FALSE]
<1>2. old \in ControlData
  BY <1>1, OnObject, Edits
<1>3. SetControl(p, data)
  BY <1>2 DEF TakeDown, ControlData
<1> HIDE DEF old
<1>4. first \in ControlData /\ first.InterfaceStatus = FALSE
  BY <1>2 DEF ControlData
<1> HIDE DEF first
<1>5. data \in ControlData /\ data.InterfaceStatus = FALSE
  BY <1>4 DEF ControlData
<1> HIDE DEF data
<1> QED
  BY <1>1, <1>3, <1>5, OnObject, Writes DEF Others

(* Memory is given back only when nobody else has it.                      *)
LEMMA GiveBackWrites ==
  ASSUME TypeOK, Held, NEW p \in Procs, RemoveObject(p)
  PROVE  /\ ctl' \in [Objects -> ControlData] /\ ledger' \in [Objects -> Account]
         /\ ctl' = ctl \/ Others(Ctl(p))
         /\ HasControl(p)
         /\ \A q \in Procs, o \in Objects : q # p /\ o = Ctl(q) => ctl'[o] = ctl[o] /\ ledger'[o] = ledger[o]
<1>1. HasControl(p) /\ GiveBack(p)
  BY DEF RemoveObject, Goto, HasControl, Past
<1>2. Blank \in ControlData /\ NoAccount \in Account
  BY LifecycleAssumption DEF Blank, ControlData, Counts, NoAccount, Account
<1>3. CASE UNCHANGED <<ctl, ledger>>
  BY <1>1, <1>3 DEF TypeOK
<1>4. CASE ~(UNCHANGED <<ctl, ledger>>)
  <2>1. /\ \A q \in Procs \ {p} : Ctl(q) # Ctl(p)
        /\ SetControl(p, Blank) /\ ledger' = [ledger EXCEPT ![Ctl(p)] = NoAccount]
    BY <1>1, <1>4 DEF GiveBack, Ctl
  <2>2. /\ ctl' \in [Objects -> ControlData] /\ Others(Ctl(p)) /\ Ctl(p) \in Objects
    BY <1>1, <1>2, <2>1, OnObject, Writes DEF Others
  <2>3. ledger' \in [Objects -> Account] /\ \A o \in Objects : o # Ctl(p) => ledger'[o] = ledger[o]
    BY <1>2, <2>1, <2>2 DEF TypeOK
  <2> QED
    BY <1>1, <2>1, <2>2, <2>3 DEF Others
<1> QED
  BY <1>3, <1>4

LEMMA AbandonWrites ==
  ASSUME TypeOK, Held, NEW p \in Procs, HasControl(p), NEW data \in ControlData,
         Abandon(p, data) \/ SetControl(p, data)
  PROVE  /\ ctl' \in [Objects -> ControlData] /\ Others(Ctl(p))
         /\ SameWord(ctl'[Ctl(p)], data) /\ SameToken(ctl'[Ctl(p)], data) /\ SameCount(ctl'[Ctl(p)], data)
<1>1. PICK new \in ControlData : SetControl(p, new) /\ SameWord(new, data) /\ SameToken(new, data) /\ SameCount(new, data)
  BY Edits DEF Abandon, Marked, SameWord, SameToken, SameCount
<1> QED
  BY <1>1, OnObject, Writes DEF Others

(* What a process that dies has written of its section.                    *)
LEMMA DieWrites ==
  ASSUME TypeOK, Held, NEW p \in Procs, HasControl(p), NEW c, c = Ctl(p)
  PROVE  /\ DieInside(p) \/ DieTakingDown(p) =>
              SameStatus(c) /\ SameTokens(c) /\ SameNumber(c) /\ Others(c) /\ ctl' \in [Objects -> ControlData]
         /\ DieDropping(p) \/ DieCopying(p) =>
              /\ SameStatus(c) /\ SameTokens(c) /\ Others(c) /\ ctl' \in [Objects -> ControlData]
              /\ ctl'[c].NumberMessagesInQueue = Dec(ctl[c].NumberMessagesInQueue)
         /\ DieCounting(p) =>
              /\ SameStatus(c) /\ SameTokens(c) /\ Others(c) /\ ctl' \in [Objects -> ControlData]
              /\ ctl'[c].NumberMessagesInQueue = Inc(ctl[c].NumberMessagesInQueue)
         /\ DieStoring(p) =>
              /\ SameStatus(c) /\ Others(c) /\ ctl' \in [Objects -> ControlData]
              /\ ctl'[c].getMsgSemaphore = ctl[c].getMsgSemaphore + 1
              /\ ctl'[c].NumberMessagesInQueue = Inc(ctl[c].NumberMessagesInQueue)
         /\ DieWaking(p) =>
              /\ SameStatus(c) /\ SameNumber(c) /\ Others(c) /\ ctl' \in [Objects -> ControlData]
              /\ ctl'[c].getMsgSemaphore = ctl[c].getMsgSemaphore + 1
<1> DEFINE d == Control(p)
<1>1. d \in ControlData /\ d = ctl[c] /\ c \in Objects
  BY OnObject
<1> DEFINE Sets(data) == Abandon(p, data) \/ SetControl(p, data)
<1>2. ASSUME NEW data \in ControlData, Sets(data)
      PROVE  /\ ctl' \in [Objects -> ControlData] /\ Others(c)
             /\ SameWord(ctl'[c], data) /\ SameToken(ctl'[c], data) /\ SameCount(ctl'[c], data)
  BY <1>2, AbandonWrites
<1>3. /\ DieInside(p) => Sets(d)
      /\ DieTakingDown(p) => Sets(PostAdd(d))
      /\ DieDropping(p) \/ DieCopying(p) => Sets(Shorter(d)) \/ Sets(PostAdd(Shorter(d)))
      /\ DieCounting(p) => Sets(Longer(d))
      /\ DieStoring(p) => Sets(PostGet(Longer(d)))
      /\ DieWaking(p) => Sets(PostGet(d))
  BY DEF DieInside, DieTakingDown, DieDropping, DieCopying, DieCounting, DieStoring, DieWaking
<1> HIDE DEF Sets, d
<1>4. ASSUME DieInside(p) \/ DieTakingDown(p)
      PROVE  SameStatus(c) /\ SameTokens(c) /\ SameNumber(c) /\ Others(c) /\ ctl' \in [Objects -> ControlData]
  <2>1. PICK data \in ControlData : Sets(data) /\ SameWord(data, d) /\ SameToken(data, d) /\ SameCount(data, d)
    BY <1>1, <1>3, <1>4, Edits DEF SameWord, SameToken, SameCount
  <2> QED
    BY <1>1, <1>2, <2>1 DEF SameStatus, SameTokens, SameNumber, SameWord, SameToken, SameCount
<1>5. ASSUME DieDropping(p) \/ DieCopying(p)
      PROVE  /\ SameStatus(c) /\ SameTokens(c) /\ Others(c) /\ ctl' \in [Objects -> ControlData]
             /\ ctl'[c].NumberMessagesInQueue = Dec(ctl[c].NumberMessagesInQueue)
  <2>1. PICK data \in ControlData : /\ Sets(data) /\ SameWord(data, d) /\ SameToken(data, d)
                                    /\ data.NumberMessagesInQueue = Dec(d.NumberMessagesInQueue)
    BY <1>1, <1>3, <1>5, Edits DEF SameWord, SameToken, SameCount
  <2> QED
    BY <1>1, <1>2, <2>1 DEF SameStatus, SameTokens, SameWord, SameToken, SameCount
<1>6. ASSUME DieCounting(p)
      PROVE  /\ SameStatus(c) /\ SameTokens(c) /\ Others(c) /\ ctl' \in [Objects -> ControlData]
             /\ ctl'[c].NumberMessagesInQueue = Inc(ctl[c].NumberMessagesInQueue)
  BY <1>1, <1>2, <1>3, <1>6, Edits DEF SameStatus, SameTokens, SameWord, SameToken, SameCount
<1>7. ASSUME DieStoring(p)
      PROVE  /\ SameStatus(c) /\ Others(c) /\ ctl' \in [Objects -> ControlData]
             /\ ctl'[c].getMsgSemaphore = ctl[c].getMsgSemaphore + 1
             /\ ctl'[c].NumberMessagesInQueue = Inc(ctl[c].NumberMessagesInQueue)
  <2>1. PICK data \in ControlData : /\ Sets(data) /\ SameWord(data, d)
                                    /\ data.getMsgSemaphore = d.getMsgSemaphore + 1
                                    /\ data.NumberMessagesInQueue = Inc(d.NumberMessagesInQueue)
    BY <1>1, <1>3, <1>7, Edits DEF SameWord, SameToken, SameCount
  <2> QED
    BY <1>1, <1>2, <2>1 DEF SameStatus, SameWord, SameToken, SameCount
<1>8. ASSUME DieWaking(p)
      PROVE  /\ SameStatus(c) /\ SameNumber(c) /\ Others(c) /\ ctl' \in [Objects -> ControlData]
             /\ ctl'[c].getMsgSemaphore = ctl[c].getMsgSemaphore + 1
  BY <1>1, <1>2, <1>3, <1>8, Edits DEF SameStatus, SameNumber, SameWord, SameToken, SameCount
<1> QED
  BY <1>4, <1>5, <1>6, <1>7, <1>8

(* A process that dies writes into its own control data, and not into the  *)
(* status.                                                                 *)
LEMMA CrashWrites ==
  ASSUME TypeOK, Held, NEW p \in Procs, Crash(p)
  PROVE  \/ ctl' = ctl
         \/ /\ ctl' \in [Objects -> ControlData] /\ Others(Ctl(p))
            /\ HasControl(p) /\ SameStatus(Ctl(p))
<1>1. CASE DieOutside(p)
  BY <1>1 DEF DieOutside
<1>2. CASE ~DieOutside(p)
  <2>1. HasControl(p)
    BY <1>2 DEF Crash, Die, DieInside, DieTakingDown, DieDropping, DieCopying, DieCounting, DieStoring, DieWaking,
           HasControl, Past
  <2> QED
    BY <1>2, <2>1, DieWrites DEF Crash, Die
<1> QED
  BY <1>1, <1>2

(* Only a process that has its control object writes, and into that        *)
(* object.                                                                 *)
LEMMA ControlStep ==
  ASSUME TypeOK, Held, Next
  PROVE  /\ ctl' \in [Objects -> ControlData]
         /\ ctl' = ctl \/ \E p \in Procs : HasControl(p) /\ Others(Ctl(p))
<1>0. ctl \in [Objects -> ControlData] /\ Sender \in Procs /\ Receiver \in Procs
  BY DEF TypeOK, Procs
<1>1. ASSUME NEW p \in Procs, ConstructControl(p) PROVE HasControl(p)
  BY <1>1 DEF ConstructControl, Goto, HasControl, Entering
<1>2. ASSUME NEW p \in Procs, Announce(p) PROVE HasControl(p)
  BY <1>2 DEF Announce, Goto, HasControl, Entering
<1>3. ASSUME NEW p \in Procs, Wake(p) \/ TakeDown(p) PROVE HasControl(p)
  BY <1>3 DEF Wake, TakeDown, Goto, HasControl, Past
<1>4. ASSUME MakeRoom \/ TakeRoom \/ Store PROVE HasControl(Sender)
  BY <1>4 DEF MakeRoom, TakeRoom, Store, Goto, HasControl, Past
<1>5. ASSUME TakeMsg \/ Copy PROVE HasControl(Receiver)
  BY <1>5 DEF TakeMsg, Copy, Goto, HasControl, Past
<1>6. ASSUME NEW p \in Procs,
             Construct(p) \/ CreateObject(p) \/ SizeObject(p) \/ OpenObject(p)
               \/ MapObject(p) \/ BeginSend \/ HasRoom \/ AddTimeout
               \/ BeginGet \/ GetTimeout
      PROVE ctl' = ctl
  BY <1>6 DEF Construct, CreateObject, SizeObject, OpenObject, MapObject, BeginSend, HasRoom, AddTimeout,
         BeginGet, GetTimeout
<1> QED
  BY <1>0, <1>1, <1>2, <1>3, <1>4, <1>5, <1>6, ConstructWrites, AnnounceWrites, WakeWrites, TakeDownWrites, GiveBackWrites,
     DropWrites, TakeRoomWrites, StoreWrites, TakeWrites, CopyWrites, CrashWrites DEF Next, LifeStep, SendStep, GetStep, MakeRoom

Base == TypeOK /\ Known /\ Held /\ Ownership

LEMMA ControlKnown ==
  ASSUME Base, ctl' = ctl \/ \E p \in Procs : HasControl(p) /\ Others(Ctl(p))
  PROVE  \A o \in Objects : o > created["control"] => ctl'[o] = Blank
<1> SUFFICES ASSUME NEW o \in Objects, o > created["control"], NEW p \in Procs, HasControl(p), Others(Ctl(p))
    PROVE ctl'[o] = ctl[o]
  BY DEF Base, Known
<1>1. Ctl(p) <= created["control"] /\ created["control"] \in Int /\ o \in Int /\ Ctl(p) \in Int
  BY LifecycleAssumption DEF Base, TypeOK, Known, Kinds, Ctl, Objects
<1> QED
  BY <1>1 DEF Others

(* What each step writes into the ledger.                                  *)
LedgerOthers(c) == \A o \in Objects : o # c => ledger'[o] = ledger[o]

LEMMA NoteWrites ==
  ASSUME TypeOK, Held, NEW p \in Procs, HasControl(p)
  PROVE  /\ NoteStray(p) =>
              /\ ledger' \in [Objects -> Account] /\ LedgerOthers(Ctl(p))
              /\ ledger'[Ctl(p)].stray = ledger[Ctl(p)].stray + 1
              /\ ledger'[Ctl(p)].unpromised = ledger[Ctl(p)].unpromised
         /\ NoteUnpromised(p) =>
              /\ ledger' \in [Objects -> Account] /\ LedgerOthers(Ctl(p))
              /\ ledger'[Ctl(p)].stray = ledger[Ctl(p)].stray
              /\ ledger'[Ctl(p)].unpromised = ledger[Ctl(p)].unpromised + 1
<1> DEFINE c == Ctl(p)
           old == ledger[c]
           drop == [old EXCEPT !.stray = @ + 1]
           leave == [old EXCEPT !.unpromised = @ + 1]
<1>1. c \in Objects /\ old \in Account /\ ledger \in [Objects -> Account]
  BY OnObject DEF TypeOK
<1>2. NoteStray(p) => ledger' = [ledger EXCEPT ![c] = drop]
  BY <1>1 DEF NoteStray, Ctl
<1>3. NoteUnpromised(p) => ledger' = [ledger EXCEPT ![c] = leave]
  BY <1>1 DEF NoteUnpromised, Ctl
<1>4. drop \in Account /\ drop.stray = old.stray + 1 /\ drop.unpromised = old.unpromised
  BY <1>1 DEF Account
<1>5. leave \in Account /\ leave.stray = old.stray /\ leave.unpromised = old.unpromised + 1
  BY <1>1 DEF Account
<1> HIDE DEF drop, leave
<1> QED
  BY <1>1, <1>2, <1>3, <1>4, <1>5 DEF LedgerOthers

LEMMA ConstructNotes ==
  ASSUME TypeOK, Held, NEW p \in Procs, ConstructControl(p)
  PROVE  /\ ledger' \in [Objects -> Account] /\ LedgerOthers(Ctl(p))
         /\ ledger'[Ctl(p)].stray = 0
         /\ ledger'[Ctl(p)].unpromised = Control(p).NumberMessagesInQueue - InHand(Ctl(p))
<1>1. HasControl(p)
  BY DEF ConstructControl, Goto, HasControl, Entering
<1> DEFINE c == Ctl(p)
           found == Control(p).NumberMessagesInQueue - InHand(c)
           new == [stray |-> 0, unpromised |-> found]
<1>2. c \in Objects /\ ledger \in [Objects -> Account] /\ ledger' = [ledger EXCEPT ![c] = new]
  BY <1>1, OnObject DEF TypeOK, ConstructControl, Ctl
<1>3. found \in Int
  BY <1>1, OnObject, LifecycleAssumption DEF InHand, ControlData, Counts
<1> HIDE DEF found
<1>4. new \in Account /\ new.stray = 0 /\ new.unpromised = found
  BY <1>3 DEF Account
<1> HIDE DEF new
<1> QED
  BY <1>2, <1>4 DEF LedgerOthers, found

LEMMA LedgerStep ==
  ASSUME TypeOK, Held, Next
  PROVE  ledger' \in [Objects -> Account]
<1>0. ledger \in [Objects -> Account] /\ Sender \in Procs
  BY DEF TypeOK, Procs
<1>1. ASSUME MakeRoom PROVE ledger' \in [Objects -> Account]
  <2>1. HasControl(Sender)
    BY <1>1 DEF MakeRoom, Goto, HasControl, Past
  <2> QED
    BY <1>0, <1>1, <2>1, NoteWrites DEF MakeRoom, Drop, HasRoom
<1>2. ASSUME NEW p \in Procs, Crash(p) PROVE ledger' \in [Objects -> Account]
  <2>1. pc[p] \in {"up", "room", "store", "copy"} => HasControl(p)
    BY DEF HasControl, Past
  <2>2. ledger' = ledger \/ (HasControl(p) /\ (NoteStray(p) \/ NoteUnpromised(p)))
    BY <1>2, <2>1 DEF Crash, Die, DieOutside, DieInside, DieTakingDown, DieDropping, DieCopying, DieCounting, DieStoring,
           DieWaking, LeaveToken
  <2> QED
    BY <1>0, <2>2, NoteWrites
<1>3. ASSUME NEW p \in Procs,
             Construct(p) \/ CreateObject(p) \/ SizeObject(p) \/ OpenObject(p) \/ MapObject(p) \/ Announce(p)
               \/ TakeDown(p) \/ BeginSend \/ TakeRoom \/ AddTimeout \/ Store \/ GetStep
      PROVE ledger' = ledger
  BY <1>3 DEF Construct, CreateObject, SizeObject, OpenObject, MapObject, Announce, TakeDown, BeginSend,
         TakeRoom, AddTimeout, Store, GetStep, BeginGet, TakeMsg, GetTimeout, Copy, history
<1>4. ASSUME NEW p \in Procs, Wake(p) PROVE ledger' \in [Objects -> Account]
  BY <1>4, NoteWrites DEF Wake, Goto, HasControl, Past
<1> QED
  BY <1>0, <1>1, <1>2, <1>3, <1>4, ConstructNotes, GiveBackWrites DEF Next, LifeStep, SendStep

(* Base, for the steps of the constructor, the calls, and the ways to      *)
(* leave.                                                                  *)
LEMMA ConstructorBase ==
  ASSUME Base, NEW p \in Procs, Construct(p) \/ CreateObject(p) \/ SizeObject(p) \/ OpenObject(p) \/ MapObject(p)
  PROVE  Base'
<1>1. CASE Construct(p)
  <2>1. TypeOK'
    BY <1>1 DEF Base, TypeOK, Construct, Goto, PcStates, Kinds, objects, history
  <2>2. Known'
    BY <1>1 DEF Base, Known, Construct, objects, history
  <2>3. Held'
    BY <1>1 DEF Base, TypeOK, Held, Construct, Goto, HasData, HasControl, Entering, Past, Data, Ctl, Kinds
  <2>4. Ownership'
    BY <1>1 DEF Base, TypeOK, Ownership, Construct, Goto, HasControl, Entering, Past, Data, Ctl, Kinds, objects
  <2> QED
    BY <2>1, <2>2, <2>3, <2>4 DEF Base
<1>2. CASE CreateObject(p) /\ MakeObject(p)
  <2> DEFINE new == created[kind[p]] + 1
  <2>1. /\ kind[p] \in Kinds /\ new \in 1..MaxObjects
        /\ created[kind[p]] \in 0..MaxObjects /\ new > created[kind[p]]
    BY <1>2, LifecycleAssumption DEF Base, TypeOK, MakeObject
  <2>2. created' = [created EXCEPT ![kind[p]] = new] /\ created'[kind[p]] = new
    BY <1>2, <2>1 DEF Base, TypeOK, MakeObject
  <2> HIDE DEF new
  <2>3. name' = [name EXCEPT ![kind[p]] = new] /\ my' = [my EXCEPT ![p][kind[p]] = new]
    BY <1>2, <2>2 DEF MakeObject
  <2>4. TypeOK'
    <3>1. new \in 0..MaxObjects
      BY <2>1
    <3>2. created' \in [Kinds -> 0..MaxObjects] /\ name' \in [Kinds -> 0..MaxObjects]
      BY <2>2, <2>3, <3>1 DEF Base, TypeOK
    <3>3. my' \in [Procs -> [Kinds -> 0..MaxObjects]]
      BY <2>1, <2>3, <3>1 DEF Base, TypeOK
    <3> QED
      BY <1>2, <3>2, <3>3 DEF Base, TypeOK, CreateObject, MakeObject, Goto, PcStates, NoteHalfRemoved
  <2>5. Known'
    <3>1. \A k \in Kinds : created'[k] >= created[k] /\ created[k] \in Int /\ created'[k] \in Int /\ name[k] \in Int
      BY <2>1, <2>2 DEF Base, TypeOK
    <3>2. \A k \in Kinds : name'[k] <= created'[k]
      BY <2>1, <2>2, <2>3, <3>1 DEF Base, TypeOK, Known
    <3>3. \A q \in Procs, k \in Kinds : my'[q][k] <= created'[k]
      <4> SUFFICES ASSUME NEW q \in Procs, NEW k \in Kinds PROVE my'[q][k] <= created'[k]
        OBVIOUS
      <4>1. my[q][k] \in Int /\ my[q][k] <= created[k]
        BY DEF Base, TypeOK, Known
      <4>2. my'[q][k] = IF q = p /\ k = kind[p] THEN new ELSE my[q][k]
        BY <2>1, <2>3 DEF Base, TypeOK
      <4> QED
        BY <2>1, <2>2, <3>1, <4>1, <4>2
    <3>4. ctl' = ctl
      BY <1>2 DEF CreateObject
    <3>5. \A o \in Objects : o > created'["control"] => o > created["control"]
      BY <3>1 DEF Kinds, Objects
    <3> QED
      BY <3>2, <3>3, <3>4, <3>5 DEF Base, Known
  <2>6. Held'
    BY <1>2, <2>1, <2>3 DEF Base, TypeOK, Held, CreateObject, MakeObject, Goto, HasData, HasControl, Entering, Past, Data, Ctl, Kinds, None
  <2>7. Ownership'
    BY <1>2, <2>1, <2>3 DEF Base, TypeOK, Known, Ownership, CreateObject, MakeObject, Goto, HasControl, Entering, Past, Data, Ctl, Kinds, None
  <2> QED
    BY <2>4, <2>5, <2>6, <2>7 DEF Base
<1>3. CASE CreateObject(p) /\ FindExisting(p)
  <2>1. TypeOK'
    BY <1>3 DEF Base, TypeOK, CreateObject, FindExisting, Goto, PcStates, Kinds, NoteHalfRemoved
  <2>2. Known'
    BY <1>3 DEF Base, TypeOK, Known, CreateObject, FindExisting, Kinds
  <2>3. Held'
    BY <1>3 DEF Base, TypeOK, Held, CreateObject, FindExisting, Goto, HasData, HasControl, Entering, Past, Data, Ctl, Kinds, None
  <2>4. Ownership'
    BY ZenonT(40), <1>3 DEF Base, TypeOK, Known, Ownership, CreateObject, FindExisting, Goto, HasControl, Entering, Past, Data, Ctl, Kinds, None
  <2> QED
    BY <2>1, <2>2, <2>3, <2>4 DEF Base
<1>4. CASE SizeObject(p)
  <2>1. TypeOK'
    BY <1>4 DEF Base, TypeOK, SizeObject, Goto, PcStates, Kinds, history
  <2>2. Known'
    BY <1>4 DEF Base, TypeOK, Known, SizeObject, Kinds
  <2>3. Held'
    BY <1>4 DEF Base, TypeOK, Held, SizeObject, Goto, HasData, HasControl, Entering, Past, Data, Ctl, Kinds, None
  <2>4. Ownership'
    BY <1>4 DEF Base, TypeOK, Known, Ownership, SizeObject, Goto, HasControl, Entering, Past, Data, Ctl, Kinds, None
  <2> QED
    BY <2>1, <2>2, <2>3, <2>4 DEF Base
<1>5. CASE OpenObject(p)
  <2>1. TypeOK'
    BY <1>5 DEF Base, TypeOK, OpenObject, Goto, PcStates, Kinds, objects, history
  <2>2. Known'
    BY <1>5 DEF Base, TypeOK, Known, OpenObject, Kinds, objects
  <2>3. Held'
    <3>1. /\ kind' = kind /\ kind[p] \in Kinds
          /\ pc' = [pc EXCEPT ![p] = IF name[kind[p]] = None THEN "failed" ELSE "map"]
          /\ my' = [my EXCEPT ![p][kind[p]] = name[kind[p]]]
          /\ pc[p] = "open"
      BY <1>5 DEF Base, TypeOK, OpenObject, Goto
    <3>2. ASSUME NEW q \in Procs, q # p PROVE pc'[q] = pc[q] /\ my'[q] = my[q] /\ kind'[q] = kind[q]
      BY <3>1, <3>2 DEF Base, TypeOK
    <3>3. pc'[p] # "failed" =>
             /\ pc'[p] = "map" /\ kind'[p] = kind[p] /\ my'[p][kind[p]] # None
             /\ \A k \in Kinds : k # kind[p] => my'[p][k] = my[p][k]
      BY <3>1 DEF Base, TypeOK
    <3> QED
      BY <3>1, <3>2, <3>3 DEF Base, Held, HasData, HasControl, Entering, Past, Data, Ctl, Kinds
  <2>4. Ownership'
    BY <1>5 DEF Base, TypeOK, Known, Ownership, OpenObject, Goto, HasControl, Entering, Past, Data, Ctl, Kinds, None, objects
  <2> QED
    BY <2>1, <2>2, <2>3, <2>4 DEF Base
<1>6. CASE MapObject(p)
  <2>1. TypeOK'
    BY <1>6 DEF Base, TypeOK, MapObject, Goto, PcStates, Kinds, objects, history
  <2>2. Known'
    BY <1>6 DEF Base, TypeOK, Known, MapObject, Kinds, objects
  <2>3. Held'
    BY <1>6 DEF Base, TypeOK, Held, MapObject, Goto, HasData, HasControl, Entering, Past, Data, Ctl, Kinds, None, objects
  <2>4. Ownership'
    BY <1>6 DEF Base, TypeOK, Known, Ownership, MapObject, Goto, HasControl, Entering, Past, Data, Ctl, Kinds, None, objects
  <2> QED
    BY <2>1, <2>2, <2>3, <2>4 DEF Base
<1> QED
  BY <1>1, <1>2, <1>3, <1>4, <1>5, <1>6 DEF CreateObject

LEMMA CallBase ==
  ASSUME Base,
         \/ \E p \in Procs : ConstructControl(p) \/ Announce(p) \/ Wake(p) \/ TakeDown(p)
         \/ SendStep \/ GetStep,
         ctl' \in [Objects -> ControlData], ledger' \in [Objects -> Account],
         ctl' = ctl \/ \E p \in Procs : HasControl(p) /\ Others(Ctl(p))
  PROVE  Base'
<1>1. /\ UNCHANGED <<name, created, sized, my, owner, crashes, torn>>
      /\ sends' \in {sends, sends + 1} /\ overlapped' \in BOOLEAN
  BY DEF ConstructControl, Announce, Wake, TakeDown, SendStep, BeginSend, MakeRoom, TakeRoom, AddTimeout, Store, GetStep, BeginGet, TakeMsg, GetTimeout, Copy,
         Base, TypeOK, NoteOverlap, objects, history
<1>2. /\ pc' \in [Procs -> PcStates] /\ kind' \in [Procs -> Kinds]
      /\ \A p \in Procs :
           \/ pc'[p] = pc[p] /\ kind'[p] = kind[p]
           \/ /\ pc[p] \in {"construct", "announce", "up", "room", "add", "store", "wait", "copy", "down"}
              /\ pc'[p] \in {"announce", "up", "room", "add", "store", "wait", "copy", "down", "remove"}
              /\ kind'[p] = kind[p] \/ kind'[p] = "data"
              /\ pc'[p] = "remove" => kind'[p] = "data"
  BY DEF ConstructControl, Announce, Wake, TakeDown, SendStep, BeginSend, MakeRoom, TakeRoom, AddTimeout, Store, GetStep, BeginGet, TakeMsg, GetTimeout, Copy,
         Goto, Base, TypeOK, PcStates, Kinds
<1>3. TypeOK'
  BY <1>1, <1>2 DEF Base, TypeOK
<1>4. Known'
  BY <1>1, ControlKnown DEF Base, Known
<1>5. Held'
  BY <1>1, <1>2 DEF Base, Held, HasData, HasControl, Entering, Past, Data, Ctl
<1>6. Ownership'
  BY <1>1, <1>2 DEF Base, Ownership, HasControl, Entering, Past, Data, Ctl
<1> QED
  BY <1>3, <1>4, <1>5, <1>6 DEF Base

LEMMA LeaveBase ==
  ASSUME Base, NEW p \in Procs, RemoveObject(p) \/ Crash(p),
         ctl' \in [Objects -> ControlData], ledger' \in [Objects -> Account],
         ctl' = ctl \/ \E q \in Procs : HasControl(q) /\ Others(Ctl(q))
  PROVE  Base'
<1>1. CASE RemoveObject(p)
  <2>1. TypeOK'
    BY <1>1, LifecycleAssumption DEF Base, TypeOK, RemoveObject, Goto, PcStates, Kinds, None
  <2>2. Known'
    BY <1>1, LifecycleAssumption, ControlKnown DEF Base, TypeOK, Known, RemoveObject, Kinds, None
  <2>3. Held'
    BY <1>1 DEF Base, TypeOK, Held, RemoveObject, Goto, HasData, HasControl, Entering, Past, Data, Ctl, Kinds, None
  <2>4. Ownership'
    BY <1>1 DEF Base, TypeOK, Ownership, RemoveObject, Goto, HasControl, Entering, Past, Data, Ctl, Kinds, None
  <2> QED
    BY <2>1, <2>2, <2>3, <2>4 DEF Base
<1>2. CASE Crash(p)
  <2>0. \A q \in Procs : pc'[q] = (IF q = p THEN "gone" ELSE pc[q])
    BY <1>2 DEF Base, TypeOK, Crash
  <2>1. TypeOK'
    BY <1>2, LifecycleAssumption DEF Base, TypeOK, Crash, PcStates, Kinds, None, objects
  <2>2. Known'
    BY <1>2, LifecycleAssumption, ControlKnown DEF Base, TypeOK, Known, Crash, Kinds, None, objects
  <2>3. Held'
    BY <1>2, <2>0 DEF Base, TypeOK, Held, Crash, HasData, HasControl, Entering, Past, Data, Ctl, Kinds, None
  <2>4. Ownership'
    BY <1>2, <2>0 DEF Base, TypeOK, Ownership, Crash, HasControl, Entering, Past, Data, Ctl, Kinds, None, objects
  <2> QED
    BY <2>1, <2>2, <2>3, <2>4 DEF Base
<1> QED
  BY <1>1, <1>2

LEMMA BaseStep == Base /\ [Next]_vars => Base'
<1> SUFFICES ASSUME Base, [Next]_vars PROVE Base'
  OBVIOUS
<1>1. CASE Next
  <2>1. ctl' \in [Objects -> ControlData] /\ (ctl' = ctl \/ \E p \in Procs : HasControl(p) /\ Others(Ctl(p)))
    BY <1>1, ControlStep DEF Base
  <2>2. ledger' \in [Objects -> Account]
    BY <1>1, LedgerStep DEF Base
  <2> QED
    BY <1>1, <2>1, <2>2, ConstructorBase, CallBase, LeaveBase DEF Next, LifeStep
<1>2. CASE UNCHANGED vars
  BY <1>2 DEF vars, objects, history, Base, TypeOK, Known, Held, Ownership, HasData, HasControl, Entering, Past,
          Data, Ctl
<1> QED
  BY <1>1, <1>2
----------------------------------------------------------------------------
Names == NamesHeld /\ Paired

LEMMA HalfBuiltData == ASSUME Base, NEW q \in Procs, HalfBuilt(q) PROVE Data(q) # None
<1>1. kind[q] \in Kinds /\ pc[q] # "failed" /\ HasData(q)
  BY DEF Base, TypeOK, HalfBuilt, HasData, Kinds
<1> QED
  BY <1>1 DEF Base, Held

(* Names, for the three steps that touch the names.                        *)
LEMMA CreateNames ==
  ASSUME Base, Names, NEW p \in Procs, CreateObject(p), torn' = FALSE
  PROVE  Names'
<1>0. torn = FALSE /\ (HalfRemoved => \E q \in Procs : HalfBuilt(q))
  BY DEF CreateObject, NoteHalfRemoved, Base, TypeOK
<1>1. CASE MakeObject(p)
  <2> DEFINE new == created[kind[p]] + 1
  <2>1. new > created[kind[p]] /\ created[kind[p]] \in Nat /\ new \in Nat /\ new # None
    BY DEF Base, TypeOK, None
  <2>2. /\ created'[kind[p]] = new /\ name' = [name EXCEPT ![kind[p]] = new]
        /\ my' = [my EXCEPT ![p][kind[p]] = new] /\ name[kind[p]] = None
        /\ pc' = [pc EXCEPT ![p] = "size"] /\ kind' = kind /\ pc[p] = "create"
    BY <1>1 DEF CreateObject, MakeObject, FindExisting, Goto, Base, TypeOK
  <2> HIDE DEF new
  <2>3. \A q \in Procs : q # p => my'[q] = my[q] /\ pc'[q] = pc[q]
    BY <2>2 DEF Base, TypeOK
  <2>4. CASE kind[p] = "data"
    <3>1. \A q \in Procs : ~HalfBuilt(q)
      BY <1>0, <2>2, <2>4, HalfBuiltData DEF Names, NamesHeld
    <3>2. ~HalfRemoved
      BY <1>0, <3>1
    <3>3. name["control"] = None /\ name'["control"] = None /\ name'["data"] = new
          /\ my'[p]["data"] = new
      BY <2>2, <2>4, <3>2 DEF HalfRemoved, Base, TypeOK, Kinds
    <3>4. \A q \in Procs : Holding(q)' => q # p /\ Holding(q) /\ Ctl(q) # None
      BY <2>2, <2>3, <2>4 DEF Holding, Entering, Attached, Base, TypeOK, Held, HasControl, Past
    <3>5. \A q \in Procs : HalfBuilt(q)' => q = p
      BY <2>2, <2>3, <2>4, <3>1 DEF HalfBuilt
    <3>6. ~(pc'[p] \in {"size", "map"} /\ kind'[p] = "control") /\ \A q \in Procs : q # p /\ pc[q] \in {"size", "map"} => ~(kind[q] = "control")
      BY <2>2, <2>4, <3>1 DEF HalfBuilt
    <3>7. NamesHeld'
      BY <2>2, <2>3, <2>4, <3>3, <3>4, <3>5, <3>6 DEF NamesHeld, Data, Ctl
    <3>8. Paired'
      BY <1>0, <2>3, <3>4 DEF Names, Paired, Data, Ctl
    <3> QED
      BY <3>7, <3>8 DEF Names
  <2>5. CASE kind[p] = "control"
    <3>1. HalfBuilt(p) /\ name["data"] = Data(p)
      BY <1>0, <2>2, <2>5 DEF HalfBuilt, Names, NamesHeld
    <3>2. /\ name'["data"] = name["data"] /\ name'["control"] = new
          /\ my'[p]["control"] = new /\ my'[p]["data"] = my[p]["data"]
      BY <2>2, <2>5 DEF Base, TypeOK, Kinds
    <3>3. \A q \in Procs : q # p => Ctl(q) # new
      BY <2>1, <2>5 DEF Base, TypeOK, Known, Ctl, Kinds
    <3>9. \A q \in Procs : ~(pc[q] \in {"size", "map"} /\ kind[q] = "control")
      <4> SUFFICES ASSUME NEW q \in Procs, pc[q] \in {"size", "map"}, kind[q] = "control" PROVE FALSE
        OBVIOUS
      <4>1. name["control"] = Ctl(q)
        BY <1>0 DEF Names, NamesHeld
      <4>2. Ctl(q) # None
        BY DEF Base, Held, HasControl, Entering
      <4> QED
        BY <2>2, <2>5, <4>1, <4>2
    <3>4. NamesHeld'
      <4> SUFFICES ASSUME NEW q \in Procs
          PROVE /\ HalfBuilt(q)' => name'["data"] = Data(q)'
                /\ pc'[q] \in {"size", "map"} /\ kind'[q] = "control" => name'["control"] = Ctl(q)'
                /\ Holding(q)' /\ name'["control"] = Ctl(q)' => name'["data"] \in {None, Data(q)'}
        BY DEF NamesHeld
      <4>1. CASE q = p
        BY <3>1, <3>2, <4>1 DEF Data, Ctl
      <4>2. CASE q # p
        <5>1. pc'[q] = pc[q] /\ kind'[q] = kind[q] /\ my'[q] = my[q] /\ Ctl(q) # new
          BY <2>2, <2>3, <3>3, <4>2
        <5>2. HalfBuilt(q)' => name["data"] = Data(q)
          BY <1>0, <5>1 DEF Names, NamesHeld, HalfBuilt
        <5> QED
          BY <3>2, <3>9, <5>1, <5>2 DEF Data, Ctl
      <4> QED
        BY <4>1, <4>2
    <3>5. Paired'
      BY <1>0, <2>2, <2>3, <3>2, <3>3 DEF Names, Paired, Holding, Entering, Attached, Data, Ctl, Base, TypeOK
    <3> QED
      BY <3>4, <3>5 DEF Names
  <2> QED
    BY <2>4, <2>5 DEF Base, TypeOK, Kinds
<1>2. CASE FindExisting(p)
  <2>1. /\ UNCHANGED <<name, my, kind>> /\ pc[p] = "create" /\ pc' = [pc EXCEPT ![p] = "open"]
    BY <1>2 DEF CreateObject, FindExisting, Goto
  <2>2. \A q \in Procs : HalfBuilt(q)' <=> HalfBuilt(q)
    BY <2>1 DEF HalfBuilt, Base, TypeOK
  <2>3. \A q \in Procs : Holding(q)' <=> Holding(q)
    BY <2>1 DEF Holding, Entering, Attached, Base, TypeOK
  <2>4. NamesHeld'
    BY <1>0, <2>1, <2>2, <2>3 DEF Names, NamesHeld, Data, Ctl, Base, TypeOK
  <2>5. Paired'
    BY <1>0, <2>1, <2>3 DEF Names, Paired, Data, Ctl
  <2> QED
    BY <2>4, <2>5 DEF Names
<1> QED
  BY <1>1, <1>2 DEF CreateObject

LEMMA OpenNames ==
  ASSUME Base, Names, NEW p \in Procs, OpenObject(p), torn' = FALSE
  PROVE  Names'
<1>1. /\ UNCHANGED <<name, kind>> /\ pc[p] = "open" /\ torn = FALSE
      /\ pc' = [pc EXCEPT ![p] = IF name[kind[p]] = None THEN "failed" ELSE "map"]
      /\ my' = [my EXCEPT ![p][kind[p]] = name[kind[p]]]
  BY DEF OpenObject, Goto, objects, history
<1>2. \A q \in Procs : q # p => my'[q] = my[q] /\ pc'[q] = pc[q]
  BY <1>1 DEF Base, TypeOK
<1>3. CASE name[kind[p]] = None
  <2>1. pc'[p] = "failed"
    BY <1>1, <1>3 DEF Base, TypeOK
  <2> QED
    BY <1>1, <1>2, <2>1 DEF Names, NamesHeld, Paired, HalfBuilt, Holding, Entering, Attached, Data, Ctl
<1>4. CASE name[kind[p]] # None /\ kind[p] = "data"
  <2>1. pc'[p] = "map" /\ my'[p]["data"] = name["data"]
    BY <1>1, <1>4 DEF Base, TypeOK, Kinds
  <2> QED
    BY <1>1, <1>2, <1>4, <2>1 DEF Names, NamesHeld, Paired, HalfBuilt, Holding, Entering, Attached, Data, Ctl
<1>5. CASE name[kind[p]] # None /\ kind[p] = "control"
  <2>1. pc'[p] = "map" /\ my'[p]["control"] = name["control"] /\ my'[p]["data"] = my[p]["data"]
    BY <1>1, <1>5 DEF Base, TypeOK, Kinds
  <2>2. HalfBuilt(p) /\ name["data"] = Data(p) /\ Data(p) # None
    BY <1>1, <1>5 DEF HalfBuilt, Names, NamesHeld, Base, Held, HasData
  <2>3. NamesHeld'
    BY <1>1, <1>2, <1>5, <2>1, <2>2 DEF Names, NamesHeld, HalfBuilt, Holding, Entering, Attached, Data, Ctl
  <2>4. \A q \in Procs : q # p /\ Holding(q) /\ Ctl(q) = name["control"] => Data(q) = Data(p)
    BY <1>1, <2>2 DEF Names, NamesHeld
  <2>5. Paired'
    BY <1>1, <1>2, <1>5, <2>1, <2>4 DEF Names, Paired, Holding, Entering, Attached, Data, Ctl
  <2> QED
    BY <2>3, <2>5 DEF Names
<1> QED
  BY <1>3, <1>4, <1>5 DEF Base, TypeOK, Kinds

LEMMA RemoveNames ==
  ASSUME Base, Names, NEW p \in Procs, RemoveObject(p), torn' = FALSE
  PROVE  Names'
<1>1. torn = FALSE /\ \A q \in Procs : ~HalfBuilt(q)
  BY DEF RemoveObject, Base, TypeOK
<1>2. /\ name' = [name EXCEPT ![kind[p]] = None] /\ my' = [my EXCEPT ![p][kind[p]] = None]
      /\ pc[p] = "remove" /\ pc'[p] \in {"remove", "gone"}
      /\ \A q \in Procs : q # p => my'[q] = my[q] /\ pc'[q] = pc[q] /\ kind'[q] = kind[q]
  BY DEF RemoveObject, Goto, Base, TypeOK
<1>3. \A q \in Procs : ~HalfBuilt(q)' /\ (Holding(q)' => q # p /\ Holding(q) /\ Ctl(q) # None)
  BY <1>1, <1>2 DEF HalfBuilt, Holding, Entering, Attached, Base, Held, HasControl, Past
<1>4. NamesHeld'
  <2>1. \A k \in Kinds : name'[k] = name[k] \/ name'[k] = None
    BY <1>2 DEF Base, TypeOK
  <2>2. ASSUME NEW q \in Procs, Holding(q)', name'["control"] = Ctl(q)' PROVE name'["data"] \in {None, Ctl(q)', Data(q)'}
    BY <1>1, <1>2, <1>3, <2>1, <2>2 DEF Names, NamesHeld, Data, Ctl, Kinds
  <2> QED
    BY <1>1, <1>2, <1>3, <2>1 DEF Names, NamesHeld, Data, Ctl, Kinds, HalfBuilt, Entering, Attached
<1>5. Paired'
  BY <1>1, <1>2, <1>3 DEF Names, Paired, Data, Ctl
<1> QED
  BY <1>4, <1>5 DEF Names

(* Steps that touch no name: at most one process moves, and it holds no    *)
(* more than before.                                                       *)
LEMMA QuietNames ==
  ASSUME Base, Names, UNCHANGED name, torn' = torn,
         \A q \in Procs :
           /\ HalfBuilt(q)' => HalfBuilt(q) /\ Data(q)' = Data(q)
           /\ Holding(q)' => Holding(q) /\ Data(q)' = Data(q) /\ Ctl(q)' = Ctl(q)
           /\ pc'[q] \in {"size", "map"} /\ kind'[q] = "control" =>
                 pc[q] \in {"size", "map"} /\ kind[q] = "control" /\ Ctl(q)' = Ctl(q)
  PROVE  Names'
<1>1. NamesHeld'
  BY DEF Names, NamesHeld
<1>2. Paired'
  BY DEF Names, Paired
<1> QED
  BY <1>1, <1>2 DEF Names

(* Names is preserved by every step.                                       *)
LEMMA NamesStep == Base /\ Names /\ [Next]_vars => Names'
<1> SUFFICES ASSUME Base, Names, [Next]_vars PROVE Names'
  OBVIOUS
<1>0. CASE torn' # FALSE
  <2>1. torn' \in BOOLEAN
    BY BaseStep DEF Base, TypeOK
  <2> QED
    BY <1>0, <2>1 DEF Names, NamesHeld, Paired
<1> SUFFICES ASSUME torn' = FALSE PROVE Names'
  BY <1>0
<1>1. ASSUME NEW p \in Procs, Construct(p) PROVE Names'
  BY <1>1, QuietNames DEF Construct, Goto, objects, history, Base, TypeOK, HalfBuilt, Holding, Entering, Attached, Data, Ctl
<1>2. ASSUME NEW p \in Procs, SizeObject(p) PROVE Names'
  BY <1>2, QuietNames DEF SizeObject, Goto, objects, history, Base, TypeOK, HalfBuilt, Holding, Entering, Attached, Data, Ctl
<1>3. ASSUME NEW p \in Procs, MapObject(p) PROVE Names'
  BY <1>3, QuietNames DEF MapObject, Goto, objects, history, Base, TypeOK, Kinds, HalfBuilt, Holding, Entering, Attached, Data, Ctl
<1>4. ASSUME NEW p \in Procs, ConstructControl(p) \/ Announce(p) PROVE Names'
  BY <1>4, QuietNames DEF ConstructControl, Announce, NoteOverlap, Goto, objects, history, Base, TypeOK, HalfBuilt, Holding, Entering, Attached, Data, Ctl
<1>5. ASSUME NEW p \in Procs, Wake(p) \/ TakeDown(p) PROVE Names'
  BY <1>5, QuietNames DEF Wake, TakeDown, NoteOverlap, Goto, objects, history, Base, TypeOK, HalfBuilt, Holding, Entering, Attached, Data, Ctl
<1>6. ASSUME NEW p \in Procs, Crash(p) PROVE Names'
  BY <1>6, QuietNames DEF Crash, objects, history, Base, TypeOK, HalfBuilt, Holding, Entering, Attached, Data, Ctl
<1>7. CASE SendStep \/ GetStep
  BY <1>7, QuietNames DEF SendStep, BeginSend, MakeRoom, TakeRoom, AddTimeout, Store, GetStep, BeginGet, TakeMsg, GetTimeout, Copy,
     Goto, objects, history, Base, TypeOK, HalfBuilt, Holding, Entering, Attached, Data, Ctl
<1>8. CASE UNCHANGED vars
  BY <1>8, QuietNames DEF vars, objects, history, HalfBuilt, Holding, Entering, Attached, Data, Ctl
<1> QED
  BY <1>1, <1>2, <1>3, <1>4, <1>5, <1>6, <1>7, <1>8, CreateNames, OpenNames, RemoveNames DEF Next, LifeStep
----------------------------------------------------------------------------
Together == OwnerFirst /\ UpWhenBoth

(* A step that notes no overlap: nobody else is entering the same control  *)
(* data.                                                                   *)
LEMMA NotOverlapped ==
  ASSUME Base, NEW p \in Procs, HasControl(p), NoteOverlap(p), overlapped' = FALSE
  PROVE  /\ overlapped = FALSE
         /\ \A q \in Procs : q # p /\ Entering(q) => Ctl(q) # Ctl(p)
BY DEF Base, TypeOK, NoteOverlap, Overlaps, Entering, Ctl

(* Steps in which nobody comes up or begins to enter as the owner.         *)
LEMMA QuietTogether ==
  ASSUME Base, Together, overlapped' = overlapped,
         \A q \in Procs :
           /\ (owner[q] /\ Entering(q))' => owner[q] /\ Entering(q) /\ Ctl(q)' = Ctl(q)
           /\ Past(q)' => Past(q) /\ Ctl(q)' = Ctl(q)
           /\ Attached(q)' => Attached(q),
         \A q \in Procs : Attached(q) => SameStatus(Ctl(q))
  PROVE  Together'
<1>1. OwnerFirst'
  BY DEF Together, OwnerFirst
<1>2. UpWhenBoth'
  <2> SUFFICES ASSUME overlapped = FALSE, NEW a \in Procs, NEW b \in Procs, a # b,
                      Attached(a)', Attached(b)', Ctl(a)' = Ctl(b)'
      PROVE  ctl'[my'[a]["control"]].InterfaceStatus
    <3>1. overlapped \in BOOLEAN
      BY DEF Base, TypeOK
    <3> QED
      BY <3>1 DEF UpWhenBoth, Control
  <2>1. Past(a)' /\ Past(b)'
    BY DEF Past, Attached
  <2>2. Attached(a) /\ Attached(b) /\ Ctl(a) = Ctl(b) /\ my'[a]["control"] = Ctl(a)
    BY <2>1 DEF Ctl
  <2>3. ctl[Ctl(a)].InterfaceStatus
    BY <2>2 DEF Together, UpWhenBoth, Control, Ctl
  <2> QED
    BY <2>2, <2>3 DEF SameStatus
<1> QED
  BY <1>1, <1>2 DEF Together

(* The owner announces itself before anybody else is past; the other finds *)
(* the interface up.                                                       *)
LEMMA AnnounceTogether ==
  ASSUME Base, Together, NEW p \in Procs, Announce(p), overlapped' = FALSE
  PROVE  Together'
<1>1. /\ pc[p] = "announce" /\ Entering(p) /\ HasControl(p) /\ pc'[p] = "up"
      /\ \A q \in Procs : q # p => pc'[q] = pc[q]
      /\ my' = my /\ owner' = owner /\ kind' = kind
  BY DEF Announce, Goto, Base, TypeOK, HasControl, Entering
<1>2. overlapped = FALSE /\ \A q \in Procs : q # p /\ Entering(q) => Ctl(q) # Ctl(p)
  BY <1>1, NotOverlapped DEF Announce
<1>3. /\ \A q \in Procs : Ctl(q)' = Ctl(q)
      /\ \A q \in Procs : Entering(q)' => q # p /\ Entering(q)
      /\ \A q \in Procs : Past(q)' => q = p \/ Past(q)
      /\ \A q \in Procs : Attached(q)' => q = p \/ Attached(q)
  BY <1>1 DEF Ctl, Entering, Past, Attached
<1>4. OwnerFirst'
  BY <1>1, <1>2, <1>3 DEF Together, OwnerFirst
<1>5. UpWhenBoth'
  <2> SUFFICES ASSUME NEW a \in Procs, NEW b \in Procs, a # b,
                      Attached(a)', Attached(b)', Ctl(a)' = Ctl(b)'
      PROVE  ctl'[Ctl(a)].InterfaceStatus
    BY <1>1 DEF UpWhenBoth, Control, Ctl
  <2>1. HasControl(a) /\ Ctl(a) = Ctl(b)
    BY <1>1, <1>3 DEF HasControl, Past, Attached
  <2>2. Ctl(a) \in Objects
    BY <2>1, OnObject DEF Base
  <2>3. CASE Ctl(a) = Ctl(p)
    <3>1. PICK q \in Procs : q # p /\ Attached(q) /\ Ctl(q) = Ctl(p)
      BY <1>3, <2>1, <2>3
    <3>2. ~owner[p]
      BY <1>1, <1>2, <3>1 DEF Together, OwnerFirst, Past, Attached
    <3> QED
      BY <2>3, <3>2, AnnounceWrites DEF Base
  <2>4. CASE Ctl(a) # Ctl(p)
    <3>1. Attached(a) /\ Attached(b)
      BY <1>3, <2>1, <2>4
    <3>2. ctl[Ctl(a)].InterfaceStatus
      BY <1>2, <2>1, <3>1 DEF Together, UpWhenBoth, Control, Ctl
    <3> QED
      BY <2>2, <2>4, <3>2, AnnounceWrites DEF Base, Others
  <2> QED
    BY <2>3, <2>4
<1> QED
  BY <1>4, <1>5 DEF Together

LEMMA TakeDownTogether ==
  ASSUME Base, Together, NEW p \in Procs, TakeDown(p), overlapped' = FALSE
  PROVE  Together'
<1>1. /\ pc[p] = "down" /\ HasControl(p) /\ pc'[p] = "remove"
      /\ \A q \in Procs : q # p => pc'[q] = pc[q] /\ kind'[q] = kind[q]
      /\ my' = my /\ owner' = owner
  BY DEF TakeDown, Goto, Base, TypeOK, HasControl, Past
<1>2. overlapped = FALSE /\ \A q \in Procs : q # p /\ Entering(q) => Ctl(q) # Ctl(p)
  BY <1>1, NotOverlapped DEF TakeDown
<1>3. /\ \A q \in Procs : Ctl(q)' = Ctl(q)
      /\ \A q \in Procs : Entering(q)' => Entering(q)
      /\ \A q \in Procs : Past(q)' => Past(q)
      /\ \A q \in Procs : Attached(q)' => q # p /\ Attached(q)
  BY <1>1 DEF Ctl, Entering, Past, Attached
<1>4. OwnerFirst'
  BY <1>1, <1>2, <1>3 DEF Together, OwnerFirst
<1>5. UpWhenBoth'
  BY <1>3 DEF UpWhenBoth, Procs
<1> QED
  BY <1>4, <1>5 DEF Together

(* Nobody else has an object just made.                                    *)
LEMMA MakeTogether ==
  ASSUME Base, Together, NEW p \in Procs, CreateObject(p), MakeObject(p)
  PROVE  Together'
<1> DEFINE new == created[kind[p]] + 1
<1>1. new > created[kind[p]] /\ created[kind[p]] \in Nat
  BY DEF Base, TypeOK
<1>2. /\ my' = [my EXCEPT ![p][kind[p]] = new] /\ owner' = owner /\ ctl' = ctl /\ overlapped' = overlapped
      /\ pc' = [pc EXCEPT ![p] = "size"] /\ kind' = kind /\ pc[p] = "create"
  BY DEF CreateObject, MakeObject, Goto, Base, TypeOK
<1> HIDE DEF new
<1>3. \A q \in Procs : q # p => my'[q] = my[q] /\ pc'[q] = pc[q]
  BY <1>2 DEF Base, TypeOK
<1>4. \A q \in Procs : Past(q)' \/ Attached(q)' => q # p /\ Past(q) /\ Ctl(q)' = Ctl(q)
  BY <1>2, <1>3 DEF Past, Attached, Ctl, Base, TypeOK
<1>5. Entering(p)' => Ctl(p)' = new /\ \A q \in Procs : Ctl(q) # new
  <2> SUFFICES ASSUME kind[p] = "control" PROVE my'[p]["control"] = new /\ \A q \in Procs : my[q]["control"] # new
    BY <1>2 DEF Entering, Ctl, Base, TypeOK
  <2> QED
    BY <1>1, <1>2 DEF Base, TypeOK, Known, Kinds
<1>6. OwnerFirst'
  BY <1>2, <1>3, <1>4, <1>5 DEF Together, OwnerFirst, Entering, Ctl
<1>7. UpWhenBoth'
  BY <1>2, <1>3, <1>4 DEF Together, UpWhenBoth, Attached, Control, Ctl
<1> QED
  BY <1>6, <1>7 DEF Together

(* Together is preserved by every step.                                    *)
LEMMA TogetherStep == Base /\ Together /\ [Next]_vars => Together'
<1> SUFFICES ASSUME Base, Together, [Next]_vars PROVE Together'
  OBVIOUS
<1>0. CASE overlapped' # FALSE
  <2>1. overlapped' \in BOOLEAN
    BY BaseStep DEF Base, TypeOK
  <2> QED
    BY <1>0, <2>1 DEF Together, OwnerFirst, UpWhenBoth
<1> SUFFICES ASSUME overlapped' = FALSE PROVE Together'
  BY <1>0
<1>1. ASSUME NEW p \in Procs, Construct(p) PROVE Together'
  BY <1>1, QuietTogether DEF Construct, Goto, objects, history, Base, TypeOK, Entering, Past, Attached, Ctl, SameStatus
<1>2. ASSUME NEW p \in Procs, SizeObject(p) PROVE Together'
  BY <1>2, QuietTogether DEF SizeObject, Goto, objects, history, Base, TypeOK, Entering, Past, Attached, Ctl, SameStatus
<1>3. ASSUME NEW p \in Procs, MapObject(p) PROVE Together'
  BY <1>3, QuietTogether DEF MapObject, Goto, objects, history, Base, TypeOK, Kinds, Entering, Past, Attached, Ctl, SameStatus
<1>4. ASSUME NEW p \in Procs, CreateObject(p), FindExisting(p) PROVE Together'
  BY <1>4, QuietTogether DEF CreateObject, FindExisting, Goto, Base, TypeOK, Entering, Past, Attached, Ctl, SameStatus
<1>5. ASSUME NEW p \in Procs, OpenObject(p) PROVE Together'
  BY <1>5, QuietTogether DEF OpenObject, Goto, objects, history, Base, TypeOK, Kinds, Ownership, Entering, Past, Attached, Ctl, SameStatus
<1>6. ASSUME NEW p \in Procs, ConstructControl(p) PROVE Together'
  <2>1. overlapped' = overlapped
    BY <1>6, NotOverlapped DEF ConstructControl, Goto, HasControl, Entering
  <2>2. \A o \in Objects : SameStatus(o)
    BY <1>6, ConstructWrites DEF Base, Others, SameStatus
  <2>3. \A q \in Procs : Attached(q) => SameStatus(Ctl(q))
    BY <2>2, OnObject DEF Base, Attached, HasControl, Past
  <2> QED
    BY <1>6, <2>1, <2>3, QuietTogether DEF ConstructControl, Goto, Base, TypeOK, Entering, Past, Attached, Ctl
<1>7. ASSUME NEW p \in Procs, RemoveObject(p) PROVE Together'
  <2>1. ASSUME NEW q \in Procs, Attached(q) PROVE SameStatus(Ctl(q))
    <3>1. q # p /\ Ctl(q) \in Objects
      BY <1>7, <2>1, OnObject DEF RemoveObject, Goto, Base, Attached, HasControl, Past
    <3> QED
      BY <1>7, <3>1, GiveBackWrites DEF Base, SameStatus
  <2> QED
    BY <1>7, <2>1, QuietTogether DEF RemoveObject, Goto, Base, TypeOK, Kinds, Held, Entering, Past, Attached, Ctl
<1>8. ASSUME NEW p \in Procs, Crash(p) PROVE Together'
  <2>2. \A o \in Objects : SameStatus(o)
    BY <1>8, CrashWrites DEF Base, Others, SameStatus
  <2>3. \A q \in Procs : Attached(q) => SameStatus(Ctl(q))
    BY <2>2, OnObject DEF Base, Attached, HasControl, Past
  <2> QED
    BY <1>8, <2>3, QuietTogether DEF Crash, objects, Base, TypeOK, Entering, Past, Attached, Ctl
<1>9. CASE SendStep \/ GetStep
  <2>2. \A o \in Objects : SameStatus(o)
    <3>1. CASE MakeRoom
      <4>1. HasControl(Sender)
        BY <3>1 DEF MakeRoom, Goto, HasControl, Past
      <4> QED
        BY <3>1, <4>1, DropWrites DEF MakeRoom, HasRoom, Base, Others, SameStatus
    <3>2. CASE TakeRoom \/ Store \/ TakeMsg \/ Copy
      BY <3>2, TakeRoomWrites, StoreWrites, TakeWrites, CopyWrites DEF Base, Others, SameStatus
    <3>3. CASE BeginSend \/ AddTimeout \/ BeginGet \/ GetTimeout
      BY <3>3 DEF BeginSend, AddTimeout, BeginGet, GetTimeout, SameStatus
    <3> QED
      BY <1>9, <3>1, <3>2, <3>3 DEF SendStep, GetStep
  <2>3. \A q \in Procs : Attached(q) => SameStatus(Ctl(q))
    BY <2>2, OnObject DEF Base, Attached, HasControl, Past
  <2> QED
    BY <1>9, <2>3, QuietTogether DEF SendStep, BeginSend, MakeRoom, TakeRoom, AddTimeout, Store, GetStep, BeginGet, TakeMsg, GetTimeout, Copy,
       Goto, objects, history, Base, TypeOK, Entering, Past, Attached, Ctl
<1>11. ASSUME NEW p \in Procs, Wake(p) PROVE Together'
  <2>2. \A o \in Objects : SameStatus(o)
    BY <1>11, WakeWrites DEF Base, Others, SameStatus
  <2>3. \A q \in Procs : Attached(q) => SameStatus(Ctl(q))
    BY <2>2, OnObject DEF Base, Attached, HasControl, Past
  <2> QED
    BY <1>11, <2>3, QuietTogether DEF Wake, Goto, objects, Base, TypeOK, Entering, Past, Attached, Ctl
<1>10. CASE UNCHANGED vars
  BY <1>10, QuietTogether DEF vars, objects, history, Entering, Past, Attached, Ctl, SameStatus
<1> QED
  BY <1>1, <1>2, <1>3, <1>4, <1>5, <1>6, <1>7, <1>8, <1>9, <1>10, <1>11, MakeTogether, AnnounceTogether, TakeDownTogether
     DEF Next, LifeStep, CreateObject
----------------------------------------------------------------------------
(* The receiver alone takes tokens.                                        *)
LEMMA InReceiverStep == Base /\ InReceiver /\ [Next]_vars => InReceiver'
<1> SUFFICES ASSUME Base, InReceiver, [Next]_vars PROVE InReceiver'
  OBVIOUS
<1>1. Sender \in Procs /\ Sender # Receiver /\ pc \in [Procs -> PcStates] /\ pc[Sender] # "copy"
  BY LifecycleAssumption DEF Procs, Base, TypeOK, InReceiver
<1>2. ASSUME NEW p \in Procs, NEW from, NEW to, Goto(p, from, to), to # "copy" PROVE pc'[Sender] # "copy"
  BY <1>1, <1>2 DEF Goto
<1>3. ASSUME NEW p \in Procs, Construct(p) \/ CreateObject(p) PROVE pc'[Sender] # "copy"
  BY <1>1, <1>3 DEF Construct, CreateObject, MakeObject, FindExisting, Goto
<1>4. ASSUME NEW p \in Procs, SizeObject(p) \/ OpenObject(p) \/ MapObject(p) PROVE pc'[Sender] # "copy"
  BY <1>1, <1>4 DEF SizeObject, OpenObject, MapObject, Goto
<1>5. ASSUME NEW p \in Procs, ConstructControl(p) \/ Announce(p) \/ Wake(p) \/ TakeDown(p) \/ RemoveObject(p) \/ Crash(p)
      PROVE pc'[Sender] # "copy"
  BY <1>1, <1>5 DEF ConstructControl, Announce, Wake, TakeDown, RemoveObject, Crash, Goto
<1>6. ASSUME SendStep \/ GetStep PROVE pc'[Sender] # "copy"
  BY <1>1, <1>6 DEF SendStep, BeginSend, MakeRoom, TakeRoom, AddTimeout, Store, GetStep, BeginGet, TakeMsg, GetTimeout,
         Copy, Goto
<1>7. CASE UNCHANGED vars
  BY <1>1, <1>7 DEF vars, InReceiver
<1> QED
  BY <1>3, <1>4, <1>5, <1>6, <1>7 DEF Next, LifeStep, InReceiver

(* Arithmetic modulo the width of the count.                               *)
LEMMA WidthShift ==
  ASSUME NEW m \in Nat \ {0}, NEW x \in Int, x % m = 0
  PROVE  (x - m) % m = 0 /\ (x + m) % m = 0
<1> DEFINE k == x \div m
<1>1. k \in Int /\ x = m * k
  OBVIOUS
<1> HIDE DEF k
<1>2. x - m = (k - 1) * m /\ x + m = (k + 1) * m
  BY <1>1
<1>3. \A j \in Int : (j * m) % m = 0
  OBVIOUS
<1>4. k - 1 \in Int /\ k + 1 \in Int
  BY <1>1
<1>5. ((k - 1) * m) % m = 0 /\ ((k + 1) * m) % m = 0
  BY <1>3, <1>4
<1> QED
  BY <1>2, <1>5

LEMMA SameRemainder ==
  ASSUME NEW m \in Nat \ {0}, NEW a \in Int, NEW b \in Int, (a - b) % m = 0
  PROVE  a % m = b % m
<1> DEFINE k == (a - b) \div m
           q == b \div m
           r == b % m
<1>1. k \in Int /\ a - b = m * k
  OBVIOUS
<1>2. q \in Int /\ r \in 0..(m - 1) /\ b = m * q + r
  OBVIOUS
<1> HIDE DEF k, q, r
<1>3. a = m * (q + k) + r
  <2>1. m * (q + k) = m * q + m * k
    BY <1>1, <1>2
  <2> QED
    BY <1>1, <1>2, <2>1
<1>4. \A j \in Int, s \in 0..(m - 1) : (m * j + s) % m = s
  OBVIOUS
<1>5. q + k \in Int
  BY <1>1, <1>2
<1>6. (m * (q + k) + r) % m = r
  BY <1>2, <1>4, <1>5
<1> QED
  BY <1>3, <1>6 DEF r

LEMMA AreNumbers ==
  ASSUME Base, NEW o \in Objects
  PROVE  /\ ctl[o].getMsgSemaphore \in Int /\ ctl[o].NumberMessagesInQueue \in Int
         /\ ctl[o].NumberMessagesInQueue \in Counts
         /\ ledger[o].stray \in Int /\ ledger[o].unpromised \in Int /\ InHand(o) \in Int
         /\ Promises(o) \in Int /\ Messages(o) \in Int /\ Surplus(o) \in Int
<1>1. ctl[o] \in ControlData /\ ledger[o] \in Account
  BY DEF Base, TypeOK
<1>2. /\ ctl[o].getMsgSemaphore \in Int /\ ctl[o].NumberMessagesInQueue \in Int
      /\ ctl[o].NumberMessagesInQueue \in Counts
      /\ ledger[o].stray \in Int /\ ledger[o].unpromised \in Int /\ InHand(o) \in Int
  BY <1>1, LifecycleAssumption DEF ControlData, Counts, Account, InHand
<1> HIDE DEF InHand
<1> QED
  BY <1>2 DEF Promises, Messages, Surplus

(* A control object that keeps its surplus, up to the width of the count.  *)
Steady(o) ==
  /\ Surplus(o) \in Int
  /\ Surplus(o)' \in {Surplus(o), Surplus(o) - Modulus, Surplus(o) + Modulus}

LEMMA SteadyBalances ==
  ASSUME NEW o, Steady(o), Surplus(o) % Modulus = 0
  PROVE  Surplus(o)' % Modulus = 0
<1> DEFINE x == Surplus(o)
           y == Surplus(o)'
<1>1. x \in Int /\ x % Modulus = 0 /\ y \in {x, x - Modulus, x + Modulus}
  BY DEF Steady
<1> HIDE DEF x, y
<1>2. Modulus \in Nat \ {0}
  BY LifecycleAssumption
<1>3. y % Modulus = 0
  BY <1>1, <1>2, WidthShift
<1> QED
  BY <1>3 DEF y

(* Balanced is kept by a step that claims no other control data, and keeps *)
(* the surplus of what is claimed.                                         *)
LEMMA KeepsBalanced ==
  ASSUME Balanced, overlapped = FALSE,
         \A o \in Objects : Claimed(o)' => Claimed(o) /\ Steady(o)
  PROVE  Balanced'
BY SteadyBalances DEF Balanced

(* Tokens and messages that move together leave the surplus as it is.      *)
LEMMA SurplusMoves ==
  ASSUME Base, NEW o \in Objects, NEW posted \in Int, NEW held \in Int, NEW left \in Int,
         NEW counted \in Int, NEW given \in Int, posted + held + left = counted + given,
         ctl'[o].getMsgSemaphore = ctl[o].getMsgSemaphore + posted,
         InHand(o)' = InHand(o) + held,
         ledger'[o].unpromised = ledger[o].unpromised + left,
         ledger'[o].stray = ledger[o].stray + given,
         ctl'[o].NumberMessagesInQueue \in {ctl[o].NumberMessagesInQueue + counted,
                                            ctl[o].NumberMessagesInQueue + counted - Modulus,
                                            ctl[o].NumberMessagesInQueue + counted + Modulus}
  PROVE  Steady(o)
<1>1. /\ ctl[o].getMsgSemaphore \in Int /\ ctl[o].NumberMessagesInQueue \in Int /\ Modulus \in Int
      /\ ledger[o].stray \in Int /\ ledger[o].unpromised \in Int /\ InHand(o) \in Int
  BY AreNumbers, LifecycleAssumption
<1>2. Surplus(o)' = (ctl'[o].getMsgSemaphore + InHand(o)' + ledger'[o].unpromised)
                      - (ctl'[o].NumberMessagesInQueue + ledger'[o].stray)
  BY DEF Surplus, Promises, Messages
<1>3. Surplus(o) = (ctl[o].getMsgSemaphore + InHand(o) + ledger[o].unpromised)
                     - (ctl[o].NumberMessagesInQueue + ledger[o].stray)
  BY DEF Surplus, Promises, Messages
<1>4. /\ ctl'[o].NumberMessagesInQueue \in Int
      /\ Surplus(o)' = ((ctl[o].getMsgSemaphore + posted) + (InHand(o) + held) + (ledger[o].unpromised + left))
                        - (ctl'[o].NumberMessagesInQueue + (ledger[o].stray + given))
  BY <1>1, <1>2
<1>5. Surplus(o)' \in {Surplus(o), Surplus(o) - Modulus, Surplus(o) + Modulus}
  <2> DEFINE t == ctl[o].getMsgSemaphore
             h == InHand(o)
             u == ledger[o].unpromised
             n == ctl[o].NumberMessagesInQueue
             d == ledger[o].stray
             k == ctl'[o].NumberMessagesInQueue
             s == Surplus(o)
             s2 == Surplus(o)'
  <2>1. /\ t \in Int /\ h \in Int /\ u \in Int /\ n \in Int /\ d \in Int /\ k \in Int /\ Modulus \in Int
        /\ s = (t + h + u) - (n + d)
        /\ s2 = ((t + posted) + (h + held) + (u + left)) - (k + (d + given))
        /\ k \in {n + counted, n + counted - Modulus, n + counted + Modulus}
    BY <1>1, <1>3, <1>4
  <2> HIDE DEF t, h, u, n, d, k, s, s2
  <2>2. s2 \in {s, s - Modulus, s + Modulus}
    BY <2>1
  <2> QED
    BY <2>2 DEF s, s2
<1> QED
  BY <1>5, AreNumbers DEF Steady

(* The ways in which a call or a death moves them.                         *)
LEMMA StoreSteady ==
  ASSUME Base, NEW o \in Objects,
         ctl'[o].getMsgSemaphore = ctl[o].getMsgSemaphore + 1,
         InHand(o)' = InHand(o),
         ledger'[o].unpromised = ledger[o].unpromised,
         ledger'[o].stray = ledger[o].stray,
         ctl'[o].NumberMessagesInQueue = Inc(ctl[o].NumberMessagesInQueue)
  PROVE  Steady(o)
<1>1. /\ ctl[o].getMsgSemaphore \in Int /\ ctl[o].NumberMessagesInQueue \in Int /\ Modulus \in Int
      /\ ledger[o].stray \in Int /\ ledger[o].unpromised \in Int /\ InHand(o) \in Int
      /\ ctl[o].NumberMessagesInQueue \in Counts
  BY AreNumbers, LifecycleAssumption
<1>2. ctl'[o].NumberMessagesInQueue \in {ctl[o].NumberMessagesInQueue + (1),
                                         ctl[o].NumberMessagesInQueue + (1) - Modulus,
                                         ctl[o].NumberMessagesInQueue + (1) + Modulus}
  BY <1>1, CountWraps
<1>3. /\ ctl'[o].getMsgSemaphore = ctl[o].getMsgSemaphore + (1) /\ InHand(o)' = InHand(o) + (0)
      /\ ledger'[o].unpromised = ledger[o].unpromised + (0)
      /\ ledger'[o].stray = ledger[o].stray + (0)
  BY <1>1
<1>4. (1) + (0) + (0) = (1) + (0)
  OBVIOUS
<1> QED
  BY <1>2, <1>3, <1>4, SurplusMoves

LEMMA DropSteady ==
  ASSUME Base, NEW o \in Objects,
         ctl'[o].getMsgSemaphore = ctl[o].getMsgSemaphore,
         InHand(o)' = InHand(o),
         ledger'[o].unpromised = ledger[o].unpromised,
         ledger'[o].stray = ledger[o].stray + 1,
         ctl'[o].NumberMessagesInQueue = Dec(ctl[o].NumberMessagesInQueue)
  PROVE  Steady(o)
<1>1. /\ ctl[o].getMsgSemaphore \in Int /\ ctl[o].NumberMessagesInQueue \in Int /\ Modulus \in Int
      /\ ledger[o].stray \in Int /\ ledger[o].unpromised \in Int /\ InHand(o) \in Int
      /\ ctl[o].NumberMessagesInQueue \in Counts
  BY AreNumbers, LifecycleAssumption
<1>2. ctl'[o].NumberMessagesInQueue \in {ctl[o].NumberMessagesInQueue + (-1),
                                         ctl[o].NumberMessagesInQueue + (-1) - Modulus,
                                         ctl[o].NumberMessagesInQueue + (-1) + Modulus}
  BY <1>1, CountWraps
<1>3. /\ ctl'[o].getMsgSemaphore = ctl[o].getMsgSemaphore + (0) /\ InHand(o)' = InHand(o) + (0)
      /\ ledger'[o].unpromised = ledger[o].unpromised + (0)
      /\ ledger'[o].stray = ledger[o].stray + (1)
  BY <1>1
<1>4. (0) + (0) + (0) = (-1) + (1)
  OBVIOUS
<1> QED
  BY <1>2, <1>3, <1>4, SurplusMoves

LEMMA TakeSteady ==
  ASSUME Base, NEW o \in Objects,
         ctl'[o].getMsgSemaphore = ctl[o].getMsgSemaphore - 1,
         InHand(o)' = InHand(o) + 1,
         ledger'[o].unpromised = ledger[o].unpromised,
         ledger'[o].stray = ledger[o].stray,
         ctl'[o].NumberMessagesInQueue = ctl[o].NumberMessagesInQueue
  PROVE  Steady(o)
<1>1. /\ ctl[o].getMsgSemaphore \in Int /\ ctl[o].NumberMessagesInQueue \in Int /\ Modulus \in Int
      /\ ledger[o].stray \in Int /\ ledger[o].unpromised \in Int /\ InHand(o) \in Int
      /\ ctl[o].NumberMessagesInQueue \in Counts
  BY AreNumbers, LifecycleAssumption
<1>2. ctl'[o].NumberMessagesInQueue \in {ctl[o].NumberMessagesInQueue + (0),
                                         ctl[o].NumberMessagesInQueue + (0) - Modulus,
                                         ctl[o].NumberMessagesInQueue + (0) + Modulus}
  BY <1>1, CountWraps
<1>3. /\ ctl'[o].getMsgSemaphore = ctl[o].getMsgSemaphore + (-1) /\ InHand(o)' = InHand(o) + (1)
      /\ ledger'[o].unpromised = ledger[o].unpromised + (0)
      /\ ledger'[o].stray = ledger[o].stray + (0)
  BY <1>1
<1>4. (-1) + (1) + (0) = (0) + (0)
  OBVIOUS
<1> QED
  BY <1>2, <1>3, <1>4, SurplusMoves

LEMMA CopySteady ==
  ASSUME Base, NEW o \in Objects,
         ctl'[o].getMsgSemaphore = ctl[o].getMsgSemaphore,
         InHand(o)' = InHand(o) - 1,
         ledger'[o].unpromised = ledger[o].unpromised,
         ledger'[o].stray = ledger[o].stray,
         ctl'[o].NumberMessagesInQueue = Dec(ctl[o].NumberMessagesInQueue)
  PROVE  Steady(o)
<1>1. /\ ctl[o].getMsgSemaphore \in Int /\ ctl[o].NumberMessagesInQueue \in Int /\ Modulus \in Int
      /\ ledger[o].stray \in Int /\ ledger[o].unpromised \in Int /\ InHand(o) \in Int
      /\ ctl[o].NumberMessagesInQueue \in Counts
  BY AreNumbers, LifecycleAssumption
<1>2. ctl'[o].NumberMessagesInQueue \in {ctl[o].NumberMessagesInQueue + (-1),
                                         ctl[o].NumberMessagesInQueue + (-1) - Modulus,
                                         ctl[o].NumberMessagesInQueue + (-1) + Modulus}
  BY <1>1, CountWraps
<1>3. /\ ctl'[o].getMsgSemaphore = ctl[o].getMsgSemaphore + (0) /\ InHand(o)' = InHand(o) + (-1)
      /\ ledger'[o].unpromised = ledger[o].unpromised + (0)
      /\ ledger'[o].stray = ledger[o].stray + (0)
  BY <1>1
<1>4. (0) + (-1) + (0) = (-1) + (0)
  OBVIOUS
<1> QED
  BY <1>2, <1>3, <1>4, SurplusMoves

LEMMA LeaveSteady ==
  ASSUME Base, NEW o \in Objects,
         ctl'[o].getMsgSemaphore = ctl[o].getMsgSemaphore,
         InHand(o)' = InHand(o) - 1,
         ledger'[o].unpromised = ledger[o].unpromised + 1,
         ledger'[o].stray = ledger[o].stray,
         ctl'[o].NumberMessagesInQueue = ctl[o].NumberMessagesInQueue
  PROVE  Steady(o)
<1>1. /\ ctl[o].getMsgSemaphore \in Int /\ ctl[o].NumberMessagesInQueue \in Int /\ Modulus \in Int
      /\ ledger[o].stray \in Int /\ ledger[o].unpromised \in Int /\ InHand(o) \in Int
      /\ ctl[o].NumberMessagesInQueue \in Counts
  BY AreNumbers, LifecycleAssumption
<1>2. ctl'[o].NumberMessagesInQueue \in {ctl[o].NumberMessagesInQueue + (0),
                                         ctl[o].NumberMessagesInQueue + (0) - Modulus,
                                         ctl[o].NumberMessagesInQueue + (0) + Modulus}
  BY <1>1, CountWraps
<1>3. /\ ctl'[o].getMsgSemaphore = ctl[o].getMsgSemaphore + (0) /\ InHand(o)' = InHand(o) + (-1)
      /\ ledger'[o].unpromised = ledger[o].unpromised + (1)
      /\ ledger'[o].stray = ledger[o].stray + (0)
  BY <1>1
<1>4. (0) + (-1) + (1) = (0) + (0)
  OBVIOUS
<1> QED
  BY <1>2, <1>3, <1>4, SurplusMoves

LEMMA WakeSteady ==
  ASSUME Base, NEW o \in Objects,
         ctl'[o].getMsgSemaphore = ctl[o].getMsgSemaphore + 1,
         InHand(o)' = InHand(o),
         ledger'[o].unpromised = ledger[o].unpromised,
         ledger'[o].stray = ledger[o].stray + 1,
         ctl'[o].NumberMessagesInQueue = ctl[o].NumberMessagesInQueue
  PROVE  Steady(o)
<1>1. /\ ctl[o].getMsgSemaphore \in Int /\ ctl[o].NumberMessagesInQueue \in Int /\ Modulus \in Int
      /\ ledger[o].stray \in Int /\ ledger[o].unpromised \in Int /\ InHand(o) \in Int
      /\ ctl[o].NumberMessagesInQueue \in Counts
  BY AreNumbers, LifecycleAssumption
<1>2. ctl'[o].NumberMessagesInQueue \in {ctl[o].NumberMessagesInQueue + (0),
                                         ctl[o].NumberMessagesInQueue + (0) - Modulus,
                                         ctl[o].NumberMessagesInQueue + (0) + Modulus}
  BY <1>1
<1>3. /\ ctl'[o].getMsgSemaphore = ctl[o].getMsgSemaphore + (1) /\ InHand(o)' = InHand(o) + (0)
      /\ ledger'[o].unpromised = ledger[o].unpromised + (0)
      /\ ledger'[o].stray = ledger[o].stray + (1)
  BY <1>1
<1>4. (1) + (0) + (0) = (0) + (1)
  OBVIOUS
<1> QED
  BY <1>2, <1>3, <1>4, SurplusMoves

LEMMA UnpostedSteady ==
  ASSUME Base, NEW o \in Objects,
         ctl'[o].getMsgSemaphore = ctl[o].getMsgSemaphore,
         InHand(o)' = InHand(o),
         ledger'[o].unpromised = ledger[o].unpromised + 1,
         ledger'[o].stray = ledger[o].stray,
         ctl'[o].NumberMessagesInQueue = Inc(ctl[o].NumberMessagesInQueue)
  PROVE  Steady(o)
<1>1. /\ ctl[o].getMsgSemaphore \in Int /\ ctl[o].NumberMessagesInQueue \in Int /\ Modulus \in Int
      /\ ledger[o].stray \in Int /\ ledger[o].unpromised \in Int /\ InHand(o) \in Int
      /\ ctl[o].NumberMessagesInQueue \in Counts
  BY AreNumbers, LifecycleAssumption
<1>2. ctl'[o].NumberMessagesInQueue \in {ctl[o].NumberMessagesInQueue + (1),
                                         ctl[o].NumberMessagesInQueue + (1) - Modulus,
                                         ctl[o].NumberMessagesInQueue + (1) + Modulus}
  BY <1>1, CountWraps
<1>3. /\ ctl'[o].getMsgSemaphore = ctl[o].getMsgSemaphore + (0) /\ InHand(o)' = InHand(o) + (0)
      /\ ledger'[o].unpromised = ledger[o].unpromised + (1)
      /\ ledger'[o].stray = ledger[o].stray + (0)
  BY <1>1
<1>4. (0) + (0) + (1) = (1) + (0)
  OBVIOUS
<1> QED
  BY <1>2, <1>3, <1>4, SurplusMoves

(* A control object on which nothing moves that the surplus is made of.    *)
SameHand == pc'[Receiver] = "copy" <=> pc[Receiver] = "copy"
LEMMA StaysSteady ==
  ASSUME Base, NEW o \in Objects,
         ctl'[o].getMsgSemaphore = ctl[o].getMsgSemaphore,
         ctl'[o].NumberMessagesInQueue = ctl[o].NumberMessagesInQueue,
         ledger'[o] = ledger[o], InHand(o)' = InHand(o)
  PROVE  Steady(o)
BY AreNumbers DEF Steady, Surplus, Promises, Messages

(* Steps that leave the control data, and the receiver that copies, alone. *)
LEMMA QuietBalanced ==
  ASSUME Base, Balanced, overlapped = FALSE, ctl' = ctl, ledger' = ledger,
         \A q \in Procs :
           /\ pc'[q] = "announce" => pc[q] = "announce" /\ Ctl(q)' = Ctl(q)
           /\ Attached(q)' => Attached(q) /\ Ctl(q)' = Ctl(q),
         SameHand, pc[Receiver] = "copy" => Ctl(Receiver)' = Ctl(Receiver)
  PROVE  Balanced'
<1>1. ASSUME NEW o \in Objects, Claimed(o)' PROVE Claimed(o) /\ Steady(o)
  <2>1. Claimed(o)
    BY <1>1 DEF Claimed
  <2>2. InHand(o)' = InHand(o)
    BY DEF InHand, SameHand, Ctl
  <2> QED
    BY <2>1, <2>2, StaysSteady
<1> QED
  BY <1>1, KeepsBalanced

(* A constructor writes down what it finds.                                *)
LEMMA ConstructBalanced ==
  ASSUME Base, Balanced, overlapped = FALSE, NEW p \in Procs, NEW c, c = Ctl(p), ConstructControl(p)
  PROVE  Balanced'
<1>1. /\ pc[p] = "construct" /\ pc'[p] = "announce" /\ \A q \in Procs : q # p => pc'[q] = pc[q]
      /\ my' = my /\ HasControl(p) /\ c \in Objects /\ Control(p) = ctl[c]
  BY OnObject DEF ConstructControl, Goto, Base, TypeOK, HasControl, Entering
<1>2. \A o \in Objects : InHand(o)' = InHand(o)
  BY <1>1 DEF InHand, Procs
<1>3. Surplus(c)' = 0
  <2>1. /\ ctl'[c].getMsgSemaphore = 0 /\ ctl'[c].NumberMessagesInQueue = ctl[c].NumberMessagesInQueue
        /\ ledger'[c].stray = 0 /\ ledger'[c].unpromised = ctl[c].NumberMessagesInQueue - InHand(c)
    BY <1>1, ConstructWrites, ConstructNotes DEF Base, SameNumber
  <2>2. ctl[c].NumberMessagesInQueue \in Int /\ InHand(c) \in Int /\ InHand(c)' = InHand(c)
    BY <1>1, <1>2, AreNumbers
  <2> QED
    BY <2>1, <2>2 DEF Surplus, Promises, Messages
<1>4. ASSUME NEW o \in Objects, o # c, Claimed(o)' PROVE Surplus(o)' % Modulus = 0
  <2>1. ctl'[o] = ctl[o] /\ ledger'[o] = ledger[o]
    BY <1>1, <1>4, ConstructWrites, ConstructNotes DEF Base, Others, LedgerOthers
  <2>2. Claimed(o)
    BY <1>1, <1>4, <2>1 DEF Claimed, Attached, Ctl
  <2> QED
    BY <1>2, <2>1, <2>2, StaysSteady, SteadyBalances DEF Balanced
<1>5. 0 % Modulus = 0
  BY LifecycleAssumption
<1> QED
  BY <1>3, <1>4, <1>5 DEF Balanced

(* The owner that announces itself takes the interface down; the other     *)
(* finds the control data as it constructed it.                            *)
LEMMA AnnounceBalanced ==
  ASSUME Base, Balanced, NEW p \in Procs, NEW c, c = Ctl(p), Announce(p), overlapped' = FALSE
  PROVE  Balanced'
<1>1. /\ pc[p] = "announce" /\ pc'[p] = "up" /\ \A q \in Procs : q # p => pc'[q] = pc[q]
      /\ my' = my /\ ledger' = ledger /\ HasControl(p) /\ c \in Objects /\ Control(p) = ctl[c] /\ owner[p] \in BOOLEAN
  BY OnObject DEF Announce, Goto, Base, TypeOK, HasControl, Entering
<1>2. overlapped = FALSE /\ \A q \in Procs : q # p /\ Entering(q) => Ctl(q) # c
  BY <1>1, NotOverlapped DEF Announce
<1>3. \A o \in Objects : InHand(o)' = InHand(o)
  BY <1>1 DEF InHand, Procs
<1>4. ASSUME NEW o \in Objects, o # c, Claimed(o)' PROVE Claimed(o) /\ Steady(o)
  <2>1. ctl'[o] = ctl[o]
    BY <1>4, AnnounceWrites DEF Base, Others
  <2>2. Claimed(o)
    BY <1>1, <1>4, <2>1 DEF Claimed, Attached, Ctl
  <2> QED
    BY <1>1, <1>3, <2>1, <2>2, StaysSteady
<1>5. CASE owner[p]
  <2>1. ctl'[c].InterfaceStatus = FALSE
    BY <1>5, AnnounceWrites DEF Base
  <2>2. \A q \in Procs : pc'[q] = "announce" => Ctl(q) # c
    BY <1>1, <1>2 DEF Entering
  <2>3. ~Claimed(c)'
    BY <1>1, <2>1, <2>2 DEF Claimed, Ctl
  <2> QED
    BY <1>2, <1>4, <2>3, KeepsBalanced
<1>6. CASE ~owner[p]
  <2>1. Claimed(c)
    BY <1>1 DEF Claimed
  <2>2. Steady(c)
    BY <1>1, <1>3, <1>6, AnnounceWrites, StaysSteady DEF Base, SameNumber, SameTokens
  <2> QED
    BY <1>2, <1>4, <2>1, <2>2, KeepsBalanced
<1> QED
  BY <1>1, <1>5, <1>6

(* Calls, and deaths: p is the caller.  Others may stay attached.          *)
LEMMA CallBalanced ==
  ASSUME Base, Balanced, overlapped = FALSE, NEW p \in Procs, NEW c, c = Ctl(p), Attached(p),
         Others(c), LedgerOthers(c), SameStatus(c), Steady(c),
         \A q \in Procs : pc'[q] = "announce" => pc[q] = "announce" /\ Ctl(q)' = Ctl(q),
         \A q \in Procs : Attached(q)' => Attached(q) /\ Ctl(q)' = Ctl(q),
         \A o \in Objects : o # c => InHand(o)' = InHand(o)
  PROVE  Balanced'
<1>1. ASSUME NEW o \in Objects, Claimed(o)' PROVE Claimed(o) /\ Steady(o)
  <2>1. CASE o = c
    BY <1>1, <2>1 DEF Claimed, SameStatus
  <2>2. CASE o # c
    <3>1. ctl'[o] = ctl[o] /\ ledger'[o] = ledger[o] /\ InHand(o)' = InHand(o)
      BY <2>2 DEF Others, LedgerOthers
    <3> QED
      BY <1>1, <3>1, StaysSteady DEF Claimed
  <2> QED
    BY <2>1, <2>2
<1> QED
  BY <1>1, KeepsBalanced

LEMMA SendBalanced ==
  ASSUME Base, Balanced, overlapped = FALSE, NEW c, c = Ctl(Sender), SendStep
  PROVE  Balanced'
<1>0. Sender \in Procs /\ Receiver \in Procs /\ Sender # Receiver
  BY LifecycleAssumption DEF Procs
<1>1. /\ Attached(Sender) /\ HasControl(Sender) /\ my' = my /\ Attached(Sender)' /\ pc'[Sender] # "announce"
      /\ \A q \in Procs : q # Sender => pc'[q] = pc[q]
  BY <1>0 DEF SendStep, BeginSend, MakeRoom, TakeRoom, AddTimeout, Store, Goto, objects, Base, TypeOK, Attached,
         HasControl, Past
<1>2. c \in Objects /\ Control(Sender) = ctl[c]
  BY <1>0, <1>1, OnObject DEF Base
<1>3. \A o \in Objects : InHand(o)' = InHand(o)
  BY <1>0, <1>1 DEF InHand
<1>4. CASE BeginSend \/ AddTimeout \/ (MakeRoom /\ HasRoom)
  <2>1. ctl' = ctl /\ ledger' = ledger
    BY <1>4 DEF BeginSend, AddTimeout, HasRoom, history
  <2> QED
    BY <1>0, <1>1, <2>1, QuietBalanced DEF Attached, SameHand, Ctl
<1>5. ASSUME Others(c), LedgerOthers(c), SameStatus(c), Steady(c) PROVE Balanced'
  <2>1. \A q \in Procs : Ctl(q)' = Ctl(q)
    BY <1>1 DEF Ctl
  <2>2. \A q \in Procs : (pc'[q] = "announce" => pc[q] = "announce") /\ (Attached(q)' => Attached(q))
    BY <1>1 DEF Attached
  <2> QED
    BY <1>0, <1>1, <1>3, <1>5, <2>1, <2>2, CallBalanced
<1>6. CASE MakeRoom /\ Drop
  <2>1. /\ Others(c) /\ SameStatus(c) /\ SameTokens(c)
        /\ ctl'[c].NumberMessagesInQueue = Dec(ctl[c].NumberMessagesInQueue)
    BY <1>1, <1>2, <1>6, DropWrites DEF Base
  <2>2. /\ LedgerOthers(c) /\ ledger'[c].stray = ledger[c].stray + 1
        /\ ledger'[c].unpromised = ledger[c].unpromised
    BY <1>0, <1>1, <1>6, NoteWrites DEF Base, Drop
  <2>3. Steady(c)
    BY <1>2, <1>3, <2>1, <2>2, DropSteady DEF SameTokens
  <2> QED
    BY <1>5, <2>1, <2>2, <2>3
<1>7. CASE TakeRoom
  <2>1. ledger' = ledger
    BY <1>7 DEF TakeRoom, history
  <2>2. Others(c) /\ SameStatus(c) /\ SameTokens(c) /\ SameNumber(c)
    BY <1>7, TakeRoomWrites DEF Base
  <2>3. Steady(c)
    BY <1>2, <1>3, <2>1, <2>2, StaysSteady DEF SameTokens, SameNumber
  <2> QED
    BY <1>5, <2>1, <2>2, <2>3 DEF LedgerOthers
<1>8. CASE Store
  <2>1. ledger' = ledger
    BY <1>8 DEF Store, history
  <2>2. /\ Others(c) /\ SameStatus(c)
        /\ ctl'[c].NumberMessagesInQueue = Inc(ctl[c].NumberMessagesInQueue)
        /\ ctl'[c].getMsgSemaphore = ctl[c].getMsgSemaphore + 1
    BY <1>2, <1>8, StoreWrites DEF Base
  <2>3. Steady(c)
    BY <1>2, <1>3, <2>1, <2>2, StoreSteady
  <2> QED
    BY <1>5, <2>1, <2>2, <2>3 DEF LedgerOthers
<1> QED
  BY <1>4, <1>6, <1>7, <1>8 DEF SendStep, MakeRoom

LEMMA GetBalanced ==
  ASSUME Base, Balanced, overlapped = FALSE, NEW c, c = Ctl(Receiver), GetStep
  PROVE  Balanced'
<1>0. Receiver \in Procs
  BY DEF Procs
<1>1. /\ Attached(Receiver) /\ HasControl(Receiver) /\ my' = my /\ ledger' = ledger
      /\ Attached(Receiver)' /\ pc'[Receiver] # "announce"
      /\ \A q \in Procs : q # Receiver => pc'[q] = pc[q]
  BY <1>0 DEF GetStep, BeginGet, TakeMsg, GetTimeout, Copy, Goto, objects, history, Base, TypeOK, Attached,
         HasControl, Past
<1>2. c \in Objects /\ Control(Receiver) = ctl[c]
  BY <1>0, <1>1, OnObject DEF Base
<1>3. \A o \in Objects : o # c => InHand(o) = 0 /\ InHand(o)' = 0
  BY <1>1 DEF InHand, Ctl
<1>4. CASE BeginGet \/ GetTimeout
  <2>1. ctl' = ctl /\ pc[Receiver] # "copy" /\ pc'[Receiver] # "copy"
    BY <1>0, <1>4 DEF BeginGet, GetTimeout, Goto, Base, TypeOK
  <2> QED
    BY <1>0, <1>1, <2>1, QuietBalanced DEF Attached, SameHand, Ctl
<1>5. ASSUME Others(c), SameStatus(c), Steady(c) PROVE Balanced'
  <2>1. \A q \in Procs : Ctl(q)' = Ctl(q)
    BY <1>1 DEF Ctl
  <2>2. \A q \in Procs : (pc'[q] = "announce" => pc[q] = "announce") /\ (Attached(q)' => Attached(q))
    BY <1>1 DEF Attached
  <2>3. LedgerOthers(c)
    BY <1>1 DEF LedgerOthers
  <2> QED
    BY <1>0, <1>1, <1>3, <1>5, <2>1, <2>2, <2>3, CallBalanced
<1>6. CASE TakeMsg
  <2>1. /\ Others(c) /\ SameStatus(c) /\ SameNumber(c)
        /\ ctl'[c].getMsgSemaphore = ctl[c].getMsgSemaphore - 1
    BY <1>2, <1>6, TakeWrites DEF Base
  <2>2. InHand(c)' = InHand(c) + 1
    BY <1>0, <1>1, <1>6 DEF TakeMsg, Goto, Base, TypeOK, InHand, Ctl
  <2>3. Steady(c)
    BY <1>1, <1>2, <2>1, <2>2, TakeSteady DEF SameNumber
  <2> QED
    BY <1>5, <2>1, <2>3
<1>7. CASE Copy
  <2>1. /\ Others(c) /\ SameStatus(c) /\ SameTokens(c)
        /\ ctl'[c].NumberMessagesInQueue = Dec(ctl[c].NumberMessagesInQueue)
    BY <1>2, <1>7, CopyWrites DEF Base
  <2>2. InHand(c)' = InHand(c) - 1
    BY <1>0, <1>1, <1>7 DEF Copy, Goto, Base, TypeOK, InHand, Ctl
  <2>3. Steady(c)
    BY <1>1, <1>2, <2>1, <2>2, CopySteady DEF SameTokens
  <2> QED
    BY <1>5, <2>1, <2>3
<1> QED
  BY <1>4, <1>6, <1>7 DEF GetStep

(* The destructor adds a token that answers to nothing, and then takes the *)
(* interface down.                                                         *)
LEMMA WakeBalanced ==
  ASSUME Base, Balanced, overlapped = FALSE, NEW p \in Procs, NEW c, c = Ctl(p), Wake(p)
  PROVE  Balanced'
<1>1. /\ pc[p] = "up" /\ pc'[p] = "down" /\ \A q \in Procs : q # p => pc'[q] = pc[q]
      /\ my' = my /\ NoteStray(p) /\ HasControl(p) /\ Attached(p) /\ c \in Objects /\ Control(p) = ctl[c]
  BY OnObject DEF Wake, Goto, Base, TypeOK, HasControl, Past, Attached
<1>2. \A o \in Objects : InHand(o)' = InHand(o)
  BY <1>1 DEF InHand, Procs
<1>3. /\ Others(c) /\ SameStatus(c) /\ SameNumber(c)
      /\ ctl'[c].getMsgSemaphore = ctl[c].getMsgSemaphore + 1
  BY <1>1, WakeWrites DEF Base
<1>4. /\ LedgerOthers(c) /\ ledger'[c].stray = ledger[c].stray + 1
      /\ ledger'[c].unpromised = ledger[c].unpromised
  BY <1>1, NoteWrites DEF Base
<1>5. Steady(c)
  BY <1>1, <1>2, <1>3, <1>4, WakeSteady DEF SameNumber
<1>6. \A q \in Procs : /\ pc'[q] = "announce" => pc[q] = "announce" /\ Ctl(q)' = Ctl(q)
                       /\ Attached(q)' => Attached(q) /\ Ctl(q)' = Ctl(q)
  BY <1>1 DEF Attached, Ctl
<1> QED
  BY <1>1, <1>2, <1>3, <1>4, <1>5, <1>6, CallBalanced

LEMMA RemoveBalanced ==
  ASSUME Base, Balanced, overlapped = FALSE, NEW p \in Procs, RemoveObject(p)
  PROVE  Balanced'
<1>1. /\ pc[p] = "remove" /\ pc'[p] \in {"remove", "gone"}
      /\ \A q \in Procs : q # p => pc'[q] = pc[q] /\ Ctl(q)' = Ctl(q)
  BY DEF RemoveObject, Goto, Base, TypeOK, Ctl
<1>2. ASSUME NEW o \in Objects, Claimed(o)' PROVE Claimed(o) /\ Steady(o)
  <2>1. PICK q \in Procs : Ctl(q)' = o /\ (pc'[q] = "announce" \/ (ctl'[o].InterfaceStatus /\ Attached(q)'))
    BY <1>2 DEF Claimed
  <2>2. q # p /\ Ctl(q) = o
    BY <1>1, <2>1 DEF Attached
  <2>3. ctl'[o] = ctl[o] /\ ledger'[o] = ledger[o]
    BY <2>2, GiveBackWrites DEF Base
  <2>4. Claimed(o)
    BY <1>1, <2>1, <2>2, <2>3 DEF Claimed, Attached
  <2>5. InHand(o)' = InHand(o)
    BY <1>1 DEF InHand, Ctl, Procs
  <2> QED
    BY <2>3, <2>4, <2>5, StaysSteady
<1> QED
  BY <1>2, KeepsBalanced

LEMMA TakeDownBalanced ==
  ASSUME Base, Balanced, NEW p \in Procs, NEW c, c = Ctl(p), TakeDown(p), overlapped' = FALSE
  PROVE  Balanced'
<1>1. /\ pc[p] = "down" /\ pc'[p] = "remove" /\ \A q \in Procs : q # p => pc'[q] = pc[q]
      /\ my' = my /\ ledger' = ledger /\ HasControl(p) /\ c \in Objects
  BY OnObject DEF TakeDown, Goto, Base, TypeOK, objects, HasControl, Past
<1>2. overlapped = FALSE /\ \A q \in Procs : q # p /\ Entering(q) => Ctl(q) # c
  BY <1>1, NotOverlapped DEF TakeDown
<1>3. \A o \in Objects : InHand(o)' = InHand(o)
  BY <1>1 DEF InHand, Procs
<1>4. ~Claimed(c)'
  <2>1. ctl'[c].InterfaceStatus = FALSE
    BY TakeDownWrites DEF Base
  <2>2. \A q \in Procs : pc'[q] = "announce" => Ctl(q) # c
    BY <1>1, <1>2 DEF Entering
  <2> QED
    BY <1>1, <2>1, <2>2 DEF Claimed, Ctl
<1>5. ASSUME NEW o \in Objects, Claimed(o)' PROVE Claimed(o) /\ Steady(o)
  <2>1. o # c
    BY <1>4, <1>5
  <2>2. ctl'[o] = ctl[o]
    BY <2>1, TakeDownWrites DEF Base, Others
  <2>3. Claimed(o)
    BY <1>1, <1>5, <2>2 DEF Claimed, Attached, Ctl
  <2> QED
    BY <1>1, <1>3, <2>2, <2>3, StaysSteady
<1> QED
  BY <1>2, <1>5, KeepsBalanced

(* What a dead process leaves behind is written down.                      *)
LEMMA CrashBalanced ==
  ASSUME Base, InReceiver, Balanced, overlapped = FALSE, NEW p \in Procs, NEW c, c = Ctl(p), Crash(p)
  PROVE  Balanced'
<1>1. /\ pc'[p] = "gone" /\ \A q \in Procs : q # p => pc'[q] = pc[q] /\ my'[q] = my[q]
      /\ Receiver \in Procs
  BY DEF Crash, Base, TypeOK, Procs
<1>2. \A q \in Procs : /\ pc'[q] = "announce" => pc[q] = "announce" /\ Ctl(q)' = Ctl(q)
                       /\ Attached(q)' => Attached(q) /\ Ctl(q)' = Ctl(q)
  BY <1>1 DEF Attached, Ctl
<1>3. pc[p] = "copy" => p = Receiver
  BY DEF InReceiver, Procs
<1>4. \A o \in Objects : InHand(o)' = IF pc[p] = "copy" /\ o = c THEN InHand(o) - 1 ELSE InHand(o)
  BY <1>1, <1>3 DEF InHand, Ctl
<1>5. CASE ctl' = ctl /\ ledger' = ledger /\ pc[p] # "copy"
  <2>1. SameHand /\ (pc[Receiver] = "copy" => Ctl(Receiver)' = Ctl(Receiver))
    BY <1>1, <1>5 DEF SameHand, Ctl
  <2> QED
    BY <1>2, <1>5, <2>1, QuietBalanced
<1>6. CASE DieTakingDown(p)
  <2>1. HasControl(p) /\ pc[p] = "down" /\ ledger' = ledger /\ c \in Objects
    BY <1>6, OnObject DEF DieTakingDown, HasControl, Past, Base
  <2>2. Others(c) /\ SameStatus(c) /\ SameTokens(c) /\ SameNumber(c)
    BY <1>6, <2>1, DieWrites DEF Base
  <2>3. ASSUME NEW o \in Objects, Claimed(o)' PROVE Claimed(o) /\ Steady(o)
    <3>1. InHand(o)' = InHand(o)
      BY <1>4, <2>1
    <3>2. Steady(o)
      BY <2>1, <2>2, <3>1, StaysSteady DEF Others, SameTokens, SameNumber
    <3>3. ctl'[o].InterfaceStatus = ctl[o].InterfaceStatus
      BY <2>2 DEF Others, SameStatus
    <3> QED
      BY <1>2, <2>3, <3>2, <3>3 DEF Claimed
  <2> QED
    BY <2>3, KeepsBalanced
<1>7. CASE /\ pc[p] \in {"up", "room", "store", "copy"}
           /\ ~(ctl' = ctl /\ ledger' = ledger /\ pc[p] # "copy")
           /\ ~DieTakingDown(p)
  <2>1. Attached(p) /\ HasControl(p) /\ c \in Objects /\ Control(p) = ctl[c]
    BY <1>7, OnObject DEF Base, Attached, HasControl, Past
  <2>2. Others(c) /\ SameStatus(c)
    BY <2>1, CrashWrites DEF Base, Others, SameStatus
  <2>3. ASSUME LedgerOthers(c), Steady(c) PROVE Balanced'
    BY <1>2, <1>4, <2>1, <2>2, <2>3, CallBalanced
  <2>4. NoteStray(p) => /\ LedgerOthers(c) /\ ledger'[c].stray = ledger[c].stray + 1
                        /\ ledger'[c].unpromised = ledger[c].unpromised
    BY <2>1, NoteWrites DEF Base
  <2>5. NoteUnpromised(p) => /\ LedgerOthers(c) /\ ledger'[c].stray = ledger[c].stray
                             /\ ledger'[c].unpromised = ledger[c].unpromised + 1
    BY <2>1, NoteWrites DEF Base
  <2>6. CASE pc[p] = "copy" /\ (DieOutside(p) \/ DieInside(p))
    <3>1. NoteUnpromised(p)
      BY <2>6 DEF DieOutside, DieInside, LeaveToken
    <3>2. SameTokens(c) /\ SameNumber(c)
      BY <2>1, <2>6, DieWrites DEF Base, DieOutside, SameTokens, SameNumber
    <3>3. InHand(c)' = InHand(c) - 1
      BY <1>4, <2>1, <2>6
    <3>4. Steady(c)
      BY <2>1, <2>5, <3>1, <3>2, <3>3, LeaveSteady DEF SameTokens, SameNumber
    <3> QED
      BY <2>3, <2>5, <3>1, <3>4
  <2>7. CASE pc[p] # "copy" /\ DieInside(p)
    <3>1. ledger' = ledger /\ SameTokens(c) /\ SameNumber(c) /\ InHand(c)' = InHand(c)
      BY <1>4, <2>1, <2>7, DieWrites DEF Base, DieInside, LeaveToken
    <3>2. Steady(c)
      BY <2>1, <3>1, StaysSteady DEF SameTokens, SameNumber
    <3> QED
      BY <2>3, <3>1, <3>2 DEF LedgerOthers
  <2>8. CASE DieDropping(p)
    <3>1. NoteStray(p) /\ pc[p] = "room"
      BY <2>8 DEF DieDropping
    <3>2. SameTokens(c) /\ ctl'[c].NumberMessagesInQueue = Dec(ctl[c].NumberMessagesInQueue)
      BY <2>1, <2>8, DieWrites DEF Base
    <3>3. InHand(c)' = InHand(c)
      BY <1>4, <2>1, <3>1
    <3>4. Steady(c)
      BY <2>1, <2>4, <3>1, <3>2, <3>3, DropSteady DEF SameTokens
    <3> QED
      BY <2>3, <2>4, <3>1, <3>4
  <2>9. CASE DieCounting(p)
    <3>1. NoteUnpromised(p) /\ pc[p] = "store"
      BY <2>9 DEF DieCounting
    <3>2. SameTokens(c) /\ ctl'[c].NumberMessagesInQueue = Inc(ctl[c].NumberMessagesInQueue)
      BY <2>1, <2>9, DieWrites DEF Base
    <3>3. InHand(c)' = InHand(c)
      BY <1>4, <2>1, <3>1
    <3>4. Steady(c)
      BY <2>1, <2>5, <3>1, <3>2, <3>3, UnpostedSteady DEF SameTokens
    <3> QED
      BY <2>3, <2>5, <3>1, <3>4
  <2>10. CASE DieStoring(p)
    <3>1. ledger' = ledger /\ pc[p] = "store"
      BY <2>10 DEF DieStoring
    <3>2. /\ ctl'[c].getMsgSemaphore = ctl[c].getMsgSemaphore + 1
          /\ ctl'[c].NumberMessagesInQueue = Inc(ctl[c].NumberMessagesInQueue)
      BY <2>1, <2>10, DieWrites DEF Base
    <3>3. InHand(c)' = InHand(c)
      BY <1>4, <2>1, <3>1
    <3>4. Steady(c)
      BY <2>1, <3>1, <3>2, <3>3, StoreSteady
    <3> QED
      BY <2>3, <3>1, <3>4 DEF LedgerOthers
  <2>11. CASE DieCopying(p)
    <3>1. ledger' = ledger /\ pc[p] = "copy"
      BY <2>11 DEF DieCopying
    <3>2. SameTokens(c) /\ ctl'[c].NumberMessagesInQueue = Dec(ctl[c].NumberMessagesInQueue)
      BY <2>1, <2>11, DieWrites DEF Base
    <3>3. InHand(c)' = InHand(c) - 1
      BY <1>4, <2>1, <3>1
    <3>4. Steady(c)
      BY <2>1, <3>1, <3>2, <3>3, CopySteady DEF SameTokens
    <3> QED
      BY <2>3, <3>1, <3>4 DEF LedgerOthers
  <2>12. CASE DieWaking(p)
    <3>1. NoteStray(p) /\ pc[p] = "up"
      BY <2>12 DEF DieWaking
    <3>2. SameNumber(c) /\ ctl'[c].getMsgSemaphore = ctl[c].getMsgSemaphore + 1
      BY <2>1, <2>12, DieWrites DEF Base
    <3>3. InHand(c)' = InHand(c)
      BY <1>4, <2>1, <3>1
    <3>4. Steady(c)
      BY <2>1, <2>4, <3>1, <3>2, <3>3, WakeSteady DEF SameNumber
    <3> QED
      BY <2>3, <2>4, <3>1, <3>4
  <2> QED
    BY <1>7, <2>6, <2>7, <2>8, <2>9, <2>10, <2>11, <2>12 DEF Crash, Die, DieOutside, LeaveToken
<1> QED
  <2>1. CASE DieOutside(p)
    BY <1>5, <1>7, <2>1 DEF DieOutside, LeaveToken, DieTakingDown
  <2>2. CASE ~DieOutside(p) /\ ~DieTakingDown(p)
    BY <1>5, <1>7, <2>2 DEF Crash, Die, DieInside, DieDropping, DieCopying, DieCounting, DieStoring, DieWaking
  <2> QED
    BY <1>6, <2>1, <2>2

(* Balanced is preserved by every step.                                    *)
LEMMA BalancedStep == Base /\ InReceiver /\ Balanced /\ [Next]_vars => Balanced'
<1> SUFFICES ASSUME Base, InReceiver, Balanced, [Next]_vars, overlapped' = FALSE PROVE Balanced'
  <2>1. [Next]_vars /\ Base => overlapped' \in BOOLEAN
    BY BaseStep DEF Base, TypeOK
  <2> QED
    BY <2>1 DEF Balanced
<1>0. overlapped = FALSE
  <2>1. overlapped => overlapped'
    BY ZenonT(40) DEF Next, LifeStep, SendStep, GetStep, Construct, CreateObject, NoteHalfRemoved, SizeObject, OpenObject,
           MapObject, ConstructControl, Announce, NoteOverlap, RemoveObject, TakeDown, Crash, BeginSend, MakeRoom, TakeRoom,
           AddTimeout, Store, BeginGet, TakeMsg, GetTimeout, Copy, Wake, vars, history
  <2> QED
    BY <2>1 DEF Base, TypeOK
<1>1. ASSUME NEW p \in Procs, Construct(p) PROVE Balanced'
  BY <1>0, <1>1, QuietBalanced DEF Construct, Goto, objects, history, Base, TypeOK, Attached, SameHand, Ctl, Procs
<1>2. ASSUME NEW p \in Procs, CreateObject(p), FindExisting(p) PROVE Balanced'
  BY <1>0, <1>2, QuietBalanced DEF CreateObject, FindExisting, Goto, Base, TypeOK, Attached, SameHand, Ctl, Procs
<1>3. ASSUME NEW p \in Procs, CreateObject(p), MakeObject(p) PROVE Balanced'
  BY <1>0, <1>3, QuietBalanced DEF CreateObject, MakeObject, Goto, Base, TypeOK, Attached, SameHand, Ctl, Procs
<1>4. ASSUME NEW p \in Procs, SizeObject(p) PROVE Balanced'
  BY <1>0, <1>4, QuietBalanced DEF SizeObject, Goto, history, Base, TypeOK, Attached, SameHand, Ctl, Procs
<1>5. ASSUME NEW p \in Procs, OpenObject(p) PROVE Balanced'
  BY <1>0, <1>5, QuietBalanced DEF OpenObject, Goto, objects, history, Base, TypeOK, Attached, SameHand, Ctl, Procs
<1>6. ASSUME NEW p \in Procs, MapObject(p) PROVE Balanced'
  BY <1>0, <1>6, QuietBalanced DEF MapObject, Goto, objects, history, Base, TypeOK, Attached, SameHand, Ctl, Procs
<1>7. CASE UNCHANGED vars
  BY <1>0, <1>7, QuietBalanced DEF vars, objects, history, Attached, SameHand, Ctl
<1> QED
  BY <1>0, <1>1, <1>2, <1>3, <1>4, <1>5, <1>6, <1>7, RemoveBalanced, WakeBalanced, ConstructBalanced, AnnounceBalanced, SendBalanced, GetBalanced,
     TakeDownBalanced, CrashBalanced DEF Next, LifeStep, CreateObject
----------------------------------------------------------------------------
(* The inductive invariant holds in every reachable state, for any bounds  *)
(* on objects, messages, sends and crashes.                                *)
THEOREM LifecycleInv == Spec => []IInv
<1>1. IInv /\ [Next]_vars => IInv'
  <2> SUFFICES ASSUME IInv, [Next]_vars PROVE IInv'
    OBVIOUS
  <2>1. Base /\ Names /\ Together /\ InReceiver /\ Balanced
    BY DEF IInv, Base, Names, Together
  <2>2. Base' /\ Names' /\ Together'
    BY <2>1, BaseStep, NamesStep, TogetherStep
  <2>3. InReceiver' /\ Balanced'
    BY <2>1, InReceiverStep, BalancedStep
  <2> QED
    BY <2>2, <2>3 DEF IInv, Base, Names, Together
<1> QED
  BY <1>1, InitInv, PTL DEF Spec

(* Two processes that come up on the same control data share the data      *)
(* object too, unless a constructor met half removed names: the two        *)
(* shared_memory_objects of InterprocessQueue::InterprocessQueue stay a    *)
(* pair.                                                                   *)
THEOREM SharedData == Spec => []SharedDataUnlessTorn
<1>1. IInv => SharedDataUnlessTorn
  BY DEF IInv, Paired, SharedDataUnlessTorn, Holding, Data, Ctl, Procs
<1> QED
  BY <1>1, LifecycleInv, PTL

(* Tokens and messages agree while the interface is up, through full       *)
(* queues, deaths and torn names: what getMsgSemaphore and the receiver    *)
(* hold, and the messages known to have no token, make up the messages     *)
(* that wait and the tokens known to answer to none (InterprocessQueue::              *)
(* timedAddMessage, timedGetMessage, the constructor and the destructor).  *)
THEOREM Tokens == Spec => []TokensMatch
<1>1. ASSUME IInv PROVE TokensMatch
  <2> SUFFICES ASSUME overlapped = FALSE, NEW p \in Procs, NEW c, c = Ctl(p),
                      Attached(p), Control(p).InterfaceStatus
               PROVE  Promises(c) % Modulus = Messages(c) % Modulus
    <3>1. overlapped \in BOOLEAN
      BY <1>1 DEF IInv, TypeOK
    <3> QED
      BY <3>1 DEF TokensMatch, Promises, Messages, Ctl
  <2>1. Base /\ HasControl(p)
    BY <1>1 DEF IInv, Base, HasControl, Past, Attached
  <2>2. c \in Objects /\ Control(p) = ctl[c]
    BY <2>1, OnObject DEF Base
  <2>3. Surplus(c) % Modulus = 0
    BY <1>1, <2>2 DEF IInv, Balanced, Claimed
  <2>4. Promises(c) \in Int /\ Messages(c) \in Int
    BY <2>1, <2>2, AreNumbers
  <2> QED
    BY <2>3, <2>4, SameRemainder, LifecycleAssumption DEF Surplus
<1> QED
  BY <1>1, LifecycleInv, PTL

(* Two processes that have both come up on the object the name refers to   *)
(* find the interface up, unless their constructors overlapped.            *)
THEOREM UpTogether == Spec => []UpUnlessOverlapped
<1>1. IInv => UpUnlessOverlapped
  BY LifecycleAssumption DEF IInv, UpWhenBoth, UpUnlessOverlapped, BothUp, Ctl, Procs
<1> QED
  BY <1>1, LifecycleInv, PTL
=============================================================================
