---------------------------- MODULE Win32Queue ----------------------------
(***************************************************************************)
(* The older InterprocessQueue that lies in QueueTestConsole-Win32: two    *)
(* processes that construct it on one name, find each other by writing     *)
(* values into one shared word (SynchronizeQueueUsers), add, get, destroy  *)
(* it, die anywhere and start again.  Each process calls from one thread,  *)
(* so that its exitFlag is FALSE in every call.                            *)
(*                                                                         *)
(* Unlike its successor it constructs the control data anew in every       *)
(* constructor, also under a partner that is using them.  A section of the *)
(* mutex is one step; the constructor takes no mutex, and from the moment  *)
(* it rewrites the data under a running call nothing is claimed of them.   *)
(* A queue that is constructed after the name was removed is another queue.*)
(***************************************************************************)
EXTENDS Integers, Sequences, FiniteSets

CONSTANTS
  Users,
  maxMsgs,
  FirstValues,   \* what SynchronizeQueueUsers draws first: rand * 1000 % 10000
  LaterValues,   \* and after it has met the partner: rand * 1000 % 1000000
  MaxAdds,       \* bound: messages added
  MaxDeaths,     \* bound: processes that die
  CountSize      \* 2^32: NumberMessagesInQueue is unsigned

ASSUME Win32Assumption ==
  /\ IsFiniteSet(Users)
  /\ maxMsgs \in Nat \ {0}
  /\ FirstValues \subseteq LaterValues
  /\ LaterValues \subseteq Nat
  /\ MaxAdds \in Nat
  /\ MaxDeaths \in Nat
  /\ CountSize \in Nat /\ CountSize > maxMsgs

VARIABLES
  shm,            \* which of the names "data" and "control" exist
  myControlData,  \* the shared control data
  contents,       \* slot -> message
  place,          \* user -> where its process stands
  queueState,     \* user -> QueueState of its object
  uniqueValue,    \* user -> the value it wrote first
  added, died,    \* bounds: messages added, deaths
  met,            \* history: users whose first value has been overwritten by the partner
  waiting,        \* history: messages accepted and not delivered, in order
  lost,           \* history: tokens taken and never made good, per semaphore
  posts,          \* history: posts by destructors
  removedName,    \* history: a destructor has removed the names
  torn            \* history: the data were changed under a call

shared == <<shm, myControlData, contents>>
history == <<met, waiting, lost, posts, removedName, torn>>
winVars == <<shared, place, queueState, uniqueValue, added, died, history>>

Places == 0..(maxMsgs - 1)
NextPlace(slot) == (slot + 1) % maxMsgs

(* SharedMemoryQueueControlData(maxMsgs), and what the constructor sets.   *)
(* UniqueValue is left as it is: zero in fresh memory.                     *)
Fresh(word) ==
  [getMsgSemaphore |-> 0, addMessageSemaphore |-> maxMsgs,
   myDataAccessMutex |-> "free", NumberMessagesInQueue |-> 0,
   CurrentReadSlot |-> 0, CurrentWriteSlot |-> 0,
   UniqueValue |-> word, InterfaceStatus |-> FALSE]

NothingLostYet == [rooms |-> 0, messages |-> 0]

Win32Init ==
  /\ shm = {}
  /\ myControlData = Fresh(0)
  /\ contents = [s \in Places |-> 0]
  /\ place = [u \in Users |-> "none"]
  /\ queueState = [u \in Users |-> "Synchronizing"]
  /\ uniqueValue = [u \in Users |-> 0]
  /\ added = 0
  /\ died = 0
  /\ met = {}
  /\ waiting = <<>>
  /\ lost = NothingLostYet
  /\ posts = 0
  /\ removedName = FALSE
  /\ torn = FALSE

Moves(u, from, to) == place[u] = from /\ place' = [place EXCEPT ![u] = to]
Standing(where) == {u \in Users : place[u] \in where}
Section == myControlData.myDataAccessMutex = "free"
----------------------------------------------------------------------------
(* The constructor.  An exception anywhere is swallowed and leaves an      *)
(* object whose calls are undefined: "broken".                             *)

OpenData(u) ==
  /\ ~removedName
  /\ Moves(u, "none", IF "data" \in shm THEN "opened" ELSE "create")
  /\ queueState' = [queueState EXCEPT ![u] = "Synchronizing"]
  /\ UNCHANGED <<shared, uniqueValue, added, died, history>>

CreateData(u) ==
  /\ ~removedName
  /\ Moves(u, "create", IF "data" \in shm THEN "broken" ELSE "created")
  /\ shm' = shm \cup {"data"}
  /\ UNCHANGED <<myControlData, contents, queueState, uniqueValue, added, died, history>>

CreateControl(u) ==
  /\ Moves(u, "created", IF "control" \in shm THEN "broken" ELSE "mapped")
  /\ shm' = shm \cup {"control"}
  /\ UNCHANGED <<myControlData, contents, queueState, uniqueValue, added, died, history>>

OpenControl(u) ==
  /\ Moves(u, "opened", IF "control" \in shm THEN "mapped" ELSE "broken")
  /\ UNCHANGED <<shared, queueState, uniqueValue, added, died, history>>

Calling == {"syncWait", "syncMark", "addWait", "addStore", "getWait", "getCopy"}

(* Mutant: only the creator constructs the control data's semaphores.      *)
ConstructControlMutant(u) ==
  /\ Moves(u, "mapped", "idle")
  /\ myControlData' = [Fresh(myControlData.UniqueValue) EXCEPT
       !.getMsgSemaphore = myControlData.getMsgSemaphore,
       !.addMessageSemaphore = myControlData.addMessageSemaphore]
  /\ torn' = (torn \/ Standing(Calling) # {})
  /\ waiting' = <<>>
  /\ lost' = NothingLostYet
  /\ posts' = 0
  /\ UNCHANGED <<shm, contents, queueState, uniqueValue, added, died, met, removedName>>

ConstructControl(u) ==
  /\ Moves(u, "mapped", "idle")
  /\ myControlData' = Fresh(myControlData.UniqueValue)
  /\ torn' = (torn \/ Standing(Calling) # {})
  /\ waiting' = <<>>
  /\ lost' = NothingLostYet
  /\ posts' = 0
  /\ UNCHANGED <<shm, contents, queueState, uniqueValue, added, died, met, removedName>>
----------------------------------------------------------------------------
(* SynchronizeQueueUsers *)

WriteValue(u, value) ==
  /\ myControlData' = [myControlData EXCEPT
       !.InterfaceStatus = FALSE, !.UniqueValue = value]
  /\ uniqueValue' = [uniqueValue EXCEPT ![u] = value]
  /\ queueState' = [queueState EXCEPT ![u] = "Synchronizing"]
  /\ met' = Users \ {u}

SyncWrite(u) ==
  /\ Section
  /\ Moves(u, "idle", "syncWait")
  /\ \E value \in FirstValues : WriteValue(u, value)
  /\ UNCHANGED <<shm, contents, added, died, waiting, lost, posts, removedName, torn>>

(* After the wait.  Mutant: any value in the word counts as the partner's. *)
SyncReadMutant(u) ==
  /\ Section
  /\ Moves(u, "syncWait", "syncMark")
  /\ UNCHANGED <<shared, queueState, uniqueValue, added, died, history>>

SyncRead(u) ==
  /\ Section
  /\ Moves(u, "syncWait",
           IF myControlData.UniqueValue # uniqueValue[u] THEN "syncMark" ELSE "idle")
  /\ UNCHANGED <<shared, queueState, uniqueValue, added, died, history>>

SyncMark(u) ==
  /\ Section
  /\ Moves(u, "syncMark", "idle")
  /\ \E value \in LaterValues :
       myControlData' = [myControlData EXCEPT
         !.InterfaceStatus = TRUE, !.UniqueValue = value]
  /\ queueState' = [queueState EXCEPT ![u] = "Synchronized"]
  /\ met' = met \cup (Users \ {u})
  /\ UNCHANGED <<shm, contents, uniqueValue, added, died, waiting, lost, posts,
                 removedName, torn>>
----------------------------------------------------------------------------
(* timedAddMessage *)

AddCheck(u) ==
  /\ Section
  /\ queueState[u] = "Synchronized"
  /\ myControlData.InterfaceStatus
  /\ Moves(u, "idle", "addWait")
  /\ UNCHANGED <<shared, queueState, uniqueValue, added, died, history>>

AddTake(u) ==
  /\ myControlData.addMessageSemaphore > 0
  /\ Moves(u, "addWait", "addStore")
  /\ myControlData' = [myControlData EXCEPT !.addMessageSemaphore = @ - 1]
  /\ UNCHANGED <<shm, contents, queueState, uniqueValue, added, died, history>>

(* The token of a caller that finds the queue full is not given back.      *)
AddRefused(u) ==
  /\ Section
  /\ myControlData.NumberMessagesInQueue >= maxMsgs
  /\ Moves(u, "addStore", "idle")
  /\ lost' = [lost EXCEPT !.rooms = @ + 1]
  /\ UNCHANGED <<shared, queueState, uniqueValue, added, died, met, waiting, posts,
                 removedName, torn>>

StoreAt(u, slot) ==
  /\ Section
  /\ myControlData.NumberMessagesInQueue < maxMsgs
  /\ added < MaxAdds
  /\ Moves(u, "addStore", "idle")
  /\ added' = added + 1
  /\ contents' = [contents EXCEPT ![slot] = added']
  /\ waiting' = Append(waiting, added')
  /\ myControlData' = [myControlData EXCEPT
       !.NumberMessagesInQueue = @ + 1,
       !.CurrentWriteSlot = NextPlace(@),
       !.getMsgSemaphore = @ + 1]
  /\ UNCHANGED <<shm, queueState, uniqueValue, died, met, lost, posts, removedName, torn>>

(* Mutant: the message goes where the next one is read.                    *)
AddStoreMutant(u) == StoreAt(u, myControlData.CurrentReadSlot)
AddStore(u) == StoreAt(u, myControlData.CurrentWriteSlot)
----------------------------------------------------------------------------
(* timedGetMessage *)

GetCalled(u) ==
  /\ Moves(u, "idle", "getWait")
  /\ UNCHANGED <<shared, queueState, uniqueValue, added, died, history>>

GetTake(u) ==
  /\ myControlData.getMsgSemaphore > 0
  /\ Moves(u, "getWait", "getCopy")
  /\ myControlData' = [myControlData EXCEPT !.getMsgSemaphore = @ - 1]
  /\ UNCHANGED <<shm, contents, queueState, uniqueValue, added, died, history>>

(* The interface is down: the token is gone, its message stays.            *)
GetRefused(u) ==
  /\ Section
  /\ ~myControlData.InterfaceStatus
  /\ Moves(u, "getCopy", "idle")
  /\ lost' = [lost EXCEPT !.messages = @ + 1]
  /\ UNCHANGED <<shared, queueState, uniqueValue, added, died, met, waiting, posts,
                 removedName, torn>>

GetCopy(u) ==
  /\ Section
  /\ myControlData.InterfaceStatus
  /\ Moves(u, "getCopy", "idle")
  /\ waiting' = IF waiting = <<>> THEN <<>> ELSE Tail(waiting)
  /\ myControlData' = [myControlData EXCEPT
       !.NumberMessagesInQueue = (@ - 1) % CountSize,
       !.CurrentReadSlot = NextPlace(@),
       !.addMessageSemaphore = @ + 1]
  /\ UNCHANGED <<shm, contents, queueState, uniqueValue, added, died, met, lost, posts,
                 removedName, torn>>

WaitTimedOut(u) ==
  /\ \/ myControlData.addMessageSemaphore = 0 /\ Moves(u, "addWait", "idle")
     \/ myControlData.getMsgSemaphore = 0 /\ Moves(u, "getWait", "idle")
  /\ UNCHANGED <<shared, queueState, uniqueValue, added, died, history>>
----------------------------------------------------------------------------
(* The destructor: it posts both semaphores, unlocks the mutex without     *)
(* having locked it and removes the names, one after the other.  Then      *)
(* deaths.                                                                 *)

Destroy(u) ==
  /\ Moves(u, "idle", "closing")
  /\ myControlData' = [myControlData EXCEPT
       !.getMsgSemaphore = @ + 1, !.addMessageSemaphore = @ + 1,
       !.myDataAccessMutex = "free"]
  /\ torn' = (torn \/ ~Section)
  /\ posts' = posts + 1
  /\ shm' = shm \ {"data"}
  /\ removedName' = TRUE
  /\ UNCHANGED <<contents, queueState, uniqueValue, added, died, met, waiting, lost>>

RemoveControl(u) ==
  /\ Moves(u, "closing", "gone")
  /\ shm' = {}
  /\ UNCHANGED <<myControlData, contents, queueState, uniqueValue, added, died, history>>

(* A process that dies takes the token it held with it.                    *)
Die(u) ==
  /\ place[u] \notin {"none", "gone"}
  /\ died < MaxDeaths
  /\ Moves(u, place[u], "none")
  /\ died' = died + 1
  /\ lost' = [rooms |-> lost.rooms + (IF place[u] = "addStore" THEN 1 ELSE 0),
              messages |-> lost.messages + (IF place[u] = "getCopy" THEN 1 ELSE 0)]
  /\ UNCHANGED <<shared, queueState, uniqueValue, added, met, waiting, posts,
                 removedName, torn>>

(* It dies in a section: the mutex stays locked until a constructor makes  *)
(* it anew or a destructor unlocks it.  The section may have posted its    *)
(* semaphore; what else it wrote is behind the mutex.                      *)
DieInside(u) ==
  /\ Section
  /\ place[u] \in {"idle", "syncWait", "syncMark", "addStore", "getCopy"}
  /\ died < MaxDeaths
  /\ Moves(u, place[u], "none")
  /\ died' = died + 1
  /\ \E posted \in 0..1 :
       myControlData' = [myControlData EXCEPT
         !.myDataAccessMutex = "held",
         !.getMsgSemaphore = @ + (IF place[u] = "addStore" THEN posted ELSE 0),
         !.addMessageSemaphore = @ + (IF place[u] = "getCopy" THEN posted ELSE 0)]
  /\ UNCHANGED <<shm, contents, queueState, uniqueValue, added, history>>
----------------------------------------------------------------------------
Win32Construct(u) ==
  OpenData(u) \/ CreateData(u) \/ CreateControl(u) \/ OpenControl(u) \/ ConstructControl(u)
Win32Call(u) ==
  \/ SyncWrite(u) \/ SyncRead(u) \/ SyncMark(u)
  \/ AddCheck(u) \/ AddTake(u) \/ AddRefused(u) \/ AddStore(u)
  \/ GetCalled(u) \/ GetTake(u) \/ GetRefused(u) \/ GetCopy(u)
  \/ WaitTimedOut(u)
Win32Next ==
  \E u \in Users :
    \/ Win32Construct(u)
    \/ Win32Call(u)
    \/ Destroy(u) \/ RemoveControl(u)
    \/ Die(u) \/ DieInside(u)

Win32Spec == Win32Init /\ [][Win32Next]_winVars
----------------------------------------------------------------------------
(* Properties *)

(* A user that takes itself to be synchronized has met its partner: the    *)
(* partner has written the shared word after it.  Values left over from an *)
(* earlier life, equal values, deaths and reconstructions of the data      *)
(* under the handshake never pass for a partner.                           *)
MetPartner ==
  \A u \in Users :
    place[u] = "syncMark" \/ (queueState[u] = "Synchronized" /\ place[u] # "none")
      => u \in met

(* Each token is accounted for by a free place, a message, a call under    *)
(* way, a destructor's post or a refused or dead caller that took it along *)
(* (modulo the width of the count, which a destructor's post makes wrap);  *)
(* and until a destructor posts, the slots from the read slot on hold      *)
(* exactly the messages accepted since the last constructor, in order.     *)
TokensFit ==
  LET control == myControlData IN
  /\ (control.getMsgSemaphore + Cardinality(Standing({"getCopy"})) + lost.messages
        - posts - control.NumberMessagesInQueue) % CountSize = 0
  /\ (control.addMessageSemaphore + Cardinality(Standing({"addStore"})) + lost.rooms
        + control.NumberMessagesInQueue - posts - maxMsgs) % CountSize = 0

RingInOrder ==
  /\ myControlData.NumberMessagesInQueue = Len(waiting)
  /\ \A i \in 1..Len(waiting) :
       contents[(myControlData.CurrentReadSlot + i - 1) % maxMsgs] = waiting[i]

(* Both hold whatever order calls, deaths, restarts and destructors come   *)
(* in, unless a constructor or a destructor changed the data under a call. *)
StoreKept == ~torn /\ Section => TokensFit /\ (posts = 0 => RingInOrder)
=============================================================================
