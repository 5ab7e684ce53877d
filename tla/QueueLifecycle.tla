--------------------------- MODULE QueueLifecycle ---------------------------
(***************************************************************************)
(* The life of a framework::utils::InterprocessQueue in two processes: the *)
(* constructor that creates or opens the two shared memory objects of the  *)
(* queue, the destructor that takes the interface down and removes them by *)
(* name, and the death of a process at any moment.  One process sends, the *)
(* other receives, as publishQueue and subscribeQueue do, one call at a    *)
(* time each.                                                              *)
(*                                                                         *)
(* The operating system keeps an object alive while it is mapped, even     *)
(* when its name has been removed or reused: an object is a number, given  *)
(* out in order of creation, and a name is a reference to one.  A call is  *)
(* its sections of the mutex and its wait on a semaphore.  A section is    *)
(* one step, but a process may die between any two of its writes; a        *)
(* constructor, which locks nothing, falls before or after a section.  The *)
(* slots are in module InterprocessQueue, which has the detail of users    *)
(* that stay.                                                              *)
(***************************************************************************)
EXTENDS Integers, FiniteSets

CONSTANTS
  Sender, Receiver,   \* the two processes
  MaxObjects,         \* bound: shared memory objects created of each kind
  MaxMsgs,            \* maxMsgs
  Modulus,            \* NumberMessagesInQueue counts modulo this (2^32)
  MaxSends,           \* bound: messages sent
  MaxCrashes          \* bound: processes killed

ASSUME LifecycleAssumption ==
  /\ Sender # Receiver
  /\ MaxObjects \in Nat \ {0}
  /\ MaxMsgs \in Nat \ {0}
  /\ Modulus \in Nat
  /\ MaxMsgs < Modulus
  /\ MaxSends \in Nat
  /\ MaxCrashes \in Nat

Procs == {Sender, Receiver}
Kinds == {"data", "control"}      \* queueName and queueNameControlData
Objects == 1..MaxObjects
None == 0

VARIABLES
  name,      \* kind -> the object its name refers to, or None
  created,   \* kind -> objects created so far
  sized,     \* kind -> the objects that have been truncated to their size
  ctl,       \* control object -> its control data
  pc,        \* process -> where its constructor, destructor or call stands
  kind,      \* process -> the object that step is about
  my,        \* process -> the objects it has opened
  owner,     \* process -> TRUE unless it found the control object existing
  sends,
  crashes,
  torn,      \* history: a name was removed between the two halves of a
             \*   constructor, or half of a destructor was done when one ran
  overlapped, \* history: control data was constructed, announced or taken down
             \*   while another constructor was at work on it
  ledger     \* history: control object -> since it was last constructed, the
             \*   tokens that answer to no message (stray), and the messages
             \*   that wait without a token (unpromised)

objects == <<name, created, sized>>
history == <<sends, crashes, torn, overlapped, ledger>>
vars == <<objects, ctl, pc, kind, my, owner, history>>

(* Fresh memory: zero bytes (and so InterfaceStatus false).                *)
Blank == [InterfaceStatus |-> FALSE, getMsgSemaphore |-> 0,
          addMessageSemaphore |-> 0, NumberMessagesInQueue |-> 0,
          abandoned |-> FALSE]
NoAccount == [stray |-> 0, unpromised |-> 0]

Init ==
  /\ name = [k \in Kinds |-> None]
  /\ created = [k \in Kinds |-> 0]
  /\ sized = [k \in Kinds |-> {}]
  /\ ctl = [o \in Objects |-> Blank]
  /\ pc = [p \in Procs |-> "gone"]
  /\ kind = [p \in Procs |-> "data"]
  /\ my = [p \in Procs |-> [k \in Kinds |-> None]]
  /\ owner = [p \in Procs |-> FALSE]
  /\ sends = 0
  /\ crashes = 0
  /\ torn = FALSE
  /\ overlapped = FALSE
  /\ ledger = [o \in Objects |-> NoAccount]

(* The count of messages is an unsigned int.                               *)
Inc(n) == (n + 1) % Modulus
Dec(n) == (n + Modulus - 1) % Modulus

Goto(p, from, to) == pc[p] = from /\ pc' = [pc EXCEPT ![p] = to]

Control(p) == ctl[my[p]["control"]]

SetControl(p, data) == ctl' = [ctl EXCEPT ![my[p]["control"]] = data]

(* The writes that the sections of the mutex are made of.                  *)
Longer(data) == [data EXCEPT !.NumberMessagesInQueue = Inc(@)]
Shorter(data) == [data EXCEPT !.NumberMessagesInQueue = Dec(@)]
PostGet(data) == [data EXCEPT !.getMsgSemaphore = @ + 1]
PostAdd(data) == [data EXCEPT !.addMessageSemaphore = @ + 1]

(* This process's queue has another token that answers to no message, or   *)
(* another message that waits without a token.                             *)
NoteStray(p) ==
  ledger' = [ledger EXCEPT ![my[p]["control"]].stray = @ + 1]
NoteUnpromised(p) ==
  ledger' = [ledger EXCEPT ![my[p]["control"]].unpromised = @ + 1]

(* The token that the receiver has taken and not yet used.                 *)
InHand(o) == IF pc[Receiver] = "copy" /\ my[Receiver]["control"] = o THEN 1 ELSE 0

(* Processes between the two objects of a constructor, and between the two *)
(* removals of a destructor.                                               *)
HalfBuilt(p) ==
  \/ pc[p] \in {"size", "map"}
  \/ pc[p] \in {"create", "open"} /\ kind[p] = "control"
HalfRemoved == (name["data"] = None) # (name["control"] = None)

(* Another constructor has this process's control data and is not done.    *)
Overlaps(p) ==
  \E q \in Procs \ {p} :
    /\ pc[q] \in {"size", "map", "construct", "announce"}
    /\ my[q]["control"] = my[p]["control"]
NoteOverlap(p) ==
  /\ overlapped' = (overlapped \/ Overlaps(p))
  /\ UNCHANGED <<sends, crashes, torn>>
----------------------------------------------------------------------------
(* The constructor *)

Construct(p) ==
  /\ Goto(p, "gone", "create")
  /\ kind' = [kind EXCEPT ![p] = "data"]
  /\ owner' = [owner EXCEPT ![p] = TRUE]
  /\ UNCHANGED <<objects, ctl, my, history>>

(* create_only: makes the object, or throws because the name exists.       *)
MakeObject(p) ==
  /\ created[kind[p]] < MaxObjects
  /\ created' = [created EXCEPT ![kind[p]] = @ + 1]
  /\ name' = [name EXCEPT ![kind[p]] = created'[kind[p]]]
  /\ my' = [my EXCEPT ![p][kind[p]] = created'[kind[p]]]
  /\ Goto(p, "create", "size")
  /\ UNCHANGED owner

FindExisting(p) ==
  /\ Goto(p, "create", "open")
  /\ owner' = [owner EXCEPT ![p] = (kind[p] = "data")]
  /\ UNCHANGED <<created, name, my>>

NoteHalfRemoved ==
  torn' = (torn \/ (HalfRemoved /\ \A q \in Procs : ~HalfBuilt(q)))

(* Mutant: the data is made anew even if the name exists.                  *)
CreateObjectMutant(p) ==
  /\ IF name[kind[p]] = None \/ kind[p] = "data" THEN MakeObject(p) ELSE FindExisting(p)
  /\ NoteHalfRemoved
  /\ UNCHANGED <<sized, ctl, kind, sends, crashes, overlapped, ledger>>

CreateObject(p) ==
  /\ IF name[kind[p]] = None THEN MakeObject(p) ELSE FindExisting(p)
  /\ NoteHalfRemoved
  /\ UNCHANGED <<sized, ctl, kind, sends, crashes, overlapped, ledger>>

SizeObject(p) ==
  /\ Goto(p, "size", "map")
  /\ sized' = [sized EXCEPT ![kind[p]] = @ \cup {my[p][kind[p]]}]
  /\ UNCHANGED <<name, created, ctl, kind, my, owner, history>>

(* open_only throws when the name has gone; the constructor swallows the   *)
(* exception and leaves an object whose pointers were never set.           *)
OpenObject(p) ==
  /\ Goto(p, "open", IF name[kind[p]] = None THEN "failed" ELSE "map")
  /\ my' = [my EXCEPT ![p][kind[p]] = name[kind[p]]]
  /\ UNCHANGED <<objects, ctl, kind, owner, history>>

(* Mapping an object of size zero throws too.                              *)
MapObject(p) ==
  /\ Goto(p, "map", CASE my[p][kind[p]] \notin sized[kind[p]] -> "failed"
                      [] kind[p] = "data" -> "create"
                      [] OTHER -> "construct")
  /\ kind' = [kind EXCEPT ![p] = "control"]
  /\ UNCHANGED <<objects, ctl, my, owner, history>>

(* Placement new of the control data: semaphores and mutex start anew, the *)
(* plain members keep what the memory holds, so that the messages found    *)
(* have no token, except one that a receiver has in hand.                  *)
ConstructControl(p) ==
  /\ Goto(p, "construct", "announce")
  /\ SetControl(p, [Control(p) EXCEPT !.getMsgSemaphore = 0,
                                      !.addMessageSemaphore = MaxMsgs,
                                      !.abandoned = FALSE])
  /\ ledger' = [ledger EXCEPT ![my[p]["control"]] =
       [stray |-> 0,
        unpromised |-> Control(p).NumberMessagesInQueue - InHand(my[p]["control"])]]
  /\ NoteOverlap(p)
  /\ UNCHANGED <<objects, kind, my, owner>>

DeclareDown(p) ==
  SetControl(p, [Control(p) EXCEPT !.InterfaceStatus = FALSE,
                                   !.NumberMessagesInQueue = 0])
DeclareUp(p) == SetControl(p, [Control(p) EXCEPT !.InterfaceStatus = TRUE])

(* Mutant: alreadyCreatedFlag is tested the wrong way round.               *)
AnnounceMutant(p) ==
  /\ Goto(p, "announce", "up")
  /\ IF owner[p] THEN DeclareUp(p) ELSE DeclareDown(p)
  /\ NoteOverlap(p)
  /\ UNCHANGED <<objects, kind, my, owner, ledger>>

Announce(p) ==
  /\ Goto(p, "announce", "up")
  /\ IF owner[p] THEN DeclareDown(p) ELSE DeclareUp(p)
  /\ NoteOverlap(p)
  /\ UNCHANGED <<objects, kind, my, owner, ledger>>
----------------------------------------------------------------------------
(* Calls.  A section of the mutex of a process that died in it is closed   *)
(* to everybody (abandoned).                                               *)

BeginSend ==
  /\ sends < MaxSends
  /\ Goto(Sender, "up", "room")
  /\ ~Control(Sender).abandoned
  /\ Control(Sender).InterfaceStatus
  /\ sends' = sends + 1
  /\ UNCHANGED <<objects, ctl, kind, my, owner, crashes, torn, overlapped, ledger>>

(* Mutant: the message that is given up is still counted.                  *)
DropMutant ==
  /\ Control(Sender).NumberMessagesInQueue >= MaxMsgs
  /\ SetControl(Sender, PostAdd(Control(Sender)))
  /\ NoteStray(Sender)

(* A full queue gives up its oldest message; getMsgSemaphore keeps the     *)
(* token that was posted for it.                                           *)
Drop ==
  /\ Control(Sender).NumberMessagesInQueue >= MaxMsgs
  /\ SetControl(Sender, PostAdd(Shorter(Control(Sender))))
  /\ NoteStray(Sender)

HasRoom ==
  /\ Control(Sender).NumberMessagesInQueue < MaxMsgs
  /\ UNCHANGED <<ctl, ledger>>

MakeRoom ==
  /\ Goto(Sender, "room", "add")
  /\ ~Control(Sender).abandoned
  /\ Drop \/ HasRoom
  /\ UNCHANGED <<objects, kind, my, owner, sends, crashes, torn, overlapped>>

TakeRoom ==
  /\ Goto(Sender, "add", "store")
  /\ Control(Sender).addMessageSemaphore > 0
  /\ SetControl(Sender, [Control(Sender) EXCEPT !.addMessageSemaphore = @ - 1])
  /\ UNCHANGED <<objects, kind, my, owner, history>>

AddTimeout ==
  /\ Goto(Sender, "add", "up")
  /\ Control(Sender).addMessageSemaphore = 0
  /\ UNCHANGED <<objects, ctl, kind, my, owner, history>>

Store ==
  /\ Goto(Sender, "store", "up")
  /\ ~Control(Sender).abandoned
  /\ SetControl(Sender, PostGet(Longer(Control(Sender))))
  /\ UNCHANGED <<objects, kind, my, owner, history>>

BeginGet ==
  /\ Goto(Receiver, "up", "wait")
  /\ ~Control(Receiver).abandoned
  /\ Control(Receiver).InterfaceStatus
  /\ UNCHANGED <<objects, ctl, kind, my, owner, history>>

TakeMsg ==
  /\ Goto(Receiver, "wait", "copy")
  /\ Control(Receiver).getMsgSemaphore > 0
  /\ SetControl(Receiver, [Control(Receiver) EXCEPT !.getMsgSemaphore = @ - 1])
  /\ UNCHANGED <<objects, kind, my, owner, history>>

(* Mutant: the wait begins again while the interface is down.              *)
GetTimeoutMutant ==
  /\ Goto(Receiver, "wait", "up")
  /\ Control(Receiver).getMsgSemaphore = 0
  /\ Control(Receiver).InterfaceStatus
  /\ UNCHANGED <<objects, ctl, kind, my, owner, history>>

GetTimeout ==
  /\ Goto(Receiver, "wait", "up")
  /\ Control(Receiver).getMsgSemaphore = 0
  /\ UNCHANGED <<objects, ctl, kind, my, owner, history>>

Copy ==
  /\ Goto(Receiver, "copy", "up")
  /\ ~Control(Receiver).abandoned
  /\ SetControl(Receiver, PostAdd(Shorter(Control(Receiver))))
  /\ UNCHANGED <<objects, kind, my, owner, history>>
----------------------------------------------------------------------------
(* The destructor: wakes a receiver, takes the interface down, and removes *)
(* both names, whatever objects they refer to by then.  It unlocks the     *)
(* mutex after the first of these, and again after the second, when        *)
(* another process may have it.                                            *)

Wake(p) ==
  /\ Goto(p, "up", "down")
  /\ ~Control(p).abandoned
  /\ SetControl(p, PostGet(Control(p)))
  /\ NoteStray(p)
  /\ UNCHANGED <<objects, kind, my, owner, sends, crashes, torn, overlapped>>

TakeDown(p) ==
  /\ Goto(p, "down", "remove")
  /\ kind' = [kind EXCEPT ![p] = "data"]
  /\ SetControl(p, [PostAdd(Control(p)) EXCEPT !.InterfaceStatus = FALSE,
                                               !.abandoned = FALSE])
  /\ NoteOverlap(p)
  /\ UNCHANGED <<objects, my, owner, ledger>>

(* Nobody can reach an object without a name and without users.            *)
GiveBack(p) ==
  IF kind[p] = "control" /\ \A q \in Procs \ {p} : my[q]["control"] # my[p]["control"]
  THEN /\ SetControl(p, Blank)
       /\ ledger' = [ledger EXCEPT ![my[p]["control"]] = NoAccount]
  ELSE UNCHANGED <<ctl, ledger>>

RemoveObject(p) ==
  /\ Goto(p, "remove", IF kind[p] = "data" THEN "remove" ELSE "gone")
  /\ name' = [name EXCEPT ![kind[p]] = None]
  /\ kind' = [kind EXCEPT ![p] = "control"]
  /\ my' = [my EXCEPT ![p][kind[p]] = None]
  /\ torn' = (torn \/ (\E q \in Procs : HalfBuilt(q)))
  /\ GiveBack(p)
  /\ UNCHANGED <<created, sized, owner, sends, crashes, overlapped>>
----------------------------------------------------------------------------
(* A process dies: the names and the objects stay.  If it dies inside a    *)
(* section of the mutex the mutex stays locked, and what it wrote until    *)
(* then stays written.  A receiver that dies with a token in hand, and a   *)
(* sender that dies between counting its message and posting the token,    *)
(* leave a message without one.                                            *)

LeaveToken(p) == IF pc[p] = "copy" THEN NoteUnpromised(p) ELSE UNCHANGED ledger
Abandon(p, data) ==
  /\ ~Control(p).abandoned
  /\ SetControl(p, [data EXCEPT !.abandoned = TRUE])

DieOutside(p) == LeaveToken(p) /\ UNCHANGED ctl
DieInside(p) ==
  /\ pc[p] \in {"up", "room", "store", "copy"}
  /\ LeaveToken(p)
  /\ Abandon(p, Control(p))
DieDropping(p) ==
  /\ pc[p] = "room"
  /\ Control(p).NumberMessagesInQueue >= MaxMsgs
  /\ NoteStray(p)
  /\ Abandon(p, Shorter(Control(p))) \/ Abandon(p, PostAdd(Shorter(Control(p))))
DieCounting(p) ==
  /\ pc[p] = "store"
  /\ NoteUnpromised(p)
  /\ Abandon(p, Longer(Control(p)))
DieStoring(p) ==
  /\ pc[p] = "store"
  /\ Abandon(p, PostGet(Longer(Control(p))))
  /\ UNCHANGED ledger
DieCopying(p) ==
  /\ pc[p] = "copy"
  /\ Abandon(p, Shorter(Control(p))) \/ Abandon(p, PostAdd(Shorter(Control(p))))
  /\ UNCHANGED ledger
DieWaking(p) ==
  /\ pc[p] = "up"
  /\ NoteStray(p)
  /\ Abandon(p, PostGet(Control(p)))
DieTakingDown(p) ==
  /\ pc[p] = "down"
  /\ SetControl(p, PostAdd(Control(p)))
  /\ UNCHANGED ledger

Die(p) ==
  \/ DieOutside(p)
  \/ DieInside(p)
  \/ DieDropping(p)
  \/ DieCounting(p)
  \/ DieStoring(p)
  \/ DieCopying(p)
  \/ DieWaking(p)
  \/ DieTakingDown(p)

Crash(p) ==
  /\ crashes < MaxCrashes
  /\ pc[p] # "gone"
  /\ crashes' = crashes + 1
  /\ pc' = [pc EXCEPT ![p] = "gone"]
  /\ my' = [my EXCEPT ![p] = [k \in Kinds |-> None]]
  /\ Die(p)
  /\ UNCHANGED <<objects, kind, owner, sends, torn, overlapped>>

LifeStep(p) ==
  \/ CreateObject(p)
  \/ SizeObject(p)
  \/ OpenObject(p)
  \/ MapObject(p)
  \/ ConstructControl(p)
  \/ Announce(p)
  \/ TakeDown(p)
  \/ RemoveObject(p)

SendStep == BeginSend \/ MakeRoom \/ TakeRoom \/ AddTimeout \/ Store
GetStep == BeginGet \/ TakeMsg \/ GetTimeout \/ Copy

Next ==
  \/ \E p \in Procs : Construct(p) \/ LifeStep(p) \/ Wake(p) \/ Crash(p)
  \/ SendStep
  \/ GetStep

Spec == Init /\ [][Next]_vars

(* A running process goes on with what it has begun.                       *)
FairSpec ==
  /\ Spec
  /\ \A p \in Procs : WF_vars(LifeStep(p))
  /\ WF_vars(MakeRoom \/ TakeRoom \/ AddTimeout \/ Store)
  /\ WF_vars(TakeMsg \/ GetTimeout \/ Copy)
----------------------------------------------------------------------------
(* Properties *)

Attached(p) == pc[p] \in {"up", "room", "add", "store", "wait", "copy"}
Calling(p) == Attached(p) /\ pc[p] # "up"

(* The two processes agree on the slots when they agree on the control     *)
(* data, unless a constructor ran while the names of the queue were half   *)
(* removed.                                                                *)
SharedDataUnlessTorn ==
  /\ \A p \in Procs : Attached(p)
  /\ my[Sender]["control"] = my[Receiver]["control"]
  /\ ~torn
  => my[Sender]["data"] = my[Receiver]["data"]

(* While the interface is up the tokens, in getMsgSemaphore and in the     *)
(* receiver's hand, answer to messages: each message that waits has one,   *)
(* except those that a constructor found or that a death left without, and *)
(* each message dropped from a full queue, and each destructor that wakes  *)
(* a receiver, leaves one that answers to nothing.  The count is good      *)
(* modulo its width, since a stray token takes a message from an empty     *)
(* queue.  Overlapped constructors are excepted.                           *)
TokensMatch ==
  ~overlapped =>
    \A p \in Procs :
      LET o == my[p]["control"] IN
      Attached(p) /\ Control(p).InterfaceStatus =>
        (ctl[o].getMsgSemaphore + InHand(o) + ledger[o].unpromised) % Modulus
          = (ctl[o].NumberMessagesInQueue + ledger[o].stray) % Modulus

(* Two processes that have both come up on the object the name refers to   *)
(* have an interface that is up.                                           *)
BothUp ==
  /\ \A p \in Procs : Attached(p)
  /\ my[Sender]["control"] = my[Receiver]["control"]
  /\ my[Sender]["control"] = name["control"]
UpUnlessOverlapped ==
  BothUp /\ ~torn /\ ~overlapped => Control(Sender).InterfaceStatus

(* What getQueueState's header says: the interface is down because one of  *)
(* the two users has taken it down.                                        *)
BothUpMeansSynchronized ==
  BothUp /\ crashes = 0 /\ ~torn => Control(Sender).InterfaceStatus

(* What "timed" says: a call of timedAddMessage or timedGetMessage returns *)
(* (or its process dies), whatever the partner does, its death included,   *)
(* unless it died inside a section of the mutex, which has no timeout.     *)
ControlAbandoned(p) ==
  \E o \in Objects : my[p]["control"] = o /\ ctl[o].abandoned
TimedCallsReturn ==
  \A p \in Procs : Calling(p) ~> ~Calling(p) \/ ControlAbandoned(p)
=============================================================================
