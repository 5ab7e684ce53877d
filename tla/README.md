# A TLA+ model of mts-file-joiner and its interprocess queues

The repository holds, under the directory ` mts-file-joiner --username
thesuperstitions/` (the leading space is part of its name), several programs and
libraries that grew together: a queue in shared memory between two processes, in C++
and in C; a layer for NTDS devices that sends and receives through such queues; a
queue between threads of one process, with two programs that test it; threads, timers
and links for a federation simulator; and MTS_FileJoiner, a window that joins video
segments. This directory holds TLA+ modules that model the parts with state and
concurrency, TLC configurations that check them on small instances, and proofs of
what matters most for every value of the constants.

Paths below are relative to that directory. `PROJECT.json` maps each definition to
the lines it models, and lists the hazards of the code with the properties that
watch them.

## How to run it

```
tlasany MCInterprocessQueue.tla                                  # parse
tlc -workers 2 -config MCInterprocessQueue.cfg MCInterprocessQueue.tla
tlapm InterprocessQueueProofs.tla                                # prove
```

## 1. The system

### 1.1 Shared-memory queue (`InterprocessQueue/InterprocessQueue.cpp`, `.h`)

State, in two shared memory objects: the slots (`myQueue`), and the control data: a
mutex, two semaphores (`getMsgSemaphore` counts messages, `addMessageSemaphore` counts
free slots), a read and a write slot, a message count (unsigned) and
`InterfaceStatus`. Each process also has its own object with pointers into both.

Operations: a constructor that creates the two objects or, when they exist, opens
them; a destructor; `getQueueState`; `timedAddMessage` and `timedGetMessage`, each a
check of the state, a timed wait on a semaphore and a section of the mutex.

Interaction: two processes share the memory; each may call from several threads.
`ntds_comm` owns a pair of queues for each port.

What is hard: the two senders that make room in one section and store in another; a
full queue that drops a message whose token is out; an unsigned count that can wrap;
the second user's constructor, which constructs the semaphores while the first may
wait on them; a destructor that removes by name what another process may just be
opening, and that unlocks the mutex twice; a process that dies in a section.

Correct means: tokens, count, slots and messages agree in every interleaving; nothing
is overwritten unread, received twice or reordered; an accepted message leaves; two
users that are attached share the same slots and agree that the interface is up.

### 1.2 Shared-memory queue in C (`InterprocessQueue-C/`)

The same memory with POSIX semaphores, a mutex and a condition variable shared by
processes. Its operations are `create2`, `delete`, the timed calls,
`waitOnQueueSynchronization`, `getQueueState` and `flushQueue`. It differs from the C++
queue in ways that matter: a full queue refuses; a second `create2` keeps the tokens; the
status is 0 when *both* clients are there, and decides who removes the memory; every
return of a timed call unlocks the mutex, locked or not.

Correct means: tokens account for messages and slots through flushes and through
clients that come and go; the backlog survives a client that leaves; the memory goes
with the last client; one client at a time is inside.

### 1.3 NTDS layer (`InterprocessQueue/ntds_comm.cpp`)

State: `Device_Ports` (device to its primary, secondary, normal and alternate port),
`Port_Device` (port to device), `Comm_Configured` with a count in element 0,
`NTDS_Channel_Status`, and `publishQueue` and `subscribeQueue` of each port in a static
`QueueFactory`.

Operations: `Configure_NTDS_Device` walks a list of descriptors and fills the tables
through `port_used`, `assign_port_to_device` and `createQueues`;
`Report_Port_Status` writes a status; some twenty getters read; `Send_NTDS_Mesg` and
`Recv_NTDS_Mesg` go through the queues. Most other functions are stubs. No lock guards
any table.

What is hard: five tables, written one after the other, that are read in between; a
table that is searched to the first free or matching entry; ports of a device that come
in either order; ports given twice; a call that has found its port while the main thread
configures, or leaves; queues that are shared by name, with the partner process or, if two
ports have one name, within the process itself.

Correct means: every search finds what assignment stored; a port that an entry names
has its queues; the order of the two ports does not matter; status, port and channel
read from the tables are those the device was given; a call finds the queue it uses; traffic
stays with its device; a queue is up only if the partner is there, and down after exit.

### 1.4 Queue between threads (`InterprocessQueueTest/MessageQueue/QueueTestConsole-Win32/`)

`Queue` is a circular buffer of pointers with a mutex for the data and a second mutex,
`myMutex`, that is unlocked to signal and timed-locked to wait. `ProducerThread` writes
numbered messages into a fixed pool and adds their pointers, retrying while the queue is
full; `ConsumerThread` checks the numbers; `main` starts both, waits for a key, stops
both, joins the consumer only, and deletes everything.

What is hard: the pool and the queue have the same capacity, so that a slot of the pool
can be written while its pointer is still queued; the signal can be lost; the objects of
a running thread are deleted.

Correct means: no pointer is lost, doubled or out of order; the consumer sees the
numbers in sequence; the queue outlives the consumer; the program ends.

### 1.5 File joiner (`MTS_FileJoiner/MTS_FileJoiner.cpp`)

`BitBtn1Click` runs two dialogs, opens the output for writing, and then takes the least
name from the selection (`GetNextFileName`), copies that file in buffers of 10 MB, and
goes on until the selection is empty. `MTS_FileJoinerV2` has the same source file, byte
for byte.

What is hard: `feof` is known only after a short read; the result of `fwrite` is not
looked at; a segment may have gone, may be unreadable, or may be the output itself.

Correct means: the output is the selected files in the order of their names, whole,
and the log does not claim more than was written; a click ends.

### 1.6 Queue between threads, Qt program (`InterprocessQueueTest/MessageQueue/QueueTest/`)

The same queue, owned by a window, with messages from the heap and one button that
starts and stops the two threads, any number of times. Stop joins the consumer and
deletes both thread objects, the producer's under its thread.

What is hard: the producer counts in a static variable, the consumer from the beginning
in every start; a producer that was let go may still be counting in the next start.

Correct means: in one start the numbers are in sequence; a press on Stop returns.

### 1.7 Older shared-memory queue (`QueueTestConsole-Win32/InterprocessQueue.*`)

The control data of 1.1 with one more word, `UniqueValue`. Every constructor constructs
the control data anew. `SynchronizeQueueUsers` writes a random value into the word, waits,
and takes another value found there for the partner's. A full queue refuses. No
program of the repository calls it.

What is hard: the constructor under a running call, values left by an earlier life, tokens
that a refused call keeps, a death in a section.

Correct means: a user that takes itself to be synchronized has met its partner; tokens, count
and slots agree.

### 1.8 Thread, timer and the federate's I/O threads (`MessageQueue/*.cpp`)

`Thread` starts a thread on an object and lets go of it in `stop`; it never ends one. `Timer` is
a thread that sleeps once and calls `onTimerExpired`. The output and the input thread take
messages from a list under `myMutex`, locked and unlocked by hand; the application adds to the list
without it.

What is hard: stop and start leave two threads on one object; the mutex stays locked on an
empty list, and is unlocked twice after an exception; an add overlaps a removal.

Correct means: each message is passed on once, in order, and in the end; a timer that is not
stopped expires.

### 1.9 Federate links (`PerlScript-RhapsodyAdjust/Federate.cpp`)

A federate and its handler, and a federate and its post office, hold pointers to each other.
Three setters on each side (`set`, `_set`, `__set`) do a part of the work each.

Correct means: the two pointers of a link agree whichever side sets, replaces or destroys it, and none
leads to an object that is gone.

### 1.10 SPS protocol interface (`InterprocessQueue/sps49_io.c`)

Only `Initialize_SPS_Interface` is code. It notes a word width and two marks for the port, calls
`Configure_NTDS_Device`, and if that returns OK reports the port reset. Its tables are written before
the outcome is known. Correct means: they agree with those of the layer below.

### 1.11 The other parts

| part | what it is | status |
|---|---|---|
| stubs of `ntds_comm.cpp` | return constants; bodies are commented out | not modelled |
| `MessageQueue/Queue.cpp`, `InterprocessQueueTest.cpp` | a vector with add and remove; a `main` with empty branches | not modelled: nothing to go wrong |
| scripts, documents, pictures | no program state | not modelled |

## 2. The modules and the code

| module | models | grain of a step |
|---|---|---|
| `InterprocessQueue` | 1.1 while both users are attached: any number of threads in either call | one section of the mutex, or one semaphore operation |
| `LossyFifo` | the promise of the above: a bounded FIFO that drops its oldest | one operation |
| `QueueLifecycle` | 1.1's constructor, destructor and process death in two processes | one operating-system call on a named object; one section, or what is written of it when its process dies |
| `QueueShutdown` | 1.1's mutex while the destructor runs | half a section: reading the count, writing it |
| `InterprocessQueueC` | 1.2 | lock, section, unlock and each wait |
| `NtdsPorts` | 1.3's tables | one store into an entry of the device table; all stores for the port being configured |
| `NtdsComm` | 1.3's `Send_NTDS_Mesg` and `Recv_NTDS_Mesg` over `NtdsPorts`, with the partner process and exit | finding the port, looking at the mark, one call of a queue |
| `ReceiveBuffer` | the buffer that all receivers of 1.3 share | half a message copied or read |
| `SpsInterface` | 1.10 over `NtdsPorts` | one step of `NtdsPorts` |
| `ThreadQueue` | 1.4, three threads | what a thread does between two points where another can be seen |
| `FileJoiner` | 1.5, one click | one pass of a loop |
| `QtQueueTest` | 1.6: the window, producers and consumer of successive starts | as `ThreadQueue`; reading and writing the static counter are two steps |
| `Win32Queue` | 1.7, two processes that die and start again | one call on a named object; one section |
| `FederateThreads` | 1.8: one object of one of the three classes, its threads and its caller | a lock, a use of the list, a call of the receiver |
| `FederateLinks` | 1.9, federates, handlers and post offices that come and go | one public call |

The theorems are in `InterprocessQueueProofs`, `QueueLifecycleProofs`, `QueueShutdownProofs`, `NtdsPortsProofs` (also
about `SpsInterface`), `NtdsCommProofs` (also about `ReceiveBuffer`), `QueueVariantsProofs` (the C and the Win32 queue),
`ThreadsProofs` (`ThreadQueue`, `QtQueueTest`, `FederateThreads`, `FederateLinks`) and `FileJoinerProofs`.

Each `MC...` module fixes the constants of the modules it extends. Four of them check parts that
share nothing side by side: a variable (`variant` in `MCQueueVariants`, `subject` in
`MCThreads`, `detail` in `MCNtdsComm`, `protocol` in `MCNtdsPorts`) says in the initial
state which part runs, and the others' variables keep an initial value. The states of such a run are
the sum of its parts, not their product. Where the initial state of a part leaves a choice, a part that stands
aside has one fixed choice, which only keeps the sum small.

**Three modules of one queue.** The C++ queue is split by what the sections mean.
While users stay, a section of the mutex runs as if atomic, since no code waits inside
one: `InterprocessQueue` takes sections as steps, with all the calls' control, and shows
that they implement `LossyFifo`. The destructor breaks that premise, so `QueueShutdown`
drops it and models the section in two parts, with the slots left out. Creation and
removal need the operating system's objects and names, and one process at a time in
each; `QueueLifecycle` models these, with calls reduced to their sections, waits, count and tokens.

**InterprocessQueue.** `AddCheckState`, `MakeRoom`, `TakeRoom` or `AddTimeout`, and
`Store` are the parts of `timedAddMessage`, in its order; `GetCheckState`, `TakeMsg` or
`GetTimeout`, and `Copy` those of `timedGetMessage`. A timed wait gives up only if the
semaphore is zero at that moment, at any such moment: no time is modelled. `OpenQueue` is
the second user's constructor, which resets both semaphores but no slot and no count.
Messages are the numbers of the calls that sent them; sizes are left out.
`accepted`, `removed`, `drops` and `misread` are history: nothing reads them but
properties.

**QueueLifecycle.** An object is a number given out in order of creation; a name is a
reference. Removing a name leaves the object to those who have it mapped, which is how
two processes can end up with one control block and different slots. A process that
dies frees its mappings but neither names nor memory; if it dies in a section, the mutex
is closed (`abandoned`) until a constructor builds it anew or the destructor's second unlock opens it. Nobody sees the
inside of a section, so a section is one step, except for its own death: `DieDropping`, `DieCounting`,
`DieCopying` and their like leave what was written up to each point. A constructor locks nothing; it
falls before or after a section, not inside. A send is `BeginSend`, `MakeRoom`, which drops the oldest
message of a full queue and keeps its token (`Drop`), `TakeRoom` or `AddTimeout`, and `Store`. The
destructor is `Wake`, up to its first unlock, and `TakeDown`, the post and the store between the two unlocks and the
second of them; that this one may open another thread's section is what `QueueShutdown` is about.
`torn` and `overlapped` are history variables that say which of the two races has happened.
`ledger` is history too: for each control object the tokens that answer to no message (of dropped
messages, and of destructors), and the messages that wait without a token (found by a constructor, or left by a death).

**InterprocessQueueC.** Starts when the first client's `create2` is done. `Unlock` of a
mutex that is not held leaves the mutex as it is or opens it (POSIX leaves it undefined for
this kind of mutex); `strayed` records that a section was opened that way.

**NtdsPorts.** `AssignPort` with `StoreField`, `MarkConfigured`, `CreatePublishQueue` and
`CreateSubscribeQueue` are the writes of one descriptor's configuration in the code's order;
getters are operators that may be read between any two. Every call searches the device table, so an entry is
filled store by store: `AssignPort` stores the device id of a new entry, or the first port of a grown one, and works
out what the entry holds after each store that follows (`stores`); `StoreField` is one of them. `MarkConfigured` is coarser: lines 1785 to
1838 write several tables for one port, and are one step. What can be read of that port in between is what can be read
before or after, table by table, and the properties say nothing of the port that is being configured (`Configuring`). `given` records what each device
was assigned, and is the reference that the getters are compared with. The model keeps
the code's use of the list's head for device and port. `device_config` holds the descriptor
that was saved for a port, which is the list's current one; a word size or a mode is a part
of it, and a status string is its index.

**NtdsComm.** Extends `NtdsPorts`: each step of the configuration is a step of that module,
with what it does to shared memory added. A port's `queueName` stands for the unit and the
name string that `createQueues` prints into the two names; any two ports may have the same
one. `FindPort` is `get_port` with its checks, and notes in `strayed` the devices of which a call has read port 0 because
the entry's own port was not stored yet; `Publish` the add of a sender, `CheckConfigured`
the look of a receiver at `Comm_Configured`; `Poll` is the `WAIT_FOREVER` loop and `TryOnce` with
`TryInVain` the other branch. A call of a queue is one step: that its parts may be taken as
one is what `InterprocessQueue` and `QueueLifecycle` are about. The partner is external; it opens
the two queues of a name, in any order with the process's own constructor, and does not
leave. `Leave`, `DeleteQueue` and `Left` are exit and `~QueueFactory`, queue by queue; a thread
that uses a pointer that is NULL or freed stops (`UseNothing`, "broken").

**ThreadQueue.** Unlocking `myMutex` when it is free leaves it free or flips it, both
choices being what builds have done with such an unlock. A refused
add and the read of an unreadable file (in `FileJoiner`) change nothing and are
stuttering steps.

**ReceiveBuffer.** What `NtdsComm` leaves out of `Recv_NTDS_Mesg`: the message is copied in two halves
into the buffer inside the section of its queue's mutex, and read in two halves after the call.
`SubscribeOf` gives each caller its port; callers on one port are kept apart by the mutex while they copy, and by
nothing while they read.

**SpsInterface.** `Initialize_SPS_Interface` starts a call of `Configure_NTDS_Device`, whose steps are those of
`NtdsPorts` with the protocol's tables unchanged; `SpsFails` and `SpsSucceeds` are what follows its two results. A word width
stands for the descriptor it was taken from. `refused` and `passedOver` remember how the calls for a port
went.

**QtQueueTest.** A producer that Stop has let go runs on an object that is deleted; the flag it reads there is
anything, so it may end or go on. Each start has a producer of its own, and the only
consumer is the present start's.

**Win32Queue.** A constructor that finds the second object missing throws, and swallows it: the object is "broken". Once a
destructor has removed the names, a later constructor would make another queue, so the model lets none begin.
Values are drawn from small sets, the first draw's being among the later ones, as in the code. `torn`
says that a constructor, or a destructor's unlock, has changed the data under a call.

**FederateThreads.** `kind` is the object's class. A thread that `Stop` lets go keeps running. Unlocking a mutex that
the thread does not hold leaves it, opens it, or locks it for good; an add that overlaps a change of the
list may undo it. `overlapped`, `threw`, `twoInside` and `emptyRound` are history: they name the conditions without which the
properties hold.

**FederateLinks.** The setters are operators on a link (a record of the two pointer functions), composed as the code
composes its calls, so that a public call is one step that passes through links that do not agree. The handler's
and the post office's side is generated by the same tool and taken to be the same code.

**FileJoiner.** A path is a number in the order of `strcmp`. A block stands for what one
unit of `fread` moves; what matters is whether a file's size is zero, a multiple of the
buffer, or neither.


## 3. The runs

States are distinct states of TLC.

| run | configuration | states | question |
|---|---|---|---|
| `queue` | 2 senders, 2 receivers, 2 slots, 4 adds, fair | 76,497 | do tokens, count, slots and order agree, is the queue a lossy FIFO, and does every accepted message leave? |
| `life` | 2 processes, 2 generations of objects, 1 slot, 2 sends, 1 death between any two writes, fair | 1,096,182 | do attached users share slots, tokens and status, and do timed calls return? |
| `shutdown` | 2 senders, 1 receiver, 5 calls | 5,633 | is the mutex exact until the second unlock? |
| `cqueue` | C: 2 clients, 2 slots, 4 adds. Win32: 2 users, 2 slots, 3 adds, values 1 to 3, 1 death | 981,815 | do tokens and backlog survive flushes, leaving and coming back, and in the older queue deaths and constructors; do its users meet? |
| `ports` | 2 ports, 3 devices, 3 calls with every descriptor (one or two in a list), 2 statuses; at most 2 of them by `Initialize_SPS_Interface` | 825,264 | are the tables consistent at every step, do the getters say what was given, and do the SPS protocol's tables agree? |
| `comm` | 2 ports, 2 devices, 2 names, 2 calls with any descriptor in range, 1 sender, 1 receiver, 1 message each way, fair. Buffer: 3 callers on 2 ports, 3 messages | 1,867,359 | do calls find their queues while ports are configured, and what holds of the queues from opening to exit; who reads whose message? |
| `joiner` | 3 files of 0, 2 or 3 blocks, buffer of 2, disk of 6, every selection in every order, any output | 59,310 | is the output the join, and does a click end? |
| `tqueue` | console: capacities 1 to 4, pool of 4, 7 messages. Qt: capacities 1 and 2, 2 starts, 3 numbers. Threads: 2 threads, 2 messages. Links: 2 federates, handlers and post offices. Fair | 134,378 | is the sequence kept, also over restarts; is each message served once; do links agree; does a stop end? |

Four more runs show where the code departs from what it says of itself; each ends in a
counterexample, and section 6 describes them: `queue_stale`, `life_race`,
`shutdown_twice`, `cqueue_unlock`.

### What the properties say

*queue.* `TokenBalance`: the semaphores plus the tokens in calls' hands equal the backlog plus
the number of drops, and the free slots. This is the exact account of the token that a
drop leaves behind. `MisreadOnlyAfterOverflow`: a receiver is let in to an empty queue only
after an overflow. `RingHoldsBacklog` and `LeaveInOrder`: until that happens the ring holds
what was accepted and not removed, in order. `KeepsPromise`: the refinement of `LossyFifo`,
where `queue` is read from the ring between the read and the write slot. The promise
ends with the first misread, in the model as in the code: the unsigned count wraps to its
top, and from then on every add "makes room" in a queue that is not full.
`AcceptedLeaves`: an accepted message is received or dropped.

*life.* `SharedDataUnlessTorn` and `UpUnlessOverlapped` say that two users that are attached agree on the slots and that
the interface is up; each names the race that breaks it, and the run shows that nothing else does, the death
of a process and its return included. `TokensMatch` is the account of the semaphore over all lives of a control object.
Tokens and messages do not agree in this code: an overflow leaves a token of a message that is gone, the destructor
posts one to wake a receiver, a constructor finds messages and builds an empty semaphore, a death takes a token along or comes between count
and post; and a stray token takes a message from an empty queue, so that the count wraps. The property says that
these are all: tokens, in the semaphore and in the receiver's hand, and messages without one make up messages and stray
tokens, modulo the width of the count. It holds through overflows, wraps, deaths and torn names while the interface is up, and excepts
only overlapped constructors. `TimedCallsReturn`: a call of either process ends, whatever happens to the partner, unless a death
has left the mutex locked, for which the code has no timeout.

*shutdown.* `OneInside` and `CountKept`: exclusion and the count hold up to the destructor's
second unlock, the interval between the two unlocks included.

*cqueue.* `BacklogKept`: tokens account for messages and slots, and the ring holds what was accepted and not
taken, unless an unlock strayed or a flush met a receiver that had taken its token. `RemovedOnlyByLast` is an
action property: the step that removes the memory leaves nobody attached. Of the older queue, `MetPartner`: whoever
takes itself to be synchronized has been answered; equal values, values left over, deaths and constructors under the
handshake may delay it and never fake it. `StoreKept`: every token is accounted for, those that refused and dead callers
took along included, and until a destructor posts the slots hold the accepted messages in order. It claims nothing
while a death has left the mutex locked, nor once the data were constructed, or the mutex opened, under a call: the
code has nothing against that.

*ports.* `TablePacked` (no hole, no device twice) is what every linear search relies on.
`RoutesComplete` relates four tables: a port that an entry names is configured and has both
queues, unless it is the one being configured or a zero that is not stored over yet, which only an entry whose count is still zero can show.
`UpIfOneViable`, `PortWasGiven` and `ChannelAsGiven` compare entries and getters with the history: the port
getters, the saved descriptor, and that what is told of a device's current port (configuration,
word size, status, string) comes from one configured port. The current port is right from the moment the entry is counted, also while a second port is being stored;
the others, which read several fields, except a device whose entry is being written. Only while the port is being
configured may the word size be that of nothing: `Get_NTDS_Word_Size` does not look at `Comm_Configured`. `SpsAgrees`: a port that the SPS
protocol marked is configured below and has its queues, or a call for it failed; its width is that of the saved
descriptor, or the latest call was passed over, failed or had a list of two; and only a failed call leaves a marked port
whose type was never set. The protocol never takes a mark back.

*comm.* `RouteThere`: a call that found its port has the queue it is going to use, unless that port is
being configured at this moment. That exception is real for both calls, and
wider for the sender, which does not look at `Comm_Configured`. A sender has one more: its device's entry showed the
static zero, port 0, because the entry's own port was not stored yet (`strayed`). It says nothing of the queue's deletion at exit. `UpMeansPartner`: a queue
is up only if the partner has opened it, however often its port is configured, unless two ports
share a name; then the process is its own second user. `TrafficIsOwn`: what a device sends, and
what its receivers get, passes a queue of a port the device was given; a device of which a call strayed may have used
port 0's queues as well, and no others. `DownAfterExit`: after
`~QueueFactory` no interface is up. `MailArrives`: a receiver in the `WAIT_FOREVER` loop gets the
message that is there, or somebody else has taken it. `ReadsOwn`: a caller reads the message it was given unless
another one's copy came between, and the buffer holds one message in one piece unless callers on different ports copied at
once.

*joiner.* `OutputIsJoin` holds at every step, mid-segment included; its first part compares the
shrinking-list selection with a sort. `ReportedIsWritten`: the count in the log is the length
of the file unless the disk was full. `ClickEnds` excepts only an unreadable segment.

*tqueue.* `NothingLost` accounts for every pointer between producer and consumer.
`InSequence`: the consumer's error can come only from a pool slot
that was reused too early, and that needs a queue within one of the pool. The program as
configured (both 1048576) is in that range. `Delivered` is about lost signals. `EveryStopEnds` joins the
two test programs: a key or a press on Stop comes to its end. `OneSessionAccepts`: the first start sees the
numbers in sequence, and of all starts only one accepts anything, unless producers of two starts gave one number
twice. `PassedOnce`: what the federate's threads passed on, followed by what is still listed, is what was added, in order,
whatever is refused or thrown, unless an add met a use of the list or an exception let two threads in. `Served` says when a message
is passed on in the end and when a timer expires; each exception names something the code does: the lock kept on an
empty list, the second unlock after an exception. `LinksAgree`: links are mutual, and lead to objects that are there.

### Bounds and why they are enough

* Two slots are the least with a slot that is neither first nor last, and let the queue be
  empty, part full and full. Four adds are enough for an overflow, a drain and a misread, which take
  three (the `queue_stale` counterexample), and one more add that meets the wrapped count. Two
  threads on each side is the least at which two calls of a kind interleave.
  `Modulus = 8` stands for 2^32: it is well above the slots, so that a count that wraps is
  seen as "full" and not as a small number.
* Two generations of shared memory are the least at which an old and a new object coexist;
  one death is enough for each of the two roles to die at each of its steps. A queue of one slot and two sends
  overflow, drain, misread and wrap the count (of width 4), also over two lives of the partner.
* Three devices over two ports fill the table and overflow it; three calls give one device
  both its ports and a third attempt. Lists of two descriptors suffice because the code reads
  only the flag of the descriptors after the first. Devices are interchangeable, so `ports` and `comm` choose the one that is configured first, and `comm` the name of
  port 0, once and for all. The port range includes one that is out
  of range.
* Two ports and two names are the least at which queues can be shared or kept apart, and two
  calls configure both ports, one port twice, or one port for two devices. `comm` takes lists
  of one descriptor in range, the lists of `ports` being a different question. One message each
  way is enough for a queue to be empty or not.
* File sizes of no block, exactly one buffer, and a buffer and a half are the cases of `feof`;
  a disk of six blocks fills up in some joins and not in others.
* The older queue's users draw from two first values, so that they may be equal, and from one more later; one death
  can come at every step, before and after the partner's. Its unsigned count has a width of 8, as above.
* Three callers of the buffer, two of them on one port, meet both in one queue and in two.
* Two starts of the Qt program are the least at which the counter is carried on. Two threads on one object and two messages are the
  least at which a removal, an add and another thread's round overlap. Two federates and two of each partner let a link be taken
  over, from either side, by another.
* Two calls of `Initialize_SPS_Interface` give a port twice, or to two devices, or pass one over.
* Seven messages wrap a pool of four; the four capacities are on both sides of the limit in
  `InSequence`.

`CHECK_DEADLOCK FALSE` stands where a behaviour may really stop: a queue whose clients
have left, a program that has returned, a bounded number of configuration calls.

### Fairness and why the code justifies it

* `InterprocessQueue`: a call in progress goes on, because every wait in it has a timeout
  and the mutex is never held across one; a receiver calls again, as `Recv_NTDS_Mesg` does in its
  `WAIT_FOREVER` loop. Nothing is assumed of how often anyone sends.
* `NtdsComm`: a receiver in the `WAIT_FOREVER` loop goes on polling until the process has left, the
  loop having no other exit. Nothing is assumed of the main thread, senders or partner.
* `QueueLifecycle`: a running process goes on with a constructor, destructor, send or receive that it
  has begun. A death is never fair, nor is the start of anything. A process that has died
  takes no step, and its partner's fairness is enough.
* `FileJoiner`: a click handler runs on. The read of an unreadable file is a stuttering step
  that it may take for ever, which is why `ClickEnds` excepts it.
* `FederateThreads`: threads run, a call that adds returns, and the receiver does not refuse messages for ever. The last is
  strong fairness of `PassOn`, as the thread is again and again in a place where the receiver may
  take the message; a receiver that always refuses keeps its first message for ever, which the code intends. Nothing is
  assumed of the caller.
* `QtQueueTest`: the window's handler and the consumer run; nobody need press the button, and no producer is assumed to run.
* `ThreadQueue`: the main thread and the consumer run. No fairness is assumed of the producer, nor
  that a key is pressed. The operating system's scheduler gives that much.

All but the receiver of `FederateThreads` are weak fairness. In a run of several parts the fairness of each is stated over its own
variables: a part that stands aside has nothing enabled that it would ask for.

## 4. What is proved

With TLAPS, for every value of the constants that satisfies the named assumption of the
module.

**InterprocessQueueProofs** (any finite sets of threads, any number of slots, any
`Modulus` above it): `TypeCorrect`, `TokensBalance`, `ExactUntilOverflow`, `RingCorrect`,
`OrderKept`, and `Refinement`: the queue implements `LossyFifo`. None of the invariants is
inductive alone. `IndInv` joins them and adds two facts. `ArgOK`: a call in progress
holds a message. `DownMeansUnused`: while the interface is down, no call is past
`getQueueState` and the semaphores are as built; without it the second user's constructor,
which builds them again, could take a token from a call in progress. Within `IndInv`, the
token account is what bounds the backlog by the slots when a sender stores, and the
account is only useful with a ring that is exact until a misread; a misread in turn needs
the account to show that there was a drop. `AheadWalks` and `CountMoves` hold the modular
arithmetic, once for all actions. The threads' sets are assumed finite for the
cardinalities; that the count's range exceeds the slots is what `QueueFull` relies on.
The refinement maps each step to a step of `LossyFifo` or a stutter, action by action;
`TakeOutIsTail` shows that the queue read from the ring loses its head.

**QueueLifecycleProofs** (any bounds on objects, messages, sends and deaths): `SharedData`, `Tokens` and `UpTogether`. None of the three
invariants follows without the others' parts in `IInv`. `Held` and `Ownership` say what a process holds at each point of its
constructor and destructor, and that no two own one control object. `NamesHeld`: while no name was torn, the name of the data object is
where the constructor that made or opened it left it, until that constructor has its control object; so control
data stands for one data object (`Paired`). `OwnerFirst`: while constructors did not overlap, nobody is past a constructor on control data whose
owner is still entering, which would wipe it; so the interface stays up once both are there (`UpWhenBoth`). For the
tokens, `Balanced` says that the surplus of what is promised (semaphore, hand, messages without a token) over what waits (the count and
stray tokens) is a multiple of the width of the count, on every control object that is `Claimed`: a constructor is about to announce itself on it, or
its interface is up and somebody is attached. The first half of `Claimed` is what a constructor's reset establishes, the second what its announcement turns it into; an
announcement that wipes the count would break it for somebody attached, which `OwnerFirst` rules out. Each write of a section
moves both sides alike or is noted in the ledger (`DropWrites`, `StoreWrites`, ...), and a death between two of them leaves a prefix of the writes;
`CountWraps` holds the modular arithmetic. No part of it asks that names were not torn or that nobody died.

**QueueShutdownProofs** (any disjoint sets of threads): `MutualExclusion` and `NoLostUpdate`. The
inductive invariant adds `LockHeld`: whoever is inside holds the lock and has read the present
count. It is guarded by `destructor # "done"`, as the theorems are; the run
`shutdown_twice` shows that it cannot be dropped.

**NtdsPortsProofs** (any number of ports, any set of non-zero device ids, any set of
non-empty descriptor lists, any of the header's statuses reported): `TypesKept`, `Packed`, `Complete`, `CurrentWasGiven`, `UpIfViable`,
`AsGiven`, and of `SpsInterface` `Agrees`. `TypesKept`
includes that a port is in range whenever it indexes a table; that needs `HeadInRange`, the
memory of a range check made several steps earlier. `Complete` needs `QueuesPaired`: a
publish queue exists only with its partner, but for the port at hand, so that
`createQueues`, which looks at the publish queue only, may skip both. While an entry is written, `StoresGood` says what it holds after
each store that is left: ports already shown, the head's, or a zero of an entry that is not counted; and `EntriesWhole` that every other entry is complete. The next three rest on `GivenInv`: the entry of a device is the
one that `assign_port_to_device` makes of the ports the device was given, in their order, once its last store is done (`EntriesMade`), a counted entry's current port is one of them after
every store (`CurrentGiven`), and
the flag saved for a port is the one it was last given with, but for a port that is assigned and not yet saved
(`SavedAsGiven`). As an entry has at most two ports, what the getters and the status of the interface say is then a matter of
cases on its shape. `Agrees` follows the call under way: what the caller has noted for the port is the head of the list
(`Calling`), and the layer has saved that head by the time the call returns (`HeadSaved`), unless the port was passed over.
`ReadinessAssumption`, that `Report_Port_Status` reports only statuses that the header names, is what `UpIfViable` needs of the caller.

**NtdsCommProofs** (any threads, names, ports, devices and lists): `RouteSafe`, `TrafficSafe`, `UpSafe` and `DownSafe`, and of `ReceiveBuffer` `UndisturbedReadOwn`.
The first rests on `CommInv`. Each step of `NtdsComm` is
a step of `NtdsPorts` or leaves its tables alone (`TablesMove`), so the invariant of `NtdsPortsProofs` carries
over. Added to it: `PortsMarked` (a primary or normal port never holds the mark of a missing
secondary port, which the calls do not test for), `MarkPromises` (a configured port has its
queues or is getting them), and `CallsRouted`, which a call takes from `RoutesComplete` or
`MarkPromises` when it finds its port and keeps, because usable ports stay usable (`ReadyStays`),
also when they are configured again, or which lets a Send go to port 0 if its device has strayed (`Strays`). `EntryIs` uses `TablePacked`: the entry that `get_port` finds is
the only one. The other three rest on `TrafficInv`, which adds the queues. `NextQueuesMove` reduces every action, for every queue, to
five moves (`CellMoves`): it stays, is opened by someone who had not opened it, closed by the process that leaves, added
to or taken from while it is up; what is kept is then shown once for each move. `TrafficSafe` needs that an entry of the
device table names only ports that the device was given, or a zero while it is not counted (`EntriesGiven`), that a call keeps such a port however
configuration goes on (`CallsGiven`), and that an up queue's semaphore never promises more than is there, so that a receiver
finds a message where it takes one. `UpSafe` and `DownSafe` need the users of a name counted: a queue that the partner has
not opened is there only because the process owns an end of it (`OneUser`), and one that is up is owned (`UpIsOwned`). That
`createQueues` opens the subscribe queue once (`MadeOnce`) is what keeps the process from being its own partner.
For `UndisturbedReadOwn` (any callers, ports and number of messages), `OwnSoFar` says, for every place of an
undisturbed caller, which halves of the buffer and of its reading are its own; `OneMessage`, that while no two copied at once the first half is
the copier's and before and after a copy the halves agree.

**QueueVariantsProofs**, of the C queue (any clients, slots and values): `CBacklogKept`, and `CRemovedOnlyByLast` for two clients. Until an
unlock strays or a flush meets a receiver that holds a token (`Kept`), who is in a section holds the mutex, the write slot is as many slots
after the read slot as there are messages, and the tokens, with those that clients hold, account for messages and room;
the account is what shows, when a message is stored, that its slot is free. `CRemovedOnlyByLast` assumes that the clients are `First` and one other,
as the code's comments have it ("Both queue clients
established", `InterprocessQueue.c:66-72`): the status word tells "one client" from "two" only, and with
three clients the second to leave would remove the queue.
Of the Win32 queue (any users, slots, values and width of the count): `SynchronizedHaveMet` and `Win32StoreKept`.
`WordKept`: a user that waits in `SynchronizeQueueUsers` still finds its own value in the shared word, or its partner has written there.
`StoreFits` keeps two balances, of messages and of room, each counted with the tokens that calls hold and those that died with a process.
They are multiples of the width of the count; until a destructor posts they are zero, and only then
is the ring in order (`StoreInOrder`).

**ThreadsProofs**, of `ThreadQueue` (any capacity, any pool): `PointersKept` and `NumbersInSequence`. `ThreadInv` counts from the producer's end, so
that it holds also after a problem: the pointers in the queue follow each other up to the latest that was added
(`PointersFollow`), the counts agree (`CountsAgree`), and a slot of the pool holds the number that its pointer stands for unless it was reused
(`ContentsFollow`). `SameSlot` says that two messages in one slot are a whole pool apart; a slot is therefore written again
before it is read only if the capacity exceeds the pool less two.
Of `QtQueueTest` (any capacity, starts and messages): `OneStartAccepts`. A consumer accepts a number only if it is the next after
the one before, from 1; so what matters is where number 1 is: with a producer, in the queue, in the consumer's hand or accepted, and at one of these only
(`FirstIsOnce`), while no two producers read the static counter at once (`doubled`). In the first start
the numbers in queue and hand follow what was accepted (`FirstInOrder`).
Of `FederateThreads` (any threads, starts and messages): `PassedOnceAlways`. Until the receiver throws a thread in the section holds the mutex
(`HoldsMutex`), so two are inside only after that; until they are, or an add meets a use of the list, the list goes on
where what was passed on ends, and the thread between `send` and `remove` has the list's first message in hand (`ListFollows`).
Of `FederateLinks` (any federates, handlers and post offices): `LinksMutual`. The invariant says that both
links are `Good`: mutual, and between objects that are there. A setter calls the other side's, which leaves an old
partner, and so passes through links that are not mutual. The lemmas about single writes and about `_set`
(`LeaveAndPointIs`) therefore ask only that the pointers are of the right kind, and say what they become; mutuality comes back in
`SetPartnerKeeps`, `SetFederateKeeps` and the two for the clean-ups.

**FileJoinerProofs** (any finite set of names, any sizes, buffer, space and number of clicks): `SegmentsJoined` and `ReportedAlways`. Two operators here
compute by recursion over a list: `LeastIndex` and `FlattenSeq`, with which `OutputIsJoin` says what the join is. Both are written
as recursive functions, and what they return for lists of every length is proved by induction in the form of `NatInduct`, which speaks of
a set of numbers and not of a predicate and follows from the least-element theorem of the library: that the function exists, that it is
unique (`FlatAgree`), that `FlattenSeq` of a list with one more part ends with that part (`FlattenAppend`), and that `LeastIndex` is
the place of a least name (`LeastIndexIs`). `JoinInv` says that the output is the whole files of the segments before the one at hand, then what was read of
that one (`Joined`). It needs that a click changes no file but the output (`SourcesKept`), that `feof` is known only at the segment's end (`AtHand`), that
no name is left twice (`NoneTwice`, without which the next name is not greater than those taken), and that the count
is the output's size until the space is reached (`Written`). Names are assumed to be finitely many natural numbers, for their order.

**Only model-checked.** Liveness (`AcceptedLeaves`, `MailArrives`, `TimedCallsReturn`, `ClickEnds`,
`Delivered`, `Served`, `EveryStopEnds`) is out of the prover's reach, as it needs ENABLED.
Every safety property of the passing runs, invariant or action property, is stated by a theorem (`RemovedOnlyByLast` for two clients). The
claims of the four runs that end in a violation are refuted by TLC, not by a proof. Type
invariants are stated where a proof uses them.

## 5. What is left out of the modelled parts, and why

* Message contents and sizes (a size larger than a slot overruns it: the code has no check,
  and what follows is undefined), logging, and time: a timeout may come at any moment at
  which the wait is not satisfied.
* The C++ queue's `exitFlag`, which only a call on an object already destroyed could see, and the
  swallowing of exceptions inside calls, whose operations do not throw on a valid mapping.
* What happens on a pointer that was never set or that has been freed: the models stop such a
  process (`failed`) or thread.
* In `QueueLifecycle` and `InterprocessQueue`: a constructor, which takes no lock, that runs in the middle of another process's section.
* The C queue before the first `create2` is done, and after the last `delete`.
* In `NtdsPorts`: the moments between the stores that `MarkConfigured` makes for one port.
* In `NtdsComm`: the queues'
  limit of 1000 messages; a partner that leaves; priorities, sizes and time limits of the calls.
* The older Win32 queue's contents, and a queue that is constructed after the names were removed. Of the federate's classes, those
  that are not in the repository: a call to them returns, refuses or throws.
* `find_mt_index` of the NTDS layer, which nothing calls.
* The dialogs and the log window of the file joiner, and an output that cannot be opened: the code does not look at the
  result of that `fopen` (`MTS_FileJoiner.cpp:97`) and would write through a NULL pointer.

The map covers a modest share of the repository's lines, and more cannot be had honestly. Of the longest files,
`ntds_comm.cpp` is for the larger part comments and function bodies that are commented out; `ntds_comm_.h` and
`sps49_io_.h` are comments, constants and declarations; `sps49_io.c` is one function and some two thousand lines of commented-out
tasks. `MTS_FileJoinerV2`, the second `Thread.cpp`, `Sleep.h` and `mainwindow.cpp` of the test programs and the Copy of the input thread repeat other
files, and a definition is mapped to one of them. What remains are generated window code and stubs that return a constant.

## 6. Where the code and its own words part

Shown by a run:

1. `queue_stale`: a full queue drops a message without its token; drained, it lets a
   receiver read a slot nobody wrote for it and return TRUE (`InterprocessQueue.cpp:240`, against
   282-284).
2. `life_race`: the creator's constructor may declare the interface down after the second
   user has declared it up, and both wait for ever (`:119`, against :172).
3. `shutdown_twice`: the destructor unlocks a mutex twice and opens another thread's section
   (`:150`, against :148).
4. `cqueue_unlock`: a timed-out call of the C queue unlocks a mutex it did not lock
   (`InterprocessQueue.c:495`, against 472).

Seen while reading, each a plain difference that needs no model: a full queue drops its
oldest although the header says FALSE (`InterprocessQueue.cpp:202-203`); the destructor's
extra post makes a receiver return TRUE with nothing (`:149`);
`waitOnQueueSynchronization` waits when both clients are there (`InterprocessQueue.c:382`);
`Configure_NTDS_Device` reads device and port from the head of its list only
(`ntds_comm.cpp:1748`, against 1621-1622); the count of configured ports counts a port twice that
is configured twice (`:1837`, against 318-320); a device given two ports of one kind loses
the first from its status (`:2592`, against 2559-2560); a port in use can be assigned and
initialized again while its device has one port (`:867`, against 1770-1771); a new entry's device is stored before its ports, so that a call in
between goes to port 0 (`:920`), whose queues may be missing or another device's; the name that a port gets
when the application gave none is overwritten by the copy that follows, and the queues are named
by the descriptor (`:1792` and 1808, against 1789);
two ports with one unit and one name string share their queues, and `sps49_io.c:218` gives
every port the name "R49" (`ntds_comm.cpp:382`); `Send_NTDS_Mesg` ignores its priority, which the header
says puts an urgent message in front (`ntds_comm_.h:1253-1255`), and never returns the
`DEVICE_NOT_CONFIGURED` listed there; all receivers are given the address of one static
buffer, the caller's being replaced (`ntds_comm.cpp:1965`); elapsed hours are seconds divided by 360 (`MTS_FileJoiner.cpp:144`).

## 7. Plan

Done, each with its proofs: `InterprocessQueue` with `LossyFifo`; `QueueLifecycle`; `QueueShutdown`; `InterprocessQueueC`;
`NtdsPorts`, `NtdsComm`, `ReceiveBuffer` and `SpsInterface`; `ThreadQueue`, `QtQueueTest`, `FederateThreads` and `FederateLinks`;
`Win32Queue`; `FileJoiner`.

Left:

1. A death in `InterprocessQueueC`, whose mutex and semaphores outlive the process as those of the C++ queue do.
2. An abstract FIFO that refuses, which `InterprocessQueueC` without flushes and stray unlocks implements, and `Win32Queue` until
   a refusal; with `BacklogKept` and `StoreKept` proved, each step needs only its refinement mapped.
3. Safety parts of what is live: that a message accepted by `InterprocessQueue` is never dropped but by an overflow, as an invariant
   with the message's place.
