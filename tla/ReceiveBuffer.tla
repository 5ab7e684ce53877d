--------------------------- MODULE ReceiveBuffer ---------------------------
(***************************************************************************)
(* What NtdsComm leaves out of Recv_NTDS_Mesg: every receiver is given the *)
(* address of one static buffer, timedGetMessage copies the message there  *)
(* while it holds the mutex of its queue, and the caller reads the buffer  *)
(* after the call has returned.  A message has two halves, so that copies  *)
(* and reads of two threads can overlap.                                   *)
(***************************************************************************)
EXTENDS Integers

CONSTANTS
  Callers,       \* threads that receive
  SubscribeOf,   \* caller -> the port, hence the queue, it receives on
  MaxReceived    \* bound: messages received

ASSUME ReceiveAssumption ==
  /\ Callers = DOMAIN SubscribeOf
  /\ MaxReceived \in Nat

Halves == 1..2
None == 0

VARIABLES
  buffer,      \* half -> the message it is of
  where,       \* caller -> where it stands
  ours,        \* caller -> the message it received
  read,        \* caller -> half -> what it read
  received,
  disturbed,   \* history: callers in whose receive or read another one copied
  crossed      \* history: two callers copied at the same time

bufferVars == <<buffer, where, ours, read, received, disturbed, crossed>>

Copying == {c \in Callers : where[c] \in {"copy1", "copy2"}}

BufferInit ==
  /\ buffer = [h \in Halves |-> None]
  /\ where = [c \in Callers |-> "out"]
  /\ ours = [c \in Callers |-> None]
  /\ read = [c \in Callers |-> [h \in Halves |-> None]]
  /\ received = 0
  /\ disturbed = {}
  /\ crossed = FALSE

Passes(c, from, to) == where[c] = from /\ where' = [where EXCEPT ![c] = to]
Using == {c \in Callers : where[c] # "out"}

(* The section of the queue's mutex begins, with a message to be copied.   *)
(* Mutant: the copy is made outside the section.                           *)
GetBeginsMutant(c) ==
  /\ received < MaxReceived
  /\ Passes(c, "out", "copy1")
  /\ received' = received + 1
  /\ ours' = [ours EXCEPT ![c] = received']
  /\ disturbed' = disturbed \ {c}
  /\ crossed' = (crossed \/ \E d \in Copying : SubscribeOf[d] # SubscribeOf[c])
  /\ UNCHANGED <<buffer, read>>

GetBegins(c) ==
  /\ \A d \in Copying : SubscribeOf[d] # SubscribeOf[c]
  /\ received < MaxReceived
  /\ Passes(c, "out", "copy1")
  /\ received' = received + 1
  /\ ours' = [ours EXCEPT ![c] = received']
  /\ disturbed' = disturbed \ {c}
  /\ crossed' = (crossed \/ Copying # {})
  /\ UNCHANGED <<buffer, read>>

CopyHalf(c, half, from, to) ==
  /\ Passes(c, from, to)
  /\ buffer' = [buffer EXCEPT ![half] = ours[c]]
  /\ disturbed' = disturbed \cup (Using \ {c})
  /\ UNCHANGED <<ours, read, received, crossed>>

(* Recv_NTDS_Mesg returns OK; the caller reads.                            *)
ReadHalf(c, half, from, to) ==
  /\ Passes(c, from, to)
  /\ read' = [read EXCEPT ![c][half] = buffer[half]]
  /\ UNCHANGED <<buffer, ours, received, disturbed, crossed>>

Leaves(c) ==
  /\ Passes(c, "read", "out")
  /\ UNCHANGED <<buffer, ours, read, received, disturbed, crossed>>

BufferNext ==
  \E c \in Callers :
    \/ GetBegins(c)
    \/ CopyHalf(c, 1, "copy1", "copy2") \/ CopyHalf(c, 2, "copy2", "returned")
    \/ ReadHalf(c, 1, "returned", "half") \/ ReadHalf(c, 2, "half", "read")
    \/ Leaves(c)

BufferSpec == BufferInit /\ [][BufferNext]_bufferVars
----------------------------------------------------------------------------
(* Properties *)

(* A caller reads the message it received unless another one's copy came   *)
(* between; and the buffer holds one whole message whenever nobody copies, *)
(* unless callers on different ports copied at once: on one port the       *)
(* queue's mutex keeps the copies apart.                                   *)
ReadsOwn ==
  /\ \A c \in Callers : where[c] = "read" /\ c \notin disturbed =>
       \A h \in Halves : read[c][h] = ours[c]
  /\ Copying = {} /\ ~crossed => buffer[1] = buffer[2]
=============================================================================
