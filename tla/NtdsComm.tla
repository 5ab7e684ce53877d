------------------------------ MODULE NtdsComm ------------------------------
(***************************************************************************)
(* Send_NTDS_Mesg and Recv_NTDS_Mesg over the tables of NtdsPorts, while   *)
(* the main thread configures devices and, at the end, leaves: the static  *)
(* QueueFactory then deletes the queues under the calls in progress.       *)
(*                                                                         *)
(* A queue of a port is a name in shared memory: unit and name string of   *)
(* the descriptor that the port got its queues with.  Nothing makes names  *)
(* of two ports differ.  The partner, a process of the framework, opens    *)
(* the two queues of a name and uses them the other way round.  A call of  *)
(* the queue is one step here (InterprocessQueue has its detail), and the  *)
(* queues, which hold 1000 messages, do not fill up.  Left out is the one  *)
(* buffer that all receivers get the address of: what a receiver is given  *)
(* here is what was copied for it.                                         *)
(***************************************************************************)
EXTENDS NtdsPorts

CONSTANTS
  Senders, Receivers,   \* application threads
  Names,                \* names of queues
  MaxMesgs              \* bound: messages sent and messages arriving

ASSUME CommAssumption ==
  /\ Senders \cap Receivers = {}
  /\ MaxMesgs \in Nat

VARIABLES
  queueName,   \* port -> the name that its queues have or will get
  shared,      \* direction -> name -> the queue in shared memory
  partner,     \* the names whose queues the partner has opened
  deleted,     \* the queue objects deleted: <<direction, port>>
  exit,        \* "running", "leaving" (static objects destroyed), "left"
  pc,          \* thread -> where its call stands
  device,      \* thread -> the device it was called for
  port,        \* thread -> the port that it found
  mesg,        \* thread -> what its latest call was given: the queue's name
  strayed,     \* history: devices of which a call has found a port that its
               \*   entry does not have, because it was not stored yet
  sent, arrived

callers == <<pc, device, port, mesg, strayed>>
counts == <<sent, arrived>>
commVars == <<vars, queueName, shared, partner, deleted, exit, callers, counts>>

Threads == Senders \cup Receivers
Directions == {"pub", "sub"}

Unused == [there |-> FALSE, up |-> FALSE, tokens |-> 0, content |-> <<>>]

CommInit ==
  /\ Init
  /\ queueName \in [Ports -> Names]
  /\ shared = [dir \in Directions |-> [n \in Names |-> Unused]]
  /\ partner = {}
  /\ deleted = {}
  /\ exit = "running"
  /\ pc = [t \in Threads |-> "idle"]
  /\ device = [t \in Threads |-> 0]
  /\ port = [t \in Threads |-> 0]
  /\ mesg = [t \in Threads |-> {}]
  /\ strayed = {}
  /\ sent = 0
  /\ arrived = 0
----------------------------------------------------------------------------
(* The queues.                                                             *)

(* The constructor: the first user makes the queue; any later one, of the  *)
(* same process or not, builds the semaphores again and declares it up.    *)
Opened(q) ==
  IF q.there THEN [q EXCEPT !.up = TRUE, !.tokens = 0]
             ELSE [Unused EXCEPT !.there = TRUE]

(* The destructor removes the name and takes the interface down.           *)
Closed(q) == [q EXCEPT !.there = FALSE, !.up = FALSE, !.tokens = @ + 1]

Open(dir, n) == shared' = [shared EXCEPT ![dir][n] = Opened(@)]

(* timedAddMessage and timedGetMessage; both return FALSE when it is down. *)
Add(dir, n, m) ==
  /\ shared[dir][n].up
  /\ shared' = [shared EXCEPT ![dir][n].content = Append(@, m),
                              ![dir][n].tokens = @ + 1]

CanGet(dir, n) == shared[dir][n].up /\ shared[dir][n].tokens > 0

Get(dir, n) ==
  /\ CanGet(dir, n)
  /\ shared' = [shared EXCEPT ![dir][n].content = Tail(@),
                              ![dir][n].tokens = @ - 1]

(* Each port's queue objects: created, not yet deleted, pointer not NULL.  *)
HasPublish(p) == publishQueue[p] /\ <<"pub", p>> \notin deleted
HasSubscribe(p) == subscribeQueue[p] /\ <<"sub", p>> \notin deleted
----------------------------------------------------------------------------
(* The main thread configures.                                             *)

Configure ==
  /\ exit = "running"
  /\ \/ \E descriptors \in Lists : Configure_NTDS_Device(descriptors)
     \/ AssignPort
     \/ StoreField
     \/ RefusePort
     \/ SkipPort
     \/ MarkConfigured
     \/ EndOfList
  /\ UNCHANGED <<queueName, shared, partner, deleted, exit, callers, counts>>

(* createQueues.  Mutant: a queue that is there is opened again.           *)
OpenPublishQueueMutant ==
  /\ CreatePublishQueue
  /\ Open("pub", queueName[head.port])
  /\ UNCHANGED <<queueName, partner, deleted, exit, callers, counts>>

OpenPublishQueue ==
  /\ CreatePublishQueue
  /\ IF publishQueue[head.port] THEN UNCHANGED shared
                                ELSE Open("pub", queueName[head.port])
  /\ UNCHANGED <<queueName, partner, deleted, exit, callers, counts>>

OpenSubscribeQueue ==
  /\ CreateSubscribeQueue
  /\ Open("sub", queueName[head.port])
  /\ UNCHANGED <<queueName, partner, deleted, exit, callers, counts>>
----------------------------------------------------------------------------
(* The partner.                                                            *)

PartnerOpens(n) ==
  /\ n \notin partner
  /\ partner' = partner \cup {n}
  /\ shared' = [dir \in Directions |-> [shared[dir] EXCEPT ![n] = Opened(@)]]
  /\ UNCHANGED <<vars, queueName, deleted, exit, callers, counts>>

PartnerSends(n) ==
  /\ n \in partner
  /\ arrived < MaxMesgs
  /\ arrived' = arrived + 1
  /\ Add("sub", n, n)
  /\ UNCHANGED <<vars, queueName, partner, deleted, exit, callers, sent>>

PartnerTakes(n) ==
  /\ n \in partner
  /\ Get("pub", n)
  /\ UNCHANGED <<vars, queueName, partner, deleted, exit, callers, counts>>
----------------------------------------------------------------------------
(* Send_NTDS_Mesg and Recv_NTDS_Mesg.  A device without an entry, or       *)
(* without a port of the kind, is refused, which changes nothing.          *)

Goto(t, from, to) == pc[t] = from /\ pc' = [pc EXCEPT ![t] = to]

(* get_port.  Mutant: the search stops at the first entry in use.          *)
get_portMutant(d) == Device_Ports[0]
get_port(d) == Entry(d)

(* The zero that a call reads before its device's first port is stored.    *)
Unstored(d, found) == Entry(d).count = 0 /\ found # head.port

(* A call that has found its port.                                         *)
FindPort(t, d, found, to) ==
  /\ HasEntry(d)
  /\ found # NO_PRIMARY_PORT
  /\ Goto(t, "idle", to)
  /\ device' = [device EXCEPT ![t] = d]
  /\ port' = [port EXCEPT ![t] = found]
  /\ mesg' = [mesg EXCEPT ![t] = {}]
  /\ strayed' = IF Unstored(d, found) THEN strayed \cup {d} ELSE strayed
  /\ UNCHANGED <<vars, queueName, shared, partner, deleted, exit, counts>>

Send_NTDS_Mesg(s, d) == FindPort(s, d, get_port(d).primary_port, "send")

Publish(s) ==
  /\ HasPublish(port[s])
  /\ Goto(s, "send", "idle")
  /\ \/ /\ sent < MaxMesgs
        /\ sent' = sent + 1
        /\ Add("pub", queueName[port[s]], device[s])
     \/ /\ ~shared["pub"][queueName[port[s]]].up
        /\ UNCHANGED <<shared, sent>>
  /\ UNCHANGED <<vars, queueName, partner, deleted, exit, device, port, mesg,
                 strayed, arrived>>

Recv_NTDS_Mesg(r, d) == FindPort(r, d, get_port(d).normal_port, "check")

GoOn(r, next) ==
  /\ Goto(r, "check", next)
  /\ UNCHANGED <<vars, queueName, shared, partner, deleted, exit, device, port,
                 mesg, strayed, counts>>

(* With WAIT_FOREVER it polls, otherwise it tries once.  Mutant: a port    *)
(* that is not configured is polled too.                                   *)
CheckConfiguredMutant(r) == \E next \in {"poll", "try"} : GoOn(r, next)
CheckConfigured(r) ==
  \E next \in {"poll", "try"} :
    GoOn(r, IF Comm_Configured[port[r]] THEN next ELSE "idle")

Take(r, dir) ==
  LET n == queueName[port[r]]
  IN  /\ HasSubscribe(port[r])
      /\ Get(dir, n)
      /\ mesg' = [mesg EXCEPT ![r] = {Head(shared[dir][n].content)}]
      /\ UNCHANGED <<vars, queueName, partner, deleted, exit, device, port, strayed,
                     counts>>

(* A poll that finds nothing changes nothing.  Mutant: the wrong queue.    *)
PollMutant(r) == Goto(r, "poll", "idle") /\ Take(r, "pub")
Poll(r) == Goto(r, "poll", "idle") /\ Take(r, "sub")

TryOnce(r) == Goto(r, "try", "idle") /\ Take(r, "sub")

TryInVain(r) ==
  /\ HasSubscribe(port[r])
  /\ ~CanGet("sub", queueName[port[r]])
  /\ Goto(r, "try", "idle")
  /\ UNCHANGED <<vars, queueName, shared, partner, deleted, exit, device, port,
                 mesg, strayed, counts>>

(* A call that uses a queue that is not there is undefined: the model lets *)
(* the thread stop.                                                        *)
UseNothing(t) ==
  /\ \/ pc[t] = "send" /\ ~HasPublish(port[t])
     \/ pc[t] \in {"poll", "try"} /\ ~HasSubscribe(port[t])
  /\ pc' = [pc EXCEPT ![t] = "broken"]
  /\ UNCHANGED <<vars, queueName, shared, partner, deleted, exit, device, port,
                 mesg, strayed, counts>>
----------------------------------------------------------------------------
(* The main thread leaves when it is not configuring: ~QueueFactory.       *)

Leave ==
  /\ exit = "running"
  /\ stage = "idle"
  /\ exit' = "leaving"
  /\ UNCHANGED <<vars, queueName, shared, partner, deleted, callers, counts>>

Created == {q \in Directions \X Ports :
              IF q[1] = "pub" THEN publishQueue[q[2]] ELSE subscribeQueue[q[2]]}

(* Port by port, the publish queue before the subscribe queue.             *)
Before(q, r) == q[2] < r[2] \/ (q[2] = r[2] /\ q[1] = "pub")

(* Mutant: the subscribe queues are forgotten.                             *)
ToDeleteMutant == {q \in Created \ deleted : q[1] = "pub"}
ToDelete == Created \ deleted

DeleteQueue ==
  /\ exit = "leaving"
  /\ \E q \in ToDelete :
       /\ \A r \in ToDelete : Before(q, r) \/ q = r
       /\ deleted' = deleted \cup {q}
       /\ shared' = [shared EXCEPT ![q[1]][queueName[q[2]]] = Closed(@)]
  /\ UNCHANGED <<vars, queueName, partner, exit, callers, counts>>

Left ==
  /\ exit = "leaving"
  /\ ToDelete = {}
  /\ exit' = "left"
  /\ UNCHANGED <<vars, queueName, shared, partner, deleted, callers, counts>>
----------------------------------------------------------------------------
SendStep(s) ==
  \/ \E d \in Devices : Send_NTDS_Mesg(s, d)
  \/ Publish(s)
  \/ UseNothing(s)

PollStep(r) == Poll(r) \/ UseNothing(r)

RecvStep(r) ==
  \/ \E d \in Devices : Recv_NTDS_Mesg(r, d)
  \/ CheckConfigured(r)
  \/ TryOnce(r)
  \/ TryInVain(r)

(* Once the process has left, its threads take no step.                    *)
CommNext ==
  \/ Configure
  \/ OpenPublishQueue
  \/ OpenSubscribeQueue
  \/ \E n \in Names : PartnerOpens(n) \/ PartnerSends(n) \/ PartnerTakes(n)
  \/ exit # "left" /\ \E s \in Senders : SendStep(s)
  \/ exit # "left" /\ \E r \in Receivers : RecvStep(r) \/ PollStep(r)
  \/ Leave
  \/ DeleteQueue
  \/ Left

(* A receiver that polls goes on polling.                                  *)
CommSpec ==
  /\ CommInit
  /\ [][CommNext]_commVars
  /\ \A r \in Receivers : WF_commVars(exit # "left" /\ PollStep(r))
----------------------------------------------------------------------------
(* Properties *)

(* A call that has found its port, and has not seen that it is not         *)
(* configured, has the queue that it is going to use (only the exit        *)
(* deletes it again), unless that port is just being configured, or the    *)
(* call is a Send of a device whose entry showed port 0 before its own was *)
(* stored.  Recv_NTDS_Mesg, which looks at Comm_Configured, is exposed for *)
(* a shorter time, and never to that zero.                                 *)
RouteThere ==
  /\ \A s \in Senders :
       pc[s] = "send" =>
         \/ publishQueue[port[s]]
         \/ Configuring(port[s])
         \/ port[s] = 0 /\ device[s] \in strayed
  /\ \A r \in Receivers :
       pc[r] \in {"poll", "try"} =>
         \/ subscribeQueue[port[r]]
         \/ Configuring(port[r]) /\ stage \in {"configured", "published"}

(* No two ports have got queues of one name.                               *)
NamesApart ==
  \A p, q \in Ports :
    publishQueue[p] /\ publishQueue[q] /\ queueName[p] = queueName[q] => p = q

(* A queue is up only if the partner is there, as getQueueState is taken   *)
(* to say, however often a port is configured, unless two ports share      *)
(* the name: then the process is its own partner.                          *)
UpMeansPartner ==
  NamesApart =>
    \A dir \in Directions, n \in Names : shared[dir][n].up => n \in partner

(* What a device sends leaves by a queue of a port it was given, and what  *)
(* its receivers get has come by one: tables, pointers and names agree,    *)
(* also for a call that found its port before a later configuration.  A    *)
(* device of which a call has strayed may have used the queues of port 0   *)
(* instead, and no others.                                                 *)
NamesOf(d) == {queueName[given[d][k].port] : k \in 1..Len(given[d])}
NamesUsed(d) == NamesOf(d) \cup (IF d \in strayed THEN {queueName[0]} ELSE {})
TrafficIsOwn ==
  /\ \A n \in Names : \A i \in 1..Len(shared["pub"][n].content) :
       n \in NamesUsed(shared["pub"][n].content[i])
  /\ \A r \in Receivers : mesg[r] # {} => mesg[r] \subseteq NamesUsed(device[r])

(* A receiver that waits for ever on the port which is the normal port of  *)
(* its device gets the message that is there, or another receiver does,    *)
(* unless queues of one name are mixed up or the process leaves.           *)
Polls(r) == pc[r] = "poll" /\ port[r] = Get_Normal_NTDS_Port(device[r])
Mail(r) == LET q == shared["sub"][queueName[port[r]]] IN q.up /\ q.content # <<>>
MailArrives ==
  \A r \in Receivers :
    Polls(r) /\ Mail(r) ~> ~Polls(r) \/ ~Mail(r) \/ ~NamesApart \/ exit # "running"

(* A process that has left has taken down every interface, so that no      *)
(* partner believes it to be there.                                        *)
DownAfterExit ==
  exit = "left" => \A dir \in Directions, n \in Names : ~shared[dir][n].up
=============================================================================
